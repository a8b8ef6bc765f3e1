------------------------------ MODULE Lifecycle ------------------------------
(***************************************************************************)
(* The life of ggproxy server processes on one *nix host: `ggproxy serve`  *)
(* (cmd/ggproxy/serve_unix.go), the PID file and the command socket in     *)
(* /tmp/ggproxy (cmd_unix.go), termination signals                         *)
(* (register_stop_unix.go), and the clients that talk to the command       *)
(* socket, `ggproxy stop` among them (stop_unix.go).                       *)
(*                                                                         *)
(* Every goroutine of a process is an actor here: main, the command        *)
(* server, its connection handlers, the goroutine that closes the command  *)
(* listener, RegisterStop's, and for each of the two servers the goroutine *)
(* in Serve and the one in Shutdown.  fasthttp, net/http, the file system  *)
(* and the socket layer are external: what they do is modelled from how    *)
(* the code calls them.                                                    *)
(***************************************************************************)
EXTENDS Integers, FiniteSets

CONSTANTS
  Procs,     \* launches of `ggproxy serve`, each a process of its own
  Clients,   \* connections made to the command socket
  Commands,  \* what clients may send: "stop", "reload", "stats", "unknown"
  Configs,   \* what a launch may read: "invalid", "noapi", "api"
  Events,    \* what the environment may do: "signal", "request", and the
             \* faults "kill", "bind", "disk", "accept"
  None       \* no process

ASSUME LifecycleAssumption ==
  /\ Commands \subseteq {"stop", "reload", "stats", "unknown"}
  /\ Configs  \subseteq {"invalid", "noapi", "api"}
  /\ Events   \subseteq {"signal", "request", "kill", "bind", "disk", "accept"}
  /\ None \notin Procs

Servers == {"proxy", "api"}

VARIABLES
  main,         \* main[p]: where the main goroutine (func serve) is
  config,       \* config[p]: the configuration p read
  wg,           \* wg[p]: the counter of the WaitGroup
  cmd,          \* cmd[p]: where runCmdSockServer is
  listener,     \* listener[p]: p's command socket listener
  signalled,    \* signalled[p]: channel interrupt (capacity 1) is full
  explicitStop, \* explicitStop[p]: that channel is closed
  stopTriggered,\* stopTriggered[p]: that channel is closed
  stopped,      \* stopped[p]: that channel is closed
  srv,          \* srv[p][s]: the call of Serve of server s
  shut,         \* shut[p][s]: the goroutine that calls Shutdown on s
  busy,         \* busy[p][s]: some request is in flight in s
  pidFile,      \* ggproxy.pid: does it exist, and whose id does it hold
  linked,       \* the processes whose open handle is the file on that path
  sock,         \* ggproxy_cmd.sock: the process that bound the path
  client,       \* client[c]: where the client is, in the end its outcome
  request,      \* request[c]: the command it sent
  peer,         \* peer[c]: the process it is connected to
  handler       \* handler[c]: that process's end of the connection

procVars   == <<main, config, wg, cmd, listener>>
stopVars   == <<signalled, explicitStop, stopTriggered, stopped>>
serverVars == <<srv, shut, busy>>
fileVars   == <<pidFile, linked>>
clientVars == <<client, request, peer, handler>>
vars == <<procVars, stopVars, serverVars, fileVars, sock, clientVars>>

Ended(p) == main[p] \in {"exited", "crashed"}
Alive(p) == main[p] \notin {"off", "exited", "crashed"}

NoFile == [exists |-> FALSE, pid |-> None]

Init ==
  /\ main   = [p \in Procs |-> "off"]
  /\ config = [p \in Procs |-> "unread"]
  /\ wg     = [p \in Procs |-> 0]
  /\ cmd      = [p \in Procs |-> "none"]
  /\ listener = [p \in Procs |-> "none"]
  /\ signalled     = [p \in Procs |-> FALSE]
  /\ explicitStop  = [p \in Procs |-> FALSE]
  /\ stopTriggered = [p \in Procs |-> FALSE]
  /\ stopped       = [p \in Procs |-> FALSE]
  /\ srv  = [p \in Procs |-> [s \in Servers |-> "none"]]
  /\ shut = [p \in Procs |-> [s \in Servers |-> "none"]]
  /\ busy = [p \in Procs |-> [s \in Servers |-> FALSE]]
  /\ pidFile = NoFile
  /\ linked  = {}
  /\ sock    = None
  /\ client  = [c \in Clients |-> "idle"]
  /\ request = [c \in Clients |-> "none"]
  /\ peer    = [c \in Clients |-> None]
  /\ handler = [c \in Clients |-> "none"]

-----------------------------------------------------------------------------
(* The main goroutine, from the start of the process to its end.           *)

Go(p, from, to) == main[p] = from /\ main' = [main EXCEPT ![p] = to]

\* The process ends at once: a panic no one recovers, os.Exit in a fatal log
\* line, or SIGKILL.  No deferred call runs, so its files stay behind.
Crash(p) ==
  /\ main' = [main EXCEPT ![p] = "crashed"]
  /\ UNCHANGED <<config, wg, cmd, listener, stopVars, serverVars, fileVars,
                 sock, clientVars>>

\* ReadConfig returns nil: serve returns before it has touched anything.
LaunchRejected(p) ==
  /\ Go(p, "off", "exited")
  /\ "invalid" \in Configs
  /\ config' = [config EXCEPT ![p] = "invalid"]
  /\ UNCHANGED <<wg, cmd, listener, stopVars, serverVars, fileVars, sock,
                 clientVars>>

\* ReadConfig, NewProxy, wg.Add(2) and RegisterStop.
Launch(p) ==
  /\ Go(p, "off", "api")
  /\ \E conf \in Configs \ {"invalid"} :
       config' = [config EXCEPT ![p] = conf]
  /\ wg' = [wg EXCEPT ![p] = 2]
  /\ UNCHANGED <<cmd, listener, stopVars, serverVars, fileVars, sock,
                 clientVars>>

\* wg.Add(1) for the API server.
AddAPI_Forgotten(p) == wg' = wg   \* variant: the call is missing
AddAPI(p) == wg' = [wg EXCEPT ![p] = @ + 1]

ConfigureAPI(p) ==
  /\ Go(p, "api", "check")
  /\ config[p] = "api"
  /\ AddAPI(p)
  /\ UNCHANGED <<config, cmd, listener, stopVars, serverVars, fileVars, sock,
                 clientVars>>

\* conf.API is nil when the configuration has no api section, and the test of
\* conf.API.Host dereferences it.
ConfigureNilAPI(p) == main[p] = "api" /\ config[p] = "noapi" /\ Crash(p)

\* createRuntimeDir takes three steps on the shared directory: it reads the PID
\* file, creates (truncates) it, and writes its own process id into it.
RefuseLaunch(p) ==
  /\ Go(p, "check", "refused")
  /\ pidFile.exists /\ pidFile.pid # None
  /\ UNCHANGED <<config, wg, cmd, listener, stopVars, serverVars, fileVars,
                 sock, clientVars>>

PassCheck(p) ==
  /\ Go(p, "check", "create")
  /\ ~pidFile.exists \/ pidFile.pid = None
  /\ UNCHANGED <<config, wg, cmd, listener, stopVars, serverVars, fileVars,
                 sock, clientVars>>

CreatePID(p) ==
  /\ Go(p, "create", "write")
  /\ pidFile' = [exists |-> TRUE, pid |-> None]
  /\ linked' = linked \cup {p}
  /\ UNCHANGED <<config, wg, cmd, listener, stopVars, serverVars, sock,
                 clientVars>>

\* A handle whose file was removed in the meantime writes to no visible file.
WritePID(p) ==
  /\ Go(p, "write", "await")
  /\ pidFile' = IF p \in linked THEN [pidFile EXCEPT !.pid = p] ELSE pidFile
  /\ cmd' = [cmd EXCEPT ![p] = "starting"]
  /\ UNCHANGED <<config, wg, listener, linked, stopVars, serverVars, sock,
                 clientVars>>

RemovePID == pidFile' = NoFile /\ linked' = {}

\* os.Create or WriteString reports an error: the launch ends, the latter only
\* after it has removed the file.
CreateFails(p) ==
  /\ Go(p, "create", "exited")
  /\ "disk" \in Events
  /\ UNCHANGED <<config, wg, cmd, listener, stopVars, serverVars, fileVars,
                 sock, clientVars>>

WriteFails_FileStays(p) ==   \* variant: without that
  /\ Go(p, "write", "exited")
  /\ "disk" \in Events
  /\ UNCHANGED <<config, wg, cmd, listener, stopVars, serverVars, fileVars,
                 sock, clientVars>>

WriteFails(p) ==
  /\ Go(p, "write", "exited")
  /\ "disk" \in Events
  /\ RemovePID
  /\ UNCHANGED <<config, wg, cmd, listener, stopVars, serverVars, sock,
                 clientVars>>

\* createRuntimeDir returned nil: serve returns, and with it main.
RefusedReturns(p) ==
  /\ Go(p, "refused", "exited")
  /\ UNCHANGED <<config, wg, cmd, listener, stopVars, serverVars, fileVars,
                 sock, clientVars>>

\* started<-true and <-cmdServerStarted meet; main starts the goroutines of the
\* API server and of the proxy's Shutdown, and enters the proxy's Serve.
CmdStarted(p) ==
  /\ cmd[p] = "offer"
  /\ Go(p, "await", "serve")
  /\ cmd'  = [cmd EXCEPT ![p] = "accepting"]
  /\ srv'  = [srv EXCEPT ![p] = [s \in Servers |-> "unbound"]]
  /\ shut' = [shut EXCEPT ![p] = [s \in Servers |-> "armed"]]
  /\ UNCHANGED <<config, wg, listener, busy, stopVars, fileVars, sock,
                 clientVars>>

\* started<-false: main aborts the launch, by way of the deferred cleanup, but
\* runCmdSockServer does not return and goes on with a nil listener.
CmdAborted(p) ==
  /\ cmd[p] = "failed"
  /\ Go(p, "await", "cleanup")
  /\ cmd' = [cmd EXCEPT ![p] = "stuck"]
  /\ UNCHANGED <<config, wg, listener, stopVars, serverVars, fileVars, sock,
                 clientVars>>

\* wg.Wait() returns.
AllReturned_NotAwaited(p) == TRUE   \* variant: no wg.Wait
AllReturned(p) == wg[p] = 0

Join(p) ==
  /\ AllReturned(p)
  /\ Go(p, "join", "cleanup")
  /\ stopped' = [stopped EXCEPT ![p] = TRUE]
  /\ UNCHANGED <<config, wg, cmd, listener, signalled, explicitStop,
                 stopTriggered, serverVars, fileVars, sock, clientVars>>

\* Variant: the cleanup removes both files createRuntimeDir's comment names.
Cleanup_BothFiles(p) ==
  /\ Go(p, "cleanup", "leave")
  /\ RemovePID
  /\ sock' = None
  /\ UNCHANGED <<config, wg, cmd, listener, stopVars, serverVars, clientVars>>

\* The deferred cleanup: os.Remove of the path, whoever's file it is by now.
Cleanup(p) ==
  /\ Go(p, "cleanup", "leave")
  /\ RemovePID
  /\ UNCHANGED <<config, wg, cmd, listener, stopVars, serverVars, sock,
                 clientVars>>

\* main returns, and every other goroutine of the process ends with it.
Exit(p) ==
  /\ Go(p, "leave", "exited")
  /\ UNCHANGED <<config, wg, cmd, listener, stopVars, serverVars, fileVars,
                 sock, clientVars>>

Kill(p) == "kill" \in Events /\ Alive(p) /\ Crash(p)

-----------------------------------------------------------------------------
(* Signals and RegisterStop.                                               *)

Signal(p) ==
  /\ "signal" \in Events /\ Alive(p)
  /\ signalled' = [signalled EXCEPT ![p] = TRUE]
  /\ UNCHANGED <<procVars, explicitStop, stopTriggered, stopped, serverVars,
                 fileVars, sock, clientVars>>

\* The channels the select is waiting on.
StopRequested_SignalOnly(p) == signalled[p]   \* variant: one case is missing
StopRequested(p) == explicitStop[p] \/ signalled[p]

\* The select takes one of the ready channels, and then the goroutine is gone:
\* what arrives on interrupt later is never read.
TriggerStop(p) ==
  /\ Alive(p)
  /\ ~stopTriggered[p]
  /\ StopRequested(p)
  /\ \/ explicitStop[p] /\ UNCHANGED signalled
     \/ signalled[p] /\ signalled' = [signalled EXCEPT ![p] = FALSE]
  /\ stopTriggered' = [stopTriggered EXCEPT ![p] = TRUE]
  /\ UNCHANGED <<procVars, explicitStop, stopped, serverVars, fileVars, sock,
                 clientVars>>

-----------------------------------------------------------------------------
(* The command server.                                                     *)

\* wg.Done().
Done_Forgotten(p) == wg' = wg   \* variant: the call is missing
Done(p) == wg' = [wg EXCEPT ![p] = @ - 1]

\* net.Listen fails when the path exists, a stale one included.
PathFree_Unlinked == TRUE   \* variant: a path that exists is removed first
PathFree == sock = None

CmdListen(p) ==
  /\ Alive(p)
  /\ cmd[p] = "starting"
  /\ PathFree
  /\ sock' = p
  /\ listener' = [listener EXCEPT ![p] = "open"]
  /\ cmd' = [cmd EXCEPT ![p] = "offer"]
  /\ UNCHANGED <<main, config, wg, stopVars, serverVars, fileVars, clientVars>>

CmdListenFails(p) ==
  /\ Alive(p)
  /\ cmd[p] = "starting"
  /\ ~PathFree
  /\ cmd' = [cmd EXCEPT ![p] = "failed"]
  /\ UNCHANGED <<main, config, wg, listener, stopVars, serverVars, fileVars,
                 sock, clientVars>>

\* lt.Close(): unlinks the path and closes the listener.
CloseListener(p) ==
  /\ Alive(p)
  /\ stopTriggered[p]
  /\ listener[p] = "open"
  /\ listener' = [listener EXCEPT ![p] = "closed"]
  /\ sock' = None
  /\ UNCHANGED <<main, config, wg, cmd, stopVars, serverVars, fileVars,
                 clientVars>>

\* The same goroutine after a failed Listen: lt is nil.
CloseNilListener(p) ==
  Alive(p) /\ cmd[p] = "stuck" /\ stopTriggered[p] /\ Crash(p)

\* Accept reports net.ErrClosed, or another error after which the loop ends
\* with the listener still open.
CmdReturn(p) ==
  /\ Alive(p)
  /\ cmd[p] = "accepting"
  /\ listener[p] = "closed" \/ "accept" \in Events
  /\ cmd' = [cmd EXCEPT ![p] = "done"]
  /\ Done(p)
  /\ UNCHANGED <<main, config, listener, stopVars, serverVars, fileVars, sock,
                 clientVars>>

CmdAccept(p, c) ==
  /\ Alive(p)
  /\ cmd[p] = "accepting" /\ listener[p] = "open"
  /\ peer[c] = p /\ handler[c] = "queued"
  /\ handler' = [handler EXCEPT ![c] = "reading"]
  /\ UNCHANGED <<procVars, stopVars, serverVars, fileVars, sock, client,
                 request, peer>>

HandleStop(p, c) ==
  /\ Alive(p)
  /\ peer[c] = p /\ handler[c] = "reading" /\ request[c] = "stop"
  /\ ~explicitStop[p]
  /\ explicitStop' = [explicitStop EXCEPT ![p] = TRUE]
  /\ handler' = [handler EXCEPT ![c] = "waiting"]
  /\ UNCHANGED <<procVars, signalled, stopTriggered, stopped, serverVars,
                 fileVars, sock, client, request, peer>>

\* close(explicitStop) panics once another connection's stop has closed it.
HandleSecondStop(p, c) ==
  /\ Alive(p)
  /\ peer[c] = p /\ handler[c] = "reading" /\ request[c] = "stop"
  /\ explicitStop[p]
  /\ Crash(p)

\* <-stopped, then the reply.
ReplyOk(p, c) ==
  /\ Alive(p)
  /\ peer[c] = p /\ handler[c] = "waiting"
  /\ stopped[p]
  /\ handler' = [handler EXCEPT ![c] = "ok"]
  /\ UNCHANGED <<procVars, stopVars, serverVars, fileVars, sock, client,
                 request, peer>>

\* reload and stats are answered with an error; any other message ends the
\* handler, which leaves the connection to the finalizer of the net.Conn.
HandleOther(p, c) ==
  /\ Alive(p)
  /\ peer[c] = p /\ handler[c] = "reading" /\ request[c] # "stop"
  /\ handler' = [handler EXCEPT
                   ![c] = IF request[c] = "unknown" THEN "dropped" ELSE "err"]
  /\ UNCHANGED <<procVars, stopVars, serverVars, fileVars, sock, client,
                 request, peer>>

-----------------------------------------------------------------------------
(* The proxy server (fasthttp) and the API server (net/http).              *)

PortHeld(p, s) == \E q \in Procs \ {p} : Alive(q) /\ srv[q][s] = "listening"

\* ListenAndServe, up to the point where Shutdown can see the listener.
Bind(p, s) ==
  /\ Alive(p)
  /\ srv[p][s] = "unbound"
  /\ s = "api" => shut[p][s] = "armed"
  /\ ~PortHeld(p, s)
  /\ srv' = [srv EXCEPT ![p][s] = "listening"]
  /\ UNCHANGED <<procVars, stopVars, shut, busy, fileVars, sock, clientVars>>

\* net/http remembers an earlier Shutdown, and Serve returns at once.
ServeAfterShutdown(p) ==
  /\ Alive(p)
  /\ srv[p]["api"] = "unbound" /\ shut[p]["api"] # "armed"
  /\ srv' = [srv EXCEPT ![p]["api"] = "returned"]
  /\ Done(p)
  /\ UNCHANGED <<main, config, cmd, listener, stopVars, shut, busy, fileVars,
                 sock, clientVars>>

\* The port is taken, by another process of ours or by a foreign one: Fatal.
BindFails(p, s) ==
  /\ Alive(p)
  /\ srv[p][s] = "unbound"
  /\ PortHeld(p, s) \/ "bind" \in Events
  /\ Crash(p)

\* Shutdown closes the listener, then waits for the requests in flight.
CallShutdown(p, s) ==
  /\ Alive(p)
  /\ stopTriggered[p]
  /\ shut[p][s] = "armed" /\ srv[p][s] = "listening"
  /\ srv'  = [srv EXCEPT ![p][s] = "closed"]
  /\ shut' = [shut EXCEPT ![p][s] = "draining"]
  /\ UNCHANGED <<procVars, stopVars, busy, fileVars, sock, clientVars>>

\* With no listener yet Shutdown has nothing to do and returns; fasthttp, unlike
\* net/http, does not remember the call.
CallShutdownEarly(p, s) ==
  /\ Alive(p)
  /\ stopTriggered[p]
  /\ shut[p][s] = "armed" /\ srv[p][s] # "listening"
  /\ shut' = [shut EXCEPT ![p][s] = "done"]
  /\ UNCHANGED <<procVars, stopVars, srv, busy, fileVars, sock, clientVars>>

ShutdownReturns(p, s) ==
  /\ Alive(p)
  /\ shut[p][s] = "draining" /\ ~busy[p][s]
  /\ shut' = [shut EXCEPT ![p][s] = "done"]
  /\ UNCHANGED <<procVars, stopVars, srv, busy, fileVars, sock, clientVars>>

\* Both servers' Serve return once the listener is closed; neither waits for
\* the requests in flight.  The proxy's was called by main.
ProxyServeReturns(p) ==
  /\ Go(p, "serve", "join")
  /\ srv[p]["proxy"] = "closed"
  /\ srv' = [srv EXCEPT ![p]["proxy"] = "returned"]
  /\ Done(p)
  /\ UNCHANGED <<config, cmd, listener, stopVars, shut, busy, fileVars, sock,
                 clientVars>>

ApiServeReturns(p) ==
  /\ Alive(p)
  /\ srv[p]["api"] = "closed"
  /\ srv' = [srv EXCEPT ![p]["api"] = "returned"]
  /\ Done(p)
  /\ UNCHANGED <<main, config, cmd, listener, stopVars, shut, busy, fileVars,
                 sock, clientVars>>

BeginRequest(p, s) ==
  /\ "request" \in Events /\ Alive(p)
  /\ srv[p][s] = "listening" /\ ~busy[p][s]
  /\ busy' = [busy EXCEPT ![p][s] = TRUE]
  /\ UNCHANGED <<procVars, stopVars, srv, shut, fileVars, sock, clientVars>>

EndRequest(p, s) ==
  /\ Alive(p)
  /\ busy[p][s]
  /\ busy' = [busy EXCEPT ![p][s] = FALSE]
  /\ UNCHANGED <<procVars, stopVars, srv, shut, fileVars, sock, clientVars>>

-----------------------------------------------------------------------------
(* Clients of the command socket (func request).                           *)

Reachable == sock \in Procs /\ Alive(sock) /\ listener[sock] = "open"

\* net.Dial and the write of the command.
Dial(c) ==
  /\ client[c] = "idle"
  /\ Reachable
  /\ \E m \in Commands : request' = [request EXCEPT ![c] = m]
  /\ client'  = [client EXCEPT ![c] = "sent"]
  /\ peer'    = [peer EXCEPT ![c] = sock]
  /\ handler' = [handler EXCEPT ![c] = "queued"]
  /\ UNCHANGED <<procVars, stopVars, serverVars, fileVars, sock>>

\* No path: ErrNoInstanceRunning.  A path no one listens on any more: refused.
DialFails(c) ==
  /\ client[c] = "idle"
  /\ ~Reachable
  /\ \E m \in Commands : request' = [request EXCEPT ![c] = m]
  /\ client' = [client EXCEPT
                   ![c] = IF sock = None THEN "noinstance" ELSE "error"]
  /\ UNCHANGED <<procVars, stopVars, serverVars, fileVars, sock, peer, handler>>

Receive(c) ==
  /\ client[c] = "sent"
  /\ handler[c] \in {"ok", "err"}
  /\ client' = [client EXCEPT ![c] = handler[c]]
  /\ UNCHANGED <<procVars, stopVars, serverVars, fileVars, sock, request, peer,
                 handler>>

\* The read fails: the process is gone, the listener was closed with the
\* connection still in its queue, or the finalizer closed a dropped one.
ConnectionLost(c) ==
  /\ client[c] = "sent"
  /\ handler[c] \notin {"ok", "err"}
  /\ \/ Ended(peer[c])
     \/ handler[c] = "queued" /\ listener[peer[c]] = "closed"
     \/ handler[c] = "dropped"
  /\ client' = [client EXCEPT ![c] = "error"]
  /\ UNCHANGED <<procVars, stopVars, serverVars, fileVars, sock, request, peer,
                 handler>>

-----------------------------------------------------------------------------
MainStep(p) ==
  \/ ConfigureAPI(p) \/ ConfigureNilAPI(p)
  \/ RefuseLaunch(p) \/ RefusedReturns(p) \/ PassCheck(p)
  \/ CreatePID(p) \/ WritePID(p)
  \/ CmdStarted(p) \/ CmdAborted(p)
  \/ ProxyServeReturns(p) \/ Join(p) \/ Cleanup(p) \/ Exit(p)

CmdStep(p) == CmdListen(p) \/ CmdListenFails(p) \/ CmdReturn(p)

HandlerStep(p, c) ==
  \/ CmdAccept(p, c)
  \/ HandleStop(p, c) \/ HandleSecondStop(p, c) \/ HandleOther(p, c)
  \/ ReplyOk(p, c)

ClientStep(c) == Receive(c) \/ ConnectionLost(c)

BindStep(p, s) == Bind(p, s) \/ BindFails(p, s)

ApiStep(p) == ServeAfterShutdown(p) \/ ApiServeReturns(p)

ShutdownStep(p, s) ==
  CallShutdown(p, s) \/ CallShutdownEarly(p, s) \/ ShutdownReturns(p, s)

\* What happens to a process, or not: launches, signals, faults.
Environment(p) ==
  \/ LaunchRejected(p) \/ Launch(p)
  \/ Signal(p) \/ Kill(p)
  \/ CreateFails(p) \/ WriteFails(p)

Next ==
  \/ \E p \in Procs :
       \/ MainStep(p) \/ Environment(p)
       \/ TriggerStop(p)
       \/ CmdStep(p) \/ CloseListener(p) \/ CloseNilListener(p)
       \/ ApiStep(p)
       \/ \E s \in Servers :
            \/ BindStep(p, s) \/ ShutdownStep(p, s)
            \/ BeginRequest(p, s) \/ EndRequest(p, s)
       \/ \E c \in Clients : HandlerStep(p, c)
  \/ \E c \in Clients : Dial(c) \/ DialFails(c) \/ ClientStep(c)

Spec == Init /\ [][Next]_vars

\* The Go scheduler runs every goroutine that can run; accept queues and replies
\* are delivered.  Launches, signals, dials, requests and faults are up to the
\* environment, and a request may stay in flight for ever (the forwarding client
\* has no timeout), so EndRequest is not fair.
Fairness ==
  /\ \A p \in Procs :
       /\ WF_vars(MainStep(p))
       /\ WF_vars(TriggerStop(p))
       /\ WF_vars(CmdListen(p) \/ CmdListenFails(p))
       /\ WF_vars(listener[p] = "closed" /\ CmdReturn(p))
       /\ WF_vars(CloseListener(p)) /\ WF_vars(CloseNilListener(p))
       /\ WF_vars(ApiStep(p))
       /\ \A s \in Servers :
            WF_vars(BindStep(p, s)) /\ WF_vars(ShutdownStep(p, s))
       /\ \A c \in Clients : WF_vars(HandlerStep(p, c))
  /\ \A c \in Clients : WF_vars(ClientStep(c))

FairSpec == Spec /\ Fairness
-----------------------------------------------------------------------------
(* Properties.                                                             *)

MainStates ==
  {"off", "api", "check", "create", "write", "await", "serve", "join",
   "cleanup", "leave", "refused", "exited", "crashed"}

\* Every variable has its type; the WaitGroup counter never goes below zero
\* (where Go panics).
TypeOK ==
  /\ main   \in [Procs -> MainStates]
  /\ config \in [Procs -> Configs \cup {"unread"}]
  /\ wg     \in [Procs -> 0 .. 3]
  /\ cmd    \in [Procs -> {"none", "starting", "offer", "failed", "stuck",
                           "accepting", "done"}]
  /\ listener \in [Procs -> {"none", "open", "closed"}]
  /\ signalled \in [Procs -> BOOLEAN]
  /\ explicitStop \in [Procs -> BOOLEAN]
  /\ stopTriggered \in [Procs -> BOOLEAN]
  /\ stopped \in [Procs -> BOOLEAN]
  /\ srv  \in [Procs -> [Servers -> {"none", "unbound", "listening", "closed",
                                    "returned"}]]
  /\ shut \in [Procs -> [Servers -> {"none", "armed", "draining", "done"}]]
  /\ busy \in [Procs -> [Servers -> BOOLEAN]]
  /\ pidFile \in [exists : BOOLEAN, pid : Procs \cup {None}]
  /\ linked \subseteq Procs
  /\ sock \in Procs \cup {None}
  /\ client \in [Clients -> {"idle", "sent", "ok", "err", "noinstance",
                             "error"}]
  /\ request \in [Clients -> Commands \cup {"none"}]
  /\ peer \in [Clients -> Procs \cup {None}]
  /\ handler \in [Clients -> {"none", "queued", "reading", "waiting", "ok",
                              "err", "dropped"}]

\* Whatever the interleaving of launches that all passed the PID file check,
\* at most one live process has an open command listener (net.Listen in
\* runCmdSockServer is what excludes the others).
OneCommandServer ==
  \A p, q \in Procs :
    /\ Alive(p) /\ listener[p] = "open"
    /\ Alive(q) /\ listener[q] = "open"
    => p = q

\* From the moment its command server listens until a stop is triggered, the
\* path of the command socket leads to that process: no other launch, failed or
\* not, takes the socket away from the instance that runs.
InstanceStaysReachable ==
  \A p \in Procs :
    Alive(p) /\ cmd[p] \in {"offer", "accepting"} /\ ~stopTriggered[p]
      => sock = p

\* A client that was answered "ok" was answered by a process whose servers have
\* both stopped serving (`ggproxy stop` reports success only then).
OkMeansServersReturned ==
  \A c \in Clients :
    client[c] = "ok" => \A s \in Servers : srv[peer[c]][s] = "returned"

\* Once every launch has ended, and none of them by a crash, the next one finds
\* a clean host: no PID file and no command socket.
CleanHostAfterGracefulExits ==
  (\A p \in Procs : main[p] \in {"off", "exited"})
    => ~pidFile.exists /\ sock = None

\* The path of the command socket is a lock on the host: see InstanceLock.
Lock == INSTANCE InstanceLock
          WITH holder <- sock, ended <- {p \in Procs : Ended(p)}

\* Every step on that path is one the lock allows: taken by a live process
\* when free, given back by its live holder only, and never by a launch that
\* failed or by someone else's cleanup.
SocketIsALock == Lock!Spec

\* A process that serves and is told to stop ends: every goroutine main waits
\* for returns, even with requests in flight for ever.
StopOfServingExits ==
  \A p \in Procs :
    (/\ srv[p]["proxy"] = "listening" /\ ~stopTriggered[p]
     /\ signalled[p] \/ explicitStop[p])
      ~> Ended(p)

\* A `ggproxy stop` that reached a process that serves gets an answer: "ok", or
\* an error when that process is gone first; unless the command server has ended
\* on an error of Accept, which leaves queued connections open and unheard.
StopClientAnswered ==
  \A c \in Clients, p \in Procs :
    (/\ client[c] = "sent" /\ request[c] = "stop" /\ peer[c] = p
     /\ srv[p]["proxy"] = "listening" /\ shut[p]["proxy"] = "armed")
      ~> client[c] # "sent" \/ (cmd[p] = "done" /\ listener[p] = "open")
==============================================================================
