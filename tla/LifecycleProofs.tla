--------------------------- MODULE LifecycleProofs ---------------------------
(***************************************************************************)
(* Proofs about Lifecycle: its types, its safety invariants and that the   *)
(* command socket's path is the lock InstanceLock specifies, for any       *)
(* number of processes and clients and whatever the environment does.      *)
(***************************************************************************)
EXTENDS Lifecycle, TLAPS

-----------------------------------------------------------------------------
(* The inductive invariant.                                                *)

NotStarted == {"off", "api", "check", "create", "write", "refused"}

NoServers(p)  == \A s \in Servers : srv[p][s] = "none"
AllServed(p) == \A s \in Servers : srv[p][s] = "returned"

\* Where the main goroutine is tells how far the command server and the servers
\* are.
StageInv ==
  \A p \in Procs :
    /\ main[p] \in NotStarted => cmd[p] = "none" /\ NoServers(p)
    /\ main[p] = "await" =>
         cmd[p] \in {"starting", "offer", "failed"} /\ NoServers(p)
    /\ main[p] = "serve" =>
         /\ cmd[p] \in {"accepting", "done"}
         /\ srv[p]["proxy"] \in {"unbound", "listening", "closed"}
    /\ main[p] = "join" =>
         cmd[p] \in {"accepting", "done"} /\ srv[p]["proxy"] = "returned"
    /\ main[p] \in {"cleanup", "leave"} =>
         \/ cmd[p] = "stuck" /\ NoServers(p)
         \/ cmd[p] = "done" /\ AllServed(p)
    /\ main[p] = "exited" => cmd[p] \in {"none", "stuck", "done"}

One(b) == IF b THEN 1 ELSE 0

\* The WaitGroup counts the goroutines that have not returned.
WaitGroupInv ==
  \A p \in Procs :
    /\ main[p] = "off" => wg[p] = 0
    /\ main[p] = "api" => wg[p] = 2
    /\ Alive(p) /\ main[p] # "api" =>
         wg[p] = One(cmd[p] # "done") + One(srv[p]["proxy"] # "returned")
                   + One(srv[p]["api"] # "returned")

\* The path of the command socket belongs to the one open listener.
ListenerInv ==
  \A p \in Procs :
    /\ listener[p] = "open" <=> sock = p
    /\ cmd[p] \in {"none", "starting", "failed", "stuck"} => listener[p] = "none"
    /\ cmd[p] \in {"offer", "accepting"} =>
         listener[p] = "open" \/ (listener[p] = "closed" /\ stopTriggered[p])
    /\ cmd[p] = "done" /\ "accept" \notin Events => listener[p] = "closed"

\* What an answer "ok" rests on.
AnswerInv ==
  /\ \A p \in Procs :
       stopped[p] =>
         /\ main[p] \in {"cleanup", "leave", "exited", "crashed"}
         /\ AllServed(p)
  /\ \A c \in Clients :
       /\ client[c] = "idle" => handler[c] = "none"
       /\ client[c] = "ok" => handler[c] = "ok"
       /\ handler[c] = "ok" => peer[c] \in Procs /\ stopped[peer[c]]

\* A PID file on disk is held by a launch that will remove it, or that crashed.
PidFileInv ==
  pidFile.exists =>
    \E p \in linked :
      main[p] \in {"write", "await", "serve", "join", "cleanup", "crashed"}

IInv ==
  /\ TypeOK
  /\ StageInv
  /\ WaitGroupInv
  /\ ListenerInv
  /\ AnswerInv
  /\ PidFileInv

-----------------------------------------------------------------------------
\* The initial states satisfy the invariant.
LEMMA InitIInv == Init => IInv
  BY LifecycleAssumption
  DEF Init, IInv, TypeOK, StageInv, WaitGroupInv, ListenerInv, AnswerInv,
      PidFileInv, NoServers, AllServed, Servers, NotStarted, Alive, NoFile,
      MainStates

\* Every crash keeps the invariant, wherever the process was.
LEMMA CrashIInv ==
  ASSUME IInv, NEW p \in Procs, Alive(p), Crash(p)
  PROVE  IInv'
  BY DEF Crash, IInv, TypeOK, StageInv, WaitGroupInv, ListenerInv, AnswerInv,
      PidFileInv, NoServers, AllServed, Servers, NotStarted, Alive, MainStates,
      stopVars, serverVars, fileVars, clientVars
-----------------------------------------------------------------------------
\* Three tasks counted: the count is positive while one is pending, and zero
\* when none is.
LEMMA CountLemma ==
  ASSUME NEW a \in BOOLEAN, NEW b \in BOOLEAN, NEW c \in BOOLEAN
  PROVE  /\ a \/ b \/ c => One(a) + One(b) + One(c) \in 1 .. 3
         /\ One(a) + One(b) + One(c) = 0 => ~a /\ ~b /\ ~c
<1>1. One(a) \in {0, 1} /\ One(b) \in {0, 1} /\ One(c) \in {0, 1}
  BY DEF One
<1>2. (a <=> One(a) = 1) /\ (b <=> One(b) = 1) /\ (c <=> One(c) = 1)
  BY DEF One
<1> QED
  BY <1>1, <1>2

\* A live process past its configuration with a server that has not returned has a
\* positive WaitGroup counter.
LEMMA ServingLemma ==
  ASSUME WaitGroupInv, NEW p \in Procs, Alive(p), main[p] # "api",
         NEW s \in Servers, srv[p][s] # "returned"
  PROVE  wg[p] \in 1 .. 3
<1>1. wg[p] = One(cmd[p] # "done") + One(srv[p]["proxy"] # "returned")
                + One(srv[p]["api"] # "returned")
  BY DEF WaitGroupInv
<1>2. srv[p]["proxy"] # "returned" \/ srv[p]["api"] # "returned"
  BY DEF Servers
<1> QED
  BY <1>1, <1>2, CountLemma

\* When wg.Wait returns, the command server and both servers have returned.
LEMMA JoinLemma ==
  ASSUME WaitGroupInv, NEW p \in Procs, main[p] = "join", AllReturned(p)
  PROVE  cmd[p] = "done" /\ AllServed(p)
<1>1. One(cmd[p] # "done") + One(srv[p]["proxy"] # "returned")
        + One(srv[p]["api"] # "returned") = 0
  BY DEF WaitGroupInv, Alive, AllReturned
<1>2. cmd[p] = "done" /\ srv[p]["proxy"] = "returned" /\ srv[p]["api"] = "returned"
  BY <1>1, CountLemma
<1> QED
  BY <1>2 DEF AllServed, Servers

LEMMA TriggerLemma ==
  ASSUME TypeOK, NEW p \in Procs, TriggerStop(p)
  PROVE  /\ signalled' \in [Procs -> BOOLEAN]
         /\ stopTriggered' \in [Procs -> BOOLEAN]
<1>1. signalled \in [Procs -> BOOLEAN] /\ stopTriggered \in [Procs -> BOOLEAN]
  BY DEF TypeOK
<1> QED
  BY <1>1 DEF TriggerStop

-----------------------------------------------------------------------------
\* Every step keeps the invariant: one step of the proof per action, and under it
\* one step per conjunct of the invariant.
LEMMA StepIInv == ASSUME IInv, [Next]_vars PROVE IInv'
<1> USE LifecycleAssumption
    DEF IInv, TypeOK, StageInv, WaitGroupInv, ListenerInv, AnswerInv,
        PidFileInv, NoServers, AllServed, Servers, NotStarted, Alive, MainStates,
        NoFile, One, procVars, stopVars, serverVars, fileVars, clientVars
<1>0. TypeOK /\ StageInv /\ WaitGroupInv /\ ListenerInv /\ AnswerInv /\ PidFileInv
  BY DEF IInv
<1>1. ASSUME NEW p \in Procs, LaunchRejected(p)
      PROVE  IInv'
  BY <1>0, <1>1
  DEF LaunchRejected, Go
<1>2. ASSUME NEW p \in Procs, Launch(p)
      PROVE  IInv'
  BY <1>0, <1>2
  DEF Launch, Go
<1>3. ASSUME NEW p \in Procs, ConfigureAPI(p)
      PROVE  IInv'
  BY <1>0, <1>3
  DEF ConfigureAPI, AddAPI, Go
<1>4. ASSUME NEW p \in Procs, RefuseLaunch(p)
      PROVE  IInv'
  BY <1>0, <1>4
  DEF RefuseLaunch, Go
<1>5. ASSUME NEW p \in Procs, RefusedReturns(p)
      PROVE  IInv'
  BY <1>0, <1>5
  DEF RefusedReturns, Go
<1>6. ASSUME NEW p \in Procs, PassCheck(p)
      PROVE  IInv'
  BY <1>0, <1>6
  DEF PassCheck, Go
<1>7. ASSUME NEW p \in Procs, CreatePID(p)
      PROVE  IInv'
  BY <1>0, <1>7
  DEF CreatePID, Go
<1>8. ASSUME NEW p \in Procs, WritePID(p)
      PROVE  IInv'
  <2>1. TypeOK'
    BY <1>0, <1>8
    DEF WritePID, Go
  <2>2. StageInv'
    BY <1>0, <1>8
    DEF WritePID, Go
  <2>3. WaitGroupInv'
    BY <1>0, <1>8
    DEF WritePID, Go
  <2>4. ListenerInv'
    BY <1>0, <1>8
    DEF WritePID, Go
  <2>5. AnswerInv'
    BY <1>0, <1>8
    DEF WritePID, Go
  <2>6. PidFileInv'
    BY <1>0, <1>8
    DEF WritePID, Go
  <2> QED
    BY <2>1, <2>2, <2>3, <2>4, <2>5, <2>6
<1>9. ASSUME NEW p \in Procs, CreateFails(p)
      PROVE  IInv'
  BY <1>0, <1>9
  DEF CreateFails, Go
<1>10. ASSUME NEW p \in Procs, WriteFails(p)
      PROVE  IInv'
  BY <1>0, <1>10
  DEF WriteFails, RemovePID, Go
<1>11. ASSUME NEW p \in Procs, CmdStarted(p)
      PROVE  IInv'
  BY <1>0, <1>11
  DEF CmdStarted, Go
<1>12. ASSUME NEW p \in Procs, CmdAborted(p)
      PROVE  IInv'
  BY <1>0, <1>12
  DEF CmdAborted, Go
<1>13. ASSUME NEW p \in Procs, ProxyServeReturns(p)
      PROVE  IInv'
  <2>0. wg[p] \in 1 .. 3
    BY <1>13, ServingLemma DEF ProxyServeReturns, Go
  <2>1. TypeOK'
    BY <1>0, <1>13, <2>0
    DEF ProxyServeReturns, Done, Go
  <2>2. StageInv'
    BY <1>0, <1>13
    DEF ProxyServeReturns, Done, Go
  <2>3. WaitGroupInv'
    BY <1>0, <1>13
    DEF ProxyServeReturns, Done, Go
  <2>4. ListenerInv'
    BY <1>0, <1>13
    DEF ProxyServeReturns, Done, Go
  <2>5. AnswerInv'
    BY <1>0, <1>13
    DEF ProxyServeReturns, Done, Go
  <2>6. PidFileInv'
    BY <1>0, <1>13
    DEF ProxyServeReturns, Done, Go
  <2> QED
    BY <2>1, <2>2, <2>3, <2>4, <2>5, <2>6
<1>14. ASSUME NEW p \in Procs, Join(p)
      PROVE  IInv'
  <2>0. cmd[p] = "done" /\ AllServed(p)
    BY <1>14, JoinLemma DEF Join, Go
  <2>1. TypeOK'
    BY <1>0, <1>14
    DEF Join, AllReturned, Go
  <2>2. StageInv'
    BY <1>0, <1>14, <2>0
    DEF Join, AllReturned, Go
  <2>3. WaitGroupInv'
    BY <1>0, <1>14
    DEF Join, AllReturned, Go
  <2>4. ListenerInv'
    BY <1>0, <1>14
    DEF Join, AllReturned, Go
  <2>5. AnswerInv'
    BY <1>0, <1>14, <2>0
    DEF Join, AllReturned, Go
  <2>6. PidFileInv'
    BY <1>0, <1>14
    DEF Join, AllReturned, Go
  <2> QED
    BY <2>1, <2>2, <2>3, <2>4, <2>5, <2>6
<1>15. ASSUME NEW p \in Procs, Cleanup(p)
      PROVE  IInv'
  BY <1>0, <1>15
  DEF Cleanup, RemovePID, Go
<1>16. ASSUME NEW p \in Procs, Exit(p)
      PROVE  IInv'
  BY <1>0, <1>16
  DEF Exit, Go
<1>17. ASSUME NEW p \in Procs, Signal(p)
      PROVE  IInv'
  BY <1>0, <1>17
  DEF Signal
<1>18. ASSUME NEW p \in Procs, TriggerStop(p)
      PROVE  IInv'
  <2>0. /\ signalled' \in [Procs -> BOOLEAN]
        /\ stopTriggered' \in [Procs -> BOOLEAN]
    BY <1>18, TriggerLemma DEF TriggerStop
  <2>1. TypeOK'
    BY <1>0, <1>18, <2>0
    DEF TriggerStop, StopRequested
  <2>2. StageInv'
    BY <1>0, <1>18
    DEF TriggerStop, StopRequested
  <2>3. WaitGroupInv'
    BY <1>0, <1>18
    DEF TriggerStop, StopRequested
  <2>4. ListenerInv'
    BY <1>0, <1>18
    DEF TriggerStop, StopRequested
  <2>5. AnswerInv'
    BY <1>0, <1>18
    DEF TriggerStop, StopRequested
  <2>6. PidFileInv'
    BY <1>0, <1>18
    DEF TriggerStop, StopRequested
  <2> QED
    BY <2>1, <2>2, <2>3, <2>4, <2>5, <2>6
<1>19. ASSUME NEW p \in Procs, CmdListen(p)
      PROVE  IInv'
  BY <1>0, <1>19
  DEF CmdListen, PathFree
<1>20. ASSUME NEW p \in Procs, CmdListenFails(p)
      PROVE  IInv'
  BY <1>0, <1>20
  DEF CmdListenFails, PathFree
<1>21. ASSUME NEW p \in Procs, CloseListener(p)
      PROVE  IInv'
  BY <1>0, <1>21
  DEF CloseListener
<1>22. ASSUME NEW p \in Procs, CmdReturn(p)
      PROVE  IInv'
  BY <1>0, <1>22
  DEF CmdReturn, Done
<1>23. ASSUME NEW p \in Procs, ServeAfterShutdown(p)
      PROVE  IInv'
  <2>0. wg[p] \in 1 .. 3
    BY <1>23, ServingLemma DEF ServeAfterShutdown
  <2>1. TypeOK'
    BY <1>0, <1>23, <2>0
    DEF ServeAfterShutdown, Done
  <2>2. StageInv'
    BY <1>0, <1>23
    DEF ServeAfterShutdown, Done
  <2>3. WaitGroupInv'
    BY <1>0, <1>23
    DEF ServeAfterShutdown, Done
  <2>4. ListenerInv'
    BY <1>0, <1>23
    DEF ServeAfterShutdown, Done
  <2>5. AnswerInv'
    BY <1>0, <1>23
    DEF ServeAfterShutdown, Done
  <2>6. PidFileInv'
    BY <1>0, <1>23
    DEF ServeAfterShutdown, Done
  <2> QED
    BY <2>1, <2>2, <2>3, <2>4, <2>5, <2>6
<1>24. ASSUME NEW p \in Procs, ApiServeReturns(p)
      PROVE  IInv'
  BY <1>0, <1>24
  DEF ApiServeReturns, Done
<1>25. ASSUME NEW p \in Procs, NEW s \in Servers, Bind(p, s)
      PROVE  IInv'
  BY <1>0, <1>25
  DEF Bind
<1>26. ASSUME NEW p \in Procs, NEW s \in Servers, CallShutdown(p, s)
      PROVE  IInv'
  BY <1>0, <1>26
  DEF CallShutdown
<1>27. ASSUME NEW p \in Procs, NEW s \in Servers, CallShutdownEarly(p, s)
      PROVE  IInv'
  BY <1>0, <1>27
  DEF CallShutdownEarly
<1>28. ASSUME NEW p \in Procs, NEW s \in Servers, ShutdownReturns(p, s)
      PROVE  IInv'
  BY <1>0, <1>28
  DEF ShutdownReturns
<1>29. ASSUME NEW p \in Procs, NEW s \in Servers, BeginRequest(p, s)
      PROVE  IInv'
  BY <1>0, <1>29
  DEF BeginRequest
<1>30. ASSUME NEW p \in Procs, NEW s \in Servers, EndRequest(p, s)
      PROVE  IInv'
  BY <1>0, <1>30
  DEF EndRequest
<1>31. ASSUME NEW p \in Procs, NEW c \in Clients, CmdAccept(p, c)
      PROVE  IInv'
  BY <1>0, <1>31
  DEF CmdAccept
<1>32. ASSUME NEW p \in Procs, NEW c \in Clients, HandleStop(p, c)
      PROVE  IInv'
  BY <1>0, <1>32
  DEF HandleStop
<1>33. ASSUME NEW p \in Procs, NEW c \in Clients, ReplyOk(p, c)
      PROVE  IInv'
  BY <1>0, <1>33
  DEF ReplyOk
<1>34. ASSUME NEW p \in Procs, NEW c \in Clients, HandleOther(p, c)
      PROVE  IInv'
  BY <1>0, <1>34
  DEF HandleOther
<1>35. ASSUME NEW c \in Clients, Dial(c)
      PROVE  IInv'
  BY <1>0, <1>35
  DEF Dial, Reachable
<1>36. ASSUME NEW c \in Clients, DialFails(c)
      PROVE  IInv'
  BY <1>0, <1>36
  DEF DialFails, Reachable
<1>37. ASSUME NEW c \in Clients, Receive(c)
      PROVE  IInv'
  BY <1>0, <1>37
  DEF Receive
<1>38. ASSUME NEW c \in Clients, ConnectionLost(c)
      PROVE  IInv'
  BY <1>0, <1>38
  DEF ConnectionLost, Ended
<1>39. ASSUME NEW p \in Procs,
             Kill(p) \/ CloseNilListener(p) \/ ConfigureNilAPI(p)
      PROVE  IInv'
  BY <1>39, CrashIInv DEF Kill, CloseNilListener, ConfigureNilAPI, Alive
<1>40. ASSUME NEW p \in Procs, NEW s \in Servers, BindFails(p, s)
      PROVE  IInv'
  BY <1>40, CrashIInv DEF BindFails
<1>41. ASSUME NEW p \in Procs, NEW c \in Clients, HandleSecondStop(p, c)
      PROVE  IInv'
  BY <1>41, CrashIInv DEF HandleSecondStop
<1>42. CASE UNCHANGED vars
  BY <1>42, <1>0
  DEF IInv, TypeOK, StageInv, WaitGroupInv, ListenerInv, AnswerInv, PidFileInv,
      NoServers, AllServed, Alive, vars
<1> HIDE DEF IInv
<1> QED
  BY <1>1, <1>2, <1>3, <1>4, <1>5, <1>6, <1>7, <1>8, <1>9, <1>10, <1>11,
     <1>12, <1>13, <1>14, <1>15, <1>16, <1>17, <1>18, <1>19, <1>20, <1>21,
     <1>22, <1>23, <1>24, <1>25, <1>26, <1>27, <1>28, <1>29, <1>30, <1>31,
     <1>32, <1>33, <1>34, <1>35, <1>36, <1>37, <1>38, <1>39, <1>40, <1>41,
     <1>42
  DEF Next, MainStep, Environment, CmdStep, ApiStep, BindStep, ShutdownStep,
      HandlerStep, ClientStep

-----------------------------------------------------------------------------
\* The inductive invariant holds in every reachable state.
LEMMA Invariance == Spec => []IInv
<1>1. IInv /\ [Next]_vars => IInv'
  BY StepIInv
<1> QED
  BY InitIInv, <1>1, PTL DEF Spec

\* Every variable keeps its type, and the WaitGroup counter never goes below zero
\* (func serve would panic), on any host.
THEOREM TypeCorrectness == Spec => []TypeOK
<1>1. IInv => TypeOK
  BY DEF IInv
<1> QED
  BY <1>1, Invariance, PTL

\* Whatever launches race, at most one process has an open command listener.
THEOREM CommandServerExclusion == Spec => []OneCommandServer
<1>1. IInv => OneCommandServer
  BY DEF IInv, ListenerInv, OneCommandServer
<1> QED
  BY <1>1, Invariance, PTL

\* Until its stop is triggered, the command socket's path leads to the instance
\* that listens on it.
THEOREM Reachability == Spec => []InstanceStaysReachable
<1>1. IInv => InstanceStaysReachable
  BY DEF IInv, ListenerInv, InstanceStaysReachable
<1> QED
  BY <1>1, Invariance, PTL

\* A stop client is answered "ok" only after both servers have stopped serving.
THEOREM StopAnswer == Spec => []OkMeansServersReturned
<1>1. IInv => OkMeansServersReturned
  BY DEF IInv, AnswerInv, AllServed, OkMeansServersReturned
<1> QED
  BY <1>1, Invariance, PTL

\* If Accept never fails but by the closing of its listener, processes that all
\* ended without a crash leave neither PID file nor socket behind.
THEOREM CleanHost ==
  ASSUME "accept" \notin Events
  PROVE  Spec => []CleanHostAfterGracefulExits
<1>1. IInv => CleanHostAfterGracefulExits
  <2> SUFFICES ASSUME IInv, \A p \in Procs : main[p] \in {"off", "exited"}
               PROVE  ~pidFile.exists /\ sock = None
    BY DEF CleanHostAfterGracefulExits
  <2>1. ~pidFile.exists
    BY DEF IInv, TypeOK, PidFileInv
  <2>2. ASSUME NEW p \in Procs PROVE listener[p] # "open"
    <3>1. cmd[p] \in {"none", "stuck", "done"}
      BY DEF IInv, StageInv, NotStarted
    <3> QED
      BY <3>1 DEF IInv, ListenerInv
  <2>3. sock = None
    BY <2>2 DEF IInv, TypeOK, ListenerInv
  <2> QED
    BY <2>1, <2>3
<1> QED
  BY <1>1, Invariance, PTL

-----------------------------------------------------------------------------
\* A process that ends gives the abstract lock one End step.
LEMMA EndStep ==
  ASSUME NEW p \in Procs, TypeOK, main[p] \notin {"exited", "crashed"},
         NEW end \in {"exited", "crashed"},
         main' = [main EXCEPT ![p] = end], UNCHANGED sock
  PROVE  Lock!End(p)
<1>1. p \notin {q \in Procs : Ended(q)}
  BY DEF Ended
<1>2. {q \in Procs : Ended(q)}' = {q \in Procs : Ended(q)} \cup {p}
  BY DEF Ended, TypeOK
<1> QED
  BY <1>1, <1>2 DEF Lock!End

\* A step of main that does not end the process, and none of the socket's path.
LEMMA StutterStep ==
  ASSUME NEW p \in Procs, TypeOK, main[p] \notin {"exited", "crashed"},
         NEW to, to \notin {"exited", "crashed"},
         main' = [main EXCEPT ![p] = to], UNCHANGED sock
  PROVE  UNCHANGED <<sock, {q \in Procs : Ended(q)}>>
  BY DEF Ended, TypeOK

\* The command socket's path implements the lock InstanceLock specifies: only its
\* live holder releases it, and a holder that ends keeps it.
THEOREM SocketRefinement == Spec => SocketIsALock
<1> DEFINE ended == {p \in Procs : Ended(p)}
<1>1. Init => Lock!Init
  BY DEF Init, Lock!Init, Ended
<1>2. ASSUME IInv, [Next]_vars
      PROVE  [Lock!Next]_<<sock, ended>>
  <2>1. ASSUME NEW p \in Procs, CmdListen(p)
        PROVE  Lock!Acquire(p)
    BY <2>1 DEF CmdListen, PathFree, Alive, Ended, Lock!Acquire
  <2>2. ASSUME NEW p \in Procs, CloseListener(p)
        PROVE  Lock!Release(p)
    BY <1>2, <2>2
    DEF CloseListener, Alive, Ended, IInv, ListenerInv, Lock!Release
  <2>3. ASSUME NEW p \in Procs,
               \/ LaunchRejected(p) \/ CreateFails(p) \/ WriteFails(p)
               \/ RefusedReturns(p) \/ Exit(p)
        PROVE  Lock!End(p)
    BY <1>2, <2>3, EndStep
    DEF LaunchRejected, CreateFails, WriteFails, RefusedReturns, Exit, Go, IInv
  <2>4. ASSUME NEW p \in Procs, Alive(p), Crash(p)
        PROVE  Lock!End(p)
    BY <1>2, <2>4, EndStep DEF Crash, Alive, IInv
  <2>5. ASSUME NEW p \in Procs, MainStep(p), ~ConfigureNilAPI(p),
               ~RefusedReturns(p), ~Exit(p)
        PROVE  UNCHANGED <<sock, ended>>
    BY <1>2, <2>5, StutterStep
    DEF MainStep, ConfigureAPI, RefuseLaunch, PassCheck, CreatePID, WritePID,
        CmdStarted, CmdAborted, ProxyServeReturns, Join, Cleanup, Go,
        IInv
  <2>6. ASSUME NEW p \in Procs, Launch(p)
        PROVE  UNCHANGED <<sock, ended>>
    BY <1>2, <2>6, StutterStep DEF Launch, Go, IInv
  <2>7. ASSUME UNCHANGED <<main, sock>>
        PROVE  UNCHANGED <<sock, ended>>
    BY <2>7 DEF Ended
  <2>8. ASSUME NEW p \in Procs,
               \/ Signal(p) \/ TriggerStop(p) \/ CmdListenFails(p)
               \/ CmdReturn(p) \/ ApiStep(p)
        PROVE  UNCHANGED <<main, sock>>
    BY <2>8
    DEF Signal, TriggerStop, CmdListenFails, CmdReturn, ApiStep,
        ServeAfterShutdown, ApiServeReturns, procVars
  <2>9. ASSUME NEW p \in Procs, NEW s \in Servers,
               \/ Bind(p, s) \/ ShutdownStep(p, s)
               \/ BeginRequest(p, s) \/ EndRequest(p, s)
        PROVE  UNCHANGED <<main, sock>>
    BY <2>9
    DEF Bind, ShutdownStep, CallShutdown, CallShutdownEarly, ShutdownReturns,
        BeginRequest, EndRequest, procVars
  <2>10. ASSUME NEW p \in Procs, NEW c \in Clients,
                HandlerStep(p, c), ~HandleSecondStop(p, c)
         PROVE  UNCHANGED <<main, sock>>
    BY <2>10
    DEF HandlerStep, CmdAccept, HandleStop, HandleOther, ReplyOk, procVars
  <2>11. ASSUME NEW c \in Clients, Dial(c) \/ DialFails(c) \/ ClientStep(c)
         PROVE  UNCHANGED <<main, sock>>
    BY <2>11
    DEF Dial, DialFails, ClientStep, Receive, ConnectionLost, procVars
  <2>12. ASSUME NEW p \in Procs,
                \/ Kill(p) \/ CloseNilListener(p) \/ ConfigureNilAPI(p)
                \/ \E s \in Servers : BindFails(p, s)
                \/ \E c \in Clients : HandleSecondStop(p, c)
         PROVE  Lock!End(p)
    BY <2>4, <2>12
    DEF Kill, CloseNilListener, ConfigureNilAPI, BindFails, HandleSecondStop,
        Alive
  <2>13. CASE UNCHANGED vars
    BY <2>7, <2>13 DEF vars, procVars
  <2> QED
    BY <1>2, <2>1, <2>2, <2>3, <2>5, <2>6, <2>7, <2>8, <2>9, <2>10, <2>11,
       <2>12, <2>13
    DEF Next, Environment, CmdStep, BindStep, Lock!Next, MainStep
<1> QED
  BY <1>1, <1>2, Invariance, PTL DEF Spec, SocketIsALock, Lock!Spec
==============================================================================
