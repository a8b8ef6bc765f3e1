------------------------------- MODULE Proxy -------------------------------
(***************************************************************************)
(* The proxy server (server/proxy.go): NewProxy builds a service for every *)
(* enabled service of the configuration, and Proxy.handle serves requests, *)
(* each in a goroutine of its own.  A request borrows a matcher (a parser  *)
(* and a rules engine) from the pool of its service, parses, matches,      *)
(* forwards, counts and gives the matcher back.                            *)
(*                                                                         *)
(* The destination server, fasthttp and sync.Pool are external.  What      *)
(* Parse and Match decide is a choice here among the outcomes their code   *)
(* has; the counters are those of module Statistics, whose interleavings   *)
(* are examined there, so that an Update is one step here.                 *)
(***************************************************************************)
EXTENDS Integers, Sequences, FiniteSets

CONSTANTS
  Requests,        \* requests that clients may send
  ServicesEnabled, \* conf.ServicesEnabled, a sequence of services
  PathOf,          \* PathOf[s]: the path of service s
  TemplatesOf,     \* TemplatesOf[s]: the ids of its enabled templates
  ForwardReduced,  \* ForwardReduced[s]: that option of s
  UnknownPath,     \* a path no service has
  Matchers,        \* matchers that may exist at the same time
  MaxErrors,       \* bound: how often one Parse may call onError
  None             \* no matcher, no template

Services  == {ServicesEnabled[i] : i \in 1..Len(ServicesEnabled)}
Paths     == {PathOf[s] : s \in Services}
Templates == UNION {TemplatesOf[s] : s \in Services}

ASSUME ProxyAssumption ==
  /\ ServicesEnabled \in Seq(Services) /\ ServicesEnabled # << >>
  /\ ForwardReduced \in [Services -> BOOLEAN]
  /\ UnknownPath \notin Paths
  /\ None \notin Matchers \cup Templates \cup Services
  /\ IsFiniteSet(Requests) /\ IsFiniteSet(Matchers)
  /\ Cardinality(Matchers) >= Cardinality(Requests) + Cardinality(Services)
  /\ MaxErrors \in Nat

\* matcherpool.New refers to the variable of NewProxy's loop, of which (go.mod
\* says go 1.18) there is one: once NewProxy has returned it is the service
\* that was visited last.
LoopVariable == ServicesEnabled[Len(ServicesEnabled)]

VARIABLES
  services, \* services[p]: the service at path p
  pc,       \* pc[r]: where the goroutine of request r is
  req,      \* req[r]: what was requested
  errors,   \* errors[r]: how often Parse has called onError
  held,     \* held[r]: the matcher r has borrowed
  template, \* template[r]: the template Match has found
  ctxBody,  \* ctxBody[r]: the body of ctx.Request
  freq,     \* freq[r]: the body of the request to forward
  received, \* received[r]: what the destination has received of r
  status,   \* status[r]: the response as set so far
  engine,   \* engine[m]: the service whose templates are in matcher m
  pool,     \* pool[s]: the matchers in the pool of s
  stat,     \* stat[s]: the counters of s
  matches   \* matches[s][t]: the counter of matches of a template of s

requestVars == <<pc, req, errors, template, status>>
bodyVars    == <<ctxBody, freq, received>>
poolVars    == <<held, engine, pool>>
counterVars == <<services, stat, matches>>
vars == <<requestVars, bodyVars, poolVars, counterVars>>

PCs == {"off", "arrived", "parsing", "looping", "matched", "sending",
        "waiting", "count service", "count template", "returning", "answered"}
Statuses == {"200", "400", "403", "404", "405", "500", "forwarded"}

\* A request: its method, its path, and whether its body has a query.  Of one
\* that is no POST, nothing else is looked at.
NoRequest == [post |-> FALSE, path |-> UnknownPath, query |-> FALSE]
RequestLines ==
  {NoRequest} \cup
  [post : {TRUE}, path : Paths \cup {UnknownPath}, query : BOOLEAN]

\* The service r is for (its path is known once it has a matcher).
ServiceOf(r) == services[req[r].path]

\* NewProxy: of the services with one path the last one stays; every pool has
\* been warmed up with one matcher, made while the loop variable was the
\* service itself.
Init ==
  /\ services \in [Paths -> Services]
  /\ \A p \in Paths : \E i \in 1..Len(ServicesEnabled) :
       /\ services[p] = ServicesEnabled[i]
       /\ PathOf[ServicesEnabled[i]] = p
       /\ \A j \in i+1..Len(ServicesEnabled) : PathOf[ServicesEnabled[j]] # p
  /\ pc       = [r \in Requests |-> "off"]
  /\ req      = [r \in Requests |-> NoRequest]
  /\ errors   = [r \in Requests |-> 0]
  /\ held     = [r \in Requests |-> None]
  /\ template = [r \in Requests |-> None]
  /\ ctxBody  = [r \in Requests |-> "none"]
  /\ freq     = [r \in Requests |-> "none"]
  /\ received = [r \in Requests |-> "none"]
  /\ status   = [r \in Requests |-> "200"]
  /\ engine \in [Matchers -> Services \cup {None}]
  /\ \A s \in Services : Cardinality({m \in Matchers : engine[m] = s}) = 1
  /\ pool     = [s \in Services |-> {m \in Matchers : engine[m] = s}]
  /\ stat     = [s \in Services |->
                   [handled |-> 0, blocked |-> 0, forwarded |-> 0]]
  /\ matches  = [s \in Services |-> [t \in TemplatesOf[s] |-> 0]]

\* ServiceSync.Update(_, _, isBlocked, _, _).
Update(s, isBlocked) ==
  stat' = [stat EXCEPT ![s] =
             [handled   |-> @.handled + 1,
              blocked   |-> IF isBlocked THEN @.blocked + 1 ELSE @.blocked,
              forwarded |-> IF isBlocked THEN @.forwarded ELSE @.forwarded + 1]]

Goto(r, label)    == pc' = [pc EXCEPT ![r] = label]
Respond(r, code)  == status' = [status EXCEPT ![r] = code]

(***************************************************************************)
(* The head of handle.                                                     *)
(***************************************************************************)

Arrive(r) == \E q \in RequestLines :
  /\ pc[r] = "off"
  /\ req' = [req EXCEPT ![r] = q]
  /\ ctxBody' = [ctxBody EXCEPT ![r] = "original"]
  /\ Goto(r, "arrived")
  /\ UNCHANGED <<errors, template, status, freq, received, poolVars,
                 counterVars>>

RejectMethod(r) ==
  /\ pc[r] = "arrived"
  /\ ~req[r].post
  /\ Respond(r, "405")
  /\ Goto(r, "answered")
  /\ UNCHANGED <<req, errors, template, bodyVars, poolVars, counterVars>>

RejectPath(r) ==
  /\ pc[r] = "arrived"
  /\ req[r].post
  /\ req[r].path \notin Paths
  /\ Respond(r, "404")
  /\ Goto(r, "answered")
  /\ UNCHANGED <<req, errors, template, bodyVars, poolVars, counterVars>>

\* extractData finds no query.
RejectBody(r) ==
  /\ pc[r] = "arrived"
  /\ req[r].post
  /\ req[r].path \in Paths
  /\ ~req[r].query
  /\ Respond(r, "400")
  /\ Goto(r, "answered")
  /\ UNCHANGED <<req, errors, template, bodyVars, poolVars, counterVars>>

Accepted(r) ==
  /\ pc[r] = "arrived"
  /\ req[r].post
  /\ req[r].path \in Paths
  /\ req[r].query

\* Variant: the matcher taken stays in the pool.
GetPooled_NotTaken(r, m) ==
  /\ Accepted(r)
  /\ m \in pool[ServiceOf(r)]
  /\ held' = [held EXCEPT ![r] = m]
  /\ Goto(r, "parsing")
  /\ UNCHANGED <<req, errors, template, status, bodyVars, engine, pool,
                 counterVars>>

\* matcherpool.Get: any matcher of the pool ...
GetPooled(r, m) ==
  /\ Accepted(r)
  /\ m \in pool[ServiceOf(r)]
  /\ pool' = [pool EXCEPT ![ServiceOf(r)] = @ \ {m}]
  /\ held' = [held EXCEPT ![r] = m]
  /\ Goto(r, "parsing")
  /\ UNCHANGED <<req, errors, template, status, bodyVars, engine, counterVars>>

\* Variant: the pool has a fixed size: Get waits for a matcher to be put back.
GetNew_Waits(r, m) == FALSE

\* ... or a new one: sync.Pool may at any time ignore what it holds.
GetNew(r, m) ==
  /\ Accepted(r)
  /\ engine[m] = None
  /\ engine' = [engine EXCEPT ![m] = LoopVariable]
  /\ held' = [held EXCEPT ![r] = m]
  /\ Goto(r, "parsing")
  /\ UNCHANGED <<req, errors, template, status, bodyVars, pool, counterVars>>

\* The garbage collector drops a pooled matcher.
Drop(s, m) ==
  /\ m \in pool[s]
  /\ pool' = [pool EXCEPT ![s] = @ \ {m}]
  /\ engine' = [engine EXCEPT ![m] = None]
  /\ UNCHANGED <<requestVars, bodyVars, held, counterVars>>

(***************************************************************************)
(* Parse, with its two callbacks.                                          *)
(***************************************************************************)

\* Parse calls onError, and may go on afterwards: the loop over the fragments
\* in order of dependency ignores that constructFrag has failed.
OnError(r) ==
  /\ pc[r] = "parsing"
  /\ errors[r] < MaxErrors
  /\ errors' = [errors EXCEPT ![r] = @ + 1]
  /\ Update(ServiceOf(r), TRUE)
  /\ Respond(r, "400")
  /\ UNCHANGED <<pc, req, template, bodyVars, poolVars, matches, services>>

ParseReturns(r) ==
  /\ pc[r] = "parsing"
  /\ errors[r] > 0
  /\ Goto(r, "returning")
  /\ UNCHANGED <<req, errors, template, status, bodyVars, poolVars,
                 counterVars>>

\* Parse does not end, and has called nothing: a variable's default value is an
\* array with an enumeration in it, which the loop over its tokens never leaves.
ParseLoops(r) ==
  /\ pc[r] = "parsing"
  /\ errors[r] = 0
  /\ Goto(r, "looping")
  /\ UNCHANGED <<req, errors, template, status, bodyVars, poolVars,
                 counterVars>>

\* Variant: the return after the response 403 is forgotten.
MatchNone_GoesOn(r) ==
  /\ pc[r] = "parsing"
  /\ Update(ServiceOf(r), TRUE)
  /\ Respond(r, "403")
  /\ Goto(r, "sending")
  /\ UNCHANGED <<req, errors, template, bodyVars, poolVars, matches, services>>

\* onSuccess: Match returns "".
MatchNone(r) ==
  /\ pc[r] = "parsing"
  /\ Update(ServiceOf(r), TRUE)
  /\ Respond(r, "403")
  /\ Goto(r, "returning")
  /\ UNCHANGED <<req, errors, template, bodyVars, poolVars, matches, services>>

\* Variant: the Put is not deferred, and a panic passes over it.
MatchPanics_NotPut(r) ==
  /\ pc[r] = "parsing"
  /\ Goto(r, "answered")
  /\ UNCHANGED <<req, errors, template, status, bodyVars, poolVars,
                 counterVars>>

\* onSuccess: Match panics, the recover of handle logs it.
MatchPanics(r) ==
  /\ pc[r] = "parsing"
  /\ Goto(r, "returning")
  /\ UNCHANGED <<req, errors, template, status, bodyVars, poolVars,
                 counterVars>>

\* onSuccess: Match returns a template of its engine, and the request is
\* copied to the one to forward.
MatchTemplate(r, t) ==
  /\ pc[r] = "parsing"
  /\ t \in TemplatesOf[engine[held[r]]]
  /\ template' = [template EXCEPT ![r] = t]
  /\ freq' = [freq EXCEPT ![r] = ctxBody[r]]
  /\ Goto(r, "matched")
  /\ UNCHANGED <<req, errors, status, ctxBody, received, poolVars,
                 counterVars>>

KeepOriginal(r) ==
  /\ pc[r] = "matched"
  /\ ~ForwardReduced[ServiceOf(r)]
  /\ freq' = [freq EXCEPT ![r] = ctxBody[r]]
  /\ Goto(r, "sending")
  /\ UNCHANGED <<req, errors, template, status, ctxBody, received, poolVars,
                 counterVars>>

\* Variant: the reduced query is appended to the body of the request to forward.
WriteReduced_ToForwarded(r) ==
  /\ pc[r] = "matched"
  /\ ForwardReduced[ServiceOf(r)]
  /\ freq' = [freq EXCEPT ![r] = "original, then reduced"]
  /\ Goto(r, "sending")
  /\ UNCHANGED <<req, errors, template, status, ctxBody, received, poolVars,
                 counterVars>>

\* The reduced query is appended to the body of the request received.
WriteReduced(r) ==
  /\ pc[r] = "matched"
  /\ ForwardReduced[ServiceOf(r)]
  /\ ctxBody' = [ctxBody EXCEPT ![r] = "original, then reduced"]
  /\ Goto(r, "sending")
  /\ UNCHANGED <<req, errors, template, status, freq, received, poolVars,
                 counterVars>>

\* Variant: the return after the response 500 is forgotten.
WriteFails_GoesOn(r) ==
  /\ pc[r] = "matched"
  /\ ForwardReduced[ServiceOf(r)]
  /\ Respond(r, "500")
  /\ Goto(r, "count service")
  /\ UNCHANGED <<req, errors, template, bodyVars, poolVars, counterVars>>

WriteFails(r) ==
  /\ pc[r] = "matched"
  /\ ForwardReduced[ServiceOf(r)]
  /\ Respond(r, "500")
  /\ Goto(r, "returning")
  /\ UNCHANGED <<req, errors, template, bodyVars, poolVars, counterVars>>

(***************************************************************************)
(* client.Do, and what follows it.                                         *)
(***************************************************************************)

Send(r) ==
  /\ pc[r] = "sending"
  /\ received' = [received EXCEPT ![r] = freq[r]]
  /\ Goto(r, "waiting")
  /\ UNCHANGED <<req, errors, template, status, ctxBody, freq, poolVars,
                 counterVars>>

\* The destination is not reached, or its answer is lost.
ForwardFails(r) ==
  /\ pc[r] \in {"sending", "waiting"}
  /\ Respond(r, "500")
  /\ Goto(r, "returning")
  /\ UNCHANGED <<req, errors, template, bodyVars, poolVars, counterVars>>

\* The response of the destination becomes that of ctx.
DestinationAnswers(r) ==
  /\ pc[r] = "waiting"
  /\ Respond(r, "forwarded")
  /\ Goto(r, "count service")
  /\ UNCHANGED <<req, errors, template, bodyVars, poolVars, counterVars>>

\* The argument requestBlocked is true.
CountService(r) ==
  /\ pc[r] = "count service"
  /\ Update(ServiceOf(r), TRUE)
  /\ Goto(r, "count template")
  /\ UNCHANGED <<req, errors, template, status, bodyVars, poolVars, matches,
                 services>>

CountTemplate(r) ==
  /\ pc[r] = "count template"
  /\ template[r] \in TemplatesOf[ServiceOf(r)]
  /\ matches' = [matches EXCEPT ![ServiceOf(r)][template[r]] = @ + 1]
  /\ Goto(r, "returning")
  /\ UNCHANGED <<req, errors, template, status, bodyVars, poolVars, stat,
                 services>>

\* The service has no statistics of that template: Update of a nil pointer
\* panics, the recover of handle logs it.
CountTemplatePanics(r) ==
  /\ pc[r] = "count template"
  /\ template[r] \notin TemplatesOf[ServiceOf(r)]
  /\ Goto(r, "returning")
  /\ UNCHANGED <<req, errors, template, status, bodyVars, poolVars,
                 counterVars>>

\* The deferred matcherpool.Put runs, after a panic as well; the response is
\* written.
Return(r) ==
  /\ pc[r] = "returning"
  /\ pool' = [pool EXCEPT ![ServiceOf(r)] = @ \cup {held[r]}]
  /\ held' = [held EXCEPT ![r] = None]
  /\ Goto(r, "answered")
  /\ UNCHANGED <<req, errors, template, status, bodyVars, engine, counterVars>>

\* Requests that are in the parser for ever step on without a change.
AllEnded ==
  (\A r \in Requests : pc[r] \in {"answered", "looping"}) /\ UNCHANGED vars

(***************************************************************************)
(* What a request does by itself, and what others do to it.                *)
(***************************************************************************)
Handle(r) ==
  \/ RejectMethod(r) \/ RejectPath(r) \/ RejectBody(r)
  \/ \E m \in Matchers : GetPooled(r, m) \/ GetNew(r, m)
  \/ OnError(r) \/ ParseReturns(r) \/ ParseLoops(r)
  \/ MatchNone(r) \/ MatchPanics(r)
  \/ \E t \in Templates : MatchTemplate(r, t)
  \/ KeepOriginal(r) \/ WriteReduced(r) \/ WriteFails(r)
  \/ Send(r)
  \/ CountService(r) \/ CountTemplate(r) \/ CountTemplatePanics(r)
  \/ Return(r)

Next ==
  \/ \E r \in Requests :
       Arrive(r) \/ Handle(r) \/ ForwardFails(r) \/ DestinationAnswers(r)
  \/ \E s \in Services, m \in Matchers : Drop(s, m)
  \/ AllEnded

Spec == Init /\ [][Next]_vars

\* The scheduler runs every goroutine; nothing is assumed of clients, of the
\* garbage collector, or of the destination: client has no timeout.
Fairness == \A r \in Requests : WF_vars(Handle(r))

FairSpec == Spec /\ Fairness

(***************************************************************************)
(* Properties.                                                             *)
(***************************************************************************)

TypeOK ==
  /\ services \in [Paths -> Services]
  /\ pc \in [Requests -> PCs]
  /\ req \in [Requests -> RequestLines]
  /\ errors \in [Requests -> 0..MaxErrors]
  /\ held \in [Requests -> Matchers \cup {None}]
  /\ template \in [Requests -> Templates \cup {None}]
  /\ ctxBody \in [Requests -> {"none", "original", "original, then reduced"}]
  /\ freq \in [Requests -> {"none", "original", "reduced"}]
  /\ received \in [Requests -> {"none", "original", "reduced"}]
  /\ status \in [Requests -> Statuses]
  /\ engine \in [Matchers -> Services \cup {None}]
  /\ pool \in [Services -> SUBSET Matchers]
  /\ stat \in [Services -> [handled : Nat, blocked : Nat, forwarded : Nat]]
  /\ DOMAIN matches = Services
  /\ \A s \in Services : matches[s] \in [TemplatesOf[s] -> Nat]

\* A parser and an engine keep the state of one query in their buffers: a
\* matcher is with one request at most, and while it is, it is in no pool
\* (proxy.go:193-194, also on the paths on which Match panics).
MatchersAreExclusive ==
  /\ \A q, r \in Requests : (held[q] = held[r] /\ held[q] # None) => q = r
  /\ \A r \in Requests, s \in Services : held[r] \notin pool[s]
  /\ \A s, t \in Services : s # t => pool[s] \cap pool[t] = {}

\* No matcher is lost: one that exists is in the pool of some service or with
\* a request that is being handled, however the handling of requests ends.
NoMatcherIsLost ==
  /\ \A m \in Matchers :
       engine[m] # None <=>
         \/ \E s \in Services : m \in pool[s]
         \/ \E r \in Requests : held[r] = m
  /\ \A r \in Requests :
       held[r] # None <=> pc[r] \notin {"off", "arrived", "answered"}

\* The response and what has happened agree: of a request that was answered
\* with an error of the proxy's own making, other than 500, the destination
\* has seen nothing, and a response is passed on only of a request that some
\* template has matched and the destination has received.
ResponseTellsWhatHappened ==
  \A r \in Requests :
    pc[r] = "answered" =>
      /\ received[r] # "none" => status[r] \in {"forwarded", "500"}
      /\ status[r] = "forwarded" => received[r] # "none" /\ template[r] # None

\* The requests answered with code, of service s.
Answered(s, code) ==
  {r \in Requests :
     req[r].path = PathOf[s] /\ pc[r] = "answered" /\ status[r] = code}

\* When nothing is under way, a template of the service at a path counts as
\* matches exactly the requests whose response came from the destination
\* (not those of which forwarding failed), and the service has handled at
\* least these and the ones it has blocked.
MatchesAddUp ==
  (\A r \in Requests : pc[r] \in {"off", "answered"}) =>
    \A s \in Services : s = services[PathOf[s]] =>
      /\ \A t \in TemplatesOf[s] :
           matches[s][t] =
             Cardinality({r \in Answered(s, "forwarded") : template[r] = t})
      /\ stat[s].handled >=
           Cardinality(Answered(s, "forwarded") \cup Answered(s, "403"))

\* A request is answered, unless the destination keeps it waiting or the parser
\* does not end on it (gqlparse.go:745-820): it never waits for another request
\* to give a matcher back, which one that is stuck in either way does not do.
RequestsAreAnswered ==
  \A r \in Requests :
    pc[r] = "arrived" ~> pc[r] \in {"looping", "waiting", "answered"}

(***************************************************************************)
(* What documents of the repository say and the code does not do.          *)
(***************************************************************************)

\* CHANGELOG.md:100 "Fix lambda capturing and template lists": a request is
\* matched against the templates that its own service has enabled.
MatchedByOwnTemplates ==
  \A r \in Requests :
    template[r] # None => template[r] \in TemplatesOf[ServiceOf(r)]
=============================================================================
