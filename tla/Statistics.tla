----------------------------- MODULE Statistics -----------------------------
(***************************************************************************)
(* The statistics counters of a service or of a template                   *)
(* (statistics/statistics.go).  There is no lock: an Update is a sequence  *)
(* of atomic operations on separate fields, and the updates of concurrent  *)
(* requests interleave between any two of them.  Running averages are      *)
(* moved by a difference computed from an earlier load, maxima are         *)
(* compared and then stored.                                               *)
(*                                                                         *)
(* kind is the type of the counters: "service" is ServiceSync, "template"  *)
(* is TemplateSync, whose Update has the same operations in another order. *)
(***************************************************************************)
EXTENDS Integers, FiniteSets, FiniteSetsExt

CONSTANTS
  Updates,  \* the calls of Update
  Times,    \* durations a call may report
  Sizes,    \* byte counts a call may report
  Kinds     \* the types: "service", "template"

ASSUME StatisticsAssumption ==
  /\ IsFiniteSet(Updates)
  /\ Times \subseteq Nat
  /\ Sizes \subseteq Nat
  /\ Kinds \subseteq {"service", "template"}

Measures == {"processing", "response"}

VARIABLES
  kind,      \* the type of these counters
  pc,        \* pc[u]: the operation call u executes next
  call,      \* call[u]: the arguments of call u
  loaded,    \* loaded[u]: the average u loaded last
  nth,       \* nth[u]: what the counter of calls was when u incremented it
  stat,      \* the counters
  highest,   \* highest[m]: the maximum kept of measure m
  average,   \* average[m]: the running average kept of measure m
  overlapped \* history: some call began while another was under way

vars == <<kind, pc, call, loaded, nth, stat, highest, average, overlapped>>

Ops == {"idle", "received", "load", "add", "compare", "store", "blocked",
        "sent", "forwarded", "done"}

\* A step of Update: an operation, and the measure it is about.
Step(op, m) == [op |-> op, of |-> m]
Idle == Step("idle", "processing")
Done == Step("done", "response")

NoCall == [blocked |-> TRUE, received |-> 0, sent |-> 0,
           processing |-> 0, response |-> 0]

\* A blocked request has nothing sent and no response time.
Calls ==
  IF kind = "template"
    THEN [blocked : {FALSE}, received : {0}, sent : {0},
          processing : Times, response : Times]
    ELSE [blocked : {FALSE}, received : Sizes, sent : Sizes,
          processing : Times, response : Times]
         \cup
         [blocked : {TRUE}, received : Sizes, sent : {0},
          processing : Times, response : {0}]

Init ==
  /\ kind \in Kinds
  /\ pc     = [u \in Updates |-> Idle]
  /\ call   = [u \in Updates |-> NoCall]
  /\ loaded = [u \in Updates |-> 0]
  /\ nth    = [u \in Updates |-> 0]
  /\ stat   = [count |-> 0, blocked |-> 0, forwarded |-> 0,
               received |-> 0, sent |-> 0]
  /\ highest = [m \in Measures |-> 0]
  /\ average = [m \in Measures |-> 0]
  /\ overlapped = FALSE

Running(u) == pc[u] \notin {Idle, Done}

Goto(u, step) == pc' = [pc EXCEPT ![u] = step]

\* What follows the comparison with (or the store to) highest[m] ...
AfterHighest(u, m) ==
  IF kind = "service"
    THEN IF m = "response"  THEN Step("load", "response")
         ELSE IF call[u].blocked THEN Step("blocked", "processing")
         ELSE Step("sent", "processing")
    ELSE IF m = "processing" THEN Step("compare", "response")
         ELSE Step("load", "processing")

\* ... and what follows the addition to average[m].
AfterAverage(m) ==
  IF m = "response" THEN Done
  ELSE IF kind = "service" THEN Step("compare", "processing")
  ELSE Step("load", "response")

(***************************************************************************)
(* The operations.                                                         *)
(***************************************************************************)

\* Variant: the counter is read before it is incremented.
Count_ReadBefore(u) == \E c \in Calls :
  /\ pc[u] = Idle
  /\ call' = [call EXCEPT ![u] = c]
  /\ nth'  = [nth EXCEPT ![u] = stat.count]
  /\ stat' = [stat EXCEPT !.count = @ + 1]
  /\ overlapped' = (overlapped \/ \E v \in Updates : Running(v))
  /\ Goto(u, IF kind = "service" THEN Step("received", "processing")
                                 ELSE Step("compare", "processing"))
  /\ UNCHANGED <<kind, loaded, highest, average>>

\* handledRequests (or matches) is incremented, and the new value kept.
Count(u) == \E c \in Calls :
  /\ pc[u] = Idle
  /\ call' = [call EXCEPT ![u] = c]
  /\ nth'  = [nth EXCEPT ![u] = stat.count + 1]
  /\ stat' = [stat EXCEPT !.count = @ + 1]
  /\ overlapped' = (overlapped \/ \E v \in Updates : Running(v))
  /\ Goto(u, IF kind = "service" THEN Step("received", "processing")
                                 ELSE Step("compare", "processing"))
  /\ UNCHANGED <<kind, loaded, highest, average>>

AddReceived(u) ==
  /\ pc[u] = Step("received", "processing")
  /\ stat' = [stat EXCEPT !.received = @ + call[u].received]
  /\ Goto(u, Step("load", "processing"))
  /\ UNCHANGED <<kind, call, loaded, nth, highest, average, overlapped>>

LoadAverage(u, m) ==
  /\ pc[u] = Step("load", m)
  /\ loaded' = [loaded EXCEPT ![u] = average[m]]
  /\ Goto(u, Step("add", m))
  /\ UNCHANGED <<kind, call, nth, stat, highest, average, overlapped>>

\* Variant: the difference is taken the wrong way round.
Quotient_Reversed(d, n) == IF d < 0 THEN (-d) \div n ELSE -(d \div n)

\* Division of Go: towards zero.
Quotient(d, n) == IF d >= 0 THEN d \div n ELSE -((-d) \div n)

AddToAverage(u, m) ==
  /\ pc[u] = Step("add", m)
  /\ average' = [average EXCEPT
                   ![m] = @ + Quotient(call[u][m] - loaded[u], nth[u])]
  /\ Goto(u, AfterAverage(m))
  /\ UNCHANGED <<kind, call, loaded, nth, stat, highest, overlapped>>

CompareHigher(u, m) ==
  /\ pc[u] = Step("compare", m)
  /\ call[u][m] > highest[m]
  /\ Goto(u, Step("store", m))
  /\ UNCHANGED <<kind, call, loaded, nth, stat, highest, average, overlapped>>

CompareNotHigher(u, m) ==
  /\ pc[u] = Step("compare", m)
  /\ call[u][m] <= highest[m]
  /\ Goto(u, AfterHighest(u, m))
  /\ UNCHANGED <<kind, call, loaded, nth, stat, highest, average, overlapped>>

\* Variant: the processing time is stored whatever was compared.
StoreHighest_OtherMeasure(u, m) ==
  /\ pc[u] = Step("store", m)
  /\ highest' = [highest EXCEPT ![m] = call[u].processing]
  /\ Goto(u, AfterHighest(u, m))
  /\ UNCHANGED <<kind, call, loaded, nth, stat, average, overlapped>>

StoreHighest(u, m) ==
  /\ pc[u] = Step("store", m)
  /\ highest' = [highest EXCEPT ![m] = call[u][m]]
  /\ Goto(u, AfterHighest(u, m))
  /\ UNCHANGED <<kind, call, loaded, nth, stat, average, overlapped>>

\* Variant: the return after blockedRequests is forgotten.
CountBlocked_FallsThrough(u) ==
  /\ pc[u] = Step("blocked", "processing")
  /\ stat' = [stat EXCEPT !.blocked = @ + 1]
  /\ Goto(u, Step("sent", "processing"))
  /\ UNCHANGED <<kind, call, loaded, nth, highest, average, overlapped>>

\* A blocked request ends here: Update returns.
CountBlocked(u) ==
  /\ pc[u] = Step("blocked", "processing")
  /\ stat' = [stat EXCEPT !.blocked = @ + 1]
  /\ Goto(u, Done)
  /\ UNCHANGED <<kind, call, loaded, nth, highest, average, overlapped>>

\* Variant: sentBytes is stored, not added to.
AddSent_Stores(u) ==
  /\ pc[u] = Step("sent", "processing")
  /\ stat' = [stat EXCEPT !.sent = call[u].sent]
  /\ Goto(u, Step("forwarded", "processing"))
  /\ UNCHANGED <<kind, call, loaded, nth, highest, average, overlapped>>

AddSent(u) ==
  /\ pc[u] = Step("sent", "processing")
  /\ stat' = [stat EXCEPT !.sent = @ + call[u].sent]
  /\ Goto(u, Step("forwarded", "processing"))
  /\ UNCHANGED <<kind, call, loaded, nth, highest, average, overlapped>>

CountForwarded(u) ==
  /\ pc[u] = Step("forwarded", "processing")
  /\ stat' = [stat EXCEPT !.forwarded = @ + 1]
  /\ Goto(u, Step("compare", "response"))
  /\ UNCHANGED <<kind, call, loaded, nth, highest, average, overlapped>>

\* All calls have been made and have returned.
Quiet == (\A u \in Updates : pc[u] = Done) /\ UNCHANGED vars

Next ==
  \/ \E u \in Updates :
       \/ Count(u)
       \/ AddReceived(u)
       \/ CountBlocked(u)
       \/ AddSent(u)
       \/ CountForwarded(u)
       \/ \E m \in Measures :
            \/ LoadAverage(u, m)
            \/ AddToAverage(u, m)
            \/ CompareHigher(u, m)
            \/ CompareNotHigher(u, m)
            \/ StoreHighest(u, m)
  \/ Quiet

Spec == Init /\ [][Next]_vars

(***************************************************************************)
(* Properties.                                                             *)
(***************************************************************************)

AtRest   == \A u \in Updates : ~Running(u)
Returned == {u \in Updates : pc[u] = Done}
Begun    == {u \in Updates : pc[u] # Idle}

\* The calls that have a value of measure m to report: a blocked request has
\* no response time.
Reporting(m) ==
  {u \in Begun : m = "processing" \/ ~call[u].blocked}

Types ==
  /\ kind \in Kinds
  /\ pc \in [Updates -> [op : Ops, of : Measures]]
  /\ call \in [Updates -> Calls \cup {NoCall}]
  /\ loaded \in [Updates -> Int]
  /\ nth \in [Updates -> Nat]
  /\ stat \in [count : Nat, blocked : Nat, forwarded : Nat,
               received : Nat, sent : Nat]
  /\ highest \in [Measures -> Nat]
  /\ average \in [Measures -> Int]
  /\ overlapped \in BOOLEAN

\* Every variable has its type, and the count an average is divided by is
\* never 0 (statistics.go:37-39).
TypeOK ==
  /\ Types
  /\ \A u \in Updates : pc[u] # Idle => nth[u] > 0

\* No call is lost and none is counted twice, however the updates interleave:
\* the counter of calls is the number of calls begun; what the getters read
\* while updates are under way never shows more blocked and forwarded
\* requests than calls; and at rest each call has been counted as exactly
\* what it was (Update, statistics.go:32-52).
CallsAddUp ==
  /\ stat.count = Cardinality(Begun)
  /\ stat.blocked + stat.forwarded <= stat.count
  /\ (AtRest /\ kind = "service") =>
       /\ stat.blocked   = Cardinality({u \in Returned : call[u].blocked})
       /\ stat.forwarded = Cardinality({u \in Returned : ~call[u].blocked})

\* At rest the byte counters are the sums over the calls that were made.
BytesAddUp ==
  AtRest =>
    /\ stat.received = MapThenSumSet(LAMBDA u : call[u].received, Returned)
    /\ stat.sent     = MapThenSumSet(LAMBDA u : call[u].sent, Returned)

\* A maximum is never made up: it is 0 or a time that some call reported for
\* that very measure, also when comparisons and stores of several calls
\* interleave (statistics.go:43-45, 55-57).
HighestWasReported ==
  \A m \in Measures :
    highest[m] \in {0} \cup {call[u][m] : u \in Reporting(m)}

\* As long as updates do not overlap, the maximum is the maximum, and the
\* average never leaves the range of the times reported: the truncating
\* division of the incremental average does not overshoot.
\* (The response average of a service is excluded from below: its difference
\* is divided by the number of all handled requests, the blocked ones included
\* (63), so that after blocked requests it is below every response time.)
ExactWithoutOverlap ==
  (AtRest /\ ~overlapped) =>
    \A m \in Measures :
      LET times == {call[u][m] : u \in Reporting(m)} IN
        times # {} =>
          /\ \A t \in times : t <= highest[m]
          /\ average[m] <= highest[m]
          /\ average[m] >= 0
          /\ (m = "processing" \/ kind = "template") =>
               \E t \in times : t <= average[m]
=============================================================================
