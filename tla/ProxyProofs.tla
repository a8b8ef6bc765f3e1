----------------------------- MODULE ProxyProofs -----------------------------
(***************************************************************************)
(* Proofs about Proxy: for any number of requests, services, templates and *)
(* matchers.  IInv is the inductive invariant.  It has one part per group  *)
(* of variables, and a lemma for each part says that every step keeps it.  *)
(***************************************************************************)
EXTENDS Proxy, FiniteSetTheorems, TLAPS

\* TypeOK, in three parts.
CountersOK ==
  /\ stat \in [Services -> [handled : Nat, blocked : Nat, forwarded : Nat]]
  /\ DOMAIN matches = Services
  /\ \A s \in Services : matches[s] \in [TemplatesOf[s] -> Nat]

FieldsOK ==
  /\ services \in [Paths -> Services]
  /\ pc \in [Requests -> PCs]
  /\ req \in [Requests -> RequestLines]
  /\ errors \in [Requests -> 0..MaxErrors]
  /\ template \in [Requests -> Templates \cup {None}]
  /\ ctxBody \in [Requests -> {"none", "original", "original, then reduced"}]
  /\ freq \in [Requests -> {"none", "original", "reduced"}]
  /\ received \in [Requests -> {"none", "original", "reduced"}]
  /\ status \in [Requests -> Statuses]

PoolType ==
  /\ pc \in [Requests -> PCs]
  /\ held \in [Requests -> Matchers \cup {None}]
  /\ engine \in [Matchers -> Services \cup {None}]
  /\ pool \in [Services -> SUBSET Matchers]

\* Where the matchers are.
MatcherInv == PoolType /\ MatchersAreExclusive /\ NoMatcherIsLost

\* What a request has while its goroutine is at each place.
BeforeForwarding == {"off", "arrived", "parsing", "matched", "sending"}

RequestInv ==
  \A r \in Requests :
    /\ pc[r] \notin {"off", "arrived", "answered"} => req[r].path \in Paths
    /\ pc[r] \in {"arrived", "parsing", "matched"} => ctxBody[r] = "original"
    /\ pc[r] \in {"matched", "sending"} => freq[r] = "original"
    /\ pc[r] \in {"matched", "sending", "waiting", "count service",
                  "count template"} => template[r] # None

\* What the destination has received, and what the response says of it.
ResponseInv ==
  \A r \in Requests :
    /\ pc[r] \in BeforeForwarding =>
         received[r] = "none" /\ status[r] # "forwarded"
    /\ pc[r] = "waiting" => received[r] # "none" /\ status[r] # "forwarded"
    /\ pc[r] \in {"count service", "count template"} =>
         received[r] # "none" /\ status[r] = "forwarded"
    /\ pc[r] \in {"returning", "answered"} =>
         /\ received[r] # "none" => status[r] \in {"forwarded", "500"}
         /\ status[r] = "forwarded" => received[r] # "none" /\ template[r] # None

IInv ==
  /\ FieldsOK
  /\ CountersOK
  /\ RequestInv
  /\ ResponseInv
  /\ MatcherInv

LEMMA InitIInv ==
  Init => IInv
<1> SUFFICES ASSUME Init PROVE IInv
  OBVIOUS
<1> USE ProxyAssumption
<1>1. FieldsOK
  <2>1. req \in [Requests -> RequestLines]
    BY DEF Init, RequestLines, NoRequest
  <2> QED
    BY <2>1 DEF Init, FieldsOK, PCs, Statuses
<1>2. CountersOK
  BY DEF Init, CountersOK
<1>3. RequestInv /\ ResponseInv
  BY DEF Init, RequestInv, ResponseInv, BeforeForwarding
<1>4. PoolType
  BY DEF Init, PoolType, PCs
<1>5. MatchersAreExclusive /\ NoMatcherIsLost
  BY DEF Init, MatchersAreExclusive, NoMatcherIsLost
<1> QED
  BY <1>1, <1>2, <1>3, <1>4, <1>5 DEF IInv, MatcherInv

(***************************************************************************)
(* The matchers.                                                           *)
(***************************************************************************)

\* A matcher is taken from a pool,
LEMMA Taken ==
  ASSUME MatcherInv, NEW r \in Requests, pc[r] = "arrived",
         NEW s \in Services, NEW m \in pool[s],
         pool' = [pool EXCEPT ![s] = @ \ {m}],
         held' = [held EXCEPT ![r] = m],
         pc'   = [pc EXCEPT ![r] = "parsing"],
         engine' = engine
  PROVE  MatcherInv'
<1> USE ProxyAssumption
<1>0. PoolType
  BY DEF MatcherInv
<1>1. m \in Matchers /\ held[r] = None /\ m # None
  BY <1>0 DEF PoolType, MatcherInv, NoMatcherIsLost
<1>2. \A q \in Requests : held[q] # m
  BY <1>1 DEF MatcherInv, MatchersAreExclusive
<1>3. \A t \in Services : t # s => m \notin pool[t]
  BY DEF MatcherInv, MatchersAreExclusive
<1>4. PoolType'
  BY <1>0, <1>1 DEF PoolType, PCs
<1>5. \A t \in Services : pool'[t] = IF t = s THEN pool[t] \ {m} ELSE pool[t]
  BY <1>0 DEF PoolType
<1>6. \A q \in Requests : held'[q] = IF q = r THEN m ELSE held[q]
  BY <1>0 DEF PoolType
<1>7. MatchersAreExclusive'
  <2>1. ASSUME NEW p \in Requests, NEW q \in Requests, held'[p] = held'[q], held'[q] # None
        PROVE  p = q
    BY <1>2, <1>6, <2>1 DEF MatcherInv, MatchersAreExclusive
  <2>2. ASSUME NEW q \in Requests, NEW t \in Services PROVE held'[q] \notin pool'[t]
    <3>1. held[q] \notin pool[t]
      BY DEF MatcherInv, MatchersAreExclusive
    <3>2. CASE q = r
      <4>1. held'[q] = m
        BY <3>2, <1>6
      <4>2. CASE t = s
        <5>1. pool'[t] = pool[t] \ {m}
          BY <4>2, <1>5
        <5> QED
          BY <4>1, <5>1
      <4>3. CASE t # s
        BY <4>1, <4>3, <1>3, <1>5
      <4> QED
        BY <4>2, <4>3
    <3>3. CASE q # r
      BY <3>1, <3>3, <1>5, <1>6
    <3> QED
      BY <3>2, <3>3
  <2>3. ASSUME NEW t \in Services, NEW u \in Services, t # u PROVE pool'[t] \cap pool'[u] = {}
    BY <1>5, <2>3 DEF MatcherInv, MatchersAreExclusive
  <2> QED
    BY <2>1, <2>2, <2>3 DEF MatchersAreExclusive
<1>8. NoMatcherIsLost'
  <2>1. ASSUME NEW n \in Matchers
        PROVE  engine'[n] # None <=> \/ \E t \in Services : n \in pool'[t]
                                     \/ \E q \in Requests : held'[q] = n
    <3>1. CASE n = m
      <4>1. engine[n] # None
        BY <3>1 DEF MatcherInv, NoMatcherIsLost
      <4> QED
        BY <3>1, <4>1, <1>6
    <3>2. CASE n # m
      <4>1. (\E t \in Services : n \in pool'[t]) <=> \E t \in Services : n \in pool[t]
        BY <3>2, <1>5
      <4>2. (\E q \in Requests : held'[q] = n) <=> \E q \in Requests : held[q] = n
        BY <3>2, <1>1, <1>6, <1>0 DEF PoolType
      <4> QED
        BY <4>1, <4>2 DEF MatcherInv, NoMatcherIsLost
    <3> QED
      BY <3>1, <3>2
  <2>2. ASSUME NEW q \in Requests
        PROVE  held'[q] # None <=> pc'[q] \notin {"off", "arrived", "answered"}
    BY <1>0, <1>1, <1>6 DEF MatcherInv, NoMatcherIsLost, PoolType
  <2> QED
    BY <2>1, <2>2 DEF NoMatcherIsLost
<1> QED
  BY <1>4, <1>7, <1>8 DEF MatcherInv

\* is made for a request,
LEMMA Made ==
  ASSUME MatcherInv, NEW r \in Requests, pc[r] = "arrived",
         NEW m \in Matchers, engine[m] = None, NEW s \in Services,
         engine' = [engine EXCEPT ![m] = s],
         held' = [held EXCEPT ![r] = m],
         pc'   = [pc EXCEPT ![r] = "parsing"],
         pool' = pool
  PROVE  MatcherInv'
<1> USE ProxyAssumption
<1>0. PoolType
  BY DEF MatcherInv
<1>1. PoolType'
  BY <1>0 DEF PoolType, PCs
<1>2. /\ held[r] = None /\ m # None
      /\ \A q \in Requests : held[q] # m
      /\ \A t \in Services : m \notin pool[t]
  BY DEF MatcherInv, NoMatcherIsLost
<1>3. \A q \in Requests : held'[q] = IF q = r THEN m ELSE held[q]
  BY <1>0 DEF PoolType
<1>4. MatchersAreExclusive'
  BY <1>2, <1>3 DEF MatcherInv, MatchersAreExclusive
<1>5. NoMatcherIsLost'
  <2>1. ASSUME NEW n \in Matchers
        PROVE  engine'[n] # None <=> \/ \E t \in Services : n \in pool'[t]
                                     \/ \E q \in Requests : held'[q] = n
    <3>1. CASE n = m
      BY <3>1, <1>0, <1>3 DEF PoolType
    <3>2. CASE n # m
      <4>1. (\E q \in Requests : held'[q] = n) <=> \E q \in Requests : held[q] = n
        BY <3>2, <1>2, <1>3
      <4>2. engine'[n] = engine[n]
        BY <3>2, <1>0 DEF PoolType
      <4> QED
        BY <4>1, <4>2 DEF MatcherInv, NoMatcherIsLost
    <3> QED
      BY <3>1, <3>2
  <2>2. ASSUME NEW q \in Requests
        PROVE  held'[q] # None <=> pc'[q] \notin {"off", "arrived", "answered"}
    BY <1>0, <1>2, <1>3 DEF MatcherInv, NoMatcherIsLost, PoolType
  <2> QED
    BY <2>1, <2>2 DEF NoMatcherIsLost
<1> QED
  BY <1>1, <1>4, <1>5 DEF MatcherInv

\* is put back,
LEMMA PutBack ==
  ASSUME MatcherInv, NEW r \in Requests, pc[r] = "returning",
         NEW s \in Services,
         pool' = [pool EXCEPT ![s] = @ \cup {held[r]}],
         held' = [held EXCEPT ![r] = None],
         pc'   = [pc EXCEPT ![r] = "answered"],
         engine' = engine
  PROVE  MatcherInv'
<1> USE ProxyAssumption
<1>0. PoolType
  BY DEF MatcherInv
<1>1. held[r] \in Matchers /\ held[r] # None
  BY <1>0 DEF MatcherInv, NoMatcherIsLost, PoolType
<1>2. PoolType'
  BY <1>0, <1>1 DEF PoolType, PCs
<1>3. MatchersAreExclusive'
  <2>1. \A t \in Services : held[r] \notin pool[t]
    BY DEF MatcherInv, MatchersAreExclusive
  <2>2. \A t \in Services :
          pool'[t] = IF t = s THEN pool[t] \cup {held[r]} ELSE pool[t]
    BY <1>0 DEF PoolType
  <2>3. \A q \in Requests : held'[q] = IF q = r THEN None ELSE held[q]
    BY <1>0 DEF PoolType
  <2>4. ASSUME NEW q \in Requests, NEW t \in Services PROVE held'[q] \notin pool'[t]
    <3>1. CASE q = r
      <4>1. held'[q] = None /\ pool'[t] \subseteq Matchers
        BY <3>1, <2>3, <1>2 DEF PoolType
      <4> QED
        BY <4>1
    <3>2. CASE q # r
      <4>1. held'[q] = held[q] /\ held[q] # held[r] /\ held[q] \notin pool[t]
        BY <3>2, <2>3, <1>1 DEF MatcherInv, MatchersAreExclusive
      <4>2. pool'[t] \subseteq pool[t] \cup {held[r]}
        BY <2>2
      <4> QED
        BY <4>1, <4>2
    <3> QED
      BY <3>1, <3>2
  <2>5. ASSUME NEW t \in Services, NEW u \in Services, t # u
        PROVE  pool'[t] \cap pool'[u] = {}
    <3>1. pool[t] \cap pool[u] = {}
      BY <2>5 DEF MatcherInv, MatchersAreExclusive
    <3>2. CASE t = s
      <4>1. pool'[t] = pool[t] \cup {held[r]} /\ pool'[u] = pool[u]
        BY <3>2, <2>2, <2>5
      <4> QED
        BY <3>1, <4>1, <2>1
    <3>3. CASE t # s
      <4>1. pool'[t] = pool[t] /\ pool'[u] \subseteq pool[u] \cup {held[r]}
        BY <3>3, <2>2
      <4> QED
        BY <3>1, <4>1, <2>1
    <3> QED
      BY <3>2, <3>3
  <2>6. ASSUME NEW p \in Requests, NEW q \in Requests, held'[p] = held'[q], held'[q] # None
        PROVE  p = q
    BY <2>3, <2>6 DEF MatcherInv, MatchersAreExclusive
  <2> QED
    BY <2>4, <2>5, <2>6 DEF MatchersAreExclusive
<1>4. NoMatcherIsLost'
  BY <1>0, <1>1 DEF MatcherInv, NoMatcherIsLost, PoolType, MatchersAreExclusive
<1> QED
  BY <1>2, <1>3, <1>4 DEF MatcherInv

\* or is dropped.
LEMMA Dropped ==
  ASSUME MatcherInv, NEW s \in Services, NEW m \in pool[s],
         pool' = [pool EXCEPT ![s] = @ \ {m}],
         engine' = [engine EXCEPT ![m] = None],
         held' = held, pc' = pc
  PROVE  MatcherInv'
<1> USE ProxyAssumption
<1> USE DEF MatcherInv, PoolType, MatchersAreExclusive, NoMatcherIsLost
<1>1. PoolType'
  OBVIOUS
<1>2. m \in Matchers /\ m # None /\ (\A q \in Requests : held[q] # m)
      /\ \A t \in Services : t # s => m \notin pool[t]
  OBVIOUS
<1>3. MatchersAreExclusive'
  BY <1>2
<1>4. NoMatcherIsLost'
  BY <1>2
<1> QED
  BY <1>1, <1>3, <1>4
\* None of this happens, and the request is as idle as it was.
LEMMA Kept ==
  ASSUME MatcherInv, NEW r \in Requests, NEW label \in PCs,
         pc' = [pc EXCEPT ![r] = label],
         pc[r] \in {"off", "arrived", "answered"}
           <=> label \in {"off", "arrived", "answered"},
         UNCHANGED <<held, engine, pool>>
  PROVE  MatcherInv'
<1>1. PoolType'
  BY DEF MatcherInv, PoolType
<1>2. MatchersAreExclusive'
  BY DEF MatcherInv, MatchersAreExclusive
<1>3. ASSUME NEW q \in Requests
      PROVE  held'[q] # None <=> pc'[q] \notin {"off", "arrived", "answered"}
  BY DEF MatcherInv, NoMatcherIsLost, PoolType
<1>4. NoMatcherIsLost'
  BY <1>3 DEF MatcherInv, NoMatcherIsLost
<1> QED
  BY <1>1, <1>2, <1>4 DEF MatcherInv

(***************************************************************************)
(* Facts about single operators.                                           *)
(***************************************************************************)

\* Update keeps the type of the counters.
LEMMA UpdateType ==
  ASSUME CountersOK, NEW s \in Services, NEW b \in BOOLEAN, Update(s, b)
  PROVE  stat' \in [Services -> [handled : Nat, blocked : Nat, forwarded : Nat]]
<1>1. stat[s].handled + 1 \in Nat /\ stat[s].blocked + 1 \in Nat
      /\ stat[s].forwarded + 1 \in Nat
      /\ stat[s].blocked \in Nat /\ stat[s].forwarded \in Nat
  BY DEF CountersOK
<1> QED
  BY <1>1 DEF Update, CountersOK

\* Counting a match keeps the type of the counters of matches.
LEMMA MatchesType ==
  ASSUME CountersOK, NEW s \in Services, NEW t \in TemplatesOf[s],
         matches' = [matches EXCEPT ![s][t] = @ + 1]
  PROVE  /\ DOMAIN matches' = Services
         /\ \A u \in Services : matches'[u] \in [TemplatesOf[u] -> Nat]
<1>1. matches[s] \in [TemplatesOf[s] -> Nat]
  BY DEF CountersOK
<1>2. [matches[s] EXCEPT ![t] = @ + 1] \in [TemplatesOf[s] -> Nat]
  BY <1>1
<1>3. matches' = [matches EXCEPT ![s] = [matches[s] EXCEPT ![t] = @ + 1]]
  OBVIOUS
<1> QED
  BY <1>2, <1>3 DEF CountersOK

LEMMA LoopService == LoopVariable \in Services
BY ProxyAssumption DEF LoopVariable, Services

\* A request that is being handled has a service, and a matcher with templates.
LEMMA HandledHasService ==
  ASSUME FieldsOK, RequestInv, MatcherInv, NEW r \in Requests,
         pc[r] \notin {"off", "arrived", "answered"}
  PROVE  /\ ServiceOf(r) \in Services
         /\ held[r] \in Matchers
         /\ engine[held[r]] \in Services
<1>1. ServiceOf(r) \in Services
  BY DEF RequestInv, FieldsOK, ServiceOf
<1>2. held[r] # None /\ held[r] \in Matchers
  BY DEF MatcherInv, NoMatcherIsLost, PoolType
<1>3. engine[held[r]] # None
  BY <1>2 DEF MatcherInv, NoMatcherIsLost
<1> QED
  BY <1>1, <1>2, <1>3 DEF MatcherInv, PoolType

\* A request that asks for a matcher has a service, too.
LEMMA AcceptedHasService ==
  ASSUME FieldsOK, NEW r \in Requests, Accepted(r)
  PROVE  ServiceOf(r) \in Services
BY DEF FieldsOK, Accepted, ServiceOf

(***************************************************************************)
(* Every part of IInv is preserved.                                        *)
(***************************************************************************)

LEMMA StepCounters ==
  ASSUME FieldsOK, CountersOK, RequestInv, MatcherInv, [Next]_vars
  PROVE  CountersOK'
<1> USE ProxyAssumption
<1> USE DEF Goto, Respond, requestVars, bodyVars, poolVars, counterVars
<1>1. ASSUME NEW r \in Requests, Arrive(r) PROVE CountersOK'
  BY <1>1 DEF Arrive, CountersOK
<1>2. ASSUME NEW r \in Requests, RejectMethod(r) PROVE CountersOK'
  BY <1>2 DEF RejectMethod, CountersOK
<1>3. ASSUME NEW r \in Requests, RejectPath(r) PROVE CountersOK'
  BY <1>3 DEF RejectPath, CountersOK
<1>4. ASSUME NEW r \in Requests, RejectBody(r) PROVE CountersOK'
  BY <1>4 DEF RejectBody, CountersOK
<1>5. ASSUME NEW r \in Requests, NEW m \in Matchers, GetPooled(r, m)
       PROVE  CountersOK'
  BY <1>5 DEF GetPooled, CountersOK
<1>6. ASSUME NEW r \in Requests, NEW m \in Matchers, GetNew(r, m)
       PROVE  CountersOK'
  BY <1>6 DEF GetNew, CountersOK
<1>7. ASSUME NEW r \in Requests, OnError(r) PROVE CountersOK'
  <2>1. ServiceOf(r) \in Services
    BY <1>7, HandledHasService DEF OnError
  <2> QED
    BY <1>7, <2>1, UpdateType DEF OnError, CountersOK
<1>8. ASSUME NEW r \in Requests, ParseReturns(r) PROVE CountersOK'
  BY <1>8 DEF ParseReturns, CountersOK
<1>24. ASSUME NEW r \in Requests, ParseLoops(r) PROVE CountersOK'
  BY <1>24 DEF ParseLoops, CountersOK
<1>9. ASSUME NEW r \in Requests, MatchNone(r) PROVE CountersOK'
  <2>1. ServiceOf(r) \in Services
    BY <1>9, HandledHasService DEF MatchNone
  <2> QED
    BY <1>9, <2>1, UpdateType DEF MatchNone, CountersOK
<1>10. ASSUME NEW r \in Requests, MatchPanics(r) PROVE CountersOK'
  BY <1>10 DEF MatchPanics, CountersOK
<1>11. ASSUME NEW r \in Requests, NEW t \in Templates, MatchTemplate(r, t)
       PROVE  CountersOK'
  BY <1>11 DEF MatchTemplate, CountersOK
<1>12. ASSUME NEW r \in Requests, KeepOriginal(r) PROVE CountersOK'
  BY <1>12 DEF KeepOriginal, CountersOK
<1>13. ASSUME NEW r \in Requests, WriteReduced(r) PROVE CountersOK'
  BY <1>13 DEF WriteReduced, CountersOK
<1>14. ASSUME NEW r \in Requests, WriteFails(r) PROVE CountersOK'
  BY <1>14 DEF WriteFails, CountersOK
<1>15. ASSUME NEW r \in Requests, Send(r) PROVE CountersOK'
  BY <1>15 DEF Send, CountersOK
<1>16. ASSUME NEW r \in Requests, ForwardFails(r) PROVE CountersOK'
  BY <1>16 DEF ForwardFails, CountersOK
<1>17. ASSUME NEW r \in Requests, DestinationAnswers(r) PROVE CountersOK'
  BY <1>17 DEF DestinationAnswers, CountersOK
<1>18. ASSUME NEW r \in Requests, CountService(r) PROVE CountersOK'
  <2>1. ServiceOf(r) \in Services
    BY <1>18, HandledHasService DEF CountService
  <2> QED
    BY <1>18, <2>1, UpdateType DEF CountService, CountersOK
<1>19. ASSUME NEW r \in Requests, CountTemplate(r) PROVE CountersOK'
  <2>1. ServiceOf(r) \in Services
    BY <1>19, HandledHasService DEF CountTemplate
  <2>2. /\ DOMAIN matches' = Services
        /\ \A u \in Services : matches'[u] \in [TemplatesOf[u] -> Nat]
    BY <1>19, <2>1, MatchesType DEF CountTemplate
  <2> QED
    BY <1>19, <2>2 DEF CountTemplate, CountersOK
<1>20. ASSUME NEW r \in Requests, CountTemplatePanics(r) PROVE CountersOK'
  BY <1>20 DEF CountTemplatePanics, CountersOK
<1>21. ASSUME NEW r \in Requests, Return(r) PROVE CountersOK'
  BY <1>21 DEF Return, CountersOK
<1>22. ASSUME NEW s \in Services, NEW m \in Matchers, Drop(s, m)
       PROVE  CountersOK'
  BY <1>22 DEF Drop, CountersOK
<1>23. ASSUME UNCHANGED vars PROVE CountersOK'
  BY <1>23 DEF vars, CountersOK
<1> QED
  BY <1>1, <1>2, <1>3, <1>4, <1>5, <1>6, <1>7, <1>8, <1>9, <1>10, <1>11,
     <1>12, <1>13, <1>14, <1>15, <1>16, <1>17, <1>18, <1>19, <1>20, <1>21,
     <1>22, <1>23, <1>24
  DEF Next, Handle, AllEnded

LEMMA StepFields ==
  ASSUME FieldsOK, RequestInv, [Next]_vars
  PROVE  FieldsOK'
<1> USE ProxyAssumption
<1> USE DEF Goto, Respond, requestVars, bodyVars, poolVars, counterVars, PCs, Statuses
<1>1. ASSUME NEW r \in Requests, Arrive(r) PROVE FieldsOK'
  <2>1. PICK q \in RequestLines :
          /\ pc[r] = "off"
          /\ req' = [req EXCEPT ![r] = q]
          /\ ctxBody' = [ctxBody EXCEPT ![r] = "original"]
          /\ pc' = [pc EXCEPT ![r] = "arrived"]
          /\ UNCHANGED <<errors, template, status, freq, received, services>>
    BY <1>1 DEF Arrive
  <2> QED
    BY <2>1 DEF FieldsOK
<1>2. ASSUME NEW r \in Requests, RejectMethod(r) PROVE FieldsOK'
  BY <1>2 DEF RejectMethod, FieldsOK
<1>3. ASSUME NEW r \in Requests, RejectPath(r) PROVE FieldsOK'
  BY <1>3 DEF RejectPath, FieldsOK
<1>4. ASSUME NEW r \in Requests, RejectBody(r) PROVE FieldsOK'
  BY <1>4 DEF RejectBody, FieldsOK
<1>5. ASSUME NEW r \in Requests, NEW m \in Matchers, GetPooled(r, m)
       PROVE  FieldsOK'
  BY <1>5 DEF GetPooled, FieldsOK
<1>6. ASSUME NEW r \in Requests, NEW m \in Matchers, GetNew(r, m)
       PROVE  FieldsOK'
  BY <1>6 DEF GetNew, FieldsOK
<1>7. ASSUME NEW r \in Requests, OnError(r) PROVE FieldsOK'
  <2>1. errors[r] \in 0..MaxErrors
    BY DEF FieldsOK
  <2>2. errors[r] < MaxErrors
    BY <1>7 DEF OnError
  <2>3. errors[r] + 1 \in 0..MaxErrors
    BY <2>1, <2>2
  <2>4. errors' \in [Requests -> 0..MaxErrors]
    BY <1>7, <2>3 DEF OnError, FieldsOK
  <2> QED
    BY <1>7, <2>4 DEF OnError, FieldsOK
<1>8. ASSUME NEW r \in Requests, ParseReturns(r) PROVE FieldsOK'
  BY <1>8 DEF ParseReturns, FieldsOK
<1>24. ASSUME NEW r \in Requests, ParseLoops(r) PROVE FieldsOK'
  BY <1>24 DEF ParseLoops, FieldsOK
<1>9. ASSUME NEW r \in Requests, MatchNone(r) PROVE FieldsOK'
  BY <1>9 DEF MatchNone, FieldsOK
<1>10. ASSUME NEW r \in Requests, MatchPanics(r) PROVE FieldsOK'
  BY <1>10 DEF MatchPanics, FieldsOK
<1>11. ASSUME NEW r \in Requests, NEW t \in Templates, MatchTemplate(r, t)
       PROVE  FieldsOK'
  <2>1. ctxBody[r] = "original"
    BY <1>11 DEF MatchTemplate, RequestInv
  <2> QED
    BY <1>11, <2>1 DEF MatchTemplate, FieldsOK
<1>12. ASSUME NEW r \in Requests, KeepOriginal(r) PROVE FieldsOK'
  <2>1. ctxBody[r] = "original"
    BY <1>12 DEF KeepOriginal, RequestInv
  <2> QED
    BY <1>12, <2>1 DEF KeepOriginal, FieldsOK
<1>13. ASSUME NEW r \in Requests, WriteReduced(r) PROVE FieldsOK'
  BY <1>13 DEF WriteReduced, FieldsOK
<1>14. ASSUME NEW r \in Requests, WriteFails(r) PROVE FieldsOK'
  BY <1>14 DEF WriteFails, FieldsOK
<1>15. ASSUME NEW r \in Requests, Send(r) PROVE FieldsOK'
  <2>1. freq[r] \in {"none", "original", "reduced"}
    BY DEF FieldsOK
  <2> QED
    BY <1>15, <2>1 DEF Send, FieldsOK
<1>16. ASSUME NEW r \in Requests, ForwardFails(r) PROVE FieldsOK'
  BY <1>16 DEF ForwardFails, FieldsOK
<1>17. ASSUME NEW r \in Requests, DestinationAnswers(r) PROVE FieldsOK'
  BY <1>17 DEF DestinationAnswers, FieldsOK
<1>18. ASSUME NEW r \in Requests, CountService(r) PROVE FieldsOK'
  BY <1>18 DEF CountService, FieldsOK
<1>19. ASSUME NEW r \in Requests, CountTemplate(r) PROVE FieldsOK'
  BY <1>19 DEF CountTemplate, FieldsOK
<1>20. ASSUME NEW r \in Requests, CountTemplatePanics(r) PROVE FieldsOK'
  BY <1>20 DEF CountTemplatePanics, FieldsOK
<1>21. ASSUME NEW r \in Requests, Return(r) PROVE FieldsOK'
  BY <1>21 DEF Return, FieldsOK
<1>22. ASSUME NEW s \in Services, NEW m \in Matchers, Drop(s, m)
       PROVE  FieldsOK'
  BY <1>22 DEF Drop, FieldsOK
<1>23. ASSUME UNCHANGED vars PROVE FieldsOK'
  BY <1>23 DEF vars, FieldsOK
<1> QED
  BY <1>1, <1>2, <1>3, <1>4, <1>5, <1>6, <1>7, <1>8, <1>9, <1>10, <1>11,
     <1>12, <1>13, <1>14, <1>15, <1>16, <1>17, <1>18, <1>19, <1>20, <1>21,
     <1>22, <1>23, <1>24
  DEF Next, Handle, AllEnded

LEMMA StepRequest ==
  ASSUME FieldsOK, RequestInv, [Next]_vars
  PROVE  RequestInv'
<1> USE ProxyAssumption
<1> USE DEF Goto, Respond, requestVars, bodyVars, poolVars, counterVars
<1>1. ASSUME NEW r \in Requests, Arrive(r) PROVE RequestInv'
  <2>1. PICK q \in RequestLines :
          /\ pc[r] = "off"
          /\ req' = [req EXCEPT ![r] = q]
          /\ ctxBody' = [ctxBody EXCEPT ![r] = "original"]
          /\ pc' = [pc EXCEPT ![r] = "arrived"]
          /\ UNCHANGED <<errors, template, status, freq, received, services>>
    BY <1>1 DEF Arrive
  <2> QED
    BY <2>1 DEF FieldsOK, RequestInv
<1>2. ASSUME NEW r \in Requests, RejectMethod(r) PROVE RequestInv'
  BY <1>2 DEF RejectMethod, FieldsOK, RequestInv
<1>3. ASSUME NEW r \in Requests, RejectPath(r) PROVE RequestInv'
  BY <1>3 DEF RejectPath, FieldsOK, RequestInv
<1>4. ASSUME NEW r \in Requests, RejectBody(r) PROVE RequestInv'
  BY <1>4 DEF RejectBody, FieldsOK, RequestInv
<1>5. ASSUME NEW r \in Requests, NEW m \in Matchers, GetPooled(r, m)
       PROVE  RequestInv'
  BY <1>5 DEF GetPooled, Accepted, FieldsOK, RequestInv
<1>6. ASSUME NEW r \in Requests, NEW m \in Matchers, GetNew(r, m)
       PROVE  RequestInv'
  BY <1>6 DEF GetNew, Accepted, FieldsOK, RequestInv
<1>7. ASSUME NEW r \in Requests, OnError(r) PROVE RequestInv'
  BY <1>7 DEF OnError, FieldsOK, RequestInv
<1>8. ASSUME NEW r \in Requests, ParseReturns(r) PROVE RequestInv'
  BY <1>8 DEF ParseReturns, FieldsOK, RequestInv
<1>24. ASSUME NEW r \in Requests, ParseLoops(r) PROVE RequestInv'
  BY <1>24 DEF ParseLoops, FieldsOK, RequestInv
<1>9. ASSUME NEW r \in Requests, MatchNone(r) PROVE RequestInv'
  BY <1>9 DEF MatchNone, FieldsOK, RequestInv
<1>10. ASSUME NEW r \in Requests, MatchPanics(r) PROVE RequestInv'
  BY <1>10 DEF MatchPanics, FieldsOK, RequestInv
<1>11. ASSUME NEW r \in Requests, NEW t \in Templates, MatchTemplate(r, t)
       PROVE  RequestInv'
  BY <1>11 DEF MatchTemplate, FieldsOK, RequestInv
<1>12. ASSUME NEW r \in Requests, KeepOriginal(r) PROVE RequestInv'
  BY <1>12 DEF KeepOriginal, FieldsOK, RequestInv
<1>13. ASSUME NEW r \in Requests, WriteReduced(r) PROVE RequestInv'
  BY <1>13 DEF WriteReduced, FieldsOK, RequestInv
<1>14. ASSUME NEW r \in Requests, WriteFails(r) PROVE RequestInv'
  BY <1>14 DEF WriteFails, FieldsOK, RequestInv
<1>15. ASSUME NEW r \in Requests, Send(r) PROVE RequestInv'
  BY <1>15 DEF Send, FieldsOK, RequestInv
<1>16. ASSUME NEW r \in Requests, ForwardFails(r) PROVE RequestInv'
  BY <1>16 DEF ForwardFails, FieldsOK, RequestInv
<1>17. ASSUME NEW r \in Requests, DestinationAnswers(r) PROVE RequestInv'
  BY <1>17 DEF DestinationAnswers, FieldsOK, RequestInv
<1>18. ASSUME NEW r \in Requests, CountService(r) PROVE RequestInv'
  BY <1>18 DEF CountService, FieldsOK, RequestInv
<1>19. ASSUME NEW r \in Requests, CountTemplate(r) PROVE RequestInv'
  BY <1>19 DEF CountTemplate, FieldsOK, RequestInv
<1>20. ASSUME NEW r \in Requests, CountTemplatePanics(r) PROVE RequestInv'
  BY <1>20 DEF CountTemplatePanics, FieldsOK, RequestInv
<1>21. ASSUME NEW r \in Requests, Return(r) PROVE RequestInv'
  BY <1>21 DEF Return, FieldsOK, RequestInv
<1>22. ASSUME NEW s \in Services, NEW m \in Matchers, Drop(s, m)
       PROVE  RequestInv'
  BY <1>22 DEF Drop, FieldsOK, RequestInv
<1>23. ASSUME UNCHANGED vars PROVE RequestInv'
  BY <1>23 DEF vars, RequestInv
<1> QED
  BY <1>1, <1>2, <1>3, <1>4, <1>5, <1>6, <1>7, <1>8, <1>9, <1>10, <1>11,
     <1>12, <1>13, <1>14, <1>15, <1>16, <1>17, <1>18, <1>19, <1>20, <1>21,
     <1>22, <1>23, <1>24
  DEF Next, Handle, AllEnded

LEMMA StepResponse ==
  ASSUME FieldsOK, RequestInv, ResponseInv, [Next]_vars
  PROVE  ResponseInv'
<1> USE ProxyAssumption
<1> USE DEF Goto, Respond, requestVars, bodyVars, poolVars, counterVars, BeforeForwarding
<1>1. ASSUME NEW r \in Requests, Arrive(r) PROVE ResponseInv'
  <2>1. PICK q \in RequestLines :
          /\ pc[r] = "off"
          /\ req' = [req EXCEPT ![r] = q]
          /\ ctxBody' = [ctxBody EXCEPT ![r] = "original"]
          /\ pc' = [pc EXCEPT ![r] = "arrived"]
          /\ UNCHANGED <<errors, template, status, freq, received, services>>
    BY <1>1 DEF Arrive
  <2> QED
    BY <2>1 DEF FieldsOK, ResponseInv
<1>2. ASSUME NEW r \in Requests, RejectMethod(r) PROVE ResponseInv'
  BY <1>2 DEF RejectMethod, FieldsOK, ResponseInv
<1>3. ASSUME NEW r \in Requests, RejectPath(r) PROVE ResponseInv'
  BY <1>3, ZenonT(40) DEF RejectPath, FieldsOK, ResponseInv
<1>4. ASSUME NEW r \in Requests, RejectBody(r) PROVE ResponseInv'
  BY <1>4, ZenonT(40) DEF RejectBody, FieldsOK, ResponseInv
<1>5. ASSUME NEW r \in Requests, NEW m \in Matchers, GetPooled(r, m)
       PROVE  ResponseInv'
  BY <1>5, ZenonT(40) DEF GetPooled, Accepted, FieldsOK, ResponseInv
<1>6. ASSUME NEW r \in Requests, NEW m \in Matchers, GetNew(r, m)
       PROVE  ResponseInv'
  BY <1>6, ZenonT(40) DEF GetNew, Accepted, FieldsOK, ResponseInv
<1>7. ASSUME NEW r \in Requests, OnError(r) PROVE ResponseInv'
  BY <1>7 DEF OnError, FieldsOK, ResponseInv
<1>8. ASSUME NEW r \in Requests, ParseReturns(r) PROVE ResponseInv'
  BY <1>8 DEF ParseReturns, FieldsOK, ResponseInv
<1>24. ASSUME NEW r \in Requests, ParseLoops(r) PROVE ResponseInv'
  BY <1>24 DEF ParseLoops, FieldsOK, ResponseInv
<1>9. ASSUME NEW r \in Requests, MatchNone(r) PROVE ResponseInv'
  BY <1>9 DEF MatchNone, FieldsOK, ResponseInv
<1>10. ASSUME NEW r \in Requests, MatchPanics(r) PROVE ResponseInv'
  BY <1>10 DEF MatchPanics, FieldsOK, ResponseInv
<1>11. ASSUME NEW r \in Requests, NEW t \in Templates, MatchTemplate(r, t)
       PROVE  ResponseInv'
  BY <1>11 DEF MatchTemplate, FieldsOK, ResponseInv
<1>12. ASSUME NEW r \in Requests, KeepOriginal(r) PROVE ResponseInv'
  BY <1>12 DEF KeepOriginal, FieldsOK, ResponseInv
<1>13. ASSUME NEW r \in Requests, WriteReduced(r) PROVE ResponseInv'
  BY <1>13, ZenonT(40) DEF WriteReduced, FieldsOK, ResponseInv
<1>14. ASSUME NEW r \in Requests, WriteFails(r) PROVE ResponseInv'
  BY <1>14, ZenonT(40) DEF WriteFails, FieldsOK, ResponseInv
<1>15. ASSUME NEW r \in Requests, Send(r) PROVE ResponseInv'
  BY <1>15, ZenonT(40) DEF Send, FieldsOK, RequestInv, ResponseInv
<1>16. ASSUME NEW r \in Requests, ForwardFails(r) PROVE ResponseInv'
  BY <1>16 DEF ForwardFails, FieldsOK, ResponseInv
<1>17. ASSUME NEW r \in Requests, DestinationAnswers(r) PROVE ResponseInv'
  BY <1>17 DEF DestinationAnswers, FieldsOK, ResponseInv
<1>18. ASSUME NEW r \in Requests, CountService(r) PROVE ResponseInv'
  BY <1>18 DEF CountService, FieldsOK, ResponseInv
<1>19. ASSUME NEW r \in Requests, CountTemplate(r) PROVE ResponseInv'
  BY <1>19, ZenonT(40) DEF CountTemplate, FieldsOK, RequestInv, ResponseInv
<1>20. ASSUME NEW r \in Requests, CountTemplatePanics(r) PROVE ResponseInv'
  BY <1>20, ZenonT(40) DEF CountTemplatePanics, FieldsOK, RequestInv, ResponseInv
<1>21. ASSUME NEW r \in Requests, Return(r) PROVE ResponseInv'
  BY <1>21 DEF Return, FieldsOK, ResponseInv
<1>22. ASSUME NEW s \in Services, NEW m \in Matchers, Drop(s, m)
       PROVE  ResponseInv'
  BY <1>22 DEF Drop, FieldsOK, ResponseInv
<1>23. ASSUME UNCHANGED vars PROVE ResponseInv'
  BY <1>23 DEF vars, ResponseInv
<1> QED
  BY <1>1, <1>2, <1>3, <1>4, <1>5, <1>6, <1>7, <1>8, <1>9, <1>10, <1>11,
     <1>12, <1>13, <1>14, <1>15, <1>16, <1>17, <1>18, <1>19, <1>20, <1>21,
     <1>22, <1>23, <1>24
  DEF Next, Handle, AllEnded

LEMMA StepMatchers ==
  ASSUME FieldsOK, RequestInv, MatcherInv, [Next]_vars
  PROVE  MatcherInv'
<1> USE ProxyAssumption
<1> USE DEF Goto, Respond, requestVars, bodyVars, poolVars, counterVars, PCs
<1>1. ASSUME NEW r \in Requests, Arrive(r) PROVE MatcherInv'
  BY <1>1, Kept DEF Arrive
<1>2. ASSUME NEW r \in Requests, RejectMethod(r) PROVE MatcherInv'
  BY <1>2, Kept DEF RejectMethod
<1>3. ASSUME NEW r \in Requests, RejectPath(r) PROVE MatcherInv'
  BY <1>3, Kept DEF RejectPath
<1>4. ASSUME NEW r \in Requests, RejectBody(r) PROVE MatcherInv'
  BY <1>4, Kept DEF RejectBody
<1>5. ASSUME NEW r \in Requests, NEW m \in Matchers, GetPooled(r, m)
       PROVE  MatcherInv'
  <2>1. ServiceOf(r) \in Services /\ pc[r] = "arrived"
    BY <1>5, AcceptedHasService DEF GetPooled, Accepted
  <2> QED
    BY <1>5, <2>1, Taken DEF GetPooled
<1>6. ASSUME NEW r \in Requests, NEW m \in Matchers, GetNew(r, m)
       PROVE  MatcherInv'
  <2>1. pc[r] = "arrived"
    BY <1>6 DEF GetNew, Accepted
  <2> QED
    BY <1>6, <2>1, LoopService, Made DEF GetNew
<1>7. ASSUME NEW r \in Requests, OnError(r) PROVE MatcherInv'
  BY <1>7 DEF OnError, MatcherInv, PoolType, MatchersAreExclusive, NoMatcherIsLost
<1>8. ASSUME NEW r \in Requests, ParseReturns(r) PROVE MatcherInv'
  BY <1>8, Kept DEF ParseReturns
<1>24. ASSUME NEW r \in Requests, ParseLoops(r) PROVE MatcherInv'
  BY <1>24, Kept DEF ParseLoops
<1>9. ASSUME NEW r \in Requests, MatchNone(r) PROVE MatcherInv'
  BY <1>9, Kept DEF MatchNone
<1>10. ASSUME NEW r \in Requests, MatchPanics(r) PROVE MatcherInv'
  BY <1>10, Kept DEF MatchPanics
<1>11. ASSUME NEW r \in Requests, NEW t \in Templates, MatchTemplate(r, t)
       PROVE  MatcherInv'
  BY <1>11, Kept DEF MatchTemplate
<1>12. ASSUME NEW r \in Requests, KeepOriginal(r) PROVE MatcherInv'
  BY <1>12, Kept DEF KeepOriginal
<1>13. ASSUME NEW r \in Requests, WriteReduced(r) PROVE MatcherInv'
  BY <1>13, Kept DEF WriteReduced
<1>14. ASSUME NEW r \in Requests, WriteFails(r) PROVE MatcherInv'
  BY <1>14, Kept DEF WriteFails
<1>15. ASSUME NEW r \in Requests, Send(r) PROVE MatcherInv'
  BY <1>15, Kept DEF Send
<1>16. ASSUME NEW r \in Requests, ForwardFails(r) PROVE MatcherInv'
  BY <1>16, Kept DEF ForwardFails
<1>17. ASSUME NEW r \in Requests, DestinationAnswers(r) PROVE MatcherInv'
  BY <1>17, Kept DEF DestinationAnswers
<1>18. ASSUME NEW r \in Requests, CountService(r) PROVE MatcherInv'
  BY <1>18, Kept DEF CountService
<1>19. ASSUME NEW r \in Requests, CountTemplate(r) PROVE MatcherInv'
  BY <1>19, Kept DEF CountTemplate
<1>20. ASSUME NEW r \in Requests, CountTemplatePanics(r) PROVE MatcherInv'
  BY <1>20, Kept DEF CountTemplatePanics
<1>21. ASSUME NEW r \in Requests, Return(r) PROVE MatcherInv'
  <2>1. ServiceOf(r) \in Services
    BY <1>21, HandledHasService DEF Return
  <2> QED
    BY <1>21, <2>1, PutBack DEF Return
<1>22. ASSUME NEW s \in Services, NEW m \in Matchers, Drop(s, m)
       PROVE  MatcherInv'
  BY <1>22, Dropped DEF Drop
<1>23. ASSUME UNCHANGED vars PROVE MatcherInv'
  BY <1>23 DEF vars, MatcherInv, PoolType, MatchersAreExclusive, NoMatcherIsLost
<1> QED
  BY <1>1, <1>2, <1>3, <1>4, <1>5, <1>6, <1>7, <1>8, <1>9, <1>10, <1>11,
     <1>12, <1>13, <1>14, <1>15, <1>16, <1>17, <1>18, <1>19, <1>20, <1>21,
     <1>22, <1>23, <1>24
  DEF Next, Handle, AllEnded

LEMMA StepIInv ==
  IInv /\ [Next]_vars => IInv'
BY StepCounters, StepFields, StepRequest, StepResponse, StepMatchers DEF IInv

\* IInv is an invariant of Spec.
THEOREM Invariance == Spec => []IInv
BY InitIInv, StepIInv, PTL DEF Spec

\* Every variable stays of its type.
THEOREM TypeCorrectness == Spec => []TypeOK
<1>1. IInv => TypeOK
  BY DEF IInv, FieldsOK, CountersOK, MatcherInv, PoolType, TypeOK
<1> QED
  BY <1>1, Invariance, PTL

\* However many requests are handled at the same time, and however their
\* handling ends, no two of them share a matcher.
THEOREM Exclusion == Spec => []MatchersAreExclusive
<1>1. IInv => MatchersAreExclusive
  BY DEF IInv, MatcherInv
<1> QED
  BY <1>1, Invariance, PTL

\* Every matcher is in a pool or with a request being handled, after panics
\* and errors as well.
THEOREM NoLeak == Spec => []NoMatcherIsLost
<1>1. IInv => NoMatcherIsLost
  BY DEF IInv, MatcherInv
<1> QED
  BY <1>1, Invariance, PTL

\* The response of a request agrees with whether it was forwarded.
THEOREM Verdict == Spec => []ResponseTellsWhatHappened
<1>1. IInv => ResponseTellsWhatHappened
  BY DEF IInv, ResponseInv, ResponseTellsWhatHappened
<1> QED
  BY <1>1, Invariance, PTL

(***************************************************************************)
(* The counters.                                                           *)
(***************************************************************************)

\* The requests whose match has been counted, unless that panicked, and those
\* that a service has counted as handled, at least.
MatchIsCounted(r) == pc[r] \in {"returning", "answered"} /\ status[r] = "forwarded"

IsHandled(r) ==
  \/ pc[r] \in {"count template", "returning", "answered"} /\ status[r] = "forwarded"
  \/ status[r] = "403"

Matched(s, t) ==
  {r \in Requests : req[r].path = PathOf[s] /\ MatchIsCounted(r) /\ template[r] = t}

Handled(s) == {r \in Requests : req[r].path = PathOf[s] /\ IsHandled(r)}

TallyInv ==
  /\ \A p \in Paths : PathOf[services[p]] = p
  /\ \A r \in Requests : pc[r] = "off" => status[r] = "200"
  /\ \A s \in Services : s = services[PathOf[s]] =>
       /\ \A t \in TemplatesOf[s] : matches[s][t] = Cardinality(Matched(s, t))
       /\ stat[s].handled >= Cardinality(Handled(s))

LEMMA InitTally == Init => TallyInv
<1> SUFFICES ASSUME Init PROVE TallyInv
  OBVIOUS
<1>1. \A s, t : Matched(s, t) = {} /\ Handled(s) = {}
  BY DEF Init, Matched, Handled, MatchIsCounted, IsHandled
<1>2. \A p \in Paths : PathOf[services[p]] = p
  BY DEF Init
<1>3. Cardinality({}) = 0
  BY FS_EmptySet
<1>4. ASSUME NEW s \in Services
      PROVE  /\ \A t \in TemplatesOf[s] : matches[s][t] = 0
             /\ stat[s].handled = 0
  BY DEF Init
<1>5. \A r \in Requests : status[r] = "200"
  BY DEF Init
<1>6. \A s, t : Cardinality(Matched(s, t)) = 0 /\ Cardinality(Handled(s)) = 0
  BY <1>1, <1>3
<1> QED
  BY <1>2, <1>4, <1>5, <1>6 DEF TallyInv

LEMMA TalliesAreFinite ==
  \A s, t : /\ IsFiniteSet(Matched(s, t)) /\ Cardinality(Matched(s, t)) \in Nat
           /\ IsFiniteSet(Handled(s)) /\ Cardinality(Handled(s)) \in Nat
<1> TAKE s, t
<1>1. Matched(s, t) \in SUBSET Requests /\ Handled(s) \in SUBSET Requests
  BY DEF Matched, Handled
<1>2. IsFiniteSet(Matched(s, t)) /\ IsFiniteSet(Handled(s))
  BY <1>1, FS_Subset, ProxyAssumption
<1> QED
  BY <1>2, FS_CardinalityType

\* Nothing is counted, and what should be has been: the requests whose matches
\* count are the same, except with templates that the service does not have.
LEMMA TallyStays ==
  ASSUME CountersOK, CountersOK', TallyInv, services' = services, matches' = matches,
         \A r \in Requests : pc'[r] = "off" => status'[r] = "200",
         \A s \in Services : stat'[s].handled >= stat[s].handled,
         \A r \in Requests :
           /\ MatchIsCounted(r) => MatchIsCounted(r)' /\ req'[r] = req[r] /\ template'[r] = template[r]
           /\ MatchIsCounted(r)' /\ ~MatchIsCounted(r) =>
                req'[r] = req[r] /\ template'[r] \notin TemplatesOf[ServiceOf(r)]
           /\ IsHandled(r)' => IsHandled(r) /\ req'[r] = req[r]
  PROVE  TallyInv'
<1> SUFFICES ASSUME NEW s \in Services, s = services[PathOf[s]]
             PROVE  /\ \A t \in TemplatesOf[s] : matches'[s][t] = Cardinality(Matched(s, t)')
                    /\ stat'[s].handled >= Cardinality(Handled(s)')
  BY DEF TallyInv
<1>1. ASSUME NEW t \in TemplatesOf[s]
      PROVE  Matched(s, t)' = Matched(s, t)
  BY DEF Matched, ServiceOf
<1>2. Handled(s)' \in SUBSET Handled(s)
  BY DEF Handled
<1>3. Cardinality(Handled(s)') <= Cardinality(Handled(s)) /\ Cardinality(Handled(s)') \in Nat
  <2>1. IsFiniteSet(Handled(s)) /\ IsFiniteSet(Handled(s)')
    BY <1>2, TalliesAreFinite, FS_Subset
  <2> QED
    BY <1>2, <2>1, FS_Subset, FS_CardinalityType
<1>4. /\ stat[s].handled \in Nat /\ stat'[s].handled \in Nat
      /\ stat[s].handled >= Cardinality(Handled(s))
      /\ Cardinality(Handled(s)) \in Nat
  BY TalliesAreFinite DEF CountersOK, TallyInv
<1>5. stat'[s].handled >= Cardinality(Handled(s)')
  BY <1>3, <1>4
<1> QED
  BY <1>1, <1>5 DEF TallyInv

\* A request is counted as handled.
LEMMA TallyHandled ==
  ASSUME CountersOK, TallyInv, NEW r \in Requests, ServiceOf(r) \in Services,
         req[r].path \in Paths, NEW b \in BOOLEAN, Update(ServiceOf(r), b),
         services' = services, matches' = matches, req' = req, template' = template,
         \A q \in Requests : pc'[q] = "off" => status'[q] = "200",
         \A q \in Requests : MatchIsCounted(q)' <=> MatchIsCounted(q),
         \A q \in Requests : q # r => (IsHandled(q)' <=> IsHandled(q))
  PROVE  TallyInv'
<1> SUFFICES ASSUME NEW s \in Services, s = services[PathOf[s]]
             PROVE  /\ \A t \in TemplatesOf[s] : matches'[s][t] = Cardinality(Matched(s, t)')
                    /\ stat'[s].handled >= Cardinality(Handled(s)')
  BY DEF TallyInv
<1>1. \A t : Matched(s, t)' = Matched(s, t)
  BY DEF Matched
<1>2. /\ stat[s].handled \in Nat /\ IsFiniteSet(Handled(s)) /\ Cardinality(Handled(s)) \in Nat
      /\ stat[s].handled >= Cardinality(Handled(s))
  BY TalliesAreFinite DEF CountersOK, TallyInv
<1>3. CASE s = ServiceOf(r)
  <2>1. stat'[s].handled = stat[s].handled + 1
    BY <1>3 DEF Update, CountersOK
  <2>2. Handled(s)' \in SUBSET (Handled(s) \cup {r})
    BY DEF Handled
  <2>3. /\ IsFiniteSet(Handled(s) \cup {r})
        /\ Cardinality(Handled(s) \cup {r}) <= Cardinality(Handled(s)) + 1
        /\ Cardinality(Handled(s) \cup {r}) \in Nat
    <3>1. /\ IsFiniteSet(Handled(s) \cup {r})
          /\ Cardinality(Handled(s) \cup {r})
               = IF r \in Handled(s) THEN Cardinality(Handled(s)) ELSE Cardinality(Handled(s)) + 1
      BY <1>2, FS_AddElement
    <3> QED
      BY <1>2, <3>1
  <2>4. Cardinality(Handled(s)') <= Cardinality(Handled(s) \cup {r})
        /\ Cardinality(Handled(s)') \in Nat
    BY <2>2, <2>3, FS_Subset, FS_CardinalityType
  <2>5. stat'[s].handled >= Cardinality(Handled(s)')
    BY <1>2, <2>1, <2>3, <2>4
  <2> QED
    BY <1>1, <2>5 DEF TallyInv
<1>4. CASE s # ServiceOf(r)
  <2>1. stat'[s].handled = stat[s].handled
    BY <1>4 DEF Update, CountersOK
  <2>2. req[r].path # PathOf[s]
    BY <1>4 DEF ServiceOf
  <2>3. Handled(s)' = Handled(s)
    BY <2>2 DEF Handled
  <2> QED
    BY <1>1, <1>2, <2>1, <2>3 DEF TallyInv
<1> QED
  BY <1>3, <1>4

\* A match is counted.
LEMMA TallyMatched ==
  ASSUME FieldsOK, CountersOK, TallyInv, NEW r \in Requests, req[r].path \in Paths,
         pc[r] = "count template", status[r] = "forwarded", CountTemplate(r)
  PROVE  TallyInv'
<1> DEFINE s0 == ServiceOf(r)
           t0 == template[r]
<1>0. /\ pc' = [pc EXCEPT ![r] = "returning"] /\ status' = status
      /\ UNCHANGED <<req, template, stat, services>>
  BY DEF CountTemplate, Goto
<1>a. \A q \in Requests : pc'[q] = IF q = r THEN "returning" ELSE pc[q]
  BY <1>0 DEF FieldsOK
<1>b. s0 \in Services /\ t0 \in TemplatesOf[s0] /\ PathOf[s0] = req[r].path
  BY DEF CountTemplate, ServiceOf, FieldsOK, TallyInv
<1>c. \A s \in Services : \A t \in TemplatesOf[s] :
        matches'[s][t] = IF s = s0 /\ t = t0 THEN matches[s][t] + 1 ELSE matches[s][t]
  <2>1. matches' = [matches EXCEPT ![s0][t0] = @ + 1]
    BY DEF CountTemplate
  <2> QED
    BY <1>b, <2>1 DEF CountersOK
<1>d. \A q \in Requests : pc'[q] = "off" => status'[q] = "200"
  <2>1. \A q \in Requests : pc[q] = "off" => status[q] = "200"
    BY DEF TallyInv
  <2>2. \A q \in Requests : pc'[q] = "off" => pc[q] = "off"
    BY <1>a
  <2> QED
    BY <1>0, <2>1, <2>2
<1> SUFFICES ASSUME NEW s \in Services, s = services[PathOf[s]]
             PROVE  /\ \A t \in TemplatesOf[s] : matches'[s][t] = Cardinality(Matched(s, t)')
                    /\ stat'[s].handled >= Cardinality(Handled(s)')
  BY <1>0, <1>d DEF TallyInv
<1>1. Handled(s)' = Handled(s)
  BY <1>0, <1>a DEF Handled, IsHandled
<1>2. ASSUME NEW t \in TemplatesOf[s]
      PROVE  matches'[s][t] = Cardinality(Matched(s, t)')
  <2>0. /\ IsFiniteSet(Matched(s, t)) /\ Cardinality(Matched(s, t)) = matches[s][t]
        /\ r \notin Matched(s, t)
    <3>1. r \notin Matched(s, t)
      BY DEF Matched, MatchIsCounted
    <3>2. Cardinality(Matched(s, t)) = matches[s][t]
      BY DEF TallyInv
    <3> QED
      BY <3>1, <3>2, TalliesAreFinite
  <2>1. CASE s = s0 /\ t = t0
    <3>1. Matched(s, t)' = Matched(s, t) \cup {r}
      BY <1>0, <1>a, <1>b, <2>1 DEF Matched, MatchIsCounted
    <3>2. Cardinality(Matched(s, t)') = Cardinality(Matched(s, t)) + 1
      BY <2>0, <3>1, FS_AddElement
    <3> QED
      BY <1>c, <2>0, <2>1, <3>2
  <2>2. CASE ~(s = s0 /\ t = t0)
    <3>1. ~(req[r].path = PathOf[s] /\ template[r] = t)
      BY <2>2 DEF ServiceOf
    <3>2. Matched(s, t)' = Matched(s, t)
      BY <1>0, <1>a, <3>1 DEF Matched, MatchIsCounted
    <3> QED
      BY <1>c, <2>0, <2>2, <3>2
  <2> QED
    BY <2>1, <2>2
<1> QED
  BY <1>0, <1>1, <1>2 DEF TallyInv

\* A request goes on, without its response being changed to one that counts.
Moves(r) ==
  /\ \A q \in Requests : q # r =>
       pc'[q] = pc[q] /\ status'[q] = status[q] /\ template'[q] = template[q]
  /\ pc[r] \in {"arrived", "parsing", "matched", "sending", "waiting"} /\ pc'[r] # "off"
  /\ status'[r] = "403" => status[r] = "403"
  /\ status'[r] = "forwarded" => status[r] = "forwarded" \/ pc'[r] = "count service"
  /\ req' = req /\ services' = services /\ stat' = stat /\ matches' = matches

LEMMA TallyOfMove ==
  ASSUME FieldsOK, CountersOK, ResponseInv, TallyInv, NEW r \in Requests, Moves(r)
  PROVE  TallyInv'
<1>1. \A q \in Requests : pc[q] = "off" => status[q] = "200"
  BY DEF TallyInv
<1>2. status[r] # "forwarded"
  BY DEF Moves, ResponseInv, BeforeForwarding
<1>3. ASSUME NEW q \in Requests
      PROVE  /\ MatchIsCounted(q)' <=> MatchIsCounted(q)
             /\ MatchIsCounted(q) => template'[q] = template[q]
             /\ IsHandled(q)' => IsHandled(q)
             /\ pc'[q] = "off" => status'[q] = "200"
  <2>1. CASE q = r
    BY <1>2, <2>1 DEF Moves, MatchIsCounted, IsHandled
  <2>2. CASE q # r
    BY <1>1, <2>2 DEF Moves, MatchIsCounted, IsHandled
  <2> QED
    BY <2>1, <2>2
<1>4. req' = req /\ services' = services /\ stat' = stat /\ matches' = matches
  BY DEF Moves
<1>5. CountersOK'
  BY <1>4 DEF CountersOK
<1>6. ASSUME NEW s \in Services PROVE stat'[s].handled >= stat[s].handled
  <2>1. stat[s].handled \in Nat /\ stat' = stat
    BY <1>4 DEF CountersOK
  <2> QED
    BY <2>1
<1> QED
  BY <1>3, <1>4, <1>5, <1>6, TallyStays

LEMMA StepTally ==
  ASSUME FieldsOK, CountersOK, RequestInv, ResponseInv, MatcherInv, TallyInv, [Next]_vars
  PROVE  TallyInv'
<1>c. CountersOK'
  BY StepCounters
<1>o. \A r \in Requests : pc[r] = "off" => status[r] = "200"
  BY DEF TallyInv
<1>n. ASSUME NEW s \in Services PROVE stat[s].handled >= stat[s].handled
  <2>1. stat[s].handled \in Nat
    BY DEF CountersOK
  <2> QED
    BY <2>1
<1> USE DEF Goto, Respond, requestVars, bodyVars, poolVars, counterVars
<1>1. ASSUME NEW r \in Requests, Arrive(r) PROVE TallyInv'
  <2>1. PICK q \in RequestLines :
          /\ pc[r] = "off"
          /\ req' = [req EXCEPT ![r] = q]
          /\ pc' = [pc EXCEPT ![r] = "arrived"]
          /\ UNCHANGED <<template, status, services, stat, matches>>
    BY <1>1 DEF Arrive
  <2>2. \A p \in Requests : p # r => pc'[p] = pc[p] /\ req'[p] = req[p]
    BY <2>1 DEF FieldsOK
  <2>3. pc'[r] = "arrived" /\ status[r] = "200"
    BY <1>o, <2>1 DEF FieldsOK
  <2>4. ASSUME NEW p \in Requests
        PROVE  /\ MatchIsCounted(p)' <=> MatchIsCounted(p)
               /\ MatchIsCounted(p) => req'[p] = req[p]
               /\ IsHandled(p)' => IsHandled(p) /\ req'[p] = req[p]
               /\ pc'[p] = "off" => status'[p] = "200"
    <3>1. CASE p = r
      BY <2>1, <2>3, <3>1 DEF MatchIsCounted, IsHandled
    <3>2. CASE p # r
      BY <1>o, <2>1, <2>2, <3>2 DEF MatchIsCounted, IsHandled
    <3> QED
      BY <3>1, <3>2
  <2> QED
    BY <1>c, <1>n, <2>1, <2>4, TallyStays
<1>2. ASSUME NEW r \in Requests, RejectMethod(r) PROVE TallyInv'
  <2>1. Moves(r)
    BY <1>2 DEF RejectMethod, FieldsOK, Moves
  <2> QED
    BY <2>1, TallyOfMove
<1>3. ASSUME NEW r \in Requests, RejectPath(r) PROVE TallyInv'
  <2>1. Moves(r)
    BY <1>3 DEF RejectPath, FieldsOK, Moves
  <2> QED
    BY <2>1, TallyOfMove
<1>4. ASSUME NEW r \in Requests, RejectBody(r) PROVE TallyInv'
  <2>1. Moves(r)
    BY <1>4 DEF RejectBody, FieldsOK, Moves
  <2> QED
    BY <2>1, TallyOfMove
<1>5. ASSUME NEW r \in Requests, NEW m \in Matchers, GetPooled(r, m) PROVE TallyInv'
  <2>1. Moves(r)
    BY <1>5 DEF GetPooled, Accepted, FieldsOK, Moves
  <2> QED
    BY <2>1, TallyOfMove
<1>6. ASSUME NEW r \in Requests, NEW m \in Matchers, GetNew(r, m) PROVE TallyInv'
  <2>1. Moves(r)
    BY <1>6 DEF GetNew, Accepted, FieldsOK, Moves
  <2> QED
    BY <2>1, TallyOfMove
<1>7. ASSUME NEW r \in Requests, OnError(r) PROVE TallyInv'
  <2>1. /\ pc[r] = "parsing" /\ pc' = pc /\ status' = [status EXCEPT ![r] = "400"]
        /\ Update(ServiceOf(r), TRUE) /\ UNCHANGED <<req, template, matches, services>>
    BY <1>7 DEF OnError
  <2>2. ServiceOf(r) \in Services /\ req[r].path \in Paths
    BY <2>1, HandledHasService DEF RequestInv
  <2>3. ASSUME NEW q \in Requests
        PROVE  /\ MatchIsCounted(q)' <=> MatchIsCounted(q)
               /\ q # r => (IsHandled(q)' <=> IsHandled(q))
               /\ pc'[q] = "off" => status'[q] = "200"
    BY <1>o, <2>1 DEF FieldsOK, MatchIsCounted, IsHandled
  <2> QED
    BY <2>1, <2>2, <2>3, TallyHandled
<1>8. ASSUME NEW r \in Requests, ParseReturns(r) PROVE TallyInv'
  <2>1. Moves(r)
    BY <1>8 DEF ParseReturns, FieldsOK, Moves
  <2> QED
    BY <2>1, TallyOfMove
<1>24. ASSUME NEW r \in Requests, ParseLoops(r) PROVE TallyInv'
  <2>1. Moves(r)
    BY <1>24 DEF ParseLoops, FieldsOK, Moves
  <2> QED
    BY <2>1, TallyOfMove
<1>9. ASSUME NEW r \in Requests, MatchNone(r) PROVE TallyInv'
  <2>1. /\ pc[r] = "parsing" /\ pc' = [pc EXCEPT ![r] = "returning"]
        /\ status' = [status EXCEPT ![r] = "403"]
        /\ Update(ServiceOf(r), TRUE) /\ UNCHANGED <<req, template, matches, services>>
    BY <1>9 DEF MatchNone
  <2>2. ServiceOf(r) \in Services /\ req[r].path \in Paths
    BY <2>1, HandledHasService DEF RequestInv
  <2>3. ASSUME NEW q \in Requests
        PROVE  /\ MatchIsCounted(q)' <=> MatchIsCounted(q)
               /\ q # r => (IsHandled(q)' <=> IsHandled(q))
               /\ pc'[q] = "off" => status'[q] = "200"
    BY <1>o, <2>1 DEF FieldsOK, MatchIsCounted, IsHandled
  <2> QED
    BY <2>1, <2>2, <2>3, TallyHandled
<1>10. ASSUME NEW r \in Requests, MatchPanics(r) PROVE TallyInv'
  <2>1. Moves(r)
    BY <1>10 DEF MatchPanics, FieldsOK, Moves
  <2> QED
    BY <2>1, TallyOfMove
<1>11. ASSUME NEW r \in Requests, NEW t \in Templates, MatchTemplate(r, t) PROVE TallyInv'
  <2>1. Moves(r)
    BY <1>11 DEF MatchTemplate, FieldsOK, Moves
  <2> QED
    BY <2>1, TallyOfMove
<1>12. ASSUME NEW r \in Requests, KeepOriginal(r) PROVE TallyInv'
  <2>1. Moves(r)
    BY <1>12 DEF KeepOriginal, FieldsOK, Moves
  <2> QED
    BY <2>1, TallyOfMove
<1>13. ASSUME NEW r \in Requests, WriteReduced(r) PROVE TallyInv'
  <2>1. Moves(r)
    BY <1>13 DEF WriteReduced, FieldsOK, Moves
  <2> QED
    BY <2>1, TallyOfMove
<1>14. ASSUME NEW r \in Requests, WriteFails(r) PROVE TallyInv'
  <2>1. Moves(r)
    BY <1>14 DEF WriteFails, FieldsOK, Moves
  <2> QED
    BY <2>1, TallyOfMove
<1>15. ASSUME NEW r \in Requests, Send(r) PROVE TallyInv'
  <2>1. Moves(r)
    BY <1>15 DEF Send, FieldsOK, Moves
  <2> QED
    BY <2>1, TallyOfMove
<1>16. ASSUME NEW r \in Requests, ForwardFails(r) PROVE TallyInv'
  <2>1. Moves(r)
    BY <1>16 DEF ForwardFails, FieldsOK, Moves
  <2> QED
    BY <2>1, TallyOfMove
<1>17. ASSUME NEW r \in Requests, DestinationAnswers(r) PROVE TallyInv'
  <2>1. Moves(r)
    BY <1>17 DEF DestinationAnswers, FieldsOK, Moves
  <2> QED
    BY <2>1, TallyOfMove
<1>18. ASSUME NEW r \in Requests, CountService(r) PROVE TallyInv'
  <2>1. /\ pc[r] = "count service" /\ pc' = [pc EXCEPT ![r] = "count template"]
        /\ Update(ServiceOf(r), TRUE) /\ UNCHANGED <<req, template, matches, services, status>>
    BY <1>18 DEF CountService
  <2>2. ServiceOf(r) \in Services /\ req[r].path \in Paths
    BY <2>1, HandledHasService DEF RequestInv
  <2>3. ASSUME NEW q \in Requests
        PROVE  /\ MatchIsCounted(q)' <=> MatchIsCounted(q)
               /\ q # r => (IsHandled(q)' <=> IsHandled(q))
               /\ pc'[q] = "off" => status'[q] = "200"
    BY <1>o, <2>1 DEF FieldsOK, MatchIsCounted, IsHandled
  <2> QED
    BY <2>1, <2>2, <2>3, TallyHandled
<1>19. ASSUME NEW r \in Requests, CountTemplate(r) PROVE TallyInv'
  <2>1. pc[r] = "count template" /\ status[r] = "forwarded" /\ req[r].path \in Paths
    BY <1>19 DEF CountTemplate, RequestInv, ResponseInv
  <2> QED
    BY <1>19, <2>1, TallyMatched
<1>20. ASSUME NEW r \in Requests, CountTemplatePanics(r) PROVE TallyInv'
  <2>1. /\ pc[r] = "count template" /\ pc' = [pc EXCEPT ![r] = "returning"]
        /\ template[r] \notin TemplatesOf[ServiceOf(r)]
        /\ UNCHANGED <<req, template, matches, services, stat, status>>
    BY <1>20 DEF CountTemplatePanics
  <2>2. ASSUME NEW q \in Requests
        PROVE  /\ MatchIsCounted(q) => MatchIsCounted(q)'
               /\ MatchIsCounted(q)' /\ ~MatchIsCounted(q) => q = r
               /\ IsHandled(q)' => IsHandled(q)
               /\ pc'[q] = "off" => status'[q] = "200"
    BY <1>o, <2>1 DEF FieldsOK, MatchIsCounted, IsHandled
  <2> QED
    BY <1>c, <1>n, <2>1, <2>2, TallyStays
<1>21. ASSUME NEW r \in Requests, Return(r) PROVE TallyInv'
  <2>1. /\ pc[r] = "returning" /\ pc' = [pc EXCEPT ![r] = "answered"]
        /\ UNCHANGED <<req, template, matches, services, stat, status>>
    BY <1>21 DEF Return
  <2>2. ASSUME NEW q \in Requests
        PROVE  /\ MatchIsCounted(q)' <=> MatchIsCounted(q)
               /\ IsHandled(q)' => IsHandled(q)
               /\ pc'[q] = "off" => status'[q] = "200"
    BY <1>o, <2>1 DEF FieldsOK, MatchIsCounted, IsHandled
  <2> QED
    BY <1>c, <1>n, <2>1, <2>2, TallyStays
<1>22. ASSUME UNCHANGED <<requestVars, counterVars>> PROVE TallyInv'
  <2>1. \A q \in Requests : /\ MatchIsCounted(q)' <=> MatchIsCounted(q)
                            /\ IsHandled(q)' <=> IsHandled(q)
    BY <1>22 DEF MatchIsCounted, IsHandled
  <2> QED
    BY <1>c, <1>n, <1>o, <1>22, <2>1, TallyStays
<1>23. (\E s \in Services, m \in Matchers : Drop(s, m)) \/ UNCHANGED vars
         => UNCHANGED <<requestVars, counterVars>>
  BY DEF Drop, vars
<1> QED
  BY <1>1, <1>2, <1>3, <1>4, <1>5, <1>6, <1>7, <1>8, <1>9, <1>10, <1>11,
     <1>12, <1>13, <1>14, <1>15, <1>16, <1>17, <1>18, <1>19, <1>20, <1>21,
     <1>22, <1>23, <1>24
  DEF Next, Handle, AllEnded

\* When nothing is under way, the tallies are of what was answered.
LEMMA AddedUp == CountersOK /\ TallyInv => MatchesAddUp
<1> SUFFICES ASSUME CountersOK, TallyInv,
                    \A r \in Requests : pc[r] \in {"off", "answered"},
                    NEW s \in Services, s = services[PathOf[s]]
             PROVE  /\ \A t \in TemplatesOf[s] :
                         matches[s][t]
                           = Cardinality({r \in Answered(s, "forwarded") : template[r] = t})
                    /\ stat[s].handled
                         >= Cardinality(Answered(s, "forwarded") \cup Answered(s, "403"))
  BY DEF MatchesAddUp
<1>1. \A r \in Requests : pc[r] = "off" => status[r] = "200"
  BY DEF TallyInv
<1>2. \A t : {r \in Answered(s, "forwarded") : template[r] = t} = Matched(s, t)
  BY DEF Answered, Matched, MatchIsCounted
<1>3. Answered(s, "forwarded") \cup Answered(s, "403") = Handled(s)
  BY <1>1 DEF Answered, Handled, IsHandled
<1>4. /\ \A t \in TemplatesOf[s] : matches[s][t] = Cardinality(Matched(s, t))
      /\ stat[s].handled >= Cardinality(Handled(s))
  BY DEF TallyInv
<1> QED
  BY <1>2, <1>3, <1>4

\* When nothing is under way, the counters of matches are of the requests that
\* the destination has answered (proxy.go:274-282), and no service has handled
\* fewer than those and the ones it has blocked.
THEOREM Tallies == Spec => []MatchesAddUp
<1>1. Init => IInv /\ TallyInv
  BY InitIInv, InitTally
<1>2. (IInv /\ TallyInv) /\ [Next]_vars => (IInv /\ TallyInv)'
  BY StepIInv, StepTally DEF IInv
<1>3. IInv /\ TallyInv => MatchesAddUp
  BY AddedUp DEF IInv
<1> QED
  BY <1>1, <1>2, <1>3, PTL DEF Spec
=============================================================================
