-------------------------- MODULE StatisticsProofs --------------------------
(***************************************************************************)
(* Proofs about Statistics: for any number of concurrent updates and any   *)
(* times they report.                                                      *)
(***************************************************************************)
EXTENDS Statistics, FiniteSetTheorems, WellFoundedInduction, TLAPS

-----------------------------------------------------------------------------
(* Induction over the subsets of a finite set.                             *)

\* The set T of those for which a statement holds has them all.
LEMMA SubsetSteps ==
  ASSUME NEW S, IsFiniteSet(S), NEW T,
         \A D \in SUBSET S : (\A x \in D : D \ {x} \in T) => D \in T
  PROVE  SUBSET S \subseteq T
<1> SUFFICES ASSUME (SUBSET S) \ T # {} PROVE FALSE
  OBVIOUS
<1> DEFINE N == {Cardinality(D) : D \in (SUBSET S) \ T}
<1>1. \A D \in SUBSET S : IsFiniteSet(D) /\ Cardinality(D) \in Nat
  BY FS_Subset, FS_CardinalityType
<1>2. N # {} /\ N \in SUBSET Nat
  BY <1>1
<1>3. PICK k \in N : \A n \in N : <<n, k>> \notin OpToRel(<, Nat)
  <2> HIDE DEF N
  <2> QED
    BY <1>2, NatLessThanWellFounded, WFMin
<1>4. \A n \in N : ~(n < k)
  <2> HIDE DEF N
  <2> QED
    BY <1>2, <1>3 DEF OpToRel
<1>5. PICK D \in (SUBSET S) \ T : Cardinality(D) = k
  OBVIOUS
<1>6. ASSUME NEW x \in D PROVE D \ {x} \in T
  <2>1. Cardinality(D \ {x}) = k - 1 /\ Cardinality(D \ {x}) \in Nat /\ k \in Nat
    BY <1>1, <1>5, FS_RemoveElement
  <2>2. Cardinality(D \ {x}) \notin N
    <3> HIDE DEF N
    <3> QED
      BY <2>1, <1>4
  <2> QED
    BY <2>2
<1> QED
  BY <1>5, <1>6

-----------------------------------------------------------------------------
(* Sums: as many units as there are in all the numbers together.           *)

Units(f, D) == {w \in D \X Nat : w[2] < f[w[1]]}

LEMMA FirstNumbers ==
  ASSUME NEW n \in Nat
  PROVE  IsFiniteSet(0..(n - 1)) /\ Cardinality(0..(n - 1)) = n
<1>1. 0 \in Int /\ n - 1 \in Int
  OBVIOUS
<1>2. /\ IsFiniteSet(0..(n - 1))
      /\ Cardinality(0..(n - 1)) = IF 0 > n - 1 THEN 0 ELSE (n - 1) - 0 + 1
  BY <1>1, FS_Interval, Zenon
<1> QED
  BY <1>2

\* Another number brings its units along.
LEMMA OneMoreNumber ==
  ASSUME NEW f, NEW D, IsFiniteSet(Units(f, D)), NEW x, x \notin D, f[x] \in Nat
  PROVE  /\ IsFiniteSet(Units(f, D \cup {x}))
         /\ Cardinality(Units(f, D \cup {x})) = Cardinality(Units(f, D)) + f[x]
<1> DEFINE own == {x} \X (0..(f[x] - 1))
<1>1. IsFiniteSet(own) /\ Cardinality(own) = f[x]
  <2>1. IsFiniteSet({x}) /\ Cardinality({x}) = 1
    BY FS_Singleton
  <2>2. IsFiniteSet(0..(f[x] - 1)) /\ Cardinality(0..(f[x] - 1)) = f[x]
    BY FirstNumbers
  <2>3. IsFiniteSet(own) /\ Cardinality(own) = Cardinality({x}) * Cardinality(0..(f[x] - 1))
    BY <2>1, <2>2, FS_Product
  <2> QED
    BY <2>1, <2>2, <2>3
<1>2. Units(f, D \cup {x}) = Units(f, D) \cup own
  <2>1. \A n \in Nat : n < f[x] <=> n \in 0..(f[x] - 1)
    OBVIOUS
  <2> QED
    BY <2>1 DEF Units
<1>3. Units(f, D) \cap own = {}
  BY DEF Units
<1> HIDE DEF own
<1>4. /\ IsFiniteSet(Units(f, D) \cup own)
      /\ Cardinality(Units(f, D) \cup own)
           = Cardinality(Units(f, D)) + Cardinality(own) - Cardinality(Units(f, D) \cap own)
  BY <1>1, FS_Union
<1>5. Cardinality(Units(f, D) \cap own) = 0 /\ Cardinality(Units(f, D)) \in Nat
  BY <1>3, FS_EmptySet, FS_CardinalityType
<1>6. Cardinality(Units(f, D) \cup own) = Cardinality(Units(f, D)) + f[x] - 0
  BY <1>1, <1>4, <1>5
<1>7. Cardinality(Units(f, D) \cup own) = Cardinality(Units(f, D)) + f[x]
  BY <1>5, <1>6
<1> QED
  BY <1>2, <1>4, <1>7

\* Of finitely many numbers there are finitely many units.
LEMMA UnitsAreFinite ==
  ASSUME NEW S, IsFiniteSet(S), NEW f, \A x \in S : f[x] \in Nat, NEW D \in SUBSET S
  PROVE  IsFiniteSet(Units(f, D)) /\ Cardinality(Units(f, D)) \in Nat
<1> DEFINE T == {C \in SUBSET S : IsFiniteSet(Units(f, C))}
<1>1. {} \in T
  <2>1. Units(f, {}) = {}
    BY DEF Units
  <2> QED
    BY <2>1, FS_EmptySet
<1>2. ASSUME NEW C \in SUBSET S, NEW x \in C, C \ {x} \in T PROVE C \in T
  <2>1. (C \ {x}) \cup {x} = C
    OBVIOUS
  <2>2. IsFiniteSet(Units(f, (C \ {x}) \cup {x}))
    BY <1>2, OneMoreNumber
  <2> QED
    BY <2>1, <2>2
<1>3. SUBSET S \subseteq T
  <2> HIDE DEF T
  <2> QED
    <3>1. \A B \in SUBSET S : (\A x \in B : B \ {x} \in T) => B \in T
      BY <1>1, <1>2
    <3> QED
      BY <3>1, SubsetSteps
<1> QED
  BY <1>3, FS_CardinalityType

\* The function that MapThenSumSet chooses: there is one, and what it tells of
\* a set is the number of its units.
Sums(h, f, S) ==
  h = [D \in SUBSET S |-> IF D = {} THEN 0
                          ELSE f[CHOOSE x \in D : TRUE] + h[D \ {CHOOSE x \in D : TRUE}]]

LEMMA SumsExist ==
  ASSUME NEW S, IsFiniteSet(S), NEW f, \A x \in S : f[x] \in Nat
  PROVE  \E h : Sums(h, f, S)
<1> DEFINE g == [D \in SUBSET S |-> Cardinality(Units(f, D))]
<1>1. g[{}] = 0
  <2>1. Units(f, {}) = {} /\ {} \in SUBSET S
    BY DEF Units
  <2> QED
    BY <2>1, FS_EmptySet
<1>2. ASSUME NEW D \in SUBSET S, D # {}, NEW x \in D
      PROVE  g[D] = f[x] + g[D \ {x}]
  <2> DEFINE C == D \ {x}
  <2>0. g[D] = Cardinality(Units(f, D)) /\ g[C] = Cardinality(Units(f, C))
    OBVIOUS
  <2> HIDE DEF g
  <2>1. (D \ {x}) \cup {x} = D /\ D \ {x} \in SUBSET S /\ f[x] \in Nat
    OBVIOUS
  <2>2. IsFiniteSet(Units(f, D \ {x})) /\ Cardinality(Units(f, D \ {x})) \in Nat
    BY <2>1, UnitsAreFinite
  <2>3. Cardinality(Units(f, D)) = Cardinality(Units(f, D \ {x})) + f[x]
    <3>1. Cardinality(Units(f, (D \ {x}) \cup {x})) = Cardinality(Units(f, D \ {x})) + f[x]
      BY <2>1, <2>2, OneMoreNumber
    <3> QED
      BY <2>1, <3>1
  <2> QED
    BY <2>0, <2>1, <2>2, <2>3
<1>3. g = [D \in SUBSET S |-> g[D]]
  OBVIOUS
<1> HIDE DEF g
<1>4. \A D \in SUBSET S : D # {} => (CHOOSE x \in D : TRUE) \in D
  OBVIOUS
<1>5. ASSUME NEW D \in SUBSET S
      PROVE  g[D] = IF D = {} THEN 0
                    ELSE f[CHOOSE x \in D : TRUE] + g[D \ {CHOOSE x \in D : TRUE}]
  BY <1>1, <1>2, <1>4
<1> QED
  <2>1. g = [D \in SUBSET S |-> IF D = {} THEN 0
                                ELSE f[CHOOSE x \in D : TRUE] + g[D \ {CHOOSE x \in D : TRUE}]]
    BY <1>3, <1>5, Zenon
  <2> QED
    BY <2>1 DEF Sums

LEMMA SumIsUnits ==
  ASSUME NEW S, IsFiniteSet(S), NEW f, \A x \in S : f[x] \in Nat, NEW h, Sums(h, f, S)
  PROVE  h[S] = Cardinality(Units(f, S))
<1> DEFINE T == {D \in SUBSET S : h[D] = Cardinality(Units(f, D))}
           One(D) == CHOOSE x \in D : TRUE
<1>0. ASSUME NEW D \in SUBSET S, D # {}
      PROVE  One(D) \in D /\ h[D] = f[One(D)] + h[D \ {One(D)}]
  BY <1>0 DEF Sums
<1>00. h[{}] = 0
  <2>1. {} \in SUBSET S
    OBVIOUS
  <2> QED
    BY <2>1 DEF Sums
<1> HIDE DEF One
<1>1. {} \in T
  <2>1. Units(f, {}) = {} /\ {} \in SUBSET S
    BY DEF Units
  <2> QED
    BY <2>1, <1>00, FS_EmptySet
<1>2. ASSUME NEW D \in SUBSET S, D # {}, D \ {One(D)} \in T PROVE D \in T
  <2> DEFINE x == One(D)
  <2>1. (D \ {x}) \cup {x} = D /\ D \ {x} \in SUBSET S /\ f[x] \in Nat
    BY <1>2, <1>0
  <2>2. IsFiniteSet(Units(f, D \ {x})) /\ Cardinality(Units(f, D \ {x})) \in Nat
    BY <2>1, UnitsAreFinite
  <2>3. Cardinality(Units(f, D)) = Cardinality(Units(f, D \ {x})) + f[x]
    <3>1. Cardinality(Units(f, (D \ {x}) \cup {x})) = Cardinality(Units(f, D \ {x})) + f[x]
      BY <2>1, <2>2, OneMoreNumber
    <3> QED
      BY <2>1, <3>1
  <2>4. h[D] = f[x] + h[D \ {x}] /\ h[D \ {x}] = Cardinality(Units(f, D \ {x}))
    BY <1>0, <1>2
  <2>5. h[D] = Cardinality(Units(f, D))
    BY <2>1, <2>2, <2>3, <2>4
  <2> QED
    BY <2>5
<1>3. SUBSET S \subseteq T
  <2> HIDE DEF T
  <2>1. \A D \in SUBSET S : (\A x \in D : D \ {x} \in T) => D \in T
    BY <1>0, <1>1, <1>2
  <2> QED
    BY <2>1, SubsetSteps
<1> QED
  BY <1>3

-----------------------------------------------------------------------------
(* Statistics.                                                             *)

\* The operations Update consists of, and what is known of a call at each.
PlaceInv ==
  \A u \in Updates :
    /\ pc[u].op \in {"idle", "received", "blocked", "sent", "forwarded"} =>
         pc[u].of = "processing"
    /\ pc[u].op \in {"received", "blocked", "sent", "forwarded"} =>
         kind = "service"
    /\ pc[u].op = "done" => pc[u].of = "response"
    /\ pc[u].op = "blocked" => call[u].blocked
    /\ pc[u].op \in {"sent", "forwarded"} => ~call[u].blocked
    /\ pc[u].of = "response" => pc[u].op = "done" \/ ~call[u].blocked
    /\ pc[u].op # "idle" => call[u] \in Calls /\ nth[u] # 0

\* The calls that have been counted as blocked, and as forwarded.
BlockedCalls   == {u \in Updates : pc[u].op = "done" /\ call[u].blocked}
ForwardedCalls == {u \in Updates : pc[u].of = "response" /\ ~call[u].blocked}

CountInv ==
  /\ stat.count = Cardinality(Begun)
  /\ kind = "service" =>
       /\ stat.blocked   = Cardinality(BlockedCalls)
       /\ stat.forwarded = Cardinality(ForwardedCalls)
  /\ kind = "template" => stat.blocked = 0 /\ stat.forwarded = 0

IInv ==
  /\ Types
  /\ PlaceInv
  /\ CountInv
  /\ HighestWasReported

\* What a call may report are numbers.
LEMMA CallType ==
  ASSUME NEW c \in Calls \cup {NoCall}
  PROVE  /\ c.received \in Nat /\ c.sent \in Nat
         /\ \A m \in Measures : c[m] \in Nat
<1> USE StatisticsAssumption
<1>1. CASE c = NoCall
  BY <1>1 DEF NoCall, Measures
<1>2. CASE c \in Calls
  <2>1. /\ c.received \in Sizes \cup {0}
        /\ c.sent \in Sizes \cup {0}
        /\ c.processing \in Times
        /\ c.response \in Times \cup {0}
    BY <1>2 DEF Calls
  <2>2. Sizes \cup {0} \subseteq Nat /\ Times \cup {0} \subseteq Nat
    OBVIOUS
  <2>3. /\ c.received \in Nat /\ c.sent \in Nat
        /\ c.processing \in Nat /\ c.response \in Nat
    BY <2>1, <2>2
  <2>4. \A m \in Measures : m = "processing" \/ m = "response"
    BY DEF Measures
  <2> QED
    BY <2>3, <2>4
<1> QED
  BY <1>1, <1>2

\* What a template counts was not blocked.
LEMMA TemplateCalls ==
  ASSUME kind = "template", NEW c \in Calls
  PROVE  ~c.blocked
BY DEF Calls

\* Dividing by a count of calls.
LEMMA QuotientType ==
  ASSUME NEW d \in Int, NEW n \in Nat, n # 0
  PROVE  Quotient(d, n) \in Int
BY DEF Quotient

LEMMA InitIInv ==
  Init => IInv
<1> SUFFICES ASSUME Init PROVE IInv
  OBVIOUS
<1>1. Types
  <2>1. call \in [Updates -> Calls \cup {NoCall}]
    BY DEF Init
  <2>2. pc \in [Updates -> [op : Ops, of : Measures]]
    BY DEF Init, Idle, Step, Ops, Measures
  <2>3. stat \in [count : Nat, blocked : Nat, forwarded : Nat,
                  received : Nat, sent : Nat]
    BY DEF Init
  <2>4. loaded \in [Updates -> Int] /\ nth \in [Updates -> Nat]
    BY DEF Init
  <2>5. highest \in [Measures -> Nat] /\ average \in [Measures -> Int]
    BY DEF Init
  <2>6. overlapped \in BOOLEAN /\ kind \in Kinds
    BY DEF Init
  <2> QED
    BY <2>1, <2>2, <2>3, <2>4, <2>5, <2>6 DEF Types
<1>2. PlaceInv
  BY DEF Init, PlaceInv, Idle, Step, NoCall
<1>3. Begun = {} /\ BlockedCalls = {} /\ ForwardedCalls = {}
  BY DEF Init, Begun, BlockedCalls, ForwardedCalls, Idle, Step
<1>4. CountInv
  BY <1>3, FS_EmptySet DEF Init, CountInv
<1>5. HighestWasReported
  BY DEF Init, HighestWasReported
<1> QED
  BY <1>1, <1>2, <1>4, <1>5 DEF IInv

\* The places a call goes to next are operations.
LEMMA StepType ==
  ASSUME NEW u \in Updates, NEW m \in Measures
  PROVE  /\ AfterHighest(u, m) \in [op : Ops, of : Measures]
         /\ AfterAverage(m) \in [op : Ops, of : Measures]
BY DEF AfterHighest, AfterAverage, Step, Done, Ops, Measures

\* The type of the counters, and with it what may be reported, stays.
LEMMA KindIsFixed ==
  ASSUME [Next]_vars
  PROVE  kind' = kind /\ Calls' = Calls
<1>1. kind' = kind
  BY DEF Next, Quiet, vars, Count, AddReceived, CountBlocked, AddSent,
         CountForwarded, LoadAverage, AddToAverage, CompareHigher,
         CompareNotHigher, StoreHighest
<1> QED
  BY <1>1 DEF Calls

LEMMA StepTypes ==
  ASSUME Types, PlaceInv, [Next]_vars
  PROVE  Types'
<1>k. kind' = kind /\ Calls' = Calls
  BY KindIsFixed
<1> USE StatisticsAssumption, <1>k
<1> USE DEF Types, Goto, Step, Ops, Measures
<1>0. \A u \in Updates : /\ call[u].received \in Nat /\ call[u].sent \in Nat
                         /\ \A m \in Measures : call[u][m] \in Nat
  BY CallType
<1>1. ASSUME NEW u \in Updates, Count(u) PROVE Types'
  BY <1>1 DEF Count
<1>2. ASSUME NEW u \in Updates, AddReceived(u) PROVE Types'
  BY <1>2, <1>0 DEF AddReceived
<1>3. ASSUME NEW u \in Updates, CountBlocked(u) PROVE Types'
  BY <1>3 DEF CountBlocked, Done
<1>4. ASSUME NEW u \in Updates, AddSent(u) PROVE Types'
  BY <1>4, <1>0 DEF AddSent
<1>5. ASSUME NEW u \in Updates, CountForwarded(u) PROVE Types'
  BY <1>5 DEF CountForwarded
<1>6. ASSUME NEW u \in Updates, NEW m \in Measures, LoadAverage(u, m) PROVE Types'
  BY <1>6 DEF LoadAverage
<1>7. ASSUME NEW u \in Updates, NEW m \in Measures, AddToAverage(u, m) PROVE Types'
  <2>1. nth[u] \in Nat /\ nth[u] # 0
    BY <1>7 DEF AddToAverage, PlaceInv
  <2>2. call[u][m] - loaded[u] \in Int
    BY <1>0
  <2>3. Quotient(call[u][m] - loaded[u], nth[u]) \in Int
    BY <2>1, <2>2, QuotientType
  <2>4. average' \in [Measures -> Int]
    BY <1>7, <2>3 DEF AddToAverage
  <2> QED
    BY <1>7, <2>4, StepType DEF AddToAverage
<1>8. ASSUME NEW u \in Updates, NEW m \in Measures, CompareHigher(u, m) PROVE Types'
  BY <1>8 DEF CompareHigher
<1>9. ASSUME NEW u \in Updates, NEW m \in Measures, CompareNotHigher(u, m) PROVE Types'
  BY <1>9, StepType DEF CompareNotHigher
<1>10. ASSUME NEW u \in Updates, NEW m \in Measures, StoreHighest(u, m) PROVE Types'
  BY <1>10, <1>0, StepType DEF StoreHighest
<1>11. ASSUME UNCHANGED vars PROVE Types'
  BY <1>11 DEF vars
<1> HIDE DEF Types, Goto, Step, Ops, Measures
<1> QED
  BY <1>1, <1>2, <1>3, <1>4, <1>5, <1>6, <1>7, <1>8, <1>9, <1>10, <1>11
  DEF Next, Quiet

\* Every call is where its arguments lead it.
LEMMA StepPlace ==
  ASSUME Types, PlaceInv, [Next]_vars
  PROVE  PlaceInv'
<1>k. kind' = kind /\ Calls' = Calls
  BY KindIsFixed
<1> USE StatisticsAssumption, <1>k
<1> USE DEF Types, PlaceInv, Goto, Step, Measures
<1>1. ASSUME NEW u \in Updates, Count(u) PROVE PlaceInv'
  BY <1>1 DEF Count
<1>2. ASSUME NEW u \in Updates, AddReceived(u) PROVE PlaceInv'
  BY <1>2 DEF AddReceived
<1>3. ASSUME NEW u \in Updates, CountBlocked(u) PROVE PlaceInv'
  BY <1>3 DEF CountBlocked, Done
<1>4. ASSUME NEW u \in Updates, AddSent(u) PROVE PlaceInv'
  BY <1>4 DEF AddSent
<1>5. ASSUME NEW u \in Updates, CountForwarded(u) PROVE PlaceInv'
  BY <1>5 DEF CountForwarded
<1>6. ASSUME NEW u \in Updates, NEW m \in Measures, LoadAverage(u, m) PROVE PlaceInv'
  BY <1>6 DEF LoadAverage
<1>7. ASSUME NEW u \in Updates, NEW m \in Measures, AddToAverage(u, m) PROVE PlaceInv'
  BY <1>7, TemplateCalls DEF AddToAverage, AfterAverage, Done
<1>8. ASSUME NEW u \in Updates, NEW m \in Measures, CompareHigher(u, m) PROVE PlaceInv'
  BY <1>8 DEF CompareHigher
<1>9. ASSUME NEW u \in Updates, NEW m \in Measures, CompareNotHigher(u, m) PROVE PlaceInv'
  BY <1>9, TemplateCalls DEF CompareNotHigher, AfterHighest
<1>10. ASSUME NEW u \in Updates, NEW m \in Measures, StoreHighest(u, m) PROVE PlaceInv'
  BY <1>10, TemplateCalls DEF StoreHighest, AfterHighest
<1>11. ASSUME UNCHANGED vars PROVE PlaceInv'
  BY <1>11 DEF vars
<1> HIDE DEF Types, PlaceInv, Goto, Step, Measures
<1> QED
  BY <1>1, <1>2, <1>3, <1>4, <1>5, <1>6, <1>7, <1>8, <1>9, <1>10, <1>11
  DEF Next, Quiet

\* One more element.
LEMMA Grows ==
  ASSUME NEW S, IsFiniteSet(S), NEW x, x \notin S
  PROVE  Cardinality(S \cup {x}) = Cardinality(S) + 1
BY FS_AddElement

\* The counters count.
LEMMA StepCount ==
  ASSUME Types, PlaceInv, CountInv, [Next]_vars
  PROVE  CountInv'
<1> USE StatisticsAssumption
<1> USE DEF Types, PlaceInv, Goto, Step, Measures
<1>1. ASSUME NEW u \in Updates, Count(u) PROVE CountInv'
  <2>1. u \notin Begun /\ Begun' = Begun \cup {u}
    BY <1>1 DEF Count, Begun, BlockedCalls, ForwardedCalls, Idle, Done
  <2>2. BlockedCalls' = BlockedCalls
    BY <1>1 DEF Count, Begun, BlockedCalls, ForwardedCalls, Idle, Done
  <2>3. ForwardedCalls' = ForwardedCalls
    BY <1>1 DEF Count, Begun, BlockedCalls, ForwardedCalls, Idle, Done
  <2>4. IsFiniteSet(Begun)
    BY FS_Subset DEF Begun
  <2>5. Cardinality(Begun') = Cardinality(Begun) + 1
    BY <2>1, <2>2, <2>3, <2>4, Grows
  <2> QED
    BY <1>1, <2>1, <2>2, <2>3, <2>5 DEF Count, CountInv
<1>2. ASSUME NEW u \in Updates, AddReceived(u) PROVE CountInv'
  <2>1. Begun' = Begun
    BY <1>2 DEF AddReceived, Begun, Idle
  <2>2. kind = "service" => BlockedCalls' = BlockedCalls
    BY <1>2 DEF AddReceived, BlockedCalls
  <2>3. kind = "service" => ForwardedCalls' = ForwardedCalls
    BY <1>2 DEF AddReceived, ForwardedCalls
  <2> QED
    BY <1>2, <2>1, <2>2, <2>3 DEF AddReceived, CountInv
<1>3. ASSUME NEW u \in Updates, CountBlocked(u) PROVE CountInv'
  <2>1. Begun' = Begun
    BY <1>3 DEF CountBlocked, Begun, BlockedCalls, ForwardedCalls, Idle, Done
  <2>2. u \notin BlockedCalls /\ BlockedCalls' = BlockedCalls \cup {u}
    BY <1>3 DEF CountBlocked, Begun, BlockedCalls, ForwardedCalls, Idle, Done
  <2>3. ForwardedCalls' = ForwardedCalls
    BY <1>3 DEF CountBlocked, Begun, BlockedCalls, ForwardedCalls, Idle, Done
  <2>4. IsFiniteSet(BlockedCalls)
    BY FS_Subset DEF BlockedCalls
  <2>5. Cardinality(BlockedCalls') = Cardinality(BlockedCalls) + 1
    BY <2>1, <2>2, <2>3, <2>4, Grows
  <2> QED
    BY <1>3, <2>1, <2>2, <2>3, <2>5 DEF CountBlocked, CountInv
<1>4. ASSUME NEW u \in Updates, AddSent(u) PROVE CountInv'
  <2>1. Begun' = Begun
    BY <1>4 DEF AddSent, Begun, Idle
  <2>2. kind = "service" => BlockedCalls' = BlockedCalls
    BY <1>4 DEF AddSent, BlockedCalls
  <2>3. kind = "service" => ForwardedCalls' = ForwardedCalls
    BY <1>4 DEF AddSent, ForwardedCalls
  <2> QED
    BY <1>4, <2>1, <2>2, <2>3 DEF AddSent, CountInv
<1>5. ASSUME NEW u \in Updates, CountForwarded(u) PROVE CountInv'
  <2>1. Begun' = Begun
    BY <1>5 DEF CountForwarded, Begun, BlockedCalls, ForwardedCalls, Idle, Done
  <2>2. BlockedCalls' = BlockedCalls
    BY <1>5 DEF CountForwarded, Begun, BlockedCalls, ForwardedCalls, Idle, Done
  <2>3. u \notin ForwardedCalls /\ ForwardedCalls' = ForwardedCalls \cup {u}
    BY <1>5 DEF CountForwarded, Begun, BlockedCalls, ForwardedCalls, Idle, Done
  <2>4. IsFiniteSet(ForwardedCalls)
    BY FS_Subset DEF ForwardedCalls
  <2>5. Cardinality(ForwardedCalls') = Cardinality(ForwardedCalls) + 1
    BY <2>1, <2>2, <2>3, <2>4, Grows
  <2> QED
    BY <1>5, <2>1, <2>2, <2>3, <2>5 DEF CountForwarded, CountInv
<1>6. ASSUME NEW u \in Updates, NEW m \in Measures, LoadAverage(u, m) PROVE CountInv'
  <2>1. Begun' = Begun
    BY <1>6 DEF LoadAverage, Begun, Idle
  <2>2. kind = "service" => BlockedCalls' = BlockedCalls
    BY <1>6 DEF LoadAverage, BlockedCalls
  <2>3. kind = "service" => ForwardedCalls' = ForwardedCalls
    BY <1>6 DEF LoadAverage, ForwardedCalls
  <2> QED
    BY <1>6, <2>1, <2>2, <2>3 DEF LoadAverage, CountInv
<1>7. ASSUME NEW u \in Updates, NEW m \in Measures, AddToAverage(u, m) PROVE CountInv'
  <2>1. Begun' = Begun
    BY <1>7 DEF AddToAverage, Begun, Idle, AfterAverage, Done
  <2>2. kind = "service" => BlockedCalls' = BlockedCalls
    BY <1>7 DEF AddToAverage, BlockedCalls, AfterAverage, Done
  <2>3. kind = "service" => ForwardedCalls' = ForwardedCalls
    BY <1>7 DEF AddToAverage, ForwardedCalls, AfterAverage, Done
  <2> QED
    BY <1>7, <2>1, <2>2, <2>3 DEF AddToAverage, CountInv
<1>8. ASSUME NEW u \in Updates, NEW m \in Measures, CompareHigher(u, m) PROVE CountInv'
  <2>1. Begun' = Begun
    BY <1>8 DEF CompareHigher, Begun, Idle
  <2>2. kind = "service" => BlockedCalls' = BlockedCalls
    BY <1>8 DEF CompareHigher, BlockedCalls
  <2>3. kind = "service" => ForwardedCalls' = ForwardedCalls
    BY <1>8 DEF CompareHigher, ForwardedCalls
  <2> QED
    BY <1>8, <2>1, <2>2, <2>3 DEF CompareHigher, CountInv
<1>9. ASSUME NEW u \in Updates, NEW m \in Measures, CompareNotHigher(u, m) PROVE CountInv'
  <2>1. Begun' = Begun
    BY <1>9 DEF CompareNotHigher, Begun, Idle, AfterHighest
  <2>2. kind = "service" => BlockedCalls' = BlockedCalls
    BY <1>9 DEF CompareNotHigher, BlockedCalls, AfterHighest
  <2>3. kind = "service" => ForwardedCalls' = ForwardedCalls
    BY <1>9 DEF CompareNotHigher, ForwardedCalls, AfterHighest
  <2> QED
    BY <1>9, <2>1, <2>2, <2>3 DEF CompareNotHigher, CountInv
<1>10. ASSUME NEW u \in Updates, NEW m \in Measures, StoreHighest(u, m) PROVE CountInv'
  <2>1. Begun' = Begun
    BY <1>10 DEF StoreHighest, Begun, Idle, AfterHighest
  <2>2. kind = "service" => BlockedCalls' = BlockedCalls
    BY <1>10 DEF StoreHighest, BlockedCalls, AfterHighest
  <2>3. kind = "service" => ForwardedCalls' = ForwardedCalls
    BY <1>10 DEF StoreHighest, ForwardedCalls, AfterHighest
  <2> QED
    BY <1>10, <2>1, <2>2, <2>3 DEF StoreHighest, CountInv
<1>11. ASSUME UNCHANGED vars PROVE CountInv'
  BY <1>11 DEF vars, CountInv, Begun, BlockedCalls, ForwardedCalls
<1> QED
  BY <1>1, <1>2, <1>3, <1>4, <1>5, <1>6, <1>7, <1>8, <1>9, <1>10, <1>11
  DEF Next, Quiet

\* The maxima are times reported.
LEMMA StepHighest ==
  ASSUME Types, PlaceInv, HighestWasReported, [Next]_vars
  PROVE  HighestWasReported'
<1> USE StatisticsAssumption
<1> USE DEF Types, Goto, Step, Measures
<1>1. ASSUME NEW u \in Updates, Count(u) PROVE HighestWasReported'
  BY <1>1 DEF Count, PlaceInv, HighestWasReported, Reporting, Begun, Idle
<1>2. ASSUME NEW u \in Updates, AddReceived(u) PROVE HighestWasReported'
  BY <1>2 DEF AddReceived, PlaceInv, HighestWasReported, Reporting, Begun, Idle
<1>3. ASSUME NEW u \in Updates, CountBlocked(u) PROVE HighestWasReported'
  BY <1>3 DEF CountBlocked, PlaceInv, HighestWasReported, Reporting, Begun, Idle, Done
<1>4. ASSUME NEW u \in Updates, AddSent(u) PROVE HighestWasReported'
  BY <1>4 DEF AddSent, PlaceInv, HighestWasReported, Reporting, Begun, Idle
<1>5. ASSUME NEW u \in Updates, CountForwarded(u) PROVE HighestWasReported'
  BY <1>5 DEF CountForwarded, PlaceInv, HighestWasReported, Reporting, Begun, Idle
<1>6. ASSUME NEW u \in Updates, NEW m \in Measures, LoadAverage(u, m) PROVE HighestWasReported'
  BY <1>6 DEF LoadAverage, PlaceInv, HighestWasReported, Reporting, Begun, Idle
<1>7. ASSUME NEW u \in Updates, NEW m \in Measures, AddToAverage(u, m) PROVE HighestWasReported'
  BY <1>7 DEF AddToAverage, PlaceInv, HighestWasReported, Reporting, Begun, Idle, AfterAverage, Done
<1>8. ASSUME NEW u \in Updates, NEW m \in Measures, CompareHigher(u, m) PROVE HighestWasReported'
  BY <1>8 DEF CompareHigher, PlaceInv, HighestWasReported, Reporting, Begun, Idle
<1>9. ASSUME NEW u \in Updates, NEW m \in Measures, CompareNotHigher(u, m) PROVE HighestWasReported'
  BY <1>9 DEF CompareNotHigher, PlaceInv, HighestWasReported, Reporting, Begun, Idle, AfterHighest
<1>10. ASSUME NEW u \in Updates, NEW m \in Measures, StoreHighest(u, m) PROVE HighestWasReported'
  BY <1>10 DEF StoreHighest, PlaceInv, HighestWasReported, Reporting, Begun, Idle, AfterHighest
<1>11. ASSUME UNCHANGED vars PROVE HighestWasReported'
  BY <1>11 DEF vars, HighestWasReported, Reporting, Begun
<1> QED
  BY <1>1, <1>2, <1>3, <1>4, <1>5, <1>6, <1>7, <1>8, <1>9, <1>10, <1>11
  DEF Next, Quiet

LEMMA StepIInv ==
  IInv /\ [Next]_vars => IInv'
BY StepTypes, StepPlace, StepCount, StepHighest DEF IInv

\* IInv is an invariant of Spec.
THEOREM Invariance == Spec => []IInv
BY InitIInv, StepIInv, PTL DEF Spec

\* Every variable stays of its type.
THEOREM TypeCorrectness == Spec => []TypeOK
<1>1. ASSUME IInv, NEW u \in Updates, pc[u] # Idle PROVE nth[u] > 0
  <2>1. pc[u] \in [op : Ops, of : Measures] /\ nth[u] \in Nat
    BY <1>1 DEF IInv, Types
  <2>2. pc[u].op # "idle"
    BY <1>1, <2>1 DEF IInv, PlaceInv, Idle, Step
  <2>3. nth[u] # 0
    BY <1>1, <2>2 DEF IInv, PlaceInv
  <2> QED
    BY <2>1, <2>3
<1>2. IInv => TypeOK
  BY <1>1 DEF IInv, TypeOK
<1> QED
  BY <1>2, Invariance, PTL

LEMMA CountsAgree == IInv => CallsAddUp
<1> SUFFICES ASSUME IInv PROVE CallsAddUp
  OBVIOUS
<1> USE StatisticsAssumption
<1>1. /\ IsFiniteSet(Begun) /\ IsFiniteSet(BlockedCalls)
      /\ IsFiniteSet(ForwardedCalls)
  BY FS_Subset DEF Begun, BlockedCalls, ForwardedCalls
<1>2. BlockedCalls \cup ForwardedCalls \in SUBSET Begun
  BY DEF IInv, PlaceInv, BlockedCalls, ForwardedCalls, Begun, Idle, Step
<1>3. BlockedCalls \cap ForwardedCalls = {}
  BY DEF BlockedCalls, ForwardedCalls
<1>4. Cardinality(BlockedCalls) + Cardinality(ForwardedCalls) <= Cardinality(Begun)
  <2>1. Cardinality(BlockedCalls \cup ForwardedCalls)
          = Cardinality(BlockedCalls) + Cardinality(ForwardedCalls) - 0
    BY <1>1, <1>3, FS_Union, FS_EmptySet
  <2>2. Cardinality(BlockedCalls \cup ForwardedCalls) <= Cardinality(Begun)
    BY <1>1, <1>2, FS_Subset
  <2> QED
    BY <1>1, <2>1, <2>2, FS_CardinalityType
<1>5. stat.blocked + stat.forwarded <= stat.count
  <2>1. Cardinality(Begun) \in Nat
    BY <1>1, FS_CardinalityType
  <2>2. kind = "service" \/ kind = "template"
    BY DEF IInv, Types
  <2> QED
    BY <1>4, <2>1, <2>2 DEF IInv, CountInv
<1>6. ASSUME AtRest
      PROVE  /\ BlockedCalls = {u \in Returned : call[u].blocked}
             /\ ForwardedCalls = {u \in Returned : ~call[u].blocked}
  <2>1. \A u \in Updates : pc[u] = Idle \/ pc[u] = Done
    BY <1>6 DEF AtRest, Running
  <2>2. \A u \in Updates : pc[u].op = "done" <=> pc[u] = Done
    BY <2>1 DEF Idle, Done, Step
  <2>3. \A u \in Updates : pc[u].of = "response" <=> pc[u] = Done
    BY <2>1 DEF Idle, Done, Step
  <2> QED
    BY <2>2, <2>3 DEF BlockedCalls, ForwardedCalls, Returned
<1> QED
  BY <1>5, <1>6 DEF IInv, CountInv, CallsAddUp

\* No call of Update is lost or counted twice, whatever the interleaving.
THEOREM NoLostCalls == Spec => []CallsAddUp
BY CountsAgree, Invariance, PTL

\* A maximum is 0 or a time that was reported, whatever the interleaving.
THEOREM HighestIsReal == Spec => []HighestWasReported
<1>1. IInv => HighestWasReported
  BY DEF IInv
<1> QED
  BY <1>1, Invariance, PTL

-----------------------------------------------------------------------------
(* The byte counters.                                                      *)

Received == [u \in Updates |-> call[u].received]
Sent     == [u \in Updates |-> call[u].sent]

\* The calls whose bytes have been added; of those that never add any (a call
\* of a template, a blocked one) there are none.
ReceivedCalls == {u \in Updates : pc[u].op \notin {"idle", "received"}}
SentCalls == {u \in Updates : pc[u].op \in {"forwarded", "done"} \/ pc[u].of = "response"}

BytesInv ==
  /\ stat.received = Cardinality(Units(Received, ReceivedCalls))
  /\ stat.sent     = Cardinality(Units(Sent, SentCalls))

\* Calls that report nothing make no difference.
LEMMA SameUnits ==
  ASSUME NEW f, NEW g, NEW D, NEW E,
         \A x \in D \cap E : f[x] = g[x],
         \A x \in D \ E : f[x] = 0,
         \A x \in E \ D : g[x] = 0
  PROVE  Units(f, D) = Units(g, E)
<1>1. \A n \in Nat : ~(n < 0)
  OBVIOUS
<1>2. \A x, n : (x \in D /\ n \in Nat /\ n < f[x]) <=> (x \in E /\ n \in Nat /\ n < g[x])
  BY <1>1
<1> QED
  BY <1>2 DEF Units

LEMMA SilentCalls ==
  ASSUME NEW c \in Calls
  PROVE  /\ kind = "template" => c.received = 0 /\ c.sent = 0
         /\ c.blocked => c.sent = 0
BY DEF Calls

LEMMA InitBytes == Init => BytesInv
<1> SUFFICES ASSUME Init PROVE BytesInv
  OBVIOUS
<1>1. ReceivedCalls = {} /\ SentCalls = {}
  BY DEF Init, ReceivedCalls, SentCalls, Idle, Step
<1>2. Units(Received, {}) = {} /\ Units(Sent, {}) = {}
  BY DEF Units
<1> QED
  BY <1>1, <1>2, FS_EmptySet DEF Init, BytesInv

\* A step that adds no bytes: of the calls that join those that have added
\* theirs, or leave them, none has any.
LEMMA NoBytes ==
  ASSUME BytesInv,
         stat'.received = stat.received, stat'.sent = stat.sent,
         \A u \in ReceivedCalls \cap ReceivedCalls' : call'[u].received = call[u].received,
         \A u \in ReceivedCalls \ ReceivedCalls' : call[u].received = 0,
         \A u \in ReceivedCalls' \ ReceivedCalls : call'[u].received = 0,
         \A u \in SentCalls \cap SentCalls' : call'[u].sent = call[u].sent,
         \A u \in SentCalls \ SentCalls' : call[u].sent = 0,
         \A u \in SentCalls' \ SentCalls : call'[u].sent = 0
  PROVE  BytesInv'
<1>1. /\ ReceivedCalls \subseteq Updates /\ ReceivedCalls' \subseteq Updates
      /\ SentCalls \subseteq Updates /\ SentCalls' \subseteq Updates
  BY DEF ReceivedCalls, SentCalls
<1>2. \A u \in Updates : /\ Received[u] = call[u].received /\ Received'[u] = call'[u].received
                         /\ Sent[u] = call[u].sent /\ Sent'[u] = call'[u].sent
  BY DEF Received, Sent
<1>3. Units(Received, ReceivedCalls) = Units(Received', ReceivedCalls')
  <2>1. /\ \A u \in ReceivedCalls \cap ReceivedCalls' : Received[u] = Received'[u]
        /\ \A u \in ReceivedCalls \ ReceivedCalls' : Received[u] = 0
        /\ \A u \in ReceivedCalls' \ ReceivedCalls : Received'[u] = 0
    BY <1>1, <1>2
  <2> QED
    BY <2>1, SameUnits
<1>4. Units(Sent, SentCalls) = Units(Sent', SentCalls')
  <2>1. /\ \A u \in SentCalls \cap SentCalls' : Sent[u] = Sent'[u]
        /\ \A u \in SentCalls \ SentCalls' : Sent[u] = 0
        /\ \A u \in SentCalls' \ SentCalls : Sent'[u] = 0
    BY <1>1, <1>2
  <2> QED
    BY <2>1, SameUnits
<1>5. /\ (Units(Received, ReceivedCalls))' = Units(Received', ReceivedCalls')
      /\ (Units(Sent, SentCalls))' = Units(Sent', SentCalls')
  BY DEF Units
<1> QED
  BY <1>3, <1>4, <1>5 DEF BytesInv

\* The steps that add bytes.
LEMMA BytesReceived ==
  ASSUME Types, PlaceInv, BytesInv, NEW u \in Updates, AddReceived(u)
  PROVE  BytesInv'
<1> USE DEF Types, Goto, Step
<1>1. /\ u \notin ReceivedCalls /\ ReceivedCalls' = ReceivedCalls \cup {u}
      /\ SentCalls' = SentCalls
  BY DEF AddReceived, ReceivedCalls, SentCalls, PlaceInv
<1>2. Received' = Received /\ Sent' = Sent /\ Received[u] = call[u].received
  BY DEF AddReceived, Received, Sent
<1>3. Received[u] \in Nat
  BY <1>2, CallType
<1>4. IsFiniteSet(Units(Received, ReceivedCalls))
  <2>1. \A v \in Updates : Received[v] \in Nat
    BY CallType DEF Received
  <2>2. ReceivedCalls \in SUBSET Updates
    BY DEF ReceivedCalls
  <2> QED
    BY <2>1, <2>2, UnitsAreFinite, StatisticsAssumption
<1>5. Cardinality(Units(Received, ReceivedCalls \cup {u}))
        = Cardinality(Units(Received, ReceivedCalls)) + Received[u]
  BY <1>1, <1>3, <1>4, OneMoreNumber
<1>6. stat'.received = stat.received + call[u].received /\ stat'.sent = stat.sent
  BY DEF AddReceived
<1>7. /\ Units(Received, ReceivedCalls)' = Units(Received, ReceivedCalls \cup {u})
      /\ Units(Sent, SentCalls)' = Units(Sent, SentCalls)
  BY <1>1, <1>2 DEF Units
<1> QED
  BY <1>2, <1>5, <1>6, <1>7 DEF BytesInv

LEMMA BytesSent ==
  ASSUME Types, PlaceInv, BytesInv, NEW u \in Updates, AddSent(u)
  PROVE  BytesInv'
<1> USE DEF Types, Goto, Step
<1>1. /\ u \notin SentCalls /\ SentCalls' = SentCalls \cup {u}
      /\ ReceivedCalls' = ReceivedCalls
  BY DEF AddSent, ReceivedCalls, SentCalls, PlaceInv
<1>2. Received' = Received /\ Sent' = Sent /\ Sent[u] = call[u].sent
  BY DEF AddSent, Received, Sent
<1>3. Sent[u] \in Nat
  BY <1>2, CallType
<1>4. IsFiniteSet(Units(Sent, SentCalls))
  <2>1. \A v \in Updates : Sent[v] \in Nat
    BY CallType DEF Sent
  <2>2. SentCalls \in SUBSET Updates
    BY DEF SentCalls
  <2> QED
    BY <2>1, <2>2, UnitsAreFinite, StatisticsAssumption
<1>5. Cardinality(Units(Sent, SentCalls \cup {u})) = Cardinality(Units(Sent, SentCalls)) + Sent[u]
  BY <1>1, <1>3, <1>4, OneMoreNumber
<1>6. stat'.sent = stat.sent + call[u].sent /\ stat'.received = stat.received
  BY DEF AddSent
<1>7. /\ Units(Sent, SentCalls)' = Units(Sent, SentCalls \cup {u})
      /\ Units(Received, ReceivedCalls)' = Units(Received, ReceivedCalls)
  BY <1>1, <1>2 DEF Units
<1> QED
  BY <1>2, <1>5, <1>6, <1>7 DEF BytesInv

LEMMA TemplateOrService ==
  ASSUME Types
  PROVE  kind \in {"service", "template"}
BY StatisticsAssumption DEF Types

\* A call that goes on without adding bytes.
LEMMA BytesOfMove ==
  ASSUME Types, PlaceInv, BytesInv, call' = call, stat' = stat,
         NEW u \in Updates, NEW step, Goto(u, step),
         pc[u].op \notin {"idle", "received"}, step.op \notin {"idle", "received"},
         \/ kind = "template" \/ call[u].blocked
         \/ (pc[u].op \in {"forwarded", "done"} \/ pc[u].of = "response")
              <=> (step.op \in {"forwarded", "done"} \/ step.of = "response")
  PROVE  BytesInv'
<1>1. ReceivedCalls' = ReceivedCalls
  BY DEF Types, Goto, ReceivedCalls
<1>2. ASSUME NEW v \in (SentCalls \ SentCalls') \cup (SentCalls' \ SentCalls)
      PROVE  call[v].sent = 0
  <2>1. v = u /\ (kind = "template" \/ call[u].blocked)
    BY <1>2 DEF Types, Goto, SentCalls
  <2>2. call[u] \in Calls
    BY DEF PlaceInv
  <2> QED
    BY <2>1, <2>2, SilentCalls
<1> QED
  BY <1>1, <1>2, NoBytes

\* The byte counters count the bytes that were added.
LEMMA StepBytes ==
  ASSUME Types, PlaceInv, BytesInv, [Next]_vars
  PROVE  BytesInv'
<1>k. kind' = kind /\ Calls' = Calls
  BY KindIsFixed
<1>s. \A u \in Updates : pc[u].op # "idle" =>
        /\ kind = "template" => call[u].received = 0 /\ call[u].sent = 0
        /\ call[u].blocked => call[u].sent = 0
  BY SilentCalls DEF PlaceInv
<1>1. ASSUME NEW u \in Updates, Count(u) PROVE BytesInv'
  <2>1. PICK c \in Calls :
          /\ call' = [call EXCEPT ![u] = c] /\ pc[u] = Idle
          /\ Goto(u, IF kind = "service" THEN Step("received", "processing")
                                         ELSE Step("compare", "processing"))
    BY <1>1 DEF Count
  <2>2. kind = "template" => c.received = 0
    BY SilentCalls
  <2>3. stat'.received = stat.received /\ stat'.sent = stat.sent
    BY <1>1 DEF Count, Types
  <2>4. \A v \in Updates : v # u => call'[v] = call[v] /\ pc'[v] = pc[v]
    BY <2>1 DEF Types, Goto
  <2>5. /\ u \notin ReceivedCalls \cup SentCalls \cup SentCalls'
        /\ u \in ReceivedCalls' => call'[u].received = 0
    BY <2>1, <2>2, TemplateOrService DEF Types, Goto, Step, Idle, ReceivedCalls, SentCalls
  <2>6. /\ ReceivedCalls' \subseteq ReceivedCalls \cup {u} /\ ReceivedCalls \subseteq ReceivedCalls'
        /\ SentCalls' = SentCalls
        /\ ReceivedCalls \cup SentCalls \subseteq Updates
    BY <2>4, <2>5 DEF ReceivedCalls, SentCalls
  <2> QED
    BY <2>3, <2>4, <2>5, <2>6, NoBytes
<1>2. ASSUME NEW u \in Updates, AddReceived(u) PROVE BytesInv'
  BY <1>2, BytesReceived
<1>3. ASSUME NEW u \in Updates, CountBlocked(u) PROVE BytesInv'
  BY <1>3, <1>s, NoBytes
  DEF CountBlocked, Types, PlaceInv, Goto, Step, Done, ReceivedCalls, SentCalls
<1>4. ASSUME NEW u \in Updates, AddSent(u) PROVE BytesInv'
  BY <1>4, BytesSent
<1>5. ASSUME NEW u \in Updates, CountForwarded(u) PROVE BytesInv'
  BY <1>5, <1>s, NoBytes DEF CountForwarded, Types, Goto, Step, ReceivedCalls, SentCalls
<1>6. ASSUME NEW u \in Updates, NEW m \in Measures, LoadAverage(u, m) PROVE BytesInv'
  BY <1>6, <1>s, NoBytes DEF LoadAverage, Types, Goto, Step, ReceivedCalls, SentCalls
<1>7. ASSUME NEW u \in Updates, NEW m \in Measures, AddToAverage(u, m) PROVE BytesInv'
  <2>1. /\ call' = call /\ stat' = stat
        /\ pc[u] = Step("add", m) /\ Goto(u, AfterAverage(m))
    BY <1>7 DEF AddToAverage
  <2> DEFINE step == AfterAverage(m)
  <2>2. /\ pc[u].op = "add" /\ pc[u].of = m /\ step.op \notin {"idle", "received"}
        /\ \/ kind = "template" \/ call[u].blocked
           \/ (pc[u].op \in {"forwarded", "done"} \/ pc[u].of = "response")
                <=> (step.op \in {"forwarded", "done"} \/ step.of = "response")
    BY <2>1, TemplateOrService DEF Step, AfterAverage, Done, Measures
  <2>3. Goto(u, step)
    BY <2>1
  <2> HIDE DEF step
  <2> QED
    BY <2>1, <2>2, <2>3, BytesOfMove
<1>8. ASSUME NEW u \in Updates, NEW m \in Measures, CompareHigher(u, m) PROVE BytesInv'
  BY <1>8, <1>s, NoBytes DEF CompareHigher, Types, Goto, Step, ReceivedCalls, SentCalls
<1>9. ASSUME NEW u \in Updates, NEW m \in Measures, CompareNotHigher(u, m) PROVE BytesInv'
  <2>1. /\ call' = call /\ stat' = stat
        /\ pc[u] = Step("compare", m) /\ Goto(u, AfterHighest(u, m))
    BY <1>9 DEF CompareNotHigher
  <2> DEFINE step == AfterHighest(u, m)
  <2>2. /\ pc[u].op = "compare" /\ pc[u].of = m /\ step.op \notin {"idle", "received"}
        /\ \/ kind = "template" \/ call[u].blocked
           \/ (pc[u].op \in {"forwarded", "done"} \/ pc[u].of = "response")
                <=> (step.op \in {"forwarded", "done"} \/ step.of = "response")
    BY <2>1, TemplateOrService DEF Step, AfterHighest, Measures
  <2>3. Goto(u, step)
    BY <2>1
  <2> HIDE DEF step
  <2> QED
    BY <2>1, <2>2, <2>3, BytesOfMove
<1>10. ASSUME NEW u \in Updates, NEW m \in Measures, StoreHighest(u, m) PROVE BytesInv'
  <2>1. /\ call' = call /\ stat' = stat
        /\ pc[u] = Step("store", m) /\ Goto(u, AfterHighest(u, m))
    BY <1>10 DEF StoreHighest
  <2> DEFINE step == AfterHighest(u, m)
  <2>2. /\ pc[u].op = "store" /\ pc[u].of = m /\ step.op \notin {"idle", "received"}
        /\ \/ kind = "template" \/ call[u].blocked
           \/ (pc[u].op \in {"forwarded", "done"} \/ pc[u].of = "response")
                <=> (step.op \in {"forwarded", "done"} \/ step.of = "response")
    BY <2>1, TemplateOrService DEF Step, AfterHighest, Measures
  <2>3. Goto(u, step)
    BY <2>1
  <2> HIDE DEF step
  <2> QED
    BY <2>1, <2>2, <2>3, BytesOfMove
<1>11. ASSUME UNCHANGED vars PROVE BytesInv'
  BY <1>11, <1>s, NoBytes DEF vars, ReceivedCalls, SentCalls
<1> QED
  BY <1>1, <1>2, <1>3, <1>4, <1>5, <1>6, <1>7, <1>8, <1>9, <1>10, <1>11
  DEF Next, Quiet

LEMMA AddedUp == Types /\ BytesInv => BytesAddUp
<1> SUFFICES ASSUME Types, BytesInv, AtRest PROVE BytesAddUp
  BY DEF BytesAddUp
<1>1. ReceivedCalls = Returned /\ SentCalls = Returned
  BY DEF AtRest, Running, Returned, ReceivedCalls, SentCalls, Idle, Done, Step
<1>2. /\ Returned \subseteq Updates /\ IsFiniteSet(Returned)
      /\ \A u \in Returned : Received[u] \in Nat /\ Sent[u] \in Nat
  BY FS_Subset, StatisticsAssumption, CallType DEF Returned, Received, Sent, Types
<1>3. stat.received = MapThenSumSet(LAMBDA u : call[u].received, Returned)
  <2> DEFINE Folded(h) == h = [D \in SUBSET Returned |->
                                 IF D = {} THEN 0
                                 ELSE call[CHOOSE u \in D : TRUE].received
                                        + h[D \ {CHOOSE u \in D : TRUE}]]
             iter == CHOOSE h : Folded(h)
  <2>1. MapThenSumSet(LAMBDA u : call[u].received, Returned) = iter[Returned]
    BY DEF MapThenSumSet, MapThenFoldSet
  <2>2. ASSUME NEW h PROVE Folded(h) <=> Sums(h, Received, Returned)
    <3>1. \A D \in SUBSET Returned : D # {} =>
            Received[CHOOSE u \in D : TRUE] = call[CHOOSE u \in D : TRUE].received
      BY <1>2 DEF Received
    <3> QED
      BY <3>1 DEF Sums
  <2>3. Folded(iter)
    <3> HIDE DEF Folded
    <3>1. PICK h : Sums(h, Received, Returned)
      BY <1>2, SumsExist
    <3>2. Folded(h)
      BY <2>2, <3>1
    <3> QED
      BY <3>2
  <2> HIDE DEF Folded, iter
  <2> QED
    BY <1>1, <1>2, <2>1, <2>2, <2>3, SumIsUnits DEF BytesInv
<1>4. stat.sent = MapThenSumSet(LAMBDA u : call[u].sent, Returned)
  <2> DEFINE Folded(h) == h = [D \in SUBSET Returned |->
                                 IF D = {} THEN 0
                                 ELSE call[CHOOSE u \in D : TRUE].sent
                                        + h[D \ {CHOOSE u \in D : TRUE}]]
             iter == CHOOSE h : Folded(h)
  <2>1. MapThenSumSet(LAMBDA u : call[u].sent, Returned) = iter[Returned]
    BY DEF MapThenSumSet, MapThenFoldSet
  <2>2. ASSUME NEW h PROVE Folded(h) <=> Sums(h, Sent, Returned)
    <3>1. \A D \in SUBSET Returned : D # {} =>
            Sent[CHOOSE u \in D : TRUE] = call[CHOOSE u \in D : TRUE].sent
      BY <1>2 DEF Sent
    <3> QED
      BY <3>1 DEF Sums
  <2>3. Folded(iter)
    <3> HIDE DEF Folded
    <3>1. PICK h : Sums(h, Sent, Returned)
      BY <1>2, SumsExist
    <3>2. Folded(h)
      BY <2>2, <3>1
    <3> QED
      BY <3>2
  <2> HIDE DEF Folded, iter
  <2> QED
    BY <1>1, <1>2, <2>1, <2>2, <2>3, SumIsUnits DEF BytesInv
<1> QED
  BY <1>3, <1>4 DEF BytesAddUp

\* At rest the byte counters are the sums of what the calls reported
\* (statistics.go:36, 51): however the updates interleaved, no bytes are lost.
THEOREM NoLostBytes == Spec => []BytesAddUp
<1>1. Init => IInv /\ BytesInv
  BY InitIInv, InitBytes
<1>2. (IInv /\ BytesInv) /\ [Next]_vars => (IInv /\ BytesInv)'
  BY StepIInv, StepBytes DEF IInv
<1>3. IInv /\ BytesInv => BytesAddUp
  BY AddedUp DEF IInv
<1> QED
  BY <1>1, <1>2, <1>3, PTL DEF Spec

-----------------------------------------------------------------------------
(* Updates that do not overlap.                                            *)

\* The calls whose time of measure m the maximum has seen, ...
Compared(u, m) ==
  IF m = "processing"
  THEN \/ pc[u].op \in {"blocked", "sent", "forwarded", "done"}
       \/ pc[u].of = "response"
       \/ kind = "template" /\ pc[u].op \in {"load", "add"}
  ELSE /\ ~call[u].blocked
       /\ \/ pc[u].op = "done"
          \/ pc[u].op \in {"load", "add"} /\ (kind = "template" \/ pc[u].of = "response")

\* ... and those whose time the average has seen.
Averaged(u, m) ==
  IF m = "processing"
  THEN \/ pc[u].op = "done"
       \/ pc[u].of = "response" /\ (pc[u].op \in {"load", "add"} \/ kind = "service")
       \/ kind = "service" /\ pc[u].op \in {"compare", "store", "blocked", "sent", "forwarded"}
  ELSE pc[u].op = "done" /\ ~call[u].blocked

OneRuns == \A u, v \in Updates : Running(u) /\ Running(v) => u = v

\* What a call has read is still so.
ReadsAreFresh ==
  \A u \in Updates :
    /\ Running(u) => nth[u] = stat.count
    /\ \A m \in Measures :
         /\ pc[u] = Step("store", m) => highest[m] < call[u][m]
         /\ pc[u] = Step("add", m) => loaded[u] = average[m]

MaximaAreRight ==
  \A u \in Updates, m \in Measures : Compared(u, m) => call[u][m] <= highest[m]

\* The average of m is between times of measure m.
Between(m) ==
  /\ average[m] >= 0
  /\ (\A u \in Updates : ~Averaged(u, m)) => average[m] = 0
  /\ (\E u \in Updates : Averaged(u, m)) =>
       /\ \E v \in Updates : Averaged(v, m) /\ average[m] <= call[v][m]
       /\ (m = "processing" \/ kind = "template") =>
            \E v \in Updates : Averaged(v, m) /\ call[v][m] <= average[m]

ExactInv ==
  ~overlapped => OneRuns /\ ReadsAreFresh /\ MaximaAreRight /\ \A m \in Measures : Between(m)

\* Moving an average by a part of the difference leaves it between the two.
LEMMA MovesTowards ==
  ASSUME NEW a \in Nat, NEW t \in Nat, NEW n \in Nat, n # 0
  PROVE  /\ a + Quotient(t - a, n) \in Int
         /\ a <= t => a <= a + Quotient(t - a, n) /\ a + Quotient(t - a, n) <= t
         /\ t <= a => t <= a + Quotient(t - a, n) /\ a + Quotient(t - a, n) <= a
         /\ n = 1 => a + Quotient(t - a, n) = t
<1>1. CASE t >= a
  <2>1. t - a \in Nat /\ (t - a) \div n \in Nat /\ (t - a) \div n <= t - a
        /\ (n = 1 => (t - a) \div n = t - a)
    BY <1>1
  <2>2. Quotient(t - a, n) = (t - a) \div n
    BY <1>1 DEF Quotient
  <2> QED
    BY <1>1, <2>1, <2>2
<1>2. CASE t < a
  <2>1. a - t \in Nat /\ (a - t) \div n \in Nat /\ (a - t) \div n <= a - t
        /\ (n = 1 => (a - t) \div n = a - t)
    BY <1>2
  <2>2. Quotient(t - a, n) = -((a - t) \div n)
    <3>1. ~(t - a >= 0) /\ -(t - a) = a - t
      BY <1>2
    <3> QED
      BY <3>1 DEF Quotient
  <2> QED
    BY <1>2, <2>1, <2>2
<1> QED
  BY <1>1, <1>2

LEMMA InitExact == Init => ExactInv
BY DEF Init, ExactInv, OneRuns, ReadsAreFresh, MaximaAreRight, Between, Running, Compared,
   Averaged, Idle, Step, Measures, NoCall

\* A step of a call that is under way, of nothing else.
LEMMA OneStillRuns ==
  ASSUME Types, OneRuns, NEW u \in Updates, Running(u), NEW step, Goto(u, step)
  PROVE  OneRuns' /\ \A v \in Updates : v # u => ~Running(v) /\ pc'[v] = pc[v]
BY DEF Types, OneRuns, Running, Goto

\* The averages stay between the times they have seen when none is moved and
\* the same have been seen.
LEMMA BetweenStays ==
  ASSUME NEW m \in Measures, Between(m), average'[m] = average[m], kind' = kind,
         \A u \in Updates : Averaged(u, m)' <=> Averaged(u, m),
         \A u \in Updates : Averaged(u, m) => call'[u][m] = call[u][m]
  PROVE  Between(m)'
BY DEF Between

\* A step of the one call that is under way, when no average is moved.
LEMMA ExactStays ==
  ASSUME Types, ExactInv, ~overlapped, NEW u \in Updates, Running(u), NEW step, Goto(u, step),
         kind' = kind, call' = call, average' = average, nth' = nth, stat'.count = stat.count,
         \A m \in Measures :
           /\ step = Step("store", m) => highest'[m] < call[u][m]
           /\ step = Step("add", m) => loaded'[u] = average[m]
           /\ highest[m] <= highest'[m] /\ highest'[m] \in Nat
           /\ Compared(u, m)' => call[u][m] <= highest'[m]
           /\ Averaged(u, m)' <=> Averaged(u, m)
  PROVE  ExactInv'
<1>1. OneRuns' /\ \A v \in Updates : v # u => ~Running(v) /\ pc'[v] = pc[v]
  BY OneStillRuns DEF ExactInv
<1>2. pc'[u] = step
  BY DEF Types, Goto
<1>3. ReadsAreFresh'
  <2>1. \A v \in Updates : Running(v)' => v = u
    BY <1>1 DEF Running
  <2>2. \A v \in Updates, m \in Measures :
          pc'[v] \in {Step("store", m), Step("add", m)} => v = u
    BY <2>1 DEF Running, Step, Idle, Done
  <2> QED
    BY <1>2, <2>1, <2>2 DEF ExactInv, ReadsAreFresh
<1>4. ASSUME NEW v \in Updates, v # u, NEW m \in Measures
      PROVE  /\ Compared(v, m)' <=> Compared(v, m)
             /\ Averaged(v, m)' <=> Averaged(v, m)
  BY <1>1, <1>4 DEF Compared, Averaged
<1>5. MaximaAreRight'
  <2>1. \A v \in Updates, m \in Measures : call[v][m] \in Nat /\ highest[m] \in Nat
    BY CallType DEF Types
  <2>2. ASSUME NEW v \in Updates, v # u, NEW m \in Measures, Compared(v, m)'
        PROVE  call[v][m] <= highest'[m]
    <3>1. call[v][m] <= highest[m]
      BY <1>4, <2>2 DEF ExactInv, MaximaAreRight
    <3> QED
      BY <2>1, <3>1
  <2> QED
    BY <2>2 DEF MaximaAreRight
<1>6. ASSUME NEW m \in Measures PROVE Between(m)'
  BY <1>4, BetweenStays DEF ExactInv
<1> QED
  BY <1>1, <1>3, <1>5, <1>6 DEF ExactInv

\* A call begins when none is under way.
LEMMA ExactCount ==
  ASSUME Types, ExactInv, NEW u \in Updates, Count(u), ~overlapped'
  PROVE  ExactInv'
<1>1. PICK c \in Calls :
        /\ pc[u] = Idle
        /\ call' = [call EXCEPT ![u] = c]
        /\ Goto(u, IF kind = "service" THEN Step("received", "processing")
                                       ELSE Step("compare", "processing"))
  BY DEF Count
<1>2. /\ ~overlapped /\ \A v \in Updates : ~Running(v)
      /\ kind' = kind /\ average' = average /\ highest' = highest /\ loaded' = loaded
      /\ nth'[u] = stat'.count
  BY DEF Count, Types
<1>3. /\ \A v \in Updates : v # u => pc'[v] = pc[v] /\ call'[v] = call[v]
      /\ pc'[u] = IF kind = "service" THEN Step("received", "processing")
                                      ELSE Step("compare", "processing")
  BY <1>1 DEF Types, Goto
<1>4. \A v \in Updates : Running(v)' => v = u
  BY <1>2, <1>3 DEF Running
<1>5. ReadsAreFresh'
  <2>1. \A v \in Updates, m \in Measures : pc'[v] \notin {Step("store", m), Step("add", m)}
    BY <1>3, <1>4 DEF Running, Step, Idle, Done
  <2> QED
    BY <1>2, <1>4, <2>1 DEF ReadsAreFresh
<1>6. ASSUME NEW v \in Updates, NEW m \in Measures
      PROVE  /\ Compared(v, m)' <=> Compared(v, m)
             /\ Averaged(v, m)' <=> Averaged(v, m)
             /\ v = u => ~Compared(v, m) /\ ~Averaged(v, m)
  <2>1. CASE v = u
    BY <1>1, <1>2, <1>3, <2>1, TemplateOrService DEF Compared, Averaged, Idle, Step
  <2>2. CASE v # u
    BY <1>2, <1>3, <2>2 DEF Compared, Averaged
  <2> QED
    BY <2>1, <2>2
<1>7. MaximaAreRight'
  BY <1>2, <1>3, <1>6 DEF ExactInv, MaximaAreRight
<1>8. ASSUME NEW m \in Measures PROVE Between(m)'
  BY <1>2, <1>3, <1>6, BetweenStays DEF ExactInv
<1> QED
  BY <1>4, <1>5, <1>7, <1>8 DEF ExactInv, OneRuns

\* The first call: the average becomes its time, for it is divided by 1.
LEMMA FirstOfAll ==
  ASSUME IInv, ExactInv, ~overlapped, NEW u \in Updates, NEW m \in Measures,
         pc[u] = Step("add", m), m = "processing" \/ kind = "template",
         \A v \in Updates : ~Averaged(v, m)
  PROVE  nth[u] = 1
<1>1. Running(u) /\ nth[u] = stat.count
  BY DEF ExactInv, ReadsAreFresh, Running, Step, Idle, Done
<1>2. ASSUME NEW v \in Updates, v # u PROVE pc[v] = Idle
  <2>1. pc[v] = Idle \/ pc[v] = Done
    BY <1>1, <1>2 DEF ExactInv, OneRuns, Running
  <2>2. pc[v] = Done => ~(kind = "template" /\ call[v].blocked)
    BY TemplateCalls DEF IInv, PlaceInv, Done, Step
  <2> QED
    BY <2>1, <2>2 DEF Averaged, Done, Step, Measures
<1>3. Begun = {u}
  BY <1>1, <1>2 DEF Begun, Running
<1> QED
  BY <1>1, <1>3, FS_Singleton DEF IInv, CountInv

\* The average is moved towards the time of the call.
LEMMA ExactAverage ==
  ASSUME IInv, ExactInv, ~overlapped, NEW u \in Updates, NEW m \in Measures, AddToAverage(u, m)
  PROVE  ExactInv'
<1>k. kind' = kind
  BY DEF AddToAverage
<1>0. /\ Types /\ pc[u] = Step("add", m) /\ Goto(u, AfterAverage(m)) /\ Running(u)
      /\ kind \in {"service", "template"}
  BY TemplateOrService DEF IInv, AddToAverage, Running, Step, Idle, Done
<1>1. OneRuns' /\ \A v \in Updates : v # u => ~Running(v) /\ pc'[v] = pc[v]
  BY <1>0, OneStillRuns DEF ExactInv
<1>2. /\ pc'[u] = AfterAverage(m) /\ call' = call /\ highest' = highest /\ nth' = nth
      /\ stat' = stat /\ loaded' = loaded
      /\ \A o \in Measures : o # m => average'[o] = average[o]
  BY <1>0 DEF AddToAverage, Types, Goto
<1>3. average'[m] = average[m] + Quotient(call[u][m] - average[m], nth[u])
  BY <1>0 DEF AddToAverage, ExactInv, ReadsAreFresh, Types
<1>4. ReadsAreFresh'
  <2>1. \A v \in Updates : Running(v)' => v = u
    BY <1>1 DEF Running
  <2>2. \A v \in Updates, o \in Measures : pc'[v] \notin {Step("store", o), Step("add", o)}
    BY <1>2, <2>1 DEF AfterAverage, Running, Step, Idle, Done
  <2> QED
    BY <1>0, <1>2, <2>1, <2>2 DEF ExactInv, ReadsAreFresh
<1>5. ASSUME NEW v \in Updates, v # u, NEW o \in Measures
      PROVE  /\ Compared(v, o)' <=> Compared(v, o)
             /\ Averaged(v, o)' <=> Averaged(v, o)
  BY <1>k, <1>1, <1>2, <1>5 DEF Compared, Averaged
<1>6. \A o \in Measures : Compared(u, o)' => Compared(u, o)
  BY <1>k, <1>0, <1>2 DEF Compared, AfterAverage, Step, Done, Measures
<1>7. MaximaAreRight'
  BY <1>2, <1>5, <1>6 DEF ExactInv, MaximaAreRight
<1>8. /\ Averaged(u, m)' /\ ~Averaged(u, m)
      /\ \A o \in Measures : o # m => (Averaged(u, o)' <=> Averaged(u, o))
  <2>1. ~call[u].blocked \/ m = "processing"
    BY <1>0 DEF IInv, PlaceInv, Step, Measures
  <2> QED
    BY <1>k, <1>0, <1>2, <2>1 DEF Averaged, AfterAverage, Step, Done, Measures
<1>9. ASSUME NEW o \in Measures, o # m PROVE Between(o)'
  BY <1>k, <1>2, <1>5, <1>8, <1>9, BetweenStays DEF ExactInv
<1>10. Between(m)'
  <2> DEFINE a == average[m]
             t == call[u][m]
             b == average'[m]
  <2>1. a \in Nat /\ t \in Nat /\ nth[u] \in Nat /\ nth[u] # 0 /\ Between(m)
    BY <1>0, CallType DEF Types, ExactInv, Between, IInv, PlaceInv, Step
  <2>2. /\ b \in Int
        /\ a <= t => a <= b /\ b <= t
        /\ t <= a => t <= b /\ b <= a
        /\ nth[u] = 1 => b = t
    <3> DEFINE c == a + Quotient(t - a, nth[u])
    <3>1. /\ c \in Int
          /\ a <= t => a <= c /\ c <= t
          /\ t <= a => t <= c /\ c <= a
          /\ nth[u] = 1 => c = t
      <4>1. a \in Nat /\ t \in Nat /\ nth[u] \in Nat /\ nth[u] # 0
        BY <2>1
      <4> HIDE DEF a, t
      <4> QED
        BY <4>1, MovesTowards
    <3>2. b = c
      BY <1>3
    <3> HIDE DEF a, b, c, t
    <3> QED
      BY <3>1, <3>2
  <2>3. b >= 0
    BY <2>1, <2>2
  <2>4. \A v \in Updates : Averaged(v, m) => Averaged(v, m)'
    BY <1>5, <1>8
  <2>5. \A v \in Updates : call[v][m] \in Nat
    BY <1>0, CallType DEF Types
  <2>6. \E v \in Updates : Averaged(v, m)' /\ b <= call[v][m]
    <3>1. CASE a <= t
      BY <1>8, <2>2, <3>1
    <3>2. CASE ~(a <= t)
      <4>1. t <= a /\ a # 0
        BY <2>1, <3>2
      <4>2. PICK v \in Updates : Averaged(v, m) /\ a <= call[v][m]
        BY <2>1, <4>1 DEF Between
      <4>3. b <= call[v][m]
        BY <2>1, <2>2, <2>5, <4>1, <4>2
      <4> QED
        BY <2>4, <4>2, <4>3
    <3> QED
      BY <3>1, <3>2
  <2>7. ASSUME m = "processing" \/ kind = "template"
        PROVE  \E v \in Updates : Averaged(v, m)' /\ call[v][m] <= b
    <3>1. CASE t <= a
      BY <1>8, <2>2, <3>1
    <3>2. CASE ~(t <= a) /\ \E v \in Updates : Averaged(v, m)
      <4>1. PICK v \in Updates : Averaged(v, m) /\ call[v][m] <= a
        BY <2>1, <2>7, <3>2 DEF Between
      <4>2. call[v][m] <= b
        BY <2>1, <2>2, <2>5, <3>2, <4>1
      <4> QED
        BY <2>4, <4>1, <4>2
    <3>3. CASE \A v \in Updates : ~Averaged(v, m)
      <4>1. b = t
        BY <1>0, <2>2, <2>7, <3>3, FirstOfAll
      <4>2. call[u][m] <= b
        BY <2>1, <4>1
      <4> QED
        BY <1>8, <4>2
    <3> QED
      BY <3>1, <3>2, <3>3
  <2> QED
    BY <1>k, <1>2, <1>8, <2>3, <2>6, <2>7 DEF Between
<1>11. \A o \in Measures : Between(o)'
  BY <1>9, <1>10
<1> QED
  BY <1>1, <1>4, <1>7, <1>11 DEF ExactInv

\* As long as no two updates overlap, each reads what it last knew.
LEMMA StepExact ==
  ASSUME IInv, ExactInv, [Next]_vars
  PROVE  ExactInv'
<1> SUFFICES ASSUME ~overlapped' PROVE ExactInv'
  BY DEF ExactInv
<1>k. kind' = kind
  BY KindIsFixed
<1>t. Types /\ PlaceInv /\ kind \in {"service", "template"}
  BY TemplateOrService DEF IInv
<1>n. \A u \in Updates, m \in Measures :
        call[u][m] \in Nat /\ highest[m] \in Nat /\ highest[m] <= highest[m]
  BY <1>t, CallType DEF Types
<1>o. ~overlapped => MaximaAreRight
  BY DEF ExactInv
<1>1. ASSUME NEW u \in Updates, Count(u) PROVE ExactInv'
  BY <1>1, <1>t, ExactCount
<1>2. ASSUME NEW u \in Updates, AddReceived(u) PROVE ExactInv'
  <2> DEFINE step == Step("load", "processing")
  <2>1. /\ Running(u) /\ pc[u] = Step("received", "processing") /\ Goto(u, step) /\ pc'[u] = step
        /\ ~overlapped /\ stat'.count = stat.count /\ call' = call /\ average' = average
        /\ nth' = nth
    BY <1>2, <1>t DEF AddReceived, Types, Goto, Running, Step, Idle, Done
  <2>2. /\ highest' = highest /\ loaded' = loaded
        /\ \A o \in Measures : step \notin {Step("store", o), Step("add", o)}
    BY <1>2 DEF AddReceived, Step, Done
  <2>3. ASSUME NEW o \in Measures
        PROVE  /\ Compared(u, o)' => Compared(u, o)
               /\ Averaged(u, o)' <=> Averaged(u, o)
    BY <1>k, <1>t, <2>1 DEF Compared, Averaged, PlaceInv, Step, Done, Measures
  <2> HIDE DEF step
  <2>4. ASSUME NEW o \in Measures
        PROVE  /\ highest[o] <= highest'[o] /\ highest'[o] \in Nat
               /\ Compared(u, o)' => call[u][o] <= highest'[o]
    BY <1>n, <1>o, <2>1, <2>2, <2>3 DEF MaximaAreRight
  <2> QED
    BY <1>k, <1>t, <2>1, <2>2, <2>3, <2>4, ExactStays
<1>3. ASSUME NEW u \in Updates, CountBlocked(u) PROVE ExactInv'
  <2> DEFINE step == Done
  <2>1. /\ Running(u) /\ pc[u] = Step("blocked", "processing") /\ Goto(u, step) /\ pc'[u] = step
        /\ ~overlapped /\ stat'.count = stat.count /\ call' = call /\ average' = average
        /\ nth' = nth
    BY <1>3, <1>t DEF CountBlocked, Types, Goto, Running, Step, Idle, Done
  <2>2. /\ highest' = highest /\ loaded' = loaded
        /\ \A o \in Measures : step \notin {Step("store", o), Step("add", o)}
    BY <1>3 DEF CountBlocked, Step, Done
  <2>3. ASSUME NEW o \in Measures
        PROVE  /\ Compared(u, o)' => Compared(u, o)
               /\ Averaged(u, o)' <=> Averaged(u, o)
    BY <1>k, <1>t, <2>1 DEF Compared, Averaged, PlaceInv, Step, Done, Measures
  <2> HIDE DEF step
  <2>4. ASSUME NEW o \in Measures
        PROVE  /\ highest[o] <= highest'[o] /\ highest'[o] \in Nat
               /\ Compared(u, o)' => call[u][o] <= highest'[o]
    BY <1>n, <1>o, <2>1, <2>2, <2>3 DEF MaximaAreRight
  <2> QED
    BY <1>k, <1>t, <2>1, <2>2, <2>3, <2>4, ExactStays
<1>4. ASSUME NEW u \in Updates, AddSent(u) PROVE ExactInv'
  <2> DEFINE step == Step("forwarded", "processing")
  <2>1. /\ Running(u) /\ pc[u] = Step("sent", "processing") /\ Goto(u, step) /\ pc'[u] = step
        /\ ~overlapped /\ stat'.count = stat.count /\ call' = call /\ average' = average
        /\ nth' = nth
    BY <1>4, <1>t DEF AddSent, Types, Goto, Running, Step, Idle, Done
  <2>2. /\ highest' = highest /\ loaded' = loaded
        /\ \A o \in Measures : step \notin {Step("store", o), Step("add", o)}
    BY <1>4 DEF AddSent, Step, Done
  <2>3. ASSUME NEW o \in Measures
        PROVE  /\ Compared(u, o)' => Compared(u, o)
               /\ Averaged(u, o)' <=> Averaged(u, o)
    BY <1>k, <1>t, <2>1 DEF Compared, Averaged, PlaceInv, Step, Done, Measures
  <2> HIDE DEF step
  <2>4. ASSUME NEW o \in Measures
        PROVE  /\ highest[o] <= highest'[o] /\ highest'[o] \in Nat
               /\ Compared(u, o)' => call[u][o] <= highest'[o]
    BY <1>n, <1>o, <2>1, <2>2, <2>3 DEF MaximaAreRight
  <2> QED
    BY <1>k, <1>t, <2>1, <2>2, <2>3, <2>4, ExactStays
<1>5. ASSUME NEW u \in Updates, CountForwarded(u) PROVE ExactInv'
  <2> DEFINE step == Step("compare", "response")
  <2>1. /\ Running(u) /\ pc[u] = Step("forwarded", "processing") /\ Goto(u, step) /\ pc'[u] = step
        /\ ~overlapped /\ stat'.count = stat.count /\ call' = call /\ average' = average
        /\ nth' = nth
    BY <1>5, <1>t DEF CountForwarded, Types, Goto, Running, Step, Idle, Done
  <2>2. /\ highest' = highest /\ loaded' = loaded
        /\ \A o \in Measures : step \notin {Step("store", o), Step("add", o)}
    BY <1>5 DEF CountForwarded, Step, Done
  <2>3. ASSUME NEW o \in Measures
        PROVE  /\ Compared(u, o)' => Compared(u, o)
               /\ Averaged(u, o)' <=> Averaged(u, o)
    BY <1>k, <1>t, <2>1 DEF Compared, Averaged, PlaceInv, Step, Done, Measures
  <2> HIDE DEF step
  <2>4. ASSUME NEW o \in Measures
        PROVE  /\ highest[o] <= highest'[o] /\ highest'[o] \in Nat
               /\ Compared(u, o)' => call[u][o] <= highest'[o]
    BY <1>n, <1>o, <2>1, <2>2, <2>3 DEF MaximaAreRight
  <2> QED
    BY <1>k, <1>t, <2>1, <2>2, <2>3, <2>4, ExactStays
<1>6. ASSUME NEW u \in Updates, NEW m \in Measures, LoadAverage(u, m) PROVE ExactInv'
  <2> DEFINE step == Step("add", m)
  <2>1. /\ Running(u) /\ pc[u] = Step("load", m) /\ Goto(u, step) /\ pc'[u] = step
        /\ ~overlapped /\ stat'.count = stat.count /\ call' = call /\ average' = average
        /\ nth' = nth
    BY <1>6, <1>t DEF LoadAverage, Types, Goto, Running, Step, Idle, Done
  <2>2. /\ highest' = highest /\ loaded'[u] = average[m]
        /\ \A o \in Measures : /\ step # Step("store", o)
                               /\ step = Step("add", o) => o = m
    BY <1>6, <1>t DEF LoadAverage, Types, Step
  <2>3. ASSUME NEW o \in Measures
        PROVE  /\ Compared(u, o)' => Compared(u, o)
               /\ Averaged(u, o)' <=> Averaged(u, o)
    BY <1>k, <1>t, <2>1 DEF Compared, Averaged, Step, Measures
  <2> HIDE DEF step
  <2>4. ASSUME NEW o \in Measures
        PROVE  /\ highest[o] <= highest'[o] /\ highest'[o] \in Nat
               /\ Compared(u, o)' => call[u][o] <= highest'[o]
    BY <1>n, <1>o, <2>1, <2>2, <2>3 DEF MaximaAreRight
  <2> QED
    BY <1>k, <1>t, <2>1, <2>2, <2>3, <2>4, ExactStays
<1>7. ASSUME NEW u \in Updates, NEW m \in Measures, AddToAverage(u, m) PROVE ExactInv'
  BY <1>7, ExactAverage DEF AddToAverage
<1>8. ASSUME NEW u \in Updates, NEW m \in Measures, CompareHigher(u, m) PROVE ExactInv'
  <2> DEFINE step == Step("store", m)
  <2>1. /\ Running(u) /\ pc[u] = Step("compare", m) /\ Goto(u, step) /\ pc'[u] = step
        /\ ~overlapped /\ stat'.count = stat.count /\ call' = call /\ average' = average
        /\ nth' = nth
    BY <1>8, <1>t DEF CompareHigher, Types, Goto, Running, Step, Idle, Done
  <2>2. /\ highest' = highest /\ loaded' = loaded /\ highest[m] < call[u][m]
        /\ \A o \in Measures : /\ step # Step("add", o)
                               /\ step = Step("store", o) => o = m
    BY <1>8, <1>n DEF CompareHigher, Step
  <2>3. ASSUME NEW o \in Measures
        PROVE  /\ Compared(u, o)' => Compared(u, o)
               /\ Averaged(u, o)' <=> Averaged(u, o)
    BY <1>k, <1>t, <2>1 DEF Compared, Averaged, Step, Measures
  <2> HIDE DEF step
  <2>4. ASSUME NEW o \in Measures
        PROVE  /\ highest[o] <= highest'[o] /\ highest'[o] \in Nat
               /\ Compared(u, o)' => call[u][o] <= highest'[o]
    BY <1>n, <1>o, <2>1, <2>2, <2>3 DEF MaximaAreRight
  <2> QED
    BY <1>k, <1>t, <2>1, <2>2, <2>3, <2>4, ExactStays
<1>9. ASSUME NEW u \in Updates, NEW m \in Measures, CompareNotHigher(u, m) PROVE ExactInv'
  <2> DEFINE step == AfterHighest(u, m)
  <2>1. /\ Running(u) /\ pc[u] = Step("compare", m) /\ Goto(u, step) /\ pc'[u] = step
        /\ ~overlapped /\ stat'.count = stat.count /\ call' = call /\ average' = average
        /\ nth' = nth
    BY <1>9, <1>t DEF CompareNotHigher, Types, Goto, Running, Step, Idle, Done
  <2>2. /\ loaded' = loaded /\ highest' = highest /\ call[u][m] <= highest[m]
        /\ \A o \in Measures : step \notin {Step("store", o), Step("add", o)}
    BY <1>9, <2>1 DEF CompareNotHigher, ExactInv, ReadsAreFresh, AfterHighest, Step
  <2>3. ASSUME NEW o \in Measures
        PROVE  /\ Compared(u, o)' => o = m \/ Compared(u, o)
               /\ Averaged(u, o)' <=> Averaged(u, o)
    BY <1>k, <1>t, <2>1 DEF Compared, Averaged, AfterHighest, Step, Measures
  <2> HIDE DEF step
  <2>4. ASSUME NEW o \in Measures
        PROVE  /\ highest[o] <= highest'[o] /\ highest'[o] \in Nat
               /\ Compared(u, o)' => call[u][o] <= highest'[o]
    <3>1. /\ call[u][o] \in Nat /\ highest[o] \in Nat
          /\ Compared(u, o) => call[u][o] <= highest[o]
      BY <1>n, <1>o, <2>1 DEF MaximaAreRight
    <3>2. highest[o] <= highest'[o] /\ highest'[o] \in Nat
          /\ (o = m => call[u][o] <= highest'[o])
      BY <1>n, <1>t, <2>2 DEF Types
    <3> QED
      BY <2>3, <3>1, <3>2
  <2> QED
    BY <1>k, <1>t, <2>1, <2>2, <2>3, <2>4, ExactStays
<1>10. ASSUME NEW u \in Updates, NEW m \in Measures, StoreHighest(u, m) PROVE ExactInv'
  <2> DEFINE step == AfterHighest(u, m)
  <2>1. /\ Running(u) /\ pc[u] = Step("store", m) /\ Goto(u, step) /\ pc'[u] = step
        /\ ~overlapped /\ stat'.count = stat.count /\ call' = call /\ average' = average
        /\ nth' = nth
    BY <1>10, <1>t DEF StoreHighest, Types, Goto, Running, Step, Idle, Done
  <2>2. /\ loaded' = loaded
        /\ highest' = [highest EXCEPT ![m] = call[u][m]] /\ highest[m] < call[u][m]
        /\ \A o \in Measures : step \notin {Step("store", o), Step("add", o)}
    BY <1>10, <2>1 DEF StoreHighest, ExactInv, ReadsAreFresh, AfterHighest, Step
  <2>3. ASSUME NEW o \in Measures
        PROVE  /\ Compared(u, o)' => o = m \/ Compared(u, o)
               /\ Averaged(u, o)' <=> Averaged(u, o)
    BY <1>k, <1>t, <2>1 DEF Compared, Averaged, AfterHighest, Step, Measures
  <2> HIDE DEF step
  <2>4. ASSUME NEW o \in Measures
        PROVE  /\ highest[o] <= highest'[o] /\ highest'[o] \in Nat
               /\ Compared(u, o)' => call[u][o] <= highest'[o]
    <3>1. /\ call[u][o] \in Nat /\ highest[o] \in Nat
          /\ Compared(u, o) => call[u][o] <= highest[o]
      BY <1>n, <1>o, <2>1 DEF MaximaAreRight
    <3>2. highest[o] <= highest'[o] /\ highest'[o] \in Nat
          /\ (o = m => call[u][o] <= highest'[o])
      BY <1>n, <1>t, <2>2 DEF Types
    <3> QED
      BY <2>3, <3>1, <3>2
  <2> QED
    BY <1>k, <1>t, <2>1, <2>2, <2>3, <2>4, ExactStays
<1>11. ASSUME UNCHANGED vars PROVE ExactInv'
  BY <1>11 DEF vars, ExactInv, OneRuns, ReadsAreFresh, MaximaAreRight, Between, Running,
     Compared, Averaged
<1> QED
  BY <1>1, <1>2, <1>3, <1>4, <1>5, <1>6, <1>7, <1>8, <1>9, <1>10, <1>11
  DEF Next, Quiet

LEMMA ExactAtRest == Types /\ PlaceInv /\ ExactInv => ExactWithoutOverlap
<1> SUFFICES ASSUME Types, PlaceInv, ExactInv, AtRest, ~overlapped, NEW m \in Measures,
                    {call[u][m] : u \in Reporting(m)} # {}
             PROVE  LET times == {call[u][m] : u \in Reporting(m)} IN
                    /\ \A t \in times : t <= highest[m]
                    /\ average[m] <= highest[m]
                    /\ average[m] >= 0
                    /\ (m = "processing" \/ kind = "template") => \E t \in times : t <= average[m]
  BY DEF ExactWithoutOverlap
<1>1. \A u \in Updates : pc[u] = Idle \/ pc[u] = Done
  BY DEF AtRest, Running
<1>2. \A u \in Updates : /\ u \in Reporting(m) <=> Averaged(u, m)
                         /\ Averaged(u, m) => Compared(u, m)
  BY <1>1 DEF Reporting, Begun, Averaged, Compared, Idle, Done, Step, Measures
<1>3. Reporting(m) \subseteq Updates /\ Between(m) /\ MaximaAreRight
  BY DEF Reporting, Begun, ExactInv
<1>4. \A u \in Reporting(m) : call[u][m] <= highest[m]
  BY <1>2, <1>3 DEF MaximaAreRight
<1>5. PICK v \in Updates : Averaged(v, m) /\ average[m] <= call[v][m]
  BY <1>2, <1>3 DEF Between
<1>6. average[m] <= highest[m]
  <2>1. call[v][m] <= highest[m]
    BY <1>2, <1>4, <1>5
  <2>2. average[m] \in Int /\ call[v][m] \in Nat /\ highest[m] \in Nat
    BY CallType DEF Types
  <2> QED
    BY <1>5, <2>1, <2>2
<1>7. (m = "processing" \/ kind = "template") => \E u \in Reporting(m) : call[u][m] <= average[m]
  BY <1>2, <1>3 DEF Between
<1> QED
  BY <1>3, <1>4, <1>6, <1>7 DEF Between

\* Without overlap the maximum is the greatest time reported, and the average
\* is between times that were (statistics.go:37-45, 53-66): the truncated
\* division never takes it past the time it is moved towards.
THEOREM Exact == Spec => []ExactWithoutOverlap
<1>1. Init => IInv /\ ExactInv
  BY InitIInv, InitExact
<1>2. (IInv /\ ExactInv) /\ [Next]_vars => (IInv /\ ExactInv)'
  BY StepIInv, StepExact
<1>3. IInv /\ ExactInv => ExactWithoutOverlap
  BY ExactAtRest DEF IInv
<1> QED
  BY <1>1, <1>2, <1>3, PTL DEF Spec
=============================================================================
