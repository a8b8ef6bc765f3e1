---------------------------- MODULE EngineProofs ----------------------------
(***************************************************************************)
(* Proofs about the containers, for any keys, threshold and sequence of    *)
(* calls, and about the pools of the maker of query parts, for any         *)
(* operations; both without the bounds of the model.                       *)
(***************************************************************************)
EXTENDS ContainerProofs, PQuery

-----------------------------------------------------------------------------
(* set.Set                                                                 *)

\* ordered and index are inverse to each other.
IndexInverts ==
  /\ ordered \in Seq(Words)
  /\ index \in [DOMAIN index -> 0..Len(ordered)-1]
  /\ \A t \in DOMAIN index : ordered[index[t] + 1] = t
  /\ \A i \in 1..Len(ordered) : ordered[i] \in DOMAIN index /\ index[ordered[i]] = i - 1

\* The first e elements are enabled.
Border ==
  /\ e \in 0..Len(ordered)
  /\ enabled = {ordered[i] : i \in 1..e}

EnabledInv == IndexInverts /\ Border

LEMMA EnabledStarts == Enabling!Init => EnabledInv
<1> SUFFICES ASSUME Enabling!Init PROVE EnabledInv
  OBVIOUS
<1>1. PICK S \in SUBSET Words : ordered \in Enabling!SetToSeqs(S)
  BY DEF Enabling!Init, Enabling!SetToAllKPermutations
<1>2. Cardinality(S) \in Nat
  BY WordsAssumption, FS_Subset, FS_CardinalityType
<1>3. /\ ordered \in [1..Cardinality(S) -> S]
      /\ \A i, j \in 1..Cardinality(S) : i # j => ordered[i] # ordered[j]
  BY <1>1, OneCardinality DEF Enabling!SetToSeqs
<1>4. ordered \in Seq(Words) /\ Len(ordered) = Cardinality(S)
  BY <1>2, <1>3
<1>5. index = [t \in ToSet(ordered) |-> CHOOSE i \in 0..Len(ordered)-1 : ordered[i+1] = t]
  BY OneSlice DEF Enabling!Init
<1>6. ToSet(ordered) = {ordered[i] : i \in 1..Len(ordered)}
  BY <1>2, <1>3, <1>4 DEF ToSet
<1>7. \A t \in DOMAIN index : index[t] \in 0..Len(ordered)-1 /\ ordered[index[t] + 1] = t
  <2> SUFFICES ASSUME NEW t \in ToSet(ordered)
               PROVE  index[t] \in 0..Len(ordered)-1 /\ ordered[index[t] + 1] = t
    BY <1>5
  <2>1. PICK i \in 1..Len(ordered) : ordered[i] = t
    BY <1>6
  <2>2. i - 1 \in 0..Len(ordered)-1 /\ ordered[(i - 1) + 1] = t
    BY <2>1, <1>2, <1>4
  <2> QED
    BY <2>2, <1>5
<1>8. \A i \in 1..Len(ordered) : ordered[i] \in DOMAIN index /\ index[ordered[i]] = i - 1
  <2> SUFFICES ASSUME NEW i \in 1..Len(ordered)
               PROVE  ordered[i] \in DOMAIN index /\ index[ordered[i]] = i - 1
    OBVIOUS
  <2>1. ordered[i] \in DOMAIN index
    BY <1>5, <1>6
  <2>2. /\ index[ordered[i]] \in 0..Len(ordered)-1
        /\ ordered[index[ordered[i]] + 1] = ordered[i]
    BY <2>1, <1>7
  <2> QED
    BY <2>1, <2>2, <1>2, <1>3, <1>4
<1>9. Border
  BY <1>2, <1>4 DEF Enabling!Init, Border
<1> QED
  BY <1>4, <1>5, <1>7, <1>8, <1>9 DEF EnabledInv, IndexInverts

\* An exchange of two elements keeps everything else in place.
LEMMA SwapKeepsInverse ==
  ASSUME IndexInverts, NEW t \in DOMAIN index, NEW i \in 0..Len(ordered)-1, Enabling!Swap(t, i)
  PROVE  /\ IndexInverts'
         /\ Len(ordered') = Len(ordered)
         /\ \A p \in 1..Len(ordered) :
              ordered'[p] = IF p = index[t] + 1 THEN ordered[i + 1]
                            ELSE IF p = i + 1 THEN t ELSE ordered[p]
<1> DEFINE other == ordered[i + 1]
           n == Len(ordered)
<1>1. /\ n \in Nat /\ ordered \in [1..n -> Words] /\ i + 1 \in 1..n
      /\ index[t] \in 0..n-1 /\ index[t] + 1 \in 1..n /\ ordered[index[t] + 1] = t
      /\ other \in DOMAIN index /\ index[other] = i
  <2>1. /\ n \in Nat /\ ordered \in [1..n -> Words] /\ i + 1 \in 1..n
        /\ index[t] \in 0..n-1 /\ ordered[index[t] + 1] = t
    BY DEF IndexInverts
  <2>2. other \in DOMAIN index /\ index[other] = (i + 1) - 1
    BY <2>1 DEF IndexInverts
  <2> QED
    BY <2>1, <2>2
<1>2. ordered' = [ordered EXCEPT ![i + 1] = t, ![index[t] + 1] = other]
  BY <1>1 DEF Enabling!Swap
<1>3. index' = [index EXCEPT ![t] = i, ![other] = index[t]]
  BY <1>1 DEF Enabling!Swap
<1>4. t \in Words /\ other \in Words
  BY <1>1
<1>5. ordered' \in Seq(Words) /\ Len(ordered') = n
  BY <1>1, <1>2, <1>4
<1>6. \A p \in 1..n : ordered'[p] = IF p = index[t] + 1 THEN other ELSE IF p = i + 1 THEN t ELSE ordered[p]
  BY <1>1, <1>2
<1>7. /\ DOMAIN index' = DOMAIN index
      /\ index' \in [DOMAIN index -> 0..n-1]
      /\ \A x \in DOMAIN index :
           index'[x] = IF x = other THEN index[t] ELSE IF x = t THEN i ELSE index[x]
  BY <1>1, <1>3 DEF IndexInverts
<1>8. \A x \in DOMAIN index : ordered'[index'[x] + 1] = x
  <2> SUFFICES ASSUME NEW x \in DOMAIN index PROVE ordered'[index'[x] + 1] = x
    OBVIOUS
  <2>1. index[x] \in 0..n-1 /\ ordered[index[x] + 1] = x
    BY DEF IndexInverts
  <2>2. CASE x = other
    BY <2>2, <1>1, <1>6, <1>7
  <2>3. CASE x # other /\ x = t
    <3>1. index'[x] = i /\ i # index[t]
      BY <2>3, <1>1, <1>7
    <3> QED
      BY <3>1, <2>3, <1>1, <1>6
  <2>4. CASE x # other /\ x # t
    <3>1. index'[x] = index[x] /\ index[x] # i /\ index[x] # index[t]
      BY <2>1, <2>4, <1>1, <1>7
    <3> QED
      BY <3>1, <2>1, <1>1, <1>6
  <2> QED
    BY <2>2, <2>3, <2>4
<1>9. \A p \in 1..n : ordered'[p] \in DOMAIN index /\ index'[ordered'[p]] = p - 1
  <2> SUFFICES ASSUME NEW p \in 1..n
               PROVE  ordered'[p] \in DOMAIN index /\ index'[ordered'[p]] = p - 1
    OBVIOUS
  <2>1. ordered[p] \in DOMAIN index /\ index[ordered[p]] = p - 1
    BY DEF IndexInverts
  <2>2. CASE p = index[t] + 1
    BY <2>2, <1>1, <1>6, <1>7
  <2>3. CASE p # index[t] + 1 /\ p = i + 1
    <3>1. ordered'[p] = t /\ t # other
      BY <2>3, <1>1, <1>6
    <3> QED
      BY <3>1, <2>3, <1>1, <1>7
  <2>4. CASE p # index[t] + 1 /\ p # i + 1
    <3>1. ordered'[p] = ordered[p] /\ ordered[p] # t /\ ordered[p] # other
      BY <2>1, <2>4, <1>1, <1>6
    <3> QED
      BY <3>1, <2>1, <1>7
  <2> QED
    BY <2>2, <2>3, <2>4
<1> QED
  BY <1>5, <1>6, <1>7, <1>8, <1>9 DEF IndexInverts

LEMMA AddKeeps ==
  ASSUME EnabledInv, NEW t \in Words, Enabling!Add(t)
  PROVE  EnabledInv'
<1>1. CASE t \in DOMAIN index
  BY <1>1 DEF Enabling!Add, EnabledInv, IndexInverts, Border
<1>2. CASE t \notin DOMAIN index
  <2> DEFINE n == Len(ordered)
  <2>1. /\ n \in Nat /\ ordered' = Append(ordered, t) /\ ordered \in Seq(Words)
        /\ index' = [x \in DOMAIN index \cup {t} |-> IF x = t THEN n ELSE index[x]]
        /\ UNCHANGED <<e, enabled>>
    BY <1>2 DEF Enabling!Add, EnabledInv, IndexInverts
  <2>2. /\ ordered' \in Seq(Words) /\ Len(ordered') = n + 1 /\ ordered'[n + 1] = t
        /\ \A i \in 1..n : ordered'[i] = ordered[i]
    BY <2>1
  <2>3. DOMAIN index' = DOMAIN index \cup {t} /\ index' \in [DOMAIN index' -> 0..n]
    BY <2>1 DEF EnabledInv, IndexInverts
  <2>4. \A x \in DOMAIN index' : ordered'[index'[x] + 1] = x
    <3> SUFFICES ASSUME NEW x \in DOMAIN index' PROVE ordered'[index'[x] + 1] = x
      OBVIOUS
    <3>1. CASE x = t
      BY <3>1, <2>1, <2>2
    <3>2. CASE x # t
      BY <3>2, <2>1, <2>2, <2>3 DEF EnabledInv, IndexInverts
    <3> QED
      BY <3>1, <3>2
  <2>5. \A i \in 1..n+1 : ordered'[i] \in DOMAIN index' /\ index'[ordered'[i]] = i - 1
    <3> SUFFICES ASSUME NEW i \in 1..n+1
                 PROVE  ordered'[i] \in DOMAIN index' /\ index'[ordered'[i]] = i - 1
      OBVIOUS
    <3>1. CASE i = n + 1
      BY <3>1, <2>1, <2>2
    <3>2. CASE i \in 1..n
      <4>1. ordered[i] \in DOMAIN index /\ index[ordered[i]] = i - 1
        BY <3>2 DEF EnabledInv, IndexInverts
      <4> QED
        BY <4>1, <1>2, <3>2, <2>1, <2>2
    <3> QED
      BY <2>1, <3>1, <3>2
  <2>6. IndexInverts'
    <3>1. 0..Len(ordered')-1 = 0..n /\ 1..Len(ordered') = 1..n+1
      BY <2>1, <2>2
    <3> HIDE DEF n
    <3> QED
      BY <3>1, <2>2, <2>3, <2>4, <2>5 DEF IndexInverts
  <2>7. Border'
    BY <2>1, <2>2 DEF EnabledInv, Border
  <2> QED
    BY <2>6, <2>7 DEF EnabledInv
<1> QED
  BY <1>1, <1>2

LEMMA DisableKeeps ==
  ASSUME EnabledInv, NEW t \in Words, Enabling!Disable(t)
  PROVE  EnabledInv'
<1> DEFINE n == Len(ordered)
<1>1. /\ t \in DOMAIN index /\ index[t] < e /\ e' = e - 1 /\ enabled' = enabled \ {t}
      /\ Enabling!Swap(t, e - 1)
  BY DEF Enabling!Disable
<1>2. /\ n \in Nat /\ e \in 1..n /\ e - 1 \in 0..n-1 /\ index[t] \in 0..e-1
      /\ ordered[index[t] + 1] = t
  BY <1>1 DEF EnabledInv, IndexInverts, Border
<1>3. /\ IndexInverts' /\ Len(ordered') = n
      /\ \A p \in 1..n : ordered'[p] = IF p = index[t] + 1 THEN ordered[e]
                                       ELSE IF p = e THEN t ELSE ordered[p]
  BY <1>1, <1>2, SwapKeepsInverse DEF EnabledInv
<1>4. \A p, q \in 1..n : ordered[p] = ordered[q] => p = q
  <2>1. \A p \in 1..n : index[ordered[p]] = p - 1
    BY DEF EnabledInv, IndexInverts
  <2> SUFFICES ASSUME NEW p \in 1..n, NEW q \in 1..n, ordered[p] = ordered[q]
               PROVE  p = q
    OBVIOUS
  <2>2. p - 1 = q - 1
    BY <2>1
  <2> QED
    BY <2>2
<1>5. enabled' = {ordered'[p] : p \in 1..e-1}
  <2>1. ASSUME NEW x \in enabled, x # t
        PROVE  \E p \in 1..e-1 : ordered'[p] = x
    <3>1. PICK q \in 1..e : ordered[q] = x
      BY <2>1 DEF EnabledInv, Border
    <3>2. CASE q = e
      BY <3>1, <3>2, <2>1, <1>2, <1>3
    <3>3. CASE q # e
      BY <3>1, <3>3, <2>1, <1>2, <1>3
    <3> QED
      BY <3>2, <3>3
  <2>2. ASSUME NEW p \in 1..e-1
        PROVE  ordered'[p] \in enabled /\ ordered'[p] # t
    <3>1. \A q \in 1..e : ordered[q] \in enabled
      BY DEF EnabledInv, Border
    <3>2. CASE p = index[t] + 1
      BY <3>1, <3>2, <1>2, <1>3, <1>4
    <3>3. CASE p # index[t] + 1
      BY <3>1, <3>3, <1>2, <1>3, <1>4
    <3> QED
      BY <3>2, <3>3
  <2> QED
    BY <2>1, <2>2, <1>1
<1>6. e' \in 0..Len(ordered') /\ 1..e' = 1..e-1
  BY <1>1, <1>2, <1>3
<1>7. Border'
  BY <1>5, <1>6 DEF Border
<1> QED
  BY <1>3, <1>7 DEF EnabledInv

LEMMA EnableKeeps ==
  ASSUME EnabledInv, NEW t \in Words, Enabling!Enable(t)
  PROVE  EnabledInv'
<1> DEFINE n == Len(ordered)
<1>1. /\ t \in DOMAIN index /\ index[t] > e - 1 /\ e' = e + 1 /\ enabled' = enabled \cup {t}
      /\ Enabling!Swap(t, e)
  BY DEF Enabling!Enable
<1>2. /\ n \in Nat /\ e \in 0..n-1 /\ index[t] \in e..n-1 /\ ordered[index[t] + 1] = t
  BY <1>1 DEF EnabledInv, IndexInverts, Border
<1>3. /\ IndexInverts' /\ Len(ordered') = n
      /\ \A p \in 1..n : ordered'[p] = IF p = index[t] + 1 THEN ordered[e + 1]
                                       ELSE IF p = e + 1 THEN t ELSE ordered[p]
  BY <1>1, <1>2, SwapKeepsInverse DEF EnabledInv
<1>4. /\ \A p \in 1..e : ordered'[p] = ordered[p]
      /\ ordered'[e + 1] = t
  BY <1>2, <1>3
<1>5. enabled' = {ordered'[p] : p \in 1..e+1}
  <2>1. enabled' = {ordered[p] : p \in 1..e} \cup {t}
    BY <1>1 DEF EnabledInv, Border
  <2>2. ASSUME NEW x \in enabled'
        PROVE  \E p \in 1..e+1 : ordered'[p] = x
    <3>1. CASE x = t
      BY <3>1, <1>2, <1>4
    <3>2. CASE x # t
      <4>1. PICK p \in 1..e : ordered[p] = x
        BY <2>1, <2>2, <3>2
      <4>2. p \in 1..e+1 /\ ordered'[p] = x
        BY <4>1, <1>2, <1>4
      <4> QED
        BY <4>2
    <3> QED
      BY <3>1, <3>2
  <2>3. ASSUME NEW p \in 1..e+1
        PROVE  ordered'[p] \in enabled'
    <3>1. CASE p = e + 1
      BY <3>1, <2>1, <1>4
    <3>2. CASE p # e + 1
      <4>1. p \in 1..e
        BY <3>2, <1>2
      <4> QED
        BY <4>1, <2>1, <1>4
    <3> QED
      BY <3>1, <3>2
  <2> QED
    BY <2>2, <2>3
<1>6. e' \in 0..Len(ordered') /\ 1..e' = 1..e+1
  BY <1>1, <1>2, <1>3
<1>7. Border'
  BY <1>5, <1>6 DEF Border
<1> QED
  BY <1>3, <1>7 DEF EnabledInv

LEMMA EnabledStays == EnabledInv /\ [Enabling!Next]_(Enabling!vars) => EnabledInv'
<1> SUFFICES ASSUME EnabledInv, [Enabling!Next]_(Enabling!vars) PROVE EnabledInv'
  OBVIOUS
<1>1. CASE Enabling!Reset
  BY <1>1 DEF Enabling!Reset, EnabledInv, IndexInverts, Border
<1>2. ASSUME NEW t \in Words, Enabling!Add(t) \/ Enabling!Disable(t) \/ Enabling!Enable(t)
      PROVE  EnabledInv'
  BY <1>2, AddKeeps, DisableKeeps, EnableKeeps
<1>3. CASE UNCHANGED Enabling!vars
  BY <1>3 DEF Enabling!vars, EnabledInv, IndexInverts, Border
<1> QED
  BY <1>1, <1>2, <1>3 DEF Enabling!Next

\* Counting elements that are listed without repetition.
LEMMA CountListed ==
  ASSUME IndexInverts, NEW k \in 0..Len(ordered)
  PROVE  Cardinality({ordered[i] : i \in 1..k}) = k
<1> DEFINE S == {ordered[i] : i \in 1..k}
           f == [i \in 1..k |-> ordered[i]]
<1>1. \A i, j \in 1..k : ordered[i] = ordered[j] => i = j
  BY DEF IndexInverts
<1>2. f \in Bijection(1..k, S)
  BY <1>1 DEF Bijection, Injection, Surjection, IsInjective
<1>3. ExistsBijection(1..k, S)
  BY <1>2 DEF ExistsBijection
<1> QED
  BY <1>3, FS_CountingElements

LEMMA EnabledIsRight == EnabledInv => Enabling!EnabledIsEnabled
<1> SUFFICES ASSUME EnabledInv PROVE Enabling!EnabledIsEnabled
  OBVIOUS
<1>1. e \in 0..Len(ordered) /\ Len(ordered) \in 0..Len(ordered)
  BY DEF EnabledInv, IndexInverts, Border
<1>2. DOMAIN index = {ordered[i] : i \in 1..Len(ordered)}
  <2>1. \A t \in DOMAIN index : index[t] + 1 \in 1..Len(ordered) /\ ordered[index[t] + 1] = t
    BY <1>1 DEF EnabledInv, IndexInverts
  <2>2. \A i \in 1..Len(ordered) : ordered[i] \in DOMAIN index
    BY DEF EnabledInv, IndexInverts
  <2> QED
    BY <2>1, <2>2
<1>3. Cardinality(enabled) = e /\ Len(ordered) = Cardinality(DOMAIN index)
  BY <1>1, <1>2, CountListed DEF EnabledInv, Border
<1>4. {ordered[i] : i \in 1..e} = enabled /\ \A t \in DOMAIN index : ordered[index[t] + 1] = t
  BY DEF EnabledInv, IndexInverts, Border
<1> QED
  BY <1>3, <1>4, OneCardinality DEF Enabling!EnabledIsEnabled

-----------------------------------------------------------------------------
(* segmented.Array                                                         *)

\* s is what data has behind place start.
IsAt(s, start) ==
  /\ s \in Seq(Values) /\ start \in Nat /\ start + Len(s) <= Len(data)
  /\ \A p \in 1..Len(s) : s[p] = data[start + p]

\* What follows the last segment is pending.
Rest ==
  /\ data \in Seq(Values)
  /\ IsAt(pending, lastSegStart)
  /\ lastSegStart + Len(pending) = Len(data)

IsSegment(s, items) ==
  /\ s.Index \in 0..indexCounter-1 /\ s.Start \in Nat /\ s.End \in s.Start..lastSegStart
  /\ IsAt(items, s.Start)
  /\ s.Start + Len(items) = s.End

\* InOrder lie one behind the other, in the order of their indices.
InOrder ==
  /\ DOMAIN contents = DOMAIN segs
  /\ \A k \in DOMAIN segs : IsSegment(segs[k], contents[k])
  /\ \A k, l \in DOMAIN segs : segs[k].Index < segs[l].Index => segs[k].End <= segs[l].Start

\* Indices number the keys.
Numbered ==
  /\ indexCounter \in Nat
  /\ IsFiniteSet(DOMAIN segs) /\ Cardinality(DOMAIN segs) = indexCounter

SegmentsInv == Rest /\ InOrder /\ Numbered

LEMMA SegmentsStart ==
  ASSUME segs = Segments!NoEntries, contents = Segments!NoEntries, pending = <<>>,
         lastSegStart = 0, indexCounter = 0, data = <<>>
  PROVE  SegmentsInv
<1>1. Rest
  BY DEF Rest, IsAt
<1>2. InOrder
  BY DEF InOrder, Segments!NoEntries
<1>3. Numbered
  BY FS_EmptySet DEF Numbered, Segments!NoEntries
<1> QED
  BY <1>1, <1>2, <1>3 DEF SegmentsInv

LEMMA AppendKeeps ==
  ASSUME SegmentsInv, NEW t \in Values, Segments!AppendItem(t)
  PROVE  SegmentsInv'
<1>1. /\ data' = Append(data, t) /\ pending' = Append(pending, t)
      /\ UNCHANGED <<segs, lastSegStart, indexCounter, contents>>
  BY DEF Segments!AppendItem
<1>2. /\ data \in Seq(Values) /\ pending \in Seq(Values) /\ lastSegStart \in Nat
      /\ lastSegStart + Len(pending) = Len(data)
      /\ \A p \in 1..Len(pending) : pending[p] = data[lastSegStart + p]
  BY DEF SegmentsInv, Rest, IsAt
<1>3. /\ data' \in Seq(Values) /\ Len(data') = Len(data) + 1 /\ data'[Len(data) + 1] = t
      /\ \A p \in 1..Len(data) : data'[p] = data[p]
  BY <1>1, <1>2, AppendProperties
<1>4. /\ pending' \in Seq(Values) /\ Len(pending') = Len(pending) + 1
      /\ pending'[Len(pending) + 1] = t
      /\ \A p \in 1..Len(pending) : pending'[p] = pending[p]
  BY <1>1, <1>2, AppendProperties
<1>5. /\ Len(data) \in Nat /\ Len(pending) \in Nat /\ lastSegStart \in Nat
      /\ lastSegStart + Len(pending) = Len(data)
  BY <1>2
<1>6. Rest'
  <2>1. ASSUME NEW p \in 1..Len(pending')
        PROVE  pending'[p] = data'[lastSegStart + p]
    <3>1. CASE p = Len(pending) + 1
      <4>1. lastSegStart + p = Len(data) + 1
        BY <3>1, <1>5
      <4> QED
        BY <3>1, <4>1, <1>3, <1>4
    <3>2. CASE p \in 1..Len(pending)
      <4>1. lastSegStart + p \in 1..Len(data)
        BY <3>2, <1>2, <1>5
      <4>2. pending'[p] = pending[p] /\ data'[lastSegStart + p] = data[lastSegStart + p]
        BY <3>2, <4>1, <1>3, <1>4
      <4> QED
        BY <3>2, <4>2, <1>2
    <3> QED
      BY <3>1, <3>2, <1>4, <1>5
  <2>2. lastSegStart' + Len(pending') = Len(data')
    BY <1>1, <1>2, <1>3, <1>4, <1>5
  <2>3. IsAt(pending, lastSegStart)'
    <3>1. lastSegStart' = lastSegStart /\ lastSegStart \in Nat /\ lastSegStart' + Len(pending') <= Len(data')
      BY <2>2, <1>1, <1>2, <1>3, <1>5
    <3>2. \A p \in 1..Len(pending') : pending'[p] = data'[lastSegStart' + p]
      BY <2>1, <3>1
    <3> QED
      BY <3>1, <3>2, <1>4 DEF IsAt
  <2> QED
    BY <2>2, <2>3, <1>3 DEF Rest
<1>7. ASSUME NEW s, NEW start, IsAt(s, start)
      PROVE  /\ s \in Seq(Values) /\ start \in Nat /\ start + Len(s) <= Len(data')
             /\ \A p \in 1..Len(s) : s[p] = data'[start + p]
  <2>1. /\ s \in Seq(Values) /\ start \in Nat /\ start + Len(s) <= Len(data) /\ Len(s) \in Nat
        /\ \A p \in 1..Len(s) : s[p] = data[start + p]
    BY <1>7 DEF IsAt
  <2>2. ASSUME NEW p \in 1..Len(s)
        PROVE  s[p] = data'[start + p]
    <3>1. start + p \in 1..Len(data)
      BY <2>1, <2>2, <1>5
    <3>2. data'[start + p] = data[start + p]
      BY <3>1, <1>3
    <3> QED
      BY <3>2, <2>1, <2>2
  <2>3. start + Len(s) <= Len(data')
    BY <2>1, <1>3, <1>5
  <2> QED
    BY <2>1, <2>2, <2>3
<1>8. InOrder'
  <2>1. \A k \in DOMAIN segs : IsSegment(segs[k], contents[k])'
    <3> SUFFICES ASSUME NEW k \in DOMAIN segs
                 PROVE  IsSegment(segs[k], contents[k])'
      OBVIOUS
    <3>1. IsSegment(segs[k], contents[k])
      BY DEF SegmentsInv, InOrder
    <3>2. IsAt(contents[k], segs[k].Start)
      BY <3>1 DEF IsSegment
    <3>3. IsAt(contents[k], segs[k].Start)'
      <4> DEFINE s == contents[k]  start == segs[k].Start
      <4>1. /\ s \in Seq(Values) /\ start \in Nat /\ start + Len(s) <= Len(data')
            /\ \A p \in 1..Len(s) : s[p] = data'[start + p]
        BY <3>2, <1>7
      <4>2. contents'[k] = s /\ segs'[k].Start = start
        BY <1>1
      <4> QED
        BY <4>1, <4>2 DEF IsAt
    <3> QED
      BY <3>1, <3>3, <1>1 DEF IsSegment
  <2> QED
    BY <2>1, <1>1 DEF SegmentsInv, InOrder
<1>9. Numbered'
  BY <1>1 DEF SegmentsInv, Numbered
<1> QED
  BY <1>6, <1>8, <1>9 DEF SegmentsInv

LEMMA CutKeeps ==
  ASSUME SegmentsInv, NEW key, Segments!CutNew(key)
  PROVE  SegmentsInv'
<1> DEFINE new == [Index |-> indexCounter, Start |-> lastSegStart, End |-> Len(data)]
<1>1. /\ key \notin DOMAIN segs
      /\ DOMAIN segs' = DOMAIN segs \cup {key} /\ DOMAIN contents' = DOMAIN contents \cup {key}
      /\ segs'[key] = new /\ contents'[key] = pending
      /\ \A k \in DOMAIN segs : segs'[k] = segs[k] /\ contents'[k] = contents[k]
      /\ lastSegStart' = Len(data) /\ indexCounter' = indexCounter + 1
      /\ pending' = <<>> /\ data' = data
  BY DEF Segments!CutNew, Segments!With, SegmentsInv, InOrder
<1>2. /\ data \in Seq(Values) /\ Len(data) \in Nat /\ lastSegStart \in 0..Len(data)
      /\ IsAt(pending, lastSegStart) /\ lastSegStart + Len(pending) = Len(data)
      /\ indexCounter \in Nat
  BY DEF SegmentsInv, Rest, IsAt, Numbered
<1>3. Rest'
  BY <1>1, <1>2 DEF Rest, IsAt
<1>4. IsSegment(segs[key], contents[key])'
  BY <1>1, <1>2 DEF IsSegment, IsAt
<1>5. \A k \in DOMAIN segs : IsSegment(segs[k], contents[k])'
  <2> SUFFICES ASSUME NEW k \in DOMAIN segs
               PROVE  IsSegment(segs[k], contents[k])'
    OBVIOUS
  <2>1. IsSegment(segs[k], contents[k])
    BY DEF SegmentsInv, InOrder
  <2>2. IsAt(contents[k], segs[k].Start)'
    BY <2>1, <1>1 DEF IsSegment, IsAt
  <2> DEFINE s == segs[k]
  <2>3. s.Index \in 0..(indexCounter + 1)-1 /\ s.End \in s.Start..Len(data)
    BY <2>1, <1>2 DEF IsSegment
  <2> QED
    BY <2>1, <2>2, <2>3, <1>1 DEF IsSegment
<1>6. \A k, l \in DOMAIN segs' : segs'[k].Index < segs'[l].Index => segs'[k].End <= segs'[l].Start
  <2> SUFFICES ASSUME NEW k \in DOMAIN segs', NEW l \in DOMAIN segs',
                      segs'[k].Index < segs'[l].Index
               PROVE  segs'[k].End <= segs'[l].Start
    OBVIOUS
  <2>1. CASE k = key
    BY <2>1, <1>1, <1>2 DEF SegmentsInv, InOrder, IsSegment
  <2>2. CASE k # key /\ l = key
    BY <2>2, <1>1, <1>2 DEF SegmentsInv, InOrder, IsSegment
  <2>3. CASE k # key /\ l # key
    BY <2>3, <1>1 DEF SegmentsInv, InOrder
  <2> QED
    BY <2>1, <2>2, <2>3
<1>7. InOrder'
  BY <1>1, <1>4, <1>5, <1>6 DEF SegmentsInv, InOrder
<1>8. Numbered'
  <2>1. IsFiniteSet(DOMAIN segs) /\ Cardinality(DOMAIN segs) = indexCounter
    BY DEF SegmentsInv, Numbered
  <2>2. /\ IsFiniteSet(DOMAIN segs \cup {key})
        /\ Cardinality(DOMAIN segs \cup {key}) = indexCounter + 1
    BY <2>1, <1>1, FS_AddElement
  <2> QED
    BY <2>2, <1>1, <1>2 DEF Numbered
<1> QED
  BY <1>3, <1>7, <1>8 DEF SegmentsInv

LEMMA SegmentsStay == SegmentsInv /\ [Segments!Next]_(Segments!vars) => SegmentsInv'
<1> SUFFICES ASSUME SegmentsInv, [Segments!Next]_(Segments!vars) PROVE SegmentsInv'
  OBVIOUS
<1>1. CASE Segments!Reset
  <2>1. /\ segs' = Segments!NoEntries /\ contents' = Segments!NoEntries /\ pending' = <<>>
        /\ lastSegStart' = 0 /\ indexCounter' = 0 /\ data' = <<>>
    BY <1>1 DEF Segments!Reset
  <2>2. Rest'
    BY <2>1 DEF Rest, IsAt
  <2>3. InOrder'
    BY <2>1 DEF InOrder, Segments!NoEntries
  <2>4. Numbered'
    BY <2>1, FS_EmptySet DEF Numbered, Segments!NoEntries
  <2> QED
    BY <2>2, <2>3, <2>4 DEF SegmentsInv
<1>2. CASE \E t \in Values : Segments!AppendItem(t)
  BY <1>2, AppendKeeps
<1>3. CASE \E k \in Words : Segments!CutNew(k)
  BY <1>3, CutKeeps
<1>4. CASE UNCHANGED Segments!vars
  BY <1>4 DEF Segments!vars, SegmentsInv, Rest, InOrder, Numbered, IsSegment, IsAt
<1> QED
  BY <1>1, <1>2, <1>3, <1>4 DEF Segments!Next, Segments!Cut, Segments!CutKnown

LEMMA SegmentsAreRight == SegmentsInv => Segments!SegmentsKeepContents
<1> SUFFICES ASSUME SegmentsInv PROVE Segments!SegmentsKeepContents
  OBVIOUS
<1>1. ASSUME NEW k \in DOMAIN segs
      PROVE  /\ Segments!GetItems(k) = contents[k]
             /\ Segments!Get(k).Index < indexCounter /\ segs[k].End <= lastSegStart
  <2> DEFINE s == segs[k]
  <2>1. /\ s.Index \in 0..indexCounter-1 /\ s.Start \in Nat /\ s.End \in s.Start..lastSegStart
        /\ contents[k] \in Seq(Values) /\ s.End = s.Start + Len(contents[k]) /\ s.End <= Len(data)
        /\ \A p \in 1..Len(contents[k]) : contents[k][p] = data[s.Start + p]
        /\ indexCounter \in Nat /\ data \in Seq(Values) /\ lastSegStart \in Nat
    BY DEF SegmentsInv, InOrder, IsSegment, IsAt, Numbered, Rest
  <2> DEFINE first == s.Start + 1  n == Len(contents[k])
  <2>2. /\ n \in Nat /\ Len(data) \in Nat /\ first \in Int /\ s.End \in Int
        /\ s.End - first + 1 = n
    BY <2>1
  <2>3. \A p \in first..s.End : p \in 1..Len(data)
    BY <2>1, <2>2
  <2>4. \A p \in first..s.End : data[p] \in Values
    <3>1. \A p \in 1..Len(data) : data[p] \in Values
      BY <2>1
    <3> QED
      BY <3>1, <2>3
  <2> HIDE DEF first
  <2>5. /\ SubSeq(data, first, s.End) \in Seq(Values)
        /\ Len(SubSeq(data, first, s.End)) = IF first <= s.End THEN s.End - first + 1 ELSE 0
        /\ \A p \in 1..s.End - first + 1 : SubSeq(data, first, s.End)[p] = data[first + p - 1]
    BY <2>2, <2>4, SubSeqProperties
  <2>6. Len(SubSeq(data, first, s.End)) = n
    BY <2>2, <2>5
  <2>7. ASSUME NEW p \in 1..n
        PROVE  SubSeq(data, first, s.End)[p] = contents[k][p]
    <3>1. first + p - 1 = s.Start + p
      BY <2>1, <2>2 DEF first
    <3> QED
      BY <3>1, <2>1, <2>2, <2>5
  <2>8. SubSeq(data, first, s.End) = contents[k]
    BY <2>1, <2>5, <2>6, <2>7, SeqEqual
  <2> QED
    BY <2>1, <2>8 DEF Segments!GetItems, Segments!HasItems, Segments!GetSegment, Segments!Get, first
<1> QED
  BY <1>1, OneCardinality DEF SegmentsInv, InOrder, Numbered, Segments!SegmentsKeepContents

-----------------------------------------------------------------------------
(* bitmask.Set: the addresses of numbers.                                  *)

\* A number is found in one word, at one bit of it.
LEMMA WordBit ==
  ASSUME NEW n \in Nat
  PROVE  /\ BitSet!Word(n) \in Nat \ {0} /\ BitSet!Bit(n) \in BitSet!Bits
         /\ n = (BitSet!Word(n) - 1) * bpw + BitSet!Bit(n)
BY BitsAssumption DEF BitSet!Word, BitSet!Bit, BitSet!Bits

\* Words do not overlap.
LEMMA Products ==
  ASSUME NEW i \in Nat, NEW j \in Nat, i < j
  PROVE  i * bpw \in Nat /\ j * bpw \in Nat /\ i * bpw + bpw <= j * bpw
<1>1. i * bpw + bpw = (i + 1) * bpw
  BY BitsAssumption
<1> QED
  BY <1>1, BitsAssumption

\* The bits of the words are numbers.
LEMMA Address ==
  ASSUME NEW i \in Nat \ {0}, NEW b \in BitSet!Bits
  PROVE  /\ (i - 1) * bpw + b \in Nat
         /\ BitSet!Word((i - 1) * bpw + b) = i
         /\ BitSet!Bit((i - 1) * bpw + b) = b
BY BitsAssumption DEF BitSet!Word, BitSet!Bit, BitSet!Bits

-----------------------------------------------------------------------------
(* bitmask.Set: its memory (bitmask.go:550-602).                           *)

\* The shape of a set; the words behind its end are zero; its last word is not.
IsWords(s) ==
  /\ s = [mem |-> s.mem, len |-> s.len]
  /\ s.mem \in Seq(SUBSET BitSet!Bits) /\ s.len \in 0..Len(s.mem)

Clean(s) == IsWords(s) /\ \A i \in s.len+1..Len(s.mem) : s.mem[i] = {}

Kept(s) == IsWords(s) /\ BitSet!Canonical(s)

\* Word i of a set: none behind its end.
At(s, i) == IF i \in 1..s.len THEN s.mem[i] ELSE {}

\* What the greatest and the least of some numbers are.
LEMMA MaxOf ==
  ASSUME NEW S \in SUBSET Int, NEW x \in S, \A y \in S : y <= x
  PROVE  BitSet!Max(S) = x
<1>1. \E z \in S : \A y \in S : z >= y
  OBVIOUS
<1>2. \A z \in S : (\A y \in S : z >= y) => z = x
  OBVIOUS
<1> QED
  BY <1>1, <1>2 DEF BitSet!Max

LEMMA MinOf ==
  ASSUME NEW S \in SUBSET Int, NEW x \in S, \A y \in S : x <= y
  PROVE  BitSet!Min(S) = x
<1>1. \E z \in S : \A y \in S : z =< y
  OBVIOUS
<1>2. \A z \in S : (\A y \in S : z =< y) => z = x
  OBVIOUS
<1> QED
  BY <1>1, <1>2 DEF BitSet!Min

\* Where the words that are not zero end.
LEMMA SignificantIs ==
  ASSUME NEW ws, ws \in Seq(SUBSET BitSet!Bits)
  PROVE  /\ BitSet!Significant(ws) \in 0..Len(ws)
         /\ BitSet!Significant(ws) > 0 => ws[BitSet!Significant(ws)] # {}
         /\ \A i \in BitSet!Significant(ws)+1..Len(ws) : ws[i] = {}
<1> DEFINE D == {i \in DOMAIN ws : ws[i] # {}}
<1>0. D \in SUBSET (1..Len(ws)) /\ Len(ws) \in Nat
  OBVIOUS
<1>1. CASE D = {}
  <2>1. BitSet!Significant(ws) = 0
    <3>1. BitSet!Max({0} \cup D) = 0
      BY <1>1, MaxOf
    <3> QED
      BY <3>1 DEF BitSet!Significant
  <2>2. \A i \in 1..Len(ws) : ws[i] = {}
    BY <1>1
  <2> QED
    BY <1>0, <2>1, <2>2
<1>2. CASE D # {}
  <2> DEFINE m == Max(D)
  <2>1. m \in D /\ \A i \in D : i <= m
    <3> HIDE DEF D
    <3> QED
      BY <1>0, <1>2, Greatest
  <2> HIDE DEF m
  <2>2. BitSet!Significant(ws) = m
    <3>1. m \in {0} \cup D /\ \A i \in {0} \cup D : i <= m
      BY <1>0, <2>1
    <3>2. {0} \cup D \in SUBSET Int
      BY <1>0
    <3>3. BitSet!Max({0} \cup D) = m
      <4> HIDE DEF D
      <4> QED
        BY <3>1, <3>2, MaxOf
    <3> QED
      BY <3>3 DEF BitSet!Significant
  <2>3. m \in 1..Len(ws) /\ ws[m] # {}
    BY <1>0, <2>1
  <2>4. \A i \in m+1..Len(ws) : ws[i] = {}
    <3> SUFFICES ASSUME NEW i \in m+1..Len(ws), ws[i] # {} PROVE FALSE
      OBVIOUS
    <3>1. i \in 1..Len(ws) /\ i > m
      BY <2>3
    <3> QED
      BY <2>1, <2>3, <3>1
  <2> HIDE DEF D
  <2> QED
    BY <1>0, <2>2, <2>3, <2>4
<1> QED
  BY <1>1, <1>2

\* The slice is the beginning of the memory.
LEMMA DataIs ==
  ASSUME NEW s, IsWords(s)
  PROVE  /\ BitSet!Data(s) \in Seq(SUBSET BitSet!Bits) /\ Len(BitSet!Data(s)) = s.len
         /\ \A i \in 1..s.len : BitSet!Data(s)[i] = s.mem[i] /\ BitSet!Data(s)[i] = At(s, i)
BY DEF BitSet!Data, IsWords, At

\* A new capacity holds the words that it is for.
LEMMA CapIs ==
  ASSUME NEW n \in Nat, NEW c \in Nat
  PROVE  BitSet!newCap(n, c) \in Nat /\ n <= BitSet!newCap(n, c)
<1> DEFINE P == {p \in 1..2*c : BitSet!PowerOfTwo(p)}
           q == BitSet!nextPow2(c)
<1>1. q \in Nat
  <2>1. CASE P = {}
    <3>1. BitSet!Max({1} \cup P) = 1
      BY <2>1, MaxOf
    <3> QED
      BY <3>1 DEF BitSet!nextPow2
  <2>2. CASE P # {}
    <3>1. P \in SUBSET (1..2*c) /\ 2*c \in Nat
      OBVIOUS
    <3>2. Max(P) \in P /\ \A i \in P : i <= Max(P)
      <4> HIDE DEF P
      <4> QED
        BY <3>1, <2>2, Greatest
    <3> DEFINE m == Max(P)
    <3>3. m \in Nat /\ m \in {1} \cup P /\ {1} \cup P \in SUBSET Int /\ \A i \in {1} \cup P : i <= m
      BY <3>1, <3>2
    <3> HIDE DEF m
    <3>4. BitSet!Max({1} \cup P) = m
      <4> HIDE DEF P
      <4> QED
        BY <3>3, MaxOf
    <3> QED
      BY <3>3, <3>4 DEF BitSet!nextPow2
  <2> QED
    BY <2>1, <2>2
<1> HIDE DEF q
<1>2. CASE q <= n
  <2>1. BitSet!Max({n, q}) = n
    BY <1>1, <1>2, MaxOf
  <2> QED
    BY <2>1 DEF BitSet!newCap, q
<1>3. CASE n < q
  <2>1. BitSet!Max({n, q}) = q
    BY <1>1, <1>3, MaxOf
  <2> QED
    BY <1>1, <1>3, <2>1 DEF BitSet!newCap, q
<1> QED
  BY <1>1, <1>2, <1>3

\* The memory: a new array, one that is used again, and words written to it.
LEMMA ZerosAre ==
  ASSUME NEW n \in Nat
  PROVE  /\ BitSet!Zeros(n) \in Seq(SUBSET BitSet!Bits) /\ Len(BitSet!Zeros(n)) = n
         /\ \A i \in 1..n : BitSet!Zeros(n)[i] = {}
BY DEF BitSet!Zeros

LEMMA ReallocIs ==
  ASSUME NEW s, Clean(s), NEW n \in Nat
  PROVE  /\ Clean(BitSet!realloc(s, n)) /\ BitSet!realloc(s, n).len = n
         /\ \A i \in 1..n : BitSet!realloc(s, n).mem[i] = IF Len(s.mem) < n THEN {} ELSE s.mem[i]
<1> DEFINE t == BitSet!realloc(s, n)
<1>0. IsWords(s) /\ Len(s.mem) \in Nat /\ \A i \in s.len+1..Len(s.mem) : s.mem[i] = {}
  BY DEF Clean, IsWords
<1>1. CASE Len(s.mem) < n
  <2> DEFINE c == BitSet!newCap(n, Len(s.mem))
  <2>1. c \in Nat /\ n <= c
    BY <1>0, CapIs
  <2>2. t = [mem |-> BitSet!Zeros(c), len |-> n]
    BY <1>1 DEF BitSet!realloc
  <2>3. t.mem \in Seq(SUBSET BitSet!Bits) /\ Len(t.mem) = c /\ \A i \in 1..c : t.mem[i] = {}
    <3> HIDE DEF t, c
    <3>1. t.mem = BitSet!Zeros(c)
      BY <2>2
    <3>2. /\ BitSet!Zeros(c) \in Seq(SUBSET BitSet!Bits) /\ Len(BitSet!Zeros(c)) = c
          /\ \A i \in 1..c : BitSet!Zeros(c)[i] = {}
      BY <2>1, ZerosAre
    <3> QED
      BY <3>1, <3>2
  <2>4. t = [mem |-> t.mem, len |-> t.len] /\ t.len = n
    BY <2>2
  <2> HIDE DEF t, c
  <2>5. IsWords(t)
    BY <2>1, <2>3, <2>4 DEF IsWords
  <2>6. Clean(t)
    BY <2>1, <2>3, <2>4, <2>5 DEF Clean
  <2> QED
    BY <1>1, <2>1, <2>3, <2>4, <2>6 DEF t
<1>2. CASE ~(Len(s.mem) < n)
  <2> DEFINE f == [i \in DOMAIN s.mem |-> IF i \in n+1..s.len THEN {} ELSE s.mem[i]]
  <2>1. t = [mem |-> f, len |-> n]
    BY <1>2 DEF BitSet!realloc
  <2>2. f \in Seq(SUBSET BitSet!Bits) /\ Len(f) = Len(s.mem)
    BY <1>0 DEF IsWords
  <2>3. \A i \in 1..n : f[i] = s.mem[i]
    BY <1>0, <1>2 DEF IsWords
  <2>4. \A i \in n+1..Len(s.mem) : f[i] = {}
    BY <1>0, <1>2 DEF IsWords
  <2>5. t = [mem |-> t.mem, len |-> t.len] /\ t.mem = f /\ t.len = n
    BY <2>1
  <2> HIDE DEF t, f
  <2>6. IsWords(t)
    BY <1>0, <1>2, <2>2, <2>5 DEF IsWords
  <2>7. Clean(t)
    BY <2>2, <2>4, <2>5, <2>6 DEF Clean
  <2> QED
    BY <1>2, <2>3, <2>5, <2>7 DEF t
<1> QED
  BY <1>1, <1>2

LEMMA ExceptMem ==
  \A m, l, f : [[mem |-> m, len |-> l] EXCEPT !.mem = f] = [mem |-> f, len |-> l]
OBVIOUS

LEMMA WriteIs ==
  ASSUME NEW t, Clean(t), NEW ws \in Seq(SUBSET BitSet!Bits), Len(ws) <= t.len
  PROVE  /\ Clean(BitSet!Write(t, ws)) /\ BitSet!Write(t, ws).len = t.len
         /\ \A i \in 1..t.len : BitSet!Write(t, ws).mem[i] = IF i <= Len(ws) THEN ws[i] ELSE t.mem[i]
<1> DEFINE f == [i \in DOMAIN t.mem |-> IF i <= Len(ws) THEN ws[i] ELSE t.mem[i]]
           r == BitSet!Write(t, ws)
<1>0. /\ t = [mem |-> t.mem, len |-> t.len] /\ t.mem \in Seq(SUBSET BitSet!Bits) /\ t.len \in 0..Len(t.mem)
      /\ Len(t.mem) \in Nat /\ Len(ws) \in Nat
      /\ \A i \in t.len+1..Len(t.mem) : t.mem[i] = {}
  BY DEF Clean, IsWords
<1>1. r = [mem |-> f, len |-> t.len]
  <2>1. r = [t EXCEPT !.mem = f]
    BY Zenon DEF BitSet!Write
  <2> HIDE DEF f, r
  <2> QED
    BY <1>0, <2>1, ExceptMem
<1>2. f \in Seq(SUBSET BitSet!Bits) /\ Len(f) = Len(t.mem)
  BY <1>0
<1>3. \A i \in 1..Len(t.mem) : f[i] = IF i <= Len(ws) THEN ws[i] ELSE t.mem[i]
  BY <1>0
<1>4. r = [mem |-> r.mem, len |-> r.len] /\ r.mem = f /\ r.len = t.len
  BY <1>1
<1> HIDE DEF f, r
<1>5. IsWords(r)
  BY <1>0, <1>2, <1>4 DEF IsWords
<1>6. Clean(r)
  <2> SUFFICES ASSUME NEW i \in r.len+1..Len(r.mem) PROVE r.mem[i] = {}
    BY <1>5 DEF Clean
  <2>1. i \in t.len+1..Len(t.mem) /\ i \in 1..Len(t.mem) /\ ~(i <= Len(ws))
    BY <1>0, <1>2, <1>4
  <2> QED
    BY <1>0, <1>3, <1>4, <2>1
<1>7. \A i \in 1..t.len : r.mem[i] = IF i <= Len(ws) THEN ws[i] ELSE t.mem[i]
  BY <1>0, <1>3, <1>4
<1> QED
  BY <1>4, <1>6, <1>7 DEF r

\* resize keeps the words and adds zeroes, also where it shrinks the set first.
LEMMA ResizeIs ==
  ASSUME NEW s, Clean(s), NEW n \in Nat, s.len <= n \/ n <= s.len
  PROVE  /\ Clean(BitSet!resize(s, n)) /\ BitSet!resize(s, n).len = n
         /\ \A i \in 1..n : BitSet!resize(s, n).mem[i] = At(s, i)
<1> DEFINE t == BitSet!realloc(s, n)
<1>0. IsWords(s) /\ Len(s.mem) \in Nat /\ s.len \in 0..Len(s.mem) /\ \A i \in s.len+1..Len(s.mem) : s.mem[i] = {}
  BY DEF Clean, IsWords
<1>1. /\ Clean(t) /\ t.len = n
      /\ \A i \in 1..n : t.mem[i] = IF Len(s.mem) < n THEN {} ELSE s.mem[i]
  BY ReallocIs
<1>2. CASE Len(s.mem) < n
  <2> DEFINE w == BitSet!Data(s)  r == BitSet!Write(t, w)
  <2>1. w \in Seq(SUBSET BitSet!Bits) /\ Len(w) = s.len /\ \A i \in 1..s.len : w[i] = At(s, i)
    BY <1>0, DataIs
  <2>2. Len(w) <= t.len
    BY <1>0, <1>1, <1>2, <2>1
  <2> HIDE DEF t, w
  <2>3. /\ Clean(r) /\ r.len = n
        /\ \A i \in 1..n : r.mem[i] = IF i <= s.len THEN w[i] ELSE t.mem[i]
    BY <1>1, <2>1, <2>2, WriteIs
  <2>4. BitSet!resize(s, n) = r
    BY <1>2 DEF BitSet!resize, t, w
  <2> HIDE DEF r
  <2>5. \A i \in 1..n : r.mem[i] = At(s, i)
    <3> SUFFICES ASSUME NEW i \in 1..n PROVE r.mem[i] = At(s, i)
      OBVIOUS
    <3>1. t.mem[i] = {}
      BY <1>1, <1>2
    <3>2. CASE i <= s.len
      <4>1. i \in 1..s.len
        BY <1>0, <3>2
      <4> QED
        BY <2>1, <2>3, <3>2, <4>1
    <3>3. CASE ~(i <= s.len)
      <4>1. r.mem[i] = t.mem[i]
        BY <2>3, <3>3
      <4>2. i \notin 1..s.len
        BY <3>3
      <4> QED
        BY <3>1, <4>1, <4>2 DEF At
    <3> QED
      BY <3>2, <3>3
  <2> QED
    BY <2>3, <2>4, <2>5
<1>3. CASE ~(Len(s.mem) < n)
  <2>1. BitSet!resize(s, n) = t
    BY <1>3 DEF BitSet!resize
  <2> HIDE DEF t
  <2>2. \A i \in 1..n : t.mem[i] = At(s, i)
    <3> SUFFICES ASSUME NEW i \in 1..n PROVE t.mem[i] = At(s, i)
      OBVIOUS
    <3>1. t.mem[i] = s.mem[i]
      BY <1>1, <1>3
    <3>2. i \in 1..s.len \/ i \in s.len+1..Len(s.mem)
      BY <1>0, <1>3
    <3> QED
      BY <1>0, <3>1, <3>2 DEF At
  <2> QED
    BY <1>1, <2>1, <2>2
<1> QED
  BY <1>2, <1>3

\* A set whose words are those of ws.
HasWords(r, ws) ==
  Kept(r) /\ r.len \in 0..Len(ws) /\ (\A i \in 1..r.len : r.mem[i] = ws[i])
  /\ \A i \in r.len+1..Len(ws) : ws[i] = {}

\* Words n of which are written in place of a set.
LEMMA ReplacedHas ==
  ASSUME NEW t, Clean(t), NEW alias, NEW ws \in Seq(SUBSET BitSet!Bits), NEW n \in 0..Len(ws),
         n > 0 => ws[n] # {}, \A i \in n+1..Len(ws) : ws[i] = {}
  PROVE  HasWords(BitSet!Replaced(t, alias, n, ws), ws)
<1> DEFINE u == IF alias THEN BitSet!resize(t, n) ELSE BitSet!realloc(t, n)
           w == SubSeq(ws, 1, n)
           r == BitSet!Write(u, w)
<1>0. n \in Nat /\ (t.len <= n \/ n <= t.len)
  BY DEF Clean, IsWords
<1>1. Clean(u) /\ u.len = n
  BY <1>0, ReallocIs, ResizeIs
<1>2. w \in Seq(SUBSET BitSet!Bits) /\ Len(w) = n /\ \A i \in 1..n : w[i] = ws[i]
  BY <1>0
<1>3. BitSet!Replaced(t, alias, n, ws) = r
  BY DEF BitSet!Replaced
<1> HIDE DEF u, w
<1>4. /\ Clean(r) /\ r.len = n
      /\ \A i \in 1..n : r.mem[i] = w[i]
  <2>1. Len(w) <= u.len
    BY <1>0, <1>1, <1>2
  <2>2. /\ Clean(r) /\ r.len = n
        /\ \A i \in 1..n : r.mem[i] = IF i <= Len(w) THEN w[i] ELSE u.mem[i]
    BY <1>1, <1>2, <2>1, WriteIs
  <2> HIDE DEF r
  <2>3. \A i \in 1..n : i <= Len(w)
    BY <1>0, <1>2
  <2> QED
    BY <2>2, <2>3
<1> HIDE DEF r
<1>5. Kept(r)
  BY <1>0, <1>2, <1>4 DEF Kept, Clean, BitSet!Canonical
<1>6. HasWords(r, ws)
  BY <1>2, <1>4, <1>5 DEF HasWords
<1> QED
  BY <1>3, <1>6

\* trim changes no word that is looked at.
LEMMA TrimIs ==
  ASSUME NEW s, Clean(s)
  PROVE  Kept(BitSet!trim(s)) /\ \A i \in Nat : At(BitSet!trim(s), i) = At(s, i)
<1> DEFINE w == BitSet!Data(s)  n == BitSet!Significant(w)  r == BitSet!trim(s)
<1>0. IsWords(s) /\ Len(s.mem) \in Nat /\ s.len \in 0..Len(s.mem) /\ \A i \in s.len+1..Len(s.mem) : s.mem[i] = {}
  BY DEF Clean, IsWords
<1>1. w \in Seq(SUBSET BitSet!Bits) /\ Len(w) = s.len /\ \A i \in 1..s.len : w[i] = s.mem[i]
  BY <1>0, DataIs
<1>2. r = [mem |-> s.mem, len |-> n]
  BY <1>0 DEF BitSet!trim, IsWords
<1> HIDE DEF w
<1>3. n \in 0..s.len /\ (n > 0 => w[n] # {}) /\ \A i \in n+1..s.len : w[i] = {}
  BY <1>1, SignificantIs
<1>4. r.mem = s.mem /\ r.len = n /\ r = [mem |-> r.mem, len |-> r.len]
  BY <1>2
<1> HIDE DEF n, r
<1>5. IsWords(r)
  BY <1>0, <1>3, <1>4 DEF IsWords
<1>6. \A i \in n+1..Len(s.mem) : s.mem[i] = {}
  <2> SUFFICES ASSUME NEW i \in n+1..Len(s.mem) PROVE s.mem[i] = {}
    OBVIOUS
  <2>1. i \in n+1..s.len \/ i \in s.len+1..Len(s.mem)
    BY <1>0, <1>3
  <2>2. i \in n+1..s.len => i \in 1..s.len
    BY <1>3
  <2> QED
    BY <1>0, <1>1, <1>3, <2>1, <2>2
<1>7. n > 0 => s.mem[n] # {}
  BY <1>1, <1>3
<1>8. Kept(r)
  BY <1>4, <1>5, <1>6, <1>7 DEF Kept, BitSet!Canonical
<1>9. \A i \in Nat : At(r, i) = At(s, i)
  <2> SUFFICES ASSUME NEW i \in Nat PROVE At(r, i) = At(s, i)
    OBVIOUS
  <2>1. i \in 1..n \/ i \in n+1..s.len \/ (i \notin 1..n /\ i \notin 1..s.len)
    BY <1>0, <1>3
  <2>2. i \in n+1..s.len => i \in 1..s.len /\ i \notin 1..n /\ i \in n+1..Len(s.mem)
    BY <1>0, <1>3
  <2>3. i \in 1..n => i \in 1..s.len
    BY <1>0, <1>3
  <2> QED
    BY <1>4, <1>6, <2>1, <2>2, <2>3 DEF At
<1> QED
  BY <1>8, <1>9 DEF r

\* Numbers compare as their words do, and within a word as their bits do.
LEMMA Compare ==
  ASSUME NEW i \in Nat \ {0}, NEW j \in Nat \ {0}, NEW b \in BitSet!Bits, NEW c \in BitSet!Bits
  PROVE  /\ (i - 1) * bpw + b \in Nat /\ (j - 1) * bpw + c \in Nat
         /\ (i - 1) * bpw + b <= (j - 1) * bpw + c <=> i < j \/ (i = j /\ b <= c)
<1>0. /\ bpw \in Nat \ {0} /\ b \in 0..bpw-1 /\ c \in 0..bpw-1
      /\ (i - 1) * bpw \in Nat /\ (j - 1) * bpw \in Nat
  BY BitsAssumption DEF BitSet!Bits
<1>1. CASE i < j
  <2>1. (i - 1) * bpw + bpw <= (j - 1) * bpw
    <3>1. i - 1 \in Nat /\ j - 1 \in Nat /\ i - 1 < j - 1
      BY <1>1
    <3> QED
      BY <3>1, Products
  <2> QED
    BY <1>0, <1>1, <2>1
<1>2. CASE j < i
  <2>1. (j - 1) * bpw + bpw <= (i - 1) * bpw
    <3>1. i - 1 \in Nat /\ j - 1 \in Nat /\ j - 1 < i - 1
      BY <1>2
    <3> QED
      BY <3>1, Products
  <2> QED
    BY <1>0, <1>2, <2>1
<1>3. CASE i = j
  BY <1>0, <1>3
<1> QED
  BY <1>1, <1>2, <1>3

-----------------------------------------------------------------------------
(* bitmask.Set: the numbers that a set stands for.                         *)

\* The bits that some numbers have in word i.
InWord(ns, i) == {b \in BitSet!Bits : (i - 1) * bpw + b \in ns}

\* s is the set that stands for the numbers ns.
Stands(s, ns) ==
  /\ Kept(s) /\ ns \in SUBSET Nat
  /\ \A i \in Nat \ {0} : At(s, i) = InWord(ns, i)

\* The masks of a range are the bits of its numbers.
LEMMA MaskIs ==
  ASSUME NEW m \in BitSet!Bits, NEW n \in BitSet!Bits, m <= n
  PROVE  BitSet!bitMask(m, n) = m..n
<1> DEFINE k == bpw - 1 - (n - m)
           low == BitSet!Shr(BitSet!Bits, k)
<1>0. bpw \in Nat \ {0} /\ m \in 0..bpw-1 /\ n \in 0..bpw-1 /\ BitSet!Bits = 0..bpw-1 /\ k \in Nat
  BY BitsAssumption DEF BitSet!Bits
<1>1. low = 0..n-m
  <2>1. low = {b - k : b \in {c \in 0..bpw-1 : c >= k}}
    BY <1>0 DEF BitSet!Shr
  <2>2. \A x \in 0..n-m : x + k \in {c \in 0..bpw-1 : c >= k} /\ x = (x + k) - k
    BY <1>0
  <2>3. \A b \in {c \in 0..bpw-1 : c >= k} : b - k \in 0..n-m
    BY <1>0
  <2> QED
    BY <2>1, <2>2, <2>3
<1> HIDE DEF low
<1>2. BitSet!Shl(low, m) = {b + m : b \in {c \in low : c + m < bpw}}
  BY DEF BitSet!Shl
<1>3. \A x \in m..n : x - m \in {c \in low : c + m < bpw} /\ x = (x - m) + m
  BY <1>0, <1>1
<1>4. \A b \in {c \in low : c + m < bpw} : b + m \in m..n
  BY <1>0, <1>1
<1>5. BitSet!bitMask(m, n) = BitSet!Shl(low, m)
  BY DEF BitSet!bitMask, low, k
<1> QED
  BY <1>2, <1>3, <1>4, <1>5

LEMMA RangeMaskIs ==
  ASSUME NEW m \in Nat, NEW n \in Nat, m <= n, NEW i \in Nat \ {0}
  PROVE  BitSet!RangeMask(i, m, n) = InWord(m..n, i)
<1> DEFINE l == BitSet!Word(m)  h == BitSet!Word(n)  p == BitSet!Bit(m)  q == BitSet!Bit(n)
<1>1. /\ l \in Nat \ {0} /\ p \in BitSet!Bits /\ m = (l - 1) * bpw + p
      /\ h \in Nat \ {0} /\ q \in BitSet!Bits /\ n = (h - 1) * bpw + q
  BY WordBit
<1>2. /\ bpw \in Nat \ {0} /\ BitSet!Bits = 0..bpw-1 /\ bpw - 1 \in BitSet!Bits /\ 0 \in BitSet!Bits
  BY BitsAssumption DEF BitSet!Bits
<1>3. BitSet!RangeMask(i, m, n) =
        IF i \notin l..h THEN {}
        ELSE IF l = h THEN BitSet!bitMask(p, q)
        ELSE IF i = l THEN BitSet!bitMask(p, bpw - 1)
        ELSE IF i = h THEN BitSet!bitMask(0, q)
        ELSE BitSet!Bits
  BY DEF BitSet!RangeMask
<1> HIDE DEF l, h, p, q
<1>4. l <= h /\ (l = h => p <= q)
  BY <1>1, Compare
<1>5. \A b \in BitSet!Bits : b \in InWord(m..n, i) <=> (l < i \/ (l = i /\ p <= b)) /\ (i < h \/ (i = h /\ b <= q))
  <2> SUFFICES ASSUME NEW b \in BitSet!Bits
               PROVE  b \in InWord(m..n, i) <=> (l < i \/ (l = i /\ p <= b)) /\ (i < h \/ (i = h /\ b <= q))
    OBVIOUS
  <2> DEFINE x == (i - 1) * bpw + b
  <2>1. /\ x \in Nat
        /\ (l - 1) * bpw + p <= x <=> l < i \/ (l = i /\ p <= b)
    BY <1>1, Compare
  <2>2. x <= (h - 1) * bpw + q <=> i < h \/ (i = h /\ b <= q)
    BY <1>1, Compare
  <2>3. b \in InWord(m..n, i) <=> x \in m..n
    BY DEF InWord
  <2> HIDE DEF x
  <2> QED
    BY <1>1, <2>1, <2>2, <2>3
<1>6. InWord(m..n, i) \subseteq BitSet!Bits
  BY DEF InWord
<1>7. CASE i \notin l..h
  <2>1. \A b \in BitSet!Bits : b \notin InWord(m..n, i)
    BY <1>1, <1>5, <1>7
  <2> QED
    BY <1>3, <1>6, <1>7, <2>1
<1>8. CASE i \in l..h /\ l = h
  <2>1. BitSet!RangeMask(i, m, n) = p..q
    BY <1>1, <1>3, <1>4, <1>8, MaskIs
  <2>2. i = l /\ i = h
    BY <1>1, <1>8
  <2>3. p..q \subseteq BitSet!Bits
    BY <1>1, <1>2
  <2>4. \A b \in BitSet!Bits : b \in InWord(m..n, i) <=> b \in p..q
    BY <1>1, <1>2, <1>5, <2>2
  <2> QED
    BY <1>6, <2>1, <2>3, <2>4
<1>9. CASE i \in l..h /\ l # h /\ i = l
  <2>1. BitSet!RangeMask(i, m, n) = p..bpw-1
    <3>1. p <= bpw - 1
      BY <1>1, <1>2
    <3>2. BitSet!bitMask(p, bpw - 1) = p..bpw-1
      BY <1>1, <1>2, <3>1, MaskIs
    <3> QED
      BY <1>3, <1>9, <3>2
  <2>3. p..bpw-1 \subseteq BitSet!Bits
    BY <1>1, <1>2
  <2>4. \A b \in BitSet!Bits : b \in InWord(m..n, i) <=> b \in p..bpw-1
    BY <1>1, <1>2, <1>4, <1>5, <1>9
  <2> QED
    BY <1>6, <2>1, <2>3, <2>4
<1>10. CASE i \in l..h /\ l # h /\ i # l /\ i = h
  <2>1. BitSet!RangeMask(i, m, n) = 0..q
    <3>1. 0 <= q
      BY <1>1, <1>2
    <3>2. BitSet!bitMask(0, q) = 0..q
      BY <1>1, <1>2, <3>1, MaskIs
    <3> QED
      BY <1>3, <1>10, <3>2
  <2>3. 0..q \subseteq BitSet!Bits
    BY <1>1, <1>2
  <2>4. \A b \in BitSet!Bits : b \in InWord(m..n, i) <=> b \in 0..q
    BY <1>1, <1>2, <1>4, <1>5, <1>10
  <2> QED
    BY <1>6, <2>1, <2>3, <2>4
<1>11. CASE i \in l..h /\ l # h /\ i # l /\ i # h
  <2>1. l < i /\ i < h
    BY <1>1, <1>11
  <2>2. \A b \in BitSet!Bits : b \in InWord(m..n, i)
    BY <1>5, <2>1
  <2> QED
    BY <1>3, <1>6, <1>11, <2>2
<1> QED
  BY <1>7, <1>8, <1>9, <1>10, <1>11

\* Numbers and their places.
LEMMA ByWords ==
  ASSUME NEW s \in SUBSET Nat, NEW n \in Nat
  PROVE  n \in s <=> BitSet!Bit(n) \in InWord(s, BitSet!Word(n))
BY WordBit DEF InWord

\* Numbers are the same if their words are.
LEMMA SameWords ==
  ASSUME NEW s \in SUBSET Nat, NEW t \in SUBSET Nat,
         \A i \in Nat \ {0} : InWord(s, i) \subseteq InWord(t, i)
  PROVE  s \subseteq t
<1> SUFFICES ASSUME NEW n \in s PROVE n \in t
  OBVIOUS
<1>1. BitSet!Word(n) \in Nat \ {0}
  BY WordBit
<1> QED
  BY <1>1, ByWords

\* A number has its bit in its word and none elsewhere.
LEMMA OneWord ==
  ASSUME NEW n \in Nat, NEW i \in Nat \ {0}
  PROVE  InWord({n}, i) = IF i = BitSet!Word(n) THEN {BitSet!Bit(n)} ELSE {}
<1>1. \A b \in BitSet!Bits : (i - 1) * bpw + b = n <=> i = BitSet!Word(n) /\ b = BitSet!Bit(n)
  BY WordBit, Address
<1>2. BitSet!Bit(n) \in BitSet!Bits
  BY WordBit
<1> QED
  BY <1>1, <1>2 DEF InWord

\* The words of some numbers, and zeroes behind them, stand for these numbers.
LEMMA WordsMake ==
  ASSUME NEW r, NEW ws \in Seq(SUBSET BitSet!Bits), HasWords(r, ws), NEW ns \in SUBSET Nat,
         \A i \in Nat \ {0} : InWord(ns, i) = IF i \in 1..Len(ws) THEN ws[i] ELSE {}
  PROVE  Stands(r, ns)
<1>1. \A i \in Nat \ {0} : At(r, i) = InWord(ns, i)
  <2> SUFFICES ASSUME NEW i \in Nat \ {0} PROVE At(r, i) = InWord(ns, i)
    OBVIOUS
  <2>1. r.len \in Nat /\ Len(ws) \in Nat /\ r.len <= Len(ws)
    BY DEF HasWords
  <2>2. CASE i \in 1..r.len
    <3>1. i \in 1..Len(ws) /\ r.mem[i] = ws[i]
      BY <2>1, <2>2 DEF HasWords
    <3> QED
      BY <2>2, <3>1 DEF At
  <2>3. CASE i \in r.len+1..Len(ws)
    <3>1. i \in 1..Len(ws) /\ i \notin 1..r.len /\ ws[i] = {}
      BY <2>1, <2>3 DEF HasWords
    <3> QED
      BY <3>1 DEF At
  <2>4. CASE i > Len(ws)
    <3>1. i \notin 1..Len(ws) /\ i \notin 1..r.len
      BY <2>1, <2>4
    <3> QED
      BY <3>1 DEF At
  <2> QED
    BY <2>1, <2>2, <2>3, <2>4
<1>2. Kept(r)
  BY DEF HasWords
<1> QED
  BY <1>1, <1>2 DEF Stands

\* The lesser and the greater of two numbers.
LEMMA TwoNumbers ==
  ASSUME NEW p \in Int, NEW q \in Int
  PROVE  /\ BitSet!Min({p, q}) = IF p <= q THEN p ELSE q
         /\ BitSet!Max({p, q}) = IF p <= q THEN q ELSE p
<1>1. {p, q} \in SUBSET Int /\ p \in {p, q} /\ q \in {p, q}
  OBVIOUS
<1>2. CASE p <= q
  <2>1. (\A y \in {p, q} : p <= y) /\ \A y \in {p, q} : y <= q
    BY <1>2
  <2>2. BitSet!Min({p, q}) = p
    BY <1>1, <2>1, MinOf
  <2>3. BitSet!Max({p, q}) = q
    BY <1>1, <2>1, MaxOf
  <2> QED
    BY <1>2, <2>2, <2>3
<1>3. CASE ~(p <= q)
  <2>1. (\A y \in {p, q} : q <= y) /\ \A y \in {p, q} : y <= p
    BY <1>3
  <2>2. BitSet!Min({p, q}) = q
    BY <1>1, <2>1, MinOf
  <2>3. BitSet!Max({p, q}) = p
    BY <1>1, <2>1, MaxOf
  <2> QED
    BY <1>3, <2>2, <2>3
<1> QED
  BY <1>2, <1>3

LEMMA KeptIsClean ==
  ASSUME NEW s, Kept(s)
  PROVE  Clean(s) /\ IsWords(s) /\ s.len \in Nat /\ s.len <= Len(s.mem)
BY DEF Kept, Clean, BitSet!Canonical, IsWords

\* What a set is that stands for some numbers.
LEMMA StandsIs ==
  ASSUME NEW s, NEW ns, Stands(s, ns)
  PROVE  /\ Clean(s) /\ IsWords(s) /\ s.len \in Nat /\ ns \in SUBSET Nat
         /\ BitSet!Data(s) \in Seq(SUBSET BitSet!Bits) /\ Len(BitSet!Data(s)) = s.len
         /\ \A i \in 1..s.len : BitSet!Data(s)[i] = InWord(ns, i)
         /\ \A i \in Nat \ {0} : i \notin 1..s.len => InWord(ns, i) = {}
         /\ s.len > 0 => InWord(ns, s.len) # {}
<1>1. Clean(s) /\ IsWords(s) /\ s.len \in Nat /\ ns \in SUBSET Nat
  BY KeptIsClean DEF Stands
<1>2. /\ BitSet!Data(s) \in Seq(SUBSET BitSet!Bits) /\ Len(BitSet!Data(s)) = s.len
      /\ \A i \in 1..s.len : BitSet!Data(s)[i] = At(s, i)
  BY <1>1, DataIs
<1>3. \A i \in Nat \ {0} : At(s, i) = InWord(ns, i)
  BY DEF Stands
<1>4. \A i \in 1..s.len : i \in Nat \ {0}
  BY <1>1
<1>5. \A i \in Nat \ {0} : i \notin 1..s.len => InWord(ns, i) = {}
  BY <1>3 DEF At
<1>6. s.len > 0 => InWord(ns, s.len) # {}
  <2>1. s.len > 0 => s.mem[s.len] # {}
    BY DEF Stands, Kept, BitSet!Canonical
  <2>2. s.len > 0 => s.len \in 1..s.len /\ s.len \in Nat \ {0}
    BY <1>1
  <2> QED
    BY <1>3, <2>1, <2>2 DEF At
<1> QED
  BY <1>1, <1>2, <1>3, <1>4, <1>5, <1>6

\* Intersections and differences, in place or not, into any set.
LEMMA AndStands ==
  ASSUME NEW t, Clean(t), NEW alias, NEW x, NEW y, NEW m, NEW n, Stands(x, m), Stands(y, n)
  PROVE  Stands(BitSet!SetAnd(t, alias, x, y), m \cap n)
<1> DEFINE p == BitSet!Data(x)  q == BitSet!Data(y)  k == BitSet!Min({x.len, y.len})
           ws == [i \in 1..k |-> p[i] \cap q[i]]
           s == BitSet!Significant(ws)
           r == BitSet!Replaced(t, alias, s, ws)
<1>1. k \in Nat /\ k <= x.len /\ k <= y.len /\ (k = x.len \/ k = y.len)
  <2>1. x.len \in Nat /\ y.len \in Nat
    BY StandsIs
  <2>2. k = IF x.len <= y.len THEN x.len ELSE y.len
    BY <2>1, TwoNumbers
  <2> HIDE DEF k
  <2> QED
    BY <2>1, <2>2
<1> HIDE DEF k
<1>2. x.len \in Nat /\ y.len \in Nat
  BY StandsIs
<1>3. \A i \in 1..k : ws[i] = InWord(m \cap n, i)
  <2> SUFFICES ASSUME NEW i \in 1..k PROVE p[i] \cap q[i] = InWord(m \cap n, i)
    OBVIOUS
  <2>1. i \in 1..x.len /\ i \in 1..y.len
    BY <1>1, <1>2
  <2>2. p[i] = InWord(m, i) /\ q[i] = InWord(n, i)
    BY <2>1, StandsIs
  <2> QED
    BY <2>2 DEF InWord
<1>4. ws \in Seq(SUBSET BitSet!Bits) /\ Len(ws) = k
  <2>1. \A i \in 1..k : ws[i] \in SUBSET BitSet!Bits
    BY <1>3 DEF InWord
  <2> QED
    BY <1>1, <2>1
<1> HIDE DEF ws
<1>5. HasWords(r, ws)
  BY <1>4, SignificantIs, ReplacedHas
<1>6. \A i \in Nat \ {0} : i \notin 1..k => InWord(m \cap n, i) = {}
  <2> SUFFICES ASSUME NEW i \in Nat \ {0}, i \notin 1..k PROVE InWord(m \cap n, i) = {}
    OBVIOUS
  <2>1. i \notin 1..x.len \/ i \notin 1..y.len
    BY <1>1
  <2>2. InWord(m, i) = {} \/ InWord(n, i) = {}
    BY <2>1, StandsIs
  <2> QED
    BY <2>2 DEF InWord
<1>7. m \cap n \in SUBSET Nat
  BY StandsIs
<1>8. Stands(r, m \cap n)
  BY <1>3, <1>4, <1>5, <1>6, <1>7, WordsMake
<1>9. BitSet!SetAnd(t, alias, x, y) = r
  BY Zenon DEF BitSet!SetAnd, ws, k
<1> QED
  BY <1>8, <1>9

LEMMA AndNotStands ==
  ASSUME NEW t, Clean(t), NEW alias, NEW x, NEW y, NEW m, NEW n, Stands(x, m), Stands(y, n)
  PROVE  Stands(BitSet!SetAndNot(t, alias, x, y), m \ n)
<1> DEFINE p == BitSet!Data(x)  q == BitSet!Data(y)
           ws == [i \in 1..x.len |-> IF i <= y.len THEN p[i] \ q[i] ELSE p[i]]
           s == IF x.len <= y.len THEN BitSet!Significant(ws) ELSE x.len
           r == BitSet!Replaced(t, alias, s, ws)
<1>2. x.len \in Nat /\ y.len \in Nat
  BY StandsIs
<1>3. \A i \in 1..x.len : ws[i] = InWord(m \ n, i)
  <2> SUFFICES ASSUME NEW i \in 1..x.len PROVE ws[i] = InWord(m \ n, i)
    OBVIOUS
  <2>1. p[i] = InWord(m, i) /\ i \in Nat \ {0}
    BY <1>2, StandsIs
  <2>2. IF i <= y.len THEN q[i] = InWord(n, i) ELSE InWord(n, i) = {}
    <3>1. IF i <= y.len THEN i \in 1..y.len ELSE i \notin 1..y.len
      BY <1>2
    <3> QED
      BY <2>1, <3>1, StandsIs
  <2> QED
    BY <2>1, <2>2 DEF InWord
<1>4. ws \in Seq(SUBSET BitSet!Bits) /\ Len(ws) = x.len
  <2>1. \A i \in 1..x.len : ws[i] \in SUBSET BitSet!Bits
    BY <1>3 DEF InWord
  <2> QED
    BY <1>2, <2>1
<1> HIDE DEF ws
<1>5. HasWords(r, ws)
  <2>1. CASE x.len <= y.len
    BY <1>4, <2>1, SignificantIs, ReplacedHas
  <2>2. CASE ~(x.len <= y.len)
    <3>1. x.len > 0 /\ x.len \in 1..x.len /\ x.len \in Nat \ {0} /\ x.len \notin 1..y.len
      BY <1>2, <2>2
    <3>2. InWord(m, x.len) # {} /\ InWord(n, x.len) = {}
      BY <3>1, StandsIs
    <3>3. ws[x.len] # {}
      BY <1>3, <3>1, <3>2 DEF InWord
    <3>4. x.len \in 0..Len(ws) /\ \A i \in x.len+1..Len(ws) : ws[i] = {}
      BY <1>2, <1>4
    <3>5. HasWords(BitSet!Replaced(t, alias, x.len, ws), ws)
      BY <1>4, <3>3, <3>4, ReplacedHas
    <3> QED
      BY <2>2, <3>5
  <2> QED
    BY <2>1, <2>2
<1>6. \A i \in Nat \ {0} : i \notin 1..x.len => InWord(m \ n, i) = {}
  <2>1. \A i \in Nat \ {0} : i \notin 1..x.len => InWord(m, i) = {}
    BY StandsIs
  <2> QED
    BY <2>1 DEF InWord
<1>7. m \ n \in SUBSET Nat
  BY StandsIs
<1>8. Stands(r, m \ n)
  BY <1>3, <1>4, <1>5, <1>6, <1>7, WordsMake
<1>9. BitSet!SetAndNot(t, alias, x, y) = r
  BY Zenon DEF BitSet!SetAndNot, ws
<1> QED
  BY <1>8, <1>9

-----------------------------------------------------------------------------
(* bitmask.Set: unions and symmetric differences.                          *)

\* The new set stands for nothing.
LEMMA EmptyStands == Stands(BitSet!Empty, {})
<1> DEFINE s == BitSet!Empty
<1>1. s = [mem |-> <<>>, len |-> 0]
  BY DEF BitSet!Empty
<1>2. s.mem = <<>> /\ s.len = 0 /\ s = [mem |-> s.mem, len |-> s.len]
  BY <1>1
<1> HIDE DEF s
<1>3. IsWords(s)
  BY <1>2 DEF IsWords
<1>4. Kept(s)
  BY <1>2, <1>3 DEF Kept, BitSet!Canonical
<1>5. \A i \in Nat \ {0} : At(s, i) = InWord({}, i)
  BY <1>2 DEF At, InWord
<1> QED
  BY <1>4, <1>5 DEF Stands, s

\* A longer set and words of a shorter one that are put into it.
Together(x, y, ws, ns) ==
  /\ x.len <= y.len /\ ws \in Seq(SUBSET BitSet!Bits) /\ Len(ws) = y.len /\ ns \in SUBSET Nat
  /\ \A i \in 1..y.len : ws[i] = InWord(ns, i)
  /\ \A i \in Nat \ {0} : i \notin 1..y.len => InWord(ns, i) = {}

\* The union of a set and a longer one ends where the longer one does.
LEMMA OrTogether ==
  ASSUME NEW x, NEW y, NEW m, NEW n, Stands(x, m), Stands(y, n), x.len <= y.len,
         NEW ws, ws = [i \in 1..y.len |-> IF i <= x.len THEN BitSet!Data(x)[i] \cup BitSet!Data(y)[i]
                                          ELSE BitSet!Data(y)[i]]
  PROVE  Together(x, y, ws, m \cup n) /\ (y.len > 0 => ws[y.len] # {})
<1> DEFINE o == m \cup n
<1>1. /\ x.len \in Nat /\ y.len \in Nat 
      /\ \A i \in 1..x.len : BitSet!Data(x)[i] = InWord(m, i)
      /\ \A i \in Nat \ {0} : i \notin 1..x.len => InWord(m, i) = {}
  BY StandsIs
<1>2. /\ \A i \in 1..y.len : BitSet!Data(y)[i] = InWord(n, i)
      /\ \A i \in Nat \ {0} : i \notin 1..y.len => InWord(n, i) = {}
      /\ y.len > 0 => InWord(n, y.len) # {}
  BY StandsIs
<1>3. \A i : InWord(o, i) = InWord(m, i) \cup InWord(n, i)
  BY DEF InWord
<1>8. o \in SUBSET Nat
  BY StandsIs
<1> HIDE DEF o
<1>4. \A i \in 1..y.len : ws[i] = InWord(o, i)
  <2> SUFFICES ASSUME NEW i \in 1..y.len PROVE ws[i] = InWord(o, i)
    OBVIOUS
  <2>1. i \in Nat \ {0} /\ (IF i <= x.len THEN i \in 1..x.len ELSE i \notin 1..x.len)
    BY <1>1
  <2>2. BitSet!Data(y)[i] = InWord(n, i)
    BY <1>2
  <2>3. CASE i <= x.len
    <3>1. BitSet!Data(x)[i] = InWord(m, i)
      BY <1>1, <2>1, <2>3
    <3> QED
      BY <1>3, <2>2, <2>3, <3>1
  <2>4. CASE ~(i <= x.len)
    <3>1. InWord(m, i) = {}
      BY <1>1, <2>1, <2>4
    <3> QED
      BY <1>3, <2>2, <2>4, <3>1
  <2> QED
    BY <2>3, <2>4
<1>5. ws \in Seq(SUBSET BitSet!Bits) /\ Len(ws) = y.len
  <2>1. \A i \in 1..y.len : ws[i] \in SUBSET BitSet!Bits
    BY <1>4 DEF InWord
  <2> QED
    BY <1>1, <2>1
<1>6. \A i \in Nat \ {0} : i \notin 1..y.len => InWord(o, i) = {}
  <2>1. \A i \in Nat \ {0} : i \notin 1..y.len => i \notin 1..x.len
    BY <1>1
  <2> QED
    BY <1>1, <1>2, <1>3, <2>1
<1>7. y.len > 0 => ws[y.len] # {}
  <2>1. y.len > 0 => y.len \in 1..y.len
    BY <1>1
  <2> QED
    BY <1>2, <1>3, <1>4, <2>1
<1>9. Together(x, y, ws, o)
  BY <1>1, <1>4, <1>5, <1>6, <1>8 DEF Together
<1> QED
  BY <1>7, <1>9 DEF o

\* What is put together stands for the numbers, up to its last word.
LEMMA TogetherStands ==
  ASSUME NEW t, Clean(t), NEW alias, NEW x, NEW y, NEW ws, NEW ns, Together(x, y, ws, ns),
         NEW n \in 0..y.len, n > 0 => ws[n] # {}, \A i \in n+1..y.len : ws[i] = {}
  PROVE  Stands(BitSet!Replaced(t, alias, n, ws), ns)
<1> DEFINE r == BitSet!Replaced(t, alias, n, ws)
<1>1. /\ ws \in Seq(SUBSET BitSet!Bits) /\ Len(ws) = y.len /\ ns \in SUBSET Nat
      /\ \A i \in 1..y.len : ws[i] = InWord(ns, i)
      /\ \A i \in Nat \ {0} : i \notin 1..y.len => InWord(ns, i) = {}
  BY DEF Together
<1>2. HasWords(r, ws)
  BY <1>1, ReplacedHas
<1> HIDE DEF r
<1>3. Stands(r, ns)
  BY <1>1, <1>2, WordsMake
<1> QED
  BY <1>3 DEF r

\* Unions, in place or not, into any set.
LEMMA OrStands ==
  ASSUME NEW t, Clean(t), NEW alias, NEW x, NEW y, NEW m, NEW n, Stands(x, m), Stands(y, n)
  PROVE  Stands(BitSet!SetOr(t, alias, x, y), m \cup n)
<1> DEFINE W(u, v) == [i \in 1..v.len |-> IF i <= u.len THEN BitSet!Data(u)[i] \cup BitSet!Data(v)[i]
                                          ELSE BitSet!Data(v)[i]]
           R(u, v) == BitSet!Replaced(t, alias, v.len, W(u, v))
<1>0. x.len \in Nat /\ y.len \in Nat
  BY StandsIs
<1>1. \A u, v, p, q : Stands(u, p) /\ Stands(v, q) /\ u.len <= v.len => Stands(R(u, v), p \cup q)
  <2> SUFFICES ASSUME NEW u, NEW v, NEW p, NEW q, Stands(u, p), Stands(v, q), u.len <= v.len
               PROVE  Stands(R(u, v), p \cup q)
    OBVIOUS
  <2> DEFINE ws == W(u, v)
  <2>1. Together(u, v, ws, p \cup q) /\ (v.len > 0 => ws[v.len] # {})
    BY OrTogether
  <2> HIDE DEF ws, W
  <2>2. v.len \in 0..v.len /\ v.len+1..v.len = {}
    <3>1. v.len \in Nat
      BY StandsIs
    <3> QED
      BY <3>1
  <2>3. Stands(BitSet!Replaced(t, alias, v.len, ws), p \cup q)
    BY <2>1, <2>2, TogetherStands
  <2> QED
    BY <2>3 DEF ws
<1>2. BitSet!SetOr(t, alias, x, y) = IF x.len > y.len THEN R(y, x) ELSE R(x, y)
  BY Zenon DEF BitSet!SetOr
<1> HIDE DEF R
<1>3. CASE x.len > y.len
  <2>1. Stands(R(y, x), n \cup m)
    BY <1>0, <1>1, <1>3
  <2>2. n \cup m = m \cup n
    OBVIOUS
  <2> QED
    BY <1>2, <1>3, <2>1, <2>2
<1>4. CASE ~(x.len > y.len)
  BY <1>0, <1>1, <1>2, <1>4
<1> QED
  BY <1>3, <1>4

\* Words may cancel out to the end only where the lengths are equal.
LEMMA XorTogether ==
  ASSUME NEW x, NEW y, NEW m, NEW n, Stands(x, m), Stands(y, n), x.len <= y.len,
         NEW ws, ws = [i \in 1..y.len |->
           IF i <= x.len THEN (BitSet!Data(x)[i] \ BitSet!Data(y)[i]) \cup (BitSet!Data(y)[i] \ BitSet!Data(x)[i])
           ELSE BitSet!Data(y)[i]]
  PROVE  /\ Together(x, y, ws, (m \ n) \cup (n \ m))
         /\ x.len < y.len => ws[y.len] # {}
<1> DEFINE o == (m \ n) \cup (n \ m)
<1>1. /\ x.len \in Nat /\ y.len \in Nat
      /\ \A i \in 1..x.len : BitSet!Data(x)[i] = InWord(m, i)
      /\ \A i \in Nat \ {0} : i \notin 1..x.len => InWord(m, i) = {}
  BY StandsIs
<1>2. /\ \A i \in 1..y.len : BitSet!Data(y)[i] = InWord(n, i)
      /\ \A i \in Nat \ {0} : i \notin 1..y.len => InWord(n, i) = {}
      /\ y.len > 0 => InWord(n, y.len) # {}
  BY StandsIs
<1>3. \A i : InWord(o, i) = (InWord(m, i) \ InWord(n, i)) \cup (InWord(n, i) \ InWord(m, i))
  BY DEF InWord
<1>8. o \in SUBSET Nat
  BY StandsIs
<1> HIDE DEF o
<1>4. \A i \in 1..y.len : ws[i] = InWord(o, i)
  <2> SUFFICES ASSUME NEW i \in 1..y.len PROVE ws[i] = InWord(o, i)
    OBVIOUS
  <2>1. i \in Nat \ {0} /\ (IF i <= x.len THEN i \in 1..x.len ELSE i \notin 1..x.len)
    BY <1>1
  <2>2. BitSet!Data(y)[i] = InWord(n, i)
    BY <1>2
  <2>3. CASE i <= x.len
    <3>1. BitSet!Data(x)[i] = InWord(m, i)
      BY <1>1, <2>1, <2>3
    <3> QED
      BY <1>3, <2>2, <2>3, <3>1
  <2>4. CASE ~(i <= x.len)
    <3>1. InWord(m, i) = {}
      BY <1>1, <2>1, <2>4
    <3> QED
      BY <1>3, <2>2, <2>4, <3>1
  <2> QED
    BY <2>3, <2>4
<1>5. ws \in Seq(SUBSET BitSet!Bits) /\ Len(ws) = y.len
  <2>1. \A i \in 1..y.len : ws[i] \in SUBSET BitSet!Bits
    BY <1>4 DEF InWord
  <2> QED
    BY <1>1, <2>1
<1>6. \A i \in Nat \ {0} : i \notin 1..y.len => InWord(o, i) = {}
  <2>1. \A i \in Nat \ {0} : i \notin 1..y.len => i \notin 1..x.len
    BY <1>1
  <2> QED
    BY <1>1, <1>2, <1>3, <2>1
<1>7. x.len < y.len => ws[y.len] # {}
  <2>1. x.len < y.len => y.len \in 1..y.len /\ y.len \in Nat \ {0} /\ y.len \notin 1..x.len /\ y.len > 0
    BY <1>1
  <2> QED
    BY <1>1, <1>2, <1>3, <1>4, <2>1
<1>9. Together(x, y, ws, o)
  BY <1>1, <1>4, <1>5, <1>6, <1>8 DEF Together
<1> QED
  BY <1>7, <1>9 DEF o

\* A result without words is the empty set.
LEMMA NothingStands ==
  ASSUME NEW t, Clean(t)
  PROVE  Stands(BitSet!realloc(t, 0), {})
<1> DEFINE r == BitSet!realloc(t, 0)
<1>1. Clean(r) /\ r.len = 0
  BY ReallocIs
<1> HIDE DEF r
<1>2. Kept(r)
  BY <1>1 DEF Kept, Clean, BitSet!Canonical
<1>3. \A i \in Nat \ {0} : At(r, i) = InWord({}, i)
  BY <1>1 DEF At, InWord
<1> QED
  BY <1>2, <1>3 DEF Stands, r

LEMMA NoWords ==
  ASSUME NEW ns \in SUBSET Nat, \A i \in Nat \ {0} : InWord(ns, i) = {}
  PROVE  ns = {}
<1>1. \A i \in Nat \ {0} : InWord(ns, i) \subseteq InWord({}, i)
  OBVIOUS
<1>2. ns \subseteq {}
  BY <1>1, SameWords
<1> QED
  BY <1>2

\* Symmetric differences, in place or not, into any set.
LEMMA XorStands ==
  ASSUME NEW t, Clean(t), NEW alias, NEW x, NEW y, NEW m, NEW n, Stands(x, m), Stands(y, n)
  PROVE  Stands(BitSet!SetXor(t, alias, x, y), (m \ n) \cup (n \ m))
<1> DEFINE W(u, v) == [i \in 1..v.len |->
             IF i <= u.len THEN (BitSet!Data(u)[i] \ BitSet!Data(v)[i]) \cup (BitSet!Data(v)[i] \ BitSet!Data(u)[i])
             ELSE BitSet!Data(v)[i]]
           N(u, v) == IF x.len = y.len THEN BitSet!Significant(W(u, v)) ELSE v.len
           R(u, v) == IF N(u, v) = 0 THEN BitSet!realloc(t, 0)
                      ELSE BitSet!Replaced(t, alias, N(u, v), W(u, v))
<1>0. x.len \in Nat /\ y.len \in Nat
  BY StandsIs
<1>1. \A u, v, p, q : Stands(u, p) /\ Stands(v, q) /\ u.len <= v.len /\ (u.len = v.len <=> x.len = y.len)
        => Stands(R(u, v), (p \ q) \cup (q \ p))
  <2> SUFFICES ASSUME NEW u, NEW v, NEW p, NEW q, Stands(u, p), Stands(v, q),
                      u.len <= v.len, u.len = v.len <=> x.len = y.len
               PROVE  Stands(R(u, v), (p \ q) \cup (q \ p))
    BY Zenon
  <2> DEFINE ws == W(u, v)  k == N(u, v)  ns == (p \ q) \cup (q \ p)
  <2>1. Together(u, v, ws, ns) /\ (u.len < v.len => ws[v.len] # {})
    BY XorTogether
  <2>0. u.len \in Nat /\ v.len \in Nat
    BY StandsIs
  <2>k. k = IF x.len = y.len THEN BitSet!Significant(ws) ELSE v.len
    OBVIOUS
  <2>r. R(u, v) = IF k = 0 THEN BitSet!realloc(t, 0) ELSE BitSet!Replaced(t, alias, k, ws)
    OBVIOUS
  <2> HIDE DEF ws, W, k, N, R, ns
  <2>2. /\ ws \in Seq(SUBSET BitSet!Bits) /\ Len(ws) = v.len /\ ns \in SUBSET Nat
        /\ \A i \in 1..v.len : ws[i] = InWord(ns, i)
        /\ \A i \in Nat \ {0} : i \notin 1..v.len => InWord(ns, i) = {}
    BY <2>1 DEF Together
  <2>3. k \in 0..v.len /\ (k > 0 => ws[k] # {}) /\ \A i \in k+1..v.len : ws[i] = {}
    <3>1. CASE x.len = y.len
      BY <2>2, <2>k, <3>1, SignificantIs
    <3>2. CASE x.len # y.len
      BY <2>0, <2>1, <2>k, <3>2
    <3> QED
      BY <3>1, <3>2
  <2>4. CASE k = 0
    <3>1. \A i \in Nat \ {0} : InWord(ns, i) = {}
      <4> SUFFICES ASSUME NEW i \in Nat \ {0}, i \in 1..v.len PROVE InWord(ns, i) = {}
        BY <2>2
      <4>1. i \in k+1..v.len
        BY <2>0, <2>4
      <4> QED
        BY <2>2, <2>3, <4>1
    <3>2. ns = {}
      BY <2>2, <3>1, NoWords
    <3> QED
      BY <2>4, <2>r, <3>2, NothingStands DEF ns
  <2>5. CASE k # 0
    <3>1. Stands(BitSet!Replaced(t, alias, k, ws), ns)
      BY <2>1, <2>3, TogetherStands
    <3> QED
      BY <2>5, <2>r, <3>1 DEF ns
  <2> QED
    BY <2>4, <2>5
<1>2. BitSet!SetXor(t, alias, x, y) = IF x.len > y.len THEN R(y, x) ELSE R(x, y)
  BY Zenon DEF BitSet!SetXor
<1> HIDE DEF R
<1>3. CASE x.len > y.len
  <2>1. Stands(R(y, x), (n \ m) \cup (m \ n))
    BY <1>0, <1>1, <1>3
  <2>2. (n \ m) \cup (m \ n) = (m \ n) \cup (n \ m)
    OBVIOUS
  <2> QED
    BY <1>2, <1>3, <2>1, <2>2
<1>4. CASE ~(x.len > y.len)
  BY <1>0, <1>1, <1>2, <1>4
<1> QED
  BY <1>3, <1>4

-----------------------------------------------------------------------------
(* bitmask.Set: numbers and ranges are added and deleted.                  *)

\* Words that change in place.
LEMMA ChangeIs ==
  ASSUME NEW t, Clean(t), NEW f \in Seq(SUBSET BitSet!Bits), Len(f) = Len(t.mem),
         \A i \in t.len+1..Len(f) : f[i] = {}
  PROVE  LET r == [t EXCEPT !.mem = f] IN Clean(r) /\ r.len = t.len /\ r.mem = f
<1> DEFINE r == [t EXCEPT !.mem = f]
<1>1. t = [mem |-> t.mem, len |-> t.len] /\ t.len \in 0..Len(t.mem)
  BY DEF Clean, IsWords
<1>2. r = [mem |-> f, len |-> t.len]
  BY <1>1, ExceptMem
<1>3. r = [mem |-> r.mem, len |-> r.len] /\ r.len = t.len /\ r.mem = f
  BY <1>2
<1> HIDE DEF r
<1>4. IsWords(r)
  BY <1>1, <1>3 DEF IsWords
<1>5. Clean(r)
  BY <1>3, <1>4 DEF Clean
<1> QED
  BY <1>3, <1>5 DEF r

\* Words that are those of some numbers.
Has(r, ns) ==
  /\ Clean(r) /\ ns \in SUBSET Nat
  /\ \A i \in 1..r.len : r.mem[i] = InWord(ns, i)
  /\ \A i \in Nat \ {0} : i \notin 1..r.len => InWord(ns, i) = {}

LEMMA HasAt ==
  ASSUME NEW r, NEW ns, Has(r, ns), NEW i \in Nat \ {0}
  PROVE  At(r, i) = InWord(ns, i)
BY DEF Has, At

LEMMA HasStands ==
  ASSUME NEW r, NEW ns, Has(r, ns), r.len > 0 => InWord(ns, r.len) # {}
  PROVE  Stands(r, ns)
<1>1. IsWords(r) /\ r.len \in Nat /\ \A i \in r.len+1..Len(r.mem) : r.mem[i] = {}
  BY DEF Has, Clean, IsWords
<1>2. r.len > 0 => r.mem[r.len] # {}
  <2>1. r.len > 0 => r.len \in 1..r.len
    BY <1>1
  <2> QED
    BY <2>1 DEF Has
<1>3. Kept(r)
  BY <1>1, <1>2 DEF Kept, BitSet!Canonical
<1>4. \A i \in Nat \ {0} : At(r, i) = InWord(ns, i)
  BY HasAt
<1>5. ns \in SUBSET Nat
  BY DEF Has
<1> QED
  BY <1>3, <1>4, <1>5, Zenon DEF Stands

LEMMA TrimStands ==
  ASSUME NEW r, NEW ns, Has(r, ns)
  PROVE  Stands(BitSet!trim(r), ns)
<1>1. Clean(r) /\ ns \in SUBSET Nat
  BY DEF Has
<1>2. Kept(BitSet!trim(r)) /\ \A i \in Nat : At(BitSet!trim(r), i) = At(r, i)
  BY <1>1, TrimIs
<1> QED
  BY <1>1, <1>2, HasAt DEF Stands

\* Copies, into any set.
LEMMA CopyStands ==
  ASSUME NEW t, Clean(t), NEW x, NEW ns, Stands(x, ns)
  PROVE  Stands(BitSet!SetTo(t, x), ns)
<1> DEFINE u == BitSet!realloc(t, x.len)  w == BitSet!Data(x)  r == BitSet!Write(u, w)
<1>1. /\ x.len \in Nat /\ ns \in SUBSET Nat
      /\ w \in Seq(SUBSET BitSet!Bits) /\ Len(w) = x.len
      /\ \A i \in 1..x.len : w[i] = InWord(ns, i)
      /\ \A i \in Nat \ {0} : i \notin 1..x.len => InWord(ns, i) = {}
      /\ x.len > 0 => InWord(ns, x.len) # {}
  BY StandsIs
<1>2. Clean(u) /\ u.len = x.len
  BY <1>1, ReallocIs
<1>3. BitSet!SetTo(t, x) = r
  BY DEF BitSet!SetTo
<1> HIDE DEF u, w
<1>4. Len(w) <= u.len
  BY <1>1, <1>2
<1>5. /\ Clean(r) /\ r.len = u.len
      /\ \A i \in 1..u.len : r.mem[i] = IF i <= Len(w) THEN w[i] ELSE u.mem[i]
  BY <1>1, <1>2, <1>4, WriteIs
<1> HIDE DEF r
<1>6. \A i \in 1..r.len : r.mem[i] = InWord(ns, i)
  BY <1>1, <1>2, <1>5
<1>7. Has(r, ns)
  BY <1>1, <1>2, <1>5, <1>6 DEF Has
<1> QED
  BY <1>1, <1>2, <1>3, <1>5, <1>7, HasStands

\* A set that is grown to k words where it is shorter.
Grown(s, k) == IF k > s.len THEN BitSet!resize(s, k) ELSE s

LEMMA GrownHas ==
  ASSUME NEW s, NEW ns, Stands(s, ns), NEW k \in Nat \ {0}
  PROVE  /\ Has(Grown(s, k), ns) /\ Grown(s, k).len \in Nat /\ k <= Grown(s, k).len
         /\ Grown(s, k).len # k => InWord(ns, Grown(s, k).len) # {}
<1>1. /\ Clean(s) /\ s.len \in Nat /\ ns \in SUBSET Nat
      /\ \A i \in Nat \ {0} : i \notin 1..s.len => InWord(ns, i) = {}
      /\ s.len > 0 => InWord(ns, s.len) # {}
  BY StandsIs
<1>2. \A i \in Nat \ {0} : At(s, i) = InWord(ns, i)
  BY DEF Stands
<1>3. CASE k > s.len
  <2> DEFINE t == BitSet!resize(s, k)
  <2>1. Clean(t) /\ t.len = k /\ \A i \in 1..k : t.mem[i] = At(s, i)
    BY <1>1, <1>3, ResizeIs
  <2>2. Grown(s, k) = t
    BY <1>3 DEF Grown
  <2> HIDE DEF t
  <2>3. \A i \in 1..t.len : t.mem[i] = InWord(ns, i)
    BY <1>2, <2>1
  <2>4. \A i \in Nat \ {0} : i \notin 1..t.len => InWord(ns, i) = {}
    BY <1>1, <1>3, <2>1
  <2>5. Has(t, ns)
    BY <1>1, <2>1, <2>3, <2>4 DEF Has
  <2> QED
    BY <2>1, <2>2, <2>5
<1>4. CASE ~(k > s.len)
  <2>1. Grown(s, k) = s
    BY <1>4 DEF Grown
  <2>2. \A i \in 1..s.len : s.mem[i] = InWord(ns, i)
    BY <1>1, <1>2 DEF At
  <2>3. Has(s, ns)
    BY <1>1, <2>2 DEF Has
  <2> QED
    BY <1>1, <1>4, <2>1, <2>3
<1> QED
  BY <1>3, <1>4

\* Words of more numbers are taken in.
LEMMA TakeIn ==
  ASSUME NEW s, NEW ns, Stands(s, ns), NEW k \in Nat \ {0}, NEW os \in SUBSET Nat,
         InWord(os, k) # {}, \A i \in Nat \ {0} : i > k => InWord(os, i) = {},
         NEW f \in Seq(SUBSET BitSet!Bits), Len(f) = Len(Grown(s, k).mem),
         \A i \in 1..Len(f) : f[i] = Grown(s, k).mem[i] \cup InWord(os, i)
  PROVE  Stands([Grown(s, k) EXCEPT !.mem = f], ns \cup os)
<1> DEFINE t == Grown(s, k)
           r == [t EXCEPT !.mem = f]
           all == ns \cup os
<1>1. /\ Has(t, ns) /\ t.len \in Nat /\ k <= t.len /\ (t.len # k => InWord(ns, t.len) # {})
  BY GrownHas
<1>2. Len(f) = Len(t.mem) /\ \A i \in 1..Len(f) : f[i] = t.mem[i] \cup InWord(os, i)
  OBVIOUS
<1>3. \A i : InWord(all, i) = InWord(ns, i) \cup InWord(os, i)
  BY DEF InWord
<1>4. all \in SUBSET Nat
  BY <1>1 DEF Has
<1> HIDE DEF t, all
<1>5. /\ Clean(t) /\ t.len <= Len(t.mem)
      /\ \A i \in t.len+1..Len(t.mem) : t.mem[i] = {}
      /\ \A i \in 1..t.len : t.mem[i] = InWord(ns, i)
      /\ \A i \in Nat \ {0} : i \notin 1..t.len => InWord(ns, i) = {}
  BY <1>1 DEF Has, Clean, IsWords
<1>6. \A i \in t.len+1..Len(f) : f[i] = {}
  <2> SUFFICES ASSUME NEW i \in t.len+1..Len(f) PROVE f[i] = {}
    OBVIOUS
  <2>1. i \in 1..Len(f) /\ i > k /\ i \in Nat \ {0}
    BY <1>1
  <2>2. t.mem[i] = {}
    BY <1>2, <1>5
  <2> QED
    BY <1>2, <2>1, <2>2
<1>7. Clean(r) /\ r.len = t.len /\ r.mem = f
  BY <1>2, <1>5, <1>6, ChangeIs
<1>r. r = [Grown(s, k) EXCEPT !.mem = f]
  BY DEF t
<1> HIDE DEF r
<1>8. \A i \in 1..r.len : r.mem[i] = InWord(all, i)
  <2> SUFFICES ASSUME NEW i \in 1..t.len PROVE f[i] = InWord(all, i)
    BY <1>7
  <2>1. i \in 1..Len(f)
    BY <1>1, <1>2, <1>5
  <2>2. f[i] = t.mem[i] \cup InWord(os, i)
    BY <1>2, <2>1
  <2>3. t.mem[i] = InWord(ns, i)
    BY <1>5
  <2> QED
    BY <1>3, <2>2, <2>3
<1>9. \A i \in Nat \ {0} : i \notin 1..r.len => InWord(all, i) = {}
  <2> SUFFICES ASSUME NEW i \in Nat \ {0}, i \notin 1..t.len PROVE InWord(all, i) = {}
    BY <1>7
  <2>1. i > k
    BY <1>1
  <2> QED
    BY <1>3, <1>5, <2>1
<1>10. Has(r, all)
  BY <1>4, <1>7, <1>8, <1>9 DEF Has
<1>11. InWord(all, r.len) # {}
  BY <1>1, <1>3, <1>7
<1>12. Stands(r, all)
  BY <1>10, <1>11, HasStands
<1> QED
  BY <1>12, <1>r DEF all

\* A number is added.
LEMMA AddStands ==
  ASSUME NEW s, NEW ns, Stands(s, ns), NEW n \in Nat
  PROVE  Stands(BitSet!AddTo(s, n), ns \cup {n})
<1> DEFINE k == BitSet!Word(n)  b == BitSet!Bit(n)  t == Grown(s, k)
           f == [t.mem EXCEPT ![k] = @ \cup {b}]
<1>1. k \in Nat \ {0} /\ b \in BitSet!Bits
  BY WordBit
<1>2. \A i \in Nat \ {0} : InWord({n}, i) = IF i = k THEN {b} ELSE {}
  BY OneWord
<1>3. BitSet!AddTo(s, n) = [t EXCEPT !.mem[k] = @ \cup {b}]
  BY Zenon DEF BitSet!AddTo, Grown
<1>t. t = Grown(s, k)
  OBVIOUS
<1> HIDE DEF k, b
<1>4. Clean(t) /\ t.len \in Nat /\ k <= t.len
  BY <1>1, GrownHas DEF Has
<1> HIDE DEF t
<1>5. t = [mem |-> t.mem, len |-> t.len] /\ t.mem \in Seq(SUBSET BitSet!Bits) /\ k \in 1..Len(t.mem)
  BY <1>1, <1>4 DEF Clean, IsWords
<1>6. BitSet!AddTo(s, n) = [t EXCEPT !.mem = f]
  BY <1>3, <1>5
<1>7. f \in Seq(SUBSET BitSet!Bits) /\ Len(f) = Len(t.mem)
  BY <1>1, <1>5
<1>8. \A i \in 1..Len(f) : f[i] = t.mem[i] \cup InWord({n}, i)
  <2> SUFFICES ASSUME NEW i \in 1..Len(f) PROVE f[i] = t.mem[i] \cup InWord({n}, i)
    OBVIOUS
  <2>1. i \in Nat \ {0} /\ i \in DOMAIN t.mem
    BY <1>5, <1>7
  <2>2. CASE i = k
    BY <1>2, <2>1, <2>2
  <2>3. CASE i # k
    BY <1>2, <2>1, <2>3
  <2> QED
    BY <2>2, <2>3
<1>9. InWord({n}, k) # {} /\ \A i \in Nat \ {0} : i > k => InWord({n}, i) = {}
  BY <1>1, <1>2
<1> HIDE DEF f
<1>10. {n} \in SUBSET Nat
  OBVIOUS
<1>11. Stands([t EXCEPT !.mem = f], ns \cup {n})
  BY <1>1, <1>t, <1>7, <1>8, <1>9, <1>10, TakeIn
<1> QED
  BY <1>6, <1>11

\* Words of other numbers are taken out.
LEMMA TakeOut ==
  ASSUME NEW s, NEW ns, Stands(s, ns), NEW os,
         NEW f \in Seq(SUBSET BitSet!Bits), Len(f) = Len(s.mem),
         \A i \in 1..s.len : f[i] = InWord(ns, i) \ InWord(os, i),
         \A i \in s.len+1..Len(f) : f[i] = {}
  PROVE  Stands(BitSet!trim([s EXCEPT !.mem = f]), ns \ os)
<1> DEFINE r == [s EXCEPT !.mem = f]
           left == ns \ os
<1>1. Clean(s) /\ s.len \in Nat /\ left \in SUBSET Nat
      /\ \A i \in Nat \ {0} : i \notin 1..s.len => InWord(ns, i) = {}
  BY StandsIs
<1>2. \A i : InWord(left, i) = InWord(ns, i) \ InWord(os, i)
  BY DEF InWord
<1>3. Clean(r) /\ r.len = s.len /\ r.mem = f
  BY <1>1, ChangeIs
<1> HIDE DEF r, left
<1>4. \A i \in 1..r.len : r.mem[i] = InWord(left, i)
  BY <1>2, <1>3
<1>5. \A i \in Nat \ {0} : i \notin 1..r.len => InWord(left, i) = {}
  BY <1>1, <1>2, <1>3
<1>6. Has(r, left)
  BY <1>1, <1>3, <1>4, <1>5 DEF Has
<1>7. Stands(BitSet!trim(r), left)
  BY <1>6, TrimStands
<1> QED
  BY <1>7 DEF r, left

\* A number is deleted.
LEMMA DeleteStands ==
  ASSUME NEW s, NEW ns, Stands(s, ns), NEW n \in Nat
  PROVE  Stands(BitSet!DeleteFrom(s, n), ns \ {n})
<1> DEFINE k == BitSet!Word(n)  b == BitSet!Bit(n)
           f == [s.mem EXCEPT ![k] = @ \ {b}]
<1>1. k \in Nat \ {0} /\ b \in BitSet!Bits
  BY WordBit
<1>2. \A i \in Nat \ {0} : InWord({n}, i) = IF i = k THEN {b} ELSE {}
  BY OneWord
<1>3. BitSet!DeleteFrom(s, n) = IF k > s.len THEN s ELSE BitSet!trim([s EXCEPT !.mem[k] = @ \ {b}])
  BY Zenon DEF BitSet!DeleteFrom
<1>4. n \in ns <=> b \in InWord(ns, k)
  BY StandsIs, ByWords
<1> HIDE DEF k, b
<1>5. /\ s = [mem |-> s.mem, len |-> s.len] /\ s.mem \in Seq(SUBSET BitSet!Bits) /\ s.len \in 0..Len(s.mem)
      /\ \A i \in s.len+1..Len(s.mem) : s.mem[i] = {}
  BY StandsIs DEF Clean, IsWords
<1>6. /\ \A i \in Nat \ {0} : i \notin 1..s.len => InWord(ns, i) = {}
      /\ \A i \in 1..s.len : s.mem[i] = InWord(ns, i)
  <2>1. \A i \in 1..s.len : i \in Nat \ {0} /\ At(s, i) = s.mem[i]
    BY <1>5 DEF At
  <2> QED
    BY <2>1, StandsIs DEF Stands
<1>7. CASE k > s.len
  <2>1. k \notin 1..s.len
    BY <1>1, <1>5, <1>7
  <2>2. n \notin ns
    BY <1>1, <1>4, <1>6, <2>1
  <2>3. ns \ {n} = ns
    BY <2>2
  <2> QED
    BY <1>3, <1>7, <2>3
<1>8. CASE ~(k > s.len)
  <2>1. k \in 1..s.len /\ k \in 1..Len(s.mem)
    BY <1>1, <1>5, <1>8
  <2>2. [s EXCEPT !.mem[k] = @ \ {b}] = [s EXCEPT !.mem = f]
    BY <1>5, <2>1
  <2>3. f \in Seq(SUBSET BitSet!Bits) /\ Len(f) = Len(s.mem)
    BY <1>1, <1>5, <2>1
  <2>4. \A i \in 1..Len(s.mem) : f[i] = IF i = k THEN s.mem[i] \ {b} ELSE s.mem[i]
    <3>1. DOMAIN s.mem = 1..Len(s.mem)
      BY <1>5
    <3> QED
      BY <3>1, Zenon
  <2> HIDE DEF f
  <2>5. \A i \in 1..s.len : f[i] = InWord(ns, i) \ InWord({n}, i)
    <3> SUFFICES ASSUME NEW i \in 1..s.len PROVE f[i] = InWord(ns, i) \ InWord({n}, i)
      OBVIOUS
    <3>1. i \in 1..Len(s.mem) /\ i \in Nat \ {0}
      BY <1>5
    <3>2. s.mem[i] = InWord(ns, i) /\ InWord({n}, i) = IF i = k THEN {b} ELSE {}
      BY <1>2, <1>6, <3>1
    <3>3. f[i] = IF i = k THEN s.mem[i] \ {b} ELSE s.mem[i]
      BY <2>4, <3>1
    <3> QED
      BY <3>2, <3>3
  <2>6. \A i \in s.len+1..Len(f) : f[i] = {}
    <3> SUFFICES ASSUME NEW i \in s.len+1..Len(s.mem) PROVE f[i] = {}
      BY <2>3
    <3>1. i \in 1..Len(s.mem) /\ i # k
      BY <1>5, <2>1
    <3> QED
      BY <1>5, <2>4, <3>1
  <2>7. Stands(BitSet!trim([s EXCEPT !.mem = f]), ns \ {n})
    BY <2>3, <2>5, <2>6, TakeOut
  <2> QED
    BY <1>3, <1>8, <2>2, <2>7
<1> QED
  BY <1>7, <1>8

\* A later number is in a later word or in the same.
LEMMA WordsRise ==
  ASSUME NEW m \in Nat, NEW n \in Nat, m <= n
  PROVE  BitSet!Word(m) <= BitSet!Word(n)
<1>1. /\ BitSet!Word(m) \in Nat \ {0} /\ BitSet!Bit(m) \in BitSet!Bits
      /\ m = (BitSet!Word(m) - 1) * bpw + BitSet!Bit(m)
  BY WordBit
<1>2. /\ BitSet!Word(n) \in Nat \ {0} /\ BitSet!Bit(n) \in BitSet!Bits
      /\ n = (BitSet!Word(n) - 1) * bpw + BitSet!Bit(n)
  BY WordBit
<1>3. BitSet!Word(m) < BitSet!Word(n) \/ BitSet!Word(m) = BitSet!Word(n)
  BY <1>1, <1>2, Compare
<1> QED
  BY <1>1, <1>2, <1>3

\* A range has a bit in its last word and none behind it.
LEMMA RangeEnds ==
  ASSUME NEW m \in Nat, NEW n \in Nat, m <= n
  PROVE  /\ InWord(m..n, BitSet!Word(n)) # {}
         /\ \A i \in Nat \ {0} : i > BitSet!Word(n) => InWord(m..n, i) = {}
<1>1. /\ BitSet!Word(n) \in Nat \ {0} /\ BitSet!Bit(n) \in BitSet!Bits
      /\ n = (BitSet!Word(n) - 1) * bpw + BitSet!Bit(n)
  BY WordBit
<1>2. BitSet!Bit(n) \in InWord(m..n, BitSet!Word(n))
  BY <1>1 DEF InWord
<1>3. ASSUME NEW i \in Nat \ {0}, i > BitSet!Word(n), NEW b \in InWord(m..n, i) PROVE FALSE
  <2>1. b \in BitSet!Bits /\ (i - 1) * bpw + b <= n
    BY DEF InWord
  <2>2. i < BitSet!Word(n) \/ i = BitSet!Word(n)
    BY <1>1, <2>1, Compare
  <2> QED
    BY <1>1, <1>3, <2>2
<1> QED
  BY <1>2, <1>3

\* A range begins at 0 or later.
LEMMA FromZero ==
  ASSUME NEW m \in Int
  PROVE  BitSet!Max({0, m}) = IF 0 <= m THEN m ELSE 0
<1>0. {0, m} \in SUBSET Int /\ 0 \in {0, m} /\ m \in {0, m}
  OBVIOUS
<1>1. CASE 0 <= m
  <2>1. \A y \in {0, m} : y <= m
    BY <1>1
  <2>2. BitSet!Max({0, m}) = m
    BY <1>0, <2>1, MaxOf
  <2> QED
    BY <1>1, <2>2
<1>2. CASE ~(0 <= m)
  <2>1. \A y \in {0, m} : y <= 0
    BY <1>2
  <2>2. BitSet!Max({0, m}) = 0
    BY <1>0, <2>1, MaxOf
  <2> QED
    BY <1>2, <2>2
<1> QED
  BY <1>1, <1>2

LEMMA FromIs ==
  ASSUME NEW m \in Int, NEW n \in Int, ~(n < 1 \/ m >= n)
  PROVE  LET from == BitSet!Max({0, m})
         IN from \in Nat /\ n - 1 \in Nat /\ from <= n - 1 /\ \A x \in Nat : x >= from <=> x >= m
<1> DEFINE from == BitSet!Max({0, m})
<1>1. from = IF 0 <= m THEN m ELSE 0
  BY FromZero
<1> HIDE DEF from
<1>2. from \in Nat /\ n - 1 \in Nat /\ from <= n - 1 /\ \A x \in Nat : x >= from <=> x >= m
  BY <1>1
<1> QED
  BY <1>2 DEF from

\* Some ranges are empty.
LEMMA NoRange ==
  ASSUME NEW m \in Int, NEW n \in Int, n < 1 \/ m >= n
  PROVE  BitSet!Max({0, m})..(n - 1) = {}
<1>1. BitSet!Max({0, m}) = IF 0 <= m THEN m ELSE 0
  BY FromZero
<1> QED
  BY <1>1

\* A range is added.
LEMMA AddRangeStands ==
  ASSUME NEW s, NEW ns, Stands(s, ns), NEW m \in Int, NEW n \in Int
  PROVE  Stands(BitSet!AddRangeTo(s, m, n), ns \cup (BitSet!Max({0, m})..n-1))
<1> DEFINE from == BitSet!Max({0, m})
           k == BitSet!Word(n - 1)
           t == Grown(s, k)
           f == [i \in DOMAIN t.mem |-> t.mem[i] \cup BitSet!RangeMask(i, from, n - 1)]
           os == from..n-1
<1>1. CASE n < 1 \/ m >= n
  <2>1. BitSet!AddRangeTo(s, m, n) = s
    BY <1>1, Zenon DEF BitSet!AddRangeTo
  <2>2. ns \cup os = ns
    BY <1>1, NoRange
  <2> QED
    BY <2>1, <2>2
<1>2. CASE ~(n < 1 \/ m >= n)
  <2>1. from \in Nat /\ n - 1 \in Nat /\ from <= n - 1
    BY <1>2, FromIs
  <2>2. k \in Nat \ {0} /\ InWord(os, k) # {} /\ \A i \in Nat \ {0} : i > k => InWord(os, i) = {}
    BY <2>1, WordBit, RangeEnds
  <2>3. BitSet!AddRangeTo(s, m, n) = [t EXCEPT !.mem = f]
    BY <1>2, Zenon DEF BitSet!AddRangeTo, Grown
  <2>4. \A i \in Nat \ {0} : BitSet!RangeMask(i, from, n - 1) = InWord(os, i)
    BY <2>1, RangeMaskIs
  <2>t. t = Grown(s, k)
    OBVIOUS
  <2>5. os \in SUBSET Nat
    BY <2>1
  <2> HIDE DEF from, k, os
  <2>6. Clean(t)
    BY <2>2, GrownHas DEF Has
  <2> HIDE DEF t
  <2>7. t.mem \in Seq(SUBSET BitSet!Bits)
    BY <2>6 DEF Clean, IsWords
  <2>8. \A i : InWord(os, i) \in SUBSET BitSet!Bits
    BY DEF InWord
  <2>9. DOMAIN t.mem = 1..Len(t.mem) /\ Len(t.mem) \in Nat /\ \A i \in 1..Len(t.mem) : t.mem[i] \in SUBSET BitSet!Bits
    BY <2>7
  <2>10. \A i \in 1..Len(t.mem) : f[i] = t.mem[i] \cup InWord(os, i)
    <3>1. \A i \in 1..Len(t.mem) : i \in Nat \ {0}
      OBVIOUS
    <3> QED
      BY <2>4, <2>9, <3>1
  <2>11. f \in Seq(SUBSET BitSet!Bits) /\ Len(f) = Len(t.mem)
    <3>1. f = [i \in 1..Len(t.mem) |-> f[i]]
      BY <2>9
    <3>2. \A i \in 1..Len(t.mem) : f[i] \in SUBSET BitSet!Bits
      BY <2>8, <2>9, <2>10
    <3> HIDE DEF f
    <3> QED
      BY <2>9, <3>1, <3>2
  <2> HIDE DEF f
  <2>12. Stands([t EXCEPT !.mem = f], ns \cup os)
    BY <2>2, <2>5, <2>10, <2>11, <2>t, TakeIn
  <2> QED
    BY <2>3, <2>12 DEF os, from
<1> QED
  BY <1>1, <1>2

\* How many numbers l words hold.
Full(l) == l * bpw

\* A range that is cut to the words of a set has the same numbers in them.
CutTo(l, m, n, from, upTo) ==
  /\ from \in Nat /\ upTo \in Nat /\ from <= upTo
  /\ \A i \in 1..l : InWord(from..upTo, i) = InWord(m..n-1, i)

LEMMA CutRange ==
  ASSUME NEW l \in Nat, NEW m \in Int, NEW n \in Int, ~(n < 1 \/ m >= n),
         NEW from, from = BitSet!Max({0, m}), ~(BitSet!Word(from) > l),
         NEW upTo, upTo = IF l < BitSet!Word(n - 1) THEN Full(l) - 1 ELSE n - 1
  PROVE  CutTo(l, m, n, from, upTo)
<1>1. from \in Nat /\ n - 1 \in Nat /\ from <= n - 1 /\ \A x \in Nat : x >= from <=> x >= m
  BY FromIs
<1>2. /\ BitSet!Word(from) \in 1..l /\ BitSet!Bit(from) \in 0..bpw-1 /\ bpw \in Nat \ {0}
      /\ from = (BitSet!Word(from) - 1) * bpw + BitSet!Bit(from)
  <2>1. /\ BitSet!Word(from) \in Nat \ {0} /\ BitSet!Bit(from) \in BitSet!Bits
        /\ from = (BitSet!Word(from) - 1) * bpw + BitSet!Bit(from)
    BY <1>1, WordBit
  <2> QED
    BY <2>1, BitsAssumption DEF BitSet!Bits
<1>3. \A i \in 1..l, b \in 0..bpw-1 : (i - 1) * bpw + b \in Nat /\ (i - 1) * bpw + b <= Full(l) - 1
  <2> SUFFICES ASSUME NEW i \in 1..l, NEW b \in 0..bpw-1
               PROVE  (i - 1) * bpw + b \in Nat /\ (i - 1) * bpw + b <= Full(l) - 1
    OBVIOUS
  <2>1. i - 1 \in Nat /\ i - 1 < l
    OBVIOUS
  <2>2. (i - 1) * bpw \in Nat /\ Full(l) \in Nat /\ (i - 1) * bpw + bpw <= Full(l)
    BY <2>1, Products DEF Full
  <2>3. \A y, z \in Nat : y + bpw <= z => y + b \in Nat /\ y + b <= z - 1
    BY <1>2
  <2> QED
    BY <2>2, <2>3
<1>4. Full(l) \in Nat
  BY <1>2 DEF Full
<1>5. from <= Full(l) - 1
  BY <1>2, <1>3
<1>6. upTo \in Nat /\ from <= upTo
  BY <1>1, <1>4, <1>5
<1>7. CASE l < BitSet!Word(n - 1)
  <2>1. \A i \in 1..l, b \in 0..bpw-1 : (i - 1) * bpw + b <= n - 1
    <3> SUFFICES ASSUME NEW i \in 1..l, NEW b \in 0..bpw-1 PROVE (i - 1) * bpw + b <= n - 1
      OBVIOUS
    <3>1. /\ BitSet!Word(n - 1) \in Nat \ {0} /\ BitSet!Bit(n - 1) \in BitSet!Bits
          /\ n - 1 = (BitSet!Word(n - 1) - 1) * bpw + BitSet!Bit(n - 1)
      BY <1>1, WordBit
    <3>2. i < BitSet!Word(n - 1) /\ i \in Nat \ {0} /\ b \in BitSet!Bits
      BY <1>7, <3>1 DEF BitSet!Bits
    <3> QED
      BY <3>1, <3>2, Compare
  <2>2. \A i \in 1..l, b \in 0..bpw-1 : (i - 1) * bpw + b \in from..upTo <=> (i - 1) * bpw + b \in m..n-1
    <3> SUFFICES ASSUME NEW i \in 1..l, NEW b \in 0..bpw-1
                 PROVE  (i - 1) * bpw + b \in from..upTo <=> (i - 1) * bpw + b \in m..n-1
      OBVIOUS
    <3> DEFINE x == (i - 1) * bpw + b
    <3>1. x \in Nat /\ x <= Full(l) - 1 /\ x <= n - 1
      BY <1>3, <2>1
    <3> HIDE DEF x
    <3>2. x \in from..upTo <=> x \in m..n-1
      <4>1. upTo = Full(l) - 1
        BY <1>7
      <4>2. x >= from <=> x >= m
        BY <1>1, <3>1
      <4>3. x <= upTo /\ x <= n - 1
        BY <3>1, <4>1
      <4> QED
        BY <1>1, <1>6, <3>1, <4>2, <4>3
    <3> QED
      BY <3>2 DEF x
  <2> QED
    BY <1>1, <1>6, <2>2 DEF InWord, BitSet!Bits, CutTo
<1>8. CASE ~(l < BitSet!Word(n - 1))
  <2>1. upTo = n - 1
    BY <1>8
  <2>2. \A i \in 1..l, b \in 0..bpw-1 : (i - 1) * bpw + b \in from..upTo <=> (i - 1) * bpw + b \in m..n-1
    <3> SUFFICES ASSUME NEW i \in 1..l, NEW b \in 0..bpw-1
                 PROVE  (i - 1) * bpw + b \in from..upTo <=> (i - 1) * bpw + b \in m..n-1
      OBVIOUS
    <3> DEFINE x == (i - 1) * bpw + b
    <3>1. x \in Nat
      BY <1>3
    <3> HIDE DEF x
    <3>2. x \in from..upTo <=> x \in m..n-1
      <4>1. x >= from <=> x >= m
        BY <1>1, <3>1
      <4> QED
        BY <1>1, <2>1, <3>1, <4>1
    <3> QED
      BY <3>2 DEF x
  <2> QED
    BY <1>1, <1>6, <2>2 DEF InWord, BitSet!Bits, CutTo
<1> QED
  BY <1>7, <1>8

\* A range is deleted, also one that overshoots the set.
LEMMA DeleteRangeStands ==
  ASSUME NEW s, NEW ns, Stands(s, ns), NEW m \in Int, NEW n \in Int
  PROVE  Stands(BitSet!DeleteRangeFrom(s, m, n), ns \ (m..n-1))
<1> DEFINE from == BitSet!Max({0, m})
           upTo == IF s.len < BitSet!Word(n - 1) THEN s.len * bpw - 1 ELSE n - 1
           f == [i \in DOMAIN s.mem |-> s.mem[i] \ BitSet!RangeMask(i, from, upTo)]
<1>0. /\ s.len \in Nat /\ ns \in SUBSET Nat
      /\ s.mem \in Seq(SUBSET BitSet!Bits) /\ s.len \in 0..Len(s.mem)
      /\ \A i \in s.len+1..Len(s.mem) : s.mem[i] = {}
  BY StandsIs DEF Clean, IsWords
<1>s. \A i \in 1..s.len : s.mem[i] = InWord(ns, i)
  <2>1. \A i \in 1..s.len : i \in Nat \ {0} /\ At(s, i) = s.mem[i]
    BY <1>0 DEF At
  <2> QED
    BY <2>1 DEF Stands
<1>1. CASE n < 1 \/ m >= n
  <2>1. BitSet!DeleteRangeFrom(s, m, n) = s
    BY <1>1, Zenon DEF BitSet!DeleteRangeFrom
  <2>2. \A x \in Nat : x \notin m..n-1
    BY <1>1
  <2>3. ns \ (m..n-1) = ns
    BY <1>0, <2>2
  <2> QED
    BY <2>1, <2>3
<1>2. CASE ~(n < 1 \/ m >= n) /\ BitSet!Word(from) > s.len
  <2>1. BitSet!DeleteRangeFrom(s, m, n) = s
    BY <1>2, Zenon DEF BitSet!DeleteRangeFrom
  <2>2. from \in Nat /\ \A x \in Nat : x >= m => x >= from
    <3>1. from = IF 0 <= m THEN m ELSE 0
      BY FromZero
    <3> HIDE DEF from
    <3> QED
      BY <3>1
  <2> HIDE DEF from
  <2>3. ASSUME NEW x \in ns, x \in m..n-1 PROVE FALSE
    <3>1. x \in Nat /\ from <= x
      BY <1>0, <2>2, <2>3
    <3>2. BitSet!Word(x) \in Nat \ {0} /\ BitSet!Word(from) <= BitSet!Word(x) /\ BitSet!Word(from) \in Nat
      BY <2>2, <3>1, WordBit, WordsRise
    <3>3. BitSet!Word(x) \notin 1..s.len
      BY <1>0, <1>2, <3>2
    <3>4. InWord(ns, BitSet!Word(x)) = {}
      BY <3>2, <3>3, StandsIs
    <3> QED
      BY <1>0, <3>1, <3>4, ByWords
  <2>4. ns \ (m..n-1) = ns
    BY <2>3
  <2> QED
    BY <2>1, <2>4
<1>3. CASE ~(n < 1 \/ m >= n) /\ ~(BitSet!Word(from) > s.len)
  <2>1. BitSet!DeleteRangeFrom(s, m, n) = BitSet!trim([s EXCEPT !.mem = f])
    BY <1>3, Zenon DEF BitSet!DeleteRangeFrom
  <2>2. /\ from \in Nat /\ upTo \in Nat /\ from <= upTo
        /\ \A i \in 1..s.len : InWord(from..upTo, i) = InWord(m..n-1, i)
    <3>1. from = BitSet!Max({0, m}) /\ upTo = IF s.len < BitSet!Word(n - 1) THEN Full(s.len) - 1 ELSE n - 1
      BY DEF Full
    <3> HIDE DEF from, upTo
    <3>2. CutTo(s.len, m, n, from, upTo)
      BY <1>0, <1>3, <3>1, CutRange
    <3> QED
      BY <3>2 DEF CutTo
  <2> HIDE DEF from, upTo
  <2>3. DOMAIN s.mem = 1..Len(s.mem) /\ Len(s.mem) \in Nat /\ \A i \in 1..Len(s.mem) : s.mem[i] \in SUBSET BitSet!Bits
    BY <1>0
  <2>4. \A i \in 1..s.len : f[i] = InWord(ns, i) \ InWord(m..n-1, i)
    <3> SUFFICES ASSUME NEW i \in 1..s.len PROVE f[i] = InWord(ns, i) \ InWord(m..n-1, i)
      OBVIOUS
    <3>1. i \in 1..Len(s.mem) /\ i \in Nat \ {0}
      BY <1>0
    <3>2. f[i] = s.mem[i] \ BitSet!RangeMask(i, from, upTo)
      BY <2>3, <3>1
    <3>3. BitSet!RangeMask(i, from, upTo) = InWord(from..upTo, i)
      BY <2>2, <3>1, RangeMaskIs
    <3>4. s.mem[i] = InWord(ns, i) /\ InWord(from..upTo, i) = InWord(m..n-1, i)
      BY <1>s, <2>2
    <3> QED
      BY <3>2, <3>3, <3>4
  <2>5. \A i \in s.len+1..Len(s.mem) : f[i] = {}
    <3>1. \A i \in s.len+1..Len(s.mem) : i \in 1..Len(s.mem)
      BY <1>0
    <3> QED
      BY <1>0, <2>3, <3>1
  <2>6. f \in Seq(SUBSET BitSet!Bits) /\ Len(f) = Len(s.mem)
    <3>1. f = [i \in 1..Len(s.mem) |-> f[i]]
      BY <2>3
    <3>2. \A i \in 1..Len(s.mem) : f[i] \in SUBSET BitSet!Bits
      BY <2>3
    <3> HIDE DEF f
    <3> QED
      BY <2>3, <3>1, <3>2
  <2> HIDE DEF f
  <2>7. Stands(BitSet!trim([s EXCEPT !.mem = f]), ns \ (m..n-1))
    BY <2>4, <2>5, <2>6, TakeOut
  <2> QED
    BY <2>1, <2>7
<1> QED
  BY <1>1, <1>2, <1>3

\* Reset leaves zeroes only.
LEMMA ZerosJoin ==
  ASSUME NEW S, NEW p \in Seq(S), NEW q \in Seq(S), NEW z,
         \A i \in 1..Len(p) : p[i] = z, \A i \in 1..Len(q) : q[i] = z
  PROVE  /\ p \o q \in Seq(S) /\ Len(p \o q) = Len(p) + Len(q)
         /\ \A i \in 1..Len(p \o q) : (p \o q)[i] = z
OBVIOUS

LEMMA ResetStands ==
  ASSUME NEW s, Clean(s)
  PROVE  Stands(BitSet!ResetOf(s), {})
<1> DEFINE tail == SubSeq(s.mem, s.len + 1, Len(s.mem))
           z == BitSet!Zeros(s.len)
           w == z \o tail
           r == BitSet!ResetOf(s)
<1>1. /\ s.mem \in Seq(SUBSET BitSet!Bits) /\ s.len \in 0..Len(s.mem) /\ s.len \in Nat /\ Len(s.mem) \in Nat
      /\ \A i \in s.len+1..Len(s.mem) : s.mem[i] = {}
  BY DEF Clean, IsWords
<1>2. /\ tail \in Seq(SUBSET BitSet!Bits) /\ Len(tail) = Len(s.mem) - s.len
      /\ \A i \in 1..Len(tail) : tail[i] = {}
  <2>1. /\ tail \in Seq(SUBSET BitSet!Bits) /\ Len(tail) = Len(s.mem) - s.len
        /\ \A i \in 1..Len(s.mem) - s.len : tail[i] = s.mem[s.len + i]
    <3>1. \A i \in s.len+1..Len(s.mem) : s.mem[i] \in SUBSET BitSet!Bits
      BY <1>1
    <3> QED
      BY <1>1, <3>1
  <2>2. \A i \in 1..Len(s.mem) - s.len : s.len + i \in s.len+1..Len(s.mem)
    BY <1>1
  <2> HIDE DEF tail
  <2> QED
    BY <1>1, <2>1, <2>2
<1>3. z \in Seq(SUBSET BitSet!Bits) /\ Len(z) = s.len /\ \A i \in 1..s.len : z[i] = {}
  BY <1>1, ZerosAre
<1>4. r = [mem |-> w, len |-> 0]
  BY DEF BitSet!ResetOf
<1> HIDE DEF tail, z
<1>5. w \in Seq(SUBSET BitSet!Bits) /\ Len(w) = Len(s.mem) /\ \A i \in 1..Len(w) : w[i] = {}
  <2>1. \A i \in 1..Len(z) : z[i] = {}
    BY <1>3
  <2>2. /\ w \in Seq(SUBSET BitSet!Bits) /\ Len(w) = Len(z) + Len(tail)
        /\ \A i \in 1..Len(w) : w[i] = {}
    BY <1>2, <1>3, <2>1, ZerosJoin
  <2> HIDE DEF w
  <2> QED
    BY <1>1, <1>2, <1>3, <2>2
<1>6. r.mem = w /\ r.len = 0 /\ r = [mem |-> r.mem, len |-> r.len]
  BY <1>4
<1> HIDE DEF w, r
<1>7. Kept(r)
  BY <1>1, <1>5, <1>6 DEF Kept, IsWords, BitSet!Canonical
<1>8. \A i \in Nat \ {0} : At(r, i) = InWord({}, i)
  BY <1>6 DEF At, InWord
<1> QED
  BY <1>7, <1>8 DEF Stands, r

\* New makes the words of its numbers.
LEMMA NewStands ==
  ASSUME NEW ns \in SUBSET BitSet!Numbers
  PROVE  Stands(BitSet!New(ns), ns)
<1>0. MaxNumber \in Nat /\ ns \in SUBSET Nat
  BY BitsAssumption DEF BitSet!Numbers
<1> DEFINE k == IF ns = {} THEN 0 ELSE BitSet!Word(BitSet!Max(ns))
           f == [i \in 1..k |-> {BitSet!Bit(x) : x \in {y \in ns : BitSet!Word(y) = i}}]
           r == BitSet!New(ns)
<1>1. r = [mem |-> f, len |-> k]
  BY DEF BitSet!New
<1>2. \A i \in Nat \ {0} : InWord(ns, i) = {BitSet!Bit(x) : x \in {y \in ns : BitSet!Word(y) = i}}
  <2> SUFFICES ASSUME NEW i \in Nat \ {0}
               PROVE  InWord(ns, i) = {BitSet!Bit(x) : x \in {y \in ns : BitSet!Word(y) = i}}
    OBVIOUS
  <2>1. ASSUME NEW b \in InWord(ns, i) PROVE \E x \in {y \in ns : BitSet!Word(y) = i} : b = BitSet!Bit(x)
    <3>1. b \in BitSet!Bits /\ (i - 1) * bpw + b \in ns
      BY DEF InWord
    <3>2. BitSet!Word((i - 1) * bpw + b) = i /\ BitSet!Bit((i - 1) * bpw + b) = b
      BY <3>1, Address
    <3> QED
      BY <3>1, <3>2
  <2>2. ASSUME NEW x \in ns, BitSet!Word(x) = i PROVE BitSet!Bit(x) \in InWord(ns, i)
    BY <1>0, <2>2, WordBit DEF InWord
  <2> QED
    BY <2>1, <2>2
<1>3. k \in Nat /\ (k > 0 => InWord(ns, k) # {}) /\ \A i \in Nat \ {0} : i > k => InWord(ns, i) = {}
  <2>1. CASE ns = {}
    BY <2>1 DEF InWord
  <2>2. CASE ns # {}
    <3> DEFINE g == BitSet!Max(ns)
    <3>1. g \in ns /\ \A x \in ns : x <= g
      <4> DEFINE ms == {x + 1 : x \in ns}
      <4>1. ms \in SUBSET (1..MaxNumber + 1) /\ ms # {} /\ MaxNumber + 1 \in Nat
        <5>1. \A x \in ns : x \in 0..MaxNumber
          BY DEF BitSet!Numbers
        <5>2. \A x \in ns : x + 1 \in 1..MaxNumber + 1
          BY <1>0, <5>1
        <5>3. ms \subseteq 1..MaxNumber + 1
          BY <5>2
        <5>4. ms # {}
          BY <2>2
        <5> QED
          BY <1>0, <5>3, <5>4
      <4>2. Max(ms) \in ms /\ \A x \in ms : x <= Max(ms)
        <5> HIDE DEF ms
        <5> QED
          BY <4>1, Greatest
      <4>3. PICK h \in ns : Max(ms) = h + 1
        BY <4>2
      <4>4. \A x \in ns : x + 1 \in ms
        OBVIOUS
      <4>5. \A x \in ns : x <= h
        <5> HIDE DEF ms
        <5> QED
          BY <1>0, <4>2, <4>3, <4>4
      <4>6. BitSet!Max(ns) = h
        BY <1>0, <4>5, MaxOf
      <4> QED
        BY <4>5, <4>6
    <3>2. k = BitSet!Word(g) /\ g \in Nat
      BY <1>0, <2>2, <3>1
    <3> HIDE DEF g, k
    <3>3. k \in Nat \ {0} /\ BitSet!Bit(g) \in InWord(ns, k)
      BY <1>0, <3>1, <3>2, WordBit, ByWords
    <3>4. ASSUME NEW i \in Nat \ {0}, i > k, NEW b \in InWord(ns, i) PROVE FALSE
      <4>1. b \in BitSet!Bits /\ (i - 1) * bpw + b \in ns
        BY DEF InWord
      <4>2. (i - 1) * bpw + b \in Nat /\ BitSet!Word((i - 1) * bpw + b) = i
        BY <4>1, Address
      <4>3. (i - 1) * bpw + b <= g
        BY <3>1, <4>1
      <4>4. BitSet!Word((i - 1) * bpw + b) <= BitSet!Word(g)
        BY <3>2, <4>2, <4>3, WordsRise
      <4> QED
        BY <3>2, <3>3, <3>4, <4>2, <4>4
    <3> QED
      BY <3>3, <3>4
  <2> QED
    BY <2>1, <2>2
<1> HIDE DEF k
<1>4. \A i \in 1..k : f[i] = InWord(ns, i)
  <2>1. \A i \in 1..k : i \in Nat \ {0}
    BY <1>3
  <2> QED
    BY <1>2, <2>1
<1>5. f \in Seq(SUBSET BitSet!Bits) /\ Len(f) = k
  <2>1. \A i \in 1..k : f[i] \in SUBSET BitSet!Bits
    BY <1>4 DEF InWord
  <2>2. f = [i \in 1..k |-> f[i]]
    OBVIOUS
  <2> HIDE DEF f
  <2> QED
    BY <1>3, <2>1, <2>2
<1>6. r.mem = f /\ r.len = k /\ r = [mem |-> r.mem, len |-> r.len]
  BY <1>1
<1> HIDE DEF f, r
<1>7. Clean(r)
  BY <1>3, <1>5, <1>6 DEF Clean, IsWords
<1>8. Has(r, ns)
  <2>1. \A i \in Nat \ {0} : i \notin 1..r.len => InWord(ns, i) = {}
    BY <1>3, <1>6
  <2> QED
    BY <1>0, <1>4, <1>6, <1>7, <2>1 DEF Has
<1>9. Stands(r, ns)
  BY <1>3, <1>6, <1>8, HasStands
<1> QED
  BY <1>9 DEF r

-----------------------------------------------------------------------------
(* bitmask.Set: its answers.                                               *)

\* The least of some numbers, and the greatest.
LEMMA LeastIs ==
  ASSUME NEW S \in SUBSET Nat, S # {}
  PROVE  BitSet!Min(S) \in S /\ \A x \in S : BitSet!Min(S) <= x
<1>1. PICK k \in S : \A x \in S : k <= x
  BY Least
<1>2. BitSet!Min(S) = k
  BY <1>1, MinOf
<1> QED
  BY <1>1, <1>2

LEMMA GreatestIs ==
  ASSUME NEW k \in Nat, NEW S \in SUBSET (0..k), S # {}
  PROVE  BitSet!Max(S) \in S /\ \A x \in S : x <= BitSet!Max(S)
<1> DEFINE T == {x + 1 : x \in S}
<1>1. T \subseteq 1..k + 1
  <2>1. \A x \in S : x \in 0..k
    OBVIOUS
  <2> QED
    BY <2>1
<1>2. T # {} /\ k + 1 \in Nat
  <2>1. PICK x \in S : TRUE
    OBVIOUS
  <2>2. x + 1 \in T
    OBVIOUS
  <2> HIDE DEF T
  <2> QED
    BY <2>2
<1>3. Max(T) \in T /\ \A x \in T : x <= Max(T)
  <2> HIDE DEF T
  <2> QED
    BY <1>1, <1>2, Greatest
<1>4. PICK h \in S : Max(T) = h + 1
  BY <1>3
<1>5. \A x \in S : x + 1 \in T
  OBVIOUS
<1>6. \A x \in S : x <= h
  <2> HIDE DEF T
  <2> QED
    BY <1>3, <1>4, <1>5
<1>7. BitSet!Max(S) = h
  BY <1>6, MaxOf
<1> QED
  BY <1>6, <1>7

\* Bits that are cut.
LEMMA CutLow ==
  ASSUME NEW w \in SUBSET BitSet!Bits, NEW c \in Nat
  PROVE  BitSet!Shl(BitSet!Shr(w, c), c) = {b \in w : b >= c}
<1>0. bpw \in Nat /\ \A b \in w : b \in 0..bpw-1
  BY BitsAssumption DEF BitSet!Bits
<1> DEFINE low == BitSet!Shr(w, c)
<1>1. low = {b - c : b \in {x \in w : x >= c}}
  BY DEF BitSet!Shr
<1>2. \A b \in w : b >= c => b - c \in low
  BY <1>1
<1>3. \A y \in low : \E b \in w : b >= c /\ y = b - c
  BY <1>1
<1> HIDE DEF low
<1>4. BitSet!Shl(low, c) = {y + c : y \in {x \in low : x + c < bpw}}
  BY DEF BitSet!Shl
<1>5. \A b \in w : b >= c => b - c \in {x \in low : x + c < bpw} /\ b = (b - c) + c
  BY <1>0, <1>2
<1>6. \A y \in low : y + c \in w /\ y + c >= c
  BY <1>0, <1>3
<1>7. {b \in w : b >= c} \subseteq BitSet!Shl(low, c)
  BY <1>4, <1>5
<1>8. BitSet!Shl(low, c) \subseteq {b \in w : b >= c}
  BY <1>4, <1>6
<1> QED
  BY <1>7, <1>8 DEF low

LEMMA CutHigh ==
  ASSUME NEW w \in SUBSET BitSet!Bits, NEW c \in Nat
  PROVE  BitSet!Shr(BitSet!Shl(w, c), c) = {b \in w : b + c < bpw}
<1>0. bpw \in Nat /\ \A b \in w : b \in 0..bpw-1
  BY BitsAssumption DEF BitSet!Bits
<1> DEFINE high == BitSet!Shl(w, c)
<1>1. high = {b + c : b \in {x \in w : x + c < bpw}}
  BY DEF BitSet!Shl
<1>2. \A b \in w : b + c < bpw => b + c \in high
  BY <1>1
<1>3. \A y \in high : \E b \in w : b + c < bpw /\ y = b + c
  BY <1>1
<1> HIDE DEF high
<1>4. BitSet!Shr(high, c) = {y - c : y \in {x \in high : x >= c}}
  BY DEF BitSet!Shr
<1>5. \A b \in w : b + c < bpw => b + c \in {x \in high : x >= c} /\ b = (b + c) - c
  BY <1>0, <1>2
<1>6. \A y \in high : y - c \in w /\ (y - c) + c < bpw
  BY <1>0, <1>3
<1>7. {b \in w : b + c < bpw} \subseteq BitSet!Shr(high, c)
  BY <1>4, <1>5
<1>8. BitSet!Shr(high, c) \subseteq {b \in w : b + c < bpw}
  BY <1>4, <1>6
<1> QED
  BY <1>7, <1>8 DEF high

\* The numbers of a set are in its words.
LEMMA NumbersAreIn ==
  ASSUME NEW s, NEW ns, Stands(s, ns)
  PROVE  /\ \A x \in ns : /\ x \in Nat /\ BitSet!Word(x) \in 1..s.len
                          /\ BitSet!Bit(x) \in InWord(ns, BitSet!Word(x))
         /\ \A i \in 1..s.len, b \in BitSet!Bits : b \in InWord(ns, i) => (i - 1) * bpw + b \in ns
<1>1. ns \in SUBSET Nat /\ s.len \in Nat /\ \A i \in Nat \ {0} : i \notin 1..s.len => InWord(ns, i) = {}
  BY StandsIs
<1>2. ASSUME NEW x \in ns
      PROVE  x \in Nat /\ BitSet!Word(x) \in 1..s.len /\ BitSet!Bit(x) \in InWord(ns, BitSet!Word(x))
  <2>1. x \in Nat
    BY <1>1
  <2>2. BitSet!Word(x) \in Nat \ {0}
    BY <2>1, WordBit
  <2>3. BitSet!Bit(x) \in InWord(ns, BitSet!Word(x))
    BY <1>1, <2>1, ByWords
  <2> QED
    BY <1>1, <2>1, <2>2, <2>3
<1> QED
  BY <1>2 DEF InWord

\* Membership.
LEMMA ContainsIsRight ==
  ASSUME NEW s, NEW ns, Stands(s, ns), NEW n \in Int
  PROVE  BitSet!ContainsNumber(s, n) <=> n \in ns
<1>1. /\ ns \in SUBSET Nat /\ s.len \in Nat
      /\ \A i \in 1..s.len : BitSet!Data(s)[i] = InWord(ns, i)
  BY StandsIs
<1>2. CASE n < 0
  <2>1. n \notin ns
    BY <1>1, <1>2
  <2> QED
    BY <1>2, <2>1 DEF BitSet!ContainsNumber
<1>3. CASE n >= 0
  <2>1. n \in Nat /\ BitSet!Word(n) \in Nat \ {0}
    BY <1>3, WordBit
  <2>2. n \in ns <=> BitSet!Bit(n) \in InWord(ns, BitSet!Word(n))
    BY <1>1, <2>1, ByWords
  <2>3. BitSet!Word(n) <= s.len <=> BitSet!Word(n) \in 1..s.len
    BY <1>1, <2>1
  <2>4. n \in ns => BitSet!Word(n) \in 1..s.len
    BY NumbersAreIn
  <2>5. BitSet!ContainsNumber(s, n) <=> BitSet!Word(n) <= s.len /\ BitSet!Bit(n) \in BitSet!Data(s)[BitSet!Word(n)]
    BY <1>3 DEF BitSet!ContainsNumber
  <2> QED
    BY <1>1, <2>2, <2>3, <2>4, <2>5
<1> QED
  BY <1>2, <1>3

\* Emptiness and the maximum are told by the length and the last word.
LEMMA EmptyIsRight ==
  ASSUME NEW s, NEW ns, Stands(s, ns)
  PROVE  BitSet!IsEmpty(s) <=> ns = {}
<1>1. s.len \in Nat /\ (s.len > 0 => InWord(ns, s.len) # {})
  BY StandsIs
<1>2. CASE s.len = 0
  <2>1. \A x \in ns : FALSE
    BY <1>2, NumbersAreIn
  <2> QED
    BY <1>2, <2>1 DEF BitSet!IsEmpty
<1>3. CASE s.len > 0
  <2>1. ns # {}
    BY <1>1, <1>3 DEF InWord
  <2> QED
    BY <1>3, <2>1 DEF BitSet!IsEmpty
<1> QED
  BY <1>1, <1>2, <1>3

LEMMA MaximumIsRight ==
  ASSUME NEW s, NEW ns, Stands(s, ns), s.len > 0
  PROVE  /\ BitSet!Maximum(s) \in ns /\ \A x \in ns : x <= BitSet!Maximum(s)
         /\ BitSet!Maximum(s) = BitSet!Max(ns)
<1> DEFINE l == s.len  w == InWord(ns, l)  c == BitSet!Max(w)  v == (l - 1) * bpw + c
<1>1. /\ l \in Nat \ {0} /\ w # {} /\ ns \in SUBSET Nat /\ BitSet!Data(s)[l] = w
  <2>1. l \in Nat /\ ns \in SUBSET Nat /\ l > 0 /\ w # {}
    BY StandsIs
  <2>2. l \in 1..l
    BY <2>1
  <2>3. BitSet!Data(s)[l] = w
    BY <2>2, StandsIs
  <2> QED
    BY <2>1, <2>3
<1>2. c \in w /\ \A b \in w : b <= c
  <2>1. bpw - 1 \in Nat /\ w \in SUBSET (0..bpw-1)
    BY BitsAssumption DEF InWord, BitSet!Bits
  <2> HIDE DEF w
  <2> QED
    BY <1>1, <2>1, GreatestIs
<1>3. c \in BitSet!Bits /\ v \in ns
  BY <1>2 DEF InWord
<1>4. BitSet!Maximum(s) = v
  BY <1>1 DEF BitSet!Maximum
<1>5. ASSUME NEW x \in ns PROVE x <= v
  <2>1. x \in Nat /\ BitSet!Word(x) \in 1..l /\ BitSet!Bit(x) \in InWord(ns, BitSet!Word(x))
    BY NumbersAreIn
  <2>2. /\ BitSet!Word(x) \in Nat \ {0} /\ BitSet!Bit(x) \in BitSet!Bits
        /\ x = (BitSet!Word(x) - 1) * bpw + BitSet!Bit(x)
    BY <2>1, WordBit
  <2>3. BitSet!Word(x) < l \/ (BitSet!Word(x) = l /\ BitSet!Bit(x) <= c)
    BY <1>1, <1>2, <2>1, <2>2
  <2> HIDE DEF w, c
  <2> QED
    BY <1>1, <1>3, <2>2, <2>3, Compare
<1> HIDE DEF v
<1>6. BitSet!Max(ns) = v
  <2>1. ns \in SUBSET Int
    BY <1>1
  <2> QED
    BY <1>3, <1>5, <2>1, MaxOf
<1> QED
  BY <1>3, <1>4, <1>5, <1>6

\* The bits of word i behind a number, and before it; the words that have one.
After(ns, i, g) == {b \in InWord(ns, i) : (i - 1) * bpw + b > g}

Before(ns, i, g) == {b \in InWord(ns, i) : (i - 1) * bpw + b < g}

HitsAfter(s, ns, g) == {i \in BitSet!Word(g)..s.len : After(ns, i, g) # {}}

HitsBefore(ns, g) == {i \in 1..BitSet!Word(g) : Before(ns, i, g) # {}}

\* The place of a number that is in a set.
LEMMA PlaceOf ==
  ASSUME NEW s, NEW ns, Stands(s, ns), NEW x \in ns
  PROVE  \E i \in 1..s.len, b \in BitSet!Bits :
           b \in InWord(ns, i) /\ x = (i - 1) * bpw + b /\ i = BitSet!Word(x) /\ b = BitSet!Bit(x)
<1>1. x \in Nat /\ BitSet!Word(x) \in 1..s.len /\ BitSet!Bit(x) \in InWord(ns, BitSet!Word(x))
  BY NumbersAreIn
<1>2. /\ BitSet!Bit(x) \in BitSet!Bits
      /\ x = (BitSet!Word(x) - 1) * bpw + BitSet!Bit(x)
  BY <1>1, WordBit
<1> QED
  BY <1>1, <1>2

\* v is the first number behind g, the last one before it.
IsFirst(ns, g, v) == v \in ns /\ v > g /\ \A x \in ns : x > g => v <= x

IsLast(ns, g, v) == v \in ns /\ v < g /\ \A x \in ns : x < g => x <= v

\* The first bit of word h behind g, and the last one before it, as numbers.
FirstOf(ns, g, h) == (h - 1) * bpw + BitSet!Min(After(ns, h, g))

LastOf(ns, g, h) == (h - 1) * bpw + BitSet!Max(Before(ns, h, g))

\* The first word that has a bit behind g has the first number behind it.
LEMMA FirstAfter ==
  ASSUME NEW s, NEW ns, Stands(s, ns), NEW g \in Nat
  PROVE  /\ HitsAfter(s, ns, g) = {} => \A x \in ns : x <= g
         /\ HitsAfter(s, ns, g) # {} => IsFirst(ns, g, FirstOf(ns, g, BitSet!Min(HitsAfter(s, ns, g))))
<1> DEFINE hits == HitsAfter(s, ns, g)
<1>h. hits = {i \in BitSet!Word(g)..s.len : After(ns, i, g) # {}}
  BY DEF HitsAfter
<1> HIDE DEF hits
<1>0. s.len \in Nat /\ ns \in SUBSET Nat /\ BitSet!Word(g) \in Nat \ {0}
  BY StandsIs, WordBit
<1>1. ASSUME NEW x \in ns, x > g
      PROVE  \E i \in hits, b \in BitSet!Bits : b \in After(ns, i, g) /\ x = (i - 1) * bpw + b
  <2>1. PICK i \in 1..s.len, b \in BitSet!Bits :
          b \in InWord(ns, i) /\ x = (i - 1) * bpw + b /\ i = BitSet!Word(x) /\ b = BitSet!Bit(x)
    BY PlaceOf
  <2>2. BitSet!Word(g) <= i
    BY <1>0, <1>1, <2>1, WordsRise
  <2>3. b \in After(ns, i, g)
    BY <1>1, <2>1 DEF After
  <2>4. i \in BitSet!Word(g)..s.len
    BY <1>0, <2>1, <2>2
  <2> QED
    BY <1>h, <2>1, <2>3, <2>4
<1>2. CASE hits = {}
  <2>1. \A x \in ns : ~(x > g)
    BY <1>1, <1>2
  <2> QED
    BY <1>0, <1>2, <2>1 DEF hits
<1>3. CASE hits # {}
  <2> DEFINE h == BitSet!Min(hits)  w == After(ns, h, g)  c == BitSet!Min(w)  v == (h - 1) * bpw + c
  <2>1. hits \in SUBSET Nat
    BY <1>0, <1>h
  <2>2. h \in hits /\ \A i \in hits : h <= i
    BY <1>3, <2>1, LeastIs
  <2>3. w # {} /\ h \in 1..s.len /\ h \in Nat \ {0}
    BY <1>0, <1>h, <2>2
  <2>4. w \in SUBSET Nat
    BY BitsAssumption DEF After, InWord, BitSet!Bits
  <2> HIDE DEF h
  <2>5. c \in w /\ \A b \in w : c <= b
    <3> HIDE DEF w
    <3> QED
      BY <2>3, <2>4, LeastIs
  <2> HIDE DEF c
  <2>6. c \in BitSet!Bits /\ v \in ns /\ v > g
    BY <2>5 DEF After, InWord
  <2>7. ASSUME NEW x \in ns, x > g PROVE v <= x
    <3>1. PICK i \in hits, b \in BitSet!Bits : b \in After(ns, i, g) /\ x = (i - 1) * bpw + b
      BY <1>1, <2>7
    <3>2. i \in Nat \ {0} /\ h <= i
      BY <1>0, <1>h, <2>2
    <3>3. h = i => c <= b
      BY <2>5, <3>1
    <3>4. h < i \/ (h = i /\ c <= b)
      BY <2>3, <3>2, <3>3
    <3> HIDE DEF w
    <3> QED
      BY <2>3, <2>6, <3>1, <3>2, <3>4, Compare
  <2> HIDE DEF v
  <2>8. IsFirst(ns, g, v)
    BY <2>6, <2>7 DEF IsFirst
  <2>9. v = FirstOf(ns, g, h)
    BY DEF FirstOf, v, c
  <2> QED
    BY <1>3, <2>8, <2>9 DEF h, hits
<1> QED
  BY <1>2, <1>3

\* The last word that has a bit before g has the last number before it.
LEMMA LastBefore ==
  ASSUME NEW s, NEW ns, Stands(s, ns), NEW g \in Nat, BitSet!Word(g) <= s.len
  PROVE  /\ HitsBefore(ns, g) = {} => \A x \in ns : x >= g
         /\ HitsBefore(ns, g) # {} => IsLast(ns, g, LastOf(ns, g, BitSet!Max(HitsBefore(ns, g))))
<1> DEFINE hits == HitsBefore(ns, g)
<1>h. hits = {i \in 1..BitSet!Word(g) : Before(ns, i, g) # {}}
  BY DEF HitsBefore
<1> HIDE DEF hits
<1>0. s.len \in Nat /\ ns \in SUBSET Nat /\ BitSet!Word(g) \in Nat \ {0}
  BY StandsIs, WordBit
<1>1. ASSUME NEW x \in ns, x < g
      PROVE  \E i \in hits, b \in BitSet!Bits : b \in Before(ns, i, g) /\ x = (i - 1) * bpw + b
  <2>1. PICK i \in 1..s.len, b \in BitSet!Bits :
          b \in InWord(ns, i) /\ x = (i - 1) * bpw + b /\ i = BitSet!Word(x) /\ b = BitSet!Bit(x)
    BY PlaceOf
  <2>2. i <= BitSet!Word(g)
    BY <1>0, <1>1, <2>1, WordsRise
  <2>3. b \in Before(ns, i, g)
    BY <1>1, <2>1 DEF Before
  <2>4. i \in 1..BitSet!Word(g)
    BY <1>0, <2>1, <2>2
  <2> QED
    BY <1>h, <2>1, <2>3, <2>4
<1>2. CASE hits = {}
  <2>1. \A x \in ns : ~(x < g)
    BY <1>1, <1>2
  <2> QED
    BY <1>0, <1>2, <2>1 DEF hits
<1>3. CASE hits # {}
  <2> DEFINE h == BitSet!Max(hits)  w == Before(ns, h, g)  c == BitSet!Max(w)  v == (h - 1) * bpw + c
  <2>1. hits \in SUBSET (0..BitSet!Word(g)) /\ BitSet!Word(g) \in Nat
    BY <1>0, <1>h
  <2>2. h \in hits /\ \A i \in hits : i <= h
    BY <1>3, <2>1, GreatestIs
  <2>3. w # {} /\ h \in Nat \ {0}
    BY <1>0, <1>h, <2>2
  <2>4. w \in SUBSET (0..bpw-1) /\ bpw - 1 \in Nat
    BY BitsAssumption DEF Before, InWord, BitSet!Bits
  <2> HIDE DEF h
  <2>5. c \in w /\ \A b \in w : b <= c
    <3> HIDE DEF w
    <3> QED
      BY <2>3, <2>4, GreatestIs
  <2> HIDE DEF c
  <2>6. c \in BitSet!Bits /\ v \in ns /\ v < g
    BY <2>5 DEF Before, InWord
  <2>7. ASSUME NEW x \in ns, x < g PROVE x <= v
    <3>1. PICK i \in hits, b \in BitSet!Bits : b \in Before(ns, i, g) /\ x = (i - 1) * bpw + b
      BY <1>1, <2>7
    <3>2. i \in Nat \ {0} /\ i <= h
      BY <1>0, <1>h, <2>2
    <3>3. h = i => b <= c
      BY <2>5, <3>1
    <3>4. i < h \/ (h = i /\ b <= c)
      BY <2>3, <3>2, <3>3
    <3> HIDE DEF w
    <3> QED
      BY <2>3, <2>6, <3>1, <3>2, <3>4, Compare
  <2> HIDE DEF v
  <2>8. IsLast(ns, g, v)
    BY <2>6, <2>7 DEF IsLast
  <2>9. v = LastOf(ns, g, h)
    BY DEF LastOf, v, c
  <2> QED
    BY <1>3, <2>8, <2>9 DEF h, hits
<1> QED
  BY <1>2, <1>3

\* What NextOf and PrevOf answer.
NextIs(ns, n, v) ==
  v = IF \A x \in ns : x <= n THEN -1 ELSE BitSet!Min({x \in ns : x > n})

PrevIs(ns, n, v) ==
  v = IF \A x \in ns : x >= n THEN -1 ELSE BitSet!Max({x \in ns : x < n})

LEMMA FirstIsNext ==
  ASSUME NEW ns \in SUBSET Nat, NEW n \in Int, NEW v, IsFirst(ns, n, v)
  PROVE  NextIs(ns, n, v)
<1> DEFINE D == {x \in ns : x > n}
<1>1. v \in D /\ D \subseteq ns /\ \A y \in D : v <= y
  BY DEF IsFirst
<1>2. ~(\A x \in ns : x <= n)
  BY DEF IsFirst
<1>3. BitSet!Min(D) = v
  <2> HIDE DEF D
  <2>1. D \in SUBSET Int
    BY <1>1
  <2> QED
    BY <1>1, <2>1, MinOf
<1> QED
  BY <1>2, <1>3 DEF NextIs

LEMMA LastIsPrev ==
  ASSUME NEW ns \in SUBSET Nat, NEW n \in Int, NEW v, IsLast(ns, n, v)
  PROVE  PrevIs(ns, n, v)
<1> DEFINE D == {x \in ns : x < n}
<1>1. v \in D /\ D \subseteq ns /\ \A y \in D : y <= v
  BY DEF IsLast
<1>2. ~(\A x \in ns : x >= n)
  BY DEF IsLast
<1>3. BitSet!Max(D) = v
  <2> HIDE DEF D
  <2>1. D \in SUBSET Int
    BY <1>1
  <2> QED
    BY <1>1, <2>1, MaxOf
<1> QED
  BY <1>2, <1>3 DEF PrevIs

\* The word of the number is cut by shifts; the others are looked at whole.
LEMMA NextIsRight ==
  ASSUME NEW s, NEW ns, Stands(s, ns), NEW n \in Int
  PROVE  NextIs(ns, n, BitSet!NextOf(s, n))
<1> DEFINE ws == BitSet!Data(s)
           g == BitSet!Max({n, 0})
           cut == 1 + BitSet!Bit(g)
           R(i) == IF i = BitSet!Word(g) THEN BitSet!Shl(BitSet!Shr(ws[i], cut), cut) ELSE ws[i]
           hits == {i \in BitSet!Word(g)..s.len : R(i) # {}}
           v == (BitSet!Min(hits) - 1) * bpw + BitSet!Min(R(BitSet!Min(hits)))
<1>0. /\ ns \in SUBSET Nat /\ s.len \in Nat
      /\ \A i \in 1..s.len : ws[i] = InWord(ns, i)
  BY StandsIs
<1>1. g = IF n <= 0 THEN 0 ELSE n
  <2>1. {n, 0} = {0, n}
    OBVIOUS
  <2>2. g = IF 0 <= n THEN n ELSE 0
    BY <2>1, FromZero
  <2> HIDE DEF g
  <2> QED
    BY <2>2
<1>2. BitSet!NextOf(s, n) = IF n < 0 /\ s.len > 0 /\ 0 \in ws[1] THEN 0
                            ELSE IF hits = {} THEN -1 ELSE v
  BY Zenon DEF BitSet!NextOf
<1> HIDE DEF g
<1>3. /\ g \in Nat /\ BitSet!Word(g) \in Nat \ {0} /\ BitSet!Bit(g) \in BitSet!Bits
      /\ g = (BitSet!Word(g) - 1) * bpw + BitSet!Bit(g)
  <2>1. g \in Nat
    BY <1>1
  <2> QED
    BY <2>1, WordBit
<1>4. ASSUME NEW i \in BitSet!Word(g)..s.len PROVE R(i) = After(ns, i, g)
  <2>1. i \in 1..s.len /\ i \in Nat \ {0} /\ ws[i] = InWord(ns, i)
    BY <1>0, <1>3
  <2>2. InWord(ns, i) \in SUBSET BitSet!Bits /\ \A b \in BitSet!Bits : b \in Nat
    BY BitsAssumption DEF InWord, BitSet!Bits
  <2>3. CASE i = BitSet!Word(g)
    <3>1. cut \in Nat
      BY <1>3, <2>2
    <3>2. R(i) = {b \in InWord(ns, i) : b >= cut}
      BY <2>1, <2>2, <2>3, <3>1, CutLow
    <3>3. \A b \in BitSet!Bits : (i - 1) * bpw + b > g <=> b >= cut
      <4> SUFFICES ASSUME NEW b \in BitSet!Bits PROVE (i - 1) * bpw + b > g <=> b >= cut
        OBVIOUS
      <4>1. b \in Nat /\ BitSet!Bit(g) \in Nat
        BY <1>3, <2>2
      <4>2. (i - 1) * bpw + b <= g <=> b <= BitSet!Bit(g)
        BY <1>3, <2>1, <2>3, Compare
      <4>3. (i - 1) * bpw + b \in Nat
        BY <2>1, Address
      <4>4. (i - 1) * bpw + b > g <=> ~((i - 1) * bpw + b <= g)
        BY <1>3, <4>3
      <4> QED
        BY <4>1, <4>2, <4>4
    <3> QED
      BY <2>2, <3>2, <3>3 DEF After
  <2>4. CASE i # BitSet!Word(g)
    <3>1. R(i) = InWord(ns, i)
      BY <2>1, <2>4
    <3>2. \A b \in BitSet!Bits : (i - 1) * bpw + b > g
      <4> SUFFICES ASSUME NEW b \in BitSet!Bits PROVE (i - 1) * bpw + b > g
        OBVIOUS
      <4>1. BitSet!Word(g) < i
        BY <1>3, <2>4
      <4>2. ~((i - 1) * bpw + b <= g)
        BY <1>3, <2>1, <4>1, Compare
      <4>3. (i - 1) * bpw + b \in Nat
        BY <2>1, Address
      <4> QED
        BY <1>3, <4>2, <4>3
    <3> QED
      BY <2>2, <3>1, <3>2 DEF After
  <2> QED
    BY <2>3, <2>4
<1> HIDE DEF R, ws
<1>5. hits = HitsAfter(s, ns, g)
  BY <1>4 DEF HitsAfter
<1>6. hits # {} => BitSet!Min(hits) \in BitSet!Word(g)..s.len
  <2>1. hits \in SUBSET Nat /\ \A i \in hits : i \in BitSet!Word(g)..s.len
    BY <1>3
  <2> HIDE DEF hits
  <2> QED
    BY <2>1, LeastIs
<1>7. hits # {} => v = FirstOf(ns, g, BitSet!Min(hits))
  BY <1>4, <1>6 DEF FirstOf
<1> HIDE DEF hits, v
<1>8. /\ hits = {} => \A x \in ns : x <= g
      /\ hits # {} => IsFirst(ns, g, v)
  BY <1>3, <1>5, <1>7, FirstAfter
<1>9. CASE n < 0 /\ s.len > 0 /\ 0 \in ws[1]
  <2>1. 0 \in ns
    <3>1. 1 \in 1..s.len /\ 0 \in BitSet!Bits
      BY <1>0, <1>9, BitsAssumption DEF BitSet!Bits
    <3>2. 0 \in InWord(ns, 1)
      BY <1>0, <1>9, <3>1
    <3>3. (1 - 1) * bpw + 0 = 0
      BY BitsAssumption
    <3> QED
      BY <3>1, <3>2, <3>3 DEF InWord
  <2>2. IsFirst(ns, n, 0)
    BY <1>0, <1>9, <2>1 DEF IsFirst
  <2>5. BitSet!NextOf(s, n) = 0
    BY <1>2, <1>9
  <2> QED
    BY <1>0, <2>2, <2>5, FirstIsNext
<1>10. CASE ~(n < 0 /\ s.len > 0 /\ 0 \in ws[1])
  <2>1. \A x \in ns : x > n <=> x > g
    <3>1. CASE n >= 0
      BY <1>1, <3>1
    <3>2. CASE n < 0
      <4>1. 0 \notin ns
        <5>1. ASSUME 0 \in ns PROVE FALSE
          <6>1. BitSet!Word(0) = 1 /\ BitSet!Bit(0) = 0
            BY BitsAssumption DEF BitSet!Word, BitSet!Bit
          <6>2. 1 \in 1..s.len /\ 0 \in InWord(ns, 1)
            BY <5>1, <6>1, NumbersAreIn
          <6>3. s.len > 0 /\ 0 \in ws[1]
            BY <1>0, <6>2
          <6> QED
            BY <1>10, <3>2, <6>3
        <5> QED
          BY <5>1
      <4>2. g = 0
        BY <1>1, <3>2
      <4> QED
        BY <1>0, <3>2, <4>1, <4>2
    <3> QED
      BY <3>1, <3>2
  <2>2. BitSet!NextOf(s, n) = IF hits = {} THEN -1 ELSE v
    BY <1>2, <1>10
  <2>3. CASE hits = {}
    <3>1. \A x \in ns : x <= n
      BY <1>0, <1>3, <1>8, <2>1, <2>3
    <3> QED
      BY <2>2, <2>3, <3>1 DEF NextIs
  <2>4. CASE hits # {}
    <3>1. IsFirst(ns, n, v)
      BY <1>8, <2>1, <2>4 DEF IsFirst
    <3> QED
      BY <1>0, <2>2, <2>4, <3>1, FirstIsNext
  <2> QED
    BY <2>3, <2>4
<1> QED
  BY <1>9, <1>10

\* Likewise backwards, from the maximum if the number is behind it.
LEMMA PrevIsRight ==
  ASSUME NEW s, NEW ns, Stands(s, ns), NEW n \in Int
  PROVE  PrevIs(ns, n, BitSet!PrevOf(s, n))
<1> DEFINE ws == BitSet!Data(s)
           cut == bpw - BitSet!Bit(n)
           R(i) == IF i = BitSet!Word(n) THEN BitSet!Shr(BitSet!Shl(ws[i], cut), cut) ELSE ws[i]
           hits == {i \in 1..BitSet!Word(n) : R(i) # {}}
           v == (BitSet!Max(hits) - 1) * bpw + BitSet!Max(R(BitSet!Max(hits)))
<1>0. /\ ns \in SUBSET Nat /\ s.len \in Nat
      /\ \A i \in 1..s.len : ws[i] = InWord(ns, i)
  BY StandsIs
<1>1. BitSet!PrevOf(s, n) = IF s.len = 0 \/ n <= 0 THEN -1
                            ELSE IF n > BitSet!Maximum(s) THEN BitSet!Maximum(s)
                            ELSE IF hits = {} THEN -1 ELSE v
  BY Zenon DEF BitSet!PrevOf
<1> HIDE DEF hits, v
<1>2. CASE s.len = 0 \/ n <= 0
  <2>1. \A x \in ns : x >= n
    <3>1. CASE s.len = 0
      <4>1. ns = {}
        BY <3>1, EmptyIsRight DEF BitSet!IsEmpty
      <4> QED
        BY <4>1
    <3>2. CASE n <= 0
      BY <1>0, <3>2
    <3> QED
      BY <1>2, <3>1, <3>2
  <2> QED
    BY <1>1, <1>2, <2>1 DEF PrevIs
<1>3. CASE s.len > 0 /\ n > 0 /\ n > BitSet!Maximum(s)
  <2>1. BitSet!Maximum(s) \in ns /\ \A x \in ns : x <= BitSet!Maximum(s)
    BY <1>3, MaximumIsRight
  <2>2. IsLast(ns, n, BitSet!Maximum(s))
    BY <1>0, <1>3, <2>1 DEF IsLast
  <2>3. BitSet!PrevOf(s, n) = BitSet!Maximum(s)
    BY <1>0, <1>1, <1>3
  <2> QED
    BY <1>0, <2>2, <2>3, LastIsPrev
<1>4. CASE s.len > 0 /\ n > 0 /\ ~(n > BitSet!Maximum(s))
  <2>1. /\ n \in Nat /\ BitSet!Word(n) \in Nat \ {0} /\ BitSet!Bit(n) \in BitSet!Bits
        /\ n = (BitSet!Word(n) - 1) * bpw + BitSet!Bit(n)
    <3>1. n \in Nat
      BY <1>4
    <3> QED
      BY <3>1, WordBit
  <2>2. BitSet!Word(n) <= s.len
    <3> DEFINE m == BitSet!Maximum(s)
    <3>1. m \in ns
      BY <1>4, MaximumIsRight
    <3>2. m \in Nat /\ BitSet!Word(m) \in 1..s.len
      BY <3>1, NumbersAreIn
    <3> HIDE DEF m
    <3>3. n <= m
      BY <1>4, <2>1, <3>2 DEF m
    <3>4. BitSet!Word(n) <= BitSet!Word(m)
      BY <2>1, <3>2, <3>3, WordsRise
    <3> QED
      BY <1>0, <2>1, <3>2, <3>4
  <2>3. ASSUME NEW i \in 1..BitSet!Word(n) PROVE R(i) = Before(ns, i, n)
    <3>1. i \in 1..s.len /\ i \in Nat \ {0} /\ ws[i] = InWord(ns, i)
      BY <1>0, <2>1, <2>2
    <3>2. InWord(ns, i) \in SUBSET BitSet!Bits /\ bpw \in Nat /\ \A b \in BitSet!Bits : b \in 0..bpw-1
      BY BitsAssumption DEF InWord, BitSet!Bits
    <3>3. CASE i = BitSet!Word(n)
      <4>1. cut \in Nat
        BY <2>1, <3>2
      <4>2. R(i) = {b \in InWord(ns, i) : b + cut < bpw}
        BY <3>1, <3>2, <3>3, <4>1, CutHigh
      <4>3. \A b \in BitSet!Bits : (i - 1) * bpw + b < n <=> b + cut < bpw
        <5> SUFFICES ASSUME NEW b \in BitSet!Bits PROVE (i - 1) * bpw + b < n <=> b + cut < bpw
          OBVIOUS
        <5>1. b \in Nat /\ BitSet!Bit(n) \in Nat
          BY <2>1, <3>2
        <5>2. n <= (i - 1) * bpw + b <=> BitSet!Bit(n) <= b
          BY <2>1, <3>1, <3>3, Compare
        <5>3. (i - 1) * bpw + b \in Nat
          BY <3>1, Address
        <5>4. (i - 1) * bpw + b < n <=> ~(n <= (i - 1) * bpw + b)
          BY <2>1, <5>3
        <5>5. b + cut < bpw <=> ~(BitSet!Bit(n) <= b)
          BY <3>2, <5>1
        <5> QED
          BY <5>2, <5>4, <5>5
      <4> QED
        BY <3>2, <4>2, <4>3 DEF Before
    <3>4. CASE i # BitSet!Word(n)
      <4>1. R(i) = InWord(ns, i)
        BY <3>1, <3>4
      <4>2. \A b \in BitSet!Bits : (i - 1) * bpw + b < n
        <5> SUFFICES ASSUME NEW b \in BitSet!Bits PROVE (i - 1) * bpw + b < n
          OBVIOUS
        <5>1. i < BitSet!Word(n)
          BY <2>1, <3>4
        <5>2. ~(n <= (i - 1) * bpw + b)
          BY <2>1, <3>1, <5>1, Compare
        <5>3. (i - 1) * bpw + b \in Nat
          BY <3>1, Address
        <5> QED
          BY <2>1, <5>2, <5>3
      <4> QED
        BY <3>2, <4>1, <4>2 DEF Before
    <3> QED
      BY <3>3, <3>4
  <2> HIDE DEF R, ws
  <2>4. hits = HitsBefore(ns, n)
    BY <2>3 DEF HitsBefore, hits
  <2>5. hits # {} => BitSet!Max(hits) \in 1..BitSet!Word(n)
    <3>1. hits \in SUBSET (0..BitSet!Word(n)) /\ BitSet!Word(n) \in Nat /\ \A i \in hits : i \in 1..BitSet!Word(n)
      BY <2>1 DEF hits
    <3> QED
      BY <3>1, GreatestIs
  <2>6. hits # {} => v = LastOf(ns, n, BitSet!Max(hits))
    BY <2>3, <2>5 DEF LastOf, v
  <2>7. /\ hits = {} => \A x \in ns : x >= n
        /\ hits # {} => IsLast(ns, n, v)
    BY <2>1, <2>2, <2>4, <2>6, LastBefore
  <2>8. BitSet!PrevOf(s, n) = IF hits = {} THEN -1 ELSE v
    <3>1. ~(s.len = 0 \/ n <= 0)
      BY <1>0, <1>4
    <3> QED
      BY <1>1, <1>4, <3>1, Zenon
  <2>9. CASE hits = {}
    BY <2>7, <2>8, <2>9 DEF PrevIs
  <2>10. CASE hits # {}
    BY <1>0, <2>7, <2>8, <2>10, LastIsPrev
  <2> QED
    BY <2>9, <2>10
<1> QED
  BY <1>0, <1>2, <1>3, <1>4

\* Subsets and equality, word by word.
LEMMA SubsetIsRight ==
  ASSUME NEW s, NEW m, Stands(s, m), NEW t, NEW n, Stands(t, n)
  PROVE  BitSet!Subset(s, t) <=> m \subseteq n
<1>1. /\ m \in SUBSET Nat /\ s.len \in Nat
      /\ \A i \in 1..s.len : BitSet!Data(s)[i] = InWord(m, i)
      /\ \A i \in Nat \ {0} : i \notin 1..s.len => InWord(m, i) = {}
      /\ s.len > 0 => InWord(m, s.len) # {}
  BY StandsIs
<1>2. /\ n \in SUBSET Nat /\ t.len \in Nat
      /\ \A i \in 1..t.len : BitSet!Data(t)[i] = InWord(n, i)
      /\ \A i \in Nat \ {0} : i \notin 1..t.len => InWord(n, i) = {}
  BY StandsIs
<1>3. ASSUME BitSet!Subset(s, t) PROVE m \subseteq n
  <2>1. s.len <= t.len /\ \A i \in 1..s.len : BitSet!Data(s)[i] \ BitSet!Data(t)[i] = {}
    BY <1>3 DEF BitSet!Subset
  <2>2. \A i \in Nat \ {0} : InWord(m, i) \subseteq InWord(n, i)
    <3> SUFFICES ASSUME NEW i \in Nat \ {0} PROVE InWord(m, i) \subseteq InWord(n, i)
      OBVIOUS
    <3>1. CASE i \in 1..s.len
      <4>1. i \in 1..t.len
        BY <1>1, <1>2, <2>1, <3>1
      <4>2. BitSet!Data(s)[i] = InWord(m, i) /\ BitSet!Data(t)[i] = InWord(n, i)
        BY <1>1, <1>2, <3>1, <4>1
      <4>3. BitSet!Data(s)[i] \ BitSet!Data(t)[i] = {}
        BY <2>1, <3>1
      <4> QED
        BY <4>2, <4>3
    <3>2. CASE i \notin 1..s.len
      BY <1>1, <3>2
    <3> QED
      BY <3>1, <3>2
  <2> QED
    BY <1>1, <1>2, <2>2, SameWords
<1>4. ASSUME m \subseteq n PROVE BitSet!Subset(s, t)
  <2>1. \A i : InWord(m, i) \subseteq InWord(n, i)
    BY <1>4 DEF InWord
  <2>2. s.len <= t.len
    <3>1. CASE s.len = 0
      BY <1>2, <3>1
    <3>2. CASE s.len > 0
      <4>1. s.len \in Nat \ {0} /\ InWord(n, s.len) # {}
        BY <1>1, <2>1, <3>2
      <4>2. s.len \in 1..t.len
        BY <1>2, <4>1
      <4> QED
        BY <1>1, <1>2, <4>2
    <3> QED
      BY <1>1, <3>1, <3>2
  <2>3. \A i \in 1..s.len : BitSet!Data(s)[i] \ BitSet!Data(t)[i] = {}
    <3> SUFFICES ASSUME NEW i \in 1..s.len PROVE BitSet!Data(s)[i] \ BitSet!Data(t)[i] = {}
      OBVIOUS
    <3>1. i \in 1..t.len
      BY <1>1, <1>2, <2>2
    <3>2. BitSet!Data(s)[i] = InWord(m, i) /\ BitSet!Data(t)[i] = InWord(n, i)
      BY <1>1, <1>2, <3>1
    <3> QED
      BY <2>1, <3>2
  <2> QED
    BY <2>2, <2>3 DEF BitSet!Subset
<1> QED
  BY <1>3, <1>4

LEMMA EqualIsRight ==
  ASSUME NEW s, NEW m, Stands(s, m), NEW t, NEW n, Stands(t, n)
  PROVE  BitSet!Equal(s, t) <=> m = n
<1>1. /\ m \in SUBSET Nat /\ s.len \in Nat /\ BitSet!Data(s) \in Seq(SUBSET BitSet!Bits) /\ Len(BitSet!Data(s)) = s.len
      /\ \A i \in 1..s.len : BitSet!Data(s)[i] = InWord(m, i)
  BY StandsIs
<1>2. /\ n \in SUBSET Nat /\ t.len \in Nat /\ BitSet!Data(t) \in Seq(SUBSET BitSet!Bits) /\ Len(BitSet!Data(t)) = t.len
      /\ \A i \in 1..t.len : BitSet!Data(t)[i] = InWord(n, i)
  BY StandsIs
<1>3. ASSUME BitSet!Data(s) = BitSet!Data(t) PROVE m = n
  <2>1. s.len = t.len
    BY <1>1, <1>2, <1>3
  <2>2. \A i \in 1..s.len : BitSet!Data(s)[i] \ BitSet!Data(t)[i] = {} /\ BitSet!Data(t)[i] \ BitSet!Data(s)[i] = {}
    BY <1>3
  <2>3. BitSet!Subset(s, t) /\ BitSet!Subset(t, s)
    BY <1>1, <1>2, <2>1, <2>2 DEF BitSet!Subset
  <2>4. m \subseteq n /\ n \subseteq m
    BY <2>3, SubsetIsRight
  <2> QED
    BY <2>4
<1>4. ASSUME m = n PROVE BitSet!Data(s) = BitSet!Data(t)
  <2>1. BitSet!Subset(s, t) /\ BitSet!Subset(t, s)
    BY <1>4, SubsetIsRight
  <2>2. s.len = t.len
    BY <1>1, <1>2, <2>1 DEF BitSet!Subset
  <2>3. \A i \in 1..s.len : BitSet!Data(s)[i] = BitSet!Data(t)[i]
    BY <1>1, <1>2, <1>4, <2>2
  <2> DEFINE p == BitSet!Data(s)  q == BitSet!Data(t)
  <2>4. p \in Seq(SUBSET BitSet!Bits) /\ q \in Seq(SUBSET BitSet!Bits) /\ Len(p) = Len(q) /\ \A i \in 1..Len(p) : p[i] = q[i]
    BY <1>1, <1>2, <2>2, <2>3
  <2> HIDE DEF p, q
  <2>5. p = q
    BY <2>4
  <2> QED
    BY <2>5 DEF p, q
<1> QED
  BY <1>3, <1>4 DEF BitSet!Equal

-----------------------------------------------------------------------------
(* bitmask.Set: its size.                                                  *)

\* The numbers below k; there are finitely many.
Below(ns, k) == {x \in ns : x < k}

LEMMA BelowIsFinite ==
  ASSUME NEW ns \in SUBSET Nat, NEW k \in Nat
  PROVE  IsFiniteSet(Below(ns, k)) /\ Cardinality(Below(ns, k)) \in Nat
<1>1. Below(ns, k) \in SUBSET Nat
  BY DEF Below
<1>0. \A x \in Below(ns, k) : x <= k
  BY DEF Below
<1>2. IsFiniteSet(Below(ns, k))
  BY <1>0, <1>1, FS_BoundedSetOfNaturals
<1> QED
  BY <1>2, FS_CardinalityType

\* Another word brings as many numbers as it has bits.
LEMMA OneMoreWord ==
  ASSUME NEW ns \in SUBSET Nat, NEW i \in Nat \ {0}
  PROVE  Cardinality(Below(ns, i * bpw)) = Cardinality(Below(ns, (i - 1) * bpw)) + Cardinality(InWord(ns, i))
<1> DEFINE p == (i - 1) * bpw
           q == i * bpw
           L == Below(ns, p)
           W == InWord(ns, i)
           V == {x \in ns : p <= x /\ x < q}
           f == [b \in W |-> p + b]
<1>0. p \in Nat /\ q \in Nat /\ q = p + bpw /\ bpw \in Nat
  BY BitsAssumption
<1>1. W \subseteq 0..bpw-1 /\ \A b \in 0..bpw-1 : b \in W <=> p + b \in ns
  BY DEF InWord, BitSet!Bits
<1> HIDE DEF p, q, W
<1>2. IsFiniteSet(W)
  <2>1. IsFiniteSet(0..bpw-1)
    <3>1. 0 \in Int /\ bpw - 1 \in Int
      BY <1>0
    <3> QED
      BY <3>1, FS_Interval
  <2>2. W \in SUBSET (0..bpw-1)
    BY <1>1
  <2> QED
    BY <2>1, <2>2, FS_Subset
<1>3. f \in Bijection(W, V)
  <2>1. f \in [W -> V]
    BY <1>0, <1>1
  <2>2. \A x, y \in W : f[x] = f[y] => x = y
    BY <1>0, <1>1
  <2>3. \A v \in V : \E b \in W : f[b] = v
    <3> SUFFICES ASSUME NEW v \in V PROVE \E b \in W : f[b] = v
      OBVIOUS
    <3>1. v - p \in 0..bpw-1 /\ p + (v - p) = v
      BY <1>0
    <3>2. v - p \in W
      BY <1>1, <3>1
    <3> QED
      BY <3>1, <3>2
  <2> HIDE DEF f, V
  <2> QED
    BY <2>1, <2>2, <2>3, Fun_IsBij
<1>4. IsFiniteSet(V) /\ Cardinality(V) = Cardinality(W)
  <2>1. ExistsBijection(W, V)
    BY <1>3, Fun_ExistsBij, Zenon
  <2> HIDE DEF V
  <2> QED
    BY <1>2, <2>1, FS_Bijection
<1>5. Below(ns, q) = L \cup V /\ L \cap V = {}
  <2>1. \A x \in ns : (x < q <=> x < p \/ (p <= x /\ x < q)) /\ ~(x < p /\ p <= x)
    BY <1>0
  <2> QED
    BY <2>1 DEF Below
<1>6. IsFiniteSet(L) /\ Cardinality(L) \in Nat
  BY <1>0, BelowIsFinite
<1> HIDE DEF L, V
<1>7. Cardinality(L \cup V) = Cardinality(L) + Cardinality(V) - Cardinality(L \cap V)
  BY <1>4, <1>6, FS_Union
<1>8. Cardinality(L \cap V) = 0
  BY <1>5, FS_EmptySet
<1>9. Cardinality(V) \in Nat
  BY <1>4, FS_CardinalityType
<1>10. Cardinality(Below(ns, q)) = Cardinality(L) + Cardinality(W)
  BY <1>4, <1>5, <1>6, <1>7, <1>8, <1>9
<1> QED
  BY <1>10 DEF q, L, W, p

\* The function that Size computes.
SumOf(ws, n) ==
  CHOOSE f : f = [i \in 0..n |-> IF i = 0 THEN 0 ELSE f[i - 1] + Cardinality(ws[i])]

LEMMA SizeIs ==
  \A s : BitSet!Size(s) = SumOf(BitSet!Data(s), s.len)[s.len]
<1>1. \A S : BitSet!Cardinality(S) = Cardinality(S)
  BY OneCardinality
<1> SUFFICES ASSUME NEW s PROVE BitSet!Size(s) = SumOf(BitSet!Data(s), s.len)[s.len]
  OBVIOUS
<1> DEFINE G(f) == [i \in 0..s.len |-> IF i = 0 THEN 0 ELSE f[i - 1] + BitSet!Cardinality(BitSet!Data(s)[i])]
           H(f) == [i \in 0..s.len |-> IF i = 0 THEN 0 ELSE f[i - 1] + Cardinality(BitSet!Data(s)[i])]
<1>2. \A f : G(f) = H(f)
  BY <1>1
<1>3. BitSet!Size(s) = (CHOOSE f : f = G(f))[s.len]
  BY Zenon DEF BitSet!Size
<1>4. SumOf(BitSet!Data(s), s.len) = CHOOSE f : f = H(f)
  BY Zenon DEF SumOf
<1> HIDE DEF G, H
<1>5. (CHOOSE f : f = G(f)) = CHOOSE f : f = H(f)
  BY <1>2
<1> QED
  BY <1>3, <1>4, <1>5

\* Size: the numbers in the words up to i, for every i.
LEMMA SizeIsRight ==
  ASSUME NEW s, NEW ns, Stands(s, ns)
  PROVE  BitSet!Size(s) = Cardinality(ns)
<1> DEFINE ws == BitSet!Data(s)
           n == s.len
           h == SumOf(ws, n)
           g == [i \in 0..n |-> Cardinality(Below(ns, i * bpw))]
<1>0. n \in Nat /\ ns \in SUBSET Nat /\ \A i \in 1..n : ws[i] = InWord(ns, i)
  BY StandsIs
<1> HIDE DEF ws, n
<1>1. g[0] = 0
  <2>0. 0 * bpw = 0 /\ \A x \in ns : ~(x < 0)
    BY <1>0, BitsAssumption
  <2>1. Below(ns, 0 * bpw) = {}
    BY <2>0 DEF Below
  <2> QED
    BY <1>0, <2>1, FS_EmptySet
<1>2. \A i \in 1..n : g[i] = g[i - 1] + Cardinality(ws[i])
  <2> SUFFICES ASSUME NEW i \in 1..n PROVE g[i] = g[i - 1] + Cardinality(ws[i])
    OBVIOUS
  <2>1. i \in 0..n /\ i - 1 \in 0..n /\ i \in Nat \ {0}
    BY <1>0
  <2> QED
    BY <1>0, <2>1, OneMoreWord
<1>3. g = [i \in 0..n |-> IF i = 0 THEN 0 ELSE g[i - 1] + Cardinality(ws[i])]
  <2>1. \A i \in 0..n : g[i] = IF i = 0 THEN 0 ELSE g[i - 1] + Cardinality(ws[i])
    <3> HIDE DEF g
    <3> SUFFICES ASSUME NEW i \in 0..n PROVE g[i] = IF i = 0 THEN 0 ELSE g[i - 1] + Cardinality(ws[i])
      OBVIOUS
    <3>1. i = 0 \/ i \in 1..n
      BY <1>0
    <3> QED
      BY <1>1, <1>2, <3>1
  <2>2. g = [i \in 0..n |-> g[i]]
    OBVIOUS
  <2> HIDE DEF g
  <2> QED
    BY <2>1, <2>2
<1>4. h = [i \in 0..n |-> IF i = 0 THEN 0 ELSE h[i - 1] + Cardinality(ws[i])]
  <2> HIDE DEF g
  <2> QED
    BY <1>3 DEF SumOf
<1> HIDE DEF h, g
<1> DEFINE T == {k \in Nat : k <= n => h[k] = g[k]}
<1>5. 0 \in T
  BY <1>0, <1>1, <1>4
<1>6. ASSUME NEW k \in Nat, k \in T PROVE k + 1 \in T
  <2> SUFFICES ASSUME k + 1 <= n PROVE h[k + 1] = g[k + 1]
    OBVIOUS
  <2>1. k + 1 \in 1..n /\ k + 1 \in 0..n /\ (k + 1) - 1 = k /\ k + 1 # 0 /\ k <= n
    BY <1>0
  <2>2. h[k + 1] = h[k] + Cardinality(ws[k + 1])
    BY <1>4, <2>1
  <2>3. g[k + 1] = g[k] + Cardinality(ws[k + 1])
    BY <1>2, <2>1
  <2> QED
    BY <1>6, <2>1, <2>2, <2>3
<1>7. Nat \subseteq T
  <2> HIDE DEF T
  <2> QED
    BY <1>5, <1>6, NaturalSteps
<1>8. h[n] = g[n]
  BY <1>0, <1>7
<1>9. Below(ns, n * bpw) = ns
  <2>1. \A x \in ns : x < n * bpw
    <3> SUFFICES ASSUME NEW x \in ns PROVE x < n * bpw
      OBVIOUS
    <3>1. x \in Nat /\ BitSet!Word(x) \in 1..n
      BY NumbersAreIn DEF n
    <3>2. BitSet!Bit(x) \in 0..bpw-1 /\ x = (BitSet!Word(x) - 1) * bpw + BitSet!Bit(x)
      BY <3>1, WordBit DEF BitSet!Bits
    <3>3. BitSet!Word(x) - 1 \in Nat /\ BitSet!Word(x) - 1 < n
      BY <1>0, <3>1
    <3>4. (BitSet!Word(x) - 1) * bpw + bpw <= n * bpw /\ (BitSet!Word(x) - 1) * bpw \in Nat /\ n * bpw \in Nat
      BY <1>0, <3>3, Products
    <3> DEFINE y == (BitSet!Word(x) - 1) * bpw
               z == n * bpw
    <3> HIDE DEF y, z
    <3>5. y \in Nat /\ z \in Nat /\ y + bpw <= z /\ x = y + BitSet!Bit(x)
      BY <3>2, <3>4 DEF y, z
    <3>6. x < z
      BY <3>2, <3>5, BitsAssumption
    <3> QED
      BY <3>6 DEF z
  <2> QED
    BY <2>1 DEF Below
<1>10. g[n] = Cardinality(ns)
  BY <1>0, <1>9 DEF g
<1> QED
  BY <1>8, <1>10, SizeIs DEF h, ws, n

-----------------------------------------------------------------------------
(* bitmask.Set: the order of a visit.                                      *)

\* The loop of Visit: where it is, the rest of the word, and what was visited.
Visits == Nat \X (SUBSET BitSet!Bits) \X Seq(Int)

\* The next turn of the loop, within the word and behind it.
AfterBit(p) ==
  <<p[1], p[2] \ {BitSet!Min(p[2])}, Append(p[3], (p[1] - 1) * bpw + BitSet!Min(p[2]))>>

AfterWord(s, p) == <<p[1] + 1, BitSet!Data(s)[p[1] + 1], p[3]>>

\* One turn, and the function that Visited computes.
VisitTurn(f, s, p) ==
  IF p[2] # {} THEN f[AfterBit(p)] ELSE IF p[1] < s.len THEN f[AfterWord(s, p)] ELSE p[3]

Visit(s) == CHOOSE f : f = [p \in Visits |-> VisitTurn(f, s, p)]

LEMMA VisitedIs == \A s : BitSet!Visited(s) = Visit(s)[<<0, {}, <<>>>>]
BY Zenon DEF BitSet!Visited, Visit, Visits, VisitTurn, AfterBit, AfterWord

\* How far the lowest bit of a word is from its end.
Ahead(w) == IF w = {} THEN 0 ELSE bpw - BitSet!Min(w)

LEMMA AheadIs ==
  ASSUME NEW w \in SUBSET BitSet!Bits
  PROVE  /\ Ahead(w) \in Nat /\ Ahead(w) <= bpw
         /\ w # {} => /\ BitSet!Min(w) \in w /\ \A b \in w \ {BitSet!Min(w)} : BitSet!Min(w) < b
                      /\ w \ {BitSet!Min(w)} \in SUBSET BitSet!Bits
                      /\ Ahead(w \ {BitSet!Min(w)}) < Ahead(w)
<1>0. bpw \in Nat \ {0} /\ BitSet!Bits = 0..bpw-1
  BY BitsAssumption DEF BitSet!Bits
<1>1. CASE w = {}
  BY <1>0, <1>1 DEF Ahead
<1>2. CASE w # {}
  <2> DEFINE k == BitSet!Min(w)
             v == w \ {k}
             l == BitSet!Min(v)
  <2>1. k \in w /\ \A x \in w : k <= x
    <3>1. w \in SUBSET Nat
      BY <1>0
    <3> QED
      BY <1>2, <3>1, LeastIs
  <2>b. \A x \in w : x \in 0..bpw-1
    BY <1>0
  <2> HIDE DEF k
  <2>2. k \in 0..bpw-1 /\ \A b \in v : k < b
    <3>1. \A b \in v : b \in w /\ b # k
      OBVIOUS
    <3> QED
      BY <1>0, <2>1, <2>b, <3>1
  <2>3. v # {} => l \in v
    <3>1. v \in SUBSET Nat
      BY <2>b
    <3> HIDE DEF v
    <3> QED
      BY <3>1, LeastIs
  <2> HIDE DEF l
  <2>4. Ahead(w) = bpw - k /\ Ahead(v) = IF v = {} THEN 0 ELSE bpw - l
    BY <1>2 DEF Ahead, k, l
  <2>5. v # {} => l \in 0..bpw-1 /\ k < l
    BY <2>b, <2>2, <2>3
  <2> HIDE DEF v
  <2>6. Ahead(v) < Ahead(w) /\ Ahead(w) \in Nat /\ Ahead(w) <= bpw
    BY <1>0, <2>2, <2>4, <2>5
  <2> QED
    BY <2>1, <2>2, <2>6 DEF k, v
<1> QED
  BY <1>1, <1>2

\* Visit ends.
Steps(s, i) == (IF i < s.len THEN s.len - i ELSE 0) * (bpw + 1)

LEMMA StepsAre ==
  ASSUME NEW s, s.len \in Nat, NEW i \in Nat
  PROVE  Steps(s, i) \in Nat /\ (i < s.len => Steps(s, i) = Steps(s, i + 1) + bpw + 1)
BY BitsAssumption DEF Steps

Distance(s) == [q \in Visits |-> Steps(s, q[1]) + Ahead(q[2])]

LEMMA DistanceIs ==
  ASSUME NEW s, s.len \in Nat, NEW q \in Visits
  PROVE  /\ q[1] \in Nat /\ q[2] \in SUBSET BitSet!Bits /\ q[3] \in Seq(Int)
         /\ Distance(s)[q] = Steps(s, q[1]) + Ahead(q[2])
         /\ Distance(s)[q] \in Nat
<1>1. q[1] \in Nat /\ q[2] \in SUBSET BitSet!Bits /\ q[3] \in Seq(Int)
  BY DEF Visits
<1>2. Steps(s, q[1]) \in Nat
  BY <1>1, StepsAre
<1>3. Ahead(q[2]) \in Nat
  BY <1>1, AheadIs
<1>4. Distance(s)[q] = Steps(s, q[1]) + Ahead(q[2])
  BY DEF Distance
<1> QED
  BY <1>1, <1>2, <1>3, <1>4

LEMMA BitBrings ==
  ASSUME NEW s, IsWords(s), NEW q \in Visits, q[2] # {}
  PROVE  AfterBit(q) \in Visits /\ Distance(s)[AfterBit(q)] < Distance(s)[q]
<1> DEFINE v == q[2] \ {BitSet!Min(q[2])}
           x == (q[1] - 1) * bpw + BitSet!Min(q[2])
           z == Append(q[3], x)
           r == AfterBit(q)
<1>0. s.len \in Nat /\ bpw \in Nat
  BY BitsAssumption DEF IsWords
<1>1. q[1] \in Nat /\ q[2] \in SUBSET BitSet!Bits /\ q[3] \in Seq(Int)
  BY <1>0, DistanceIs
<1>2. v \in SUBSET BitSet!Bits /\ Ahead(v) < Ahead(q[2]) /\ BitSet!Min(q[2]) \in BitSet!Bits
  BY <1>1, AheadIs
<1>3. x \in Int
  BY <1>0, <1>1, <1>2 DEF BitSet!Bits
<1>4. r = <<q[1], v, z>>
  BY DEF AfterBit
<1> HIDE DEF v, x, r
<1>5. z \in Seq(Int)
  BY <1>1, <1>3
<1> HIDE DEF z
<1>6. r \in Visits /\ r[1] = q[1] /\ r[2] = v
  BY <1>1, <1>2, <1>4, <1>5 DEF Visits
<1>7. /\ Distance(s)[r] = Steps(s, q[1]) + Ahead(v)
      /\ Distance(s)[q] = Steps(s, q[1]) + Ahead(q[2])
  BY <1>0, <1>6, DistanceIs
<1>8. Steps(s, q[1]) \in Nat
  BY <1>0, <1>1, StepsAre
<1>9. Ahead(v) \in Nat /\ Ahead(q[2]) \in Nat
  BY <1>1, <1>2, AheadIs
<1> QED
  BY <1>2, <1>6, <1>7, <1>8, <1>9 DEF r

LEMMA WordBrings ==
  ASSUME NEW s, IsWords(s), NEW q \in Visits, q[1] < s.len
  PROVE  /\ AfterWord(s, q) \in Visits
         /\ q[2] = {} => Distance(s)[AfterWord(s, q)] < Distance(s)[q]
<1> DEFINE v == BitSet!Data(s)[q[1] + 1]
           r == AfterWord(s, q)
<1>0. s.len \in Nat /\ bpw \in Nat
  BY BitsAssumption DEF IsWords
<1>1. q[1] \in Nat /\ q[2] \in SUBSET BitSet!Bits /\ q[3] \in Seq(Int)
  BY <1>0, DistanceIs
<1>2. v \in SUBSET BitSet!Bits
  BY <1>0, <1>1, DataIs
<1>3. r = <<q[1] + 1, v, q[3]>>
  BY DEF AfterWord
<1> HIDE DEF v, r
<1>4. r \in Visits /\ r[1] = q[1] + 1 /\ r[2] = v
  BY <1>1, <1>2, <1>3 DEF Visits
<1>5. /\ Distance(s)[r] = Steps(s, q[1] + 1) + Ahead(v)
      /\ Distance(s)[q] = Steps(s, q[1]) + Ahead(q[2])
  BY <1>0, <1>4, DistanceIs
<1>6. Steps(s, q[1]) = Steps(s, q[1] + 1) + bpw + 1
  BY <1>0, <1>1, StepsAre
<1>7. Steps(s, q[1] + 1) \in Nat
  <2>1. q[1] + 1 \in Nat
    BY <1>1
  <2> QED
    BY <1>0, <2>1, StepsAre
<1>8. Ahead(v) \in Nat /\ Ahead(v) <= bpw /\ Ahead(q[2]) \in Nat
  BY <1>1, <1>2, AheadIs
<1> QED
  BY <1>0, <1>4, <1>5, <1>6, <1>7, <1>8 DEF r

\* So there is a function as Visited describes it, and it obeys the description.
LEMMA VisitIs ==
  ASSUME NEW s, IsWords(s), NEW p \in Visits
  PROVE  Visit(s)[p] = VisitTurn(Visit(s), s, p)
<1> DEFINE Ends == {q \in Visits : q[2] = {} /\ ~(q[1] < s.len)}
           out == [q \in Visits |-> q[3]]
           next == [q \in Visits |-> IF q[2] # {} THEN AfterBit(q) ELSE AfterWord(s, q)]
<1>1. Distance(s) \in [Visits -> Nat]
  <2>1. \A q \in Visits : Distance(s)[q] \in Nat
    BY DistanceIs DEF IsWords
  <2> QED
    BY <2>1 DEF Distance
<1>2. \A q \in Visits \ Ends : next[q] \in Visits /\ Distance(s)[next[q]] < Distance(s)[q]
  BY BitBrings, WordBrings
<1>3. PICK f : Outcome(f, Visits, Ends, out, next)
  <2> HIDE DEF Ends, out, next
  <2>1. Ending(Visits, Ends, out, next, Distance(s))
    BY <1>1, <1>2 DEF Ending
  <2> QED
    BY <2>1, OutcomeExists
<1>4. \A q \in Visits : f[q] = VisitTurn(f, s, q)
  BY <1>3 DEF Outcome, VisitTurn
<1>5. f = [q \in Visits |-> f[q]]
  BY <1>3 DEF Outcome
<1>6. f = [q \in Visits |-> VisitTurn(f, s, q)]
  BY <1>4, <1>5, Zenon
<1>7. Visit(s) = [q \in Visits |-> VisitTurn(Visit(s), s, q)]
  BY <1>6 DEF Visit
<1> QED
  BY <1>7

\* What is still to be visited.
Left(ns, i, w) == {x \in ns : (BitSet!Word(x) = i /\ BitSet!Bit(x) \in w) \/ BitSet!Word(x) > i}

\* The loop of Visit, so far.
SoFar(s, ns, p) ==
  /\ p[1] <= s.len
  /\ p[1] = 0 => p[2] = {}
  /\ p[1] > 0 => p[2] \subseteq InWord(ns, p[1])
  /\ Sorted(p[3])
  /\ BitSet!Range(p[3]) = ns \ Left(ns, p[1], p[2])
  /\ \A x \in ns \ Left(ns, p[1], p[2]), y \in Left(ns, p[1], p[2]) : x < y

InOrderOf(q, ns) == Sorted(q) /\ BitSet!Range(q) = ns

\* A greater number at the end keeps the order.
LEMMA AppendSorted ==
  ASSUME NEW q, Sorted(q), NEW v \in Int, \A x \in BitSet!Range(q) : x < v
  PROVE  Sorted(Append(q, v)) /\ BitSet!Range(Append(q, v)) = BitSet!Range(q) \cup {v}
<1> DEFINE z == Append(q, v)
<1>0. q \in Seq(Int) /\ Len(q) \in Nat
  BY DEF Sorted
<1>1. /\ z \in Seq(Int) /\ Len(z) = Len(q) + 1 /\ z[Len(q) + 1] = v
      /\ \A j \in 1..Len(q) : z[j] = q[j]
  BY <1>0
<1>2. \A j \in 1..Len(q) : q[j] \in BitSet!Range(q)
  BY <1>0 DEF BitSet!Range
<1>3. BitSet!Range(z) = BitSet!Range(q) \cup {v}
  <2>1. DOMAIN z = 1..Len(q) + 1 /\ DOMAIN q = 1..Len(q)
    BY <1>0, <1>1
  <2> HIDE DEF z
  <2>2. 1..Len(q) + 1 = (1..Len(q)) \cup {Len(q) + 1}
    BY <1>0
  <2> QED
    BY <1>1, <2>1, <2>2 DEF BitSet!Range
<1> HIDE DEF z
<1>4. \A i, j \in 1..Len(z) : i < j => z[i] < z[j]
  <2> SUFFICES ASSUME NEW i \in 1..Len(z), NEW j \in 1..Len(z), i < j PROVE z[i] < z[j]
    OBVIOUS
  <2>1. i \in 1..Len(q)
    BY <1>0, <1>1
  <2>2. CASE j \in 1..Len(q)
    BY <1>1, <2>1, <2>2 DEF Sorted
  <2>3. CASE j = Len(q) + 1
    BY <1>1, <1>2, <2>1, <2>3
  <2> QED
    BY <1>0, <1>1, <2>2, <2>3
<1> QED
  BY <1>1, <1>3, <1>4 DEF Sorted, z

\* The lowest bit that is left is the next number in order.
LEMMA BitVisited ==
  ASSUME NEW s, NEW ns, Stands(s, ns), NEW p \in Visits, SoFar(s, ns, p), p[2] # {}
  PROVE  SoFar(s, ns, AfterBit(p))
<1> DEFINE i == p[1]
           w == p[2]
           k == BitSet!Min(w)
           v == (i - 1) * bpw + k
           u == w \ {k}
           L == Left(ns, i, w)
           M == Left(ns, i, u)
<1>0. ns \in SUBSET Nat /\ i \in Nat /\ w \in SUBSET BitSet!Bits /\ p[3] \in Seq(Int)
  BY StandsIs DEF Visits
<1>1. i \in Nat \ {0} /\ w \subseteq InWord(ns, i) /\ i <= s.len
  BY <1>0 DEF SoFar
<1>2. k \in w /\ \A b \in u : k < b
  BY <1>0, AheadIs
<1>3. k \in BitSet!Bits /\ v \in ns
  BY <1>0, <1>1, <1>2 DEF InWord
<1>4. v \in Nat /\ BitSet!Word(v) = i /\ BitSet!Bit(v) = k
  BY <1>1, <1>3, Address
<1>5. /\ Sorted(p[3]) /\ BitSet!Range(p[3]) = ns \ L
      /\ \A x \in ns \ L, y \in L : x < y
  BY DEF SoFar
<1>6. AfterBit(p) = <<i, u, Append(p[3], v)>>
  BY DEF AfterBit
<1>7. \A x \in ns : x = v <=> BitSet!Word(x) = i /\ BitSet!Bit(x) = k
  <2> SUFFICES ASSUME NEW x \in ns PROVE x = v <=> BitSet!Word(x) = i /\ BitSet!Bit(x) = k
    OBVIOUS
  <2>1. x = (BitSet!Word(x) - 1) * bpw + BitSet!Bit(x)
    BY <1>0, WordBit
  <2> QED
    BY <1>4, <2>1
<1>8. v \in L
  BY <1>2, <1>3, <1>4 DEF Left
<1>9. M = L \ {v}
  BY <1>1, <1>4, <1>7 DEF Left
<1>10. \A y \in M : v < y
  <2> SUFFICES ASSUME NEW y \in M PROVE v < y
    OBVIOUS
  <2> DEFINE j == BitSet!Word(y)
             b == BitSet!Bit(y)
  <2>1. y \in Nat /\ ((j = i /\ b \in u) \/ j > i)
    BY <1>0 DEF Left
  <2>2. j \in Nat \ {0} /\ b \in BitSet!Bits /\ y = (j - 1) * bpw + b
    BY <2>1, WordBit
  <2> HIDE DEF j, b
  <2>3. i < j \/ (i = j /\ k <= b)
    <3>1. b \in u => k < b /\ k \in Int /\ b \in Int
      BY <1>2, <1>3, <2>2 DEF BitSet!Bits
    <3> QED
      BY <1>1, <2>1, <2>2, <3>1
  <2>4. v <= y
    BY <1>1, <1>3, <2>2, <2>3, Compare
  <2>5. v # y
    BY <1>9
  <2> QED
    BY <1>4, <2>1, <2>4, <2>5
<1> HIDE DEF v, u, L, M, k
<1>11. /\ Sorted(Append(p[3], v))
       /\ BitSet!Range(Append(p[3], v)) = BitSet!Range(p[3]) \cup {v}
  <2>1. v \in Int /\ \A x \in BitSet!Range(p[3]) : x < v
    BY <1>4, <1>5, <1>8
  <2> QED
    BY <1>5, <2>1, AppendSorted
<1>12. BitSet!Range(Append(p[3], v)) = ns \ M
  BY <1>3, <1>5, <1>8, <1>9, <1>11
<1>13. \A x \in ns \ M, y \in M : x < y
  BY <1>5, <1>8, <1>9, <1>10
<1>14. u \subseteq InWord(ns, i)
  BY <1>1 DEF u
<1> DEFINE z == Append(p[3], v)  r == AfterBit(p)
<1>15. r[1] = i /\ r[2] = u /\ r[3] = z
  BY <1>6
<1> HIDE DEF i, z, r
<1>16. SoFar(s, ns, r)
  BY <1>1, <1>11, <1>12, <1>13, <1>14, <1>15 DEF SoFar, z, M
<1> QED
  BY <1>16 DEF r

\* Between two words nothing is left out.
LEMMA WordVisited ==
  ASSUME NEW s, NEW ns, Stands(s, ns), NEW p \in Visits, SoFar(s, ns, p), p[2] = {}, p[1] < s.len
  PROVE  SoFar(s, ns, AfterWord(s, p))
<1> DEFINE i == p[1]
           w == InWord(ns, i + 1)
           r == AfterWord(s, p)
<1>0. ns \in SUBSET Nat /\ i \in Nat /\ s.len \in Nat /\ \A j \in 1..s.len : BitSet!Data(s)[j] = InWord(ns, j)
  BY StandsIs DEF Visits
<1>1. i + 1 \in 1..s.len
  BY <1>0
<1>2. r[1] = i + 1 /\ r[2] = w /\ r[3] = p[3]
  BY <1>0, <1>1 DEF AfterWord
<1>3. Left(ns, i + 1, w) = Left(ns, i, {})
  <2>1. \A x \in ns : BitSet!Word(x) \in Nat \ {0} /\ BitSet!Bit(x) \in InWord(ns, BitSet!Word(x))
    BY <1>0, WordBit, ByWords
  <2>2. \A x \in ns : BitSet!Word(x) > i <=> BitSet!Word(x) = i + 1 \/ BitSet!Word(x) > i + 1
    <3> SUFFICES ASSUME NEW x \in ns
                 PROVE  BitSet!Word(x) > i <=> BitSet!Word(x) = i + 1 \/ BitSet!Word(x) > i + 1
      OBVIOUS
    <3>1. BitSet!Word(x) \in Nat
      BY <2>1
    <3> QED
      BY <1>0, <3>1
  <2> QED
    BY <2>1, <2>2 DEF Left
<1>4. /\ Sorted(p[3]) /\ BitSet!Range(p[3]) = ns \ Left(ns, i, {})
      /\ \A x \in ns \ Left(ns, i, {}), y \in Left(ns, i, {}) : x < y
  BY DEF SoFar
<1> HIDE DEF i, w, r
<1>5. SoFar(s, ns, r)
  BY <1>0, <1>1, <1>2, <1>3, <1>4 DEF SoFar, w
<1> QED
  BY <1>5 DEF r

\* Behind the last word nothing is left.
LEMMA AllVisited ==
  ASSUME NEW s, NEW ns, Stands(s, ns), NEW p \in Visits, SoFar(s, ns, p), p[2] = {}, ~(p[1] < s.len)
  PROVE  InOrderOf(p[3], ns)
<1>1. s.len \in Nat /\ p[1] \in Nat /\ p[1] = s.len
  BY StandsIs DEF Visits, SoFar
<1>2. \A x \in ns : BitSet!Word(x) \in 1..s.len
  BY NumbersAreIn
<1>3. Left(ns, p[1], p[2]) = {}
  BY <1>1, <1>2 DEF Left
<1> QED
  BY <1>3 DEF SoFar, InOrderOf

\* Visit calls do with every number once, in order.
LEMMA VisitedIsRight ==
  ASSUME NEW s, NEW ns, Stands(s, ns)
  PROVE  InOrderOf(BitSet!Visited(s), ns)
<1> DEFINE T == {p \in Visits : SoFar(s, ns, p) => InOrderOf(Visit(s)[p], ns)}
<1>0. IsWords(s) /\ s.len \in Nat /\ ns \in SUBSET Nat
  BY StandsIs
<1>1. Distance(s) \in [Visits -> Nat]
  <2>1. \A q \in Visits : Distance(s)[q] \in Nat
    BY <1>0, DistanceIs
  <2> QED
    BY <2>1 DEF Distance
<1>2. ASSUME NEW p \in Visits, \A q \in Visits : Distance(s)[q] < Distance(s)[p] => q \in T
      PROVE  p \in T
  <2> SUFFICES ASSUME SoFar(s, ns, p) PROVE InOrderOf(Visit(s)[p], ns)
    OBVIOUS
  <2>1. Visit(s)[p] = VisitTurn(Visit(s), s, p)
    BY <1>0, VisitIs
  <2>2. CASE p[2] # {}
    <3>1. Visit(s)[p] = Visit(s)[AfterBit(p)]
      BY <2>1, <2>2 DEF VisitTurn
    <3>2. AfterBit(p) \in T
      BY <1>0, <1>2, <2>2, BitBrings
    <3>3. SoFar(s, ns, AfterBit(p))
      BY <2>2, BitVisited
    <3> QED
      BY <3>1, <3>2, <3>3
  <2>3. CASE p[2] = {} /\ p[1] < s.len
    <3>1. Visit(s)[p] = Visit(s)[AfterWord(s, p)]
      BY <2>1, <2>3 DEF VisitTurn
    <3>2. AfterWord(s, p) \in T
      BY <1>0, <1>2, <2>3, WordBrings
    <3>3. SoFar(s, ns, AfterWord(s, p))
      BY <2>3, WordVisited
    <3> QED
      BY <3>1, <3>2, <3>3
  <2>4. CASE p[2] = {} /\ ~(p[1] < s.len)
    <3>1. Visit(s)[p] = p[3]
      BY <2>1, <2>4 DEF VisitTurn
    <3> QED
      BY <2>4, <3>1, AllVisited
  <2> QED
    BY <2>2, <2>3, <2>4
<1>3. Visits \subseteq T
  <2> HIDE DEF T
  <2> QED
    BY <1>1, <1>2, MeasuredSteps
<1> DEFINE o == <<0, {}, <<>>>>
<1>4. o \in Visits
  <2>1. 0 \in Nat /\ {} \in SUBSET BitSet!Bits /\ <<>> \in Seq(Int)
    OBVIOUS
  <2> QED
    BY <2>1, Zenon DEF Visits
<1>5. SoFar(s, ns, o)
  <2>1. o[1] = 0 /\ o[2] = {} /\ o[3] = <<>>
    OBVIOUS
  <2>2. Sorted(<<>>) /\ BitSet!Range(<<>>) = {}
    BY DEF Sorted, BitSet!Range
  <2>3. \A x \in ns : BitSet!Word(x) > 0
    <3> SUFFICES ASSUME NEW x \in ns PROVE BitSet!Word(x) > 0
      OBVIOUS
    <3>1. BitSet!Word(x) \in Nat \ {0}
      BY <1>0, WordBit
    <3> QED
      BY <3>1
  <2>4. Left(ns, 0, {}) = ns
    BY <2>3 DEF Left
  <2> HIDE DEF o
  <2> QED
    BY <1>0, <2>1, <2>2, <2>4 DEF SoFar
<1>6. InOrderOf(Visit(s)[o], ns)
  BY <1>3, <1>4, <1>5
<1> QED
  BY <1>6, VisitedIs

-----------------------------------------------------------------------------
(* bitmask.Set: every call keeps what it should hold.                      *)

\* The inductive invariant: every set stands for its numbers.
BitsInv ==
  /\ memory = [s \in Values |-> memory[s]]
  /\ numbers = [s \in Values |-> numbers[s]]
  /\ \A s \in Values : Stands(memory[s], numbers[s])

LEMMA BitsStart == BitSet!Init => BitsInv
BY EmptyStands DEF BitSet!Init, BitsInv

\* A set becomes one that stands for its new numbers, the others stay.
LEMMA BecomesKeeps ==
  ASSUME BitsInv, NEW s \in Values, NEW value, NEW ns, Stands(value, ns),
         BitSet!Becomes(s, value, ns)
  PROVE  BitsInv'
<1>1. /\ memory' = [memory EXCEPT ![s] = value]
      /\ numbers' = [numbers EXCEPT ![s] = ns]
  BY DEF BitSet!Becomes
<1>2. /\ memory = [x \in Values |-> memory[x]] /\ numbers = [x \in Values |-> numbers[x]]
      /\ \A x \in Values : Stands(memory[x], numbers[x])
  BY DEF BitsInv
<1>3. /\ memory' = [x \in Values |-> memory'[x]]
      /\ numbers' = [x \in Values |-> numbers'[x]]
  BY <1>1, <1>2, Zenon
<1>4. \A x \in Values : Stands(memory'[x], numbers'[x])
  <2> SUFFICES ASSUME NEW x \in Values PROVE Stands(memory'[x], numbers'[x])
    OBVIOUS
  <2>1. CASE x = s
    <3>1. memory'[x] = value /\ numbers'[x] = ns
      BY <1>1, <1>2, <2>1
    <3> QED
      BY <3>1
  <2>2. CASE x # s
    <3>1. memory'[x] = memory[x] /\ numbers'[x] = numbers[x]
      BY <1>1, <1>2, <2>2
    <3> QED
      BY <1>2, <3>1
  <2> QED
    BY <2>1, <2>2
<1>5. \A x \in Values : Stands(memory[x], numbers[x])'
  BY <1>4 DEF Stands, Kept, IsWords, BitSet!Canonical, At, InWord
<1> QED
  BY <1>3, <1>5 DEF BitsInv

LEMMA BitsStand ==
  ASSUME BitsInv, NEW s \in Values
  PROVE  Stands(memory[s], numbers[s]) /\ Clean(memory[s])
<1>1. Stands(memory[s], numbers[s])
  BY DEF BitsInv
<1> QED
  BY <1>1, StandsIs

\* The results of two sets, into one that exists, and into a new one.
LEMMA CombineKeeps ==
  ASSUME BitsInv, NEW s \in Values, NEW x \in Values, NEW y \in Values, BitSet!Combine(s, x, y)
  PROVE  BitsInv'
<1> DEFINE t == memory[s]
           alias == s \in {x, y}
           m == numbers[x]
           n == numbers[y]
<1>0. Clean(t) /\ Stands(memory[x], m) /\ Stands(memory[y], n)
  BY BitsStand
<1>1. CASE BitSet!Becomes(s, BitSet!SetAnd(t, alias, memory[x], memory[y]), m \cap n)
  BY <1>0, <1>1, AndStands, BecomesKeeps
<1>2. CASE BitSet!Becomes(s, BitSet!SetAndNot(t, alias, memory[x], memory[y]), m \ n)
  BY <1>0, <1>2, AndNotStands, BecomesKeeps
<1>3. CASE BitSet!Becomes(s, BitSet!SetOr(t, alias, memory[x], memory[y]), m \cup n)
  BY <1>0, <1>3, OrStands, BecomesKeeps
<1>4. CASE BitSet!Becomes(s, BitSet!SetXor(t, alias, memory[x], memory[y]), (m \ n) \cup (n \ m))
  BY <1>0, <1>4, XorStands, BecomesKeeps
<1> QED
  BY <1>1, <1>2, <1>3, <1>4, Zenon DEF BitSet!Combine

LEMMA CreateKeeps ==
  ASSUME BitsInv, NEW s \in Values, NEW x \in Values, NEW y \in Values, BitSet!Create(s, x, y)
  PROVE  BitsInv'
<1> DEFINE t == BitSet!Empty
           m == numbers[x]
           n == numbers[y]
<1>0. Clean(t) /\ Stands(memory[x], m) /\ Stands(memory[y], n)
  BY BitsStand, EmptyStands, StandsIs
<1>1. CASE BitSet!Becomes(s, BitSet!AndOf(memory[x], memory[y]), n)
  <2>1. Stands(BitSet!SetAnd(t, FALSE, memory[y], memory[y]), n \cap n)
    BY <1>0, AndStands
  <2>2. n \cap n = n
    OBVIOUS
  <2>3. Stands(BitSet!AndOf(memory[x], memory[y]), n)
    BY <2>1, <2>2 DEF BitSet!AndOf
  <2> QED
    BY <1>1, <2>3, BecomesKeeps
<1>2. CASE BitSet!Becomes(s, BitSet!AndNotOf(memory[x], memory[y]), m \ n)
  <2>1. Stands(BitSet!AndNotOf(memory[x], memory[y]), m \ n)
    BY <1>0, AndNotStands DEF BitSet!AndNotOf
  <2> QED
    BY <1>2, <2>1, BecomesKeeps
<1>3. CASE BitSet!Becomes(s, BitSet!OrOf(memory[x], memory[y]), m \cup n)
  <2>1. Stands(BitSet!OrOf(memory[x], memory[y]), m \cup n)
    BY <1>0, OrStands DEF BitSet!OrOf
  <2> QED
    BY <1>3, <2>1, BecomesKeeps
<1>4. CASE BitSet!Becomes(s, BitSet!XorOf(memory[x], memory[y]), (m \ n) \cup (n \ m))
  <2>1. Stands(BitSet!XorOf(memory[x], memory[y]), (m \ n) \cup (n \ m))
    BY <1>0, XorStands DEF BitSet!XorOf
  <2> QED
    BY <1>4, <2>1, BecomesKeeps
<1> QED
  BY <1>1, <1>2, <1>3, <1>4, Zenon DEF BitSet!Create

\* Every call keeps the invariant.
LEMMA BitsStay == BitsInv /\ [BitSet!Next]_(BitSet!vars) => BitsInv'
<1> SUFFICES ASSUME BitsInv, [BitSet!Next]_(BitSet!vars) PROVE BitsInv'
  OBVIOUS
<1>1. CASE BitSet!Next
  <2>1. PICK s \in Values :
          \/ BitSet!Reset(s)
          \/ \E ns \in SUBSET BitSet!Numbers : BitSet!MakeNew(s, ns)
          \/ \E n \in BitSet!Numbers : BitSet!Add(s, n) \/ BitSet!Delete(s, n)
          \/ \E m, n \in -1..MaxNumber+1 : BitSet!AddRange(s, m, n) \/ BitSet!DeleteRange(s, m, n)
          \/ \E x \in Values : BitSet!Copy(s, x) \/ \E y \in Values : BitSet!Combine(s, x, y) \/ BitSet!Create(s, x, y)
    BY <1>1 DEF BitSet!Next
  <2>0. Stands(memory[s], numbers[s]) /\ Clean(memory[s])
    BY BitsStand
  <2>2. CASE BitSet!Reset(s)
    BY <2>0, <2>2, ResetStands, BecomesKeeps DEF BitSet!Reset
  <2>3. ASSUME NEW ns \in SUBSET BitSet!Numbers, BitSet!MakeNew(s, ns) PROVE BitsInv'
    BY <2>3, NewStands, BecomesKeeps DEF BitSet!MakeNew
  <2>4. ASSUME NEW n \in BitSet!Numbers, BitSet!Add(s, n) \/ BitSet!Delete(s, n) PROVE BitsInv'
    <3>1. n \in Nat
      BY BitsAssumption DEF BitSet!Numbers
    <3>2. CASE BitSet!Add(s, n)
      BY <2>0, <3>1, <3>2, AddStands, BecomesKeeps DEF BitSet!Add
    <3>3. CASE BitSet!Delete(s, n)
      BY <2>0, <3>1, <3>3, DeleteStands, BecomesKeeps DEF BitSet!Delete
    <3> QED
      BY <2>4, <3>2, <3>3
  <2>5. ASSUME NEW m \in -1..MaxNumber+1, NEW n \in -1..MaxNumber+1,
               BitSet!AddRange(s, m, n) \/ BitSet!DeleteRange(s, m, n)
        PROVE  BitsInv'
    <3>1. m \in Int /\ n \in Int
      BY BitsAssumption
    <3>2. CASE BitSet!AddRange(s, m, n)
      BY <2>0, <3>1, <3>2, AddRangeStands, BecomesKeeps DEF BitSet!AddRange
    <3>3. CASE BitSet!DeleteRange(s, m, n)
      BY <2>0, <3>1, <3>3, DeleteRangeStands, BecomesKeeps DEF BitSet!DeleteRange
    <3> QED
      BY <2>5, <3>2, <3>3
  <2>6. ASSUME NEW x \in Values, BitSet!Copy(s, x) PROVE BitsInv'
    <3>1. Stands(BitSet!SetTo(memory[s], memory[x]), numbers[x])
      BY <2>0, BitsStand, CopyStands
    <3> QED
      BY <2>6, <3>1, BecomesKeeps DEF BitSet!Copy
  <2>7. ASSUME NEW x \in Values, NEW y \in Values, BitSet!Combine(s, x, y) \/ BitSet!Create(s, x, y)
        PROVE  BitsInv'
    BY <2>7, CombineKeeps, CreateKeeps
  <2> QED
    BY <2>1, <2>2, <2>3, <2>4, <2>5, <2>6, <2>7
<1>2. CASE UNCHANGED BitSet!vars
  <2>1. memory' = memory /\ numbers' = numbers
    BY <1>2 DEF BitSet!vars
  <2> QED
    BY <2>1 DEF BitsInv, Stands, Kept, IsWords, BitSet!Canonical, At, InWord
<1> QED
  BY <1>1, <1>2

\* The invariant gives the answers.
LEMMA BitsAreRight == BitsInv => BitSet!BitSetIsASet
<1> SUFFICES ASSUME BitsInv PROVE BitSet!BitSetIsASet
  OBVIOUS
<1>1. ASSUME NEW s \in Values
      PROVE  LET o == memory[s]  ns == numbers[s]  visited == BitSet!Visited(o) IN
             /\ BitSet!Canonical(o)
             /\ BitSet!Range(visited) = ns /\ BitSet!Size(o) = BitSet!Cardinality(ns)
             /\ \A i, j \in DOMAIN visited : i < j => visited[i] < visited[j]
             /\ BitSet!IsEmpty(o) <=> ns = {}
             /\ ns # {} => BitSet!Maximum(o) = BitSet!Max(ns)
             /\ \A n \in -1..MaxNumber+1 :
                  /\ BitSet!ContainsNumber(o, n) <=> n \in ns
                  /\ BitSet!NextOf(o, n) = IF \A x \in ns : x <= n THEN -1 ELSE BitSet!Min({x \in ns : x > n})
                  /\ BitSet!PrevOf(o, n) = IF \A x \in ns : x >= n THEN -1 ELSE BitSet!Max({x \in ns : x < n})
  <2> DEFINE o == memory[s]  ns == numbers[s]  v == BitSet!Visited(o)
  <2>1. Stands(o, ns)
    BY BitsStand
  <2> HIDE DEF o, ns, v
  <2>2. BitSet!Canonical(o)
    BY <2>1 DEF Stands, Kept
  <2>3. Sorted(v) /\ BitSet!Range(v) = ns
    BY <2>1, VisitedIsRight DEF InOrderOf, v
  <2>4. \A i, j \in DOMAIN v : i < j => v[i] < v[j]
    <3>1. DOMAIN v = 1..Len(v)
      BY <2>3 DEF Sorted
    <3> QED
      BY <2>3, <3>1 DEF Sorted
  <2>5. BitSet!Size(o) = BitSet!Cardinality(ns)
    BY <2>1, SizeIsRight, OneCardinality
  <2>6. BitSet!IsEmpty(o) <=> ns = {}
    BY <2>1, EmptyIsRight
  <2>7. ns # {} => BitSet!Maximum(o) = BitSet!Max(ns)
    <3>1. o.len \in Nat
      BY <2>1, StandsIs
    <3> QED
      BY <2>1, <2>6, <3>1, MaximumIsRight DEF BitSet!IsEmpty
  <2>8. ASSUME NEW n \in -1..MaxNumber+1
        PROVE  /\ BitSet!ContainsNumber(o, n) <=> n \in ns
               /\ BitSet!NextOf(o, n) = IF \A x \in ns : x <= n THEN -1 ELSE BitSet!Min({x \in ns : x > n})
               /\ BitSet!PrevOf(o, n) = IF \A x \in ns : x >= n THEN -1 ELSE BitSet!Max({x \in ns : x < n})
    <3>1. n \in Int
      BY BitsAssumption
    <3>2. NextIs(ns, n, BitSet!NextOf(o, n))
      BY <2>1, <3>1, NextIsRight
    <3>3. PrevIs(ns, n, BitSet!PrevOf(o, n))
      BY <2>1, <3>1, PrevIsRight
    <3>4. BitSet!ContainsNumber(o, n) <=> n \in ns
      BY <2>1, <3>1, ContainsIsRight
    <3> QED
      BY <3>2, <3>3, <3>4, Zenon DEF NextIs, PrevIs
  <2> QED
    BY <2>2, <2>3, <2>4, <2>5, <2>6, <2>7, <2>8, Zenon DEF o, ns, v
<1>2. \A s, t \in Values :
        /\ BitSet!Equal(memory[s], memory[t]) <=> numbers[s] = numbers[t]
        /\ BitSet!Subset(memory[s], memory[t]) <=> numbers[s] \subseteq numbers[t]
  BY BitsStand, EqualIsRight, SubsetIsRight
<1> QED
  BY <1>1, <1>2, Zenon DEF BitSet!BitSetIsASet

-----------------------------------------------------------------------------
(* The containers side by side.                                            *)

ContainersInv ==
  /\ under = "aset" => SetInv
  /\ under = "amap" => MapInv
  /\ under = "mhstore" => StoreInv
  /\ under = "set" => EnabledInv
  /\ under = "segmented" => SegmentsInv
  /\ under = "bitmask" => BitsInv
  /\ under = "mapper" => MapperInv

LEMMA ContainersStart == ContainersInit => ContainersInv
<1> SUFFICES ASSUME ContainersInit PROVE ContainersInv
  OBVIOUS
<1>1. SetInv
  BY EmptySorted DEF ContainersInit, ArraySet!Init, SetInv
<1>2. MapInv
  <2>1. A = <<>> /\ DOMAIN dict = {}
    BY DEF ContainersInit, ArrayMap!Init, ArrayMap!NoEntries
  <2>2. KeysOf(A) = <<>>
    BY <2>1 DEF KeysOf
  <2> QED
    BY <2>1, <2>2, EmptySorted DEF MapInv
<1>3. StoreInv
  <2>1. store = [m \in Masks |-> <<>>] /\ set = <<>> /\ pairs = {}
    BY DEF ContainersInit, MHStore!Init
  <2> QED
    BY <2>1, EmptySorted DEF StoreInv
<1>4. under = "set" => EnabledInv
  BY EnabledStarts DEF ContainersInit
<1>5. SegmentsInv
  BY SegmentsStart DEF ContainersInit, Segments!Init
<1>6. BitsInv
  BY BitsStart DEF ContainersInit
<1>7. MapperInv
  BY MappersStart DEF ContainersInit
<1> QED
  BY <1>1, <1>2, <1>3, <1>4, <1>5, <1>6, <1>7 DEF ContainersInv

LEMMA ContainersStay == ContainersInv /\ [ContainersNext]_containers => ContainersInv'
<1> SUFFICES ASSUME ContainersInv, [ContainersNext]_containers PROVE ContainersInv'
  OBVIOUS
<1>1. CASE ContainersNext
  <2>1. under' = under
    BY <1>1 DEF ContainersNext
  <2>2. /\ under = "aset" => ArraySet!Next
        /\ under = "amap" => ArrayMap!Next
        /\ under = "mhstore" => MHStore!Next
        /\ under = "set" => Enabling!Next
        /\ under = "segmented" => Segments!Next
        /\ under = "bitmask" => BitSet!Next
        /\ under = "mapper" => Mappers!Next
    BY <1>1 DEF ContainersNext
  <2>3. under = "aset" => SetInv'
    BY <2>2, SetStays DEF ContainersInv
  <2>4. under = "amap" => MapInv'
    BY <2>2, MapStays DEF ContainersInv
  <2>5. under = "mhstore" => StoreInv'
    BY <2>2, StoreStays DEF ContainersInv
  <2>6. under = "set" => EnabledInv'
    BY <2>2, EnabledStays DEF ContainersInv
  <2>7. under = "segmented" => SegmentsInv'
    BY <2>2, SegmentsStay DEF ContainersInv
  <2>8. under = "bitmask" => BitsInv'
    BY <2>2, BitsStay DEF ContainersInv
  <2>9. under = "mapper" => MapperInv'
    BY <2>2, MappersStay DEF ContainersInv
  <2> QED
    BY <2>1, <2>3, <2>4, <2>5, <2>6, <2>7, <2>8, <2>9 DEF ContainersInv
<1>2. CASE UNCHANGED containers
  <2>1. /\ UNCHANGED <<under, a, elements, A, dict, store, set, pairs>>
        /\ UNCHANGED <<e, index, ordered, enabled>>
        /\ UNCHANGED <<segs, lastSegStart, indexCounter, data, pending, contents>>
        /\ UNCHANGED <<memory, numbers>>
        /\ UNCHANGED <<d, size, linear, gomap>>
    BY <1>2 DEF containers, sets, small, bits, maps
  <2>2. under = "aset" => SetInv'
    BY <2>1 DEF ContainersInv, SetInv
  <2>3. under = "amap" => MapInv'
    BY <2>1 DEF ContainersInv, MapInv
  <2>4. under = "mhstore" => StoreInv'
    BY <2>1 DEF ContainersInv, StoreInv
  <2>5. under = "set" => EnabledInv'
    BY <2>1, EnabledStays DEF ContainersInv, Enabling!vars
  <2>6. under = "segmented" => SegmentsInv'
    BY <2>1, SegmentsStay DEF ContainersInv, Segments!vars
  <2>7. under = "bitmask" => BitsInv'
    BY <2>1, BitsStay DEF ContainersInv, BitSet!vars
  <2>8. under = "mapper" => MapperInv'
    BY <2>1, MappersStay DEF ContainersInv, Mappers!vars
  <2> QED
    BY <2>1, <2>2, <2>3, <2>4, <2>5, <2>6, <2>7, <2>8 DEF ContainersInv
<1> QED
  BY <1>1, <1>2

\* The sorted slices of aset.Set, amap.Map and mhstore.MHStore stand for the
\* set, the map and the relation that the calls built (aset.go:28-128,
\* amap.go:36-193, mhstore.go:20-63), for any numbers, any threshold between
\* the two searches and any sequence of calls: also for slices of 256 elements
\* and more, the ones that the code searches exponentially.
THEOREM SortedSlicesStayRight == ContainersSpec => []SortedSlicesAreRight
<1>1. ContainersInv => SortedSlicesAreRight
  BY SetIsRight, MapIsRight, StoreIsRight DEF ContainersInv, SortedSlicesAreRight
<1> QED
  BY ContainersStart, ContainersStay, <1>1, PTL DEF ContainersSpec

\* set.Set visits and counts exactly what was enabled and not disabled since
\* (set.go:23-76), for any elements and calls.
THEOREM EnabledStayInFront == ContainersSpec => []EnabledIsEnabled
<1>1. ContainersInv => EnabledIsEnabled
  BY EnabledIsRight DEF ContainersInv, EnabledIsEnabled
<1> QED
  BY ContainersStart, ContainersStay, <1>1, PTL DEF ContainersSpec

\* A segment keeps what was appended before its Cut, whatever follows
\* (segmented.go:34-86), for any keys, items and calls.
THEOREM ContentsAreKept == ContainersSpec => []SegmentsKeepContents
<1>1. ContainersInv => SegmentsKeepContents
  BY SegmentsAreRight DEF ContainersInv, SegmentsKeepContents
<1> QED
  BY ContainersStart, ContainersStay, <1>1, PTL DEF ContainersSpec

\* A bitmask.Set holds the numbers that it should, in canonical form, and
\* answers and visits accordingly (bitmask.go:52-602), for any width of the
\* words, any numbers and any sequence of calls: into a set of its own, into
\* an operand or into a set that was longer before.
THEOREM NumbersAreKept == ContainersSpec => []BitSetIsASet
<1>1. ContainersInv => BitSetIsASet
  BY BitsAreRight DEF ContainersInv, BitSetIsASet
<1> QED
  BY ContainersStart, ContainersStay, <1>1, PTL DEF ContainersSpec

\* hamap and linear hold the pairs that Go's map holds, each once, and find
\* them (hamap.go:60-330, linear.go:17-75), however many keys collide, but for
\* the two exceptions that the property names; for any keys, hasher, values,
\* threshold between the searches and sequence of calls.
THEOREM MappersHoldTheMap == ContainersSpec => []MappersAgree
<1>1. ContainersInv => MappersAgree
  BY MappersAreRight DEF ContainersInv, MappersAgree
<1> QED
  BY ContainersStart, ContainersStay, <1>1, PTL DEF ContainersSpec

-----------------------------------------------------------------------------
(* The pools of pquery.Maker.                                              *)

Distinct(s) == \A x, y \in 1..Len(s) : s[x] = s[y] => x = y

IsBlock(b) == b = [kind |-> b.kind, items |-> b.items] /\ b.kind \in {"Arr", "Obj"}

IsHeap(h) ==
  /\ \E S : h \in Seq(S)
  /\ \A id \in 1..Len(h) : IsBlock(h[id])

\* Each value is lent, or in the pool p of those of kind k, or in the pool q of
\* those of kind l, once; in a pool it is empty.
Loans(u, p, q, h, k, l) ==
  /\ IsHeap(h)
  /\ u \in Seq(Nat) /\ Distinct(u)
  /\ p \in Seq(Nat) /\ Distinct(p)
  /\ q \in Seq(Nat) /\ Distinct(q)
  /\ \A id \in ToSet(u) : id \notin ToSet(p) /\ id \notin ToSet(q)
  /\ \A id \in ToSet(p) : id \notin ToSet(q)
  /\ ToSet(u) \cup ToSet(p) \cup ToSet(q) = 1..Len(h)
  /\ \A id \in ToSet(p) : h[id] = [kind |-> k, items |-> <<>>]
  /\ \A id \in ToSet(q) : h[id] = [kind |-> l, items |-> <<>>]

Marks == {"path", "select", "arguments", "argumentPath", "object", "lent"} \X Nat

\* The values on a stack of marks are among those in L.
Held(ms, L) ==
  /\ ms \in Seq(Marks)
  /\ \A x \in 1..Len(ms) : ms[x][1] = "lent" => ms[x][2] \in L

LoanInv ==
  /\ Loans(usedStack, arrayPool, mapPool, heap, "Arr", "Obj")
  /\ pc \notin {"return", "ended"} => Held(mstack, ToSet(usedStack))
  /\ pc = "ended" => usedStack = <<>>

LEMMA OneIn ==
  ASSUME NEW s \in Seq(Nat), Distinct(s), NEW x \in Nat, x \notin ToSet(s)
  PROVE  /\ Append(s, x) \in Seq(Nat) /\ Distinct(Append(s, x))
         /\ ToSet(Append(s, x)) = ToSet(s) \cup {x}
<1> DEFINE t == Append(s, x)
           n == Len(s)
<1>1. /\ t \in Seq(Nat) /\ Len(t) = n + 1 /\ n \in Nat /\ DOMAIN t = 1..n+1 /\ DOMAIN s = 1..n
      /\ \A i \in 1..n : t[i] = s[i]
      /\ t[n + 1] = x
  BY AppendProperties
<1> HIDE DEF t, n
<1>2. \A i \in 1..n : s[i] # x
  BY <1>1 DEF ToSet
<1>3. Distinct(t)
  <2> SUFFICES ASSUME NEW i \in 1..n+1, NEW j \in 1..n+1, t[i] = t[j] PROVE i = j
    BY <1>1 DEF Distinct
  <2>1. CASE i \in 1..n /\ j \in 1..n
    BY <2>1, <1>1 DEF Distinct, n
  <2>2. CASE i = n + 1 \/ j = n + 1
    BY <2>2, <1>1, <1>2
  <2> QED
    BY <2>1, <2>2, <1>1
<1>4. ToSet(t) = ToSet(s) \cup {x}
  <2>1. ToSet(t) = {t[i] : i \in 1..n+1} /\ ToSet(s) = {s[i] : i \in 1..n}
    BY <1>1 DEF ToSet
  <2>2. \A i \in 1..n+1 : i \in 1..n \/ i = n + 1
    BY <1>1
  <2>3. n + 1 \in 1..n+1 /\ \A i \in 1..n : i \in 1..n+1
    BY <1>1
  <2> QED
    BY <2>1, <2>2, <2>3, <1>1
<1> QED
  BY <1>1, <1>3, <1>4 DEF t

LEMMA LastOut ==
  ASSUME NEW S, NEW s \in Seq(S), s # <<>>
  PROVE  /\ Last(s) \in ToSet(s) /\ Last(s) \in S
         /\ Last(s) = s[Len(s)] /\ Len(s) \in Nat \ {0}
         /\ Front(s) \in Seq(S) /\ Len(Front(s)) = Len(s) - 1
         /\ \A i \in 1..Len(s)-1 : Front(s)[i] = s[i]
         /\ Distinct(s) => Distinct(Front(s)) /\ ToSet(Front(s)) = ToSet(s) \ {Last(s)}
<1> DEFINE n == Len(s)
           t == Front(s)
<1>1. n \in Nat \ {0} /\ DOMAIN s = 1..n
  BY EmptySeq
<1>2. Last(s) = s[n] /\ s[n] \in ToSet(s) /\ s[n] \in S
  BY <1>1 DEF Last, ToSet
<1>3. t = SubSeq(s, 1, n - 1)
  BY DEF Front
<1>4. t \in Seq(S) /\ Len(t) = n - 1 /\ \A i \in 1..n-1 : t[i] = s[i]
  BY <1>1, <1>3
<1>5. DOMAIN t = 1..n-1
  BY <1>4
<1> HIDE DEF t, n
<1>6. ASSUME Distinct(s) PROVE Distinct(t) /\ ToSet(t) = ToSet(s) \ {s[n]}
  <2>1. \A i \in 1..n-1 : i \in 1..n /\ i # n
    BY <1>1
  <2>2. \A i \in 1..n : i = n \/ i \in 1..n-1
    BY <1>1
  <2>3. Distinct(t)
    BY <2>1, <1>4, <1>6 DEF Distinct, n
  <2>8. n \in 1..n /\ \A i, j \in 1..n : s[i] = s[j] => i = j
    BY <1>1, <1>6 DEF Distinct, n
  <2>4. \A i \in 1..n-1 : s[i] # s[n]
    BY <2>1, <2>8
  <2>5. ToSet(t) = {t[i] : i \in 1..n-1} /\ ToSet(s) = {s[i] : i \in 1..n}
    BY <1>1, <1>5 DEF ToSet
  <2>6. ToSet(t) \subseteq ToSet(s) \ {s[n]}
    BY <2>1, <2>4, <2>5, <1>4
  <2>7. ToSet(s) \ {s[n]} \subseteq ToSet(t)
    BY <2>2, <2>5, <1>4
  <2> QED
    BY <2>3, <2>6, <2>7
<1> QED
  BY <1>1, <1>2, <1>4, <1>6 DEF t, n

-----------------------------------------------------------------------------
LEMMA HeapGrows ==
  ASSUME NEW h, IsHeap(h), NEW b, IsBlock(b)
  PROVE  /\ IsHeap(Append(h, b)) /\ Len(h) \in Nat
         /\ Len(Append(h, b)) = Len(h) + 1
         /\ \A i \in 1..Len(h) : Append(h, b)[i] = h[i]
         /\ Append(h, b)[Len(h) + 1] = b
<1>1. PICK S : h \in Seq(S)
  BY DEF IsHeap
<1>2. h \in Seq(S \cup {b})
  BY <1>1, SeqMonotonic
<1> DEFINE t == Append(h, b)
<1>3. /\ t \in Seq(S \cup {b}) /\ Len(t) = Len(h) + 1 /\ Len(h) \in Nat
      /\ \A i \in 1..Len(h) : t[i] = h[i]
      /\ t[Len(h) + 1] = b
  BY <1>2, AppendProperties
<1> HIDE DEF t
<1>4. \A i \in 1..Len(t) : i \in 1..Len(h) \/ i = Len(h) + 1
  BY <1>3
<1>5. \A i \in 1..Len(t) : IsBlock(t[i])
  BY <1>3, <1>4 DEF IsHeap
<1> QED
  BY <1>3, <1>5 DEF IsHeap, t

Filled(h, id, v) == [h EXCEPT ![id].items = v]

\* t is h, with a new value at id.
IsFilled(t, h, id) ==
  /\ Len(t) = Len(h)
  /\ \A i \in 1..Len(h) : i # id => t[i] = h[i]

LEMMA HeapChanges ==
  ASSUME NEW h, IsHeap(h), NEW id \in 1..Len(h), NEW v
  PROVE  /\ IsHeap(Filled(h, id, v)) /\ IsFilled(Filled(h, id, v), h, id) /\ Len(h) \in Nat
         /\ Filled(h, id, v)[id] = [kind |-> h[id].kind, items |-> v]
<1> DEFINE t == Filled(h, id, v)
           b == [kind |-> h[id].kind, items |-> v]
<1>1. PICK S : h \in Seq(S)
  BY DEF IsHeap
<1>2. h \in Seq(S \cup {b})
  BY <1>1, SeqMonotonic
<1>3. [h[id] EXCEPT !.items = v] = b
  <2>1. h[id] = [kind |-> h[id].kind, items |-> h[id].items]
    BY DEF IsHeap, IsBlock
  <2> QED
    BY <2>1
<1>4. t = [h EXCEPT ![id] = b]
  BY <1>3 DEF Filled
<1> HIDE DEF b, t
<1>5. /\ t \in Seq(S \cup {b}) /\ Len(t) = Len(h)
      /\ \A i \in 1..Len(h) : t[i] = IF i = id THEN b ELSE h[i]
  BY <1>2, <1>4, ExceptSeq
<1>6. IsBlock(b)
  BY DEF IsBlock, IsHeap, b
<1>7. \A i \in 1..Len(t) : IsBlock(t[i])
  BY <1>5, <1>6 DEF IsHeap
<1>8. Len(h) \in Nat
  BY <1>1
<1> QED
  BY <1>5, <1>7, <1>8 DEF IsHeap, IsFilled, t, b

LEMMA HeldPopped ==
  ASSUME NEW ms, NEW L, Held(ms, L)
  PROVE  Held(Popped(ms), L)
<1>1. CASE ms = <<>>
  BY <1>1 DEF Popped
<1>2. CASE ms # <<>>
  <2>1. /\ Len(ms) \in Nat \ {0} /\ Front(ms) \in Seq(Marks) /\ Len(Front(ms)) = Len(ms) - 1
        /\ \A i \in 1..Len(ms)-1 : Front(ms)[i] = ms[i]
    BY <1>2, LastOut DEF Held
  <2>2. \A i \in 1..Len(ms)-1 : i \in 1..Len(ms)
    BY <2>1
  <2> QED
    BY <2>1, <2>2, <1>2 DEF Held, Popped
<1> QED
  BY <1>1, <1>2

LEMMA HeldPushed ==
  ASSUME NEW ms, NEW L, Held(ms, L), NEW m \in Marks, m[1] = "lent" => m[2] \in L
  PROVE  Held(Append(ms, m), L)
<1> DEFINE t == Append(ms, m)
<1>1. /\ t \in Seq(Marks) /\ Len(t) = Len(ms) + 1 /\ Len(ms) \in Nat
      /\ \A i \in 1..Len(ms) : t[i] = ms[i]
      /\ t[Len(ms) + 1] = m
  BY AppendProperties DEF Held
<1> HIDE DEF t
<1>2. \A i \in 1..Len(t) : i \in 1..Len(ms) \/ i = Len(ms) + 1
  BY <1>1
<1>3. \A i \in 1..Len(t) : t[i][1] = "lent" => t[i][2] \in L
  BY <1>1, <1>2 DEF Held
<1> QED
  BY <1>1, <1>3 DEF Held, t

LEMMA HeldOfMore ==
  ASSUME NEW ms, NEW L, NEW M, Held(ms, L), L \subseteq M
  PROVE  Held(ms, M)
BY DEF Held

LEMMA HeldByNone ==
  ASSUME NEW L
  PROVE  Held(<<>>, L)
BY DEF Held

LEMMA HeldOnTop ==
  ASSUME NEW ms, NEW L, Held(ms, L), TopOf(ms)[1] = "lent"
  PROVE  TopOf(ms)[2] \in L
<1>1. ms # <<>>
  BY DEF TopOf
<1>2. ms \in Seq(Marks)
  BY DEF Held
<1>3. Last(ms) = ms[Len(ms)] /\ Len(ms) \in Nat \ {0}
  BY <1>1, <1>2, LastOut
<1>4. TopOf(ms) = ms[Len(ms)] /\ Len(ms) \in 1..Len(ms)
  BY <1>1, <1>3 DEF TopOf
<1> QED
  BY <1>4 DEF Held

\* t is h, with other values where L has them.
ChangesOnly(t, h, L) == Len(t) = Len(h) /\ \A i \in 1..Len(h) : i \notin L => t[i] = h[i]

\* A value that is put where it belongs changes something that is lent.
LEMMA PutKeeps ==
  ASSUME NEW h, IsHeap(h), NEW L, Held(mstack, L), L \subseteq 1..Len(h), NEW v
  PROVE  IsHeap(Put(h, v)) /\ ChangesOnly(Put(h, v), h, L)
<1> DEFINE id == Top[2]
           w == Append(h[id].items, <<IF h[id].kind = "Obj" THEN lastObjField ELSE "", v>>)
<1>1. CASE Top[1] # "lent"
  BY <1>1 DEF Put, ChangesOnly
<1>2. CASE Top[1] = "lent"
  <2>1. id \in L /\ id \in 1..Len(h)
    BY <1>2, HeldOnTop DEF Top
  <2>2. Put(h, v) = Filled(h, id, w)
    BY <1>2 DEF Put, Filled
  <2> HIDE DEF id, w
  <2>3. IsHeap(Filled(h, id, w)) /\ IsFilled(Filled(h, id, w), h, id)
    BY <2>1, HeapChanges
  <2> QED
    BY <2>1, <2>2, <2>3 DEF IsFilled, ChangesOnly
<1> QED
  BY <1>1, <1>2

LEMMA LoansSwap ==
  ASSUME NEW u, NEW p, NEW q, NEW h, NEW k, NEW l, Loans(u, p, q, h, k, l)
  PROVE  Loans(u, q, p, h, l, k)
BY DEF Loans

\* What a call borrows is no longer in its pool, and on usedStack.
LEMMA BorrowKeeps ==
  ASSUME NEW p, NEW q, NEW k \in {"Arr", "Obj"}, NEW l,
         Loans(usedStack, p, q, heap, k, l), Held(mstack, ToSet(usedStack)), Borrow(k, p)
  PROVE  Loans(usedStack', Popped(p), q, heap', k, l) /\ Held(mstack', ToSet(usedStack'))
<1> DEFINE u == ToSet(usedStack)
           id == IF p = <<>> THEN Len(heap) + 1 ELSE Last(p)
           h == IF p = <<>> THEN Append(heap, [kind |-> k, items |-> <<>>]) ELSE heap
<1>1. /\ usedStack' = Append(usedStack, id)
      /\ heap' = Put(h, Lent(id))
      /\ mstack' = Append(mstack, Lent(id))
  BY DEF Borrow
<1>2. /\ IsHeap(heap) /\ p \in Seq(Nat) /\ Distinct(p) /\ usedStack \in Seq(Nat) /\ Distinct(usedStack)
      /\ u \cup ToSet(p) \cup ToSet(q) = 1..Len(heap)
      /\ \A i \in u : i \notin ToSet(p) /\ i \notin ToSet(q)
      /\ \A i \in ToSet(p) : i \notin ToSet(q)
  BY DEF Loans
<1> HIDE DEF u
<1>3. /\ id \in Nat /\ id \notin u /\ id \notin ToSet(q)
      /\ IsHeap(h) /\ u \cup {id} \cup ToSet(Popped(p)) \cup ToSet(q) = 1..Len(h)
      /\ Popped(p) \in Seq(Nat) /\ Distinct(Popped(p)) /\ ToSet(Popped(p)) = ToSet(p) \ {id}
      /\ \A i \in ToSet(p) \cup ToSet(q) : h[i] = heap[i]
  <2>1. CASE p = <<>>
    <3> DEFINE b == [kind |-> k, items |-> <<>>]
    <3>1. IsBlock(b)
      BY DEF IsBlock
    <3>2. id = Len(heap) + 1 /\ h = Append(heap, b)
      BY <2>1
    <3> HIDE DEF id, h, b
    <3>3. /\ IsHeap(h) /\ Len(heap) \in Nat /\ Len(h) = Len(heap) + 1
          /\ \A i \in 1..Len(heap) : h[i] = heap[i]
      BY <1>2, <3>1, <3>2, HeapGrows
    <3>4. Popped(p) = <<>> /\ ToSet(p) = {} /\ ToSet(Popped(p)) = {}
      BY <2>1 DEF Popped, ToSet
    <3>5. id \notin 1..Len(heap) /\ 1..Len(h) = 1..Len(heap) \cup {id} /\ id \in Nat
      BY <3>2, <3>3
    <3> QED
      BY <1>2, <2>1, <3>3, <3>4, <3>5
  <2>2. CASE p # <<>>
    <3>1. id = Last(p) /\ h = heap
      BY <2>2
    <3> HIDE DEF id, h
    <3>2. /\ Last(p) \in ToSet(p) /\ Last(p) \in Nat
          /\ Front(p) \in Seq(Nat) /\ Distinct(Front(p)) /\ ToSet(Front(p)) = ToSet(p) \ {Last(p)}
      BY <1>2, <2>2, LastOut
    <3>3. Popped(p) = Front(p)
      BY <2>2 DEF Popped
    <3> QED
      BY <1>2, <3>1, <3>2, <3>3
  <2> QED
    BY <2>1, <2>2
<1> HIDE DEF id, h
<1>4. usedStack' \in Seq(Nat) /\ Distinct(usedStack') /\ ToSet(usedStack') = u \cup {id}
  BY <1>1, <1>2, <1>3, OneIn DEF u
<1>5. /\ IsHeap(heap') /\ Len(heap') = Len(h)
      /\ \A i \in 1..Len(h) : i \notin u => heap'[i] = h[i]
  <2>1. Held(mstack, u) /\ u \subseteq 1..Len(h)
    BY <1>3 DEF u
  <2>2. IsHeap(heap') /\ ChangesOnly(heap', h, u)
    BY <1>1, <1>3, <2>1, PutKeeps
  <2> QED
    BY <2>2 DEF ChangesOnly
<1>6. Held(mstack', ToSet(usedStack'))
  <2> DEFINE L == ToSet(usedStack')
  <2>1. Held(mstack, L)
    BY <1>4, HeldOfMore DEF u
  <2>2. Lent(id) \in Marks /\ Lent(id)[2] \in L
    BY <1>3, <1>4 DEF Lent, Marks
  <2> HIDE DEF L
  <2> QED
    BY <1>1, <2>1, <2>2, HeldPushed DEF L
<1>7. \A i \in ToSet(Popped(p)) \cup ToSet(q) : heap'[i] = heap[i]
  BY <1>2, <1>3, <1>5
<1> QED
  BY <1>2, <1>3, <1>4, <1>5, <1>6, <1>7 DEF Loans

\* What is given back goes from usedStack to its pool, emptied.
LEMMA GiveBackKeeps ==
  ASSUME NEW u, NEW p, NEW q, NEW h, NEW k, NEW l, Loans(u, p, q, h, k, l),
         u # <<>>, h[Last(u)].kind = k
  PROVE  Loans(Front(u), Append(p, Last(u)), q, Filled(h, Last(u), <<>>), k, l)
<1> DEFINE id == Last(u)
           t == Filled(h, id, <<>>)
<1>1. /\ IsHeap(h) /\ u \in Seq(Nat) /\ Distinct(u) /\ p \in Seq(Nat) /\ Distinct(p)
      /\ ToSet(u) \cup ToSet(p) \cup ToSet(q) = 1..Len(h)
      /\ \A i \in ToSet(u) : i \notin ToSet(p) /\ i \notin ToSet(q)
  BY DEF Loans
<1>2. /\ id \in ToSet(u) /\ id \in Nat
      /\ Front(u) \in Seq(Nat) /\ Distinct(Front(u)) /\ ToSet(Front(u)) = ToSet(u) \ {id}
  BY <1>1, LastOut
<1> HIDE DEF id
<1>3. /\ Append(p, id) \in Seq(Nat) /\ Distinct(Append(p, id))
      /\ ToSet(Append(p, id)) = ToSet(p) \cup {id}
  BY <1>1, <1>2, OneIn
<1>4. /\ IsHeap(t) /\ IsFilled(t, h, id) /\ t[id] = [kind |-> h[id].kind, items |-> <<>>]
  BY <1>1, <1>2, HeapChanges
<1> HIDE DEF t
<1>5. Len(t) = Len(h) /\ \A i \in ToSet(p) \cup ToSet(q) : t[i] = h[i]
  BY <1>1, <1>2, <1>4 DEF IsFilled
<1>6. h[id].kind = k
  BY DEF id
<1>7. Loans(Front(u), Append(p, id), q, t, k, l)
  <2>1. /\ \A i \in ToSet(Front(u)) : i \notin ToSet(Append(p, id)) /\ i \notin ToSet(q)
        /\ \A i \in ToSet(Append(p, id)) : i \notin ToSet(q)
        /\ ToSet(Front(u)) \cup ToSet(Append(p, id)) \cup ToSet(q) = 1..Len(t)
    BY <1>1, <1>2, <1>3, <1>5 DEF Loans
  <2>2. /\ \A i \in ToSet(Append(p, id)) : t[i] = [kind |-> k, items |-> <<>>]
        /\ \A i \in ToSet(q) : t[i] = [kind |-> l, items |-> <<>>]
    BY <1>3, <1>4, <1>5, <1>6 DEF Loans
  <2> QED
    BY <1>2, <1>3, <1>4, <2>1, <2>2 DEF Loans
<1> QED
  BY <1>7 DEF id, t

LEMMA ConcatDistinct ==
  ASSUME NEW s \in Seq(Nat), NEW t \in Seq(Nat), Distinct(s), Distinct(t),
         \A i \in ToSet(s) : i \notin ToSet(t)
  PROVE  s \o t \in Seq(Nat) /\ Distinct(s \o t) /\ ToSet(s \o t) = ToSet(s) \cup ToSet(t)
<1> DEFINE m == Len(s)
           n == Len(t)
           b == s \o t
<1>1. /\ b \in Seq(Nat) /\ Len(b) = m + n /\ m \in Nat /\ n \in Nat
      /\ \A i \in 1..m+n : b[i] = IF i <= m THEN s[i] ELSE t[i - m]
      /\ DOMAIN s = 1..m /\ DOMAIN t = 1..n /\ DOMAIN b = 1..m+n
  BY ConcatProperties
<1>2. /\ \A i, j \in 1..m : s[i] = s[j] => i = j
      /\ \A i, j \in 1..n : t[i] = t[j] => i = j
  BY DEF Distinct
<1> HIDE DEF m, n, b
<1>3. /\ \A i \in 1..m : i \in 1..m+n /\ b[i] = s[i]
      /\ \A i \in 1..n : i + m \in 1..m+n /\ b[i + m] = t[i]
  <2>1. \A i \in 1..n : i + m \in 1..m+n /\ ~(i + m <= m) /\ (i + m) - m = i
    BY <1>1
  <2>2. \A i \in 1..m : i \in 1..m+n /\ i <= m
    BY <1>1
  <2> QED
    BY <1>1, <2>1, <2>2
<1>4. \A i \in 1..m+n : i \in 1..m \/ (i - m \in 1..n /\ i = (i - m) + m)
  BY <1>1
<1>5. /\ ToSet(s) = {s[i] : i \in 1..m} /\ ToSet(t) = {t[i] : i \in 1..n}
      /\ ToSet(b) = {b[i] : i \in 1..m+n}
  BY <1>1 DEF ToSet
<1>6. ToSet(b) \subseteq ToSet(s) \cup ToSet(t)
  <2> SUFFICES ASSUME NEW i \in 1..m+n PROVE b[i] \in ToSet(s) \cup ToSet(t)
    BY <1>5
  <2>1. CASE i \in 1..m
    BY <2>1, <1>3, <1>5
  <2>2. CASE i - m \in 1..n /\ i = (i - m) + m
    <3>1. b[i] = t[i - m]
      BY <2>2, <1>3
    <3> QED
      BY <2>2, <3>1, <1>5
  <2> QED
    BY <2>1, <2>2, <1>4
<1>7. ToSet(s) \cup ToSet(t) \subseteq ToSet(b)
  BY <1>3, <1>5
<1>8. \A i, j \in 1..m+n : b[i] = b[j] => i = j
  <2> SUFFICES ASSUME NEW i \in 1..m+n, NEW j \in 1..m+n, b[i] = b[j] PROVE i = j
    OBVIOUS
  <2>1. \A x \in 1..m : \A y \in 1..n : s[x] # t[y]
    BY <1>5
  <2>2. CASE i \in 1..m
    <3>1. CASE j \in 1..m
      BY <2>2, <3>1, <1>2, <1>3
    <3>2. CASE j - m \in 1..n /\ j = (j - m) + m
      <4>1. b[j] = t[j - m]
        BY <3>2, <1>3
      <4> QED
        BY <2>1, <2>2, <3>2, <4>1, <1>3
    <3> QED
      BY <3>1, <3>2, <1>4
  <2>3. CASE i - m \in 1..n /\ i = (i - m) + m
    <3>1. b[i] = t[i - m]
      BY <2>3, <1>3
    <3>2. CASE j \in 1..m
      BY <2>1, <2>3, <3>1, <3>2, <1>3
    <3>3. CASE j - m \in 1..n /\ j = (j - m) + m
      <4>1. b[j] = t[j - m]
        BY <3>3, <1>3
      <4>2. i - m = j - m
        BY <2>3, <3>1, <3>3, <4>1, <1>2
      <4> QED
        BY <2>3, <3>3, <4>2
    <3> QED
      BY <3>2, <3>3, <1>4
  <2> QED
    BY <2>2, <2>3, <1>4
<1> QED
  BY <1>1, <1>6, <1>7, <1>8 DEF Distinct, b

LEMMA LoansAreRight ==
  ASSUME LoanInv
  PROVE  LoansComeBack
<1> DEFINE two == usedStack \o arrayPool
           all == two \o mapPool
<1>1. Loans(usedStack, arrayPool, mapPool, heap, "Arr", "Obj")
  BY DEF LoanInv
<1>2. two \in Seq(Nat) /\ Distinct(two) /\ ToSet(two) = ToSet(usedStack) \cup ToSet(arrayPool)
  BY <1>1, ConcatDistinct DEF Loans
<1> HIDE DEF two
<1>3. all \in Seq(Nat) /\ Distinct(all) /\ ToSet(all) = ToSet(two) \cup ToSet(mapPool)
  BY <1>1, <1>2, ConcatDistinct DEF Loans
<1> HIDE DEF all
<1>4. DOMAIN all = 1..Len(all) /\ DOMAIN heap = 1..Len(heap)
  <2>1. PICK S : heap \in Seq(S)
    BY <1>1 DEF Loans, IsHeap
  <2> QED
    BY <2>1, <1>3
<1>5. \A x, y \in DOMAIN all : all[x] = all[y] => x = y
  BY <1>3, <1>4 DEF Distinct
<1>6. {all[x] : x \in DOMAIN all} = DOMAIN heap
  BY <1>1, <1>2, <1>3, <1>4 DEF Loans, ToSet
<1>7. /\ \A x \in DOMAIN arrayPool : heap[arrayPool[x]] = [kind |-> "Arr", items |-> <<>>]
      /\ \A x \in DOMAIN mapPool : heap[mapPool[x]] = [kind |-> "Obj", items |-> <<>>]
  BY <1>1 DEF Loans, ToSet
<1>8. pc = "ended" => usedStack = <<>>
  BY DEF LoanInv
<1> QED
  BY <1>5, <1>6, <1>7, <1>8, Zenon DEF LoansComeBack, all, two

-----------------------------------------------------------------------------
(* Every step of a call keeps the loans.                                   *)

\* What the steps have in common that push and pop, and borrow nothing.
LEMMA NothingBorrowed ==
  ASSUME LoanInv, UNCHANGED values, pc' # "ended", Held(mstack', ToSet(usedStack))
  PROVE  LoanInv'
BY DEF LoanInv, values

LEMMA HandOutGoesOn ==
  ASSUME NEW path, NEW leaf, NEW value, pc = "parse", HandOut(path, leaf, value)
  PROVE  pc' \in {"parse", "stopped"}
BY DEF HandOut

\* The marks that are not values.
LEMMA OtherMarks ==
  \A m \in {Path, Select, Arguments, ArgumentPath, Object} : m \in Marks /\ m[1] # "lent"
BY DEF Path, Select, Arguments, ArgumentPath, Object, Marks

LEMMA EndKeepsLoans ==
  ASSUME LoanInv, EndPath \/ EndArguments \/ EndSet
  PROVE  LoanInv'
<1>1. pc = "parse" /\ UNCHANGED values
  BY DEF EndPath, EndArguments, EndSet, Take
<1>2. pc' \in {"parse", "stopped"}
  BY <1>1, HandOutGoesOn DEF EndPath, EndArguments, EndSet
<1>3. mstack' = Popped(mstack) \/ mstack' = Popped(Popped(mstack))
  BY DEF EndPath, EndArguments, EndSet
<1>4. Held(mstack, ToSet(usedStack))
  BY <1>1 DEF LoanInv
<1>5. Held(Popped(mstack), ToSet(usedStack))
  BY <1>4, HeldPopped
<1>6. Held(Popped(Popped(mstack)), ToSet(usedStack))
  BY <1>5, HeldPopped
<1> QED
  BY <1>1, <1>2, <1>3, <1>5, <1>6, NothingBorrowed

\* A field ends the one before it, and what is below that.
LEMMA BeginFieldKeepsLoans ==
  ASSUME LoanInv, BeginField
  PROVE  LoanInv'
<1> DEFINE ms == IF Top = ArgumentPath THEN Popped(mstack) ELSE mstack
           below == IF TopOf(ms) = Path THEN Popped(ms) ELSE ms
<1>1. pc = "parse" /\ UNCHANGED values
  BY DEF BeginField, Take
<1>2. pc' \in {"parse", "stopped"}
  BY <1>1, HandOutGoesOn DEF BeginField
<1>3. mstack' = Append(below, Path)
  BY DEF BeginField
<1>4. Held(mstack, ToSet(usedStack))
  BY <1>1 DEF LoanInv
<1>5. Held(ms, ToSet(usedStack))
  BY <1>4, HeldPopped
<1> HIDE DEF ms
<1>6. Held(below, ToSet(usedStack))
  BY <1>5, HeldPopped
<1> HIDE DEF below
<1>7. Held(Append(below, Path), ToSet(usedStack))
  BY <1>6, OtherMarks, HeldPushed
<1> QED
  BY <1>1, <1>2, <1>3, <1>7, NothingBorrowed

LEMMA BeginKeepsLoans ==
  ASSUME LoanInv, BeginSet \/ BeginArgument \/ BlockString \/ EndOfNothing
  PROVE  LoanInv'
<1>1. pc = "parse" /\ pc' = "parse" /\ UNCHANGED values
  BY DEF BeginSet, BeginArgument, BlockString, EndOfNothing, Take
<1>2. mstack' = Append(mstack, Path) \/ mstack' = Append(mstack, Select) \/ mstack' = mstack
  BY DEF BeginSet, BeginArgument, BlockString, EndOfNothing, stacks
<1>3. Held(mstack, ToSet(usedStack))
  BY <1>1 DEF LoanInv
<1>4. Held(Append(mstack, Path), ToSet(usedStack)) /\ Held(Append(mstack, Select), ToSet(usedStack))
  BY <1>3, OtherMarks, HeldPushed
<1> QED
  BY <1>1, <1>2, <1>3, <1>4, NothingBorrowed

LEMMA BeginArgumentsKeepsLoans ==
  ASSUME LoanInv, BeginArguments
  PROVE  LoanInv'
<1> DEFINE ms == Popped(mstack)
<1>1. pc = "parse" /\ pc' = "parse" /\ UNCHANGED values /\ mstack' = ms \o <<ArgumentPath, Arguments>>
  BY DEF BeginArguments, Take
<1>2. Held(ms, ToSet(usedStack))
  BY <1>1, HeldPopped DEF LoanInv
<1> HIDE DEF ms
<1>3. ms \in Seq(Marks) /\ ArgumentPath \in Marks /\ Arguments \in Marks
  BY <1>2, OtherMarks DEF Held
<1>4. ms \o <<ArgumentPath, Arguments>> = Append(Append(ms, ArgumentPath), Arguments)
  BY <1>3
<1>5. Held(Append(ms, ArgumentPath), ToSet(usedStack))
  BY <1>2, OtherMarks, HeldPushed
<1>6. Held(Append(Append(ms, ArgumentPath), Arguments), ToSet(usedStack))
  BY <1>5, OtherMarks, HeldPushed
<1> QED
  BY <1>1, <1>4, <1>6, NothingBorrowed

LEMMA BeginArrayKeepsLoans ==
  ASSUME LoanInv, BeginArray
  PROVE  LoanInv'
<1>1. /\ pc = "parse" /\ pc' = "parse" /\ mapPool' = mapPool
      /\ Borrow("Arr", arrayPool) /\ arrayPool' = Popped(arrayPool)
  BY DEF BeginArray, Take
<1>2. Loans(usedStack, arrayPool, mapPool, heap, "Arr", "Obj") /\ Held(mstack, ToSet(usedStack))
  BY <1>1 DEF LoanInv
<1>3. Loans(usedStack', Popped(arrayPool), mapPool, heap', "Arr", "Obj") /\ Held(mstack', ToSet(usedStack'))
  BY <1>1, <1>2, BorrowKeeps
<1> QED
  BY <1>1, <1>3 DEF LoanInv

LEMMA BeginObjectKeepsLoans ==
  ASSUME LoanInv, BeginObject
  PROVE  LoanInv'
<1>1. pc = "parse" /\ pc' = "parse"
  BY DEF BeginObject, Take
<1>2. Loans(usedStack, arrayPool, mapPool, heap, "Arr", "Obj") /\ Held(mstack, ToSet(usedStack))
  BY <1>1 DEF LoanInv
<1>3. CASE insideArray = 0
  <2>1. UNCHANGED values /\ mstack' = Append(mstack, Object)
    BY <1>3 DEF BeginObject
  <2>2. Held(Append(mstack, Object), ToSet(usedStack))
    BY <1>2, OtherMarks, HeldPushed
  <2> QED
    BY <1>1, <2>1, <2>2, NothingBorrowed
<1>4. CASE insideArray # 0
  <2>1. Borrow("Obj", mapPool) /\ mapPool' = Popped(mapPool) /\ arrayPool' = arrayPool
    BY <1>4 DEF BeginObject
  <2>2. Loans(usedStack, mapPool, arrayPool, heap, "Obj", "Arr")
    BY <1>2, LoansSwap
  <2>3. Loans(usedStack', Popped(mapPool), arrayPool, heap', "Obj", "Arr") /\ Held(mstack', ToSet(usedStack'))
    BY <1>2, <2>1, <2>2, BorrowKeeps
  <2>4. Loans(usedStack', arrayPool, Popped(mapPool), heap', "Arr", "Obj")
    BY <2>3, LoansSwap
  <2> QED
    BY <1>1, <2>1, <2>3, <2>4 DEF LoanInv
<1> QED
  BY <1>3, <1>4

LEMMA ScalarKeepsLoans ==
  ASSUME LoanInv, Scalar
  PROVE  LoanInv'
<1>1. pc = "parse"
  BY DEF Scalar, Take
<1>2. Loans(usedStack, arrayPool, mapPool, heap, "Arr", "Obj") /\ Held(mstack, ToSet(usedStack))
  BY <1>1 DEF LoanInv
<1>3. CASE insideArray = 0
  <2>1. UNCHANGED values /\ mstack' = Popped(mstack) /\ pc' # "ended"
    BY <1>1, <1>3, HandOutGoesOn DEF Scalar
  <2>2. Held(Popped(mstack), ToSet(usedStack))
    BY <1>2, HeldPopped
  <2> QED
    BY <2>1, <2>2, NothingBorrowed
<1>4. CASE insideArray # 0
  <2>1. heap' = Put(heap, token) /\ UNCHANGED <<pc, mstack, usedStack, arrayPool, mapPool>>
    BY <1>4 DEF Scalar, stacks
  <2>2. IsHeap(heap) /\ ToSet(usedStack) \subseteq 1..Len(heap)
    BY <1>2 DEF Loans
  <2>3. /\ IsHeap(heap') /\ Len(heap') = Len(heap)
        /\ \A i \in 1..Len(heap) : i \notin ToSet(usedStack) => heap'[i] = heap[i]
    <3>1. IsHeap(heap') /\ ChangesOnly(heap', heap, ToSet(usedStack))
      BY <1>2, <2>1, <2>2, PutKeeps
    <3> QED
      BY <3>1 DEF ChangesOnly
  <2>4. Loans(usedStack, arrayPool, mapPool, heap', "Arr", "Obj")
    BY <1>2, <2>3 DEF Loans
  <2> QED
    BY <1>1, <1>2, <2>1, <2>4 DEF LoanInv
<1> QED
  BY <1>3, <1>4

LEMMA EndValueKeepsLoans ==
  ASSUME LoanInv, EndValue
  PROVE  LoanInv'
<1>1. pc = "parse" /\ UNCHANGED values
  BY DEF EndValue, Take
<1>2. pc' # "ended"
  BY <1>1, HandOutGoesOn DEF EndValue
<1>3. mstack' = Popped(mstack) \/ mstack' = Popped(Popped(mstack))
  BY DEF EndValue
<1>4. Held(mstack, ToSet(usedStack))
  BY <1>1 DEF LoanInv
<1>5. Held(Popped(mstack), ToSet(usedStack))
  BY <1>4, HeldPopped
<1>6. Held(Popped(Popped(mstack)), ToSet(usedStack))
  BY <1>5, HeldPopped
<1> QED
  BY <1>1, <1>2, <1>3, <1>5, <1>6, NothingBorrowed

LEMMA GiveBackKeepsLoans ==
  ASSUME LoanInv, GiveBack
  PROVE  LoanInv'
<1> DEFINE id == Last(usedStack)
<1>1. /\ pc' = "return" /\ usedStack # <<>> /\ usedStack' = Front(usedStack)
      /\ heap' = Filled(heap, id, <<>>)
  BY DEF GiveBack, Filled
<1>2. Loans(usedStack, arrayPool, mapPool, heap, "Arr", "Obj")
  BY DEF LoanInv
<1>3. CASE heap[id].kind = "Arr" /\ arrayPool' = Append(arrayPool, id) /\ UNCHANGED mapPool
  <2>1. Loans(Front(usedStack), Append(arrayPool, id), mapPool, Filled(heap, id, <<>>), "Arr", "Obj")
    BY <1>1, <1>2, <1>3, GiveBackKeeps
  <2> QED
    BY <1>1, <1>3, <2>1 DEF LoanInv
<1>4. CASE heap[id].kind = "Obj" /\ mapPool' = Append(mapPool, id) /\ UNCHANGED arrayPool
  <2>1. Loans(usedStack, mapPool, arrayPool, heap, "Obj", "Arr")
    BY <1>2, LoansSwap
  <2>2. Loans(Front(usedStack), Append(mapPool, id), arrayPool, Filled(heap, id, <<>>), "Obj", "Arr")
    BY <1>1, <1>4, <2>1, GiveBackKeeps
  <2>3. Loans(Front(usedStack), arrayPool, Append(mapPool, id), Filled(heap, id, <<>>), "Arr", "Obj")
    BY <2>2, LoansSwap
  <2> QED
    BY <1>1, <1>4, <2>3 DEF LoanInv
<1> QED
  BY <1>3, <1>4 DEF GiveBack

\* A new call forgets what is on the stacks of the one before.
LEMMA CallKeepsLoans ==
  ASSUME LoanInv, NEW q, ParseQuery(q)
  PROVE  LoanInv'
<1>1. UNCHANGED values /\ pc' # "ended" /\ mstack' = <<>>
  BY DEF ParseQuery
<1> QED
  BY <1>1, HeldByNone, NothingBorrowed

\* A value of the pools (pquery.Maker.usedStack, arrayPool, mapPool) is lent, or
\* free in one pool, once and emptied; no call loses one or has it twice, whatever
\* the operations, their tokens and the places where the receiver stops.
THEOREM LoansReturn == Spec => []LoansComeBack
<1>1. Init => LoanInv
  <2> SUFFICES ASSUME Init PROVE LoanInv
    OBVIOUS
  <2>1. IsHeap(heap) /\ Len(heap) = 0
    <3>1. heap \in Seq(Nat) /\ Len(heap) = 0
      <4>1. heap = <<>>
        BY DEF Init
      <4>2. <<>> \in Seq(Nat) /\ Len(<<>>) = 0
        OBVIOUS
      <4> QED
        BY <4>1, <4>2
    <3>2. \A id \in 1..Len(heap) : IsBlock(heap[id])
      BY <3>1
    <3> QED
      BY <3>1, <3>2 DEF IsHeap
  <2>2. Distinct(<<>>) /\ ToSet(<<>>) = {}
    BY DEF Distinct, ToSet
  <2>3. Loans(<<>>, <<>>, <<>>, heap, "Arr", "Obj")
    BY <2>1, <2>2 DEF Loans
  <2>4. Held(mstack, ToSet(usedStack))
    BY HeldByNone DEF Init
  <2> QED
    BY <2>3, <2>4 DEF Init, LoanInv
<1>2. LoanInv /\ [Next]_vars => LoanInv'
  <2> SUFFICES ASSUME LoanInv, [Next]_vars PROVE LoanInv'
    OBVIOUS
  <2>1. ASSUME NEW q \in Queries, ParseQuery(q) PROVE LoanInv'
    BY <2>1, CallKeepsLoans
  <2>2. CASE EndPath \/ EndArguments \/ EndSet
    BY <2>2, EndKeepsLoans
  <2>3. CASE BeginSet \/ BeginArgument \/ BlockString \/ EndOfNothing
    BY <2>3, BeginKeepsLoans
  <2>4. CASE BeginArguments
    BY <2>4, BeginArgumentsKeepsLoans
  <2>5. CASE BeginArray
    BY <2>5, BeginArrayKeepsLoans
  <2>6. CASE BeginObject
    BY <2>6, BeginObjectKeepsLoans
  <2>7. CASE Scalar
    BY <2>7, ScalarKeepsLoans
  <2>8. CASE EndValue
    BY <2>8, EndValueKeepsLoans
  <2>9. CASE GiveBack
    BY <2>9, GiveBackKeepsLoans
  <2>10. CASE EndOfQuery
    BY <2>10 DEF EndOfQuery, LoanInv, values
  <2>11. CASE BeginField
    BY <2>11, BeginFieldKeepsLoans
  <2>12. CASE UNCHANGED vars
    BY <2>12 DEF vars, stacks, values, LoanInv
  <2> QED
    BY <2>1, <2>2, <2>3, <2>4, <2>5, <2>6, <2>7, <2>8, <2>9, <2>10, <2>11, <2>12 DEF Next
<1>3. LoanInv => LoansComeBack
  BY LoansAreRight
<1> QED
  BY <1>1, <1>2, <1>3, PTL DEF Spec
====
