--------------------------- MODULE ContainerProofs ---------------------------
(***************************************************************************)
(* What the proofs about the containers share, and those about the ones    *)
(* that search: induction over numbers and over a measure, in terms of the *)
(* set of those for which a statement holds; loops; the searches in a      *)
(* sorted slice; aset, mhstore, amap and the Mappers, for any keys, hasher *)
(* and threshold.                                                          *)
(***************************************************************************)
EXTENDS Containers, SequencesExt, SortedSearch, FiniteSetTheorems, WellFoundedInduction,
        SequenceTheorems, FunctionTheorems, TLAPS

\* A set of naturals that is not empty has a least one.
LEMMA Least ==
  ASSUME NEW T \in SUBSET Nat, T # {}
  PROVE  \E k \in T : \A n \in T : k <= n
<1>1. PICK k \in T : \A n \in T : <<n, k>> \notin OpToRel(<, Nat)
  BY NatLessThanWellFounded, WFMin
<1>2. \A n \in T : ~(n < k)
  BY <1>1 DEF OpToRel
<1> QED
  BY <1>2

\* Induction over the naturals.
LEMMA NaturalSteps ==
  ASSUME NEW T, 0 \in T, \A k \in Nat : k \in T => k + 1 \in T
  PROVE  Nat \subseteq T
<1> SUFFICES ASSUME Nat \ T # {} PROVE FALSE
  OBVIOUS
<1>1. PICK k \in Nat \ T : \A n \in Nat \ T : k <= n
  BY Least
<1>2. k # 0 /\ k - 1 \in Nat /\ (k - 1) + 1 = k
  BY <1>1
<1>3. k - 1 \in T
  BY <1>1, <1>2
<1> QED
  BY <1>1, <1>2, <1>3

\* Induction over a measure.
LEMMA MeasuredSteps ==
  ASSUME NEW S, NEW mu \in [S -> Nat], NEW T,
         \A s \in S : (\A t \in S : mu[t] < mu[s] => t \in T) => s \in T
  PROVE  S \subseteq T
<1> SUFFICES ASSUME S \ T # {} PROVE FALSE
  OBVIOUS
<1> DEFINE N == {mu[s] : s \in S \ T}
<1>1. PICK k \in N : \A n \in N : k <= n
  <2>1. N \in SUBSET Nat /\ N # {}
    OBVIOUS
  <2> HIDE DEF N
  <2> QED
    BY <2>1, Least
<1>2. PICK s \in S \ T : mu[s] = k
  BY <1>1
<1>3. \A t \in S : mu[t] < mu[s] => t \in T
  <2> SUFFICES ASSUME NEW t \in S, mu[t] < mu[s], t \notin T PROVE FALSE
    OBVIOUS
  <2>1. mu[t] \in N
    OBVIOUS
  <2>2. k <= mu[t] /\ mu[s] \in Nat /\ mu[t] \in Nat
    BY <2>1, <1>1
  <2> QED
    BY <2>2, <1>2
<1> QED
  BY <1>2, <1>3

\* Of finitely many numbers one is the greatest.
LEMMA Greatest ==
  ASSUME NEW n \in Nat, NEW D \in SUBSET (1..n), D # {}
  PROVE  Max(D) \in D /\ \A k \in D : k <= Max(D)
<1> DEFINE B == {b \in Nat : \A k \in D : k <= b}
<1>1. n \in B
  OBVIOUS
<1>2. PICK b \in B : \A c \in B : b <= c
  BY <1>1, Least
<1>3. b \in D
  <2> SUFFICES ASSUME b \notin D PROVE FALSE
    OBVIOUS
  <2>1. \A k \in D : k <= b - 1 /\ k >= 1
    BY <1>2
  <2>2. b \in Nat /\ b - 1 \in Nat
    <3>1. PICK k \in D : k >= 1 /\ k <= b - 1
      BY <2>1
    <3>2. b \in Nat
      OBVIOUS
    <3> QED
      BY <3>1, <3>2
  <2>3. b - 1 \in B
    BY <2>1, <2>2
  <2> QED
    BY <1>2, <2>3
<1>4. \A k \in D : b >= k
  BY <1>2
<1>5. \E x \in D : \A k \in D : x >= k
  BY <1>3, <1>4
<1> HIDE DEF B
<1>6. Max(D) \in D /\ \A k \in D : Max(D) >= k
  BY <1>5 DEF Max
<1> QED
  BY <1>6

-----------------------------------------------------------------------------
(* Loops, which the searches are: recursive functions that call themselves *)
(* at the end.                                                             *)

\* Every turn of a loop brings it nearer to one of the states Ends, where it
\* stops with the result out.
Ending(S, Ends, out, next, mu) ==
  /\ mu \in [S -> Nat]
  /\ \A s \in S \ Ends : next[s] \in S /\ mu[next[s]] < mu[s]

\* f is what comes out, by the state the loop starts in.
Outcome(f, S, Ends, out, next) ==
  /\ f = [s \in S |-> f[s]]
  /\ \A s \in S : f[s] = IF s \in Ends THEN out[s] ELSE f[next[s]]

\* A loop that ends has an outcome.
LEMMA OutcomeExists ==
  ASSUME NEW S, NEW Ends, NEW out, NEW next, NEW mu, Ending(S, Ends, out, next, mu)
  PROVE  \E f : Outcome(f, S, Ends, out, next)
<1> USE DEF Ending
<1> DEFINE V == {out[s] : s \in S}
           Closed(R) == /\ \A s \in S \cap Ends : <<s, out[s]>> \in R
                        /\ \A s \in S \ Ends, y \in V : <<next[s], y>> \in R => <<s, y>> \in R
           Results == {p \in S \X V : \A R \in SUBSET (S \X V) : Closed(R) => p \in R}
           Of(s) == {y \in V : <<s, y>> \in Results}
<1>1. \A s \in S \cap Ends : Of(s) = {out[s]}
  <2> SUFFICES ASSUME NEW s \in S \cap Ends PROVE Of(s) = {out[s]}
    OBVIOUS
  <2>1. out[s] \in Of(s)
    OBVIOUS
  <2>2. ASSUME NEW y \in V, y # out[s] PROVE y \notin Of(s)
    <3> DEFINE R == (S \X V) \ {<<s, y>>}
    <3>1. Closed(R)
      <4>1. \A t \in S \cap Ends : <<t, out[t]>> \in S \X V /\ <<t, out[t]>> # <<s, y>>
        BY <2>2
      <4>2. \A t \in S \ Ends, z \in V : <<t, z>> \in S \X V /\ <<t, z>> # <<s, y>>
        OBVIOUS
      <4> QED
        BY <4>1, <4>2
    <3>2. R \in SUBSET (S \X V)
      OBVIOUS
    <3>3. <<s, y>> \notin R
      OBVIOUS
    <3> HIDE DEF R, V
    <3> QED
      BY <3>1, <3>2, <3>3
  <2> QED
    BY <2>1, <2>2
<1>2. \A s \in S \ Ends : Of(s) = Of(next[s])
  <2> SUFFICES ASSUME NEW s \in S \ Ends PROVE Of(s) = Of(next[s])
    OBVIOUS
  <2>1. ASSUME NEW y \in V, <<next[s], y>> \in Results PROVE <<s, y>> \in Results
    <3> SUFFICES ASSUME NEW R \in SUBSET (S \X V), Closed(R) PROVE <<s, y>> \in R
      OBVIOUS
    <3>1. <<next[s], y>> \in R
      BY <2>1
    <3> QED
      BY <3>1
  <2>2. ASSUME NEW y \in V, <<next[s], y>> \notin Results PROVE <<s, y>> \notin Results
    <3>1. <<next[s], y>> \in S \X V
      OBVIOUS
    <3>2. PICK R \in SUBSET (S \X V) : Closed(R) /\ <<next[s], y>> \notin R
      BY <3>1, <2>2
    <3> DEFINE Q == R \ {<<s, y>>}
    <3>3. Closed(Q)
      <4>1. \A t \in S \cap Ends : <<t, out[t]>> \in R /\ <<t, out[t]>> # <<s, y>>
        BY <3>2
      <4>2. ASSUME NEW t \in S \ Ends, NEW z \in V, <<next[t], z>> \in Q PROVE <<t, z>> \in Q
        <5>1. <<t, z>> \in R
          BY <4>2, <3>2
        <5>2. <<t, z>> # <<s, y>>
          BY <4>2, <3>2
        <5> QED
          BY <5>1, <5>2
      <4> QED
        BY <4>1, <4>2
    <3>4. Q \in SUBSET (S \X V) /\ <<s, y>> \notin Q
      OBVIOUS
    <3> HIDE DEF Q, V
    <3> QED
      BY <3>3, <3>4
  <2> QED
    BY <2>1, <2>2
<1> DEFINE T == {s \in S : \E y : Of(s) = {y}}
<1>3. S \subseteq T
  <2>1. ASSUME NEW s \in S, \A t \in S : mu[t] < mu[s] => t \in T PROVE s \in T
    <3>1. CASE s \in Ends
      BY <3>1, <1>1
    <3>2. CASE s \notin Ends
      <4>1. next[s] \in T
        BY <3>2, <2>1
      <4>2. PICK y : Of(next[s]) = {y}
        BY <4>1
      <4>3. Of(s) = {y}
        BY <4>2, <3>2, <1>2
      <4> HIDE DEF Of
      <4> QED
        BY <4>3
    <3> QED
      BY <3>1, <3>2
  <2> HIDE DEF T
  <2> QED
    BY <2>1, MeasuredSteps
<1> DEFINE g == [s \in S |-> CHOOSE y : Of(s) = {y}]
<1>4. \A s \in S : Of(s) = {g[s]}
  BY <1>3
<1>5. \A s \in S : g[s] = IF s \in Ends THEN out[s] ELSE g[next[s]]
  <2> SUFFICES ASSUME NEW s \in S PROVE g[s] = IF s \in Ends THEN out[s] ELSE g[next[s]]
    OBVIOUS
  <2> HIDE DEF Of, g
  <2>1. CASE s \in Ends
    BY <2>1, <1>1, <1>4
  <2>2. CASE s \notin Ends
    <3>1. {g[s]} = {g[next[s]]}
      BY <2>2, <1>2, <1>4
    <3> QED
      BY <3>1, <2>2
  <2> QED
    BY <2>1, <2>2
<1>6. g = [s \in S |-> g[s]]
  <2> HIDE DEF Of
  <2> QED
    OBVIOUS
<1> HIDE DEF g
<1> QED
  BY <1>5, <1>6 DEF Outcome
-----------------------------------------------------------------------------
(* The searches in a sorted slice (aset.go:94-128).                        *)

Sorted(s) == s \in Seq(Int) /\ \A i, j \in 1..Len(s) : i < j => s[i] < s[j]

\* The answer f of a search: where x is, or where it belongs.
IsPlace(s, x, f) ==
  \E k \in 0..Len(s) :
    \/ f = [idx |-> k, found |-> TRUE] /\ k < Len(s) /\ s[k + 1] = x
    \/ /\ f = [idx |-> k, found |-> FALSE]
       /\ \A i \in 1..k : s[i] < x
       /\ \A i \in k+1..Len(s) : x < s[i]

Middle(lo, hi) == lo + (hi - lo) \div 2

\* One turn of the binary search.
Turn(f, s, x, p) ==
  LET m == Middle(p[1], p[2])
  IN IF p[1] > p[2] THEN [idx |-> p[1], found |-> FALSE]
     ELSE IF s[m + 1] = x THEN [idx |-> m, found |-> TRUE]
     ELSE IF s[m + 1] > x THEN f[<<p[1], m - 1>>] ELSE f[<<m + 1, p[2]>>]

Bin(s, x) == CHOOSE f : f = [p \in Nat \X Int |-> Turn(f, s, x, p)]

LEMMA MiddleIs ==
  ASSUME NEW lo \in Nat, NEW hi \in Int, lo <= hi
  PROVE  Middle(lo, hi) \in lo..hi
BY DEF Middle

LEMMA FindBinIs ==
  \A s, x, l, r : FindBin(s, x, l, r) = Bin(s, x)[<<l, r>>]
BY Zenon DEF FindBin, Bin, Turn, Middle

\* The binary search ends.
LEMMA BinIs ==
  ASSUME NEW s, NEW x, NEW lo \in Nat, NEW hi \in Int
  PROVE  Bin(s, x)[<<lo, hi>>] = Turn(Bin(s, x), s, x, <<lo, hi>>)
<1> DEFINE P == Nat \X Int
           m(p) == Middle(p[1], p[2])
           Ends == {p \in P : p[1] > p[2] \/ s[m(p) + 1] = x}
           out == [p \in P |-> IF p[1] > p[2] THEN [idx |-> p[1], found |-> FALSE]
                                              ELSE [idx |-> m(p), found |-> TRUE]]
           next == [p \in P |-> IF s[m(p) + 1] > x THEN <<p[1], m(p) - 1>> ELSE <<m(p) + 1, p[2]>>]
           mu == [p \in P |-> IF p[1] > p[2] THEN 0 ELSE p[2] - p[1] + 1]
<1>1. mu \in [P -> Nat]
  OBVIOUS
<1>2. \A p \in P \ Ends : next[p] \in P /\ mu[next[p]] < mu[p]
  <2> SUFFICES ASSUME NEW p \in P \ Ends PROVE next[p] \in P /\ mu[next[p]] < mu[p]
    OBVIOUS
  <2>1. p[1] \in Nat /\ p[2] \in Int /\ p[1] <= p[2]
    OBVIOUS
  <2>2. m(p) \in p[1]..p[2]
    BY <2>1, MiddleIs
  <2>3. next[p] = <<p[1], m(p) - 1>> \/ next[p] = <<m(p) + 1, p[2]>>
    OBVIOUS
  <2> HIDE DEF m, next, Ends
  <2> QED
    BY <2>1, <2>2, <2>3
<1>3. PICK f : Outcome(f, P, Ends, out, next)
  <2> HIDE DEF P, Ends, out, next, mu
  <2>1. Ending(P, Ends, out, next, mu)
    BY <1>1, <1>2 DEF Ending
  <2> QED
    BY <2>1, OutcomeExists
<1>4. \A p \in P : f[p] = Turn(f, s, x, p)
  BY <1>3 DEF Turn, Outcome
<1>5. f = [p \in P |-> Turn(f, s, x, p)]
  BY <1>3, <1>4 DEF Outcome
<1>6. Bin(s, x) = [p \in P |-> Turn(Bin(s, x), s, x, p)]
  BY <1>5 DEF Bin
<1> QED
  BY <1>6

\* The binary search between l and r finds the place, if the rest of the slice
\* is known to be below or above.
LEMMA BinFinds ==
  ASSUME NEW s, Sorted(s), NEW x \in Int, NEW l \in Nat, NEW r \in Int, l <= r + 1, r < Len(s),
         \A i \in 1..l : s[i] < x, \A i \in r+2..Len(s) : x < s[i]
  PROVE  IsPlace(s, x, FindBin(s, x, l, r))
<1> DEFINE P == Nat \X Int
           mu == [p \in P |-> IF p[1] > p[2] THEN 0 ELSE p[2] - p[1] + 1]
           Window(p) == /\ p[1] <= p[2] + 1 /\ p[2] < Len(s)
                        /\ \A i \in 1..p[1] : s[i] < x
                        /\ \A i \in p[2]+2..Len(s) : x < s[i]
           T == {p \in P : Window(p) => IsPlace(s, x, Bin(s, x)[p])}
<1>1. ASSUME NEW p \in P, \A q \in P : mu[q] < mu[p] => q \in T PROVE p \in T
  <2> SUFFICES ASSUME Window(p) PROVE IsPlace(s, x, Bin(s, x)[p])
    OBVIOUS
  <2> DEFINE lo == p[1]  hi == p[2]  m == Middle(lo, hi)
  <2>1. lo \in Nat /\ hi \in Int /\ p = <<lo, hi>> /\ lo <= hi + 1 /\ hi < Len(s) /\ Len(s) \in Nat
    BY DEF Sorted
  <2>2. Bin(s, x)[p] = Turn(Bin(s, x), s, x, p)
    BY <2>1, BinIs
  <2>3. CASE lo > hi
    <3>1. Bin(s, x)[p] = [idx |-> lo, found |-> FALSE]
      BY <2>2, <2>3 DEF Turn
    <3>2. lo = hi + 1 /\ lo \in 0..Len(s)
      BY <2>1, <2>3
    <3>3. \A i \in lo+1..Len(s) : x < s[i]
      BY <3>2, <2>1
    <3> QED
      BY <3>1, <3>2, <3>3 DEF IsPlace
  <2>4. CASE lo <= hi
    <3>1. m \in lo..hi
      BY <2>1, <2>4, MiddleIs
    <3>6. Turn(Bin(s, x), s, x, p) =
            IF s[m + 1] = x THEN [idx |-> m, found |-> TRUE]
            ELSE IF s[m + 1] > x THEN Bin(s, x)[<<lo, m - 1>>] ELSE Bin(s, x)[<<m + 1, hi>>]
      BY <2>1, <2>4 DEF Turn
    <3> HIDE DEF m
    <3>7. \A i \in 1..Len(s) : s[i] \in Int
      BY DEF Sorted
    <3>2. m \in Nat /\ m < Len(s) /\ m + 1 \in 1..Len(s) /\ s[m + 1] \in Int
      <4>1. m \in Nat /\ m < Len(s) /\ m + 1 \in 1..Len(s)
        BY <3>1, <2>1
      <4> QED
        BY <4>1, <3>7
    <3>3. CASE s[m + 1] = x
      <4>1. Bin(s, x)[p] = [idx |-> m, found |-> TRUE]
        BY <2>2, <3>6, <3>3
      <4>2. m \in 0..Len(s)
        BY <3>2, <2>1
      <4> QED
        BY <4>1, <4>2, <3>2, <3>3 DEF IsPlace
    <3>4. CASE s[m + 1] > x
      <4> DEFINE q == <<lo, m - 1>>
      <4>1. Bin(s, x)[p] = Bin(s, x)[q]
        BY <2>2, <3>6, <3>2, <3>4
      <4>2. q \in P /\ mu[q] < mu[p]
        BY <2>1, <2>4, <3>1, <3>2
      <4>3. \A i \in (m - 1)+2..Len(s) : x < s[i]
        <5> SUFFICES ASSUME NEW i \in m+1..Len(s) PROVE x < s[i]
          BY <3>2
        <5>1. i = m + 1 \/ s[m + 1] < s[i]
          BY <3>2, <2>1 DEF Sorted
        <5>2. s[i] \in Int
          BY <3>2, <3>7, <2>1
        <5> QED
          BY <5>1, <5>2, <3>2, <3>4
      <4>4. Window(q)
        BY <4>3, <2>1, <3>1, <3>2
      <4> QED
        BY <1>1, <4>1, <4>2, <4>4
    <3>5. CASE s[m + 1] < x
      <4> DEFINE q == <<m + 1, hi>>
      <4>1. Bin(s, x)[p] = Bin(s, x)[q]
        BY <2>2, <3>6, <3>2, <3>5
      <4>2. q \in P /\ mu[q] < mu[p]
        BY <2>1, <2>4, <3>1, <3>2
      <4>3. \A i \in 1..m+1 : s[i] < x
        <5> SUFFICES ASSUME NEW i \in 1..m+1 PROVE s[i] < x
          OBVIOUS
        <5>3. i \in 1..Len(s)
          BY <3>2, <2>1
        <5>1. i = m + 1 \/ s[i] < s[m + 1]
          BY <5>3, <3>2, <2>1 DEF Sorted
        <5>2. s[i] \in Int
          BY <5>3, <3>7
        <5> QED
          BY <5>1, <5>2, <3>2, <3>5
      <4>4. Window(q)
        BY <4>3, <2>1, <3>1, <3>2
      <4> QED
        BY <1>1, <4>1, <4>2, <4>4
    <3> QED
      BY <3>2, <3>3, <3>4, <3>5
  <2> QED
    BY <2>1, <2>3, <2>4
<1>2. P \subseteq T
  <2>1. mu \in [P -> Nat]
    OBVIOUS
  <2> HIDE DEF T, P, mu
  <2> QED
    BY <1>1, <2>1, MeasuredSteps
<1>3. <<l, r>> \in P /\ Window(<<l, r>>)
  OBVIOUS
<1>4. <<l, r>> \in T
  BY <1>2, <1>3
<1> HIDE DEF Window, P
<1> QED
  BY <1>3, <1>4, FindBinIs

\* The bound that FindExp starts from.
Doubled(s, x) ==
  CHOOSE f : f = [r \in Nat |-> IF r < Len(s) /\ s[r + 1] < x THEN f[2 * r] ELSE r]

LEMMA FindExpIs ==
  \A s, x : FindExp(s, x) =
    LET r == Doubled(s, x)[1]
    IN FindBin(s, x, r \div 2, IF r < Len(s) THEN r ELSE Len(s) - 1)
BY Zenon DEF FindExp, Doubled

\* Doubling ends: with a bound that is not below x, and half of it is.
LEMMA DoubledIs ==
  ASSUME NEW s, Sorted(s), NEW x \in Int
  PROVE  LET r == Doubled(s, x)[1]
         IN /\ r \in Nat \ {0}
            /\ r < Len(s) => s[r + 1] >= x
            /\ r = 1 \/ \E q \in Nat : r = 2 * q /\ q < Len(s) /\ s[q + 1] < x
<1> DEFINE n == Len(s)
           below(r) == r < n /\ s[r + 1] < x
           Ends == {r \in Nat : r = 0 \/ ~below(r)}
           out == [r \in Nat |-> r]
           next == [r \in Nat |-> 2 * r]
           mu == [r \in Nat |-> IF r < n THEN n - r ELSE 0]
<1>1. n \in Nat /\ \A i \in 1..n : s[i] \in Int
  BY DEF Sorted
<1>2. Ending(Nat, Ends, out, next, mu)
  <2>1. mu \in [Nat -> Nat]
    BY <1>1
  <2>2. \A r \in Nat \ Ends : next[r] \in Nat /\ mu[next[r]] < mu[r]
    BY <1>1
  <2> QED
    BY <2>1, <2>2 DEF Ending
<1>3. PICK f : Outcome(f, Nat, Ends, out, next)
  <2> HIDE DEF Ends, out, next, mu
  <2> QED
    BY <1>2, OutcomeExists
<1>4. f = [r \in Nat |-> IF below(r) THEN f[2 * r] ELSE r]
  <2>1. ASSUME NEW r \in Nat PROVE f[r] = IF below(r) THEN f[2 * r] ELSE r
    <3>1. f[r] = IF r \in Ends THEN out[r] ELSE f[next[r]]
      BY <1>3 DEF Outcome
    <3>2. out[r] = r /\ next[r] = 2 * r /\ (r = 0 => 2 * r = r)
      OBVIOUS
    <3> HIDE DEF out, next, below
    <3> QED
      BY <3>1, <3>2
  <2> QED
    BY <2>1, <1>3 DEF Outcome
<1> DEFINE g == Doubled(s, x)
<1>5. g = [r \in Nat |-> IF below(r) THEN g[2 * r] ELSE r]
  BY <1>4 DEF Doubled
<1>6. \A r \in Nat : g[r] = IF below(r) THEN g[2 * r] ELSE r
  <2> HIDE DEF g, below
  <2> QED
    BY <1>5
<1> DEFINE Right(r, b) == /\ b \in Nat \ {0} /\ ~below(b)
                          /\ b = r \/ \E q \in Nat : b = 2 * q /\ below(q)
           T == {r \in Nat : r = 0 \/ Right(r, g[r])}
<1> HIDE DEF g
<1>7. ASSUME NEW r \in Nat, \A t \in Nat : mu[t] < mu[r] => t \in T PROVE r \in T
  <2> SUFFICES ASSUME r # 0 PROVE Right(r, g[r])
    OBVIOUS
  <2>1. CASE below(r)
    <3>1. 2 * r \in Nat /\ 2 * r # 0 /\ mu[2 * r] < mu[r]
      BY <2>1, <1>1
    <3>2. Right(2 * r, g[2 * r]) /\ g[r] = g[2 * r]
      BY <3>1, <1>7, <1>6, <2>1
    <3> HIDE DEF below
    <3> QED
      BY <3>2, <2>1
  <2>2. CASE ~below(r)
    BY <2>2, <1>6
  <2> QED
    BY <2>1, <2>2
<1>8. Nat \subseteq T
  <2>1. mu \in [Nat -> Nat]
    BY <1>1
  <2> HIDE DEF T, mu
  <2> QED
    BY <1>7, <2>1, MeasuredSteps
<1>9. Right(1, g[1])
  BY <1>8
<1>10. g[1] \in Nat /\ g[1] < n => s[g[1] + 1] \in Int /\ s[g[1] + 1] >= x
  BY <1>9, <1>1
<1> QED
  BY <1>9, <1>10 DEF g

\* The search finds the place, whatever the threshold.
LEMMA FindFinds ==
  ASSUME NEW s, Sorted(s), NEW x \in Int, NEW threshold
  PROVE  IsPlace(s, x, Find(s, x, threshold))
<1>1. Len(s) \in Nat /\ \A i \in 1..Len(s) : s[i] \in Int
  BY DEF Sorted
<1>2. IsPlace(s, x, FindBin(s, x, 0, Len(s) - 1))
  <2>1. Len(s) - 1 \in Int /\ 0 <= (Len(s) - 1) + 1 /\ Len(s) - 1 < Len(s)
    BY <1>1
  <2>2. (\A i \in 1..0 : s[i] < x) /\ \A i \in (Len(s)-1)+2..Len(s) : x < s[i]
    BY <1>1
  <2> QED
    BY <2>1, <2>2, BinFinds
<1>3. IsPlace(s, x, FindExp(s, x))
  <2> DEFINE b == Doubled(s, x)[1]
             l == b \div 2
             r == IF b < Len(s) THEN b ELSE Len(s) - 1
  <2>1. /\ b \in Nat \ {0}
        /\ b < Len(s) => s[b + 1] >= x
        /\ b = 1 \/ \E q \in Nat : b = 2 * q /\ q < Len(s) /\ s[q + 1] < x
    BY DoubledIs
  <2> HIDE DEF b
  <2>2. r \in Int /\ r < Len(s)
    BY <2>1, <1>1
  <2>3. \A i \in r+2..Len(s) : x < s[i]
    <3> SUFFICES ASSUME NEW i \in r+2..Len(s) PROVE x < s[i]
      OBVIOUS
    <3>1. b < Len(s) /\ r = b
      BY <1>1, <2>1
    <3>2. b + 1 \in 1..Len(s) /\ i \in 1..Len(s) /\ b + 1 < i
      BY <3>1, <2>1, <1>1
    <3>3. s[b + 1] < s[i] /\ s[b + 1] \in Int /\ s[i] \in Int
      BY <3>2, <1>1 DEF Sorted
    <3> QED
      BY <3>1, <3>3, <2>1
  <2>4. l \in Nat /\ l <= r + 1 /\ \A i \in 1..l : s[i] < x
    <3>1. CASE b = 1
      BY <3>1, <1>1
    <3>2. CASE b # 1
      <4>1. PICK q \in Nat : b = 2 * q /\ q < Len(s) /\ s[q + 1] < x
        BY <3>2, <2>1
      <4>2. l = q /\ l <= r + 1
        BY <4>1, <1>1, <2>1
      <4>3. ASSUME NEW i \in 1..q PROVE s[i] < x
        <5>1. i \in 1..Len(s) /\ q + 1 \in 1..Len(s) /\ i < q + 1
          BY <4>1, <1>1
        <5>2. s[i] < s[q + 1] /\ s[i] \in Int /\ s[q + 1] \in Int
          BY <5>1, <1>1 DEF Sorted
        <5> QED
          BY <5>2, <4>1
      <4> QED
        BY <4>1, <4>2, <4>3
    <3> QED
      BY <3>1, <3>2
  <2>5. FindExp(s, x) = FindBin(s, x, l, r)
    BY FindExpIs DEF b
  <2> HIDE DEF l, r
  <2> QED
    BY <2>2, <2>3, <2>4, <2>5, BinFinds
<1> QED
  BY <1>2, <1>3 DEF Find

-----------------------------------------------------------------------------
(* Sorted slices.                                                          *)

\* t is s with x put between the first k and the rest.
IsPut(t, s, k, x) ==
  /\ Len(t) = Len(s) + 1
  /\ \A i \in 1..k : t[i] = s[i]
  /\ t[k + 1] = x
  /\ \A i \in k+2..Len(s)+1 : t[i] = s[i - 1]

LEMMA PutAtIs ==
  ASSUME NEW S, NEW s \in Seq(S), NEW k \in 0..Len(s), NEW x \in S
  PROVE  PutAt(s, k, x) \in Seq(S) /\ IsPut(PutAt(s, k, x), s, k, x)
<1> DEFINE n == Len(s)
           low == SubSeq(s, 1, k)
           high == SubSeq(s, k + 1, n)
           both == low \o <<x>>
<1>1. n \in Nat /\ k \in Nat /\ k <= n
  OBVIOUS
<1>2. low \in Seq(S) /\ Len(low) = k /\ \A i \in 1..k : low[i] = s[i]
  BY <1>1
<1>3. high \in Seq(S) /\ Len(high) = n - k /\ \A i \in 1..n-k : high[i] = s[k + i]
  BY <1>1
<1>4. PutAt(s, k, x) = both \o high
  BY DEF PutAt
<1> HIDE DEF low, high
<1>5. /\ both \in Seq(S) /\ Len(both) = k + 1 /\ both[k + 1] = x
      /\ \A i \in 1..k : both[i] = s[i]
  BY <1>1, <1>2
<1> HIDE DEF both
<1>6. /\ both \o high \in Seq(S) /\ Len(both \o high) = n + 1
      /\ \A i \in 1..n+1 : (both \o high)[i] = IF i <= k + 1 THEN both[i] ELSE high[i - (k + 1)]
  <2>1. Len(both) + Len(high) = n + 1
    BY <1>1, <1>3, <1>5
  <2>2. /\ both \o high \in Seq(S) /\ Len(both \o high) = Len(both) + Len(high)
        /\ \A i \in 1..Len(both) + Len(high) :
             (both \o high)[i] = IF i <= Len(both) THEN both[i] ELSE high[i - Len(both)]
    BY <1>3, <1>5, ConcatProperties
  <2> HIDE DEF n
  <2> QED
    BY <2>1, <2>2, <1>5
<1>7. /\ \A i \in 1..k : (both \o high)[i] = s[i]
      /\ (both \o high)[k + 1] = x
  <2> HIDE DEF n
  <2> QED
    BY <1>1, <1>5, <1>6
<1>8. ASSUME NEW i \in k+2..n+1 PROVE (both \o high)[i] = s[i - 1]
  <2> HIDE DEF n
  <2>1. i - (k + 1) \in 1..n-k /\ k + (i - (k + 1)) = i - 1
    BY <1>1
  <2>4. i \in 1..n+1 /\ ~(i <= k + 1)
    BY <1>1
  <2>2. (both \o high)[i] = high[i - (k + 1)]
    BY <2>4, <1>6
  <2>3. high[i - (k + 1)] = s[i - 1]
    BY <2>1, <1>3
  <2> QED
    BY <2>2, <2>3
<1> QED
  BY <1>4, <1>6, <1>7, <1>8 DEF IsPut

\* t is s without what is behind the first k.
IsCut(t, s, k) ==
  /\ Len(t) = Len(s) - 1
  /\ \A i \in 1..k : t[i] = s[i]
  /\ \A i \in k+1..Len(s)-1 : t[i] = s[i + 1]

LEMMA CutAtIs ==
  ASSUME NEW S, NEW s \in Seq(S), NEW k \in 0..Len(s)-1
  PROVE  CutAt(s, k) \in Seq(S) /\ IsCut(CutAt(s, k), s, k)
<1> DEFINE n == Len(s)
           low == SubSeq(s, 1, k)
           high == SubSeq(s, k + 2, n)
<1>1. n \in Nat /\ k \in Nat /\ k + 1 <= n
  OBVIOUS
<1>2. low \in Seq(S) /\ Len(low) = k /\ \A i \in 1..k : low[i] = s[i]
  BY <1>1
<1>3. high \in Seq(S) /\ Len(high) = n - k - 1 /\ \A i \in 1..n-k-1 : high[i] = s[k + 1 + i]
  BY <1>1
<1>4. CutAt(s, k) = low \o high
  BY DEF CutAt
<1> HIDE DEF low, high
<1>5. /\ low \o high \in Seq(S) /\ Len(low \o high) = n - 1
      /\ \A i \in 1..n-1 : (low \o high)[i] = IF i <= k THEN low[i] ELSE high[i - k]
  <2>1. Len(low) + Len(high) = n - 1
    BY <1>1, <1>2, <1>3
  <2>2. /\ low \o high \in Seq(S) /\ Len(low \o high) = Len(low) + Len(high)
        /\ \A i \in 1..Len(low) + Len(high) :
             (low \o high)[i] = IF i <= Len(low) THEN low[i] ELSE high[i - Len(low)]
    BY <1>2, <1>3, ConcatProperties
  <2> HIDE DEF n
  <2> QED
    BY <2>1, <2>2, <1>2
<1>6. ASSUME NEW i \in 1..k PROVE (low \o high)[i] = s[i]
  <2> HIDE DEF n
  <2>1. i \in 1..n-1
    BY <1>1
  <2> QED
    BY <2>1, <1>2, <1>5
<1>7. ASSUME NEW i \in k+1..n-1 PROVE (low \o high)[i] = s[i + 1]
  <2> HIDE DEF n
  <2>1. i - k \in 1..n-k-1 /\ k + 1 + (i - k) = i + 1
    BY <1>1
  <2>2. i \in 1..n-1 /\ ~(i <= k)
    BY <1>1
  <2>3. (low \o high)[i] = high[i - k]
    BY <2>2, <1>5
  <2>4. high[i - k] = s[i + 1]
    BY <2>1, <1>3
  <2> QED
    BY <2>3, <2>4
<1> QED
  BY <1>4, <1>5, <1>6, <1>7 DEF IsCut

\* What is put at its place keeps a slice sorted.
LEMMA PutSorted ==
  ASSUME NEW s, Sorted(s), NEW x \in Int, NEW k \in 0..Len(s),
         \A i \in 1..k : s[i] < x, \A i \in k+1..Len(s) : x < s[i]
  PROVE  Sorted(PutAt(s, k, x)) /\ ToSet(PutAt(s, k, x)) = ToSet(s) \cup {x}
<1> DEFINE n == Len(s)
           t == PutAt(s, k, x)
<1>1. s \in Seq(Int) /\ n \in Nat /\ k \in Nat /\ k <= n /\ DOMAIN s = 1..n
  BY DEF Sorted
<1>6. t \in Seq(Int) /\ IsPut(t, s, k, x)
  BY <1>1, PutAtIs
<1>2. /\ t \in Seq(Int) /\ Len(t) = n + 1 /\ DOMAIN t = 1..n+1
      /\ \A i \in 1..k : t[i] = s[i]
      /\ t[k + 1] = x
      /\ \A i \in k+2..n+1 : t[i] = s[i - 1]
  <2> HIDE DEF t
  <2> QED
    BY <1>6 DEF IsPut
<1> HIDE DEF t
<1>3. ASSUME NEW i \in 1..n+1, NEW j \in 1..n+1, i < j PROVE t[i] < t[j]
  <2>1. \A p \in 1..n : s[p] \in Int
    BY <1>1
  <2>2. \A p, q \in 1..n : p < q => s[p] < s[q]
    BY DEF Sorted
  <2> HIDE DEF n
  <2>3. CASE j <= k
    BY <2>3, <2>2, <1>1, <1>2, <1>3
  <2>4. CASE j = k + 1
    <3>1. t[j] = x /\ t[i] = s[i] /\ i \in 1..k
      BY <2>4, <1>1, <1>2, <1>3
    <3> QED
      BY <3>1
  <2>5. CASE j > k + 1 /\ i = k + 1
    <3>1. t[i] = x /\ t[j] = s[j - 1] /\ j - 1 \in k+1..n
      BY <2>5, <1>1, <1>2, <1>3
    <3> QED
      BY <3>1 DEF n
  <2>6. CASE j > k + 1 /\ i > k + 1
    <3>1. i \in k+2..n+1 /\ j \in k+2..n+1
      BY <2>6, <1>1
    <3>2. t[i] = s[i - 1] /\ t[j] = s[j - 1]
      BY <3>1, <1>2
    <3>3. i - 1 \in 1..n /\ j - 1 \in 1..n /\ i - 1 < j - 1
      BY <3>1, <1>1, <1>3
    <3> QED
      BY <3>2, <3>3, <2>2
  <2>7. CASE j > k + 1 /\ i <= k
    <3>1. i \in 1..k /\ j \in k+2..n+1
      BY <2>7, <1>1
    <3>2. t[i] = s[i] /\ t[j] = s[j - 1]
      BY <3>1, <1>2
    <3>3. i \in 1..n /\ j - 1 \in 1..n /\ i < j - 1
      BY <3>1, <1>1
    <3> QED
      BY <3>2, <3>3, <2>2
  <2> QED
    BY <2>3, <2>4, <2>5, <2>6, <2>7, <1>1
<1>4. ToSet(t) = ToSet(s) \cup {x}
  <2>1. ASSUME NEW i \in 1..n+1 PROVE t[i] \in ToSet(s) \cup {x}
    <3>1. CASE i <= k
      <4>1. i \in 1..n /\ t[i] = s[i]
        BY <3>1, <1>1, <1>2
      <4> QED
        BY <4>1, <1>1 DEF ToSet
    <3>2. CASE i = k + 1
      BY <3>2, <1>1, <1>2
    <3>3. CASE i > k + 1
      <4>1. i - 1 \in 1..n /\ t[i] = s[i - 1]
        BY <3>3, <1>1, <1>2
      <4> QED
        BY <4>1, <1>1 DEF ToSet
    <3> QED
      BY <3>1, <3>2, <3>3, <1>1
  <2>2. ASSUME NEW i \in 1..n PROVE s[i] \in ToSet(t)
    <3>1. CASE i <= k
      <4>1. i \in 1..n+1 /\ t[i] = s[i]
        BY <3>1, <1>1, <1>2
      <4> QED
        BY <4>1, <1>2 DEF ToSet
    <3>2. CASE i > k
      <4> DEFINE j == i + 1
      <4>1. j \in 1..n+1 /\ j \in k+2..n+1 /\ j - 1 = i
        BY <3>2, <1>1
      <4> HIDE DEF j
      <4>2. t[j] = s[i]
        BY <4>1, <1>2
      <4> QED
        BY <4>1, <4>2, <1>2 DEF ToSet
    <3> QED
      BY <3>1, <3>2, <1>1
  <2>3. x \in ToSet(t)
    <3>1. k + 1 \in 1..n+1 /\ t[k + 1] = x
      BY <1>1, <1>2
    <3> QED
      BY <3>1, <1>2 DEF ToSet
  <2> QED
    BY <2>1, <2>2, <2>3, <1>1, <1>2 DEF ToSet
<1>5. Sorted(t)
  BY <1>2, <1>3 DEF Sorted
<1> QED
  BY <1>4, <1>5 DEF t

\* So does what is cut out.
LEMMA CutSorted ==
  ASSUME NEW s, Sorted(s), NEW k \in 0..Len(s)-1
  PROVE  Sorted(CutAt(s, k)) /\ ToSet(CutAt(s, k)) = ToSet(s) \ {s[k + 1]}
<1> DEFINE n == Len(s)
           t == CutAt(s, k)
<1>1. /\ s \in Seq(Int) /\ n \in Nat /\ k \in Nat /\ k + 1 \in 1..n /\ DOMAIN s = 1..n
      /\ \A p \in 1..n : s[p] \in Int
      /\ \A p, q \in 1..n : p < q => s[p] < s[q]
  BY DEF Sorted
<1>6. t \in Seq(Int) /\ IsCut(t, s, k)
  BY <1>1, CutAtIs
<1>2. /\ t \in Seq(Int) /\ Len(t) = n - 1 /\ DOMAIN t = 1..n-1
      /\ \A i \in 1..k : t[i] = s[i]
      /\ \A i \in k+1..n-1 : t[i] = s[i + 1]
  <2> HIDE DEF t
  <2> QED
    BY <1>6 DEF IsCut
<1> HIDE DEF t
<1>3. ASSUME NEW i \in 1..n-1, NEW j \in 1..n-1, i < j PROVE t[i] < t[j]
  <2> HIDE DEF n
  <2>1. CASE j <= k
    BY <2>1, <1>1, <1>2, <1>3
  <2>2. CASE j > k /\ i <= k
    BY <2>2, <1>1, <1>2, <1>3
  <2>3. CASE i > k
    <3>1. i \in k+1..n-1 /\ j \in k+1..n-1
      BY <2>3, <1>1, <1>3
    <3>2. t[i] = s[i + 1] /\ t[j] = s[j + 1]
      BY <3>1, <1>2
    <3>3. i + 1 \in 1..n /\ j + 1 \in 1..n /\ i + 1 < j + 1
      BY <3>1, <1>1, <1>3
    <3> QED
      BY <3>2, <3>3, <1>1
  <2> QED
    BY <2>1, <2>2, <2>3, <1>1
<1>4. ToSet(t) = ToSet(s) \ {s[k + 1]}
  <2>1. ASSUME NEW i \in 1..n-1 PROVE t[i] \in ToSet(s) /\ t[i] # s[k + 1]
    <3> DEFINE j == IF i <= k THEN i ELSE i + 1
    <3>3. i \in 1..k \/ i \in k+1..n-1
      BY <1>1
    <3>4. t[i] = s[j]
      BY <3>3, <1>1, <1>2
    <3>1. j \in 1..n /\ j # k + 1 /\ t[i] = s[j]
      BY <3>4, <1>1
    <3> HIDE DEF j
    <3>2. s[j] # s[k + 1]
      BY <3>1, <1>1
    <3> QED
      BY <3>1, <3>2, <1>1 DEF ToSet
  <2>2. ASSUME NEW i \in 1..n, s[i] # s[k + 1] PROVE s[i] \in ToSet(t)
    <3> DEFINE j == IF i <= k THEN i ELSE i - 1
    <3>1. i # k + 1
      BY <2>2
    <3>2. j \in 1..n-1 /\ t[j] = s[i]
      BY <3>1, <1>1, <1>2
    <3> QED
      BY <3>2, <1>2 DEF ToSet
  <2> QED
    BY <2>1, <2>2, <1>1, <1>2 DEF ToSet
<1>5. Sorted(t)
  BY <1>2, <1>3 DEF Sorted
<1> QED
  BY <1>4, <1>5 DEF t

\* A sorted slice is as long as the set that it stands for.
LEMMA LengthIsCardinality ==
  ASSUME NEW s, Sorted(s)
  PROVE  IsFiniteSet(ToSet(s)) /\ Cardinality(ToSet(s)) = Len(s)
<1>1. /\ Len(s) \in Nat /\ s \in [1..Len(s) -> ToSet(s)] /\ ToSet(s) = {s[i] : i \in 1..Len(s)}
  BY DEF Sorted, ToSet
<1>2. \A i, j \in 1..Len(s) : s[i] = s[j] => i = j
  <2> SUFFICES ASSUME NEW i \in 1..Len(s), NEW j \in 1..Len(s), i < j PROVE s[i] # s[j]
    BY <1>1
  <2> QED
    BY <1>1 DEF Sorted
<1>3. s \in Bijection(1..Len(s), ToSet(s))
  BY <1>1, <1>2 DEF Bijection, Injection, Surjection, IsInjective
<1>4. ExistsBijection(1..Len(s), ToSet(s))
  BY <1>3 DEF ExistsBijection
<1>5. Cardinality(ToSet(s)) = Len(s)
  BY <1>1, <1>4, FS_CountingElements
<1>6. IsFiniteSet(ToSet(s))
  BY <1>1, <1>4, FS_NatBijection
<1> QED
  BY <1>5, <1>6

\* The place of a number tells whether it is there.
LEMMA PlaceTells ==
  ASSUME NEW s, Sorted(s), NEW x \in Int, NEW f, IsPlace(s, x, f)
  PROVE  /\ f.found \in BOOLEAN
         /\ f.found <=> x \in ToSet(s)
         /\ f.found => f.idx \in 0..Len(s)-1 /\ s[f.idx + 1] = x
         /\ ~f.found => /\ f.idx \in 0..Len(s)
                        /\ \A i \in 1..f.idx : s[i] < x
                        /\ \A i \in f.idx+1..Len(s) : x < s[i]
<1>1. Len(s) \in Nat /\ DOMAIN s = 1..Len(s) /\ \A i \in 1..Len(s) : s[i] \in Int
  BY DEF Sorted
<1>2. PICK k \in 0..Len(s) :
        \/ f = [idx |-> k, found |-> TRUE] /\ k < Len(s) /\ s[k + 1] = x
        \/ /\ f = [idx |-> k, found |-> FALSE]
           /\ \A i \in 1..k : s[i] < x
           /\ \A i \in k+1..Len(s) : x < s[i]
  BY DEF IsPlace
<1>3. CASE f = [idx |-> k, found |-> TRUE] /\ k < Len(s) /\ s[k + 1] = x
  <2>1. k + 1 \in 1..Len(s) /\ k \in 0..Len(s)-1
    BY <1>1, <1>3
  <2>2. x \in ToSet(s)
    BY <2>1, <1>1, <1>3 DEF ToSet
  <2> QED
    BY <2>1, <2>2, <1>3
<1>4. CASE /\ f = [idx |-> k, found |-> FALSE]
           /\ \A i \in 1..k : s[i] < x
           /\ \A i \in k+1..Len(s) : x < s[i]
  <2>1. ASSUME NEW i \in 1..Len(s) PROVE s[i] # x
    <3>1. i \in 1..k \/ i \in k+1..Len(s)
      BY <1>1
    <3> QED
      BY <3>1, <1>1, <1>4
  <2>2. x \notin ToSet(s)
    BY <2>1, <1>1 DEF ToSet
  <2> QED
    BY <2>2, <1>4
<1> QED
  BY <1>2, <1>3, <1>4

\* What Add of a set and of a store does to a slice.
Inserted(s, x, threshold) ==
  LET f == Find(s, x, threshold) IN IF f.found THEN s ELSE PutAt(s, f.idx, x)

LEMMA InsertedSorted ==
  ASSUME NEW s, Sorted(s), NEW x \in Int, NEW threshold
  PROVE  /\ Sorted(Inserted(s, x, threshold))
         /\ ToSet(Inserted(s, x, threshold)) = ToSet(s) \cup {x}
<1> DEFINE f == Find(s, x, threshold)
<1>1. IsPlace(s, x, f)
  BY FindFinds
<1> HIDE DEF f
<1>2. /\ f.found <=> x \in ToSet(s)
      /\ ~f.found => /\ f.idx \in 0..Len(s)
                     /\ \A i \in 1..f.idx : s[i] < x
                     /\ \A i \in f.idx+1..Len(s) : x < s[i]
  BY <1>1, PlaceTells
<1>3. CASE f.found
  BY <1>2, <1>3 DEF Inserted, f
<1>4. CASE ~f.found
  <2>1. Sorted(PutAt(s, f.idx, x)) /\ ToSet(PutAt(s, f.idx, x)) = ToSet(s) \cup {x}
    BY <1>2, <1>4, PutSorted
  <2> QED
    BY <2>1, <1>4 DEF Inserted, f
<1> QED
  BY <1>3, <1>4

LEMMA EmptySorted == Sorted(<<>>) /\ ToSet(<<>>) = {}
BY DEF Sorted, ToSet

\* The three containers share the searches and what is done to slices.
LEMMA OneSearch ==
  /\ \A s, x, t : ArraySet!Find(s, x, t) = Find(s, x, t)
  /\ \A s, x, t : ArrayMap!Find(s, x, t) = Find(s, x, t)
  /\ \A s, x, t : MHStore!Find(s, x, t) = Find(s, x, t)
BY Zenon DEF Find, FindExp, FindBin,
   ArraySet!Find, ArraySet!FindExp, ArraySet!FindBin,
   ArrayMap!Find, ArrayMap!FindExp, ArrayMap!FindBin,
   MHStore!Find, MHStore!FindExp, MHStore!FindBin

LEMMA OneSlice ==
  /\ \A s, k, x : ArraySet!PutAt(s, k, x) = PutAt(s, k, x)
  /\ \A s, k, x : ArrayMap!PutAt(s, k, x) = PutAt(s, k, x)
  /\ \A s, k, x : MHStore!PutAt(s, k, x) = PutAt(s, k, x)
  /\ \A s, k : ArraySet!CutAt(s, k) = CutAt(s, k)
  /\ \A s, k : ArrayMap!CutAt(s, k) = CutAt(s, k)
  /\ \A s : ArraySet!Range(s) = ToSet(s)
  /\ \A s : MHStore!Range(s) = ToSet(s)
  /\ \A s : Enabling!ToSet(s) = ToSet(s)
BY Zenon DEF PutAt, CutAt, ToSet, ArraySet!PutAt, ArraySet!CutAt, ArraySet!Range,
   ArrayMap!PutAt, ArrayMap!CutAt, MHStore!PutAt, MHStore!Range, Enabling!ToSet

LEMMA OneCardinality ==
  /\ \A S : ArrayMap!Cardinality(S) = Cardinality(S)
  /\ \A S : MHStore!Cardinality(S) = Cardinality(S)
  /\ \A S : Enabling!Cardinality(S) = Cardinality(S)
  /\ \A S : Segments!Cardinality(S) = Cardinality(S)
  /\ \A S : BitSet!Cardinality(S) = Cardinality(S)
BY Zenon DEF Cardinality, ArrayMap!Cardinality, MHStore!Cardinality,
   Enabling!Cardinality, Segments!Cardinality, BitSet!Cardinality

-----------------------------------------------------------------------------
(* aset.Set                                                                *)

SetInv == Sorted(a) /\ ToSet(a) = elements

LEMMA SetStays == SetInv /\ ArraySet!Next => SetInv'
<1> SUFFICES ASSUME SetInv, ArraySet!Next PROVE SetInv'
  OBVIOUS
<1>1. CASE ArraySet!Reset
  BY <1>1, EmptySorted DEF SetInv, ArraySet!Reset
<1>2. ASSUME NEW x \in Elements, ArraySet!Add(x) PROVE SetInv'
  <2>1. a' = Inserted(a, x, Threshold) /\ elements' = elements \cup {x}
    BY <1>2, OneSearch, OneSlice DEF ArraySet!Add, Inserted
  <2>2. x \in Int
    BY NumbersAssumption
  <2>3. /\ Sorted(Inserted(a, x, Threshold))
        /\ ToSet(Inserted(a, x, Threshold)) = ToSet(a) \cup {x}
    BY <2>2, InsertedSorted DEF SetInv
  <2> QED
    BY <2>1, <2>3 DEF SetInv
<1>3. ASSUME NEW i, ArraySet!Delete(i) PROVE SetInv'
  <2>1. i \in 0..Len(a)-1 /\ a' = CutAt(a, i) /\ elements' = elements \ {a[i + 1]}
    BY <1>3, OneSlice DEF ArraySet!Delete
  <2>2. Sorted(CutAt(a, i)) /\ ToSet(CutAt(a, i)) = ToSet(a) \ {a[i + 1]}
    BY <2>1, CutSorted DEF SetInv
  <2> QED
    BY <2>1, <2>2 DEF SetInv
<1> QED
  BY <1>1, <1>2, <1>3 DEF ArraySet!Next

LEMMA SetIsRight == SetInv => ArraySet!IsASet
<1> SUFFICES ASSUME SetInv PROVE ArraySet!IsASet
  OBVIOUS
<1>1. \A i, j \in 1..Len(a) : i < j => a[i] < a[j]
  BY DEF SetInv, Sorted
<1>2. ArraySet!Range(a) = elements
  BY OneSlice DEF SetInv
<1>3. ASSUME NEW x \in Elements
      PROVE  IF x \in elements
             THEN ArraySet!IndexOf(x) >= 0 /\ a[ArraySet!IndexOf(x) + 1] = x
             ELSE ArraySet!IndexOf(x) = -1
  <2> DEFINE f == Find(a, x, Threshold)
  <2>1. ArraySet!IndexOf(x) = IF f.found THEN f.idx ELSE -1
    BY OneSearch DEF ArraySet!IndexOf
  <2>2. x \in Int
    BY NumbersAssumption
  <2>3. IsPlace(a, x, f)
    BY <2>2, FindFinds DEF SetInv
  <2> HIDE DEF f
  <2>4. /\ f.found <=> x \in elements
        /\ f.found => f.idx \in 0..Len(a)-1 /\ a[f.idx + 1] = x
    BY <2>2, <2>3, PlaceTells DEF SetInv
  <2> QED
    BY <2>1, <2>4
<1> QED
  BY <1>1, <1>2, <1>3 DEF ArraySet!IsASet

-----------------------------------------------------------------------------
(* mhstore.MHStore                                                         *)

StoreInv ==
  /\ pairs \subseteq Masks \X Hashes
  /\ store \in [Masks -> Seq(Int)]
  /\ \A m \in Masks :
       Sorted(store[m]) /\ ToSet(store[m]) = {h \in Hashes : <<m, h>> \in pairs}
  /\ Sorted(set) /\ ToSet(set) = {p[1] : p \in pairs}

LEMMA StoreStays == StoreInv /\ MHStore!Next => StoreInv'
<1> SUFFICES ASSUME StoreInv, MHStore!Next PROVE StoreInv'
  OBVIOUS
<1>1. CASE MHStore!Reset
  <2>1. /\ store' = [m \in Masks |-> IF m \in ToSet(set) THEN <<>> ELSE store[m]]
        /\ set' = <<>> /\ pairs' = {}
    BY <1>1, OneSlice DEF MHStore!Reset
  <2>2. ASSUME NEW m \in Masks
        PROVE  /\ store'[m] \in Seq(Int) /\ Sorted(store'[m]) /\ ToSet(store'[m]) = {}
    <3>1. CASE m \in ToSet(set)
      BY <3>1, <2>1, EmptySorted DEF Sorted
    <3>2. CASE m \notin ToSet(set)
      <4>1. \A h \in Hashes : <<m, h>> \notin pairs
        BY <3>2 DEF StoreInv
      <4> QED
        BY <4>1, <3>2, <2>1 DEF StoreInv
    <3> QED
      BY <3>1, <3>2
  <2>3. store' \in [Masks -> Seq(Int)]
    BY <2>1, <2>2
  <2> QED
    BY <2>1, <2>2, <2>3, EmptySorted DEF StoreInv
<1>2. ASSUME NEW m \in Masks, NEW h \in Hashes, MHStore!Add(m, h) PROVE StoreInv'
  <2>1. /\ store' = [store EXCEPT ![m] = Inserted(store[m], h, Threshold)]
        /\ set' = Inserted(set, m, Threshold)
        /\ pairs' = pairs \cup {<<m, h>>}
    BY <1>2, OneSearch, OneSlice DEF MHStore!Add, MHStore!Inserted, Inserted
  <2>2. m \in Int /\ h \in Int
    BY NumbersAssumption
  <2>3. /\ Sorted(Inserted(store[m], h, Threshold))
        /\ ToSet(Inserted(store[m], h, Threshold)) = ToSet(store[m]) \cup {h}
    BY <2>2, InsertedSorted DEF StoreInv
  <2>4. Sorted(Inserted(set, m, Threshold)) /\ ToSet(Inserted(set, m, Threshold)) = ToSet(set) \cup {m}
    BY <2>2, InsertedSorted DEF StoreInv
  <2>5. store' \in [Masks -> Seq(Int)] /\ store'[m] = Inserted(store[m], h, Threshold)
    BY <2>1, <2>3 DEF StoreInv, Sorted
  <2>6. ASSUME NEW n \in Masks
        PROVE  Sorted(store'[n]) /\ ToSet(store'[n]) = {g \in Hashes : <<n, g>> \in pairs'}
    <3>1. CASE n = m
      BY <3>1, <2>1, <2>3, <2>5 DEF StoreInv
    <3>2. CASE n # m
      <4>1. store'[n] = store[n]
        BY <3>2, <2>1 DEF StoreInv
      <4> QED
        BY <4>1, <3>2, <2>1 DEF StoreInv
    <3> QED
      BY <3>1, <3>2
  <2>7. {p[1] : p \in pairs'} = {p[1] : p \in pairs} \cup {m}
    <3>1. <<m, h>>[1] = m /\ <<m, h>> \in pairs'
      BY <2>1
    <3>2. \A p \in pairs' : p \in pairs \/ p = <<m, h>>
      BY <2>1
    <3>3. pairs \subseteq pairs'
      BY <2>1
    <3> QED
      BY <3>1, <3>2, <3>3
  <2>8. Sorted(set') /\ ToSet(set') = {p[1] : p \in pairs'}
    BY <2>1, <2>4, <2>7 DEF StoreInv
  <2>9. pairs' \subseteq Masks \X Hashes
    BY <2>1 DEF StoreInv
  <2> QED
    BY <2>5, <2>6, <2>8, <2>9 DEF StoreInv
<1> QED
  BY <1>1, <1>2 DEF MHStore!Next

LEMMA StoreIsRight == StoreInv => MHStore!IsARelation
<1> SUFFICES ASSUME StoreInv PROVE MHStore!IsARelation
  OBVIOUS
<1>1. Len(set) = MHStore!Cardinality({p[1] : p \in pairs})
  BY LengthIsCardinality, OneCardinality DEF StoreInv
<1>2. \A m \in Masks : \A i, j \in 1..Len(store[m]) : i < j => store[m][i] < store[m][j]
  BY DEF StoreInv, Sorted
<1>3. \A m \in Masks : MHStore!Range(store[m]) = {h \in Hashes : <<m, h>> \in pairs}
  BY OneSlice DEF StoreInv
<1>4. ASSUME NEW m \in Masks
      PROVE  /\ MHStore!Range(store[m]) = {h \in Hashes : <<m, h>> \in pairs}
             /\ \A i, j \in 1..Len(store[m]) : i < j => store[m][i] < store[m][j]
  BY <1>2, <1>3
<1> QED
  BY <1>1, <1>4 DEF MHStore!IsARelation

-----------------------------------------------------------------------------
(* Slices of entries that are sorted by a number, the first of an entry.   *)

KeysOf(s) == [i \in DOMAIN s |-> s[i][1]]

LEMMA FirstsIs ==
  ASSUME NEW E, \A x \in E : x[1] \in Int, NEW s \in Seq(E)
  PROVE  /\ KeysOf(s) \in Seq(Int) /\ Len(KeysOf(s)) = Len(s) /\ Len(s) \in Nat
         /\ \A i \in 1..Len(s) : KeysOf(s)[i] = s[i][1] /\ s[i] \in E /\ s[i][1] \in Int
<1>1. Len(s) \in Nat /\ DOMAIN s = 1..Len(s) /\ \A i \in 1..Len(s) : s[i] \in E
  OBVIOUS
<1>2. \A i \in 1..Len(s) : s[i][1] \in Int
  BY <1>1
<1>3. KeysOf(s) \in [1..Len(s) -> Int] /\ \A i \in 1..Len(s) : KeysOf(s)[i] = s[i][1]
  BY <1>1, <1>2 DEF KeysOf
<1>4. KeysOf(s) \in Seq(Int) /\ Len(KeysOf(s)) = Len(s)
  BY <1>1, <1>3
<1> QED
  BY <1>1, <1>2, <1>3, <1>4

LEMMA FirstsPut ==
  ASSUME NEW E, \A x \in E : x[1] \in Int, NEW s \in Seq(E), NEW i \in 0..Len(s), NEW p \in E
  PROVE  /\ PutAt(s, i, p) \in Seq(E) /\ IsPut(PutAt(s, i, p), s, i, p)
         /\ KeysOf(PutAt(s, i, p)) = PutAt(KeysOf(s), i, p[1])
<1> DEFINE t == PutAt(s, i, p)
           k == KeysOf(s)
           u == PutAt(k, i, p[1])
<1>1. t \in Seq(E) /\ IsPut(t, s, i, p)
  BY PutAtIs
<1>2. k \in Seq(Int) /\ Len(k) = Len(s) /\ p[1] \in Int /\ Len(s) \in Nat
      /\ \A j \in 1..Len(s) : k[j] = s[j][1]
  BY FirstsIs
<1>3. u \in Seq(Int) /\ IsPut(u, k, i, p[1])
  <2>1. i \in 0..Len(k)
    BY <1>2
  <2> HIDE DEF k
  <2> QED
    BY <1>2, <2>1, PutAtIs
<1>4. KeysOf(t) \in Seq(Int) /\ Len(KeysOf(t)) = Len(t) /\ \A j \in 1..Len(t) : KeysOf(t)[j] = t[j][1]
  BY <1>1, FirstsIs
<1> HIDE DEF t, k, u
<1>5. Len(t) = Len(s) + 1 /\ Len(u) = Len(s) + 1
  BY <1>1, <1>2, <1>3 DEF IsPut
<1>6. ASSUME NEW j \in 1..Len(s)+1 PROVE KeysOf(t)[j] = u[j]
  <2>1. KeysOf(t)[j] = t[j][1]
    BY <1>4, <1>5
  <2>2. CASE j <= i
    <3>1. j \in 1..i /\ j \in 1..Len(s)
      BY <2>2, <1>2
    <3> QED
      BY <2>1, <3>1, <1>1, <1>2, <1>3 DEF IsPut
  <2>3. CASE j = i + 1
    BY <2>1, <2>3, <1>1, <1>3 DEF IsPut
  <2>4. CASE j > i + 1
    <3>1. j \in i+2..Len(s)+1 /\ j - 1 \in 1..Len(s)
      BY <2>4, <1>2
    <3>2. t[j] = s[j - 1] /\ u[j] = k[j - 1]
      BY <3>1, <1>1, <1>2, <1>3 DEF IsPut
    <3> QED
      BY <2>1, <3>1, <3>2, <1>2
  <2> QED
    BY <2>2, <2>3, <2>4, <1>2
<1>7. KeysOf(t) = u
  BY <1>3, <1>4, <1>5, <1>6, SeqEqual
<1> QED
  BY <1>1, <1>7 DEF t, k, u

LEMMA FirstsCut ==
  ASSUME NEW E, \A x \in E : x[1] \in Int, NEW s \in Seq(E), NEW i \in 0..Len(s)-1
  PROVE  /\ CutAt(s, i) \in Seq(E) /\ IsCut(CutAt(s, i), s, i)
         /\ KeysOf(CutAt(s, i)) = CutAt(KeysOf(s), i)
<1> DEFINE t == CutAt(s, i)
           k == KeysOf(s)
           u == CutAt(k, i)
<1>1. t \in Seq(E) /\ IsCut(t, s, i)
  BY CutAtIs
<1>2. k \in Seq(Int) /\ Len(k) = Len(s) /\ Len(s) \in Nat
      /\ \A j \in 1..Len(s) : k[j] = s[j][1]
  BY FirstsIs
<1>3. u \in Seq(Int) /\ IsCut(u, k, i)
  <2>1. i \in 0..Len(k)-1
    BY <1>2
  <2> HIDE DEF k
  <2> QED
    BY <1>2, <2>1, CutAtIs
<1>4. KeysOf(t) \in Seq(Int) /\ Len(KeysOf(t)) = Len(t) /\ \A j \in 1..Len(t) : KeysOf(t)[j] = t[j][1]
  BY <1>1, FirstsIs
<1> HIDE DEF t, k, u
<1>5. Len(t) = Len(s) - 1 /\ Len(u) = Len(s) - 1
  BY <1>1, <1>2, <1>3 DEF IsCut
<1>6. ASSUME NEW j \in 1..Len(s)-1 PROVE KeysOf(t)[j] = u[j]
  <2>1. KeysOf(t)[j] = t[j][1]
    BY <1>4, <1>5
  <2>2. CASE j <= i
    <3>1. j \in 1..i /\ j \in 1..Len(s)
      BY <2>2, <1>2
    <3> QED
      BY <2>1, <3>1, <1>1, <1>2, <1>3 DEF IsCut
  <2>3. CASE j > i
    <3>1. j \in i+1..Len(s)-1 /\ j + 1 \in 1..Len(s)
      BY <2>3, <1>2
    <3>2. t[j] = s[j + 1] /\ u[j] = k[j + 1]
      BY <3>1, <1>1, <1>2, <1>3 DEF IsCut
    <3> QED
      BY <2>1, <3>1, <3>2, <1>2
  <2> QED
    BY <2>2, <2>3, <1>2
<1>7. KeysOf(t) = u
  BY <1>3, <1>4, <1>5, <1>6, SeqEqual
<1> QED
  BY <1>1, <1>7 DEF t, k, u

-----------------------------------------------------------------------------
(* amap.Map                                                                *)

Entries == MapKeys \X Values
MapInv ==
  /\ A \in Seq(Entries)
  /\ Sorted(KeysOf(A))
  /\ DOMAIN dict = ToSet(KeysOf(A))
  /\ \A i \in 1..Len(A) : dict[A[i][1]] = A[i][2]

LEMMA FirstsAreNumbers == \A x \in Entries : x[1] \in Int
BY NumbersAssumption DEF Entries

LEMMA KeysOfIs ==
  ASSUME NEW s \in Seq(Entries)
  PROVE  /\ KeysOf(s) \in Seq(Int) /\ Len(KeysOf(s)) = Len(s) /\ Len(s) \in Nat
         /\ \A i \in 1..Len(s) : KeysOf(s)[i] = s[i][1] /\ s[i] \in Entries /\ s[i][1] \in Int
BY FirstsAreNumbers, FirstsIs

LEMMA KeysOfPut ==
  ASSUME NEW s \in Seq(Entries), NEW i \in 0..Len(s), NEW p \in Entries
  PROVE  /\ PutAt(s, i, p) \in Seq(Entries) /\ IsPut(PutAt(s, i, p), s, i, p)
         /\ KeysOf(PutAt(s, i, p)) = PutAt(KeysOf(s), i, p[1])
BY FirstsAreNumbers, FirstsPut

LEMMA KeysOfCut ==
  ASSUME NEW s \in Seq(Entries), NEW i \in 0..Len(s)-1
  PROVE  /\ CutAt(s, i) \in Seq(Entries) /\ IsCut(CutAt(s, i), s, i)
         /\ KeysOf(CutAt(s, i)) = CutAt(KeysOf(s), i)
BY FirstsAreNumbers, FirstsCut

\* The search for a key tells whether the map has it, and where.
LEMMA SearchTells ==
  ASSUME MapInv, NEW k \in MapKeys
  PROVE  LET f == Find(KeysOf(A), k, Threshold)
         IN /\ f.found \in BOOLEAN
            /\ f.found <=> k \in DOMAIN dict
            /\ f.found => /\ f.idx \in 0..Len(A)-1 /\ f.idx + 1 \in 1..Len(A)
                          /\ A[f.idx + 1][1] = k /\ A[f.idx + 1][2] = dict[k]
            /\ ~f.found => /\ f.idx \in 0..Len(A)
                           /\ \A i \in 1..f.idx : KeysOf(A)[i] < k
                           /\ \A i \in f.idx+1..Len(A) : k < KeysOf(A)[i]
<1> DEFINE f == Find(KeysOf(A), k, Threshold)
<1>1. k \in Int
  BY NumbersAssumption
<1>2. IsPlace(KeysOf(A), k, f)
  BY <1>1, FindFinds DEF MapInv
<1>3. /\ Len(KeysOf(A)) = Len(A) /\ Len(A) \in Nat
      /\ \A i \in 1..Len(A) : KeysOf(A)[i] = A[i][1]
  BY KeysOfIs DEF MapInv
<1> HIDE DEF f
<1>4. /\ f.found \in BOOLEAN
      /\ f.found <=> k \in ToSet(KeysOf(A))
      /\ f.found => f.idx \in 0..Len(A)-1 /\ KeysOf(A)[f.idx + 1] = k
      /\ ~f.found => /\ f.idx \in 0..Len(A)
                     /\ \A i \in 1..f.idx : KeysOf(A)[i] < k
                     /\ \A i \in f.idx+1..Len(A) : k < KeysOf(A)[i]
  BY <1>1, <1>2, <1>3, PlaceTells DEF MapInv
<1>5. ASSUME f.found
      PROVE  /\ f.idx + 1 \in 1..Len(A)
             /\ A[f.idx + 1][1] = k /\ A[f.idx + 1][2] = dict[k]
  <2>1. f.idx + 1 \in 1..Len(A)
    BY <1>3, <1>4, <1>5
  <2>2. A[f.idx + 1][1] = k
    BY <2>1, <1>3, <1>4, <1>5
  <2> QED
    BY <2>1, <2>2 DEF MapInv
<1> QED
  BY <1>4, <1>5 DEF f, MapInv

\* A value is put for a key: in its place, or in a new one.
LEMMA MapPut ==
  ASSUME MapInv, NEW k \in MapKeys, NEW v \in Values,
         A' = (LET f == Find(KeysOf(A), k, Threshold)
               IN IF f.found THEN [A EXCEPT ![f.idx + 1] = <<k, v>>]
                             ELSE PutAt(A, f.idx, <<k, v>>)),
         DOMAIN dict' = DOMAIN dict \cup {k},
         \A x \in DOMAIN dict' : dict'[x] = IF x = k THEN v ELSE dict[x]
  PROVE  MapInv'
<1> DEFINE f == Find(KeysOf(A), k, Threshold)
           n == Len(A)
           p == <<k, v>>
<1>1. /\ f.found \in BOOLEAN
      /\ f.found <=> k \in DOMAIN dict
      /\ f.found => f.idx \in 0..n-1 /\ f.idx + 1 \in 1..n /\ A[f.idx + 1][1] = k
      /\ ~f.found => /\ f.idx \in 0..n
                     /\ \A i \in 1..f.idx : KeysOf(A)[i] < k
                     /\ \A i \in f.idx+1..n : k < KeysOf(A)[i]
  BY SearchTells
<1>2. A' = IF f.found THEN [A EXCEPT ![f.idx + 1] = p] ELSE PutAt(A, f.idx, p)
  OBVIOUS
<1> HIDE DEF f
<1>3. /\ A \in Seq(Entries) /\ n \in Nat /\ Len(KeysOf(A)) = n /\ KeysOf(A) \in Seq(Int)
      /\ \A i \in 1..n : KeysOf(A)[i] = A[i][1]
      /\ Sorted(KeysOf(A)) /\ DOMAIN dict = ToSet(KeysOf(A))
      /\ \A i \in 1..n : dict[A[i][1]] = A[i][2]
      /\ DOMAIN A = 1..n /\ DOMAIN KeysOf(A) = 1..n
  BY KeysOfIs DEF MapInv
<1>4. p \in Entries /\ p[1] = k /\ p[2] = v /\ k \in Int
  BY NumbersAssumption DEF Entries
<1> HIDE DEF p
<1>5. \A i \in 1..n : A[i][1] \in DOMAIN dict
  BY <1>3 DEF ToSet
<1>6. CASE f.found
  <2> DEFINE j == f.idx + 1
  <2>1. j \in 1..n /\ A[j][1] = k /\ A' = [A EXCEPT ![j] = p]
    BY <1>1, <1>2, <1>6
  <2> HIDE DEF j
  <2>2. /\ A' \in Seq(Entries) /\ Len(A') = n
        /\ \A i \in 1..n : A'[i] = IF i = j THEN p ELSE A[i]
    <3> DEFINE B == [A EXCEPT ![j] = p]
    <3>1. B \in Seq(Entries) /\ Len(B) = n
      BY <2>1, <1>3, <1>4, ExceptSeq
    <3>2. \A i \in 1..n : B[i] = IF i = j THEN p ELSE A[i]
      BY <2>1, <1>3
    <3> QED
      BY <3>1, <3>2, <2>1
  <2>3. /\ KeysOf(A') \in Seq(Int) /\ Len(KeysOf(A')) = n
        /\ \A i \in 1..n : KeysOf(A')[i] = A'[i][1]
    <3> HIDE DEF n
    <3> QED
      BY <2>2, KeysOfIs
  <2>4. \A i \in 1..n : KeysOf(A')[i] = KeysOf(A)[i]
    <3> SUFFICES ASSUME NEW i \in 1..n PROVE KeysOf(A')[i] = KeysOf(A)[i]
      OBVIOUS
    <3>1. KeysOf(A')[i] = A'[i][1] /\ KeysOf(A)[i] = A[i][1]
      BY <2>3, <1>3
    <3>2. A'[i][1] = A[i][1]
      BY <2>1, <2>2, <1>4
    <3> QED
      BY <3>1, <3>2
  <2>5. KeysOf(A') = KeysOf(A)
    <3>1. Len(KeysOf(A')) = Len(KeysOf(A))
      BY <2>3, <1>3
    <3>2. \A i \in 1..Len(KeysOf(A')) : KeysOf(A')[i] = KeysOf(A)[i]
      BY <2>3, <2>4
    <3> HIDE DEF n
    <3> QED
      BY <3>1, <3>2, <2>3, <1>3, SeqEqual
  <2>6. DOMAIN dict' = DOMAIN dict
    BY <1>1, <1>6
  <2>7. ASSUME NEW i \in 1..n PROVE dict'[A'[i][1]] = A'[i][2]
    <3>1. \A m \in 1..n : KeysOf(A)[m] = k => m = j
      <4> SUFFICES ASSUME NEW m \in 1..n, KeysOf(A)[m] = k, m # j PROVE FALSE
        OBVIOUS
      <4>1. KeysOf(A)[j] = k
        BY <2>1, <1>3
      <4>2. m < j \/ j < m
        BY <2>1, <1>3
      <4>3. KeysOf(A)[m] < KeysOf(A)[j] \/ KeysOf(A)[j] < KeysOf(A)[m]
        BY <4>2, <2>1, <1>3 DEF Sorted
      <4> QED
        BY <4>1, <4>3, <1>4
    <3>2. CASE i = j
      BY <3>2, <2>1, <2>2, <2>6, <1>1, <1>4, <1>6
    <3>3. CASE i # j
      <4>1. A'[i] = A[i]
        BY <3>3, <2>2
      <4>2. KeysOf(A)[i] = A[i][1] /\ KeysOf(A)[i] # k
        BY <3>1, <3>3, <1>3
      <4>3. A[i][1] \in DOMAIN dict'
        BY <2>6, <1>5
      <4>4. dict'[A[i][1]] = dict[A[i][1]]
        BY <4>2, <4>3
      <4>5. dict[A[i][1]] = A[i][2]
        BY <1>3
      <4> QED
        BY <4>1, <4>4, <4>5
    <3> QED
      BY <3>2, <3>3
  <2> QED
    BY <2>2, <2>5, <2>6, <2>7, <1>3 DEF MapInv
<1>7. CASE ~f.found
  <2>1. f.idx \in 0..n /\ A' = PutAt(A, f.idx, p)
    BY <1>1, <1>2, <1>7
  <2>2. /\ A' \in Seq(Entries) /\ IsPut(A', A, f.idx, p)
        /\ KeysOf(A') = PutAt(KeysOf(A), f.idx, k)
    BY <2>1, <1>3, <1>4, KeysOfPut
  <2>3. Sorted(KeysOf(A')) /\ ToSet(KeysOf(A')) = ToSet(KeysOf(A)) \cup {k}
    <3> DEFINE s == KeysOf(A)
    <3>1. /\ Sorted(s) /\ k \in Int /\ f.idx \in 0..Len(s)
          /\ \A i \in 1..f.idx : s[i] < k
          /\ \A i \in f.idx+1..Len(s) : k < s[i]
      BY <2>1, <1>1, <1>3, <1>4, <1>7
    <3> HIDE DEF s
    <3>2. Sorted(PutAt(s, f.idx, k)) /\ ToSet(PutAt(s, f.idx, k)) = ToSet(s) \cup {k}
      BY <3>1, PutSorted
    <3> QED
      BY <3>2, <2>2 DEF s
  <2>4. DOMAIN dict' = ToSet(KeysOf(A'))
    BY <2>3, <1>3
  <2>5. ASSUME NEW i \in 1..Len(A') PROVE dict'[A'[i][1]] = A'[i][2]
    <3>1. i \in 1..n+1 /\ f.idx \in Int
      BY <2>1, <2>2 DEF IsPut
    <3>2. CASE i = f.idx + 1
      BY <3>2, <2>2, <1>4 DEF IsPut
    <3>3. ASSUME NEW j \in 1..n, A'[i] = A[j] PROVE dict'[A'[i][1]] = A'[i][2]
      <4>1. A[j][1] \in DOMAIN dict /\ A[j][1] # k
        BY <1>1, <1>5, <1>7
      <4> QED
        BY <4>1, <3>3, <1>3
    <3>4. CASE i <= f.idx
      <4>1. i \in 1..f.idx /\ i \in 1..n
        BY <3>1, <3>4, <2>1, <1>3
      <4> QED
        BY <4>1, <3>3, <2>2 DEF IsPut
    <3>5. CASE i > f.idx + 1
      <4>1. i \in f.idx+2..n+1 /\ i - 1 \in 1..n
        BY <3>1, <3>5, <2>1, <1>3
      <4> QED
        BY <4>1, <3>3, <2>2 DEF IsPut
    <3> QED
      BY <3>1, <3>2, <3>4, <3>5
  <2> QED
    BY <2>2, <2>3, <2>4, <2>5 DEF MapInv
<1> QED
  BY <1>6, <1>7

\* An entry is cut out.
LEMMA MapCut ==
  ASSUME MapInv, NEW i \in 0..Len(A)-1, A' = CutAt(A, i),
         DOMAIN dict' = DOMAIN dict \ {A[i + 1][1]},
         \A x \in DOMAIN dict' : dict'[x] = dict[x]
  PROVE  MapInv'
<1> DEFINE n == Len(A)
           s == KeysOf(A)
<1>1. /\ A \in Seq(Entries) /\ n \in Nat /\ Len(s) = n /\ i + 1 \in 1..n
      /\ \A j \in 1..n : s[j] = A[j][1]
      /\ Sorted(s) /\ DOMAIN dict = ToSet(s)
      /\ \A j \in 1..n : dict[A[j][1]] = A[j][2]
  BY KeysOfIs DEF MapInv
<1>2. A' \in Seq(Entries) /\ IsCut(A', A, i) /\ KeysOf(A') = CutAt(s, i)
  BY <1>1, KeysOfCut
<1>3. Sorted(CutAt(s, i)) /\ ToSet(CutAt(s, i)) = ToSet(s) \ {s[i + 1]}
  <2>1. i \in 0..Len(s)-1
    BY <1>1
  <2> HIDE DEF s
  <2> QED
    BY <2>1, <1>1, CutSorted
<1>4. DOMAIN dict' = ToSet(KeysOf(A'))
  BY <1>1, <1>2, <1>3
<1>5. KeysOf(A') \in Seq(Int) /\ Len(KeysOf(A')) = Len(A') /\ Len(A') \in Nat
      /\ \A j \in 1..Len(A') : KeysOf(A')[j] = A'[j][1]
  BY <1>2, KeysOfIs
<1>6. ASSUME NEW j \in 1..Len(A') PROVE dict'[A'[j][1]] = A'[j][2]
  <2>1. A'[j][1] \in DOMAIN dict'
    <3>1. DOMAIN KeysOf(A') = 1..Len(A') /\ KeysOf(A')[j] = A'[j][1]
      BY <1>5
    <3> QED
      BY <3>1, <1>4 DEF ToSet
  <2>2. ASSUME NEW m \in 1..n, A'[j] = A[m] PROVE dict'[A'[j][1]] = A'[j][2]
    BY <2>1, <2>2, <1>1
  <2>3. j \in 1..n-1
    BY <1>2 DEF IsCut
  <2>4. CASE j <= i
    <3>1. j \in 1..i /\ j \in 1..n
      BY <2>3, <2>4, <1>1
    <3> QED
      BY <3>1, <2>2, <1>2 DEF IsCut
  <2>5. CASE j > i
    <3>1. j \in i+1..n-1 /\ j + 1 \in 1..n
      BY <2>3, <2>5, <1>1
    <3> QED
      BY <3>1, <2>2, <1>2 DEF IsCut
  <2> QED
    BY <2>3, <2>4, <2>5, <1>1
<1> QED
  BY <1>2, <1>3, <1>4, <1>6 DEF MapInv

LEMMA OneMap ==
  /\ \A s : ArrayMap!KeysOf(s) = KeysOf(s)
  /\ \A k : ArrayMap!Search(k) = Find(KeysOf(A), k, Threshold)
BY OneSearch DEF ArrayMap!KeysOf, KeysOf, ArrayMap!Search

LEMMA MapStays == MapInv /\ ArrayMap!Next => MapInv'
<1> SUFFICES ASSUME MapInv, ArrayMap!Next PROVE MapInv'
  OBVIOUS
<1>1. CASE ArrayMap!Reset
  <2>1. A' = <<>> /\ DOMAIN dict' = {}
    BY <1>1 DEF ArrayMap!Reset, ArrayMap!NoEntries
  <2>2. KeysOf(A') = <<>>
    BY <2>1 DEF KeysOf
  <2> QED
    BY <2>1, <2>2, EmptySorted DEF MapInv
<1>2. ASSUME NEW k \in MapKeys, NEW v \in Values, ArrayMap!Set(k, v) PROVE MapInv'
  <2>1. A' = LET f == Find(KeysOf(A), k, Threshold)
             IN IF f.found THEN [A EXCEPT ![f.idx + 1] = <<k, v>>]
                           ELSE PutAt(A, f.idx, <<k, v>>)
    BY <1>2, OneMap, OneSlice DEF ArrayMap!Set
  <2>2. /\ DOMAIN dict' = DOMAIN dict \cup {k}
        /\ \A x \in DOMAIN dict' : dict'[x] = IF x = k THEN v ELSE dict[x]
    BY <1>2 DEF ArrayMap!Set, ArrayMap!With
  <2> QED
    BY <2>1, <2>2, MapPut
<1>3. ASSUME NEW k \in MapKeys, NEW v \in Values, NEW w \in Values, ArrayMap!SetFn(k, v, w)
      PROVE  MapInv'
  <2> DEFINE x == IF k \in DOMAIN dict THEN w ELSE v
             f == Find(KeysOf(A), k, Threshold)
  <2>1. f.found \in BOOLEAN /\ (f.found <=> k \in DOMAIN dict)
    BY SearchTells
  <2>2. A' = IF f.found THEN [A EXCEPT ![f.idx + 1] = <<k, w>>] ELSE PutAt(A, f.idx, <<k, v>>)
    BY <1>3, OneMap, OneSlice DEF ArrayMap!SetFn
  <2>3. /\ DOMAIN dict' = DOMAIN dict \cup {k}
        /\ \A y \in DOMAIN dict' : dict'[y] = IF y = k THEN x ELSE dict[y]
    BY <1>3 DEF ArrayMap!SetFn, ArrayMap!With
  <2> HIDE DEF f
  <2>4. A' = IF f.found THEN [A EXCEPT ![f.idx + 1] = <<k, x>>] ELSE PutAt(A, f.idx, <<k, x>>)
    BY <2>1, <2>2
  <2>5. x \in Values
    OBVIOUS
  <2> HIDE DEF x
  <2> QED
    BY <2>3, <2>4, <2>5, MapPut DEF f
<1>4. ASSUME NEW k \in MapKeys, ArrayMap!Delete(k) PROVE MapInv'
  <2> DEFINE f == Find(KeysOf(A), k, Threshold)
  <2>1. /\ f.found \in BOOLEAN /\ (f.found <=> k \in DOMAIN dict)
        /\ f.found => f.idx \in 0..Len(A)-1 /\ A[f.idx + 1][1] = k
    BY SearchTells
  <2>2. ArrayMap!Index(k) = IF f.found THEN f.idx ELSE -1
    BY OneMap DEF ArrayMap!Index
  <2>3. /\ A' = IF ArrayMap!Index(k) > -1 THEN CutAt(A, ArrayMap!Index(k)) ELSE A
        /\ DOMAIN dict' = DOMAIN dict \ {k}
        /\ \A x \in DOMAIN dict' : dict'[x] = dict[x]
    BY <1>4, OneSlice DEF ArrayMap!Delete, ArrayMap!Without
  <2> HIDE DEF f
  <2>4. CASE f.found
    <3>1. f.idx \in 0..Len(A)-1 /\ A' = CutAt(A, f.idx) /\ A[f.idx + 1][1] = k
      BY <2>1, <2>2, <2>3, <2>4
    <3> QED
      BY <3>1, <2>3, MapCut
  <2>5. CASE ~f.found
    <3>3. k \notin DOMAIN dict /\ ~(ArrayMap!Index(k) > -1)
      BY <2>1, <2>2, <2>5
    <3>1. A' = A /\ DOMAIN dict' = DOMAIN dict /\ \A x \in DOMAIN dict : dict'[x] = dict[x]
      BY <3>3, <2>3
    <3>2. \A i \in 1..Len(A) : A[i][1] \in DOMAIN dict
      BY KeysOfIs DEF MapInv, ToSet
    <3> QED
      BY <3>1, <3>2 DEF MapInv
  <2> QED
    BY <2>1, <2>4, <2>5
<1>5. ASSUME NEW i \in Int, ArrayMap!DeleteByIndex(i) PROVE MapInv'
  <2>1. Len(A) \in Nat
    BY DEF MapInv
  <2>2. CASE i \in 0..Len(A)-1
    <3>1. /\ A' = CutAt(A, i)
          /\ DOMAIN dict' = DOMAIN dict \ {A[i + 1][1]}
          /\ \A x \in DOMAIN dict' : dict'[x] = dict[x]
      BY <1>5, <2>1, <2>2, OneSlice DEF ArrayMap!DeleteByIndex, ArrayMap!Without
    <3> QED
      BY <3>1, <2>2, MapCut
  <2>3. CASE i \notin 0..Len(A)-1
    <3>1. A' = A /\ dict' = dict
      BY <1>5, <2>1, <2>3 DEF ArrayMap!DeleteByIndex
    <3> QED
      BY <3>1 DEF MapInv
  <2> QED
    BY <2>2, <2>3
<1> QED
  BY <1>1, <1>2, <1>3, <1>4, <1>5 DEF ArrayMap!Next

LEMMA MapIsRight == MapInv => ArrayMap!IsAMap
<1> SUFFICES ASSUME MapInv PROVE ArrayMap!IsAMap
  OBVIOUS
<1>1. /\ Len(KeysOf(A)) = Len(A) /\ Len(A) \in Nat
      /\ \A i \in 1..Len(A) : KeysOf(A)[i] = A[i][1]
  BY KeysOfIs DEF MapInv
<1>2. \A i, j \in 1..Len(A) : i < j => A[i][1] < A[j][1]
  BY <1>1 DEF MapInv, Sorted
<1>3. Len(A) = ArrayMap!Cardinality(DOMAIN dict)
  BY <1>1, LengthIsCardinality, OneCardinality DEF MapInv
<1>4. ASSUME NEW k \in MapKeys
      PROVE  ArrayMap!Get(k) = IF k \in DOMAIN dict THEN <<dict[k]>> ELSE <<>>
  <2> DEFINE f == Find(KeysOf(A), k, Threshold)
  <2>1. /\ f.found \in BOOLEAN /\ (f.found <=> k \in DOMAIN dict)
        /\ f.found => A[f.idx + 1][2] = dict[k]
    BY SearchTells
  <2>2. ArrayMap!Get(k) = IF f.found THEN <<A[f.idx + 1][2]>> ELSE <<>>
    BY OneMap DEF ArrayMap!Get
  <2> HIDE DEF f
  <2> QED
    BY <2>1, <2>2
<1> QED
  BY <1>2, <1>3, <1>4 DEF ArrayMap!IsAMap

-----------------------------------------------------------------------------
(* The Mappers: sequences of pairs against a function.                     *)

Pairs == Names \X Values

\* The pairs ps are those of the function m, each once.
Holds(ps, m) ==
  /\ ps \in Seq(Pairs)
  /\ \A i, j \in 1..Len(ps) : ps[i][1] = ps[j][1] => i = j
  /\ DOMAIN m = {ps[i][1] : i \in 1..Len(ps)}
  /\ \A i \in 1..Len(ps) : m[ps[i][1]] = ps[i][2]

With(m, k, v) == [x \in DOMAIN m \cup {k} |-> IF x = k THEN v ELSE m[x]]
Without(m, k) == [x \in DOMAIN m \ {k} |-> m[x]]

LEMMA OneMapper ==
  /\ \A s, x, t : Mappers!Find(s, x, t) = Find(s, x, t)
  /\ \A s, k, x : Mappers!PutAt(s, k, x) = PutAt(s, k, x)
  /\ \A s, k : Mappers!CutAt(s, k) = CutAt(s, k)
  /\ \A s, k : Mappers!RemoveAt(s, k) = SubSeq(s, 1, k - 1) \o SubSeq(s, k + 1, Len(s))
  /\ \A s : Mappers!ToSet(s) = ToSet(s)
  /\ \A S : Mappers!Cardinality(S) = Cardinality(S)
  /\ \A s : Mappers!KeysOf(s) = KeysOf(s)
<1>1. \A s, x, t : Mappers!Find(s, x, t) = Find(s, x, t)
  BY Zenon DEF Find, FindExp, FindBin, Mappers!Find, Mappers!FindExp, Mappers!FindBin
<1>2. \A S : Mappers!Cardinality(S) = Cardinality(S)
  BY Zenon DEF Cardinality, Mappers!Cardinality
<1>3. /\ \A s, k, x : Mappers!PutAt(s, k, x) = PutAt(s, k, x)
      /\ \A s, k : Mappers!CutAt(s, k) = CutAt(s, k)
      /\ \A s, k : Mappers!RemoveAt(s, k) = SubSeq(s, 1, k - 1) \o SubSeq(s, k + 1, Len(s))
  BY Zenon DEF PutAt, CutAt, Mappers!PutAt, Mappers!CutAt, Mappers!RemoveAt
<1>4. /\ \A s : Mappers!ToSet(s) = ToSet(s)
      /\ \A s : Mappers!KeysOf(s) = KeysOf(s)
  BY Zenon DEF ToSet, KeysOf, Mappers!ToSet, Mappers!KeysOf
<1> QED
  BY <1>1, <1>2, <1>3, <1>4, Zenon

LEMMA PairsOf ==
  ASSUME NEW ps, NEW m, Holds(ps, m)
  PROVE  /\ ps \in Seq(Pairs) /\ Len(ps) \in Nat /\ DOMAIN ps = 1..Len(ps)
         /\ \A i \in 1..Len(ps) : /\ ps[i] \in Pairs /\ ps[i] = <<ps[i][1], ps[i][2]>>
                                  /\ ps[i][1] \in Names /\ ps[i][2] \in Values
                                  /\ ps[i][1] \in DOMAIN m
         /\ DOMAIN m \subseteq Names
<1>1. ps \in Seq(Pairs) /\ Len(ps) \in Nat /\ DOMAIN ps = 1..Len(ps)
  BY DEF Holds
<1>2. \A i \in 1..Len(ps) : ps[i] \in Pairs
  BY <1>1
<1>3. \A i \in 1..Len(ps) : /\ ps[i] = <<ps[i][1], ps[i][2]>>
                            /\ ps[i][1] \in Names /\ ps[i][2] \in Values
  BY <1>2 DEF Pairs
<1> QED
  BY <1>1, <1>2, <1>3 DEF Holds

\* A key is where PlaceOf says, if it is there.
LEMMA PlaceHolds ==
  ASSUME NEW ps, NEW m, Holds(ps, m), NEW k
  PROVE  /\ Mappers!Has(ps, k) <=> k \in DOMAIN m
         /\ Mappers!Has(ps, k) \in BOOLEAN
         /\ k \in DOMAIN m => /\ Mappers!PlaceOf(ps, k) \in 1..Len(ps)
                              /\ ps[Mappers!PlaceOf(ps, k)][1] = k
                              /\ ps[Mappers!PlaceOf(ps, k)][2] = m[k]
<1>1. /\ DOMAIN ps = 1..Len(ps) /\ DOMAIN m = {ps[i][1] : i \in 1..Len(ps)}
      /\ \A i \in 1..Len(ps) : m[ps[i][1]] = ps[i][2]
  BY PairsOf DEF Holds
<1>2. Mappers!Has(ps, k) <=> \E i \in 1..Len(ps) : ps[i][1] = k
  BY <1>1, OneMapper DEF Mappers!Has, KeysOf, ToSet
<1>3. Mappers!Has(ps, k) <=> k \in DOMAIN m
  BY <1>1, <1>2
<1>4. ASSUME k \in DOMAIN m
      PROVE  /\ Mappers!PlaceOf(ps, k) \in 1..Len(ps)
             /\ ps[Mappers!PlaceOf(ps, k)][1] = k
  <2>1. \E i \in DOMAIN ps : ps[i][1] = k
    BY <1>1, <1>4
  <2>2. Mappers!PlaceOf(ps, k) = CHOOSE i \in DOMAIN ps : ps[i][1] = k
    BY Zenon DEF Mappers!PlaceOf
  <2> QED
    BY <2>1, <2>2, <1>1, Zenon
<1> QED
  BY <1>1, <1>3, <1>4 DEF Mappers!Has

\* There are as many pairs as keys.
LEMMA PairsCount ==
  ASSUME NEW ps, NEW m, Holds(ps, m)
  PROVE  IsFiniteSet(DOMAIN m) /\ Cardinality(DOMAIN m) = Len(ps)
<1> DEFINE f == [i \in 1..Len(ps) |-> ps[i][1]]
           n == Len(ps)
<1>1. n \in Nat /\ DOMAIN m = {ps[i][1] : i \in 1..n}
  BY PairsOf DEF Holds
<1>2. \A i, j \in 1..n : ps[i][1] = ps[j][1] => i = j
  BY DEF Holds
<1> HIDE DEF n
<1>3. f \in Bijection(1..n, DOMAIN m)
  BY <1>1, <1>2 DEF Bijection, Injection, Surjection, IsInjective, n
<1>4. ExistsBijection(1..n, DOMAIN m)
  BY <1>3 DEF ExistsBijection
<1> QED
  BY <1>1, <1>4, FS_CountingElements, FS_NatBijection DEF n

\* A pair is set in its place, or at the end.
LEMMA ChainedHolds ==
  ASSUME NEW ps, NEW m, Holds(ps, m), NEW k \in Names, NEW v \in Values
  PROVE  Holds(Mappers!Chained(ps, k, v), With(m, k, v))
<1> DEFINE n == Len(ps)
           p == Mappers!PlaceOf(ps, k)
           t == Mappers!Chained(ps, k, v)
           w == With(m, k, v)
<1>1. /\ ps \in Seq(Pairs) /\ n \in Nat /\ DOMAIN ps = 1..n
      /\ \A i \in 1..n : ps[i] \in Pairs /\ ps[i][1] \in DOMAIN m
      /\ \A i, j \in 1..n : ps[i][1] = ps[j][1] => i = j
      /\ DOMAIN m = {ps[i][1] : i \in 1..n}
      /\ \A i \in 1..n : m[ps[i][1]] = ps[i][2]
  BY PairsOf DEF Holds
<1>2. <<k, v>> \in Pairs
  BY DEF Pairs
<1>3. t = IF k \in DOMAIN m THEN [ps EXCEPT ![p] = <<k, v>>] ELSE Append(ps, <<k, v>>)
  BY PlaceHolds DEF Mappers!Chained
<1>4. k \in DOMAIN m => p \in 1..n /\ ps[p][1] = k
  BY PlaceHolds
<1>5. DOMAIN w = DOMAIN m \cup {k} /\ \A x \in DOMAIN w : w[x] = IF x = k THEN v ELSE m[x]
  BY DEF With
<1> HIDE DEF n, p, t, w
<1>6. CASE k \in DOMAIN m
  <2>1. /\ t \in Seq(Pairs) /\ Len(t) = n
        /\ \A i \in 1..n : t[i] = IF i = p THEN <<k, v>> ELSE ps[i]
    <3>1. t \in [1..n -> Pairs] /\ \A i \in 1..n : t[i] = IF i = p THEN <<k, v>> ELSE ps[i]
      BY <1>1, <1>2, <1>3, <1>4, <1>6
    <3> QED
      BY <3>1, <1>1
  <2>2. \A i \in 1..n : t[i][1] = ps[i][1]
    BY <2>1, <1>4, <1>6
  <2>3. \A i, j \in 1..n : t[i][1] = t[j][1] => i = j
    BY <2>2, <1>1
  <2>4. DOMAIN w = {t[i][1] : i \in 1..n}
    <3>1. DOMAIN w = {ps[i][1] : i \in 1..n}
      BY <1>1, <1>5, <1>6
    <3> QED
      BY <3>1, <2>2, Zenon
  <2>5. ASSUME NEW i \in 1..n PROVE w[t[i][1]] = t[i][2]
    <3>1. CASE i = p
      BY <3>1, <2>1, <1>5
    <3>2. CASE i # p
      <4>1. ps[i][1] # k /\ t[i] = ps[i]
        BY <3>2, <2>1, <1>1, <1>4, <1>6
      <4> QED
        BY <4>1, <1>1, <1>5
    <3> QED
      BY <3>1, <3>2
  <2> QED
    BY <2>1, <2>3, <2>4, <2>5 DEF Holds, t, w
<1>7. CASE k \notin DOMAIN m
  <2>1. /\ t \in Seq(Pairs) /\ Len(t) = n + 1
        /\ \A i \in 1..n : t[i] = ps[i]
        /\ t[n + 1] = <<k, v>>
    <3>1. t = Append(ps, <<k, v>>)
      BY <1>3, <1>7
    <3> QED
      BY <3>1, <1>1, <1>2 DEF n
  <2>2. \A i \in 1..n : t[i][1] # k
    BY <2>1, <1>1, <1>7
  <2>3. t[n + 1][1] = k /\ t[n + 1][2] = v
    BY <2>1
  <2>4. \A i \in 1..n+1 : i \in 1..n \/ i = n + 1
    BY <1>1
  <2>5. \A i, j \in 1..n+1 : t[i][1] = t[j][1] => i = j
    BY <2>1, <2>2, <2>3, <2>4, <1>1
  <2>6. DOMAIN w = {t[i][1] : i \in 1..n+1}
    <3>1. \A i \in 1..n : i \in 1..n+1
      BY <1>1
    <3>2. n + 1 \in 1..n+1
      BY <1>1
    <3>3. \A i \in 1..n+1 : t[i][1] \in DOMAIN w
      BY <2>1, <2>3, <2>4, <1>1, <1>5
    <3>4. \A x \in DOMAIN w : \E i \in 1..n+1 : x = t[i][1]
      BY <2>1, <2>3, <3>1, <3>2, <1>1, <1>5
    <3> QED
      BY <3>3, <3>4
  <2>7. ASSUME NEW i \in 1..n+1 PROVE w[t[i][1]] = t[i][2]
    <3>1. CASE i \in 1..n
      <4>1. t[i] = ps[i] /\ ps[i][1] # k /\ ps[i][1] \in DOMAIN w
        BY <3>1, <2>1, <2>2, <1>1, <1>5
      <4> QED
        BY <4>1, <3>1, <1>1, <1>5
    <3>2. CASE i = n + 1
      BY <3>2, <2>3, <1>5
    <3> QED
      BY <3>1, <3>2, <2>4
  <2> QED
    BY <2>1, <2>5, <2>6, <2>7 DEF Holds, t, w
<1> QED
  BY <1>6, <1>7

\* What is left without one pair, in any order.
LEMMA OthersHold ==
  ASSUME NEW ps, NEW m, Holds(ps, m), NEW p \in 1..Len(ps),
         NEW t \in Seq(Pairs), Len(t) = Len(ps) - 1,
         NEW q \in [1..Len(ps)-1 -> 1..Len(ps)],
         \A i, j \in 1..Len(ps)-1 : q[i] = q[j] => i = j,
         \A i \in 1..Len(ps)-1 : q[i] # p /\ t[i] = ps[q[i]],
         \A j \in 1..Len(ps) : j # p => \E i \in 1..Len(ps)-1 : q[i] = j
  PROVE  Holds(t, Without(m, ps[p][1]))
<1> DEFINE n == Len(ps)
           w == Without(m, ps[p][1])
<1>1. /\ \A i, j \in 1..n : ps[i][1] = ps[j][1] => i = j
      /\ DOMAIN m = {ps[i][1] : i \in 1..n}
      /\ \A i \in 1..n : m[ps[i][1]] = ps[i][2]
  BY DEF Holds
<1>2. DOMAIN w = DOMAIN m \ {ps[p][1]} /\ \A x \in DOMAIN w : w[x] = m[x]
  BY DEF Without
<1>3. \A i \in 1..n-1 : q[i] \in 1..n
  OBVIOUS
<1> HIDE DEF n, w
<1>4. /\ \A i, j \in 1..n-1 : q[i] = q[j] => i = j
      /\ \A i \in 1..n-1 : q[i] # p /\ t[i] = ps[q[i]]
      /\ \A j \in 1..n : j # p => \E i \in 1..n-1 : q[i] = j
      /\ Len(t) = n - 1 /\ p \in 1..n
  BY DEF n
<1>5. ASSUME NEW i \in 1..n-1, NEW j \in 1..n-1, t[i][1] = t[j][1] PROVE i = j
  <2>1. t[i] = ps[q[i]] /\ t[j] = ps[q[j]] /\ q[i] \in 1..n /\ q[j] \in 1..n
    BY <1>3, <1>4
  <2>2. q[i] = q[j]
    BY <2>1, <1>1, <1>5
  <2> QED
    BY <2>2, <1>4
<1>6. ASSUME NEW i \in 1..n-1 PROVE t[i][1] \in DOMAIN w /\ w[t[i][1]] = t[i][2]
  <2>1. t[i] = ps[q[i]] /\ q[i] \in 1..n /\ q[i] # p
    BY <1>3, <1>4
  <2>2. ps[q[i]][1] # ps[p][1] /\ ps[q[i]][1] \in DOMAIN m
    BY <2>1, <1>1, <1>4
  <2>3. m[ps[q[i]][1]] = ps[q[i]][2]
    BY <2>1, <1>1
  <2> QED
    BY <2>1, <2>2, <2>3, <1>2
<1>7. ASSUME NEW x \in DOMAIN w PROVE \E i \in 1..n-1 : x = t[i][1]
  <2>1. PICK j \in 1..n : x = ps[j][1]
    BY <1>1, <1>2
  <2>2. j # p
    BY <2>1, <1>2
  <2> QED
    BY <2>1, <2>2, <1>4
<1>8. DOMAIN w = {t[i][1] : i \in 1..n-1}
  <2> DEFINE K == {t[i][1] : i \in 1..n-1}
  <2>1. \A x \in DOMAIN w : x \in K
    BY <1>7
  <2>2. \A x \in K : x \in DOMAIN w
    BY <1>6
  <2> HIDE DEF K
  <2>3. DOMAIN w = K
    BY <2>1, <2>2
  <2> QED
    BY <2>3 DEF K
<1> QED
  BY <1>4, <1>5, <1>6, <1>8 DEF Holds, w

\* hamap unlinks a pair of a list, linear puts the last one in its place.
LEMMA RemovedHolds ==
  ASSUME NEW ps, NEW m, Holds(ps, m), NEW k \in DOMAIN m
  PROVE  LET p == Mappers!PlaceOf(ps, k)
             r == Mappers!RemoveAt(ps, p)
             l == Mappers!Front([ps EXCEPT ![p] = Mappers!Last(ps)])
         IN /\ Holds(r, Without(m, k)) /\ Len(r) = Len(ps) - 1
            /\ Holds(l, Without(m, k))
<1> DEFINE p == Mappers!PlaceOf(ps, k)
           r == Mappers!RemoveAt(ps, p)
           l == Mappers!Front([ps EXCEPT ![p] = Mappers!Last(ps)])
           n == Len(ps)
<1>1. ps \in Seq(Pairs) /\ n \in Nat /\ \A i \in 1..n : ps[i] \in Pairs
  BY PairsOf
<1>2. p \in 1..n /\ ps[p][1] = k
  BY PlaceHolds
<1>3. r = CutAt(ps, p - 1)
  <2>1. r = SubSeq(ps, 1, p - 1) \o SubSeq(ps, p + 1, n)
    BY OneMapper
  <2>2. CutAt(ps, p - 1) = SubSeq(ps, 1, p - 1) \o SubSeq(ps, (p - 1) + 2, n)
    BY DEF CutAt
  <2> HIDE DEF p, r, n
  <2>3. (p - 1) + 2 = p + 1
    BY <1>2, <1>1
  <2> QED
    BY <2>1, <2>2, <2>3
<1>4. l = SubSeq([ps EXCEPT ![p] = ps[n]], 1, Len([ps EXCEPT ![p] = ps[n]]) - 1)
  BY Zenon DEF Mappers!Front, Mappers!Last
<1> HIDE DEF p, r, l, n
<1>5. Holds(r, Without(m, k)) /\ Len(r) = n - 1
  <2> DEFINE q == [i \in 1..n-1 |-> IF i < p THEN i ELSE i + 1]
  <2>1. p - 1 \in 0..n-1
    BY <1>1, <1>2
  <2>2. r \in Seq(Pairs) /\ IsCut(r, ps, p - 1)
    BY <2>1, <1>1, <1>3, CutAtIs DEF n
  <2>3. /\ Len(r) = n - 1 /\ \A i \in 1..p-1 : r[i] = ps[i]
        /\ \A i \in (p-1)+1..n-1 : r[i] = ps[i + 1]
    BY <2>2 DEF IsCut, n
  <2>4. q \in [1..n-1 -> 1..n]
    BY <1>1, <1>2
  <2>5. \A i \in 1..n-1 : q[i] = IF i < p THEN i ELSE i + 1
    OBVIOUS
  <2> HIDE DEF q
  <2>6. \A i, j \in 1..n-1 : q[i] = q[j] => i = j
    BY <2>5, <1>1, <1>2
  <2>7. ASSUME NEW i \in 1..n-1 PROVE q[i] # p /\ r[i] = ps[q[i]]
    <3>1. CASE i < p
      BY <3>1, <2>3, <2>5, <1>1, <1>2
    <3>2. CASE ~(i < p)
      BY <3>2, <2>3, <2>5, <1>1, <1>2
    <3> QED
      BY <3>1, <3>2
  <2>8. ASSUME NEW j \in 1..n, j # p PROVE \E i \in 1..n-1 : q[i] = j
    <3>1. CASE j < p
      <4>1. j \in 1..n-1 /\ q[j] = j
        BY <3>1, <2>5, <1>1, <1>2
      <4> QED
        BY <4>1
    <3>2. CASE j > p
      <4>1. j - 1 \in 1..n-1 /\ q[j - 1] = j
        BY <3>2, <2>5, <1>1, <1>2
      <4> QED
        BY <4>1
    <3> QED
      BY <3>1, <3>2, <2>8, <1>1, <1>2
  <2>9. Holds(r, Without(m, ps[p][1]))
    BY <2>2, <2>3, <2>4, <2>6, <2>7, <2>8, <1>2, OthersHold DEF n
  <2> QED
    BY <2>3, <2>9, <1>2
<1>6. Holds(l, Without(m, k))
  <2> DEFINE u == [ps EXCEPT ![p] = ps[n]]
             q == [i \in 1..n-1 |-> IF i = p THEN n ELSE i]
  <2>1. n \in 1..n
    BY <1>1, <1>2
  <2>2. u \in Seq(Pairs) /\ Len(u) = n /\ \A i \in 1..n : u[i] = IF i = p THEN ps[n] ELSE ps[i]
    <3>1. ps[n] \in Pairs /\ ps \in [1..n -> Pairs]
      BY <2>1, <1>1 DEF n
    <3>2. u \in [1..n -> Pairs] /\ \A i \in 1..n : u[i] = IF i = p THEN ps[n] ELSE ps[i]
      BY <3>1, <1>2
    <3> HIDE DEF u
    <3> QED
      BY <3>2, <1>1
  <2> HIDE DEF u
  <2>3. l = SubSeq(u, 1, n - 1)
    BY <2>2, <1>4 DEF u
  <2>4. l \in Seq(Pairs) /\ Len(l) = n - 1 /\ \A i \in 1..n-1 : l[i] = u[i]
    BY <2>1, <2>2, <2>3, <1>1
  <2>5. q \in [1..n-1 -> 1..n]
    BY <1>1, <2>1
  <2>6. \A i \in 1..n-1 : q[i] = IF i = p THEN n ELSE i
    OBVIOUS
  <2> HIDE DEF q
  <2>7. \A i, j \in 1..n-1 : q[i] = q[j] => i = j
    BY <2>6, <1>1, <1>2
  <2>8. \A i \in 1..n-1 : q[i] # p /\ l[i] = ps[q[i]]
    BY <2>2, <2>4, <2>6, <1>1, <1>2
  <2>9. ASSUME NEW j \in 1..n, j # p PROVE \E i \in 1..n-1 : q[i] = j
    <3>1. CASE j = n
      <4>1. p \in 1..n-1 /\ q[p] = j
        BY <3>1, <2>6, <2>9, <1>1, <1>2
      <4> QED
        BY <4>1
    <3>2. CASE j # n
      <4>1. j \in 1..n-1 /\ q[j] = j
        BY <3>2, <2>6, <2>9, <1>1, <1>2
      <4> QED
        BY <4>1
    <3> QED
      BY <3>1, <3>2
  <2>10. Holds(l, Without(m, ps[p][1]))
    BY <2>4, <2>5, <2>7, <2>8, <2>9, <1>2, OthersHold DEF n
  <2> QED
    BY <2>10, <1>2
<1> QED
  BY <1>5, <1>6 DEF p, r, l, n

-----------------------------------------------------------------------------
(* hamap: the buckets of a function.                                       *)

\* What m has for the keys of hash h.
Part(m, h) == [k \in {x \in DOMAIN m : Hash[x] = h} |-> m[k]]

Buckets(s, m) ==
  /\ s \in Seq(Int \X Seq(Pairs))
  /\ Sorted(KeysOf(s))
  /\ \A i \in 1..Len(s) : s[i][2] # <<>> /\ Holds(s[i][2], Part(m, s[i][1]))
  /\ \A k \in DOMAIN m : \E i \in 1..Len(s) : s[i][1] = Hash[k]

LEMMA BucketsAre ==
  ASSUME NEW s, NEW m, Buckets(s, m)
  PROVE  /\ s \in Seq(Int \X Seq(Pairs)) /\ Len(s) \in Nat /\ DOMAIN s = 1..Len(s)
         /\ KeysOf(s) \in Seq(Int) /\ Len(KeysOf(s)) = Len(s)
         /\ \A i \in 1..Len(s) : /\ s[i] \in Int \X Seq(Pairs)
                                 /\ s[i] = <<s[i][1], s[i][2]>>
                                 /\ s[i][1] \in Int /\ s[i][2] \in Seq(Pairs)
                                 /\ KeysOf(s)[i] = s[i][1]
         /\ \A i, j \in 1..Len(s) : s[i][1] = s[j][1] => i = j
<1>1. s \in Seq(Int \X Seq(Pairs)) /\ Len(s) \in Nat /\ DOMAIN s = 1..Len(s)
  BY DEF Buckets
<1>2. \A i \in 1..Len(s) : s[i] \in Int \X Seq(Pairs)
  BY <1>1
<1>3. \A i \in 1..Len(s) : /\ s[i] = <<s[i][1], s[i][2]>>
                           /\ s[i][1] \in Int /\ s[i][2] \in Seq(Pairs)
  BY <1>2
<1>4. /\ KeysOf(s) \in Seq(Int) /\ Len(KeysOf(s)) = Len(s)
      /\ \A i \in 1..Len(s) : KeysOf(s)[i] = s[i][1]
  <2>1. \A x \in Int \X Seq(Pairs) : x[1] \in Int
    OBVIOUS
  <2> QED
    BY <2>1, <1>1, FirstsIs
<1>5. ASSUME NEW i \in 1..Len(s), NEW j \in 1..Len(s), i < j PROVE s[i][1] # s[j][1]
  <2>1. KeysOf(s)[i] < KeysOf(s)[j]
    BY <1>4, <1>5 DEF Buckets, Sorted
  <2> QED
    BY <2>1, <1>3, <1>4
<1>6. \A i, j \in 1..Len(s) : s[i][1] = s[j][1] => i = j
  BY <1>1, <1>5
<1> QED
  BY <1>1, <1>2, <1>3, <1>4, <1>6

\* The search for a hash tells whether there is a bucket, and which.
LEMMA BucketTells ==
  ASSUME NEW s, NEW m, Buckets(s, m), NEW k \in Names
  PROVE  LET b == Find(KeysOf(s), Hash[k], Threshold)
         IN /\ b.found \in BOOLEAN
            /\ b.found => /\ b.idx \in 0..Len(s)-1 /\ b.idx + 1 \in 1..Len(s)
                          /\ s[b.idx + 1][1] = Hash[k]
            /\ ~b.found => /\ b.idx \in 0..Len(s)
                           /\ \A i \in 1..b.idx : KeysOf(s)[i] < Hash[k]
                           /\ \A i \in b.idx+1..Len(s) : Hash[k] < KeysOf(s)[i]
                           /\ \A i \in 1..Len(s) : s[i][1] # Hash[k]
                           /\ DOMAIN Part(m, Hash[k]) = {}
<1> DEFINE b == Find(KeysOf(s), Hash[k], Threshold)
<1>1. Hash[k] \in Int
  BY HashAssumption
<1>2. IsPlace(KeysOf(s), Hash[k], b)
  BY <1>1, FindFinds DEF Buckets
<1>3. /\ Len(KeysOf(s)) = Len(s) /\ Len(s) \in Nat
      /\ \A i \in 1..Len(s) : KeysOf(s)[i] = s[i][1] /\ s[i][1] \in Int
  BY BucketsAre
<1> HIDE DEF b
<1>4. /\ b.found \in BOOLEAN
      /\ b.found => b.idx \in 0..Len(s)-1 /\ KeysOf(s)[b.idx + 1] = Hash[k]
      /\ ~b.found => /\ b.idx \in 0..Len(s)
                     /\ \A i \in 1..b.idx : KeysOf(s)[i] < Hash[k]
                     /\ \A i \in b.idx+1..Len(s) : Hash[k] < KeysOf(s)[i]
  BY <1>1, <1>2, <1>3, PlaceTells DEF Buckets
<1>5. ASSUME b.found PROVE b.idx + 1 \in 1..Len(s) /\ s[b.idx + 1][1] = Hash[k]
  BY <1>3, <1>4, <1>5
<1>6. ASSUME ~b.found
      PROVE  (\A i \in 1..Len(s) : s[i][1] # Hash[k]) /\ DOMAIN Part(m, Hash[k]) = {}
  <2>1. ASSUME NEW i \in 1..Len(s) PROVE s[i][1] # Hash[k]
    <3>1. i \in 1..b.idx \/ i \in b.idx+1..Len(s)
      BY <1>3, <1>4, <1>6
    <3> QED
      BY <3>1, <1>1, <1>3, <1>4, <1>6
  <2>2. \A x \in DOMAIN m : Hash[x] # Hash[k]
    BY <2>1 DEF Buckets
  <2> QED
    BY <2>1, <2>2 DEF Part
<1> QED
  BY <1>4, <1>5, <1>6 DEF b

\* The bucket of a hash gets other pairs.
LEMMA BucketChanges ==
  ASSUME NEW s, NEW m, Buckets(s, m), NEW n, NEW i \in 1..Len(s), NEW ps, ps # <<>>,
         Holds(ps, Part(n, s[i][1])),
         \A g : g # s[i][1] => Part(n, g) = Part(m, g)
  PROVE  Buckets([s EXCEPT ![i][2] = ps], n)
<1> DEFINE t == [s EXCEPT ![i][2] = ps]
           E == Int \X Seq(Pairs)
           p == <<s[i][1], ps>>
<1>1. /\ t \in Seq(E) /\ Len(t) = Len(s)
      /\ \A j \in 1..Len(s) : t[j] = IF j = i THEN p ELSE s[j]
  <2>1. s \in Seq(E) /\ Len(s) \in Nat /\ DOMAIN s = 1..Len(s) /\ s[i] \in E
    BY DEF Buckets
  <2>2. [s[i] EXCEPT ![2] = ps] = p
    <3>1. s[i] = <<s[i][1], s[i][2]>>
      BY <2>1
    <3>2. \A x, y : [<<x, y>> EXCEPT ![2] = ps] = <<x, ps>>
      OBVIOUS
    <3> QED
      BY <3>1, <3>2
  <2>3. p \in E
    BY <2>1 DEF Holds
  <2>4. t = [s EXCEPT ![i] = p]
    BY <2>2
  <2> HIDE DEF p, t, E
  <2>5. t \in Seq(E) /\ Len(t) = Len(s)
    BY <2>1, <2>3, <2>4, ExceptSeq
  <2>6. \A j \in 1..Len(s) : t[j] = IF j = i THEN p ELSE s[j]
    BY <2>1, <2>4
  <2> QED
    BY <2>5, <2>6
<1> HIDE DEF t
<1>2. /\ Len(s) \in Nat /\ KeysOf(s) \in Seq(Int) /\ Len(KeysOf(s)) = Len(s)
      /\ \A j \in 1..Len(s) : KeysOf(s)[j] = s[j][1]
      /\ \A j, l \in 1..Len(s) : s[j][1] = s[l][1] => j = l
  BY BucketsAre
<1>3. /\ KeysOf(t) \in Seq(Int) /\ Len(KeysOf(t)) = Len(s)
      /\ \A j \in 1..Len(s) : KeysOf(t)[j] = t[j][1]
  <2>1. \A x \in Int \X Seq(Pairs) : x[1] \in Int
    OBVIOUS
  <2> QED
    BY <2>1, <1>1, FirstsIs
<1>4. ASSUME NEW j \in 1..Len(s) PROVE t[j][1] = s[j][1]
  <2>1. CASE j = i
    BY <2>1, <1>1
  <2>2. CASE j # i
    <3>1. t[j] = s[j]
      BY <2>2, <1>1
    <3> QED
      BY <3>1
  <2> QED
    BY <2>1, <2>2
<1>5. KeysOf(t) = KeysOf(s)
  BY <1>2, <1>3, <1>4, SeqEqual
<1>6. ASSUME NEW j \in 1..Len(s) PROVE t[j][2] # <<>> /\ Holds(t[j][2], Part(n, t[j][1]))
  <2>1. CASE j = i
    BY <2>1, <1>1
  <2>2. CASE j # i
    <3>1. t[j] = s[j] /\ s[j][1] # s[i][1]
      BY <2>2, <1>2, <1>1
    <3>2. Part(n, s[j][1]) = Part(m, s[j][1])
      BY <3>1
    <3> QED
      BY <3>1, <3>2 DEF Buckets
  <2> QED
    BY <2>1, <2>2
<1>7. ASSUME NEW k \in DOMAIN n PROVE \E j \in 1..Len(s) : t[j][1] = Hash[k]
  <2>1. CASE Hash[k] = s[i][1]
    BY <2>1, <1>4
  <2>2. CASE Hash[k] # s[i][1]
    <3>1. k \in DOMAIN Part(n, Hash[k])
      BY DEF Part
    <3>2. Part(n, Hash[k]) = Part(m, Hash[k])
      BY <2>2
    <3>3. k \in DOMAIN m
      BY <3>1, <3>2 DEF Part
    <3>4. PICK j \in 1..Len(s) : s[j][1] = Hash[k]
      BY <3>3 DEF Buckets
    <3> QED
      BY <3>4, <1>4
  <2> QED
    BY <2>1, <2>2
<1> QED
  BY <1>5, <1>6, <1>7, <1>1 DEF Buckets, t

\* A hash gets its first bucket.
LEMMA BucketArrives ==
  ASSUME NEW s, NEW m, Buckets(s, m), NEW n, NEW h \in Int, NEW i \in 0..Len(s),
         \A j \in 1..i : KeysOf(s)[j] < h, \A j \in i+1..Len(s) : h < KeysOf(s)[j],
         NEW ps, ps # <<>>, Holds(ps, Part(n, h)),
         \A g : g # h => Part(n, g) = Part(m, g)
  PROVE  Buckets(PutAt(s, i, <<h, ps>>), n)
<1> DEFINE t == PutAt(s, i, <<h, ps>>)
           u == KeysOf(s)
<1>1. /\ s \in Seq(Int \X Seq(Pairs)) /\ Len(s) \in Nat /\ u \in Seq(Int) /\ Len(u) = Len(s)
      /\ \A j \in 1..Len(s) : u[j] = s[j][1] /\ s[j][1] \in Int
  BY BucketsAre
<1>2. <<h, ps>> \in Int \X Seq(Pairs) /\ <<h, ps>>[1] = h
  BY DEF Holds
<1>3. t \in Seq(Int \X Seq(Pairs)) /\ IsPut(t, s, i, <<h, ps>>) /\ KeysOf(t) = PutAt(u, i, h)
  <2>1. \A x \in Int \X Seq(Pairs) : x[1] \in Int
    OBVIOUS
  <2> HIDE DEF t, u
  <2> QED
    BY <2>1, <1>1, <1>2, FirstsPut DEF t, u
<1> HIDE DEF t, u
<1>4. Sorted(KeysOf(t))
  <2>1. Sorted(u) /\ i \in 0..Len(u)
    BY <1>1 DEF u, Buckets
  <2>2. (\A j \in 1..i : u[j] < h) /\ \A j \in i+1..Len(u) : h < u[j]
    BY <1>1 DEF u
  <2> QED
    BY <2>1, <2>2, <1>3, PutSorted
<1>5. /\ Len(t) = Len(s) + 1 /\ t[i + 1] = <<h, ps>>
      /\ \A j \in 1..i : t[j] = s[j]
      /\ \A j \in i+2..Len(s)+1 : t[j] = s[j - 1]
  BY <1>3 DEF IsPut
<1>6. ASSUME NEW j \in 1..Len(s) PROVE s[j][1] # h
  <2>1. j \in 1..i \/ j \in i+1..Len(s)
    BY <1>1
  <2>2. u[j] < h \/ h < u[j]
    BY <2>1 DEF u
  <2>3. u[j] = s[j][1] /\ s[j][1] \in Int
    BY <1>1
  <2> QED
    BY <2>2, <2>3
<1>7. ASSUME NEW j \in 1..Len(s)
      PROVE  s[j][2] # <<>> /\ Holds(s[j][2], Part(n, s[j][1]))
  BY <1>6 DEF Buckets
<1>8. ASSUME NEW j \in 1..Len(t) PROVE t[j][2] # <<>> /\ Holds(t[j][2], Part(n, t[j][1]))
  <2>1. CASE j = i + 1
    BY <2>1, <1>5
  <2>2. CASE j <= i
    <3>1. t[j] = s[j] /\ j \in 1..Len(s)
      BY <2>2, <1>1, <1>5
    <3> QED
      BY <3>1, <1>7
  <2>3. CASE j > i + 1
    <3>1. t[j] = s[j - 1] /\ j - 1 \in 1..Len(s)
      BY <2>3, <1>1, <1>5
    <3> QED
      BY <3>1, <1>7
  <2> QED
    BY <2>1, <2>2, <2>3, <1>1, <1>5
<1>9. ASSUME NEW k \in DOMAIN n PROVE \E j \in 1..Len(t) : t[j][1] = Hash[k]
  <2>1. CASE Hash[k] = h
    <3>1. i + 1 \in 1..Len(t) /\ t[i + 1][1] = h
      BY <1>1, <1>5
    <3> QED
      BY <3>1, <2>1
  <2>2. CASE Hash[k] # h
    <3>1. k \in DOMAIN Part(n, Hash[k])
      BY DEF Part
    <3>2. Part(n, Hash[k]) = Part(m, Hash[k])
      BY <2>2
    <3>3. k \in DOMAIN m
      BY <3>1, <3>2 DEF Part
    <3>4. PICK j \in 1..Len(s) : s[j][1] = Hash[k]
      BY <3>3 DEF Buckets
    <3>5. CASE j <= i
      <4>1. j \in 1..Len(t) /\ t[j] = s[j]
        BY <3>5, <1>1, <1>5
      <4> QED
        BY <4>1, <3>4
    <3>6. CASE j > i
      <4>1. j + 1 \in 1..Len(t) /\ j + 1 \in i+2..Len(s)+1 /\ (j + 1) - 1 = j
        BY <3>6, <1>1, <1>5
      <4>2. t[j + 1] = s[j]
        BY <4>1, <1>5
      <4> QED
        BY <4>1, <4>2, <3>4
    <3> QED
      BY <3>5, <3>6, <1>1
  <2> QED
    BY <2>1, <2>2
<1> QED
  BY <1>3, <1>4, <1>8, <1>9 DEF Buckets, t

\* A hash loses its bucket.
LEMMA BucketGoes ==
  ASSUME NEW s, NEW m, Buckets(s, m), NEW n, NEW i \in 0..Len(s)-1,
         DOMAIN Part(n, s[i + 1][1]) = {},
         \A g : g # s[i + 1][1] => Part(n, g) = Part(m, g)
  PROVE  Buckets(CutAt(s, i), n)
<1> DEFINE t == CutAt(s, i)
           u == KeysOf(s)
           h == s[i + 1][1]
<1>1. /\ s \in Seq(Int \X Seq(Pairs)) /\ Len(s) \in Nat /\ i + 1 \in 1..Len(s)
      /\ Len(u) = Len(s)
      /\ \A j, l \in 1..Len(s) : s[j][1] = s[l][1] => j = l
  BY BucketsAre
<1>2. t \in Seq(Int \X Seq(Pairs)) /\ IsCut(t, s, i) /\ KeysOf(t) = CutAt(u, i)
  <2>1. \A x \in Int \X Seq(Pairs) : x[1] \in Int
    OBVIOUS
  <2> HIDE DEF t, u
  <2> QED
    BY <2>1, <1>1, FirstsCut DEF t, u
<1> HIDE DEF t, u
<1>3. Sorted(KeysOf(t))
  <2>1. Sorted(u) /\ i \in 0..Len(u)-1
    BY <1>1 DEF u, Buckets
  <2> QED
    BY <2>1, <1>2, CutSorted
<1>4. /\ Len(t) = Len(s) - 1
      /\ \A j \in 1..i : t[j] = s[j]
      /\ \A j \in i+1..Len(s)-1 : t[j] = s[j + 1]
  BY <1>2 DEF IsCut
<1>5. ASSUME NEW j \in 1..Len(s), j # i + 1
      PROVE  s[j][2] # <<>> /\ Holds(s[j][2], Part(n, s[j][1]))
  <2>1. s[j][1] # s[i + 1][1]
    BY <1>1, <1>5
  <2> QED
    BY <2>1 DEF Buckets
<1>6. ASSUME NEW j \in 1..Len(t) PROVE t[j][2] # <<>> /\ Holds(t[j][2], Part(n, t[j][1]))
  <2>1. CASE j <= i
    <3>1. t[j] = s[j] /\ j \in 1..Len(s) /\ j # i + 1
      BY <2>1, <1>1, <1>4
    <3> QED
      BY <3>1, <1>5
  <2>2. CASE j > i
    <3>1. t[j] = s[j + 1] /\ j + 1 \in 1..Len(s) /\ j + 1 # i + 1
      BY <2>2, <1>1, <1>4
    <3> QED
      BY <3>1, <1>5
  <2> QED
    BY <2>1, <2>2, <1>1, <1>4
<1>7. ASSUME NEW k \in DOMAIN n PROVE \E j \in 1..Len(t) : t[j][1] = Hash[k]
  <2>1. k \in DOMAIN Part(n, Hash[k])
    BY DEF Part
  <2>2. Hash[k] # s[i + 1][1]
    BY <2>1
  <2>3. Part(n, Hash[k]) = Part(m, Hash[k])
    BY <2>2
  <2>4. k \in DOMAIN m
    BY <2>1, <2>3 DEF Part
  <2>5. PICK j \in 1..Len(s) : s[j][1] = Hash[k]
    BY <2>4 DEF Buckets
  <2>6. j # i + 1
    BY <2>2, <2>5
  <2>7. CASE j <= i
    <3>1. j \in 1..i /\ j \in 1..Len(t)
      BY <2>7, <1>1, <1>4
    <3>2. t[j] = s[j]
      BY <3>1, <1>4
    <3> QED
      BY <3>1, <3>2, <2>5
  <2>8. CASE j > i
    <3>1. j - 1 \in 1..Len(t) /\ j - 1 \in i+1..Len(s)-1 /\ (j - 1) + 1 = j
      BY <2>6, <2>8, <1>1, <1>4
    <3>2. t[j - 1] = s[j]
      BY <3>1, <1>4
    <3> QED
      BY <3>1, <3>2, <2>5
  <2> QED
    BY <2>7, <2>8, <1>1
<1> QED
  BY <1>2, <1>3, <1>6, <1>7 DEF Buckets, t

\* A key changes only what is left for its own hash.
LEMMA PartsWith ==
  ASSUME NEW m, NEW k, NEW v
  PROVE  /\ Part(With(m, k, v), Hash[k]) = With(Part(m, Hash[k]), k, v)
         /\ \A g : g # Hash[k] => Part(With(m, k, v), g) = Part(m, g)
<1> DEFINE w == With(m, k, v)
<1>1. DOMAIN w = DOMAIN m \cup {k} /\ \A x \in DOMAIN w : w[x] = IF x = k THEN v ELSE m[x]
  BY DEF With
<1> HIDE DEF w
<1>2. Part(w, Hash[k]) = With(Part(m, Hash[k]), k, v)
  <2> DEFINE o == Part(m, Hash[k])
  <2>1. DOMAIN o = {x \in DOMAIN m : Hash[x] = Hash[k]} /\ \A x \in DOMAIN o : o[x] = m[x]
    BY DEF Part
  <2> HIDE DEF o
  <2>2. {x \in DOMAIN w : Hash[x] = Hash[k]} = DOMAIN o \cup {k}
    BY <2>1, <1>1
  <2>3. \A x \in DOMAIN o \cup {k} : w[x] = IF x = k THEN v ELSE o[x]
    BY <2>1, <1>1
  <2>4. Part(w, Hash[k]) = [x \in DOMAIN o \cup {k} |-> w[x]]
    BY <2>2 DEF Part
  <2>5. With(o, k, v) = [x \in DOMAIN o \cup {k} |-> IF x = k THEN v ELSE o[x]]
    BY DEF With
  <2>6. Part(w, Hash[k]) = With(o, k, v)
    BY <2>3, <2>4, <2>5
  <2> QED
    BY <2>6 DEF o
<1>3. ASSUME NEW g, g # Hash[k] PROVE Part(w, g) = Part(m, g)
  <2>1. {x \in DOMAIN w : Hash[x] = g} = {x \in DOMAIN m : Hash[x] = g}
    BY <1>1, <1>3
  <2>2. \A x \in {x \in DOMAIN m : Hash[x] = g} : w[x] = m[x]
    BY <1>1, <1>3
  <2> QED
    BY <2>1, <2>2 DEF Part
<1> QED
  BY <1>2, <1>3 DEF w

LEMMA PartsWithout ==
  ASSUME NEW m, NEW k
  PROVE  /\ Part(Without(m, k), Hash[k]) = Without(Part(m, Hash[k]), k)
         /\ \A g : g # Hash[k] => Part(Without(m, k), g) = Part(m, g)
<1> DEFINE w == Without(m, k)
<1>1. DOMAIN w = DOMAIN m \ {k} /\ \A x \in DOMAIN w : w[x] = m[x]
  BY DEF Without
<1> HIDE DEF w
<1>2. Part(w, Hash[k]) = Without(Part(m, Hash[k]), k)
  <2> DEFINE o == Part(m, Hash[k])
  <2>1. DOMAIN o = {x \in DOMAIN m : Hash[x] = Hash[k]} /\ \A x \in DOMAIN o : o[x] = m[x]
    BY DEF Part
  <2> HIDE DEF o
  <2>2. {x \in DOMAIN w : Hash[x] = Hash[k]} = DOMAIN o \ {k}
    BY <2>1, <1>1
  <2>3. \A x \in DOMAIN o \ {k} : w[x] = o[x]
    BY <2>1, <1>1
  <2>4. Part(w, Hash[k]) = [x \in DOMAIN o \ {k} |-> w[x]]
    BY <2>2 DEF Part
  <2>5. Without(o, k) = [x \in DOMAIN o \ {k} |-> o[x]]
    BY DEF Without
  <2>6. Part(w, Hash[k]) = Without(o, k)
    BY <2>3, <2>4, <2>5
  <2> QED
    BY <2>6 DEF o
<1>3. ASSUME NEW g, g # Hash[k] PROVE Part(w, g) = Part(m, g)
  <2>1. {x \in DOMAIN w : Hash[x] = g} = {x \in DOMAIN m : Hash[x] = g}
    BY <1>1, <1>3
  <2>2. \A x \in {x \in DOMAIN m : Hash[x] = g} : w[x] = m[x]
    BY <1>1, <1>3
  <2> QED
    BY <2>1, <2>2 DEF Part
<1> QED
  BY <1>2, <1>3 DEF w

\* The bucket of a key has it, if the function has.
LEMMA BucketHas ==
  ASSUME NEW s, NEW m, Buckets(s, m), NEW k, NEW i \in 1..Len(s), s[i][1] = Hash[k]
  PROVE  /\ Holds(s[i][2], Part(m, Hash[k])) /\ s[i][2] # <<>>
         /\ k \in DOMAIN Part(m, Hash[k]) <=> k \in DOMAIN m
         /\ k \in DOMAIN m => Part(m, Hash[k])[k] = m[k]
BY DEF Buckets, Part

\* Set: the bucket of the key gets the pair, or there is a new bucket.
LEMMA SetBuckets ==
  ASSUME NEW s, NEW m, Buckets(s, m), NEW k \in Names, NEW v \in Values
  PROVE  LET b == Find(KeysOf(s), Hash[k], Threshold)
         IN Buckets(IF b.found
                    THEN [s EXCEPT ![b.idx + 1][2] = Mappers!Chained(s[b.idx + 1][2], k, v)]
                    ELSE PutAt(s, b.idx, <<Hash[k], <<<<k, v>>>>>>), With(m, k, v))
<1> DEFINE b == Find(KeysOf(s), Hash[k], Threshold)
           n == With(m, k, v)
           h == Hash[k]
<1>1. /\ b.found \in BOOLEAN
      /\ b.found => b.idx + 1 \in 1..Len(s) /\ s[b.idx + 1][1] = h
      /\ ~b.found => /\ b.idx \in 0..Len(s)
                     /\ \A i \in 1..b.idx : KeysOf(s)[i] < h
                     /\ \A i \in b.idx+1..Len(s) : h < KeysOf(s)[i]
                     /\ DOMAIN Part(m, h) = {}
  BY BucketTells
<1>2. Part(n, h) = With(Part(m, h), k, v) /\ \A g : g # h => Part(n, g) = Part(m, g)
  BY PartsWith
<1>3. h \in Int
  BY HashAssumption
<1> HIDE DEF b, n, h
<1>4. CASE b.found
  <2> DEFINE i == b.idx + 1
             ps == Mappers!Chained(s[i][2], k, v)
  <2>1. i \in 1..Len(s) /\ s[i][1] = h
    BY <1>1, <1>4
  <2> HIDE DEF i
  <2>2. Holds(s[i][2], Part(m, h))
    BY <2>1, BucketHas DEF h
  <2>3. Holds(ps, Part(n, h))
    BY <2>2, <1>2, ChainedHolds
  <2> HIDE DEF ps
  <2>4. k \in DOMAIN Part(n, h)
    BY <1>2 DEF With
  <2>5. ps # <<>>
    <3>1. \E j \in 1..Len(ps) : ps[j][1] = k
      BY <2>3, <2>4 DEF Holds
    <3> QED
      BY <3>1
  <2>6. Holds(ps, Part(n, s[i][1])) /\ \A g : g # s[i][1] => Part(n, g) = Part(m, g)
    BY <2>1, <2>3, <1>2
  <2>7. Buckets([s EXCEPT ![i][2] = ps], n)
    BY <2>1, <2>5, <2>6, BucketChanges
  <2> QED
    BY <2>7, <1>4 DEF ps, i, b, n
<1>5. CASE ~b.found
  <2> DEFINE ps == <<<<k, v>>>>
  <2>1. Holds(ps, Part(n, h)) /\ ps # <<>>
    <3>1. DOMAIN Part(n, h) = {k} /\ Part(n, h)[k] = v
      <4>1. DOMAIN Part(m, h) = {} /\ Part(n, h) = With(Part(m, h), k, v)
        BY <1>1, <1>2, <1>5
      <4>2. \A o : DOMAIN o = {} => DOMAIN With(o, k, v) = {k} /\ With(o, k, v)[k] = v
        BY DEF With
      <4> QED
        BY <4>1, <4>2
    <3>2. ps \in Seq(Pairs) /\ Len(ps) = 1 /\ ps[1] = <<k, v>> /\ 1..1 = {1}
      BY DEF Pairs
    <3> HIDE DEF ps
    <3>3. \A i \in 1..Len(ps) : i = 1 /\ ps[i] = <<k, v>> /\ ps[i][1] = k /\ ps[i][2] = v
      BY <3>2
    <3>4. {ps[i][1] : i \in 1..Len(ps)} = {k}
      <4>1. 1 \in 1..Len(ps) /\ ps[1][1] = k
        BY <3>2
      <4> DEFINE K == {ps[i][1] : i \in 1..Len(ps)}
      <4>2. k \in K /\ \A x \in K : x = k
        BY <4>1, <3>3
      <4> HIDE DEF K
      <4>3. K = {k}
        BY <4>2
      <4> QED
        BY <4>3 DEF K
    <3>5. ps # <<>>
      <4>1. Len(<<>>) = 0
        OBVIOUS
      <4>2. Len(ps) # Len(<<>>)
        BY <4>1, <3>2
      <4> QED
        BY <4>2, Zenon
    <3>6. \A i, j \in 1..Len(ps) : ps[i][1] = ps[j][1] => i = j
      BY <3>3
    <3>7. \A i \in 1..Len(ps) : Part(n, h)[ps[i][1]] = ps[i][2]
      BY <3>1, <3>3
    <3>8. DOMAIN Part(n, h) = {ps[i][1] : i \in 1..Len(ps)}
      BY <3>1, <3>4
    <3> QED
      BY <3>2, <3>5, <3>6, <3>7, <3>8 DEF Holds
  <2> HIDE DEF ps
  <2>2. Buckets(PutAt(s, b.idx, <<h, ps>>), n)
    BY <2>1, <1>1, <1>2, <1>3, <1>5, BucketArrives
  <2> QED
    BY <2>2, <1>5 DEF ps, b, n, h
<1> QED
  BY <1>1, <1>4, <1>5

\* Delete: the bucket goes with its only pair, or loses the pair.
LEMMA DeleteBuckets ==
  ASSUME NEW s, NEW m, Buckets(s, m), NEW k \in Names, k \in DOMAIN m
  PROVE  LET b == Find(KeysOf(s), Hash[k], Threshold)
             ps == s[b.idx + 1][2]
         IN Buckets(IF Len(ps) = 1 THEN CutAt(s, b.idx)
                    ELSE [s EXCEPT ![b.idx + 1][2] =
                            Mappers!RemoveAt(ps, Mappers!PlaceOf(ps, k))], Without(m, k))
<1> DEFINE b == Find(KeysOf(s), Hash[k], Threshold)
           n == Without(m, k)
           h == Hash[k]
           i == b.idx + 1
           ps == s[i][2]
           r == Mappers!RemoveAt(ps, Mappers!PlaceOf(ps, k))
<1>1. k \in DOMAIN Part(m, h)
  BY DEF Part
<1>2. b.found /\ b.idx \in 0..Len(s)-1 /\ i \in 1..Len(s) /\ s[i][1] = h
  BY <1>1, BucketTells
<1>3. Part(n, h) = Without(Part(m, h), k) /\ \A g : g # h => Part(n, g) = Part(m, g)
  BY PartsWithout
<1>4. s \in Seq(Int \X Seq(Pairs)) /\ Len(s) \in Nat
  BY BucketsAre
<1> HIDE DEF b, n, i
<1>5. Holds(ps, Part(m, h)) /\ ps # <<>>
  BY <1>2, BucketHas
<1> HIDE DEF h, ps
<1>6. Holds(r, Part(n, h)) /\ Len(r) = Len(ps) - 1
  BY <1>1, <1>3, <1>5, RemovedHolds
<1> HIDE DEF r
<1>7. CASE Len(ps) = 1
  <2>1. DOMAIN Part(n, h) = {}
    <3>1. Len(r) = 0
      BY <1>6, <1>7
    <3>2. 1..0 = {}
      OBVIOUS
    <3> QED
      BY <3>1, <3>2, <1>6 DEF Holds
  <2>2. Buckets(CutAt(s, b.idx), n)
    BY <2>1, <1>2, <1>3, BucketGoes DEF i
  <2> QED
    BY <2>2, <1>7 DEF b, n, ps, i
<1>8. CASE Len(ps) # 1
  <2>1. r # <<>>
    <3>1. Len(ps) # 0 /\ Len(ps) \in Nat
      BY <1>5 DEF Holds
    <3>2. Len(r) # 0
      BY <3>1, <1>6, <1>8
    <3> QED
      BY <3>2
  <2>2. Holds(r, Part(n, s[i][1])) /\ \A g : g # s[i][1] => Part(n, g) = Part(m, g)
    BY <1>2, <1>3, <1>6
  <2>3. Buckets([s EXCEPT ![i][2] = r], n)
    BY <2>1, <2>2, <1>2, BucketChanges
  <2> QED
    BY <2>3, <1>8 DEF b, n, ps, i, r
<1> QED
  BY <1>7, <1>8

-----------------------------------------------------------------------------
(* The Mappers side by side.                                               *)

MapperInv ==
  /\ Holds(linear, gomap)
  /\ Buckets(d, gomap)
  /\ size = Cardinality(DOMAIN gomap)

\* A key that is set, for hamap the size tells whether it is new.
LEMMA MappersSet ==
  ASSUME MapperInv, NEW k \in Names, NEW v \in Values,
         gomap' = With(gomap, k, v),
         linear' = Mappers!Chained(linear, k, v),
         Buckets(d', With(gomap, k, v)),
         size' = IF k \in DOMAIN gomap THEN size ELSE size + 1
  PROVE  MapperInv'
<1>1. Holds(linear', gomap')
  BY ChainedHolds DEF MapperInv
<1>2. IsFiniteSet(DOMAIN gomap)
  BY PairsCount DEF MapperInv
<1>3. DOMAIN gomap' = DOMAIN gomap \cup {k}
  BY DEF With
<1>4. size' = Cardinality(DOMAIN gomap')
  BY <1>2, <1>3, FS_AddElement DEF MapperInv
<1> QED
  BY <1>1, <1>4 DEF MapperInv

LEMMA MappersStart == Mappers!Init => MapperInv
<1> SUFFICES ASSUME Mappers!Init PROVE MapperInv
  OBVIOUS
<1>1. d = <<>> /\ size = 0 /\ linear = <<>> /\ DOMAIN gomap = {}
  BY DEF Mappers!Init, Mappers!NoEntries
<1>2. KeysOf(d) = <<>>
  BY <1>1 DEF KeysOf
<1>3. Buckets(d, gomap)
  BY <1>1, <1>2, EmptySorted DEF Buckets
<1>4. Holds(linear, gomap)
  BY <1>1 DEF Holds
<1> QED
  BY <1>1, <1>3, <1>4, FS_EmptySet DEF MapperInv

LEMMA MappersStay == MapperInv /\ [Mappers!Next]_(Mappers!vars) => MapperInv'
<1> SUFFICES ASSUME MapperInv, [Mappers!Next]_(Mappers!vars) PROVE MapperInv'
  OBVIOUS
<1> DEFINE b(k) == Find(KeysOf(d), Hash[k], Threshold)
           ps(k) == d[b(k).idx + 1][2]
<1>1. \A k : Mappers!index(k) = b(k)
  BY OneMapper, Zenon DEF Mappers!index
<1>2. ASSUME NEW k \in Names
      PROVE  /\ b(k).found \in BOOLEAN
             /\ b(k).found => /\ b(k).idx + 1 \in 1..Len(d)
                              /\ Holds(ps(k), Part(gomap, Hash[k]))
                              /\ Mappers!Has(ps(k), k) <=> k \in DOMAIN gomap
             /\ ~b(k).found => k \notin DOMAIN gomap
  <2>1. Buckets(d, gomap)
    BY DEF MapperInv
  <2>2. b(k).found \in BOOLEAN
    BY <2>1, BucketTells
  <2>3. ASSUME b(k).found
        PROVE  /\ b(k).idx + 1 \in 1..Len(d)
               /\ Holds(ps(k), Part(gomap, Hash[k]))
               /\ Mappers!Has(ps(k), k) <=> k \in DOMAIN gomap
    <3>1. b(k).idx + 1 \in 1..Len(d) /\ d[b(k).idx + 1][1] = Hash[k]
      BY <2>1, <2>3, BucketTells
    <3> HIDE DEF b
    <3>2. Holds(ps(k), Part(gomap, Hash[k])) /\ (k \in DOMAIN Part(gomap, Hash[k]) <=> k \in DOMAIN gomap)
      BY <2>1, <3>1, BucketHas
    <3> HIDE DEF ps
    <3>3. Mappers!Has(ps(k), k) <=> k \in DOMAIN Part(gomap, Hash[k])
      BY <3>2, PlaceHolds
    <3> QED
      BY <3>1, <3>2, <3>3
  <2>4. ASSUME ~b(k).found PROVE k \notin DOMAIN gomap
    <3>1. DOMAIN Part(gomap, Hash[k]) = {}
      BY <2>1, <2>4, BucketTells
    <3> QED
      BY <3>1 DEF Part
  <2> QED
    BY <2>2, <2>3, <2>4
<1>3. ASSUME NEW k \in Names, NEW v \in Values
      PROVE  Buckets(IF b(k).found
                     THEN [d EXCEPT ![b(k).idx + 1][2] = Mappers!Chained(ps(k), k, v)]
                     ELSE PutAt(d, b(k).idx, <<Hash[k], <<<<k, v>>>>>>), With(gomap, k, v))
  BY SetBuckets DEF MapperInv
<1>4. CASE Mappers!Reset
  <2>1. d' = <<>> /\ size' = 0 /\ linear' = <<>> /\ DOMAIN gomap' = {}
    BY <1>4 DEF Mappers!Reset, Mappers!HAReset, Mappers!NoEntries
  <2>2. KeysOf(d') = <<>>
    BY <2>1 DEF KeysOf
  <2>3. Buckets(d', gomap')
    BY <2>1, <2>2, EmptySorted DEF Buckets
  <2>4. Holds(linear', gomap')
    BY <2>1 DEF Holds
  <2> QED
    BY <2>1, <2>3, <2>4, FS_EmptySet DEF MapperInv
<1>5. ASSUME NEW k \in Names, Mappers!Delete(k) PROVE MapperInv'
  <2>1. k \in DOMAIN gomap => b(k).found /\ Mappers!Has(ps(k), k)
    BY <1>2
  <2>2. k \notin DOMAIN gomap => ~b(k).found \/ ~Mappers!Has(ps(k), k)
    BY <1>2
  <2>3. gomap' = Without(gomap, k)
    BY <1>5 DEF Mappers!Delete, Mappers!GomapDelete, Without
  <2>4. IF ~b(k).found \/ ~Mappers!Has(ps(k), k) THEN UNCHANGED <<d, size>>
        ELSE /\ size' = size - 1
             /\ d' = IF Len(ps(k)) = 1 THEN CutAt(d, b(k).idx)
                     ELSE [d EXCEPT ![b(k).idx + 1][2] =
                             Mappers!RemoveAt(@, Mappers!PlaceOf(@, k))]
    BY <1>1, <1>5, OneMapper DEF Mappers!Delete, Mappers!HADelete
  <2>5. linear' = IF Mappers!Has(linear, k)
                  THEN Mappers!Front([linear EXCEPT ![Mappers!PlaceOf(linear, k)] =
                                        Mappers!Last(linear)])
                  ELSE linear
    BY <1>5, Zenon DEF Mappers!Delete, Mappers!LinearDelete
  <2>6. Mappers!Has(linear, k) <=> k \in DOMAIN gomap
    BY PlaceHolds DEF MapperInv
  <2>7. IsFiniteSet(DOMAIN gomap)
    BY PairsCount DEF MapperInv
  <2>8. DOMAIN gomap' = DOMAIN gomap \ {k}
    BY <2>3 DEF Without
  <2>9. CASE k \in DOMAIN gomap
    <3>1. Buckets(d', gomap')
      <4>1. Buckets(IF Len(ps(k)) = 1 THEN CutAt(d, b(k).idx)
                    ELSE [d EXCEPT ![b(k).idx + 1][2] =
                            Mappers!RemoveAt(ps(k), Mappers!PlaceOf(ps(k), k))], Without(gomap, k))
        BY <2>9, DeleteBuckets DEF MapperInv
      <4> QED
        BY <4>1, <2>1, <2>3, <2>4, <2>9
    <3>2. Holds(linear', gomap')
      <4>1. linear' = Mappers!Front([linear EXCEPT ![Mappers!PlaceOf(linear, k)] = Mappers!Last(linear)])
        BY <2>5, <2>6, <2>9
      <4> QED
        BY <4>1, <2>3, <2>9, RemovedHolds DEF MapperInv
    <3>3. size' = Cardinality(DOMAIN gomap')
      <4>1. size' = size - 1
        BY <2>1, <2>4, <2>9
      <4> QED
        BY <4>1, <2>7, <2>8, <2>9, FS_RemoveElement DEF MapperInv
    <3> QED
      BY <3>1, <3>2, <3>3 DEF MapperInv
  <2>10. CASE k \notin DOMAIN gomap
    <3>1. UNCHANGED <<d, size>> /\ linear' = linear
      BY <2>2, <2>4, <2>5, <2>6, <2>10
    <3>2. DOMAIN gomap' = DOMAIN gomap /\ \A x \in DOMAIN gomap : gomap'[x] = gomap[x]
      BY <2>3, <2>10 DEF Without
    <3>3. Holds(linear, gomap')
      BY <3>2 DEF MapperInv, Holds
    <3>4. \A h : Part(gomap', h) = Part(gomap, h)
      BY <3>2 DEF Part
    <3>5. Buckets(d, gomap')
      BY <3>2, <3>4 DEF MapperInv, Buckets
    <3> QED
      BY <3>1, <3>2, <3>3, <3>5 DEF MapperInv
  <2> QED
    BY <2>9, <2>10
<1>6. ASSUME NEW k \in Names, NEW v \in Values, Mappers!HASet(k, v),
             Mappers!LinearSet(k, v), Mappers!GomapSet(k, v)
      PROVE  MapperInv'
  <2>1. d' = IF b(k).found
             THEN [d EXCEPT ![b(k).idx + 1][2] = Mappers!Chained(ps(k), k, v)]
             ELSE PutAt(d, b(k).idx, <<Hash[k], <<<<k, v>>>>>>)
    BY <1>1, <1>6, OneMapper DEF Mappers!HASet
  <2>2. size' = IF b(k).found /\ Mappers!Has(ps(k), k) THEN size ELSE size + 1
    BY <1>1, <1>6 DEF Mappers!HASet
  <2>3. size' = IF k \in DOMAIN gomap THEN size ELSE size + 1
    BY <2>2, <1>2
  <2>4. linear' = Mappers!Chained(linear, k, v) /\ gomap' = With(gomap, k, v)
    BY <1>6, Zenon DEF Mappers!LinearSet, Mappers!GomapSet, With
  <2>5. Buckets(d', With(gomap, k, v))
    BY <2>1, <1>3
  <2> QED
    BY <2>3, <2>4, <2>5, MappersSet
<1>7. ASSUME NEW k \in Names, NEW v \in Values, Mappers!Set(k, v) PROVE MapperInv'
  BY <1>6, <1>7, Zenon DEF Mappers!Set
<1>8. ASSUME NEW k \in Names, NEW v \in Values, NEW w \in Values, Mappers!SetFn(k, v, w)
      PROVE  MapperInv'
  <2> DEFINE x == IF k \in DOMAIN gomap THEN w ELSE v
  <2>1. x \in Values
    OBVIOUS
  <2>2. Mappers!HASetFn(k, v, w) /\ Mappers!LinearSet(k, x) /\ Mappers!GomapSet(k, x)
    BY <1>8, Zenon DEF Mappers!SetFn
  <2>3. CASE k \in DOMAIN gomap
    <3>1. b(k).found /\ Mappers!Has(ps(k), k) /\ x = w
      BY <2>3, <1>2
    <3>2. /\ d' = [d EXCEPT ![b(k).idx + 1][2] = Mappers!Chained(ps(k), k, w)]
          /\ size' = size
      BY <3>1, <2>2, <1>1 DEF Mappers!HASetFn
    <3>3. linear' = Mappers!Chained(linear, k, w) /\ gomap' = With(gomap, k, w)
      BY <3>1, <2>2, Zenon DEF Mappers!LinearSet, Mappers!GomapSet, With
    <3>4. Buckets(d', With(gomap, k, w))
      BY <3>1, <3>2, <1>3
    <3> QED
      BY <3>2, <3>3, <3>4, <2>3, MappersSet
  <2>4. CASE k \notin DOMAIN gomap
    <3>1. ~(b(k).found /\ Mappers!Has(ps(k), k)) /\ x = v
      BY <2>4, <1>2
    <3>2. Mappers!HASet(k, v)
      BY <3>1, <2>2, <1>1 DEF Mappers!HASetFn
    <3> QED
      BY <3>1, <3>2, <2>2, <1>6
  <2> QED
    BY <2>3, <2>4
<1>9. ASSUME NEW k \in Names, NEW w \in Values, Mappers!GetFn(k, w) PROVE MapperInv'
  <2>1. k \in DOMAIN gomap /\ Mappers!HAUpdate(k, w)
        /\ Mappers!LinearSet(k, w) /\ Mappers!GomapSet(k, w)
    BY <1>9, Zenon DEF Mappers!GetFn
  <2> DEFINE p == IF Len(ps(k)) = 1 THEN 1 ELSE Mappers!PlaceOf(ps(k), k)
  <2>2. /\ b(k).found /\ Mappers!Has(ps(k), k)
        /\ Holds(ps(k), Part(gomap, Hash[k]))
    BY <2>1, <1>2
  <2>3. /\ d' = [d EXCEPT ![b(k).idx + 1][2] = [ps(k) EXCEPT ![p][2] = w]]
        /\ size' = size
    BY Zenon, <2>1, <1>1 DEF Mappers!HAUpdate
  <2>4. [ps(k) EXCEPT ![p][2] = w] = Mappers!Chained(ps(k), k, w)
    <3> HIDE DEF ps
    <3>1. k \in DOMAIN Part(gomap, Hash[k])
      BY <2>1 DEF Part
    <3>2. Mappers!PlaceOf(ps(k), k) \in 1..Len(ps(k)) /\ ps(k)[Mappers!PlaceOf(ps(k), k)][1] = k
      BY <3>1, <2>2, PlaceHolds
    <3>3. p = Mappers!PlaceOf(ps(k), k)
      BY <3>2
    <3>4. ps(k)[p] = <<k, ps(k)[p][2]>>
      BY <3>2, <3>3, <2>2, PairsOf
    <3> HIDE DEF p
    <3>5. [ps(k)[p] EXCEPT ![2] = w] = <<k, w>>
      BY <3>4
    <3>6. [ps(k) EXCEPT ![p][2] = w] = [ps(k) EXCEPT ![p] = <<k, w>>]
      BY <3>5
    <3> QED
      BY <3>3, <3>6, <2>2, Zenon DEF Mappers!Chained
  <2>5. linear' = Mappers!Chained(linear, k, w) /\ gomap' = With(gomap, k, w)
    BY <2>1, Zenon DEF Mappers!LinearSet, Mappers!GomapSet, With
  <2>6. Buckets(d', With(gomap, k, w))
    BY Zenon, <2>2, <2>3, <2>4, <1>3
  <2> QED
    BY Zenon, <2>1, <2>3, <2>5, <2>6, MappersSet
<1>10. CASE UNCHANGED Mappers!vars
  BY <1>10 DEF Mappers!vars, MapperInv
<1> QED
  BY <1>4, <1>5, <1>7, <1>8, <1>9, <1>10, Zenon DEF Mappers!Next

-----------------------------------------------------------------------------
(* What hamap visits: its buckets one behind the other.                    *)

Flats(q, f) == f = [i \in 1..Len(q) |-> IF i = 1 THEN q[i] ELSE f[i - 1] \o q[i]]
Flat(q) == CHOOSE f : Flats(q, f)

LEMMA FlattenIs ==
  \A q : Mappers!FlattenSeq(q) = IF Len(q) = 0 THEN q ELSE Flat(q)[Len(q)]
BY Zenon DEF Mappers!FlattenSeq, Flat, Flats

LEMMA FlatIs ==
  ASSUME NEW S, NEW q \in Seq(Seq(S))
  PROVE  \A i \in 1..Len(q) : /\ Flat(q)[i] \in Seq(S)
                              /\ Flat(q)[i] = IF i = 1 THEN q[i] ELSE Flat(q)[i - 1] \o q[i]
<1> DEFINE N == Len(q)
           G(f, i) == IF i = 1 THEN q[i] ELSE f[i - 1] \o q[i]
           Is(f, n) == f \in [1..n -> Seq(S)] /\ \A i \in 1..n : f[i] = G(f, i)
           Some(n) == \E f : Is(f, n)
           T == {n \in Nat : n <= N => Some(n)}
<1>1. N \in Nat /\ \A i \in 1..N : q[i] \in Seq(S)
  OBVIOUS
<1> HIDE DEF N
<1>2. 0 \in T
  <2>1. Is([i \in 1..0 |-> <<>>], 0)
    OBVIOUS
  <2>2. Some(0)
    <3> HIDE DEF Is
    <3> QED
      BY <2>1
  <2> HIDE DEF Some
  <2> QED
    BY <2>2
<1>3. ASSUME NEW n \in Nat, n \in T PROVE n + 1 \in T
  <2> SUFFICES ASSUME n + 1 <= N PROVE Some(n + 1)
    <3> HIDE DEF Some
    <3> QED
      OBVIOUS
  <2>1. PICK f : Is(f, n)
    <3>1. Some(n)
      <4> HIDE DEF Some
      <4> QED
        BY <1>1, <1>3
    <3> QED
      BY <3>1
  <2> DEFINE g == [i \in 1..n+1 |-> IF i <= n THEN f[i] ELSE G(f, n + 1)]
  <2>2. G(f, n + 1) \in Seq(S)
    <3>1. q[n + 1] \in Seq(S)
      BY <1>1
    <3>2. CASE n = 0
      BY <3>1, <3>2
    <3>3. CASE n # 0
      <4>1. n \in 1..n /\ (n + 1) - 1 = n /\ n + 1 # 1
        BY <3>3
      <4>2. f[n] \in Seq(S)
        BY <4>1, <2>1
      <4> QED
        BY <4>1, <4>2, <3>1, ConcatProperties
    <3> QED
      BY <3>2, <3>3
  <2>3. g \in [1..n+1 -> Seq(S)]
    <3>1. ASSUME NEW i \in 1..n+1 PROVE (IF i <= n THEN f[i] ELSE G(f, n + 1)) \in Seq(S)
      <4>1. i <= n => i \in 1..n
        OBVIOUS
      <4> HIDE DEF G
      <4> QED
        BY <4>1, <2>1, <2>2
    <3> QED
      BY <3>1, Zenon
  <2>4. \A i \in 1..n+1 : g[i] = IF i <= n THEN f[i] ELSE G(f, n + 1)
    BY Zenon
  <2> HIDE DEF g
  <2>5. ASSUME NEW i \in 1..n+1 PROVE g[i] = G(g, i)
    <3>1. i # 1 => i - 1 \in 1..n+1 /\ i - 1 <= n
      OBVIOUS
    <3>2. i # 1 => g[i - 1] = f[i - 1]
      BY <3>1, <2>4
    <3>3. G(g, i) = G(f, i)
      BY <3>2
    <3>4. CASE i <= n
      <4>1. i \in 1..n
        BY <3>4
      <4> HIDE DEF G
      <4> QED
        BY <4>1, <3>3, <3>4, <2>1, <2>4
    <3>5. CASE ~(i <= n)
      <4>1. i = n + 1
        BY <3>5
      <4> HIDE DEF G
      <4> QED
        BY <4>1, <3>3, <3>5, <2>4
    <3> QED
      BY <3>4, <3>5
  <2>6. Is(g, n + 1)
    <3> HIDE DEF G
    <3> QED
      BY <2>3, <2>5, Zenon
  <2> HIDE DEF Is
  <2> QED
    BY <2>6, Zenon
<1>4. Some(N)
  <2> HIDE DEF Some
  <2>1. \A n \in Nat : n \in T => n + 1 \in T
    BY <1>3
  <2>2. Nat \subseteq T
    <3> HIDE DEF T
    <3> QED
      BY <1>2, <2>1, NaturalSteps
  <2>3. N \in T /\ N <= N
    BY <2>2, <1>1
  <2> QED
    BY <2>3
<1>5. PICK f : Is(f, N)
  BY <1>4
<1>6. f = [i \in 1..N |-> G(f, i)]
  <2>1. f = [i \in 1..N |-> f[i]]
    BY <1>5
  <2> HIDE DEF G
  <2> QED
    BY <2>1, <1>5
<1>7. Flats(q, f)
  BY <1>6, Zenon DEF Flats, N
<1>8. Flats(q, Flat(q))
  BY <1>7, Zenon DEF Flat
<1> DEFINE h == Flat(q)
<1>9. h = [i \in 1..N |-> G(h, i)]
  BY <1>8, Zenon DEF Flats, N
<1> HIDE DEF h
<1>10. \A i \in 1..N : h[i] = G(h, i)
  <2> HIDE DEF G
  <2>1. \A i \in 1..N : [j \in 1..N |-> G(h, j)][i] = G(h, i)
    BY Zenon
  <2> QED
    BY <2>1, <1>9, Zenon
<1> DEFINE R == {n \in Nat : n \in 1..N => h[n] \in Seq(S)}
<1>11. 0 \in R
  OBVIOUS
<1>12. ASSUME NEW n \in Nat, n \in R PROVE n + 1 \in R
  <2> SUFFICES ASSUME n + 1 \in 1..N PROVE h[n + 1] \in Seq(S)
    OBVIOUS
  <2>1. h[n + 1] = G(h, n + 1) /\ q[n + 1] \in Seq(S)
    BY <1>1, <1>10, Zenon
  <2>2. CASE n = 0
    BY <2>1, <2>2
  <2>3. CASE n # 0
    <3>1. n \in 1..N /\ (n + 1) - 1 = n /\ n + 1 # 1
      BY <2>3, <1>1
    <3>2. h[n] \in Seq(S)
      BY <3>1, <1>12
    <3> QED
      BY <3>1, <3>2, <2>1, ConcatProperties
  <2> QED
    BY <2>2, <2>3
<1>13. Nat \subseteq R
  <2> HIDE DEF R
  <2> QED
    BY <1>11, <1>12, NaturalSteps
<1>14. \A i \in 1..N : h[i] \in Seq(S)
  BY <1>13
<1> QED
  BY <1>10, <1>14, Zenon DEF h, N

\* What is visited up to a bucket is a prefix of what is visited after it.
LEMMA FlatGrows ==
  ASSUME NEW S, NEW q \in Seq(Seq(S)), NEW n \in 1..Len(q), NEW k \in n..Len(q)
  PROVE  /\ Len(Flat(q)[n]) <= Len(Flat(q)[k])
         /\ \A j \in 1..Len(Flat(q)[n]) : Flat(q)[k][j] = Flat(q)[n][j]
<1> DEFINE N == Len(q)
           h == Flat(q)
           P(i) == Len(h[n]) <= Len(h[i]) /\ \A j \in 1..Len(h[n]) : h[i][j] = h[n][j]
           T == {i \in Nat : i \in n..N => P(i)}
<1>1. N \in Nat /\ n \in Nat /\ k \in Nat /\ 1 <= n /\ \A i \in 1..N : q[i] \in Seq(S)
  OBVIOUS
<1>2. \A i \in 1..N : h[i] \in Seq(S) /\ h[i] = IF i = 1 THEN q[i] ELSE h[i - 1] \o q[i]
  BY FlatIs
<1> HIDE DEF N, h
<1>3. 0 \in T
  BY <1>1
<1>4. ASSUME NEW i \in Nat, i \in T PROVE i + 1 \in T
  <2> SUFFICES ASSUME i + 1 \in n..N PROVE P(i + 1)
    OBVIOUS
  <2>1. CASE i + 1 = n
    <3>1. h[n] \in Seq(S)
      BY <1>1, <1>2, <2>1
    <3>2. Len(h[n]) \in Nat
      BY <3>1
    <3> QED
      BY <3>2, <2>1
  <2>2. CASE i + 1 # n
    <3>1. i \in n..N /\ i \in 1..N /\ i + 1 \in 1..N /\ i + 1 # 1 /\ (i + 1) - 1 = i
      BY <2>2, <1>1
    <3>2. h[i + 1] = h[i] \o q[i + 1] /\ h[i] \in Seq(S) /\ q[i + 1] \in Seq(S)
      BY <3>1, <1>1, <1>2
    <3>3. /\ Len(h[i + 1]) = Len(h[i]) + Len(q[i + 1])
          /\ \A j \in 1..Len(h[i]) : h[i + 1][j] = h[i][j]
      <4>1. /\ Len(h[i] \o q[i + 1]) = Len(h[i]) + Len(q[i + 1])
            /\ \A j \in 1..Len(h[i]) + Len(q[i + 1]) :
                 (h[i] \o q[i + 1])[j] = IF j <= Len(h[i]) THEN h[i][j] ELSE q[i + 1][j - Len(h[i])]
        BY <3>2, ConcatProperties
      <4>2. Len(h[i]) \in Nat /\ Len(q[i + 1]) \in Nat
        BY <3>2
      <4>3. \A x, y \in Nat : \A j \in 1..x : j \in 1..x + y /\ j <= x
        OBVIOUS
      <4>4. \A j \in 1..Len(h[i]) : j \in 1..Len(h[i]) + Len(q[i + 1]) /\ j <= Len(h[i])
        BY <4>2, <4>3, Zenon
      <4> QED
        BY <4>1, <4>4, <3>2
    <3>4. P(i)
      BY <3>1, <1>4
    <3>5. Len(h[i]) \in Nat /\ Len(q[i + 1]) \in Nat /\ Len(h[n]) \in Nat
      <4>1. h[n] \in Seq(S)
        BY <1>1, <1>2, <3>1
      <4> QED
        BY <4>1, <3>2
    <3>6. Len(h[n]) <= Len(h[i + 1])
      <4>1. Len(h[n]) <= Len(h[i]) /\ Len(h[i + 1]) = Len(h[i]) + Len(q[i + 1])
        BY <3>3, <3>4
      <4>2. \A x, y, z \in Nat : x <= y => x <= y + z
        OBVIOUS
      <4>3. Len(h[n]) <= Len(h[i]) + Len(q[i + 1])
        BY <4>1, <4>2, <3>5, Zenon
      <4> QED
        BY <4>1, <4>3, Zenon
    <3>7. ASSUME NEW j \in 1..Len(h[n]) PROVE h[i + 1][j] = h[n][j]
      <4>1. j \in 1..Len(h[i])
        BY <3>4, <3>5
      <4> QED
        BY <4>1, <3>3, <3>4
    <3> QED
      BY <3>6, <3>7
  <2> QED
    BY <2>1, <2>2
<1>5. Nat \subseteq T
  <2> HIDE DEF T
  <2> QED
    BY <1>3, <1>4, NaturalSteps
<1>6. P(k)
  <2>1. k \in T /\ k \in n..N
    BY <1>5, <1>1 DEF N
  <2> HIDE DEF P
  <2> QED
    BY <2>1
<1> QED
  BY <1>6 DEF h

\* The same buckets up to n are visited the same way up to n.
LEMMA FlatSame ==
  ASSUME NEW S, NEW q \in Seq(Seq(S)), NEW r \in Seq(Seq(S)), Len(r) <= Len(q),
         \A i \in 1..Len(r) : r[i] = q[i]
  PROVE  \A i \in 1..Len(r) : Flat(r)[i] = Flat(q)[i]
<1> DEFINE N == Len(r)
           h == Flat(q)
           g == Flat(r)
           T == {i \in Nat : i \in 1..N => g[i] = h[i]}
<1>1. N \in Nat /\ Len(q) \in Nat /\ N <= Len(q) /\ \A i \in 1..N : i \in 1..Len(q)
  OBVIOUS
<1>2. \A i \in 1..Len(q) : h[i] = IF i = 1 THEN q[i] ELSE h[i - 1] \o q[i]
  BY FlatIs
<1>3. \A i \in 1..N : g[i] = IF i = 1 THEN r[i] ELSE g[i - 1] \o r[i]
  BY FlatIs
<1>4. \A i \in 1..N : r[i] = q[i]
  OBVIOUS
<1> HIDE DEF N, h, g
<1>5. 0 \in T
  OBVIOUS
<1>6. ASSUME NEW i \in Nat, i \in T PROVE i + 1 \in T
  <2> SUFFICES ASSUME i + 1 \in 1..N PROVE g[i + 1] = h[i + 1]
    OBVIOUS
  <2>1. i + 1 \in 1..Len(q) /\ r[i + 1] = q[i + 1]
    BY <1>1, <1>4
  <2>2. CASE i = 0
    BY <2>1, <2>2, <1>2, <1>3
  <2>3. CASE i # 0
    <3>1. i \in 1..N /\ (i + 1) - 1 = i /\ i + 1 # 1
      BY <2>3, <1>1
    <3>2. g[i] = h[i]
      BY <3>1, <1>6
    <3>3. g[i + 1] = g[i] \o r[i + 1] /\ h[i + 1] = h[i] \o q[i + 1]
      BY <3>1, <2>1, <1>2, <1>3
    <3> QED
      BY <3>2, <3>3, <2>1
  <2> QED
    BY <2>2, <2>3
<1>7. Nat \subseteq T
  <2> HIDE DEF T
  <2> QED
    BY <1>5, <1>6, NaturalSteps
<1> QED
  BY <1>7, <1>1 DEF N, h, g

\* The pairs of the buckets of s, in order.
Lists(s) == [i \in DOMAIN s |-> s[i][2]]

\* The buckets of s hold as many pairs as m has keys.
LEMMA FlatCounts ==
  ASSUME NEW s, NEW m, Buckets(s, m), Len(s) # 0
  PROVE  Len(Flat(Lists(s))[Len(s)]) = Cardinality(DOMAIN m)
<1> DEFINE N == Len(s)
           q == Lists(s)
           h == Flat(q)
           UpTo(n) == {k \in DOMAIN m : \E i \in 1..n : s[i][1] = Hash[k]}
           T == {n \in Nat : n \in 1..N => /\ IsFiniteSet(UpTo(n))
                                           /\ Cardinality(UpTo(n)) = Len(h[n])}
<1>1. /\ N \in Nat \ {0} /\ DOMAIN s = 1..N
      /\ \A i \in 1..N : s[i][2] \in Seq(Pairs)
      /\ \A i, j \in 1..N : s[i][1] = s[j][1] => i = j
  BY BucketsAre
<1>2. Len(q) = N /\ q \in Seq(Seq(Pairs)) /\ \A i \in 1..N : q[i] = s[i][2]
  <2>1. q \in [1..N -> Seq(Pairs)] /\ \A i \in 1..N : q[i] = s[i][2]
    BY <1>1 DEF Lists
  <2> HIDE DEF q, N
  <2> QED
    BY <2>1, <1>1
<1> HIDE DEF q
<1>3. \A i \in 1..N : h[i] \in Seq(Pairs) /\ h[i] = IF i = 1 THEN q[i] ELSE h[i - 1] \o q[i]
  BY <1>2, FlatIs
<1>4. ASSUME NEW i \in 1..N
      PROVE  LET D == {k \in DOMAIN m : s[i][1] = Hash[k]}
             IN IsFiniteSet(D) /\ Cardinality(D) = Len(q[i])
  <2>1. Holds(q[i], Part(m, s[i][1]))
    BY <1>2 DEF Buckets
  <2>2. DOMAIN Part(m, s[i][1]) = {k \in DOMAIN m : s[i][1] = Hash[k]}
    BY DEF Part
  <2> QED
    BY <2>1, <2>2, PairsCount
<1> HIDE DEF h, N
<1>5. 0 \in T
  OBVIOUS
<1>6. ASSUME NEW n \in Nat, n \in T PROVE n + 1 \in T
  <2>0. n + 1 \in Nat
    OBVIOUS
  <2> SUFFICES ASSUME n + 1 \in 1..N
               PROVE  IsFiniteSet(UpTo(n + 1)) /\ Cardinality(UpTo(n + 1)) = Len(h[n + 1])
    BY <2>0, Zenon
  <2> DEFINE D == {k \in DOMAIN m : s[n + 1][1] = Hash[k]}
  <2>1. IsFiniteSet(D) /\ Cardinality(D) = Len(q[n + 1])
    BY <1>4
  <2>2. UpTo(n + 1) = UpTo(n) \cup D
    <3>1. \A i \in 1..n+1 : i \in 1..n \/ i = n + 1
      OBVIOUS
    <3>2. n + 1 \in 1..n+1 /\ \A i \in 1..n : i \in 1..n+1
      OBVIOUS
    <3> QED
      BY <3>1, <3>2
  <2>3. UpTo(n) \cap D = {}
    <3> SUFFICES ASSUME NEW i \in 1..n PROVE s[i][1] # s[n + 1][1]
      OBVIOUS
    <3>1. i \in 1..N /\ i # n + 1
      BY <1>1
    <3> QED
      BY <3>1, <1>1
  <2>4. q[n + 1] \in Seq(Pairs)
    BY <1>1, <1>2
  <2>5. CASE n = 0
    <3>1. UpTo(n) = {}
      BY <2>5
    <3>2. h[n + 1] = q[n + 1]
      BY <2>5, <1>3
    <3> HIDE DEF UpTo, D
    <3> QED
      BY <3>1, <3>2, <2>1, <2>2
  <2>6. CASE n # 0
    <3>1. n \in 1..N /\ (n + 1) - 1 = n /\ n + 1 # 1
      BY <2>6, <1>1
    <3>2. h[n + 1] = h[n] \o q[n + 1] /\ h[n] \in Seq(Pairs)
      BY <3>1, <1>3
    <3>3. Len(h[n + 1]) = Len(h[n]) + Len(q[n + 1])
      BY <3>2, <2>4, ConcatProperties
    <3>4. IsFiniteSet(UpTo(n)) /\ Cardinality(UpTo(n)) = Len(h[n])
      BY <3>1, <1>6
    <3>5. Len(h[n]) \in Nat /\ Len(q[n + 1]) \in Nat
      BY <3>2, <2>4
    <3> HIDE DEF UpTo, D
    <3>6. /\ IsFiniteSet(UpTo(n) \cup D)
          /\ Cardinality(UpTo(n) \cup D) = Cardinality(UpTo(n)) + Cardinality(D) - Cardinality(UpTo(n) \cap D)
      BY <3>4, <2>1, FS_Union
    <3>7. Cardinality(UpTo(n) \cap D) = 0
      BY <2>3, FS_EmptySet
    <3>8. IsFiniteSet(UpTo(n + 1)) /\ Cardinality(UpTo(n + 1)) = Cardinality(UpTo(n)) + Cardinality(D) - 0
      BY <3>6, <3>7, <2>2
    <3>9. \A x, y \in Nat : x + y - 0 = x + y
      OBVIOUS
    <3>10. Len(h[n]) + Len(q[n + 1]) - 0 = Len(h[n]) + Len(q[n + 1])
      BY <3>5, <3>9, Zenon
    <3>11. Cardinality(UpTo(n)) = Len(h[n]) /\ Cardinality(D) = Len(q[n + 1])
      BY <3>4, <2>1
    <3> QED
      BY <3>3, <3>8, <3>10, <3>11, Zenon
  <2> QED
    BY <2>5, <2>6
<1>7. Nat \subseteq T
  <2> HIDE DEF T
  <2> QED
    BY <1>5, <1>6, NaturalSteps
<1>8. UpTo(N) = DOMAIN m
  <2>1. \A k \in DOMAIN m : \E i \in 1..N : s[i][1] = Hash[k]
    BY DEF Buckets, N
  <2> QED
    BY <2>1
<1>9. N \in 1..N /\ N \in T
  <2> HIDE DEF T
  <2> QED
    BY <1>1, <1>7
<1>10. Cardinality(UpTo(N)) = Len(h[N])
  <2> HIDE DEF UpTo
  <2> QED
    BY <1>9
<1> HIDE DEF UpTo
<1> QED
  BY <1>8, <1>10 DEF h, q, N

\* What the least of some numbers is.
LEMMA MinIs ==
  ASSUME NEW S \in SUBSET Int, NEW x \in S, \A y \in S : x <= y
  PROVE  Mappers!Min(S) = x
<1>1. \E z \in S : \A y \in S : z =< y
  OBVIOUS
<1>2. \A z \in S : (\A y \in S : z =< y) => z = x
  OBVIOUS
<1> QED
  BY <1>1, <1>2 DEF Mappers!Min

LEMMA PrefixIs ==
  ASSUME NEW S, NEW s \in Seq(S), NEW t \in Seq(S), Len(s) <= Len(t),
         \A j \in 1..Len(s) : t[j] = s[j]
  PROVE  Mappers!IsPrefix(s, t)
<1>1. Len(s) \in Nat /\ Len(t) \in Nat
  OBVIOUS
<1>2. /\ SubSeq(s, 1, Len(s)) \in Seq(S) /\ Len(SubSeq(s, 1, Len(s))) = Len(s)
      /\ \A j \in 1..Len(s) : SubSeq(s, 1, Len(s))[j] = s[j]
  OBVIOUS
<1>3. /\ SubSeq(t, 1, Len(s)) \in Seq(S) /\ Len(SubSeq(t, 1, Len(s))) = Len(s)
      /\ \A j \in 1..Len(s) : SubSeq(t, 1, Len(s))[j] = t[j]
  BY <1>1
<1>4. SubSeq(s, 1, Len(s)) = SubSeq(t, 1, Len(s))
  BY <1>2, <1>3, SeqEqual
<1> QED
  BY <1>4 DEF Mappers!IsPrefix

\* A visit that looks for k and ends the first bucket that is only k's.
Firsts(ps, k) == {i \in 1..Len(ps) : ps[i][1] \in {k}}
UpTo(ps, k) == IF Firsts(ps, k) # {} THEN Mappers!Min(Firsts(ps, k)) ELSE 0
Shown(ps, k) == IF UpTo(ps, k) = 0 THEN ps ELSE SubSeq(ps, 1, UpTo(ps, k))
Singles(k) == {i \in 1..Len(d) : Len(d[i][2]) = 1 /\ d[i][2][1][1] \in {k}}
Final(k) == IF Singles(k) # {} THEN Mappers!Min(Singles(k)) ELSE 0
Seen(k) == IF Final(k) = 0 THEN d ELSE SubSeq(d, 1, Final(k))

LEMMA HAVisitIs ==
  \A k : Mappers!HAVisit({k}) =
           Mappers!FlattenSeq([i \in DOMAIN Seen(k) |-> Shown(Seen(k)[i][2], k)])
BY Zenon DEF Mappers!HAVisit, Mappers!SelectInSeq, Firsts, UpTo, Shown, Singles, Final, Seen

LEMMA VisitAllIs == Mappers!HAVisitAll = Mappers!FlattenSeq(Lists(d))
BY Zenon DEF Mappers!HAVisitAll, Lists

\* The first elements of a sequence.
LEMMA FirstElements ==
  ASSUME NEW S, NEW s \in Seq(S), NEW m \in 1..Len(s)
  PROVE  /\ SubSeq(s, 1, m) \in Seq(S) /\ Len(SubSeq(s, 1, m)) = m
         /\ \A i \in 1..m : SubSeq(s, 1, m)[i] = s[i]
OBVIOUS

LEMMA SeenIs ==
  ASSUME MapperInv, NEW k
  PROVE  /\ Seen(k) \in Seq(Int \X Seq(Pairs))
         /\ Len(Seen(k)) <= Len(d)
         /\ Len(d) # 0 => Len(Seen(k)) # 0
         /\ \A i \in 1..Len(Seen(k)) : Seen(k)[i] = d[i]
<1>1. d \in Seq(Int \X Seq(Pairs)) /\ Len(d) \in Nat
  BY DEF MapperInv, Buckets
<1>2. Singles(k) \in SUBSET (1..Len(d))
  BY DEF Singles
<1>3. CASE Singles(k) = {}
  BY <1>1, <1>3 DEF Seen, Final
<1>4. CASE Singles(k) # {}
  <2>1. PICK x \in Singles(k) : \A y \in Singles(k) : x <= y
    <3>1. Singles(k) \in SUBSET Nat
      BY <1>1, <1>2
    <3> QED
      BY <3>1, <1>4, Least
  <2>2. x \in 1..Len(d)
    BY <1>2
  <2>3. Mappers!Min(Singles(k)) = x
    <3>1. Singles(k) \in SUBSET Int
      BY <1>1, <1>2
    <3> QED
      BY <3>1, <2>1, MinIs
  <2>4. Seen(k) = SubSeq(d, 1, x)
    BY <2>2, <2>3, <1>1, <1>4 DEF Seen, Final
  <2>5. /\ SubSeq(d, 1, x) \in Seq(Int \X Seq(Pairs)) /\ Len(SubSeq(d, 1, x)) = x
        /\ \A i \in 1..x : SubSeq(d, 1, x)[i] = d[i]
    <3> DEFINE R == Int \X Seq(Pairs)
    <3>1. d \in Seq(R)
      BY <1>1
    <3> HIDE DEF R
    <3>2. /\ SubSeq(d, 1, x) \in Seq(R) /\ Len(SubSeq(d, 1, x)) = x
          /\ \A i \in 1..x : SubSeq(d, 1, x)[i] = d[i]
      BY <3>1, <2>2, FirstElements
    <3> QED
      BY <3>2 DEF R
  <2>6. x <= Len(d) /\ x # 0
    BY <2>2, <1>1
  <2> QED
    BY <2>4, <2>5, <2>6
<1> QED
  BY <1>3, <1>4

\* A bucket that has k is k's alone, or does not have it: all of it is shown.
LEMMA ShownIs ==
  ASSUME NEW ps, NEW m, Holds(ps, m), ps # <<>>, NEW k,
         ~(Len(ps) > 1 /\ Mappers!Has(ps, k))
  PROVE  Shown(ps, k) = ps
<1>1. ps \in Seq(Pairs) /\ Len(ps) \in Nat \ {0} /\ DOMAIN m = {ps[i][1] : i \in 1..Len(ps)}
  BY DEF Holds
<1>2. CASE Firsts(ps, k) = {}
  BY <1>2 DEF Shown, UpTo
<1>3. CASE Firsts(ps, k) # {}
  <2>1. k \in DOMAIN m
    BY <1>1, <1>3 DEF Firsts
  <2>2. Len(ps) = 1
    <3>1. Mappers!Has(ps, k)
      BY <2>1, PlaceHolds
    <3> QED
      BY <3>1, <1>1
  <2>3. Firsts(ps, k) = {1}
    <3>1. \A i \in Firsts(ps, k) : i = 1
      BY <2>2 DEF Firsts
    <3> QED
      BY <3>1, <1>3
  <2>4. Mappers!Min({1}) = 1
    BY MinIs
  <2>5. UpTo(ps, k) = 1
    BY <2>3, <2>4, <1>3 DEF UpTo
  <2>6. Shown(ps, k) = SubSeq(ps, 1, Len(ps))
    BY <2>2, <2>5 DEF Shown
  <2>7. SubSeq(ps, 1, Len(ps)) = ps
    BY <1>1
  <2> QED
    BY <2>6, <2>7
<1> QED
  BY <1>2, <1>3

LEMMA ListsAre ==
  ASSUME MapperInv
  PROVE  /\ Lists(d) \in Seq(Seq(Pairs)) /\ Len(Lists(d)) = Len(d) /\ Len(d) \in Nat
         /\ \A i \in 1..Len(d) : Lists(d)[i] = d[i][2]
<1>1. Len(d) \in Nat /\ DOMAIN d = 1..Len(d) /\ \A i \in 1..Len(d) : d[i][2] \in Seq(Pairs)
  BY BucketsAre DEF MapperInv
<1>2. Lists(d) \in [1..Len(d) -> Seq(Pairs)] /\ \A i \in 1..Len(d) : Lists(d)[i] = d[i][2]
  BY <1>1 DEF Lists
<1> QED
  BY <1>1, <1>2

LEMMA VisitIsPrefix ==
  ASSUME MapperInv, NEW k,
         \A i \in 1..Len(d) : ~(Len(d[i][2]) > 1 /\ Mappers!Has(d[i][2], k))
  PROVE  Mappers!IsPrefix(Mappers!HAVisit({k}), Mappers!HAVisitAll)
<1> DEFINE q == Lists(d)
           r == [i \in DOMAIN Seen(k) |-> Shown(Seen(k)[i][2], k)]
           n == Len(Seen(k))
           N == Len(d)
<1>1. /\ Seen(k) \in Seq(Int \X Seq(Pairs)) /\ n <= N /\ (N # 0 => n # 0)
      /\ \A i \in 1..n : Seen(k)[i] = d[i]
  BY SeenIs
<1>2. q \in Seq(Seq(Pairs)) /\ Len(q) = N /\ N \in Nat /\ \A i \in 1..N : q[i] = d[i][2]
  BY ListsAre
<1>3. n \in Nat /\ DOMAIN Seen(k) = 1..n /\ \A i \in 1..n : i \in 1..N
  BY <1>1, <1>2
<1>4. ASSUME NEW i \in 1..n PROVE Shown(Seen(k)[i][2], k) = q[i] /\ q[i] \in Seq(Pairs)
  <2>1. i \in 1..N
    BY <1>3
  <2>2. Holds(d[i][2], Part(gomap, d[i][1])) /\ d[i][2] # <<>>
    BY <2>1 DEF MapperInv, Buckets
  <2>3. ~(Len(d[i][2]) > 1 /\ Mappers!Has(d[i][2], k))
    BY <2>1
  <2>4. Shown(d[i][2], k) = d[i][2]
    BY <2>2, <2>3, ShownIs
  <2> HIDE DEF q, n, N
  <2>5. Seen(k)[i] = d[i] /\ q[i] = d[i][2]
    BY <2>1, <1>1, <1>2
  <2> QED
    BY <2>2, <2>4, <2>5 DEF Holds
<1> HIDE DEF q, n, N
<1>5. r \in [1..n -> Seq(Pairs)] /\ \A i \in 1..n : r[i] = q[i]
  BY <1>3, <1>4
<1> HIDE DEF r
<1>6. r \in Seq(Seq(Pairs)) /\ Len(r) = n
  BY <1>3, <1>5
<1>7. Mappers!HAVisit({k}) = Mappers!FlattenSeq(r) /\ Mappers!HAVisitAll = Mappers!FlattenSeq(q)
  BY HAVisitIs, VisitAllIs DEF r, q
<1>8. CASE N = 0
  <2>1. n = 0
    BY <1>1, <1>2, <1>3, <1>8
  <2>2. Mappers!HAVisit({k}) = r /\ Mappers!HAVisitAll = q
    BY <2>1, <1>2, <1>6, <1>7, <1>8, FlattenIs
  <2>3. Mappers!IsPrefix(r, q)
    <3>1. Len(r) <= Len(q) /\ \A j \in 1..Len(r) : q[j] = r[j]
      BY <2>1, <1>2, <1>6, <1>8
    <3> QED
      BY <3>1, <1>2, <1>6, PrefixIs
  <2> QED
    BY <2>2, <2>3
<1>9. CASE N # 0
  <2>1. n \in 1..N /\ N \in n..N /\ n \in 1..n
    BY <1>1, <1>2, <1>3, <1>9
  <2>2. Mappers!HAVisit({k}) = Flat(r)[n] /\ Mappers!HAVisitAll = Flat(q)[N]
    BY <2>1, <1>1, <1>2, <1>6, <1>7, <1>9, FlattenIs
  <2>3. Flat(r)[n] = Flat(q)[n]
    BY <2>1, <1>1, <1>2, <1>5, <1>6, FlatSame
  <2>4. /\ Len(Flat(q)[n]) <= Len(Flat(q)[N])
        /\ \A j \in 1..Len(Flat(q)[n]) : Flat(q)[N][j] = Flat(q)[n][j]
    <3>1. q \in Seq(Seq(Pairs)) /\ n \in 1..Len(q) /\ N \in n..Len(q)
      BY <2>1, <1>2
    <3> QED
      BY <3>1, FlatGrows
  <2>5. Flat(q)[n] \in Seq(Pairs) /\ Flat(q)[N] \in Seq(Pairs)
    BY <2>1, <1>2, FlatIs
  <2>6. Mappers!IsPrefix(Flat(q)[n], Flat(q)[N])
    BY <2>4, <2>5, PrefixIs
  <2> QED
    BY <2>2, <2>3, <2>6
<1> QED
  BY <1>8, <1>9

\* Get finds the value of a key, or is mistaken for one that is not there.
LEMMA GetIs ==
  ASSUME MapperInv, NEW k \in Names
  PROVE  \/ Mappers!HAGet(k) = Mappers!GomapGet(k)
         \/ k \notin DOMAIN gomap /\ Mappers!Mistaken(k)
<1> DEFINE b == Find(KeysOf(d), Hash[k], Threshold)
           i == b.idx + 1
           ps == d[i][2]
           o == Part(gomap, Hash[k])
<1>1. Buckets(d, gomap) /\ DOMAIN d = 1..Len(d)
  BY BucketsAre DEF MapperInv
<1>2. /\ b.found \in BOOLEAN
      /\ b.found => i \in 1..Len(d) /\ d[i][1] = Hash[k]
      /\ ~b.found => DOMAIN o = {}
  BY <1>1, BucketTells
<1>3. Mappers!HAGet(k) = IF ~b.found THEN <<>>
                         ELSE IF Len(ps) = 1 THEN <<ps[1][2]>>
                         ELSE IF Mappers!Has(ps, k) THEN <<ps[Mappers!PlaceOf(ps, k)][2]>>
                         ELSE <<>>
  BY OneMapper, Zenon DEF Mappers!HAGet, Mappers!index
<1>4. Mappers!GomapGet(k) = IF k \in DOMAIN gomap THEN <<gomap[k]>> ELSE <<>>
  BY Zenon DEF Mappers!GomapGet
<1>5. k \in DOMAIN o <=> k \in DOMAIN gomap
  BY DEF Part
<1> HIDE DEF b, i
<1>6. CASE ~b.found
  <2>1. k \notin DOMAIN gomap
    BY <1>2, <1>5, <1>6
  <2> QED
    BY <2>1, <1>3, <1>4, <1>6
<1>7. CASE b.found
  <2>1. i \in 1..Len(d) /\ d[i][1] = Hash[k]
    BY <1>2, <1>7
  <2>2. Holds(ps, o) /\ ps # <<>> /\ (k \in DOMAIN gomap => o[k] = gomap[k])
    BY <2>1, <1>1, BucketHas
  <2> HIDE DEF o
  <2>3. Mappers!Has(ps, k) <=> k \in DOMAIN gomap
    BY <2>2, <1>5, PlaceHolds
  <2>4. k \in DOMAIN gomap => /\ Mappers!PlaceOf(ps, k) \in 1..Len(ps)
                              /\ ps[Mappers!PlaceOf(ps, k)][2] = gomap[k]
    BY <2>2, <1>5, PlaceHolds
  <2>5. CASE k \in DOMAIN gomap
    <3>1. Len(ps) = 1 => Mappers!PlaceOf(ps, k) = 1
      BY <2>4, <2>5
    <3> QED
      BY <3>1, <2>3, <2>4, <2>5, <1>3, <1>4, <1>7
  <2>6. CASE k \notin DOMAIN gomap /\ Len(ps) = 1
    <3>1. ps[1][1] # k
      <4>1. 1 \in 1..Len(ps)
        BY <2>6
      <4>2. ps[1][1] \in DOMAIN o
        BY <4>1, <2>2 DEF Holds
      <4> QED
        BY <4>2, <2>6, <1>5
    <3>2. Mappers!Mistaken(k)
      BY <3>1, <2>1, <2>6, <1>1 DEF Mappers!Mistaken
    <3> QED
      BY <3>2, <2>6
  <2>7. CASE k \notin DOMAIN gomap /\ Len(ps) # 1
    BY <2>3, <2>7, <1>3, <1>4, <1>7
  <2> QED
    BY <2>5, <2>6, <2>7
<1> QED
  BY <1>2, <1>6, <1>7

LEMMA MappersAreRight == MapperInv => Mappers!MappersAgree
<1> SUFFICES ASSUME MapperInv PROVE Mappers!MappersAgree
  OBVIOUS
<1>1. size = Mappers!Cardinality(DOMAIN gomap)
  BY OneMapper DEF MapperInv
<1>2. Len(linear) = size
  BY PairsCount DEF MapperInv
<1>3. Len(Mappers!HAVisitAll) = size
  <2> DEFINE q == Lists(d)
  <2>1. Len(q) = Len(d) /\ Len(d) \in Nat
    BY ListsAre
  <2>2. Mappers!HAVisitAll = IF Len(q) = 0 THEN q ELSE Flat(q)[Len(q)]
    BY VisitAllIs, FlattenIs
  <2>3. CASE Len(d) = 0
    <3>1. DOMAIN gomap = {}
      BY <2>3 DEF MapperInv, Buckets
    <3>2. Cardinality(DOMAIN gomap) = 0
      BY <3>1, FS_EmptySet
    <3> HIDE DEF q
    <3> QED
      BY <3>2, <2>1, <2>2, <2>3 DEF MapperInv
  <2>4. CASE Len(d) # 0
    <3>1. Len(Flat(q)[Len(d)]) = Cardinality(DOMAIN gomap)
      BY <2>4, FlatCounts DEF MapperInv
    <3> HIDE DEF q
    <3> QED
      BY <3>1, <2>1, <2>2, <2>4 DEF MapperInv
  <2> QED
    BY <2>3, <2>4
<1>4. ASSUME NEW k \in Names PROVE Mappers!LinearGet(k) = Mappers!GomapGet(k)
  <2>1. /\ Mappers!Has(linear, k) <=> k \in DOMAIN gomap
        /\ k \in DOMAIN gomap => linear[Mappers!PlaceOf(linear, k)][2] = gomap[k]
    BY PlaceHolds DEF MapperInv
  <2>2. Mappers!LinearGet(k) = IF Mappers!Has(linear, k)
                               THEN <<linear[Mappers!PlaceOf(linear, k)][2]>> ELSE <<>>
    BY Zenon DEF Mappers!LinearGet
  <2>3. Mappers!GomapGet(k) = IF k \in DOMAIN gomap THEN <<gomap[k]>> ELSE <<>>
    BY Zenon DEF Mappers!GomapGet
  <2> QED
    BY <2>1, <2>2, <2>3
<1>5. ASSUME NEW k \in Names
      PROVE  \/ Mappers!IsPrefix(Mappers!HAVisit({k}), Mappers!HAVisitAll)
             \/ \E i \in DOMAIN d : Len(d[i][2]) > 1 /\ Mappers!Has(d[i][2], k)
  <2>1. DOMAIN d = 1..Len(d)
    BY BucketsAre DEF MapperInv
  <2>2. CASE \A i \in 1..Len(d) : ~(Len(d[i][2]) > 1 /\ Mappers!Has(d[i][2], k))
    BY <2>2, VisitIsPrefix
  <2> QED
    BY <2>1, <2>2
<1> QED
  BY <1>1, <1>2, <1>3, <1>4, <1>5, GetIs, Zenon DEF Mappers!MappersAgree
=============================================================================
