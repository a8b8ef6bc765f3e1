------------------------------ MODULE ArrayMap ------------------------------
(***************************************************************************)
(* amap.Map: a map from numbers, kept as a slice sorted by key.  The rules *)
(* map counts matches and combinations of templates in it.                 *)
(***************************************************************************)
EXTENDS SortedSearch, FiniteSets

CONSTANTS Keys, Values,
  Threshold       \* 256 in the code: the length from which findExp is used

VARIABLES
  A,      \* the slice: pairs of key and value
  dict    \* history: the map that A stands for

vars == <<A, dict>>

NoEntries == [k \in {} |-> 0]
With(f, k, v) == [x \in DOMAIN f \cup {k} |-> IF x = k THEN v ELSE f[x]]
Without(f, k) == [x \in DOMAIN f \ {k} |-> f[x]]

KeysOf(s) == [i \in DOMAIN s |-> s[i][1]]
Search(k) == Find(KeysOf(A), k, Threshold)

Init == A = <<>> /\ dict = NoEntries

Reset == A' = <<>> /\ dict' = NoEntries

Set(k, v) ==
  LET f == Search(k) IN
  /\ A' = IF f.found THEN [A EXCEPT ![f.idx + 1] = <<k, v>>]
                     ELSE PutAt(A, f.idx, <<k, v>>)
  /\ dict' = With(dict, k, v)

\* The callback turns the value of a key that is there into w.
SetFn(k, v, w) ==
  LET f == Search(k) IN
  /\ A' = IF f.found THEN [A EXCEPT ![f.idx + 1] = <<k, w>>]
                     ELSE PutAt(A, f.idx, <<k, v>>)
  /\ dict' = With(dict, k, IF k \in DOMAIN dict THEN w ELSE v)

Index(k) == LET f == Search(k) IN IF f.found THEN f.idx ELSE -1

Delete(k) ==
  /\ A' = IF Index(k) > -1 THEN CutAt(A, Index(k)) ELSE A
  /\ dict' = Without(dict, k)

DeleteByIndex(i) ==
  /\ A' = IF i < 0 \/ i >= Len(A) THEN A ELSE CutAt(A, i)
  /\ dict' = IF i \in 0..Len(A) - 1 THEN Without(dict, A[i + 1][1]) ELSE dict

\* A value, or none.
Get(k) == LET f == Search(k) IN IF f.found THEN <<A[f.idx + 1][2]>> ELSE <<>>

Next ==
  \/ Reset
  \/ \E k \in Keys : Delete(k)
  \/ \E i \in -1..Cardinality(Keys) : DeleteByIndex(i)
  \/ \E k \in Keys, v \in Values : Set(k, v) \/ \E w \in Values : SetFn(k, v, w)

Spec == Init /\ [][Next]_vars

\* Whatever was set and deleted, in whatever order, Get and Len answer as a
\* map does, and Visit has each key once, in ascending order: a slice that is
\* shifted by one too many or too few, or a search that stops short, would
\* lose or repeat a key.
IsAMap ==
  /\ \A i, j \in 1..Len(A) : i < j => A[i][1] < A[j][1]
  /\ Len(A) = Cardinality(DOMAIN dict)
  /\ \A k \in Keys : Get(k) = IF k \in DOMAIN dict THEN <<dict[k]>> ELSE <<>>
=============================================================================
