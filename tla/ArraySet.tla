------------------------------ MODULE ArraySet ------------------------------
(***************************************************************************)
(* aset.Set: a set of numbers kept as a sorted slice.                      *)
(***************************************************************************)
EXTENDS SortedSearch, FiniteSets, Functions

CONSTANTS
  Elements,       \* numbers that are added
  Threshold       \* 256 in the code: the length from which FindExp is used

VARIABLES
  a,        \* the slice
  elements  \* history: what was added and not deleted

vars == <<a, elements>>

Init == a = <<>> /\ elements = {}

Reset == a' = <<>> /\ elements' = {}

Add(el) ==
  LET f == Find(a, el, Threshold) IN
  /\ a' = IF f.found THEN a ELSE PutAt(a, f.idx, el)
  /\ elements' = elements \cup {el}

\* Delete is by index; the index comes from IndexOf.
Delete(i) ==
  /\ i \in 0..Len(a) - 1
  /\ a' = CutAt(a, i)
  /\ elements' = elements \ {a[i + 1]}

\* Find in the code.
IndexOf(el) == LET f == Find(a, el, Threshold) IN IF f.found THEN f.idx ELSE -1

Next ==
  \/ Reset
  \/ \E el \in Elements : Add(el)
  \/ \E i \in 0..Cardinality(Elements) : Delete(i)

Spec == Init /\ [][Next]_vars

\* The slice has each element once, in ascending order, and IndexOf finds the
\* elements and nothing else, whichever of the searches (aset.go:94-128) the
\* length of the slice selects.
IsASet ==
  /\ \A i, j \in 1..Len(a) : i < j => a[i] < a[j]
  /\ Range(a) = elements
  /\ \A el \in Elements :
       IF el \in elements THEN IndexOf(el) >= 0 /\ a[IndexOf(el) + 1] = el
                          ELSE IndexOf(el) = -1
=============================================================================
