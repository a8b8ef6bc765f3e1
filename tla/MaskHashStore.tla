--------------------------- MODULE MaskHashStore ---------------------------
(***************************************************************************)
(* mhstore.MHStore: hashes by mask.  The array store has a place for every *)
(* mask; set remembers which places are in use, so that Reset need not     *)
(* visit the others.                                                       *)
(***************************************************************************)
EXTENDS SortedSearch, FiniteSets, Functions

CONSTANTS
  Masks,          \* uint16 in the code
  Hashes,         \* uint64 in the code
  Threshold       \* 256 in the code: the length from which FindExp is used

VARIABLES
  store,    \* for every mask a sorted slice of hashes
  set,      \* the sorted masks whose slice is not empty
  pairs     \* history: what was added since the last Reset

vars == <<store, set, pairs>>

Init == store = [m \in Masks |-> <<>>] /\ set = <<>> /\ pairs = {}

Reset ==
  /\ store' = [m \in Masks |-> IF m \in Range(set) THEN <<>> ELSE store[m]]
  /\ set' = <<>> /\ pairs' = {}

Inserted(s, x) ==
  LET f == Find(s, x, Threshold) IN IF f.found THEN s ELSE PutAt(s, f.idx, x)

\* The slice of the mask is searched, then set.
Add(mask, hash) ==
  /\ store' = [store EXCEPT ![mask] = Inserted(@, hash)]
  /\ set' = Inserted(set, mask)
  /\ pairs' = pairs \cup {<<mask, hash>>}

Next == Reset \/ \E m \in Masks, h \in Hashes : Add(m, h)

Spec == Init /\ [][Next]_vars

\* Get(mask) is what was added for it since the last Reset, sorted and without
\* repetition, also for masks that were used before the Reset; Len counts the
\* masks in use.
IsARelation ==
  /\ \A m \in Masks :
       /\ Range(store[m]) = {h \in Hashes : <<m, h>> \in pairs}
       /\ \A i, j \in 1..Len(store[m]) : i < j => store[m][i] < store[m][j]
  /\ Len(set) = Cardinality({p[1] : p \in pairs})
=============================================================================
