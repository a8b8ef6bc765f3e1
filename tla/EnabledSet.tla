----------------------------- MODULE EnabledSet -----------------------------
(***************************************************************************)
(* set.Set: a set whose elements are enabled and disabled.  The enabled    *)
(* ones are the first e of ordered; enabling and disabling swap elements   *)
(* across that border.                                                     *)
(***************************************************************************)
EXTENDS Integers, SequencesExt, FiniteSets

CONSTANT T          \* what elements are

VARIABLES
  e,        \* number of enabled elements
  index,    \* from the elements to their place in ordered
  ordered,  \* the elements
  enabled   \* history: what was enabled and not disabled

vars == <<e, index, ordered, enabled>>

\* New(u...) for a list u without repetition.
Init ==
  /\ e = 0 /\ enabled = {}
  /\ ordered \in SetToAllKPermutations(T)
  /\ index = [t \in ToSet(ordered) |-> CHOOSE i \in 0..Len(ordered)-1 : ordered[i+1] = t]

Add(t) ==
  /\ IF t \in DOMAIN index
     THEN UNCHANGED <<index, ordered>>
     ELSE /\ index' = [x \in DOMAIN index \cup {t} |->
                         IF x = t THEN Len(ordered) ELSE index[x]]
          /\ ordered' = Append(ordered, t)
  /\ UNCHANGED <<e, enabled>>

\* t and the element at place i change places.
Swap(t, i) ==
  LET other == ordered[i + 1] IN
  /\ ordered' = [ordered EXCEPT ![index[other] + 1] = t, ![index[t] + 1] = other]
  /\ index' = [index EXCEPT ![t] = index[other], ![other] = index[t]]

Disable_LastStays(t) ==
  /\ t \in DOMAIN index /\ index[t] < e
  /\ e' = e - 1 /\ enabled' = enabled \ {t}
  /\ UNCHANGED <<index, ordered>>

Disable(t) ==
  /\ t \in DOMAIN index /\ index[t] < e
  /\ e' = e - 1 /\ enabled' = enabled \ {t}
  /\ Swap(t, e - 1)

Enable(t) ==
  /\ t \in DOMAIN index /\ index[t] > e - 1
  /\ e' = e + 1 /\ enabled' = enabled \cup {t}
  /\ Swap(t, e)

Reset == e' = 0 /\ enabled' = {} /\ UNCHANGED <<index, ordered>>

Next == Reset \/ \E t \in T : Add(t) \/ Disable(t) \/ Enable(t)

Spec == Init /\ [][Next]_vars

\* After any swaps VisitEnabled visits what is enabled and Enabled counts it;
\* index is the inverse of ordered, without which the next swap would exchange
\* the wrong elements.
EnabledIsEnabled ==
  /\ {ordered[i] : i \in 1..e} = enabled /\ Cardinality(enabled) = e
  /\ \A t \in DOMAIN index : ordered[index[t] + 1] = t
  /\ Len(ordered) = Cardinality(DOMAIN index)
=============================================================================
