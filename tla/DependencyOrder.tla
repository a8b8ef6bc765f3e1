-------------------------- MODULE DependencyOrder --------------------------
(***************************************************************************)
(* What the inspector of fragments promises the parser: told which         *)
(* fragment uses which, it answers with an order in which every fragment   *)
(* comes after those it uses, or with a cycle, or that there are more      *)
(* than Limit of them.  FragmentGraph implements it.                       *)
(***************************************************************************)
EXTENDS Naturals, Sequences

CONSTANTS Names, Limit

\* uses holds <<x, y>> when x is told to use y.
VARIABLES uses, answer, order, path

vars == <<uses, answer, order, path>>

Fragments == {e[1] : e \in uses} \cup {e[2] : e \in uses}

\* Every fragment is in o once, after the fragments it uses.
InOrder(o) ==
  /\ o \in Seq(Fragments)
  /\ \A f \in Fragments : \E k \in DOMAIN o : o[k] = f
  /\ \A k, l \in DOMAIN o : o[k] = o[l] => k = l
  /\ \A k, l \in DOMAIN o : <<o[k], o[l]>> \in uses => l < k

\* Each element of p uses the next one, and the last one is the first.
IsCycle(p) ==
  /\ p \in Seq(Fragments) /\ Len(p) >= 2
  /\ p[1] = p[Len(p)]
  /\ \A k \in 1..Len(p)-1 : <<p[k], p[k+1]>> \in uses

\* There are more than Limit elements in fs.
TooMany(fs) ==
  \E f \in [1..Limit+1 -> fs] : \A k, l \in 1..Limit+1 : f[k] = f[l] => k = l

Init == uses = {} /\ answer = "none" /\ order = <<>> /\ path = <<>>

Ask == uses' = {} /\ answer' = "none" /\ order' = <<>> /\ path' = <<>>

Tell(x, y) ==
  /\ answer = "none"
  /\ uses' = uses \cup {<<x, y>>}
  /\ UNCHANGED <<answer, order, path>>

AnswerOrder ==
  /\ answer = "none" /\ answer' = "ordered"
  /\ InOrder(order')
  /\ UNCHANGED <<uses, path>>

AnswerCycle ==
  /\ answer = "none" /\ answer' = "cycle"
  /\ IsCycle(path')
  /\ UNCHANGED <<uses, order>>

AnswerLimit(x, y) ==
  /\ answer = "none" /\ answer' = "limit"
  /\ uses' = uses \cup {<<x, y>>}
  /\ TooMany(Fragments')
  /\ UNCHANGED <<order, path>>

Next ==
  \/ Ask \/ AnswerOrder \/ AnswerCycle
  \/ \E x, y \in Names : Tell(x, y) \/ AnswerLimit(x, y)

Spec == Init /\ [][Next]_vars
=============================================================================
