--------------------------- MODULE FragmentGraph ---------------------------
(***************************************************************************)
(* Inspector.Make of gqlparse/internal/graph: it numbers the fragments of  *)
(* a request, builds the graph of who spreads whom, and visits it depth    *)
(* first, reporting the fragments in the order in which the parser has to  *)
(* construct them, or a cycle.  One inspector serves every call of its     *)
(* parser; its arrays are reused.                                          *)
(*                                                                         *)
(* Fragments are numbered from 1, in Go from 0.  The list of edges is      *)
(* chosen edge by edge, as the loop that reads it goes.                    *)
(***************************************************************************)
EXTENDS Naturals, Sequences, FiniteSets

CONSTANTS
  Names,          \* names of fragments
  MaxFragments,   \* size of the arrays
  MaxEdges        \* bound: different edges in one call

ASSUME FragmentGraphAssumption == MaxFragments \in Nat \ {0} /\ MaxEdges \in Nat

VARIABLES
  names,     \* names of the fragments, by number; n is its length
  g,         \* pairs of numbers: the entries of the matrix that are true
  cl,        \* colours: 0 not visited, 1 on the stack, 2 left
  stack,     \* the path from the root to the fragment being visited
  to,        \* next fragment to look at from the top of the stack
  pc,        \* place in Make, or the answer of the last call
  ordered,   \* fragments handed to the callback ordered
  path,      \* fragments handed to onCyclePathElement
  edges      \* history: the edges of this call, by name

numbering == <<names, g, edges>>
visit == <<cl, stack, to>>
handed == <<ordered, path>>
vars == <<names, g, cl, stack, to, pc, ordered, path, edges>>

Numbers == 1..MaxFragments
n == Len(names)
Answers == {"ordered", "cycle", "limit"}

Init ==
  /\ names = <<>> /\ g = {} /\ cl = [k \in Numbers |-> 0]
  /\ stack = <<>> /\ to = 1
  /\ pc = "idle" /\ ordered = <<>> /\ path = <<>> /\ edges = {}

\* A call: reset clears the part of the matrix that the last call used.
\* The parser empties what it collects in the callbacks.
Begin_NotReset ==
  /\ pc \in {"idle"} \cup Answers /\ pc' = "edges"
  /\ names' = <<>> /\ edges' = {} /\ ordered' = <<>> /\ path' = <<>>
  /\ UNCHANGED <<g, visit>>

Begin ==
  /\ pc \in {"idle"} \cup Answers /\ pc' = "edges"
  /\ g' = g \ ((1..n) \X (1..n))
  /\ names' = <<>> /\ edges' = {} /\ ordered' = <<>> /\ path' = <<>>
  /\ UNCHANGED visit

-----------------------------------------------------------------------------
(* The graph.                                                              *)

Known(s, x) == \E k \in 1..Len(s) : s[k] = x
Numbered(s, x) == IF Known(s, x) THEN s ELSE Append(s, x)
Number(s, x) == CHOOSE k \in 1..Len(s) : s[k] = x

TakeEdge(x, y) ==
  /\ pc = "edges" /\ Cardinality(edges) < MaxEdges
  /\ edges' = edges \cup {<<x, y>>}
  /\ UNCHANGED <<visit, handed>>

AddEdge_LateCheck(x, y) ==
  LET ns == Numbered(Numbered(names, x), y) IN
  /\ TakeEdge(x, y)
  /\ Len(names) <= MaxFragments
  /\ names' = ns
  /\ g' = g \cup {<<Number(ns, x), Number(ns, y)>>}
  /\ UNCHANGED pc

AddEdge(x, y) ==
  LET ns == Numbered(Numbered(names, x), y) IN
  /\ TakeEdge(x, y)
  /\ Len(ns) <= MaxFragments
  /\ names' = ns
  /\ g' = g \cup {<<Number(ns, x), Number(ns, y)>>}
  /\ UNCHANGED pc

\* An end point too many; the other one may have been numbered.
LimitExceeded(x, y) ==
  LET ns == Numbered(Numbered(names, x), y) IN
  /\ TakeEdge(x, y)
  /\ Len(ns) > MaxFragments
  /\ names' = SubSeq(ns, 1, MaxFragments)
  /\ pc' = "limit"
  /\ UNCHANGED g

EndOfEdges_KeepsColours ==
  /\ pc = "edges" /\ pc' = "roots"
  /\ UNCHANGED <<numbering, visit, handed>>

EndOfEdges ==
  /\ pc = "edges" /\ pc' = "roots"
  /\ cl' = [k \in Numbers |-> 0]
  /\ UNCHANGED <<numbering, stack, to, handed>>

-----------------------------------------------------------------------------
(* The visit.                                                              *)

\* The outer loop looks for the next fragment that was not visited.
EnterRoot(k) ==
  /\ pc = "roots" /\ pc' = "scan"
  /\ k \in 1..n /\ cl[k] = 0
  /\ \A i \in 1..k-1 : cl[i] # 0
  /\ stack' = <<k>> /\ to' = 1
  /\ cl' = [cl EXCEPT ![k] = 1]
  /\ UNCHANGED <<numbering, handed>>

Finish ==
  /\ pc = "roots" /\ pc' = "ordered"
  /\ \A k \in 1..n : cl[k] # 0
  /\ UNCHANGED <<numbering, visit, handed>>

from == stack[Len(stack)]

\* The inner loop (85-105): j is the next fragment that the top of the stack
\* spreads, apart from those that were left.
Open(j) == <<from, j>> \in g /\ cl[j] # 2
NextSpread(j) == j \in to..n /\ Open(j) /\ \A i \in to..j-1 : ~Open(i)

Descend_KeepsTo(j) ==
  /\ pc = "scan" /\ NextSpread(j)
  /\ cl[j] = 0
  /\ stack' = Append(stack, j) /\ to' = j
  /\ cl' = [cl EXCEPT ![j] = 1]
  /\ UNCHANGED <<numbering, pc, handed>>

Descend(j) ==
  /\ pc = "scan" /\ NextSpread(j)
  /\ cl[j] = 0
  /\ stack' = Append(stack, j) /\ to' = 1
  /\ cl' = [cl EXCEPT ![j] = 1]
  /\ UNCHANGED <<numbering, pc, handed>>

\* The part of the stack that starts with j, and j again.
Cycle(j) ==
  /\ pc = "scan" /\ pc' = "cycle" /\ NextSpread(j)
  /\ cl[j] = 1
  /\ \E x \in 1..Len(stack) :
       /\ stack[x] = j
       /\ path' = Append(SubSeq(stack, x, Len(stack)), j)
  /\ UNCHANGED <<numbering, visit, ordered>>

\* Back in the one below, the loop goes on behind the fragment that is left.
Leave ==
  /\ pc = "scan" /\ \A j \in to..n : ~Open(j)
  /\ cl' = [cl EXCEPT ![from] = 2] /\ to' = from + 1
  /\ ordered' = Append(ordered, from)
  /\ stack' = SubSeq(stack, 1, Len(stack) - 1)
  /\ pc' = IF Len(stack) > 1 THEN "scan" ELSE "roots"
  /\ UNCHANGED <<numbering, path>>

-----------------------------------------------------------------------------

Next ==
  \/ Begin \/ EndOfEdges \/ Finish \/ Leave
  \/ \E x, y \in Names : AddEdge(x, y) \/ LimitExceeded(x, y)
  \/ \E k \in Numbers : EnterRoot(k) \/ Descend(k) \/ Cycle(k)

Spec == Init /\ [][Next]_vars

\* Every variable has its type; numbers are within the arrays.
TypeOK ==
  /\ names \in Seq(Names) /\ n <= MaxFragments
  /\ g \subseteq Numbers \X Numbers
  /\ cl \in [Numbers -> 0..2]
  /\ stack \in Seq(Numbers)
  /\ to \in 1..MaxFragments+1
  /\ pc \in {"idle", "edges", "roots", "scan"} \cup Answers
  /\ ordered \in Seq(Numbers) /\ path \in Seq(Numbers)
  /\ edges \subseteq Names \X Names

\* The matrix holds the edges of this call and nothing of the calls before,
\* although reset (26-34) clears only the part that the last call numbered,
\* which includes calls that gave up at the limit (52, 61).
GraphIsOfThisCall ==
  pc \in {"roots", "scan", "ordered", "cycle"} =>
    /\ g \subseteq (1..n) \X (1..n)
    /\ edges = {<<names[e[1]], names[e[2]]>> : e \in g}

\* At any time, also when a cycle is reported later, whatever has been handed
\* to ordered (107) comes after everything it spreads: the parser constructs
\* it from what it has constructed already.
SpreadsComeFirst ==
  \A k \in 1..Len(ordered) : \A j \in 1..n :
    <<ordered[k], j>> \in g => \E l \in 1..k-1 : ordered[l] = j

NamesOf(s) == [k \in 1..Len(s) |-> names[s[k]]]

Order == INSTANCE DependencyOrder WITH
  Limit  <- MaxFragments,
  uses   <- edges,
  answer <- IF pc \in Answers THEN pc ELSE "none",
  order  <- IF pc = "ordered" THEN NamesOf(ordered) ELSE <<>>,
  path   <- IF pc = "cycle" THEN NamesOf(path) ELSE <<>>

\* Make answers with an order exactly when there is one, else with a cycle
\* that exists, and the order is complete and has every fragment once: the
\* gotos of 75-113, which resume a fragment behind the child that was left,
\* implement DependencyOrder.
AnswersAreRight == Order!Spec
=============================================================================
