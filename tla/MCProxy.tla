------------------------------- MODULE MCProxy -------------------------------
(***************************************************************************)
(* Instances of Proxy for TLC.                                             *)
(***************************************************************************)
EXTENDS Proxy, TLC

\* Two services.  The first has two templates and forwards reduced.
MCServices == <<"A", "B">>
MCPathOf == [s \in {"A", "B"} |-> IF s = "A" THEN "/a" ELSE "/b"]
MCTemplatesOf    == [s \in {"A", "B"} |-> IF s = "A" THEN {"t1", "t2"} ELSE {"tb"}]
MCForwardReduced == [s \in {"A", "B"} |-> s = "A"]

Symmetry == Permutations(Requests) \cup Permutations(Matchers)

\* The same without symmetry, which liveness does not allow: the pools begin
\* with certain matchers.
MCInit ==
  /\ Init
  /\ engine = [m \in Matchers |-> CASE m = "m1" -> "A" [] m = "m2" -> "B" [] OTHER -> None]

MCFairSpec == MCInit /\ [][Next]_vars /\ Fairness
=============================================================================
