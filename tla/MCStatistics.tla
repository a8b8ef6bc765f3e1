---------------------------- MODULE MCStatistics ----------------------------
(***************************************************************************)
(* Instances of Statistics for TLC.                                        *)
(***************************************************************************)
EXTENDS Statistics, TLC

\* The calls of Update are interchangeable.
Symmetry == Permutations(Updates)
=============================================================================
