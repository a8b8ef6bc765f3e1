-------------------------- MODULE MCFragmentGraph --------------------------
(***************************************************************************)
(* The instance of FragmentGraph for TLC.                                  *)
(***************************************************************************)
EXTENDS FragmentGraph, TLC

Symmetry == Permutations(Names)
=============================================================================
