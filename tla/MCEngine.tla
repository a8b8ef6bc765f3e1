------------------------------ MODULE MCEngine ------------------------------
(***************************************************************************)
(* The rules map with the maker of its query parts, and the containers     *)
(* that the engine is built from, side by side for TLC.                    *)
(***************************************************************************)
EXTENDS Containers, RulesMap, TLC

\* Two names collide with each other.
MCHash == [k \in Names |-> CASE k \in {"a", "b"} -> 7 [] k = "c" -> 3 [] OTHER -> 5]

Samples == INSTANCE MCQueries
SampleQueries == Samples!Operations
SampleServices == Samples!SomeServices

engineVars == <<containers, allvars>>

NoContainers ==
  /\ under = "rmap"
  /\ ArraySet!Init /\ ArrayMap!Init /\ MHStore!Init /\ Mappers!Init
  /\ Segments!Init /\ BitSet!Init
  /\ e = 0 /\ index = <<>> /\ ordered = <<>> /\ enabled = {}

EngineInit == (ContainersInit \/ NoContainers) /\ MapInit

EngineNext ==
  \/ ContainersNext /\ UNCHANGED allvars
  \/ under = "rmap" /\ MapNext /\ UNCHANGED containers

EngineSpec == EngineInit /\ [][EngineNext]_engineVars
=============================================================================
