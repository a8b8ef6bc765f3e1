----------------------------- MODULE Containers -----------------------------
(***************************************************************************)
(* The containers that the engine and the parser are built from, side by   *)
(* side.  They have no state in common: a behaviour is about the one that  *)
(* is under test, and leaves the others as they are.                       *)
(***************************************************************************)
EXTENDS Integers, FiniteSets

CONSTANTS
  Elements,       \* aset.Set: numbers
  MapKeys,        \* amap.Map: numbers
  Masks, Hashes,  \* mhstore.MHStore: numbers
  Words,          \* set.Set: elements; segmented.Array: keys
  Names, Hash,    \* the Mappers: keys, and the hasher
  Values,         \* what is kept in a container; bitmask.Set: the sets
  Threshold,      \* length from which a slice is searched by FindExp
  bpw, MaxNumber, \* bitmask.Set: bits per word, and a bound
  MaxData         \* segmented.Array: a bound

ASSUME NumbersAssumption ==
  Elements \subseteq Int /\ MapKeys \subseteq Int /\ Masks \subseteq Int /\ Hashes \subseteq Int

ASSUME WordsAssumption == IsFiniteSet(Words)

ASSUME BitsAssumption == bpw \in Nat \ {0} /\ MaxNumber \in Nat

ASSUME HashAssumption == Hash \in [Names -> Int]

VARIABLES
  under,                                  \* the container under test
  a, elements,                            \* aset.Set
  A, dict,                                \* amap.Map
  store, set, pairs,                      \* mhstore.MHStore
  e, index, ordered, enabled,             \* set.Set
  d, size, linear, gomap,                 \* the Mappers
  segs, lastSegStart, indexCounter, data, pending, contents,  \* segmented.Array
  memory, numbers                         \* bitmask.Set

ArraySet == INSTANCE ArraySet
ArrayMap == INSTANCE ArrayMap WITH Keys <- MapKeys
MHStore  == INSTANCE MaskHashStore
Enabling == INSTANCE EnabledSet WITH T <- Words
Mappers  == INSTANCE Mappers WITH Keys <- Names
Segments == INSTANCE SegmentedArray WITH index <- segs, Keys <- Words, Items <- Values
BitSet   == INSTANCE BitSet WITH Sets <- Values

sets == <<a, elements, A, dict, store, set, pairs>>
small == <<e, index, ordered, enabled, segs, lastSegStart, indexCounter, data, pending, contents>>
maps == <<d, size, linear, gomap>>
bits == <<memory, numbers>>
containers == <<under, sets, small, maps, bits>>

ContainersInit ==
  /\ under \in {"aset", "amap", "mhstore", "set", "mapper", "segmented", "bitmask"}
  /\ ArraySet!Init /\ ArrayMap!Init /\ MHStore!Init /\ Mappers!Init
  /\ Segments!Init /\ BitSet!Init
  /\ IF under = "set" THEN Enabling!Init
     ELSE e = 0 /\ index = <<>> /\ ordered = <<>> /\ enabled = {}

ContainersNext ==
  /\ UNCHANGED under
  /\ \/ /\ under = "aset" /\ ArraySet!Next
        /\ UNCHANGED <<A, dict, store, set, pairs, small, maps, bits>>
     \/ /\ under = "amap" /\ ArrayMap!Next
        /\ UNCHANGED <<a, elements, store, set, pairs, small, maps, bits>>
     \/ /\ under = "mhstore" /\ MHStore!Next
        /\ UNCHANGED <<a, elements, A, dict, small, maps, bits>>
     \/ /\ under = "set" /\ Enabling!Next
        /\ UNCHANGED <<sets, maps, bits>>
        /\ UNCHANGED <<segs, lastSegStart, indexCounter, data, pending, contents>>
     \/ /\ under = "segmented" /\ Segments!Next
        /\ UNCHANGED <<sets, maps, bits, e, index, ordered, enabled>>
     \/ under = "mapper" /\ Mappers!Next /\ UNCHANGED <<sets, small, bits>>
     \/ under = "bitmask" /\ BitSet!Next /\ UNCHANGED <<sets, small, maps>>

ContainersSpec == ContainersInit /\ [][ContainersNext]_containers

\* The containers that keep sorted slices (aset, amap, mhstore) answer as the
\* set, the map and the relation they stand for.
SortedSlicesAreRight ==
  /\ under = "aset" => ArraySet!IsASet
  /\ under = "amap" => ArrayMap!IsAMap
  /\ under = "mhstore" => MHStore!IsARelation

\* set.Set visits what is enabled, after any swaps (set.go:32-64).
EnabledIsEnabled == under = "set" => Enabling!EnabledIsEnabled

\* hamap and linear agree with Go's map, collisions included.
MappersAgree == under = "mapper" => Mappers!MappersAgree

\* Segments of segmented.Array keep their contents.
SegmentsKeepContents == under = "segmented" => Segments!SegmentsKeepContents

\* bitmask.Set is a set of numbers in canonical form; a set made by And is
\* expected to be the copy that the code makes.
BitSetIsASet == under = "bitmask" => BitSet!BitSetIsASet

\* And makes the intersection, as its comment says (bitmask.go:413-414).
AndIsTheIntersection == under = "bitmask" => BitSet!AndIsTheIntersection
=============================================================================
