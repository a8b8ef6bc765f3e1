--------------------------- MODULE SegmentedArray ---------------------------
(***************************************************************************)
(* segmented.Array: one slice cut into segments with keys.  The parser     *)
(* collects the values of variables and the contents of fragments in it.   *)
(* Its index is a hamap.Map, taken as the map that Mappers shows it to be. *)
(***************************************************************************)
EXTENDS Integers, Sequences, FiniteSets

CONSTANTS
  Keys, Items,
  MaxData         \* bound: items appended between two Resets

VARIABLES
  index,         \* from keys to segments
  lastSegStart,
  indexCounter,
  data,
  pending,       \* history: what was appended since the last segment
  contents       \* history: what was pending for each key at its Cut

vars == <<index, lastSegStart, indexCounter, data, pending, contents>>

NoEntries == [k \in {} |-> 0]
With(f, k, v) == [x \in DOMAIN f \cup {k} |-> IF x = k THEN v ELSE f[x]]

Init ==
  /\ index = NoEntries /\ contents = NoEntries /\ pending = <<>>
  /\ lastSegStart = 0 /\ indexCounter = 0 /\ data = <<>>

Reset_KeepsStart ==
  /\ index' = NoEntries /\ contents' = NoEntries /\ pending' = <<>>
  /\ indexCounter' = 0 /\ data' = <<>>
  /\ UNCHANGED lastSegStart

Reset ==
  /\ index' = NoEntries /\ contents' = NoEntries /\ pending' = <<>>
  /\ lastSegStart' = 0 /\ indexCounter' = 0 /\ data' = <<>>

AppendItem(t) ==
  /\ Len(data) < MaxData
  /\ data' = Append(data, t) /\ pending' = Append(pending, t)
  /\ UNCHANGED <<index, lastSegStart, indexCounter, contents>>

\* A key that is there stays as it is, and so does what was appended: it will
\* belong to the next segment.
CutKnown(key) == key \in DOMAIN index /\ UNCHANGED vars

CutNew(key) ==
  /\ key \notin DOMAIN index
  /\ index' = With(index, key,
       [Index |-> indexCounter, Start |-> lastSegStart, End |-> Len(data)])
  /\ lastSegStart' = Len(data)
  /\ indexCounter' = indexCounter + 1
  /\ contents' = With(contents, key, pending) /\ pending' = <<>>
  /\ UNCHANGED data

Cut(key) == CutKnown(key) \/ CutNew(key)

GetSegment(s) == SubSeq(data, s.Start + 1, s.End)

\* A segment, or one with the index -1.
Get(key) == IF key \in DOMAIN index THEN index[key]
            ELSE [Index |-> -1, Start |-> 0, End |-> 0]

\* GetItems: the items of a key, or nil.
HasItems(key) == key \in DOMAIN index
GetItems(key) == IF HasItems(key) THEN GetSegment(index[key]) ELSE <<>>

Next == Reset \/ (\E t \in Items : AppendItem(t)) \/ (\E k \in Keys : Cut(k))

Spec == Init /\ [][Next]_vars

\* A segment keeps its contents while others are appended, cut, or cut again
\* under a key that is there, segments of no length included; the segments
\* with what is pending make up the slice, and their indices number them in
\* the order of their cuts.
SegmentsKeepContents ==
  /\ \A k \in DOMAIN index : GetItems(k) = contents[k] /\ Get(k).Index < indexCounter
  /\ \A k, l \in DOMAIN index :
       index[k].Index < index[l].Index => index[k].End <= index[l].Start
  /\ Cardinality(DOMAIN index) = indexCounter
  /\ \A k \in DOMAIN index : index[k].End <= lastSegStart
=============================================================================
