------------------------------ MODULE Mappers ------------------------------
(***************************************************************************)
(* The implementations of container.Mapper: hamap, which the program uses  *)
(* nearly everywhere, linear and gomap.  All three are given the same      *)
(* operations; gomap, Go's own map, is what the others have to agree with. *)
(*                                                                         *)
(* hamap keeps buckets sorted by the hash of their keys.  A bucket holds   *)
(* its first pair and a linked list of those with the same hash; here it   *)
(* is a sequence of pairs.                                                 *)
(***************************************************************************)
EXTENDS SortedSearch, SequencesExt

CONSTANTS
  Keys, Values,
  Hash,           \* the hasher
  Threshold       \* 256 in the code: the length from which findExp is used

VARIABLES
  d, size,  \* hamap: buckets <<hash, pairs>>, number of keys
  linear,   \* linear: pairs in no order
  gomap     \* gomap

vars == <<d, size, linear, gomap>>

NoEntries == [k \in {} |-> 0]

Init == d = <<>> /\ size = 0 /\ linear = <<>> /\ gomap = NoEntries

KeysOf(pairs) == [i \in DOMAIN pairs |-> pairs[i][1]]
PlaceOf(pairs, k) == CHOOSE i \in DOMAIN pairs : pairs[i][1] = k
Has(pairs, k) == k \in ToSet(KeysOf(pairs))
index(k) == Find(KeysOf(d), Hash[k], Threshold)

-----------------------------------------------------------------------------
(* hamap                                                                   *)

HAReset == d' = <<>> /\ size' = 0

\* The pairs of a bucket after k was set: at its place, or at the end.
Chained(pairs, k, v) ==
  IF Has(pairs, k) THEN [pairs EXCEPT ![PlaceOf(pairs, k)] = <<k, v>>]
                   ELSE Append(pairs, <<k, v>>)

HASet_CountsPairs(k, v) ==
  LET b == index(k) IN
  IF b.found
  THEN /\ d' = [d EXCEPT ![b.idx + 1][2] = Chained(@, k, v)]
       /\ size' = size + 1
  ELSE /\ d' = PutAt(d, b.idx, <<Hash[k], <<<<k, v>>>>>>)
       /\ size' = size + 1

HASet(k, v) ==
  LET b == index(k) IN
  IF b.found
  THEN /\ d' = [d EXCEPT ![b.idx + 1][2] = Chained(@, k, v)]
       /\ size' = IF Has(d[b.idx + 1][2], k) THEN size ELSE size + 1
  ELSE /\ d' = PutAt(d, b.idx, <<Hash[k], <<<<k, v>>>>>>)
       /\ size' = size + 1

\* fn makes v when it is given nil, and turns a value that is there into w.
HASetFn(k, v, w) ==
  LET b == index(k) IN
  IF b.found /\ Has(d[b.idx + 1][2], k)
  THEN /\ d' = [d EXCEPT ![b.idx + 1][2] = Chained(@, k, w)]
       /\ UNCHANGED size
  ELSE HASet(k, v)

\* The only pair of a bucket goes with it; of several one is unlinked.
HADelete(k) ==
  LET b == index(k)
      pairs == d[b.idx + 1][2]
  IN IF ~b.found \/ ~Has(pairs, k) THEN UNCHANGED <<d, size>>
     ELSE /\ size' = size - 1
          /\ d' = IF Len(pairs) = 1 THEN CutAt(d, b.idx)
                  ELSE [d EXCEPT ![b.idx + 1][2] = RemoveAt(@, PlaceOf(@, k))]

\* Get and GetFn look for the key only where a bucket has several: <<value>>,
\* or nothing.
HAGet(k) ==
  LET b == index(k)
      pairs == d[b.idx + 1][2]
  IN IF ~b.found THEN <<>>
     ELSE IF Len(pairs) = 1 THEN <<pairs[1][2]>>
     ELSE IF Has(pairs, k) THEN <<pairs[PlaceOf(pairs, k)][2]>>
     ELSE <<>>

HAGetFn(k) == HAGet(k)

\* GetFn with a callback that writes w.
HAUpdate(k, w) ==
  LET b == index(k)
      pairs == d[b.idx + 1][2]
  IN /\ b.found /\ (Len(pairs) = 1 \/ Has(pairs, k))
     /\ d' = [d EXCEPT ![b.idx + 1][2] =
                [@ EXCEPT ![IF Len(@) = 1 THEN 1 ELSE PlaceOf(@, k)][2] = w]]
     /\ UNCHANGED size

\* VisitAll: the pairs in the order of their hashes.
HAVisitAll == FlattenSeq([i \in DOMAIN d |-> d[i][2]])

\* Visit with a callback that stops at the keys in S: a stop inside a bucket
\* of several ends that bucket only.
HAVisit(S) ==
  LET UpTo(pairs) == SelectInSeq(pairs, LAMBDA p : p[1] \in S)
      Cut(pairs) == IF UpTo(pairs) = 0 THEN pairs ELSE SubSeq(pairs, 1, UpTo(pairs))
      Stops(b) == Len(b[2]) = 1 /\ b[2][1][1] \in S
      last == SelectInSeq(d, Stops)
      seen == IF last = 0 THEN d ELSE SubSeq(d, 1, last)
  IN FlattenSeq([i \in DOMAIN seen |-> Cut(seen[i][2])])

-----------------------------------------------------------------------------
(* linear                                                                  *)

LinearSet(k, v) == linear' = Chained(linear, k, v)

\* The last pair takes the place of the one that goes.
LinearDelete(k) ==
  linear' = IF Has(linear, k)
            THEN Front([linear EXCEPT ![PlaceOf(linear, k)] = Last(linear)])
            ELSE linear

LinearGet(k) ==
  IF Has(linear, k) THEN <<linear[PlaceOf(linear, k)][2]>> ELSE <<>>

-----------------------------------------------------------------------------
(* gomap                                                                   *)

GomapSet(k, v) ==
  gomap' = [x \in DOMAIN gomap \cup {k} |-> IF x = k THEN v ELSE gomap[x]]

GomapDelete(k) == gomap' = [x \in DOMAIN gomap \ {k} |-> gomap[x]]

GomapGet(k) == IF k \in DOMAIN gomap THEN <<gomap[k]>> ELSE <<>>

-----------------------------------------------------------------------------

Reset == HAReset /\ linear' = <<>> /\ gomap' = NoEntries

Set(k, v) == HASet(k, v) /\ LinearSet(k, v) /\ GomapSet(k, v)

Delete(k) == HADelete(k) /\ LinearDelete(k) /\ GomapDelete(k)

\* SetFn and GetFn are hamap's alone; the others are told the outcome.  GetFn
\* is called with a callback that writes for keys that are there.
SetFn(k, v, w) ==
  LET x == IF k \in DOMAIN gomap THEN w ELSE v IN
  HASetFn(k, v, w) /\ LinearSet(k, x) /\ GomapSet(k, x)

GetFn(k, w) ==
  k \in DOMAIN gomap /\ HAUpdate(k, w) /\ LinearSet(k, w) /\ GomapSet(k, w)

Next ==
  \/ Reset
  \/ \E k \in Keys :
       \/ Delete(k)
       \/ \E v \in Values : Set(k, v) \/ GetFn(k, v)
       \/ \E v, w \in Values : SetFn(k, v, w)

Spec == Init /\ [][Next]_vars

\* Another key alone in the bucket of k: its value is taken for k's
\* (hamap.go:169, 187).
Mistaken(k) ==
  \E i \in DOMAIN d :
    d[i][1] = Hash[k] /\ Len(d[i][2]) = 1 /\ d[i][2][1][1] # k

\* Whatever was set, deleted and reset, with however many collisions, hamap
\* and linear hold the pairs that Go's map holds, each once, and find them; a
\* visit of hamap that is told to stop has seen a prefix of all there is.  The
\* exceptions are what the code does: an absent key is found if it collides
\* with a key that is alone in its bucket, and a visit that stops in a bucket
\* of several goes on with the next one (hamap.go:256).
MappersAgree ==
  /\ size = Cardinality(DOMAIN gomap)
  /\ Len(HAVisitAll) = size /\ Len(linear) = size
  /\ \A k \in Keys :
       /\ LinearGet(k) = GomapGet(k)
       /\ HAGet(k) = GomapGet(k) \/ (k \notin DOMAIN gomap /\ Mistaken(k))
       /\ \/ IsPrefix(HAVisit({k}), HAVisitAll)
          \/ \E i \in DOMAIN d : Len(d[i][2]) > 1 /\ Has(d[i][2], k)
=============================================================================
