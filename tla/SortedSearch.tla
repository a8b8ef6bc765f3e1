---------------------------- MODULE SortedSearch ----------------------------
(***************************************************************************)
(* The two searches in a sorted slice that package aset exports, and amap  *)
(* and hamap repeat.  Slices are sequences; the indices l, r and idx are   *)
(* the ones of Go, which start at 0.                                       *)
(***************************************************************************)
EXTENDS Integers, Sequences

\* Binary search between l and r: where x is, or where it belongs.
FindBin(e, x, l, r) ==
  LET find[p \in Nat \X Int] ==
        LET lo == p[1]
            hi == p[2]
            m  == lo + (hi - lo) \div 2
        IN IF lo > hi THEN [idx |-> lo, found |-> FALSE]
           ELSE IF e[m + 1] = x THEN [idx |-> m, found |-> TRUE]
           ELSE IF e[m + 1] > x THEN find[<<lo, m - 1>>] ELSE find[<<m + 1, hi>>]
  IN find[<<l, r>>]

\* The right bound is doubled until it is not below x.
FindExp_BoundInclusive(e, x) ==
  LET bound[r \in Nat] == IF r < Len(e) /\ e[r + 1] < x THEN bound[2 * r] ELSE r
      r == bound[1]
  IN FindBin(e, x, r, IF r < Len(e) THEN r ELSE Len(e) - 1)

FindExp(e, x) ==
  LET bound[r \in Nat] == IF r < Len(e) /\ e[r + 1] < x THEN bound[2 * r] ELSE r
      r == bound[1]
  IN FindBin(e, x, r \div 2, IF r < Len(e) THEN r ELSE Len(e) - 1)

\* Short slices are searched one way, those of threshold and more the other.
Find(e, x, threshold) ==
  IF Len(e) >= threshold THEN FindExp(e, x) ELSE FindBin(e, x, 0, Len(e) - 1)

\* append(s[:idx+1], s[idx:]...) and s[idx] = x, or an append at the end.
PutAt(s, idx, x) == SubSeq(s, 1, idx) \o <<x>> \o SubSeq(s, idx + 1, Len(s))

\* append(s[:idx], s[idx+1:]...)
CutAt(s, idx) == SubSeq(s, 1, idx) \o SubSeq(s, idx + 2, Len(s))
=============================================================================
