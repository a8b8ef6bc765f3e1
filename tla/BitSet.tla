------------------------------- MODULE BitSet -------------------------------
(***************************************************************************)
(* bitmask.Set: a set of numbers kept as a slice of words.  The rules map  *)
(* keeps sets of templates in it.  A word is the set of its bits that are  *)
(* 1, a number is found in word n \div bpw at bit n % bpw.  The memory of  *)
(* a set is the backing array of its slice: mem reaches up to the          *)
(* capacity, the first len words of it are the slice data.                 *)
(***************************************************************************)
EXTENDS Integers, Sequences, FiniteSetsExt

CONSTANTS
  Sets,         \* the sets the program holds
  bpw,          \* bits per word: 64 in the code
  MaxNumber     \* bound: the largest number that is added

VARIABLES
  memory,   \* the sets
  numbers   \* history: the numbers each of them should hold

vars == <<memory, numbers>>

Numbers == 0..MaxNumber
Bits == 0..bpw-1
Word(n) == n \div bpw + 1
Bit(n) == n % bpw

Shr(w, k) == {b - k : b \in {c \in w : c >= k}}
Shl(w, k) == {b + k : b \in {c \in w : c + k < bpw}}

\* bitMask: the bits from m to n.
bitMask(m, n) == Shl(Shr(Bits, bpw - 1 - (n - m)), m)

-----------------------------------------------------------------------------
(* The slice.                                                              *)

Zeros(n) == [i \in 1..n |-> {}]
Empty == [mem |-> <<>>, len |-> 0]
Data(s) == SubSeq(s.mem, 1, s.len)

PowerOfTwo(p) == \E k \in 0..p : p = 2^k

\* The first power of two above n: the last one up to 2 * n.
nextPow2(n) == Max({1} \cup {p \in 1..2*n : PowerOfTwo(p)})
newCap(n, c) == Max({n, nextPow2(c)})

\* realloc: a new array, or the old one, with zeroes where it shrinks.
realloc_LeavesWords(s, n) ==
  IF Len(s.mem) < n
  THEN [mem |-> Zeros(newCap(n, Len(s.mem))), len |-> n]
  ELSE [s EXCEPT !.len = n]

realloc(s, n) ==
  IF Len(s.mem) < n
  THEN [mem |-> Zeros(newCap(n, Len(s.mem))), len |-> n]
  ELSE [mem |-> [i \in DOMAIN s.mem |-> IF i \in n+1..s.len THEN {} ELSE s.mem[i]],
        len |-> n]

\* The words ws written to the beginning of the slice.
Write(s, ws) ==
  [s EXCEPT !.mem = [i \in DOMAIN @ |-> IF i <= Len(ws) THEN ws[i] ELSE @[i]]]

\* resize: the old words stay.
resize(s, n) ==
  IF Len(s.mem) < n THEN Write(realloc(s, n), Data(s)) ELSE realloc(s, n)

\* The length without the zero words at the end of ws.
Significant(ws) == Max({0} \cup {i \in DOMAIN ws : ws[i] # {}})

trim(s) == [s EXCEPT !.len = Significant(Data(s))]

-----------------------------------------------------------------------------
(* Operations on one set.                                                  *)

New(ns) ==
  LET n == IF ns = {} THEN 0 ELSE Word(Max(ns))
      data == [i \in 1..n |-> {Bit(e) : e \in {x \in ns : Word(x) = i}}]
  IN [mem |-> data, len |-> n]

ResetOf(s) == [mem |-> Zeros(s.len) \o SubSeq(s.mem, s.len + 1, Len(s.mem)), len |-> 0]

AddTo(s, n) ==
  LET t == IF Word(n) > s.len THEN resize(s, Word(n)) ELSE s
  IN [t EXCEPT !.mem[Word(n)] = @ \cup {Bit(n)}]

DeleteFrom(s, n) ==
  IF Word(n) > s.len THEN s
  ELSE trim([s EXCEPT !.mem[Word(n)] = @ \ {Bit(n)}])

\* The bits of word i that lie between the numbers m and n.
RangeMask(i, m, n) ==
  LET low == Word(m)  high == Word(n) IN
  IF i \notin low..high THEN {}
  ELSE IF low = high THEN bitMask(Bit(m), Bit(n))
  ELSE IF i = low THEN bitMask(Bit(m), bpw - 1)
  ELSE IF i = high THEN bitMask(0, Bit(n))
  ELSE Bits

\* AddRange and DeleteRange are from m to n - 1.
AddRangeTo(s, m, n) ==
  LET t == IF Word(n - 1) > s.len THEN resize(s, Word(n - 1)) ELSE s
      from == Max({0, m})
  IN IF n < 1 \/ m >= n THEN s
     ELSE [t EXCEPT !.mem = [i \in DOMAIN @ |-> @[i] \cup RangeMask(i, from, n - 1)]]

\* A range that overshoots the set is cut to its words.
DeleteRangeFrom(s, m, n) ==
  LET from == Max({0, m})
      upTo == IF s.len < Word(n - 1) THEN s.len * bpw - 1 ELSE n - 1
  IN IF n < 1 \/ m >= n \/ Word(from) > s.len THEN s
     ELSE trim([s EXCEPT !.mem =
                  [i \in DOMAIN @ |-> @[i] \ RangeMask(i, from, upTo)]])

-----------------------------------------------------------------------------
(* Operations on two sets.  The words that an operation reads are those    *)
(* before it, also where its result replaces one of its operands: each     *)
(* word is written after it was read.                                      *)

\* A result of length n replaces t; alias: t is one of the operands.
Replaced(t, alias, n, ws) ==
  Write(IF alias THEN resize(t, n) ELSE realloc(t, n), SubSeq(ws, 1, n))

SetAnd(t, alias, x, y) ==
  LET a == Data(x)  b == Data(y)
      ws == [i \in 1..Min({x.len, y.len}) |-> a[i] \cap b[i]]
  IN Replaced(t, alias, Significant(ws), ws)

\* Where x is longer, its last word is in the result as it is.
SetAndNot(t, alias, x, y) ==
  LET a == Data(x)  b == Data(y)
      ws == [i \in 1..x.len |-> IF i <= y.len THEN a[i] \ b[i] ELSE a[i]]
  IN Replaced(t, alias, IF x.len <= y.len THEN Significant(ws) ELSE x.len, ws)

SetOr(t, alias, x, y) ==
  LET s1 == IF x.len > y.len THEN y ELSE x
      s2 == IF x.len > y.len THEN x ELSE y
      a == Data(s1)  b == Data(s2)
      ws == [i \in 1..s2.len |-> IF i <= s1.len THEN a[i] \cup b[i] ELSE b[i]]
  IN Replaced(t, alias, s2.len, ws)

\* Words may cancel out to the end only where the lengths are equal.
SetXor(t, alias, x, y) ==
  LET s1 == IF x.len > y.len THEN y ELSE x
      s2 == IF x.len > y.len THEN x ELSE y
      a == Data(s1)  b == Data(s2)
      ws == [i \in 1..s2.len |->
               IF i <= s1.len THEN (a[i] \ b[i]) \cup (b[i] \ a[i]) ELSE b[i]]
      n == IF x.len = y.len THEN Significant(ws) ELSE s2.len
  IN IF n = 0 THEN realloc(t, 0) ELSE Replaced(t, alias, n, ws)

SetTo(t, x) == Write(realloc(t, x.len), Data(x))

\* The operations that create a set.
OrOf(x, y) == SetOr(Empty, FALSE, x, y)
XorOf(x, y) == SetXor(Empty, FALSE, x, y)
AndNotOf(x, y) == SetAndNot(Empty, FALSE, x, y)

\* And is called on x and does not look at it.
AndOf(x, y) == SetAnd(Empty, FALSE, y, y)

-----------------------------------------------------------------------------
(* Queries.                                                                *)

ContainsNumber(s, n) == n >= 0 /\ Word(n) <= s.len /\ Bit(n) \in Data(s)[Word(n)]
Equal(x, y) == Data(x) = Data(y)
Subset(x, y) ==
  x.len <= y.len /\ \A i \in 1..x.len : Data(x)[i] \ Data(y)[i] = {}
Maximum(s) == (s.len - 1) * bpw + Max(Data(s)[s.len])
Size(s) ==
  LET d == Data(s)
      sum[i \in 0..s.len] == IF i = 0 THEN 0 ELSE sum[i - 1] + Cardinality(d[i])
  IN sum[s.len]
IsEmpty(s) == s.len = 0

\* The next number after m: the rest of its word, then the words behind it.
NextOf(s, m) ==
  LET d == Data(s)
      from == Max({m, 0})
      cut == 1 + Bit(from)
      rest(i) == IF i = Word(from) THEN Shl(Shr(d[i], cut), cut) ELSE d[i]
      hits == {i \in Word(from)..s.len : rest(i) # {}}
  IN IF m < 0 /\ s.len > 0 /\ 0 \in d[1] THEN 0
     ELSE IF hits = {} THEN -1
     ELSE (Min(hits) - 1) * bpw + Min(rest(Min(hits)))

PrevOf(s, m) ==
  LET d == Data(s)
      cut == bpw - Bit(m)
      rest(i) == IF i = Word(m) THEN Shr(Shl(d[i], cut), cut) ELSE d[i]
      hits == {i \in 1..Word(m) : rest(i) # {}}
  IN IF s.len = 0 \/ m <= 0 THEN -1
     ELSE IF m > Maximum(s) THEN Maximum(s)
     ELSE IF hits = {} THEN -1
     ELSE (Max(hits) - 1) * bpw + Max(rest(Max(hits)))

\* Visit, in the order of the calls of do: the rest w of word i, from its
\* lowest bit, then the next word.
Visited(s) ==
  LET d == Data(s)
      visit[p \in Nat \X (SUBSET Bits) \X Seq(Int)] ==
        LET i == p[1]  w == p[2]  done == p[3] IN
        IF w # {} THEN visit[<<i, w \ {Min(w)}, Append(done, (i - 1) * bpw + Min(w))>>]
        ELSE IF i < s.len THEN visit[<<i + 1, d[i + 1], done>>]
        ELSE done
  IN visit[<<0, {}, <<>>>>]

-----------------------------------------------------------------------------

Init ==
  /\ memory = [s \in Sets |-> Empty]
  /\ numbers = [s \in Sets |-> {}]

Becomes(s, value, ns) ==
  /\ memory' = [memory EXCEPT ![s] = value]
  /\ numbers' = [numbers EXCEPT ![s] = ns]

MakeNew(s, ns) == Becomes(s, New(ns), ns)
Reset(s) == Becomes(s, ResetOf(memory[s]), {})
Add(s, n) == Becomes(s, AddTo(memory[s], n), numbers[s] \cup {n})
Delete(s, n) == Becomes(s, DeleteFrom(memory[s], n), numbers[s] \ {n})
AddRange(s, m, n) ==
  Becomes(s, AddRangeTo(memory[s], m, n), numbers[s] \cup (Max({0, m})..n-1))
DeleteRange(s, m, n) ==
  Becomes(s, DeleteRangeFrom(memory[s], m, n), numbers[s] \ (m..n-1))

Copy(s, x) == Becomes(s, SetTo(memory[s], memory[x]), numbers[x])

\* s is set to a combination of x and y.
Combine(s, x, y) ==
  LET t == memory[s]  alias == s \in {x, y}  a == memory[x]  b == memory[y] IN
  \/ Becomes(s, SetAnd(t, alias, a, b), numbers[x] \cap numbers[y])
  \/ Becomes(s, SetAndNot(t, alias, a, b), numbers[x] \ numbers[y])
  \/ Becomes(s, SetOr(t, alias, a, b), numbers[x] \cup numbers[y])
  \/ Becomes(s, SetXor(t, alias, a, b),
             (numbers[x] \ numbers[y]) \cup (numbers[y] \ numbers[x]))

\* s is a new combination of x and y.  What And makes is followed as what the
\* code makes, a copy of y; what its comment says is AndIsTheIntersection.
Create(s, x, y) ==
  \/ Becomes(s, AndOf(memory[x], memory[y]), numbers[y])
  \/ Becomes(s, AndNotOf(memory[x], memory[y]), numbers[x] \ numbers[y])
  \/ Becomes(s, OrOf(memory[x], memory[y]), numbers[x] \cup numbers[y])
  \/ Becomes(s, XorOf(memory[x], memory[y]),
             (numbers[x] \ numbers[y]) \cup (numbers[y] \ numbers[x]))

Next == \E s \in Sets :
  \/ Reset(s)
  \/ \E ns \in SUBSET Numbers : Cardinality(ns) <= 1 /\ MakeNew(s, ns)
  \/ \E n \in Numbers : Add(s, n) \/ Delete(s, n)
  \/ \E m, n \in -1..MaxNumber+1 : AddRange(s, m, n) \/ DeleteRange(s, m, n)
  \/ \E x \in Sets : Copy(s, x) \/ \E y \in Sets : Combine(s, x, y) \/ Create(s, x, y)

Spec == Init /\ [][Next]_vars

\* The invariants that the type states (43-46): no zero word at the end of the
\* slice, only zero words behind it.  Length and words are all that Empty,
\* Equal, Max and the combinations look at, and the next resize within the
\* capacity takes what lies behind.
Canonical(s) ==
  /\ s.len > 0 => s.mem[s.len] # {}
  /\ \A i \in s.len+1..Len(s.mem) : s.mem[i] = {}

\* Whatever was added, deleted and combined, into a set of its own, into an
\* operand or into a set that was longer before, every set holds the numbers
\* it should, and every query answers accordingly.  A set made by And should hold
\* the numbers of its second operand here: see AndIsTheIntersection.
BitSetIsASet ==
  /\ \A s \in Sets :
       LET o == memory[s]  ns == numbers[s]  visited == Visited(o) IN
       /\ Canonical(o)
       /\ Range(visited) = ns /\ Size(o) = Cardinality(ns)
       /\ \A i, j \in DOMAIN visited : i < j => visited[i] < visited[j]
       /\ IsEmpty(o) <=> ns = {}
       /\ ns # {} => Maximum(o) = Max(ns)
       /\ \A n \in -1..MaxNumber+1 :
            /\ ContainsNumber(o, n) <=> n \in ns
            /\ NextOf(o, n) = IF \A x \in ns : x <= n THEN -1 ELSE Min({x \in ns : x > n})
            /\ PrevOf(o, n) = IF \A x \in ns : x >= n THEN -1 ELSE Max({x \in ns : x < n})
  /\ \A s, t \in Sets :
       /\ Equal(memory[s], memory[t]) <=> numbers[s] = numbers[t]
       /\ Subset(memory[s], memory[t]) <=> numbers[s] \subseteq numbers[t]

\* "And creates a new set that consists of all elements that belong to both s1
\* and s2" (bitmask.go:413-414).
AndIsTheIntersection ==
  \A x, y \in Sets :
    {n \in Numbers : ContainsNumber(AndOf(memory[x], memory[y]), n)} = numbers[x] \cap numbers[y]
=============================================================================
