------------------------ MODULE FragmentGraphProofs ------------------------
(***************************************************************************)
(* Theorems about FragmentGraph, for any fragments, any size of the arrays *)
(* and any number of edges.                                                *)
(***************************************************************************)
EXTENDS FragmentGraph, SequenceTheorems, TLAPS

\* Sequences without repetition.
OneEach(s) == \A k, l \in 1..Len(s) : s[k] = s[l] => k = l

In(s, x) == \E k \in 1..Len(s) : s[k] = x

\* The numbering: every number is of an end point of an edge of this call.
INames == OneEach(names)
IRange == g \subseteq (1..n) \X (1..n)
IEnds  == pc # "limit" => \A k \in 1..n : \E i \in 1..n : <<k, i>> \in g \/ <<i, k>> \in g
IEdges == pc # "limit" => edges = {<<names[e[1]], names[e[2]]>> : e \in g}
Numbering == INames /\ IRange /\ IEnds /\ IEdges

\* What was handed out comes once, and after what it spreads.
IFresh   == pc \in {"idle", "edges", "limit"} => ordered = <<>>
IOrdered == ordered \in Seq(1..n) /\ OneEach(ordered)
IFirst   == SpreadsComeFirst
Handed == IFresh /\ IOrdered /\ IFirst

\* Exactly what was left was handed out; what is on the stack is grey.
ILeft  == pc \in {"roots", "scan", "ordered"} =>
            \A k \in 1..n : cl[k] = 2 <=> In(ordered, k)
IRoots == pc = "roots" => \A k \in 1..n : cl[k] # 1
IDone  == pc = "ordered" => \A k \in 1..n : cl[k] = 2
IStack == pc = "scan" =>
            /\ stack \in Seq(1..n) /\ stack # <<>>
            /\ OneEach(stack)
            /\ \A k \in 1..n : cl[k] = 1 <=> In(stack, k)
Colours == ILeft /\ IRoots /\ IDone /\ IStack

\* The stack is a path, and what a fragment on it spreads before the place at
\* which its loop will go on was left already.
IPath == pc = "scan" =>
           \A x \in 1..Len(stack)-1 :
             /\ <<stack[x], stack[x+1]>> \in g
             /\ \A j \in 1..stack[x+1]-1 : <<stack[x], j>> \in g => cl[j] = 2
ITop  == pc = "scan" => \A j \in 1..to-1 : <<from, j>> \in g => cl[j] = 2
Path == IPath /\ ITop

ICycle == pc = "cycle" =>
            /\ path \in Seq(1..n) /\ Len(path) >= 2
            /\ path[1] = path[Len(path)]
            /\ \A k \in 1..Len(path)-1 : <<path[k], path[k+1]>> \in g

IInv == TypeOK /\ Numbering /\ Handed /\ Colours /\ Path /\ ICycle

-----------------------------------------------------------------------------
(* Sequences.                                                              *)

LEMMA NonEmpty ==
  ASSUME NEW S, NEW s \in Seq(S), s # <<>>
  PROVE  Len(s) \in Nat \ {0} /\ s[Len(s)] \in S
<1>1. Len(s) # 0
  BY EmptySeq
<1> QED
  BY <1>1

-----------------------------------------------------------------------------
(* The numbering of end points.                                            *)

\* Numbering one more fragment keeps the numbers given, and gives it one.
LEMMA NumberedFacts ==
  ASSUME NEW s \in Seq(Names), OneEach(s), NEW x \in Names
  PROVE  /\ Numbered(s, x) \in Seq(Names)
         /\ OneEach(Numbered(s, x))
         /\ Len(Numbered(s, x)) \in {Len(s), Len(s) + 1}
         /\ \A k \in 1..Len(s) : Numbered(s, x)[k] = s[k]
         /\ In(Numbered(s, x), x)
         /\ \A k \in 1..Len(Numbered(s, x)) : k <= Len(s) \/ Numbered(s, x)[k] = x
<1>1. CASE Known(s, x)
  BY <1>1 DEF Numbered, Known, In
<1>2. CASE ~Known(s, x)
  <2>1. Numbered(s, x) = Append(s, x)
    BY <1>2 DEF Numbered
  <2>2. /\ Append(s, x) \in Seq(Names) /\ Len(Append(s, x)) = Len(s) + 1
        /\ \A k \in 1..Len(s) : Append(s, x)[k] = s[k]
        /\ Append(s, x)[Len(s) + 1] = x
    OBVIOUS
  <2>3. Len(s) \in Nat
    OBVIOUS
  <2>4. \A k \in 1..Len(s) : s[k] # x
    BY <1>2 DEF Known
  <2>5. OneEach(Append(s, x))
    BY <2>2, <2>3, <2>4 DEF OneEach
  <2> QED
    BY <2>1, <2>2, <2>3, <2>5 DEF In
<1> QED
  BY <1>1, <1>2

\* The same for the two ends of an edge: t numbers what s does, and x and y.
NumbersBoth(t, s, x, y) ==
  /\ t \in Seq(Names) /\ OneEach(t)
  /\ Len(t) \in Nat /\ Len(s) \in Nat /\ Len(s) <= Len(t)
  /\ \A k \in 1..Len(s) : t[k] = s[k]
  /\ Number(t, x) \in 1..Len(t) /\ t[Number(t, x)] = x
  /\ Number(t, y) \in 1..Len(t) /\ t[Number(t, y)] = y
  /\ \A k \in 1..Len(t) : k <= Len(s) \/ t[k] = x \/ t[k] = y

LEMMA EdgeFacts ==
  ASSUME NEW s \in Seq(Names), OneEach(s), NEW x \in Names, NEW y \in Names
  PROVE  NumbersBoth(Numbered(Numbered(s, x), y), s, x, y)
<1> DEFINE t == Numbered(Numbered(s, x), y)
<1> DEFINE r == Numbered(s, x)
<1>1. /\ r \in Seq(Names) /\ OneEach(r)
      /\ Len(r) \in {Len(s), Len(s) + 1}
      /\ \A k \in 1..Len(s) : r[k] = s[k]
      /\ In(r, x)
      /\ \A k \in 1..Len(r) : k <= Len(s) \/ r[k] = x
  BY NumberedFacts
<1> HIDE DEF r
<1>2. /\ t \in Seq(Names) /\ OneEach(t)
      /\ Len(t) \in {Len(r), Len(r) + 1}
      /\ \A k \in 1..Len(r) : t[k] = r[k]
      /\ In(t, y)
      /\ \A k \in 1..Len(t) : k <= Len(r) \/ t[k] = y
  BY <1>1, NumberedFacts DEF r, t
<1> HIDE DEF t
<1>3. Len(s) \in Nat /\ Len(r) \in Nat /\ Len(t) \in Nat
  BY <1>1, <1>2
<1>4. In(t, x)
  BY <1>1, <1>2, <1>3 DEF In
<1>5. /\ Number(t, x) \in 1..Len(t) /\ t[Number(t, x)] = x
      /\ Number(t, y) \in 1..Len(t) /\ t[Number(t, y)] = y
  BY <1>2, <1>4 DEF In, Number
<1>6. \A k \in 1..Len(t) : k <= Len(s) \/ t[k] = x \/ t[k] = y
  BY <1>1, <1>2, <1>3
<1>7. \A k \in 1..Len(s) : t[k] = s[k]
  BY <1>1, <1>2, <1>3
<1> QED
  BY <1>1, <1>2, <1>3, <1>5, <1>6, <1>7 DEF NumbersBoth, t

-----------------------------------------------------------------------------
(* The inductive invariant.                                                *)

LEMMA InitInv == Init => IInv
<1> SUFFICES ASSUME Init PROVE IInv
  OBVIOUS
<1> USE FragmentGraphAssumption DEF Init, Numbers
<1>1. n = 0 /\ Len(ordered) = 0 /\ <<>> \in Seq(Names) /\ <<>> \in Seq(Numbers) /\ <<>> \in Seq(1..n)
  BY DEF n
<1>2. TypeOK
  BY <1>1 DEF TypeOK, n, Answers
<1>3. Numbering
  BY <1>1 DEF Numbering, INames, IRange, IEnds, IEdges, OneEach, n
<1>4. Handed
  BY <1>1 DEF Handed, IFresh, IOrdered, IFirst, SpreadsComeFirst, OneEach
<1>5. Colours /\ Path /\ ICycle
  BY DEF Colours, ILeft, IRoots, IDone, IStack, Path, IPath, ITop, ICycle
<1> QED
  BY <1>2, <1>3, <1>4, <1>5 DEF IInv

\* A new call: nothing is left of the last one, wherever it ended.
LEMMA BeginInv == IInv /\ Begin => IInv'
<1> SUFFICES ASSUME IInv, Begin PROVE IInv'
  OBVIOUS
<1>1. TypeOK /\ IRange
  BY DEF IInv, Numbering
<1>2. /\ names' = <<>> /\ edges' = {} /\ ordered' = <<>> /\ path' = <<>>
      /\ pc' = "edges" /\ cl' = cl /\ stack' = stack /\ to' = to
  BY DEF Begin, visit
<1>3. g' = {}
  BY <1>1 DEF Begin, IRange
<1>4. n' = 0 /\ Len(ordered') = 0
  BY <1>2 DEF n
<1>5. TypeOK'
  BY <1>1, <1>2, <1>3, <1>4, FragmentGraphAssumption DEF TypeOK, n
<1>6. Numbering'
  BY <1>2, <1>3, <1>4 DEF Numbering, INames, IRange, IEnds, IEdges, OneEach, n
<1>7. Handed'
  BY <1>2, <1>4 DEF Handed, IFresh, IOrdered, IFirst, SpreadsComeFirst, OneEach
<1>8. Colours' /\ Path' /\ ICycle'
  BY <1>2 DEF Colours, ILeft, IRoots, IDone, IStack, Path, IPath, ITop, ICycle
<1> QED
  BY <1>5, <1>6, <1>7, <1>8 DEF IInv

\* What the invariants say of a state in which edges are read.
LEMMA WhileReading ==
  ASSUME TypeOK', Numbering', pc' \in {"edges", "limit"}, ordered' = <<>>
  PROVE  IInv'
<1>1. Len(ordered') = 0
  OBVIOUS
<1>2. Handed'
  BY <1>1 DEF Handed, IFresh, IOrdered, IFirst, SpreadsComeFirst, OneEach
<1>3. Colours' /\ Path' /\ ICycle'
  BY DEF Colours, ILeft, IRoots, IDone, IStack, Path, IPath, ITop, ICycle
<1> QED
  BY <1>2, <1>3 DEF IInv

LEMMA AddEdgeInv ==
  ASSUME IInv, NEW x \in Names, NEW y \in Names, AddEdge(x, y)
  PROVE  IInv'
<1> DEFINE t == Numbered(Numbered(names, x), y)
<1>1. /\ TypeOK /\ INames /\ IRange /\ IEnds /\ IEdges /\ IFresh
  BY DEF IInv, Numbering, Handed
<1>2. /\ pc = "edges" /\ pc' = "edges" /\ Len(t) <= MaxFragments
      /\ names' = t /\ g' = g \cup {<<Number(t, x), Number(t, y)>>}
      /\ edges' = edges \cup {<<x, y>>}
      /\ cl' = cl /\ stack' = stack /\ to' = to /\ ordered' = ordered /\ path' = path
  BY DEF AddEdge, TakeEdge, visit, handed
<1>3. /\ t \in Seq(Names) /\ OneEach(t)
      /\ Len(t) \in Nat /\ n \in Nat /\ n <= Len(t)
      /\ \A k \in 1..n : t[k] = names[k]
      /\ Number(t, x) \in 1..Len(t) /\ t[Number(t, x)] = x
      /\ Number(t, y) \in 1..Len(t) /\ t[Number(t, y)] = y
      /\ \A k \in 1..Len(t) : k <= n \/ t[k] = x \/ t[k] = y
  <2>1. names \in Seq(Names) /\ OneEach(names)
    BY <1>1 DEF TypeOK, INames
  <2>2. NumbersBoth(t, names, x, y)
    BY <2>1, EdgeFacts
  <2> HIDE DEF t
  <2> QED
    BY <2>2 DEF n, NumbersBoth
<1> HIDE DEF t
<1>4. n' = Len(t) /\ ordered = <<>> /\ 1..n \subseteq 1..Len(t)
  BY <1>1, <1>2, <1>3 DEF n, IFresh
<1>5. TypeOK'
  <2>1. g' \subseteq Numbers \X Numbers
    BY <1>1, <1>2, <1>3, FragmentGraphAssumption DEF TypeOK, Numbers
  <2> QED
    BY <1>1, <1>2, <1>3, <1>4, <2>1 DEF TypeOK
<1>6. INames' /\ IRange'
  BY <1>1, <1>2, <1>3, <1>4 DEF INames, IRange
<1>7. IEnds'
  <2> SUFFICES ASSUME NEW k \in 1..Len(t)
               PROVE  \E i \in 1..Len(t) : <<k, i>> \in g' \/ <<i, k>> \in g'
    BY <1>4 DEF IEnds
  <2>1. CASE k <= n
    <3>1. k \in 1..n /\ pc # "limit"
      BY <1>2, <1>3, <2>1
    <3>2. PICK i \in 1..n : <<k, i>> \in g \/ <<i, k>> \in g
      BY <1>1, <3>1 DEF IEnds
    <3> QED
      BY <1>2, <1>4, <3>2
  <2>2. CASE t[k] = x
    BY <1>2, <1>3, <2>2 DEF OneEach
  <2>3. CASE t[k] = y
    BY <1>2, <1>3, <2>3 DEF OneEach
  <2> QED
    BY <1>3, <2>1, <2>2, <2>3
<1>8. IEdges'
  <2>1. \A e \in g : names'[e[1]] = names[e[1]] /\ names'[e[2]] = names[e[2]]
    BY <1>1, <1>2, <1>3 DEF IRange
  <2> DEFINE p == <<Number(t, x), Number(t, y)>>
  <2>2. names'[p[1]] = x /\ names'[p[2]] = y
    BY <1>2, <1>3
  <2>3. g' = g \cup {p} /\ edges' = edges \cup {<<x, y>>}
    BY <1>2
  <2>4. edges = {<<names[e[1]], names[e[2]]>> : e \in g}
    BY <1>1, <1>2 DEF IEdges
  <2> HIDE DEF p
  <2>5. \A z : z \in edges' <=> \E e \in g' : z = <<names'[e[1]], names'[e[2]]>>
    BY <2>1, <2>2, <2>3, <2>4
  <2>6. edges' = {<<names'[e[1]], names'[e[2]]>> : e \in g'}
    BY <2>5
  <2> QED
    BY <2>6 DEF IEdges
<1> QED
  BY <1>2, <1>4, <1>5, <1>6, <1>7, <1>8, WhileReading DEF Numbering

LEMMA LimitInv ==
  ASSUME IInv, NEW x \in Names, NEW y \in Names, LimitExceeded(x, y)
  PROVE  IInv'
<1> DEFINE t == Numbered(Numbered(names, x), y)
<1>1. /\ TypeOK /\ INames /\ IRange /\ IFresh
  BY DEF IInv, Numbering, Handed
<1>2. /\ pc = "edges" /\ pc' = "limit" /\ Len(t) > MaxFragments
      /\ names' = SubSeq(t, 1, MaxFragments) /\ g' = g
      /\ edges' = edges \cup {<<x, y>>}
      /\ cl' = cl /\ stack' = stack /\ to' = to /\ ordered' = ordered /\ path' = path
  BY DEF LimitExceeded, TakeEdge, visit, handed
<1>3. /\ t \in Seq(Names) /\ OneEach(t)
      /\ Len(t) \in Nat /\ n \in Nat
  BY <1>1, EdgeFacts DEF TypeOK, INames, n, NumbersBoth
<1> HIDE DEF t
<1> USE FragmentGraphAssumption
<1>4. /\ names' \in Seq(Names) /\ n' = MaxFragments
      /\ \A k \in 1..n' : names'[k] = t[k]
  BY <1>2, <1>3 DEF n
<1>5. ordered' = <<>>
  BY <1>1, <1>2 DEF IFresh
<1>6. TypeOK'
  BY <1>1, <1>2, <1>4 DEF TypeOK, Answers
<1>7. INames'
  <2> SUFFICES ASSUME NEW k \in 1..n', NEW l \in 1..n', names'[k] = names'[l]
               PROVE  k = l
    BY DEF INames, OneEach, n
  <2>1. t[k] = t[l] /\ k \in 1..Len(t) /\ l \in 1..Len(t)
    BY <1>2, <1>3, <1>4
  <2> QED
    BY <1>3, <2>1 DEF OneEach
<1>8. IRange'
  BY <1>1, <1>2, <1>3, <1>4 DEF IRange, TypeOK
<1>9. IEnds' /\ IEdges'
  BY <1>2 DEF IEnds, IEdges
<1> QED
  BY <1>2, <1>5, <1>6, <1>7, <1>8, <1>9, WhileReading DEF Numbering

LEMMA EndOfEdgesInv == IInv /\ EndOfEdges => IInv'
<1> SUFFICES ASSUME IInv, EndOfEdges PROVE IInv'
  OBVIOUS
<1>1. TypeOK /\ Numbering /\ Handed
  BY DEF IInv
<1>2. /\ pc = "edges" /\ pc' = "roots" /\ cl' = [k \in Numbers |-> 0]
      /\ names' = names /\ g' = g /\ edges' = edges
      /\ stack' = stack /\ to' = to /\ ordered' = ordered /\ path' = path
  BY DEF EndOfEdges, numbering, handed
<1>3. n' = n /\ ordered' = <<>> /\ Len(ordered') = 0
  BY <1>1, <1>2 DEF n, Handed, IFresh
<1>4. 1..n \subseteq Numbers
  BY <1>1, FragmentGraphAssumption DEF TypeOK, Numbers, n
<1>5. TypeOK'
  BY <1>1, <1>2, <1>3 DEF TypeOK, Answers
<1>6. Numbering'
  BY <1>1, <1>2, <1>3 DEF Numbering, INames, IRange, IEnds, IEdges
<1>7. Handed'
  BY <1>2, <1>3 DEF Handed, IFresh, IOrdered, IFirst, SpreadsComeFirst, OneEach
<1>8. Colours'
  BY <1>2, <1>3, <1>4 DEF Colours, ILeft, IRoots, IDone, IStack, In
<1>9. Path' /\ ICycle'
  BY <1>2 DEF Path, IPath, ITop, ICycle
<1> QED
  BY <1>5, <1>6, <1>7, <1>8, <1>9 DEF IInv

\* The visit leaves the graph alone.
LEMMA NumberingKept ==
  ASSUME Numbering, UNCHANGED numbering, pc # "limit"
  PROVE  Numbering' /\ n' = n /\ names' = names /\ g' = g
<1>1. names' = names /\ g' = g /\ edges' = edges
  BY DEF numbering
<1>2. n' = n
  BY <1>1 DEF n
<1> QED
  BY <1>1, <1>2 DEF Numbering, INames, IRange, IEnds, IEdges

\* So does it with the order, until a fragment is left.
LEMMA HandedKept ==
  ASSUME Handed, ordered' = ordered, n' = n, g' = g, pc' \notin {"idle", "edges", "limit"}
  PROVE  Handed'
BY DEF Handed, IFresh, IOrdered, IFirst, SpreadsComeFirst, OneEach

LEMMA EnterRootInv ==
  ASSUME IInv, NEW k \in Numbers, EnterRoot(k)
  PROVE  IInv'
<1>1. TypeOK /\ Numbering /\ Handed /\ ILeft /\ IRoots
  BY DEF IInv, Colours
<1>2. /\ pc = "roots" /\ pc' = "scan" /\ k \in 1..n /\ cl[k] = 0
      /\ stack' = <<k>> /\ to' = 1 /\ cl' = [cl EXCEPT ![k] = 1]
      /\ ordered' = ordered /\ path' = path
  BY DEF EnterRoot, handed
<1>3. Numbering' /\ n' = n /\ names' = names /\ g' = g /\ edges' = edges
  BY <1>1, <1>2, NumberingKept DEF EnterRoot, numbering
<1>4. 1..n \subseteq Numbers
  BY <1>1, FragmentGraphAssumption DEF TypeOK, Numbers, n
<1>5. \A i \in 1..n : cl'[i] = IF i = k THEN 1 ELSE cl[i]
  BY <1>1, <1>2, <1>4 DEF TypeOK
<1>6. /\ stack' \in Seq(1..n) /\ stack' \in Seq(Numbers)
      /\ Len(stack') = 1 /\ stack'[1] = k
  BY <1>2, <1>4
<1>7. TypeOK'
  <2>1. cl' \in [Numbers -> 0..2] /\ to' \in 1..MaxFragments+1
    BY <1>1, <1>2, FragmentGraphAssumption DEF TypeOK
  <2> QED
    BY <1>1, <1>2, <1>3, <1>6, <2>1 DEF TypeOK, Answers
<1>8. Handed'
  BY <1>1, <1>2, <1>3, HandedKept
<1>9. Colours'
  <2>1. ILeft'
    BY <1>1, <1>2, <1>3, <1>5 DEF ILeft, In
  <2>2. \A i \in 1..n : cl'[i] = 1 <=> In(stack', i)
    BY <1>1, <1>2, <1>5, <1>6 DEF IRoots, In
  <2>3. stack' # <<>> /\ OneEach(stack')
    BY <1>6 DEF OneEach
  <2> QED
    BY <1>2, <1>3, <1>6, <2>1, <2>2, <2>3 DEF Colours, IRoots, IDone, IStack
<1>10. Path' /\ ICycle'
  BY <1>2, <1>6 DEF Path, IPath, ITop, ICycle
<1> QED
  BY <1>3, <1>7, <1>8, <1>9, <1>10 DEF IInv

\* Nothing is grey outside a visit, so what is not white was left.
LEMMA FinishInv == IInv /\ Finish => IInv'
<1> SUFFICES ASSUME IInv, Finish PROVE IInv'
  OBVIOUS
<1>1. TypeOK /\ Numbering /\ Handed /\ ILeft /\ IRoots
  BY DEF IInv, Colours
<1>2. /\ pc = "roots" /\ pc' = "ordered" /\ \A k \in 1..n : cl[k] # 0
      /\ cl' = cl /\ stack' = stack /\ to' = to /\ ordered' = ordered /\ path' = path
  BY DEF Finish, visit, handed
<1>3. Numbering' /\ n' = n /\ names' = names /\ g' = g /\ edges' = edges
  BY <1>1, <1>2, NumberingKept DEF Finish, numbering
<1>4. TypeOK'
  BY <1>1, <1>2, <1>3 DEF TypeOK, Answers
<1>5. Handed'
  BY <1>1, <1>2, <1>3, HandedKept
<1>6. \A k \in 1..n : cl[k] \in 0..2
  BY <1>1, FragmentGraphAssumption DEF TypeOK, Numbers, n
<1>7. ILeft' /\ IDone'
  BY <1>1, <1>2, <1>3, <1>6 DEF ILeft, IDone, IRoots, In
<1>8. Colours' /\ Path' /\ ICycle'
  BY <1>2, <1>7 DEF Colours, IRoots, IStack, Path, IPath, ITop, ICycle
<1> QED
  BY <1>3, <1>4, <1>5, <1>8 DEF IInv

\* What the invariants say of the top of the stack.
LEMMA TopFacts ==
  ASSUME IInv, pc = "scan"
  PROVE  /\ Len(stack) \in Nat \ {0} /\ from \in 1..n /\ 1..n \subseteq Numbers
         /\ cl[from] = 1 /\ n \in Nat
<1>1. TypeOK /\ stack \in Seq(1..n) /\ stack # <<>> /\ \A k \in 1..n : cl[k] = 1 <=> In(stack, k)
  BY DEF IInv, Colours, IStack
<1>2. Len(stack) \in Nat \ {0} /\ from \in 1..n
  BY <1>1, NonEmpty DEF from
<1>3. In(stack, from)
  BY <1>2 DEF In, from
<1>4. 1..n \subseteq Numbers /\ n \in Nat
  BY <1>1, FragmentGraphAssumption DEF TypeOK, Numbers, n
<1> QED
  BY <1>1, <1>2, <1>3, <1>4

LEMMA DescendInv ==
  ASSUME IInv, NEW j \in Numbers, Descend(j)
  PROVE  IInv'
<1>1. TypeOK /\ Numbering /\ Handed /\ ILeft /\ IStack /\ IPath /\ ITop
  BY DEF IInv, Colours, Path
<1>2. /\ pc = "scan" /\ pc' = "scan" /\ NextSpread(j) /\ cl[j] = 0
      /\ stack' = Append(stack, j) /\ to' = 1 /\ cl' = [cl EXCEPT ![j] = 1]
      /\ ordered' = ordered /\ path' = path
  BY DEF Descend, handed
<1>3. Numbering' /\ n' = n /\ names' = names /\ g' = g /\ edges' = edges
  BY <1>1, <1>2, NumberingKept DEF Descend, numbering
<1>4. /\ Len(stack) \in Nat \ {0} /\ from \in 1..n /\ 1..n \subseteq Numbers /\ n \in Nat
  BY <1>2, TopFacts
<1>5. /\ j \in to..n /\ j \in 1..n /\ to \in Nat \ {0} /\ <<from, j>> \in g
      /\ \A i \in to..j-1 : <<from, i>> \in g => cl[i] = 2
  <2>1. to \in Nat \ {0}
    BY <1>1, FragmentGraphAssumption DEF TypeOK
  <2> QED
    BY <1>2, <1>4, <2>1 DEF NextSpread, Open
<1>6. \A i \in 1..n : cl'[i] = IF i = j THEN 1 ELSE cl[i]
  BY <1>1, <1>2, <1>4 DEF TypeOK
<1>7. /\ stack \in Seq(1..n)
      /\ stack' \in Seq(1..n) /\ stack' \in Seq(Numbers) /\ stack' # <<>>
      /\ Len(stack') = Len(stack) + 1 /\ stack'[Len(stack) + 1] = j
      /\ \A x \in 1..Len(stack) : stack'[x] = stack[x] /\ stack[x] \in 1..n
  <2>1. stack \in Seq(1..n) /\ stack \in Seq(Numbers) /\ stack' = Append(stack, j)
    BY <1>1, <1>2 DEF IStack, TypeOK
  <2>2. /\ stack' \in Seq(1..n) /\ stack' \in Seq(Numbers)
        /\ Len(stack') = Len(stack) + 1 /\ stack'[Len(stack) + 1] = j
    BY <1>5, <2>1
  <2>3. stack' # <<>>
    BY <1>4, <2>2
  <2>4. \A x \in 1..Len(stack) : stack[x] \in 1..n
    BY <2>1, ElementOfSeq
  <2>5. \A x \in 1..Len(stack) : stack'[x] = stack[x]
    BY <1>5, <2>1, AppendProperties
  <2> QED
    BY <2>1, <2>2, <2>3, <2>4, <2>5
<1>8. TypeOK'
  <2>1. cl' \in [Numbers -> 0..2] /\ to' \in 1..MaxFragments+1
    BY <1>1, <1>2, FragmentGraphAssumption DEF TypeOK
  <2> QED
    BY <1>1, <1>2, <1>3, <1>7, <2>1 DEF TypeOK
<1>9. Handed'
  BY <1>1, <1>2, <1>3, HandedKept
<1>10. Colours'
  <2>1. ILeft'
    BY <1>1, <1>2, <1>3, <1>6 DEF ILeft, In
  <2>2. \A x \in 1..Len(stack) : stack[x] # j
    BY <1>1, <1>2, <1>5 DEF IStack, In
  <2>3. OneEach(stack')
    BY <1>1, <1>2, <1>4, <1>7, <2>2 DEF IStack, OneEach
  <2>4. \A k \in 1..n : cl'[k] = 1 <=> In(stack', k)
    BY <1>1, <1>2, <1>4, <1>5, <1>6, <1>7, <2>2 DEF IStack, In
  <2> QED
    BY <1>2, <1>3, <1>7, <2>1, <2>3, <2>4 DEF Colours, IRoots, IDone, IStack
<1>11. Path'
  <2> SUFFICES ASSUME NEW x \in 1..Len(stack)
               PROVE  /\ <<stack'[x], stack'[x+1]>> \in g
                      /\ \A i \in 1..stack'[x+1]-1 : <<stack'[x], i>> \in g => cl'[i] = 2
    BY <1>2, <1>3, <1>4, <1>7 DEF Path, IPath, ITop
  <2>1. CASE x = Len(stack)
    <3>1. stack'[x] = from /\ stack'[x+1] = j
      BY <1>4, <1>7, <2>1 DEF from
    <3>2. \A i \in 1..to-1 : <<from, i>> \in g => cl[i] = 2
      BY <1>1, <1>2 DEF ITop
    <3>3. \A i \in 1..j-1 : <<from, i>> \in g => cl[i] = 2
      BY <1>5, <3>2
    <3>4. \A i \in 1..j-1 : cl'[i] = cl[i]
      BY <1>4, <1>5, <1>6
    <3> QED
      BY <1>5, <3>1, <3>3, <3>4
  <2>2. CASE x # Len(stack)
    <3>0. x \in 1..Len(stack)-1 /\ x + 1 \in 1..Len(stack)
      BY <1>4, <2>2
    <3>1. x \in 1..Len(stack)-1 /\ stack'[x] = stack[x] /\ stack'[x+1] = stack[x+1]
          /\ stack[x+1] \in 1..n
      BY <1>7, <3>0
    <3>2. \A i \in 1..n : cl[i] = 2 => cl'[i] = 2
      BY <1>2, <1>6
    <3> QED
      BY <1>1, <1>2, <3>1, <3>2, <1>4 DEF IPath
  <2> QED
    BY <2>1, <2>2
<1>12. ICycle'
  BY <1>2 DEF ICycle
<1> QED
  BY <1>3, <1>8, <1>9, <1>10, <1>11, <1>12 DEF IInv

\* The part of the stack from j on is a path from j to a fragment that
\* spreads j.
LEMMA CycleInv ==
  ASSUME IInv, NEW j \in Numbers, Cycle(j)
  PROVE  IInv'
<1>1. TypeOK /\ Numbering /\ Handed /\ IStack /\ IPath
  BY DEF IInv, Colours, Path
<1>2. /\ pc = "scan" /\ pc' = "cycle" /\ NextSpread(j)
      /\ cl' = cl /\ stack' = stack /\ to' = to /\ ordered' = ordered
  BY DEF Cycle, visit
<1>3. Numbering' /\ n' = n /\ names' = names /\ g' = g /\ edges' = edges
  BY <1>1, <1>2, NumberingKept DEF Cycle, numbering
<1>4. /\ Len(stack) \in Nat \ {0} /\ from \in 1..n /\ 1..n \subseteq Numbers /\ n \in Nat
  BY <1>2, TopFacts
<1>5. j \in 1..n /\ <<from, j>> \in g
  <2>1. to \in Nat \ {0}
    BY <1>1, FragmentGraphAssumption DEF TypeOK
  <2> QED
    BY <1>2, <1>4, <2>1 DEF NextSpread, Open
<1>6. PICK x \in 1..Len(stack) :
        stack[x] = j /\ path' = Append(SubSeq(stack, x, Len(stack)), j)
  BY DEF Cycle
<1> DEFINE part == SubSeq(stack, x, Len(stack))
           m == Len(stack) - x + 1
<1>7. stack \in Seq(1..n)
  BY <1>1, <1>2 DEF IStack
<1>8. m \in Nat \ {0} /\ Len(stack) = x + m - 1 /\ x \in Nat \ {0}
  BY <1>4, <1>6
<1>9. /\ part \in Seq(1..n) /\ Len(part) = m
      /\ \A k \in 1..m : part[k] = stack[x + k - 1]
  <2>1. \A k \in x..Len(stack) : stack[k] \in 1..n
    BY <1>4, <1>7, <1>8, ElementOfSeq
  <2>2. x \in Int /\ Len(stack) \in Int /\ x <= Len(stack)
    BY <1>4, <1>6
  <2>3. part \in Seq(1..n) /\ Len(part) = Len(stack) - x + 1
    BY <2>1, <2>2, SubSeqProperties
  <2>4. \A k \in 1..m : part[k] = stack[x + k - 1]
    BY <2>1, <2>2, SubSeqProperties
  <2> QED
    BY <2>3, <2>4
<1> HIDE DEF part
<1>10. /\ path' \in Seq(1..n) /\ Len(path') = m + 1 /\ path'[m + 1] = j
       /\ \A k \in 1..m : path'[k] = stack[x + k - 1]
  <2>1. path' = Append(part, j)
    BY <1>6 DEF part
  <2>2. path' \in Seq(1..n) /\ Len(path') = m + 1 /\ path'[m + 1] = j
    BY <1>5, <1>9, <2>1
  <2>3. \A k \in 1..m : path'[k] = part[k]
    BY <1>5, <1>9, <2>1, AppendProperties
  <2> QED
    BY <1>9, <2>2, <2>3
<1>11. \A k \in 1..m : <<path'[k], path'[k+1]>> \in g
  <2> SUFFICES ASSUME NEW k \in 1..m PROVE <<path'[k], path'[k+1]>> \in g
    OBVIOUS
  <2>1. CASE k = m
    <3>1. path'[k] = from /\ path'[k+1] = j
      BY <1>8, <1>10, <2>1 DEF from
    <3> QED
      BY <1>5, <3>1
  <2>2. CASE k # m
    <3>1. x + k - 1 \in 1..Len(stack)-1 /\ k+1 \in 1..m /\ x + (k+1) - 1 = (x + k - 1) + 1
      BY <1>8, <2>2
    <3>2. path'[k] = stack[x + k - 1] /\ path'[k+1] = stack[(x + k - 1) + 1]
      <4>1. path'[k] = stack[x + k - 1]
        BY <1>10
      <4>2. path'[k+1] = stack[x + (k+1) - 1]
        BY <1>10, <3>1
      <4> QED
        BY <3>1, <4>1, <4>2
    <3> QED
      BY <1>1, <1>2, <3>1, <3>2 DEF IPath
  <2> QED
    BY <2>1, <2>2
<1>12. ICycle'
  <2>1. path'[1] = j /\ Len(path') >= 2
    <3>1. 1 \in 1..m /\ x + 1 - 1 = x /\ m + 1 >= 2
      BY <1>8
    <3>2. path'[1] = stack[x + 1 - 1]
      BY <1>10, <3>1
    <3> QED
      BY <1>6, <1>10, <3>1, <3>2
  <2> QED
    BY <1>2, <1>3, <1>8, <1>10, <1>11, <2>1 DEF ICycle
<1>13. TypeOK'
  <2>1. path' \in Seq(Numbers)
    BY <1>4, <1>10
  <2> QED
    BY <1>1, <1>2, <1>3, <2>1 DEF TypeOK, Answers
<1>14. Handed'
  BY <1>1, <1>2, <1>3, HandedKept
<1>15. Colours' /\ Path'
  BY <1>2 DEF Colours, ILeft, IRoots, IDone, IStack, Path, IPath, ITop
<1> QED
  BY <1>3, <1>12, <1>13, <1>14, <1>15 DEF IInv

LEMMA LeaveInv == IInv /\ Leave => IInv'
<1> SUFFICES ASSUME IInv, Leave PROVE IInv'
  OBVIOUS
<1>1. TypeOK /\ Numbering /\ Handed /\ ILeft /\ IStack /\ IPath /\ ITop
  BY DEF IInv, Colours, Path
<1>2. /\ pc = "scan" /\ \A j \in to..n : ~Open(j)
      /\ cl' = [cl EXCEPT ![from] = 2] /\ to' = from + 1
      /\ ordered' = Append(ordered, from)
      /\ stack' = SubSeq(stack, 1, Len(stack) - 1)
      /\ pc' = IF Len(stack) > 1 THEN "scan" ELSE "roots"
      /\ path' = path
  BY DEF Leave
<1>3. Numbering' /\ n' = n /\ names' = names /\ g' = g /\ edges' = edges
  BY <1>1, <1>2, NumberingKept DEF Leave, numbering
<1>4. /\ Len(stack) \in Nat \ {0} /\ from \in 1..n /\ 1..n \subseteq Numbers
      /\ n \in Nat /\ cl[from] = 1
  BY <1>2, TopFacts
<1>h. PICK h \in Nat \ {0} : h = Len(stack)
  BY <1>4
<1>5. \A i \in 1..n : cl'[i] = IF i = from THEN 2 ELSE cl[i]
  BY <1>1, <1>2, <1>4 DEF TypeOK
\* Everything that the fragment spreads was left before.
<1>6. \A i \in 1..n : <<from, i>> \in g => cl[i] = 2 /\ In(ordered, i)
  <2>1. to \in Nat \ {0}
    BY <1>1, FragmentGraphAssumption DEF TypeOK
  <2>2. \A i \in 1..to-1 : <<from, i>> \in g => cl[i] = 2
    BY <1>1, <1>2 DEF ITop
  <2>3. \A i \in to..n : <<from, i>> \in g => cl[i] = 2
    BY <1>2 DEF Open
  <2>4. \A i \in 1..n : <<from, i>> \in g => cl[i] = 2
    BY <1>4, <2>1, <2>2, <2>3
  <2> QED
    BY <1>1, <1>2, <2>4 DEF ILeft
<1>7. /\ ordered \in Seq(1..n) /\ OneEach(ordered) /\ ~In(ordered, from)
      /\ Len(ordered) \in Nat
  BY <1>1, <1>2, <1>4 DEF Handed, IOrdered, ILeft
<1>8. /\ ordered' \in Seq(1..n) /\ ordered' \in Seq(Numbers)
      /\ Len(ordered') = Len(ordered) + 1 /\ ordered'[Len(ordered) + 1] = from
      /\ \A k \in 1..Len(ordered) : ordered'[k] = ordered[k]
  <2>1. ordered' \in Seq(1..n) /\ Len(ordered') = Len(ordered) + 1
        /\ ordered'[Len(ordered) + 1] = from
    BY <1>2, <1>4, <1>7
  <2>2. \A k \in 1..Len(ordered) : ordered'[k] = ordered[k]
    BY <1>2, <1>4, <1>7, AppendProperties
  <2>3. ordered' \in Seq(Numbers)
    BY <1>4, <2>1
  <2> QED
    BY <2>1, <2>2, <2>3
<1>9. /\ stack \in Seq(1..n) /\ stack' \in Seq(1..n) /\ stack' \in Seq(Numbers)
      /\ Len(stack') = h - 1
      /\ \A x \in 1..h-1 : stack'[x] = stack[x] /\ stack[x] \in 1..n
      /\ stack[h] = from
  <2>1. stack \in Seq(1..n) /\ stack[h] = from
    BY <1>1, <1>2, <1>h DEF IStack, from
  <2>2. \A x \in 1..h-1 : stack[x] \in 1..n
    <3>1. \A x \in 1..h-1 : x \in 1..Len(stack)
      BY <1>h
    <3> QED
      BY <2>1, <3>1, ElementOfSeq
  <2>3. h - 1 \in Int /\ stack' = SubSeq(stack, 1, h - 1)
    BY <1>2, <1>h
  <2>4. /\ stack' \in Seq(1..n)
        /\ Len(stack') = IF 1 <= h - 1 THEN h - 1 - 1 + 1 ELSE 0
    BY <2>2, <2>3, SubSeqProperties
  <2>5. \A x \in 1..h-1 : stack'[x] = stack[1 + x - 1]
    BY <2>2, <2>3, SubSeqProperties
  <2>6. stack' \in Seq(Numbers)
    BY <1>4, <2>4
  <2>7. Len(stack') = h - 1
    BY <1>h, <2>4
  <2>8. \A x \in 1..h-1 : stack'[x] = stack[x]
    BY <1>h, <2>5
  <2> QED
    BY <2>1, <2>2, <2>4, <2>6, <2>7, <2>8
<1>10. TypeOK'
  <2>1. cl' \in [Numbers -> 0..2]
    <3>1. cl \in [Numbers -> 0..2]
      BY <1>1 DEF TypeOK
    <3>2. cl' = [cl EXCEPT ![from] = 2]
      BY <1>2
    <3>3. \A k \in Numbers : cl'[k] \in 0..2
      BY <3>1, <3>2
    <3>4. cl' = [k \in Numbers |-> cl'[k]]
      BY <3>1, <3>2
    <3> QED
      BY <3>3, <3>4
  <2>2. to' \in 1..MaxFragments+1
    BY <1>1, <1>2, <1>4, FragmentGraphAssumption DEF TypeOK
  <2>3. pc' \in {"scan", "roots"}
    BY <1>2
  <2> QED
    BY <1>1, <1>2, <1>3, <1>8, <1>9, <2>1, <2>2, <2>3 DEF TypeOK
<1>11. Handed'
  <2>1. IFresh'
    BY <1>2 DEF IFresh
  <2>2. OneEach(ordered')
    BY <1>7, <1>8 DEF OneEach, In
  <2>3. IFirst'
    <3> SUFFICES ASSUME NEW k \in 1..Len(ordered'), NEW i \in 1..n, <<ordered'[k], i>> \in g
                 PROVE  \E l \in 1..k-1 : ordered'[l] = i
      BY <1>3 DEF IFirst, SpreadsComeFirst
    <3>1. CASE k = Len(ordered) + 1
      BY <1>6, <1>7, <1>8, <3>1 DEF In
    <3>2. CASE k # Len(ordered) + 1
      <4>0. k \in 1..Len(ordered)
        BY <1>7, <1>8, <3>2
      <4>1. k \in 1..Len(ordered) /\ <<ordered[k], i>> \in g
        BY <1>8, <4>0
      <4>2. PICK l \in 1..k-1 : ordered[l] = i
        BY <1>1, <4>1 DEF Handed, IFirst, SpreadsComeFirst
      <4>3. l \in 1..Len(ordered)
        BY <1>7, <4>0, <4>2
      <4> QED
        BY <1>8, <4>2, <4>3
    <3> QED
      BY <3>1, <3>2
  <2> QED
    BY <1>3, <1>8, <2>1, <2>2, <2>3 DEF Handed, IOrdered
<1>12. ILeft' /\ IDone'
  <2>1. \A k \in 1..n : In(ordered', k) <=> In(ordered, k) \/ k = from
    BY <1>7, <1>8 DEF In
  <2> QED
    BY <1>1, <1>2, <1>3, <1>4, <1>5, <2>1 DEF ILeft, IDone
<1>13. \A k \in 1..n : cl'[k] = 1 <=> \E x \in 1..h-1 : stack[x] = k
  <2> SUFFICES ASSUME NEW k \in 1..n
               PROVE  cl'[k] = 1 <=> \E x \in 1..h-1 : stack[x] = k
    OBVIOUS
  <2>1. /\ \A x, y \in 1..h : stack[x] = stack[y] => x = y
        /\ cl[k] = 1 <=> \E x \in 1..h : stack[x] = k
    BY <1>1, <1>2, <1>h DEF IStack, OneEach, In
  <2>2. CASE k = from
    <3>1. cl'[k] = 2
      BY <1>5, <2>2
    <3>2. \A x \in 1..h-1 : x \in 1..h /\ h \in 1..h /\ x # h
      OBVIOUS
    <3>3. stack[h] = k
      BY <1>9, <2>2
    <3>4. \A x \in 1..h-1 : stack[x] # k
      BY <2>1, <3>2, <3>3
    <3> QED
      BY <3>1, <3>4
  <2>3. CASE k # from
    <3>1. cl'[k] = 1 <=> \E x \in 1..h : stack[x] = k
      BY <1>5, <2>1, <2>3
    <3>2. stack[h] # k
      BY <1>9, <2>3
    <3>3. \A x \in 1..h : x \in 1..h-1 \/ x = h
      OBVIOUS
    <3>4. 1..h-1 \subseteq 1..h
      OBVIOUS
    <3> QED
      BY <3>1, <3>2, <3>3, <3>4
  <2> QED
    BY <2>2, <2>3
<1>14. CASE h > 1
  <2>1. pc' = "scan" /\ h - 1 \in Nat \ {0}
    BY <1>2, <1>h, <1>14
  <2>2. stack' # <<>>
    BY <1>9, <2>1
  <2>3. OneEach(stack')
    <3>1. \A x, y \in 1..h : stack[x] = stack[y] => x = y
      BY <1>1, <1>2, <1>h DEF IStack, OneEach
    <3> QED
      BY <1>9, <3>1 DEF OneEach
  <2>4. \A k \in 1..n : cl'[k] = 1 <=> In(stack', k)
    BY <1>9, <1>13 DEF In
  <2>5. Colours'
    BY <1>3, <1>9, <1>12, <2>1, <2>2, <2>3, <2>4 DEF Colours, IRoots, IStack
  <2>6. \A i \in 1..n : cl[i] = 2 => cl'[i] = 2
    BY <1>5
  <2>7. \A x \in 1..h-1 :
          /\ <<stack[x], stack[x+1]>> \in g
          /\ \A i \in 1..stack[x+1]-1 : <<stack[x], i>> \in g => cl'[i] = 2
    <3> SUFFICES ASSUME NEW x \in 1..h-1
                 PROVE  /\ <<stack[x], stack[x+1]>> \in g
                        /\ \A i \in 1..stack[x+1]-1 : <<stack[x], i>> \in g => cl'[i] = 2
      OBVIOUS
    <3>1. x + 1 \in 1..h
      OBVIOUS
    <3>2. stack[x+1] \in 1..n
      BY <1>h, <1>9, <3>1, ElementOfSeq
    <3>3. /\ <<stack[x], stack[x+1]>> \in g
          /\ \A i \in 1..stack[x+1]-1 : <<stack[x], i>> \in g => cl[i] = 2
      BY <1>1, <1>2, <1>h DEF IPath
    <3>4. \A i \in 1..stack[x+1]-1 : i \in 1..n
      BY <1>4, <3>2
    <3> QED
      BY <2>6, <3>3, <3>4
  <2>8. IPath'
    <3> SUFFICES ASSUME NEW x \in 1..Len(stack')-1
                 PROVE  /\ <<stack'[x], stack'[x+1]>> \in g
                        /\ \A i \in 1..stack'[x+1]-1 : <<stack'[x], i>> \in g => cl'[i] = 2
      BY <1>3 DEF IPath
    <3>1. x \in 1..h-1 /\ x+1 \in 1..h-1
      BY <1>9
    <3>2. stack'[x] = stack[x] /\ stack'[x+1] = stack[x+1]
      BY <1>9, <3>1
    <3> QED
      BY <2>7, <3>1, <3>2
  <2>9. ITop'
    <3> DEFINE x == h - 1
    <3>1. x \in 1..h-1 /\ x + 1 = h
      BY <2>1
    <3>2. from' = stack[x] /\ stack[x+1] = from
      BY <1>9, <3>1 DEF from
    <3> HIDE DEF x
    <3>3. \A i \in 1..from-1 : <<from', i>> \in g => cl'[i] = 2
      BY <2>7, <3>1, <3>2
    <3>4. cl'[from] = 2
      BY <1>4, <1>5
    <3>5. \A i \in 1..to'-1 : i \in 1..from-1 \/ i = from
      BY <1>2, <1>4
    <3> QED
      BY <1>3, <3>3, <3>4, <3>5 DEF ITop
  <2> QED
    BY <1>3, <1>10, <1>11, <2>1, <2>5, <2>8, <2>9 DEF IInv, Path, ICycle
<1>15. CASE ~(h > 1)
  <2>1. pc' = "roots"
    BY <1>2, <1>h, <1>15
  <2>2. \A k \in 1..n : cl'[k] # 1
    BY <1>13, <1>15
  <2>3. Colours' /\ Path' /\ ICycle'
    BY <1>3, <1>12, <2>1, <2>2 DEF Colours, IRoots, IStack, Path, IPath, ITop, ICycle
  <2> QED
    BY <1>3, <1>10, <1>11, <2>3 DEF IInv
<1> QED
  BY <1>14, <1>15

LEMMA StutterInv == IInv /\ UNCHANGED vars => IInv'
BY DEF IInv, TypeOK, Numbering, INames, IRange, IEnds, IEdges, Handed, IFresh,
       IOrdered, IFirst, SpreadsComeFirst, Colours, ILeft, IRoots, IDone, IStack,
       Path, IPath, ITop, ICycle, OneEach, In, from, n, vars

\* Every step keeps the invariant.
LEMMA NextInv == IInv /\ [Next]_vars => IInv'
<1> SUFFICES ASSUME IInv, [Next]_vars PROVE IInv'
  OBVIOUS
<1>1. CASE UNCHANGED vars
  BY <1>1, StutterInv
<1>2. CASE Begin
  BY <1>2, BeginInv
<1>3. CASE EndOfEdges
  BY <1>3, EndOfEdgesInv
<1>4. CASE Finish
  BY <1>4, FinishInv
<1>5. CASE Leave
  BY <1>5, LeaveInv
<1>6. ASSUME NEW x \in Names, NEW y \in Names, AddEdge(x, y) PROVE IInv'
  BY <1>6, AddEdgeInv
<1>7. ASSUME NEW x \in Names, NEW y \in Names, LimitExceeded(x, y) PROVE IInv'
  BY <1>7, LimitInv
<1>8. ASSUME NEW k \in Numbers, EnterRoot(k) PROVE IInv'
  BY <1>8, EnterRootInv
<1>9. ASSUME NEW j \in Numbers, Descend(j) PROVE IInv'
  BY <1>9, DescendInv
<1>10. ASSUME NEW j \in Numbers, Cycle(j) PROVE IInv'
  BY <1>10, CycleInv
<1> QED
  BY <1>1, <1>2, <1>3, <1>4, <1>5, <1>6, <1>7, <1>8, <1>9, <1>10 DEF Next

\* The strengthening holds in every state.
THEOREM Invariance == Spec => []IInv
<1>1. Init => IInv
  BY InitInv
<1>2. IInv /\ [Next]_vars => IInv'
  BY NextInv
<1> QED
  BY <1>1, <1>2, PTL DEF Spec

-----------------------------------------------------------------------------
(* The properties of FragmentGraph.                                        *)

\* Types: the arrays are never indexed out of range, for any number of
\* fragments in a request (52, 61).
THEOREM TypeCorrectness == Spec => []TypeOK
<1>1. IInv => TypeOK
  BY DEF IInv
<1> QED
  BY <1>1, Invariance, PTL

\* The graph of a call has nothing of an earlier one in it (26-34).
THEOREM NothingIsLeftOver == Spec => []GraphIsOfThisCall
<1>1. IInv => GraphIsOfThisCall
  BY DEF IInv, Numbering, IRange, IEdges, GraphIsOfThisCall
<1> QED
  BY <1>1, Invariance, PTL

\* A fragment is handed out after everything that it spreads (106-107).
THEOREM SpreadsFirst == Spec => []SpreadsComeFirst
<1>1. IInv => SpreadsComeFirst
  BY DEF IInv, Handed, IFirst
<1> QED
  BY <1>1, Invariance, PTL

-----------------------------------------------------------------------------
(* FragmentGraph implements DependencyOrder.                               *)

\* The fragments of the abstract specification are the ones that are numbered.
LEMMA FragmentsAreNumbered ==
  ASSUME IInv, pc # "limit"
  PROVE  Order!Fragments = {names[k] : k \in 1..n}
<1>1. IRange /\ edges = {<<names[e[1]], names[e[2]]>> : e \in g}
      /\ \A k \in 1..n : \E i \in 1..n : <<k, i>> \in g \/ <<i, k>> \in g
  BY DEF IInv, Numbering, IEnds, IEdges
<1>2. ASSUME NEW f \in Order!Fragments PROVE \E k \in 1..n : f = names[k]
  <2>1. PICK e \in edges : f = e[1] \/ f = e[2]
    BY DEF Order!Fragments
  <2>2. PICK p \in g : e = <<names[p[1]], names[p[2]]>>
    BY <1>1
  <2>3. p[1] \in 1..n /\ p[2] \in 1..n
    BY <1>1 DEF IRange
  <2>4. f = names[p[1]] \/ f = names[p[2]]
    BY <2>1, <2>2
  <2> QED
    BY <2>3, <2>4
<1>3. ASSUME NEW k \in 1..n PROVE names[k] \in Order!Fragments
  <2>1. PICK i \in 1..n : <<k, i>> \in g \/ <<i, k>> \in g
    BY <1>1
  <2>2. CASE <<k, i>> \in g
    <3>1. <<names[<<k, i>>[1]], names[<<k, i>>[2]]>> \in edges
      BY <1>1, <2>2
    <3>2. <<names[k], names[i]>> \in edges
      BY <3>1
    <3> QED
      BY <3>2 DEF Order!Fragments
  <2>3. CASE <<i, k>> \in g
    <3>1. <<names[<<i, k>>[1]], names[<<i, k>>[2]]>> \in edges
      BY <1>1, <2>3
    <3>2. <<names[i], names[k]>> \in edges
      BY <3>1
    <3> QED
      BY <3>2 DEF Order!Fragments
  <2> QED
    BY <2>1, <2>2, <2>3
<1> QED
  BY <1>2, <1>3

\* A use of one fragment by another is an entry of the matrix.
LEMMA UsesAreEdges ==
  ASSUME IInv, pc # "limit", NEW k \in 1..n, NEW l \in 1..n
  PROVE  <<names[k], names[l]>> \in edges <=> <<k, l>> \in g
<1>1. IRange /\ OneEach(names) /\ edges = {<<names[e[1]], names[e[2]]>> : e \in g}
  BY DEF IInv, Numbering, INames, IEdges
<1>2. ASSUME <<names[k], names[l]>> \in edges PROVE <<k, l>> \in g
  <2>1. PICK p \in g : <<names[k], names[l]>> = <<names[p[1]], names[p[2]]>>
    BY <1>1, <1>2
  <2>2. p[1] \in 1..n /\ p[2] \in 1..n /\ p = <<p[1], p[2]>>
    BY <1>1 DEF IRange
  <2>3. names[k] = names[p[1]] /\ names[l] = names[p[2]]
    BY <2>1
  <2>4. p[1] = k /\ p[2] = l
    BY <1>1, <2>2, <2>3 DEF OneEach, n
  <2> QED
    BY <2>2, <2>4
<1>3. ASSUME <<k, l>> \in g PROVE <<names[k], names[l]>> \in edges
  <2>1. <<names[<<k, l>>[1]], names[<<k, l>>[2]]>> \in edges
    BY <1>1, <1>3
  <2> QED
    BY <2>1
<1> QED
  BY <1>2, <1>3

LEMMA NamesOfFacts ==
  ASSUME IInv, pc # "limit", NEW s \in Seq(1..n)
  PROVE  /\ NamesOf(s) \in Seq(Order!Fragments)
         /\ Len(NamesOf(s)) = Len(s) /\ Len(s) \in Nat
         /\ DOMAIN NamesOf(s) = 1..Len(s)
         /\ \A k \in 1..Len(s) : NamesOf(s)[k] = names[s[k]] /\ s[k] \in 1..n
<1>1. Len(s) \in Nat /\ \A k \in 1..Len(s) : s[k] \in 1..n
  <2>1. s \in [1..Len(s) -> 1..n]
    BY LenProperties
  <2>2. Len(s) \in Nat
    OBVIOUS
  <2> QED
    BY <2>1, <2>2
<1>2. \A k \in 1..Len(s) : names[s[k]] \in Order!Fragments
  BY <1>1, FragmentsAreNumbered
<1>3. NamesOf(s) \in [1..Len(s) -> Order!Fragments]
  BY <1>2 DEF NamesOf
<1>4. NamesOf(s) \in Seq(Order!Fragments) /\ Len(NamesOf(s)) = Len(s)
  BY <1>1, <1>3, IsASeq
<1> QED
  BY <1>1, <1>4 DEF NamesOf

\* When the visit has ended, its order is one that was asked for.
LEMMA OrderIsGiven == IInv /\ pc = "ordered" => Order!InOrder(NamesOf(ordered))
<1> SUFFICES ASSUME IInv, pc = "ordered" PROVE Order!InOrder(NamesOf(ordered))
  OBVIOUS
<1> DEFINE o == NamesOf(ordered)
<1>1. /\ ordered \in Seq(1..n) /\ OneEach(ordered) /\ SpreadsComeFirst
      /\ \A k \in 1..n : In(ordered, k)
      /\ OneEach(names)
  BY DEF IInv, Numbering, INames, Handed, IOrdered, IFirst, Colours, ILeft, IDone
<1>2. /\ o \in Seq(Order!Fragments) /\ DOMAIN o = 1..Len(ordered) /\ Len(ordered) \in Nat
      /\ \A k \in 1..Len(ordered) : o[k] = names[ordered[k]] /\ ordered[k] \in 1..n
  BY <1>1, NamesOfFacts
<1> HIDE DEF o
<1>3. \A f \in Order!Fragments : \E k \in DOMAIN o : o[k] = f
  <2> SUFFICES ASSUME NEW f \in Order!Fragments PROVE \E k \in DOMAIN o : o[k] = f
    OBVIOUS
  <2>1. PICK i \in 1..n : f = names[i]
    BY FragmentsAreNumbered
  <2>2. PICK k \in 1..Len(ordered) : ordered[k] = i
    BY <1>1 DEF In
  <2> QED
    BY <1>2, <2>1, <2>2
<1>4. \A k, l \in DOMAIN o : o[k] = o[l] => k = l
  BY <1>1, <1>2 DEF OneEach, n
<1>5. \A k, l \in DOMAIN o : <<o[k], o[l]>> \in edges => l < k
  <2> SUFFICES ASSUME NEW k \in 1..Len(ordered), NEW l \in 1..Len(ordered),
                      <<names[ordered[k]], names[ordered[l]]>> \in edges
               PROVE  l < k
    BY <1>2
  <2>1. ordered[k] \in 1..n /\ ordered[l] \in 1..n
    BY <1>2
  <2>2. <<ordered[k], ordered[l]>> \in g
    BY <2>1, UsesAreEdges
  <2>3. PICK i \in 1..k-1 : ordered[i] = ordered[l]
    BY <1>1, <2>1, <2>2 DEF SpreadsComeFirst
  <2>4. i = l
    BY <1>1, <1>2, <2>3 DEF OneEach
  <2> QED
    BY <2>3, <2>4
<1> QED
  BY <1>2, <1>3, <1>4, <1>5 DEF Order!InOrder, o

\* When a cycle was found, it is one.
LEMMA CycleIsGiven == IInv /\ pc = "cycle" => Order!IsCycle(NamesOf(path))
<1> SUFFICES ASSUME IInv, pc = "cycle" PROVE Order!IsCycle(NamesOf(path))
  OBVIOUS
<1> DEFINE p == NamesOf(path)
<1>1. /\ path \in Seq(1..n) /\ Len(path) >= 2 /\ path[1] = path[Len(path)]
      /\ \A k \in 1..Len(path)-1 : <<path[k], path[k+1]>> \in g
  BY DEF IInv, ICycle
<1>2. /\ p \in Seq(Order!Fragments) /\ Len(p) = Len(path) /\ Len(path) \in Nat
      /\ \A k \in 1..Len(path) : p[k] = names[path[k]] /\ path[k] \in 1..n
  BY <1>1, NamesOfFacts
<1> HIDE DEF p
<1>3. p[1] = p[Len(p)]
  <2>1. 1 \in 1..Len(path) /\ Len(path) \in 1..Len(path)
    BY <1>1, <1>2
  <2> QED
    BY <1>1, <1>2, <2>1
<1>4. ASSUME NEW k \in 1..Len(p)-1 PROVE <<p[k], p[k+1]>> \in edges
  <2>1. k \in 1..Len(path) /\ k + 1 \in 1..Len(path) /\ k \in 1..Len(path)-1
    BY <1>2
  <2>2. p[k] = names[path[k]] /\ p[k+1] = names[path[k+1]]
    BY <1>2, <2>1
  <2>3. path[k] \in 1..n /\ path[k+1] \in 1..n /\ <<path[k], path[k+1]>> \in g
    BY <1>1, <1>2, <2>1
  <2> QED
    BY <2>2, <2>3, UsesAreEdges
<1> QED
  BY <1>1, <1>2, <1>3, <1>4 DEF Order!IsCycle, p

\* When the limit was exceeded, there are too many fragments.
LEMMA LimitIsExceeded ==
  ASSUME IInv, NEW x \in Names, NEW y \in Names, LimitExceeded(x, y)
  PROVE  Order!TooMany((Order!Fragments)')
<1> DEFINE t == Numbered(Numbered(names, x), y)
           F == (Order!Fragments)'
<1>1. /\ TypeOK /\ INames /\ pc # "limit" /\ Len(t) > MaxFragments
      /\ edges' = edges \cup {<<x, y>>}
  BY DEF IInv, Numbering, LimitExceeded, TakeEdge
<1>2. NumbersBoth(t, names, x, y)
  BY <1>1, EdgeFacts DEF TypeOK, INames
<1> HIDE DEF t
<1>3. Order!Fragments = {names[k] : k \in 1..n}
  BY <1>1, FragmentsAreNumbered
<1>4. F = Order!Fragments \cup {x, y}
  <2>1. F = {e[1] : e \in edges'} \cup {e[2] : e \in edges'}
    BY DEF Order!Fragments
  <2> DEFINE p == <<x, y>>
  <2>4. p[1] = x /\ p[2] = y /\ edges' = edges \cup {p}
    BY <1>1
  <2> HIDE DEF p
  <2>2. {e[1] : e \in edges'} = {e[1] : e \in edges} \cup {x}
    BY <2>4
  <2>3. {e[2] : e \in edges'} = {e[2] : e \in edges} \cup {y}
    BY <2>4
  <2> QED
    BY <2>1, <2>2, <2>3 DEF Order!Fragments
<1> HIDE DEF F
<1>5. \A k \in 1..Len(t) : t[k] \in F
  BY <1>2, <1>3, <1>4 DEF NumbersBoth, n
<1> DEFINE f == [k \in 1..MaxFragments+1 |-> t[k]]
<1>6. 1..MaxFragments+1 \subseteq 1..Len(t)
  BY <1>1, <1>2, FragmentGraphAssumption DEF NumbersBoth
<1>7. f \in [1..MaxFragments+1 -> F]
  BY <1>5, <1>6
<1>8. \A k, l \in 1..MaxFragments+1 : f[k] = f[l] => k = l
  BY <1>2, <1>6 DEF NumbersBoth, OneEach
<1> QED
  BY <1>7, <1>8 DEF Order!TooMany, F

\* Every step is a step of DependencyOrder, or none.
LEMMA StepSimulation == IInv /\ IInv' /\ [Next]_vars => [Order!Next]_(Order!vars)
<1> SUFFICES ASSUME IInv, IInv', [Next]_vars PROVE [Order!Next]_(Order!vars)
  OBVIOUS
<1>1. CASE UNCHANGED vars
  BY <1>1 DEF vars, Order!vars, NamesOf
<1>2. CASE Begin
  <2>1. Order!Ask
    BY <1>2 DEF Begin, Order!Ask, Answers
  <2> QED
    BY <2>1 DEF Order!Next
<1>3. CASE EndOfEdges
  BY <1>3 DEF EndOfEdges, numbering, Order!vars, Answers
<1>4. CASE Finish
  <2>1. pc = "roots" /\ pc' = "ordered" /\ edges' = edges
    BY <1>4 DEF Finish, numbering
  <2>2. (Order!InOrder(NamesOf(ordered)))'
    <3>1. (IInv /\ pc = "ordered")'
      BY <2>1
    <3> QED
      BY <3>1, OrderIsGiven, PTL
  <2>3. Order!AnswerOrder
    BY <2>1, <2>2 DEF Order!AnswerOrder, Answers, Order!InOrder, Order!Fragments
  <2> QED
    BY <2>3 DEF Order!Next
<1>5. CASE Leave
  <2>1. pc = "scan" /\ pc' \in {"scan", "roots"} /\ edges' = edges
    BY <1>5 DEF Leave, numbering
  <2> QED
    BY <2>1 DEF Order!vars, Answers
<1>6. ASSUME NEW x \in Names, NEW y \in Names, AddEdge(x, y)
      PROVE  [Order!Next]_(Order!vars)
  <2>1. pc = "edges" /\ pc' = "edges" /\ edges' = edges \cup {<<x, y>>}
    BY <1>6 DEF AddEdge, TakeEdge
  <2>2. Order!Tell(x, y)
    BY <2>1 DEF Order!Tell, Answers
  <2> QED
    BY <2>2 DEF Order!Next
<1>7. ASSUME NEW x \in Names, NEW y \in Names, LimitExceeded(x, y)
      PROVE  [Order!Next]_(Order!vars)
  <2>1. pc = "edges" /\ pc' = "limit" /\ edges' = edges \cup {<<x, y>>}
    BY <1>7 DEF LimitExceeded, TakeEdge
  <2>2. Order!TooMany((Order!Fragments)')
    BY <1>7, LimitIsExceeded
  <2>3. Order!AnswerLimit(x, y)
    BY <2>1, <2>2 DEF Order!AnswerLimit, Answers
  <2> QED
    BY <2>3 DEF Order!Next
<1>8. ASSUME NEW k \in Numbers, EnterRoot(k) PROVE [Order!Next]_(Order!vars)
  BY <1>8 DEF EnterRoot, numbering, Order!vars, Answers
<1>9. ASSUME NEW j \in Numbers, Descend(j) PROVE [Order!Next]_(Order!vars)
  BY <1>9 DEF Descend, numbering, Order!vars, Answers
<1>10. ASSUME NEW j \in Numbers, Cycle(j) PROVE [Order!Next]_(Order!vars)
  <2>1. pc = "scan" /\ pc' = "cycle" /\ edges' = edges
    BY <1>10 DEF Cycle, numbering
  <2>2. (Order!IsCycle(NamesOf(path)))'
    <3>1. (IInv /\ pc = "cycle")'
      BY <2>1
    <3> QED
      BY <3>1, CycleIsGiven, PTL
  <2>3. Order!AnswerCycle
    BY <2>1, <2>2 DEF Order!AnswerCycle, Answers, Order!IsCycle, Order!Fragments
  <2> QED
    BY <2>3 DEF Order!Next
<1> QED
  BY <1>1, <1>2, <1>3, <1>4, <1>5, <1>6, <1>7, <1>8, <1>9, <1>10 DEF Next

\* Make answers with a complete order in which every fragment follows what it
\* spreads, with a cycle that exists, or with the limit that was exceeded, for
\* any fragments and edges (41-116).
THEOREM Implementation == Spec => AnswersAreRight
<1>1. Init => Order!Init
  BY DEF Init, Order!Init, Answers
<1>2. IInv /\ IInv' /\ [Next]_vars => [Order!Next]_(Order!vars)
  BY StepSimulation
<1> QED
  BY <1>1, <1>2, Invariance, PTL DEF Spec, AnswersAreRight, Order!Spec
=============================================================================
