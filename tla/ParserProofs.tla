---------------------------- MODULE ParserProofs ----------------------------
(***************************************************************************)
(* Proofs about the calls of the parser, for any documents, variables and  *)
(* numbers of fragments.  What is proved of verdicts and variables holds   *)
(* whatever the scanner and the checks of types make of them; that ranges  *)
(* are in the buffer rests on what Parser assumes of both.                 *)
(***************************************************************************)
EXTENDS Parser, SequenceTheorems, FiniteSetTheorems, TLAPS

IsList(s) == \E S : s \in Seq(S)

\* t is s with x behind it.
IsLonger(t, s, x) ==
  /\ Len(s) \in Nat /\ Len(t) = Len(s) + 1
  /\ \A y \in 1..Len(s) : t[y] = s[y]
  /\ t[Len(s) + 1] = x

LEMMA Appended ==
  ASSUME NEW s, IsList(s), NEW x
  PROVE  IsList(Append(s, x)) /\ IsLonger(Append(s, x), s, x)
<1>1. PICK S : s \in Seq(S)
  BY DEF IsList
<1>2. s \in Seq(S \cup {x})
  BY <1>1, SeqMonotonic
<1> DEFINE t == Append(s, x)
<1>3. /\ t \in Seq(S \cup {x}) /\ Len(t) = Len(s) + 1 /\ Len(s) \in Nat
      /\ \A y \in 1..Len(s) : t[y] = s[y]
      /\ t[Len(s) + 1] = x
  BY <1>2, AppendProperties
<1> QED
  BY <1>3 DEF IsList, IsLonger

LEMMA EmptyList == IsList(<<>>) /\ Len(<<>>) = 0
<1>1. <<>> \in Seq({}) /\ Len(<<>>) = 0
  OBVIOUS
<1> QED
  BY <1>1 DEF IsList

-----------------------------------------------------------------------------
(* The verdicts of a call: the callbacks of Parse.                         *)

\* Every verdict of vs has one of the names in W.
AllIn(vs, W) == \A x \in 1..Len(vs) : vs[x][1] \in W

\* Before the fragments are constructed a verdict ends the call.
Early == {"called", "scan", "select", "operation", "index", "json", "values", "inspect"}

\* What was reported so far did not end the call.
Tolerated(vs, nested) == AllIn(vs, {"VarUndefined"}) /\ (vs # <<>> => nested # <<>>)

VerdictInv ==
  /\ IsList(verdicts)
  /\ pc \in Early => verdicts = <<>>
  /\ pc \in Early \cup {"nested"} => isErr = FALSE
  /\ pc = "nested" => k \in Nat \ {0}
  /\ pc \in {"nested", "varlist", "fill"} => Tolerated(verdicts, ordered)
  /\ pc = "entry" =>
       IF isErr THEN verdicts # <<>> /\ AllIn(verdicts, {"VarUndefined", "FragUndefined"})
       ELSE Tolerated(verdicts, ordered)
  /\ AnswersOnce

LEMMA OneMore ==
  ASSUME NEW vs, IsList(vs), NEW W, AllIn(vs, W), NEW x, x[1] \in W
  PROVE  AllIn(Append(vs, x), W)
<1> DEFINE t == Append(vs, x)
<1>1. IsLonger(t, vs, x)
  BY Appended
<1> HIDE DEF t
<1>2. \A y \in 1..Len(t) : y \in 1..Len(vs) \/ y = Len(vs) + 1
  BY <1>1 DEF IsLonger
<1> QED
  BY <1>1, <1>2 DEF IsLonger, AllIn, t

\* The call ends with one more verdict.
LEMMA LastVerdict ==
  ASSUME IsList(verdicts), Tolerated(verdicts, ordered), ordered' = ordered,
         NEW what, NEW of, Fail(what, of)
  PROVE  VerdictInv'
<1>1. verdicts' = Append(verdicts, <<what, of>>) /\ pc' = "returned"
  BY DEF Fail, Report
<1>2. IsList(verdicts') /\ IsLonger(verdicts', verdicts, <<what, of>>)
  BY <1>1, Appended
<1>3. Len(verdicts') = 1 \/ Len(verdicts') > 1
  BY <1>2 DEF IsLonger
<1>4. \A x \in 1..Len(verdicts')-1 : verdicts'[x][1] = "VarUndefined"
  <2>1. Len(verdicts') - 1 = Len(verdicts)
    BY <1>2 DEF IsLonger
  <2> QED
    BY <2>1, <1>2 DEF IsLonger, Tolerated, AllIn
<1>5. Len(verdicts') > 1 => ordered' # <<>>
  <2>1. verdicts = <<>> => Len(verdicts) = 0
    BY EmptyList
  <2>2. verdicts = <<>> => Len(verdicts') = 1
    BY <2>1, <1>2 DEF IsLonger
  <2>3. verdicts # <<>> => ordered # <<>>
    BY DEF Tolerated
  <2> QED
    BY <2>2, <2>3
<1> QED
  BY <1>1, <1>2, <1>3, <1>4, <1>5 DEF VerdictInv, AnswersOnce, Early, Returned, Succeeded

LEMMA NoVerdicts ==
  ASSUME NEW vs, vs = <<>>, NEW nested
  PROVE  IsList(vs) /\ Tolerated(vs, nested)
BY EmptyList DEF Tolerated, AllIn

\* A step before the fragments, that does not end the call.
GoesOn ==
  /\ pc \in Early /\ verdicts' = verdicts /\ isErr' = isErr
  /\ pc' \in Early \cup {"loops", "panic"}

LEMMA EarlyGoesOn ==
  ASSUME VerdictInv, GoesOn
  PROVE  VerdictInv'
<1>1. verdicts = <<>> /\ verdicts' = <<>> /\ isErr' = FALSE
  BY DEF VerdictInv, GoesOn
<1>2. IsList(verdicts') /\ Tolerated(verdicts', ordered')
  BY <1>1, NoVerdicts
<1> QED
  BY <1>1, <1>2 DEF VerdictInv, GoesOn, Early, AnswersOnce, Returned

LEMMA EarlyFails ==
  ASSUME VerdictInv, pc \in Early, ordered' = ordered, NEW what, NEW of, Fail(what, of)
  PROVE  VerdictInv'
<1>1. verdicts = <<>>
  BY DEF VerdictInv
<1>2. IsList(verdicts) /\ Tolerated(verdicts, ordered)
  BY <1>1, NoVerdicts
<1> QED
  BY <1>2, LastVerdict

LEMMA CallKeepsVerdicts ==
  ASSUME Call
  PROVE  VerdictInv'
<1>1. pc' = "called" /\ verdicts' = <<>> /\ isErr' = FALSE
  BY DEF Call
<1> QED
  BY <1>1, EmptyList DEF VerdictInv, Early, AnswersOnce, Returned

LEMMA ScanKeepsVerdicts ==
  ASSUME VerdictInv, Scan
  PROVE  VerdictInv'
<1>1. CASE ReadDefinition \/ ReadUntypedInline \/ ReadSet \/ DropSetEnd \/ ReadSetEnd
           \/ ReadSpread \/ ReadFragment
  <2>1. GoesOn
    BY <1>1 DEF ReadDefinition, ReadUntypedInline, ReadSet, DropSetEnd, ReadSetEnd, ReadSpread,
                ReadFragment, Read, GoesOn, Early, order
  <2> QED
    BY <2>1, EarlyGoesOn
<1>2. CASE ReadOther \/ EndOfScan
  <2>1. GoesOn
    BY <1>2 DEF ReadOther, EndOfScan, Read, GoesOn, Early, order
  <2> QED
    BY <2>1, EarlyGoesOn
<1>3. CASE RefuseFragment
  <2>1. pc = "scan" /\ ordered' = ordered /\ \E what, of : Fail(what, of)
    BY <1>3 DEF RefuseFragment, Read, order
  <2> QED
    BY <2>1, EarlyFails DEF Early
<1>4. CASE SyntaxError
  <2>1. pc = "scan" /\ ordered' = ordered /\ Fail("Syntax", "")
    BY <1>4 DEF SyntaxError, order
  <2> QED
    BY <2>1, EarlyFails DEF Early
<1> QED
  BY <1>1, <1>2, <1>3, <1>4 DEF Scan

LEMMA SelectKeepsVerdicts ==
  ASSUME VerdictInv, NEW name, SelectOperation(name)
  PROVE  VerdictInv'
<1>1. pc = "select" /\ ordered' = ordered /\ isErr' = isErr
  BY DEF SelectOperation, order
<1>2. (\E what, of : Fail(what, of)) \/ (pc' = "operation" /\ verdicts' = verdicts)
  BY DEF SelectOperation
<1>3. CASE pc' = "operation" /\ verdicts' = verdicts
  BY <1>1, <1>3, EarlyGoesOn DEF GoesOn, Early
<1>4. CASE \E what, of : Fail(what, of)
  BY <1>1, <1>4, EarlyFails DEF Early
<1> QED
  BY <1>2, <1>3, <1>4

LEMMA IndexKeepsVerdicts ==
  ASSUME VerdictInv, InitOperation \/ IndexVariable \/ EndOfVariables
  PROVE  VerdictInv'
<1>1. pc \in {"operation", "index"} /\ ordered' = ordered /\ isErr' = isErr
  BY DEF InitOperation, IndexVariable, EndOfVariables, order
<1>2. \/ \E what, of : Fail(what, of)
      \/ pc' \in {"index", "json", "loops", "panic"} /\ verdicts' = verdicts
  BY DEF InitOperation, IndexVariable, EndOfVariables
<1>3. CASE pc' \in {"index", "json", "loops", "panic"} /\ verdicts' = verdicts
  BY <1>1, <1>3, EarlyGoesOn DEF GoesOn, Early
<1>4. CASE \E what, of : Fail(what, of)
  BY <1>1, <1>4, EarlyFails DEF Early
<1> QED
  BY <1>2, <1>3, <1>4

LEMMA ValuesKeepVerdicts ==
  ASSUME VerdictInv, (\E j \in VarsJSON : CheckJSON(j)) \/ ConstructVariable \/ EndOfValues
  PROVE  VerdictInv'
<1>1. pc \in {"json", "values"} /\ ordered' = ordered /\ isErr' = isErr
  BY DEF CheckJSON, ConstructVariable, EndOfValues, order
<1>2. \/ \E what, of : Fail(what, of)
      \/ pc' \in {"values", "inspect"} /\ verdicts' = verdicts
  BY DEF CheckJSON, ConstructVariable, EndOfValues
<1>3. CASE pc' \in {"values", "inspect"} /\ verdicts' = verdicts
  BY <1>1, <1>3, EarlyGoesOn DEF GoesOn, Early
<1>4. CASE \E what, of : Fail(what, of)
  BY <1>1, <1>4, EarlyFails DEF Early
<1> QED
  BY <1>2, <1>3, <1>4

\* What does not report, and does not end the call.
LEMMA Unreported ==
  ASSUME VerdictInv, pc \in {"varlist", "fill"}, verdicts' = verdicts, ordered' = ordered,
         pc' \in {"varlist", "fill"}
  PROVE  VerdictInv'
<1>1. IsList(verdicts) /\ Tolerated(verdicts, ordered)
  BY DEF VerdictInv
<1> QED
  BY <1>1 DEF VerdictInv, Early, AnswersOnce, Returned

LEMMA InspectKeepsVerdicts ==
  ASSUME VerdictInv, Inspect
  PROVE  VerdictInv'
<1>1. pc = "inspect" /\ isErr' = isErr /\ verdicts = <<>>
  BY DEF Inspect, VerdictInv, Early
<1>2. CASE pc' = "nested" /\ verdicts' = verdicts
  <2>1. k' = 1
    BY DEF Inspect
  <2>2. IsList(verdicts') /\ Tolerated(verdicts', ordered')
    BY <1>1, <1>2, NoVerdicts
  <2>3. isErr' = FALSE
    BY <1>1 DEF VerdictInv, Early
  <2> QED
    BY <1>2, <2>1, <2>2, <2>3 DEF VerdictInv, Early, AnswersOnce, Returned
<1>3. CASE path' # <<>> /\ Fail("FragRecurse", path')
  <2>1. ordered' = ordered
    BY <1>3 DEF Inspect
  <2> QED
    BY <1>1, <1>3, <2>1, EarlyFails DEF Early
<1> QED
  BY <1>2, <1>3 DEF Inspect

LEMMA ConstructReports ==
  ASSUME NEW f, ConstructsFrag(f)
  PROVE  verdicts' = verdicts \/ \E of : verdicts' = Append(verdicts, <<"VarUndefined", of>>)
BY DEF ConstructsFrag, Report

LEMMA NestedKeepsVerdicts ==
  ASSUME VerdictInv, ConstructNested \/ NestedUndefined \/ EndOfNested
  PROVE  VerdictInv'
<1>1. /\ pc = "nested" /\ isErr = FALSE /\ isErr' = isErr /\ ordered' = ordered
      /\ IsList(verdicts) /\ Tolerated(verdicts, ordered)
  BY DEF ConstructNested, NestedUndefined, EndOfNested, VerdictInv, order, Early
<1>2. CASE ConstructNested
  <2>1. pc' = "nested" /\ k <= Len(ordered) /\ k' = k + 1 /\ ConstructsFrag(ordered[k])
    BY <1>1, <1>2 DEF ConstructNested
  <2>2. k \in Nat \ {0}
    BY <1>1 DEF VerdictInv
  <2>3. ordered # <<>>
    BY <2>1, <2>2, EmptyList
  <2>4. PICK of : verdicts' = verdicts \/ verdicts' = Append(verdicts, <<"VarUndefined", of>>)
    BY <2>1, ConstructReports
  <2>5. IsList(verdicts') /\ AllIn(verdicts', {"VarUndefined"})
    <3>1. CASE verdicts' = verdicts
      BY <1>1, <3>1 DEF Tolerated
    <3>2. CASE verdicts' = Append(verdicts, <<"VarUndefined", of>>)
      BY <1>1, <3>2, Appended, OneMore DEF Tolerated
    <3> QED
      BY <2>4, <3>1, <3>2
  <2>6. Tolerated(verdicts', ordered')
    BY <1>1, <2>3, <2>5 DEF Tolerated
  <2> QED
    BY <1>1, <2>1, <2>2, <2>5, <2>6 DEF VerdictInv, Early, AnswersOnce, Returned
<1>3. CASE NestedUndefined
  BY <1>1, <1>3, LastVerdict DEF NestedUndefined
<1>4. CASE EndOfNested
  BY <1>1, <1>4 DEF EndOfNested, VerdictInv, Early, AnswersOnce, Returned
<1> QED
  BY <1>2, <1>3, <1>4

LEMMA VisitKeepsVerdicts ==
  ASSUME VerdictInv, NEW f \in todo, VisitEntry(f)
  PROVE  VerdictInv'
<1>1. pc = "entry" /\ pc' = "entry" /\ ordered' = ordered /\ IsList(verdicts)
  BY DEF VisitEntry, VerdictInv
<1>2. isErr' <=> (isErr \/ verdicts' # verdicts)
  BY DEF VisitEntry
<1>3. \/ verdicts' = verdicts
      \/ \E what \in {"VarUndefined", "FragUndefined"} : \E of : verdicts' = Append(verdicts, <<what, of>>)
  <2>1. CASE Report("FragUndefined", f)
    BY <2>1 DEF Report
  <2>2. CASE ConstructsFrag(f)
    BY <2>2, ConstructReports
  <2> QED
    BY <2>1, <2>2 DEF VisitEntry
<1>4. AllIn(verdicts, {"VarUndefined", "FragUndefined"})
  BY <1>1 DEF VerdictInv, Tolerated, AllIn
<1>5. CASE verdicts' = verdicts
  <2>1. isErr' <=> isErr
    BY <1>2, <1>5
  <2> QED
    BY <1>1, <1>5, <2>1 DEF VerdictInv, Early, AnswersOnce, Returned
<1>6. ASSUME NEW what \in {"VarUndefined", "FragUndefined"}, NEW of, verdicts' = Append(verdicts, <<what, of>>)
      PROVE  VerdictInv'
  <2>1. /\ IsList(verdicts') /\ IsLonger(verdicts', verdicts, <<what, of>>)
        /\ AllIn(verdicts', {"VarUndefined", "FragUndefined"})
    BY <1>1, <1>4, <1>6, Appended, OneMore
  <2>2. Len(verdicts') # Len(verdicts) /\ Len(verdicts') # 0
    BY <2>1 DEF IsLonger
  <2>3. isErr' /\ verdicts' # <<>>
    BY <1>2, <2>2, EmptyList
  <2> QED
    BY <1>1, <2>1, <2>3 DEF VerdictInv, Early, AnswersOnce, Returned
<1> QED
  BY <1>3, <1>5, <1>6

LEMMA EntriesKeepVerdicts ==
  ASSUME VerdictInv, EndOfEntries
  PROVE  VerdictInv'
<1>1. pc = "entry" /\ verdicts' = verdicts /\ ordered' = ordered /\ IsList(verdicts)
  BY DEF EndOfEntries, VerdictInv, order
<1>2. CASE ~isErr
  BY <1>1, <1>2 DEF EndOfEntries, VerdictInv, Early, AnswersOnce, Returned
<1>3. CASE isErr
  <2>1. pc' = "returned" /\ verdicts # <<>> /\ AllIn(verdicts, {"VarUndefined", "FragUndefined"})
    BY <1>1, <1>3 DEF EndOfEntries, VerdictInv
  <2>2. Len(verdicts) \in Nat \ {0}
    BY <1>1, <2>1, EmptySeq DEF IsList
  <2>3. /\ \A x \in 1..Len(verdicts)-1 : verdicts[x][1] \in {"VarUndefined", "FragUndefined"}
        /\ verdicts[Len(verdicts)][1] # "success"
    BY <2>1, <2>2 DEF AllIn
  <2>4. Len(verdicts) = 1 \/ Len(verdicts) > 1
    <3>1. \A n \in Nat \ {0} : n = 1 \/ n > 1
      OBVIOUS
    <3> QED
      BY <2>2, <3>1
  <2> QED
    BY <1>1, <2>1, <2>3, <2>4 DEF VerdictInv, Early, AnswersOnce, Returned, Succeeded
<1> QED
  BY <1>2, <1>3

LEMMA AnswerKeepsVerdicts ==
  ASSUME VerdictInv, Answer
  PROVE  VerdictInv'
<1>1. CASE DeclareVariables \/ FillOther \/ FillSpread
  <2>1. /\ pc \in {"varlist", "fill"} /\ verdicts' = verdicts /\ ordered' = ordered
        /\ pc' = "fill"
    BY <1>1 DEF DeclareVariables, FillOther, FillSpread, Fill, order
  <2> QED
    BY <2>1, Unreported
<1>2. CASE FillReference \/ Unused \/ Success
  <2>1. /\ pc = "fill" /\ ordered' = ordered
        /\ (pc' = "fill" /\ verdicts' = verdicts) \/ \E what, of : Fail(what, of)
    BY <1>2 DEF FillReference, Unused, Success, Fill, order, Fail
  <2>2. IsList(verdicts) /\ Tolerated(verdicts, ordered)
    BY <2>1 DEF VerdictInv
  <2>3. CASE pc' = "fill" /\ verdicts' = verdicts
    BY <2>1, <2>3, Unreported
  <2>4. CASE \E what, of : Fail(what, of)
    BY <2>1, <2>2, <2>4, LastVerdict
  <2> QED
    BY <2>1, <2>3, <2>4
<1> QED
  BY <1>1, <1>2 DEF Answer

\* However a call ends, the callbacks got one error or the operation, and more
\* than that only from fragments (453, 463): for any documents and variables,
\* any scanner, and any answers of the checks of types.
THEOREM OneAnswer == Spec => []AnswersOnce
<1>1. Init => VerdictInv
  BY EmptyList DEF Init, VerdictInv, Early, AnswersOnce, Returned
<1>2. VerdictInv /\ [Next]_vars => VerdictInv'
  <2> SUFFICES ASSUME VerdictInv, [Next]_vars PROVE VerdictInv'
    OBVIOUS
  <2>1. CASE Call
    BY <2>1, CallKeepsVerdicts
  <2>2. ASSUME NEW doc \in Documents, Receive(doc) PROVE VerdictInv'
    <3>1. GoesOn
      BY <2>2 DEF Receive, GoesOn, Early, order
    <3> QED
      BY <3>1, EarlyGoesOn
  <2>3. CASE Scan
    BY <2>3, ScanKeepsVerdicts
  <2>4. ASSUME NEW name \in OperationNames, SelectOperation(name) PROVE VerdictInv'
    BY <2>4, SelectKeepsVerdicts
  <2>5. CASE InitOperation \/ IndexVariable \/ EndOfVariables
    BY <2>5, IndexKeepsVerdicts
  <2>6. CASE (\E j \in VarsJSON : CheckJSON(j)) \/ ConstructVariable \/ EndOfValues
    BY <2>6, ValuesKeepVerdicts
  <2>7. CASE Inspect
    BY <2>7, InspectKeepsVerdicts
  <2>8. CASE ConstructNested \/ NestedUndefined \/ EndOfNested
    BY <2>8, NestedKeepsVerdicts
  <2>9. CASE \E f \in todo : VisitEntry(f)
    BY <2>9, VisitKeepsVerdicts
  <2>10. CASE EndOfEntries
    BY <2>10, EntriesKeepVerdicts
  <2>11. CASE Answer
    BY <2>11, AnswerKeepsVerdicts
  <2>12. CASE UNCHANGED vars
    BY <2>12 DEF vars, order, place, VerdictInv, AnswersOnce, Returned, Succeeded
  <2> QED
    BY <2>1, <2>2, <2>3, <2>4, <2>5, <2>6, <2>7, <2>8, <2>9, <2>10, <2>11, <2>12
       DEF Next, Construction, Stuck
<1>3. VerdictInv => AnswersOnce
  BY DEF VerdictInv
<1> QED
  BY <1>1, <1>2, <1>3, PTL DEF Spec

-----------------------------------------------------------------------------
(* The variables: varOrder, varsDecls and varsConstructed.                 *)

Constructing == {"inspect", "nested", "entry", "varlist", "fill"}

\* Every variable that is declared has its value at its index, and no other
\* variable has one: a reference gets the value of its variable, or an error.
VariablesAreIndexed ==
  pc \in Constructing =>
    \A v : IF v \in DOMAIN varsDecls
           THEN ValueIndex(v) + 1 \in 1..Len(varOrder) /\ varOrder[ValueIndex(v) + 1] = v
           ELSE ValueIndex(v) = -1

\* The declarations are those of the names in order, each of which is there once.
Declared(decls, names) ==
  /\ IsList(names)
  /\ \A v : v \in DOMAIN decls <=> \E x \in 1..Len(names) : names[x] = v
  /\ \A x, y \in 1..Len(names) : names[x] = names[y] => x = y

\* The first values are those of the first names.
Valued(values, names) ==
  /\ IsList(values)
  /\ Len(values) <= Len(names)
  /\ \A x \in 1..Len(values) : values[x][1] = names[x]

VariableInv ==
  /\ pc \in {"called", "scan", "select", "operation"} => varOrder = <<>> /\ varsDecls = <<>>
  /\ pc \in {"called", "scan", "select", "operation", "index", "json"} => varsConstructed = <<>> /\ k = 1
  /\ pc \in {"index", "json", "values"} \cup Constructing => Declared(varsDecls, varOrder)
  /\ pc = "values" => k = Len(varsConstructed) + 1
  /\ pc \in {"values"} \cup Constructing => Valued(varsConstructed, varOrder)
  /\ pc \in Constructing => Len(varsConstructed) = Len(varOrder)

LEMMA MoreDeclared ==
  ASSUME NEW decls, NEW names, Declared(decls, names), NEW v, v \notin DOMAIN decls, NEW d
  PROVE  Declared(With(decls, v, d), Append(names, v))
<1> DEFINE t == Append(names, v)
<1>1. IsList(t) /\ IsLonger(t, names, v)
  BY Appended DEF Declared
<1>2. DOMAIN With(decls, v, d) = DOMAIN decls \cup {v}
  BY DEF With
<1> HIDE DEF t
<1>3. /\ \A x \in 1..Len(t) : x \in 1..Len(names) \/ x = Len(names) + 1
      /\ \A x \in 1..Len(names) : x \in 1..Len(t)
      /\ Len(names) + 1 \in 1..Len(t)
  BY <1>1 DEF IsLonger
<1>4. \A x \in 1..Len(names) : names[x] # v /\ t[x] = names[x]
  BY <1>1 DEF Declared, IsLonger
<1>5. t[Len(names) + 1] = v
  BY <1>1 DEF IsLonger
<1>6. \A w : w \in DOMAIN With(decls, v, d) <=> \E x \in 1..Len(t) : t[x] = w
  BY <1>2, <1>3, <1>4, <1>5 DEF Declared
<1>7. \A x, y \in 1..Len(t) : t[x] = t[y] => x = y
  BY <1>3, <1>4, <1>5 DEF Declared
<1> QED
  BY <1>1, <1>6, <1>7 DEF Declared, t

LEMMA MoreValued ==
  ASSUME NEW values, NEW names, IsList(names), Valued(values, names), Len(values) + 1 <= Len(names), NEW value
  PROVE  /\ Valued(Append(values, <<names[Len(values) + 1], value>>), names)
         /\ Len(Append(values, <<names[Len(values) + 1], value>>)) = Len(values) + 1
<1> DEFINE new == <<names[Len(values) + 1], value>>
           t == Append(values, new)
<1>0. new[1] = names[Len(values) + 1]
  OBVIOUS
<1> HIDE DEF new
<1>1. IsList(t) /\ IsLonger(t, values, new)
  BY Appended DEF Valued
<1> HIDE DEF t
<1>2. \A x \in 1..Len(t) : x \in 1..Len(values) \/ x = Len(values) + 1
  BY <1>1 DEF IsLonger
<1>3. \A x \in 1..Len(t) : t[x][1] = names[x]
  BY <1>0, <1>1, <1>2 DEF IsLonger, Valued
<1> QED
  BY <1>1, <1>3 DEF Valued, IsLonger, t, new

LEMMA ValuesAreFound ==
  ASSUME VariableInv
  PROVE  VariablesAreIndexed
<1> SUFFICES ASSUME pc \in Constructing, NEW v
             PROVE  IF v \in DOMAIN varsDecls
                    THEN ValueIndex(v) + 1 \in 1..Len(varOrder) /\ varOrder[ValueIndex(v) + 1] = v
                    ELSE ValueIndex(v) = -1
  BY DEF VariablesAreIndexed
<1>1. /\ Declared(varsDecls, varOrder) /\ Valued(varsConstructed, varOrder)
      /\ Len(varsConstructed) = Len(varOrder)
  BY DEF VariableInv
<1>2. DOMAIN varsConstructed = 1..Len(varOrder) /\ Len(varOrder) \in Nat
  <2>1. PICK S : varsConstructed \in Seq(S)
    BY <1>1 DEF Valued, IsList
  <2> QED
    BY <1>1, <2>1
<1> DEFINE Has(x) == varsConstructed[x][1] = v
           x0 == CHOOSE x \in DOMAIN varsConstructed : Has(x)
<1>3. v \in DOMAIN varsDecls <=> \E x \in DOMAIN varsConstructed : Has(x)
  BY <1>1, <1>2 DEF Declared, Valued
<1>4. ValueIndex(v) = IF \E x \in DOMAIN varsConstructed : Has(x) THEN x0 - 1 ELSE -1
  BY DEF ValueIndex
<1>5. CASE v \in DOMAIN varsDecls
  <2>1. x0 \in DOMAIN varsConstructed /\ Has(x0)
    BY <1>3, <1>5
  <2> HIDE DEF x0
  <2>2. x0 \in 1..Len(varOrder) /\ varOrder[x0] = v
    BY <1>1, <1>2, <2>1 DEF Valued
  <2>3. ValueIndex(v) = x0 - 1
    BY <1>3, <1>4, <1>5
  <2>4. ValueIndex(v) + 1 = x0
    BY <1>2, <2>2, <2>3
  <2> QED
    BY <1>5, <2>2, <2>4
<1>6. CASE v \notin DOMAIN varsDecls
  BY <1>3, <1>4, <1>6
<1> QED
  BY <1>5, <1>6

LEMMA ScanKeepsVariables ==
  ASSUME VariableInv,
         Scan \/ (\E doc \in Documents : Receive(doc)) \/ (\E name \in OperationNames : SelectOperation(name))
  PROVE  VariableInv'
<1>1. pc \in {"called", "scan", "select"} /\ UNCHANGED <<varOrder, varsDecls, varsConstructed, k>>
  BY DEF Scan, Receive, SelectOperation, ReadDefinition, ReadUntypedInline, ReadSet, DropSetEnd,
         ReadSetEnd, ReadSpread, ReadFragment, RefuseFragment, ReadOther, SyntaxError, EndOfScan,
         Read, variables, place
<1>2. pc' \in {"scan", "select", "operation", "returned"}
  BY DEF Scan, Receive, SelectOperation, ReadDefinition, ReadUntypedInline, ReadSet, DropSetEnd,
         ReadSetEnd, ReadSpread, ReadFragment, RefuseFragment, ReadOther, SyntaxError, EndOfScan,
         Read, Fail
<1> QED
  BY <1>1, <1>2 DEF VariableInv, Constructing

LEMMA NoneDeclared == Declared(<<>>, <<>>)
<1>1. DOMAIN <<>> = {}
  OBVIOUS
<1> QED
  BY <1>1, EmptyList DEF Declared

LEMMA IndexKeepsVariables ==
  ASSUME VariableInv, InitOperation \/ IndexVariable \/ EndOfVariables
  PROVE  VariableInv'
<1>1. CASE InitOperation
  <2>1. pc = "operation" /\ pc' \in {"index", "json"} /\ UNCHANGED <<varOrder, varsDecls, varsConstructed, k>>
    BY <1>1 DEF InitOperation, variables
  <2>2. Declared(varsDecls, varOrder)
    BY <2>1, NoneDeclared DEF VariableInv
  <2> QED
    BY <2>1, <2>2 DEF VariableInv, Constructing
<1>2. CASE EndOfVariables
  <2>1. pc = "index" /\ pc' = "json" /\ UNCHANGED <<varOrder, varsDecls, varsConstructed, k>>
    BY <1>2 DEF EndOfVariables, variables
  <2> QED
    BY <2>1 DEF VariableInv, Constructing
<1>3. CASE IndexVariable
  <2> DEFINE name == O[i][2]
  <2>1. pc = "index" /\ UNCHANGED <<varsConstructed, k>>
    BY <1>3 DEF IndexVariable, place
  <2>2. CASE pc' \in {"loops", "panic", "returned"}
    BY <2>2 DEF VariableInv, Constructing
  <2>3. CASE pc' = "index"
    <3>1. \/ UNCHANGED <<varOrder, varsDecls>>
          \/ /\ name \notin DOMAIN varsDecls /\ varOrder' = Append(varOrder, name)
             /\ \E d : varsDecls' = With(varsDecls, name, d)
      BY <1>3, <2>3 DEF IndexVariable, Fail
    <3> HIDE DEF name
    <3>2. Declared(varsDecls, varOrder)
      BY <2>1 DEF VariableInv
    <3>3. Declared(varsDecls', varOrder')
      BY <3>1, <3>2, MoreDeclared
    <3> QED
      BY <2>1, <2>3, <3>3 DEF VariableInv, Constructing
  <2>4. pc' \in {"loops", "panic", "returned", "index"}
    BY <1>3, <2>1 DEF IndexVariable, Fail
  <2> QED
    BY <2>2, <2>3, <2>4
<1> QED
  BY <1>1, <1>2, <1>3

LEMMA ValuesKeepVariables ==
  ASSUME VariableInv, (\E j \in VarsJSON : CheckJSON(j)) \/ ConstructVariable \/ EndOfValues
  PROVE  VariableInv'
<1>1. CASE \E j \in VarsJSON : CheckJSON(j)
  <2>1. pc = "json" /\ pc' \in {"values", "returned"} /\ UNCHANGED <<varOrder, varsDecls, varsConstructed, k>>
    BY <1>1 DEF CheckJSON, Fail, place
  <2>2. Declared(varsDecls, varOrder) /\ varsConstructed = <<>> /\ k = 1
    BY <2>1 DEF VariableInv
  <2>3. Valued(varsConstructed, varOrder) /\ k = Len(varsConstructed) + 1
    <3>1. IsList(varsConstructed) /\ Len(varsConstructed) = 0
      BY <2>2, EmptyList
    <3>2. Len(varOrder) \in Nat
      BY <2>2 DEF Declared, IsList
    <3> QED
      BY <2>2, <3>1, <3>2 DEF Valued
  <2> QED
    BY <2>1, <2>2, <2>3 DEF VariableInv, Constructing
<1>2. CASE ConstructVariable
  <2>1. pc = "values" /\ k <= Len(varOrder) /\ UNCHANGED <<varOrder, varsDecls>>
    BY <1>2 DEF ConstructVariable
  <2>2. \/ pc' = "returned"
        \/ pc' = "values" /\ k' = k + 1 /\ \E value : varsConstructed' = Append(varsConstructed, <<varOrder[k], value>>)
    BY <1>2 DEF ConstructVariable, Fail
  <2>3. /\ Declared(varsDecls, varOrder) /\ Valued(varsConstructed, varOrder)
        /\ k = Len(varsConstructed) + 1 /\ IsList(varOrder)
    BY <2>1 DEF VariableInv, Declared
  <2>4. CASE pc' = "returned"
    BY <2>4 DEF VariableInv, Constructing
  <2>5. ASSUME pc' = "values", k' = k + 1, NEW value, varsConstructed' = Append(varsConstructed, <<varOrder[k], value>>)
        PROVE  VariableInv'
    <3>1. /\ Valued(varsConstructed', varOrder)
          /\ Len(varsConstructed') = Len(varsConstructed) + 1
      BY <2>1, <2>3, <2>5, MoreValued
    <3>2. k' = Len(varsConstructed') + 1
      BY <2>3, <2>5, <3>1
    <3> QED
      BY <2>1, <2>3, <2>5, <3>1, <3>2 DEF VariableInv, Constructing
  <2> QED
    BY <2>2, <2>4, <2>5
<1>3. CASE EndOfValues
  <2>1. pc = "values" /\ k > Len(varOrder) /\ pc' = "inspect" /\ UNCHANGED <<varOrder, varsDecls, varsConstructed>>
    BY <1>3 DEF EndOfValues, variables
  <2>2. Declared(varsDecls, varOrder) /\ Valued(varsConstructed, varOrder) /\ k = Len(varsConstructed) + 1
    BY <2>1 DEF VariableInv
  <2>3. Len(varsConstructed) \in Nat /\ Len(varOrder) \in Nat
    BY <2>2 DEF Valued, Declared, IsList
  <2>4. Len(varsConstructed) = Len(varOrder)
    BY <2>1, <2>2, <2>3 DEF Valued
  <2> QED
    BY <2>1, <2>2, <2>4 DEF VariableInv, Constructing
<1> QED
  BY <1>1, <1>2, <1>3

LEMMA RestKeepsVariables ==
  ASSUME VariableInv, Construction \/ Answer
  PROVE  VariableInv'
<1>1. pc \in Constructing /\ UNCHANGED <<varOrder, varsDecls, varsConstructed>>
  BY DEF Construction, Answer, Inspect, ConstructNested, NestedUndefined, EndOfNested, VisitEntry,
         EndOfEntries, DeclareVariables, FillOther, FillSpread, FillReference, Unused, Success, Fill,
         variables, Constructing
<1>2. pc' \in Constructing \cup {"returned"}
  BY <1>1 DEF Construction, Answer, Inspect, ConstructNested, NestedUndefined, EndOfNested, VisitEntry,
         EndOfEntries, DeclareVariables, FillOther, FillSpread, FillReference, Unused, Success, Fill,
         Fail, Constructing
<1> QED
  BY <1>1, <1>2 DEF VariableInv, Constructing

\* From the check of the fragments to the answer, a reference in an operation or
\* fragment gets the value of the variable of its name (makeVarValueRefTok), or
\* is refused: for any declarations, values and JSON, of this and earlier calls.
THEOREM ReferencesAreRight == Spec => []VariablesAreIndexed
<1>1. Init => VariableInv
  BY DEF Init, VariableInv, Constructing
<1>2. VariableInv /\ [Next]_vars => VariableInv'
  <2> SUFFICES ASSUME VariableInv, [Next]_vars PROVE VariableInv'
    OBVIOUS
  <2>1. CASE Call
    BY <2>1 DEF Call, reset, VariableInv, Constructing
  <2>2. CASE Scan \/ (\E doc \in Documents : Receive(doc)) \/ (\E name \in OperationNames : SelectOperation(name))
    BY <2>2, ScanKeepsVariables
  <2>3. CASE InitOperation \/ IndexVariable \/ EndOfVariables
    BY <2>3, IndexKeepsVariables
  <2>4. CASE (\E j \in VarsJSON : CheckJSON(j)) \/ ConstructVariable \/ EndOfValues
    BY <2>4, ValuesKeepVariables
  <2>5. CASE Construction \/ Answer
    BY <2>5, RestKeepsVariables
  <2>6. CASE UNCHANGED vars
    BY <2>6 DEF vars, variables, place, VariableInv
  <2> QED
    BY <2>1, <2>2, <2>3, <2>4, <2>5, <2>6 DEF Next, Stuck
<1>3. VariableInv => VariablesAreIndexed
  BY ValuesAreFound
<1> QED
  BY <1>1, <1>2, <1>3, PTL DEF Spec

-----------------------------------------------------------------------------
(* The scan: what the counters of stacks tell of the sets that are open.   *)

LEMMA OneMoreCounted ==
  ASSUME NEW t, NEW x \in Nat, NEW id
  PROVE  /\ Count(t, 0, id) = 0 /\ Count(t, x, id) \in Nat
         /\ Count(t, x + 1, id) = Count(t, x, id) + (IF t[x + 1][1] = id THEN 1 ELSE 0)
<1> DEFINE C(y) == {z \in 1..y : t[z][1] = id}
<1>1. IsFiniteSet(C(x)) /\ Cardinality(C(x)) \in Nat
  <2>1. IsFiniteSet(1..x)
    BY FS_Interval
  <2> QED
    BY <2>1, FS_Subset, FS_CardinalityType
<1>2. C(0) = {}
  OBVIOUS
<1>3. C(x + 1) = (IF t[x + 1][1] = id THEN C(x) \cup {x + 1} ELSE C(x)) /\ x + 1 \notin C(x)
  <2>1. \A z : z \in 1..(x + 1) <=> z \in 1..x \/ z = x + 1
    OBVIOUS
  <2> QED
    BY <2>1
<1>4. Cardinality(C(x) \cup {x + 1}) = Cardinality(C(x)) + 1
  BY <1>1, <1>3, FS_AddElement
<1>5. Cardinality(C(0)) = 0
  BY <1>2, FS_EmptySet
<1>6. Count(t, 0, id) = Cardinality(C(0)) /\ Count(t, x, id) = Cardinality(C(x)) /\ Count(t, x + 1, id) = Cardinality(C(x + 1))
  BY DEF Count
<1> HIDE DEF C
<1> QED
  BY <1>1, <1>3, <1>4, <1>5, <1>6

LEMMA NextDepth ==
  ASSUME NEW t, NEW x \in Nat
  PROVE  /\ Depth(t, 0) = 0 /\ Depth(t, x) \in Int
         /\ Depth(t, x + 1) = Depth(t, x) + (IF t[x + 1][1] = "Set" THEN 1
                                             ELSE IF t[x + 1][1] = "SetEnd" THEN -1 ELSE 0)
<1>1. /\ Count(t, 0, "Set") = 0 /\ Count(t, x, "Set") \in Nat
      /\ Count(t, x + 1, "Set") = Count(t, x, "Set") + (IF t[x + 1][1] = "Set" THEN 1 ELSE 0)
  BY OneMoreCounted
<1>2. /\ Count(t, 0, "SetEnd") = 0 /\ Count(t, x, "SetEnd") \in Nat
      /\ Count(t, x + 1, "SetEnd") = Count(t, x, "SetEnd") + (IF t[x + 1][1] = "SetEnd" THEN 1 ELSE 0)
  BY OneMoreCounted
<1> QED
  BY <1>1, <1>2 DEF Depth

NoSet(t, x, y) == \A z \in x..y : t[z][1] # "Set"

LEMMA NextBegun ==
  ASSUME NEW t, NEW x \in Nat
  PROVE  /\ ~Begun(t, 0)
         /\ Begun(t, x + 1) <=> t[x + 1][1] # "Set" /\ (Starts(t[x + 1]) \/ Begun(t, x))
<1>1. \A z : z \in 1..(x + 1) <=> z \in 1..x \/ z = x + 1
  OBVIOUS
<1>2. \A y \in 1..x : \A z : z \in y..(x + 1) <=> z \in y..x \/ z = x + 1
  OBVIOUS
<1>3. \A z : z \in (x + 1)..(x + 1) <=> z = x + 1
  OBVIOUS
<1>4. 1..0 = {}
  OBVIOUS
<1> QED
  BY <1>1, <1>2, <1>3, <1>4 DEF Begun, Starts

\* After p tokens of t no set is open that the counters do not know of, and the
\* outermost one is not one that was dropped.
Counters(t, p, stack, frag) ==
  /\ stack \in Int /\ frag \in Nat
  /\ IF p > 0 /\ Untyped(t[p])
     THEN 0 < frag /\ frag <= Depth(t, p) /\ stack + frag <= Depth(t, p) + 1
     ELSE (frag = 0 \/ frag < Depth(t, p)) /\ stack + frag <= Depth(t, p)

CountersStep(tok, stack, frag, stack2, frag2) ==
  IF Untyped(tok) THEN stack2 = stack /\ frag2 = frag + 1
  ELSE CASE tok[1] = "Set"    -> frag2 = frag /\ stack2 = IF frag > 0 THEN stack ELSE stack + 1
         [] tok[1] = "SetEnd" -> IF frag > 0 THEN frag2 = frag - 1 /\ stack2 = stack
                                 ELSE frag2 = 0 /\ stack2 = stack - 1
         [] OTHER             -> frag2 = frag /\ stack2 = stack

\* What the scanner promises of the place behind p.
Promised(t, p) ==
  /\ Len(t) \in Nat
  /\ Depth(t, p) \in Nat /\ Depth(t, p + 1) \in Nat
  /\ Begun(t, p) => Depth(t, p) = 0
  /\ Begun(t, p + 1) => Depth(t, p + 1) = 0
  /\ Starts(t[p + 1]) => Depth(t, p) = 0 /\ ~Begun(t, p)
  /\ Untyped(t[p + 1]) => Depth(t, p + 1) > 0
  /\ p > 0 /\ Untyped(t[p]) => t[p + 1][1] = "Set" /\ Depth(t, p) > 0
  /\ p > 0 /\ t[p][1] = "FragName" => t[p + 1][1] = "FragTypeCond"
  /\ p > 0 /\ t[p][1] = "FragTypeCond" => t[p + 1][1] = "Set"
  /\ t[p + 1][1] = "FragName" => t[p + 1][2] # ""

LEMMA PromiseIsKept ==
  ASSUME NEW t, IsScanned(t), NEW p \in Nat, p < Len(t)
  PROVE  Promised(t, p)
<1>1. Len(t) \in Nat
  <2>1. t \in Seq(ToSet(t))
    BY Zenon DEF IsScanned
  <2> QED
    BY <2>1
<1>2. p \in 0..Len(t) /\ p + 1 \in 0..Len(t) /\ p + 1 \in 1..Len(t) /\ (p + 1) - 1 = p
  BY <1>1
<1>3. Depth(t, p) \in Int /\ Depth(t, p + 1) \in Int
  BY <1>2, NextDepth
<1>4. Depth(t, p) >= 0 /\ Depth(t, p + 1) >= 0
  BY <1>2 DEF IsScanned
<1>5. Depth(t, p) \in Nat /\ Depth(t, p + 1) \in Nat
  BY <1>3, <1>4
<1>6. p > 0 => p \in 1..Len(t)
  BY <1>1
<1>7. p > 0 /\ Untyped(t[p]) => t[p][1] = "FragInline" /\ t[p + 1][1] = "Set" /\ Depth(t, p) > 0
  BY <1>6 DEF IsScanned, Untyped
<1>8. /\ p > 0 /\ t[p][1] = "FragName" => t[p + 1][1] = "FragTypeCond"
      /\ p > 0 /\ t[p][1] = "FragTypeCond" => t[p + 1][1] = "Set"
  BY <1>6 DEF IsScanned
<1>9. /\ Begun(t, p) => Depth(t, p) = 0
      /\ Begun(t, p + 1) => Depth(t, p + 1) = 0
  BY <1>2 DEF IsScanned
<1>10. /\ Starts(t[p + 1]) => Depth(t, (p + 1) - 1) = 0 /\ ~Begun(t, (p + 1) - 1)
       /\ Untyped(t[p + 1]) => Depth(t, p + 1) > 0
       /\ t[p + 1][1] = "FragName" => t[p + 1][2] # ""
  BY <1>2 DEF IsScanned
<1> QED
  BY <1>1, <1>2, <1>5, <1>7, <1>8, <1>9, <1>10 DEF Promised

LEMMA CountersNext ==
  ASSUME NEW t, IsScanned(t), NEW p \in Nat, p < Len(t),
         NEW stack, NEW frag, Counters(t, p, stack, frag),
         NEW stack2, NEW frag2, CountersStep(t[p + 1], stack, frag, stack2, frag2)
  PROVE  Counters(t, p + 1, stack2, frag2)
<1> DEFINE d == Depth(t, p)
           e == Depth(t, p + 1)
           tok == t[p + 1]
<1>1. /\ d \in Nat /\ e \in Nat
      /\ e = d + (IF tok[1] = "Set" THEN 1 ELSE IF tok[1] = "SetEnd" THEN -1 ELSE 0)
      /\ Untyped(tok) => e > 0
      /\ p > 0 /\ Untyped(t[p]) => tok[1] = "Set" /\ d > 0
  <2>1. Promised(t, p)
    BY PromiseIsKept
  <2>2. e = d + (IF tok[1] = "Set" THEN 1 ELSE IF tok[1] = "SetEnd" THEN -1 ELSE 0)
    BY NextDepth
  <2> QED
    BY <2>1, <2>2 DEF Promised
<1>2. p + 1 > 0
  OBVIOUS
<1>3. /\ stack \in Int /\ frag \in Nat
      /\ IF p > 0 /\ Untyped(t[p])
         THEN 0 < frag /\ frag <= d /\ stack + frag <= d + 1
         ELSE (frag = 0 \/ frag < d) /\ stack + frag <= d
  BY DEF Counters
<1>4. Untyped(tok) => tok[1] = "FragInline"
  BY DEF Untyped
<1> HIDE DEF d, e
<1>5. CASE Untyped(tok)
  BY <1>1, <1>2, <1>3, <1>4, <1>5 DEF Counters, CountersStep, e
<1>6. CASE tok[1] = "Set"
  BY <1>1, <1>2, <1>3, <1>4, <1>6 DEF Counters, CountersStep, e
<1>7. CASE tok[1] = "SetEnd"
  BY <1>1, <1>2, <1>3, <1>4, <1>7 DEF Counters, CountersStep, e
<1>8. CASE ~Untyped(tok) /\ tok[1] \notin {"Set", "SetEnd"}
  BY <1>1, <1>2, <1>3, <1>4, <1>8 DEF Counters, CountersStep, e
<1> QED
  BY <1>5, <1>6, <1>7, <1>8

\* The end of the last open set is not dropped, and the counter tells that it is
\* the last.
LEMMA LastSetEnd ==
  ASSUME NEW t, IsScanned(t), NEW p \in Nat, p < Len(t),
         NEW stack, NEW frag, Counters(t, p, stack, frag),
         t[p + 1][1] = "SetEnd"
  PROVE  /\ Depth(t, p) > 0
         /\ Depth(t, p + 1) = 0 => frag = 0 /\ stack - 1 < 1
<1> DEFINE d == Depth(t, p)
           e == Depth(t, p + 1)
<1>1. /\ d \in Nat /\ e \in Nat /\ e = d - 1
      /\ ~(p > 0 /\ Untyped(t[p]))
  <2>1. Promised(t, p)
    BY PromiseIsKept
  <2>2. e = d + (IF t[p + 1][1] = "Set" THEN 1 ELSE IF t[p + 1][1] = "SetEnd" THEN -1 ELSE 0)
    BY NextDepth
  <2>3. e = d - 1
    BY <2>1, <2>2 DEF Promised
  <2> QED
    BY <2>1, <2>3 DEF Promised
<1> HIDE DEF d, e
<1>2. stack \in Int /\ frag \in Nat /\ (frag = 0 \/ frag < d) /\ stack + frag <= d
  BY <1>1 DEF Counters, d
<1>3. d > 0 /\ (e = 0 => frag = 0 /\ stack - 1 < 1)
  BY <1>1, <1>2
<1> QED
  BY <1>3 DEF d, e

\* Before the selections of a definition nothing is dropped.
LEMMA BegunKeeps ==
  ASSUME NEW t, IsScanned(t), NEW p \in Nat, p < Len(t),
         NEW stack, NEW frag, Counters(t, p, stack, frag), Begun(t, p)
  PROVE  frag = 0 /\ ~Untyped(t[p + 1]) /\ t[p + 1][1] # "SetEnd"
<1>1. Promised(t, p)
  BY PromiseIsKept
<1>2. Depth(t, p) = 0 /\ ~(p > 0 /\ Untyped(t[p]))
  <2>1. Begun(t, p)
    OBVIOUS
  <2>2. Depth(t, p) = 0
    BY <1>1, <2>1 DEF Promised
  <2>3. p > 0 /\ Untyped(t[p]) => Depth(t, p) > 0
    BY <1>1 DEF Promised
  <2> QED
    BY <2>2, <2>3
<1>3. frag = 0
  BY <1>2 DEF Counters
<1>4. Depth(t, p + 1) = Depth(t, p) + (IF t[p + 1][1] = "Set" THEN 1 ELSE IF t[p + 1][1] = "SetEnd" THEN -1 ELSE 0)
  BY NextDepth
<1>5. Depth(t, p + 1) \in Nat /\ (Untyped(t[p + 1]) => Depth(t, p + 1) > 0)
  BY <1>1 DEF Promised
<1>6. t[p + 1][1] # "SetEnd"
  BY <1>2, <1>4, <1>5
<1>7. Untyped(t[p + 1]) => t[p + 1][1] = "FragInline"
  BY DEF Untyped
<1>8. ~Untyped(t[p + 1])
  BY <1>2, <1>4, <1>5, <1>7
<1> QED
  BY <1>3, <1>6, <1>8

\* The scan is in a definition: def is "DefQry" in an operation, the last one,
\* and name is that of the fragment.  n tokens were kept.
InDefinition(t, p, n, ops, frags, def, name) ==
  /\ def # "" \/ name # "" => Begun(t, p) \/ Depth(t, p) > 0
  /\ def \in {"", "DefQry"}
  /\ def = "DefQry" =>
       /\ name = "" /\ Len(ops) > 0
       /\ Depth(t, p) > 0 => ops[Len(ops)].first < n
  /\ name # "" =>
       /\ name \in DOMAIN frags
       /\ Depth(t, p) > 0 => frags[name].first + 2 <= n
       /\ Depth(t, p) = 0 =>
            /\ p > 0 /\ t[p][1] \in {"FragName", "FragTypeCond"}
            /\ t[p][1] = "FragTypeCond" => frags[name].first + 1 <= n

\* Up to its selections an operation is in the buffer as it was scanned: what
\* began at place src is there from first on.
Copied(t, p, src, buf, first) ==
  /\ src \in 1..p /\ t[src][1] = "DefQry"
  /\ \A z \in src..p : NoSet(t, src, z - 1) => first + (z - src) <= Len(buf) /\ buf[first + (z - src)] = t[z]
  /\ NoSet(t, src, p) => Len(buf) = first + (p - src)

\* The end of an operation is known, and lies behind its selections.
Ended(t, p, src, r) ==
  /\ ~NoSet(t, src, p) /\ r.first + 2 < r.end
  /\ \A z \in src..p : NoSet(t, src, z - 1) => r.first + (z - src) < r.end

OperationsCopied(t, p, buf, ops, def) ==
  \A x \in 1..Len(ops) : \E src \in 1..p :
    /\ Copied(t, p, src, buf, ops[x].first)
    /\ Ended(t, p, src, ops[x]) \/ (def = "DefQry" /\ x = Len(ops))

FragmentsEnded(frags, name) ==
  \A f \in DOMAIN frags : frags[f].first + 3 < frags[f].end \/ (name # "" /\ f = name)

Placed(r, n) == r.first \in 1..n /\ r.end \in Nat /\ r.end <= n + 1

AllPlaced(ops, frags, n) ==
  /\ \A x \in 1..Len(ops) : Placed(ops[x], n)
  /\ \A f \in DOMAIN frags : Placed(frags[f], n)

Definitions(ops, frags) ==
  /\ ops \in Seq([first : Nat, end : Nat])
  /\ \A f \in DOMAIN frags : frags[f] \in [first : Nat, end : Nat, used : BOOLEAN]

InPlace(buf, ops, frags) ==
  IsList(buf) /\ Definitions(ops, frags) /\ AllPlaced(ops, frags, Len(buf))

LEMMA StillPlaced ==
  ASSUME NEW ops, NEW frags, NEW n \in Nat, AllPlaced(ops, frags, n), NEW m \in Nat, m >= n
  PROVE  AllPlaced(ops, frags, m)
<1>1. ASSUME NEW r, Placed(r, n) PROVE Placed(r, m)
  BY <1>1 DEF Placed
<1> QED
  BY <1>1 DEF AllPlaced

LEMMA FirstIsPlace ==
  ASSUME NEW ops, NEW frags, NEW n \in Nat, AllPlaced(ops, frags, n), NEW x \in 1..Len(ops)
  PROVE  ops[x].first \in Nat \ {0} /\ ops[x].first \in 1..n
<1>1. Placed(ops[x], n)
  BY DEF AllPlaced
<1> QED
  BY <1>1 DEF Placed

ScanState(t, p, buf, ops, frags, def, name, stack, frag) ==
  /\ InPlace(buf, ops, frags)
  /\ Counters(t, p, stack, frag)
  /\ InDefinition(t, p, Len(buf), ops, frags, def, name)
  /\ OperationsCopied(t, p, buf, ops, def)
  /\ FragmentsEnded(frags, name)

\* What a token does to the buffer.
Kept(tok, frag) == ~Untyped(tok) /\ (tok[1] \in {"Set", "SetEnd"} => frag = 0)
Buffered(buf2, buf, tok, frag) == buf2 = IF Kept(tok, frag) THEN Append(buf, tok) ELSE buf

LEMMA BufferedIs ==
  ASSUME NEW buf, IsList(buf), NEW tok, NEW frag, NEW buf2, Buffered(buf2, buf, tok, frag)
  PROVE  /\ IsList(buf2) /\ Len(buf) \in Nat /\ Len(buf2) \in Nat /\ Len(buf2) >= Len(buf)
         /\ IF Kept(tok, frag) THEN IsLonger(buf2, buf, tok) ELSE buf2 = buf
<1>1. Len(buf) \in Nat
  BY DEF IsList
<1>2. CASE Kept(tok, frag)
  <2>1. IsList(buf2) /\ IsLonger(buf2, buf, tok)
    BY <1>2, Appended DEF Buffered
  <2> QED
    BY <1>1, <1>2, <2>1 DEF IsLonger
<1>3. CASE ~Kept(tok, frag)
  BY <1>1, <1>3 DEF Buffered
<1> QED
  BY <1>2, <1>3

LEMMA NoSetBegun ==
  ASSUME NEW t, NEW p, NEW src \in 1..p, t[src][1] = "DefQry", NoSet(t, src, p)
  PROVE  Begun(t, p)
BY DEF NoSet, Begun, Starts

LEMMA CopiedNext ==
  ASSUME NEW t, NEW p \in Nat, NEW src \in 1..p, NEW buf, Len(buf) \in Nat, NEW first \in Nat \ {0},
         Copied(t, p, src, buf, first),
         NEW buf2, buf2 = buf \/ IsLonger(buf2, buf, t[p + 1]),
         NoSet(t, src, p) => IsLonger(buf2, buf, t[p + 1])
  PROVE  Copied(t, p + 1, src, buf2, first)
<1>1. \A z \in src..p + 1 : z \in src..p \/ z = p + 1
  OBVIOUS
<1>2. \A z \in src..p : z \in src..(p + 1)
  OBVIOUS
<1>3. NoSet(t, src, p + 1) => NoSet(t, src, p)
  BY <1>2 DEF NoSet
<1>4. ASSUME NEW z \in src..(p + 1), NoSet(t, src, z - 1)
      PROVE  first + (z - src) <= Len(buf2) /\ buf2[first + (z - src)] = t[z]
  <2>1. CASE z \in src..p
    <3>1. first + (z - src) <= Len(buf) /\ buf[first + (z - src)] = t[z]
      BY <1>4, <2>1 DEF Copied
    <3>2. first + (z - src) \in 1..Len(buf)
      BY <3>1, <2>1
    <3> QED
      BY <3>1, <3>2 DEF IsLonger
  <2>2. CASE z = p + 1
    <3>0. z - 1 = p
      BY <2>2
    <3>1. NoSet(t, src, p)
      BY <1>4, <3>0
    <3>2. Len(buf) = first + (p - src) /\ IsLonger(buf2, buf, t[p + 1])
      BY <3>1 DEF Copied
    <3>3. first + (z - src) = Len(buf) + 1
      BY <3>2, <2>2
    <3> QED
      BY <3>2, <3>3, <2>2 DEF IsLonger
  <2> QED
    BY <1>1, <1>4, <2>1, <2>2
<1>5. NoSet(t, src, p + 1) => Len(buf2) = first + ((p + 1) - src)
  <2> SUFFICES ASSUME NoSet(t, src, p + 1) PROVE Len(buf2) = first + ((p + 1) - src)
    OBVIOUS
  <2>1. Len(buf) = first + (p - src) /\ Len(buf2) = Len(buf) + 1
    BY <1>3 DEF Copied, IsLonger
  <2> QED
    BY <2>1
<1> QED
  BY <1>4, <1>5 DEF Copied

LEMMA EndedNext ==
  ASSUME NEW t, NEW p \in Nat, NEW src \in 1..p, NEW r, Ended(t, p, src, r)
  PROVE  Ended(t, p + 1, src, r)
<1>1. \A z \in src..p : z \in src..(p + 1)
  OBVIOUS
<1>2. ~NoSet(t, src, p + 1)
  BY <1>1 DEF NoSet, Ended
<1>3. ASSUME NEW z \in src..(p + 1), NoSet(t, src, z - 1)
      PROVE  r.first + (z - src) < r.end
  <2>1. z \in src..p \/ z - 1 = p
    OBVIOUS
  <2> QED
    BY <1>3, <2>1 DEF Ended
<1> QED
  BY <1>2, <1>3 DEF Ended

\* A token that neither begins nor ends a definition.
Within(t, p, stack, frag) ==
  /\ ~Starts(t[p + 1])
  /\ t[p + 1][1] = "SetEnd" /\ frag = 0 => stack - 1 >= 1

LEMMA WithinStays ==
  ASSUME NEW t, IsScanned(t), NEW p \in Nat, p < Len(t),
         NEW buf, NEW ops, NEW frags, NEW def, NEW name, NEW stack, NEW frag,
         ScanState(t, p, buf, ops, frags, def, name, stack, frag),
         Within(t, p, stack, frag),
         NEW buf2, Buffered(buf2, buf, t[p + 1], frag),
         NEW stack2, NEW frag2, CountersStep(t[p + 1], stack, frag, stack2, frag2)
  PROVE  ScanState(t, p + 1, buf2, ops, frags, def, name, stack2, frag2)
<1> DEFINE tok == t[p + 1]
           n == Len(buf)
           m == Len(buf2)
<1>1. /\ InPlace(buf, ops, frags) /\ Counters(t, p, stack, frag)
      /\ InDefinition(t, p, n, ops, frags, def, name)
      /\ OperationsCopied(t, p, buf, ops, def)
      /\ FragmentsEnded(frags, name)
  BY Zenon DEF ScanState
<1>2. /\ IsList(buf2) /\ n \in Nat /\ m \in Nat /\ m >= n
      /\ IF Kept(tok, frag) THEN IsLonger(buf2, buf, tok) ELSE buf2 = buf
  <2>1. IsList(buf)
    BY <1>1 DEF InPlace
  <2> QED
    BY <2>1, BufferedIs
<1>3. Promised(t, p)
  BY PromiseIsKept
<1>4. Depth(t, p + 1) = Depth(t, p) + (IF tok[1] = "Set" THEN 1 ELSE IF tok[1] = "SetEnd" THEN -1 ELSE 0)
  BY NextDepth
<1>5. Begun(t, p + 1) <=> tok[1] # "Set" /\ Begun(t, p)
  BY NextBegun DEF Within
<1>6. Begun(t, p) => Kept(tok, frag) /\ m = n + 1 /\ tok[1] # "SetEnd" /\ Depth(t, p) = 0
  <2> SUFFICES ASSUME Begun(t, p) PROVE Kept(tok, frag) /\ m = n + 1 /\ tok[1] # "SetEnd" /\ Depth(t, p) = 0
    OBVIOUS
  <2>1. Kept(tok, frag) /\ tok[1] # "SetEnd"
    BY <1>1, BegunKeeps DEF Kept
  <2>2. m = n + 1
    BY <2>1, <1>2 DEF IsLonger
  <2>3. Depth(t, p) = 0
    BY <1>3 DEF Promised
  <2> QED
    BY <2>1, <2>2, <2>3
<1>7. tok[1] = "SetEnd" => Depth(t, p) > 0 /\ Depth(t, p + 1) > 0
  <2> SUFFICES ASSUME tok[1] = "SetEnd" PROVE Depth(t, p) > 0 /\ Depth(t, p + 1) > 0
    OBVIOUS
  <2>1. Depth(t, p) > 0 /\ (Depth(t, p + 1) = 0 => frag = 0 /\ stack - 1 < 1)
    BY <1>1, LastSetEnd
  <2>2. Depth(t, p + 1) # 0
    BY <1>1, <2>1 DEF Within, Counters
  <2>3. Depth(t, p + 1) \in Nat
    BY <1>3 DEF Promised
  <2> QED
    BY <2>1, <2>2, <2>3
<1>8. Counters(t, p + 1, stack2, frag2)
  BY <1>1, CountersNext
<1>9. InPlace(buf2, ops, frags)
  BY <1>1, <1>2, StillPlaced DEF InPlace
<1>10. OperationsCopied(t, p + 1, buf2, ops, def)
  <2> SUFFICES ASSUME NEW x \in 1..Len(ops)
               PROVE  \E src \in 1..(p + 1) :
                        /\ Copied(t, p + 1, src, buf2, ops[x].first)
                        /\ Ended(t, p + 1, src, ops[x]) \/ (def = "DefQry" /\ x = Len(ops))
    BY DEF OperationsCopied
  <2>1. PICK src \in 1..p : /\ Copied(t, p, src, buf, ops[x].first)
                            /\ Ended(t, p, src, ops[x]) \/ (def = "DefQry" /\ x = Len(ops))
    BY <1>1 DEF OperationsCopied
  <2>2. ops[x].first \in Nat \ {0}
    BY <1>1, <1>2, FirstIsPlace DEF InPlace
  <2>3. NoSet(t, src, p) => IsLonger(buf2, buf, tok)
    <3>1. NoSet(t, src, p) => Begun(t, p)
      BY <2>1, NoSetBegun DEF Copied
    <3> QED
      BY <3>1, <1>2, <1>6
  <2>4. buf2 = buf \/ IsLonger(buf2, buf, tok)
    BY <1>2
  <2>5. Copied(t, p + 1, src, buf2, ops[x].first)
    BY <1>2, <2>1, <2>2, <2>3, <2>4, CopiedNext
  <2>6. Ended(t, p + 1, src, ops[x]) \/ (def = "DefQry" /\ x = Len(ops))
    BY <2>1, EndedNext
  <2>7. src \in 1..(p + 1)
    OBVIOUS
  <2> QED
    BY <2>5, <2>6, <2>7
<1>11. InDefinition(t, p + 1, m, ops, frags, def, name)
  <2>1. /\ Depth(t, p) \in Nat
        /\ p > 0 /\ t[p][1] = "FragName" => tok[1] = "FragTypeCond"
        /\ p > 0 /\ t[p][1] = "FragTypeCond" => tok[1] = "Set"
    BY <1>3 DEF Promised
  <2>2. Depth(t, p) > 0 => Depth(t, p + 1) > 0
    BY <2>1, <1>4, <1>7
  <2>3. Begun(t, p) => Begun(t, p + 1) \/ Depth(t, p + 1) > 0
    BY <1>4, <1>5, <1>6
  <2>4. Depth(t, p) = 0 /\ tok[1] # "Set" => Depth(t, p + 1) = 0
    BY <1>4, <1>7
  <2>5. def # "" \/ name # "" => Begun(t, p + 1) \/ Depth(t, p + 1) > 0
    BY <1>1, <2>2, <2>3 DEF InDefinition
  <2>6. ASSUME def = "DefQry"
        PROVE  name = "" /\ Len(ops) > 0 /\ (Depth(t, p + 1) > 0 => ops[Len(ops)].first < m)
    <3>1. name = "" /\ Len(ops) > 0 /\ (Depth(t, p) > 0 => ops[Len(ops)].first < n)
      BY <1>1, <2>6 DEF InDefinition
    <3>2. Begun(t, p) \/ Depth(t, p) > 0
      BY <1>1, <2>6 DEF InDefinition
    <3>3. ops[Len(ops)].first \in 1..n
      <4>1. Len(ops) \in 1..Len(ops)
        <5>1. Len(ops) \in Nat
          BY <1>1 DEF InPlace, Definitions
        <5>2. \A k0 \in Nat : k0 > 0 => k0 \in 1..k0
          OBVIOUS
        <5> QED
          BY <3>1, <5>1, <5>2
      <4> QED
        BY <1>1, <1>2, <4>1, FirstIsPlace DEF InPlace
    <3>4. ops[Len(ops)].first < m
      <4>1. CASE Begun(t, p)
        BY <1>2, <1>6, <3>3, <4>1
      <4>2. CASE Depth(t, p) > 0
        <5>1. ops[Len(ops)].first < n
          BY <3>1, <4>2
        <5>2. n <= m /\ n \in Int /\ m \in Int /\ ops[Len(ops)].first \in Int
          BY <1>2, <3>3
        <5> QED
          BY <5>1, <5>2
      <4> QED
        BY <3>2, <4>1, <4>2
    <3> QED
      BY <3>1, <3>4
  <2>7. ASSUME name # ""
        PROVE  /\ name \in DOMAIN frags
               /\ Depth(t, p + 1) > 0 => frags[name].first + 2 <= m
               /\ Depth(t, p + 1) = 0 =>
                    /\ p + 1 > 0 /\ tok[1] \in {"FragName", "FragTypeCond"}
                    /\ tok[1] = "FragTypeCond" => frags[name].first + 1 <= m
    <3>1. /\ name \in DOMAIN frags
          /\ Depth(t, p) > 0 => frags[name].first + 2 <= n
          /\ Depth(t, p) = 0 =>
               /\ p > 0 /\ t[p][1] \in {"FragName", "FragTypeCond"}
               /\ t[p][1] = "FragTypeCond" => frags[name].first + 1 <= n
      BY <1>1, <2>7 DEF InDefinition
    <3>2. Begun(t, p) \/ Depth(t, p) > 0
      BY <1>1, <2>7 DEF InDefinition
    <3>3. frags[name].first \in 1..n
      BY <3>1, <1>1 DEF InPlace, AllPlaced, Placed
    <3>4. CASE Depth(t, p) > 0
      BY <1>2, <2>2, <3>1, <3>3, <3>4
    <3>5. CASE Depth(t, p) = 0
      <4>1. m = n + 1
        BY <1>6, <3>2, <3>5
      <4>2. CASE tok[1] = "FragTypeCond"
        BY <1>2, <2>4, <3>1, <3>3, <3>5, <4>1, <4>2
      <4>3. CASE tok[1] = "Set"
        <5>1. t[p][1] = "FragTypeCond"
          BY <2>1, <3>1, <3>5, <4>3
        <5>2. Depth(t, p + 1) > 0
          BY <1>4, <3>5, <4>3
        <5> QED
          BY <1>2, <3>1, <3>3, <3>5, <4>1, <5>1, <5>2
      <4>4. tok[1] \in {"FragTypeCond", "Set"}
        BY <2>1, <3>1, <3>5
      <4> QED
        BY <4>2, <4>3, <4>4
    <3> QED
      BY <2>1, <3>4, <3>5
  <2>8. def \in {"", "DefQry"}
    BY <1>1 DEF InDefinition
  <2> QED
    BY <2>5, <2>6, <2>7, <2>8 DEF InDefinition
<1> QED
  BY <1>1, <1>8, <1>9, <1>10, <1>11 DEF ScanState

\* Between definitions no definition is open.
LEMMA NoneOpen ==
  ASSUME NEW t, NEW p, NEW n, NEW ops, NEW frags, NEW def, NEW name,
         InDefinition(t, p, n, ops, frags, def, name), Depth(t, p) = 0, ~Begun(t, p)
  PROVE  def = "" /\ name = ""
<1>1. def # "" \/ name # "" => Begun(t, p) \/ Depth(t, p) > 0
  BY Zenon DEF InDefinition
<1>2. ~(Depth(t, p) > 0)
  OBVIOUS
<1> QED
  BY <1>1, <1>2

LEMMA NotOpen ==
  ASSUME NEW d, d = 0
  PROVE  ~(d > 0)
OBVIOUS

LEMMA OneMorePlace ==
  ASSUME NEW p \in Nat
  PROVE  \A y \in 1..p : y \in 1..(p + 1)
OBVIOUS

LEMMA AtStart ==
  ASSUME NEW t, IsScanned(t), NEW p \in Nat, p < Len(t),
         NEW buf, NEW ops, NEW frags, NEW def, NEW name, NEW stack, NEW frag,
         ScanState(t, p, buf, ops, frags, def, name, stack, frag), Starts(t[p + 1])
  PROVE  /\ def = "" /\ name = ""
         /\ Depth(t, p + 1) = 0 /\ Begun(t, p + 1)
         /\ Counters(t, p + 1, stack, frag)
<1>1. Promised(t, p)
  BY PromiseIsKept
<1>2. Depth(t, p) = 0 /\ ~Begun(t, p)
  BY <1>1 DEF Promised
<1>3. def = "" /\ name = ""
  BY <1>2, NoneOpen DEF ScanState
<1>4. t[p + 1][1] \in {"DefQry", "FragName"}
  BY DEF Starts
<1>5. Begun(t, p + 1)
  BY <1>4, NextBegun
<1>6. Depth(t, p + 1) = 0
  BY <1>1, <1>5 DEF Promised
<1>7. CountersStep(t[p + 1], stack, frag, stack, frag)
  BY <1>4 DEF CountersStep, Untyped
<1>8. Counters(t, p, stack, frag)
  BY DEF ScanState
<1>9. Counters(t, p + 1, stack, frag)
  BY <1>7, <1>8, CountersNext
<1> QED
  BY <1>3, <1>5, <1>6, <1>9

\* The operations of before are copied and ended, where none is open.
LEMMA OthersCopied ==
  ASSUME NEW t, NEW p \in Nat, NEW buf, Len(buf) \in Nat, NEW ops,
         OperationsCopied(t, p, buf, ops, ""),
         \A x \in 1..Len(ops) : ops[x].first \in Nat \ {0},
         NEW buf2, IsLonger(buf2, buf, t[p + 1]),
         NEW x \in 1..Len(ops)
  PROVE  \E src \in 1..(p + 1) :
           Copied(t, p + 1, src, buf2, ops[x].first) /\ Ended(t, p + 1, src, ops[x])
<1>1. PICK src \in 1..p : Copied(t, p, src, buf, ops[x].first) /\ Ended(t, p, src, ops[x])
  BY DEF OperationsCopied
<1>2. Copied(t, p + 1, src, buf2, ops[x].first)
  BY <1>1, CopiedNext
<1>3. Ended(t, p + 1, src, ops[x])
  BY <1>1, EndedNext
<1>4. src \in 1..(p + 1)
  BY OneMorePlace
<1> QED
  BY <1>2, <1>3, <1>4

LEMMA OperationBegins ==
  ASSUME NEW t, IsScanned(t), NEW p \in Nat, p < Len(t),
         NEW buf, NEW ops, NEW frags, NEW def, NEW name, NEW stack, NEW frag,
         ScanState(t, p, buf, ops, frags, def, name, stack, frag),
         t[p + 1][1] = "DefQry"
  PROVE  ScanState(t, p + 1, Append(buf, t[p + 1]), Append(ops, [first |-> Len(buf) + 1, end |-> 0]),
                   frags, "DefQry", name, stack, frag)
<1> DEFINE r == [first |-> Len(buf) + 1, end |-> 0]
           buf2 == Append(buf, t[p + 1])
           ops2 == Append(ops, r)
<1>1. /\ def = "" /\ name = "" /\ Depth(t, p + 1) = 0 /\ Begun(t, p + 1)
      /\ Counters(t, p + 1, stack, frag)
  BY AtStart DEF Starts
<1>2. /\ InPlace(buf, ops, frags) /\ OperationsCopied(t, p, buf, ops, "")
      /\ FragmentsEnded(frags, name)
  BY <1>1, Zenon DEF ScanState
<1>3. IsList(buf) /\ ops \in Seq([first : Nat, end : Nat])
  BY <1>2 DEF InPlace, Definitions
<1>4. IsList(buf2) /\ IsLonger(buf2, buf, t[p + 1])
  BY <1>3, Appended
<1>5. Len(buf) \in Nat /\ Len(buf2) = Len(buf) + 1
  BY <1>4 DEF IsLonger
<1>6. r \in [first : Nat, end : Nat] /\ r.first = Len(buf) + 1 /\ r.end = 0
  BY <1>5
<1> HIDE DEF r
<1>7. /\ ops2 \in Seq([first : Nat, end : Nat]) /\ Len(ops) \in Nat /\ Len(ops2) = Len(ops) + 1
      /\ \A x \in 1..Len(ops) : ops2[x] = ops[x]
      /\ ops2[Len(ops) + 1] = r
  BY <1>3, <1>6, AppendProperties
<1> HIDE DEF buf2, ops2
<1>8. \A x \in 1..Len(ops2) : x \in 1..Len(ops) \/ x = Len(ops) + 1
  BY <1>7
<1>9. InPlace(buf2, ops2, frags)
  <2>0. AllPlaced(ops, frags, Len(buf))
    BY <1>2 DEF InPlace
  <2>9. Len(buf2) \in Nat /\ Len(buf2) >= Len(buf)
    BY <1>5
  <2>1. AllPlaced(ops, frags, Len(buf2))
    BY <1>5, <2>0, <2>9, StillPlaced
  <2>2. Placed(r, Len(buf2))
    BY <1>5, <1>6 DEF Placed
  <2>3. AllPlaced(ops2, frags, Len(buf2))
    BY <1>7, <1>8, <2>1, <2>2 DEF AllPlaced
  <2>4. Definitions(ops2, frags)
    BY <1>2, <1>7 DEF InPlace, Definitions
  <2> QED
    BY <1>4, <2>3, <2>4 DEF InPlace
<1>10. OperationsCopied(t, p + 1, buf2, ops2, "DefQry")
  <2>1. \A x \in 1..Len(ops) : ops[x].first \in Nat \ {0}
    BY <1>2, <1>5, FirstIsPlace DEF InPlace
  <2>2. ASSUME NEW x \in 1..Len(ops)
        PROVE  \E src \in 1..(p + 1) :
                 Copied(t, p + 1, src, buf2, ops[x].first) /\ Ended(t, p + 1, src, ops[x])
    BY <1>2, <1>4, <1>5, <2>1, OthersCopied
  <2>3. Copied(t, p + 1, p + 1, buf2, r.first)
    <3>1. \A z : z \in (p + 1)..(p + 1) <=> z = p + 1
      OBVIOUS
    <3>2. r.first + ((p + 1) - (p + 1)) = Len(buf2) /\ buf2[Len(buf2)] = t[p + 1]
      BY <1>4, <1>5, <1>6 DEF IsLonger
    <3>3. Len(buf2) \in Nat /\ p + 1 \in 1..(p + 1)
      BY <1>5
    <3> QED
      BY <3>1, <3>2, <3>3 DEF Copied
  <2>4. ASSUME NEW x \in 1..Len(ops2)
        PROVE  \E src \in 1..(p + 1) :
                 /\ Copied(t, p + 1, src, buf2, ops2[x].first)
                 /\ Ended(t, p + 1, src, ops2[x]) \/ ("DefQry" = "DefQry" /\ x = Len(ops2))
    <3>1. CASE x \in 1..Len(ops)
      BY <1>7, <2>2, <3>1
    <3>2. CASE x = Len(ops) + 1
      <4>1. p + 1 \in 1..(p + 1)
        OBVIOUS
      <4> QED
        BY <1>7, <2>3, <3>2, <4>1
    <3> QED
      BY <1>8, <3>1, <3>2
  <2> QED
    BY <2>4 DEF OperationsCopied
<1>11. InDefinition(t, p + 1, Len(buf2), ops2, frags, "DefQry", name)
  <2>1. Len(ops2) > 0
    BY <1>7
  <2>2. ~(Depth(t, p + 1) > 0)
    BY <1>1, NotOpen, Zenon
  <2> QED
    BY <1>1, <2>1, <2>2, Zenon DEF InDefinition
<1>12. ScanState(t, p + 1, buf2, ops2, frags, "DefQry", name, stack, frag)
  BY <1>1, <1>2, <1>9, <1>10, <1>11 DEF ScanState
<1> QED
  BY <1>12 DEF buf2, ops2, r

LEMMA FragmentBegins ==
  ASSUME NEW t, IsScanned(t), NEW p \in Nat, p < Len(t),
         NEW buf, NEW ops, NEW frags, NEW def, NEW name, NEW stack, NEW frag,
         ScanState(t, p, buf, ops, frags, def, name, stack, frag),
         t[p + 1][1] = "FragName"
  PROVE  ScanState(t, p + 1, Append(buf, t[p + 1]), ops,
                   With(frags, t[p + 1][2], [first |-> Len(buf) + 1, end |-> 0, used |-> FALSE]),
                   def, t[p + 1][2], stack, frag)
<1> DEFINE r == [first |-> Len(buf) + 1, end |-> 0, used |-> FALSE]
           buf2 == Append(buf, t[p + 1])
           f0 == t[p + 1][2]
           frags2 == With(frags, f0, r)
<1>1. /\ def = "" /\ name = "" /\ Depth(t, p + 1) = 0 /\ Begun(t, p + 1)
      /\ Counters(t, p + 1, stack, frag)
  BY AtStart DEF Starts
<1>2. /\ InPlace(buf, ops, frags) /\ OperationsCopied(t, p, buf, ops, "")
      /\ FragmentsEnded(frags, "")
  BY <1>1, Zenon DEF ScanState
<1>3. IsList(buf) /\ ops \in Seq([first : Nat, end : Nat])
  BY <1>2 DEF InPlace, Definitions
<1>4. IsList(buf2) /\ IsLonger(buf2, buf, t[p + 1])
  BY <1>3, Appended
<1>5. Len(buf) \in Nat /\ Len(buf2) = Len(buf) + 1
  BY <1>4 DEF IsLonger
<1>6. r \in [first : Nat, end : Nat, used : BOOLEAN] /\ r.first = Len(buf) + 1 /\ r.end = 0
  BY <1>5
<1> HIDE DEF r
<1>7. f0 # ""
  <2>1. Promised(t, p)
    BY PromiseIsKept
  <2> QED
    BY <2>1 DEF Promised
<1>8. /\ DOMAIN frags2 = DOMAIN frags \cup {f0}
      /\ frags2[f0] = r
      /\ \A f \in DOMAIN frags : f # f0 => frags2[f] = frags[f]
  BY DEF With
<1> HIDE DEF buf2, frags2, f0
<1>9. InPlace(buf2, ops, frags2)
  <2>0. AllPlaced(ops, frags, Len(buf)) /\ Definitions(ops, frags)
    BY <1>2 DEF InPlace
  <2>9. Len(buf2) \in Nat /\ Len(buf2) >= Len(buf)
    BY <1>5
  <2>1. AllPlaced(ops, frags, Len(buf2)) /\ Definitions(ops, frags)
    BY <1>5, <2>0, <2>9, StillPlaced
  <2>2. Placed(r, Len(buf2))
    BY <1>5, <1>6 DEF Placed
  <2>3. \A f \in DOMAIN frags2 : IF f = f0 THEN frags2[f] = r ELSE f \in DOMAIN frags /\ frags2[f] = frags[f]
    BY <1>8
  <2>4. AllPlaced(ops, frags2, Len(buf2))
    BY <2>1, <2>2, <2>3 DEF AllPlaced
  <2>5. Definitions(ops, frags2)
    BY <1>6, <2>1, <2>3 DEF Definitions
  <2> QED
    BY <1>4, <2>4, <2>5 DEF InPlace
<1>10. OperationsCopied(t, p + 1, buf2, ops, def)
  <2>1. \A x \in 1..Len(ops) : ops[x].first \in Nat \ {0}
    BY <1>2, <1>5, FirstIsPlace DEF InPlace
  <2>2. ASSUME NEW x \in 1..Len(ops)
        PROVE  \E src \in 1..(p + 1) :
                 Copied(t, p + 1, src, buf2, ops[x].first) /\ Ended(t, p + 1, src, ops[x])
    BY <1>2, <1>4, <1>5, <2>1, OthersCopied
  <2> QED
    BY <2>2 DEF OperationsCopied
<1>11. InDefinition(t, p + 1, Len(buf2), ops, frags2, def, f0)
  <2>0. ~(Depth(t, p + 1) > 0)
    BY <1>1, NotOpen, Zenon
  <2>1. p + 1 > 0 /\ f0 \in DOMAIN frags2
    BY <1>8
  <2>2. t[p + 1][1] \in {"FragName", "FragTypeCond"} /\ t[p + 1][1] # "FragTypeCond"
    OBVIOUS
  <2> QED
    BY <1>1, <2>0, <2>1, <2>2, Zenon DEF InDefinition
<1>12. FragmentsEnded(frags2, f0)
  BY <1>2, <1>7, <1>8 DEF FragmentsEnded
<1>13. ScanState(t, p + 1, buf2, ops, frags2, def, f0, stack, frag)
  BY <1>1, <1>9, <1>10, <1>11, <1>12 DEF ScanState
<1> QED
  BY <1>13 DEF buf2, frags2, f0, r

\* A definition ends: r is its range with the place behind the last token.
LEMMA RangeEnds ==
  ASSUME NEW n \in Nat, NEW r, Placed(r, n), NEW r2, r2.first = r.first, r2.end = n + 2
  PROVE  Placed(r2, n + 1)
<1>1. r.first \in 1..n
  BY DEF Placed
<1>2. r2.first \in 1..n + 1 /\ r2.end \in Nat /\ r2.end <= (n + 1) + 1
  BY <1>1
<1> QED
  BY <1>2 DEF Placed

\* The first definitions of every kind behind the last set that was open.
LEMMA NoneBegun ==
  ASSUME NEW t, IsScanned(t), NEW p \in Nat, p < Len(t),
         NEW stack, NEW frag, Counters(t, p, stack, frag), t[p + 1][1] = "SetEnd"
  PROVE  /\ Depth(t, p) > 0 /\ ~Begun(t, p) /\ ~Begun(t, p + 1)
         /\ \A src \in 1..p : t[src][1] = "DefQry" => ~NoSet(t, src, p) /\ ~NoSet(t, src, p + 1)
<1>1. Promised(t, p)
  BY PromiseIsKept
<1>2. Depth(t, p) > 0
  BY LastSetEnd
<1>3. Begun(t, p) => Depth(t, p) = 0
  BY <1>1 DEF Promised
<1>4. ~Begun(t, p)
  <2>1. Depth(t, p) = 0 => ~(Depth(t, p) > 0)
    BY NotOpen
  <2> QED
    BY <1>2, <1>3, <2>1, Zenon
<1>5. ~Begun(t, p + 1)
  BY <1>4, NextBegun DEF Starts
<1>6. ASSUME NEW src \in 1..p, t[src][1] = "DefQry"
      PROVE  ~NoSet(t, src, p) /\ ~NoSet(t, src, p + 1)
  <2>1. src \in 1..(p + 1)
    BY OneMorePlace
  <2> QED
    BY <1>4, <1>5, <1>6, <2>1, NoSetBegun
<1> QED
  BY <1>2, <1>4, <1>5, <1>6

\* The range of the operation that ends.
LEMMA OperationEnds ==
  ASSUME NEW t, NEW p \in Nat, NEW src \in 1..p, NEW buf, Len(buf) \in Nat, NEW r,
         r.first \in Nat \ {0}, r.first < Len(buf),
         Copied(t, p, src, buf, r.first), ~NoSet(t, src, p), ~NoSet(t, src, p + 1),
         NEW buf2, IsLonger(buf2, buf, t[p + 1]),
         NEW r2, r2.first = r.first, r2.end = Len(buf) + 2
  PROVE  Copied(t, p + 1, src, buf2, r2.first) /\ Ended(t, p + 1, src, r2)
<1>1. Copied(t, p + 1, src, buf2, r.first)
  BY CopiedNext
<1>2. Len(buf2) = Len(buf) + 1
  BY DEF IsLonger
<1>3. r2.first + 2 < r2.end
  OBVIOUS
<1>4. ASSUME NEW z \in src..(p + 1), NoSet(t, src, z - 1)
      PROVE  r2.first + (z - src) < r2.end
  <2>1. r.first + (z - src) <= Len(buf2)
    BY <1>1, <1>4 DEF Copied
  <2>2. r2.first + (z - src) \in Int
    OBVIOUS
  <2> QED
    BY <1>2, <2>1, <2>2
<1> QED
  BY <1>1, <1>3, <1>4 DEF Ended

\* ops2 is ops with an end of the last operation.
LastEnded(ops2, ops, e) ==
  /\ ops2 \in Seq([first : Nat, end : Nat]) /\ Len(ops2) = Len(ops)
  /\ ops2[Len(ops)].first = ops[Len(ops)].first /\ ops2[Len(ops)].end = e
  /\ \A x \in 1..Len(ops) : x # Len(ops) => ops2[x] = ops[x]

LEMMA LastEnds ==
  ASSUME NEW ops \in Seq([first : Nat, end : Nat]), Len(ops) > 0, NEW e \in Nat,
         NEW ops2, ops2 = [ops EXCEPT ![Len(ops)].end = e]
  PROVE  LastEnded(ops2, ops, e)
<1> DEFINE n == Len(ops)
           new == [ops[n] EXCEPT !.end = e]
<1>1. n \in 1..n
  <2>1. Len(ops) \in Nat
    OBVIOUS
  <2>2. \A x \in Nat : x > 0 => x \in 1..x
    OBVIOUS
  <2> QED
    BY <2>1, <2>2
<1>2. ops[n] \in [first : Nat, end : Nat]
  BY <1>1, ElementOfSeq
<1>3. new \in [first : Nat, end : Nat] /\ new.first = ops[n].first /\ new.end = e
  BY <1>2
<1>4. [ops EXCEPT ![Len(ops)].end = e] = [ops EXCEPT ![n] = new]
  OBVIOUS
<1> HIDE DEF new
<1>5. /\ [ops EXCEPT ![n] = new] \in Seq([first : Nat, end : Nat])
      /\ Len([ops EXCEPT ![n] = new]) = Len(ops)
      /\ [ops EXCEPT ![n] = new][n] = new
      /\ \A x \in 1..Len(ops) : x # n => [ops EXCEPT ![n] = new][x] = ops[x]
  BY <1>1, <1>3, ExceptSeq
<1> QED
  BY <1>1, <1>3, <1>4, <1>5 DEF LastEnded

LEMMA OperationIsEnded ==
  ASSUME NEW t, IsScanned(t), NEW p \in Nat, p < Len(t),
         NEW buf, NEW ops, NEW frags, NEW name, NEW stack, NEW frag,
         ScanState(t, p, buf, ops, frags, "DefQry", name, stack, frag),
         t[p + 1][1] = "SetEnd", frag = 0,
         NEW buf2, buf2 = Append(buf, t[p + 1]),
         NEW ops2, ops2 = [ops EXCEPT ![Len(ops)].end = Len(buf2) + 1]
  PROVE  ScanState(t, p + 1, buf2, ops2, frags, "", "", stack - 1, frag)
<1> DEFINE n == Len(ops)
           r2 == ops2[n]
<1>1. /\ InPlace(buf, ops, frags) /\ Counters(t, p, stack, frag)
      /\ InDefinition(t, p, Len(buf), ops, frags, "DefQry", name)
      /\ OperationsCopied(t, p, buf, ops, "DefQry")
      /\ FragmentsEnded(frags, name)
  BY Zenon DEF ScanState
<1>2. /\ Depth(t, p) > 0 /\ ~Begun(t, p) /\ ~Begun(t, p + 1)
      /\ \A src \in 1..p : t[src][1] = "DefQry" => ~NoSet(t, src, p) /\ ~NoSet(t, src, p + 1)
  BY <1>1, NoneBegun
<1>3. name = "" /\ Len(ops) > 0 /\ ops[Len(ops)].first < Len(buf)
  BY <1>1, <1>2, Zenon DEF InDefinition
<1>4. /\ IsList(buf) /\ Definitions(ops, frags) /\ AllPlaced(ops, frags, Len(buf))
      /\ ops \in Seq([first : Nat, end : Nat])
  BY <1>1 DEF InPlace, Definitions
<1>5. IsList(buf2) /\ IsLonger(buf2, buf, t[p + 1])
  BY <1>4, Appended
<1>6. Len(buf) \in Nat /\ Len(buf2) = Len(buf) + 1 /\ Len(buf2) \in Nat /\ Len(buf2) >= Len(buf)
  BY <1>5 DEF IsLonger
<1>7. n \in 1..n
  <2>1. n \in Nat
    BY <1>4
  <2>2. \A x \in Nat : x > 0 => x \in 1..x
    OBVIOUS
  <2> QED
    BY <1>3, <2>1, <2>2
<1>9. /\ ops2 \in Seq([first : Nat, end : Nat]) /\ Len(ops2) = n
      /\ r2.first = ops[n].first /\ r2.end = Len(buf) + 2
      /\ \A x \in 1..n : x # n => ops2[x] = ops[x]
  <2> DEFINE e == Len(buf2) + 1
  <2>1. e \in Nat /\ e = Len(buf) + 2
    BY <1>6
  <2>2. ops2 = [ops EXCEPT ![Len(ops)].end = e]
    OBVIOUS
  <2> HIDE DEF e, n, r2
  <2>3. /\ ops2 \in Seq([first : Nat, end : Nat]) /\ Len(ops2) = Len(ops)
        /\ ops2[Len(ops)].first = ops[Len(ops)].first /\ ops2[Len(ops)].end = e
        /\ \A x \in 1..Len(ops) : x # Len(ops) => ops2[x] = ops[x]
    <3>1. Len(ops) > 0 /\ ops \in Seq([first : Nat, end : Nat])
      BY <1>3, <1>4
    <3>2. LastEnded(ops2, ops, e)
      BY <2>1, <2>2, <3>1, LastEnds
    <3> QED
      BY <3>2 DEF LastEnded
  <2> QED
    BY <2>1, <2>3 DEF n, r2
<1>10. InPlace(buf2, ops2, frags)
  <2>1. AllPlaced(ops, frags, Len(buf2))
    BY <1>4, <1>6, StillPlaced
  <2>2. Placed(r2, Len(buf2))
    <3>1. Placed(ops[n], Len(buf))
      BY <1>4, <1>7 DEF AllPlaced
    <3> QED
      BY <1>6, <1>9, <3>1, RangeEnds
  <2>3. \A x \in 1..n : IF x = n THEN ops2[x] = r2 ELSE ops2[x] = ops[x]
    BY <1>9
  <2>4. AllPlaced(ops2, frags, Len(buf2))
    BY <1>9, <2>1, <2>2, <2>3 DEF AllPlaced
  <2>5. Definitions(ops2, frags)
    BY <1>4, <1>9 DEF Definitions
  <2> QED
    BY <1>5, <2>4, <2>5 DEF InPlace
<1>11. CountersStep(t[p + 1], stack, frag, stack - 1, frag)
  BY DEF CountersStep, Untyped
<1>12. Counters(t, p + 1, stack - 1, frag)
  BY <1>1, <1>11, CountersNext
<1>13. \A x \in 1..Len(ops) : ops[x].first \in Nat \ {0}
  BY <1>4, <1>6, FirstIsPlace
<1>14. ASSUME NEW x \in 1..n
       PROVE  \E src \in 1..(p + 1) :
                Copied(t, p + 1, src, buf2, ops2[x].first) /\ Ended(t, p + 1, src, ops2[x])
  <2>1. PICK src \in 1..p : /\ Copied(t, p, src, buf, ops[x].first)
                            /\ Ended(t, p, src, ops[x]) \/ ("DefQry" = "DefQry" /\ x = Len(ops))
    BY <1>1 DEF OperationsCopied
  <2>2. t[src][1] = "DefQry"
    BY <2>1 DEF Copied
  <2>3. src \in 1..(p + 1)
    BY OneMorePlace
  <2>4. ~NoSet(t, src, p) /\ ~NoSet(t, src, p + 1)
    BY <1>2, <2>2
  <2>5. ops[x].first \in Nat \ {0}
    BY <1>13
  <2>6. CASE x = n
    <3>1. Copied(t, p + 1, src, buf2, r2.first) /\ Ended(t, p + 1, src, r2)
      <4> DEFINE r == ops[n]
      <4>1. /\ r.first \in Nat \ {0} /\ r.first < Len(buf)
            /\ Copied(t, p, src, buf, r.first) /\ r2.first = r.first
        BY <1>3, <1>9, <2>1, <2>5, <2>6
      <4> HIDE DEF r
      <4> QED
        BY <1>5, <1>6, <1>9, <2>4, <4>1, OperationEnds
    <3> QED
      BY <2>3, <2>6, <3>1
  <2>7. CASE x # n
    <3>1. ops2[x] = ops[x]
      BY <1>9, <2>7
    <3>2. Ended(t, p, src, ops[x])
      BY <2>1, <2>7
    <3>3. Ended(t, p + 1, src, ops[x])
      BY <3>2, EndedNext
    <3>4. Copied(t, p + 1, src, buf2, ops[x].first)
      BY <1>5, <1>6, <2>1, <2>4, <2>5, CopiedNext
    <3> QED
      BY <2>3, <3>1, <3>3, <3>4
  <2> QED
    BY <2>6, <2>7
<1>15. OperationsCopied(t, p + 1, buf2, ops2, "")
  BY <1>9, <1>14 DEF OperationsCopied
<1>16. InDefinition(t, p + 1, Len(buf2), ops2, frags, "", "")
  BY DEF InDefinition
<1>17. FragmentsEnded(frags, "")
  BY <1>1, <1>3 DEF FragmentsEnded
<1> QED
  BY <1>10, <1>12, <1>15, <1>16, <1>17 DEF ScanState

WithEnd(frags, name, e) ==
  [f \in DOMAIN frags |-> IF f = name THEN [frags[f] EXCEPT !.end = e] ELSE frags[f]]

LEMMA FragmentIsEnded ==
  ASSUME NEW t, IsScanned(t), NEW p \in Nat, p < Len(t),
         NEW buf, NEW ops, NEW frags, NEW def, def # "DefQry", NEW name, NEW stack, NEW frag,
         ScanState(t, p, buf, ops, frags, def, name, stack, frag),
         t[p + 1][1] = "SetEnd", frag = 0,
         NEW buf2, buf2 = Append(buf, t[p + 1]),
         NEW frags2, frags2 = WithEnd(frags, name, Len(buf2) + 1)
  PROVE  ScanState(t, p + 1, buf2, ops, frags2, "", "", stack - 1, frag)
<1>1. /\ InPlace(buf, ops, frags) /\ Counters(t, p, stack, frag)
      /\ InDefinition(t, p, Len(buf), ops, frags, def, name)
      /\ OperationsCopied(t, p, buf, ops, def)
      /\ FragmentsEnded(frags, name)
  BY Zenon DEF ScanState
<1>2. Depth(t, p) > 0
  BY <1>1, NoneBegun
<1>3. OperationsCopied(t, p, buf, ops, "")
  BY <1>1 DEF OperationsCopied
<1>4. name # "" => frags[name].first + 2 <= Len(buf)
  BY <1>1, <1>2, Zenon DEF InDefinition
<1>5. /\ IsList(buf) /\ Definitions(ops, frags) /\ AllPlaced(ops, frags, Len(buf))
  BY <1>1 DEF InPlace
<1>6. IsList(buf2) /\ IsLonger(buf2, buf, t[p + 1])
  BY <1>5, Appended
<1>7. Len(buf) \in Nat /\ Len(buf2) = Len(buf) + 1 /\ Len(buf2) \in Nat /\ Len(buf2) >= Len(buf)
  BY <1>6 DEF IsLonger
<1>8. /\ DOMAIN frags2 = DOMAIN frags
      /\ \A f \in DOMAIN frags : f # name => frags2[f] = frags[f]
  BY DEF WithEnd
<1>9. ASSUME NEW f \in DOMAIN frags, f = name
      PROVE  /\ frags2[f] \in [first : Nat, end : Nat, used : BOOLEAN]
             /\ frags2[f].first = frags[f].first /\ frags2[f].end = Len(buf) + 2
  <2>1. frags[f] \in [first : Nat, end : Nat, used : BOOLEAN]
    BY <1>5 DEF Definitions
  <2>2. frags2[f] = [frags[f] EXCEPT !.end = Len(buf2) + 1]
    BY <1>9 DEF WithEnd
  <2> QED
    BY <1>7, <2>1, <2>2
<1>10. InPlace(buf2, ops, frags2)
  <2>1. AllPlaced(ops, frags, Len(buf2))
    BY <1>5, <1>7, StillPlaced
  <2>2. ASSUME NEW f \in DOMAIN frags PROVE Placed(frags2[f], Len(buf2))
    <3>1. CASE f = name
      <4>1. Placed(frags[f], Len(buf))
        BY <1>5 DEF AllPlaced
      <4> QED
        BY <1>7, <1>9, <3>1, <4>1, RangeEnds
    <3>2. CASE f # name
      BY <1>8, <2>1, <3>2 DEF AllPlaced
    <3> QED
      BY <3>1, <3>2
  <2>3. AllPlaced(ops, frags2, Len(buf2))
    BY <1>8, <2>1, <2>2 DEF AllPlaced
  <2>4. ASSUME NEW f \in DOMAIN frags PROVE frags2[f] \in [first : Nat, end : Nat, used : BOOLEAN]
    BY <1>5, <1>8, <1>9 DEF Definitions
  <2>5. Definitions(ops, frags2)
    BY <1>5, <1>8, <2>4 DEF Definitions
  <2> QED
    BY <1>6, <2>3, <2>5 DEF InPlace
<1>11. CountersStep(t[p + 1], stack, frag, stack - 1, frag)
  BY DEF CountersStep, Untyped
<1>12. Counters(t, p + 1, stack - 1, frag)
  BY <1>1, <1>11, CountersNext
<1>13. \A x \in 1..Len(ops) : ops[x].first \in Nat \ {0}
  BY <1>5, <1>7, FirstIsPlace
<1>14. ASSUME NEW x \in 1..Len(ops)
       PROVE  \E src \in 1..(p + 1) :
                Copied(t, p + 1, src, buf2, ops[x].first) /\ Ended(t, p + 1, src, ops[x])
  BY <1>3, <1>6, <1>7, <1>13, OthersCopied
<1>15. OperationsCopied(t, p + 1, buf2, ops, "")
  BY <1>14 DEF OperationsCopied
<1>16. InDefinition(t, p + 1, Len(buf2), ops, frags2, "", "")
  BY DEF InDefinition
<1>17. FragmentsEnded(frags2, "")
  <2> SUFFICES ASSUME NEW f \in DOMAIN frags PROVE frags2[f].first + 3 < frags2[f].end
    BY <1>8 DEF FragmentsEnded
  <2>1. CASE f # name
    BY <1>1, <1>8, <2>1 DEF FragmentsEnded
  <2>2. CASE f = name
    <3>1. Placed(frags[f], Len(buf))
      BY <1>5 DEF AllPlaced
    <3>2. frags[f].first \in Nat /\ frags[f].end \in Nat /\ frags[f].end <= Len(buf) + 1
      BY <1>7, <3>1 DEF Placed
    <3>3. frags[f].first + 2 <= Len(buf) \/ frags[f].first + 3 < frags[f].end
      BY <1>1, <1>4, <2>2 DEF FragmentsEnded
    <3>4. frags[f].first + 3 < Len(buf) + 2
      BY <1>7, <3>2, <3>3
    <3> QED
      BY <1>9, <2>2, <3>4
  <2> QED
    BY <2>1, <2>2
<1> QED
  BY <1>10, <1>12, <1>15, <1>16, <1>17 DEF ScanState

-----------------------------------------------------------------------------
(* Ranges of definitions, over the whole call.                             *)

T == Tokens(document)

After == {"select", "operation", "index", "json", "values", "inspect", "nested", "entry",
          "varlist", "fill", "loops", "panic"}

Scanning ==
  /\ document \in Documents /\ pos \in 1..Len(T) + 1
  /\ ScanState(T, pos - 1, buffer, operations, fragDefs,
               recentDef, recentFragDef, stackCounter, fragStackCounter)

Scanned ==
  /\ document \in Documents
  /\ OperationsCopied(T, Len(T), buffer, operations, "") /\ FragmentsEnded(fragDefs, "")

\* Places in the operation that was selected.
InOperation ==
  /\ \E x \in 1..Len(operations) : opr = operations[x]
  /\ opr.first < opr.end /\ i \in 1..Len(O) + 1
  /\ \A v \in DOMAIN varsDecls : varsDecls[v].type.end <= Len(O) /\ varsDecls[v].default.end <= Len(O)

OperationInv ==
  /\ pc \in {"idle", "called", "scan", "select"} => opr = NoRange /\ i = 1 /\ varsDecls = <<>>
  /\ pc \in After \ {"select"} => opr # NoRange
  /\ opr = NoRange => varsDecls = <<>>
  /\ opr # NoRange => InOperation

InPreamble(s) ==
  /\ s \in Preambles(T)
  /\ Len(s) \in 1..Len(O) /\ \A x \in 1..Len(s) : O[x] = s[x]
  /\ i \in Places(s) \cup {Len(s)}

RangeInv ==
  /\ pc \in After \cup {"idle", "called", "scan", "returned"}
  /\ InPlace(buffer, operations, fragDefs)
  /\ pc = "called" => buffer = <<>> /\ operations = <<>> /\ fragDefs = <<>> /\ pos = 1
                      /\ recentDef = "" /\ recentFragDef = "" /\ stackCounter = 0 /\ fragStackCounter = 0
  /\ pc = "scan" => Scanning
  /\ pc \in After => Scanned
  /\ OperationInv
  /\ pc = "index" => InPreamble(Preamble)

LEMMA RangesFollow ==
  ASSUME RangeInv
  PROVE  RangesAreInBuffer
<1>1. InPlace(buffer, operations, fragDefs) /\ OperationInv
  BY DEF RangeInv
<1>2. DOMAIN operations = 1..Len(operations)
  BY <1>1 DEF InPlace, Definitions
<1>3. /\ \A x \in DOMAIN operations : operations[x].first \in 1..Len(buffer) /\ operations[x].end <= Len(buffer) + 1
      /\ \A f \in DOMAIN fragDefs : fragDefs[f].first \in 1..Len(buffer) /\ fragDefs[f].end <= Len(buffer) + 1
  BY <1>1, <1>2 DEF InPlace, AllPlaced, Placed
<1>4. ASSUME pc \notin {"idle", "called", "scan", "returned"}
      PROVE  /\ \A x \in DOMAIN operations : operations[x].first < operations[x].end
             /\ \A f \in DOMAIN fragDefs : fragDefs[f].first + 3 < fragDefs[f].end
  <2>1. Scanned
    BY <1>4 DEF RangeInv
  <2>2. \A f \in DOMAIN fragDefs : fragDefs[f].first + 3 < fragDefs[f].end
    BY <2>1 DEF Scanned, FragmentsEnded
  <2>3. ASSUME NEW x \in 1..Len(operations) PROVE operations[x].first < operations[x].end
    <3>1. operations[x].first + 2 < operations[x].end
      BY <2>1 DEF Scanned, OperationsCopied, Ended
    <3>0. operations \in Seq([first : Nat, end : Nat])
      BY <1>1 DEF InPlace, Definitions
    <3>2. operations[x] \in [first : Nat, end : Nat]
      BY <3>0, ElementOfSeq
    <3> QED
      BY <3>1, <3>2
  <2> QED
    BY <1>2, <2>2, <2>3
<1>5. opr # NoRange => i <= Len(O) + 1
  BY <1>1 DEF OperationInv, InOperation
<1>6. \A v \in DOMAIN varsDecls : varsDecls[v].type.end <= Len(O) /\ varsDecls[v].default.end <= Len(O)
  <2>1. DOMAIN <<>> = {}
    OBVIOUS
  <2> QED
    BY <1>1, <2>1 DEF OperationInv, InOperation
<1> QED
  BY <1>3, <1>4, <1>5, <1>6 DEF RangesAreInBuffer

AtToken(p) ==
  /\ p \in Nat /\ p < Len(T) /\ pos = p + 1 /\ token = T[p + 1] /\ IsScanned(T)
  /\ ScanState(T, p, buffer, operations, fragDefs,
               recentDef, recentFragDef, stackCounter, fragStackCounter)

LEMMA TokenIsNext ==
  ASSUME RangeInv, pc = "scan", pos <= Len(T)
  PROVE  AtToken(pos - 1)
<1>1. Scanning
  BY DEF RangeInv
<1>2. IsScanned(T)
  BY <1>1, ScannerAssumption DEF Scanning, T
<1>3. Len(T) \in Nat
  <2>1. T \in Seq(ToSet(T))
    BY <1>2, Zenon DEF IsScanned
  <2> QED
    BY <2>1
<1>4. pos \in 1..Len(T) + 1
  BY <1>1 DEF Scanning
<1>5. pos - 1 \in Nat /\ pos - 1 < Len(T) /\ pos = (pos - 1) + 1
  BY <1>3, <1>4
<1>6. token = T[(pos - 1) + 1]
  BY <1>5 DEF token, T
<1> QED
  BY <1>1, <1>2, <1>5, <1>6 DEF AtToken, Scanning

\* A token is read, and the scan goes on.
LEMMA TokenIsRead ==
  ASSUME RangeInv, pc = "scan", NEW p, AtToken(p), pc' = "scan", document' = document, pos' = pos + 1,
         UNCHANGED <<opr, i, varsDecls>>,
         ScanState(T, p + 1, buffer', operations', fragDefs',
                   recentDef', recentFragDef', stackCounter', fragStackCounter')
  PROVE  RangeInv'
<1>1. opr' = NoRange /\ i' = 1 /\ varsDecls' = <<>>
  BY DEF RangeInv, OperationInv
<1>2. OperationInv'
  BY <1>1 DEF OperationInv, After
<1>3. T' = T /\ document' \in Documents
  BY DEF T, RangeInv, Scanning
<1>4. pos' - 1 = p + 1 /\ pos' \in 1..Len(T) + 1
  <2>1. Len(T) \in Nat
    <3>1. T \in Seq(ToSet(T))
      BY Zenon DEF IsScanned, AtToken
    <3> QED
      BY <3>1
  <2>2. p \in Nat /\ p < Len(T) /\ pos = p + 1
    BY DEF AtToken
  <2> QED
    BY <2>1, <2>2
<1>5. Scanning'
  BY <1>3, <1>4 DEF Scanning
<1>6. InPlace(buffer', operations', fragDefs')
  BY DEF ScanState
<1> QED
  BY <1>2, <1>5, <1>6 DEF RangeInv, After

\* A token that neither begins nor ends a definition is read.
LEMMA TokenWithin ==
  ASSUME RangeInv, pc = "scan", pos <= Len(T), pc' = "scan", document' = document, pos' = pos + 1,
         UNCHANGED <<opr, i, varsDecls, operations, fragDefs, recentDef, recentFragDef>>,
         ~Starts(token), token[1] = "SetEnd" /\ fragStackCounter = 0 => stackCounter - 1 >= 1,
         Buffered(buffer', buffer, token, fragStackCounter),
         CountersStep(token, stackCounter, fragStackCounter, stackCounter', fragStackCounter')
  PROVE  RangeInv'
<1> DEFINE p == pos - 1
<1>1. AtToken(p)
  BY TokenIsNext
<1>2. /\ p \in Nat /\ p < Len(T) /\ pos = p + 1 /\ token = T[p + 1] /\ IsScanned(T)
      /\ ScanState(T, p, buffer, operations, fragDefs,
                   recentDef, recentFragDef, stackCounter, fragStackCounter)
  BY <1>1, Zenon DEF AtToken
<1> HIDE DEF p
<1>3. Within(T, p, stackCounter, fragStackCounter)
  BY <1>2 DEF Within
<1>4. ScanState(T, p + 1, buffer', operations, fragDefs,
                recentDef, recentFragDef, stackCounter', fragStackCounter')
  BY <1>2, <1>3, WithinStays
<1>5. ScanState(T, p + 1, buffer', operations', fragDefs',
                recentDef', recentFragDef', stackCounter', fragStackCounter')
  BY <1>4
<1> QED
  BY <1>1, <1>5, TokenIsRead

LEMMA ScanWithin ==
  ASSUME RangeInv, ReadUntypedInline \/ ReadSet \/ DropSetEnd \/ ReadSpread \/ ReadOther
  PROVE  RangeInv'
<1>1. /\ pc = "scan" /\ pos <= Len(T) /\ pc' = "scan" /\ document' = document /\ pos' = pos + 1
      /\ UNCHANGED <<opr, i, varsDecls, operations, fragDefs, recentDef, recentFragDef>>
  BY DEF ReadUntypedInline, ReadSet, DropSetEnd, ReadSpread, ReadOther, Read, T, index, scan, place, variables
<1>2. ~Starts(token)
  BY DEF ReadUntypedInline, ReadSet, DropSetEnd, ReadSpread, ReadOther, Read, Starts
<1>3. token[1] = "SetEnd" /\ fragStackCounter = 0 => stackCounter - 1 >= 1
  <2>1. token[1] = "SetEnd" => DropSetEnd
    BY DEF ReadUntypedInline, ReadSet, ReadSpread, ReadOther, Read
  <2>2. DropSetEnd => fragStackCounter # 0
    BY DEF DropSetEnd
  <2> QED
    BY <2>1, <2>2
<1>4. Buffered(buffer', buffer, token, fragStackCounter)
  <2>1. fragStackCounter \in Nat
    BY <1>1 DEF RangeInv, Scanning, ScanState, Counters
  <2>2. CASE ReadSet
    <3>1. fragStackCounter > 0 <=> fragStackCounter # 0
      BY <2>1
    <3>2. token[1] = "Set" /\ ~Untyped(token)
      BY <2>2 DEF ReadSet, Read, Untyped
    <3>3. Kept(token, fragStackCounter) <=> fragStackCounter = 0
      BY <3>2 DEF Kept
    <3>4. buffer' = IF fragStackCounter > 0 THEN buffer ELSE Append(buffer, token)
      BY <2>2 DEF ReadSet, Keep
    <3> QED
      BY <3>1, <3>3, <3>4, Zenon DEF Buffered
  <2>3. CASE DropSetEnd
    <3>1. fragStackCounter # 0
      BY <2>3 DEF DropSetEnd
    <3> QED
      BY <2>3, <3>1 DEF DropSetEnd, Read, Buffered, Kept, Untyped, index
  <2>4. CASE ReadUntypedInline \/ ReadSpread \/ ReadOther
    BY <2>4 DEF ReadUntypedInline, ReadSpread, ReadOther, Read, Keep, Buffered, Kept, Untyped, index
  <2> QED
    BY <2>2, <2>3, <2>4
<1>5. CountersStep(token, stackCounter, fragStackCounter, stackCounter', fragStackCounter')
  BY DEF ReadUntypedInline, ReadSet, DropSetEnd, ReadSpread, ReadOther, Read, CountersStep, Untyped, scan
<1> QED
  BY <1>1, <1>2, <1>3, <1>4, <1>5, TokenWithin

LEMMA ScanSetEnd ==
  ASSUME RangeInv, ReadSetEnd
  PROVE  RangeInv'
<1>1. /\ pc = "scan" /\ pos <= Len(T) /\ pc' = "scan" /\ document' = document /\ pos' = pos + 1
      /\ UNCHANGED <<opr, i, varsDecls>> /\ token[1] = "SetEnd" /\ fragStackCounter = 0
      /\ buffer' = Append(buffer, token) /\ stackCounter' = stackCounter - 1
      /\ fragStackCounter' = fragStackCounter
  BY DEF ReadSetEnd, Read, Keep, T, place, variables
<1>2. CASE stackCounter' >= 1
  <2>1. UNCHANGED <<operations, fragDefs, recentDef, recentFragDef>>
    BY <1>2 DEF ReadSetEnd
  <2>2. ~Starts(token) /\ Buffered(buffer', buffer, token, fragStackCounter)
        /\ CountersStep(token, stackCounter, fragStackCounter, stackCounter', fragStackCounter')
    BY <1>1 DEF Starts, Buffered, Kept, Untyped, CountersStep
  <2>3. stackCounter - 1 >= 1
    BY <1>1, <1>2
  <2> QED
    BY <1>1, <2>1, <2>2, <2>3, TokenWithin
<1>3. CASE ~(stackCounter' >= 1)
  <2> DEFINE p == pos - 1
  <2>1. AtToken(p)
    BY <1>1, TokenIsNext
  <2>2. /\ p \in Nat /\ p < Len(T) /\ pos = p + 1 /\ token = T[p + 1] /\ IsScanned(T)
        /\ ScanState(T, p, buffer, operations, fragDefs,
                     recentDef, recentFragDef, stackCounter, fragStackCounter)
    BY <2>1, Zenon DEF AtToken
  <2> HIDE DEF p
  <2>3. recentDef' = "" /\ recentFragDef' = ""
    BY <1>3 DEF ReadSetEnd
  <2>4. CASE recentDef = "DefQry"
    <3>1. operations' = [operations EXCEPT ![Len(operations)].end = Len(buffer')+1] /\ fragDefs' = fragDefs
      BY <1>3, <2>4 DEF ReadSetEnd
    <3>2. ScanState(T, p + 1, buffer', operations', fragDefs, "", "", stackCounter - 1, fragStackCounter)
      BY <1>1, <2>2, <2>4, <3>1, OperationIsEnded
    <3>3. ScanState(T, p + 1, buffer', operations', fragDefs',
                    recentDef', recentFragDef', stackCounter', fragStackCounter')
      BY <1>1, <2>3, <3>1, <3>2
    <3> QED
      BY <1>1, <2>1, <3>3, TokenIsRead
  <2>5. CASE recentDef # "DefQry"
    <3>1. fragDefs' = WithEnd(fragDefs, recentFragDef, Len(buffer') + 1) /\ operations' = operations
      BY <1>3, <2>5 DEF ReadSetEnd, WithEnd
    <3>2. ScanState(T, p + 1, buffer', operations, fragDefs', "", "", stackCounter - 1, fragStackCounter)
      BY <1>1, <2>2, <2>5, <3>1, FragmentIsEnded
    <3>3. ScanState(T, p + 1, buffer', operations', fragDefs',
                    recentDef', recentFragDef', stackCounter', fragStackCounter')
      BY <1>1, <2>3, <3>1, <3>2
    <3> QED
      BY <1>1, <2>1, <3>3, TokenIsRead
  <2> QED
    BY <2>4, <2>5
<1> QED
  BY <1>2, <1>3

LEMMA ScanBegins ==
  ASSUME RangeInv, ReadDefinition \/ ReadFragment
  PROVE  RangeInv'
<1> DEFINE p == pos - 1
<1>1. /\ pc = "scan" /\ pos <= Len(T) /\ pc' = "scan" /\ document' = document /\ pos' = pos + 1
      /\ UNCHANGED <<opr, i, varsDecls, stackCounter, fragStackCounter>>
      /\ buffer' = Append(buffer, token)
  BY DEF ReadDefinition, ReadFragment, Read, Keep, T, place, variables
<1>2. AtToken(p)
  BY <1>1, TokenIsNext
<1>3. /\ p \in Nat /\ p < Len(T) /\ pos = p + 1 /\ token = T[p + 1] /\ IsScanned(T)
      /\ ScanState(T, p, buffer, operations, fragDefs,
                   recentDef, recentFragDef, stackCounter, fragStackCounter)
  BY <1>2, Zenon DEF AtToken
<1> HIDE DEF p
<1>4. CASE ReadDefinition
  <2>1. /\ T[p + 1][1] = "DefQry" /\ recentDef' = "DefQry" /\ recentFragDef' = recentFragDef
        /\ operations' = Append(operations, [first |-> Len(buffer) + 1, end |-> 0])
        /\ fragDefs' = fragDefs
    BY <1>3, <1>4 DEF ReadDefinition, Read
  <2>2. ScanState(T, p + 1, Append(buffer, T[p + 1]),
                  Append(operations, [first |-> Len(buffer) + 1, end |-> 0]), fragDefs,
                  "DefQry", recentFragDef, stackCounter, fragStackCounter)
    BY <1>3, <2>1, OperationBegins
  <2>3. ScanState(T, p + 1, buffer', operations', fragDefs',
                  recentDef', recentFragDef', stackCounter', fragStackCounter')
    BY <1>1, <1>3, <2>1, <2>2
  <2> QED
    BY <1>1, <1>2, <2>3, TokenIsRead
<1>5. CASE ReadFragment
  <2>1. /\ T[p + 1][1] = "FragName" /\ recentDef' = recentDef /\ recentFragDef' = T[p + 1][2]
        /\ operations' = operations
        /\ fragDefs' = With(fragDefs, T[p + 1][2], [first |-> Len(buffer) + 1, end |-> 0, used |-> FALSE])
    BY <1>3, <1>5 DEF ReadFragment, Read
  <2>2. ScanState(T, p + 1, Append(buffer, T[p + 1]), operations,
                  With(fragDefs, T[p + 1][2], [first |-> Len(buffer) + 1, end |-> 0, used |-> FALSE]),
                  recentDef, T[p + 1][2], stackCounter, fragStackCounter)
    BY <1>3, <2>1, FragmentBegins
  <2>3. ScanState(T, p + 1, buffer', operations', fragDefs',
                  recentDef', recentFragDef', stackCounter', fragStackCounter')
    BY <1>1, <1>3, <2>1, <2>2
  <2> QED
    BY <1>1, <1>2, <2>3, TokenIsRead
<1> QED
  BY <1>4, <1>5

LEMMA ScanFails ==
  ASSUME RangeInv, RefuseFragment \/ SyntaxError
  PROVE  RangeInv'
<1>1. /\ pc = "scan" /\ pc' = "returned" /\ UNCHANGED <<opr, i, varsDecls, operations, fragDefs>>
      /\ buffer' = buffer \/ buffer' = Append(buffer, token)
  BY DEF RefuseFragment, SyntaxError, Read, Fail, Keep, index, place, variables
<1>2. opr' = NoRange /\ i' = 1 /\ varsDecls' = <<>>
  BY <1>1 DEF RangeInv, OperationInv
<1>3. OperationInv'
  BY <1>1, <1>2 DEF OperationInv, After
<1>4. InPlace(buffer, operations, fragDefs)
  BY DEF RangeInv
<1>5. IsList(buffer) /\ Definitions(operations, fragDefs) /\ AllPlaced(operations, fragDefs, Len(buffer))
  BY <1>4 DEF InPlace
<1>6. IsList(buffer') /\ Len(buffer) \in Nat /\ Len(buffer') \in Nat /\ Len(buffer') >= Len(buffer)
  <2>1. Len(buffer) \in Nat
    BY <1>5 DEF IsList
  <2>2. CASE buffer' = buffer
    BY <1>5, <2>1, <2>2
  <2>3. CASE buffer' = Append(buffer, token)
    <3>1. IsList(buffer') /\ IsLonger(buffer', buffer, token)
      BY <1>5, <2>3, Appended
    <3> QED
      BY <2>1, <3>1 DEF IsLonger
  <2> QED
    BY <1>1, <2>2, <2>3
<1>7. AllPlaced(operations, fragDefs, Len(buffer'))
  BY <1>5, <1>6, StillPlaced
<1>8. InPlace(buffer', operations', fragDefs')
  BY <1>1, <1>5, <1>6, <1>7 DEF InPlace
<1> QED
  BY <1>1, <1>3, <1>8 DEF RangeInv, After

LEMMA ScanEnds ==
  ASSUME RangeInv, EndOfScan
  PROVE  RangeInv'
<1>1. /\ pc = "scan" /\ pc' = "select" /\ pos > Len(T)
      /\ UNCHANGED <<document, buffer, operations, fragDefs, opr, i, varsDecls>>
  BY DEF EndOfScan, T, request, index, place, variables
<1>2. opr = NoRange /\ i = 1 /\ varsDecls = <<>> /\ Scanning /\ InPlace(buffer, operations, fragDefs)
  BY <1>1 DEF RangeInv, OperationInv
<1>3. OperationInv'
  BY <1>1, <1>2 DEF OperationInv, After
<1>4. document \in Documents /\ IsScanned(T) /\ pos \in 1..Len(T) + 1
  BY <1>2, ScannerAssumption DEF Scanning, T
<1>5. Len(T) \in Nat /\ Depth(T, Len(T)) = 0 /\ ~Begun(T, Len(T))
  <2>1. T \in Seq(ToSet(T)) /\ Depth(T, Len(T)) = 0 /\ ~Begun(T, Len(T))
    BY <1>4, Zenon DEF IsScanned
  <2> QED
    BY <2>1
<1>6. pos - 1 = Len(T)
  BY <1>1, <1>4, <1>5
<1>7. ScanState(T, Len(T), buffer, operations, fragDefs,
               recentDef, recentFragDef, stackCounter, fragStackCounter)
  BY <1>2, <1>6 DEF Scanning
<1>8. recentDef = "" /\ recentFragDef = ""
  BY <1>5, <1>7, NoneOpen DEF ScanState
<1>9. OperationsCopied(T, Len(T), buffer, operations, "") /\ FragmentsEnded(fragDefs, "")
  BY <1>7, <1>8, Zenon DEF ScanState
<1>10. T' = T
  BY <1>1 DEF T
<1>11. Scanned'
  BY <1>1, <1>4, <1>9, <1>10 DEF Scanned
<1> QED
  BY <1>1, <1>2, <1>3, <1>11 DEF RangeInv, After

LEMMA ScanKeepsRanges ==
  ASSUME RangeInv, Scan
  PROVE  RangeInv'
BY ScanWithin, ScanSetEnd, ScanBegins, ScanFails, ScanEnds, Zenon DEF Scan

LEMMA NothingScanned ==
  ASSUME NEW t
  PROVE  InPlace(<<>>, <<>>, <<>>) /\ ScanState(t, 0, <<>>, <<>>, <<>>, "", "", 0, 0)
<1>1. IsList(<<>>) /\ Len(<<>>) = 0 /\ DOMAIN <<>> = {} /\ 1..0 = {}
  BY EmptyList
<1>2. InPlace(<<>>, <<>>, <<>>)
  BY <1>1 DEF InPlace, Definitions, AllPlaced
<1>3. Depth(t, 0) = 0
  BY NextDepth
<1>4. ~(0 > 0)
  OBVIOUS
<1>5. Counters(t, 0, 0, 0)
  BY <1>3, <1>4 DEF Counters
<1>6. InDefinition(t, 0, Len(<<>>), <<>>, <<>>, "", "")
  BY DEF InDefinition
<1>7. OperationsCopied(t, 0, <<>>, <<>>, "") /\ FragmentsEnded(<<>>, "")
  BY <1>1 DEF OperationsCopied, FragmentsEnded
<1> QED
  BY <1>2, <1>5, <1>6, <1>7 DEF ScanState

LEMMA CallKeepsRanges ==
  ASSUME RangeInv, Call \/ \E doc \in Documents : Receive(doc)
  PROVE  RangeInv'
<1>1. CASE Call
  <2>1. /\ pc' = "called" /\ buffer' = <<>> /\ operations' = <<>> /\ fragDefs' = <<>> /\ pos' = 1
        /\ recentDef' = "" /\ recentFragDef' = "" /\ stackCounter' = 0 /\ fragStackCounter' = 0
        /\ opr' = NoRange /\ i' = 1 /\ varsDecls' = <<>>
    BY <1>1 DEF Call, reset
  <2>2. OperationInv'
    BY <2>1 DEF OperationInv, After
  <2>3. InPlace(buffer', operations', fragDefs')
    BY <2>1, NothingScanned
  <2> QED
    BY <2>1, <2>2, <2>3 DEF RangeInv, After
<1>2. ASSUME NEW doc \in Documents, Receive(doc)
      PROVE  RangeInv'
  <2>1. /\ pc = "called" /\ pc' = "scan" /\ document' = doc
        /\ UNCHANGED <<pos, buffer, operations, fragDefs, recentDef, recentFragDef,
                       stackCounter, fragStackCounter, opr, i, varsDecls>>
    BY <1>2 DEF Receive, index, scan, place, variables
  <2>2. /\ buffer = <<>> /\ operations = <<>> /\ fragDefs = <<>> /\ pos = 1
        /\ recentDef = "" /\ recentFragDef = "" /\ stackCounter = 0 /\ fragStackCounter = 0
        /\ opr = NoRange /\ i = 1 /\ varsDecls = <<>>
    BY <2>1 DEF RangeInv, OperationInv
  <2>3. OperationInv'
    BY <2>1, <2>2 DEF OperationInv, After
  <2>4. Len(T') \in Nat
    <3>1. IsScanned(T')
      BY <2>1, ScannerAssumption DEF T
    <3>2. T' \in Seq(ToSet(T'))
      BY <3>1, Zenon DEF IsScanned
    <3> QED
      BY <3>2
  <2>5. pos' - 1 = 0 /\ pos' \in 1..Len(T') + 1
    <3>1. pos' = 1
      BY <2>1, <2>2
    <3>2. \A n \in Nat : 1 \in 1..n + 1
      OBVIOUS
    <3> QED
      BY <2>4, <3>1, <3>2
  <2>6. Scanning'
    BY <2>1, <2>2, <2>5, NothingScanned DEF Scanning
  <2>7. InPlace(buffer', operations', fragDefs')
    BY <2>1, <2>2, NothingScanned
  <2> QED
    BY <2>1, <2>3, <2>6, <2>7 DEF RangeInv, After
<1> QED
  BY <1>1, <1>2

\* s are the tokens of buf in the range.
IsSlice(s, buf, r) ==
  /\ IsList(s) /\ Len(s) \in Nat /\ Len(s) = r.end - r.first
  /\ \A z \in 1..Len(s) : s[z] = buf[r.first + z - 1]

LEMMA Sliced ==
  ASSUME NEW buf, IsList(buf), NEW r, Placed(r, Len(buf)), r.first < r.end
  PROVE  IsSlice(Slice(buf, r), buf, r)
<1> DEFINE m == r.first
           n == r.end - 1
           s == SubSeq(buf, m, n)
<1>1. PICK S : buf \in Seq(S)
  BY DEF IsList
<1>2. Len(buf) \in Nat
  BY <1>1
<1>3. m \in 1..Len(buf) /\ r.end \in Nat /\ r.end <= Len(buf) + 1
  BY DEF Placed
<1>4. m \in 1..Len(buf) + 1 /\ n \in m - 1..Len(buf) /\ m <= n /\ n - m + 1 = r.end - m
  BY <1>2, <1>3
<1>5. /\ s \in Seq(S) /\ Len(s) = n - m + 1
      /\ \A z \in 1..n - m + 1 : s[z] = buf[m + z - 1]
  <2> HIDE DEF m, n
  <2>1. /\ SubSeq(buf, m, n) \in Seq(S)
        /\ Len(SubSeq(buf, m, n)) = IF m <= n THEN n - m + 1 ELSE 0
        /\ \A z \in 1..n - m + 1 : SubSeq(buf, m, n)[z] = buf[m + z - 1]
    BY <1>1, <1>4, SubSeqProperties
  <2> QED
    BY <1>4, <2>1
<1>6. Slice(buf, r) = s
  BY DEF Slice
<1> HIDE DEF s, n
<1>7. IsList(s) /\ Len(s) \in Nat
  BY <1>5 DEF IsList
<1> QED
  BY <1>4, <1>5, <1>6, <1>7 DEF IsSlice

LEMMA OperationsAreEnded ==
  ASSUME RangeInv, Scanned, NEW x \in 1..Len(operations)
  PROVE  /\ operations[x] # NoRange /\ operations[x].first < operations[x].end
         /\ operations[x].first + 2 < operations[x].end
         /\ IsSlice(Slice(buffer, operations[x]), buffer, operations[x])
<1>1. InPlace(buffer, operations, fragDefs)
  BY DEF RangeInv
<1>2. Placed(operations[x], Len(buffer)) /\ IsList(buffer)
  BY <1>1 DEF InPlace, AllPlaced
<1>3. operations[x].first + 2 < operations[x].end
  BY DEF Scanned, OperationsCopied, Ended
<1>4. operations[x].first \in Nat \ {0} /\ operations[x].end \in Nat
  <2>1. Len(buffer) \in Nat
    BY <1>2 DEF IsList
  <2> QED
    BY <1>2, <2>1 DEF Placed
<1>5. operations[x] # NoRange
  <2>1. NoRange.first = 0
    BY DEF NoRange
  <2> QED
    BY <1>4, <2>1
<1>6. operations[x].first < operations[x].end
  BY <1>3, <1>4
<1> QED
  BY <1>2, <1>3, <1>5, <1>6, Sliced

LEMMA SelectKeepsRanges ==
  ASSUME RangeInv, NEW name, SelectOperation(name)
  PROVE  RangeInv'
<1>1. /\ pc = "select" /\ UNCHANGED <<document, buffer, operations, fragDefs, i, varsDecls>>
      /\ \/ pc' = "returned" /\ opr' = opr
         \/ pc' = "operation" /\ \E x \in 1..Len(operations) : opr' = operations[x]
  BY DEF SelectOperation, Fail, index, variables
<1>2. /\ opr = NoRange /\ i = 1 /\ varsDecls = <<>> /\ Scanned
      /\ InPlace(buffer, operations, fragDefs)
  BY <1>1 DEF RangeInv, OperationInv, After
<1>3. InPlace(buffer', operations', fragDefs')
  BY <1>1, <1>2
<1>4. CASE pc' = "returned" /\ opr' = opr
  <2>1. OperationInv'
    BY <1>1, <1>2, <1>4 DEF OperationInv, After
  <2> QED
    BY <1>3, <1>4, <2>1 DEF RangeInv, After
<1>5. ASSUME pc' = "operation", NEW x \in 1..Len(operations), opr' = operations[x]
      PROVE  RangeInv'
  <2>1. /\ opr' # NoRange /\ opr'.first < opr'.end
        /\ IsSlice(Slice(buffer, opr'), buffer, opr')
    BY <1>2, <1>5, OperationsAreEnded
  <2>2. O' = Slice(buffer, opr')
    BY <1>1 DEF O
  <2>3. i' = 1 /\ Len(O') \in Nat
    BY <1>1, <1>2, <2>1, <2>2 DEF IsSlice
  <2>4. i' \in 1..Len(O') + 1
    <3>1. \A n \in Nat : 1 \in 1..n + 1
      OBVIOUS
    <3> QED
      BY <2>3, <3>1
  <2>5. InOperation'
    <3>1. DOMAIN varsDecls' = {}
      BY <1>1, <1>2
    <3> QED
      BY <1>1, <1>5, <2>1, <2>4, <3>1 DEF InOperation
  <2>6. OperationInv'
    BY <1>5, <2>1, <2>5 DEF OperationInv, After
  <2>7. Scanned'
    BY <1>1, <1>2 DEF Scanned, T
  <2> QED
    BY <1>3, <1>5, <2>6, <2>7 DEF RangeInv, After
<1> QED
  BY <1>1, <1>4, <1>5

\* What the scanner made of an operation is where the operation is, up to its
\* selections.
CopyOf(t, src, o) ==
  /\ src \in 1..Len(t) /\ t[src][1] = "DefQry" /\ ~NoSet(t, src, Len(t))
  /\ IsList(o) /\ Len(o) \in Nat /\ Len(o) >= 3
  /\ \A z \in src..Len(t) : NoSet(t, src, z - 1) => z - src + 1 \in 1..Len(o) /\ o[z - src + 1] = t[z]

LEMMA OperationIsCopy ==
  ASSUME RangeInv, pc \in After \ {"select"}
  PROVE  \E src : CopyOf(T, src, O)
<1>1. Scanned /\ InOperation /\ InPlace(buffer, operations, fragDefs)
  BY DEF RangeInv, OperationInv
<1>2. PICK x \in 1..Len(operations) : opr = operations[x]
  BY <1>1 DEF InOperation
<1>3. /\ opr.first + 2 < opr.end
      /\ IsSlice(O, buffer, opr)
  BY <1>1, <1>2, OperationsAreEnded DEF O
<1>4. PICK src \in 1..Len(T) : Copied(T, Len(T), src, buffer, opr.first) /\ Ended(T, Len(T), src, opr)
  BY <1>1, <1>2 DEF Scanned, OperationsCopied
<1>5. opr.first \in Nat /\ opr.end \in Nat /\ Len(T) \in Nat
  <2>1. Placed(opr, Len(buffer)) /\ IsList(buffer)
    BY <1>1, <1>2 DEF InPlace, AllPlaced
  <2>2. Len(buffer) \in Nat
    BY <2>1 DEF IsList
  <2>3. IsScanned(T)
    BY <1>1, ScannerAssumption DEF Scanned, T
  <2>4. T \in Seq(ToSet(T))
    BY <2>3, Zenon DEF IsScanned
  <2> QED
    BY <2>1, <2>2, <2>4 DEF Placed
<1>6. IsList(O) /\ Len(O) \in Nat /\ Len(O) = opr.end - opr.first
  BY <1>3 DEF IsSlice
<1>7. Len(O) >= 3
  BY <1>3, <1>5, <1>6
<1>8. ASSUME NEW z \in src..Len(T), NoSet(T, src, z - 1)
      PROVE  z - src + 1 \in 1..Len(O) /\ O[z - src + 1] = T[z]
  <2>1. buffer[opr.first + (z - src)] = T[z] /\ opr.first + (z - src) < opr.end
    BY <1>4, <1>8 DEF Copied, Ended
  <2>2. z - src + 1 \in 1..Len(O)
    BY <1>5, <1>6, <2>1
  <2>3. O[z - src + 1] = buffer[opr.first + (z - src + 1) - 1]
    BY <1>3, <2>2 DEF IsSlice
  <2>4. opr.first + (z - src + 1) - 1 = opr.first + (z - src)
    BY <1>5
  <2> QED
    BY <2>1, <2>2, <2>3, <2>4
<1>9. T[src][1] = "DefQry" /\ ~NoSet(T, src, Len(T))
  BY <1>4 DEF Copied, Ended
<1> QED
  BY <1>6, <1>7, <1>8, <1>9 DEF CopyOf

\* Where the variables of an operation end.
IsFirstEnd(o, x) == o[x][1] = "VarListEnd" /\ \A y \in 1..x-1 : o[y][1] # "VarListEnd"

PreambleOf(o) == SubSeq(o, 1, CHOOSE x \in DOMAIN o : IsFirstEnd(o, x))

Leads(s, t, o) == s \in Preambles(t) /\ Len(s) \in 1..Len(o) /\ \A x \in 1..Len(s) : o[x] = s[x]

LEMMA FirstEndIsChosen ==
  ASSUME NEW o, IsList(o), NEW m \in 1..Len(o), IsFirstEnd(o, m)
  PROVE  (CHOOSE x \in DOMAIN o : IsFirstEnd(o, x)) = m
<1> DEFINE c == CHOOSE x \in DOMAIN o : IsFirstEnd(o, x)
<1>1. Len(o) \in Nat /\ DOMAIN o = 1..Len(o)
  BY DEF IsList
<1>2. c \in 1..Len(o) /\ IsFirstEnd(o, c)
  BY <1>1
<1> HIDE DEF c
<1>3. ~(c < m)
  <2>1. c < m => c \in 1..m-1
    BY <1>1, <1>2
  <2> QED
    BY <1>2, <2>1 DEF IsFirstEnd
<1>4. ~(m < c)
  <2>1. m < c => m \in 1..c-1
    BY <1>1, <1>2
  <2> QED
    BY <1>2, <2>1 DEF IsFirstEnd
<1>5. c = m
  BY <1>1, <1>2, <1>3, <1>4
<1> QED
  BY <1>5 DEF c

\* A variable of an operation: where the list of variables begins.
LEMMA PreambleLeads ==
  ASSUME NEW t, IsScanned(t), NEW src, NEW o, CopyOf(t, src, o),
         NEW v \in {src + 1, src + 2},
         \A z \in src..v-1 : t[z][1] \in {"DefQry", "OprName"},
         o[v - src + 1][1] = "VarList"
  PROVE  /\ Leads(PreambleOf(o), t, o)
         /\ v - src + 2 \in Places(PreambleOf(o))
<1>1. /\ src \in 1..Len(t) /\ t[src][1] = "DefQry" /\ ~NoSet(t, src, Len(t))
      /\ IsList(o) /\ Len(o) \in Nat
      /\ \A z \in src..Len(t) : NoSet(t, src, z - 1) => z - src + 1 \in 1..Len(o) /\ o[z - src + 1] = t[z]
  BY Zenon DEF CopyOf
<1>2. t \in Seq(ToSet(t)) /\ Len(t) \in Nat /\ DOMAIN t = 1..Len(t)
  <2>1. t \in Seq(ToSet(t))
    BY Zenon DEF IsScanned
  <2> QED
    BY <2>1
<1>3. src \in Nat /\ v \in Nat /\ v > src
  BY <1>1, <1>2
<1>4. v \in src..Len(t)
  <2>1. CASE v > Len(t)
    <3>1. \A z \in src..Len(t) : z \in src..v-1
      BY <1>2, <1>3, <2>1
    <3> QED
      BY <1>1, <3>1 DEF NoSet
  <2> QED
    BY <1>2, <1>3, <2>1
<1>5. NoSet(t, src, v - 1)
  BY DEF NoSet
<1>6. t[v][1] = "VarList"
  BY <1>1, <1>4, <1>5
<1>7. v < Len(t) /\ t[v + 1][1] = "VarName"
  <2>1. v \in 1..Len(t)
    BY <1>1, <1>2, <1>4
  <2> QED
    BY <1>6, <2>1 DEF IsScanned
<1>8. PICK y \in v..Len(t) : t[y][1] = "VarListEnd" /\ \A z \in v..y-1 : t[z][1] \notin {"VarListEnd", "Set"}
  <2>1. v \in 1..Len(t)
    BY <1>1, <1>2, <1>4
  <2> QED
    BY <1>6, <2>1 DEF IsScanned
<1>9. y \in Nat /\ y >= v + 1 /\ y <= Len(t)
  <2>1. y # v
    BY <1>6, <1>8
  <2> QED
    BY <1>2, <1>3, <1>8, <2>1
<1>10. \A z \in src..y-1 : t[z][1] \notin {"VarListEnd", "Set"}
  <2>1. \A z \in src..y-1 : z \in src..v-1 \/ z \in v..y-1
    BY <1>3, <1>9
  <2> QED
    BY <1>8, <2>1
<1> DEFINE m == y - src + 1
<1>11. ASSUME NEW z \in src..y
       PROVE  z - src + 1 \in 1..Len(o) /\ o[z - src + 1] = t[z]
  <2>1. \A w \in src..z-1 : w \in src..y-1
    BY <1>3, <1>9
  <2>2. NoSet(t, src, z - 1)
    BY <1>10, <2>1 DEF NoSet
  <2>3. z \in src..Len(t)
    BY <1>2, <1>3, <1>9
  <2> QED
    BY <1>1, <2>2, <2>3
<1>12. m \in Nat /\ m \in 1..Len(o) /\ m >= 3
  <2>1. y \in src..y
    BY <1>3, <1>9
  <2>2. m \in 1..Len(o)
    BY <1>11, <2>1
  <2> QED
    BY <1>1, <1>3, <1>9, <2>2
<1>13. \A x \in 1..m : o[x] = t[src + x - 1]
  <2> TAKE x \in 1..m
  <2>0. x \in Nat /\ x >= 1 /\ x <= m
    BY <1>12
  <2>1. src + x - 1 \in src..y /\ (src + x - 1) - src + 1 = x
    BY <1>3, <1>9, <2>0
  <2>2. o[(src + x - 1) - src + 1] = t[src + x - 1]
    BY <1>11, <2>1
  <2> QED
    BY <2>1, <2>2
<1>14. \A x \in 1..m-1 : o[x][1] \notin {"VarListEnd", "Set"}
  <2> TAKE x \in 1..m-1
  <2>1. x \in 1..m /\ src + x - 1 \in src..y-1
    BY <1>3, <1>9
  <2> QED
    BY <1>10, <1>13, <2>1
<1>15. o[1][1] = "DefQry" /\ o[m][1] = "VarListEnd" /\ o[v - src + 2][1] = "VarName"
       /\ v - src + 2 \in 1..m
  <2>1. src + 1 - 1 = src /\ src + m - 1 = y /\ src + (v - src + 2) - 1 = v + 1
    BY <1>3, <1>9
  <2>2. 1 \in 1..m /\ m \in 1..m /\ v - src + 2 \in 1..m
    BY <1>3, <1>9, <1>12
  <2>3. o[1] = t[src] /\ o[m] = t[y] /\ o[v - src + 2] = t[v + 1]
    BY <1>13, <2>1, <2>2
  <2> QED
    BY <1>1, <1>7, <1>8, <2>2, <2>3
<1>16. src + m - 1 = y
  BY <1>3, <1>9
<1> HIDE DEF m
<1>17. IsFirstEnd(o, m)
  BY <1>14, <1>15 DEF IsFirstEnd
<1> DEFINE s == SubSeq(o, 1, m)
           s2 == SubSeq(t, src, y)
<1>18. PreambleOf(o) = s
  BY <1>1, <1>12, <1>17, FirstEndIsChosen DEF PreambleOf
<1> DEFINE R == {t[z] : z \in src..y}
<1>19. \A z \in src..y : t[z] \in R
  OBVIOUS
<1>20. \A x \in 1..m : o[x] \in R
  <2> TAKE x \in 1..m
  <2>1. src + x - 1 \in src..y
    BY <1>3, <1>9, <1>12, <1>16
  <2> QED
    BY <1>13, <2>1
<1> HIDE DEF R
<1>21. /\ s \in Seq(R) /\ Len(s) = m
       /\ \A x \in 1..m : s[x] = o[x]
  <2>1. /\ SubSeq(o, 1, m) \in Seq(R)
        /\ Len(SubSeq(o, 1, m)) = IF 1 <= m THEN m - 1 + 1 ELSE 0
        /\ \A x \in 1..m - 1 + 1 : SubSeq(o, 1, m)[x] = o[1 + x - 1]
    BY <1>12, <1>20, SubSeqProperties
  <2>2. m - 1 + 1 = m /\ 1 <= m /\ \A x \in 1..m : 1 + x - 1 = x
    BY <1>12
  <2> QED
    BY <2>1, <2>2
<1>22. /\ s2 \in Seq(R) /\ Len(s2) = m
       /\ \A x \in 1..m : s2[x] = t[src + x - 1]
  <2>1. /\ SubSeq(t, src, y) \in Seq(R)
        /\ Len(SubSeq(t, src, y)) = IF src <= y THEN y - src + 1 ELSE 0
        /\ \A x \in 1..y - src + 1 : SubSeq(t, src, y)[x] = t[src + x - 1]
    BY <1>3, <1>9, <1>19, SubSeqProperties
  <2>2. y - src + 1 = m /\ src <= y
    BY <1>3, <1>9 DEF m
  <2> QED
    BY <2>1, <2>2
<1> HIDE DEF s, s2
<1>23. s = s2
  <2>1. Len(s) = Len(s2) /\ \A x \in 1..Len(s) : s[x] = s2[x]
    BY <1>13, <1>21, <1>22
  <2>2. s \in Seq(R) /\ s2 \in Seq(R)
    BY <1>21, <1>22
  <2> QED
    BY <2>1, <2>2, SeqEqual
<1>24. src \in DOMAIN t /\ y \in DOMAIN t
  BY <1>1, <1>2, <1>3, <1>9
<1>25. s # <<>>
  BY <1>12, <1>21, EmptyList
<1>26. IsPreamble(s)
  <2>1. s[1] = o[1] /\ s[Len(s)] = o[m]
    <3>1. 1 \in 1..m /\ m \in 1..m
      BY <1>12
    <3> QED
      BY <1>21, <3>1
  <2>2. \A x \in 1..Len(s)-1 : x \in 1..m /\ x \in 1..m-1
    BY <1>12, <1>21
  <2> QED
    BY <1>14, <1>15, <1>21, <2>1, <2>2 DEF IsPreamble
<1>27. s \in Preambles(t)
  <2>0. s = SubSeq(t, src, y)
    BY <1>23 DEF s2
  <2> DEFINE P(x) == {SubSeq(t, x, z) : z \in DOMAIN t}
  <2>1. s \in P(src)
    BY <1>24, <2>0
  <2> HIDE DEF P
  <2>2. s \in UNION {P(x) : x \in DOMAIN t}
    BY <1>24, <2>1
  <2>3. s \in UNION {{SubSeq(t, x, z) : z \in DOMAIN t} : x \in DOMAIN t}
    BY <2>2 DEF P
  <2> QED
    BY <1>25, <1>26, <2>3 DEF Preambles
<1>28. v - src + 2 \in Places(s)
  <2>1. v - src + 2 \in DOMAIN s /\ s[v - src + 2][1] = "VarName"
    BY <1>15, <1>21
  <2> QED
    BY <2>1 DEF Places
<1> QED
  BY <1>12, <1>18, <1>21, <1>27, <1>28 DEF Leads

\* Between the selection of the operation and the next call.
LEMMA LaterKeepsRanges ==
  ASSUME RangeInv, pc \in After \ {"select"}, pc' \in (After \ {"select"}) \cup {"returned"},
         UNCHANGED <<document, buffer, operations, opr>>,
         InPlace(buffer, operations, fragDefs'), FragmentsEnded(fragDefs', ""),
         InOperation', pc' = "index" => InPreamble(Preamble)'
  PROVE  RangeInv'
<1>1. Scanned /\ opr # NoRange
  BY DEF RangeInv, OperationInv
<1>2. Scanned'
  BY <1>1 DEF Scanned, T
<1>3. OperationInv'
  BY <1>1 DEF OperationInv, After
<1>4. InPlace(buffer', operations', fragDefs')
  OBVIOUS
<1> QED
  BY <1>2, <1>3, <1>4 DEF RangeInv, After

LEMMA InitKeepsRanges ==
  ASSUME RangeInv, InitOperation
  PROVE  RangeInv'
<1>1. /\ pc = "operation" /\ UNCHANGED <<document, buffer, operations, fragDefs, opr, varsDecls>>
      /\ IF HasVarList THEN pc' = "index" /\ i' = (IF HasName THEN 4 ELSE 3)
         ELSE pc' = "json" /\ i' = 2
  BY DEF InitOperation, request, index, variables
<1>2. Scanned /\ InOperation /\ InPlace(buffer, operations, fragDefs)
  BY <1>1 DEF RangeInv, OperationInv, After
<1>3. PICK src : CopyOf(T, src, O)
  BY <1>1, OperationIsCopy DEF After
<1>4. /\ src \in 1..Len(T) /\ T[src][1] = "DefQry" /\ ~NoSet(T, src, Len(T))
      /\ Len(O) \in Nat /\ Len(O) >= 3
      /\ \A z \in src..Len(T) : NoSet(T, src, z - 1) => z - src + 1 \in 1..Len(O) /\ O[z - src + 1] = T[z]
  BY <1>3, Zenon DEF CopyOf
<1>5. O' = O /\ T' = T /\ Preamble' = Preamble
  BY <1>1 DEF O, T, Preamble
<1>6. i' \in 1..Len(O) + 1
  BY <1>1, <1>4
<1>7. InOperation'
  <2> HIDE DEF HasVarList, HasName
  <2> QED
    BY <1>1, <1>2, <1>5, <1>6 DEF InOperation
<1>8. IsScanned(T) /\ Len(T) \in Nat
  <2>1. IsScanned(T)
    BY <1>2, ScannerAssumption DEF Scanned, T
  <2>2. T \in Seq(ToSet(T))
    BY <2>1, Zenon DEF IsScanned
  <2> QED
    BY <2>1, <2>2
<1>9. ASSUME HasVarList
      PROVE  Leads(PreambleOf(O), T, O) /\ i' \in Places(PreambleOf(O))
  <2>1. src \in Nat /\ \A z : z \in src..src <=> z = src
    BY <1>4, <1>8
  <2>2. CASE ~HasName
    <3>1. O[2][1] = "VarList" /\ i' = 3
      BY <1>1, <1>9, <2>2 DEF HasVarList
    <3>2. (src + 1) - src + 1 = 2 /\ (src + 1) - src + 2 = 3 /\ (src + 1) - 1 = src
      BY <2>1
    <3>3. \A z \in src..(src + 1) - 1 : T[z][1] \in {"DefQry", "OprName"}
      BY <1>4, <2>1, <3>2
    <3>4. /\ Leads(PreambleOf(O), T, O)
          /\ (src + 1) - src + 2 \in Places(PreambleOf(O))
      <4> DEFINE v == src + 1
      <4>1. v \in {src + 1, src + 2} /\ (\A z \in src..v-1 : T[z][1] \in {"DefQry", "OprName"})
            /\ O[v - src + 1][1] = "VarList"
        BY <3>1, <3>2, <3>3
      <4> HIDE DEF v
      <4>2. Leads(PreambleOf(O), T, O) /\ v - src + 2 \in Places(PreambleOf(O))
        BY <1>3, <1>8, <4>1, PreambleLeads
      <4> QED
        BY <4>2 DEF v
    <3> QED
      BY <3>1, <3>2, <3>4
  <2>3. CASE HasName
    <3>1. O[2][1] = "OprName" /\ O[3][1] = "VarList" /\ i' = 4
      BY <1>1, <1>9, <2>3 DEF HasVarList, HasName
    <3>2. (src + 2) - src + 1 = 3 /\ (src + 2) - src + 2 = 4 /\ (src + 2) - 1 = src + 1
          /\ (src + 1) - src + 1 = 2 /\ (src + 1) - 1 = src
      BY <2>1
    <3>3. src + 1 \in src..Len(T)
      <4>1. src # Len(T)
        BY <1>4, <2>1 DEF NoSet
      <4> QED
        BY <1>4, <1>8, <4>1
    <3>4. NoSet(T, src, (src + 1) - 1)
      BY <1>4, <2>1, <3>2 DEF NoSet
    <3>5. T[src + 1][1] = "OprName"
      BY <1>4, <3>1, <3>2, <3>3, <3>4
    <3>6. \A z \in src..src + 1 : z = src \/ z = src + 1
      BY <2>1
    <3>7. \A z \in src..(src + 2) - 1 : T[z][1] \in {"DefQry", "OprName"}
      BY <1>4, <3>2, <3>5, <3>6
    <3>8. /\ Leads(PreambleOf(O), T, O)
          /\ (src + 2) - src + 2 \in Places(PreambleOf(O))
      <4> DEFINE v == src + 2
      <4>1. v \in {src + 1, src + 2} /\ (\A z \in src..v-1 : T[z][1] \in {"DefQry", "OprName"})
            /\ O[v - src + 1][1] = "VarList"
        BY <3>1, <3>2, <3>7
      <4> HIDE DEF v
      <4>2. Leads(PreambleOf(O), T, O) /\ v - src + 2 \in Places(PreambleOf(O))
        BY <1>3, <1>8, <4>1, PreambleLeads
      <4> QED
        BY <4>2 DEF v
    <3> QED
      BY <3>1, <3>2, <3>8
  <2> QED
    BY <2>2, <2>3
<1>10. Preamble = PreambleOf(O)
  BY DEF Preamble, PreambleOf, IsFirstEnd
<1>11. pc' = "index" => InPreamble(Preamble)'
  <2>1. pc' = "index" => HasVarList
    BY <1>1
  <2>2. ASSUME HasVarList PROVE InPreamble(Preamble)'
    <3>1. Leads(Preamble, T, O) /\ i' \in Places(Preamble)
      BY <1>9, <1>10, <2>2
    <3> HIDE DEF Preamble
    <3> QED
      BY <1>5, <3>1 DEF InPreamble, Leads
  <2> QED
    BY <2>1, <2>2
<1>12. FragmentsEnded(fragDefs', "") /\ InPlace(buffer, operations, fragDefs')
  BY <1>1, <1>2 DEF Scanned
<1>13. pc' \in {"index", "json"}
  BY <1>1
<1> QED
  BY <1>1, <1>7, <1>11, <1>12, <1>13, LaterKeepsRanges DEF After

LEMMA PreambleIsList ==
  ASSUME NEW t, IsScanned(t), NEW s \in Preambles(t)
  PROVE  IsList(s) /\ IsPreamble(s)
<1>1. DOMAIN t = 1..Len(t) /\ Len(t) \in Nat
  <2>1. t \in Seq(ToSet(t))
    BY Zenon DEF IsScanned
  <2> QED
    BY <2>1
<1>2. PICK x \in DOMAIN t : s \in {SubSeq(t, x, y) : y \in DOMAIN t}
  BY DEF Preambles
<1>3. PICK y \in DOMAIN t : s = SubSeq(t, x, y)
  BY <1>2
<1> DEFINE R == {t[z] : z \in x..y}
<1>4. \A z \in x..y : t[z] \in R
  OBVIOUS
<1> HIDE DEF R
<1>5. x \in Int /\ y \in Int
  BY <1>1
<1>6. SubSeq(t, x, y) \in Seq(R)
  BY <1>4, <1>5, SubSeqProperties
<1> QED
  BY <1>3, <1>6 DEF IsList, Preambles

\* What the assumption about types says of a variable.
Stays(s, x, e, c) ==
  /\ e \in x + 1..Len(s)
  /\ s[e][1] \notin {"VarName", "VarListEnd"} =>
       /\ c.end \in e..Len(s)
       /\ c.how \notin {"loops", "panic"} /\ ~c.err => c.end = Len(s) \/ c.end \in Places(s)

LEMMA VariableStays ==
  ASSUME NEW s, StayInList(s), NEW x \in Places(s)
  PROVE  Stays(s, x, TypeEnd(s, x + 1), DefaultCheck(s, TypeEnd(s, x + 1), TypeAt(s, x + 1)))
BY Zenon DEF StayInList, Stays

LEMMA PlacesAreInList ==
  ASSUME NEW s, IsList(s), StayInList(s), NEW x \in Places(s)
  PROVE  x \in 1..Len(s)
<1>1. DOMAIN s = 1..Len(s) /\ Len(s) \in Nat
  BY DEF IsList
<1>2. CASE x \in DOMAIN s
  BY <1>1, <1>2
<1>3. CASE x \notin DOMAIN s
  <2>1. PICK y \in DOMAIN s : s[y][1] = "VarName" /\ x = TypeEnd(s, y + 1)
    BY <1>3 DEF Places
  <2>2. y \in Places(s)
    BY <2>1 DEF Places
  <2>3. x \in y + 1..Len(s)
    BY <2>1, <2>2, VariableStays DEF Stays
  <2> QED
    BY <1>1, <2>3
<1> QED
  BY <1>2, <1>3

LEMMA InIndex ==
  ASSUME RangeInv, pc = "index"
  PROVE  /\ Scanned /\ InOperation /\ InPlace(buffer, operations, fragDefs)
         /\ IsList(Preamble) /\ IsPreamble(Preamble) /\ StayInList(Preamble)
         /\ Len(O) \in Nat /\ Len(Preamble) \in Nat /\ Len(Preamble) <= Len(O)
         /\ \A x \in 1..Len(Preamble) : O[x] = Preamble[x]
         /\ i \in 1..Len(Preamble) /\ i \in Places(Preamble) \cup {Len(Preamble)}
<1>1. Scanned /\ InOperation /\ InPlace(buffer, operations, fragDefs) /\ InPreamble(Preamble)
  BY DEF RangeInv, OperationInv, After
<1> DEFINE s == Preamble
<1>2. /\ s \in Preambles(T) /\ Len(s) \in 1..Len(O) /\ \A x \in 1..Len(s) : O[x] = s[x]
      /\ i \in Places(s) \cup {Len(s)}
  BY <1>1 DEF InPreamble
<1>3. IsScanned(T) /\ document \in Documents
  BY <1>1, ScannerAssumption DEF Scanned, T
<1> HIDE DEF s
<1>4. IsList(s) /\ IsPreamble(s)
  BY <1>2, <1>3, PreambleIsList
<1>5. StayInList(s)
  BY <1>2, <1>3, TypesAssumption DEF T
<1>6. Len(O) \in Nat
  <2>1. PICK src : CopyOf(T, src, O)
    BY OperationIsCopy DEF After
  <2> QED
    BY <2>1 DEF CopyOf
<1>7. Len(s) \in Nat /\ Len(s) <= Len(O) /\ Len(s) \in 1..Len(s)
  BY <1>2, <1>6
<1>8. i \in 1..Len(s)
  BY <1>2, <1>4, <1>5, <1>7, PlacesAreInList
<1> QED
  BY <1>1, <1>2, <1>4, <1>5, <1>6, <1>7, <1>8 DEF s

LEMMA EndOfVariablesKeepsRanges ==
  ASSUME RangeInv, EndOfVariables
  PROVE  RangeInv'
<1>1. /\ pc = "index" /\ pc' = "json" /\ i' = i + 1
      /\ UNCHANGED <<document, buffer, operations, fragDefs, opr, varsDecls>>
  BY DEF EndOfVariables, request, index, variables
<1>2. /\ Scanned /\ InOperation /\ InPlace(buffer, operations, fragDefs)
      /\ Len(O) \in Nat /\ Len(Preamble) \in Nat /\ Len(Preamble) <= Len(O) /\ i \in 1..Len(Preamble)
  BY <1>1, InIndex
<1>3. i' \in 1..Len(O) + 1
  BY <1>1, <1>2
<1>4. O' = O
  BY <1>1 DEF O
<1>5. InOperation'
  BY <1>1, <1>2, <1>3, <1>4 DEF InOperation
<1>6. FragmentsEnded(fragDefs', "") /\ InPlace(buffer, operations, fragDefs')
  BY <1>1, <1>2 DEF Scanned
<1> QED
  BY <1>1, <1>5, <1>6, LaterKeepsRanges DEF After

\* What IndexVariable does, with e the place behind the type and d the check of
\* the default value.
Indexes(e, d) ==
  LET c == IF O[e][1] \in {"VarName", "VarListEnd"} THEN [end |-> e, err |-> FALSE, how |-> "none"] ELSE d IN
  /\ i' = c.end
  /\ \/ pc' = c.how /\ c.how \in {"loops", "panic"} /\ varsDecls' = varsDecls
     \/ pc' = "returned" /\ varsDecls' = varsDecls
     \/ /\ c.how \notin {"loops", "panic"} /\ ~c.err /\ pc' \in {"index", "returned"}
        /\ \E r : /\ varsDecls' = With(varsDecls, O[i][2], r)
                  /\ r.type.end \in {0, e} /\ r.default.end \in {0, c.end}

LEMMA IndexVariableIs ==
  ASSUME IndexVariable
  PROVE  Indexes(TypeEnd(Preamble, i + 1), DefaultCheck(Preamble, TypeEnd(Preamble, i + 1), TypeAt(Preamble, i + 1)))
<1> DEFINE e == TypeEnd(Preamble, i + 1)
           d == DefaultCheck(Preamble, e, TypeAt(Preamble, i + 1))
           name == O[i][2]
           type == [first |-> i + 1, end |-> e]
           check == IF O[type.end][1] \in {"VarName", "VarListEnd"}
                    THEN [end |-> type.end, err |-> FALSE, how |-> "none"]
                    ELSE DefaultCheck(Preamble, type.end, TypeAt(Preamble, i + 1))
           default == IF check.how = "none" THEN NoRange ELSE [first |-> type.end, end |-> check.end]
           new == IF name \in DOMAIN varsDecls THEN [type |-> NoRange, default |-> NoRange]
                  ELSE [type |-> type, default |-> default]
<1>1. /\ pc = "index"
      /\ i' = check.end
      /\ \/ check.how \in {"loops", "panic"} /\ pc' = check.how /\ varsDecls' = varsDecls
         \/ pc' = "returned" /\ varsDecls' = varsDecls
         \/ /\ check.how \notin {"loops", "panic"} /\ ~check.err
            /\ varsDecls' = With(varsDecls, name, new)
            /\ pc' = "returned" \/ pc' = pc
  BY Zenon DEF IndexVariable, Fail
<1>2. type.end = e
  OBVIOUS
<1>3. check = IF O[e][1] \in {"VarName", "VarListEnd"} THEN [end |-> e, err |-> FALSE, how |-> "none"] ELSE d
  BY <1>2
<1>4. NoRange.end = 0
  BY DEF NoRange
<1>5. default.end \in {0, check.end}
  BY <1>4
<1>6. new.type.end \in {0, e} /\ new.default.end \in {0, check.end}
  <2> HIDE DEF check, default, name, e
  <2> QED
    BY <1>2, <1>4, <1>5
<1>7. pc' = "returned" \/ pc' = pc => pc' \in {"index", "returned"}
  BY <1>1
<1> HIDE DEF check, default, new, type, d, e
<1>8. Indexes(e, d)
  BY <1>1, <1>3, <1>6, <1>7 DEF Indexes
<1> QED
  BY <1>8 DEF d, e

LEMMA IndexVariableKeepsRanges ==
  ASSUME RangeInv, IndexVariable
  PROVE  RangeInv'
<1> DEFINE s == Preamble
           e == TypeEnd(s, i + 1)
           d == DefaultCheck(s, e, TypeAt(s, i + 1))
           c == IF O[e][1] \in {"VarName", "VarListEnd"} THEN [end |-> e, err |-> FALSE, how |-> "none"] ELSE d
<1>1. /\ pc = "index" /\ O[i][1] # "VarListEnd"
      /\ UNCHANGED <<document, buffer, operations, fragDefs, opr>>
  BY DEF IndexVariable, request, index
<1>2. /\ Scanned /\ InOperation /\ InPlace(buffer, operations, fragDefs)
      /\ IsList(s) /\ IsPreamble(s) /\ StayInList(s)
      /\ Len(O) \in Nat /\ Len(s) \in Nat /\ Len(s) <= Len(O)
      /\ \A x \in 1..Len(s) : O[x] = s[x]
      /\ i \in 1..Len(s) /\ i \in Places(s) \cup {Len(s)}
  BY <1>1, InIndex
<1>3. Indexes(e, d)
  BY IndexVariableIs
<1>4. O' = O /\ T' = T /\ Preamble' = Preamble
  BY <1>1 DEF O, T, Preamble
<1>5. s \in Preambles(T) /\ Len(s) \in 1..Len(O)
  BY <1>1 DEF RangeInv, InPreamble
<1> HIDE DEF s
<1>6. i \in Places(s)
  <2>1. i = Len(s) => O[i][1] = "VarListEnd"
    BY <1>2 DEF IsPreamble
  <2> QED
    BY <1>1, <1>2, <2>1
<1>7. Stays(s, i, e, d)
  BY <1>2, <1>6, VariableStays
<1> HIDE DEF e, d
<1>8. e \in 1..Len(s) /\ O[e] = s[e]
  <2>1. e \in i + 1..Len(s)
    BY <1>7 DEF Stays
  <2>2. e \in 1..Len(s)
    BY <1>2, <2>1
  <2> QED
    BY <1>2, <2>2
<1>9. c.end \in 1..Len(s)
  <2>1. CASE O[e][1] \in {"VarName", "VarListEnd"}
    BY <1>8, <2>1
  <2>2. CASE O[e][1] \notin {"VarName", "VarListEnd"}
    <3>1. c = d
      BY <2>2
    <3>2. d.end \in e..Len(s)
      BY <1>7, <1>8, <2>2 DEF Stays
    <3>3. d.end \in 1..Len(s)
      BY <1>2, <1>8, <3>2
    <3> QED
      BY <3>1, <3>3
  <2> QED
    BY <2>1, <2>2
<1>10. c.how \notin {"loops", "panic"} /\ ~c.err => c.end \in Places(s) \cup {Len(s)}
  <2>1. CASE O[e][1] = "VarName"
    <3>1. c.end = e
      BY <2>1
    <3>2. e \in DOMAIN s
      BY <1>2, <1>8 DEF IsList
    <3>3. e \in Places(s)
      BY <1>8, <2>1, <3>2 DEF Places
    <3> QED
      BY <3>1, <3>3
  <2>2. CASE O[e][1] = "VarListEnd"
    <3>1. c.end = e
      BY <2>2
    <3>3. IsPreamble(s)
      BY <1>2
    <3>4. e = Len(s)
      <4>1. \A x \in 1..Len(s)-1 : s[x][1] # "VarListEnd"
        BY <3>3 DEF IsPreamble
      <4>2. e \notin 1..Len(s)-1
        BY <1>8, <2>2, <4>1
      <4> QED
        BY <1>2, <1>8, <4>2
    <3> QED
      BY <3>1, <3>4
  <2>3. CASE O[e][1] \notin {"VarName", "VarListEnd"}
    <3>1. c = d
      BY <2>3
    <3>2. d.how \notin {"loops", "panic"} /\ ~d.err => d.end = Len(s) \/ d.end \in Places(s)
      BY <1>7, <1>8, <2>3 DEF Stays
    <3> HIDE DEF c
    <3> QED
      BY <3>1, <3>2
  <2> QED
    BY <2>1, <2>2, <2>3
<1>11. /\ i' = c.end
       /\ \/ pc' = c.how /\ c.how \in {"loops", "panic"} /\ varsDecls' = varsDecls
          \/ pc' = "returned" /\ varsDecls' = varsDecls
          \/ /\ c.how \notin {"loops", "panic"} /\ ~c.err /\ pc' \in {"index", "returned"}
             /\ \E r : /\ varsDecls' = With(varsDecls, O[i][2], r)
                       /\ r.type.end \in {0, e} /\ r.default.end \in {0, c.end}
  BY <1>3, Zenon DEF Indexes
<1> HIDE DEF c
<1>12. i' \in 1..Len(O) + 1
  BY <1>2, <1>9, <1>11
<1>13. \A v \in DOMAIN varsDecls' : varsDecls'[v].type.end <= Len(O) /\ varsDecls'[v].default.end <= Len(O)
  <2>1. \A v \in DOMAIN varsDecls : varsDecls[v].type.end <= Len(O) /\ varsDecls[v].default.end <= Len(O)
    BY <1>2 DEF InOperation
  <2>2. CASE varsDecls' = varsDecls
    BY <2>1, <2>2
  <2>3. ASSUME NEW r, varsDecls' = With(varsDecls, O[i][2], r), r.type.end \in {0, e}, r.default.end \in {0, c.end}
        PROVE  \A v \in DOMAIN varsDecls' : varsDecls'[v].type.end <= Len(O) /\ varsDecls'[v].default.end <= Len(O)
    <3>1. r.type.end <= Len(O) /\ r.default.end <= Len(O)
      BY <1>2, <1>8, <1>9, <2>3
    <3>2. \A v \in DOMAIN varsDecls' : (v \in DOMAIN varsDecls /\ varsDecls'[v] = varsDecls[v]) \/ varsDecls'[v] = r
      BY <2>3 DEF With
    <3> QED
      BY <2>1, <3>1, <3>2
  <2> QED
    BY <1>11, <2>2, <2>3
<1>14. InOperation'
  <2>1. \E x \in 1..Len(operations') : opr' = operations'[x]
    BY <1>1, <1>2 DEF InOperation
  <2>2. opr'.first < opr'.end
    BY <1>1, <1>2 DEF InOperation
  <2> QED
    BY <1>4, <1>12, <1>13, <2>1, <2>2 DEF InOperation
<1>15. pc' = "index" => InPreamble(Preamble)'
  <2>1. pc' = "index" => i' \in Places(s) \cup {Len(s)}
    BY <1>10, <1>11
  <2> QED
    BY <1>2, <1>4, <1>5, <2>1 DEF InPreamble, s
<1>16. FragmentsEnded(fragDefs', "") /\ InPlace(buffer, operations, fragDefs')
  BY <1>1, <1>2 DEF Scanned
<1>17. pc' \in {"index", "returned", "loops", "panic"}
  BY <1>11
<1> QED
  BY <1>1, <1>14, <1>15, <1>16, <1>17, LaterKeepsRanges DEF After

\* The ranges of fragments are what they were.
SameRanges(frags2, frags) ==
  /\ DOMAIN frags2 = DOMAIN frags
  /\ \A f \in DOMAIN frags :
       /\ frags2[f] \in [first : Nat, end : Nat, used : BOOLEAN]
       /\ frags2[f].first = frags[f].first /\ frags2[f].end = frags[f].end

LEMMA SameIsPlaced ==
  ASSUME NEW buf, NEW ops, NEW frags, InPlace(buf, ops, frags), FragmentsEnded(frags, ""),
         NEW frags2, SameRanges(frags2, frags)
  PROVE  InPlace(buf, ops, frags2) /\ FragmentsEnded(frags2, "")
<1>1. FragmentsEnded(frags2, "")
  BY DEF FragmentsEnded, SameRanges
<1>2. AllPlaced(ops, frags2, Len(buf))
  BY DEF InPlace, AllPlaced, Placed, SameRanges
<1>3. Definitions(ops, frags2)
  BY DEF InPlace, Definitions, SameRanges
<1> QED
  BY <1>1, <1>2, <1>3 DEF InPlace

LEMMA UseKeeps ==
  ASSUME NEW ops, NEW f \in DOMAIN fragDefs, Definitions(ops, fragDefs),
         fragDefs' = fragDefs \/ Use(f)
  PROVE  SameRanges(fragDefs', fragDefs)
<1>1. \A g \in DOMAIN fragDefs : fragDefs[g] \in [first : Nat, end : Nat, used : BOOLEAN]
  BY DEF Definitions
<1>2. CASE fragDefs' = fragDefs
  BY <1>1, <1>2 DEF SameRanges
<1>3. CASE Use(f)
  <2> DEFINE new == [fragDefs[f] EXCEPT !.used = TRUE]
  <2>1. /\ new \in [first : Nat, end : Nat, used : BOOLEAN]
        /\ new.first = fragDefs[f].first /\ new.end = fragDefs[f].end
    BY <1>1
  <2>2. fragDefs' = [fragDefs EXCEPT ![f] = new]
    BY <1>3 DEF Use
  <2> HIDE DEF new
  <2>3. \A g \in DOMAIN fragDefs : fragDefs'[g] = IF g = f THEN new ELSE fragDefs[g]
    BY <2>2
  <2>4. DOMAIN fragDefs' = DOMAIN fragDefs
    BY <2>2
  <2> QED
    BY <1>1, <2>1, <2>3, <2>4 DEF SameRanges
<1> QED
  BY <1>2, <1>3

\* From the check of the JSON to the answer nothing changes but that fragments
\* are used, and the place in the operation.
LEMMA RestKeepsRanges ==
  ASSUME RangeInv,
         (\E j \in VarsJSON : CheckJSON(j)) \/ ConstructVariable \/ EndOfValues \/ Construction \/ Answer
  PROVE  RangeInv'
<1> DEFINE Here == {"json", "values", "inspect", "nested", "entry", "varlist", "fill"}
<1>1. /\ pc \in Here
      /\ UNCHANGED <<document, buffer, operations, opr, varsDecls>>
      /\ i' = i \/ (i <= Len(O) /\ i' = i + 1)
  BY DEF CheckJSON, ConstructVariable, EndOfValues, Construction, Answer, Inspect, ConstructNested,
         NestedUndefined, EndOfNested, VisitEntry, EndOfEntries, DeclareVariables, FillOther, FillSpread,
         FillReference, Unused, Success, Fill, request, index, place, variables
<1>2. pc' \in Here \cup {"returned"}
  BY <1>1 DEF CheckJSON, ConstructVariable, EndOfValues, Construction, Answer, Inspect, ConstructNested,
         NestedUndefined, EndOfNested, VisitEntry, EndOfEntries, DeclareVariables, FillOther, FillSpread,
         FillReference, Unused, Success, Fill, Fail
<1>3. fragDefs' = fragDefs \/ \E f \in DOMAIN fragDefs : Use(f)
  BY DEF CheckJSON, ConstructVariable, EndOfValues, Construction, Answer, Inspect, ConstructNested,
         NestedUndefined, EndOfNested, VisitEntry, EndOfEntries, DeclareVariables, FillOther, FillSpread,
         FillReference, Unused, Success, index
<1>4. Scanned /\ InOperation /\ InPlace(buffer, operations, fragDefs)
  BY <1>1 DEF RangeInv, OperationInv, After
<1>5. InPlace(buffer, operations, fragDefs') /\ FragmentsEnded(fragDefs', "")
  <2>1. FragmentsEnded(fragDefs, "") /\ Definitions(operations, fragDefs)
    BY <1>4 DEF Scanned, InPlace
  <2>2. CASE fragDefs' = fragDefs
    BY <1>4, <2>1, <2>2
  <2>3. CASE \E f \in DOMAIN fragDefs : Use(f)
    <3>1. SameRanges(fragDefs', fragDefs)
      BY <2>1, <2>3, UseKeeps
    <3> QED
      BY <1>4, <2>1, <3>1, SameIsPlaced
  <2> QED
    BY <1>3, <2>2, <2>3
<1>6. O' = O
  BY <1>1 DEF O
<1>7. i' \in 1..Len(O) + 1
  <2>1. i \in 1..Len(O) + 1
    BY <1>4 DEF InOperation
  <2>2. Len(O) \in Nat
    <3>1. PICK src : CopyOf(T, src, O)
      BY <1>1, OperationIsCopy DEF After
    <3> QED
      BY <3>1 DEF CopyOf
  <2> QED
    BY <1>1, <2>1, <2>2
<1>8. InOperation'
  BY <1>1, <1>4, <1>6, <1>7 DEF InOperation
<1> QED
  BY <1>1, <1>2, <1>5, <1>8, LaterKeepsRanges DEF After

LEMMA StutterKeepsRanges ==
  ASSUME RangeInv, UNCHANGED vars
  PROVE  RangeInv'
<1>1. UNCHANGED <<document, pos, buffer, operations, fragDefs, recentDef, recentFragDef, stackCounter,
                 fragStackCounter, opr, i, varsDecls, pc>>
  BY DEF vars, request, index, scan, place, variables
<1>2. T' = T /\ O' = O /\ Preamble' = Preamble
  BY <1>1 DEF T, O, Preamble
<1>3. Scanning => Scanning'
  BY <1>1, <1>2 DEF Scanning
<1>4. Scanned => Scanned'
  BY <1>1, <1>2 DEF Scanned
<1>5. InOperation => InOperation'
  BY <1>1, <1>2 DEF InOperation
<1>6. InPreamble(Preamble) => InPreamble(Preamble)'
  BY <1>1, <1>2 DEF InPreamble
<1>7. OperationInv => OperationInv'
  BY <1>1, <1>5 DEF OperationInv
<1> QED
  BY <1>1, <1>3, <1>4, <1>6, <1>7 DEF RangeInv

\* For any documents, and any checks of types that stay in the list of variables:
\* when the scan is over every definition has its end behind its selections,
\* although counters of stacks tell it (234-261), and every range of the operation
\* and its variables is in the buffer it is used on (380-431, 719-853).
THEOREM RangesAreRight == Spec => []RangesAreInBuffer
<1>1. Init => RangeInv
  <2> SUFFICES ASSUME Init PROVE RangeInv
    OBVIOUS
  <2>1. /\ pc = "idle" /\ buffer = <<>> /\ operations = <<>> /\ fragDefs = <<>>
        /\ opr = NoRange /\ i = 1 /\ varsDecls = <<>>
    BY DEF Init
  <2>2. InPlace(buffer, operations, fragDefs)
    BY <2>1, NothingScanned
  <2>3. OperationInv
    BY <2>1 DEF OperationInv, After
  <2> QED
    BY <2>1, <2>2, <2>3 DEF RangeInv, After
<1>2. RangeInv /\ [Next]_vars => RangeInv'
  <2> SUFFICES ASSUME RangeInv, [Next]_vars PROVE RangeInv'
    OBVIOUS
  <2>1. CASE Call \/ \E doc \in Documents : Receive(doc)
    BY <2>1, CallKeepsRanges
  <2>2. CASE Scan
    BY <2>2, ScanKeepsRanges
  <2>3. ASSUME NEW name \in OperationNames, SelectOperation(name) PROVE RangeInv'
    BY <2>3, SelectKeepsRanges
  <2>4. CASE InitOperation
    BY <2>4, InitKeepsRanges
  <2>5. CASE IndexVariable
    BY <2>5, IndexVariableKeepsRanges
  <2>6. CASE EndOfVariables
    BY <2>6, EndOfVariablesKeepsRanges
  <2>7. CASE (\E j \in VarsJSON : CheckJSON(j)) \/ ConstructVariable \/ EndOfValues \/ Construction \/ Answer
    BY <2>7, RestKeepsRanges
  <2>8. CASE UNCHANGED vars
    BY <2>8, StutterKeepsRanges
  <2> QED
    BY <2>1, <2>2, <2>3, <2>4, <2>5, <2>6, <2>7, <2>8 DEF Next, Stuck
<1>3. RangeInv => RangesAreInBuffer
  BY RangesFollow
<1> QED
  BY <1>1, <1>2, <1>3, PTL DEF Spec
=============================================================================
