--------------------------- MODULE ParserAnswers ---------------------------
(***************************************************************************)
(* What the answer of a call of the parser has to do with its request: the *)
(* selections, the values and the errors that the document asks for.       *)
(***************************************************************************)
EXTENDS Parser, RequestTokens, VariableTypes

-----------------------------------------------------------------------------
(* What the document asks for.                                             *)

Operations == {x \in DOMAIN document : document[x].kind = "operation"}
Fragments == {x \in DOMAIN document : document[x].kind = "fragment"}
Named(n) == {x \in Operations : document[x].name = n}
Selected == document[CHOOSE x \in Named(operationName) : TRUE]
Declares(n) == \E x \in DOMAIN Selected.vars : Selected.vars[x].name = n
FragmentNamed(f) == document[CHOOSE x \in Fragments : document[x].name = f]

RECURSIVE Wanted(_), Mentions(_), NestsInUntyped(_, _), Conforms(_, _, _)

\* All selections in a body, however deep.
Mentions(body) ==
  UNION {{body[x]} \cup (IF body[x].sel \in {"set", "inline"} THEN Mentions(body[x].body) ELSE {}) : x \in DOMAIN body}

SpreadsOf(d) == {s.name : s \in {m \in Mentions(d.body) : m.sel = "NamedSpread"}}
ReferencesOf(d) == {s.name : s \in {m \in Mentions(d.body) : m.sel = "VarRef"}}

\* Fragments that the fragments in fs spread, in any number of steps.
Reachable(fs) ==
  LET step(gs) == gs \cup UNION {SpreadsOf(FragmentNamed(f)) : f \in {h \in gs : \E x \in Fragments : document[x].name = h}}
      all[n \in Nat] == IF n = 0 THEN fs ELSE step(all[n - 1])
  IN all[Cardinality(Fragments)]

Cyclic == \E x \in Fragments : document[x].name \in Reachable(SpreadsOf(document[x]))

\* The selections with every fragment in place, and references resolved.
Wanted(body) ==
  FlattenSeq([x \in DOMAIN body |->
    LET s == body[x] IN
    CASE s.sel = "set" -> <<<<"Field", s.name>>, <<"Set", "">>>> \o Wanted(s.body) \o <<<<"SetEnd", "">>>>
      [] s.sel = "inline" /\ s.name # "" ->
           <<<<"FragInline", s.name>>, <<"Set", "">>>> \o Wanted(s.body) \o <<<<"SetEnd", "">>>>
      [] s.sel = "inline" /\ s.name = "" -> Wanted(s.body)
      [] s.sel = "NamedSpread" -> Wanted(FragmentNamed(s.name).body)
      [] s.sel = "VarRef" ->
           <<<<"VarIndex", (CHOOSE y \in DOMAIN Selected.vars : Selected.vars[y].name = s.name) - 1>>>>
      [] OTHER -> <<<<s.sel, s.name>>>>])

\* A set inside an inline fragment without a type: the scan takes its end for
\* the end of the inline fragment (227-246).
NestsInUntyped(body, inside) ==
  \E x \in DOMAIN body :
    LET s == body[x] IN
    \/ inside /\ (s.sel = "set" \/ (s.sel = "inline" /\ s.name # ""))
    \/ s.sel \in {"set", "inline"} /\ NestsInUntyped(s.body, s.sel = "inline" /\ s.name = "")

\* The value v is of the type, by the rules of GraphQL.  In JSON a string may
\* stand for a value of an enumeration.
Conforms(v, type, inJSON) ==
  LET notNull == type[Len(type)][1] = "VarTypeNotNull"
      core == IF notNull THEN SubSeq(type, 1, Len(type) - 1) ELSE type
      isArray == core[1][1] = "VarTypeArr"
      name == IF isArray THEN "" ELSE core[1][2]
  IN CASE v.kind = "null"   -> ~notNull
       [] v.kind = "array"  -> isArray /\ \A x \in DOMAIN v.items : Conforms(v.items[x], SubSeq(core, 2, Len(core) - 1), inJSON)
       [] v.kind = "int"    -> name \in {"Int", "Float"}
       [] v.kind = "float"  -> name = "Float"
       [] v.kind = "bool"   -> name = "Boolean"
       [] v.kind = "string" -> ~isArray /\ name \notin {"Int", "Float", "Boolean"} /\ (inJSON \/ name \in BuiltIn)
       [] v.kind = "object" -> ~isArray /\ name \notin BuiltIn

-----------------------------------------------------------------------------
(* Properties.                                                             *)

Reported(what) == Returned /\ \E x \in DOMAIN verdicts : verdicts[x][1] = what
TooManyNames == Inspector!TooMany(Nodes)

\* Of a named operation without variables the name is copied to the selections
\* as well (352, 512).
NameIsCopied == Selected.name # "" /\ Selected.vars = <<>>

\* The operation that is handed over is the one asked for, with all fragments
\* in place: nothing of other operations, of unused fragments or of earlier
\* calls.  The selections begin in the buffer, and with their set, as the test has
\* it (gqlparse_test.go:1036-1039); but where the name is copied, which no case of
\* that test is, a name in front is put up with.  Excepted are calls that reported
\* an error before (453), sets in inline fragments without a type, and requests
\* that spread more names than the inspector has room for (433).
SelectionIsExpanded ==
  /\ selectionSetIndex <= Len(bufferOpr)
  /\ /\ Succeeded /\ Len(verdicts) = 1 /\ ~TooManyNames
     /\ \A x \in DOMAIN document : ~NestsInUntyped(document[x].body, FALSE)
     =>
       LET handed == SubSeq(bufferOpr, selectionSetIndex + 1, Len(bufferOpr))
           name == <<"OprName", Selected.name>>
       IN (IF NameIsCopied /\ handed # <<>> /\ handed[1] = name THEN Tail(handed) ELSE handed)
            = <<<<"Set", "">>>> \o Wanted(Selected.body) \o <<<<"SetEnd", "">>>>

HasEnumDefault == \E x \in DOMAIN Selected.vars : Selected.vars[x].default.kind = "enum"

\* The value that a declared variable should have, and what may be wrong with
\* it: an integer is no default value of a Float (775), and an object passes
\* for an array (794, 1044).
GivenValue(v) == IF InJSON(v.name) THEN json.members[v.name] ELSE v.default
ObjectForArray(v) == GivenValue(v).kind = "object" /\ v.type[1][1] = "VarTypeArr"

\* The values that are handed over are those of JSON, else the default values,
\* and they are of the declared types.  Excepted are operations that are not
\* the first definition (394, 414), and default values of enumerations (749-816).
ValuesAreGiven ==
  Succeeded /\ opr.first = 1 /\ ~HasEnumDefault =>
    /\ Len(varsConstructed) = Len(Selected.vars)
    /\ \A x \in DOMAIN Selected.vars :
         LET v == Selected.vars[x] IN
         /\ varsConstructed[x] =
              <<v.name, IF InJSON(v.name) THEN Written(0, GivenValue(v), TypeStack(v.type)) ELSE ValueTokens(v.default)>>
         /\ Conforms(GivenValue(v), v.type, InJSON(v.name)) \/ ObjectForArray(v)

HasNoDefault(n) ==
  \A x \in DOMAIN Selected.vars : Selected.vars[x].name = n => Selected.vars[x].default.kind = "absent"

\* An error tells of this request, not of an earlier one, and is so: a cycle
\* is one, what is undefined or undeclared is, what is unused is not spread.
RefusedForAReason ==
  Returned => \A x \in DOMAIN verdicts :
    LET what == verdicts[x][1]  of == verdicts[x][2] IN
    CASE what = "FragRecurse"    -> Cyclic /\ \A y \in 1..Len(of)-1 : of[y+1] \in SpreadsOf(FragmentNamed(of[y]))
      [] what = "FragUndefined"  -> /\ \A y \in Fragments : document[y].name # of
                                    /\ \E y \in DOMAIN document : of \in SpreadsOf(document[y])
      [] what = "FragUnused"     -> of \notin UNION {SpreadsOf(document[y]) : y \in IF TooManyNames THEN Operations ELSE DOMAIN document}
      [] what = "FragRedeclared" -> \E y, z \in Fragments : y # z /\ document[y].name = of /\ document[z].name = of
      [] what = "OprRedeclared"  -> Cardinality(Named(of)) > 1
      [] what = "OprNotFound"    -> operationName = "" \/ Named(operationName) = {}
      [] what = "OprAnonNonExcl" -> Named("") # {} /\ Cardinality(Operations) > 1
      [] what = "VarUndeclared"  -> ~Declares(of) /\ of \in ReferencesOf(Selected)
      [] what = "VarUndefined"   -> \/ Declares(of) /\ ~InJSON(of) /\ (HasNoDefault(of) \/ opr.first # 1)
                                    \/ ~Declares(of) /\ \E y \in Fragments : of \in ReferencesOf(document[y])
                                    \/ HasEnumDefault
      [] what = "UnexpValType"   -> \/ opr.first # 1
                                    \/ \E y \in DOMAIN Selected.vars :
                                         LET v == Selected.vars[y] IN
                                         \/ ~Conforms(GivenValue(v), v.type, InJSON(v.name))
                                         \/ v.default.kind # "absent" /\ ~Conforms(v.default, v.type, FALSE)
                                         \/ \E z \in DOMAIN v.type : v.type[z][2] = "Float" /\ v.default.kind # "absent"
      [] OTHER -> TRUE

\* "Use default value when no value is present in JSON" (413): the value that
\* is handed over is the declared one.
DefaultValueIsUsed ==
  Succeeded => \A x \in DOMAIN Selected.vars :
    LET v == Selected.vars[x] IN
    ~InJSON(v.name) => varsConstructed[x][2] = ValueTokens(v.default)
=============================================================================
