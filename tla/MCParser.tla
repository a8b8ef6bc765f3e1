------------------------------ MODULE MCParser ------------------------------
(***************************************************************************)
(* Requests for TLC: documents around fragments, around variables, around  *)
(* several operations, and around nested sets.                             *)
(***************************************************************************)
EXTENDS ParserAnswers

F(n) == [sel |-> "Field", name |-> n]
S(n) == [sel |-> "NamedSpread", name |-> n]
R(v) == [sel |-> "VarRef", name |-> v]
In(t, body) == [sel |-> "inline", name |-> t, body |-> body]
Set(n, body) == [sel |-> "set", name |-> n, body |-> body]

Operation(n, vs, body) == [kind |-> "operation", name |-> n, vars |-> vs, body |-> body]
Fragment(n, body) == [kind |-> "fragment", name |-> n, body |-> body]
\* No fragment for no body.
Optional(n, body) == IF body = <<>> THEN <<>> ELSE <<Fragment(n, body)>>

Name(n) == <<<<"VarTypeName", n>>>>
NotNull(t) == Append(t, <<"VarTypeNotNull", "">>)
Arr(t) == <<<<"VarTypeArr", "">>>> \o t \o <<<<"VarTypeArrEnd", "">>>>

Absent == [kind |-> "absent"]
Null == [kind |-> "null"]
One == [kind |-> "int", raw |-> "1"]
Str == [kind |-> "string", raw |-> "s"]
Enum == [kind |-> "enum", raw |-> "E"]
List(xs) == [kind |-> "array", items |-> xs]
Obj(xs) == [kind |-> "object", raw |-> "k", items |-> xs]

V(n, t, d) == [name |-> n, type |-> t, default |-> d]

\* f, g and h spread each other, themselves, or a fragment u that nobody defines.
FragmentDocuments ==
  {<<Operation("", <<>>, body)>> \o Optional("f", f) \o Optional("g", g) \o Optional("h", h) :
     body \in {<<S("f")>>, <<F("a"), S("f"), S("g")>>},
     f \in {<<>>, <<F("b")>>, <<S("g"), F("b")>>, <<S("u")>>, <<R("v"), S("g")>>},
     g \in {<<>>, <<F("c")>>, <<S("f")>>, <<S("h"), S("h")>>, <<F("c"), R("v")>>},
     h \in {<<>>, <<F("d")>>, <<S("f")>>, <<S("u")>>}}

\* Fragments of the same names, too many, and in front of the operation.
MoreFragments ==
  {<<Operation("", <<V("v", Name("Int"), One)>>, <<S("f")>>), Fragment("f", <<R("v"), F("b")>>), Fragment("f", <<F("c")>>)>>,
   <<Operation("", <<V("v", Name("Int"), One)>>, <<R("v"), S("f")>>), Fragment("f", <<R("v"), F("b")>>)>>,
   <<Fragment("g", <<R("v"), F("b")>>), Operation("", <<V("v", Name("Int"), One)>>, <<S("g")>>)>>,
   <<Operation("", <<>>, <<S("f")>>)>> \o [x \in 1..4 |-> Fragment(<<"f", "g", "h", "u">>[x], <<F("b")>>)]}

VariableDocuments ==
  {<<Operation("", <<V("v", type, default)>>, <<R("v")>>)>> :
     type \in {Name("Int"), Name("Float"), Name("T"), NotNull(Name("String")), Arr(Name("Int")),
               NotNull(Arr(Name("Int"))), Arr(NotNull(Name("Int"))), Arr(Arr(NotNull(Name("Int"))))},
     default \in {Absent, Null, One, Str, List(<<One>>), List(<<Null>>), List(<<List(<<One>>), Null>>), Obj(<<One>>)}}
  \cup
  {<<Operation("A", <<V("v", Name("Int"), One), V(w, Name("String"), Str)>>, <<R("v"), R(x)>>)>> :
     w \in {"v", "w"}, x \in {"w", "x"}}

\* Two operations, one of which is asked for.
OperationDocuments ==
  {<<Operation(a, <<>>, <<S("f")>>), Operation(b, <<V("w", Name("Int"), Null)>>, <<F("b"), R("w")>>), Fragment("f", <<F("c")>>)>> :
     a \in {"", "A"}, b \in {"A", "B"}}

NestedDocuments ==
  {<<Operation("", <<>>, <<body>>)>> :
     body \in {Set("a", <<Set("b", <<F("c")>>), F("d")>>), In("T", <<F("a")>>), In("", <<F("a")>>),
               In("", <<In("", <<F("a")>>), F("b")>>), In("T", <<In("", <<F("a")>>), F("b")>>),
               In("", <<Set("a", <<F("b")>>), F("c")>>), Set("a", <<In("", <<In("T", <<F("b")>>)>>), F("c")>>)}}
  \cup
  {<<Operation("", <<>>, <<Set("a", <<S("f"), In("", <<S("f"), F("b")>>)>>)>>),
     Fragment("f", <<In("", <<F("a")>>), Set("b", <<F("c")>>)>>)>>}

\* Literals the loop over default values does not get through.
StuckDocuments ==
  {<<Operation("", <<V("v", Arr(Name("T")), List(<<Enum>>))>>, <<F("a")>>)>>,
   <<Operation("", <<V("v", Name("Int"), List(<<List(<<One>>)>>))>>, <<F("a")>>)>>,
   <<Operation("", <<V("v", Name("T"), Enum), V("w", Name("Int"), Absent)>>, <<R("v")>>)>>}

Requests ==
  FragmentDocuments \cup MoreFragments \cup VariableDocuments \cup OperationDocuments
    \cup NestedDocuments \cup StuckDocuments

Members(v) == [kind |-> "object", members |-> [x \in {"v"} |-> v]]

JSONs ==
  {[kind |-> "none"], [kind |-> "invalid"], [kind |-> "notObject"]}
    \cup {Members(v) : v \in {Null, One, Str, List(<<One>>), List(<<Null>>), List(<<List(<<One>>), Null>>), Obj(<<One>>)}}
=============================================================================
