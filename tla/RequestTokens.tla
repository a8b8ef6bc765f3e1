--------------------------- MODULE RequestTokens ---------------------------
(***************************************************************************)
(* The tokens that gqlscan makes of a document, which is a sequence of     *)
(* definitions.  A selection is a field, a reference to a variable, a      *)
(* spread, or a field or inline fragment with selections of its own.       *)
(***************************************************************************)
EXTENDS SequencesExt

RECURSIVE BodyTokens(_), ValueTokens(_)

BodyTokens(body) ==
  FlattenSeq([x \in DOMAIN body |->
    LET s == body[x] IN
    CASE s.sel = "set"    -> <<<<"Field", s.name>>, <<"Set", "">>>> \o BodyTokens(s.body) \o <<<<"SetEnd", "">>>>
      [] s.sel = "inline" -> <<<<"FragInline", s.name>>, <<"Set", "">>>> \o BodyTokens(s.body) \o <<<<"SetEnd", "">>>>
      [] OTHER            -> <<<<s.sel, s.name>>>>])

\* A literal value, as the parser has values from JSON, but for enumerations.
ValueTokens(v) ==
  CASE v.kind = "absent" -> <<>>
    [] v.kind = "null"   -> <<<<"Null", "">>>>
    [] v.kind = "bool"   -> <<<<"True", "">>>>
    [] v.kind = "int"    -> <<<<"Int", v.raw>>>>
    [] v.kind = "float"  -> <<<<"Float", v.raw>>>>
    [] v.kind = "string" -> <<<<"Str", v.raw>>>>
    [] v.kind = "enum"   -> <<<<"EnumVal", v.raw>>>>
    [] v.kind = "array"  -> <<<<"Arr", "">>>> \o FlattenSeq([x \in DOMAIN v.items |-> ValueTokens(v.items[x])]) \o <<<<"ArrEnd", "">>>>
    [] v.kind = "object" ->
         <<<<"Obj", "">>>>
           \o FlattenSeq([x \in DOMAIN v.items |-> <<<<"ObjField", v.raw>>>> \o ValueTokens(v.items[x])])
           \o <<<<"ObjEnd", "">>>>

DefinitionTokens(d) ==
  (IF d.kind = "fragment"
   THEN <<<<"DefFrag", "">>, <<"FragName", d.name>>, <<"FragTypeCond", "T">>>>
   ELSE <<<<"DefQry", "">>>>
          \o (IF d.name = "" THEN <<>> ELSE <<<<"OprName", d.name>>>>)
          \o (IF d.vars = <<>> THEN <<>>
              ELSE <<<<"VarList", "">>>>
                     \o FlattenSeq([x \in DOMAIN d.vars |->
                          <<<<"VarName", d.vars[x].name>>>> \o d.vars[x].type \o ValueTokens(d.vars[x].default)])
                     \o <<<<"VarListEnd", "">>>>))
  \o <<<<"Set", "">>>> \o BodyTokens(d.body) \o <<<<"SetEnd", "">>>>

TokensOf(doc) == FlattenSeq([x \in DOMAIN doc |-> DefinitionTokens(doc[x])])
=============================================================================
