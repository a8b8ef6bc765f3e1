----------------------------- MODULE QueryParts -----------------------------
(***************************************************************************)
(* Operations as the maker of query parts gets them, a sequence of tokens, *)
(* and the parts that they have.  An operation is a sequence of            *)
(* selections.                                                             *)
(***************************************************************************)
EXTENDS Integers, SequencesExt

-----------------------------------------------------------------------------
(* The tokens of a query, from the parser.  A selection is a field with    *)
(* arguments and selections, or an inline fragment.                        *)

RECURSIVE ValueTokens(_), SetTokens(_)

\* The value of a variable is read where it is referred to, by a copy of the
\* code for values that are written there: the ends in it are marked.
ReadByCopy(ts) ==
  [x \in DOMAIN ts |-> IF ts[x][1] \in {"ArrEnd", "ObjEnd"} THEN <<ts[x][1], "$">> ELSE ts[x]]

ValueTokens(v) ==
  CASE v.kind = "list" -> <<<<"Arr", "">>>> \o FlattenSeq([x \in DOMAIN v.items |-> ValueTokens(v.items[x])]) \o <<<<"ArrEnd", "">>>>
    [] v.kind = "obj"  -> <<<<"Obj", "">>>>
                            \o FlattenSeq([x \in DOMAIN v.items |-> <<<<"ObjField", v.items[x][1]>>>> \o ValueTokens(v.items[x][2])])
                            \o <<<<"ObjEnd", "">>>>
    [] v.kind = "var"  -> ReadByCopy(ValueTokens(v.value))
    [] OTHER -> <<<<v.kind, v.val>>>>

SetTokens(set) ==
  <<<<"Set", "">>>>
    \o FlattenSeq([x \in DOMAIN set |->
         LET s == set[x] IN
         <<<<s.sel, s.name>>>>
           \o (IF s.args = <<>> THEN <<>>
               ELSE <<<<"ArgList", "">>>>
                      \o FlattenSeq([y \in DOMAIN s.args |-> <<<<"ArgName", s.args[y][1]>>>> \o ValueTokens(s.args[y][2])])
                      \o <<<<"ArgListEnd", "">>>>)
           \o (IF s.set = <<>> THEN <<>> ELSE SetTokens(s.set))])
    \o <<<<"SetEnd", "">>>>

-----------------------------------------------------------------------------
(* What the parts of a query are.                                          *)

RECURSIVE Value(_), ArgumentParts(_, _), SetParts(_, _)

\* A value, with those of variables in their places.
Value(v) ==
  CASE v.kind = "var"  -> Value(v.value)
    [] v.kind = "list" -> [v EXCEPT !.items = [x \in DOMAIN @ |-> Value(@[x])]]
    [] v.kind = "obj"  -> [v EXCEPT !.items = [x \in DOMAIN @ |-> <<@[x][1], Value(@[x][2])>>]]
    [] OTHER -> v

\* The values of an argument: objects are taken apart, arrays are not.
ArgumentParts(path, v) ==
  IF v.kind = "obj"
  THEN FlattenSeq([x \in DOMAIN v.items |-> ArgumentParts(path \o <<".", v.items[x][1]>>, v.items[x][2])])
  ELSE <<[path |-> path, value |-> v]>>

SetParts(path, set) ==
  FlattenSeq([x \in DOMAIN set |->
    LET s == set[x]
        own == path \o <<".">> \o (IF s.sel = "FragInline" THEN <<"|">> ELSE <<>>) \o <<s.name>>
        args == FlattenSeq([y \in DOMAIN s.args |-> ArgumentParts(own \o <<".", s.args[y][1]>>, Value(s.args[y][2]))])
        whole == IF s.args = <<>> /\ s.set = <<>> THEN <<[path |-> own, value |-> [kind |-> "Null", val |-> 0]]>> ELSE <<>>
    IN args \o whole \o SetParts(own, s.set)])

\* Of a path that is there twice, only the first part counts.
PartsOf(q) ==
  LET Add(ps, p) == IF \E x \in DOMAIN ps : ps[x].path = p.path THEN ps ELSE Append(ps, p)
  IN FoldLeft(Add, <<>>, SetParts(<<"query">>, q))

\* __typename in front of another field is left out, at the end of a set it is
\* not (237, 378).
TypenameOf(p) == p.path[Len(p.path)] = "__typename"
=============================================================================
