------------------------------ MODULE MCQueries ------------------------------
(***************************************************************************)
(* Queries and services for TLC: scalars, lists, objects in and around     *)
(* lists, paths that are there twice, inline fragments, and templates that *)
(* share paths, share constraints, or have combines.  Values of variables, *)
(* and block strings, which the maker passes over.                         *)
(***************************************************************************)
EXTENDS Integers, Sequences

Whole(n) == [kind |-> "Int", val |-> n]
Text(n) == [kind |-> "Str", val |-> n]
Block(n) == [kind |-> "StrBlock", val |-> n]
Variable(v) == [kind |-> "var", value |-> v]
Null == [kind |-> "Null", val |-> 0]
List(xs) == [kind |-> "list", items |-> xs]
Obj(xs) == [kind |-> "obj", items |-> xs]

Field(n, args, set) == [sel |-> "Field", name |-> n, args |-> args, set |-> set]
Leaf1(n) == Field(n, <<>>, <<>>)
On(t, set) == [sel |-> "FragInline", name |-> t, args |-> <<>>, set |-> set]
A(value) == Field("a", <<<<"x", value>>>>, <<>>)

Operations == {
  <<Leaf1("a")>>,
  <<Leaf1("a"), Leaf1("b")>>,
  <<A(Whole(1))>>,
  <<A(Whole(1)), A(Whole(2)), Leaf1("c")>>,
  <<A(Text(2))>>,
  <<A(List(<<>>))>>,
  <<A(List(<<Whole(1), Whole(2)>>)), Leaf1("b")>>,
  <<A(List(<<Whole(2), Obj(<<<<"k", List(<<Whole(1)>>)>>>>)>>))>>,
  <<A(List(<<Obj(<<<<"k", Whole(1)>>, <<"l", Null>>>>)>>)), Leaf1("b")>>,
  <<A(Obj(<<<<"k", Whole(1)>>, <<"l", Obj(<<<<"m", Whole(2)>>>>)>>>>))>>,
  <<Field("a", <<<<"x", Whole(1)>>, <<"y", Whole(2)>>>>, <<Leaf1("c")>>), Leaf1("b")>>,
  <<Leaf1("__typename"), Leaf1("a"), On("T", <<Leaf1("c"), Leaf1("b")>>)>>,
  <<Leaf1("a"), Leaf1("__typename")>>,
  <<A(Obj(<<<<"k", Variable(List(<<Whole(1), Obj(<<<<"k", Whole(1)>>>>)>>))>>,
            <<"l", Variable(Obj(<<<<"m", Whole(2)>>>>))>>>>))>>,
  <<Field("a", <<<<"x", Block(1)>>, <<"y", Whole(2)>>>>, <<Leaf1("c")>>), Leaf1("b")>>,
  <<A(List(<<Whole(1), Block(1), Obj(<<<<"k", Block(2)>>>>)>>)), Leaf1("b")>>,
  <<A(Variable(Obj(<<<<"k", Obj(<<<<"l", Block(1)>>>>)>>>>))), Leaf1("b"), Leaf1("c")>>}

C(name, key, value) == [name |-> name, key |-> key, value |-> value]
Bound(n) == [kind |-> "Uint", val |-> n]
Array(xs) == [kind |-> "array", items |-> xs]
Fields(xs) == [kind |-> "object", items |-> xs]
Elem(c) == [kind |-> "elem", el |-> c]
Combine(max, set) == [sel |-> "combine", name |-> "max", args |-> <<>>, max |-> max, set |-> set]
X(name, value) == Field("a", <<C(name, "x", value)>>, <<>>)
Equals(key, value) == C("ValEqual", key, value)

Subscribe == <<[sel |-> "subscription", name |-> "", args |-> <<>>, set |-> <<>>]>>

\* Sequences of templates; each service has templates with something in common.
SomeServices == {
  <<<<Leaf1("a")>>, Subscribe>>,
  <<<<Leaf1("a"), Leaf1("b")>>, <<X("ValEqual", Whole(1)), Leaf1("a"), Leaf1("c")>>>>,
  <<<<X("ValLessOrEqual", Whole(1))>>, <<X("ValGreater", Whole(1)), Leaf1("c")>>>>,
  <<<<X("Any", Null), Leaf1("b")>>, <<X("Any", Null), Leaf1("c")>>>>,
  <<<<X("ValEqual", Whole(1))>>, <<X("BytelenLess", Bound(3))>>>>,
  <<<<X("BytelenNotEqual", Bound(2))>>, <<X("LenEqual", Bound(0))>>>>,
  <<<<X("BytelenGreater", Bound(1))>>, <<X("BytelenEqual", Bound(2))>>>>,
  <<<<X("BytelenGreaterOrEqual", Bound(3))>>, <<X("BytelenLessOrEqual", Bound(2))>>>>,
  <<<<X("LenGreater", Bound(0)), Leaf1("b")>>, <<X("LenGreaterOrEqual", Bound(2)), Leaf1("b")>>>>,
  <<<<X("LenNotEqual", Bound(1)), Leaf1("b")>>, <<X("LenLess", Bound(3)), Leaf1("b")>>>>,
  <<<<X("ValLess", Whole(1))>>, <<X("ValGreaterOrEqual", Whole(1))>>>>,
  <<<<X("ValEqual", Text(2))>>, <<X("ValEqual", Text(3))>>>>,
  <<<<X("ValNotEqual", Whole(2)), Leaf1("c")>>, <<X("Or", Array(<<Equals("", Whole(1)), C("BytelenLess", "", Bound(2))>>))>>>>,
  <<<<X("And", Array(<<C("ValGreater", "", Whole(0)), C("ValLessOrEqual", "", Whole(1))>>))>>,
    <<X("LenLessOrEqual", Bound(1)), Leaf1("b")>>>>,
  <<<<X("Map", Elem(C("ValLessOrEqual", "", Whole(1)))), Leaf1("b")>>,
    <<X("Map", Elem(C("Any", "", Null))), Leaf1("b")>>>>,
  <<<<X("ValEqual", Array(<<Equals("", Whole(1)), C("ValGreater", "", Whole(1))>>)), Leaf1("b")>>,
    <<X("ValNotEqual", Array(<<Equals("", Whole(2))>>)), Leaf1("b")>>>>,
  <<<<X("ValEqual", Array(<<Equals("", Fields(<<Equals("l", Null), C("Any", "k", Null)>>))>>)), Leaf1("b")>>,
    <<X("ValEqual", Array(<<C("ValNotEqual", "", Fields(<<Equals("k", Whole(2)), Equals("l", Null)>>))>>)), Leaf1("b")>>>>,
  <<<<X("ValEqual", Array(<<Equals("", Fields(<<Equals("k", Whole(1)), Equals("l", Null)>>))>>)), Leaf1("b")>>,
    <<X("ValEqual", Array(<<Equals("", Fields(<<Equals("l", Null), Equals("k", Whole(1))>>))>>)), Leaf1("b")>>>>,
  <<<<X("ValEqual", Fields(<<Equals("k", Whole(1)), Equals("l", Fields(<<C("ValGreater", "m", Whole(1))>>))>>))>>,
    <<X("ValEqual", Fields(<<C("ValLessOrEqual", "k", Whole(1)), Equals("l", Fields(<<C("ValGreater", "m", Whole(2))>>))>>))>>>>,
  <<<<Field("a", <<Equals("x", Whole(1)), C("Any", "y", Null)>>, <<Leaf1("c")>>), Leaf1("b")>>>>,
  <<<<Leaf1("a"), On("T", <<Leaf1("b"), Leaf1("c")>>)>>, <<Leaf1("a"), Leaf1("__typename")>>>>,
  <<<<Combine(1, <<Leaf1("a"), Leaf1("b")>>)>>, <<Combine(2, <<Leaf1("b"), Leaf1("a"), Leaf1("c")>>)>>>>,
  <<<<Leaf1("c"), Combine(1, <<X("ValLessOrEqual", Whole(1)), Leaf1("b")>>)>>,
    <<Combine(1, <<X("LenLessOrEqual", Bound(2)), Leaf1("c")>>), Combine(1, <<Leaf1("b")>>)>>>>,
  <<<<Combine(1, <<Field("a", <<C("Any", "x", Null), C("Any", "y", Null)>>, <<Leaf1("c")>>), Leaf1("b")>>)>>,
    <<Combine(1, <<Leaf1("a"), Combine(1, <<Leaf1("b"), Leaf1("c")>>)>>)>>>>}
=============================================================================
