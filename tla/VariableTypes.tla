--------------------------- MODULE VariableTypes ---------------------------
(***************************************************************************)
(* How the parser checks the values of variables: the type of a variable   *)
(* is written to a stack, array types below what they hold; default        *)
(* values, which are tokens of the query, and values from JSON are checked *)
(* against it, a level of arrays for each place of the stack.              *)
(*                                                                         *)
(* A token is a pair of its ID and its value; places are counted from 1.   *)
(* writeTypeToStack empties the stack before anything is read from it, so  *)
(* the operators hand it on as a value.                                    *)
(***************************************************************************)
EXTENDS Integers, SequencesExt

BuiltIn == {"Int", "Float", "Boolean", "String", "ID"}
TypeTokens == {"VarTypeArr", "VarTypeArrEnd", "VarTypeName", "VarTypeNotNull"}

NotSpecified == [Nullable |-> FALSE, Array |-> FALSE, TypeName |-> ""]

\* stack.Stack, as far as it is used here.
Push(s, x) == Append(s, x)
TopOffsetNotNull(s, offset) ==
  IF s = <<>> THEN s ELSE [s EXCEPT ![Len(s) - offset].Nullable = FALSE]

\* The place behind the type that begins at place i of t.
EndOfType(t, i) ==
  CHOOSE e \in i..Len(t) :
    t[e][1] \notin TypeTokens /\ \A p \in i..e-1 : t[p][1] \in TypeTokens

TypeStack_OffsetKept(type) ==
  LET Write(w, tok) ==
        CASE tok[1] = "VarTypeArr" ->
               [w EXCEPT !.stack = Push(@, [Nullable |-> TRUE, Array |-> TRUE, TypeName |-> ""])]
          [] tok[1] = "VarTypeArrEnd" -> [w EXCEPT !.offset = 0]
          [] tok[1] = "VarTypeName" ->
               [w EXCEPT !.stack = Push(@, [Nullable |-> TRUE, Array |-> FALSE, TypeName |-> tok[2]])]
          [] OTHER -> [w EXCEPT !.stack = TopOffsetNotNull(@, w.offset)]
  IN FoldLeft(Write, [stack |-> <<>>, offset |-> 0], type).stack

\* writeTypeToStack: an end of an array moves the next "!" one place down.
TypeStack(type) ==
  LET Write(w, tok) ==
        CASE tok[1] = "VarTypeArr" ->
               [w EXCEPT !.stack = Push(@, [Nullable |-> TRUE, Array |-> TRUE, TypeName |-> ""])]
          [] tok[1] = "VarTypeArrEnd" -> [w EXCEPT !.offset = @ + 1]
          [] tok[1] = "VarTypeName" ->
               [w EXCEPT !.stack = Push(@, [Nullable |-> TRUE, Array |-> FALSE, TypeName |-> tok[2]])]
          [] OTHER -> [w EXCEPT !.stack = TopOffsetNotNull(@, w.offset)]
  IN FoldLeft(Write, [stack |-> <<>>, offset |-> 0], type).stack

writeTypeToStack(t, i) == TypeStack(SubSeq(t, i, EndOfType(t, i) - 1))

\* A token of a default value is what the type expects.
Fits(id, expect) ==
  CASE id = "Null"  -> expect.Nullable
    [] id = "Int"   -> expect.TypeName = "Int"
    [] id = "Float" -> expect.TypeName = "Float"
    [] id = "True"  -> expect.TypeName = "Boolean"
    [] id = "Str"   -> expect.TypeName \in {"String", "ID"}

\* The place behind the object whose fields begin at place i of t.
SkipObject(t, i) ==
  LET skip[p \in Nat, lvl \in Nat] ==
        CASE t[p][1] = "Obj" -> skip[p + 1, lvl + 1]
          [] t[p][1] = "ObjEnd" -> IF lvl = 0 THEN p + 1 ELSE skip[p + 1, lvl - 1]
          [] OTHER -> skip[p + 1, lvl]
  IN skip[i, 0]

RECURSIVE Check(_, _, _, _, _, _)

\* One round of the loop at place p of t, inside so many arrays.  What is not
\* expected is remembered in err.  Two levels more than the type has lead out
\* of the stack; there is no case for a value of an enumeration.
Check(t, stack, p, arrayLevel, expect, err) ==
  LET id == t[p][1]
      Go(q, level, x, e) == IF level < 1 THEN [end |-> q, err |-> e, how |-> "ended"]
                            ELSE Check(t, stack, q, level, x, e)
  IN CASE id = "Arr" ->
            LET deeper == arrayLevel + 1 < Len(stack) IN
            Go(p + 1, arrayLevel + 1, IF deeper THEN stack[arrayLevel + 2] ELSE expect,
               err \/ ~expect.Array \/ ~deeper)
       [] id = "ArrEnd" ->
            IF arrayLevel > Len(stack) THEN [end |-> p, err |-> err, how |-> "panic"]
            ELSE Go(p + 1, arrayLevel - 1, stack[arrayLevel], err)
       [] id = "Obj" ->
            Go(SkipObject(t, p + 1), arrayLevel, expect, err \/ expect.TypeName \in BuiltIn)
       [] id = "EnumVal" ->
            [end |-> p, err |-> err, how |-> IF arrayLevel < 1 THEN "ended" ELSE "loops"]
       [] OTHER -> Go(p + 1, arrayLevel, expect, err \/ ~Fits(id, expect))

\* The check of the default value at place i of t: the place behind it,
\* whether it has another type, and how the loop ended.
CheckDefault(t, i, stack) == Check(t, stack, i, 0, stack[1], FALSE)

-----------------------------------------------------------------------------
(* Values from JSON: a kind, and the elements of arrays and objects.       *)

RECURSIVE Misfits(_, _, _), Written(_, _, _)

Expected(level, stack) ==
  IF level > -1 /\ level < Len(stack) THEN stack[level + 1] ELSE NotSpecified

\* Level -1 is inside an object, where nothing is checked.
Deeper(level) == IF level > -1 THEN level + 1 ELSE level

\* writeValueToBuffer: the value v at a level of arrays has another type.
Misfits(level, v, stack) ==
  LET expect == Expected(level, stack)
      wrong == CASE v.kind = "null"   -> ~expect.Nullable
                 [] v.kind = "float"  -> expect.TypeName # "Float"
                 [] v.kind = "int"    -> expect.TypeName \notin {"Float", "Int"}
                 [] v.kind = "bool"   -> expect.TypeName # "Boolean"
                 [] v.kind = "string" -> expect.Array \/ expect.TypeName \in {"Int", "Float", "Boolean"}
                 [] v.kind = "array"  -> ~expect.Array
                 [] v.kind = "object" -> expect.TypeName \in BuiltIn
  IN \/ level > -1 /\ wrong
     \/ v.kind = "array" /\ \E x \in DOMAIN v.items : Misfits(Deeper(level), v.items[x], stack)

\* The tokens that writeValueToBuffer writes; a string becomes a value of an
\* enumeration where the type has a name that is not built in.
Written(level, v, stack) ==
  CASE v.kind = "null"  -> <<<<"Null", "">>>>
    [] v.kind = "float" -> <<<<"Float", v.raw>>>>
    [] v.kind = "int"   -> <<<<"Int", v.raw>>>>
    [] v.kind = "bool"  -> <<<<"True", "">>>>
    [] v.kind = "string" ->
         IF Expected(level, stack).TypeName \in {"", "String", "ID"}
         THEN <<<<"Str", v.raw>>>> ELSE <<<<"EnumVal", v.raw>>>>
    [] v.kind = "array" ->
         <<<<"Arr", "">>>>
           \o FlattenSeq([x \in DOMAIN v.items |-> Written(Deeper(level), v.items[x], stack)])
           \o <<<<"ArrEnd", "">>>>
    [] v.kind = "object" ->
         <<<<"Obj", "">>>>
           \o FlattenSeq([x \in DOMAIN v.items |->
                <<<<"ObjField", v.raw>>>> \o Written(-1, v.items[x], stack)])
           \o <<<<"ObjEnd", "">>>>
=============================================================================
