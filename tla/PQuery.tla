------------------------------- MODULE PQuery -------------------------------
(***************************************************************************)
(* Maker.ParseQuery of engines/rmap/pquery: it reads the tokens of an      *)
(* operation and hands out its parts, a path with a value each, until the  *)
(* receiver says stop.  A path is a hash of the names on it; in this model *)
(* it is the sequence of what was written to the hash.                     *)
(*                                                                         *)
(* Arrays, and objects in arrays, are values that are taken from pools;    *)
(* usedStack has those that are lent.  They are numbered, and heap has     *)
(* their contents.  One maker serves many calls, one after the other.      *)
(***************************************************************************)
EXTENDS Integers, SequencesExt, FiniteSets

CONSTANTS
  Queries,     \* operations
  TokensOf(_), \* the tokens of one, from the parser
  MaxUsed      \* bound: values lent when a query with arrays begins

VARIABLES
  query, selectionSet, pos, parts, pc,
  mstack, pstack, qmap, insideArray, argLeafIdx, lastObjField,
  heap, usedStack, arrayPool, mapPool

input == <<query, selectionSet>>
stacks == <<mstack, pstack>>
values == <<heap, usedStack, arrayPool, mapPool>>
vars == <<input, pos, parts, pc, stacks, qmap, insideArray, argLeafIdx, lastObjField, values>>

-----------------------------------------------------------------------------
(* stack.Stack; on an empty stack Top and Pop give nothing.                *)

TopOf(s) == IF s = <<>> THEN <<"none", 0>> ELSE Last(s)
Popped(s) == IF s = <<>> THEN s ELSE Front(s)

Path == <<"path", 0>>
Select == <<"select", 0>>
Arguments == <<"arguments", 0>>
ArgumentPath == <<"argumentPath", 0>>
Object == <<"object", 0>>
Lent(id) == <<"lent", id>>

Init ==
  /\ query = <<>> /\ selectionSet = <<>> /\ pos = 1 /\ parts = <<>> /\ pc = "idle"
  /\ mstack = <<>> /\ pstack = <<>> /\ qmap = {}
  /\ insideArray = 0 /\ argLeafIdx = -1 /\ lastObjField = ""
  /\ heap = <<>> /\ usedStack = <<>> /\ arrayPool = <<>> /\ mapPool = <<>>

ParseQuery_KeepsPaths(q) ==
  /\ pc \in {"idle", "ended", "stopped"} /\ pc' = "parse"
  /\ query' = q /\ selectionSet' = TokensOf(q) /\ pos' = 1 /\ parts' = <<>>
  /\ Len(usedStack) <= MaxUsed \/ \A x \in DOMAIN selectionSet' : selectionSet'[x][1] # "Arr"
  /\ mstack' = <<>> /\ UNCHANGED qmap
  /\ insideArray' = 0 /\ argLeafIdx' = -1 /\ lastObjField' = ""
  /\ pstack' = <<<<"query">>>>
  /\ UNCHANGED values

\* A call.  What earlier calls have left is in the pools and on usedStack.
ParseQuery(q) ==
  /\ pc \in {"idle", "ended", "stopped"} /\ pc' = "parse"
  /\ query' = q /\ selectionSet' = TokensOf(q) /\ pos' = 1 /\ parts' = <<>>
  /\ Len(usedStack) <= MaxUsed \/ \A x \in DOMAIN selectionSet' : selectionSet'[x][1] # "Arr"
  /\ mstack' = <<>> /\ qmap' = {}
  /\ insideArray' = 0 /\ argLeafIdx' = -1 /\ lastObjField' = ""
  /\ pstack' = <<<<"query">>>>
  /\ UNCHANGED values

token == selectionSet[pos]
Top == TopOf(mstack)

Take(ids) == pc = "parse" /\ pos <= Len(selectionSet) /\ token[1] \in ids /\ UNCHANGED input
Step == pos' = pos + 1

\* The part is handed out, unless its path was seen before; the receiver may
\* stop the visit.  What is then on the stacks is dropped by the next call.  A
\* part that is no value of an argument has the index -1.
HandOut(path, leaf, value) ==
  IF path \in qmap THEN UNCHANGED <<qmap, parts, pc, argLeafIdx>>
  ELSE /\ qmap' = qmap \cup {path}
       /\ argLeafIdx' = IF leaf = -1 THEN argLeafIdx ELSE leaf
       /\ parts' = Append(parts, [leaf |-> leaf, path |-> path, value |-> value])
       /\ pc' \in {"parse", "stopped"}

\* Each value of an argument has the next index.
Leaf == argLeafIdx + 1
Nil == <<"Null", 0>>

-----------------------------------------------------------------------------
(* Selections.                                                             *)

\* A field or an inline fragment first ends the field before it, which is
\* handed out if it has neither arguments nor selections.
BeginField ==
  LET ms == IF Top = ArgumentPath THEN Popped(mstack) ELSE mstack
      ps == IF Top = ArgumentPath THEN Popped(pstack) ELSE pstack
      whole == TopOf(ms) = Path
      below == IF whole THEN Popped(ps) ELSE ps
      bar == IF token[1] = "FragInline" THEN <<"|">> ELSE <<>>
  IN /\ Take({"Field", "FragInline"}) /\ Step
     /\ IF whole /\ selectionSet[pos - 1][2] # "__typename" THEN HandOut(Last(ps), -1, Nil)
        ELSE UNCHANGED <<qmap, parts, pc, argLeafIdx>>
     /\ mstack' = Append(IF whole THEN Popped(ms) ELSE ms, Path)
     /\ pstack' = Append(below, Last(below) \o bar \o <<token[2]>>)
     /\ UNCHANGED <<insideArray, lastObjField, values>>

BeginArguments ==
  /\ Take({"ArgList"}) /\ Step
  /\ mstack' = Popped(mstack) \o <<ArgumentPath, Arguments>>
  /\ pstack' = Append(pstack, Append(Last(pstack), "."))
  /\ UNCHANGED <<parts, pc, qmap, insideArray, argLeafIdx, lastObjField, values>>

BeginSet ==
  /\ Take({"Set"}) /\ Step
  /\ mstack' = Append(mstack, Select)
  /\ pstack' = Append(pstack, Append(Last(pstack), "."))
  /\ UNCHANGED <<parts, pc, qmap, insideArray, argLeafIdx, lastObjField, values>>

-----------------------------------------------------------------------------
(* Values.                                                                 *)

\* The name of an argument, or of a field of an object that is not in an
\* array, is part of the path.
BeginArgument ==
  /\ Take({"ArgName", "ObjField"}) /\ Step
  /\ IF token[1] = "ArgName" \/ insideArray = 0
     THEN /\ pstack' = Append(pstack, Append(Last(pstack), token[2]))
          /\ mstack' = Append(mstack, Path)
          /\ UNCHANGED lastObjField
     ELSE lastObjField' = token[2] /\ UNCHANGED stacks
  /\ UNCHANGED <<parts, pc, qmap, insideArray, argLeafIdx, values>>

\* A value is put where it belongs: in the array or object on top.
Put(h, value) ==
  IF Top[1] # "lent" THEN h
  ELSE [h EXCEPT ![Top[2]].items = Append(@, <<IF h[Top[2]].kind = "Obj" THEN lastObjField ELSE "", value>>)]

Borrow_Unmarked(kind, pool) ==
  LET id == IF pool = <<>> THEN Len(heap) + 1 ELSE Last(pool)
      h == IF pool = <<>> THEN Append(heap, [kind |-> kind, items |-> <<>>]) ELSE heap
  IN /\ usedStack' = IF pool = <<>> THEN usedStack ELSE Append(usedStack, id)
     /\ heap' = Put(h, Lent(id))
     /\ mstack' = Append(mstack, Lent(id))

\* From the pool, or a new one.
Borrow(kind, pool) ==
  LET id == IF pool = <<>> THEN Len(heap) + 1 ELSE Last(pool)
      h == IF pool = <<>> THEN Append(heap, [kind |-> kind, items |-> <<>>]) ELSE heap
  IN /\ usedStack' = Append(usedStack, id)
     /\ heap' = Put(h, Lent(id))
     /\ mstack' = Append(mstack, Lent(id))

BeginArray ==
  /\ Take({"Arr"}) /\ Step
  /\ insideArray' = insideArray + 1
  /\ Borrow("Arr", arrayPool) /\ arrayPool' = Popped(arrayPool)
  /\ UNCHANGED <<parts, pc, pstack, qmap, argLeafIdx, lastObjField, mapPool>>

\* An object that is not in an array only makes the path longer.
BeginObject ==
  /\ Take({"Obj"}) /\ Step
  /\ IF insideArray = 0
     THEN /\ pstack' = Append(pstack, Append(Last(pstack), "."))
          /\ mstack' = Append(mstack, Object)
          /\ UNCHANGED values
     ELSE /\ Borrow("Obj", mapPool) /\ mapPool' = Popped(mapPool)
          /\ UNCHANGED <<pstack, arrayPool>>
  /\ UNCHANGED <<parts, pc, qmap, insideArray, argLeafIdx, lastObjField>>

Scalar ==
  /\ Take({"Int", "Str", "Null"}) /\ Step
  /\ IF insideArray = 0
     THEN /\ mstack' = Popped(mstack) /\ pstack' = Popped(pstack)
          /\ HandOut(Last(pstack), Leaf, token)
          /\ UNCHANGED values
     ELSE /\ heap' = Put(heap, token)
          /\ UNCHANGED <<stacks, qmap, parts, pc, argLeafIdx, usedStack, arrayPool, mapPool>>
  /\ UNCHANGED <<insideArray, lastObjField>>

\* There is no case for a block string: nothing is handed out, nothing is put,
\* and the path of its argument or field stays on the stacks.
BlockString ==
  /\ Take({"StrBlock"}) /\ Step
  /\ UNCHANGED <<stacks, parts, pc, qmap, insideArray, argLeafIdx, lastObjField, values>>

-----------------------------------------------------------------------------
(* Ends.  What an end does depends on what is on top.  The code for values      *)
(* of variables has only the cases of values (193-219); the parser marks   *)
(* nothing, but the ends of their arrays and objects are told here by "$". *)

EndTokens == {"ArrEnd", "ObjEnd", "SetEnd", "ArgListEnd"}
OfVariable == token[2] = "$"

IndexBehind == IF token[1] = "ArgListEnd" THEN -1 ELSE argLeafIdx

\* The last field of a set has no field behind it that would end it; the loop
\* goes on with what is below.
EndPath ==
  /\ Take(EndTokens) /\ ~OfVariable /\ Top \in {Path, ArgumentPath}
  /\ mstack' = Popped(mstack) /\ pstack' = Popped(pstack)
  /\ IF Top = Path THEN HandOut(Last(pstack), -1, Nil)
     ELSE UNCHANGED <<qmap, parts, pc, argLeafIdx>>
  /\ UNCHANGED <<pos, insideArray, lastObjField, values>>

EndArguments ==
  /\ Take(EndTokens) /\ ~OfVariable /\ Top = Arguments /\ Step
  /\ argLeafIdx' = IndexBehind
  /\ mstack' = Popped(mstack) /\ pstack' = Popped(pstack)
  /\ UNCHANGED <<parts, pc, qmap, insideArray, lastObjField, values>>

\* With the set, or the object outside of arrays, its field ends as well.
EndSet ==
  /\ Take(EndTokens) /\ Step
  /\ Top = Object \/ (Top = Select /\ ~OfVariable)
  /\ argLeafIdx' = IndexBehind
  /\ mstack' = Popped(Popped(mstack)) /\ pstack' = Popped(Popped(pstack))
  /\ UNCHANGED <<parts, pc, qmap, insideArray, lastObjField, values>>

\* The end of an object in a variable that has a block string as its last field.
EndOfNothing ==
  /\ Take(EndTokens) /\ OfVariable /\ Top \in {Path, ArgumentPath, Arguments, Select} /\ Step
  /\ UNCHANGED <<stacks, parts, pc, qmap, insideArray, argLeafIdx, lastObjField, values>>

EndValue ==
  /\ Take({"ArrEnd", "ObjEnd"}) /\ Top[1] = "lent" /\ Step
  /\ insideArray' = IF token[1] = "ArrEnd" THEN insideArray - 1 ELSE insideArray
  /\ IF insideArray' = 0
     THEN /\ HandOut(Last(pstack), Leaf, Top)
          /\ mstack' = Popped(Popped(mstack)) /\ pstack' = Popped(pstack)
     ELSE mstack' = Popped(mstack) /\ UNCHANGED <<pstack, qmap, parts, pc, argLeafIdx>>
  /\ UNCHANGED <<lastObjField, values>>

\* At the end, and only there, what was lent is emptied and returned, the last
\* first.
AtEnd == pc \in {"parse", "return"} /\ pos > Len(selectionSet)

GiveBack ==
  /\ AtEnd /\ usedStack # <<>> /\ pc' = "return"
  /\ LET id == Last(usedStack) IN
       /\ usedStack' = Front(usedStack)
       /\ heap' = [heap EXCEPT ![id].items = <<>>]
       /\ \/ heap[id].kind = "Arr" /\ arrayPool' = Append(arrayPool, id) /\ UNCHANGED mapPool
          \/ heap[id].kind = "Obj" /\ mapPool' = Append(mapPool, id) /\ UNCHANGED arrayPool
  /\ UNCHANGED <<input, pos, parts, stacks, qmap, insideArray, argLeafIdx, lastObjField>>

EndOfQuery ==
  /\ AtEnd /\ usedStack = <<>> /\ pc' = "ended"
  /\ UNCHANGED <<input, pos, parts, stacks, qmap, insideArray, argLeafIdx, lastObjField, values>>

Next ==
  \/ \E q \in Queries : ParseQuery(q)
  \/ BeginField \/ BeginArguments \/ BeginSet
  \/ BeginArgument \/ BeginArray \/ BeginObject \/ Scalar \/ BlockString
  \/ EndPath \/ EndArguments \/ EndSet \/ EndOfNothing \/ EndValue
  \/ GiveBack \/ EndOfQuery

Spec == Init /\ [][Next]_vars

-----------------------------------------------------------------------------
(* Properties.                                                             *)

\* A value is lent or in one pool, once; in a pool it is empty.  A call that
\* was stopped leaves its loans to a later one, which gives back all.
LoansComeBack ==
  LET all == usedStack \o arrayPool \o mapPool IN
  /\ \A x, y \in DOMAIN all : all[x] = all[y] => x = y
  /\ {all[x] : x \in DOMAIN all} = DOMAIN heap
  /\ \A x \in DOMAIN arrayPool : heap[arrayPool[x]] = [kind |-> "Arr", items |-> <<>>]
  /\ \A x \in DOMAIN mapPool : heap[mapPool[x]] = [kind |-> "Obj", items |-> <<>>]
  /\ pc = "ended" => usedStack = <<>>
=============================================================================
