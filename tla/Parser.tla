------------------------------- MODULE Parser -------------------------------
(***************************************************************************)
(* Parser.Parse of gqlparse: it takes the tokens of a request from the     *)
(* scanner, selects an operation, checks and constructs the values of its  *)
(* variables, constructs the fragments in the order in which they need     *)
(* each other, and writes the operation with the fragments in place and    *)
(* variables replaced by the places of their values.  One parser serves    *)
(* many calls, one after the other.                                        *)
(*                                                                         *)
(* gqlscan is external: a document is a sequence of definitions, and       *)
(* Tokens is what the scanner makes of it.  Arguments and directives of    *)
(* fields are left out, but for references to variables, which stand for   *)
(* fields with such an argument; mutations and subscriptions are read as   *)
(* queries are.  A range of tokens is its first place and the place        *)
(* behind it, counted from 1.                                              *)
(***************************************************************************)
EXTENDS Integers, SequencesExt, FiniteSets

CONSTANTS
  Documents,       \* sequences of definitions
  OperationNames,  \* names to select by; "" is none
  VarsJSON,        \* variables that come with a request
  MaxFragments,    \* of a request, and of the inspector
  Tokens(_),       \* of a document, from the scanner
  \* The operators of VariableTypes, under names of this module:
  TypeEnd(_, _), TypeAt(_, _), DefaultCheck(_, _, _), MisfitsType(_, _, _), ValueOf(_, _, _)

ASSUME ParserAssumption == MaxFragments \in Nat \ {0}

-----------------------------------------------------------------------------
(* What the scanner makes of a document.                                   *)

Starts(tok) == tok[1] \in {"DefQry", "FragName"}
Untyped(tok) == tok[1] = "FragInline" /\ tok[2] = ""

\* After x tokens: the number of sets that are open; and whether a definition
\* has begun and its selections have not.
Count(t, x, id) == Cardinality({y \in 1..x : t[y][1] = id})
Depth(t, x) == Count(t, x, "Set") - Count(t, x, "SetEnd")
Begun(t, x) == \E y \in 1..x : Starts(t[y]) /\ \A z \in y..x : t[z][1] # "Set"

\* One definition after the other, with sets that are balanced; a list of
\* variables ends before the selections.
IsScanned(t) ==
  /\ t \in Seq(ToSet(t))
  /\ Depth(t, Len(t)) = 0 /\ ~Begun(t, Len(t))
  /\ \A x \in 0..Len(t) : Depth(t, x) >= 0 /\ (Begun(t, x) => Depth(t, x) = 0)
  /\ \A x \in 1..Len(t) :
       /\ Starts(t[x]) => Depth(t, x - 1) = 0 /\ ~Begun(t, x - 1)
       /\ Untyped(t[x]) => Depth(t, x) > 0
       /\ t[x][1] \in {"FragName", "FragTypeCond", "VarList"} \/ Untyped(t[x]) =>
            /\ x < Len(t)
            /\ t[x + 1][1] = CASE t[x][1] = "FragName" -> "FragTypeCond"
                               [] t[x][1] = "VarList" -> "VarName"
                               [] OTHER -> "Set"
       /\ t[x][1] = "FragName" => t[x][2] # ""
       /\ t[x][1] = "VarList" =>
            \E y \in x..Len(t) :
              t[y][1] = "VarListEnd" /\ \A z \in x..y-1 : t[z][1] \notin {"VarListEnd", "Set"}

\* Operations up to the end of their variables.
IsPreamble(s) ==
  /\ s[1][1] = "DefQry" /\ s[Len(s)][1] = "VarListEnd"
  /\ \A x \in 1..Len(s)-1 : s[x][1] \notin {"VarListEnd", "Set"}
Preambles(t) ==
  {s \in UNION {{SubSeq(t, x, y) : y \in DOMAIN t} : x \in DOMAIN t} : s # <<>> /\ IsPreamble(s)}

\* Where a variable may be: the loop over default values ends at a value of an
\* enumeration, which is taken for the name of a variable then.
Places(s) ==
  LET declared == {x \in DOMAIN s : s[x][1] = "VarName"} IN
  declared \cup {x \in {TypeEnd(s, y + 1) : y \in declared} : s[x][1] = "EnumVal"}

\* The loops over the type and the default value end in the list of variables.
StayInList(s) ==
  \A x \in Places(s) :
    LET e == TypeEnd(s, x + 1)
        check == DefaultCheck(s, e, TypeAt(s, x + 1))
    IN /\ e \in x + 1..Len(s)
       /\ s[e][1] \notin {"VarName", "VarListEnd"} =>
            /\ check.end \in e..Len(s)
            /\ check.how \notin {"loops", "panic"} /\ ~check.err =>
                 check.end = Len(s) \/ check.end \in Places(s)

\* Of the scanner and of VariableTypes; only RangesAreInBuffer rests on them.
ASSUME ScannerAssumption == \A doc \in Documents : IsScanned(Tokens(doc))

ASSUME TypesAssumption ==
  \A doc \in Documents : \A s \in Preambles(Tokens(doc)) : StayInList(s)

VARIABLES
  document, pos, operationName,                        \* the request
  buffer, operations, fragDefs, entryFrags, fragmentGraphEdges,
  recentDef, recentFragDef, stackCounter, fragStackCounter,
  opr, i,                                \* range of the operation, place in it
  json, varOrder, varsDecls, varsConstructed,
  ordered, path, k, todo, isErr, fragsConstructed,
  bufferOpr, selectionSetIndex,
  verdicts,                              \* what the callbacks were called with
  pc

request == <<document, pos, operationName>>
index == <<buffer, operations, fragDefs, entryFrags, fragmentGraphEdges>>
scan == <<recentDef, recentFragDef, stackCounter, fragStackCounter>>
place == <<opr, i, k>>
variables == <<json, varOrder, varsDecls, varsConstructed>>
order == <<ordered, path, todo, isErr>>
out == <<bufferOpr, selectionSetIndex>>
vars == <<request, index, scan, place, variables, order, fragsConstructed, out, verdicts, pc>>

NoRange == [first |-> 0, end |-> 0]
Slice(s, r) == SubSeq(s, r.first, r.end - 1)
O == Slice(buffer, opr)

With(f, x, y) == [z \in DOMAIN f \cup {x} |-> IF z = x THEN y ELSE f[z]]

-----------------------------------------------------------------------------

\* GetItems of fragsConstructed: <<>> for no segment, else the segment in a
\* sequence.  As long as nothing was ever appended a segment is nil as well.
Items(f) ==
  IF f \in DOMAIN fragsConstructed.segments
     /\ (fragsConstructed.segments[f] # <<>> \/ fragsConstructed.allocated)
  THEN <<fragsConstructed.segments[f]>> ELSE <<>>

\* The index of a variable's value, -1 when there is none.
ValueIndex(v) ==
  IF \E x \in DOMAIN varsConstructed : varsConstructed[x][1] = v
  THEN (CHOOSE x \in DOMAIN varsConstructed : varsConstructed[x][1] = v) - 1 ELSE -1

Report(what, of) == verdicts' = Append(verdicts, <<what, of>>)
Fail(what, of) == Report(what, of) /\ pc' = "returned"

Init ==
  /\ document = <<>> /\ pos = 1 /\ operationName = ""
  /\ buffer = <<>> /\ operations = <<>> /\ fragDefs = <<>> /\ entryFrags = {}
  /\ fragmentGraphEdges = {}
  /\ recentDef = "" /\ recentFragDef = "" /\ stackCounter = 0 /\ fragStackCounter = 0
  /\ opr = NoRange /\ i = 1 /\ k = 1
  /\ json = [kind |-> "none"] /\ varOrder = <<>> /\ varsDecls = <<>> /\ varsConstructed = <<>>
  /\ ordered = <<>> /\ path = <<>> /\ todo = {} /\ isErr = FALSE
  /\ fragsConstructed = [segments |-> <<>>, pending |-> <<>>, allocated |-> FALSE]
  /\ bufferOpr = <<>> /\ selectionSetIndex = 0
  /\ verdicts = <<>> /\ pc = "idle"

reset_KeepsPending ==
  /\ buffer' = <<>> /\ bufferOpr' = <<>> /\ ordered' = <<>>
  /\ fragDefs' = <<>> /\ entryFrags' = {}
  /\ varOrder' = <<>> /\ varsDecls' = <<>> /\ varsConstructed' = <<>>
  /\ fragsConstructed' = [fragsConstructed EXCEPT !.segments = <<>>]
  /\ operations' = <<>> /\ fragmentGraphEdges' = {}

reset ==
  /\ buffer' = <<>> /\ bufferOpr' = <<>> /\ ordered' = <<>>
  /\ fragDefs' = <<>> /\ entryFrags' = {}
  /\ varOrder' = <<>> /\ varsDecls' = <<>> /\ varsConstructed' = <<>>
  /\ fragsConstructed' = [fragsConstructed EXCEPT !.segments = <<>>, !.pending = <<>>]
  /\ operations' = <<>> /\ fragmentGraphEdges' = {}

\* A call begins.  What it gets is chosen where it is read first.
Call ==
  /\ pc \in {"idle", "returned", "panic"} /\ pc' = "called"
  /\ reset
  /\ recentDef' = "" /\ recentFragDef' = "" /\ stackCounter' = 0 /\ fragStackCounter' = 0
  /\ document' = <<>> /\ pos' = 1 /\ operationName' = "" /\ json' = [kind |-> "none"]
  /\ opr' = NoRange /\ i' = 1 /\ k' = 1 /\ todo' = {} /\ isErr' = FALSE
  /\ verdicts' = <<>> /\ selectionSetIndex' = 0
  /\ UNCHANGED path

Receive(doc) ==
  /\ pc = "called" /\ pc' = "scan"
  /\ document' = doc
  /\ UNCHANGED <<pos, operationName, index, scan, place, variables, order, fragsConstructed, out, verdicts>>

-----------------------------------------------------------------------------
(* The callback of the scanner, once for each token.                       *)

token == Tokens(document)[pos]

Read(ids) ==
  /\ pc = "scan" /\ pos <= Len(Tokens(document)) /\ token[1] \in ids
  /\ pos' = pos + 1
  /\ UNCHANGED <<document, operationName, place, variables, order, fragsConstructed, out>>

Keep == buffer' = Append(buffer, token)

ReadDefinition ==
  /\ Read({"DefQry"}) /\ Keep
  /\ recentDef' = "DefQry"
  /\ operations' = Append(operations, [first |-> Len(buffer) + 1, end |-> 0])
  /\ UNCHANGED <<fragDefs, entryFrags, fragmentGraphEdges, recentFragDef, stackCounter, fragStackCounter, verdicts, pc>>

\* An inline fragment without a type is dropped, and so is the set behind it.
ReadUntypedInline ==
  /\ Read({"FragInline"}) /\ token[2] = ""
  /\ fragStackCounter' = fragStackCounter + 1
  /\ UNCHANGED <<index, recentDef, recentFragDef, stackCounter, verdicts, pc>>

ReadSet ==
  /\ Read({"Set"})
  /\ IF fragStackCounter > 0 THEN UNCHANGED <<buffer, stackCounter>>
     ELSE Keep /\ stackCounter' = stackCounter + 1
  /\ UNCHANGED <<operations, fragDefs, entryFrags, fragmentGraphEdges, recentDef, recentFragDef, fragStackCounter, verdicts, pc>>

\* The end of a set that was dropped, as far as the counter tells.
DropSetEnd ==
  /\ Read({"SetEnd"}) /\ fragStackCounter > 0
  /\ fragStackCounter' = fragStackCounter - 1
  /\ UNCHANGED <<index, recentDef, recentFragDef, stackCounter, verdicts, pc>>

ReadSetEnd_LateEnd ==
  /\ Read({"SetEnd"}) /\ fragStackCounter = 0 /\ Keep
  /\ stackCounter' = stackCounter - 1
  /\ IF stackCounter' >= 0 THEN UNCHANGED <<operations, fragDefs, recentDef, recentFragDef>>
     ELSE /\ recentDef' = "" /\ recentFragDef' = ""
          /\ IF recentDef = "DefQry"
             THEN operations' = [operations EXCEPT ![Len(operations)].end = Len(buffer')+1] /\ UNCHANGED fragDefs
             ELSE /\ fragDefs' = [f \in DOMAIN fragDefs |->
                       IF f = recentFragDef THEN [fragDefs[f] EXCEPT !.end = Len(buffer')+1] ELSE fragDefs[f]]
                  /\ UNCHANGED operations
  /\ UNCHANGED <<entryFrags, fragmentGraphEdges, fragStackCounter, verdicts, pc>>

ReadSetEnd ==
  /\ Read({"SetEnd"}) /\ fragStackCounter = 0 /\ Keep
  /\ stackCounter' = stackCounter - 1
  /\ IF stackCounter' >= 1 THEN UNCHANGED <<operations, fragDefs, recentDef, recentFragDef>>
     ELSE /\ recentDef' = "" /\ recentFragDef' = ""
          /\ IF recentDef = "DefQry"
             THEN operations' = [operations EXCEPT ![Len(operations)].end = Len(buffer')+1] /\ UNCHANGED fragDefs
             ELSE /\ fragDefs' = [f \in DOMAIN fragDefs |->
                       IF f = recentFragDef THEN [fragDefs[f] EXCEPT !.end = Len(buffer')+1] ELSE fragDefs[f]]
                  /\ UNCHANGED operations
  /\ UNCHANGED <<entryFrags, fragmentGraphEdges, fragStackCounter, verdicts, pc>>

\* Spreads of operations are remembered together, of whichever operation.
ReadSpread ==
  /\ Read({"NamedSpread"}) /\ Keep
  /\ IF recentFragDef = ""
     THEN entryFrags' = entryFrags \cup {token[2]} /\ UNCHANGED fragmentGraphEdges
     ELSE fragmentGraphEdges' = fragmentGraphEdges \cup {<<recentFragDef, token[2]>>} /\ UNCHANGED entryFrags
  /\ UNCHANGED <<operations, fragDefs, scan, verdicts, pc>>

ReadFragment ==
  /\ Read({"FragName"}) /\ Keep
  /\ token[2] \notin DOMAIN fragDefs /\ Cardinality(DOMAIN fragDefs) < MaxFragments
  /\ recentFragDef' = token[2]
  /\ fragDefs' = With(fragDefs, token[2], [first |-> Len(buffer) + 1, end |-> 0, used |-> FALSE])
  /\ UNCHANGED <<operations, entryFrags, fragmentGraphEdges, recentDef, stackCounter, fragStackCounter, verdicts, pc>>

RefuseFragment ==
  /\ Read({"FragName"}) /\ Keep
  /\ \/ token[2] \in DOMAIN fragDefs /\ Fail("FragRedeclared", token[2]) /\ UNCHANGED recentFragDef
     \/ /\ token[2] \notin DOMAIN fragDefs /\ Cardinality(DOMAIN fragDefs) >= MaxFragments
        /\ Fail("FragLimitExceeded", "") /\ recentFragDef' = token[2]
  /\ UNCHANGED <<operations, fragDefs, entryFrags, fragmentGraphEdges, recentDef, stackCounter, fragStackCounter>>

ReadOther ==
  /\ pc = "scan" /\ pos <= Len(Tokens(document))
  /\ \/ Read({token[1]} \ {"DefQry", "FragInline", "Set", "SetEnd", "NamedSpread", "FragName"})
     \/ Read({"FragInline"}) /\ token[2] # ""
  /\ Keep
  /\ UNCHANGED <<operations, fragDefs, entryFrags, fragmentGraphEdges, scan, verdicts, pc>>

\* The scanner meets an error, anywhere.
SyntaxError ==
  /\ pc = "scan" /\ Fail("Syntax", "")
  /\ UNCHANGED <<request, index, scan, place, variables, order, fragsConstructed, out>>

EndOfScan ==
  /\ pc = "scan" /\ pos > Len(Tokens(document)) /\ pc' = "select"
  /\ UNCHANGED <<request, index, scan, place, variables, order, fragsConstructed, out, verdicts>>

-----------------------------------------------------------------------------
(* The operation.                                                          *)

SecondToken(x) == buffer[operations[x].first + 1]
Anonymous(x) == SecondToken(x)[1] # "OprName"
Redeclared(x) == \E y \in x+1..Len(operations) : ~Anonymous(y) /\ SecondToken(x)[2] = SecondToken(y)[2]

\* The loop over operations stops at the first that is anonymous or declared
\* again; otherwise the last one with the name asked for is taken.
SelectOperation(name) ==
  LET n == Len(operations)
      stops == {x \in 1..n : (Anonymous(x) /\ n > 1) \/ (~Anonymous(x) /\ Redeclared(x))}
      first == {x \in stops : \A y \in stops : x <= y}
      found == {x \in 1..n : IF Anonymous(x) THEN name = "" ELSE name # "" /\ SecondToken(x)[2] = name}
  IN
  /\ pc = "select" /\ operationName' = name
  /\ \/ \E x \in first : Anonymous(x) /\ Fail("OprAnonNonExcl", "") /\ UNCHANGED opr
     \/ \E x \in first : ~Anonymous(x) /\ Fail("OprRedeclared", SecondToken(x)[2]) /\ UNCHANGED opr
     \/ first = {} /\ found = {} /\ Fail("OprNotFound", name) /\ UNCHANGED opr
     \/ first = {} /\ (\E x \in found : opr' = operations[x]) /\ pc' = "operation" /\ UNCHANGED verdicts
  /\ UNCHANGED <<document, pos, index, scan, i, k, variables, order, fragsConstructed, out>>

HasName == O[2][1] = "OprName"
HasVarList == O[2][1] = "VarList" \/ (HasName /\ O[3][1] = "VarList")

InitOperation ==
  /\ pc = "operation"
  /\ bufferOpr' = <<O[1]>>
  /\ IF HasVarList THEN pc' = "index" /\ i' = (IF HasName THEN 4 ELSE 3)
     ELSE pc' = "json" /\ i' = 2
  /\ UNCHANGED <<request, index, scan, opr, k, variables, order, fragsConstructed, selectionSetIndex, verdicts>>

\* The operation up to the end of its variables, behind which no type and no
\* default value is looked for.
Preamble ==
  SubSeq(O, 1, CHOOSE x \in DOMAIN O :
                 O[x][1] = "VarListEnd" /\ \A y \in 1..x-1 : O[y][1] # "VarListEnd")

\* validateAndIndexVars: a variable with its type and default value.  Ranges
\* are places in O.
EndOfVariables ==
  /\ pc = "index" /\ O[i][1] = "VarListEnd" /\ pc' = "json"
  /\ i' = i + 1
  /\ bufferOpr' = IF HasName THEN Append(bufferOpr, O[2]) ELSE bufferOpr
  /\ UNCHANGED <<request, index, scan, opr, k, variables, order, fragsConstructed, selectionSetIndex, verdicts>>

IndexVariable ==
  LET name == O[i][2]
      type == [first |-> i + 1, end |-> TypeEnd(Preamble, i + 1)]
      check == IF O[type.end][1] \in {"VarName", "VarListEnd"}
               THEN [end |-> type.end, err |-> FALSE, how |-> "none"]
               ELSE DefaultCheck(Preamble, type.end, TypeAt(Preamble, i + 1))
      default == IF check.how = "none" THEN NoRange ELSE [first |-> type.end, end |-> check.end]
  IN
  /\ pc = "index" /\ O[i][1] # "VarListEnd"
  /\ i' = check.end
  /\ \/ check.how \in {"loops", "panic"} /\ pc' = check.how
        /\ UNCHANGED <<verdicts, varOrder, varsDecls>>
     \/ /\ check.how \notin {"loops", "panic"} /\ check.err
        /\ Fail("UnexpValType", name) /\ UNCHANGED <<varOrder, varsDecls>>
     \/ /\ check.how \notin {"loops", "panic"} /\ ~check.err
        /\ varOrder' = Append(varOrder, name)
        /\ varsDecls' = With(varsDecls, name,
             IF name \in DOMAIN varsDecls THEN [type |-> NoRange, default |-> NoRange]
             ELSE [type |-> type, default |-> default])
        /\ IF name \in DOMAIN varsDecls THEN Fail("VarRedeclared", name) ELSE UNCHANGED <<verdicts, pc>>
  /\ UNCHANGED <<request, index, scan, opr, k, json, varsConstructed, order, fragsConstructed, out>>

CheckJSON(j) ==
  /\ pc = "json" /\ json' = j
  /\ \/ j.kind = "invalid" /\ Fail("VarJSONSyntax", "")
     \/ j.kind = "notObject" /\ Fail("VarJSONNotObj", "")
     \/ j.kind \in {"none", "object"} /\ pc' = "values" /\ UNCHANGED verdicts
  /\ UNCHANGED <<request, index, scan, place, varOrder, varsDecls, varsConstructed, order, fragsConstructed, out>>

InJSON(v) == json.kind = "object" /\ v \in DOMAIN json.members

\* The value from JSON first, then the default value.  The ranges are used on
\* the buffer of the whole request.
ConstructVariable ==
  LET name == varOrder[k]
      decl == varsDecls[name]
      stack == TypeAt(buffer, decl.type.first)
      Take(value) == /\ varsConstructed' = Append(varsConstructed, <<name, value>>)
                     /\ k' = k + 1 /\ UNCHANGED <<verdicts, pc>>
  IN
  /\ pc = "values" /\ k <= Len(varOrder)
  /\ \/ /\ InJSON(name) /\ ~MisfitsType(0, json.members[name], stack)
        /\ Take(ValueOf(0, json.members[name], stack))
     \/ /\ InJSON(name) /\ MisfitsType(0, json.members[name], stack)
        /\ Fail("UnexpValType", name) /\ UNCHANGED <<varsConstructed, k>>
     \/ ~InJSON(name) /\ decl.default # NoRange /\ Take(Slice(buffer, decl.default))
     \/ /\ ~InJSON(name) /\ decl.default = NoRange
        /\ Fail("VarUndefined", name) /\ UNCHANGED <<varsConstructed, k>>
  /\ UNCHANGED <<request, index, scan, opr, i, json, varOrder, varsDecls, order, fragsConstructed, out>>

EndOfValues ==
  /\ pc = "values" /\ k > Len(varOrder) /\ pc' = "inspect"
  /\ UNCHANGED <<request, index, scan, place, variables, order, fragsConstructed, out, verdicts>>

-----------------------------------------------------------------------------
(* The fragments.                                                          *)

Inspector == INSTANCE DependencyOrder WITH
  Names <- {}, Limit <- MaxFragments, uses <- fragmentGraphEdges,
  answer <- pc, order <- ordered, path <- path

Nodes == Inspector!Fragments
Orders == {o \in [1..Cardinality(Nodes) -> Nodes] : Inspector!InOrder(o)}
Cycles == {p \in UNION {[1..n -> Nodes] : n \in 2..Cardinality(Nodes)+1} : Inspector!IsCycle(p)}

\* The inspector hands out an order, a cycle, or, at its limit, nothing: the
\* caller tells a cycle by its path, and does not look at the limit.
Inspect_KeepsPath ==
  /\ pc = "inspect"
  /\ \/ Inspector!TooMany(Nodes) /\ UNCHANGED <<ordered, path>>
     \/ ~Inspector!TooMany(Nodes) /\ ordered' \in Orders /\ UNCHANGED path
     \/ ~Inspector!TooMany(Nodes) /\ Orders = {} /\ path' \in Cycles /\ UNCHANGED ordered
  /\ IF path' # <<>> THEN Fail("FragRecurse", path') ELSE pc' = "nested" /\ UNCHANGED verdicts
  /\ k' = 1
  /\ UNCHANGED <<request, index, scan, opr, i, variables, todo, isErr, fragsConstructed, out>>

Inspect ==
  /\ pc = "inspect"
  /\ \/ Inspector!TooMany(Nodes) /\ path' = <<>> /\ UNCHANGED ordered
     \/ ~Inspector!TooMany(Nodes) /\ ordered' \in Orders /\ path' = <<>>
     \/ ~Inspector!TooMany(Nodes) /\ Orders = {} /\ path' \in Cycles /\ UNCHANGED ordered
  /\ IF path' # <<>> THEN Fail("FragRecurse", path') ELSE pc' = "nested" /\ UNCHANGED verdicts
  /\ k' = 1
  /\ UNCHANGED <<request, index, scan, opr, i, variables, todo, isErr, fragsConstructed, out>>

Contents(f) == Slice(buffer, [first |-> fragDefs[f].first + 3, end |-> fragDefs[f].end - 1])

Undeclared(tokens) == {x \in DOMAIN tokens : tokens[x][1] = "VarRef" /\ ValueIndex(tokens[x][2]) = -1}

Construct(tokens) ==
  FlattenSeq([x \in DOMAIN tokens |->
    CASE tokens[x][1] = "NamedSpread" -> IF Items(tokens[x][2]) = <<>> THEN <<>> ELSE Items(tokens[x][2])[1]
      [] tokens[x][1] = "VarRef" -> <<<<"VarIndex", ValueIndex(tokens[x][2])>>>>
      [] OTHER -> <<tokens[x]>>])

\* constructFrag: at an undeclared variable it gives up, and what it has
\* appended stays, to be cut with the next fragment.
ConstructsFrag(f) ==
  LET contents == Contents(f)
      bad == Undeclared(contents)
      done == IF bad = {} THEN contents
              ELSE SubSeq(contents, 1, (CHOOSE x \in bad : \A y \in bad : x <= y) - 1)
      data == fragsConstructed.pending \o Construct(done)
  IN
  /\ fragsConstructed' =
       [segments  |-> IF bad = {} THEN With(fragsConstructed.segments, f, data) ELSE fragsConstructed.segments,
        pending   |-> IF bad = {} THEN <<>> ELSE data,
        allocated |-> fragsConstructed.allocated \/ data # <<>>]
  /\ IF bad = {} THEN UNCHANGED verdicts
     ELSE Report("VarUndefined", contents[CHOOSE x \in bad : \A y \in bad : x <= y][2])

Use(f) == fragDefs' = [fragDefs EXCEPT ![f].used = TRUE]

\* A nested fragment, in the order of dependency.  When it cannot be
\* constructed that is reported, and the loop goes on.
ConstructNested ==
  /\ pc = "nested" /\ k <= Len(ordered)
  /\ ordered[k] \in DOMAIN fragDefs
  /\ Use(ordered[k]) /\ ConstructsFrag(ordered[k])
  /\ k' = k + 1
  /\ UNCHANGED <<request, buffer, operations, entryFrags, fragmentGraphEdges, scan, opr, i, variables, order, out, pc>>

NestedUndefined ==
  /\ pc = "nested" /\ k <= Len(ordered)
  /\ ordered[k] \notin DOMAIN fragDefs /\ Fail("FragUndefined", ordered[k])
  /\ UNCHANGED <<request, index, scan, place, variables, order, fragsConstructed, out>>

EndOfNested ==
  /\ pc = "nested" /\ k > Len(ordered) /\ pc' = "entry"
  /\ todo' = entryFrags
  /\ UNCHANGED <<request, index, scan, place, variables, ordered, path, isErr, fragsConstructed, out, verdicts>>

\* The visit of entryFrags, in the order of the map, goes on after errors.
VisitEntry(f) ==
  /\ pc = "entry" /\ f \in todo /\ todo' = todo \ {f}
  /\ \/ f \notin DOMAIN fragDefs /\ Report("FragUndefined", f) /\ UNCHANGED <<fragDefs, fragsConstructed>>
     \/ f \in DOMAIN fragDefs /\ Use(f) /\ Items(f) # <<>> /\ UNCHANGED <<fragsConstructed, verdicts>>
     \/ f \in DOMAIN fragDefs /\ Use(f) /\ Items(f) = <<>> /\ ConstructsFrag(f)
  /\ isErr' = (isErr \/ verdicts' # verdicts)
  /\ UNCHANGED <<request, buffer, operations, entryFrags, fragmentGraphEdges, scan, place, variables, ordered, path, out, pc>>

EndOfEntries_GoesOn ==
  /\ pc = "entry" /\ todo = {} /\ pc' = "varlist"
  /\ UNCHANGED <<request, index, scan, place, variables, order, fragsConstructed, out, verdicts>>

EndOfEntries ==
  /\ pc = "entry" /\ todo = {}
  /\ pc' = IF isErr THEN "returned" ELSE "varlist"
  /\ UNCHANGED <<request, index, scan, place, variables, order, fragsConstructed, out, verdicts>>

-----------------------------------------------------------------------------
(* The answer.                                                             *)

DeclareVariables ==
  /\ pc = "varlist" /\ pc' = "fill"
  /\ LET Declared(name) ==
           <<<<"VarName", name>>>> \o Slice(buffer, varsDecls[name].type)
             \o varsConstructed[ValueIndex(name) + 1][2]
         list == IF varOrder = <<>> THEN <<>>
                 ELSE <<<<"VarList", "">>>>
                        \o FlattenSeq([x \in DOMAIN varOrder |-> Declared(varOrder[x])])
                        \o <<<<"VarListEnd", "">>>>
     IN bufferOpr' = bufferOpr \o list
  /\ selectionSetIndex' = Len(bufferOpr')
  /\ UNCHANGED <<request, index, scan, place, variables, order, fragsConstructed, verdicts>>

Fill ==
  /\ pc = "fill" /\ i <= Len(O)
  /\ i' = i + 1
  /\ UNCHANGED <<request, buffer, operations, entryFrags, fragmentGraphEdges, scan, opr, k, variables, order, fragsConstructed, selectionSetIndex>>

FillOther ==
  /\ Fill /\ O[i][1] \notin {"NamedSpread", "VarRef"}
  /\ bufferOpr' = Append(bufferOpr, O[i])
  /\ UNCHANGED <<fragDefs, verdicts, pc>>

FillSpread ==
  LET f == O[i][2]
      raw == IF f \in DOMAIN fragDefs THEN Contents(f) ELSE <<>>
  IN
  /\ Fill /\ O[i][1] = "NamedSpread"
  /\ bufferOpr' = bufferOpr \o (IF Items(f) = <<>> THEN raw ELSE Items(f)[1])
  /\ IF f \in DOMAIN fragDefs THEN Use(f) ELSE UNCHANGED fragDefs
  /\ UNCHANGED <<verdicts, pc>>

FillReference ==
  LET v == O[i][2] IN
  /\ Fill /\ O[i][1] = "VarRef"
  /\ IF ValueIndex(v) = -1 THEN Fail("VarUndeclared", v) /\ UNCHANGED bufferOpr
     ELSE bufferOpr' = Append(bufferOpr, <<"VarIndex", ValueIndex(v)>>) /\ UNCHANGED <<verdicts, pc>>
  /\ UNCHANGED fragDefs

\* Any fragment that was not used, as the map has them.
Unused ==
  /\ pc = "fill" /\ i > Len(O)
  /\ \E f \in DOMAIN fragDefs : ~fragDefs[f].used /\ Fail("FragUnused", f)
  /\ UNCHANGED <<request, index, scan, place, variables, order, fragsConstructed, out>>

Success ==
  /\ pc = "fill" /\ i > Len(O)
  /\ \A f \in DOMAIN fragDefs : fragDefs[f].used
  /\ Report("success", "") /\ pc' = "returned"
  /\ UNCHANGED <<request, index, scan, place, variables, order, fragsConstructed, out>>

\* The loop over a default value that never ends (745-820).
Stuck == pc = "loops" /\ UNCHANGED vars

Scan ==
  \/ ReadDefinition \/ ReadUntypedInline \/ ReadSet \/ DropSetEnd \/ ReadSetEnd
  \/ ReadSpread \/ ReadFragment \/ RefuseFragment \/ ReadOther
  \/ SyntaxError \/ EndOfScan

Construction ==
  \/ Inspect \/ ConstructNested \/ NestedUndefined \/ EndOfNested
  \/ (\E f \in todo : VisitEntry(f)) \/ EndOfEntries

Answer ==
  \/ DeclareVariables \/ FillOther \/ FillSpread \/ FillReference \/ Unused \/ Success

Next ==
  \/ Call \/ (\E doc \in Documents : Receive(doc))
  \/ Scan
  \/ (\E name \in OperationNames : SelectOperation(name))
  \/ InitOperation \/ IndexVariable \/ EndOfVariables
  \/ (\E j \in VarsJSON : CheckJSON(j)) \/ ConstructVariable \/ EndOfValues
  \/ Construction \/ Answer \/ Stuck

Spec == Init /\ [][Next]_vars

-----------------------------------------------------------------------------
(* Properties of every call.  Those that compare the answer with the       *)
(* request are in ParserAnswers.                                           *)

Returned == pc = "returned"
Succeeded == Returned /\ verdicts[Len(verdicts)][1] = "success"

\* Places are in the buffers they are used on, and when the scan is over every
\* definition has its end, although counters of stacks tell it (234-261).
RangesAreInBuffer ==
  /\ \A x \in DOMAIN operations : operations[x].first \in 1..Len(buffer) /\ operations[x].end <= Len(buffer) + 1
  /\ \A f \in DOMAIN fragDefs : fragDefs[f].first \in 1..Len(buffer) /\ fragDefs[f].end <= Len(buffer) + 1
  /\ pc \notin {"idle", "called", "scan", "returned"} =>
       /\ \A x \in DOMAIN operations : operations[x].first < operations[x].end
       /\ \A f \in DOMAIN fragDefs : fragDefs[f].first + 3 < fragDefs[f].end
  /\ \A v \in DOMAIN varsDecls : varsDecls[v].type.end <= Len(O) /\ varsDecls[v].default.end <= Len(O)
  /\ opr # NoRange => i <= Len(O) + 1

\* A call answers once: with an error or with an operation.  Excepted are
\* errors in nested fragments, which do not end the call (453), and several
\* fragments of operations that are undefined or fail (463).
AnswersOnce ==
  Returned =>
    \/ Len(verdicts) = 1
    \/ /\ Len(verdicts) > 1
       /\ \A x \in 1..Len(verdicts)-1 : verdicts[x][1] \in {"VarUndefined", "FragUndefined"}
       /\ Succeeded => \A x \in 1..Len(verdicts)-1 : verdicts[x][1] = "VarUndefined" /\ ordered # <<>>
=============================================================================
