------------------------------ MODULE RulesMap ------------------------------
(***************************************************************************)
(* RulesMap of engines/rmap: the templates of a service, indexed by the    *)
(* paths they mention.  FindMatch takes the parts of a query from its      *)
(* maker as they are handed out, collects the templates that admit them    *)
(* in mask, counts how many parts each admits, and how many items of each  *)
(* "combine" the query has, and drops the templates that fall short.       *)
(*                                                                         *)
(* Templates come from gqt, which is external.  A selection is a field     *)
(* with constraints on its arguments and selections, an inline fragment,   *)
(* or a combine.  A constraint has a name and a value: a scalar, an array  *)
(* or an object of constraints, or for Map the constraint of the elements. *)
(* A string is told by its length.  Masks are sets of places of templates. *)
(***************************************************************************)
EXTENDS PQuery, QueryParts

CONSTANT Services    \* sequences of templates

VARIABLES
  templates,      \* in the order of templateIDs
  rules, combinations,
  mask, rejected, matchCounter, combinationCounters, qpCount,
  at              \* place in the life of the map

map == <<templates, rules, combinations>>
matching == <<mask, rejected, matchCounter, combinationCounters, qpCount>>
allvars == <<vars, map, matching, at>>

With(f, x, y) == [z \in DOMAIN f \cup {x} |-> IF z = x THEN y ELSE f[z]]
First(S) == CHOOSE x \in S : \A y \in S : x <= y

RECURSIVE Read(_)
\* The value in the heap that a part refers to.
Read(v) ==
  IF v[1] # "lent" THEN [kind |-> v[1], val |-> v[2]]
  ELSE IF heap[v[2]].kind = "Arr"
       THEN [kind |-> "list", items |-> [x \in DOMAIN heap[v[2]].items |-> Read(heap[v[2]].items[x][2])]]
       ELSE [kind |-> "obj", items |-> [x \in DOMAIN heap[v[2]].items |-> <<heap[v[2]].items[x][1], Read(heap[v[2]].items[x][2])>>]]

-----------------------------------------------------------------------------
(* Building the map.                                                       *)

RECURSIVE SameElem(_, _)

\* Elem.Equal: fields of objects are compared by their keys, items of arrays
\* in their order.
SameElem(c, d) ==
  LET v == c.value  w == d.value
      Field(key) == CHOOSE n \in DOMAIN w.items : w.items[n].key = key
      HasField(key) == \E n \in DOMAIN w.items : w.items[n].key = key
  IN /\ c.name = d.name /\ v.kind = w.kind
     /\ CASE v.kind = "elem"  -> SameElem(v.el, w.el)
          [] v.kind = "array" -> /\ Len(v.items) = Len(w.items)
                                 /\ \A n \in DOMAIN v.items : SameElem(v.items[n], w.items[n])
          [] v.kind = "object" -> /\ Len(v.items) = Len(w.items)
                                  /\ \A n \in DOMAIN v.items :
                                       HasField(v.items[n].key) /\ SameElem(v.items[n], w.items[Field(v.items[n].key)])
          [] OTHER -> v = w

\* Same constraint, same value: the variants become one, of both templates.
\* A string that is merged with anything but a string panics (489).
mergeVariants(variants, x) ==
  LET Same(v) == SameElem([name |-> v.Constraint, value |-> v.Value],
                          [name |-> x.Constraint, value |-> x.Value])
      same == {n \in DOMAIN variants :
                 /\ variants[n].Constraint = x.Constraint
                 /\ \/ Same(variants[n])
                    \/ x.Value.kind = "Str" /\ variants[n].Value.kind \notin {"Str", "elem", "array"}}
  IN IF same = {} THEN Append(variants, x)
     ELSE LET n == First(same) IN
          [variants EXCEPT ![n].Mask = @ \cup x.Mask, ![n].Combinations = @ \o x.Combinations,
                           ![n].Panic = (@ \/ ~Same(variants[n]))]

NoValue == [kind |-> "Null", val |-> 0]

\* What a template says at a path, counted with the combine that was begun
\* last if it is inside of any.
AddVariant(rm, path, constraint, value, ruleIdx, depth) ==
  LET v == [Constraint |-> constraint, Value |-> value, Mask |-> {ruleIdx}, Panic |-> FALSE,
            Combinations |-> IF depth > 0
              THEN <<[Index |-> Len(rm.combinations), Depth |-> depth - 1, RuleIndex |-> ruleIdx]>> ELSE <<>>]
      before == IF path \in DOMAIN rm.rules THEN rm.rules[path] ELSE <<>>
  IN [rm EXCEPT !.rules = With(@, path, mergeVariants(before, v))]

RECURSIVE buildConstraints(_, _, _, _, _), buildSelections(_, _, _, _, _)

\* Objects are taken apart, as they are in queries.  That an object must not
\* be equal is lost: the flag that would say so (309) is not read.
buildConstraints(rm, constraints, path, ruleIdx, depth) ==
  FoldLeft(LAMBDA m, c :
             IF c.value.kind = "object"
             THEN buildConstraints(m, c.value.items, path \o <<".", c.key>>, ruleIdx, depth)
             ELSE AddVariant(m, path \o <<".", c.key>>, c.name, c.value, ruleIdx, depth),
           rm, constraints)

\* Behind a field with constraints and selections the depth of combines stays
\* 0 for the rest of the selections.
buildSelections(rm, selections, path, ruleIdx, depth) ==
  LET Build(acc, s) ==
        LET own == path \o <<".">> \o (IF s.sel = "FragInline" THEN <<"|">> ELSE <<>>) \o <<s.name>> IN
        CASE s.sel = "FragInline" ->
               [acc EXCEPT !.rm = buildSelections(@, s.set, own, ruleIdx, acc.depth)]
          [] s.sel = "combine" ->
               LET begun == [acc.rm EXCEPT !.combinations = Append(@, s.max)] IN
               [acc EXCEPT !.rm = buildSelections(begun, s.set, path, ruleIdx, acc.depth + 1)]
          [] s.sel = "Field" /\ s.args = <<>> /\ s.set = <<>> ->
               [acc EXCEPT !.rm = AddVariant(@, own, "None", NoValue, ruleIdx, acc.depth)]
          [] OTHER ->
               LET below == IF s.args # <<>> /\ s.set # <<>> THEN 0 ELSE acc.depth
                   constrained == buildConstraints(acc.rm, s.args, own, ruleIdx, acc.depth)
               IN [rm |-> buildSelections(constrained, s.set, own, ruleIdx, below), depth |-> below]
  IN FoldLeft(Build, [rm |-> rm, depth |-> depth], selections).rm

Built(ts) ==
  LET Add(rm, n) == buildSelections(rm, ts[n], <<"query">>, n, 0)
  IN FoldLeft(Add, [rules |-> <<>>, combinations |-> <<>>], [n \in DOMAIN ts |-> n])

Panics(rs) == \E path \in DOMAIN rs : \E n \in DOMAIN rs[path] : rs[path][n].Panic

MapInit ==
  /\ Init
  /\ templates = <<>> /\ rules = <<>> /\ combinations = <<>>
  /\ mask = {} /\ rejected = {} /\ matchCounter = <<>> /\ combinationCounters = <<>> /\ qpCount = 0
  /\ at = "new"

\* A template for a subscription: New panics (178).
Subscription == <<[sel |-> "subscription", name |-> "", args |-> <<>>, set |-> <<>>]>>

\* New, with the templates in the order in which Go's map has them.  It would
\* start anew after a collision of hashes (180-198), but does not come to that:
\* a hash is in hashedPaths only if it is in rules as well, and then the paths
\* are not compared (234-247, 328-336); the variants of both are merged.
NewMap(service) ==
  /\ at = "new"
  /\ \E ts \in {[n \in DOMAIN service |-> service[p[n]]] : p \in Permutations(DOMAIN service)} :
       /\ templates' = ts
       /\ rules' = Built(ts).rules
       /\ combinations' = Built(ts).combinations
       /\ combinationCounters' = [c \in DOMAIN combinations' |-> 0]
  /\ at' = IF Panics(rules') \/ Subscription \in ToSet(templates') THEN "panicked" ELSE "ready"
  /\ UNCHANGED <<vars, mask, rejected, matchCounter, qpCount>>

-----------------------------------------------------------------------------
(* Comparing a value with a constraint: "yes", "no" or "panic".            *)

Answer(b) == IF b THEN "yes" ELSE "no"
Not(r) == CASE r = "yes" -> "no" [] r = "no" -> "yes" [] OTHER -> r

\* Loops that return at the first answer that decides.
AnyOf(answers) ==
  LET hits == {n \in DOMAIN answers : answers[n] # "no"}
  IN IF hits = {} THEN "no" ELSE answers[First(hits)]
AllOf(answers) ==
  LET hits == {n \in DOMAIN answers : answers[n] # "yes"}
  IN IF hits = {} THEN "yes" ELSE answers[First(hits)]

Equal(a, b) ==
  IF b.kind = "Str" /\ a.kind # "Str" THEN "panic"
  ELSE Answer(a.kind = b.kind /\ a.kind \in {"Int", "Str", "Null"} /\ a.val = b.val)

Orders == {"ValGreater", "ValLess", "ValGreaterOrEqual", "ValLessOrEqual"}
Bytelens == {"BytelenEqual", "BytelenNotEqual", "BytelenGreater", "BytelenLess",
             "BytelenGreaterOrEqual", "BytelenLessOrEqual"}
Lens == {"LenEqual", "LenNotEqual", "LenGreater", "LenLess", "LenGreaterOrEqual", "LenLessOrEqual"}

Relates(constraint, x, y) ==
  CASE constraint \in {"BytelenEqual", "LenEqual"}       -> x = y
    [] constraint \in {"BytelenNotEqual", "LenNotEqual"} -> x # y
    [] constraint \in {"ValGreater", "BytelenGreater", "LenGreater"} -> x > y
    [] constraint \in {"ValLess", "BytelenLess", "LenLess"}          -> x < y
    [] constraint \in {"ValGreaterOrEqual", "BytelenGreaterOrEqual", "LenGreaterOrEqual"} -> x >= y
    [] constraint \in {"ValLessOrEqual", "BytelenLessOrEqual", "LenLessOrEqual"}          -> x <= y

CompareValues(constraint, a, b) ==
  CASE constraint \in {"None", "Any"} -> "yes"
    [] constraint = "ValEqual"       -> Equal(a, b)
    [] constraint = "ValNotEqual"    -> Not(Equal(a, b))
    [] constraint \in Orders         -> Answer(a.kind = "Int" /\ b.kind = "Int" /\ Relates(constraint, b.val, a.val))
    [] constraint \in Bytelens       -> Answer(b.kind = "Str" /\ Relates(constraint, b.val, a.val))
    [] constraint \in Lens           -> Answer(b.kind = "list" /\ Relates(constraint, Len(b.items), a.val))

RECURSIVE CompareElem(_, _)

\* Array.Compare and Object.Compare.
CompareArray(items, x) ==
  IF Len(items) # Len(x) THEN "no"
  ELSE AllOf([n \in DOMAIN x |-> CompareElem(items[n], x[n])])

CompareObject(fields, x) ==
  LET Named(key) == {m \in DOMAIN fields : fields[m].key = key}
      CompareField(key, y) ==
        IF Named(key) = {} THEN "no" ELSE CompareElem(fields[CHOOSE m \in Named(key) : TRUE], y)
  IN IF Len(fields) # Len(x) THEN "no"
     ELSE AllOf([n \in DOMAIN x |-> CompareField(x[n][1], x[n][2])])

\* The parts that Elem.Compare and Variant.Compare have in common.
CompareCommon(c, x) ==
  LET answers == [n \in DOMAIN c.value.items |-> CompareElem(c.value.items[n], x)]
      Negated(r) == IF c.name = "ValNotEqual" THEN Not(r) ELSE r
  IN CASE c.name = "Or" -> AnyOf(answers)
       [] c.name = "And" -> AllOf(answers)
       [] c.name \notin {"Or", "And"} /\ c.value.kind = "array" ->
            IF x.kind = "list" THEN Negated(CompareArray(c.value.items, x.items)) ELSE "no"
       [] c.name \notin {"Or", "And"} /\ c.value.kind = "object" ->
            IF x.kind = "obj" THEN Negated(CompareObject(c.value.items, x.items)) ELSE "no"
       [] OTHER -> CompareValues(c.name, c.value, x)

\* A Map inside of a value looks at the first element only, and wants one.
CompareElem(c, x) ==
  IF c.name = "Map"
  THEN IF x.kind = "list" /\ x.items # <<>> THEN CompareElem(c.value.el, x.items[1]) ELSE "no"
  ELSE CompareCommon(c, x)

\* Variant.Compare: a Map looks at every element.
Compare(v, x) ==
  IF v.Constraint = "Map"
  THEN IF x.kind = "list"
       THEN AllOf([n \in DOMAIN x.items |-> CompareElem(v.Value.el, x.items[n])]) ELSE "no"
  ELSE CompareCommon([name |-> v.Constraint, value |-> v.Value], x)

-----------------------------------------------------------------------------
(* FindMatch.                                                              *)

FindMatch_KeepsCounters(q) ==
  /\ at \in {"ready", "matched", "recovered"} /\ at' = "matching"
  /\ ParseQuery(q)
  /\ qpCount' = 0 /\ matchCounter' = <<>> /\ mask' = {} /\ rejected' = {}
  /\ UNCHANGED <<map, combinationCounters>>

FindMatch(q) ==
  /\ at \in {"ready", "matched", "recovered"} /\ at' = "matching"
  /\ ParseQuery(q)
  /\ qpCount' = 0 /\ matchCounter' = <<>> /\ mask' = {} /\ rejected' = {}
  /\ combinationCounters' = [c \in DOMAIN combinationCounters |-> 0]
  /\ UNCHANGED map

\* An item of a combine counts there, and if it is the first one there, in the
\* combines around it.
CountItem(acc, c) ==
  LET depth == IF acc.counters[c.Index] = 0 THEN c.Depth ELSE acc.depth
      counted == (c.Index - depth)..c.Index
      counters == [x \in DOMAIN acc.counters |-> IF x \in counted THEN acc.counters[x] + 1 ELSE acc.counters[x]]
  IN [counters |-> counters, depth |-> depth,
      rejected |-> acc.rejected \cup {c.RuleIndex : x \in {y \in counted : combinations[y] < counters[y]}}]

\* Of several values in the arguments of one field only the first counts.
CountItems(acc, v, part) ==
  IF part.leaf >= 1 THEN acc
  ELSE LET counted == FoldLeft(CountItem, [counters |-> acc.counters, depth |-> 0, rejected |-> acc.rejected], v.Combinations)
       IN [acc EXCEPT !.counters = counted.counters, !.rejected = counted.rejected]

\* A variant of the path, compared with the value.
TakeVariant(acc, v, part) ==
  LET r == Compare(v, Read(part.value))
      counted == CountItems(acc, v, part)
  IN CASE acc.panic -> acc
       [] ~acc.panic /\ r = "panic" -> [counted EXCEPT !.panic = TRUE]
       [] ~acc.panic /\ r = "no" -> counted
       [] ~acc.panic /\ r = "yes" ->
            [counted EXCEPT !.match = TRUE, !.mask = @ \cup v.Mask,
               !.matched = [t \in DOMAIN @ \cup v.Mask |->
                 (IF t \in DOMAIN acc.matched THEN acc.matched[t] ELSE 0) + (IF t \in v.Mask THEN 1 ELSE 0)]]

\* The callback of ParseQuery.  The callers of FindMatch recover from a panic
\* (proxy.go:157, and gqlgen in the resolvers), and use the map again.
TakePart(part) ==
  LET known == part.path \in DOMAIN rules
      start == [match |-> FALSE, panic |-> FALSE, mask |-> mask, matched |-> matchCounter,
                counters |-> combinationCounters, rejected |-> rejected]
      Take1(acc, v) == TakeVariant(acc, v, part)
      after == IF known THEN FoldLeft(Take1, start, rules[part.path]) ELSE start
      stop == ~known \/ ~after.match
  IN /\ qpCount' = qpCount + 1
     /\ mask' = IF stop THEN {} ELSE after.mask
     /\ matchCounter' = after.matched /\ combinationCounters' = after.counters /\ rejected' = after.rejected
     /\ at' = IF after.panic THEN "recovered" ELSE at
     /\ pc' = IF stop \/ after.panic THEN "stopped" ELSE "parse"

\* A step of the maker; when it hands out a part, that is taken at once.
MakerStep ==
  /\ at = "matching"
  /\ \/ BeginField \/ BeginArguments \/ BeginSet
     \/ BeginArgument \/ BeginArray \/ BeginObject \/ Scalar \/ BlockString
     \/ EndPath \/ EndArguments \/ EndSet \/ EndOfNothing \/ EndValue
     \/ GiveBack \/ EndOfQuery
  /\ IF parts' # parts THEN TakePart(Last(parts')) ELSE UNCHANGED <<matching, at>>
  /\ UNCHANGED map

\* Templates that admit some parts, but not as many as there are, are dropped.
FinishMatch ==
  /\ at = "matching" /\ pc \in {"ended", "stopped"} /\ at' = "matched"
  /\ rejected' = rejected \cup {t \in DOMAIN matchCounter : matchCounter[t] < qpCount}
  /\ mask' = mask \ rejected'
  /\ UNCHANGED <<vars, map, matchCounter, combinationCounters, qpCount>>

\* A panic in New ends the process.
Panicked == at = "panicked" /\ UNCHANGED allvars

MapNext ==
  \/ \E service \in Services : NewMap(service)
  \/ \E q \in Queries : FindMatch(q)
  \/ MakerStep \/ FinishMatch \/ Panicked

MapSpec == MapInit /\ [][MapNext]_allvars

-----------------------------------------------------------------------------
(* What templates admit.                                                   *)

RECURSIVE PlacesOfConstraints(_, _), Places(_, _), Satisfies(_, _), Mentions(_)

\* The paths that a template mentions, each with its constraint.
PlacesOfConstraints(path, cs) ==
  UNION {IF cs[n].value.kind = "object" THEN PlacesOfConstraints(path \o <<".", cs[n].key>>, cs[n].value.items)
         ELSE {[path |-> path \o <<".", cs[n].key>>, constraint |-> cs[n]]} : n \in DOMAIN cs}

Places(path, set) ==
  UNION {LET s == set[n]
             own == path \o <<".">> \o (IF s.sel = "FragInline" THEN <<"|">> ELSE <<>>) \o <<s.name>>
         IN CASE s.sel = "combine" -> Places(path, s.set)
              [] s.sel # "combine" /\ s.args = <<>> /\ s.set = <<>> ->
                   {[path |-> own, constraint |-> [name |-> "None", key |-> "", value |-> NoValue]]}
              [] OTHER -> PlacesOfConstraints(own, s.args) \cup Places(own, s.set)
         : n \in DOMAIN set}

Satisfies(x, c) ==
  LET Same(a) == a.kind = x.kind /\ a.val = x.val
  IN CASE c.name \in {"None", "Any"} -> TRUE
       [] c.name = "Or"  -> \E n \in DOMAIN c.value.items : Satisfies(x, c.value.items[n])
       [] c.name = "And" -> \A n \in DOMAIN c.value.items : Satisfies(x, c.value.items[n])
       [] c.name = "Map" -> x.kind = "list" /\ \A n \in DOMAIN x.items : Satisfies(x.items[n], c.value.el)
       [] c.name \in Orders   -> x.kind = "Int" /\ c.value.kind = "Int" /\ Relates(c.name, x.val, c.value.val)
       [] c.name \in Bytelens -> x.kind = "Str" /\ Relates(c.name, x.val, c.value.val)
       [] c.name \in Lens     -> x.kind = "list" /\ Relates(c.name, Len(x.items), c.value.val)
       [] c.name \in {"ValEqual", "ValNotEqual"} ->
            LET equal == CASE c.value.kind = "array" ->
                                x.kind = "list" /\ Len(x.items) = Len(c.value.items)
                                /\ \A n \in DOMAIN x.items : Satisfies(x.items[n], c.value.items[n])
                           [] c.value.kind = "object" ->
                                x.kind = "obj" /\ Len(x.items) = Len(c.value.items)
                                /\ \A n \in DOMAIN x.items : \E m \in DOMAIN c.value.items :
                                     c.value.items[m].key = x.items[n][1] /\ Satisfies(x.items[n][2], c.value.items[m])
                           [] OTHER -> x.kind \in {"Int", "Str", "Null"} /\ Same(c.value)
                comparable == CASE c.value.kind = "array" -> x.kind = "list"
                                [] c.value.kind = "object" -> x.kind = "obj"
                                [] OTHER -> TRUE
            IN comparable /\ equal = (c.name = "ValEqual")

TemplatePlaces(t) == Places(<<"query">>, t)

Admits(t, part) == \E p \in TemplatePlaces(t) : p.path = part.path /\ Satisfies(part.value, p.constraint)

Combines(set) == {n \in DOMAIN set : set[n].sel = "combine"}

\* The combines of a template are at its top, and have plain fields, with or
\* without arguments.  What is counted in others is said in the README.
SimpleCombines(t) ==
  /\ \A n \in Combines(t) : \A m \in DOMAIN t[n].set : t[n].set[m].sel = "Field" /\ t[n].set[m].set = <<>>
  /\ \A n \in DOMAIN t \ Combines(t) : ~Mentions(t[n].set)

\* There is a combine somewhere in a set.
Mentions(set) == \E n \in DOMAIN set : set[n].sel = "combine" \/ Mentions(set[n].set)

WithinCombines(t, ps) ==
  \A n \in Combines(t) :
    Cardinality({m \in DOMAIN t[n].set :
      \E x \in DOMAIN ps : \E p \in Places(<<"query">>, <<t[n].set[m]>>) : p.path = ps[x].path}) <= t[n].max

\* A template that has several constraints for one path is counted once for
\* each that admits a value (633).
MentionsTwice(t) == \E p, q \in TemplatePlaces(t) : p # q /\ p.path = q.path

\* Objects that must not be equal are taken for objects that must be, and a
\* Map in an array looks at one element.
RECURSIVE Misread(_, _)
Misread(c, inside) ==
  \/ c.name = "ValNotEqual" /\ c.value.kind = "object" /\ ~inside
  \/ c.name = "Map" /\ (inside \/ Misread(c.value.el, TRUE))
  \/ c.value.kind \in {"array", "object"} /\ \E n \in DOMAIN c.value.items : Misread(c.value.items[n], inside \/ c.value.kind = "array")

RECURSIVE MisreadIn(_)
MisreadIn(set) ==
  \E n \in DOMAIN set : MisreadIn(set[n].set) \/ (set[n].sel # "combine" /\ \E m \in DOMAIN set[n].args : Misread(set[n].args[m], FALSE))

\* The maker passes over block strings (143, 317): it hands out nothing for such
\* an argument but, at the next end, its path without a value, drops the items of
\* arrays that are block strings, and takes names that follow for longer paths.
HasBlockString == \E x \in DOMAIN selectionSet : selectionSet[x][1] = "StrBlock"

HasLastTypename(q) == \E x \in DOMAIN PartsOf(q) : TypenameOf(PartsOf(q)[x])

\* A query matches exactly the templates that admit each of its parts and have
\* no combine of which the query has too many items: nothing is left of earlier
\* queries, of templates that were merged with others, or of a visit that was
\* stopped.  Excepted are the templates above, and queries for __typename or with
\* block strings.
MatchIsRight ==
  at = "matched" /\ ~HasLastTypename(query) /\ ~HasBlockString =>
    LET ps == PartsOf(query) IN
    \A t \in DOMAIN templates :
      (SimpleCombines(templates[t]) /\ ~MentionsTwice(templates[t]) /\ ~MisreadIn(templates[t])) =>
        (t \in mask <=> (\A x \in DOMAIN ps : Admits(templates[t], ps[x])) /\ WithinCombines(templates[t], ps))

-----------------------------------------------------------------------------
(* The maker's parts.                                                       *)

\* The parts handed out so far are the first parts of the query, with their
\* values, whatever earlier calls have left in the buffers, those for queries
\* with block strings included; when the call ends without a stop they are all of
\* them, and nothing is left on the stacks.  Queries with block strings are
\* excepted: their parts are others (HasBlockString).
PartsAreOfTheQuery ==
  LET Plain(s) == SelectSeq(s, LAMBDA p : ~TypenameOf(p))
      wanted == Plain(PartsOf(query))
      got == Plain(parts)
  IN ~HasBlockString =>
     /\ pc \in {"parse", "stopped"} =>
          /\ Len(got) <= Len(wanted)
          /\ \A x \in DOMAIN got : got[x].path = wanted[x].path /\ Read(got[x].value) = wanted[x].value
          /\ pos > Len(selectionSet) => Len(got) = Len(wanted)
     /\ pc = "ended" => stacks = <<<<>>, <<>>>>
=============================================================================
