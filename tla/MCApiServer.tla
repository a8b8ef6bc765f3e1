---------------------------- MODULE MCApiServer ----------------------------
(***************************************************************************)
(* Directories and requests for TLC.                                       *)
(***************************************************************************)
EXTENDS ApiServer

File1(name, id, contents) == [name |-> name, id |-> id, kind |-> "ok", contents |-> contents]
Kind(file, kind) == [file EXCEPT !.kind = kind]

T(n) == File1(n, n, n)
A == File1("A.gqt", "a", "t1")       \* the id is in lower case
B == File1("a.gqt", "a", "t2")
Skipped == Kind(T("README"), "skipped")

Unlisted == <<Kind(T("x"), "unreadable")>>

Contents1(path, all, enabled) == [path |-> path, all |-> all, enabled |-> enabled]
Plain == Contents1("/a", <<A, T("t3")>>, <<T("t3")>>)
Other == Contents1("/b", <<Skipped, T("t3")>>, <<Skipped, T("t3")>>)
SamePath == Contents1("/a", <<T("t3")>>, <<T("t3")>>)

S(id, contents) == File1(id, id, contents)
Disk(all, enabled) == [server |-> "ok", api |-> TRUE, all |-> all, enabled |-> enabled]

GoodDisk == Disk(<<S("a", Plain), S("b", Other)>>, <<S("a", Plain)>>)

SomeDisks ==
  { GoodDisk, [GoodDisk EXCEPT !.api = FALSE], [GoodDisk EXCEPT !.server = "illegal"],
    Disk(<<Kind(S("a", Plain), "skipped"), S("b", Other)>>, <<Skipped, S("x", Other)>>),
    Disk(<<S("a", Plain), S("b", Other)>>, <<S("a", Plain), S("b", Other), S("c", Other)>>),
    Disk(<<S("a", Plain), S("b", SamePath)>>, <<S("a", Plain), S("b", SamePath)>>),
    Disk(<<S("a", Plain), S("a", Other)>>, <<S("a", Plain), S("b", Other)>>),
    Disk(<<S("a", Plain), S("b", Plain)>>, <<S("a", Plain)>>),
    Disk(<<S("a", Plain)>>, <<S("a", Plain), S("b", Other)>>),
    Disk(<<S("a", Plain)>>, <<>>), Disk(<<S("", Plain)>>, <<S("a", Plain)>>),
    Disk(<<Kind(S("a", Plain), "illegal")>>, <<>>),
    Disk(<<S("a", Plain)>>, <<Kind(S("a", Plain), "unreadable")>>),
    Disk(Unlisted, <<S("a", Plain)>>), Disk(<<S("a", Plain)>>, Unlisted) }
  \cup { Disk(<<S("a", c)>>, <<S("a", c)>>) : c \in
         { Contents1("/a", <<A, B>>, <<B>>), Contents1("/a", <<A, B>>, <<A, T("t1")>>),
           Contents1("/a", <<A, B>>, <<A, T("t1"), B>>), Contents1("/a", <<A, T("t1")>>, <<A>>),
           Contents1("/a", <<A>>, <<B>>), Contents1("/a", <<A>>, <<>>),
           Contents1("/a", <<Kind(A, "illegal")>>, <<A>>), Contents1("/a", Unlisted, <<A>>),
           Contents1("/a", <<A>>, <<Kind(A, "unreadable")>>) } }

OneDisk == {GoodDisk}

Call(id, field, query) == [id |-> id, field |-> field, query |-> query]
Graph(calls) == [method |-> "POST", path |-> "/graph", auth |-> "right", calls |-> calls]
M(query) == Call("a", "match", query)

\* At most one call of the parser in each.
SomeLines ==
  { Graph(<<M("q1"), Call("b", "statistics", None)>>),
    Graph(<<M("q2"), Call("a", "statistics", None)>>),
    Graph(<<Call("a", "templatesEnabled", None), M("illegal")>>),
    Graph(<<Call("c", "match", "q1"), Call("b", "match", "q1"), Call("a", "templateStatistics", None)>>),
    Graph(<<M("endless"), Call("b", "statistics", None)>>),
    [Graph(<<>>) EXCEPT !.method = "GET"], [Graph(<<>>) EXCEPT !.path = "/"],
    [Graph(<<>>) EXCEPT !.auth = "none"], [Graph(<<>>) EXCEPT !.auth = "wrong"] }

\* { service(id: "a") { x: match(query: "q1") y: match(query: "q2") } }
TwoMatches == {Graph(<<M("q1"), M("q2")>>)}
=============================================================================
