----------------------------- MODULE ApiServer -----------------------------
(***************************************************************************)
(* The API server (server/api.go and the resolvers in api/graph) behind a  *)
(* configuration that was read: NewProxy makes the tables of the proxy,    *)
(* makeServices what the API shows of them, and requests are served.       *)
(*                                                                         *)
(* net/http has a goroutine for each request; handleGraph holds a mutex    *)
(* while one is executed.  gqlgen resolves the fields of a query that have *)
(* resolvers concurrently: here these are the calls of a request, each of  *)
(* a field of a service.  All share one parser, and those of a service its *)
(* matcher.  Of the buffers of the parser and of a matcher the model has   *)
(* the queries whose tokens are in there.                                  *)
(***************************************************************************)
EXTENDS Config

CONSTANTS
  Requests,   \* requests that may be sent
  Lines,      \* what may be sent: [method, path, auth, calls]
  Refused,    \* queries that the parser refuses
  Endless,    \* queries on which the parser does not end
  Password,   \* whether the server was given a user name and a password
  None

Fields == {"match", "statistics", "templateStatistics", "templatesEnabled"}

ASSUME RequestsAssumption ==
  /\ Endless \cap Refused = {}
  /\ None \notin Requests \cup Lines /\ None \notin {200, 401, 403, 404, 405}
  /\ \A l \in Lines : \A n \in DOMAIN l.calls : l.calls[n].field \in Fields

VARIABLES
  proxy,      \* services of the proxy by path
  shown,      \* model.Service by id
  line, status, lock,
  call,       \* call[r]: the calls of request r
  parser,     \* queries in the buffer of the parser
  matcher     \* by id of a service: queries that its matcher has visited

tables == <<proxy, shown>>
served == <<line, status, lock, call, parser, matcher>>
vars == <<pc, confvars, tables, served>>

Init ==
  /\ ConfigInit
  /\ proxy = <<>> /\ shown = <<>>
  /\ line = [r \in Requests |-> None] /\ status = [r \in Requests |-> None]
  /\ call = [r \in Requests |-> <<>>]
  /\ lock = None /\ parser = {} /\ matcher = <<>>

Read == ReadStep /\ UNCHANGED <<tables, served>>

-----------------------------------------------------------------------------
(* Start.                                                                  *)

\* Of enabled services with one path, the last one stays.
NewProxy ==
  /\ pc = "configured" /\ pc' = "proxy"
  /\ LET Templates(s) == {s.Templates[t].ID : t \in Range(s.TemplatesEnabled)}
         Add(m, c) == Set(m, conf.Services[c].Path,
                          [id |-> conf.Services[c].id, templates |-> Templates(conf.Services[c])])
     IN proxy' = FoldLeft(Add, <<>>, conf.ServicesEnabled)
  /\ UNCHANGED <<confvars, shown, served>>

GetServiceStatistics_ByKey(id) ==
  IF id \in DOMAIN proxy THEN {id} ELSE {None}

\* Statistics are told by the path of the service in the proxy; in Go's map
\* any of those with the id may come first.
GetServiceStatistics(id) ==
  LET paths == {p \in DOMAIN proxy : proxy[p].id = id}
  IN IF paths = {} THEN {None} ELSE paths

\* Here the id of the service is used where its path is the key.
GetTemplateStatistics(serviceID, templateID) ==
  IF serviceID \in DOMAIN proxy /\ templateID \in proxy[serviceID].templates THEN serviceID ELSE None

\* From ids back to the templates or services that have them: of several with
\* one id, any may be visited last.
ByID(ids) ==
  {f \in [Range(ids) -> DOMAIN ids] : \A id \in DOMAIN f : ids[f[id]] = id}

\* The lists are made with a length, and then appended to.
makeService(c) ==
  LET s == conf.Services[c]
      ids == [t \in DOMAIN s.Templates |-> s.Templates[t].ID]
  IN [contents : {c}, Enabled : {s.Enabled}, Stats : GetServiceStatistics(s.id),
      TemplatesByID : ByID(ids),
      TemplateStats : {[id \in Range(ids) |-> GetTemplateStatistics(s.id, id)]},
      TemplatesEnabled : {[n \in 1..Len(s.TemplatesEnabled) |-> None] \o SetToSeq(DOMAIN s.Templates)}]

\* The length of the list of disabled templates.
DisabledLength(c) ==
  Cardinality(DOMAIN conf.Services[c].Templates) - Len(conf.Services[c].TemplatesEnabled)

\* Negative when a template is enabled under two names; that panics.
makeServices ==
  /\ pc = "proxy"
  /\ LET ids == [c \in DOMAIN conf.Services |-> conf.Services[c].id] IN
     \/ /\ ~conf.api /\ pc' = "no API"
        /\ UNCHANGED <<shown, matcher>>
     \/ /\ conf.api /\ \E c \in DOMAIN conf.Services : DisabledLength(c) < 0
        /\ pc' = "panicked"
        /\ UNCHANGED <<shown, matcher>>
     \/ /\ conf.api /\ \A c \in DOMAIN conf.Services : DisabledLength(c) >= 0
        /\ pc' = "serving"
        /\ \E f \in ByID(ids) :
             /\ shown' \in {g \in [DOMAIN f -> UNION {makeService(c) : c \in DOMAIN conf.Services}] :
                              \A id \in DOMAIN f : g[id].contents = f[id]}
             /\ matcher' = [id \in DOMAIN f |-> {}]
  /\ UNCHANGED <<confvars, proxy, line, status, lock, call, parser>>

-----------------------------------------------------------------------------
(* Requests.                                                               *)

Arrive(r) ==
  /\ pc = "serving" /\ line[r] = None
  /\ \E l \in Lines : line' = [line EXCEPT ![r] = l]
  /\ UNCHANGED <<pc, confvars, tables, status, lock, call, parser, matcher>>

Waits(r) == line[r] # None /\ status[r] = None

Respond(r, code) == status' = [status EXCEPT ![r] = code]

\* ServeHTTP, and makeBasicAuth.
Reject(r) ==
  /\ Waits(r)
  /\ \/ line[r].method # "POST" /\ Respond(r, 405)
     \/ line[r].method = "POST" /\ line[r].path # "/graph" /\ Respond(r, 404)
     \/ /\ line[r].method = "POST" /\ line[r].path = "/graph"
        /\ Password /\ line[r].auth = "none" /\ Respond(r, 401)
     \/ /\ line[r].method = "POST" /\ line[r].path = "/graph"
        /\ Password /\ line[r].auth = "wrong" /\ Respond(r, 403)
  /\ UNCHANGED <<pc, confvars, tables, line, lock, call, parser, matcher>>

Begin(r) ==
  call' = [call EXCEPT ![r] = [n \in DOMAIN line[r].calls |->
             [stage |-> "resolve", templates |-> {}, forwarded |-> {}]]]

\* Of a request that is not rejected.
ToGraph(r) ==
  line[r].method = "POST" /\ line[r].path = "/graph" /\ (Password => line[r].auth = "right")

Lock_NotTaken(r) ==
  /\ Waits(r) /\ call[r] = <<>>
  /\ ToGraph(r)
  /\ Begin(r) /\ lock' = lock
  /\ UNCHANGED <<pc, confvars, tables, line, status, parser, matcher>>

Lock(r) ==
  /\ Waits(r) /\ lock = None
  /\ ToGraph(r)
  /\ Begin(r) /\ lock' = r
  /\ UNCHANGED <<pc, confvars, tables, line, status, parser, matcher>>

Executing(r) == call[r] # <<>> /\ status[r] = None

Finish_LockStays(r) ==
  /\ Executing(r) /\ \A n \in DOMAIN call[r] : call[r][n].stage \in {"done", "error"}
  /\ Respond(r, 200)
  /\ lock' = IF \A n \in DOMAIN call[r] : call[r][n].stage = "done" THEN None ELSE lock
  /\ UNCHANGED <<pc, confvars, tables, line, call, parser, matcher>>

\* All fields are there.
Finish(r) ==
  /\ Executing(r) /\ \A n \in DOMAIN call[r] : call[r][n].stage \in {"done", "error"}
  /\ Respond(r, 200)
  /\ lock' = None
  /\ UNCHANGED <<pc, confvars, tables, line, call, parser, matcher>>

-----------------------------------------------------------------------------
(* Resolvers: the n-th call of request r.                                  *)

At(r, n, stage) == Executing(r) /\ call[r][n].stage = stage
Asked(r, n) == line[r].calls[n]
Goes(r, n, stage) == call' = [call EXCEPT ![r][n].stage = stage]
Silent == UNCHANGED <<pc, confvars, tables, line, status, lock>>

\* An unknown service is null.
Resolve(r, n) ==
  /\ At(r, n, "resolve")
  /\ \/ Asked(r, n).id \notin DOMAIN shown /\ Goes(r, n, "done")
     \/ Asked(r, n).id \in DOMAIN shown /\ Goes(r, n, Asked(r, n).field)
  /\ Silent /\ UNCHANGED <<parser, matcher>>

\* Without statistics the resolver panics; gqlgen makes that an error.
Statistics(r, n) ==
  /\ At(r, n, "statistics")
  /\ Goes(r, n, IF shown[Asked(r, n).id].Stats = None THEN "error" ELSE "done")
  /\ Silent /\ UNCHANGED <<parser, matcher>>

\* The same for the statistics of the templates of a service.
TemplateStatistics(r, n) ==
  /\ At(r, n, "templateStatistics")
  /\ Goes(r, n, IF None \in Range(shown[Asked(r, n).id].TemplateStats) THEN "error" ELSE "done")
  /\ Silent /\ UNCHANGED <<parser, matcher>>

\* Templates are never null, in the schema.
TemplatesEnabled(r, n) ==
  /\ At(r, n, "templatesEnabled")
  /\ Goes(r, n, IF None \in Range(shown[Asked(r, n).id].TemplatesEnabled) THEN "error" ELSE "done")
  /\ Silent /\ UNCHANGED <<parser, matcher>>

\* Match and MatchAll: Parse begins with an empty buffer,
ResetParser(r, n) ==
  /\ At(r, n, "match") /\ Goes(r, n, "parse")
  /\ parser' = {}
  /\ Silent /\ UNCHANGED matcher

\* and puts the tokens there; it accepts, refuses, or loops over them for ever;
Parsed(query) ==
  CASE query \in Endless -> "loops" [] query \in Refused -> "error" [] OTHER -> "find"

Parse(r, n) ==
  /\ At(r, n, "parse")
  /\ parser' = parser \cup {Asked(r, n).query}
  /\ Goes(r, n, Parsed(Asked(r, n).query))
  /\ Silent /\ UNCHANGED matcher

\* what is there now is what the matcher visits,
FindMatch(r, n) ==
  /\ At(r, n, "find") /\ Goes(r, n, "collect")
  /\ matcher' = [matcher EXCEPT ![Asked(r, n).id] = parser]
  /\ Silent /\ UNCHANGED parser

\* and what its mask tells then is what the resolver collects;
Collect(r, n) ==
  /\ At(r, n, "collect")
  /\ call' = [call EXCEPT ![r][n].stage = "write", ![r][n].templates = matcher[Asked(r, n).id]]
  /\ Silent /\ UNCHANGED <<parser, matcher>>

\* at last the operation is written from the buffer.
WriteForwarded(r, n) ==
  /\ At(r, n, "write")
  /\ call' = [call EXCEPT ![r][n].stage = "done", ![r][n].forwarded = parser]
  /\ Silent /\ UNCHANGED <<parser, matcher>>

Resolver(r, n) ==
  \/ Resolve(r, n) \/ Statistics(r, n) \/ TemplateStatistics(r, n) \/ TemplatesEnabled(r, n)
  \/ ResetParser(r, n) \/ Parse(r, n) \/ FindMatch(r, n) \/ Collect(r, n) \/ WriteForwarded(r, n)

Serve(r) == Reject(r) \/ Lock(r) \/ Finish(r) \/ \E n \in DOMAIN call[r] : Resolver(r, n)

Next ==
  \/ Read \/ NewProxy \/ makeServices
  \/ \E r \in Requests : Arrive(r) \/ Serve(r)

Spec == Init /\ [][Next]_vars

\* Goroutines go on, and each resolver is a goroutine.
FairSpec ==
  /\ Spec
  /\ \A r \in Requests :
       /\ WF_vars(Reject(r)) /\ WF_vars(Lock(r)) /\ WF_vars(Finish(r))
       /\ WF_vars(\E n \in DOMAIN call[r] : Resolver(r, n))

-----------------------------------------------------------------------------
\* What match and matchAll answer is about the query they were asked: the
\* templates, and the text that would be forwarded.
MatchIsOfTheQuery ==
  \A r \in Requests : \A n \in DOMAIN call[r] :
    LET mine == {line[r].calls[n].query} IN
    /\ call[r][n].templates # {} => call[r][n].templates = mine
    /\ call[r][n].forwarded # {} => call[r][n].forwarded = mine

\* The API shows the services of the configuration: each under its id, unless
\* another has that too, with its own templates; and with the statistics that
\* the proxy keeps for it if it is enabled, unless another service has taken
\* its path.
ServicesAreShown ==
  pc = "serving" =>
    LET services == conf.Services
        Alone(c) == \A d \in DOMAIN services : d # c => services[d].id # services[c].id
        Taken(c) == \E n \in DOMAIN conf.ServicesEnabled :
                      /\ conf.ServicesEnabled[n] # c
                      /\ services[conf.ServicesEnabled[n]].Path = services[c].Path
    IN /\ DOMAIN shown = {services[c].id : c \in DOMAIN services}
       /\ \A c \in DOMAIN services : Alone(c) =>
            LET m == shown[services[c].id] IN
            /\ m.contents = c
            /\ \A id \in DOMAIN m.TemplatesByID : services[c].Templates[m.TemplatesByID[id]].ID = id
            /\ DOMAIN m.TemplatesByID = {services[c].Templates[t].ID : t \in DOMAIN services[c].Templates}
            /\ ~Taken(c) => m.Stats = (IF c \in Range(conf.ServicesEnabled) THEN services[c].Path ELSE None)

\* A request in which the parser has met a query that it does not end on: an
\* enumeration in an array that is a default value (gqlparse.go:745-820).
NeverEnds(r) == \E n \in DOMAIN call[r] : call[r][n].stage = "loops"

\* Every request is answered, whatever its resolvers and those of others meet:
\* the mutex is given back.  Only a call of the parser that does not end keeps
\* it, and then those that are rejected before it are answered still.
RequestsAreAnswered ==
  \A r \in Requests :
    line[r] # None ~> \/ status[r] # None
                      \/ Waits(r) /\ ToGraph(r) /\ \E q \in Requests : NeverEnds(q)
=============================================================================
