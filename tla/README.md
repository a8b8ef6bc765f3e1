# A verification project for ggproxy

ggproxy is a GraphQL firewall: it parses the queries it receives, matches them
against the templates of a service, forwards the ones that match, and refuses
the others. This directory holds TLA+ models of its parts, translated from the
Go source, the TLC configurations that check them on small instances, and
proofs of the main results for every value of the constants.

## 1. The system

| part | source | state it keeps | what it does, and what is hard about it |
|---|---|---|---|
| server process | `cmd/ggproxy/serve_unix.go`, `cmd_unix.go`, `register_stop_unix.go`, `stop_unix.go`, `read_config.go`, `main.go` | WaitGroup, channels `interrupt`, `explicitStop`, `stopTriggered`, `stopped`; PID file and command socket in `/tmp/ggproxy`, shared with every other launch | about ten goroutines per process, any number of launches and clients; files that outlive a crash; a stop that may come at any time |
| proxy server | `server/proxy.go` | services by path, a `sync.Pool` of matchers per service, per request a borrowed matcher | a goroutine per request; closures made in a loop; deferred calls and a recovered panic; a client without timeout |
| statistics | `statistics/statistics.go` | counters, maxima, running averages | atomic operations without a lock: an update is several of them |
| API server | `server/api.go`, `api/graph/*.go` | a copy of the configured services, one parser, one matcher per service | resolvers of one query run concurrently and share the parser and the matchers |
| query parser | `gqlparse/gqlparse.go`, `gqlparse/internal/graph/graph.go` | token buffer, operations, fragments, variables, an inspector of the fragment graph, all reused from call to call | long error paths; indices into a buffer that is rewritten; fragments in order of dependency, cycles |
| rules map | `engines/rmap/rmap.go`, `pquery/pquery.go` | variants by hash of a path, bit sets of templates, counters, pools of values | accumulators that must be reset; early ends of a visit; values that are given back to pools |
| containers | `utilities/container/*`, `aset`, `set`, `stack`, `segmented`, `mhstore`, `bitmask` | one data structure each | reuse after Reset, boundaries, hash collisions |
| configuration | `config/config.go`, `config/metadata` | services and templates by hash, lists of the enabled ones | duplicates, foreign files, optional sections |
| command line, licence | `cli/cli.go`, `lvs/lvs.go` | none | sequential |
| token writer, xxhash, decl, math, unsafe | `utilities/*` | none | pure functions |
| generated GraphQL server | `api/graph/generated` | per request the calls of its resolvers | generated by gqlgen; starts goroutines for fields and for elements of lists |

How they interact. `serve` reads the configuration, makes the proxy server and
the API server (which copies the configuration and reads the proxy's
statistics), starts the command server and then both servers, and waits for
them. The proxy's `handle` takes a matcher (parser and rules map) from the pool
of the service, calls `Parser.Parse` with two callbacks; the success callback
calls `RulesMap.Match`, forwards, and updates the statistics, all before
`Parse` returns, on buffers that belong to the matcher. `ggproxy stop` talks to
the command server over a Unix socket.

What makes each part correct:

- *process*: one instance serves at a time and stays reachable; a stop ends it
  and is answered only then; nothing is left behind by a graceful end.
- *proxy*: a matcher is with one request; none is lost; a request is forwarded
  only after a match by a template of its own service; the response, the
  destination and the counters tell the same story.
- *statistics*: no call is lost; what is shown was reported.
- *parser, rules map*: what a call answers depends on its input alone, never on
  the calls before it; buffers are in bounds.
- *containers*: each implements the set, map or sequence it stands for.
- *configuration*: it is accepted exactly if it is legal, and has what is in
  the directories.
- *API*: it shows that configuration; what a resolver answers is about the
  query it was asked.

## 2. Modules

| module | models | kind |
|---|---|---|
| `Lifecycle` | server processes on one host, command clients, signals, faults | component |
| `InstanceLock` | what the path of the command socket promises: a lock | abstract specification |
| `Statistics` | concurrent `Update`s of `ServiceSync` and `TemplateSync` | component |
| `Proxy` | `NewProxy` and `handle` with matcher pools, destination, counters | component; its `Update` is one step, `Statistics` examines the inside of it |
| `FragmentGraph` | `Inspector.Make`: the graph of fragment spreads and its depth-first visit | component |
| `DependencyOrder` | what the inspector promises the parser: an order, or a cycle | abstract specification |
| `VariableTypes` | types of variables, and the checks of default values and JSON values against them | operators |
| `Parser` | `Parser.Parse`: scan, selection of the operation, variables, fragments; one parser for many requests | component; `INSTANCE`s `FragmentGraph` for the size of the inspector, and takes its answer from `DependencyOrder`'s promise |
| `RequestTokens` | the tokens that the scanner makes of a document | operators, external |
| `ParserAnswers` | - : what the document asks for, against what `Parser` answers | properties |
| `PQuery` | `Maker.ParseQuery`: parts of a query, with values lent from pools | component |
| `QueryParts` | the tokens of an operation, and the parts that it has | operators |
| `RulesMap` | `New`, `FindMatch`, `Match` over the parts that `PQuery` hands out | composition of the two |
| `SortedSearch` | the binary searches and insertions into sorted slices | operators, shared by the next three |
| `ArraySet`, `ArrayMap`, `MaskHashStore` | `aset.Set`, `amap.Map`, `mhstore.MHStore` | components |
| `EnabledSet` | `set.Set`: an order with the enabled ones in front | component |
| `Mappers` | `hamap.Map` and `linear.Map` against `gomap` | components side by side |
| `SegmentedArray` | `segmented.Array` | component |
| `BitSet` | `bitmask.Set`, word by word | component |
| `Containers` | one of the containers at a time, with any calls | composition of the six |
| `Config` | `config.New` and `ReadConfig`: from directories to a configuration | component |
| `ApiServer` | `NewAPI`, `makeService`, `handleGraph`, the resolvers | composition with `Config` |
| `MCLifecycle`, `MCStatistics`, `MCProxy`, `MCFragmentGraph`, `MCEngine`, `MCQueries`, `MCParser`, `MCApiServer` | instances for TLC | model checking |
| `LifecycleProofs`, `StatisticsProofs`, `ProxyProofs`, `FragmentGraphProofs`, `ApiServerProofs`, `ParserProofs`, `EngineProofs` | theorems | proofs |
| `ContainerProofs` | what the proofs about the containers rest on: induction over numbers and measures, loops, sorted slices | lemmas, for `EngineProofs` |

**Lifecycle.** `main[p]` is the place of the main goroutine in `serve`; `cmd`,
`srv`, `shut`, `handler` are the places of the command server, of the two
`Serve` calls, of the two goroutines that call `Shutdown`, and of the
connection handlers. `createRuntimeDir` is three steps, because other processes
act between them: the PID file is read (`RefuseLaunch`, `PassCheck`), created
(`CreatePID`), written (`WritePID`). `linked` is needed because a process may
hold a handle to a file that another one has removed. A crash (panic, `Fatal`,
SIGKILL) ends all goroutines of a process and leaves its files. `net.Listen`,
fasthttp's and net/http's `Shutdown` are modelled by what the code relies on:
`Listen` fails on a path that exists, `Close` removes it; `Shutdown` before
`Serve` is remembered by net/http (`ServeAfterShutdown`) and not by fasthttp
(`CallShutdownEarly` leaves the later `Bind` enabled); `Serve` returns when its
listener is closed, `Shutdown` when requests are drained.

**Statistics.** One action per atomic operation of `Update`, `pc[u]` says which
is next. Comparison and store of a maximum are two actions, load and addition
of an average are two. `kind` selects the order of the operations. `overlapped`
is a history variable, used by properties only.

**Proxy.** One action per stretch of `handle` between two points where other
goroutines, the garbage collector or the destination matter. `engine[m]` is the
service whose templates are compiled into matcher `m`; `Init` has the warmed-up
matcher of each service; `GetNew` makes one from `LoopVariable`, because the
closure captures the variable of the loop (Go 1.18). What `Parse` and `Match`
answer is a choice among their outcomes, a repeated `onError` and a panic
included: both occur in the source (`gqlparse.go:456` goes on after an error;
`pquery.go:151` panics on a number out of range, and every panic value there is
an `error`, as the recover of `handle` needs). `Parse` may also never end
(`ParseLoops`, for `gqlparse.go:745-820`), before it has called anything; the
request then stays where it is, with its matcher. The deferred `Put` is `Return`,
and follows panics as well.

**FragmentGraph.** A call is `Begin` (the `reset` that clears the part of the
matrix the last call used), one `AddEdge` or `LimitExceeded` per edge,
`EndOfEdges` (the colours), and the visit: `EnterRoot`, `Descend`, `Cycle` and
`Leave` are the gotos of `Make`; a run of the inner loop over entries that are
false or lead to fragments that were left is part of the next of these
(`NextSpread`). `g` is the set of true entries, `from` the top of the stack.
The list of edges is not chosen in advance: each is chosen when the loop
reads it. All variables survive a call, as the fields of the inspector do; what
the callbacks collected is emptied by the parser (`gqlparse.go:165-178, 432`).
Only the parser calls `Make`, and one call ends before the next begins.

**Parser.** A call of `Parse` is `Call` and `Receive`, then one `Scan` per
token, `SelectOperation`, `IndexVariable` and `ConstructVariable` per variable,
`Construction` of the fragments, and `Answer`. A document is a sequence of
definitions and the operator `Tokens`, a constant of the module as the checks of
types are, is what `gqlscan` makes of it; the instance for TLC gives
`RequestTokens` and `VariableTypes` for these constants. The scan may find a
document cut off at any token. A range of tokens is its first place and the place behind it,
always in the slice that the code indexes: `O`, the operation's part of
`buffer`, or `buffer` itself. The order of the fragments, or the cycle that
prevents one, is any answer `DependencyOrder` allows; `FragmentGraph` shows
that the inspector gives one of these. `VariableTypes` has the stack of types and
the checks of literals and of JSON against it. The callbacks are the sequence
`verdicts`, because a call may report more than once. Everything survives a
call but the arguments; what `reset` clears is cleared in `Call`. The loop that
never ends (enumerations in default arrays, `gqlparse.go:745`) is `Stuck`, where
the behaviour stays. A panic is recovered by the callers (`proxy.go:157`, and
gqlgen in the resolvers), so that another `Call` may follow it.

**PQuery, RulesMap.** `PQuery` reads the tokens of an operation; a path is the
sequence of what is written to the hash, so that two paths are equal only if
they are (collisions are left out). One action per case of the loop over tokens,
and per turn of the inner loop of the ends (`EndPath` and the others by what is on
top). The value of a variable is read by a copy of that code with fewer cases; its
tokens stand where it is referred to, and its ends are marked (`ReadByCopy`,
`OfVariable`). Block strings have no case (`BlockString`). `heap` holds the contents of arrays and maps
by number, `arrayPool` and `mapPool` those that may be lent, `usedStack` those
that are; `TokensOf` is a constant, for which the instance has `QueryParts`. The
loop that returns what was lent has a step per value, `GiveBack`, although no
other goroutine sees the maker in between. `RulesMap` extends `PQuery`, and each
of its steps is one of the maker's or leaves the maker alone: `NewMap` compiles templates into variants by
path (`mergeVariants` merges equal constraints of two templates), `FindMatch`
resets the accumulators, each part that the maker hands out is matched in the
step that hands it out, as the callback does, and `FinishMatch` drops
templates that fall short. `New` panics on a template for a subscription; its
restart after a collision of hashes (`rmap.go:180-198`) is not in the model, because
it cannot come: a hash gets into `hashedPaths` only together with `rules`, and for a
hash that is in `rules` the paths are not compared (234-247, 328-336). A panic in a match is recovered (`at` is
"recovered") and the map is used again, since the proxy puts it back into the
pool; a panic in `New` is the end (`Panicked`).

**Containers.** One action per method, and a history variable with what the
container should hold: a set, a function, a relation, a sequence. Slices sorted
for `Find` use the shared `SortedSearch`, which switches from a scan to an
exponential search at `Threshold`. `Containers` puts them side by side; a
behaviour is about one of them.

**Config, ApiServer.** `Config` reads one file per step, in the order of the
code, and fails where the code returns an error. A file has a name, an id, a
kind and contents; contents stand for their hash. A directory that `os.ReadDir`
fails on stands as one whose only file cannot be read: `New` fails at the same
place. `ApiServer` goes on from
there: `NewProxy`, `makeServices`, then requests. `Lock` and `Finish` are the
mutex of `handleGraph`; between them each call of a request is a goroutine
of gqlgen's, of which `BeginParse`, `EndParse` and the other resolvers are
steps. Of the buffers of the parser and of a matcher the model keeps the set of
the queries whose tokens are in them: more than one means that two calls met.
A resolver that panics is recovered by gqlgen and answers nothing. A call of the
parser answers, refuses (`Refused`) or never ends (`Endless`, for
`gqlparse.go:745-820`); then the mutex stays with its request.

## 3. Runs

Passing runs:

| run | instance | shows |
|---|---|---|
| `Lifecycle_process` | 1 process, 2 clients sending `stop` or an unknown command; signals, requests, ports taken, failing `Accept` | `TypeOK`, `OkMeansServersReturned`, and under fairness `StopOfServingExits`, `StopClientAnswered` |
| `Lifecycle_host` | 2 launches, signals, full disk, kills, invalid configurations | `OneCommandServer`, `InstanceStaysReachable`, `CleanHostAfterGracefulExits`, and that `Lifecycle` implements `InstanceLock` (`SocketIsALock`) |
| `Statistics` | 3 updates, 2 times, either kind | `TypeOK`, `CallsAddUp`, `BytesAddUp`, `HighestWasReported`, `ExactWithoutOverlap` |
| `Proxy` | 2 services (3 templates), 2 requests, 4 matchers, 2 errors per parse | `TypeOK`, `MatchersAreExclusive`, `NoMatcherIsLost`, `ResponseTellsWhatHappened`, `MatchesAddUp`, and `RequestsAreAnswered` under fairness |
| `FragmentGraph` | calls of one inspector, up to 5 edges among 5 fragments, 4 of which fit | `TypeOK`, `GraphIsOfThisCall`, `SpreadsComeFirst`, and that `FragmentGraph` implements `DependencyOrder` (`AnswersAreRight`) |
| `Engine` | the rules map, 17 queries (3 with block strings) against 24 services of templates, or one of the containers | `PartsAreOfTheQuery`, `LoansComeBack`, `MatchIsRight`; `SortedSlicesAreRight`, `EnabledIsEnabled`, `MappersAgree`, `SegmentsKeepContents`, `BitSetIsASet` |
| `Parser` | one parser, any number of requests out of some 200 documents | `RangesAreInBuffer`, `SelectionIsExpanded`, `ValuesAreGiven`, `AnswersOnce`, `RefusedForAReason` |
| `Api` | 22 directories, 2 requests, each with at most one call of the parser | `ConfigIsOfTheDisk`, `ServicesAreShown`, `MatchIsOfTheQuery`, and `RequestsAreAnswered` under fairness |

Runs that end in a violation, each of one property that states what the
repository says of the program:

| run | property | what TLC finds |
|---|---|---|
| `Proxy_templates` | `MatchedByOwnTemplates` | a request is matched against another service's templates |
| `Engine_and` | `AndIsTheIntersection` | `bitmask.Set.And` returns a copy of its argument (`bitmask.go:416` calls `SetAnd(s1, s1)`), where its comment has the elements of both sets (413-414). The program does not call it |
| `Parser_default` | `DefaultValueIsUsed` | places of default values count from the selected operation, and are used on the whole buffer: behind another definition they name other tokens |
| `Api_race` | `MatchIsOfTheQuery` | two `match` fields in one request run concurrently on one parser and one matcher, and one is answered for the other's query |

What else the models show and no run is spent on, or what a property excepts:

*Process.* `stopped` is closed, and the process ends, with requests in flight
(`serve_unix.go:125`); a stop before the proxy listens is lost, since fasthttp
forgets a `Shutdown` without listener (`serve_unix.go:117`); a second stop
closes a closed channel (`cmd_unix.go:147`); a crash leaves the PID file, and
later launches are refused (`cmd_unix.go:173`); a launch that fails to listen
removes the PID file of the instance that runs (`serve_unix.go:85`); without an
`api` section the launch dereferences nil (`serve_unix.go:60`); a client is told
that no instance runs while one is draining (`cmd_unix.go:48`).

*Statistics.* Response times are added for forwarded requests and divided by
all handled ones (`statistics.go:63`); of two concurrent updates the lower
maximum may be stored last (`statistics.go:44`), and two that loaded one average
both move it (`statistics.go:37`).

*Proxy.* `forward-reduced` is read and never obeyed (`proxy.go:234`); a
forwarded request is counted as blocked (`proxy.go:277`).

*Parser.* A fragment that fails leaves tokens behind and an error and a
success may both be reported (`gqlparse.go:453-463`); if more names are spread
than the inspector has room for, spreads are kept or dropped and nothing is
reported (433); fragments that only other operations spread are in the graph's
entries, and an unused fragment counts as used if another unused one spreads it;
a set in an inline fragment without type condition ends the operation early
(227-246); an object passes for an array (794, 1044), an integer default is
refused for `Float` (775) and a string default for a custom scalar; a default
that nests two levels deeper than its type is read past the stack (766); an
enumeration in a default array is never got over (745-820), and neither
`RequestsAreAnswered` promises an answer to such a request, nor the one of the API
to those that wait for its mutex behind it. The name of a named operation without
variables is the first token of the selection (352, 512), although the test of
`Parse` asserts for each of its cases that a set is (`gqlparse_test.go:1036-1039`:
none is of that form, its named operations all have variables).
`SelectionIsExpanded` asks for the set first, and puts up with the name before it
in that form only.

*Rules map.* Block strings (`gqlscan.TokenStrBlock`, which the parser
passes on in arguments and accepts in defaults, `gqlparse.go:788`) have no case in the maker (`pquery.go:143, 317`): the token is
skipped and the path of its argument stays on the stacks. The argument is handed
out at the next end as a selection would be, without a value and with the index -1
(373-383), an item of an array is dropped, a name that follows makes the path longer,
and in an object of a variable, whose ends do not look for paths (193-219), what is
left on the stacks meets the fields behind it. `PQuery` does all of this, and
`LoansComeBack` holds with it; `PartsAreOfTheQuery` and `MatchIsRight` except the
queries with block strings, and speak of the queries after them. Two paths of one
hash are one for the engine, and nobody notices (`rmap.go:234-247, 328-336`).
`__typename` is a part at the end of a set only (`pquery.go:237,
378`); numbers out of range panic; a string compared or merged with anything
else panics (`rmap.go:489, 670`); `ValNotEqual` on an object is treated as equal
(309); a `Map` within an array looks at one element (822); combines in combines,
and those with sets, are miscounted (233, 261); a template with two constraints
for one path is counted once for each (633).

*Containers.* `And` of bit sets copies its argument: `BitSetIsASet` follows a set
made by it as that copy, and `Engine_and` says what it is not. `Cut` of a key that
is there answers with the index -1, and not with the start -1 its comment names
(`segmented.go:51, 58`), and `Get` of one that is not does so too, where 71 has nil;
no property is about these answers. `hamap` finds an absent key that collides with a single present
one (`hamap.go:169, 187`), and a visit that is stopped within a bucket only
leaves that bucket (256); the three `Visit`s disagree on whether true or false
goes on.

*API and configuration.* The list of enabled templates begins with nils, so
`templatesEnabled` is always an error (`api.go:270, 287`), and
`templatesDisabled` has nothing but nils; a template enabled under two names
makes a negative length (271); template statistics are looked up by id in a map
keyed by path (`proxy.go:148`); the matcher of the API also has the disabled
templates; two services of one id or path, and a file that is enabled twice,
are not noticed.

Bounds, and why they are enough.

- *Launches*: 2. The hazards are pairs: two launches between check and
  creation, an instance and a launch that fails. What holds for any number is
  proved.
- *Clients*: 2, the least for two stop commands.
- `Lifecycle_process` leaves out kills and full disks, which `Lifecycle_host`
  has; it keeps crashes by panic and by a port that is taken.
- *Updates*: 3 with 2 different times: two updates race, and a third sees what
  they left. Byte counts have one value: they are only added.
- *Requests*: 2, with 4 matchers: each request may hold a matcher while another
  lies in each pool, the most the module's assumption asks for. The run begins
  with certain matchers in the pools (`MCInit`) instead of any, since its liveness
  property allows no symmetry.
- `MaxErrors` bounds how often one `Parse` reports an error; 2 is the first
  number at which a request is counted twice.
- *Directories*: up to 3 enabled files for 2 of the pool, one kind of fault
  in each. *API requests*: 2, of up to 3 calls: one waits for the mutex while the
  resolvers of the other run. What two parser calls in one request do is
  `Api_race`; outside it the lines have at most one each, which is named in
  `SomeLines`.
- *Documents*: fragments up to `MaxFragments = 3` and one beyond; all graphs
  of three fragments in `FragmentDocuments` meet undefined names, cycles and
  diamonds; types of variables up to two levels of arrays against values of
  every JSON kind; two operations with every pair of names. Requests follow each
  other without bound, so each is met after every way a call can end.
- *Queries and templates*: each constraint of the language has a template, most
  paired with another at the same path; `MaxUsed = 1` value may still be lent
  when a query with arrays begins, the least at which a pool is not full.
- *Containers*: `bpw = 2` bits per word (64) and numbers up to `MaxNumber = 4`
  make sets of three words; `Threshold = 3` (256) is passed by 5 elements; two
  of four names collide; `MaxData = 4` items between two `Reset`s.
- *Fragments*: 5 names for 4 places, so that the limit is reached by the first
  and by the second end of an edge; 5 edges make a diamond with a cycle behind
  it. Calls follow each other without bound.
- `busy` is one bit per server: one request in flight is as good as many for
  what `Shutdown` waits for.
- Symmetry is used in safety runs only, over interchangeable launches, clients,
  updates and names of fragments.
- Deadlock is not checked in the `Lifecycle` runs, where all launches may have
  ended; in `Statistics` and `Proxy` the end is a stuttering action of its
  own, and `FragmentGraph`, the parser and the engine can always be called again;
  in `Api` the requests may all be answered.

Fairness. The Go scheduler runs every goroutine that can run: each goroutine's
steps are weakly fair. Launches, signals, dials, requests, faults, the garbage
collector and the destination are not, and neither is the end of a request in
flight, since the forwarding client has no timeout. A fair `Parse` goes on, but may
go on for ever. `StopClientAnswered`
excepts a command server that has ended on an error of `Accept`: its listener
stays open and unheard (`cmd_unix.go:62-66`). In `ApiServer` the handler of a
request and its resolvers go on, requests need not come; weak fairness of `Lock`
is enough because each of the finitely many requests takes the mutex once.

## 4. Proofs

For any sets of launches, clients, updates, services, requests, matchers,
directories, keys and elements, from the assumptions named in the modules:

| theorem | property | argument |
|---|---|---|
| `LifecycleProofs!TypeCorrectness` | `TypeOK` | the WaitGroup counter equals the number of components not yet returned, which bounds it by 3 and keeps it from falling below 0 |
| `CommandServerExclusion` | `OneCommandServer` | a live process with an open listener is the one named by the socket path |
| `Reachability` | `InstanceStaysReachable` | the listener of a command server that was started is open until a stop is triggered, and an open listener owns the path |
| `StopAnswer` | `OkMeansServersReturned` | `stopped` is closed only with the WaitGroup counter at 0 |
| `CleanHost` | `CleanHostAfterGracefulExits` | every launch between `CreatePID` and `Cleanup` is on its way to the cleanup; assumes that `Accept` fails on a closed listener only |
| `SocketRefinement` | `SocketIsALock` | step by step: listen acquires, close releases, the end of a process ends it, all else stutters |
| `StatisticsProofs!TypeCorrectness` | `TypeOK` | a call that has begun has a divisor above 0 |
| `NoLostCalls` | `CallsAddUp` | the counters are cardinalities: of the calls begun, of the blocked ones done, of the others past `forwardedRequests` |
| `NoLostBytes` | `BytesAddUp` | a counter is the sum over the calls past its addition; a sum over a finite set grows by what one more element adds |
| `Exact` | `ExactWithoutOverlap` | while nothing overlapped, at most one call is under way, and each of its places tells what maximum and average are: the bounds of the average hold with the call's own time once it has moved |
| `HighestIsReal` | `HighestWasReported` | only a call that is at a store of measure m writes it, and such a call reports m |
| `ProxyProofs!TypeCorrectness` | `TypeOK` | - |
| `Exclusion`, `NoLeak` | `MatchersAreExclusive`, `NoMatcherIsLost` | every matcher that exists is in exactly one place: one pool, or one request between `Get` and the deferred `Put` |
| `Tallies` | `MatchesAddUp` | counters as cardinalities of the requests past them, also of those still under way |
| `Verdict` | `ResponseTellsWhatHappened` | what a request at each place has sent, matched and answered so far |
| `FragmentGraphProofs!TypeCorrectness` | `TypeOK` | an edge is refused before a number leaves the arrays |
| `NothingIsLeftOver` | `GraphIsOfThisCall` | the matrix is empty outside the numbers of the current call, at any place where a call may end |
| `SpreadsFirst` | `SpreadsComeFirst` | what the top of the stack spreads before `to`, and what those below spread before the next one on the stack, was left; exactly what was left was handed out |
| `Implementation` | `AnswersAreRight` | from the same invariant: the stack is a path, so its upper part and `j` are a cycle; at the end nothing is white or grey, so the order is complete |
| `ApiServerProofs!MutexSeparatesRequests` | `MatchIsOfTheQuery` | assumes `OneMatch`: no request has two calls of the parser. Whoever executes holds the lock, so the parser and the matchers hold the query of the one call that uses them. `Api_race` shows that the assumption is needed |
| `ConfigurationIsOfTheDisk` | `ConfigIsOfTheDisk` | one invariant per loop of `config.New`: what is collected is what lies before the place that is read, and it is legal; a place that is refused makes the directories illegal |
| `ConfiguredServicesAreShown` | `ServicesAreShown` | what the fold over the enabled services leaves at a path is the entry of the last one with that path; `Taken` and `Alone` are the cases in which it is another's |
| `EngineProofs!SortedSlicesStayRight` | `SortedSlicesAreRight` | both searches are loops with a measure, `r - l` and the rest of the slice; what they end with is the number or the place where it belongs, so a slice stays sorted and holds what was put. For any `Threshold`, the code's 256 included |
| `EnabledStayInFront` | `EnabledIsEnabled` | `ordered` has no element twice and `index` is its inverse before and after each swap; an element is enabled if its index is below `e` |
| `ContentsAreKept` | `SegmentsKeepContents` | segments lie one behind the other and end before what is pending, so appending and cutting leave their items; the map from keys to numbers is a bijection |
| `LoansReturn` | `LoansComeBack` | the marks on `mstack` name values that are lent, so what is put into an array or object never changes one in a pool; a loan moves a number from its pool, or a new one, to `usedStack`, and a return moves it back, emptied. A `stop` leaves all three as they are |
| `NumbersAreKept` | `BitSetIsASet` | each set stands for its numbers word by word, with no zero word at its end and only zeroes behind it up to its capacity, so what `grow` and a longer operand take in is empty; each operation, also of a set with itself, makes the words of its result; the loops of `Size` and `Visit` and both searches of `NextOf` and `PrevOf` go through the words with a measure. For words of any number of bits, the code's 64 included |
| `MappersHoldTheMap` | `MappersAgree` | a sequence of pairs holds a function: each key once, with its value. The buckets are sorted by hash, none is empty, and each holds the part of the function with its hash; a call for a key changes only the part of its own hash. What is visited is the buckets one behind the other, with as many pairs as the function has keys, and a visit that stops in a bucket of one pair is a prefix of it |
| `ParserProofs!OneAnswer` | `AnswersOnce` | no verdict before the fragments are constructed; after that only nested fragments (`VarUndefined`) and those of operations report and go on, and `isErr` tells of the latter. For any scanner and any checks of types, by which the module is parameterised |
| `ReferencesAreRight` | - | `VariablesAreIndexed`: while fragments and the operation are written, a reference gets the index of the value of the variable of its name, or -1 if that is not declared. The names in `varOrder` are those of `varsDecls`, each once, and the n-th value is that of the n-th name |
| `RangesAreRight` | `RangesAreInBuffer` | the counters of stacks against the number of open sets: `stackCounter + fragStackCounter` never exceeds it, and the outermost set is never one that was dropped, so the last `SetEnd` ends the definition, if no earlier one did; up to its selections an operation is in the buffer token by token, so the list of variables is where `InitOperation` looks for it; a place of a variable is one where the loops over types and default values start again |

Each module proves `Init => IInv`, `IInv /\ [Next]_vars => IInv'` (one step per
action) and `IInv => property`. None of the properties is inductive by itself:
`OneCommandServer`, for instance, says nothing of the path that the next
`Listen` looks at.

Only model-checked:

- liveness (`StopOfServingExits`, `StopClientAnswered`, both
  `RequestsAreAnswered`), which rests on fairness and `ENABLED`;
- what the parser and the rules map make of the contents of a request
  (`SelectionIsExpanded`, `ValuesAreGiven`, `RefusedForAReason`,
  `PartsAreOfTheQuery`, `MatchIsRight`): nested selections, values, types and
  constraints are walked by `RECURSIVE` operators in `ParserAnswers`,
  `RequestTokens`, `VariableTypes`, `QueryParts` and `RulesMap`. The control of
  both is apart from them, in `Parser` and `PQuery`, and is proved about.

The assumptions are those on the constants: files of a directory have different
names (`DisksAssumption`), keys, masks and hashes are integers and values are of
any kind (`NumbersAssumption`), a word has at least one bit and the largest number
is a natural one (`BitsAssumption`), the elements of a set are finitely many
(`WordsAssumption`), and a hash is an integer (`HashAssumption`), of which any two
keys may have the same. `RangesAreInBuffer` rests on two more, which TLC evaluates
for all documents of the run: `ScannerAssumption` says what is external, that
tokens come definition by definition with sets that are balanced, and
`TypesAssumption` what is `RECURSIVE`, that the checks of `VariableTypes` end
within the list of variables, at its end or where the next variable is looked
for. Neither says how deep sets nest, which of them are dropped, or how many
definitions there are.

Induction. The theorems of the library that take an operator cannot be used
here; `ContainerProofs`, `StatisticsProofs` and `ApiServerProofs` begin with their
facts for the *set* of the numbers, subsets or pairs for which a statement holds,
from the least counterexample. What a loop computes is stated with it as `Outcome`:
a recursive function over the loop's variables, of which each value is final or the
value at a smaller measure.

## 5. Plan

Written in this order, the most important behaviour first: `Lifecycle` with
`InstanceLock`, `Statistics`, `Proxy`, `FragmentGraph` with `DependencyOrder`,
each with its proofs; then the parser on top of the promise of the inspector,
the rules map on top of the maker, the containers, the configuration and the API
on top of it; then the proofs of the last.

Of the safety properties, those that read `RECURSIVE` operators are left to TLC.

## 6. Not modelled

- *Command line and licence* (`cli.go`, `lvs.go`): one call without state that
  outlives it.
- *Token writer, xxhash, decl, math, unsafe*: pure functions of their arguments;
  hashes are taken as given, and where code compares hashes only (`hamap`), two
  names collide. Collisions of the hashes of paths in the rules map are left
  out: two different paths are then one for the whole engine.
- *Generated GraphQL server*: all but the concurrent dispatch of fields, which
  the models make more liberal (any order of the resolvers of a service);
  introspection and the transport of GraphQL over HTTP are the library's.
- *External code*: `gqlscan`, `gjson` and `gqt` by what they hand to the
  callers; fasthttp and net/http by what `Lifecycle` says above; TLS is not
  distinguished from plain connections.
- *Words of configuration files*: YAML, the rules of ids, the front matter of
  templates and the errors of GQT are kinds of files, legal or not.
- *Printing*: `HashedPaths`, `WriteTo`, `Print`, logging.
- `bitmask/funcs.go`: the functions of `bitmask.go` once more for slices of
  words; the program does not call them.
- *Windows*: `serve_windows.go` only reports that it is not supported.
