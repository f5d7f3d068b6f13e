# yactt in TLA+

Specifications of yactt, a code-intelligence server for coding agents: it
indexes source trees with tree-sitter and language servers and serves them over
MCP, on stdio or as an HTTP daemon. The modules here model the parts of it that
run concurrently, survive restarts or hand resources from one owner to another,
and the tools that answer from the index, each against a definition of what it
is asked for.
Line numbers refer to the Go sources under `src/`.

## 1. The system

| Component | State | Operations | Talks to | What is hard |
|---|---|---|---|---|
| Warm index (`internal/project`) | `Index.byPath`, the table `boundIndexes` | Get, Put, Delete, Close, BindIndex, Resolve | registry, store | look-up and insertion are far apart; eviction and shutdown in between |
| Repo (`internal/store`) | files, symbols, edges, LRU cache, LSP clients, `pinned` | Load, CachedFile, Lookup, Pin, Close, ForceClose | caches, parser, lsp | who may stop its servers; readers while the index is rebuilt |
| Registry (`internal/registry`) | `projects.json` | List, GetByPath, Upsert, Delete | file system | read-modify-write, crashes, a damaged file |
| `index_repository`, `delete_project`, `index_status` (`internal/tool`) | none of their own | one handler each | all three above | several steps, each may fail; freshness by time stamps |
| HTTP daemon (`internal/mcp/transport/http`, `cmd/yactt/mcp.go`) | sessions, their contexts, listener | initialize, POST, GET stream, DELETE, Reap, Stop, Shutdown | MCP server, warm index | races of request, reaper and shutdown; grace period |
| LSP client (`internal/lsp`) | pending calls, semaphore, pipes, child process | New, Request, Notify, Close | language server | a server that is late, silent, full or dead |
| Symbol and edge index (`internal/store`: resolver, edges, imports) | tables of declarations and calls, built by Load and not changed after | Lookup, EdgesByCaller, EdgesByCallee, LocateSymbol | ids, kinds | an index as old as the load over files as new as the call; a bucket that readers sort |
| Disk and memory caches (`internal/cache`) | one file per source file; two LRU lists | Get, Put, EvictOrphans; GetFile, PutFile, GetLayer, PutLayer | file system | shared temporary names, eviction, stale entries |
| MCP over stdio (`internal/mcp`) | tool table, audit logger | Serve, Dispatch | tools | signals, malformed lines, a failing output |
| Audit (`internal/audit`) | log file, known-good file | LogToolCall, CheckKnownGood | MCP server | one whole line per call |
| Graph tools (`internal/tool`) | none | node_edges, architecture, edit_impact, detect_changes, query_graph | store | limits on traversals, cycles, flags that say an answer is cut |
| Search and symbol tools (`internal/tool`, `internal/search`) | none | search, find_code, search_code, find_symbol, ... | store | ranking, cuts before and after grouping, names that are ambiguous |
| Hybrid retrieval, chunker, ids (`internal/hybrid`, `chunker`, `id`, `entity`, `domain`) | none | pure functions | – | boundaries, order of Go maps, ids split differently from how they were made |
| Persisted queries (`internal/persisted`) | a table filled at start | Register, Run | tools | – |
| Parsers, command line, config, summarizer | none | – | – | – |

What makes each of the first ones correct:

* **Warm index, repo.** A repo owns child processes. It is private to one
  request until it is put in the index, and belongs to the index from then on.
  Its servers must run while somebody uses it and stop exactly once. What the
  index serves must be as recent as what the registry says was indexed.
* **Registry.** No update is lost; a crash leaves the old file or the new one.
* **HTTP daemon.** Sessions are capped, expire, and do not come back; their
  streams learn that they ended; the daemon stops when told to.
* **LSP client.** Frames are whole, replies reach their callers, every call
  gives back what it took, no child is left behind, Close ends.
* **Caches.** What is read through a cache is as new as the call or the load
  that reads it; a cache stays within its budget.
* **Dispatch and audit.** An answer to each request, in order; a call that is
  answered is in the log, once.
* **Tools.** The answer is exact: nothing that is not there, nothing missing when
  it does not say it is truncated, and the order of a Go map cannot be seen in
  it. Since no tool changes anything, a tool is a function of the index and the
  files, and what can be wrong is in its bounds, cuts, orders and look-ups.

## 2. Modules

| Module | Models | Source |
|---|---|---|
| `WarmIndex` | warm index, Resolve, index_repository, delete_project, a repo's life, shutdown, restart | `project/index.go`, `project/project.go`, `tool/index_repository.go`, `tool/delete_project.go`, `tool/index_status.go`, `store/store.go` |
| `RepoLifecycle` | what the index promises about repos: the abstract specification `WarmIndex` implements | same |
| `WarmIndexProofs` | theorems about `WarmIndex` and their proofs | – |
| `HttpSessionsProofs`, `LspClientProofs`, `RegistryFileProofs`, `DispatchProofs`, `DiskCacheProofs`, `QueryGraphProofs` | the same, of the module each is named after; `QueryGraphProofs` also of `NodeEdges` and `CodeIndex`, which `QueryGraph` extends | – |
| `AnalysisProofs` | the theorems about `RepoFiles`, and those of the last three, of `Analysis`, where their properties are run | – |
| `MCWarmIndex`, `MCWarmDelete` | instances for TLC: symmetry; a history variable | – |
| `HttpSessions` | SessionManager, the handlers of `/mcp`, the reaper, serve-http from start to exit | `mcp/transport/http/session.go`, `transport.go`, `cmd/yactt/mcp.go` |
| `LspClient` | one client and its child process | `lsp/client.go` |
| `RegistryFile` | the file operations behind List, Upsert, Delete | `registry/registry.go` |
| `DiskCache` | the disk cache under several loads of one project | `cache/disk.go`, `store/store.go` |
| `RepoFiles` | CachedFile, the LRU of parsed files, an editor | `store/store.go`, `cache/cache.go`, `source/source.go` |
| `SymbolLookup` | two Lookups of one name, move by move | `store/resolver.go` |
| `Dispatch` | the stdio loops, the daemon's handlers, the audit log | `mcp/server.go`, `mcp/jsonrpc.go`, `audit/audit.go` |
| `CodeIndex` | the index, ids, the way back from an id | `store/resolver.go`, `edges.go`, `imports.go`, `id/id.go`, `entity/*.go` |
| `NodeEdges` | the scans for typed edges, node_edges | `tool/nodeedges.go` |
| `QueryGraph` | query_graph's breadth-first search | `tool/querygraph.go` |
| `Architecture` | get_architecture, Tarjan's algorithm | `tool/architecture.go` |
| `ChangeImpact` | detect_changes, edit_impact | `tool/detectchanges.go`, `tool/editimpact.go` |
| `CodeSearch` | find_code, search_code, search, find_symbol, find_referencing_symbols, get_code_snippet | `tool/findcode.go`, `searchcode.go`, `findsymbol.go`, `findreferencingsymbols.go`, `getcodesnippet.go`, `search/search.go` |
| `Chunks` | the chunker and its baseline | `chunker/chunker.go`, `chunker/baseline.go` |
| `Fusion` | hybrid retrieval, reciprocal rank fusion | `hybrid/*.go` |
| `Analysis`, `AnalysisInputs` | the read side side by side, for TLC; small repos and questions about them | – |

`WarmIndex` composes the index with the registry, the cache directories, the
repos and the two writing tools, since what could go wrong lies between them.
The registry appears there as rows that an operation reads or writes at once;
`RegistryFile` shows what is behind one such operation. `HttpSessions` has the
step `CloseIndex`, which is `CloseIndex` and `Unbind` of `WarmIndex`, with the
requests the grace period left behind (there: `DrainFirst = FALSE`).

### WarmIndex

A goroutine per request; `pc` says which call its handler makes next. One
action is one critical section (`Registry.mu`, `Index.mu`, `Repo.mu`) or one
call that reads or writes the file system.

| Handler | Actions |
|---|---|
| `Resolve` | CheckRow, LookupIndex, Get, Open, Read, Fetch, Insert, Use |
| `index_repository` | IxRow, IxFresh, Open, Read, Fetch, Insert, Use, Stamp, Upsert; on a fresh row LookupIndex, Get, and on a miss Open .. Use ("prime") |
| `delete_project` | DeleteRow, EvictFetch, Evict, RemoveCache |
| any | Fail: the error returns of the calls that can fail |

`Open` and `Read` are `store.Load`: the cache directory is made, then the tree
is walked and the servers are started. `Fetch` and `Insert` are `PutFor`, which
looks the index up and then calls Put. `Use` is the deferred `repo.Close()`.

Abstractions: a tree is the time of its last change (`changed`) and the newest
mtime a walk finds (`newest`; a removal does not move it). A repo is the change
it saw (`content`), its root (`home`), whether its servers run (`live`) and its
pin. The clock ticks with every change, so two changes never share a time
stamp: what equal mtimes hide is outside the model. A repo object is reused once
nothing refers to it, as memory is after a garbage collection. A Load is one
step that reads the whole tree at a moment; that its walk takes time matters for
freshness only, and there the model lets edits come after that moment.

The switches: `QuietLoads` forbids changes of a tree while a request is loading
it; `DrainFirst` lets the index close only when no request is in flight (the
stdio loop does so, the HTTP daemon does not).

### HttpSessions

A request is in a handler from `Arrive` on; each action is one critical section
of `SessionManager.mu`, or a step between two of them: the check of `stopped`
before the lock, the cancel after it. The reaper's list is `doomed`. Time is
`Tick`, which ages every session; `age` saturates one past the timeout. `main`
follows `runMCPServeHTTP` through Shutdown: CloseListener, then Drain or
GraceExpires, StopFlag, StopParent, StopSwap, CloseIndex, Exit. The other
goroutine is MakeServer, Listen, ServeReturns. Requests refused before the
session manager (authorization, method, body, version) change nothing and are
left out. Session ids are 16 random bytes: an id is never given out while
anybody has it.

### LspClient

A caller goes through Request (Acquire, Register, Lock, Write twice, Await,
Finish) or Notify (Lock, Write twice, Finish); the handshake is a Request
without the semaphore and a Notify. `Timeout` is a deadline. The reader is
ReadCheck, ReadFrame or ReadFails, ReadLookup, ReadDeliver. Close is CloseFlag,
CloseChannel, CloseWait, CloseDone. The pipe to the child holds `PipeSize`
writes and blocks when full. The child is the environment: it answers what it was
asked, in any order or never, sends garbage, dies, and sends requests of its own
under the ids in `ServerIds`. A frame is its kind and its id; the reader looks at
the id alone, so such a request ends a call that waits under its id (section 5).
That the child answers no id it was not asked is the one assumption. After Close or a failed handshake another
client may be started (`Again`). Request ids are reused when no message or
variable speaks of them, which the real counter never needs to.

### RegistryFile

Each file operation is an action: Read, Quarantine, Change (the temporary file
is created), Write, Rename, Cleanup. Each may fail. `Crash` may come at any
time, and `Damage` is another program that writes nonsense into the file. The
file is unset, corrupt, or a map from paths to entries. Only the last file put
aside is remembered. Loss of power, where a rename may reach the disk before the
data (nothing is synced), is not modelled.

### DiskCache

Loaders, which are processes or goroutines of one daemon, load the same project
at once. They share the cache directory and no lock. The directory is a function
from names to inodes, and an inode has a source version, an mtime and a length
(half-written entries are short), because two Puts of a key write the *same*
temporary name: `Open` truncates the inode behind it, also when another loader's
rename has moved that inode to the key. A Load is `Begin`, then for each path
`Visit`, `Get`, on a miss `Stat`, `Read`, `Open`, `Write`, `Rename`, `Scan`,
`Evict`, `Record`, and last `Sweep` (EvictOrphans). Every call to the file
system may fail (`Refuse`, `OpenFails`, `RenameFails`), a loader may `Crash`
anywhere, the editor may `Edit` or `Unlink`.

### RepoFiles

A request's CachedFile is `Call`, `StatFile`, `TryCache`, `TryResident`,
`LoadStat`, `ReadFile`, `Put`, `Store`, `Return`, each lock held for one step.
A version is a file's content and its mtime; the file may change between any two
of these. The LRU is a sequence, most recent first; `Slot` is where a path is in it, and a
hit or a Put takes that element out and puts it in front.

### SymbolLookup

`rebuildIndex` leaves the bucket of a name in the order of a Go map; `Lookup`
sorts the bucket in place under a read lock and copies it. For a short slice
sort.Slice is an insertion sort whose swap is three moves: `Compare`, `Take`,
`Shift`, `Drop`, `Copy`.

### Dispatch

Each stdio server is a process with one loop (`Read`, `Handle`, `Answer`); the
daemon is one process with several handlers and a shared logger. A tool call
goes through `Lock`, `Write` (into the buffered writer) and `Flush` before its
answer. Processes append to one file. A write to the file may fail, after which
the buffered writer refuses all others (`broken`); the error is dropped, as in
the code. `Signal` is seen only when a line has come; `Die` is the end of a
process at any moment.

### CodeIndex, NodeEdges, CodeSearch and the other tools

A *repo* is a record: the declarations that the index was built from
(`loaded`), those that CachedFile sees now (`now`), the files in the order in
which Go happens to walk their map, imports, tests, and what the language server
answers. Names, path segments and files are numbers. The tools are operators
over such a record, one per function of the code, and keep the code's order of
look-ups, limits and cuts. Nothing rebuilds the index after Load, so a tool that
uses both sees two ages of one file; `loaded` and `now` differ in part of the
repos. What a regular expression or a search term matches is part of the
question.

`QueryGraph` is a state machine: `Scan` takes one node of the frontier's turn,
`Expire` is the wall clock, `Gather`, `Emit` (a target at a time, in any order,
as Go walks a map), `EndStep`. In `Architecture`, `TarjanSCC` keeps the code's
own stack of frames; `Turn` is one round of its loop.

Scores are integers: hundredths in `CodeSearch`, and in `Fusion` the parts of a
common denominator of all `1 / (RRFK + rank)`, so that sums are compared exactly.

### Analysis

The caches, the dispatcher and the tools share no state at run time, except
the repo that the tools read and no tool changes. `Analysis` therefore checks
them side by side: `part` says which component a behaviour is of, and the
variables of the others are parked at a constant. A tool's behaviour is a
question and an answer (`QueryGraph` and the concurrent components have their own
steps). The assumptions of the instantiated modules are assumed again there, by
name, so that TLC evaluates them with the values of the run and `AnalysisProofs`
can cite them.

## 3. Runs

Runs that must find no error:

| Run | Instance | Shows |
|---|---|---|
| `warm_lifecycle` | 2 paths, 2 requests, 3 repos, no edits, `DrainFirst = FALSE` | TypeOK, WarmEntriesLive, NoOrphanedServers, UnpinnedIsPrivate, ReapedAtItsOwnPath, and that the index implements RepoLifecycle |
| `warm_fresh` | 1 path, 2 requests, 3 repos, 2 edits or removals, quiet loads, shutdown drains | FreshMeansCurrent, RowNeverAhead, ShutdownReapsServers |
| `http_sessions` | 2 ids, 2 handlers, cap 1, timeout of 1 tick | CapRespected, RemovedAreCancelled, StopReachesAll, NoResurrection; IdleGoesAway, StreamsEnd, SignalEnds under fairness |
| `lsp_client` | 2 callers, 3 ids, 1 token, pipes of 1, a child that asks under id 1 | NothingLeaks, RepliesAnswer, FramesIntact, NoChildLeft; CloseEnds, CloseReleases under fairness |
| `registry_file` | 2 goroutines, 2 paths, 2 entries | NoLostUpdate, NeverTorn, NoLitter |
| `analysis` | one small instance per part, see below | LoadedIsCurrent, BudgetKept, AnswersFresh, AnsweredIsLogged, WalkExact, EdgesExact, LocateInverts, CyclesExact, HunksAttributed, ChunksExact, RankingExact |

Runs that must find the property violated. Each states what a comment of the
source says:

| Run | Property | What the trace shows |
|---|---|---|
| `warm_edit_during_load` | FreshMeansCurrent | a file changes after it was read and before IndexedAt is taken; the project counts as fresh |
| `warm_stale_after_delete` | NoStaleAfterDelete | an index_repository that was loading while the project was deleted and indexed again puts its old repo in the index (`index_repository.go:188`); Resolve has the same load and PutFor (`project.go:147-152`) |
| `http_stream_cut` | EveryStreamTold | the process ends with a stream that has not sent `server_shutdown` |
| `lsp_hung_server` | CallsReturn | a call blocks in a write to a server that does not read, past its deadline |
| `registry_quarantine` | OnlyCorruptAside | List renames away a good file that replaced the corrupt one it had read |
| `lookup_race` | LookupComplete | a Lookup copies the bucket while another is between two moves of a swap: one declaration twice, one missing |

The parts of `analysis`, which has about 690 000 states:

| Part | Instance | Property, and what it says |
|---|---|---|
| disk | 2 paths, 2 loaders, cap 2, 2 loads, 1 fault, 1 edit | LoadedIsCurrent: a load records nothing older than its own beginning; BudgetKept: within the budget once the last Put has swept |
| files | 2 paths, 2 readers, LRU of 1, 2 edits | AnswersFresh: an answer is as new as the call; the LRU is bounded and has no path twice |
| server | 1 stdio server, 2 handlers, 4 streams of two requests, 1 fault | AnsweredIsLogged: answered calls have one line in the log, answers come in order |
| graph | 256 call graphs of 5 declarations, 21 questions, MaxVisited 3 | WalkExact: rows are ends of walks of just their depth, scored by a seed, complete if not said to be truncated |
| edges | 88 repos of 8 declarations, some edited since the load, some with a language server | EdgesExact: a prefix of the edges there are, the flag exact per kind; callers and callees agree |
| locate, symbols | all repos of three (two) declarations out of 16, in packages that are one, two, nested or the root | LocateInverts: an id leads back to a declaration with that id; so do names |
| architecture | 3080 import graphs of four files | CyclesExact: the cycles are the sets that reach each other |
| changes, renames | 3 repos, all pairs of hunks of a nested class and a neighbour, lines that read as headers or are too long; renames of one declaration and of two, to a free name, a taken one and none | HunksAttributed: the changed rows, all and no others, each to its smallest declaration; per rename its callers in other files, the tests, and "safe" only when nothing bears the new name |
| chunks | every sequence of blank, comment and code rows above a function; 10 sizes of file around the window | ChunksExact: one chunk per function with its own comment; the order of the map cannot be seen; windows cover |
| code, search | rows of hits, also 15, 16 and 17 times the limit, nested and not; 36 terms and their pairs | RankingExact: no hit missing from the groups while the scan is not cut, each in the group of a declaration around it; where nothing is nested the groups and the flag exact; order by score |
| hybrid | all rankings of three ids by three channels; all channels off, failing or empty | RankingExact: sorted, complete, and an id that is ahead in every channel is ahead in the result |

Several properties have a premise. Each is there because without it the code
does otherwise (section 5): walks over several kinds, ids in the root package,
quoted paths and lines that read as headers in a diff, hits past the first cut.
Two things the properties leave open on purpose: which of two nested declarations
has a hit of search_code, and, for node_edges over an index older than the files,
whether its sources are the right ones (the reference of `EdgesExact` is the code's
own scans without a limit; the two directions are compared only where index and
files agree). The questions of the tools are about ids of declarations; the id of a
file, which `LocateSymbol` takes to a symbol of the whole file (`resolver.go:332`),
is not asked about and is NotFound in `CodeIndex`.

### Why the bounds are enough

* *Two requests.* Every hazard of the index is between a request that is between
  two of its calls and one that runs past it. Three repos are the entry, the one
  each request has loaded. Two paths let a request on one reap at the other, if
  it could.
* *Two changes of a tree* are one a repo saw and one it did not; with three time
  stamps a row can be older than, as old as, or newer than either.
* *Two ids, cap one.* One session in the map and one that has left it but is
  still in a handler's hands; two handlers and the reaper make three parties that
  may remove one session. A timeout of one tick has ages before, at and past it.
* *Pipes of one write.* A header fills the pipe, so a call can block between
  header and body; two callers contend for the token, the lock and the reader.
  Three ids are one for each caller and one that a timed-out call left behind;
  one of them is an id under which the child asks in turn, before, while and
  after a call has it.
* *Two paths, two entries* let an update of one row meet one of the other, and
  an entry replace another at its own path.

* *Disk: two loaders, two paths, a cap of 2.* The hazard is one loader between
  open and rename of a name the other renames; two entries of one byte each fill
  the cap, and one edit makes an entry longer, so that eviction must choose. Two
  loads let one read what the other, or a crashed one, has left.
* *Server: two requests each.* One call that is logged while another is between
  write and flush, one that comes after a failed write, one cut off by a signal.
* *MaxVisited 3, limits of 1 and 2, MaxRank 3, 16 hits.* Each cut of the tools
  fires in some questions and not in others. Four files are the smallest
  graph with two separate cycles, or one that is entered twice.

In `analysis` loaders, readers and handlers are permuted by symmetry; no
expression chooses among them. `DiskBounds` bounds loads, faults and edits,
`MaxEdits` and `MaxFaults` the editor and the failing log.

Nothing else is bounded, except the clock (`MaxClock`, in the guards of Edit and
Remove) and the ages (saturating).

### Fairness

* `HttpSessions!Fairness`: the reaper, the listener's goroutine and main take
  their steps, a stream wakes when its session's context is done, a Delete that
  took a session out cancels it. All of this is the Go scheduler and a ticker.
  No request is assumed to arrive or to finish, no client to go away, nobody to
  send a signal. `GraceExpires` is a timer.
* `LspClient!FairSpec`: each caller, the reader and Close go on when they can;
  `CloseWait` includes the timer of Close. Nothing is assumed of the child.
  `TimedSpec` adds that deadlines come, and is used only where the property is
  about deadlines.
* `WarmIndex`, `RegistryFile`, `SymbolLookup` and all parts of `Analysis` are
  checked for safety only. In particular nothing says that a load, a read or an
  answer comes: the code has no retry or queue there that could starve.

### Deadlock

TLC checks for deadlock in every run but `analysis`. None occurs: each of these
models restarts its process or client, and a Lookup is called again. In
`analysis` it is off: a tool's behaviour ends with its answer, and so do those of
the other parts when loads, edits or requests are used up.

## 4. What is proved

Every theorem is for all values of the constants that satisfy the assumptions
named in the module, and every proof has the same shape: an invariant `IInv`
that is inductive, one lemma per step (or kind of step) that keeps it, and the
property as a consequence. TLC has checked each `IInv` on the instances of
section 3 first.

### WarmIndexProofs

For all sets of paths, requests and repos, every `MaxClock` and both values of
each switch, from the assumptions of `WarmIndex` (a repo is not `NoRepo`, there
is a path, the bound is a natural number, the switches are Booleans, `Changes`
has only edits and removals):

| Theorem | States |
|---|---|
| `Inductive` | `Spec => []IInv` |
| `TypeCorrect` | `Spec => []TypeOK` |
| `EntriesStayLive` | `Spec => []WarmEntriesLive` |
| `ServersHaveOwners` | `Spec => []NoOrphanedServers` |
| `CloseIsPrivate` | `Spec => []UnpinnedIsPrivate` |
| `ReapedOnlyByItsOwn` | `Spec => ReapedAtItsOwnPath` |
| `Refinement` | `Spec => LifecycleSpec`: `WarmIndex` implements `RepoLifecycle` |
| `NoServerOutlives` | with `DrainFirst`: `Spec => []ShutdownReapsServers` |
| `WarmIsWhatWasIndexed` | with `DrainFirst` and `QuietLoads`: `Spec => []RowNeverAhead` |
| `UpToDateIsUpToDate` | with both: `Spec => []FreshMeansCurrent` |

The invariants are not inductive by themselves. That a Put reaps only the entry
it replaces, and a Close only the repo of its own request, depends on who has a
repo that is not pinned and where in its handler it is. `IInv` adds

* `PinnedIndexed`: a pinned repo is the entry of its own path;
* `LoadedByOne`: from Read to Insert a repo is live, unpinned, of the path its
  request asked for, and in no other request's hands;
* `HandsFull`: a handler that puts, uses or describes a repo has one;
* `PrivateHeld`: a live repo that is not pinned is in the hands of one request,
  which has not closed it yet.

`Ownership` is `IInv` without the types. Types and ownership are shown apart:
`TypeStep`, and one lemma per kind of step (`GetKeeps`, `ReadKeeps`,
`InsertKeeps`, `UseKeeps`, ...) that `StepKeeps` collects. `Bystander` covers
every step that leaves repos and entries alone. The action property and the
refinement use `IInv` before the step, and one lemma per step of
`RepoLifecycle`.

The last three theorems have the switches as hypotheses, since they fail without
them (`warm_edit_during_load` in section 3, `DrainFirst` in section 5): `DrainFirst`
is the stdio server, `QuietLoads` a tree that nobody edits during a load. Their invariant is `Drained` (past Index.Close no
request runs and no entry is left; who has loaded a repo finds an index) and
`Currency`: time stamps are ordered (`Dated`), a repo in a loader's hands shows
the tree as it is (`LoadIsCurrent`), between Put and the row of one
index_repository the entry at its path is its own or one loaded later
(`EntryIsNoOlder`), and a row that no file is newer than describes every change
that left a file, in the registry (`RowIsTrue`) and on its way there
(`StampIsTrue`). Freshness compares a row with mtimes and says nothing of the
repo; only these together lead from the row to what the index serves.

### HttpSessionsProofs

Any ids and handlers, any cap and timeout above 0, whenever the signal comes:
`TypeCorrect`, `NeverAboveCap` (CapRespected), `StreamsAreTold`
(RemovedAreCancelled), `StopIsFinal` (StopReachesAll), `NoneComesBack` (the
action property NoResurrection). What is not inductive is that a session out of
the map is cancelled: a handler that looked it up may be anywhere before its
stream opens. `InHand` says it of each such handler (the session is in the map,
or done, or in the hands of the one that is about to cancel it), `NotYetOpen` and
`ServedWhy` why nobody has a session before the port is open and why
ListenAndServe has returned, `StoppedWhy` that every context is done once main is
past StopParent. `NoResurrection` then needs only the guard of `Allocate`: the
handler takes an id that nobody speaks of.

### RegistryFileProofs

Any goroutines, entries and non-empty set of paths (`FileAssumption` sets a
registry apart from `None` and `Corrupt`): `TypeCorrect`, `NoLitterLeft`,
`NoUpdateLost` (NoLostUpdate), `NeverHalfWritten` (NeverTorn). `IInv` is the mutex
(`Exclusive`: who is between Lock and Unlock is who has it), `Whole` (a temporary
file is whole when it is renamed) and `BookIsFile`: while the file is good, what a
writer has loaded is the file, and what it is about to rename is the file with
its own row changed. The file may be damaged and put aside under a writer's feet;
it does not become good again before a store.

### LspClientProofs

Any finite set of callers, more ids than callers (`IdAssumption`; the code's
counter has 2^63), any semaphore, pipe and queue above 0: `TypeCorrect`,
`GivesBack` (NothingLeaks), `RepliesAreAnswers` (RepliesAnswer), `WholeFrames`
(FramesIntact), `ChildIsGone` (NoChildLeft). The child may send requests of its own
under any ids (`ServerIds`); `RepliesAreAnswers` is about replies, and says nothing
of a call that ends with such a request, as the code lets it. The callers are finite because tokens are counted:
`Tokens` is `sem = Cardinality(Holders)`. `Registered` and `Written` say whose an id
is and that nothing on its way back carries the id of a call that is not yet
written; `Room` that an unused id is left for everybody who is yet to take one;
`Stages` which steps exclude each other (one goroutine runs the handshake);
`Parity` that the stream to the child, with what it has half read, ends in a header
just when a writer is between its two writes, so that a second writer, who needs
the lock (`Locked`), cannot come between; `Life` when the child is dead.

### DispatchProofs, DiskCacheProofs, QueryGraphProofs, AnalysisProofs

What these are about is run as parts of `Analysis`. Their theorems are stated of
the part alone (of its `Spec`, with the module's assumption as a hypothesis, or
of one answer), and `AnalysisProofs` carries them over: a step of `Analysis` is a
step of the part its behaviour is of, and the others stay parked. `AnalysisProofs`
has the proofs about `RepoFiles` too, of its instance `Files`. `Analysis`, the
proof modules and `CodeSearch` each have instances of their own of the same
modules; lemmas (`GraphSame...`, `CodeSame...`) show them equal, operator by
operator.

| Theorem | States | of `Analysis` |
|---|---|---|
| `FilesInductive`, `CacheWithinCapacity` | `FilesIInv`, `LruBounded` | `NoStaleAnswer`: `Spec => []AnswersFresh` |
| `DispatchProofs!TypeCorrect`, `EveryAnswerIsLogged` | `TypeOK`, `AnsweredIsLogged` | `EveryAnswerIsLogged`: `Spec => []AnsweredIsLogged` |
| `DiskCacheProofs!LoadsAreCurrent` | `LoadedIsCurrent` | `LoadsAreCurrent`: `Spec => []LoadedIsCurrent` |
| `DiskCacheProofs!WithinBudget` | `BudgetKept` | `WithinBudget`: `Spec => []BudgetKept` |
| `DiskCacheProofs!TypeCorrect` | `TypeOK` | `TypeCorrect`: `Spec => []TypeOK`, the types of the three parts |
| `QueryGraphProofs!Inductive`, `RowsAreWalks` | `Inv`, `WalkExact` | `RowsAreWalks`: `Spec => []WalkExact` |
| `QueryGraphProofs!NodeEdgesExact` | `EdgesOwed` | `AnswersAreEdges`: `Spec => []EdgesExact` |
| `QueryGraphProofs!IdsLeadBack` | an id that `LeadsBack` is located | `NamesAreFound`: `Spec => []LocateInverts` |

* `RepoFiles`, any files, readers, capacity and edits. An answer may come from the
  LRU, from `r.files` or from the disk; so the invariant says of every parsed file
  anywhere that its content is no older than the mtime it is filed under (`Tidy`,
  `ResidentSound`), and of every call what the disk has been since it began
  (`CallKnows`). The LRU has a path once because `Slot` finds the only one.
* `Dispatch`, any servers, handlers, inputs, kills and failed writes. The
  invariant follows a line from the call to the file: the buffer that the
  daemon's goroutines share holds nothing but the line of the one that has the
  lock (`BufferEmpty`, `OwnLineOnly`), what is answered is in the file (`Recorded`)
  and nothing twice (`LoggedOnce`, from `LoggedBefore`), and requests come in order
  (`InOrder`). A broken log is an exception everywhere, as in the code.
* `DiskCache`, any finite sets of files and loaders, any cap, loads, faults and
  edits. Which inode a name has does not matter, and half-written contents do not
  decode; `EntriesSound` says that a content that decodes is no older than its
  mtime, `Knows` what a loader has seen of the file at hand, and `OneName` that a
  write goes into one inode only. A removed file does not come back, as in the
  model. `FreshIsFree` is a counting argument: each name and each loader has at
  most one inode, so there is one for the next Open.
* The eviction has an invariant of its own on top, `Swept`. `Watched`: when the
  directory is over its cap, then a Put has ended without a pass, or a loader is on
  its way to one, or in one that `Covers` the directory: what it has listed and not
  yet evicted is, path by path, at least what is there. A pass that covers the
  directory cannot end over the cap, as it never has more on its list than it
  counts (`Passes`); entries grow only at the hands of a loader that is on its
  way. `Ordered` keeps every inode that has a name in the order of writing, so
  that `Entries` lists them all, each once.
* What a sum (`SumFunction`) and a filter (`Only`) compute is proved by induction,
  though the library's induction theorems are out of reach: `Induction` and
  `SetInduction` say of a set of numbers, or of finite sets, that it has them all;
  they follow from the library's theorem about minimal elements of well-founded
  relations, which takes a set and not an operator. `FoldExists` gives the
  function that the CHOOSE of the community modules' folds stands for.
* `query_graph`, any repos that satisfy `IsRepo` and questions that satisfy
  `IsQuestion` (weights are naturals: the schema's minimum is 0), any cap on nodes,
  and any moment at which the clock runs out. The invariant `Inv` says what the
  frontier, the hits and `seen` are at each point of a step: the frontier's nodes
  are ends of walks of the steps done, the hits are ends of walks one longer, each
  with the score its seed gives it, and no node is in two rows. That alone makes
  every row a walk. That no row is missing needs more: while nothing has been cut
  and one kind of edge is followed, what can be reached in the steps done is in
  `seen`, and what the turn has passed has its targets among the hits; and from one
  seed no node comes at a depth beyond its distance. These parts hold only for
  scans that are `Roomy` (not cut at their own limit), as `WalkExact` says, since
  the code cuts the scan of one node without a flag.
* `node_edges`, any repo, id, kinds and limit below `Unlimited` (1001, the scan's
  own bound). A scan with a limit is the start of the same scan without
  (`ScanCut`), and four times the limit is enough to know whether a kind has more
  (`ScanEnough`). That callers answer callees is shown of an index of the files as
  they are, without a server, of callers that have an id of their own
  (`AsIndexed`), and of scans that are not cut at `Unlimited`.
* Ids and names, any repo whose index is of the files as they are, each file of one
  package (`Filed`). `LeadsBack` says which ids can lead back at all: the rules on
  one segment, one kind to a name, and a class in the method's file are hypotheses
  because the code loses the others (section 5). The proof follows `LocateSymbol`
  through its splits and look-ups; what it needs of sequences is that a selection of
  a selection, and a flattening of selections, keep the order of the index
  (`AtAt`, `FlattenSome`). find_symbol, find_referencing_symbols and
  get_code_snippet follow from the same lemmas (`FindOwed`, `RefsOwed`, `SnippetOwed`).
* The assumptions of these three are named in `Analysis` (`GraphAssumption`,
  `EdgeAssumption`, `IndexAssumption`), so TLC evaluates them with the inputs of the
  run.

### Only model-checked

* Liveness under fairness and ENABLED, for which the prover has no rules:
  `IdleGoesAway`, `StreamsEnd`, `SignalEnds`, `CloseEnds`, `CloseReleases`.
* The tools that sort or fold: `CyclesExact` (Tarjan's algorithm, by a recursive
  function), `HunksAttributed`, `ChunksExact` and `RankingExact` (folds and sorts of
  sequences). The prover has no definition of SelectSeq to use, a sort is a CHOOSE
  that takes an induction on its set to show there is one, and a fold takes one of
  its own for each operator folded, as there is for the sums and filters of
  `DiskCache`. The selections that `CodeIndex`, `NodeEdges` and `QueryGraph` are
  built from are defined by position (`Where`, `At`, `Nth`) and need none of it.
* What `LocateInverts` and `WalkExact` leave out on purpose, as the code does not
  promise it: ids that `LeadsBack` excludes, scans that are cut.

## 5. What the source says and the model does not confirm

Besides the six runs above, met while modelling.

Life of the daemon, sessions, clients, files:

* With `DrainFirst = FALSE`, `ShutdownReapsServers` fails: a request that
  outlives the grace period puts its repo in an index that is already closed
  (`transport.go:334-357`).
* With `EarlySignal = TRUE`, `SignalEnds` fails: a signal before `httpServer` is
  set leaves main waiting for a server that runs (`mcp.go:249-254`,
  `transport.go:340`).
* `Client.Close` never writes `shutdown` and `exit`: `closed` is set before the
  two Notify calls, which then return ErrClosed (`client.go:470-488`, `342`).
* A request of the language server with the id of a call under way ends that call
  with an empty result, and the reply that follows is dropped: `readLoop` does not
  look at the method (`client.go:452-467`), though server requests "are dropped"
  (`client.go:80-82`, `389-390`).
* The reaper goroutine is not stopped by Shutdown (`transport.go:36-38`, `113`).
* At the session cap the status 503 is written after the body
  (`transport.go:215-216`).
* A session can enter the map after Stop (`session.go:72`); its context is
  done, so nothing depends on it.
* `.tmp` files of the disk cache are never removed (`disk.go:198-200`, `236`).
* The stdio loop looks at its context only when a line has come
  (`server.go:199`, `211`), and a line longer than 8 MiB ends it.
* A notification that is not `notifications/initialized` is answered with an
  error and a null id (`server.go:328`, `333`); a result that cannot be marshalled
  is logged as a success (`server.go:305`).
* `LSPForLang` reads the map of clients without the lock under which `closeLSP`
  sets it to nil (`store.go:429`).
* Two CachedFile calls that cross an edit may leave older symbols beside a newer
  file until the next edit (`store.go:605`): `RepoFiles!SymbolsFollow`, which no
  run checks, fails with two readers and one edit.
* The file that a Put writes may be evicted by the pass of the same Put, or of
  another one, right after it.
* `GetLayer`, `PutLayer` and `ReloadInvalidate` are called by no code.

Index, ids and edges:

* `extractDocComment` uses a row of the index on the file as it is now: a file
  that has become shorter than that row makes it index past its lines, and
  nothing recovers (`node.go:507`).
* Lookup gives each declaration twice when the package is unset or the root.
* Ids of nested packages, of the root package and of modules are not split into
  what they were made from; that is why `LocateInverts` is about packages of one
  segment.
* A language server asked with includeDeclaration reports a symbol as its own
  caller; without a server, callers in a declaration's own file are never
  reported.

Graph tools:

* Hotspots and dead code, "by caller count", count the calls a symbol makes
  (`architecture.go:314`, `291`). An import `./x` is an edge of a file to itself.
  With exactly ten cycles the answer is marked truncated, and two of the capped
  sections never mark it (`architecture.go:201`).
* query_graph's rows are scored by their best seed, but a node is expanded only
  along the kind of its own step, and the scan of one node is cut without a flag
  (`querygraph.go:92`). `exclude: tests` looks at the caller's file for callees.
* node_edges' totals count at most four times the limit.
* edit_impact looks for conflicts in all packages, and callers do not count for
  `safe_to_rename` (`editimpact.go:90`).
* detect_changes: a path that git quotes gives its hunks to the file before it
  (`detectchanges.go:395`); changes are keyed by id, and files of the root by base
  name; hunks that only delete are not counted; an added line whose text begins with
  `++ b/` is taken for a header, and the hunks after it go to the file it names
  (`detectchanges.go:391`); a line over 1 MB ends the parse silently
  (`detectchanges.go:384`).

Search and symbol tools:

* search_code cuts the raw hits at 16 times the limit and drops the flag
  (`searchcode.go:177`); no group is ever popular (`searchcode.go:310`).
* find_code's enclosing declaration is the first, not the smallest
  (`findcode.go:410-412`), so search_code has a hit in a method in the group of its
  class; `RankingExact` asks only for a declaration around the hit.
* find_symbol without a package counts each match twice (`findsymbol.go:188`), and
  has no fallback (`findsymbol.go:185`).
* get_code_snippet: `ambiguous` is 1 for a unique match, a shortened package is put
  in front, a backward range panics in `File.Slice` (`getcodesnippet.go:136`,
  `168`, `208`).
* search never sets the field for regular expressions; comments are keyed by name,
  so two declarations of one name in a file share theirs.

Chunker and hybrid retrieval:

* A chunker that fails ends a run whose structural channel has hits (`hybrid.go:183`).
* Ties go by id, and an id missing from a channel adds nothing (`merge.go:77`); an
  id that is twice in a channel scores twice; the first payload is kept where the
  comment says the later; the structural channel's limit is 10 when unset.
* A structural hit's body is cut by row numbers taken as byte offsets.
* Blank rows above the first comment row of a function are skipped.

## 6. Plan

Done: all modules of section 2, the proofs of section 4, for every invariant and
action property of the concurrent components, and of the tools query_graph,
node_edges and those that take an id or a name.

Next, in this order:

1. An abstract registry, a map with atomic updates, that `RegistryFile`
   implements.
2. Lemmas about the operators of the other tools: sorts, `Share` (a better place is
   worth more), `Covers` of the windows.

## 7. Not modelled, and why

* Parsers, tree-sitter queries, regular expressions, text formatting: data
  without state. The declarations and the matches are inputs.
* The layers of a node (summary, receiver view, comment, references), the byte
  budget of tree_overview, the edit distance of suggestions: text.
* `CheckKnownGood` of the audit package, persisted queries, the start commands
  of the language servers, command line and configuration: a table, a hash file
  or a command that nothing else depends on.
* The second LRU (`GetLayer`, `PutLayer`) and `ReloadInvalidate`: called by no code.
* Floating-point scores inside a channel of the retrieval (BM25, bags of tokens):
  only the order they give is an input of `Fusion`.
* The language servers themselves, the operating system, the file system: they
  are environment actions.
* Flags, printing, editor extensions, fixtures, examples: not part of the core.
* Several processes on one registry: the package assumes one (`registry.go:8-10`).
