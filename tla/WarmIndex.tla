----------------------------- MODULE WarmIndex -----------------------------
(***************************************************************************)
(* The warm project index of the daemon: project.Index with its BindIndex  *)
(* table, project.Resolve, and the two tools that write to it,             *)
(* index_repository and delete_project, together with the life of a        *)
(* *store.Repo (Pin, Close, ForceClose) and the end of the process.        *)
(*                                                                         *)
(* Every request runs on a goroutine of its own, so a handler is a program *)
(* counter that moves through the calls it makes; each action is one       *)
(* critical section (registry lock, Index.mu, Repo.mu) or one call that    *)
(* reads or writes the file system.  A project tree is abstracted to the   *)
(* time of its last change, and a loaded repo to the change it last saw:   *)
(* its file list, symbol table and call edges are those of that moment.    *)
(***************************************************************************)
EXTENDS Integers

CONSTANTS
  Paths,       \* project roots
  Workers,     \* goroutines serving a request
  Repos,       \* *store.Repo objects; reused once nothing refers to them
  NoRepo,      \* the absent map entry
  MaxClock,    \* bound on the number of changes made to the trees
  Changes,     \* how the environment changes a tree: "edit", "remove"
  QuietLoads,  \* TRUE: nobody changes a tree while a request is loading it
  DrainFirst   \* TRUE: the process ends only when no request is in flight

ASSUME NoRepoAssumption == NoRepo \notin Repos
ASSUME PathsAssumption == Paths # {}
ASSUME ClockAssumption == MaxClock \in Nat
ASSUME ChangesAssumption == Changes \subseteq {"edit", "remove"}
ASSUME SwitchAssumption == QuietLoads \in BOOLEAN /\ DrainFirst \in BOOLEAN

VARIABLES
  clock,       \* wall clock; it ticks with every change
  changed,     \* changed[p]: when the tree of p last changed
  newest,      \* newest[p]: the newest mtime newestMTime finds in it
  rows,        \* the paths with a row in the registry
  indexedAt,   \* Entry.IndexedAt of the row of p
  rowContent,  \* the change that the row's Files and Languages describe
  cacheDir,    \* the paths whose per-repo disk cache directory exists
  home,        \* Repo.root
  content,     \* the change a repo had seen when it was loaded
  live,        \* repos whose language servers run
  pinned,      \* Repo.pinned
  index,       \* Index.byPath
  daemon,      \* "up", "closed" after Index.Close, "unbound" after BindIndex(nil)
  pc,          \* where the request of a worker is
  op,          \* which handler it runs
  arg,         \* the project it names
  held,        \* the repo its handler has in hand
  handle,      \* whether the last IndexFor returned an index
  at           \* the time its handler took: IndexedAt read, or time.Now()

tree == <<clock, changed, newest>>
disk == <<rows, indexedAt, rowContent, cacheDir>>
heap == <<home, content, live, pinned>>
local == <<op, arg, held, handle, at>>
vars == <<tree, disk, heap, index, daemon, pc, local>>

Ops == {"resolve", "index", "prime", "delete"}
Labels == {"idle", "row", "for", "get", "open", "read", "fetch", "insert", "use",
           "stamp", "upsert", "ixrow", "ixfresh", "del", "evictfor", "evict", "rmcache"}
Times == 0 .. MaxClock

TypeOK ==
  /\ clock \in Times
  /\ changed \in [Paths -> Times]
  /\ newest \in [Paths -> Times]
  /\ rows \subseteq Paths
  /\ indexedAt \in [Paths -> Times]
  /\ rowContent \in [Paths -> Times]
  /\ cacheDir \subseteq Paths
  /\ home \in [Repos -> Paths]
  /\ content \in [Repos -> Times]
  /\ live \subseteq Repos
  /\ pinned \subseteq Repos
  /\ index \in [Paths -> Repos \cup {NoRepo}]
  /\ daemon \in {"up", "closed", "unbound"}
  /\ pc \in [Workers -> Labels]
  /\ op \in [Workers -> Ops]
  /\ arg \in [Workers -> Paths]
  /\ held \in [Workers -> Repos \cup {NoRepo}]
  /\ handle \in [Workers -> BOOLEAN]
  /\ at \in [Workers -> Times]

NoEntries == [p \in Paths |-> NoRepo]
AnyPath == CHOOSE p \in Paths : TRUE

Init ==
  /\ clock = 0
  /\ changed = [p \in Paths |-> 0]
  /\ newest = [p \in Paths |-> 0]
  /\ rows = {}
  /\ indexedAt = [p \in Paths |-> 0]
  /\ rowContent = [p \in Paths |-> 0]
  /\ cacheDir = {}
  /\ home = [r \in Repos |-> AnyPath]
  /\ content = [r \in Repos |-> 0]
  /\ live = {}
  /\ pinned = {}
  /\ index = NoEntries
  /\ daemon = "up"
  /\ pc = [w \in Workers |-> "idle"]
  /\ op = [w \in Workers |-> "resolve"]
  /\ arg = [w \in Workers |-> AnyPath]
  /\ held = [w \in Workers |-> NoRepo]
  /\ handle = [w \in Workers |-> FALSE]
  /\ at = [w \in Workers |-> 0]

-----------------------------------------------------------------------------
(* Faulty variants of helpers below, one per mutation check: a row stamped   *)
(* in the future; a Put that keeps the entry it finds, forgets to pin or     *)
(* forgets to close what it replaces; a Close that ignores the pin, or is    *)
(* forgotten; an eviction that only drops the entry; a row stamped when it   *)
(* is stored.                                                                *)
NowAhead == clock + 1
PutIfAbsent(p, r) == IF index[p] = NoRepo THEN [index EXCEPT ![p] = r] ELSE index
PutUnpinned(p, r) == pinned \ {index[p]}
PutKeepsOld(p, r) == live
CloseAlways(r) == live \ {r}
CloseForgotten(r) == live
DroppedOnly(ps) == live
RowTimeLate(w) == clock

-----------------------------------------------------------------------------
(* Helpers *)

Goto(w, label) == pc' = [pc EXCEPT ![w] = label]

(* The handler returns: it drops what it had in hand. *)
Return(w) ==
  /\ Goto(w, "idle")
  /\ op' = [op EXCEPT ![w] = "resolve"]
  /\ arg' = [arg EXCEPT ![w] = AnyPath]
  /\ held' = [held EXCEPT ![w] = NoRepo]
  /\ handle' = [handle EXCEPT ![w] = FALSE]
  /\ at' = [at EXCEPT ![w] = 0]

Indexed == {r \in Repos : \E p \in Paths : index[p] = r}
Holders(r) == {w \in Workers : held[w] = r}

(* A repo object the garbage collector could have given back. *)
Free == {r \in Repos : r \notin live /\ r \notin Indexed /\ Holders(r) = {}}

(* A request between the read of the tree and the moment its result counts:  *)
(* stored in the index, and for index_repository stamped with the time too.  *)
Loading(w) ==
  /\ held[w] # NoRepo
  /\ pc[w] \in {"fetch", "insert"} \/ (op[w] = "index" /\ pc[w] \in {"use", "stamp"})

(* The wall clock of the process. *)
Now == clock

(* Index.Put of r at p: the maps after it.  The replaced repo is ForceClose'd. *)
PutEntry(p, r) == [index EXCEPT ![p] = r]
PutPinned(p, r) == (pinned \ {index[p]}) \cup {r}
PutLive(p, r) == live \ ({index[p]} \ {r})

(* repo.Close(). *)
CloseRepo(r) == IF r \in pinned THEN live ELSE live \ {r}

(* Index.Delete and Index.Close: the running repos after the entries of some *)
(* paths are ForceClose'd.                                                   *)
ForceClosed(ps) == live \ {r \in Repos : \E p \in ps : index[p] = r}

Quiet(p) == QuietLoads => \A w \in Workers : ~(arg[w] = p /\ Loading(w))

(* index_repository and index_status: no source file is newer than the row. *)
Fresh(p) == p \in rows /\ p \in cacheDir /\ newest[p] <= indexedAt[p]

-----------------------------------------------------------------------------
(* The trees, changed by editors while the daemon runs *)

(* A file is written: the newest mtime moves with the change. *)
Edit(p) ==
  /\ "edit" \in Changes
  /\ clock < MaxClock
  /\ Quiet(p)
  /\ clock' = clock + 1
  /\ changed' = [changed EXCEPT ![p] = clock + 1]
  /\ newest' = [newest EXCEPT ![p] = clock + 1]
  /\ UNCHANGED <<disk, heap, index, daemon, pc, local>>

(* A file is removed: no mtime of the remaining files moves. *)
Remove(p) ==
  /\ "remove" \in Changes
  /\ clock < MaxClock
  /\ Quiet(p)
  /\ clock' = clock + 1
  /\ changed' = [changed EXCEPT ![p] = clock + 1]
  /\ UNCHANGED <<newest, disk, heap, index, daemon, pc, local>>

-----------------------------------------------------------------------------
(* Requests *)

(* A tool call arrives: a code-intel tool that resolves a project, or one of *)
(* index_repository and delete_project.                                      *)
Start(w, o, p) ==
  /\ daemon = "up"
  /\ pc[w] = "idle"
  /\ o # "prime"
  /\ Goto(w, CASE o = "resolve" -> "row" [] o = "index" -> "ixrow" [] OTHER -> "del")
  /\ op' = [op EXCEPT ![w] = o]
  /\ arg' = [arg EXCEPT ![w] = p]
  /\ UNCHANGED <<tree, disk, heap, index, daemon, held, handle, at>>

(* project.Resolve: reg.GetByPath, or ErrNotIndexed. *)
CheckRow(w) ==
  /\ pc[w] = "row"
  /\ \/ arg[w] \in rows /\ Goto(w, "for") /\ UNCHANGED local
     \/ arg[w] \notin rows /\ Return(w)
  /\ UNCHANGED <<tree, disk, heap, index, daemon>>

(* IndexFor before a Get.  Unbound, Resolve loads and the prime step of      *)
(* index_repository gives up.                                                *)
LookupIndex(w) ==
  /\ pc[w] = "for"
  /\ \/ daemon # "unbound" /\ Goto(w, "get") /\ UNCHANGED local
     \/ daemon = "unbound" /\ op[w] = "resolve" /\ Goto(w, "open") /\ UNCHANGED local
     \/ daemon = "unbound" /\ op[w] = "prime" /\ Return(w)
  /\ UNCHANGED <<tree, disk, heap, index, daemon>>

(* Index.Get.  A hit gives Resolve the pinned repo; the prime step has       *)
(* nothing left to do.                                                       *)
Get(w) ==
  LET r == index[arg[w]] IN
  /\ pc[w] = "get"
  /\ \/ /\ r # NoRepo
        /\ op[w] = "resolve"
        /\ Goto(w, "use")
        /\ held' = [held EXCEPT ![w] = r]
        /\ UNCHANGED <<op, arg, handle, at>>
     \/ r # NoRepo /\ op[w] = "prime" /\ Return(w)
     \/ r = NoRepo /\ Goto(w, "open") /\ UNCHANGED local
  /\ UNCHANGED <<tree, disk, heap, index, daemon>>

(* store.Load begins: NewDiskCache makes the cache directory. *)
Open(w) ==
  /\ pc[w] = "open"
  /\ cacheDir' = cacheDir \cup {arg[w]}
  /\ Goto(w, "read")
  /\ UNCHANGED <<tree, rows, indexedAt, rowContent, heap, index, daemon, local>>

(* store.Load walks the tree, builds the index and starts the servers. *)
Read(w) ==
  /\ pc[w] = "read"
  /\ \E r \in Free :
       /\ home' = [home EXCEPT ![r] = arg[w]]
       /\ content' = [content EXCEPT ![r] = changed[arg[w]]]
       /\ live' = live \cup {r}
       /\ held' = [held EXCEPT ![w] = r]
  /\ Goto(w, "fetch")
  /\ UNCHANGED <<tree, disk, pinned, index, daemon, op, arg, handle, at>>

(* PutFor: IndexFor first ... *)
Fetch(w) ==
  /\ pc[w] = "fetch"
  /\ handle' = [handle EXCEPT ![w] = (daemon # "unbound")]
  /\ Goto(w, "insert")
  /\ UNCHANGED <<tree, disk, heap, index, daemon, op, arg, held, at>>

(* ... then Index.Put: pin the repo, ForceClose the one it replaces.  Pin    *)
(* touches a repo no other goroutine has yet, so it is one step with the     *)
(* insertion.                                                                *)
Insert(w) ==
  /\ pc[w] = "insert"
  /\ \/ /\ handle[w]
        /\ pinned' = PutPinned(arg[w], held[w])
        /\ live' = PutLive(arg[w], held[w])
        /\ index' = PutEntry(arg[w], held[w])
     \/ ~handle[w] /\ UNCHANGED <<pinned, live, index>>
  /\ Goto(w, "use")
  /\ UNCHANGED <<tree, disk, home, content, daemon, local>>

(* The tool uses the repo, then repo.Close(): a no-op on a pinned repo.      *)
(* index_repository goes on to write its row.                                *)
Use(w) ==
  /\ pc[w] = "use"
  /\ live' = CloseRepo(held[w])
  /\ \/ op[w] # "index" /\ Return(w)
     \/ op[w] = "index" /\ Goto(w, "stamp") /\ UNCHANGED local
  /\ UNCHANGED <<tree, disk, home, content, pinned, index, daemon>>

(* index_repository builds the row: IndexedAt is the time now. *)
Stamp(w) ==
  /\ pc[w] = "stamp"
  /\ at' = [at EXCEPT ![w] = Now]
  /\ Goto(w, "upsert")
  /\ UNCHANGED <<tree, disk, heap, index, daemon, op, arg, held, handle>>

(* reg.Upsert of the row it built, then the handler returns. *)
RowTime(w) == at[w]

Upsert(w) ==
  LET p == arg[w] IN
  /\ pc[w] = "upsert"
  /\ rows' = rows \cup {p}
  /\ indexedAt' = [indexedAt EXCEPT ![p] = RowTime(w)]
  /\ rowContent' = [rowContent EXCEPT ![p] = content[held[w]]]
  /\ Return(w)
  /\ UNCHANGED <<tree, cacheDir, heap, index, daemon>>

(* index_repository reads the row.  No row, another mode or another name:    *)
(* load.                                                                     *)
IxRow(w) ==
  /\ pc[w] = "ixrow"
  /\ \/ /\ arg[w] \in rows
        /\ at' = [at EXCEPT ![w] = indexedAt[arg[w]]]
        /\ Goto(w, "ixfresh")
     \/ Goto(w, "open") /\ UNCHANGED at
  /\ UNCHANGED <<tree, disk, heap, index, daemon, op, arg, held, handle>>

(* ... then looks at the cache directory and the mtimes.  A fresh project is *)
(* only primed; its row is returned as it was read.                          *)
IxFresh(w) ==
  LET fresh == arg[w] \in cacheDir /\ newest[arg[w]] <= at[w] IN
  /\ pc[w] = "ixfresh"
  /\ \/ fresh /\ Goto(w, "for") /\ op' = [op EXCEPT ![w] = "prime"]
     \/ ~fresh /\ Goto(w, "open") /\ UNCHANGED op
  /\ at' = [at EXCEPT ![w] = 0]
  /\ UNCHANGED <<tree, disk, heap, index, daemon, arg, held, handle>>

(* delete_project: reg.Delete. *)
DeleteRow(w) ==
  /\ pc[w] = "del"
  /\ rows' = rows \ {arg[w]}
  /\ indexedAt' = [indexedAt EXCEPT ![arg[w]] = 0]
  /\ rowContent' = [rowContent EXCEPT ![arg[w]] = 0]
  /\ Goto(w, "evictfor")
  /\ UNCHANGED <<tree, cacheDir, heap, index, daemon, local>>

(* EvictFor: IndexFor first ... *)
EvictFetch(w) ==
  /\ pc[w] = "evictfor"
  /\ handle' = [handle EXCEPT ![w] = (daemon # "unbound")]
  /\ Goto(w, "evict")
  /\ UNCHANGED <<tree, disk, heap, index, daemon, op, arg, held, at>>

(* ... then Index.Delete: drop the entry and ForceClose it. *)
Evict(w) ==
  /\ pc[w] = "evict"
  /\ \/ /\ handle[w]
        /\ pinned' = pinned \ {index[arg[w]]}
        /\ live' = ForceClosed({arg[w]})
        /\ index' = [index EXCEPT ![arg[w]] = NoRepo]
     \/ ~handle[w] /\ UNCHANGED <<pinned, live, index>>
  /\ Goto(w, "rmcache")
  /\ UNCHANGED <<tree, disk, home, content, daemon, local>>

(* os.RemoveAll of the cache directory. *)
RemoveCache(w) ==
  /\ pc[w] = "rmcache"
  /\ cacheDir' = cacheDir \ {arg[w]}
  /\ Return(w)
  /\ UNCHANGED <<tree, rows, indexedAt, rowContent, heap, index, daemon>>

(* A call the handler makes fails and it returns the error: the registry     *)
(* read of Resolve, store.Load before it reads, reg.Upsert, reg.Delete and   *)
(* os.RemoveAll.                                                             *)
Fail(w) ==
  /\ pc[w] \in {"row", "open", "upsert", "del", "rmcache"}
  /\ Return(w)
  /\ UNCHANGED <<tree, disk, heap, index, daemon>>

-----------------------------------------------------------------------------
(* The end of the process *)

(* Index.Close: every entry is ForceClose'd.  With DrainFirst the caller has *)
(* waited for its requests (the stdio loop); the HTTP daemon comes here when *)
(* its grace period is over, requests in flight or not.                      *)
CloseIndex ==
  /\ daemon = "up"
  /\ DrainFirst => \A w \in Workers : pc[w] = "idle"
  /\ daemon' = "closed"
  /\ pinned' = pinned \ Indexed
  /\ live' = ForceClosed(Paths)
  /\ index' = NoEntries
  /\ UNCHANGED <<tree, disk, home, content, pc, local>>

(* BindIndex(reg, nil). *)
Unbind ==
  /\ daemon = "closed"
  /\ daemon' = "unbound"
  /\ UNCHANGED <<tree, disk, heap, index, pc, local>>

(* The process ends or is killed, and another one starts: the registry file  *)
(* and the cache directories are what is left.                               *)
Restart ==
  /\ home' = [r \in Repos |-> AnyPath]
  /\ content' = [r \in Repos |-> 0]
  /\ live' = {}
  /\ pinned' = {}
  /\ index' = NoEntries
  /\ daemon' = "up"
  /\ pc' = [w \in Workers |-> "idle"]
  /\ op' = [w \in Workers |-> "resolve"]
  /\ arg' = [w \in Workers |-> AnyPath]
  /\ held' = [w \in Workers |-> NoRepo]
  /\ handle' = [w \in Workers |-> FALSE]
  /\ at' = [w \in Workers |-> 0]
  /\ UNCHANGED <<tree, disk>>

-----------------------------------------------------------------------------
Step(w) ==
  \/ CheckRow(w) \/ LookupIndex(w) \/ Get(w) \/ Open(w) \/ Read(w) \/ Fetch(w)
  \/ Insert(w) \/ Use(w) \/ Stamp(w) \/ Upsert(w) \/ IxRow(w) \/ IxFresh(w)
  \/ DeleteRow(w) \/ EvictFetch(w) \/ Evict(w) \/ RemoveCache(w) \/ Fail(w)

Environment ==
  \/ \E p \in Paths : Edit(p) \/ Remove(p)
  \/ \E w \in Workers, o \in Ops, p \in Paths : Start(w, o, p)

Next ==
  \/ Environment
  \/ \E w \in Workers : Step(w)
  \/ CloseIndex
  \/ Unbind
  \/ Restart

Spec == Init /\ [][Next]_vars

-----------------------------------------------------------------------------
(* Safety *)

(* What Get hands out has running servers, belongs to the path it was asked  *)
(* for, and is pinned, so that no tool's deferred Close tears it down.       *)
WarmEntriesLive ==
  \A p \in Paths : index[p] # NoRepo =>
    index[p] \in live /\ index[p] \in pinned /\ home[index[p]] = p

(* Language servers run only for a repo that the index owns or a request has *)
(* in hand: whatever order replacements, evictions and closes come in, no    *)
(* child is left that nobody will reap.                                      *)
NoOrphanedServers ==
  \A r \in live : r \in Indexed \/ Holders(r) # {}

(* A repo that is alive and not pinned is in the hands of exactly one        *)
(* request: the Close of that request reaps nothing another one uses.        *)
UnpinnedIsPrivate ==
  \A r \in live \ pinned : r \notin Indexed /\ \E w \in Workers : Holders(r) = {w}

(* "You were already up to date": a project the freshness rule accepts is    *)
(* served, when it is warm, from a repo that has seen every change that left *)
(* a file behind.  (A removal leaves none, and the rule cannot see it.)      *)
FreshMeansCurrent ==
  \A p \in Paths : Fresh(p) /\ index[p] # NoRepo => content[index[p]] >= newest[p]

(* The warm repo is at least as recent as the load that wrote the row: what  *)
(* list_projects says was indexed is what a Resolve serves.                  *)
RowNeverAhead ==
  \A p \in rows : index[p] # NoRepo => content[index[p]] >= rowContent[p]

(* When the process has ended its index and its last request has returned,   *)
(* no language server is left.                                               *)
ShutdownReapsServers ==
  daemon = "unbound" /\ (\A w \in Workers : pc[w] = "idle") => live = {}

-----------------------------------------------------------------------------
(* A step *)

(* The servers of a repo stop only by the Close of the one request that has  *)
(* it, by its replacement or eviction at its own path, or with the index: a  *)
(* request that got it from the index never loses it to another project.     *)
ReapedAtItsOwnPath ==
  [][\A r \in live : r \notin live' =>
       \/ r \in pinned /\ index[home[r]] = r /\ index'[home[r]] # r
       \/ r \notin pinned /\ \E w \in Workers : held[w] = r /\ pc[w] = "use"
       \/ live' = {} /\ \A w \in Workers : pc'[w] = "idle"]_vars

(* Refinement: the index, and what a repo is to it, do what RepoLifecycle    *)
(* says.                                                                     *)
StateOf(r) == IF r \in pinned THEN "shared" ELSE IF r \in live THEN "private" ELSE "none"

Lifecycle == INSTANCE RepoLifecycle
               WITH slot <- index, state <- [r \in Repos |-> StateOf(r)], root <- home

(* The index and the repos behave as RepoLifecycle: a repo changes hands     *)
(* only by being published, retired or dropped.                              *)
LifecycleSpec == Lifecycle!LSpec
=============================================================================
