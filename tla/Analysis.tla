------------------------------- MODULE Analysis -------------------------------
(***************************************************************************)
(* The read side of the program: the caches that store.Load and CachedFile *)
(* read through, the dispatch of requests with its audit log, and the      *)
(* tools that answer from the index.  These share no state at run time, so *)
(* they are checked side by side: part says which one a behaviour is of,   *)
(* and the variables of the others are parked.                             *)
(*                                                                         *)
(* A tool is one handler that reads and changes nothing: a behaviour of it *)
(* is a question, an answer.  query_graph, which has an order of its own,  *)
(* and the concurrent components are state machines.                       *)
(***************************************************************************)
EXTENDS AnalysisInputs

CONSTANTS
  Parts,      \* the parts to check
  Paths,      \* files on disk, for the two caches
  Loaders, Cap,                \* DiskCache
  Readers, FileCap, MaxEdits,  \* RepoFiles
  Stdio, Handlers, MaxFaults,  \* Dispatch
  MaxVisited,                  \* QueryGraph
  RRFK, MaxRank                \* Fusion

VARIABLES
  part,
  pc,
  tree, files, cur, todo,                                         \* shared names
  key, tmp, content, recent, fd, scan, total, from, unswept, left, \* DiskCache
  lru, syms, began, edits,                                        \* RepoFiles
  wire, log, buf, broken, lock, signalled, faults,                \* Dispatch
  repo, asked, bfs,                                               \* QueryGraph
  answer                                                          \* the tools

Disk == INSTANCE DiskCache WITH Bounds <- DiskBounds
Files == INSTANCE RepoFiles
Server == INSTANCE Dispatch WITH Inputs <- Streams
Graph == INSTANCE QueryGraph WITH Repos <- CallRepos, Questions <- Walks
Arch == INSTANCE Architecture
Impact == INSTANCE ChangeImpact
Chunker == INSTANCE Chunks
Hybrid == INSTANCE Fusion
Code == INSTANCE CodeSearch

ASSUME DiskAssumption == Disk!DiskCacheAssumption
ASSUME FilesAssumption == Files!RepoFilesAssumption
ASSUME ServerAssumption == Server!DispatchAssumption
ASSUME GraphAssumption == Graph!QueryGraphAssumption
ASSUME EdgeAssumption ==
  /\ \A R \in EdgeRepos : Graph!IsRepo(R)
  /\ \A q \in EdgeQuestions : q.limit \in Int /\ q.limit < Graph!Unlimited
ASSUME IndexAssumption ==
  /\ \A R \in IdRepos \cup SymbolRepos : Graph!IsRepo(R) /\ Graph!Filed(R)
  /\ \A R \in SymbolRepos : \A d \in ToSet(R.now) : d.start \in Int /\ d.end \in Int /\ d.start < d.end
  /\ \A q \in SymbolQuestions : q.limit \in Int /\ (q.range # <<>> => q.range[1] \in Int /\ q.range[2] \in Int)
ASSUME HybridAssumption == Hybrid!FusionAssumption

Parked == "parked"
ofDisk == <<key, tmp, content, recent, fd, scan, total, from, unswept, left>>
ofFiles == <<lru, syms, began, edits>>
ofServer == <<wire, log, buf, broken, lock, signalled, faults>>
ParkDisk ==
  /\ key = Parked /\ tmp = Parked /\ content = Parked /\ recent = Parked
  /\ fd = Parked /\ scan = Parked /\ total = Parked /\ from = Parked
  /\ unswept = Parked /\ left = Parked
ParkFiles ==
  /\ lru = Parked /\ syms = Parked /\ began = Parked /\ edits = Parked
ParkServer ==
  /\ wire = Parked /\ log = Parked /\ buf = Parked /\ broken = Parked
  /\ lock = Parked /\ signalled = Parked /\ faults = Parked
ParkTools ==
  /\ repo = Parked /\ asked = Parked /\ bfs = Parked /\ answer = Parked

(***************************************************************************)
(* The concurrent parts.                                                   *)
(***************************************************************************)
DiskInit ==
  part = "disk" /\ Disk!Init /\ ParkFiles /\ ParkServer /\ ParkTools
DiskNext ==
  part = "disk" /\ Disk!Next /\ UNCHANGED <<part, ofFiles, ofServer, repo, asked, bfs, answer>>

FilesInit ==
  /\ part = "files" /\ Files!Init
  /\ ParkDisk /\ ParkServer /\ ParkTools /\ todo = Parked
FilesNext ==
  part = "files" /\ Files!Next /\ UNCHANGED <<part, ofDisk, ofServer, todo, repo, asked, bfs, answer>>

ServerInit ==
  /\ part = "server" /\ Server!Init
  /\ ParkDisk /\ ParkFiles /\ ParkTools /\ tree = Parked /\ files = Parked
ServerNext ==
  part = "server" /\ Server!Next /\ UNCHANGED <<part, ofDisk, ofFiles, tree, files, repo, asked, bfs, answer>>

others == <<ofDisk, ofFiles, ofServer, tree, files, cur, todo>>
ParkOthers ==
  /\ ParkDisk /\ ParkFiles /\ ParkServer
  /\ tree = Parked /\ files = Parked /\ cur = Parked /\ todo = Parked

GraphInit == part = "graph" /\ Graph!Init /\ ParkOthers /\ answer = Parked
GraphNext == part = "graph" /\ Graph!Next /\ UNCHANGED <<part, others, answer>>

(***************************************************************************)
(* The tools.                                                              *)
(***************************************************************************)
Asks(what) == part = what /\ pc = "ask" /\ answer = Parked /\ bfs = Parked /\ ParkOthers
ToolInit ==
  \/ Asks("edges") /\ repo \in EdgeRepos /\ asked \in EdgeQuestions
  \/ Asks("locate") /\ repo \in IdRepos /\ asked \in {Graph!ID(d) : d \in ToSet(repo.now)}
  \/ Asks("architecture") /\ repo \in ImportRepos /\ asked = 10
  \/ Asks("changes") /\ repo \in DiffRepos /\ asked \in DiffsOf(repo)
  \/ Asks("renames") /\ repo \in DiffRepos
     /\ asked \in RenameLists
  \/ Asks("chunks") /\ repo \in ChunkRepos /\ asked \in ChunkQuestions
  \/ Asks("code") /\ repo \in CodeRepos /\ asked \in CodeQuestions
  \/ Asks("search") /\ repo \in CodeRepos /\ asked \in Searches
  \/ Asks("symbols") /\ repo \in SymbolRepos /\ asked \in SymbolQuestions
  \/ Asks("hybrid") /\ repo = Parked /\ asked \in Retrievals

Replies(what, a) ==
  /\ part = what /\ pc = "ask" /\ pc' = "answered" /\ answer' = a
  /\ UNCHANGED <<part, others, repo, asked, bfs>>

Edges == Replies("edges", Graph!NodeEdgesAnswer(repo, asked.id, asked.kinds, asked.limit))
Locate == Replies("locate", Graph!LocateSymbol(repo, asked))
Architecture == Replies("architecture", Arch!GetArchitecture(repo, asked, TRUE))
Changes == Replies("changes", Impact!DetectChanges(repo, asked, 0))
Renames == Replies("renames", Impact!EditImpact(repo, asked))
Chunk ==
  Replies("chunks", [chunks |-> Chunker!Run(repo, asked.opts, asked.policy, asked.files),
                     windows |-> Chunker!Windows(asked.size)])
FindCode == Replies("code", [hits |-> Code!FindCode(repo, asked), groups |-> Code!SearchCode(repo, asked)])
Search == Replies("search", Code!Search(repo, asked))
Symbols ==
  Replies("symbols",
    [find |-> Code!FindSymbol(repo, asked.pkg, asked.names, asked.limit),
     refs |-> Code!FindReferencingSymbols(repo, asked.names, asked.kinds, asked.limit),
     snippet |-> Code!GetCodeSnippet(repo, asked.pkg, asked.name, asked.range)])
Retrieve == Replies("hybrid", Hybrid!RunFusion(asked))

Init ==
  part \in Parts /\ (DiskInit \/ FilesInit \/ ServerInit \/ GraphInit \/ ToolInit)
Next ==
  \/ DiskNext \/ FilesNext \/ ServerNext \/ GraphNext
  \/ Edges \/ Locate \/ Architecture \/ Changes \/ Renames \/ Chunk \/ FindCode \/ Search \/ Symbols \/ Retrieve

vars == <<part, pc, others, repo, asked, bfs, answer>>
Spec == Init /\ [][Next]_vars

Symmetry == Permutations(Loaders) \cup Permutations(Readers) \cup Permutations(Handlers)

(***************************************************************************)
(* Properties of the concurrent parts, which their modules state.          *)
(***************************************************************************)

(* The caches, the locks and the steps of the dispatch are what their      *)
(* modules say; no inode of the cache directory has two names.             *)
TypeOK ==
  /\ part = "disk" => Disk!TypeOK
  /\ part = "files" => Files!TypeOK
  /\ part = "server" => Server!TypeOK

(* A load never records of a file what is older than the load (disk.go).   *)
LoadedIsCurrent == part = "disk" => Disk!LoadedIsCurrent

(* The disk cache is within its budget when no Put is under way (disk.go). *)
BudgetKept == part = "disk" => Disk!BudgetKept

(* CachedFile never answers with what is older than the call, and the LRU  *)
(* is within its capacity (store.go, cache.go).                            *)
AnswersFresh == part = "files" => Files!AnswersFresh /\ Files!LruBounded

(* A call that is answered has one line in the audit log (server.go).      *)
AnsweredIsLogged == part = "server" => Server!AnsweredIsLogged

(* query_graph gives ends of walks, each with its depth and score, and all *)
(* of them when it does not say it is truncated (querygraph.go).           *)
WalkExact == part = "graph" => Graph!WalkExact

(***************************************************************************)
(* Properties of the tools.                                                *)
(***************************************************************************)
Answered(what) == part = what /\ pc = "answered"
Decls == ToSet(repo.now)

(* node_edges is exact (nodeedges.go): of each kind asked for it gives the *)
(* first edges there are, up to the limit, it says truncated just when one *)
(* kind has more, and the two directions of a call agree.                  *)
EdgesExact ==
  Answered("edges") => Graph!EdgesOwed(repo, asked.id, asked.kinds, asked.limit, answer)

(* In a package of one segment the id of a declaration leads back to a     *)
(* declaration of that id (entity.go, resolver.go), when its package gives *)
(* the name to one kind only, and a method's file declares its class.      *)
(* So do the tools that take a name: within a package find_symbol gives    *)
(* the first declarations of the names, and none is missing when it does   *)
(* not say so; the snippet and the references are of one of them.          *)
AllKnown == \A d \in Decls : Graph!LeadsBack(repo, d)
NamesLeadBack ==
  LET most == IF asked.limit <= 0 THEN 20 ELSE asked.limit
      wanted == Graph!Where(repo.now, LAMBDA d : d.name \in asked.names /\ asked.pkg \in {<<>>, d.pkg})
      found == answer.find.found
      snippet == answer.snippet.shown
      Shows(d) == snippet.id = Graph!ID(d) /\ snippet.rows[1] >= d.start /\ snippet.rows[2] <= d.end
  IN /\ asked.pkg # <<>> =>
          /\ [n \in DOMAIN found |-> found[n].id] = Graph!UpTo(most, [n \in DOMAIN wanted |-> Graph!ID(wanted[n])])
          /\ answer.find.truncated <=> Len(wanted) > most
     /\ ~answer.find.truncated => {n.id : n \in ToSet(found)} = {Graph!ID(d) : d \in ToSet(wanted)}
     /\ AllKnown =>
          /\ \A n \in ToSet(found) : Graph!Found(n.at) /\ Graph!ID(n.at) = n.id
          /\ asked.pkg = <<>> => (answer.refs.ok <=> wanted # <<>>)
          /\ asked.range = <<>> => (snippet.outcome = "text" <=> \E d \in Decls : d.name = asked.name)
          /\ snippet.outcome = "text" => \E d \in Decls : d.name = asked.name /\ Shows(d)

LocateInverts ==
  /\ Answered("locate") =>
       ((\A d \in Decls : Graph!ID(d) = asked => Graph!LeadsBack(repo, d)) =>
         Graph!Found(answer) /\ Graph!ID(answer) = asked)
  /\ Answered("symbols") => NamesLeadBack

(* get_architecture's import cycles are the sets of files that reach each  *)
(* other by imports, each once (architecture.go).                          *)
CyclesExact ==
  Answered("architecture") =>
    /\ {ToSet(c) : c \in ToSet(answer.cycles)} = Arch!CycleSets(Arch!Adj(repo))
    /\ \A m, n \in DOMAIN answer.cycles : m # n => ToSet(answer.cycles[m]) \cap ToSet(answer.cycles[n]) = {}

(* detect_changes gives the rows that a diff changes, no others, to their  *)
(* smallest declaration, for a plain diff (detectchanges.go).  edit_impact *)
(* fails as a whole when one of its ids is of no declaration; else it has, *)
(* rename by rename, the declarations of other files that call the one     *)
(* renamed, the tests, and "safe" only when nothing bears the new name     *)
(* (editimpact.go).                                                        *)
HunksAttributed ==
  /\ Answered("changes") =>
       (Impact!Plain(repo, asked) /\ ~answer.truncated => Impact!Attributed(repo, asked, answer))
  /\ Answered("renames") => Impact!RenamesOwed(repo, asked, answer)

(* Every function of an included file has one chunk, with its body and the *)
(* comment right above it, in source order and whatever the order of Go's  *)
(* map; the windows of the baseline cover a file (chunker.go, baseline.go). *)
Shuffled == [repo EXCEPT !.order = Reverse(@)]
ChunksExact ==
  Answered("chunks") =>
    /\ asked.policy = "function" /\ asked.files >= Len(repo.order) =>
         Chunker!Complete(repo, asked.opts, answer.chunks)
    /\ answer.chunks = Chunker!Run(Shuffled, asked.opts, asked.policy, asked.files)
    /\ Chunker!Covers(asked.size, answer.windows)

(* find_code has the first hits and says truncated just when there are     *)
(* more.  While there are at most sixteen times the limit, the groups of   *)
(* search_code have every hit that a declaration is around, once, in the   *)
(* group of such a declaration, and Go's order of files does not change    *)
(* them; and when each hit has one declaration around it, each of those is *)
(* a group with all its hits, and truncated says just whether there are    *)
(* more than the limit (findcode.go, searchcode.go).  Of two declarations  *)
(* around a hit it is left open which gets it: see README section 5.       *)
CodeExact ==
  LET most == IF asked.limit = 0 THEN 50 ELSE asked.limit
      scanned == SelectSeq(repo.order, LAMBDA f : f \in asked.within)
      RowsIn(f) == [m \in DOMAIN asked.rows[f] |-> <<f, asked.rows[f][m]>>]
      all == FlattenSeq([n \in DOMAIN scanned |-> RowsIn(scanned[n])])
      Around(h) == {d \in Decls : d.file = h[1] /\ d.start <= h[2] /\ h[2] < d.end}
      Of(d) == SelectSeq(all, LAMBDA h : d \in Around(h))
      hit == {d \in Decls : Of(d) # <<>>}
      lone == \A h \in ToSet(all) : Cardinality(Around(h)) <= 1
      hits == answer.hits
      groups == answer.groups
  IN /\ hits.ok =>
          /\ [n \in DOMAIN hits.found |-> <<hits.found[n].file, hits.found[n].row>>] = Graph!UpTo(most, all)
          /\ hits.truncated <=> Len(all) > most
     /\ groups.ok /\ Len(all) <= 16 * most =>
          /\ \A g \in ToSet(groups.found) : \A row \in ToSet(g.rows) :
               \E d \in Around(<<g.file, row>>) : g.id = Graph!ID(d)
          /\ groups.truncated => Cardinality(hit) > most
          /\ ~groups.truncated =>
               FoldLeft(LAMBDA sum, g : sum + Len(g.rows), 0, groups.found)
                 = Len(SelectSeq(all, LAMBDA h : Around(h) # {}))
          /\ lone =>
               /\ groups.truncated <=> Cardinality(hit) > most
               /\ Len(groups.found) = IF groups.truncated THEN most ELSE Cardinality(hit)
               /\ \A g \in ToSet(groups.found) : \E d \in hit : g.id = Graph!ID(d) /\ Len(g.rows) = Len(Of(d))
          /\ asked.rejects = {} => groups = Code!SearchCode(Shuffled, asked)

(* search is sorted by score, and then by path and rows, has all matches   *)
(* when it does not say it is truncated, and for one term puts a name      *)
(* before a part of a name, and that before comments and paths (search.go). *)
SearchExact ==
  LET most == IF asked.limit = 0 THEN 10 ELSE asked.limit
      found == answer.found
      Has(d, t) == d.name = t.name \/ t.part[d.name] > 0 \/ <<d.file, d.name>> \in t.docs \/ d.file \in t.paths
      fits == {d \in Decls : (asked.kinds = {} \/ Graph!DomainKind(d) \in asked.kinds) /\ \E t \in ToSet(asked.terms) : Has(d, t)}
      Of(n) == CHOOSE d \in Decls : Graph!ID(d) = found[n].id
      Tier(d, t) == IF d.name = t.name THEN 1 ELSE IF t.part[d.name] > 0 THEN 2 ELSE 3
      Place(d) == CHOOSE n \in DOMAIN repo.now : repo.now[n] = d
  IN /\ answer.truncated <=> Cardinality(fits) > most
     /\ ToSet([n \in DOMAIN found |-> Of(n)]) \subseteq fits
     /\ Len(found) = IF Cardinality(fits) < most THEN Cardinality(fits) ELSE most
     /\ \A m, n \in DOMAIN found : m < n =>
          /\ found[m].score > found[n].score \/ (found[m].score = found[n].score /\ Place(Of(m)) < Place(Of(n)))
          /\ Len(asked.terms) = 1 => Tier(Of(m), asked.terms[1]) <= Tier(Of(n), asked.terms[1])

(* The fused list (merge.go, hybrid.go) is sorted, without repeats, and as *)
(* long as the limit and the hits allow; a hit that comes before another   *)
(* in every channel that has the other comes before it; and the answer is  *)
(* an error only for an empty query, no channel, a vector channel without  *)
(* a backend, a failed chunker that a channel needs, or a failed vector    *)
(* channel when no other has a hit.                                        *)
Lists(a) ==
  SelectSeq(<<IF a.terms = 0 THEN <<>> ELSE a.structural, a.bm25, a.vector>>, LAMBDA list : list # <<>>)
Whole(a) == a.channels = {"structural", "bm25", "vector"} /\ a.fails = "none" /\ a.chunks = {1, 2, 3}
Served(a) ==
  \/ a.channels # {} /\ a.fails = "none"
  \/ a.channels = {"structural"}
  \/ a.fails = "backend" /\ a.channels \in SUBSET {"structural", "bm25"} \ {{}}
  \/ a.fails = "embed" /\ "structural" \in a.channels /\ a.terms > 0 /\ a.structural # <<>>

FusionExact ==
  LET ids == [n \in DOMAIN answer.hits |-> answer.hits[n].id]
      limit == IF asked.limit = 0 THEN 10 ELSE asked.limit
      given == UNION {{h.id : h \in ToSet(list)} : list \in ToSet(Lists(asked))}
      Ahead(i, j) == i # j /\ Hybrid!Dominates(Lists(asked), i, j)
  IN /\ \A m, n \in DOMAIN ids : m < n => answer.hits[m].score >= answer.hits[n].score /\ ids[m] # ids[n]
     /\ asked.query # "" /\ Served(asked) => answer.error = ""
     /\ Whole(asked) /\ answer.error = "" =>
          /\ Len(ids) = IF Cardinality(given) < limit THEN Cardinality(given) ELSE limit
          /\ \A i, j \in given : Ahead(i, j) /\ j \in ToSet(ids) =>
               \E m, n \in DOMAIN ids : m < n /\ ids[m] = i /\ ids[n] = j

(* What the ranked tools promise of their lists.                           *)
RankingExact ==
  /\ Answered("code") => CodeExact
  /\ Answered("search") => SearchExact
  /\ Answered("hybrid") => FusionExact

=============================================================================
