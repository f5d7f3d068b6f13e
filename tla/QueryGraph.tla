------------------------------ MODULE QueryGraph ------------------------------
(***************************************************************************)
(* query_graph (internal/tool/querygraph.go): a walk over typed edges from *)
(* one seed or from several weighted ones, breadth first, the kinds to     *)
(* follow taken in turn, with a limit on rows, one on expanded nodes and   *)
(* one on time.  Go walks the map of a step's targets in any order.        *)
(***************************************************************************)
EXTENDS NodeEdges

CONSTANTS
  Repos,       \* repos as CodeIndex has them
  Questions,   \* arguments of a call, see Asked
  MaxVisited   \* queryGraphMaxVisited

VARIABLES
  repo,    \* the repo
  asked,   \* the arguments
  pc,      \* "ask", "scan", "emit", "done" or "refused"
  bfs      \* the locals of bfsFromSeeds

vars == <<repo, asked, pc, bfs>>

Kinds == {"callers", "callees", "tests", "imports", "overrides"}
NodeKinds == {"FUNCTION", "METHOD", "CLASS", "MODULE", "FILE", "PACKAGE", "REPO"}
MaxDepth == 5
MaxSeeds == 50

(***************************************************************************)
(* The arguments: [from, seeds, weights, follow, depth, limit, kind,       *)
(* exclude]; weights in parts of 60, "" and <<>> for what is not given.    *)
(***************************************************************************)
IsQuestion(q) ==
  /\ IsSeq(q.from) /\ IsSeq(q.seeds) /\ IsSeq(q.follow)
  /\ q.weights \in Seq(Nat) /\ q.depth \in Nat /\ q.limit \in Nat

QueryGraphAssumption ==
  /\ \A R \in Repos : IsRepo(R)
  /\ \A q \in Questions : IsQuestion(q)
  /\ MaxVisited \in Nat

Or(n, default) == IF n = 0 THEN default ELSE n
Depth == Or(asked.depth, 2)
Limit == Or(asked.limit, 100)

Valid ==
  /\ asked.follow # <<>> /\ ToSet(asked.follow) \subseteq Kinds
  /\ Depth \in 1..MaxDepth /\ Limit \in 1..1000
  /\ asked.kind \in NodeKinds \cup {""} /\ asked.exclude \in {"", "tests"}
  /\ (asked.from # <<>>) # (asked.seeds # <<>>)
  /\ Len(asked.seeds) <= MaxSeeds
  /\ asked.weights # <<>> => Len(asked.weights) = Len(asked.seeds)

(* A seed that is listed again counts once, with its largest weight. *)
Seeds == IF asked.from # <<>> THEN asked.from ELSE Once(asked.seeds)
Weight(s) ==
  IF asked.from # <<>> \/ asked.weights = <<>> THEN 60
  ELSE Max({asked.weights[n] : n \in {n \in DOMAIN asked.seeds : asked.seeds[n] = s}})

Located(i) == Found(LocateSymbol(repo, i))
Node(i, seed) == [id |-> i, seed |-> seed]
Fresh == [step |-> 0, frontier |-> <<>>, at |-> 1, hits |-> <<>>, targets |-> {}, next |-> <<>>,
          seen |-> {}, rows |-> <<>>, visited |-> 0, truncated |-> FALSE, scores |-> <<>>]

Init == repo \in Repos /\ asked \in Questions /\ pc = "ask" /\ bfs = Fresh

Start ==
  /\ pc = "ask"
  /\ IF Valid /\ \A s \in ToSet(Seeds) : Located(s)
       THEN /\ pc' = "scan"
            /\ bfs' = [Fresh EXCEPT !.frontier = Each(Seeds, LAMBDA s : Node(s, s)),
                                    !.seen = ToSet(Seeds),
                                    !.scores = [s \in ToSet(Seeds) |-> 0]]
       ELSE pc' = "refused" /\ UNCHANGED bfs
  /\ UNCHANGED <<repo, asked>>

(***************************************************************************)
(* A step scans the nodes of the frontier, one after the other.            *)
(***************************************************************************)
Via == asked.follow[(bfs.step % Len(asked.follow)) + 1]
Score(seed, d) == Weight(seed) \div (1 + d)
Edges(i, kind, limit) == ScanFor(kind, repo, LocateSymbol(repo, i), limit)

(* Once: [target, seed, score, depth, kind, file]. *)
Hits(node) ==
  Each(Edges(node.id, Via, Limit), LAMBDA e :
    [target |-> e.target, seed |-> node.seed, score |-> Score(node.seed, bfs.step + 1),
     depth |-> bfs.step + 1, kind |-> e.targetKind, file |-> e.file])

Truncate == pc' = "done" /\ bfs' = [bfs EXCEPT !.truncated = TRUE]

Scan ==
  /\ pc = "scan" /\ bfs.at <= Len(bfs.frontier)
  /\ IF bfs.visited >= MaxVisited THEN Truncate
     ELSE /\ bfs' = [bfs EXCEPT !.visited = @ + 1, !.at = @ + 1,
                                !.hits = @ \o Hits(bfs.frontier[bfs.at])]
          /\ UNCHANGED pc
  /\ UNCHANGED <<repo, asked>>

(* ctx.Err, before a step and before a node. *)
Expire == pc = "scan" /\ bfs.at <= Len(bfs.frontier) /\ Truncate /\ UNCHANGED <<repo, asked>>

(* The best hit of a target: the highest score, the first of equals. *)
Best(n) ==
  \A m \in DOMAIN bfs.hits : bfs.hits[m].target = bfs.hits[n].target =>
    bfs.hits[m].score < bfs.hits[n].score \/ (bfs.hits[m].score = bfs.hits[n].score /\ n <= m)
BestHit(t) == bfs.hits[CHOOSE n \in DOMAIN bfs.hits : bfs.hits[n].target = t /\ Best(n)]

SeedScore(s) == Max({bfs.scores[s]} \cup {h.score : h \in {h \in ToSet(bfs.hits) : h.seed = s}})

Gather ==
  /\ pc = "scan" /\ bfs.at > Len(bfs.frontier)
  /\ IF bfs.truncated THEN pc' = "done" /\ UNCHANGED bfs
     ELSE /\ pc' = "emit"
          /\ bfs' = [bfs EXCEPT !.targets = {h.target : h \in ToSet(bfs.hits)},
                                !.scores = [s \in DOMAIN bfs.scores |-> SeedScore(s)]]
  /\ UNCHANGED <<repo, asked>>

(***************************************************************************)
(* Then every target is expanded, unless it has been, and makes a row or   *)
(* improves the one it has.                                                *)
(***************************************************************************)
Expand(h) ==
  IF h.target \in bfs.seen \/ ~Located(h.target) THEN bfs.next
  ELSE Append(bfs.next, Node(h.target, h.seed))

(* exclude goes by the file of the edge's location. *)
Filtered(h) ==
  \/ asked.exclude = "tests" /\ h.file \in repo.tests
  \/ asked.kind # "" /\ h.kind # asked.kind

RowOf(t) == {n \in DOMAIN bfs.rows : bfs.rows[n].target = t}
Better(h, row) == h.score > row.score \/ (h.score = row.score /\ h.depth < row.depth)
Improve(h, row) == IF Better(h, row) THEN [row EXCEPT !.depth = h.depth, !.score = h.score] ELSE row

Rows(h) ==
  CASE RowOf(h.target) # {} -> Each(bfs.rows, LAMBDA row : IF row.target = h.target THEN Improve(h, row) ELSE row)
    [] RowOf(h.target) = {} /\ h.target \notin bfs.seen /\ Len(bfs.rows) < Limit ->
         Append(bfs.rows, [target |-> h.target, depth |-> h.depth, score |-> h.score, via |-> Via])
    [] OTHER -> bfs.rows

Dropped(h) == RowOf(h.target) = {} /\ h.target \notin bfs.seen /\ Len(bfs.rows) >= Limit

Emit(t) ==
  /\ pc = "emit" /\ t \in bfs.targets
  /\ LET h == BestHit(t)
     IN bfs' = [bfs EXCEPT !.targets = @ \ {t},
                           !.next = Expand(h),
                           !.seen = @ \cup {t},
                           !.rows = IF Filtered(h) THEN @ ELSE Rows(h),
                           !.truncated = @ \/ (~Filtered(h) /\ Dropped(h))]
  /\ UNCHANGED <<repo, asked, pc>>

(* Mutant: one step too few. *)
LastStepEarly == bfs.step + 2 = Depth
LastStep == bfs.step + 1 = Depth

(* The deadline may also have passed after the last step. *)
EndStep ==
  /\ pc = "emit" /\ bfs.targets = {}
  /\ IF bfs.next = <<>> \/ LastStep
       THEN \E late \in BOOLEAN : pc' = "done" /\ bfs' = [bfs EXCEPT !.truncated = @ \/ late]
       ELSE /\ pc' = "scan"
            /\ bfs' = [bfs EXCEPT !.step = @ + 1, !.frontier = bfs.next, !.at = 1,
                                  !.hits = <<>>, !.next = <<>>]
  /\ UNCHANGED <<repo, asked>>

Next == Start \/ Scan \/ Expire \/ Gather \/ (\E t \in bfs.targets : Emit(t)) \/ EndStep

Spec == Init /\ [][Next]_vars

(***************************************************************************)
(* Properties.                                                             *)
(***************************************************************************)

(* The ends of the walks of n edges from a seed, without any limit.        *)
Kind(n) == asked.follow[((n - 1) % Len(asked.follow)) + 1]
Step(i, n) ==
  IF ~Located(i) THEN {} ELSE {e.target : e \in ToSet(Edges(i, Kind(n), Unlimited))}
Walks(seed) ==
  LET w[n \in 0..Depth] == IF n = 0 THEN {seed} ELSE UNION {Step(i, n) : i \in w[n - 1]} IN w

Ends == [s \in ToSet(Seeds) |-> Walks(s)]
Targets == {row.target : row \in ToSet(bfs.rows)}
Roomy(w) ==
  \A s \in DOMAIN w, n \in 0..(Depth - 1) : \A i \in w[s][n] :
    Located(i) => Len(Edges(i, Kind(n + 1), Unlimited)) <= Limit

SimpleWalk(w) == Len(asked.follow) = 1 /\ Roomy(w)
Reachable(w) == (UNION {w[s][n] : s \in DOMAIN w, n \in 1..Depth}) \ ToSet(Seeds)
RowsReached(w) ==
  \A row \in ToSet(bfs.rows) : \E s \in DOMAIN w :
    row.target \in w[s][row.depth] /\ row.score = Score(s, row.depth)
Shortest(w) ==
  \A row \in ToSet(bfs.rows) : \A n \in 1..(row.depth - 1) : \A s \in DOMAIN w : row.target \notin w[s][n]

(* A row is the end of a walk of just its depth from a seed that gives it  *)
(* its score, whatever the order of the steps, the seed and the improved   *)
(* rows; no node has two rows and no seed has one; an answer that does not *)
(* say it is truncated is complete when one kind is followed and no single *)
(* scan comes to the limit (which the answer does not tell); and from one  *)
(* seed the depth is the distance.                                         *)
WalkExact ==
  pc = "done" =>
    LET w == Ends
    IN /\ Cardinality(Targets) = Len(bfs.rows) /\ Targets \cap ToSet(Seeds) = {}
       /\ RowsReached(w)
       /\ SimpleWalk(w) /\ ~bfs.truncated /\ asked.kind = "" /\ asked.exclude = "" => Targets = Reachable(w)
       /\ SimpleWalk(w) /\ Len(Seeds) = 1 => Shortest(w)

=============================================================================
