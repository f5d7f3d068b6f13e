----------------------------- MODULE Architecture -----------------------------
(***************************************************************************)
(* get_architecture (internal/tool/architecture.go): counts, the symbols   *)
(* with most and with no edges, and the import cycles between files, which *)
(* tarjanSCC finds with a stack of frames of its own.                      *)
(*                                                                         *)
(* An import path is a number: p > 0 the last segment of a package's name, *)
(* or all of it; Sibling "./x" and Parent "../x", whatever x.              *)
(***************************************************************************)
EXTENDS NodeEdges

Sibling == -1
Parent == -2
MaxDeadCode == 50
MaxCycleFiles == 20
MaxCycles == 10

(***************************************************************************)
(* Counts.  The list of packages is cut at 10 whatever top says.           *)
(***************************************************************************)
PackageOf(R, f) == R.package[f]
Packages(R) == {PackageOf(R, f) : f \in ToSet(R.order)} \ {<<>>}
FilesOf(R, pkg) == {f \in ToSet(R.order) : PackageOf(R, f) = pkg}
OfKind(R, kind) == Cardinality({n \in DOMAIN R.now : DomainKind(R.now[n]) = kind})

SortedPackages(R, top) ==
  UpTo(top, SetToSortSeq(Packages(R), LAMBDA p, q :
    LET m == Cardinality(FilesOf(R, p)) n == Cardinality(FilesOf(R, q))
    IN m > n \/ (m = n /\ LexLess(p, q))))

Summary(R) ==
  [files |-> Len(R.order), packages |-> Cardinality(Packages(R)),
   functions |-> OfKind(R, "FUNCTION"), methods |-> OfKind(R, "METHOD"), classes |-> OfKind(R, "CLASS"),
   modules |-> OfKind(R, "MODULE")]

(* What counts as callers of a symbol here are the edges it is the caller of. *)
Score(R, d) == Len(EdgesByCaller(R, d))

Hotspots(R, top) ==
  UpTo(top, SortSeq(SelectSeq(R.now, LAMBDA d : Score(R, d) > 0), LAMBDA c, d :
    Score(R, c) > Score(R, d) \/ (Score(R, c) = Score(R, d) /\ IdLess(ID(c), ID(d)))))

(* Exported Go names may be called from elsewhere.  Which fifty are kept   *)
(* is up to the map; those are sorted.                                     *)
DeadCode(R) ==
  SortSeq(UpTo(MaxDeadCode, SelectSeq(R.now, LAMBDA d : Score(R, d) = 0 /\ d.name \notin R.exported)),
          LAMBDA c, d : IdLess(ID(c), ID(d)))

(***************************************************************************)
(* The import graph.  A package stands for the first of its files.         *)
(***************************************************************************)
PkgRep(R, pkg) == SelectSeq(R.order, LAMBDA f : PackageOf(R, f) = pkg)[1]
Known(R, pkg) == FilesOf(R, pkg) # {}

(* The file an import leads to, 0 for an external one: by the whole name,  *)
(* by the last segment, or relative to the importing file's directory.     *)
ResolveImport(R, file, path) ==
  LET here == PackageOf(R, file)
      up == IF here = <<>> THEN <<>> ELSE Front(here)
      ends == SelectSeq(R.order, LAMBDA f : Len(PackageOf(R, f)) > 1 /\ Last(PackageOf(R, f)) = path)
  IN CASE path > 0 /\ Known(R, <<path>>) -> PkgRep(R, <<path>>)
       [] path > 0 /\ ~Known(R, <<path>>) /\ ends # <<>> -> PkgRep(R, PackageOf(R, ends[1]))
       [] path = Sibling /\ Known(R, here) -> PkgRep(R, here)
       [] path = Parent /\ Known(R, up) -> PkgRep(R, up)
       [] OTHER -> 0

Adj(R) ==
  [f \in ToSet(R.order) |-> {ResolveImport(R, f, p) : p \in ToSet(ImportsIn(R, f))} \ {0}]

(***************************************************************************)
(* tarjanSCC.  A state of it: index and low link per node (-1 when not yet *)
(* seen), the stack, the frames [node, left: children not yet looked at],  *)
(* the components found.  A turn is one turn of the inner loop, or the     *)
(* start at the next node when no frame is left.                           *)
(***************************************************************************)
Ascending(S) == SetToSortSeq(S, LAMBDA a, b : a < b)
Before(a, b) == IF a < b THEN a ELSE b

Push(st, adj, n) ==
  [st EXCEPT !.index[n] = st.count, !.low[n] = st.count, !.count = @ + 1,
             !.stack = Append(@, n), !.frames = Append(@, [node |-> n, left |-> Ascending(adj[n])])]

LowerTo(st, n, v) == [st EXCEPT !.low[n] = Before(@, v)]

(* Mutant: a node of a component that is closed counts. *)
SeenBefore(st, n) == TRUE
OnStack(st, n) == n \in ToSet(st.stack)

(* A frame looks at its next child. *)
Look(st, adj) ==
  LET k == Len(st.frames)
      w == Head(st.frames[k].left)
      moved == [st EXCEPT !.frames[k].left = Tail(@)]
  IN CASE st.index[w] = -1 -> Push(moved, adj, w)
       [] st.index[w] # -1 /\ OnStack(st, w) -> LowerTo(moved, st.frames[k].node, st.index[w])
       [] OTHER -> moved

(* A frame without children left: its component, if it is the root of one. *)
Component(st, v) == {st.stack[n] : n \in {n \in DOMAIN st.stack : st.index[st.stack[n]] >= st.index[v]}}

Leave(st) ==
  LET v == Last(st.frames).node
      rest == Front(st.frames)
      comp == Component(st, v)
      closed == IF st.low[v] # st.index[v] THEN st
                ELSE [st EXCEPT !.stack = SelectSeq(@, LAMBDA n : n \notin comp), !.sccs = Append(@, comp)]
      popped == [closed EXCEPT !.frames = rest]
  IN IF rest = <<>> THEN popped ELSE LowerTo(popped, Last(rest).node, st.low[v])

Turn(st, adj) ==
  LET unseen == {n \in DOMAIN adj : st.index[n] = -1}
  IN CASE st.frames # <<>> /\ Last(st.frames).left # <<>> -> Look(st, adj)
       [] st.frames # <<>> /\ Last(st.frames).left = <<>> -> Leave(st)
       [] st.frames = <<>> /\ unseen # {} -> Push(st, adj, Min(unseen))
       [] OTHER -> st

(* Each node is pushed and left once, each edge looked at once. *)
TarjanSCC(adj) ==
  LET none == [n \in DOMAIN adj |-> -1]
      start == [count |-> 0, index |-> none, low |-> none, stack |-> <<>>, frames |-> <<>>, sccs |-> <<>>]
      n == Cardinality(DOMAIN adj)
  IN FoldLeft(LAMBDA st, k : Turn(st, adj), start, [k \in 1..(n * (n + 2)) |-> k]).sccs

(* Components of several files, and single files that import themselves.   *)
(* The tenth cycle makes the answer truncated, whether one follows or not. *)
ImportCycles(R) ==
  LET adj == Adj(R)
      IsCycle(c) == Cardinality(c) > 1 \/ \E f \in c : f \in adj[f]
      found == SelectSeq(TarjanSCC(adj), IsCycle)
  IN [cycles |-> Each(UpTo(MaxCycles, found), LAMBDA c : UpTo(MaxCycleFiles, Ascending(c))),
      truncated |-> Len(found) >= MaxCycles]

Top(top) == IF top <= 0 THEN 10 ELSE IF top > 100 THEN 100 ELSE top

GetArchitecture(R, top, cycles) ==
  LET none == [cycles |-> <<>>, truncated |-> FALSE]
      found == IF cycles THEN ImportCycles(R) ELSE none
  IN [summary |-> Summary(R), packages |-> SortedPackages(R, 10),
      hotspots |-> Each(Hotspots(R, Top(top)), ID), dead |-> Each(DeadCode(R), ID),
      cycles |-> found.cycles,
      truncated |-> found.truncated \/ Len(DeadCode(R)) >= MaxDeadCode]

(***************************************************************************)
(* Reference: files that reach each other.                                 *)
(***************************************************************************)
Reach(adj) ==
  LET nodes == DOMAIN adj
      Longer(r) == r \cup {p \in nodes \X nodes : \E b \in nodes : <<p[1], b>> \in r /\ <<b, p[2]>> \in r}
      edges == {p \in nodes \X nodes : p[2] \in adj[p[1]]}
  IN FoldLeft(LAMBDA r, k : Longer(r), edges, [k \in 1..Cardinality(nodes) |-> k])

CycleSets(adj) ==
  LET r == Reach(adj) IN {{b \in DOMAIN adj : <<a, b>> \in r /\ <<b, a>> \in r} : a \in DOMAIN adj} \ {{}}

=============================================================================
