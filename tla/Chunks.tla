-------------------------------- MODULE Chunks --------------------------------
(***************************************************************************)
(* The chunker (internal/chunker): a repo as a sequence of chunks, one per *)
(* function, class or file, and the windows of bytes that the benchmark    *)
(* compares them with (baseline.go).                                       *)
(*                                                                         *)
(* A declaration also has its rows, [start, end).  R.lines tells for each  *)
(* row of a file whether it is "blank", a "comment" or "code".             *)
(***************************************************************************)
EXTENDS NodeEdges

(***************************************************************************)
(* Names.                                                                  *)
(***************************************************************************)
(* SymbolID: in the root directory the package is the module's. *)
SymbolID(R, d) == ID([d EXCEPT !.pkg = IF @ = <<>> THEN R.module ELSE @])

(* A call goes to the declaration in the same file, else in the same       *)
(* package, else to the first there is; a name nobody declares has an id   *)
(* all the same.                                                           *)
DisambiguateCallee(R, name, d) ==
  LET cands == ByName(R, name)
      near == SelectSeq(cands, LAMBDA c : c.file = d.file)
      same == IF d.pkg = <<>> THEN <<>> ELSE SelectSeq(cands, LAMBDA c : c.pkg = d.pkg)
  IN IF cands = <<>> THEN [kind |-> "fn", body |-> Append(d.pkg, name)]
     ELSE SymbolID(R, HeadOr(near \o same \o cands, NotFound))

ResolveCallers(R, name) ==
  {SymbolID(R, c) : c \in {c \in ToSet(EdgesByCallee(R, name)) : name # 0}}
ResolveCallees(R, d) == {DisambiguateCallee(R, n, d) : n \in ToSet(EdgesByCaller(R, d))}

(***************************************************************************)
(* Text.                                                                   *)
(***************************************************************************)
LineCount(R, f) == Len(R.lines[f])
Line(R, f, row) == R.lines[f][row + 1]

(* extractDocComment: the comment rows above a declaration, from the first *)
(* one met, blank rows before it passed over; a blank row ends them.       *)
DocRows(R, d) ==
  LET Above(row) == (row + 1)..(d.start - 1)
      near == {row \in 0..(d.start - 1) : Line(R, d.file, row) = "comment" /\
                 \A r \in Above(row) : Line(R, d.file, r) = "blank"}
  IN {row \in 0..(d.start - 1) : near # {} /\ row <= Max(near) /\
        \A r \in row..Max(near) : Line(R, d.file, r) = "comment"}

WidenBy(R, d) == Cardinality(DocRows(R, d))

(* sliceBody: as many rows more as the comment has, right above. *)
SliceBody(R, d) ==
  LET from == Max({0, d.start - WidenBy(R, d)})
      to == Min({d.end, LineCount(R, d.file)})
  IN IF from >= to THEN {} ELSE from..(to - 1)

(***************************************************************************)
(* Chunks.                                                                 *)
(***************************************************************************)
ClassLike(d) == d.kind \in ClassForms

FunctionChunk(R, d) ==
  [id |-> SymbolID(R, d), file |-> d.file, first |-> d.start + 1, last |-> d.end,
   text |-> SliceBody(R, d), methods |-> <<>>,
   callers |-> ResolveCallers(R, d.name), callees |-> ResolveCallees(R, d)]

(* A class has the signatures of its methods further down in the file. *)
MethodsOf(R, d, syms) ==
  SelectSeq(syms, LAMBDA m : m.kind = "method" /\ m.recv = d.name /\ m.start >= d.start)

ClassChunk(R, d, syms) ==
  LET ms == MethodsOf(R, d, syms)
  IN [FunctionChunk(R, d) EXCEPT
        !.methods = Each(ms, LAMBDA m : m.name),
        !.callers = UNION {ResolveCallers(R, m.name) : m \in ToSet(ms)},
        !.callees = UNION {ResolveCallees(R, m) : m \in ToSet(ms)}]

ModuleChunk(R, f) ==
  LET syms == ToSet(Symbols(R, f))
  IN [id |-> [kind |-> "module", body |-> Append(R.package[f], f)], file |-> f,
      first |-> 1, last |-> LineCount(R, f), text |-> 0..(LineCount(R, f) - 1), methods |-> <<>>,
      callers |-> UNION {ResolveCallers(R, d.name) : d \in syms},
      callees |-> UNION {ResolveCallees(R, d) : d \in syms}]

(* shouldInclude, with the globs of the options as the sets of files they  *)
(* match.                                                                  *)
ShouldInclude(R, f, opts) ==
  /\ opts.include = {} \/ f \in opts.include
  /\ f \notin opts.exclude
  /\ opts.withTests \/ f \notin R.tests

InSource(d, e) == d.start < e.start \/ (d.start = e.start /\ d.name < e.name)
(* Mutant: the files as the map yields them. *)
MapOrder(R) == R.order
FileOrder(R) == SortSeq(R.order, LAMBDA f, g : f < g)

FileChunks(R, f, policy) ==
  LET syms == SortSeq(Symbols(R, f), InSource)
  IN CASE policy = "module" -> IF R.lines[f] = <<>> THEN <<>> ELSE <<ModuleChunk(R, f)>>
       [] policy = "class" -> Each(SelectSeq(syms, ClassLike), LAMBDA d : ClassChunk(R, d, syms))
       [] OTHER -> Each(SelectSeq(syms, LAMBDA d : d.kind \in {"function", "method"}), LAMBDA d : FunctionChunk(R, d))

(* Run, as far as a cancellation between two files lets it come. *)
Run(R, opts, policy, files) ==
  LET included == SelectSeq(UpTo(files, FileOrder(R)), LAMBDA f : ShouldInclude(R, f, opts))
  IN FlattenSeq(Each(included, LAMBDA f : FileChunks(R, f, policy)))

(***************************************************************************)
(* RunBaseline: the windows [from, to) of a file of n bytes.               *)
(***************************************************************************)
Window == 1000
Overlap == 200
Step == Window - Overlap
Starts(n) == {from \in {Step * i : i \in 0..(n \div Step)} : from < n}
End(from, n) == Min({from + Window, n})

(* The loop ends with the first window that comes to the end. *)
Windows(n) ==
  LET before(from) == {s \in Starts(n) : s < from}
      kept == {from \in Starts(n) : \A s \in before(from) : End(s, n) < n}
  IN Each(SetToSortSeq(kept, LAMBDA a, b : a < b), LAMBDA from : [from |-> from, to |-> End(from, n)])

(***************************************************************************)
(* What the chunks owe.                                                    *)
(***************************************************************************)

(* The rows of the comment that stands right above a declaration. *)
OwnDoc(R, d) ==
  {row \in 0..(d.start - 1) : \A r \in row..(d.start - 1) : Line(R, d.file, r) = "comment"}

Complete(R, opts, chunks) ==
  LET wanted == {d \in ToSet(R.now) : Callable(d) /\ ShouldInclude(R, d.file, opts)}
      Of(c) == {d \in wanted : d.file = c.file /\ d.start + 1 = c.first /\ d.end = c.last}
  IN /\ \A d \in wanted : Cardinality({n \in DOMAIN chunks : d \in Of(chunks[n])}) = 1
     /\ \A n \in DOMAIN chunks : \E d \in Of(chunks[n]) :
          (d.start..(d.end - 1)) \cup OwnDoc(R, d) \subseteq chunks[n].text
     /\ \A m, n \in DOMAIN chunks : m < n =>
          chunks[m].file < chunks[n].file \/ (chunks[m].file = chunks[n].file /\ chunks[m].first <= chunks[n].first)

(* Every byte is in a window, the next window repeats just the overlap,    *)
(* and no window repeats only what another has.                            *)
Covers(n, ws) ==
  /\ UNION {w.from..(w.to - 1) : w \in ToSet(ws)} = 0..(n - 1)
  /\ \A k \in 1..(Len(ws) - 1) : ws[k].to - ws[k + 1].from = Overlap /\ ws[k].to < ws[k + 1].to

=============================================================================
