---------------------------- MODULE ChangeImpact ----------------------------
(***************************************************************************)
(* detect_changes (internal/tool/detectchanges.go): git's unified diff,    *)
(* without context lines, is parsed into hunks, each hunk goes to the      *)
(* declaration it changes, and the hunks of a declaration make one change  *)
(* with their ranges merged.  edit_impact (editimpact.go) asks for the     *)
(* same callers and tests before a rename.                                 *)
(*                                                                         *)
(* A declaration also has its rows, [start, end).  A diff is a sequence of *)
(* lines: headers [kind, dir, base, quoted], hunks [kind, old, start, new] *)
(* whose counts git leaves out when they are 1, added lines that read as a *)
(* header ("text"), and lines of over 1 MB ("long"); other lines are left  *)
(* out.                                                                    *)
(***************************************************************************)
EXTENDS NodeEdges

MaxChanges == 200
Omitted == -1
NoName == [dir |-> <<>>, base |-> 0]

(***************************************************************************)
(* parseUnifiedDiff.  Git quotes a name that is not plain ASCII, and such  *)
(* a header is not seen; an added line "++ b/..." is seen as one.  At a    *)
(* line that is too long for its buffer the scanner stops, without a word. *)
(***************************************************************************)
Count(c) == IF c = Omitted THEN 1 ELSE c
OneBased(n) == IF n = 0 THEN 1 ELSE n
HunkOf(line) ==
  LET start == OneBased(line.start) - 1 IN [start |-> start, end |-> start + Count(line.new)]

NewSummary(name) == [name |-> name, added |-> 0, deleted |-> 0, hunks |-> 0]
Closed(st) == IF st.cur.name = NoName THEN st.files ELSE Append(st.files, st.cur)

ParseLine(st, line) ==
  CASE line.kind \in {"file", "text"} /\ line.quoted -> st
    [] line.kind \in {"file", "text"} /\ ~line.quoted ->
         [st EXCEPT !.files = Closed(st), !.cur = NewSummary([dir |-> line.dir, base |-> line.base])]
    [] line.kind = "hunk" /\ Count(line.new) = 0 -> [st EXCEPT !.cur.deleted = @ + Count(line.old)]
    [] OTHER ->
         [st EXCEPT !.cur.deleted = @ + Count(line.old), !.cur.added = @ + Count(line.new),
                    !.cur.hunks = @ + 1,
                    !.hunks = Append(@, [name |-> st.cur.name, range |-> HunkOf(line)])]

Scanned(lines) ==
  LET long == {n \in DOMAIN lines : lines[n].kind = "long"}
  IN IF long = {} THEN lines ELSE SubSeq(lines, 1, Min(long) - 1)

ParseUnifiedDiff(lines) ==
  LET start == [hunks |-> <<>>, files |-> <<>>, cur |-> NewSummary(NoName)]
      end == FoldLeft(ParseLine, start, Scanned(lines))
  IN [hunks |-> end.hunks, files |-> Closed(end)]

(* absByRel: the path from the root, and the bare name of any file; the    *)
(* file that the map yields last has it.                                   *)
FileOf(R, name) ==
  LET named == SelectSeq(R.order, LAMBDA f :
        R.base[f] = name.base /\ (R.package[f] = name.dir \/ name.dir = <<>>))
  IN IF named = <<>> THEN 0 ELSE Last(named)

(***************************************************************************)
(* enclosingSymbol: the smallest declaration around the hunk, else around  *)
(* its first row, else the one that shares most rows with it.              *)
(***************************************************************************)
Size(d) == d.end - d.start
(* Mutant: off by one. *)
EnclosesInside(d, r) == d.start <= r.start /\ r.end < d.end
Encloses(d, r) == d.start <= r.start /\ r.end <= d.end
Holds(d, row) == d.start <= row /\ row < d.end
Overlap(d, r) ==
  LET lo == Max({d.start, r.start}) hi == Min({d.end, r.end}) IN IF hi > lo THEN hi - lo ELSE 0

(* The first of those with the least (or the greatest) measure. *)
FirstBest(ds, M(_)) == FirstOr(ds, LAMBDA d : \A e \in ToSet(ds) : M(d) <= M(e), NotFound)

EnclosingSymbol(R, file, r) ==
  LET syms == Symbols(R, file)
      around == SelectSeq(syms, LAMBDA d : Encloses(d, r))
      begun == SelectSeq(syms, LAMBDA d : Holds(d, r.start))
      touched == SelectSeq(syms, LAMBDA d : Overlap(d, r) > 0)
  IN CASE around # <<>> -> FirstBest(around, Size)
       [] around = <<>> /\ begun # <<>> -> FirstBest(begun, Size)
       [] OTHER -> FirstBest(touched, LAMBDA d : -Overlap(d, r))

(***************************************************************************)
(* mergeRanges.                                                            *)
(***************************************************************************)
Earlier(r, s) == r.start < s.start \/ (r.start = s.start /\ r.end < s.end)
Touches(r, s) == s.start <= r.end

Merge(out, r) ==
  IF out = <<>> \/ ~Touches(Last(out), r) THEN Append(out, r)
  ELSE [out EXCEPT ![Len(out)].end = Max({@, r.end})]

MergeRanges(rs) == FoldLeft(Merge, <<>>, SortSeq(rs, Earlier))

(***************************************************************************)
(* The handler.  A hunk goes to the bucket of a file, or of an id; the     *)
(* file of a bucket is that of its first hunk.                             *)
(***************************************************************************)
Unindexed(name) == [unindexed |-> name]
Attribute(R, h) ==
  LET f == FileOf(R, h.name)
      d == IF f = 0 THEN NotFound ELSE EnclosingSymbol(R, f, h.range)
      file == IF f = 0 THEN Unindexed(h.name) ELSE [path |-> f]
  IN [file |-> file, sym |-> d, key |-> IF Found(d) THEN [id |-> For(d)] ELSE file, range |-> h.range]

Bucket(hs, first) ==
  LET same == SelectSeq(hs, LAMBDA h : h.key = first.key)
  IN [file |-> first.file, sym |-> first.sym, ranges |-> MergeRanges(Each(same, LAMBDA h : h.range))]

Buckets(R, hs) ==
  LET firsts == OnceBy(hs, LAMBDA h : h.key)
      plain == SelectSeq(firsts, LAMBDA h : ~Found(h.sym))
      named == SortSeq(SelectSeq(firsts, LAMBDA h : Found(h.sym)), LAMBDA g, h : IdLess(g.key.id, h.key.id))
  IN Each(plain \o named, LAMBDA h : Bucket(hs, h))

Limit(n) == IF n = 0 THEN 20 ELSE Min({n, 100})

Change(R, b, limit) ==
  LET about(Scan(_, _, _)) == IF Found(b.sym) THEN Scan(R, b.sym, limit) ELSE <<>>
  IN [file |-> b.file, ranges |-> b.ranges, sym |-> b.sym, callers |-> about(ScanCallers),
      tests |-> about(ScanTests), overrides |-> about(ScanOverrides)]

DetectChanges(R, diff, limit) ==
  LET parsed == ParseUnifiedDiff(diff)
      all == Buckets(R, Each(parsed.hunks, LAMBDA h : Attribute(R, h)))
  IN [changes |-> Each(UpTo(MaxChanges, all), LAMBDA b : Change(R, b, Limit(limit))),
      files |-> parsed.files, truncated |-> Len(all) > MaxChanges]

(***************************************************************************)
(* edit_impact: the whole answer fails when one id is not located.  The    *)
(* name is looked for in every package.                                    *)
(***************************************************************************)
Conflicts(R, new) == Each(Lookup(R, <<>>, IF new = 0 THEN <<>> ELSE <<new>>), ID)

RenameImpact(R, d, new) ==
  [callers |-> ScanCallers(R, d, 100), tests |-> ScanTests(R, d, 100),
   conflicts |-> Conflicts(R, new), safe |-> Conflicts(R, new) = <<>>]

EditImpact(R, renames) ==
  LET located == Each(renames, LAMBDA r : LocateSymbol(R, r.id))
  IN IF renames = <<>> \/ \E d \in ToSet(located) : ~Found(d) THEN [ok |-> FALSE, impacts |-> <<>>]
     ELSE [ok |-> TRUE, impacts |-> [n \in DOMAIN renames |-> RenameImpact(R, located[n], renames[n].new)]]

(***************************************************************************)
(* What detect_changes owes of a diff: reference definitions.              *)
(***************************************************************************)
Rows(r) == r.start..(r.end - 1)
NameOf(line) == [dir |-> line.dir, base |-> line.base]

(* The rows that the diff changes in the file of this name. *)
HunkRows(diff, name) ==
  LET Headers(n) == {m \in 1..n : diff[m].kind = "file"}
      mine == {n \in DOMAIN diff : diff[n].kind = "hunk" /\ NameOf(diff[Max(Headers(n))]) = name}
  IN UNION {(diff[n].start - 1)..(diff[n].start + Count(diff[n].new) - 2) : n \in mine}

(* No header is quoted, no other line reads as one or is too long, no file *)
(* at the root shares its name, and no id is declared in two files.        *)
Plain(R, diff) ==
  /\ \A n \in DOMAIN diff :
       diff[n].kind \notin {"text", "long"} /\ (diff[n].kind = "file" => ~diff[n].quoted)
  /\ \A f, g \in ToSet(R.order) : f # g /\ R.base[f] = R.base[g] => <<>> \notin {R.package[f], R.package[g]}
  /\ \A c, d \in ToSet(R.now) : For(c) = For(d) => c.file = d.file

ChangedRows(answer, f) ==
  UNION {UNION {Rows(r) : r \in ToSet(c.ranges)} : c \in {c \in ToSet(answer.changes) : c.file = [path |-> f]}}

(* The declarations that enclose all of a run of rows, the smallest. *)
Owners(R, f, rows) ==
  LET around == {d \in ToSet(Symbols(R, f)) : rows \subseteq Rows(d)}
  IN {d \in around : \A e \in around : Size(d) <= Size(e)}

Attributed(R, diff, answer) ==
  /\ \A f \in ToSet(R.order) :
       ChangedRows(answer, f) = HunkRows(diff, [dir |-> R.package[f], base |-> R.base[f]])
  /\ \A c \in ToSet(answer.changes) :
       /\ \A n \in 1..(Len(c.ranges) - 1) : c.ranges[n].end < c.ranges[n + 1].start
       /\ \A n \in DOMAIN c.ranges :
            LET owners == IF c.file \in {[path |-> f] : f \in ToSet(R.order)}
                            THEN Owners(R, c.file.path, Rows(c.ranges[n])) ELSE {}
            IN owners # {} => Found(c.sym) /\ \E d \in owners : Size(c.sym) <= Size(d)

(***************************************************************************)
(* What edit_impact owes of renames, as far as the limit of 100 reaches,   *)
(* in a repo that its index is of, without a language server: the ids of   *)
(* the declarations of other files that call the one renamed, those of the *)
(* tests, and whether anything has the new name; a new name that is empty  *)
(* is everybody's.                                                         *)
(***************************************************************************)
Targets(edges) == [n \in DOMAIN edges |-> edges[n].target]
IDs(S) == {ID(d) : d \in S}
RenamesOwed(R, renames, answer) ==
  LET ds == ToSet(R.now)
      Callers(d) == {c \in ds : c.file # d.file /\ Callable(c) /\ d.name \in ToSet(c.calls)}
      Takers(new) == {d \in ds : d.name = new \/ new = 0}
      Owed(r, impact) == \E d \in ds :
        /\ ID(d) = r.id
        /\ ToSet(Targets(impact.callers)) = IDs(Callers(d))
        /\ ToSet(Targets(impact.tests)) = IDs({t \in ds : t.file \in R.tests})
        /\ ToSet(impact.conflicts) = IDs(Takers(r.new)) /\ impact.safe = (Takers(r.new) = {})
  IN /\ answer.ok <=> \A n \in DOMAIN renames : renames[n].id \in IDs(ds)
     /\ answer.ok => Len(answer.impacts) = Len(renames)
     /\ \A n \in DOMAIN answer.impacts : Owed(renames[n], answer.impacts[n])

=============================================================================
