------------------------------ MODULE CodeSearch ------------------------------
(***************************************************************************)
(* The tools that find a place in the code: find_code and search_code scan *)
(* the lines (internal/tool/findcode.go, searchcode.go), search ranks the  *)
(* declarations by name, comment and path (internal/search), and           *)
(* find_symbol, find_referencing_symbols and get_code_snippet start from a *)
(* name.                                                                   *)
(*                                                                         *)
(* What a pattern or a term matches is part of the question: the rows of a *)
(* file, in order, the names of a glob, the places where a term occurs.    *)
(***************************************************************************)
EXTENDS NodeEdges

Or(n, default) == IF n <= 0 THEN default ELSE n

(***************************************************************************)
(* find_code: [rows (per file, the rows of its matches), within (the files *)
(* of scope and filter), rejects (those whose grammar refuses a            *)
(* tree-sitter query, none for a regular expression), limit].              *)
(***************************************************************************)
(* The first declaration around a row, in source order: of two that are    *)
(* nested, the outer one.                                                  *)
Enclosing(R, f, row) ==
  FirstOr(Symbols(R, f), LAMBDA d : d.start <= row /\ row < d.end, NotFound)

Hit(R, f, row) == [file |-> f, row |-> row, context |-> Enclosing(R, f, row)]
Hits(R, q, f) == Each(q.rows[f], LAMBDA row : Hit(R, f, row))

FindCodeOverscanLimit(limit) == 4 * limit

(* The scan ends when it has enough, or at a file it cannot query. *)
Scan(R, q, limit) ==
  LET files == SelectSeq(R.order, LAMBDA f : f \in q.within)
      Upto(n) == FlattenSeq([m \in 1..n |-> Hits(R, q, files[m])])
      cap == FindCodeOverscanLimit(limit)
  IN [hits |-> UpTo(cap, Upto(Len(files))),
      ok |-> \A n \in DOMAIN files : files[n] \in q.rejects => Len(Upto(n - 1)) >= cap]

Cut(most, found) ==
  [ok |-> TRUE, found |-> UpTo(most, found), truncated |-> Len(found) > most, total |-> Len(found)]
Failed == [ok |-> FALSE, found |-> <<>>, truncated |-> FALSE, total |-> 0]

FindCode(R, q) ==
  LET most == Or(q.limit, 50)
      scan == Scan(R, q, FindCodeOverscanLimit(most))
  IN IF scan.ok THEN Cut(most, scan.hits) ELSE Failed

(***************************************************************************)
(* search_code: the hits of one enclosing id are a group, which is of the  *)
(* file of its first hit.                                                  *)
(***************************************************************************)
Group(hits, i) ==
  LET of == SelectSeq(hits, LAMBDA h : Found(h.context) /\ ID(h.context) = i)
  IN [id |-> i, kind |-> DomainKind(of[1].context), file |-> of[1].file, rows |-> Each(of, LAMBDA h : h.row)]

(* classifyBucket: every kind there is counts as a definition. *)
BucketRank(R, g) ==
  IF g.file \in R.tests THEN 2
  ELSE IF g.kind \in {"FUNCTION", "METHOD", "CLASS", "MODULE"} THEN 0 ELSE 1

FanInFor(R, i) == Len(EdgesByCallee(R, i.body[Len(i.body)]))

GroupBefore(R, g, h) ==
  LET Rank(x) == <<BucketRank(R, x), -Len(x.rows), -FanInFor(R, x.id)>>
  IN LexLess(Rank(g), Rank(h)) \/ (Rank(g) = Rank(h) /\ IdLess(g.id, h.id))

GroupByEnclosingSymbol(R, hits, limit) ==
  LET ids == {ID(h.context) : h \in {h \in ToSet(hits) : Found(h.context)}}
  IN UpTo(limit, SetToSortSeq({Group(hits, i) : i \in ids}, LAMBDA g, h : GroupBefore(R, g, h)))

SearchCode(R, q) ==
  LET most == Or(q.limit, 50)
      scan == Scan(R, q, most * 4)
  IN IF scan.ok THEN Cut(most, GroupByEnclosingSymbol(R, scan.hits, most * 4)) ELSE Failed

(***************************************************************************)
(* search: [terms, kinds, within, limit].  A term has the name it is, how  *)
(* much of each name it is a part of (0: none, in tenths of its length),   *)
(* the declarations whose comment has it, the files whose path has it.     *)
(* Scores are in hundredths.                                               *)
(***************************************************************************)
Signal(d, t) ==
  IF d.name = t.name THEN 90
  ELSE IF t.part[d.name] > 0 THEN 60 + t.part[d.name]
  ELSE IF <<d.file, d.name>> \in t.docs THEN 40
  ELSE IF d.file \in t.paths THEN 25 ELSE 0

(* The best signal of a term, and a bonus for each term in the path. *)
ScoreSymbol(d, terms) ==
  LET best == FoldLeft(LAMBDA s, t : IF Signal(d, t) > s THEN Signal(d, t) ELSE s, 0, terms)
      sum == best + 15 * Len(SelectSeq(terms, LAMBDA t : d.file \in t.paths))
  IN IF best = 0 \/ d.name = 0 THEN 0 ELSE IF sum > 100 THEN 100 ELSE sum

(* The sort is stable: what scores alike stays in the order of paths and   *)
(* rows.                                                                   *)
Ranked(R, q, limit) ==
  LET files == SetToSortSeq(ToSet(R.order) \cap q.within, LAMBDA f, g : f < g)
      Matches(d) == (q.kinds = {} \/ DomainKind(d) \in q.kinds) /\ ScoreSymbol(d, q.terms) > 0
      found == FlattenSeq(Each(files, LAMBDA f : SelectSeq(Symbols(R, f), Matches)))
      Score(n) == ScoreSymbol(found[n], q.terms)
      order == SetToSortSeq(DOMAIN found, LAMBDA m, n : Score(m) > Score(n) \/ (Score(m) = Score(n) /\ m < n))
  IN UpTo(limit, Each(order, LAMBDA n : [id |-> ID(found[n]), file |-> found[n].file, score |-> Score(n)]))

Search(R, q) == Cut(Or(q.limit, 10), Ranked(R, q, Or(q.limit, 10) * 4))

(***************************************************************************)
(* By name.  A glob without a package is matched with every entry of the   *)
(* index, which has each declaration twice.                                *)
(***************************************************************************)
MatchByNamePattern(R, pkg, names) ==
  Where(Lookup(R, pkg, <<>>), LAMBDA d : d.name \in names)

(* The node is that of the id, which may be of another declaration; when   *)
(* the id leads nowhere, a bare one.                                       *)
FindSymbol(R, pkg, names, limit) ==
  LET found == MatchByNamePattern(R, pkg, names)
      Node(d) == [id |-> ID(d), at |-> LocateSymbol(R, ID(d))]
  IN Cut(Or(limit, 20), Each(found, Node))

EdgeKinds == {"callers", "callees", "tests", "overrides", "imports"}

(* Of the first match; kinds it does not know are left out. *)
FindReferencingSymbols(R, names, kinds, limit) ==
  LET found == MatchByNamePattern(R, <<>>, names)
      known == SelectSeq(kinds, LAMBDA k : k \in EdgeKinds)
      asked == IF kinds # <<>> /\ known = <<>> THEN <<"none">> ELSE known
  IN IF found = <<>> THEN [ok |-> FALSE, edges |-> <<>>, truncated |-> FALSE, total |-> 0]
     ELSE NodeEdgesAnswer(R, ID(found[1]), asked, Or(limit, 100))

(* resolveNamePath: the package less its last segment comes first, then the *)
(* package, then none; and how many matches the first of them has.          *)
ResolveNamePath(R, pkg, name) ==
  LET tries == (IF Len(pkg) > 1 THEN <<Front(pkg)>> ELSE <<>>) \o <<pkg, <<>>>>
      hits == Where(Each(tries, LAMBDA p : Lookup(R, p, <<name>>)), LAMBDA found : found # <<>>)
  IN IF hits = <<>> THEN [ok |-> FALSE]
     ELSE [ok |-> TRUE, id |-> ID(hits[1][1]), ambiguous |-> Len(hits[1])]

(* A range that is asked for is cut to the declaration's rows, which leaves *)
(* it empty or the wrong way round when it lies outside them; File.Slice    *)
(* refuses the first, and takes a slice of the second, which panics.  The   *)
(* file is as it was loaded.                                                *)
Rows(d, range) ==
  IF range = <<>> THEN <<d.start, d.end>>
  ELSE <<IF range[1] < d.start THEN d.start ELSE range[1],
         IF range[2] > d.end THEN d.end ELSE range[2]>>

ReadSource(R, i, range) ==
  LET d == LocateSymbol(R, i)
  IN IF ~Found(d) THEN [outcome |-> "error"]
     ELSE LET rows == Rows(d, range)
          IN [outcome |-> IF rows[1] < rows[2] THEN "text" ELSE IF rows[1] = rows[2] THEN "error" ELSE "panic",
              id |-> i, rows |-> rows]

GetCodeSnippet(R, pkg, name, range) ==
  LET at == ResolveNamePath(R, pkg, name)
  IN IF at.ok THEN [ambiguous |-> at.ambiguous, shown |-> ReadSource(R, at.id, range)]
     ELSE [ambiguous |-> 0, shown |-> [outcome |-> "error"]]

=============================================================================
