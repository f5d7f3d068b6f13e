---------------------------- MODULE AnalysisInputs ----------------------------
(***************************************************************************)
(* Small repos, and questions about them, for the run of module Analysis.  *)
(* CodeIndex says what the fields of a repo and of a declaration are.      *)
(***************************************************************************)
EXTENDS Integers, Sequences, FiniteSets, SequencesExt, TLC

Decl(file, pkg, kind, name, recv, calls) ==
  [file |-> file, pkg |-> pkg, kind |-> kind, name |-> name, recv |-> recv, calls |-> calls, extends |-> <<>>]
Func(file, name, calls) == Decl(file, <<file>>, "function", name, 0, calls)
IdOf(kind, body) == [kind |-> kind, body |-> body]
FnId(file, name) == IdOf("fn", <<file, name>>)

(* A repo without imports whose index is of the files as they are, in the  *)
(* language that yactt reads without a server.                             *)
Repo(decls, order, tests) ==
  [loaded |-> decls, now |-> decls, order |-> order, tests |-> tests,
   imports |-> [f \in ToSet(order) |-> <<>>], importsNow |-> [f \in ToSet(order) |-> <<>>],
   refs |-> [d \in ToSet(decls) |-> <<>>]]

(***************************************************************************)
(* Walks: two functions in one file, a function, a class and its method in *)
(* a second, which is a test file; every combination of some bodies.       *)
(***************************************************************************)
Calls == {<<>>, <<2>>, <<3, 1>>, <<4>>}
CallDecls(a, b, c, d) ==
  <<Func(1, 1, a), Func(1, 2, b), Func(2, 3, c), Decl(2, <<2>>, "method", 4, 5, d), Decl(2, <<2>>, "class", 5, 0, <<>>)>>
CallRepos == {Repo(CallDecls(a, b, c, d), <<1, 2>>, {2}) : a \in Calls, b \in Calls, c \in Calls, d \in Calls}

Walk(from, seeds, weights, follow, depth, limit) ==
  [from |-> from, seeds |-> seeds, weights |-> weights, follow |-> follow,
   depth |-> depth, limit |-> limit, kind |-> "", exclude |-> ""]

ThreeSeeds == <<FnId(1, 1), FnId(2, 3), FnId(1, 1)>>
EveryDecl == <<FnId(1, 1), FnId(1, 2), FnId(2, 3), IdOf("meth", <<2, 5, 4>>)>>
Walks ==
  {Walk(<<FnId(1, 1)>>, <<>>, <<>>, follow, depth, limit) :
     follow \in {<<"callees">>, <<"callers">>, <<"callees", "callers">>}, depth \in {0, 3}, limit \in {1, 9}}
  \cup {Walk(<<>>, ThreeSeeds, <<10, 30, 60>>, <<kind>>, depth, 9) :
     kind \in {"callees", "callers"}, depth \in {0, 3}}
  \cup {[Walk(<<FnId(1, 1)>>, <<>>, <<>>, <<"callees">>, 3, 9) EXCEPT !.exclude = "tests"],
        [Walk(<<FnId(1, 1)>>, <<>>, <<>>, <<"callees">>, 3, 9) EXCEPT !.kind = "METHOD"],
        Walk(<<>>, EveryDecl, <<>>, <<"callees">>, 3, 9),
        Walk(<<FnId(1, 9)>>, <<>>, <<>>, <<"callees">>, 3, 9),
        Walk(<<>>, ThreeSeeds, <<10>>, <<"callees">>, 3, 9)}

(***************************************************************************)
(* Edges: also a class that extends another, an edited file, answers of a  *)
(* language server.                                                        *)
(***************************************************************************)
Sub == [Decl(1, <<1>>, "class", 6, 0, <<>>) EXCEPT !.extends = <<7>>]
Classes == <<Sub, Decl(1, <<1>>, "class", 7, 0, <<>>), Decl(1, <<1>>, "method", 4, 6, <<3>>), Decl(1, <<1>>, "method", 4, 7, <<>>)>>

EdgeDecls(a, b, c) == <<Func(1, 1, a), Func(2, 2, b), Func(3, 3, c), Func(2, 4, <<1>>)>> \o Classes
Bodies == {<<>>, <<2>>, <<3, 1>>, <<4, 2>>}
Plainly(a, b, c, order) == Repo(EdgeDecls(a, b, c), order, {2, 3})
Used(R, d) == [R EXCEPT !.refs[d] = <<R.now[2], R.now[3], [kind |-> "none"]>>]
Edited(R, decls) ==
  [R EXCEPT !.now = decls, !.refs = [d \in ToSet(R.now) \cup ToSet(decls) |-> <<>>]]
EdgeRepos ==
  {Plainly(a, b, c, order) : a \in Bodies, b \in Bodies, c \in {<<>>, <<2>>}, order \in {<<1, 2, 3>>, <<3, 1, 2>>}}
  \cup {Used(Plainly(a, <<2>>, <<1>>, <<1, 2, 3>>), Func(1, 1, a)) : a \in Bodies}
  \cup {Edited(Plainly(a, <<1>>, <<1>>, <<1, 2, 3>>), EdgeDecls(<<>>, b, <<2>>)) : a \in Bodies, b \in Bodies}
  \cup {[Plainly(a, <<>>, <<>>, <<1, 2, 3>>) EXCEPT !.imports[1] = <<1, 0, 2, 1>>, !.importsNow[3] = <<2>>] : a \in Bodies}

EdgeQuestions ==
  {[id |-> i, kinds |-> kinds, limit |-> limit] :
     i \in {FnId(1, 1), FnId(2, 2), FnId(3, 3), IdOf("meth", <<1, 6, 4>>), FnId(3, 9)},
     kinds \in {<<>>, <<"callees", "callers">>, <<"imports", "overrides", "other">>}, limit \in {0, 1, 2}}

(***************************************************************************)
(* Ids: any three declarations of these, in one package or in two.         *)
(***************************************************************************)
SomeDecls(pkg) ==
  {Decl(f, pkg[f], kind, name, 0, <<>>) : f \in {1, 2}, kind \in {"function", "class", "type"}, name \in {1, 2}}
  \cup {Decl(f, pkg[f], "method", 2, recv, <<>>) : f \in {1, 2}, recv \in {0, 1}}
IdRepos ==
  UNION {{Repo(<<a, b, c>>, <<1, 2>>, {}) : a \in SomeDecls(pkg), b \in SomeDecls(pkg), c \in SomeDecls(pkg)} :
           pkg \in {<<<<1>>, <<1>>>>, <<<<1>>, <<2>>>>}}

(***************************************************************************)
(* Import graphs of four files: two packages of one file and one of two;   *)
(* -1 is "./x" and -2 is "../x".                                           *)
(***************************************************************************)
ImportRepo(imports, order) ==
  [Repo(<<Func(1, 1, <<2>>), Func(2, 2, <<>>)>>, order, {}) EXCEPT !.imports = imports]
  @@ [package |-> <<<<1>>, <<2>>, <<9, 3>>, <<9, 4>>>>, exported |-> {2}]
Few(S, n) == {SetToSeq(T) : T \in {T \in SUBSET S : Cardinality(T) <= n}}
ImportRepos ==
  {ImportRepo(<<a, b, c, d>>, order) :
     a \in Few({2, 3, 4}, 3), b \in Few({1, 3, 4}, 2), c \in Few({1, 2, 4, -1}, 2), d \in Few({1, 2, 3, -2}, 1),
     order \in {<<1, 2, 3, 4>>}}

(***************************************************************************)
(* Diffs of two files: nested declarations in one, none in a third, and a  *)
(* file at the root that shares its name.                                  *)
(***************************************************************************)
Rowed(d, start, end) == d @@ [start |-> start, end |-> end]
RowedDecls ==
  <<Rowed(Decl(1, <<1>>, "class", 6, 0, <<>>), 1, 6), Rowed(Decl(1, <<1>>, "method", 4, 6, <<2>>), 2, 4),
    Rowed(Func(1, 1, <<2>>), 6, 8), Rowed(Func(2, 2, <<>>), 0, 3)>>
DiffRepo(base, package) == Repo(RowedDecls, <<1, 2>>, {2}) @@ [base |-> base, package |-> package]
DiffRepos == {DiffRepo(<<1, 2>>, <<<<1>>, <<2>>>>), DiffRepo(<<1, 1>>, <<<<1>>, <<2>>>>), DiffRepo(<<1, 1>>, <<<<1>>, <<>>>>)}

Header(R, f, quoted) == [kind |-> "file", dir |-> R.package[f], base |-> R.base[f], quoted |-> quoted]
(* An added line that reads as a header, and a line of over 1 MB. *)
Text(R, f) == [Header(R, f, FALSE) EXCEPT !.kind = "text"]
Long == [kind |-> "long"]
Hunk(start, new) == [kind |-> "hunk", old |-> 1, start |-> start, new |-> new]
OmitCount == -1
CountOf(new) == IF new = OmitCount THEN 1 ELSE new
(* Hunks of a file, in its order; git leaves a row between two of them. *)
HunkPairs ==
  {<<Hunk(s, n), Hunk(t, m)>> : s \in 1..5, t \in 3..8, n \in {OmitCount, 0, 2, 3}, m \in {OmitCount, 2}}
GitHunks == {<<h[1]>> : h \in HunkPairs} \cup {h \in HunkPairs : h[1].start + CountOf(h[1].new) < h[2].start}
DiffsOf(R) ==
  {<<Header(R, 1, FALSE)>> \o hs \o <<Header(R, 2, quoted), Hunk(s, OmitCount)>> :
     hs \in GitHunks, quoted \in BOOLEAN, s \in {1, 4}}
  \cup {<<Header(R, 1, FALSE), Hunk(s, 2), odd, Hunk(6, OmitCount)>> : odd \in {Text(R, 2), Long}, s \in 1..3}

(* Renames of one declaration and of two; 9 is no name there is. *)
SomeRenames == {[id |-> i, new |-> n] : i \in {FnId(1, 1), FnId(2, 2), FnId(2, 9)}, n \in {0, 2, 9}}
RenameLists == {<<r>> : r \in SomeRenames} \cup {<<r, s>> : r \in SomeRenames, s \in SomeRenames}

(***************************************************************************)
(* Code to search: the files of the diffs, rows that match in each; with a *)
(* limit of one, sixteen hits are all that is looked for.                  *)
(***************************************************************************)
CodeRepos == {[DiffRepo(<<1, 2>>, <<<<1>>, <<2>>>>) EXCEPT !.order = order] : order \in {<<1, 2>>, <<2, 1>>}}
RowsOf(S) == SetToSortSeq(S, LAMBDA a, b : a < b)
CodeQuestion(one, two, within, rejects, limit) ==
  [rows |-> <<one, two>>, within |-> within, rejects |-> rejects, limit |-> limit]
CodeQuestions ==
  {CodeQuestion(RowsOf(S), RowsOf(T), within, rejects, limit) :
     S \in SUBSET {1, 3, 6, 7, 8}, T \in SUBSET {0, 2, 4}, within \in {{1}, {1, 2}}, rejects \in {{}, {2}}, limit \in 0..2}
  \cup {CodeQuestion([k \in 1..n |-> row], <<2>>, {1, 2}, rejects, 1) :
       row \in {3, 6}, n \in {4, 14, 15, 16, 17}, rejects \in {{}, {2}}}

Term(name, part, docs, paths) == [name |-> name, part |-> part, docs |-> docs, paths |-> paths]
Terms ==
  {Term(name, [n \in 1..9 |-> IF n = part THEN 5 ELSE 0], docs, paths) :
     name \in {0, 1, 4}, part \in {0, 2}, docs \in {{}, {<<1, 6>>, <<2, 2>>}}, paths \in {{}, {1}, {2}}}
Searches ==
  {[terms |-> terms, kinds |-> kinds, within |-> {1, 2}, limit |-> limit] :
     terms \in {<<t>> : t \in Terms} \cup {<<t, u>> : t \in Terms, u \in Terms}, kinds \in {{}, {"FUNCTION"}}, limit \in {0, 1}}

(* Two declarations, in packages that are one, nested, or the root. *)
NamedPackages == {<<<<1>>, <<1>>>>, <<<<1>>, <<1, 2>>>>, <<<<>>, <<1>>>>}
SymbolRepos ==
  UNION {{Repo(<<Rowed(a, 2, 5), Rowed(b, 6, 8)>>, <<1, 2>>, {}) : a \in SomeDecls(pkg), b \in SomeDecls(pkg)} : pkg \in NamedPackages}
SymbolQuestions ==
  {[pkg |-> pkg, name |-> name, names |-> {name} \cup more, limit |-> limit, kinds |-> ways[1], range |-> ways[2]] :
     pkg \in {<<>>, <<1>>, <<1, 2>>}, name \in {1, 2}, more \in {{}, {1}}, limit \in {0, 1},
     ways \in {<<<<>>, <<>>>>, <<<<"other">>, <<0, 4>>>>, <<<<>>, <<4, 3>>>>}}

(***************************************************************************)
(* Files to chunk: two declarations with any rows above them.              *)
(***************************************************************************)
LineKinds == {"blank", "comment", "code"}
ChunkDecls == <<Rowed(Func(1, 2, <<3>>), 4, 6), Rowed(Func(1, 1, <<>>), 2, 3), Rowed(Decl(2, <<2>>, "method", 3, 5, <<1>>), 2, 3)>>
ChunkRepo(above, order) ==
  Repo(ChunkDecls, order, {2})
  @@ [lines |-> <<<<above[1], above[2], "code", above[3], "code", "code">>, <<above[2], above[1], "code">>>>,
      module |-> <<7>>, package |-> <<<<1>>, <<2>>>>]
ChunkRepos == {ChunkRepo(<<a, b, c>>, order) : a \in LineKinds, b \in LineKinds, c \in LineKinds, order \in {<<1, 2>>, <<2, 1>>}}
ChunkQuestions ==
  {[policy |-> policy, files |-> files, size |-> size,
    opts |-> [include |-> include, exclude |-> exclude, withTests |-> withTests]] :
     policy \in {"function", "class", "module"}, files \in {1, 2}, include \in {{}, {1}}, exclude \in {{}, {1}},
     withTests \in BOOLEAN, size \in {0}}
  \cup {[policy |-> "function", files |-> 2, size |-> size, opts |-> [include |-> {}, exclude |-> {}, withTests |-> TRUE]] :
     size \in {1, 799, 800, 801, 1000, 1001, 1800, 1801, 2600, 2601}}

(***************************************************************************)
(* Rankings of three ids by three channels.                                *)
(***************************************************************************)
Ranking == {s \in UNION {[1..n -> {1, 2, 3}] : n \in 0..3} : \A m, n \in DOMAIN s : s[m] = s[n] => m = n}
HitList(s, channel) == [n \in DOMAIN s |-> [id |-> s[n], payload |-> channel]]
Retrieval(structural, bm25, vector, limit) ==
  [query |-> "q", terms |-> 1, channels |-> {"structural", "bm25", "vector"}, limit |-> limit, overscan |-> 0,
   structural |-> HitList(structural, "structural"), bm25 |-> HitList(bm25, "bm25"),
   vector |-> HitList(vector, "vector"), chunks |-> {1, 2, 3}, fails |-> "none"]
Retrievals ==
  {Retrieval(s, b, v, limit) : s \in Ranking, b \in Ranking, v \in Ranking, limit \in {0, 1}}
  \cup {[Retrieval(s, <<2, 1>>, <<3, 1>>, 2) EXCEPT !.channels = channels, !.fails = fails, !.terms = terms, !.chunks = {1}] :
     s \in {<<>>, <<1>>}, channels \in SUBSET {"structural", "bm25", "vector"},
     fails \in {"none", "backend", "chunker", "embed"}, terms \in {0, 1}}
  \cup {[Retrieval(<<>>, <<>>, <<>>, 1) EXCEPT !.query = ""]}

(***************************************************************************)
(* How much may happen to the disk cache, and what clients of the server   *)
(* send.                                                                   *)
(***************************************************************************)
DiskBounds == [loads |-> 2, faults |-> 1, edits |-> 1]
Streams ==
  {<<"call", "silent">>, <<"note", "cancel">>, <<"unknown", "call">>, <<"blank", "huge">>}

=============================================================================
