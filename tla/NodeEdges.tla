------------------------------ MODULE NodeEdges ------------------------------
(***************************************************************************)
(* The typed edges of a declaration (internal/tool/nodeedges.go): one scan *)
(* per kind, and the handler of node_edges that asks for four times the    *)
(* limit, to know when it has cut an answer short.                         *)
(***************************************************************************)
EXTENDS CodeIndex

Edge(kind, target, targetKind, file) ==
  [kind |-> kind, target |-> target, targetKind |-> targetKind, file |-> file]

UpTo(n, s) == SubSeq(s, 1, IF n < Len(s) THEN n ELSE Len(s))
Each(s, F(_)) == [n \in DOMAIN s |-> F(s[n])]

(* Of the declarations that bear these names, one per package and name. *)
Resolve(R, names) ==
  OnceBy(FlattenSeq(Each(names, LAMBDA n : ByName(R, n))), LAMBDA d : <<d.pkg, d.name>>)

(* The location of a callee edge is the caller's. *)
CalleeEdges(d, targets) == Each(targets, LAMBDA t : Edge("callees", ID(t), DomainKind(t), d.file))

(* The declaration that has d's rows in the file as it is now. *)
Body(R, d) ==
  LET same == Where(Symbols(R, d.file), LAMBDA c : CallerKey(c) = CallerKey(d))
  IN IF same = <<>> THEN <<>> ELSE same[1].calls

(* The live walk stops below the node where it has enough, and goes on     *)
(* beside it: for calls that are not nested the limit does not count.      *)
ScanCallees(R, d, limit) ==
  LET indexed == EdgesByCaller(R, d)
  IN CASE d.name = 0 -> <<>>
       [] d.name # 0 /\ indexed # <<>> -> UpTo(limit, CalleeEdges(d, Resolve(R, indexed)))
       [] OTHER -> CalleeEdges(d, Resolve(R, Where(Body(R, d), LAMBDA n : n # 0)))

(* callerIDAt: the first function or method around the use. *)
FromServer(R, d, limit) ==
  LET users == Where(R.refs[d], LAMBDA c : Found(c) /\ c.kind \in {"function", "method"})
  IN UpTo(limit, Each(users, LAMBDA c : Edge("callers", For(c), "FUNCTION", c.file)))

CallsIt(R, d, c) == Callable(c) /\ d.name \in ToSet(c.calls)

FromOtherFiles(R, d, limit) ==
  LET others == Where(R.order, LAMBDA f : f # d.file)
      users == FlattenSeq(Each(others, LAMBDA f : Where(Symbols(R, f), LAMBDA c : CallsIt(R, d, c))))
  IN UpTo(limit, Each(users, LAMBDA c : Edge("callers", ID(c), DomainKind(c), c.file)))

ScanCallers(R, d, limit) ==
  IF d.name = 0 THEN <<>>
  ELSE IF FromServer(R, d, limit) # <<>> THEN FromServer(R, d, limit)
  ELSE FromOtherFiles(R, d, limit)

(* Every declaration of every test file, whatever it tests. *)
ScanTests(R, d, limit) ==
  LET tests == Where(R.order, LAMBDA f : f \in R.tests)
      declared == FlattenSeq(Each(tests, LAMBDA f : Symbols(R, f)))
  IN IF d.name = 0 THEN <<>>
     ELSE UpTo(limit, Each(declared, LAMBDA t : Edge("tests", ID(t), DomainKind(t), t.file)))

ScanImports(R, d, limit) ==
  LET indexed == ImportsIn(R, d.file)
      live == Once(Where(R.importsNow[d.file], LAMBDA p : p # 0))
      Package(p) == Edge("imports", [kind |-> "pkg", body |-> <<p>>], "PACKAGE", d.file)
  IN UpTo(limit, Each(IF indexed # <<>> THEN indexed ELSE live, Package))

(* Methods of the same name in the classes that d's class extends, as far  *)
(* as the same file declares them.  The limit ends the search in a class.  *)
ScanOverrides(R, d, limit) ==
  LET classes == Where(Symbols(R, d.file), LAMBDA c : c.kind = "class")
      own == Where(classes, LAMBDA c : c.name = d.recv)
      parents == Where(classes, LAMBDA c : c.name \in ToSet(own[1].extends))
      Has(c) == \E m \in ToSet(Symbols(R, d.file)) : m.kind = "method" /\ m.recv = c.name /\ m.name = d.name
      found == OnceBy(Where(parents, Has), LAMBDA c : c.name)
      Target(c) == [kind |-> "meth", body |-> Append(c.pkg, c.name) \o <<d.name>>]
  IN IF d.recv = 0 \/ d.kind # "method" \/ own = <<>> THEN <<>>
     ELSE Each(found, LAMBDA c : Edge("overrides", Target(c), "METHOD", d.file))

(* scanFor; node_edges has the same switch, and a kind it does not know has *)
(* no edges.                                                               *)
ScanFor(kind, R, d, limit) ==
  CASE kind = "callees" -> ScanCallees(R, d, limit)
    [] kind = "callers" -> ScanCallers(R, d, limit)
    [] kind = "tests" -> ScanTests(R, d, limit)
    [] kind = "imports" -> ScanImports(R, d, limit)
    [] kind = "overrides" -> ScanOverrides(R, d, limit)
    [] OTHER -> <<>>

(* Mutant: no more is asked for than is given. *)
ScanNoMore(limit) == limit
ScanLimit(limit) == limit * 4

NodeEdgesAnswer(R, i, kinds, limit) ==
  LET d == LocateSymbol(R, i)
      asked == IF kinds = <<>> THEN <<"callers", "callees", "tests">> ELSE kinds
      most == IF limit <= 0 THEN 50 ELSE limit
      raw == Each(asked, LAMBDA k : ScanFor(k, R, d, ScanLimit(most)))
  IN IF ~Found(d) THEN [ok |-> FALSE, edges |-> <<>>, truncated |-> FALSE, total |-> 0]
     ELSE [ok |-> TRUE,
           edges |-> FlattenSeq(Each(raw, LAMBDA s : UpTo(most, s))),
           truncated |-> \E n \in DOMAIN raw : Len(raw[n]) > most,
           total |-> FoldLeft(LAMBDA sum, s : sum + Len(s), 0, raw)]

(***************************************************************************)
(* What node_edges owes: reference definitions.                            *)
(***************************************************************************)
(* More than a limit of query_graph can be. *)
Unlimited == 1001

(* Of each kind the first edges there are, up to the limit; it is truncated *)
(* just when one kind has more.                                            *)
FirstEdges(R, i, kinds, limit, answer) ==
  LET asked == IF kinds = <<>> THEN <<"callers", "callees", "tests">> ELSE kinds
      most == IF limit <= 0 THEN 50 ELSE limit
      All(k) == ScanFor(k, R, LocateSymbol(R, i), Unlimited)
  IN /\ answer.edges = FlattenSeq(Each(asked, LAMBDA k : UpTo(most, All(k))))
     /\ answer.truncated <=> \E n \in DOMAIN asked : Len(All(asked[n])) > most

(* The index is of the files as they are, in a language without a server;  *)
(* what calls has a name and an id of its own.                             *)
AsIndexed(R) ==
  /\ R.now = R.loaded
  /\ \A c \in Decls(R) :
       /\ R.refs[c] = <<>> /\ c.file \in ToSet(R.order)
       /\ 0 \notin ToSet(c.calls) /\ (c.calls # <<>> => Callable(c))
  /\ \A c, d \in Decls(R) : Callable(c) /\ Callable(d) => (ID(c) = ID(d) <=> CallerKey(c) = CallerKey(d))

(* Then a declaration in another file is among those that d calls, up to   *)
(* what an edge tells apart (package and name), just when d is among its   *)
(* callers; callers in a declaration's own file are never reported.        *)
TargetsOf(edges) == {e.target : e \in ToSet(edges)}
CallersAnswerCallees(R, d) ==
  LET callees == ScanCallees(R, d, Unlimited)
      Callers(t) == ScanCallers(R, t, Unlimited)
      called == {<<c.pkg, c.name>> : c \in {c \in Decls(R) : ID(c) \in TargetsOf(callees)}}
  IN Callable(d) /\ Len(callees) < Unlimited =>
       \A t \in Decls(R) : t.file # d.file /\ Len(Callers(t)) < Unlimited =>
         (<<t.pkg, t.name>> \in called <=> ID(d) \in TargetsOf(Callers(t)))

EdgesOwed(R, i, kinds, limit, answer) ==
  answer.ok =>
    /\ FirstEdges(R, i, kinds, limit, answer)
    /\ AsIndexed(R) => CallersAnswerCallees(R, LocateSymbol(R, i))

=============================================================================
