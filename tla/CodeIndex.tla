------------------------------ MODULE CodeIndex ------------------------------
(***************************************************************************)
(* The index of declarations and calls that store.rebuildIndex makes when  *)
(* a repo is loaded (internal/store/resolver.go, edges.go, imports.go),    *)
(* the node ids its entries go by (internal/id, internal/entity), and the  *)
(* way back from an id to a declaration.                                   *)
(*                                                                         *)
(* A repo R is what the tools see of it:                                   *)
(*   R.loaded   declarations when the index was built, by file             *)
(*   R.now      declarations as CachedFile and Symbols have them           *)
(*   R.order    its files in the order in which Go walks the map           *)
(*   R.imports  per file the import paths then, in source order;           *)
(*   R.importsNow  as the file has them now                                *)
(*   R.tests    files that are called *_test.go                            *)
(*   R.refs     what the language server answers for a declaration: the    *)
(*              declarations it is used in, NotFound for a use outside any; *)
(*              empty when there is no server                              *)
(* A declaration has a file, a package (its directory, as segments), a     *)
(* kind, a name, a receiver, the names its body calls, in source order and *)
(* none inside another, and the names it extends.                          *)
(* Names, segments and files are numbers, which their order is that of;    *)
(* 0 is the empty string.                                                  *)
(***************************************************************************)
EXTENDS Integers, Sequences, FiniteSets, SequencesExt

IsSeq(s) == s \in Seq(ToSet(s))
Decls(R) == ToSet(R.loaded) \cup ToSet(R.now)
IsRepo(R) ==
  /\ IsSeq(R.loaded) /\ IsSeq(R.now) /\ IsSeq(R.order)
  /\ \A d \in Decls(R) :
       /\ d.kind # "none" /\ IsSeq(d.pkg) /\ d.calls \in Seq(Nat) /\ IsSeq(d.extends)
       /\ IsSeq(R.imports[d.file]) /\ IsSeq(R.importsNow[d.file]) /\ IsSeq(R.refs[d])

(***************************************************************************)
(* Selections from a sequence: the elements at some of its positions, in   *)
(* order; those that satisfy P; the first with each key.                   *)
(***************************************************************************)
Nth(S, k) == CHOOSE n \in S : Cardinality({m \in S : m < n}) = k - 1
Sorted(S) == [k \in 1..Cardinality(S) |-> Nth(S, k)]
At(s, N) == [k \in 1..Cardinality(N) |-> s[Nth(N, k)]]
Where(s, P(_)) == At(s, {n \in DOMAIN s : P(s[n])})
OnceBy(s, Key(_)) == At(s, {n \in DOMAIN s : \A m \in 1..(n - 1) : Key(s[m]) # Key(s[n])})
Once(s) == OnceBy(s, LAMBDA x : x)

(***************************************************************************)
(* Ids: a kind and the dotted segments of the body.                        *)
(***************************************************************************)
ClassForms == {"type", "class", "interface", "alias", "enum", "struct", "trait"}

(* idKindFromGrammar, which Entity.ID goes by. *)
IdKind(d) ==
  CASE d.kind = "method" -> IF d.recv = 0 THEN "fn" ELSE "meth"
    [] d.kind \in ClassForms -> "class"
    [] d.kind = "module" -> "module"
    [] OTHER -> "fn"

(* id.For has a table of its own. *)
ForKind(d) ==
  CASE d.kind = "method" /\ d.recv # 0 -> "meth"
    [] d.kind \in ClassForms \ {"struct", "trait"} -> "class"
    [] d.kind = "module" -> "module"
    [] OTHER -> "fn"

IdWith(k, d) ==
  [kind |-> k, body |-> d.pkg \o (IF k = "meth" THEN <<d.recv, d.name>> ELSE <<d.name>>)]
ID(d) == IdWith(IdKind(d), d)
For(d) == IdWith(ForKind(d), d)

(* The order of ids as strings: the answers of the tools are sorted by it. *)
LexLess(a, b) ==
  \E n \in 1..Len(b) : /\ \A m \in 1..(n - 1) : m <= Len(a) /\ a[m] = b[m]
                       /\ n > Len(a) \/ a[n] < b[n]
KindRank == [class |-> 1, fn |-> 2, meth |-> 3, module |-> 4]
IdLess(i, j) == KindRank[i.kind] < KindRank[j.kind] \/ (i.kind = j.kind /\ LexLess(i.body, j.body))

(* The canonical kind of a declaration. *)
DomainKind(d) ==
  CASE d.kind \in ClassForms -> "CLASS"
    [] d.kind = "method" -> "METHOD"
    [] d.kind = "module" -> "MODULE"
    [] OTHER -> "FUNCTION"

(* The three parsers split the same body in three ways: from the right, in *)
(* at most three parts, in at most two.  What is left of the body stays    *)
(* joined in the name, which then is no name of a declaration.             *)
BadFormat == [ok |-> FALSE, pkg |-> <<>>, class |-> 0, name |-> <<>>]
IdParts(p, c, n) == [ok |-> TRUE, pkg |-> p, class |-> c, name |-> n]

FunctionParts(b) ==
  LET n == Len(b)
  IN CASE n = 1 -> BadFormat
       [] n = 2 -> IdParts(<<b[1]>>, 0, <<b[2]>>)
       [] OTHER -> IdParts(SubSeq(b, 1, n - 2), b[n - 1], <<b[n]>>)

MethodParts(b) ==
  LET n == Len(b)
  IN CASE n = 1 -> BadFormat
       [] n = 2 -> IdParts(<<>>, b[1], <<b[2]>>)
       [] OTHER -> IdParts(<<b[1]>>, b[2], SubSeq(b, 3, n))

ClassParts(i) ==
  IF i.kind # "class" \/ Len(i.body) = 1 THEN BadFormat
  ELSE IdParts(<<i.body[1]>>, 0, SubSeq(i.body, 2, Len(i.body)))

(***************************************************************************)
(* byName: a declaration is filed under its package and under no package;  *)
(* for a file in the root these are one key, which then has it twice.      *)
(***************************************************************************)
Entry(d, pkg, name) ==
  IF <<d.name>> # name THEN <<>>
  ELSE (IF d.pkg = pkg THEN <<d>> ELSE <<>>) \o (IF pkg = <<>> THEN <<d>> ELSE <<>>)

AnyName(d, pkg) ==
  (IF d.pkg = pkg THEN <<d>> ELSE <<>>) \o
  (IF pkg = <<>> THEN <<d, d>> ELSE <<>>)

(* Lookup; entries of one file keep the order of its declarations. *)
Lookup(R, pkg, name) ==
  LET Of(d) == IF name # <<>> THEN Entry(d, pkg, name)
               ELSE IF pkg # <<>> THEN AnyName(d, pkg) ELSE <<d, d>>
  IN FlattenSeq([n \in DOMAIN R.loaded |-> Of(R.loaded[n])])

ByName(R, name) == Lookup(R, <<>>, <<name>>)
Symbols(R, file) == Where(R.now, LAMBDA d : d.file = file)
Callable(d) == d.kind \in {"function", "method"} /\ d.name # 0

(***************************************************************************)
(* byCallEdge: one entry per caller and callee name.                       *)
(***************************************************************************)
CallerKey(d) == <<d.file, d.recv, d.name>>

EdgesByCallee(R, name) ==
  Where(R.loaded, LAMBDA d : Callable(d) /\ name \in ToSet(d.calls))

(* The names that callers with this key call, sorted. *)
EdgesByCaller(R, d) ==
  LET Same(c) == Callable(c) /\ CallerKey(c) = CallerKey(d)
      names == UNION {ToSet(c.calls) : c \in {c \in ToSet(R.loaded) : Same(c)}}
  IN IF d.name = 0 THEN <<>> ELSE Sorted(names)

(* importsByFile; an import without a path is left out. *)
ImportsIn(R, file) == Once(Where(R.imports[file], LAMBDA p : p # 0))

(***************************************************************************)
(* LocateSymbol.                                                           *)
(***************************************************************************)
NotFound == [kind |-> "none"]
Found(d) == d # NotFound

FirstOr(s, P(_), other) ==
  LET ok == Where(s, P) IN IF ok # <<>> THEN ok[1] ELSE other
HeadOr(s, other) == IF s # <<>> THEN s[1] ELSE other

(* In the package, else by the name alone. *)
Candidates(R, parts) ==
  LET there == Lookup(R, parts.pkg, parts.name)
  IN IF there # <<>> THEN there ELSE Lookup(R, <<>>, parts.name)

LocateFunction(R, parts) ==
  LET es == Candidates(R, parts)
  IN FirstOr(es, LAMBDA d : d.kind = "function", HeadOr(es, NotFound))

(* Mutant: the receiver is not compared. *)
IsMethodOfAny(m, t, name) == m.kind = "method" /\ <<m.name>> = name
IsMethodOf(m, t, name) == m.kind = "method" /\ <<m.name>> = name /\ m.recv = t.name

(* A method is looked for in the files that declare its class. *)
LocateMethod(R, parts) ==
  LET types == Where(Lookup(R, parts.pkg, <<parts.class>>), LAMBDA d : d.kind \in {"type", "class"})
      methods(t) == Where(Symbols(R, t.file), LAMBDA m : IsMethodOf(m, t, parts.name))
  IN HeadOr(FlattenSeq([n \in DOMAIN types |-> methods(types[n])]), NotFound)

LocateType(R, parts) ==
  LET es == Candidates(R, parts)
  IN FirstOr(es, LAMBDA d : d.kind = "type", HeadOr(es, NotFound))

(* ClassParts refuses a module id, and its error is dropped: the lookup is *)
(* then for the empty name in the empty package, which is everything.  The *)
(* id of a file is left out: it leads to a symbol that stands for all of   *)
(* the file, and no question here is of one.                               *)
LocateSymbol(R, i) ==
  CASE i.kind = "fn" -> LET p == FunctionParts(i.body) IN IF p.ok THEN LocateFunction(R, p) ELSE NotFound
    [] i.kind = "meth" -> LET p == MethodParts(i.body) IN IF p.ok THEN LocateMethod(R, p) ELSE NotFound
    [] i.kind = "class" -> LET p == ClassParts(i) IN IF p.ok THEN LocateType(R, p) ELSE NotFound
    [] i.kind = "module" -> LocateType(R, BadFormat)
    [] OTHER -> NotFound

(***************************************************************************)
(* What LocateSymbol owes: an id leads back when its package is of one     *)
(* segment and gives the name to one kind only, and a method's file        *)
(* declares its class.  A module's id does not.                            *)
(***************************************************************************)
LeadsBack(R, d) ==
  /\ Len(d.pkg) = 1 /\ IdKind(d) # "module"
  /\ IF IdKind(d) = "meth"
       THEN \E c \in Decls(R) : c.file = d.file /\ c.kind \in {"class", "type"} /\ c.name = d.recv
       ELSE \A c \in Decls(R) : c.pkg = d.pkg /\ c.name = d.name => IdKind(c) = IdKind(d)

(* The index is of the files as they are, each of one package.             *)
Filed(R) ==
  /\ R.now = R.loaded
  /\ \A c, d \in Decls(R) : c.file = d.file => c.pkg = d.pkg

=============================================================================
