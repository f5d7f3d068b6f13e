--------------------------- MODULE QueryGraphProofs ---------------------------
(***************************************************************************)
(* Proofs about QueryGraph and the scans below it, for every repo and      *)
(* question: first what the lookups and scans of CodeIndex and NodeEdges   *)
(* give, whatever the limit, then the walk, then node_edges, then the way  *)
(* from a name or an id to a declaration.  The walk rests on two facts: a  *)
(* scan with a limit is the start of the one without (ScanCut), and when   *)
(* all scans of a step are whole, what is hit is all that is one step      *)
(* further (OneFurther).                                                   *)
(***************************************************************************)
EXTENDS QueryGraph, FiniteSetTheorems, FunctionTheorems, SequenceTheorems, WellFoundedInduction, TLAPS

-----------------------------------------------------------------------------
(* The natural numbers are well-founded ...                                *)
LEMMA LessWellFounded == IsWellFoundedOn({ss \in Nat \X Nat : ss[1] < ss[2]}, Nat)
  BY NatLessThanWellFounded, Zenon DEF OpToRel

(* ... so a non-empty set of them has a least element, ...                 *)
LEMMA LeastIsThere ==
  ASSUME NEW S \in SUBSET Nat, S # {}
  PROVE  \E x \in S : \A y \in S : x <= y
<1> DEFINE Less == {ss \in Nat \X Nat : ss[1] < ss[2]}
<1>1. \E x \in S : \A y \in S : ~(<<y, x>> \in Less)
  <2> HIDE DEF Less
  <2>1. IsWellFoundedOn(Less, Nat)
    BY LessWellFounded DEF Less
  <2> QED
    BY <2>1, WFMin
<1>2. PICK x \in S : \A y \in S : ~(<<y, x>> \in Less)
  BY <1>1
<1>3. ASSUME NEW y \in S PROVE x <= y
  <2>1. ~(y < x)
    BY <1>2
  <2> QED
    BY <2>1
<1> QED
  BY <1>3

(* ... and a set with 0 and the successor of each of its elements has all. *)
LEMMA Induction ==
  ASSUME NEW G, 0 \in G, \A n \in Nat : n \in G => n + 1 \in G
  PROVE  \A n \in Nat : n \in G
<1> DEFINE Bad == Nat \ G
<1> SUFFICES ASSUME Bad # {} PROVE FALSE
  OBVIOUS
<1>1. PICK n \in Bad : \A m \in Bad : n <= m
  <2> Bad \in SUBSET Nat
    OBVIOUS
  <2> HIDE DEF Bad
  <2> QED
    BY LeastIsThere
<1>2. n \in Nat /\ n # 0 /\ n - 1 \in Nat /\ n - 1 \notin Bad
  BY <1>1
<1> QED
  BY <1>2

(* How many elements of S are less than x.                                 *)
Rank(S, x) == Cardinality({m \in S : m < x})

(* Of a finite set of numbers, those with fewer below them are less.       *)
LEMMA RankMonotone ==
  ASSUME NEW S \in SUBSET Nat, IsFiniteSet(S), NEW x \in S, NEW y \in S, x < y
  PROVE  Rank(S, x) \in 0..(Cardinality(S) - 1) /\ Rank(S, x) < Rank(S, y)
<1> DEFINE A == {m \in S : m < x}
           B == {m \in S : m < y}
<1>1. IsFiniteSet(A) /\ IsFiniteSet(B) /\ Cardinality(S) \in Nat /\ Cardinality(A) \in Nat /\ Cardinality(B) \in Nat
  <2>1. A \in SUBSET S /\ B \in SUBSET S
    OBVIOUS
  <2> HIDE DEF A, B
  <2> QED
    BY <2>1, FS_Subset, FS_CardinalityType
<1>2. A \cup {x} \in SUBSET B /\ x \notin A /\ B \in SUBSET S
  <2>1. x \in Nat /\ y \in Nat /\ \A m \in S : m \in Nat
    OBVIOUS
  <2>2. \A m \in A : m \in B
    BY <2>1
  <2>3. x \notin A /\ x \in B
    BY <2>1
  <2> QED
    BY <2>2, <2>3
<1> HIDE DEF A, B
<1>3. Cardinality(A \cup {x}) = Cardinality(A) + 1
  BY <1>1, <1>2, FS_AddElement
<1>4. Cardinality(A \cup {x}) <= Cardinality(B) /\ Cardinality(B) <= Cardinality(S)
  BY <1>1, <1>2, FS_Subset
<1>5. Rank(S, x) = Cardinality(A) /\ Rank(S, y) = Cardinality(B)
  BY DEF Rank, A, B
<1> QED
  BY <1>1, <1>3, <1>4, <1>5

LEMMA RankBounded ==
  ASSUME NEW S \in SUBSET Nat, IsFiniteSet(S), NEW x \in S
  PROVE  Rank(S, x) \in 0..(Cardinality(S) - 1) /\ Cardinality(S) \in Nat
<1> DEFINE A == {m \in S : m < x}
<1>1. A \in SUBSET (S \ {x})
  OBVIOUS
<1> HIDE DEF A
<1>2. /\ IsFiniteSet(S \ {x}) /\ Cardinality(S \ {x}) = Cardinality(S) - 1 /\ Cardinality(S) \in Nat
      /\ IsFiniteSet(A) /\ Cardinality(A) \in Nat /\ Cardinality(A) <= Cardinality(S \ {x})
  BY <1>1, FS_Subset, FS_CardinalityType, FS_RemoveElement
<1>3. Rank(S, x) = Cardinality(A)
  BY DEF Rank, A
<1> QED
  BY <1>2, <1>3

(* Nth counts the elements of a finite set of numbers, in their order.     *)
LEMMA NthFacts ==
  ASSUME NEW S \in SUBSET Nat, IsFiniteSet(S)
  PROVE  /\ Cardinality(S) \in Nat
         /\ \A k \in 1..Cardinality(S) : Nth(S, k) \in S /\ Rank(S, Nth(S, k)) = k - 1
         /\ \A j, k \in 1..Cardinality(S) : j < k => Nth(S, j) < Nth(S, k)
         /\ \A x \in S : \E k \in 1..Cardinality(S) : Nth(S, k) = x
<1> DEFINE n == Cardinality(S)
           T == 0..(n - 1)
           r == [x \in S |-> Rank(S, x)]
<1>1. n \in Nat
  BY FS_CardinalityType
<1>2. IsFiniteSet(T) /\ Cardinality(T) = n
  <2>1. 0 \in Int /\ n - 1 \in Int
    BY <1>1
  <2>2. IsFiniteSet(T) /\ Cardinality(T) = IF 0 > n - 1 THEN 0 ELSE n - 1 - 0 + 1
    BY <2>1, FS_Interval
  <2> QED
    BY <1>1, <2>2
<1>3. r \in [S -> T]
  BY RankBounded
<1>4. \A x, y \in S : r[x] = r[y] => x = y
  <2> SUFFICES ASSUME NEW x \in S, NEW y \in S, r[x] = r[y], x < y PROVE FALSE
    <3>1. \A x, y \in S : x = y \/ x < y \/ y < x
      OBVIOUS
    <3> HIDE DEF r
    <3> QED
      BY <3>1
  <2>1. Rank(S, x) < Rank(S, y) /\ Rank(S, x) \in Nat
    BY RankMonotone
  <2> QED
    BY <2>1
<1>5. r \in Surjection(S, T)
  <2>1. r \in Injection(S, T)
    BY <1>3, <1>4 DEF Injection, IsInjective
  <2> HIDE DEF r, T
  <2> QED
    BY <1>2, <2>1, FS_Injection
<1>6. \A k \in 1..n : \E x \in S : Rank(S, x) = k - 1
  <2> SUFFICES ASSUME NEW k \in 1..n PROVE \E x \in S : Rank(S, x) = k - 1
    OBVIOUS
  <2>1. k - 1 \in T
    BY <1>1
  <2>2. \E x \in S : r[x] = k - 1
    <3> HIDE DEF r, T
    <3> QED
      BY <1>5, <2>1 DEF Surjection
  <2> QED
    BY <2>2
<1>7. \A k \in 1..n : Nth(S, k) \in S /\ Rank(S, Nth(S, k)) = k - 1
  BY <1>6 DEF Nth, Rank
<1>8. ASSUME NEW j \in 1..n, NEW k \in 1..n, j < k PROVE Nth(S, j) < Nth(S, k)
  <2> DEFINE x == Nth(S, j)
             y == Nth(S, k)
  <2>1. x \in S /\ y \in S /\ Rank(S, x) = j - 1 /\ Rank(S, y) = k - 1 /\ x \in Nat /\ y \in Nat
    BY <1>7
  <2> HIDE DEF x, y
  <2>2. y < x => FALSE
    <3> SUFFICES ASSUME y < x PROVE FALSE
      OBVIOUS
    <3>1. Rank(S, y) < Rank(S, x)
      BY <2>1, RankMonotone
    <3> QED
      BY <1>1, <1>8, <2>1, <3>1
  <2>3. x # y
    BY <1>1, <1>8, <2>1
  <2>4. x < y
    BY <2>1, <2>2, <2>3
  <2> QED
    BY <2>4 DEF x, y
<1>9. ASSUME NEW x \in S PROVE \E k \in 1..n : Nth(S, k) = x
  <2> DEFINE k == Rank(S, x) + 1
  <2>1. k \in 1..n /\ k - 1 = Rank(S, x)
    BY <1>1, RankBounded
  <2>2. Nth(S, k) \in S /\ Rank(S, Nth(S, k)) = Rank(S, x)
    BY <1>7, <2>1
  <2> HIDE DEF k
  <2>3. Nth(S, k) = x
    BY <1>4, <2>2
  <2> QED
    BY <2>1, <2>3
<1> HIDE DEF r, T
<1> QED
  BY <1>1, <1>7, <1>8, <1>9

-----------------------------------------------------------------------------
(* What a selection has.                                                   *)
LEMMA AtFacts ==
  ASSUME NEW T, NEW s \in Seq(T), NEW N \in SUBSET DOMAIN s
  PROVE  /\ At(s, N) \in Seq(T) /\ Len(At(s, N)) = Cardinality(N) /\ Cardinality(N) <= Len(s)
         /\ ToSet(At(s, N)) = {s[n] : n \in N}
<1>1. DOMAIN s = 1..Len(s) /\ Len(s) \in Nat
  OBVIOUS
<1>2. IsFiniteSet(1..Len(s)) /\ Cardinality(1..Len(s)) = Len(s)
  <2>1. 1 \in Int /\ Len(s) \in Int
    BY <1>1
  <2>2. IsFiniteSet(1..Len(s)) /\ Cardinality(1..Len(s)) = IF 1 > Len(s) THEN 0 ELSE Len(s) - 1 + 1
    BY <2>1, FS_Interval
  <2> QED
    BY <1>1, <2>2
<1>3. N \in SUBSET Nat /\ IsFiniteSet(N) /\ Cardinality(N) <= Len(s)
  BY <1>1, <1>2, FS_Subset
<1>4. /\ Cardinality(N) \in Nat
      /\ \A k \in 1..Cardinality(N) : Nth(N, k) \in N
      /\ \A x \in N : \E k \in 1..Cardinality(N) : Nth(N, k) = x
  BY <1>3, NthFacts
<1> DEFINE a == At(s, N)
<1>5. a = [k \in 1..Cardinality(N) |-> s[Nth(N, k)]]
  BY DEF At
<1>6. \A k \in 1..Cardinality(N) : s[Nth(N, k)] \in T
  BY <1>1, <1>4
<1>7. a \in Seq(T) /\ Len(a) = Cardinality(N)
  <2>1. a \in [1..Cardinality(N) -> T]
    BY <1>5, <1>6
  <2> HIDE DEF a
  <2> QED
    BY <1>4, <2>1
<1>8. ToSet(a) = {s[n] : n \in N}
  <2>1. ToSet(a) = {a[k] : k \in 1..Cardinality(N)}
    BY <1>5 DEF ToSet
  <2>2. \A k \in 1..Cardinality(N) : a[k] = s[Nth(N, k)]
    BY <1>5
  <2> HIDE DEF a
  <2> QED
    BY <1>4, <2>1, <2>2
<1> QED
  BY <1>3, <1>7, <1>8

LEMMA SeqSubset ==
  ASSUME NEW T, NEW S, S \subseteq T, NEW s \in Seq(S)
  PROVE  s \in Seq(T)
<1>1. \A n \in 1..Len(s) : s[n] \in T
  OBVIOUS
<1>2. s = [n \in 1..Len(s) |-> s[n]] /\ Len(s) \in Nat
  OBVIOUS
<1>3. s \in [1..Len(s) -> T]
  BY <1>1, <1>2
<1> QED
  BY <1>2, <1>3

(* A sequence of anything is one of its elements.                          *)
LEMMA IsSeqOf ==
  ASSUME NEW T, NEW s \in Seq(T)
  PROVE  IsSeq(s) /\ ToSet(s) \subseteq T
<1>1. \A n \in 1..Len(s) : s[n] \in T
  OBVIOUS
<1>2. s = [n \in 1..Len(s) |-> s[n]] /\ Len(s) \in Nat
  OBVIOUS
<1>3. s \in [1..Len(s) -> ToSet(s)]
  BY <1>2 DEF ToSet
<1> QED
  BY <1>1, <1>2, <1>3 DEF IsSeq, ToSet

(* Two sequences, one after the other.                                     *)
LEMMA ConcatFacts ==
  ASSUME NEW T, NEW a \in Seq(T), NEW b \in Seq(T)
  PROVE  a \o b \in Seq(T) /\ ToSet(a \o b) = ToSet(a) \cup ToSet(b)
<1>1. /\ DOMAIN a = 1..Len(a) /\ DOMAIN b = 1..Len(b) /\ DOMAIN (a \o b) = 1..(Len(a) + Len(b))
      /\ Len(a) \in Nat /\ Len(b) \in Nat
      /\ \A m \in 1..(Len(a) + Len(b)) : (a \o b)[m] = IF m <= Len(a) THEN a[m] ELSE b[m - Len(a)]
  OBVIOUS
<1>2. ToSet(a) \subseteq ToSet(a \o b)
  <2> SUFFICES ASSUME NEW m \in 1..Len(a) PROVE a[m] \in ToSet(a \o b)
    BY <1>1 DEF ToSet
  <2>1. m \in 1..(Len(a) + Len(b)) /\ (a \o b)[m] = a[m]
    BY <1>1
  <2> QED
    BY <1>1, <2>1 DEF ToSet
<1>3. ToSet(b) \subseteq ToSet(a \o b)
  <2> SUFFICES ASSUME NEW m \in 1..Len(b) PROVE b[m] \in ToSet(a \o b)
    BY <1>1 DEF ToSet
  <2>1. m + Len(a) \in 1..(Len(a) + Len(b)) /\ (a \o b)[m + Len(a)] = b[m]
    BY <1>1
  <2> QED
    BY <1>1, <2>1 DEF ToSet
<1>4. ToSet(a \o b) \subseteq ToSet(a) \cup ToSet(b)
  <2> SUFFICES ASSUME NEW m \in 1..(Len(a) + Len(b)) PROVE (a \o b)[m] \in ToSet(a) \cup ToSet(b)
    BY <1>1 DEF ToSet
  <2>1. m <= Len(a) => m \in 1..Len(a)
    BY <1>1
  <2>2. ~(m <= Len(a)) => m - Len(a) \in 1..Len(b)
    BY <1>1
  <2> QED
    BY <1>1, <2>1, <2>2 DEF ToSet
<1>5. a \o b \in Seq(T)
  OBVIOUS
<1> QED
  BY <1>2, <1>3, <1>4, <1>5

(* f has the first n elements of ss one after the other, as FlattenSeq     *)
(* makes it.                                                               *)
Flattens(f, ss, n) == f = [i \in 1..n |-> IF i = 1 THEN ss[i] ELSE f[i - 1] \o ss[i]]
FirstOf(ss, n) == UNION {ToSet(ss[m]) : m \in 1..n}

HasFlattening(T, ss, n) ==
  \E f \in [1..n -> Seq(T)] : Flattens(f, ss, n) /\ \A i \in 1..n : ToSet(f[i]) = FirstOf(ss, i)

(* There is such a function, and it has the elements of the elements.      *)
LEMMA FlattensExists ==
  ASSUME NEW T, NEW ss \in Seq(Seq(T)), NEW k \in Nat, k <= Len(ss)
  PROVE  HasFlattening(T, ss, k)
<1> DEFINE G == {n \in Nat : n <= Len(ss) => HasFlattening(T, ss, n)}
<1>1. Len(ss) \in Nat /\ \A i \in 1..Len(ss) : ss[i] \in Seq(T)
  OBVIOUS
<1>2. 0 \in G
  <2> DEFINE e == [i \in 1..0 |-> <<>>]
  <2>1. e \in [1..0 -> Seq(T)] /\ \A i \in 1..0 : ToSet(e[i]) = FirstOf(ss, i)
    OBVIOUS
  <2>2. Flattens(e, ss, 0)
    BY DEF Flattens
  <2> HIDE DEF e
  <2>3. HasFlattening(T, ss, 0)
    BY <2>1, <2>2 DEF HasFlattening
  <2> QED
    BY <2>3
<1>3. ASSUME NEW n \in Nat, n \in G PROVE n + 1 \in G
  <2>0. SUFFICES ASSUME n + 1 <= Len(ss) PROVE HasFlattening(T, ss, n + 1)
    BY <2>0
  <2>1. PICK f \in [1..n -> Seq(T)] : Flattens(f, ss, n) /\ \A i \in 1..n : ToSet(f[i]) = FirstOf(ss, i)
    <3>1. HasFlattening(T, ss, n)
      BY <1>1, <1>3, <2>0
    <3> QED
      BY <3>1 DEF HasFlattening
  <2> DEFINE last == IF n = 0 THEN ss[1] ELSE f[n] \o ss[n + 1]
             g == [i \in 1..(n + 1) |-> IF i <= n THEN f[i] ELSE last]
  <2>2. last \in Seq(T) /\ ToSet(last) = FirstOf(ss, n + 1)
    <3>1. CASE n = 0
      <4>1. last = ss[1] /\ 1..(n + 1) = {1} /\ ss[1] \in Seq(T)
        BY <1>1, <2>0, <3>1
      <4> HIDE DEF last
      <4> QED
        BY <4>1 DEF FirstOf
    <3>2. CASE n # 0
      <4>1. n \in 1..n /\ n + 1 \in 1..Len(ss)
        BY <1>1, <2>0, <3>2
      <4>2. f[n] \in Seq(T) /\ ss[n + 1] \in Seq(T) /\ ToSet(f[n]) = FirstOf(ss, n)
        BY <1>1, <2>1, <4>1
      <4>3. f[n] \o ss[n + 1] \in Seq(T) /\ ToSet(f[n] \o ss[n + 1]) = FirstOf(ss, n) \cup ToSet(ss[n + 1])
        BY <4>2, ConcatFacts
      <4>4. 1..(n + 1) = 1..n \cup {n + 1}
        OBVIOUS
      <4>5. FirstOf(ss, n + 1) = FirstOf(ss, n) \cup ToSet(ss[n + 1])
        BY <4>4 DEF FirstOf
      <4>6. last = f[n] \o ss[n + 1]
        BY <3>2
      <4> HIDE DEF last
      <4> QED
        BY <4>3, <4>5, <4>6
    <3> QED
      BY <3>1, <3>2
  <2>3. \A i \in 1..n : f[i] = IF i = 1 THEN ss[i] ELSE f[i - 1] \o ss[i]
    BY <2>1 DEF Flattens
  <2>4. /\ \A i \in 1..n : i \in 1..(n + 1) /\ i <= n
        /\ \A i \in 1..(n + 1) : i \in 1..n \/ (i = n + 1 /\ ~(i <= n))
        /\ n # 0 => n \in 1..n
    OBVIOUS
  <2>5. /\ \A i \in 1..n : g[i] = f[i]
        /\ g[n + 1] = last
        /\ g = [i \in 1..(n + 1) |-> g[i]]
    <3> HIDE DEF last
    <3>1. \A i \in 1..n : g[i] = f[i]
      BY <2>4
    <3>2. n + 1 \in 1..(n + 1) /\ ~(n + 1 <= n)
      OBVIOUS
    <3> QED
      BY <3>1, <3>2
  <2>6. last = IF n + 1 = 1 THEN ss[n + 1] ELSE f[n] \o ss[n + 1]
    OBVIOUS
  <2> HIDE DEF g, last
  <2>7. g \in [1..(n + 1) -> Seq(T)]
    BY <2>2, <2>4, <2>5
  <2>8. \A i \in 1..(n + 1) : ToSet(g[i]) = FirstOf(ss, i)
    BY <2>1, <2>2, <2>4, <2>5
  <2>9. ASSUME NEW i \in 1..(n + 1) PROVE g[i] = IF i = 1 THEN ss[i] ELSE g[i - 1] \o ss[i]
    <3>1. CASE i \in 1..n
      <4>1. i # 1 => i - 1 \in 1..n
        BY <3>1
      <4> QED
        BY <2>3, <2>5, <3>1, <4>1
    <3>2. CASE i = n + 1
      <4>1. i # 1 => i - 1 = n /\ n \in 1..n
        BY <3>2
      <4> QED
        BY <2>5, <2>6, <3>2, <4>1
    <3> QED
      BY <2>4, <3>1, <3>2
  <2>10. Flattens(g, ss, n + 1)
    BY <2>5, <2>9 DEF Flattens
  <2> QED
    BY <2>7, <2>8, <2>10 DEF HasFlattening
<1>4. \A n \in Nat : n \in G
  <2> HIDE DEF G
  <2> QED
    BY <1>2, <1>3, Induction
<1> QED
  BY <1>4

(* What FlattenSeq takes for such a function is any other.                 *)
LEMMA FlattenIs ==
  ASSUME NEW T, NEW ss \in Seq(Seq(T)), Len(ss) # 0, NEW f, Flattens(f, ss, Len(ss))
  PROVE  FlattenSeq(ss) = f[Len(ss)]
<1> DEFINE L == Len(ss)
           flatten == CHOOSE g : Flattens(g, ss, L)
<1>1. L \in Nat /\ L # 0
  OBVIOUS
<1>2. FlattenSeq(ss) = IF L = 0 THEN ss ELSE flatten[L]
  BY Zenon DEF FlattenSeq, Flattens
<1>3. Flattens(flatten, ss, L) /\ Flattens(f, ss, L)
  OBVIOUS
<1> HIDE DEF L, flatten
<1>4. \A i \in 1..L : flatten[i] = IF i = 1 THEN ss[i] ELSE flatten[i - 1] \o ss[i]
  BY <1>3 DEF Flattens
<1>5. \A i \in 1..L : f[i] = IF i = 1 THEN ss[i] ELSE f[i - 1] \o ss[i]
  BY <1>3 DEF Flattens
<1> DEFINE H == {n \in Nat : n \in 1..L => flatten[n] = f[n]}
<1>6. 0 \in H
  OBVIOUS
<1>7. ASSUME NEW n \in Nat, n \in H PROVE n + 1 \in H
  <2>1. SUFFICES ASSUME n + 1 \in 1..L PROVE flatten[n + 1] = f[n + 1]
    OBVIOUS
  <2>2. CASE n = 0
    <3>1. 1 \in 1..L /\ n + 1 = 1
      BY <2>1, <2>2
    <3> HIDE DEF H
    <3>2. flatten[1] = ss[1] /\ f[1] = ss[1]
      BY <1>4, <1>5, <3>1
    <3> QED
      BY <3>1, <3>2
  <2>3. CASE n # 0
    <3>1. n \in 1..L /\ (n + 1) - 1 = n /\ n + 1 # 1
      BY <1>1, <2>1, <2>3
    <3>2. flatten[n] = f[n]
      BY <1>7, <3>1
    <3> HIDE DEF H
    <3>3. flatten[n + 1] = flatten[n] \o ss[n + 1]
      BY <1>4, <2>1, <3>1
    <3>4. f[n + 1] = f[n] \o ss[n + 1]
      BY <1>5, <2>1, <3>1
    <3> QED
      BY <3>2, <3>3, <3>4
  <2> QED
    BY <2>2, <2>3
<1>8. \A n \in Nat : n \in H
  <2> HIDE DEF H
  <2> QED
    BY <1>6, <1>7, Induction
<1>9. L \in 1..L /\ flatten[L] = f[L]
  BY <1>1, <1>8
<1> QED
  BY <1>1, <1>2, <1>9 DEF L

(* A sequence of sequences, one after the other.                           *)
LEMMA FlattenFacts ==
  ASSUME NEW T, NEW ss \in Seq(Seq(T))
  PROVE  FlattenSeq(ss) \in Seq(T) /\ ToSet(FlattenSeq(ss)) = UNION {ToSet(ss[n]) : n \in DOMAIN ss}
<1> DEFINE L == Len(ss)
<1>1. L \in Nat /\ DOMAIN ss = 1..L
  OBVIOUS
<1>2. PICK f \in [1..L -> Seq(T)] : Flattens(f, ss, L) /\ \A i \in 1..L : ToSet(f[i]) = FirstOf(ss, i)
  <2>1. L <= Len(ss)
    BY <1>1
  <2>2. HasFlattening(T, ss, L)
    BY <1>1, <2>1, FlattensExists
  <2> QED
    BY <2>2 DEF HasFlattening
<1>3. CASE L = 0
  <2>1. ss = <<>>
    BY <1>3
  <2>2. FlattenSeq(ss) = <<>>
    BY <2>1, Zenon DEF FlattenSeq
  <2>3. ToSet(<<>>) = {} /\ <<>> \in Seq(T) /\ DOMAIN ss = {}
    BY <2>1 DEF ToSet
  <2> QED
    BY <2>2, <2>3
<1>4. CASE L # 0
  <2>1. FlattenSeq(ss) = f[L]
    BY <1>2, <1>4, FlattenIs
  <2>2. L \in 1..L
    BY <1>1, <1>4
  <2>3. f[L] \in Seq(T) /\ ToSet(f[L]) = FirstOf(ss, L)
    BY <1>2, <2>2
  <2> QED
    BY <1>1, <2>1, <2>3 DEF FirstOf
<1> QED
  BY <1>3, <1>4

-----------------------------------------------------------------------------
(* A function of the positions of a sequence is a sequence, as long.       *)
LEMMA EachIsSeq ==
  ASSUME NEW T, NEW s \in Seq(T), NEW V, NEW e \in [DOMAIN s -> V]
  PROVE  e \in Seq(V) /\ Len(e) = Len(s) /\ IsSeq(e) /\ ToSet(e) = {e[n] : n \in DOMAIN s}
<1>1. DOMAIN s = 1..Len(s) /\ Len(s) \in Nat
  OBVIOUS
<1>2. e \in Seq(V) /\ Len(e) = Len(s)
  BY <1>1
<1> QED
  BY <1>2, IsSeqOf DEF ToSet

(* The first n elements.                                                   *)
LEMMA UpToFacts ==
  ASSUME NEW T, NEW s \in Seq(T), NEW n \in Nat
  PROVE  /\ UpTo(n, s) \in Seq(T) /\ Len(UpTo(n, s)) = IF n < Len(s) THEN n ELSE Len(s)
         /\ \A m \in 1..Len(UpTo(n, s)) : m \in DOMAIN s /\ UpTo(n, s)[m] = s[m]
         /\ Len(s) <= n => UpTo(n, s) = s
         /\ n > 0 => (UpTo(n, s) = <<>> <=> s = <<>>)
<1> DEFINE k == IF n < Len(s) THEN n ELSE Len(s)
           u == UpTo(n, s)
<1>1. k \in 0..Len(s) /\ Len(s) \in Nat
  OBVIOUS
<1>2. u = [m \in 1..k |-> s[m]]
  BY <1>1 DEF UpTo
<1>3. \A m \in 1..k : m \in DOMAIN s /\ s[m] \in T
  BY <1>1
<1>4. u \in [1..k -> T]
  BY <1>2, <1>3
<1>5. u \in Seq(T) /\ Len(u) = k /\ k \in Nat
  <2> HIDE DEF u, k
  <2>1. k \in Nat
    BY <1>1
  <2> QED
    BY <1>4, <2>1
<1>6. Len(s) <= n => u = s
  <2> SUFFICES ASSUME Len(s) <= n PROVE u = s
    OBVIOUS
  <2>1. k = Len(s)
    BY <1>1
  <2>2. s = [m \in 1..Len(s) |-> s[m]]
    OBVIOUS
  <2> HIDE DEF u, k
  <2> QED
    BY <1>2, <2>1, <2>2
<1>7. n > 0 => (u = <<>> <=> s = <<>>)
  <2>1. n > 0 => (k = 0 <=> Len(s) = 0)
    BY <1>1
  <2>2. (s = <<>> <=> Len(s) = 0) /\ (u = <<>> <=> Len(u) = 0)
    <3> HIDE DEF u, k
    <3> QED
      BY <1>5
  <2> HIDE DEF u, k
  <2> QED
    BY <1>5, <2>1, <2>2
<1>8. \A m \in 1..Len(u) : m \in DOMAIN s /\ u[m] = s[m]
  <2> HIDE DEF u, k
  <2> QED
    BY <1>2, <1>3, <1>5
<1> QED
  BY <1>5, <1>6, <1>7, <1>8

(* Cutting short twice.                                                    *)
LEMMA UpToTwice ==
  ASSUME NEW T, NEW s \in Seq(T), NEW j \in Nat, NEW n \in Nat, j <= n
  PROVE  UpTo(j, UpTo(n, s)) = UpTo(j, s)
<1> DEFINE u == UpTo(n, s)
           v == UpTo(j, u)
           w == UpTo(j, s)
<1>1. u \in Seq(T)
  BY UpToFacts
<1>2. v \in Seq(T) /\ w \in Seq(T) /\ Len(s) \in Nat
  <2> HIDE DEF u
  <2> QED
    BY <1>1, UpToFacts
<1>3. Len(u) = IF n < Len(s) THEN n ELSE Len(s)
  BY UpToFacts
<1>4. Len(v) = IF j < Len(u) THEN j ELSE Len(u)
  <2> HIDE DEF u
  <2> QED
    BY <1>1, UpToFacts
<1>5. Len(w) = IF j < Len(s) THEN j ELSE Len(s)
  BY UpToFacts
<1>6. Len(v) = Len(w)
  <2> HIDE DEF u, v, w
  <2> QED
    BY <1>2, <1>3, <1>4, <1>5
<1>7. \A m \in 1..Len(v) : m \in DOMAIN u /\ v[m] = u[m]
  <2> HIDE DEF u
  <2> QED
    BY <1>1, UpToFacts
<1>8. \A m \in DOMAIN u : u[m] = s[m]
  <2>1. DOMAIN u = 1..Len(u)
    <3> HIDE DEF u
    <3> QED
      BY <1>1
  <2> QED
    BY <2>1, UpToFacts
<1>9. \A m \in 1..Len(w) : w[m] = s[m]
  BY UpToFacts
<1>10. v = w
  <2> HIDE DEF u, v, w
  <2> QED
    BY <1>2, <1>6, <1>7, <1>8, <1>9
<1> QED
  BY <1>10

-----------------------------------------------------------------------------
(* What the lookups give are declarations.                                 *)
LEMMA RepoTypes ==
  ASSUME NEW R, IsRepo(R)
  PROVE  /\ R.loaded \in Seq(Decls(R)) /\ R.now \in Seq(Decls(R)) /\ IsSeq(R.order)
         /\ \A n \in DOMAIN R.loaded : R.loaded[n] \in Decls(R)
         /\ \A n \in DOMAIN R.now : R.now[n] \in Decls(R)
<1>1. R.loaded \in Seq(ToSet(R.loaded)) /\ R.now \in Seq(ToSet(R.now)) /\ IsSeq(R.order)
  BY DEF IsRepo, IsSeq
<1>2. ToSet(R.loaded) \subseteq Decls(R) /\ ToSet(R.now) \subseteq Decls(R)
  BY DEF Decls
<1>3. R.loaded \in Seq(Decls(R)) /\ R.now \in Seq(Decls(R))
  BY <1>1, <1>2
<1> QED
  BY <1>1, <1>3

LEMMA LookupSeq ==
  ASSUME NEW R, IsRepo(R), NEW pkg, NEW name
  PROVE  Lookup(R, pkg, name) \in Seq(Decls(R))
<1> DEFINE Of(d) == IF name # <<>> THEN Entry(d, pkg, name)
                    ELSE IF pkg # <<>> THEN AnyName(d, pkg) ELSE <<d, d>>
           ss == [n \in DOMAIN R.loaded |-> Of(R.loaded[n])]
<1>1. ASSUME NEW d \in Decls(R) PROVE Of(d) \in Seq(Decls(R))
  <2>1. <<>> \in Seq(Decls(R)) /\ <<d>> \in Seq(Decls(R)) /\ <<d, d>> \in Seq(Decls(R))
    OBVIOUS
  <2>2. \A a, b \in Seq(Decls(R)) : a \o b \in Seq(Decls(R))
    OBVIOUS
  <2>3. Entry(d, pkg, name) \in Seq(Decls(R))
    BY <2>1, <2>2 DEF Entry
  <2>4. AnyName(d, pkg) \in Seq(Decls(R))
    BY <2>1, <2>2 DEF AnyName
  <2> QED
    BY <2>1, <2>3, <2>4
<1>2. \A n \in DOMAIN R.loaded : Of(R.loaded[n]) \in Seq(Decls(R))
  <2> HIDE DEF Of
  <2> QED
    BY <1>1, RepoTypes
<1>3. ss \in [DOMAIN R.loaded -> Seq(Decls(R))]
  <2> HIDE DEF Of
  <2> QED
    BY <1>2
<1>4. ss \in Seq(Seq(Decls(R)))
  <2> HIDE DEF ss
  <2> QED
    BY <1>3, RepoTypes, EachIsSeq
<1>5. FlattenSeq(ss) \in Seq(Decls(R))
  <2> HIDE DEF ss
  <2> QED
    BY <1>4, FlattenFacts
<1> QED
  BY <1>5 DEF Lookup

LEMMA SymbolsSeq ==
  ASSUME NEW R, IsRepo(R), NEW f
  PROVE  Symbols(R, f) \in Seq(Decls(R))
<1> DEFINE N == {n \in DOMAIN R.now : R.now[n].file = f}
<1>1. Symbols(R, f) = At(R.now, N)
  BY DEF Symbols, Where
<1>2. N \in SUBSET DOMAIN R.now
  OBVIOUS
<1> HIDE DEF N
<1> QED
  BY <1>1, <1>2, RepoTypes, AtFacts

(* The elements of a finite set of numbers, in their order.                *)
LEMMA SortedSeq ==
  ASSUME NEW S \in SUBSET Nat, IsFiniteSet(S)
  PROVE  Sorted(S) \in Seq(S) /\ ToSet(Sorted(S)) = S
<1> DEFINE a == Sorted(S)
<1>1. /\ Cardinality(S) \in Nat /\ \A k \in 1..Cardinality(S) : Nth(S, k) \in S
      /\ \A x \in S : \E k \in 1..Cardinality(S) : Nth(S, k) = x
  BY NthFacts
<1>2. a = [k \in 1..Cardinality(S) |-> Nth(S, k)]
  BY DEF Sorted
<1> HIDE DEF a
<1>3. a \in [1..Cardinality(S) -> S] /\ \A k \in 1..Cardinality(S) : a[k] = Nth(S, k)
  BY <1>1, <1>2
<1>4. a \in Seq(S)
  BY <1>1, <1>3
<1>5. ToSet(a) = S
  BY <1>1, <1>2, <1>3 DEF ToSet
<1> QED
  BY <1>4, <1>5 DEF a

(* A sequence has finitely many elements.                                  *)
LEMMA ElementsFinite ==
  ASSUME NEW T, NEW s \in Seq(T)
  PROVE  IsFiniteSet(ToSet(s))
<1>1. DOMAIN s = 1..Len(s) /\ Len(s) \in Nat
  OBVIOUS
<1>2. s \in Surjection(1..Len(s), ToSet(s))
  <2>1. s = [n \in 1..Len(s) |-> s[n]]
    OBVIOUS
  <2> QED
    BY <1>1, <2>1 DEF ToSet, Surjection
<1>3. IsFiniteSet(1..Len(s))
  <2>1. 1 \in Int /\ Len(s) \in Int
    BY <1>1
  <2> QED
    BY <2>1, FS_Interval
<1> QED
  BY <1>2, <1>3, FS_Surjection

(* The names that a declaration is on record for calling: those that        *)
(* callers of its key call.                                                *)
LEMMA CallerSeq ==
  ASSUME NEW R, IsRepo(R), NEW d
  PROVE  /\ EdgesByCaller(R, d) \in Seq(Nat)
         /\ d.name # 0 => ToSet(EdgesByCaller(R, d)) =
              UNION {ToSet(c.calls) : c \in {c \in ToSet(R.loaded) : Callable(c) /\ CallerKey(c) = CallerKey(d)}}
<1> DEFINE Same(c) == Callable(c) /\ CallerKey(c) = CallerKey(d)
           names == UNION {ToSet(c.calls) : c \in {c \in ToSet(R.loaded) : Same(c)}}
           ss == [n \in DOMAIN R.loaded |-> R.loaded[n].calls]
<1>1. \A c \in Decls(R) : c.calls \in Seq(Nat)
  BY DEF IsRepo
<1>2. ss \in [DOMAIN R.loaded -> Seq(Nat)]
  BY <1>1, RepoTypes
<1>3. ss \in Seq(Seq(Nat)) /\ DOMAIN ss = DOMAIN R.loaded
  <2> HIDE DEF ss
  <2> QED
    BY <1>2, RepoTypes, EachIsSeq
<1>4. FlattenSeq(ss) \in Seq(Nat) /\ ToSet(FlattenSeq(ss)) = UNION {ToSet(ss[n]) : n \in DOMAIN ss}
  <2> HIDE DEF ss
  <2> QED
    BY <1>3, FlattenFacts
<1>5. IsFiniteSet(ToSet(FlattenSeq(ss))) /\ ToSet(FlattenSeq(ss)) \subseteq Nat
  <2> HIDE DEF ss
  <2> QED
    BY <1>4, ElementsFinite, IsSeqOf
<1>6. names \subseteq ToSet(FlattenSeq(ss))
  <2> SUFFICES ASSUME NEW c \in ToSet(R.loaded) PROVE ToSet(c.calls) \subseteq ToSet(FlattenSeq(ss))
    <3> HIDE DEF ss
    <3> QED
      OBVIOUS
  <2>1. PICK n \in DOMAIN R.loaded : c = R.loaded[n]
    BY DEF ToSet
  <2>2. ss[n] = c.calls /\ n \in DOMAIN ss
    BY <2>1
  <2> HIDE DEF ss
  <2> QED
    BY <1>4, <2>2
<1>7. IsFiniteSet(names) /\ names \in SUBSET Nat
  <2> HIDE DEF names, ss
  <2> QED
    BY <1>5, <1>6, FS_Subset
<1>8. Sorted(names) \in Seq(Nat) /\ ToSet(Sorted(names)) = names
  <2> HIDE DEF names
  <2>1. Sorted(names) \in Seq(names) /\ ToSet(Sorted(names)) = names
    BY <1>7, SortedSeq
  <2> QED
    BY <1>7, <2>1, SeqSubset
<1>9. EdgesByCaller(R, d) = IF d.name = 0 THEN <<>> ELSE Sorted(names)
  BY Zenon DEF EdgesByCaller
<1> HIDE DEF names
<1> QED
  BY <1>8, <1>9 DEF names

(* What names stand for are declarations.                                  *)
LEMMA ResolveSeq ==
  ASSUME NEW R, IsRepo(R), NEW names, IsSeq(names)
  PROVE  Resolve(R, names) \in Seq(Decls(R))
<1> DEFINE ss == [n \in DOMAIN names |-> ByName(R, names[n])]
           all == FlattenSeq(ss)
           N == {n \in DOMAIN all : \A m \in 1..(n - 1) : <<all[m].pkg, all[m].name>> # <<all[n].pkg, all[n].name>>}
<1>1. ss \in [DOMAIN names -> Seq(Decls(R))]
  BY LookupSeq DEF ByName
<1>2. ss \in Seq(Seq(Decls(R)))
  <2> HIDE DEF ss
  <2> QED
    BY <1>1, EachIsSeq DEF IsSeq
<1>3. all \in Seq(Decls(R))
  <2> HIDE DEF ss
  <2> QED
    BY <1>2, FlattenFacts
<1>4. Resolve(R, names) = At(all, N)
  BY Zenon DEF Resolve, Each, OnceBy
<1>5. N \in SUBSET DOMAIN all
  OBVIOUS
<1> HIDE DEF all, N
<1> QED
  BY <1>3, <1>4, <1>5, AtFacts

-----------------------------------------------------------------------------
(* A scan has a list of edges, and gives all of it or as many as asked for. *)
Limits == Nat \ {0}
IsScanOf(kind, R, d, X) ==
  /\ IsSeq(X)
  /\ \/ \A n \in Limits : ScanFor(kind, R, d, n) = X
     \/ \A n \in Limits : ScanFor(kind, R, d, n) = UpTo(n, X)

(* The edges made of a list, one of each.                                  *)
LEMMA EachSeq ==
  ASSUME NEW s, IsSeq(s), NEW e, e = [n \in DOMAIN s |-> e[n]]
  PROVE  IsSeq(e) /\ Len(e) = Len(s) /\ DOMAIN e = DOMAIN s
<1> DEFINE V == {e[n] : n \in DOMAIN s}
<1>1. e \in [DOMAIN s -> V]
  <2>1. \A n \in DOMAIN s : e[n] \in V
    OBVIOUS
  <2> HIDE DEF V
  <2> QED
    BY <2>1
<1>2. s \in Seq(ToSet(s))
  BY DEF IsSeq
<1> HIDE DEF V
<1> QED
  BY <1>1, <1>2, EachIsSeq

LEMMA NothingSeq == IsSeq(<<>>) /\ \A n \in Nat : UpTo(n, <<>>) = <<>>
<1>1. <<>> \in Seq({}) /\ Len(<<>>) = 0
  OBVIOUS
<1>2. ASSUME NEW n \in Nat PROVE UpTo(n, <<>>) = <<>>
  <2>1. Len(<<>>) <= n
    BY <1>1
  <2> QED
    BY <1>1, <2>1, UpToFacts
<1> QED
  BY <1>1, <1>2, IsSeqOf

LEMMA WholeCallees ==
  ASSUME NEW R, IsRepo(R), NEW d \in Decls(R)
  PROVE  \E X : IsScanOf("callees", R, d, X)
<1> DEFINE indexed == EdgesByCaller(R, d)
           known == CalleeEdges(d, Resolve(R, indexed))
           N == {n \in DOMAIN Body(R, d) : Body(R, d)[n] # 0}
           names == At(Body(R, d), N)
           live == CalleeEdges(d, Resolve(R, names))
<1>1. ASSUME NEW s, IsSeq(s) PROVE IsSeq(CalleeEdges(d, Resolve(R, s)))
  <2>1. Resolve(R, s) \in Seq(Decls(R))
    BY <1>1, ResolveSeq
  <2>2. IsSeq(Resolve(R, s))
    BY <2>1, IsSeqOf
  <2> DEFINE t == Resolve(R, s)
             e == CalleeEdges(d, t)
  <2>3. e = [n \in DOMAIN t |-> Edge("callees", ID(t[n]), DomainKind(t[n]), d.file)]
    BY DEF CalleeEdges, Each
  <2> HIDE DEF t
  <2>4. e = [n \in DOMAIN t |-> e[n]]
    BY <2>3
  <2> HIDE DEF e
  <2>5. IsSeq(e)
    BY <2>2, <2>4, EachSeq DEF t
  <2> QED
    BY <2>5 DEF e, t
<1>2. IsSeq(known)
  <2>1. IsSeq(indexed)
    BY CallerSeq, IsSeqOf
  <2> HIDE DEF indexed
  <2> QED
    BY <1>1, <2>1
<1>3. Body(R, d) \in Seq(Nat)
  <2> DEFINE M == {n \in DOMAIN Symbols(R, d.file) : CallerKey(Symbols(R, d.file)[n]) = CallerKey(d)}
             same == At(Symbols(R, d.file), M)
  <2>1. same \in Seq(Decls(R))
    <3>1. M \in SUBSET DOMAIN Symbols(R, d.file)
      OBVIOUS
    <3> HIDE DEF M
    <3> QED
      BY <3>1, SymbolsSeq, AtFacts
  <2>2. Body(R, d) = IF same = <<>> THEN <<>> ELSE same[1].calls
    BY Zenon DEF Body, Where
  <2> HIDE DEF same
  <2>3. same # <<>> => same[1] \in Decls(R)
    BY <2>1
  <2>4. \A c \in Decls(R) : c.calls \in Seq(Nat)
    BY DEF IsRepo
  <2> QED
    BY <2>2, <2>3, <2>4
<1>4. IsSeq(live)
  <2>1. names \in Seq(Nat)
    <3>1. N \in SUBSET DOMAIN Body(R, d)
      OBVIOUS
    <3> HIDE DEF N
    <3> QED
      BY <1>3, <3>1, AtFacts
  <2>2. IsSeq(names)
    BY <2>1, IsSeqOf
  <2> HIDE DEF names
  <2> QED
    BY <1>1, <2>2
<1>5. \A n \in Limits : ScanFor("callees", R, d, n) =
        CASE d.name = 0 -> <<>> [] d.name # 0 /\ indexed # <<>> -> UpTo(n, known) [] OTHER -> live
  BY Zenon DEF ScanFor, ScanCallees, Where
<1> HIDE DEF indexed, known, live
<1>6. CASE d.name = 0
  <2>1. \A n \in Limits : ScanFor("callees", R, d, n) = <<>>
    BY <1>5, <1>6
  <2> QED
    BY <2>1, NothingSeq DEF IsScanOf
<1>7. CASE d.name # 0 /\ indexed # <<>>
  <2>1. \A n \in Limits : ScanFor("callees", R, d, n) = UpTo(n, known)
    BY <1>5, <1>7
  <2> QED
    BY <1>2, <2>1 DEF IsScanOf
<1>8. CASE d.name # 0 /\ indexed = <<>>
  <2>1. \A n \in Limits : ScanFor("callees", R, d, n) = live
    BY <1>5, <1>8
  <2> QED
    BY <1>4, <2>1 DEF IsScanOf
<1> QED
  BY <1>6, <1>7, <1>8

LEMMA WholeCallers ==
  ASSUME NEW R, IsRepo(R), NEW d \in Decls(R)
  PROVE  \E X : IsScanOf("callers", R, d, X)
<1> DEFINE N == {n \in DOMAIN R.refs[d] : Found(R.refs[d][n]) /\ R.refs[d][n].kind \in {"function", "method"}}
           users == At(R.refs[d], N)
           U == [n \in DOMAIN users |-> Edge("callers", For(users[n]), "FUNCTION", users[n].file)]
           M == {n \in DOMAIN R.order : R.order[n] # d.file}
           files == At(R.order, M)
           In(f) == {n \in DOMAIN Symbols(R, f) : CallsIt(R, d, Symbols(R, f)[n])}
           ss == [n \in DOMAIN files |-> At(Symbols(R, files[n]), In(files[n]))]
           all == FlattenSeq(ss)
           O == [n \in DOMAIN all |-> Edge("callers", ID(all[n]), DomainKind(all[n]), all[n].file)]
<1>1. IsSeq(U)
  <2>1. IsSeq(users)
    <3>1. R.refs[d] \in Seq(ToSet(R.refs[d])) /\ N \in SUBSET DOMAIN R.refs[d]
      BY DEF IsRepo, IsSeq
    <3> HIDE DEF N
    <3>2. users \in Seq(ToSet(R.refs[d]))
      BY <3>1, AtFacts
    <3> HIDE DEF users
    <3> QED
      BY <3>2, IsSeqOf
  <2> HIDE DEF users
  <2>2. U = [n \in DOMAIN users |-> U[n]]
    OBVIOUS
  <2> HIDE DEF U
  <2> QED
    BY <2>1, <2>2, EachSeq
<1>2. IsSeq(O)
  <2>1. \A f : At(Symbols(R, f), In(f)) \in Seq(Decls(R))
    <3>1. \A f : In(f) \in SUBSET DOMAIN Symbols(R, f)
      OBVIOUS
    <3> HIDE DEF In
    <3> QED
      BY <3>1, SymbolsSeq, AtFacts
  <2>2. files \in Seq(ToSet(R.order))
    <3>1. R.order \in Seq(ToSet(R.order)) /\ M \in SUBSET DOMAIN R.order
      BY DEF IsRepo, IsSeq
    <3> HIDE DEF M
    <3> QED
      BY <3>1, AtFacts
  <2>3. ss \in [DOMAIN files -> Seq(Decls(R))]
    <3> HIDE DEF In, files
    <3> QED
      BY <2>1
  <2>4. ss \in Seq(Seq(Decls(R)))
    <3> HIDE DEF ss, files
    <3> QED
      BY <2>2, <2>3, EachIsSeq
  <2>5. all \in Seq(Decls(R))
    <3> HIDE DEF ss
    <3> QED
      BY <2>4, FlattenFacts
  <2>6. IsSeq(all)
    <3> HIDE DEF all
    <3> QED
      BY <2>5, IsSeqOf
  <2> HIDE DEF all
  <2>7. O = [n \in DOMAIN all |-> O[n]]
    OBVIOUS
  <2> HIDE DEF O
  <2> QED
    BY <2>6, <2>7, EachSeq
<1>3. \A n : FromServer(R, d, n) = UpTo(n, U)
  BY Zenon DEF FromServer, Where, Each
<1>4. \A n : FromOtherFiles(R, d, n) = UpTo(n, O)
  BY Zenon DEF FromOtherFiles, Where, Each
<1>5. \A n \in Limits : ScanFor("callers", R, d, n) =
        IF d.name = 0 THEN <<>> ELSE IF UpTo(n, U) # <<>> THEN UpTo(n, U) ELSE UpTo(n, O)
  <2> HIDE DEF U, O
  <2> QED
    BY <1>3, <1>4, Zenon DEF ScanFor, ScanCallers
<1> HIDE DEF U, O
<1>6. ASSUME NEW n \in Limits PROVE UpTo(n, U) = <<>> <=> U = <<>>
  <2>1. U \in Seq(ToSet(U)) /\ n \in Nat /\ n > 0
    BY <1>1 DEF IsSeq, Limits
  <2> QED
    BY <2>1, UpToFacts
<1>7. CASE d.name = 0
  <2>1. \A n \in Limits : ScanFor("callers", R, d, n) = <<>>
    BY <1>5, <1>7
  <2> QED
    BY <2>1, NothingSeq DEF IsScanOf
<1>8. CASE d.name # 0 /\ U # <<>>
  <2>1. \A n \in Limits : ScanFor("callers", R, d, n) = UpTo(n, U)
    BY <1>5, <1>6, <1>8
  <2> QED
    BY <1>1, <2>1 DEF IsScanOf
<1>9. CASE d.name # 0 /\ U = <<>>
  <2>1. \A n \in Limits : ScanFor("callers", R, d, n) = UpTo(n, O)
    BY <1>5, <1>6, <1>9
  <2> QED
    BY <1>2, <2>1 DEF IsScanOf
<1> QED
  BY <1>7, <1>8, <1>9

LEMMA WholeTests ==
  ASSUME NEW R, IsRepo(R), NEW d \in Decls(R)
  PROVE  \E X : IsScanOf("tests", R, d, X)
<1> DEFINE M == {n \in DOMAIN R.order : R.order[n] \in R.tests}
           files == At(R.order, M)
           ss == [n \in DOMAIN files |-> Symbols(R, files[n])]
           all == FlattenSeq(ss)
           X == [n \in DOMAIN all |-> Edge("tests", ID(all[n]), DomainKind(all[n]), all[n].file)]
<1>1. files \in Seq(ToSet(R.order))
  <2>1. R.order \in Seq(ToSet(R.order)) /\ M \in SUBSET DOMAIN R.order
    BY DEF IsRepo, IsSeq
  <2> HIDE DEF M
  <2> QED
    BY <2>1, AtFacts
<1>2. all \in Seq(Decls(R))
  <2>1. ss \in [DOMAIN files -> Seq(Decls(R))]
    <3> HIDE DEF files
    <3> QED
      BY SymbolsSeq
  <2>2. ss \in Seq(Seq(Decls(R)))
    <3> HIDE DEF ss, files
    <3> QED
      BY <1>1, <2>1, EachIsSeq
  <2> HIDE DEF ss
  <2> QED
    BY <2>2, FlattenFacts
<1>3. IsSeq(X)
  <2>1. IsSeq(all)
    <3> HIDE DEF all
    <3> QED
      BY <1>2, IsSeqOf
  <2> HIDE DEF all
  <2>2. X = [n \in DOMAIN all |-> X[n]]
    OBVIOUS
  <2> HIDE DEF X
  <2> QED
    BY <2>1, <2>2, EachSeq
<1>4. \A n \in Limits : ScanFor("tests", R, d, n) = IF d.name = 0 THEN <<>> ELSE UpTo(n, X)
  BY Zenon DEF ScanFor, ScanTests, Where, Each
<1> HIDE DEF X
<1>5. CASE d.name = 0
  <2>1. \A n \in Limits : ScanFor("tests", R, d, n) = <<>>
    BY <1>4, <1>5
  <2> QED
    BY <2>1, NothingSeq DEF IsScanOf
<1>6. CASE d.name # 0
  <2>1. \A n \in Limits : ScanFor("tests", R, d, n) = UpTo(n, X)
    BY <1>4, <1>6
  <2> QED
    BY <1>3, <2>1 DEF IsScanOf
<1> QED
  BY <1>5, <1>6

(* One of each, of a selection.                                            *)
LEMMA PathsSeq ==
  ASSUME NEW s, IsSeq(s)
  PROVE  IsSeq(Once(Where(s, LAMBDA p : p # 0)))
<1> DEFINE N == {n \in DOMAIN s : s[n] # 0}
           u == At(s, N)
           M == {n \in DOMAIN u : \A m \in 1..(n - 1) : u[m] # u[n]}
<1>1. Once(Where(s, LAMBDA p : p # 0)) = At(u, M)
  BY Zenon DEF Once, OnceBy, Where
<1>2. s \in Seq(ToSet(s)) /\ N \in SUBSET DOMAIN s
  BY DEF IsSeq
<1>3. u \in Seq(ToSet(s))
  <2> HIDE DEF N
  <2> QED
    BY <1>2, AtFacts
<1>4. M \in SUBSET DOMAIN u
  OBVIOUS
<1>5. At(u, M) \in Seq(ToSet(s))
  <2> HIDE DEF u, M
  <2> QED
    BY <1>3, <1>4, AtFacts
<1>6. IsSeq(At(u, M))
  <2> HIDE DEF u, M
  <2> QED
    BY <1>5, IsSeqOf
<1> QED
  BY <1>1, <1>6

LEMMA WholeImports ==
  ASSUME NEW R, IsRepo(R), NEW d \in Decls(R)
  PROVE  \E X : IsScanOf("imports", R, d, X)
<1> DEFINE indexed == ImportsIn(R, d.file)
           live == Once(Where(R.importsNow[d.file], LAMBDA p : p # 0))
           s == IF indexed # <<>> THEN indexed ELSE live
           X == [n \in DOMAIN s |-> Edge("imports", [kind |-> "pkg", body |-> <<s[n]>>], "PACKAGE", d.file)]
<1>1. IsSeq(R.imports[d.file]) /\ IsSeq(R.importsNow[d.file])
  BY DEF IsRepo
<1>2. IsSeq(indexed)
  BY <1>1, PathsSeq, Zenon DEF ImportsIn
<1>3. IsSeq(live)
  BY <1>1, PathsSeq, Zenon
<1>4. IsSeq(s)
  <2> HIDE DEF indexed, live
  <2> QED
    BY <1>2, <1>3
<1>5. \A n \in Limits : ScanFor("imports", R, d, n) = UpTo(n, X)
  BY Zenon DEF ScanFor, ScanImports, Each
<1>6. IsSeq(X)
  <2> HIDE DEF s
  <2>1. X = [n \in DOMAIN s |-> X[n]]
    OBVIOUS
  <2> HIDE DEF X
  <2> QED
    BY <1>4, <2>1, EachSeq
<1> HIDE DEF X
<1> QED
  BY <1>5, <1>6 DEF IsScanOf

LEMMA WholeOverrides ==
  ASSUME NEW R, IsRepo(R), NEW d \in Decls(R)
  PROVE  \E X : IsScanOf("overrides", R, d, X)
<1> DEFINE all == Symbols(R, d.file)
           A == {n \in DOMAIN all : all[n].kind = "class"}
           classes == At(all, A)
           B == {n \in DOMAIN classes : classes[n].name = d.recv}
           own == At(classes, B)
           C == {n \in DOMAIN classes : classes[n].name \in ToSet(own[1].extends)}
           parents == At(classes, C)
           Has(c) == \E m \in ToSet(all) : m.kind = "method" /\ m.recv = c.name /\ m.name = d.name
           D == {n \in DOMAIN parents : Has(parents[n])}
           with == At(parents, D)
           E == {n \in DOMAIN with : \A m \in 1..(n - 1) : with[m].name # with[n].name}
           found == At(with, E)
           X == [n \in DOMAIN found |->
                  Edge("overrides", [kind |-> "meth", body |-> Append(found[n].pkg, found[n].name) \o <<d.name>>],
                       "METHOD", d.file)]
           nothing == d.recv = 0 \/ d.kind # "method" \/ own = <<>>
<1>1. classes \in Seq(Decls(R))
  <2>1. all \in Seq(Decls(R)) /\ A \in SUBSET DOMAIN all
    BY SymbolsSeq
  <2> HIDE DEF all, A
  <2> QED
    BY <2>1, AtFacts
<1>2. parents \in Seq(Decls(R))
  <2>1. C \in SUBSET DOMAIN classes
    OBVIOUS
  <2> HIDE DEF classes, C
  <2> QED
    BY <1>1, <2>1, AtFacts
<1>3. with \in Seq(Decls(R))
  <2>1. D \in SUBSET DOMAIN parents
    OBVIOUS
  <2> HIDE DEF parents, D
  <2> QED
    BY <1>2, <2>1, AtFacts
<1>4. found \in Seq(Decls(R))
  <2>1. E \in SUBSET DOMAIN with
    OBVIOUS
  <2> HIDE DEF with, E
  <2> QED
    BY <1>3, <2>1, AtFacts
<1>5. IsSeq(X)
  <2>1. IsSeq(found)
    <3> HIDE DEF found
    <3> QED
      BY <1>4, IsSeqOf
  <2> HIDE DEF found
  <2>2. X = [n \in DOMAIN found |-> X[n]]
    OBVIOUS
  <2> HIDE DEF X
  <2> QED
    BY <2>1, <2>2, EachSeq
<1>6. \A n \in Limits : ScanFor("overrides", R, d, n) = IF nothing THEN <<>> ELSE X
  BY Zenon DEF ScanFor, ScanOverrides, Where, OnceBy, Each
<1> HIDE DEF X, nothing
<1>7. CASE nothing
  <2>1. \A n \in Limits : ScanFor("overrides", R, d, n) = <<>>
    BY <1>6, <1>7
  <2> QED
    BY <2>1, NothingSeq DEF IsScanOf
<1>8. CASE ~nothing
  <2>1. \A n \in Limits : ScanFor("overrides", R, d, n) = X
    BY <1>6, <1>8
  <2> QED
    BY <1>5, <2>1 DEF IsScanOf
<1> QED
  BY <1>7, <1>8

LEMMA ScanWhole ==
  ASSUME NEW R, IsRepo(R), NEW d \in Decls(R), NEW kind \in Kinds
  PROVE  \E X : IsScanOf(kind, R, d, X)
BY WholeCallees, WholeCallers, WholeTests, WholeImports, WholeOverrides DEF Kinds

(* So a scan with a limit gives edges that one with a larger limit gives,  *)
(* and all of them when that has no more than the limit.                   *)
LEMMA ScanCut ==
  ASSUME NEW R, IsRepo(R), NEW d \in Decls(R), NEW kind \in Kinds,
         NEW k \in Limits, NEW l \in Limits, k <= l
  PROVE  /\ IsSeq(ScanFor(kind, R, d, k)) /\ IsSeq(ScanFor(kind, R, d, l))
         /\ ToSet(ScanFor(kind, R, d, k)) \subseteq ToSet(ScanFor(kind, R, d, l))
         /\ Len(ScanFor(kind, R, d, l)) <= k => ScanFor(kind, R, d, k) = ScanFor(kind, R, d, l)
<1>1. PICK X : IsScanOf(kind, R, d, X)
  BY ScanWhole
<1>2. X \in Seq(ToSet(X)) /\ k \in Nat /\ l \in Nat
  BY <1>1 DEF IsScanOf, IsSeq, Limits
<1>3. CASE \A n \in Limits : ScanFor(kind, R, d, n) = X
  BY <1>1, <1>2, <1>3 DEF IsScanOf
<1>4. CASE \A n \in Limits : ScanFor(kind, R, d, n) = UpTo(n, X)
  <2> DEFINE u == UpTo(k, X)
             v == UpTo(l, X)
  <2>1. ScanFor(kind, R, d, k) = u /\ ScanFor(kind, R, d, l) = v
    BY <1>4
  <2>2. v \in Seq(ToSet(X))
    BY <1>2, UpToFacts
  <2>3. u = UpTo(k, v)
    BY <1>2, UpToTwice
  <2> HIDE DEF u, v
  <2>4. u \in Seq(ToSet(X)) /\ (\A m \in 1..Len(u) : m \in DOMAIN v /\ u[m] = v[m]) /\ (Len(v) <= k => u = v)
    BY <1>2, <2>2, <2>3, UpToFacts
  <2>5. ToSet(u) \subseteq ToSet(v)
    BY <2>4 DEF ToSet
  <2> QED
    BY <2>1, <2>2, <2>4, <2>5, IsSeqOf
<1> QED
  BY <1>1, <1>3, <1>4 DEF IsScanOf

-----------------------------------------------------------------------------
(* What an id is located at is a declaration.                              *)
LEMMA HeadOrFacts ==
  ASSUME NEW T, NEW s \in Seq(T), NEW other
  PROVE  HeadOr(s, other) \in T \cup {other}
BY DEF HeadOr

LEMMA CandidatesSeq ==
  ASSUME NEW R, IsRepo(R), NEW parts
  PROVE  Candidates(R, parts) \in Seq(Decls(R))
BY LookupSeq DEF Candidates

LEMMA LocateByKind ==
  ASSUME NEW R, IsRepo(R), NEW parts
  PROVE  LocateFunction(R, parts) \in Decls(R) \cup {NotFound} /\ LocateType(R, parts) \in Decls(R) \cup {NotFound}
<1> DEFINE es == Candidates(R, parts)
           F == {n \in DOMAIN es : es[n].kind = "function"}
           T == {n \in DOMAIN es : es[n].kind = "type"}
<1>1. es \in Seq(Decls(R)) /\ F \in SUBSET DOMAIN es /\ T \in SUBSET DOMAIN es
  BY CandidatesSeq
<1>2. LocateFunction(R, parts) = IF At(es, F) # <<>> THEN At(es, F)[1] ELSE HeadOr(es, NotFound)
  BY Zenon DEF LocateFunction, FirstOr, Where
<1>3. LocateType(R, parts) = IF At(es, T) # <<>> THEN At(es, T)[1] ELSE HeadOr(es, NotFound)
  BY Zenon DEF LocateType, FirstOr, Where
<1> HIDE DEF es, F, T
<1>4. At(es, F) \in Seq(Decls(R)) /\ At(es, T) \in Seq(Decls(R))
  BY <1>1, AtFacts
<1>5. HeadOr(es, NotFound) \in Decls(R) \cup {NotFound}
  BY <1>1, HeadOrFacts
<1> QED
  BY <1>2, <1>3, <1>4, <1>5

LEMMA LocateMethodType ==
  ASSUME NEW R, IsRepo(R), NEW parts
  PROVE  LocateMethod(R, parts) \in Decls(R) \cup {NotFound}
<1> DEFINE es == Lookup(R, parts.pkg, <<parts.class>>)
           N == {n \in DOMAIN es : es[n].kind \in {"type", "class"}}
           types == At(es, N)
           In(t) == {n \in DOMAIN Symbols(R, t.file) : IsMethodOf(Symbols(R, t.file)[n], t, parts.name)}
           ss == [n \in DOMAIN types |-> At(Symbols(R, types[n].file), In(types[n]))]
<1>1. types \in Seq(Decls(R))
  <2>1. es \in Seq(Decls(R)) /\ N \in SUBSET DOMAIN es
    BY LookupSeq
  <2> HIDE DEF es, N
  <2> QED
    BY <2>1, AtFacts
<1>2. \A t : At(Symbols(R, t.file), In(t)) \in Seq(Decls(R))
  <2>1. \A t : In(t) \in SUBSET DOMAIN Symbols(R, t.file)
    OBVIOUS
  <2> HIDE DEF In
  <2> QED
    BY <2>1, SymbolsSeq, AtFacts
<1>3. ss \in [DOMAIN types -> Seq(Decls(R))]
  <2> HIDE DEF In, types
  <2> QED
    BY <1>2
<1>4. ss \in Seq(Seq(Decls(R)))
  <2> HIDE DEF ss, types
  <2> QED
    BY <1>1, <1>3, EachIsSeq
<1>5. FlattenSeq(ss) \in Seq(Decls(R))
  <2> HIDE DEF ss
  <2> QED
    BY <1>4, FlattenFacts
<1>6. LocateMethod(R, parts) = HeadOr(FlattenSeq(ss), NotFound)
  BY Zenon DEF LocateMethod, Where
<1> HIDE DEF ss
<1> QED
  BY <1>5, <1>6, HeadOrFacts

LEMMA LocateSymbolType ==
  ASSUME NEW R, IsRepo(R), NEW i
  PROVE  LocateSymbol(R, i) \in Decls(R) \cup {NotFound}
BY LocateByKind, LocateMethodType DEF LocateSymbol

-----------------------------------------------------------------------------
(* The invariant.                                                          *)
Seeded == ToSet(Seeds)
Within(k) == UNION {Walks(s)[n] : s \in Seeded, n \in 0..k}
HitTargets == {h.target : h \in ToSet(bfs.hits)}

(* One kind is followed, and no scan comes to the limit.                   *)
Simple == SimpleWalk(Ends)
Unfiltered == asked.kind = "" /\ asked.exclude = ""

Shape ==
  /\ bfs = [step |-> bfs.step, frontier |-> bfs.frontier, at |-> bfs.at, hits |-> bfs.hits,
            targets |-> bfs.targets, next |-> bfs.next, seen |-> bfs.seen, rows |-> bfs.rows,
            visited |-> bfs.visited, truncated |-> bfs.truncated, scores |-> bfs.scores]
  /\ bfs.step \in 0..(Depth - 1)
  /\ bfs.at \in Nat \ {0}

(* The nodes of a list are ends of walks of k edges.                       *)
NodesAt(q, k) ==
  /\ IsSeq(q)
  /\ \A x \in ToSet(q) : x.seed \in Seeded /\ x.id \in Walks(x.seed)[k] /\ Located(x.id)

IsHit(h) ==
  /\ h.seed \in Seeded /\ h.target \in Walks(h.seed)[bfs.step + 1]
  /\ h.depth = bfs.step + 1 /\ h.score = Score(h.seed, h.depth)
HitsOK ==
  /\ IsSeq(bfs.hits) /\ \A h \in ToSet(bfs.hits) : IsHit(h)
  /\ bfs.targets \subseteq HitTargets

IsRow(row) ==
  /\ row = [target |-> row.target, depth |-> row.depth, score |-> row.score, via |-> row.via]
  /\ row.target \in bfs.seen \ Seeded
  /\ row.depth \in 1..(bfs.step + 1)
  /\ \E s \in Seeded : row.target \in Walks(s)[row.depth] /\ row.score = Score(s, row.depth)
RowsOK ==
  /\ IsSeq(bfs.rows) /\ \A row \in ToSet(bfs.rows) : IsRow(row)
  /\ \A m, n \in DOMAIN bfs.rows : bfs.rows[m].target = bfs.rows[n].target => m = n
  /\ Seeded \subseteq bfs.seen

(* A row for all that was seen, until one is dropped.                      *)
NoneMissing == Unfiltered /\ ~bfs.truncated => bfs.seen \subseteq Seeded \cup Targets

(* In a simple walk all is seen that is within reach, the frontier has     *)
(* what was not within reach before, and so will have the next one.        *)
Scanned ==
  \A n \in DOMAIN bfs.frontier : n < bfs.at =>
    \A e \in ToSet(Edges(bfs.frontier[n].id, Via, Limit)) : e.target \in HitTargets
FrontierFull ==
  \A s \in Seeded : \A i \in Walks(s)[bfs.step] :
    Located(i) => i \in Within(bfs.step - 1) \/ \E x \in ToSet(bfs.frontier) : x.id = i
NextFull ==
  \A i \in HitTargets \ bfs.targets :
    Located(i) => i \in Within(bfs.step) \/ \E x \in ToSet(bfs.next) : x.id = i
Reached ==
  /\ pc = "scan" => bfs.seen = Within(bfs.step) /\ FrontierFull /\ Scanned
  /\ pc = "emit" => /\ bfs.seen = Within(bfs.step) \cup (HitTargets \ bfs.targets)
                    /\ Within(bfs.step + 1) = Within(bfs.step) \cup HitTargets
                    /\ NextFull
  /\ pc = "done" /\ ~bfs.truncated => bfs.seen = Within(Depth)

(* From one seed, the first walk that comes to a node makes its row.       *)
Nearest ==
  \A row \in ToSet(bfs.rows) : \A n \in 1..(row.depth - 1) : \A s \in Seeded : row.target \notin Walks(s)[n]

Inv ==
  /\ repo \in Repos /\ asked \in Questions /\ pc \in {"ask", "scan", "emit", "done", "refused"}
  /\ pc \in {"ask", "refused"} => bfs = Fresh
  /\ pc \in {"scan", "emit", "done"} =>
       /\ Valid /\ (\A s \in Seeded : Located(s)) /\ Shape /\ RowsOK /\ NoneMissing
       /\ pc # "done" => NodesAt(bfs.frontier, bfs.step) /\ NodesAt(bfs.next, bfs.step + 1) /\ HitsOK
       /\ pc = "scan" => bfs.targets = {} /\ bfs.next = <<>>
       /\ Simple => Reached /\ (Len(Seeds) = 1 => Nearest)

-----------------------------------------------------------------------------
(* Lists, made longer.                                                     *)
LEMMA ConcatIs ==
  ASSUME NEW a, IsSeq(a), NEW b, IsSeq(b)
  PROVE  IsSeq(a \o b) /\ ToSet(a \o b) = ToSet(a) \cup ToSet(b)
<1> DEFINE T == ToSet(a) \cup ToSet(b)
<1>1. a \in Seq(T) /\ b \in Seq(T)
  BY SeqSubset DEF IsSeq
<1>2. a \o b \in Seq(T) /\ ToSet(a \o b) = T
  <2> HIDE DEF T
  <2> QED
    BY <1>1, ConcatFacts DEF T
<1> HIDE DEF T
<1> QED
  BY <1>2, IsSeqOf DEF T

LEMMA AppendIs ==
  ASSUME NEW s, IsSeq(s), NEW e
  PROVE  /\ IsSeq(Append(s, e)) /\ ToSet(Append(s, e)) = ToSet(s) \cup {e}
         /\ Len(Append(s, e)) = Len(s) + 1 /\ Len(s) \in Nat /\ DOMAIN s = 1..Len(s)
         /\ DOMAIN Append(s, e) = 1..(Len(s) + 1)
         /\ \A n \in 1..(Len(s) + 1) : Append(s, e)[n] = IF n <= Len(s) THEN s[n] ELSE e
<1> DEFINE T == ToSet(s) \cup {e}
           a == Append(s, e)
<1>1. s \in Seq(T)
  BY SeqSubset DEF IsSeq
<1>2. e \in T
  OBVIOUS
<1> HIDE DEF T
<1>3. /\ a \in Seq(T) /\ Len(a) = Len(s) + 1 /\ Len(s) \in Nat /\ DOMAIN s = 1..Len(s)
      /\ DOMAIN a = 1..(Len(s) + 1)
      /\ \A n \in 1..(Len(s) + 1) : a[n] = IF n <= Len(s) THEN s[n] ELSE e
  BY <1>1, <1>2
<1> HIDE DEF a
<1>4. IsSeq(a) /\ ToSet(a) \subseteq T
  BY <1>3, IsSeqOf
<1>5. ToSet(s) \subseteq ToSet(a)
  <2> SUFFICES ASSUME NEW n \in 1..Len(s) PROVE s[n] \in ToSet(a)
    BY <1>3 DEF ToSet
  <2>1. n \in 1..(Len(s) + 1) /\ a[n] = s[n]
    BY <1>3
  <2> QED
    BY <1>3, <2>1 DEF ToSet
<1>6. e \in ToSet(a)
  <2>1. Len(s) + 1 \in 1..(Len(s) + 1) /\ a[Len(s) + 1] = e
    BY <1>3
  <2> QED
    BY <1>3, <2>1 DEF ToSet
<1> QED
  BY <1>3, <1>4, <1>5, <1>6 DEF a, T

(* One element made of each.                                               *)
LEMMA EachIs ==
  ASSUME NEW s, IsSeq(s), NEW e, e = [n \in DOMAIN s |-> e[n]]
  PROVE  IsSeq(e) /\ DOMAIN e = DOMAIN s /\ ToSet(e) = {e[n] : n \in DOMAIN s}
<1>1. IsSeq(e) /\ DOMAIN e = DOMAIN s
  BY EachSeq
<1> QED
  BY <1>1 DEF ToSet

(* A finite set of numbers has a largest element.                          *)
LEMMA LargestIsThere ==
  ASSUME NEW S \in SUBSET Nat, IsFiniteSet(S), S # {}
  PROVE  \E x \in S : \A y \in S : y <= x
<1> DEFINE n == Cardinality(S)
<1>1. /\ n \in Nat /\ (\A k \in 1..n : Nth(S, k) \in S)
      /\ \A j, k \in 1..n : j < k => Nth(S, j) < Nth(S, k)
      /\ \A x \in S : \E k \in 1..n : Nth(S, k) = x
  BY NthFacts
<1>2. n # 0
  BY FS_EmptySet
<1> HIDE DEF n
<1>3. n \in 1..n /\ Nth(S, n) \in S
  BY <1>1, <1>2
<1>4. ASSUME NEW y \in S PROVE y <= Nth(S, n)
  <2>1. PICK k \in 1..n : Nth(S, k) = y
    BY <1>1
  <2>2. k = n \/ k < n
    BY <1>1
  <2>3. k < n => Nth(S, k) < Nth(S, n)
    BY <1>1, <1>3
  <2>4. y \in Nat /\ Nth(S, n) \in Nat
    BY <1>3
  <2> QED
    BY <2>1, <2>2, <2>3, <2>4
<1> QED
  BY <1>3, <1>4

(* A share of a larger number of parts is no larger.                       *)
LEMMA SmallerShare ==
  ASSUME NEW x \in Nat, NEW d \in 0..5, NEW e \in 0..5, d <= e
  PROVE  x \div (1 + d) \in Nat /\ x \div (1 + e) <= x \div (1 + d)
<1>1. \A a \in 1..6 : x \div a \in Nat
  OBVIOUS
<1>2. /\ x \div 2 <= x \div 1 /\ x \div 3 <= x \div 2 /\ x \div 4 <= x \div 3
      /\ x \div 5 <= x \div 4 /\ x \div 6 <= x \div 5
  OBVIOUS
<1>3. /\ x \div 1 \in Nat /\ x \div 2 \in Nat /\ x \div 3 \in Nat
      /\ x \div 4 \in Nat /\ x \div 5 \in Nat /\ x \div 6 \in Nat
  BY <1>1
<1>4. /\ d \in {0, 1, 2, 3, 4, 5} /\ e \in {0, 1, 2, 3, 4, 5}
  OBVIOUS
<1> DEFINE f(a) == x \div a
<1>5. f(2) <= f(1) /\ f(3) <= f(2) /\ f(4) <= f(3) /\ f(5) <= f(4) /\ f(6) <= f(5)
  BY <1>2
<1>6. f(1) \in Nat /\ f(2) \in Nat /\ f(3) \in Nat /\ f(4) \in Nat /\ f(5) \in Nat /\ f(6) \in Nat
  BY <1>3
<1>7. 1 + d \in {1, 2, 3, 4, 5, 6} /\ 1 + e \in {1, 2, 3, 4, 5, 6} /\ 1 + d <= 1 + e
  BY <1>4
<1>8. \A a, b \in {1, 2, 3, 4, 5, 6} : a <= b => f(a) \in Nat /\ f(b) <= f(a)
  <2> HIDE DEF f
  <2> QED
    BY <1>5, <1>6
<1> QED
  BY <1>7, <1>8

-----------------------------------------------------------------------------
(* The arguments of a call that goes ahead.                                *)
Ready == repo \in Repos /\ asked \in Questions /\ Valid /\ \A s \in Seeded : Located(s)

LEMMA Arguments ==
  ASSUME QueryGraphAssumption, Ready
  PROVE  /\ IsRepo(repo) /\ IsQuestion(asked) /\ Depth \in 1..5
         /\ Limit \in Limits /\ Unlimited \in Limits /\ Limit <= Unlimited
         /\ \A n \in Nat : Kind(n + 1) \in Kinds
         /\ Len(asked.follow) = 1 => \A m, n \in Nat \ {0} : Kind(m) = Kind(n)
<1>1. IsRepo(repo) /\ IsQuestion(asked) /\ Depth \in 1..5 /\ Limit \in 1..1000
  BY DEF QueryGraphAssumption, Ready, Valid, MaxDepth
<1>2. Limit \in Limits /\ Unlimited \in Limits /\ Limit <= Unlimited
  BY <1>1 DEF Limits, Unlimited
<1>3. /\ asked.follow \in Seq(ToSet(asked.follow)) /\ ToSet(asked.follow) \subseteq Kinds
      /\ Len(asked.follow) \in Nat /\ Len(asked.follow) # 0
  <2>1. IsSeq(asked.follow) /\ asked.follow # <<>> /\ ToSet(asked.follow) \subseteq Kinds
    BY <1>1 DEF Ready, Valid, IsQuestion
  <2> QED
    BY <2>1 DEF IsSeq
<1>4. ASSUME NEW n \in Nat PROVE Kind(n + 1) \in Kinds
  <2>1. n + 1 - 1 = n /\ (n % Len(asked.follow)) + 1 \in 1..Len(asked.follow)
    <3>1. \A l \in Nat : l # 0 => (n % l) + 1 \in 1..l
      OBVIOUS
    <3>2. n + 1 - 1 = n
      OBVIOUS
    <3> DEFINE l == Len(asked.follow)
    <3>3. l \in Nat /\ l # 0
      BY <1>3
    <3>4. (n % l) + 1 \in 1..l
      <4> HIDE DEF l
      <4> QED
        BY <3>1, <3>3
    <3> QED
      BY <3>2, <3>4
  <2> DEFINE k == (n % Len(asked.follow)) + 1
  <2>2. Kind(n + 1) = asked.follow[k]
    BY <2>1 DEF Kind
  <2> HIDE DEF k
  <2> QED
    BY <1>3, <2>1, <2>2 DEF k
<1>5. ASSUME Len(asked.follow) = 1, NEW m \in Nat \ {0}, NEW n \in Nat \ {0} PROVE Kind(m) = Kind(n)
  <2>1. (m - 1) % 1 = 0 /\ (n - 1) % 1 = 0
    OBVIOUS
  <2> QED
    BY <1>5, <2>1 DEF Kind
<1> QED
  BY <1>1, <1>2, <1>4, <1>5

LEMMA SeedsSeq ==
  ASSUME QueryGraphAssumption, Ready
  PROVE  IsSeq(Seeds) /\ (asked.from = <<>> => Seeded \subseteq ToSet(asked.seeds))
<1> DEFINE s == asked.seeds
           N == {n \in DOMAIN s : \A m \in 1..(n - 1) : s[m] # s[n]}
<1>1. IsSeq(asked.from) /\ s \in Seq(ToSet(s))
  BY Arguments DEF IsQuestion, IsSeq
<1>2. Once(s) = At(s, N)
  BY Zenon DEF Once, OnceBy
<1>3. N \in SUBSET DOMAIN s
  OBVIOUS
<1>4. At(s, N) \in Seq(ToSet(s))
  <2> HIDE DEF s, N
  <2> QED
    BY <1>1, <1>3, AtFacts
<1>5. IsSeq(Once(s)) /\ ToSet(Once(s)) \subseteq ToSet(s)
  <2> HIDE DEF s, N
  <2> QED
    BY <1>2, <1>4, IsSeqOf
<1>6. Seeds = IF asked.from # <<>> THEN asked.from ELSE Once(s)
  BY DEF Seeds
<1> QED
  BY <1>1, <1>5, <1>6 DEF Seeded

(* A seed has a weight, so that a score falls with the depth.              *)
LEMMA WeightType ==
  ASSUME QueryGraphAssumption, Ready, NEW s \in Seeded
  PROVE  Weight(s) \in Nat
<1>1. CASE asked.from # <<>> \/ asked.weights = <<>>
  BY <1>1 DEF Weight
<1>2. CASE ~(asked.from # <<>> \/ asked.weights = <<>>)
  <2> DEFINE N == {n \in DOMAIN asked.seeds : asked.seeds[n] = s}
             S == {asked.weights[n] : n \in N}
  <2>1. /\ asked.weights \in Seq(Nat) /\ asked.seeds \in Seq(ToSet(asked.seeds))
        /\ Len(asked.weights) = Len(asked.seeds) /\ s \in ToSet(asked.seeds)
    BY <1>2, Arguments, SeedsSeq DEF IsQuestion, IsSeq, Ready, Valid
  <2>2. DOMAIN asked.seeds = 1..Len(asked.seeds) /\ DOMAIN asked.weights = DOMAIN asked.seeds
    BY <2>1
  <2>3. S \subseteq Nat /\ S # {} /\ S \subseteq ToSet(asked.weights)
    <3>1. \E n \in DOMAIN asked.seeds : asked.seeds[n] = s
      BY <2>1 DEF ToSet
    <3>2. \A n \in DOMAIN asked.weights : asked.weights[n] \in Nat
      BY <2>1
    <3> QED
      BY <2>2, <3>1, <3>2 DEF ToSet
  <2>4. IsFiniteSet(S)
    <3>1. IsFiniteSet(ToSet(asked.weights))
      BY <2>1, ElementsFinite
    <3> HIDE DEF S
    <3> QED
      BY <2>3, <3>1, FS_Subset
  <2>5. Weight(s) = Max(S)
    BY <1>2, Zenon DEF Weight
  <2> HIDE DEF S
  <2>6. \E x \in S : \A y \in S : x >= y
    <3>1. PICK x \in S : \A y \in S : y <= x
      BY <2>3, <2>4, LargestIsThere
    <3>2. \A y \in S : x >= y
      BY <2>3, <3>1
    <3> QED
      BY <3>2
  <2>7. Max(S) \in S
    BY <2>6, Zenon DEF Max
  <2> QED
    BY <2>3, <2>5, <2>7
<1> QED
  BY <1>1, <1>2

LEMMA ScoreFalls ==
  ASSUME QueryGraphAssumption, Ready, NEW s \in Seeded, NEW d \in 0..Depth, NEW e \in 0..Depth, d <= e
  PROVE  Score(s, d) \in Nat /\ Score(s, e) <= Score(s, d)
<1>1. Weight(s) \in Nat /\ Depth \in 1..5
  BY WeightType, Arguments
<1>2. d \in 0..5 /\ e \in 0..5
  BY <1>1
<1> QED
  BY <1>1, <1>2, SmallerShare DEF Score

-----------------------------------------------------------------------------
(* The ends of the walks of n edges are the ends of the edges of those of  *)
(* n - 1.                                                                  *)
IsWalk(w, seed, m) ==
  w = [n \in 0..m |-> IF n = 0 THEN {seed} ELSE UNION {Step(i, n) : i \in w[n - 1]}]

LEMMA WalkIsThere ==
  ASSUME NEW seed
  PROVE  \A m \in Nat : \E w : IsWalk(w, seed, m)
<1> DEFINE G == {m \in Nat : \E w : IsWalk(w, seed, m)}
<1>1. 0 \in G
  <2> DEFINE w == [n \in 0..0 |-> {seed}]
  <2>1. IsWalk(w, seed, 0)
    BY DEF IsWalk
  <2> QED
    BY <2>1
<1>2. ASSUME NEW m \in Nat, m \in G PROVE m + 1 \in G
  <2>1. PICK w : IsWalk(w, seed, m)
    BY <1>2
  <2> DEFINE Of(n) == IF n = 0 THEN {seed} ELSE UNION {Step(i, n) : i \in w[n - 1]}
             v == [n \in 0..(m + 1) |-> Of(n)]
  <2>2. \A n \in 0..m : v[n] = w[n] /\ n \in 0..(m + 1)
    <3>1. w = [n \in 0..m |-> Of(n)]
      BY <2>1 DEF IsWalk
    <3> HIDE DEF Of
    <3>2. \A n \in 0..m : n \in 0..(m + 1)
      OBVIOUS
    <3> QED
      BY <3>1, <3>2
  <2>3. ASSUME NEW n \in 0..(m + 1)
        PROVE  v[n] = IF n = 0 THEN {seed} ELSE UNION {Step(i, n) : i \in v[n - 1]}
    <3>1. v[n] = Of(n)
      OBVIOUS
    <3>2. n # 0 => n - 1 \in 0..m
      OBVIOUS
    <3>3. n # 0 => v[n - 1] = w[n - 1]
      <4> HIDE DEF v
      <4> QED
        BY <2>2, <3>2
    <3> HIDE DEF v
    <3> QED
      BY <3>1, <3>3
  <2>4. IsWalk(v, seed, m + 1)
    <3>1. v = [n \in 0..(m + 1) |-> v[n]]
      <4> HIDE DEF Of
      <4> QED
        OBVIOUS
    <3> HIDE DEF v
    <3> QED
      BY <2>3, <3>1 DEF IsWalk
  <2> QED
    BY <2>4
<1> HIDE DEF G
<1>3. \A m \in Nat : m \in G
  BY <1>1, <1>2, Induction
<1> QED
  BY <1>3 DEF G

LEMMA WalksFacts ==
  ASSUME QueryGraphAssumption, Ready, NEW s
  PROVE  /\ IsWalk(Walks(s), s, Depth)
         /\ Walks(s)[0] = {s}
         /\ \A n \in 0..(Depth - 1) : Walks(s)[n + 1] = UNION {Step(i, n + 1) : i \in Walks(s)[n]}
<1>1. Depth \in Nat
  BY Arguments
<1>2. \E w : IsWalk(w, s, Depth)
  BY <1>1, WalkIsThere
<1>3. Walks(s) = CHOOSE w : IsWalk(w, s, Depth)
  BY Zenon DEF Walks, IsWalk
<1>4. IsWalk(Walks(s), s, Depth)
  BY <1>2, <1>3, Zenon
<1> DEFINE w == Walks(s)
<1>5. w = [n \in 0..Depth |-> IF n = 0 THEN {s} ELSE UNION {Step(i, n) : i \in w[n - 1]}]
  BY <1>4 DEF IsWalk
<1> HIDE DEF w
<1>6. w[0] = {s}
  <2>1. 0 \in 0..Depth
    BY <1>1
  <2> QED
    BY <1>5, <2>1
<1>7. ASSUME NEW n \in 0..(Depth - 1) PROVE w[n + 1] = UNION {Step(i, n + 1) : i \in w[n]}
  <2>1. n + 1 \in 0..Depth /\ n + 1 # 0 /\ (n + 1) - 1 = n
    BY <1>1
  <2>2. w[n + 1] = UNION {Step(i, n + 1) : i \in w[(n + 1) - 1]}
    BY <1>5, <2>1
  <2> QED
    BY <2>1, <2>2
<1> QED
  BY <1>4, <1>6, <1>7 DEF w

-----------------------------------------------------------------------------
(* The edges that a limit leaves are edges there are, and all of them when *)
(* there are no more than the limit.                                       *)
LEMMA EdgesCut ==
  ASSUME QueryGraphAssumption, Ready, NEW i, Located(i), NEW n \in Nat
  PROVE  LET cut == Edges(i, Kind(n + 1), Limit)
         IN /\ IsSeq(cut) /\ {e.target : e \in ToSet(cut)} \subseteq Step(i, n + 1)
            /\ Len(Edges(i, Kind(n + 1), Unlimited)) <= Limit => {e.target : e \in ToSet(cut)} = Step(i, n + 1)
<1> DEFINE kind == Kind(n + 1)
           d == LocateSymbol(repo, i)
           cut == ScanFor(kind, repo, d, Limit)
           all == ScanFor(kind, repo, d, Unlimited)
<1>1. d \in Decls(repo) /\ kind \in Kinds /\ IsRepo(repo)
  <2>1. d \in Decls(repo) \cup {NotFound} /\ d # NotFound
    BY LocateSymbolType, Arguments DEF Located, Found
  <2> QED
    BY <2>1, Arguments
<1>2. Limit \in Limits /\ Unlimited \in Limits /\ Limit <= Unlimited
  BY Arguments
<1>3. Edges(i, kind, Limit) = cut /\ Edges(i, kind, Unlimited) = all
  BY DEF Edges
<1>4. IsSeq(cut) /\ ToSet(cut) \subseteq ToSet(all) /\ (Len(all) <= Limit => cut = all)
  <2> HIDE DEF kind, d
  <2> QED
    BY <1>1, <1>2, ScanCut
<1>5. Step(i, n + 1) = {e.target : e \in ToSet(all)}
  BY <1>3, Zenon DEF Step
<1> HIDE DEF kind, d, cut, all
<1> QED
  BY <1>3, <1>4, <1>5 DEF kind

LEMMA ViaIs ==
  ASSUME bfs.step \in Nat
  PROVE  Via = Kind(bfs.step + 1)
<1>1. (bfs.step + 1) - 1 = bfs.step
  OBVIOUS
<1> QED
  BY <1>1 DEF Via, Kind

(* What the scan of a node finds is one edge further.                      *)
LEMMA HitsFacts ==
  ASSUME QueryGraphAssumption, Ready, bfs.step \in 0..(Depth - 1),
         NEW x, x.seed \in Seeded, x.id \in Walks(x.seed)[bfs.step], Located(x.id)
  PROVE  /\ IsSeq(Hits(x)) /\ \A h \in ToSet(Hits(x)) : IsHit(h)
         /\ {h.target : h \in ToSet(Hits(x))} = {e.target : e \in ToSet(Edges(x.id, Via, Limit))}
<1> DEFINE k == bfs.step
           cut == Edges(x.id, Via, Limit)
           Of(e) == [target |-> e.target, seed |-> x.seed, score |-> Score(x.seed, k + 1),
                     depth |-> k + 1, kind |-> e.targetKind, file |-> e.file]
           hits == [n \in DOMAIN cut |-> Of(cut[n])]
<1>1. k \in Nat /\ Depth \in Nat /\ Via = Kind(k + 1)
  BY Arguments, ViaIs
<1>2. IsSeq(cut) /\ {e.target : e \in ToSet(cut)} \subseteq Step(x.id, k + 1)
  <2> HIDE DEF k
  <2> QED
    BY <1>1, EdgesCut
<1>3. Hits(x) = hits
  BY Zenon DEF Hits, Each
<1>4. IsSeq(hits) /\ ToSet(hits) = {hits[n] : n \in DOMAIN cut}
  <2>1. hits = [n \in DOMAIN cut |-> hits[n]]
    <3> HIDE DEF cut, Of
    <3> QED
      OBVIOUS
  <2> HIDE DEF hits, cut
  <2> QED
    BY <1>2, <2>1, EachIs
<1>5. ToSet(hits) = {Of(e) : e \in ToSet(cut)}
  <2>1. \A n \in DOMAIN cut : hits[n] = Of(cut[n])
    <3> HIDE DEF cut, Of
    <3> QED
      OBVIOUS
  <2> HIDE DEF hits, cut, Of
  <2> QED
    BY <1>4, <2>1 DEF ToSet
<1>6. Step(x.id, k + 1) \subseteq Walks(x.seed)[k + 1]
  <2>1. Walks(x.seed)[k + 1] = UNION {Step(i, k + 1) : i \in Walks(x.seed)[k]}
    BY WalksFacts
  <2> HIDE DEF k
  <2> QED
    BY <2>1 DEF k
<1>7. ASSUME NEW e \in ToSet(cut) PROVE IsHit(Of(e)) /\ Of(e).target = e.target
  <2>1. e.target \in Walks(x.seed)[k + 1]
    <3> HIDE DEF cut, k
    <3> QED
      BY <1>2, <1>6
  <2> HIDE DEF cut
  <2> QED
    BY <2>1 DEF IsHit
<1>8. {h.target : h \in {Of(e) : e \in ToSet(cut)}} = {e.target : e \in ToSet(cut)}
  <2> HIDE DEF cut
  <2>1. \A e : Of(e).target = e.target
    OBVIOUS
  <2> HIDE DEF Of
  <2> QED
    BY <2>1
<1> HIDE DEF hits, Of
<1>9. \A h \in ToSet(hits) : IsHit(h)
  BY <1>5, <1>7
<1>10. {h.target : h \in ToSet(hits)} = {e.target : e \in ToSet(cut)}
  BY <1>5, <1>8
<1> HIDE DEF cut
<1> QED
  BY <1>3, <1>4, <1>9, <1>10 DEF cut

(* Every target that was hit has a best hit.                               *)
LEMMA BestHitFacts ==
  ASSUME QueryGraphAssumption, Ready, bfs.step \in 0..(Depth - 1), HitsOK, NEW t \in HitTargets
  PROVE  BestHit(t) \in ToSet(bfs.hits) /\ BestHit(t).target = t /\ IsHit(BestHit(t))
<1> DEFINE hits == bfs.hits
           P == {n \in DOMAIN hits : hits[n].target = t}
           S == {hits[n].score : n \in P}
<1>1. hits \in Seq(ToSet(hits)) /\ \A h \in ToSet(hits) : IsHit(h)
  BY DEF HitsOK, IsSeq
<1>2. DOMAIN hits = 1..Len(hits) /\ Len(hits) \in Nat
  <2> HIDE DEF hits
  <2> QED
    BY <1>1
<1>3. ASSUME NEW h, IsHit(h) PROVE h.score \in Nat
  <2>1. Depth \in Nat
    BY Arguments
  <2>2. h.depth \in 0..Depth /\ h.seed \in Seeded /\ h.score = Score(h.seed, h.depth)
    BY <1>3, <2>1 DEF IsHit
  <2>3. h.depth <= h.depth
    BY <2>1, <2>2
  <2> QED
    BY <2>2, <2>3, ScoreFalls
<1>4. \A n \in DOMAIN hits : hits[n] \in ToSet(hits) /\ hits[n].score \in Nat
  <2>1. \A n \in DOMAIN hits : hits[n] \in ToSet(hits)
    BY DEF ToSet
  <2> HIDE DEF hits
  <2> QED
    BY <1>1, <1>3, <2>1
<1>5. P # {} /\ P \subseteq Nat /\ IsFiniteSet(P)
  <2>1. P # {}
    BY DEF HitTargets, ToSet
  <2>2. IsFiniteSet(1..Len(hits))
    <3>1. 1 \in Int /\ Len(hits) \in Int
      <4> HIDE DEF hits
      <4> QED
        BY <1>2
    <3> HIDE DEF hits
    <3> QED
      BY <3>1, FS_Interval
  <2>3. P \subseteq 1..Len(hits)
    <3> HIDE DEF hits
    <3> QED
      BY <1>2
  <2>4. P \subseteq Nat
    <3> HIDE DEF P, hits
    <3> QED
      BY <1>2, <2>3
  <2> HIDE DEF P, hits
  <2> QED
    BY <2>1, <2>2, <2>3, <2>4, FS_Subset
<1>6. S # {} /\ S \in SUBSET Nat /\ IsFiniteSet(S)
  <2>1. S # {} /\ S \in SUBSET Nat
    <3> HIDE DEF hits
    <3> QED
      BY <1>4, <1>5
  <2>2. IsFiniteSet(S)
    <3> HIDE DEF P, hits
    <3> DEFINE f == [n \in P |-> hits[n].score]
    <3>1. f \in Surjection(P, S)
      BY DEF Surjection
    <3> HIDE DEF S, f
    <3> QED
      BY <1>5, <3>1, FS_Surjection
  <2> QED
    BY <2>1, <2>2
<1>7. PICK x \in S : \A y \in S : y <= x
  <2> HIDE DEF S
  <2> QED
    BY <1>6, LargestIsThere
<1> DEFINE Q == {n \in P : hits[n].score = x}
<1>8. Q # {} /\ Q \in SUBSET Nat
  <2>1. \E n \in P : hits[n].score = x
    BY <1>7
  <2> HIDE DEF P, hits
  <2> QED
    BY <1>5, <2>1
<1>9. PICK n \in Q : \A m \in Q : n <= m
  <2> HIDE DEF Q
  <2> QED
    BY <1>8, LeastIsThere
<1>10. Best(n)
  <2> SUFFICES ASSUME NEW m \in DOMAIN hits, hits[m].target = hits[n].target
               PROVE  hits[m].score < hits[n].score \/ (hits[m].score = hits[n].score /\ n <= m)
    BY Zenon DEF Best
  <2>1. n \in P /\ hits[n].score = x /\ hits[n].target = t
    BY <1>9
  <2>2. m \in P
    BY <2>1
  <2>3. hits[m].score \in S
    BY <2>2
  <2>4. hits[m].score <= x /\ hits[m].score \in Nat /\ x \in Nat
    <3> HIDE DEF hits, P, S
    <3> QED
      BY <1>4, <1>6, <1>7, <2>3
  <2>5. hits[m].score = x => m \in Q
    BY <2>2
  <2> HIDE DEF Q, hits, P
  <2> QED
    BY <1>9, <2>1, <2>4, <2>5
<1> DEFINE best == CHOOSE m \in DOMAIN hits : hits[m].target = t /\ Best(m)
<1>11. best \in DOMAIN hits /\ hits[best].target = t
  <2>1. n \in DOMAIN hits /\ hits[n].target = t
    BY <1>9
  <2> HIDE DEF Q, P
  <2> QED
    BY <1>10, <2>1, Zenon
<1>12. BestHit(t) = hits[best]
  BY Zenon DEF BestHit
<1> HIDE DEF best, hits, P, S, Q
<1> QED
  BY <1>1, <1>4, <1>11, <1>12 DEF hits

-----------------------------------------------------------------------------
(* What is within reach.                                                   *)
LEMMA WithinFacts ==
  ASSUME QueryGraphAssumption, Ready
  PROVE  /\ Within(0) = Seeded /\ Within(-1) = {}
         /\ \A k \in 0..Depth : Seeded \subseteq Within(k)
         /\ \A k \in 0..Depth : \A s \in Seeded : \A n \in 0..k : Walks(s)[n] \subseteq Within(k)
         /\ \A k \in 0..(Depth - 1) : Within(k + 1) = Within(k) \cup UNION {Walks(s)[k + 1] : s \in Seeded}
<1>1. Depth \in 1..5 /\ \A s : Walks(s)[0] = {s}
  BY Arguments, WalksFacts
<1>2. \A k \in 0..Depth : \A s \in Seeded : \A n \in 0..k : Walks(s)[n] \subseteq Within(k)
  BY DEF Within
<1>3. \A k \in 0..Depth : Seeded \subseteq Within(k)
  <2> SUFFICES ASSUME NEW k \in 0..Depth, NEW s \in Seeded PROVE s \in Within(k)
    OBVIOUS
  <2>1. 0 \in 0..k
    BY <1>1
  <2> QED
    BY <1>1, <1>2, <2>1
<1>4. Within(0) = Seeded
  <2>1. 0..0 = {0}
    OBVIOUS
  <2>2. Within(0) = UNION {Walks(s)[n] : s \in Seeded, n \in {0}}
    BY <2>1 DEF Within
  <2>3. Within(0) \subseteq Seeded
    BY <1>1, <2>2
  <2>4. 0 \in 0..Depth
    BY <1>1
  <2> QED
    BY <1>3, <2>3, <2>4
<1>5. Within(-1) = {}
  <2>1. 0..(-1) = {}
    OBVIOUS
  <2> QED
    BY <2>1 DEF Within
<1>6. ASSUME NEW k \in 0..(Depth - 1)
      PROVE  Within(k + 1) = Within(k) \cup UNION {Walks(s)[k + 1] : s \in Seeded}
  <2>1. 0..(k + 1) = (0..k) \cup {k + 1}
    BY <1>1
  <2> QED
    BY <2>1 DEF Within
<1> QED
  BY <1>2, <1>3, <1>4, <1>5, <1>6

(* In a simple walk a scan gives all edges, ...                            *)
LEMMA SimpleScan ==
  ASSUME QueryGraphAssumption, Ready, Simple, NEW s \in Seeded, NEW n \in 0..(Depth - 1),
         NEW i \in Walks(s)[n], Located(i)
  PROVE  {e.target : e \in ToSet(Edges(i, Kind(n + 1), Limit))} = Step(i, n + 1)
<1>1. n \in Nat
  BY Arguments
<1>2. Len(Edges(i, Kind(n + 1), Unlimited)) <= Limit
  <2>1. Roomy(Ends)
    BY DEF Simple, SimpleWalk
  <2>2. DOMAIN Ends = Seeded /\ Ends[s] = Walks(s)
    BY DEF Ends, Seeded
  <2> QED
    BY <2>1, <2>2, Zenon DEF Roomy
<1> QED
  BY <1>1, <1>2, EdgesCut

(* ... in each step the same ones, ...                                     *)
LEMMA SameStep ==
  ASSUME QueryGraphAssumption, Ready, Simple, NEW m \in Nat \ {0}, NEW n \in Nat \ {0}, NEW i
  PROVE  Step(i, m) = Step(i, n)
<1>1. Kind(m) = Kind(n)
  BY Arguments DEF Simple, SimpleWalk
<1> QED
  BY <1>1 DEF Step

(* ... which lead from what is within reach to what is with one more.      *)
LEMMA StepWithin ==
  ASSUME QueryGraphAssumption, Ready, Simple, NEW k \in 0..(Depth - 1), NEW i \in Within(k), NEW n \in Nat \ {0}
  PROVE  Step(i, n) \subseteq Within(k + 1)
<1>1. Depth \in Nat
  BY Arguments
<1>2. PICK s \in Seeded, m \in 0..k : i \in Walks(s)[m]
  BY DEF Within
<1>3. m \in 0..(Depth - 1) /\ m + 1 \in 0..(k + 1) /\ k + 1 \in 0..Depth /\ m + 1 \in Nat \ {0}
  BY <1>1
<1>4. Step(i, m + 1) \subseteq Walks(s)[m + 1]
  BY <1>2, <1>3, WalksFacts
<1>5. Walks(s)[m + 1] \subseteq Within(k + 1)
  BY <1>3, WithinFacts
<1>6. Step(i, m + 1) = Step(i, n)
  BY <1>3, SameStep
<1> QED
  BY <1>4, <1>5, <1>6

(* When that is no more, there is no more within reach at all.             *)
LEMMA NoMore ==
  ASSUME QueryGraphAssumption, Ready, Simple, NEW k \in 0..Depth,
         \A i \in Within(k) : Step(i, 1) \subseteq Within(k)
  PROVE  Within(Depth) = Within(k)
<1>1. Depth \in Nat
  BY Arguments
<1> DEFINE G == {n \in Nat : n <= Depth => \A s \in Seeded : Walks(s)[n] \subseteq Within(k)}
<1>2. 0 \in G
  BY WalksFacts, WithinFacts
<1>3. ASSUME NEW n \in Nat, n \in G PROVE n + 1 \in G
  <2> SUFFICES ASSUME n + 1 <= Depth, NEW s \in Seeded PROVE Walks(s)[n + 1] \subseteq Within(k)
    OBVIOUS
  <2>1. n \in 0..(Depth - 1) /\ n <= Depth /\ n + 1 \in Nat \ {0}
    BY <1>1
  <2>2. Walks(s)[n] \subseteq Within(k)
    BY <1>3, <2>1
  <2>3. Walks(s)[n + 1] = UNION {Step(i, n + 1) : i \in Walks(s)[n]}
    BY <2>1, WalksFacts
  <2>4. \A i : Step(i, n + 1) = Step(i, 1)
    BY <2>1, SameStep
  <2> QED
    BY <2>2, <2>3, <2>4
<1> HIDE DEF G
<1>4. \A n \in Nat : n \in G
  BY <1>2, <1>3, Induction
<1>5. \A s \in Seeded : \A n \in 0..Depth : Walks(s)[n] \subseteq Within(k)
  BY <1>1, <1>4 DEF G
<1>6. Within(Depth) \subseteq Within(k)
  BY <1>5 DEF Within
<1>7. \A s \in Seeded : \A n \in 0..k : Walks(s)[n] \subseteq Within(Depth)
  BY <1>1, WithinFacts
<1>8. Within(k) \subseteq Within(Depth)
  BY <1>7 DEF Within
<1> QED
  BY <1>6, <1>8

-----------------------------------------------------------------------------
(* A walk is the only one of its length from its seed.                     *)
LEMMA WalkIsOne ==
  ASSUME NEW s, NEW m \in Nat, NEW v, NEW w, IsWalk(v, s, m), IsWalk(w, s, m)
  PROVE  v = w
<1>1. /\ v = [n \in 0..m |-> IF n = 0 THEN {s} ELSE UNION {Step(i, n) : i \in v[n - 1]}]
      /\ w = [n \in 0..m |-> IF n = 0 THEN {s} ELSE UNION {Step(i, n) : i \in w[n - 1]}]
  BY DEF IsWalk
<1>2. \A n \in 0..m : v[n] = IF n = 0 THEN {s} ELSE UNION {Step(i, n) : i \in v[n - 1]}
  BY <1>1, Zenon
<1>3. \A n \in 0..m : w[n] = IF n = 0 THEN {s} ELSE UNION {Step(i, n) : i \in w[n - 1]}
  BY <1>1, Zenon
<1> DEFINE G == {n \in Nat : n <= m => v[n] = w[n]}
<1>4. 0 \in G
  <2>1. 0 \in 0..m
    OBVIOUS
  <2>2. v[0] = {s} /\ w[0] = {s}
    BY <1>2, <1>3, <2>1, Zenon
  <2> QED
    BY <2>2
<1>5. ASSUME NEW n \in Nat, n \in G PROVE n + 1 \in G
  <2> SUFFICES ASSUME n + 1 <= m PROVE v[n + 1] = w[n + 1]
    OBVIOUS
  <2>1. n + 1 \in 0..m /\ n + 1 # 0 /\ (n + 1) - 1 = n /\ n <= m
    OBVIOUS
  <2>2. v[n + 1] = UNION {Step(i, n + 1) : i \in v[(n + 1) - 1]} /\ w[n + 1] = UNION {Step(i, n + 1) : i \in w[(n + 1) - 1]}
    BY <1>2, <1>3, <2>1, Zenon
  <2>3. v[n] = w[n]
    BY <1>5, <2>1
  <2> QED
    BY <2>1, <2>2, <2>3
<1> HIDE DEF G
<1>6. \A n \in Nat : n \in G
  BY <1>4, <1>5, Induction
<1>7. \A n \in 0..m : v[n] = w[n]
  BY <1>6 DEF G
<1>8. v = [n \in 0..m |-> v[n]] /\ w = [n \in 0..m |-> w[n]]
  <2>1. DOMAIN v = 0..m /\ DOMAIN w = 0..m
    BY <1>1, Zenon
  <2>2. v = [n \in DOMAIN v |-> v[n]] /\ w = [n \in DOMAIN w |-> w[n]]
    <3>1. \A a, b, S : a = [n \in S |-> b[n]] => a = [n \in DOMAIN a |-> a[n]]
      OBVIOUS
    <3> DEFINE f == [n \in 0..m |-> IF n = 0 THEN {s} ELSE UNION {Step(i, n) : i \in v[n - 1]}]
               g == [n \in 0..m |-> IF n = 0 THEN {s} ELSE UNION {Step(i, n) : i \in w[n - 1]}]
    <3>2. f = [n \in DOMAIN f |-> f[n]] /\ g = [n \in DOMAIN g |-> g[n]]
      OBVIOUS
    <3>3. v = f /\ w = g
      BY <1>1
    <3> HIDE DEF f, g
    <3> QED
      BY <3>2, <3>3
  <2> QED
    BY <2>1, <2>2
<1> QED
  BY <1>7, <1>8

-----------------------------------------------------------------------------
(* No step after the first changes the repo or the arguments, ...          *)
LEMMA SameQuestion ==
  ASSUME repo' = repo, asked' = asked
  PROVE  /\ Depth' = Depth /\ Limit' = Limit /\ Seeds' = Seeds /\ Seeded' = Seeded
         /\ Valid' = Valid /\ Unfiltered' = Unfiltered
         /\ \A i : Located(i)' = Located(i)
         /\ \A i, kind, limit : Edges(i, kind, limit)' = Edges(i, kind, limit)
         /\ \A n : Kind(n)' = Kind(n)
         /\ \A i, n : Step(i, n)' = Step(i, n)
<1>1. Depth' = Depth /\ Limit' = Limit /\ Seeds' = Seeds /\ Seeded' = Seeded
  BY DEF Depth, Limit, Seeds, Seeded
<1>2. Valid' = Valid
  BY <1>1 DEF Valid
<1>3. \A i : Located(i)' = Located(i)
  BY DEF Located
<1>4. \A i, kind, limit : Edges(i, kind, limit)' = Edges(i, kind, limit)
  BY DEF Edges
<1>5. \A n : Kind(n)' = Kind(n)
  BY DEF Kind
<1>6. \A i, n : Step(i, n)' = Step(i, n)
  BY <1>3, <1>4, <1>5 DEF Step
<1>7. Unfiltered' = Unfiltered
  BY DEF Unfiltered
<1> QED
  BY <1>1, <1>2, <1>3, <1>4, <1>5, <1>6, <1>7

(* ... and with them the walks stay what they are.                         *)
LEMMA SameWalks ==
  ASSUME QueryGraphAssumption, Ready, repo' = repo, asked' = asked
  PROVE  /\ Ready' /\ Simple' = Simple
         /\ \A s : Walks(s)' = Walks(s)
         /\ \A k : Within(k)' = Within(k)
         /\ \A s, d : Score(s, d)' = Score(s, d)
         /\ \A q, k : NodesAt(q, k)' = NodesAt(q, k)
<1> USE SameQuestion
<1>1. ASSUME NEW s PROVE Walks(s)' = Walks(s)
  <2>1. Depth \in Nat
    BY Arguments
  <2>2. PICK v : v = Walks(s)'
    OBVIOUS
  <2>3. \A w, m : IsWalk(w, s, m)' <=> IsWalk(w, s, m)
    <3> SUFFICES ASSUME NEW w, NEW m PROVE IsWalk(w, s, m)' <=> IsWalk(w, s, m)
      OBVIOUS
    <3>1. [n \in 0..m |-> IF n = 0 THEN {s} ELSE UNION {Step(i, n)' : i \in w[n - 1]}]
            = [n \in 0..m |-> IF n = 0 THEN {s} ELSE UNION {Step(i, n) : i \in w[n - 1]}]
      <4>1. \A n : UNION {Step(i, n)' : i \in w[n - 1]} = UNION {Step(i, n) : i \in w[n - 1]}
        OBVIOUS
      <4> QED
        BY <4>1
    <3> QED
      BY <3>1 DEF IsWalk
  <2>4. \E w : IsWalk(w, s, Depth)'
    <3>1. PICK w : IsWalk(w, s, Depth)
      BY <2>1, WalkIsThere
    <3> QED
      BY <2>3, <3>1
  <2>5. v = CHOOSE w : IsWalk(w, s, Depth)'
    BY <2>2, Zenon DEF Walks, IsWalk
  <2>6. IsWalk(v, s, Depth)'
    BY <2>4, <2>5, Zenon
  <2>7. IsWalk(v, s, Depth)
    BY <2>3, <2>6
  <2>8. IsWalk(Walks(s), s, Depth)
    BY WalksFacts
  <2> QED
    BY <2>1, <2>2, <2>7, <2>8, WalkIsOne
<1>2. \A k : Within(k)' = Within(k)
  BY <1>1 DEF Within
<1>3. ASSUME NEW s, NEW d PROVE Score(s, d)' = Score(s, d)
  <2>1. {asked'.weights[n] : n \in {n \in DOMAIN asked'.seeds : asked'.seeds[n] = s}}
          = {asked.weights[n] : n \in {n \in DOMAIN asked.seeds : asked.seeds[n] = s}}
    OBVIOUS
  <2>2. Weight(s)' = Weight(s)
    BY <2>1, Zenon DEF Weight
  <2> QED
    BY <2>2 DEF Score
<1>4. \A q, k : NodesAt(q, k)' = NodesAt(q, k)
  BY <1>1 DEF NodesAt
<1>5. Ready'
  BY DEF Ready
<1>6. Simple' = Simple
  <2>1. Ends' = Ends
    BY <1>1 DEF Ends, Seeded
  <2>2. Roomy(Ends)' = Roomy(Ends)
    BY <2>1 DEF Roomy
  <2> QED
    BY <2>2 DEF Simple, SimpleWalk
<1> QED
  BY <1>1, <1>2, <1>3, <1>4, <1>5, <1>6

-----------------------------------------------------------------------------
(* The first state, ...                                                    *)
LEMMA EmptyFacts == IsSeq(<<>>) /\ ToSet(<<>>) = {} /\ DOMAIN <<>> = {} /\ Len(<<>>) = 0
<1>1. DOMAIN <<>> = {} /\ Len(<<>>) = 0
  OBVIOUS
<1> QED
  BY <1>1, NothingSeq DEF ToSet

LEMMA InitInv == QueryGraphAssumption /\ Init => Inv
BY DEF Init, Inv

(* ... the one with the seeds in the frontier, ...                         *)
LEMMA StartInv == QueryGraphAssumption /\ Inv /\ Start => Inv'
<1> SUFFICES ASSUME QueryGraphAssumption, Inv, Start PROVE Inv'
  OBVIOUS
<1>1. repo' = repo /\ asked' = asked /\ pc = "ask" /\ bfs = Fresh /\ repo \in Repos /\ asked \in Questions
  BY DEF Start, Inv
<1>2. CASE ~(Valid /\ \A s \in ToSet(Seeds) : Located(s))
  <2>1. pc' = "refused" /\ bfs' = bfs
    BY <1>2 DEF Start
  <2> QED
    BY <1>1, <2>1 DEF Inv, Fresh
<1>3. CASE Valid /\ \A s \in ToSet(Seeds) : Located(s)
  <2> DEFINE first == Each(Seeds, LAMBDA s : Node(s, s))
  <2>1. Ready
    BY <1>1, <1>3 DEF Ready, Seeded
  <2>2. /\ pc' = "scan" /\ bfs'.step = 0 /\ bfs'.frontier = first /\ bfs'.at = 1 /\ bfs'.hits = <<>>
        /\ bfs'.targets = {} /\ bfs'.next = <<>> /\ bfs'.seen = Seeded /\ bfs'.rows = <<>>
        /\ bfs'.truncated = FALSE
        /\ bfs' = [step |-> bfs'.step, frontier |-> bfs'.frontier, at |-> bfs'.at, hits |-> bfs'.hits,
                   targets |-> bfs'.targets, next |-> bfs'.next, seen |-> bfs'.seen, rows |-> bfs'.rows,
                   visited |-> bfs'.visited, truncated |-> bfs'.truncated, scores |-> bfs'.scores]
    <3>1. pc' = "scan" /\ bfs' = [Fresh EXCEPT !.frontier = first, !.seen = ToSet(Seeds),
                                              !.scores = [s \in ToSet(Seeds) |-> 0]]
      BY <1>3, Zenon DEF Start
    <3> HIDE DEF first
    <3> QED
      BY <3>1 DEF Fresh, Seeded
  <2>3. IsSeq(first) /\ DOMAIN first = DOMAIN Seeds /\ ToSet(first) = {Node(s, s) : s \in Seeded}
    <3>1. first = [n \in DOMAIN Seeds |-> Node(Seeds[n], Seeds[n])]
      BY Zenon DEF Each
    <3> HIDE DEF first
    <3>2. first = [n \in DOMAIN Seeds |-> first[n]] /\ \A n \in DOMAIN Seeds : first[n] = Node(Seeds[n], Seeds[n])
      BY <3>1
    <3>3. IsSeq(first) /\ DOMAIN first = DOMAIN Seeds /\ ToSet(first) = {first[n] : n \in DOMAIN Seeds}
      BY <2>1, <3>2, SeedsSeq, EachIs
    <3>4. Seeded = {Seeds[n] : n \in DOMAIN Seeds}
      BY DEF Seeded, ToSet
    <3> QED
      BY <3>2, <3>3, <3>4
  <2> HIDE DEF first
  <2>4. /\ Ready' /\ Simple' = Simple /\ Seeded' = Seeded /\ Depth' = Depth /\ Depth \in 1..5
        /\ \A s : Walks(s)' = Walks(s) /\ Walks(s)[0] = {s}
        /\ \A i : Located(i)' = Located(i)
        /\ \A k : Within(k)' = Within(k)
    BY <1>1, <2>1, SameQuestion, SameWalks, Arguments, WalksFacts
  <2>5. Shape'
    BY <2>2, <2>4 DEF Shape
  <2>6. NodesAt(bfs.frontier, bfs.step)'
    BY <2>1, <2>2, <2>3, <2>4 DEF NodesAt, Node, Ready
  <2>7. NodesAt(bfs.next, bfs.step + 1)'
    BY <2>2, EmptyFacts DEF NodesAt
  <2>8. HitsOK' /\ RowsOK' /\ Nearest'
    BY <2>2, <2>4, EmptyFacts DEF HitsOK, RowsOK, Nearest
  <2>9. NoneMissing'
    BY <2>2, <2>4 DEF NoneMissing
  <2>10. Reached'
    <3>1. bfs'.seen = Within(0)
      BY <2>1, <2>2, WithinFacts
    <3>2. Scanned'
      <4>1. \A n \in DOMAIN first : ~(n < 1)
        <5>1. Seeds \in Seq(ToSet(Seeds))
          BY <2>1, SeedsSeq DEF IsSeq
        <5>2. \A n \in DOMAIN Seeds : ~(n < 1)
          BY <5>1
        <5> QED
          BY <2>3, <5>2
      <4> QED
        BY <2>2, <4>1 DEF Scanned
    <3>3. FrontierFull'
      <4>1. ASSUME NEW s \in Seeded, NEW i \in Walks(s)[0] PROVE \E x \in ToSet(first) : x.id = i
        <5>1. i = s /\ Node(s, s) \in ToSet(first) /\ Node(s, s).id = s
          BY <2>3, <2>4 DEF Node
        <5> QED
          BY <5>1
      <4> QED
        BY <2>2, <2>4, <4>1 DEF FrontierFull
    <3> QED
      BY <2>2, <2>4, <3>1, <3>2, <3>3 DEF Reached
  <2> QED
    BY <2>2, <2>4, <2>5, <2>6, <2>7, <2>8, <2>9, <2>10 DEF Inv, Ready
<1> QED
  BY <1>2, <1>3

(* ... what holds after it, ...                                            *)
LEMMA Running ==
  ASSUME QueryGraphAssumption, Inv, pc \in {"scan", "emit", "done"}, repo' = repo, asked' = asked
  PROVE  /\ Ready /\ Shape /\ RowsOK /\ NoneMissing /\ repo \in Repos /\ asked \in Questions
         /\ pc # "done" => NodesAt(bfs.frontier, bfs.step) /\ NodesAt(bfs.next, bfs.step + 1) /\ HitsOK
         /\ pc = "scan" => bfs.targets = {} /\ bfs.next = <<>>
         /\ Simple => Reached /\ (Len(Seeds) = 1 => Nearest)
         /\ Ready' /\ Simple' = Simple /\ Seeds' = Seeds /\ Seeded' = Seeded /\ Depth' = Depth /\ Depth \in 1..5
         /\ Unfiltered' = Unfiltered
         /\ \A s : Walks(s)' = Walks(s)
         /\ \A i : Located(i)' = Located(i)
         /\ \A k : Within(k)' = Within(k)
         /\ \A s, d : Score(s, d)' = Score(s, d)
         /\ \A q, k : NodesAt(q, k)' = NodesAt(q, k)
         /\ \A n : Kind(n)' = Kind(n)
         /\ Limit' = Limit
         /\ \A i, kind, limit : Edges(i, kind, limit)' = Edges(i, kind, limit)
<1>1. Ready
  BY DEF Inv, Ready
<1>2. /\ Shape /\ RowsOK /\ NoneMissing /\ repo \in Repos /\ asked \in Questions
      /\ pc # "done" => NodesAt(bfs.frontier, bfs.step) /\ NodesAt(bfs.next, bfs.step + 1) /\ HitsOK
      /\ pc = "scan" => bfs.targets = {} /\ bfs.next = <<>>
      /\ Simple => Reached /\ (Len(Seeds) = 1 => Nearest)
  BY DEF Inv
<1> QED
  BY <1>1, <1>2, SameQuestion, SameWalks, Arguments

(* ... when a node is scanned, ...                                         *)
LEMMA ScanInv == QueryGraphAssumption /\ Inv /\ Scan /\ ~(bfs.visited >= MaxVisited) => Inv'
<1> SUFFICES ASSUME QueryGraphAssumption, Inv, Scan, ~(bfs.visited >= MaxVisited) PROVE Inv'
  OBVIOUS
<1> DEFINE x == bfs.frontier[bfs.at]
<1>1. /\ repo' = repo /\ asked' = asked /\ pc = "scan" /\ pc' = "scan" /\ bfs.at <= Len(bfs.frontier)
      /\ bfs' = [bfs EXCEPT !.visited = @ + 1, !.at = @ + 1, !.hits = @ \o Hits(x)]
  BY DEF Scan
<1>2. /\ Ready /\ Shape /\ RowsOK /\ NoneMissing /\ repo \in Repos /\ asked \in Questions
      /\ NodesAt(bfs.frontier, bfs.step) /\ NodesAt(bfs.next, bfs.step + 1) /\ HitsOK
      /\ bfs.targets = {} /\ bfs.next = <<>>
      /\ Simple => Reached /\ (Len(Seeds) = 1 => Nearest)
      /\ Ready' /\ Simple' = Simple /\ Seeds' = Seeds /\ Seeded' = Seeded /\ Depth' = Depth /\ Depth \in 1..5
  BY <1>1, Running
<1>3. /\ Unfiltered' = Unfiltered
      /\ \A s : Walks(s)' = Walks(s)
      /\ \A i : Located(i)' = Located(i)
      /\ \A k : Within(k)' = Within(k)
      /\ \A s, d : Score(s, d)' = Score(s, d)
      /\ \A q, k : NodesAt(q, k)' = NodesAt(q, k)
      /\ \A n : Kind(n)' = Kind(n)
      /\ \A i, kind, limit : Edges(i, kind, limit)' = Edges(i, kind, limit)
      /\ Limit' = Limit
  BY <1>1, Running
<1>4. /\ bfs'.step = bfs.step /\ bfs'.frontier = bfs.frontier /\ bfs'.at = bfs.at + 1
      /\ bfs'.hits = bfs.hits \o Hits(x) /\ bfs'.targets = bfs.targets /\ bfs'.next = bfs.next
      /\ bfs'.seen = bfs.seen /\ bfs'.rows = bfs.rows /\ bfs'.truncated = bfs.truncated
      /\ Shape'
  <2> DEFINE hits == bfs.hits \o Hits(x)
             more == bfs.visited + 1
  <2>1. bfs' = [bfs EXCEPT !.visited = more, !.at = bfs.at + 1, !.hits = hits]
    BY <1>1
  <2> HIDE DEF x, hits, more
  <2>2. /\ bfs'.step = bfs.step /\ bfs'.frontier = bfs.frontier /\ bfs'.at = bfs.at + 1
        /\ bfs'.hits = hits /\ bfs'.targets = bfs.targets /\ bfs'.next = bfs.next
        /\ bfs'.seen = bfs.seen /\ bfs'.rows = bfs.rows /\ bfs'.truncated = bfs.truncated
        /\ bfs' = [step |-> bfs'.step, frontier |-> bfs'.frontier, at |-> bfs'.at, hits |-> bfs'.hits,
                   targets |-> bfs'.targets, next |-> bfs'.next, seen |-> bfs'.seen, rows |-> bfs'.rows,
                   visited |-> bfs'.visited, truncated |-> bfs'.truncated, scores |-> bfs'.scores]
    BY <1>2, <2>1 DEF Shape
  <2>3. bfs.at + 1 \in Nat \ {0} /\ bfs.step \in 0..(Depth - 1)
    BY <1>2 DEF Shape
  <2> QED
    BY <1>2, <2>2, <2>3 DEF Shape, hits
<1>5. x \in ToSet(bfs.frontier) /\ bfs.step \in 0..(Depth - 1) /\ bfs.at \in Nat \ {0}
  <2>1. bfs.frontier \in Seq(ToSet(bfs.frontier)) /\ bfs.at \in Nat \ {0} /\ bfs.step \in 0..(Depth - 1)
    BY <1>2 DEF NodesAt, IsSeq, Shape
  <2>2. bfs.at \in 1..Len(bfs.frontier)
    BY <1>1, <2>1
  <2> QED
    BY <2>1, <2>2
<1>6. x.seed \in Seeded /\ x.id \in Walks(x.seed)[bfs.step] /\ Located(x.id)
  <2> HIDE DEF x
  <2> QED
    BY <1>2, <1>5 DEF NodesAt
<1>7. /\ IsSeq(Hits(x)) /\ \A h \in ToSet(Hits(x)) : IsHit(h)
      /\ {h.target : h \in ToSet(Hits(x))} = {e.target : e \in ToSet(Edges(x.id, Via, Limit))}
  <2> HIDE DEF x
  <2> QED
    BY <1>2, <1>5, <1>6, HitsFacts
<1>8. IsSeq(bfs'.hits) /\ ToSet(bfs'.hits) = ToSet(bfs.hits) \cup ToSet(Hits(x))
  <2>1. IsSeq(bfs.hits)
    BY <1>2 DEF HitsOK
  <2> HIDE DEF x
  <2> QED
    BY <1>4, <1>7, <2>1, ConcatIs
<1>9. HitsOK'
  <2>1. \A h : IsHit(h)' = IsHit(h)
    BY <1>2, <1>3, <1>4 DEF IsHit
  <2> HIDE DEF x
  <2> QED
    BY <1>2, <1>4, <1>7, <1>8, <2>1 DEF HitsOK
<1>10. RowsOK' /\ NoneMissing'
  <2>1. \A row : IsRow(row)' = IsRow(row)
    BY <1>2, <1>3, <1>4 DEF IsRow
  <2>2. Targets' = Targets
    BY <1>4 DEF Targets
  <2> QED
    BY <1>2, <1>3, <1>4, <2>1, <2>2 DEF RowsOK, NoneMissing
<1>11. Nearest' = Nearest
  BY <1>2, <1>3, <1>4 DEF Nearest
<1>12. ASSUME Simple PROVE Reached'
  <2>1. bfs.seen = Within(bfs.step) /\ FrontierFull /\ Scanned
    BY <1>1, <1>2, <1>12 DEF Reached
  <2>2. FrontierFull'
    BY <1>2, <1>3, <1>4, <2>1 DEF FrontierFull
  <2>3. HitTargets' = HitTargets \cup {e.target : e \in ToSet(Edges(x.id, Via, Limit))}
    <3> HIDE DEF x
    <3>1. HitTargets' = HitTargets \cup {h.target : h \in ToSet(Hits(x))}
      BY <1>8 DEF HitTargets
    <3> QED
      BY <1>7, <3>1
  <2>4. Via' = Via
    BY <1>1, <1>4 DEF Via
  <2>5. Scanned'
    <3> SUFFICES ASSUME NEW n \in DOMAIN bfs.frontier, n < bfs.at + 1, NEW e \in ToSet(Edges(bfs.frontier[n].id, Via, Limit))
                 PROVE  e.target \in HitTargets'
      BY <1>2, <1>3, <1>4, <2>4 DEF Scanned
    <3>1. bfs.frontier \in Seq(ToSet(bfs.frontier))
      BY <1>2 DEF NodesAt, IsSeq
    <3>2. n < bfs.at \/ n = bfs.at
      BY <1>5, <3>1
    <3>3. CASE n < bfs.at
      BY <2>1, <2>3, <3>3 DEF Scanned
    <3>4. CASE n = bfs.at
      BY <2>3, <3>4
    <3> QED
      BY <3>2, <3>3, <3>4
  <2> QED
    BY <1>1, <1>3, <1>4, <2>1, <2>2, <2>5 DEF Reached
<1> HIDE DEF x
<1> QED
  BY <1>1, <1>2, <1>3, <1>4, <1>9, <1>10, <1>11, <1>12 DEF Inv, Ready

(* ... when the walk is cut short, ...                                     *)
LEMMA TruncateInv ==
  QueryGraphAssumption /\ Inv /\ pc = "scan" /\ Truncate /\ repo' = repo /\ asked' = asked => Inv'
<1> SUFFICES ASSUME QueryGraphAssumption, Inv, pc = "scan", Truncate, repo' = repo, asked' = asked PROVE Inv'
  OBVIOUS
<1>1. /\ Ready /\ Shape /\ RowsOK /\ NoneMissing /\ repo \in Repos /\ asked \in Questions
      /\ Simple => Reached /\ (Len(Seeds) = 1 => Nearest)
      /\ Ready' /\ Simple' = Simple /\ Seeds' = Seeds /\ Seeded' = Seeded /\ Depth' = Depth /\ Depth \in 1..5
      /\ \A s : Walks(s)' = Walks(s)
      /\ \A s, d : Score(s, d)' = Score(s, d)
  BY Running
<1>2. /\ pc' = "done" /\ bfs'.step = bfs.step /\ bfs'.seen = bfs.seen /\ bfs'.rows = bfs.rows
      /\ bfs'.truncated = TRUE /\ Shape'
  BY <1>1 DEF Truncate, Shape
<1>3. RowsOK'
  <2>1. \A row : IsRow(row)' = IsRow(row)
    BY <1>1, <1>2 DEF IsRow
  <2> QED
    BY <1>1, <1>2, <2>1 DEF RowsOK
<1>4. NoneMissing' /\ Reached'
  BY <1>2 DEF NoneMissing, Reached
<1>5. Nearest' = Nearest
  BY <1>1, <1>2 DEF Nearest
<1> QED
  BY <1>1, <1>2, <1>3, <1>4, <1>5 DEF Inv, Ready

(* ... when all nodes are scanned, so that all is hit that is one step     *)
(* further, ...                                                            *)
LEMMA OneFurther ==
  ASSUME QueryGraphAssumption, Ready, Simple, Shape, HitsOK, NodesAt(bfs.frontier, bfs.step),
         FrontierFull, Scanned, bfs.at > Len(bfs.frontier)
  PROVE  Within(bfs.step + 1) = Within(bfs.step) \cup HitTargets
<1> DEFINE k == bfs.step
<1>1. k \in 0..(Depth - 1) /\ Depth \in 1..5 /\ k \in Nat /\ k + 1 \in Nat \ {0} /\ bfs.at \in Nat \ {0}
  BY Arguments DEF Shape
<1>2. Within(k + 1) = Within(k) \cup UNION {Walks(s)[k + 1] : s \in Seeded}
  <2> HIDE DEF k
  <2> QED
    BY <1>1, WithinFacts
<1>3. HitTargets \subseteq UNION {Walks(s)[k + 1] : s \in Seeded}
  BY DEF HitTargets, HitsOK, IsHit
<1>4. ASSUME NEW s \in Seeded, NEW t \in Walks(s)[k + 1] PROVE t \in Within(k) \cup HitTargets
  <2>1. PICK i \in Walks(s)[k] : t \in Step(i, k + 1)
    <3>1. Walks(s)[k + 1] = UNION {Step(i, k + 1) : i \in Walks(s)[k]}
      <4> HIDE DEF k
      <4> QED
        BY <1>1, WalksFacts
    <3> HIDE DEF k
    <3> QED
      BY <1>4, <3>1
  <2>2. Located(i)
    BY <2>1 DEF Step
  <2>3. i \in Within(k - 1) \/ \E x \in ToSet(bfs.frontier) : x.id = i
    BY <2>1, <2>2 DEF FrontierFull
  <2>4. CASE i \in Within(k - 1)
    <3>1. k # 0
      <4>1. k = 0 => k - 1 = -1
        OBVIOUS
      <4> HIDE DEF k
      <4> QED
        BY <2>4, <4>1, WithinFacts
    <3>2. k - 1 \in 0..(Depth - 1) /\ (k - 1) + 1 = k
      <4> HIDE DEF k
      <4> QED
        BY <1>1, <3>1
    <3>3. Step(i, k + 1) \subseteq Within((k - 1) + 1)
      <4> HIDE DEF k
      <4> QED
        BY <1>1, <2>4, <3>2, StepWithin
    <3> HIDE DEF k
    <3> QED
      BY <2>1, <3>2, <3>3
  <2>5. CASE \E x \in ToSet(bfs.frontier) : x.id = i
    <3>1. PICK x \in ToSet(bfs.frontier) : x.id = i
      BY <2>5
    <3>2. PICK n \in DOMAIN bfs.frontier : x = bfs.frontier[n]
      BY DEF ToSet
    <3>3. n < bfs.at
      <4>1. bfs.frontier \in Seq(ToSet(bfs.frontier))
        BY DEF NodesAt, IsSeq
      <4>2. n <= Len(bfs.frontier) /\ n \in Nat /\ Len(bfs.frontier) \in Nat
        BY <4>1
      <4> QED
        BY <1>1, <4>2
    <3>4. \A e \in ToSet(Edges(i, Via, Limit)) : e.target \in HitTargets
      BY <3>1, <3>2, <3>3 DEF Scanned
    <3>5. Via = Kind(k + 1)
      BY <1>1, ViaIs
    <3>6. {e.target : e \in ToSet(Edges(i, Kind(k + 1), Limit))} = Step(i, k + 1)
      <4>1. x.seed \in Seeded /\ i \in Walks(x.seed)[k]
        BY <3>1 DEF NodesAt
      <4> HIDE DEF k
      <4> QED
        BY <1>1, <2>2, <4>1, SimpleScan
    <3> HIDE DEF k
    <3> QED
      BY <2>1, <3>4, <3>5, <3>6
  <2> QED
    BY <2>3, <2>4, <2>5
<1> HIDE DEF k
<1> QED
  BY <1>2, <1>3, <1>4 DEF k

LEMMA GatherInv == QueryGraphAssumption /\ Inv /\ Gather => Inv'
<1> SUFFICES ASSUME QueryGraphAssumption, Inv, Gather PROVE Inv'
  OBVIOUS
<1>1. repo' = repo /\ asked' = asked /\ pc = "scan" /\ bfs.at > Len(bfs.frontier)
  BY DEF Gather
<1>2. /\ Ready /\ Shape /\ RowsOK /\ NoneMissing /\ repo \in Repos /\ asked \in Questions
      /\ NodesAt(bfs.frontier, bfs.step) /\ NodesAt(bfs.next, bfs.step + 1) /\ HitsOK
      /\ Simple => Reached /\ (Len(Seeds) = 1 => Nearest)
      /\ Ready' /\ Simple' = Simple /\ Seeds' = Seeds /\ Seeded' = Seeded /\ Depth' = Depth /\ Depth \in 1..5
  BY <1>1, Running
<1>3. /\ Unfiltered' = Unfiltered
      /\ \A s : Walks(s)' = Walks(s)
      /\ \A i : Located(i)' = Located(i)
      /\ \A k : Within(k)' = Within(k)
      /\ \A s, d : Score(s, d)' = Score(s, d)
      /\ \A q, k : NodesAt(q, k)' = NodesAt(q, k)
  BY <1>1, Running
<1>4. ASSUME bfs'.step = bfs.step, bfs'.seen = bfs.seen, bfs'.rows = bfs.rows, bfs'.truncated = bfs.truncated
      PROVE  RowsOK' /\ NoneMissing' /\ Nearest' = Nearest
  <2>1. \A row : IsRow(row)' = IsRow(row)
    BY <1>2, <1>3, <1>4 DEF IsRow
  <2>2. Targets' = Targets
    BY <1>4 DEF Targets
  <2>3. RowsOK' /\ NoneMissing'
    BY <1>2, <1>3, <1>4, <2>1, <2>2 DEF RowsOK, NoneMissing
  <2>4. Nearest' = Nearest
    BY <1>2, <1>3, <1>4 DEF Nearest
  <2> QED
    BY <2>3, <2>4
<1>5. CASE bfs.truncated
  <2>1. pc' = "done" /\ bfs' = bfs
    BY <1>5 DEF Gather
  <2>2. Shape' /\ bfs'.truncated
    BY <1>2, <1>5, <2>1 DEF Shape
  <2>3. Reached'
    BY <2>1, <2>2 DEF Reached
  <2> QED
    BY <1>2, <1>4, <2>1, <2>2, <2>3 DEF Inv, Ready
<1>6. CASE ~bfs.truncated
  <2> DEFINE new == {h.target : h \in ToSet(bfs.hits)}
             scores == [s \in DOMAIN bfs.scores |-> SeedScore(s)]
  <2>1. pc' = "emit" /\ bfs' = [bfs EXCEPT !.targets = new, !.scores = scores]
    BY <1>6, Zenon DEF Gather
  <2>2. new = HitTargets
    BY DEF HitTargets
  <2> HIDE DEF new, scores
  <2>3. /\ bfs'.step = bfs.step /\ bfs'.frontier = bfs.frontier /\ bfs'.at = bfs.at
        /\ bfs'.hits = bfs.hits /\ bfs'.targets = new /\ bfs'.next = bfs.next
        /\ bfs'.seen = bfs.seen /\ bfs'.rows = bfs.rows /\ bfs'.truncated = bfs.truncated
        /\ bfs' = [step |-> bfs'.step, frontier |-> bfs'.frontier, at |-> bfs'.at, hits |-> bfs'.hits,
                   targets |-> bfs'.targets, next |-> bfs'.next, seen |-> bfs'.seen, rows |-> bfs'.rows,
                   visited |-> bfs'.visited, truncated |-> bfs'.truncated, scores |-> bfs'.scores]
    BY <1>2, <2>1 DEF Shape
  <2>4. Shape'
    BY <1>2, <2>3 DEF Shape
  <2>5. HitTargets' = HitTargets
    BY <2>3 DEF HitTargets
  <2>6. HitsOK'
    <3>1. \A h : IsHit(h)' = IsHit(h)
      BY <1>2, <1>3, <2>3 DEF IsHit
    <3> QED
      BY <1>2, <2>2, <2>3, <2>5, <3>1 DEF HitsOK
  <2>7. ASSUME Simple PROVE Reached'
    <3>1. bfs.seen = Within(bfs.step) /\ FrontierFull /\ Scanned
      BY <1>1, <1>2, <2>7 DEF Reached
    <3>2. Within(bfs.step + 1) = Within(bfs.step) \cup HitTargets
      BY <1>1, <1>2, <2>7, <3>1, OneFurther
    <3>3. HitTargets' \ bfs'.targets = {}
      BY <2>2, <2>3, <2>5
    <3> QED
      BY <1>3, <2>1, <2>3, <2>5, <3>1, <3>2, <3>3 DEF Reached, NextFull
  <2> QED
    BY <1>2, <1>3, <1>4, <2>1, <2>3, <2>4, <2>6, <2>7 DEF Inv, Ready
<1> QED
  BY <1>5, <1>6

(* ... when the last target is expanded and the next step begins, or none. *)
LEMMA EndStepInv == QueryGraphAssumption /\ Inv /\ EndStep => Inv'
<1> SUFFICES ASSUME QueryGraphAssumption, Inv, EndStep PROVE Inv'
  OBVIOUS
<1> DEFINE k == bfs.step
<1>1. repo' = repo /\ asked' = asked /\ pc = "emit" /\ bfs.targets = {}
  BY DEF EndStep
<1>2. /\ Ready /\ Shape /\ RowsOK /\ NoneMissing /\ repo \in Repos /\ asked \in Questions
      /\ NodesAt(bfs.frontier, k) /\ NodesAt(bfs.next, k + 1) /\ HitsOK
      /\ Simple => Reached /\ (Len(Seeds) = 1 => Nearest)
      /\ Ready' /\ Simple' = Simple /\ Seeds' = Seeds /\ Seeded' = Seeded /\ Depth' = Depth /\ Depth \in 1..5
  BY <1>1, Running
<1>3. /\ Unfiltered' = Unfiltered
      /\ \A s : Walks(s)' = Walks(s)
      /\ \A i : Located(i)' = Located(i)
      /\ \A n : Within(n)' = Within(n)
      /\ \A s, d : Score(s, d)' = Score(s, d)
      /\ \A q, n : NodesAt(q, n)' = NodesAt(q, n)
  BY <1>1, Running
<1>4. k \in 0..(Depth - 1) /\ k \in Nat /\ k + 1 \in 0..Depth
  BY <1>2 DEF Shape
<1>5. Simple => /\ bfs.seen = Within(k) \cup HitTargets /\ Within(k + 1) = Within(k) \cup HitTargets
                /\ \A i \in HitTargets : Located(i) => i \in Within(k) \/ \E x \in ToSet(bfs.next) : x.id = i
  BY <1>1, <1>2 DEF Reached, NextFull
<1>6. CASE bfs.next = <<>> \/ LastStep
  <2>1. PICK late \in BOOLEAN : pc' = "done" /\ bfs' = [bfs EXCEPT !.truncated = bfs.truncated \/ late]
    BY <1>6 DEF EndStep
  <2> DEFINE cut == bfs.truncated \/ late
  <2>2. bfs' = [bfs EXCEPT !.truncated = cut]
    BY <2>1
  <2> HIDE DEF cut
  <2>3. /\ bfs'.step = k /\ bfs'.seen = bfs.seen /\ bfs'.rows = bfs.rows /\ bfs'.truncated = cut
        /\ bfs'.at = bfs.at
        /\ bfs' = [step |-> bfs'.step, frontier |-> bfs'.frontier, at |-> bfs'.at, hits |-> bfs'.hits,
                   targets |-> bfs'.targets, next |-> bfs'.next, seen |-> bfs'.seen, rows |-> bfs'.rows,
                   visited |-> bfs'.visited, truncated |-> bfs'.truncated, scores |-> bfs'.scores]
    BY <1>2, <2>2 DEF Shape
  <2>4. Shape'
    BY <1>2, <2>3 DEF Shape
  <2>5. RowsOK' /\ NoneMissing' /\ Nearest' = Nearest
    <3>1. \A row : IsRow(row)' = IsRow(row)
      BY <1>2, <1>3, <2>3 DEF IsRow
    <3>2. Targets' = Targets
      BY <2>3 DEF Targets
    <3>3. RowsOK'
      BY <1>2, <1>3, <2>3, <3>1 DEF RowsOK
    <3>4. NoneMissing'
      BY <1>2, <1>3, <2>3, <3>2 DEF NoneMissing, cut
    <3>5. Nearest' = Nearest
      BY <1>2, <1>3, <2>3 DEF Nearest
    <3> QED
      BY <3>3, <3>4, <3>5
  <2>6. ASSUME Simple PROVE bfs.seen = Within(Depth)
    <3>1. bfs.seen = Within(k + 1)
      BY <1>5, <2>6
    <3>2. CASE LastStep
      <4>1. k + 1 = Depth
        BY <3>2 DEF LastStep
      <4> QED
        BY <3>1, <4>1
    <3>3. CASE bfs.next = <<>>
      <4>1. \A x \in ToSet(bfs.next) : FALSE
        BY <3>3, EmptyFacts
      <4>2. ASSUME NEW i \in Within(k + 1) PROVE Step(i, 1) \subseteq Within(k + 1)
        <5>1. CASE ~Located(i)
          BY <5>1 DEF Step
        <5>2. CASE Located(i)
          <6>1. i \in Within(k)
            BY <1>5, <2>6, <4>1, <4>2, <5>2
          <6> HIDE DEF k
          <6> QED
            BY <1>2, <1>4, <2>6, <6>1, StepWithin
        <5> QED
          BY <5>1, <5>2
      <4>3. Within(Depth) = Within(k + 1)
        <5> HIDE DEF k
        <5> QED
          BY <1>2, <1>4, <2>6, <4>2, NoMore
      <4> QED
        BY <3>1, <4>3
    <3> QED
      BY <1>6, <3>2, <3>3
  <2>7. Simple => Reached'
    BY <1>2, <1>3, <2>1, <2>3, <2>6 DEF Reached
  <2> QED
    BY <1>2, <2>1, <2>4, <2>5, <2>7 DEF Inv, Ready
<1>7. CASE ~(bfs.next = <<>> \/ LastStep)
  <2>1. pc' = "scan" /\ bfs' = [bfs EXCEPT !.step = bfs.step + 1, !.frontier = bfs.next, !.at = 1,
                                         !.hits = <<>>, !.next = <<>>]
    BY <1>7 DEF EndStep
  <2>2. /\ bfs'.step = k + 1 /\ bfs'.frontier = bfs.next /\ bfs'.at = 1 /\ bfs'.hits = <<>>
        /\ bfs'.targets = {} /\ bfs'.next = <<>>
        /\ bfs'.seen = bfs.seen /\ bfs'.rows = bfs.rows /\ bfs'.truncated = bfs.truncated
        /\ bfs' = [step |-> bfs'.step, frontier |-> bfs'.frontier, at |-> bfs'.at, hits |-> bfs'.hits,
                   targets |-> bfs'.targets, next |-> bfs'.next, seen |-> bfs'.seen, rows |-> bfs'.rows,
                   visited |-> bfs'.visited, truncated |-> bfs'.truncated, scores |-> bfs'.scores]
    BY <1>1, <1>2, <2>1 DEF Shape
  <2>3. k + 1 \in 0..(Depth - 1) /\ 1..(k + 1) \subseteq 1..((k + 1) + 1)
    <3>1. k + 1 # Depth
      BY <1>7 DEF LastStep
    <3> HIDE DEF k
    <3> QED
      BY <1>2, <1>4, <3>1
  <2>4. Shape'
    BY <1>2, <2>2, <2>3 DEF Shape
  <2>5. HitsOK'
    BY <2>2, EmptyFacts DEF HitsOK
  <2>6. NodesAt(bfs.next, bfs.step + 1)' /\ NodesAt(bfs.frontier, bfs.step)'
    <3>1. NodesAt(bfs.frontier, bfs.step)'
      BY <1>2, <1>3, <2>2
    <3>2. NodesAt(bfs.next, bfs.step + 1)'
      BY <2>2, EmptyFacts DEF NodesAt
    <3> QED
      BY <3>1, <3>2
  <2>7. RowsOK' /\ NoneMissing' /\ Nearest' = Nearest
    <3>1. ASSUME NEW row, IsRow(row) PROVE IsRow(row)'
      BY <1>2, <1>3, <2>2, <2>3, <3>1 DEF IsRow
    <3>2. Targets' = Targets
      BY <2>2 DEF Targets
    <3>3. RowsOK'
      BY <1>2, <1>3, <2>2, <3>1 DEF RowsOK
    <3>4. NoneMissing'
      BY <1>2, <1>3, <2>2, <3>2 DEF NoneMissing
    <3>5. Nearest' = Nearest
      BY <1>2, <1>3, <2>2 DEF Nearest
    <3> QED
      BY <3>3, <3>4, <3>5
  <2>8. ASSUME Simple PROVE Reached'
    <3>1. bfs'.seen = Within(k + 1)
      BY <1>5, <2>2, <2>8
    <3>2. FrontierFull'
      <4>1. (k + 1) - 1 = k
        BY <1>4
      <4>2. ASSUME NEW s \in Seeded, NEW i \in Walks(s)[k + 1], Located(i)
            PROVE  i \in Within(k) \/ \E x \in ToSet(bfs.next) : x.id = i
        <5>1. i \in Within(k + 1)
          <6>1. k + 1 \in 0..(k + 1)
            BY <1>4
          <6> HIDE DEF k
          <6> QED
            BY <1>2, <1>4, <6>1, WithinFacts
        <5> HIDE DEF k
        <5> QED
          BY <1>5, <2>8, <4>2, <5>1
      <4> HIDE DEF k
      <4> QED
        BY <1>2, <1>3, <2>2, <4>1, <4>2 DEF FrontierFull
    <3>3. Scanned'
      <4>1. bfs.next \in Seq(ToSet(bfs.next))
        BY <1>2 DEF NodesAt, IsSeq
      <4>2. \A n \in DOMAIN bfs.next : ~(n < 1)
        BY <4>1
      <4> QED
        BY <2>2, <4>2 DEF Scanned
    <3> QED
      BY <1>3, <2>1, <2>2, <3>1, <3>2, <3>3 DEF Reached
  <2> QED
    BY <1>2, <2>1, <2>2, <2>4, <2>5, <2>6, <2>7, <2>8 DEF Inv, Ready
<1> QED
  BY <1>6, <1>7

-----------------------------------------------------------------------------
(* A hit of a row that there is improves it or leaves it.                  *)
LEMMA ImproveFacts ==
  ASSUME QueryGraphAssumption, Ready, Shape, NEW h, IsHit(h), NEW row, IsRow(row), row.target = h.target
  PROVE  /\ IsRow(Improve(h, row)) /\ Improve(h, row).target = row.target
         /\ Len(Seeds) = 1 => Improve(h, row) = row
<1>1. bfs.step \in 0..(Depth - 1) /\ Depth \in 1..5
  BY Arguments DEF Shape
<1>2. CASE ~Better(h, row)
  BY <1>2 DEF Improve
<1>3. CASE Better(h, row)
  <2> DEFINE new == [row EXCEPT !.depth = h.depth, !.score = h.score]
  <2>1. Improve(h, row) = new
    BY <1>3 DEF Improve
  <2>2. new = [target |-> row.target, depth |-> h.depth, score |-> h.score, via |-> row.via]
    <3>1. row = [target |-> row.target, depth |-> row.depth, score |-> row.score, via |-> row.via]
      BY DEF IsRow
    <3>2. PICK d : d = h.depth
      OBVIOUS
    <3>3. PICK x : x = h.score
      OBVIOUS
    <3>4. PICK y : y = [row EXCEPT !.depth = d, !.score = x]
      OBVIOUS
    <3>5. y = [target |-> row.target, depth |-> d, score |-> x, via |-> row.via]
      BY <3>1, <3>4
    <3> QED
      BY <3>2, <3>3, <3>4, <3>5
  <2>3. /\ new.target = row.target /\ new.depth = h.depth /\ new.score = h.score /\ new.via = row.via
    BY <2>2
  <2>4. IsRow(new)
    <3>1. new = [target |-> new.target, depth |-> new.depth, score |-> new.score, via |-> new.via]
      BY <2>2, <2>3
    <3>2. row.target \in bfs.seen \ Seeded
      BY DEF IsRow
    <3>3. h.depth = bfs.step + 1 /\ h.seed \in Seeded /\ h.score = Score(h.seed, h.depth)
          /\ row.target \in Walks(h.seed)[h.depth]
      BY DEF IsHit
    <3>4. h.depth \in 1..(bfs.step + 1)
      BY <1>1, <3>3
    <3> HIDE DEF new
    <3> QED
      BY <2>3, <3>1, <3>2, <3>3, <3>4 DEF IsRow
  <2>5. Len(Seeds) # 1
    <3> SUFFICES ASSUME Len(Seeds) = 1 PROVE FALSE
      OBVIOUS
    <3>1. PICK s \in Seeded : row.score = Score(s, row.depth)
      BY DEF IsRow
    <3>2. row.depth \in 1..(bfs.step + 1) /\ h.depth = bfs.step + 1 /\ h.seed \in Seeded /\ h.score = Score(h.seed, h.depth)
      BY DEF IsRow, IsHit
    <3>3. h.seed = s
      <4>1. Seeds \in Seq(ToSet(Seeds))
        BY SeedsSeq DEF IsSeq
      <4>2. DOMAIN Seeds = {1}
        BY <4>1
      <4> QED
        BY <3>1, <3>2, <4>2 DEF Seeded, ToSet
    <3>4. row.depth \in 0..Depth /\ h.depth \in 0..Depth /\ row.depth <= h.depth
      BY <1>1, <3>2
    <3>5. Score(s, row.depth) \in Nat /\ Score(s, h.depth) <= Score(s, row.depth)
      BY <3>4, ScoreFalls
    <3>6. h.depth <= h.depth
      BY <1>1, <3>2
    <3>7. Score(s, h.depth) \in Nat
      BY <3>4, <3>6, ScoreFalls
    <3> QED
      BY <1>1, <1>3, <3>1, <3>2, <3>3, <3>4, <3>5, <3>7 DEF Better
  <2> HIDE DEF new
  <2> QED
    BY <2>1, <2>3, <2>4, <2>5
<1> QED
  BY <1>2, <1>3

(* The rows after a hit: each is one that was, improved, or the new one.   *)
LEMMA RowsFacts ==
  ASSUME QueryGraphAssumption, Ready, Shape, RowsOK, NEW h, IsHit(h)
  PROVE  LET rows == Rows(h)
         IN /\ IsSeq(rows)
            /\ \A m, n \in DOMAIN rows : rows[m].target = rows[n].target => m = n
            /\ \A row \in ToSet(rows) :
                 \/ IsRow(row) /\ (Len(Seeds) = 1 => row \in ToSet(bfs.rows))
                 \/ /\ row = [target |-> h.target, depth |-> h.depth, score |-> h.score, via |-> Via]
                    /\ h.target \notin bfs.seen
            /\ Targets \subseteq {row.target : row \in ToSet(rows)}
            /\ ~Dropped(h) => h.target \in bfs.seen \cup {row.target : row \in ToSet(rows)}
<1> DEFINE t == h.target
           new == [target |-> h.target, depth |-> h.depth, score |-> h.score, via |-> Via]
           Of(row) == IF row.target = t THEN Improve(h, row) ELSE row
           better == [n \in DOMAIN bfs.rows |-> Of(bfs.rows[n])]
<1>1. /\ IsSeq(bfs.rows) /\ \A row \in ToSet(bfs.rows) : IsRow(row)
      /\ \A m, n \in DOMAIN bfs.rows : bfs.rows[m].target = bfs.rows[n].target => m = n
  BY DEF RowsOK
<1>2. RowOf(t) # {} <=> \E n \in DOMAIN bfs.rows : bfs.rows[n].target = t
  BY DEF RowOf
<1>3. CASE RowOf(t) # {}
  <2>1. Rows(h) = better
    BY <1>3, Zenon DEF Rows, Each
  <2>2. IsSeq(better) /\ DOMAIN better = DOMAIN bfs.rows /\ ToSet(better) = {better[n] : n \in DOMAIN bfs.rows}
    <3>1. better = [n \in DOMAIN bfs.rows |-> better[n]]
      <4> HIDE DEF Of
      <4> QED
        OBVIOUS
    <3> HIDE DEF better
    <3> QED
      BY <1>1, <3>1, EachIs
  <2>3. ASSUME NEW n \in DOMAIN bfs.rows
        PROVE  IsRow(better[n]) /\ better[n].target = bfs.rows[n].target /\ (Len(Seeds) = 1 => better[n] = bfs.rows[n])
    <3> DEFINE row == bfs.rows[n]
    <3>1. better[n] = Of(row)
      <4> HIDE DEF Of
      <4> QED
        OBVIOUS
    <3>2. IsRow(row)
      BY <1>1 DEF ToSet
    <3> HIDE DEF row, better
    <3>3. CASE row.target = t
      <4>1. Of(row) = Improve(h, row)
        BY <3>3
      <4> QED
        BY <3>1, <3>2, <3>3, <4>1, ImproveFacts DEF row
    <3>4. CASE row.target # t
      BY <3>1, <3>2, <3>4 DEF row
    <3> QED
      BY <3>3, <3>4
  <2> HIDE DEF better
  <2>4. \A row \in ToSet(better) : IsRow(row) /\ (Len(Seeds) = 1 => row \in ToSet(bfs.rows))
    BY <2>2, <2>3 DEF ToSet
  <2>5. Targets = {row.target : row \in ToSet(better)}
    <3>1. Targets = {bfs.rows[n].target : n \in DOMAIN bfs.rows}
      BY DEF Targets, ToSet
    <3>2. {row.target : row \in ToSet(better)} = {better[n].target : n \in DOMAIN bfs.rows}
      BY <2>2
    <3> QED
      BY <2>3, <3>1, <3>2
  <2>6. t \in Targets
    BY <1>2, <1>3 DEF Targets, ToSet
  <2>7. \A m, n \in DOMAIN better : better[m].target = better[n].target => m = n
    BY <1>1, <2>2, <2>3
  <2> HIDE DEF t
  <2> QED
    BY <2>1, <2>2, <2>4, <2>5, <2>6, <2>7 DEF t
<1>4. CASE RowOf(t) = {} /\ t \notin bfs.seen /\ Len(bfs.rows) < Limit
  <2> DEFINE more == Append(bfs.rows, new)
  <2>1. Rows(h) = more
    BY <1>4, Zenon DEF Rows
  <2>2. /\ IsSeq(more) /\ ToSet(more) = ToSet(bfs.rows) \cup {new}
        /\ Len(bfs.rows) \in Nat /\ DOMAIN bfs.rows = 1..Len(bfs.rows)
        /\ DOMAIN more = 1..(Len(bfs.rows) + 1)
        /\ \A n \in 1..(Len(bfs.rows) + 1) : more[n] = IF n <= Len(bfs.rows) THEN bfs.rows[n] ELSE new
    <3> HIDE DEF new
    <3> QED
      BY <1>1, AppendIs
  <2> HIDE DEF more
  <2>3. new.target = t /\ \A n \in DOMAIN bfs.rows : bfs.rows[n].target # t
    BY <1>2, <1>4
  <2>4. ASSUME NEW m \in DOMAIN more, NEW n \in DOMAIN more, more[m].target = more[n].target PROVE m = n
    <3> HIDE DEF new, t
    <3>1. \A l \in DOMAIN more : IF l \in DOMAIN bfs.rows THEN more[l] = bfs.rows[l]
                                                      ELSE more[l] = new /\ l = Len(bfs.rows) + 1
      BY <2>2
    <3> QED
      BY <1>1, <2>3, <2>4, <3>1
  <2>5. Targets \subseteq {row.target : row \in ToSet(more)} /\ t \in {row.target : row \in ToSet(more)}
    <3> HIDE DEF new
    <3> QED
      BY <2>2, <2>3 DEF Targets
  <2>6. \A row \in ToSet(more) : (IsRow(row) /\ row \in ToSet(bfs.rows)) \/ row = new
    <3> HIDE DEF new
    <3> QED
      BY <1>1, <2>2
  <2> QED
    BY <1>4, <2>1, <2>2, <2>4, <2>5, <2>6
<1>5. CASE RowOf(t) = {} /\ ~(t \notin bfs.seen /\ Len(bfs.rows) < Limit)
  <2>1. Rows(h) = bfs.rows
    BY <1>5, Zenon DEF Rows
  <2>2. Targets = {row.target : row \in ToSet(bfs.rows)}
    BY DEF Targets
  <2>3. ~Dropped(h) => t \in bfs.seen
    <3>1. Len(bfs.rows) \in Nat /\ Limit \in Nat
      BY <1>1, Arguments DEF IsSeq, Limits
    <3>2. ~(Len(bfs.rows) < Limit) => Len(bfs.rows) >= Limit
      BY <3>1
    <3> QED
      BY <1>5, <3>2 DEF Dropped
  <2> QED
    BY <1>1, <2>1, <2>2, <2>3
<1> QED
  BY <1>3, <1>4, <1>5

(* ... when a target is expanded and makes a row, ...                      *)
LEMMA EmitInv == \A t : QueryGraphAssumption /\ Inv /\ t \in bfs.targets /\ Emit(t) => Inv'
<1> SUFFICES ASSUME NEW t, QueryGraphAssumption, Inv, t \in bfs.targets, Emit(t) PROVE Inv'
  OBVIOUS
<1> DEFINE h == BestHit(t)
           k == bfs.step
           rows == IF Filtered(h) THEN bfs.rows ELSE Rows(h)
           cut == bfs.truncated \/ (~Filtered(h) /\ Dropped(h))
           next == Expand(h)
           left == bfs.targets \ {t}
           seen == bfs.seen \cup {t}
<1>1. /\ repo' = repo /\ asked' = asked /\ pc = "emit" /\ pc' = "emit"
      /\ bfs' = [bfs EXCEPT !.targets = left, !.next = next, !.seen = seen, !.rows = rows, !.truncated = cut]
  BY Zenon DEF Emit
<1>2. /\ Ready /\ Shape /\ RowsOK /\ NoneMissing /\ repo \in Repos /\ asked \in Questions
      /\ NodesAt(bfs.frontier, k) /\ NodesAt(bfs.next, k + 1) /\ HitsOK
      /\ Simple => Reached /\ (Len(Seeds) = 1 => Nearest)
      /\ Ready' /\ Simple' = Simple /\ Seeds' = Seeds /\ Seeded' = Seeded /\ Depth' = Depth /\ Depth \in 1..5
  BY <1>1, Running
<1>3. /\ Unfiltered' = Unfiltered
      /\ \A s : Walks(s)' = Walks(s)
      /\ \A i : Located(i)' = Located(i)
      /\ \A n : Within(n)' = Within(n)
      /\ \A s, d : Score(s, d)' = Score(s, d)
      /\ \A q, n : NodesAt(q, n)' = NodesAt(q, n)
  BY <1>1, Running
<1> HIDE DEF rows, cut, next, left, seen
<1>4. /\ bfs'.step = k /\ bfs'.frontier = bfs.frontier /\ bfs'.at = bfs.at /\ bfs'.hits = bfs.hits
      /\ bfs'.targets = left /\ bfs'.next = next /\ bfs'.seen = seen /\ bfs'.rows = rows /\ bfs'.truncated = cut
      /\ bfs' = [step |-> bfs'.step, frontier |-> bfs'.frontier, at |-> bfs'.at, hits |-> bfs'.hits,
                 targets |-> bfs'.targets, next |-> bfs'.next, seen |-> bfs'.seen, rows |-> bfs'.rows,
                 visited |-> bfs'.visited, truncated |-> bfs'.truncated, scores |-> bfs'.scores]
  BY <1>1, <1>2 DEF Shape
<1>5. Shape'
  BY <1>2, <1>4 DEF Shape
<1>6. k \in 0..(Depth - 1) /\ k \in Nat /\ t \in HitTargets
  BY <1>2 DEF Shape, HitsOK
<1>7. h.target = t /\ IsHit(h) /\ t \in Walks(h.seed)[k + 1] /\ h.seed \in Seeded /\ h.depth = k + 1
  <2>1. h.target = t /\ IsHit(h)
    BY <1>2, <1>6, BestHitFacts
  <2> HIDE DEF h
  <2> QED
    BY <2>1 DEF IsHit
<1> HIDE DEF h
<1>8. HitTargets' = HitTargets
  BY <1>4 DEF HitTargets
<1>9. HitsOK'
  <2>1. \A x : IsHit(x)' = IsHit(x)
    BY <1>2, <1>3, <1>4 DEF IsHit
  <2> QED
    BY <1>2, <1>4, <1>8, <2>1 DEF HitsOK, left
<1>10. /\ NodesAt(next, k + 1) /\ ToSet(bfs.next) \subseteq ToSet(next)
       /\ t \in bfs.seen \/ ~Located(t) \/ \E x \in ToSet(next) : x.id = t
  <2>1. CASE t \in bfs.seen \/ ~Located(t)
    <3>1. next = bfs.next
      BY <1>7, <2>1 DEF next, Expand
    <3> QED
      BY <1>2, <2>1, <3>1
  <2>2. CASE ~(t \in bfs.seen \/ ~Located(t))
    <3> DEFINE x == Node(t, h.seed)
    <3>1. next = Append(bfs.next, x)
      BY <1>7, <2>2 DEF next, Expand
    <3>2. x.id = t /\ x.seed = h.seed
      BY DEF Node
    <3> HIDE DEF x
    <3>3. IsSeq(next) /\ ToSet(next) = ToSet(bfs.next) \cup {x}
      <4>1. IsSeq(bfs.next)
        BY <1>2 DEF NodesAt
      <4> QED
        BY <3>1, <4>1, AppendIs
    <3>4. NodesAt(next, k + 1)
      BY <1>2, <1>7, <2>2, <3>2, <3>3 DEF NodesAt
    <3> QED
      BY <3>2, <3>3, <3>4
  <2> QED
    BY <2>1, <2>2
<1>11. /\ IsSeq(rows)
       /\ \A m, n \in DOMAIN rows : rows[m].target = rows[n].target => m = n
       /\ \A row \in ToSet(rows) :
            \/ IsRow(row) /\ (Len(Seeds) = 1 => row \in ToSet(bfs.rows))
            \/ /\ row = [target |-> h.target, depth |-> h.depth, score |-> h.score, via |-> Via]
               /\ h.target \notin bfs.seen
       /\ Targets \subseteq {row.target : row \in ToSet(rows)}
       /\ ~Filtered(h) /\ ~Dropped(h) => t \in bfs.seen \cup {row.target : row \in ToSet(rows)}
  <2>1. CASE Filtered(h)
    <3>1. rows = bfs.rows
      BY <2>1 DEF rows
    <3>2. /\ IsSeq(bfs.rows) /\ \A row \in ToSet(bfs.rows) : IsRow(row)
          /\ \A m, n \in DOMAIN bfs.rows : bfs.rows[m].target = bfs.rows[n].target => m = n
      BY <1>2 DEF RowsOK
    <3> QED
      BY <2>1, <3>1, <3>2 DEF Targets
  <2>2. CASE ~Filtered(h)
    <3>1. rows = Rows(h)
      BY <2>2 DEF rows
    <3> HIDE DEF rows
    <3> QED
      BY <1>2, <1>7, <3>1, RowsFacts
  <2> QED
    BY <2>1, <2>2
<1>12. RowsOK'
  <2>1. ASSUME NEW row \in ToSet(rows) PROVE IsRow(row)'
    <3>1. CASE IsRow(row)
      BY <1>2, <1>3, <1>4, <3>1 DEF IsRow, seen
    <3>2. CASE /\ row = [target |-> h.target, depth |-> h.depth, score |-> h.score, via |-> Via]
               /\ h.target \notin bfs.seen
      <4>1. /\ row = [target |-> row.target, depth |-> row.depth, score |-> row.score, via |-> row.via]
            /\ row.target = t /\ row.depth = k + 1 /\ row.score = Score(h.seed, row.depth)
        BY <1>7, <3>2 DEF IsHit
      <4>2. row.target \in seen \ Seeded
        <5>1. Seeded \subseteq bfs.seen
          BY <1>2 DEF RowsOK
        <5> QED
          BY <1>7, <3>2, <4>1, <5>1 DEF seen
      <4>3. row.depth \in 1..(k + 1)
        <5> HIDE DEF k
        <5> QED
          BY <1>6, <4>1
      <4> QED
        BY <1>2, <1>3, <1>4, <1>7, <4>1, <4>2, <4>3 DEF IsRow
    <3> QED
      BY <1>11, <3>1, <3>2
  <2>2. Seeded \subseteq seen
    BY <1>2 DEF RowsOK, seen
  <2> QED
    BY <1>2, <1>4, <1>11, <2>1, <2>2 DEF RowsOK
<1>13. NoneMissing'
  <2> SUFFICES ASSUME Unfiltered, ~cut PROVE seen \subseteq Seeded \cup {row.target : row \in ToSet(rows)}
    BY <1>2, <1>3, <1>4 DEF NoneMissing, Targets
  <2>1. ~Filtered(h)
    BY DEF Unfiltered, Filtered
  <2>2. ~bfs.truncated /\ ~Dropped(h)
    BY <2>1 DEF cut
  <2>3. bfs.seen \subseteq Seeded \cup Targets
    BY <1>2, <2>2 DEF NoneMissing
  <2> QED
    BY <1>11, <2>1, <2>2, <2>3 DEF seen
<1>14. ASSUME Simple PROVE Reached'
  <2>1. /\ bfs.seen = Within(k) \cup (HitTargets \ bfs.targets)
        /\ Within(k + 1) = Within(k) \cup HitTargets
        /\ NextFull
    BY <1>1, <1>2, <1>14 DEF Reached
  <2>2. seen = Within(k) \cup (HitTargets \ left)
    BY <1>6, <2>1 DEF seen, left
  <2>3. NextFull'
    <3> SUFFICES ASSUME NEW i \in HitTargets \ left, Located(i)
                 PROVE  i \in Within(k) \/ \E x \in ToSet(next) : x.id = i
      BY <1>3, <1>4, <1>8 DEF NextFull
    <3>1. CASE i = t
      <4>1. t \in bfs.seen => t \in Within(k)
        BY <2>1
      <4> QED
        BY <1>10, <3>1, <4>1
    <3>2. CASE i # t
      <4>1. i \in HitTargets \ bfs.targets
        BY <3>2 DEF left
      <4> QED
        BY <1>10, <2>1, <4>1 DEF NextFull
    <3> QED
      BY <3>1, <3>2
  <2> QED
    BY <1>1, <1>3, <1>4, <1>8, <2>1, <2>2, <2>3 DEF Reached
<1>15. ASSUME Simple, Len(Seeds) = 1 PROVE Nearest'
  <2> SUFFICES ASSUME NEW row \in ToSet(rows), NEW n \in 1..(row.depth - 1), NEW s \in Seeded
               PROVE  row.target \notin Walks(s)[n]
    BY <1>2, <1>3, <1>4 DEF Nearest
  <2>1. CASE row \in ToSet(bfs.rows)
    BY <1>2, <1>15, <2>1 DEF Nearest
  <2>2. CASE /\ row = [target |-> h.target, depth |-> h.depth, score |-> h.score, via |-> Via]
             /\ h.target \notin bfs.seen
    <3>1. row.target = t /\ row.depth = k + 1 /\ t \notin bfs.seen
      BY <1>7, <2>2
    <3>2. n \in 0..k /\ k \in 0..Depth
      <4> HIDE DEF k
      <4> QED
        BY <1>2, <1>6, <3>1
    <3>3. Walks(s)[n] \subseteq Within(k)
      <4> HIDE DEF k
      <4> QED
        BY <1>2, <3>2, WithinFacts
    <3>4. Within(k) \subseteq bfs.seen
      BY <1>1, <1>2, <1>15 DEF Reached
    <3> QED
      BY <3>1, <3>3, <3>4
  <2> QED
    BY <1>11, <1>15, <2>1, <2>2
<1> QED
  BY <1>1, <1>2, <1>3, <1>4, <1>5, <1>9, <1>10, <1>12, <1>13, <1>14, <1>15 DEF Inv, Ready

LEMMA InvStep == QueryGraphAssumption /\ Inv /\ [Next]_vars => Inv'
<1> SUFFICES ASSUME QueryGraphAssumption, Inv, [Next]_vars PROVE Inv'
  OBVIOUS
<1>1. CASE Start
  BY <1>1, StartInv
<1>2. CASE Scan
  <2>1. CASE bfs.visited >= MaxVisited
    <3>1. pc = "scan" /\ Truncate /\ repo' = repo /\ asked' = asked
      BY <1>2, <2>1 DEF Scan
    <3> QED
      BY <3>1, TruncateInv
  <2>2. CASE ~(bfs.visited >= MaxVisited)
    BY <1>2, <2>2, ScanInv
  <2> QED
    BY <2>1, <2>2
<1>3. CASE Expire
  BY <1>3, TruncateInv DEF Expire
<1>4. CASE Gather
  BY <1>4, GatherInv
<1>5. CASE \E t \in bfs.targets : Emit(t)
  BY <1>5, EmitInv
<1>6. CASE EndStep
  BY <1>6, EndStepInv
<1>7. CASE UNCHANGED vars
  <2>1. repo' = repo /\ asked' = asked /\ pc' = pc /\ bfs' = bfs
    BY <1>7 DEF vars
  <2>2. CASE pc \in {"ask", "refused"}
    BY <2>1, <2>2 DEF Inv, Fresh
  <2>3. CASE pc \in {"scan", "emit", "done"}
    <3>1. /\ Ready /\ Shape /\ RowsOK /\ NoneMissing /\ repo \in Repos /\ asked \in Questions
          /\ pc # "done" => NodesAt(bfs.frontier, bfs.step) /\ NodesAt(bfs.next, bfs.step + 1) /\ HitsOK
          /\ pc = "scan" => bfs.targets = {} /\ bfs.next = <<>>
          /\ Simple => Reached /\ (Len(Seeds) = 1 => Nearest)
          /\ Ready' /\ Simple' = Simple /\ Seeds' = Seeds /\ Seeded' = Seeded /\ Depth' = Depth /\ Depth \in 1..5
          /\ Unfiltered' = Unfiltered
      BY <2>1, <2>3, Running
    <3>2. /\ \A s : Walks(s)' = Walks(s)
          /\ \A i : Located(i)' = Located(i)
          /\ \A k : Within(k)' = Within(k)
          /\ \A s, d : Score(s, d)' = Score(s, d)
          /\ \A q, k : NodesAt(q, k)' = NodesAt(q, k)
          /\ \A n : Kind(n)' = Kind(n)
          /\ Limit' = Limit
          /\ \A i, kind, limit : Edges(i, kind, limit)' = Edges(i, kind, limit)
      BY <2>1, <2>3, Running
    <3>3. Shape' /\ HitTargets' = HitTargets /\ Targets' = Targets /\ Via' = Via
      BY <2>1, <3>1 DEF Shape, HitTargets, Targets, Via
    <3>4. RowsOK' /\ NoneMissing' /\ Nearest' = Nearest
      <4>1. \A row : IsRow(row)' = IsRow(row)
        BY <2>1, <3>1, <3>2 DEF IsRow
      <4>2. RowsOK' /\ NoneMissing'
        BY <2>1, <3>1, <3>3, <4>1 DEF RowsOK, NoneMissing
      <4>3. Nearest' = Nearest
        BY <2>1, <3>1, <3>2 DEF Nearest
      <4> QED
        BY <4>2, <4>3
    <3>5. HitsOK' = HitsOK
      <4>1. \A h : IsHit(h)' = IsHit(h)
        BY <2>1, <3>1, <3>2 DEF IsHit
      <4> QED
        BY <2>1, <3>3, <4>1 DEF HitsOK
    <3>6. Reached' = Reached
      <4>1. Scanned' = Scanned
        BY <2>1, <3>2, <3>3 DEF Scanned
      <4>2. FrontierFull' = FrontierFull
        BY <2>1, <3>1, <3>2 DEF FrontierFull
      <4>3. NextFull' = NextFull
        BY <2>1, <3>2, <3>3 DEF NextFull
      <4> QED
        BY <2>1, <3>1, <3>2, <3>3, <4>1, <4>2, <4>3 DEF Reached
    <3> QED
      BY <2>1, <2>3, <3>1, <3>2, <3>3, <3>4, <3>5, <3>6 DEF Inv, Ready
  <2> QED
    BY <2>2, <2>3 DEF Inv
<1> QED
  BY <1>1, <1>2, <1>3, <1>4, <1>5, <1>6, <1>7 DEF Next

(* At the end the rows are what they should be.                            *)
LEMMA InvWalkExact == QueryGraphAssumption /\ Inv => WalkExact
<1> SUFFICES ASSUME QueryGraphAssumption, Inv, pc = "done"
             PROVE  /\ Cardinality(Targets) = Len(bfs.rows) /\ Targets \cap ToSet(Seeds) = {}
                    /\ RowsReached(Ends)
                    /\ SimpleWalk(Ends) /\ ~bfs.truncated /\ asked.kind = "" /\ asked.exclude = "" =>
                         Targets = Reachable(Ends)
                    /\ SimpleWalk(Ends) /\ Len(Seeds) = 1 => Shortest(Ends)
  BY Zenon DEF WalkExact
<1>1. /\ Ready /\ Shape /\ RowsOK /\ NoneMissing
      /\ Simple => Reached /\ (Len(Seeds) = 1 => Nearest)
  BY DEF Inv, Ready
<1>2. DOMAIN Ends = Seeded /\ \A s \in Seeded : Ends[s] = Walks(s)
  BY DEF Ends, Seeded
<1>3. /\ bfs.rows \in Seq(ToSet(bfs.rows)) /\ \A row \in ToSet(bfs.rows) : IsRow(row)
      /\ \A m, n \in DOMAIN bfs.rows : bfs.rows[m].target = bfs.rows[n].target => m = n
  BY <1>1 DEF RowsOK, IsSeq
<1>4. Cardinality(Targets) = Len(bfs.rows)
  <2> DEFINE I == 1..Len(bfs.rows)
             f == [n \in I |-> bfs.rows[n].target]
  <2>1. DOMAIN bfs.rows = I /\ Len(bfs.rows) \in Nat
    BY <1>3
  <2>2. Targets = {bfs.rows[n].target : n \in I}
    BY <2>1 DEF Targets, ToSet
  <2>3. f \in Bijection(I, Targets)
    <3>1. f \in [I -> Targets] /\ (\A x \in Targets : \E n \in I : f[n] = x) /\ \A m, n \in I : f[m] = f[n] => m = n
      BY <1>3, <2>1, <2>2
    <3> HIDE DEF f, I
    <3> QED
      BY <3>1 DEF Bijection, Injection, Surjection, IsInjective
  <2>4. IsFiniteSet(I) /\ Cardinality(I) = Len(bfs.rows)
    <3>1. 1 \in Int /\ Len(bfs.rows) \in Int
      BY <2>1
    <3>2. IsFiniteSet(I) /\ Cardinality(I) = IF 1 > Len(bfs.rows) THEN 0 ELSE Len(bfs.rows) - 1 + 1
      BY <3>1, FS_Interval
    <3> QED
      BY <2>1, <3>2
  <2> HIDE DEF f, I
  <2>5. Cardinality(I) = Cardinality(Targets)
    <3>1. ExistsBijection(I, Targets)
      BY <2>3 DEF ExistsBijection
    <3> QED
      BY <2>4, <3>1, FS_Bijection
  <2> QED
    BY <2>4, <2>5
<1>5. Targets \cap ToSet(Seeds) = {}
  BY <1>3 DEF Targets, IsRow, Seeded
<1>6. \A row \in ToSet(bfs.rows) : \E s \in Seeded : row.target \in Walks(s)[row.depth] /\ row.score = Score(s, row.depth)
  BY <1>3 DEF IsRow
<1> DEFINE all == (UNION {Ends[s][n] : s \in DOMAIN Ends, n \in 1..Depth}) \ ToSet(Seeds)
<1>7. ASSUME Simple, ~bfs.truncated, Unfiltered PROVE Targets = all
  <2>1. bfs.seen = Within(Depth)
    BY <1>1, <1>7 DEF Reached
  <2>2. bfs.seen \subseteq Seeded \cup Targets
    BY <1>1, <1>7 DEF NoneMissing
  <2>3. Targets \subseteq bfs.seen \ Seeded
    BY <1>3 DEF Targets, IsRow
  <2>4. Targets = Within(Depth) \ Seeded
    BY <2>1, <2>2, <2>3
  <2>5. Within(Depth) \ Seeded = all
    <3>1. 0..Depth = {0} \cup 1..Depth
      BY <1>1, Arguments
    <3>2. \A s \in Seeded : Walks(s)[0] \subseteq Seeded
      BY <1>1, WalksFacts
    <3>3. Within(Depth) = UNION {Walks(s)[n] : s \in Seeded, n \in {0} \cup 1..Depth}
      BY <3>1 DEF Within
    <3>4. all = (UNION {Walks(s)[n] : s \in Seeded, n \in 1..Depth}) \ Seeded
      BY <1>2 DEF Seeded
    <3> HIDE DEF all
    <3> QED
      BY <3>2, <3>3, <3>4
  <2> QED
    BY <2>4, <2>5
<1>8. Reachable(Ends) = all
  BY DEF Reachable
<1>9. ASSUME Simple, Len(Seeds) = 1 PROVE Shortest(Ends)
  BY <1>1, <1>2, <1>9 DEF Nearest, Shortest
<1>10. RowsReached(Ends)
  BY <1>2, <1>6 DEF RowsReached
<1> HIDE DEF all
<1> QED
  BY <1>4, <1>5, <1>7, <1>8, <1>9, <1>10 DEF Simple, Unfiltered

(* Inv holds in every reachable state.                                     *)
THEOREM Inductive ==
  ASSUME QueryGraphAssumption
  PROVE  Spec => []Inv
<1>1. Init => Inv
  BY InitInv
<1>2. Inv /\ [Next]_vars => Inv'
  BY InvStep
<1> QED
  BY <1>1, <1>2, PTL DEF Spec

(* The rows of query_graph are the ends of walks from the seeds, each with *)
(* its depth and score and no node twice, none is missing from an answer   *)
(* that is not cut short, and from one seed the depth is the distance: for *)
(* every repo and question.                                                *)
THEOREM RowsAreWalks ==
  ASSUME QueryGraphAssumption
  PROVE  Spec => []WalkExact
<1>1. Inv => WalkExact
  BY InvWalkExact
<1> QED
  BY <1>1, Inductive, PTL

-----------------------------------------------------------------------------
(***************************************************************************)
(* node_edges.                                                             *)
(***************************************************************************)

(* With two limits above k a scan has the same first k edges, and more than *)
(* k of them or not.                                                       *)
LEMMA ScanEnough ==
  ASSUME NEW R, IsRepo(R), NEW d \in Decls(R), NEW kind,
         NEW k \in Nat, NEW a \in Nat, NEW b \in Nat, k < a, k < b
  PROVE  /\ UpTo(k, ScanFor(kind, R, d, a)) = UpTo(k, ScanFor(kind, R, d, b))
         /\ Len(ScanFor(kind, R, d, a)) > k <=> Len(ScanFor(kind, R, d, b)) > k
<1>1. CASE kind \notin Kinds
  BY <1>1, Zenon DEF ScanFor, Kinds
<1>2. CASE kind \in Kinds
  <2>1. PICK X : IsScanOf(kind, R, d, X)
    BY <1>2, ScanWhole
  <2>2. a \in Limits /\ b \in Limits
    BY DEF Limits
  <2>3. CASE \A n \in Limits : ScanFor(kind, R, d, n) = X
    BY <2>2, <2>3
  <2>4. CASE \A n \in Limits : ScanFor(kind, R, d, n) = UpTo(n, X)
    <3> DEFINE u == UpTo(a, X)
               v == UpTo(b, X)
    <3>1. ScanFor(kind, R, d, a) = u /\ ScanFor(kind, R, d, b) = v
      BY <2>2, <2>4
    <3>2. X \in Seq(ToSet(X)) /\ Len(X) \in Nat
      BY <2>1 DEF IsScanOf, IsSeq
    <3>3. UpTo(k, u) = UpTo(k, X) /\ UpTo(k, v) = UpTo(k, X)
      BY <3>2, UpToTwice
    <3>4. Len(u) = (IF a < Len(X) THEN a ELSE Len(X)) /\ Len(v) = (IF b < Len(X) THEN b ELSE Len(X))
      BY <3>2, UpToFacts
    <3> HIDE DEF u, v
    <3>5. Len(u) > k <=> Len(v) > k
      BY <3>2, <3>4
    <3> QED
      BY <3>1, <3>3, <3>5
  <2> QED
    BY <2>1, <2>3, <2>4 DEF IsScanOf
<1> QED
  BY <1>1, <1>2

(* So asking for four times the limit is enough to give the first edges and *)
(* to know whether there are more.                                         *)
LEMMA FirstEdgesGiven ==
  ASSUME NEW R, IsRepo(R), NEW i, NEW kinds, NEW limit \in Int, limit < Unlimited,
         Found(LocateSymbol(R, i))
  PROVE  FirstEdges(R, i, kinds, limit, NodeEdgesAnswer(R, i, kinds, limit))
<1> DEFINE d == LocateSymbol(R, i)
           ks == IF kinds = <<>> THEN <<"callers", "callees", "tests">> ELSE kinds
           most == IF limit <= 0 THEN 50 ELSE limit
           raw == [n \in DOMAIN ks |-> ScanFor(ks[n], R, d, ScanLimit(most))]
           given == [n \in DOMAIN raw |-> UpTo(most, raw[n])]
           All(k) == ScanFor(k, R, d, Unlimited)
           owed == [n \in DOMAIN ks |-> UpTo(most, All(ks[n]))]
           answer == NodeEdgesAnswer(R, i, kinds, limit)
<1>1. d \in Decls(R)
  BY LocateSymbolType DEF Found
<1>2. most \in Nat /\ ScanLimit(most) \in Nat /\ Unlimited \in Nat /\ most < ScanLimit(most) /\ most < Unlimited
  BY DEF ScanLimit, Unlimited
<1>3. ASSUME NEW k
      PROVE  /\ UpTo(most, ScanFor(k, R, d, ScanLimit(most))) = UpTo(most, All(k))
             /\ Len(ScanFor(k, R, d, ScanLimit(most))) > most <=> Len(All(k)) > most
  <2> HIDE DEF most, d
  <2> QED
    BY <1>1, <1>2, ScanEnough
<1>4. answer.edges = FlattenSeq(given) /\ answer.truncated = (\E n \in DOMAIN raw : Len(raw[n]) > most)
  BY Zenon DEF NodeEdgesAnswer, Each
<1>5. FirstEdges(R, i, kinds, limit, answer) <=>
        /\ answer.edges = FlattenSeq(owed)
        /\ answer.truncated <=> \E n \in DOMAIN ks : Len(All(ks[n])) > most
  BY Zenon DEF FirstEdges, Each
<1> HIDE DEF most, d, ks, answer
<1>6. given = owed
  BY <1>3
<1>7. (\E n \in DOMAIN raw : Len(raw[n]) > most) <=> \E n \in DOMAIN ks : Len(All(ks[n])) > most
  BY <1>3
<1> HIDE DEF raw, given, owed, All
<1> QED
  BY <1>4, <1>5, <1>6, <1>7, Zenon DEF answer

(* The last segment of an id is the name.                                  *)
LEMMA IdHasName ==
  ASSUME NEW S, NEW T, NEW c, NEW d, c.pkg \in Seq(S), d.pkg \in Seq(T), ID(c) = ID(d)
  PROVE  c.name = d.name
<1>1. ASSUME NEW U, NEW e, e.pkg \in Seq(U)
      PROVE  ID(e).body[Len(ID(e).body)] = e.name
  <2>1. ID(e).body = e.pkg \o <<e.recv, e.name>> \/ ID(e).body = e.pkg \o <<e.name>>
    BY DEF ID, IdWith
  <2>2. CASE ID(e).body = e.pkg \o <<e.name>>
    <3> DEFINE V == U \cup {e.name}
               p == e.pkg
               q == <<e.name>>
    <3>1. p \in Seq(V) /\ q \in Seq(V) /\ Len(q) = 1 /\ q[1] = e.name /\ Len(p) \in Nat
      BY <1>1
    <3> HIDE DEF p, q, V
    <3>2. /\ Len(p \o q) = Len(p) + Len(q)
          /\ \A m \in 1..(Len(p) + Len(q)) : (p \o q)[m] = IF m <= Len(p) THEN p[m] ELSE q[m - Len(p)]
      BY <3>1, ConcatProperties
    <3>3. Len(p) + 1 \in 1..(Len(p) + Len(q)) /\ ~(Len(p) + 1 <= Len(p)) /\ (Len(p) + 1) - Len(p) = 1
      BY <3>1
    <3>4. Len(p \o q) = Len(p) + 1 /\ (p \o q)[Len(p) + 1] = q[1]
      BY <3>1, <3>2, <3>3
    <3> QED
      BY <2>2, <3>1, <3>4 DEF p, q
  <2>3. CASE ID(e).body = e.pkg \o <<e.recv, e.name>>
    <3> DEFINE V == U \cup {e.recv, e.name}
               p == e.pkg
               q == <<e.recv, e.name>>
    <3>1. p \in Seq(V) /\ q \in Seq(V) /\ Len(q) = 2 /\ q[2] = e.name /\ Len(p) \in Nat
      BY <1>1
    <3> HIDE DEF p, q, V
    <3>2. /\ Len(p \o q) = Len(p) + Len(q)
          /\ \A m \in 1..(Len(p) + Len(q)) : (p \o q)[m] = IF m <= Len(p) THEN p[m] ELSE q[m - Len(p)]
      BY <3>1, ConcatProperties
    <3>3. Len(p) + 2 \in 1..(Len(p) + Len(q)) /\ ~(Len(p) + 2 <= Len(p)) /\ (Len(p) + 2) - Len(p) = 2
      BY <3>1
    <3>4. Len(p \o q) = Len(p) + 2 /\ (p \o q)[Len(p) + 2] = q[2]
      BY <3>1, <3>2, <3>3
    <3> QED
      BY <2>3, <3>1, <3>4 DEF p, q
  <2> QED
    BY <2>1, <2>2, <2>3
<1>2. ID(c).body[Len(ID(c).body)] = c.name
  BY <1>1
<1>3. ID(d).body[Len(ID(d).body)] = d.name
  BY <1>1
<1> QED
  BY <1>2, <1>3

(* Filed under a package are the declarations of it that bear the name, and *)
(* under none all that do.                                                 *)
LEMMA LookupHas ==
  ASSUME NEW R, IsRepo(R), NEW pkg, NEW n
  PROVE  ToSet(Lookup(R, pkg, <<n>>)) = {c \in ToSet(R.loaded) : c.name = n /\ pkg \in {<<>>, c.pkg}}
<1> DEFINE ss == [k \in DOMAIN R.loaded |-> Entry(R.loaded[k], pkg, <<n>>)]
           Fits(c) == c.name = n /\ pkg \in {<<>>, c.pkg}
<1>1. Lookup(R, pkg, <<n>>) = FlattenSeq(ss)
  <2>1. <<n>> # <<>>
    OBVIOUS
  <2> QED
    BY <2>1, Zenon DEF Lookup
<1>2. ASSUME NEW c \in Decls(R)
      PROVE  /\ Entry(c, pkg, <<n>>) \in Seq(Decls(R))
             /\ ToSet(Entry(c, pkg, <<n>>)) = IF Fits(c) THEN {c} ELSE {}
  <2> DEFINE a == IF c.pkg = pkg THEN <<c>> ELSE <<>>
             b == IF pkg = <<>> THEN <<c>> ELSE <<>>
  <2>1. <<>> \in Seq(Decls(R)) /\ <<c>> \in Seq(Decls(R)) /\ ToSet(<<>>) = {} /\ ToSet(<<c>>) = {c}
    BY DEF ToSet
  <2>2. a \o b \in Seq(Decls(R)) /\ ToSet(a \o b) = ToSet(a) \cup ToSet(b)
    <3>1. a \in Seq(Decls(R)) /\ b \in Seq(Decls(R))
      BY <2>1
    <3> HIDE DEF a, b
    <3> QED
      BY <3>1, ConcatFacts
  <2>3. Entry(c, pkg, <<n>>) = IF c.name = n THEN a \o b ELSE <<>>
    <3>1. <<c.name>> = <<n>> <=> c.name = n
      OBVIOUS
    <3> QED
      BY <3>1, Zenon DEF Entry
  <2>4. ToSet(a) \cup ToSet(b) = IF pkg \in {<<>>, c.pkg} THEN {c} ELSE {}
    BY <2>1
  <2> HIDE DEF a, b
  <2> QED
    BY <2>1, <2>2, <2>3, <2>4
<1> HIDE DEF Fits
<1>3. \A k \in DOMAIN R.loaded : R.loaded[k] \in Decls(R)
  BY RepoTypes
<1>4. ss \in [DOMAIN R.loaded -> Seq(Decls(R))]
  BY <1>2, <1>3
<1>5. ss \in Seq(Seq(Decls(R))) /\ DOMAIN ss = DOMAIN R.loaded
  <2> HIDE DEF ss
  <2> QED
    BY <1>4, RepoTypes, EachIsSeq
<1>6. \A k \in DOMAIN R.loaded : ToSet(ss[k]) = IF Fits(R.loaded[k]) THEN {R.loaded[k]} ELSE {}
  BY <1>2, <1>3
<1> HIDE DEF ss
<1>7. ToSet(FlattenSeq(ss)) = UNION {ToSet(ss[k]) : k \in DOMAIN ss}
  BY <1>5, FlattenFacts
<1>8. UNION {ToSet(ss[k]) : k \in DOMAIN ss} = {c \in ToSet(R.loaded) : Fits(c)}
  <2>1. ASSUME NEW c \in ToSet(R.loaded), Fits(c)
        PROVE  c \in UNION {ToSet(ss[k]) : k \in DOMAIN ss}
    <3>1. PICK k \in DOMAIN R.loaded : c = R.loaded[k]
      BY DEF ToSet
    <3>2. c \in ToSet(ss[k])
      BY <1>6, <2>1, <3>1
    <3> QED
      BY <1>5, <3>1, <3>2
  <2>2. ASSUME NEW k \in DOMAIN ss, NEW c \in ToSet(ss[k])
        PROVE  c \in ToSet(R.loaded) /\ Fits(c)
    <3>1. c = R.loaded[k] /\ Fits(c)
      BY <1>5, <1>6, <2>2
    <3> QED
      BY <1>5, <3>1 DEF ToSet
  <2> QED
    BY <2>1, <2>2
<1> QED
  BY <1>1, <1>7, <1>8 DEF Fits

LEMMA ByNameHas ==
  ASSUME NEW R, IsRepo(R), NEW n
  PROVE  /\ ByName(R, n) \in Seq(Decls(R))
         /\ ToSet(ByName(R, n)) = {c \in ToSet(R.loaded) : c.name = n}
BY LookupSeq, LookupHas DEF ByName

(* What names stand for bears one of them, and of what bears one of them,  *)
(* there is one of the same package and name.                              *)
LEMMA ResolveHas ==
  ASSUME NEW R, IsRepo(R), NEW names, IsSeq(names)
  PROVE  /\ \A c \in ToSet(Resolve(R, names)) : c \in ToSet(R.loaded) /\ c.name \in ToSet(names)
         /\ \A c \in ToSet(R.loaded) : c.name \in ToSet(names) =>
              \E o \in ToSet(Resolve(R, names)) : o.pkg = c.pkg /\ o.name = c.name
<1> DEFINE ss == [n \in DOMAIN names |-> ByName(R, names[n])]
           all == FlattenSeq(ss)
           Key(n) == <<all[n].pkg, all[n].name>>
           N == {n \in DOMAIN all : \A m \in 1..(n - 1) : Key(m) # Key(n)}
<1>1. ss \in [DOMAIN names -> Seq(Decls(R))]
  BY ByNameHas
<1>2. ss \in Seq(Seq(Decls(R))) /\ DOMAIN ss = DOMAIN names
  <2> HIDE DEF ss
  <2> QED
    BY <1>1, EachIsSeq DEF IsSeq
<1>3. all \in Seq(Decls(R)) /\ ToSet(all) = UNION {ToSet(ss[n]) : n \in DOMAIN ss}
  <2> HIDE DEF ss
  <2> QED
    BY <1>2, FlattenFacts
<1>4. ToSet(all) = {c \in ToSet(R.loaded) : c.name \in ToSet(names)}
  <2>1. \A n \in DOMAIN names : ToSet(ss[n]) = {c \in ToSet(R.loaded) : c.name = names[n]}
    BY ByNameHas
  <2> HIDE DEF ss, all
  <2>2. ASSUME NEW c \in ToSet(R.loaded), c.name \in ToSet(names)
        PROVE  c \in UNION {ToSet(ss[n]) : n \in DOMAIN ss}
    <3>1. PICK n \in DOMAIN names : c.name = names[n]
      BY <2>2 DEF ToSet
    <3>2. c \in ToSet(ss[n])
      BY <2>1, <3>1
    <3> QED
      BY <1>2, <3>1, <3>2
  <2>3. ASSUME NEW n \in DOMAIN ss, NEW c \in ToSet(ss[n])
        PROVE  c \in ToSet(R.loaded) /\ c.name \in ToSet(names)
    <3>1. c \in ToSet(R.loaded) /\ c.name = names[n]
      BY <1>2, <2>1, <2>3
    <3> QED
      BY <1>2, <3>1 DEF ToSet
  <2> QED
    BY <1>3, <2>2, <2>3
<1>5. Resolve(R, names) = At(all, N)
  BY Zenon DEF Resolve, Each, OnceBy
<1>6. N \in SUBSET DOMAIN all /\ DOMAIN all = 1..Len(all) /\ Len(all) \in Nat
  <2>1. DOMAIN all = 1..Len(all) /\ Len(all) \in Nat
    <3> HIDE DEF all
    <3> QED
      BY <1>3
  <2> QED
    BY <2>1
<1>7. ToSet(Resolve(R, names)) = {all[n] : n \in N}
  <2> HIDE DEF all, N
  <2> QED
    BY <1>3, <1>5, <1>6, AtFacts
<1>8. ASSUME NEW c \in ToSet(all)
      PROVE  \E o \in ToSet(Resolve(R, names)) : o.pkg = c.pkg /\ o.name = c.name
  <2> DEFINE M == {n \in DOMAIN all : Key(n) = <<c.pkg, c.name>>}
  <2>1. M # {} /\ M \in SUBSET Nat
    <3> HIDE DEF all
    <3> QED
      BY <1>6, <1>8 DEF ToSet
  <2>2. PICK n \in M : \A m \in M : n <= m
    <3> HIDE DEF M
    <3> QED
      BY <2>1, LeastIsThere
  <2>3. n \in DOMAIN all /\ Key(n) = <<c.pkg, c.name>>
    BY <2>2
  <2>4. \A m \in 1..(n - 1) : Key(m) # Key(n)
    <3> SUFFICES ASSUME NEW m \in 1..(n - 1), Key(m) = Key(n) PROVE FALSE
      OBVIOUS
    <3> HIDE DEF Key, all
    <3>1. m \in DOMAIN all /\ m < n
      BY <1>6, <2>3
    <3>2. m \in M
      BY <2>3, <3>1
    <3> QED
      BY <1>6, <2>2, <2>3, <3>1, <3>2
  <2>5. n \in N
    <3> HIDE DEF Key, all
    <3> QED
      BY <2>3, <2>4
  <2>6. all[n].pkg = c.pkg /\ all[n].name = c.name
    <3> HIDE DEF all
    <3> QED
      BY <2>3
  <2> QED
    BY <1>7, <2>5, <2>6
<1>9. \A n \in N : all[n] \in ToSet(all)
  <2> HIDE DEF all
  <2> QED
    BY DEF ToSet
<1> HIDE DEF all, N
<1> QED
  BY <1>4, <1>7, <1>8, <1>9

(* Where an edge for each declaration of a list leads to.                  *)
LEMMA TargetsOfEach ==
  ASSUME NEW s, NEW e, DOMAIN e = DOMAIN s, \A n \in DOMAIN s : e[n].target = ID(s[n])
  PROVE  TargetsOf(e) = {ID(c) : c \in ToSet(s)}
BY DEF TargetsOf, ToSet

(* Without a server the callers are in the other files, and call the name. *)
LEMMA CallersHas ==
  ASSUME NEW R, IsRepo(R), NEW d \in Decls(R), R.refs[d] = <<>>, d.name # 0,
         Len(ScanCallers(R, d, Unlimited)) < Unlimited
  PROVE  TargetsOf(ScanCallers(R, d, Unlimited)) =
           {ID(c) : c \in {c \in ToSet(R.now) : c.file \in ToSet(R.order) /\ c.file # d.file /\ CallsIt(R, d, c)}}
<1> DEFINE N == {n \in DOMAIN R.refs[d] : Found(R.refs[d][n]) /\ R.refs[d][n].kind \in {"function", "method"}}
           users == At(R.refs[d], N)
           U == [n \in DOMAIN users |-> Edge("callers", For(users[n]), "FUNCTION", users[n].file)]
           M == {n \in DOMAIN R.order : R.order[n] # d.file}
           files == At(R.order, M)
           In(f) == {n \in DOMAIN Symbols(R, f) : CallsIt(R, d, Symbols(R, f)[n])}
           ss == [n \in DOMAIN files |-> At(Symbols(R, files[n]), In(files[n]))]
           all == FlattenSeq(ss)
           E(c) == Edge("callers", ID(c), DomainKind(c), c.file)
           O == [n \in DOMAIN all |-> E(all[n])]
           these == {c \in ToSet(R.now) : c.file \in ToSet(R.order) /\ c.file # d.file /\ CallsIt(R, d, c)}
<1>1. FromServer(R, d, Unlimited) = <<>>
  <2>1. N = {} /\ N \in SUBSET DOMAIN R.refs[d]
    OBVIOUS
  <2>2. <<>> \in Seq({}) /\ R.refs[d] \in Seq({}) /\ DOMAIN R.refs[d] = {}
    OBVIOUS
  <2> HIDE DEF N
  <2>3. users \in Seq({})
    BY <2>1, <2>2, AtFacts
  <2>4. users = <<>> /\ DOMAIN users = {}
    <3> HIDE DEF users
    <3> QED
      BY <2>3
  <2>5. U = <<>>
    <3> HIDE DEF users
    <3> QED
      BY <2>4
  <2>6. FromServer(R, d, Unlimited) = UpTo(Unlimited, U)
    BY Zenon DEF FromServer, Where, Each, N
  <2> HIDE DEF U
  <2> QED
    BY <2>5, <2>6, NothingSeq DEF Unlimited
<1>2. \A f : At(Symbols(R, f), In(f)) \in Seq(Decls(R)) /\
             ToSet(At(Symbols(R, f), In(f))) = {c \in ToSet(R.now) : c.file = f /\ CallsIt(R, d, c)}
  <2> TAKE f
  <2> DEFINE s == Symbols(R, f)
             K == {n \in DOMAIN R.now : R.now[n].file = f}
  <2>1. s = At(R.now, K)
    BY DEF Symbols, Where
  <2>2. s \in Seq(Decls(R)) /\ ToSet(s) = {R.now[n] : n \in K}
    <3>1. K \in SUBSET DOMAIN R.now
      OBVIOUS
    <3> HIDE DEF K, s
    <3> QED
      BY <2>1, <3>1, RepoTypes, AtFacts
  <2>3. ToSet(s) = {c \in ToSet(R.now) : c.file = f}
    <3> HIDE DEF s
    <3> QED
      BY <2>2 DEF ToSet
  <2>4. In(f) = {n \in DOMAIN s : CallsIt(R, d, s[n])}
    OBVIOUS
  <2> DEFINE I == In(f)
  <2> HIDE DEF s, In
  <2>5. At(s, I) \in Seq(Decls(R)) /\ ToSet(At(s, I)) = {s[n] : n \in I}
    BY <2>2, <2>4, AtFacts
  <2>6. {s[n] : n \in I} = {c \in ToSet(s) : CallsIt(R, d, c)}
    BY <2>4 DEF ToSet
  <2> QED
    BY <2>3, <2>5, <2>6 DEF s
<1>3. files \in Seq(ToSet(R.order)) /\ ToSet(files) = {f \in ToSet(R.order) : f # d.file}
  <2>1. R.order \in Seq(ToSet(R.order)) /\ M \in SUBSET DOMAIN R.order
    BY DEF IsRepo, IsSeq
  <2>2. {R.order[n] : n \in M} = {f \in ToSet(R.order) : f # d.file}
    BY DEF ToSet
  <2> HIDE DEF M
  <2> QED
    BY <2>1, <2>2, AtFacts
<1>4. all \in Seq(Decls(R)) /\ ToSet(all) = UNION {ToSet(ss[n]) : n \in DOMAIN ss} /\ DOMAIN ss = DOMAIN files
  <2>1. ss \in [DOMAIN files -> Seq(Decls(R))]
    <3> HIDE DEF In, files
    <3> QED
      BY <1>2
  <2>2. ss \in Seq(Seq(Decls(R))) /\ DOMAIN ss = DOMAIN files
    <3> HIDE DEF ss, files
    <3> QED
      BY <1>3, <2>1, EachIsSeq
  <2> HIDE DEF ss
  <2> QED
    BY <2>2, FlattenFacts
<1>5. ToSet(all) = these
  <2>1. \A n \in DOMAIN files : ToSet(ss[n]) = {c \in ToSet(R.now) : c.file = files[n] /\ CallsIt(R, d, c)}
    <3> HIDE DEF In, files
    <3> QED
      BY <1>2
  <2>2. \A f : f \in ToSet(files) <=> \E n \in DOMAIN files : f = files[n]
    BY DEF ToSet
  <2> HIDE DEF ss, all, files
  <2>3. ASSUME NEW c \in these
        PROVE  c \in UNION {ToSet(ss[n]) : n \in DOMAIN ss}
    <3>1. PICK n \in DOMAIN files : c.file = files[n]
      BY <1>3, <2>2
    <3>2. c \in ToSet(ss[n])
      BY <2>1, <3>1
    <3> QED
      BY <1>4, <3>1, <3>2
  <2>4. ASSUME NEW n \in DOMAIN ss, NEW c \in ToSet(ss[n])
        PROVE  c \in these
    <3>1. c \in ToSet(R.now) /\ c.file = files[n] /\ CallsIt(R, d, c)
      BY <1>4, <2>1, <2>4
    <3> QED
      BY <1>3, <1>4, <2>2, <3>1
  <2> HIDE DEF these
  <2> QED
    BY <1>4, <2>3, <2>4
<1>6. ScanCallers(R, d, Unlimited) = UpTo(Unlimited, O)
  <2>1. FromOtherFiles(R, d, Unlimited) = UpTo(Unlimited, O)
    BY Zenon DEF FromOtherFiles, Where, Each
  <2> HIDE DEF O
  <2> QED
    BY <1>1, <2>1, Zenon DEF ScanCallers
<1>7. IsSeq(all)
  <2> HIDE DEF all
  <2> QED
    BY <1>4, IsSeqOf
<1>8. IsSeq(O)
  <2> HIDE DEF all
  <2>1. O = [n \in DOMAIN all |-> O[n]]
    OBVIOUS
  <2> HIDE DEF O
  <2> QED
    BY <1>7, <2>1, EachSeq
<1>9. ScanCallers(R, d, Unlimited) = O
  <2> HIDE DEF O
  <2>1. O \in Seq(ToSet(O)) /\ Unlimited \in Nat /\ Len(O) \in Nat
    BY <1>8 DEF IsSeq, Unlimited
  <2>2. /\ Len(UpTo(Unlimited, O)) = IF Unlimited < Len(O) THEN Unlimited ELSE Len(O)
        /\ Len(O) <= Unlimited => UpTo(Unlimited, O) = O
    BY <2>1, UpToFacts
  <2> QED
    BY <1>6, <2>1, <2>2
<1>10. TargetsOf(O) = {ID(c) : c \in ToSet(all)}
  <2>1. DOMAIN O = DOMAIN all /\ \A n \in DOMAIN all : O[n].target = ID(all[n])
    <3> HIDE DEF all
    <3> QED
      BY DEF Edge
  <2> HIDE DEF O, E, all
  <2> QED
    BY <2>1, TargetsOfEach
<1> HIDE DEF O, E, all, these
<1> QED
  BY <1>5, <1>9, <1>10 DEF these

(* The callees are what the names on record stand for: a body that calls   *)
(* nothing on record calls nothing.                                        *)
LEMMA CalleesHave ==
  ASSUME NEW R, IsRepo(R), AsIndexed(R), NEW d \in Decls(R), d.name # 0,
         Len(ScanCallees(R, d, Unlimited)) < Unlimited
  PROVE  TargetsOf(ScanCallees(R, d, Unlimited)) = {ID(c) : c \in ToSet(Resolve(R, EdgesByCaller(R, d)))}
<1> DEFINE indexed == EdgesByCaller(R, d)
           N == {n \in DOMAIN Body(R, d) : Body(R, d)[n] # 0}
           names == At(Body(R, d), N)
           known == CalleeEdges(d, Resolve(R, indexed))
           all == ScanCallees(R, d, Unlimited)
<1>1. all = CASE d.name = 0 -> <<>>
              [] d.name # 0 /\ indexed # <<>> -> UpTo(Unlimited, known)
              [] OTHER -> CalleeEdges(d, Resolve(R, names))
  BY Zenon DEF ScanCallees, Where
<1>2. IsSeq(indexed)
  BY CallerSeq, IsSeqOf
<1>3. IsSeq(Resolve(R, indexed))
  <2> DEFINE r == Resolve(R, indexed)
  <2>1. r \in Seq(Decls(R))
    <3> HIDE DEF indexed
    <3> QED
      BY <1>2, ResolveSeq
  <2> HIDE DEF r
  <2>2. IsSeq(r)
    BY <2>1, IsSeqOf
  <2> QED
    BY <2>2 DEF r
<1>4. IsSeq(known) /\ TargetsOf(known) = {ID(c) : c \in ToSet(Resolve(R, indexed))}
  <2> DEFINE r == Resolve(R, indexed)
             e == [n \in DOMAIN r |-> Edge("callees", ID(r[n]), DomainKind(r[n]), d.file)]
  <2>1. known = e
    BY DEF CalleeEdges, Each
  <2>2. IsSeq(r)
    BY <1>3
  <2> HIDE DEF r
  <2>3. e = [n \in DOMAIN r |-> e[n]]
    OBVIOUS
  <2>4. DOMAIN e = DOMAIN r /\ \A n \in DOMAIN r : e[n].target = ID(r[n])
    BY DEF Edge
  <2> HIDE DEF e
  <2>5. IsSeq(e)
    BY <2>2, <2>3, EachSeq
  <2>6. TargetsOf(e) = {ID(c) : c \in ToSet(r)}
    BY <2>4, TargetsOfEach
  <2> HIDE DEF known
  <2> QED
    BY <2>1, <2>5, <2>6 DEF r
<1>5. CASE indexed # <<>>
  <2>1. all = UpTo(Unlimited, known)
    <3> HIDE DEF indexed, known, names
    <3> QED
      BY <1>1, <1>5
  <2> HIDE DEF known, all
  <2>2. known \in Seq(ToSet(known)) /\ Unlimited \in Nat /\ Len(known) \in Nat
    BY <1>4 DEF IsSeq, Unlimited
  <2>3. /\ Len(UpTo(Unlimited, known)) = IF Unlimited < Len(known) THEN Unlimited ELSE Len(known)
        /\ Len(known) <= Unlimited => UpTo(Unlimited, known) = known
    BY <2>2, UpToFacts
  <2>4. all = known
    BY <2>1, <2>2, <2>3 DEF all
  <2> QED
    BY <1>4, <2>4 DEF all
<1>6. CASE indexed = <<>>
  <2>1. ASSUME NEW c \in ToSet(R.now), CallerKey(c) = CallerKey(d)
        PROVE  c.calls = <<>>
    <3>1. c \in ToSet(R.loaded) /\ c \in Decls(R)
      BY DEF AsIndexed, Decls
    <3>2. SUFFICES ASSUME c.calls # <<>> PROVE FALSE
      OBVIOUS
    <3>3. Callable(c) /\ c.calls \in Seq(Nat)
      BY <3>1, <3>2 DEF AsIndexed, IsRepo
    <3>4. c.calls[1] \in ToSet(c.calls)
      BY <3>2, <3>3 DEF ToSet
    <3>5. c.calls[1] \in ToSet(indexed)
      <4>1. ToSet(indexed) =
              UNION {ToSet(o.calls) : o \in {o \in ToSet(R.loaded) : Callable(o) /\ CallerKey(o) = CallerKey(d)}}
        BY CallerSeq
      <4> HIDE DEF indexed
      <4> QED
        BY <2>1, <3>1, <3>3, <3>4, <4>1
    <3> HIDE DEF indexed
    <3> QED
      BY <1>6, <3>5 DEF ToSet
  <2>2. Body(R, d) = <<>>
    <3> DEFINE s == Symbols(R, d.file)
               K == {n \in DOMAIN R.now : R.now[n].file = d.file}
               M == {n \in DOMAIN s : CallerKey(s[n]) = CallerKey(d)}
               same == At(s, M)
    <3>1. s = At(R.now, K) /\ K \in SUBSET DOMAIN R.now
      BY DEF Symbols, Where
    <3>2. s \in Seq(Decls(R)) /\ ToSet(s) = {R.now[n] : n \in K}
      <4> HIDE DEF s, K
      <4> QED
        BY <3>1, RepoTypes, AtFacts
    <3>3. Body(R, d) = IF same = <<>> THEN <<>> ELSE same[1].calls
      BY Zenon DEF Body, Where
    <3> HIDE DEF s
    <3>4. M \in SUBSET DOMAIN s
      OBVIOUS
    <3>5. same \in Seq(Decls(R)) /\ ToSet(same) = {s[n] : n \in M}
      <4> HIDE DEF M
      <4> QED
        BY <3>2, <3>4, AtFacts
    <3>6. \A c \in ToSet(same) : c \in ToSet(R.now) /\ CallerKey(c) = CallerKey(d)
      <4> SUFFICES ASSUME NEW n \in M PROVE s[n] \in ToSet(R.now) /\ CallerKey(s[n]) = CallerKey(d)
        <5> HIDE DEF M, same
        <5> QED
          BY <3>5
      <4>1. s[n] \in ToSet(s)
        BY DEF ToSet
      <4> QED
        BY <3>2, <4>1 DEF ToSet
    <3> HIDE DEF same
    <3>7. same # <<>> => same[1] \in ToSet(same)
      BY <3>5 DEF ToSet
    <3> QED
      BY <2>1, <3>3, <3>6, <3>7
  <2>3. names = <<>>
    <3> DEFINE b == Body(R, d)
               P == {n \in DOMAIN b : b[n] # 0}
    <3>1. b = <<>> /\ names = At(b, P)
      BY <2>2
    <3> HIDE DEF b, names
    <3>2. b \in Seq({}) /\ P \in SUBSET DOMAIN b
      BY <3>1
    <3> HIDE DEF P
    <3>3. names \in Seq({})
      BY <3>1, <3>2, AtFacts
    <3> QED
      BY <3>3
  <2>4. all = known
    <3> HIDE DEF indexed, names
    <3> QED
      BY <1>1, <1>6, <2>3
  <2> HIDE DEF known, all
  <2> QED
    BY <1>4, <2>4 DEF all
<1> QED
  BY <1>5, <1>6

(* The two directions of a call agree.                                     *)
LEMMA DirectionsAgree ==
  ASSUME NEW R, IsRepo(R), AsIndexed(R), NEW d \in Decls(R)
  PROVE  CallersAnswerCallees(R, d)
<1> DEFINE callees == ScanCallees(R, d, Unlimited)
           called == {<<c.pkg, c.name>> : c \in {c \in Decls(R) : ID(c) \in TargetsOf(callees)}}
           Callers(t) == ScanCallers(R, t, Unlimited)
<1>1. SUFFICES ASSUME Callable(d), Len(callees) < Unlimited, NEW t \in Decls(R), t.file # d.file,
                      Len(Callers(t)) < Unlimited
               PROVE  <<t.pkg, t.name>> \in called <=> ID(d) \in TargetsOf(Callers(t))
  BY DEF CallersAnswerCallees
<1> DEFINE indexed == EdgesByCaller(R, d)
           L == ToSet(R.loaded)
<1>2. Decls(R) = L /\ ToSet(R.now) = L /\ d.name # 0
  BY <1>1 DEF AsIndexed, Decls, Callable
<1>3. TargetsOf(callees) = {ID(c) : c \in ToSet(Resolve(R, indexed))}
  BY <1>1, <1>2, CalleesHave
<1>4. \A n : n \in ToSet(indexed) <=>
               \E c \in L : Callable(c) /\ CallerKey(c) = CallerKey(d) /\ n \in ToSet(c.calls)
  BY <1>2, CallerSeq
<1>5. IsSeq(indexed)
  BY CallerSeq, IsSeqOf
<1>6. /\ \A c \in ToSet(Resolve(R, indexed)) : c \in L /\ c.name \in ToSet(indexed)
      /\ \A c \in L : c.name \in ToSet(indexed) =>
           \E o \in ToSet(Resolve(R, indexed)) : o.pkg = c.pkg /\ o.name = c.name
  <2> HIDE DEF indexed
  <2> QED
    BY <1>5, ResolveHas
<1>7. ASSUME t.name # 0
      PROVE  \A i : i \in TargetsOf(Callers(t)) <=>
               \E c \in L : i = ID(c) /\ c.file # t.file /\ Callable(c) /\ t.name \in ToSet(c.calls)
  <2>1. R.refs[t] = <<>> /\ \A c \in L : c.file \in ToSet(R.order)
    BY <1>2 DEF AsIndexed
  <2> QED
    BY <1>1, <1>2, <1>7, <2>1, CallersHas DEF CallsIt
<1>8. t.name = 0 => TargetsOf(Callers(t)) = {}
  <2>1. t.name = 0 => Callers(t) = <<>>
    BY Zenon DEF ScanCallers
  <2> QED
    BY <2>1 DEF TargetsOf, ToSet
<1>9. \A c, e \in L : Callable(c) /\ Callable(e) => (ID(c) = ID(e) <=> CallerKey(c) = CallerKey(e))
  BY <1>2 DEF AsIndexed
<1>10. ASSUME NEW c \in Decls(R), NEW o \in Decls(R), ID(c) = ID(o) PROVE c.name = o.name
  <2>1. c.pkg \in Seq(ToSet(c.pkg)) /\ o.pkg \in Seq(ToSet(o.pkg))
    BY DEF IsRepo, IsSeq
  <2> QED
    BY <1>10, <2>1, IdHasName
<1>11. ASSUME <<t.pkg, t.name>> \in called PROVE ID(d) \in TargetsOf(Callers(t))
  <2>1. PICK c \in Decls(R) : ID(c) \in TargetsOf(callees) /\ t.pkg = c.pkg /\ t.name = c.name
    BY <1>11
  <2>2. PICK o \in ToSet(Resolve(R, indexed)) : ID(c) = ID(o)
    BY <1>3, <2>1
  <2>3. t.name \in ToSet(indexed)
    BY <1>2, <1>6, <1>10, <2>1, <2>2
  <2>4. PICK e \in L : Callable(e) /\ CallerKey(e) = CallerKey(d) /\ t.name \in ToSet(e.calls)
    BY <1>4, <2>3
  <2>5. t.name # 0
    BY <1>2, <2>4 DEF AsIndexed
  <2>6. e.file = d.file
    BY <2>4 DEF CallerKey
  <2>7. ID(e) = ID(d)
    BY <1>1, <1>2, <1>9, <2>4
  <2> QED
    BY <1>1, <1>7, <2>4, <2>5, <2>6, <2>7
<1>12. ASSUME ID(d) \in TargetsOf(Callers(t)) PROVE <<t.pkg, t.name>> \in called
  <2>1. t.name # 0
    BY <1>8, <1>12
  <2>2. PICK e \in L : ID(d) = ID(e) /\ Callable(e) /\ t.name \in ToSet(e.calls)
    BY <1>7, <1>12, <2>1
  <2>3. CallerKey(e) = CallerKey(d)
    BY <1>1, <1>2, <1>9, <2>2
  <2>4. t.name \in ToSet(indexed)
    BY <1>4, <2>2, <2>3
  <2>5. PICK o \in ToSet(Resolve(R, indexed)) : o.pkg = t.pkg /\ o.name = t.name
    BY <1>2, <1>6, <2>4
  <2>6. o \in Decls(R) /\ ID(o) \in TargetsOf(callees)
    BY <1>2, <1>3, <1>6, <2>5
  <2> HIDE DEF callees
  <2> QED
    BY <2>5, <2>6
<1> QED
  BY <1>11, <1>12

(* What node_edges answers is what it owes, for every repo, id, list of    *)
(* kinds and limit: the first edges of each kind, a flag that is up just   *)
(* when there are more, and callers that answer callees.                   *)
THEOREM NodeEdgesExact ==
  ASSUME NEW R, IsRepo(R), NEW i, NEW kinds, NEW limit \in Int, limit < Unlimited
  PROVE  EdgesOwed(R, i, kinds, limit, NodeEdgesAnswer(R, i, kinds, limit))
<1> DEFINE answer == NodeEdgesAnswer(R, i, kinds, limit)
<1>1. answer.ok => Found(LocateSymbol(R, i))
  BY Zenon DEF NodeEdgesAnswer
<1>2. Found(LocateSymbol(R, i)) => LocateSymbol(R, i) \in Decls(R)
  BY LocateSymbolType DEF Found
<1> HIDE DEF answer
<1> QED
  BY <1>1, <1>2, FirstEdgesGiven, DirectionsAgree DEF EdgesOwed, answer

-----------------------------------------------------------------------------
(* The way back from a name or an id.  A list of numbers in their order,   *)
(* with all of a set, is its order.                                        *)
LEMMA Enumerates ==
  ASSUME NEW S \in SUBSET Nat, IsFiniteSet(S), NEW n \in Nat, NEW f \in [1..n -> S],
         \A j, k \in 1..n : j < k => f[j] < f[k],
         \A x \in S : \E k \in 1..n : f[k] = x
  PROVE  n = Cardinality(S) /\ \A k \in 1..n : Nth(S, k) = f[k]
<1>1. ASSUME NEW k \in 1..n PROVE Rank(S, f[k]) = k - 1
  <2> DEFINE below == 1..(k - 1)
             less == {m \in S : m < f[k]}
             g == [j \in below |-> f[j]]
  <2>1. k \in Nat /\ \A j \in below : j \in 1..n /\ j < k
    OBVIOUS
  <2>2. \A j \in below : f[j] \in less
    BY <2>1
  <2>3. \A i, j \in below : f[i] = f[j] => i = j
    <3>1. \A i, j \in below : i = j \/ i < j \/ j < i
      OBVIOUS
    <3>2. \A j \in below : j \in 1..n /\ f[j] \in Nat
      BY <2>1
    <3> HIDE DEF below
    <3> QED
      BY <3>1, <3>2
  <2>4. \A x \in less : \E j \in below : f[j] = x
    <3> TAKE x \in less
    <3>1. PICK j \in 1..n : f[j] = x
      OBVIOUS
    <3>2. j < k
      <4> SUFFICES ASSUME ~(j < k) PROVE FALSE
        OBVIOUS
      <4>1. j = k \/ k < j
        OBVIOUS
      <4>2. f[j] < f[k] /\ f[j] \in Nat /\ f[k] \in Nat
        BY <3>1
      <4> QED
        BY <4>1, <4>2
    <3> QED
      BY <3>1, <3>2
  <2>5. g \in Bijection(below, less)
    <3> HIDE DEF below, less
    <3>1. g \in [below -> less] /\ \A j \in below : g[j] = f[j]
      BY <2>2
    <3> HIDE DEF g
    <3> QED
      BY <2>3, <2>4, <3>1 DEF Bijection, Injection, Surjection, IsInjective
  <2>6. ExistsBijection(below, less)
    BY <2>5 DEF ExistsBijection
  <2>7. IsFiniteSet(below) /\ Cardinality(below) = k - 1
    <3>1. 1 \in Int /\ k - 1 \in Int
      OBVIOUS
    <3>2. IsFiniteSet(below) /\ Cardinality(below) = IF 1 > k - 1 THEN 0 ELSE k - 1 - 1 + 1
      BY <3>1, FS_Interval
    <3> QED
      BY <3>2
  <2> HIDE DEF below, less
  <2>8. Cardinality(less) = k - 1
    BY <2>6, <2>7, FS_Bijection
  <2> QED
    BY <2>8 DEF Rank, less
<1>2. f \in Bijection(1..n, S)
  <2>1. \A i, j \in 1..n : f[i] = f[j] => i = j
    <3>1. \A i, j \in 1..n : i = j \/ i < j \/ j < i
      OBVIOUS
    <3>2. \A j \in 1..n : f[j] \in Nat
      OBVIOUS
    <3> QED
      BY <3>1, <3>2
  <2> QED
    BY <2>1 DEF Bijection, Injection, Surjection, IsInjective
<1>3. n = Cardinality(S)
  <2>1. ExistsBijection(1..n, S)
    BY <1>2 DEF ExistsBijection
  <2>2. IsFiniteSet(1..n) /\ Cardinality(1..n) = n
    <3>1. 1 \in Int /\ n \in Int
      OBVIOUS
    <3>2. IsFiniteSet(1..n) /\ Cardinality(1..n) = IF 1 > n THEN 0 ELSE n - 1 + 1
      BY <3>1, FS_Interval
    <3> QED
      BY <3>2
  <2> QED
    BY <2>1, <2>2, FS_Bijection
<1>4. ASSUME NEW k \in 1..n PROVE Nth(S, k) = f[k]
  <2>1. Nth(S, k) \in S /\ Rank(S, Nth(S, k)) = k - 1
    BY <1>3, NthFacts
  <2>2. f[k] \in S /\ Rank(S, f[k]) = k - 1
    BY <1>1
  <2> DEFINE x == Nth(S, k)
             y == f[k]
  <2> HIDE DEF x, y
  <2>3. x \in S /\ y \in S /\ Rank(S, x) = k - 1 /\ Rank(S, y) = k - 1
    BY <2>1, <2>2 DEF x, y
  <2>4. ~(x < y) /\ ~(y < x)
    <3>1. x < y => Rank(S, x) < Rank(S, y)
      BY <2>3, RankMonotone
    <3>2. y < x => Rank(S, y) < Rank(S, x)
      BY <2>3, RankMonotone
    <3> QED
      BY <2>3, <3>1, <3>2
  <2>5. x = y
    BY <2>3, <2>4
  <2> QED
    BY <2>5 DEF x, y
<1> QED
  BY <1>3, <1>4

(* A selection of a selection.                                             *)
LEMMA AtAt ==
  ASSUME NEW T, NEW s \in Seq(T), NEW N \in SUBSET DOMAIN s, NEW K \in SUBSET DOMAIN At(s, N)
  PROVE  At(At(s, N), K) = At(s, {Nth(N, k) : k \in K})
<1> DEFINE a == At(s, N)
           M == {Nth(N, k) : k \in K}
           f == [j \in 1..Cardinality(K) |-> Nth(N, Nth(K, j))]
<1>1. DOMAIN s = 1..Len(s) /\ Len(s) \in Nat
  OBVIOUS
<1>2. N \in SUBSET Nat /\ IsFiniteSet(N)
  <2>1. 1 \in Int /\ Len(s) \in Int
    BY <1>1
  <2>2. IsFiniteSet(1..Len(s))
    BY <2>1, FS_Interval
  <2> QED
    BY <1>1, <2>2, FS_Subset
<1>3. a = [k \in 1..Cardinality(N) |-> s[Nth(N, k)]]
  BY DEF At
<1>4. /\ Cardinality(N) \in Nat
      /\ \A k \in 1..Cardinality(N) : Nth(N, k) \in N
      /\ \A j, k \in 1..Cardinality(N) : j < k => Nth(N, j) < Nth(N, k)
  BY <1>2, NthFacts
<1>5. K \in SUBSET Nat /\ IsFiniteSet(K) /\ K \subseteq 1..Cardinality(N)
  <2>1. DOMAIN a = 1..Cardinality(N)
    BY <1>3
  <2>2. 1 \in Int /\ Cardinality(N) \in Int
    BY <1>4
  <2>3. IsFiniteSet(1..Cardinality(N))
    BY <2>2, FS_Interval
  <2>4. K \in SUBSET (1..Cardinality(N))
    BY <2>1
  <2>5. IsFiniteSet(K)
    BY <2>3, <2>4, FS_Subset
  <2> QED
    BY <2>4, <2>5
<1>6. /\ Cardinality(K) \in Nat
      /\ \A k \in 1..Cardinality(K) : Nth(K, k) \in K
      /\ \A j, k \in 1..Cardinality(K) : j < k => Nth(K, j) < Nth(K, k)
      /\ \A x \in K : \E k \in 1..Cardinality(K) : Nth(K, k) = x
  BY <1>5, NthFacts
<1>7. M \in SUBSET N /\ M \in SUBSET Nat /\ IsFiniteSet(M)
  <2>1. M \in SUBSET N
    BY <1>4, <1>5
  <2> HIDE DEF M
  <2> QED
    BY <1>2, <2>1, FS_Subset
<1>8. f \in [1..Cardinality(K) -> M] /\ \A j \in 1..Cardinality(K) : f[j] = Nth(N, Nth(K, j))
  BY <1>6
<1>9. \A x \in M : \E j \in 1..Cardinality(K) : f[j] = x
  BY <1>6, <1>8
<1>10. \A i, j \in 1..Cardinality(K) : i < j => f[i] < f[j]
  <2> TAKE i, j \in 1..Cardinality(K)
  <2> HAVE i < j
  <2>1. Nth(K, i) < Nth(K, j) /\ Nth(K, i) \in 1..Cardinality(N) /\ Nth(K, j) \in 1..Cardinality(N)
    BY <1>5, <1>6
  <2>2. Nth(N, Nth(K, i)) < Nth(N, Nth(K, j))
    BY <1>4, <2>1
  <2> QED
    BY <1>8, <2>2
<1> HIDE DEF f, M, a
<1>11. Cardinality(K) = Cardinality(M) /\ \A j \in 1..Cardinality(K) : Nth(M, j) = f[j]
  <2> DEFINE c == Cardinality(K)
  <2>1. /\ c \in Nat /\ f \in [1..c -> M] /\ \A i, j \in 1..c : i < j => f[i] < f[j]
        /\ \A x \in M : \E j \in 1..c : f[j] = x
    BY <1>6, <1>8, <1>9, <1>10
  <2> HIDE DEF c
  <2>2. c = Cardinality(M) /\ \A j \in 1..c : Nth(M, j) = f[j]
    BY <1>7, <2>1, Enumerates
  <2> QED
    BY <2>2 DEF c
<1>12. \A j \in 1..Cardinality(K) : a[Nth(K, j)] = s[Nth(M, j)]
  BY <1>3, <1>5, <1>6, <1>8, <1>11
<1>13. At(a, K) = At(s, M)
  BY <1>11, <1>12 DEF At
<1> QED
  BY <1>13 DEF a, M

(* A selection with one more position, which comes after all.              *)
LEMMA AtOneMore ==
  ASSUME NEW T, NEW s \in Seq(T), NEW i \in DOMAIN s, NEW N \in SUBSET DOMAIN s, \A n \in N : n < i
  PROVE  At(s, N \cup {i}) = At(s, N) \o <<s[i]>>
<1> DEFINE c == Cardinality(N)
           M == N \cup {i}
           f == [k \in 1..(c + 1) |-> IF k <= c THEN Nth(N, k) ELSE i]
           a == At(s, N)
           b == <<s[i]>>
           g == At(s, M)
<1>1. DOMAIN s = 1..Len(s) /\ Len(s) \in Nat /\ i \in Nat /\ s[i] \in T
  OBVIOUS
<1>2. M \in SUBSET Nat /\ N \in SUBSET Nat /\ IsFiniteSet(N) /\ IsFiniteSet(M)
  <2>1. 1 \in Int /\ Len(s) \in Int
    BY <1>1
  <2>2. IsFiniteSet(1..Len(s))
    BY <2>1, FS_Interval
  <2>3. M \in SUBSET (1..Len(s)) /\ N \in SUBSET (1..Len(s))
    BY <1>1
  <2>4. IsFiniteSet(M) /\ IsFiniteSet(N)
    <3> HIDE DEF M
    <3> QED
      BY <2>2, <2>3, FS_Subset
  <2> QED
    BY <1>1, <2>3, <2>4
<1>3. /\ c \in Nat
      /\ \A k \in 1..c : Nth(N, k) \in N
      /\ \A j, k \in 1..c : j < k => Nth(N, j) < Nth(N, k)
      /\ \A x \in N : \E k \in 1..c : Nth(N, k) = x
  BY <1>2, NthFacts
<1> HIDE DEF c
<1>4. /\ \A k \in 1..c : k \in 1..(c + 1) /\ f[k] = Nth(N, k)
      /\ c + 1 \in 1..(c + 1) /\ f[c + 1] = i
      /\ \A k \in 1..(c + 1) : k \in 1..c \/ k = c + 1
  BY <1>3
<1>5. f \in [1..(c + 1) -> M]
  <2>1. \A k \in 1..(c + 1) : f[k] \in M
    <3> HIDE DEF f
    <3> QED
      BY <1>3, <1>4
  <2>2. f = [k \in 1..(c + 1) |-> f[k]]
    OBVIOUS
  <2> HIDE DEF f, M
  <2> QED
    BY <2>1, <2>2
<1> HIDE DEF f
<1>6. \A j, k \in 1..(c + 1) : j < k => f[j] < f[k]
  <2> TAKE j, k \in 1..(c + 1)
  <2> HAVE j < k
  <2>1. j \in 1..c
    BY <1>3
  <2>2. CASE k \in 1..c
    BY <1>3, <1>4, <2>1, <2>2
  <2>3. CASE k = c + 1
    BY <1>3, <1>4, <2>1, <2>3
  <2> QED
    BY <1>4, <2>2, <2>3
<1>7. \A x \in M : \E k \in 1..(c + 1) : f[k] = x
  BY <1>3, <1>4
<1>8. Cardinality(M) = c + 1 /\ \A k \in 1..(c + 1) : Nth(M, k) = f[k]
  <2> DEFINE d == c + 1
  <2>1. d \in Nat
    BY <1>3
  <2>2. /\ f \in [1..d -> M] /\ \A j, k \in 1..d : j < k => f[j] < f[k]
        /\ \A x \in M : \E k \in 1..d : f[k] = x
    BY <1>5, <1>6, <1>7
  <2> HIDE DEF d, M
  <2>3. d = Cardinality(M) /\ \A k \in 1..d : Nth(M, k) = f[k]
    BY <1>2, <2>1, <2>2, Enumerates
  <2> QED
    BY <2>3 DEF d
<1>9. a = [k \in 1..c |-> s[Nth(N, k)]]
  BY DEF At, c
<1>10. g = [k \in 1..(c + 1) |-> s[Nth(M, k)]]
  <2> HIDE DEF M
  <2> QED
    BY <1>8 DEF At
<1>11. a \in Seq(T) /\ Len(a) = c /\ b \in Seq(T) /\ Len(b) = 1 /\ b[1] = s[i]
  BY <1>1, AtFacts DEF c
<1> HIDE DEF a, b, g, M
<1>12. a \o b = [k \in 1..(c + 1) |-> IF k <= c THEN a[k] ELSE b[k - c]]
  <2>1. /\ a \o b \in Seq(T) /\ Len(a \o b) = Len(a) + Len(b)
        /\ \A k \in 1..(Len(a) + Len(b)) : (a \o b)[k] = IF k <= Len(a) THEN a[k] ELSE b[k - Len(a)]
    BY <1>11, ConcatProperties
  <2> DEFINE ab == a \o b
  <2> HIDE DEF ab
  <2>2. ab \in Seq(T) /\ Len(ab) = c + 1 /\ \A k \in 1..(c + 1) : ab[k] = IF k <= c THEN a[k] ELSE b[k - c]
    BY <1>11, <2>1 DEF ab
  <2>3. ab = [k \in 1..Len(ab) |-> ab[k]]
    BY <2>2
  <2> QED
    BY <2>2, <2>3 DEF ab
<1>13. ASSUME NEW k \in 1..(c + 1) PROVE g[k] = IF k <= c THEN a[k] ELSE b[k - c]
  <2>1. g[k] = s[f[k]]
    BY <1>8, <1>10
  <2>2. CASE k \in 1..c
    BY <1>3, <1>4, <1>9, <2>1, <2>2
  <2>3. CASE k = c + 1
    <3>1. ~(k <= c) /\ k - c = 1
      BY <1>3, <2>3
    <3> QED
      BY <1>4, <1>11, <2>1, <2>3, <3>1
  <2> QED
    BY <1>4, <2>2, <2>3
<1>14. g = a \o b
  BY <1>10, <1>12, <1>13
<1> QED
  BY <1>14 DEF a, b, g, M

(* The elements at some positions, each in a sequence of its own.          *)
LEMMA FlattenSome ==
  ASSUME NEW T, NEW s \in Seq(T), NEW N \in SUBSET DOMAIN s
  PROVE  FlattenSeq([n \in DOMAIN s |-> IF n \in N THEN <<s[n]>> ELSE <<>>]) = At(s, N)
<1> DEFINE e == [n \in DOMAIN s |-> IF n \in N THEN <<s[n]>> ELSE <<>>]
           L == Len(s)
           upto(n) == {m \in N : m <= n}
           f == [i \in 1..L |-> At(s, upto(i))]
<1>1. DOMAIN s = 1..L /\ L \in Nat /\ \A n \in 1..L : s[n] \in T
  OBVIOUS
<1>2. e \in Seq(Seq(T)) /\ Len(e) = L /\ DOMAIN e = 1..L
  <2>1. \A n \in DOMAIN s : e[n] \in Seq(T)
    <3>1. <<>> \in Seq(T) /\ \A x \in T : <<x>> \in Seq(T)
      OBVIOUS
    <3> QED
      BY <1>1, <3>1
  <2>2. e = [n \in DOMAIN s |-> e[n]]
    OBVIOUS
  <2> HIDE DEF e
  <2>3. e \in [DOMAIN s -> Seq(T)]
    BY <2>1, <2>2
  <2> QED
    BY <1>1, <2>3, EachIsSeq
<1>3. \A n \in 1..L : e[n] = IF n \in N THEN <<s[n]>> ELSE <<>>
  BY <1>1
<1>4. At(s, {}) = <<>>
  <2>1. Cardinality({}) = 0
    BY FS_EmptySet
  <2> QED
    BY <2>1 DEF At
<1>5. ASSUME NEW i \in 1..L
      PROVE  /\ upto(i) \in SUBSET DOMAIN s /\ At(s, upto(i)) \in Seq(T)
             /\ At(s, upto(i)) = At(s, upto(i - 1)) \o e[i]
             /\ i = 1 => upto(i - 1) = {}
  <2>1. upto(i - 1) \in SUBSET DOMAIN s /\ (\A m \in upto(i - 1) : m < i) /\ i \in DOMAIN s
    BY <1>1
  <2>2. upto(i) = IF i \in N THEN upto(i - 1) \cup {i} ELSE upto(i - 1)
    BY <1>1
  <2>3. upto(i) \in SUBSET DOMAIN s
    BY <1>1
  <2>4. i = 1 => upto(i - 1) = {}
    BY <1>1
  <2> HIDE DEF upto
  <2>5. At(s, upto(i)) \in Seq(T) /\ At(s, upto(i - 1)) \in Seq(T)
    BY <2>1, <2>3, AtFacts
  <2>6. e[i] = IF i \in N THEN <<s[i]>> ELSE <<>>
    BY <1>3
  <2> HIDE DEF e
  <2>7. At(s, upto(i)) = At(s, upto(i - 1)) \o e[i]
    <3>1. CASE i \in N
      <4>1. At(s, upto(i - 1) \cup {i}) = At(s, upto(i - 1)) \o <<s[i]>>
        BY <2>1, AtOneMore
      <4> QED
        BY <2>2, <2>6, <3>1, <4>1
    <3>2. CASE i \notin N
      <4>1. At(s, upto(i - 1)) \o <<>> = At(s, upto(i - 1))
        BY <2>5
      <4>2. upto(i) = upto(i - 1) /\ e[i] = <<>>
        BY <2>2, <2>6, <3>2
      <4> QED
        BY <4>1, <4>2
    <3> QED
      BY <3>1, <3>2
  <2> QED
    BY <2>3, <2>4, <2>5, <2>7
<1>6. \A i \in 1..L : f[i] = At(s, upto(i))
  OBVIOUS
<1>7. f = [i \in 1..L |-> f[i]]
  OBVIOUS
<1>8. upto(L) = N
  BY <1>1
<1>9. \A i \in 1..L : i # 1 => i - 1 \in 1..L
  BY <1>1
<1>10. L \in 1..L \/ L = 0
  BY <1>1
<1> HIDE DEF e, f, L
<1>11. ASSUME NEW i \in 1..L PROVE f[i] = IF i = 1 THEN e[i] ELSE f[i - 1] \o e[i]
  <2>1. f[i] = At(s, upto(i - 1)) \o e[i]
    BY <1>5, <1>6
  <2>2. CASE i = 1
    <3>1. \A a \in Seq(T) : <<>> \o a = a
      OBVIOUS
    <3>2. e[i] \in Seq(T)
      BY <1>2
    <3>3. At(s, upto(i - 1)) = <<>>
      BY <1>4, <1>5, <2>2
    <3> QED
      BY <2>1, <2>2, <3>1, <3>2, <3>3
  <2>3. CASE i # 1
    BY <1>6, <1>9, <2>1, <2>3
  <2> QED
    BY <2>2, <2>3
<1>12. Flattens(f, e, L)
  BY <1>7, <1>11 DEF Flattens
<1>13. CASE L = 0
  <2>1. s = <<>> /\ e = <<>>
    BY <1>2, <1>13 DEF L
  <2>2. FlattenSeq(e) = <<>>
    BY <2>1, Zenon, EmptyFacts DEF FlattenSeq
  <2>3. N = {}
    BY <1>1, <1>13
  <2> QED
    BY <1>4, <2>2, <2>3 DEF e
<1>14. CASE L # 0
  <2>1. FlattenSeq(e) = f[L]
    BY <1>2, <1>12, <1>14, FlattenIs
  <2>2. f[L] = At(s, N)
    BY <1>6, <1>8, <1>10, <1>14
  <2> QED
    BY <2>1, <2>2 DEF e
<1> QED
  BY <1>13, <1>14

(* Without a name, a package has its declarations, in their order, and no  *)
(* package has them all.                                                   *)
LEMMA LookupAll ==
  ASSUME NEW R, IsRepo(R), NEW pkg
  PROVE  /\ pkg # <<>> =>
              Lookup(R, pkg, <<>>) = At(R.loaded, {n \in DOMAIN R.loaded : R.loaded[n].pkg = pkg})
         /\ pkg = <<>> => ToSet(Lookup(R, pkg, <<>>)) = ToSet(R.loaded)
<1>1. ASSUME pkg # <<>>
      PROVE  Lookup(R, pkg, <<>>) = At(R.loaded, {n \in DOMAIN R.loaded : R.loaded[n].pkg = pkg})
  <2> DEFINE s == R.loaded
             N == {n \in DOMAIN s : s[n].pkg = pkg}
             e == [n \in DOMAIN s |-> AnyName(s[n], pkg)]
             g == [n \in DOMAIN s |-> IF n \in N THEN <<s[n]>> ELSE <<>>]
  <2>1. Lookup(R, pkg, <<>>) = FlattenSeq(e)
    BY <1>1, Zenon DEF Lookup
  <2>2. ASSUME NEW n \in DOMAIN s PROVE AnyName(s[n], pkg) = IF n \in N THEN <<s[n]>> ELSE <<>>
    <3>1. <<s[n]>> \o <<>> = <<s[n]>> /\ <<>> \o <<>> = <<>>
      OBVIOUS
    <3> QED
      BY <1>1, <3>1 DEF AnyName
  <2>3. e = g
    <3> HIDE DEF N
    <3> QED
      BY <2>2
  <2>4. s \in Seq(Decls(R)) /\ N \in SUBSET DOMAIN s
    BY RepoTypes
  <2> HIDE DEF s, N
  <2>5. FlattenSeq(g) = At(s, N)
    BY <2>4, FlattenSome
  <2> QED
    BY <2>1, <2>3, <2>5 DEF s, N
<1>2. ASSUME pkg = <<>> PROVE ToSet(Lookup(R, pkg, <<>>)) = ToSet(R.loaded)
  <2> DEFINE e == [n \in DOMAIN R.loaded |-> <<R.loaded[n], R.loaded[n]>>]
  <2>1. Lookup(R, pkg, <<>>) = FlattenSeq(e)
    BY <1>2, Zenon DEF Lookup
  <2>2. ASSUME NEW n \in DOMAIN R.loaded
        PROVE  e[n] \in Seq(Decls(R)) /\ ToSet(e[n]) = {R.loaded[n]}
    <3>1. R.loaded[n] \in Decls(R)
      BY RepoTypes
    <3>2. e[n] = <<R.loaded[n], R.loaded[n]>>
      OBVIOUS
    <3> HIDE DEF e
    <3> QED
      BY <3>1, <3>2 DEF ToSet
  <2>3. e \in [DOMAIN R.loaded -> Seq(Decls(R))]
    BY <2>2
  <2> HIDE DEF e
  <2>4. e \in Seq(Seq(Decls(R))) /\ DOMAIN e = DOMAIN R.loaded
    BY <2>3, RepoTypes, EachIsSeq
  <2>5. ToSet(FlattenSeq(e)) = UNION {ToSet(e[n]) : n \in DOMAIN e}
    BY <2>4, FlattenFacts
  <2>6. UNION {ToSet(e[n]) : n \in DOMAIN e} = {R.loaded[n] : n \in DOMAIN R.loaded}
    <3>1. \A n \in DOMAIN R.loaded : ToSet(e[n]) = {R.loaded[n]}
      BY <2>2
    <3>2. UNION {ToSet(e[n]) : n \in DOMAIN e} = UNION {{R.loaded[n]} : n \in DOMAIN R.loaded}
      BY <2>4, <3>1
    <3>3. UNION {{R.loaded[n]} : n \in DOMAIN R.loaded} = {R.loaded[n] : n \in DOMAIN R.loaded}
      OBVIOUS
    <3> QED
      BY <3>2, <3>3
  <2> QED
    BY <2>1, <2>5, <2>6 DEF ToSet
<1> QED
  BY <1>1, <1>2

(* The first of a list is of the list.                                     *)
LEMMA HeadIsIn ==
  ASSUME NEW T, NEW s \in Seq(T), s # <<>>, NEW other
  PROVE  HeadOr(s, other) = s[1] /\ s[1] \in ToSet(s)
BY DEF HeadOr, ToSet

(* When there are candidates, a function or a type is one of them.         *)
LEMMA LocatesCandidate ==
  ASSUME NEW R, IsRepo(R), NEW parts, ToSet(Candidates(R, parts)) # {}
  PROVE  /\ LocateFunction(R, parts) \in ToSet(Candidates(R, parts))
         /\ LocateType(R, parts) \in ToSet(Candidates(R, parts))
<1> DEFINE es == Candidates(R, parts)
           F == {n \in DOMAIN es : es[n].kind = "function"}
           T == {n \in DOMAIN es : es[n].kind = "type"}
<1>1. es \in Seq(Decls(R)) /\ F \in SUBSET DOMAIN es /\ T \in SUBSET DOMAIN es
  BY CandidatesSeq
<1>2. LocateFunction(R, parts) = IF At(es, F) # <<>> THEN At(es, F)[1] ELSE HeadOr(es, NotFound)
  BY Zenon DEF LocateFunction, FirstOr, Where
<1>3. LocateType(R, parts) = IF At(es, T) # <<>> THEN At(es, T)[1] ELSE HeadOr(es, NotFound)
  BY Zenon DEF LocateType, FirstOr, Where
<1>4. ToSet(es) # {}
  OBVIOUS
<1> HIDE DEF es, F, T
<1>5. HeadOr(es, NotFound) \in ToSet(es)
  <2>1. es # <<>>
    BY <1>4, EmptyFacts
  <2> QED
    BY <1>1, <2>1, HeadIsIn
<1>6. ASSUME NEW N \in SUBSET DOMAIN es, At(es, N) # <<>> PROVE At(es, N)[1] \in ToSet(es)
  <2>1. At(es, N) \in Seq(Decls(R)) /\ ToSet(At(es, N)) = {es[n] : n \in N}
    BY <1>1, AtFacts
  <2>2. At(es, N)[1] \in ToSet(At(es, N))
    BY <1>6, <2>1, HeadIsIn
  <2> QED
    BY <2>1, <2>2 DEF ToSet
<1> QED
  BY <1>1, <1>2, <1>3, <1>5, <1>6 DEF es

(* What <<x>> \o <<y, z>> is.                                              *)
LEMMA ConcatPair ==
  ASSUME NEW x, NEW y, NEW z
  PROVE  <<x>> \o <<y, z>> = <<x, y, z>> /\ <<x>> \o <<y>> = <<x, y>>
<1>1. ASSUME NEW T, NEW b \in Seq(T), x \in T
      PROVE  <<x>> \o b = [k \in 1..(1 + Len(b)) |-> IF k <= 1 THEN x ELSE b[k - 1]]
  <2> DEFINE a == <<x>>
             ab == a \o b
  <2>1. a \in Seq(T) /\ Len(a) = 1 /\ a[1] = x /\ Len(b) \in Nat
    BY <1>1
  <2> HIDE DEF a
  <2>2. /\ a \o b \in Seq(T) /\ Len(a \o b) = Len(a) + Len(b)
        /\ \A k \in 1..(Len(a) + Len(b)) : (a \o b)[k] = IF k <= Len(a) THEN a[k] ELSE b[k - Len(a)]
    BY <2>1, ConcatProperties
  <2> HIDE DEF ab
  <2>3. ab \in Seq(T) /\ Len(ab) = 1 + Len(b) /\ \A k \in 1..(1 + Len(b)) : ab[k] = IF k <= 1 THEN x ELSE b[k - 1]
    <3>1. \A k \in 1..(1 + Len(b)) : k <= 1 => k = 1
      BY <2>1
    <3> QED
      BY <2>1, <2>2, <3>1 DEF ab
  <2>4. ab = [k \in 1..Len(ab) |-> ab[k]]
    BY <2>3
  <2> QED
    BY <2>3, <2>4 DEF ab, a
<1>2. <<x>> \o <<y, z>> = <<x, y, z>>
  <2> DEFINE b == <<y, z>>
  <2>1. b \in Seq({x, y, z}) /\ Len(b) = 2 /\ b[1] = y /\ b[2] = z
    OBVIOUS
  <2> HIDE DEF b
  <2>2. <<x>> \o b = [k \in 1..3 |-> IF k <= 1 THEN x ELSE b[k - 1]]
    <3> DEFINE T == {x, y, z}
    <3>1. x \in T /\ b \in Seq(T) /\ 1 + Len(b) = 3
      BY <2>1
    <3> HIDE DEF T
    <3>2. <<x>> \o b = [k \in 1..(1 + Len(b)) |-> IF k <= 1 THEN x ELSE b[k - 1]]
      BY <1>1, <3>1
    <3> QED
      BY <3>1, <3>2
  <2>3. <<x, y, z>> = [k \in 1..3 |-> IF k <= 1 THEN x ELSE b[k - 1]]
    BY <2>1
  <2> QED
    BY <2>2, <2>3 DEF b
<1>3. <<x>> \o <<y>> = <<x, y>>
  <2> DEFINE b == <<y>>
  <2>1. b \in Seq({x, y}) /\ Len(b) = 1 /\ b[1] = y
    OBVIOUS
  <2> HIDE DEF b
  <2>2. <<x>> \o b = [k \in 1..2 |-> IF k <= 1 THEN x ELSE b[k - 1]]
    <3> DEFINE T == {x, y}
    <3>1. x \in T /\ b \in Seq(T) /\ 1 + Len(b) = 2
      BY <2>1
    <3> HIDE DEF T
    <3>2. <<x>> \o b = [k \in 1..(1 + Len(b)) |-> IF k <= 1 THEN x ELSE b[k - 1]]
      BY <1>1, <3>1
    <3> QED
      BY <3>1, <3>2
  <2>3. <<x, y>> = [k \in 1..2 |-> IF k <= 1 THEN x ELSE b[k - 1]]
    BY <2>1
  <2> QED
    BY <2>2, <2>3 DEF b
<1> QED
  BY <1>2, <1>3

(* The body of an id of a package of one segment.                          *)
LEMMA OneSegment ==
  ASSUME NEW d, IsSeq(d.pkg), Len(d.pkg) = 1
  PROVE  /\ d.pkg = <<d.pkg[1]>> /\ d.pkg # <<>>
         /\ IdKind(d) = "meth" => ID(d) = [kind |-> "meth", body |-> <<d.pkg[1], d.recv, d.name>>]
         /\ IdKind(d) # "meth" => ID(d) = [kind |-> IdKind(d), body |-> <<d.pkg[1], d.name>>]
<1>1. d.pkg \in Seq(ToSet(d.pkg))
  BY DEF IsSeq
<1> DEFINE p == d.pkg[1]
<1>2. d.pkg = <<p>>
  BY <1>1
<1>3. <<p>> # <<>>
  OBVIOUS
<1>4. <<p>> \o <<d.recv, d.name>> = <<p, d.recv, d.name>> /\ <<p>> \o <<d.name>> = <<p, d.name>>
  BY ConcatPair
<1> HIDE DEF p
<1>5. d.pkg \o <<d.recv, d.name>> = <<p, d.recv, d.name>> /\ d.pkg \o <<d.name>> = <<p, d.name>>
  BY <1>2, <1>4
<1>6. /\ IdKind(d) = "meth" => ID(d) = [kind |-> "meth", body |-> <<p, d.recv, d.name>>]
      /\ IdKind(d) # "meth" => ID(d) = [kind |-> IdKind(d), body |-> <<p, d.name>>]
  BY <1>5 DEF ID, IdWith
<1> QED
  BY <1>2, <1>3, <1>6 DEF p

(* The last segment of a list, by itself.                                  *)
LEMMA LastOnly ==
  ASSUME NEW T, NEW s \in Seq(T), NEW n \in Nat, n = Len(s), n # 0
  PROVE  SubSeq(s, n, n) = <<s[n]>>
<1>1. SubSeq(s, n, n) = [i \in 1..1 |-> s[n]]
  OBVIOUS
<1>2. <<s[n]>> = [i \in 1..1 |-> s[n]]
  OBVIOUS
<1> QED
  BY <1>1, <1>2

(* The id of a function or class leads to a declaration of its package and *)
(* name.                                                                   *)
LEMMA NameLeadsBack ==
  ASSUME NEW R, IsRepo(R), Filed(R), NEW d \in Decls(R), LeadsBack(R, d), IdKind(d) \in {"fn", "class"}
  PROVE  LocateSymbol(R, ID(d)) \in Decls(R) /\ ID(LocateSymbol(R, ID(d))) = ID(d)
<1> DEFINE p == d.pkg[1]
           b == <<p, d.name>>
           parts == IdParts(<<p>>, 0, <<d.name>>)
           C == {c \in ToSet(R.loaded) : c.name = d.name /\ d.pkg \in {<<>>, c.pkg}}
           x == LocateSymbol(R, ID(d))
<1>1. Len(d.pkg) = 1 /\ IsSeq(d.pkg)
  BY DEF LeadsBack, IsRepo
<1>2. d.pkg = <<p>> /\ d.pkg # <<>> /\ ID(d) = [kind |-> IdKind(d), body |-> b]
  BY <1>1, OneSegment
<1>3. /\ Len(b) = 2 /\ b[1] = p /\ b[2] = d.name
      /\ <<b[2]>> = <<d.name>> /\ <<b[1]>> = <<p>> /\ SubSeq(b, 2, Len(b)) = <<d.name>>
  <2>1. b \in Seq({p, d.name}) /\ Len(b) = 2 /\ b[1] = p /\ b[2] = d.name
    OBVIOUS
  <2> HIDE DEF b
  <2>2. SubSeq(b, 2, 2) = <<b[2]>>
    BY <2>1, LastOnly
  <2> QED
    BY <2>1, <2>2
<1>4. parts.ok /\ parts.pkg = d.pkg /\ parts.name = <<d.name>>
  BY <1>2 DEF IdParts
<1>5. d \in C /\ ToSet(Lookup(R, d.pkg, <<d.name>>)) = C
  <2>1. ToSet(R.loaded) = Decls(R)
    BY DEF Filed, Decls
  <2> QED
    BY <2>1, LookupHas
<1> HIDE DEF b, parts, C
<1>6. ToSet(Candidates(R, parts)) = C
  <2>1. Lookup(R, d.pkg, <<d.name>>) # <<>>
    BY <1>5, EmptyFacts
  <2> QED
    BY <1>4, <1>5, <2>1 DEF Candidates
<1>7. FunctionParts(b) = parts
  BY <1>3 DEF FunctionParts, parts
<1>8. IdKind(d) = "class" => ClassParts(ID(d)) = parts
  <2>1. ID(d).kind = IdKind(d) /\ ID(d).body = b
    BY <1>2
  <2> QED
    <3>1. ASSUME IdKind(d) = "class"
          PROVE  ClassParts(ID(d)) = IdParts(<<b[1]>>, 0, SubSeq(b, 2, Len(b)))
      <4>1. ID(d).kind = "class" /\ Len(b) # 1
        BY <1>3, <2>1, <3>1
      <4> QED
        BY <2>1, <4>1, Zenon DEF ClassParts
    <3> QED
      BY <1>3, <3>1, Zenon DEF parts
<1>9. x \in C
  <2>1. LocateFunction(R, parts) \in C /\ LocateType(R, parts) \in C
    BY <1>5, <1>6, LocatesCandidate
  <2>2. CASE IdKind(d) = "fn"
    <3>1. ID(d).kind = "fn" /\ ID(d).body = b
      BY <1>2, <2>2
    <3>2. x = LocateFunction(R, parts)
      BY <1>4, <1>7, <3>1 DEF LocateSymbol
    <3> QED
      BY <2>1, <3>2
  <2>3. CASE IdKind(d) = "class"
    <3>1. ID(d).kind = "class"
      BY <1>2, <2>3
    <3>2. x = LocateType(R, parts)
      BY <1>4, <1>8, <2>3, <3>1 DEF LocateSymbol
    <3> QED
      BY <2>1, <3>2
  <2> QED
    BY <2>2, <2>3
<1> HIDE DEF x
<1>10. x \in Decls(R) /\ x.name = d.name /\ x.pkg = d.pkg
  BY <1>2, <1>9 DEF C, Decls
<1>11. IdKind(x) = IdKind(d)
  BY <1>10 DEF LeadsBack
<1>12. ID(x) = ID(d)
  BY <1>10, <1>11 DEF ID, IdWith
<1> QED
  BY <1>10, <1>12 DEF x

(* The id of a method leads to a method of its name and receiver, in a     *)
(* file that declares the receiver.                                        *)
LEMMA MethodLeadsBack ==
  ASSUME NEW R, IsRepo(R), Filed(R), NEW d \in Decls(R), LeadsBack(R, d), IdKind(d) = "meth"
  PROVE  LocateSymbol(R, ID(d)) \in Decls(R) /\ ID(LocateSymbol(R, ID(d))) = ID(d)
<1> DEFINE p == d.pkg[1]
           b == <<p, d.recv, d.name>>
           parts == IdParts(<<p>>, d.recv, <<d.name>>)
           es == Lookup(R, d.pkg, <<d.recv>>)
           N == {n \in DOMAIN es : es[n].kind \in {"type", "class"}}
           types == At(es, N)
           In(t) == {n \in DOMAIN Symbols(R, t.file) : IsMethodOf(Symbols(R, t.file)[n], t, <<d.name>>)}
           of(t) == At(Symbols(R, t.file), In(t))
           ss == [n \in DOMAIN types |-> of(types[n])]
           flat == FlattenSeq(ss)
           x == LocateSymbol(R, ID(d))
<1>1. Len(d.pkg) = 1 /\ IsSeq(d.pkg)
  BY DEF LeadsBack, IsRepo
<1>2. d.pkg = <<p>> /\ d.pkg # <<>> /\ ID(d) = [kind |-> "meth", body |-> b]
  BY <1>1, OneSegment
<1>3. Len(b) = 3 /\ b[1] = p /\ b[2] = d.recv /\ SubSeq(b, 3, Len(b)) = <<d.name>>
  <2>1. b \in Seq({p, d.recv, d.name}) /\ Len(b) = 3 /\ b[1] = p /\ b[2] = d.recv /\ b[3] = d.name
    OBVIOUS
  <2> HIDE DEF b
  <2>2. SubSeq(b, 3, 3) = <<b[3]>>
    <3> DEFINE T == {p, d.recv, d.name}
    <3>1. b \in Seq(T) /\ 3 \in Nat /\ 3 = Len(b) /\ 3 # 0
      BY <2>1
    <3> HIDE DEF T
    <3> QED
      BY <3>1, LastOnly
  <2> QED
    BY <2>1, <2>2
<1>4. parts.ok /\ parts.pkg = d.pkg /\ parts.name = <<d.name>> /\ parts.class = d.recv
  BY <1>2 DEF IdParts
<1> HIDE DEF b, parts
<1>5. MethodParts(b) = parts
  <2>1. Len(b) # 1 /\ Len(b) # 2
    BY <1>3
  <2>2. MethodParts(b) = IdParts(<<b[1]>>, b[2], SubSeq(b, 3, Len(b)))
    BY <2>1, Zenon DEF MethodParts
  <2> QED
    BY <1>3, <2>2, Zenon DEF parts
<1>6. LocateMethod(R, parts) = HeadOr(flat, NotFound)
  BY <1>4, Zenon DEF LocateMethod, Where
<1>7. x = HeadOr(flat, NotFound)
  <2>1. ID(d).kind = "meth" /\ ID(d).body = b
    BY <1>2
  <2> QED
    BY <1>4, <1>5, <1>6, <2>1 DEF LocateSymbol
<1>8. ToSet(R.loaded) = Decls(R) /\ ToSet(R.now) = Decls(R)
  BY DEF Filed, Decls
<1>9. types \in Seq(Decls(R)) /\ ToSet(types) = {c \in Decls(R) : c.name = d.recv /\ c.pkg = d.pkg /\ c.kind \in {"type", "class"}}
  <2>1. es \in Seq(Decls(R)) /\ N \in SUBSET DOMAIN es
    BY LookupSeq
  <2>2. ToSet(es) = {c \in Decls(R) : c.name = d.recv /\ c.pkg = d.pkg}
    BY <1>2, <1>8, LookupHas
  <2>3. {es[n] : n \in N} = {c \in ToSet(es) : c.kind \in {"type", "class"}}
    BY DEF ToSet
  <2> HIDE DEF es, N
  <2>4. types \in Seq(Decls(R)) /\ ToSet(types) = {es[n] : n \in N}
    BY <2>1, AtFacts
  <2> HIDE DEF types
  <2> QED
    BY <2>2, <2>3, <2>4
<1>10. ASSUME NEW t
       PROVE  /\ of(t) \in Seq(Decls(R))
              /\ ToSet(of(t)) = {m \in Decls(R) : m.file = t.file /\ IsMethodOf(m, t, <<d.name>>)}
  <2> DEFINE s == Symbols(R, t.file)
             M == {n \in DOMAIN R.now : R.now[n].file = t.file}
  <2>1. s \in Seq(Decls(R)) /\ In(t) \in SUBSET DOMAIN s
    BY SymbolsSeq
  <2>2. ToSet(s) = {m \in Decls(R) : m.file = t.file}
    <3>1. s = At(R.now, M) /\ M \in SUBSET DOMAIN R.now
      BY DEF Symbols, Where
    <3>2. {R.now[n] : n \in M} = {m \in ToSet(R.now) : m.file = t.file}
      BY DEF ToSet
    <3> HIDE DEF M, s
    <3>3. ToSet(s) = {R.now[n] : n \in M}
      BY <3>1, RepoTypes, AtFacts
    <3> QED
      BY <1>8, <3>2, <3>3
  <2>3. {s[n] : n \in In(t)} = {m \in ToSet(s) : IsMethodOf(m, t, <<d.name>>)}
    BY DEF ToSet
  <2>4. of(t) = At(s, In(t))
    OBVIOUS
  <2> HIDE DEF s, In, of
  <2>5. of(t) \in Seq(Decls(R)) /\ ToSet(of(t)) = {s[n] : n \in In(t)}
    BY <2>1, <2>4, AtFacts
  <2> QED
    BY <2>2, <2>3, <2>5
<1> HIDE DEF types, of, In
<1>11. ss \in Seq(Seq(Decls(R))) /\ DOMAIN ss = DOMAIN types /\ \A n \in DOMAIN types : ss[n] = of(types[n])
  <2>1. ss \in [DOMAIN types -> Seq(Decls(R))] /\ \A n \in DOMAIN types : ss[n] = of(types[n])
    BY <1>10
  <2> HIDE DEF ss
  <2> QED
    BY <1>9, <2>1, EachIsSeq
<1> HIDE DEF ss
<1>12. flat \in Seq(Decls(R)) /\ ToSet(flat) = UNION {ToSet(ss[n]) : n \in DOMAIN ss}
  BY <1>11, FlattenFacts
<1> HIDE DEF flat, x
<1>13. d.kind = "method" /\ d.recv # 0
  BY DEF IdKind
<1>14. PICK c \in Decls(R) : c.file = d.file /\ c.kind \in {"class", "type"} /\ c.name = d.recv
  BY DEF LeadsBack
<1>15. c \in ToSet(types)
  BY <1>9, <1>14 DEF Filed
<1>16. d \in ToSet(of(c))
  BY <1>10, <1>13, <1>14 DEF IsMethodOf
<1>17. d \in ToSet(flat)
  <2>1. PICK n \in DOMAIN types : types[n] = c
    BY <1>15 DEF ToSet
  <2> QED
    BY <1>11, <1>12, <1>16, <2>1
<1>18. x \in ToSet(flat)
  BY <1>7, <1>12, <1>17, EmptyFacts, HeadIsIn
<1>19. PICK n \in DOMAIN types : x \in ToSet(of(types[n]))
  BY <1>11, <1>12, <1>18
<1>20. types[n] \in ToSet(types)
  BY DEF ToSet
<1>21. x \in Decls(R) /\ x.file = types[n].file /\ IsMethodOf(x, types[n], <<d.name>>)
  BY <1>10, <1>19
<1>22. x.pkg = d.pkg /\ x.recv = d.recv /\ x.kind = "method" /\ x.name = d.name
  <2>1. types[n] \in Decls(R) /\ types[n].name = d.recv /\ types[n].pkg = d.pkg
    BY <1>9, <1>20
  <2>2. <<x.name>> = <<d.name>> => x.name = d.name
    OBVIOUS
  <2> QED
    BY <1>21, <2>1, <2>2 DEF Filed, IsMethodOf
<1>23. ID(x) = ID(d)
  BY <1>13, <1>22 DEF ID, IdWith, IdKind
<1> QED
  BY <1>21, <1>23 DEF x

(* The id of a declaration that has what it takes leads to a declaration   *)
(* of that id (entity.go, resolver.go), whatever else the repo declares.   *)
THEOREM IdsLeadBack ==
  ASSUME NEW R, IsRepo(R), Filed(R), NEW d \in Decls(R), LeadsBack(R, d)
  PROVE  LocateSymbol(R, ID(d)) \in Decls(R) /\ Found(LocateSymbol(R, ID(d))) /\ ID(LocateSymbol(R, ID(d))) = ID(d)
<1>1. IdKind(d) \in {"fn", "class", "meth"}
  BY DEF LeadsBack, IdKind
<1>2. LocateSymbol(R, ID(d)) \in Decls(R) /\ ID(LocateSymbol(R, ID(d))) = ID(d)
  BY <1>1, NameLeadsBack, MethodLeadsBack
<1>3. \A c \in Decls(R) : Found(c)
  BY DEF IsRepo, Found, NotFound
<1> QED
  BY <1>2, <1>3

(* The declarations of a package, or of all, that bear one of some names:  *)
(* of a package in their order, of all in some order.                      *)
Named(R, pkg, names) == Where(Lookup(R, pkg, <<>>), LAMBDA d : d.name \in names)
Bears(d, pkg, names) == d.name \in names /\ pkg \in {<<>>, d.pkg}
Bearers(R, pkg, names) == {d \in ToSet(R.loaded) : Bears(d, pkg, names)}
Places(R, pkg, names) == {n \in DOMAIN R.loaded : Bears(R.loaded[n], pkg, names)}

(* What is asked for by name, in the order of the index.                   *)
LEMMA NamedHas ==
  ASSUME NEW R, IsRepo(R), NEW pkg, NEW names
  PROVE  /\ Named(R, pkg, names) \in Seq(Decls(R))
         /\ ToSet(Named(R, pkg, names)) = Bearers(R, pkg, names)
         /\ pkg # <<>> => Named(R, pkg, names) = At(R.loaded, Places(R, pkg, names))
<1> DEFINE s == R.loaded
           es == Lookup(R, pkg, <<>>)
           K == {k \in DOMAIN es : es[k].name \in names}
           N == {n \in DOMAIN s : s[n].pkg = pkg}
           M == {n \in DOMAIN s : s[n].name \in names /\ pkg \in {<<>>, s[n].pkg}}
           found == Named(R, pkg, names)
<1>1. found = At(es, K)
  BY Zenon DEF Named, Where
<1>2. es \in Seq(Decls(R)) /\ K \in SUBSET DOMAIN es /\ s \in Seq(Decls(R)) /\ N \in SUBSET DOMAIN s /\ M \in SUBSET DOMAIN s
  BY LookupSeq, RepoTypes
<1>3. found \in Seq(Decls(R)) /\ ToSet(found) = {es[k] : k \in K}
  <2> HIDE DEF es, K, found
  <2> QED
    BY <1>1, <1>2, AtFacts
<1>4. {es[k] : k \in K} = {c \in ToSet(es) : c.name \in names}
  BY DEF ToSet
<1>5. ASSUME pkg # <<>> PROVE found = At(s, M) /\ ToSet(found) = {s[n] : n \in M}
  <2>1. es = At(s, N)
    BY <1>5, LookupAll
  <2> HIDE DEF es, found
  <2>2. /\ \A k \in DOMAIN es : es[k] = s[Nth(N, k)] /\ Nth(N, k) \in N
        /\ \A n \in N : \E k \in DOMAIN es : Nth(N, k) = n
    <3>1. es = [k \in 1..Cardinality(N) |-> s[Nth(N, k)]]
      BY <2>1 DEF At
    <3>2. DOMAIN s = 1..Len(s) /\ Len(s) \in Nat
      BY <1>2
    <3>3. 1 \in Int /\ Len(s) \in Int
      BY <3>2
    <3>4. IsFiniteSet(1..Len(s))
      BY <3>3, FS_Interval
    <3> HIDE DEF N, s
    <3>5. N \in SUBSET Nat /\ IsFiniteSet(N)
      BY <1>2, <3>2, <3>4, FS_Subset
    <3>6. /\ \A k \in 1..Cardinality(N) : Nth(N, k) \in N
          /\ \A n \in N : \E k \in 1..Cardinality(N) : Nth(N, k) = n
      BY <3>5, NthFacts
    <3> QED
      BY <3>1, <3>6
  <2>3. {Nth(N, k) : k \in K} = M
    <3>1. ASSUME NEW k \in K PROVE Nth(N, k) \in M
      BY <2>2
    <3>2. ASSUME NEW m \in M PROVE \E k \in K : m = Nth(N, k)
      <4>1. m \in N
        BY <1>5
      <4>2. PICK k \in DOMAIN es : Nth(N, k) = m
        BY <2>2, <4>1
      <4> QED
        BY <2>2, <4>2
    <3> HIDE DEF K, M
    <3> QED
      BY <3>1, <3>2
  <2>4. At(At(s, N), K) = At(s, {Nth(N, k) : k \in K})
    <3>1. K \in SUBSET DOMAIN At(s, N)
      BY <1>2, <2>1
    <3> HIDE DEF K, N, s
    <3> QED
      BY <1>2, <3>1, AtAt
  <2>5. ToSet(At(s, M)) = {s[n] : n \in M}
    <3> HIDE DEF M, s
    <3> QED
      BY <1>2, AtFacts
  <2> QED
    BY <1>1, <2>1, <2>3, <2>4, <2>5
<1>6. ToSet(found) = {c \in ToSet(s) : c.name \in names /\ pkg \in {<<>>, c.pkg}}
  <2>1. CASE pkg # <<>>
    <3>1. {s[n] : n \in M} = {c \in ToSet(s) : c.name \in names /\ pkg \in {<<>>, c.pkg}}
      BY DEF ToSet
    <3> QED
      BY <1>5, <2>1, <3>1
  <2>2. CASE pkg = <<>>
    <3>1. ToSet(es) = ToSet(s)
      BY <2>2, LookupAll
    <3> HIDE DEF es, s, K, found
    <3> QED
      BY <1>3, <1>4, <2>2, <3>1
  <2> QED
    BY <2>1, <2>2
<1>7. M = Places(R, pkg, names) /\ ToSet(found) = Bearers(R, pkg, names)
  BY <1>6 DEF Places, Bearers, Bears
<1> QED
  BY <1>3, <1>5, <1>7

(* Of packages to try, of which one is none, the first with the name.      *)
Tried(R, tries, n) == [k \in DOMAIN tries |-> Lookup(R, tries[k], <<n>>)]
NotEmpty(e) == At(e, {k \in DOMAIN e : e[k] # <<>>})

(* The first try that finds something finds a declaration of the name.     *)
LEMMA TriesHit ==
  ASSUME NEW R, IsRepo(R), NEW T, NEW tries \in Seq(T), NEW n, \E k \in DOMAIN tries : tries[k] = <<>>,
         NEW hits, hits = NotEmpty(Tried(R, tries, n))
  PROVE  /\ hits = <<>> <=> ~\E c \in ToSet(R.loaded) : c.name = n
         /\ hits # <<>> => hits[1][1] \in ToSet(R.loaded) /\ hits[1][1].name = n
<1> DEFINE e == Tried(R, tries, n)
           K == {k \in DOMAIN e : e[k] # <<>>}
<1>1. hits = At(e, K)
  BY Zenon DEF NotEmpty
<1>2. e \in [DOMAIN tries -> Seq(Decls(R))] /\ \A k \in DOMAIN tries : e[k] = Lookup(R, tries[k], <<n>>)
  BY LookupSeq DEF Tried
<1> HIDE DEF e
<1>3. e \in Seq(Seq(Decls(R))) /\ DOMAIN e = DOMAIN tries
  BY <1>2, EachIsSeq
<1>4. K \in SUBSET DOMAIN e
  OBVIOUS
<1>5. hits \in Seq(Seq(Decls(R))) /\ ToSet(hits) = {e[k] : k \in K}
  <2> HIDE DEF K
  <2> QED
    BY <1>1, <1>3, <1>4, AtFacts
<1>6. ASSUME NEW k \in DOMAIN e
      PROVE  /\ e[k] \in Seq(Decls(R))
             /\ \A c \in ToSet(e[k]) : c \in ToSet(R.loaded) /\ c.name = n
  BY <1>2, <1>3, LookupHas
<1>7. ASSUME NEW c \in ToSet(R.loaded), c.name = n PROVE hits # <<>>
  <2>1. PICK k \in DOMAIN e : tries[k] = <<>>
    BY <1>3
  <2>2. e[k] = Lookup(R, <<>>, <<n>>)
    BY <1>2, <1>3, <2>1
  <2>3. c \in ToSet(e[k])
    BY <1>7, <2>2, LookupHas
  <2>4. k \in K
    BY <2>3, EmptyFacts
  <2>5. e[k] \in ToSet(hits)
    BY <1>5, <2>4
  <2> QED
    BY <2>5, EmptyFacts
<1>8. ASSUME hits # <<>> PROVE hits[1][1] \in ToSet(R.loaded) /\ hits[1][1].name = n
  <2>1. hits[1] \in ToSet(hits)
    BY <1>5, <1>8, HeadIsIn
  <2>2. PICK k \in K : hits[1] = e[k]
    BY <1>5, <2>1
  <2>3. e[k][1] \in ToSet(e[k])
    BY <1>6, <2>2, HeadIsIn
  <2> QED
    BY <1>6, <2>2, <2>3
<1> QED
  BY <1>7, <1>8

(* The ids of the first of a list are the first of its ids.                *)
LEMMA FirstIds ==
  ASSUME NEW V, NEW W, NEW e \in Seq(V), NEW i \in Seq(W), Len(e) = Len(i), NEW m \in Nat,
         \A n \in DOMAIN e : e[n].id = i[n]
  PROVE  [n \in DOMAIN UpTo(m, e) |-> UpTo(m, e)[n].id] = UpTo(m, i)
<1> DEFINE u == UpTo(m, e)
           v == UpTo(m, i)
<1>1. u \in Seq(V) /\ Len(u) = (IF m < Len(e) THEN m ELSE Len(e)) /\ \A n \in 1..Len(u) : n \in DOMAIN e /\ u[n] = e[n]
  BY UpToFacts
<1>2. v \in Seq(W) /\ Len(v) = (IF m < Len(i) THEN m ELSE Len(i)) /\ \A n \in 1..Len(v) : n \in DOMAIN i /\ v[n] = i[n]
  BY UpToFacts
<1> HIDE DEF u, v
<1>3. Len(u) = Len(v) /\ DOMAIN u = 1..Len(u)
  BY <1>1, <1>2
<1>4. \A n \in 1..Len(v) : u[n].id = v[n]
  BY <1>1, <1>2, <1>3
<1>5. v = [n \in 1..Len(v) |-> v[n]]
  BY <1>2
<1>6. [n \in DOMAIN u |-> u[n].id] = v
  BY <1>3, <1>4, <1>5
<1> QED
  BY <1>6 DEF u, v

=============================================================================
