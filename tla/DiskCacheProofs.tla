--------------------------- MODULE DiskCacheProofs ---------------------------
(***************************************************************************)
(* Proofs about DiskCache, for every finite set of source files and of     *)
(* loaders, every cap and every number of loads, faults and edits: a load  *)
(* records nothing that is older than it (IInv), and the directory is      *)
(* within its cap when every Put has ended with its pass (Swept).  The     *)
(* second needs what a sum and a filter compute, which is shown by         *)
(* induction: over the numbers and over finite sets, as facts about a set  *)
(* of them.                                                                *)
(***************************************************************************)
EXTENDS DiskCache, FiniteSetTheorems, SequenceTheorems, WellFoundedInduction, TLAPS

(***************************************************************************)
(* The inductive invariant.  Whoever wrote the entry that a load reads,    *)
(* its content is no older than its mtime, which the load compares with    *)
(* what it has seen itself; which inode a name has does not matter, only   *)
(* that a write is into an inode at all.                                   *)
(***************************************************************************)
Versions == 0..MaxVersion
Content == [mtime : Versions, bytes : Versions, size : Versions]
Budget == [loads : 0..Bounds.loads, faults : 0..Bounds.faults, edits : 0..Bounds.edits]

(* TypeOK, but for the order and the sizes of the eviction pass.           *)
Typed ==
  /\ tree \in [Paths -> Versions]
  /\ key \in [Paths -> Inodes \cup {0}] /\ tmp \in [Paths -> Inodes \cup {0}]
  /\ content \in [Inodes -> Content]
  /\ pc \in [Loaders -> {"idle", "walk", "get", "stat", "read", "record", "done"} \cup Putting]
  /\ todo \in [Loaders -> SUBSET Paths]
  /\ cur \in [Loaders -> [path : Paths \cup {0}, mtime : Versions, bytes : Versions]]
  /\ fd \in [Loaders -> Inodes \cup {0}]
  /\ files \in [Loaders -> [Paths -> Versions]] /\ from \in [Loaders -> [Paths -> Versions]]
  /\ left \in Budget

(* A file has a new version per edit.                                      *)
EditsLeft == \A p \in Paths : tree[p] + left.edits <= MaxVersion

(* No inode has two names.                                                 *)
OneName ==
  \A p, q \in Paths :
    /\ key[p] # 0 => key[p] # tmp[q] /\ (p # q => key[p] # key[q])
    /\ tmp[p] # 0 /\ p # q => tmp[p] # tmp[q]

(* An entry that decodes is no older than it says.                         *)
EntriesSound == \A i \in Inodes : content[i].mtime # 0 => content[i].mtime <= content[i].bytes

(* What a loader knows of the file it has at hand.  A removed file does    *)
(* not come back, so what was seen once is seen again or the file is gone. *)
Since(p, v) == tree[p] = 0 \/ v <= tree[p]
Knows(l) ==
  LET p == cur[l].path
  IN /\ pc[l] \notin {"idle", "done"} => \A q \in Paths : Since(q, from[l][q])
     /\ pc[l] \notin {"idle", "walk", "done"} => p \in Paths
     /\ pc[l] \in {"get", "read", "open", "write"} => cur[l].mtime # 0 /\ from[l][p] <= cur[l].mtime
     /\ pc[l] = "read" => Since(p, cur[l].mtime)
     /\ pc[l] \in {"open", "write"} => cur[l].mtime <= cur[l].bytes
     /\ pc[l] \in Putting \cup {"record"} => from[l][p] <= cur[l].bytes
     /\ pc[l] = "write" <=> fd[l] # 0
Loaded(l) == \A p \in Paths : files[l][p] # 0 => from[l][p] <= files[l][p]

IInv ==
  /\ Typed /\ EditsLeft /\ OneName /\ EntriesSound
  /\ \A l \in Loaders : Knows(l) /\ Loaded(l)

-----------------------------------------------------------------------------
(* The natural numbers are well-founded ...                                *)
LEMMA LessWellFounded == IsWellFoundedOn({ss \in Nat \X Nat : ss[1] < ss[2]}, Nat)
  BY NatLessThanWellFounded, Zenon DEF OpToRel

(* ... so a non-empty set of them has a least element, ...                 *)
LEMMA MinIsThere ==
  ASSUME NEW S \in SUBSET Nat, S # {}
  PROVE  Min(S) \in S /\ \A y \in S : Min(S) <= y
<1> DEFINE Less == {ss \in Nat \X Nat : ss[1] < ss[2]}
<1>1. \E x \in S : \A y \in S : ~(<<y, x>> \in Less)
  <2> HIDE DEF Less
  <2>1. IsWellFoundedOn(Less, Nat)
    BY LessWellFounded DEF Less
  <2> QED
    BY <2>1, WFMin
<1>2. PICK x \in S : \A y \in S : ~(<<y, x>> \in Less)
  BY <1>1
<1>3. ASSUME NEW y \in S PROVE x <= y
  <2>1. ~(y < x)
    BY <1>2
  <2> QED
    BY <2>1
<1> QED
  BY <1>3 DEF Min

(* ... and a set with 0 and the successor of each of its elements has all. *)
LEMMA Induction ==
  ASSUME NEW G, 0 \in G, \A n \in Nat : n \in G => n + 1 \in G
  PROVE  \A n \in Nat : n \in G
<1> DEFINE Bad == Nat \ G
<1> SUFFICES ASSUME Bad # {} PROVE FALSE
  OBVIOUS
<1>1. PICK n \in Bad : \A m \in Bad : n <= m
  <2> Bad \in SUBSET Nat
    OBVIOUS
  <2> HIDE DEF Bad
  <2> QED
    BY MinIsThere
<1>2. n \in Nat /\ n # 0 /\ n - 1 \in Nat /\ n - 1 \notin Bad
  BY <1>1
<1> QED
  BY <1>2

(* c takes an element out of each set but the empty one.                   *)
Chooses(c, D) == \A T \in SUBSET D : T # {} => c[T] \in T

(* Induction over the subsets of a finite set, element by element.         *)
LEMMA SetInduction ==
  ASSUME NEW D, IsFiniteSet(D), NEW c, Chooses(c, D), NEW G, {} \in G,
         \A T \in SUBSET D : T # {} /\ T \ {c[T]} \in G => T \in G
  PROVE  \A T \in SUBSET D : T \in G
<1> DEFINE H == {n \in Nat : \A T \in SUBSET D : Cardinality(T) = n => T \in G}
<1>1. \A T \in SUBSET D : IsFiniteSet(T) /\ Cardinality(T) \in Nat
  BY FS_Subset, FS_CardinalityType
<1>2. 0 \in H
  BY <1>1, FS_EmptySet
<1>3. ASSUME NEW n \in Nat, n \in H PROVE n + 1 \in H
  <2> SUFFICES ASSUME NEW T \in SUBSET D, Cardinality(T) = n + 1 PROVE T \in G
    OBVIOUS
  <2>1. T # {}
    BY FS_EmptySet
  <2>2. c[T] \in T /\ IsFiniteSet(T)
    BY <1>1, <2>1 DEF Chooses
  <2>3. Cardinality(T \ {c[T]}) = Cardinality(T) - 1
    BY <2>2, FS_RemoveElement
  <2> QED
    BY <1>3, <2>1, <2>3
<1>4. \A n \in Nat : n \in H
  <2> HIDE DEF H
  <2> QED
    BY <1>2, <1>3, Induction
<1> QED
  BY <1>1, <1>4

(* it is the fold of step, starting with b, over each set of the family C:  *)
(* what the folds of the community modules compute.                        *)
FoldsTo(it, b, step, c, C) ==
  it = [T \in C |-> IF T = {} THEN b ELSE step[c[T], it[T \ {c[T]}]]]

(* There is such a function, whatever is folded.                           *)
LEMMA FoldExists ==
  ASSUME NEW D, IsFiniteSet(D), NEW c, Chooses(c, D), NEW V, NEW b \in V, NEW step \in [D \X V -> V]
  PROVE  \E it \in [SUBSET D -> V] : FoldsTo(it, b, step, c, SUBSET D)
<1> DEFINE Upto(n) == {T \in SUBSET D : Cardinality(T) <= n}
           G == {n \in Nat : \E it \in [Upto(n) -> V] : FoldsTo(it, b, step, c, Upto(n))}
<1>1. \A T \in SUBSET D : IsFiniteSet(T) /\ Cardinality(T) \in Nat
  BY FS_Subset, FS_CardinalityType
<1>2. 0 \in G
  <2> DEFINE it == [T \in Upto(0) |-> b]
  <2>1. \A T \in Upto(0) : T = {}
    BY <1>1, FS_EmptySet
  <2>2. FoldsTo(it, b, step, c, Upto(0))
    BY <2>1 DEF FoldsTo
  <2> QED
    BY <2>2
<1>3. ASSUME NEW n \in Nat, n \in G PROVE n + 1 \in G
  <2>1. PICK h \in [Upto(n) -> V] : FoldsTo(h, b, step, c, Upto(n))
    BY <1>3
  <2> DEFINE it == [T \in Upto(n + 1) |-> IF T = {} THEN b ELSE step[c[T], h[T \ {c[T]}]]]
  <2>2. ASSUME NEW T \in Upto(n + 1), T # {}
        PROVE  c[T] \in D /\ T \ {c[T]} \in Upto(n)
    <3>1. c[T] \in T /\ IsFiniteSet(T) /\ Cardinality(T) \in Nat
      BY <1>1, <2>2 DEF Chooses
    <3>2. Cardinality(T \ {c[T]}) = Cardinality(T) - 1
      BY <3>1, FS_RemoveElement
    <3> QED
      BY <3>1, <3>2
  <2>3. ASSUME NEW T \in Upto(n) PROVE T \in Upto(n + 1) /\ it[T] = h[T]
    <3>1. T \in Upto(n + 1)
      BY <1>1
    <3>2. h[T] = IF T = {} THEN b ELSE step[c[T], h[T \ {c[T]}]]
      BY <2>1 DEF FoldsTo
    <3> QED
      BY <3>1, <3>2
  <2>4. it \in [Upto(n + 1) -> V]
    <3>1. ASSUME NEW T \in Upto(n + 1), T # {} PROVE step[c[T], h[T \ {c[T]}]] \in V
      BY <2>1, <2>2, <3>1
    <3> QED
      BY <3>1
  <2>5. FoldsTo(it, b, step, c, Upto(n + 1))
    <3>1. ASSUME NEW T \in Upto(n + 1), T # {} PROVE it[T] = step[c[T], it[T \ {c[T]}]]
      BY <2>2, <2>3, <3>1
    <3>2. \A T \in Upto(n + 1) : T = {} => it[T] = b
      OBVIOUS
    <3>3. it = [T \in Upto(n + 1) |-> it[T]]
      OBVIOUS
    <3> HIDE DEF it
    <3> QED
      BY <3>1, <3>2, <3>3 DEF FoldsTo
  <2> HIDE DEF it, Upto
  <2>6. \E g \in [Upto(n + 1) -> V] : FoldsTo(g, b, step, c, Upto(n + 1))
    BY <2>4, <2>5
  <2>7. n + 1 \in Nat
    OBVIOUS
  <2> QED
    BY <2>6, <2>7, Zenon
<1>4. Cardinality(D) \in Nat /\ Upto(Cardinality(D)) = SUBSET D
  BY <1>1, FS_Subset, FS_CardinalityType
<1>5. \A n \in Nat : n \in G
  <2> HIDE DEF G
  <2> QED
    BY <1>2, <1>3, Induction
<1>6. Cardinality(D) \in G
  BY <1>4, <1>5
<1> HIDE DEF Upto
<1> QED
  BY <1>4, <1>6

-----------------------------------------------------------------------------
(* The choice that the sums of the community modules make.                 *)
Pick(T) == CHOOSE x \in T : TRUE

(* The sums over the subsets of the domain of f.                           *)
Sums(it, f, D) ==
  /\ it \in [SUBSET D -> Nat] /\ it[{}] = 0
  /\ \A T \in SUBSET D : T # {} =>
       Pick(T) \in T /\ it[T] = f[Pick(T)] + it[T \ {Pick(T)}]

(* SumFunction is the last of them.                                        *)
LEMMA SumIs ==
  ASSUME NEW D, IsFiniteSet(D), NEW f \in [D -> Nat]
  PROVE  \E it : Sums(it, f, D) /\ SumFunction(f) = it[D]
<1> DEFINE Iter(g) == [s \in SUBSET D |-> IF s = {} THEN 0 ELSE f[Pick(s)] + g[s \ {Pick(s)}]]
           iter == CHOOSE g : g = Iter(g)
           c == [T \in SUBSET D |-> Pick(T)]
           step == [xv \in D \X Nat |-> f[xv[1]] + xv[2]]
<1>1. SumFunction(f) = iter[D]
  BY Zenon DEF SumFunction, SumFunctionOnSet, FoldFunctionOnSet, MapThenFoldSet, Pick
<1>2. \A T \in SUBSET D : T # {} => Pick(T) \in T
  BY DEF Pick
<1>3. Chooses(c, D) /\ \A T \in SUBSET D : c[T] = Pick(T)
  BY <1>2 DEF Chooses
<1>4. \E h : h = Iter(h)
  <2>1. step \in [D \X Nat -> Nat]
    OBVIOUS
  <2>2. \A x \in D, v \in Nat : step[x, v] = f[x] + v
    OBVIOUS
  <2> HIDE DEF step, c
  <2>3. PICK h \in [SUBSET D -> Nat] : FoldsTo(h, 0, step, c, SUBSET D)
    BY <1>3, <2>1, FoldExists
  <2>4. ASSUME NEW T \in SUBSET D PROVE h[T] = IF T = {} THEN 0 ELSE f[Pick(T)] + h[T \ {Pick(T)}]
    <3>1. h[T] = IF T = {} THEN 0 ELSE step[c[T], h[T \ {c[T]}]]
      BY <2>3 DEF FoldsTo
    <3>2. T # {} => Pick(T) \in D /\ h[T \ {Pick(T)}] \in Nat
      BY <1>2
    <3> QED
      BY <1>3, <2>2, <3>1, <3>2
  <2>5. h = [T \in SUBSET D |-> h[T]]
    OBVIOUS
  <2> QED
    BY <2>4, <2>5
<1>5. iter = Iter(iter)
  <2> HIDE DEF Iter
  <2> QED
    BY <1>4
<1> HIDE DEF iter
<1>6. \A T \in SUBSET D : iter[T] = IF T = {} THEN 0 ELSE f[Pick(T)] + iter[T \ {Pick(T)}]
  BY <1>5
<1>7. \A T \in SUBSET D : iter[T] \in Nat
  <2> DEFINE G == {T \in SUBSET D : iter[T] \in Nat}
  <2>1. {} \in G
    <3>1. {} \in SUBSET D /\ iter[{}] = 0
      BY <1>6
    <3> QED
      BY <3>1
  <2>2. ASSUME NEW T \in SUBSET D, T # {}, T \ {c[T]} \in G PROVE T \in G
    <3>1. f[Pick(T)] \in Nat /\ iter[T \ {Pick(T)}] \in Nat
      BY <1>2, <1>3, <2>2
    <3>2. iter[T] = f[Pick(T)] + iter[T \ {Pick(T)}]
      BY <1>6, <2>2
    <3> QED
      BY <3>1, <3>2
  <2> HIDE DEF G, c
  <2>3. \A T \in SUBSET D : T \in G
    BY <1>3, <2>1, <2>2, SetInduction
  <2> QED
    BY <2>3 DEF G
<1>8. iter \in [SUBSET D -> Nat]
  <2>1. iter = [T \in SUBSET D |-> iter[T]]
    BY <1>5
  <2> QED
    BY <1>7, <2>1
<1> QED
  BY <1>1, <1>2, <1>6, <1>8 DEF Sums

(* Induction over the subsets with the choice of the sums.                 *)
LEMMA PickInduction ==
  ASSUME NEW D, IsFiniteSet(D), NEW G, {} \in G,
         \A T \in SUBSET D : T # {} /\ T \ {Pick(T)} \in G => T \in G
  PROVE  D \in G
<1> DEFINE c == [T \in SUBSET D |-> Pick(T)]
<1>1. Chooses(c, D) /\ \A T \in SUBSET D : c[T] = Pick(T)
  BY DEF Chooses, Pick
<1> HIDE DEF c
<1>2. \A T \in SUBSET D : T \in G
  BY <1>1, SetInduction
<1> QED
  BY <1>2

(* A sum of natural numbers is one.                                        *)
LEMMA SumType ==
  ASSUME NEW D, IsFiniteSet(D), NEW f \in [D -> Nat]
  PROVE  SumFunction(f) \in Nat
<1>1. PICK it : Sums(it, f, D) /\ SumFunction(f) = it[D]
  BY SumIs
<1> QED
  BY <1>1 DEF Sums

(* A sum of less is no more.                                               *)
LEMMA SumMonotone ==
  ASSUME NEW D, IsFiniteSet(D), NEW f \in [D -> Nat], NEW g \in [D -> Nat], \A x \in D : f[x] <= g[x]
  PROVE  SumFunction(f) <= SumFunction(g)
<1>1. PICK i : Sums(i, f, D) /\ SumFunction(f) = i[D]
  BY SumIs
<1>2. PICK j : Sums(j, g, D) /\ SumFunction(g) = j[D]
  BY SumIs
<1> DEFINE G == {T \in SUBSET D : i[T] <= j[T]}
<1>3. {} \in G
  BY <1>1, <1>2 DEF Sums
<1>4. ASSUME NEW T \in SUBSET D, T # {}, T \ {Pick(T)} \in G PROVE T \in G
  <2> DEFINE U == T \ {Pick(T)}
  <2>1. /\ i[T] = f[Pick(T)] + i[U] /\ j[T] = g[Pick(T)] + j[U]
        /\ i[U] \in Nat /\ j[U] \in Nat /\ Pick(T) \in D /\ i[U] <= j[U]
    BY <1>1, <1>2, <1>4 DEF Sums
  <2>2. f[Pick(T)] \in Nat /\ g[Pick(T)] \in Nat /\ f[Pick(T)] <= g[Pick(T)]
    BY <2>1
  <2> HIDE DEF U
  <2> QED
    BY <2>1, <2>2
<1>5. D \in G
  <2> HIDE DEF G
  <2> QED
    BY <1>3, <1>4, PickInduction
<1> QED
  BY <1>1, <1>2, <1>5

(* One summand replaced.                                                   *)
LEMMA SumUpdate ==
  ASSUME NEW D, IsFiniteSet(D), NEW f \in [D -> Nat], NEW p \in D, NEW v \in Nat
  PROVE  SumFunction([f EXCEPT ![p] = v]) + f[p] = SumFunction(f) + v
<1> DEFINE g == [f EXCEPT ![p] = v]
<1>0. g \in [D -> Nat] /\ g[p] = v /\ \A x \in D \ {p} : g[x] = f[x]
  OBVIOUS
<1> HIDE DEF g
<1>1. PICK i : Sums(i, f, D) /\ SumFunction(f) = i[D]
  BY SumIs
<1>2. PICK j : Sums(j, g, D) /\ SumFunction(g) = j[D]
  BY <1>0, SumIs
<1> DEFINE G == {T \in SUBSET D : IF p \in T THEN j[T] + f[p] = i[T] + v ELSE j[T] = i[T]}
<1>3. {} \in G
  BY <1>1, <1>2 DEF Sums
<1>4. ASSUME NEW T \in SUBSET D, T # {}, T \ {Pick(T)} \in G PROVE T \in G
  <2> DEFINE U == T \ {Pick(T)}
  <2>1. /\ i[T] = f[Pick(T)] + i[U] /\ j[T] = g[Pick(T)] + j[U]
        /\ i[U] \in Nat /\ j[U] \in Nat /\ Pick(T) \in T
    BY <1>1, <1>2, <1>4 DEF Sums
  <2>2. f[Pick(T)] \in Nat /\ g[Pick(T)] \in Nat /\ f[p] \in Nat
    BY <1>0, <2>1
  <2>3. IF p \in U THEN j[U] + f[p] = i[U] + v ELSE j[U] = i[U]
    BY <1>4
  <2>4. CASE Pick(T) = p
    BY <1>0, <2>1, <2>2, <2>3, <2>4
  <2>5. CASE Pick(T) # p
    <3>1. (p \in U <=> p \in T) /\ g[Pick(T)] = f[Pick(T)]
      BY <1>0, <2>1, <2>5
    <3> HIDE DEF U
    <3> QED
      BY <2>1, <2>2, <2>3, <3>1
  <2> QED
    BY <2>4, <2>5
<1>5. D \in G
  <2> HIDE DEF G
  <2> QED
    BY <1>3, <1>4, PickInduction
<1> QED
  BY <1>1, <1>2, <1>5 DEF g

(* The sum of nothing.                                                     *)
LEMMA SumZero ==
  ASSUME NEW D, IsFiniteSet(D), NEW f \in [D -> Nat], \A x \in D : f[x] = 0
  PROVE  SumFunction(f) = 0
<1>1. PICK it : Sums(it, f, D) /\ SumFunction(f) = it[D]
  BY SumIs
<1> DEFINE G == {T \in SUBSET D : it[T] = 0}
<1>2. {} \in G
  BY <1>1 DEF Sums
<1>3. ASSUME NEW T \in SUBSET D, T # {}, T \ {Pick(T)} \in G PROVE T \in G
  <2>1. it[T] = f[Pick(T)] + it[T \ {Pick(T)}] /\ Pick(T) \in D
    BY <1>1, <1>3 DEF Sums
  <2>2. it[T \ {Pick(T)}] = 0 /\ f[Pick(T)] = 0
    BY <1>3, <2>1
  <2> QED
    BY <2>1, <2>2
<1>4. D \in G
  <2> HIDE DEF G
  <2> QED
    BY <1>2, <1>3, PickInduction
<1> QED
  BY <1>1, <1>4

-----------------------------------------------------------------------------
(* No element twice.                                                       *)
Distinct(s) == \A m, n \in DOMAIN s : s[m] = s[n] => m = n

(* The greatest of some of the first n numbers.                            *)
LEMMA MaxIsThere ==
  ASSUME NEW n \in Nat, NEW T \in SUBSET (1..n), T # {}
  PROVE  Max(T) \in T /\ \A y \in T : Max(T) >= y
<1> DEFINE S == {n - x : x \in T}
<1>1. S \in SUBSET Nat /\ S # {}
  <2>1. \A x \in T : n - x \in Nat
    OBVIOUS
  <2> QED
    BY <2>1
<1>2. Min(S) \in S /\ \A y \in S : Min(S) <= y
  BY <1>1, MinIsThere
<1>3. PICK x \in T : Min(S) = n - x
  BY <1>2
<1>4. ASSUME NEW y \in T PROVE x >= y
  <2>1. n - x <= n - y
    BY <1>2, <1>3
  <2> QED
    BY <2>1
<1> QED
  BY <1>4 DEF Max

(* What Only takes of the first k elements of s.                           *)
Taken(sel, s, S) ==
  /\ sel[0] = <<>>
  /\ \A k \in 1..Len(s) : sel[k] = IF s[k] \in S THEN Append(sel[k - 1], s[k]) ELSE sel[k - 1]

(* Only is the last of these.                                              *)
LEMMA OnlyIs ==
  ASSUME NEW A, NEW s \in Seq(A), NEW S
  PROVE  \E sel : Taken(sel, s, S) /\ Only(s, S) = sel[Len(s)]
<1> DEFINE D == DOMAIN s
           Iter(g) == [T \in SUBSET D |-> IF T = {} THEN <<>>
                        ELSE IF s[Max(T)] \in S THEN Append(g[T \ {Max(T)}], s[Max(T)]) ELSE g[T \ {Max(T)}]]
           iter == CHOOSE g : g = Iter(g)
           c == [T \in SUBSET D |-> Max(T)]
           step == [kq \in D \X Seq(A) |-> IF s[kq[1]] \in S THEN Append(kq[2], s[kq[1]]) ELSE kq[2]]
<1>1. Only(s, S) = iter[D]
  BY Zenon DEF Only, FoldLeft, MapThenFoldSet
<1>2. Len(s) \in Nat /\ D = 1..Len(s) /\ IsFiniteSet(D) /\ \A k \in D : s[k] \in A
  BY LenProperties, ElementOfSeq, FS_Interval
<1>3. \A T \in SUBSET D : T # {} => Max(T) \in T /\ \A y \in T : Max(T) >= y
  BY <1>2, MaxIsThere
<1>4. \E h : h = Iter(h)
  <2>1. step \in [D \X Seq(A) -> Seq(A)]
    <3>1. ASSUME NEW k \in D, NEW q \in Seq(A) PROVE Append(q, s[k]) \in Seq(A)
      BY <1>2, AppendProperties
    <3> HIDE DEF D
    <3> QED
      BY <3>1
  <2>2. \A k \in D, q \in Seq(A) : step[k, q] = IF s[k] \in S THEN Append(q, s[k]) ELSE q
    OBVIOUS
  <2>3. Chooses(c, D) /\ \A T \in SUBSET D : c[T] = Max(T)
    BY <1>3 DEF Chooses
  <2>4. <<>> \in Seq(A)
    OBVIOUS
  <2> HIDE DEF step, c, D
  <2>5. PICK h \in [SUBSET D -> Seq(A)] : FoldsTo(h, <<>>, step, c, SUBSET D)
    BY <1>2, <2>1, <2>3, <2>4, FoldExists
  <2>6. ASSUME NEW T \in SUBSET D
        PROVE  h[T] = IF T = {} THEN <<>>
                      ELSE IF s[Max(T)] \in S THEN Append(h[T \ {Max(T)}], s[Max(T)]) ELSE h[T \ {Max(T)}]
    <3>1. h[T] = IF T = {} THEN <<>> ELSE step[c[T], h[T \ {c[T]}]]
      BY <2>5 DEF FoldsTo
    <3>2. T # {} => Max(T) \in D /\ h[T \ {Max(T)}] \in Seq(A)
      BY <1>3
    <3> QED
      BY <2>2, <2>3, <3>1, <3>2
  <2>7. h = [T \in SUBSET D |-> h[T]]
    OBVIOUS
  <2> QED
    BY <2>6, <2>7
<1>5. iter = Iter(iter)
  <2> HIDE DEF Iter
  <2> QED
    BY <1>4
<1> HIDE DEF iter
<1>6. \A T \in SUBSET D : iter[T] = IF T = {} THEN <<>>
        ELSE IF s[Max(T)] \in S THEN Append(iter[T \ {Max(T)}], s[Max(T)]) ELSE iter[T \ {Max(T)}]
  BY <1>5
<1> DEFINE sel == [k \in 0..Len(s) |-> iter[1..k]]
<1>7. sel[0] = <<>>
  <2>1. 1..0 = {} /\ {} \in SUBSET D /\ 0 \in 0..Len(s)
    BY <1>2
  <2> QED
    BY <1>6, <2>1
<1>8. ASSUME NEW k \in 1..Len(s)
      PROVE  sel[k] = IF s[k] \in S THEN Append(sel[k - 1], s[k]) ELSE sel[k - 1]
  <2>0. k \in Nat /\ 1 <= k /\ k <= Len(s)
    BY <1>2
  <2>1. 1..k \in SUBSET D /\ 1..k # {} /\ k \in 1..k /\ k \in 0..Len(s) /\ k - 1 \in 0..Len(s)
    <3>1. k \in 1..k /\ k \in 0..Len(s) /\ k - 1 \in 0..Len(s) /\ 1..k \subseteq 1..Len(s)
      BY <1>2, <2>0
    <3> HIDE DEF D
    <3> QED
      BY <1>2, <3>1
  <2>2. Max(1..k) = k
    <3>1. Max(1..k) \in 1..k /\ Max(1..k) >= k
      BY <1>3, <2>1
    <3> QED
      BY <2>0, <3>1
  <2>3. (1..k) \ {k} = 1..(k - 1)
    BY <1>2
  <2>4. iter[1..k] = IF s[k] \in S THEN Append(iter[1..(k - 1)], s[k]) ELSE iter[1..(k - 1)]
    BY <1>6, <2>1, <2>2, <2>3
  <2> QED
    BY <2>1, <2>4
<1>9. sel[Len(s)] = iter[D]
  BY <1>2
<1> HIDE DEF sel
<1> QED
  BY <1>1, <1>7, <1>8, <1>9 DEF Taken

(* What is left of a sequence: the elements that are in S, each as often   *)
(* as it was.                                                              *)
LEMMA OnlyFacts ==
  ASSUME NEW A, NEW s \in Seq(A), NEW S
  PROVE  /\ Only(s, S) \in Seq(A)
         /\ \A n \in DOMAIN Only(s, S) : Only(s, S)[n] \in S /\ \E m \in DOMAIN s : s[m] = Only(s, S)[n]
         /\ \A m \in DOMAIN s : s[m] \in S => \E n \in DOMAIN Only(s, S) : Only(s, S)[n] = s[m]
         /\ Distinct(s) => Distinct(Only(s, S))
<1>1. PICK sel : Taken(sel, s, S) /\ Only(s, S) = sel[Len(s)]
  BY OnlyIs
<1>2. Len(s) \in Nat /\ DOMAIN s = 1..Len(s) /\ \A k \in DOMAIN s : s[k] \in A
  BY LenProperties, ElementOfSeq
<1> DEFINE Good(k) ==
             /\ sel[k] \in Seq(A)
             /\ \A n \in DOMAIN sel[k] : sel[k][n] \in S /\ \E m \in 1..k : s[m] = sel[k][n]
             /\ \A m \in 1..k : s[m] \in S => \E n \in DOMAIN sel[k] : sel[k][n] = s[m]
             /\ Distinct(s) => Distinct(sel[k])
           G == {k \in Nat : k <= Len(s) => Good(k)}
<1>3. 0 \in G
  <2>1. sel[0] = <<>> /\ <<>> \in Seq(A) /\ DOMAIN <<>> = {} /\ 1..0 = {}
    BY <1>1 DEF Taken
  <2>2. Good(0)
    BY <2>1, Zenon DEF Distinct
  <2> QED
    BY <2>2
<1>4. ASSUME NEW k \in Nat, k \in G PROVE k + 1 \in G
  <2> SUFFICES ASSUME k + 1 <= Len(s) PROVE Good(k + 1)
    OBVIOUS
  <2>1. Good(k) /\ k + 1 \in 1..Len(s) /\ s[k + 1] \in A
    BY <1>2, <1>4
  <2> DEFINE q == sel[k]
             r == sel[k + 1]
             e == s[k + 1]
  <2>2. r = IF e \in S THEN Append(q, e) ELSE q
    <3>1. (k + 1) - 1 = k
      OBVIOUS
    <3> QED
      BY <1>1, <2>1, <3>1 DEF Taken
  <2>3. CASE e \notin S
    <3>1. r = q
      BY <2>2, <2>3
    <3>2. \A m \in 1..(k + 1) : m \in 1..k \/ m = k + 1
      OBVIOUS
    <3> HIDE DEF r
    <3>3. /\ q \in Seq(A)
          /\ \A n \in DOMAIN q : q[n] \in S /\ \E m \in 1..k : s[m] = q[n]
          /\ \A m \in 1..k : s[m] \in S => \E n \in DOMAIN q : q[n] = s[m]
          /\ Distinct(s) => Distinct(q)
      BY <2>1
    <3> HIDE DEF q
    <3>4. 1..k \subseteq 1..(k + 1)
      OBVIOUS
    <3>5. /\ r \in Seq(A)
          /\ \A n \in DOMAIN r : r[n] \in S /\ \E m \in 1..(k + 1) : s[m] = r[n]
          /\ \A m \in 1..(k + 1) : s[m] \in S => \E n \in DOMAIN r : r[n] = s[m]
          /\ Distinct(s) => Distinct(r)
      BY <2>3, <3>1, <3>2, <3>3, <3>4
    <3> QED
      BY <3>5 DEF r
  <2>4. CASE e \in S
    <3>1. /\ r \in Seq(A) /\ DOMAIN r = 1..(Len(q) + 1) /\ DOMAIN q = 1..Len(q) /\ Len(q) \in Nat
          /\ r[Len(q) + 1] = e /\ \A n \in DOMAIN q : r[n] = q[n]
      <4>1. r = Append(q, e) /\ q \in Seq(A) /\ e \in A
        BY <2>1, <2>2, <2>4
      <4> HIDE DEF r, q, e
      <4> QED
        BY <4>1, AppendProperties, LenProperties
    <3>2. \A m \in 1..(k + 1) : m \in 1..k \/ m = k + 1
      OBVIOUS
    <3>3. /\ \A n \in DOMAIN q : q[n] \in S /\ \E m \in 1..k : s[m] = q[n]
          /\ \A m \in 1..k : s[m] \in S => \E n \in DOMAIN q : q[n] = s[m]
          /\ Distinct(s) => Distinct(q)
      BY <2>1
    <3>4. 1..k \subseteq 1..(k + 1) /\ 1..(k + 1) \subseteq DOMAIN s /\ k + 1 \notin 1..k /\ k + 1 \in 1..(k + 1)
      BY <1>2, <2>1
    <3>5. e = s[k + 1]
      OBVIOUS
    <3> HIDE DEF q, r, e
    <3>6. \A n \in DOMAIN r : n \in DOMAIN q \/ n = Len(q) + 1
      BY <3>1
    <3>7. DOMAIN q \subseteq DOMAIN r /\ Len(q) + 1 \in DOMAIN r
      BY <3>1
    <3>8. \A n \in DOMAIN r : r[n] \in S /\ \E m \in 1..(k + 1) : s[m] = r[n]
      BY <2>4, <3>1, <3>3, <3>4, <3>5, <3>6
    <3>9. \A m \in 1..(k + 1) : s[m] \in S => \E n \in DOMAIN r : r[n] = s[m]
      BY <3>1, <3>2, <3>3, <3>5, <3>7
    <3>10. ASSUME Distinct(s) PROVE Distinct(r)
      <4>1. \A n \in DOMAIN q : q[n] # e
        BY <3>3, <3>4, <3>5, <3>10 DEF Distinct
      <4> QED
        BY <3>1, <3>3, <3>6, <3>10, <4>1 DEF Distinct
    <3> QED
      BY <3>1, <3>8, <3>9, <3>10 DEF r
  <2> QED
    BY <2>3, <2>4
<1>5. \A k \in Nat : k \in G
  <2> HIDE DEF G
  <2> QED
    BY <1>3, <1>4, Induction
<1>6. Good(Len(s))
  BY <1>2, <1>5
<1> QED
  BY <1>1, <1>2, <1>6

-----------------------------------------------------------------------------
(* The values of a function are at most as many as its arguments.          *)
LEMMA ImageBound ==
  ASSUME NEW S, IsFiniteSet(S), NEW f
  PROVE  /\ IsFiniteSet({f[x] : x \in S})
         /\ Cardinality({f[x] : x \in S}) <= Cardinality(S)
<1> DEFINE g == [x \in S |-> f[x]]
           T == {f[x] : x \in S}
<1>1. g \in Surjection(S, T)
  BY DEF Surjection
<1> QED
  BY <1>1, FS_Surjection

(* The greater of two versions is one.                                     *)
LEMMA MaxOfTwo == \A a, b \in Versions : Max({a, b}) \in Versions
<1> SUFFICES ASSUME NEW a \in Versions, NEW b \in Versions PROVE Max({a, b}) \in {a, b}
  OBVIOUS
<1>1. \E x \in {a, b} : \A y \in {a, b} : x >= y
  BY DEF Versions
<1> QED
  BY <1>1 DEF Max

(* The numbers that the constants make.                                    *)
LEMMA Numbers ==
  ASSUME DiskCacheAssumption
  PROVE  /\ Cardinality(Paths) \in Nat /\ Cardinality(Loaders) \in Nat
         /\ Bounds.edits \in Nat /\ MaxVersion \in Nat \ {0} /\ {0, 1} \subseteq Versions
         /\ 0 \notin Inodes /\ Inodes \subseteq Nat
         /\ 0 \notin Paths /\ Bounds \in Budget
<1>1. Cardinality(Paths) \in Nat /\ Cardinality(Loaders) \in Nat
  BY FS_CardinalityType DEF DiskCacheAssumption
<1>2. Bounds.edits \in Nat /\ Bounds.loads \in Nat /\ Bounds.faults \in Nat
  BY DEF DiskCacheAssumption
<1>3. Bounds \in Budget
  BY <1>2 DEF DiskCacheAssumption, Budget
<1> QED
  BY <1>1, <1>2, <1>3 DEF Inodes, MaxVersion, Versions, DiskCacheAssumption

(* A fault, an edit or a load more.                                        *)
LEMMA SpendTypes ==
  ASSUME DiskCacheAssumption, left \in Budget, NEW what \in {"loads", "faults", "edits"}, Spend(what)
  PROVE  /\ left' \in Budget
         /\ left.edits \in Nat /\ left'.edits \in Nat
         /\ left'.edits = IF what = "edits" THEN left.edits - 1 ELSE left.edits
<1>1. Bounds.edits \in Nat /\ Bounds.loads \in Nat /\ Bounds.faults \in Nat
  BY DEF DiskCacheAssumption
<1>2. CASE what = "loads"
  BY <1>1, <1>2 DEF Spend, Budget
<1>3. CASE what = "faults"
  BY <1>1, <1>3 DEF Spend, Budget
<1>4. CASE what = "edits"
  BY <1>1, <1>4 DEF Spend, Budget
<1> QED
  BY <1>2, <1>3, <1>4

(* Two finite sets together.                                               *)
LEMMA UnionBound ==
  ASSUME NEW S, NEW T, IsFiniteSet(S), IsFiniteSet(T)
  PROVE  IsFiniteSet(S \cup T) /\ Cardinality(S \cup T) <= Cardinality(S) + Cardinality(T)
<1>1. /\ IsFiniteSet(S \cup T)
      /\ Cardinality(S \cup T) = Cardinality(S) + Cardinality(T) - Cardinality(S \cap T)
  BY FS_Union
<1>2. IsFiniteSet(S \cap T)
  BY FS_Intersection
<1>3. Cardinality(S) \in Nat /\ Cardinality(T) \in Nat /\ Cardinality(S \cap T) \in Nat
  BY <1>2, FS_CardinalityType
<1> QED
  BY <1>1, <1>3

(* There is an inode for the loader that is about to open: each name and   *)
(* each other loader has at most one.                                      *)
LEMMA FreshIsFree ==
  ASSUME DiskCacheAssumption, Typed, NEW l \in Loaders, NEW p \in Paths, fd[l] = 0, tmp[p] = 0
  PROVE  Fresh \in Inodes /\ Fresh \notin Used
<1> DEFINE P == Paths \ {p}
           L == Loaders \ {l}
           K == {key[q] : q \in Paths}
           T == {tmp[q] : q \in P}
           F == {fd[k] : k \in L}
           n == Cardinality(Paths)
           m == Cardinality(Loaders)
<1>1. n \in Nat /\ m \in Nat /\ IsFiniteSet(Paths) /\ IsFiniteSet(Loaders) /\ Inodes = 1..(2 * n + m)
  BY Numbers DEF DiskCacheAssumption, Inodes
<1>2. IsFiniteSet(P) /\ Cardinality(P) = n - 1 /\ IsFiniteSet(L) /\ Cardinality(L) = m - 1
  BY <1>1, FS_RemoveElement
<1>3. /\ IsFiniteSet(K) /\ Cardinality(K) <= n
      /\ IsFiniteSet(T) /\ Cardinality(T) <= n - 1
      /\ IsFiniteSet(F) /\ Cardinality(F) <= m - 1
  BY <1>1, <1>2, ImageBound
<1>4. Used \subseteq K \cup T \cup F
  BY DEF Used, Range, Typed
<1> HIDE DEF P, L, K, T, F, n, m
<1>5. /\ Cardinality(K) \in Nat /\ Cardinality(T) \in Nat /\ Cardinality(F) \in Nat
  BY <1>3, FS_CardinalityType
<1>6. IsFiniteSet(K \cup T) /\ Cardinality(K \cup T) <= Cardinality(K) + Cardinality(T)
  BY <1>3, UnionBound
<1>7. /\ IsFiniteSet(K \cup T \cup F)
      /\ Cardinality(K \cup T \cup F) <= Cardinality(K \cup T) + Cardinality(F)
  BY <1>3, <1>6, UnionBound
<1>8. IsFiniteSet(Used) /\ Cardinality(Used) <= 2 * n + m - 2
  <2>1. IsFiniteSet(Used) /\ Cardinality(Used) <= Cardinality(K \cup T \cup F)
    BY <1>4, <1>7, FS_Subset
  <2>2. Cardinality(Used) \in Nat /\ Cardinality(K \cup T \cup F) \in Nat /\ Cardinality(K \cup T) \in Nat
    BY <1>6, <1>7, <2>1, FS_CardinalityType
  <2> QED
    BY <1>1, <1>3, <1>5, <1>6, <1>7, <2>1, <2>2
<1>9. Inodes \ Used # {}
  <2>1. ASSUME Inodes \subseteq Used PROVE FALSE
    <3>1. Cardinality(Inodes) = 2 * n + m
      <4>1. 2 * n + m \in Nat
        BY <1>1
      <4> QED
        BY <1>1, <4>1, FS_Interval
    <3>2. Cardinality(Inodes) <= Cardinality(Used)
      BY <1>8, <2>1, FS_Subset
    <3>3. Cardinality(Used) \in Nat
      BY <1>8, FS_CardinalityType
    <3> QED
      BY <1>1, <1>8, <3>1, <3>2, <3>3
  <2> QED
    BY <2>1
<1> QED
  BY <1>9, Numbers, MinIsThere DEF Fresh

-----------------------------------------------------------------------------
(* A step of one loader leaves the others alone.                           *)
Alone(l) ==
  \A k \in Loaders \ {l} :
    /\ pc'[k] = pc[k] /\ cur'[k] = cur[k] /\ fd'[k] = fd[k]
    /\ files'[k] = files[k] /\ from'[k] = from[k]

(* What is left to show of a step of loader l.                             *)
LEMMA LoaderMoves ==
  ASSUME IInv, NEW l \in Loaders, tree' = tree, left' \in Budget, left'.edits = left.edits, Alone(l),
         Typed', OneName', EntriesSound', Knows(l)', Loaded(l)'
  PROVE  IInv'
<1>1. EditsLeft'
  BY DEF IInv, EditsLeft
<1>2. ASSUME NEW k \in Loaders \ {l} PROVE Knows(k)' /\ Loaded(k)'
  BY <1>2 DEF IInv, Alone, Knows, Loaded, Since
<1> QED
  BY <1>1, <1>2 DEF IInv

(* Which is less when the directory stays as it is.                        *)
LEMMA WalkMoves ==
  ASSUME IInv, NEW l \in Loaders, tree' = tree, UNCHANGED dir, left' \in Budget, left'.edits = left.edits,
         Alone(l), Typed', Knows(l)', Loaded(l)'
  PROVE  IInv'
<1>1. OneName' /\ EntriesSound'
  BY DEF IInv, OneName, EntriesSound, dir
<1> QED
  BY <1>1, LoaderMoves

(* What the types say of the values.                                       *)
LEMMA Values ==
  ASSUME DiskCacheAssumption, Typed
  PROVE  /\ Versions \subseteq Nat /\ 0 \in Versions
         /\ \A p \in Paths : tree[p] \in Versions
         /\ \A l \in Loaders : /\ cur[l].mtime \in Versions /\ cur[l].bytes \in Versions
                               /\ cur[l].path \in Paths \cup {0}
                               /\ \A p \in Paths : from[l][p] \in Versions /\ files[l][p] \in Versions
         /\ left \in Budget
<1>1. Versions \subseteq Nat /\ 0 \in Versions
  BY Numbers DEF Versions
<1> QED
  BY <1>1 DEF Typed

(* The walk: a load begins, ...                                            *)
LEMMA BeginKeeps ==
  ASSUME DiskCacheAssumption, IInv, NEW l \in Loaders, Begin(l) PROVE IInv'
<1> USE DEF Go
<1>1. left' \in Budget /\ left'.edits = left.edits
  BY SpendTypes, Values DEF Begin, IInv
<1>2. Typed
  BY DEF IInv
<1>3. None \in [Paths -> Versions]
  BY Numbers DEF None
<1>4. Typed'
  BY <1>1, <1>2, <1>3 DEF Typed, Begin, dir
<1>5. Alone(l)
  BY <1>2 DEF Begin, Alone, Typed
<1>6. /\ pc'[l] = "walk" /\ from'[l] = tree /\ files'[l] = None /\ fd'[l] = fd[l] /\ pc[l] # "write"
      /\ tree' = tree /\ UNCHANGED dir
  BY <1>2 DEF Begin, Typed
<1>7. fd[l] = 0
  BY <1>6 DEF IInv, Knows
<1>8. \A q \in Paths : tree[q] <= tree[q]
  BY <1>2, Values
<1>9. Knows(l)'
  BY <1>6, <1>7, <1>8 DEF Knows, Since, Putting
<1>10. Loaded(l)'
  BY <1>6 DEF Loaded, None
<1> QED
  BY <1>1, <1>4, <1>5, <1>6, <1>9, <1>10, WalkMoves

(* ... looks at the next file, ...                                         *)
LEMMA VisitKeeps ==
  ASSUME DiskCacheAssumption, IInv, NEW l \in Loaders, Visit(l) PROVE IInv'
<1> USE DEF Go
<1>1. Typed /\ Knows(l) /\ Loaded(l)
  BY DEF IInv
<1> DEFINE p == Min(todo[l])
<1>2. p \in Paths
  <2>1. todo[l] \subseteq Nat /\ todo[l] # {} /\ todo[l] \subseteq Paths
    BY <1>1 DEF Visit, Typed, DiskCacheAssumption
  <2> QED
    BY <2>1, MinIsThere
<1> HIDE DEF p
<1>3. /\ pc[l] = "walk" /\ pc'[l] = (IF tree[p] = 0 THEN "stat" ELSE "get")
      /\ cur'[l] = [path |-> p, mtime |-> tree[p], bytes |-> 0]
      /\ UNCHANGED <<tree, dir, todo, fd, files, from, left>>
  BY <1>1 DEF Visit, Typed, p
<1>4. Typed'
  BY <1>1, <1>2, Values DEF Typed, Visit, dir, p
<1>5. Alone(l)
  BY <1>1 DEF Visit, Alone, Typed
<1>6. Since(p, from[l][p])
  BY <1>1, <1>2, <1>3 DEF Knows
<1>7. Knows(l)'
  BY <1>1, <1>2, <1>3, <1>6 DEF Knows, Since, Putting
<1>8. Loaded(l)'
  BY <1>1, <1>3 DEF Loaded
<1> QED
  BY <1>1, <1>3, <1>4, <1>5, <1>7, <1>8, WalkMoves DEF Typed

(* ... asks the cache, ...                                                 *)
LEMMA GetKeeps ==
  ASSUME DiskCacheAssumption, IInv, NEW l \in Loaders, Get(l) PROVE IInv'
<1> USE DEF Go
<1>1. Typed /\ Knows(l) /\ Loaded(l) /\ EntriesSound
  BY DEF IInv
<1> DEFINE p == cur[l].path
           i == key[p]
<1>2. p \in Paths /\ from[l][p] <= cur[l].mtime /\ pc[l] = "get" /\ fd[l] = 0
  BY <1>1 DEF Get, Knows
<1>3. i \in Inodes \cup {0}
  BY <1>1, <1>2 DEF Typed
<1>4. UNCHANGED <<tree, dir, todo, fd, files, from, left>> /\ Alone(l)
  BY <1>1 DEF Get, Alone, Typed
<1>5. CASE Matches(i, cur[l].mtime)
  <2>1. i \in Inodes /\ content[i].mtime = cur[l].mtime /\ content[i].mtime # 0
    BY <1>3, <1>5 DEF Matches, Decodes
  <2>2. content[i].bytes \in Versions /\ cur[l].mtime <= content[i].bytes
    BY <1>1, <2>1 DEF Typed, Content, EntriesSound
  <2>3. from[l][p] <= content[i].bytes
    BY <1>1, <1>2, <2>2, Values
  <2>4. pc' = [pc EXCEPT ![l] = "record"] /\ cur' = [cur EXCEPT ![l].bytes = content[i].bytes]
    BY <1>5 DEF Get, Path
  <2>5. pc'[l] = "record" /\ cur'[l].path = p /\ cur'[l].bytes = content[i].bytes
    BY <1>1, <2>4 DEF Typed
  <2>6. Typed'
    BY <1>1, <1>4, <2>2, <2>4 DEF Typed, dir
  <2>7. Knows(l)'
    BY <1>1, <1>2, <1>4, <2>3, <2>5 DEF Knows, Since, Putting
  <2>8. Loaded(l)'
    BY <1>1, <1>4 DEF Loaded
  <2> QED
    BY <1>1, <1>4, <2>6, <2>7, <2>8, WalkMoves DEF Typed
<1>6. CASE ~Matches(i, cur[l].mtime)
  <2>1. pc' = [pc EXCEPT ![l] = "stat"] /\ cur' = cur
    BY <1>6 DEF Get, Path
  <2>2. Typed' /\ pc'[l] = "stat"
    BY <1>1, <1>4, <2>1 DEF Typed, dir
  <2>3. Knows(l)'
    BY <1>1, <1>2, <1>4, <2>1, <2>2 DEF Knows, Since, Putting
  <2>4. Loaded(l)'
    BY <1>1, <1>4 DEF Loaded
  <2> QED
    BY <1>1, <1>4, <2>2, <2>3, <2>4, WalkMoves DEF Typed
<1> QED
  BY <1>5, <1>6

(* ... takes the mtime and then reads, ...                                 *)
LEMMA ReadKeeps ==
  ASSUME DiskCacheAssumption, IInv, NEW l \in Loaders, Stat(l) \/ Read(l) PROVE IInv'
<1> USE DEF Go
<1>1. Typed /\ Knows(l) /\ Loaded(l)
  BY DEF IInv
<1> DEFINE p == cur[l].path
<1>2. /\ pc[l] \in {"stat", "read"} /\ p \in Paths /\ tree[p] # 0 /\ fd[l] = 0
      /\ Since(p, from[l][p]) /\ tree[p] \in Versions
  BY <1>1, Values DEF Stat, Read, Knows, Path
<1>3. UNCHANGED <<tree, dir, todo, fd, files, from, left>> /\ Alone(l)
  BY <1>1 DEF Stat, Read, Alone, Typed
<1>4. CASE Stat(l)
  <2>1. pc' = [pc EXCEPT ![l] = "read"] /\ cur' = [cur EXCEPT ![l].mtime = tree[p]]
    BY <1>4 DEF Stat, Path
  <2>2. pc'[l] = "read" /\ cur'[l].path = p /\ cur'[l].mtime = tree[p]
    BY <1>1, <2>1 DEF Typed
  <2>3. Typed'
    <3> HIDE DEF p
    <3>1. cur' \in [Loaders -> [path : Paths \cup {0}, mtime : Versions, bytes : Versions]]
      BY <1>1, <1>2, <2>1 DEF Typed
    <3>2. pc' \in [Loaders -> {"idle", "walk", "get", "stat", "read", "record", "done"} \cup Putting]
      BY <1>1, <2>1 DEF Typed
    <3> QED
      BY <1>1, <1>3, <3>1, <3>2 DEF Typed, dir
  <2>4. tree[p] <= tree[p] /\ from[l][p] <= tree[p]
    BY <1>1, <1>2, Values DEF Since
  <2>5. Knows(l)'
    BY <1>1, <1>2, <1>3, <2>2, <2>4 DEF Knows, Since, Putting
  <2>6. Loaded(l)'
    BY <1>1, <1>3 DEF Loaded
  <2> QED
    BY <1>1, <1>3, <2>3, <2>5, <2>6, WalkMoves DEF Typed
<1>5. CASE Read(l)
  <2>1. pc[l] = "read" /\ pc' = [pc EXCEPT ![l] = "open"] /\ cur' = [cur EXCEPT ![l].bytes = tree[p]]
    BY <1>5 DEF Read, Path
  <2>2. pc'[l] = "open" /\ cur'[l].path = p /\ cur'[l].mtime = cur[l].mtime /\ cur'[l].bytes = tree[p]
    BY <1>1, <2>1 DEF Typed
  <2>3. Typed'
    <3> HIDE DEF p
    <3>1. cur' \in [Loaders -> [path : Paths \cup {0}, mtime : Versions, bytes : Versions]]
      BY <1>1, <1>2, <2>1 DEF Typed
    <3>2. pc' \in [Loaders -> {"idle", "walk", "get", "stat", "read", "record", "done"} \cup Putting]
      BY <1>1, <2>1 DEF Typed, Putting
    <3> QED
      BY <1>1, <1>3, <3>1, <3>2 DEF Typed, dir
  <2>4. cur[l].mtime # 0 /\ from[l][p] <= cur[l].mtime /\ cur[l].mtime <= tree[p] /\ from[l][p] <= tree[p]
    BY <1>1, <1>2, <2>1, Values DEF Since, Knows
  <2>5. Knows(l)'
    BY <1>1, <1>2, <1>3, <2>2, <2>4 DEF Knows, Since, Putting
  <2>6. Loaded(l)'
    BY <1>1, <1>3 DEF Loaded
  <2> QED
    BY <1>1, <1>3, <2>3, <2>5, <2>6, WalkMoves DEF Typed
<1> QED
  BY <1>4, <1>5

(* ... goes on without a file it cannot read, ...                          *)
LEMMA RefuseKeeps ==
  ASSUME DiskCacheAssumption, IInv, NEW l \in Loaders, Refuse(l) PROVE IInv'
<1> USE DEF Go
<1>1. Typed /\ Knows(l) /\ Loaded(l) /\ left \in Budget
  BY DEF IInv, Typed
<1>2. left' \in Budget /\ left'.edits = left.edits
  <2>1. UNCHANGED left \/ Spend("faults")
    BY DEF Refuse
  <2> QED
    BY <1>1, <2>1, SpendTypes
<1>3. pc[l] \in {"stat", "read"} /\ pc'[l] = "walk" /\ UNCHANGED <<tree, dir, fd, files, from>> /\ Alone(l)
  BY <1>1 DEF Refuse, Skip, Alone, Typed
<1>4. NoFile \in [path : Paths \cup {0}, mtime : Versions, bytes : Versions]
  BY Values, <1>1 DEF NoFile
<1>5. Typed'
  BY <1>1, <1>2, <1>3, <1>4 DEF Refuse, Skip, Typed, dir
<1>6. Knows(l)'
  BY <1>1, <1>3 DEF Knows, Since, Putting
<1>7. Loaded(l)'
  BY <1>1, <1>3 DEF Loaded
<1> QED
  BY <1>2, <1>3, <1>5, <1>6, <1>7, WalkMoves

(* ... and records what it has.                                            *)
LEMMA RecordKeeps ==
  ASSUME DiskCacheAssumption, IInv, NEW l \in Loaders, Record(l) PROVE IInv'
<1> USE DEF Go
<1>1. Typed /\ Knows(l) /\ Loaded(l)
  BY DEF IInv
<1> DEFINE p == cur[l].path
<1>2. pc[l] = "record" /\ p \in Paths /\ from[l][p] <= cur[l].bytes /\ fd[l] = 0 /\ cur[l].bytes \in Versions
  BY <1>1, Values DEF Record, Knows, Putting
<1>3. pc'[l] = "walk" /\ UNCHANGED <<tree, dir, fd, from, left>> /\ Alone(l)
  BY <1>1 DEF Record, Alone, Typed
<1>4. files' = [files EXCEPT ![l][p] = cur[l].bytes]
  BY DEF Record, Path
<1>5. files'[l] = [files[l] EXCEPT ![p] = cur[l].bytes] /\ files[l] \in [Paths -> Versions]
  BY <1>1, <1>4 DEF Typed
<1>6. NoFile \in [path : Paths \cup {0}, mtime : Versions, bytes : Versions]
  BY Values, <1>1 DEF NoFile
<1>7. files' \in [Loaders -> [Paths -> Versions]]
  BY <1>1, <1>2, <1>4 DEF Typed
<1>8. Typed'
  BY <1>1, <1>3, <1>6, <1>7 DEF Record, Typed, dir
<1>9. Knows(l)'
  BY <1>1, <1>2, <1>3 DEF Knows, Since, Putting
<1>10. Loaded(l)'
  BY <1>1, <1>2, <1>3, <1>5 DEF Loaded
<1> QED
  BY <1>1, <1>3, <1>8, <1>9, <1>10, WalkMoves DEF Typed

(* A Put that fails to open its file, or whose pass finds nothing to do.   *)
LEMMA PutMoves ==
  ASSUME DiskCacheAssumption, IInv, NEW l \in Loaders, pc[l] \in Putting \ {"write"},
         NEW step \in {"evict", "record"}, Go(l, step), UNCHANGED <<tree, dir, todo, cur, fd, files, from>>,
         left' \in Budget, left'.edits = left.edits
  PROVE  IInv'
<1> USE DEF Go
<1>1. Typed /\ Knows(l) /\ Loaded(l)
  BY DEF IInv
<1>2. Typed' /\ Alone(l) /\ pc'[l] = step
  BY <1>1 DEF Typed, Alone, dir, Putting
<1>3. Knows(l)'
  BY <1>1, <1>2 DEF Knows, Since, Putting
<1>4. Loaded(l)'
  BY <1>1 DEF Loaded
<1> QED
  BY <1>2, <1>3, <1>4, WalkMoves

(* The pass lists the directory, in the order of the mtimes, and moves on.  *)
LEMMA ScanKeeps ==
  ASSUME DiskCacheAssumption, IInv, NEW l \in Loaders, OpenFails(l) \/ Scan(l) PROVE IInv'
<1>1. Typed /\ left \in Budget
  BY DEF IInv, Typed
<1>2. CASE OpenFails(l)
  <2>1. left' \in Budget /\ left'.edits = left.edits
    BY <1>1, <1>2, SpendTypes DEF OpenFails
  <2> QED
    BY <1>2, <2>1, PutMoves DEF OpenFails, GiveUp, loader, Putting
<1>3. CASE Scan(l)
  <2>1. PICK step \in {"evict", "record"} : Go(l, step)
    BY <1>3 DEF Scan
  <2>2. pc[l] = "scan" /\ UNCHANGED <<tree, dir, todo, cur, fd, files, from, left>>
    BY <1>3 DEF Scan
  <2> QED
    BY <1>1, <2>1, <2>2, PutMoves DEF Putting
<1> QED
  BY <1>2, <1>3

-----------------------------------------------------------------------------
(* What is kept of the contents when names and handles have changed.       *)
LEMMA Collected ==
  ASSUME DiskCacheAssumption, NEW c \in [Inodes -> Content], NEW r, Collect(c, r),
         \A i \in Inodes : c[i].mtime # 0 => c[i].mtime <= c[i].bytes
  PROVE  content' \in [Inodes -> Content] /\ EntriesSound'
<1>1. Empty \in Content /\ Empty.mtime = 0
  BY Numbers DEF Empty, Content
<1>2. content' = [i \in Inodes |-> IF i \in Used' THEN c[i] ELSE Empty]
  BY DEF Collect
<1> HIDE DEF Empty
<1>3. \A i \in Inodes : content'[i] = c[i] \/ content'[i] = Empty
  BY <1>2
<1> QED
  BY <1>1, <1>2, <1>3 DEF EntriesSound

(* Put opens the temporary file, or an inode of its own, ...               *)
LEMMA OpenKeeps ==
  ASSUME DiskCacheAssumption, IInv, NEW l \in Loaders, Open(l) PROVE IInv'
<1> USE DEF Go
<1>1. Typed /\ Knows(l) /\ Loaded(l) /\ OneName /\ EntriesSound
  BY DEF IInv
<1> DEFINE p == cur[l].path
           i == IF tmp[p] = 0 THEN Fresh ELSE tmp[p]
<1>2. p \in Paths /\ pc[l] = "open" /\ fd[l] = 0
  BY <1>1 DEF Open, Knows, Putting
<1>3. i \in Inodes /\ (tmp[p] = 0 => i \notin Used) /\ (tmp[p] # 0 => i = tmp[p])
  BY <1>1, <1>2, FreshIsFree DEF Typed
<1>4. /\ tmp' = [tmp EXCEPT ![p] = i] /\ fd' = [fd EXCEPT ![l] = i]
      /\ content' = [content EXCEPT ![i] = Empty] /\ pc' = [pc EXCEPT ![l] = "write"]
      /\ UNCHANGED <<tree, key, todo, cur, files, from, left>>
  BY DEF Open, Path
<1> HIDE DEF i
<1>5. i # 0 /\ 0 \notin Inodes
  BY <1>3, Numbers
<1>6. Empty \in Content /\ Empty.mtime = 0
  BY Numbers DEF Empty, Content
<1>7. Typed' /\ Alone(l) /\ pc'[l] = "write" /\ fd'[l] = i
  BY <1>1, <1>2, <1>3, <1>4, <1>6 DEF Typed, Alone, Putting
<1>8. OneName'
  <2>1. tmp'[p] = i /\ \A q \in Paths \ {p} : tmp'[q] = tmp[q]
    BY <1>1, <1>2, <1>4 DEF Typed
  <2>2. \A q \in Paths : key[q] # i /\ (q # p => tmp[q] # i)
    <3>1. CASE tmp[p] = 0
      <4>1. \A q \in Paths : {key[q], tmp[q]} \subseteq Used \cup {0}
        BY <1>1 DEF Typed, Used, Range
      <4> QED
        BY <1>3, <1>5, <3>1, <4>1
    <3>2. CASE tmp[p] # 0
      BY <1>1, <1>2, <1>3, <1>5, <3>2 DEF OneName
    <3> QED
      BY <3>1, <3>2
  <2> QED
    BY <1>1, <1>4, <1>5, <2>1, <2>2 DEF OneName
<1>9. EntriesSound'
  BY <1>1, <1>3, <1>4, <1>6 DEF Typed, EntriesSound
<1>10. Knows(l)'
  BY <1>1, <1>2, <1>4, <1>5, <1>7 DEF Knows, Since, Putting
<1>11. Loaded(l)'
  BY <1>1, <1>4 DEF Loaded
<1> QED
  BY <1>1, <1>4, <1>7, <1>8, <1>9, <1>10, <1>11, LoaderMoves DEF Typed

(* ... writes, in whole or in part, into whatever that inode is by now, ... *)
LEMMA WriteKeeps ==
  ASSUME DiskCacheAssumption, IInv, NEW l \in Loaders, Write(l) PROVE IInv'
<1> USE DEF Go
<1>1. Typed /\ Knows(l) /\ Loaded(l) /\ OneName /\ EntriesSound /\ left \in Budget
  BY DEF IInv, Typed
<1> DEFINE p == cur[l].path
           i == fd[l]
           whole == [mtime |-> cur[l].mtime, bytes |-> cur[l].bytes,
                     size |-> Max({cur[l].bytes, content[i].size})]
           part == [Empty EXCEPT !.size = Max({1, content[i].size})]
<1>2. /\ pc[l] = "write" /\ p \in Paths /\ i \in Inodes
      /\ cur[l].mtime <= cur[l].bytes /\ from[l][p] <= cur[l].bytes
  BY <1>1 DEF Write, Knows, Typed, Putting
<1>3. /\ fd' = [fd EXCEPT ![l] = 0]
      /\ UNCHANGED <<tree, key, tmp, todo, cur, files, from>>
      /\ \/ Collect([content EXCEPT ![i] = whole], Written(i)) /\ Go(l, "rename") /\ UNCHANGED left
         \/ Collect([content EXCEPT ![i] = part], Written(i)) /\ Spend("faults") /\ Go(l, "record")
  BY DEF Write, GiveUp
<1>4. cur[l].mtime \in Versions /\ cur[l].bytes \in Versions /\ content[i].size \in Versions
      /\ {0, 1} \subseteq Versions
  BY <1>1, <1>2, Values, Numbers DEF Typed, Content
<1>5. Max({cur[l].bytes, content[i].size}) \in Versions /\ Max({1, content[i].size}) \in Versions
  BY <1>4, MaxOfTwo
<1>6. whole \in Content /\ (whole.mtime # 0 => whole.mtime <= whole.bytes)
  BY <1>2, <1>4, <1>5 DEF Content
<1>7. part \in Content /\ part.mtime = 0
  BY <1>4, <1>5 DEF Content, Empty
<1> HIDE DEF whole, part, i
<1>8. PICK c \in {whole, part} : Collect([content EXCEPT ![i] = c], Written(i))
  BY <1>3
<1>9. [content EXCEPT ![i] = c] \in [Inodes -> Content]
  BY <1>1, <1>6, <1>7, <1>8 DEF Typed
<1>10. \A j \in Inodes : [content EXCEPT ![i] = c][j].mtime # 0 =>
          [content EXCEPT ![i] = c][j].mtime <= [content EXCEPT ![i] = c][j].bytes
  BY <1>1, <1>2, <1>6, <1>7, <1>8 DEF Typed, EntriesSound
<1>11. content' \in [Inodes -> Content] /\ EntriesSound'
  <2> DEFINE d == [content EXCEPT ![i] = c]
  <2>1. d \in [Inodes -> Content] /\ Collect(d, Written(i))
        /\ \A j \in Inodes : d[j].mtime # 0 => d[j].mtime <= d[j].bytes
    BY <1>8, <1>9, <1>10
  <2> HIDE DEF d
  <2> QED
    BY <2>1, Collected
<1>12. left' \in Budget /\ left'.edits = left.edits
  BY <1>1, <1>3, SpendTypes
<1>13. PICK step \in {"rename", "record"} : pc' = [pc EXCEPT ![l] = step]
  BY <1>3
<1>14. Typed' /\ Alone(l) /\ pc'[l] = step /\ fd'[l] = 0
  BY <1>1, <1>2, <1>3, <1>11, <1>12, <1>13 DEF Typed, Alone, Putting
<1>15. OneName'
  BY <1>1, <1>3 DEF OneName
<1>16. Knows(l)'
  BY <1>1, <1>2, <1>3, <1>14 DEF Knows, Since, Putting
<1>17. Loaded(l)'
  BY <1>1, <1>3 DEF Loaded
<1> QED
  BY <1>3, <1>11, <1>12, <1>14, <1>15, <1>16, <1>17, LoaderMoves

(* A step that takes names away, and what that leaves of the contents.     *)
LEMMA NamesGo ==
  ASSUME DiskCacheAssumption, IInv, NEW l \in Loaders, UNCHANGED <<tree, cur>>, Collect(content, recent),
         left' \in Budget, left'.edits = left.edits, Alone(l),
         key' \in [Paths -> Inodes \cup {0}], tmp' \in [Paths -> Inodes \cup {0}], OneName',
         pc' \in [Loaders -> {"idle", "walk", "get", "stat", "read", "record", "done"} \cup Putting],
         todo' = todo, fd' = fd, files' = files, from' = from,
         Knows(l)'
  PROVE  IInv'
<1>1. Typed /\ EntriesSound /\ Loaded(l)
  BY DEF IInv
<1>2. content' \in [Inodes -> Content] /\ EntriesSound'
  BY <1>1, Collected DEF Typed, EntriesSound
<1>3. Typed'
  BY <1>1, <1>2 DEF Typed
<1>4. Loaded(l)'
  BY <1>1 DEF Loaded
<1> QED
  BY <1>2, <1>3, <1>4, LoaderMoves

(* ... and renames it into its place, where another may be quicker; ...    *)
LEMMA RenameKeeps ==
  ASSUME DiskCacheAssumption, IInv, NEW l \in Loaders, Rename(l) \/ RenameFails(l) PROVE IInv'
<1> USE DEF Go
<1>1. Typed /\ Knows(l) /\ OneName /\ left \in Budget
  BY DEF IInv, Typed
<1> DEFINE p == cur[l].path
<1>2. pc[l] = "rename" /\ p \in Paths /\ from[l][p] <= cur[l].bytes /\ fd[l] = 0
  BY <1>1 DEF Rename, RenameFails, Knows, Putting
<1>3. /\ UNCHANGED <<tree, todo, cur, fd, files, from>> /\ Collect(content, recent) /\ Alone(l)
      /\ tmp' = [tmp EXCEPT ![p] = 0]
      /\ key' = key \/ key' = [key EXCEPT ![p] = tmp[p]]
      /\ pc' = [pc EXCEPT ![l] = "scan"] \/ pc' = [pc EXCEPT ![l] = "record"]
  BY <1>1 DEF Rename, RenameFails, GiveUp, loader, Alone, Typed, Path
<1>4. left' \in Budget /\ left'.edits = left.edits
  <2>1. UNCHANGED left \/ Spend("faults")
    BY DEF Rename, RenameFails
  <2> QED
    BY <1>1, <2>1, SpendTypes
<1>5. /\ key' \in [Paths -> Inodes \cup {0}] /\ tmp' \in [Paths -> Inodes \cup {0}]
      /\ pc' \in [Loaders -> {"idle", "walk", "get", "stat", "read", "record", "done"} \cup Putting]
  BY <1>1, <1>2, <1>3 DEF Typed, Putting
<1>6. OneName'
  <2>1. /\ tmp'[p] = 0 /\ key'[p] \in {key[p], tmp[p]}
        /\ \A q \in Paths \ {p} : tmp'[q] = tmp[q] /\ key'[q] = key[q]
    BY <1>1, <1>2, <1>3 DEF Typed
  <2> HIDE DEF p
  <2> QED
    BY <1>1, <1>2, <2>1 DEF OneName
<1>7. Knows(l)'
  <2>1. pc'[l] \in {"scan", "record"}
    BY <1>1, <1>3 DEF Typed
  <2> QED
    BY <1>1, <1>2, <1>3, <2>1 DEF Knows, Since, Putting
<1> QED
  BY <1>3, <1>4, <1>5, <1>6, <1>7, NamesGo

(* ... the pass after it takes the oldest entries away.                    *)
LEMMA EvictKeeps ==
  ASSUME DiskCacheAssumption, IInv, NEW l \in Loaders, Evict(l) PROVE IInv'
<1>1. Typed /\ Knows(l) /\ OneName /\ left \in Budget
  BY DEF IInv, Typed
<1>2. /\ pc[l] = "evict" /\ UNCHANGED <<tree, todo, cur, fd, files, from, left>>
      /\ \/ Go(l, "record") /\ UNCHANGED dir
         \/ \E q : key' = [key EXCEPT ![q] = 0] /\ tmp' = tmp /\ pc' = pc /\ Collect(content, recent)
  BY DEF Evict
<1>3. CASE Go(l, "record") /\ UNCHANGED dir
  BY <1>1, <1>2, <1>3, PutMoves DEF Putting
<1>4. CASE \E q : key' = [key EXCEPT ![q] = 0] /\ tmp' = tmp /\ pc' = pc /\ Collect(content, recent)
  <2>1. PICK q : key' = [key EXCEPT ![q] = 0] /\ tmp' = tmp /\ pc' = pc /\ Collect(content, recent)
    BY <1>4
  <2>2. key' \in [Paths -> Inodes \cup {0}] /\ \A x \in Paths : key'[x] \in {key[x], 0}
    BY <1>1, <2>1 DEF Typed
  <2>3. OneName'
    BY <1>1, <2>1, <2>2 DEF OneName
  <2>4. Knows(l)' /\ Alone(l)
    BY <1>1, <1>2, <2>1 DEF Knows, Since, Alone
  <2> QED
    BY <1>1, <1>2, <2>1, <2>2, <2>3, <2>4, NamesGo DEF Typed
<1> QED
  BY <1>2, <1>3, <1>4

(* The end of the walk takes the entries of what was not loaded away.      *)
LEMMA SweepKeeps ==
  ASSUME DiskCacheAssumption, IInv, NEW l \in Loaders, Sweep(l) PROVE IInv'
<1>1. Typed /\ Knows(l) /\ OneName
  BY DEF IInv
<1>2. /\ pc[l] = "walk" /\ pc' = [pc EXCEPT ![l] = "done"] /\ Collect(content, recent)
      /\ UNCHANGED <<tree, tmp, todo, cur, fd, files, from, left>>
      /\ key' = [q \in Paths |-> IF files[l][q] = 0 THEN 0 ELSE key[q]]
  BY DEF Sweep, loader, Go
<1>3. key' \in [Paths -> Inodes \cup {0}] /\ \A x \in Paths : key'[x] \in {key[x], 0}
  BY <1>1, <1>2 DEF Typed
<1>4. OneName'
  BY <1>1, <1>2, <1>3 DEF OneName
<1>5. /\ pc' \in [Loaders -> {"idle", "walk", "get", "stat", "read", "record", "done"} \cup Putting]
      /\ pc'[l] = "done" /\ Alone(l)
  BY <1>1, <1>2 DEF Typed, Alone
<1>6. Knows(l)'
  BY <1>1, <1>2, <1>5 DEF Knows, Since, Putting
<1> QED
  BY <1>1, <1>2, <1>3, <1>4, <1>5, <1>6, NamesGo DEF Typed

(* A loader that ends in the middle closes its handle.                     *)
LEMMA CrashKeeps ==
  ASSUME DiskCacheAssumption, IInv, NEW l \in Loaders, Crash(l) PROVE IInv'
<1>1. Typed /\ OneName /\ EntriesSound /\ left \in Budget
  BY DEF IInv, Typed
<1>2. left' \in Budget /\ left'.edits = left.edits
  BY <1>1, SpendTypes DEF Crash
<1>3. /\ pc' = [pc EXCEPT ![l] = "idle"] /\ todo' = [todo EXCEPT ![l] = {}] /\ cur' = [cur EXCEPT ![l] = NoFile]
      /\ fd' = [fd EXCEPT ![l] = 0] /\ files' = [files EXCEPT ![l] = None] /\ from' = [from EXCEPT ![l] = None]
      /\ UNCHANGED <<tree, key, tmp>> /\ Collect(content, recent)
  BY DEF Crash, Go
<1>4. /\ NoFile \in [path : Paths \cup {0}, mtime : Versions, bytes : Versions]
      /\ None \in [Paths -> Versions]
  BY <1>1, Values DEF NoFile, None
<1>5. content' \in [Inodes -> Content] /\ EntriesSound'
  BY <1>1, <1>3, Collected DEF Typed, EntriesSound
<1> HIDE DEF NoFile, None
<1>6. Typed'
  BY <1>1, <1>2, <1>3, <1>4, <1>5 DEF Typed
<1>7. Alone(l) /\ pc'[l] = "idle" /\ fd'[l] = 0 /\ files'[l] = None
  BY <1>1, <1>3 DEF Typed, Alone
<1>8. OneName'
  BY <1>1, <1>3 DEF OneName
<1>9. Knows(l)'
  BY <1>7 DEF Knows, Putting
<1>10. Loaded(l)'
  BY <1>7 DEF Loaded, None
<1> QED
  BY <1>2, <1>3, <1>5, <1>6, <1>7, <1>8, <1>9, <1>10, LoaderMoves

(* The editor writes a file or removes it.                                 *)
LEMMA EditKeeps ==
  ASSUME DiskCacheAssumption, IInv, NEW p \in Paths, Edit(p) \/ Unlink(p) PROVE IInv'
<1>1. Typed /\ OneName /\ EntriesSound /\ EditsLeft /\ left \in Budget
  BY DEF IInv, Typed
<1>2. /\ tree[p] # 0 /\ UNCHANGED <<dir, pc, loader>>
      /\ tree' = [tree EXCEPT ![p] = tree[p] + 1] \/ tree' = [tree EXCEPT ![p] = 0]
  BY DEF Edit, Unlink
<1>3. left' \in Budget /\ left.edits \in Nat /\ left'.edits \in Nat /\ left'.edits = left.edits - 1
  BY <1>1, SpendTypes DEF Edit, Unlink
<1>4. /\ tree'[p] = 0 \/ tree'[p] = tree[p] + 1
      /\ \A q \in Paths \ {p} : tree'[q] = tree[q]
  BY <1>1, <1>2 DEF Typed
<1>5. /\ MaxVersion \in Nat \ {0} /\ Versions = 0..MaxVersion
      /\ \A q \in Paths : tree[q] \in Nat /\ tree[q] + left.edits <= MaxVersion
  BY <1>1, Numbers, Values DEF Versions, EditsLeft
<1>6. EditsLeft'
  <2> SUFFICES ASSUME NEW q \in Paths PROVE tree'[q] + left'.edits <= MaxVersion
    BY Numbers DEF EditsLeft, MaxVersion
  <2>1. CASE q = p
    BY <1>3, <1>4, <1>5, <2>1
  <2>2. CASE q # p
    BY <1>3, <1>4, <1>5, <2>2
  <2> QED
    BY <2>1, <2>2
<1>7. tree' \in [Paths -> Versions]
  <2>1. tree'[p] \in Versions
    BY <1>3, <1>4, <1>5
  <2> QED
    BY <1>1, <1>2, <2>1 DEF Typed
<1>8. Typed'
  BY <1>1, <1>2, <1>3, <1>7 DEF Typed, dir, loader
<1>9. OneName' /\ EntriesSound'
  BY <1>1, <1>2 DEF OneName, EntriesSound, dir
<1>10. \A q \in Paths, v \in Versions : Since(q, v) => Since(q, v)'
  BY <1>2, <1>4, <1>5 DEF Since
<1>11. ASSUME NEW l \in Loaders PROVE Knows(l)' /\ Loaded(l)'
  <2>1. Knows(l) /\ Loaded(l) /\ cur[l].mtime \in Versions /\ \A q \in Paths : from[l][q] \in Versions
    BY <1>1, Values DEF IInv
  <2>2. UNCHANGED <<pc, cur, fd, files, from>>
    BY <1>2 DEF loader
  <2>3. Knows(l)'
    BY <1>10, <2>1, <2>2 DEF Knows, Putting
  <2> QED
    BY <2>1, <2>2, <2>3 DEF Loaded
<1> QED
  BY <1>6, <1>8, <1>9, <1>11 DEF IInv

(* The inductive step.                                                     *)
LEMMA InvStep == DiskCacheAssumption /\ IInv /\ [Next]_vars => IInv'
<1> SUFFICES ASSUME DiskCacheAssumption, IInv, [Next]_vars PROVE IInv'
  OBVIOUS
<1>1. CASE UNCHANGED vars
  BY <1>1 DEF vars, IInv, Typed, EditsLeft, OneName, EntriesSound, Knows, Since, Loaded
<1>2. CASE Next
  BY <1>2, BeginKeeps, VisitKeeps, GetKeeps, ReadKeeps, RefuseKeeps, RecordKeeps, OpenKeeps, ScanKeeps,
    WriteKeeps, RenameKeeps, EvictKeeps, SweepKeeps, CrashKeeps, EditKeeps DEF Next
<1> QED
  BY <1>1, <1>2

(* The initial state: no cache, nobody at work.                            *)
LEMMA InitInv == DiskCacheAssumption /\ Init => IInv
<1> SUFFICES ASSUME DiskCacheAssumption, Init PROVE IInv
  OBVIOUS
<1>1. {0, 1} \subseteq Versions /\ 1 \in Nat /\ left \in Budget /\ Bounds.edits \in Nat
  BY Numbers DEF Init
<1>2. /\ Empty \in Content /\ Empty.mtime = 0 /\ None \in [Paths -> Versions] /\ \A p \in Paths : None[p] = 0
      /\ NoFile \in [path : Paths \cup {0}, mtime : Versions, bytes : Versions]
      /\ None \in [Paths -> Inodes \cup {0}]
  BY <1>1 DEF Empty, Content, None, NoFile
<1> HIDE DEF Empty, None, NoFile
<1>3. Typed
  BY <1>1, <1>2 DEF Init, Typed
<1>4. EditsLeft
  BY <1>1 DEF Init, EditsLeft, MaxVersion
<1>5. OneName /\ EntriesSound
  BY <1>2 DEF Init, OneName, EntriesSound
<1>6. ASSUME NEW l \in Loaders PROVE Knows(l) /\ Loaded(l)
  BY <1>2 DEF Init, Knows, Loaded, Putting
<1> QED
  BY <1>3, <1>4, <1>5, <1>6 DEF IInv

(* The invariant says what the run checks.                                 *)
LEMMA InvLoadedIsCurrent == DiskCacheAssumption /\ IInv => LoadedIsCurrent
<1> SUFFICES ASSUME DiskCacheAssumption, IInv, NEW l \in Loaders, NEW p \in Paths, files[l][p] # 0
             PROVE  files[l][p] >= from[l][p]
  BY DEF LoadedIsCurrent
<1>1. from[l][p] <= files[l][p] /\ from[l][p] \in Nat /\ files[l][p] \in Nat
  BY Values DEF IInv, Loaded
<1> QED
  BY <1>1

-----------------------------------------------------------------------------
(* What the entries that a pass has listed and not yet evicted hold, by    *)
(* path.                                                                   *)
Listing == Seq(Paths \X Versions)
EachOnce(s) == \A m, n \in DOMAIN s : s[m][1] = s[n][1] => m = n
At(s, p) == CHOOSE n \in DOMAIN s : s[n][1] = p
RestOf(s) == [p \in Paths |-> IF \E n \in DOMAIN s : s[n][1] = p THEN s[At(s, p)][2] ELSE 0]

(* What RestOf is at the paths of a list and at the others.                *)
LEMMA RestFacts ==
  ASSUME DiskCacheAssumption, NEW s \in Listing, EachOnce(s)
  PROVE  /\ RestOf(s) \in [Paths -> Nat]
         /\ \A n \in DOMAIN s : s[n][1] \in Paths /\ s[n][2] \in Versions /\ RestOf(s)[s[n][1]] = s[n][2]
         /\ \A p \in Paths : (\A n \in DOMAIN s : s[n][1] # p) => RestOf(s)[p] = 0
<1>1. \A n \in DOMAIN s : s[n] \in Paths \X Versions
  BY ElementOfSeq, LenProperties DEF Listing
<1>2. \A n \in DOMAIN s : s[n][1] \in Paths /\ s[n][2] \in Versions
  BY <1>1
<1>3. \A n \in DOMAIN s : At(s, s[n][1]) = n
  BY DEF EachOnce, At
<1>4. \A n \in DOMAIN s : RestOf(s)[s[n][1]] = s[n][2]
  BY <1>2, <1>3 DEF RestOf
<1>5. \A p \in Paths : (\A n \in DOMAIN s : s[n][1] # p) => RestOf(s)[p] = 0
  BY DEF RestOf
<1>6. \A p \in Paths : RestOf(s)[p] \in Nat
  <2> SUFFICES ASSUME NEW p \in Paths PROVE RestOf(s)[p] \in Nat
    OBVIOUS
  <2>1. CASE \E n \in DOMAIN s : s[n][1] = p
    BY <1>2, <1>4, <2>1, Numbers DEF Versions
  <2>2. CASE \A n \in DOMAIN s : s[n][1] # p
    BY <1>5, <2>2
  <2> QED
    BY <2>1, <2>2
<1> QED
  BY <1>2, <1>4, <1>5, <1>6 DEF RestOf

(* What the eviction of the first takes off.                               *)
LEMMA RestTail ==
  ASSUME DiskCacheAssumption, NEW s \in Listing, EachOnce(s), s # <<>>
  PROVE  /\ Tail(s) \in Listing /\ EachOnce(Tail(s))
         /\ Head(s)[1] \in Paths /\ Head(s)[2] \in Nat
         /\ RestOf(s)[Head(s)[1]] = Head(s)[2]
         /\ RestOf(Tail(s)) = [RestOf(s) EXCEPT ![Head(s)[1]] = 0]
<1> DEFINE A == Paths \X Versions
           t == Tail(s)
           h == Head(s)[1]
<1>1. s \in Seq(A) /\ Len(s) \in Nat /\ DOMAIN s = 1..Len(s) /\ 1 \in DOMAIN s /\ Head(s) = s[1]
  BY LenProperties, EmptySeq, HeadTailProperties DEF Listing
<1>2. t \in Seq(A) /\ Len(t) = Len(s) - 1 /\ DOMAIN t = 1..(Len(s) - 1)
      /\ \A n \in DOMAIN t : t[n] = s[n + 1] /\ n + 1 \in DOMAIN s
  <2> HIDE DEF A
  <2>1. t \in Seq(A) /\ Len(t) = Len(s) - 1 /\ \A n \in 1..Len(t) : t[n] = s[n + 1]
    BY <1>1, HeadTailProperties
  <2>2. DOMAIN t = 1..Len(t)
    BY <2>1, LenProperties
  <2> HIDE DEF t
  <2> QED
    BY <1>1, <2>1, <2>2
<1>3. \A n \in DOMAIN s : n # 1 => n - 1 \in DOMAIN t /\ t[n - 1] = s[n]
  <2> SUFFICES ASSUME NEW n \in DOMAIN s, n # 1 PROVE n - 1 \in DOMAIN t /\ t[n - 1] = s[n]
    OBVIOUS
  <2>1. n \in Nat /\ n - 1 \in DOMAIN t /\ (n - 1) + 1 = n
    BY <1>1, <1>2
  <2> QED
    BY <1>2, <2>1
<1> HIDE DEF t
<1>4. EachOnce(t) /\ t \in Listing
  <2>1. \A m, n \in DOMAIN t : m \in Nat /\ n \in Nat /\ (m + 1 = n + 1 => m = n)
    BY <1>1, <1>2
  <2> QED
    BY <1>2, <2>1 DEF EachOnce, Listing
<1>5. \A n \in DOMAIN t : t[n][1] # h
  <2>1. \A n \in DOMAIN t : n \in Nat /\ n >= 1 /\ n + 1 # 1
    BY <1>1, <1>2
  <2> QED
    BY <1>1, <1>2, <2>1 DEF EachOnce
<1>6. /\ h \in Paths /\ Head(s)[2] \in Versions /\ RestOf(s)[h] = Head(s)[2]
      /\ RestOf(s) \in [Paths -> Nat] /\ RestOf(t) \in [Paths -> Nat]
  BY <1>1, <1>4, RestFacts
<1>7. RestOf(t)[h] = 0
  BY <1>4, <1>5, <1>6, RestFacts
<1>8. ASSUME NEW p \in Paths, p # h PROVE RestOf(t)[p] = RestOf(s)[p]
  <2>1. CASE \E n \in DOMAIN t : t[n][1] = p
    <3>1. PICK n \in DOMAIN t : t[n][1] = p
      BY <2>1
    <3>2. RestOf(t)[p] = t[n][2] /\ RestOf(s)[p] = s[n + 1][2] /\ t[n] = s[n + 1]
      BY <1>2, <1>4, <3>1, RestFacts
    <3> QED
      BY <3>2
  <2>2. CASE \A n \in DOMAIN t : t[n][1] # p
    <3>1. \A n \in DOMAIN s : s[n][1] # p
      BY <1>1, <1>3, <1>8, <2>2
    <3> QED
      BY <1>4, <2>2, <3>1, RestFacts
  <2> QED
    BY <2>1, <2>2
<1>9. RestOf(t) = [RestOf(s) EXCEPT ![h] = 0]
  BY <1>6, <1>7, <1>8
<1>10. Head(s)[2] \in Nat
  BY <1>6, Numbers DEF Versions
<1> QED
  BY <1>4, <1>6, <1>9, <1>10 DEF t

(* The inodes in use are in the order of writing, each once.               *)
Lists(r, U) == /\ r \in Seq(Inodes) /\ Distinct(r)
               /\ \A i \in U : \E n \in DOMAIN r : r[n] = i
Ordered == Lists(recent, Used)

(* A pass never has more to evict than it counts.                          *)
Passes == /\ scan \in [Loaders -> Listing] /\ total \in [Loaders -> Nat]
          /\ \A l \in Loaders : EachOnce(scan[l]) /\ SumFunction(RestOf(scan[l])) <= total[l]

(* It covers the directory when what it has listed and not yet evicted is  *)
(* at least what is there.                                                 *)
Covers(l) == \A p \in Paths : Sizes[p] <= RestOf(scan[l])[p]

(* Whoever is to sweep the directory: a Put on its way to its pass, or a   *)
(* pass that covers what is there.                                         *)
WillSweep(l) == pc[l] \in {"open", "write", "rename", "scan"} \/ (pc[l] = "evict" /\ Covers(l))
Watched == Total > Cap => unswept \/ \E l \in Loaders : WillSweep(l)

Swept == Ordered /\ unswept \in BOOLEAN /\ Passes /\ Watched

-----------------------------------------------------------------------------
(* What the entries hold, and all of them together, are numbers.           *)
LEMMA SizesType ==
  ASSUME DiskCacheAssumption, Typed
  PROVE  /\ Sizes \in [Paths -> Nat] /\ Total \in Nat
         /\ \A p \in Paths : key[p] # 0 => key[p] \in Inodes /\ Sizes[p] = content[key[p]].size /\ Sizes[p] \in Versions
         /\ \A p \in Paths : key[p] = 0 => Sizes[p] = 0
<1>1. \A p \in Paths : key[p] # 0 => key[p] \in Inodes /\ content[key[p]] \in Content
  BY DEF Typed
<1>2. \A p \in Paths : key[p] # 0 => content[key[p]].size \in Versions
  BY <1>1 DEF Content
<1>3. Versions \subseteq Nat
  BY Values
<1>4. Sizes \in [Paths -> Nat]
  BY <1>2, <1>3 DEF Sizes
<1>5. Total \in Nat
  BY <1>4, SumType DEF Total, DiskCacheAssumption
<1> QED
  BY <1>1, <1>2, <1>4, <1>5 DEF Sizes

(* The directory listing: each entry once, and all of it.                  *)
LEMMA EntriesFacts ==
  ASSUME DiskCacheAssumption, IInv, Ordered
  PROVE  Entries \in Listing /\ EachOnce(Entries) /\ RestOf(Entries) = Sizes
<1> DEFINE keyed == Only(recent, Range(key))
           PathOf(i) == CHOOSE p \in Paths : key[p] = i
<1>1. Typed /\ OneName /\ recent \in Seq(Inodes) /\ Distinct(recent)
  BY DEF IInv, Ordered, Lists
<1>2. /\ keyed \in Seq(Inodes) /\ Distinct(keyed)
      /\ \A n \in DOMAIN keyed : keyed[n] \in Range(key)
      /\ \A m \in DOMAIN recent : recent[m] \in Range(key) => \E n \in DOMAIN keyed : keyed[n] = recent[m]
  BY <1>1, OnlyFacts
<1>3. Entries = [n \in DOMAIN keyed |-> <<PathOf(keyed[n]), content[keyed[n]].size>>]
  BY DEF Entries
<1> HIDE DEF keyed
<1>4. Len(keyed) \in Nat /\ DOMAIN keyed = 1..Len(keyed) /\ \A n \in DOMAIN keyed : keyed[n] \in Inodes
  BY <1>2, LenProperties, ElementOfSeq
<1>5. \A i \in Range(key) : PathOf(i) \in Paths /\ key[PathOf(i)] = i
  BY <1>1 DEF Range, Typed
<1>6. \A p \in Paths : key[p] # 0 => PathOf(key[p]) = p
  BY <1>1 DEF OneName
<1> DEFINE q == [n \in DOMAIN keyed |-> PathOf(keyed[n])]
<1>7. ASSUME NEW n \in DOMAIN keyed
      PROVE  /\ q[n] \in Paths /\ key[q[n]] = keyed[n] /\ keyed[n] # 0 /\ content[keyed[n]].size \in Versions
             /\ Entries[n] = <<q[n], content[keyed[n]].size>>
  <2>1. keyed[n] # 0 /\ content[keyed[n]] \in Content
    BY <1>1, <1>4, Numbers DEF Typed
  <2> QED
    BY <1>2, <1>3, <1>5, <2>1 DEF Content
<1>8. DOMAIN Entries = DOMAIN keyed
  BY <1>3
<1> HIDE DEF q, PathOf
<1>9. Entries \in Listing
  <2>1. Entries \in [1..Len(keyed) -> Paths \X Versions]
    BY <1>3, <1>4, <1>7, <1>8
  <2> QED
    BY <1>4, <2>1 DEF Listing
<1>10. EachOnce(Entries)
  BY <1>2, <1>7, <1>8 DEF EachOnce, Distinct
<1>11. ASSUME NEW p \in Paths PROVE RestOf(Entries)[p] = Sizes[p]
  <2>1. CASE key[p] = 0
    <3>1. \A n \in DOMAIN Entries : Entries[n][1] # p
      BY <1>7, <1>8, <2>1
    <3> QED
      BY <1>1, <1>9, <1>10, <2>1, <3>1, RestFacts, SizesType
  <2>2. CASE key[p] # 0
    <3>1. key[p] \in Range(key) /\ key[p] \in Used
      BY <1>1, <2>2 DEF Range, Used, Typed
    <3>2. PICK n \in DOMAIN keyed : keyed[n] = key[p]
      BY <1>2, <3>1 DEF Ordered, Lists
    <3>3. q[n] = p
      BY <1>1, <1>7, <2>2, <3>2 DEF OneName
    <3>4. RestOf(Entries)[p] = content[key[p]].size
      BY <1>7, <1>8, <1>9, <1>10, <3>2, <3>3, RestFacts
    <3> QED
      BY <1>1, <2>2, <3>4, SizesType
  <2> QED
    BY <2>1, <2>2
<1> QED
  BY <1>1, <1>9, <1>10, <1>11, RestFacts, SizesType

(* A pass that covers a directory over its cap has something to evict, and *)
(* counts more than the cap.                                               *)
LEMMA PassCovers ==
  ASSUME DiskCacheAssumption, Typed, Passes, NEW l \in Loaders, Covers(l)
  PROVE  Total <= total[l] /\ (scan[l] = <<>> => Total = 0)
<1>1. IsFiniteSet(Paths) /\ Sizes \in [Paths -> Nat] /\ RestOf(scan[l]) \in [Paths -> Nat]
  BY SizesType, RestFacts DEF Passes, DiskCacheAssumption
<1>2. SumFunction(Sizes) <= SumFunction(RestOf(scan[l]))
      /\ SumFunction(Sizes) \in Nat /\ SumFunction(RestOf(scan[l])) \in Nat
  BY <1>1, SumMonotone, SumType DEF Covers
<1>3. Total <= total[l]
  BY <1>2 DEF Total, Passes
<1>4. ASSUME scan[l] = <<>> PROVE Total = 0
  <2>1. \A p \in Paths : RestOf(scan[l])[p] = 0
    <3>1. DOMAIN scan[l] = {}
      BY <1>4
    <3> QED
      BY <3>1, RestFacts DEF Passes
  <2>2. \A p \in Paths : Sizes[p] = 0
    BY <1>1, <2>1 DEF Covers
  <2> QED
    BY <1>1, <2>2, SumZero DEF Total
<1> QED
  BY <1>3, <1>4

(* A step that enlarges no entry, and after which the others are where they *)
(* were, has to show only that its own loader still sweeps if it was to.   *)
LEMMA NothingGrows ==
  ASSUME DiskCacheAssumption, Typed, Typed', Watched, Passes, NEW l \in Loaders,
         \A p \in Paths : Sizes'[p] <= Sizes[p],
         unswept => unswept' \/ Total' <= Cap,
         \A k \in Loaders \ {l} : pc'[k] = pc[k] /\ scan'[k] = scan[k],
         WillSweep(l) => WillSweep(l)' \/ unswept' \/ Total' <= Cap
  PROVE  Watched'
<1>1. /\ IsFiniteSet(Paths) /\ Cap \in Nat /\ Cap' = Cap
      /\ Sizes \in [Paths -> Nat] /\ Total \in Nat
  BY SizesType DEF DiskCacheAssumption
<1>2. Sizes' \in [Paths -> Nat] /\ Total' \in Nat
  <2>1. key' \in [Paths -> Inodes \cup {0}] /\ content' \in [Inodes -> Content]
    BY DEF Typed
  <2>2. \A p \in Paths : key'[p] # 0 => content'[key'[p]].size \in Versions
    BY <2>1 DEF Content
  <2>3. Sizes' \in [Paths -> Nat]
    BY <2>2, Values DEF Sizes
  <2>4. SumFunction(Sizes') \in Nat
    BY <1>1, <2>3, SumType
  <2> QED
    BY <2>3, <2>4 DEF Total
<1>3. Total' <= Total
  <2>1. SumFunction(Sizes') <= SumFunction(Sizes)
    BY <1>1, <1>2, SumMonotone
  <2> QED
    BY <2>1 DEF Total
<1>4. SUFFICES ASSUME ~(Total' <= Cap), ~unswept' PROVE \E k \in Loaders : WillSweep(k)'
  BY <1>1, <1>2 DEF Watched
<1>5. PICK k \in Loaders : WillSweep(k)
  BY <1>1, <1>2, <1>3, <1>4 DEF Watched
<1>6. CASE k = l
  BY <1>4, <1>5, <1>6
<1>7. CASE k # l
  <2>1. ASSUME Covers(k) PROVE Covers(k)'
    <3>1. RestOf(scan[k])' = RestOf(scan[k])
      BY <1>7 DEF RestOf, At
    <3>2. \A p \in Paths : Sizes'[p] <= RestOf(scan[k])[p]
      <4> SUFFICES ASSUME NEW p \in Paths PROVE Sizes'[p] <= RestOf(scan[k])[p]
        OBVIOUS
      <4>1. RestOf(scan[k])[p] \in Nat
        BY RestFacts DEF Passes
      <4> QED
        BY <1>1, <1>2, <2>1, <4>1 DEF Covers
    <3> QED
      BY <3>1, <3>2 DEF Covers
  <2>2. pc'[k] = pc[k]
    BY <1>7
  <2>3. WillSweep(k)'
    BY <1>5, <2>1, <2>2 DEF WillSweep
  <2> QED
    BY <2>3
<1> QED
  BY <1>6, <1>7

(* A loader about to sweep, or a Put that has missed its pass.             *)
LEMMA PutSweeps ==
  ASSUME NEW l \in Loaders, pc'[l] \in {"open", "write", "rename", "scan"} \/ unswept'
  PROVE  Watched'
<1>1. pc'[l] \in {"open", "write", "rename", "scan"} => WillSweep(l)'
  BY DEF WillSweep
<1> QED
  BY <1>1 DEF Watched

(* No pass moves.                                                          *)
LEMMA PassKept == ASSUME UNCHANGED <<scan, total>>, Passes PROVE Passes'
  BY DEF Passes, EachOnce, RestOf, At, Listing, Versions, MaxVersion

(* The pass of one loader moves.                                           *)
LEMMA PassMoves ==
  ASSUME NEW l \in Loaders, Passes, NEW s \in Listing, EachOnce(s), NEW n \in Nat, SumFunction(RestOf(s)) <= n,
         scan' = [scan EXCEPT ![l] = s], total' = [total EXCEPT ![l] = n]
  PROVE  Passes'
<1>1. scan' \in [Loaders -> Listing] /\ total' \in [Loaders -> Nat]
  BY DEF Passes
<1>2. ASSUME NEW k \in Loaders PROVE EachOnce(scan'[k]) /\ SumFunction(RestOf(scan'[k])) <= total'[k]
  <2>1. CASE k = l
    BY <2>1 DEF Passes
  <2>2. CASE k # l
    <3>1. scan'[k] = scan[k] /\ total'[k] = total[k]
      BY <2>2 DEF Passes
    <3> QED
      BY <3>1 DEF Passes
  <2> QED
    BY <2>1, <2>2
<1>3. \A k \in Loaders : EachOnce(scan[k])' /\ RestOf(scan[k])' = RestOf(scan'[k])
  BY <1>2 DEF EachOnce, RestOf, At
<1> QED
  BY <1>1, <1>2, <1>3 DEF Passes, Listing, Versions, MaxVersion

-----------------------------------------------------------------------------
(* The order after a collection, ...                                       *)
LEMMA CollectLists ==
  ASSUME NEW c, NEW r, Lists(r, Used'), Collect(c, r) PROVE Ordered'
<1>1. recent' = Only(r, Used') /\ r \in Seq(Inodes) /\ Distinct(r)
  BY DEF Collect, Lists
<1>2. /\ recent' \in Seq(Inodes) /\ Distinct(recent')
      /\ \A m \in DOMAIN r : r[m] \in Used' => \E n \in DOMAIN recent' : recent'[n] = r[m]
  BY <1>1, OnlyFacts
<1>3. \A i \in Used' : \E n \in DOMAIN recent' : recent'[n] = i
  BY <1>2 DEF Lists
<1>4. Lists(recent, Used)'
  BY <1>2, <1>3 DEF Lists, Distinct, Inodes
<1> QED
  BY <1>4 DEF Ordered

(* ... and of the inode that is written.                                   *)
LEMMA WrittenLists ==
  ASSUME NEW U, Lists(recent, U), NEW i \in Inodes
  PROVE  Lists(Written(i), U \cup {i})
<1> DEFINE S == Inodes \ {i}
           r == Only(recent, S)
           w == Append(r, i)
<1>1. /\ r \in Seq(Inodes) /\ Distinct(r)
      /\ \A n \in DOMAIN r : r[n] # i
      /\ \A m \in DOMAIN recent : recent[m] \in Inodes \ {i} => \E n \in DOMAIN r : r[n] = recent[m]
  <2>1. recent \in Seq(Inodes) /\ Distinct(recent)
    BY DEF Lists
  <2>2. /\ r \in Seq(Inodes) /\ (Distinct(recent) => Distinct(r))
        /\ \A n \in DOMAIN r : r[n] \in S
        /\ \A m \in DOMAIN recent : recent[m] \in S => \E n \in DOMAIN r : r[n] = recent[m]
    <3> HIDE DEF S
    <3> QED
      BY <2>1, OnlyFacts
  <2> HIDE DEF r
  <2> QED
    BY <2>1, <2>2
<1>2. \A m \in DOMAIN recent : recent[m] \in Inodes
  BY ElementOfSeq, LenProperties DEF Lists
<1> HIDE DEF r
<1>3. /\ w \in Seq(Inodes) /\ DOMAIN w = 1..(Len(r) + 1) /\ DOMAIN r = 1..Len(r) /\ Len(r) \in Nat
      /\ w[Len(r) + 1] = i /\ \A n \in DOMAIN r : w[n] = r[n]
  <2>1. w = Append(r, i) /\ r \in Seq(Inodes) /\ i \in Inodes
    BY <1>1
  <2> HIDE DEF w
  <2> QED
    BY <2>1, AppendProperties, LenProperties
<1>4. Written(i) = w
  BY DEF Written, r
<1> HIDE DEF w
<1>5. \A n \in DOMAIN w : n \in DOMAIN r \/ n = Len(r) + 1
  BY <1>3
<1>6. DOMAIN r \subseteq DOMAIN w /\ Len(r) + 1 \in DOMAIN w
  BY <1>3
<1>7. Distinct(w)
  BY <1>1, <1>3, <1>5 DEF Distinct
<1>8. ASSUME NEW j \in U \cup {i} PROVE \E n \in DOMAIN w : w[n] = j
  <2>1. CASE j = i
    BY <1>3, <1>6, <2>1
  <2>2. CASE j # i
    <3>1. PICK m \in DOMAIN recent : recent[m] = j
      BY <1>8, <2>2 DEF Lists
    <3>2. PICK n \in DOMAIN r : r[n] = j
      BY <1>1, <1>2, <2>2, <3>1
    <3> QED
      BY <1>3, <1>6, <3>2
  <2> QED
    BY <2>1, <2>2
<1> QED
  BY <1>3, <1>4, <1>7, <1>8 DEF Lists

(* A list of all of U lists less, too.                                     *)
LEMMA ListsLess == ASSUME NEW r, NEW U, NEW V \in SUBSET U, Lists(r, U) PROVE Lists(r, V)
  BY DEF Lists

(* When names only go, the entries that stay are as large as they were.    *)
LEMMA NamesShrink ==
  ASSUME DiskCacheAssumption, Typed, Typed', Ordered, Collect(content, recent),
         \A p \in Paths : key'[p] \in {key[p], 0}, tmp' = tmp, \A l \in Loaders : fd'[l] \in {fd[l], 0}
  PROVE  Ordered' /\ \A p \in Paths : Sizes'[p] <= Sizes[p]
<1>1. /\ key' \in [Paths -> Inodes \cup {0}] /\ key \in [Paths -> Inodes \cup {0}] /\ 0 \notin Inodes
      /\ fd \in [Loaders -> Inodes \cup {0}] /\ fd' \in [Loaders -> Inodes \cup {0}]
  BY Numbers DEF Typed
<1>2. Used' \subseteq Used
  BY <1>1 DEF Used, Range
<1>3. Ordered'
  BY <1>2, ListsLess, CollectLists DEF Ordered
<1>4. ASSUME NEW p \in Paths PROVE Sizes'[p] <= Sizes[p]
  <2>1. Sizes[p] \in Nat
    BY SizesType
  <2>2. CASE key'[p] = 0
    <3>1. Sizes'[p] = 0
      BY <2>2 DEF Sizes
    <3> QED
      BY <2>1, <3>1
  <2>3. CASE key'[p] # 0
    <3>1. key'[p] = key[p] /\ key'[p] \in Inodes /\ key'[p] \in Used'
      BY <1>1, <2>3 DEF Used, Range
    <3>2. content'[key'[p]] = content[key[p]]
      BY <3>1 DEF Collect
    <3>3. Sizes'[p] = Sizes[p]
      BY <2>3, <3>1, <3>2 DEF Sizes
    <3> QED
      BY <2>1, <3>3
  <2> QED
    BY <2>2, <2>3
<1> QED
  BY <1>3, <1>4

-----------------------------------------------------------------------------
(* The walk and the editor leave the directory and the passes alone.       *)
LEMMA QuietSwept ==
  ASSUME Swept, UNCHANGED <<dir, fd, scan, total, unswept>>,
         \A k \in Loaders : pc[k] \in Putting => pc'[k] = pc[k]
  PROVE  Swept'
<1>1. UNCHANGED <<key, tmp, content, recent>>
  BY DEF dir
<1>2. Ordered'
  BY <1>1 DEF Swept, Ordered, Lists, Used, Range, Inodes
<1>3. Passes'
  BY PassKept DEF Swept
<1>4. Sizes' = Sizes
  BY <1>1 DEF Sizes
<1>5. Total' = Total
  BY <1>4 DEF Total
<1>6. \A k \in Loaders : WillSweep(k) => WillSweep(k)'
  <2> SUFFICES ASSUME NEW k \in Loaders, WillSweep(k) PROVE WillSweep(k)'
    OBVIOUS
  <2>1. pc'[k] = pc[k]
    BY DEF WillSweep, Putting
  <2>2. Covers(k) => Covers(k)'
    BY <1>4 DEF Covers, RestOf, At
  <2> QED
    BY <2>1, <2>2 DEF WillSweep
<1>7. Watched'
  BY <1>5, <1>6 DEF Swept, Watched
<1> QED
  BY <1>2, <1>3, <1>7 DEF Swept

(* A Put that goes on to its pass, or gives up without one.                *)
LEMMA PutSwept ==
  ASSUME Swept, Ordered', UNCHANGED <<scan, total>>, NEW l \in Loaders,
         unswept' \in BOOLEAN, pc'[l] \in {"open", "write", "rename", "scan"} \/ unswept'
  PROVE  Swept'
<1>1. Passes'
  BY PassKept DEF Swept
<1> QED
  BY <1>1, PutSweeps DEF Swept

(* Put opens its file, which is from now on the last written, ...          *)
LEMMA OpenSwept ==
  ASSUME DiskCacheAssumption, IInv, Swept, NEW l \in Loaders, Open(l) \/ OpenFails(l) PROVE Swept'
<1>1. Typed /\ Knows(l) /\ Ordered
  BY DEF IInv, Swept
<1>2. CASE OpenFails(l)
  <2>1. UNCHANGED <<key, tmp, recent, fd, scan, total>> /\ unswept' = TRUE
    BY <1>2 DEF OpenFails, GiveUp, dir, loader
  <2>2. Ordered'
    BY <1>1, <2>1 DEF Ordered, Lists, Used, Range, Inodes
  <2> QED
    BY <2>1, <2>2, PutSwept
<1>3. CASE Open(l)
  <2> DEFINE p == cur[l].path
             i == IF tmp[p] = 0 THEN Fresh ELSE tmp[p]
  <2>1. p \in Paths /\ pc[l] = "open" /\ fd[l] = 0
    BY <1>1, <1>3 DEF Open, Knows, Putting
  <2>2. i \in Inodes
    BY <1>1, <2>1, FreshIsFree DEF Typed
  <2>3. /\ tmp' = [tmp EXCEPT ![p] = i] /\ fd' = [fd EXCEPT ![l] = i]
        /\ recent' = Written(i) /\ pc' = [pc EXCEPT ![l] = "write"]
        /\ UNCHANGED <<key, scan, total, unswept>>
    BY <1>3 DEF Open, Path, Go
  <2> HIDE DEF i
  <2>4. Used' \subseteq Used \cup {i}
    BY <1>1, <2>3 DEF Used, Range, Typed
  <2>5. Lists(recent', Used')
    BY <1>1, <2>2, <2>3, <2>4, WrittenLists, ListsLess DEF Ordered
  <2>6. Ordered'
    BY <2>5 DEF Ordered, Lists, Distinct, Inodes
  <2>7. pc'[l] = "write" /\ unswept' \in BOOLEAN
    BY <1>1, <2>3 DEF Typed, Swept
  <2> QED
    BY <2>3, <2>6, <2>7, PutSwept
<1> QED
  BY <1>2, <1>3

(* ... writes it, ...                                                      *)
LEMMA WriteSwept ==
  ASSUME DiskCacheAssumption, IInv, Swept, NEW l \in Loaders, Write(l) PROVE Swept'
<1>1. Typed /\ Knows(l) /\ Ordered /\ unswept \in BOOLEAN
  BY DEF IInv, Swept
<1>2. fd[l] \in Inodes
  BY <1>1 DEF Write, Knows, Typed
<1>3. /\ fd' = [fd EXCEPT ![l] = 0] /\ UNCHANGED <<key, tmp, scan, total>>
      /\ \E c : Collect(c, Written(fd[l]))
      /\ (Go(l, "rename") /\ UNCHANGED unswept) \/ unswept' = TRUE
  BY DEF Write, GiveUp
<1>4. fd[l] \in Used /\ Used' \subseteq Used
  BY <1>1, <1>2, <1>3, Numbers DEF Used, Range, Typed
<1>5. Ordered'
  <2>1. Lists(Written(fd[l]), Used')
    BY <1>1, <1>2, <1>4, WrittenLists, ListsLess DEF Ordered
  <2> QED
    BY <1>3, <2>1, CollectLists
<1>6. pc'[l] \in {"open", "write", "rename", "scan"} \/ unswept'
  BY <1>1, <1>3 DEF Go, Typed
<1> QED
  BY <1>1, <1>3, <1>5, <1>6, PutSwept

(* ... and renames it, on the way to its pass.                             *)
LEMMA RenameSwept ==
  ASSUME DiskCacheAssumption, IInv, Swept, NEW l \in Loaders, Rename(l) \/ RenameFails(l) PROVE Swept'
<1>1. Typed /\ Knows(l) /\ Ordered /\ unswept \in BOOLEAN
  BY DEF IInv, Swept
<1> DEFINE p == cur[l].path
<1>2. p \in Paths
  BY <1>1 DEF Rename, RenameFails, Knows, Putting
<1>3. /\ UNCHANGED <<fd, scan, total>> /\ Collect(content, recent)
      /\ tmp' = [tmp EXCEPT ![p] = 0]
      /\ key' = key \/ key' = [key EXCEPT ![p] = tmp[p]]
      /\ (Go(l, "scan") /\ UNCHANGED unswept) \/ unswept' = TRUE
  BY DEF Rename, RenameFails, GiveUp, loader, Path
<1>4. Used' \subseteq Used
  BY <1>1, <1>2, <1>3 DEF Used, Range, Typed
<1>5. Ordered'
  BY <1>1, <1>3, <1>4, ListsLess, CollectLists DEF Ordered
<1>6. pc'[l] \in {"open", "write", "rename", "scan"} \/ unswept'
  BY <1>1, <1>3 DEF Go, Typed
<1> QED
  BY <1>1, <1>3, <1>5, <1>6, PutSwept

(* The pass either finds nothing to do or lists all there is, ...          *)
LEMMA ScanSwept ==
  ASSUME DiskCacheAssumption, IInv, Swept, NEW l \in Loaders, Scan(l) PROVE Swept'
<1>1. Typed /\ Ordered /\ Passes /\ Cap \in Nat
  BY DEF IInv, Swept, DiskCacheAssumption
<1>2. /\ pc[l] = "scan" /\ UNCHANGED <<key, tmp, content, recent, fd>> /\ unswept' = FALSE
      /\ IF Total > Cap
           THEN /\ scan' = [scan EXCEPT ![l] = Entries] /\ total' = [total EXCEPT ![l] = Total]
                /\ pc' = [pc EXCEPT ![l] = "evict"]
           ELSE UNCHANGED <<scan, total>>
  BY DEF Scan, dir, OverBudget, Go
<1>3. Ordered'
  BY <1>1, <1>2 DEF Ordered, Lists, Used, Range, Inodes
<1>4. Sizes' = Sizes
  BY <1>2 DEF Sizes
<1>5. Total' = Total
  BY <1>4 DEF Total
<1>6. CASE ~(Total > Cap)
  BY <1>1, <1>2, <1>3, <1>5, <1>6, PassKept DEF Swept, Watched
<1>7. CASE Total > Cap
  <2>1. /\ Entries \in Listing /\ EachOnce(Entries) /\ RestOf(Entries) = Sizes
        /\ Sizes \in [Paths -> Nat] /\ Total \in Nat
    BY <1>1, EntriesFacts, SizesType
  <2>2. Passes'
    <3>1. SumFunction(RestOf(Entries)) <= Total
      BY <2>1 DEF Total
    <3> QED
      BY <1>1, <1>2, <1>7, <2>1, <3>1, PassMoves
  <2>3. scan'[l] = Entries /\ pc'[l] = "evict"
    BY <1>1, <1>2, <1>7 DEF Typed, Passes
  <2>4. RestOf(scan[l])' = Sizes
    <3>1. RestOf(scan[l])' = RestOf(scan'[l])
      BY DEF RestOf, At
    <3> QED
      BY <2>1, <2>3, <3>1
  <2>5. Covers(l)'
    BY <1>4, <2>1, <2>4 DEF Covers
  <2>6. Watched'
    BY <2>3, <2>5 DEF Watched, WillSweep
  <2> QED
    BY <1>2, <1>3, <2>2, <2>6 DEF Swept
<1> QED
  BY <1>6, <1>7

(* ... and evicts until what is left is within the cap.                    *)
LEMMA EvictSwept ==
  ASSUME DiskCacheAssumption, IInv, IInv', Swept, NEW l \in Loaders, Evict(l) PROVE Swept'
<1>1. /\ Typed /\ Typed' /\ Ordered /\ Passes /\ Watched /\ Cap \in Nat /\ unswept \in BOOLEAN
      /\ IsFiniteSet(Paths) /\ Total \in Nat /\ Sizes \in [Paths -> Nat]
  BY SizesType DEF IInv, Swept, DiskCacheAssumption
<1>2. pc[l] = "evict" /\ UNCHANGED <<fd, unswept>>
  BY DEF Evict
<1>3. scan[l] \in Listing /\ EachOnce(scan[l]) /\ total[l] \in Nat /\ SumFunction(RestOf(scan[l])) <= total[l]
  BY <1>1 DEF Passes
<1>4. CASE scan[l] = <<>> \/ ~(total[l] > Cap)
  <2>1. /\ scan' = [scan EXCEPT ![l] = <<>>] /\ total' = [total EXCEPT ![l] = 0]
        /\ pc' = [pc EXCEPT ![l] = "record"] /\ UNCHANGED <<key, tmp, content, recent>>
    BY <1>4 DEF Evict, OverBudget, Go, dir
  <2>2. Passes'
    <3>1. <<>> \in Listing /\ DOMAIN <<>> = {} /\ EachOnce(<<>>)
      BY DEF Listing, EachOnce
    <3>2. RestOf(<<>>) \in [Paths -> Nat] /\ \A p \in Paths : RestOf(<<>>)[p] = 0
      BY <3>1, RestFacts
    <3>3. SumFunction(RestOf(<<>>)) <= 0
      BY <1>1, <3>2, SumZero
    <3> QED
      BY <1>1, <2>1, <3>1, <3>3, PassMoves
  <2>3. Ordered'
    BY <1>1, <1>2, <2>1 DEF Ordered, Lists, Used, Range, Inodes
  <2>4. Sizes' = Sizes
    BY <2>1 DEF Sizes
  <2>5. Total' = Total
    BY <2>4 DEF Total
  <2>6. WillSweep(l) => Total' <= Cap
    BY <1>1, <1>2, <1>3, <1>4, <2>5, PassCovers DEF WillSweep
  <2>7. \A k \in Loaders \ {l} : pc'[k] = pc[k] /\ scan'[k] = scan[k]
    BY <1>1, <2>1 DEF Typed, Passes
  <2>8. \A p \in Paths : Sizes'[p] <= Sizes[p]
    BY <1>1, <2>4
  <2>9. Watched'
    BY <1>1, <1>2, <2>6, <2>7, <2>8, NothingGrows
  <2> QED
    BY <1>1, <1>2, <2>2, <2>3, <2>9 DEF Swept
<1>5. CASE scan[l] # <<>> /\ total[l] > Cap
  <2> DEFINE s == scan[l]
             p == Head(s)[1]
             n == IF key[p] = 0 THEN total[l] ELSE total[l] - Head(s)[2]
  <2>1. /\ scan' = [scan EXCEPT ![l] = Tail(s)] /\ total' = [total EXCEPT ![l] = n]
        /\ key' = [key EXCEPT ![p] = 0] /\ tmp' = tmp /\ pc' = pc /\ Collect(content, recent)
    BY <1>5 DEF Evict, OverBudget
  <2>2. /\ Tail(s) \in Listing /\ EachOnce(Tail(s)) /\ p \in Paths /\ Head(s)[2] \in Nat
        /\ RestOf(s)[p] = Head(s)[2] /\ RestOf(Tail(s)) = [RestOf(s) EXCEPT ![p] = 0]
        /\ RestOf(s) \in [Paths -> Nat] /\ RestOf(Tail(s)) \in [Paths -> Nat]
    BY <1>3, <1>5, RestTail, RestFacts
  <2>3. /\ SumFunction(RestOf(Tail(s))) + Head(s)[2] = SumFunction(RestOf(s)) + 0
        /\ SumFunction(RestOf(s)) \in Nat /\ SumFunction(RestOf(Tail(s))) \in Nat
    BY <1>1, <2>2, SumUpdate, SumType
  <2>4. n \in Nat /\ SumFunction(RestOf(Tail(s))) <= n
    BY <1>3, <2>2, <2>3
  <2> HIDE DEF n, p, s
  <2>5. Passes'
    BY <1>1, <2>1, <2>2, <2>4, PassMoves
  <2>6. /\ \A q \in Paths : key'[q] \in {key[q], 0}
        /\ \A k \in Loaders : fd'[k] \in {fd[k], 0}
        /\ key'[p] = 0
    BY <1>1, <1>2, <2>1, <2>2 DEF Typed
  <2>7. Ordered' /\ \A q \in Paths : Sizes'[q] <= Sizes[q]
    BY <1>1, <2>1, <2>6, NamesShrink
  <2>8. ASSUME Covers(l) PROVE Covers(l)'
    <3>1. RestOf(scan[l])' = RestOf(Tail(s))
      <4>1. scan'[l] = Tail(s)
        BY <1>1, <2>1 DEF Passes
      <4> QED
        BY <4>1 DEF RestOf, At
    <3>2. Sizes'[p] = 0
      BY <2>2, <2>6 DEF Sizes
    <3>3. \A q \in Paths : q # p => Sizes'[q] <= RestOf(Tail(s))[q]
      <4> SUFFICES ASSUME NEW q \in Paths, q # p PROVE Sizes'[q] <= RestOf(Tail(s))[q]
        OBVIOUS
      <4>1. Sizes'[q] \in Nat /\ Sizes'[q] <= Sizes[q] /\ Sizes[q] \in Nat /\ RestOf(s)[q] \in Nat
        <5>1. key'[q] # 0 => content'[key'[q]] \in Content
          BY <1>1 DEF Typed
        <5>2. key'[q] # 0 => content'[key'[q]].size \in Nat
          BY <1>1, <5>1, Values DEF Content
        <5> QED
          BY <1>1, <2>2, <2>7, <5>2 DEF Sizes
      <4>2. RestOf(Tail(s))[q] = RestOf(s)[q]
        BY <2>2
      <4>3. Sizes[q] <= RestOf(s)[q]
        BY <2>8 DEF Covers, s
      <4> QED
        BY <4>1, <4>2, <4>3
    <3>4. \A q \in Paths : Sizes'[q] <= RestOf(Tail(s))[q]
      BY <2>2, <3>2, <3>3
    <3> QED
      BY <3>1, <3>4 DEF Covers
  <2>9. \A k \in Loaders \ {l} : pc'[k] = pc[k] /\ scan'[k] = scan[k]
    BY <1>1, <2>1 DEF Passes
  <2>10. WillSweep(l) => WillSweep(l)'
    BY <2>1, <2>8 DEF WillSweep
  <2>11. Watched'
    BY <1>1, <1>2, <2>7, <2>9, <2>10, NothingGrows
  <2> QED
    BY <1>1, <1>2, <2>5, <2>7, <2>11 DEF Swept
<1> QED
  BY <1>4, <1>5

(* The end of a walk takes entries away; it is not within a Put.           *)
LEMMA SweepSwept ==
  ASSUME DiskCacheAssumption, IInv, IInv', Swept, NEW l \in Loaders, Sweep(l) PROVE Swept'
<1>1. Typed /\ Typed' /\ Ordered /\ Passes /\ Watched /\ unswept \in BOOLEAN
  BY DEF IInv, Swept
<1>2. /\ pc[l] = "walk" /\ pc' = [pc EXCEPT ![l] = "done"] /\ UNCHANGED <<tmp, fd, scan, total, unswept>>
      /\ key' = [p \in Paths |-> IF files[l][p] = 0 THEN 0 ELSE key[p]] /\ Collect(content, recent)
  BY DEF Sweep, Go, loader
<1>3. Ordered' /\ \A q \in Paths : Sizes'[q] <= Sizes[q]
  BY <1>1, <1>2, NamesShrink
<1>4. Watched'
  <2>1. \A k \in Loaders \ {l} : pc'[k] = pc[k] /\ scan'[k] = scan[k]
    BY <1>1, <1>2 DEF Typed
  <2>2. ~WillSweep(l)
    BY <1>2 DEF WillSweep
  <2> QED
    BY <1>1, <1>2, <1>3, <2>1, <2>2, NothingGrows
<1> QED
  BY <1>1, <1>2, <1>3, <1>4, PassKept DEF Swept

(* A crash within a Put leaves its pass to the next.                       *)
LEMMA CrashSwept ==
  ASSUME DiskCacheAssumption, IInv, IInv', Swept, NEW l \in Loaders, Crash(l) PROVE Swept'
<1>1. Typed /\ Typed' /\ Ordered /\ Passes /\ Watched /\ unswept \in BOOLEAN /\ IsFiniteSet(Paths)
  BY DEF IInv, Swept, DiskCacheAssumption
<1>2. /\ unswept' = (unswept \/ pc[l] \in Putting) /\ pc' = [pc EXCEPT ![l] = "idle"]
      /\ fd' = [fd EXCEPT ![l] = 0] /\ scan' = [scan EXCEPT ![l] = <<>>] /\ total' = [total EXCEPT ![l] = 0]
      /\ UNCHANGED <<key, tmp>> /\ Collect(content, recent)
  BY DEF Crash, Go
<1>3. Ordered' /\ \A q \in Paths : Sizes'[q] <= Sizes[q]
  BY <1>1, <1>2, NamesShrink DEF Typed
<1>4. Watched'
  <2>1. \A k \in Loaders \ {l} : pc'[k] = pc[k] /\ scan'[k] = scan[k]
    BY <1>1, <1>2 DEF Typed, Passes
  <2>2. WillSweep(l) => unswept'
    BY <1>2 DEF WillSweep, Putting
  <2> QED
    BY <1>1, <1>2, <1>3, <2>1, <2>2, NothingGrows
<1>5. Passes'
  <2>1. <<>> \in Listing /\ DOMAIN <<>> = {} /\ EachOnce(<<>>)
    BY DEF Listing, EachOnce
  <2>2. RestOf(<<>>) \in [Paths -> Nat] /\ \A p \in Paths : RestOf(<<>>)[p] = 0
    BY <2>1, RestFacts
  <2>3. SumFunction(RestOf(<<>>)) <= 0
    BY <1>1, <2>2, SumZero
  <2> QED
    BY <1>1, <1>2, <2>1, <2>3, PassMoves
<1>6. unswept' \in BOOLEAN
  BY <1>1, <1>2
<1> QED
  BY <1>3, <1>4, <1>5, <1>6 DEF Swept

(* The inductive step of this invariant, on top of the other.              *)
LEMMA SweptStep == DiskCacheAssumption /\ IInv /\ Swept /\ [Next]_vars => Swept'
<1> SUFFICES ASSUME DiskCacheAssumption, IInv, Swept, [Next]_vars PROVE Swept'
  OBVIOUS
<1>0. IInv'
  BY InvStep
<1>1. Typed
  BY DEF IInv
<1>2. CASE UNCHANGED vars
  BY <1>2, QuietSwept DEF vars, dir
<1>3. ASSUME NEW l \in Loaders,
             Begin(l) \/ Visit(l) \/ Get(l) \/ Stat(l) \/ Read(l) \/ Refuse(l) \/ Record(l)
      PROVE  Swept'
  <2>1. UNCHANGED <<dir, fd, scan, total, unswept>> /\ pc[l] \notin Putting
    BY <1>3 DEF Begin, Visit, Get, Stat, Read, Refuse, Skip, Record, Putting
  <2>2. \A k \in Loaders \ {l} : pc'[k] = pc[k]
    BY <1>1, <1>3 DEF Begin, Visit, Get, Stat, Read, Refuse, Skip, Record, Go, Typed
  <2> QED
    BY <2>1, <2>2, QuietSwept
<1>4. ASSUME NEW p \in Paths, Edit(p) \/ Unlink(p) PROVE Swept'
  BY <1>4, QuietSwept DEF Edit, Unlink, loader
<1> QED
  BY <1>0, <1>2, <1>3, <1>4, OpenSwept, WriteSwept, RenameSwept, ScanSwept, EvictSwept, SweepSwept, CrashSwept
     DEF Next

(* There is nothing to sweep at the start.                                 *)
LEMMA SweptInit == DiskCacheAssumption /\ Init => Swept
<1> SUFFICES ASSUME DiskCacheAssumption, Init PROVE Swept
  OBVIOUS
<1>1. Typed /\ IsFiniteSet(Paths) /\ Cap \in Nat
  BY InitInv DEF IInv, DiskCacheAssumption
<1>2. /\ \A p \in Paths : key[p] = 0 /\ tmp[p] = 0
      /\ \A l \in Loaders : fd[l] = 0
      /\ recent = <<>> /\ unswept = FALSE /\ scan = [l \in Loaders |-> <<>>] /\ total = [l \in Loaders |-> 0]
  BY DEF Init, None
<1>3. Ordered
  <2>1. Used = {}
    BY <1>1, <1>2 DEF Used, Range, Typed
  <2>2. <<>> \in Seq(Inodes) /\ DOMAIN <<>> = {}
    OBVIOUS
  <2> QED
    BY <1>2, <2>1, <2>2 DEF Ordered, Lists, Distinct
<1>4. Passes
  <2>1. <<>> \in Listing /\ DOMAIN <<>> = {} /\ EachOnce(<<>>)
    BY DEF Listing, EachOnce
  <2>2. RestOf(<<>>) \in [Paths -> Nat] /\ \A p \in Paths : RestOf(<<>>)[p] = 0
    BY <2>1, RestFacts
  <2>3. SumFunction(RestOf(<<>>)) <= 0
    BY <1>1, <2>2, SumZero
  <2> QED
    BY <1>2, <2>1, <2>3 DEF Passes
<1>5. Total = 0
  <2>1. Sizes \in [Paths -> Nat] /\ \A p \in Paths : Sizes[p] = 0
    BY <1>1, <1>2, SizesType
  <2> QED
    BY <1>1, <2>1, SumZero DEF Total
<1>6. Watched
  BY <1>1, <1>5 DEF Watched
<1> QED
  BY <1>2, <1>3, <1>4, <1>6 DEF Swept

(* The two invariants say what the run checks: the types ...               *)
LEMMA InvTypeOK == DiskCacheAssumption /\ IInv /\ Swept => TypeOK
<1> SUFFICES ASSUME DiskCacheAssumption, IInv, Swept PROVE TypeOK
  OBVIOUS
<1>1. recent \in Seq(Inodes) /\ scan \in [Loaders -> Listing] /\ total \in [Loaders -> Nat] /\ unswept \in BOOLEAN
  BY DEF Swept, Ordered, Lists, Passes
<1> QED
  BY <1>1 DEF IInv, Typed, OneName, Versions, Content, Budget, Listing, TypeOK

(* ... and the budget.                                                     *)
LEMMA InvBudgetKept == DiskCacheAssumption /\ IInv /\ Swept => BudgetKept
<1> SUFFICES ASSUME DiskCacheAssumption, IInv, Swept, ~unswept, \A l \in Loaders : pc[l] \notin Putting
             PROVE  Total <= Cap
  BY DEF BudgetKept
<1>1. Total \in Nat /\ Cap \in Nat
  BY SizesType DEF IInv, DiskCacheAssumption
<1>2. \A l \in Loaders : ~WillSweep(l)
  BY DEF WillSweep, Putting
<1> QED
  BY <1>1, <1>2 DEF Swept, Watched

-----------------------------------------------------------------------------
(* IInv holds in every reachable state: among the rest, no inode has two   *)
(* names, and every value but the order and the sizes of the eviction pass *)
(* has its type.                                                           *)
THEOREM Inductive ==
  ASSUME DiskCacheAssumption
  PROVE  Spec => []IInv
  BY InitInv, InvStep, PTL DEF Spec

(* What a load records of a file is at least as new as the file was when   *)
(* the load began, whoever truncates, writes, renames and evicts the       *)
(* entries meanwhile, and wherever they crash.                             *)
THEOREM LoadsAreCurrent ==
  ASSUME DiskCacheAssumption
  PROVE  Spec => []LoadedIsCurrent
  BY Inductive, InvLoadedIsCurrent, PTL

(* Both invariants hold in every reachable state: when the directory is    *)
(* over its cap, a Put has missed its pass, or a loader is on its way to   *)
(* one, or in one that has all that is there still on its list.            *)
THEOREM SweptInductive ==
  ASSUME DiskCacheAssumption
  PROVE  Spec => [](IInv /\ Swept)
<1>1. Init => IInv /\ Swept
  BY InitInv, SweptInit
<1>2. IInv /\ Swept /\ [Next]_vars => (IInv /\ Swept)'
  BY InvStep, SweptStep
<1> QED
  BY <1>1, <1>2, PTL DEF Spec

(* Every value has its type, and no inode has two names, for every         *)
(* number of files and loaders.                                            *)
THEOREM TypeCorrect ==
  ASSUME DiskCacheAssumption
  PROVE  Spec => []TypeOK
  BY SweptInductive, InvTypeOK, PTL

(* When no Put is under way and none has missed its pass, the directory    *)
(* is within its cap, however the Puts, the passes that list the directory *)
(* and evict what others have replaced since, and the crashes interleave.  *)
THEOREM WithinBudget ==
  ASSUME DiskCacheAssumption
  PROVE  Spec => []BudgetKept
  BY SweptInductive, InvBudgetKept, PTL
=============================================================================
