--------------------------- MODULE AnalysisProofs ---------------------------
(***************************************************************************)
(* The theorems about CachedFile, the dispatch of requests, the disk cache,*)
(* query_graph, node_edges and the tools that take an id or a name, in     *)
(* Analysis, where they are checked: a step of Analysis is a step of the   *)
(* part that the behaviour is of, and leaves the other parts where they    *)
(* are parked.                                                             *)
(***************************************************************************)
EXTENDS Analysis, SequenceTheorems, TLAPS

-----------------------------------------------------------------------------
(***************************************************************************)
(* Removing one element of a list, which container/list does in place.     *)
(***************************************************************************)
LEMMA RemoveAtFacts ==
  ASSUME NEW S, NEW s \in Seq(S), NEW i \in 1..Len(s)
  PROVE  /\ Files!RemoveAt(s, i) \in Seq(S) /\ Len(Files!RemoveAt(s, i)) = Len(s) - 1
         /\ \A j \in 1..(Len(s) - 1) : Files!RemoveAt(s, i)[j] = IF j < i THEN s[j] ELSE s[j + 1]
<1> DEFINE a == SubSeq(s, 1, i - 1)
           b == SubSeq(s, i + 1, Len(s))
<1>1. Len(s) \in Nat /\ \A j \in 1..Len(s) : s[j] \in S
  BY LenProperties, ElementOfSeq
<1>2. a \in Seq(S) /\ Len(a) = i - 1 /\ \A j \in 1..(i - 1) : a[j] = s[j]
  <2>1. \A j \in 1..(i - 1) : s[j] \in S
    BY <1>1
  <2> QED
    BY <1>1, <2>1, SubSeqProperties
<1>3. b \in Seq(S) /\ Len(b) = Len(s) - i /\ \A j \in 1..(Len(s) - i) : b[j] = s[i + j]
  <2>1. \A j \in (i + 1)..Len(s) : s[j] \in S
    BY <1>1
  <2>2. /\ b \in Seq(S) /\ Len(b) = IF i + 1 <= Len(s) THEN Len(s) - (i + 1) + 1 ELSE 0
        /\ \A j \in 1..(Len(s) - (i + 1) + 1) : b[j] = s[(i + 1) + j - 1]
    BY <1>1, <2>1, SubSeqProperties
  <2> QED
    BY <1>1, <2>2
<1> HIDE DEF a, b
<1>4. /\ a \o b \in Seq(S) /\ Len(a \o b) = Len(s) - 1
      /\ \A j \in 1..(Len(s) - 1) : (a \o b)[j] = IF j < i THEN s[j] ELSE s[j + 1]
  <2>1. /\ a \o b \in Seq(S) /\ Len(a \o b) = Len(a) + Len(b)
        /\ \A j \in 1..(Len(a) + Len(b)) : (a \o b)[j] = IF j <= Len(a) THEN a[j] ELSE b[j - Len(a)]
    BY <1>2, <1>3, ConcatProperties
  <2>2. Len(a) + Len(b) = Len(s) - 1
    BY <1>1, <1>2, <1>3
  <2>3. ASSUME NEW j \in 1..(Len(s) - 1)
        PROVE  (a \o b)[j] = IF j < i THEN s[j] ELSE s[j + 1]
    <3>1. CASE j < i
      BY <1>1, <1>2, <2>1, <2>2, <3>1
    <3>2. CASE j >= i
      <4>1. (a \o b)[j] = b[j - (i - 1)] /\ j - (i - 1) \in 1..(Len(s) - i)
        BY <1>1, <1>2, <2>1, <2>2, <3>2
      <4>2. b[j - (i - 1)] = s[i + (j - (i - 1))] /\ i + (j - (i - 1)) = j + 1
        BY <1>1, <1>3, <4>1
      <4> QED
        BY <3>2, <4>1, <4>2
    <3>3. j < i \/ j >= i
      BY <1>1
    <3> QED
      BY <3>1, <3>2, <3>3
  <2> QED
    BY <2>1, <2>2, <2>3
<1> QED
  BY <1>4 DEF Files!RemoveAt, a, b

(***************************************************************************)
(* The inductive invariant.  An answer may be taken from the LRU, from     *)
(* r.files or from the disk; so no parsed file anywhere may be older than  *)
(* the mtime it is filed under, and each step of a call must know what the *)
(* disk has been since the call began.                                     *)
(***************************************************************************)

(* A file is read after its mtime is taken.                                *)
Sound(f) == f.mtime <= f.bytes

(* A list of parsed files with one for each path.                          *)
Tidy(s) ==
  /\ s \in Seq(Files!File)
  /\ \A i \in DOMAIN s : Sound(s[i])
  /\ \A i, j \in DOMAIN s : s[i].path = s[j].path => i = j

(* r.files has each path's own file.                                       *)
ResidentSound == \A p \in Paths : files[p].path = p /\ Sound(files[p])

(* The tree has not gone back since the call began, or since its stat.     *)
Since(p, v) == tree[p] = 0 \/ v <= tree[p]

(* What a call has in hand, by the step it has reached.                    *)
CallKnows ==
  \A r \in Readers :
    /\ pc[r] # "idle" => Since(cur[r].path, began[r])
    /\ pc[r] \in {"lru", "resident", "read"} => began[r] <= cur[r].mtime
    /\ pc[r] = "read" => Since(cur[r].path, cur[r].mtime)
    /\ pc[r] \in {"put", "putnew", "store", "return"} => Sound(cur[r]) /\ began[r] <= cur[r].bytes

(* Versions are bounded by the edits that are left.                        *)
EditsLeft == \A p \in Paths : tree[p] + edits <= MaxEdits + 1

FilesIInv == Files!TypeOK /\ Tidy(lru) /\ Len(lru) <= FileCap /\ ResidentSound /\ CallKnows /\ EditsLeft

-----------------------------------------------------------------------------
(* The list without the element of p is tidy, and has nothing of p.          *)
LEMMA WithoutFacts ==
  ASSUME Tidy(lru), NEW p
  PROVE  /\ Tidy(Files!Without(p)) /\ \A j \in DOMAIN Files!Without(p) : Files!Without(p)[j].path # p
         /\ Len(Files!Without(p)) = IF Files!Cached(p) THEN Len(lru) - 1 ELSE Len(lru)
         /\ Files!Cached(p) => Files!Slot(p) \in DOMAIN lru /\ lru[Files!Slot(p)].path = p
<1>1. lru \in Seq(Files!File) /\ Len(lru) \in Nat /\ DOMAIN lru = 1..Len(lru)
  BY LenProperties DEF Tidy
<1>2. CASE ~Files!Cached(p)
  BY <1>2 DEF Files!Without, Files!Cached
<1>3. CASE Files!Cached(p)
  <2> DEFINE k == Files!Slot(p)
             w == Files!RemoveAt(lru, k)
             From(j) == IF j < k THEN j ELSE j + 1
  <2>1. k \in DOMAIN lru /\ lru[k].path = p
    BY <1>3 DEF Files!Cached, Files!Slot
  <2>2. Files!Without(p) = w
    BY <1>3 DEF Files!Without
  <2> HIDE DEF k
  <2>3. k \in 1..Len(lru)
    BY <1>1, <2>1
  <2>4. /\ w \in Seq(Files!File) /\ Len(w) = Len(lru) - 1
        /\ \A j \in 1..(Len(lru) - 1) : w[j] = IF j < k THEN lru[j] ELSE lru[j + 1]
    BY <1>1, <2>3, RemoveAtFacts
  <2> HIDE DEF w
  <2>5. DOMAIN w = 1..(Len(lru) - 1)
    BY <2>4, LenProperties
  <2>6. \A j \in DOMAIN w : w[j] = lru[From(j)] /\ From(j) \in DOMAIN lru /\ From(j) # k
    BY <1>1, <2>3, <2>4, <2>5
  <2>7. \A i, j \in DOMAIN w : From(i) = From(j) => i = j
    BY <1>1, <2>3, <2>5
  <2> HIDE DEF From
  <2>8. \A j \in DOMAIN w : Sound(w[j]) /\ w[j].path # p
    BY <2>1, <2>6 DEF Tidy
  <2>9. \A i, j \in DOMAIN w : w[i].path = w[j].path => i = j
    BY <2>6, <2>7 DEF Tidy
  <2> QED
    BY <1>3, <2>1, <2>2, <2>4, <2>8, <2>9 DEF Tidy, k
<1> QED
  BY <1>2, <1>3

(* A sound file of a new path may go to the front.                           *)
LEMMA PushFront ==
  ASSUME NEW s, Tidy(s), NEW f \in Files!File, Sound(f), \A j \in DOMAIN s : s[j].path # f.path
  PROVE  Tidy(<<f>> \o s) /\ Len(<<f>> \o s) = Len(s) + 1
<1> DEFINE t == <<f>> \o s
<1>1. /\ s \in Seq(Files!File) /\ Len(s) \in Nat /\ DOMAIN s = 1..Len(s)
      /\ <<f>> \in Seq(Files!File) /\ Len(<<f>>) = 1
  BY LenProperties DEF Tidy
<1>2. /\ t \in Seq(Files!File) /\ Len(t) = Len(s) + 1
      /\ \A i \in 1..(Len(s) + 1) : t[i] = IF i <= 1 THEN <<f>>[i] ELSE s[i - 1]
  <2>1. /\ t \in Seq(Files!File) /\ Len(t) = Len(<<f>>) + Len(s)
        /\ \A i \in 1..(Len(<<f>>) + Len(s)) : t[i] = IF i <= Len(<<f>>) THEN <<f>>[i] ELSE s[i - Len(<<f>>)]
    BY <1>1, ConcatProperties
  <2> QED
    BY <1>1, <2>1
<1> HIDE DEF t
<1>3. DOMAIN t = 1..(Len(s) + 1)
  BY <1>2, LenProperties
<1>4. \A i \in DOMAIN t : IF i = 1 THEN t[i] = f ELSE i - 1 \in DOMAIN s /\ t[i] = s[i - 1]
  BY <1>1, <1>2, <1>3
<1>5. \A i \in DOMAIN t : Sound(t[i])
  BY <1>4 DEF Tidy
<1>6. \A i, j \in DOMAIN t : t[i].path = t[j].path => i = j
  <2> SUFFICES ASSUME NEW i \in DOMAIN t, NEW j \in DOMAIN t, t[i].path = t[j].path PROVE i = j
    OBVIOUS
  <2>1. CASE i = 1 \/ j = 1
    BY <1>4, <2>1
  <2>2. CASE i # 1 /\ j # 1
    <3>1. i - 1 = j - 1
      BY <1>4, <2>2 DEF Tidy
    <3> QED
      BY <1>3, <3>1, <1>1
  <2> QED
    BY <2>1, <2>2
<1> QED
  BY <1>2, <1>5, <1>6 DEF Tidy, t

(* Dropping the last keeps a list tidy.                                      *)
LEMMA DropBack ==
  ASSUME NEW s, Tidy(s), Len(s) > 0
  PROVE  Tidy(Files!Front(s)) /\ Len(Files!Front(s)) = Len(s) - 1
<1>1. s \in Seq(Files!File) /\ Len(s) \in Nat /\ DOMAIN s = 1..Len(s)
  BY LenProperties DEF Tidy
<1>2. \A i \in 1..(Len(s) - 1) : s[i] \in Files!File
  BY <1>1, ElementOfSeq
<1>3. /\ Files!Front(s) \in Seq(Files!File) /\ Len(Files!Front(s)) = Len(s) - 1
      /\ \A i \in 1..(Len(s) - 1) : Files!Front(s)[i] = s[i]
  <2>1. /\ SubSeq(s, 1, Len(s) - 1) \in Seq(Files!File)
        /\ Len(SubSeq(s, 1, Len(s) - 1)) = IF 1 <= Len(s) - 1 THEN (Len(s) - 1) - 1 + 1 ELSE 0
        /\ \A i \in 1..((Len(s) - 1) - 1 + 1) : SubSeq(s, 1, Len(s) - 1)[i] = s[1 + i - 1]
    BY <1>1, <1>2, SubSeqProperties
  <2> QED
    BY <1>1, <2>1 DEF Files!Front
<1>4. DOMAIN Files!Front(s) = 1..(Len(s) - 1)
  BY <1>3, LenProperties
<1>5. \A i \in DOMAIN Files!Front(s) : i \in DOMAIN s /\ Files!Front(s)[i] = s[i]
  BY <1>1, <1>3, <1>4
<1> QED
  BY <1>3, <1>5 DEF Tidy

(* GetFile keeps the list tidy and within its capacity ...                   *)
LEMMA GetKeeps ==
  ASSUME Tidy(lru), Len(lru) <= FileCap, FileCap \in Nat, NEW p, NEW m, Files!GetFile(p, m)
  PROVE  Tidy(lru') /\ Len(lru') <= FileCap
<1>1. Len(lru) \in Nat /\ Len(Files!Without(p)) \in Nat
  BY WithoutFacts, LenProperties DEF Tidy
<1>2. CASE Files!Hit(p, m)
  <2> DEFINE f == lru[Files!Slot(p)]
  <2>1. Files!Cached(p) /\ Files!Slot(p) \in DOMAIN lru /\ f.path = p
    BY <1>2, WithoutFacts DEF Files!Hit
  <2>2. f \in Files!File /\ Sound(f)
    BY <2>1, LenProperties, ElementOfSeq DEF Tidy
  <2>3. lru' = <<f>> \o Files!Without(p)
    BY <1>2 DEF Files!GetFile
  <2> HIDE DEF f
  <2>4. Tidy(<<f>> \o Files!Without(p)) /\ Len(<<f>> \o Files!Without(p)) = Len(Files!Without(p)) + 1
    BY <2>1, <2>2, WithoutFacts, PushFront
  <2> QED
    BY <1>1, <2>1, <2>3, <2>4, WithoutFacts
<1>3. CASE ~Files!Hit(p, m)
  <2>1. lru' = Files!Without(p)
    BY <1>3 DEF Files!GetFile
  <2> QED
    BY <1>1, <2>1, WithoutFacts
<1> QED
  BY <1>2, <1>3

(* ... and so does PutFile.                                                  *)
LEMMA PutKeeps ==
  ASSUME Tidy(lru), Len(lru) <= FileCap, FileCap \in Nat \ {0}, NEW f \in Files!File, Sound(f),
         Files!PutFile(f)
  PROVE  Tidy(lru') /\ Len(lru') <= FileCap
<1> DEFINE longer == <<f>> \o Files!Without(f.path)
<1>1. Len(lru) \in Nat /\ Len(Files!Without(f.path)) \in Nat
  BY WithoutFacts, LenProperties DEF Tidy
<1>2. Tidy(longer) /\ Len(longer) = Len(Files!Without(f.path)) + 1
  BY WithoutFacts, PushFront
<1>3. lru' = IF ~Files!Cached(f.path) /\ Len(longer) > FileCap THEN Files!Front(longer) ELSE longer
  BY DEF Files!PutFile
<1> HIDE DEF longer
<1>4. Tidy(Files!Front(longer)) /\ Len(Files!Front(longer)) = Len(longer) - 1
  <2>1. Len(longer) > 0
    BY <1>1, <1>2
  <2> QED
    BY <1>2, <2>1, DropBack
<1>5. Len(longer) = IF Files!Cached(f.path) THEN Len(lru) ELSE Len(lru) + 1
  BY <1>1, <1>2, WithoutFacts
<1>6. CASE ~Files!Cached(f.path) /\ Len(longer) > FileCap
  <2>1. lru' = Files!Front(longer)
    BY <1>3, <1>6
  <2> QED
    BY <1>1, <1>4, <1>5, <1>6, <2>1
<1>7. CASE ~(~Files!Cached(f.path) /\ Len(longer) > FileCap)
  <2>1. lru' = longer
    BY <1>3, <1>7
  <2> QED
    BY <1>1, <1>2, <1>5, <1>7, <2>1
<1> QED
  BY <1>6, <1>7

-----------------------------------------------------------------------------
(* The invariant is inductive: one lemma for the types, one for what calls   *)
(* and caches know.                                                          *)
LEMMA FilesInitInv == Files!RepoFilesAssumption /\ Files!Init => FilesIInv
<1> SUFFICES ASSUME Files!RepoFilesAssumption, Files!Init PROVE FilesIInv
  OBVIOUS
<1> DEFINE any == CHOOSE p \in Paths : TRUE
<1>1. any \in Paths /\ FileCap \in Nat /\ MaxEdits \in Nat
  BY DEF Files!RepoFilesAssumption
<1> HIDE DEF any
<1>2. 0 \in Files!Versions /\ 1 \in Files!Versions /\ Files!At(any, 0) \in Files!File
  BY <1>1 DEF Files!Versions, Files!At, Files!File
<1>3. cur \in [Readers -> {Files!At(any, 0)}]
  BY DEF Files!Init, any
<1>4. Files!TypeOK
  <2>1. tree \in [Paths -> Files!Versions] /\ syms \in [Paths -> Files!Versions] /\ edits \in 0..MaxEdits
    BY <1>1, <1>2 DEF Files!Init
  <2>2. lru \in Seq(Files!File) /\ files \in [Paths -> Files!File]
    BY <1>2, EmptySeq DEF Files!Init, Files!File
  <2>3. cur \in [Readers -> Files!File] /\ began \in [Readers -> Files!Versions]
    BY <1>2, <1>3 DEF Files!Init
  <2> QED
    BY <2>1, <2>2, <2>3 DEF Files!Init, Files!TypeOK
<1>5. Tidy(lru) /\ Len(lru) <= FileCap
  <2>1. lru = <<>> /\ lru \in Seq(Files!File) /\ Len(lru) = 0
    BY EmptySeq DEF Files!Init
  <2>2. DOMAIN lru = {}
    BY <2>1, LenProperties
  <2> QED
    BY <1>1, <2>1, <2>2 DEF Tidy
<1>6. ResidentSound /\ CallKnows
  BY DEF Files!Init, ResidentSound, CallKnows, Sound
<1>7. EditsLeft
  BY <1>1 DEF Files!Init, EditsLeft
<1> QED
  BY <1>4, <1>5, <1>6, <1>7 DEF FilesIInv

(* A call that has f in hand next, or what it had.                           *)
LEMMA CallMoves ==
  ASSUME Files!TypeOK, CallKnows, UNCHANGED <<tree, began>>, NEW r \in Readers, NEW step, NEW f,
         pc' = [pc EXCEPT ![r] = step], cur' = [cur EXCEPT ![r] = f], f \in Files!File,
         step \in {"idle", "stat", "lru", "resident", "loadstat", "read", "put", "putnew", "store", "return"},
         step # "idle" => Since(f.path, began[r]),
         step \in {"lru", "resident", "read"} => began[r] <= f.mtime,
         step = "read" => Since(f.path, f.mtime),
         step \in {"put", "putnew", "store", "return"} => Sound(f) /\ began[r] <= f.bytes
  PROVE  /\ CallKnows' /\ cur' \in [Readers -> Files!File]
         /\ pc' \in [Readers -> {"idle", "stat", "lru", "resident", "loadstat", "read", "put", "putnew",
                                 "store", "return"}]
<1>1. /\ pc'[r] = step /\ cur'[r] = f
      /\ \A q \in Readers \ {r} : pc'[q] = pc[q] /\ cur'[q] = cur[q]
  BY DEF Files!TypeOK
<1>2. CallKnows'
  BY <1>1 DEF CallKnows, Since
<1> QED
  BY <1>2 DEF Files!TypeOK

(* The steps of a call.                                                      *)
LEMMA ReaderKeeps ==
  ASSUME Files!RepoFilesAssumption, FilesIInv, NEW r \in Readers,
         \/ \E p \in Paths : Files!Call(r, p)
         \/ Files!StatFile(r) \/ Files!TryCache(r) \/ Files!TryResident(r) \/ Files!LoadStat(r)
         \/ Files!ReadFile(r) \/ Files!Put(r) \/ Files!Store(r) \/ Files!Return(r)
  PROVE  FilesIInv'
<1> USE DEF FilesIInv
<1> DEFINE c == cur[r]
           p == cur[r].path
<1>1. /\ c \in Files!File /\ p \in Paths /\ c.mtime \in Files!Versions /\ c.bytes \in Files!Versions
      /\ \A q \in Paths : tree[q] \in Files!Versions
      /\ began[r] \in Files!Versions /\ 0 \in Files!Versions /\ \A v \in Files!Versions : v \in Nat
      /\ MaxEdits \in Nat /\ FileCap \in Nat \ {0}
  BY DEF Files!TypeOK, Files!File, Files!Versions, Files!RepoFilesAssumption
<1>2. \A q \in Paths, v \in Files!Versions :
        Files!At(q, v) \in Files!File /\ Files!At(q, v).path = q /\ Files!At(q, v).mtime = v
  BY <1>1 DEF Files!At, Files!File
<1>3. /\ pc[r] # "idle" => Since(p, began[r])
      /\ pc[r] \in {"lru", "resident", "read"} => began[r] <= c.mtime
      /\ pc[r] = "read" => Since(p, c.mtime)
      /\ pc[r] \in {"put", "putnew", "store", "return"} => Sound(c) /\ began[r] <= c.bytes
  BY DEF CallKnows
<1>4. cur = [cur EXCEPT ![r] = c]
  BY DEF Files!TypeOK
<1> HIDE DEF c, p
<1>5. ASSUME UNCHANGED <<tree, lru, files, syms, edits>>, CallKnows', cur' \in [Readers -> Files!File],
             pc' \in [Readers -> {"idle", "stat", "lru", "resident", "loadstat", "read", "put", "putnew",
                                  "store", "return"}],
             began' \in [Readers -> Files!Versions]
      PROVE  FilesIInv'
  BY <1>5 DEF Files!TypeOK, Tidy, ResidentSound, EditsLeft
<1>6. ASSUME NEW q \in Paths, Files!Call(r, q) PROVE FilesIInv'
  <2>1. /\ pc'[r] = "stat" /\ cur'[r] = Files!At(q, 0) /\ began'[r] = tree[q] /\ tree' = tree
        /\ \A s \in Readers \ {r} : pc'[s] = pc[s] /\ cur'[s] = cur[s] /\ began'[s] = began[s]
    BY <1>6 DEF Files!Call, Files!Go, Files!Have, Files!TypeOK
  <2>2. CallKnows'
    BY <1>1, <1>2, <2>1 DEF CallKnows, Since
  <2>3. cur' \in [Readers -> Files!File] /\ began' \in [Readers -> Files!Versions]
    BY <1>1, <1>2, <1>6 DEF Files!Call, Files!Have, Files!TypeOK
  <2> QED
    BY <1>5, <1>6, <2>2, <2>3 DEF Files!Call, Files!Go, Files!TypeOK
<1>7. CASE Files!StatFile(r)
  <2>1. CASE tree[p] = 0
    BY <1>1, <1>4, <1>5, <1>7, <2>1, CallMoves DEF Files!StatFile, Files!Go, Files!TypeOK, p
  <2>2. CASE tree[p] # 0
    <3>1. pc' = [pc EXCEPT ![r] = "lru"] /\ cur' = [cur EXCEPT ![r] = Files!At(p, tree[p])]
      BY <1>7, <2>2 DEF Files!StatFile, Files!Go, Files!Have, p
    <3>2. Since(p, began[r]) /\ began[r] <= tree[p]
      BY <1>3, <1>7, <2>2 DEF Files!StatFile, Since
    <3>3. CallKnows' /\ cur' \in [Readers -> Files!File]
      <4>1. PICK f \in Files!File : f = Files!At(p, tree[p]) /\ f.path = p /\ f.mtime = tree[p]
        BY <1>1, <1>2
      <4>2. pc' = [pc EXCEPT ![r] = "lru"] /\ cur' = [cur EXCEPT ![r] = f]
        BY <3>1, <4>1
      <4> QED
        BY <1>7, <3>2, <4>1, <4>2, CallMoves DEF Files!StatFile
    <3> QED
      BY <1>5, <1>7, <3>1, <3>3 DEF Files!StatFile, Files!TypeOK
  <2> QED
    BY <2>1, <2>2
<1>8. CASE Files!LoadStat(r)
  <2>1. CASE tree[p] = 0
    BY <1>1, <1>4, <1>5, <1>8, <2>1, CallMoves DEF Files!LoadStat, Files!Go, Files!TypeOK, p
  <2>2. CASE tree[p] # 0
    <3>1. pc' = [pc EXCEPT ![r] = "read"] /\ cur' = [cur EXCEPT ![r] = Files!At(p, tree[p])]
      BY <1>8, <2>2 DEF Files!LoadStat, Files!Go, Files!Have, p
    <3>2. Since(p, began[r]) /\ began[r] <= tree[p] /\ Since(p, tree[p])
      BY <1>1, <1>3, <1>8, <2>2 DEF Files!LoadStat, Since
    <3>3. CallKnows' /\ cur' \in [Readers -> Files!File]
      <4>1. PICK f \in Files!File : f = Files!At(p, tree[p]) /\ f.path = p /\ f.mtime = tree[p]
        BY <1>1, <1>2
      <4>2. pc' = [pc EXCEPT ![r] = "read"] /\ cur' = [cur EXCEPT ![r] = f]
        BY <3>1, <4>1
      <4> QED
        BY <1>8, <3>2, <4>1, <4>2, CallMoves DEF Files!LoadStat
    <3> QED
      BY <1>5, <1>8, <3>1, <3>3 DEF Files!LoadStat, Files!TypeOK
  <2> QED
    BY <2>1, <2>2
<1>9. CASE Files!ReadFile(r)
  <2>1. CASE tree[p] = 0
    BY <1>1, <1>4, <1>5, <1>9, <2>1, CallMoves DEF Files!ReadFile, Files!Go, Files!TypeOK, p
  <2>2. CASE tree[p] # 0
    <3> DEFINE f == [c EXCEPT !.bytes = tree[p]]
    <3>1. pc' = [pc EXCEPT ![r] = "putnew"] /\ cur' = [cur EXCEPT ![r] = f]
      BY <1>9, <2>2 DEF Files!ReadFile, Files!Go, Files!Have, p, c
    <3>2. f \in Files!File /\ f.path = p /\ f.mtime = c.mtime /\ f.bytes = tree[p]
      BY <1>1 DEF Files!File, p, c
    <3>3. Since(p, began[r]) /\ began[r] <= tree[p] /\ c.mtime <= tree[p]
      BY <1>3, <1>9, <2>2 DEF Files!ReadFile, Since
    <3> HIDE DEF f
    <3>4. CallKnows' /\ cur' \in [Readers -> Files!File]
      BY <1>1, <1>9, <3>1, <3>2, <3>3, CallMoves DEF Files!ReadFile, Sound
    <3> QED
      BY <1>5, <1>9, <3>1, <3>4 DEF Files!ReadFile, Files!TypeOK
  <2> QED
    BY <2>1, <2>2
<1>10. CASE Files!TryResident(r)
  <2>1. CASE Files!Current(files[p], c.mtime)
    <3>1. /\ files[p] \in Files!File /\ files[p].path = p /\ Sound(files[p]) /\ files[p].mtime = c.mtime
          /\ files[p].bytes \in Files!Versions
      BY <1>1, <2>1 DEF Files!Current, ResidentSound, Files!TypeOK, Files!File
    <3>2. pc' = [pc EXCEPT ![r] = "put"] /\ cur' = [cur EXCEPT ![r] = files[p]]
      BY <1>10, <2>1 DEF Files!TryResident, Files!Go, Files!Have, p, c
    <3>3. Since(p, began[r]) /\ began[r] <= files[p].bytes
      BY <1>1, <1>3, <1>10, <3>1 DEF Files!TryResident, Sound
    <3>4. CallKnows' /\ cur' \in [Readers -> Files!File]
      BY <1>10, <3>1, <3>2, <3>3, CallMoves DEF Files!TryResident
    <3> QED
      BY <1>5, <1>10, <3>2, <3>4 DEF Files!TryResident, Files!TypeOK
  <2>2. CASE ~Files!Current(files[p], c.mtime)
    <3>1. pc' = [pc EXCEPT ![r] = "loadstat"] /\ cur' = [cur EXCEPT ![r] = c]
      BY <1>4, <1>10, <2>2 DEF Files!TryResident, Files!Go, p, c
    <3>2. Since(c.path, began[r])
      BY <1>3, <1>10 DEF Files!TryResident, p, c
    <3>3. CallKnows' /\ cur' \in [Readers -> Files!File]
      BY <1>1, <1>10, <3>1, <3>2, CallMoves DEF Files!TryResident
    <3> QED
      BY <1>5, <1>10, <3>1, <3>3 DEF Files!TryResident, Files!TypeOK
  <2> QED
    BY <2>1, <2>2
<1>11. CASE Files!TryCache(r)
  <2>1. Tidy(lru') /\ Len(lru') <= FileCap
    BY <1>1, <1>11, GetKeeps DEF Files!TryCache
  <2>2. /\ pc[r] = "lru" /\ UNCHANGED <<tree, files, syms, began, edits>>
        /\ IF Files!Hit(p, c.mtime)
             THEN pc' = [pc EXCEPT ![r] = "return"] /\ cur' = [cur EXCEPT ![r] = lru[Files!Slot(p)]]
             ELSE pc' = [pc EXCEPT ![r] = "resident"] /\ cur' = [cur EXCEPT ![r] = c]
    BY <1>4, <1>11 DEF Files!TryCache, Files!Go, Files!Have, p, c
  <2>3. CallKnows' /\ cur' \in [Readers -> Files!File]
    <3>1. CASE Files!Hit(p, c.mtime)
      <4> DEFINE f == lru[Files!Slot(p)]
      <4>1. Files!Slot(p) \in DOMAIN lru /\ f.path = p /\ f.mtime = c.mtime
        BY <3>1, WithoutFacts DEF Files!Hit, Files!Current
      <4>2. f \in Files!File /\ Sound(f)
        BY <4>1, LenProperties, ElementOfSeq DEF Tidy
      <4>3. pc' = [pc EXCEPT ![r] = "return"] /\ cur' = [cur EXCEPT ![r] = f]
        BY <2>2, <3>1
      <4> HIDE DEF f
      <4>4. f.bytes \in Nat /\ f.mtime \in Nat
        BY <1>1, <4>2 DEF Files!File
      <4>5. Since(p, began[r]) /\ began[r] <= f.bytes
        BY <1>1, <1>3, <2>2, <4>1, <4>2, <4>4 DEF Sound
      <4> QED
        BY <2>2, <4>1, <4>2, <4>3, <4>5, CallMoves
    <3>2. CASE ~Files!Hit(p, c.mtime)
      <4>1. pc' = [pc EXCEPT ![r] = "resident"] /\ cur' = [cur EXCEPT ![r] = c]
        BY <2>2, <3>2
      <4>2. Since(c.path, began[r]) /\ began[r] <= c.mtime
        BY <1>3, <2>2 DEF p, c
      <4> QED
        BY <1>1, <2>2, <4>1, <4>2, CallMoves
    <3> QED
      BY <3>1, <3>2
  <2>4. pc' \in [Readers -> {"idle", "stat", "lru", "resident", "loadstat", "read", "put", "putnew",
                             "store", "return"}]
    BY <2>2 DEF Files!TypeOK
  <2>5. Files!TypeOK' /\ ResidentSound' /\ EditsLeft'
    BY <2>1, <2>2, <2>3, <2>4 DEF Files!TypeOK, Tidy, ResidentSound, EditsLeft
  <2> QED
    BY <2>1, <2>3, <2>5
<1>12. CASE Files!Put(r)
  <2>1. /\ pc[r] \in {"put", "putnew"} /\ UNCHANGED <<tree, files, syms, began, edits>> /\ Files!PutFile(c)
        /\ cur' = [cur EXCEPT ![r] = c] /\ \E s \in {"return", "store"} : pc' = [pc EXCEPT ![r] = s]
    BY <1>4, <1>12 DEF Files!Put, Files!Go, c
  <2>2. Sound(c) /\ began[r] <= c.bytes /\ Since(c.path, began[r])
    BY <1>3, <2>1 DEF p, c
  <2>3. Tidy(lru') /\ Len(lru') <= FileCap
    BY <1>1, <2>1, <2>2, PutKeeps
  <2>4. /\ CallKnows' /\ cur' \in [Readers -> Files!File]
        /\ pc' \in [Readers -> {"idle", "stat", "lru", "resident", "loadstat", "read", "put", "putnew",
                                "store", "return"}]
    BY <1>1, <2>1, <2>2, CallMoves
  <2>5. Files!TypeOK' /\ ResidentSound' /\ EditsLeft'
    BY <2>1, <2>3, <2>4 DEF Files!TypeOK, Tidy, ResidentSound, EditsLeft
  <2> QED
    BY <2>3, <2>4, <2>5
<1>13. CASE Files!Store(r)
  <2>1. /\ pc[r] = "store" /\ UNCHANGED <<tree, lru, began, edits>>
        /\ cur' = [cur EXCEPT ![r] = c] /\ pc' = [pc EXCEPT ![r] = "return"]
        /\ files' = [files EXCEPT ![p] = c] /\ syms' = [syms EXCEPT ![p] = c.bytes]
    BY <1>4, <1>13 DEF Files!Store, Files!Go, p, c
  <2>2. Sound(c) /\ began[r] <= c.bytes /\ Since(c.path, began[r]) /\ c.path = p
    BY <1>3, <2>1 DEF p, c
  <2>3. /\ CallKnows' /\ cur' \in [Readers -> Files!File]
        /\ pc' \in [Readers -> {"idle", "stat", "lru", "resident", "loadstat", "read", "put", "putnew",
                                "store", "return"}]
    BY <1>1, <2>1, <2>2, CallMoves
  <2>4. ResidentSound'
    BY <1>1, <2>1, <2>2 DEF ResidentSound, Files!TypeOK
  <2>5. Files!TypeOK' /\ EditsLeft' /\ Tidy(lru') /\ Len(lru') <= FileCap
    BY <1>1, <2>1, <2>3 DEF Files!TypeOK, EditsLeft
  <2> QED
    BY <2>3, <2>4, <2>5
<1>14. CASE Files!Return(r)
  <2>1. /\ pc'[r] = "idle" /\ cur' = [cur EXCEPT ![r] = Files!At(p, 0)] /\ began' = [began EXCEPT ![r] = 0]
        /\ \A s \in Readers \ {r} : pc'[s] = pc[s] /\ cur'[s] = cur[s] /\ began'[s] = began[s]
        /\ tree' = tree
    BY <1>14 DEF Files!Return, Files!Go, Files!Have, Files!TypeOK, p
  <2>2. CallKnows'
    BY <2>1 DEF CallKnows, Since
  <2>3. cur' \in [Readers -> Files!File] /\ began' \in [Readers -> Files!Versions]
    BY <1>1, <1>2, <2>1 DEF Files!TypeOK
  <2> QED
    BY <1>5, <1>14, <2>2, <2>3 DEF Files!Return, Files!Go, Files!TypeOK
<1> QED
  BY <1>6, <1>7, <1>8, <1>9, <1>10, <1>11, <1>12, <1>13, <1>14

(* An edit makes a file newer, or removes it for good.                       *)
LEMMA EditKeeps ==
  ASSUME Files!RepoFilesAssumption, FilesIInv, NEW p \in Paths, Files!Edit(p)
  PROVE  FilesIInv'
<1> USE DEF FilesIInv
<1>1. /\ edits \in Nat \ {0} /\ edits' = edits - 1 /\ edits' \in 0..MaxEdits
      /\ UNCHANGED <<lru, files, syms, pc, cur, began>>
      /\ tree[p] # 0 /\ (tree' = [tree EXCEPT ![p] = tree[p] + 1] \/ tree' = [tree EXCEPT ![p] = 0])
  BY DEF Files!Edit, Files!TypeOK, Files!RepoFilesAssumption
<1>2. /\ \A q \in Paths \ {p} : tree'[q] = tree[q]
      /\ tree'[p] = 0 \/ tree'[p] = tree[p] + 1
      /\ tree[p] \in Nat /\ MaxEdits \in Nat
  BY <1>1 DEF Files!TypeOK, Files!Versions, Files!RepoFilesAssumption
<1>3. EditsLeft'
  <2> SUFFICES ASSUME NEW q \in Paths PROVE tree'[q] + edits' <= MaxEdits + 1
    BY DEF EditsLeft
  <2>1. tree[q] \in Nat /\ tree[q] + edits <= MaxEdits + 1
    BY DEF EditsLeft, Files!TypeOK, Files!Versions
  <2> QED
    BY <1>1, <1>2, <2>1
<1>4. tree' \in [Paths -> Files!Versions]
  <2>1. tree'[p] \in Files!Versions
    BY <1>1, <1>2, <1>3 DEF EditsLeft, Files!Versions
  <2> QED
    BY <1>1, <2>1 DEF Files!TypeOK
<1>5. \A q \in Paths, v \in Files!Versions : Since(q, v) => Since(q, v)'
  BY <1>1, <1>2 DEF Since, Files!Versions
<1>6. CallKnows'
  <2>1. \A r \in Readers :
          cur[r].path \in Paths /\ cur[r].mtime \in Files!Versions /\ began[r] \in Files!Versions
    BY DEF Files!TypeOK, Files!File
  <2> QED
    BY <1>1, <1>5, <2>1 DEF CallKnows
<1> QED
  BY <1>1, <1>3, <1>4, <1>6 DEF Files!TypeOK, ResidentSound, Tidy

(* The inductive step.                                                       *)
LEMMA FilesInvStep == Files!RepoFilesAssumption /\ FilesIInv /\ [Files!Next]_(Files!vars) => FilesIInv'
<1>1. ASSUME FilesIInv, UNCHANGED Files!vars PROVE FilesIInv'
  BY <1>1 DEF Files!vars, FilesIInv, Files!TypeOK, Tidy, ResidentSound, CallKnows, Since, EditsLeft
<1> QED
  BY <1>1, ReaderKeeps, EditKeeps DEF Files!Next

(* The invariant says what the run checks ...                                *)
LEMMA FilesAnswersFresh == FilesIInv => Files!AnswersFresh
<1> SUFFICES ASSUME FilesIInv, NEW r \in Readers, pc[r] = "return" PROVE cur[r].bytes >= began[r]
  BY DEF Files!AnswersFresh
<1>1. began[r] <= cur[r].bytes /\ began[r] \in Nat /\ cur[r].bytes \in Nat
  BY DEF FilesIInv, CallKnows, Files!TypeOK, Files!File, Files!Versions
<1> QED
  BY <1>1

(* ... of answers, and of the LRU.                                           *)
LEMMA FilesLruBounded == FilesIInv => Files!LruBounded
  BY DEF FilesIInv, Tidy, Files!LruBounded

(* FilesIInv holds in every reachable state.                                 *)
THEOREM FilesInductive == Files!Spec => []FilesIInv
  BY FilesAssumption, FilesInitInv, FilesInvStep, PTL DEF Files!Spec

(* The LRU never holds more than its capacity, nor a path twice.             *)
THEOREM CacheWithinCapacity == Files!Spec => []Files!LruBounded
  BY FilesInductive, FilesLruBounded, PTL

-----------------------------------------------------------------------------
(* The invariant, of the behaviours of Analysis that are of this part.       *)
FilesInv == part = "files" => FilesIInv

(* It holds at the start: the others park the files and the readers.         *)
LEMMA FilesStart == Init => FilesInv
<1>1. Init /\ part = "files" => Files!Init
  BY DEF Init, DiskInit, FilesInit, ServerInit, GraphInit, ToolInit, Asks
<1> QED
  BY <1>1, FilesAssumption, FilesInitInv DEF FilesInv

(* A step of Analysis of that part is a step of RepoFiles, or none.          *)
LEMMA FilesStep == FilesInv /\ [Next]_vars => FilesInv'
<1> SUFFICES ASSUME FilesInv, [Next]_vars, part' = "files" PROVE FilesIInv'
  BY DEF FilesInv
<1>1. part = "files" /\ (Files!Next \/ UNCHANGED Files!vars)
  <2>1. CASE UNCHANGED vars
    BY <2>1 DEF vars, others, ofFiles, Files!vars
  <2>2. CASE Next
    BY <2>2 DEF Next, DiskNext, FilesNext, ServerNext, GraphNext, Replies, Edges, Locate, Architecture,
      Changes, Renames, Chunk, FindCode, Search, Symbols, Retrieve
  <2> QED
    BY <2>1, <2>2
<1> QED
  BY <1>1, FilesAssumption, FilesInvStep DEF FilesInv

(* CachedFile never answers with a content older than the file was when the  *)
(* call began, wherever the answer comes from and whatever other calls have  *)
(* left in the LRU and in r.files meanwhile; and the LRU keeps within its    *)
(* capacity.                                                                 *)
THEOREM NoStaleAnswer == Spec => []AnswersFresh
<1>1. FilesInv => AnswersFresh
  BY FilesAnswersFresh, FilesLruBounded DEF FilesInv, AnswersFresh
<1> QED
  BY <1>1, FilesStart, FilesStep, PTL DEF Spec

-----------------------------------------------------------------------------
SP == INSTANCE DispatchProofs WITH Inputs <- Streams

(* The two instances of Dispatch say the same: the initial states ...        *)
LEMMA ServerSameInit == Server!Init => SP!Init
  BY DEF Server!Init, SP!Init, Server!Workers, SP!Workers, Server!Processes, SP!Processes, Server!Daemon,
    SP!Daemon, Server!NoRequest, SP!NoRequest, Server!Request, SP!Request

(* ... and the steps.                                                        *)
LEMMA ServerSameStep == Server!Next => SP!Next
<1> USE DEF Server!Workers, SP!Workers, Server!Processes, SP!Processes, Server!Daemon, SP!Daemon,
      Server!Process, SP!Process, Server!Go, SP!Go, Server!audit, SP!audit, Server!Audited, SP!Audited,
      Server!Line, SP!Line, Server!NoRequest, SP!NoRequest, Server!Request, SP!Request
<1>1. ASSUME NEW w \in Server!Workers, Server!Read(w) PROVE SP!Read(w)
  BY <1>1 DEF Server!Read, SP!Read, Server!Ends, SP!Ends, Server!Skips, SP!Skips
<1>2. ASSUME NEW w \in Server!Workers, Server!EndOfInput(w) PROVE SP!EndOfInput(w)
  BY <1>2 DEF Server!EndOfInput, SP!EndOfInput
<1>3. ASSUME NEW w \in Server!Workers, Server!Handle(w) PROVE SP!Handle(w)
  BY <1>3 DEF Server!Handle, SP!Handle
<1>4. ASSUME NEW w \in Server!Workers, Server!Lock(w) PROVE SP!Lock(w)
  BY <1>4 DEF Server!Lock, SP!Lock
<1>5. ASSUME NEW w \in Server!Workers, Server!Write(w) PROVE SP!Write(w)
  BY <1>5 DEF Server!Write, SP!Write
<1>6. ASSUME NEW w \in Server!Workers, Server!Flush(w) PROVE SP!Flush(w)
  BY <1>6 DEF Server!Flush, SP!Flush
<1>7. ASSUME NEW w \in Server!Workers, Server!Answer(w) PROVE SP!Answer(w)
  BY <1>7 DEF Server!Answer, SP!Answer, Server!Writes, SP!Writes, Server!HasId, SP!HasId,
    Server!IsError, SP!IsError
<1>8. ASSUME NEW w \in Server!Workers, Server!Signal(w) PROVE SP!Signal(w)
  BY <1>8 DEF Server!Signal, SP!Signal
<1>9. ASSUME NEW p \in Server!Processes, Server!Die(p) PROVE SP!Die(p)
  BY <1>9 DEF Server!Die, SP!Die
<1>10. Server!Workers = SP!Workers /\ Server!Processes = SP!Processes
  OBVIOUS
<1> HIDE DEF Server!Workers, SP!Workers, Server!Processes, SP!Processes
<1> QED
  BY <1>1, <1>2, <1>3, <1>4, <1>5, <1>6, <1>7, <1>8, <1>9, <1>10 DEF Server!Next, SP!Next

(* What is assumed of the constants is the same, too.                        *)
LEMMA ServerSameAssumption == SP!DispatchAssumption
  BY ServerAssumption DEF Server!DispatchAssumption, SP!DispatchAssumption, Server!Workers, SP!Workers,
    Server!Kinds, SP!Kinds

(* The invariant of DispatchProofs, of the behaviours of that part.          *)
ServerInv == part = "server" => SP!IInv

(* It holds at the start: the others park the servers and the log.           *)
LEMMA ServerStart == Init => ServerInv
<1>1. Init /\ part = "server" => Server!Init
  BY DEF Init, DiskInit, FilesInit, ServerInit, GraphInit, ToolInit, Asks
<1> QED
  BY <1>1, ServerSameAssumption, ServerSameInit, SP!InitInv DEF ServerInv

(* A step of Analysis of that part is a step of Dispatch, or none.           *)
LEMMA ServerStep == ServerInv /\ [Next]_vars => ServerInv'
<1> SUFFICES ASSUME ServerInv, [Next]_vars, part' = "server" PROVE SP!IInv'
  BY DEF ServerInv
<1>1. part = "server" /\ (Server!Next \/ UNCHANGED SP!vars)
  <2>1. CASE UNCHANGED vars
    BY <2>1 DEF vars, others, ofServer, SP!vars
  <2>2. CASE Next
    BY <2>2 DEF Next, DiskNext, FilesNext, ServerNext, GraphNext, Replies, Edges, Locate, Architecture,
      Changes, Renames, Chunk, FindCode, Search, Symbols, Retrieve
  <2> QED
    BY <2>1, <2>2
<1> QED
  BY <1>1, ServerSameAssumption, ServerSameStep, SP!InvStep DEF ServerInv

(* A call that is answered has just one line in the audit file, unless a     *)
(* write to the file has failed, and answers are in the order of requests,   *)
(* whatever is checked beside the servers.                                   *)
THEOREM EveryAnswerIsLogged == Spec => []AnsweredIsLogged
<1>1. ServerInv => AnsweredIsLogged
  <2>1. SP!AnsweredIsLogged => Server!AnsweredIsLogged
    BY DEF SP!AnsweredIsLogged, Server!AnsweredIsLogged, SP!Logged, Server!Logged, SP!Audited, Server!Audited,
      SP!Process, Server!Process, SP!Daemon, Server!Daemon, SP!Workers, Server!Workers, SP!ToSet, Server!ToSet,
      SP!Cardinality, Server!Cardinality
  <2> QED
    BY <2>1, ServerSameAssumption, SP!InvAnsweredIsLogged DEF ServerInv, AnsweredIsLogged
<1> QED
  BY <1>1, ServerStart, ServerStep, PTL DEF Spec

-----------------------------------------------------------------------------
DP == INSTANCE DiskCacheProofs WITH Bounds <- DiskBounds

(* The same of the two instances of DiskCache: the initial state ...         *)
LEMMA DiskSameInit == Disk!Init => DP!Init
  BY Zenon DEF Disk!Init, DP!Init, Disk!None, DP!None, Disk!Empty, DP!Empty, Disk!Inodes, DP!Inodes,
    Disk!NoFile, DP!NoFile, Disk!Cardinality, DP!Cardinality

(* ... and the steps.                                                        *)
LEMMA DiskSameStep == Disk!Next => DP!Next
<1> USE DEF Disk!Go, DP!Go, Disk!dir, DP!dir, Disk!loader, DP!loader, Disk!Path, DP!Path, Disk!Spend, DP!Spend,
      Disk!None, DP!None, Disk!NoFile, DP!NoFile, Disk!Empty, DP!Empty, Disk!Putting, DP!Putting,
      Disk!GiveUp, DP!GiveUp, Disk!Collect, DP!Collect, Disk!Used, DP!Used, Disk!Range, DP!Range,
      Disk!Only, DP!Only, Disk!FoldLeft, DP!FoldLeft, Disk!MapThenFoldSet, DP!MapThenFoldSet, Disk!Max, DP!Max,
      Disk!Inodes, DP!Inodes, Disk!Cardinality, DP!Cardinality, Disk!OverBudget, DP!OverBudget
<1>1. ASSUME NEW l \in Loaders, Disk!Begin(l) PROVE DP!Begin(l)
  BY <1>1, Zenon DEF Disk!Begin, DP!Begin
<1>2. ASSUME NEW l \in Loaders, Disk!Visit(l) PROVE DP!Visit(l)
  BY <1>2, Zenon DEF Disk!Visit, DP!Visit, Disk!Min, DP!Min
<1>3. ASSUME NEW l \in Loaders, Disk!Get(l) PROVE DP!Get(l)
  BY <1>3, Zenon DEF Disk!Get, DP!Get, Disk!Matches, DP!Matches, Disk!Decodes, DP!Decodes
<1>4. ASSUME NEW l \in Loaders, Disk!Stat(l) PROVE DP!Stat(l)
  BY <1>4, Zenon DEF Disk!Stat, DP!Stat
<1>5. ASSUME NEW l \in Loaders, Disk!Read(l) PROVE DP!Read(l)
  BY <1>5, Zenon DEF Disk!Read, DP!Read
<1>6. ASSUME NEW l \in Loaders, Disk!Refuse(l) PROVE DP!Refuse(l)
  BY <1>6, Zenon DEF Disk!Refuse, DP!Refuse, Disk!Skip, DP!Skip
<1>7. ASSUME NEW l \in Loaders, Disk!Open(l) PROVE DP!Open(l)
  BY <1>7, Zenon DEF Disk!Open, DP!Open, Disk!Fresh, DP!Fresh, Disk!Min, DP!Min, Disk!Written, DP!Written
<1>8. ASSUME NEW l \in Loaders, Disk!OpenFails(l) PROVE DP!OpenFails(l)
  BY <1>8, Zenon DEF Disk!OpenFails, DP!OpenFails
<1>9. ASSUME NEW l \in Loaders, Disk!Write(l) PROVE DP!Write(l)
  BY <1>9, Zenon DEF Disk!Write, DP!Write, Disk!Max, DP!Max, Disk!Written, DP!Written
<1>10. ASSUME NEW l \in Loaders, Disk!Rename(l) PROVE DP!Rename(l)
  BY <1>10, Zenon DEF Disk!Rename, DP!Rename
<1>11. ASSUME NEW l \in Loaders, Disk!RenameFails(l) PROVE DP!RenameFails(l)
  BY <1>11, Zenon DEF Disk!RenameFails, DP!RenameFails
<1>12. ASSUME NEW l \in Loaders, Disk!Scan(l) PROVE DP!Scan(l)
  BY <1>12, Zenon DEF Disk!Scan, DP!Scan, Disk!Total, DP!Total, Disk!Sizes, DP!Sizes,
    Disk!SumFunction, DP!SumFunction, Disk!SumFunctionOnSet, DP!SumFunctionOnSet,
    Disk!FoldFunctionOnSet, DP!FoldFunctionOnSet, Disk!Entries, DP!Entries
<1>13. ASSUME NEW l \in Loaders, Disk!Evict(l) PROVE DP!Evict(l)
  BY <1>13, Zenon DEF Disk!Evict, DP!Evict
<1>14. ASSUME NEW l \in Loaders, Disk!Record(l) PROVE DP!Record(l)
  BY <1>14, Zenon DEF Disk!Record, DP!Record
<1>15. ASSUME NEW l \in Loaders, Disk!Sweep(l) PROVE DP!Sweep(l)
  BY <1>15, Zenon DEF Disk!Sweep, DP!Sweep
<1>16. ASSUME NEW l \in Loaders, Disk!Crash(l) PROVE DP!Crash(l)
  BY <1>16, Zenon DEF Disk!Crash, DP!Crash
<1>17. ASSUME NEW p \in Paths, Disk!Edit(p) \/ Disk!Unlink(p) PROVE DP!Edit(p) \/ DP!Unlink(p)
  BY <1>17, Zenon DEF Disk!Edit, DP!Edit, Disk!Unlink, DP!Unlink
<1> QED
  BY <1>1, <1>2, <1>3, <1>4, <1>5, <1>6, <1>7, <1>8, <1>9, <1>10, <1>11, <1>12, <1>13, <1>14, <1>15,
    <1>16, <1>17, Zenon DEF Disk!Next, DP!Next

(* What is assumed of the constants is the same, too.                        *)
LEMMA DiskSameAssumption == DP!DiskCacheAssumption
  BY DiskAssumption, Zenon DEF Disk!DiskCacheAssumption, DP!DiskCacheAssumption, Disk!IsFiniteSet, DP!IsFiniteSet

(* The invariants of DiskCacheProofs, of the behaviours of that part.        *)
DiskInv == part = "disk" => DP!IInv /\ DP!Swept

(* It holds at the start: the others park the directory and the loaders.     *)
LEMMA DiskStart == Init => DiskInv
<1>1. Init /\ part = "disk" => Disk!Init
  BY DEF Init, DiskInit, FilesInit, ServerInit, GraphInit, ToolInit, Asks
<1> QED
  BY <1>1, DiskSameAssumption, DiskSameInit, DP!InitInv, DP!SweptInit DEF DiskInv

(* A step of Analysis of that part is a step of DiskCache, or none.          *)
LEMMA DiskStep == DiskInv /\ [Next]_vars => DiskInv'
<1> SUFFICES ASSUME DiskInv, [Next]_vars, part' = "disk" PROVE DP!IInv' /\ DP!Swept'
  BY DEF DiskInv
<1>1. part = "disk" /\ (Disk!Next \/ UNCHANGED DP!vars)
  <2>1. CASE UNCHANGED vars
    BY <2>1 DEF vars, others, ofDisk, DP!vars
  <2>2. CASE Next
    BY <2>2 DEF Next, DiskNext, FilesNext, ServerNext, GraphNext, Replies, Edges, Locate, Architecture,
      Changes, Renames, Chunk, FindCode, Search, Symbols, Retrieve
  <2> QED
    BY <2>1, <2>2
<1> QED
  BY <1>1, DiskSameAssumption, DiskSameStep, DP!InvStep, DP!SweptStep DEF DiskInv

(* A load records nothing that is older than the load, whatever is checked   *)
(* beside the disk cache.                                                    *)
THEOREM LoadsAreCurrent == Spec => []LoadedIsCurrent
<1>1. DiskInv => LoadedIsCurrent
  <2>1. DP!LoadedIsCurrent => Disk!LoadedIsCurrent
    BY DEF DP!LoadedIsCurrent, Disk!LoadedIsCurrent
  <2> QED
    BY <2>1, DiskSameAssumption, DP!InvLoadedIsCurrent DEF DiskInv, LoadedIsCurrent
<1> QED
  BY <1>1, DiskStart, DiskStep, PTL DEF Spec

(* The disk cache is within its budget when no Put is under way and none     *)
(* has missed its pass, whatever is checked beside it.                       *)
THEOREM WithinBudget == Spec => []BudgetKept
<1>1. DiskInv => BudgetKept
  <2>1. DP!BudgetKept => Disk!BudgetKept
    BY Zenon DEF DP!BudgetKept, Disk!BudgetKept, DP!Putting, Disk!Putting, DP!Total, Disk!Total, DP!Sizes, Disk!Sizes,
      DP!SumFunction, Disk!SumFunction, DP!SumFunctionOnSet, Disk!SumFunctionOnSet,
      DP!FoldFunctionOnSet, Disk!FoldFunctionOnSet, DP!MapThenFoldSet, Disk!MapThenFoldSet
  <2> QED
    BY <2>1, DiskSameAssumption, DP!InvBudgetKept DEF DiskInv, BudgetKept
<1> QED
  BY <1>1, DiskStart, DiskStep, PTL DEF Spec

(* The state of each part has its type: for the disk cache also that no      *)
(* inode has two names.                                                      *)
THEOREM TypeCorrect == Spec => []TypeOK
<1>1. DiskInv /\ FilesInv /\ ServerInv => TypeOK
  <2>1. DP!TypeOK => Disk!TypeOK
    BY Zenon DEF DP!TypeOK, Disk!TypeOK, DP!Putting, Disk!Putting, DP!Inodes, Disk!Inodes,
      DP!MaxVersion, Disk!MaxVersion, DP!Cardinality, Disk!Cardinality
  <2>2. FilesIInv => Files!TypeOK
    BY DEF FilesIInv
  <2>3. SP!TypeOK => Server!TypeOK
    BY DEF SP!TypeOK, Server!TypeOK, SP!Workers, Server!Workers, SP!Processes, Server!Processes, SP!Daemon, Server!Daemon,
      SP!Requests, Server!Requests, SP!Lines, Server!Lines, SP!Kinds, Server!Kinds
  <2>4. SP!IInv => SP!TypeOK
    BY DEF SP!IInv
  <2> QED
    BY <2>1, <2>2, <2>3, <2>4, DiskSameAssumption, DP!InvTypeOK DEF DiskInv, FilesInv, ServerInv, TypeOK
<1> QED
  BY <1>1, DiskStart, DiskStep, FilesStart, FilesStep, ServerStart, ServerStep, PTL DEF Spec

-----------------------------------------------------------------------------
GP == INSTANCE QueryGraphProofs WITH Repos <- CallRepos, Questions <- Walks

(* What the two instances of QueryGraph share, operator by operator: first   *)
(* the selections from a sequence, ...                                       *)
LEMMA GraphSameAt == \A s, N : Graph!At(s, N) = GP!At(s, N)
  BY Zenon DEF Graph!At, GP!At, Graph!Nth, GP!Nth, Graph!Cardinality, GP!Cardinality
LEMMA GraphSameSorted == \A S : Graph!Sorted(S) = GP!Sorted(S)
  BY Zenon DEF Graph!Sorted, GP!Sorted, Graph!Nth, GP!Nth, Graph!Cardinality, GP!Cardinality
LEMMA GraphSameFlat == \A s : Graph!FlattenSeq(s) = GP!FlattenSeq(s)
  BY Zenon DEF Graph!FlattenSeq, GP!FlattenSeq

(* ... the lookup of names, ...                                              *)
LEMMA GraphSameLookup == \A R, p, n : Graph!Lookup(R, p, n) = GP!Lookup(R, p, n)
  BY GraphSameFlat, Zenon DEF Graph!Lookup, GP!Lookup, Graph!Entry, GP!Entry, Graph!AnyName, GP!AnyName
LEMMA GraphSameSymbols == \A R, f : Graph!Symbols(R, f) = GP!Symbols(R, f)
  BY GraphSameAt, Zenon DEF Graph!Symbols, GP!Symbols, Graph!Where, GP!Where
LEMMA GraphSameHead == \A s, x : Graph!HeadOr(s, x) = GP!HeadOr(s, x)
  BY Zenon DEF Graph!HeadOr, GP!HeadOr

(* ... the way from an id to a declaration, ...                              *)
LEMMA GraphSameCandidates == \A R, p : Graph!Candidates(R, p) = GP!Candidates(R, p)
  BY GraphSameLookup, Zenon DEF Graph!Candidates, GP!Candidates
LEMMA GraphSameNotFound == Graph!NotFound = GP!NotFound
  BY DEF Graph!NotFound, GP!NotFound
LEMMA GraphSameFunction == \A R, p : Graph!LocateFunction(R, p) = GP!LocateFunction(R, p)
<1> TAKE R, p
<1> DEFINE es == GP!Candidates(R, p)
           Of(s) == GP!At(s, {n \in DOMAIN s : s[n].kind = "function"})
<1>1. Graph!Candidates(R, p) = es
  BY GraphSameCandidates
<1>2. Of(es) = Graph!At(es, {n \in DOMAIN es : es[n].kind = "function"})
  BY GraphSameAt, Zenon
<1> HIDE DEF es
<1>3. GP!LocateFunction(R, p) = IF Of(es) # <<>> THEN Of(es)[1] ELSE GP!HeadOr(es, GP!NotFound)
  BY Zenon DEF GP!LocateFunction, GP!FirstOr, GP!Where, es
<1> HIDE DEF Of
<1> QED
  BY <1>1, <1>2, <1>3, GraphSameHead, GraphSameNotFound, Zenon
      DEF Graph!LocateFunction, Graph!FirstOr, Graph!Where
LEMMA GraphSameType == \A R, p : Graph!LocateType(R, p) = GP!LocateType(R, p)
<1> TAKE R, p
<1> DEFINE es == GP!Candidates(R, p)
           Of(s) == GP!At(s, {n \in DOMAIN s : s[n].kind = "type"})
<1>1. Graph!Candidates(R, p) = es
  BY GraphSameCandidates
<1>2. Of(es) = Graph!At(es, {n \in DOMAIN es : es[n].kind = "type"})
  BY GraphSameAt, Zenon
<1> HIDE DEF es
<1>3. GP!LocateType(R, p) = IF Of(es) # <<>> THEN Of(es)[1] ELSE GP!HeadOr(es, GP!NotFound)
  BY Zenon DEF GP!LocateType, GP!FirstOr, GP!Where, es
<1> HIDE DEF Of
<1> QED
  BY <1>1, <1>2, <1>3, GraphSameHead, GraphSameNotFound, Zenon DEF Graph!LocateType, Graph!FirstOr, Graph!Where
LEMMA GraphSameParts ==
  /\ Graph!BadFormat = GP!BadFormat
  /\ \A b : Graph!FunctionParts(b) = GP!FunctionParts(b) /\ Graph!MethodParts(b) = GP!MethodParts(b)
  /\ \A i : Graph!ClassParts(i) = GP!ClassParts(i)
  BY Zenon DEF Graph!FunctionParts, GP!FunctionParts, Graph!MethodParts, GP!MethodParts,
   Graph!ClassParts, GP!ClassParts, Graph!BadFormat, GP!BadFormat, Graph!IdParts, GP!IdParts
LEMMA GraphSameMethod == \A R, p : Graph!LocateMethod(R, p) = GP!LocateMethod(R, p)
<1> TAKE R, p
<1> DEFINE D == GP!Lookup(R, p.pkg, <<p.class>>)
           types == GP!At(D, {n \in DOMAIN D : D[n].kind \in {"type", "class"}})
           In(s, t) == {n \in DOMAIN s : s[n].kind = "method" /\ <<s[n].name>> = p.name /\ s[n].recv = t.name}
           methods(t) == GP!At(GP!Symbols(R, t.file), In(GP!Symbols(R, t.file), t))
           gmethods(t) == Graph!At(Graph!Symbols(R, t.file), In(Graph!Symbols(R, t.file), t))
           flat == GP!FlattenSeq([n \in DOMAIN types |-> methods(types[n])])
<1>1. Graph!Lookup(R, p.pkg, <<p.class>>) = D
  BY GraphSameLookup
<1>2. Graph!NotFound = GP!NotFound
  BY DEF Graph!NotFound, GP!NotFound
<1>3. types = Graph!At(D, {n \in DOMAIN D : D[n].kind \in {"type", "class"}})
  BY GraphSameAt, Zenon
<1> HIDE DEF D
<1>4. GP!LocateMethod(R, p) = GP!HeadOr(flat, GP!NotFound)
  BY Zenon DEF GP!LocateMethod, GP!Where, GP!IsMethodOf, D
<1> HIDE DEF types
<1>5. Graph!LocateMethod(R, p) = Graph!HeadOr(Graph!FlattenSeq([n \in DOMAIN types |-> gmethods(types[n])]),
    Graph!NotFound)
  BY <1>1, <1>3, Zenon DEF Graph!LocateMethod, Graph!Where, Graph!IsMethodOf
<1>6. \A t : gmethods(t) = methods(t)
  BY GraphSameSymbols, GraphSameAt, Zenon
<1> HIDE DEF methods, gmethods
<1>7. [n \in DOMAIN types |-> gmethods(types[n])] = [n \in DOMAIN types |-> methods(types[n])]
  BY <1>6
<1> QED
  BY <1>2, <1>4, <1>5, <1>7, GraphSameHead, GraphSameFlat, Zenon
LEMMA GraphSameLocate == \A R, i : Graph!LocateSymbol(R, i) = GP!LocateSymbol(R, i)
  BY GraphSameFunction, GraphSameType, GraphSameMethod, GraphSameNotFound, GraphSameParts, Zenon
      DEF Graph!LocateSymbol, GP!LocateSymbol

(* ... what an edge has, ...                                                 *)
LEMMA GraphSameToSet == \A s : Graph!ToSet(s) = GP!ToSet(s)
  BY Zenon DEF Graph!ToSet, GP!ToSet
LEMMA GraphSameUpTo == \A n, s : Graph!UpTo(n, s) = GP!UpTo(n, s)
  BY Zenon DEF Graph!UpTo, GP!UpTo
LEMMA GraphSameEdge == \A k, t, c, f : Graph!Edge(k, t, c, f) = GP!Edge(k, t, c, f)
  BY Zenon DEF Graph!Edge, GP!Edge
LEMMA GraphSameIds ==
  \A d : Graph!ID(d) = GP!ID(d) /\ Graph!For(d) = GP!For(d) /\ Graph!DomainKind(d) = GP!DomainKind(d)
  BY Zenon DEF Graph!ID, GP!ID, Graph!For, GP!For, Graph!DomainKind, GP!DomainKind, Graph!IdWith, GP!IdWith,
    Graph!IdKind, GP!IdKind, Graph!ForKind, GP!ForKind, Graph!ClassForms, GP!ClassForms

(* ... the scans, ...                                                        *)
LEMMA GraphSameByCaller == \A R, d : Graph!EdgesByCaller(R, d) = GP!EdgesByCaller(R, d)
  BY GraphSameSorted, Zenon DEF Graph!EdgesByCaller, GP!EdgesByCaller, Graph!Callable, GP!Callable,
    Graph!CallerKey, GP!CallerKey, Graph!ToSet, GP!ToSet
LEMMA GraphSameBody == \A R, d : Graph!Body(R, d) = GP!Body(R, d)
<1> TAKE R, d
<1> DEFINE s == GP!Symbols(R, d.file)
           same == GP!At(s, {n \in DOMAIN s : GP!CallerKey(s[n]) = GP!CallerKey(d)})
<1>1. Graph!Symbols(R, d.file) = s
  BY GraphSameSymbols
<1>2. same = Graph!At(s, {n \in DOMAIN s : Graph!CallerKey(s[n]) = Graph!CallerKey(d)})
  BY GraphSameAt, Zenon DEF Graph!CallerKey, GP!CallerKey
<1> HIDE DEF s
<1>3. GP!Body(R, d) = IF same = <<>> THEN <<>> ELSE same[1].calls
  BY Zenon DEF GP!Body, GP!Where, s
<1> HIDE DEF same
<1> QED
  BY <1>1, <1>2, <1>3, Zenon DEF Graph!Body, Graph!Where
LEMMA GraphSameResolve == \A R, names : Graph!Resolve(R, names) = GP!Resolve(R, names)
<1> TAKE R, names
<1> DEFINE found == [n \in DOMAIN names |-> GP!Lookup(R, <<>>, <<names[n]>>)]
           Kept(s) == {n \in DOMAIN s : \A m \in 1..(n - 1) : <<s[m].pkg, s[m].name>> # <<s[n].pkg, s[n].name>>}
<1>1. [n \in DOMAIN names |-> Graph!Lookup(R, <<>>, <<names[n]>>)] = found
  BY GraphSameLookup
<1>2. GP!Resolve(R, names) = GP!At(GP!FlattenSeq(found), Kept(GP!FlattenSeq(found)))
  BY Zenon DEF GP!Resolve, GP!OnceBy, GP!Each, GP!ByName
<1> HIDE DEF found
<1>3. Graph!Resolve(R, names) = Graph!At(Graph!FlattenSeq(found), Kept(Graph!FlattenSeq(found)))
  BY <1>1, Zenon DEF Graph!Resolve, Graph!OnceBy, Graph!Each, Graph!ByName
<1> HIDE DEF Kept
<1> QED
  BY <1>2, <1>3, GraphSameFlat, GraphSameAt, Zenon
LEMMA GraphSameCalleeEdges == \A d, t : Graph!CalleeEdges(d, t) = GP!CalleeEdges(d, t)
  BY Zenon DEF Graph!CalleeEdges, GP!CalleeEdges, Graph!Each, GP!Each, Graph!Edge, GP!Edge, Graph!ID, GP!ID,
    Graph!DomainKind, GP!DomainKind, Graph!IdWith, GP!IdWith, Graph!IdKind, GP!IdKind, Graph!ClassForms,
    GP!ClassForms
LEMMA GraphSameCallees == \A R, d, l : Graph!ScanCallees(R, d, l) = GP!ScanCallees(R, d, l)
  BY GraphSameByCaller, GraphSameCalleeEdges, GraphSameResolve, GraphSameBody, GraphSameUpTo, GraphSameAt,
    Zenon DEF Graph!ScanCallees, GP!ScanCallees, Graph!Where, GP!Where
LEMMA GraphSameServer == \A R, d, l : Graph!FromServer(R, d, l) = GP!FromServer(R, d, l)
<1> TAKE R, d, l
<1> DEFINE s == R.refs[d]
           users == GP!At(s, {n \in DOMAIN s : GP!Found(s[n]) /\ s[n].kind \in {"function", "method"}})
           edges == [n \in DOMAIN users |-> GP!Edge("callers", GP!For(users[n]), "FUNCTION", users[n].file)]
<1>1. users = Graph!At(s, {n \in DOMAIN s : Graph!Found(s[n]) /\ s[n].kind \in {"function", "method"}})
  BY GraphSameAt, Zenon DEF Graph!Found, GP!Found, Graph!NotFound, GP!NotFound
<1>2. GP!FromServer(R, d, l) = GP!UpTo(l, edges)
  BY Zenon DEF GP!FromServer, GP!Where, GP!Each
<1> HIDE DEF users
<1>3. edges = [n \in DOMAIN users |-> Graph!Edge("callers", Graph!For(users[n]), "FUNCTION", users[n].file)]
  BY GraphSameEdge, GraphSameIds
<1> HIDE DEF edges
<1> QED
  BY <1>1, <1>2, <1>3, GraphSameUpTo, Zenon DEF Graph!FromServer, Graph!Where, Graph!Each
LEMMA GraphSameOthers == \A R, d, l : Graph!FromOtherFiles(R, d, l) = GP!FromOtherFiles(R, d, l)
<1> TAKE R, d, l
<1> DEFINE s == R.order
           elsewhere == GP!At(s, {n \in DOMAIN s : s[n] # d.file})
           in(f) == GP!At(GP!Symbols(R, f), {n \in DOMAIN GP!Symbols(R, f) : GP!CallsIt(R, d, GP!Symbols(R,
               f)[n])})
           gin(f) == Graph!At(Graph!Symbols(R, f), {n \in DOMAIN Graph!Symbols(R, f) : Graph!CallsIt(R, d,
               Graph!Symbols(R, f)[n])})
           users == GP!FlattenSeq([n \in DOMAIN elsewhere |-> in(elsewhere[n])])
           edges == [n \in DOMAIN users |-> GP!Edge("callers", GP!ID(users[n]), GP!DomainKind(users[n]),
               users[n].file)]
<1>1. elsewhere = Graph!At(s, {n \in DOMAIN s : s[n] # d.file})
  BY GraphSameAt, Zenon
<1>2. GP!FromOtherFiles(R, d, l) = GP!UpTo(l, edges)
  BY Zenon DEF GP!FromOtherFiles, GP!Where, GP!Each
<1> HIDE DEF elsewhere
<1>3. \A f : gin(f) = in(f)
  <2> TAKE f
  <2> DEFINE t == GP!Symbols(R, f)
  <2>1. Graph!Symbols(R, f) = t
    BY GraphSameSymbols
  <2>2. \A c : Graph!CallsIt(R, d, c) = GP!CallsIt(R, d, c)
    BY Zenon DEF Graph!CallsIt, GP!CallsIt, Graph!Callable, GP!Callable, Graph!ToSet, GP!ToSet
  <2> HIDE DEF t
  <2>3. {n \in DOMAIN t : Graph!CallsIt(R, d, t[n])} = {n \in DOMAIN t : GP!CallsIt(R, d, t[n])}
    BY <2>2
  <2>4. gin(f) = Graph!At(t, {n \in DOMAIN t : Graph!CallsIt(R, d, t[n])})
    BY <2>1, Zenon
  <2>5. in(f) = GP!At(t, {n \in DOMAIN t : GP!CallsIt(R, d, t[n])})
    BY Zenon DEF t
  <2> HIDE DEF in, gin
  <2> QED
    BY <2>3, <2>4, <2>5, GraphSameAt, Zenon
<1>4. Graph!FromOtherFiles(R, d, l) =
        Graph!UpTo(l, LET u == Graph!FlattenSeq([n \in DOMAIN elsewhere |-> gin(elsewhere[n])])
                      IN [n \in DOMAIN u |-> Graph!Edge("callers", Graph!ID(u[n]), Graph!DomainKind(u[n]),
                          u[n].file)])
  BY <1>1, Zenon DEF Graph!FromOtherFiles, Graph!Where, Graph!Each
<1> HIDE DEF in, gin
<1>5. [n \in DOMAIN elsewhere |-> gin(elsewhere[n])] = [n \in DOMAIN elsewhere |-> in(elsewhere[n])]
  BY <1>3
<1>6. Graph!FlattenSeq([n \in DOMAIN elsewhere |-> gin(elsewhere[n])]) = users
  BY <1>5, GraphSameFlat, Zenon
<1> HIDE DEF users
<1>7. edges = [n \in DOMAIN users |-> Graph!Edge("callers", Graph!ID(users[n]), Graph!DomainKind(users[n]),
    users[n].file)]
  BY GraphSameEdge, GraphSameIds
<1> HIDE DEF edges
<1> QED
  BY <1>2, <1>4, <1>6, <1>7, GraphSameUpTo, Zenon
LEMMA GraphSameCallers == \A R, d, l : Graph!ScanCallers(R, d, l) = GP!ScanCallers(R, d, l)
  BY GraphSameServer, GraphSameOthers, Zenon DEF Graph!ScanCallers, GP!ScanCallers
LEMMA GraphSameTests == \A R, d, l : Graph!ScanTests(R, d, l) = GP!ScanTests(R, d, l)
<1> TAKE R, d, l
<1> DEFINE s == R.order
           tests == GP!At(s, {n \in DOMAIN s : s[n] \in R.tests})
           in == [n \in DOMAIN tests |-> GP!Symbols(R, tests[n])]
           declared == GP!FlattenSeq(in)
           edges == [n \in DOMAIN declared |->
                       GP!Edge("tests", GP!ID(declared[n]), GP!DomainKind(declared[n]), declared[n].file)]
<1>1. tests = Graph!At(s, {n \in DOMAIN s : s[n] \in R.tests})
  BY GraphSameAt, Zenon
<1>2. GP!ScanTests(R, d, l) = IF d.name = 0 THEN <<>> ELSE GP!UpTo(l, edges)
  BY Zenon DEF GP!ScanTests, GP!Where, GP!Each
<1> HIDE DEF tests
<1>3. in = [n \in DOMAIN tests |-> Graph!Symbols(R, tests[n])]
  BY GraphSameSymbols
<1> HIDE DEF in
<1>4. declared = Graph!FlattenSeq(in)
  BY GraphSameFlat, Zenon
<1> HIDE DEF declared
<1>5. edges = [n \in DOMAIN declared |->
                 Graph!Edge("tests", Graph!ID(declared[n]), Graph!DomainKind(declared[n]), declared[n].file)]
  BY GraphSameEdge, GraphSameIds
<1> HIDE DEF edges
<1> QED
  BY <1>1, <1>2, <1>3, <1>4, <1>5, GraphSameUpTo, Zenon DEF Graph!ScanTests, Graph!Where, Graph!Each
LEMMA GraphSamePaths ==
  \A s : Graph!Once(Graph!Where(s, LAMBDA p : p # 0)) = GP!Once(GP!Where(s, LAMBDA p : p # 0))
<1> TAKE s
<1> DEFINE paths == GP!At(s, {n \in DOMAIN s : s[n] # 0})
           Kept(t) == {n \in DOMAIN t : \A m \in 1..(n - 1) : t[m] # t[n]}
<1>1. paths = Graph!At(s, {n \in DOMAIN s : s[n] # 0})
  BY GraphSameAt, Zenon
<1>2. GP!Once(GP!Where(s, LAMBDA p : p # 0)) = GP!At(paths, Kept(paths))
  BY Zenon DEF GP!Once, GP!OnceBy, GP!Where
<1> HIDE DEF paths
<1>3. Graph!Once(Graph!Where(s, LAMBDA p : p # 0)) = Graph!At(paths, Kept(paths))
  BY <1>1, Zenon DEF Graph!Once, Graph!OnceBy, Graph!Where
<1> QED
  BY <1>2, <1>3, GraphSameAt, Zenon
LEMMA GraphSameImports == \A R, d, l : Graph!ScanImports(R, d, l) = GP!ScanImports(R, d, l)
<1> TAKE R, d, l
<1> DEFINE indexed == GP!ImportsIn(R, d.file)
           live == GP!Once(GP!Where(R.importsNow[d.file], LAMBDA p : p # 0))
           paths == IF indexed # <<>> THEN indexed ELSE live
           edges == [n \in DOMAIN paths |->
                       GP!Edge("imports", [kind |-> "pkg", body |-> <<paths[n]>>], "PACKAGE", d.file)]
<1>1. indexed = Graph!ImportsIn(R, d.file)
  BY GraphSamePaths, Zenon DEF Graph!ImportsIn, GP!ImportsIn
<1>2. live = Graph!Once(Graph!Where(R.importsNow[d.file], LAMBDA p : p # 0))
  BY GraphSamePaths, Zenon
<1>3. GP!ScanImports(R, d, l) = GP!UpTo(l, edges)
  BY Zenon DEF GP!ScanImports, GP!Each
<1> HIDE DEF indexed, live
<1>4. Graph!ScanImports(R, d, l) = Graph!UpTo(l, [n \in DOMAIN paths |->
        Graph!Edge("imports", [kind |-> "pkg", body |-> <<paths[n]>>], "PACKAGE", d.file)])
  BY <1>1, <1>2, Zenon DEF Graph!ScanImports, Graph!Each
<1> HIDE DEF paths
<1>5. edges = [n \in DOMAIN paths |-> Graph!Edge("imports", [kind |-> "pkg", body |-> <<paths[n]>>],
    "PACKAGE", d.file)]
  BY GraphSameEdge
<1> HIDE DEF edges
<1> QED
  BY <1>3, <1>4, <1>5, GraphSameUpTo, Zenon
LEMMA GraphSameOverrides == \A R, d, l : Graph!ScanOverrides(R, d, l) = GP!ScanOverrides(R, d, l)
<1> TAKE R, d, l
<1> DEFINE s == GP!Symbols(R, d.file)
           classes == GP!At(s, {n \in DOMAIN s : s[n].kind = "class"})
           own == GP!At(classes, {n \in DOMAIN classes : classes[n].name = d.recv})
           parents == GP!At(classes, {n \in DOMAIN classes : classes[n].name \in GP!ToSet(own[1].extends)})
           Has(c) == \E m \in GP!ToSet(s) : m.kind = "method" /\ m.recv = c.name /\ m.name = d.name
           having == GP!At(parents, {n \in DOMAIN parents : Has(parents[n])})
           found == GP!At(having, {n \in DOMAIN having : \A m \in 1..(n - 1) : having[m].name # having[n].name})
           Target(c) == [kind |-> "meth", body |-> Append(c.pkg, c.name) \o <<d.name>>]
           edges == [n \in DOMAIN found |-> GP!Edge("overrides", Target(found[n]), "METHOD", d.file)]
           gs == Graph!Symbols(R, d.file)
           gclasses == Graph!At(gs, {n \in DOMAIN gs : gs[n].kind = "class"})
           gown == Graph!At(gclasses, {n \in DOMAIN gclasses : gclasses[n].name = d.recv})
           gparents == Graph!At(gclasses,
                         {n \in DOMAIN gclasses : gclasses[n].name \in Graph!ToSet(gown[1].extends)})
           GHas(c) == \E m \in Graph!ToSet(gs) : m.kind = "method" /\ m.recv = c.name /\ m.name = d.name
           ghaving == Graph!At(gparents, {n \in DOMAIN gparents : GHas(gparents[n])})
           gfound == Graph!At(ghaving,
                       {n \in DOMAIN ghaving : \A m \in 1..(n - 1) : ghaving[m].name # ghaving[n].name})
           gedges == [n \in DOMAIN gfound |-> Graph!Edge("overrides", Target(gfound[n]), "METHOD", d.file)]
<1>1. GP!ScanOverrides(R, d, l) = IF d.recv = 0 \/ d.kind # "method" \/ own = <<>> THEN <<>> ELSE edges
  BY Zenon DEF GP!ScanOverrides, GP!OnceBy, GP!Where, GP!Each
<1>2. Graph!ScanOverrides(R, d, l) = IF d.recv = 0 \/ d.kind # "method" \/ gown = <<>> THEN <<>> ELSE gedges
  BY Zenon DEF Graph!ScanOverrides, Graph!OnceBy, Graph!Where, Graph!Each
<1>3. gs = s
  BY GraphSameSymbols
<1> HIDE DEF s, gs
<1>4. gclasses = classes
  BY <1>3, GraphSameAt, Zenon
<1> HIDE DEF classes, gclasses
<1>5. gown = own
  BY <1>4, GraphSameAt, Zenon
<1> HIDE DEF own, gown
<1>6. gparents = parents
  BY <1>4, <1>5, GraphSameAt, GraphSameToSet, Zenon
<1> HIDE DEF parents, gparents
<1>7. ghaving = having
  BY <1>3, <1>6, GraphSameAt, GraphSameToSet, Zenon
<1> HIDE DEF having, ghaving
<1>8. gfound = found
  BY <1>7, GraphSameAt, Zenon
<1> HIDE DEF found, gfound
<1>9. gedges = edges
  BY <1>8, GraphSameEdge
<1> HIDE DEF edges, gedges
<1> QED
  BY <1>1, <1>2, <1>5, <1>9, Zenon
LEMMA GraphSameScans == \A k, R, d, l : Graph!ScanFor(k, R, d, l) = GP!ScanFor(k, R, d, l)
  BY GraphSameCallees, GraphSameCallers, GraphSameTests, GraphSameImports, GraphSameOverrides, Zenon DEF
    Graph!ScanFor, GP!ScanFor

(* ... the questions, ...                                                    *)
LEMMA GraphSameEdges == \A i, k, l : Graph!Edges(i, k, l) = GP!Edges(i, k, l)
  BY GraphSameScans, GraphSameLocate, Zenon DEF Graph!Edges, GP!Edges
LEMMA GraphSameLocated == \A i : Graph!Located(i) = GP!Located(i)
  BY GraphSameLocate, Zenon DEF Graph!Located, GP!Located, Graph!Found, GP!Found, Graph!NotFound, GP!NotFound
LEMMA GraphSameSeeds == Graph!Seeds = GP!Seeds
  BY GraphSameAt, Zenon DEF Graph!Seeds, GP!Seeds, Graph!Once, GP!Once, Graph!OnceBy, GP!OnceBy
LEMMA GraphSameWeight == \A s : Graph!Weight(s) = GP!Weight(s)
  BY Zenon DEF Graph!Weight, GP!Weight, Graph!Max, GP!Max
LEMMA GraphSameVia == Graph!Via = GP!Via /\ \A s, d : Graph!Score(s, d) = GP!Score(s, d)
  BY GraphSameWeight, Zenon DEF Graph!Via, GP!Via, Graph!Score, GP!Score
LEMMA GraphSameLimit == Graph!Limit = GP!Limit /\ Graph!Depth = GP!Depth
  BY Zenon DEF Graph!Limit, GP!Limit, Graph!Depth, GP!Depth, Graph!Or, GP!Or
LEMMA GraphSameValid == Graph!Valid = GP!Valid
  BY GraphSameToSet, Zenon DEF Graph!Valid, GP!Valid, Graph!Kinds, GP!Kinds, Graph!NodeKinds, GP!NodeKinds,
    Graph!MaxDepth, GP!MaxDepth, Graph!MaxSeeds, GP!MaxSeeds, Graph!Limit, GP!Limit, Graph!Depth, GP!Depth,
    Graph!Or, GP!Or

(* ... what a step of the walk does, ...                                     *)
LEMMA GraphSameHits == \A x : Graph!Hits(x) = GP!Hits(x)
<1> TAKE x
<1> DEFINE edges == GP!Edges(x.id, GP!Via, GP!Limit)
<1>1. Graph!Edges(x.id, Graph!Via, Graph!Limit) = edges
  BY GraphSameEdges, GraphSameVia, GraphSameLimit, Zenon
<1>2. Graph!Score(x.seed, bfs.step + 1) = GP!Score(x.seed, bfs.step + 1)
  BY GraphSameVia
<1> HIDE DEF edges
<1> QED
  BY <1>1, <1>2, Zenon DEF Graph!Hits, GP!Hits, Graph!Each, GP!Each, edges
LEMMA GraphSameBest == \A t : Graph!BestHit(t) = GP!BestHit(t)
  BY Zenon DEF Graph!BestHit, GP!BestHit, Graph!Best, GP!Best
LEMMA GraphSameRows == \A h : Graph!Rows(h) = GP!Rows(h) /\ Graph!Dropped(h) = GP!Dropped(h)
  BY GraphSameVia, GraphSameLimit, Zenon DEF Graph!Rows, GP!Rows, Graph!Dropped, GP!Dropped, Graph!RowOf,
    GP!RowOf, Graph!Improve, GP!Improve, Graph!Better, GP!Better, Graph!Each, GP!Each
LEMMA GraphSameFiltered == \A h : Graph!Filtered(h) = GP!Filtered(h) /\ Graph!Expand(h) = GP!Expand(h)
  BY GraphSameLocated, Zenon DEF Graph!Filtered, GP!Filtered, Graph!Expand, GP!Expand, Graph!Node, GP!Node
LEMMA GraphSameSeedScore == \A s : Graph!SeedScore(s) = GP!SeedScore(s)
  BY GraphSameToSet, Zenon DEF Graph!SeedScore, GP!SeedScore, Graph!Max, GP!Max

(* ... and the steps.                                                        *)
LEMMA GraphSameStart == Graph!Start => GP!Start
<1> DEFINE S == GP!Seeds
           front == [n \in DOMAIN S |-> GP!Node(S[n], S[n])]
<1>1. Graph!Seeds = S
  BY GraphSameSeeds
<1> HIDE DEF S
<1>2. front = [n \in DOMAIN S |-> Graph!Node(S[n], S[n])]
  BY Zenon DEF Graph!Node, GP!Node
<1>3. Graph!Fresh = GP!Fresh
  BY Zenon DEF Graph!Fresh, GP!Fresh
<1>4. Graph!ToSet(S) = GP!ToSet(S)
  BY GraphSameToSet
<1>5. GP!Each(S, LAMBDA s : GP!Node(s, s)) = front
  BY Zenon DEF GP!Each
<1>6. Graph!Each(S, LAMBDA s : Graph!Node(s, s)) = front
  BY <1>2, Zenon DEF Graph!Each
<1>7. (\A s \in Graph!ToSet(S) : Graph!Located(s)) => \A s \in GP!ToSet(S) : GP!Located(s)
  BY <1>4, GraphSameLocated
<1>8. (\A s \in GP!ToSet(S) : GP!Located(s)) => \A s \in Graph!ToSet(S) : Graph!Located(s)
  BY <1>4, GraphSameLocated
<1> HIDE DEF front
<1>9. CASE Graph!Valid /\ \A s \in Graph!ToSet(S) : Graph!Located(s)
  BY <1>1, <1>3, <1>4, <1>5, <1>6, <1>7, <1>9, GraphSameValid, Zenon DEF Graph!Start, GP!Start, S
<1>10. CASE ~(Graph!Valid /\ \A s \in Graph!ToSet(S) : Graph!Located(s))
  BY <1>1, <1>8, <1>10, GraphSameValid, Zenon DEF Graph!Start, GP!Start, S
<1> QED
  BY <1>9, <1>10
LEMMA GraphSameScan == Graph!Scan => GP!Scan
  BY GraphSameHits, Zenon DEF Graph!Scan, GP!Scan, Graph!Truncate, GP!Truncate
LEMMA GraphSameExpire == Graph!Expire => GP!Expire
  BY Zenon DEF Graph!Expire, GP!Expire, Graph!Truncate, GP!Truncate
LEMMA GraphSameGather == Graph!Gather => GP!Gather
  BY GraphSameToSet, GraphSameSeedScore, Zenon DEF Graph!Gather, GP!Gather
LEMMA GraphSameEmit == \A t : Graph!Emit(t) => GP!Emit(t)
  BY GraphSameBest, GraphSameRows, GraphSameFiltered, Zenon DEF Graph!Emit, GP!Emit
LEMMA GraphSameEndStep == Graph!EndStep => GP!EndStep
  BY GraphSameLimit, Zenon DEF Graph!EndStep, GP!EndStep, Graph!LastStep, GP!LastStep

(* So a step of the one is a step of the other.                              *)
LEMMA GraphSameStep == Graph!Next => GP!Next
  BY GraphSameStart, GraphSameScan, GraphSameExpire, GraphSameGather, GraphSameEmit, GraphSameEndStep, Zenon
     DEF Graph!Next, GP!Next

(* The walks are the same, too, ...                                          *)
LEMMA GraphSameOne == \A i, n : Graph!Step(i, n) = GP!Step(i, n)
  BY GraphSameLocated, GraphSameEdges, GraphSameToSet, Zenon DEF Graph!Step, GP!Step, Graph!Kind, GP!Kind,
    Graph!Unlimited, GP!Unlimited
LEMMA GraphSameWalks == \A s : Graph!Walks(s) = GP!Walks(s)
<1> TAKE s
<1> DEFINE P(w) == w = [n \in 0..Graph!Depth |-> IF n = 0 THEN {s} ELSE UNION {Graph!Step(i,
    n) : i \in w[n - 1]}]
           Q(w) == w = [n \in 0..GP!Depth |-> IF n = 0 THEN {s} ELSE UNION {GP!Step(i, n) : i \in w[n - 1]}]
<1>1. \A w : P(w) <=> Q(w)
  <2> TAKE w
  <2>1. \A n : UNION {Graph!Step(i, n) : i \in w[n - 1]} = UNION {GP!Step(i, n) : i \in w[n - 1]}
    BY GraphSameOne
  <2> DEFINE F(n) == IF n = 0 THEN {s} ELSE UNION {Graph!Step(i, n) : i \in w[n - 1]}
             G(n) == IF n = 0 THEN {s} ELSE UNION {GP!Step(i, n) : i \in w[n - 1]}
  <2>2. \A n : F(n) = G(n)
    BY <2>1
  <2> HIDE DEF F, G
  <2>3. [n \in 0..Graph!Depth |-> F(n)] = [n \in 0..GP!Depth |-> G(n)]
    BY <2>2, GraphSameLimit
  <2> QED
    BY <2>3 DEF F, G
<1>2. Graph!Walks(s) = CHOOSE w : P(w)
  BY Zenon DEF Graph!Walks
<1>3. GP!Walks(s) = CHOOSE w : Q(w)
  BY Zenon DEF GP!Walks
<1> HIDE DEF P, Q
<1>4. (CHOOSE w : P(w)) = CHOOSE w : Q(w)
  BY <1>1, Zenon
<1> QED
  BY <1>2, <1>3, <1>4
LEMMA GraphSameEnds == Graph!Ends = GP!Ends
  BY GraphSameWalks, GraphSameSeeds, GraphSameToSet, Zenon DEF Graph!Ends, GP!Ends

(* ... what makes them simple, ...                                           *)
LEMMA GraphSameSimple == \A w : Graph!SimpleWalk(w) = GP!SimpleWalk(w)
<1> TAKE w
<1>1. \A i, n : Graph!Edges(i, Graph!Kind(n), Graph!Unlimited) = GP!Edges(i, GP!Kind(n), GP!Unlimited)
  BY GraphSameEdges, Zenon DEF Graph!Kind, GP!Kind, Graph!Unlimited, GP!Unlimited
<1>2. \A i, n : (Graph!Located(i) => Len(Graph!Edges(i, Graph!Kind(n), Graph!Unlimited)) <= Graph!Limit)
                = (GP!Located(i) => Len(GP!Edges(i, GP!Kind(n), GP!Unlimited)) <= GP!Limit)
  BY <1>1, GraphSameLocated, GraphSameLimit, Zenon
<1>3. Graph!Roomy(w) = GP!Roomy(w)
  BY <1>2, GraphSameLimit, Zenon DEF Graph!Roomy, GP!Roomy
<1> QED
  BY <1>3, Zenon DEF Graph!SimpleWalk, GP!SimpleWalk

(* ... and what the rows are compared with, ...                              *)
LEMMA GraphSameReached ==
  \A w : /\ Graph!Reachable(w) = GP!Reachable(w)
        /\ Graph!RowsReached(w) = GP!RowsReached(w)
        /\ Graph!Shortest(w) = GP!Shortest(w)
<1> TAKE w
<1>1. Graph!Reachable(w) = GP!Reachable(w)
  <2>1. Graph!ToSet(Graph!Seeds) = GP!ToSet(GP!Seeds)
    BY GraphSameSeeds, GraphSameToSet, Zenon
  <2> DEFINE U(m) == UNION {w[s][n] : s \in DOMAIN w, n \in 1..m}
  <2>2. Graph!Reachable(w) = U(Graph!Depth) \ Graph!ToSet(Graph!Seeds)
    BY DEF Graph!Reachable
  <2>3. GP!Reachable(w) = U(GP!Depth) \ GP!ToSet(GP!Seeds)
    BY DEF GP!Reachable
  <2> HIDE DEF U
  <2> QED
    BY <2>1, <2>2, <2>3, GraphSameLimit, Zenon
<1>2. \A s, d : Graph!Score(s, d) = GP!Score(s, d)
  BY GraphSameVia
<1>3. Graph!RowsReached(w) = GP!RowsReached(w)
  BY <1>2, GraphSameToSet DEF Graph!RowsReached, GP!RowsReached
<1>4. Graph!Shortest(w) = GP!Shortest(w)
  BY GraphSameToSet, Zenon DEF Graph!Shortest, GP!Shortest
<1> QED
  BY <1>1, <1>3, <1>4

(* ... so that the property is the same.                                     *)
LEMMA GraphSameExact == GP!WalkExact => Graph!WalkExact
<1>1. Graph!Targets = GP!Targets
  BY GraphSameToSet, Zenon DEF Graph!Targets, GP!Targets
<1>2. Graph!Cardinality(Graph!Targets) = GP!Cardinality(GP!Targets)
  BY <1>1, Zenon DEF Graph!Cardinality, GP!Cardinality
<1> QED
  BY <1>1, <1>2, GraphSameEnds, GraphSameSimple, GraphSameSeeds, GraphSameToSet, GraphSameReached, Zenon
     DEF Graph!WalkExact, GP!WalkExact

(* What is assumed of the constants is the same, and so is the initial state. *)
LEMMA GraphSameAssumption == GP!QueryGraphAssumption
  BY GraphAssumption, Zenon DEF Graph!QueryGraphAssumption, GP!QueryGraphAssumption, Graph!IsRepo, GP!IsRepo,
    Graph!IsSeq, GP!IsSeq, Graph!Decls, GP!Decls, Graph!ToSet, GP!ToSet, Graph!IsQuestion, GP!IsQuestion

LEMMA GraphSameInit == Graph!Init => GP!Init
  BY Zenon DEF Graph!Init, GP!Init, Graph!Fresh, GP!Fresh

(* The invariant of QueryGraphProofs, of the behaviours of that part.        *)
GraphInv == part = "graph" => GP!Inv

(* It holds at the start.                                                    *)
LEMMA GraphStart == Init => GraphInv
<1>1. Init /\ part = "graph" => Graph!Init
  BY DEF Init, DiskInit, FilesInit, ServerInit, GraphInit, ToolInit, Asks
<1> QED
  BY <1>1, GraphSameAssumption, GraphSameInit, GP!InitInv DEF GraphInv

(* A step of Analysis of that part is a step of QueryGraph, or none.         *)
LEMMA GraphStep == GraphInv /\ [Next]_vars => GraphInv'
<1> SUFFICES ASSUME GraphInv, [Next]_vars, part' = "graph" PROVE GP!Inv'
  BY DEF GraphInv
<1>1. part = "graph" /\ (Graph!Next \/ UNCHANGED GP!vars)
  <2>1. CASE UNCHANGED vars
    BY <2>1 DEF vars, GP!vars
  <2>2. CASE Next
    BY <2>2 DEF Next, DiskNext, FilesNext, ServerNext, GraphNext, Replies, Edges, Locate, Architecture,
      Changes, Renames, Chunk, FindCode, Search, Symbols, Retrieve
  <2> QED
    BY <2>1, <2>2
<1> QED
  BY <1>1, GraphSameAssumption, GraphSameStep, GP!InvStep DEF GraphInv

(* The rows of query_graph are ends of walks from the seeds, each with its   *)
(* depth and score, and all there are when the answer does not say it is     *)
(* truncated, whatever is checked beside it.                                 *)
THEOREM RowsAreWalks == Spec => []WalkExact
<1>1. GraphInv => WalkExact
  BY GraphSameAssumption, GraphSameExact, GP!InvWalkExact DEF GraphInv, WalkExact
<1> QED
  BY <1>1, GraphStart, GraphStep, PTL DEF Spec

-----------------------------------------------------------------------------
(* node_edges: what it answers, ...                                        *)
LEMMA GraphSameDecls == \A R : Graph!Decls(R) = GP!Decls(R)
  BY GraphSameToSet DEF Graph!Decls, GP!Decls
LEMMA GraphSameAnswer ==
  ASSUME NEW R, NEW i, NEW kinds, NEW limit
  PROVE  LET a == Graph!NodeEdgesAnswer(R, i, kinds, limit)
             b == GP!NodeEdgesAnswer(R, i, kinds, limit)
         IN a.ok = b.ok /\ (a.ok => a.edges = b.edges /\ a.truncated = b.truncated)
<1> DEFINE d == GP!LocateSymbol(R, i)
           a == Graph!NodeEdgesAnswer(R, i, kinds, limit)
           b == GP!NodeEdgesAnswer(R, i, kinds, limit)
           ks == IF kinds = <<>> THEN <<"callers", "callees", "tests">> ELSE kinds
           most == IF limit <= 0 THEN 50 ELSE limit
           raw == [n \in DOMAIN ks |-> GP!ScanFor(ks[n], R, d, most * 4)]
           graw == [n \in DOMAIN ks |-> Graph!ScanFor(ks[n], R, d, most * 4)]
           cut == [n \in DOMAIN raw |-> GP!UpTo(most, raw[n])]
           gcut == [n \in DOMAIN graw |-> Graph!UpTo(most, graw[n])]
<1>1. Graph!LocateSymbol(R, i) = d
  BY GraphSameLocate
<1>2. Graph!Found(d) <=> GP!Found(d)
  BY Zenon DEF Graph!Found, GP!Found, Graph!NotFound, GP!NotFound
<1> HIDE DEF d
<1>3. CASE ~GP!Found(d)
  <2>1. b.ok = FALSE /\ a.ok = FALSE
    <3>1. b = [ok |-> FALSE, edges |-> <<>>, truncated |-> FALSE, total |-> 0]
      BY <1>3, Zenon DEF GP!NodeEdgesAnswer, d
    <3>2. a = [ok |-> FALSE, edges |-> <<>>, truncated |-> FALSE, total |-> 0]
      BY <1>1, <1>2, <1>3, Zenon DEF Graph!NodeEdgesAnswer
    <3> HIDE DEF a, b
    <3> QED
      BY <3>1, <3>2
  <2> HIDE DEF a, b
  <2> QED
    BY <2>1 DEF a, b
<1>4. CASE GP!Found(d)
  <2>1. b.ok = TRUE /\ b.edges = GP!FlattenSeq(cut) /\ b.truncated = (\E n \in DOMAIN raw : Len(raw[n]) > most)
    BY <1>4, Zenon DEF GP!NodeEdgesAnswer, GP!Each, GP!ScanLimit, d
  <2>2. a.ok = TRUE /\ a.edges = Graph!FlattenSeq(gcut) /\ a.truncated = (\E n \in DOMAIN graw : Len(graw[n]) > most)
    BY <1>1, <1>2, <1>4, Zenon DEF Graph!NodeEdgesAnswer, Graph!Each, Graph!ScanLimit
  <2> HIDE DEF a, b, most, ks
  <2>3. graw = raw
    BY GraphSameScans
  <2> HIDE DEF raw, graw
  <2>4. gcut = cut
    BY <2>3, GraphSameUpTo
  <2> HIDE DEF cut, gcut
  <2> QED
    BY <2>1, <2>2, <2>3, <2>4, GraphSameFlat DEF a, b
<1> QED
  BY <1>3, <1>4

(* ... and what it owes, the same in both instances.                       *)
LEMMA GraphSameAsIndexed == \A R : Graph!AsIndexed(R) => GP!AsIndexed(R)
  BY GraphSameDecls, GraphSameIds, GraphSameToSet, Zenon DEF Graph!AsIndexed, GP!AsIndexed, Graph!Callable, GP!Callable,
    Graph!CallerKey, GP!CallerKey
LEMMA GraphSameDirections ==
  \A R, d : GP!CallersAnswerCallees(R, d) => Graph!CallersAnswerCallees(R, d)
<1> TAKE R, d
<1>1. Graph!Unlimited = GP!Unlimited
  BY DEF Graph!Unlimited, GP!Unlimited
<1>2. \A t : /\ Graph!ScanCallers(R, t, Graph!Unlimited) = GP!ScanCallers(R, t, GP!Unlimited)
             /\ Graph!ScanCallees(R, t, Graph!Unlimited) = GP!ScanCallees(R, t, GP!Unlimited)
  BY <1>1, GraphSameCallers, GraphSameCallees
<1>3. \A e : Graph!TargetsOf(e) = GP!TargetsOf(e)
  BY GraphSameToSet, Zenon DEF Graph!TargetsOf, GP!TargetsOf
<1> DEFINE callees == GP!ScanCallees(R, d, GP!Unlimited)
           called == {<<c.pkg, c.name>> : c \in {c \in GP!Decls(R) : GP!ID(c) \in GP!TargetsOf(callees)}}
           Agree(t) == t.file # d.file /\ Len(GP!ScanCallers(R, t, GP!Unlimited)) < GP!Unlimited =>
                         (<<t.pkg, t.name>> \in called <=> GP!ID(d) \in GP!TargetsOf(GP!ScanCallers(R, t, GP!Unlimited)))
<1>4. GP!CallersAnswerCallees(R, d) <=>
        (GP!Callable(d) /\ Len(callees) < GP!Unlimited => \A t \in GP!Decls(R) : Agree(t))
  BY Zenon DEF GP!CallersAnswerCallees
<1>5. {<<c.pkg, c.name>> : c \in {c \in Graph!Decls(R) : Graph!ID(c) \in Graph!TargetsOf(callees)}} = called
  BY <1>3, GraphSameDecls, GraphSameIds
<1> HIDE DEF callees, called
<1>6. Graph!CallersAnswerCallees(R, d) <=>
        (Graph!Callable(d) /\ Len(callees) < GP!Unlimited => \A t \in Graph!Decls(R) :
           t.file # d.file /\ Len(GP!ScanCallers(R, t, GP!Unlimited)) < GP!Unlimited =>
             (<<t.pkg, t.name>> \in called <=> Graph!ID(d) \in Graph!TargetsOf(GP!ScanCallers(R, t, GP!Unlimited))))
  BY <1>1, <1>2, <1>5, Zenon DEF Graph!CallersAnswerCallees, callees
<1>7. Graph!Callable(d) <=> GP!Callable(d)
  BY DEF Graph!Callable, GP!Callable
<1> QED
  BY <1>3, <1>4, <1>6, <1>7, GraphSameDecls, GraphSameIds

LEMMA GraphSameFirstEdges ==
  ASSUME NEW R, NEW i, NEW kinds, NEW limit, NEW a, NEW b, a.edges = b.edges, a.truncated = b.truncated,
         GP!FirstEdges(R, i, kinds, limit, b)
  PROVE  Graph!FirstEdges(R, i, kinds, limit, a)
<1> DEFINE ks == IF kinds = <<>> THEN <<"callers", "callees", "tests">> ELSE kinds
           most == IF limit <= 0 THEN 50 ELSE limit
           All(k) == GP!ScanFor(k, R, GP!LocateSymbol(R, i), GP!Unlimited)
           GAll(k) == Graph!ScanFor(k, R, Graph!LocateSymbol(R, i), Graph!Unlimited)
           first == [n \in DOMAIN ks |-> GP!UpTo(most, All(ks[n]))]
           gfirst == [n \in DOMAIN ks |-> Graph!UpTo(most, GAll(ks[n]))]
<1>1. \A k : GAll(k) = All(k)
  BY GraphSameScans, GraphSameLocate DEF Graph!Unlimited, GP!Unlimited
<1>2. b.edges = GP!FlattenSeq(first) /\ (b.truncated <=> \E n \in DOMAIN ks : Len(All(ks[n])) > most)
  BY Zenon DEF GP!FirstEdges, GP!Each
<1>3. Graph!FirstEdges(R, i, kinds, limit, a) <=>
        a.edges = Graph!FlattenSeq(gfirst) /\ (a.truncated <=> \E n \in DOMAIN ks : Len(GAll(ks[n])) > most)
  BY Zenon DEF Graph!FirstEdges, Graph!Each
<1> HIDE DEF All, GAll, ks, most
<1>4. gfirst = first
  BY <1>1, GraphSameUpTo
<1> HIDE DEF first, gfirst
<1> QED
  BY <1>1, <1>2, <1>3, <1>4, GraphSameFlat

LEMMA GraphSameOwed ==
  ASSUME NEW R, NEW i, NEW kinds, NEW limit,
         GP!EdgesOwed(R, i, kinds, limit, GP!NodeEdgesAnswer(R, i, kinds, limit))
  PROVE  Graph!EdgesOwed(R, i, kinds, limit, Graph!NodeEdgesAnswer(R, i, kinds, limit))
<1> DEFINE a == Graph!NodeEdgesAnswer(R, i, kinds, limit)
           b == GP!NodeEdgesAnswer(R, i, kinds, limit)
<1>1. a.ok = b.ok /\ (a.ok => a.edges = b.edges /\ a.truncated = b.truncated)
  BY GraphSameAnswer
<1> HIDE DEF a, b
<1>2. b.ok => /\ GP!FirstEdges(R, i, kinds, limit, b)
              /\ GP!AsIndexed(R) => GP!CallersAnswerCallees(R, GP!LocateSymbol(R, i))
  BY DEF GP!EdgesOwed, b
<1> SUFFICES ASSUME a.ok
             PROVE  /\ Graph!FirstEdges(R, i, kinds, limit, a)
                    /\ Graph!AsIndexed(R) => Graph!CallersAnswerCallees(R, Graph!LocateSymbol(R, i))
  BY DEF Graph!EdgesOwed, a
<1>3. Graph!FirstEdges(R, i, kinds, limit, a)
  BY <1>1, <1>2, GraphSameFirstEdges
<1>4. Graph!AsIndexed(R) => Graph!CallersAnswerCallees(R, Graph!LocateSymbol(R, i))
  BY <1>1, <1>2, GraphSameAsIndexed, GraphSameDirections, GraphSameLocate
<1> QED
  BY <1>3, <1>4

(* A behaviour of node_edges has a question and then the handler's answer. *)
EdgesInv ==
  part = "edges" =>
    /\ repo \in EdgeRepos /\ asked \in EdgeQuestions
    /\ pc = "answered" => answer = Graph!NodeEdgesAnswer(repo, asked.id, asked.kinds, asked.limit)

LEMMA EdgesStart == Init => EdgesInv
  BY DEF Init, DiskInit, FilesInit, ServerInit, GraphInit, ToolInit, Asks, EdgesInv

LEMMA EdgesStep == EdgesInv /\ [Next]_vars => EdgesInv'
<1> SUFFICES ASSUME EdgesInv, [Next]_vars, part' = "edges" PROVE EdgesInv'
  BY DEF EdgesInv
<1>1. CASE UNCHANGED vars
  BY <1>1 DEF vars, EdgesInv
<1>2. CASE Next
  <2>1. Edges
    BY <1>2 DEF Next, DiskNext, FilesNext, ServerNext, GraphNext, Replies, Edges, Locate, Architecture,
      Changes, Renames, Chunk, FindCode, Search, Symbols, Retrieve
  <2> QED
    BY <2>1, Zenon DEF Edges, Replies, EdgesInv
<1> QED
  BY <1>1, <1>2

(* node_edges gives of each kind the first edges there are, says truncated   *)
(* just when one has more, and its callers answer its callees.               *)
THEOREM AnswersAreEdges == Spec => []EdgesExact
<1>1. EdgesInv => EdgesExact
  <2> SUFFICES ASSUME EdgesInv, Answered("edges")
               PROVE  Graph!EdgesOwed(repo, asked.id, asked.kinds, asked.limit, answer)
    BY DEF EdgesExact
  <2>1. /\ repo \in EdgeRepos /\ asked \in EdgeQuestions
        /\ answer = Graph!NodeEdgesAnswer(repo, asked.id, asked.kinds, asked.limit)
    BY DEF EdgesInv, Answered
  <2>2. GP!IsRepo(repo) /\ asked.limit \in Int /\ asked.limit < GP!Unlimited
    <3>1. Graph!IsRepo(repo) /\ asked.limit \in Int /\ asked.limit < Graph!Unlimited
      BY <2>1, EdgeAssumption
    <3>2. Graph!IsRepo(repo) => GP!IsRepo(repo)
      BY Zenon DEF Graph!IsRepo, GP!IsRepo, Graph!IsSeq, GP!IsSeq, Graph!Decls, GP!Decls, Graph!ToSet, GP!ToSet
    <3> QED
      BY <3>1, <3>2 DEF Graph!Unlimited, GP!Unlimited
  <2> DEFINE b == GP!NodeEdgesAnswer(repo, asked.id, asked.kinds, asked.limit)
  <2>3. GP!EdgesOwed(repo, asked.id, asked.kinds, asked.limit, b)
    BY <2>2, GP!NodeEdgesExact
  <2> QED
    BY <2>1, <2>3, GraphSameOwed
<1> QED
  BY <1>1, EdgesStart, EdgesStep, PTL DEF Spec

-----------------------------------------------------------------------------
(***************************************************************************)
(* The tools that take an id or a name.  CodeSearch has an instance of     *)
(* CodeIndex of its own, so first its operators are shown to be those that *)
(* QueryGraphProofs is about.                                              *)
(***************************************************************************)
LEMMA CodeSameAt == \A s, N : Code!At(s, N) = GP!At(s, N)
  BY Zenon DEF Code!At, GP!At, Code!Nth, GP!Nth, Code!Cardinality, GP!Cardinality

LEMMA CodeSameFlat == \A s : Code!FlattenSeq(s) = GP!FlattenSeq(s)
  BY Zenon DEF Code!FlattenSeq, GP!FlattenSeq

LEMMA CodeSameLookup == \A R, p, n : Code!Lookup(R, p, n) = GP!Lookup(R, p, n)
  BY CodeSameFlat, Zenon DEF Code!Lookup, GP!Lookup, Code!Entry, GP!Entry, Code!AnyName, GP!AnyName

LEMMA CodeSameSymbols == \A R, f : Code!Symbols(R, f) = GP!Symbols(R, f)
  BY CodeSameAt, Zenon DEF Code!Symbols, GP!Symbols, Code!Where, GP!Where

LEMMA CodeSameHead == \A s, x : Code!HeadOr(s, x) = GP!HeadOr(s, x)
  BY Zenon DEF Code!HeadOr, GP!HeadOr

LEMMA CodeSameCandidates == \A R, p : Code!Candidates(R, p) = GP!Candidates(R, p)
  BY CodeSameLookup, Zenon DEF Code!Candidates, GP!Candidates

LEMMA CodeSameNotFound == Code!NotFound = GP!NotFound
  BY DEF Code!NotFound, GP!NotFound

LEMMA CodeSameFunction == \A R, p : Code!LocateFunction(R, p) = GP!LocateFunction(R, p)
<1> TAKE R, p
<1> DEFINE es == GP!Candidates(R, p)
           Of(s) == GP!At(s, {n \in DOMAIN s : s[n].kind = "function"})
<1>1. Code!Candidates(R, p) = es
  BY CodeSameCandidates
<1>2. Of(es) = Code!At(es, {n \in DOMAIN es : es[n].kind = "function"})
  BY CodeSameAt, Zenon
<1> HIDE DEF es
<1>3. GP!LocateFunction(R, p) = IF Of(es) # <<>> THEN Of(es)[1] ELSE GP!HeadOr(es, GP!NotFound)
  BY Zenon DEF GP!LocateFunction, GP!FirstOr, GP!Where, es
<1> HIDE DEF Of
<1> QED
  BY <1>1, <1>2, <1>3, CodeSameHead, CodeSameNotFound, Zenon
      DEF Code!LocateFunction, Code!FirstOr, Code!Where

LEMMA CodeSameType == \A R, p : Code!LocateType(R, p) = GP!LocateType(R, p)
<1> TAKE R, p
<1> DEFINE es == GP!Candidates(R, p)
           Of(s) == GP!At(s, {n \in DOMAIN s : s[n].kind = "type"})
<1>1. Code!Candidates(R, p) = es
  BY CodeSameCandidates
<1>2. Of(es) = Code!At(es, {n \in DOMAIN es : es[n].kind = "type"})
  BY CodeSameAt, Zenon
<1> HIDE DEF es
<1>3. GP!LocateType(R, p) = IF Of(es) # <<>> THEN Of(es)[1] ELSE GP!HeadOr(es, GP!NotFound)
  BY Zenon DEF GP!LocateType, GP!FirstOr, GP!Where, es
<1> HIDE DEF Of
<1> QED
  BY <1>1, <1>2, <1>3, CodeSameHead, CodeSameNotFound, Zenon DEF Code!LocateType, Code!FirstOr, Code!Where

LEMMA CodeSameParts ==
  /\ Code!BadFormat = GP!BadFormat
  /\ \A b : Code!FunctionParts(b) = GP!FunctionParts(b) /\ Code!MethodParts(b) = GP!MethodParts(b)
  /\ \A i : Code!ClassParts(i) = GP!ClassParts(i)
  BY Zenon DEF Code!FunctionParts, GP!FunctionParts, Code!MethodParts, GP!MethodParts,
   Code!ClassParts, GP!ClassParts, Code!BadFormat, GP!BadFormat, Code!IdParts, GP!IdParts

LEMMA CodeSameMethod == \A R, p : Code!LocateMethod(R, p) = GP!LocateMethod(R, p)
<1> TAKE R, p
<1> DEFINE D == GP!Lookup(R, p.pkg, <<p.class>>)
           types == GP!At(D, {n \in DOMAIN D : D[n].kind \in {"type", "class"}})
           In(s, t) == {n \in DOMAIN s : s[n].kind = "method" /\ <<s[n].name>> = p.name /\ s[n].recv = t.name}
           methods(t) == GP!At(GP!Symbols(R, t.file), In(GP!Symbols(R, t.file), t))
           cmethods(t) == Code!At(Code!Symbols(R, t.file), In(Code!Symbols(R, t.file), t))
           flat == GP!FlattenSeq([n \in DOMAIN types |-> methods(types[n])])
<1>1. Code!Lookup(R, p.pkg, <<p.class>>) = D
  BY CodeSameLookup
<1>2. Code!NotFound = GP!NotFound
  BY DEF Code!NotFound, GP!NotFound
<1>3. types = Code!At(D, {n \in DOMAIN D : D[n].kind \in {"type", "class"}})
  BY CodeSameAt, Zenon
<1> HIDE DEF D
<1>4. GP!LocateMethod(R, p) = GP!HeadOr(flat, GP!NotFound)
  BY Zenon DEF GP!LocateMethod, GP!Where, GP!IsMethodOf, D
<1> HIDE DEF types
<1>5. Code!LocateMethod(R, p) = Code!HeadOr(Code!FlattenSeq([n \in DOMAIN types |-> cmethods(types[n])]),
    Code!NotFound)
  BY <1>1, <1>3, Zenon DEF Code!LocateMethod, Code!Where, Code!IsMethodOf
<1>6. \A t : cmethods(t) = methods(t)
  BY CodeSameSymbols, CodeSameAt, Zenon
<1> HIDE DEF methods, cmethods
<1>7. [n \in DOMAIN types |-> cmethods(types[n])] = [n \in DOMAIN types |-> methods(types[n])]
  BY <1>6
<1> QED
  BY <1>2, <1>4, <1>5, <1>7, CodeSameHead, CodeSameFlat, Zenon

LEMMA CodeSameLocate == \A R, i : Code!LocateSymbol(R, i) = GP!LocateSymbol(R, i)
  BY CodeSameFunction, CodeSameType, CodeSameMethod, CodeSameNotFound, CodeSameParts, Zenon
      DEF Code!LocateSymbol, GP!LocateSymbol

LEMMA CodeSameIds == \A d : Code!ID(d) = GP!ID(d)
  BY Zenon DEF Code!ID, GP!ID, Code!IdWith, GP!IdWith, Code!IdKind, GP!IdKind, Code!ClassForms, GP!ClassForms

LEMMA CodeSameUpTo == \A n, s : Code!UpTo(n, s) = GP!UpTo(n, s)
  BY Zenon DEF Code!UpTo, GP!UpTo

LEMMA CodeSameFound == \A d : Code!Found(d) = GP!Found(d)
  BY CodeSameNotFound, Zenon DEF Code!Found, GP!Found

LEMMA CodeSameNamed == \A R, p, names : Code!MatchByNamePattern(R, p, names) = GP!Named(R, p, names)
<1> TAKE R, p, names
<1> DEFINE es == GP!Lookup(R, p, <<>>)
<1>1. Code!Lookup(R, p, <<>>) = es
  BY CodeSameLookup
<1>2. Code!At(es, {n \in DOMAIN es : es[n].name \in names}) = GP!At(es, {n \in DOMAIN es : es[n].name \in names})
  BY CodeSameAt, Zenon
<1> QED
  BY <1>1, <1>2, Zenon DEF Code!MatchByNamePattern, GP!Named, Code!Where, GP!Where

(* What the properties say of a repo they say of the same repo.            *)
LEMMA GraphSameRepo ==
  ASSUME NEW R, Graph!IsRepo(R), Graph!Filed(R)
  PROVE  GP!IsRepo(R) /\ GP!Filed(R) /\ R.now = R.loaded /\ Graph!Decls(R) = ToSet(R.now)
<1>1. GP!IsRepo(R)
  BY Zenon DEF Graph!IsRepo, GP!IsRepo, Graph!IsSeq, GP!IsSeq, Graph!Decls, GP!Decls, Graph!ToSet, GP!ToSet
<1>2. GP!Filed(R)
  BY GraphSameDecls, Zenon DEF Graph!Filed, GP!Filed
<1>3. R.now = R.loaded /\ Graph!Decls(R) = ToSet(R.now)
  BY DEF Graph!Filed, Graph!Decls, Graph!ToSet, ToSet
<1> QED
  BY <1>1, <1>2, <1>3

LEMMA GraphSameId == \A d : Graph!ID(d) = GP!ID(d) /\ Graph!IdKind(d) = GP!IdKind(d) /\ Graph!Found(d) = GP!Found(d)
  BY Zenon DEF Graph!ID, GP!ID, Graph!IdWith, GP!IdWith, Graph!IdKind, GP!IdKind, Graph!ClassForms, GP!ClassForms,
    Graph!Found, GP!Found, Graph!NotFound, GP!NotFound

LEMMA GraphSameBack == \A R, d : Graph!LeadsBack(R, d) => GP!LeadsBack(R, d)
<1> TAKE R, d
<1>1. Graph!Decls(R) = GP!Decls(R)
  BY GraphSameDecls
<1> QED
  BY <1>1, GraphSameId, Zenon DEF Graph!LeadsBack, GP!LeadsBack

(* Analysis has a ToSet of its own, too.                                   *)
LEMMA PlainToSet == \A s : GP!ToSet(s) = ToSet(s) /\ Graph!ToSet(s) = ToSet(s)
  BY Zenon DEF GP!ToSet, Graph!ToSet, ToSet

(* The id of a declaration that LeadsBack is located at one of the same id. *)
LEMMA IdFound ==
  ASSUME NEW R, Graph!IsRepo(R), Graph!Filed(R), NEW d \in ToSet(R.now), Graph!LeadsBack(R, d),
         NEW x, x = GP!LocateSymbol(R, GP!ID(d))
  PROVE  x \in ToSet(R.now) /\ GP!Found(x) /\ GP!ID(x) = GP!ID(d)
<1>1. GP!IsRepo(R) /\ GP!Filed(R) /\ GP!LeadsBack(R, d)
  BY GraphSameRepo, GraphSameBack
<1>2. GP!Decls(R) = ToSet(R.now)
  <2>1. Graph!Decls(R) = GP!Decls(R)
    BY GraphSameDecls
  <2> QED
    BY <2>1, GraphSameRepo
<1>3. /\ GP!LocateSymbol(R, GP!ID(d)) \in GP!Decls(R) /\ GP!Found(GP!LocateSymbol(R, GP!ID(d)))
      /\ GP!ID(GP!LocateSymbol(R, GP!ID(d))) = GP!ID(d)
  BY <1>1, <1>2, GP!IdsLeadBack
<1> QED
  BY <1>2, <1>3

(* The declarations of the index that are asked for, in its order.         *)
Wanted(R, pkg, names) ==
  Graph!At(R.now, {n \in DOMAIN R.now : R.now[n].name \in names /\ pkg \in {<<>>, R.now[n].pkg}})

(* What find_symbol owes: all of them, or the first of them.               *)
FindGives(R, pkg, names, most, wanted, find) ==
  /\ ToSet(wanted) = {c \in ToSet(R.now) : c.name \in names /\ pkg \in {<<>>, c.pkg}}
  /\ ToSet(wanted) = {} <=> wanted = <<>>
  /\ pkg # <<>> =>
       /\ [n \in DOMAIN find.found |-> find.found[n].id] =
            Graph!UpTo(most, [n \in DOMAIN wanted |-> Graph!ID(wanted[n])])
       /\ find.truncated <=> Len(wanted) > most
  /\ ~find.truncated => {n.id : n \in ToSet(find.found)} = {Graph!ID(d) : d \in ToSet(wanted)}
  /\ \A n \in ToSet(find.found) : \E d \in ToSet(R.now) :
       n = [id |-> GP!ID(d), at |-> GP!LocateSymbol(R, GP!ID(d))]

(* What find_symbol gives.                                                 *)
LEMMA FindOwed ==
  ASSUME NEW R, Graph!IsRepo(R), Graph!Filed(R), NEW pkg, NEW names, NEW limit \in Int,
         NEW most, most = IF limit <= 0 THEN 20 ELSE limit,
         NEW wanted, wanted = Wanted(R, pkg, names),
         NEW find, find = Code!FindSymbol(R, pkg, names, limit)
  PROVE  FindGives(R, pkg, names, most, wanted, find)
<1> DEFINE s == R.now
           M == {n \in DOMAIN s : s[n].name \in names /\ pkg \in {<<>>, s[n].pkg}}
           hits == GP!Named(R, pkg, names)
           node(d) == [id |-> GP!ID(d), at |-> GP!LocateSymbol(R, GP!ID(d))]
           e == [n \in DOMAIN hits |-> node(hits[n])]
           i == [n \in DOMAIN hits |-> GP!ID(hits[n])]
           u == GP!UpTo(most, e)
<1>1. GP!IsRepo(R) /\ R.now = R.loaded /\ GP!Decls(R) = ToSet(s) /\ most \in Nat
  <2>1. Graph!Decls(R) = GP!Decls(R)
    BY GraphSameDecls
  <2> QED
    BY <2>1, GraphSameRepo
<1>2. wanted = GP!At(s, M)
  <2>1. wanted = Graph!At(s, M)
    BY Zenon DEF Wanted
  <2> QED
    BY <2>1, GraphSameAt
<1>3. s \in Seq(ToSet(s)) /\ M \in SUBSET DOMAIN s
  BY <1>1, GP!RepoTypes
<1>4. wanted \in Seq(ToSet(s)) /\ ToSet(wanted) = {s[n] : n \in M}
  <2> HIDE DEF s, M
  <2>1. GP!At(s, M) \in Seq(ToSet(s)) /\ GP!ToSet(GP!At(s, M)) = {s[n] : n \in M}
    BY <1>3, GP!AtFacts
  <2> QED
    BY <1>2, <2>1, PlainToSet
<1>5. ToSet(wanted) = {c \in ToSet(s) : c.name \in names /\ pkg \in {<<>>, c.pkg}}
  <2>1. {s[n] : n \in M} = {c \in ToSet(s) : c.name \in names /\ pkg \in {<<>>, c.pkg}}
    BY DEF ToSet
  <2> QED
    BY <1>4, <2>1
<1>b. ToSet(wanted) = {} <=> wanted = <<>>
  <2> DEFINE S == ToSet(s)
  <2>1. wanted \in Seq(S)
    BY <1>4
  <2> HIDE DEF S, s, M
  <2>2. CASE wanted = <<>>
    BY <2>2 DEF ToSet
  <2>3. CASE wanted # <<>>
    <3>1. 1 \in DOMAIN wanted
      BY <2>1, <2>3
    <3>2. wanted[1] \in ToSet(wanted)
      BY <3>1, Zenon DEF ToSet
    <3> QED
      BY <2>3, <3>2
  <2> QED
    BY <2>2, <2>3
<1>6. hits \in Seq(ToSet(s)) /\ ToSet(hits) = ToSet(wanted) /\ (pkg # <<>> => hits = wanted)
  <2>1. /\ hits \in Seq(GP!Decls(R)) /\ GP!ToSet(hits) = GP!Bearers(R, pkg, names)
        /\ pkg # <<>> => hits = GP!At(R.loaded, GP!Places(R, pkg, names))
    BY <1>1, GP!NamedHas
  <2>2. M = GP!Places(R, pkg, names) /\ ToSet(wanted) = GP!Bearers(R, pkg, names)
    BY <1>1, <1>5, PlainToSet, Zenon DEF GP!Places, GP!Bearers, GP!Bears
  <2> HIDE DEF hits
  <2> QED
    BY <1>1, <1>2, <2>1, <2>2, PlainToSet
<1>7. find = [ok |-> TRUE, found |-> u, truncated |-> Len(e) > most, total |-> Len(e)]
  <2>1. \A d : [id |-> Code!ID(d), at |-> Code!LocateSymbol(R, Code!ID(d))] = node(d)
    BY CodeSameIds, CodeSameLocate
  <2>2. Code!MatchByNamePattern(R, pkg, names) = hits
    BY CodeSameNamed
  <2>3. Code!Or(limit, 20) = most
    BY DEF Code!Or
  <2> HIDE DEF hits, node
  <2>4. [n \in DOMAIN hits |-> [id |-> Code!ID(hits[n]), at |-> Code!LocateSymbol(R, Code!ID(hits[n]))]] = e
    BY <2>1
  <2>5. Code!UpTo(most, e) = u
    BY CodeSameUpTo
  <2> HIDE DEF e, u
  <2>6. find = Code!Cut(most, e)
    BY <2>2, <2>3, <2>4, Zenon DEF Code!FindSymbol, Code!Each
  <2> QED
    BY <2>5, <2>6, Zenon DEF Code!Cut
<1> HIDE DEF hits
<1> DEFINE V == {node(d) : d \in ToSet(s)}
           W == {GP!ID(d) : d \in ToSet(s)}
<1>8. DOMAIN hits = 1..Len(hits) /\ Len(hits) \in Nat /\ \A n \in DOMAIN hits : hits[n] \in ToSet(s)
  BY <1>6
<1>9. /\ e \in Seq(V) /\ i \in Seq(W) /\ Len(e) = Len(hits) /\ Len(i) = Len(hits)
      /\ DOMAIN e = DOMAIN hits /\ DOMAIN i = DOMAIN hits
      /\ \A n \in DOMAIN hits : e[n] = node(hits[n]) /\ i[n] = GP!ID(hits[n])
  <2>1. \A n \in DOMAIN hits : node(hits[n]) \in V /\ GP!ID(hits[n]) \in W
    BY <1>8
  <2> HIDE DEF V, W, node
  <2>2. e \in [1..Len(hits) -> V] /\ i \in [1..Len(hits) -> W] /\ \A n \in DOMAIN hits : e[n] = node(hits[n]) /\ i[n] = GP!ID(hits[n])
    BY <1>8, <2>1
  <2> HIDE DEF e, i
  <2> QED
    BY <1>8, <2>2
<1>a. \A d : node(d).id = GP!ID(d)
  OBVIOUS
<1> HIDE DEF e, i, V, W, u, node
<1>10. /\ u \in Seq(V) /\ (\A n \in 1..Len(u) : n \in DOMAIN e /\ u[n] = e[n])
       /\ Len(e) <= most => u = e
  BY <1>1, <1>9, GP!UpToFacts DEF u
<1>11. ASSUME pkg # <<>>
       PROVE  /\ [n \in DOMAIN u |-> u[n].id] = Graph!UpTo(most, [n \in DOMAIN wanted |-> Graph!ID(wanted[n])])
              /\ Len(e) > most <=> Len(wanted) > most
  <2>1. \A n \in DOMAIN e : e[n].id = i[n]
    BY <1>9, <1>a
  <2>2. [n \in DOMAIN u |-> u[n].id] = GP!UpTo(most, i)
    BY <1>1, <1>9, <2>1, GP!FirstIds DEF u
  <2>3. [n \in DOMAIN wanted |-> Graph!ID(wanted[n])] = i
    BY <1>6, <1>11, GraphSameId DEF i
  <2>4. Graph!UpTo(most, i) = GP!UpTo(most, i)
    BY GraphSameUpTo
  <2> QED
    BY <1>6, <1>9, <1>11, <2>2, <2>3, <2>4
<1>12. \A n \in ToSet(u) : n \in V
  BY <1>10 DEF ToSet
<1>13. ASSUME ~(Len(e) > most) PROVE {n.id : n \in ToSet(u)} = {Graph!ID(d) : d \in ToSet(wanted)}
  <2>1. u = e
    BY <1>1, <1>8, <1>9, <1>10, <1>13
  <2>2. {n.id : n \in ToSet(e)} = {GP!ID(hits[n]) : n \in DOMAIN hits}
    <3>1. ToSet(e) = {e[n] : n \in DOMAIN hits}
      BY <1>9 DEF ToSet
    <3>2. \A n \in DOMAIN hits : e[n].id = GP!ID(hits[n])
      BY <1>9, <1>a
    <3> QED
      BY <3>1, <3>2
  <2>3. ToSet(wanted) = {hits[n] : n \in DOMAIN hits}
    BY <1>6 DEF ToSet
  <2> QED
    BY <2>1, <2>2, <2>3, GraphSameId
<1>14. find.found = u /\ (find.truncated <=> Len(e) > most)
  <2> DEFINE t == Len(e) > most
  <2>1. find.found = u /\ find.truncated = t
    <3> HIDE DEF t
    <3> QED
      BY <1>7 DEF t
  <2> QED
    BY <2>1
<1>15. \A n \in ToSet(u) : \E d \in ToSet(s) : n = node(d)
  BY <1>12 DEF V
<1> QED
  BY <1>5, <1>11, <1>13, <1>14, <1>15, <1>b DEF node, FindGives

(* find_referencing_symbols fails only when nothing bears the name.        *)
LEMMA RefsOwed ==
  ASSUME NEW R, Graph!IsRepo(R), Graph!Filed(R), NEW names, NEW kinds, NEW limit,
         \A d \in ToSet(R.now) : Graph!LeadsBack(R, d)
  PROVE  Code!FindReferencingSymbols(R, names, kinds, limit).ok <=> \E d \in ToSet(R.now) : d.name \in names
<1> DEFINE hits == GP!Named(R, <<>>, names)
           ks == Code!SelectSeq(kinds, LAMBDA k : k \in Code!EdgeKinds)
           wants == IF kinds # <<>> /\ ks = <<>> THEN <<"none">> ELSE ks
           refs == Code!FindReferencingSymbols(R, names, kinds, limit)
<1>1. GP!IsRepo(R) /\ R.now = R.loaded
  BY GraphSameRepo
<1>2. hits \in Seq(GP!Decls(R)) /\ ToSet(hits) = {c \in ToSet(R.now) : c.name \in names}
  <2>1. hits \in Seq(GP!Decls(R)) /\ GP!ToSet(hits) = GP!Bearers(R, <<>>, names)
    BY <1>1, GP!NamedHas
  <2>2. GP!Bearers(R, <<>>, names) = {c \in ToSet(R.now) : c.name \in names}
    BY <1>1, PlainToSet DEF GP!Bearers, GP!Bears
  <2> HIDE DEF hits
  <2> QED
    BY <2>1, <2>2, PlainToSet
<1>3. Code!MatchByNamePattern(R, <<>>, names) = hits
  BY CodeSameNamed
<1> HIDE DEF hits
<1>4. CASE hits = <<>>
  <2>1. refs = [ok |-> FALSE, edges |-> <<>>, truncated |-> FALSE, total |-> 0]
    BY <1>3, <1>4, Zenon DEF Code!FindReferencingSymbols
  <2>2. ToSet(hits) = {}
    BY <1>4 DEF ToSet
  <2> QED
    BY <1>2, <2>1, <2>2
<1>5. CASE hits # <<>>
  <2> DEFINE d == hits[1]
  <2>1. d \in ToSet(R.now) /\ d.name \in names
    <3>1. d \in ToSet(hits)
      BY <1>2, <1>5 DEF ToSet
    <3> QED
      BY <1>2, <3>1
  <2>2. refs.ok <=> Code!Found(Code!LocateSymbol(R, Code!ID(d)))
    <3>1. \A i, k, l : Code!NodeEdgesAnswer(R, i, k, l).ok <=> Code!Found(Code!LocateSymbol(R, i))
      BY DEF Code!NodeEdgesAnswer
    <3>2. \E k, l : refs = Code!NodeEdgesAnswer(R, Code!ID(d), k, l)
      BY <1>3, <1>5, Zenon DEF Code!FindReferencingSymbols
    <3> QED
      BY <3>1, <3>2
  <2> HIDE DEF d
  <2>3. GP!Found(GP!LocateSymbol(R, GP!ID(d)))
    BY <2>1, IdFound
  <2> QED
    BY <2>1, <2>2, <2>3, CodeSameFound, CodeSameLocate, CodeSameIds
<1> QED
  BY <1>4, <1>5

(* What get_code_snippet tries.                                            *)
LEMMA CodeSameTried ==
  /\ \A R, tries, n : [k \in DOMAIN tries |-> Code!Lookup(R, tries[k], <<n>>)] = GP!Tried(R, tries, n)
  /\ \A e : Code!At(e, {k \in DOMAIN e : e[k] # <<>>}) = GP!NotEmpty(e)
<1>1. \A R, tries, n : [k \in DOMAIN tries |-> Code!Lookup(R, tries[k], <<n>>)] = GP!Tried(R, tries, n)
  BY CodeSameLookup DEF GP!Tried
<1>2. \A e : Code!At(e, {k \in DOMAIN e : e[k] # <<>>}) = GP!NotEmpty(e)
  BY CodeSameAt, Zenon DEF GP!NotEmpty
<1> QED
  BY <1>1, <1>2

(* resolveNamePath gives the id of a declaration of the name, if there is  *)
(* one.                                                                    *)
LEMMA NamePath ==
  ASSUME NEW R, Graph!IsRepo(R), Graph!Filed(R), NEW pkg, NEW name,
         NEW at, at = Code!ResolveNamePath(R, pkg, name)
  PROVE  /\ at.ok <=> \E d \in ToSet(R.now) : d.name = name
         /\ at.ok => \E d \in ToSet(R.now) : d.name = name /\ at.id = GP!ID(d)
<1> DEFINE a == IF Len(pkg) > 1 THEN <<Code!Front(pkg)>> ELSE <<>>
           b == <<pkg, <<>>>>
           T == {Code!Front(pkg), pkg, <<>>}
           tries == a \o b
           e == GP!Tried(R, tries, name)
           hits == GP!NotEmpty(e)
<1>1. GP!IsRepo(R) /\ R.now = R.loaded
  BY GraphSameRepo
<1>2. tries \in Seq(T) /\ \E k \in DOMAIN tries : tries[k] = <<>>
  <2>1. a \in Seq(T) /\ b \in Seq(T) /\ b[2] = <<>> /\ 2 \in DOMAIN b
    <3> DEFINE f == Code!Front(pkg)
    <3> HIDE DEF f
    <3>1. a = (IF Len(pkg) > 1 THEN <<f>> ELSE <<>>) /\ b = <<pkg, <<>>>> /\ T = {f, pkg, <<>>}
      BY DEF f
    <3>2. <<f>> \in Seq({f, pkg, <<>>}) /\ <<>> \in Seq({f, pkg, <<>>}) /\ <<pkg, <<>>>> \in Seq({f, pkg, <<>>})
      OBVIOUS
    <3> HIDE DEF a, T
    <3>3. a \in Seq(T)
      BY <3>1, <3>2
    <3> QED
      BY <3>1, <3>2, <3>3
  <2> HIDE DEF a, b, T
  <2>2. tries \in Seq(T) /\ GP!ToSet(tries) = GP!ToSet(a) \cup GP!ToSet(b)
    BY <2>1, GP!ConcatFacts
  <2>3. <<>> \in GP!ToSet(b)
    BY <2>1, PlainToSet DEF ToSet
  <2>4. <<>> \in ToSet(tries)
    BY <2>2, <2>3, PlainToSet
  <2> QED
    BY <2>2, <2>4 DEF ToSet
<1> HIDE DEF a, b, T, tries
<1>3. /\ hits = <<>> <=> ~\E c \in GP!ToSet(R.loaded) : c.name = name
      /\ hits # <<>> => hits[1][1] \in GP!ToSet(R.loaded) /\ hits[1][1].name = name
  BY <1>1, <1>2, GP!TriesHit
<1>4. at = IF hits = <<>> THEN [ok |-> FALSE]
           ELSE [ok |-> TRUE, id |-> Code!ID(hits[1][1]), ambiguous |-> Len(hits[1])]
  <2>1. [k \in DOMAIN tries |-> Code!Lookup(R, tries[k], <<name>>)] = e
    BY CodeSameTried
  <2> HIDE DEF e
  <2>2. Code!At(e, {k \in DOMAIN e : e[k] # <<>>}) = hits
    BY CodeSameTried
  <2> HIDE DEF hits
  <2> QED
    BY <2>1, <2>2, Zenon DEF Code!ResolveNamePath, Code!Where, Code!Each, tries, a, b
<1> HIDE DEF hits, e
<1>5. CASE hits = <<>>
  BY <1>1, <1>3, <1>4, <1>5, PlainToSet
<1>6. CASE hits # <<>>
  <2>1. at.ok /\ at.id = GP!ID(hits[1][1])
    BY <1>4, <1>6, CodeSameIds
  <2>2. hits[1][1] \in ToSet(R.now) /\ hits[1][1].name = name
    BY <1>1, <1>3, <1>6, PlainToSet
  <2> QED
    BY <2>1, <2>2
<1> QED
  BY <1>5, <1>6

(* get_code_snippet shows rows of a declaration of the name.               *)
LEMMA SnippetOwed ==
  ASSUME NEW R, Graph!IsRepo(R), Graph!Filed(R), NEW pkg, NEW name, NEW range,
         \A d \in ToSet(R.now) : Graph!LeadsBack(R, d) /\ d.start \in Int /\ d.end \in Int /\ d.start < d.end,
         range # <<>> => range[1] \in Int /\ range[2] \in Int,
         NEW shown, shown = Code!GetCodeSnippet(R, pkg, name, range).shown
  PROVE  /\ range = <<>> => (shown.outcome = "text" <=> \E d \in ToSet(R.now) : d.name = name)
         /\ shown.outcome = "text" =>
              \E d \in ToSet(R.now) :
                d.name = name /\ shown.id = Graph!ID(d) /\ shown.rows[1] >= d.start /\ shown.rows[2] <= d.end
<1> DEFINE at == Code!ResolveNamePath(R, pkg, name)
<1>1. /\ at.ok <=> \E d \in ToSet(R.now) : d.name = name
      /\ at.ok => \E d \in ToSet(R.now) : d.name = name /\ at.id = GP!ID(d)
  BY NamePath
<1>2. shown = IF at.ok THEN Code!ReadSource(R, at.id, range) ELSE [outcome |-> "error"]
  <2> HIDE DEF at
  <2>1. CASE at.ok
    <3>1. Code!GetCodeSnippet(R, pkg, name, range) =
            [ambiguous |-> at.ambiguous, shown |-> Code!ReadSource(R, at.id, range)]
      BY <2>1, Zenon DEF Code!GetCodeSnippet, at
    <3> QED
      BY <2>1, <3>1
  <2>2. CASE ~at.ok
    <3>1. Code!GetCodeSnippet(R, pkg, name, range) = [ambiguous |-> 0, shown |-> [outcome |-> "error"]]
      BY <2>2, Zenon DEF Code!GetCodeSnippet, at
    <3> QED
      BY <2>2, <3>1
  <2> QED
    BY <2>1, <2>2
<1> HIDE DEF at
<1>3. CASE ~at.ok
  BY <1>1, <1>2, <1>3
<1>4. CASE at.ok
  <2>1. PICK c \in ToSet(R.now) : c.name = name /\ at.id = GP!ID(c)
    BY <1>1, <1>4
  <2> DEFINE d == GP!LocateSymbol(R, at.id)
             rows == Code!Rows(d, range)
             outcome == IF rows[1] < rows[2] THEN "text" ELSE IF rows[1] = rows[2] THEN "error" ELSE "panic"
  <2>2. d \in ToSet(R.now) /\ GP!Found(d) /\ GP!ID(d) = at.id
    BY <2>1, IdFound
  <2>3. d.name = name
    <3>1. GP!IsRepo(R) /\ GP!Decls(R) = ToSet(R.now)
      <4>1. Graph!Decls(R) = GP!Decls(R)
        BY GraphSameDecls
      <4> QED
        BY <4>1, GraphSameRepo
    <3>2. c.pkg \in Seq(GP!ToSet(c.pkg)) /\ d.pkg \in Seq(GP!ToSet(d.pkg))
      <4> HIDE DEF d
      <4> QED
        BY <2>2, <3>1 DEF GP!IsRepo, GP!IsSeq
    <3> HIDE DEF d
    <3> DEFINE S == GP!ToSet(c.pkg)
               T == GP!ToSet(d.pkg)
    <3> HIDE DEF S, T
    <3>3. c.name = d.name
      <4>1. c.pkg \in Seq(S) /\ d.pkg \in Seq(T) /\ GP!ID(c) = GP!ID(d)
        BY <2>1, <2>2, <3>2 DEF S, T
      <4> QED
        BY <4>1, GP!IdHasName
    <3> QED
      BY <2>1, <3>3
  <2>4. Code!LocateSymbol(R, at.id) = d /\ Code!Found(d)
    BY <2>2, CodeSameLocate, CodeSameFound
  <2> HIDE DEF d
  <2>5. shown = [outcome |-> outcome, id |-> at.id, rows |-> rows]
    BY <1>2, <1>4, <2>4, Zenon DEF Code!ReadSource
  <2>6. /\ rows[1] \in Int /\ rows[2] \in Int /\ rows[1] >= d.start /\ rows[2] <= d.end
        /\ range = <<>> => rows[1] < rows[2]
    <3>1. d.start \in Int /\ d.end \in Int /\ d.start < d.end
      BY <2>2
    <3>2. CASE range = <<>>
      <4>1. rows = <<d.start, d.end>>
        BY <3>2 DEF Code!Rows
      <4> QED
        BY <3>1, <4>1
    <3>3. CASE range # <<>>
      <4>1. rows = <<IF range[1] < d.start THEN d.start ELSE range[1], IF range[2] > d.end THEN d.end ELSE range[2]>>
        BY <3>3 DEF Code!Rows
      <4> QED
        BY <3>1, <3>3, <4>1
    <3> QED
      BY <3>2, <3>3
  <2> HIDE DEF rows
  <2>7. range = <<>> => outcome = "text"
    BY <2>6
  <2> HIDE DEF outcome
  <2>8. shown.outcome = outcome /\ shown.id = Graph!ID(d) /\ shown.rows = rows
    BY <2>2, <2>5, GraphSameId
  <2> QED
    BY <1>1, <1>4, <2>2, <2>3, <2>6, <2>7, <2>8
<1> QED
  BY <1>3, <1>4

(* A behaviour of the tools that take an id or a name.                     *)
NamesInv ==
  /\ part = "locate" =>
       /\ repo \in IdRepos /\ asked \in {Graph!ID(d) : d \in ToSet(repo.now)}
       /\ pc = "answered" => answer = Graph!LocateSymbol(repo, asked)
  /\ part = "symbols" =>
       /\ repo \in SymbolRepos /\ asked \in SymbolQuestions
       /\ pc = "answered" =>
            answer = [find |-> Code!FindSymbol(repo, asked.pkg, asked.names, asked.limit),
                      refs |-> Code!FindReferencingSymbols(repo, asked.names, asked.kinds, asked.limit),
                      snippet |-> Code!GetCodeSnippet(repo, asked.pkg, asked.name, asked.range)]

(* It holds at the start, ...                                              *)
LEMMA NamesStart == Init => NamesInv
  BY DEF Init, DiskInit, FilesInit, ServerInit, GraphInit, ToolInit, Asks, NamesInv

(* ... and every step keeps it: a reply is the tool's own answer.          *)
LEMMA NamesStep == NamesInv /\ [Next]_vars => NamesInv'
<1> SUFFICES ASSUME NamesInv, [Next]_vars, part' \in {"locate", "symbols"} PROVE NamesInv'
  BY DEF NamesInv
<1>1. CASE UNCHANGED vars
  BY <1>1 DEF vars, NamesInv
<1>2. CASE Next
  <2>1. Locate \/ Symbols
    BY <1>2 DEF Next, DiskNext, FilesNext, ServerNext, GraphNext, Replies, Edges, Locate, Architecture,
      Changes, Renames, Chunk, FindCode, Search, Symbols, Retrieve
  <2>2. CASE Locate
    <3>1. part = "locate" /\ part' = "locate" /\ repo' = repo /\ asked' = asked /\ answer' = Graph!LocateSymbol(repo, asked)
      BY <2>2, Zenon DEF Locate, Replies
    <3> QED
      BY <3>1, Zenon DEF NamesInv
  <2>3. CASE Symbols
    <3>1. /\ part = "symbols" /\ part' = "symbols" /\ repo' = repo /\ asked' = asked
          /\ answer' = [find |-> Code!FindSymbol(repo, asked.pkg, asked.names, asked.limit),
                        refs |-> Code!FindReferencingSymbols(repo, asked.names, asked.kinds, asked.limit),
                        snippet |-> Code!GetCodeSnippet(repo, asked.pkg, asked.name, asked.range)]
      BY <2>3, Zenon DEF Symbols, Replies
    <3> QED
      BY <3>1, Zenon DEF NamesInv
  <2> QED
    BY <2>1, <2>2, <2>3
<1> QED
  BY <1>1, <1>2

(* What a located id owes ...                                              *)
LEMMA LocateOwed ==
  ASSUME NamesInv, Answered("locate"), \A d \in Decls : Graph!ID(d) = asked => Graph!LeadsBack(repo, d)
  PROVE  Graph!Found(answer) /\ Graph!ID(answer) = asked
<1>1. /\ repo \in IdRepos /\ asked \in {Graph!ID(d) : d \in ToSet(repo.now)}
      /\ answer = Graph!LocateSymbol(repo, asked)
  BY DEF NamesInv, Answered
<1>2. PICK d \in ToSet(repo.now) : asked = Graph!ID(d)
  BY <1>1
<1>3. Graph!IsRepo(repo) /\ Graph!Filed(repo) /\ Graph!LeadsBack(repo, d)
  BY <1>1, <1>2, IndexAssumption DEF Decls
<1>4. answer = GP!LocateSymbol(repo, GP!ID(d))
  BY <1>1, <1>2, GraphSameLocate, GraphSameId
<1>5. GP!Found(answer) /\ GP!ID(answer) = GP!ID(d)
  BY <1>3, <1>4, IdFound
<1> QED
  BY <1>2, <1>5, GraphSameId

(* ... and what the tools that take a name owe.                            *)
LEMMA NamesOwed ==
  ASSUME NamesInv, Answered("symbols")
  PROVE  NamesLeadBack
<1> DEFINE most == IF asked.limit <= 0 THEN 20 ELSE asked.limit
           wanted == Graph!Where(repo.now, LAMBDA d : d.name \in asked.names /\ asked.pkg \in {<<>>, d.pkg})
           find == Code!FindSymbol(repo, asked.pkg, asked.names, asked.limit)
           refs == Code!FindReferencingSymbols(repo, asked.names, asked.kinds, asked.limit)
           shown == Code!GetCodeSnippet(repo, asked.pkg, asked.name, asked.range).shown
<1>1. /\ repo \in SymbolRepos /\ asked \in SymbolQuestions
      /\ answer.find = find /\ answer.refs = refs /\ answer.snippet.shown = shown
  BY DEF NamesInv, Answered
<1>2. /\ Graph!IsRepo(repo) /\ Graph!Filed(repo) /\ asked.limit \in Int
      /\ \A d \in ToSet(repo.now) : d.start \in Int /\ d.end \in Int /\ d.start < d.end
      /\ asked.range # <<>> => asked.range[1] \in Int /\ asked.range[2] \in Int
  BY <1>1, IndexAssumption
<1>3. /\ ToSet(wanted) = {c \in ToSet(repo.now) : c.name \in asked.names /\ asked.pkg \in {<<>>, c.pkg}}
      /\ ToSet(wanted) = {} <=> wanted = <<>>
      /\ asked.pkg # <<>> =>
           /\ [n \in DOMAIN find.found |-> find.found[n].id] =
                Graph!UpTo(most, [n \in DOMAIN wanted |-> Graph!ID(wanted[n])])
           /\ find.truncated <=> Len(wanted) > most
      /\ ~find.truncated => {n.id : n \in ToSet(find.found)} = {Graph!ID(d) : d \in ToSet(wanted)}
      /\ \A n \in ToSet(find.found) : \E d \in ToSet(repo.now) :
           n = [id |-> GP!ID(d), at |-> GP!LocateSymbol(repo, GP!ID(d))]
  <2>1. wanted = Wanted(repo, asked.pkg, asked.names)
    BY Zenon DEF Wanted, Graph!Where
  <2> HIDE DEF most, wanted, find
  <2>2. most = (IF asked.limit <= 0 THEN 20 ELSE asked.limit)
    BY Zenon DEF most
  <2>3. find = Code!FindSymbol(repo, asked.pkg, asked.names, asked.limit)
    BY Zenon DEF find
  <2>4. FindGives(repo, asked.pkg, asked.names, most, wanted, find)
    BY <1>2, <2>1, <2>2, <2>3, FindOwed
  <2> QED
    BY <2>4, Zenon DEF FindGives
<1> HIDE DEF most, wanted, find
<1>4. ASSUME AllKnown PROVE \A n \in ToSet(find.found) : Graph!Found(n.at) /\ Graph!ID(n.at) = n.id
  <2> TAKE n \in ToSet(find.found)
  <2>1. PICK d \in ToSet(repo.now) : n = [id |-> GP!ID(d), at |-> GP!LocateSymbol(repo, GP!ID(d))]
    BY <1>3
  <2>2. Graph!LeadsBack(repo, d)
    BY <1>4 DEF AllKnown, Decls
  <2>3. GP!Found(GP!LocateSymbol(repo, GP!ID(d))) /\ GP!ID(GP!LocateSymbol(repo, GP!ID(d))) = GP!ID(d)
    BY <1>2, <2>2, IdFound
  <2>4. n.id = GP!ID(d) /\ n.at = GP!LocateSymbol(repo, GP!ID(d))
    BY <2>1
  <2> QED
    BY <2>3, <2>4, GraphSameId
<1>5. ASSUME AllKnown, asked.pkg = <<>> PROVE refs.ok <=> wanted # <<>>
  <2>1. refs.ok <=> \E d \in ToSet(repo.now) : d.name \in asked.names
    BY <1>2, <1>5, RefsOwed DEF AllKnown, Decls
  <2>2. ToSet(wanted) = {} <=> wanted = <<>>
    BY <1>3
  <2>3. ToSet(wanted) = {c \in ToSet(repo.now) : c.name \in asked.names}
    BY <1>3, <1>5
  <2> QED
    BY <2>1, <2>2, <2>3
<1>6. ASSUME AllKnown
      PROVE  /\ asked.range = <<>> => (shown.outcome = "text" <=> \E d \in Decls : d.name = asked.name)
             /\ shown.outcome = "text" =>
                  \E d \in Decls :
                    d.name = asked.name /\ shown.id = Graph!ID(d) /\ shown.rows[1] >= d.start /\ shown.rows[2] <= d.end
  BY <1>2, <1>6, SnippetOwed DEF AllKnown, Decls
<1> HIDE DEF refs, shown
<1> QED
  BY <1>1, <1>3, <1>4, <1>5, <1>6 DEF NamesLeadBack, most, wanted

(* The ids and names of declarations lead back to them: locating,          *)
(* find_symbol, find_referencing_symbols and get_code_snippet.             *)
THEOREM NamesAreFound == Spec => []LocateInverts
<1>1. NamesInv => LocateInverts
  BY LocateOwed, NamesOwed DEF LocateInverts
<1> QED
  BY <1>1, NamesStart, NamesStep, PTL DEF Spec

=============================================================================
