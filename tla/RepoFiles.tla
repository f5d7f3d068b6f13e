------------------------------ MODULE RepoFiles ------------------------------
(***************************************************************************)
(* The parsed files of a warm repo (store.Repo.CachedFile) and the LRU in  *)
(* front of them (cache.GetFile, PutFile), read by the requests of one     *)
(* daemon while an editor changes the tree.  Each lock is held for one     *)
(* step and no longer; os.Stat, the parse and the two stores that follow   *)
(* are steps of their own.                                                 *)
(*                                                                         *)
(* A version stands for the content of a file, and for its mtime.          *)
(***************************************************************************)
EXTENDS Integers, Sequences, FiniteSets, SequencesExt

CONSTANTS
  Paths,    \* files of the repo
  Readers,  \* goroutines that serve requests
  FileCap,  \* capacity of the LRU
  MaxEdits  \* bound: writes and removals by the editor

RepoFilesAssumption ==
  FileCap \in Nat \ {0} /\ MaxEdits \in Nat /\ Paths # {}

VARIABLES
  tree,    \* version of each file on disk, 0 when removed
  lru,     \* fileOrder: entries, most recently used first
  files,   \* r.files: the parsed file per path
  syms,    \* r.symbolsByPath: version the symbols were extracted from
  pc, cur, \* a reader: its step and the file it has at hand
  began,   \* version on disk as its call began (history)
  edits    \* what is left of MaxEdits

vars == <<tree, lru, files, syms, pc, cur, began, edits>>

Versions == 0..(MaxEdits + 1)
File == [path : Paths, mtime : Versions, bytes : Versions]
At(p, m) == [path |-> p, mtime |-> m, bytes |-> 0]

(* Load has filled files and syms, not the LRU. *)
Init ==
  /\ tree = [p \in Paths |-> 1]
  /\ lru = <<>>
  /\ files = [p \in Paths |-> [path |-> p, mtime |-> 1, bytes |-> 1]]
  /\ syms = [p \in Paths |-> 1]
  /\ pc = [r \in Readers |-> "idle"]
  /\ cur \in [Readers -> {At(CHOOSE p \in Paths : TRUE, 0)}]
  /\ began = [r \in Readers |-> 0]
  /\ edits = MaxEdits

Go(r, step) == pc' = [pc EXCEPT ![r] = step]
Have(r, f) == cur' = [cur EXCEPT ![r] = f]

(***************************************************************************)
(* The LRU.  c.files gives the element of a path.                          *)
(***************************************************************************)
Cached(p) == \E i \in DOMAIN lru : lru[i].path = p
Slot(p) == CHOOSE i \in DOMAIN lru : lru[i].path = p
Without(p) == IF Cached(p) THEN RemoveAt(lru, Slot(p)) ELSE lru
(* Mutant: the mtime is not compared. *)
AlwaysCurrent(f, m) == TRUE
Current(f, m) == f.mtime = m
Hit(p, m) == Cached(p) /\ Current(lru[Slot(p)], m)

(* GetFile: a stale entry is dropped, a good one moves to the front. *)
GetFile(p, m) == lru' = IF Hit(p, m) THEN <<lru[Slot(p)]>> \o Without(p) ELSE Without(p)

(* PutFile: an insertion that makes the list too long drops the last. *)
PutFile(f) ==
  LET longer == <<f>> \o Without(f.path)
  IN lru' = IF ~Cached(f.path) /\ Len(longer) > FileCap THEN Front(longer) ELSE longer

(***************************************************************************)
(* CachedFile.                                                             *)
(***************************************************************************)
Call(r, p) ==
  /\ pc[r] = "idle"
  /\ began' = [began EXCEPT ![r] = tree[p]]
  /\ Have(r, At(p, 0)) /\ Go(r, "stat")
  /\ UNCHANGED <<tree, lru, files, syms, edits>>

(* A file that is gone is ErrNotFound. *)
StatFile(r) ==
  /\ pc[r] = "stat"
  /\ LET p == cur[r].path
     IN IF tree[p] = 0 THEN Go(r, "idle") /\ UNCHANGED cur
                       ELSE Have(r, At(p, tree[p])) /\ Go(r, "lru")
  /\ UNCHANGED <<tree, lru, files, syms, began, edits>>

TryCache(r) ==
  /\ pc[r] = "lru"
  /\ LET p == cur[r].path m == cur[r].mtime
     IN /\ GetFile(p, m)
        /\ IF Hit(p, m)
             THEN Have(r, lru[Slot(p)]) /\ Go(r, "return")
             ELSE Go(r, "resident") /\ UNCHANGED cur
  /\ UNCHANGED <<tree, files, syms, began, edits>>

(* The map that Load has filled, under the read lock. *)
TryResident(r) ==
  /\ pc[r] = "resident"
  /\ LET f == files[cur[r].path]
     IN IF Current(f, cur[r].mtime)
          THEN Have(r, f) /\ Go(r, "put")
          ELSE Go(r, "loadstat") /\ UNCHANGED cur
  /\ UNCHANGED <<tree, lru, files, syms, began, edits>>

(* source.LoadFile: stat, then read. *)
LoadStat(r) ==
  /\ pc[r] = "loadstat"
  /\ LET p == cur[r].path
     IN IF tree[p] = 0 THEN Go(r, "idle") /\ UNCHANGED cur
                       ELSE Have(r, At(p, tree[p])) /\ Go(r, "read")
  /\ UNCHANGED <<tree, lru, files, syms, began, edits>>

ReadFile(r) ==
  /\ pc[r] = "read"
  /\ LET p == cur[r].path
     IN IF tree[p] = 0 THEN Go(r, "idle") /\ UNCHANGED cur
                       ELSE Have(r, [cur[r] EXCEPT !.bytes = tree[p]]) /\ Go(r, "putnew")
  /\ UNCHANGED <<tree, lru, files, syms, began, edits>>

Put(r) ==
  /\ pc[r] \in {"put", "putnew"}
  /\ PutFile(cur[r])
  /\ Go(r, IF pc[r] = "put" THEN "return" ELSE "store")
  /\ UNCHANGED <<tree, files, syms, cur, began, edits>>

(* r.files and r.symbolsByPath, under the lock; the symbols stay as they   *)
(* are when their extraction fails, which nothing here depends on.         *)
Store(r) ==
  /\ pc[r] = "store"
  /\ files' = [files EXCEPT ![cur[r].path] = cur[r]]
  /\ syms' = [syms EXCEPT ![cur[r].path] = cur[r].bytes]
  /\ Go(r, "return")
  /\ UNCHANGED <<tree, lru, cur, began, edits>>

Return(r) ==
  /\ pc[r] = "return"
  /\ Go(r, "idle") /\ began' = [began EXCEPT ![r] = 0]
  /\ Have(r, At(cur[r].path, 0))
  /\ UNCHANGED <<tree, lru, files, syms, edits>>

Edit(p) ==
  /\ edits > 0 /\ edits' = edits - 1 /\ tree[p] # 0
  /\ tree' \in {[tree EXCEPT ![p] = @ + 1], [tree EXCEPT ![p] = 0]}
  /\ UNCHANGED <<lru, files, syms, pc, cur, began>>

Next ==
  \/ \E r \in Readers :
       \/ \E p \in Paths : Call(r, p)
       \/ StatFile(r) \/ TryCache(r) \/ TryResident(r) \/ LoadStat(r)
       \/ ReadFile(r) \/ Put(r) \/ Store(r) \/ Return(r)
  \/ \E p \in Paths : Edit(p)

Spec == Init /\ [][Next]_vars

(***************************************************************************)
(* Properties.                                                             *)
(***************************************************************************)

TypeOK ==
  /\ tree \in [Paths -> Versions] /\ syms \in [Paths -> Versions] /\ edits \in 0..MaxEdits
  /\ lru \in Seq(File) /\ files \in [Paths -> File]
  /\ pc \in [Readers -> {"idle", "stat", "lru", "resident", "loadstat", "read", "put", "putnew",
                         "store", "return"}]
  /\ cur \in [Readers -> File] /\ began \in [Readers -> Versions]

(* CachedFile never answers with a content older than the file was when    *)
(* the call began, although the mtime is taken before the content is read, *)
(* and readers put files of different ages into the LRU and into r.files   *)
(* in any order.                                                           *)
AnswersFresh ==
  \A r \in Readers : pc[r] = "return" => cur[r].bytes >= began[r]

(* The LRU holds at most FileCap files, one per path: what two readers     *)
(* hold at once may exceed it, what the cache holds may not (cache.go).    *)
LruBounded ==
  /\ Len(lru) <= FileCap
  /\ \A i, j \in DOMAIN lru : lru[i].path = lru[j].path => i = j

(* The symbols of a path are as new as its file in the LRU.  No run checks *)
(* it: it does not hold, see README.                                       *)
SymbolsFollow ==
  (\A r \in Readers : pc[r] = "idle") =>
    \A i \in DOMAIN lru : syms[lru[i].path] >= lru[i].bytes

=============================================================================
