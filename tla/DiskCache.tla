------------------------------ MODULE DiskCache ------------------------------
(***************************************************************************)
(* The disk cache of parsed files (internal/cache/disk.go) under the walk  *)
(* of store.Load, its one caller.  Loaders are processes, or goroutines of *)
(* one daemon, that load the same project at once: they share the cache    *)
(* directory and no lock.  An editor changes the tree meanwhile.           *)
(*                                                                         *)
(* A file's content is its version, and its mtime is the version that was  *)
(* current at the stat, so "newer" is ">".  An entry of the directory is   *)
(* an inode: os.WriteFile truncates and writes whatever inode the shared   *)
(* temporary name has, also one that a rename has moved to a key.          *)
(***************************************************************************)
EXTENDS Integers, Sequences, FiniteSets, SequencesExt

CONSTANTS
  Paths,      \* source files, numbered in the order of the walk
  Loaders,    \* processes that load the project
  Cap,        \* WithMaxBytes; an entry of version v has v bytes
  Bounds      \* [loads, faults, edits]: how often each may happen

DiskCacheAssumption ==
  /\ Paths \subseteq Nat \ {0} /\ IsFiniteSet(Paths) /\ IsFiniteSet(Loaders)
  /\ Cap \in Nat \ {0} /\ Bounds \in [loads : Nat, faults : Nat, edits : Nat]

VARIABLES
  tree,     \* version of each source file, 0 when it is removed
  key,      \* <dir>/<sha256(path)>: inode of the entry, 0 for none
  tmp,      \* the same name with ".tmp"
  content,  \* what each inode holds
  recent,   \* inodes with a name or a handle, least recently written first
  pc, todo, cur, fd, scan, total, \* a loader: step, files left, file at hand,
            \* open handle, entries scanned and not yet evicted, their size
  files,    \* r.files of the repo it loads: version of each file, 0 for none
  from,     \* the tree as the load began (history)
  unswept,  \* a Put has ended without its eviction pass, none has run since
  left      \* what is left of Bounds

vars == <<tree, key, tmp, content, recent, pc, todo, cur, fd, scan, total,
          files, from, unswept, left>>
loader == <<todo, cur, fd, scan, total, files, from>>
dir == <<key, tmp, content, recent>>

MaxVersion == 1 + Bounds.edits
Inodes == 1..(2 * Cardinality(Paths) + Cardinality(Loaders))
Empty == [mtime |-> 0, bytes |-> 0, size |-> 0]
NoFile == [path |-> 0, mtime |-> 0, bytes |-> 0]
None == [p \in Paths |-> 0]
Putting == {"open", "write", "rename", "scan", "evict"}

TypeOK ==
  /\ tree \in [Paths -> 0..MaxVersion]
  /\ key \in [Paths -> Inodes \cup {0}] /\ tmp \in [Paths -> Inodes \cup {0}]
  /\ content \in [Inodes -> [mtime : 0..MaxVersion, bytes : 0..MaxVersion, size : 0..MaxVersion]]
  /\ recent \in Seq(Inodes)
  /\ pc \in [Loaders -> {"idle", "walk", "get", "stat", "read", "record", "done"} \cup Putting]
  /\ todo \in [Loaders -> SUBSET Paths]
  /\ cur \in [Loaders -> [path : Paths \cup {0}, mtime : 0..MaxVersion, bytes : 0..MaxVersion]]
  /\ fd \in [Loaders -> Inodes \cup {0}]
  /\ scan \in [Loaders -> Seq(Paths \X (0..MaxVersion))] /\ total \in [Loaders -> Nat]
  /\ files \in [Loaders -> [Paths -> 0..MaxVersion]]
  /\ from \in [Loaders -> [Paths -> 0..MaxVersion]]
  /\ unswept \in BOOLEAN
  /\ left \in [loads : 0..Bounds.loads, faults : 0..Bounds.faults, edits : 0..Bounds.edits]
  (* No inode has two names. *)
  /\ \A p, q \in Paths : key[p] # 0 => key[p] # tmp[q] /\ (p # q => key[p] # key[q])

Init ==
  /\ tree = [p \in Paths |-> 1]
  /\ key = None /\ tmp = None
  /\ content = [i \in Inodes |-> Empty] /\ recent = <<>>
  /\ pc = [l \in Loaders |-> "idle"]
  /\ todo = [l \in Loaders |-> {}] /\ cur = [l \in Loaders |-> NoFile]
  /\ fd = [l \in Loaders |-> 0]
  /\ scan = [l \in Loaders |-> <<>>] /\ total = [l \in Loaders |-> 0]
  /\ files = [l \in Loaders |-> None] /\ from = [l \in Loaders |-> None]
  /\ unswept = FALSE
  /\ left = Bounds

(***************************************************************************)
(* Inodes.  One without a name or an open handle is gone.                  *)
(***************************************************************************)
Used == (Range(key) \cup Range(tmp) \cup Range(fd)) \ {0}
Fresh == Min(Inodes \ Used)
Only(s, S) == FoldLeft(LAMBDA kept, e : IF e \in S THEN Append(kept, e) ELSE kept, <<>>, s)
Written(i) == Append(Only(recent, Inodes \ {i}), i)

(* The names and handles have changed: contents c, order of writing r. *)
Collect(c, r) ==
  /\ content' = [i \in Inodes |-> IF i \in Used' THEN c[i] ELSE Empty]
  /\ recent' = Only(r, Used')

Decodes(i) == i # 0 /\ content[i].mtime # 0
Sizes == [p \in Paths |-> IF key[p] = 0 THEN 0 ELSE content[key[p]].size]
Total == SumFunction(Sizes)

(***************************************************************************)
(* The walk.                                                               *)
(***************************************************************************)
Spend(what) == left[what] > 0 /\ left' = [left EXCEPT ![what] = @ - 1]
Go(l, step) == pc' = [pc EXCEPT ![l] = step]
Path(l) == cur[l].path

Begin(l) ==
  /\ pc[l] \in {"idle", "done"}
  /\ todo' = [todo EXCEPT ![l] = {p \in Paths : tree[p] # 0}]
  /\ from' = [from EXCEPT ![l] = tree]
  /\ files' = [files EXCEPT ![l] = None]
  /\ Go(l, "walk")
  /\ Spend("loads")
  /\ UNCHANGED <<tree, dir, cur, fd, scan, total, unswept>>

(* The next file: os.Stat, and the disk cache only when that succeeds. *)
Visit(l) ==
  /\ pc[l] = "walk" /\ todo[l] # {}
  /\ LET p == Min(todo[l])
     IN /\ cur' = [cur EXCEPT ![l] = [path |-> p, mtime |-> tree[p], bytes |-> 0]]
        /\ Go(l, IF tree[p] = 0 THEN "stat" ELSE "get")
  /\ UNCHANGED <<tree, dir, todo, fd, scan, total, files, from, unswept, left>>

(* Does the entry answer a Get with this mtime?  (Mutant: it does not look.) *)
MatchesAny(i, mtime) == Decodes(i)
Matches(i, mtime) == Decodes(i) /\ content[i].mtime = mtime

(* DiskCache.Get. *)
Get(l) ==
  /\ pc[l] = "get"
  /\ LET i == key[Path(l)]
     IN IF Matches(i, cur[l].mtime)
          THEN cur' = [cur EXCEPT ![l].bytes = content[i].bytes] /\ Go(l, "record")
          ELSE Go(l, "stat") /\ UNCHANGED cur
  /\ UNCHANGED <<tree, dir, todo, fd, scan, total, files, from, unswept, left>>

(* The file is not recorded: the walk goes on without it. *)
Skip(l) ==
  /\ cur' = [cur EXCEPT ![l] = NoFile]
  /\ todo' = [todo EXCEPT ![l] = @ \ {Path(l)}]
  /\ Go(l, "walk")
  /\ UNCHANGED <<tree, dir, fd, scan, total, files, from, unswept>>

(* source.LoadFile takes the mtime first and reads then. *)
Stat(l) ==
  /\ pc[l] = "stat" /\ tree[Path(l)] # 0
  /\ cur' = [cur EXCEPT ![l].mtime = tree[Path(l)]]
  /\ Go(l, "read")
  /\ UNCHANGED <<tree, dir, todo, fd, scan, total, files, from, unswept, left>>

Read(l) ==
  /\ pc[l] = "read" /\ tree[Path(l)] # 0
  /\ cur' = [cur EXCEPT ![l].bytes = tree[Path(l)]]
  /\ Go(l, "open")
  /\ UNCHANGED <<tree, dir, todo, fd, scan, total, files, from, unswept, left>>

(* LoadFile fails: the file is gone, too large, unreadable or unparsable. *)
Refuse(l) ==
  /\ pc[l] \in {"stat", "read"} /\ Skip(l)
  /\ IF tree[Path(l)] = 0 THEN UNCHANGED left ELSE Spend("faults")

(***************************************************************************)
(* DiskCache.Put, whose error Load ignores.                                *)
(***************************************************************************)
GiveUp(l) == Go(l, "record") /\ unswept' = TRUE

Open(l) ==
  /\ pc[l] = "open"
  /\ LET p == Path(l)
         i == IF tmp[p] = 0 THEN Fresh ELSE tmp[p]
     IN /\ tmp' = [tmp EXCEPT ![p] = i]
        /\ fd' = [fd EXCEPT ![l] = i]
        /\ content' = [content EXCEPT ![i] = Empty]
        /\ recent' = Written(i)
  /\ Go(l, "write")
  /\ UNCHANGED <<tree, key, todo, cur, scan, total, files, from, unswept, left>>

OpenFails(l) ==
  pc[l] = "open" /\ Spend("faults") /\ GiveUp(l) /\ UNCHANGED <<tree, dir, loader>>

(* One write at offset 0: a longer content that another writer has put in  *)
(* the inode keeps its tail, which the decoder never reads.                *)
Write(l) ==
  /\ pc[l] = "write"
  /\ LET i == fd[l]
         whole == [mtime |-> cur[l].mtime, bytes |-> cur[l].bytes,
                   size |-> Max({cur[l].bytes, content[i].size})]
         part == [Empty EXCEPT !.size = Max({1, content[i].size})]
     IN /\ fd' = [fd EXCEPT ![l] = 0]
        /\ UNCHANGED <<tree, key, tmp, todo, cur, scan, total, files, from>>
        /\ \/ Collect([content EXCEPT ![i] = whole], Written(i))
              /\ Go(l, "rename") /\ UNCHANGED <<unswept, left>>
           \/ Collect([content EXCEPT ![i] = part], Written(i))
              /\ Spend("faults") /\ GiveUp(l)

(* Mutant: the entry is a link, and the temporary name stays. *)
LinkIn(l) ==
  /\ pc[l] = "rename" /\ tmp[Path(l)] # 0
  /\ key' = [key EXCEPT ![Path(l)] = tmp[Path(l)]]
  /\ Go(l, "scan")
  /\ UNCHANGED <<tree, tmp, content, recent, loader, unswept, left>>

(* Whatever the temporary name holds now becomes the entry. *)
Rename(l) ==
  LET p == Path(l)
  IN /\ pc[l] = "rename" /\ tmp[p] # 0
     /\ key' = [key EXCEPT ![p] = tmp[p]]
     /\ tmp' = [tmp EXCEPT ![p] = 0]
     /\ Go(l, "scan")
     /\ UNCHANGED <<tree, loader, unswept, left>>
     /\ Collect(content, recent)

(* The name is gone, by another's rename, or rename fails: it is removed. *)
RenameFails(l) ==
  /\ pc[l] = "rename"
  /\ IF tmp[Path(l)] = 0 THEN UNCHANGED left ELSE Spend("faults")
  /\ tmp' = [tmp EXCEPT ![Path(l)] = 0]
  /\ GiveUp(l)
  /\ UNCHANGED <<tree, key, loader>>
  /\ Collect(content, recent)

(* The entries, least recently written first, with their sizes. *)
Entries ==
  LET keyed == Only(recent, Range(key))
      PathOf(i) == CHOOSE p \in Paths : key[p] = i
  IN [n \in DOMAIN keyed |-> <<PathOf(keyed[n]), content[keyed[n]].size>>]

(* Mutant: off by one. *)
OverBudgetByOne(n) == n > Cap + 1
OverBudget(n) == n > Cap

Scan(l) ==
  /\ pc[l] = "scan"
  /\ IF OverBudget(Total)
       THEN /\ scan' = [scan EXCEPT ![l] = Entries]
            /\ total' = [total EXCEPT ![l] = Total]
            /\ Go(l, "evict")
       ELSE Go(l, "record") /\ UNCHANGED <<scan, total>>
  /\ unswept' = FALSE
  /\ UNCHANGED <<tree, dir, todo, cur, fd, files, from, left>>

(* One turn of the loop of evictIfOverBudget; a removal that fails, because *)
(* the entry is gone, takes nothing off the total.                          *)
Evict(l) ==
  /\ pc[l] = "evict"
  /\ UNCHANGED <<tree, todo, cur, fd, files, from, unswept, left>>
  /\ IF scan[l] = <<>> \/ ~OverBudget(total[l])
       THEN /\ scan' = [scan EXCEPT ![l] = <<>>]
            /\ total' = [total EXCEPT ![l] = 0]
            /\ Go(l, "record")
            /\ UNCHANGED dir
       ELSE LET p == Head(scan[l])[1]
            IN /\ scan' = [scan EXCEPT ![l] = Tail(@)]
               /\ total' = [total EXCEPT ![l] = IF key[p] = 0 THEN @ ELSE @ - Head(scan[l])[2]]
               /\ key' = [key EXCEPT ![p] = 0]
               /\ UNCHANGED tmp /\ Collect(content, recent)
               /\ UNCHANGED pc

(* r.files[path] = f. *)
Record(l) ==
  /\ pc[l] = "record"
  /\ files' = [files EXCEPT ![l][Path(l)] = cur[l].bytes]
  /\ cur' = [cur EXCEPT ![l] = NoFile]
  /\ todo' = [todo EXCEPT ![l] = @ \ {Path(l)}]
  /\ Go(l, "walk")
  /\ UNCHANGED <<tree, dir, fd, scan, total, from, unswept, left>>

(* EvictOrphans, at the end of the walk. *)
Sweep(l) ==
  /\ pc[l] = "walk" /\ todo[l] = {}
  /\ key' = [p \in Paths |-> IF files[l][p] = 0 THEN 0 ELSE key[p]]
  /\ Go(l, "done")
  /\ UNCHANGED <<tree, tmp, loader, unswept, left>>
  /\ Collect(content, recent)

(***************************************************************************)
(* The environment.                                                        *)
(***************************************************************************)
Crash(l) ==
  /\ pc[l] \notin {"idle", "done"} /\ Spend("faults")
  /\ unswept' = (unswept \/ pc[l] \in Putting)
  /\ Go(l, "idle")
  /\ todo' = [todo EXCEPT ![l] = {}] /\ cur' = [cur EXCEPT ![l] = NoFile]
  /\ fd' = [fd EXCEPT ![l] = 0]
  /\ scan' = [scan EXCEPT ![l] = <<>>] /\ total' = [total EXCEPT ![l] = 0]
  /\ files' = [files EXCEPT ![l] = None] /\ from' = [from EXCEPT ![l] = None]
  /\ UNCHANGED <<tree, key, tmp>> /\ Collect(content, recent)

Edit(p) ==
  /\ tree[p] # 0 /\ Spend("edits")
  /\ tree' = [tree EXCEPT ![p] = @ + 1]
  /\ UNCHANGED <<dir, pc, loader, unswept>>

Unlink(p) ==
  /\ tree[p] # 0 /\ Spend("edits")
  /\ tree' = [tree EXCEPT ![p] = 0]
  /\ UNCHANGED <<dir, pc, loader, unswept>>

Next ==
  \/ \E l \in Loaders :
       \/ Begin(l) \/ Visit(l) \/ Get(l) \/ Stat(l) \/ Read(l) \/ Refuse(l)
       \/ Open(l) \/ OpenFails(l) \/ Write(l) \/ Rename(l) \/ RenameFails(l)
       \/ Scan(l) \/ Evict(l) \/ Record(l) \/ Sweep(l) \/ Crash(l)
  \/ \E p \in Paths : Edit(p) \/ Unlink(p)

Spec == Init /\ [][Next]_vars

(***************************************************************************)
(* Properties.                                                             *)
(***************************************************************************)

(* What a load records of a file is at least as new as the file was when   *)
(* the load began, whoever wrote the entry it came from, with whichever    *)
(* interleaving of truncate, write and rename on the shared name.          *)
LoadedIsCurrent ==
  \A l \in Loaders, p \in Paths : files[l][p] # 0 => files[l][p] >= from[l][p]

(* After the last of several concurrent Puts the directory is within its   *)
(* cap, as long as that Put has reached its eviction pass: neither a loader *)
(* that crashed between rename and eviction nor one whose rename failed    *)
(* because another had moved the shared name can leave it over for longer  *)
(* than until the next Put.                                                *)
BudgetKept ==
  (~unswept /\ \A l \in Loaders : pc[l] \notin Putting) => Total <= Cap

=============================================================================
