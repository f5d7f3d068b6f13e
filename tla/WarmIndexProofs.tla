-------------------------- MODULE WarmIndexProofs --------------------------
(***************************************************************************)
(* Proofs about WarmIndex, for every set of paths, workers and repos, every *)
(* clock bound, and with or without the restrictions QuietLoads and        *)
(* DrainFirst.                                                             *)
(***************************************************************************)
EXTENDS WarmIndex, TLAPS

(***************************************************************************)
(* The inductive invariant.  WarmEntriesLive, NoOrphanedServers and        *)
(* UnpinnedIsPrivate are not inductive: that a Put or a Close reaps nothing *)
(* else depends on who holds an unpinned repo, and where in its handler.   *)
(***************************************************************************)

(* A pinned repo is the entry of its own path.                              *)
PinnedIndexed == \A r \in pinned : index[home[r]] = r

(* Between store.Load and Index.Put a repo belongs to the request alone.    *)
LoadedByOne ==
  \A w \in Workers : pc[w] \in {"fetch", "insert"} =>
    /\ held[w] \in live
    /\ held[w] \notin pinned
    /\ home[held[w]] = arg[w]
    /\ \A v \in Workers : held[v] = held[w] => v = w

(* A handler that uses or describes a repo has one.                         *)
HandsFull ==
  \A w \in Workers : pc[w] \in {"fetch", "insert", "use", "stamp", "upsert"} => held[w] \in Repos

(* A repo that runs unpinned is held by one request that has yet to close it. *)
PrivateHeld ==
  \A r \in live : r \notin pinned =>
    \E w \in Workers : /\ pc[w] \in {"fetch", "insert", "use"}
                       /\ \A v \in Workers : held[v] = r <=> v = w

IInv == TypeOK /\ WarmEntriesLive /\ PinnedIndexed /\ LoadedByOne /\ HandsFull /\ PrivateHeld

-----------------------------------------------------------------------------
(* The path a handler's arg is reset to is one of the paths.                *)
LEMMA AnyPathType == AnyPath \in Paths
  BY PathsAssumption, Zenon DEF AnyPath

(* A handler that returns leaves well-typed local state: what every action  *)
(* that ends a request needs.                                               *)
LEMMA ReturnType ==
  ASSUME TypeOK, NEW w \in Workers, Return(w)
  PROVE  /\ pc' \in [Workers -> Labels]
         /\ op' \in [Workers -> Ops]
         /\ arg' \in [Workers -> Paths]
         /\ held' \in [Workers -> Repos \cup {NoRepo}]
         /\ handle' \in [Workers -> BOOLEAN]
         /\ at' \in [Workers -> Times]
  BY AnyPathType, ClockAssumption DEF Return, Goto, TypeOK, Labels, Ops, Times

(* The initial state is well typed.                                         *)
LEMMA TypeInit == Init => TypeOK
  BY AnyPathType, ClockAssumption DEF Init, TypeOK, Labels, Ops, Times, NoEntries

(* No step of any request, editor or shutdown leaves the types.             *)
LEMMA TypeStep == TypeOK /\ HandsFull /\ [Next]_vars => TypeOK'
<1> SUFFICES ASSUME TypeOK, HandsFull, [Next]_vars PROVE TypeOK'
  OBVIOUS
<1> USE ClockAssumption, NoRepoAssumption
<1>1. ASSUME NEW p \in Paths, Edit(p) \/ Remove(p) PROVE TypeOK'
  BY <1>1 DEF Edit, Remove, TypeOK, Times, disk, heap, local
<1>2. ASSUME NEW w \in Workers, NEW o \in Ops, NEW p \in Paths, Start(w, o, p) PROVE TypeOK'
  <2>1. pc' \in [Workers -> Labels]
    BY <1>2 DEF Start, Goto, TypeOK, Labels
  <2> QED
    BY <1>2, <2>1 DEF Start, TypeOK, tree, disk, heap
<1>3. ASSUME NEW w \in Workers, CheckRow(w) \/ Fail(w) PROVE TypeOK'
  <2>1. CASE Return(w) /\ UNCHANGED <<tree, disk, heap, index, daemon>>
    BY <2>1, ReturnType DEF TypeOK, tree, disk, heap
  <2>2. CASE Goto(w, "for") /\ UNCHANGED <<tree, disk, heap, index, daemon, local>>
    BY <2>2 DEF Goto, TypeOK, Labels, tree, disk, heap, local
  <2> QED
    BY <1>3, <2>1, <2>2 DEF CheckRow, Fail
<1>4. ASSUME NEW w \in Workers, LookupIndex(w) PROVE TypeOK'
  <2>1. CASE Return(w)
    BY <1>4, <2>1, ReturnType DEF LookupIndex, TypeOK, tree, disk, heap
  <2>2. CASE (Goto(w, "get") \/ Goto(w, "open")) /\ UNCHANGED local
    BY <1>4, <2>2 DEF LookupIndex, Goto, TypeOK, Labels, tree, disk, heap, local
  <2> QED
    BY <1>4, <2>1, <2>2 DEF LookupIndex
<1>5. ASSUME NEW w \in Workers, Get(w) PROVE TypeOK'
  <2>1. CASE Return(w)
    BY <1>5, <2>1, ReturnType DEF Get, TypeOK, tree, disk, heap
  <2>2. CASE Goto(w, "use") /\ held' = [held EXCEPT ![w] = index[arg[w]]]
                           /\ UNCHANGED <<op, arg, handle, at>>
    BY <1>5, <2>2 DEF Get, Goto, TypeOK, Labels, tree, disk, heap
  <2>3. CASE Goto(w, "open") /\ UNCHANGED local
    BY <1>5, <2>3 DEF Get, Goto, TypeOK, Labels, tree, disk, heap, local
  <2> QED
    BY <1>5, <2>1, <2>2, <2>3 DEF Get
<1>6. ASSUME NEW w \in Workers, Open(w) PROVE TypeOK'
  BY <1>6 DEF Open, Goto, TypeOK, Labels, tree, heap, local
<1>7. ASSUME NEW w \in Workers, Read(w) PROVE TypeOK'
  BY <1>7 DEF Read, Free, Goto, TypeOK, Labels, tree, disk
<1>8. ASSUME NEW w \in Workers, Fetch(w) \/ EvictFetch(w) PROVE TypeOK'
  BY <1>8 DEF Fetch, EvictFetch, Goto, TypeOK, Labels, tree, disk, heap
<1>9. ASSUME NEW w \in Workers, Stamp(w) PROVE TypeOK'
  BY <1>9 DEF Stamp, Now, Goto, TypeOK, Labels, tree, disk, heap
<1>10. ASSUME NEW w \in Workers, Upsert(w) PROVE TypeOK'
  <2>1. content[held[w]] \in Times /\ at[w] \in Times
    BY <1>10 DEF Upsert, HandsFull, TypeOK
  <2> QED
    BY <1>10, <2>1, ReturnType DEF Upsert, RowTime, TypeOK, tree, heap
<1>11. ASSUME NEW w \in Workers, Insert(w) PROVE TypeOK'
  BY <1>11 DEF Insert, PutPinned, PutLive, PutEntry, HandsFull, Goto, TypeOK, Labels, tree, disk, local
<1>12. ASSUME NEW w \in Workers, Use(w) PROVE TypeOK'
  <2>1. live' \subseteq Repos
    BY <1>12 DEF Use, CloseRepo, TypeOK
  <2>2. CASE Return(w)
    BY <1>12, <2>1, <2>2, ReturnType DEF Use, TypeOK, tree, disk
  <2>3. CASE Goto(w, "stamp") /\ UNCHANGED local
    BY <1>12, <2>1, <2>3 DEF Use, Goto, TypeOK, Labels, tree, disk, local
  <2> QED
    BY <1>12, <2>2, <2>3 DEF Use
<1>13. ASSUME NEW w \in Workers, IxRow(w) PROVE TypeOK'
  <2>1. pc' \in [Workers -> Labels] /\ at' \in [Workers -> Times]
    BY <1>13 DEF IxRow, Goto, TypeOK, Labels
  <2> QED
    BY <1>13, <2>1 DEF IxRow, TypeOK, tree, disk, heap
<1>14. ASSUME NEW w \in Workers, IxFresh(w) PROVE TypeOK'
  <2>1. pc' \in [Workers -> Labels] /\ op' \in [Workers -> Ops] /\ at' \in [Workers -> Times]
    BY <1>14 DEF IxFresh, Goto, TypeOK, Labels, Ops, Times
  <2> QED
    BY <1>14, <2>1 DEF IxFresh, TypeOK, tree, disk, heap
<1>15. ASSUME NEW w \in Workers, DeleteRow(w) PROVE TypeOK'
  BY <1>15 DEF DeleteRow, Goto, TypeOK, Labels, Times, tree, heap, local
<1>16. ASSUME NEW w \in Workers, Evict(w) PROVE TypeOK'
  BY <1>16 DEF Evict, ForceClosed, Goto, TypeOK, Labels, tree, disk, local
<1>17. ASSUME NEW w \in Workers, RemoveCache(w) PROVE TypeOK'
  BY <1>17, ReturnType DEF RemoveCache, TypeOK, tree, heap
<1>18. CASE CloseIndex
  BY <1>18 DEF CloseIndex, ForceClosed, NoEntries, TypeOK, tree, disk, local
<1>19. CASE Unbind
  BY <1>19 DEF Unbind, TypeOK, tree, disk, heap, local
<1>20. CASE Restart
  BY <1>20, AnyPathType DEF Restart, TypeOK, Labels, Ops, Times, NoEntries, tree, disk
<1>21. CASE UNCHANGED vars
  BY <1>21 DEF TypeOK, vars, tree, disk, heap, local
<1> QED
  BY <1>1, <1>2, <1>3, <1>4, <1>5, <1>6, <1>7, <1>8, <1>9, <1>10, <1>11, <1>12, <1>13,
     <1>14, <1>15, <1>16, <1>17, <1>18, <1>19, <1>20, <1>21 DEF Next, Step, Environment

-----------------------------------------------------------------------------
(* IInv without the types. *)
Ownership == WarmEntriesLive /\ PinnedIndexed /\ LoadedByOne /\ HandsFull /\ PrivateHeld

(* A step of one request that touches no repo and no entry, and at most     *)
(* drops what the request had, keeps the ownership of every repo: such are  *)
(* all registry, file system and clock steps.                               *)
LEMMA Bystander ==
  ASSUME TypeOK, Ownership, UNCHANGED <<heap, index>>, NEW w \in Workers,
         pc[w] \notin {"fetch", "insert", "use"},
         pc'[w] \notin {"fetch", "insert", "use"},
         pc'[w] \in {"stamp", "upsert"} => held'[w] \in Repos,
         held'[w] \in {held[w], NoRepo},
         \A v \in Workers \ {w} : pc'[v] = pc[v] /\ held'[v] = held[v] /\ arg'[v] = arg[v]
  PROVE  Ownership'
<1> USE NoRepoAssumption DEF heap
<1>1. WarmEntriesLive' /\ PinnedIndexed'
  BY DEF Ownership, WarmEntriesLive, PinnedIndexed
<1>2. LoadedByOne'
  BY DEF Ownership, LoadedByOne, TypeOK
<1>3. HandsFull'
  BY DEF Ownership, HandsFull
<1>4. PrivateHeld'
  <2> SUFFICES ASSUME NEW r \in live, r \notin pinned
               PROVE  \E u \in Workers : /\ pc'[u] \in {"fetch", "insert", "use"}
                                         /\ \A v \in Workers : held'[v] = r <=> v = u
    BY DEF PrivateHeld
  <2>1. PICK u \in Workers : /\ pc[u] \in {"fetch", "insert", "use"}
                             /\ \A v \in Workers : held[v] = r <=> v = u
    BY DEF Ownership, PrivateHeld
  <2>2. u # w /\ held[w] # r /\ held'[w] # r
    BY <2>1 DEF TypeOK
  <2> QED
    BY <2>1, <2>2
<1> QED
  BY <1>1, <1>2, <1>3, <1>4 DEF Ownership

(* Such a step may end the request ...                                       *)
LEMMA ReturnKeeps ==
  ASSUME TypeOK, Ownership, UNCHANGED <<heap, index>>, NEW w \in Workers,
         pc[w] \notin {"fetch", "insert", "use"}, Return(w)
  PROVE  Ownership'
  BY Bystander DEF Return, Goto, TypeOK

(* ... or move it on.                                                        *)
LEMMA GotoKeeps ==
  ASSUME TypeOK, Ownership, UNCHANGED <<heap, index, held, arg>>, NEW w \in Workers,
         pc[w] \notin {"fetch", "insert", "use"}, NEW l \in Labels,
         l \notin {"fetch", "insert", "use", "stamp", "upsert"}, Goto(w, l)
  PROVE  Ownership'
  BY Bystander DEF Goto, TypeOK

(* The same for a step that moves no request at all: an edit of a tree, the *)
(* end of the binding.                                                      *)
LEMMA Standstill ==
  ASSUME Ownership, UNCHANGED <<heap, index, pc, local>>
  PROVE  Ownership'
  BY DEF Ownership, WarmEntriesLive, PinnedIndexed, LoadedByOne, HandsFull, PrivateHeld,
         heap, local

(* A hit gives a request a pinned repo: it cannot be one that another       *)
(* request thinks its own.                                                  *)
LEMMA GetKeeps ==
  ASSUME TypeOK, Ownership, NEW w \in Workers, Get(w)
  PROVE  Ownership'
<1> USE NoRepoAssumption
<1>1. CASE Return(w) \/ (Goto(w, "open") /\ UNCHANGED local)
  BY <1>1, Bystander DEF Get, Return, Goto, local, TypeOK
<1>2. CASE /\ index[arg[w]] # NoRepo /\ Goto(w, "use")
           /\ held' = [held EXCEPT ![w] = index[arg[w]]]
           /\ UNCHANGED <<op, arg, handle, at>>
  <2> DEFINE r == index[arg[w]]
  <2>1. r \in Repos /\ r \in pinned /\ r \in live
    BY <1>2 DEF Ownership, WarmEntriesLive, TypeOK
  <2>2. UNCHANGED <<home, live, pinned, index>> /\ pc[w] = "get"
    BY <1>2 DEF Get, heap
  <2>3. /\ pc'[w] = "use" /\ held'[w] = r /\ arg' = arg
        /\ \A v \in Workers \ {w} : pc'[v] = pc[v] /\ held'[v] = held[v]
    BY <1>2 DEF Goto, TypeOK
  <2> HIDE DEF r
  <2>4. WarmEntriesLive' /\ PinnedIndexed'
    BY <2>2 DEF Ownership, WarmEntriesLive, PinnedIndexed
  <2>5. LoadedByOne'
    BY <2>1, <2>2, <2>3 DEF Ownership, LoadedByOne
  <2>6. HandsFull'
    BY <2>1, <2>2, <2>3 DEF Ownership, HandsFull
  <2>7. PrivateHeld'
    <3> SUFFICES ASSUME NEW q \in live, q \notin pinned
                 PROVE  \E u \in Workers : /\ pc'[u] \in {"fetch", "insert", "use"}
                                           /\ \A v \in Workers : held'[v] = q <=> v = u
      BY <2>2 DEF PrivateHeld
    <3>1. PICK u \in Workers : /\ pc[u] \in {"fetch", "insert", "use"}
                               /\ \A v \in Workers : held[v] = q <=> v = u
      BY DEF Ownership, PrivateHeld
    <3>2. u # w /\ q # r
      BY <2>1, <2>2, <3>1
    <3> QED
      BY <2>3, <3>1, <3>2
  <2> QED
    BY <2>4, <2>5, <2>6, <2>7 DEF Ownership
<1> QED
  BY <1>1, <1>2 DEF Get

(* A load takes an object nobody refers to: it starts out private.          *)
LEMMA ReadKeeps ==
  ASSUME TypeOK, Ownership, NEW w \in Workers, Read(w)
  PROVE  Ownership'
<1> USE NoRepoAssumption
<1>1. PICK r \in Free : /\ home' = [home EXCEPT ![r] = arg[w]]
                        /\ live' = live \cup {r}
                        /\ held' = [held EXCEPT ![w] = r]
  BY DEF Read
<1>2. /\ r \in Repos /\ r \notin live /\ \A p \in Paths : index[p] # r
      /\ \A v \in Workers : held[v] # r
  BY <1>1 DEF Free, Indexed, Holders
<1>3. r \notin pinned
  BY <1>2 DEF Ownership, PinnedIndexed, TypeOK
<1>4. /\ pc[w] = "read" /\ pc'[w] = "fetch" /\ held'[w] = r /\ arg' = arg
      /\ home'[r] = arg[w] /\ (\A q \in Repos : q # r => home'[q] = home[q])
      /\ pinned' = pinned /\ index' = index
      /\ \A v \in Workers \ {w} : pc'[v] = pc[v] /\ held'[v] = held[v]
  BY <1>1, <1>2 DEF Read, Goto, TypeOK
<1>5. WarmEntriesLive'
  BY <1>1, <1>2, <1>4 DEF Ownership, WarmEntriesLive, TypeOK
<1>6. PinnedIndexed'
  BY <1>3, <1>4 DEF Ownership, PinnedIndexed, TypeOK
<1>7. LoadedByOne'
  <2> SUFFICES ASSUME NEW u \in Workers, pc'[u] \in {"fetch", "insert"}
               PROVE  /\ held'[u] \in live' /\ held'[u] \notin pinned /\ home'[held'[u]] = arg[u]
                      /\ \A v \in Workers : held'[v] = held'[u] => v = u
    BY <1>4 DEF LoadedByOne
  <2>1. CASE u = w
    BY <2>1, <1>1, <1>2, <1>3, <1>4
  <2>2. CASE u # w
    <3>1. /\ held[u] \in live /\ held[u] \notin pinned /\ home[held[u]] = arg[u]
          /\ held[u] \in Repos /\ held[u] # r
          /\ \A v \in Workers : held[v] = held[u] => v = u
      BY <2>2, <1>2, <1>4 DEF Ownership, LoadedByOne, HandsFull
    <3> QED
      BY <2>2, <3>1, <1>1, <1>4
  <2> QED
    BY <2>1, <2>2
<1>8. HandsFull'
  BY <1>2, <1>4 DEF Ownership, HandsFull
<1>9. PrivateHeld'
  <2> SUFFICES ASSUME NEW q \in live', q \notin pinned
               PROVE  \E u \in Workers : /\ pc'[u] \in {"fetch", "insert", "use"}
                                         /\ \A v \in Workers : held'[v] = q <=> v = u
    BY <1>4 DEF PrivateHeld
  <2>1. CASE q = r
    BY <2>1, <1>2, <1>4
  <2>2. CASE q # r
    <3>1. PICK u \in Workers : /\ pc[u] \in {"fetch", "insert", "use"}
                               /\ \A v \in Workers : held[v] = q <=> v = u
      BY <2>2, <1>1 DEF Ownership, PrivateHeld
    <3> QED
      BY <2>2, <3>1, <1>4
  <2> QED
    BY <2>1, <2>2
<1> QED
  BY <1>5, <1>6, <1>7, <1>8, <1>9 DEF Ownership

(* Between the two halves of PutFor nothing about the repo changes.         *)
LEMMA FetchKeeps ==
  ASSUME TypeOK, Ownership, NEW w \in Workers, Fetch(w)
  PROVE  Ownership'
<1>1. /\ UNCHANGED <<home, live, pinned, index, held, arg>>
      /\ pc[w] = "fetch" /\ pc'[w] = "insert"
      /\ \A v \in Workers \ {w} : pc'[v] = pc[v]
  BY DEF Fetch, Goto, TypeOK, heap
<1>2. WarmEntriesLive' /\ PinnedIndexed'
  BY <1>1 DEF Ownership, WarmEntriesLive, PinnedIndexed
<1>3. LoadedByOne'
  BY <1>1 DEF Ownership, LoadedByOne
<1>4. HandsFull'
  BY <1>1 DEF Ownership, HandsFull
<1>5. PrivateHeld'
  BY <1>1 DEF Ownership, PrivateHeld
<1> QED
  BY <1>2, <1>3, <1>4, <1>5 DEF Ownership

(* Put publishes a repo of the request alone at its own path, and what it   *)
(* replaces was that path's.                                                *)
LEMMA InsertKeeps ==
  ASSUME TypeOK, Ownership, NEW w \in Workers, Insert(w)
  PROVE  Ownership'
<1> USE NoRepoAssumption
<1> DEFINE r == held[w]
           p == arg[w]
<1>1. /\ r \in live /\ r \notin pinned /\ home[r] = p /\ r \in Repos /\ p \in Paths
      /\ \A v \in Workers : held[v] = r => v = w
  <2>1. pc[w] = "insert"
    BY DEF Insert
  <2>2. r \in Repos /\ p \in Paths
    BY <2>1 DEF Ownership, HandsFull, TypeOK
  <2> QED
    BY <2>1, <2>2 DEF Ownership, LoadedByOne
<1>2. /\ UNCHANGED <<home, held, arg>>
      /\ pc[w] = "insert" /\ pc'[w] = "use"
      /\ \A v \in Workers \ {w} : pc'[v] = pc[v]
  BY DEF Insert, Goto, TypeOK, local
<1>3. CASE ~handle[w]
  <2>1. UNCHANGED <<pinned, live, index>>
    BY <1>3 DEF Insert
  <2>2. WarmEntriesLive' /\ PinnedIndexed'
    BY <1>2, <2>1 DEF Ownership, WarmEntriesLive, PinnedIndexed
  <2>3. LoadedByOne' /\ HandsFull'
    BY <1>2, <2>1 DEF Ownership, LoadedByOne, HandsFull
  <2>4. PrivateHeld'
    BY <1>2, <2>1 DEF Ownership, PrivateHeld
  <2> QED
    BY <2>2, <2>3, <2>4 DEF Ownership
<1>4. CASE handle[w]
  <2>1. /\ pinned' = (pinned \ {index[p]}) \cup {r}
        /\ live' = live \ ({index[p]} \ {r})
        /\ index' = [index EXCEPT ![p] = r]
    BY <1>4 DEF Insert, PutPinned, PutLive, PutEntry
  <2>2. r # index[p]
    BY <1>1 DEF Ownership, WarmEntriesLive
  <2>3. \A q \in Paths : q # p /\ index[q] # NoRepo => index[q] # index[p] /\ index[q] # r
    BY <1>1 DEF Ownership, WarmEntriesLive
  <2>4. /\ index'[p] = r
        /\ \A q \in Paths : q # p => index'[q] = index[q]
        /\ live' = live \ {index[p]}
    BY <1>1, <2>1, <2>2 DEF TypeOK
  <2> HIDE DEF r, p
  <2>5. WarmEntriesLive'
    BY <1>1, <1>2, <2>1, <2>2, <2>3, <2>4 DEF Ownership, WarmEntriesLive
  <2>6. PinnedIndexed'
    <3> SUFFICES ASSUME NEW s \in pinned' PROVE index'[home[s]] = s
      BY <1>2 DEF PinnedIndexed
    <3>1. CASE s = r
      BY <3>1, <1>1, <2>4
    <3>2. CASE s # r
      <4>1. s \in pinned /\ s # index[p] /\ index[home[s]] = s /\ home[s] \in Paths
        BY <3>2, <2>1 DEF Ownership, PinnedIndexed, TypeOK
      <4> QED
        BY <4>1, <2>4
    <3> QED
      BY <3>1, <3>2
  <2>7. LoadedByOne'
    <3> SUFFICES ASSUME NEW u \in Workers, pc'[u] \in {"fetch", "insert"}
                 PROVE  /\ held[u] \in live' /\ held[u] \notin pinned' /\ home[held[u]] = arg[u]
                        /\ \A v \in Workers : held[v] = held[u] => v = u
      BY <1>2 DEF LoadedByOne
    <3>1. u # w /\ pc[u] \in {"fetch", "insert"}
      BY <1>2
    <3>2. /\ held[u] \in live /\ held[u] \notin pinned /\ home[held[u]] = arg[u]
          /\ \A v \in Workers : held[v] = held[u] => v = u
      BY <3>1 DEF Ownership, LoadedByOne
    <3>3. held[u] # r /\ held[u] # index[p]
      BY <3>1, <3>2, <1>1 DEF r, Ownership, WarmEntriesLive, TypeOK
    <3> QED
      BY <3>2, <3>3, <2>1, <2>4
  <2>8. HandsFull'
    BY <1>2 DEF Ownership, HandsFull
  <2>9. PrivateHeld'
    <3> SUFFICES ASSUME NEW s \in live', s \notin pinned'
                 PROVE  \E u \in Workers : /\ pc'[u] \in {"fetch", "insert", "use"}
                                           /\ \A v \in Workers : held[v] = s <=> v = u
      BY <1>2 DEF PrivateHeld
    <3>1. s \in live /\ s \notin pinned
      BY <2>1, <2>4
    <3> QED
      BY <3>1, <1>2 DEF Ownership, PrivateHeld
  <2> QED
    BY <2>5, <2>6, <2>7, <2>8, <2>9 DEF Ownership
<1> QED
  BY <1>3, <1>4

(* Close reaps only what the request alone has.                             *)
LEMMA UseKeeps ==
  ASSUME TypeOK, Ownership, NEW w \in Workers, Use(w)
  PROVE  Ownership'
<1> USE NoRepoAssumption
<1> DEFINE r == held[w]
<1>1. /\ pc[w] = "use" /\ r \in Repos
      /\ UNCHANGED <<home, pinned, index>>
      /\ live' = IF r \in pinned THEN live ELSE live \ {r}
  BY DEF Use, CloseRepo, Ownership, HandsFull
<1>2. /\ pc'[w] \in {"idle", "stamp"} /\ held'[w] \in {r, NoRepo}
      /\ (pc'[w] = "stamp" => held'[w] = r)
      /\ \A v \in Workers \ {w} : pc'[v] = pc[v] /\ held'[v] = held[v] /\ arg'[v] = arg[v]
  BY DEF Use, Return, Goto, TypeOK, local
<1> HIDE DEF r
<1>3. WarmEntriesLive' /\ PinnedIndexed'
  BY <1>1 DEF Ownership, WarmEntriesLive, PinnedIndexed
<1>4. LoadedByOne'
  <2> SUFFICES ASSUME NEW u \in Workers, pc'[u] \in {"fetch", "insert"}
               PROVE  /\ held'[u] \in live' /\ held'[u] \notin pinned /\ home[held'[u]] = arg'[u]
                      /\ \A v \in Workers : held'[v] = held'[u] => v = u
    BY <1>1 DEF LoadedByOne
  <2>1. u # w /\ pc[u] \in {"fetch", "insert"} /\ held'[u] = held[u] /\ arg'[u] = arg[u]
    BY <1>2
  <2>2. /\ held[u] \in live /\ held[u] \notin pinned /\ home[held[u]] = arg[u]
        /\ held[u] # r /\ held[u] # NoRepo
        /\ \A v \in Workers : held[v] = held[u] => v = u
    BY <2>1 DEF r, Ownership, LoadedByOne, TypeOK
  <2> QED
    BY <2>1, <2>2, <1>1, <1>2
<1>5. HandsFull'
  BY <1>1, <1>2 DEF Ownership, HandsFull
<1>6. PrivateHeld'
  <2> SUFFICES ASSUME NEW s \in live', s \notin pinned
               PROVE  \E u \in Workers : /\ pc'[u] \in {"fetch", "insert", "use"}
                                         /\ \A v \in Workers : held'[v] = s <=> v = u
    BY <1>1 DEF PrivateHeld
  <2>1. s \in live /\ s # r /\ s # NoRepo
    BY <1>1 DEF TypeOK
  <2>2. PICK u \in Workers : /\ pc[u] \in {"fetch", "insert", "use"}
                             /\ \A v \in Workers : held[v] = s <=> v = u
    BY <2>1 DEF Ownership, PrivateHeld
  <2>3. u # w
    BY <2>1, <2>2 DEF r
  <2> QED
    BY <2>1, <2>2, <2>3, <1>2
<1> QED
  BY <1>3, <1>4, <1>5, <1>6 DEF Ownership

(* A repo that is the entry of a path stops with it: what unpinned repos    *)
(* there are, and who has them, stays.  ps is the one path of an eviction,  *)
(* or every path when the index closes.                                     *)
LEMMA EvictionKeeps ==
  ASSUME TypeOK, Ownership, NEW ps \in SUBSET Paths,
         live' = ForceClosed(ps),
         pinned' = pinned \ {index[p] : p \in ps},
         index' = [p \in Paths |-> IF p \in ps THEN NoRepo ELSE index[p]],
         UNCHANGED <<home, held, arg>>,
         \A w \in Workers : pc'[w] # pc[w] => /\ pc[w] \notin {"fetch", "insert", "use"}
                                              /\ pc'[w] = "rmcache"
  PROVE  Ownership'
<1> USE NoRepoAssumption
<1>1. \A p, q \in Paths : p # q /\ index[q] # NoRepo => index[q] # index[p]
  BY DEF Ownership, WarmEntriesLive
<1>2. \A r \in live : r \in live' <=> \A p \in ps : index[p] # r
  BY DEF ForceClosed, TypeOK
<1>3. \A r \in live : r \notin pinned => r \in live'
  BY <1>2 DEF Ownership, WarmEntriesLive, TypeOK
<1>4. live' \subseteq live
  BY DEF ForceClosed
<1>5. WarmEntriesLive'
  <2> SUFFICES ASSUME NEW q \in Paths, index'[q] # NoRepo
               PROVE  index'[q] \in live' /\ index'[q] \in pinned' /\ home[index'[q]] = q
    BY DEF WarmEntriesLive
  <2>1. q \notin ps /\ index'[q] = index[q] /\ index[q] # NoRepo
    OBVIOUS
  <2>2. \A p \in ps : index[q] # index[p]
    BY <1>1, <2>1
  <2>3. index[q] \in live /\ index[q] \in pinned /\ home[index[q]] = q
    BY <2>1 DEF Ownership, WarmEntriesLive
  <2> QED
    BY <1>2, <2>1, <2>2, <2>3
<1>6. PinnedIndexed'
  <2> SUFFICES ASSUME NEW r \in pinned' PROVE index'[home[r]] = r
    BY DEF PinnedIndexed
  <2>1. r \in pinned /\ home[r] \in Paths /\ index[home[r]] = r /\ home[r] \notin ps
    BY DEF Ownership, PinnedIndexed, TypeOK
  <2> QED
    BY <2>1
<1>7. LoadedByOne'
  BY <1>3 DEF Ownership, LoadedByOne
<1>8. HandsFull'
  BY DEF Ownership, HandsFull
<1>9. PrivateHeld'
  <2> SUFFICES ASSUME NEW r \in live', r \notin pinned'
               PROVE  \E u \in Workers : /\ pc'[u] \in {"fetch", "insert", "use"}
                                         /\ \A v \in Workers : held[v] = r <=> v = u
    BY DEF PrivateHeld
  <2>1. r \in live /\ r \notin pinned
    BY <1>2, <1>4
  <2> QED
    BY <2>1 DEF Ownership, PrivateHeld
<1> QED
  BY <1>5, <1>6, <1>7, <1>8, <1>9 DEF Ownership

(* delete_project's eviction.                                               *)
LEMMA EvictKeeps ==
  ASSUME TypeOK, Ownership, NEW w \in Workers, Evict(w)
  PROVE  Ownership'
<1>1. /\ UNCHANGED <<home, held, arg>> /\ pc[w] = "evict" /\ arg[w] \in Paths
      /\ \A v \in Workers : pc'[v] # pc[v] => v = w /\ pc'[v] = "rmcache"
  BY DEF Evict, Goto, TypeOK, local
<1>2. CASE ~handle[w]
  <2>1. UNCHANGED <<pinned, live, index>>
    BY <1>2 DEF Evict
  <2>2. WarmEntriesLive' /\ PinnedIndexed'
    BY <1>1, <2>1 DEF Ownership, WarmEntriesLive, PinnedIndexed
  <2>3. LoadedByOne' /\ HandsFull'
    BY <1>1, <2>1 DEF Ownership, LoadedByOne, HandsFull
  <2>4. PrivateHeld'
    BY <1>1, <2>1 DEF Ownership, PrivateHeld
  <2> QED
    BY <2>2, <2>3, <2>4 DEF Ownership
<1>3. CASE handle[w]
  <2>1. live' = ForceClosed({arg[w]}) /\ pinned' = pinned \ {index[arg[w]]}
        /\ index' = [index EXCEPT ![arg[w]] = NoRepo]
    BY <1>3 DEF Evict
  <2>2. index' = [p \in Paths |-> IF p \in {arg[w]} THEN NoRepo ELSE index[p]]
    BY <2>1, <1>1 DEF TypeOK
  <2>3. pinned' = pinned \ {index[p] : p \in {arg[w]}}
    BY <2>1
  <2> QED
    BY <1>1, <2>1, <2>2, <2>3, EvictionKeeps
<1> QED
  BY <1>2, <1>3

(* The end of the index.                                                    *)
LEMMA CloseIndexKeeps ==
  ASSUME TypeOK, Ownership, CloseIndex
  PROVE  Ownership'
<1>1. live' = ForceClosed(Paths) /\ UNCHANGED <<home, held, arg, pc>>
  BY DEF CloseIndex, local
<1>2. index' = [p \in Paths |-> IF p \in Paths THEN NoRepo ELSE index[p]]
  BY DEF CloseIndex, NoEntries
<1>3. pinned' = pinned \ {index[p] : p \in Paths}
  BY DEF CloseIndex, Indexed, TypeOK
<1> QED
  BY <1>1, <1>2, <1>3, EvictionKeeps

(* A new process holds nothing.                                             *)
LEMMA FreshProcess ==
  ASSUME live = {}, pinned = {}, index = NoEntries, pc = [w \in Workers |-> "idle"]
  PROVE  Ownership
  BY DEF Ownership, WarmEntriesLive, PinnedIndexed, LoadedByOne, HandsFull, PrivateHeld, NoEntries

(* ... so a restart keeps the ownership, of nothing.                         *)
LEMMA RestartKeeps ==
  ASSUME Restart
  PROVE  Ownership'
  BY DEF Restart, Ownership, WarmEntriesLive, PinnedIndexed, LoadedByOne, HandsFull,
         PrivateHeld, NoEntries

(* Every step of a request keeps the ownership of every repo.               *)
LEMMA StepKeeps ==
  ASSUME TypeOK, Ownership, NEW w \in Workers, Step(w)
  PROVE  Ownership'
<1>1. CASE CheckRow(w)
  BY <1>1, ReturnKeeps, GotoKeeps DEF CheckRow, Labels, local
<1>2. CASE LookupIndex(w)
  BY <1>2, ReturnKeeps, GotoKeeps DEF LookupIndex, Labels, local
<1>3. CASE Fail(w)
  BY <1>3, ReturnKeeps DEF Fail
<1>4. CASE RemoveCache(w)
  BY <1>4, ReturnKeeps DEF RemoveCache
<1>5. CASE Open(w)
  BY <1>5, GotoKeeps DEF Open, Labels, local
<1>6. CASE IxRow(w) \/ IxFresh(w)
  BY <1>6, GotoKeeps DEF IxRow, IxFresh, Labels, local
<1>7. CASE DeleteRow(w) \/ EvictFetch(w)
  BY <1>7, GotoKeeps DEF DeleteRow, EvictFetch, Labels, local
<1>8. CASE Stamp(w)
  <2>1. pc'[w] = "upsert" /\ held' = held /\ arg' = arg /\ held[w] \in Repos
    BY <1>8 DEF Stamp, Goto, TypeOK, Ownership, HandsFull
  <2> QED
    BY <1>8, <2>1, Bystander DEF Stamp, Goto, TypeOK
<1>9. CASE Upsert(w)
  BY <1>9, ReturnKeeps DEF Upsert
<1> QED
  BY <1>1, <1>2, <1>3, <1>4, <1>5, <1>6, <1>7, <1>8, <1>9, GetKeeps, ReadKeeps, FetchKeeps, InsertKeeps, UseKeeps, EvictKeeps
     DEF Step

(* The inductive step.                                                      *)
LEMMA InvStep == IInv /\ [Next]_vars => IInv'
<1> SUFFICES ASSUME TypeOK, Ownership, [Next]_vars PROVE TypeOK' /\ Ownership'
  BY DEF IInv, Ownership
<1>1. TypeOK'
  BY TypeStep DEF Ownership
<1>2. ASSUME NEW p \in Paths, Edit(p) \/ Remove(p) PROVE Ownership'
  BY <1>2, Standstill DEF Edit, Remove
<1>3. ASSUME NEW w \in Workers, NEW o \in Ops, NEW p \in Paths, Start(w, o, p) PROVE Ownership'
  <2>1. /\ pc[w] = "idle" /\ pc'[w] \in {"row", "ixrow", "del"} /\ held' = held
        /\ \A v \in Workers \ {w} : pc'[v] = pc[v] /\ arg'[v] = arg[v]
    BY <1>3 DEF Start, Goto, TypeOK
  <2> QED
    BY <1>3, <2>1, Bystander DEF Start
<1>4. ASSUME Unbind \/ UNCHANGED vars PROVE Ownership'
  BY <1>4, Standstill DEF Unbind, vars
<1>5. Ownership'
  BY <1>2, <1>3, <1>4, StepKeeps, CloseIndexKeeps, RestartKeeps DEF Next, Environment
<1> QED
  BY <1>1, <1>5

(* IInv holds in every reachable state.                                     *)
THEOREM Inductive == Spec => []IInv
<1>1. Init => IInv
  BY TypeInit, FreshProcess DEF Init, IInv, Ownership
<1> QED
  BY <1>1, InvStep, PTL DEF Spec

(* Type correctness of the warm index, its repos and the requests on it.    *)
THEOREM TypeCorrect == Spec => []TypeOK
<1>1. IInv => TypeOK
  BY DEF IInv
<1> QED
  BY <1>1, Inductive, PTL

(* Every entry of the index is a pinned repo of its own path with running   *)
(* servers, whatever requests, replacements, evictions and closes overlap.  *)
THEOREM EntriesStayLive == Spec => []WarmEntriesLive
<1>1. IInv => WarmEntriesLive
  BY DEF IInv
<1> QED
  BY <1>1, Inductive, PTL

(* Servers run only for a repo that the index owns or a request has.        *)
THEOREM ServersHaveOwners == Spec => []NoOrphanedServers
<1>1. IInv => NoOrphanedServers
  <2> SUFFICES ASSUME IInv, NEW r \in live, r \notin Indexed PROVE Holders(r) # {}
    BY DEF NoOrphanedServers
  <2>1. r \in Repos /\ r \notin pinned
    BY DEF IInv, TypeOK, PinnedIndexed, Indexed
  <2> QED
    BY <2>1 DEF IInv, PrivateHeld, Holders
<1> QED
  BY <1>1, Inductive, PTL

(* The repo a Close can reap is in the hands of that request alone.         *)
THEOREM CloseIsPrivate == Spec => []UnpinnedIsPrivate
<1>1. IInv => UnpinnedIsPrivate
  <2> SUFFICES ASSUME IInv, NEW r \in live, r \notin pinned
               PROVE  r \notin Indexed /\ \E w \in Workers : Holders(r) = {w}
    BY DEF UnpinnedIsPrivate
  <2>1. r \notin Indexed
    BY NoRepoAssumption DEF IInv, WarmEntriesLive, Indexed, TypeOK
  <2>2. PICK w \in Workers : \A v \in Workers : held[v] = r <=> v = w
    BY DEF IInv, PrivateHeld
  <2>3. Holders(r) = {w}
    BY <2>2 DEF Holders
  <2> QED
    BY <2>1, <2>3
<1> QED
  BY <1>1, Inductive, PTL

-----------------------------------------------------------------------------
(* What stops a repo's servers *)

(* Only these steps change the set of running repos.                        *)
LEMMA OnlyThese ==
  ASSUME [Next]_vars, ~(live \subseteq live')
  PROVE  \/ \E w \in Workers : Insert(w) \/ Use(w) \/ Evict(w)
         \/ CloseIndex
         \/ Restart
<1> USE DEF heap, local
<1>1. ASSUME NEW p \in Paths, Edit(p) \/ Remove(p) PROVE FALSE
  BY <1>1 DEF Edit, Remove
<1>2. ASSUME NEW w \in Workers, NEW o \in Ops, NEW p \in Paths, Start(w, o, p) PROVE FALSE
  BY <1>2 DEF Start
<1>3. ASSUME NEW w \in Workers,
             CheckRow(w) \/ LookupIndex(w) \/ Get(w) \/ Open(w) \/ Read(w) \/ Fetch(w)
      PROVE  FALSE
  BY <1>3 DEF CheckRow, LookupIndex, Get, Open, Read, Fetch
<1>4. ASSUME NEW w \in Workers,
             \/ Stamp(w) \/ Upsert(w) \/ IxRow(w) \/ IxFresh(w) \/ DeleteRow(w)
             \/ EvictFetch(w) \/ RemoveCache(w) \/ Fail(w)
      PROVE  FALSE
  BY <1>4 DEF Stamp, Upsert, IxRow, IxFresh, DeleteRow, EvictFetch, RemoveCache, Fail
<1>5. CASE Unbind \/ UNCHANGED vars
  BY <1>5 DEF Unbind, vars
<1> QED
  BY <1>1, <1>2, <1>3, <1>4, <1>5 DEF Next, Environment, Step

(* A repo's servers stop by the Close of the one request that has it, by    *)
(* the loss of its slot at its own path, or with the process: no request on *)
(* another project ever stops them.                                         *)
THEOREM ReapedOnlyByItsOwn == Spec => ReapedAtItsOwnPath
<1> DEFINE Own(r) ==
      \/ r \in pinned /\ index[home[r]] = r /\ index'[home[r]] # r
      \/ r \notin pinned /\ \E w \in Workers : held[w] = r /\ pc[w] = "use"
      \/ live' = {} /\ \A w \in Workers : pc'[w] = "idle"
<1>1. IInv /\ [Next]_vars => [\A r \in live : r \notin live' => Own(r)]_vars
  <2> SUFFICES ASSUME IInv, [Next]_vars, NEW r \in live, r \notin live' PROVE Own(r)
    OBVIOUS
  <2> USE NoRepoAssumption
  <2>1. r \in Repos /\ home[r] \in Paths
    BY DEF IInv, TypeOK
  <2>2. ASSUME NEW w \in Workers, Insert(w) PROVE Own(r)
    <3>1. /\ handle[w] /\ r = index[arg[w]] /\ r # held[w] /\ arg[w] \in Paths
          /\ index' = [index EXCEPT ![arg[w]] = held[w]]
      BY <2>2 DEF Insert, PutLive, PutEntry, IInv, TypeOK
    <3>2. r \in pinned /\ home[r] = arg[w]
      BY <3>1, <2>1 DEF IInv, WarmEntriesLive
    <3> QED
      BY <3>1, <3>2 DEF IInv, TypeOK
  <2>3. ASSUME NEW w \in Workers, Use(w) PROVE Own(r)
    BY <2>3 DEF Use, CloseRepo
  <2>4. ASSUME NEW w \in Workers, Evict(w) PROVE Own(r)
    <3>1. /\ handle[w] /\ r = index[arg[w]] /\ arg[w] \in Paths
          /\ index' = [index EXCEPT ![arg[w]] = NoRepo]
      BY <2>4 DEF Evict, ForceClosed, IInv, TypeOK
    <3>2. r \in pinned /\ home[r] = arg[w]
      BY <3>1, <2>1 DEF IInv, WarmEntriesLive
    <3> QED
      BY <2>1, <3>1, <3>2 DEF IInv, TypeOK
  <2>5. CASE CloseIndex
    <3>1. PICK p \in Paths : index[p] = r
      BY <2>5 DEF CloseIndex, ForceClosed
    <3>2. r \in pinned /\ home[r] = p /\ index' = NoEntries
      BY <2>1, <2>5, <3>1 DEF CloseIndex, IInv, WarmEntriesLive
    <3> QED
      BY <2>1, <3>1, <3>2 DEF NoEntries
  <2>6. CASE Restart
    BY <2>6 DEF Restart
  <2> QED
    BY <2>2, <2>3, <2>4, <2>5, <2>6, OnlyThese
<1> QED
  BY <1>1, Inductive, PTL DEF Spec, ReapedAtItsOwnPath

-----------------------------------------------------------------------------
(* The refinement *)

(* The steps that touch no repo and no entry are stutters of RepoLifecycle. *)
LEMMA Unmoved ==
  ASSUME UNCHANGED <<heap, index>>
  PROVE  UNCHANGED Lifecycle!lvars
  BY DEF Lifecycle!lvars, StateOf, heap

(* A load is a birth.                                                       *)
LEMMA ReadIsBirth ==
  ASSUME IInv, NEW w \in Workers, Read(w)
  PROVE  \E r \in Repos, p \in Paths : Lifecycle!Birth(r, p)
<1>1. PICK r \in Free : /\ home' = [home EXCEPT ![r] = arg[w]]
                        /\ live' = live \cup {r}
  BY DEF Read
<1>2. r \in Repos /\ r \notin live /\ r \notin pinned /\ arg[w] \in Paths
  BY DEF Free, Indexed, IInv, PinnedIndexed, TypeOK
<1>3. pinned' = pinned /\ index' = index
  BY DEF Read
<1> QED
  BY <1>1, <1>2, <1>3 DEF Lifecycle!Birth, StateOf

(* Put publishes the repo, when there is an index to put it in.             *)
LEMMA InsertIsPublish ==
  ASSUME IInv, NEW w \in Workers, Insert(w)
  PROVE  (\E r \in Repos : Lifecycle!Publish(r)) \/ UNCHANGED Lifecycle!lvars
<1> USE NoRepoAssumption
<1>1. CASE ~handle[w]
  BY <1>1, Unmoved DEF Insert, heap
<1>2. CASE handle[w]
  <2> DEFINE r == held[w]
  <2>1. pc[w] = "insert" /\ home' = home
    BY DEF Insert
  <2>2. /\ r \in Repos /\ r \in live /\ r \notin pinned /\ home[r] = arg[w] /\ arg[w] \in Paths
    BY <2>1 DEF IInv, HandsFull, LoadedByOne, TypeOK
  <2>3. /\ pinned' = (pinned \ {index[home[r]]}) \cup {r}
        /\ live' = live \ ({index[home[r]]} \ {r})
        /\ index' = [index EXCEPT ![home[r]] = r]
    BY <1>2, <2>2 DEF Insert, PutPinned, PutLive, PutEntry
  <2>4. \A q \in Repos : StateOf(q)' = IF q = r THEN "shared"
                                       ELSE IF q = index[home[r]] THEN "none" ELSE StateOf(q)
    BY <2>2, <2>3 DEF StateOf
  <2>5. Lifecycle!Publish(r)
    BY <2>1, <2>2, <2>3, <2>4 DEF Lifecycle!Publish, StateOf
  <2> QED
    BY <2>2, <2>5
<1> QED
  BY <1>1, <1>2

(* Close ends a private repo and nothing else.                              *)
LEMMA UseIsDrop ==
  ASSUME IInv, NEW w \in Workers, Use(w)
  PROVE  (\E r \in Repos : Lifecycle!Drop(r)) \/ UNCHANGED Lifecycle!lvars
<1> DEFINE r == held[w]
<1>1. /\ r \in Repos /\ home' = home /\ index' = index /\ pinned' = pinned
      /\ live' = IF r \in pinned THEN live ELSE live \ {r}
  BY DEF Use, CloseRepo, IInv, HandsFull
<1>2. CASE r \in pinned \/ r \notin live
  <2>1. live' = live
    BY <1>1, <1>2
  <2> QED
    BY <1>1, <2>1 DEF Lifecycle!lvars, StateOf
<1>3. CASE r \notin pinned /\ r \in live
  <2>1. \A q \in Repos : StateOf(q)' = IF q = r THEN "none" ELSE StateOf(q)
    BY <1>1, <1>3 DEF StateOf
  <2>2. Lifecycle!Drop(r)
    BY <1>1, <1>3, <2>1 DEF Lifecycle!Drop, StateOf
  <2> QED
    BY <1>1, <2>2
<1> QED
  BY <1>2, <1>3

(* delete_project retires a path.                                           *)
LEMMA EvictIsRetire ==
  ASSUME IInv, NEW w \in Workers, Evict(w)
  PROVE  (\E p \in Paths : Lifecycle!Retire(p)) \/ UNCHANGED Lifecycle!lvars
<1> USE NoRepoAssumption
<1>1. CASE ~handle[w]
  BY <1>1, Unmoved DEF Evict, heap
<1>2. CASE handle[w]
  <2> DEFINE p == arg[w]
  <2>1. /\ p \in Paths /\ home' = home
        /\ pinned' = pinned \ {index[p]}
        /\ live' = {r \in live : r # index[p]}
        /\ index' = [index EXCEPT ![p] = NoRepo]
    BY <1>2 DEF Evict, ForceClosed, IInv, TypeOK
  <2>2. \A q \in Repos : StateOf(q)' = IF q = index[p] THEN "none" ELSE StateOf(q)
    BY <2>1 DEF StateOf
  <2>3. Lifecycle!Retire(p)
    BY <2>1, <2>2 DEF Lifecycle!Retire
  <2> QED
    BY <2>1, <2>3
<1> QED
  BY <1>1, <1>2

(* The end of the index retires all that was published.                     *)
LEMMA CloseIsRetireAll ==
  ASSUME IInv, CloseIndex
  PROVE  Lifecycle!RetireAll
<1>1. \A r \in Repos : r \in pinned <=> r \in Indexed
  BY NoRepoAssumption DEF IInv, PinnedIndexed, WarmEntriesLive, Indexed, TypeOK
<1>2. /\ \A r \in Repos : r \notin pinned'
      /\ \A r \in Repos : r \in live' <=> r \in live /\ r \notin pinned
      /\ index' = NoEntries /\ home' = home
  BY <1>1 DEF CloseIndex, ForceClosed, Indexed, IInv, TypeOK
<1>3. \A q \in Repos : StateOf(q)' = IF StateOf(q) = "shared" THEN "none" ELSE StateOf(q)
  BY <1>2 DEF StateOf
<1> QED
  BY <1>2, <1>3 DEF Lifecycle!RetireAll, NoEntries

(* The warm index, with every handler that uses it, behaves as              *)
(* RepoLifecycle.                                                           *)
THEOREM Refinement == Spec => LifecycleSpec
<1>1. Init => Lifecycle!LInit
  BY AnyPathType DEF Init, Lifecycle!LInit, StateOf, NoEntries
<1>2. IInv /\ [Next]_vars => [Lifecycle!LNext]_(Lifecycle!lvars)
  <2> SUFFICES ASSUME IInv, [Next]_vars PROVE Lifecycle!LNext \/ UNCHANGED Lifecycle!lvars
    OBVIOUS
  <2>1. ASSUME NEW p \in Paths, Edit(p) \/ Remove(p) PROVE UNCHANGED <<heap, index>>
    BY <2>1 DEF Edit, Remove
  <2>2. ASSUME NEW w \in Workers, NEW o \in Ops, NEW p \in Paths, Start(w, o, p)
        PROVE  UNCHANGED <<heap, index>>
    BY <2>2 DEF Start
  <2>3. ASSUME NEW w \in Workers, CheckRow(w) \/ LookupIndex(w) \/ Get(w) \/ Open(w) \/ Fetch(w)
        PROVE  UNCHANGED <<heap, index>>
    BY <2>3 DEF CheckRow, LookupIndex, Get, Open, Fetch
  <2>4. ASSUME NEW w \in Workers,
               \/ Stamp(w) \/ Upsert(w) \/ IxRow(w) \/ IxFresh(w) \/ DeleteRow(w)
               \/ EvictFetch(w) \/ RemoveCache(w) \/ Fail(w)
        PROVE  UNCHANGED <<heap, index>>
    BY <2>4 DEF Stamp, Upsert, IxRow, IxFresh, DeleteRow, EvictFetch, RemoveCache, Fail
  <2>5. ASSUME Unbind \/ UNCHANGED vars PROVE UNCHANGED <<heap, index>>
    BY <2>5 DEF Unbind, vars
  <2>6. ASSUME Restart PROVE Lifecycle!Reset
    BY <2>6, AnyPathType DEF Restart, Lifecycle!Reset, StateOf, NoEntries
  <2>7. ASSUME NEW w \in Workers, Step(w) PROVE Lifecycle!LNext \/ UNCHANGED Lifecycle!lvars
    BY <2>3, <2>4, <2>7, Unmoved, ReadIsBirth, InsertIsPublish, UseIsDrop, EvictIsRetire
       DEF Step, Lifecycle!LNext
  <2> QED
    BY <2>1, <2>2, <2>5, <2>6, <2>7, Unmoved, CloseIsRetireAll
       DEF Next, Environment, Lifecycle!LNext
<1> QED
  BY <1>1, <1>2, Inductive, PTL DEF Spec, LifecycleSpec, Lifecycle!LSpec


-----------------------------------------------------------------------------
(***************************************************************************)
(* What a warm project serves when QuietLoads and DrainFirst hold: no tree *)
(* changes while a request loads it (the run warm_edit_during_load shows   *)
(* what happens otherwise), and the process ends only after its requests.  *)
(*                                                                         *)
(* RowNeverAhead and FreshMeansCurrent compare a row with an entry of the  *)
(* index, and the two are written by different steps, of requests that     *)
(* overlap.  The invariant follows a load from its read of the tree to the *)
(* row that describes it.                                                  *)
(***************************************************************************)

(* Nothing is dated later than the clock, and no row describes a change that *)
(* its tree has not seen.                                                    *)
Dated ==
  /\ \A p \in Paths : /\ newest[p] <= changed[p] /\ changed[p] <= clock
                      /\ indexedAt[p] <= clock /\ rowContent[p] <= changed[p]
  /\ \A w \in Workers : at[w] <= clock

(* A request that is loading has what the tree is now.                       *)
LoadIsCurrent == \A w \in Workers : Loading(w) => content[held[w]] = changed[arg[w]]

(* index_repository, from Index.Put to its row: the entry at its path, if it *)
(* is still there, is its own repo or one loaded later.                      *)
EntryIsNoOlder ==
  \A w \in Workers : pc[w] \in {"use", "stamp", "upsert"} /\ op[w] = "index" =>
    /\ content[held[w]] <= changed[arg[w]]
    /\ index[arg[w]] # NoRepo => content[held[w]] <= content[index[arg[w]]]

(* A row that no file is newer than describes every change that left a file, *)
(* in the registry ...                                                       *)
RowIsTrue == \A p \in rows : newest[p] <= indexedAt[p] => newest[p] <= rowContent[p]

(* ... and on its way there.                                                 *)
StampIsTrue ==
  \A w \in Workers : pc[w] = "upsert" /\ newest[arg[w]] <= at[w] =>
    newest[arg[w]] <= content[held[w]]

(* Only index_repository writes rows.                                        *)
OnlyIndexStamps == \A w \in Workers : pc[w] \in {"stamp", "upsert"} => op[w] = "index"

(* After Index.Close no request runs and no entry is left; so a request that *)
(* has loaded a repo finds the index to put it in.                           *)
Drained ==
  /\ daemon # "up" => index = NoEntries /\ \A w \in Workers : pc[w] = "idle"
  /\ \A w \in Workers : pc[w] = "insert" => handle[w]

Currency ==
  /\ Dated /\ LoadIsCurrent /\ EntryIsNoOlder /\ RowIsTrue /\ StampIsTrue
  /\ OnlyIndexStamps /\ RowNeverAhead


(* The end of the index finds nothing to wait for, and nothing begins after  *)
(* it.                                                                       *)
LEMMA DrainedStep ==
  ASSUME DrainFirst, TypeOK, Drained, [Next]_vars
  PROVE  Drained'
<1> USE DEF Drained, TypeOK
<1>1. ASSUME NEW p \in Paths, Edit(p) \/ Remove(p) PROVE Drained'
  BY <1>1 DEF Edit, Remove, local
<1>2. ASSUME NEW w \in Workers, NEW o \in Ops, NEW p \in Paths, Start(w, o, p) PROVE Drained'
  BY <1>2 DEF Start, Goto
<1>3. ASSUME NEW w \in Workers, pc[w] # "idle", daemon' = daemon,
             \A v \in Workers \ {w} : pc'[v] = pc[v] /\ handle'[v] = handle[v],
             pc'[w] = "insert" => handle'[w]
      PROVE  Drained'
  BY <1>3
<1>4. ASSUME NEW w \in Workers, Step(w) PROVE Drained'
  <2>1. pc[w] # "idle" /\ daemon' = daemon
    BY <1>4 DEF Step, CheckRow, LookupIndex, Get, Open, Read, Fetch, Insert, Use, Stamp, Upsert,
                IxRow, IxFresh, DeleteRow, EvictFetch, Evict, RemoveCache, Fail
  <2>2. \A v \in Workers \ {w} : pc'[v] = pc[v] /\ handle'[v] = handle[v]
    BY <1>4 DEF Step, CheckRow, LookupIndex, Get, Open, Read, Fetch, Insert, Use, Stamp, Upsert,
                IxRow, IxFresh, DeleteRow, EvictFetch, Evict, RemoveCache, Fail, Return, Goto, local
  <2>3. pc'[w] = "insert" => Fetch(w)
    BY <1>4 DEF Step, CheckRow, LookupIndex, Get, Open, Read, Insert, Use, Stamp, Upsert,
                IxRow, IxFresh, DeleteRow, EvictFetch, Evict, RemoveCache, Fail, Return, Goto
  <2>4. Fetch(w) => handle'[w]
    BY <2>1 DEF Fetch
  <2> QED
    BY <1>3, <2>1, <2>2, <2>3, <2>4
<1>5. CASE CloseIndex
  BY <1>5 DEF CloseIndex, local
<1>6. CASE Unbind \/ UNCHANGED vars
  BY <1>6 DEF Unbind, vars, local
<1>7. CASE Restart
  BY <1>7 DEF Restart
<1> QED
  BY <1>1, <1>2, <1>4, <1>5, <1>6, <1>7 DEF Next, Environment

(* The steps that write no entry and no row: requests stay where they are or *)
(* go to where they describe nothing, and entries and rows are only dropped. *)
LEMMA NothingWritten ==
  ASSUME TypeOK, Currency, UNCHANGED <<tree, content>>,
         \A p \in Paths : index'[p] \in {index[p], NoRepo},
         rows' \subseteq rows,
         \A p \in Paths : \/ indexedAt'[p] = indexedAt[p] /\ rowContent'[p] = rowContent[p]
                          \/ p \notin rows' /\ indexedAt'[p] = 0 /\ rowContent'[p] = 0,
         \A w \in Workers :
           \/ /\ pc'[w] = pc[w] /\ op'[w] = op[w] /\ arg'[w] = arg[w]
              /\ held'[w] = held[w] /\ at'[w] = at[w]
           \/ /\ pc'[w] \notin {"fetch", "insert", "stamp", "upsert"}
              /\ pc'[w] = "use" => op'[w] # "index"
              /\ at'[w] <= clock
  PROVE  Currency'
<1> USE DEF tree
<1>1. Dated'
  BY ClockAssumption DEF Currency, Dated, TypeOK, Times
<1>2. LoadIsCurrent'
  BY DEF Currency, LoadIsCurrent, Loading
<1>3. EntryIsNoOlder'
  BY DEF Currency, EntryIsNoOlder, TypeOK
<1>4. RowIsTrue'
  BY DEF Currency, RowIsTrue, TypeOK
<1>5. StampIsTrue'
  BY DEF Currency, StampIsTrue
<1>6. OnlyIndexStamps'
  BY DEF Currency, OnlyIndexStamps
<1>7. RowNeverAhead'
  BY DEF Currency, RowNeverAhead, TypeOK
<1> QED
  BY <1>1, <1>2, <1>3, <1>4, <1>5, <1>6, <1>7 DEF Currency

(* A change to a tree that nobody is loading.                                *)
LEMMA ChangeKeeps ==
  ASSUME QuietLoads, TypeOK, HandsFull, Currency, NEW p \in Paths, Edit(p) \/ Remove(p)
  PROVE  Currency'
<1>1. /\ clock' = clock + 1 /\ changed' = [changed EXCEPT ![p] = clock + 1]
      /\ newest' = newest \/ newest' = [newest EXCEPT ![p] = clock + 1]
      /\ UNCHANGED <<disk, heap, index, pc, local>>
  BY DEF Edit, Remove
<1>2. \A w \in Workers : arg[w] = p => ~Loading(w)
  BY DEF Edit, Remove, Quiet
<1> USE <1>1 DEF disk, heap, local
<1>3. Dated'
  BY DEF Currency, Dated, TypeOK, Times
<1>4. LoadIsCurrent'
  BY <1>2 DEF Currency, LoadIsCurrent, Loading, TypeOK
<1>5. EntryIsNoOlder'
  <2>1. \A q \in Paths : changed[q] <= changed'[q]
    BY DEF Currency, Dated, TypeOK, Times
  <2> QED
    BY <2>1, NoRepoAssumption DEF Currency, EntryIsNoOlder, HandsFull, TypeOK, Times
<1>6. \A q \in Paths : newest'[q] = newest[q] \/ newest'[q] = clock + 1
  BY DEF TypeOK
<1>7. RowIsTrue'
  BY <1>6 DEF Currency, RowIsTrue, Dated, TypeOK, Times
<1>8. StampIsTrue'
  BY <1>6 DEF Currency, StampIsTrue, Dated, TypeOK, Times
<1>9. OnlyIndexStamps' /\ RowNeverAhead'
  BY DEF Currency, OnlyIndexStamps, RowNeverAhead
<1> QED
  BY <1>3, <1>4, <1>5, <1>7, <1>8, <1>9 DEF Currency

(* A load describes the tree as it is, in an object that nothing refers to.  *)
LEMMA LoadKeeps ==
  ASSUME TypeOK, HandsFull, Currency, NEW w \in Workers, Read(w)
  PROVE  Currency'
<1> USE NoRepoAssumption
<1>1. PICK r \in Free : /\ content' = [content EXCEPT ![r] = changed[arg[w]]]
                        /\ held' = [held EXCEPT ![w] = r]
  BY DEF Read
<1>2. /\ r \in Repos /\ (\A p \in Paths : index[p] # r) /\ (\A v \in Workers : held[v] # r)
  BY <1>1 DEF Free, Indexed, Holders
<1>3. /\ UNCHANGED <<tree, disk, index, op, arg, at>> /\ pc'[w] = "fetch"
      /\ \A v \in Workers \ {w} : pc'[v] = pc[v]
  BY DEF Read, Goto, TypeOK
<1>4. \A v \in Workers \ {w} : held'[v] = held[v] /\ (held[v] \in Repos => content'[held[v]] = content[held[v]])
  BY <1>1, <1>2 DEF TypeOK
<1>5. \A p \in Paths : index[p] # NoRepo => content'[index[p]] = content[index[p]]
  BY <1>1, <1>2 DEF TypeOK
<1>6. held'[w] = r /\ content'[r] = changed[arg[w]]
  BY <1>1, <1>2 DEF TypeOK
<1> USE <1>3 DEF tree, disk
<1>7. Dated' /\ RowIsTrue' /\ OnlyIndexStamps'
  BY DEF Currency, Dated, RowIsTrue, OnlyIndexStamps
<1>8. LoadIsCurrent'
  BY <1>4, <1>6 DEF Currency, LoadIsCurrent, Loading, TypeOK
<1>9. EntryIsNoOlder'
  BY <1>4, <1>5 DEF Currency, EntryIsNoOlder, HandsFull, TypeOK
<1>10. StampIsTrue'
  BY <1>4 DEF Currency, StampIsTrue, HandsFull
<1>11. RowNeverAhead'
  BY <1>5 DEF Currency, RowNeverAhead, TypeOK
<1> QED
  BY <1>7, <1>8, <1>9, <1>10, <1>11 DEF Currency

(* Put stores a repo that is as new as the tree, and so no older than the    *)
(* row and than what any other request is about to write.                    *)
LEMMA PutKeeps ==
  ASSUME TypeOK, HandsFull, Currency, Drained, NEW w \in Workers, Insert(w)
  PROVE  Currency'
<1> USE NoRepoAssumption
<1>1. /\ UNCHANGED <<tree, disk, content, local>> /\ pc[w] = "insert" /\ pc'[w] = "use"
      /\ (\A v \in Workers \ {w} : pc'[v] = pc[v])
      /\ index' = [index EXCEPT ![arg[w]] = held[w]]
  BY DEF Insert, PutEntry, Goto, Drained, TypeOK
<1>2. /\ held[w] \in Repos /\ arg[w] \in Paths /\ Loading(w)
      /\ content[held[w]] = changed[arg[w]]
  BY <1>1 DEF HandsFull, Loading, Currency, LoadIsCurrent, TypeOK
<1>3. \A p \in Paths : index'[p] = IF p = arg[w] THEN held[w] ELSE index[p]
  BY <1>1, <1>2 DEF TypeOK
<1> USE <1>1 DEF tree, disk, local
<1>4. Dated' /\ RowIsTrue' /\ OnlyIndexStamps' /\ StampIsTrue'
  BY DEF Currency, Dated, RowIsTrue, OnlyIndexStamps, StampIsTrue
<1>5. LoadIsCurrent'
  BY <1>2 DEF Currency, LoadIsCurrent, Loading
<1>6. EntryIsNoOlder'
  <2> SUFFICES ASSUME NEW v \in Workers, pc'[v] \in {"use", "stamp", "upsert"}, op[v] = "index"
               PROVE  /\ content[held[v]] <= changed[arg[v]]
                      /\ index'[arg[v]] # NoRepo => content[held[v]] <= content[index'[arg[v]]]
    BY DEF EntryIsNoOlder
  <2>1. CASE v = w
    BY <2>1, <1>2, <1>3 DEF TypeOK, Times
  <2>2. CASE v # w
    BY <2>2, <1>2, <1>3 DEF Currency, EntryIsNoOlder, TypeOK
  <2> QED
    BY <2>1, <2>2
<1>7. RowNeverAhead'
  BY <1>2, <1>3 DEF Currency, RowNeverAhead, Dated, TypeOK
<1> QED
  BY <1>4, <1>5, <1>6, <1>7 DEF Currency

(* index_repository reads the clock while its load is still current, and     *)
(* stores what it then wrote down.                                           *)
LEMMA RowKeeps ==
  ASSUME TypeOK, HandsFull, Currency, NEW w \in Workers, Stamp(w) \/ Upsert(w)
  PROVE  Currency'
<1> USE NoRepoAssumption
<1>1. CASE Stamp(w)
  <2>1. /\ UNCHANGED <<tree, disk, content, index, op, arg, held>> /\ pc[w] = "stamp"
        /\ pc'[w] = "upsert" /\ at'[w] = clock
        /\ \A v \in Workers \ {w} : pc'[v] = pc[v] /\ at'[v] = at[v]
    BY <1>1 DEF Stamp, Now, Goto, TypeOK, heap
  <2>2. held[w] \in Repos /\ op[w] = "index" /\ arg[w] \in Paths
    BY <2>1 DEF HandsFull, Currency, OnlyIndexStamps, TypeOK
  <2>3. content[held[w]] = changed[arg[w]]
    BY <2>1, <2>2 DEF Currency, LoadIsCurrent, Loading
  <2> USE <2>1 DEF tree, disk
  <2>4. Dated'
    BY DEF Currency, Dated, TypeOK, Times
  <2>5. LoadIsCurrent' /\ EntryIsNoOlder' /\ RowIsTrue' /\ RowNeverAhead'
    BY DEF Currency, LoadIsCurrent, Loading, EntryIsNoOlder, RowIsTrue, RowNeverAhead
  <2>6. StampIsTrue'
    BY <2>2, <2>3 DEF Currency, StampIsTrue, Dated
  <2>7. OnlyIndexStamps'
    BY <2>2 DEF Currency, OnlyIndexStamps
  <2> QED
    BY <2>4, <2>5, <2>6, <2>7 DEF Currency
<1>2. CASE Upsert(w)
  <2> DEFINE p == arg[w]
             c == content[held[w]]
  <2>1. /\ UNCHANGED <<tree, content, index>> /\ pc[w] = "upsert" /\ pc'[w] = "idle" /\ at'[w] = 0
        /\ \A v \in Workers \ {w} : /\ pc'[v] = pc[v] /\ at'[v] = at[v] /\ op'[v] = op[v]
                                    /\ arg'[v] = arg[v] /\ held'[v] = held[v]
    BY <1>2 DEF Upsert, Return, Goto, TypeOK, heap
  <2>2. /\ p \in Paths /\ rows' = rows \cup {p}
        /\ \A q \in Paths : /\ indexedAt'[q] = IF q = p THEN at[w] ELSE indexedAt[q]
                            /\ rowContent'[q] = IF q = p THEN c ELSE rowContent[q]
    BY <1>2 DEF Upsert, RowTime, TypeOK
  <2>3. /\ c <= changed[p] /\ (index[p] # NoRepo => c <= content[index[p]])
        /\ newest[p] <= at[w] => newest[p] <= c
    BY <2>1 DEF Currency, OnlyIndexStamps, EntryIsNoOlder, StampIsTrue
  <2> HIDE DEF p, c
  <2> USE <2>1, <2>2, <2>3 DEF tree
  <2>4. Dated'
    BY DEF Currency, Dated, TypeOK, Times
  <2>5. LoadIsCurrent' /\ EntryIsNoOlder'
    BY DEF Currency, LoadIsCurrent, Loading, EntryIsNoOlder
  <2>6. StampIsTrue' /\ OnlyIndexStamps'
    BY DEF Currency, StampIsTrue, OnlyIndexStamps
  <2>7. RowIsTrue' /\ RowNeverAhead'
    BY DEF Currency, RowIsTrue, RowNeverAhead, TypeOK
  <2> QED
    BY <2>4, <2>5, <2>6, <2>7 DEF Currency
<1> QED
  BY <1>1, <1>2

(* The steps of a load between the read and the row that move only the       *)
(* request.                                                                  *)
LEMMA LoadMovesOn ==
  ASSUME TypeOK, HandsFull, Currency, NEW w \in Workers,
         Fetch(w) \/ (Use(w) /\ op[w] = "index")
  PROVE  Currency'
<1>1. /\ UNCHANGED <<tree, disk, content, index, op, arg, held, at>>
      /\ (pc[w] = "fetch" /\ pc'[w] = "insert") \/ (pc[w] = "use" /\ pc'[w] = "stamp" /\ op[w] = "index")
      /\ \A v \in Workers \ {w} : pc'[v] = pc[v]
  BY DEF Fetch, Use, Goto, TypeOK, heap, local
<1> USE <1>1 DEF tree, disk
<1>2. Dated' /\ RowIsTrue' /\ RowNeverAhead' /\ StampIsTrue' /\ OnlyIndexStamps'
  BY DEF Currency, Dated, RowIsTrue, RowNeverAhead, StampIsTrue, OnlyIndexStamps
<1>3. LoadIsCurrent' /\ EntryIsNoOlder'
  BY DEF Currency, LoadIsCurrent, Loading, EntryIsNoOlder
<1> QED
  BY <1>2, <1>3 DEF Currency


(* What a warm project serves keeps up with its rows and its tree.           *)
LEMMA CurrencyStep ==
  ASSUME QuietLoads, DrainFirst, TypeOK, Ownership, Drained, Currency, [Next]_vars
  PROVE  Currency'
<1> USE ClockAssumption DEF Times
<1>1. HandsFull /\ (\A w \in Workers : at[w] <= clock) /\ clock \in Nat
  BY DEF Ownership, Currency, Dated, TypeOK
<1>2. ASSUME NEW p \in Paths, Edit(p) \/ Remove(p) PROVE Currency'
  BY <1>1, <1>2, ChangeKeeps
<1>3. ASSUME NEW w \in Workers, UNCHANGED <<tree, content>>,
             rows' = rows /\ indexedAt' = indexedAt /\ rowContent' = rowContent,
             \A p \in Paths : index'[p] \in {index[p], NoRepo},
             \A v \in Workers \ {w} : /\ pc'[v] = pc[v] /\ op'[v] = op[v] /\ arg'[v] = arg[v]
                                      /\ held'[v] = held[v] /\ at'[v] = at[v],
             pc'[w] \notin {"fetch", "insert", "stamp", "upsert"},
             pc'[w] = "use" => op'[w] # "index",
             at'[w] <= clock
      PROVE  Currency'
  BY <1>3, NothingWritten
<1>4. ASSUME NEW w \in Workers, NEW o \in Ops, NEW p \in Paths, Start(w, o, p) PROVE Currency'
  <2>1. /\ pc'[w] \in {"row", "ixrow", "del"} /\ at' = at /\ held' = held
        /\ \A v \in Workers \ {w} : pc'[v] = pc[v] /\ op'[v] = op[v] /\ arg'[v] = arg[v]
    BY <1>4 DEF Start, Goto, TypeOK
  <2> QED
    BY <1>1, <1>3, <1>4, <2>1 DEF Start, disk, heap
<1>5. ASSUME NEW w \in Workers, Return(w)
      PROVE  /\ pc'[w] = "idle" /\ at'[w] = 0
             /\ \A v \in Workers \ {w} : /\ pc'[v] = pc[v] /\ op'[v] = op[v] /\ arg'[v] = arg[v]
                                         /\ held'[v] = held[v] /\ at'[v] = at[v]
  BY <1>5 DEF Return, Goto, TypeOK
<1>6. ASSUME NEW w \in Workers, NEW l \in Labels, Goto(w, l)
      PROVE  pc'[w] = l /\ \A v \in Workers \ {w} : pc'[v] = pc[v]
  BY <1>6 DEF Goto, TypeOK
<1>7. ASSUME NEW w \in Workers, Return(w), UNCHANGED <<tree, content, rows, indexedAt, rowContent, index>>
      PROVE  Currency'
  BY <1>1, <1>3, <1>5, <1>7
<1>8. ASSUME NEW w \in Workers, NEW l \in Labels, Goto(w, l),
             l \notin {"fetch", "insert", "use", "stamp", "upsert"},
             UNCHANGED <<tree, content, rows, indexedAt, rowContent, index, op, arg, held, at>>
      PROVE  Currency'
  BY <1>1, <1>3, <1>6, <1>8
<1>9. ASSUME NEW w \in Workers, CheckRow(w) \/ LookupIndex(w) \/ Fail(w) \/ RemoveCache(w) \/ Open(w)
      PROVE  Currency'
  BY <1>7, <1>8, <1>9 DEF CheckRow, LookupIndex, Fail, RemoveCache, Open, Labels, local, disk, heap
<1>10. ASSUME NEW w \in Workers, Get(w) PROVE Currency'
  <2>1. CASE Return(w) \/ (Goto(w, "open") /\ UNCHANGED local)
    BY <1>7, <1>8, <1>10, <2>1 DEF Get, Labels, local, disk, heap
  <2>2. CASE /\ op[w] = "resolve" /\ Goto(w, "use") /\ UNCHANGED <<op, arg, handle, at>>
             /\ held' = [held EXCEPT ![w] = index[arg[w]]]
    <3>1. \A v \in Workers \ {w} : held'[v] = held[v]
      BY <2>2 DEF TypeOK
    <3>2. pc'[w] = "use" /\ \A v \in Workers \ {w} : pc'[v] = pc[v]
      BY <2>2, <1>6 DEF Labels
    <3> QED
      BY <1>1, <1>3, <1>10, <2>2, <3>1, <3>2 DEF Get, disk, heap
  <2> QED
    BY <1>10, <2>1, <2>2 DEF Get
<1>11. ASSUME NEW w \in Workers, IxRow(w) \/ IxFresh(w) PROVE Currency'
  <2>1. /\ pc'[w] \in {"open", "ixfresh", "for"} /\ UNCHANGED <<tree, disk, content, index, held, arg>>
        /\ \A v \in Workers \ {w} : pc'[v] = pc[v] /\ op'[v] = op[v] /\ at'[v] = at[v]
    BY <1>11 DEF IxRow, IxFresh, Goto, TypeOK, heap
  <2>2. at'[w] <= clock
    BY <1>1, <1>11 DEF IxRow, IxFresh, TypeOK, Currency, Dated
  <2> QED
    BY <1>3, <2>1, <2>2 DEF disk
<1>12. ASSUME NEW w \in Workers, EvictFetch(w) PROVE Currency'
  BY <1>8, <1>12 DEF EvictFetch, Labels, disk, heap
<1>13. ASSUME NEW w \in Workers, Evict(w) PROVE Currency'
  <2>1. \A p \in Paths : index'[p] \in {index[p], NoRepo}
    BY <1>13 DEF Evict, TypeOK
  <2>2. pc'[w] = "rmcache" /\ \A v \in Workers \ {w} : pc'[v] = pc[v]
    BY <1>13 DEF Evict, Goto, TypeOK
  <2> QED
    BY <1>1, <1>3, <1>13, <2>1, <2>2 DEF Evict, disk, local
<1>14. ASSUME NEW w \in Workers, DeleteRow(w) PROVE Currency'
  <2>1. /\ pc'[w] = "evictfor" /\ UNCHANGED <<tree, content, index, local>>
        /\ (\A v \in Workers \ {w} : pc'[v] = pc[v]) /\ rows' = rows \ {arg[w]}
    BY <1>14 DEF DeleteRow, Goto, TypeOK, heap
  <2>2. \A p \in Paths : \/ indexedAt'[p] = indexedAt[p] /\ rowContent'[p] = rowContent[p]
                         \/ p \notin rows' /\ indexedAt'[p] = 0 /\ rowContent'[p] = 0
    BY <1>14, <2>1 DEF DeleteRow, TypeOK
  <2> QED
    BY <1>1, <2>1, <2>2, NothingWritten DEF local
<1>15. ASSUME NEW w \in Workers, Use(w), op[w] # "index" PROVE Currency'
  BY <1>7, <1>15 DEF Use, disk
<1>16. ASSUME NEW w \in Workers, Step(w) PROVE Currency'
  BY <1>1, <1>9, <1>10, <1>11, <1>12, <1>13, <1>14, <1>15, <1>16, LoadKeeps, PutKeeps, RowKeeps, LoadMovesOn
     DEF Step
<1>17. CASE CloseIndex \/ Unbind \/ UNCHANGED vars
  <2>1. /\ UNCHANGED <<tree, disk, content, pc, local>>
        /\ \A p \in Paths : index'[p] \in {index[p], NoRepo}
    BY <1>17 DEF CloseIndex, Unbind, vars, heap, NoEntries
  <2> QED
    BY <2>1, NothingWritten DEF disk, local
<1>18. CASE Restart
  <2>1. Dated' /\ LoadIsCurrent' /\ EntryIsNoOlder' /\ StampIsTrue' /\ OnlyIndexStamps' /\ RowNeverAhead'
    BY <1>1, <1>18 DEF Restart, Currency, Dated, LoadIsCurrent, Loading, EntryIsNoOlder, StampIsTrue,
                OnlyIndexStamps, RowNeverAhead, NoEntries, TypeOK, tree, disk
  <2>2. RowIsTrue'
    BY <1>18 DEF Restart, Currency, RowIsTrue, tree, disk
  <2> QED
    BY <2>1, <2>2 DEF Currency
<1> QED
  BY <1>2, <1>4, <1>16, <1>17, <1>18 DEF Next, Environment

(* When requests are drained before Index.Close, no request runs and no      *)
(* entry is left after it.                                                   *)
LEMMA AlwaysDrained ==
  ASSUME DrainFirst
  PROVE  Spec => [](IInv /\ Drained)
<1>1. Init => Drained
  BY DEF Init, Drained
<1>2. IInv /\ Drained /\ [Next]_vars => Drained'
  BY DrainedStep DEF IInv
<1> QED
  BY <1>1, <1>2, Inductive, PTL DEF Spec

(* When the process has drained its requests and ended its index, no         *)
(* language server is left.                                                  *)
THEOREM NoServerOutlives ==
  ASSUME DrainFirst
  PROVE  Spec => []ShutdownReapsServers
<1>1. IInv /\ Drained => ShutdownReapsServers
  <2> SUFFICES ASSUME IInv, Drained, daemon = "unbound", NEW r \in live PROVE FALSE
    BY DEF ShutdownReapsServers
  <2>1. index = NoEntries /\ (\A w \in Workers : pc[w] = "idle") /\ r \in Repos
    BY DEF Drained, IInv, TypeOK
  <2>2. r \notin pinned
    BY <2>1, NoRepoAssumption DEF IInv, PinnedIndexed, NoEntries, TypeOK
  <2> QED
    BY <2>1, <2>2 DEF IInv, PrivateHeld
<1> QED
  BY <1>1, AlwaysDrained, PTL

(* The first state has no row, no entry and no request.                      *)
LEMMA CurrencyInit == Init => Currency
  BY DEF Init, Currency, Dated, LoadIsCurrent, Loading, EntryIsNoOlder, RowIsTrue, StampIsTrue,
         OnlyIndexStamps, RowNeverAhead, NoEntries

(* ... so, loads undisturbed, entries and rows agree in every state.         *)
LEMMA AlwaysCurrent ==
  ASSUME QuietLoads, DrainFirst
  PROVE  Spec => []Currency
<1>1. IInv /\ Drained /\ Currency /\ [Next]_vars => Currency'
  BY CurrencyStep DEF IInv, Ownership
<1> QED
  BY <1>1, CurrencyInit, AlwaysDrained, PTL DEF Spec

(* What list_projects says was indexed is what a Resolve serves: the warm    *)
(* repo is never older than the load its row describes.                      *)
THEOREM WarmIsWhatWasIndexed ==
  ASSUME QuietLoads, DrainFirst
  PROVE  Spec => []RowNeverAhead
<1>1. Currency => RowNeverAhead
  BY DEF Currency
<1> QED
  BY <1>1, AlwaysCurrent, PTL

(* "You were already up to date": a project the freshness rule accepts is    *)
(* served from a repo that has seen every change that left a file behind.    *)
THEOREM UpToDateIsUpToDate ==
  ASSUME QuietLoads, DrainFirst
  PROVE  Spec => []FreshMeansCurrent
<1>1. IInv /\ Currency => FreshMeansCurrent
  <2> SUFFICES ASSUME IInv, Currency, NEW p \in Paths, Fresh(p), index[p] # NoRepo
               PROVE  content[index[p]] >= newest[p]
    BY DEF FreshMeansCurrent
  <2>1. newest[p] <= rowContent[p] /\ rowContent[p] <= content[index[p]]
    BY DEF Currency, RowIsTrue, RowNeverAhead, Fresh
  <2> QED
    BY <2>1, ClockAssumption DEF IInv, TypeOK, Times
<1> QED
  BY <1>1, AlwaysCurrent, Inductive, PTL
=============================================================================
