--------------------------- MODULE RepoLifecycle ---------------------------
(***************************************************************************)
(* What the warm index promises about the repos it hands out, without      *)
(* requests, registry, caches or locks.  A repo is born private to one     *)
(* request; it ends there, or is published at its own path and from then   *)
(* on belongs to that path, until another one is published there, it is    *)
(* retired, or the process closes or restarts.                             *)
(***************************************************************************)
CONSTANTS Paths, Repos, NoRepo

VARIABLES
  slot,    \* the repo published at each path
  state,   \* "none", "private" or "shared"
  root     \* the path a repo that is not "none" was loaded from

lvars == <<slot, state, root>>

LInit ==
  /\ slot = [p \in Paths |-> NoRepo]
  /\ state = [r \in Repos |-> "none"]
  /\ root \in [Repos -> Paths]

(* A request loads a project for itself. *)
Birth(r, p) ==
  /\ state[r] = "none"
  /\ state' = [state EXCEPT ![r] = "private"]
  /\ root' = [root EXCEPT ![r] = p]
  /\ UNCHANGED slot

(* The request that loaded it is done with it, and it was never published. *)
Drop(r) ==
  /\ state[r] = "private"
  /\ state' = [state EXCEPT ![r] = "none"]
  /\ UNCHANGED <<slot, root>>

(* It takes the slot of its own path, and the repo that was there ends. *)
Publish(r) ==
  /\ state[r] = "private"
  /\ state' = [q \in Repos |-> IF q = r THEN "shared"
                               ELSE IF q = slot[root[r]] THEN "none" ELSE state[q]]
  /\ slot' = [slot EXCEPT ![root[r]] = r]
  /\ UNCHANGED root

(* The path is evicted. *)
Retire(p) ==
  /\ slot' = [slot EXCEPT ![p] = NoRepo]
  /\ state' = [q \in Repos |-> IF q = slot[p] THEN "none" ELSE state[q]]
  /\ UNCHANGED root

(* The index is closed: all that was published ends. *)
RetireAll ==
  /\ slot' = [p \in Paths |-> NoRepo]
  /\ state' = [q \in Repos |-> IF state[q] = "shared" THEN "none" ELSE state[q]]
  /\ UNCHANGED root

(* The process is replaced. *)
Reset ==
  /\ slot' = [p \in Paths |-> NoRepo]
  /\ state' = [r \in Repos |-> "none"]
  /\ root' \in [Repos -> Paths]

LNext ==
  \/ \E r \in Repos : Drop(r) \/ Publish(r) \/ \E p \in Paths : Birth(r, p)
  \/ \E p \in Paths : Retire(p)
  \/ RetireAll
  \/ Reset

LSpec == LInit /\ [][LNext]_lvars
=============================================================================
