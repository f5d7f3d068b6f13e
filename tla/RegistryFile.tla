---------------------------- MODULE RegistryFile ----------------------------
(***************************************************************************)
(* registry.Registry: the projects.json file and the goroutines of one     *)
(* process that read and write it.  Upsert and Delete hold Registry.mu     *)
(* from their load to the rename that ends their store; List and GetByPath *)
(* load without it.  Each action is one file operation.                    *)
(*                                                                         *)
(* An entry is its path and a stamp that stands for its other fields.      *)
(***************************************************************************)
CONSTANTS
  Clients,  \* goroutines that use the registry
  Paths,    \* project paths
  Stamps,   \* the entries that may be written at a path
  None,     \* no entry, no file, nobody
  Corrupt   \* a file that does not parse, or of which a part is written

ASSUME NoneAssumption == None \notin Stamps \cup Clients \cup {Corrupt}
ASSUME PathsAssumption == Paths # {}

VARIABLES
  file,    \* projects.json: None, Corrupt, or the entries it lists
  aside,   \* what was last renamed to .corrupt-<seconds>, if anything
  temp,    \* the temporary file of a store
  mu,      \* who holds Registry.mu
  pc,      \* where an operation is
  op,      \* what it is
  row,     \* the path and the stamp it is about
  book     \* what it loaded, and then what it stores

local == <<op, row>>
vars == <<file, aside, temp, mu, pc, local, book>>

Books == [Paths -> Stamps \cup {None}]
Empty == [p \in Paths |-> None]
Ops == {"upsert", "delete", "list"}
Rows == Paths \X (Stamps \cup {None})

(* A map is not a marker. *)
ASSUME FileAssumption == None \notin Books /\ Corrupt \notin Books

NoRow == <<CHOOSE p \in Paths : TRUE, None>>

TypeOK ==
  /\ file \in Books \cup {None, Corrupt}
  /\ aside \in Books \cup {None, Corrupt}
  /\ temp \in [Clients -> Books \cup {None, Corrupt}]
  /\ mu \in Clients \cup {None}
  /\ pc \in [Clients -> {"idle", "lock", "read", "quarantine", "change", "write",
                         "rename", "cleanup", "return"}]
  /\ op \in [Clients -> Ops]
  /\ row \in [Clients -> Rows]
  /\ book \in [Clients -> Books]

Init ==
  /\ file \in {None, Empty}
  /\ aside = None
  /\ temp = [c \in Clients |-> None]
  /\ mu = None
  /\ pc = [c \in Clients |-> "idle"]
  /\ op = [c \in Clients |-> "list"]
  /\ row = [c \in Clients |-> NoRow]
  /\ book = [c \in Clients |-> Empty]

-----------------------------------------------------------------------------
(* Faulty variants of helpers below, one per mutation check: a load that     *)
(* hands out a corrupt file; a lock that excludes nobody; a rename before    *)
(* the write; an error path that keeps the temporary file.                   *)
LoadsAnything(f) == f
NoLock == TRUE
Unwritten(c) == Corrupt
KeptOnError == "return"

-----------------------------------------------------------------------------
(* Helpers *)

Goto(c, label) == pc' = [pc EXCEPT ![c] = label]

(* load: a missing file is an empty registry. *)
Loaded(f) == IF f = None THEN Empty ELSE f

MuFree == mu = None

(* What the temporary file holds when it is renamed. *)
Written(c) == book[c]

(* Where store goes when it fails: the deferred os.Remove. *)
OnError == "cleanup"

-----------------------------------------------------------------------------
(* An operation begins; the writers take the lock. *)
Begin(c, o, r) ==
  /\ pc[c] = "idle"
  /\ IF o = "upsert" THEN r[2] # None ELSE r[2] = None
  /\ o = "list" => r = NoRow
  /\ Goto(c, IF o = "list" THEN "read" ELSE "lock")
  /\ op' = [op EXCEPT ![c] = o]
  /\ row' = [row EXCEPT ![c] = r]
  /\ UNCHANGED <<file, aside, temp, mu, book>>

Lock(c) ==
  /\ pc[c] = "lock"
  /\ MuFree
  /\ mu' = c
  /\ Goto(c, "read")
  /\ UNCHANGED <<file, aside, temp, local, book>>

(* os.ReadFile and the parse: a corrupt file, what the file lists, or an     *)
(* error that is returned.                                                   *)
Read(c) ==
  /\ pc[c] = "read"
  /\ \/ file = Corrupt /\ Goto(c, "quarantine") /\ UNCHANGED book
     \/ /\ file # Corrupt
        /\ book' = [book EXCEPT ![c] = Loaded(file)]
        /\ Goto(c, IF op[c] = "list" THEN "return" ELSE "change")
     \/ Goto(c, "return") /\ UNCHANGED book
  /\ UNCHANGED <<file, aside, temp, mu, local>>

(* os.Rename of whatever the file is by now, or of nothing; either way the   *)
(* operation fails.                                                          *)
Quarantine(c) ==
  /\ pc[c] = "quarantine"
  /\ \/ /\ file # None
        /\ aside' = file
        /\ file' = None
     \/ UNCHANGED <<file, aside>>
  /\ Goto(c, "return")
  /\ UNCHANGED <<temp, mu, local, book>>

(* The entry is replaced, added or removed; a Delete that finds none returns.*)
(* The store begins with the temporary file, if it can be created.           *)
Change(c) ==
  LET p == row[c][1] IN
  /\ pc[c] = "change"
  /\ \/ /\ (op[c] = "upsert" \/ book[c][p] # None)
        /\ book' = [book EXCEPT ![c][p] = row[c][2]]
        /\ temp' = [temp EXCEPT ![c] = Corrupt]
        /\ Goto(c, "write")
     \/ Goto(c, "return") /\ UNCHANGED <<book, temp>>
  /\ UNCHANGED <<file, aside, mu, local>>

Write(c) ==
  /\ pc[c] = "write"
  /\ \/ temp' = [temp EXCEPT ![c] = Written(c)] /\ Goto(c, "rename")
     \/ Goto(c, OnError) /\ UNCHANGED temp
  /\ UNCHANGED <<file, aside, mu, local, book>>

Rename(c) ==
  /\ pc[c] = "rename"
  /\ \/ file' = temp[c] /\ temp' = [temp EXCEPT ![c] = None] /\ Goto(c, "return")
     \/ Goto(c, OnError) /\ UNCHANGED <<file, temp>>
  /\ UNCHANGED <<aside, mu, local, book>>

Cleanup(c) ==
  /\ pc[c] = "cleanup"
  /\ temp' = [temp EXCEPT ![c] = None]
  /\ Goto(c, "return")
  /\ UNCHANGED <<file, aside, mu, local, book>>

(* The deferred Unlock. *)
Finish(c) ==
  /\ pc[c] = "return"
  /\ mu' = IF mu = c THEN None ELSE mu
  /\ Goto(c, "idle")
  /\ op' = [op EXCEPT ![c] = "list"]
  /\ row' = [row EXCEPT ![c] = NoRow]
  /\ book' = [book EXCEPT ![c] = Empty]
  /\ UNCHANGED <<file, aside, temp>>

(* The process dies, and another one starts: what is on disk stays.  Nobody  *)
(* looks at a temporary file again, so it is dropped here.                   *)
Crash ==
  /\ temp' = [c \in Clients |-> None]
  /\ mu' = None
  /\ pc' = [c \in Clients |-> "idle"]
  /\ op' = [c \in Clients |-> "list"]
  /\ row' = [c \in Clients |-> NoRow]
  /\ book' = [c \in Clients |-> Empty]
  /\ UNCHANGED <<file, aside>>

(* Somebody else damages the file. *)
Damage ==
  /\ file \in Books
  /\ file' = Corrupt
  /\ UNCHANGED <<aside, temp, mu, pc, local, book>>

Next ==
  \/ \E c \in Clients :
       \/ \E o \in Ops, r \in Rows : Begin(c, o, r)
       \/ Lock(c) \/ Read(c) \/ Quarantine(c) \/ Change(c) \/ Write(c)
       \/ Rename(c) \/ Cleanup(c) \/ Finish(c)
  \/ Crash
  \/ Damage

Spec == Init /\ [][Next]_vars

-----------------------------------------------------------------------------
(* A store changes one row, the one its writer is about, and keeps the rest. *)
OneRow(c) ==
  LET p == row[c][1] IN
  mu = c /\ file' = [file EXCEPT ![p] = row[c][2]]

(* No update is lost: as long as the file is good, a store changes the one   *)
(* row it is about and keeps what the other writers have stored, whatever    *)
(* was damaged, quarantined or lost in a crash in the meantime.              *)
NoLostUpdate ==
  [][{file, file'} \subseteq Books /\ file' # file =>
       \E c \in Clients : OneRow(c)]_vars

(* A reader, or a process that starts after a crash, never finds a part of   *)
(* a file: no step of the registry makes the file one that does not parse.   *)
NeverTorn ==
  [][file' = Corrupt /\ file # Corrupt => UNCHANGED <<temp, mu, pc>>]_vars

(* Every way out of a store removes its temporary file: only a crash leaves  *)
(* one behind.                                                               *)
NoLitter ==
  \A c \in Clients : temp[c] # None => mu = c /\ pc[c] \in {"write", "rename", "cleanup"}

(* A corrupt file is put aside "without losing the original bytes": only     *)
(* files that do not parse are put aside, never what a writer has stored     *)
(* since.                                                                    *)
OnlyCorruptAside == aside \in {None, Corrupt}
=============================================================================
