-------------------------- MODULE RegistryFileProofs --------------------------
(***************************************************************************)
(* Proofs about RegistryFile, for any goroutines, paths and entries.       *)
(***************************************************************************)
EXTENDS RegistryFile, TLAPS

(***************************************************************************)
(* The inductive invariant.                                                *)
(***************************************************************************)

(* Who is past Lock in an operation that takes it, up to its Unlock.       *)
Holding(c) ==
  \/ pc[c] \in {"change", "write", "rename", "cleanup"}
  \/ op[c] # "list" /\ pc[c] \in {"read", "quarantine", "return"}

(* Registry.mu excludes: the holder is the only one between the two.       *)
Exclusive == \A c \in Clients : Holding(c) => mu = c

(* While the file is good, what a writer has loaded is the file, and what  *)
(* it is about to store is the file with its own row changed: nobody else  *)
(* stores in between, and a file that was missing or damaged does not      *)
(* become good by itself.                                                  *)
BookIsFile ==
  \A c \in Clients : file \in Books =>
    /\ pc[c] = "change" => book[c] = file
    /\ pc[c] \in {"write", "rename"} => book[c] = [file EXCEPT ![row[c][1]] = row[c][2]]

(* The temporary file is whole when it is renamed.                         *)
Whole == \A c \in Clients : pc[c] = "rename" => temp[c] = book[c]

IInv == TypeOK /\ Exclusive /\ BookIsFile /\ Whole /\ NoLitter

-----------------------------------------------------------------------------
(* The row of nobody is a row.                                             *)
LEMMA NoRowType == NoRow \in Rows /\ Empty \in Books
  BY PathsAssumption DEF NoRow, Rows, Empty, Books

(* A row is a path and an entry or none.                                   *)
LEMMA RowType ==
  ASSUME NEW r \in Rows
  PROVE  r[1] \in Paths /\ r[2] \in Stamps \cup {None}
  BY DEF Rows

(* A row put into a book, or taken out of it, leaves a book.               *)
LEMMA BookType ==
  ASSUME NEW b \in Books, NEW r \in Rows
  PROVE  [b EXCEPT ![r[1]] = r[2]] \in Books
  BY RowType DEF Books

LEMMA InvInit == Init => IInv
<1> SUFFICES ASSUME Init PROVE IInv
  OBVIOUS
<1>1. TypeOK
  BY NoRowType DEF Init, TypeOK, Ops
<1> QED
  BY <1>1 DEF Init, IInv, Exclusive, Holding, BookIsFile, Whole, NoLitter

-----------------------------------------------------------------------------
(* A step of one operation. *)
Step(c) ==
  \/ \E o \in Ops, r \in Rows : Begin(c, o, r)
  \/ Lock(c) \/ Read(c) \/ Quarantine(c) \/ Change(c) \/ Write(c)
  \/ Rename(c) \/ Cleanup(c) \/ Finish(c)

(* No step leaves the types.                                               *)
LEMMA TypeStep == TypeOK /\ Whole /\ [Next]_vars => TypeOK'
<1> SUFFICES ASSUME TypeOK, Whole, [Next]_vars PROVE TypeOK'
  OBVIOUS
<1> USE NoRowType DEF TypeOK, Goto, local
<1>1. ASSUME NEW c \in Clients, Step(c) PROVE TypeOK'
  <2>1. CASE \E o \in Ops, r \in Rows : Begin(c, o, r)
    BY <2>1 DEF Begin
  <2>2. CASE Lock(c)
    BY <2>2 DEF Lock
  <2>3. CASE Read(c)
    <3>1. file # Corrupt => Loaded(file) \in Books
      BY DEF Loaded
    <3> QED
      BY <2>3, <3>1 DEF Read
  <2>4. CASE Quarantine(c)
    BY <2>4 DEF Quarantine
  <2>5. CASE Change(c)
    <3>1. [book[c] EXCEPT ![row[c][1]] = row[c][2]] \in Books
      BY BookType
    <3>2. CASE book' = [book EXCEPT ![c] = [book[c] EXCEPT ![row[c][1]] = row[c][2]]]
               /\ temp' = [temp EXCEPT ![c] = Corrupt] /\ Goto(c, "write")
      BY <2>5, <3>1, <3>2 DEF Change
    <3>3. CASE Goto(c, "return") /\ UNCHANGED <<book, temp>>
      BY <2>5, <3>3 DEF Change
    <3> QED
      BY <2>5, <3>2, <3>3 DEF Change
  <2>6. CASE Write(c)
    BY <2>6 DEF Write, Written, OnError
  <2>7. CASE Rename(c)
    <3>1. temp[c] \in Books
      BY <2>7 DEF Rename, Whole
    <3> QED
      BY <2>7, <3>1 DEF Rename, OnError
  <2>8. CASE Cleanup(c)
    BY <2>8 DEF Cleanup
  <2>9. CASE Finish(c)
    BY <2>9 DEF Finish, Ops
  <2> QED
    BY <1>1, <2>1, <2>2, <2>3, <2>4, <2>5, <2>6, <2>7, <2>8, <2>9 DEF Step
<1>2. CASE Crash
  BY <1>2 DEF Crash, Ops
<1>3. CASE Damage
  BY <1>3 DEF Damage
<1>4. CASE UNCHANGED vars
  BY <1>4 DEF vars
<1> QED
  BY <1>1, <1>2, <1>3, <1>4 DEF Next, Step

(* One goroutine steps, the others keep their place and what they have.    *)
LEMMA OneMoves ==
  ASSUME TypeOK, NEW c \in Clients, Step(c), NEW d \in Clients, d # c
  PROVE  /\ pc'[d] = pc[d] /\ op'[d] = op[d] /\ row'[d] = row[d]
         /\ book'[d] = book[d] /\ temp'[d] = temp[d]
  BY DEF Step, Begin, Lock, Read, Quarantine, Change, Write, Rename, Cleanup, Finish,
         Goto, local, TypeOK

(* Who holds the lock afterwards held it before, or has just taken it from *)
(* nobody; it changes hands only so.                                       *)
LEMMA LockStep ==
  ASSUME TypeOK, Exclusive, NEW c \in Clients, Step(c)
  PROVE  /\ Holding(c)' => mu' = c
         /\ \A d \in Clients \ {c} : Holding(d) => mu' = d
<1> USE NoneAssumption DEF TypeOK, Goto, local, Holding, Exclusive
<1>1. CASE \E o \in Ops, r \in Rows : Begin(c, o, r)
  BY <1>1 DEF Begin
<1>2. CASE Lock(c)
  BY <1>2 DEF Lock, MuFree
<1>3. CASE Read(c)
  BY <1>3 DEF Read
<1>4. CASE Quarantine(c) \/ Change(c)
  BY <1>4 DEF Quarantine, Change
<1>5. CASE Write(c) \/ Rename(c) \/ Cleanup(c)
  BY <1>5 DEF Write, Rename, Cleanup, OnError
<1>6. CASE Finish(c)
  BY <1>6 DEF Finish
<1> QED
  BY <1>1, <1>2, <1>3, <1>4, <1>5, <1>6 DEF Step

LEMMA ExclusiveStep == TypeOK /\ Exclusive /\ [Next]_vars => Exclusive'
<1> SUFFICES ASSUME TypeOK, Exclusive, [Next]_vars PROVE Exclusive'
  OBVIOUS
<1>1. ASSUME NEW c \in Clients, Step(c) PROVE Exclusive'
  <2> SUFFICES ASSUME NEW d \in Clients, Holding(d)' PROVE mu' = d
    BY DEF Exclusive
  <2>1. CASE d = c
    BY <1>1, <2>1, LockStep
  <2>2. CASE d # c
    <3>1. Holding(d)
      BY <1>1, <2>2, OneMoves DEF Holding
    <3> QED
      BY <1>1, <2>2, <3>1, LockStep
  <2> QED
    BY <2>1, <2>2
<1>2. CASE Crash
  BY <1>2 DEF Crash, Exclusive, Holding
<1>3. CASE Damage \/ UNCHANGED vars
  BY <1>3 DEF Damage, vars, local, Exclusive, Holding
<1> QED
  BY <1>1, <1>2, <1>3 DEF Next, Step

(* Only the holder of the lock stores.                                     *)
LEMMA FileStep ==
  ASSUME TypeOK, Exclusive, NEW c \in Clients, Step(c), file' \in Books, file' # file
  PROVE  mu = c /\ pc[c] = "rename" /\ pc'[c] = "return" /\ file' = temp[c]
  BY FileAssumption DEF Step, Begin, Lock, Read, Quarantine, Change, Write, Rename, Cleanup, Finish,
         Goto, local, TypeOK, Exclusive, Holding

LEMMA BookStep == TypeOK /\ Exclusive /\ BookIsFile /\ [Next]_vars => BookIsFile'
<1> SUFFICES ASSUME TypeOK, Exclusive, BookIsFile, [Next]_vars PROVE BookIsFile'
  OBVIOUS
<1> USE FileAssumption DEF TypeOK, Goto, local
<1>1. ASSUME NEW c \in Clients, Step(c) PROVE BookIsFile'
  <2> SUFFICES ASSUME NEW d \in Clients, file' \in Books
               PROVE  /\ pc'[d] = "change" => book'[d] = file'
                      /\ pc'[d] \in {"write", "rename"} =>
                           book'[d] = [file' EXCEPT ![row'[d][1]] = row'[d][2]]
    BY DEF BookIsFile
  <2>1. CASE d # c
    <3>1. CASE file' = file
      BY <1>1, <2>1, <3>1, OneMoves DEF BookIsFile
    <3>2. CASE file' # file
      BY <1>1, <2>1, <3>2, OneMoves, FileStep DEF Exclusive, Holding
    <3> QED
      BY <3>1, <3>2
  <2>2. CASE d = c
    <3>1. CASE \/ \E o \in Ops, r \in Rows : Begin(c, o, r)
               \/ Lock(c) \/ Quarantine(c) \/ Cleanup(c) \/ Finish(c) \/ Rename(c)
      BY <2>2, <3>1 DEF Begin, Lock, Quarantine, Cleanup, Finish, Rename, OnError
    <3>2. CASE Read(c)
      BY <2>2, <3>2 DEF Read, Loaded
    <3>3. CASE Change(c)
      BY <2>2, <3>3 DEF Change, BookIsFile
    <3>4. CASE Write(c)
      BY <2>2, <3>4 DEF Write, OnError, BookIsFile
    <3> QED
      BY <1>1, <3>1, <3>2, <3>3, <3>4 DEF Step
  <2> QED
    BY <2>1, <2>2
<1>2. CASE Crash
  BY <1>2 DEF Crash, BookIsFile
<1>3. CASE Damage
  BY <1>3 DEF Damage, BookIsFile
<1>4. CASE UNCHANGED vars
  BY <1>4 DEF vars, BookIsFile
<1> QED
  BY <1>1, <1>2, <1>3, <1>4 DEF Next, Step

(* The temporary file: it is there for the holder of the lock only, and    *)
(* whole by the rename.                                                    *)
LEMMA TempStep == TypeOK /\ Exclusive /\ Whole /\ NoLitter /\ [Next]_vars => Whole' /\ NoLitter'
<1> SUFFICES ASSUME TypeOK, Exclusive, Whole, NoLitter, [Next]_vars PROVE Whole' /\ NoLitter'
  OBVIOUS
<1> USE DEF TypeOK, Goto, local, Whole, NoLitter
<1>1. ASSUME NEW c \in Clients, Step(c) PROVE Whole' /\ NoLitter'
  <2> SUFFICES ASSUME NEW d \in Clients
               PROVE  /\ pc'[d] = "rename" => temp'[d] = book'[d]
                      /\ temp'[d] # None => mu' = d /\ pc'[d] \in {"write", "rename", "cleanup"}
    OBVIOUS
  <2>1. CASE d # c
    BY <1>1, <2>1, OneMoves, LockStep DEF Holding
  <2>2. CASE d = c
    <3>1. CASE \/ \E o \in Ops, r \in Rows : Begin(c, o, r)
               \/ Lock(c) \/ Read(c) \/ Quarantine(c) \/ Finish(c)
      BY <2>2, <3>1 DEF Begin, Lock, Read, Quarantine, Finish
    <3>2. CASE Change(c)
      BY <2>2, <3>2 DEF Change, Exclusive, Holding
    <3>3. CASE Write(c)
      BY <2>2, <3>3 DEF Write, Written, OnError, Exclusive, Holding
    <3>4. CASE Rename(c) \/ Cleanup(c)
      BY <2>2, <3>4 DEF Rename, Cleanup, OnError, Exclusive, Holding
    <3> QED
      BY <1>1, <3>1, <3>2, <3>3, <3>4 DEF Step
  <2> QED
    BY <2>1, <2>2
<1>2. CASE Crash
  BY <1>2 DEF Crash
<1>3. CASE Damage \/ UNCHANGED vars
  BY <1>3 DEF Damage, vars
<1> QED
  BY <1>1, <1>2, <1>3 DEF Next, Step

LEMMA InvStep == IInv /\ [Next]_vars => IInv'
  BY TypeStep, ExclusiveStep, BookStep, TempStep DEF IInv

-----------------------------------------------------------------------------
(* The invariant holds in every state of the registry.                     *)
THEOREM Inductive == Spec => []IInv
  BY InvInit, InvStep, PTL DEF Spec

(* Every variable keeps its type: what load hands out and what is renamed  *)
(* over projects.json are registries.                                      *)
THEOREM TypeCorrect == Spec => []TypeOK
<1>1. IInv => TypeOK
  BY DEF IInv
<1> QED
  BY Inductive, <1>1, PTL

(* Only a writer that holds Registry.mu, between the creation of its       *)
(* temporary file and the deferred os.Remove, has one on disk.             *)
THEOREM NoLitterLeft == Spec => []NoLitter
<1>1. IInv => NoLitter
  BY DEF IInv
<1> QED
  BY Inductive, <1>1, PTL

(* A store changes the one row it is about and keeps the rest of the file: *)
(* the file is still the one its writer loaded under the lock, for any     *)
(* number of writers, paths and entries.                                   *)
THEOREM NoUpdateLost == Spec => NoLostUpdate
<1> DEFINE Stored == {file, file'} \subseteq Books /\ file' # file => \E c \in Clients : OneRow(c)
<1>1. IInv /\ [Next]_vars => Stored
  <2> SUFFICES ASSUME IInv, [Next]_vars, file \in Books, file' \in Books, file' # file
               PROVE  \E c \in Clients : OneRow(c)
    OBVIOUS
  <2>1. ASSUME NEW c \in Clients, Step(c) PROVE OneRow(c)
    <3>1. mu = c /\ pc[c] = "rename" /\ file' = temp[c]
      BY <2>1, FileStep DEF IInv
    <3>2. temp[c] = [file EXCEPT ![row[c][1]] = row[c][2]]
      BY <3>1 DEF IInv, Whole, BookIsFile
    <3> QED
      BY <3>1, <3>2 DEF OneRow
  <2>2. CASE Crash \/ UNCHANGED vars
    BY <2>2 DEF Crash, vars
  <2>3. CASE Damage
    BY <2>3, FileAssumption DEF Damage
  <2> QED
    BY <2>1, <2>2, <2>3 DEF Next, Step
<1>2. [][Stored]_vars => NoLostUpdate
  BY PTL DEF NoLostUpdate
<1>3. Spec => [][Stored]_vars
  <2> HIDE DEF Stored
  <2> QED
    BY Inductive, <1>1, PTL DEF Spec
<1> QED
  BY <1>2, <1>3

(* No step of the registry leaves a file that does not parse: the rename   *)
(* puts a whole file in the place of the old one, and nothing else writes  *)
(* projects.json.                                                          *)
THEOREM NeverHalfWritten == Spec => NeverTorn
<1> DEFINE Tears == file' = Corrupt /\ file # Corrupt => UNCHANGED <<temp, mu, pc>>
<1>1. IInv /\ [Next]_vars => Tears
  <2> SUFFICES ASSUME IInv, [Next]_vars, file' = Corrupt, file # Corrupt
               PROVE  UNCHANGED <<temp, mu, pc>>
    OBVIOUS
  <2>1. ASSUME NEW c \in Clients, Step(c) PROVE FALSE
    <3>1. file' # file
      OBVIOUS
    <3>2. CASE Quarantine(c)
      BY <3>1, <3>2, NoneAssumption DEF Quarantine
    <3>3. CASE Rename(c)
      <4>1. temp[c] \in Books
        BY <3>3 DEF Rename, IInv, Whole, TypeOK
      <4> QED
        BY <3>1, <3>3, <4>1, FileAssumption DEF Rename
    <3> QED
      BY <2>1, <3>1, <3>2, <3>3 DEF Step, Begin, Lock, Read, Change, Write, Cleanup, Finish
  <2>2. CASE Crash \/ UNCHANGED vars
    BY <2>2 DEF Crash, vars
  <2>3. CASE Damage
    BY <2>3 DEF Damage
  <2> QED
    BY <2>1, <2>2, <2>3 DEF Next, Step
<1>2. Spec => [][Tears]_vars
  <2> HIDE DEF Tears
  <2> QED
    BY Inductive, <1>1, PTL DEF Spec
<1> QED
  BY <1>2 DEF NeverTorn
=============================================================================
