----------------------------- MODULE SymbolLookup -----------------------------
(***************************************************************************)
(* store.Repo.Lookup, called by concurrent requests on one warm repo.  The *)
(* bucket of a name is a slice of the index that every reader shares; it   *)
(* is in the order in which rebuildIndex met the files, which is the order *)
(* of a Go map, and each Lookup sorts it in place while it holds the read  *)
(* lock, which keeps no other reader out.                                  *)
(*                                                                         *)
(* sort.Slice does an insertion sort for a slice this short, and swaps two *)
(* elements by three moves; a step is one comparison or one move.          *)
(***************************************************************************)
EXTENDS Integers, Sequences, SequencesExt

CONSTANTS Readers, \* requests that look the name up
          Size     \* declarations of the name, the i-th in the i-th file

VARIABLES
  bucket,   \* idx.byName[symbolKey{"", name}]
  pc, i, j, \* a reader in sort.Slice
  hold,     \* the element a swap has in hand
  out       \* the copy that Lookup returns

vars == <<bucket, pc, i, j, hold, out>>

Init ==
  /\ bucket \in SetToSeqs(1..Size)
  /\ pc = [r \in Readers |-> "idle"]
  /\ i = [r \in Readers |-> 0] /\ j = [r \in Readers |-> 0]
  /\ hold = [r \in Readers |-> 0]
  /\ out = [r \in Readers |-> <<>>]

Go(r, step) == pc' = [pc EXCEPT ![r] = step]
Set(n, entry) == bucket' = [bucket EXCEPT ![n] = entry]

Lookup(r) ==
  /\ pc[r] \in {"idle", "done"}
  /\ i' = [i EXCEPT ![r] = 2] /\ j' = [j EXCEPT ![r] = 2]
  /\ out' = [out EXCEPT ![r] = <<>>]
  /\ Go(r, "compare") /\ UNCHANGED <<bucket, hold>>

(* raw[j].file < raw[j-1].file *)
Compare(r) ==
  /\ pc[r] = "compare"
  /\ IF i[r] > Size
       THEN Go(r, "copy") /\ UNCHANGED <<i, j>>
       ELSE IF j[r] > 1 /\ bucket[j[r]] < bucket[j[r] - 1]
         THEN Go(r, "take") /\ UNCHANGED <<i, j>>
         ELSE i' = [i EXCEPT ![r] = @ + 1] /\ j' = [j EXCEPT ![r] = i[r] + 1] /\ UNCHANGED pc
  /\ UNCHANGED <<bucket, hold, out>>

(* tmp = a[j]; a[j] = a[j-1]; a[j-1] = tmp *)
Take(r) ==
  /\ pc[r] = "take"
  /\ hold' = [hold EXCEPT ![r] = bucket[j[r]]]
  /\ Go(r, "shift") /\ UNCHANGED <<bucket, i, j, out>>

Shift(r) ==
  /\ pc[r] = "shift"
  /\ Set(j[r], bucket[j[r] - 1])
  /\ Go(r, "drop") /\ UNCHANGED <<i, j, hold, out>>

Drop(r) ==
  /\ pc[r] = "drop"
  /\ Set(j[r] - 1, hold[r])
  /\ j' = [j EXCEPT ![r] = @ - 1] /\ hold' = [hold EXCEPT ![r] = 0]
  /\ Go(r, "compare") /\ UNCHANGED <<i, out>>

(* The answer is copied out under the same read lock. *)
Copy(r) ==
  /\ pc[r] = "copy"
  /\ out' = [out EXCEPT ![r] = Append(@, bucket[Len(@) + 1])]
  /\ Go(r, IF Len(out'[r]) = Size THEN "done" ELSE "copy")
  /\ UNCHANGED <<bucket, i, j, hold>>

Next == \E r \in Readers : Lookup(r) \/ Compare(r) \/ Take(r) \/ Shift(r) \/ Drop(r) \/ Copy(r)

Spec == Init /\ [][Next]_vars

(* What Lookup returns is every declaration of the name, once each and     *)
(* sorted by file, also when others look the name up at the same time.     *)
LookupComplete ==
  \A r \in Readers : pc[r] = "done" => out[r] = [n \in 1..Size |-> n]

=============================================================================
