------------------------------- MODULE Dispatch -------------------------------
(***************************************************************************)
(* Requests to the MCP server (internal/mcp/server.go) and their lines in  *)
(* the audit log (internal/audit).  A stdio server is a process with one   *)
(* loop; the daemon handles each request in a goroutine and shares one     *)
(* logger, whose mutex guards a buffered writer.  All processes append to  *)
(* one file.                                                               *)
(*                                                                         *)
(* A request is its place on the input and a kind:                         *)
(*   call, silent    tools/call with and without an id                     *)
(*   unknown         tools/call of a tool there is not                     *)
(*   list            initialize and tools/list                             *)
(*   method          a method there is not, or no version 2.0              *)
(*   note, cancel    notifications/initialized and any other notification  *)
(*   blank, garbage  an empty line, and one that does not parse            *)
(*   huge            a tools/list longer than the scanner's 8 MiB          *)
(***************************************************************************)
EXTENDS Integers, Sequences, FiniteSets, SequencesExt

CONSTANTS
  Stdio,     \* stdio servers
  Handlers,  \* goroutines of the daemon
  Inputs,    \* sequences of kinds that a client may send
  MaxFaults  \* bound: failed writes, panics and kills

Kinds == {"call", "silent", "unknown", "list", "method", "note", "cancel", "blank", "garbage", "huge"}
Workers == Stdio \cup Handlers

DispatchAssumption ==
  /\ Stdio \cap Handlers = {} /\ "none" \notin Workers
  /\ Inputs \subseteq Seq(Kinds) /\ MaxFaults \in Nat

Daemon == 0
Process(w) == IF w \in Stdio THEN w ELSE Daemon
Processes == Stdio \cup {Daemon}

VARIABLES
  pc, cur,    \* of each worker: its step, the request at hand
  todo,       \* what its client has sent and it has not read
  wire,       \* the answers on its wire
  log,        \* lines of the audit file, [worker, request]
  buf,        \* bufio.Writer of each process
  broken,     \* processes whose writer has failed once, and drops lines since
  lock,       \* the worker that holds a logger's mutex, "none"
  signalled,  \* stdio servers whose context is cancelled
  faults      \* what is left of MaxFaults

vars == <<pc, cur, todo, wire, log, buf, broken, lock, signalled, faults>>

Request(n, kind) == [n |-> n, kind |-> kind]
NoRequest == Request(0, "blank")
Requests == [n : Nat, kind : Kinds]
Lines == [worker : Workers, request : Requests]
Line(w) == [worker |-> w, request |-> cur[w]]

Init ==
  /\ pc = [w \in Workers |-> "idle"] /\ cur = [w \in Workers |-> NoRequest]
  /\ todo \in [Workers -> {[n \in DOMAIN s |-> Request(n, s[n])] : s \in Inputs}]
  /\ wire = [w \in Workers |-> <<>>]
  /\ log = <<>> /\ buf = [p \in Processes |-> <<>>]
  /\ broken = {} /\ lock = [p \in Processes |-> "none"]
  /\ signalled = {} /\ faults = MaxFaults

Go(w, step) == pc' = [pc EXCEPT ![w] = step]
audit == <<log, buf, broken, lock>>

(***************************************************************************)
(* Serve.                                                                  *)
(***************************************************************************)
Ends(w) == w \in signalled \/ (w \in Stdio /\ Head(todo[w]).kind = "huge")
Skips(w) == w \in Stdio /\ Head(todo[w]).kind = "blank"
Audited(r) == r.kind \in {"call", "silent"}

(* On stdio a cancelled context is seen at the next line, which is lost;   *)
(* the daemon reads a whole body whatever it is.                           *)
Read(w) ==
  /\ pc[w] = "idle" /\ todo[w] # <<>>
  /\ todo' = [todo EXCEPT ![w] = Tail(@)]
  /\ LET r == Head(todo[w])
     IN \/ Ends(w) /\ Go(w, "ended") /\ UNCHANGED cur
        \/ ~Ends(w) /\ Skips(w) /\ UNCHANGED <<pc, cur>>
        \/ /\ ~Ends(w) /\ ~Skips(w)
           /\ cur' = [cur EXCEPT ![w] = r]
           /\ Go(w, IF Audited(r) THEN "handle" ELSE "answer")
  /\ UNCHANGED <<wire, audit, signalled, faults>>

(* End of input; no answer is under way. *)
EndOfInput(w) ==
  /\ pc[w] = "idle" /\ todo[w] = <<>> /\ Go(w, "ended")
  /\ UNCHANGED <<cur, todo, wire, audit, signalled, faults>>

(* The tool's handler returns, with a result or an error. *)
Handle(w) ==
  /\ pc[w] = "handle" /\ Go(w, "log")
  /\ UNCHANGED <<cur, todo, wire, audit, signalled, faults>>

(***************************************************************************)
(* LogToolCall, before the response is made.                               *)
(***************************************************************************)
Lock(w) ==
  /\ pc[w] = "log" /\ lock[Process(w)] = "none"
  /\ lock' = [lock EXCEPT ![Process(w)] = w] /\ Go(w, "write")
  /\ UNCHANGED <<cur, todo, wire, log, buf, broken, signalled, faults>>

(* Mutant: the line is left in the buffer. *)
WriteOnly(w) ==
  LET p == Process(w)
  IN /\ pc[w] = "write" /\ Go(w, "answer")
     /\ buf' = [buf EXCEPT ![p] = Append(@, Line(w))]
     /\ lock' = [lock EXCEPT ![p] = "none"]
     /\ UNCHANGED <<cur, todo, wire, log, broken, signalled, faults>>

Write(w) ==
  LET p == Process(w)
  IN /\ pc[w] = "write" /\ Go(w, "flush")
     /\ buf' = [buf EXCEPT ![p] = IF p \in broken THEN @ ELSE Append(@, Line(w))]
     /\ UNCHANGED <<cur, todo, wire, log, broken, lock, signalled, faults>>

(* One write to the file, at its end; one that fails stays with the writer. *)
Flush(w) ==
  LET p == Process(w)
  IN /\ pc[w] = "flush" /\ Go(w, "answer")
     /\ lock' = [lock EXCEPT ![p] = "none"]
     /\ buf' = [buf EXCEPT ![p] = <<>>]
     /\ \/ log' = log \o buf[p] /\ UNCHANGED <<broken, faults>>
        \/ /\ p \notin broken /\ faults > 0 /\ faults' = faults - 1
           /\ broken' = broken \cup {p} /\ UNCHANGED log
     /\ UNCHANGED <<cur, todo, wire, signalled>>

(***************************************************************************)
(* The answer.  On stdio what has no id and is no error is not written,    *)
(* which is so for notifications/initialized and for a call without an id; *)
(* the daemon answers every request with a body.                           *)
(***************************************************************************)
HasId(r) == r.kind \in {"call", "unknown", "list", "huge", "method"}
IsError(r) == r.kind \in {"unknown", "method", "cancel", "garbage", "blank"}
Writes(w) == w \in Handlers \/ HasId(cur[w]) \/ IsError(cur[w])

Answer(w) ==
  /\ pc[w] = "answer" /\ Go(w, "idle")
  /\ wire' = [wire EXCEPT ![w] = IF Writes(w) THEN Append(@, cur[w]) ELSE @]
  /\ cur' = [cur EXCEPT ![w] = NoRequest]
  /\ UNCHANGED <<todo, audit, signalled, faults>>

(***************************************************************************)
(* The environment.                                                        *)
(***************************************************************************)
Signal(w) ==
  /\ w \in Stdio \ signalled /\ pc[w] # "ended"
  /\ signalled' = signalled \cup {w}
  /\ UNCHANGED <<pc, cur, todo, wire, audit, faults>>

(* A panic in a handler, which nothing recovers, or a kill. *)
Die(p) ==
  /\ faults > 0 /\ faults' = faults - 1
  /\ \E w \in Workers : Process(w) = p /\ pc[w] # "ended"
  /\ pc' = [w \in Workers |-> IF Process(w) = p THEN "ended" ELSE pc[w]]
  /\ cur' = [w \in Workers |-> IF Process(w) = p THEN NoRequest ELSE cur[w]]
  /\ buf' = [buf EXCEPT ![p] = <<>>] /\ lock' = [lock EXCEPT ![p] = "none"]
  /\ UNCHANGED <<todo, wire, log, broken, signalled>>

Next ==
  \/ \E w \in Workers :
       \/ Read(w) \/ EndOfInput(w) \/ Handle(w)
       \/ Lock(w) \/ Write(w) \/ Flush(w) \/ Answer(w) \/ Signal(w)
  \/ \E p \in Processes : Die(p)

Spec == Init /\ [][Next]_vars

(***************************************************************************)
(* Properties.                                                             *)
(***************************************************************************)
TypeOK ==
  /\ pc \in [Workers -> {"idle", "handle", "log", "write", "flush", "answer", "ended"}]
  /\ cur \in [Workers -> Requests]
  /\ todo \in [Workers -> Seq(Requests)] /\ wire \in [Workers -> Seq(Requests)]
  /\ log \in Seq(Lines) /\ buf \in [Processes -> Seq(Lines)]
  /\ lock \in [Processes -> Workers \cup {"none"}] /\ broken \subseteq Processes
  /\ signalled \subseteq Stdio /\ faults \in 0..MaxFaults

Logged(w, r) == {n \in DOMAIN log : log[n] = [worker |-> w, request |-> r]}

(* A call that has its answer has its line in the audit file, just one,    *)
(* whichever goroutines and processes log at the same time and also when   *)
(* the process dies right after the answer, unless a write to the file     *)
(* has failed; answers are in the order of the requests, one to each.      *)
AnsweredIsLogged ==
  \A w \in Workers :
    /\ \A r \in ToSet(wire[w]) :
         Audited(r) /\ Process(w) \notin broken => Cardinality(Logged(w, r)) = 1
    /\ \A m, n \in DOMAIN wire[w] : m < n => wire[w][m].n < wire[w][n].n

=============================================================================
