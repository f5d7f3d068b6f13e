----------------------------- MODULE LspClient -----------------------------
(***************************************************************************)
(* lsp.Client: one JSON-RPC connection to a language server over the pipes *)
(* of a child process.  Goroutines call Request and Notify; one reader     *)
(* hands the replies to the callers that wait for them; Close may come at  *)
(* any time after the handshake of New.                                    *)
(*                                                                         *)
(* A request is its id.  The child is the environment: it reads when it    *)
(* likes, answers in any order or never, sends requests of its own under   *)
(* ids of its own, may send what makes no sense, and may die.              *)
(***************************************************************************)
EXTENDS Integers, Sequences, FiniteSets

CONSTANTS
  Callers,      \* goroutines that call the client
  MaxId,        \* bound on the request ids in use at a time
  Concurrency,  \* Options.Concurrency
  PipeSize,     \* what the pipe to the child holds, in writes
  OutSize,      \* what the pipe from the child holds, in frames
  ServerIds,    \* the ids of the requests the child makes itself
  None          \* nobody

ASSUME CallersAssumption == Callers # {} /\ IsFiniteSet(Callers) /\ None \notin Callers
ASSUME IdAssumption == MaxId \in Nat /\ MaxId > Cardinality(Callers)
ASSUME ServerAssumption == ServerIds \subseteq 1 .. MaxId
ASSUME SizeAssumption == {Concurrency, PipeSize, OutSize} \subseteq Nat \ {0}

VARIABLES
  phase,    \* "new" during the handshake, "ready", or "failed"
  pc,       \* where a caller is
  id,       \* the id of its request; 0 in Notify
  sem,      \* tokens taken from Client.sem
  pending,  \* the keys of Client.pending
  box,      \* the frames in the wait channels
  writeMu,  \* who holds it
  pipe,     \* the writes in the pipe to the child
  half,     \* the id of the header the child has read without its body, or -1
  asked,    \* requests the child may still answer
  out,      \* the frames in the pipe from the child
  child,    \* "running" or "dead"
  reader,   \* where readLoop is; "gone" when doneCh is closed
  frame,    \* the frame the reader has in hand, or NoFrame
  closer    \* where Close is

caller == <<pc, id>>
client == <<phase, sem, pending, box, writeMu>>
process == <<half, asked, child>>
loop == <<reader, frame>>
vars == <<caller, client, pipe, process, out, loop, closer>>

Ids == 1 .. MaxId

(* What the child sends: its kind, and the id in it.  A request of the       *)
(* child's own has a method where a reply has a result.                      *)
FromChild == {"reply", "request"} \X Ids

(* A header the reader gives up on. *)
Garbage == <<"garbage", 0>>

NoFrame == <<"none", 0>>

TypeOK ==
  /\ phase \in {"new", "ready", "failed"}
  /\ pc \in [Callers -> {"idle", "sem", "register", "lock", "header", "body",
                         "wait", "finish", "fail"}]
  /\ id \in [Callers -> Ids \cup {0}]
  /\ sem \in 0 .. Concurrency
  /\ pending \subseteq Ids /\ box \subseteq FromChild /\ asked \subseteq Ids
  /\ writeMu \in Callers \cup {None}
  /\ pipe \in Seq({"header", "body"} \X (Ids \cup {0})) /\ Len(pipe) <= PipeSize
  /\ out \in Seq(FromChild \cup {Garbage}) /\ Len(out) <= OutSize
  /\ half \in Ids \cup {0, -1}
  /\ child \in {"running", "dead"}
  /\ reader \in {"check", "read", "lookup", "deliver", "gone"}
  /\ frame \in FromChild \cup {NoFrame}
  /\ closer \in {"open", "flagged", "waiting", "draining", "closed"}

Init ==
  /\ phase = "new"
  /\ pc = [c \in Callers |-> "idle"]
  /\ id = [c \in Callers |-> 0]
  /\ sem = 0
  /\ pending = {} /\ box = {} /\ asked = {}
  /\ writeMu = None
  /\ pipe = <<>> /\ out = <<>>
  /\ half = -1
  /\ child = "running"
  /\ reader = "check"
  /\ frame = NoFrame
  /\ closer = "open"

-----------------------------------------------------------------------------
(* Faulty variants of helpers below, one per mutation check: one token too   *)
(* many; a request that stays registered; an id given out again as soon as   *)
(* nobody waits; a write without the lock; a Close that does not kill; a     *)
(* request that does not watch closeCh.                                      *)
TokenTooMany == sem <= Concurrency
StillRegistered(i) == pending
NoLock == TRUE
Spared == child
NotPending == CHOOSE i \in Ids \ pending : \A j \in Ids \ pending : i <= j
DeadlineOnly == FALSE

-----------------------------------------------------------------------------
(* Helpers *)

Goto(c, label) == pc' = [pc EXCEPT ![c] = label]

(* The call returns. *)
Return(c) ==
  /\ Goto(c, "idle")
  /\ id' = [id EXCEPT ![c] = 0]

(* nextID never repeats: an id is free when nothing that began with a call   *)
(* speaks of it any more, and the reader holds no channel it had.  What the  *)
(* child numbers itself it may number as a call that is yet to come.         *)
Unused ==
  {i \in Ids : /\ i \notin pending \cup asked \cup {half}
               /\ \A c \in Callers : id[c] # i
               /\ \A j \in DOMAIN pipe : pipe[j][2] # i
               /\ \A j \in DOMAIN out : out[j] # <<"reply", i>>
               /\ frame # <<"reply", i>>
               /\ reader = "deliver" => frame[2] # i}

NextId == CHOOSE i \in Unused : TRUE

(* closeCh is closed. *)
CloseSeen == closer \in {"waiting", "draining", "closed"}

TokenLeft == sem < Concurrency

(* Client.pending after the deferred delete. *)
Unregistered(i) == pending \ {i}

WriteMuFree == writeMu = None

(* The select of sendRequest ends without a reply, and before its deadline. *)
Interrupted == CloseSeen

(* Process.Kill. *)
Killed == "dead"

(* The child becomes c; what a dead one has not read goes with it.           *)
Child(c) ==
  /\ child' = c
  /\ IF c = "dead" THEN pipe' = <<>> /\ half' = -1 /\ asked' = {}
                   ELSE UNCHANGED <<pipe, half, asked>>

(* The next read of the child's output fails: it is dead and has left        *)
(* nothing, or cmd.Wait has closed the pipe.                                 *)
EndOfStream == child = "dead" /\ (out = <<>> \/ closer \in {"draining", "closed"})

(* Where a failed call goes: the handshake kills the child. *)
Failure == IF phase = "new" THEN "fail" ELSE "finish"

-----------------------------------------------------------------------------
(* Calls *)

(* New sends initialize, past the semaphore. *)
Handshake(c) ==
  /\ phase = "new"
  /\ \A d \in Callers : pc[d] = "idle"
  /\ Goto(c, "register")
  /\ UNCHANGED <<id, client, pipe, process, out, loop, closer>>

(* Request and Notify read closed and return ErrClosed, or go on. *)
Request(c) ==
  /\ phase = "ready" /\ closer = "open"
  /\ pc[c] = "idle"
  /\ Cardinality(Unused) > Cardinality({d \in Callers : pc[d] \in {"sem", "register"}})
  /\ Goto(c, "sem")
  /\ UNCHANGED <<id, client, pipe, process, out, loop, closer>>

Notify(c) ==
  /\ phase = "ready" /\ closer = "open"
  /\ pc[c] = "idle"
  /\ Goto(c, "lock")
  /\ UNCHANGED <<id, client, pipe, process, out, loop, closer>>

Acquire(c) ==
  /\ pc[c] = "sem"
  /\ \/ TokenLeft /\ sem' = sem + 1 /\ Goto(c, "register") /\ UNCHANGED id
     \/ CloseSeen /\ Return(c) /\ UNCHANGED sem
  /\ UNCHANGED <<phase, pending, box, writeMu, pipe, process, out, loop, closer>>

(* The waiter is registered before its frame is written. *)
Register(c) ==
  /\ pc[c] = "register"
  /\ id' = [id EXCEPT ![c] = NextId]
  /\ pending' = pending \cup {NextId}
  /\ Goto(c, "lock")
  /\ UNCHANGED <<phase, sem, box, writeMu, pipe, process, out, loop, closer>>

Lock(c) ==
  /\ pc[c] = "lock"
  /\ WriteMuFree
  /\ writeMu' = c
  /\ Goto(c, "header")
  /\ UNCHANGED <<id, phase, sem, pending, box, pipe, process, out, loop, closer>>

(* writeFrame writes the header and then the body.  A write waits for room   *)
(* in the pipe, whatever the deadline, and fails when nobody can read it.    *)
Write(c) ==
  /\ pc[c] \in {"header", "body"}
  /\ \/ /\ child = "dead"
        /\ writeMu' = None
        /\ Goto(c, Failure)
        /\ UNCHANGED pipe
     \/ /\ child = "running"
        /\ Len(pipe) < PipeSize
        /\ pipe' = Append(pipe, <<pc[c], id[c]>>)
        /\ Goto(c, IF pc[c] = "header" THEN "body" ELSE IF id[c] = 0 THEN "finish" ELSE "wait")
        /\ writeMu' = IF pc[c] = "body" THEN None ELSE writeMu
  /\ UNCHANGED <<id, phase, sem, pending, box, process, out, loop, closer>>

(* The select of sendRequest: a reply, good or bad, or none.  A request of   *)
(* the child in the channel is taken for a good reply, an empty one.         *)
Await(c) ==
  /\ pc[c] = "wait"
  /\ \/ \E f \in box : f[2] = id[c] /\ Goto(c, "finish")
     \/ (<<"reply", id[c]>> \in box \/ Interrupted) /\ Goto(c, Failure)
  /\ UNCHANGED <<id, client, pipe, process, out, loop, closer>>

(* The deadline of the call, or of the context it was given, is over: the    *)
(* two selects see it, and nothing else does.                                *)
Timeout(c) ==
  /\ \/ pc[c] = "sem" /\ Return(c)
     \/ pc[c] = "wait" /\ Goto(c, Failure) /\ UNCHANGED id
  /\ UNCHANGED <<client, pipe, process, out, loop, closer>>

(* The deferred calls: the waiter and the token go.  In the handshake,       *)
(* initialized follows initialize, and then the client is handed out.        *)
Finish(c) ==
  /\ pc[c] = "finish"
  /\ pending' = Unregistered(id[c])
  /\ box' = {f \in box : f[2] # id[c]}
  /\ \/ phase = "ready" /\ Return(c) /\ UNCHANGED phase
     \/ /\ phase = "new" /\ id[c] # 0
        /\ Goto(c, "lock")
        /\ id' = [id EXCEPT ![c] = 0]
        /\ UNCHANGED phase
     \/ phase = "new" /\ id[c] = 0 /\ Return(c) /\ phase' = "ready"
  /\ sem' = IF phase = "ready" /\ id[c] # 0 THEN sem - 1 ELSE sem
  /\ UNCHANGED <<writeMu, pipe, process, out, loop, closer>>

(* killOnFailure: New gives up and leaves no child behind. *)
FailHandshake(c) ==
  /\ pc[c] = "fail"
  /\ pending' = Unregistered(id[c])
  /\ box' = {f \in box : f[2] # id[c]}
  /\ Return(c)
  /\ phase' = "failed"
  /\ Child(Killed)
  /\ UNCHANGED <<sem, writeMu, out, loop, closer>>

-----------------------------------------------------------------------------
(* The reader *)

ReadCheck ==
  /\ reader = "check"
  /\ reader' = IF CloseSeen THEN "gone" ELSE "read"
  /\ UNCHANGED <<caller, client, pipe, process, out, frame, closer>>

ReadFrame ==
  /\ reader = "read"
  /\ out # <<>>
  /\ out' = Tail(out)
  /\ \/ Head(out) = Garbage /\ reader' = "gone" /\ UNCHANGED frame
     \/ Head(out) # Garbage /\ reader' = "lookup" /\ frame' = Head(out)
  /\ UNCHANGED <<caller, client, pipe, process, closer>>

ReadFails ==
  /\ reader = "read"
  /\ EndOfStream
  /\ reader' = "gone"
  /\ UNCHANGED <<caller, client, pipe, process, out, frame, closer>>

(* The reader looks at the id, and not at the method. *)
ReadLookup ==
  /\ reader = "lookup"
  /\ \/ frame[2] \in pending /\ reader' = "deliver" /\ UNCHANGED frame
     \/ frame[2] \notin pending /\ reader' = "check" /\ frame' = NoFrame
  /\ UNCHANGED <<caller, client, pipe, process, out, closer>>

(* A send that never blocks, to a channel with room for one frame, whose     *)
(* caller may be gone.                                                       *)
ReadDeliver ==
  /\ reader = "deliver"
  /\ box' = IF frame[2] \in pending /\ \A f \in box : f[2] # frame[2]
            THEN box \cup {frame} ELSE box
  /\ reader' = "check"
  /\ frame' = NoFrame
  /\ UNCHANGED <<caller, phase, sem, pending, writeMu, pipe, process, out, closer>>

-----------------------------------------------------------------------------
(* The child *)

ChildReads ==
  /\ child = "running"
  /\ pipe # <<>>
  /\ pipe' = Tail(pipe)
  /\ \/ /\ Head(pipe)[1] = "header"
        /\ half' = Head(pipe)[2]
        /\ UNCHANGED asked
     \/ /\ Head(pipe)[1] = "body"
        /\ half' = -1
        /\ asked' = asked \cup ({half} \ {0})
  /\ UNCHANGED <<caller, client, child, out, loop, closer>>

(* It answers a request, sends one of its own, under an id of its own        *)
(* numbering, or a header that makes no sense.  What the reader drops        *)
(* without a trace (a notification, a body that does not parse, a second     *)
(* answer) is not modelled.                                                  *)
ChildWrites ==
  /\ child = "running"
  /\ Len(out) < OutSize
  /\ \/ \E i \in asked : out' = Append(out, <<"reply", i>>) /\ asked' = asked \ {i}
     \/ \E i \in ServerIds : out' = Append(out, <<"request", i>>) /\ UNCHANGED asked
     \/ out' = Append(out, Garbage) /\ UNCHANGED asked
  /\ UNCHANGED <<caller, client, pipe, half, child, loop, closer>>

ChildDies ==
  /\ child = "running"
  /\ Child("dead")
  /\ UNCHANGED <<caller, client, out, loop, closer>>

-----------------------------------------------------------------------------
(* Close, run by one goroutine: closeOnce makes the others wait for it *)

CloseFlag ==
  /\ phase = "ready" /\ closer = "open"
  /\ closer' = "flagged"
  /\ UNCHANGED <<caller, client, pipe, process, out, loop>>

(* closeCh is closed.  The two Notify calls that follow read closed and      *)
(* write nothing.                                                            *)
CloseChannel ==
  /\ closer = "flagged"
  /\ closer' = "waiting"
  /\ UNCHANGED <<caller, client, pipe, process, out, loop>>

(* cmd.Wait returns, or CloseTimeout is over and the child is killed. *)
CloseWait ==
  /\ closer = "waiting"
  /\ Child(IF child = "dead" THEN child ELSE Killed)
  /\ closer' = "draining"
  /\ UNCHANGED <<caller, client, out, loop>>

(* doneCh, and the pipe to the child is closed. *)
CloseDone ==
  /\ closer = "draining"
  /\ reader = "gone"
  /\ closer' = "closed"
  /\ UNCHANGED <<caller, client, pipe, process, out, loop>>

(* The owner has dropped the client, and starts another one. *)
Again ==
  /\ phase = "failed" \/ closer = "closed"
  /\ \A c \in Callers : pc[c] = "idle"
  /\ reader = "gone"
  /\ phase' = "new"
  /\ sem' = 0
  /\ pending' = {} /\ box' = {} /\ asked' = {}
  /\ writeMu' = None
  /\ pipe' = <<>> /\ out' = <<>>
  /\ half' = -1
  /\ child' = "running"
  /\ reader' = "check"
  /\ frame' = NoFrame
  /\ closer' = "open"
  /\ UNCHANGED caller

-----------------------------------------------------------------------------
Call(c) ==
  \/ Acquire(c) \/ Register(c) \/ Lock(c) \/ Write(c) \/ Await(c)
  \/ Finish(c) \/ FailHandshake(c)

Read == ReadCheck \/ ReadFrame \/ ReadFails \/ ReadLookup \/ ReadDeliver

Server == ChildReads \/ ChildWrites \/ ChildDies

Close == CloseChannel \/ CloseWait \/ CloseDone

Next ==
  \/ \E c \in Callers : Handshake(c) \/ Request(c) \/ Notify(c) \/ Call(c) \/ Timeout(c)
  \/ Read
  \/ Server
  \/ CloseFlag \/ Close
  \/ Again

Spec == Init /\ [][Next]_vars

(* The scheduler runs every goroutine that can run, and time.After fires in  *)
(* Close.  Nothing is assumed of the child, of the deadlines, or of who      *)
(* calls what.                                                               *)
FairSpec ==
  Spec /\ (\A c \in Callers : WF_vars(Call(c))) /\ WF_vars(Read) /\ WF_vars(Close)

(* ... and the deadlines come. *)
TimedSpec == FairSpec /\ \A c \in Callers : WF_vars(Timeout(c))

-----------------------------------------------------------------------------
(* Safety *)

(* Every way out of a call gives back what it took: the keys of pending are  *)
(* the ids of the calls under way, each of one of them, and the tokens taken *)
(* are those of the calls past the semaphore.                                *)
NothingLeaks ==
  LET active == {c \in Callers : id[c] # 0} IN
  /\ pending = {id[c] : c \in active}
  /\ Cardinality(pending) = Cardinality(active)
  /\ phase = "ready" =>
       sem = Cardinality({c \in Callers : pc[c] = "register" \/ id[c] # 0})

(* A reply in a wait channel answers the request that waits there: it never  *)
(* comes before that request has been written, so a late answer to a call    *)
(* that timed out is not taken for the answer to a later one.  Of the        *)
(* requests the child sends under the number of a call it says nothing:      *)
(* the reader hands them to that call, whatever it has written.              *)
RepliesAnswer ==
  \A c \in Callers : <<"reply", id[c]>> \in box => pc[c] \in {"wait", "finish", "fail"}

(* What the child reads is whole frames: the writes of concurrent calls      *)
(* never come between a header and its body.                                 *)
FramesIntact ==
  LET stream == IF half = -1 THEN pipe ELSE <<<<"header", half>>>> \o pipe IN
  \A i \in DOMAIN stream :
    /\ stream[i][1] = (IF i % 2 = 1 THEN "header" ELSE "body")
    /\ i % 2 = 0 => stream[i][2] = stream[i - 1][2]

(* No child outlives its client: not after Close, and not after a failed     *)
(* handshake.                                                                *)
NoChildLeft == closer = "closed" \/ phase = "failed" => child = "dead"

(* Close comes to its end, whatever the child and the callers do. *)
CloseEnds == (closer = "flagged") ~> (closer = "closed")

(* Close releases every call under way, without the help of its deadline. *)
CloseReleases ==
  \A c \in Callers : (closer = "waiting" /\ pc[c] # "idle") ~> (pc[c] = "idle")

(* "A hung server cannot stall a tool call beyond" its deadline: with        *)
(* deadlines every call returns.                                             *)
CallsReturn == \A c \in Callers : (pc[c] # "idle") ~> (pc[c] = "idle")
=============================================================================
