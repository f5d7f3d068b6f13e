--------------------------- MODULE LspClientProofs ---------------------------
(***************************************************************************)
(* Proofs about LspClient, for any callers, request ids, semaphore and     *)
(* pipes.                                                                  *)
(***************************************************************************)
EXTENDS LspClient, FiniteSetTheorems, FunctionTheorems, SequenceTheorems, TLAPS

(***************************************************************************)
(* The inductive invariant.                                                *)
(***************************************************************************)
Active == {c \in Callers : id[c] # 0}

Busy == {c \in Callers : pc[c] # "idle"}

(* Who is yet to take an id.                                               *)
Coming == {c \in Callers : pc[c] \in {"sem", "register"}}

(* Where a call with an id can be, and which calls there are in a phase:   *)
(* one goroutine runs the handshake, and none a client that has failed.    *)
Stages ==
  /\ \A c \in Callers :
       /\ id[c] # 0 => pc[c] \in {"lock", "header", "body", "wait", "finish", "fail"}
       /\ pc[c] = "sem" => phase = "ready"
       /\ pc[c] = "fail" => phase = "new"
       /\ pc[c] # "idle" => phase # "failed"
  /\ phase = "new" => \A c, d \in Busy : c = d
  /\ phase # "ready" => sem = 0
  /\ closer # "open" => phase = "ready"

(* Each call has an id of its own, and is registered under it; what has    *)
(* been delivered is registered.                                           *)
Registered ==
  /\ pending = {id[c] : c \in Active}
  /\ \A c, d \in Active : id[c] = id[d] => c = d
  /\ \A f \in box : f[2] \in pending

(* A token is taken by each call past the semaphore.                       *)
Holders == {c \in Callers : pc[c] = "register" \/ id[c] # 0}

Tokens == phase = "ready" => sem = Cardinality(Holders)

(* There is an id left for each call that is yet to take one: a client     *)
(* begins with all of them.                                                *)
Room ==
  /\ Cardinality(Coming) <= Cardinality(Unused)
  /\ phase = "new" /\ Busy = {} => Unused = Ids

(* A reply on its way, from the body of the request on, answers a call     *)
(* that has been written.                                                  *)
OnItsWay(i) ==
  \/ i \in asked
  \/ <<"reply", i>> \in box \cup {frame}
  \/ \E j \in DOMAIN out : out[j] = <<"reply", i>>
  \/ \E j \in DOMAIN pipe : pipe[j] = <<"body", i>>

Written == \A c \in Active : OnItsWay(id[c]) => pc[c] \in {"wait", "finish", "fail"}

(* The lock is held from the header to the body.                           *)
Locked == \A c \in Callers : pc[c] \in {"header", "body"} => writeMu = c

(* The stream to the child: what it has read of a frame, and what is in    *)
(* the pipe.  It ends in a header exactly while a writer is about to write *)
(* the body.                                                               *)
StreamOf(h, p) == IF h = -1 THEN p ELSE <<<<"header", h>>>> \o p

Stream == StreamOf(half, pipe)

HalfWritten == child = "running" /\ \E c \in Callers : pc[c] = "body"

Parity ==
  /\ Len(Stream) % 2 = 1 <=> HalfWritten
  /\ \A c \in Callers : child = "running" /\ pc[c] = "body" => Stream[Len(Stream)][2] = id[c]

(* The child is dead once Close has waited for it and once a handshake has *)
(* failed, and nothing speaks to a dead child.                             *)
Life ==
  /\ closer \in {"draining", "closed"} \/ phase = "failed" => child = "dead"
  /\ child = "dead" => pipe = <<>> /\ half = -1 /\ asked = {}

IInv == /\ TypeOK /\ Stages /\ Registered /\ Tokens /\ Room /\ Written /\ Locked
        /\ FramesIntact /\ Parity /\ Life

-----------------------------------------------------------------------------
(* A step of one caller.                                                   *)
Step(c) == Handshake(c) \/ Request(c) \/ Notify(c) \/ Call(c) \/ Timeout(c)

(* The ids are finitely many.                                              *)
LEMMA FiniteIds == IsFiniteSet(Ids) /\ Cardinality(Ids) = MaxId
  BY IdAssumption, FS_Interval DEF Ids

LEMMA FiniteUnused == Unused \subseteq Ids /\ IsFiniteSet(Unused) /\ Cardinality(Unused) \in Nat
<1>1. Unused \subseteq Ids
  BY DEF Unused
<1> QED
  BY <1>1, FiniteIds, FS_Subset, FS_CardinalityType

LEMMA FiniteUnusedAfter == Unused' \subseteq Ids /\ IsFiniteSet(Unused') /\ Cardinality(Unused') \in Nat
<1>1. Unused' \subseteq Ids
  BY DEF Unused
<1> QED
  BY <1>1, FiniteIds, FS_Subset, FS_CardinalityType

(* Sets of callers are finite.                                             *)
LEMMA FiniteCallers ==
  ASSUME NEW S \in SUBSET Callers
  PROVE  IsFiniteSet(S) /\ Cardinality(S) \in Nat
  BY CallersAssumption, FS_Subset, FS_CardinalityType

(* Who is to take an id finds one that nothing speaks of.                  *)
LEMMA FreshId ==
  ASSUME Room, NEW c \in Callers, pc[c] = "register"
  PROVE  NextId \in Unused
<1>1. c \in Coming /\ Coming \in SUBSET Callers
  BY DEF Coming
<1>2. Cardinality(Coming) # 0 /\ Cardinality(Coming) \in Nat
  BY <1>1, FiniteCallers, FS_EmptySet
<1>3. Cardinality(Unused) # 0
  BY <1>2, FiniteUnused DEF Room
<1>4. Unused # {}
  BY <1>3, FS_EmptySet
<1> QED
  BY <1>4 DEF NextId

LEMMA FreshFacts ==
  ASSUME NEW i \in Unused, TypeOK
  PROVE  /\ i \in Ids /\ i # 0
         /\ i \notin pending \cup asked \cup {half}
         /\ \A c \in Callers : id[c] # i
         /\ \A j \in DOMAIN pipe : pipe[j][2] # i
         /\ \A j \in DOMAIN out : out[j] # <<"reply", i>>
         /\ frame # <<"reply", i>>
         /\ reader = "deliver" => frame[2] # i
  BY IdAssumption DEF Unused, Ids

-----------------------------------------------------------------------------
(* What a sequence holds after one more, and after one less.               *)
LEMMA AppendAt ==
  ASSUME NEW S, NEW s \in Seq(S), NEW e \in S
  PROVE  \A j \in DOMAIN Append(s, e) :
           \/ j = Len(s) + 1 /\ Append(s, e)[j] = e
           \/ j \in DOMAIN s /\ Append(s, e)[j] = s[j]
<1>1. /\ Append(s, e) \in Seq(S) /\ Len(Append(s, e)) = Len(s) + 1
      /\ \A j \in 1 .. Len(s) : Append(s, e)[j] = s[j]
      /\ Append(s, e)[Len(s) + 1] = e
  BY AppendProperties
<1>2. DOMAIN s = 1 .. Len(s) /\ Len(s) \in Nat /\ DOMAIN Append(s, e) = 1 .. Len(s) + 1
  BY <1>1, LenProperties
<1> QED
  BY <1>1, <1>2

LEMMA TailAt ==
  ASSUME NEW S, NEW s \in Seq(S), s # <<>>
  PROVE  /\ 1 \in DOMAIN s /\ Head(s) = s[1]
         /\ \A j \in DOMAIN Tail(s) : j + 1 \in DOMAIN s /\ Tail(s)[j] = s[j + 1]
  BY HeadTailProperties, LenProperties

-----------------------------------------------------------------------------
LEMMA InvInit == Init => IInv
<1> SUFFICES ASSUME Init PROVE IInv
  OBVIOUS
<1> USE DEF Init
<1>1. TypeOK
  <2>1. 0 \in 0 .. Concurrency /\ 0 <= PipeSize /\ 0 <= OutSize
    BY SizeAssumption
  <2>2. pipe \in Seq({"header", "body"} \X (Ids \cup {0})) /\ out \in Seq(FromChild \cup {Garbage})
        /\ Len(pipe) = 0 /\ Len(out) = 0
    BY EmptySeq
  <2> QED
    BY <2>1, <2>2 DEF TypeOK
<1>2. Stages /\ Locked /\ Life
  BY DEF Stages, Busy, Locked, Life
<1>3. Registered /\ Written
  BY DEF Registered, Active, Written
<1>4. Tokens
  BY DEF Tokens
<1>5. Room
  <2>1. Coming = {}
    BY DEF Coming
  <2>2. Unused = Ids
    BY IdAssumption DEF Unused, Ids, NoFrame
  <2> QED
    BY <2>1, <2>2, FS_EmptySet, FiniteUnused DEF Room
<1>6. FramesIntact /\ Parity
  BY DEF FramesIntact, Parity, Stream, StreamOf, HalfWritten
<1> QED
  BY <1>1, <1>2, <1>3, <1>4, <1>5, <1>6 DEF IInv

(* The child writes one frame, and a reply only to what it was asked.      *)
LEMMA SentByChild ==
  ASSUME TypeOK, ChildWrites
  PROVE  \E e \in FromChild \cup {Garbage} :
           out' = Append(out, e) /\ \A i \in Ids : e = <<"reply", i>> => i \in asked
<1>1. CASE \E i \in asked : out' = Append(out, <<"reply", i>>)
  <2>1. PICK i \in asked : out' = Append(out, <<"reply", i>>)
    BY <1>1
  <2>2. <<"reply", i>> \in FromChild
    BY DEF FromChild, TypeOK
  <2>3. \A k \in Ids : <<"reply", i>> = <<"reply", k>> => k \in asked
    OBVIOUS
  <2> QED
    BY <2>1, <2>2, <2>3
<1>2. CASE \E i \in ServerIds : out' = Append(out, <<"request", i>>)
  <2>1. PICK i \in ServerIds : out' = Append(out, <<"request", i>>)
    BY <1>2
  <2>2. <<"request", i>> \in FromChild
    BY ServerAssumption DEF FromChild, Ids
  <2>3. \A k \in Ids : <<"request", i>> # <<"reply", k>>
    OBVIOUS
  <2> QED
    BY <2>1, <2>2, <2>3
<1>3. CASE out' = Append(out, Garbage)
  <2>1. \A k \in Ids : Garbage # <<"reply", k>>
    BY DEF Garbage
  <2> QED
    BY <1>3, <2>1
<1> QED
  BY <1>1, <1>2, <1>3 DEF ChildWrites

(* One caller steps, the others stay where they are.                       *)
LEMMA OneMoves ==
  ASSUME TypeOK, NEW c \in Callers, Step(c), NEW d \in Callers, d # c
  PROVE  pc'[d] = pc[d] /\ id'[d] = id[d]
  BY DEF Step, Handshake, Request, Notify, Call, Acquire, Register, Lock, Write, Await, Finish,
         FailHandshake, Timeout, Goto, Return, TypeOK, caller

LEMMA TypeCaller ==
  ASSUME TypeOK, Stages, Tokens, Room, NEW c \in Callers, Step(c)
  PROVE  TypeOK'
<1> USE DEF TypeOK, Goto, Return, caller, client, process, loop
<1>1. CASE Handshake(c) \/ Request(c) \/ Notify(c)
  BY <1>1 DEF Handshake, Request, Notify
<1>2. CASE Acquire(c)
  <2>1. sem < Concurrency => sem + 1 \in 0 .. Concurrency
    BY SizeAssumption
  <2>2. sem' \in 0 .. Concurrency
    BY <1>2, <2>1 DEF Acquire, TokenLeft
  <2>3. pc' \in [Callers -> {"idle", "sem", "register", "lock", "header", "body", "wait", "finish", "fail"}]
        /\ id' \in [Callers -> Ids \cup {0}]
    BY <1>2 DEF Acquire
  <2>4. UNCHANGED <<phase, pending, box, writeMu, pipe, process, out, loop, closer>>
    BY <1>2 DEF Acquire
  <2> QED
    BY <2>2, <2>3, <2>4
<1>3. CASE Register(c)
  <2>1. NextId \in Ids
    BY <1>3, FreshId, FreshFacts DEF Register
  <2> QED
    BY <1>3, <2>1 DEF Register
<1>4. CASE Lock(c)
  BY <1>4 DEF Lock
<1>5. CASE Write(c)
  <2> USE DEF Failure
  <2>1. CASE child = "dead"
    BY <1>5, <2>1 DEF Write
  <2>2. CASE child = "running" /\ Len(pipe) < PipeSize /\ pipe' = Append(pipe, <<pc[c], id[c]>>)
    <3>1. pipe' \in Seq({"header", "body"} \X (Ids \cup {0})) /\ Len(pipe') = Len(pipe) + 1
      BY <1>5, <2>2, AppendProperties DEF Write
    <3>2. Len(pipe') <= PipeSize
      BY <2>2, <3>1, SizeAssumption, LenProperties
    <3> QED
      BY <1>5, <2>2, <3>1, <3>2 DEF Write
  <2> QED
    BY <1>5, <2>1, <2>2 DEF Write
<1>6. CASE Await(c) \/ Timeout(c)
  BY <1>6 DEF Await, Timeout, Failure
<1>7. CASE Finish(c)
  <2>1. CASE phase = "ready" /\ id[c] # 0
    <3>1. c \in Holders /\ Holders \in SUBSET Callers
      BY <2>1 DEF Holders
    <3>2. sem # 0
      BY <2>1, <3>1, FiniteCallers, FS_EmptySet DEF Tokens
    <3>3. sem' = sem - 1 /\ sem' \in 0 .. Concurrency
      BY <1>7, <2>1, <3>2, SizeAssumption DEF Finish
    <3> QED
      BY <1>7, <3>3 DEF Finish, Unregistered
  <2>2. CASE ~ (phase = "ready" /\ id[c] # 0)
    BY <1>7, <2>2 DEF Finish, Unregistered
  <2> QED
    BY <2>1, <2>2
<1>8. CASE FailHandshake(c)
  <2>1. pipe' \in Seq({"header", "body"} \X (Ids \cup {0})) /\ Len(pipe') = 0
    BY <1>8, EmptySeq DEF FailHandshake, Child, Killed
  <2> QED
    BY <1>8, <2>1, SizeAssumption DEF FailHandshake, Child, Killed, Unregistered
<1> QED
  BY <1>1, <1>2, <1>3, <1>4, <1>5, <1>6, <1>7, <1>8 DEF Step, Call

LEMMA TypeOther ==
  ASSUME TypeOK, FramesIntact, Read \/ Server \/ CloseFlag \/ Close \/ Again
  PROVE  TypeOK'
<1> USE DEF TypeOK, caller, client, process, loop
<1>1. CASE ReadCheck \/ ReadFails \/ ReadLookup \/ ReadDeliver
  <2>1. frame[2] \in pending => frame \in FromChild
    BY IdAssumption DEF NoFrame, Ids
  <2> QED
    BY <1>1, <2>1 DEF ReadCheck, ReadFails, ReadLookup, ReadDeliver
<1>2. CASE ReadFrame
  <2>1. /\ out' \in Seq(FromChild \cup {Garbage}) /\ Len(out') = Len(out) - 1 /\ Len(out) \in Nat
        /\ Head(out) \in FromChild \cup {Garbage}
    BY <1>2, HeadTailProperties, LenProperties DEF ReadFrame
  <2>2. Len(out') <= OutSize
    BY <2>1, SizeAssumption
  <2> QED
    BY <1>2, <2>1, <2>2 DEF ReadFrame
<1>3. CASE ChildReads
  <2>1. /\ Head(pipe) \in {"header", "body"} \X (Ids \cup {0})
        /\ pipe' \in Seq({"header", "body"} \X (Ids \cup {0}))
        /\ Len(pipe') = Len(pipe) - 1 /\ Len(pipe) \in Nat
    BY <1>3, HeadTailProperties, LenProperties DEF ChildReads
  <2>2. Len(pipe') <= PipeSize
    BY <2>1, SizeAssumption
  <2>3. half' \in Ids \cup {0, -1} /\ asked' \subseteq Ids
    <3>1. CASE Head(pipe)[1] = "header"
      BY <1>3, <2>1, <3>1 DEF ChildReads
    <3>2. CASE Head(pipe)[1] = "body"
      <4>1. half # -1
        <5> SUFFICES ASSUME half = -1 PROVE FALSE
          OBVIOUS
        <5>1. 1 \in DOMAIN pipe /\ pipe[1] = Head(pipe)
          BY <1>3, LenProperties DEF ChildReads
        <5>2. pipe[1][1] = IF 1 % 2 = 1 THEN "header" ELSE "body"
          BY <5>1 DEF FramesIntact
        <5> QED
          BY <3>2, <5>1, <5>2
      <4> QED
        BY <1>3, <3>2, <4>1 DEF ChildReads
    <3> QED
      BY <2>1, <3>1, <3>2
  <2> QED
    BY <1>3, <2>1, <2>2, <2>3 DEF ChildReads
<1>4. CASE ChildWrites
  <2>1. /\ out' \in Seq(FromChild \cup {Garbage})
        /\ Len(out') = Len(out) + 1 /\ Len(out) \in Nat /\ Len(out) < OutSize
    <3>1. PICK e \in FromChild \cup {Garbage} : out' = Append(out, e)
      BY <1>4, SentByChild
    <3>2. out' \in Seq(FromChild \cup {Garbage}) /\ Len(out') = Len(out) + 1
      BY <3>1, AppendProperties
    <3> QED
      BY <1>4, <3>2, LenProperties DEF ChildWrites
  <2>2. Len(out') <= OutSize
    BY <2>1, SizeAssumption
  <2>3. /\ asked' \subseteq Ids
        /\ UNCHANGED <<caller, client, pipe, half, child, loop, closer>>
    BY <1>4 DEF ChildWrites
  <2> QED
    BY <2>1, <2>2, <2>3
<1>5. CASE ChildDies \/ CloseWait
  <2>1. /\ pipe' \in Seq({"header", "body"} \X (Ids \cup {0})) /\ Len(pipe') <= PipeSize
        /\ half' \in Ids \cup {0, -1} /\ asked' \subseteq Ids /\ child' \in {"running", "dead"}
    <3>1. \/ UNCHANGED <<pipe, half, asked, child>>
          \/ pipe' = <<>> /\ half' = -1 /\ asked' = {} /\ child' = "dead"
      BY <1>5 DEF ChildDies, CloseWait, Child, Killed
    <3>2. CASE pipe' = <<>> /\ half' = -1 /\ asked' = {} /\ child' = "dead"
      <4>1. pipe' \in Seq({"header", "body"} \X (Ids \cup {0})) /\ Len(pipe') = 0
        BY <3>2, EmptySeq
      <4>2. 0 <= PipeSize
        BY SizeAssumption
      <4> QED
        BY <3>2, <4>1, <4>2
    <3> QED
      BY <3>1, <3>2
  <2> QED
    BY <1>5, <2>1 DEF ChildDies, CloseWait
<1>6. CASE CloseFlag \/ CloseChannel \/ CloseDone
  BY <1>6 DEF CloseFlag, CloseChannel, CloseDone
<1>7. CASE Again
  <2>1. /\ pipe' \in Seq({"header", "body"} \X (Ids \cup {0})) /\ Len(pipe') = 0
        /\ out' \in Seq(FromChild \cup {Garbage}) /\ Len(out') = 0
    BY <1>7, EmptySeq DEF Again
  <2> QED
    BY <1>7, <2>1, SizeAssumption DEF Again
<1> QED
  BY <1>1, <1>2, <1>3, <1>4, <1>5, <1>6, <1>7 DEF Read, Server, Close

(* The stages of the calls.                                                *)
LEMMA StagesStep ==
  ASSUME TypeOK, Stages, Next
  PROVE  Stages'
<1> USE DEF TypeOK, Stages, Busy, Goto, Return, caller, client, process, loop
<1>1. ASSUME NEW c \in Callers, Step(c) PROVE Stages'
  <2>1. CASE Handshake(c)
    BY <2>1 DEF Handshake
  <2>2. CASE Request(c) \/ Notify(c)
    BY <2>2 DEF Request, Notify
  <2>3. CASE Acquire(c)
    BY <2>3 DEF Acquire
  <2>4. CASE Register(c) \/ Lock(c)
    BY <2>4 DEF Register, Lock
  <2>5. CASE Write(c)
    BY <2>5 DEF Write, Failure
  <2>6. CASE Await(c) \/ Timeout(c)
    BY <2>6 DEF Await, Timeout, Failure
  <2>7. CASE Finish(c)
    BY <2>7 DEF Finish
  <2>8. CASE FailHandshake(c)
    BY <2>8 DEF FailHandshake
  <2> QED
    BY <1>1, <2>1, <2>2, <2>3, <2>4, <2>5, <2>6, <2>7, <2>8 DEF Step, Call
<1>2. CASE Read \/ Server
  BY <1>2 DEF Read, ReadCheck, ReadFrame, ReadFails, ReadLookup, ReadDeliver,
              Server, ChildReads, ChildWrites, ChildDies, Child
<1>3. CASE CloseFlag \/ Close
  BY <1>3 DEF CloseFlag, Close, CloseChannel, CloseWait, CloseDone
<1>4. CASE Again
  BY <1>4 DEF Again
<1> QED
  BY <1>1, <1>2, <1>3, <1>4 DEF Next, Step

(* What is registered, whoever steps.                                      *)
LEMMA RegisteredStep ==
  ASSUME TypeOK, Stages, Registered, Room, Next
  PROVE  Registered'
<1> USE DEF TypeOK, Registered, Active, Goto, Return, caller, client, process, loop
<1>1. ASSUME NEW c \in Callers, Step(c) PROVE Registered'
  <2>1. CASE Handshake(c) \/ Request(c) \/ Notify(c) \/ Lock(c) \/ Write(c) \/ Await(c)
    BY <2>1 DEF Handshake, Request, Notify, Lock, Write, Await
  <2>2. CASE Acquire(c) \/ Timeout(c)
    <3>1. pending' = pending /\ box' = box /\ id' = id
      BY <2>2 DEF Acquire, Timeout, Stages
    <3> QED
      BY <3>1
  <2>3. CASE Register(c)
    <3> DEFINE i == NextId
    <3>1. i \in Ids /\ i # 0 /\ i \notin pending /\ \A d \in Callers : id[d] # i
      BY <2>3, FreshId, FreshFacts DEF Register
    <3>2. id' = [id EXCEPT ![c] = i] /\ pending' = pending \cup {i} /\ box' = box /\ id[c] = 0
      BY <2>3 DEF Register, Stages
    <3> HIDE DEF i
    <3> QED
      BY <3>1, <3>2
  <2>4. CASE Finish(c) \/ FailHandshake(c)
    <3>1. id' = [id EXCEPT ![c] = 0] /\ pending' = pending \ {id[c]} /\ box' = {f \in box : f[2] # id[c]}
      BY <2>4 DEF Finish, FailHandshake, Unregistered
    <3>2. 0 \notin pending
      BY IdAssumption DEF Ids
    <3> QED
      BY <3>1, <3>2
  <2> QED
    BY <1>1, <2>1, <2>2, <2>3, <2>4 DEF Step, Call
<1>2. CASE Read \/ Server
  BY <1>2 DEF Read, ReadCheck, ReadFrame, ReadFails, ReadLookup, ReadDeliver,
              Server, ChildReads, ChildWrites, ChildDies
<1>3. CASE CloseFlag \/ Close
  BY <1>3 DEF CloseFlag, Close, CloseChannel, CloseWait, CloseDone
<1>4. CASE Again
  BY <1>4 DEF Again, Stages
<1> QED
  BY <1>1, <1>2, <1>3, <1>4 DEF Next, Step

(* The tokens taken.                                                       *)
LEMMA TokensStep ==
  ASSUME TypeOK, Stages, Tokens, Room, Next
  PROVE  Tokens'
<1> USE DEF TypeOK, Goto, Return, caller, client, process, loop
<1>0. Holders \in SUBSET Callers
  BY DEF Holders
<1>1. ASSUME NEW c \in Callers, Step(c) PROVE Tokens'
  <2>1. CASE Handshake(c)
    BY <2>1 DEF Handshake, Tokens
  <2>2. CASE Request(c) \/ Notify(c) \/ Lock(c) \/ Write(c) \/ Await(c) \/ Timeout(c)
    <3>1. Holders' = Holders /\ sem' = sem /\ phase' = phase
      BY <2>2 DEF Holders, Stages, Request, Notify, Lock, Write, Await, Timeout, Failure
    <3> QED
      BY <3>1 DEF Tokens
  <2>3. CASE Register(c)
    <3>1. NextId # 0
      BY <2>3, FreshId, FreshFacts DEF Register
    <3>2. Holders' = Holders
      BY <2>3, <3>1 DEF Register, Holders
    <3> QED
      BY <2>3, <3>2 DEF Register, Tokens
  <2>4. CASE Acquire(c)
    <3>1. CASE sem' = sem + 1 /\ Goto(c, "register") /\ id' = id
      <4>1. c \notin Holders /\ Holders' = Holders \cup {c}
        BY <2>4, <3>1 DEF Holders, Stages, Acquire
      <4>2. Cardinality(Holders') = Cardinality(Holders) + 1
        BY <1>0, <4>1, FiniteCallers, FS_AddElement
      <4> QED
        BY <2>4, <3>1, <4>2 DEF Acquire, Tokens
    <3>2. CASE Return(c) /\ sem' = sem
      <4>1. Holders' = Holders
        BY <2>4, <3>2 DEF Holders, Stages, Acquire
      <4> QED
        BY <2>4, <3>2, <4>1 DEF Acquire, Tokens
    <3> QED
      BY <2>4, <3>1, <3>2 DEF Acquire
  <2>5. CASE Finish(c)
    <3>1. CASE phase = "ready" /\ id[c] # 0
      <4>1. c \in Holders /\ Holders' = Holders \ {c}
        BY <2>5, <3>1 DEF Holders, Finish
      <4>2. Cardinality(Holders') = Cardinality(Holders) - 1
        BY <1>0, <4>1, FiniteCallers, FS_RemoveElement
      <4> QED
        BY <2>5, <3>1, <4>2 DEF Finish, Tokens
    <3>2. CASE phase = "ready" /\ id[c] = 0
      <4>1. Holders' = Holders
        BY <2>5, <3>2 DEF Holders, Finish
      <4> QED
        BY <2>5, <3>2, <4>1 DEF Finish, Tokens
    <3>3. CASE phase # "ready"
      <4>1. phase' = "ready" => Holders' = {}
        BY <2>5, <3>3 DEF Holders, Finish, Stages, Busy
      <4>2. phase' = "ready" => sem' = 0
        BY <2>5, <3>3 DEF Finish, Stages
      <4> QED
        BY <4>1, <4>2, FS_EmptySet DEF Tokens
    <3> QED
      BY <3>1, <3>2, <3>3
  <2>6. CASE FailHandshake(c)
    BY <2>6 DEF FailHandshake, Tokens
  <2> QED
    BY <1>1, <2>1, <2>2, <2>3, <2>4, <2>5, <2>6 DEF Step, Call
<1>2. CASE Read \/ Server
  BY <1>2 DEF Tokens, Holders, Read, ReadCheck, ReadFrame, ReadFails, ReadLookup, ReadDeliver,
              Server, ChildReads, ChildWrites, ChildDies
<1>3. CASE CloseFlag \/ Close
  BY <1>3 DEF Tokens, Holders, CloseFlag, Close, CloseChannel, CloseWait, CloseDone
<1>4. CASE Again
  BY <1>4 DEF Again, Tokens
<1> QED
  BY <1>1, <1>2, <1>3, <1>4 DEF Next, Step

(* Whatever speaks of an id afterwards spoke of it before, unless a call   *)
(* has just taken it.                                                      *)
LEMMA UnusedStep ==
  ASSUME TypeOK, FramesIntact, Next, \A c \in Callers : ~ Register(c)
  PROVE  Unused \subseteq Unused'
<1> SUFFICES ASSUME NEW i \in Unused PROVE i \in Unused'
  OBVIOUS
<1> USE DEF TypeOK, Goto, Return, caller, client, process, loop
<1>0. /\ i \in Ids /\ i # 0 /\ i \notin pending \cup asked \cup {half}
      /\ \A c \in Callers : id[c] # i
      /\ \A j \in DOMAIN pipe : pipe[j][2] # i
      /\ \A j \in DOMAIN out : out[j] # <<"reply", i>>
      /\ frame # <<"reply", i>>
      /\ reader = "deliver" => frame[2] # i
  BY FreshFacts
<1> SUFFICES /\ i \notin pending' \cup asked' \cup {half'}
             /\ \A c \in Callers : id'[c] # i
             /\ \A j \in DOMAIN pipe' : pipe'[j][2] # i
             /\ \A j \in DOMAIN out' : out'[j] # <<"reply", i>>
             /\ frame' # <<"reply", i>>
             /\ reader' = "deliver" => frame'[2] # i
  BY <1>0 DEF Unused
<1>1. ASSUME NEW c \in Callers, Handshake(c) \/ Request(c) \/ Notify(c) \/ Acquire(c) \/ Lock(c)
                                \/ Await(c) \/ Timeout(c)
      PROVE  UNCHANGED <<pending, asked, loop, half, pipe, out>> /\ \A d \in Callers : id'[d] # i
  BY <1>0, <1>1 DEF Handshake, Request, Notify, Acquire, Lock, Await, Timeout
<1>2. ASSUME NEW c \in Callers, Write(c)
      PROVE  /\ UNCHANGED <<pending, asked, loop, half, id, out>>
             /\ \A j \in DOMAIN pipe' : pipe'[j][2] # i
  <2>1. CASE UNCHANGED pipe
    BY <1>0, <1>2, <2>1 DEF Write
  <2>2. CASE pipe' = Append(pipe, <<pc[c], id[c]>>)
    <3>1. <<pc[c], id[c]>> \in {"header", "body"} \X (Ids \cup {0})
      BY <1>2 DEF Write
    <3>2. \A j \in DOMAIN pipe' :
                     pipe'[j] = <<pc[c], id[c]>> \/ (j \in DOMAIN pipe /\ pipe'[j] = pipe[j])
      BY <2>2, <3>1, AppendAt
    <3> QED
      BY <1>0, <1>2, <3>2 DEF Write
  <2> QED
    BY <1>2, <2>1, <2>2 DEF Write
<1>3. ASSUME NEW c \in Callers, Finish(c) \/ FailHandshake(c)
      PROVE  /\ UNCHANGED <<loop, out>> /\ pending' \subseteq pending /\ asked' \subseteq asked
             /\ half' \in {half, -1} /\ pipe' \in {pipe, <<>>}
             /\ \A d \in Callers : id'[d] # i
  BY <1>0, <1>3 DEF Finish, FailHandshake, Unregistered, Child, Killed
<1>4. CASE ReadCheck \/ ReadFails \/ ReadLookup \/ ReadDeliver
  <2>1. UNCHANGED <<pending, asked, half, id, pipe, out>>
    BY <1>4 DEF ReadCheck, ReadFails, ReadLookup, ReadDeliver
  <2>2. frame' \in {frame, NoFrame} /\ NoFrame # <<"reply", i>>
    BY <1>4 DEF ReadCheck, ReadFails, ReadLookup, ReadDeliver, NoFrame
  <2>3. reader' = "deliver" => frame' = frame /\ frame[2] # i
    BY <1>0, <1>4 DEF ReadCheck, ReadFails, ReadLookup, ReadDeliver
  <2> QED
    BY <1>0, <2>1, <2>2, <2>3
<1>5. CASE ReadFrame
  <2>1. /\ 1 \in DOMAIN out /\ Head(out) = out[1]
        /\ \A j \in DOMAIN out' : j + 1 \in DOMAIN out /\ out'[j] = out[j + 1]
    BY <1>5, TailAt DEF ReadFrame
  <2>2. reader' # "deliver" /\ (frame' = frame \/ frame' = out[1])
    BY <1>5, <2>1 DEF ReadFrame
  <2> QED
    BY <1>0, <1>5, <2>1, <2>2 DEF ReadFrame
<1>6. CASE ChildReads
  <2>1. /\ 1 \in DOMAIN pipe /\ Head(pipe) = pipe[1]
        /\ \A j \in DOMAIN pipe' : j + 1 \in DOMAIN pipe /\ pipe'[j] = pipe[j + 1]
    BY <1>6, TailAt DEF ChildReads
  <2>2. \/ half' = pipe[1][2] /\ asked' = asked
        \/ half' = -1 /\ asked' \subseteq asked \cup {half}
    BY <1>6, <2>1 DEF ChildReads
  <2>3. i # -1
    BY <1>0, IdAssumption DEF Ids
  <2> QED
    BY <1>0, <1>6, <2>1, <2>2, <2>3 DEF ChildReads
<1>7. CASE ChildWrites
  <2>1. PICK e \in FromChild \cup {Garbage} : out' = Append(out, e) /\ e # <<"reply", i>>
    BY <1>0, <1>7, SentByChild
  <2>2. \A j \in DOMAIN out' : out'[j] = e \/ (j \in DOMAIN out /\ out'[j] = out[j])
    BY <2>1, AppendAt
  <2>3. asked' \subseteq asked
    BY <1>7 DEF ChildWrites
  <2> QED
    BY <1>0, <1>7, <2>1, <2>2, <2>3 DEF ChildWrites
<1>8. CASE ChildDies \/ CloseFlag \/ Close
  <2>1. /\ asked' \subseteq asked /\ half' \in {half, -1} /\ pipe' \in {pipe, <<>>}
        /\ UNCHANGED <<pending, id, loop, out>>
    BY <1>8 DEF ChildDies, CloseFlag, Close, CloseChannel, CloseWait, CloseDone, Child
  <2> QED
    BY <1>0, <2>1, IdAssumption DEF Ids
<1>9. CASE Again
  <2>1. i # -1 /\ NoFrame # <<"reply", i>> /\ pipe' = <<>> /\ out' = <<>>
    BY <1>0, <1>9, IdAssumption DEF Again, Ids, NoFrame
  <2> QED
    BY <1>0, <1>9, <2>1 DEF Again
<1>10. ASSUME NEW c \in Callers, Step(c)
       PROVE  /\ i \notin pending' \cup asked' \cup {half'}
              /\ \A d \in Callers : id'[d] # i
              /\ \A j \in DOMAIN pipe' : pipe'[j][2] # i
              /\ \A j \in DOMAIN out' : out'[j] # <<"reply", i>>
              /\ frame' # <<"reply", i>>
              /\ reader' = "deliver" => frame'[2] # i
  <2>1. i # -1
    BY <1>0, IdAssumption DEF Ids
  <2>2. CASE Handshake(c) \/ Request(c) \/ Notify(c) \/ Acquire(c) \/ Lock(c) \/ Await(c) \/ Timeout(c)
    BY <1>0, <1>1, <2>2
  <2>3. CASE Write(c)
    BY <1>0, <1>2, <2>3
  <2>4. CASE Finish(c) \/ FailHandshake(c)
    BY <1>0, <1>3, <2>1, <2>4
  <2> QED
    BY <1>10, <2>2, <2>3, <2>4 DEF Step, Call
<1> QED
  BY <1>4, <1>5, <1>6, <1>7, <1>8, <1>9, <1>10 DEF Next, Step, Read, Server

(* There stays an id for each call that is to take one.                    *)
LEMMA RoomStep ==
  ASSUME TypeOK, FramesIntact, Stages, Room, Next
  PROVE  Room'
<1> USE DEF TypeOK, Goto, Return, caller, client, process, loop
<1>1. ASSUME NEW c \in Callers, Register(c) PROVE Room'
  <2>1. NextId \in Unused
    BY <1>1, FreshId DEF Register
  <2>2. Unused \ {NextId} \subseteq Unused'
    <3> DEFINE n == NextId
    <3>1. /\ id' = [id EXCEPT ![c] = n] /\ pending' = pending \cup {n}
          /\ UNCHANGED <<asked, loop, half, pipe, out>>
      BY <1>1 DEF Register
    <3> HIDE DEF n
    <3> SUFFICES ASSUME NEW i \in Unused, i # n PROVE i \in Unused'
      BY DEF n
    <3> QED
      BY <3>1, FreshFacts DEF Unused
  <2>3. c \in Coming /\ Coming' = Coming \ {c} /\ Coming \in SUBSET Callers
    BY <1>1 DEF Register, Coming
  <2>4. Cardinality(Coming') = Cardinality(Coming) - 1
    BY <2>3, FiniteCallers, FS_RemoveElement
  <2>5. Cardinality(Unused \ {NextId}) = Cardinality(Unused) - 1
    BY <2>1, FiniteUnused, FS_RemoveElement
  <2>6. Cardinality(Unused \ {NextId}) <= Cardinality(Unused')
    BY <2>2, FiniteUnusedAfter, FS_Subset
  <2>7. Cardinality(Coming') <= Cardinality(Unused')
    BY <2>3, <2>4, <2>5, <2>6, FiniteCallers, FiniteUnused, FiniteUnusedAfter DEF Room
  <2>8. Busy' # {}
    BY <1>1 DEF Register, Busy
  <2> QED
    BY <2>7, <2>8 DEF Room
<1>2. ASSUME \A c \in Callers : ~ Register(c) PROVE Room'
  <2>1. Unused \subseteq Unused'
    BY <1>2, UnusedStep
  <2>2. Cardinality(Unused) <= Cardinality(Unused') /\ Cardinality(Unused') \in Nat
    BY <2>1, FiniteUnusedAfter, FS_Subset
  <2>3. Coming \in SUBSET Callers /\ Coming' \in SUBSET Callers
    BY DEF Coming
  <2>4. Cardinality(Coming') <= Cardinality(Unused')
    <3>1. ASSUME NEW c \in Callers, Handshake(c) PROVE Cardinality(Coming') <= Cardinality(Unused')
      <4>1. Busy = {} /\ phase = "new" /\ Coming' = {c}
        BY <3>1 DEF Handshake, Busy, Coming
      <4>2. Unused = Ids
        BY <4>1 DEF Room
      <4>3. Cardinality(Coming') <= Cardinality(Callers)
        BY <2>3, CallersAssumption, FS_Subset
      <4> QED
        BY <2>2, <2>3, <4>2, <4>3, FiniteIds, FiniteCallers, IdAssumption
    <3>2. ASSUME NEW c \in Callers, Request(c) PROVE Cardinality(Coming') <= Cardinality(Unused')
      <4>1. Cardinality(Unused) > Cardinality(Coming)
        BY <3>2 DEF Request, Coming
      <4>2. Coming' = Coming \cup {c} /\ c \notin Coming
        BY <3>2 DEF Request, Coming
      <4>3. Cardinality(Coming') = Cardinality(Coming) + 1
        BY <2>3, <4>2, FiniteCallers, FS_AddElement
      <4> QED
        BY <2>2, <2>3, <4>1, <4>3, FiniteCallers, FiniteUnused
    <3>3. ASSUME \A c \in Callers : ~ (Handshake(c) \/ Request(c))
          PROVE  Cardinality(Coming') <= Cardinality(Unused')
      <4>1. Coming' \subseteq Coming
        <5>1. ASSUME NEW c \in Callers, Step(c) PROVE Coming' \subseteq Coming
          BY <1>2, <3>3, <5>1 DEF Step, Call, Notify, Acquire, Lock, Write, Await, Finish, FailHandshake,
                                  Timeout, Failure, Coming
        <5>2. CASE Read \/ Server \/ CloseFlag \/ Close \/ Again
          BY <5>2 DEF Read, ReadCheck, ReadFrame, ReadFails, ReadLookup, ReadDeliver,
               Server, ChildReads, ChildWrites, ChildDies, CloseFlag, Close, CloseChannel,
               CloseWait, CloseDone, Again, Coming
        <5> QED
          BY <5>1, <5>2 DEF Next, Step
      <4>2. Cardinality(Coming') <= Cardinality(Coming)
        BY <2>3, <4>1, FiniteCallers, FS_Subset
      <4> QED
        BY <2>2, <2>3, <4>2, FiniteCallers, FiniteUnused DEF Room
    <3> QED
      BY <3>1, <3>2, <3>3
  <2>5. phase' = "new" /\ Busy' = {} => Unused' = Ids
    <3> SUFFICES ASSUME phase' = "new", Busy' = {} PROVE Unused' = Ids
      OBVIOUS
    <3>1. CASE Again
      <4> SUFFICES ASSUME NEW i \in Ids PROVE i \in Unused'
        BY DEF Unused
      <4>1. i # 0 /\ i # -1 /\ NoFrame # <<"reply", i>>
        BY IdAssumption DEF Ids, NoFrame
      <4>2. /\ pending' = {} /\ asked' = {} /\ half' = -1 /\ pipe' = <<>> /\ out' = <<>>
            /\ frame' = NoFrame /\ reader' = "check"
        BY <3>1 DEF Again
      <4>3. \A c \in Callers : id'[c] = 0
        BY <3>1 DEF Again, Stages
      <4> QED
        BY <4>1, <4>2, <4>3 DEF Unused
    <3>2. CASE ~ Again
      <4>1. phase = "new"
        <5>1. ASSUME NEW c \in Callers, Step(c) PROVE phase = "new"
          BY <5>1 DEF Step, Call, Handshake, Request, Notify, Acquire, Register, Lock, Write, Await,
                      Finish, FailHandshake, Timeout
        <5>2. CASE Read \/ Server \/ CloseFlag \/ Close
          BY <5>2 DEF Read, ReadCheck, ReadFrame, ReadFails, ReadLookup, ReadDeliver,
               Server, ChildReads, ChildWrites, ChildDies, CloseFlag, Close, CloseChannel,
               CloseWait, CloseDone
        <5> QED
          BY <3>2, <5>1, <5>2 DEF Next, Step
      <4>2. Busy = {}
        <5>1. ASSUME NEW c \in Callers, Step(c) PROVE FALSE
          <6>1. pc'[c] = "idle"
            BY DEF Busy
          <6> QED
            BY <4>1, <5>1, <6>1 DEF Step, Call, Handshake, Request, Notify, Acquire, Register, Lock, Write,
                 Await, Finish, FailHandshake, Timeout, Failure, Stages
        <5>2. CASE Read \/ Server \/ CloseFlag \/ Close
          BY <5>2 DEF Read, ReadCheck, ReadFrame, ReadFails, ReadLookup, ReadDeliver,
               Server, ChildReads, ChildWrites, ChildDies, CloseFlag, Close, CloseChannel,
               CloseWait, CloseDone, Busy
        <5> QED
          BY <3>2, <5>1, <5>2 DEF Next, Step
      <4> QED
        BY <2>1, <4>1, <4>2, FiniteUnusedAfter DEF Room
    <3> QED
      BY <3>1, <3>2
  <2> QED
    BY <2>4, <2>5 DEF Room
<1> QED
  BY <1>1, <1>2

-----------------------------------------------------------------------------
Frames == {"header", "body"} \X (Ids \cup {0})

(* What is in the stream, place by place.                                  *)
LEMMA StreamAt ==
  ASSUME NEW h \in Ids \cup {0, -1}, NEW p \in Seq(Frames)
  PROVE  /\ StreamOf(h, p) \in Seq(Frames)
         /\ Len(StreamOf(h, p)) = Len(p) + (IF h = -1 THEN 0 ELSE 1)
         /\ h = -1 => \A j \in 1 .. Len(p) : StreamOf(h, p)[j] = p[j]
         /\ h # -1 => \A j \in 1 .. Len(p) : StreamOf(h, p)[j + 1] = p[j]
         /\ h # -1 => StreamOf(h, p)[1] = <<"header", h>>
<1>1. CASE h = -1
  BY <1>1 DEF StreamOf
<1>2. CASE h # -1
  <2>1. <<"header", h>> \in Frames
    BY <1>2 DEF Frames
  <2> DEFINE a == <<<<"header", h>>>>
  <2>2. a \in Seq(Frames) /\ Len(a) = 1 /\ a[1] = <<"header", h>>
    BY <2>1
  <2>3. Len(p) \in Nat
    BY LenProperties
  <2>4. StreamOf(h, p) = a \o p
    BY <1>2 DEF StreamOf
  <2> HIDE DEF a
  <2>5. /\ a \o p \in Seq(Frames) /\ Len(a \o p) = 1 + Len(p)
        /\ \A j \in 1 .. 1 + Len(p) : (a \o p)[j] = IF j <= 1 THEN a[j] ELSE p[j - 1]
    BY <2>2, ConcatProperties
  <2>6. \A j \in 1 .. Len(p) : (a \o p)[j + 1] = p[j]
    <3> SUFFICES ASSUME NEW j \in 1 .. Len(p) PROVE (a \o p)[j + 1] = p[j]
      OBVIOUS
    <3>1. j + 1 \in 1 .. 1 + Len(p) /\ ~ (j + 1 <= 1) /\ (j + 1) - 1 = j
      BY <2>3
    <3> QED
      BY <2>5, <3>1
  <2>7. (a \o p)[1] = a[1]
    BY <2>3, <2>5
  <2> QED
    BY <1>2, <2>2, <2>3, <2>4, <2>5, <2>6, <2>7
<1> QED
  BY <1>1, <1>2

(* What is well formed: headers and bodies in turn, of the same request.   *)
WellFormed(s) ==
  \A i \in 1 .. Len(s) : /\ s[i][1] = (IF i % 2 = 1 THEN "header" ELSE "body")
                         /\ i % 2 = 0 => s[i][2] = s[i - 1][2]

LEMMA StreamType == TypeOK => half \in Ids \cup {0, -1} /\ pipe \in Seq(Frames) /\ Stream \in Seq(Frames)
  BY StreamAt DEF TypeOK, Frames, Stream

LEMMA FramesAre == TypeOK => (FramesIntact <=> WellFormed(Stream))
<1> SUFFICES ASSUME TypeOK PROVE FramesIntact <=> WellFormed(Stream)
  OBVIOUS
<1>1. DOMAIN Stream = 1 .. Len(Stream)
  BY StreamType, LenProperties
<1>2. Stream = IF half = -1 THEN pipe ELSE <<<<"header", half>>>> \o pipe
  BY DEF Stream, StreamOf
<1> QED
  BY <1>1, <1>2 DEF FramesIntact, WellFormed

(* One more write.                                                         *)
LEMMA StreamGrows ==
  ASSUME NEW h \in Ids \cup {0, -1}, NEW p \in Seq(Frames), NEW e \in Frames
  PROVE  LET s == StreamOf(h, p)
             t == StreamOf(h, Append(p, e)) IN
         /\ Len(s) \in Nat /\ Len(t) = Len(s) + 1 /\ t[Len(t)] = e
         /\ \A j \in 1 .. Len(s) : t[j] = s[j]
<1> DEFINE q == Append(p, e)
<1>1. /\ q \in Seq(Frames) /\ Len(q) = Len(p) + 1 /\ q[Len(p) + 1] = e
      /\ \A j \in 1 .. Len(p) : q[j] = p[j]
  BY AppendProperties
<1>2. Len(p) \in Nat
  BY LenProperties
<1> HIDE DEF q
<1> SUFFICES LET s == StreamOf(h, p)
                 t == StreamOf(h, q) IN
             /\ Len(s) \in Nat /\ Len(t) = Len(s) + 1 /\ t[Len(t)] = e
             /\ \A j \in 1 .. Len(s) : t[j] = s[j]
  BY DEF q
<1>3. CASE h = -1
  BY <1>1, <1>2, <1>3 DEF StreamOf
<1>4. CASE h # -1
  <2>1. \A r \in Seq(Frames) :
          /\ Len(StreamOf(h, r)) = Len(r) + 1 /\ StreamOf(h, r)[1] = <<"header", h>>
          /\ \A k \in 1 .. Len(r) : StreamOf(h, r)[k + 1] = r[k]
    BY <1>4, StreamAt
  <2>2. ASSUME NEW j \in 1 .. Len(p) + 1 PROVE StreamOf(h, q)[j] = StreamOf(h, p)[j]
    <3>1. CASE j = 1
      BY <1>1, <2>1, <3>1
    <3>2. CASE j # 1
      <4>1. PICK k \in 1 .. Len(p) : j = k + 1
        <5>1. j - 1 \in 1 .. Len(p) /\ j = (j - 1) + 1
          BY <1>2, <3>2
        <5> QED
          BY <5>1
      <4>2. k \in 1 .. Len(q)
        BY <1>1, <1>2
      <4> QED
        BY <1>1, <2>1, <4>1, <4>2
    <3> QED
      BY <3>1, <3>2
  <2> QED
    BY <1>1, <1>2, <2>1, <2>2
<1> QED
  BY <1>3, <1>4

(* The child reads a header, and then the body: the stream stays what it   *)
(* is, and then loses its first two.                                       *)
LEMMA HeaderRead ==
  ASSUME NEW p \in Seq(Frames), p # <<>>, p[1][1] = "header"
  PROVE  StreamOf(p[1][2], Tail(p)) = StreamOf(-1, p)
<1>1. p[1] \in Frames /\ p[1] = <<"header", p[1][2]>> /\ p[1][2] \in Ids \cup {0} /\ p[1][2] # -1
  <2>1. p[1] \in Frames
    BY LenProperties, EmptySeq
  <2> QED
    BY <2>1, IdAssumption DEF Frames, Ids
<1>2. StreamOf(p[1][2], Tail(p)) = <<p[1]>> \o Tail(p)
  BY <1>1 DEF StreamOf
<1>3. /\ Tail(p) \in Seq(Frames) /\ Len(Tail(p)) = Len(p) - 1 /\ Len(p) \in Nat
      /\ \A i \in 1 .. Len(Tail(p)) : Tail(p)[i] = p[i + 1]
  BY HeadTailProperties, LenProperties
<1> DEFINE h == p[1][2]
           t == Tail(p)
           s == StreamOf(h, t)
<1>4. /\ s \in Seq(Frames) /\ Len(s) = Len(t) + 1 /\ s[1] = p[1]
      /\ \A j \in 1 .. Len(t) : s[j + 1] = t[j]
  BY <1>1, <1>3, StreamAt
<1> HIDE DEF s, t, h
<1>5. ASSUME NEW j \in 1 .. Len(p) PROVE s[j] = p[j]
  <2>1. CASE j = 1
    BY <1>4, <2>1
  <2>2. CASE j # 1
    <3>1. j - 1 \in 1 .. Len(t) /\ (j - 1) + 1 = j
      BY <1>3, <2>2 DEF t
    <3> QED
      BY <1>3, <1>4, <3>1 DEF t
  <2> QED
    BY <2>1, <2>2
<1>6. Len(s) = Len(p)
  BY <1>3, <1>4 DEF t
<1>7. s = p
  BY <1>4, <1>5, <1>6, SeqEqual
<1> QED
  BY <1>7 DEF s, t, h, StreamOf

LEMMA BodyRead ==
  ASSUME NEW h \in Ids \cup {0}, NEW p \in Seq(Frames), p # <<>>
  PROVE  LET s == StreamOf(h, p)
             t == StreamOf(-1, Tail(p)) IN
         /\ Len(t) \in Nat /\ Len(s) = Len(t) + 2
         /\ \A j \in 1 .. Len(t) : t[j] = s[j + 2]
<1>0. h # -1
  BY IdAssumption DEF Ids
<1>1. /\ Tail(p) \in Seq(Frames) /\ Len(Tail(p)) = Len(p) - 1 /\ Len(p) \in Nat /\ Len(Tail(p)) \in Nat
      /\ \A i \in 1 .. Len(Tail(p)) : Tail(p)[i] = p[i + 1]
  BY HeadTailProperties, LenProperties
<1>2. /\ Len(StreamOf(h, p)) = Len(p) + 1
      /\ \A j \in 1 .. Len(p) : StreamOf(h, p)[j + 1] = p[j]
  BY <1>0, StreamAt
<1>3. StreamOf(-1, Tail(p)) = Tail(p)
  BY DEF StreamOf
<1>4. ASSUME NEW j \in 1 .. Len(Tail(p)) PROVE Tail(p)[j] = StreamOf(h, p)[j + 2]
  <2>1. j + 1 \in 1 .. Len(p) /\ (j + 1) + 1 = j + 2
    BY <1>1
  <2> QED
    BY <1>1, <1>2, <2>1
<1> QED
  BY <1>1, <1>2, <1>3, <1>4

(* A body is read only after its header.                                   *)
LEMMA BodyOfHalf ==
  ASSUME TypeOK, FramesIntact, pipe # <<>>
  PROVE  /\ pipe[1] \in Frames /\ Head(pipe) = pipe[1]
         /\ half = -1 => pipe[1][1] = "header"
         /\ half # -1 => pipe[1] = <<"body", half>>
<1>1. WellFormed(Stream) /\ Stream = StreamOf(half, pipe)
  BY FramesAre DEF Stream
<1>2. 1 \in 1 .. Len(pipe) /\ Len(pipe) \in Nat /\ pipe[1] \in Frames /\ Head(pipe) = pipe[1]
  BY StreamType, LenProperties, EmptySeq
<1>3. CASE half = -1
  <2>1. 1 \in 1 .. Len(Stream) /\ Stream[1] = pipe[1]
    BY <1>1, <1>2, <1>3 DEF StreamOf
  <2>2. 1 % 2 = 1
    OBVIOUS
  <2> QED
    BY <1>1, <1>2, <1>3, <2>1, <2>2 DEF WellFormed
<1>4. CASE half # -1
  <2>1. /\ Len(Stream) = Len(pipe) + 1 /\ Stream[1] = <<"header", half>>
        /\ \A j \in 1 .. Len(pipe) : Stream[j + 1] = pipe[j]
    BY <1>1, <1>4, StreamType, StreamAt
  <2>2. 2 \in 1 .. Len(Stream) /\ Stream[2] = pipe[1]
    <3>1. Stream[1 + 1] = pipe[1]
      BY <1>2, <2>1
    <3> QED
      BY <1>2, <2>1, <3>1
  <2>3. 2 % 2 = 0 /\ 2 - 1 = 1
    OBVIOUS
  <2>4. pipe[1][1] = "body" /\ pipe[1][2] = half
    BY <1>1, <2>1, <2>2, <2>3 DEF WellFormed
  <2> QED
    BY <1>2, <1>4, <2>4 DEF Frames
<1> QED
  BY <1>2, <1>3, <1>4

(* The lock is held from the header to the body.                           *)
LEMMA LockedStep ==
  ASSUME TypeOK, Stages, Locked, Next
  PROVE  Locked'
<1> USE DEF TypeOK, Locked, Goto, Return, caller, client, process, loop
<1>1. ASSUME NEW c \in Callers, Step(c) PROVE Locked'
  <2>1. CASE Lock(c)
    BY <2>1, CallersAssumption DEF Lock, WriteMuFree
  <2>2. CASE Write(c)
    BY <2>2 DEF Write, Failure
  <2>3. CASE ~ (Lock(c) \/ Write(c))
    BY <1>1, <2>3 DEF Step, Call, Handshake, Request, Notify, Acquire, Register, Await, Finish,
                      FailHandshake, Timeout, Failure
  <2> QED
    BY <2>1, <2>2, <2>3
<1>2. CASE Read \/ Server
  BY <1>2 DEF Read, ReadCheck, ReadFrame, ReadFails, ReadLookup, ReadDeliver,
              Server, ChildReads, ChildWrites, ChildDies
<1>3. CASE CloseFlag \/ Close
  BY <1>3 DEF CloseFlag, Close, CloseChannel, CloseWait, CloseDone
<1>4. CASE Again
  BY <1>4 DEF Again
<1> QED
  BY <1>1, <1>2, <1>3, <1>4 DEF Next, Step

(* A dead child stays dead, until another client starts another one.       *)
LEMMA LifeStep ==
  ASSUME TypeOK, Stages, Life, Next
  PROVE  Life'
<1> USE DEF TypeOK, Life, Stages, Goto, Return, caller, client, process, loop
<1>1. ASSUME NEW c \in Callers, Step(c) PROVE Life'
  BY <1>1 DEF Step, Call, Handshake, Request, Notify, Acquire, Register, Lock, Write, Await, Finish,
              FailHandshake, Timeout, Child, Killed
<1>2. CASE Read
  BY <1>2 DEF Read, ReadCheck, ReadFrame, ReadFails, ReadLookup, ReadDeliver
<1>3. CASE Server
  BY <1>3 DEF Server, ChildReads, ChildWrites, ChildDies, Child
<1>4. CASE CloseFlag \/ Close
  BY <1>4 DEF CloseFlag, Close, CloseChannel, CloseWait, CloseDone, Child, Killed
<1>5. CASE Again
  BY <1>5 DEF Again
<1> QED
  BY <1>1, <1>2, <1>3, <1>4, <1>5 DEF Next, Step

LEMMA FramesAreAfter == (TypeOK => (FramesIntact <=> WellFormed(Stream)))'
  BY FramesAre, PTL

(* The writes come in pairs, whoever writes and whenever the child reads.  *)
LEMMA FramesStep ==
  ASSUME TypeOK, TypeOK', Stages, FramesIntact, Parity, Locked, Locked', Life, Next
  PROVE  WellFormed(Stream') /\ Parity'
<1>0. WellFormed(Stream) /\ Len(Stream) \in Nat
  BY FramesAre, StreamType, LenProperties
<1> USE DEF Goto, Return, caller, client, process, loop
<1>1. ASSUME UNCHANGED <<half, pipe, child>>,
             \A d \in Callers : /\ pc'[d] = "body" <=> pc[d] = "body"
                                /\ pc'[d] = "body" => id'[d] = id[d]
      PROVE  WellFormed(Stream') /\ Parity'
  BY <1>0, <1>1 DEF Stream, Parity, HalfWritten
<1>2. ASSUME child' = "dead", pipe' = <<>>, half' = -1
      PROVE  WellFormed(Stream') /\ Parity'
  <2>1. Stream' = <<>>
    BY <1>2 DEF Stream, StreamOf
  <2> QED
    BY <1>2, <2>1 DEF WellFormed, Parity, HalfWritten
<1>3. ASSUME NEW c \in Callers, Write(c) PROVE WellFormed(Stream') /\ Parity'
  <2>1. CASE child = "dead"
    BY <1>2, <1>3, <2>1 DEF Write, Life
  <2> DEFINE e == <<pc[c], id[c]>>
  <2>2. CASE child = "running" /\ pipe' = Append(pipe, e) /\ child' = child
    <3>1. e \in Frames
      BY <1>3 DEF Write, Frames, TypeOK
    <3>2. half' = half
      BY <1>3 DEF Write
    <3>3. /\ Len(Stream') = Len(Stream) + 1 /\ Stream'[Len(Stream) + 1] = e
          /\ \A j \in 1 .. Len(Stream) : Stream'[j] = Stream[j]
      <4>1. Stream = StreamOf(half, pipe) /\ Stream' = StreamOf(half, Append(pipe, e))
        BY <2>2, <3>2 DEF Stream
      <4>2. half \in Ids \cup {0, -1} /\ pipe \in Seq(Frames)
        BY StreamType
      <4> HIDE DEF e
      <4> QED
        BY <3>1, <4>1, <4>2, StreamGrows
    <3>4. \A d \in Callers : pc[d] \in {"header", "body"} => d = c
      BY <1>3 DEF Write, Locked
    <3>5. \A d \in Callers : d # c => pc'[d] = pc[d] /\ id'[d] = id[d]
      BY <1>3, OneMoves DEF Step, Call
    <3>6. CASE pc[c] = "header"
      <4>1. Len(Stream) % 2 # 1
        BY <3>4, <3>6 DEF Parity, HalfWritten
      <4>2. (Len(Stream) + 1) % 2 = 1
        BY <1>0, <4>1
      <4>3. pc'[c] = "body" /\ id'[c] = id[c] /\ child' = "running"
        BY <1>3, <2>2, <3>6 DEF Write, TypeOK
      <4>4. WellFormed(Stream')
        <5> SUFFICES ASSUME NEW i \in 1 .. Len(Stream')
                     PROVE  /\ Stream'[i][1] = (IF i % 2 = 1 THEN "header" ELSE "body")
                            /\ i % 2 = 0 => Stream'[i][2] = Stream'[i - 1][2]
          BY DEF WellFormed
        <5>1. CASE i = Len(Stream) + 1
          BY <3>3, <3>6, <4>2, <5>1
        <5>2. CASE i \in 1 .. Len(Stream)
          <6>1. i % 2 = 0 => i - 1 \in 1 .. Len(Stream)
            BY <1>0, <5>2
          <6> QED
            BY <1>0, <3>3, <5>2, <6>1 DEF WellFormed
        <5> QED
          BY <1>0, <3>3, <5>1, <5>2
      <4>5. Parity'
        BY <3>3, <3>4, <3>5, <4>2, <4>3 DEF Parity, HalfWritten
      <4> QED
        BY <4>4, <4>5
    <3>7. CASE pc[c] = "body"
      <4>1. Len(Stream) % 2 = 1 /\ Stream[Len(Stream)][2] = id[c]
        BY <2>2, <3>7 DEF Parity, HalfWritten
      <4>2. (Len(Stream) + 1) % 2 = 0 /\ Len(Stream) \in 1 .. Len(Stream)
        BY <1>0, <4>1
      <4>3. pc'[c] # "body"
        BY <1>3, <2>2, <3>7 DEF Write, TypeOK
      <4>4. WellFormed(Stream')
        <5> SUFFICES ASSUME NEW i \in 1 .. Len(Stream')
                     PROVE  /\ Stream'[i][1] = (IF i % 2 = 1 THEN "header" ELSE "body")
                            /\ i % 2 = 0 => Stream'[i][2] = Stream'[i - 1][2]
          BY DEF WellFormed
        <5>1. CASE i = Len(Stream) + 1
          <6>1. i - 1 = Len(Stream)
            BY <1>0, <5>1
          <6> QED
            BY <3>3, <3>7, <4>1, <4>2, <5>1, <6>1
        <5>2. CASE i \in 1 .. Len(Stream)
          <6>1. i % 2 = 0 => i - 1 \in 1 .. Len(Stream)
            BY <1>0, <5>2
          <6> QED
            BY <1>0, <3>3, <5>2, <6>1 DEF WellFormed
        <5> QED
          BY <1>0, <3>3, <5>1, <5>2
      <4>5. Parity'
        <5>1. \A d \in Callers : pc'[d] # "body"
          BY <3>4, <3>5, <4>3
        <5> QED
          BY <3>3, <4>2, <5>1 DEF Parity, HalfWritten
      <4> QED
        BY <4>4, <4>5
    <3> QED
      BY <1>3, <3>6, <3>7 DEF Write
  <2> QED
    BY <1>3, <2>1, <2>2 DEF Write
<1>4. CASE ChildReads
  <2>1. pipe # <<>> /\ pipe' = Tail(pipe) /\ UNCHANGED <<pc, id, child>>
    BY <1>4 DEF ChildReads
  <2>2. CASE half = -1
    <3>1. pipe[1][1] = "header" /\ half' = pipe[1][2]
      BY <1>4, <2>1, <2>2, BodyOfHalf DEF ChildReads
    <3>2. Stream' = Stream
      BY <2>1, <2>2, <3>1, StreamType, HeaderRead DEF Stream
    <3> QED
      BY <1>0, <2>1, <3>2 DEF Parity, HalfWritten
  <2>3. CASE half # -1
    <3>1. half' = -1 /\ half \in Ids \cup {0}
      BY <1>4, <2>1, <2>3, BodyOfHalf DEF ChildReads, TypeOK
    <3>2. /\ Len(Stream') \in Nat /\ Len(Stream) = Len(Stream') + 2
          /\ \A j \in 1 .. Len(Stream') : Stream'[j] = Stream[j + 2]
      BY <2>1, <3>1, StreamType, BodyRead DEF Stream
    <3>3. WellFormed(Stream')
      <4> SUFFICES ASSUME NEW i \in 1 .. Len(Stream')
                   PROVE  /\ Stream'[i][1] = (IF i % 2 = 1 THEN "header" ELSE "body")
                          /\ i % 2 = 0 => Stream'[i][2] = Stream'[i - 1][2]
        BY DEF WellFormed
      <4>1. i + 2 \in 1 .. Len(Stream) /\ (i + 2) % 2 = i % 2
        BY <3>2
      <4>2. i % 2 = 0 => i - 1 \in 1 .. Len(Stream') /\ (i - 1) + 2 = (i + 2) - 1
        BY <3>2
      <4> QED
        BY <1>0, <3>2, <4>1, <4>2 DEF WellFormed
    <3>4. Parity'
      <4>1. Len(Stream') % 2 = 1 <=> Len(Stream) % 2 = 1
        BY <3>2
      <4>2. Len(Stream) % 2 = 1 => Len(Stream') \in 1 .. Len(Stream')
        BY <3>2
      <4> QED
        BY <2>1, <3>2, <4>1, <4>2 DEF Parity, HalfWritten
    <3> QED
      BY <3>3, <3>4
  <2> QED
    BY <2>2, <2>3
<1>5. CASE Again
  <2>1. Stream' = <<>>
    BY <1>5 DEF Again, Stream, StreamOf
  <2> QED
    BY <1>5, <2>1 DEF Again, WellFormed, Parity, HalfWritten
<1>6. ASSUME NEW c \in Callers, Step(c), ~ Write(c) PROVE WellFormed(Stream') /\ Parity'
  <2>1. CASE FailHandshake(c)
    BY <1>2, <2>1 DEF FailHandshake, Child, Killed
  <2>2. CASE ~ FailHandshake(c)
    <3>1. UNCHANGED <<half, pipe, child>>
      BY <1>6, <2>2 DEF Step, Call, Handshake, Request, Notify, Acquire, Register, Lock, Await, Finish, Timeout
    <3>2. \A d \in Callers : /\ pc'[d] = "body" <=> pc[d] = "body"
                             /\ pc'[d] = "body" => id'[d] = id[d]
      BY <1>6, <2>2 DEF Step, Call, Handshake, Request, Notify, Acquire, Register, Lock, Await, Finish, Timeout,
                        Failure, TypeOK
    <3> QED
      BY <1>1, <3>1, <3>2
  <2> QED
    BY <2>1, <2>2
<1>7. CASE ChildDies \/ CloseWait
  <2>1. \/ UNCHANGED <<pc, id, half, pipe, child>>
        \/ child' = "dead" /\ pipe' = <<>> /\ half' = -1
    BY <1>7 DEF ChildDies, CloseWait, Child, Killed
  <2> QED
    BY <1>1, <1>2, <2>1
<1>8. CASE Read \/ ChildWrites \/ CloseFlag \/ CloseChannel \/ CloseDone
  <2>1. UNCHANGED <<pc, id, half, pipe, child>>
    BY <1>8 DEF Read, ReadCheck, ReadFrame, ReadFails, ReadLookup, ReadDeliver, ChildWrites,
                CloseFlag, CloseChannel, CloseDone
  <2> QED
    BY <1>1, <2>1
<1> QED
  BY <1>3, <1>4, <1>5, <1>6, <1>7, <1>8 DEF Next, Step, Server, Close

(* A reply comes on its way when the body of its request is written, and   *)
(* moves along from there.                                                 *)
LEMMA WayStep ==
  ASSUME TypeOK, FramesIntact, Next, NEW i \in Ids, OnItsWay(i)'
  PROVE  \/ OnItsWay(i)
         \/ \E c \in Callers : Write(c) /\ pc[c] = "body" /\ id[c] = i /\ pc'[c] = "wait"
<1> USE DEF TypeOK, Goto, Return, caller, client, process, loop
<1>0. i # 0 /\ i # -1 /\ NoFrame # <<"reply", i>>
  BY IdAssumption DEF Ids, NoFrame
<1>1. ASSUME asked' \subseteq asked, box' \subseteq box, frame' \in {frame, NoFrame}, out' \in {out, <<>>},
             pipe' \in {pipe, <<>>}
      PROVE  OnItsWay(i)
  BY <1>0, <1>1 DEF OnItsWay
<1>2. ASSUME NEW c \in Callers, Write(c)
      PROVE  OnItsWay(i) \/ (pc[c] = "body" /\ id[c] = i /\ pc'[c] = "wait")
  <2>1. CASE UNCHANGED pipe
    BY <1>1, <1>2, <2>1 DEF Write
  <2>2. CASE child = "running" /\ pipe' = Append(pipe, <<pc[c], id[c]>>)
    <3>1. <<pc[c], id[c]>> \in {"header", "body"} \X (Ids \cup {0})
      BY <1>2 DEF Write
    <3>2. \A j \in DOMAIN pipe' :
            pipe'[j] = <<pc[c], id[c]>> \/ (j \in DOMAIN pipe /\ pipe'[j] = pipe[j])
      BY <2>2, <3>1, AppendAt
    <3>3. UNCHANGED <<asked, box, frame, out>>
      BY <1>2 DEF Write
    <3>4. OnItsWay(i) \/ <<pc[c], id[c]>> = <<"body", i>>
      BY <3>2, <3>3 DEF OnItsWay
    <3>5. pc[c] = "body" /\ id[c] # 0 => pc'[c] = "wait"
      BY <1>2, <2>2 DEF Write
    <3> QED
      BY <1>0, <3>4, <3>5
  <2> QED
    BY <1>2, <2>1, <2>2 DEF Write
<1>3. ASSUME NEW c \in Callers, Step(c), ~ Write(c) PROVE OnItsWay(i)
  <2>1. /\ asked' \subseteq asked /\ box' \subseteq box /\ frame' = frame /\ out' = out
        /\ pipe' \in {pipe, <<>>}
    BY <1>3 DEF Step, Call, Handshake, Request, Notify, Acquire, Register, Lock, Await, Finish,
                FailHandshake, Timeout, Child, Killed
  <2> QED
    BY <1>1, <2>1
<1>4. CASE ReadCheck \/ ReadFails \/ ReadLookup
  BY <1>1, <1>4 DEF ReadCheck, ReadFails, ReadLookup
<1>5. CASE ReadFrame
  <2>1. /\ 1 \in DOMAIN out /\ Head(out) = out[1]
        /\ \A j \in DOMAIN out' : j + 1 \in DOMAIN out /\ out'[j] = out[j + 1]
    BY <1>5, TailAt DEF ReadFrame
  <2>2. /\ frame' = frame \/ frame' = out[1]
        /\ UNCHANGED <<asked, box, pipe>>
    BY <1>5, <2>1 DEF ReadFrame
  <2> QED
    BY <2>1, <2>2 DEF OnItsWay
<1>6. CASE ReadDeliver
  BY <1>0, <1>6 DEF ReadDeliver, OnItsWay
<1>7. CASE ChildReads
  <2>1. \A j \in DOMAIN pipe' : j + 1 \in DOMAIN pipe /\ pipe'[j] = pipe[j + 1]
    BY <1>7, TailAt DEF ChildReads
  <2>2. UNCHANGED <<box, frame, out>>
    BY <1>7 DEF ChildReads
  <2>3. CASE half = -1
    <3>1. asked' = asked
      BY <1>7, <2>3, BodyOfHalf DEF ChildReads
    <3> QED
      BY <2>1, <2>2, <3>1 DEF OnItsWay
  <2>4. CASE half # -1
    <3>1. 1 \in DOMAIN pipe /\ pipe[1] = <<"body", half>>
      BY <1>7, <2>4, BodyOfHalf, TailAt DEF ChildReads
    <3>2. asked' \subseteq asked \cup {half}
      BY <1>7 DEF ChildReads
    <3> QED
      BY <2>1, <2>2, <3>1, <3>2 DEF OnItsWay
  <2> QED
    BY <2>3, <2>4
<1>8. CASE ChildWrites
  <2>1. UNCHANGED <<box, frame, pipe>> /\ asked' \subseteq asked
    BY <1>8 DEF ChildWrites
  <2>2. PICK e \in FromChild \cup {Garbage} : out' = Append(out, e) /\ (e = <<"reply", i>> => i \in asked)
    BY <1>8, SentByChild
  <2>3. \A j \in DOMAIN out' : out'[j] = e \/ (j \in DOMAIN out /\ out'[j] = out[j])
    BY <2>2, AppendAt
  <2> QED
    BY <1>0, <2>1, <2>2, <2>3 DEF OnItsWay
<1>9. CASE ChildDies \/ CloseFlag \/ Close
  <2>1. /\ asked' \subseteq asked /\ pipe' \in {pipe, <<>>}
        /\ UNCHANGED <<box, frame, out>>
    BY <1>9 DEF ChildDies, CloseFlag, Close, CloseChannel, CloseWait, CloseDone, Child
  <2> QED
    BY <1>1, <2>1
<1>10. CASE Again
  BY <1>1, <1>10 DEF Again
<1> QED
  BY <1>2, <1>3, <1>4, <1>5, <1>6, <1>7, <1>8, <1>9, <1>10 DEF Next, Step, Read, Server

(* No reply comes for a call that has not been written.                    *)
LEMMA WrittenStep ==
  ASSUME TypeOK, Stages, Registered, Room, FramesIntact, Written, Next
  PROVE  Written'
<1> SUFFICES ASSUME NEW d \in Callers, id'[d] # 0, OnItsWay(id[d])'
             PROVE  pc'[d] \in {"wait", "finish", "fail"}
  BY DEF Written, Active
<1> USE DEF TypeOK, Goto, Return, caller, client, process, loop
<1>1. CASE id'[d] = id[d] /\ pc'[d] = pc[d]
  <2>1. PICK i \in Ids : i = id[d] /\ OnItsWay(i)'
    BY <1>1
  <2>2. CASE OnItsWay(i)
    BY <1>1, <2>1, <2>2 DEF Written, Active
  <2>3. CASE \E c \in Callers : Write(c) /\ pc[c] = "body" /\ id[c] = i /\ pc'[c] = "wait"
    BY <1>1, <2>1, <2>3 DEF Registered, Active
  <2> QED
    BY <2>1, <2>2, <2>3, WayStep
<1>2. ASSUME Step(d) PROVE pc'[d] \in {"wait", "finish", "fail"}
  <2>1. CASE Register(d)
    <3>1. NextId \in Unused
      BY <2>1, FreshId DEF Register
    <3>2. PICK i \in Unused : i = id'[d] /\ OnItsWay(i)'
      BY <2>1, <3>1 DEF Register
    <3>3. OnItsWay(i)
      BY <2>1, <3>2 DEF Register, OnItsWay
    <3>4. /\ i \notin pending \cup asked /\ frame # <<"reply", i>>
          /\ \A j \in DOMAIN pipe : pipe[j][2] # i
          /\ \A j \in DOMAIN out : out[j] # <<"reply", i>>
      BY FreshFacts
    <3>5. <<"reply", i>> \notin box
      BY <3>4 DEF Registered
    <3> QED
      BY <3>3, <3>4, <3>5 DEF OnItsWay
  <2>2. CASE ~ Register(d)
    <3>1. id'[d] = id[d]
      BY <1>2, <2>2 DEF Step, Call, Handshake, Request, Notify, Acquire, Lock, Write, Await, Finish,
                        FailHandshake, Timeout
    <3>2. PICK i \in Ids : i = id[d] /\ OnItsWay(i)'
      BY <3>1
    <3>3. pc[d] \in {"lock", "header", "body", "wait", "finish", "fail"}
      BY <3>1 DEF Stages
    <3>4. CASE OnItsWay(i)
      <4>1. pc[d] \in {"wait", "finish", "fail"}
        BY <3>1, <3>2, <3>4 DEF Written, Active
      <4> QED
        BY <1>2, <3>1, <4>1 DEF Step, Call, Handshake, Request, Notify, Acquire, Register, Lock, Write,
                        Await, Finish, FailHandshake, Timeout, Failure
    <3>5. CASE \E c \in Callers : Write(c) /\ pc[c] = "body" /\ id[c] = i /\ pc'[c] = "wait"
      BY <3>1, <3>2, <3>5 DEF Registered, Active
    <3> QED
      BY <3>2, <3>4, <3>5, WayStep
  <2> QED
    BY <2>1, <2>2
<1>3. ASSUME NEW c \in Callers, Step(c), d # c PROVE id'[d] = id[d] /\ pc'[d] = pc[d]
  BY <1>3, OneMoves
<1>4. CASE Read \/ Server \/ CloseFlag \/ Close \/ Again
  <2>1. UNCHANGED <<pc, id>>
    BY <1>4 DEF Read, ReadCheck, ReadFrame, ReadFails, ReadLookup, ReadDeliver, Server, ChildReads,
                ChildWrites, ChildDies, CloseFlag, Close, CloseChannel, CloseWait, CloseDone, Again
  <2> QED
    BY <1>1, <2>1
<1> QED
  BY <1>1, <1>2, <1>3, <1>4 DEF Next, Step

-----------------------------------------------------------------------------
LEMMA InvStep == IInv /\ [Next]_vars => IInv'
<1> SUFFICES ASSUME IInv, [Next]_vars PROVE IInv'
  OBVIOUS
<1>1. CASE Next
  <2>1. TypeOK'
    BY <1>1, TypeCaller, TypeOther DEF IInv, Next, Step
  <2>2. Stages' /\ Registered' /\ Tokens' /\ Room'
    BY <1>1, StagesStep, RegisteredStep, TokensStep, RoomStep DEF IInv
  <2>3. Written' /\ Locked' /\ Life'
    BY <1>1, WrittenStep, LockedStep, LifeStep DEF IInv
  <2>4. WellFormed(Stream') /\ Parity'
    BY <1>1, <2>1, <2>3, FramesStep DEF IInv
  <2>5. FramesIntact'
    BY <2>1, <2>4, FramesAreAfter DEF WellFormed
  <2> QED
    BY <2>1, <2>2, <2>3, <2>4, <2>5 DEF IInv
<1>2. CASE UNCHANGED vars
  BY <1>2 DEF vars, caller, client, process, loop, IInv, TypeOK, Stages, Busy, Registered, Active, Tokens,
       Holders, Room, Coming, Unused, Written, OnItsWay, Locked, FramesIntact, Parity, Stream,
       HalfWritten, Life
<1> QED
  BY <1>1, <1>2

(* The invariant holds in every state of the client.                       *)
THEOREM Inductive == Spec => []IInv
  BY InvInit, InvStep, PTL DEF Spec

(* Every variable keeps its type: NextId is an id nobody speaks of, the    *)
(* count of Client.sem stays between none and Options.Concurrency, and no  *)
(* pipe holds more than it can.                                            *)
THEOREM TypeCorrect == Spec => []TypeOK
<1>1. IInv => TypeOK
  BY DEF IInv
<1> QED
  BY Inductive, <1>1, PTL

(* Every way out of sendRequest, the reply, the deadline, the close and    *)
(* the failed write, gives back the entry of pending and the token it      *)
(* took, for any number of concurrent calls.                               *)
THEOREM GivesBack == Spec => []NothingLeaks
<1>1. IInv => NothingLeaks
  <2> SUFFICES ASSUME IInv PROVE NothingLeaks
    OBVIOUS
  <2>1. pending = {id[c] : c \in Active} /\ \A c, d \in Active : id[c] = id[d] => c = d
    BY DEF IInv, Registered
  <2>2. Active \in SUBSET Callers
    BY DEF Active
  <2> DEFINE f == [c \in Active |-> id[c]]
  <2>3. f \in Bijection(Active, pending)
    BY <2>1 DEF Bijection, Injection, IsInjective, Surjection
  <2>4. Cardinality(pending) = Cardinality(Active)
    BY <2>2, <2>3, FiniteCallers, FS_Bijection DEF ExistsBijection
  <2> QED
    BY <2>1, <2>4 DEF NothingLeaks, Active, IInv, Tokens, Holders
<1> QED
  BY Inductive, <1>1, PTL

(* A reply in a wait channel answers the call that waits on it, whatever   *)
(* requests the child makes under whatever ids: an id is not given to a    *)
(* second call while a late answer to the first one may still come.        *)
THEOREM RepliesAreAnswers == Spec => []RepliesAnswer
<1>1. IInv => RepliesAnswer
  <2> SUFFICES ASSUME IInv, NEW c \in Callers, <<"reply", id[c]>> \in box
               PROVE  pc[c] \in {"wait", "finish", "fail"}
    BY DEF RepliesAnswer
  <2>1. id[c] # 0
    BY IdAssumption DEF IInv, TypeOK, FromChild, Ids
  <2> QED
    BY <2>1 DEF IInv, Written, OnItsWay, Active
<1> QED
  BY Inductive, <1>1, PTL

(* writeMu keeps the two writes of a frame together: the child reads a     *)
(* header and then the body of the same request, whatever it has read of   *)
(* the stream so far and whoever else is writing.                          *)
THEOREM WholeFrames == Spec => []FramesIntact
<1>1. IInv => FramesIntact
  BY DEF IInv
<1> QED
  BY Inductive, <1>1, PTL

(* Close does not return, and a failed New neither, before the child is    *)
(* dead.                                                                   *)
THEOREM ChildIsGone == Spec => []NoChildLeft
<1>1. IInv => NoChildLeft
  BY DEF IInv, Life, NoChildLeft
<1> QED
  BY Inductive, <1>1, PTL
=============================================================================
