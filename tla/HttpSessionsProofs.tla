-------------------------- MODULE HttpSessionsProofs --------------------------
(***************************************************************************)
(* Proofs about HttpSessions, for any number of session ids and handlers,  *)
(* any cap and idle timeout, and whenever the signal may come.             *)
(***************************************************************************)
EXTENDS HttpSessions, FiniteSetTheorems, TLAPS

(***************************************************************************)
(* The inductive invariant.                                                *)
(***************************************************************************)

(* A handler past its arrival has a session unless it is initialize.       *)
HandsFull ==
  \A h \in Handlers :
    pc[h] \in {"post", "get", "delete", "touchpost", "touchget", "remove", "cancel", "stream"} =>
      sid[h] \in Ids

(* The context of a session is done, or the goroutine that took it out of  *)
(* the map has it in hand and has yet to cancel it.                        *)
Told(id) ==
  \/ Done(id) \/ dying = id
  \/ \E g \in Handlers : pc[g] = "cancel" /\ sid[g] = id

(* A request that has found its session in the map either still finds it   *)
(* there or works on one that is told: RemovedAreCancelled for every       *)
(* handler that can still open a stream.                                   *)
LookedUp == {"touchpost", "touchget", "remove", "stream"}
InHand == \A h \in Handlers : pc[h] \in LookedUp /\ sid[h] \notin sessions => Told(sid[h])

(* Before the port is open there is no request and no session.             *)
Quiet == sessions = {} /\ \A h \in Handlers : pc[h] = "idle"
NotYetOpen == listener \in {"none", "made"} => Quiet

(* ListenAndServe has returned because the port was not bound or because   *)
(* Shutdown has closed it, which main has then begun.                      *)
ServedWhy ==
  /\ served => listener \in {"made", "shut"}
  /\ main = "serving" => listener # "shut"

(* Past StopParent every context is done; a process that ends without Stop *)
(* never had a session.                                                    *)
StoppedWhy ==
  /\ main \in {"swap", "index", "wait"} => parentDone
  /\ main = "exited" => parentDone \/ Quiet

IInv == TypeOK /\ IsFiniteSet(sessions) /\ CapRespected /\ HandsFull /\ InHand
        /\ NotYetOpen /\ ServedWhy /\ StoppedWhy

-----------------------------------------------------------------------------
(* The initial state satisfies the invariant.                              *)
LEMMA InvInit == Init => IInv
<1> SUFFICES ASSUME Init PROVE IInv
  OBVIOUS
<1>1. TypeOK
  <2>1. 0 \in 0 .. Idle + 1
    BY IdleAssumption
  <2> QED
    BY <2>1, Zenon DEF Init, TypeOK, Labels, Kinds
<1>2. IsFiniteSet(sessions) /\ CapRespected
  BY FS_EmptySet, CapAssumption DEF Init, CapRespected
<1> QED
  BY <1>1, <1>2 DEF Init, IInv, HandsFull, InHand, LookedUp, NotYetOpen, Quiet, ServedWhy, StoppedWhy

(* A handler that returns, or moves on without its session.                *)
LEMMA LeaveType ==
  ASSUME TypeOK, NEW h \in Handlers, NEW l \in Labels, Leave(h, l)
  PROVE  pc' \in [Handlers -> Labels] /\ sid' \in [Handlers -> Ids \cup {NoId}]
  BY DEF Leave, Goto, TypeOK

(* Sessions that leave the map leave well-typed ages.                      *)
LEMMA DropType ==
  ASSUME TypeOK, NEW ids, Drop(ids)
  PROVE  sessions' \subseteq Ids /\ age' \in [Ids -> 0 .. Idle + 1]
  BY IdleAssumption DEF Drop, TypeOK

(* No step of a request leaves the types.                                  *)
LEMMA TypeHandler ==
  ASSUME TypeOK, HandsFull, NEW h \in Handlers,
         \/ Handle(h) \/ Dispatch(h) \/ Disconnect(h)
         \/ \E k \in Kinds, id \in Ids \cup {NoId} : Arrive(h, k, id)
  PROVE  TypeOK'
<1> USE DEF server, manager, reaper
<1>1. CASE \E k \in Kinds, id \in Ids \cup {NoId} : Arrive(h, k, id)
  BY <1>1 DEF Arrive, Goto, TypeOK, Labels
<1>2. CASE CheckStopped(h)
  <2>1. CASE Return(h)
    BY <1>2, <2>1, LeaveType DEF CheckStopped, Return, TypeOK, Labels
  <2>2. CASE Goto(h, "alloc") /\ UNCHANGED sid
    BY <1>2, <2>2 DEF CheckStopped, Goto, TypeOK, Labels
  <2> QED
    BY <1>2, <2>1, <2>2 DEF CheckStopped
<1>3. CASE Allocate(h)
  <2>1. CASE Return(h) /\ UNCHANGED manager
    BY <1>3, <2>1, LeaveType DEF Allocate, Return, TypeOK, Labels
  <2>2. ASSUME NEW id \in Unused, sessions' = sessions \cup {id}, age' = [age EXCEPT ![id] = 0],
               cancelled' = cancelled \ {id}, Leave(h, "dispatch"), UNCHANGED <<stopped, parentDone>>
        PROVE  TypeOK'
    BY <1>3, <2>2, LeaveType, IdleAssumption DEF Allocate, Unused, TypeOK, Labels
  <2> QED
    BY <1>3, <2>1, <2>2 DEF Allocate
<1>4. CASE Lookup(h)
  <2>1. CASE Return(h)
    BY <1>4, <2>1, LeaveType DEF Lookup, Return, TypeOK, Labels
  <2>2. CASE UNCHANGED sid /\ \E l \in {"touchpost", "touchget", "remove"} : Goto(h, l)
    BY <1>4, <2>2 DEF Lookup, Goto, TypeOK, Labels
  <2> QED
    BY <1>4, <2>1, <2>2 DEF Lookup
<1>5. CASE Touch(h)
  <2>1. sessions' \subseteq Ids /\ age' \in [Ids -> 0 .. Idle + 1]
    BY <1>5, IdleAssumption DEF Touch, Touched, TypeOK
  <2>2. pc' \in [Handlers -> Labels] /\ sid' \in [Handlers -> Ids \cup {NoId}]
    <3>1. CASE Leave(h, "dispatch")
      BY <3>1, LeaveType DEF Labels
    <3>2. CASE Goto(h, "stream") /\ UNCHANGED sid
      BY <3>2 DEF Goto, TypeOK, Labels
    <3> QED
      BY <1>5, <3>1, <3>2 DEF Touch
  <2> QED
    BY <1>5, <2>1, <2>2 DEF Touch, TypeOK
<1>6. CASE Dispatch(h) \/ EndStream(h) \/ Disconnect(h)
  BY <1>6, LeaveType DEF Dispatch, EndStream, Disconnect, Return, TypeOK, Labels
<1>7. CASE Remove(h)
  <2>1. CASE Return(h) /\ UNCHANGED <<sessions, age>>
    BY <1>7, <2>1, LeaveType DEF Remove, Return, TypeOK, Labels
  <2>2. CASE Drop({sid[h]}) /\ Goto(h, "cancel") /\ UNCHANGED sid
    BY <1>7, <2>2, DropType DEF Remove, Goto, TypeOK, Labels
  <2> QED
    BY <1>7, <2>1, <2>2 DEF Remove
<1>8. CASE CancelRemoved(h)
  BY <1>8, LeaveType DEF CancelRemoved, Cancel, Return, HandsFull, TypeOK, Labels
<1> QED
  BY <1>1, <1>2, <1>3, <1>4, <1>5, <1>6, <1>7, <1>8 DEF Handle

(* Nor does any other step.                                                *)
LEMMA TypeStep == TypeOK /\ HandsFull /\ [Next]_vars => TypeOK'
<1> SUFFICES ASSUME TypeOK, HandsFull, [Next]_vars PROVE TypeOK'
  OBVIOUS
<1> USE DEF server, manager, reaper, requests
<1>1. ASSUME NEW h \in Handlers,
             \/ Handle(h) \/ Dispatch(h) \/ Disconnect(h)
             \/ \E k \in Kinds, id \in Ids \cup {NoId} : Arrive(h, k, id)
      PROVE  TypeOK'
  BY <1>1, TypeHandler
<1>2. CASE Tick
  BY <1>2, IdleAssumption DEF Tick, Older, TypeOK
<1>3. CASE Reap
  <2>1. CASE ReapCollect
    BY <2>1 DEF ReapCollect, Expired, TypeOK
  <2>2. CASE ReapRemove
    <3>1. PICK id \in doomed : doomed' = doomed \ {id} /\ Drop({id})
                               /\ dying' = IF id \in sessions THEN id ELSE NoId
      BY <2>2 DEF ReapRemove
    <3> QED
      BY <2>2, <3>1, DropType DEF ReapRemove, TypeOK
  <2>3. CASE ReapCancel
    BY <2>3 DEF ReapCancel, Cancel, TypeOK
  <2> QED
    BY <1>3, <2>1, <2>2, <2>3 DEF Reap
<1>4. CASE Serve \/ Signal
  BY <1>4 DEF Serve, MakeServer, Listen, ServeReturns, Signal, TypeOK
<1>5. CASE Shutdown
  <2>1. CASE StopSwap
    BY <2>1, DropType DEF StopSwap, TypeOK
  <2> QED
    BY <1>5, <2>1 DEF Shutdown, CloseListener, GraceExpires, Drain, StopFlag, StopParent,
                      ParentAfterStop, CloseIndex, Exit, TypeOK
<1>6. CASE Boot
  <2>1. 0 \in 0 .. Idle + 1
    BY IdleAssumption
  <2> QED
    BY <1>6, <2>1, Zenon DEF Boot, TypeOK, Labels, Kinds
<1>7. CASE UNCHANGED vars
  BY <1>7 DEF vars, TypeOK
<1> QED
  BY <1>1, <1>2, <1>3, <1>4, <1>5, <1>6, <1>7 DEF Next

-----------------------------------------------------------------------------
(* What a step does to the map: it takes sessions out, or it is an Allocate *)
(* below the cap with an id that nobody has.                               *)
LEMMA MapStep ==
  ASSUME [Next]_vars
  PROVE  \/ sessions' \subseteq sessions
         \/ ~AtCap /\ \E id \in Unused : sessions' = sessions \cup {id}
<1> USE DEF server, manager, reaper, requests
<1>1. ASSUME NEW h \in Handlers, Allocate(h)
      PROVE  \/ sessions' \subseteq sessions
             \/ ~AtCap /\ \E id \in Unused : sessions' = sessions \cup {id}
  BY <1>1 DEF Allocate
<1>2. ASSUME NEW h \in Handlers,
             \/ CheckStopped(h) \/ Lookup(h) \/ Touch(h) \/ EndStream(h) \/ Remove(h)
             \/ CancelRemoved(h) \/ Dispatch(h) \/ Disconnect(h)
             \/ \E k \in Kinds, id \in Ids \cup {NoId} : Arrive(h, k, id)
      PROVE  sessions' \subseteq sessions
  BY <1>2 DEF CheckStopped, Lookup, Touch, Touched, EndStream, Remove, Drop, CancelRemoved,
              Dispatch, Disconnect, Arrive
<1>3. ASSUME Tick \/ Reap \/ Serve \/ Signal \/ Shutdown \/ Boot \/ UNCHANGED vars
      PROVE  sessions' \subseteq sessions
  BY <1>3 DEF Tick, Reap, ReapCollect, ReapRemove, ReapCancel, Drop, Serve, MakeServer, Listen,
              ServeReturns, Signal, Shutdown, CloseListener, GraceExpires, Drain, StopFlag,
              StopParent, StopSwap, CloseIndex, Exit, Boot, vars
<1> QED
  BY <1>1, <1>2, <1>3 DEF Next, Handle

LEMMA CapStep ==
  ASSUME IsFiniteSet(sessions), CapRespected, [Next]_vars
  PROVE  IsFiniteSet(sessions') /\ CapRespected'
<1>1. CASE sessions' \subseteq sessions
  BY <1>1, CapAssumption, FS_Subset, FS_CardinalityType DEF CapRespected
<1>2. CASE ~AtCap /\ \E id \in Unused : sessions' = sessions \cup {id}
  <2>1. PICK id \in Unused : sessions' = sessions \cup {id}
    BY <1>2
  <2>2. Cardinality(sessions) \in Nat /\ Cardinality(sessions) < MaxSessions
    BY <1>2, CapAssumption, FS_CardinalityType DEF AtCap
  <2>3. id \notin sessions
    BY <2>1 DEF Unused
  <2>4. IsFiniteSet(sessions') /\ Cardinality(sessions') = Cardinality(sessions) + 1
    BY <2>1, <2>3, FS_AddElement
  <2> QED
    BY <2>2, <2>4, CapAssumption DEF CapRespected
<1> QED
  BY <1>1, <1>2, MapStep

-----------------------------------------------------------------------------
(* The steps of a process, all but Boot.                                   *)
Alone(h) ==
  \/ Handle(h) \/ Dispatch(h) \/ Disconnect(h)
  \/ \E k \in Kinds, id \in Ids \cup {NoId} : Arrive(h, k, id)
Others == Tick \/ Reap \/ Serve \/ Signal \/ Shutdown \/ UNCHANGED vars

(* Who has a session in hand that he found in the map has had it, or finds *)
(* it there now.                                                           *)
LEMMA FoundBefore ==
  ASSUME TypeOK, [Next]_vars, ~Boot, NEW g \in Handlers, pc'[g] \in LookedUp
  PROVE  sid'[g] = sid[g] /\ (pc[g] \in LookedUp \/ sid[g] \in sessions)
<1> USE DEF server, manager, reaper, requests, Goto, Leave, Return, LookedUp
<1>1. ASSUME NEW h \in Handlers, Alone(h)
      PROVE  sid'[g] = sid[g] /\ (pc[g] \in LookedUp \/ sid[g] \in sessions)
  <2>1. CASE \/ Dispatch(h) \/ Disconnect(h) \/ CheckStopped(h) \/ EndStream(h) \/ CancelRemoved(h)
             \/ \E k \in Kinds, id \in Ids \cup {NoId} : Arrive(h, k, id)
    BY <2>1 DEF Dispatch, Disconnect, CheckStopped, EndStream, CancelRemoved, Arrive, TypeOK, Kinds
  <2>2. CASE Allocate(h)
    BY <2>2 DEF Allocate, TypeOK
  <2>3. CASE Lookup(h)
    BY <2>3 DEF Lookup, TypeOK
  <2>4. CASE Touch(h) \/ Remove(h)
    BY <2>4 DEF Touch, Remove, TypeOK
  <2> QED
    BY <1>1, <2>1, <2>2, <2>3, <2>4 DEF Alone, Handle
<1>2. ASSUME Others
      PROVE  pc' = pc /\ sid' = sid
  BY <1>2 DEF Others, Tick, Reap, ReapCollect, ReapRemove, ReapCancel, Serve, MakeServer, Listen,
              ServeReturns, Signal, Shutdown, CloseListener, GraceExpires, Drain, StopFlag,
              StopParent, StopSwap, CloseIndex, Exit, vars
<1> QED
  BY <1>1, <1>2 DEF Next, Alone, Others

(* A session that somebody has leaves the map only into the hands of the   *)
(* one goroutine that will cancel it, or of Stop, and once told it stays   *)
(* told: its id is not given out again while it is in a hand.              *)
LEMMA ToldKept ==
  ASSUME TypeOK, [Next]_vars, ~Boot,
         NEW id \in Ids, id \notin Unused, Told(id) \/ id \in sessions
  PROVE  Told(id)' \/ id \in sessions'
<1> USE NoIdAssumption DEF server, manager, reaper, requests, Goto, Leave, Return, Told, Done
<1>1. ASSUME NEW h \in Handlers, Alone(h)
      PROVE  Told(id)' \/ id \in sessions'
  <2>1. CASE \/ Dispatch(h) \/ Disconnect(h) \/ CheckStopped(h) \/ EndStream(h) \/ Lookup(h)
             \/ \E k \in Kinds, i \in Ids \cup {NoId} : Arrive(h, k, i)
    BY <2>1 DEF Dispatch, Disconnect, CheckStopped, EndStream, Lookup, Arrive, TypeOK
  <2>2. CASE Allocate(h)
    BY <2>2 DEF Allocate, TypeOK
  <2>3. CASE Touch(h)
    BY <2>3 DEF Touch, Touched, TypeOK
  <2>4. CASE Remove(h)
    BY <2>4 DEF Remove, Drop, TypeOK
  <2>5. CASE CancelRemoved(h)
    BY <2>5 DEF CancelRemoved, Cancel, TypeOK
  <2> QED
    BY <1>1, <2>1, <2>2, <2>3, <2>4, <2>5 DEF Alone, Handle
<1>2. CASE Reap
  BY <1>2 DEF Reap, ReapCollect, ReapRemove, ReapCancel, Drop, Cancel, TypeOK
<1>3. CASE StopSwap
  BY <1>3 DEF StopSwap, Drop
<1>4. CASE Tick \/ Serve \/ Signal \/ (Shutdown /\ ~StopSwap) \/ UNCHANGED vars
  BY <1>4 DEF Tick, Serve, MakeServer, Listen, ServeReturns, Signal, Shutdown, CloseListener,
              GraceExpires, Drain, StopFlag, StopParent, ParentAfterStop, CloseIndex, Exit, vars
<1> QED
  BY <1>1, <1>2, <1>3, <1>4 DEF Next, Alone

(* Hence the race of DELETE, Reap and Stop leaves no stream untold.        *)
LEMMA InHandStep ==
  ASSUME TypeOK, HandsFull, InHand, [Next]_vars
  PROVE  InHand'
<1>1. CASE Boot
  BY <1>1 DEF Boot, InHand, LookedUp
<1>2. CASE ~Boot
  <2> SUFFICES ASSUME NEW g \in Handlers, pc'[g] \in LookedUp
               PROVE  (sid[g] \in sessions \/ Told(sid[g]))'
    BY DEF InHand
  <2>1. sid'[g] = sid[g] /\ (pc[g] \in LookedUp \/ sid[g] \in sessions)
    BY <1>2, FoundBefore
  <2>2. sid[g] \in Ids /\ sid[g] \notin Unused
    BY <2>1 DEF HandsFull, LookedUp, Unused, TypeOK
  <2>3. Told(sid[g]) \/ sid[g] \in sessions
    BY <2>1 DEF InHand
  <2>4. PICK id \in Ids : id = sid[g]
    BY <2>2
  <2>5. Told(id)' \/ id \in sessions'
    BY <1>2, <2>2, <2>3, <2>4, ToldKept
  <2> QED
    BY <2>1, <2>4, <2>5 DEF Told, Done
<1> QED
  BY <1>1, <1>2

(* A handler gets a session as it arrives and drops it as it moves on      *)
(* without.                                                                *)
LEMMA HandsFullStep ==
  ASSUME TypeOK, HandsFull, [Next]_vars
  PROVE  HandsFull'
<1> USE DEF server, manager, reaper, requests, Goto, Leave, Return
<1>1. ASSUME NEW h \in Handlers, Alone(h) PROVE HandsFull'
  <2>1. CASE \E k \in Kinds, id \in Ids \cup {NoId} : Arrive(h, k, id)
    BY <2>1 DEF Arrive, HandsFull, TypeOK, Kinds
  <2>2. CASE Dispatch(h) \/ Disconnect(h) \/ CheckStopped(h) \/ EndStream(h) \/ CancelRemoved(h)
    BY <2>2 DEF Dispatch, Disconnect, CheckStopped, EndStream, CancelRemoved, HandsFull, TypeOK
  <2>3. CASE Allocate(h)
    BY <2>3 DEF Allocate, HandsFull, TypeOK
  <2>4. CASE Lookup(h)
    BY <2>4 DEF Lookup, HandsFull, TypeOK
  <2>5. CASE Touch(h) \/ Remove(h)
    BY <2>5 DEF Touch, Remove, HandsFull, TypeOK
  <2> QED
    BY <1>1, <2>1, <2>2, <2>3, <2>4, <2>5 DEF Alone, Handle
<1>2. CASE Others
  BY <1>2 DEF Others, Tick, Reap, ReapCollect, ReapRemove, ReapCancel, Serve, MakeServer, Listen,
              ServeReturns, Signal, Shutdown, CloseListener, GraceExpires, Drain, StopFlag,
              StopParent, StopSwap, CloseIndex, Exit, vars, HandsFull
<1>3. CASE Boot
  BY <1>3 DEF Boot, HandsFull
<1> QED
  BY <1>1, <1>2, <1>3 DEF Next, Alone, Others

-----------------------------------------------------------------------------
(* The life of the process: what main, the listener and the flags of Stop  *)
(* say of each other, and of the requests there can be.                    *)
LEMMA LifeStep ==
  ASSUME TypeOK, NotYetOpen, ServedWhy, StoppedWhy, [Next]_vars
  PROVE  NotYetOpen' /\ ServedWhy' /\ StoppedWhy'
<1> USE DEF server, manager, reaper, requests, NotYetOpen, ServedWhy, StoppedWhy
<1>1. ASSUME NEW h \in Handlers, Alone(h)
      PROVE  NotYetOpen' /\ ServedWhy' /\ StoppedWhy'
  <2>1. UNCHANGED <<server, parentDone>> /\ main # "exited"
    BY <1>1 DEF Alone, Handle, CheckStopped, Allocate, Lookup, Touch, EndStream, Remove,
                CancelRemoved, Dispatch, Disconnect, Arrive, Alive
  <2>2. pc[h] = "idle" => listener = "open"
    BY <1>1 DEF Alone, Handle, CheckStopped, Allocate, Lookup, Touch, EndStream, Remove,
                CancelRemoved, Dispatch, Disconnect, Arrive
  <2>3. listener \notin {"none", "made"}
    BY <2>2 DEF Quiet
  <2> QED
    BY <2>1, <2>3
<1>2. CASE Tick \/ Reap
  <2>1. UNCHANGED <<server, parentDone, pc>> /\ sessions' \subseteq sessions /\ main # "exited"
    BY <1>2 DEF Tick, Reap, ReapCollect, ReapRemove, ReapCancel, Drop, Alive
  <2> QED
    BY <2>1 DEF Quiet
<1>3. CASE Serve \/ Signal
  BY <1>3 DEF Serve, MakeServer, Listen, ServeReturns, Signal, Alive, Quiet
<1>4. CASE Shutdown
  <2>1. CASE StopSwap
    BY <2>1 DEF StopSwap, Drop, Quiet
  <2>2. CASE Exit
    BY <2>2 DEF Exit, Quiet
  <2>3. CASE CloseListener \/ GraceExpires \/ Drain \/ StopFlag \/ StopParent \/ CloseIndex
    BY <2>3 DEF CloseListener, GraceExpires, Drain, StopFlag, StopParent, ParentAfterStop,
                CloseIndex, Quiet
  <2> QED
    BY <1>4, <2>1, <2>2, <2>3 DEF Shutdown
<1>5. CASE Boot
  BY <1>5 DEF Boot, Quiet
<1>6. CASE UNCHANGED vars
  BY <1>6 DEF vars, Quiet
<1> QED
  BY <1>1, <1>2, <1>3, <1>4, <1>5, <1>6 DEF Next, Alone

(* Each step keeps the invariant.                                          *)
LEMMA InvStep == IInv /\ [Next]_vars => IInv'
  BY TypeStep, CapStep, HandsFullStep, InHandStep, LifeStep DEF IInv

(***************************************************************************)
(* Theorems.                                                               *)
(***************************************************************************)

(* The invariant holds in every state.                                     *)
THEOREM Inductive == Spec => []IInv
  BY InvInit, InvStep, PTL DEF Spec

(* Types.                                                                  *)
THEOREM TypeCorrect == Spec => []TypeOK
<1>1. IInv => TypeOK
  BY DEF IInv
<1> QED
  BY Inductive, <1>1, PTL

(* SessionManager never holds more sessions than its cap, however          *)
(* initialize, DELETE, the reaper and Stop interleave.                     *)
THEOREM NeverAboveCap == Spec => []CapRespected
<1>1. IInv => CapRespected
  BY DEF IInv
<1> QED
  BY Inductive, <1>1, PTL

(* A stream whose session has left the map is woken, or will be by the one *)
(* goroutine that took the session out (handleGet's select on Session.ctx). *)
THEOREM StreamsAreTold == Spec => []RemovedAreCancelled
<1>1. IInv => RemovedAreCancelled
  BY DEF IInv, InHand, LookedUp, Told, RemovedAreCancelled
<1> QED
  BY Inductive, <1>1, PTL

(* After Stop no session and no stream has a live context, whatever an     *)
(* Allocate that has passed its check of stopped adds.                     *)
THEOREM StopIsFinal == Spec => []StopReachesAll
<1>1. IInv => StopReachesAll
  BY DEF IInv, StoppedWhy, Quiet, StopReachesAll, Done
<1> QED
  BY Inductive, <1>1, PTL

(* No session comes back: the ids that enter the map are in nobody's hand. *)
THEOREM NoneComesBack == Spec => NoResurrection
<1>1. [Next]_vars => [\A id \in sessions' \ sessions : id \in Unused]_vars
  BY MapStep
<1> QED
  BY <1>1, PTL DEF Spec, NoResurrection

=============================================================================
