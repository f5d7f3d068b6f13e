---------------------------- MODULE HttpSessions ----------------------------
(***************************************************************************)
(* The HTTP daemon: SessionManager, the handlers of /mcp that use it, the  *)
(* idle reaper, and the life of the process from ListenAndServe to the end *)
(* of Shutdown.                                                            *)
(*                                                                         *)
(* A request is served by a goroutine of its own, whose program counter    *)
(* moves from one critical section of SessionManager.mu to the next.  A    *)
(* session is its id; its LastSeen is an age that saturates just past the  *)
(* idle timeout, and its context is done when it was cancelled or its      *)
(* parent was.                                                             *)
(***************************************************************************)
EXTENDS Integers, FiniteSets

CONSTANTS
  Ids,          \* session ids; reused once nothing refers to them
  NoId,         \* no session
  Handlers,     \* goroutines serving a request
  MaxSessions,  \* the cap on concurrent sessions
  Idle,         \* the idle timeout, in ticks
  EarlySignal   \* TRUE: SIGTERM may come before the http.Server exists

ASSUME NoIdAssumption == NoId \notin Ids
ASSUME CapAssumption == MaxSessions \in Nat \ {0}
ASSUME IdleAssumption == Idle \in Nat \ {0}
ASSUME SignalAssumption == EarlySignal \in BOOLEAN

VARIABLES
  listener,    \* "none", "made" (s.httpServer is set), "open" or "shut"
  served,      \* ListenAndServe has returned
  main,        \* where runMCPServeHTTP is
  sessions,    \* the ids in SessionManager.sessions
  age,         \* ticks since LastSeen, saturating
  cancelled,   \* ids whose own context was cancelled
  stopped,     \* SessionManager.stopped
  parentDone,  \* parentCtx is cancelled
  doomed,      \* what is left of Reap's toDelete
  dying,       \* the session Reap has removed and not yet cancelled
  pc,          \* where a handler is
  sid          \* the session it has in hand

server == <<listener, served, main>>
manager == <<sessions, age, cancelled, stopped, parentDone>>
reaper == <<doomed, dying>>
requests == <<pc, sid>>
vars == <<server, manager, reaper, requests>>

Kinds == {"initialize", "post", "get", "delete"}
Labels == Kinds \cup {"idle", "alloc", "touchpost", "touchget", "remove", "cancel",
                     "dispatch", "stream"}

TypeOK ==
  /\ listener \in {"none", "made", "open", "shut"}
  /\ main \in {"serving", "signalled", "drain", "stop", "parent", "swap", "index",
               "wait", "exited"}
  /\ {served, stopped, parentDone} \subseteq BOOLEAN
  /\ sessions \subseteq Ids
  /\ age \in [Ids -> 0 .. Idle + 1]
  /\ cancelled \subseteq Ids
  /\ doomed \subseteq Ids
  /\ dying \in Ids \cup {NoId}
  /\ pc \in [Handlers -> Labels]
  /\ sid \in [Handlers -> Ids \cup {NoId}]

Init ==
  /\ listener = "none"
  /\ served = FALSE
  /\ main = "serving"
  /\ sessions = {}
  /\ age = [id \in Ids |-> 0]
  /\ cancelled = {}
  /\ stopped = FALSE
  /\ parentDone = FALSE
  /\ doomed = {}
  /\ dying = NoId
  /\ pc = [h \in Handlers |-> "idle"]
  /\ sid = [h \in Handlers |-> NoId]

-----------------------------------------------------------------------------
(* Faulty variants of helpers below, one per mutation check: an age that     *)
(* never saturates; a cap one too high; a Touch that puts the session back;  *)
(* a Delete that forgets its context; a Stop that cancels only the sessions  *)
(* it finds; a stream that waits for its client only; a Shutdown without a   *)
(* deadline; a reaper that compares the wrong way at the limit.              *)
OlderUnbounded(id) == age[id] + 1
CapExceeded == Cardinality(sessions) > MaxSessions
TouchRevives(id) == sessions \cup {id}
CancelForgotten(id) == cancelled
ParentKept == parentDone
NeverWoken(h) == FALSE
NoDeadline == FALSE
NeverExpired == {id \in sessions : age[id] > Idle + 1}

-----------------------------------------------------------------------------
(* Helpers *)

Alive == main # "exited"

Goto(h, label) == pc' = [pc EXCEPT ![h] = label]

(* It moves on without the session. *)
Leave(h, label) ==
  /\ Goto(h, label)
  /\ sid' = [sid EXCEPT ![h] = NoId]

(* The handler returns. *)
Return(h) == Leave(h, "idle")

(* Ids that no goroutine has: newSessionID never gives out one that is used. *)
Unused == {id \in Ids : /\ id \notin sessions \cup doomed \cup {dying}
                        /\ \A h \in Handlers : sid[h] # id}

AtCap == Cardinality(sessions) >= MaxSessions

(* Sessions leave the map; their LastSeen is never read again. *)
Drop(ids) ==
  /\ sessions' = sessions \ ids
  /\ age' = [id \in Ids |-> IF id \in ids THEN 0 ELSE age[id]]

(* Session.ctx is done. *)
Done(id) == parentDone \/ id \in cancelled

(* Session.cancel(). *)
Cancel(id) == cancelled \cup {id}

(* The map after Touch. *)
Touched(id) == sessions

(* parentCtx after Stop. *)
ParentAfterStop == TRUE

(* The select of handleGet sees the end of the session. *)
Woken(h) == Done(sid[h])

(* The context that Shutdown gets ends with --shutdown-grace. *)
Deadline == TRUE

(* The sessions Reap selects. *)
Expired == {id \in sessions : age[id] > Idle}

Older(id) == IF age[id] > Idle THEN age[id] ELSE age[id] + 1

-----------------------------------------------------------------------------
(* Requests.  Those refused before they reach the session manager (method,   *)
(* authorization, body, protocol version) change nothing and are left out.   *)

(* A request comes in, for the kind its label names.  initialize names no    *)
(* session; the others name one, known or not.                               *)
Arrive(h, k, id) ==
  /\ Alive
  /\ listener = "open"
  /\ pc[h] = "idle"
  /\ (k = "initialize") = (id = NoId)
  /\ Goto(h, k)
  /\ sid' = [sid EXCEPT ![h] = id]
  /\ UNCHANGED <<server, manager, reaper>>

(* Allocate reads stopped before it takes the lock. *)
CheckStopped(h) ==
  /\ Alive
  /\ pc[h] = "initialize"
  /\ \/ stopped /\ Return(h)
     \/ ~stopped /\ Goto(h, "alloc") /\ UNCHANGED sid
  /\ UNCHANGED <<server, manager, reaper>>

(* Under the lock: ErrSessionCap, or a new session, whose id goes to the     *)
(* client and to the audit log only.                                         *)
Allocate(h) ==
  /\ Alive
  /\ pc[h] = "alloc"
  /\ \/ AtCap /\ Return(h) /\ UNCHANGED manager
     \/ /\ ~AtCap
        /\ \E id \in Unused :
             /\ sessions' = sessions \cup {id}
             /\ age' = [age EXCEPT ![id] = 0]
             /\ cancelled' = cancelled \ {id}
        /\ Leave(h, "dispatch")
        /\ UNCHANGED <<stopped, parentDone>>
  /\ UNCHANGED <<server, reaper>>

(* "unknown session", or on with the request.  A GET of another protocol     *)
(* version is refused after the lookup.                                      *)
Lookup(h) ==
  /\ Alive
  /\ pc[h] \in {"post", "get", "delete"}
  /\ \/ (sid[h] \notin sessions \/ pc[h] = "get") /\ Return(h)
     \/ /\ sid[h] \in sessions
        /\ Goto(h, CASE pc[h] = "post" -> "touchpost"
                     [] pc[h] = "get" -> "touchget"
                     [] pc[h] = "delete" -> "remove")
        /\ UNCHANGED sid
  /\ UNCHANGED <<server, manager, reaper>>

(* Touch; then a POST is dispatched and a GET opens its stream. *)
Touch(h) ==
  /\ Alive
  /\ sessions' = Touched(sid[h])
  /\ age' = IF sid[h] \in sessions THEN [age EXCEPT ![sid[h]] = 0] ELSE age
  /\ \/ pc[h] = "touchpost" /\ Leave(h, "dispatch")
     \/ pc[h] = "touchget" /\ Goto(h, "stream") /\ UNCHANGED sid
  /\ UNCHANGED <<server, cancelled, stopped, parentDone, reaper>>

(* Dispatch returns and the response is written. *)
Dispatch(h) ==
  /\ Alive
  /\ pc[h] = "dispatch"
  /\ Return(h)
  /\ UNCHANGED <<server, manager, reaper>>

(* The stream sees its session end, writes server_shutdown and closes. *)
EndStream(h) ==
  /\ Alive
  /\ pc[h] = "stream"
  /\ Woken(h)
  /\ Return(h)
  /\ UNCHANGED <<server, manager, reaper>>

(* The client of a stream goes away. *)
Disconnect(h) ==
  /\ Alive
  /\ pc[h] = "stream"
  /\ Return(h)
  /\ UNCHANGED <<server, manager, reaper>>

(* Delete takes the session out of the map, if it is still there, ... *)
Remove(h) ==
  /\ Alive
  /\ pc[h] = "remove"
  /\ \/ sid[h] \notin sessions /\ Return(h) /\ UNCHANGED <<sessions, age>>
     \/ /\ sid[h] \in sessions
        /\ Drop({sid[h]})
        /\ Goto(h, "cancel")
        /\ UNCHANGED sid
  /\ UNCHANGED <<server, cancelled, stopped, parentDone, reaper>>

(* ... and cancels it after the unlock. *)
CancelRemoved(h) ==
  /\ Alive
  /\ pc[h] = "cancel"
  /\ cancelled' = Cancel(sid[h])
  /\ Return(h)
  /\ UNCHANGED <<server, sessions, age, stopped, parentDone, reaper>>

-----------------------------------------------------------------------------
(* Time and the reaper *)

Tick ==
  /\ Alive
  /\ age' = [id \in Ids |-> IF id \in sessions THEN Older(id) ELSE age[id]]
  /\ UNCHANGED <<server, sessions, cancelled, stopped, parentDone, reaper, requests>>

(* Reap lists what is idle under the lock, which it then gives up ... *)
ReapCollect ==
  /\ Alive
  /\ doomed = {} /\ dying = NoId
  /\ doomed' = Expired
  /\ UNCHANGED <<server, manager, dying, requests>>

(* ... and calls Delete on each. *)
ReapRemove ==
  /\ Alive
  /\ dying = NoId
  /\ \E id \in doomed :
       /\ doomed' = doomed \ {id}
       /\ Drop({id})
       /\ dying' = IF id \in sessions THEN id ELSE NoId
  /\ UNCHANGED <<server, cancelled, stopped, parentDone, requests>>

ReapCancel ==
  /\ Alive
  /\ dying # NoId
  /\ cancelled' = Cancel(dying)
  /\ dying' = NoId
  /\ UNCHANGED <<server, sessions, age, stopped, parentDone, doomed, requests>>

-----------------------------------------------------------------------------
(* The process: the goroutine of ListenAndServe, and main *)

MakeServer ==
  /\ Alive
  /\ listener = "none"
  /\ listener' = "made"
  /\ UNCHANGED <<served, main, manager, reaper, requests>>

(* The port is bound, or it cannot be and ListenAndServe returns. *)
Listen ==
  /\ Alive
  /\ listener = "made" /\ ~served
  /\ \/ listener' = "open" /\ UNCHANGED served
     \/ served' = TRUE /\ UNCHANGED listener
  /\ UNCHANGED <<main, manager, reaper, requests>>

(* ListenAndServe returns ErrServerClosed. *)
ServeReturns ==
  /\ Alive
  /\ listener = "shut" /\ ~served
  /\ served' = TRUE
  /\ UNCHANGED <<listener, main, manager, reaper, requests>>

(* SIGTERM or SIGINT. *)
Signal ==
  /\ main = "serving"
  /\ EarlySignal \/ listener # "none"
  /\ main' = "signalled"
  /\ UNCHANGED <<listener, served, manager, reaper, requests>>

(* Shutdown: no listener is left, if there is a server to tell. *)
CloseListener ==
  /\ main = "signalled"
  /\ \/ listener = "none" /\ main' = "stop" /\ UNCHANGED listener
     \/ listener # "none" /\ main' = "drain" /\ listener' = "shut"
  /\ UNCHANGED <<served, manager, reaper, requests>>

(* http.Server.Shutdown returns: no request is in flight, ... *)
Drain ==
  /\ main = "drain"
  /\ \A h \in Handlers : pc[h] = "idle"
  /\ main' = "stop"
  /\ UNCHANGED <<listener, served, manager, reaper, requests>>

(* ... or the grace period is over. *)
GraceExpires ==
  /\ main = "drain"
  /\ Deadline
  /\ main' = "stop"
  /\ UNCHANGED <<listener, served, manager, reaper, requests>>

(* SessionManager.Stop: the flag, the parent context, the map and its        *)
(* sessions.                                                                 *)
StopFlag ==
  /\ main = "stop"
  /\ stopped' = TRUE
  /\ main' = "parent"
  /\ UNCHANGED <<listener, served, sessions, age, cancelled, parentDone, reaper, requests>>

StopParent ==
  /\ main = "parent"
  /\ parentDone' = ParentAfterStop
  /\ main' = "swap"
  /\ UNCHANGED <<listener, served, sessions, age, cancelled, stopped, reaper, requests>>

StopSwap ==
  /\ main = "swap"
  /\ cancelled' = cancelled \cup sessions
  /\ Drop(sessions)
  /\ main' = "index"
  /\ UNCHANGED <<listener, served, stopped, parentDone, reaper, requests>>

(* Index.Close and BindIndex(reg, nil): CloseIndex and Unbind of WarmIndex,  *)
(* here with whatever requests the grace period left behind.                 *)
CloseIndex ==
  /\ main = "index"
  /\ main' = "wait"
  /\ UNCHANGED <<listener, served, manager, reaper, requests>>

(* main receives serveErr, at the end or because the listener failed, and    *)
(* the process ends with every goroutine it has.                             *)
Exit ==
  /\ main \in {"serving", "wait"}
  /\ served
  /\ main' = "exited"
  /\ UNCHANGED <<listener, served, manager, reaper, requests>>

(* The daemon is started again: a new process, with no sessions. *)
Boot ==
  /\ main = "exited"
  /\ listener' = "none"
  /\ served' = FALSE
  /\ main' = "serving"
  /\ sessions' = {}
  /\ age' = [id \in Ids |-> 0]
  /\ cancelled' = {}
  /\ stopped' = FALSE
  /\ parentDone' = FALSE
  /\ doomed' = {}
  /\ dying' = NoId
  /\ pc' = [h \in Handlers |-> "idle"]
  /\ sid' = [h \in Handlers |-> NoId]

-----------------------------------------------------------------------------
(* The steps a handler takes by itself. *)
Handle(h) ==
  \/ CheckStopped(h) \/ Allocate(h) \/ Lookup(h) \/ Touch(h)
  \/ EndStream(h) \/ Remove(h) \/ CancelRemoved(h)

Reap == ReapCollect \/ ReapRemove \/ ReapCancel

Serve == MakeServer \/ Listen \/ ServeReturns

Shutdown ==
  \/ CloseListener \/ GraceExpires \/ Drain
  \/ StopFlag \/ StopParent \/ StopSwap \/ CloseIndex \/ Exit

Next ==
  \/ \E h \in Handlers :
       \/ Handle(h) \/ Dispatch(h) \/ Disconnect(h)
       \/ \E k \in Kinds, id \in Ids \cup {NoId} : Arrive(h, k, id)
  \/ Tick
  \/ Reap
  \/ Serve
  \/ Signal
  \/ Shutdown
  \/ Boot

Spec == Init /\ [][Next]_vars

(* The scheduler runs the goroutines that can run and the ticker ticks: the  *)
(* reaper, the listener and main go on, a stream wakes up when its session   *)
(* ends, and a Delete that took a session out of the map cancels it.  No     *)
(* other step of a request has to happen: none has to arrive or to finish    *)
(* its tool call, no client to go away, and nobody to send a signal or to    *)
(* start the daemon again.                                                   *)
Fairness ==
  /\ \A h \in Handlers : WF_vars(EndStream(h)) /\ WF_vars(CancelRemoved(h))
  /\ WF_vars(Reap) /\ WF_vars(Serve) /\ WF_vars(Shutdown)

FairSpec == Spec /\ Fairness

-----------------------------------------------------------------------------
(* Safety *)

(* Concurrent initializes, deletes and reaps never leave more sessions than  *)
(* the cap.                                                                  *)
CapRespected == Cardinality(sessions) <= MaxSessions

(* A stream whose session has left the map is told: its context is done, or  *)
(* the one goroutine that removed the session is about to cancel it, however *)
(* DELETE, Reap and Stop race for it.                                        *)
RemovedAreCancelled ==
  \A h \in Handlers : pc[h] = "stream" /\ sid[h] \notin sessions =>
    \/ Done(sid[h]) \/ dying = sid[h]
    \/ \E g \in Handlers : pc[g] = "cancel" /\ sid[g] = sid[h]

(* When Stop has returned no session is left with a live context, those      *)
(* included that an Allocate already past its check of stopped adds later.   *)
StopReachesAll ==
  main \in {"index", "wait", "exited"} =>
    \A id \in sessions \cup {sid[h] : h \in {g \in Handlers : pc[g] = "stream"}} : Done(id)

(* A session that was deleted, reaped or stopped does not come back: what    *)
(* enters the map is an id no request has in hand, whatever a late Touch of  *)
(* a request that looked it up before does.                                  *)
NoResurrection == [][\A id \in sessions' \ sessions : id \in Unused]_vars

(* "The spec-mandated final event on every open stream when the daemon is    *)
(* shutting down": the process does not end with a stream open that was not  *)
(* told.                                                                     *)
EveryStreamTold == main = "exited" => \A h \in Handlers : pc[h] # "stream"

(* A session past the idle timeout is used again or goes away.               *)
IdleGoesAway ==
  \A id \in Ids : (id \in sessions /\ age[id] > Idle) ~>
                  (id \notin sessions \/ age[id] <= Idle \/ ~Alive)

(* A stream closes once its session is gone. *)
StreamsEnd ==
  \A h \in Handlers : (pc[h] = "stream" /\ sid[h] \notin sessions) ~> (pc[h] # "stream" \/ ~Alive)

(* The daemon that is told to stop stops, whatever its requests do. *)
SignalEnds == (main = "signalled") ~> (main = "exited")
=============================================================================
