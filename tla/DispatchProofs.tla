--------------------------- MODULE DispatchProofs ---------------------------
(***************************************************************************)
(* Proofs about Dispatch, for every set of stdio servers and of the        *)
(* daemon's goroutines, every input a client may send, and every number of *)
(* failed writes, panics and kills.                                        *)
(***************************************************************************)
EXTENDS Dispatch, FiniteSetTheorems, SequenceTheorems, TLAPS

(***************************************************************************)
(* The inductive invariant.  That an answered call has one line follows    *)
(* the line from Write to the file, past the other goroutines of the       *)
(* daemon: the buffer they share holds nothing but the line of the one     *)
(* that has the lock.                                                      *)
(***************************************************************************)

(* The steps under the logger's mutex.                                     *)
InLog(w) == pc[w] \in {"write", "flush"}
LockHeld == \A w \in Workers : InLog(w) => lock[Process(w)] = w

(* Only between its Write and its Flush is a line in the buffer.           *)
BufferEmpty ==
  \A p \in Processes : (\A w \in Workers : Process(w) = p => pc[w] # "flush") => buf[p] = <<>>
OwnLineOnly ==
  \A w \in Workers : pc[w] = "flush" =>
    buf[Process(w)] = IF Process(w) \in broken THEN <<>> ELSE <<Line(w)>>

(* A worker has a request at hand.                                         *)
Busy(w) == pc[w] \notin {"idle", "ended"}

(* What a worker has answered came before what it has at hand, and that    *)
(* before what it has not read.                                            *)
Increasing(s) == \A m, n \in DOMAIN s : m < n => s[m].n < s[n].n
InOrder ==
  \A w \in Workers :
    /\ Increasing(wire[w]) /\ Increasing(todo[w])
    /\ \A n \in DOMAIN wire[w] : Busy(w) => wire[w][n].n < cur[w].n
    /\ \A m \in DOMAIN todo[w] : Busy(w) => cur[w].n < todo[w][m].n
    /\ \A n \in DOMAIN wire[w], m \in DOMAIN todo[w] : wire[w][n].n < todo[w][m].n

(* A line is of a request that was handled, and there is one line of it.   *)
LoggedBefore ==
  \A k \in DOMAIN log :
    /\ \A m \in DOMAIN todo[log[k].worker] : log[k].request.n < todo[log[k].worker][m].n
    /\ pc[log[k].worker] \in {"handle", "log", "write", "flush"} =>
         log[k].request.n < cur[log[k].worker].n
LoggedOnce == \A j, k \in DOMAIN log : log[j] = log[k] => j = k

(* What was answered, or is about to be, is in the file.                   *)
HasLine(w, r) == \E k \in DOMAIN log : log[k] = [worker |-> w, request |-> r]
Recorded ==
  \A w \in Workers : Process(w) \notin broken =>
    /\ \A n \in DOMAIN wire[w] : Audited(wire[w][n]) => HasLine(w, wire[w][n])
    /\ pc[w] = "answer" /\ Audited(cur[w]) => HasLine(w, cur[w])

IInv ==
  /\ TypeOK /\ LockHeld /\ BufferEmpty /\ OwnLineOnly
  /\ InOrder /\ LoggedBefore /\ LoggedOnce /\ Recorded

-----------------------------------------------------------------------------
(* Where the elements of a sequence are after one is added at its end ...    *)
LEMMA AppendAt ==
  ASSUME NEW S, NEW s \in Seq(S), NEW e \in S
  PROVE  /\ Append(s, e) \in Seq(S) /\ DOMAIN Append(s, e) = 1..(Len(s) + 1)
         /\ DOMAIN s = 1..Len(s) /\ Len(s) \in Nat
         /\ Append(s, e)[Len(s) + 1] = e
         /\ \A j \in DOMAIN s : Append(s, e)[j] = s[j]
<1>1. /\ Append(s, e) \in Seq(S) /\ Len(Append(s, e)) = Len(s) + 1
      /\ \A j \in 1..Len(s) : Append(s, e)[j] = s[j]
      /\ Append(s, e)[Len(s) + 1] = e
  BY AppendProperties
<1>2. DOMAIN s = 1..Len(s) /\ Len(s) \in Nat /\ DOMAIN Append(s, e) = 1..(Len(s) + 1)
  BY <1>1, LenProperties
<1> QED
  BY <1>1, <1>2

(* ... and after the first is taken.                                         *)
LEMMA TailAt ==
  ASSUME NEW S, NEW s \in Seq(S), s # <<>>
  PROVE  /\ Tail(s) \in Seq(S) /\ 1 \in DOMAIN s /\ Head(s) = s[1] /\ Head(s) \in S
         /\ \A j \in DOMAIN Tail(s) : /\ j \in Nat /\ 1 < j + 1
                                      /\ j + 1 \in DOMAIN s /\ Tail(s)[j] = s[j + 1]
  BY HeadTailProperties, LenProperties

(* What is left of increasing requests when the first is read.               *)
LEMMA IncreasingTail ==
  ASSUME NEW s \in Seq(Requests), s # <<>>, Increasing(s)
  PROVE  /\ Increasing(Tail(s)) /\ \A j \in DOMAIN Tail(s) : Head(s).n < Tail(s)[j].n
<1>1. \A j \in DOMAIN Tail(s) : /\ j \in Nat /\ 1 < j + 1
                                /\ j + 1 \in DOMAIN s /\ Tail(s)[j] = s[j + 1]
  BY TailAt
<1>2. 1 \in DOMAIN s /\ Head(s) = s[1]
  BY TailAt
<1>3. \A m, n \in DOMAIN Tail(s) : m < n => m + 1 < n + 1
  BY <1>1
<1> QED
  BY <1>1, <1>2, <1>3 DEF Increasing

(* An answer goes after those before it.                                     *)
LEMMA IncreasingAppend ==
  ASSUME NEW s \in Seq(Requests), NEW e \in Requests, Increasing(s), \A j \in DOMAIN s : s[j].n < e.n
  PROVE  Increasing(Append(s, e))
<1> DEFINE t == Append(s, e)
<1>1. /\ DOMAIN t = 1..(Len(s) + 1) /\ DOMAIN s = 1..Len(s) /\ Len(s) \in Nat
      /\ t[Len(s) + 1] = e /\ \A j \in DOMAIN s : t[j] = s[j]
  BY AppendAt
<1> HIDE DEF t
<1>2. ASSUME NEW m \in DOMAIN t, NEW n \in DOMAIN t, m < n PROVE t[m].n < t[n].n
  <2>1. m \in DOMAIN s /\ t[m] = s[m]
    BY <1>1, <1>2
  <2>2. CASE n \in DOMAIN s
    BY <1>1, <1>2, <2>1, <2>2 DEF Increasing
  <2>3. CASE n \notin DOMAIN s
    <3>1. n = Len(s) + 1
      BY <1>1, <2>3
    <3> QED
      BY <1>1, <2>1, <3>1
  <2> QED
    BY <2>2, <2>3
<1> QED
  BY <1>2 DEF Increasing, t

(* Every worker belongs to a process.                                        *)
LEMMA ProcessType == \A w \in Workers : Process(w) \in Processes
  BY DEF Process, Processes, Workers

-----------------------------------------------------------------------------
(* No step leaves the types.                                                 *)
LEMMA TypeStep == DispatchAssumption /\ TypeOK /\ OwnLineOnly /\ [Next]_vars => TypeOK'
<1> SUFFICES ASSUME DispatchAssumption, TypeOK, OwnLineOnly, [Next]_vars PROVE TypeOK'
  OBVIOUS
<1> USE DEF audit, Go
<1>1. ASSUME NEW w \in Workers, Read(w) PROVE TypeOK'
  <2>1. Head(todo[w]) \in Requests /\ Tail(todo[w]) \in Seq(Requests)
    BY <1>1, TailAt DEF Read, TypeOK
  <2>2. todo' \in [Workers -> Seq(Requests)]
    BY <1>1, <2>1 DEF Read, TypeOK
  <2>3. cur' \in [Workers -> Requests]
    BY <1>1, <2>1 DEF Read, TypeOK
  <2>4. pc' \in [Workers -> {"idle", "handle", "log", "write", "flush", "answer", "ended"}]
    BY <1>1 DEF Read, TypeOK
  <2> QED
    BY <1>1, <2>2, <2>3, <2>4 DEF Read, TypeOK
<1>2. ASSUME NEW w \in Workers, EndOfInput(w) \/ Handle(w) PROVE TypeOK'
  BY <1>2 DEF EndOfInput, Handle, TypeOK
<1>3. ASSUME NEW w \in Workers, Lock(w) PROVE TypeOK'
  BY <1>3 DEF Lock, TypeOK
<1>4. ASSUME NEW w \in Workers, Write(w) PROVE TypeOK'
  <2>1. Line(w) \in Lines /\ Process(w) \in Processes
    BY ProcessType DEF Line, Lines, TypeOK
  <2>2. Append(buf[Process(w)], Line(w)) \in Seq(Lines)
    BY <2>1, AppendProperties DEF TypeOK
  <2>3. buf' \in [Processes -> Seq(Lines)]
    BY <1>4, <2>1, <2>2 DEF Write, TypeOK
  <2> QED
    BY <1>4, <2>3 DEF Write, TypeOK
<1>5. ASSUME NEW w \in Workers, Flush(w) PROVE TypeOK'
  <2>1. Process(w) \in Processes /\ <<>> \in Seq(Lines)
    BY ProcessType, EmptySeq
  <2>2. log \o buf[Process(w)] \in Seq(Lines)
    BY <2>1, ConcatProperties DEF TypeOK
  <2>3. log' \in Seq(Lines) /\ broken' \subseteq Processes /\ faults' \in 0..MaxFaults
    <3>1. MaxFaults \in Nat /\ faults \in 0..MaxFaults /\ broken \subseteq Processes /\ log \in Seq(Lines)
      BY DEF DispatchAssumption, TypeOK
    <3>2. \/ log' = log \o buf[Process(w)] /\ UNCHANGED <<broken, faults>>
          \/ /\ faults > 0 /\ faults' = faults - 1
             /\ broken' = broken \cup {Process(w)} /\ log' = log
      BY <1>5 DEF Flush
    <3>3. log' \in Seq(Lines)
      BY <2>2, <3>1, <3>2, Zenon
    <3>4. faults' \in {faults, faults - 1} /\ (faults' = faults \/ faults > 0)
      BY <3>2, Zenon
    <3>5. broken' \subseteq Processes
      BY <2>1, <3>1, <3>2, Zenon
    <3> QED
      BY <3>1, <3>3, <3>4, <3>5
  <2>4. buf' \in [Processes -> Seq(Lines)]
    BY <1>5, <2>1 DEF Flush, TypeOK
  <2>5. lock' \in [Processes -> Workers \cup {"none"}]
    BY <1>5 DEF Flush, TypeOK
  <2>6. pc' \in [Workers -> {"idle", "handle", "log", "write", "flush", "answer", "ended"}]
    BY <1>5 DEF Flush, TypeOK
  <2> QED
    BY <1>5, <2>3, <2>4, <2>5, <2>6 DEF Flush, TypeOK
<1>6. ASSUME NEW w \in Workers, Answer(w) PROVE TypeOK'
  <2>1. NoRequest \in Requests
    BY DEF NoRequest, Request, Requests, Kinds
  <2>2. Append(wire[w], cur[w]) \in Seq(Requests)
    BY AppendProperties DEF TypeOK
  <2>3. wire' \in [Workers -> Seq(Requests)]
    BY <1>6, <2>2 DEF Answer, TypeOK
  <2> QED
    BY <1>6, <2>1, <2>3 DEF Answer, TypeOK
<1>7. ASSUME NEW w \in Workers, Signal(w) PROVE TypeOK'
  BY <1>7 DEF Signal, TypeOK
<1>8. ASSUME NEW p \in Processes, Die(p) PROVE TypeOK'
  <2>1. NoRequest \in Requests /\ <<>> \in Seq(Lines) /\ faults' \in 0..MaxFaults
    BY <1>8, EmptySeq DEF NoRequest, Request, Requests, Kinds, Die, TypeOK, DispatchAssumption
  <2>2. cur' \in [Workers -> Requests]
    BY <1>8, <2>1 DEF Die, TypeOK
  <2> QED
    BY <1>8, <2>1, <2>2 DEF Die, TypeOK
<1>9. CASE UNCHANGED vars
  BY <1>9 DEF vars, TypeOK
<1> QED
  BY <1>1, <1>2, <1>3, <1>4, <1>5, <1>6, <1>7, <1>8, <1>9 DEF Next

-----------------------------------------------------------------------------
(* The mutex guards the buffer: the steps that are not under it touch        *)
(* neither, and those that are belong to one worker of the process.          *)
LoggerSafe == LockHeld /\ BufferEmpty /\ OwnLineOnly

(* A step away from the logger keeps it so ...                               *)
LEMMA AwayFromLogger ==
  ASSUME LoggerSafe, UNCHANGED <<buf, broken, lock>>,
         \A w \in Workers : \/ pc'[w] = pc[w] /\ cur'[w] = cur[w]
                            \/ ~InLog(w) /\ pc'[w] \notin {"write", "flush"}
  PROVE  LoggerSafe'
<1> USE DEF LoggerSafe
<1>1. LockHeld'
  BY DEF LockHeld, InLog
<1>2. BufferEmpty'
  BY DEF BufferEmpty, InLog
<1>3. OwnLineOnly'
  BY DEF OwnLineOnly, InLog, Line
<1> QED
  BY <1>1, <1>2, <1>3

(* Under the mutex a worker is alone in its process.                         *)
LEMMA AloneInLog ==
  ASSUME LoggerSafe, NEW w \in Workers, InLog(w)
  PROVE  \A v \in Workers \ {w} : Process(v) = Process(w) => ~InLog(v)
  BY DEF LoggerSafe, LockHeld

(* ... and so does every step.                                               *)
LEMMA LoggerStep ==
  ASSUME DispatchAssumption, TypeOK, LoggerSafe, [Next]_vars
  PROVE  LoggerSafe'
<1> USE DEF audit, Go
<1>1. ASSUME NEW w \in Workers, Read(w) \/ EndOfInput(w) \/ Handle(w) \/ Answer(w) \/ Signal(w)
      PROVE  LoggerSafe'
  <2>1. \A v \in Workers \ {w} : pc'[v] = pc[v] /\ cur'[v] = cur[v]
    BY <1>1 DEF Read, EndOfInput, Handle, Answer, Signal, TypeOK
  <2>2. (pc'[w] = pc[w] /\ cur'[w] = cur[w]) \/ (~InLog(w) /\ pc'[w] \notin {"write", "flush"})
    BY <1>1 DEF Read, EndOfInput, Handle, Answer, Signal, InLog, TypeOK
  <2>3. UNCHANGED <<buf, broken, lock>>
    BY <1>1 DEF Read, EndOfInput, Handle, Answer, Signal
  <2> QED
    BY <2>1, <2>2, <2>3, AwayFromLogger
<1>2. ASSUME NEW w \in Workers, Lock(w) PROVE LoggerSafe'
  <2>1. /\ pc[w] = "log" /\ pc'[w] = "write" /\ lock[Process(w)] = "none"
        /\ \A v \in Workers \ {w} : pc'[v] = pc[v]
        /\ UNCHANGED <<cur, buf, broken>>
        /\ \A p \in Processes : lock'[p] = IF p = Process(w) THEN w ELSE lock[p]
    BY <1>2 DEF Lock, TypeOK
  <2>2. \A v \in Workers : InLog(v) => Process(v) # Process(w)
    BY <2>1 DEF LoggerSafe, LockHeld, DispatchAssumption
  <2>3. LockHeld'
    BY <2>1, <2>2, ProcessType DEF LoggerSafe, LockHeld, InLog
  <2>4. BufferEmpty' /\ OwnLineOnly'
    BY <2>1 DEF LoggerSafe, BufferEmpty, OwnLineOnly, Line
  <2> QED
    BY <2>3, <2>4 DEF LoggerSafe
<1>3. ASSUME NEW w \in Workers, Write(w) PROVE LoggerSafe'
  <2> DEFINE p == Process(w)
  <2>1. /\ pc[w] = "write" /\ pc'[w] = "flush" /\ UNCHANGED <<cur, broken, lock>>
        /\ \A v \in Workers \ {w} : pc'[v] = pc[v]
        /\ \A q \in Processes \ {p} : buf'[q] = buf[q]
        /\ buf'[p] = IF p \in broken THEN buf[p] ELSE Append(buf[p], Line(w))
    BY <1>3, ProcessType DEF Write, TypeOK
  <2>2. \A v \in Workers \ {w} : Process(v) = p => ~InLog(v)
    BY <2>1, AloneInLog DEF InLog
  <2>3. buf[p] = <<>>
    BY <2>1, <2>2, ProcessType DEF LoggerSafe, BufferEmpty, InLog
  <2>4. buf'[p] = IF p \in broken THEN <<>> ELSE <<Line(w)>>
    <3>1. Append(<<>>, Line(w)) = <<Line(w)>>
      OBVIOUS
    <3> QED
      BY <2>1, <2>3, <3>1
  <2>5. \A v \in Workers : Line(v)' = Line(v)
    BY <2>1 DEF Line
  <2>6. LockHeld'
    BY <2>1 DEF LoggerSafe, LockHeld, InLog
  <2>7. BufferEmpty'
    BY <2>1 DEF LoggerSafe, BufferEmpty
  <2>8. OwnLineOnly'
    <3> SUFFICES ASSUME NEW v \in Workers, pc'[v] = "flush"
                 PROVE  buf'[Process(v)] = IF Process(v) \in broken THEN <<>> ELSE <<Line(v)>>
      BY <2>1, <2>5 DEF OwnLineOnly
    <3>1. CASE v = w
      BY <2>4, <3>1
    <3>2. CASE v # w
      <4>1. pc[v] = "flush" /\ Process(v) # p
        BY <2>1, <2>2, <3>2 DEF InLog
      <4> QED
        BY <2>1, <4>1, ProcessType DEF LoggerSafe, OwnLineOnly
    <3> QED
      BY <3>1, <3>2
  <2> QED
    BY <2>6, <2>7, <2>8 DEF LoggerSafe
<1>4. ASSUME NEW w \in Workers, Flush(w) PROVE LoggerSafe'
  <2> DEFINE p == Process(w)
  <2>1. /\ pc[w] = "flush" /\ pc'[w] = "answer" /\ cur' = cur
        /\ \A v \in Workers \ {w} : pc'[v] = pc[v]
        /\ \A q \in Processes \ {p} : buf'[q] = buf[q] /\ lock'[q] = lock[q]
        /\ buf'[p] = <<>> /\ broken' \in {broken, broken \cup {p}}
    BY <1>4, ProcessType DEF Flush, TypeOK
  <2>2. \A v \in Workers \ {w} : Process(v) = p => ~InLog(v)
    BY <2>1, AloneInLog DEF InLog
  <2>3. \A v \in Workers : pc'[v] \in {"write", "flush"} => pc[v] = pc'[v] /\ Process(v) # p
    BY <2>1, <2>2 DEF InLog
  <2>4. LockHeld'
    BY <2>1, <2>3, ProcessType DEF LoggerSafe, LockHeld, InLog
  <2>5. BufferEmpty'
    <3> SUFFICES ASSUME NEW q \in Processes, \A v \in Workers : Process(v) = q => pc'[v] # "flush"
                 PROVE  buf'[q] = <<>>
      BY DEF BufferEmpty
    <3>1. CASE q = p
      BY <2>1, <3>1
    <3>2. CASE q # p
      <4>1. \A v \in Workers : Process(v) = q => pc[v] # "flush"
        BY <2>1, <3>2
      <4> QED
        BY <2>1, <3>2, <4>1 DEF LoggerSafe, BufferEmpty
    <3> QED
      BY <3>1, <3>2
  <2>6. OwnLineOnly'
    <3> SUFFICES ASSUME NEW v \in Workers, pc'[v] = "flush"
                 PROVE  buf'[Process(v)] = IF Process(v) \in broken' THEN <<>> ELSE <<Line(v)'>>
      BY DEF OwnLineOnly
    <3>1. pc[v] = "flush" /\ Process(v) # p /\ Line(v)' = Line(v)
      BY <2>1, <2>3 DEF Line
    <3>2. buf'[Process(v)] = buf[Process(v)] /\ (Process(v) \in broken' <=> Process(v) \in broken)
      BY <2>1, <3>1, ProcessType
    <3> QED
      BY <3>1, <3>2 DEF LoggerSafe, OwnLineOnly
  <2> QED
    BY <2>4, <2>5, <2>6 DEF LoggerSafe
<1>5. ASSUME NEW p \in Processes, Die(p) PROVE LoggerSafe'
  <2>1. /\ \A w \in Workers : IF Process(w) = p THEN pc'[w] = "ended" ELSE pc'[w] = pc[w] /\ cur'[w] = cur[w]
        /\ \A q \in Processes \ {p} : buf'[q] = buf[q] /\ lock'[q] = lock[q]
        /\ buf'[p] = <<>> /\ broken' = broken
    BY <1>5 DEF Die, TypeOK
  <2>2. LockHeld'
    BY <2>1, ProcessType DEF LoggerSafe, LockHeld, InLog
  <2>3. BufferEmpty'
    <3> SUFFICES ASSUME NEW q \in Processes, \A v \in Workers : Process(v) = q => pc'[v] # "flush"
                 PROVE  buf'[q] = <<>>
      BY DEF BufferEmpty
    <3> QED
      BY <2>1 DEF LoggerSafe, BufferEmpty
  <2>4. OwnLineOnly'
    BY <2>1, ProcessType DEF LoggerSafe, OwnLineOnly, Line
  <2> QED
    BY <2>2, <2>3, <2>4 DEF LoggerSafe
<1>6. CASE UNCHANGED vars
  BY <1>6, AwayFromLogger DEF vars
<1> QED
  BY <1>1, <1>2, <1>3, <1>4, <1>5, <1>6 DEF Next

-----------------------------------------------------------------------------
(* Requests are read, answered and logged in the order they were sent.       *)
LEMMA OrderStep ==
  ASSUME TypeOK, InOrder, [Next]_vars
  PROVE  InOrder'
<1> USE DEF audit, Go
<1>1. ASSUME UNCHANGED <<cur, todo, wire>>, \A w \in Workers : Busy(w)' => Busy(w) PROVE InOrder'
  BY <1>1 DEF InOrder
<1>2. ASSUME NEW w \in Workers, Read(w) PROVE InOrder'
  <2> DEFINE t == todo[w]
  <2>1. /\ pc[w] = "idle" /\ t # <<>> /\ todo'[w] = Tail(t) /\ wire' = wire
        /\ \A v \in Workers \ {w} : pc'[v] = pc[v] /\ cur'[v] = cur[v] /\ todo'[v] = todo[v]
        /\ Busy(w)' => cur'[w] = Head(t)
    BY <1>2 DEF Read, TypeOK, Busy
  <2>2. t \in Seq(Requests) /\ Increasing(t)
    BY DEF TypeOK, InOrder
  <2>3. /\ 1 \in DOMAIN t /\ Head(t) = t[1]
        /\ \A j \in DOMAIN Tail(t) : j + 1 \in DOMAIN t /\ Tail(t)[j] = t[j + 1]
    BY <2>1, <2>2, TailAt
  <2>4. Increasing(Tail(t)) /\ \A j \in DOMAIN Tail(t) : Head(t).n < Tail(t)[j].n
    BY <2>1, <2>2, IncreasingTail
  <2>5. /\ Increasing(wire[w])
        /\ \A n \in DOMAIN wire[w], m \in DOMAIN t : wire[w][n].n < t[m].n
    BY DEF InOrder
  <2> HIDE DEF t
  <2>6. ASSUME NEW v \in Workers, v # w
        PROVE  /\ Increasing(wire'[v]) /\ Increasing(todo'[v])
               /\ \A n \in DOMAIN wire'[v] : Busy(v)' => wire'[v][n].n < cur'[v].n
               /\ \A m \in DOMAIN todo'[v] : Busy(v)' => cur'[v].n < todo'[v][m].n
               /\ \A n \in DOMAIN wire'[v], m \in DOMAIN todo'[v] : wire'[v][n].n < todo'[v][m].n
    BY <2>1, <2>6 DEF InOrder, Busy
  <2>7. /\ Increasing(wire'[w]) /\ Increasing(todo'[w])
        /\ \A n \in DOMAIN wire'[w] : Busy(w)' => wire'[w][n].n < cur'[w].n
        /\ \A m \in DOMAIN todo'[w] : Busy(w)' => cur'[w].n < todo'[w][m].n
        /\ \A n \in DOMAIN wire'[w], m \in DOMAIN todo'[w] : wire'[w][n].n < todo'[w][m].n
    BY <2>1, <2>3, <2>4, <2>5
  <2> QED
    BY <2>6, <2>7 DEF InOrder
<1>3. ASSUME NEW w \in Workers, Answer(w) PROVE InOrder'
  <2>1. /\ pc[w] = "answer" /\ pc'[w] = "idle" /\ todo' = todo
        /\ wire'[w] = wire[w] \/ wire'[w] = Append(wire[w], cur[w])
        /\ \A v \in Workers \ {w} : pc'[v] = pc[v] /\ cur'[v] = cur[v] /\ wire'[v] = wire[v]
    BY <1>3 DEF Answer, TypeOK
  <2>2. wire[w] \in Seq(Requests) /\ cur[w] \in Requests /\ Busy(w)
    BY <2>1 DEF TypeOK, Busy
  <2>3. /\ Increasing(wire[w]) /\ Increasing(todo[w])
        /\ \A n \in DOMAIN wire[w] : wire[w][n].n < cur[w].n
        /\ \A m \in DOMAIN todo[w] : cur[w].n < todo[w][m].n
        /\ \A n \in DOMAIN wire[w], m \in DOMAIN todo[w] : wire[w][n].n < todo[w][m].n
    BY <2>2 DEF InOrder
  <2>4. Increasing(wire'[w]) /\ \A n \in DOMAIN wire'[w], m \in DOMAIN todo[w] : wire'[w][n].n < todo[w][m].n
    <3>1. CASE wire'[w] = wire[w]
      BY <2>3, <3>1
    <3>2. CASE wire'[w] = Append(wire[w], cur[w])
      <4>1. Increasing(wire'[w])
        BY <2>2, <2>3, <3>2, IncreasingAppend
      <4>2. \A n \in DOMAIN wire'[w] : wire'[w][n] = cur[w] \/ (n \in DOMAIN wire[w] /\ wire'[w][n] = wire[w][n])
        <5>1. /\ DOMAIN wire'[w] = 1..(Len(wire[w]) + 1) /\ DOMAIN wire[w] = 1..Len(wire[w])
              /\ Len(wire[w]) \in Nat /\ wire'[w][Len(wire[w]) + 1] = cur[w]
              /\ \A j \in DOMAIN wire[w] : wire'[w][j] = wire[w][j]
          BY <2>2, <3>2, AppendAt
        <5> QED
          BY <5>1
      <4> QED
        BY <2>3, <4>1, <4>2
    <3> QED
      BY <2>1, <3>1, <3>2
  <2>5. ~Busy(w)'
    BY <2>1 DEF Busy
  <2> QED
    BY <2>1, <2>3, <2>4, <2>5 DEF InOrder, Busy
<1>4. ASSUME NEW w \in Workers, EndOfInput(w) \/ Handle(w) \/ Lock(w) \/ Write(w) \/ Flush(w) \/ Signal(w)
      PROVE  InOrder'
  <2>1. UNCHANGED <<cur, todo, wire>>
    BY <1>4 DEF EndOfInput, Handle, Lock, Write, Flush, Signal
  <2>2. \A v \in Workers : Busy(v)' => Busy(v)
    BY <1>4 DEF EndOfInput, Handle, Lock, Write, Flush, Signal, TypeOK, Busy
  <2> QED
    BY <1>1, <2>1, <2>2
<1>5. ASSUME NEW p \in Processes, Die(p) PROVE InOrder'
  <2>1. /\ UNCHANGED <<todo, wire>>
        /\ \A w \in Workers : Busy(w)' => Busy(w) /\ cur'[w] = cur[w]
    BY <1>5 DEF Die, Busy, TypeOK
  <2> QED
    BY <2>1 DEF InOrder
<1>6. CASE UNCHANGED vars
  BY <1>1, <1>6 DEF vars, Busy
<1> QED
  BY <1>2, <1>3, <1>4, <1>5, <1>6 DEF Next

-----------------------------------------------------------------------------
(* What the file says of the requests.                                       *)
LogTrue == LoggedBefore /\ LoggedOnce /\ Recorded

(* The log is not written, and no request becomes one that should be in it.  *)
LEMMA LogUnmoved ==
  ASSUME TypeOK, LogTrue, UNCHANGED log, broken \subseteq broken',
         \A w \in Workers :
           /\ \A m \in DOMAIN todo'[w] : \E k \in DOMAIN todo[w] : todo'[w][m] = todo[w][k]
           /\ \/ pc'[w] \notin {"handle", "log", "write", "flush"}
              \/ pc[w] \in {"handle", "log", "write", "flush"} /\ cur'[w] = cur[w]
              \/ \E k \in DOMAIN todo[w] : cur'[w] = todo[w][k]
           /\ Process(w) \notin broken' =>
                /\ wire'[w] = wire[w] \/ (pc[w] = "answer" /\ wire'[w] = Append(wire[w], cur[w]))
                /\ pc'[w] # "answer" \/ ~Audited(cur'[w]) \/ (pc[w] = "answer" /\ cur'[w] = cur[w])
  PROVE  LogTrue'
<1> USE DEF LogTrue
<1>1. \A k \in DOMAIN log : log[k].worker \in Workers
  <2>1. \A k \in DOMAIN log : log[k] \in Lines
    BY ElementOfSeq, LenProperties DEF TypeOK
  <2> QED
    BY <2>1 DEF Lines
<1>2. LoggedBefore'
  <2> SUFFICES ASSUME NEW k \in DOMAIN log
               PROVE  /\ \A m \in DOMAIN todo'[log[k].worker] : log[k].request.n < todo'[log[k].worker][m].n
                      /\ pc'[log[k].worker] \in {"handle", "log", "write", "flush"} =>
                           log[k].request.n < cur'[log[k].worker].n
    BY DEF LoggedBefore
  <2> DEFINE w == log[k].worker
  <2>1. w \in Workers /\ \A m \in DOMAIN todo[w] : log[k].request.n < todo[w][m].n
    BY <1>1 DEF LoggedBefore
  <2>2. pc[w] \in {"handle", "log", "write", "flush"} => log[k].request.n < cur[w].n
    BY DEF LoggedBefore
  <2> HIDE DEF w
  <2>3. /\ \A m \in DOMAIN todo'[w] : log[k].request.n < todo'[w][m].n
        /\ pc'[w] \in {"handle", "log", "write", "flush"} => log[k].request.n < cur'[w].n
    BY <2>1, <2>2
  <2> QED
    BY <2>3 DEF w
<1>3. LoggedOnce'
  BY DEF LoggedOnce
<1>4. \A w, r : HasLine(w, r)' = HasLine(w, r)
  BY DEF HasLine
<1>5. Recorded'
  <2> SUFFICES ASSUME NEW w \in Workers, Process(w) \notin broken'
               PROVE  /\ \A n \in DOMAIN wire'[w] : Audited(wire'[w][n]) => HasLine(w, wire'[w][n])
                      /\ pc'[w] = "answer" /\ Audited(cur'[w]) => HasLine(w, cur'[w])
    BY <1>4 DEF Recorded
  <2>1. /\ \A n \in DOMAIN wire[w] : Audited(wire[w][n]) => HasLine(w, wire[w][n])
        /\ pc[w] = "answer" /\ Audited(cur[w]) => HasLine(w, cur[w])
    BY DEF Recorded
  <2>2. \A n \in DOMAIN wire'[w] : Audited(wire'[w][n]) => HasLine(w, wire'[w][n])
    <3>1. CASE wire'[w] = wire[w]
      BY <2>1, <3>1
    <3>2. CASE pc[w] = "answer" /\ wire'[w] = Append(wire[w], cur[w])
      <4>1. wire[w] \in Seq(Requests) /\ cur[w] \in Requests
        BY DEF TypeOK
      <4>2. /\ DOMAIN wire'[w] = 1..(Len(wire[w]) + 1) /\ DOMAIN wire[w] = 1..Len(wire[w])
            /\ Len(wire[w]) \in Nat /\ wire'[w][Len(wire[w]) + 1] = cur[w]
            /\ \A j \in DOMAIN wire[w] : wire'[w][j] = wire[w][j]
        BY <3>2, <4>1, AppendAt
      <4>3. \A n \in DOMAIN wire'[w] : wire'[w][n] = cur[w] \/ (n \in DOMAIN wire[w] /\ wire'[w][n] = wire[w][n])
        BY <4>2
      <4> QED
        BY <2>1, <3>2, <4>3
    <3> QED
      BY <3>1, <3>2
  <2> QED
    BY <2>1, <2>2
<1> QED
  BY <1>2, <1>3, <1>5

(* The line of a call goes to the end of the file: it is the first of its    *)
(* request, because no other line of it is as late.                          *)
LEMMA LineAdded ==
  ASSUME TypeOK, LogTrue, NEW w \in Workers, pc[w] = "flush",
         log' = Append(log, Line(w)), UNCHANGED <<cur, todo, wire, broken>>,
         pc' = [pc EXCEPT ![w] = "answer"], InOrder
  PROVE  LogTrue'
<1> USE DEF LogTrue
<1> DEFINE e == Line(w)
           N == Len(log) + 1
<1>1. e \in Lines /\ e.worker = w /\ e.request = cur[w] /\ e = [worker |-> w, request |-> cur[w]]
  BY DEF Line, Lines, TypeOK
<1> HIDE DEF e
<1>2. /\ DOMAIN log' = 1..N /\ DOMAIN log = 1..Len(log) /\ Len(log) \in Nat
      /\ log'[N] = e /\ \A k \in DOMAIN log : log'[k] = log[k]
  BY <1>1, AppendAt DEF TypeOK, e
<1> HIDE DEF N
<1>3. \A k \in DOMAIN log' : k = N \/ k \in DOMAIN log
  BY <1>2 DEF N
<1>4. \A k \in DOMAIN log : log[k] # e
  <2>1. ASSUME NEW k \in DOMAIN log, log[k] = e PROVE FALSE
    <3>1. log[k].request.n < cur[w].n
      BY <1>1, <2>1 DEF LoggedBefore
    <3>2. cur[w].n \in Nat
      BY DEF TypeOK, Requests
    <3> QED
      BY <1>1, <2>1, <3>1, <3>2
  <2> QED
    BY <2>1
<1>5. LoggedOnce'
  BY <1>2, <1>3, <1>4 DEF LoggedOnce
<1>6. pc'[w] = "answer" /\ \A v \in Workers \ {w} : pc'[v] = pc[v]
  BY DEF TypeOK
<1>7. \A k \in DOMAIN log : log[k].worker \in Workers
  <2>1. \A k \in DOMAIN log : log[k] \in Lines
    BY ElementOfSeq, LenProperties DEF TypeOK
  <2> QED
    BY <2>1 DEF Lines
<1>8. LoggedBefore'
  <2>1. ASSUME NEW k \in DOMAIN log
        PROVE  /\ \A m \in DOMAIN todo[log[k].worker] : log[k].request.n < todo[log[k].worker][m].n
               /\ pc'[log[k].worker] \in {"handle", "log", "write", "flush"} =>
                    log[k].request.n < cur[log[k].worker].n
    BY <1>6, <1>7 DEF LoggedBefore
  <2>2. /\ \A m \in DOMAIN todo[e.worker] : e.request.n < todo[e.worker][m].n
        /\ pc'[e.worker] \notin {"handle", "log", "write", "flush"}
    BY <1>1, <1>6 DEF InOrder, Busy
  <2> DEFINE Before(x) == /\ \A m \in DOMAIN todo[x.worker] : x.request.n < todo[x.worker][m].n
                          /\ pc'[x.worker] \in {"handle", "log", "write", "flush"} =>
                               x.request.n < cur[x.worker].n
  <2>3. (\A k \in DOMAIN log : Before(log[k])) /\ Before(e)
    BY <2>1, <2>2
  <2>4. (\A k \in DOMAIN log' : Before(log'[k])) => LoggedBefore'
    BY DEF LoggedBefore
  <2> HIDE DEF Before
  <2>5. ASSUME NEW k \in DOMAIN log' PROVE Before(log'[k])
    <3>1. CASE k = N
      BY <1>2, <2>3, <3>1
    <3>2. CASE k \in DOMAIN log
      BY <1>2, <2>3, <3>2
    <3> QED
      BY <1>3, <3>1, <3>2
  <2> QED
    BY <2>4, <2>5
<1>9. \A v, r : HasLine(v, r) => HasLine(v, r)'
  BY <1>2, <1>3 DEF HasLine, N
<1>10. HasLine(w, cur[w])'
  <2>1. N \in DOMAIN log'
    BY <1>2 DEF N
  <2> QED
    BY <1>1, <1>2, <2>1 DEF HasLine
<1>11. Recorded'
  BY <1>6, <1>9, <1>10 DEF Recorded
<1> QED
  BY <1>5, <1>8, <1>11

(* Every step keeps the file true.                                           *)
LEMMA LogStep ==
  ASSUME TypeOK, LoggerSafe, InOrder, LogTrue, [Next]_vars
  PROVE  LogTrue'
<1> USE DEF audit, Go
<1> DEFINE InHand == {"handle", "log", "write", "flush"}
           Left(w) == \A m \in DOMAIN todo'[w] : \E k \in DOMAIN todo[w] : todo'[w][m] = todo[w][k]
           Known(w) == \/ pc'[w] \notin InHand
                       \/ pc[w] \in InHand /\ cur'[w] = cur[w]
                       \/ \E k \in DOMAIN todo[w] : cur'[w] = todo[w][k]
           Told(w) == Process(w) \notin broken' =>
             /\ wire'[w] = wire[w] \/ (pc[w] = "answer" /\ wire'[w] = Append(wire[w], cur[w]))
             /\ pc'[w] # "answer" \/ ~Audited(cur'[w]) \/ (pc[w] = "answer" /\ cur'[w] = cur[w])
<1>1. ASSUME log' = log, broken \subseteq broken', \A w \in Workers : Left(w) /\ Known(w) /\ Told(w)
      PROVE  LogTrue'
  BY <1>1, LogUnmoved
<1>2. ASSUME NEW w \in Workers, pc'[w] = pc[w], cur'[w] = cur[w], todo'[w] = todo[w], wire'[w] = wire[w]
      PROVE  Left(w) /\ Known(w) /\ Told(w)
  BY <1>2
<1>3. ASSUME NEW w \in Workers, Read(w) PROVE LogTrue'
  <2> DEFINE t == todo[w]
  <2>1. /\ pc[w] = "idle" /\ t # <<>> /\ todo'[w] = Tail(t) /\ UNCHANGED <<wire, log, broken>>
        /\ \A v \in Workers \ {w} : pc'[v] = pc[v] /\ cur'[v] = cur[v] /\ todo'[v] = todo[v]
        /\ \/ pc'[w] \in {"ended", "idle"}
           \/ cur'[w] = Head(t) /\ (pc'[w] = "handle" \/ (pc'[w] = "answer" /\ ~Audited(cur'[w])))
    BY <1>3 DEF Read, TypeOK
  <2>2. /\ 1 \in DOMAIN t /\ Head(t) = t[1]
        /\ \A j \in DOMAIN Tail(t) : j + 1 \in DOMAIN t /\ Tail(t)[j] = t[j + 1]
    BY <2>1, TailAt DEF TypeOK
  <2>3. Left(w) /\ Known(w)
    BY <2>1, <2>2
  <2>4. Told(w)
    BY <2>1
  <2>5. \A v \in Workers \ {w} : Left(v) /\ Known(v) /\ Told(v)
    BY <1>2, <2>1
  <2>6. log' = log /\ broken \subseteq broken'
    BY <2>1
  <2> HIDE DEF Left, Known, Told
  <2>7. \A v \in Workers : Left(v) /\ Known(v) /\ Told(v)
    BY <2>3, <2>4, <2>5
  <2> QED
    BY <1>1, <2>6, <2>7
<1>4. ASSUME NEW w \in Workers,
             EndOfInput(w) \/ Handle(w) \/ Lock(w) \/ Write(w) \/ Answer(w) \/ Signal(w)
      PROVE  LogTrue'
  <2>1. /\ UNCHANGED <<todo, log, broken>>
        /\ \A v \in Workers \ {w} : pc'[v] = pc[v] /\ cur'[v] = cur[v] /\ wire'[v] = wire[v]
        /\ \/ pc'[w] \in {"idle", "ended"}
           \/ pc'[w] = pc[w] /\ cur'[w] = cur[w]
           \/ pc[w] \in InHand /\ pc'[w] \in InHand /\ cur'[w] = cur[w]
        /\ wire'[w] = wire[w] \/ (pc[w] = "answer" /\ wire'[w] = Append(wire[w], cur[w]))
    <3>1. ASSUME EndOfInput(w) \/ Handle(w) \/ Lock(w) \/ Write(w) \/ Signal(w)
          PROVE  /\ UNCHANGED <<todo, log, broken, cur, wire>>
                 /\ \A v \in Workers \ {w} : pc'[v] = pc[v]
                 /\ pc'[w] \in {"idle", "ended"} \/ pc'[w] = pc[w] \/ (pc[w] \in InHand /\ pc'[w] \in InHand)
      BY <3>1 DEF EndOfInput, Handle, Lock, Write, Signal, TypeOK
    <3>2. ASSUME Answer(w)
          PROVE  /\ UNCHANGED <<todo, log, broken>> /\ pc[w] = "answer" /\ pc'[w] = "idle"
                 /\ \A v \in Workers \ {w} : pc'[v] = pc[v] /\ cur'[v] = cur[v] /\ wire'[v] = wire[v]
                 /\ wire'[w] = wire[w] \/ wire'[w] = Append(wire[w], cur[w])
      BY <3>2 DEF Answer, TypeOK
    <3> QED
      BY <1>4, <3>1, <3>2
  <2>2. Left(w) /\ Known(w) /\ Told(w)
    BY <2>1
  <2>3. \A v \in Workers \ {w} : Left(v) /\ Known(v) /\ Told(v)
    BY <1>2, <2>1
  <2> QED
    BY <1>1, <2>1, <2>2, <2>3
<1>5. ASSUME NEW w \in Workers, Flush(w) PROVE LogTrue'
  <2> DEFINE p == Process(w)
  <2>1. /\ pc[w] = "flush" /\ pc' = [pc EXCEPT ![w] = "answer"] /\ UNCHANGED <<cur, todo, wire>>
        /\ pc'[w] = "answer" /\ \A v \in Workers \ {w} : pc'[v] = pc[v]
    BY <1>5 DEF Flush, TypeOK
  <2>2. buf[p] = IF p \in broken THEN <<>> ELSE <<Line(w)>>
    BY <2>1 DEF LoggerSafe, OwnLineOnly
  <2>3. \/ log' = log \o buf[p] /\ broken' = broken
        \/ broken' = broken \cup {p} /\ log' = log
    BY <1>5 DEF Flush
  <2>4. CASE log' = log /\ p \in broken' /\ broken \subseteq broken'
    <3>1. Left(w) /\ Known(w) /\ Told(w)
      BY <2>1, <2>4
    <3>2. \A v \in Workers \ {w} : Left(v) /\ Known(v) /\ Told(v)
      BY <1>2, <2>1
    <3> QED
      BY <1>1, <2>4, <3>1, <3>2
  <2>5. CASE p \in broken /\ log' = log \o buf[p] /\ broken' = broken
    <3>1. log \o <<>> = log
      BY ConcatEmptySeq DEF TypeOK
    <3> QED
      BY <2>2, <2>4, <2>5, <3>1
  <2>6. CASE p \notin broken /\ log' = log \o buf[p] /\ broken' = broken
    <3>1. Line(w) \in Lines /\ log \in Seq(Lines)
      BY DEF Line, Lines, TypeOK
    <3>2. Append(log, Line(w)) = log \o <<Line(w)>>
      BY <3>1, AppendIsConcat
    <3>3. log' = Append(log, Line(w))
      BY <2>2, <2>6, <3>2
    <3> QED
      BY <2>1, <2>6, <3>3, LineAdded
  <2> QED
    BY <2>3, <2>4, <2>5, <2>6
<1>6. ASSUME NEW p \in Processes, Die(p) PROVE LogTrue'
  <2>1. /\ UNCHANGED <<todo, wire, log, broken>>
        /\ \A w \in Workers : pc'[w] = "ended" \/ (pc'[w] = pc[w] /\ cur'[w] = cur[w])
    BY <1>6 DEF Die, TypeOK
  <2>2. \A w \in Workers : Left(w) /\ Known(w) /\ Told(w)
    BY <2>1
  <2> QED
    BY <1>1, <2>1, <2>2
<1>7. CASE UNCHANGED vars
  BY <1>1, <1>2, <1>7 DEF vars
<1> QED
  BY <1>3, <1>4, <1>5, <1>6, <1>7 DEF Next

-----------------------------------------------------------------------------
(* Nothing is logged, answered or under way at first.                        *)
LEMMA InitInv == DispatchAssumption /\ Init => IInv
<1> SUFFICES ASSUME DispatchAssumption, Init PROVE IInv
  OBVIOUS
<1>1. NoRequest \in Requests /\ MaxFaults \in Nat
  BY DEF NoRequest, Request, Requests, Kinds, DispatchAssumption
<1>2. \A S : <<>> \in Seq(S) /\ DOMAIN <<>> = {}
  BY EmptySeq
<1>3. ASSUME NEW w \in Workers PROVE todo[w] \in Seq(Requests) /\ Increasing(todo[w])
  <2>1. PICK s \in Inputs : todo[w] = [n \in DOMAIN s |-> Request(n, s[n])]
    BY DEF Init
  <2>2. s \in Seq(Kinds)
    BY DEF DispatchAssumption
  <2>3. Len(s) \in Nat /\ DOMAIN s = 1..Len(s) /\ \A n \in 1..Len(s) : s[n] \in Kinds
    BY <2>2, LenProperties, ElementOfSeq
  <2>4. /\ DOMAIN todo[w] = 1..Len(s)
        /\ \A n \in 1..Len(s) : todo[w][n] \in Requests /\ todo[w][n].n = n
    BY <2>1, <2>3 DEF Request, Requests
  <2>5. todo[w] \in [1..Len(s) -> Requests]
    BY <2>1, <2>3 DEF Request, Requests
  <2>6. todo[w] \in Seq(Requests)
    BY <2>3, <2>5, SeqDef
  <2> QED
    BY <2>4, <2>6 DEF Increasing
<1>4. TypeOK
  <2>1. todo \in [Workers -> Seq(Requests)]
    BY <1>3 DEF Init
  <2>2. cur \in [Workers -> Requests] /\ wire \in [Workers -> Seq(Requests)]
    BY <1>1, <1>2 DEF Init
  <2>3. log \in Seq(Lines) /\ buf \in [Processes -> Seq(Lines)]
    BY <1>2 DEF Init
  <2>4. faults \in 0..MaxFaults
    BY <1>1 DEF Init
  <2> QED
    BY <2>1, <2>2, <2>3, <2>4 DEF Init, TypeOK
<1>5. LockHeld /\ BufferEmpty /\ OwnLineOnly
  BY ProcessType DEF Init, LockHeld, InLog, BufferEmpty, OwnLineOnly
<1>6. InOrder
  BY <1>2, <1>3 DEF Init, InOrder, Increasing, Busy
<1>7. LoggedBefore /\ LoggedOnce /\ Recorded
  BY <1>2 DEF Init, LoggedBefore, LoggedOnce, Recorded
<1> QED
  BY <1>4, <1>5, <1>6, <1>7 DEF IInv

(* The inductive step.                                                       *)
LEMMA InvStep == DispatchAssumption /\ IInv /\ [Next]_vars => IInv'
  BY TypeStep, LoggerStep, OrderStep, LogStep DEF IInv, LoggerSafe, LogTrue

(* The invariant says what the run checks.                                   *)
LEMMA InvAnsweredIsLogged == DispatchAssumption /\ IInv => AnsweredIsLogged
<1> SUFFICES ASSUME IInv, NEW w \in Workers
             PROVE  /\ \A r \in ToSet(wire[w]) :
                         Audited(r) /\ Process(w) \notin broken => Cardinality(Logged(w, r)) = 1
                    /\ \A m, n \in DOMAIN wire[w] : m < n => wire[w][m].n < wire[w][n].n
  BY DEF AnsweredIsLogged
<1>1. \A m, n \in DOMAIN wire[w] : m < n => wire[w][m].n < wire[w][n].n
  BY DEF IInv, InOrder, Increasing
<1>2. ASSUME NEW r \in ToSet(wire[w]), Audited(r), Process(w) \notin broken
      PROVE  Cardinality(Logged(w, r)) = 1
  <2>1. PICK n \in DOMAIN wire[w] : wire[w][n] = r
    BY DEF ToSet
  <2>2. PICK k \in DOMAIN log : log[k] = [worker |-> w, request |-> r]
    BY <1>2, <2>1 DEF IInv, Recorded, HasLine
  <2>3. Logged(w, r) = {k}
    BY <2>2 DEF Logged, IInv, LoggedOnce
  <2> QED
    BY <2>3, FS_Singleton
<1> QED
  BY <1>1, <1>2

(* IInv holds in every reachable state.                                      *)
THEOREM Inductive ==
  ASSUME DispatchAssumption
  PROVE  Spec => []IInv
  BY InitInv, InvStep, PTL DEF Spec

(* Type correctness of the servers, their wires and the audit file.          *)
THEOREM TypeCorrect ==
  ASSUME DispatchAssumption
  PROVE  Spec => []TypeOK
<1>1. IInv => TypeOK
  BY DEF IInv
<1> QED
  BY <1>1, Inductive, PTL

(* A call that has its answer has just one line in the audit file, whichever *)
(* goroutines and processes log at once and wherever they die, unless a      *)
(* write to the file has failed; answers are in the order of the requests.   *)
THEOREM EveryAnswerIsLogged ==
  ASSUME DispatchAssumption
  PROVE  Spec => []AnsweredIsLogged
  BY Inductive, InvAnsweredIsLogged, PTL
=============================================================================
