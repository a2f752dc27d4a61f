--------------------------- MODULE DcSend_proofs ---------------------------
(***************************************************************************)
(* Proofs about DcSend, for every configuration SendConfig::validate        *)
(* accepts, any number of threads and any workload.                         *)
(***************************************************************************)
EXTENDS DcSend, SequenceTheorems, TLAPS

USE DEF Threads, Room, Buffered

\* Where a thread holds the pump's lock.
Holding == {"pass", "measure", "take", "native", "clear", "abandon", "unlock"}

\* The lock has one holder, and it is where the code holds it.
LockInv ==
    \A t \in Threads : pc[t] \in Holding <=> pump = t

\* Each kind of thread stays in its own calls.
RoleInv ==
    /\ \A t \in Threads : pc[t] \in {"push", "arm"} => t \in Senders
    /\ \A t \in Threads : pc[t] \in {"drain", "drainQueue", "close", "done"} => t \in Closers
    /\ \A t \in Threads : pc[t] = "fire" => t = Callback

\* A queued message has not handed out more than it holds.
QueueInv == \A i \in 1 .. Len(queue) : queue[i].offset <= queue[i].size

\* The pump holds one frame, no larger than a chunk, exactly while it hands it over.
HandInv ==
    /\ \A t \in Threads :
          pc[t] = "native" => hand # <<>> /\ FrameSize(hand[1]) \in 1 .. ChunkSize
    /\ hand # <<>> => \E t \in Threads : pc[t] = "native"

\* native_est never falls below the real amount, and the frame in hand was
\* taken while it was under the high-water mark.
EstInv ==
    /\ native <= est
    /\ \A t \in Threads : pc[t] = "native" => est < HighWater

\* A queue is dropped only once the channel is no longer open.
RefusedInv ==
    /\ \A t \in Threads : pc[t] \in {"clear", "abandon"} => chan # "open"
    /\ closedEvent => chan = "closed"

\* The queue holds the last messages accepted, all but the first untouched.
NumberInv ==
    /\ Len(queue) <= Len(accepted)
    /\ \A i \in 1 .. Len(queue) :
          /\ queue[i].msg = Len(accepted) - Len(queue) + i
          /\ queue[i].size = accepted[queue[i].msg]
          /\ i > 1 => queue[i].offset = 0

\* The byte the queue hands out next, and the byte that follows a frame.
QueueAt   == IF queue = <<>> THEN <<Len(accepted) + 1, 0>> ELSE <<queue[1].msg, queue[1].offset>>
After(f)  == IF f.more THEN <<f.msg, f.to>> ELSE <<f.msg + 1, 0>>
WireEnd   == IF wire = <<>> THEN <<1, 0>> ELSE After(wire[Len(wire)])

\* A frame ends its message exactly when it says so.
Ends(f) ==
    /\ f.msg <= Len(accepted)
    /\ IF f.more THEN f.to < accepted[f.msg] ELSE f.to = accepted[f.msg]

\* While the channel is open the wire, the frame in hand and the queue join up.
JoinInv ==
    chan = "open" =>
        IF hand = <<>> THEN WireEnd = QueueAt
        ELSE /\ WireEnd = <<hand[1].msg, hand[1].from>>
             /\ After(hand[1]) = QueueAt
             /\ Ends(hand[1])

IInv ==
    /\ TypeOK /\ RoleInv /\ LockInv /\ QueueInv /\ HandInv /\ EstInv /\ RefusedInv
    /\ NumberInv /\ JoinInv /\ WireInOrder

-----------------------------------------------------------------------------

LEMMA ConstantTypes ==
    /\ ChunkSize \in Nat /\ LowWater \in Nat /\ HighWater \in Nat /\ NativeLimit \in Nat
    /\ UserLow \in Nat /\ UNKNOWN \in Nat
    /\ Sizes \subseteq Nat /\ Calls \in Nat
  BY ConfigValid, WorkloadValid DEF UNKNOWN

LEMMA AfterPumpLabel ==
    \A t \in Threads : AfterPump(t) \in {"fire", "drain", "idle"}
  BY DEF AfterPump

\* The frame next_frame builds carries the head's next bytes, at most a chunk
\* of them, and reaches its end exactly when it is the last.
LEMMA NextFrameFacts ==
    ASSUME TypeOK, QueueInv, queue # <<>>
    PROVE  /\ NextFrame \in Frame
           /\ FrameSize(NextFrame) \in 1 .. ChunkSize
           /\ NextFrame.to <= queue[1].size
           /\ NextFrame.more <=> NextFrame.to < queue[1].size
  <1>1. queue[1] \in Pending /\ Head(queue) = queue[1] /\ 1 \in 1 .. Len(queue)
    BY DEF TypeOK
  <1>2. queue[1].offset <= queue[1].size
    BY <1>1 DEF QueueInv
  <1>3. queue[1].offset \in Nat /\ queue[1].size \in Nat /\ queue[1].msg \in Nat \ {0}
    BY <1>1 DEF Pending
  <1>4. ChunkSize \in Nat /\ ChunkSize >= 2
    BY ConfigValid
  <1>. DEFINE take == Min2(ChunkSize - 1, queue[1].size - queue[1].offset)
  <1>5. /\ take \in Nat
        /\ take <= ChunkSize - 1
        /\ take <= queue[1].size - queue[1].offset
    BY <1>2, <1>3, <1>4 DEF Min2
  <1>6. NextFrame = [msg |-> queue[1].msg, from |-> queue[1].offset,
                     to |-> queue[1].offset + take,
                     more |-> queue[1].offset + take < queue[1].size]
    BY <1>1 DEF NextFrame
  <1>7. /\ NextFrame.msg = queue[1].msg
        /\ NextFrame.from = queue[1].offset
        /\ NextFrame.to = queue[1].offset + take
        /\ NextFrame.more = (queue[1].offset + take < queue[1].size)
    BY <1>6
  <1>. HIDE DEF take
  <1>8. NextFrame \in Frame
    BY <1>3, <1>5, <1>6 DEF Frame
  <1>9. FrameSize(NextFrame) \in 1 .. ChunkSize
    BY <1>3, <1>4, <1>5, <1>7 DEF FrameSize
  <1>10. NextFrame.to <= queue[1].size
    BY <1>2, <1>3, <1>5, <1>7
  <1>. QED
    BY <1>7, <1>8, <1>9, <1>10

LEMMA OneOrMore == \A n \in Nat : n # 0 => n = 1 \/ n > 1
  OBVIOUS

LEMMA LastOrBefore == \A n \in Nat : \A i \in 1 .. n + 1 : i = n + 1 \/ i \in 1 .. n
  OBVIOUS

LEMMA TailFacts ==
    ASSUME NEW S, NEW q \in Seq(S), q # <<>>
    PROVE  /\ Len(q) = 1 => Tail(q) = <<>>
           /\ Len(q) > 1 => Tail(q) # <<>> /\ Tail(q)[1] = q[2] /\ 2 \in 1 .. Len(q)
  <1>1. /\ Tail(q) \in Seq(S) /\ Len(Tail(q)) = Len(q) - 1
        /\ \A i \in 1 .. Len(q) - 1 : Tail(q)[i] = q[i + 1]
    BY HeadTailProperties
  <1>2. Len(q) \in Nat
    BY LenProperties
  <1>3. ASSUME Len(q) = 1 PROVE Tail(q) = <<>>
    <2>1. Len(Tail(q)) = 0
      BY <1>1, <1>3
    <2>. QED
      BY <1>1, <2>1, EmptySeq
  <1>4. ASSUME Len(q) > 1
        PROVE  Tail(q) # <<>> /\ Tail(q)[1] = q[2] /\ 2 \in 1 .. Len(q)
    <2>1. Len(Tail(q)) # 0 /\ 1 \in 1 .. Len(q) - 1 /\ 2 \in 1 .. Len(q)
      BY <1>1, <1>2, <1>4
    <2>2. Tail(q) # <<>>
      BY <1>1, <2>1, EmptySeq
    <2>. QED
      BY <1>1, <2>1, <2>2
  <1>. QED
    BY <1>3, <1>4

LEMMA PendingAdvances ==
    ASSUME NEW p \in Pending, NEW x \in Nat
    PROVE  /\ [p EXCEPT !.offset = x] \in Pending
           /\ [p EXCEPT !.offset = x].offset = x
           /\ [p EXCEPT !.offset = x].size = p.size
           /\ [p EXCEPT !.offset = x].msg = p.msg
  BY DEF Pending

LEMMA HeadAdvances ==
    ASSUME NEW q \in Seq(Pending), q # <<>>, NEW x \in Nat
    PROVE  /\ [q EXCEPT ![1].offset = x] \in Seq(Pending)
           /\ Len([q EXCEPT ![1].offset = x]) = Len(q)
           /\ [q EXCEPT ![1].offset = x][1] = [q[1] EXCEPT !.offset = x]
           /\ \A i \in 2 .. Len(q) : [q EXCEPT ![1].offset = x][i] = q[i]
  <1>1. q[1] \in Pending /\ 1 \in 1 .. Len(q)
    OBVIOUS
  <1>2. [q[1] EXCEPT !.offset = x] \in Pending
    BY <1>1, PendingAdvances
  <1>. QED
    BY <1>1, <1>2, ExceptSeq

\* Handing out the next frame leaves a queue of the same kind.
LEMMA QueueWithoutFacts ==
    ASSUME TypeOK, QueueInv, queue # <<>>
    PROVE  /\ QueueWithout(NextFrame) \in Seq(Pending)
           /\ \A i \in 1 .. Len(QueueWithout(NextFrame)) :
                 QueueWithout(NextFrame)[i].offset <= QueueWithout(NextFrame)[i].size
  <1>1. queue \in Seq(Pending) /\ queue[1] \in Pending
    BY DEF TypeOK
  <1>2. NextFrame.to \in Nat /\ NextFrame.to <= queue[1].size
    BY NextFrameFacts DEF Frame
  <1>3. CASE NextFrame.more
    <2>. DEFINE q == [queue EXCEPT ![1].offset = NextFrame.to]
    <2>1. QueueWithout(NextFrame) = q
      BY <1>3 DEF QueueWithout
    <2>2. /\ q \in Seq(Pending)
          /\ Len(q) = Len(queue)
          /\ q[1] = [queue[1] EXCEPT !.offset = NextFrame.to]
          /\ \A i \in 2 .. Len(queue) : q[i] = queue[i]
      BY <1>1, <1>2, HeadAdvances
    <2>. HIDE DEF q
    <2>3. q[1].offset = NextFrame.to /\ q[1].size = queue[1].size
      BY <1>1, <1>2, <2>2, PendingAdvances
    <2>4. ASSUME NEW i \in 1 .. Len(q) PROVE q[i].offset <= q[i].size
      <3>1. CASE i = 1
        BY <3>1, <2>3, <1>2
      <3>2. CASE i \in 2 .. Len(queue)
        BY <3>2, <2>2, <2>4 DEF QueueInv
      <3>. QED
        BY <3>1, <3>2, <2>2, <1>1
    <2>. QED
      BY <2>1, <2>2, <2>4
  <1>4. CASE ~NextFrame.more
    <2>1. QueueWithout(NextFrame) = Tail(queue)
      BY <1>4 DEF QueueWithout
    <2>. QED
      BY <2>1, <1>1 DEF QueueInv
  <1>. QED
    BY <1>3, <1>4

-----------------------------------------------------------------------------
(* Types.                                                                  *)

LEMMA TypeInit == Init => TypeOK
  <1>. SUFFICES ASSUME Init PROVE TypeOK
    OBVIOUS
  <1>1. wire \in Seq(Frame) /\ queue \in Seq(Pending) /\ accepted \in Seq(Nat)
    BY DEF Init
  <1>2. hand \in Seq(Frame) /\ Len(hand) <= 1
    BY DEF Init
  <1>3. est \in Nat /\ seen \in [Closers -> Nat] /\ promised \in [Closers -> Nat]
    BY ConstantTypes DEF Init
  <1>4. budget \in [Senders -> Nat]
    BY ConstantTypes DEF Init
  <1>5. verdict \in [Closers -> {"none", "drained", "gaveUp"}]
    BY DEF Init
  <1>6. pc \in [Threads -> PcLabels]
    BY DEF Init, PcLabels
  <1>7. /\ chan \in {"open", "closing", "closed"} /\ native \in Nat /\ queued \in Int
        /\ pump \in Threads \cup {NoThread}
    BY DEF Init
  <1>8. lowEvent \in BOOLEAN /\ closedEvent \in BOOLEAN
    BY Zenon DEF Init
  <1>9. pumpAgain \in BOOLEAN /\ armed \in BOOLEAN
    BY Zenon DEF Init
  <1>. QED
    BY <1>1, <1>2, <1>3, <1>4, <1>5, <1>6, <1>7, <1>8, <1>9 DEF TypeOK

LEMMA TypeStep ==
    ASSUME TypeOK, QueueInv, HandInv, [Next]_vars
    PROVE  TypeOK'
  <1>. USE DEF TypeOK, Goto, nativeVars, queueVars, pumpVars, userVars, PcLabels
  <1>1. ASSUME NEW t \in Senders, Send(t) PROVE TypeOK'
    BY <1>1 DEF Send
  <1>2. ASSUME NEW t \in Senders, Push(t) PROVE TypeOK'
    <2>1. /\ pc' \in [Threads -> PcLabels]
          /\ UNCHANGED <<nativeVars, pumpVars, userVars>>
      BY <1>2 DEF Push
    <2>2. accepted' \in Seq(Nat) /\ queue' \in Seq(Pending) /\ queued' \in Int
      <3>1. PICK size \in Sizes :
               \/ UNCHANGED queueVars
               \/ /\ accepted' = Append(accepted, size)
                  /\ queue' = Append(queue, [msg |-> Len(accepted) + 1, size |-> size,
                                             offset |-> 0])
                  /\ queued' = queued + size
        BY <1>2 DEF Push
      <3>2. [msg |-> Len(accepted) + 1, size |-> size, offset |-> 0] \in Pending
        BY ConstantTypes DEF Pending
      <3>3. CASE UNCHANGED queueVars
        BY <3>3
      <3>4. CASE ~UNCHANGED queueVars
        <4>. DEFINE p == [msg |-> Len(accepted) + 1, size |-> size, offset |-> 0]
        <4>1. /\ accepted' = Append(accepted, size)
              /\ queue' = Append(queue, p)
              /\ queued' = queued + size
          BY <3>1, <3>4
        <4>2. size \in Nat
          BY ConstantTypes
        <4>. HIDE DEF p
        <4>3. p \in Pending
          BY <3>2 DEF p
        <4>4. accepted' \in Seq(Nat)
          BY <4>1, <4>2, AppendProperties
        <4>5. queue' \in Seq(Pending)
          BY <4>1, <4>3, AppendProperties
        <4>. QED
          BY <4>1, <4>2, <4>4, <4>5
      <3>. QED
        BY <3>3, <3>4
    <2>. QED
      BY <2>1, <2>2
  <1>3. ASSUME NEW t \in Senders, Arm(t) PROVE TypeOK'
    BY <1>3 DEF Arm
  <1>4. ASSUME NEW t \in Threads, PumpStep(t) PROVE TypeOK'
    <2>1. CASE Request(t)
      BY <2>1 DEF Request
    <2>2. CASE TryLock(t)
      BY <2>2, AfterPumpLabel DEF TryLock
    <2>3. CASE Pass(t)
      BY <2>3 DEF Pass
    <2>4. CASE Measure(t)
      BY <2>4 DEF Measure
    <2>5. CASE Take(t)
      <3>1. CASE est >= HighWater \/ queue = <<>>
        <4>1. /\ pc' = [pc EXCEPT ![t] = "pass"]
              /\ UNCHANGED <<queueVars, nativeVars, est, pump, pumpAgain, hand, userVars>>
          BY <3>1, <2>5, ConstantTypes DEF Take
        <4>. QED
          BY <4>1
      <3>2. CASE est < HighWater /\ queue # <<>>
        <4>1. /\ hand' = <<NextFrame>>
              /\ queue' = QueueWithout(NextFrame)
              /\ queued' = queued - (NextFrame.to - NextFrame.from)
              /\ pc' = [pc EXCEPT ![t] = "native"]
              /\ UNCHANGED <<accepted, nativeVars, est, pump, pumpAgain, userVars>>
          BY <3>2, <2>5, ConstantTypes DEF Take
        <4>2. NextFrame \in Frame
          BY <3>2, NextFrameFacts
        <4>3. queue' \in Seq(Pending)
          BY <3>2, <4>1, QueueWithoutFacts
        <4>4. queued' \in Int
          BY <4>1, <4>2 DEF Frame
        <4>5. hand' \in Seq(Frame) /\ Len(hand') <= 1
          BY <4>1, <4>2
        <4>. QED
          BY <4>1, <4>3, <4>4, <4>5
      <3>3. est < HighWater \/ est >= HighWater
        BY ConstantTypes
      <3>. QED
        BY <3>1, <3>2, <3>3, Zenon
    <2>6. CASE NativeSend(t)
      <3>. DEFINE f == hand[1]
      <3>1. hand \in Seq(Frame) /\ hand # <<>>
        BY <2>6 DEF NativeSend, HandInv
      <3>2. f \in Frame
        BY <3>1
      <3>. HIDE DEF f
      <3>3. /\ est' = native' /\ hand' = <<>>
            /\ UNCHANGED <<lowEvent, queueVars, pump, pumpAgain, userVars>>
            /\ \/ /\ native' = native + FrameSize(f)
                  /\ wire' = Append(wire, f)
                  /\ pc' = [pc EXCEPT ![t] = "measure"]
                  /\ UNCHANGED <<chan, closedEvent>>
               \/ /\ chan' = "closed" /\ closedEvent' = TRUE
                  /\ native' = 0
                  /\ pc' = [pc EXCEPT ![t] = "clear"]
                  /\ UNCHANGED wire
               \/ /\ pc' = [pc EXCEPT ![t] = "clear"]
                  /\ UNCHANGED <<chan, closedEvent, native, wire>>
        BY <2>6 DEF NativeSend, f
      <3>4. FrameSize(f) \in Nat
        BY <2>6, ConstantTypes DEF NativeSend, HandInv, f
      <3>5. native' \in Nat /\ est' \in Nat
        BY <3>3, <3>4
      <3>6. wire' \in Seq(Frame)
        <4>1. Append(wire, f) \in Seq(Frame)
          BY <3>2, AppendProperties
        <4>. QED
          BY <3>3, <4>1
      <3>7. /\ chan' \in {"open", "closing", "closed"} /\ closedEvent' \in BOOLEAN
            /\ pc' \in [Threads -> PcLabels]
        BY <3>3
      <3>8. hand' \in Seq(Frame) /\ Len(hand') <= 1
        BY <3>3
      <3>. QED
        BY <3>3, <3>5, <3>6, <3>7, <3>8
    <2>7. CASE Clear(t)
      BY <2>7 DEF Clear, ClearQueue
    <2>8. CASE Abandon(t)
      BY <2>8, AfterPumpLabel DEF Abandon
    <2>9. CASE Unlock(t)
      BY <2>9 DEF Unlock
    <2>10. CASE Recheck(t)
      BY <2>10, AfterPumpLabel DEF Recheck
    <2>. QED
      BY <1>4, <2>1, <2>2, <2>3, <2>4, <2>5, <2>6, <2>7, <2>8, <2>9, <2>10 DEF PumpStep
  <1>5. CASE OnBufferedAmountChange
    BY <1>5 DEF OnBufferedAmountChange
  <1>6. CASE Fire
    BY <1>6 DEF Fire
  <1>7. CASE OnClosed
    <2>1. queue' = <<>> /\ queued' = 0 /\ closedEvent' = FALSE
      BY <1>7 DEF OnClosed, ClearQueue
    <2>2. UNCHANGED <<chan, native, wire, lowEvent, accepted, pumpVars, userVars, pc>>
      BY <1>7 DEF OnClosed
    <2>3. queue' \in Seq(Pending) /\ queued' \in Int
      BY <2>1
    <2>4. closedEvent' \in BOOLEAN
      BY <2>1, Zenon
    <2>. QED
      BY <2>2, <2>3, <2>4
  <1>8. ASSUME NEW t \in Closers, Close(t) PROVE TypeOK'
    BY <1>8 DEF Close
  <1>9. ASSUME NEW t \in Closers, CloserStep(t) PROVE TypeOK'
    <2>1. CASE DrainReadNative(t)
      BY <2>1 DEF DrainReadNative
    <2>2. CASE DrainReadQueue(t)
      BY <2>2 DEF DrainReadQueue
    <2>3. CASE RawClose(t)
      BY <2>3 DEF RawClose
    <2>. QED
      BY <1>9, <2>1, <2>2, <2>3 DEF CloserStep
  <1>10. CASE Drain
    BY <1>10 DEF Drain
  <1>11. CASE CloseDone
    BY <1>11 DEF CloseDone
  <1>12. CASE Break
    BY <1>12 DEF Break
  <1>13. CASE UNCHANGED vars
    BY <1>13 DEF vars
  <1>. QED
    BY <1>1, <1>2, <1>3, <1>4, <1>5, <1>6, <1>7, <1>8, <1>9, <1>10, <1>11, <1>12, <1>13
       DEF Next, SenderStep, Terminated

-----------------------------------------------------------------------------
(* Who may be where.                                                       *)

LEMMA AfterPumpRole ==
    \A t \in Threads :
        /\ AfterPump(t) = "fire" => t = Callback
        /\ AfterPump(t) = "drain" => t \in Closers
        /\ AfterPump(t) \in {"fire", "drain", "idle"}
  BY ThreadsDistinct DEF AfterPump

LEMMA RoleStep ==
    ASSUME TypeOK, RoleInv, [Next]_vars
    PROVE  RoleInv'
  <1>. USE DEF TypeOK, Goto, nativeVars, queueVars, pumpVars, userVars, RoleInv
  <1>1. ASSUME NEW t \in Senders, Send(t) PROVE RoleInv'
    BY <1>1 DEF Send
  <1>2. ASSUME NEW t \in Senders, Push(t) PROVE RoleInv'
    BY <1>2 DEF Push
  <1>3. ASSUME NEW t \in Senders, Arm(t) PROVE RoleInv'
    BY <1>3 DEF Arm
  <1>4. ASSUME NEW t \in Threads, Request(t) PROVE RoleInv'
    BY <1>4 DEF Request
  <1>5. ASSUME NEW t \in Threads, TryLock(t) PROVE RoleInv'
    BY <1>5, AfterPumpRole DEF TryLock
  <1>6. ASSUME NEW t \in Threads, Pass(t) PROVE RoleInv'
    BY <1>6 DEF Pass
  <1>7. ASSUME NEW t \in Threads, Measure(t) PROVE RoleInv'
    BY <1>7 DEF Measure
  <1>8. ASSUME NEW t \in Threads, Take(t) PROVE RoleInv'
    BY <1>8 DEF Take
  <1>9. ASSUME NEW t \in Threads, NativeSend(t) PROVE RoleInv'
    BY <1>9 DEF NativeSend
  <1>10. ASSUME NEW t \in Threads, Clear(t) PROVE RoleInv'
    BY <1>10 DEF Clear, ClearQueue
  <1>11. ASSUME NEW t \in Threads, Abandon(t) PROVE RoleInv'
    BY <1>11, AfterPumpRole DEF Abandon
  <1>12. ASSUME NEW t \in Threads, Unlock(t) PROVE RoleInv'
    BY <1>12 DEF Unlock
  <1>13. ASSUME NEW t \in Threads, Recheck(t) PROVE RoleInv'
    BY <1>13, AfterPumpRole DEF Recheck
  <1>14. CASE OnBufferedAmountChange
    BY <1>14 DEF OnBufferedAmountChange
  <1>15. CASE Fire
    BY <1>15 DEF Fire
  <1>16. CASE OnClosed
    BY <1>16 DEF OnClosed, ClearQueue
  <1>17. ASSUME NEW t \in Closers, Close(t) PROVE RoleInv'
    BY <1>17 DEF Close
  <1>18. ASSUME NEW t \in Closers, DrainReadNative(t) PROVE RoleInv'
    BY <1>18 DEF DrainReadNative
  <1>19. ASSUME NEW t \in Closers, DrainReadQueue(t) PROVE RoleInv'
    BY <1>19 DEF DrainReadQueue
  <1>20. ASSUME NEW t \in Closers, RawClose(t) PROVE RoleInv'
    BY <1>20 DEF RawClose
  <1>21. CASE Drain
    BY <1>21 DEF Drain
  <1>22. CASE CloseDone
    BY <1>22 DEF CloseDone
  <1>23. CASE Break
    BY <1>23 DEF Break
  <1>24. CASE UNCHANGED vars
    BY <1>24 DEF vars
  <1>. QED
    BY <1>1, <1>2, <1>3, <1>4, <1>5, <1>6, <1>7, <1>8, <1>9, <1>10, <1>11, <1>12,
       <1>13, <1>14, <1>15, <1>16, <1>17, <1>18, <1>19, <1>20, <1>21, <1>22, <1>23, <1>24
       DEF Next, SenderStep, PumpStep, CloserStep, Terminated

LEMMA LockStep ==
    ASSUME TypeOK, LockInv, [Next]_vars
    PROVE  LockInv'
  <1>. USE DEF TypeOK, Goto, nativeVars, queueVars, pumpVars, userVars, LockInv, Holding
  <1>1. ASSUME NEW t \in Senders, Send(t) PROVE LockInv'
    BY <1>1 DEF Send
  <1>2. ASSUME NEW t \in Senders, Push(t) PROVE LockInv'
    BY <1>2 DEF Push
  <1>3. ASSUME NEW t \in Senders, Arm(t) PROVE LockInv'
    BY <1>3 DEF Arm
  <1>4. ASSUME NEW t \in Threads, Request(t) PROVE LockInv'
    BY <1>4 DEF Request
  <1>5. ASSUME NEW t \in Threads, TryLock(t) PROVE LockInv'
    BY <1>5, AfterPumpLabel, ThreadsDistinct DEF TryLock
  <1>6. ASSUME NEW t \in Threads, Pass(t) PROVE LockInv'
    BY <1>6 DEF Pass
  <1>7. ASSUME NEW t \in Threads, Measure(t) PROVE LockInv'
    BY <1>7 DEF Measure
  <1>8. ASSUME NEW t \in Threads, Take(t) PROVE LockInv'
    BY <1>8 DEF Take
  <1>9. ASSUME NEW t \in Threads, NativeSend(t) PROVE LockInv'
    BY <1>9 DEF NativeSend
  <1>10. ASSUME NEW t \in Threads, Clear(t) PROVE LockInv'
    BY <1>10 DEF Clear, ClearQueue
  <1>11. ASSUME NEW t \in Threads, Abandon(t) PROVE LockInv'
    BY <1>11, AfterPumpLabel, ThreadsDistinct DEF Abandon
  <1>12. ASSUME NEW t \in Threads, Unlock(t) PROVE LockInv'
    BY <1>12, ThreadsDistinct DEF Unlock
  <1>13. ASSUME NEW t \in Threads, Recheck(t) PROVE LockInv'
    BY <1>13, AfterPumpLabel DEF Recheck
  <1>14. CASE OnBufferedAmountChange
    BY <1>14 DEF OnBufferedAmountChange
  <1>15. CASE Fire
    BY <1>15 DEF Fire
  <1>16. CASE OnClosed
    BY <1>16 DEF OnClosed, ClearQueue
  <1>17. ASSUME NEW t \in Closers, Close(t) PROVE LockInv'
    BY <1>17 DEF Close
  <1>18. ASSUME NEW t \in Closers, DrainReadNative(t) PROVE LockInv'
    BY <1>18 DEF DrainReadNative
  <1>19. ASSUME NEW t \in Closers, DrainReadQueue(t) PROVE LockInv'
    BY <1>19 DEF DrainReadQueue
  <1>20. ASSUME NEW t \in Closers, RawClose(t) PROVE LockInv'
    BY <1>20 DEF RawClose
  <1>21. CASE Drain
    BY <1>21 DEF Drain
  <1>22. CASE CloseDone
    BY <1>22 DEF CloseDone
  <1>23. CASE Break
    BY <1>23 DEF Break
  <1>24. CASE UNCHANGED vars
    BY <1>24 DEF vars
  <1>. QED
    BY <1>1, <1>2, <1>3, <1>4, <1>5, <1>6, <1>7, <1>8, <1>9, <1>10, <1>11, <1>12,
       <1>13, <1>14, <1>15, <1>16, <1>17, <1>18, <1>19, <1>20, <1>21, <1>22, <1>23, <1>24
       DEF Next, SenderStep, PumpStep, CloserStep, Terminated



-----------------------------------------------------------------------------
(* The amounts.                                                            *)

LEMMA QueueStep ==
    ASSUME TypeOK, QueueInv, [Next]_vars
    PROVE  QueueInv'
  <1>. USE DEF TypeOK, Goto, nativeVars, queueVars, pumpVars, userVars, QueueInv
  <1>1. ASSUME NEW t \in Senders, Send(t) PROVE QueueInv'
    BY <1>1 DEF Send
  <1>2. ASSUME NEW t \in Senders, Push(t) PROVE QueueInv'
    <2>1. CASE UNCHANGED queueVars
      BY <2>1
    <2>2. CASE ~UNCHANGED queueVars
      <3>1. PICK size \in Sizes :
               queue' = Append(queue, [msg |-> Len(accepted) + 1, size |-> size,
                                       offset |-> 0])
        BY <1>2, <2>2 DEF Push
      <3>2. size \in Nat
        BY ConstantTypes
      <3>. QED
        BY <3>1, <3>2
    <2>. QED
      BY <2>1, <2>2
  <1>3. ASSUME NEW t \in Senders, Arm(t) PROVE QueueInv'
    BY <1>3 DEF Arm
  <1>4. ASSUME NEW t \in Threads, Request(t) PROVE QueueInv'
    BY <1>4 DEF Request
  <1>5. ASSUME NEW t \in Threads, TryLock(t) PROVE QueueInv'
    BY <1>5 DEF TryLock
  <1>6. ASSUME NEW t \in Threads, Pass(t) PROVE QueueInv'
    BY <1>6 DEF Pass
  <1>7. ASSUME NEW t \in Threads, Measure(t) PROVE QueueInv'
    BY <1>7 DEF Measure
  <1>8. ASSUME NEW t \in Threads, Take(t) PROVE QueueInv'
    <2>1. CASE queue' = queue
      BY <2>1
    <2>2. CASE queue # <<>> /\ queue' = QueueWithout(NextFrame)
      BY <2>2, QueueWithoutFacts
    <2>. QED
      BY <1>8, <2>1, <2>2 DEF Take
  <1>9. ASSUME NEW t \in Threads, NativeSend(t) PROVE QueueInv'
    BY <1>9 DEF NativeSend
  <1>10. ASSUME NEW t \in Threads, Clear(t) PROVE QueueInv'
    BY <1>10 DEF Clear, ClearQueue
  <1>11. ASSUME NEW t \in Threads, Abandon(t) PROVE QueueInv'
    BY <1>11 DEF Abandon
  <1>12. ASSUME NEW t \in Threads, Unlock(t) PROVE QueueInv'
    BY <1>12 DEF Unlock
  <1>13. ASSUME NEW t \in Threads, Recheck(t) PROVE QueueInv'
    BY <1>13 DEF Recheck
  <1>14. CASE OnBufferedAmountChange
    BY <1>14 DEF OnBufferedAmountChange
  <1>15. CASE Fire
    BY <1>15 DEF Fire
  <1>16. CASE OnClosed
    BY <1>16 DEF OnClosed, ClearQueue
  <1>17. ASSUME NEW t \in Closers, Close(t) PROVE QueueInv'
    BY <1>17 DEF Close
  <1>18. ASSUME NEW t \in Closers, DrainReadNative(t) PROVE QueueInv'
    BY <1>18 DEF DrainReadNative
  <1>19. ASSUME NEW t \in Closers, DrainReadQueue(t) PROVE QueueInv'
    BY <1>19 DEF DrainReadQueue
  <1>20. ASSUME NEW t \in Closers, RawClose(t) PROVE QueueInv'
    BY <1>20 DEF RawClose
  <1>21. CASE Drain
    BY <1>21 DEF Drain
  <1>22. CASE CloseDone
    BY <1>22 DEF CloseDone
  <1>23. CASE Break
    BY <1>23 DEF Break
  <1>24. CASE UNCHANGED vars
    BY <1>24 DEF vars
  <1>. QED
    BY <1>1, <1>2, <1>3, <1>4, <1>5, <1>6, <1>7, <1>8, <1>9, <1>10, <1>11, <1>12,
       <1>13, <1>14, <1>15, <1>16, <1>17, <1>18, <1>19, <1>20, <1>21, <1>22, <1>23, <1>24
       DEF Next, SenderStep, PumpStep, CloserStep, Terminated

LEMMA HandStep ==
    ASSUME TypeOK, LockInv, QueueInv, HandInv, [Next]_vars
    PROVE  HandInv'
  <1>. USE DEF TypeOK, Goto, nativeVars, queueVars, pumpVars, userVars, LockInv, Holding, HandInv
  <1>1. ASSUME NEW t \in Senders, Send(t) PROVE HandInv'
    BY <1>1 DEF Send
  <1>2. ASSUME NEW t \in Senders, Push(t) PROVE HandInv'
    BY <1>2 DEF Push
  <1>3. ASSUME NEW t \in Senders, Arm(t) PROVE HandInv'
    BY <1>3 DEF Arm
  <1>4. ASSUME NEW t \in Threads, Request(t) PROVE HandInv'
    BY <1>4 DEF Request
  <1>5. ASSUME NEW t \in Threads, TryLock(t) PROVE HandInv'
    BY <1>5, AfterPumpLabel DEF TryLock
  <1>6. ASSUME NEW t \in Threads, Pass(t) PROVE HandInv'
    BY <1>6 DEF Pass
  <1>7. ASSUME NEW t \in Threads, Measure(t) PROVE HandInv'
    BY <1>7 DEF Measure
  <1>8. ASSUME NEW t \in Threads, Take(t) PROVE HandInv'
    <2>1. CASE hand' = hand /\ pc' = [pc EXCEPT ![t] = "pass"]
      BY <1>8, <2>1 DEF Take
    <2>2. CASE /\ queue # <<>> /\ hand' = <<NextFrame>>
               /\ pc' = [pc EXCEPT ![t] = "native"]
      BY <2>2, NextFrameFacts
    <2>. QED
      BY <1>8, <2>1, <2>2 DEF Take
  <1>9. ASSUME NEW t \in Threads, NativeSend(t) PROVE HandInv'
    <2>1. hand' = <<>> /\ pc[t] = "native" /\ pc'[t] # "native"
      BY <1>9 DEF NativeSend
    <2>2. \A u \in Threads \ {t} : pc'[u] = pc[u] /\ pc[u] # "native"
      BY <1>9 DEF NativeSend
    <2>. QED
      BY <2>1, <2>2
  <1>10. ASSUME NEW t \in Threads, Clear(t) PROVE HandInv'
    BY <1>10 DEF Clear, ClearQueue
  <1>11. ASSUME NEW t \in Threads, Abandon(t) PROVE HandInv'
    BY <1>11, AfterPumpLabel DEF Abandon
  <1>12. ASSUME NEW t \in Threads, Unlock(t) PROVE HandInv'
    BY <1>12 DEF Unlock
  <1>13. ASSUME NEW t \in Threads, Recheck(t) PROVE HandInv'
    BY <1>13, AfterPumpLabel DEF Recheck
  <1>14. CASE OnBufferedAmountChange
    BY <1>14 DEF OnBufferedAmountChange
  <1>15. CASE Fire
    BY <1>15 DEF Fire
  <1>16. CASE OnClosed
    BY <1>16 DEF OnClosed, ClearQueue
  <1>17. ASSUME NEW t \in Closers, Close(t) PROVE HandInv'
    BY <1>17 DEF Close
  <1>18. ASSUME NEW t \in Closers, DrainReadNative(t) PROVE HandInv'
    BY <1>18 DEF DrainReadNative
  <1>19. ASSUME NEW t \in Closers, DrainReadQueue(t) PROVE HandInv'
    BY <1>19 DEF DrainReadQueue
  <1>20. ASSUME NEW t \in Closers, RawClose(t) PROVE HandInv'
    BY <1>20 DEF RawClose
  <1>21. CASE Drain
    BY <1>21 DEF Drain
  <1>22. CASE CloseDone
    BY <1>22 DEF CloseDone
  <1>23. CASE Break
    BY <1>23 DEF Break
  <1>24. CASE UNCHANGED vars
    BY <1>24 DEF vars
  <1>. QED
    BY <1>1, <1>2, <1>3, <1>4, <1>5, <1>6, <1>7, <1>8, <1>9, <1>10, <1>11, <1>12,
       <1>13, <1>14, <1>15, <1>16, <1>17, <1>18, <1>19, <1>20, <1>21, <1>22, <1>23, <1>24
       DEF Next, SenderStep, PumpStep, CloserStep, Terminated

LEMMA EstStep ==
    ASSUME TypeOK, TypeOK', LockInv, EstInv, [Next]_vars
    PROVE  EstInv'
  <1>. USE DEF TypeOK, Goto, nativeVars, queueVars, pumpVars, userVars, LockInv, Holding, EstInv
  <1>1. ASSUME NEW t \in Senders, Send(t) PROVE EstInv'
    BY <1>1 DEF Send
  <1>2. ASSUME NEW t \in Senders, Push(t) PROVE EstInv'
    BY <1>2 DEF Push
  <1>3. ASSUME NEW t \in Senders, Arm(t) PROVE EstInv'
    BY <1>3 DEF Arm
  <1>4. ASSUME NEW t \in Threads, Request(t) PROVE EstInv'
    BY <1>4 DEF Request
  <1>5. ASSUME NEW t \in Threads, TryLock(t) PROVE EstInv'
    BY <1>5, AfterPumpLabel DEF TryLock
  <1>6. ASSUME NEW t \in Threads, Pass(t) PROVE EstInv'
    BY <1>6 DEF Pass
  <1>7. ASSUME NEW t \in Threads, Measure(t) PROVE EstInv'
    BY <1>7 DEF Measure
  <1>8. ASSUME NEW t \in Threads, Take(t) PROVE EstInv'
    BY <1>8, ConstantTypes DEF Take
  <1>9. ASSUME NEW t \in Threads, NativeSend(t) PROVE EstInv'
    <2>1. est' = native' /\ pc[t] = "native" /\ pc'[t] # "native"
      BY <1>9 DEF NativeSend
    <2>2. \A u \in Threads \ {t} : pc'[u] = pc[u] /\ pc[u] # "native"
      BY <1>9 DEF NativeSend
    <2>3. native' \in Nat
      OBVIOUS
    <2>4. native' <= est'
      BY <2>1, <2>3
    <2>. QED
      BY <2>1, <2>2, <2>4
  <1>10. ASSUME NEW t \in Threads, Clear(t) PROVE EstInv'
    BY <1>10 DEF Clear, ClearQueue
  <1>11. ASSUME NEW t \in Threads, Abandon(t) PROVE EstInv'
    BY <1>11, AfterPumpLabel DEF Abandon
  <1>12. ASSUME NEW t \in Threads, Unlock(t) PROVE EstInv'
    BY <1>12 DEF Unlock
  <1>13. ASSUME NEW t \in Threads, Recheck(t) PROVE EstInv'
    BY <1>13, AfterPumpLabel DEF Recheck
  <1>14. CASE OnBufferedAmountChange
    BY <1>14 DEF OnBufferedAmountChange
  <1>15. CASE Fire
    BY <1>15 DEF Fire
  <1>16. CASE OnClosed
    BY <1>16 DEF OnClosed, ClearQueue
  <1>17. ASSUME NEW t \in Closers, Close(t) PROVE EstInv'
    BY <1>17 DEF Close
  <1>18. ASSUME NEW t \in Closers, DrainReadNative(t) PROVE EstInv'
    BY <1>18 DEF DrainReadNative
  <1>19. ASSUME NEW t \in Closers, DrainReadQueue(t) PROVE EstInv'
    BY <1>19 DEF DrainReadQueue
  <1>20. ASSUME NEW t \in Closers, RawClose(t) PROVE EstInv'
    BY <1>20 DEF RawClose
  <1>21. CASE Drain
    BY <1>21 DEF Drain
  <1>22. CASE CloseDone
    BY <1>22 DEF CloseDone
  <1>23. CASE Break
    BY <1>23 DEF Break
  <1>24. CASE UNCHANGED vars
    BY <1>24 DEF vars
  <1>. QED
    BY <1>1, <1>2, <1>3, <1>4, <1>5, <1>6, <1>7, <1>8, <1>9, <1>10, <1>11, <1>12,
       <1>13, <1>14, <1>15, <1>16, <1>17, <1>18, <1>19, <1>20, <1>21, <1>22, <1>23, <1>24
       DEF Next, SenderStep, PumpStep, CloserStep, Terminated

LEMMA RefusedStep ==
    ASSUME TypeOK, RefusedInv, [Next]_vars
    PROVE  RefusedInv'
  <1>. USE DEF TypeOK, Goto, nativeVars, queueVars, pumpVars, userVars, RefusedInv
  <1>1. ASSUME NEW t \in Senders, Send(t) PROVE RefusedInv'
    BY <1>1 DEF Send
  <1>2. ASSUME NEW t \in Senders, Push(t) PROVE RefusedInv'
    BY <1>2 DEF Push
  <1>3. ASSUME NEW t \in Senders, Arm(t) PROVE RefusedInv'
    BY <1>3 DEF Arm
  <1>4. ASSUME NEW t \in Threads, Request(t) PROVE RefusedInv'
    BY <1>4 DEF Request
  <1>5. ASSUME NEW t \in Threads, TryLock(t) PROVE RefusedInv'
    BY <1>5, AfterPumpLabel DEF TryLock
  <1>6. ASSUME NEW t \in Threads, Pass(t) PROVE RefusedInv'
    BY <1>6 DEF Pass
  <1>7. ASSUME NEW t \in Threads, Measure(t) PROVE RefusedInv'
    BY <1>7 DEF Measure
  <1>8. ASSUME NEW t \in Threads, Take(t) PROVE RefusedInv'
    BY <1>8 DEF Take
  <1>9. ASSUME NEW t \in Threads, NativeSend(t) PROVE RefusedInv'
    BY <1>9 DEF NativeSend
  <1>10. ASSUME NEW t \in Threads, Clear(t) PROVE RefusedInv'
    BY <1>10 DEF Clear, ClearQueue
  <1>11. ASSUME NEW t \in Threads, Abandon(t) PROVE RefusedInv'
    BY <1>11, AfterPumpLabel DEF Abandon
  <1>12. ASSUME NEW t \in Threads, Unlock(t) PROVE RefusedInv'
    BY <1>12 DEF Unlock
  <1>13. ASSUME NEW t \in Threads, Recheck(t) PROVE RefusedInv'
    BY <1>13, AfterPumpLabel DEF Recheck
  <1>14. CASE OnBufferedAmountChange
    BY <1>14 DEF OnBufferedAmountChange
  <1>15. CASE Fire
    BY <1>15 DEF Fire
  <1>16. CASE OnClosed
    BY <1>16 DEF OnClosed, ClearQueue
  <1>17. ASSUME NEW t \in Closers, Close(t) PROVE RefusedInv'
    BY <1>17 DEF Close
  <1>18. ASSUME NEW t \in Closers, DrainReadNative(t) PROVE RefusedInv'
    BY <1>18 DEF DrainReadNative
  <1>19. ASSUME NEW t \in Closers, DrainReadQueue(t) PROVE RefusedInv'
    BY <1>19 DEF DrainReadQueue
  <1>20. ASSUME NEW t \in Closers, RawClose(t) PROVE RefusedInv'
    BY <1>20 DEF RawClose
  <1>21. CASE Drain
    BY <1>21 DEF Drain
  <1>22. CASE CloseDone
    BY <1>22 DEF CloseDone
  <1>23. CASE Break
    BY <1>23 DEF Break
  <1>24. CASE UNCHANGED vars
    BY <1>24 DEF vars
  <1>. QED
    BY <1>1, <1>2, <1>3, <1>4, <1>5, <1>6, <1>7, <1>8, <1>9, <1>10, <1>11, <1>12,
       <1>13, <1>14, <1>15, <1>16, <1>17, <1>18, <1>19, <1>20, <1>21, <1>22, <1>23, <1>24
       DEF Next, SenderStep, PumpStep, CloserStep, Terminated

-----------------------------------------------------------------------------
(* The order of the frames.                                                *)

LEMMA NumberStep ==
    ASSUME TypeOK, QueueInv, NumberInv, [Next]_vars
    PROVE  NumberInv'
  <1>. USE DEF TypeOK, Goto, nativeVars, queueVars, pumpVars, userVars, NumberInv
  <1>1. ASSUME NEW t \in Senders, Send(t) PROVE NumberInv'
    BY <1>1 DEF Send
  <1>2. ASSUME NEW t \in Senders, Push(t) PROVE NumberInv'
    <2>1. CASE UNCHANGED queueVars
      BY <1>2, <2>1 DEF Push
    <2>2. CASE ~UNCHANGED queueVars
      <3>. DEFINE p(size) == [msg |-> Len(accepted) + 1, size |-> size, offset |-> 0]
      <3>1. PICK size \in Sizes :
               /\ accepted' = Append(accepted, size)
               /\ queue' = Append(queue, p(size))
               /\ UNCHANGED <<nativeVars, pumpVars>>
        BY <1>2, <2>2 DEF Push
      <3>2. size \in Nat
        BY ConstantTypes
      <3>3. /\ p(size).msg = Len(accepted) + 1 /\ p(size).size = size
            /\ p(size).offset = 0
        OBVIOUS
      <3>. HIDE DEF p
      <3>4. /\ Len(queue') = Len(queue) + 1 /\ Len(accepted') = Len(accepted) + 1
            /\ \A i \in 1 .. Len(queue) : queue'[i] = queue[i]
            /\ queue'[Len(queue) + 1] = p(size)
            /\ \A m \in 1 .. Len(accepted) : accepted'[m] = accepted[m]
            /\ accepted'[Len(accepted) + 1] = size
        BY <3>1, <3>2
      <3>. DEFINE Fits(i) == /\ queue'[i].msg = Len(accepted') - Len(queue') + i
                             /\ queue'[i].size = accepted'[queue'[i].msg]
                             /\ i > 1 => queue'[i].offset = 0
      <3>5. ASSUME NEW i \in 1 .. Len(queue')
            PROVE  Fits(i)
        <4>1. CASE i = Len(queue) + 1
          BY <4>1, <3>3, <3>4
        <4>2. CASE i \in 1 .. Len(queue)
          <5>1. Len(queue) \in Nat /\ Len(accepted) \in Nat /\ Len(queue) <= Len(accepted)
            OBVIOUS
          <5>2. queue[i].msg = Len(accepted) - Len(queue) + i
            BY <4>2
          <5>3. queue[i].msg \in 1 .. Len(accepted)
            BY <4>2, <5>1, <5>2
          <5>. QED
            <6>1. queue'[i] = queue[i] /\ accepted'[queue[i].msg] = accepted[queue[i].msg]
              BY <4>2, <5>3, <3>4
            <6>2. queue[i].size = accepted[queue[i].msg] /\ (i > 1 => queue[i].offset = 0)
              BY <4>2
            <6>3. Len(accepted') - Len(queue') + i = Len(accepted) - Len(queue) + i
              BY <5>1, <3>4
            <6>. QED
              BY <5>2, <6>1, <6>2, <6>3
        <4>3. Len(queue) \in Nat /\ Len(queue') = Len(queue) + 1
          BY <3>4
        <4>4. i = Len(queue) + 1 \/ i \in 1 .. Len(queue)
          BY <4>3
        <4>. HIDE DEF Fits
        <4>. QED
          BY <4>1, <4>2, <4>4, Zenon
      <3>6. Len(queue') <= Len(accepted')
        <4>1. Len(queue) \in Nat /\ Len(accepted) \in Nat /\ Len(queue) <= Len(accepted)
          OBVIOUS
        <4>. QED
          BY <3>4, <4>1
      <3>. HIDE DEF TypeOK
      <3>. QED
        BY <3>5, <3>6
    <2>. QED
      BY <2>1, <2>2
  <1>3. ASSUME NEW t \in Senders, Arm(t) PROVE NumberInv'
    BY <1>3 DEF Arm
  <1>4. ASSUME NEW t \in Threads, Request(t) PROVE NumberInv'
    BY <1>4 DEF Request
  <1>5. ASSUME NEW t \in Threads, TryLock(t) PROVE NumberInv'
    BY <1>5 DEF TryLock
  <1>6. ASSUME NEW t \in Threads, Pass(t) PROVE NumberInv'
    BY <1>6 DEF Pass
  <1>7. ASSUME NEW t \in Threads, Measure(t) PROVE NumberInv'
    BY <1>7 DEF Measure
  <1>8. ASSUME NEW t \in Threads, Take(t) PROVE NumberInv'
    <2>1. CASE UNCHANGED queueVars
      BY <2>1
    <2>2. CASE queue # <<>> /\ queue' = QueueWithout(NextFrame) /\ UNCHANGED accepted
      <3>1. NextFrame.to \in Nat
        BY <2>2, NextFrameFacts DEF Frame
      <3>2. CASE NextFrame.more
        <4>1. queue' = [queue EXCEPT ![1].offset = NextFrame.to]
          BY <2>2, <3>2 DEF QueueWithout
        <4>2. /\ Len(queue') = Len(queue)
              /\ \A i \in 2 .. Len(queue) : queue'[i] = queue[i]
              /\ queue'[1].msg = queue[1].msg /\ queue'[1].size = queue[1].size
          BY <4>1, <3>1, <2>2, HeadAdvances, PendingAdvances
        <4>3. ASSUME NEW i \in 1 .. Len(queue')
              PROVE  /\ queue'[i].msg = Len(accepted') - Len(queue') + i
                     /\ queue'[i].size = accepted'[queue'[i].msg]
                     /\ i > 1 => queue'[i].offset = 0
          <5>1. CASE i = 1
            BY <5>1, <4>2, <2>2
          <5>2. CASE i \in 2 .. Len(queue)
            BY <5>2, <4>2, <2>2
          <5>. QED
            BY <5>1, <5>2, <4>2
        <4>. QED
          BY <4>2, <4>3, <2>2
      <3>3. CASE ~NextFrame.more
        <4>1. queue' = Tail(queue)
          BY <2>2, <3>3 DEF QueueWithout
        <4>2. /\ Len(queue') = Len(queue) - 1
              /\ \A i \in 1 .. Len(queue') : queue'[i] = queue[i + 1]
          BY <4>1, <2>2
        <4>3. ASSUME NEW i \in 1 .. Len(queue')
              PROVE  /\ queue'[i].msg = Len(accepted') - Len(queue') + i
                     /\ queue'[i].size = accepted'[queue'[i].msg]
                     /\ i > 1 => queue'[i].offset = 0
          <5>1. i + 1 \in 1 .. Len(queue) /\ queue'[i] = queue[i + 1] /\ i + 1 > 1
            BY <4>2
          <5>2. /\ queue[i + 1].msg = Len(accepted) - Len(queue) + (i + 1)
                /\ queue[i + 1].size = accepted[queue[i + 1].msg]
                /\ queue[i + 1].offset = 0
            BY <5>1
          <5>3. Len(accepted) - Len(queue) + (i + 1) = Len(accepted) - Len(queue') + i
            <6>1. Len(queue) \in Nat /\ Len(accepted) \in Nat
              OBVIOUS
            <6>. QED
              BY <6>1, <4>2
          <5>4. accepted' = accepted
            BY <2>2
          <5>. QED
            BY <5>1, <5>2, <5>3, <5>4
        <4>4. Len(queue') <= Len(accepted')
          <5>1. Len(queue) \in Nat /\ Len(accepted) \in Nat /\ Len(queue) <= Len(accepted)
            OBVIOUS
          <5>. QED
            BY <5>1, <4>2, <2>2
        <4>. QED
          BY <4>3, <4>4
      <3>. QED
        BY <3>2, <3>3
    <2>. QED
      BY <1>8, <2>1, <2>2 DEF Take
  <1>9. ASSUME NEW t \in Threads, NativeSend(t) PROVE NumberInv'
    BY <1>9 DEF NativeSend
  <1>10. ASSUME NEW t \in Threads, Clear(t) PROVE NumberInv'
    BY <1>10 DEF Clear, ClearQueue
  <1>11. ASSUME NEW t \in Threads, Abandon(t) PROVE NumberInv'
    BY <1>11 DEF Abandon
  <1>12. ASSUME NEW t \in Threads, Unlock(t) PROVE NumberInv'
    BY <1>12 DEF Unlock
  <1>13. ASSUME NEW t \in Threads, Recheck(t) PROVE NumberInv'
    BY <1>13 DEF Recheck
  <1>14. CASE OnBufferedAmountChange
    BY <1>14 DEF OnBufferedAmountChange
  <1>15. CASE Fire
    BY <1>15 DEF Fire
  <1>16. CASE OnClosed
    BY <1>16 DEF OnClosed, ClearQueue
  <1>17. ASSUME NEW t \in Closers, Close(t) PROVE NumberInv'
    BY <1>17 DEF Close
  <1>18. ASSUME NEW t \in Closers, DrainReadNative(t) PROVE NumberInv'
    BY <1>18 DEF DrainReadNative
  <1>19. ASSUME NEW t \in Closers, DrainReadQueue(t) PROVE NumberInv'
    BY <1>19 DEF DrainReadQueue
  <1>20. ASSUME NEW t \in Closers, RawClose(t) PROVE NumberInv'
    BY <1>20 DEF RawClose
  <1>21. CASE Drain
    BY <1>21 DEF Drain
  <1>22. CASE CloseDone
    BY <1>22 DEF CloseDone
  <1>23. CASE Break
    BY <1>23 DEF Break
  <1>24. CASE UNCHANGED vars
    BY <1>24 DEF vars
  <1>. QED
    BY <1>1, <1>2, <1>3, <1>4, <1>5, <1>6, <1>7, <1>8, <1>9, <1>10, <1>11, <1>12,
       <1>13, <1>14, <1>15, <1>16, <1>17, <1>18, <1>19, <1>20, <1>21, <1>22, <1>23, <1>24
       DEF Next, SenderStep, PumpStep, CloserStep, Terminated

LEMMA JoinStep ==
    ASSUME TypeOK, LockInv, QueueInv, HandInv, RefusedInv, NumberInv, JoinInv, [Next]_vars
    PROVE  JoinInv'
  <1>. USE DEF TypeOK, Goto, nativeVars, queueVars, pumpVars, userVars, JoinInv, QueueAt, WireEnd, Ends
  <1>1. ASSUME NEW t \in Senders, Send(t) PROVE JoinInv'
    BY <1>1 DEF Send
  <1>2. ASSUME NEW t \in Senders, Push(t) PROVE JoinInv'
    <2>1. CASE UNCHANGED queueVars
      BY <1>2, <2>1 DEF Push
    <2>2. CASE ~UNCHANGED queueVars
      <3>. DEFINE p(size) == [msg |-> Len(accepted) + 1, size |-> size, offset |-> 0]
      <3>1. PICK size \in Sizes :
               /\ accepted' = Append(accepted, size)
               /\ queue' = Append(queue, p(size))
               /\ UNCHANGED <<nativeVars, pumpVars>>
        BY <1>2, <2>2 DEF Push
      <3>2. size \in Nat
        BY ConstantTypes
      <3>3. QueueAt' = QueueAt
        <4>1. CASE queue = <<>>
          <5>1. queue'[1] = p(size) /\ queue' # <<>>
            BY <4>1, <3>1
          <5>. QED
            BY <4>1, <5>1
        <4>2. CASE queue # <<>>
          <5>1. queue'[1] = queue[1] /\ queue' # <<>>
            BY <4>2, <3>1
          <5>. QED
            BY <4>2, <5>1
        <4>. QED
          BY <4>1, <4>2
      <3>4. ASSUME NEW f \in Frame, Ends(f) PROVE Ends(f)'
        <4>1. f.msg \in 1 .. Len(accepted)
          BY <3>4 DEF Frame
        <4>2. Len(accepted') = Len(accepted) + 1 /\ accepted'[f.msg] = accepted[f.msg]
          BY <4>1, <3>1, <3>2
        <4>. QED
          BY <4>1, <4>2, <3>4
      <3>5. hand # <<>> => hand[1] \in Frame
        OBVIOUS
      <3>. HIDE DEF QueueAt, Ends
      <3>. QED
        BY <3>1, <3>3, <3>4, <3>5
    <2>. QED
      BY <2>1, <2>2
  <1>3. ASSUME NEW t \in Senders, Arm(t) PROVE JoinInv'
    BY <1>3 DEF Arm
  <1>4. ASSUME NEW t \in Threads, Request(t) PROVE JoinInv'
    BY <1>4 DEF Request
  <1>5. ASSUME NEW t \in Threads, TryLock(t) PROVE JoinInv'
    BY <1>5 DEF TryLock
  <1>6. ASSUME NEW t \in Threads, Pass(t) PROVE JoinInv'
    BY <1>6 DEF Pass
  <1>7. ASSUME NEW t \in Threads, Measure(t) PROVE JoinInv'
    BY <1>7 DEF Measure
  <1>8. ASSUME NEW t \in Threads, Take(t) PROVE JoinInv'
    <2>1. CASE UNCHANGED <<queueVars, hand>>
      BY <1>8, <2>1 DEF Take
    <2>2. CASE /\ queue # <<>> /\ hand' = <<NextFrame>> /\ queue' = QueueWithout(NextFrame)
               /\ UNCHANGED <<accepted, nativeVars>>
      <3>1. hand = <<>>
        BY <1>8 DEF Take, HandInv, LockInv, Holding
      <3>2. /\ NextFrame \in Frame /\ NextFrame.to \in Nat
            /\ NextFrame.to <= queue[1].size
            /\ NextFrame.more <=> NextFrame.to < queue[1].size
        BY <2>2, NextFrameFacts DEF Frame
      <3>3. /\ NextFrame.msg = queue[1].msg /\ NextFrame.from = queue[1].offset
            /\ 1 \in 1 .. Len(queue)
        BY <2>2 DEF NextFrame
      <3>4. /\ queue[1].msg = Len(accepted) - Len(queue) + 1
            /\ queue[1].size = accepted[queue[1].msg]
        BY <3>3 DEF NumberInv
      <3>5. Ends(NextFrame)
        <4>1. NextFrame.msg <= Len(accepted) /\ accepted[NextFrame.msg] = queue[1].size
          BY <3>3, <3>4
        <4>2. CASE NextFrame.more
          BY <4>1, <4>2, <3>2
        <4>3. CASE ~NextFrame.more
          <5>1. queue[1].size \in Nat
            <6>1. queue[1] \in Pending
              BY <3>3
            <6>. QED
              BY <6>1 DEF Pending
          <5>2. NextFrame.to = accepted[NextFrame.msg]
            BY <4>1, <4>3, <5>1, <3>2
          <5>. QED
            BY <4>1, <4>3, <5>2
        <4>. QED
          BY <4>2, <4>3
      <3>6. After(NextFrame) = QueueAt'
        <4>1. CASE NextFrame.more
          <5>1. queue' = [queue EXCEPT ![1].offset = NextFrame.to]
            BY <2>2, <4>1 DEF QueueWithout
          <5>2. /\ Len(queue') = Len(queue)
                /\ queue'[1].msg = queue[1].msg /\ queue'[1].offset = NextFrame.to
            BY <5>1, <2>2, <3>2, HeadAdvances, PendingAdvances
          <5>. QED
            BY <4>1, <5>2, <3>3 DEF After
        <4>2. CASE ~NextFrame.more /\ Len(queue) = 1
          <5>1. queue' = <<>>
            <6>1. queue' = Tail(queue) /\ queue \in Seq(Pending)
              BY <2>2, <4>2 DEF QueueWithout
            <6>. QED
              BY <2>2, <4>2, <6>1, TailFacts, Zenon
          <5>. QED
            BY <4>2, <5>1, <3>3, <3>4, <2>2 DEF After
        <4>3. CASE ~NextFrame.more /\ Len(queue) > 1
          <5>1. queue' # <<>> /\ queue'[1] = queue[2] /\ 2 \in 1 .. Len(queue)
            <6>1. queue' = Tail(queue) /\ queue \in Seq(Pending)
              BY <2>2, <4>3 DEF QueueWithout
            <6>. QED
              BY <2>2, <4>3, <6>1, TailFacts, Zenon
          <5>2. queue[2].msg = queue[1].msg + 1 /\ queue[2].offset = 0
            BY <3>4, <5>1 DEF NumberInv
          <5>. QED
            BY <4>3, <5>1, <5>2, <3>3 DEF After
        <4>. QED
          <5>1. Len(queue) \in Nat /\ Len(queue) # 0
            BY <2>2
          <5>2. Len(queue) = 1 \/ Len(queue) > 1
            BY <5>1, OneOrMore, Zenon
          <5>. QED
            BY <4>1, <4>2, <4>3, <5>2
      <3>7. hand' # <<>> /\ hand'[1] = NextFrame /\ UNCHANGED <<accepted, nativeVars>>
        BY <2>2
      <3>8. chan = "open" => WireEnd' = <<NextFrame.msg, NextFrame.from>>
        BY <2>2, <3>1, <3>3
      <3>. HIDE DEF QueueAt, WireEnd, TypeOK
      <3>9. chan = "open" => /\ WireEnd' = <<hand'[1].msg, hand'[1].from>>
                             /\ After(hand'[1]) = QueueAt'
        BY <3>6, <3>7, <3>8
      <3>10. Ends(hand[1])'
        BY <3>5, <3>7
      <3>. QED
        BY <3>7, <3>9, <3>10 DEF After
    <2>. QED
      BY <1>8, <2>1, <2>2 DEF Take
  <1>9. ASSUME NEW t \in Threads, NativeSend(t) PROVE JoinInv'
    <2>1. CASE chan' # "open"
      BY <2>1
    <2>2. CASE chan' = "open"
      <3>1. /\ chan = "open" /\ hand' = <<>> /\ wire' = Append(wire, hand[1])
            /\ UNCHANGED queueVars
        BY <1>9, <2>2 DEF NativeSend
      <3>2. hand # <<>> /\ hand[1] \in Frame
        BY <1>9 DEF NativeSend, HandInv
      <3>3. wire' # <<>> /\ wire'[Len(wire')] = hand[1]
        BY <3>1, <3>2
      <3>4. WireEnd' = After(hand[1]) /\ QueueAt' = QueueAt
        BY <3>1, <3>3 DEF After
      <3>. QED
        BY <3>1, <3>2, <3>4
    <2>. QED
      BY <2>1, <2>2
  <1>10. ASSUME NEW t \in Threads, Clear(t) PROVE JoinInv'
    BY <1>10 DEF Clear, RefusedInv
  <1>11. ASSUME NEW t \in Threads, Abandon(t) PROVE JoinInv'
    BY <1>11 DEF Abandon
  <1>12. ASSUME NEW t \in Threads, Unlock(t) PROVE JoinInv'
    BY <1>12 DEF Unlock
  <1>13. ASSUME NEW t \in Threads, Recheck(t) PROVE JoinInv'
    BY <1>13 DEF Recheck
  <1>14. CASE OnBufferedAmountChange
    BY <1>14 DEF OnBufferedAmountChange
  <1>15. CASE Fire
    BY <1>15 DEF Fire
  <1>16. CASE OnClosed
    BY <1>16 DEF OnClosed, RefusedInv
  <1>17. ASSUME NEW t \in Closers, Close(t) PROVE JoinInv'
    BY <1>17 DEF Close
  <1>18. ASSUME NEW t \in Closers, DrainReadNative(t) PROVE JoinInv'
    BY <1>18 DEF DrainReadNative
  <1>19. ASSUME NEW t \in Closers, DrainReadQueue(t) PROVE JoinInv'
    BY <1>19 DEF DrainReadQueue
  <1>20. ASSUME NEW t \in Closers, RawClose(t) PROVE JoinInv'
    BY <1>20 DEF RawClose
  <1>21. CASE Drain
    BY <1>21 DEF Drain
  <1>22. CASE CloseDone
    BY <1>22 DEF CloseDone
  <1>23. CASE Break
    BY <1>23 DEF Break
  <1>24. CASE UNCHANGED vars
    BY <1>24 DEF vars
  <1>. QED
    BY <1>1, <1>2, <1>3, <1>4, <1>5, <1>6, <1>7, <1>8, <1>9, <1>10, <1>11, <1>12,
       <1>13, <1>14, <1>15, <1>16, <1>17, <1>18, <1>19, <1>20, <1>21, <1>22, <1>23, <1>24
       DEF Next, SenderStep, PumpStep, CloserStep, Terminated

LEMMA WireStep ==
    ASSUME TypeOK, HandInv, JoinInv, WireInOrder, [Next]_vars
    PROVE  WireInOrder'
  <1>. USE DEF TypeOK, Goto, nativeVars, queueVars, pumpVars, userVars, WireInOrder
  <1>1. ASSUME NEW t \in Senders, Send(t) PROVE WireInOrder'
    BY <1>1 DEF Send
  <1>2. ASSUME NEW t \in Senders, Push(t) PROVE WireInOrder'
    <2>1. CASE UNCHANGED queueVars
      BY <1>2, <2>1 DEF Push
    <2>2. CASE ~UNCHANGED queueVars
      <3>. DEFINE p(size) == [msg |-> Len(accepted) + 1, size |-> size, offset |-> 0]
      <3>1. PICK size \in Sizes :
               /\ accepted' = Append(accepted, size)
               /\ queue' = Append(queue, p(size))
               /\ UNCHANGED <<nativeVars, pumpVars>>
        BY <1>2, <2>2 DEF Push
      <3>2. size \in Nat
        BY ConstantTypes
      <3>3. \A m \in 1 .. Len(accepted) : accepted'[m] = accepted[m]
        BY <3>1, <3>2
      <3>4. Len(accepted') = Len(accepted) + 1 /\ wire' = wire
        BY <3>1, <3>2
      <3>5. ASSUME NEW i \in 1 .. Len(wire)
            PROVE  wire[i].msg \in 1 .. Len(accepted)
        <4>1. wire[i] \in Frame
          OBVIOUS
        <4>2. wire[i].msg \in Nat \ {0}
          BY <4>1 DEF Frame
        <4>3. wire[i].msg <= Len(accepted)
          OBVIOUS
        <4>. QED
          BY <4>2, <4>3
      <3>6. ASSUME NEW i \in 1 .. Len(wire)
            PROVE  /\ wire[i].msg <= Len(accepted')
                   /\ accepted'[wire[i].msg] = accepted[wire[i].msg]
        BY <3>3, <3>4, <3>5
      <3>. QED
        BY <3>4, <3>6 DEF Follows
    <2>. QED
      BY <2>1, <2>2
  <1>3. ASSUME NEW t \in Senders, Arm(t) PROVE WireInOrder'
    BY <1>3 DEF Arm
  <1>4. ASSUME NEW t \in Threads, Request(t) PROVE WireInOrder'
    BY <1>4 DEF Request
  <1>5. ASSUME NEW t \in Threads, TryLock(t) PROVE WireInOrder'
    BY <1>5 DEF TryLock
  <1>6. ASSUME NEW t \in Threads, Pass(t) PROVE WireInOrder'
    BY <1>6 DEF Pass
  <1>7. ASSUME NEW t \in Threads, Measure(t) PROVE WireInOrder'
    BY <1>7 DEF Measure
  <1>8. ASSUME NEW t \in Threads, Take(t) PROVE WireInOrder'
    BY <1>8 DEF Take
  <1>9. ASSUME NEW t \in Threads, NativeSend(t) PROVE WireInOrder'
    <2>1. CASE UNCHANGED wire
      BY <1>9, <2>1 DEF NativeSend
    <2>2. CASE chan = "open" /\ wire' = Append(wire, hand[1])
      <3>. DEFINE f == hand[1]
      <3>1. hand # <<>> /\ f \in Frame
        BY <1>9 DEF NativeSend, HandInv
      <3>2. WireEnd = <<f.msg, f.from>> /\ Ends(f)
        BY <2>2, <3>1 DEF JoinInv
      <3>. HIDE DEF f
      <3>3. /\ Len(wire') = Len(wire) + 1
            /\ wire'[Len(wire')] = f
            /\ \A i \in 1 .. Len(wire) : wire'[i] = wire[i]
        BY <2>2, <3>1 DEF f
      <3>4. wire = <<>> => f.msg = 1 /\ f.from = 0
        BY <3>1, <3>2 DEF WireEnd
      <3>5. wire # <<>> => Follows(wire[Len(wire)], f)
        BY <3>1, <3>2 DEF WireEnd, After, Follows
      <3>6. accepted' = accepted
        BY <1>9, Zenon DEF NativeSend
      <3>7. wire' # <<>> => wire'[1].msg = 1 /\ wire'[1].from = 0
        <4>1. CASE wire = <<>>
          <5>1. wire'[1] = f
            BY <4>1, <3>3
          <5>. QED
            BY <4>1, <5>1, <3>4
        <4>2. CASE wire # <<>>
          <5>1. wire'[1] = wire[1]
            BY <4>2, <3>3
          <5>. QED
            BY <4>2, <5>1
        <4>. QED
          BY <4>1, <4>2
      <3>8. \A i \in 1 .. Len(wire') - 1 : Follows(wire'[i], wire'[i + 1])
        <4>. TAKE i \in 1 .. Len(wire') - 1
        <4>1. CASE i = Len(wire)
          BY <4>1, <3>3, <3>5
        <4>2. CASE i # Len(wire)
          <5>1. i \in 1 .. Len(wire) - 1 /\ wire'[i] = wire[i] /\ wire'[i + 1] = wire[i + 1]
            BY <4>2, <3>3
          <5>2. Follows(wire[i], wire[i + 1])
            BY <5>1
          <5>. QED
            BY <5>1, <5>2
        <4>. QED
          BY <4>1, <4>2
      <3>9. \A i \in 1 .. Len(wire') :
               /\ wire'[i].msg <= Len(accepted')
               /\ IF wire'[i].more THEN wire'[i].to < accepted'[wire'[i].msg]
                                   ELSE wire'[i].to = accepted'[wire'[i].msg]
        <4>. TAKE i \in 1 .. Len(wire')
        <4>1. CASE i = Len(wire')
          BY <4>1, <3>2, <3>3, <3>6 DEF Ends
        <4>2. CASE i # Len(wire')
          <5>1. i \in 1 .. Len(wire) /\ wire'[i] = wire[i]
            BY <4>2, <3>3
          <5>. QED
            BY <5>1, <3>6
        <4>. QED
          BY <4>1, <4>2
      <3>. QED
        BY <3>7, <3>8, <3>9 DEF Follows
    <2>. QED
      BY <1>9, <2>1, <2>2 DEF NativeSend
  <1>10. ASSUME NEW t \in Threads, Clear(t) PROVE WireInOrder'
    BY <1>10 DEF Clear, ClearQueue
  <1>11. ASSUME NEW t \in Threads, Abandon(t) PROVE WireInOrder'
    BY <1>11 DEF Abandon
  <1>12. ASSUME NEW t \in Threads, Unlock(t) PROVE WireInOrder'
    BY <1>12 DEF Unlock
  <1>13. ASSUME NEW t \in Threads, Recheck(t) PROVE WireInOrder'
    BY <1>13 DEF Recheck
  <1>14. CASE OnBufferedAmountChange
    BY <1>14 DEF OnBufferedAmountChange
  <1>15. CASE Fire
    BY <1>15 DEF Fire
  <1>16. CASE OnClosed
    BY <1>16 DEF OnClosed, ClearQueue
  <1>17. ASSUME NEW t \in Closers, Close(t) PROVE WireInOrder'
    BY <1>17 DEF Close
  <1>18. ASSUME NEW t \in Closers, DrainReadNative(t) PROVE WireInOrder'
    BY <1>18 DEF DrainReadNative
  <1>19. ASSUME NEW t \in Closers, DrainReadQueue(t) PROVE WireInOrder'
    BY <1>19 DEF DrainReadQueue
  <1>20. ASSUME NEW t \in Closers, RawClose(t) PROVE WireInOrder'
    BY <1>20 DEF RawClose
  <1>21. CASE Drain
    BY <1>21 DEF Drain
  <1>22. CASE CloseDone
    BY <1>22 DEF CloseDone
  <1>23. CASE Break
    BY <1>23 DEF Break
  <1>24. CASE UNCHANGED vars
    BY <1>24 DEF vars
  <1>. QED
    BY <1>1, <1>2, <1>3, <1>4, <1>5, <1>6, <1>7, <1>8, <1>9, <1>10, <1>11, <1>12,
       <1>13, <1>14, <1>15, <1>16, <1>17, <1>18, <1>19, <1>20, <1>21, <1>22, <1>23, <1>24
       DEF Next, SenderStep, PumpStep, CloserStep, Terminated

LEMMA StrandedStep ==
    ASSUME TypeOK, LockInv, RefusedInv, NoStrandedQueue, [Next]_vars
    PROVE  NoStrandedQueue'
  <1>. USE DEF TypeOK, Goto, nativeVars, queueVars, pumpVars, userVars, LockInv, Holding, RefusedInv, NoStrandedQueue, WillLook
  <1>1. ASSUME NEW t \in Senders, Send(t) PROVE NoStrandedQueue'
    BY <1>1 DEF Send
  <1>2. ASSUME NEW t \in Senders, Push(t) PROVE NoStrandedQueue'
    BY <1>2 DEF Push
  <1>3. ASSUME NEW t \in Senders, Arm(t) PROVE NoStrandedQueue'
    BY <1>3 DEF Arm
  <1>4. ASSUME NEW t \in Threads, Request(t) PROVE NoStrandedQueue'
    BY <1>4 DEF Request
  <1>5. ASSUME NEW t \in Threads, TryLock(t) PROVE NoStrandedQueue'
    BY <1>5, AfterPumpLabel DEF TryLock
  <1>6. ASSUME NEW t \in Threads, Pass(t) PROVE NoStrandedQueue'
    BY <1>6 DEF Pass
  <1>7. ASSUME NEW t \in Threads, Measure(t) PROVE NoStrandedQueue'
    BY <1>7, ConstantTypes, ConfigValid DEF Measure
  <1>8. ASSUME NEW t \in Threads, Take(t) PROVE NoStrandedQueue'
    <2>1. CASE pc' = [pc EXCEPT ![t] = "native"]
      BY <1>8, <2>1 DEF Take
    <2>2. CASE queue = <<>> /\ UNCHANGED queue
      BY <2>2
    <2>3. CASE /\ est >= HighWater /\ pc' = [pc EXCEPT ![t] = "pass"]
               /\ UNCHANGED queue
      <3>1. UNCHANGED <<nativeVars, est, pumpAgain>> /\ pc[t] = "take"
        BY <1>8 DEF Take
      <3>2. ~(est < HighWater)
        BY <2>3, ConstantTypes
      <3>3. ASSUME NEW u \in Threads, WillLook(u) PROVE WillLook(u)'
        BY <2>3, <3>1, <3>2, <3>3
      <3>. QED
        BY <2>3, <3>1, <3>3, Zenon DEF WillLook
    <2>. QED
      BY <1>8, <2>1, <2>2, <2>3 DEF Take
  <1>9. ASSUME NEW t \in Threads, NativeSend(t) PROVE NoStrandedQueue'
    BY <1>9 DEF NativeSend
  <1>10. ASSUME NEW t \in Threads, Clear(t) PROVE NoStrandedQueue'
    BY <1>10 DEF Clear, ClearQueue
  <1>11. ASSUME NEW t \in Threads, Abandon(t) PROVE NoStrandedQueue'
    BY <1>11, AfterPumpLabel DEF Abandon
  <1>12. ASSUME NEW t \in Threads, Unlock(t) PROVE NoStrandedQueue'
    BY <1>12 DEF Unlock
  <1>13. ASSUME NEW t \in Threads, Recheck(t) PROVE NoStrandedQueue'
    BY <1>13, AfterPumpLabel DEF Recheck
  <1>14. CASE OnBufferedAmountChange
    <2>1. CASE native <= LowWater
      BY <1>14, <2>1 DEF OnBufferedAmountChange
    <2>2. CASE native > LowWater
      BY <1>14, <2>2 DEF OnBufferedAmountChange
    <2>. QED
      BY <2>1, <2>2, ConstantTypes
  <1>15. CASE Fire
    BY <1>15 DEF Fire
  <1>16. CASE OnClosed
    BY <1>16 DEF OnClosed, ClearQueue
  <1>17. ASSUME NEW t \in Closers, Close(t) PROVE NoStrandedQueue'
    BY <1>17 DEF Close
  <1>18. ASSUME NEW t \in Closers, DrainReadNative(t) PROVE NoStrandedQueue'
    BY <1>18 DEF DrainReadNative
  <1>19. ASSUME NEW t \in Closers, DrainReadQueue(t) PROVE NoStrandedQueue'
    BY <1>19 DEF DrainReadQueue
  <1>20. ASSUME NEW t \in Closers, RawClose(t) PROVE NoStrandedQueue'
    BY <1>20 DEF RawClose
  <1>21. CASE Drain
    BY <1>21 DEF Drain
  <1>22. CASE CloseDone
    BY <1>22 DEF CloseDone
  <1>23. CASE Break
    BY <1>23 DEF Break
  <1>24. CASE UNCHANGED vars
    BY <1>24 DEF vars
  <1>. QED
    BY <1>1, <1>2, <1>3, <1>4, <1>5, <1>6, <1>7, <1>8, <1>9, <1>10, <1>11, <1>12,
       <1>13, <1>14, <1>15, <1>16, <1>17, <1>18, <1>19, <1>20, <1>21, <1>22, <1>23, <1>24
       DEF Next, SenderStep, PumpStep, CloserStep, Terminated
-----------------------------------------------------------------------------
(* The theorems.                                                           *)

LEMMA InvInit == Init => IInv
  <1>. SUFFICES ASSUME Init PROVE IInv
    OBVIOUS
  <1>1. TypeOK
    BY TypeInit
  <1>2. RoleInv /\ LockInv
    BY ThreadsDistinct DEF Init, RoleInv, LockInv, Holding
  <1>3. QueueInv /\ HandInv /\ NumberInv /\ RefusedInv
    BY DEF Init, QueueInv, HandInv, NumberInv, RefusedInv
  <1>4. EstInv
    BY ConstantTypes DEF Init, EstInv
  <1>5. JoinInv
    BY DEF Init, JoinInv, WireEnd, QueueAt
  <1>6. WireInOrder
    BY DEF Init, WireInOrder
  <1>. QED
    BY <1>1, <1>2, <1>3, <1>4, <1>5, <1>6 DEF IInv

LEMMA InvStep == IInv /\ [Next]_vars => IInv'
  <1>. SUFFICES ASSUME IInv, [Next]_vars PROVE IInv'
    OBVIOUS
  <1>1. /\ TypeOK /\ RoleInv /\ LockInv /\ QueueInv /\ HandInv /\ EstInv /\ RefusedInv
        /\ NumberInv /\ JoinInv /\ WireInOrder
    BY DEF IInv
  <1>2. TypeOK'
    BY <1>1, TypeStep
  <1>3. RoleInv' /\ LockInv'
    BY <1>1, RoleStep, LockStep
  <1>4. QueueInv' /\ HandInv'
    BY <1>1, QueueStep, HandStep
  <1>5. EstInv' /\ RefusedInv'
    BY <1>1, <1>2, EstStep, RefusedStep
  <1>6. NumberInv' /\ JoinInv'
    BY <1>1, NumberStep, JoinStep
  <1>7. WireInOrder'
    BY <1>1, WireStep
  <1>. QED
    BY <1>2, <1>3, <1>4, <1>5, <1>6, <1>7 DEF IInv

LEMMA Inductive == Spec => []IInv
  BY InvInit, InvStep, PTL DEF Spec

\* Every variable keeps its type, whatever the configuration and the threads:
\* `queue` and `hand` hold well-formed frames at every step of every pump.
THEOREM TypeCorrect == Spec => []TypeOK
  <1>1. IInv => TypeOK
    BY DEF IInv
  <1>. QED
    BY <1>1, Inductive, PTL

\* A configuration that SendConfig::validate accepts keeps the pump from ever
\* overfilling libwebrtc's buffer (Chunked::native_est).
THEOREM NoOverfill == Spec => []NeverOverfills
  <1>1. IInv => NeverOverfills
    <2>. SUFFICES ASSUME IInv, NEW t \in Threads, pc[t] = "native"
                  PROVE  native + FrameSize(hand[1]) <= NativeLimit
      BY DEF NeverOverfills
    <2>1. native <= est /\ est < HighWater /\ FrameSize(hand[1]) \in 1 .. ChunkSize
      BY DEF IInv, EstInv, HandInv
    <2>2. native \in Nat /\ est \in Nat
      BY DEF IInv, TypeOK
    <2>. QED
      BY <2>1, <2>2, ConfigValid
  <1>. QED
    BY <1>1, Inductive, PTL

\* However the pumps and the senders interleave, the frames libwebrtc took are
\* the accepted messages in order, each contiguous (SendQueue::next_frame, pump).
THEOREM FramesInOrder == Spec => []WireInOrder
  <1>1. IInv => WireInOrder
    BY DEF IInv
  <1>. QED
    BY <1>1, Inductive, PTL

\* No queued message is ever left to itself on an open channel (pump,
\* dc_on_buffered_amount_low): somebody will look at it again.
THEOREM NothingStranded == Spec => []NoStrandedQueue
  <1>1. Init => NoStrandedQueue
    BY DEF Init, NoStrandedQueue
  <1>2. IInv /\ NoStrandedQueue /\ [Next]_vars => NoStrandedQueue'
    BY StrandedStep DEF IInv
  <1>. QED
    BY <1>1, <1>2, Inductive, PTL DEF Spec

=============================================================================
