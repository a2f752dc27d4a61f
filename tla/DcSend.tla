------------------------------- MODULE DcSend -------------------------------
(***************************************************************************)
(* The sending half of one chunked data channel: the send queue            *)
(* (reactor-webrtc-dc-chunking, send.rs), the pump that moves its frames to *)
(* the native channel, and the calls that reach both: `send`, `close` with  *)
(* its drain, and the native callbacks (peer_connection.rs).               *)
(*                                                                         *)
(* A thread is between two steps wherever the code takes or releases a      *)
(* lock, reads or writes an atomic, or calls libwebrtc.  The locals of the  *)
(* thread inside the pump are `seen` and `hand`.  A message is its number   *)
(* in the order `send` accepted it, and a frame is the range of payload     *)
(* bytes it carries; the bytes themselves are left out.                     *)
(*                                                                         *)
(* The channel has already decided that it is chunked and has its observer  *)
(* registered; how it gets there is another module's subject.               *)
(***************************************************************************)
EXTENDS Integers, Sequences, FiniteSets

CONSTANTS
    Senders,          \* application threads that call send
    Callback,         \* the thread libwebrtc runs this channel's callbacks on
    Closers,          \* application threads that call close, once each
    NoThread,         \* nobody holds the pump
    Sizes,            \* payload sizes the senders try
    Calls,            \* bound: calls of send one sender makes
    ChunkSize,        \* SendConfig::chunk_size, frame size with its header
    LowWater,         \* SendConfig::low_water
    HighWater,        \* SendConfig::high_water
    MaxMessageSize,   \* SendConfig::max_message_size
    QueueLimit,       \* SendConfig::queue_limit
    NativeLimit,      \* libwebrtc's send buffer (NATIVE_SEND_BUFFER_LIMIT)
    UserLow           \* the caller's on_buffered_amount_low threshold

Threads == Senders \cup Closers \cup {Callback}

\* SendConfig::validate: the only configurations a SendQueue is built with.
ASSUME ConfigValid ==
    /\ {ChunkSize, LowWater, HighWater, MaxMessageSize, QueueLimit, NativeLimit, UserLow}
         \subseteq Nat
    /\ ChunkSize >= 2
    /\ LowWater < HighWater
    /\ HighWater <= NativeLimit - ChunkSize
    /\ QueueLimit >= MaxMessageSize

ASSUME ThreadsDistinct ==
    /\ Senders \cap Closers = {}
    /\ Callback \notin Senders \cup Closers
    /\ NoThread \notin Threads

ASSUME WorkloadValid == Sizes \subseteq Nat /\ Calls \in Nat

VARIABLES
    chan,         \* native state of the channel: "open", "closing" or "closed"
    native,       \* libwebrtc's buffered amount, frame headers included
    wire,         \* history: the frames libwebrtc accepted, in order
    lowEvent,     \* some OnBufferedAmountChange has not been delivered yet
    closedEvent,  \* the Closed transition has not been delivered yet
    queue,        \* SendQueue::pending
    queued,       \* SendQueue::queued
    est,          \* Chunked::native_est; the pump's `buffered` once it has measured
    pump,         \* holder of Chunked::pump, or NoThread
    pumpAgain,    \* Chunked::pump_again
    armed,        \* Chunked::user_low_armed
    pc,           \* where each thread is
    seen,         \* the native amount each drain's buffered_amount() has read
    hand,         \* the frame the pump took and has not handed over: <<>> or <<f>>
    accepted,     \* history: the sizes send accepted, in queue order
    budget,       \* bound: calls of send each sender has left
    promised,     \* history: messages accepted when each close was called, counted
                  \* only if every send had returned by then
    verdict       \* history: what the drain in each close returned

nativeVars == <<chan, native, wire, lowEvent, closedEvent>>
queueVars  == <<queue, queued, accepted>>
pumpVars   == <<est, pump, pumpAgain, hand>>
userVars   == <<armed, seen, budget, promised, verdict>>
vars       == <<nativeVars, queueVars, pumpVars, userVars, pc>>

\* u64::MAX: above every buffered amount.
UNKNOWN == NativeLimit + 1

Frame   == [msg : Nat \ {0}, from : Nat, to : Nat, more : BOOLEAN]
Pending == [msg : Nat \ {0}, size : Nat, offset : Nat]

\* A frame is one header byte and its payload.
FrameSize(f) == 1 + f.to - f.from

Min2(a, b) == IF a <= b THEN a ELSE b

Goto(t, label) == pc' = [pc EXCEPT ![t] = label]

\* Where pump() returns to.
AfterPump(t) ==
    CASE t = Callback -> "fire"
      [] t \in Closers  -> "drain"
      [] OTHER          -> "idle"

-----------------------------------------------------------------------------
(* The send queue, under its lock.                                         *)

\* SendQueue::push refuses a message that is too large or would overfill it.
PushRefused(size) == size > MaxMessageSize \/ queued + size > QueueLimit

\* Mutant: the header byte is counted into the offset as well.
NextFrame_CountsHeaderTwice ==
    LET head == Head(queue)
    IN [msg |-> head.msg, from |-> head.offset - 1, to |-> head.offset, more |-> FALSE]

\* Mutant: the last piece is not cut to what the message has left.
NextFrame_NeverCut ==
    LET head == Head(queue)
        end  == head.offset + ChunkSize - 1
    IN [msg |-> head.msg, from |-> head.offset, to |-> end, more |-> end < head.size]

\* SendQueue::next_frame on a nonempty queue: the next piece of its head.
NextFrame ==
    LET head == Head(queue)
        take == Min2(ChunkSize - 1, head.size - head.offset)
    IN [msg  |-> head.msg, from |-> head.offset, to |-> head.offset + take,
        more |-> head.offset + take < head.size]

\* Mutant: a message leaves the queue with its first frame.
QueueWithout_PopsEarly(f) == Tail(queue)

\* What next_frame leaves behind after handing out f.
QueueWithout(f) ==
    IF f.more THEN [queue EXCEPT ![1].offset = f.to] ELSE Tail(queue)

\* Mutant: the byte count survives.
ClearQueue_KeepsCount == queue' = <<>> /\ UNCHANGED queued

\* SendQueue::clear.
ClearQueue == queue' = <<>> /\ queued' = 0

-----------------------------------------------------------------------------
(* send(): check the state, push under the queue's lock, arm, pump.        *)

Send(t) ==
    /\ pc[t] = "idle"
    /\ budget[t] > 0
    /\ budget' = [budget EXCEPT ![t] = @ - 1]
    /\ Goto(t, IF chan = "open" THEN "push" ELSE "idle")
    /\ UNCHANGED <<nativeVars, queueVars, pumpVars, armed, seen, promised, verdict>>

Push(t) ==
    /\ pc[t] = "push"
    /\ \E size \in Sizes :
         \/ /\ PushRefused(size)
            /\ Goto(t, "idle")
            /\ UNCHANGED queueVars
         \/ /\ ~PushRefused(size)
            /\ accepted' = Append(accepted, size)
            /\ queue' = Append(queue, [msg |-> Len(accepted) + 1, size |-> size, offset |-> 0])
            /\ queued' = queued + size
            /\ Goto(t, "arm")
    /\ UNCHANGED <<nativeVars, pumpVars, userVars>>

Arm(t) ==
    /\ pc[t] = "arm"
    /\ armed' = TRUE
    /\ Goto(t, "request")
    /\ UNCHANGED <<nativeVars, queueVars, pumpVars, seen, budget, promised, verdict>>

-----------------------------------------------------------------------------
(* pump(): ask, try the lock, and serve requests while there is room.      *)

Request(t) ==
    /\ pc[t] = "request"
    /\ pumpAgain' = TRUE
    /\ Goto(t, "try")
    /\ UNCHANGED <<nativeVars, queueVars, est, pump, hand, userVars>>

TryLock(t) ==
    /\ pc[t] = "try"
    /\ \/ /\ pump = NoThread
          /\ pump' = t
          /\ Goto(t, "pass")
       \/ /\ pump # NoThread
          /\ Goto(t, AfterPump(t))
          /\ UNCHANGED pump
    /\ UNCHANGED <<nativeVars, queueVars, est, pumpAgain, hand, userVars>>

\* while pump_again.swap(false)
Pass(t) ==
    /\ pc[t] = "pass"
    /\ pumpAgain' = FALSE
    /\ Goto(t, IF pumpAgain THEN "measure" ELSE "unlock")
    /\ UNCHANGED <<nativeVars, queueVars, est, pump, hand, userVars>>

\* Mutant: an amount up to the high-water mark is trusted.
Measure_TrustsHigh(t) ==
    /\ pc[t] = "measure"
    /\ est' = IF est <= HighWater THEN est ELSE native
    /\ Goto(t, "take")
    /\ UNCHANGED <<nativeVars, queueVars, pump, pumpAgain, hand, userVars>>

\* The last send's reading while it is at most trust_below (the low-water
\* mark), otherwise a fresh one from libwebrtc.
Measure(t) ==
    /\ pc[t] = "measure"
    /\ est' = IF est <= LowWater THEN est ELSE native
    /\ Goto(t, "take")
    /\ UNCHANGED <<nativeVars, queueVars, pump, pumpAgain, hand, userVars>>

\* Mutant: frames are taken up to the native limit itself.
Room_ToTheLimit == est < NativeLimit

\* while buffered < high_water
Room == est < HighWater

\* next_frame, against the amount read before the queue's lock was taken.
Take(t) ==
    /\ pc[t] = "take"
    /\ \/ /\ ~Room \/ queue = <<>>
          /\ Goto(t, "pass")
          /\ UNCHANGED <<queueVars, hand>>
       \/ /\ Room /\ queue # <<>>
          /\ hand' = <<NextFrame>>
          /\ queue' = QueueWithout(NextFrame)
          /\ queued' = queued - (NextFrame.to - NextFrame.from)
          /\ Goto(t, "native")
          /\ UNCHANGED accepted
    /\ UNCHANGED <<nativeVars, est, pump, pumpAgain, userVars>>

\* send_measured: one trip to the network thread, which also reads the amount
\* the pump keeps as native_est.  libwebrtc refuses a frame on a channel that
\* is not open, and one that would overfill its buffer; the second closes it.
NativeSend(t) ==
    /\ pc[t] = "native"
    /\ \/ /\ chan = "open"
          /\ native + FrameSize(hand[1]) <= NativeLimit
          /\ native' = native + FrameSize(hand[1])
          /\ wire' = Append(wire, hand[1])
          /\ Goto(t, "measure")
          /\ UNCHANGED <<chan, closedEvent>>
       \/ /\ chan = "open"
          /\ native + FrameSize(hand[1]) > NativeLimit
          /\ chan' = "closed" /\ closedEvent' = TRUE
          /\ native' = 0
          /\ Goto(t, "clear")
          /\ UNCHANGED wire
       \/ /\ chan # "open"
          /\ Goto(t, "clear")
          /\ UNCHANGED <<chan, closedEvent, native, wire>>
    /\ est' = native'
    /\ hand' = <<>>
    /\ UNCHANGED <<lowEvent, queueVars, pump, pumpAgain, userVars>>

\* A refused frame: drop the queue and leave, without looking at pump_again.
Clear(t) ==
    /\ pc[t] = "clear"
    /\ ClearQueue
    /\ Goto(t, "abandon")
    /\ UNCHANGED <<nativeVars, accepted, pumpVars, userVars>>

Abandon(t) ==
    /\ pc[t] = "abandon"
    /\ pump' = NoThread
    /\ Goto(t, AfterPump(t))
    /\ UNCHANGED <<nativeVars, queueVars, est, pumpAgain, hand, userVars>>

Unlock(t) ==
    /\ pc[t] = "unlock"
    /\ pump' = NoThread
    /\ Goto(t, "recheck")
    /\ UNCHANGED <<nativeVars, queueVars, est, pumpAgain, hand, userVars>>

\* Mutant: the last look at the flag is missing.
Recheck_NeverLooks(t) ==
    /\ pc[t] = "recheck"
    /\ Goto(t, AfterPump(t))
    /\ UNCHANGED <<nativeVars, queueVars, pumpVars, userVars>>

\* A request that arrived after the last pass is this thread's to serve.
Recheck(t) ==
    /\ pc[t] = "recheck"
    /\ Goto(t, IF pumpAgain THEN "request" ELSE AfterPump(t))
    /\ UNCHANGED <<nativeVars, queueVars, pumpVars, userVars>>

PumpStep(t) ==
    \/ Request(t) \/ TryLock(t) \/ Pass(t) \/ Measure(t) \/ Take(t) \/ NativeSend(t)
    \/ Clear(t) \/ Abandon(t) \/ Unlock(t) \/ Recheck(t)

-----------------------------------------------------------------------------
(* The native callbacks, one at a time on the callback thread.             *)

\* Mutant: the event is passed on, but nobody pumps.
OnBufferedAmountChange_NoPump ==
    /\ pc[Callback] = "idle"
    /\ lowEvent
    /\ lowEvent' \in BOOLEAN
    /\ Goto(Callback, IF native <= LowWater THEN "fire" ELSE "idle")
    /\ UNCHANGED <<chan, native, wire, closedEvent, queueVars, pumpVars, userVars>>

\* However many events wait, each does the same and looks only at the amount it
\* finds, so one flag stands for them and stays up while another may remain.
\* OnBufferedAmountChange passes the event on when the amount it reads is at
\* most the native threshold; dc_on_buffered_amount_low then pumps.
OnBufferedAmountChange ==
    /\ pc[Callback] = "idle"
    /\ lowEvent
    /\ lowEvent' \in BOOLEAN
    /\ Goto(Callback, IF native <= LowWater THEN "request" ELSE "idle")
    /\ UNCHANGED <<chan, native, wire, closedEvent, queueVars, pumpVars, userVars>>

\* maybe_fire_user_low.  Its two reads and its swap are one step here: only
\* `armed` depends on them.
Fire ==
    /\ pc[Callback] = "fire"
    /\ armed' = (armed /\ native + queued > UserLow)
    /\ Goto(Callback, "idle")
    /\ UNCHANGED <<nativeVars, queueVars, pumpVars, seen, budget, promised, verdict>>

\* dc_on_state_change(Closed).
OnClosed ==
    /\ pc[Callback] = "idle"
    /\ closedEvent
    /\ closedEvent' = FALSE
    /\ ClearQueue
    /\ UNCHANGED <<chan, native, wire, lowEvent, accepted, pumpVars, userVars, pc>>

-----------------------------------------------------------------------------
(* close(): drain, then the native close.                                  *)

Close(t) ==
    /\ pc[t] = "idle"
    /\ promised' = [promised EXCEPT
                       ![t] = IF \A s \in Senders : pc[s] = "idle" THEN Len(accepted) ELSE 0]
    /\ Goto(t, "drain")
    /\ UNCHANGED <<nativeVars, queueVars, pumpVars, armed, seen, budget, verdict>>

DrainReadNative(t) ==
    /\ pc[t] = "drain"
    /\ seen' = [seen EXCEPT ![t] = native]
    /\ Goto(t, "drainQueue")
    /\ UNCHANGED <<nativeVars, queueVars, pumpVars, armed, budget, promised, verdict>>

\* Mutant: only the native buffer is asked.
Buffered_NativeOnly(t) == seen[t]

\* Chunked::buffered_amount, the native half read before.
Buffered(t) == seen[t] + queued

\* Nothing buffered: drained.  Otherwise give up when the channel is not open
\* or the timeout has passed, and pump again when neither holds.
DrainReadQueue(t) ==
    /\ pc[t] = "drainQueue"
    /\ seen' = [seen EXCEPT ![t] = 0]
    /\ \/ /\ Buffered(t) = 0
          /\ verdict' = [verdict EXCEPT ![t] = "drained"]
          /\ Goto(t, "close")
       \/ /\ Buffered(t) > 0
          /\ verdict' = [verdict EXCEPT ![t] = "gaveUp"]
          /\ Goto(t, "close")
       \/ /\ Buffered(t) > 0
          /\ chan = "open"
          /\ Goto(t, "request")
          /\ UNCHANGED verdict
    /\ UNCHANGED <<nativeVars, queueVars, pumpVars, armed, budget, promised>>

RawClose(t) ==
    /\ pc[t] = "close"
    /\ chan' = IF chan = "open" THEN "closing" ELSE chan
    /\ Goto(t, "done")
    /\ UNCHANGED <<native, wire, lowEvent, closedEvent, queueVars, pumpVars, userVars>>

-----------------------------------------------------------------------------
(* libwebrtc, from how src/ uses it.                                       *)

\* SCTP takes bytes out of the buffer and reports that the amount changed.
Drain ==
    /\ native > 0
    /\ \E n \in 0 .. native - 1 : native' = n
    /\ lowEvent' = TRUE
    /\ UNCHANGED <<chan, wire, closedEvent, queueVars, pumpVars, userVars, pc>>

\* A closing channel closes once what it had buffered is gone.
CloseDone ==
    /\ chan = "closing"
    /\ native = 0
    /\ chan' = "closed"
    /\ closedEvent' = TRUE
    /\ UNCHANGED <<native, wire, lowEvent, queueVars, pumpVars, userVars, pc>>

\* The peer or the transport ends the channel.
Break ==
    /\ chan # "closed"
    /\ chan' = "closed"
    /\ native' = 0
    /\ closedEvent' = TRUE
    /\ UNCHANGED <<wire, lowEvent, queueVars, pumpVars, userVars, pc>>

-----------------------------------------------------------------------------

Init ==
    /\ chan = "open" /\ native = 0 /\ wire = <<>>
    /\ lowEvent = FALSE /\ closedEvent = FALSE
    /\ queue = <<>> /\ queued = 0 /\ accepted = <<>>
    /\ est = UNKNOWN /\ pump = NoThread /\ pumpAgain = FALSE
    /\ hand = <<>>
    /\ armed = FALSE
    /\ seen = [t \in Closers |-> 0]
    /\ budget = [t \in Senders |-> Calls]
    /\ promised = [t \in Closers |-> 0]
    /\ verdict = [t \in Closers |-> "none"]
    /\ pc = [t \in Threads |-> "idle"]

\* Every call has returned and every event has been delivered.
Quiescent ==
    /\ pc[Callback] = "idle"
    /\ \A t \in Threads \ {Callback} : pc[t] \in {"idle", "done"}
    /\ ~lowEvent /\ ~closedEvent /\ native = 0

Terminated ==
    /\ Quiescent
    /\ \A t \in Closers : pc[t] = "done"
    /\ \A t \in Senders : budget[t] = 0
    /\ UNCHANGED vars

\* What a thread does once it has entered a call.
SenderStep(t)  == Push(t) \/ Arm(t)
CloserStep(t)  == DrainReadNative(t) \/ DrainReadQueue(t) \/ RawClose(t)

Next ==
    \/ \E t \in Senders : Send(t) \/ SenderStep(t)
    \/ \E t \in Threads : PumpStep(t)
    \/ OnBufferedAmountChange \/ Fire \/ OnClosed
    \/ \E t \in Closers : Close(t) \/ CloserStep(t)
    \/ Drain \/ CloseDone \/ Break
    \/ Terminated

Spec == Init /\ [][Next]_vars

-----------------------------------------------------------------------------
(* Fairness: the operating system runs every thread that is inside a call,  *)
(* libwebrtc delivers its events and empties its buffer.  Nobody has to     *)
(* call send or close, and the channel need not break.                      *)

Fairness ==
    /\ \A t \in Senders : WF_vars(SenderStep(t))
    /\ \A t \in Threads : WF_vars(PumpStep(t))
    /\ \A t \in Closers : WF_vars(CloserStep(t))
    /\ WF_vars(OnBufferedAmountChange \/ Fire \/ OnClosed)
    /\ WF_vars(Drain)
    /\ WF_vars(CloseDone)

FairSpec == Spec /\ Fairness

\* Two threads can keep each other in the pump for ever: each asks, finds the
\* lock free just as the other has let it go, and is asked again by the other
\* before its own last look at the flag.  No lock excludes that; it takes a
\* scheduler that meets the same moments every time round, and this excludes it.
Leave(t) == PumpStep(t) /\ pc'[t] = AfterPump(t)

UnhurriedSpec ==
    /\ FairSpec
    /\ \A t \in Threads : SF_vars(Leave(t))
    /\ SF_vars(OnBufferedAmountChange /\ ~lowEvent')    \* finitely many events wait

-----------------------------------------------------------------------------
(* Correctness.                                                            *)

PcLabels ==
    {"idle", "push", "arm", "request", "try", "pass", "measure", "take", "native", "clear",
     "abandon", "unlock", "recheck", "fire", "drain", "drainQueue",
     "close", "done"}

\* Every variable keeps to the values the code's types allow it.
TypeOK ==
    /\ chan \in {"open", "closing", "closed"}
    /\ native \in Nat
    /\ wire \in Seq(Frame)
    /\ lowEvent \in BOOLEAN
    /\ closedEvent \in BOOLEAN
    /\ queue \in Seq(Pending)
    /\ queued \in Int
    /\ accepted \in Seq(Nat)
    /\ est \in Nat
    /\ pump \in Threads \cup {NoThread}
    /\ pumpAgain \in BOOLEAN
    /\ hand \in Seq(Frame) /\ Len(hand) <= 1
    /\ armed \in BOOLEAN
    /\ seen \in [Closers -> Nat]
    /\ budget \in [Senders -> Nat]
    /\ promised \in [Closers -> Nat]
    /\ verdict \in [Closers -> {"none", "drained", "gaveUp"}]
    /\ pc \in [Threads -> PcLabels]

\* The pump never overfills libwebrtc's send buffer, whatever it drains and
\* however old the amount the pump trusted: a frame the pump is about to hand
\* over always fits, so an open channel never closes itself for it
\* (Chunked::native_est, SendConfig::validate).
NeverOverfills ==
    \A t \in Threads :
        pc[t] = "native" => native + FrameSize(hand[1]) <= NativeLimit

\* g may come right after f on the wire.
Follows(f, g) ==
    \/ f.more  /\ g.msg = f.msg     /\ g.from = f.to
    \/ ~f.more /\ g.msg = f.msg + 1 /\ g.from = 0

\* Whoever pumps, and however the pumping threads interleave with the senders
\* and with each other, the frames libwebrtc took are the accepted messages in
\* order, each contiguous and none cut short except the one still leaving.
WireInOrder ==
    /\ wire # <<>> => wire[1].msg = 1 /\ wire[1].from = 0
    /\ \A i \in 1 .. Len(wire) - 1 : Follows(wire[i], wire[i + 1])
    /\ \A i \in 1 .. Len(wire) :
          /\ wire[i].msg <= Len(accepted)
          /\ IF wire[i].more THEN wire[i].to < accepted[wire[i].msg]
                             ELSE wire[i].to = accepted[wire[i].msg]

\* A thread that is certain to look at the queue again.
WillLook(t) ==
    \/ pc[t] \in {"arm", "request", "measure", "native"}
    \/ pc[t] = "take" /\ Room
    \/ pumpAgain /\ pc[t] \in {"try", "pass", "take", "unlock", "recheck"}

\* No wakeup is lost between the pump's flag, its lock and the native event:
\* while an open channel has something queued, a thread is about to pump it,
\* or the native buffer is still above the low-water mark and its draining
\* will raise the event that does, or that event is on its way.
NoStrandedQueue ==
    chan = "open" /\ queue # <<>> =>
        \/ \E t \in Threads : WillLook(t)
        \/ native > LowWater
        \/ lowEvent

Handed(m) == \E i \in 1 .. Len(wire) : wire[i].msg = m /\ ~wire[i].more

\* A drain that reports success, on a channel still open, has left no message
\* with payload that was accepted before it behind, except one whose last
\* frame another thread's pump is holding.
DrainedUpToHand ==
    \A t \in Closers : chan = "open" /\ verdict[t] = "drained" =>
        \A m \in 1 .. promised[t] :
            \/ accepted[m] = 0
            \/ Handed(m)
            \/ hand # <<>> /\ hand[1].msg = m /\ ~hand[1].more

\* close's documentation: a channel that its own close, after a drain that
\* reported success, is now closing has handed over every message accepted
\* before the call.
CloseNotCutShort ==
    \A t \in Closers : chan = "closing" /\ verdict[t] = "drained" =>
        \A m \in 1 .. promised[t] : Handed(m)

\* Every message accepted leaves whole, or the channel stops being open.
EveryMessageLeaves ==
    \A m \in 1 .. Calls * Cardinality(Senders) :
        m <= Len(accepted) ~> Handed(m) \/ chan # "open"

\* A drain ends even when its timeout never passes, once the threads that pump
\* do get out of the pump.
DrainEnds == \A t \in Closers : pc[t] = "drain" ~> pc[t] = "done"

-----------------------------------------------------------------------------
(* The bytes, each in one place.                                           *)

Total(s) ==
    LET sum[i \in 0 .. Len(s)] == IF i = 0 THEN 0 ELSE sum[i - 1] + s[i]
    IN  sum[Len(s)]

Payload(frames) == Total([i \in DOMAIN frames |-> frames[i].to - frames[i].from])
Remaining       == Total([i \in DOMAIN queue |-> queue[i].size - queue[i].offset])

\* SendQueue::queued is the payload the queue still holds, and until the
\* channel stops being open every accepted byte is on the wire, in the pump's
\* hand or in the queue, and in one of them only.
BytesAccounted ==
    /\ queued = Remaining
    /\ chan = "open" => Payload(wire) + Payload(hand) + queued = Total(accepted)

-----------------------------------------------------------------------------
(* The sending half implements the message stream its callers are promised. *)

\* The sizes of the messages that are whole on the wire, in wire order.
Wholes(frames) ==
    LET sizes[i \in 0 .. Len(frames)] ==
            IF i = 0 THEN <<>>
            ELSE IF frames[i].more THEN sizes[i - 1]
            ELSE Append(sizes[i - 1], frames[i].to)
    IN  sizes[Len(frames)]

Stream == INSTANCE DcStream WITH
    handed <- Wholes(wire),
    open   <- chan = "open"

StreamSpec == Stream!StreamSpec

=============================================================================
