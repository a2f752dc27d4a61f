----------------------------- MODULE DcReceive -----------------------------
(***************************************************************************)
(* The receiving half of one chunked data channel: the reassembler          *)
(* (reactor-webrtc-dc-chunking, recv.rs), the native callbacks that feed it, *)
(* the caller's on_message handler with the messages held until there is    *)
(* one, and the notices a handler raises from inside itself                 *)
(* (peer_connection.rs).                                                   *)
(*                                                                         *)
(* libwebrtc runs the native callbacks on one thread.  When that is its      *)
(* network thread (`inline`), a channel method runs there too: a call from   *)
(* inside a callback raises its events on the spot, and a call from another  *)
(* thread waits until the network thread is free.  Otherwise events are      *)
(* posted and methods never wait.                                          *)
(***************************************************************************)
EXTENDS Integers, Sequences, FiniteSets

CONSTANTS
    Callback,         \* the thread of the native callbacks
    Setters,          \* application threads that call on_message, once each
    NoThread,         \* nobody holds the lock
    Sizes,            \* sizes of the peer's messages
    Messages,         \* bound: messages the peer sends
    ChunkSize,        \* the peer's frame size, header included
    MaxMessageSize,   \* this side's DcChunking::max_message_size
    PendingLimit,     \* Chunked::pending_limit
    Calls,            \* bound: calls handlers make
    Modes             \* the modes to start in: see Mode

Threads  == Setters \cup {Callback}
Handlers == 1 .. Cardinality(Setters) + Calls
NoHandler == 0

\* Where the callbacks run, whose handlers call channel methods, and whose
\* handlers set another on_message.
Mode == [inline : BOOLEAN, callers : SUBSET Threads, replacers : SUBSET Threads]

ASSUME ThreadsAssumption ==
    Callback \notin Setters /\ NoThread \notin Threads /\ IsFiniteSet(Setters)
ASSUME SizesAssumption ==
    /\ Sizes \subseteq Nat
    /\ {Messages, ChunkSize, MaxMessageSize, PendingLimit, Calls} \subseteq Nat
    /\ ChunkSize >= 2 /\ PendingLimit >= MaxMessageSize
ASSUME ModesAssumption == Modes \subseteq Mode

VARIABLES
    mode,       \* constant once chosen
    chan,       \* native state of the channel
    events,     \* native events the callback thread has yet to handle, in order
    peer,       \* sizes of the messages the peer has begun, the last one partly sent
    peerAt,     \* bytes of the last one that have arrived; -1 when it is complete
    buf,        \* Reassembler::buf, as the frames it was filled from
    skipping,   \* Reassembler::skipping is set
    slot,       \* ChannelCore::on_message, or NoHandler
    handlers,   \* handlers created so far
    lock,       \* holder of each handler's own lock, or NoThread
    pending,    \* Chunked::pending
    pendingBytes,
    notices,    \* Notices::queue
    delivering, \* Notices::delivering
    pc,         \* where each thread is
    data,       \* the callback thread's message on its way to the handler
    cb,         \* the handler each thread has in hand
    held,       \* on_message's `held`, for each setter
    calls,      \* bound: calls handlers have left
    log,        \* history: <<handler, message>> in the order handlers were called
    crossed,    \* history: a handler was set while messages were being flushed
    dropped,    \* history: messages left out over a limit, with the bytes then held
    raised,     \* history: notices raised, in order
    told        \* history: notices handlers were called for, in order

nativeVars  == <<mode, chan, events, peer, peerAt>>
reassembler == <<buf, skipping>>
slotVars    == <<slot, handlers, lock, pending, pendingBytes, held, dropped, crossed>>
noticeVars  == <<notices, delivering, raised, told>>
threadVars  == <<pc, data, cb, log, calls>>
vars        == <<nativeVars, reassembler, slotVars, noticeVars, threadVars>>

Frame == [msg : Nat \ {0}, from : Nat, to : Nat, more : BOOLEAN]

\* The notices: two state changes, and the send buffer gone low.
Notice == {"closing", "closed", "low"}

\* A native event: a frame, one that no receiver accepts, or one that raises a notice.
FrameEvent(f)  == [type |-> "frame", frame |-> f]
BadFrame       == [type |-> "bad"]
NoticeEvent(n) == [type |-> "notice", notice |-> n]

Goto(t, label) == pc' = [pc EXCEPT ![t] = label]

\* notify inside a handler: the notice waits.
Raise(n) == notices' = Append(notices, n) /\ raised' = Append(raised, n)

\* notify on a callback thread that is delivering nothing: it starts to.
Notify(n) == Raise(n) /\ delivering' = TRUE /\ Goto(Callback, "notices")

-----------------------------------------------------------------------------
(* The peer and libwebrtc, from how src/ uses them: an ordered, reliable     *)
(* channel, and a sender that cuts its messages into frames.               *)

Arrive ==
    /\ chan = "open"
    /\ \E size \in IF peerAt >= 0 THEN {peer[Len(peer)]} ELSE Sizes :
         LET from == IF peerAt >= 0 THEN peerAt ELSE 0
             to   == IF from + ChunkSize - 1 < size THEN from + ChunkSize - 1 ELSE size
         IN /\ peerAt >= 0 \/ Len(peer) < Messages
            /\ peer' = IF peerAt >= 0 THEN peer ELSE Append(peer, size)
            /\ peerAt' = IF to < size THEN to ELSE -1
            /\ events' = Append(events, FrameEvent(
                  [msg |-> Len(peer'), from |-> from, to |-> to, more |-> to < size]))
    /\ UNCHANGED <<mode, chan, reassembler, slotVars, noticeVars, threadVars>>

\* A peer that breaks the format does so between two messages here.
ArriveBad ==
    /\ chan = "open"
    /\ peerAt = -1
    /\ BadFrame \notin {events[i] : i \in DOMAIN events}
    /\ events' = Append(events, BadFrame)
    /\ UNCHANGED <<mode, chan, peer, peerAt, reassembler, slotVars, noticeVars, threadVars>>

\* The channel closes: from this side's close, from the peer, or with the transport.
CloseDone ==
    /\ chan # "closed"
    /\ chan' = "closed"
    /\ events' = Append(events, NoticeEvent("closed"))
    /\ UNCHANGED <<mode, peer, peerAt, reassembler, slotVars, noticeVars, threadVars>>

-----------------------------------------------------------------------------
(* dc_on_message                                                           *)

Payload(fs) == IF fs = <<>> THEN 0 ELSE fs[Len(fs)].to - fs[1].from

\* Mutant: the size already in the buffer is left out of the comparison.
TooLarge_ThisFrame(f) == f.to - f.from > MaxMessageSize

\* Reassembler::push compares what it has, and this frame, with the limit.
TooLarge(f) == Payload(buf) + f.to - f.from > MaxMessageSize

\* Reassembler::push of a frame it accepts, and what becomes of a whole message.
OnFrame ==
    /\ pc[Callback] = "idle"
    /\ events # <<>> /\ Head(events).type = "frame"
    /\ events' = Tail(events)
    /\ LET f     == Head(events).frame
           skips == skipping \/ TooLarge(f)
           got   == IF skips THEN <<>> ELSE Append(buf, f)
       IN \/ /\ f.more
             /\ buf' = got /\ skipping' = skips
             /\ UNCHANGED <<pc, data, dropped, delivering>>
          \/ /\ ~f.more /\ skips
             /\ buf' = <<>> /\ skipping' = FALSE
             /\ dropped' = Append(dropped, [msg |-> f.msg, bytes |-> 0])
             /\ UNCHANGED <<pc, data, delivering>>
          \/ /\ ~f.more /\ ~skips
             /\ buf' = <<>> /\ skipping' = FALSE
             /\ data' = <<got>>
             /\ delivering' = TRUE          \* run_message_handler
             /\ Goto(Callback, "deliver")
             /\ UNCHANGED dropped
    /\ UNCHANGED <<mode, chan, peer, peerAt, slot, handlers, lock, pending, pendingBytes, held,
                   crossed, notices, raised, told, cb, log, calls>>

\* A frame error: forget the partial message and close.  On the network thread
\* the state change is raised inside the close, and nothing is being delivered.
OnBadFrame ==
    /\ pc[Callback] = "idle"
    /\ events # <<>> /\ Head(events).type = "bad"
    /\ buf' = <<>> /\ skipping' = FALSE
    /\ chan' = IF chan = "open" THEN "closing" ELSE chan
    /\ \/ /\ chan = "open" /\ mode.inline
          /\ events' = Tail(events)
          /\ Notify("closing")
       \/ /\ chan = "open" /\ ~mode.inline
          /\ events' = Append(Tail(events), NoticeEvent("closing"))
          /\ UNCHANGED <<notices, raised, delivering, pc>>
       \/ /\ chan # "open"
          /\ events' = Tail(events)
          /\ UNCHANGED <<notices, raised, delivering, pc>>
    /\ UNCHANGED <<mode, peer, peerAt, slotVars, told, data, cb, log, calls>>

\* Mutant: a message is held whatever is held already.
Holds_Always(size) == TRUE

\* pending_bytes + size <= pending_limit
Holds(size) == pendingBytes + size <= PendingLimit

\* deliver: the handler, or hold the message, decided with the slot locked.
Deliver ==
    /\ pc[Callback] = "deliver"
    /\ LET m == data[1]
       IN \/ /\ slot # NoHandler
             /\ cb' = [cb EXCEPT ![Callback] = slot]
             /\ Goto(Callback, "lock")
             /\ UNCHANGED <<pending, pendingBytes, dropped, data>>
          \/ /\ slot = NoHandler
             /\ \/ /\ Holds(Payload(m))
                   /\ pending' = Append(pending, m)
                   /\ pendingBytes' = pendingBytes + Payload(m)
                   /\ UNCHANGED dropped
                \/ /\ ~Holds(Payload(m))
                   /\ dropped' = Append(dropped, [msg |-> m[1].msg, bytes |-> pendingBytes])
                   /\ UNCHANGED <<pending, pendingBytes>>
             /\ data' = <<>>
             /\ Goto(Callback, "notices")
             /\ UNCHANGED cb
    /\ UNCHANGED <<nativeVars, reassembler, slot, handlers, lock, held, crossed, noticeVars, log,
                   calls>>

\* Mutant: the handler runs without its lock.
LockHandler_Skipped ==
    /\ pc[Callback] = "lock"
    /\ log' = Append(log, <<cb[Callback], data[1]>>)
    /\ data' = <<>>
    /\ Goto(Callback, "body")
    /\ UNCHANGED <<nativeVars, reassembler, slotVars, noticeVars, cb, calls>>

\* (*cb.lock().unwrap())(&data, binary)
LockHandler ==
    /\ pc[Callback] = "lock"
    /\ lock[cb[Callback]] = NoThread
    /\ lock' = [lock EXCEPT ![cb[Callback]] = Callback]
    /\ log' = Append(log, <<cb[Callback], data[1]>>)
    /\ data' = <<>>
    /\ Goto(Callback, "body")
    /\ UNCHANGED <<nativeVars, reassembler, slot, handlers, pending, pendingBytes, held, dropped,
                   crossed, noticeVars, cb, calls>>

\* Mutant: the handler's lock outlives its run.
HandlerReturns_KeepsLock ==
    /\ pc[Callback] = "body"
    /\ cb' = [cb EXCEPT ![Callback] = NoHandler]
    /\ Goto(Callback, "notices")
    /\ UNCHANGED <<nativeVars, reassembler, slotVars, noticeVars, data, log, calls>>

\* The message handler returns on the callback thread.
HandlerReturns ==
    /\ pc[Callback] = "body"
    /\ lock' = [lock EXCEPT ![cb[Callback]] = IF @ = Callback THEN NoThread ELSE @]
    /\ cb' = [cb EXCEPT ![Callback] = NoHandler]
    /\ Goto(Callback, "notices")
    /\ UNCHANGED <<nativeVars, reassembler, slot, handlers, pending, pendingBytes, held, dropped,
                   crossed, noticeVars, data, log, calls>>

-----------------------------------------------------------------------------
(* State changes and notices.                                              *)

\* dc_on_state_change and dc_on_buffered_amount_low, from the callback thread's
\* own queue of events.
OnNotice ==
    /\ pc[Callback] = "idle"
    /\ events # <<>> /\ Head(events).type = "notice"
    /\ events' = Tail(events)
    /\ buf' = IF Head(events).notice = "closed" THEN <<>> ELSE buf
    /\ skipping' = (skipping /\ Head(events).notice # "closed")
    /\ Notify(Head(events).notice)
    /\ UNCHANGED <<mode, chan, peer, peerAt, slotVars, told, data, cb, log, calls>>

\* A method run on the network thread for t ends, and with it t's call.
CallReturns(t) == IF pc[t] = "inCall" THEN "flushBody" ELSE pc[t]

\* Mutant: one notice is delivered and the rest left behind.
DeliverNotices_Once ==
    /\ pc[Callback] = "notices"
    /\ delivering' = FALSE
    /\ told' = IF notices = <<>> THEN told ELSE Append(told, Head(notices))
    /\ notices' = IF notices = <<>> THEN notices ELSE Tail(notices)
    /\ pc' = [t \in Threads |-> IF t = Callback THEN "idle" ELSE CallReturns(t)]
    /\ UNCHANGED <<nativeVars, reassembler, slotVars, raised, data, cb, log, calls>>

\* deliver_notices: the next one, or done.
DeliverNotices ==
    /\ pc[Callback] = "notices"
    /\ \/ /\ notices = <<>>
          /\ delivering' = FALSE
          /\ pc' = [t \in Threads |-> IF t = Callback THEN "idle" ELSE CallReturns(t)]
          /\ UNCHANGED <<notices, told>>
       \/ /\ notices # <<>>
          /\ told' = Append(told, Head(notices))
          /\ notices' = Tail(notices)
          /\ Goto(Callback, "notice")
          /\ UNCHANGED delivering
    /\ UNCHANGED <<nativeVars, reassembler, slotVars, raised, data, cb, log, calls>>

NoticeHandlerReturns ==
    /\ pc[Callback] = "notice"
    /\ Goto(Callback, "notices")
    /\ UNCHANGED <<nativeVars, reassembler, slotVars, noticeVars, data, cb, log, calls>>

-----------------------------------------------------------------------------
(* on_message                                                              *)

\* Some thread is handing out held messages.
Flushing == \E t \in Threads : pc[t] \in {"flush", "flushBody", "call", "inCall"}

\* Mutant: what is held stays held.
Publish_LeavesHeld(t) ==
    /\ handlers' = handlers + 1
    /\ slot' = handlers + 1
    /\ held' = held
    /\ UNCHANGED <<pending, pendingBytes>>

\* Under the slot's lock: the new handler in, the held messages out.
Publish(t) ==
    /\ handlers' = handlers + 1
    /\ slot' = handlers + 1
    /\ held' = [held EXCEPT ![t] = pending]
    /\ pending' = <<>> /\ pendingBytes' = 0

\* Where on_message returns to.
AfterFlush(t) == IF t = Callback THEN "notice" ELSE "done"

\* on_message of a thread that is in no message handler: an application thread,
\* or the first on_message from a state-change handler.  The new handler is
\* published locked, and flushed.
OnMessage(t) ==
    /\ \/ /\ t \in Setters /\ pc[t] = "idle"
          /\ UNCHANGED calls
       \/ /\ t = Callback /\ pc[t] = "notice" /\ slot = NoHandler
          /\ t \in mode.replacers
          /\ calls > 0 /\ calls' = calls - 1
    /\ Publish(t)
    /\ crossed' = (crossed \/ Flushing)
    /\ lock' = [lock EXCEPT ![handlers + 1] = t]
    /\ cb' = [cb EXCEPT ![t] = handlers + 1]
    /\ Goto(t, "flush")
    /\ UNCHANGED <<nativeVars, reassembler, dropped, noticeVars, data, log>>

\* for (data, binary) in held
Flush(t) ==
    /\ pc[t] = "flush"
    /\ \/ /\ held[t] # <<>>
          /\ log' = Append(log, <<cb[t], Head(held[t])>>)
          /\ held' = [held EXCEPT ![t] = Tail(@)]
          /\ Goto(t, "flushBody")
          /\ UNCHANGED <<lock, cb>>
       \/ /\ held[t] = <<>>
          /\ lock' = [lock EXCEPT ![cb[t]] = NoThread]
          /\ cb' = [cb EXCEPT ![t] = NoHandler]
          /\ Goto(t, AfterFlush(t))
          /\ UNCHANGED <<held, log>>
    /\ UNCHANGED <<nativeVars, reassembler, slot, handlers, pending, pendingBytes, dropped,
                   crossed, noticeVars, data, calls>>

FlushHandlerReturns(t) ==
    /\ pc[t] = "flushBody"
    /\ Goto(t, "flush")
    /\ UNCHANGED <<nativeVars, reassembler, slotVars, noticeVars, data, cb, log, calls>>

-----------------------------------------------------------------------------
(* What a handler does before it returns.                                  *)

InHandler(t) == pc[t] \in {"body", "notice", "flushBody"}

\* It sets another on_message.  A slot once set stays set, so nothing is held
\* then, and the new handler is published, unlocked and left in one step.
Replace(t) ==
    /\ InHandler(t) /\ t \in mode.replacers
    /\ calls > 0 /\ calls' = calls - 1
    /\ slot # NoHandler
    /\ handlers' = handlers + 1 /\ slot' = handlers + 1
    /\ crossed' = (crossed \/ Flushing)
    /\ UNCHANGED <<nativeVars, reassembler, lock, pending, pendingBytes, held, dropped,
                   noticeVars, pc, data, cb, log>>

\* It closes the channel or sends on it, and libwebrtc finds n to raise inside.
Method(n) ==
    /\ chan = "open"
    /\ n \in {"closing", "low"}
    /\ chan' = IF n = "closing" THEN "closing" ELSE chan

\* From a thread that need not wait: raised at once on the network thread, and
\* posted to the callback thread otherwise.
MethodHere(n) ==
    /\ Method(n)
    /\ \/ mode.inline /\ Raise(n) /\ UNCHANGED events
       \/ ~mode.inline /\ events' = Append(events, NoticeEvent(n)) /\ UNCHANGED <<notices, raised>>

CallMethod(t) ==
    /\ InHandler(t) /\ t \in mode.callers
    /\ calls > 0 /\ calls' = calls - 1
    /\ ~mode.inline \/ t = Callback
    /\ \E n \in Notice : MethodHere(n)
    /\ UNCHANGED <<mode, peer, peerAt, reassembler, slotVars, delivering, told, pc, data, cb, log>>

\* Or it waits for the network thread to run the method.
PostMethod(t) ==
    /\ InHandler(t) /\ t \in mode.callers
    /\ calls > 0 /\ calls' = calls - 1
    /\ mode.inline /\ t # Callback
    /\ Goto(t, "call")
    /\ UNCHANGED <<nativeVars, reassembler, slotVars, noticeVars, data, cb, log>>

\* The network thread is free and runs the method that t waits for: with nothing
\* to raise it is done, and otherwise the handlers run before it returns.
MethodRuns(t) ==
    /\ pc[t] = "call"
    /\ pc[Callback] = "idle"
    /\ \/ /\ Goto(t, "flushBody")
          /\ UNCHANGED <<chan, notices, raised, delivering>>
       \/ \E n \in Notice :
             /\ Method(n)
             /\ Raise(n) /\ delivering' = TRUE
             /\ pc' = [pc EXCEPT ![t] = "inCall", ![Callback] = "notices"]
    /\ UNCHANGED <<mode, events, peer, peerAt, reassembler, slotVars, told, data, cb, log, calls>>

-----------------------------------------------------------------------------

Init ==
    /\ mode \in Modes
    /\ chan = "open" /\ events = <<>>
    /\ peer = <<>> /\ peerAt = -1
    /\ buf = <<>> /\ skipping = FALSE
    /\ slot = NoHandler /\ handlers = 0
    /\ lock = [h \in Handlers |-> NoThread]
    /\ pending = <<>> /\ pendingBytes = 0 /\ dropped = <<>> /\ crossed = FALSE
    /\ held = [t \in Threads |-> <<>>]
    /\ notices = <<>> /\ delivering = FALSE /\ raised = <<>> /\ told = <<>>
    /\ pc = [t \in Threads |-> "idle"]
    /\ data = <<>>
    /\ cb = [t \in Threads |-> NoHandler]
    /\ log = <<>>
    /\ calls = Calls

\* Everything has been handled and the channel is closed.
Terminated ==
    /\ chan = "closed" /\ events = <<>>
    /\ pc[Callback] = "idle"
    /\ \A t \in Setters : pc[t] = "done"
    /\ UNCHANGED vars

CallbackStep ==
    \/ OnFrame \/ OnBadFrame \/ OnNotice
    \/ Deliver \/ LockHandler \/ HandlerReturns \/ DeliverNotices \/ NoticeHandlerReturns

FlushStep(t) == Flush(t) \/ FlushHandlerReturns(t) \/ MethodRuns(t)

HandlerCall(t) == Replace(t) \/ CallMethod(t) \/ PostMethod(t)

Next ==
    \/ Arrive \/ ArriveBad \/ CloseDone
    \/ CallbackStep
    \/ \E t \in Threads : OnMessage(t) \/ FlushStep(t) \/ HandlerCall(t)
    \/ Terminated

Spec == Init /\ [][Next]_vars

\* The callback thread and a thread inside on_message run, and handlers return.
FairSpec == Spec /\ WF_vars(CallbackStep) /\ \A t \in Threads : WF_vars(FlushStep(t))

-----------------------------------------------------------------------------
(* Correctness.                                                            *)

CallbackLabels == {"idle", "deliver", "lock", "body", "notices", "notice", "flush", "flushBody"}
SetterLabels   == {"idle", "flush", "flushBody", "call", "inCall", "done"}

\* Every variable keeps to the values the code's types allow it, and no more
\* than the limit is held.
TypeOK ==
    /\ mode \in Modes
    /\ chan \in {"open", "closing", "closed"}
    /\ \A i \in DOMAIN events :
          \/ events[i] = BadFrame
          \/ events[i].type = "frame" /\ events[i].frame \in Frame
          \/ events[i].type = "notice" /\ events[i].notice \in Notice
    /\ peer \in Seq(Nat) /\ peerAt \in Nat \cup {-1}
    /\ buf \in Seq(Frame) /\ skipping \in BOOLEAN
    /\ slot \in Handlers \cup {NoHandler} /\ handlers \in Nat
    /\ lock \in [Handlers -> Threads \cup {NoThread}]
    /\ pending \in Seq(Seq(Frame)) /\ pendingBytes \in 0 .. PendingLimit
    /\ notices \in Seq(Notice) /\ delivering \in BOOLEAN
    /\ raised \in Seq(Notice) /\ told \in Seq(Notice)
    /\ pc \in [Threads -> CallbackLabels \cup SetterLabels]
    /\ data \in Seq(Seq(Frame)) /\ Len(data) <= 1
    /\ cb \in [Threads -> Handlers \cup {NoHandler}]
    /\ held \in [Threads -> Seq(Seq(Frame))]
    /\ calls \in Nat /\ crossed \in BOOLEAN

\* The frames are one message of the peer, from its first byte to its last.
Whole(m) ==
    /\ m # <<>> /\ m[1].from = 0
    /\ \A i \in 1 .. Len(m) - 1 : m[i].more /\ m[i + 1].msg = m[i].msg /\ m[i + 1].from = m[i].to
    /\ ~m[Len(m)].more /\ m[Len(m)].to = peer[m[1].msg]

Number(m) == m[1].msg

\* Complete messages the callback thread has taken in.
TakenIn ==
    Cardinality({i \in 1 .. Len(peer) : i < Len(peer) \/ peerAt = -1})
      - Cardinality({i \in DOMAIN events : events[i].type = "frame" /\ ~events[i].frame.more})

\* Every message taken in is whole and in one place only: called for, held, in
\* a flush, on its way to the handler, or left out over a limit, and it is left
\* out only over a limit (recv.rs, deliver).
EveryMessageAccounted ==
    LET inHeld == UNION {{<<t, i>> : i \in DOMAIN held[t]} : t \in Threads}
    IN /\ Len(log) + Len(pending) + Cardinality(inHeld) + Len(data) + Len(dropped) = TakenIn
       /\ {Number(log[i][2]) : i \in DOMAIN log} \cup {Number(pending[i]) : i \in DOMAIN pending}
            \cup {Number(held[x[1]][x[2]]) : x \in inHeld}
            \cup {Number(data[i]) : i \in DOMAIN data}
            \cup {dropped[i].msg : i \in DOMAIN dropped}
          = 1 .. TakenIn
       /\ \A i \in DOMAIN log : Whole(log[i][2]) /\ peer[Number(log[i][2])] <= MaxMessageSize
       /\ \A i \in DOMAIN dropped :
             \/ peer[dropped[i].msg] > MaxMessageSize
             \/ dropped[i].bytes + peer[dropped[i].msg] > PendingLimit

InOrder == \A i, j \in DOMAIN log : i < j => Number(log[i][2]) < Number(log[j][2])

\* The handler is called for the messages in the order the peer sent them,
\* across the flush of those that came before it and across its replacement,
\* unless a handler is set while another's flush is still running.
OrderKept == crossed \/ InOrder

\* Once a handler is set nothing is left held (deliver's comment).
NothingLeftHeld == slot # NoHandler => pending = <<>>

\* A notice raised from inside a handler is delivered, once and in turn, by the
\* time the callback thread has nothing to do.
NoticesInTurn ==
    /\ told \o notices = raised
    /\ pc[Callback] = "idle" => notices = <<>> /\ ~delivering

\* The mode in which a flush never waits for the network thread.
FlushNeverWaits == mode.inline => mode.callers \subseteq {Callback}

\* Every native event is handled: no handler, notice or flush keeps the
\* callback thread for ever.
EventsHandled == FlushNeverWaits /\ events # <<>> ~> events = <<>>

\* on_message's comment: the order holds, and the callback can still replace
\* any handler of its channel.
OrderHolds == InOrder

\* docs/configuration.md: with network-thread callbacks a handler may call the
\* channel's own methods; no two threads then wait for each other.
HandlersMayCallTheChannel ==
    \A t \in Setters :
        ~(pc[t] = "call" /\ pc[Callback] = "lock" /\ lock[cb[Callback]] = t)

=============================================================================
