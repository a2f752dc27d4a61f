-------------------------- MODULE DcReceive_proofs --------------------------
(***************************************************************************)
(* Theorems about DcReceive, for any threads, sizes, limits and modes.       *)
(***************************************************************************)
EXTENDS DcReceive, SequenceTheorems, FiniteSetTheorems, FunctionTheorems, TLAPS

-----------------------------------------------------------------------------
(* The inductive invariant.                                                *)

Event   == {BadFrame} \cup {FrameEvent(f) : f \in Frame} \cup {NoticeEvent(n) : n \in Notice}
Message == Seq(Frame)

\* The labels of a thread inside on_message.
FlushLabels == {"flush", "flushBody", "call", "inCall"}

NativeTypes ==
    /\ mode \in Modes /\ chan \in {"open", "closing", "closed"}
    /\ events \in Seq(Event)
    /\ peer \in Seq(Nat) /\ peerAt \in Nat \cup {-1} /\ (peerAt # -1 => peer # << >>)
    /\ buf \in Message /\ skipping \in BOOLEAN

HandlerTypes ==
    /\ slot \in 0 .. handlers /\ handlers \in Nat
    /\ lock \in [Handlers -> Threads \cup {NoThread}]
    /\ pending \in Seq(Message) /\ pendingBytes \in 0 .. PendingLimit
    /\ dropped \in Seq([msg : Nat, bytes : Nat])
    /\ data \in Seq(Message) /\ held \in [Threads -> Seq(Message)]
    /\ cb \in [Threads -> 0 .. handlers]
    /\ log \in Seq(Nat \X Message)
    /\ calls \in Nat /\ crossed \in BOOLEAN

NoticeTypes ==
    /\ notices \in Seq(Notice) /\ raised \in Seq(Notice) /\ told \in Seq(Notice)
    /\ delivering \in BOOLEAN

\* Where the threads are, and what the callback thread has in hand there.
ThreadInv ==
    /\ pc \in [Threads -> CallbackLabels \cup SetterLabels]
    /\ pc[Callback] \in CallbackLabels /\ \A s \in Setters : pc[s] \in SetterLabels
    /\ IF pc[Callback] \in {"deliver", "lock"} THEN Len(data) = 1 ELSE data = << >>

\* There are handlers enough for the setters that have not called yet.
BoundInv ==
    handlers + Cardinality({s \in Setters : pc[s] = "idle"}) + calls
        <= Cardinality(Setters) + Calls

\* Messages are held either for a handler that is still to come or by the one
\* thread that flushes them, and a handler's lock is with the thread that does.
HeldInv ==
    /\ slot = NoHandler => /\ log = << >> /\ \A t \in Threads : pc[t] \notin FlushLabels
                           /\ pc[Callback] \notin {"lock", "body"}
    /\ slot # NoHandler => pending = << >>
    /\ \A t \in Threads : /\ held[t] # << >> => pc[t] \in FlushLabels
                          /\ pc[t] \in FlushLabels => cb[t] # NoHandler /\ lock[cb[t]] = t
                          /\ \A u \in Threads : held[t] # << >> /\ held[u] # << >> => t = u
    /\ pc[Callback] \in {"lock", "body"} => cb[Callback] # NoHandler

-----------------------------------------------------------------------------
(* The frames on their way.                                                *)

Frames(e)         == {i \in DOMAIN e : e[i].type = "frame"}
First(e, i)       == i \in Frames(e) /\ \A k \in Frames(e) : i <= k
Last(e, i)        == i \in Frames(e) /\ \A k \in Frames(e) : k <= i
Adjacent(e, i, j) == /\ i \in Frames(e) /\ j \in Frames(e) /\ i < j
                     /\ \A k \in Frames(e) : ~ (i < k /\ k < j)

\* Frame g is the peer's next one after f.
Follows(f, g) == IF f.more THEN g.msg = f.msg /\ g.from = f.to
                           ELSE g.msg = f.msg + 1 /\ g.from = 0

\* The frames among the events e are the peer's, in its order and without a gap, up
\* to the byte `at` of the last message of p; a bad frame is between two messages,
\* and nothing comes after the channel's close.
Stream(e, p, at) ==
    /\ \A i \in Frames(e) :
          /\ e[i].frame.msg \in DOMAIN p /\ e[i].frame.to <= p[e[i].frame.msg]
          /\ ~e[i].frame.more => e[i].frame.to = p[e[i].frame.msg]
    /\ \A i, j \in DOMAIN e : Adjacent(e, i, j) => Follows(e[i].frame, e[j].frame)
    /\ \A i \in DOMAIN e : Last(e, i) =>
          /\ e[i].frame.msg = Len(p) /\ (e[i].frame.more <=> at # -1)
          /\ at # -1 => e[i].frame.to = at
    /\ \A i \in DOMAIN e : e[i].type = "bad" =>
          /\ (\A k \in Frames(e) : k < i) => at = -1
          /\ \A j \in Frames(e) : i < j /\ (\A k \in Frames(e) : ~ (i < k /\ k < j)) =>
                e[j].frame.from = 0
    /\ \A i \in DOMAIN e : e[i].type = "notice" /\ e[i].notice = "closed" =>
          \A k \in Frames(e) : k < i

\* What the reassembler, with b in its buffer or skipping, expects: the message m of
\* this size from this byte on.
Expects(b, sk, m, from, size) ==
    /\ b # << >> => b[1].msg = m /\ b[Len(b)].to = from
    /\ b = << >> /\ ~sk => from = 0
    /\ sk => size > MaxMessageSize

\* It expects the first frame of e, or what the peer sends next.
Ahead(e, p, at, b, sk, open) ==
    /\ \A i \in DOMAIN e : First(e, i) =>
          Expects(b, sk, e[i].frame.msg, e[i].frame.from, p[e[i].frame.msg])
    /\ Frames(e) = {} /\ open =>
          IF at = -1 THEN b = << >> /\ ~sk ELSE Expects(b, sk, Len(p), at, p[Len(p)])

\* A message's frames from its first byte on.
Part(b) ==
    b # << >> =>
        /\ b[1].from = 0
        /\ \A i \in DOMAIN b : b[i].msg = b[1].msg /\ b[i].more
        /\ \A i \in 1 .. Len(b) - 1 : b[i + 1].from = b[i].to

StreamInv ==
    /\ Stream(events, peer, peerAt)
    /\ Ahead(events, peer, peerAt, buf, skipping, chan = "open")
    /\ Part(buf) /\ (skipping => buf = << >>)
    /\ chan # "closed" => \A i \in DOMAIN events : events[i] # NoticeEvent("closed")

-----------------------------------------------------------------------------
(* Where the messages are.                                                 *)

HeldIn(h) == UNION {{<<t, i>> : i \in DOMAIN h[t]} : t \in Threads}

LastFrames(e) == {i \in DOMAIN e : e[i].type = "frame" /\ ~e[i].frame.more}

\* TakenIn, of the events e and the peer's position.
Taken(e, p, at) == Len(p) - (IF at = -1 THEN 0 ELSE 1) - Cardinality(LastFrames(e))

\* The messages numbered n.
InLog(n)     == \E i \in DOMAIN log : Number(log[i][2]) = n
InPending(n) == \E i \in DOMAIN pending : Number(pending[i]) = n
InHeld(n)    == \E t \in Threads : \E i \in DOMAIN held[t] : Number(held[t][i]) = n
InData(n)    == \E i \in DOMAIN data : Number(data[i]) = n
InDropped(n) == \E i \in DOMAIN dropped : dropped[i].msg = n

\* A whole message that the reassembler lets pass.
Passed(m, p) ==
    /\ m # << >> /\ m[1].from = 0
    /\ \A i \in 1 .. Len(m) - 1 : m[i].more /\ m[i + 1].msg = m[i].msg /\ m[i + 1].from = m[i].to
    /\ ~m[Len(m)].more /\ m[Len(m)].to = p[m[1].msg]
    /\ p[m[1].msg] <= MaxMessageSize /\ m[1].msg \in DOMAIN p

WholeInv ==
    /\ \A i \in DOMAIN log : Passed(log[i][2], peer)
    /\ \A i \in DOMAIN pending : Passed(pending[i], peer)
    /\ \A t \in Threads : \A i \in DOMAIN held[t] : Passed(held[t][i], peer)
    /\ \A i \in DOMAIN data : Passed(data[i], peer)
    /\ \A i \in DOMAIN dropped :
          /\ dropped[i].msg \in DOMAIN peer
          /\ \/ peer[dropped[i].msg] > MaxMessageSize
             \/ dropped[i].bytes + peer[dropped[i].msg] > PendingLimit

\* The frames on their way begin with the message after the n-th.
NextIn(e, n) == \A i \in DOMAIN e : First(e, i) => e[i].frame.msg = n + 1

Somewhere(n) == InLog(n) \/ InPending(n) \/ InHeld(n) \/ InData(n) \/ InDropped(n)

Total == Len(log) + Len(pending) + Cardinality(HeldIn(held)) + Len(data) + Len(dropped)

\* As many messages are somewhere as were taken in, and exactly those are.
CountInv ==
    /\ NextIn(events, Taken(events, peer, peerAt))
    /\ Total = Taken(events, peer, peerAt)
    /\ \A n \in Int : n \in 1 .. Taken(events, peer, peerAt) <=> Somewhere(n)

\* Messages are in the peer's order wherever several of them are, and the one in hand
\* is the last.
WaitOrder ==
    /\ \A i, j \in DOMAIN pending : i < j => Number(pending[i]) < Number(pending[j])
    /\ \A t \in Threads : \A i, j \in DOMAIN held[t] :
          i < j => Number(held[t][i]) < Number(held[t][j])

HandLast ==
    \A d \in DOMAIN data :
        /\ \A i \in DOMAIN log : Number(log[i][2]) < Number(data[d])
        /\ \A i \in DOMAIN pending : Number(pending[i]) < Number(data[d])
        /\ \A t \in Threads : \A i \in DOMAIN held[t] : Number(held[t][i]) < Number(data[d])

\* What is flushed comes after what a handler was called for already.
CalledFirst ==
    InOrder /\ \A t \in Threads : \A i \in DOMAIN log : \A j \in DOMAIN held[t] :
                  Number(log[i][2]) < Number(held[t][j])

\* The handler that is flushed is the one the callback thread would call.
FlushedIsSet ==
    /\ \A t \in Threads : pc[t] \in FlushLabels => cb[t] = slot
    /\ \A t \in Threads : held[t] # << >> /\ pc[Callback] = "lock" => cb[Callback] = slot

\* The last two hold while handlers are set one at a time.
OrderInv == WaitOrder /\ HandLast /\ (~crossed => CalledFirst /\ FlushedIsSet)

-----------------------------------------------------------------------------
(* Sequences and events.                                                   *)

LEMMA Limits ==
    /\ Messages \in Nat /\ ChunkSize \in Nat /\ MaxMessageSize \in Nat
    /\ PendingLimit \in Nat /\ Calls \in Nat
    /\ ChunkSize >= 2 /\ PendingLimit >= MaxMessageSize
    /\ Cardinality(Setters) \in Nat /\ Callback \in Threads /\ Callback \notin Setters
    /\ NoThread \notin Threads
BY SizesAssumption, ThreadsAssumption, FS_CardinalityType DEF Threads

LEMMA InSeq ==
    ASSUME NEW S, NEW s \in Seq(S)
    PROVE  /\ Len(s) \in Nat /\ DOMAIN s = 1 .. Len(s)
           /\ \A i \in DOMAIN s : s[i] \in S /\ i \in Nat
           /\ s = << >> <=> Len(s) = 0
           /\ s = << >> <=> DOMAIN s = {}
OBVIOUS

LEMMA TailFacts ==
    ASSUME NEW S, NEW s \in Seq(S), s # << >>
    PROVE  /\ Tail(s) \in Seq(S) /\ Len(Tail(s)) = Len(s) - 1 /\ Len(s) >= 1
           /\ 1 \in DOMAIN s /\ Head(s) = s[1] /\ Head(s) \in S
           /\ \A i \in DOMAIN Tail(s) : i + 1 \in DOMAIN s /\ Tail(s)[i] = s[i + 1]
           /\ \A i \in DOMAIN s : i # 1 => i - 1 \in DOMAIN Tail(s) /\ Tail(s)[i - 1] = s[i]
OBVIOUS

LEMMA AppendFacts ==
    ASSUME NEW S, NEW s \in Seq(S), NEW x \in S
    PROVE  /\ Append(s, x) \in Seq(S) /\ Len(Append(s, x)) = Len(s) + 1
           /\ Len(s) + 1 \in DOMAIN Append(s, x) /\ Append(s, x)[Len(s) + 1] = x
           /\ \A i \in DOMAIN s : i \in DOMAIN Append(s, x) /\ Append(s, x)[i] = s[i]
           /\ \A i \in DOMAIN Append(s, x) :
                 \/ i \in DOMAIN s /\ Append(s, x)[i] = s[i]
                 \/ i = Len(s) + 1 /\ Append(s, x)[i] = x
           /\ Len(s) + 1 \notin DOMAIN s
OBVIOUS

\* The three kinds of native event are told apart by their type.
LEMMA EventFacts ==
    ASSUME NEW e \in Event
    PROVE  /\ e.type \in {"frame", "bad", "notice"}
           /\ e.type = "frame" => /\ e.frame \in Frame /\ e.frame.msg \in Nat \ {0}
                                  /\ e.frame.from \in Nat /\ e.frame.to \in Nat
                                  /\ e.frame.more \in BOOLEAN
           /\ e.type = "bad" => e = BadFrame
           /\ e.type = "notice" => e.notice \in Notice
<1>1. CASE e = BadFrame
  BY <1>1 DEF BadFrame
<1>2. ASSUME NEW f \in Frame, e = FrameEvent(f)
      PROVE  e.type = "frame" /\ e.frame = f
  BY <1>2 DEF FrameEvent
<1>3. ASSUME NEW n \in Notice, e = NoticeEvent(n)
      PROVE  e.type = "notice" /\ e.notice = n
  BY <1>3 DEF NoticeEvent
<1>4. \A f \in Frame : /\ f.msg \in Nat \ {0} /\ f.from \in Nat /\ f.to \in Nat
                       /\ f.more \in BOOLEAN
  BY DEF Frame
<1> QED
  BY <1>1, <1>2, <1>3, <1>4 DEF Event

LEMMA EventKinds ==
    /\ BadFrame \in Event /\ BadFrame.type = "bad"
    /\ \A f \in Frame : /\ FrameEvent(f) \in Event /\ FrameEvent(f).type = "frame"
                        /\ FrameEvent(f).frame = f
    /\ \A n \in Notice : /\ NoticeEvent(n) \in Event /\ NoticeEvent(n).type = "notice"
                         /\ NoticeEvent(n).notice = n
BY DEF BadFrame, FrameEvent, NoticeEvent, Event

LEMMA FrameFacts ==
    ASSUME NEW f \in Frame
    PROVE  f.msg \in Nat \ {0} /\ f.from \in Nat /\ f.to \in Nat /\ f.more \in BOOLEAN
BY DEF Frame

\* A message's frames are contiguous from its first byte: its bytes are counted by
\* where the last one ends.
LEMMA PassedFacts ==
    ASSUME NEW m \in Message, NEW p, Passed(m, p)
    PROVE  /\ m[1] \in Frame /\ Number(m) \in Nat \ {0} /\ Number(m) \in DOMAIN p
           /\ Payload(m) = p[Number(m)] /\ Payload(m) \in Nat
           /\ p[Number(m)] <= MaxMessageSize
           /\ m[1].msg = Number(m)
<1>1. m # << >> /\ 1 \in DOMAIN m /\ Len(m) \in DOMAIN m
  BY DEF Passed, Message
<1>2. m[1] \in Frame /\ m[Len(m)] \in Frame
  BY <1>1, InSeq DEF Message
<1>3. m[1].msg \in Nat \ {0} /\ m[Len(m)].to \in Nat
  BY <1>2, FrameFacts
<1>4. m[1].from = 0 /\ m[Len(m)].to = p[m[1].msg] /\ p[m[1].msg] <= MaxMessageSize
      /\ m[1].msg \in DOMAIN p
  BY DEF Passed
<1>5. Payload(m) = m[Len(m)].to
  BY <1>1, <1>3, <1>4 DEF Payload
<1> QED
  BY <1>2, <1>3, <1>4, <1>5 DEF Number

-----------------------------------------------------------------------------
(* The types.                                                              *)

\* The steps that leave the channel, its events, the peer and the reassembler alone.
LEMMA NativeQuiet ==
    ASSUME \/ Deliver \/ LockHandler \/ HandlerReturns \/ DeliverNotices \/ NoticeHandlerReturns
           \/ \E t \in Threads : \/ OnMessage(t) \/ Flush(t) \/ FlushHandlerReturns(t)
                                 \/ Replace(t) \/ PostMethod(t)
           \/ UNCHANGED vars
    PROVE  UNCHANGED <<nativeVars, reassembler>>
BY DEF Deliver, LockHandler, HandlerReturns, DeliverNotices, NoticeHandlerReturns, OnMessage,
       Flush, FlushHandlerReturns, Replace, PostMethod, vars

LEMMA NativeStep ==
    ASSUME NativeTypes, [Next]_vars
    PROVE  NativeTypes'
<1> USE DEF NativeTypes
<1>0. ASSUME UNCHANGED <<nativeVars, reassembler>>
      PROVE  NativeTypes'
  BY <1>0 DEF nativeVars, reassembler
<1>q. ASSUME mode' = mode, peer' = peer, peerAt' = peerAt, events' \in Seq(Event),
             chan' \in {"open", "closing", "closed"}, buf' \in Message, skipping' \in BOOLEAN
      PROVE  NativeTypes'
  BY <1>q
<1>1. CASE Arrive
  <2>1. PICK z \in IF peerAt >= 0 THEN {peer[Len(peer)]} ELSE Sizes :
           LET from == IF peerAt >= 0 THEN peerAt ELSE 0
               to   == IF from + ChunkSize - 1 < z THEN from + ChunkSize - 1 ELSE z
           IN /\ peerAt >= 0 \/ Len(peer) < Messages
              /\ peer' = IF peerAt >= 0 THEN peer ELSE Append(peer, z)
              /\ peerAt' = IF to < z THEN to ELSE -1
              /\ events' = Append(events, FrameEvent(
                    [msg |-> Len(peer'), from |-> from, to |-> to, more |-> to < z]))
    BY <1>1 DEF Arrive
  <2> DEFINE from == IF peerAt >= 0 THEN peerAt ELSE 0
             to   == IF from + ChunkSize - 1 < z THEN from + ChunkSize - 1 ELSE z
             f    == [msg |-> Len(peer'), from |-> from, to |-> to, more |-> to < z]
  <2>2. peerAt >= 0 => peer # << >> /\ Len(peer) \in DOMAIN peer /\ peer[Len(peer)] \in Nat
    BY InSeq
  <2>3. z \in Nat
    BY <2>1, <2>2, SizesAssumption
  <2>4. from \in Nat /\ to \in Nat
    BY <2>3, Limits
  <2>5. peer' \in Seq(Nat) /\ Len(peer') \in Nat \ {0} /\ peer' # << >>
    <3>1. CASE peerAt >= 0
      BY <3>1, <2>1, <2>2, InSeq
    <3>2. CASE ~ (peerAt >= 0)
      <4>1. peer' = Append(peer, z)
        BY <3>2, <2>1
      <4> QED
        BY <4>1, <2>3, AppendFacts, InSeq
    <3> QED
      BY <3>1, <3>2
  <2>6. f \in Frame
    BY <2>4, <2>5 DEF Frame
  <2>7. events' = Append(events, FrameEvent(f))
    BY <2>1
  <2>8. events' \in Seq(Event)
    BY <2>6, <2>7, EventKinds, AppendFacts
  <2>9. peerAt' \in Nat \cup {-1}
    BY <2>1, <2>4
  <2> QED
    BY <1>1, <2>5, <2>8, <2>9 DEF Arrive, reassembler
<1>2. CASE ArriveBad
  <2>1. events' \in Seq(Event)
    BY <1>2, EventKinds, AppendFacts DEF ArriveBad
  <2> QED
    BY <1>2, <1>q, <2>1 DEF ArriveBad, reassembler
<1>3. CASE CloseDone
  <2>1. events' \in Seq(Event)
    BY <1>3, EventKinds, AppendFacts DEF CloseDone, Notice
  <2> QED
    BY <1>3, <1>q, <2>1 DEF CloseDone, reassembler
<1>4. CASE OnFrame
  <2>1. events # << >> /\ Head(events).type = "frame" /\ events' = Tail(events)
    BY <1>4 DEF OnFrame
  <2>2. events' \in Seq(Event) /\ Head(events) \in Event
    BY <2>1, TailFacts
  <2>3. Head(events).frame \in Frame
    BY <2>1, <2>2, EventFacts
  <2>4. Append(buf, Head(events).frame) \in Message /\ << >> \in Message
    BY <2>3, AppendFacts DEF Message
  <2>5. buf' \in Message /\ skipping' \in BOOLEAN
    <3> DEFINE skips == skipping \/ TooLarge(Head(events).frame)
    <3>1. buf' \in {<< >>, Append(buf, Head(events).frame)} /\ skipping' \in {FALSE, skips}
      BY <1>4 DEF OnFrame
    <3>2. skips \in BOOLEAN
      BY DEF TooLarge
    <3> QED
      BY <2>4, <3>1, <3>2
  <2> QED
    BY <1>4, <1>q, <2>2, <2>5 DEF OnFrame
<1>5. CASE OnBadFrame
  <2>1. /\ events # << >>
        /\ events' = Tail(events) \/ events' = Append(Tail(events), NoticeEvent("closing"))
    BY <1>5 DEF OnBadFrame
  <2>2a. Tail(events) \in Seq(Event) /\ NoticeEvent("closing") \in Event
    BY <2>1, TailFacts, EventKinds DEF Notice
  <2>2b. Append(Tail(events), NoticeEvent("closing")) \in Seq(Event)
    BY <2>2a, AppendFacts
  <2>2. events' \in Seq(Event)
    BY <2>1, <2>2a, <2>2b
  <2>3. << >> \in Message
    BY DEF Message
  <2> QED
    BY <1>5, <1>q, <2>2, <2>3 DEF OnBadFrame
<1>6. CASE OnNotice
  <2>1. events' \in Seq(Event)
    BY <1>6, TailFacts DEF OnNotice
  <2>2. << >> \in Message
    BY DEF Message
  <2> QED
    BY <1>6, <1>q, <2>1, <2>2 DEF OnNotice
<1>7. ASSUME NEW t \in Threads, MethodRuns(t)
      PROVE  NativeTypes'
  BY <1>7, <1>q DEF MethodRuns, Method, reassembler
<1>8. ASSUME NEW t \in Threads, CallMethod(t)
      PROVE  NativeTypes'
  <2>1. PICK n \in Notice : MethodHere(n)
    BY <1>8 DEF CallMethod
  <2>2. events' = events \/ events' = Append(events, NoticeEvent(n))
    BY <2>1 DEF MethodHere
  <2>3. events' \in Seq(Event)
    BY <2>2, EventKinds, AppendFacts
  <2> QED
    BY <1>8, <1>q, <2>1, <2>3 DEF CallMethod, MethodHere, Method, reassembler
<1> QED
  BY <1>0, <1>1, <1>2, <1>3, <1>4, <1>5, <1>6, <1>7, <1>8, NativeQuiet
     DEF Next, CallbackStep, FlushStep, HandlerCall, Terminated

\* The steps that leave what the handlers see alone, messages left out excepted.
LEMMA HandlerQuiet ==
    ASSUME \/ Arrive \/ ArriveBad \/ CloseDone \/ OnBadFrame \/ OnNotice
           \/ DeliverNotices \/ NoticeHandlerReturns
           \/ \E t \in Threads : FlushHandlerReturns(t) \/ MethodRuns(t)
           \/ UNCHANGED vars
    PROVE  UNCHANGED <<slotVars, data, cb, log, calls>>
BY DEF Arrive, ArriveBad, CloseDone, OnBadFrame, OnNotice, DeliverNotices,
       NoticeHandlerReturns, FlushHandlerReturns, MethodRuns, vars, threadVars

LEMMA HandlerStep ==
    ASSUME NativeTypes, HandlerTypes, ThreadInv, WholeInv, [Next]_vars
    PROVE  HandlerTypes'
<1> USE DEF HandlerTypes
<1>0. ASSUME UNCHANGED <<slotVars, data, cb, log, calls>>
      PROVE  HandlerTypes'
  BY <1>0 DEF slotVars
<1>m. << >> \in Seq(Message) /\ << >> \in Message
  BY DEF Message
<1>n. NoHandler \in 0 .. handlers
  BY DEF NoHandler
<1>d. pc[Callback] \in {"deliver", "lock"} =>
        /\ data[1] \in Message /\ data[1] # << >> /\ data[1][1].msg \in Nat
        /\ Payload(data[1]) \in Nat
  <2> HAVE pc[Callback] \in {"deliver", "lock"}
  <2>1. 1 \in DOMAIN data /\ data[1] \in Message
    BY InSeq DEF ThreadInv
  <2>2. Passed(data[1], peer)
    BY <2>1 DEF WholeInv
  <2>3. data[1] # << >>
    BY <2>2 DEF Passed
  <2>4. Payload(data[1]) \in Nat /\ data[1][1] \in Frame
    BY <2>1, <2>2, PassedFacts
  <2> QED
    BY <2>1, <2>3, <2>4, FrameFacts
<1>1. CASE OnFrame
  <2>1. events # << >> /\ Head(events).type = "frame"
    BY <1>1 DEF OnFrame
  <2> DEFINE f == Head(events).frame
  <2>2. f \in Frame
    BY <2>1, TailFacts, EventFacts DEF NativeTypes
  <2>3. Append(buf, f) \in Message
    BY <2>2, AppendFacts DEF NativeTypes, Message
  <2>4. <<Append(buf, f)>> \in Seq(Message)
    BY <2>3
  <2>5. data' \in Seq(Message)
    <3>1. data' = data \/ data' = <<Append(buf, f)>>
      BY <1>1 DEF OnFrame
    <3> QED
      BY <3>1, <2>4
  <2>6. dropped' \in Seq([msg : Nat, bytes : Nat])
    <3>1. dropped' = dropped \/ dropped' = Append(dropped, [msg |-> f.msg, bytes |-> 0])
      BY <1>1 DEF OnFrame
    <3>2. [msg |-> f.msg, bytes |-> 0] \in [msg : Nat, bytes : Nat]
      BY <2>2, FrameFacts
    <3>3. Append(dropped, [msg |-> f.msg, bytes |-> 0]) \in Seq([msg : Nat, bytes : Nat])
      BY <3>2, AppendFacts
    <3> QED
      BY <3>1, <3>3
  <2> QED
    BY <1>1, <2>5, <2>6 DEF OnFrame
<1>2. CASE Deliver
  <2>1. data[1] \in Message /\ data[1][1].msg \in Nat /\ Payload(data[1]) \in Nat
    BY <1>2, <1>d DEF Deliver
  <2>2. CASE slot # NoHandler
    <3>1. cb' = [cb EXCEPT ![Callback] = slot] /\ UNCHANGED <<pending, pendingBytes, dropped, data>>
      BY <1>2, <2>2 DEF Deliver
    <3>2. cb' \in [Threads -> 0 .. handlers]
      BY <3>1
    <3> QED
      BY <1>2, <3>1, <3>2 DEF Deliver
  <2>3. CASE slot = NoHandler /\ Holds(Payload(data[1]))
    <3>1. pending' = Append(pending, data[1]) /\ pendingBytes' = pendingBytes + Payload(data[1])
          /\ data' = << >> /\ UNCHANGED <<dropped, cb>>
      BY <1>2, <2>3 DEF Deliver
    <3>2. pending' \in Seq(Message)
      BY <2>1, <3>1, AppendFacts
    <3>3. pendingBytes' \in 0 .. PendingLimit
      BY <2>1, <2>3, <3>1, Limits DEF Holds
    <3> QED
      BY <1>2, <1>m, <3>1, <3>2, <3>3 DEF Deliver
  <2>4. CASE slot = NoHandler /\ ~Holds(Payload(data[1]))
    <3>1. dropped' = Append(dropped, [msg |-> data[1][1].msg, bytes |-> pendingBytes])
          /\ data' = << >> /\ UNCHANGED <<pending, pendingBytes, cb>>
      BY <1>2, <2>4 DEF Deliver
    <3>2. [msg |-> data[1][1].msg, bytes |-> pendingBytes] \in [msg : Nat, bytes : Nat]
      BY <2>1, Limits
    <3>3. dropped' \in Seq([msg : Nat, bytes : Nat])
      BY <3>1, <3>2, AppendFacts
    <3> QED
      BY <1>2, <1>m, <3>1, <3>3 DEF Deliver
  <2> QED
    BY <2>2, <2>3, <2>4
<1>3. CASE LockHandler
  <2>1. data[1] \in Message
    BY <1>3, <1>d DEF LockHandler
  <2>2. cb[Callback] \in Nat
    BY Limits
  <2>3. <<cb[Callback], data[1]>> \in Nat \X Message
    BY <2>1, <2>2
  <2>4. log' \in Seq(Nat \X Message)
    BY <1>3, <2>3, AppendFacts DEF LockHandler
  <2>5. lock' \in [Handlers -> Threads \cup {NoThread}]
    BY <1>3, Limits DEF LockHandler
  <2> QED
    BY <1>3, <1>m, <2>4, <2>5 DEF LockHandler
<1>4. CASE HandlerReturns
  <2>1. lock' \in [Handlers -> Threads \cup {NoThread}]
    BY <1>4 DEF HandlerReturns
  <2>2. cb' \in [Threads -> 0 .. handlers]
    BY <1>4, <1>n DEF HandlerReturns
  <2> QED
    BY <1>4, <2>1, <2>2 DEF HandlerReturns
<1>5. ASSUME NEW t \in Threads, OnMessage(t)
      PROVE  HandlerTypes'
  <2>1. handlers' = handlers + 1 /\ slot' = handlers + 1 /\ held' = [held EXCEPT ![t] = pending]
        /\ pending' = << >> /\ pendingBytes' = 0
        /\ lock' = [lock EXCEPT ![handlers + 1] = t] /\ cb' = [cb EXCEPT ![t] = handlers + 1]
        /\ UNCHANGED <<dropped, data, log>>
    BY <1>5 DEF OnMessage, Publish
  <2>2. slot' \in 0 .. handlers' /\ handlers' \in Nat /\ pendingBytes' \in 0 .. PendingLimit
    BY <2>1, Limits
  <2>3. held' \in [Threads -> Seq(Message)]
    BY <2>1
  <2>4. lock' \in [Handlers -> Threads \cup {NoThread}]
    BY <2>1
  <2>5. cb' \in [Threads -> 0 .. handlers']
    BY <2>1
  <2>6. calls' \in Nat
    <3>1. calls' = calls \/ (calls > 0 /\ calls' = calls - 1)
      BY <1>5 DEF OnMessage
    <3> QED
      BY <3>1
  <2>7. crossed' \in BOOLEAN
    BY <1>5 DEF OnMessage, Flushing
  <2> QED
    BY <1>m, <2>1, <2>2, <2>3, <2>4, <2>5, <2>6, <2>7
<1>6. ASSUME NEW t \in Threads, Flush(t)
      PROVE  HandlerTypes'
  <2>1. CASE held[t] # << >>
    <3>1. log' = Append(log, <<cb[t], Head(held[t])>>) /\ held' = [held EXCEPT ![t] = Tail(@)]
          /\ UNCHANGED <<lock, cb>>
      BY <1>6, <2>1 DEF Flush
    <3>2. Head(held[t]) \in Message /\ Tail(held[t]) \in Seq(Message)
      BY <2>1, TailFacts
    <3>3. <<cb[t], Head(held[t])>> \in Nat \X Message
      BY <3>2
    <3>4. log' \in Seq(Nat \X Message)
      BY <3>1, <3>3, AppendFacts
    <3>5. held' \in [Threads -> Seq(Message)]
      BY <3>1, <3>2
    <3> QED
      BY <1>6, <3>1, <3>4, <3>5 DEF Flush
  <2>2. CASE held[t] = << >>
    <3>0. /\ lock' = [lock EXCEPT ![cb[t]] = NoThread] /\ cb' = [cb EXCEPT ![t] = NoHandler]
          /\ UNCHANGED <<held, log>>
      BY <1>6, <2>2 DEF Flush
    <3>1. lock' \in [Handlers -> Threads \cup {NoThread}]
      BY <3>0
    <3>2. cb' \in [Threads -> 0 .. handlers]
      BY <3>0, <1>n
    <3> QED
      BY <1>6, <3>0, <3>1, <3>2 DEF Flush
  <2> QED
    BY <2>1, <2>2
<1>7. ASSUME NEW t \in Threads, Replace(t)
      PROVE  HandlerTypes'
  <2>1. handlers' = handlers + 1 /\ slot' = handlers + 1 /\ calls > 0 /\ calls' = calls - 1
        /\ UNCHANGED <<lock, pending, pendingBytes, held, dropped, data, cb, log>>
    BY <1>7 DEF Replace
  <2>2. slot' \in 0 .. handlers' /\ handlers' \in Nat /\ calls' \in Nat
    BY <2>1
  <2>3. cb' \in [Threads -> 0 .. handlers']
    BY <2>1
  <2>4. crossed' \in BOOLEAN
    BY <1>7 DEF Replace, Flushing
  <2> QED
    BY <2>1, <2>2, <2>3, <2>4
<1>8. ASSUME NEW t \in Threads, CallMethod(t) \/ PostMethod(t)
      PROVE  HandlerTypes'
  <2>1. calls' \in Nat
    BY <1>8 DEF CallMethod, PostMethod
  <2> QED
    BY <1>8, <2>1 DEF CallMethod, PostMethod, slotVars
<1> QED
  BY <1>0, <1>1, <1>2, <1>3, <1>4, <1>5, <1>6, <1>7, <1>8, HandlerQuiet
     DEF Next, CallbackStep, FlushStep, HandlerCall, Terminated

-----------------------------------------------------------------------------
(* The notices and the threads.                                            *)

\* A notice at the back, and the front one handed over.
LEMMA TurnFacts ==
    ASSUME NEW S, NEW a \in Seq(S), NEW b \in Seq(S)
    PROVE  /\ \A x \in S : a \o Append(b, x) = Append(a \o b, x)
           /\ b # << >> => Append(a, Head(b)) \o Tail(b) = a \o b
<1>1. ASSUME NEW x \in S
      PROVE  a \o Append(b, x) = Append(a \o b, x)
  OBVIOUS
<1>2. ASSUME b # << >>
      PROVE  Append(a, Head(b)) \o Tail(b) = a \o b
  <2> DEFINE l == Append(a, Head(b)) \o Tail(b)
             r == a \o b
  <2>1. Head(b) \in S /\ Tail(b) \in Seq(S) /\ Len(Tail(b)) = Len(b) - 1
    BY <1>2, TailFacts
  <2>2. Append(a, Head(b)) \in Seq(S) /\ Len(Append(a, Head(b))) = Len(a) + 1
    BY <2>1, AppendFacts
  <2>3. l \in Seq(S) /\ r \in Seq(S)
    BY <2>1, <2>2
  <2>4. Len(l) = Len(r)
    BY <2>1, <2>2
  <2>5. ASSUME NEW i \in 1 .. Len(l)
        PROVE  l[i] = r[i]
    <3>0. Len(a) \in Nat /\ Len(l) \in Nat /\ i \in Int
      BY <2>3
    <3>1. CASE i <= Len(a)
      BY <2>1, <2>2, <3>1
    <3>2. CASE i = Len(a) + 1
      BY <1>2, <2>1, <2>2, <3>2
    <3>3. CASE i > Len(a) + 1
      <4>1. i - (Len(a) + 1) \in 1 .. Len(Tail(b))
        BY <2>1, <2>2, <3>3
      <4>2. l[i] = Tail(b)[i - (Len(a) + 1)]
        BY <2>1, <2>2, <3>3
      <4>3. Tail(b)[i - (Len(a) + 1)] = b[i - Len(a)]
        BY <1>2, <2>1, <4>1
      <4>4. r[i] = b[i - Len(a)]
        <5>1. i \in 1 .. Len(a) + Len(b) /\ ~ (i <= Len(a))
          <6>1. Len(l) = Len(a) + Len(b)
            BY <2>1, <2>2
          <6> HIDE DEF l
          <6> QED
            BY <6>1, <3>0, <3>3
        <5> QED
          BY <5>1
      <4> QED
        BY <4>2, <4>3, <4>4
    <3>4. i <= Len(a) \/ i = Len(a) + 1 \/ i > Len(a) + 1
      BY <3>0
    <3> HIDE DEF l, r
    <3> QED
      BY <3>1, <3>2, <3>3, <3>4
  <2> HIDE DEF l, r
  <2>6. l = r
    BY <2>3, <2>4, <2>5, SeqEqual
  <2> QED
    BY <2>6 DEF l, r
<1> QED
  BY <1>1, <1>2

LEMMA NoticeStep ==
    ASSUME NativeTypes, NoticeTypes, NoticesInTurn, ThreadInv, [Next]_vars
    PROVE  NoticeTypes' /\ NoticesInTurn'
<1> USE DEF NoticeTypes
<1>l. pc \in [Threads -> CallbackLabels \cup SetterLabels] /\ Callback \in Threads
  BY Limits DEF ThreadInv
<1>0. ASSUME notices' = notices, raised' = raised, told' = told, delivering' = delivering,
             pc'[Callback] = "idle" => pc[Callback] = "idle"
      PROVE  NoticeTypes' /\ NoticesInTurn'
  BY <1>0 DEF NoticesInTurn
<1>1. ASSUME NEW n \in Notice, Raise(n), told' = told, delivering' \in BOOLEAN,
             pc'[Callback] # "idle"
      PROVE  NoticeTypes' /\ NoticesInTurn'
  <2>1. notices' = Append(notices, n) /\ raised' = Append(raised, n)
    BY <1>1 DEF Raise
  <2>2. notices' \in Seq(Notice) /\ raised' \in Seq(Notice)
    BY <2>1, AppendFacts
  <2>3. told \o Append(notices, n) = Append(told \o notices, n)
    BY TurnFacts
  <2>4. told' \o notices' = raised'
    BY <1>1, <2>1, <2>3 DEF NoticesInTurn
  <2> QED
    BY <1>1, <2>2, <2>4 DEF NoticesInTurn
<1>n. ASSUME NEW n \in Notice, Notify(n), told' = told
      PROVE  NoticeTypes' /\ NoticesInTurn'
  <2>1. Raise(n) /\ delivering' = TRUE /\ pc'[Callback] # "idle"
    BY <1>n, <1>l DEF Notify, Goto
  <2> QED
    BY <1>n, <1>1, <2>1
<1>2. CASE Arrive \/ ArriveBad \/ CloseDone \/ UNCHANGED vars
  BY <1>2, <1>0 DEF Arrive, ArriveBad, CloseDone, vars, noticeVars, threadVars
<1>3. CASE OnFrame
  <2>1. CASE delivering' = delivering /\ pc' = pc
    BY <1>3, <2>1, <1>0 DEF OnFrame
  <2>2. CASE delivering' = TRUE /\ Goto(Callback, "deliver")
    <3>1. pc'[Callback] = "deliver"
      BY <2>2, <1>l DEF Goto
    <3>2. UNCHANGED <<notices, raised, told>>
      BY <1>3 DEF OnFrame
    <3> QED
      BY <2>2, <3>1, <3>2 DEF NoticesInTurn
  <2> QED
    BY <1>3, <2>1, <2>2 DEF OnFrame
<1>4. CASE OnBadFrame
  <2>1. told' = told
    BY <1>4 DEF OnBadFrame
  <2>2. CASE Notify("closing")
    BY <2>1, <2>2, <1>n DEF Notice
  <2>3. CASE UNCHANGED <<notices, raised, delivering, pc>>
    BY <2>1, <2>3, <1>0
  <2> QED
    BY <1>4, <2>2, <2>3 DEF OnBadFrame
<1>5. CASE OnNotice
  <2>1. Head(events).notice \in Notice
    BY <1>5, TailFacts, EventFacts DEF OnNotice, NativeTypes
  <2> QED
    BY <1>5, <1>n, <2>1 DEF OnNotice
<1>6. CASE Deliver \/ LockHandler \/ HandlerReturns \/ NoticeHandlerReturns
  <2>1. pc'[Callback] # "idle"
    BY <1>6, <1>l DEF Deliver, LockHandler, HandlerReturns, NoticeHandlerReturns, Goto
  <2>2. UNCHANGED noticeVars
    BY <1>6 DEF Deliver, LockHandler, HandlerReturns, NoticeHandlerReturns
  <2> QED
    BY <1>0, <2>1, <2>2 DEF noticeVars
<1>7. CASE DeliverNotices
  <2>1. CASE notices = << >>
    <3>1. delivering' = FALSE /\ UNCHANGED <<notices, told, raised>>
      BY <1>7, <2>1 DEF DeliverNotices
    <3> QED
      BY <2>1, <3>1 DEF NoticesInTurn
  <2>2. CASE notices # << >>
    <3>1. told' = Append(told, Head(notices)) /\ notices' = Tail(notices) /\ Goto(Callback, "notice")
          /\ delivering' = delivering /\ raised' = raised
      BY <1>7, <2>2 DEF DeliverNotices
    <3>2. Head(notices) \in Notice /\ Tail(notices) \in Seq(Notice)
      BY <2>2, TailFacts
    <3>3. Append(told, Head(notices)) \in Seq(Notice)
      BY <3>2, AppendFacts
    <3>4. Append(told, Head(notices)) \o Tail(notices) = told \o notices
      BY <2>2, TurnFacts
    <3>5. pc'[Callback] = "notice"
      BY <3>1, <1>l DEF Goto
    <3> QED
      BY <3>1, <3>2, <3>3, <3>4, <3>5 DEF NoticesInTurn
  <2> QED
    BY <2>1, <2>2
<1>8. ASSUME NEW t \in Threads, OnMessage(t) \/ Flush(t) \/ FlushHandlerReturns(t)
                                \/ Replace(t) \/ PostMethod(t)
      PROVE  NoticeTypes' /\ NoticesInTurn'
  <2>1. UNCHANGED noticeVars
    BY <1>8 DEF OnMessage, Flush, FlushHandlerReturns, Replace, PostMethod
  <2>2. pc'[Callback] = "idle" => pc[Callback] = "idle"
    BY <1>8, <1>l DEF OnMessage, Flush, FlushHandlerReturns, Replace, PostMethod, Goto, AfterFlush
  <2> QED
    BY <1>0, <2>1, <2>2 DEF noticeVars
<1>9. ASSUME NEW t \in Threads, MethodRuns(t)
      PROVE  NoticeTypes' /\ NoticesInTurn'
  <2>1. CASE Goto(t, "flushBody") /\ UNCHANGED <<chan, notices, raised, delivering>>
    <3>1. pc'[Callback] = "idle" => pc[Callback] = "idle"
      BY <2>1, <1>l DEF Goto
    <3> QED
      BY <1>9, <2>1, <3>1, <1>0 DEF MethodRuns
  <2>2. ASSUME NEW n \in Notice, Raise(n), delivering' = TRUE,
               pc' = [pc EXCEPT ![t] = "inCall", ![Callback] = "notices"]
        PROVE  NoticeTypes' /\ NoticesInTurn'
    <3>1. pc'[Callback] # "idle"
      BY <2>2, <1>l
    <3> QED
      BY <1>9, <2>2, <3>1, <1>1 DEF MethodRuns
  <2> QED
    BY <1>9, <2>1, <2>2 DEF MethodRuns
<1>10. ASSUME NEW t \in Threads, CallMethod(t)
       PROVE  NoticeTypes' /\ NoticesInTurn'
  <2>1. PICK n \in Notice : MethodHere(n)
    BY <1>10 DEF CallMethod
  <2>2. UNCHANGED <<delivering, told, pc>> /\ InHandler(t) /\ (mode.inline => t = Callback)
    BY <1>10 DEF CallMethod
  <2>3. CASE mode.inline /\ Raise(n)
    <3>1. pc[Callback] # "idle"
      BY <2>2, <2>3 DEF InHandler
    <3> QED
      BY <2>2, <2>3, <3>1, <1>1
  <2>4. CASE UNCHANGED <<notices, raised>>
    BY <2>2, <2>4, <1>0
  <2> QED
    BY <2>1, <2>3, <2>4 DEF MethodHere
<1> QED
  BY <1>2, <1>3, <1>4, <1>5, <1>6, <1>7, <1>8, <1>9, <1>10
     DEF Next, CallbackStep, FlushStep, HandlerCall, Terminated

LEMMA ThreadStep ==
    ASSUME HandlerTypes, ThreadInv, [Next]_vars
    PROVE  ThreadInv'
<1> USE DEF ThreadInv
<1>l. /\ pc \in [Threads -> CallbackLabels \cup SetterLabels] /\ Callback \in Threads
      /\ Callback \notin Setters /\ Threads = Setters \cup {Callback}
  BY Limits DEF Threads
<1>i. data \in Seq(Message)
  BY DEF HandlerTypes
<1>0. ASSUME pc' = pc, data' = data
      PROVE  ThreadInv'
  BY <1>0
<1>1. ASSUME NEW l \in CallbackLabels, pc' = [pc EXCEPT ![Callback] = l],
             IF l \in {"deliver", "lock"} THEN Len(data') = 1 ELSE data' = << >>
      PROVE  ThreadInv'
  <2>1. pc'[Callback] = l /\ \A s \in Setters : pc'[s] = pc[s]
    BY <1>1, <1>l
  <2>2. pc' \in [Threads -> CallbackLabels \cup SetterLabels]
    BY <1>1, <1>l
  <2> QED
    BY <1>1, <2>1, <2>2
<1>2. ASSUME NEW t \in Setters, NEW l \in SetterLabels, pc' = [pc EXCEPT ![t] = l], data' = data
      PROVE  ThreadInv'
  <2>1. pc'[Callback] = pc[Callback] /\ \A s \in Setters : pc'[s] \in SetterLabels
    BY <1>2, <1>l
  <2>2. pc' \in [Threads -> CallbackLabels \cup SetterLabels]
    BY <1>2, <1>l
  <2> QED
    BY <1>2, <2>1, <2>2
<1>3. CASE OnFrame
  <2>1. CASE pc' = pc /\ data' = data
    BY <1>0, <2>1
  <2>2. ASSUME NEW got, data' = <<got>>, Goto(Callback, "deliver")
        PROVE  ThreadInv'
    <3>1. Len(data') = 1 /\ "deliver" \in CallbackLabels
      BY <2>2 DEF CallbackLabels
    <3> QED
      BY <2>2, <3>1, <1>1 DEF Goto
  <2> QED
    BY <1>3, <2>1, <2>2 DEF OnFrame
<1>4. CASE OnBadFrame \/ OnNotice
  <2>0. pc[Callback] = "idle" /\ data' = data
    BY <1>4 DEF OnBadFrame, OnNotice
  <2>1. pc' = pc \/ pc' = [pc EXCEPT ![Callback] = "notices"]
    BY <1>4 DEF OnBadFrame, OnNotice, Notify, Goto
  <2>2. "notices" \in CallbackLabels /\ data = << >>
    BY <2>0 DEF CallbackLabels
  <2> QED
    BY <2>0, <2>1, <2>2, <1>0, <1>1
<1>5. CASE Deliver
  <2>1. \/ pc' = [pc EXCEPT ![Callback] = "lock"] /\ data' = data
        \/ pc' = [pc EXCEPT ![Callback] = "notices"] /\ data' = << >>
    BY <1>5 DEF Deliver, Goto
  <2>2. {"lock", "notices"} \subseteq CallbackLabels /\ Len(data) = 1
    BY <1>5 DEF CallbackLabels, Deliver
  <2> QED
    BY <2>1, <2>2, <1>1
<1>6. CASE LockHandler
  <2>1. pc' = [pc EXCEPT ![Callback] = "body"] /\ data' = << >> /\ "body" \in CallbackLabels
    BY <1>6 DEF LockHandler, Goto, CallbackLabels
  <2> QED
    BY <2>1, <1>1
<1>7. CASE HandlerReturns \/ NoticeHandlerReturns
  <2>1. pc' = [pc EXCEPT ![Callback] = "notices"] /\ data' = data /\ data = << >>
        /\ "notices" \in CallbackLabels
    BY <1>7 DEF HandlerReturns, NoticeHandlerReturns, Goto, CallbackLabels
  <2> QED
    BY <2>1, <1>1
<1>8. CASE DeliverNotices
  <2>1. data' = data /\ data = << >>
    BY <1>8 DEF DeliverNotices
  <2>2. CASE notices # << >>
    <3>1. pc' = [pc EXCEPT ![Callback] = "notice"] /\ "notice" \in CallbackLabels
      BY <1>8, <2>2 DEF DeliverNotices, Goto, CallbackLabels
    <3> QED
      BY <2>1, <3>1, <1>1
  <2>3. CASE notices = << >>
    <3>1. pc' = [t \in Threads |-> IF t = Callback THEN "idle" ELSE CallReturns(t)]
      BY <1>8, <2>3 DEF DeliverNotices
    <3>2. pc'[Callback] = "idle" /\ \A s \in Setters : pc'[s] = CallReturns(s)
      BY <3>1, <1>l
    <3>3. \A s \in Setters : CallReturns(s) \in SetterLabels
      BY DEF CallReturns, SetterLabels
    <3>4. pc' \in [Threads -> CallbackLabels \cup SetterLabels]
      BY <3>1, <3>3, <1>l DEF CallbackLabels
    <3>5. pc'[Callback] \in CallbackLabels /\ pc'[Callback] \notin {"deliver", "lock"}
      BY <3>2 DEF CallbackLabels
    <3>6. \A s \in Setters : pc'[s] \in SetterLabels
      BY <3>2, <3>3
    <3> QED
      BY <2>1, <3>4, <3>5, <3>6
  <2> QED
    BY <2>2, <2>3
<1>9. ASSUME NEW t \in Threads, NEW l, pc' = [pc EXCEPT ![t] = l], data' = data,
             t = Callback => l \in CallbackLabels /\ l \notin {"deliver", "lock"}
                             /\ pc[t] \notin {"deliver", "lock"},
             t # Callback => l \in SetterLabels
      PROVE  ThreadInv'
  <2>1. CASE t = Callback
    BY <2>1, <1>9, <1>1
  <2>2. CASE t \in Setters
    BY <2>2, <1>9, <1>2, <1>l
  <2> QED
    BY <2>1, <2>2, <1>l
<1>10. ASSUME NEW t \in Threads, OnMessage(t)
       PROVE  ThreadInv'
  <2>1. pc' = [pc EXCEPT ![t] = "flush"] /\ data' = data /\ pc[t] \in {"idle", "notice"}
    BY <1>10 DEF OnMessage, Goto
  <2> QED
    BY <2>1, <1>9 DEF CallbackLabels, SetterLabels
<1>11. ASSUME NEW t \in Threads, Flush(t) \/ FlushHandlerReturns(t)
       PROVE  ThreadInv'
  <2>1. PICK l \in {"flush", "flushBody", AfterFlush(t)} : pc' = [pc EXCEPT ![t] = l]
    BY <1>11 DEF Flush, FlushHandlerReturns, Goto
  <2>2. data' = data /\ pc[t] \in {"flush", "flushBody"}
    BY <1>11 DEF Flush, FlushHandlerReturns
  <2>3. t = Callback => l \in CallbackLabels /\ l \notin {"deliver", "lock"}
    BY DEF AfterFlush, CallbackLabels
  <2>4. t # Callback => l \in SetterLabels
    BY DEF AfterFlush, SetterLabels
  <2> QED
    BY <2>1, <2>2, <2>3, <2>4, <1>9
<1>12. ASSUME NEW t \in Threads, PostMethod(t)
       PROVE  ThreadInv'
  <2>1. pc' = [pc EXCEPT ![t] = "call"] /\ data' = data /\ t # Callback
    BY <1>12 DEF PostMethod, Goto
  <2> QED
    BY <2>1, <1>9 DEF SetterLabels
<1>13. ASSUME NEW t \in Threads, MethodRuns(t)
       PROVE  ThreadInv'
  <2>1. t # Callback /\ t \in Setters /\ data' = data /\ data = << >>
    BY <1>13, <1>l DEF MethodRuns, CallbackLabels
  <2>2. CASE pc' = [pc EXCEPT ![t] = "flushBody"]
    BY <2>1, <2>2, <1>9 DEF SetterLabels
  <2>3. CASE pc' = [pc EXCEPT ![t] = "inCall", ![Callback] = "notices"]
    <3>1. pc' \in [Threads -> CallbackLabels \cup SetterLabels]
      BY <2>3, <1>l DEF CallbackLabels, SetterLabels
    <3>2. pc'[Callback] = "notices" /\ pc'[t] = "inCall"
      BY <2>1, <2>3, <1>l
    <3>3. \A s \in Setters : s # t => pc'[s] = pc[s]
      BY <2>3, <1>l
    <3>4. \A s \in Setters : pc'[s] \in SetterLabels
      BY <3>2, <3>3 DEF SetterLabels
    <3>5. pc'[Callback] \in CallbackLabels /\ pc'[Callback] \notin {"deliver", "lock"}
      BY <3>2 DEF CallbackLabels
    <3> QED
      BY <2>1, <3>1, <3>4, <3>5
  <2> QED
    BY <1>13, <2>2, <2>3 DEF MethodRuns, Goto
<1>14. CASE Arrive \/ ArriveBad \/ CloseDone \/ UNCHANGED vars
  BY <1>14, <1>0 DEF Arrive, ArriveBad, CloseDone, vars, threadVars
<1>15. ASSUME NEW t \in Threads, Replace(t) \/ CallMethod(t)
       PROVE  ThreadInv'
  BY <1>15, <1>0 DEF Replace, CallMethod
<1> QED
  BY <1>3, <1>4, <1>5, <1>6, <1>7, <1>8, <1>10, <1>11, <1>12, <1>13, <1>14, <1>15
     DEF Next, CallbackStep, FlushStep, HandlerCall, Terminated

-----------------------------------------------------------------------------
(* There is always a handler left to create.                               *)

IdleSetters == {s \in Setters : pc[s] = "idle"}

LEMMA BoundStep ==
    ASSUME HandlerTypes, ThreadInv, BoundInv, [Next]_vars
    PROVE  BoundInv'
<1>s. IsFiniteSet(IdleSetters) /\ Cardinality(IdleSetters) \in Nat
  BY ThreadsAssumption, FS_Subset, FS_CardinalityType DEF IdleSetters
<1>l. /\ pc \in [Threads -> CallbackLabels \cup SetterLabels] /\ Callback \in Threads
      /\ Callback \notin Setters /\ Threads = Setters \cup {Callback}
  BY Limits DEF Threads, ThreadInv
<1>i. handlers \in Nat /\ calls \in Nat /\ Cardinality(Setters) \in Nat /\ Calls \in Nat
  BY Limits DEF HandlerTypes
<1>b. handlers + Cardinality(IdleSetters) + calls <= Cardinality(Setters) + Calls
  BY DEF BoundInv, IdleSetters
<1>0. ASSUME handlers' \in Nat, calls' \in Nat, handlers' + calls' <= handlers + calls,
             \A s \in Setters : pc'[s] = "idle" => pc[s] = "idle"
      PROVE  BoundInv'
  <2>1. IdleSetters' \subseteq IdleSetters
    BY <1>0 DEF IdleSetters
  <2>2. Cardinality(IdleSetters') <= Cardinality(IdleSetters) /\ Cardinality(IdleSetters') \in Nat
    BY <1>s, <2>1, FS_Subset, FS_CardinalityType
  <2>3. handlers' + Cardinality(IdleSetters') + calls' <= Cardinality(Setters) + Calls
    <3>1. \A h, c, i, h1, c1, i1, n \in Nat :
             h1 + c1 <= h + c /\ i1 <= i /\ h + i + c <= n => h1 + i1 + c1 <= n
      OBVIOUS
    <3>2. Cardinality(Setters) + Calls \in Nat
      BY <1>i
    <3> QED
      BY <1>0, <1>i, <1>s, <1>b, <2>2, <3>1, <3>2, Zenon
  <2> QED
    BY <2>3 DEF BoundInv, IdleSetters
<1>1. CASE Arrive \/ ArriveBad \/ CloseDone \/ OnFrame \/ OnBadFrame \/ OnNotice \/ Deliver
           \/ LockHandler \/ HandlerReturns \/ NoticeHandlerReturns \/ UNCHANGED vars
  <2>1. handlers' = handlers /\ calls' = calls
    BY <1>1 DEF Arrive, ArriveBad, CloseDone, OnFrame, OnBadFrame, OnNotice, Deliver, LockHandler,
                HandlerReturns, NoticeHandlerReturns, vars, slotVars, threadVars
  <2>2. pc' = pc \/ \E l : pc' = [pc EXCEPT ![Callback] = l]
    BY <1>1 DEF Arrive, ArriveBad, CloseDone, OnFrame, OnBadFrame, OnNotice, Deliver, LockHandler,
                HandlerReturns, NoticeHandlerReturns, vars, threadVars, Notify, Goto
  <2>3. \A s \in Setters : pc'[s] = pc[s]
    BY <2>2, <1>l
  <2> QED
    BY <2>1, <2>3, <1>i, <1>0
<1>2. CASE DeliverNotices
  <2>1. handlers' = handlers /\ calls' = calls
    BY <1>2 DEF DeliverNotices, slotVars
  <2>2. pc' = [pc EXCEPT ![Callback] = "notice"]
        \/ pc' = [t \in Threads |-> IF t = Callback THEN "idle" ELSE CallReturns(t)]
    BY <1>2 DEF DeliverNotices, Goto
  <2>3. \A s \in Setters : pc'[s] = "idle" => pc[s] = "idle"
    BY <2>2, <1>l DEF CallReturns
  <2> QED
    BY <2>1, <2>3, <1>i, <1>0
<1>3. ASSUME NEW t \in Threads, OnMessage(t)
      PROVE  BoundInv'
  <2>1. handlers' = handlers + 1 /\ pc' = [pc EXCEPT ![t] = "flush"]
    BY <1>3 DEF OnMessage, Publish, Goto
  <2>2. CASE t \in Setters
    <3>1. pc[t] = "idle" /\ calls' = calls
      BY <1>3, <2>2, <1>l DEF OnMessage
    <3>2. IdleSetters' = IdleSetters \ {t} /\ t \in IdleSetters
      BY <2>1, <2>2, <3>1, <1>l DEF IdleSetters
    <3>3. Cardinality(IdleSetters') = Cardinality(IdleSetters) - 1
      BY <1>s, <3>2, FS_RemoveElement
    <3>4. handlers' + Cardinality(IdleSetters') + calls' <= Cardinality(Setters) + Calls
      BY <1>i, <1>s, <1>b, <2>1, <3>1, <3>3
    <3> QED
      BY <3>4 DEF BoundInv, IdleSetters
  <2>3. CASE t = Callback
    <3>1. calls > 0 /\ calls' = calls - 1
      BY <1>3, <2>3, <1>l DEF OnMessage
    <3>2. \A s \in Setters : pc'[s] = pc[s]
      BY <2>1, <2>3, <1>l
    <3> QED
      BY <2>1, <3>1, <3>2, <1>i, <1>0
  <2> QED
    BY <2>2, <2>3, <1>l
<1>4. ASSUME NEW t \in Threads, \/ Flush(t) \/ FlushHandlerReturns(t) \/ MethodRuns(t)
                                \/ Replace(t) \/ CallMethod(t) \/ PostMethod(t)
      PROVE  BoundInv'
  <2>1. handlers' \in Nat /\ calls' \in Nat /\ handlers' + calls' <= handlers + calls
    BY <1>4, <1>i DEF Flush, FlushHandlerReturns, MethodRuns, Replace, CallMethod, PostMethod, slotVars
  <2>2. \/ pc' = pc \/ \E l \in {"flush", "flushBody", "call", AfterFlush(t)} : pc' = [pc EXCEPT ![t] = l]
        \/ pc' = [pc EXCEPT ![t] = "inCall", ![Callback] = "notices"]
    BY <1>4 DEF Flush, FlushHandlerReturns, MethodRuns, Replace, CallMethod, PostMethod, Goto
  <2>3. \A s \in Setters : pc'[s] = "idle" => pc[s] = "idle"
    BY <2>2, <1>l DEF AfterFlush
  <2> QED
    BY <2>1, <2>3, <1>0
<1> QED
  BY <1>1, <1>2, <1>3, <1>4
     DEF Next, CallbackStep, FlushStep, HandlerCall, Terminated

\* The handler a thread is about to publish is one there is a lock for.
LEMMA NextHandler ==
    ASSUME HandlerTypes, ThreadInv, BoundInv, NEW t \in Threads, OnMessage(t) \/ Replace(t)
    PROVE  handlers + 1 \in Handlers
<1>s. IsFiniteSet(IdleSetters) /\ Cardinality(IdleSetters) \in Nat
  BY ThreadsAssumption, FS_Subset, FS_CardinalityType DEF IdleSetters
<1>i. handlers \in Nat /\ calls \in Nat /\ Cardinality(Setters) \in Nat /\ Calls \in Nat
  BY Limits DEF HandlerTypes
<1>b. handlers + Cardinality(IdleSetters) + calls <= Cardinality(Setters) + Calls
  BY DEF BoundInv, IdleSetters
<1>1. CASE calls > 0
  BY <1>1, <1>s, <1>i, <1>b DEF Handlers
<1>2. CASE t \in Setters /\ pc[t] = "idle"
  <2>1. IdleSetters # {}
    BY <1>2 DEF IdleSetters
  <2>2. Cardinality(IdleSetters) # 0
    BY <2>1, <1>s, FS_EmptySet
  <2> QED
    BY <2>2, <1>s, <1>i, <1>b DEF Handlers
<1> QED
  BY <1>1, <1>2 DEF OnMessage, Replace

\* So every handler there is has a lock.
LEMMA HandlersBound ==
    ASSUME HandlerTypes, BoundInv
    PROVE  handlers <= Cardinality(Setters) + Calls /\ slot \in Handlers \cup {NoHandler}
           /\ \A t \in Threads : cb[t] \in Handlers \cup {NoHandler}
<1>s. IsFiniteSet(IdleSetters) /\ Cardinality(IdleSetters) \in Nat
  BY ThreadsAssumption, FS_Subset, FS_CardinalityType DEF IdleSetters
<1>i. handlers \in Nat /\ calls \in Nat /\ Cardinality(Setters) \in Nat /\ Calls \in Nat
  BY Limits DEF HandlerTypes
<1>b. handlers + Cardinality(IdleSetters) + calls <= Cardinality(Setters) + Calls
  BY DEF BoundInv, IdleSetters
<1>1. handlers <= Cardinality(Setters) + Calls
  BY <1>s, <1>i, <1>b
<1>2. \A h \in 0 .. handlers : h \in Handlers \cup {NoHandler}
  BY <1>1, <1>i DEF Handlers, NoHandler
<1> QED
  BY <1>1, <1>2 DEF HandlerTypes

-----------------------------------------------------------------------------
(* What is held, and by whom.                                              *)

LEMMA HeldStep ==
    ASSUME NativeTypes, HandlerTypes, ThreadInv, BoundInv, HeldInv, [Next]_vars
    PROVE  HeldInv'
<1>l. /\ pc \in [Threads -> CallbackLabels \cup SetterLabels] /\ Callback \in Threads
      /\ Callback \notin Setters /\ Threads = Setters \cup {Callback}
      /\ pc[Callback] \in CallbackLabels /\ NoThread \notin Threads
  BY Limits DEF Threads, ThreadInv
<1>h. /\ handlers \in Nat /\ slot \in 0 .. handlers /\ cb \in [Threads -> 0 .. handlers]
      /\ held \in [Threads -> Seq(Message)] /\ lock \in [Handlers -> Threads \cup {NoThread}]
  BY DEF HandlerTypes
<1>c. \A t \in Threads : cb[t] # NoHandler => cb[t] \in Handlers
  BY HandlersBound
<1>p. NoHandler = 0 /\ FlushLabels = {"flush", "flushBody", "call", "inCall"}
  BY DEF NoHandler, FlushLabels
<1>a. slot = NoHandler => /\ log = << >> /\ \A t \in Threads : pc[t] \notin FlushLabels
                          /\ pc[Callback] \notin {"lock", "body"}
  BY DEF HeldInv
<1>b. slot # NoHandler => pending = << >>
  BY DEF HeldInv
<1>t. \A t \in Threads : /\ held[t] # << >> => pc[t] \in FlushLabels
                         /\ pc[t] \in FlushLabels => cb[t] # NoHandler /\ lock[cb[t]] = t
                         /\ \A u \in Threads : held[t] # << >> /\ held[u] # << >> => t = u
  BY DEF HeldInv
<1>d. pc[Callback] \in {"lock", "body"} => cb[Callback] # NoHandler
  BY DEF HeldInv
\* Nothing changes but labels that do not matter here.
<1>0. ASSUME UNCHANGED <<slot, log, pending, held, lock, cb>>,
             \A t \in Threads : pc'[t] \in FlushLabels <=> pc[t] \in FlushLabels,
             pc'[Callback] \in {"lock", "body"} => pc[Callback] \in {"lock", "body"}
      PROVE  HeldInv'
  <2>1. \A t \in Threads : /\ held'[t] # << >> => pc'[t] \in FlushLabels
                           /\ pc'[t] \in FlushLabels => cb'[t] # NoHandler /\ lock'[cb'[t]] = t
                           /\ \A u \in Threads : held'[t] # << >> /\ held'[u] # << >> => t = u
    BY <1>0, <1>t
  <2>2. slot' = NoHandler => /\ log' = << >> /\ \A t \in Threads : pc'[t] \notin FlushLabels
                             /\ pc'[Callback] \notin {"lock", "body"}
    BY <1>0, <1>a
  <2> QED
    BY <1>0, <1>b, <1>d, <2>1, <2>2 DEF HeldInv
<1>1. CASE Arrive \/ ArriveBad \/ CloseDone \/ UNCHANGED vars
  BY <1>1, <1>0 DEF Arrive, ArriveBad, CloseDone, vars, slotVars, threadVars
<1>2. CASE OnFrame \/ OnBadFrame \/ OnNotice \/ NoticeHandlerReturns
  <2>1. UNCHANGED <<slot, log, pending, held, lock, cb>> /\ pc[Callback] \in {"idle", "notice"}
    BY <1>2 DEF OnFrame, OnBadFrame, OnNotice, NoticeHandlerReturns, slotVars
  <2>2. pc' = pc \/ \E l \in {"deliver", "notices"} : pc' = [pc EXCEPT ![Callback] = l]
    BY <1>2 DEF OnFrame, OnBadFrame, OnNotice, NoticeHandlerReturns, Notify, Goto
  <2> QED
    BY <2>1, <2>2, <1>l, <1>p, <1>0
<1>3. CASE DeliverNotices
  <2>1. UNCHANGED <<slot, log, pending, held, lock, cb>> /\ pc[Callback] = "notices"
    BY <1>3 DEF DeliverNotices, slotVars
  <2>2. pc' = [pc EXCEPT ![Callback] = "notice"]
        \/ pc' = [t \in Threads |-> IF t = Callback THEN "idle" ELSE CallReturns(t)]
    BY <1>3 DEF DeliverNotices, Goto
  <2>3. \A t \in Threads : pc'[t] \in FlushLabels <=> pc[t] \in FlushLabels
    BY <2>1, <2>2, <1>l, <1>p DEF CallReturns
  <2>4. pc'[Callback] \notin {"lock", "body"}
    BY <2>2, <1>l
  <2> QED
    BY <2>1, <2>3, <2>4, <1>0
<1>4. CASE Deliver
  <2>1. pc[Callback] = "deliver" /\ UNCHANGED <<slot, log, held, lock>>
    BY <1>4 DEF Deliver
  <2>2. CASE slot # NoHandler
    <3>1. cb' = [cb EXCEPT ![Callback] = slot] /\ pc' = [pc EXCEPT ![Callback] = "lock"] /\ pending' = pending
      BY <1>4, <2>2 DEF Deliver, Goto
    <3>2. cb'[Callback] # NoHandler /\ pc'[Callback] = "lock"
      BY <3>1, <2>2, <1>l, <1>h
    <3>3. \A t \in Threads : t # Callback => pc'[t] = pc[t] /\ cb'[t] = cb[t]
      BY <3>1, <1>l, <1>h
    <3>4. "lock" \notin FlushLabels /\ pc[Callback] \notin FlushLabels
      BY <1>p, <2>1
    <3>5. held[Callback] = << >>
      BY <1>t, <1>l, <3>4
    <3>6. \A t \in Threads : /\ held'[t] # << >> => pc'[t] \in FlushLabels
                             /\ pc'[t] \in FlushLabels => cb'[t] # NoHandler /\ lock'[cb'[t]] = t
                             /\ \A u \in Threads : held'[t] # << >> /\ held'[u] # << >> => t = u
      BY <1>t, <2>1, <3>2, <3>3, <3>4, <3>5
    <3> QED
      BY <2>1, <2>2, <3>1, <3>2, <3>6, <1>b DEF HeldInv
  <2>3. CASE slot = NoHandler
    <3>1. cb' = cb /\ pc' = [pc EXCEPT ![Callback] = "notices"]
      BY <1>4, <2>3 DEF Deliver, Goto
    <3>2. pc'[Callback] = "notices" /\ \A t \in Threads : t # Callback => pc'[t] = pc[t]
      BY <3>1, <1>l
    <3>3. \A t \in Threads : pc'[t] \notin FlushLabels /\ held[t] = << >>
      BY <3>2, <1>a, <1>t, <1>p, <2>3
    <3> QED
      BY <2>1, <2>3, <3>1, <3>2, <3>3, <1>a DEF HeldInv
  <2> QED
    BY <2>2, <2>3
<1>5. CASE LockHandler
  <2> DEFINE h == cb[Callback]
  <2>1. /\ pc[Callback] = "lock" /\ lock[h] = NoThread /\ lock' = [lock EXCEPT ![h] = Callback]
        /\ pc' = [pc EXCEPT ![Callback] = "body"] /\ UNCHANGED <<slot, pending, held, cb>>
    BY <1>5 DEF LockHandler, Goto
  <2>2. h # NoHandler /\ slot # NoHandler
    BY <2>1, <1>d, <1>a
  <2>3. pc'[Callback] = "body" /\ \A t \in Threads : t # Callback => pc'[t] = pc[t]
    BY <2>1, <1>l
  <2>4. "body" \notin FlushLabels /\ pc[Callback] \notin FlushLabels
    BY <1>p, <2>1
  <2>5. ASSUME NEW t \in Threads, pc'[t] \in FlushLabels
        PROVE  cb'[t] # NoHandler /\ lock'[cb'[t]] = t
    <3>1. t # Callback /\ pc[t] \in FlushLabels
      BY <2>5, <2>3, <2>4
    <3>2. cb[t] # NoHandler /\ lock[cb[t]] = t
      BY <3>1, <1>t
    <3>3. cb[t] # h /\ cb[t] \in Handlers
      BY <3>2, <2>1, <1>l, <1>c
    <3>4. lock'[cb[t]] = lock[cb[t]]
      BY <3>3, <2>1, <1>h
    <3> QED
      BY <3>2, <3>4, <2>1
  <2>6. \A t \in Threads : held'[t] # << >> => pc'[t] \in FlushLabels
    BY <1>t, <2>1, <2>3, <2>4
  <2>7. \A t, u \in Threads : held'[t] # << >> /\ held'[u] # << >> => t = u
    BY <1>t, <2>1
  <2> QED
    BY <1>b, <2>1, <2>2, <2>5, <2>6, <2>7 DEF HeldInv
<1>6. CASE HandlerReturns
  <2> DEFINE h == cb[Callback]
  <2>1. /\ pc[Callback] = "body"
        /\ lock' = [lock EXCEPT ![h] = IF lock[h] = Callback THEN NoThread ELSE lock[h]]
        /\ cb' = [cb EXCEPT ![Callback] = NoHandler]
        /\ pc' = [pc EXCEPT ![Callback] = "notices"] /\ UNCHANGED <<slot, pending, held, log>>
    BY <1>6 DEF HandlerReturns, Goto
  <2>2. h # NoHandler /\ slot # NoHandler
    BY <2>1, <1>d, <1>a
  <2>3. pc'[Callback] = "notices" /\ \A t \in Threads : t # Callback => pc'[t] = pc[t] /\ cb'[t] = cb[t]
    BY <2>1, <1>l, <1>h
  <2>4. "notices" \notin FlushLabels /\ pc[Callback] \notin FlushLabels
    BY <1>p, <2>1
  <2>5. ASSUME NEW t \in Threads, pc'[t] \in FlushLabels
        PROVE  cb'[t] # NoHandler /\ lock'[cb'[t]] = t
    <3>1. t # Callback /\ pc[t] \in FlushLabels
      BY <2>5, <2>3, <2>4
    <3>2. cb[t] # NoHandler /\ lock[cb[t]] = t /\ cb[t] \in Handlers
      BY <3>1, <1>t, <1>c
    <3>4. lock'[cb[t]] = lock[cb[t]]
      BY <3>1, <3>2, <2>1, <1>h
    <3> QED
      BY <3>1, <3>2, <3>4, <2>3
  <2>6. \A t \in Threads : held'[t] # << >> => pc'[t] \in FlushLabels
    BY <1>t, <2>1, <2>3, <2>4
  <2>7. \A t, u \in Threads : held'[t] # << >> /\ held'[u] # << >> => t = u
    BY <1>t, <2>1
  <2> QED
    BY <1>b, <2>1, <2>2, <2>3, <2>5, <2>6, <2>7 DEF HeldInv
<1>7. ASSUME NEW t \in Threads, OnMessage(t)
      PROVE  HeldInv'
  <2> DEFINE h == handlers + 1
  <2>1. /\ slot' = h /\ held' = [held EXCEPT ![t] = pending] /\ pending' = << >>
        /\ lock' = [lock EXCEPT ![h] = t] /\ cb' = [cb EXCEPT ![t] = h]
        /\ pc' = [pc EXCEPT ![t] = "flush"] /\ pc[t] \in {"idle", "notice"} /\ log' = log
    BY <1>7 DEF OnMessage, Publish, Goto
  <2>2. h \in Handlers /\ h # NoHandler /\ \A u \in Threads : cb[u] # h
    BY <1>7, <1>h, <1>p, NextHandler
  <2>3. /\ pc'[t] = "flush" /\ cb'[t] = h /\ lock'[h] = t /\ held'[t] = pending
        /\ \A u \in Threads : u # t => pc'[u] = pc[u] /\ cb'[u] = cb[u] /\ held'[u] = held[u]
    BY <2>1, <2>2, <1>l, <1>h
  <2>4. "flush" \in FlushLabels /\ pc[t] \notin FlushLabels
    BY <1>p, <2>1
  <2>5. ASSUME NEW u \in Threads, u # t, pc'[u] \in FlushLabels
        PROVE  cb'[u] # NoHandler /\ lock'[cb'[u]] = u
    <3>1. cb[u] # NoHandler /\ lock[cb[u]] = u /\ cb[u] \in Handlers /\ cb[u] # h
      BY <2>2, <2>3, <2>5, <1>t, <1>c
    <3>2. lock'[cb[u]] = lock[cb[u]]
      BY <3>1, <2>1, <1>h
    <3> QED
      BY <3>1, <3>2, <2>3, <2>5
  <2>6. held[t] = << >>
    BY <1>t, <2>4
  <2>7. pending # << >> => \A u \in Threads : held[u] = << >>
    BY <1>a, <1>b, <1>t
  <2>8. \A u, v \in Threads : held'[u] # << >> /\ held'[v] # << >> => u = v
    <3>1. CASE pending = << >>
      BY <3>1, <2>3, <1>t
    <3>2. CASE pending # << >>
      BY <3>2, <2>3, <2>7
    <3> QED
      BY <3>1, <3>2
  <2>9. \A u \in Threads : held'[u] # << >> => pc'[u] \in FlushLabels
    BY <1>t, <2>3, <2>4
  <2>10. pc'[Callback] \in {"lock", "body"} => cb'[Callback] # NoHandler
    BY <1>d, <1>l, <2>2, <2>3
  <2>11. slot' # NoHandler
    BY <2>1, <2>2
  <2>12. \A u \in Threads : pc'[u] \in FlushLabels => cb'[u] # NoHandler /\ lock'[cb'[u]] = u
    BY <2>2, <2>3, <2>5
  <2> QED
    BY <2>1, <2>8, <2>9, <2>10, <2>11, <2>12 DEF HeldInv
<1>8. ASSUME NEW t \in Threads, Flush(t)
      PROVE  HeldInv'
  <2>0. pc[t] = "flush" /\ UNCHANGED <<slot, pending>> /\ slot # NoHandler
        /\ cb[t] # NoHandler /\ lock[cb[t]] = t
    BY <1>8, <1>a, <1>t, <1>p DEF Flush
  <2>1. CASE held[t] # << >>
    <3>1. held' = [held EXCEPT ![t] = Tail(held[t])] /\ pc' = [pc EXCEPT ![t] = "flushBody"]
          /\ UNCHANGED <<lock, cb>>
      BY <1>8, <2>1 DEF Flush, Goto
    <3>2. /\ pc'[t] = "flushBody" /\ \A u \in Threads : u # t => pc'[u] = pc[u] /\ held'[u] = held[u]
      BY <3>1, <1>l, <1>h
    <3>3. \A u \in Threads : u # t => held'[u] = << >>
      BY <3>2, <2>1, <1>t
    <3>4. \A u \in Threads : pc'[u] \in FlushLabels <=> pc[u] \in FlushLabels
      BY <3>2, <2>0, <1>p
    <3>5. pc'[Callback] \in {"lock", "body"} => pc[Callback] \in {"lock", "body"}
      BY <3>2, <1>l
    <3>6. \A u \in Threads : /\ held'[u] # << >> => pc'[u] \in FlushLabels
                             /\ pc'[u] \in FlushLabels => cb'[u] # NoHandler /\ lock'[cb'[u]] = u
                             /\ \A v \in Threads : held'[u] # << >> /\ held'[v] # << >> => u = v
      BY <1>t, <2>0, <3>1, <3>3, <3>4, <1>p
    <3> QED
      BY <2>0, <3>1, <3>5, <3>6, <1>b, <1>d DEF HeldInv
  <2>2. CASE held[t] = << >>
    <3>1. /\ lock' = [lock EXCEPT ![cb[t]] = NoThread] /\ cb' = [cb EXCEPT ![t] = NoHandler]
          /\ pc' = [pc EXCEPT ![t] = AfterFlush(t)] /\ UNCHANGED <<held, log>>
      BY <1>8, <2>2 DEF Flush, Goto
    <3>2. /\ pc'[t] = AfterFlush(t) /\ AfterFlush(t) \notin FlushLabels /\ AfterFlush(t) \notin {"lock", "body"}
          /\ \A u \in Threads : u # t => pc'[u] = pc[u] /\ cb'[u] = cb[u]
      BY <3>1, <1>l, <1>h, <1>p DEF AfterFlush
    <3>3. ASSUME NEW u \in Threads, pc'[u] \in FlushLabels
          PROVE  cb'[u] # NoHandler /\ lock'[cb'[u]] = u
      <4>1. u # t /\ pc[u] \in FlushLabels
        BY <3>2, <3>3
      <4>2. cb[u] # NoHandler /\ lock[cb[u]] = u /\ cb[u] \in Handlers
        BY <4>1, <1>t, <1>c
      <4>3. cb[u] # cb[t]
        BY <4>1, <4>2, <2>0
      <4>4. lock'[cb[u]] = lock[cb[u]]
        BY <4>2, <4>3, <3>1, <1>h
      <4> QED
        BY <4>1, <4>2, <4>4, <3>2
    <3>4. \A u \in Threads : held'[u] # << >> => pc'[u] \in FlushLabels
      BY <1>t, <2>2, <3>1, <3>2
    <3>5. pc'[Callback] \in {"lock", "body"} => cb'[Callback] # NoHandler
      BY <3>2, <1>d, <1>l
    <3>6. \A u, v \in Threads : held'[u] # << >> /\ held'[v] # << >> => u = v
      BY <1>t, <3>1
    <3> QED
      BY <2>0, <3>3, <3>4, <3>5, <3>6, <1>b DEF HeldInv
  <2> QED
    BY <2>1, <2>2
<1>9. ASSUME NEW t \in Threads, FlushHandlerReturns(t) \/ PostMethod(t) \/ MethodRuns(t) \/ CallMethod(t)
      PROVE  HeldInv'
  <2>1. UNCHANGED <<slot, log, pending, held, lock, cb>>
    BY <1>9 DEF FlushHandlerReturns, PostMethod, MethodRuns, CallMethod, slotVars
  <2>2. CASE CallMethod(t)
    BY <2>1, <2>2, <1>0 DEF CallMethod
  <2>3. CASE FlushHandlerReturns(t)
    <3>1. pc[t] = "flushBody" /\ pc' = [pc EXCEPT ![t] = "flush"]
      BY <2>3 DEF FlushHandlerReturns, Goto
    <3> QED
      BY <3>1, <2>1, <1>0, <1>l, <1>p
  <2>4. CASE PostMethod(t)
    <3>1. pc[t] \in {"body", "notice", "flushBody"} /\ pc' = [pc EXCEPT ![t] = "call"] /\ t \in Setters
      BY <2>4, <1>l DEF PostMethod, Goto, InHandler
    <3>2. pc[t] = "flushBody"
      BY <3>1 DEF ThreadInv, SetterLabels
    <3> QED
      BY <3>1, <3>2, <2>1, <1>0, <1>l, <1>p
  <2>5. CASE MethodRuns(t)
    <3>1. pc[t] = "call" /\ pc[Callback] = "idle" /\ t # Callback
      BY <2>5 DEF MethodRuns
    <3>2. \/ pc' = [pc EXCEPT ![t] = "flushBody"]
          \/ pc' = [pc EXCEPT ![t] = "inCall", ![Callback] = "notices"]
      BY <2>5 DEF MethodRuns, Goto
    <3> QED
      BY <3>1, <3>2, <2>1, <1>0, <1>l, <1>p
  <2> QED
    BY <1>9, <2>2, <2>3, <2>4, <2>5
<1>10. ASSUME NEW t \in Threads, Replace(t)
       PROVE  HeldInv'
  <2>1. slot # NoHandler /\ slot' = handlers + 1 /\ UNCHANGED <<lock, pending, held, pc, cb, log>>
    BY <1>10 DEF Replace
  <2>2. slot' # NoHandler
    BY <2>1, <1>h, <1>p
  <2> QED
    BY <2>1, <2>2, <1>b, <1>t, <1>d DEF HeldInv
<1> QED
  BY <1>1, <1>2, <1>3, <1>4, <1>5, <1>6, <1>7, <1>8, <1>9, <1>10
     DEF Next, CallbackStep, FlushStep, HandlerCall, Terminated

-----------------------------------------------------------------------------
(* Events at the front and at the back of the stream.                      *)

LEMMA FramesFacts ==
    ASSUME NEW e \in Seq(Event)
    PROVE  /\ Len(e) \in Nat
           /\ \A i \in Frames(e) : /\ i \in DOMAIN e /\ i \in Nat /\ i >= 1 /\ i <= Len(e)
                                   /\ e[i].frame \in Frame
           /\ \A i \in DOMAIN e : i \in Nat /\ i >= 1 /\ i <= Len(e) /\ e[i] \in Event
           /\ \A i \in DOMAIN e : i \in Frames(e) <=> e[i].type = "frame"
<1>1. Len(e) \in Nat /\ DOMAIN e = 1 .. Len(e) /\ \A i \in DOMAIN e : e[i] \in Event
  BY InSeq
<1>2. \A i \in DOMAIN e : e[i].type = "frame" => e[i].frame \in Frame
  BY <1>1, EventFacts
<1>3. \A i \in DOMAIN e : i \in Nat /\ i >= 1 /\ i <= Len(e)
  BY <1>1
<1> QED
  BY <1>1, <1>2, <1>3 DEF Frames

LEMMA FramesTail ==
    ASSUME NEW e \in Seq(Event), e # << >>
    PROVE  /\ \A i \in Frames(Tail(e)) : i + 1 \in Frames(e)
           /\ \A i \in Frames(e) : i # 1 => i - 1 \in Frames(Tail(e))
           /\ \A i \in DOMAIN Tail(e) : i + 1 \in DOMAIN e /\ Tail(e)[i] = e[i + 1]
BY TailFacts DEF Frames

LEMMA FramesAppend ==
    ASSUME NEW e \in Seq(Event), NEW x \in Event
    PROVE  /\ x.type # "frame" => Frames(Append(e, x)) = Frames(e)
           /\ x.type = "frame" => Frames(Append(e, x)) = Frames(e) \cup {Len(e) + 1}
BY AppendFacts DEF Frames

LEMMA TailStream ==
    ASSUME NEW e \in Seq(Event), e # << >>, NEW p, NEW at, Stream(e, p, at)
    PROVE  Stream(Tail(e), p, at)
<1> DEFINE d == Tail(e)
<1>0. d \in Seq(Event)
  BY TailFacts
<1>t. /\ \A i \in Frames(d) : i + 1 \in Frames(e)
      /\ \A i \in Frames(e) : i # 1 => i - 1 \in Frames(d)
      /\ \A i \in DOMAIN d : i + 1 \in DOMAIN e /\ d[i] = e[i + 1]
  BY FramesTail
<1>d. \A i \in DOMAIN d : i \in Nat /\ i >= 1
  BY <1>0, FramesFacts
<1>e. \A i \in Frames(e) : i \in Nat /\ i >= 1
  BY FramesFacts
<1>f. \A i \in Frames(d) : i \in DOMAIN d
  BY DEF Frames
<1> HIDE DEF d
<1>1. \A i \in Frames(d) :
         /\ d[i].frame.msg \in DOMAIN p /\ d[i].frame.to <= p[d[i].frame.msg]
         /\ ~d[i].frame.more => d[i].frame.to = p[d[i].frame.msg]
  BY <1>t, <1>f DEF Stream
<1>2. ASSUME NEW i \in DOMAIN d, NEW j \in DOMAIN d, Adjacent(d, i, j)
      PROVE  Follows(d[i].frame, d[j].frame)
  <2>1. i + 1 \in Frames(e) /\ j + 1 \in Frames(e) /\ i + 1 < j + 1
    BY <1>2, <1>t, <1>d DEF Adjacent
  <2>2. ASSUME NEW k \in Frames(e), i + 1 < k, k < j + 1
        PROVE  FALSE
    <3>1. k - 1 \in Frames(d) /\ i < k - 1 /\ k - 1 < j
      BY <2>2, <1>t, <1>d, <1>e
    <3> QED
      BY <3>1, <1>2 DEF Adjacent
  <2>3. Adjacent(e, i + 1, j + 1)
    BY <2>1, <2>2 DEF Adjacent
  <2> QED
    BY <2>3, <1>t DEF Stream
<1>3. ASSUME NEW i \in DOMAIN d, Last(d, i)
      PROVE  /\ d[i].frame.msg = Len(p) /\ (d[i].frame.more <=> at # -1)
             /\ at # -1 => d[i].frame.to = at
  <2>1. i + 1 \in Frames(e)
    BY <1>3, <1>t DEF Last
  <2>2. ASSUME NEW k \in Frames(e)
        PROVE  k <= i + 1
    <3>1. CASE k = 1
      BY <3>1, <1>d
    <3>2. CASE k # 1
      <4>1. k - 1 \in Frames(d)
        BY <3>2, <1>t
      <4>2. k - 1 <= i
        BY <4>1, <1>3 DEF Last
      <4> QED
        BY <4>2, <1>d, <1>e
    <3> QED
      BY <3>1, <3>2
  <2>3. Last(e, i + 1)
    BY <2>1, <2>2 DEF Last
  <2> QED
    BY <2>3, <1>t DEF Stream
<1>4. ASSUME NEW i \in DOMAIN d, d[i].type = "bad"
      PROVE  /\ (\A k \in Frames(d) : k < i) => at = -1
             /\ \A j \in Frames(d) : i < j /\ (\A k \in Frames(d) : ~ (i < k /\ k < j)) =>
                  d[j].frame.from = 0
  <2>0. i + 1 \in DOMAIN e /\ e[i + 1].type = "bad"
    BY <1>4, <1>t
  <2>b. /\ (\A k \in Frames(e) : k < i + 1) => at = -1
        /\ \A j \in Frames(e) : i + 1 < j /\ (\A k \in Frames(e) : ~ (i + 1 < k /\ k < j)) =>
             e[j].frame.from = 0
    BY <2>0 DEF Stream
  <2>1. ASSUME \A k \in Frames(d) : k < i
        PROVE  at = -1
    <3>1. ASSUME NEW k \in Frames(e)
          PROVE  k < i + 1
      <4>1. CASE k = 1
        BY <4>1, <1>d
      <4>2. CASE k # 1
        <5>1. k - 1 < i
          BY <4>2, <2>1, <1>t
        <5> QED
          BY <5>1, <1>d, <1>e
      <4> QED
        BY <4>1, <4>2
    <3> QED
      BY <3>1, <2>b
  <2>2. ASSUME NEW j \in Frames(d), i < j, \A k \in Frames(d) : ~ (i < k /\ k < j)
        PROVE  d[j].frame.from = 0
    <3>1. j + 1 \in Frames(e) /\ i + 1 < j + 1 /\ d[j] = e[j + 1]
      BY <2>2, <1>t, <1>d, <1>f
    <3>2. ASSUME NEW k \in Frames(e), i + 1 < k, k < j + 1
          PROVE  FALSE
      <4>1. k - 1 \in Frames(d) /\ i < k - 1 /\ k - 1 < j
        BY <3>2, <1>t, <1>d, <1>e, <1>f
      <4> QED
        BY <4>1, <2>2
    <3> QED
      BY <3>1, <3>2, <2>b
  <2> QED
    BY <2>1, <2>2
<1>5. ASSUME NEW i \in DOMAIN d, d[i].type = "notice" /\ d[i].notice = "closed",
             NEW k \in Frames(d)
      PROVE  k < i
  <2>1. k + 1 < i + 1
    BY <1>5, <1>t DEF Stream
  <2> QED
    BY <2>1, <1>d, <1>f
<1> QED
  BY <1>1, <1>2, <1>3, <1>4, <1>5 DEF Stream, d

\* A bad frame between two messages, or a notice, comes in.
LEMMA AppendOther ==
    ASSUME NEW e \in Seq(Event), NEW p, NEW at, Stream(e, p, at),
           NEW x \in Event, x.type # "frame", x.type = "bad" => at = -1
    PROVE  /\ Stream(Append(e, x), p, at)
           /\ \A b, sk, open : Ahead(e, p, at, b, sk, open) => Ahead(Append(e, x), p, at, b, sk, open)
<1> DEFINE d == Append(e, x)
<1>1. Frames(d) = Frames(e)
  BY FramesAppend
<1>2. /\ \A i \in DOMAIN e : i \in DOMAIN d /\ d[i] = e[i]
      /\ \A i \in DOMAIN d : (i \in DOMAIN e /\ d[i] = e[i]) \/ (i = Len(e) + 1 /\ d[i] = x)
  BY AppendFacts
<1>3. /\ \A i \in Frames(e) : i \in DOMAIN e /\ i \in Nat /\ i < Len(e) + 1 /\ d[i] = e[i]
      /\ Len(e) \in Nat
  BY <1>2, FramesFacts
<1> HIDE DEF d
<1>4. \A i, j : /\ Adjacent(d, i, j) <=> Adjacent(e, i, j)
                /\ Last(d, i) <=> Last(e, i)
                /\ First(d, i) <=> First(e, i)
  BY <1>1 DEF Adjacent, Last, First
<1>5. \A i \in Frames(d) :
         /\ d[i].frame.msg \in DOMAIN p /\ d[i].frame.to <= p[d[i].frame.msg]
         /\ ~d[i].frame.more => d[i].frame.to = p[d[i].frame.msg]
  BY <1>1, <1>3 DEF Stream
<1>6. \A i, j \in DOMAIN d : Adjacent(d, i, j) => Follows(d[i].frame, d[j].frame)
  <2> TAKE i, j \in DOMAIN d
  <2> HAVE Adjacent(d, i, j)
  <2>1. Adjacent(e, i, j) /\ i \in Frames(e) /\ j \in Frames(e)
    BY <1>4 DEF Adjacent
  <2> QED
    BY <2>1, <1>3 DEF Stream
<1>7. \A i \in DOMAIN d : Last(d, i) =>
         /\ d[i].frame.msg = Len(p) /\ (d[i].frame.more <=> at # -1)
         /\ at # -1 => d[i].frame.to = at
  <2> TAKE i \in DOMAIN d
  <2> HAVE Last(d, i)
  <2>1. Last(e, i) /\ i \in Frames(e)
    BY <1>4 DEF Last
  <2> QED
    BY <2>1, <1>3 DEF Stream
<1>8. ASSUME NEW i \in DOMAIN d, d[i].type = "bad"
      PROVE  /\ (\A k \in Frames(d) : k < i) => at = -1
             /\ \A j \in Frames(d) : i < j /\ (\A k \in Frames(d) : ~ (i < k /\ k < j)) =>
                  d[j].frame.from = 0
  <2>1. CASE i \in DOMAIN e /\ d[i] = e[i]
    BY <2>1, <1>8, <1>1, <1>3 DEF Stream
  <2>2. CASE i = Len(e) + 1 /\ d[i] = x
    BY <2>2, <1>8, <1>1, <1>3
  <2> QED
    BY <2>1, <2>2, <1>2
<1>9. ASSUME NEW i \in DOMAIN d, d[i].type = "notice" /\ d[i].notice = "closed",
             NEW k \in Frames(d)
      PROVE  k < i
  <2>1. CASE i \in DOMAIN e /\ d[i] = e[i]
    BY <2>1, <1>9, <1>1 DEF Stream
  <2>2. CASE i = Len(e) + 1
    BY <2>2, <1>9, <1>1, <1>3
  <2> QED
    BY <2>1, <2>2, <1>2
<1>10. Stream(d, p, at)
  BY <1>5, <1>6, <1>7, <1>8, <1>9 DEF Stream
<1>11. ASSUME NEW b, NEW sk, NEW open, Ahead(e, p, at, b, sk, open)
       PROVE  Ahead(d, p, at, b, sk, open)
  <2>1. \A i \in DOMAIN d : First(d, i) =>
          Expects(b, sk, d[i].frame.msg, d[i].frame.from, p[d[i].frame.msg])
    <3> TAKE i \in DOMAIN d
    <3> HAVE First(d, i)
    <3>1. First(e, i) /\ i \in Frames(e)
      BY <1>4 DEF First
    <3> QED
      BY <3>1, <1>3, <1>11 DEF Ahead
  <2> QED
    BY <2>1, <1>1, <1>11 DEF Ahead
<1> QED
  BY <1>10, <1>11 DEF d

\* The peer's next frame f comes in, on a channel whose close has not.
LEMMA AppendFrame ==
    ASSUME NEW e \in Seq(Event), NEW p \in Seq(Nat), NEW at \in Nat \cup {-1}, Stream(e, p, at),
           \A i \in DOMAIN e : e[i] # NoticeEvent("closed"),
           NEW f \in Frame, NEW q \in Seq(Nat), NEW az \in Nat \cup {-1},
           \A i \in DOMAIN p : i \in DOMAIN q /\ q[i] = p[i],
           f.msg = Len(q), Len(q) \in DOMAIN q, f.to <= q[Len(q)],
           ~f.more => f.to = q[Len(q)],
           f.more <=> az # -1, az # -1 => f.to = az,
           IF at = -1 THEN Len(q) = Len(p) + 1 /\ f.from = 0 ELSE q = p /\ f.from = at
    PROVE  /\ Stream(Append(e, FrameEvent(f)), q, az)
           /\ \A b, sk : Ahead(e, p, at, b, sk, TRUE) =>
                            Ahead(Append(e, FrameEvent(f)), q, az, b, sk, TRUE)
<1> DEFINE x == FrameEvent(f)
           d == Append(e, x)
           n == Len(e) + 1
<1>0. x \in Event /\ x.type = "frame" /\ x.frame = f
  BY EventKinds
<1>1. Frames(d) = Frames(e) \cup {n}
  BY <1>0, FramesAppend
<1>2. /\ \A i \in DOMAIN e : i \in DOMAIN d /\ d[i] = e[i]
      /\ \A i \in DOMAIN d : (i \in DOMAIN e /\ d[i] = e[i]) \/ i = n
      /\ n \in DOMAIN d /\ d[n].frame = f /\ d[n].type = "frame"
  BY <1>0, AppendFacts
<1>3. /\ \A i \in Frames(e) : i \in DOMAIN e /\ i \in Nat /\ i < n /\ d[i] = e[i]
      /\ \A i \in DOMAIN e : i \in Nat /\ i < n /\ e[i] \in Event
      /\ n \in Nat
  BY <1>2, FramesFacts
<1>p. /\ \A i \in Frames(e) : /\ e[i].frame.msg \in DOMAIN p /\ e[i].frame.to <= p[e[i].frame.msg]
                              /\ ~e[i].frame.more => e[i].frame.to = p[e[i].frame.msg]
      /\ \A i, j \in DOMAIN e : Adjacent(e, i, j) => Follows(e[i].frame, e[j].frame)
      /\ \A i \in DOMAIN e : Last(e, i) =>
            /\ e[i].frame.msg = Len(p) /\ (e[i].frame.more <=> at # -1)
            /\ at # -1 => e[i].frame.to = at
      /\ \A i \in DOMAIN e : e[i].type = "bad" =>
            /\ (\A k \in Frames(e) : k < i) => at = -1
            /\ \A j \in Frames(e) : i < j /\ (\A k \in Frames(e) : ~ (i < k /\ k < j)) =>
                  e[j].frame.from = 0
  BY DEF Stream
<1>f. f.msg = Len(q) /\ f.msg \in DOMAIN q /\ f.from \in Nat /\ Len(p) \in Nat
  BY FrameFacts, InSeq
<1> HIDE DEF d, n, x
<1>4. \A i \in Frames(d) :
         /\ d[i].frame.msg \in DOMAIN q /\ d[i].frame.to <= q[d[i].frame.msg]
         /\ ~d[i].frame.more => d[i].frame.to = q[d[i].frame.msg]
  <2> TAKE i \in Frames(d)
  <2>1. CASE i = n
    BY <2>1, <1>2, <1>f
  <2>2. CASE i \in Frames(e)
    BY <2>2, <1>3, <1>p
  <2> QED
    BY <2>1, <2>2, <1>1
<1>5. ASSUME NEW i \in DOMAIN d, NEW j \in DOMAIN d, Adjacent(d, i, j)
      PROVE  Follows(d[i].frame, d[j].frame)
  <2>1. i < j /\ i \in Frames(d) /\ j \in Frames(d)
    BY <1>5 DEF Adjacent
  <2>2. i \in Frames(e)
    BY <2>1, <1>1, <1>3
  <2>3. CASE j \in Frames(e)
    <3>1. Adjacent(e, i, j)
      BY <1>5, <1>1, <2>2, <2>3 DEF Adjacent
    <3> QED
      BY <3>1, <2>2, <2>3, <1>3, <1>p
  <2>4. CASE j = n
    <3>1. Last(e, i)
      <4>1. ASSUME NEW k \in Frames(e)
            PROVE  k <= i
        BY <1>5, <1>1, <1>3, <2>2, <2>4 DEF Adjacent
      <4> QED
        BY <4>1, <2>2 DEF Last
    <3>2. /\ e[i].frame.msg = Len(p) /\ (e[i].frame.more <=> at # -1)
          /\ at # -1 => e[i].frame.to = at
      BY <3>1, <2>2, <1>3, <1>p
    <3>3. d[i].frame = e[i].frame /\ d[j].frame = f
      BY <2>2, <2>4, <1>2, <1>3
    <3> QED
      BY <3>2, <3>3, <1>f DEF Follows
  <2> QED
    BY <2>1, <2>3, <2>4, <1>1
<1>6. ASSUME NEW i \in DOMAIN d, Last(d, i)
      PROVE  /\ d[i].frame.msg = Len(q) /\ (d[i].frame.more <=> az # -1)
             /\ az # -1 => d[i].frame.to = az
  <2>0. i \in Frames(d) /\ n \in Frames(d) /\ n <= i
    BY <1>6, <1>1 DEF Last
  <2>1. i = n
    <3>1. CASE i \in Frames(e)
      BY <2>0, <3>1, <1>3
    <3> QED
      BY <2>0, <3>1, <1>1
  <2> QED
    BY <2>1, <1>2
<1>7. ASSUME NEW i \in DOMAIN d, d[i].type = "bad"
      PROVE  /\ (\A k \in Frames(d) : k < i) => az = -1
             /\ \A j \in Frames(d) : i < j /\ (\A k \in Frames(d) : ~ (i < k /\ k < j)) =>
                  d[j].frame.from = 0
  <2>1. i \in DOMAIN e /\ e[i].type = "bad" /\ i < n
    BY <1>7, <1>2, <1>3
  <2>2. ~ (\A k \in Frames(d) : k < i)
    <3>1. n \in Frames(d) /\ n \in Nat /\ i \in Nat
      BY <2>1, <1>1, <1>3
    <3>2. ~ (n < i)
      BY <2>1, <3>1
    <3> QED
      BY <3>1, <3>2
  <2>3. ASSUME NEW j \in Frames(d), i < j, \A k \in Frames(d) : ~ (i < k /\ k < j)
        PROVE  d[j].frame.from = 0
    <3>1. CASE j \in Frames(e)
      BY <3>1, <2>1, <2>3, <1>1, <1>3, <1>p
    <3>2. CASE j = n
      <4>1. ASSUME NEW k \in Frames(e)
            PROVE  k < i
        <5>1. k # i
          BY <2>1 DEF Frames
        <5>2. ~ (i < k /\ k < n)
          BY <2>3, <3>2, <1>1
        <5> QED
          BY <5>1, <5>2, <2>1, <1>3
      <4>2. at = -1
        BY <4>1, <2>1, <1>p
      <4> QED
        BY <4>2, <3>2, <1>2
    <3> QED
      BY <3>1, <3>2, <1>1
  <2> QED
    BY <2>2, <2>3
<1>8. \A i \in DOMAIN d : ~ (d[i].type = "notice" /\ d[i].notice = "closed")
  <2> TAKE i \in DOMAIN d
  <2>1. CASE i = n
    BY <2>1, <1>2
  <2>2. CASE i \in DOMAIN e /\ d[i] = e[i]
    <3>1. ASSUME e[i].type = "notice", e[i].notice = "closed"
          PROVE  FALSE
      <4>1. e[i] \in Event
        BY <2>2, <1>3
      <4>2. PICK m \in Notice : e[i] = NoticeEvent(m)
        BY <4>1, <3>1, EventKinds DEF Event
      <4>3. m = "closed"
        BY <4>2, <3>1, EventKinds
      <4> QED
        BY <2>2, <4>2, <4>3
    <3> QED
      BY <3>1, <2>2
  <2> QED
    BY <2>1, <2>2, <1>2
<1>9. Stream(d, q, az)
  BY <1>4, <1>5, <1>6, <1>7, <1>8 DEF Stream
<1>10. ASSUME NEW b, NEW sk, Ahead(e, p, at, b, sk, TRUE)
       PROVE  Ahead(d, q, az, b, sk, TRUE)
  <2>1. Frames(d) # {}
    BY <1>1
  <2>2. ASSUME NEW i \in DOMAIN d, First(d, i)
        PROVE  Expects(b, sk, d[i].frame.msg, d[i].frame.from, q[d[i].frame.msg])
    <3>1. CASE i \in Frames(e)
      <4>1. First(e, i)
        BY <2>2, <3>1, <1>1 DEF First
      <4>2. Expects(b, sk, e[i].frame.msg, e[i].frame.from, p[e[i].frame.msg])
        BY <4>1, <3>1, <1>3, <1>10 DEF Ahead
      <4>3. q[e[i].frame.msg] = p[e[i].frame.msg] /\ d[i] = e[i]
        BY <3>1, <1>3, <1>p
      <4> QED
        BY <4>2, <4>3
    <3>2. CASE i = n
      <4>1. Frames(e) = {}
        <5> SUFFICES ASSUME NEW k \in Frames(e) PROVE FALSE
          OBVIOUS
        <5>1. n <= k /\ k < n
          BY <2>2, <3>2, <1>1, <1>3 DEF First
        <5> QED
          BY <5>1, <1>3
      <4>2. IF at = -1 THEN b = << >> /\ ~sk ELSE Expects(b, sk, Len(p), at, p[Len(p)])
        BY <4>1, <1>10 DEF Ahead
      <4>3. d[i].frame = f
        BY <3>2, <1>2
      <4>4. CASE at = -1
        BY <4>2, <4>3, <4>4 DEF Expects
      <4>5. CASE at # -1
        BY <4>2, <4>3, <4>5, <1>f
      <4> QED
        BY <4>4, <4>5
    <3> QED
      BY <3>1, <3>2, <2>2, <1>1 DEF First
  <2> QED
    BY <2>1, <2>2 DEF Ahead
<1> QED
  BY <1>9, <1>10 DEF d, x

\* What the reassembler is left with by the frame f.
Took(b, sk, f, p) ==
    IF f.more THEN /\ b # << >> => b[1].msg = f.msg /\ b[Len(b)].to = f.to
                   /\ b = << >> => sk
                   /\ sk => p[f.msg] > MaxMessageSize
    ELSE b = << >> /\ ~sk

\* The first frame goes out: the reassembler then expects the one after it.
LEMMA FrameOut ==
    ASSUME NEW e \in Seq(Event), e # << >>, Head(e).type = "frame",
           NEW p, NEW at, Stream(e, p, at),
           NEW b, NEW sk, NEW open, Took(b, sk, Head(e).frame, p)
    PROVE  Ahead(Tail(e), p, at, b, sk, open)
<1> DEFINE d == Tail(e)
           f == e[1].frame
<1>0. /\ d \in Seq(Event) /\ 1 \in Frames(e) /\ Head(e).frame = f /\ f \in Frame
  BY TailFacts, EventFacts DEF Frames
<1>t. /\ \A i \in Frames(d) : i + 1 \in Frames(e)
      /\ \A i \in Frames(e) : i # 1 => i - 1 \in Frames(d)
      /\ \A i \in DOMAIN d : i + 1 \in DOMAIN e /\ d[i] = e[i + 1]
  BY FramesTail
<1>d. \A i \in Frames(d) : i \in Nat /\ i >= 1 /\ i \in DOMAIN d
  BY <1>0, FramesFacts
<1>e. \A i \in Frames(e) : i \in Nat /\ i >= 1 /\ i \in DOMAIN e
  BY FramesFacts
<1>f. f.from \in Nat /\ f.to \in Nat /\ f.msg \in Nat /\ f.more \in BOOLEAN
  BY <1>0, FrameFacts
<1>k. Took(b, sk, f, p)
  BY <1>0
<1> HIDE DEF d, f
<1>1. ASSUME NEW i \in DOMAIN d, First(d, i)
      PROVE  Expects(b, sk, d[i].frame.msg, d[i].frame.from, p[d[i].frame.msg])
  <2>0. i \in Frames(d) /\ i + 1 \in Frames(e) /\ 1 < i + 1 /\ d[i] = e[i + 1]
    BY <1>1, <1>t, <1>d DEF First
  <2>1. ASSUME NEW k \in Frames(e), 1 < k, k < i + 1
        PROVE  FALSE
    <3>1. k - 1 \in Frames(d) /\ k - 1 < i
      BY <2>0, <2>1, <1>t, <1>d, <1>e
    <3>2. i <= k - 1
      BY <3>1, <1>1 DEF First
    <3> QED
      BY <3>1, <3>2, <2>0, <1>d
  <2>2. Adjacent(e, 1, i + 1)
    BY <2>0, <2>1, <1>0 DEF Adjacent
  <2>3. Follows(f, d[i].frame)
    BY <2>0, <2>2, <1>0, <1>e DEF Stream, f
  <2> DEFINE g == d[i].frame
  <2>4. Follows(f, g)
    BY <2>3
  <2> HIDE DEF g
  <2>5. Expects(b, sk, g.msg, g.from, p[g.msg])
    <3>1. CASE f.more
      <4>1. g.msg = f.msg /\ g.from = f.to
        BY <3>1, <2>4 DEF Follows
      <4> QED
        BY <3>1, <4>1, <1>k DEF Took, Expects
    <3>2. CASE ~f.more
      <4>1. g.from = 0
        BY <3>2, <2>4 DEF Follows
      <4> QED
        BY <3>2, <4>1, <1>k DEF Took, Expects
    <3> QED
      BY <3>1, <3>2
  <2> QED
    BY <2>5 DEF g
<1>2. ASSUME Frames(d) = {}
      PROVE  IF at = -1 THEN b = << >> /\ ~sk ELSE Expects(b, sk, Len(p), at, p[Len(p)])
  <2>1. Last(e, 1)
    BY <1>0, <1>2, <1>t, <1>e DEF Last
  <2>2. f.msg = Len(p) /\ (f.more <=> at # -1) /\ (at # -1 => f.to = at)
    BY <2>1, <1>0, <1>e DEF Stream, f
  <2>3. CASE at = -1
    BY <2>2, <2>3, <1>k DEF Took
  <2>4. CASE at # -1
    BY <2>2, <2>4, <1>k DEF Took, Expects
  <2> QED
    BY <2>3, <2>4
<1> QED
  BY <1>1, <1>2 DEF Ahead, d

\* A bad frame goes out, and the reassembler expects a message's first frame; or a
\* notice does.
LEMMA OtherOut ==
    ASSUME NEW e \in Seq(Event), e # << >>, Head(e).type # "frame",
           NEW p, NEW at, Stream(e, p, at), NEW b, NEW sk, NEW open
    PROVE  /\ Ahead(e, p, at, b, sk, open) => Ahead(Tail(e), p, at, b, sk, open)
           /\ Head(e).type = "bad" => Ahead(Tail(e), p, at, << >>, FALSE, FALSE)
           /\ Head(e).type = "notice" /\ Head(e).notice = "closed" =>
                 Ahead(Tail(e), p, at, << >>, FALSE, FALSE)
<1> DEFINE d == Tail(e)
<1>0. /\ d \in Seq(Event) /\ 1 \notin Frames(e) /\ Head(e) = e[1] /\ 1 \in DOMAIN e
  BY TailFacts DEF Frames
<1>t. /\ \A i \in Frames(d) : i + 1 \in Frames(e)
      /\ \A i \in Frames(e) : i # 1 => i - 1 \in Frames(d)
      /\ \A i \in DOMAIN d : i + 1 \in DOMAIN e /\ d[i] = e[i + 1]
  BY FramesTail
<1>d. \A i \in Frames(d) : i \in Nat /\ i >= 1 /\ i \in DOMAIN d
  BY <1>0, FramesFacts
<1>e. \A i \in Frames(e) : i \in Nat /\ i >= 1 /\ i \in DOMAIN e
  BY FramesFacts
<1> HIDE DEF d
<1>1. ASSUME NEW i, First(d, i)
      PROVE  First(e, i + 1) /\ d[i] = e[i + 1] /\ i \in Frames(d) /\ i + 1 \in Frames(e)
  <2>1. i \in Frames(d) /\ i + 1 \in Frames(e)
    BY <1>1, <1>t DEF First
  <2>2. ASSUME NEW k \in Frames(e)
        PROVE  i + 1 <= k
    <3>1. k - 1 \in Frames(d)
      BY <1>0, <1>t
    <3>2. i <= k - 1
      BY <3>1, <1>1 DEF First
    <3> QED
      BY <3>2, <2>1, <1>d, <1>e
  <2> QED
    BY <2>1, <2>2, <1>t, <1>d DEF First
<1>2. ASSUME Ahead(e, p, at, b, sk, open)
      PROVE  Ahead(d, p, at, b, sk, open)
  <2>1. ASSUME NEW i \in DOMAIN d, First(d, i)
        PROVE  Expects(b, sk, d[i].frame.msg, d[i].frame.from, p[d[i].frame.msg])
    BY <2>1, <1>1, <1>2, <1>e DEF Ahead
  <2>2. Frames(d) = {} => Frames(e) = {}
    BY <1>0, <1>t
  <2> QED
    BY <2>1, <2>2, <1>2 DEF Ahead
<1>3. ASSUME Head(e).type = "bad"
      PROVE  Ahead(d, p, at, << >>, FALSE, FALSE)
  <2>1. ASSUME NEW i \in DOMAIN d, First(d, i)
        PROVE  Expects(<< >>, FALSE, d[i].frame.msg, d[i].frame.from, p[d[i].frame.msg])
    <3>1. First(e, i + 1) /\ d[i] = e[i + 1] /\ i \in Frames(d) /\ i + 1 \in Frames(e)
      BY <2>1, <1>1
    <3>2. 1 < i + 1 /\ \A k \in Frames(e) : ~ (1 < k /\ k < i + 1)
      BY <3>1, <1>d, <1>e DEF First
    <3>3. e[i + 1].frame.from = 0
      BY <3>1, <3>2, <1>0, <1>3 DEF Stream
    <3> QED
      BY <3>1, <3>3 DEF Expects
  <2> QED
    BY <2>1 DEF Ahead
<1>4. ASSUME Head(e).type = "notice", Head(e).notice = "closed"
      PROVE  Ahead(d, p, at, << >>, FALSE, FALSE)
  <2>1. \A k \in Frames(e) : k < 1
    BY <1>0, <1>4 DEF Stream
  <2>2. Frames(e) = {}
    BY <2>1, <1>e
  <2>3. \A i : ~First(d, i)
    BY <2>2, <1>1
  <2> QED
    BY <2>3 DEF Ahead
<1> QED
  BY <1>2, <1>3, <1>4 DEF d

-----------------------------------------------------------------------------
(* What the reassembler makes of a frame it accepts.                       *)

LEMMA Pushes ==
    ASSUME NativeTypes, StreamInv, events # << >>, Head(events).type = "frame"
    PROVE  LET f     == Head(events).frame
               skips == skipping \/ TooLarge(f)
               got   == IF skips THEN << >> ELSE Append(buf, f)
           IN /\ f \in Frame /\ f.msg \in DOMAIN peer
              /\ skips => peer[f.msg] > MaxMessageSize
              /\ f.more => Took(got, skips, f, peer) /\ Part(got)
              /\ ~f.more /\ ~skips => Passed(got, peer) /\ Number(got) = f.msg
<1> DEFINE f     == Head(events).frame
           skips == skipping \/ TooLarge(f)
           got   == IF skips THEN << >> ELSE Append(buf, f)
<1>n. events \in Seq(Event) /\ peer \in Seq(Nat) /\ buf \in Seq(Frame) /\ skipping \in BOOLEAN
  BY DEF NativeTypes, Message
<1>0. 1 \in Frames(events) /\ Head(events) = events[1] /\ f \in Frame /\ 1 \in DOMAIN events
  BY <1>n, TailFacts, EventFacts DEF Frames
<1>1. First(events, 1)
  BY <1>0, <1>n, FramesFacts DEF First
<1>2. Expects(buf, skipping, f.msg, f.from, peer[f.msg])
  BY <1>0, <1>1 DEF StreamInv, Ahead
<1>3. f.msg \in DOMAIN peer /\ f.to <= peer[f.msg] /\ (~f.more => f.to = peer[f.msg])
  BY <1>0 DEF StreamInv, Stream
<1>4. /\ f.from \in Nat /\ f.to \in Nat /\ peer[f.msg] \in Nat /\ f.more \in BOOLEAN
      /\ MaxMessageSize \in Nat
  BY <1>0, <1>3, <1>n, FrameFacts, Limits
<1>5. ~skipping => Payload(buf) = f.from
  <2>1. CASE buf = << >>
    BY <2>1, <1>2 DEF Payload, Expects
  <2>2. CASE buf # << >>
    <3>1. buf[Len(buf)].to = f.from /\ buf[1].from = 0
      BY <2>2, <1>2 DEF Expects, StreamInv, Part
    <3> QED
      BY <2>2, <3>1, <1>4 DEF Payload
  <2> QED
    BY <2>1, <2>2
<1>6. ~skipping => (TooLarge(f) <=> f.to > MaxMessageSize)
  BY <1>4, <1>5 DEF TooLarge
<1>7. skips => peer[f.msg] > MaxMessageSize
  BY <1>2, <1>3, <1>4, <1>6 DEF Expects
<1>b. /\ buf # << >> => buf[1].msg = f.msg /\ buf[Len(buf)].to = f.from
      /\ buf # << >> => /\ buf[1].from = 0
                        /\ \A i \in DOMAIN buf : buf[i].msg = buf[1].msg /\ buf[i].more
                        /\ \A i \in 1 .. Len(buf) - 1 : buf[i + 1].from = buf[i].to
      /\ buf = << >> /\ ~skipping => f.from = 0
  BY <1>2 DEF Expects, StreamInv, Part
<1> DEFINE a == Append(buf, f)
           n == Len(buf) + 1
<1>8. /\ a \in Seq(Frame) /\ Len(a) = n /\ a[n] = f /\ n \in Nat \ {0} /\ a # << >>
      /\ DOMAIN a = 1 .. n /\ Len(buf) \in Nat /\ DOMAIN buf = 1 .. Len(buf)
      /\ \A i \in DOMAIN buf : a[i] = buf[i]
      /\ \A i \in DOMAIN a : i = n \/ i \in DOMAIN buf
      /\ buf = << >> => n = 1
      /\ buf # << >> => 1 \in DOMAIN buf
  BY <1>0, <1>n, AppendFacts, InSeq
<1> HIDE DEF a, n, f
<1>9. ASSUME ~skipping
      PROVE  /\ a[1].from = 0 /\ a[1].msg = f.msg /\ \A i \in DOMAIN a : a[i].msg = f.msg
             /\ \A i \in DOMAIN buf : a[i].more
             /\ \A i \in 1 .. Len(a) - 1 : a[i + 1].from = a[i].to
  <2>1. CASE buf = << >>
    <3>1. n = 1 /\ a[1] = f /\ f.from = 0 /\ DOMAIN buf = {}
      BY <2>1, <1>8, <1>9, <1>b
    <3>2. \A i \in DOMAIN a : a[i] = f
      BY <3>1, <1>8
    <3>3. 1 .. Len(a) - 1 = {}
      BY <3>1, <1>8
    <3> QED
      BY <3>1, <3>2, <3>3
  <2>2. CASE buf # << >>
    <3>1. a[1] = buf[1] /\ buf[1].from = 0 /\ buf[1].msg = f.msg
      BY <2>2, <1>8, <1>b
    <3>2. \A i \in DOMAIN a : a[i].msg = f.msg
      BY <2>2, <1>8, <1>b
    <3>3. \A i \in DOMAIN buf : a[i].more
      BY <2>2, <1>8, <1>b
    <3>4. ASSUME NEW i \in 1 .. Len(a) - 1
          PROVE  a[i + 1].from = a[i].to
      <4>1. i \in DOMAIN buf /\ i \in Nat /\ a[i] = buf[i]
        BY <1>8
      <4>2. CASE i = Len(buf)
        <5>1. i + 1 = n /\ a[i + 1] = f
          BY <4>2, <1>8 DEF n
        <5>2. buf[i].to = f.from
          BY <2>2, <4>2, <1>b
        <5> QED
          BY <4>1, <5>1, <5>2
      <4>3. CASE i # Len(buf)
        <5>1. i \in 1 .. Len(buf) - 1 /\ i + 1 \in DOMAIN buf
          BY <4>1, <4>3, <1>8
        <5>2. buf[i + 1].from = buf[i].to
          BY <2>2, <5>1, <1>b
        <5> QED
          BY <4>1, <5>1, <5>2, <1>8
      <4> QED
        BY <4>2, <4>3
    <3> QED
      BY <3>1, <3>2, <3>3, <3>4
  <2> QED
    BY <2>1, <2>2
<1>10. ASSUME f.more
       PROVE  Took(got, skips, f, peer) /\ Part(got)
  <2>1. CASE skips
    BY <2>1, <1>7, <1>10 DEF Took, Part
  <2>2. CASE ~skips
    <3>1. got = a /\ ~skipping
      BY <2>2 DEF a
    <3>2. Took(a, skips, f, peer)
      BY <2>2, <3>1, <1>8, <1>9, <1>10 DEF Took
    <3>3. \A i \in DOMAIN a : a[i].msg = a[1].msg /\ a[i].more
      BY <3>1, <1>8, <1>9, <1>10
    <3>4. Part(a)
      BY <3>1, <3>3, <1>9 DEF Part
    <3> QED
      BY <3>1, <3>2, <3>4
  <2> QED
    BY <2>1, <2>2
<1>11. ASSUME ~f.more, ~skips
       PROVE  Passed(got, peer) /\ Number(got) = f.msg
  <2>1. got = a /\ ~skipping
    BY <1>11 DEF a
  <2>2. a[1].from = 0 /\ a[1].msg = f.msg /\ ~a[Len(a)].more /\ a[Len(a)].to = peer[f.msg]
    BY <2>1, <1>3, <1>8, <1>9, <1>11
  <2>3. peer[f.msg] <= MaxMessageSize
    BY <2>1, <1>3, <1>4, <1>6, <1>11
  <2>4. ASSUME NEW i \in 1 .. Len(a) - 1
        PROVE  a[i].more /\ a[i + 1].msg = a[i].msg /\ a[i + 1].from = a[i].to
    <3>1. i \in DOMAIN buf /\ i \in DOMAIN a /\ i + 1 \in DOMAIN a
      BY <1>8 DEF n
    <3> QED
      BY <3>1, <2>1, <1>9
  <2>5. Passed(a, peer)
    BY <2>2, <2>3, <2>4, <1>3, <1>8 DEF Passed
  <2> QED
    BY <2>1, <2>2, <2>5 DEF Number
<1> QED
  BY <1>0, <1>3, <1>7, <1>10, <1>11 DEF f

\* The peer's next frame, of the message it is in the middle of or of a new one.
LEMMA ArriveFacts ==
    ASSUME NativeTypes, Arrive
    PROVE  \E f \in Frame :
              /\ events' = Append(events, FrameEvent(f))
              /\ f.msg = Len(peer') /\ Len(peer') \in DOMAIN peer' /\ f.to <= peer'[Len(peer')]
              /\ ~f.more => f.to = peer'[Len(peer')]
              /\ f.more <=> peerAt' # -1
              /\ peerAt' # -1 => f.to = peerAt'
              /\ peer' \in Seq(Nat) /\ peerAt' \in Nat \cup {-1}
              /\ \A i \in DOMAIN peer : i \in DOMAIN peer' /\ peer'[i] = peer[i]
              /\ IF peerAt = -1 THEN Len(peer') = Len(peer) + 1 /\ f.from = 0
                                ELSE peer' = peer /\ f.from = peerAt
<1>n. peer \in Seq(Nat) /\ peerAt \in Nat \cup {-1} /\ (peerAt # -1 => peer # << >>)
      /\ (peerAt >= 0 <=> peerAt # -1)
  BY DEF NativeTypes
<1>1. PICK z \in IF peerAt >= 0 THEN {peer[Len(peer)]} ELSE Sizes :
         LET from == IF peerAt >= 0 THEN peerAt ELSE 0
             to   == IF from + ChunkSize - 1 < z THEN from + ChunkSize - 1 ELSE z
         IN /\ peerAt >= 0 \/ Len(peer) < Messages
            /\ peer' = IF peerAt >= 0 THEN peer ELSE Append(peer, z)
            /\ peerAt' = IF to < z THEN to ELSE -1
            /\ events' = Append(events, FrameEvent(
                  [msg |-> Len(peer'), from |-> from, to |-> to, more |-> to < z]))
  BY DEF Arrive
<1> DEFINE from == IF peerAt >= 0 THEN peerAt ELSE 0
           to   == IF from + ChunkSize - 1 < z THEN from + ChunkSize - 1 ELSE z
           f    == [msg |-> Len(peer'), from |-> from, to |-> to, more |-> to < z]
<1>2. peerAt >= 0 => peer # << >> /\ Len(peer) \in DOMAIN peer /\ peer[Len(peer)] \in Nat
  BY <1>n, InSeq
<1>3. z \in Nat
  BY <1>1, <1>2, SizesAssumption
<1>4. from \in Nat /\ to \in Nat /\ to <= z
  BY <1>3, <1>n, Limits
<1>5. /\ peer' \in Seq(Nat) /\ Len(peer') \in Nat \ {0} /\ Len(peer') \in DOMAIN peer'
      /\ peer'[Len(peer')] = z
      /\ \A i \in DOMAIN peer : i \in DOMAIN peer' /\ peer'[i] = peer[i]
      /\ IF peerAt = -1 THEN Len(peer') = Len(peer) + 1 ELSE peer' = peer
  <2>1. CASE peerAt >= 0
    BY <2>1, <1>n, <1>1, <1>2, InSeq
  <2>2. CASE ~ (peerAt >= 0)
    <3>1. peer' = Append(peer, z)
      BY <2>2, <1>1
    <3>2. /\ Append(peer, z) \in Seq(Nat) /\ Len(Append(peer, z)) = Len(peer) + 1
          /\ Len(peer) + 1 \in DOMAIN Append(peer, z) /\ Append(peer, z)[Len(peer) + 1] = z
          /\ \A i \in DOMAIN peer : i \in DOMAIN Append(peer, z) /\ Append(peer, z)[i] = peer[i]
          /\ Len(peer) \in Nat
      BY <1>n, <1>3, AppendFacts, InSeq
    <3> QED
      BY <2>2, <3>1, <3>2, <1>n
  <2> QED
    BY <2>1, <2>2
<1>6. f \in Frame
  BY <1>4, <1>5 DEF Frame
<1>7. events' = Append(events, FrameEvent(f)) /\ peerAt' = IF to < z THEN to ELSE -1
  BY <1>1
<1>8. f.msg = Len(peer') /\ f.from = from /\ f.to = to /\ f.more = (to < z)
  OBVIOUS
<1>9. IF peerAt = -1 THEN f.from = 0 ELSE f.from = peerAt
  BY <1>8, <1>n
<1> HIDE DEF from, to, f
<1>10. /\ f.to <= z /\ (~f.more => f.to = z) /\ (f.more <=> peerAt' # -1)
       /\ (peerAt' # -1 => f.to = peerAt') /\ peerAt' \in Nat \cup {-1}
  <2>1. CASE to < z
    <3>1. f.more /\ peerAt' = to /\ f.to = to
      BY <2>1, <1>7, <1>8
    <3> QED
      BY <3>1, <1>3, <1>4
  <2>2. CASE ~ (to < z)
    <3>0. to = z
      BY <2>2, <1>3, <1>4
    <3>1. ~f.more /\ peerAt' = -1 /\ f.to = to /\ to = z
      BY <2>2, <3>0, <1>7, <1>8
    <3> QED
      BY <3>1, <1>3, <1>4
  <2> QED
    BY <2>1, <2>2
<1> QED
  BY <1>5, <1>6, <1>7, <1>8, <1>9, <1>10

LEMMA StreamStep ==
    ASSUME NativeTypes, StreamInv, [Next]_vars
    PROVE  StreamInv'
<1>n. /\ events \in Seq(Event) /\ peer \in Seq(Nat) /\ peerAt \in Nat \cup {-1}
      /\ buf \in Seq(Frame) /\ skipping \in BOOLEAN
  BY DEF NativeTypes, Message
<1>s. /\ Stream(events, peer, peerAt)
      /\ Ahead(events, peer, peerAt, buf, skipping, chan = "open")
      /\ Part(buf) /\ (skipping => buf = << >>)
      /\ chan # "closed" => \A i \in DOMAIN events : events[i] # NoticeEvent("closed")
  BY DEF StreamInv
<1>p. Part(<< >>)
  BY DEF Part
<1>c. \A e, p, at, b, sk, o1, o2 : Ahead(e, p, at, b, sk, o1) /\ (o2 => o1) => Ahead(e, p, at, b, sk, o2)
  BY DEF Ahead
<1>0. ASSUME UNCHANGED <<events, peer, peerAt, reassembler>>,
             chan' = chan \/ (chan = "open" /\ chan' = "closing")
      PROVE  StreamInv'
  <2>1. Ahead(events, peer, peerAt, buf, skipping, chan' = "open")
    BY <1>0, <1>s, <1>c
  <2>2. /\ Stream(events, peer, peerAt)'
        /\ (chan # "closed" => \A i \in DOMAIN events : events[i] # NoticeEvent("closed"))'
    BY <1>0, <1>s
  <2> QED
    BY <1>0, <1>s, <2>1, <2>2 DEF StreamInv, reassembler
\* A notice, or a bad frame between two messages, comes in.
<1>a. ASSUME NEW x \in Event, x.type # "frame", x.type = "bad" => peerAt = -1,
             events' = Append(events, x), UNCHANGED <<peer, peerAt, reassembler>>,
             chan' = "open" => chan = "open",
             chan' # "closed" => chan # "closed" /\ x # NoticeEvent("closed")
      PROVE  StreamInv'
  <2>1. /\ Stream(Append(events, x), peer, peerAt)
        /\ Ahead(Append(events, x), peer, peerAt, buf, skipping, chan = "open")
    BY <1>a, <1>n, <1>s, AppendOther
  <2>2. Ahead(Append(events, x), peer, peerAt, buf, skipping, chan' = "open")
    BY <2>1, <1>a, <1>c
  <2>3. chan' # "closed" => \A i \in DOMAIN Append(events, x) : Append(events, x)[i] # NoticeEvent("closed")
    BY <1>a, <1>n, <1>s, AppendFacts
  <2> QED
    BY <1>a, <1>s, <2>1, <2>2, <2>3 DEF StreamInv, reassembler
<1>z. \A n \in Notice : n # "closed" => NoticeEvent(n) # NoticeEvent("closed")
  BY EventKinds DEF Notice
<1>t. ASSUME events # << >>
      PROVE  /\ Tail(events) \in Seq(Event) /\ Head(events) \in Event
             /\ Stream(Tail(events), peer, peerAt)
             /\ chan # "closed" => \A i \in DOMAIN Tail(events) : Tail(events)[i] # NoticeEvent("closed")
             /\ chan # "closed" => Head(events) # NoticeEvent("closed")
  <2>1. Stream(Tail(events), peer, peerAt)
    BY <1>n, <1>s, <1>t, TailStream
  <2> QED
    BY <2>1, <1>n, <1>s, <1>t, TailFacts
<1>1. CASE Arrive
  <2>0. chan = "open" /\ chan' = chan /\ UNCHANGED reassembler
    BY <1>1 DEF Arrive
  <2>1. PICK f \in Frame :
              /\ events' = Append(events, FrameEvent(f))
              /\ f.msg = Len(peer') /\ Len(peer') \in DOMAIN peer' /\ f.to <= peer'[Len(peer')]
              /\ ~f.more => f.to = peer'[Len(peer')]
              /\ f.more <=> peerAt' # -1
              /\ peerAt' # -1 => f.to = peerAt'
              /\ peer' \in Seq(Nat) /\ peerAt' \in Nat \cup {-1}
              /\ \A i \in DOMAIN peer : i \in DOMAIN peer' /\ peer'[i] = peer[i]
              /\ IF peerAt = -1 THEN Len(peer') = Len(peer) + 1 /\ f.from = 0
                                ELSE peer' = peer /\ f.from = peerAt
    BY <1>1, ArriveFacts
  <2>2. /\ Stream(Append(events, FrameEvent(f)), peer', peerAt')
        /\ \A b, sk : Ahead(events, peer, peerAt, b, sk, TRUE) =>
                         Ahead(Append(events, FrameEvent(f)), peer', peerAt', b, sk, TRUE)
    BY <2>0, <2>1, <1>n, <1>s, AppendFrame
  <2>3. Ahead(events, peer, peerAt, buf, skipping, TRUE)
    BY <2>0, <1>s, <1>c
  <2>4. Ahead(events', peer', peerAt', buf, skipping, chan' = "open")
    BY <2>0, <2>1, <2>2, <2>3, <1>c
  <2>5. \A i \in DOMAIN events' : events'[i] # NoticeEvent("closed")
    <3>1. FrameEvent(f) \in Event /\ FrameEvent(f).type = "frame" /\ NoticeEvent("closed").type = "notice"
      BY EventKinds DEF Notice
    <3> QED
      BY <3>1, <2>0, <2>1, <1>n, <1>s, AppendFacts
  <2>6. Stream(events', peer', peerAt')
    BY <2>1, <2>2
  <2> QED
    BY <2>0, <2>4, <2>5, <2>6, <1>s DEF StreamInv, reassembler
<1>2. CASE ArriveBad
  <2>1. /\ chan = "open" /\ peerAt = -1 /\ events' = Append(events, BadFrame)
        /\ UNCHANGED <<chan, peer, peerAt, reassembler>>
    BY <1>2 DEF ArriveBad
  <2>2. BadFrame \in Event /\ BadFrame.type = "bad" /\ NoticeEvent("closed").type = "notice"
    BY EventKinds DEF Notice
  <2> QED
    BY <2>1, <2>2, <1>a
<1>3. CASE CloseDone
  <2>1. /\ chan' = "closed" /\ events' = Append(events, NoticeEvent("closed"))
        /\ UNCHANGED <<peer, peerAt, reassembler>>
    BY <1>3 DEF CloseDone
  <2>2. NoticeEvent("closed") \in Event /\ NoticeEvent("closed").type = "notice"
    BY EventKinds DEF Notice
  <2> QED
    BY <2>1, <2>2, <1>a
<1>4. CASE OnFrame
  <2> DEFINE f     == Head(events).frame
             skips == skipping \/ TooLarge(f)
             got   == IF skips THEN << >> ELSE Append(buf, f)
  <2>1. events # << >> /\ Head(events).type = "frame" /\ events' = Tail(events)
        /\ UNCHANGED <<chan, peer, peerAt>>
    BY <1>4 DEF OnFrame
  <2>2. f.more => Took(got, skips, f, peer) /\ Part(got)
    BY <2>1, Pushes
  <2>3. Took(buf', skipping', f, peer) /\ Part(buf') /\ (skipping' => buf' = << >>)
    <3>1. CASE f.more
      <4>1. buf' = got /\ skipping' = skips
        BY <1>4, <3>1 DEF OnFrame
      <4> QED
        BY <4>1, <2>2, <3>1
    <3>2. CASE ~f.more
      <4>1. buf' = << >> /\ skipping' = FALSE
        BY <1>4, <3>2 DEF OnFrame
      <4> QED
        BY <4>1, <3>2, <1>p DEF Took
    <3> QED
      BY <3>1, <3>2
  <2>4. Ahead(Tail(events), peer, peerAt, buf', skipping', chan' = "open")
    BY <2>1, <2>3, <1>n, <1>s, FrameOut
  <2> QED
    BY <2>1, <2>3, <2>4, <1>t DEF StreamInv
<1>5. CASE OnBadFrame
  <2>1. /\ events # << >> /\ Head(events).type = "bad" /\ buf' = << >> /\ skipping' = FALSE
        /\ chan' = IF chan = "open" THEN "closing" ELSE chan
        /\ \/ events' = Tail(events)
           \/ chan = "open" /\ events' = Append(Tail(events), NoticeEvent("closing"))
        /\ UNCHANGED <<peer, peerAt>>
    BY <1>5 DEF OnBadFrame
  <2>2. Ahead(Tail(events), peer, peerAt, << >>, FALSE, FALSE)
    BY <2>1, <1>n, <1>s, OtherOut
  <2>3. CASE events' = Tail(events)
    <3>1. Ahead(Tail(events), peer, peerAt, << >>, FALSE, chan' = "open")
      BY <2>1, <2>2, <1>c
    <3> QED
      BY <2>1, <2>3, <3>1, <1>t, <1>p DEF StreamInv
  <2>4. CASE chan = "open" /\ events' = Append(Tail(events), NoticeEvent("closing"))
    <3> DEFINE x == NoticeEvent("closing")
               d == Tail(events)
    <3>0. x \in Event /\ x.type = "notice" /\ x # NoticeEvent("closed")
      BY EventKinds, <1>z DEF Notice
    <3>1. d \in Seq(Event) /\ Stream(d, peer, peerAt)
          /\ \A i \in DOMAIN d : d[i] # NoticeEvent("closed")
      BY <2>1, <2>4, <1>t
    <3> HIDE DEF x
    <3>2. /\ Stream(Append(d, x), peer, peerAt)
          /\ Ahead(d, peer, peerAt, << >>, FALSE, FALSE) => Ahead(Append(d, x), peer, peerAt, << >>, FALSE, FALSE)
      BY <3>0, <3>1, AppendOther
    <3>3. Ahead(Append(d, x), peer, peerAt, << >>, FALSE, chan' = "open")
      BY <2>1, <2>2, <3>2, <2>4
    <3>4. \A i \in DOMAIN Append(d, x) : Append(d, x)[i] # NoticeEvent("closed")
      BY <3>0, <3>1, AppendFacts
    <3>5. events' = Append(d, x)
      BY <2>4 DEF x
    <3> QED
      BY <2>1, <3>2, <3>3, <3>4, <3>5, <1>p DEF StreamInv
  <2> QED
    BY <2>1, <2>3, <2>4
<1>6. CASE OnNotice
  <2>1. /\ events # << >> /\ Head(events).type = "notice" /\ events' = Tail(events)
        /\ UNCHANGED <<chan, peer, peerAt>>
    BY <1>6 DEF OnNotice
  <2>2. CASE Head(events).notice = "closed"
    <3>1. buf' = << >> /\ skipping' = FALSE
      BY <1>6, <2>2, <1>n DEF OnNotice
    <3>2. Ahead(Tail(events), peer, peerAt, << >>, FALSE, FALSE)
      BY <2>1, <2>2, <1>n, <1>s, OtherOut
    <3>3. chan = "closed"
      <4>1. PICK m \in Notice : Head(events) = NoticeEvent(m)
        BY <2>1, <1>t, EventKinds DEF Event
      <4>2. m = "closed"
        BY <4>1, <2>2, EventKinds
      <4> QED
        BY <4>1, <4>2, <2>1, <1>t
    <3>4. Ahead(Tail(events), peer, peerAt, << >>, FALSE, chan' = "open")
      BY <2>1, <3>2, <3>3
    <3> QED
      BY <2>1, <3>1, <3>4, <1>t, <1>p DEF StreamInv
  <2>3. CASE Head(events).notice # "closed"
    <3>1. buf' = buf /\ skipping' = skipping
      BY <1>6, <2>3, <1>n DEF OnNotice
    <3>2. Ahead(Tail(events), peer, peerAt, buf, skipping, chan = "open")
      BY <2>1, <1>n, <1>s, OtherOut
    <3> QED
      BY <2>1, <3>1, <3>2, <1>t, <1>s DEF StreamInv
  <2> QED
    BY <2>2, <2>3
<1>7. ASSUME NEW t \in Threads, MethodRuns(t)
      PROVE  StreamInv'
  <2>1. UNCHANGED <<events, peer, peerAt, reassembler>>
    BY <1>7 DEF MethodRuns
  <2>2. chan' = chan \/ (chan = "open" /\ chan' = "closing")
    BY <1>7 DEF MethodRuns, Method
  <2> QED
    BY <2>1, <2>2, <1>0
<1>8. ASSUME NEW t \in Threads, CallMethod(t)
      PROVE  StreamInv'
  <2>1. PICK n \in Notice : MethodHere(n)
    BY <1>8 DEF CallMethod
  <2>2. UNCHANGED <<peer, peerAt, reassembler>> /\ chan = "open" /\ n # "closed"
        /\ (chan' = chan \/ chan' = "closing")
    BY <1>8, <2>1 DEF CallMethod, MethodHere, Method
  <2>3. CASE events' = events
    BY <2>2, <2>3, <1>0
  <2>4. CASE events' = Append(events, NoticeEvent(n))
    <3> DEFINE x == NoticeEvent(n)
    <3>1. x \in Event /\ x.type = "notice" /\ x # NoticeEvent("closed")
      BY <2>2, EventKinds, <1>z
    <3>2. events' = Append(events, x)
      BY <2>4
    <3> HIDE DEF x
    <3> QED
      BY <2>2, <3>1, <3>2, <1>a
  <2> QED
    BY <2>1, <2>3, <2>4 DEF MethodHere
<1>9. CASE UNCHANGED <<nativeVars, reassembler>>
  BY <1>9, <1>0 DEF nativeVars
<1> QED
  BY <1>1, <1>2, <1>3, <1>4, <1>5, <1>6, <1>7, <1>8, <1>9, NativeQuiet
     DEF Next, CallbackStep, FlushStep, HandlerCall, Terminated

-----------------------------------------------------------------------------
(* Every message is whole.                                                 *)

\* The steps that move no message.
LEMMA MessagesQuiet ==
    ASSUME \/ ArriveBad \/ CloseDone \/ OnBadFrame \/ OnNotice \/ HandlerReturns
           \/ DeliverNotices \/ NoticeHandlerReturns
           \/ \E t \in Threads : \/ FlushHandlerReturns(t) \/ MethodRuns(t) \/ Replace(t)
                                 \/ CallMethod(t) \/ PostMethod(t)
           \/ UNCHANGED vars
    PROVE  UNCHANGED <<peer, peerAt, pending, pendingBytes, held, dropped, data, log>>
BY DEF ArriveBad, CloseDone, OnBadFrame, OnNotice, HandlerReturns, DeliverNotices,
       NoticeHandlerReturns, FlushHandlerReturns, MethodRuns, Replace, CallMethod, PostMethod,
       vars, nativeVars, slotVars, threadVars

LEMMA WholeStep ==
    ASSUME NativeTypes, HandlerTypes, ThreadInv, StreamInv, WholeInv, [Next]_vars
    PROVE  WholeInv'
<1>h. /\ log \in Seq(Nat \X Message) /\ pending \in Seq(Message) /\ data \in Seq(Message)
      /\ held \in [Threads -> Seq(Message)] /\ dropped \in Seq([msg : Nat, bytes : Nat])
      /\ cb \in [Threads -> 0 .. handlers] /\ handlers \in Nat /\ Callback \in Threads
      /\ pendingBytes \in Nat
  BY Limits DEF HandlerTypes
<1>w. /\ \A i \in DOMAIN log : Passed(log[i][2], peer)
      /\ \A i \in DOMAIN pending : Passed(pending[i], peer)
      /\ \A t \in Threads : \A i \in DOMAIN held[t] : Passed(held[t][i], peer)
      /\ \A i \in DOMAIN data : Passed(data[i], peer)
      /\ \A i \in DOMAIN dropped :
            /\ dropped[i].msg \in DOMAIN peer
            /\ \/ peer[dropped[i].msg] > MaxMessageSize
               \/ dropped[i].bytes + peer[dropped[i].msg] > PendingLimit
  BY DEF WholeInv
<1>d. pc[Callback] \in {"deliver", "lock"} => 1 \in DOMAIN data /\ data[1] \in Message /\ Passed(data[1], peer)
  <2> HAVE pc[Callback] \in {"deliver", "lock"}
  <2>1. 1 \in DOMAIN data /\ data[1] \in Message
    BY <1>h, InSeq DEF ThreadInv
  <2> QED
    BY <2>1, <1>w
<1>0. ASSUME UNCHANGED <<peer, pending, held, dropped, data, log>>
      PROVE  WholeInv'
  BY <1>0, <1>w DEF WholeInv
<1>1. CASE Arrive
  <2>1. \A i \in DOMAIN peer : i \in DOMAIN peer' /\ peer'[i] = peer[i]
    BY <1>1, ArriveFacts
  <2>2. \A m : Passed(m, peer) => Passed(m, peer')
    BY <2>1 DEF Passed
  <2>3. UNCHANGED <<pending, held, dropped, data, log>>
    BY <1>1 DEF Arrive, slotVars, threadVars
  <2> QED
    BY <2>1, <2>2, <2>3, <1>w DEF WholeInv
<1>2. CASE OnFrame
  <2> DEFINE f     == Head(events).frame
             skips == skipping \/ TooLarge(f)
             got   == IF skips THEN << >> ELSE Append(buf, f)
  <2>1. /\ events # << >> /\ Head(events).type = "frame"
        /\ UNCHANGED <<peer, pending, held, log>>
    BY <1>2 DEF OnFrame
  <2>2. /\ f \in Frame /\ f.msg \in DOMAIN peer
        /\ skips => peer[f.msg] > MaxMessageSize
        /\ ~f.more /\ ~skips => Passed(got, peer)
    BY <2>1, Pushes
  <2>3. CASE f.more
    BY <2>1, <2>3, <1>2, <1>0 DEF OnFrame
  <2>4. CASE ~f.more /\ skips
    <3>1. dropped' = Append(dropped, [msg |-> f.msg, bytes |-> 0]) /\ data' = data
      BY <1>2, <2>4 DEF OnFrame
    <3> DEFINE x == [msg |-> f.msg, bytes |-> 0]
    <3>2. x \in [msg : Nat, bytes : Nat] /\ x.msg = f.msg
      BY <2>2, FrameFacts
    <3>3. dropped' = Append(dropped, x)
      BY <3>1
    <3> HIDE DEF x, f
    <3>6. dropped \in Seq([msg : Nat, bytes : Nat])
      BY <1>h
    <3>7. \A i \in DOMAIN Append(dropped, x) :
             \/ i \in DOMAIN dropped /\ Append(dropped, x)[i] = dropped[i]
             \/ Append(dropped, x)[i] = x
      BY <3>2, <3>6, AppendFacts
    <3>4. \A i \in DOMAIN dropped' : (i \in DOMAIN dropped /\ dropped'[i] = dropped[i]) \/ dropped'[i] = x
      BY <3>3, <3>7
    <3>5. \A i \in DOMAIN dropped' :
             /\ dropped'[i].msg \in DOMAIN peer
             /\ \/ peer[dropped'[i].msg] > MaxMessageSize
                \/ dropped'[i].bytes + peer[dropped'[i].msg] > PendingLimit
      BY <2>2, <2>4, <3>2, <3>4, <1>w
    <3> QED
      BY <2>1, <3>1, <3>5, <1>w DEF WholeInv
  <2>5. CASE ~f.more /\ ~skips
    <3>1. data' = <<got>> /\ dropped' = dropped
      BY <1>2, <2>5 DEF OnFrame
    <3>2. \A i \in DOMAIN data' : data'[i] = got
      BY <3>1
    <3>3. \A i \in DOMAIN data' : Passed(data'[i], peer)
      BY <2>2, <2>5, <3>2
    <3> QED
      BY <2>1, <3>1, <3>3, <1>w DEF WholeInv
  <2> QED
    BY <2>3, <2>4, <2>5
<1>3. CASE Deliver
  <2>0. pc[Callback] = "deliver" /\ UNCHANGED <<peer, held, log>>
    BY <1>3 DEF Deliver, nativeVars
  <2>1. CASE slot # NoHandler
    BY <2>0, <2>1, <1>3, <1>0 DEF Deliver
  <2>2. CASE slot = NoHandler
    <3> DEFINE m == data[1]
    <3>0. data' = << >> /\ m \in Message /\ Passed(m, peer)
      BY <1>3, <2>0, <2>2, <1>d DEF Deliver
    <3>1. CASE Holds(Payload(m))
      <4>1. pending' = Append(pending, m) /\ dropped' = dropped
        BY <1>3, <2>2, <3>1 DEF Deliver
      <4> HIDE DEF m
      <4>2. \A i \in DOMAIN pending' : Passed(pending'[i], peer)
        BY <3>0, <4>1, <1>h, <1>w, AppendFacts
      <4> QED
        BY <2>0, <3>0, <4>1, <4>2, <1>w DEF WholeInv
    <3>2. CASE ~Holds(Payload(m))
      <4> DEFINE x == [msg |-> m[1].msg, bytes |-> pendingBytes]
      <4>1. pending' = pending /\ dropped' = Append(dropped, x)
        BY <1>3, <2>2, <3>2 DEF Deliver
      <4>2. /\ m[1].msg = Number(m) /\ Number(m) \in Nat /\ Number(m) \in DOMAIN peer
            /\ Payload(m) = peer[Number(m)]
        BY <3>0, PassedFacts
      <4>3. x \in [msg : Nat, bytes : Nat] /\ x.msg = Number(m) /\ x.bytes = pendingBytes
        BY <4>2, <1>h
      <4>4. pendingBytes + peer[Number(m)] > PendingLimit
        BY <3>2, <4>2, <1>h, Limits DEF Holds, NativeTypes
      <4> HIDE DEF m, x
      <4>5. \A i \in DOMAIN dropped' : (i \in DOMAIN dropped /\ dropped'[i] = dropped[i]) \/ dropped'[i] = x
        BY <4>1, <4>3, <1>h, AppendFacts
      <4>6. \A i \in DOMAIN dropped' :
               /\ dropped'[i].msg \in DOMAIN peer
               /\ \/ peer[dropped'[i].msg] > MaxMessageSize
                  \/ dropped'[i].bytes + peer[dropped'[i].msg] > PendingLimit
        BY <4>2, <4>3, <4>4, <4>5, <1>w
      <4> QED
        BY <2>0, <3>0, <4>1, <4>6, <1>w DEF WholeInv
    <3> QED
      BY <3>1, <3>2
  <2> QED
    BY <2>1, <2>2
<1>4. CASE LockHandler
  <2>1. /\ pc[Callback] = "lock" /\ log' = Append(log, <<cb[Callback], data[1]>>) /\ data' = << >>
        /\ UNCHANGED <<peer, pending, held, dropped>>
    BY <1>4 DEF LockHandler, nativeVars
  <2>2. data[1] \in Message /\ Passed(data[1], peer) /\ cb[Callback] \in Nat
    BY <2>1, <1>d, <1>h
  <2> DEFINE x == <<cb[Callback], data[1]>>
  <2>3. x \in Nat \X Message /\ x[2] = data[1] /\ log' = Append(log, x)
    BY <2>1, <2>2
  <2> HIDE DEF x
  <2>5. log \in Seq(Nat \X Message)
    BY <1>h
  <2>6. \A i \in DOMAIN Append(log, x) :
           \/ i \in DOMAIN log /\ Append(log, x)[i] = log[i]
           \/ Append(log, x)[i] = x
    BY <2>3, <2>5, AppendFacts
  <2>7. Passed(x[2], peer)
    BY <2>2, <2>3
  <2>4. \A i \in DOMAIN log' : Passed(log'[i][2], peer)
    BY <2>3, <2>6, <2>7, <1>w
  <2> QED
    BY <2>1, <2>4, <1>w DEF WholeInv
<1>5. ASSUME NEW t \in Threads, OnMessage(t)
      PROVE  WholeInv'
  <2>1. /\ held' = [held EXCEPT ![t] = pending] /\ pending' = << >>
        /\ UNCHANGED <<peer, dropped, data, log>>
    BY <1>5 DEF OnMessage, Publish, nativeVars
  <2>2. \A u \in Threads : held'[u] = IF u = t THEN pending ELSE held[u]
    BY <2>1, <1>h
  <2>3. \A u \in Threads : \A i \in DOMAIN held'[u] : Passed(held'[u][i], peer)
    BY <2>2, <1>w
  <2> QED
    BY <2>1, <2>3, <1>w DEF WholeInv
<1>6. ASSUME NEW t \in Threads, Flush(t)
      PROVE  WholeInv'
  <2>0. UNCHANGED <<peer, pending, dropped, data>>
    BY <1>6 DEF Flush, nativeVars
  <2>1. CASE held[t] # << >>
    <3> DEFINE x == <<cb[t], Head(held[t])>>
    <3>1. log' = Append(log, x) /\ held' = [held EXCEPT ![t] = Tail(held[t])]
      BY <1>6, <2>1 DEF Flush
    <3>2. /\ Head(held[t]) \in Message /\ Passed(Head(held[t]), peer)
          /\ \A i \in DOMAIN Tail(held[t]) : Passed(Tail(held[t])[i], peer)
      BY <2>1, <1>h, <1>w, TailFacts
    <3>3. x \in Nat \X Message /\ x[2] = Head(held[t])
      BY <3>2, <1>h
    <3> HIDE DEF x
    <3>7. \A i \in DOMAIN log' : (i \in DOMAIN log /\ log'[i] = log[i]) \/ log'[i] = x
      <4>1. log' = Append(log, x) /\ log \in Seq(Nat \X Message) /\ x \in Nat \X Message
        BY <3>1, <3>3, <1>h
      <4> QED
        BY <4>1, AppendFacts
    <3>4. \A i \in DOMAIN log' : Passed(log'[i][2], peer)
      BY <3>2, <3>3, <3>7, <1>w
    <3>5. \A u \in Threads : held'[u] = IF u = t THEN Tail(held[t]) ELSE held[u]
      BY <3>1, <1>h
    <3>6. \A u \in Threads : \A i \in DOMAIN held'[u] : Passed(held'[u][i], peer)
      BY <3>2, <3>5, <1>w
    <3> QED
      BY <2>0, <3>4, <3>6, <1>w DEF WholeInv
  <2>2. CASE held[t] = << >>
    BY <2>0, <2>2, <1>6, <1>0 DEF Flush
  <2> QED
    BY <2>1, <2>2
<1> QED
  BY <1>0, <1>1, <1>2, <1>3, <1>4, <1>5, <1>6, MessagesQuiet
     DEF Next, CallbackStep, FlushStep, HandlerCall, Terminated

-----------------------------------------------------------------------------
(* How many messages were taken in.                                        *)

LEMMA LastFinite ==
    ASSUME NEW e \in Seq(Event)
    PROVE  /\ IsFiniteSet(LastFrames(e)) /\ Cardinality(LastFrames(e)) \in Nat
           /\ LastFrames(e) \subseteq DOMAIN e
           /\ \A i \in DOMAIN e : i \in LastFrames(e) <=> e[i].type = "frame" /\ ~e[i].frame.more
<1>1. LastFrames(e) \subseteq DOMAIN e /\ DOMAIN e = 1 .. Len(e) /\ Len(e) \in Nat
  BY InSeq DEF LastFrames
<1>2. IsFiniteSet(1 .. Len(e))
  BY <1>1, FS_Interval
<1>3. IsFiniteSet(LastFrames(e))
  BY <1>1, <1>2, FS_Subset
<1> QED
  BY <1>1, <1>3, FS_CardinalityType DEF LastFrames

LEMMA LastTail ==
    ASSUME NEW e \in Seq(Event), e # << >>
    PROVE  Cardinality(LastFrames(Tail(e))) =
              Cardinality(LastFrames(e)) - (IF Head(e).type = "frame" /\ ~Head(e).frame.more THEN 1 ELSE 0)
<1> DEFINE d == Tail(e)
           S == LastFrames(d)
           T == LastFrames(e) \ {1}
           f == [i \in S |-> i + 1]
<1>1. /\ d \in Seq(Event) /\ Head(e) = e[1] /\ 1 \in DOMAIN e
      /\ \A i \in DOMAIN d : i + 1 \in DOMAIN e /\ d[i] = e[i + 1]
      /\ \A i \in DOMAIN e : i # 1 => i - 1 \in DOMAIN d /\ d[i - 1] = e[i]
  BY TailFacts
<1>2. \A i \in DOMAIN e : i \in Nat /\ i >= 1
  BY FramesFacts
<1>3. \A i \in DOMAIN d : i \in Nat /\ i >= 1
  BY <1>1, FramesFacts
<1>s. /\ IsFiniteSet(S) /\ S \subseteq DOMAIN d
      /\ \A i \in DOMAIN d : i \in S <=> d[i].type = "frame" /\ ~d[i].frame.more
  BY <1>1, LastFinite
<1>e. /\ IsFiniteSet(LastFrames(e)) /\ LastFrames(e) \subseteq DOMAIN e
      /\ \A i \in DOMAIN e : i \in LastFrames(e) <=> e[i].type = "frame" /\ ~e[i].frame.more
      /\ Cardinality(LastFrames(e)) \in Nat
  BY LastFinite
<1> HIDE DEF d, S
<1>4. \A i \in S : i + 1 \in T
  <2> TAKE i \in S
  <2>1. i \in DOMAIN d /\ d[i].type = "frame" /\ ~d[i].frame.more
    BY <1>s
  <2>2. i + 1 \in DOMAIN e /\ e[i + 1] = d[i] /\ i + 1 # 1
    BY <2>1, <1>1, <1>3
  <2>3. i + 1 \in LastFrames(e)
    BY <2>1, <2>2, <1>e
  <2> QED
    BY <2>2, <2>3
<1>5. \A i \in T : i - 1 \in S /\ i - 1 \in Nat
  <2> TAKE i \in T
  <2>1. i \in DOMAIN e /\ i # 1 /\ e[i].type = "frame" /\ ~e[i].frame.more
    BY <1>e
  <2>2. i - 1 \in DOMAIN d /\ d[i - 1] = e[i]
    BY <2>1, <1>1
  <2> QED
    BY <2>1, <2>2, <1>s, <1>3
<1>6. f \in [S -> T]
  BY <1>4
<1>7. \A a, b \in S : f[a] = f[b] => a = b
  BY <1>3, <1>s
<1>8. \A t \in T : \E a \in S : f[a] = t
  <2> TAKE t \in T
  <2>1. t - 1 \in S /\ t \in Nat
    BY <1>5, <1>2, <1>e
  <2>2. f[t - 1] = t
    BY <2>1
  <2> QED
    BY <2>1, <2>2
<1> HIDE DEF T, f
<1>9. f \in Bijection(S, T)
  BY <1>6, <1>7, <1>8, Fun_IsBij
<1>10. ExistsBijection(S, T)
  BY <1>9 DEF ExistsBijection
<1>11. Cardinality(T) = Cardinality(S)
  BY <1>10, <1>s, FS_Bijection
<1>12. Cardinality(T) = IF 1 \in LastFrames(e) THEN Cardinality(LastFrames(e)) - 1 ELSE Cardinality(LastFrames(e))
  BY <1>e, FS_RemoveElement DEF T
<1>13. 1 \in LastFrames(e) <=> Head(e).type = "frame" /\ ~Head(e).frame.more
  BY <1>1, <1>e
<1> QED
  BY <1>11, <1>12, <1>13, <1>e DEF S, d

LEMMA LastAppend ==
    ASSUME NEW e \in Seq(Event), NEW x \in Event
    PROVE  Cardinality(LastFrames(Append(e, x))) =
              Cardinality(LastFrames(e)) + (IF x.type = "frame" /\ ~x.frame.more THEN 1 ELSE 0)
<1> DEFINE d == Append(e, x)
           n == Len(e) + 1
<1>1. /\ d \in Seq(Event) /\ n \in DOMAIN d /\ d[n] = x /\ n \notin DOMAIN e
      /\ \A i \in DOMAIN e : i \in DOMAIN d /\ d[i] = e[i]
      /\ \A i \in DOMAIN d : (i \in DOMAIN e /\ d[i] = e[i]) \/ i = n
  BY AppendFacts
<1>d. /\ LastFrames(d) \subseteq DOMAIN d
      /\ \A i \in DOMAIN d : i \in LastFrames(d) <=> d[i].type = "frame" /\ ~d[i].frame.more
  BY <1>1, LastFinite
<1>e. /\ IsFiniteSet(LastFrames(e)) /\ LastFrames(e) \subseteq DOMAIN e
      /\ \A i \in DOMAIN e : i \in LastFrames(e) <=> e[i].type = "frame" /\ ~e[i].frame.more
      /\ Cardinality(LastFrames(e)) \in Nat
  BY LastFinite
<1> HIDE DEF d, n
<1>2. CASE x.type = "frame" /\ ~x.frame.more
  <2>1. LastFrames(d) = LastFrames(e) \cup {n}
    BY <1>1, <1>2, <1>d, <1>e
  <2>2. n \notin LastFrames(e)
    BY <1>1, <1>e
  <2>3. Cardinality(LastFrames(e) \cup {n}) = Cardinality(LastFrames(e)) + 1
    BY <2>2, <1>e, FS_AddElement
  <2>4. Cardinality(LastFrames(d)) = Cardinality(LastFrames(e)) + 1
    BY <2>1, <2>3
  <2> QED
    BY <2>4, <1>2 DEF d
<1>3. CASE ~ (x.type = "frame" /\ ~x.frame.more)
  <2>1. LastFrames(d) = LastFrames(e)
    <3>1. ASSUME NEW i \in LastFrames(e)
          PROVE  i \in LastFrames(d)
      BY <1>1, <1>d, <1>e
    <3>2. ASSUME NEW i \in LastFrames(d)
          PROVE  i \in LastFrames(e)
      <4>1. i \in DOMAIN d /\ d[i].type = "frame" /\ ~d[i].frame.more
        BY <1>d
      <4>2. i # n
        BY <4>1, <1>1, <1>3
      <4> QED
        BY <4>1, <4>2, <1>1, <1>e
    <3> QED
      BY <3>1, <3>2
  <2> QED
    BY <2>1, <1>3, <1>e DEF d
<1> QED
  BY <1>2, <1>3

\* The messages of the one thread that holds some.
LEMMA HeldOne ==
    ASSUME NEW h \in [Threads -> Seq(Message)], NEW t \in Threads,
           \A u \in Threads : u # t => h[u] = << >>
    PROVE  Cardinality(HeldIn(h)) = Len(h[t])
<1> DEFINE n == Len(h[t])
<1>1. n \in Nat /\ DOMAIN h[t] = 1 .. n /\ \A u \in Threads : u # t => DOMAIN h[u] = {}
  BY InSeq
<1> HIDE DEF n
<1>2. HeldIn(h) = {t} \X (1 .. n)
  <2>1. ASSUME NEW x \in HeldIn(h)
        PROVE  x \in {t} \X (1 .. n)
    <3>1. PICK u \in Threads : x \in {<<u, i>> : i \in DOMAIN h[u]}
      BY <2>1 DEF HeldIn
    <3>2. u = t
      BY <3>1, <1>1
    <3> QED
      BY <3>1, <3>2, <1>1
  <2>2. ASSUME NEW x \in {t} \X (1 .. n)
        PROVE  x \in HeldIn(h)
    <3>1. PICK i \in 1 .. n : x = <<t, i>>
      BY <2>2
    <3>2. x \in {<<t, j>> : j \in DOMAIN h[t]}
      BY <3>1, <1>1
    <3> QED
      BY <3>2 DEF HeldIn
  <2> QED
    BY <2>1, <2>2
<1>3. IsFiniteSet({t}) /\ Cardinality({t}) = 1
  BY FS_Singleton
<1>4. IsFiniteSet(1 .. n) /\ Cardinality(1 .. n) = n
  BY <1>1, FS_Interval
<1>5. Cardinality({t} \X (1 .. n)) = 1 * n
  <2> DEFINE T == {t}
             N == 1 .. n
  <2>1. IsFiniteSet(T) /\ Cardinality(T) = 1 /\ IsFiniteSet(N) /\ Cardinality(N) = n
    BY <1>3, <1>4
  <2> HIDE DEF T, N, n
  <2>2. Cardinality(T \X N) = Cardinality(T) * Cardinality(N)
    BY <2>1, FS_Product
  <2>3. Cardinality(T \X N) = 1 * n
    BY <2>1, <2>2
  <2> QED
    BY <2>3 DEF T, N
<1>6. 1 * n = n
  BY <1>1
<1> QED
  BY <1>2, <1>5, <1>6 DEF n

LEMMA HeldNone ==
    ASSUME NEW h \in [Threads -> Seq(Message)], \A u \in Threads : h[u] = << >>
    PROVE  Cardinality(HeldIn(h)) = 0
<1>1. \A u \in Threads : DOMAIN h[u] = {}
  BY InSeq
<1>2. HeldIn(h) = {}
  BY <1>1 DEF HeldIn
<1> QED
  BY <1>2, FS_EmptySet

LEMMA TakenAppend ==
    ASSUME NEW e \in Seq(Event), NEW p \in Seq(Nat), NEW at \in Nat \cup {-1}
    PROVE  /\ Taken(e, p, at) \in Int
           /\ \A x \in Event : x.type # "frame" =>
                 /\ Taken(Append(e, x), p, at) = Taken(e, p, at)
                 /\ NextIn(e, Taken(e, p, at)) => NextIn(Append(e, x), Taken(Append(e, x), p, at))
<1>1. Cardinality(LastFrames(e)) \in Nat /\ Len(p) \in Nat
  BY LastFinite, InSeq
<1>2. Taken(e, p, at) \in Int
  BY <1>1 DEF Taken
<1>3. ASSUME NEW x \in Event, x.type # "frame"
      PROVE  /\ Taken(Append(e, x), p, at) = Taken(e, p, at)
             /\ NextIn(e, Taken(e, p, at)) => NextIn(Append(e, x), Taken(Append(e, x), p, at))
  <2> DEFINE d == Append(e, x)
  <2>1. Cardinality(LastFrames(d)) = Cardinality(LastFrames(e))
    BY <1>1, <1>3, LastAppend
  <2>2. Taken(d, p, at) = Taken(e, p, at)
    BY <2>1 DEF Taken
  <2>3. Frames(d) = Frames(e) /\ \A i \in Frames(e) : i \in DOMAIN e /\ d[i] = e[i]
    BY <1>3, FramesAppend, AppendFacts, FramesFacts
  <2> HIDE DEF d
  <2>4. NextIn(e, Taken(e, p, at)) => NextIn(d, Taken(e, p, at))
    BY <2>3 DEF NextIn, First
  <2> QED
    BY <2>2, <2>4 DEF d
<1> QED
  BY <1>2, <1>3

LEMMA TakenFrame ==
    ASSUME NEW e \in Seq(Event), NEW p \in Seq(Nat), NEW at \in Nat \cup {-1},
           NEW f \in Frame, NEW q \in Seq(Nat), NEW az \in Nat \cup {-1},
           f.msg = Len(q), f.more <=> az # -1,
           IF at = -1 THEN Len(q) = Len(p) + 1 ELSE q = p
    PROVE  /\ Taken(Append(e, FrameEvent(f)), q, az) = Taken(e, p, at)
           /\ NextIn(e, Taken(e, p, at)) =>
                 NextIn(Append(e, FrameEvent(f)), Taken(Append(e, FrameEvent(f)), q, az))
<1> DEFINE x == FrameEvent(f)
           d == Append(e, x)
           n == Len(e) + 1
<1>0. x \in Event /\ x.type = "frame" /\ x.frame = f /\ f.more \in BOOLEAN
  BY EventKinds, FrameFacts
<1>1. Cardinality(LastFrames(e)) \in Nat /\ Len(p) \in Nat /\ Len(q) \in Nat
  BY LastFinite, InSeq
<1>2. /\ Frames(d) = Frames(e) \cup {n} /\ d[n] = x
      /\ \A i \in Frames(e) : i \in DOMAIN e /\ d[i] = e[i] /\ i \in Nat /\ i < n
  BY <1>0, FramesAppend, AppendFacts, FramesFacts
<1>3. Cardinality(LastFrames(d)) = Cardinality(LastFrames(e)) + (IF ~f.more THEN 1 ELSE 0)
  BY <1>0, LastAppend
<1> HIDE DEF d, n, x
<1>4. Taken(d, q, az) = Taken(e, p, at)
  <2>1. CASE f.more
    BY <2>1, <1>1, <1>3 DEF Taken
  <2>2. CASE ~f.more
    BY <2>2, <1>1, <1>3 DEF Taken
  <2> QED
    BY <2>1, <2>2, <1>0
<1>5. ASSUME NextIn(e, Taken(e, p, at)), NEW i \in DOMAIN d, First(d, i)
      PROVE  d[i].frame.msg = Taken(e, p, at) + 1
  <2>1. CASE i \in Frames(e)
    <3>1. First(e, i)
      BY <1>5, <2>1, <1>2 DEF First
    <3> QED
      BY <3>1, <2>1, <1>2, <1>5 DEF NextIn
  <2>2. CASE i = n
    <3>1. Frames(e) = {}
      <4> SUFFICES ASSUME NEW k \in Frames(e) PROVE FALSE
        OBVIOUS
      <4>1. n <= k /\ k < n /\ k \in Nat
        BY <2>2, <1>5, <1>2 DEF First
      <4>2. n \in Nat
        BY FramesFacts DEF n
      <4> QED
        BY <4>1, <4>2
    <3>2. LastFrames(e) = {}
      BY <3>1 DEF LastFrames, Frames
    <3>3. Cardinality(LastFrames(e)) = 0
      BY <3>2, FS_EmptySet
    <3>4. d[i].frame = f
      BY <2>2, <1>0, <1>2
    <3> QED
      BY <3>3, <3>4, <1>1 DEF Taken
  <2> QED
    BY <2>1, <2>2, <1>2, <1>5 DEF First
<1>6. NextIn(e, Taken(e, p, at)) => NextIn(d, Taken(d, q, az))
  BY <1>4, <1>5 DEF NextIn
<1> QED
  BY <1>4, <1>6 DEF d, x

LEMMA TakenTail ==
    ASSUME NEW e \in Seq(Event), e # << >>, NEW p \in Seq(Nat), NEW at \in Nat \cup {-1},
           Stream(e, p, at), NextIn(e, Taken(e, p, at))
    PROVE  /\ NextIn(Tail(e), Taken(Tail(e), p, at))
           /\ Head(e).type # "frame" => Taken(Tail(e), p, at) = Taken(e, p, at)
           /\ Head(e).type = "frame" /\ Head(e).frame.more =>
                 Taken(Tail(e), p, at) = Taken(e, p, at)
           /\ Head(e).type = "frame" /\ ~Head(e).frame.more =>
                 Taken(Tail(e), p, at) = Taken(e, p, at) + 1
                 /\ Head(e).frame.msg = Taken(e, p, at) + 1
<1> DEFINE d == Tail(e)
           T == Taken(e, p, at)
           U == Taken(d, p, at)
<1>0. /\ d \in Seq(Event) /\ Head(e) = e[1] /\ 1 \in DOMAIN e
      /\ (1 \in Frames(e) <=> Head(e).type = "frame")
  BY TailFacts DEF Frames
<1>1. /\ Cardinality(LastFrames(e)) \in Nat /\ Cardinality(LastFrames(d)) \in Nat /\ Len(p) \in Nat
      /\ Cardinality(LastFrames(d)) =
            Cardinality(LastFrames(e)) - (IF Head(e).type = "frame" /\ ~Head(e).frame.more THEN 1 ELSE 0)
  BY <1>0, LastFinite, LastTail, InSeq
<1>2. T \in Int /\ U = T + (IF Head(e).type = "frame" /\ ~Head(e).frame.more THEN 1 ELSE 0)
  BY <1>1 DEF Taken
<1>t. /\ \A i \in Frames(d) : i + 1 \in Frames(e)
      /\ \A i \in Frames(e) : i # 1 => i - 1 \in Frames(d)
      /\ \A i \in DOMAIN d : i + 1 \in DOMAIN e /\ d[i] = e[i + 1]
  BY FramesTail
<1>d. \A i \in Frames(d) : i \in Nat /\ i >= 1 /\ i \in DOMAIN d
  BY <1>0, FramesFacts
<1>e. \A i \in Frames(e) : i \in Nat /\ i >= 1 /\ i \in DOMAIN e
  BY FramesFacts
<1>n. \A i \in DOMAIN e : First(e, i) => e[i].frame.msg = T + 1
  BY DEF NextIn
<1>3. Head(e).type = "frame" => e[1].frame.msg = T + 1
  BY <1>0, <1>e, <1>n DEF First
<1> HIDE DEF d, T, U
<1>4. ASSUME NEW i \in DOMAIN d, First(d, i)
      PROVE  d[i].frame.msg = U + 1
  <2>0. i \in Frames(d) /\ i + 1 \in Frames(e) /\ 1 < i + 1 /\ d[i] = e[i + 1]
    BY <1>4, <1>t, <1>d DEF First
  <2>k. ASSUME NEW k \in Frames(e), k # 1
        PROVE  i + 1 <= k
    <3>1. k - 1 \in Frames(d)
      BY <2>k, <1>t
    <3>2. i <= k - 1
      BY <3>1, <1>4 DEF First
    <3> QED
      BY <3>2, <2>0, <1>d, <1>e
  <2>1. CASE Head(e).type = "frame"
    <3>1. Adjacent(e, 1, i + 1)
      BY <2>0, <2>k, <2>1, <1>0, <1>d, <1>e DEF Adjacent
    <3>2. Follows(e[1].frame, d[i].frame)
      BY <2>0, <3>1, <1>0, <1>e DEF Stream
    <3>3. e[1].frame.msg = T + 1
      BY <2>1, <1>3
    <3>4. CASE e[1].frame.more
      <4>1. d[i].frame.msg = e[1].frame.msg
        BY <3>2, <3>4 DEF Follows
      <4> QED
        BY <3>3, <3>4, <4>1, <1>0, <1>2
    <3>5. CASE ~e[1].frame.more
      <4>1. d[i].frame.msg = e[1].frame.msg + 1
        BY <3>2, <3>5 DEF Follows
      <4> QED
        BY <2>1, <3>3, <3>5, <4>1, <1>0, <1>2
    <3> QED
      BY <3>4, <3>5
  <2>2. CASE Head(e).type # "frame"
    <3>1. First(e, i + 1)
      BY <2>0, <2>k, <2>2, <1>0 DEF First
    <3>2. e[i + 1].frame.msg = T + 1
      BY <3>1, <2>0, <1>e, <1>n
    <3> QED
      BY <2>0, <2>2, <3>2, <1>2
  <2> QED
    BY <2>1, <2>2
<1>5. NextIn(d, U)
  BY <1>4 DEF NextIn
<1> QED
  BY <1>0, <1>2, <1>3, <1>5 DEF d, T, U

-----------------------------------------------------------------------------
(* No message is lost, and none is in two places.                          *)

\* A message comes out of the events and is put in the callback thread's hand, or
\* left out: the number of those taken in goes up by one, and it is the new one.
LEMMA TakenSteps ==
    ASSUME NativeTypes, StreamInv, NextIn(events, Taken(events, peer, peerAt)), [Next]_vars
    PROVE  /\ NextIn(events', Taken(events', peer', peerAt'))
           /\ IF OnFrame /\ ~Head(events).frame.more
              THEN Taken(events', peer', peerAt') = Taken(events, peer, peerAt) + 1
                   /\ Head(events).frame.msg = Taken(events, peer, peerAt) + 1
              ELSE Taken(events', peer', peerAt') = Taken(events, peer, peerAt)
<1>n. events \in Seq(Event) /\ peer \in Seq(Nat) /\ peerAt \in Nat \cup {-1}
  BY DEF NativeTypes
<1>s. Stream(events, peer, peerAt)
  BY DEF StreamInv
<1> DEFINE T == Taken(events, peer, peerAt)
           Done == /\ NextIn(events', Taken(events', peer', peerAt'))
                   /\ Taken(events', peer', peerAt') = T
<1>0. CASE UNCHANGED <<events, peer, peerAt>>
  <2>1. Done
    BY <1>0
  <2>2. ~OnFrame
    <3> SUFFICES ASSUME OnFrame PROVE FALSE
      OBVIOUS
    <3>1. events # << >> /\ events' = Tail(events)
      BY DEF OnFrame
    <3>2. Len(Tail(events)) = Len(events) - 1 /\ Len(events) \in Nat
      BY <3>1, <1>n, TailFacts, InSeq
    <3> QED
      BY <3>1, <3>2, <1>0
  <2> QED
    BY <2>1, <2>2
<1>a. ASSUME NEW x \in Event, x.type # "frame", UNCHANGED <<peer, peerAt>>,
             events' = Append(events, x)
      PROVE  Done /\ ~OnFrame
  <2>1. Done
    BY <1>a, <1>n, TakenAppend
  <2>2. Len(events') = Len(events) + 1 /\ Len(events) \in Nat
    BY <1>a, <1>n, AppendFacts, InSeq
  <2>3. ASSUME OnFrame
        PROVE  FALSE
    <3>1. Len(events') = Len(events) - 1
      BY <2>3, <1>n, TailFacts DEF OnFrame
    <3> QED
      BY <3>1, <2>2
  <2> QED
    BY <2>1, <2>3
<1>1. CASE Arrive
  <2>1. PICK f \in Frame :
              /\ events' = Append(events, FrameEvent(f))
              /\ f.msg = Len(peer') /\ Len(peer') \in DOMAIN peer' /\ f.to <= peer'[Len(peer')]
              /\ ~f.more => f.to = peer'[Len(peer')]
              /\ f.more <=> peerAt' # -1
              /\ peerAt' # -1 => f.to = peerAt'
              /\ peer' \in Seq(Nat) /\ peerAt' \in Nat \cup {-1}
              /\ \A i \in DOMAIN peer : i \in DOMAIN peer' /\ peer'[i] = peer[i]
              /\ IF peerAt = -1 THEN Len(peer') = Len(peer) + 1 /\ f.from = 0
                                ELSE peer' = peer /\ f.from = peerAt
    BY <1>1, ArriveFacts
  <2>2. /\ Taken(Append(events, FrameEvent(f)), peer', peerAt') = T
        /\ NextIn(events, T) =>
              NextIn(Append(events, FrameEvent(f)), Taken(Append(events, FrameEvent(f)), peer', peerAt'))
    BY <2>1, <1>n, TakenFrame
  <2>3. Done
    BY <2>1, <2>2
  <2>4. Len(events') = Len(events) + 1 /\ Len(events) \in Nat
    <3>1. FrameEvent(f) \in Event
      BY EventKinds
    <3> QED
      BY <3>1, <2>1, <1>n, AppendFacts, InSeq
  <2>5. ASSUME OnFrame
        PROVE  FALSE
    <3>1. Len(events') = Len(events) - 1
      BY <2>5, <1>n, TailFacts DEF OnFrame
    <3> QED
      BY <3>1, <2>4
  <2> QED
    BY <2>3, <2>5
<1>2. CASE ArriveBad
  <2>1. BadFrame \in Event /\ BadFrame.type = "bad"
    BY EventKinds
  <2> QED
    BY <1>2, <2>1, <1>a DEF ArriveBad
<1>3. CASE CloseDone
  <2>1. NoticeEvent("closed") \in Event /\ NoticeEvent("closed").type = "notice"
    BY EventKinds DEF Notice
  <2> QED
    BY <1>3, <2>1, <1>a DEF CloseDone
<1>4. CASE OnFrame
  <2>1. events # << >> /\ Head(events).type = "frame" /\ events' = Tail(events)
        /\ UNCHANGED <<peer, peerAt>>
    BY <1>4 DEF OnFrame
  <2>2. /\ NextIn(Tail(events), Taken(Tail(events), peer, peerAt))
        /\ Head(events).frame.more => Taken(Tail(events), peer, peerAt) = T
        /\ ~Head(events).frame.more => /\ Taken(Tail(events), peer, peerAt) = T + 1
                                       /\ Head(events).frame.msg = T + 1
    BY <2>1, <1>n, <1>s, TakenTail
  <2> QED
    BY <1>4, <2>1, <2>2
<1>5. CASE OnBadFrame \/ OnNotice
  <2>1. /\ events # << >> /\ Head(events).type # "frame" /\ UNCHANGED <<peer, peerAt>>
        /\ events' = Tail(events) \/ events' = Append(Tail(events), NoticeEvent("closing"))
    BY <1>5 DEF OnBadFrame, OnNotice
  <2>2. /\ NextIn(Tail(events), Taken(Tail(events), peer, peerAt))
        /\ Taken(Tail(events), peer, peerAt) = T /\ Tail(events) \in Seq(Event)
    BY <2>1, <1>n, <1>s, TakenTail, TailFacts
  <2>3. NoticeEvent("closing") \in Event /\ NoticeEvent("closing").type # "frame"
    BY EventKinds DEF Notice
  <2>4. LET d == Append(Tail(events), NoticeEvent("closing"))
        IN  Taken(d, peer, peerAt) = T /\ NextIn(d, Taken(d, peer, peerAt))
    BY <2>2, <2>3, <1>n, TakenAppend
  <2>5. Done
    BY <2>1, <2>2, <2>4
  <2>6. ~OnFrame
    BY <2>1 DEF OnFrame
  <2> QED
    BY <2>5, <2>6
<1>6. ASSUME NEW t \in Threads, MethodRuns(t)
      PROVE  UNCHANGED <<events, peer, peerAt>>
  BY <1>6 DEF MethodRuns
<1>7. ASSUME NEW t \in Threads, CallMethod(t)
      PROVE  (Done /\ ~OnFrame) \/ UNCHANGED <<events, peer, peerAt>>
  <2>1. PICK n \in Notice : MethodHere(n)
    BY <1>7 DEF CallMethod
  <2>2. NoticeEvent(n) \in Event /\ NoticeEvent(n).type # "frame"
    BY EventKinds
  <2>3. /\ UNCHANGED <<peer, peerAt>>
        /\ events' = events \/ events' = Append(events, NoticeEvent(n))
    BY <1>7, <2>1 DEF CallMethod, MethodHere
  <2> DEFINE x == NoticeEvent(n)
  <2>4. x \in Event /\ x.type # "frame" /\ (events' = events \/ events' = Append(events, x))
    BY <2>2, <2>3
  <2> HIDE DEF x
  <2> QED
    BY <2>3, <2>4, <1>a
<1>8. CASE UNCHANGED <<nativeVars, reassembler>>
  BY <1>8, <1>0 DEF nativeVars
<1> QED
  BY <1>0, <1>1, <1>2, <1>3, <1>4, <1>5, <1>6, <1>7, <1>8, NativeQuiet
     DEF Next, CallbackStep, FlushStep, HandlerCall, Terminated

\* The messages at the back of a queue, and the one in hand.
LEMMA InAppend ==
    ASSUME NEW S, NEW s \in Seq(S), NEW x \in S
    PROVE  /\ Len(Append(s, x)) = Len(s) + 1 /\ Len(s) \in Nat
           /\ \A i \in DOMAIN s : i \in DOMAIN Append(s, x) /\ Append(s, x)[i] = s[i]
           /\ \A i \in DOMAIN Append(s, x) :
                 (i \in DOMAIN s /\ Append(s, x)[i] = s[i]) \/ Append(s, x)[i] = x
           /\ Len(s) + 1 \in DOMAIN Append(s, x) /\ Append(s, x)[Len(s) + 1] = x
BY AppendFacts, InSeq

LEMMA InHand ==
    ASSUME HandlerTypes, ThreadInv, pc[Callback] \in {"deliver", "lock"}
    PROVE  /\ Len(data) = 1 /\ 1 \in DOMAIN data /\ data[1] \in Message
           /\ \A i \in DOMAIN data : i = 1
           /\ \A n : InData(n) <=> n = Number(data[1])
<1>1. Len(data) = 1 /\ data \in Seq(Message)
  BY DEF HandlerTypes, ThreadInv
<1>2. DOMAIN data = {1} /\ data[1] \in Message
  BY <1>1, InSeq
<1> QED
  BY <1>1, <1>2 DEF InData

\* With nothing in the callback thread's hand.
LEMMA NothingInHand ==
    ASSUME HandlerTypes, ThreadInv, pc[Callback] \notin {"deliver", "lock"}
    PROVE  data = << >> /\ Len(data) = 0 /\ \A n : ~InData(n)
BY DEF ThreadInv, InData

\* When t holds messages nobody else does.
LEMMA OneHolds ==
    ASSUME HandlerTypes, HeldInv, NEW t \in Threads, held[t] # << >>
    PROVE  /\ \A u \in Threads : u # t => held[u] = << >>
           /\ Cardinality(HeldIn(held)) = Len(held[t])
           /\ \A n : InHeld(n) <=> \E i \in DOMAIN held[t] : Number(held[t][i]) = n
<1>1. \A u \in Threads : u # t => held[u] = << >>
  BY DEF HeldInv
<1>2. held \in [Threads -> Seq(Message)]
  BY DEF HandlerTypes
<1>3. Cardinality(HeldIn(held)) = Len(held[t])
  BY <1>1, <1>2, HeldOne
<1>4. \A u \in Threads : u # t => DOMAIN held[u] = {}
  BY <1>1
<1> QED
  BY <1>1, <1>3, <1>4 DEF InHeld

LEMMA CountStep ==
    ASSUME NativeTypes, HandlerTypes, ThreadInv, BoundInv, HeldInv, StreamInv, WholeInv, CountInv,
           [Next]_vars
    PROVE  CountInv'
<1> DEFINE T == Taken(events, peer, peerAt)
           U == Taken(events', peer', peerAt')
<1>h. /\ log \in Seq(Nat \X Message) /\ pending \in Seq(Message) /\ data \in Seq(Message)
      /\ held \in [Threads -> Seq(Message)] /\ dropped \in Seq([msg : Nat, bytes : Nat])
      /\ cb \in [Threads -> 0 .. handlers] /\ handlers \in Nat /\ Callback \in Threads
  BY Limits DEF HandlerTypes
<1>l. /\ Len(log) \in Nat /\ Len(pending) \in Nat /\ Len(data) \in Nat /\ Len(dropped) \in Nat
  BY <1>h, InSeq
<1>c. /\ NextIn(events, T) /\ Total = T /\ T \in Int
      /\ \A n \in Int : n \in 1 .. T <=> Somewhere(n)
  <2>1. T \in Int
    BY TakenAppend DEF NativeTypes
  <2> QED
    BY <2>1 DEF CountInv
<1>k. Cardinality(HeldIn(held)) \in Nat
  <2>1. CASE \A u \in Threads : held[u] = << >>
    <3>1. Cardinality(HeldIn(held)) = 0
      BY <2>1, <1>h, HeldNone
    <3> QED
      BY <3>1
  <2>2. ASSUME NEW u \in Threads, held[u] # << >>
        PROVE  Cardinality(HeldIn(held)) \in Nat
    BY <2>2, <1>h, OneHolds, InSeq
  <2> QED
    BY <2>1, <2>2
<1>t. /\ NextIn(events', U)
      /\ IF OnFrame /\ ~Head(events).frame.more
         THEN U = T + 1 /\ Head(events).frame.msg = T + 1 ELSE U = T
  BY <1>c, TakenSteps
<1>T. T \in Nat
  BY <1>c, <1>l, <1>k DEF Total
<1> HIDE DEF T, U
<1>0. ASSUME U = T, Total' = Total, \A n : Somewhere(n)' <=> Somewhere(n)
      PROVE  CountInv'
  <2>1. Total' = U
    BY <1>0, <1>c
  <2>2. \A n \in Int : n \in 1 .. U <=> Somewhere(n)'
    BY <1>0, <1>c
  <2> QED
    BY <1>t, <2>1, <2>2 DEF CountInv, U
<1>1. ASSUME U = T + 1, Total' = Total + 1, \A n : Somewhere(n)' <=> Somewhere(n) \/ n = T + 1
      PROVE  CountInv'
  <2>1. Total' = U
    BY <1>1, <1>c
  <2>2. \A n \in Int : n \in 1 .. U <=> n \in 1 .. T \/ n = T + 1
    BY <1>1, <1>T
  <2>3. \A n \in Int : n \in 1 .. U <=> Somewhere(n)'
    BY <1>1, <1>c, <2>2
  <2> QED
    BY <1>t, <2>1, <2>3 DEF CountInv, U
<1>s. ASSUME UNCHANGED <<pending, held, dropped, data, log>>
      PROVE  Total' = Total /\ \A n : Somewhere(n)' <=> Somewhere(n)
  BY <1>s DEF Total, Somewhere, InLog, InPending, InHeld, InData, InDropped
<1>2. CASE UNCHANGED <<pending, held, dropped, data, log>> /\ ~ (OnFrame /\ ~Head(events).frame.more)
  BY <1>2, <1>0, <1>s, <1>t
<1>3. CASE OnFrame
  <2> DEFINE f     == Head(events).frame
             skips == skipping \/ TooLarge(f)
             got   == IF skips THEN << >> ELSE Append(buf, f)
  <2>1. /\ events # << >> /\ Head(events).type = "frame" /\ pc[Callback] = "idle"
        /\ UNCHANGED <<peer, pending, held, log>>
    BY <1>3 DEF OnFrame
  <2>2. f \in Frame /\ (~f.more /\ ~skips => Number(got) = f.msg)
    BY <2>1, Pushes
  <2>i. data = << >> /\ Len(data) = 0 /\ \A n : ~InData(n)
    BY <2>1, NothingInHand
  <2>3. CASE f.more
    <3>1. UNCHANGED <<pending, held, dropped, data, log>>
      BY <1>3, <2>1, <2>3 DEF OnFrame
    <3> QED
      BY <2>3, <3>1, <1>2
  <2>4. CASE ~f.more /\ skips
    <3> DEFINE x == [msg |-> f.msg, bytes |-> 0]
    <3>1. dropped' = Append(dropped, x) /\ data' = data
      BY <1>3, <2>4 DEF OnFrame
    <3>2. x \in [msg : Nat, bytes : Nat] /\ x.msg = f.msg
      BY <2>2, FrameFacts
    <3>3. U = T + 1 /\ f.msg = T + 1
      BY <1>3, <1>t, <2>4
    <3> HIDE DEF x, f
    <3>4. /\ Len(dropped') = Len(dropped) + 1
          /\ \A i \in DOMAIN dropped : i \in DOMAIN dropped' /\ dropped'[i] = dropped[i]
          /\ \A i \in DOMAIN dropped' : (i \in DOMAIN dropped /\ dropped'[i] = dropped[i]) \/ dropped'[i] = x
          /\ Len(dropped) + 1 \in DOMAIN dropped' /\ dropped'[Len(dropped) + 1] = x
      <4>1. dropped' = Append(dropped, x) /\ dropped \in Seq([msg : Nat, bytes : Nat]) /\ x \in [msg : Nat, bytes : Nat]
        BY <3>1, <3>2, <1>h
      <4> QED
        BY <4>1, InAppend
    <3>5. \A n : InDropped(n)' <=> InDropped(n) \/ n = T + 1
      BY <3>2, <3>3, <3>4 DEF InDropped
    <3>6. Total' = Total + 1
      BY <2>1, <3>1, <3>4, <1>l, <1>k DEF Total
    <3>7. \A n : Somewhere(n)' <=> Somewhere(n) \/ n = T + 1
      BY <2>1, <3>1, <3>5 DEF Somewhere, InLog, InPending, InHeld, InData
    <3> QED
      BY <3>3, <3>6, <3>7, <1>1
  <2>5. CASE ~f.more /\ ~skips
    <3>1. data' = <<got>> /\ dropped' = dropped
      BY <1>3, <2>5 DEF OnFrame
    <3>3. U = T + 1 /\ f.msg = T + 1 /\ Number(got) = T + 1
      BY <1>3, <1>t, <2>2, <2>5
    <3> HIDE DEF got
    <3>4. Len(data') = 1 /\ 1 \in DOMAIN data' /\ \A i \in DOMAIN data' : data'[i] = got
      BY <3>1
    <3>5. \A n : InData(n)' <=> n = T + 1
      BY <3>3, <3>4 DEF InData
    <3>6. Total' = Total + 1
      BY <2>1, <2>i, <3>1, <3>4, <1>l, <1>k DEF Total
    <3>7. \A n : Somewhere(n)' <=> Somewhere(n) \/ n = T + 1
      BY <2>1, <2>i, <3>1, <3>5 DEF Somewhere, InLog, InPending, InHeld, InDropped
    <3> QED
      BY <3>3, <3>6, <3>7, <1>1
  <2> QED
    BY <2>3, <2>4, <2>5
<1>4. CASE Deliver
  <2> DEFINE m == data[1]
  <2>0. pc[Callback] = "deliver" /\ UNCHANGED <<held, log>> /\ ~OnFrame
    BY <1>4 DEF Deliver, OnFrame
  <2>i. Len(data) = 1 /\ m \in Message /\ \A n : InData(n) <=> n = Number(m)
    BY <2>0, InHand
  <2>1. CASE slot # NoHandler
    <3>1. UNCHANGED <<pending, held, dropped, data, log>>
      BY <2>0, <2>1, <1>4 DEF Deliver
    <3> QED
      BY <2>0, <3>1, <1>2
  <2>2. CASE slot = NoHandler
    <3>0. data' = << >>
      BY <1>4, <2>2 DEF Deliver
    <3>u. U = T
      BY <2>0, <1>t
    <3>d. Len(data') = 0 /\ \A n : ~InData(n)'
      BY <3>0 DEF InData
    <3>1. CASE Holds(Payload(m))
      <4>1. pending' = Append(pending, m) /\ dropped' = dropped
        BY <1>4, <2>2, <3>1 DEF Deliver
      <4> HIDE DEF m
      <4>2. /\ Len(pending') = Len(pending) + 1
            /\ \A i \in DOMAIN pending : i \in DOMAIN pending' /\ pending'[i] = pending[i]
            /\ \A i \in DOMAIN pending' : (i \in DOMAIN pending /\ pending'[i] = pending[i]) \/ pending'[i] = m
            /\ Len(pending) + 1 \in DOMAIN pending' /\ pending'[Len(pending) + 1] = m
        <5>1. pending' = Append(pending, m) /\ pending \in Seq(Message) /\ m \in Message
          BY <2>i, <4>1, <1>h
        <5> QED
          BY <5>1, InAppend
      <4>3. \A n : InPending(n)' <=> InPending(n) \/ n = Number(m)
        BY <4>2 DEF InPending
      <4>4. Total' = Total
        BY <2>0, <2>i, <3>d, <4>1, <4>2, <1>l, <1>k DEF Total
      <4>5. \A n : Somewhere(n)' <=> Somewhere(n)
        BY <2>0, <2>i, <3>d, <4>1, <4>3 DEF Somewhere, InLog, InHeld, InDropped
      <4> QED
        BY <3>u, <4>4, <4>5, <1>0
    <3>2. CASE ~Holds(Payload(m))
      <4> DEFINE x == [msg |-> m[1].msg, bytes |-> pendingBytes]
      <4>1. pending' = pending /\ dropped' = Append(dropped, x)
        BY <1>4, <2>2, <3>2 DEF Deliver
      <4>2. Passed(m, peer)
        BY <2>0, InHand DEF WholeInv
      <4>3. m[1].msg = Number(m) /\ Number(m) \in Nat
        BY <2>i, <4>2, PassedFacts
      <4>4. x \in [msg : Nat, bytes : Nat] /\ x.msg = Number(m)
        BY <4>3, Limits DEF HandlerTypes
      <4> HIDE DEF m, x
      <4>5. /\ Len(dropped') = Len(dropped) + 1
            /\ \A i \in DOMAIN dropped : i \in DOMAIN dropped' /\ dropped'[i] = dropped[i]
            /\ \A i \in DOMAIN dropped' : (i \in DOMAIN dropped /\ dropped'[i] = dropped[i]) \/ dropped'[i] = x
            /\ Len(dropped) + 1 \in DOMAIN dropped' /\ dropped'[Len(dropped) + 1] = x
        <5>1. dropped' = Append(dropped, x) /\ dropped \in Seq([msg : Nat, bytes : Nat]) /\ x \in [msg : Nat, bytes : Nat]
          BY <4>1, <4>4, <1>h
        <5> QED
          BY <5>1, InAppend
      <4>6. \A n : InDropped(n)' <=> InDropped(n) \/ n = Number(m)
        <5> TAKE n
        <5>1. ASSUME InDropped(n)'
              PROVE  InDropped(n) \/ n = Number(m)
          BY <5>1, <4>4, <4>5 DEF InDropped
        <5>2. ASSUME InDropped(n)
              PROVE  InDropped(n)'
          BY <5>2, <4>5 DEF InDropped
        <5>3. ASSUME n = Number(m)
              PROVE  InDropped(n)'
          BY <5>3, <4>4, <4>5 DEF InDropped
        <5> QED
          BY <5>1, <5>2, <5>3
      <4>7. Total' = Total
        <5>1. Len(dropped') = Len(dropped) + 1 /\ Len(data') = 0 /\ Len(data) = 1
          BY <2>i, <3>d, <4>5
        <5>2. UNCHANGED <<log, pending, held>>
          BY <2>0, <4>1
        <5> QED
          BY <5>1, <5>2, <1>l, <1>k DEF Total
      <4>8. \A n : Somewhere(n)' <=> Somewhere(n)
        BY <2>0, <2>i, <3>d, <4>1, <4>6 DEF Somewhere, InLog, InHeld, InPending
      <4> QED
        BY <3>u, <4>7, <4>8, <1>0
    <3> QED
      BY <3>1, <3>2
  <2> QED
    BY <2>1, <2>2
<1>5. CASE LockHandler
  <2> DEFINE m == data[1]
             x == <<cb[Callback], m>>
  <2>0. /\ pc[Callback] = "lock" /\ UNCHANGED <<held, pending, dropped>> /\ ~OnFrame
        /\ log' = Append(log, x) /\ data' = << >>
    BY <1>5 DEF LockHandler, OnFrame
  <2>i. Len(data) = 1 /\ m \in Message /\ \A n : InData(n) <=> n = Number(m)
    BY <2>0, InHand
  <2>u. U = T
    BY <2>0, <1>t
  <2>d. Len(data') = 0 /\ \A n : ~InData(n)'
    BY <2>0 DEF InData
  <2>x. x \in Nat \X Message /\ x[2] = m
    <3>1. cb[Callback] \in Nat
      BY <1>h
    <3> QED
      BY <3>1, <2>i
  <2> HIDE DEF m, x
  <2>2. /\ Len(log') = Len(log) + 1
        /\ \A i \in DOMAIN log : i \in DOMAIN log' /\ log'[i] = log[i]
        /\ \A i \in DOMAIN log' : (i \in DOMAIN log /\ log'[i] = log[i]) \/ log'[i] = x
        /\ Len(log) + 1 \in DOMAIN log' /\ log'[Len(log) + 1] = x
    <3>1. log' = Append(log, x) /\ log \in Seq(Nat \X Message) /\ x \in Nat \X Message
      BY <2>0, <2>x, <1>h
    <3> QED
      BY <3>1, InAppend
  <2>3. \A n : InLog(n)' <=> InLog(n) \/ n = Number(m)
    BY <2>2, <2>x DEF InLog
  <2>4. Total' = Total
    BY <2>0, <2>i, <2>d, <2>2, <1>l, <1>k DEF Total
  <2>5. \A n : Somewhere(n)' <=> Somewhere(n)
    BY <2>0, <2>i, <2>d, <2>3 DEF Somewhere, InPending, InHeld, InDropped
  <2> QED
    BY <2>u, <2>4, <2>5, <1>0
<1>6. ASSUME NEW t \in Threads, OnMessage(t)
      PROVE  CountInv'
  <2>0. /\ held' = [held EXCEPT ![t] = pending] /\ pending' = << >>
        /\ UNCHANGED <<dropped, data, log, events, peer, peerAt>>
        /\ pc[t] \in {"idle", "notice"}
    BY <1>6 DEF OnMessage, Publish, nativeVars
  <2>u. U = T
    BY <2>0 DEF U, T
  <2>1. held[t] = << >>
    BY <2>0 DEF HeldInv, FlushLabels
  <2>2. CASE pending = << >>
    <3>1. held' = held
      BY <2>0, <2>1, <2>2, <1>h
    <3>2. UNCHANGED <<pending, held, dropped, data, log>>
      BY <2>0, <2>2, <3>1
    <3> QED
      BY <2>u, <3>2, <1>s, <1>0
  <2>3. CASE pending # << >>
    <3>1. \A u \in Threads : held[u] = << >>
      BY <2>3 DEF HeldInv
    <3>2. held'[t] = pending /\ (\A u \in Threads : u # t => held'[u] = << >>)
          /\ held' \in [Threads -> Seq(Message)]
      BY <2>0, <3>1, <1>h
    <3>3. Cardinality(HeldIn(held)) = 0 /\ Cardinality(HeldIn(held')) = Len(pending)
      BY <3>1, <3>2, <1>h, HeldNone, HeldOne
    <3>4. \A n : ~InHeld(n)
      BY <3>1 DEF InHeld
    <3>5. \A n : InHeld(n)' <=> InPending(n)
      BY <3>2 DEF InHeld, InPending
    <3>6. Len(pending') = 0 /\ \A n : ~InPending(n)'
      BY <2>0 DEF InPending
    <3>7. Total' = Total
      BY <2>0, <3>3, <3>6, <1>l DEF Total
    <3>8. \A n : Somewhere(n)' <=> Somewhere(n)
      BY <2>0, <3>4, <3>5, <3>6 DEF Somewhere, InLog, InData, InDropped
    <3> QED
      BY <2>u, <3>7, <3>8, <1>0
  <2> QED
    BY <2>2, <2>3
<1>7. ASSUME NEW t \in Threads, Flush(t)
      PROVE  CountInv'
  <2>0. UNCHANGED <<pending, dropped, data, events, peer, peerAt>>
    BY <1>7 DEF Flush, nativeVars
  <2>u. U = T
    BY <2>0 DEF U, T
  <2>1. CASE held[t] = << >>
    <3>1. UNCHANGED <<pending, held, dropped, data, log>>
      BY <2>0, <2>1, <1>7 DEF Flush
    <3> QED
      BY <2>u, <3>1, <1>s, <1>0
  <2>2. CASE held[t] # << >>
    <3> DEFINE s == held[t]
               m == Head(s)
               x == <<cb[t], m>>
    <3>1. log' = Append(log, x) /\ held' = [held EXCEPT ![t] = Tail(s)]
      BY <1>7, <2>2 DEF Flush
    <3>2. /\ \A u \in Threads : u # t => held[u] = << >>
          /\ Cardinality(HeldIn(held)) = Len(s)
          /\ \A n : InHeld(n) <=> \E i \in DOMAIN s : Number(s[i]) = n
      BY <2>2, OneHolds
    <3>3. /\ m \in Message /\ Tail(s) \in Seq(Message) /\ Len(Tail(s)) = Len(s) - 1 /\ Len(s) \in Nat
          /\ 1 \in DOMAIN s /\ m = s[1]
          /\ \A i \in DOMAIN Tail(s) : i + 1 \in DOMAIN s /\ Tail(s)[i] = s[i + 1]
          /\ \A i \in DOMAIN s : i # 1 => i - 1 \in DOMAIN Tail(s) /\ Tail(s)[i - 1] = s[i]
      BY <2>2, <1>h, TailFacts, InSeq
    <3>4. /\ held'[t] = Tail(s) /\ (\A u \in Threads : u # t => held'[u] = << >>)
          /\ held' \in [Threads -> Seq(Message)]
      BY <3>1, <3>2, <3>3, <1>h
    <3>5. Cardinality(HeldIn(held')) = Len(s) - 1
      BY <3>3, <3>4, HeldOne
    <3>x. x \in Nat \X Message /\ x[2] = m
      <4>1. cb[t] \in Nat
        BY <1>h
      <4> QED
        BY <4>1, <3>3
    <3> HIDE DEF m, x
    <3>6. /\ Len(log') = Len(log) + 1
          /\ \A i \in DOMAIN log : i \in DOMAIN log' /\ log'[i] = log[i]
          /\ \A i \in DOMAIN log' : (i \in DOMAIN log /\ log'[i] = log[i]) \/ log'[i] = x
          /\ Len(log) + 1 \in DOMAIN log' /\ log'[Len(log) + 1] = x
      <4>1. log' = Append(log, x) /\ log \in Seq(Nat \X Message) /\ x \in Nat \X Message
        BY <3>1, <3>x, <1>h
      <4> QED
        BY <4>1, InAppend
    <3>7. \A n : InLog(n)' <=> InLog(n) \/ n = Number(m)
      BY <3>6, <3>x DEF InLog
    <3>8. \A n : InHeld(n)' <=> \E i \in DOMAIN Tail(s) : Number(Tail(s)[i]) = n
      <4>1. \A u \in Threads : u # t => DOMAIN held'[u] = {}
        BY <3>4
      <4> QED
        BY <3>4, <4>1 DEF InHeld
    <3>9. \A n : InHeld(n) <=> InHeld(n)' \/ n = Number(m)
      <4> TAKE n
      <4>1. ASSUME InHeld(n)
            PROVE  InHeld(n)' \/ n = Number(m)
        <5>1. PICK i \in DOMAIN s : Number(s[i]) = n
          BY <4>1, <3>2
        <5>2. CASE i = 1
          BY <5>1, <5>2, <3>3
        <5>3. CASE i # 1
          BY <5>1, <5>3, <3>3, <3>8
        <5> QED
          BY <5>2, <5>3
      <4>2. ASSUME InHeld(n)' \/ n = Number(m)
            PROVE  InHeld(n)
        <5>1. CASE n = Number(m)
          BY <5>1, <3>2, <3>3
        <5>2. CASE InHeld(n)'
          BY <5>2, <3>2, <3>3, <3>8
        <5> QED
          BY <4>2, <5>1, <5>2
      <4> QED
        BY <4>1, <4>2
    <3>10. Total' = Total
      <4>1. /\ Len(log') = Len(log) + 1 /\ Cardinality(HeldIn(held)) = Len(s) /\ Len(s) \in Nat
            /\ Cardinality(HeldIn(held')) = Len(s) - 1
        BY <3>2, <3>3, <3>5, <3>6
      <4> HIDE DEF s
      <4> QED
        BY <2>0, <4>1, <1>l DEF Total
    <3>11. \A n : Somewhere(n)' <=> Somewhere(n)
      BY <2>0, <3>7, <3>9 DEF Somewhere, InPending, InData, InDropped
    <3> QED
      BY <2>u, <3>10, <3>11, <1>0
  <2> QED
    BY <2>1, <2>2
<1>8. CASE Arrive
  <2>1. UNCHANGED <<pending, held, dropped, data, log>>
    BY <1>8 DEF Arrive, slotVars, threadVars
  <2>2. CASE OnFrame
    BY <2>2, <1>3
  <2> QED
    BY <2>1, <2>2, <1>2
<1>9. CASE UNCHANGED <<peer, peerAt, pending, pendingBytes, held, dropped, data, log>>
  <2>1. CASE OnFrame
    BY <2>1, <1>3
  <2> QED
    BY <2>1, <1>9, <1>2
<1> QED
  BY <1>3, <1>4, <1>5, <1>6, <1>7, <1>8, <1>9, MessagesQuiet
     DEF Next, CallbackStep, FlushStep, HandlerCall, Terminated

-----------------------------------------------------------------------------
(* The peer's order.                                                       *)

LEMMA Numbers ==
    ASSUME HandlerTypes, WholeInv
    PROVE  /\ \A i \in DOMAIN log : Number(log[i][2]) \in Nat
           /\ \A i \in DOMAIN pending : Number(pending[i]) \in Nat
           /\ \A t \in Threads : \A i \in DOMAIN held[t] : Number(held[t][i]) \in Nat
           /\ \A i \in DOMAIN data : Number(data[i]) \in Nat
<1>1. \A m \in Message : Passed(m, peer) => Number(m) \in Nat
  BY PassedFacts
<1>2. \A i \in DOMAIN log : log[i][2] \in Message
  <2> TAKE i \in DOMAIN log
  <2>1. log[i] \in Nat \X Message
    BY InSeq DEF HandlerTypes
  <2> QED
    BY <2>1
<1>3. /\ \A i \in DOMAIN pending : pending[i] \in Message
      /\ \A i \in DOMAIN data : data[i] \in Message
  BY InSeq DEF HandlerTypes
<1>4. \A t \in Threads : \A i \in DOMAIN held[t] : held[t][i] \in Message
  <2> TAKE t \in Threads
  <2>1. held[t] \in Seq(Message)
    BY DEF HandlerTypes
  <2> QED
    BY <2>1, InSeq
<1> QED
  BY <1>1, <1>2, <1>3, <1>4 DEF WholeInv

LEMMA WaitStep ==
    ASSUME HandlerTypes, ThreadInv, HeldInv, WholeInv, OrderInv, [Next]_vars
    PROVE  WaitOrder'
<1>h. /\ pending \in Seq(Message) /\ held \in [Threads -> Seq(Message)] /\ Callback \in Threads
  BY Limits DEF HandlerTypes
<1>w. /\ \A i, j \in DOMAIN pending : i < j => Number(pending[i]) < Number(pending[j])
      /\ \A t \in Threads : \A i, j \in DOMAIN held[t] :
            i < j => Number(held[t][i]) < Number(held[t][j])
  BY DEF OrderInv, WaitOrder
<1>0. ASSUME UNCHANGED <<pending, held>>
      PROVE  WaitOrder'
  BY <1>0, <1>w DEF WaitOrder
<1>1. CASE Deliver
  <2>0. pc[Callback] = "deliver" /\ held' = held
    BY <1>1 DEF Deliver
  <2>1. CASE pending' = pending
    BY <2>0, <2>1, <1>0
  <2>2. CASE pending' = Append(pending, data[1])
    <3> DEFINE m == data[1]
    <3>1. m \in Message /\ \A i \in DOMAIN pending : Number(pending[i]) < Number(m)
      BY <2>0, InHand DEF OrderInv, HandLast
    <3>2. pending' = Append(pending, m)
      BY <2>2
    <3> HIDE DEF m
    <3>3. ASSUME NEW i \in DOMAIN pending', NEW j \in DOMAIN pending', i < j
          PROVE  Number(pending'[i]) < Number(pending'[j])
      <4>1. /\ Len(pending') = Len(pending) + 1 /\ Len(pending) \in Nat
            /\ DOMAIN pending = 1 .. Len(pending) /\ DOMAIN pending' = 1 .. Len(pending')
            /\ \A k \in DOMAIN pending : pending'[k] = pending[k]
            /\ pending'[Len(pending) + 1] = m
        BY <1>h, <3>1, <3>2, AppendFacts, InSeq
      <4>2. i \in DOMAIN pending
        BY <4>1, <3>3
      <4>3. CASE j = Len(pending) + 1
        BY <3>1, <4>1, <4>2, <4>3
      <4>4. CASE j \in DOMAIN pending
        BY <3>3, <4>1, <4>2, <4>4, <1>w
      <4> QED
        BY <4>1, <4>3, <4>4
    <3> QED
      BY <2>0, <3>3, <1>w DEF WaitOrder
  <2> QED
    BY <1>1, <2>1, <2>2 DEF Deliver
<1>2. ASSUME NEW t \in Threads, OnMessage(t)
      PROVE  WaitOrder'
  <2>1. held' = [held EXCEPT ![t] = pending] /\ pending' = << >>
    BY <1>2 DEF OnMessage, Publish
  <2>2. \A u \in Threads : held'[u] = IF u = t THEN pending ELSE held[u]
    BY <2>1, <1>h
  <2>3. \A u \in Threads : \A i, j \in DOMAIN held'[u] :
           i < j => Number(held'[u][i]) < Number(held'[u][j])
    BY <2>2, <1>w
  <2> QED
    BY <2>1, <2>3 DEF WaitOrder
<1>3. ASSUME NEW t \in Threads, Flush(t)
      PROVE  WaitOrder'
  <2>0. pending' = pending
    BY <1>3 DEF Flush
  <2>1. CASE held[t] = << >>
    BY <2>0, <2>1, <1>3, <1>0 DEF Flush
  <2>2. CASE held[t] # << >>
    <3> DEFINE s == held[t]
               r == Tail(s)
    <3>1. held' = [held EXCEPT ![t] = r]
      BY <1>3, <2>2 DEF Flush
    <3>2. \A u \in Threads : held'[u] = IF u = t THEN r ELSE held[u]
      BY <3>1, <1>h
    <3>3. /\ r \in Seq(Message) /\ \A i \in DOMAIN r : i + 1 \in DOMAIN s /\ r[i] = s[i + 1]
      BY <2>2, <1>h, TailFacts
    <3>4. \A i \in DOMAIN r : i \in Nat
      BY <3>3, InSeq
    <3>5. \A i, j \in DOMAIN s : i < j => Number(s[i]) < Number(s[j])
      BY <1>w
    <3> HIDE DEF s, r
    <3>6. \A i, j \in DOMAIN r : i < j => Number(r[i]) < Number(r[j])
      BY <3>3, <3>4, <3>5
    <3>7. \A u \in Threads : \A i, j \in DOMAIN held'[u] :
             i < j => Number(held'[u][i]) < Number(held'[u][j])
      BY <3>2, <3>6, <1>w
    <3> QED
      BY <2>0, <3>7, <1>w DEF WaitOrder
  <2> QED
    BY <2>1, <2>2
<1>4. CASE Arrive \/ OnFrame \/ LockHandler
  BY <1>4, <1>0 DEF Arrive, OnFrame, LockHandler, slotVars
<1> QED
  BY <1>0, <1>1, <1>2, <1>3, <1>4, MessagesQuiet
     DEF Next, CallbackStep, FlushStep, HandlerCall, Terminated

LEMMA HandStep ==
    ASSUME NativeTypes, HandlerTypes, ThreadInv, BoundInv, HeldInv, StreamInv, WholeInv, CountInv,
           OrderInv, [Next]_vars
    PROVE  HandLast'
<1>h. /\ log \in Seq(Nat \X Message) /\ pending \in Seq(Message) /\ data \in Seq(Message)
      /\ held \in [Threads -> Seq(Message)] /\ cb \in [Threads -> 0 .. handlers]
      /\ handlers \in Nat /\ Callback \in Threads
  BY Limits DEF HandlerTypes
<1>d. \A d \in DOMAIN data :
         /\ \A i \in DOMAIN log : Number(log[i][2]) < Number(data[d])
         /\ \A i \in DOMAIN pending : Number(pending[i]) < Number(data[d])
         /\ \A t \in Threads : \A i \in DOMAIN held[t] : Number(held[t][i]) < Number(data[d])
  BY DEF OrderInv, HandLast
<1>0. ASSUME UNCHANGED <<log, pending, held, data>>
      PROVE  HandLast'
  BY <1>0, <1>d DEF HandLast
<1>e. ASSUME data' = << >>
      PROVE  HandLast'
  BY <1>e DEF HandLast
<1>1. CASE OnFrame
  <2> DEFINE f     == Head(events).frame
             skips == skipping \/ TooLarge(f)
             got   == IF skips THEN << >> ELSE Append(buf, f)
             T     == Taken(events, peer, peerAt)
  <2>1. /\ events # << >> /\ Head(events).type = "frame" /\ UNCHANGED <<pending, held, log>>
    BY <1>1 DEF OnFrame
  <2>2. CASE data' = data
    BY <2>1, <2>2, <1>0
  <2>3. CASE ~f.more /\ ~skips
    <3>1. data' = <<got>> /\ Number(got) = f.msg
      BY <1>1, <2>1, <2>3, Pushes DEF OnFrame
    <3>2. f.msg = T + 1
      BY <1>1, <2>3, TakenSteps DEF CountInv
    <3>3. \A n \in Int : Somewhere(n) => n <= T /\ T \in Int
      BY TakenAppend DEF CountInv, NativeTypes
    <3> HIDE DEF got, T, f
    <3>4. /\ \A i \in DOMAIN log : Number(log[i][2]) < Number(got)
          /\ \A i \in DOMAIN pending : Number(pending[i]) < Number(got)
          /\ \A t \in Threads : \A i \in DOMAIN held[t] : Number(held[t][i]) < Number(got)
      <4>1. \A n \in Nat : Somewhere(n) => n < Number(got)
        BY <3>1, <3>2, <3>3
      <4>2. /\ \A i \in DOMAIN log : Somewhere(Number(log[i][2]))
            /\ \A i \in DOMAIN pending : Somewhere(Number(pending[i]))
            /\ \A t \in Threads : \A i \in DOMAIN held[t] : Somewhere(Number(held[t][i]))
        BY DEF Somewhere, InLog, InPending, InHeld
      <4> QED
        BY <4>1, <4>2, Numbers
    <3>5. \A d \in DOMAIN data' : data'[d] = got
      BY <3>1
    <3> QED
      BY <2>1, <3>4, <3>5 DEF HandLast
  <2>4. CASE f.more \/ skips
    <3>1. data' = data
      BY <1>1, <2>4 DEF OnFrame
    <3> QED
      BY <3>1, <2>2
  <2> QED
    BY <2>3, <2>4
<1>2. CASE Deliver
  <2>1. CASE slot # NoHandler
    BY <1>2, <2>1, <1>0 DEF Deliver
  <2>2. CASE slot = NoHandler
    BY <1>2, <2>2, <1>e DEF Deliver
  <2> QED
    BY <2>1, <2>2
<1>3. CASE LockHandler
  BY <1>3, <1>e DEF LockHandler
<1>4. ASSUME NEW t \in Threads, OnMessage(t)
      PROVE  HandLast'
  <2>1. held' = [held EXCEPT ![t] = pending] /\ pending' = << >> /\ UNCHANGED <<data, log>>
    BY <1>4 DEF OnMessage, Publish
  <2>2. \A u \in Threads : held'[u] = IF u = t THEN pending ELSE held[u]
    BY <2>1, <1>h
  <2>3. \A d \in DOMAIN data : \A u \in Threads : \A i \in DOMAIN held'[u] :
           Number(held'[u][i]) < Number(data[d])
    BY <2>2, <1>d
  <2> QED
    BY <2>1, <2>3, <1>d DEF HandLast
<1>5. ASSUME NEW t \in Threads, Flush(t)
      PROVE  HandLast'
  <2>0. UNCHANGED <<pending, data>>
    BY <1>5 DEF Flush
  <2>1. CASE held[t] = << >>
    BY <2>0, <2>1, <1>5, <1>0 DEF Flush
  <2>2. CASE held[t] # << >>
    <3> DEFINE s == held[t]
               m == Head(s)
               r == Tail(s)
               x == <<cb[t], m>>
    <3>1. log' = Append(log, x) /\ held' = [held EXCEPT ![t] = r]
      BY <1>5, <2>2 DEF Flush
    <3>2. \A u \in Threads : held'[u] = IF u = t THEN r ELSE held[u]
      BY <3>1, <1>h
    <3>3. /\ m \in Message /\ 1 \in DOMAIN s /\ m = s[1]
          /\ \A i \in DOMAIN r : i + 1 \in DOMAIN s /\ r[i] = s[i + 1]
      BY <2>2, <1>h, TailFacts
    <3>x. x \in Nat \X Message /\ x[2] = m
      <4>1. cb[t] \in Nat
        BY <1>h
      <4> QED
        BY <4>1, <3>3
    <3>4. \A d \in DOMAIN data : \A i \in DOMAIN s : Number(s[i]) < Number(data[d])
      BY <1>d
    <3> HIDE DEF s, m, r, x
    <3>5. \A i \in DOMAIN log' : (i \in DOMAIN log /\ log'[i] = log[i]) \/ log'[i] = x
      <4>1. log' = Append(log, x) /\ log \in Seq(Nat \X Message)
        BY <3>1, <1>h
      <4> QED
        BY <4>1, <3>x, InAppend
    <3>6. \A d \in DOMAIN data : \A i \in DOMAIN log' : Number(log'[i][2]) < Number(data[d])
      BY <3>3, <3>4, <3>5, <3>x, <1>d
    <3>7. \A d \in DOMAIN data : \A u \in Threads : \A i \in DOMAIN held'[u] :
             Number(held'[u][i]) < Number(data[d])
      BY <3>2, <3>3, <3>4, <1>d
    <3> QED
      BY <2>0, <3>6, <3>7, <1>d DEF HandLast
  <2> QED
    BY <2>1, <2>2
<1>6. CASE Arrive
  BY <1>6, <1>0 DEF Arrive, slotVars, threadVars
<1> QED
  BY <1>0, <1>1, <1>2, <1>3, <1>4, <1>5, <1>6, MessagesQuiet
     DEF Next, CallbackStep, FlushStep, HandlerCall, Terminated

LEMMA CalledStep ==
    ASSUME HandlerTypes, ThreadInv, HeldInv, WholeInv, OrderInv, [Next]_vars, ~crossed'
    PROVE  CalledFirst'
<1>h. /\ log \in Seq(Nat \X Message) /\ held \in [Threads -> Seq(Message)]
      /\ cb \in [Threads -> 0 .. handlers] /\ handlers \in Nat /\ Callback \in Threads
      /\ NoThread \notin Threads
  BY Limits DEF HandlerTypes
<1>x. ~crossed
  BY DEF Next, CallbackStep, FlushStep, HandlerCall, Terminated, Arrive, ArriveBad, CloseDone,
         OnFrame, OnBadFrame, OnNotice, Deliver, LockHandler, HandlerReturns, DeliverNotices,
         NoticeHandlerReturns, OnMessage, Flush, FlushHandlerReturns, MethodRuns, Replace,
         CallMethod, PostMethod, vars, slotVars
<1>o. /\ \A i, j \in DOMAIN log : i < j => Number(log[i][2]) < Number(log[j][2])
      /\ \A t \in Threads : \A i \in DOMAIN log : \A j \in DOMAIN held[t] :
            Number(log[i][2]) < Number(held[t][j])
      /\ \A t \in Threads : pc[t] \in FlushLabels => cb[t] = slot
      /\ \A t \in Threads : held[t] # << >> /\ pc[Callback] = "lock" => cb[Callback] = slot
  BY <1>x DEF OrderInv, CalledFirst, InOrder, FlushedIsSet
<1>0. ASSUME UNCHANGED <<log, held>>
      PROVE  CalledFirst'
  BY <1>0, <1>o DEF CalledFirst, InOrder
\* A message that comes after all that were called for is called for.
<1>a. ASSUME NEW m \in Message, NEW h \in Nat, log' = Append(log, <<h, m>>),
             \A i \in DOMAIN log : Number(log[i][2]) < Number(m)
      PROVE  InOrder' /\ \A i \in DOMAIN log' : log'[i][2] = m \/ (i \in DOMAIN log /\ log'[i] = log[i])
  <2> DEFINE x == <<h, m>>
  <2>1. x \in Nat \X Message /\ x[2] = m /\ log' = Append(log, x)
    BY <1>a
  <2> HIDE DEF x
  <2>2. /\ Len(log') = Len(log) + 1 /\ Len(log) \in Nat
        /\ DOMAIN log = 1 .. Len(log) /\ DOMAIN log' = 1 .. Len(log')
        /\ \A k \in DOMAIN log : log'[k] = log[k]
        /\ log'[Len(log) + 1] = x
    BY <1>h, <2>1, AppendFacts, InSeq
  <2>3. ASSUME NEW i \in DOMAIN log', NEW j \in DOMAIN log', i < j
        PROVE  Number(log'[i][2]) < Number(log'[j][2])
    <3>2. i \in DOMAIN log
      BY <2>2, <2>3
    <3>3. CASE j = Len(log) + 1
      BY <1>a, <2>1, <2>2, <3>2, <3>3
    <3>4. CASE j \in DOMAIN log
      BY <2>2, <2>3, <3>2, <3>4, <1>o
    <3> QED
      BY <2>2, <3>3, <3>4
  <2>4. \A i \in DOMAIN log' : log'[i][2] = m \/ (i \in DOMAIN log /\ log'[i] = log[i])
    <3> TAKE i \in DOMAIN log'
    <3>1. i = Len(log) + 1 \/ i \in DOMAIN log
      BY <2>2
    <3> QED
      BY <3>1, <2>1, <2>2
  <2> QED
    BY <2>3, <2>4 DEF InOrder
<1>1. CASE LockHandler
  <2> DEFINE m == data[1]
  <2>0. /\ pc[Callback] = "lock" /\ lock[cb[Callback]] = NoThread /\ held' = held
        /\ log' = Append(log, <<cb[Callback], m>>)
    BY <1>1 DEF LockHandler
  <2>1. m \in Message /\ \A i \in DOMAIN log : Number(log[i][2]) < Number(m)
    BY <2>0, InHand DEF OrderInv, HandLast
  <2>2. cb[Callback] \in Nat
    BY <1>h
  <2> HIDE DEF m
  <2>3. InOrder'
    BY <2>0, <2>1, <2>2, <1>a
  <2>4. \A t \in Threads : held[t] = << >>
    <3> SUFFICES ASSUME NEW t \in Threads, held[t] # << >> PROVE FALSE
      OBVIOUS
    <3>1. pc[t] \in FlushLabels /\ lock[cb[t]] = t
      BY DEF HeldInv
    <3>2. cb[t] = slot /\ cb[Callback] = slot
      BY <3>1, <2>0, <1>o
    <3> QED
      BY <3>1, <3>2, <2>0, <1>h
  <2>5. \A t \in Threads : DOMAIN held'[t] = {}
    BY <2>0, <2>4
  <2> QED
    BY <2>3, <2>5 DEF CalledFirst
<1>2. ASSUME NEW t \in Threads, OnMessage(t)
      PROVE  CalledFirst'
  <2>1. held' = [held EXCEPT ![t] = pending] /\ log' = log
    BY <1>2 DEF OnMessage, Publish
  <2>2. \A u \in Threads : held'[u] = IF u = t THEN pending ELSE held[u]
    BY <2>1, <1>h
  <2>3. pending = << >> \/ log = << >>
    BY DEF HeldInv
  <2>4. DOMAIN pending = {} \/ DOMAIN log = {}
    BY <2>3
  <2>5. \A u \in Threads : \A i \in DOMAIN log : \A j \in DOMAIN held'[u] :
           Number(log[i][2]) < Number(held'[u][j])
    BY <2>2, <2>4, <1>o
  <2> QED
    BY <2>1, <2>5, <1>o DEF CalledFirst, InOrder
<1>3. ASSUME NEW t \in Threads, Flush(t)
      PROVE  CalledFirst'
  <2>1. CASE held[t] = << >>
    BY <2>1, <1>3, <1>0 DEF Flush
  <2>2. CASE held[t] # << >>
    <3> DEFINE s == held[t]
               m == Head(s)
               r == Tail(s)
    <3>1. log' = Append(log, <<cb[t], m>>) /\ held' = [held EXCEPT ![t] = r]
      BY <1>3, <2>2 DEF Flush
    <3>2. \A u \in Threads : u # t => held[u] = << >>
      BY <2>2, OneHolds
    <3>3. /\ m \in Message /\ 1 \in DOMAIN s /\ m = s[1] /\ r \in Seq(Message)
          /\ \A i \in DOMAIN r : i + 1 \in DOMAIN s /\ r[i] = s[i + 1]
      BY <2>2, <1>h, TailFacts
    <3>4. cb[t] \in Nat
      BY <1>h
    <3>5. \A i \in DOMAIN log : Number(log[i][2]) < Number(s[1])
      BY <3>3, <1>o
    <3>6. \A i \in DOMAIN s : 1 < i => Number(s[1]) < Number(s[i])
      BY <3>3 DEF OrderInv, WaitOrder
    <3>7. \A i \in DOMAIN s : \A k \in DOMAIN log : Number(log[k][2]) < Number(s[i])
      BY <1>o
    <3>8. \A i \in DOMAIN r : i \in Nat /\ i >= 1
      BY <3>3, InSeq
    <3>9. \A u \in Threads : u # t => DOMAIN held'[u] = {}
      BY <3>1, <3>2, <1>h
    <3>10. held'[t] = r
      BY <3>1, <1>h
    <3> HIDE DEF s, m, r
    <3>11. InOrder' /\ \A i \in DOMAIN log' : log'[i][2] = m \/ (i \in DOMAIN log /\ log'[i] = log[i])
      BY <3>1, <3>3, <3>4, <3>5, <1>a
    <3>12. \A j \in DOMAIN r : Number(m) < Number(r[j]) /\ \A i \in DOMAIN log : Number(log[i][2]) < Number(r[j])
      <4> TAKE j \in DOMAIN r
      <4>1. j + 1 \in DOMAIN s /\ r[j] = s[j + 1] /\ 1 < j + 1
        BY <3>3, <3>8
      <4> QED
        BY <4>1, <3>3, <3>6, <3>7
    <3>13. \A u \in Threads : \A i \in DOMAIN log' : \A j \in DOMAIN held'[u] :
              Number(log'[i][2]) < Number(held'[u][j])
      BY <3>9, <3>10, <3>11, <3>12
    <3> QED
      BY <3>11, <3>13 DEF CalledFirst
  <2> QED
    BY <2>1, <2>2
<1>4. CASE Arrive \/ OnFrame \/ Deliver
  BY <1>4, <1>0 DEF Arrive, OnFrame, Deliver, slotVars, threadVars
<1> QED
  BY <1>0, <1>1, <1>2, <1>3, <1>4, MessagesQuiet
     DEF Next, CallbackStep, FlushStep, HandlerCall, Terminated

LEMMA FlushedStep ==
    ASSUME HandlerTypes, ThreadInv, HeldInv, OrderInv, [Next]_vars, ~crossed'
    PROVE  FlushedIsSet'
<1>h. /\ held \in [Threads -> Seq(Message)] /\ cb \in [Threads -> 0 .. handlers]
      /\ pc \in [Threads -> CallbackLabels \cup SetterLabels]
      /\ handlers \in Nat /\ Callback \in Threads /\ Threads = Setters \cup {Callback}
  BY Limits DEF HandlerTypes, ThreadInv, Threads
<1>x. ~crossed
  BY DEF Next, CallbackStep, FlushStep, HandlerCall, Terminated, Arrive, ArriveBad, CloseDone,
         OnFrame, OnBadFrame, OnNotice, Deliver, LockHandler, HandlerReturns, DeliverNotices,
         NoticeHandlerReturns, OnMessage, Flush, FlushHandlerReturns, MethodRuns, Replace,
         CallMethod, PostMethod, vars, slotVars
<1>o. /\ \A t \in Threads : pc[t] \in FlushLabels => cb[t] = slot
      /\ \A t \in Threads : held[t] # << >> /\ pc[Callback] = "lock" => cb[Callback] = slot
  BY <1>x DEF OrderInv, FlushedIsSet
<1>f. \A t \in Threads : held[t] # << >> => pc[t] \in FlushLabels
  BY DEF HeldInv
<1>p. FlushLabels = {"flush", "flushBody", "call", "inCall"}
  BY DEF FlushLabels
<1>0. ASSUME UNCHANGED <<slot, held>>,
             \A t \in Threads : pc'[t] \in FlushLabels => pc[t] \in FlushLabels /\ cb'[t] = cb[t],
             pc'[Callback] = "lock" => pc[Callback] = "lock" /\ cb'[Callback] = cb[Callback]
      PROVE  FlushedIsSet'
  BY <1>0, <1>o DEF FlushedIsSet
<1>1. CASE Arrive \/ ArriveBad \/ CloseDone \/ UNCHANGED vars
  BY <1>1, <1>0 DEF Arrive, ArriveBad, CloseDone, vars, slotVars, threadVars
<1>2. CASE OnFrame \/ OnBadFrame \/ OnNotice \/ NoticeHandlerReturns \/ LockHandler
  <2>1. UNCHANGED <<slot, held, cb>>
    BY <1>2 DEF OnFrame, OnBadFrame, OnNotice, NoticeHandlerReturns, LockHandler, slotVars
  <2>2. pc' = pc \/ \E l \in {"deliver", "notices", "body"} : pc' = [pc EXCEPT ![Callback] = l]
    BY <1>2 DEF OnFrame, OnBadFrame, OnNotice, NoticeHandlerReturns, LockHandler, Notify, Goto
  <2> QED
    BY <2>1, <2>2, <1>h, <1>p, <1>0
<1>3. CASE DeliverNotices
  <2>1. UNCHANGED <<slot, held, cb>> /\ pc[Callback] = "notices"
    BY <1>3 DEF DeliverNotices, slotVars
  <2>2. pc' = [pc EXCEPT ![Callback] = "notice"]
        \/ pc' = [t \in Threads |-> IF t = Callback THEN "idle" ELSE CallReturns(t)]
    BY <1>3 DEF DeliverNotices, Goto
  <2> QED
    BY <2>1, <2>2, <1>h, <1>p, <1>0 DEF CallReturns
<1>4. CASE Deliver
  <2>1. CASE slot # NoHandler
    <3>1. /\ cb' = [cb EXCEPT ![Callback] = slot] /\ pc' = [pc EXCEPT ![Callback] = "lock"]
          /\ UNCHANGED <<slot, held>>
      BY <1>4, <2>1 DEF Deliver, Goto
    <3>2. /\ cb'[Callback] = slot /\ pc'[Callback] = "lock"
          /\ \A t \in Threads : t # Callback => cb'[t] = cb[t] /\ pc'[t] = pc[t]
      BY <3>1, <1>h
    <3>3. "lock" \notin FlushLabels
      BY <1>p
    <3> QED
      BY <3>1, <3>2, <3>3, <1>o DEF FlushedIsSet
  <2>2. CASE slot = NoHandler
    <3>1. cb' = cb /\ pc' = [pc EXCEPT ![Callback] = "notices"] /\ UNCHANGED <<slot, held>>
      BY <1>4, <2>2 DEF Deliver, Goto
    <3> QED
      BY <3>1, <1>h, <1>p, <1>0
  <2> QED
    BY <2>1, <2>2
<1>5. CASE HandlerReturns
  <2>1. /\ cb' = [cb EXCEPT ![Callback] = NoHandler] /\ pc' = [pc EXCEPT ![Callback] = "notices"]
        /\ UNCHANGED <<slot, held>>
    BY <1>5 DEF HandlerReturns, Goto
  <2>2. /\ pc'[Callback] = "notices" /\ \A t \in Threads : t # Callback => cb'[t] = cb[t] /\ pc'[t] = pc[t]
    BY <2>1, <1>h
  <2> QED
    BY <2>1, <2>2, <1>p, <1>0
<1>6. ASSUME NEW t \in Threads, OnMessage(t)
      PROVE  FlushedIsSet'
  <2>1. /\ slot' = handlers + 1 /\ held' = [held EXCEPT ![t] = pending]
        /\ cb' = [cb EXCEPT ![t] = handlers + 1] /\ pc' = [pc EXCEPT ![t] = "flush"]
        /\ crossed' = (crossed \/ Flushing)
    BY <1>6 DEF OnMessage, Publish, Goto
  <2>2. \A u \in Threads : pc[u] \notin FlushLabels
    BY <2>1, <1>p DEF Flushing
  <2>3. /\ cb'[t] = slot' /\ held'[t] = pending /\ pc'[t] = "flush"
        /\ \A u \in Threads : u # t => pc'[u] = pc[u] /\ held'[u] = held[u] /\ cb'[u] = cb[u]
    BY <2>1, <1>h
  <2>4. \A u \in Threads : held[u] = << >>
    BY <2>2, <1>f
  <2>5. pending # << >> => pc[Callback] # "lock"
    BY DEF HeldInv
  <2>6. \A u \in Threads : pc'[u] \in FlushLabels => cb'[u] = slot'
    BY <2>2, <2>3
  <2>7. \A u \in Threads : held'[u] # << >> /\ pc'[Callback] = "lock" => cb'[Callback] = slot'
    BY <2>3, <2>4, <2>5, <1>h
  <2> QED
    BY <2>6, <2>7 DEF FlushedIsSet
<1>7. ASSUME NEW t \in Threads, Flush(t)
      PROVE  FlushedIsSet'
  <2>0. slot' = slot /\ pc[t] = "flush" /\ "flush" \in FlushLabels
    BY <1>7, <1>p DEF Flush
  <2>1. CASE held[t] # << >>
    <3>1. held' = [held EXCEPT ![t] = Tail(held[t])] /\ pc' = [pc EXCEPT ![t] = "flushBody"] /\ cb' = cb
      BY <1>7, <2>1 DEF Flush, Goto
    <3>2. \A u \in Threads : pc'[u] \in FlushLabels => pc[u] \in FlushLabels
      BY <3>1, <2>0, <1>h
    <3>3. \A u \in Threads : held'[u] # << >> => held[u] # << >>
      BY <3>1, <2>1, <1>h
    <3>4. pc'[Callback] = "lock" => pc[Callback] = "lock"
      BY <3>1, <1>h
    <3> QED
      BY <2>0, <3>1, <3>2, <3>3, <3>4, <1>o DEF FlushedIsSet
  <2>2. CASE held[t] = << >>
    <3>1. cb' = [cb EXCEPT ![t] = NoHandler] /\ pc' = [pc EXCEPT ![t] = AfterFlush(t)] /\ held' = held
      BY <1>7, <2>2 DEF Flush, Goto
    <3>2. AfterFlush(t) \notin FlushLabels /\ AfterFlush(t) # "lock"
      BY <1>p DEF AfterFlush
    <3>3. pc'[t] = AfterFlush(t) /\ \A u \in Threads : u # t => cb'[u] = cb[u] /\ pc'[u] = pc[u]
      BY <3>1, <1>h
    <3> QED
      BY <2>0, <3>1, <3>2, <3>3, <1>h, <1>0
  <2> QED
    BY <2>1, <2>2
<1>8. ASSUME NEW t \in Threads, FlushHandlerReturns(t) \/ PostMethod(t) \/ MethodRuns(t) \/ CallMethod(t)
      PROVE  FlushedIsSet'
  <2>1. UNCHANGED <<slot, held, cb>>
    BY <1>8 DEF FlushHandlerReturns, PostMethod, MethodRuns, CallMethod, slotVars
  <2>2. CASE CallMethod(t)
    BY <2>1, <2>2, <1>0 DEF CallMethod
  <2>3. CASE FlushHandlerReturns(t)
    <3>1. pc[t] = "flushBody" /\ pc' = [pc EXCEPT ![t] = "flush"]
      BY <2>3 DEF FlushHandlerReturns, Goto
    <3> QED
      BY <3>1, <2>1, <1>0, <1>h, <1>p
  <2>4. CASE PostMethod(t)
    <3>1. pc[t] \in {"body", "notice", "flushBody"} /\ pc' = [pc EXCEPT ![t] = "call"] /\ t \in Setters
      BY <2>4, <1>h DEF PostMethod, Goto, InHandler
    <3>2. pc[t] = "flushBody"
      BY <3>1 DEF ThreadInv, SetterLabels
    <3> QED
      BY <3>1, <3>2, <2>1, <1>0, <1>h, <1>p
  <2>5. CASE MethodRuns(t)
    <3>1. pc[t] = "call" /\ pc[Callback] = "idle"
      BY <2>5 DEF MethodRuns
    <3>2. \/ pc' = [pc EXCEPT ![t] = "flushBody"]
          \/ pc' = [pc EXCEPT ![t] = "inCall", ![Callback] = "notices"]
      BY <2>5 DEF MethodRuns, Goto
    <3> QED
      BY <3>1, <3>2, <2>1, <1>0, <1>h, <1>p
  <2> QED
    BY <1>8, <2>2, <2>3, <2>4, <2>5
<1>9. ASSUME NEW t \in Threads, Replace(t)
      PROVE  FlushedIsSet'
  <2>1. crossed' = (crossed \/ Flushing) /\ UNCHANGED <<held, pc, cb>>
    BY <1>9 DEF Replace
  <2>2. \A u \in Threads : pc[u] \notin FlushLabels
    BY <2>1, <1>p DEF Flushing
  <2>3. \A u \in Threads : held[u] = << >>
    BY <2>2, <1>f
  <2> QED
    BY <2>1, <2>2, <2>3 DEF FlushedIsSet
<1> QED
  BY <1>1, <1>2, <1>3, <1>4, <1>5, <1>6, <1>7, <1>8, <1>9
     DEF Next, CallbackStep, FlushStep, HandlerCall, Terminated

-----------------------------------------------------------------------------
(* The inductive invariant, and what follows from it.                      *)

IInv ==
    /\ NativeTypes /\ HandlerTypes /\ NoticeTypes /\ NoticesInTurn /\ ThreadInv /\ BoundInv
    /\ HeldInv /\ StreamInv /\ WholeInv /\ CountInv /\ OrderInv

LEMMA InitTypes ==
    ASSUME Init
    PROVE  NativeTypes /\ HandlerTypes /\ NoticeTypes /\ NoticesInTurn /\ ThreadInv
<1>i. /\ mode \in Modes /\ chan = "open" /\ events = << >> /\ peer = << >> /\ peerAt = -1
      /\ buf = << >> /\ skipping = FALSE /\ slot = 0 /\ handlers = 0
      /\ lock = [h \in Handlers |-> NoThread]
      /\ pending = << >> /\ pendingBytes = 0 /\ dropped = << >> /\ crossed = FALSE
      /\ held = [t \in Threads |-> << >>] /\ notices = << >> /\ delivering = FALSE
      /\ raised = << >> /\ told = << >> /\ pc = [t \in Threads |-> "idle"] /\ data = << >>
      /\ cb = [t \in Threads |-> 0] /\ log = << >> /\ calls = Calls
  BY DEF Init, NoHandler
<1>e. \A S : << >> \in Seq(S)
  OBVIOUS
<1>1. NativeTypes
  BY <1>i, <1>e DEF NativeTypes, Message
<1>2. HandlerTypes
  <2>1. held \in [Threads -> Seq(Message)]
    BY <1>i, <1>e
  <2>2. cb \in [Threads -> 0 .. handlers] /\ lock \in [Handlers -> Threads \cup {NoThread}]
        /\ slot \in 0 .. handlers /\ handlers \in Nat
    <3>1. 0 \in 0 .. handlers
      BY <1>i
    <3>2. cb \in [Threads -> 0 .. handlers]
      BY <3>1, <1>i, Zenon
    <3>3. lock \in [Handlers -> Threads \cup {NoThread}]
      BY <1>i, Zenon
    <3> QED
      BY <3>1, <3>2, <3>3, <1>i
  <2>3. calls \in Nat /\ pendingBytes \in 0 .. PendingLimit /\ crossed \in BOOLEAN
    <3>1. Calls \in Nat /\ PendingLimit \in Nat
      BY Limits
    <3>2. 0 \in 0 .. PendingLimit
      BY <3>1
    <3> QED
      BY <3>1, <3>2, <1>i
  <2>4. pending \in Seq(Message) /\ dropped \in Seq([msg : Nat, bytes : Nat])
        /\ data \in Seq(Message) /\ log \in Seq(Nat \X Message)
    BY <1>i, <1>e
  <2> QED
    BY <2>1, <2>2, <2>3, <2>4 DEF HandlerTypes
<1>3. NoticeTypes /\ NoticesInTurn
  <2>1. told \o notices = raised
    BY <1>i
  <2> QED
    BY <2>1, <1>i, <1>e DEF NoticeTypes, NoticesInTurn
<1>4. ThreadInv
  BY <1>i, Limits DEF ThreadInv, CallbackLabels, SetterLabels, Threads
<1> QED
  BY <1>1, <1>2, <1>3, <1>4

LEMMA InitInv == ASSUME Init PROVE IInv
<1>t. NativeTypes /\ HandlerTypes /\ NoticeTypes /\ NoticesInTurn /\ ThreadInv
  BY InitTypes
<1>i. /\ events = << >> /\ peer = << >> /\ peerAt = -1 /\ buf = << >> /\ skipping = FALSE
      /\ slot = NoHandler /\ handlers = 0 /\ pending = << >> /\ dropped = << >> /\ log = << >>
      /\ data = << >> /\ calls = Calls /\ crossed = FALSE /\ Callback \in Threads
      /\ \A t \in Threads : held[t] = << >> /\ cb[t] = NoHandler /\ pc[t] = "idle"
  BY Limits DEF Init
<1>e. DOMAIN << >> = {} /\ Len(<< >>) = 0
  OBVIOUS
<1>1. BoundInv
  <2>1. IsFiniteSet(IdleSetters) /\ Cardinality(IdleSetters) <= Cardinality(Setters)
        /\ Cardinality(IdleSetters) \in Nat
    BY ThreadsAssumption, FS_Subset, FS_CardinalityType DEF IdleSetters
  <2> QED
    BY <2>1, <1>i, Limits DEF BoundInv, IdleSetters
<1>2. HeldInv
  BY <1>i DEF HeldInv, FlushLabels
<1>f. Frames(events) = {} /\ LastFrames(events) = {}
  BY <1>i, <1>e DEF Frames, LastFrames
<1>3. StreamInv
  <2>1. Stream(events, peer, peerAt)
    BY <1>i, <1>e, <1>f DEF Stream, Adjacent
  <2>2. Ahead(events, peer, peerAt, buf, skipping, chan = "open")
    BY <1>i, <1>e DEF Ahead
  <2>3. Part(buf) /\ \A i \in DOMAIN events : events[i] # NoticeEvent("closed")
    BY <1>i, <1>e DEF Part
  <2> QED
    BY <2>1, <2>2, <2>3, <1>i DEF StreamInv
<1>d. \A t \in Threads : DOMAIN held[t] = {}
  BY <1>i, <1>e
<1>4. WholeInv
  BY <1>i, <1>e, <1>d DEF WholeInv
<1>5. CountInv
  <2>1. Taken(events, peer, peerAt) = 0
    BY <1>f, <1>i, <1>e, FS_EmptySet DEF Taken
  <2>2. Cardinality(HeldIn(held)) = 0
    BY <1>t, <1>i, HeldNone DEF HandlerTypes
  <2>3. NextIn(events, 0)
    BY <1>i, <1>e DEF NextIn
  <2>4. \A n : ~Somewhere(n)
    BY <1>i, <1>e, <1>d DEF Somewhere, InLog, InPending, InHeld, InData, InDropped
  <2>5. Total = 0
    BY <2>2, <1>i, <1>e DEF Total
  <2>6. \A n \in Int : n \notin 1 .. 0
    OBVIOUS
  <2> QED
    BY <2>1, <2>3, <2>4, <2>5, <2>6 DEF CountInv
<1>6. OrderInv
  <2>1. WaitOrder /\ HandLast
    BY <1>i, <1>e, <1>d DEF WaitOrder, HandLast
  <2>2. CalledFirst
    BY <1>i, <1>e DEF CalledFirst, InOrder
  <2>3. FlushedIsSet
    BY <1>i DEF FlushedIsSet, FlushLabels
  <2> QED
    BY <2>1, <2>2, <2>3 DEF OrderInv
<1> QED
  BY <1>t, <1>1, <1>2, <1>3, <1>4, <1>5, <1>6 DEF IInv

LEMMA InvStep == ASSUME IInv, [Next]_vars PROVE IInv'
<1>1. /\ NativeTypes /\ HandlerTypes /\ NoticeTypes /\ NoticesInTurn /\ ThreadInv /\ BoundInv
      /\ HeldInv /\ StreamInv /\ WholeInv /\ CountInv /\ OrderInv
  BY DEF IInv
<1>2. NativeTypes' /\ HandlerTypes' /\ ThreadInv' /\ BoundInv' /\ HeldInv'
  BY <1>1, NativeStep, HandlerStep, ThreadStep, BoundStep, HeldStep
<1>3. NoticeTypes' /\ NoticesInTurn'
  BY <1>1, NoticeStep
<1>4. StreamInv' /\ WholeInv' /\ CountInv'
  BY <1>1, StreamStep, WholeStep, CountStep
<1>5. WaitOrder' /\ HandLast'
  BY <1>1, WaitStep, HandStep
<1>6. ~crossed' => CalledFirst' /\ FlushedIsSet'
  BY <1>1, CalledStep, FlushedStep
<1>7. OrderInv'
  BY <1>5, <1>6 DEF OrderInv
<1> QED
  BY <1>2, <1>3, <1>4, <1>7 DEF IInv

\* Every event is one of the three kinds, and is told by its type.
LEMMA EventKept ==
    ASSUME NativeTypes, NEW i \in DOMAIN events
    PROVE  \/ events[i] = BadFrame
           \/ events[i].type = "frame" /\ events[i].frame \in Frame
           \/ events[i].type = "notice" /\ events[i].notice \in Notice
<1>1. events[i] \in Event
  BY InSeq DEF NativeTypes
<1> QED
  BY <1>1, EventFacts

\* Every variable keeps its type, and the bytes held for a handler to come never
\* exceed the limit (deliver adds a message only below pending_limit, on_message
\* empties what is held).
THEOREM TypeCorrect == Spec => []TypeOK
<1>1. IInv => TypeOK
  <2> SUFFICES ASSUME IInv PROVE TypeOK
    OBVIOUS
  <2>1. NativeTypes /\ HandlerTypes /\ NoticeTypes /\ ThreadInv /\ BoundInv
    BY DEF IInv
  <2>2. \A i \in DOMAIN events :
          \/ events[i] = BadFrame
          \/ events[i].type = "frame" /\ events[i].frame \in Frame
          \/ events[i].type = "notice" /\ events[i].notice \in Notice
    BY <2>1, EventKept
  <2>3. slot \in Handlers \cup {NoHandler} /\ cb \in [Threads -> Handlers \cup {NoHandler}]
    <3>1. cb \in [Threads -> 0 .. handlers]
      BY <2>1 DEF HandlerTypes
    <3>2. slot \in Handlers \cup {NoHandler}
          /\ \A t \in Threads : cb[t] \in Handlers \cup {NoHandler}
      BY <2>1, HandlersBound
    <3> QED
      BY <3>1, <3>2
  <2>4. Len(data) <= 1 /\ pc \in [Threads -> CallbackLabels \cup SetterLabels]
    <3>1. pc \in [Threads -> CallbackLabels \cup SetterLabels]
          /\ (Len(data) = 1 \/ data = << >>)
      BY <2>1 DEF ThreadInv
    <3>2. CASE Len(data) = 1
      BY <3>1, <3>2
    <3>3. CASE data = << >>
      <4>1. Len(data) = 0
        BY <3>3
      <4> QED
        BY <3>1, <4>1
    <3> QED
      BY <3>1, <3>2, <3>3
  <2>5. mode \in Modes /\ chan \in {"open", "closing", "closed"} /\ peer \in Seq(Nat)
        /\ peerAt \in Nat \cup {-1} /\ buf \in Seq(Frame) /\ skipping \in BOOLEAN
    BY <2>1 DEF NativeTypes, Message
  <2>6. /\ handlers \in Nat /\ lock \in [Handlers -> Threads \cup {NoThread}]
        /\ pending \in Seq(Seq(Frame)) /\ pendingBytes \in 0 .. PendingLimit
        /\ data \in Seq(Seq(Frame)) /\ held \in [Threads -> Seq(Seq(Frame))]
        /\ calls \in Nat /\ crossed \in BOOLEAN
    BY <2>1 DEF HandlerTypes, Message
  <2>7. notices \in Seq(Notice) /\ delivering \in BOOLEAN /\ raised \in Seq(Notice)
        /\ told \in Seq(Notice)
    BY <2>1 DEF NoticeTypes
  <2> QED
    BY <2>2, <2>3, <2>4, <2>5, <2>6, <2>7 DEF TypeOK
<1> QED
  BY <1>1, InitInv, InvStep, PTL DEF Spec

\* Once a handler is set no message stays behind in the queue of those held: the slot
\* is checked and the message held, and the handler published and the queue taken,
\* each under the slot's lock (deliver, on_message).
THEOREM NoneForgotten == Spec => []NothingLeftHeld
<1>1. IInv => NothingLeftHeld
  BY DEF IInv, HeldInv, NothingLeftHeld
<1> QED
  BY <1>1, InitInv, InvStep, PTL DEF Spec

\* A notice raised inside a handler waits and is delivered once, in its turn, before
\* the callback thread is idle again (Notices, notify and deliver_notices).
THEOREM NoticesDelivered == Spec => []NoticesInTurn
<1>1. IInv => NoticesInTurn
  BY DEF IInv
<1> QED
  BY <1>1, InitInv, InvStep, PTL DEF Spec

\* Handlers are called for the peer's messages in the order it sent them, across the
\* flush of what was held and across replacements, with any number of threads setting
\* handlers, unless one is set during another's flush (on_message holds the new
\* handler's lock from before it is published until its flush is over).
THEOREM InPeersOrder == Spec => []OrderKept
<1>1. IInv => OrderKept
  BY DEF IInv, OrderInv, CalledFirst, OrderKept
<1> QED
  BY <1>1, InitInv, InvStep, PTL DEF Spec

\* The messages taken in, counted.
LEMMA TakenCounted ==
    ASSUME NativeTypes
    PROVE  Taken(events, peer, peerAt) = TakenIn /\ Taken(events, peer, peerAt) \in Int
<1> DEFINE S == {i \in 1 .. Len(peer) : i < Len(peer) \/ peerAt = -1}
<1>1. /\ peer \in Seq(Nat) /\ events \in Seq(Event) /\ Len(peer) \in Nat
      /\ peerAt # -1 => Len(peer) >= 1
  <2>1. peer \in Seq(Nat) /\ events \in Seq(Event) /\ (peerAt # -1 => peer # << >>)
    BY DEF NativeTypes
  <2> QED
    BY <2>1, InSeq
<1>2. Cardinality(S) = Len(peer) - (IF peerAt = -1 THEN 0 ELSE 1)
  <2>1. CASE peerAt = -1
    <3>1. S = 1 .. Len(peer)
      <4>1. \A i \in 1 .. Len(peer) : i \in S
        BY <2>1
      <4> QED
        BY <4>1
    <3> HIDE DEF S
    <3>2. Cardinality(1 .. Len(peer)) = Len(peer)
      <4>1. \A n \in Nat : Cardinality(1 .. n) = IF 1 > n THEN 0 ELSE n - 1 + 1
        BY FS_Interval
      <4>2. \A n \in Nat : (IF 1 > n THEN 0 ELSE n - 1 + 1) = n
        OBVIOUS
      <4> QED
        BY <4>1, <4>2, <1>1
    <3> QED
      BY <3>1, <3>2, <2>1, <1>1
  <2>2. CASE peerAt # -1
    <3>1. S = 1 .. (Len(peer) - 1) /\ Len(peer) - 1 \in Nat
      BY <2>2, <1>1
    <3> HIDE DEF S
    <3>2. Cardinality(1 .. (Len(peer) - 1)) = Len(peer) - 1
      BY <3>1, FS_Interval
    <3> QED
      BY <3>1, <3>2, <2>2
  <2> QED
    BY <2>1, <2>2
<1>3. {i \in DOMAIN events : events[i].type = "frame" /\ ~events[i].frame.more}
        = LastFrames(events)
  BY DEF LastFrames
<1>4. Cardinality(LastFrames(events)) \in Nat
  BY <1>1, LastFinite
<1>5. TakenIn = Cardinality(S) - Cardinality(LastFrames(events))
  BY <1>3 DEF TakenIn
<1> HIDE DEF S
<1> QED
  BY <1>1, <1>2, <1>4, <1>5 DEF Taken

\* Every message taken in is whole and is in one place, and none is left out but over
\* a limit: whatever the sizes and the limits, wherever the threads are
\* (Reassembler::push, deliver, on_message).
THEOREM NoneLost == Spec => []EveryMessageAccounted
<1>1. IInv => EveryMessageAccounted
  <2> SUFFICES ASSUME IInv PROVE EveryMessageAccounted
    OBVIOUS
  <2>1. NativeTypes /\ HandlerTypes /\ WholeInv /\ CountInv
    BY DEF IInv
  <2>2. TakenIn \in Int /\ Total = TakenIn /\ \A n \in Int : n \in 1 .. TakenIn <=> Somewhere(n)
    BY <2>1, TakenCounted DEF CountInv
  <2> DEFINE inHeld == UNION {{<<t, i>> : i \in DOMAIN held[t]} : t \in Threads}
             L == {Number(log[i][2]) : i \in DOMAIN log}
             P == {Number(pending[i]) : i \in DOMAIN pending}
             H == {Number(held[x[1]][x[2]]) : x \in inHeld}
             D == {Number(data[i]) : i \in DOMAIN data}
             O == {dropped[i].msg : i \in DOMAIN dropped}
  <2>3. inHeld = HeldIn(held)
    BY DEF HeldIn
  <2>4. \A n : n \in H <=> InHeld(n)
    <3>1. \A x \in inHeld : \E t \in Threads : \E i \in DOMAIN held[t] : x = <<t, i>>
      OBVIOUS
    <3>2. \A t \in Threads : \A i \in DOMAIN held[t] : <<t, i>> \in inHeld
      OBVIOUS
    <3> HIDE DEF inHeld
    <3>3. ASSUME NEW n, n \in H
          PROVE  InHeld(n)
      <4>1. PICK x \in inHeld : n = Number(held[x[1]][x[2]])
        BY <3>3
      <4>2. PICK t \in Threads : \E i \in DOMAIN held[t] : x = <<t, i>>
        BY <3>1
      <4>3. PICK i \in DOMAIN held[t] : x = <<t, i>>
        BY <4>2
      <4>4. n = Number(held[t][i])
        BY <4>1, <4>3
      <4> QED
        BY <4>4 DEF InHeld
    <3>4. ASSUME NEW n, InHeld(n)
          PROVE  n \in H
      <4>1. PICK t \in Threads : \E i \in DOMAIN held[t] : Number(held[t][i]) = n
        BY <3>4 DEF InHeld
      <4>2. PICK i \in DOMAIN held[t] : Number(held[t][i]) = n
        BY <4>1
      <4> DEFINE x == <<t, i>>
      <4>3. x \in inHeld /\ x[1] = t /\ x[2] = i
        BY <3>2
      <4> HIDE DEF x
      <4> QED
        BY <4>2, <4>3
    <3> QED
      BY <3>3, <3>4
  <2>5. \A n : /\ n \in L <=> InLog(n)
               /\ n \in P <=> InPending(n)
               /\ n \in D <=> InData(n)
               /\ n \in O <=> InDropped(n)
    BY DEF InLog, InPending, InData, InDropped
  <2>6. \A n : n \in L \cup P \cup H \cup D \cup O => n \in Int
    <3>1. L \subseteq Int /\ P \subseteq Int /\ D \subseteq Int
      BY <2>1, Numbers
    <3>2. \A n : InHeld(n) => n \in Int
      BY <2>1, Numbers DEF InHeld
    <3>3. O \subseteq Int
      <4>1. \A i \in DOMAIN dropped : dropped[i] \in [msg : Nat, bytes : Nat]
        BY <2>1, InSeq DEF HandlerTypes
      <4> QED
        BY <4>1
    <3> HIDE DEF L, P, H, D, O
    <3> QED
      BY <3>1, <3>2, <3>3, <2>4
  <2>7. L \cup P \cup H \cup D \cup O = 1 .. TakenIn
    <3>1. \A n : n \in 1 .. TakenIn => n \in Int
      OBVIOUS
    <3> HIDE DEF L, P, H, D, O
    <3>2. \A n \in Int : n \in L \cup P \cup H \cup D \cup O <=> Somewhere(n)
      BY <2>4, <2>5 DEF Somewhere
    <3> DEFINE U == L \cup P \cup H \cup D \cup O
    <3>3. \A n : n \in U <=> n \in 1 .. TakenIn
      BY <3>1, <3>2, <2>2, <2>6
    <3> QED
      BY <3>3
  <2>8. \A i \in DOMAIN log : Whole(log[i][2]) /\ peer[Number(log[i][2])] <= MaxMessageSize
    BY <2>1 DEF WholeInv, Passed, Whole, Number
  <2>9. \A i \in DOMAIN dropped :
           \/ peer[dropped[i].msg] > MaxMessageSize
           \/ dropped[i].bytes + peer[dropped[i].msg] > PendingLimit
    BY <2>1 DEF WholeInv
  <2>10. Len(log) + Len(pending) + Cardinality(inHeld) + Len(data) + Len(dropped) = TakenIn
    BY <2>2, <2>3 DEF Total
  <2> HIDE DEF L, P, H, D, O
  <2>11. LET inH == UNION {{<<t, i>> : i \in DOMAIN held[t]} : t \in Threads}
         IN /\ Len(log) + Len(pending) + Cardinality(inH) + Len(data) + Len(dropped) = TakenIn
            /\ L \cup P \cup H \cup D \cup O = 1 .. TakenIn
    BY <2>7, <2>10
  <2> QED
    BY <2>8, <2>9, <2>11 DEF EveryMessageAccounted, L, P, H, D, O
<1> QED
  BY <1>1, InitInv, InvStep, PTL DEF Spec

=============================================================================
