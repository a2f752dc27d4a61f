------------------------ MODULE DcNegotiation_proofs ------------------------
(***************************************************************************)
(* Theorems about DcNegotiation, for any peers, threads, channels and bounds. *)
(* The first part is about each peer by itself, whatever the other one and the *)
(* signalling do; the second about the two ends of a channel.                  *)
(***************************************************************************)
EXTENDS DcNegotiation, SequenceTheorems, TLAPS

-----------------------------------------------------------------------------
(* The inductive invariant.                                                *)

\* The lock is held from the record to the end of the apply or of its undo, and
\* never by a peer that takes no part.
LockInv ==
    \A p \in Peers : \A t \in Threads :
        /\ p \in TakesPart => (applying[p] = t <=> at[p][t] \in {"call", "native", "undo"})
        /\ p \notin TakesPart => applying[p] = NoThread /\ at[p][t] # "undo"

\* A thread in a call has a description in hand until libwebrtc has answered.
HandInv ==
    \A p \in Peers : \A t \in Threads :
        at[p][t] \in {"wait", "call", "native"} => op[p][t] \in Description

\* An operation that has not outlived its apply is the one its thread waits for.
ChainInv ==
    \A p \in Peers : \A i \in DOMAIN chain[p] : ~chain[p][i].late =>
        /\ at[p][chain[p][i].by] = "native"
        /\ op[p][chain[p][i].by] = chain[p][i].desc
        /\ \A j \in DOMAIN chain[p] :
              j # i /\ ~chain[p][j].late => chain[p][j].by # chain[p][i].by

\* The state is `due`, and the description in progress recorded on top of it,
\* whose `before` is `due`.
DueInv ==
    \A p \in Peers :
        /\ applying[p] = NoThread => state[p] = due[p]
        /\ \A t \in Threads : applying[p] = t =>
              /\ before[p][t] = due[p]
              /\ at[p][t] \in {"call", "native"} => state[p] = Record(p, due[p], op[p][t])
        /\ due[p].settled => state[p].settled /\ state[p].remote = due[p].remote

\* What is applied is of a kind the applications use.
KindInv ==
    /\ mode \in Mode /\ \E m \in Modes : mode.kinds = m.kinds
    /\ \A d \in sent : d.kind \in Kinds
    /\ \A p \in Peers :
          /\ answering[p] \subseteq Kinds
          /\ \A d \in made[p] : d.kind \in Kinds
          /\ \A t \in Threads : op[p][t] # NoDescription => op[p][t].kind \in Kinds
          /\ \A i \in DOMAIN chain[p] : chain[p][i].desc.kind \in Kinds

IInv == TypeOK /\ LockInv /\ HandInv /\ ChainInv /\ DueInv /\ KindInv

\* An answer that libwebrtc has applied, and one it may still apply after its
\* apply has timed out, has settled the round.
SettledInv ==
    \A p \in TakesPart :
        /\ up[p] => due[p].settled
        /\ \A i \in DOMAIN chain[p] :
              chain[p][i].late /\ chain[p][i].desc.kind = "answer" => due[p].settled
        /\ \A c \in Channels : decided[p][c] # "no" => up[p]

-----------------------------------------------------------------------------
(* Facts about the operators.                                              *)

\* What a description does to the record: once a round has settled nothing
\* moves what it settled, and an answer settles it.
LEMMA RecordFacts ==
    ASSUME NEW p, NEW s \in NegotiationState, NEW d \in Description \cup {NoDescription}
    PROVE  /\ Record(p, s, d) \in NegotiationState
           /\ s.settled => Record(p, s, d).settled /\ Record(p, s, d).remote = s.remote
           /\ d.kind = "answer" => Record(p, s, d).settled
<1>1. d.declares \in BOOLEAN
  <2>1. CASE d \in Description
    BY <2>1 DEF Description
  <2>2. CASE d = NoDescription
    BY <2>2 DEF NoDescription
  <2> QED
    BY <2>1, <2>2
<1>2. ASSUME NEW z \in NegotiationState, NEW b \in BOOLEAN
      PROVE  /\ Settle(z, b) \in NegotiationState /\ Settle(z, b).settled
             /\ z.settled => Settle(z, b).remote = z.remote
  BY <1>2 DEF Settle, NegotiationState
<1>3. /\ [s EXCEPT !.pending = FALSE] \in NegotiationState
      /\ [s EXCEPT !.pending = FALSE].settled = s.settled
      /\ [s EXCEPT !.pending = FALSE].remote = s.remote
      /\ s.declared \in BOOLEAN /\ s.pending \in BOOLEAN
  BY DEF NegotiationState
<1>4. CASE d.kind = "answer"
  <2>1. CASE d.by = p
    <3>1. Record(p, s, d) = Settle([s EXCEPT !.pending = FALSE], s.pending /\ d.declares)
      BY <1>4, <2>1 DEF Record, OnLocalDescription
    <3>2. (s.pending /\ d.declares) \in BOOLEAN
      OBVIOUS
    <3> QED
      BY <1>2, <1>3, <3>1, <3>2
  <2>2. CASE d.by # p
    <3>1. Record(p, s, d) = Settle(s, d.declares /\ s.declared)
      BY <1>4, <2>2 DEF Record, OnRemoteDescription
    <3>2. (d.declares /\ s.declared) \in BOOLEAN
      OBVIOUS
    <3> QED
      BY <1>2, <3>1, <3>2
  <2> QED
    BY <2>1, <2>2
<1>5. CASE d.kind # "answer"
  BY <1>1, <1>5 DEF Record, OnLocalDescription, OnRemoteDescription, NegotiationState
<1> QED
  BY <1>4, <1>5

LEMMA AfterFacts ==
    ASSUME NEW st, NEW local, NEW kind, After(st, local, kind) # "invalid"
    PROVE  After(st, local, kind)
              \in {"stable", "localOffer", "remoteOffer", "localPr", "remotePr"}
BY DEF After

\* libwebrtc's operations after one ends, one comes, and a thread's outlive it.
LEMMA TailFacts ==
    ASSUME NEW s \in Seq(Op), s # <<>>
    PROVE  /\ Tail(s) \in Seq(Op) /\ 1 \in DOMAIN s /\ Head(s) = s[1] /\ Head(s) \in Op
           /\ \A i \in DOMAIN Tail(s) :
                 i + 1 \in DOMAIN s /\ i + 1 # 1 /\ Tail(s)[i] = s[i + 1]
           /\ \A i, j \in DOMAIN Tail(s) : i # j => i + 1 # j + 1
OBVIOUS

LEMMA OpFacts ==
    ASSUME NEW s \in Seq(Op), NEW i \in DOMAIN s
    PROVE  s[i] \in Op /\ s[i].by \in Threads /\ s[i].desc \in Description
<1>1. s[i] \in Op
  OBVIOUS
<1> QED
  BY <1>1 DEF Op

LEMMA AppendFacts ==
    ASSUME NEW s \in Seq(Op), NEW o \in Op
    PROVE  /\ Append(s, o) \in Seq(Op)
           /\ \A i \in DOMAIN Append(s, o) :
                 \/ i \in DOMAIN s /\ Append(s, o)[i] = s[i]
                 \/ i = Len(s) + 1 /\ Append(s, o)[i] = o
           /\ Len(s) + 1 \notin DOMAIN s
OBVIOUS

MarkedLate(s, t) ==
    [i \in DOMAIN s |-> IF s[i].by = t THEN [s[i] EXCEPT !.late = TRUE] ELSE s[i]]

LEMMA LateFacts ==
    ASSUME NEW s \in Seq(Op), NEW t
    PROVE  /\ MarkedLate(s, t) \in Seq(Op) /\ DOMAIN MarkedLate(s, t) = DOMAIN s
           /\ \A i \in DOMAIN s : /\ MarkedLate(s, t)[i].by = s[i].by
                                  /\ MarkedLate(s, t)[i].desc = s[i].desc
                                  /\ MarkedLate(s, t)[i].late <=> s[i].late \/ s[i].by = t
<1>1. ASSUME NEW i \in DOMAIN s
      PROVE  /\ MarkedLate(s, t)[i] \in Op
             /\ MarkedLate(s, t)[i].by = s[i].by
             /\ MarkedLate(s, t)[i].desc = s[i].desc
             /\ MarkedLate(s, t)[i].late <=> s[i].late \/ s[i].by = t
  <2>1. s[i] \in Op
    BY <1>1
  <2> QED
    BY <1>1, <2>1 DEF MarkedLate, Op
<1>2. DOMAIN MarkedLate(s, t) = 1 .. Len(s) /\ DOMAIN s = 1 .. Len(s) /\ Len(s) \in Nat
  BY DEF MarkedLate
<1>3. MarkedLate(s, t) = [i \in 1 .. Len(s) |-> MarkedLate(s, t)[i]]
  BY <1>2 DEF MarkedLate
<1>4. MarkedLate(s, t) \in [1 .. Len(s) -> Op]
  BY <1>1, <1>2, <1>3
<1>5. MarkedLate(s, t) \in Seq(Op)
  BY <1>2, <1>4
<1> QED
  BY <1>1, <1>2, <1>5

\* The modes' peers and kinds are settled from the start.
LEMMA ModeStep ==
    ASSUME TypeOK, [Next]_vars
    PROVE  mode' \in Mode /\ TakesPart' = TakesPart /\ Kinds' = Kinds
<1>1. ASSUME NEW p \in Peers, NEW t \in Threads, Call(p, t)
      PROVE  /\ mode' \in Mode
             /\ mode'.takesPart = mode.takesPart /\ mode'.kinds = mode.kinds
  <2>1. mode \in Mode /\ mode.applies[p][t] \in Nat
    BY DEF TypeOK, Mode
  <2>2. mode.applies[p][t] - 1 \in Nat
    BY <1>1, <2>1 DEF Call
  <2> QED
    BY <1>1, <2>1, <2>2 DEF Call, Mode
<1>2. CASE UNCHANGED mode
  BY <1>2 DEF TypeOK, TakesPart, Kinds
<1>3. \/ UNCHANGED mode
      \/ \E p \in Peers : \E t \in Threads : Call(p, t)
  <2>1. ASSUME NEW p \in Peers, CreateOffer(p) PROVE UNCHANGED mode
    BY <2>1 DEF CreateOffer
  <2>2. ASSUME NEW p \in Peers, NEW kind, MakeAnswer(p, kind) PROVE UNCHANGED mode
    BY <2>2 DEF MakeAnswer
  <2>3. ASSUME NEW p \in Peers, NEW kind, CreateAnswer(p, kind) PROVE UNCHANGED mode
    BY <2>3 DEF CreateAnswer
  <2>4. ASSUME NEW p \in Peers, NEW t \in Threads, Begin(p, t) \/ Hand(p, t) PROVE UNCHANGED mode
    BY <2>4 DEF Begin, Hand, appVars
  <2>5. ASSUME NEW p \in Peers, NEW t \in Threads, TimeOut(p, t) \/ Undo(p, t) PROVE UNCHANGED mode
    BY <2>5 DEF TimeOut, Undo, appVars
  <2>6. ASSUME NEW p \in Peers, Accept(p) PROVE UNCHANGED mode
    BY <2>6 DEF Accept, appVars
  <2>7. ASSUME NEW p \in Peers, Reject(p) PROVE UNCHANGED mode
    BY <2>7 DEF Reject, appVars
  <2>8. ASSUME NEW p \in Peers, NEW c \in Channels, Decide(p, c) PROVE UNCHANGED mode
    <3>1. UNCHANGED appVars
      BY <2>8, Zenon DEF Decide
    <3> QED
      BY <3>1 DEF appVars
  <2>9. CASE UNCHANGED vars
    BY <2>9 DEF vars, appVars
  <2>10. CASE Next
    <3>1. PICK p \in Peers :
             \/ CreateOffer(p)
             \/ \E kind \in Kinds \cap {"answer", "pranswer"} :
                   MakeAnswer(p, kind) \/ CreateAnswer(p, kind)
             \/ \E t \in Threads :
                   Call(p, t) \/ Begin(p, t) \/ Hand(p, t) \/ TimeOut(p, t) \/ Undo(p, t)
             \/ Accept(p) \/ Reject(p)
             \/ \E c \in Channels : Decide(p, c)
      BY <2>10, Zenon DEF Next
    <3>2. CASE \E t \in Threads : Call(p, t)
      BY <3>2
    <3>3. CASE ~ \E t \in Threads : Call(p, t)
      BY <2>1, <2>2, <2>3, <2>4, <2>5, <2>6, <2>7, <2>8, <3>1, <3>3, Zenon
    <3> QED
      BY <3>2, <3>3
  <2> QED
    BY <2>9, <2>10
<1> QED
  BY <1>1, <1>2, <1>3 DEF TakesPart, Kinds

-----------------------------------------------------------------------------
(* The initial states.                                                     *)

LEMMA InitInv == Init => IInv
<1> SUFFICES ASSUME Init PROVE IInv
  OBVIOUS
<1> USE ThreadsAssumption, ModesAssumption, BoundsAssumption
<1>1. Fresh \in NegotiationState
  BY DEF Fresh, NegotiationState
<1>2. mode \in Mode
  BY DEF Init
<1>3. TypeOK
  BY <1>1, <1>2 DEF Init, TypeOK
<1>4. \A p \in Peers : \A t \in Threads : applying[p] # t /\ at[p][t] = "idle"
  BY DEF Init
<1>5. LockInv /\ HandInv /\ ChainInv /\ DueInv
  BY <1>1, <1>4 DEF Init, LockInv, HandInv, ChainInv, DueInv
<1>6. KindInv
  BY <1>2 DEF Init, KindInv
<1> QED
  BY <1>3, <1>5, <1>6 DEF IInv

-----------------------------------------------------------------------------
(* Every step keeps the types.                                             *)

\* The call whose operation libwebrtc ends in time.
LEMMA HeadFacts ==
    ASSUME IInv, NEW p \in Peers, chain[p] # <<>>
    PROVE  LET o == Head(chain[p])
           IN  /\ o \in Op /\ o.by \in Threads /\ o.desc \in Description
               /\ ~o.late => at[p][o.by] = "native" /\ op[p][o.by] = o.desc
<1>1. chain[p] \in Seq(Op)
  BY DEF IInv, TypeOK
<1>2. 1 \in DOMAIN chain[p] /\ Head(chain[p]) = chain[p][1] /\ Head(chain[p]) \in Op
  BY <1>1, TailFacts
<1>3. ~chain[p][1].late =>
         at[p][chain[p][1].by] = "native" /\ op[p][chain[p][1].by] = chain[p][1].desc
  BY <1>2 DEF IInv, ChainInv
<1> QED
  BY <1>2, <1>3 DEF Op

LEMMA ReturnType ==
    ASSUME IInv, NEW p \in Peers, NEW t \in Threads, Return(p, t)
    PROVE  /\ state' \in [Peers -> NegotiationState]
           /\ due' \in [Peers -> NegotiationState]
           /\ before' \in [Peers -> [Threads -> NegotiationState]]
           /\ applying' \in [Peers -> Threads \cup {NoThread}]
           /\ at' \in [Peers -> [Threads -> {"idle", "wait", "call", "native", "undo"}]]
           /\ op' \in [Peers -> [Threads -> Description \cup {NoDescription}]]
<1>1. TypeOK
  BY DEF IInv
<1>2. due[p] \in NegotiationState /\ op[p][t] \in Description \cup {NoDescription}
  BY <1>1 DEF TypeOK
<1>3. Record(p, due[p], op[p][t]) \in NegotiationState
  BY <1>2, RecordFacts
<1> QED
  BY <1>1, <1>3 DEF TypeOK, Return

LEMMA RefusedType ==
    ASSUME TypeOK, NEW p \in Peers, NEW t \in Threads, Refused(p, t)
    PROVE  /\ at' \in [Peers -> [Threads -> {"idle", "wait", "call", "native", "undo"}]]
           /\ op' \in [Peers -> [Threads -> Description \cup {NoDescription}]]
BY DEF TypeOK, Refused

LEMMA TypeStep == ASSUME IInv, [Next]_vars PROVE TypeOK'
<1> USE DEF ownVars, threadVars, nativeVars, appVars
<1>0. TypeOK /\ mode' \in Mode
  BY ModeStep DEF IInv
<1>1. ASSUME NEW p \in Peers, CreateOffer(p) PROVE TypeOK'
  <2>1. [kind |-> "offer", by |-> p, declares |-> p \in TakesPart] \in Description
    BY DEF Description, SdpTypes
  <2>2. made' \in [Peers -> SUBSET Description]
    BY <1>0, <1>1, <2>1 DEF TypeOK, CreateOffer
  <2> QED
    BY <1>0, <1>1, <2>2 DEF TypeOK, CreateOffer
<1>2. ASSUME NEW p \in Peers, NEW kind \in {"answer", "pranswer"}, MakeAnswer(p, kind)
      PROVE  TypeOK'
  <2>1. answering' \in [Peers -> SUBSET {"answer", "pranswer"}]
    BY <1>0, <1>2 DEF TypeOK, MakeAnswer
  <2> QED
    BY <1>0, <1>2, <2>1 DEF TypeOK, MakeAnswer
<1>3. ASSUME NEW p \in Peers, NEW kind \in {"answer", "pranswer"}, CreateAnswer(p, kind)
      PROVE  TypeOK'
  <2> DEFINE b == p \in TakesPart /\ state[p].pending
  <2>1. b \in BOOLEAN
    OBVIOUS
  <2> HIDE DEF b
  <2>2. [kind |-> kind, by |-> p, declares |-> b] \in Description
    BY <2>1 DEF Description, SdpTypes
  <2>3. made' = [made EXCEPT ![p] = @ \cup {[kind |-> kind, by |-> p, declares |-> b]}]
    BY <1>3 DEF CreateAnswer, b
  <2>4. made' \in [Peers -> SUBSET Description]
    BY <1>0, <2>2, <2>3 DEF TypeOK
  <2>5. answering' \in [Peers -> SUBSET {"answer", "pranswer"}]
    BY <1>0, <1>3 DEF TypeOK, CreateAnswer
  <2> QED
    BY <1>0, <1>3, <2>4, <2>5 DEF TypeOK, CreateAnswer
<1>4. ASSUME NEW p \in Peers, NEW t \in Threads, Call(p, t) PROVE TypeOK'
  <2>1. Descriptions(p) \subseteq Description
    <3>1. [kind : {"rollback"} \cap Kinds, by : Peers, declares : {FALSE}] \subseteq Description
      BY DEF Description, SdpTypes
    <3>2. made[p] \subseteq Description /\ sent \subseteq Description
      BY <1>0 DEF TypeOK
    <3> QED
      BY <3>1, <3>2 DEF Descriptions
  <2>2. /\ op' \in [Peers -> [Threads -> Description \cup {NoDescription}]]
        /\ at' \in [Peers -> [Threads -> {"idle", "wait", "call", "native", "undo"}]]
    BY <1>0, <1>4, <2>1 DEF TypeOK, Call
  <2> QED
    BY <1>0, <1>4, <2>2 DEF TypeOK, Call
<1>5. ASSUME NEW p \in Peers, NEW t \in Threads, Begin(p, t) PROVE TypeOK'
  <2>1. Record(p, state[p], op[p][t]) \in NegotiationState
    BY <1>0, RecordFacts DEF TypeOK
  <2>2. /\ state' \in [Peers -> NegotiationState]
        /\ before' \in [Peers -> [Threads -> NegotiationState]]
        /\ applying' \in [Peers -> Threads \cup {NoThread}]
        /\ at' \in [Peers -> [Threads -> {"idle", "wait", "call", "native", "undo"}]]
    <3>1. CASE UNCHANGED <<applying, state, before>>
      BY <1>0, <1>5, <3>1 DEF TypeOK, Begin
    <3>2. CASE /\ applying' = [applying EXCEPT ![p] = t]
               /\ state' = [state EXCEPT ![p] = Record(p, @, op[p][t])]
               /\ before' = [before EXCEPT ![p][t] = state[p]]
      <4>1. at' = [at EXCEPT ![p][t] = "call"]
        BY <1>5 DEF Begin
      <4> QED
        BY <1>0, <2>1, <3>2, <4>1 DEF TypeOK
    <3> QED
      BY <1>5, <3>1, <3>2 DEF Begin
  <2>3. UNCHANGED <<due, op, nativeVars, appVars, decided>>
    BY <1>5 DEF Begin
  <2> QED
    BY <1>0, <2>2, <2>3 DEF TypeOK
<1>6. ASSUME NEW p \in Peers, NEW t \in Threads, Hand(p, t) PROVE TypeOK'
  <2> DEFINE o == [desc |-> op[p][t], by |-> t, late |-> FALSE]
  <2>1. CASE /\ chain' = [chain EXCEPT ![p] = Append(@, o)]
             /\ at' = [at EXCEPT ![p][t] = "native"]
             /\ UNCHANGED <<refusals, op>>
    <3>1. op[p][t] \in Description
      BY <1>6 DEF Hand, IInv, HandInv
    <3>2. o \in Op
      BY <3>1 DEF Op
    <3> HIDE DEF o
    <3>3. chain' \in [Peers -> Seq(Op)]
      BY <1>0, <2>1, <3>2, AppendFacts DEF TypeOK
    <3>4. at' \in [Peers -> [Threads -> {"idle", "wait", "call", "native", "undo"}]]
      BY <1>0, <2>1 DEF TypeOK
    <3>5. UNCHANGED <<ownVars, signaling, up, misled, appVars, decided>>
      BY <1>6 DEF Hand
    <3> QED
      BY <1>0, <2>1, <3>3, <3>4, <3>5 DEF TypeOK
  <2>2. CASE refusals > 0 /\ refusals' = refusals - 1 /\ Refused(p, t) /\ UNCHANGED chain
    <3>1. refusals' \in Nat
      BY <1>0, <2>2 DEF TypeOK
    <3>2. UNCHANGED <<ownVars, signaling, up, misled, appVars, decided>>
      BY <1>6 DEF Hand
    <3> QED
      BY <1>0, <2>2, <3>1, <3>2, RefusedType DEF TypeOK
  <2> QED
    BY <1>6, <2>1, <2>2 DEF Hand
<1>7. ASSUME NEW p \in Peers, NEW t \in Threads, TimeOut(p, t) PROVE TypeOK'
  <2>1. chain' = [chain EXCEPT ![p] = MarkedLate(chain[p], t)] /\ Return(p, t)
    BY <1>7 DEF TimeOut, MarkedLate
  <2>2. chain' \in [Peers -> Seq(Op)]
    BY <1>0, <2>1, LateFacts DEF TypeOK
  <2> QED
    BY <1>0, <1>7, <2>1, <2>2, ReturnType DEF TypeOK, TimeOut
<1>8. ASSUME NEW p \in Peers, NEW t \in Threads, Undo(p, t) PROVE TypeOK'
  BY <1>0, <1>8 DEF TypeOK, Undo
<1>9. ASSUME NEW p \in Peers, Accept(p) PROVE TypeOK'
  <2> DEFINE o == Head(chain[p])
  <2>1. chain[p] # <<>>
    BY <1>9 DEF Accept, Turn
  <2>2. o \in Op /\ o.by \in Threads /\ o.desc \in Description
    BY <2>1, HeadFacts
  <2>3. chain' \in [Peers -> Seq(Op)]
    BY <1>0, <1>9, <2>1, TailFacts DEF TypeOK, Accept
  <2>4. HeadAfter(p) \in {"stable", "localOffer", "remoteOffer", "localPr", "remotePr"}
    BY <1>9, AfterFacts DEF Accept, HeadAfter
  <2>5. /\ signaling' \in [Peers -> {"stable", "localOffer", "remoteOffer", "localPr", "remotePr"}]
        /\ up' \in [Peers -> BOOLEAN]
    BY <1>0, <1>9, <2>4 DEF TypeOK, Accept
  <2>6. UNCHANGED <<refusals, misled, answering, made, mode, decided>>
    BY <1>9 DEF Accept
  <2>7. CASE Return(p, o.by)
    <3>1. sent' \in SUBSET Description
      BY <1>0, <1>9, <2>2 DEF TypeOK, Accept
    <3> HIDE DEF o
    <3> QED
      BY <1>0, <2>2, <2>3, <2>5, <2>6, <2>7, <3>1, ReturnType DEF TypeOK
  <2>8. CASE UNCHANGED <<ownVars, threadVars, sent>>
    BY <1>0, <2>3, <2>5, <2>6, <2>8 DEF TypeOK
  <2> QED
    BY <1>9, <2>7, <2>8 DEF Accept
<1>10. ASSUME NEW p \in Peers, Reject(p) PROVE TypeOK'
  <2> DEFINE o == Head(chain[p])
  <2>1. chain[p] # <<>>
    BY <1>10 DEF Reject, Turn
  <2>2. o \in Op /\ o.by \in Threads /\ o.desc \in Description /\ o.desc.kind \in SdpTypes
    BY <2>1, HeadFacts DEF Description
  <2>3. chain' \in [Peers -> Seq(Op)]
    BY <1>0, <1>10, <2>1, TailFacts DEF TypeOK, Reject
  <2>4. refusals' \in Nat
    BY <1>0, <1>10 DEF TypeOK, Reject
  <2>5. UNCHANGED <<ownVars, signaling, up, appVars, decided>>
    BY <1>10 DEF Reject
  <2>6. CASE Refused(p, o.by) /\ UNCHANGED misled
    <3> HIDE DEF o
    <3> QED
      BY <1>0, <2>2, <2>3, <2>4, <2>5, <2>6, RefusedType DEF TypeOK
  <2>7. CASE misled' = misled \cup {o.desc.kind} /\ UNCHANGED threadVars
    <3> HIDE DEF o
    <3> QED
      BY <1>0, <2>2, <2>3, <2>4, <2>5, <2>7 DEF TypeOK
  <2> QED
    BY <1>10, <2>6, <2>7 DEF Reject
<1>11. ASSUME NEW p \in Peers, NEW c \in Channels, Decide(p, c) PROVE TypeOK'
  <2>1. decided' \in [Peers -> [Channels -> {"no", "plain", "chunked"}]]
    BY <1>0, <1>11 DEF TypeOK, Decide
  <2> QED
    BY <1>0, <1>11, <2>1 DEF TypeOK, Decide
<1>12. CASE UNCHANGED vars
  BY <1>0, <1>12 DEF TypeOK, vars
<1> QED
  BY <1>1, <1>2, <1>3, <1>4, <1>5, <1>6, <1>7, <1>8, <1>9, <1>10, <1>11, <1>12 DEF Next

-----------------------------------------------------------------------------
(* Every step keeps the lock and what the calls have in hand.               *)

\* What an application's own step, or a decision, leaves alone.
App(p) ==
    \/ CreateOffer(p) \/ \E c \in Channels : Decide(p, c)
    \/ \E kind \in {"answer", "pranswer"} : MakeAnswer(p, kind) \/ CreateAnswer(p, kind)

LEMMA AppFacts ==
    ASSUME NEW p, App(p) \/ UNCHANGED vars
    PROVE  UNCHANGED <<ownVars, threadVars, nativeVars, mode, sent>>
BY DEF App, CreateOffer, Decide, MakeAnswer, CreateAnswer, vars, appVars

\* An accepted description ends the call that waits for it, or nobody's; a
\* refused one likewise.
LEMMA AcceptFacts ==
    ASSUME IInv, NEW p \in Peers, Accept(p)
    PROVE  \/ /\ ~Head(chain[p]).late
              /\ Return(p, Head(chain[p]).by)
           \/ /\ Head(chain[p]).late
              /\ UNCHANGED <<ownVars, threadVars, sent>>
BY DEF Accept

LEMMA RejectFacts ==
    ASSUME IInv, NEW p \in Peers, Reject(p)
    PROVE  /\ UNCHANGED <<ownVars, sent>>
           /\ \/ /\ ~Head(chain[p]).late
                 /\ Refused(p, Head(chain[p]).by)
              \/ /\ Head(chain[p]).late
                 /\ UNCHANGED threadVars
BY DEF Reject, appVars

LEMMA NextCases ==
    ASSUME [Next]_vars
    PROVE  \/ UNCHANGED vars
           \/ \E p \in Peers :
                 \/ App(p) \/ Accept(p) \/ Reject(p)
                 \/ \E t \in Threads :
                       Call(p, t) \/ Begin(p, t) \/ Hand(p, t) \/ TimeOut(p, t) \/ Undo(p, t)
BY DEF Next, App

LEMMA LockStep == ASSUME IInv, [Next]_vars PROVE LockInv'
<1> USE ThreadsAssumption DEF ownVars, threadVars
<1>0. TypeOK /\ LockInv /\ TakesPart' = TakesPart
  BY ModeStep DEF IInv
<1>1. CASE UNCHANGED vars \/ \E p \in Peers : App(p)
  BY <1>0, <1>1, AppFacts DEF LockInv
<1>2. ASSUME NEW p \in Peers, NEW t \in Threads, at[p][t] = "native", Return(p, t) PROVE LockInv'
  <2> SUFFICES ASSUME NEW q \in Peers, NEW u \in Threads
               PROVE  /\ q \in TakesPart =>
                            (applying'[q] = u <=> at'[q][u] \in {"call", "native", "undo"})
                      /\ q \notin TakesPart => applying'[q] = NoThread /\ at'[q][u] # "undo"
    BY <1>0 DEF LockInv
  <2>1. p \in TakesPart => applying[p] = t
    BY <1>0, <1>2 DEF LockInv
  <2> QED
    BY <1>0, <1>2, <2>1 DEF LockInv, TypeOK, Return
<1>3. ASSUME NEW p \in Peers, NEW t \in Threads, at[p][t] \in {"call", "native"}, Refused(p, t),
             UNCHANGED applying
      PROVE  LockInv'
  BY <1>0, <1>3 DEF LockInv, TypeOK, Refused
<1>4. ASSUME NEW p \in Peers, NEW t \in Threads, Call(p, t) PROVE LockInv'
  BY <1>0, <1>4 DEF LockInv, TypeOK, Call
<1>5. ASSUME NEW p \in Peers, NEW t \in Threads, Begin(p, t) PROVE LockInv'
  <2> SUFFICES ASSUME NEW q \in Peers, NEW u \in Threads
               PROVE  /\ q \in TakesPart =>
                            (applying'[q] = u <=> at'[q][u] \in {"call", "native", "undo"})
                      /\ q \notin TakesPart => applying'[q] = NoThread /\ at'[q][u] # "undo"
    BY <1>0 DEF LockInv
  <2> QED
    BY <1>0, <1>5 DEF LockInv, TypeOK, Begin
<1>6. ASSUME NEW p \in Peers, NEW t \in Threads, Hand(p, t) PROVE LockInv'
  <2>1. UNCHANGED applying /\ at[p][t] = "call"
    BY <1>6 DEF Hand
  <2>2. CASE Refused(p, t)
    BY <1>3, <2>1, <2>2
  <2>3. CASE at' = [at EXCEPT ![p][t] = "native"]
    BY <1>0, <2>1, <2>3 DEF LockInv, TypeOK
  <2> QED
    BY <1>6, <2>2, <2>3 DEF Hand
<1>7. ASSUME NEW p \in Peers, NEW t \in Threads, TimeOut(p, t) PROVE LockInv'
  BY <1>2, <1>7 DEF TimeOut
<1>8. ASSUME NEW p \in Peers, NEW t \in Threads, Undo(p, t) PROVE LockInv'
  BY <1>0, <1>8 DEF LockInv, TypeOK, Undo
<1>9. ASSUME NEW p \in Peers, Accept(p) PROVE LockInv'
  <2>1. chain[p] # <<>>
    BY <1>9 DEF Accept, Turn
  <2> QED
    BY <1>0, <1>2, <1>9, <2>1, AcceptFacts, HeadFacts DEF LockInv
<1>10. ASSUME NEW p \in Peers, Reject(p) PROVE LockInv'
  <2>1. chain[p] # <<>>
    BY <1>10 DEF Reject, Turn
  <2> QED
    BY <1>0, <1>3, <1>10, <2>1, RejectFacts, HeadFacts DEF LockInv
<1> QED
  BY <1>1, <1>4, <1>5, <1>6, <1>7, <1>8, <1>9, <1>10, NextCases

LEMMA HandStep == ASSUME IInv, [Next]_vars PROVE HandInv'
<1> USE DEF ownVars, threadVars
<1>0. TypeOK /\ HandInv
  BY DEF IInv
<1>1. CASE UNCHANGED vars \/ \E p \in Peers : App(p)
  BY <1>0, <1>1, AppFacts DEF HandInv
<1>2. ASSUME NEW p \in Peers, NEW t \in Threads, Return(p, t) \/ Refused(p, t) PROVE HandInv'
  <2>1. /\ at' = [at EXCEPT ![p][t] = "idle"] \/ at' = [at EXCEPT ![p][t] = "undo"]
        /\ op' = [op EXCEPT ![p][t] = NoDescription]
    BY <1>2 DEF Return, Refused
  <2> SUFFICES ASSUME NEW q \in Peers, NEW u \in Threads, at'[q][u] \in {"wait", "call", "native"}
               PROVE  op'[q][u] \in Description
    BY DEF HandInv
  <2>2. ~(q = p /\ u = t)
    BY <1>0, <2>1 DEF TypeOK
  <2>3. at'[q][u] = at[q][u] /\ op'[q][u] = op[q][u]
    BY <1>0, <2>1, <2>2 DEF TypeOK
  <2> QED
    BY <1>0, <2>3 DEF HandInv
<1>3. ASSUME NEW p \in Peers, NEW t \in Threads, Begin(p, t) \/ Undo(p, t) PROVE HandInv'
  <2>1. /\ UNCHANGED op /\ at[p][t] \in {"wait", "undo"}
        /\ \/ at' = [at EXCEPT ![p][t] = "call"] /\ at[p][t] = "wait"
           \/ at' = [at EXCEPT ![p][t] = "idle"]
    BY <1>3 DEF Begin, Undo
  <2> SUFFICES ASSUME NEW q \in Peers, NEW u \in Threads, at'[q][u] \in {"wait", "call", "native"}
               PROVE  at[q][u] \in {"wait", "call", "native"}
    BY <1>0, <2>1 DEF HandInv
  <2>2. at \in [Peers -> [Threads -> {"idle", "wait", "call", "native", "undo"}]]
    BY <1>0 DEF TypeOK
  <2>3. CASE q = p /\ u = t
    BY <2>1, <2>2, <2>3
  <2>4. CASE ~(q = p /\ u = t)
    BY <2>1, <2>2, <2>4
  <2> QED
    BY <2>3, <2>4
<1>4. ASSUME NEW p \in Peers, NEW t \in Threads, Call(p, t) PROVE HandInv'
  <2>1. PICK d \in Descriptions(p) : op' = [op EXCEPT ![p][t] = d]
    BY <1>4 DEF Call
  <2>2. at' = [at EXCEPT ![p][t] = "wait"]
    BY <1>4 DEF Call
  <2>3. d \in Description
    <3>1. [kind : {"rollback"} \cap Kinds, by : Peers, declares : {FALSE}] \subseteq Description
      BY DEF Description, SdpTypes
    <3>2. made[p] \subseteq Description /\ sent \subseteq Description
      BY <1>0 DEF TypeOK
    <3> QED
      BY <2>1, <3>1, <3>2 DEF Descriptions
  <2> QED
    BY <1>0, <2>1, <2>2, <2>3 DEF HandInv, TypeOK
<1>5. ASSUME NEW p \in Peers, NEW t \in Threads, Hand(p, t) PROVE HandInv'
  <2>1. \/ Refused(p, t)
        \/ at' = [at EXCEPT ![p][t] = "native"] /\ at[p][t] = "call" /\ UNCHANGED op
    BY <1>5 DEF Hand
  <2>2. CASE at' = [at EXCEPT ![p][t] = "native"] /\ at[p][t] = "call" /\ UNCHANGED op
    BY <1>0, <2>2 DEF HandInv, TypeOK
  <2> QED
    BY <1>2, <2>1, <2>2
<1>6. ASSUME NEW p \in Peers, NEW t \in Threads, TimeOut(p, t) PROVE HandInv'
  BY <1>2, <1>6 DEF TimeOut
<1>7. ASSUME NEW p \in Peers, Accept(p) \/ Reject(p) PROVE HandInv'
  <2>1. chain[p] # <<>>
    BY <1>7 DEF Accept, Reject, Turn
  <2> QED
    BY <1>0, <1>2, <1>7, <2>1, AcceptFacts, RejectFacts, HeadFacts DEF HandInv
<1> QED
  BY <1>1, <1>3, <1>4, <1>5, <1>6, <1>7, NextCases

-----------------------------------------------------------------------------
(* Every step keeps libwebrtc's operations and the calls together.          *)

LEMMA ChainStep == ASSUME IInv, [Next]_vars PROVE ChainInv'
<1> USE DEF ownVars, threadVars
<1>0. TypeOK /\ ChainInv /\ HandInv
  BY DEF IInv
<1>1. CASE UNCHANGED vars \/ \E p \in Peers : App(p)
  BY <1>0, <1>1, AppFacts DEF ChainInv, nativeVars
\* A thread whose operation is gone, or is late, goes on.
<1>2. ASSUME NEW p \in Peers, NEW t \in Threads,
             \A q \in Peers : q # p => chain'[q] = chain[q] /\ at'[q] = at[q] /\ op'[q] = op[q],
             \A u \in Threads : u # t => at'[p][u] = at[p][u] /\ op'[p][u] = op[p][u],
             NEW f \in [DOMAIN chain'[p] -> DOMAIN chain[p]],
             \A i, j \in DOMAIN chain'[p] : i # j => f[i] # f[j],
             \A i \in DOMAIN chain'[p] : ~chain'[p][i].late =>
                /\ chain'[p][i].by = chain[p][f[i]].by
                /\ chain'[p][i].desc = chain[p][f[i]].desc
                /\ ~chain[p][f[i]].late
                /\ chain'[p][i].by # t,
             \A i \in DOMAIN chain[p] : chain[p][i].by \in Threads
      PROVE  ChainInv'
  <2> SUFFICES ASSUME NEW q \in Peers, NEW i \in DOMAIN chain'[q], ~chain'[q][i].late
               PROVE  /\ at'[q][chain'[q][i].by] = "native"
                      /\ op'[q][chain'[q][i].by] = chain'[q][i].desc
                      /\ \A j \in DOMAIN chain'[q] :
                            j # i /\ ~chain'[q][j].late => chain'[q][j].by # chain'[q][i].by
    BY DEF ChainInv
  <2>1. CASE q # p
    BY <1>0, <1>2, <2>1 DEF ChainInv
  <2>2. CASE q = p
    <3>1. f[i] \in DOMAIN chain[p] /\ chain[p][f[i]].by \in Threads /\ ~chain[p][f[i]].late
      BY <1>2, <2>2
    <3>2. /\ at[p][chain[p][f[i]].by] = "native"
          /\ op[p][chain[p][f[i]].by] = chain[p][f[i]].desc
          /\ \A j \in DOMAIN chain[p] :
                j # f[i] /\ ~chain[p][j].late => chain[p][j].by # chain[p][f[i]].by
      BY <1>0, <3>1 DEF ChainInv
    <3> QED
      BY <1>2, <2>2, <3>1, <3>2
  <2> QED
    BY <2>1, <2>2
<1>3. ASSUME NEW p \in Peers, NEW t \in Threads, at[p][t] # "native", UNCHANGED chain,
             \A q \in Peers : q # p => at'[q] = at[q] /\ op'[q] = op[q],
             \A u \in Threads : u # t => at'[p][u] = at[p][u] /\ op'[p][u] = op[p][u]
      PROVE  ChainInv'
  <2>1. chain[p] \in Seq(Op)
    BY <1>0 DEF TypeOK
  <2> DEFINE f == [i \in DOMAIN chain'[p] |-> i]
  <2>2. \A i \in DOMAIN chain[p] : chain[p][i].by \in Threads
    BY <2>1, OpFacts
  <2>3. \A i \in DOMAIN chain[p] : ~chain[p][i].late => chain[p][i].by # t
    BY <1>0, <1>3 DEF ChainInv
  <2>4. f \in [DOMAIN chain'[p] -> DOMAIN chain[p]] /\ \A i \in DOMAIN chain'[p] : f[i] = i
    BY <1>3
  <2> HIDE DEF f
  <2> QED
    BY <1>2, <1>3, <2>2, <2>3, <2>4
<1>4. ASSUME NEW p \in Peers, NEW t \in Threads, Return(p, t) \/ Refused(p, t)
      PROVE  /\ \A q \in Peers : q # p => at'[q] = at[q] /\ op'[q] = op[q]
             /\ \A u \in Threads : u # t => at'[p][u] = at[p][u] /\ op'[p][u] = op[p][u]
  BY <1>0, <1>4 DEF TypeOK, Return, Refused
<1>5. ASSUME NEW p \in Peers, NEW t \in Threads, Call(p, t) \/ Begin(p, t) \/ Undo(p, t)
      PROVE  ChainInv'
  <2>1. /\ at[p][t] # "native" /\ UNCHANGED chain
        /\ \A q \in Peers : q # p => at'[q] = at[q] /\ op'[q] = op[q]
        /\ \A u \in Threads : u # t => at'[p][u] = at[p][u] /\ op'[p][u] = op[p][u]
    <3>1. CASE Call(p, t)
      BY <1>0, <3>1 DEF TypeOK, Call, nativeVars
    <3>2. CASE Begin(p, t)
      BY <1>0, <3>2 DEF TypeOK, Begin, nativeVars
    <3>3. CASE Undo(p, t)
      BY <1>0, <3>3 DEF TypeOK, Undo, nativeVars
    <3> QED
      BY <1>5, <3>1, <3>2, <3>3
  <2> QED
    BY <1>3, <2>1
<1>6. ASSUME NEW p \in Peers, NEW t \in Threads, Hand(p, t) PROVE ChainInv'
  <2>1. CASE Refused(p, t) /\ UNCHANGED chain
    <3>1. at[p][t] # "native"
      BY <1>6 DEF Hand
    <3> QED
      BY <1>3, <1>4, <2>1, <3>1
  <2>2. CASE /\ chain' = [chain EXCEPT ![p] =
                             Append(@, [desc |-> op[p][t], by |-> t, late |-> FALSE])]
             /\ at' = [at EXCEPT ![p][t] = "native"]
             /\ UNCHANGED op
    <3> DEFINE o == [desc |-> op[p][t], by |-> t, late |-> FALSE]
    <3>1. at[p][t] = "call" /\ o \in Op /\ chain[p] \in Seq(Op)
      BY <1>0, <1>6 DEF Hand, HandInv, Op, TypeOK
    <3>2. \A i \in DOMAIN chain[p] : ~chain[p][i].late => chain[p][i].by # t
      BY <1>0, <3>1 DEF ChainInv
    <3> DEFINE s == chain[p]
    <3>3. chain'[p] = Append(s, o) /\ \A q \in Peers : q # p => chain'[q] = chain[q]
      BY <1>0, <2>2 DEF TypeOK
    <3>4. o.by = t /\ o.desc = op[p][t] /\ ~o.late
      OBVIOUS
    <3>5. /\ \A q \in Peers : q # p => at'[q] = at[q]
          /\ at'[p][t] = "native" /\ \A u \in Threads : u # t => at'[p][u] = at[p][u]
      BY <1>0, <2>2 DEF TypeOK
    <3>6. \A i \in DOMAIN s : s[i].by \in Threads
      BY <3>1, OpFacts
    <3>7. \A i \in DOMAIN Append(s, o) :
                 \/ i \in DOMAIN s /\ Append(s, o)[i] = s[i]
                 \/ i = Len(s) + 1 /\ Append(s, o)[i] = o
      BY <3>1, AppendFacts
    <3> HIDE DEF o
    <3> SUFFICES ASSUME NEW q \in Peers, NEW i \in DOMAIN chain'[q], ~chain'[q][i].late
                 PROVE  /\ at'[q][chain'[q][i].by] = "native"
                        /\ op'[q][chain'[q][i].by] = chain'[q][i].desc
                        /\ \A j \in DOMAIN chain'[q] :
                              j # i /\ ~chain'[q][j].late => chain'[q][j].by # chain'[q][i].by
      BY DEF ChainInv
    <3>8. CASE q # p
      BY <1>0, <2>2, <3>3, <3>5, <3>8 DEF ChainInv
    <3>9. CASE q = p /\ i = Len(s) + 1 /\ Append(s, o)[i] = o
      BY <2>2, <3>2, <3>3, <3>4, <3>5, <3>7, <3>9
    <3>10. CASE q = p /\ i \in DOMAIN s /\ Append(s, o)[i] = s[i]
      <4>1. /\ at[p][s[i].by] = "native" /\ op[p][s[i].by] = s[i].desc /\ ~s[i].late
            /\ s[i].by # t /\ s[i].by \in Threads
            /\ \A j \in DOMAIN s : j # i /\ ~s[j].late => s[j].by # s[i].by
        BY <1>0, <3>2, <3>3, <3>6, <3>10 DEF ChainInv
      <4> QED
        BY <2>2, <3>3, <3>4, <3>5, <3>7, <3>10, <4>1
    <3> QED
      BY <3>3, <3>7, <3>8, <3>9, <3>10
  <2> QED
    BY <1>6, <2>1, <2>2 DEF Hand
<1>7. ASSUME NEW p \in Peers, NEW t \in Threads, TimeOut(p, t) PROVE ChainInv'
  <2> DEFINE s == chain[p]
  <2>1. Return(p, t) /\ s \in Seq(Op)
    BY <1>0, <1>7 DEF TimeOut, TypeOK
  <2>2. chain'[p] = MarkedLate(s, t) /\ \A q \in Peers : q # p => chain'[q] = chain[q]
    BY <1>0, <1>7 DEF TimeOut, MarkedLate, TypeOK
  <2>3. /\ DOMAIN MarkedLate(s, t) = DOMAIN s
        /\ \A i \in DOMAIN s : /\ MarkedLate(s, t)[i].by = s[i].by
                               /\ MarkedLate(s, t)[i].desc = s[i].desc
                               /\ MarkedLate(s, t)[i].late <=> s[i].late \/ s[i].by = t
    BY <2>1, LateFacts
  <2>4. \A i \in DOMAIN s : s[i].by \in Threads
    BY <2>1, OpFacts
  <2> DEFINE f == [i \in DOMAIN chain'[p] |-> i]
  <2>5. f \in [DOMAIN chain'[p] -> DOMAIN s] /\ \A i \in DOMAIN chain'[p] : f[i] = i
    BY <2>2, <2>3
  <2> HIDE DEF f
  <2>6. \A i \in DOMAIN chain'[p] : ~chain'[p][i].late =>
                /\ chain'[p][i].by = chain[p][f[i]].by
                /\ chain'[p][i].desc = chain[p][f[i]].desc
                /\ ~chain[p][f[i]].late
                /\ chain'[p][i].by # t
    BY <2>2, <2>3, <2>5
  <2>7. \A i, j \in DOMAIN chain'[p] : i # j => f[i] # f[j]
    BY <2>5
  <2>8. /\ \A q \in Peers : q # p => chain'[q] = chain[q] /\ at'[q] = at[q] /\ op'[q] = op[q]
        /\ \A u \in Threads : u # t => at'[p][u] = at[p][u] /\ op'[p][u] = op[p][u]
    BY <1>4, <2>1, <2>2
  <2> QED
    BY <1>2, <2>4, <2>5, <2>6, <2>7, <2>8
<1>8. ASSUME NEW p \in Peers, chain[p] # <<>>, chain' = [chain EXCEPT ![p] = Tail(@)],
             \/ ~Head(chain[p]).late /\ (Return(p, Head(chain[p]).by) \/ Refused(p, Head(chain[p]).by))
             \/ Head(chain[p]).late /\ UNCHANGED threadVars
      PROVE  ChainInv'
  <2> DEFINE s == chain[p]
             o == Head(s)
  <2>1. s \in Seq(Op) /\ chain'[p] = Tail(s) /\ \A q \in Peers : q # p => chain'[q] = chain[q]
    BY <1>0, <1>8 DEF TypeOK
  <2>2. /\ 1 \in DOMAIN s /\ o = s[1] /\ o \in Op
        /\ \A i \in DOMAIN Tail(s) :
              i + 1 \in DOMAIN s /\ i + 1 # 1 /\ Tail(s)[i] = s[i + 1]
        /\ \A i, j \in DOMAIN Tail(s) : i # j => i + 1 # j + 1
    BY <1>8, <2>1, TailFacts
  <2>3. o.by \in Threads /\ \A i \in DOMAIN s : s[i].by \in Threads
    BY <2>1, <2>2, OpFacts
  <2> DEFINE f == [i \in DOMAIN chain'[p] |-> i + 1]
  <2>4. /\ f \in [DOMAIN chain'[p] -> DOMAIN s]
        /\ \A i \in DOMAIN chain'[p] : f[i] = i + 1 /\ chain'[p][i] = s[f[i]] /\ f[i] # 1
        /\ \A i, j \in DOMAIN chain'[p] : i # j => f[i] # f[j]
    BY <2>1, <2>2
  <2> HIDE DEF f, o, s
  <2>5. CASE ~o.late /\ (Return(p, o.by) \/ Refused(p, o.by))
    <3>1. \A i \in DOMAIN s : i # 1 /\ ~s[i].late => s[i].by # o.by
      BY <1>0, <2>2, <2>5 DEF ChainInv, s
    <3>2. \A i \in DOMAIN chain'[p] : ~chain'[p][i].late =>
                /\ chain'[p][i].by = s[f[i]].by
                /\ chain'[p][i].desc = s[f[i]].desc
                /\ ~s[f[i]].late
                /\ chain'[p][i].by # o.by
      BY <2>4, <3>1
    <3>3. /\ \A q \in Peers : q # p => chain'[q] = chain[q] /\ at'[q] = at[q] /\ op'[q] = op[q]
          /\ \A u \in Threads : u # o.by => at'[p][u] = at[p][u] /\ op'[p][u] = op[p][u]
      BY <1>4, <2>1, <2>3, <2>5
    <3> QED
      BY <1>2, <2>3, <2>4, <3>2, <3>3 DEF s
  <2>6. CASE o.late /\ UNCHANGED threadVars
    <3> SUFFICES ASSUME NEW q \in Peers, NEW i \in DOMAIN chain'[q], ~chain'[q][i].late
                 PROVE  /\ at'[q][chain'[q][i].by] = "native"
                        /\ op'[q][chain'[q][i].by] = chain'[q][i].desc
                        /\ \A j \in DOMAIN chain'[q] :
                              j # i /\ ~chain'[q][j].late => chain'[q][j].by # chain'[q][i].by
      BY DEF ChainInv
    <3>1. CASE q # p
      BY <1>0, <2>1, <2>6, <3>1 DEF ChainInv
    <3>2. CASE q = p
      <4>1. f[i] \in DOMAIN s /\ chain'[p][i] = s[f[i]]
        BY <2>4, <3>2
      <4>2. /\ at[p][s[f[i]].by] = "native" /\ op[p][s[f[i]].by] = s[f[i]].desc
            /\ \A j \in DOMAIN s : j # f[i] /\ ~s[j].late => s[j].by # s[f[i]].by
        BY <1>0, <3>2, <4>1 DEF ChainInv, s
      <4> QED
        BY <2>4, <2>6, <3>2, <4>1, <4>2
    <3> QED
      BY <3>1, <3>2
  <2> QED
    BY <1>8, <2>5, <2>6 DEF o, s
<1>9. ASSUME NEW p \in Peers, Accept(p) PROVE ChainInv'
  <2>1. chain[p] # <<>> /\ chain' = [chain EXCEPT ![p] = Tail(@)]
    BY <1>9 DEF Accept, Turn
  <2> QED
    BY <1>8, <1>9, <2>1, AcceptFacts
<1>10. ASSUME NEW p \in Peers, Reject(p) PROVE ChainInv'
  <2>1. chain[p] # <<>> /\ chain' = [chain EXCEPT ![p] = Tail(@)]
    BY <1>10 DEF Reject, Turn
  <2> QED
    BY <1>8, <1>10, <2>1, RejectFacts
<1> QED
  BY <1>1, <1>5, <1>6, <1>7, <1>9, <1>10, NextCases

-----------------------------------------------------------------------------
(* Every step keeps the record and its history together.                     *)

\* The part of DueInv that is about one peer.
DueAt(p) ==
    /\ applying[p] = NoThread => state[p] = due[p]
    /\ \A t \in Threads : applying[p] = t =>
          /\ before[p][t] = due[p]
          /\ at[p][t] \in {"call", "native"} => state[p] = Record(p, due[p], op[p][t])
    /\ due[p].settled => state[p].settled /\ state[p].remote = due[p].remote

LEMMA DueStep == ASSUME IInv, [Next]_vars PROVE DueInv'
<1> USE ThreadsAssumption DEF ownVars, threadVars
<1>0. TypeOK /\ LockInv /\ HandInv /\ DueInv
  BY DEF IInv
<1>a. (\A p \in Peers : DueAt(p)) /\ (DueInv' <=> \A p \in Peers : DueAt(p)')
  BY <1>0 DEF DueInv, DueAt
<1>1. CASE UNCHANGED vars \/ \E p \in Peers : App(p)
  <2>1. UNCHANGED <<state, due, before, applying, at, op>>
    BY <1>1, AppFacts
  <2> QED
    BY <1>a, <2>1 DEF DueAt
\* A step that is about thread t of peer p.
<1>2. ASSUME NEW p \in Peers, NEW t \in Threads,
             Call(p, t) \/ Begin(p, t) \/ Hand(p, t) \/ TimeOut(p, t) \/ Undo(p, t)
                \/ Return(p, t) \/ (UNCHANGED ownVars /\ Refused(p, t)),
             NEW q \in Peers, q # p
      PROVE  DueAt(q)'
  <2>1. /\ state'[q] = state[q] /\ due'[q] = due[q] /\ before'[q] = before[q]
        /\ applying'[q] = applying[q] /\ at'[q] = at[q] /\ op'[q] = op[q]
    <3>1. CASE Call(p, t)
      BY <1>0, <1>2, <3>1 DEF TypeOK, Call
    <3>2. CASE Begin(p, t)
      BY <1>0, <1>2, <3>2 DEF TypeOK, Begin
    <3>3. CASE Return(p, t) \/ TimeOut(p, t)
      BY <1>0, <1>2, <3>3 DEF TypeOK, TimeOut, Return
    <3>4. CASE (UNCHANGED ownVars /\ Refused(p, t)) \/ Hand(p, t)
      BY <1>0, <1>2, <3>4 DEF TypeOK, Hand, Refused
    <3>5. CASE Undo(p, t)
      BY <1>0, <1>2, <3>5 DEF TypeOK, Undo
    <3> QED
      BY <1>2, <3>1, <3>2, <3>3, <3>4, <3>5
  <2>2. DueAt(q)
    BY <1>a
  <2> QED
    BY <2>1, <2>2 DEF DueAt
<1>3. ASSUME NEW p \in Peers, NEW t \in Threads, at[p][t] = "native", Return(p, t)
      PROVE  DueAt(p)'
  <2>1. CASE p \in TakesPart
    <3>1. applying[p] = t
      BY <1>0, <1>3, <2>1 DEF LockInv
    <3>2. state[p] = Record(p, due[p], op[p][t])
      BY <1>0, <1>3, <3>1 DEF DueInv
    <3>3. applying'[p] = NoThread /\ state'[p] = state[p] /\ due'[p] = Record(p, due[p], op[p][t])
      BY <1>0, <1>3, <2>1, <3>1 DEF Return, TypeOK
    <3> QED
      BY <3>2, <3>3 DEF DueAt
  <2>2. CASE p \notin TakesPart
    <3>1. applying[p] = NoThread /\ state[p] = due[p]
      BY <1>0, <1>3, <2>2 DEF LockInv, DueInv
    <3>2. applying'[p] = NoThread /\ state'[p] = state[p] /\ due'[p] = due[p]
      BY <1>0, <1>3, <2>2, <3>1 DEF Return, TypeOK
    <3> QED
      BY <3>1, <3>2 DEF DueAt
  <2> QED
    BY <2>1, <2>2
<1>4. ASSUME NEW p \in Peers, NEW t \in Threads, UNCHANGED ownVars, Refused(p, t)
      PROVE  DueAt(p)'
  <2>1. /\ at'[p][t] \notin {"call", "native"}
        /\ \A u \in Threads : u # t => at'[p][u] = at[p][u] /\ op'[p][u] = op[p][u]
    BY <1>0, <1>4 DEF TypeOK, Refused
  <2>2. DueAt(p)
    BY <1>a
  <2> QED
    BY <1>4, <2>1, <2>2 DEF DueAt
<1>5. ASSUME NEW p \in Peers, NEW t \in Threads, Call(p, t) PROVE DueAt(p)'
  <2>1. /\ at[p][t] = "idle" /\ at'[p][t] = "wait" /\ UNCHANGED ownVars
        /\ \A u \in Threads : u # t => at'[p][u] = at[p][u] /\ op'[p][u] = op[p][u]
    BY <1>0, <1>5 DEF TypeOK, Call
  <2>2. DueAt(p)
    BY <1>a
  <2> QED
    BY <2>1, <2>2 DEF DueAt
<1>6. ASSUME NEW p \in Peers, NEW t \in Threads, Begin(p, t) PROVE DueAt(p)'
  <2>1. due'[p] = due[p] /\ op'[p] = op[p]
    BY <1>6 DEF Begin
  <2>2. CASE p \in TakesPart
    <3>1. /\ applying[p] = NoThread /\ applying'[p] = t /\ before'[p][t] = state[p]
          /\ state'[p] = Record(p, state[p], op[p][t])
      BY <1>0, <1>6, <2>2 DEF TypeOK, Begin
    <3>2. state[p] = due[p]
      BY <1>0, <3>1 DEF DueInv
    <3>3. due[p] \in NegotiationState /\ op[p][t] \in Description \cup {NoDescription}
      BY <1>0 DEF TypeOK
    <3>4. due[p].settled =>
             Record(p, due[p], op[p][t]).settled /\ Record(p, due[p], op[p][t]).remote = due[p].remote
      BY <3>3, RecordFacts
    <3> QED
      BY <2>1, <3>1, <3>2, <3>4 DEF DueAt
  <2>3. CASE p \notin TakesPart
    <3>1. applying[p] = NoThread /\ applying'[p] = NoThread /\ state'[p] = state[p]
      BY <1>0, <1>6, <2>3 DEF LockInv, Begin
    <3>2. DueAt(p)
      BY <1>a
    <3> QED
      BY <2>1, <3>1, <3>2 DEF DueAt
  <2> QED
    BY <2>2, <2>3
<1>7. ASSUME NEW p \in Peers, NEW t \in Threads, Hand(p, t) PROVE DueAt(p)'
  <2>1. UNCHANGED ownVars /\ at[p][t] = "call"
    BY <1>7 DEF Hand
  <2>2. CASE Refused(p, t)
    BY <1>4, <2>1, <2>2
  <2>3. CASE at' = [at EXCEPT ![p][t] = "native"] /\ UNCHANGED op
    <3>1. \A u \in Threads : at'[p][u] \in {"call", "native"} => at[p][u] \in {"call", "native"}
      BY <1>0, <2>1, <2>3 DEF TypeOK
    <3>2. DueAt(p)
      BY <1>a
    <3> QED
      BY <2>1, <2>3, <3>1, <3>2 DEF DueAt
  <2> QED
    BY <1>7, <2>2, <2>3 DEF Hand
<1>8. ASSUME NEW p \in Peers, NEW t \in Threads, Undo(p, t) PROVE DueAt(p)'
  <2>1. at[p][t] = "undo" /\ applying[p] = t
    BY <1>0, <1>8 DEF Undo, LockInv
  <2>2. before[p][t] = due[p]
    BY <1>0, <2>1 DEF DueInv
  <2>3. applying'[p] = NoThread /\ state'[p] = before[p][t] /\ due'[p] = due[p]
    BY <1>0, <1>8 DEF TypeOK, Undo
  <2> QED
    BY <2>2, <2>3 DEF DueAt
<1>9. ASSUME NEW p \in Peers, Accept(p) \/ Reject(p) PROVE \A q \in Peers : DueAt(q)'
  <2> DEFINE t == Head(chain[p]).by
  <2>1. chain[p] # <<>>
    BY <1>9 DEF Accept, Reject, Turn
  <2>2. t \in Threads /\ (~Head(chain[p]).late => at[p][t] = "native")
    BY <2>1, HeadFacts
  <2>3. \/ at[p][t] = "native" /\ Return(p, t)
        \/ UNCHANGED ownVars /\ Refused(p, t)
        \/ UNCHANGED <<state, due, before, applying, at, op>>
    BY <1>9, <2>2, AcceptFacts, RejectFacts
  <2> HIDE DEF t
  <2>4. CASE UNCHANGED <<state, due, before, applying, at, op>>
    BY <1>a, <2>4 DEF DueAt
  <2> QED
    BY <1>2, <1>3, <1>4, <2>2, <2>3, <2>4
<1>10. ASSUME NEW p \in Peers, NEW t \in Threads, TimeOut(p, t) PROVE DueAt(p)'
  BY <1>3, <1>10 DEF TimeOut
<1>11. ASSUME NEW p \in Peers, NEW t \in Threads,
              Call(p, t) \/ Begin(p, t) \/ Hand(p, t) \/ TimeOut(p, t) \/ Undo(p, t)
       PROVE  \A q \in Peers : DueAt(q)'
  BY <1>2, <1>5, <1>6, <1>7, <1>8, <1>10, <1>11
<1> QED
  BY <1>a, <1>1, <1>9, <1>11, NextCases

-----------------------------------------------------------------------------
(* Every step keeps to the kinds the applications use.                      *)

KindAt(p) ==
    /\ answering[p] \subseteq Kinds
    /\ \A d \in made[p] : d.kind \in Kinds
    /\ \A t \in Threads : op[p][t] # NoDescription => op[p][t].kind \in Kinds
    /\ \A i \in DOMAIN chain[p] : chain[p][i].desc.kind \in Kinds

LEMMA KindStep == ASSUME IInv, [Next]_vars PROVE KindInv'
<1> USE DEF ownVars, threadVars, nativeVars, appVars
<1>0. TypeOK /\ KindInv /\ HandInv /\ mode' \in Mode /\ Kinds' = Kinds
  BY ModeStep DEF IInv
<1>1. (\E m \in Modes : mode.kinds = m.kinds) /\ (\E m \in Modes : mode.kinds = m.kinds)'
  BY <1>0 DEF KindInv, Kinds
<1>2. \A p \in Peers : KindAt(p)
  BY <1>0 DEF KindInv, KindAt
<1>3. (\A d \in sent' : d.kind \in Kinds) /\ (\A p \in Peers : KindAt(p)') => KindInv'
  BY <1>0, <1>1 DEF KindInv, KindAt
<1> DEFINE Kept == /\ UNCHANGED sent /\ \A p \in Peers : KindAt(p)'
<1>4. Kept => KindInv'
  BY <1>0, <1>3 DEF KindInv
<1>5. ASSUME NEW p \in Peers, CreateOffer(p) PROVE Kept
  <2>1. /\ "offer" \in Kinds /\ UNCHANGED <<sent, answering, op, chain>>
        /\ made' = [made EXCEPT ![p] = @ \cup
                       {[kind |-> "offer", by |-> p, declares |-> p \in TakesPart]}]
    BY <1>5 DEF CreateOffer
  <2> QED
    BY <1>0, <1>2, <2>1 DEF KindAt, TypeOK
<1>6. ASSUME NEW p \in Peers, NEW kind \in Kinds \cap {"answer", "pranswer"}, MakeAnswer(p, kind)
      PROVE  Kept
  BY <1>0, <1>2, <1>6 DEF KindAt, TypeOK, MakeAnswer
<1>7. ASSUME NEW p \in Peers, NEW kind \in Kinds \cap {"answer", "pranswer"}, CreateAnswer(p, kind)
      PROVE  Kept
  <2> DEFINE b == p \in TakesPart /\ state[p].pending
  <2>1. /\ UNCHANGED <<sent, op, chain>>
        /\ answering' = [answering EXCEPT ![p] = @ \ {kind}]
        /\ made' = [made EXCEPT ![p] = @ \cup {[kind |-> kind, by |-> p, declares |-> b]}]
    BY <1>7 DEF CreateAnswer
  <2> HIDE DEF b
  <2> QED
    BY <1>0, <1>2, <2>1 DEF KindAt, TypeOK
<1>8. ASSUME NEW p \in Peers, NEW t \in Threads, Call(p, t) PROVE Kept
  <2>1. PICK d \in Descriptions(p) : op' = [op EXCEPT ![p][t] = d]
    BY <1>8 DEF Call
  <2>2. d.kind \in Kinds
    <3>1. \A e \in [kind : {"rollback"} \cap Kinds, by : Peers, declares : {FALSE}] : e.kind \in Kinds
      OBVIOUS
    <3>2. (\A e \in sent : e.kind \in Kinds) /\ (\A e \in made[p] : e.kind \in Kinds)
      BY <1>0 DEF KindInv
    <3> QED
      BY <2>1, <3>1, <3>2 DEF Descriptions
  <2>3. UNCHANGED <<sent, answering, made, chain>>
    BY <1>8 DEF Call
  <2> QED
    BY <1>0, <1>2, <2>1, <2>2, <2>3 DEF KindAt, TypeOK
<1>9. ASSUME NEW p \in Peers, NEW t \in Threads, Begin(p, t) \/ Undo(p, t) PROVE Kept
  BY <1>0, <1>2, <1>9 DEF KindAt, Begin, Undo
<1>10. ASSUME NEW p \in Peers, UNCHANGED chain \/ chain' = [chain EXCEPT ![p] = Tail(@)],
              NEW t \in Threads,
              \/ op' = [op EXCEPT ![p][t] = NoDescription]
              \/ UNCHANGED op,
              UNCHANGED <<answering, made>>, chain' # chain => chain[p] # <<>>
       PROVE  \A q \in Peers : KindAt(q)'
  <2>1. \A q \in Peers : \A i \in DOMAIN chain'[q] : chain'[q][i].desc.kind \in Kinds
    <3>1. chain[p] \in Seq(Op)
      BY <1>0 DEF TypeOK
    <3>2. CASE UNCHANGED chain
      BY <1>2, <3>2 DEF KindAt
    <3>3. CASE chain' # chain
      <4>1. \A i \in DOMAIN Tail(chain[p]) : i + 1 \in DOMAIN chain[p]
                                             /\ Tail(chain[p])[i] = chain[p][i + 1]
        BY <1>10, <3>1, <3>3, TailFacts
      <4>2. chain'[p] = Tail(chain[p]) /\ \A q \in Peers : q # p => chain'[q] = chain[q]
        BY <1>0, <1>10, <3>3 DEF TypeOK
      <4> SUFFICES ASSUME NEW q \in Peers, NEW i \in DOMAIN chain'[q]
                   PROVE  chain'[q][i].desc.kind \in Kinds
        OBVIOUS
      <4>3. \A j \in DOMAIN chain[q] : chain[q][j].desc.kind \in Kinds
        BY <1>2 DEF KindAt
      <4>4. CASE q = p
        <5>1. i + 1 \in DOMAIN chain[p] /\ chain'[q][i] = chain[p][i + 1]
          BY <4>1, <4>2, <4>4
        <5> QED
          BY <4>3, <4>4, <5>1
      <4>5. CASE q # p
        BY <4>2, <4>3, <4>5
      <4> QED
        BY <4>4, <4>5
    <3> QED
      BY <3>2, <3>3
  <2>2. ASSUME NEW q \in Peers, NEW u \in Threads, op'[q][u] # NoDescription
        PROVE  op'[q][u].kind \in Kinds
    <3>1. op \in [Peers -> [Threads -> Description \cup {NoDescription}]]
      BY <1>0 DEF TypeOK
    <3>2. op'[q][u] = op[q][u]
      BY <1>10, <2>2, <3>1
    <3> QED
      BY <1>2, <2>2, <3>2 DEF KindAt
  <2> QED
    BY <1>0, <1>2, <1>10, <2>1, <2>2 DEF KindAt
<1>11. ASSUME NEW p \in Peers, NEW t \in Threads, Hand(p, t) PROVE Kept
  <2>1. UNCHANGED <<sent, answering, made>> /\ at[p][t] = "call"
    BY <1>11 DEF Hand
  <2>2. CASE Refused(p, t) /\ UNCHANGED chain
    BY <1>10, <2>1, <2>2 DEF Refused
  <2>3. CASE /\ chain' = [chain EXCEPT ![p] =
                             Append(@, [desc |-> op[p][t], by |-> t, late |-> FALSE])]
             /\ UNCHANGED op
    <3> DEFINE o == [desc |-> op[p][t], by |-> t, late |-> FALSE]
    <3>1. op[p][t] \in Description /\ op[p][t].kind \in SdpTypes
      BY <1>0, <2>1 DEF HandInv, Description
    <3>2. op[p][t] # NoDescription
      BY <3>1 DEF NoDescription, SdpTypes
    <3>3. o \in Op /\ o.desc.kind \in Kinds
      BY <1>0, <3>1, <3>2 DEF Op, KindInv
    <3> HIDE DEF o
    <3>4. chain[p] \in Seq(Op) /\ chain'[p] = Append(chain[p], o)
          /\ \A q \in Peers : q # p => chain'[q] = chain[q]
      BY <1>0, <2>3 DEF TypeOK, o
    <3>5. \A i \in DOMAIN Append(chain[p], o) :
             \/ i \in DOMAIN chain[p] /\ Append(chain[p], o)[i] = chain[p][i]
             \/ i = Len(chain[p]) + 1 /\ Append(chain[p], o)[i] = o
      BY <3>3, <3>4, AppendFacts
    <3>6. \A q \in Peers : \A i \in DOMAIN chain'[q] : chain'[q][i].desc.kind \in Kinds
      BY <1>2, <3>3, <3>4, <3>5 DEF KindAt
    <3> QED
      BY <1>0, <1>2, <2>1, <2>3, <3>6 DEF KindAt
  <2> QED
    BY <1>11, <2>2, <2>3 DEF Hand
<1>12. ASSUME NEW p \in Peers, NEW t \in Threads, TimeOut(p, t) PROVE Kept
  <2>1. chain[p] \in Seq(Op) /\ chain' = [chain EXCEPT ![p] = MarkedLate(chain[p], t)]
    BY <1>0, <1>12 DEF TypeOK, TimeOut, MarkedLate
  <2>2. /\ DOMAIN MarkedLate(chain[p], t) = DOMAIN chain[p]
        /\ \A i \in DOMAIN chain[p] : MarkedLate(chain[p], t)[i].desc = chain[p][i].desc
    BY <2>1, LateFacts
  <2>3. \A q \in Peers : \A i \in DOMAIN chain'[q] : chain'[q][i].desc.kind \in Kinds
    BY <1>0, <1>2, <2>1, <2>2 DEF KindAt, TypeOK
  <2>4. UNCHANGED <<sent, answering, made>> /\ op' = [op EXCEPT ![p][t] = NoDescription]
    BY <1>12 DEF TimeOut, Return
  <2> QED
    BY <1>0, <1>2, <2>3, <2>4 DEF KindAt, TypeOK
<1>13. ASSUME NEW p \in Peers, Accept(p) \/ Reject(p) PROVE KindInv'
  <2> DEFINE o == Head(chain[p])
  <2>1. chain[p] # <<>> /\ chain' = [chain EXCEPT ![p] = Tail(@)]
    BY <1>13 DEF Accept, Reject, Turn
  <2>2. o.by \in Threads
    BY <2>1, HeadFacts
  <2>3. o.desc.kind \in Kinds
    <3>1. chain[p] \in Seq(Op)
      BY <1>0 DEF TypeOK
    <3>2. 1 \in DOMAIN chain[p] /\ o = chain[p][1]
      BY <2>1, <3>1, TailFacts
    <3> QED
      BY <1>2, <3>2 DEF KindAt
  <2>4. UNCHANGED <<answering, made>> /\ (sent' = sent \/ sent' = sent \cup {o.desc})
    BY <1>13 DEF Accept, Reject
  <2>5. op' = [op EXCEPT ![p][o.by] = NoDescription] \/ UNCHANGED op
    BY <1>13 DEF Accept, Reject, Return, Refused
  <2> HIDE DEF o
  <2>6. \A q \in Peers : KindAt(q)'
    BY <1>10, <2>1, <2>2, <2>4, <2>5
  <2>7. \A d \in sent' : d.kind \in Kinds
    BY <1>0, <2>3, <2>4 DEF KindInv
  <2> QED
    BY <1>3, <2>6, <2>7
<1>14. ASSUME NEW p \in Peers, NEW c \in Channels, Decide(p, c) PROVE Kept
  BY <1>0, <1>2, <1>14 DEF KindAt, Decide
<1>15. CASE UNCHANGED vars
  BY <1>0, <1>15 DEF KindInv, vars
<1> QED
  BY <1>4, <1>5, <1>6, <1>7, <1>8, <1>9, <1>11, <1>12, <1>13, <1>14, <1>15 DEF Next

-----------------------------------------------------------------------------
(* Every step of peers that use no provisional answer keeps what has settled. *)

\* What each step does to the history of a peer that takes part.
LEMMA DueFacts ==
    ASSUME IInv, [Next]_vars, NEW p \in Peers
    PROVE  /\ due'[p] \in NegotiationState
           /\ due[p].settled => due'[p].settled /\ due'[p].remote = due[p].remote
<1>1. TypeOK /\ TypeOK'
  BY TypeStep DEF IInv
<1>2. ASSUME NEW q \in Peers, NEW t \in Threads, Return(q, t)
      PROVE  due[p].settled => due'[p].settled /\ due'[p].remote = due[p].remote
  <2>1. due'[p] = due[p] \/ due'[p] = Record(p, due[p], op[p][t])
    BY <1>1, <1>2 DEF TypeOK, Return
  <2>2. due[p] \in NegotiationState /\ op[p][t] \in Description \cup {NoDescription}
    BY <1>1, <1>2 DEF TypeOK
  <2> QED
    BY <2>1, <2>2, RecordFacts
<1>3. \/ UNCHANGED due
      \/ \E q \in Peers : \E t \in Threads : Return(q, t)
  <2>1. ASSUME NEW q \in Peers, NEW t \in Threads,
               Call(q, t) \/ Begin(q, t) \/ Hand(q, t) \/ Undo(q, t)
        PROVE  UNCHANGED due
    BY <2>1 DEF Call, Begin, Hand, Undo, ownVars
  <2>2. ASSUME NEW q \in Peers, Reject(q) PROVE UNCHANGED due
    BY <2>2, RejectFacts DEF ownVars
  <2>3. ASSUME NEW q \in Peers, Accept(q)
        PROVE  UNCHANGED due \/ \E t \in Threads : Return(q, t)
    <3>1. chain[q] # <<>>
      BY <2>3 DEF Accept, Turn
    <3>2. Head(chain[q]).by \in Threads
      BY <3>1, HeadFacts
    <3> QED
      BY <2>3, <3>2, AcceptFacts DEF ownVars
  <2>4. ASSUME NEW q \in Peers, NEW t \in Threads, TimeOut(q, t) PROVE Return(q, t)
    BY <2>4 DEF TimeOut
  <2>5. ASSUME NEW q \in Peers, App(q) \/ UNCHANGED vars PROVE UNCHANGED due
    BY <2>5, AppFacts DEF ownVars
  <2>6. UNCHANGED vars => UNCHANGED due
    BY DEF vars, ownVars
  <2> QED
    BY <2>1, <2>2, <2>3, <2>4, <2>5, <2>6, NextCases
<1> QED
  BY <1>1, <1>2, <1>3 DEF TypeOK

\* A peer without settings records nothing.
LEMMA StateKept ==
    ASSUME IInv, [Next]_vars, NEW p \in Peers, p \notin TakesPart
    PROVE  state'[p] = state[p]
<1> USE DEF ownVars
<1>0. TypeOK /\ \A t \in Threads : at[p][t] # "undo"
  BY DEF IInv, LockInv
<1>1. ASSUME NEW q \in Peers, NEW t \in Threads,
             Call(q, t) \/ Begin(q, t) \/ Hand(q, t) \/ TimeOut(q, t) \/ Undo(q, t)
      PROVE  state'[p] = state[p]
  <2>1. CASE Begin(q, t)
    BY <1>0, <2>1 DEF Begin, TypeOK
  <2>2. CASE Undo(q, t)
    BY <1>0, <2>2 DEF Undo, TypeOK
  <2>3. CASE Call(q, t) \/ Hand(q, t) \/ TimeOut(q, t)
    BY <2>3 DEF Call, Hand, TimeOut, Return
  <2> QED
    BY <1>1, <2>1, <2>2, <2>3
<1>2. ASSUME NEW q \in Peers, Accept(q) \/ Reject(q) PROVE state'[p] = state[p]
  BY <1>2, AcceptFacts, RejectFacts DEF Return
<1>3. ASSUME NEW q \in Peers, App(q) PROVE state'[p] = state[p]
  BY <1>3, AppFacts
<1> QED
  BY <1>1, <1>2, <1>3, NextCases DEF vars

\* The part of SettledInv that is about one peer.
SettledAt(p) ==
    /\ up[p] => due[p].settled
    /\ \A i \in DOMAIN chain[p] :
          chain[p][i].late /\ chain[p][i].desc.kind = "answer" => due[p].settled
    /\ \A c \in Channels : decided[p][c] # "no" => up[p]

LEMMA SettledStep ==
    ASSUME IInv, SettledInv, "pranswer" \notin Kinds, [Next]_vars
    PROVE  SettledInv'
<1> USE DEF ownVars, threadVars
<1>0. TypeOK /\ TakesPart' = TakesPart
  BY ModeStep DEF IInv
<1>a. TakesPart \subseteq Peers
  BY <1>0 DEF TypeOK, Mode, TakesPart
<1> SUFFICES ASSUME NEW p \in TakesPart PROVE SettledAt(p)'
  BY <1>0 DEF SettledInv, SettledAt
<1>b. p \in Peers /\ SettledAt(p)
  BY <1>a DEF SettledInv, SettledAt
<1>c. due[p].settled => due'[p].settled
  BY <1>b, DueFacts
<1>1. ASSUME UNCHANGED <<up, decided>>,
             \A i \in DOMAIN chain'[p] : chain'[p][i].late =>
                \E j \in DOMAIN chain[p] : chain[p][j].late /\ chain'[p][i].desc = chain[p][j].desc
      PROVE  SettledAt(p)'
  BY <1>b, <1>c, <1>1 DEF SettledAt
<1>2. ASSUME UNCHANGED <<up, decided>>, chain'[p] = chain[p] PROVE SettledAt(p)'
  BY <1>1, <1>2
<1>3. CASE UNCHANGED vars
  BY <1>2, <1>3 DEF vars, nativeVars
<1>4. ASSUME NEW q \in Peers, App(q) PROVE SettledAt(p)'
  <2>1. UNCHANGED <<up, chain>>
    BY <1>4, AppFacts DEF nativeVars
  <2>2. ASSUME NEW c \in Channels, decided'[p][c] # "no" PROVE up'[p]
    <3>1. decided[p][c] # "no" \/ up[p]
      <4>1. CASE UNCHANGED decided
        BY <2>2, <4>1
      <4>2. CASE \E d \in Channels : Decide(q, d)
        BY <1>0, <1>b, <2>2, <4>2 DEF Decide, TypeOK
      <4> QED
        BY <1>4, <4>1, <4>2 DEF App, CreateOffer, MakeAnswer, CreateAnswer
    <3> QED
      BY <1>b, <2>1, <2>2, <3>1 DEF SettledAt
  <2> QED
    BY <1>b, <1>c, <2>1, <2>2 DEF SettledAt
<1>5. ASSUME NEW q \in Peers, NEW t \in Threads, Call(q, t) \/ Begin(q, t) \/ Undo(q, t)
      PROVE  SettledAt(p)'
  <2>1. UNCHANGED <<up, decided, chain>>
    BY <1>5 DEF Call, Begin, Undo, nativeVars
  <2> QED
    BY <1>2, <2>1
<1>6. ASSUME NEW q \in Peers, NEW t \in Threads, Hand(q, t) PROVE SettledAt(p)'
  <2>1. UNCHANGED <<up, decided>> /\ at[q][t] = "call"
    BY <1>6 DEF Hand
  <2> DEFINE o == [desc |-> op[q][t], by |-> t, late |-> FALSE]
  <2>2. CASE UNCHANGED chain \/ q # p
    <3>1. chain'[p] = chain[p]
      BY <1>0, <1>6, <1>b, <2>2 DEF Hand, TypeOK
    <3> QED
      BY <1>2, <2>1, <3>1
  <2>3. CASE chain' = [chain EXCEPT ![p] = Append(@, o)] /\ q = p
    <3>1. op[p][t] \in Description
      BY <2>1, <2>3 DEF IInv, HandInv
    <3>2. o \in Op /\ ~o.late
      BY <2>3, <3>1 DEF Op
    <3> HIDE DEF o
    <3>3. chain[p] \in Seq(Op) /\ chain'[p] = Append(chain[p], o)
      BY <1>0, <1>b, <2>3 DEF TypeOK
    <3>4. \A i \in DOMAIN Append(chain[p], o) :
             \/ i \in DOMAIN chain[p] /\ Append(chain[p], o)[i] = chain[p][i]
             \/ i = Len(chain[p]) + 1 /\ Append(chain[p], o)[i] = o
      BY <3>2, <3>3, AppendFacts
    <3> QED
      BY <1>1, <2>1, <3>2, <3>3, <3>4
  <2> QED
    BY <1>6, <2>2, <2>3 DEF Hand
<1>7. ASSUME NEW q \in Peers, NEW t \in Threads, TimeOut(q, t) PROVE SettledAt(p)'
  <2>1. UNCHANGED <<up, decided>> /\ at[q][t] = "native" /\ Return(q, t)
    BY <1>7 DEF TimeOut
  <2>2. CASE q # p
    <3>1. chain'[p] = chain[p]
      BY <1>0, <1>7, <1>b, <2>2 DEF TimeOut, TypeOK
    <3> QED
      BY <1>2, <2>1, <3>1
  <2>3. CASE q = p
    <3> DEFINE s == chain[p]
    <3>1. s \in Seq(Op) /\ chain'[p] = MarkedLate(s, t)
      BY <1>0, <1>7, <1>b, <2>3 DEF TypeOK, TimeOut, MarkedLate
    <3>2. /\ DOMAIN MarkedLate(s, t) = DOMAIN s
          /\ \A i \in DOMAIN s : /\ MarkedLate(s, t)[i].desc = s[i].desc
                                 /\ MarkedLate(s, t)[i].late <=> s[i].late \/ s[i].by = t
      BY <3>1, LateFacts
    <3>3. due'[p] = Record(p, due[p], op[p][t])
      BY <1>0, <1>b, <2>1, <2>3 DEF TypeOK, Return
    <3>4. due[p] \in NegotiationState /\ op[p][t] \in Description \cup {NoDescription}
      BY <1>0, <1>b DEF TypeOK
    <3>5. op[p][t].kind = "answer" => due'[p].settled
      BY <3>3, <3>4, RecordFacts
    <3>6. ASSUME NEW i \in DOMAIN s, s[i].late \/ s[i].by = t, s[i].desc.kind = "answer"
          PROVE  due'[p].settled
      <4>1. CASE s[i].late
        BY <1>b, <1>c, <3>6, <4>1 DEF SettledAt
      <4>2. CASE ~s[i].late /\ s[i].by = t
        <5>1. op[p][t] = s[i].desc
          BY <1>b, <3>6, <4>2 DEF IInv, ChainInv
        <5> QED
          BY <3>5, <3>6, <5>1
      <4> QED
        BY <3>6, <4>1, <4>2
    <3>7. \A i \in DOMAIN chain'[p] :
             chain'[p][i].late /\ chain'[p][i].desc.kind = "answer" => due'[p].settled
      BY <3>1, <3>2, <3>6
    <3> QED
      BY <1>b, <1>c, <2>1, <3>7 DEF SettledAt
  <2> QED
    BY <2>2, <2>3
<1>8. ASSUME NEW q \in Peers, Accept(q) \/ Reject(q) PROVE SettledAt(p)'
  <2> DEFINE s == chain[q]
             o == Head(s)
  <2>1. chain[q] # <<>> /\ chain' = [chain EXCEPT ![q] = Tail(@)] /\ UNCHANGED decided
    BY <1>8 DEF Accept, Reject, Turn
  <2>2. q # p => chain'[p] = chain[p] /\ up'[p] = up[p]
    BY <1>0, <1>8, <1>b, <2>1 DEF TypeOK, Accept, Reject
  <2>3. CASE q # p
    BY <1>b, <1>c, <2>1, <2>2, <2>3 DEF SettledAt
  <2>4. CASE q = p
    <3>1. s \in Seq(Op) /\ chain'[p] = Tail(s)
      BY <1>0, <1>b, <2>1, <2>4 DEF TypeOK
    <3>2. /\ 1 \in DOMAIN s /\ o = s[1]
          /\ \A i \in DOMAIN Tail(s) : i + 1 \in DOMAIN s /\ Tail(s)[i] = s[i + 1]
      BY <2>1, <3>1, TailFacts
    <3>3. \A i \in DOMAIN chain'[p] : chain'[p][i].late =>
             \E j \in DOMAIN chain[p] : chain[p][j].late /\ chain'[p][i].desc = chain[p][j].desc
      BY <2>4, <3>1, <3>2
    <3>4. CASE UNCHANGED up
      BY <1>1, <2>1, <3>3, <3>4
    <3>5. CASE Accept(p)
      <4>1. up'[p] = (up[p] \/ o.desc.kind \in {"answer", "pranswer"})
        BY <1>0, <1>b, <2>4, <3>5 DEF Accept, TypeOK
      <4>2. o.desc.kind # "pranswer"
        BY <1>b, <2>4, <3>2 DEF IInv, KindInv
      <4>3. ASSUME o.desc.kind = "answer" PROVE due'[p].settled
        <5>1. CASE o.late
          BY <1>b, <1>c, <2>4, <3>2, <4>3, <5>1 DEF SettledAt
        <5>2. CASE ~o.late
          <6>1. Return(p, o.by) /\ o.by \in Threads /\ op[p][o.by] = o.desc
            BY <1>b, <2>1, <2>4, <3>5, <5>2, AcceptFacts, HeadFacts
          <6> HIDE DEF o, s
          <6>2. due'[p] = Record(p, due[p], op[p][o.by])
            BY <1>0, <1>b, <6>1 DEF TypeOK, Return
          <6>3. due[p] \in NegotiationState /\ op[p][o.by] \in Description \cup {NoDescription}
            BY <1>0, <1>b, <6>1 DEF TypeOK
          <6> QED
            BY <4>3, <6>1, <6>2, <6>3, RecordFacts
        <5> QED
          BY <5>1, <5>2
      <4>4. up'[p] => due'[p].settled
        BY <1>b, <1>c, <4>1, <4>2, <4>3 DEF SettledAt
      <4>5. \A i \in DOMAIN chain'[p] :
               chain'[p][i].late /\ chain'[p][i].desc.kind = "answer" => due'[p].settled
        BY <1>b, <1>c, <3>3 DEF SettledAt
      <4>6. \A c \in Channels : decided'[p][c] # "no" => up'[p]
        BY <1>b, <2>1, <4>1 DEF SettledAt
      <4> QED
        BY <4>4, <4>5, <4>6 DEF SettledAt
    <3> QED
      BY <1>8, <2>4, <3>4, <3>5 DEF Reject
  <2> QED
    BY <2>3, <2>4
<1> QED
  BY <1>3, <1>4, <1>5, <1>6, <1>7, <1>8, NextCases

-----------------------------------------------------------------------------
(* The theorems.                                                           *)

LEMMA Inductive == Spec => []IInv
<1>1. IInv /\ [Next]_vars => IInv'
  BY TypeStep, LockStep, HandStep, ChainStep, DueStep, KindStep DEF IInv
<1> QED
  BY <1>1, InitInv, PTL DEF Spec

\* Whatever the two peers apply, in any order and from any thread, every
\* variable keeps to the values the code's types allow it.
THEOREM TypeCorrect == Spec => []TypeOK
<1>1. IInv => TypeOK
  BY DEF IInv
<1> QED
  BY <1>1, Inductive, PTL

\* apply and its undo: between two applies of a peer its state is what the
\* descriptions that were not refused in time make of it, however many threads
\* apply them and whatever timed out in between.
THEOREM NoTraceOfRefused == Spec => []RefusedLeavesNoTrace
<1>1. IInv => RefusedLeavesNoTrace
  BY DEF IInv, DueInv, RefusedLeavesNoTrace
<1> QED
  BY <1>1, Inductive, PTL

\* The applications of this mode use no provisional answers.
NoProvisional == \A m \in Modes : "pranswer" \notin m.kinds

LEMMA SettledInductive == ASSUME NoProvisional PROVE Spec => []SettledInv
<1>1. Init => SettledInv
  <2> SUFFICES ASSUME Init PROVE SettledInv
    OBVIOUS
  <2>1. TakesPart \subseteq Peers
    BY ModesAssumption DEF Init, Mode, TakesPart
  <2>2. \A p \in TakesPart : ~up[p] /\ chain[p] = <<>> /\ \A c \in Channels : decided[p][c] = "no"
    BY <2>1 DEF Init
  <2> QED
    BY <2>2 DEF SettledInv
<1>2. IInv => "pranswer" \notin Kinds
  BY DEF IInv, KindInv, NoProvisional, Kinds
<1>3. IInv /\ SettledInv /\ [Next]_vars => SettledInv'
  BY <1>2, SettledStep
<1> QED
  BY <1>1, <1>3, Inductive, PTL DEF Spec

\* The record comes before the native apply: where the applications use no
\* provisional answer (which brings the association up and settles nothing), a
\* peer that takes part has settled by the time libwebrtc has applied an answer,
\* one whose apply had timed out included.
THEOREM RecordedFirst == ASSUME NoProvisional PROVE Spec => []RecordedBeforeFlowing
<1>1. IInv /\ SettledInv => RecordedBeforeFlowing
  <2> SUFFICES ASSUME IInv, SettledInv, NEW p \in TakesPart, up[p] PROVE state[p].settled
    BY DEF RecordedBeforeFlowing
  <2>1. p \in Peers
    BY DEF IInv, TypeOK, Mode, TakesPart
  <2> QED
    BY <2>1 DEF IInv, DueInv, SettledInv
<1> QED
  BY <1>1, Inductive, SettledInductive, PTL

\* Under the same condition the decision of the first channel binds the others:
\* from then on no description moves what a channel decides by, and neither does
\* the undo of a refused one.
THEOREM DecidedForGood == ASSUME NoProvisional PROVE Spec => FixedOnceDecided
<1>1. ASSUME IInv, SettledInv, IInv', [Next]_vars
      PROVE  [\A p \in Peers : (\E c \in Channels : decided[p][c] # "no")
                 => state'[p].remote = state[p].remote]_vars
  <2> SUFFICES ASSUME NEW p \in Peers, NEW c \in Channels, decided[p][c] # "no"
               PROVE  state'[p].remote = state[p].remote
    OBVIOUS
  <2>1. CASE p \in TakesPart
    <3>1. due[p].settled
      BY <1>1, <2>1 DEF SettledInv
    <3>2. due'[p].settled /\ due'[p].remote = due[p].remote
      BY <1>1, <3>1, DueFacts
    <3>3. state[p].remote = due[p].remote
      BY <1>1, <3>1 DEF IInv, DueInv
    <3>4. state'[p].remote = due'[p].remote
      BY <1>1, <3>2 DEF IInv, DueInv
    <3> QED
      BY <3>2, <3>3, <3>4
  <2>2. CASE p \notin TakesPart
    BY <1>1, <2>2, StateKept
  <2> QED
    BY <2>1, <2>2
<1> QED
  BY <1>1, Inductive, SettledInductive, PTL DEF Spec, FixedOnceDecided

-----------------------------------------------------------------------------
(* Agreement of the two peers: the inductive invariant.                     *)

\* A description is a rollback, or one its peer has made.
Said(d) == (d.kind = "rollback" /\ ~d.declares) \/ d \in made[d.by]

SaidInv ==
    /\ \A p \in Peers : \A d \in made[p] :
          /\ d.by = p /\ d.kind # "rollback"
          /\ d.kind = "offer" => d.declares = (p \in TakesPart)
    /\ \A d \in sent : Said(d)
    /\ \A p \in Peers :
          /\ \A t \in Threads : op[p][t] # NoDescription => Said(op[p][t])
          /\ \A i \in DOMAIN chain[p] : Said(chain[p][i].desc)

\* Where no other peer takes part nothing is declared to a peer,
OthersTakePart(q) == \E r \in Peers \ {q} : r \in TakesPart

PlainInv ==
    \A q \in Peers : ~OthersTakePart(q) =>
        /\ ~state[q].pending /\ ~due[q].pending
        /\ \A t \in Threads : ~before[q][t].pending

\* and it answers so; a round settles as chunked only after an answer that declares.
AnswerInv ==
    /\ \A q \in Peers : \A d \in made[q] :
          d.kind = "answer" /\ d.declares => q \in TakesPart /\ OthersTakePart(q)
    /\ \A p \in Peers : due[p].remote =>
          \E q \in Peers : \E d \in made[q] : d.kind = "answer" /\ d.declares

\* What a channel has decided is what its peer still says.
DecidedInv ==
    \A p \in Peers, c \in Channels : decided[p][c] # "no" =>
        /\ \A q \in Peers : up[q]
        /\ decided[p][c] = IF p \in TakesPart /\ state[p].remote THEN "chunked" ELSE "plain"

\* Of libwebrtc's operations only the last may be in time, and the thread that
\* waits waits for it.
LastAt(p) ==
    /\ \A i \in DOMAIN chain[p] : ~chain[p][i].late => i = Len(chain[p])
    /\ \A t \in Threads : at[p][t] = "native" =>
          \E i \in DOMAIN chain[p] : ~chain[p][i].late /\ chain[p][i].by = t

LastInv == \A p \in TakesPart : LastAt(p)

-----------------------------------------------------------------------------
(* What a step makes of descriptions and records.                           *)

\* Descriptions come from their peers' calls and go on from there.
LEMMA MadeFacts ==
    ASSUME IInv, [Next]_vars
    PROVE  \/ UNCHANGED made
           \/ \E p \in Peers : \E d \in Description :
                 /\ made' = [made EXCEPT ![p] = @ \cup {d}]
                 /\ d.by = p /\ d.kind # "rollback"
                 /\ d.kind = "offer" => d.declares = (p \in TakesPart)
                 /\ d.kind # "offer" => d.declares = (p \in TakesPart /\ state[p].pending)
<1>0. TypeOK
  BY DEF IInv
<1>1. ASSUME NEW p \in Peers, CreateOffer(p)
      PROVE  \E d \in Description :
                 /\ made' = [made EXCEPT ![p] = @ \cup {d}]
                 /\ d.by = p /\ d.kind = "offer" /\ d.declares = (p \in TakesPart)
  <2> DEFINE d == [kind |-> "offer", by |-> p, declares |-> p \in TakesPart]
  <2>1. d \in Description /\ d.by = p /\ d.kind = "offer" /\ d.declares = (p \in TakesPart)
    BY DEF Description, SdpTypes
  <2>2. made' = [made EXCEPT ![p] = @ \cup {d}]
    BY <1>1 DEF CreateOffer
  <2> HIDE DEF d
  <2> QED
    BY <2>1, <2>2
<1>2. ASSUME NEW p \in Peers, NEW kind \in {"answer", "pranswer"}, CreateAnswer(p, kind)
      PROVE  \E d \in Description :
                 /\ made' = [made EXCEPT ![p] = @ \cup {d}]
                 /\ d.by = p /\ d.kind = kind
                 /\ d.declares = (p \in TakesPart /\ state[p].pending)
  <2> DEFINE d == [kind |-> kind, by |-> p, declares |-> p \in TakesPart /\ state[p].pending]
  <2>1. (p \in TakesPart /\ state[p].pending) \in BOOLEAN
    OBVIOUS
  <2>2. d \in Description /\ d.by = p /\ d.kind = kind
        /\ d.declares = (p \in TakesPart /\ state[p].pending)
    BY <2>1 DEF Description, SdpTypes
  <2>3. made' = [made EXCEPT ![p] = @ \cup {d}]
    BY <1>2 DEF CreateAnswer
  <2> HIDE DEF d
  <2> QED
    BY <2>2, <2>3
<1>3. ASSUME NEW p \in Peers, NEW t \in Threads,
             Call(p, t) \/ Begin(p, t) \/ Hand(p, t) \/ TimeOut(p, t) \/ Undo(p, t)
      PROVE  UNCHANGED made
  BY <1>3 DEF Call, Begin, Hand, TimeOut, Undo, appVars
<1>4. ASSUME NEW p \in Peers, Accept(p) \/ Reject(p) PROVE UNCHANGED made
  BY <1>4 DEF Accept, Reject, appVars
<1>5. ASSUME NEW p \in Peers, App(p)
      PROVE  \/ UNCHANGED made
             \/ CreateOffer(p) \/ \E kind \in {"answer", "pranswer"} : CreateAnswer(p, kind)
  BY <1>5 DEF App, MakeAnswer, Decide, appVars
<1>6. UNCHANGED vars => UNCHANGED made
  BY DEF vars, appVars
<1>7. ASSUME NEW p \in Peers, CreateOffer(p) \/ \E kind \in {"answer", "pranswer"} : CreateAnswer(p, kind)
      PROVE  \E d \in Description :
                 /\ made' = [made EXCEPT ![p] = @ \cup {d}]
                 /\ d.by = p /\ d.kind # "rollback"
                 /\ d.kind = "offer" => d.declares = (p \in TakesPart)
                 /\ d.kind # "offer" => d.declares = (p \in TakesPart /\ state[p].pending)
  BY <1>1, <1>2, <1>7
<1> QED
  BY <1>3, <1>4, <1>5, <1>6, <1>7, NextCases

LEMMA MadeGrows ==
    ASSUME IInv, [Next]_vars, NEW q \in Peers
    PROVE  made[q] \subseteq made'[q]
<1>1. made \in [Peers -> SUBSET Description]
  BY DEF IInv, TypeOK
<1> QED
  BY <1>1, MadeFacts

\* Where a thread's description, libwebrtc's and those the signalling carries come from.
LEMMA Passed ==
    ASSUME IInv, [Next]_vars
    PROVE  /\ \A q \in Peers : \A u \in Threads :
                 op'[q][u] \in {NoDescription, op[q][u]} \cup Descriptions(q)
           /\ \A q \in Peers : \A i \in DOMAIN chain'[q] :
                 \/ \E j \in DOMAIN chain[q] : chain'[q][i].desc = chain[q][j].desc
                 \/ \E u \in Threads : /\ op[q][u] # NoDescription
                                       /\ chain'[q][i].desc = op[q][u]
           /\ \A d \in sent' :
                 d \in sent \/ \E q \in Peers : \E j \in DOMAIN chain[q] : d = chain[q][j].desc
<1> USE DEF ownVars, threadVars, nativeVars, appVars
<1>0. TypeOK /\ HandInv
  BY DEF IInv
<1>t. op \in [Peers -> [Threads -> Description \cup {NoDescription}]]
  BY <1>0 DEF TypeOK
<1>1. ASSUME UNCHANGED <<op, chain, sent>>
      PROVE  /\ \A q \in Peers : \A u \in Threads :
                   op'[q][u] \in {NoDescription, op[q][u]} \cup Descriptions(q)
             /\ \A q \in Peers : \A i \in DOMAIN chain'[q] :
                   \E j \in DOMAIN chain[q] : chain'[q][i].desc = chain[q][j].desc
             /\ sent' = sent
  BY <1>1
<1>2. ASSUME NEW p \in Peers, NEW t \in Threads, op' = [op EXCEPT ![p][t] = NoDescription]
      PROVE  \A q \in Peers : \A u \in Threads : op'[q][u] \in {NoDescription, op[q][u]}
  BY <1>2, <1>t
<1>3. ASSUME NEW p \in Peers, App(p) PROVE UNCHANGED <<op, chain, sent>>
  BY <1>3, AppFacts
<1>4. ASSUME NEW p \in Peers, NEW t \in Threads, Begin(p, t) \/ Undo(p, t)
      PROVE  UNCHANGED <<op, chain, sent>>
  BY <1>4 DEF Begin, Undo
<1>5. ASSUME NEW p \in Peers, NEW t \in Threads, Call(p, t)
      PROVE  /\ \A q \in Peers : \A u \in Threads :
                   op'[q][u] \in {NoDescription, op[q][u]} \cup Descriptions(q)
             /\ UNCHANGED <<chain, sent>>
  BY <1>5, <1>t DEF Call
<1>6. ASSUME NEW p \in Peers, NEW t \in Threads, Hand(p, t)
      PROVE  /\ UNCHANGED sent /\ \A q \in Peers : \A u \in Threads : op'[q][u] \in {NoDescription, op[q][u]}
             /\ \A q \in Peers : \A i \in DOMAIN chain'[q] :
                   \/ \E j \in DOMAIN chain[q] : chain'[q][i].desc = chain[q][j].desc
                   \/ \E u \in Threads : /\ op[q][u] # NoDescription
                                         /\ chain'[q][i].desc = op[q][u]
  <2>1. UNCHANGED sent /\ at[p][t] = "call"
    BY <1>6 DEF Hand
  <2>2. CASE Refused(p, t) /\ UNCHANGED chain
    BY <1>2, <2>1, <2>2 DEF Refused
  <2>3. CASE /\ chain' = [chain EXCEPT ![p] =
                             Append(@, [desc |-> op[p][t], by |-> t, late |-> FALSE])]
             /\ UNCHANGED op
    <3> DEFINE o == [desc |-> op[p][t], by |-> t, late |-> FALSE]
    <3>1. op[p][t] \in Description
      BY <1>0, <2>1 DEF HandInv
    <3>2. op[p][t] # NoDescription
      BY <3>1 DEF NoDescription, Description, SdpTypes
    <3>3. o \in Op /\ o.desc = op[p][t]
      BY <3>1 DEF Op
    <3> HIDE DEF o
    <3>4. chain[p] \in Seq(Op) /\ chain'[p] = Append(chain[p], o)
          /\ \A q \in Peers : q # p => chain'[q] = chain[q]
      BY <1>0, <2>3 DEF TypeOK, o
    <3>5. \A i \in DOMAIN Append(chain[p], o) :
             \/ i \in DOMAIN chain[p] /\ Append(chain[p], o)[i] = chain[p][i]
             \/ i = Len(chain[p]) + 1 /\ Append(chain[p], o)[i] = o
      BY <3>3, <3>4, AppendFacts
    <3> QED
      BY <2>1, <2>3, <3>2, <3>3, <3>4, <3>5
  <2> QED
    BY <1>6, <2>2, <2>3 DEF Hand
<1>7. ASSUME NEW p \in Peers, NEW t \in Threads, TimeOut(p, t)
      PROVE  /\ UNCHANGED sent /\ \A q \in Peers : \A u \in Threads : op'[q][u] \in {NoDescription, op[q][u]}
             /\ \A q \in Peers : \A i \in DOMAIN chain'[q] :
                   \E j \in DOMAIN chain[q] : chain'[q][i].desc = chain[q][j].desc
  <2>1. chain[p] \in Seq(Op) /\ chain' = [chain EXCEPT ![p] = MarkedLate(chain[p], t)]
    BY <1>0, <1>7 DEF TypeOK, TimeOut, MarkedLate
  <2>2. /\ DOMAIN MarkedLate(chain[p], t) = DOMAIN chain[p]
        /\ \A i \in DOMAIN chain[p] : MarkedLate(chain[p], t)[i].desc = chain[p][i].desc
    BY <2>1, LateFacts
  <2>3. UNCHANGED sent /\ op' = [op EXCEPT ![p][t] = NoDescription]
    BY <1>7 DEF TimeOut, Return
  <2>4. chain'[p] = MarkedLate(chain[p], t) /\ \A q \in Peers : q # p => chain'[q] = chain[q]
    BY <1>0, <2>1 DEF TypeOK
  <2> QED
    BY <1>2, <2>2, <2>3, <2>4
<1>8. ASSUME NEW p \in Peers, Accept(p) \/ Reject(p)
      PROVE  /\ \A q \in Peers : \A u \in Threads : op'[q][u] \in {NoDescription, op[q][u]}
             /\ \A q \in Peers : \A i \in DOMAIN chain'[q] :
                   \E j \in DOMAIN chain[q] : chain'[q][i].desc = chain[q][j].desc
             /\ \A d \in sent' : d \in sent \/ \E j \in DOMAIN chain[p] : d = chain[p][j].desc
  <2> DEFINE o == Head(chain[p])
  <2>1. chain[p] # <<>> /\ chain' = [chain EXCEPT ![p] = Tail(@)] /\ chain[p] \in Seq(Op)
    BY <1>0, <1>8 DEF Accept, Reject, Turn, TypeOK
  <2>2. o.by \in Threads
    BY <2>1, HeadFacts
  <2>3. /\ 1 \in DOMAIN chain[p] /\ o = chain[p][1]
        /\ \A i \in DOMAIN Tail(chain[p]) : i + 1 \in DOMAIN chain[p]
                                            /\ Tail(chain[p])[i] = chain[p][i + 1]
    BY <2>1, TailFacts
  <2>4. sent' = sent \/ sent' = sent \cup {o.desc}
    BY <1>8 DEF Accept, Reject
  <2>5. op' = [op EXCEPT ![p][o.by] = NoDescription] \/ UNCHANGED op
    BY <1>8 DEF Accept, Reject, Return, Refused
  <2> HIDE DEF o
  <2>6. chain'[p] = Tail(chain[p]) /\ \A q \in Peers : q # p => chain'[q] = chain[q]
    BY <1>0, <2>1 DEF TypeOK
  <2>7. \A q \in Peers : \A u \in Threads : op'[q][u] \in {NoDescription, op[q][u]}
    BY <1>2, <2>2, <2>5
  <2>8. \A q \in Peers : \A i \in DOMAIN chain'[q] :
           \E j \in DOMAIN chain[q] : chain'[q][i].desc = chain[q][j].desc
    BY <2>3, <2>6
  <2>9. \A d \in sent' : d \in sent \/ \E j \in DOMAIN chain[p] : d = chain[p][j].desc
    BY <2>3, <2>4
  <2> QED
    BY <2>7, <2>8, <2>9
<1>9. UNCHANGED vars => UNCHANGED <<op, chain, sent>>
  BY DEF vars
<1> QED
  BY <1>1, <1>3, <1>4, <1>5, <1>6, <1>7, <1>8, <1>9, NextCases

-----------------------------------------------------------------------------
(* What a step makes of libwebrtc's operations at a peer.                   *)

StaysAt(q) ==
    /\ chain'[q] = chain[q] /\ signaling'[q] = signaling[q]
    /\ up'[q] = up[q] /\ due'[q] = due[q]
    /\ \A u \in Threads : at'[q][u] = "native" => at[q][u] = "native"

HandedAt(q, t) ==
    /\ at[q][t] = "call" /\ op[q][t] \in Description
    /\ chain'[q] = Append(chain[q], [desc |-> op[q][t], by |-> t, late |-> FALSE])
    /\ signaling'[q] = signaling[q] /\ up'[q] = up[q] /\ due'[q] = due[q]
    /\ \A u \in Threads : u # t /\ at'[q][u] = "native" => at[q][u] = "native"

TimedOutAt(q, t) ==
    /\ at[q][t] = "native"
    /\ chain'[q] = MarkedLate(chain[q], t)
    /\ signaling'[q] = signaling[q] /\ up'[q] = up[q]
    /\ due'[q] = IF q \in TakesPart THEN Record(q, due[q], op[q][t]) ELSE due[q]
    /\ \A u \in Threads : at'[q][u] = "native" => u # t /\ at[q][u] = "native"

\* libwebrtc's part of an operation that it ends.
EndsWith(q, d, taken) ==
    \/ /\ taken
       /\ After(signaling[q], d.by = q, d.kind) # "invalid"
       /\ signaling'[q] = After(signaling[q], d.by = q, d.kind)
       /\ up'[q] = (up[q] \/ d.kind \in {"answer", "pranswer"})
    \/ /\ ~taken
       /\ signaling'[q] = signaling[q] /\ up'[q] = up[q]

DoneAt(q, o, taken) ==
    /\ chain[q] # <<>> /\ o = Head(chain[q]) /\ chain'[q] = Tail(chain[q])
    /\ EndsWith(q, o.desc, taken)
    /\ o.late => /\ due'[q] = due[q]
                 /\ ~taken => o.desc.kind \in misled'
    /\ ~o.late => /\ due'[q] = IF q \in TakesPart /\ taken THEN Record(q, due[q], o.desc)
                                                           ELSE due[q]
                  /\ at[q][o.by] = "native" /\ at'[q][o.by] # "native"
    /\ \A u \in Threads : at'[q][u] = "native" => at[q][u] = "native"

LEMMA NativeMoves ==
    ASSUME IInv, [Next]_vars, NEW q \in Peers
    PROVE  \/ StaysAt(q)
           \/ \E t \in Threads : HandedAt(q, t) \/ TimedOutAt(q, t)
           \/ \E o \in Op : \E taken \in BOOLEAN : DoneAt(q, o, taken)
<1> USE DEF ownVars, threadVars, nativeVars, appVars
<1>0. TypeOK /\ HandInv
  BY DEF IInv
<1>1. ASSUME NEW p \in Peers, App(p) \/ UNCHANGED vars PROVE StaysAt(q)
  BY <1>1, AppFacts DEF StaysAt
<1>2. ASSUME NEW p \in Peers, NEW t \in Threads, Call(p, t) PROVE StaysAt(q)
  <2>1. /\ at' = [at EXCEPT ![p][t] = "wait"]
        /\ UNCHANGED <<chain, signaling, up, due>>
    BY <1>2 DEF Call
  <2> QED
    BY <1>0, <2>1 DEF StaysAt, TypeOK
<1>3. ASSUME NEW p \in Peers, NEW t \in Threads, Begin(p, t) PROVE StaysAt(q)
  <2>1. /\ at' = [at EXCEPT ![p][t] = "call"]
        /\ UNCHANGED <<chain, signaling, up, due>>
    BY <1>3 DEF Begin
  <2> QED
    BY <1>0, <2>1 DEF StaysAt, TypeOK
<1>4. ASSUME NEW p \in Peers, NEW t \in Threads, Undo(p, t) PROVE StaysAt(q)
  <2>1. /\ at' = [at EXCEPT ![p][t] = "idle"]
        /\ UNCHANGED <<chain, signaling, up, due>>
    BY <1>4 DEF Undo
  <2> QED
    BY <1>0, <2>1 DEF StaysAt, TypeOK
<1>5. ASSUME NEW p \in Peers, NEW t \in Threads, Refused(p, t)
      PROVE  /\ \A u \in Threads : at'[q][u] = "native" => at[q][u] = "native"
             /\ at'[p][t] # "native"
  BY <1>0, <1>5 DEF Refused, TypeOK
<1>6. ASSUME NEW p \in Peers, NEW t \in Threads, Hand(p, t) PROVE StaysAt(q) \/ HandedAt(q, t)
  <2>1. at[p][t] = "call" /\ UNCHANGED <<signaling, up, due>>
    BY <1>6 DEF Hand
  <2>2. CASE Refused(p, t) /\ UNCHANGED chain
    BY <1>5, <2>1, <2>2 DEF StaysAt
  <2>3. CASE /\ chain' = [chain EXCEPT ![p] =
                             Append(@, [desc |-> op[p][t], by |-> t, late |-> FALSE])]
             /\ at' = [at EXCEPT ![p][t] = "native"]
    <3>1. op[p][t] \in Description
      BY <1>0, <2>1 DEF HandInv
    <3>2. CASE q = p
      <4>1. chain'[q] = Append(chain[q], [desc |-> op[q][t], by |-> t, late |-> FALSE])
        BY <1>0, <2>3, <3>2 DEF TypeOK
      <4>2. \A u \in Threads : u # t => at'[q][u] = at[q][u]
        BY <1>0, <2>3, <3>2 DEF TypeOK
      <4> QED
        BY <2>1, <3>1, <3>2, <4>1, <4>2 DEF HandedAt
    <3>3. CASE q # p
      <4>1. chain'[q] = chain[q] /\ at'[q] = at[q]
        BY <1>0, <2>3, <3>3 DEF TypeOK
      <4> QED
        BY <2>1, <4>1 DEF StaysAt
    <3> QED
      BY <3>2, <3>3
  <2> QED
    BY <1>6, <2>2, <2>3 DEF Hand
<1>7. ASSUME NEW p \in Peers, NEW t \in Threads, Return(p, t)
      PROVE  /\ q # p => due'[q] = due[q]
             /\ q = p => due'[q] = IF q \in TakesPart THEN Record(q, due[q], op[q][t]) ELSE due[q]
             /\ \A u \in Threads : at'[q][u] = "native" => ~(q = p /\ u = t) /\ at[q][u] = "native"
  BY <1>0, <1>7 DEF Return, TypeOK
<1>8. ASSUME NEW p \in Peers, NEW t \in Threads, TimeOut(p, t) PROVE StaysAt(q) \/ TimedOutAt(q, t)
  <2>1. /\ at[p][t] = "native" /\ Return(p, t)
        /\ chain' = [chain EXCEPT ![p] = MarkedLate(chain[p], t)]
        /\ UNCHANGED <<signaling, up>>
    BY <1>8 DEF TimeOut, MarkedLate
  <2>2. CASE q = p
    <3>1. chain'[q] = MarkedLate(chain[q], t)
      BY <1>0, <2>1, <2>2 DEF TypeOK
    <3> QED
      BY <1>7, <2>1, <2>2, <3>1 DEF TimedOutAt
  <2>3. CASE q # p
    <3>1. chain'[q] = chain[q]
      BY <1>0, <2>1, <2>3 DEF TypeOK
    <3> QED
      BY <1>7, <2>1, <2>3, <3>1 DEF StaysAt
  <2> QED
    BY <2>2, <2>3
<1>9. ASSUME NEW p \in Peers, Accept(p)
      PROVE  StaysAt(q) \/ \E o \in Op : DoneAt(q, o, TRUE)
  <2> DEFINE o == Head(chain[p])
  <2>1. chain[p] # <<>> /\ chain' = [chain EXCEPT ![p] = Tail(@)]
    BY <1>9 DEF Accept, Turn
  <2>2. /\ o \in Op /\ o.by \in Threads
        /\ ~o.late => at[p][o.by] = "native" /\ op[p][o.by] = o.desc
    BY <2>1, HeadFacts
  <2>3. /\ After(signaling[p], o.desc.by = p, o.desc.kind) # "invalid"
        /\ signaling' = [signaling EXCEPT ![p] = After(signaling[p], o.desc.by = p, o.desc.kind)]
        /\ up' = [up EXCEPT ![p] = @ \/ o.desc.kind \in {"answer", "pranswer"}]
    BY <1>9 DEF Accept, HeadAfter
  <2>4. \/ ~o.late /\ Return(p, o.by)
        \/ o.late /\ UNCHANGED <<ownVars, threadVars>>
    BY <1>9, AcceptFacts
  <2> HIDE DEF o
  <2>5. CASE q # p
    <3>1. chain'[q] = chain[q] /\ signaling'[q] = signaling[q] /\ up'[q] = up[q]
      BY <1>0, <2>1, <2>3, <2>5 DEF TypeOK
    <3>2. due'[q] = due[q] /\ \A u \in Threads : at'[q][u] = "native" => at[q][u] = "native"
      BY <1>7, <2>2, <2>4, <2>5
    <3> QED
      BY <3>1, <3>2 DEF StaysAt
  <2>6. CASE q = p
    <3>1. chain[q] # <<>> /\ o = Head(chain[q]) /\ chain'[q] = Tail(chain[q])
      BY <1>0, <2>1, <2>6 DEF TypeOK, o
    <3>2. EndsWith(q, o.desc, TRUE)
      BY <1>0, <2>3, <2>6 DEF TypeOK, EndsWith
    <3>3. o.late => due'[q] = due[q]
      BY <2>4
    <3>4. ~o.late => /\ due'[q] = IF q \in TakesPart /\ TRUE THEN Record(q, due[q], o.desc) ELSE due[q]
                     /\ at[q][o.by] = "native" /\ at'[q][o.by] # "native"
      BY <1>7, <2>2, <2>4, <2>6
    <3>5. \A u \in Threads : at'[q][u] = "native" => at[q][u] = "native"
      BY <1>7, <2>2, <2>4, <2>6
    <3>6. DoneAt(q, o, TRUE)
      BY <3>1, <3>2, <3>3, <3>4, <3>5 DEF DoneAt
    <3> QED
      BY <2>2, <3>6
  <2> QED
    BY <2>5, <2>6
<1>10. ASSUME NEW p \in Peers, Reject(p)
       PROVE  StaysAt(q) \/ \E o \in Op : DoneAt(q, o, FALSE)
  <2> DEFINE o == Head(chain[p])
  <2>1. /\ chain[p] # <<>> /\ chain' = [chain EXCEPT ![p] = Tail(@)]
        /\ UNCHANGED <<signaling, up, due>>
    BY <1>10 DEF Reject, Turn
  <2>2. o \in Op /\ o.by \in Threads /\ (~o.late => at[p][o.by] = "native")
    BY <2>1, HeadFacts
  <2>3. \/ ~o.late /\ Refused(p, o.by)
        \/ o.late /\ misled' = misled \cup {o.desc.kind} /\ UNCHANGED threadVars
    BY <1>10 DEF Reject
  <2> HIDE DEF o
  <2>4. /\ \A u \in Threads : at'[q][u] = "native" => at[q][u] = "native"
        /\ ~o.late => at'[p][o.by] # "native"
    BY <1>5, <2>2, <2>3
  <2>5. CASE q # p
    <3>1. chain'[q] = chain[q]
      BY <1>0, <2>1, <2>5 DEF TypeOK
    <3> QED
      BY <2>1, <2>4, <3>1 DEF StaysAt
  <2>6. CASE q = p
    <3>1. chain[q] # <<>> /\ o = Head(chain[q]) /\ chain'[q] = Tail(chain[q])
      BY <1>0, <2>1, <2>6 DEF TypeOK, o
    <3>2. EndsWith(q, o.desc, FALSE)
      BY <2>1 DEF EndsWith
    <3>3. o.late => o.desc.kind \in misled'
      BY <2>3
    <3>4. DoneAt(q, o, FALSE)
      BY <2>1, <2>2, <2>4, <2>6, <3>1, <3>2, <3>3 DEF DoneAt
    <3> QED
      BY <2>2, <3>4
  <2> QED
    BY <2>5, <2>6
<1> QED
  BY <1>1, <1>2, <1>3, <1>4, <1>6, <1>8, <1>9, <1>10, NextCases

-----------------------------------------------------------------------------
(* Every step keeps the invariant.                                          *)

LEMMA SaidStep == ASSUME IInv, SaidInv, [Next]_vars PROVE SaidInv'
<1>0. TypeOK /\ TypeOK' /\ TakesPart' = TakesPart
  BY TypeStep, ModeStep DEF IInv
<1>1. \A p \in Peers : \A d \in made'[p] :
         /\ d.by = p /\ d.kind # "rollback"
         /\ d.kind = "offer" => d.declares = (p \in TakesPart)
  <2>1. CASE UNCHANGED made
    BY <2>1 DEF SaidInv
  <2>2. CASE ~UNCHANGED made
    <3>1. PICK p \in Peers, d \in Description :
                 /\ made' = [made EXCEPT ![p] = @ \cup {d}]
                 /\ d.by = p /\ d.kind # "rollback"
                 /\ d.kind = "offer" => d.declares = (p \in TakesPart)
      BY <2>2, MadeFacts
    <3>2. \A q \in Peers : \A e \in made'[q] : e \in made[q] \/ (q = p /\ e = d)
      BY <1>0, <3>1 DEF TypeOK
    <3> QED
      BY <3>1, <3>2 DEF SaidInv
  <2> QED
    BY <2>1, <2>2
<1>2. ASSUME NEW d \in Description, Said(d) PROVE Said(d)'
  <2>1. d.by \in Peers
    BY DEF Description
  <2> QED
    BY <1>2, <2>1, MadeGrows DEF Said
<1>3. ASSUME NEW q \in Peers, NEW i \in DOMAIN chain[q]
      PROVE  chain[q][i].desc \in Description /\ Said(chain[q][i].desc)
  <2>1. chain[q] \in Seq(Op)
    BY <1>0 DEF TypeOK
  <2> QED
    BY <2>1, OpFacts DEF SaidInv
<1>4. ASSUME NEW q \in Peers, NEW u \in Threads, op[q][u] # NoDescription
      PROVE  op[q][u] \in Description /\ Said(op[q][u])
  BY <1>0, <1>4 DEF TypeOK, SaidInv
<1>5. ASSUME NEW q \in Peers, NEW d \in Descriptions(q) PROVE d \in Description /\ Said(d)
  <2>1. CASE d \in sent
    BY <1>0, <2>1 DEF TypeOK, SaidInv
  <2>2. CASE d \in made[q]
    <3>1. d \in Description /\ d.by = q
      BY <1>0, <2>2 DEF TypeOK, SaidInv
    <3> QED
      BY <2>2, <3>1 DEF Said
  <2>3. CASE d \in [kind : {"rollback"} \cap Kinds, by : Peers, declares : {FALSE}]
    BY <2>3 DEF Said, Description, SdpTypes
  <2> QED
    BY <2>1, <2>2, <2>3 DEF Descriptions
<1>6. ASSUME NEW d \in sent' PROVE Said(d)'
  <2>1. d \in sent \/ \E q \in Peers : \E j \in DOMAIN chain[q] : d = chain[q][j].desc
    BY Passed
  <2>2. d \in sent => d \in Description /\ Said(d)
    BY <1>0 DEF TypeOK, SaidInv
  <2> QED
    BY <1>2, <1>3, <2>1, <2>2
<1>7. ASSUME NEW q \in Peers, NEW u \in Threads, op'[q][u] # NoDescription PROVE Said(op[q][u])'
  <2>1. op'[q][u] = op[q][u] \/ op'[q][u] \in Descriptions(q)
    BY <1>7, Passed
  <2>2. PICK d : d = op'[q][u]
    OBVIOUS
  <2>3. d \in Description /\ Said(d)
    BY <1>4, <1>5, <1>7, <2>1, <2>2
  <2>4. Said(d)'
    BY <1>2, <2>3
  <2> QED
    BY <2>2, <2>4
<1>8. ASSUME NEW q \in Peers, NEW i \in DOMAIN chain'[q] PROVE Said(chain[q][i].desc)'
  <2>1. \/ \E j \in DOMAIN chain[q] : chain'[q][i].desc = chain[q][j].desc
        \/ \E u \in Threads : op[q][u] # NoDescription /\ chain'[q][i].desc = op[q][u]
    BY <1>8, Passed
  <2>2. PICK d : d = chain'[q][i].desc
    OBVIOUS
  <2>3. d \in Description /\ Said(d)
    BY <1>3, <1>4, <2>1, <2>2
  <2>4. Said(d)'
    BY <1>2, <2>3
  <2> QED
    BY <2>2, <2>4
<1>9. NoDescription' = NoDescription
  BY DEF NoDescription
<1> QED
  BY <1>0, <1>1, <1>6, <1>7, <1>8, <1>9 DEF SaidInv

LEMMA LastStep == ASSUME IInv, LastInv, [Next]_vars PROVE LastInv'
<1>0. TypeOK /\ LockInv /\ ChainInv /\ TakesPart' = TakesPart
  BY ModeStep DEF IInv
<1> SUFFICES ASSUME NEW q \in TakesPart PROVE LastAt(q)'
  BY <1>0 DEF LastInv
<1>a. q \in Peers /\ LastAt(q) /\ chain[q] \in Seq(Op)
  BY <1>0 DEF LastInv, TypeOK, Mode, TakesPart
<1>b. ASSUME NEW t \in Threads, NEW u \in Threads, at[q][t] \in {"call", "native"}, at[q][u] = "native"
      PROVE  t = u
  BY <1>0, <1>a, <1>b DEF LockInv
\* With one thread in its call nothing but that thread's operation is in time.
<1>c. ASSUME NEW t \in Threads, at[q][t] \in {"call", "native"},
             NEW i \in DOMAIN chain[q], ~chain[q][i].late
      PROVE  chain[q][i].by = t /\ at[q][t] = "native"
  <2>1. chain[q][i].by \in Threads
    BY <1>a, OpFacts
  <2>2. at[q][chain[q][i].by] = "native"
    BY <1>0, <1>a, <1>c DEF ChainInv
  <2> QED
    BY <1>b, <1>c, <2>1, <2>2
<1>1. CASE StaysAt(q)
  BY <1>a, <1>1 DEF StaysAt, LastAt
<1>2. ASSUME NEW t \in Threads, HandedAt(q, t) PROVE LastAt(q)'
  <2> DEFINE o == [desc |-> op[q][t], by |-> t, late |-> FALSE]
  <2>1. o \in Op /\ o.by = t /\ ~o.late
    BY <1>2 DEF HandedAt, Op
  <2>2. chain'[q] = Append(chain[q], o) /\ at[q][t] = "call"
    BY <1>2 DEF HandedAt
  <2> HIDE DEF o
  <2>3. \A i \in DOMAIN chain[q] : chain[q][i].late
    BY <1>c, <2>2
  <2>4. \A u \in Threads : u # t => at'[q][u] # "native"
    BY <1>2, <1>b, <2>2 DEF HandedAt
  <2>5. /\ Len(Append(chain[q], o)) = Len(chain[q]) + 1
        /\ Len(chain[q]) + 1 \in DOMAIN Append(chain[q], o)
        /\ Append(chain[q], o)[Len(chain[q]) + 1] = o
    BY <1>a, <2>1
  <2>6. \A i \in DOMAIN Append(chain[q], o) :
             \/ i \in DOMAIN chain[q] /\ Append(chain[q], o)[i] = chain[q][i]
             \/ i = Len(chain[q]) + 1 /\ Append(chain[q], o)[i] = o
    BY <1>a, <2>1, AppendFacts
  <2>7. \A i \in DOMAIN chain'[q] : ~chain'[q][i].late => i = Len(chain'[q])
    BY <2>2, <2>3, <2>5, <2>6
  <2>8. \A u \in Threads : at'[q][u] = "native" =>
          \E i \in DOMAIN chain'[q] : ~chain'[q][i].late /\ chain'[q][i].by = u
    BY <2>1, <2>2, <2>4, <2>5
  <2> QED
    BY <2>7, <2>8 DEF LastAt
<1>3. ASSUME NEW t \in Threads, TimedOutAt(q, t) PROVE LastAt(q)'
  <2>1. at[q][t] = "native" /\ chain'[q] = MarkedLate(chain[q], t)
    BY <1>3 DEF TimedOutAt
  <2>2. \A i \in DOMAIN chain'[q] : chain'[q][i].late
    BY <1>a, <1>c, <2>1, LateFacts
  <2>3. \A u \in Threads : at'[q][u] # "native"
    BY <1>3, <1>b, <2>1 DEF TimedOutAt
  <2> QED
    BY <2>2, <2>3 DEF LastAt
<1>4. ASSUME NEW o \in Op, NEW taken \in BOOLEAN, DoneAt(q, o, taken) PROVE LastAt(q)'
  <2>1. chain[q] # <<>> /\ o = Head(chain[q]) /\ chain'[q] = Tail(chain[q])
    BY <1>4 DEF DoneAt
  <2>2. /\ 1 \in DOMAIN chain[q] /\ o = chain[q][1]
        /\ \A i \in DOMAIN Tail(chain[q]) : i + 1 \in DOMAIN chain[q]
                                            /\ Tail(chain[q])[i] = chain[q][i + 1]
    BY <1>a, <2>1, TailFacts
  <2>3. /\ Len(Tail(chain[q])) = Len(chain[q]) - 1 /\ Len(chain[q]) \in Nat
        /\ DOMAIN Tail(chain[q]) \subseteq Nat
        /\ \A i \in DOMAIN chain[q] : i \in Nat /\ (i # 1 => i - 1 \in DOMAIN Tail(chain[q]))
    BY <1>a, <2>1
  <2>4. \A i \in DOMAIN chain'[q] : ~chain'[q][i].late => i = Len(chain'[q])
    BY <1>a, <2>1, <2>2, <2>3 DEF LastAt
  <2>5. \A u \in Threads : at'[q][u] = "native" => at[q][u] = "native" /\ (~o.late => u # o.by)
    BY <1>4 DEF DoneAt
  <2>6. ASSUME NEW u \in Threads, at'[q][u] = "native"
        PROVE  \E i \in DOMAIN chain'[q] : ~chain'[q][i].late /\ chain'[q][i].by = u
    <3>1. PICK i \in DOMAIN chain[q] : ~chain[q][i].late /\ chain[q][i].by = u
      BY <1>a, <2>5, <2>6 DEF LastAt
    <3>2. i # 1
      BY <2>2, <2>5, <2>6, <3>1
    <3>3. i - 1 \in DOMAIN Tail(chain[q]) /\ (i - 1) + 1 = i
      BY <2>3, <3>1, <3>2
    <3>4. Tail(chain[q])[i - 1] = chain[q][i]
      BY <2>2, <3>3
    <3> QED
      BY <2>1, <3>1, <3>3, <3>4
  <2> QED
    BY <2>4, <2>6 DEF LastAt
<1> QED
  BY <1>a, <1>1, <1>2, <1>3, <1>4, NativeMoves

\* Where a peer's records come from: a thread records its description on top of
\* the state, and the history takes it when the apply returns.
LEMMA RecordMoves ==
    ASSUME IInv, [Next]_vars, NEW q \in Peers
    PROVE  /\ \/ state'[q] = state[q]
              \/ \E t \in Threads : state'[q] = before[q][t]
              \/ \E t \in Threads : /\ op[q][t] \in Description
                                    /\ state'[q] = Record(q, state[q], op[q][t])
           /\ \A t \in Threads : before'[q][t] = before[q][t] \/ before'[q][t] = state[q]
           /\ \/ due'[q] = due[q]
              \/ \E t \in Threads : /\ op[q][t] \in Description
                                    /\ due'[q] = Record(q, due[q], op[q][t])
<1> USE DEF ownVars, threadVars, nativeVars, appVars
<1>0. TypeOK /\ HandInv
  BY DEF IInv
<1>1. ASSUME UNCHANGED <<state, before, due>>
      PROVE  /\ state'[q] = state[q] /\ due'[q] = due[q]
             /\ \A t \in Threads : before'[q][t] = before[q][t]
  BY <1>1
<1>2. ASSUME NEW p \in Peers, App(p) \/ UNCHANGED vars PROVE UNCHANGED <<state, before, due>>
  BY <1>2, AppFacts
<1>3. ASSUME NEW p \in Peers, NEW t \in Threads, Call(p, t) \/ Hand(p, t)
      PROVE  UNCHANGED <<state, before, due>>
  BY <1>3 DEF Call, Hand
<1>4. ASSUME NEW p \in Peers, NEW t \in Threads, Begin(p, t)
      PROVE  /\ \/ state'[q] = state[q]
                \/ op[q][t] \in Description /\ state'[q] = Record(q, state[q], op[q][t])
             /\ \A u \in Threads : before'[q][u] = before[q][u] \/ before'[q][u] = state[q]
             /\ due'[q] = due[q]
  <2>1. op[p][t] \in Description /\ UNCHANGED due
    BY <1>0, <1>4 DEF Begin, HandInv
  <2>2. CASE UNCHANGED <<state, before>>
    BY <2>1, <2>2
  <2>3. CASE /\ state' = [state EXCEPT ![p] = Record(p, @, op[p][t])]
             /\ before' = [before EXCEPT ![p][t] = state[p]]
    BY <1>0, <2>1, <2>3 DEF TypeOK
  <2> QED
    BY <1>4, <2>2, <2>3 DEF Begin
<1>5. ASSUME NEW p \in Peers, NEW t \in Threads, Undo(p, t)
      PROVE  /\ state'[q] = state[q] \/ state'[q] = before[q][t]
             /\ UNCHANGED <<before, due>>
  BY <1>0, <1>5 DEF Undo, TypeOK
<1>6. ASSUME NEW p \in Peers, NEW t \in Threads, at[p][t] = "native", Return(p, t)
      PROVE  /\ UNCHANGED <<state, before>>
             /\ \/ due'[q] = due[q]
                \/ op[q][t] \in Description /\ due'[q] = Record(q, due[q], op[q][t])
  <2>1. op[p][t] \in Description
    BY <1>0, <1>6 DEF HandInv
  <2> QED
    BY <1>0, <1>6, <2>1 DEF Return, TypeOK
<1>7. ASSUME NEW p \in Peers, NEW t \in Threads, TimeOut(p, t)
      PROVE  at[p][t] = "native" /\ Return(p, t)
  BY <1>7 DEF TimeOut
<1>8. ASSUME NEW p \in Peers, Accept(p)
      PROVE  \/ UNCHANGED <<state, before, due>>
             \/ \E t \in Threads : at[p][t] = "native" /\ Return(p, t)
  <2>1. chain[p] # <<>>
    BY <1>8 DEF Accept, Turn
  <2> QED
    BY <1>8, <2>1, AcceptFacts, HeadFacts
<1>9. ASSUME NEW p \in Peers, Reject(p) PROVE UNCHANGED <<state, before, due>>
  BY <1>9, RejectFacts
<1>10. ASSUME UNCHANGED vars PROVE UNCHANGED <<state, before, due>>
  BY <1>10 DEF vars
<1>11. ASSUME NEW p \in Peers, NEW t \in Threads,
              Call(p, t) \/ Begin(p, t) \/ Hand(p, t) \/ TimeOut(p, t) \/ Undo(p, t)
       PROVE  /\ \/ state'[q] = state[q] \/ state'[q] = before[q][t]
                 \/ op[q][t] \in Description /\ state'[q] = Record(q, state[q], op[q][t])
              /\ \A u \in Threads : before'[q][u] = before[q][u] \/ before'[q][u] = state[q]
              /\ \/ due'[q] = due[q]
                 \/ op[q][t] \in Description /\ due'[q] = Record(q, due[q], op[q][t])
  BY <1>1, <1>3, <1>4, <1>5, <1>6, <1>7, <1>11
<1>12. ASSUME NEW p \in Peers, App(p) \/ Accept(p) \/ Reject(p)
       PROVE  /\ state'[q] = state[q] /\ \A t \in Threads : before'[q][t] = before[q][t]
              /\ \/ due'[q] = due[q]
                 \/ \E t \in Threads : /\ op[q][t] \in Description
                                       /\ due'[q] = Record(q, due[q], op[q][t])
  BY <1>1, <1>2, <1>6, <1>8, <1>9, <1>12
<1> QED
  BY <1>1, <1>10, <1>11, <1>12, NextCases

\* What a record can turn on: an offer that declares from the other peer, and an
\* answer that declares.
LEMMA RecordTurnsOn ==
    ASSUME NEW q, NEW s \in NegotiationState, NEW d \in Description
    PROVE  /\ Record(q, s, d).pending =>
                 s.pending \/ (d.kind = "offer" /\ d.by # q /\ d.declares)
           /\ Record(q, s, d).remote => s.remote \/ (d.kind = "answer" /\ d.declares)
<1>1. d.declares \in BOOLEAN /\ d.kind \in SdpTypes
  BY DEF Description
<1>2. ASSUME NEW z \in NegotiationState, NEW b \in BOOLEAN
      PROVE  Settle(z, b).pending = z.pending /\ (Settle(z, b).remote => z.remote \/ b)
  BY <1>2 DEF Settle, NegotiationState
<1>3. CASE d.kind = "answer" /\ d.by = q
  <2> DEFINE z == [s EXCEPT !.pending = FALSE]
             b == s.pending /\ d.declares
  <2>1. Record(q, s, d) = Settle(z, b)
    BY <1>3 DEF Record, OnLocalDescription
  <2>2. /\ z \in NegotiationState /\ z.pending = FALSE /\ z.remote = s.remote
        /\ b \in BOOLEAN /\ (b => d.declares)
    BY DEF NegotiationState
  <2> HIDE DEF z, b
  <2>3. Settle(z, b).pending = z.pending /\ (Settle(z, b).remote => z.remote \/ b)
    BY <1>2, <2>2
  <2> QED
    BY <1>3, <2>1, <2>2, <2>3
<1>4. CASE d.kind = "answer" /\ d.by # q
  <2>1. Record(q, s, d) = Settle(s, d.declares /\ s.declared) /\ (d.declares /\ s.declared) \in BOOLEAN
    BY <1>4 DEF Record, OnRemoteDescription
  <2> QED
    BY <1>2, <1>4, <2>1
<1>5. CASE d.kind # "answer"
  BY <1>1, <1>5 DEF Record, OnLocalDescription, OnRemoteDescription, NegotiationState
<1> QED
  BY <1>3, <1>4, <1>5

LEMMA SaidFacts ==
    ASSUME IInv, SaidInv, NEW q \in Peers, NEW t \in Threads, op[q][t] \in Description
    PROVE  /\ op[q][t].by \in Peers
           /\ op[q][t].kind # "rollback" => op[q][t] \in made[op[q][t].by]
           /\ op[q][t].kind = "offer" => op[q][t].declares = (op[q][t].by \in TakesPart)
<1>1. op[q][t].by \in Peers /\ op[q][t].kind \in SdpTypes
  BY DEF Description
<1>2. op[q][t] # NoDescription
  BY <1>1 DEF NoDescription, SdpTypes
<1>3. Said(op[q][t])
  BY <1>2 DEF SaidInv
<1> QED
  BY <1>1, <1>3 DEF Said, SaidInv

LEMMA PlainStep == ASSUME IInv, SaidInv, PlainInv, [Next]_vars PROVE PlainInv'
<1>0. TypeOK /\ TakesPart' = TakesPart
  BY ModeStep DEF IInv
<1> SUFFICES ASSUME NEW q \in Peers, ~OthersTakePart(q)
             PROVE  /\ ~state'[q].pending /\ ~due'[q].pending
                    /\ \A t \in Threads : ~before'[q][t].pending
  BY <1>0 DEF PlainInv, OthersTakePart
<1>1. /\ ~state[q].pending /\ ~due[q].pending
      /\ \A t \in Threads : ~before[q][t].pending
  BY DEF PlainInv
<1>2. ASSUME NEW s \in NegotiationState, ~s.pending,
             NEW t \in Threads, op[q][t] \in Description
      PROVE  ~Record(q, s, op[q][t]).pending
  <2>1. ~(op[q][t].kind = "offer" /\ op[q][t].by # q /\ op[q][t].declares)
    BY <1>2, SaidFacts DEF OthersTakePart
  <2> QED
    BY <1>2, <2>1, RecordTurnsOn
<1>3. state[q] \in NegotiationState /\ due[q] \in NegotiationState
  BY <1>0 DEF TypeOK
<1>4. ~state'[q].pending
  <2>1. CASE state'[q] = state[q] \/ \E t \in Threads : state'[q] = before[q][t]
    BY <1>1, <2>1
  <2>2. CASE \E t \in Threads : op[q][t] \in Description /\ state'[q] = Record(q, state[q], op[q][t])
    BY <1>1, <1>2, <1>3, <2>2
  <2> QED
    BY <2>1, <2>2, RecordMoves
<1>5. ~due'[q].pending
  <2>1. \/ due'[q] = due[q]
        \/ \E t \in Threads : op[q][t] \in Description /\ due'[q] = Record(q, due[q], op[q][t])
    BY RecordMoves
  <2> QED
    BY <1>1, <1>2, <1>3, <2>1
<1>6. \A t \in Threads : ~before'[q][t].pending
  <2>1. \A t \in Threads : before'[q][t] = before[q][t] \/ before'[q][t] = state[q]
    BY RecordMoves
  <2> QED
    BY <1>1, <2>1
<1> QED
  BY <1>4, <1>5, <1>6

LEMMA AnswerStep == ASSUME IInv, SaidInv, PlainInv, AnswerInv, [Next]_vars PROVE AnswerInv'
<1>0. TypeOK /\ TakesPart' = TakesPart
  BY ModeStep DEF IInv
<1>1. ASSUME NEW q \in Peers, NEW d \in made'[q], d.kind = "answer", d.declares
      PROVE  q \in TakesPart /\ OthersTakePart(q)
  <2>1. CASE d \in made[q]
    BY <1>1, <2>1 DEF AnswerInv
  <2>2. CASE d \notin made[q]
    <3>1. PICK p \in Peers, e \in Description :
                 /\ made' = [made EXCEPT ![p] = @ \cup {e}]
                 /\ e.kind # "offer" => e.declares = (p \in TakesPart /\ state[p].pending)
      BY <1>1, <2>2, MadeFacts
    <3>2. q = p /\ d = e
      BY <1>0, <1>1, <2>2, <3>1 DEF TypeOK
    <3>3. q \in TakesPart /\ state[q].pending
      BY <1>1, <3>1, <3>2
    <3> QED
      BY <3>3 DEF PlainInv
  <2> QED
    BY <2>1, <2>2
<1>2. ASSUME NEW p \in Peers, due'[p].remote
      PROVE  \E q \in Peers : \E d \in made[q] : d.kind = "answer" /\ d.declares
  <2>1. CASE due[p].remote
    BY <2>1 DEF AnswerInv
  <2>2. CASE ~due[p].remote
    <3>1. PICK t \in Threads : op[p][t] \in Description /\ due'[p] = Record(p, due[p], op[p][t])
      BY <1>2, <2>2, RecordMoves
    <3>2. due[p] \in NegotiationState
      BY <1>0 DEF TypeOK
    <3>3. op[p][t].kind = "answer" /\ op[p][t].declares
      BY <1>2, <2>2, <3>1, <3>2, RecordTurnsOn
    <3>4. op[p][t].by \in Peers /\ op[p][t] \in made[op[p][t].by]
      BY <3>1, <3>3, SaidFacts
    <3> QED
      BY <3>3, <3>4
  <2> QED
    BY <2>1, <2>2
<1>3. \A q \in Peers : \A d \in made[q] : d \in made'[q]
  BY MadeGrows
<1>4. \A q \in Peers : \A d \in made'[q] :
         d.kind = "answer" /\ d.declares => q \in TakesPart' /\ OthersTakePart(q)'
  BY <1>0, <1>1 DEF OthersTakePart
<1>5. \A p \in Peers : due'[p].remote =>
         \E q \in Peers : \E d \in made'[q] : d.kind = "answer" /\ d.declares
  BY <1>2, <1>3
<1> QED
  BY <1>4, <1>5 DEF AnswerInv

LEMMA DecidedStep ==
    ASSUME IInv, SettledInv, DecidedInv, [Next]_vars
    PROVE  DecidedInv'
<1>0. TypeOK /\ TakesPart' = TakesPart /\ IInv'
  BY ModeStep, TypeStep, LockStep, HandStep, ChainStep, DueStep, KindStep DEF IInv
<1>1. ASSUME NEW p \in Peers, \A q \in Peers : up[q]
      PROVE  (p \in TakesPart /\ state'[p].remote) = (p \in TakesPart /\ state[p].remote)
  <2>1. CASE p \in TakesPart
    <3>1. due[p].settled
      BY <1>1, <2>1 DEF SettledInv
    <3>2. due'[p].settled /\ due'[p].remote = due[p].remote
      BY <3>1, DueFacts
    <3>3. state[p].remote = due[p].remote
      BY <3>1 DEF IInv, DueInv
    <3>4. state'[p].remote = due'[p].remote
      BY <1>0, <3>2 DEF IInv, DueInv
    <3> QED
      BY <3>2, <3>3, <3>4
  <2> QED
    BY <2>1
<1>2. \A q \in Peers : up[q] => up'[q]
  <2>1. ASSUME NEW q \in Peers, up[q] PROVE up'[q]
    <3>1. StaysAt(q) => up'[q]
      BY <2>1 DEF StaysAt
    <3>2. ASSUME NEW t \in Threads, HandedAt(q, t) \/ TimedOutAt(q, t) PROVE up'[q]
      BY <2>1, <3>2 DEF HandedAt, TimedOutAt
    <3>3. ASSUME NEW o \in Op, NEW taken \in BOOLEAN, DoneAt(q, o, taken) PROVE up'[q]
      BY <2>1, <3>3 DEF DoneAt, EndsWith
    <3> QED
      BY <3>1, <3>2, <3>3, NativeMoves
  <2> QED
    BY <2>1
<1>3. ASSUME NEW p \in Peers, NEW c \in Channels, decided'[p][c] # "no"
      PROVE  /\ \A q \in Peers : up[q]
             /\ decided'[p][c] = IF p \in TakesPart /\ state[p].remote THEN "chunked" ELSE "plain"
  <2>1. \/ UNCHANGED decided
        \/ \E q \in Peers : \E x \in Channels : Decide(q, x)
    <3>1. ASSUME NEW q \in Peers, App(q)
          PROVE  UNCHANGED decided \/ \E x \in Channels : Decide(q, x)
      BY <3>1 DEF App, CreateOffer, MakeAnswer, CreateAnswer
    <3>2. ASSUME NEW q \in Peers, Accept(q) \/ Reject(q) PROVE UNCHANGED decided
      BY <3>2 DEF Accept, Reject
    <3>3. ASSUME NEW q \in Peers, NEW t \in Threads,
                 Call(q, t) \/ Begin(q, t) \/ Hand(q, t) \/ TimeOut(q, t) \/ Undo(q, t)
          PROVE  UNCHANGED decided
      BY <3>3 DEF Call, Begin, Hand, TimeOut, Undo
    <3>4. UNCHANGED vars => UNCHANGED decided
      BY DEF vars
    <3> QED
      BY <3>1, <3>2, <3>3, <3>4, NextCases
  <2>2. CASE UNCHANGED decided
    BY <1>3, <2>2 DEF DecidedInv
  <2>3. ASSUME NEW q \in Peers, NEW x \in Channels, Decide(q, x)
        PROVE  /\ \A r \in Peers : up[r]
               /\ decided'[p][c] = IF p \in TakesPart /\ state[p].remote THEN "chunked" ELSE "plain"
    <3>1. /\ \A r \in Peers : up[r]
          /\ decided' = [decided EXCEPT ![q][x] =
                             IF q \in TakesPart /\ state[q].remote THEN "chunked" ELSE "plain"]
      BY <2>3 DEF Decide
    <3>2. CASE q = p /\ x = c
      BY <1>0, <3>1, <3>2 DEF TypeOK
    <3>3. CASE ~(q = p /\ x = c)
      <4>1. decided'[p][c] = decided[p][c]
        BY <1>0, <3>1, <3>3 DEF TypeOK
      <4> QED
        BY <1>3, <3>1, <4>1 DEF DecidedInv
    <3> QED
      BY <3>2, <3>3
  <2> QED
    BY <2>1, <2>2, <2>3
<1> SUFFICES ASSUME NEW p \in Peers, NEW c \in Channels, decided'[p][c] # "no"
             PROVE  /\ \A q \in Peers : up'[q]
                    /\ decided'[p][c] = IF p \in TakesPart /\ state'[p].remote THEN "chunked" ELSE "plain"
  BY <1>0 DEF DecidedInv
<1> QED
  BY <1>1, <1>2, <1>3

-----------------------------------------------------------------------------
(* Where every round is chunked: what libwebrtc still has to do.            *)

Signals == {"stable", "localOffer", "remoteOffer", "localPr", "remotePr"}

\* Every round is chunked: a description that is no rollback declares.
Agreed(d) == d.kind \in {"offer", "answer", "rollback"} /\ (d.kind # "rollback" => d.declares)

\* libwebrtc goes from s to r with d: it takes it, or refuses an offer.
Hears(p, s, d, r) ==
    \/ r = After(s, d.by = p, d.kind) /\ r # "invalid"
    \/ r = s /\ d.kind \notin {"answer", "rollback"}

\* The first n operations of s may take it from g through the states of w.
Run(p, g, s, w, n) ==
    w[1] = g /\ \A i \in 1 .. n : Hears(p, w[i], s[i].desc, w[i + 1])

\* The first n operations have outlived their applies.
LateUpTo(s, n) == n \in 0 .. Len(s) /\ \A i \in DOMAIN s : s[i].late <=> i <= n

\* The record knows of the offer that libwebrtc has applied,
Facts(g, z) ==
    /\ g \in {"stable", "localOffer", "remoteOffer"}
    /\ g = "remoteOffer" => z.pending
    /\ g = "localOffer" => z.declared

\* as it will when libwebrtc has ended what outlived its apply.
Pend(p, g, s, z) ==
    \A n \in Nat : LateUpTo(s, n) =>
        \A w \in [Nat -> Signals] : Run(p, g, s, w, n) => Facts(w[n + 1], z)

\* A round settled as plain although it is not: by an answer that outlived its
\* apply and that libwebrtc cannot but refuse.
Wrong(p, g, s, u, z) ==
    z.settled /\ ~z.remote =>
        /\ ~u
        /\ \E j \in DOMAIN s :
              /\ s[j].late /\ s[j].desc.kind = "answer"
              /\ \A i \in 1 .. (j - 1) : s[i].desc.kind # "answer"
              /\ \A w \in [Nat -> Signals] : ~Run(p, g, s, w, j)

LEMMA HearsRecord ==
    ASSUME NEW p, NEW z \in NegotiationState, NEW d \in Description, Agreed(d),
           NEW s, NEW r, Facts(s, z), Hears(p, s, d, r)
    PROVE  Facts(r, Record(p, z, d))
<1>1. CASE d.kind = "offer"
  <2>1. CASE d.by = p
    <3>1. Record(p, z, d).declared = TRUE /\ Record(p, z, d).pending = z.pending
      BY <1>1, <2>1 DEF Record, OnLocalDescription, NegotiationState, Agreed
    <3>2. r = "localOffer" \/ r = s
      BY <1>1, <2>1 DEF Hears, After
    <3> QED
      BY <3>1, <3>2 DEF Facts
  <2>2. CASE d.by # p
    <3>1. Record(p, z, d).pending = TRUE /\ Record(p, z, d).declared = z.declared
      BY <1>1, <2>2 DEF Record, OnRemoteDescription, NegotiationState, Agreed
    <3>2. r = "remoteOffer" \/ r = s
      BY <1>1, <2>2 DEF Hears, After
    <3> QED
      BY <3>1, <3>2 DEF Facts
  <2> QED
    BY <2>1, <2>2
<1>2. CASE d.kind \in {"answer", "rollback"}
  <2>1. r = "stable"
    BY <1>2 DEF Hears, After
  <2> QED
    BY <2>1 DEF Facts
<1> QED
  BY <1>1, <1>2 DEF Agreed

\* The answer that libwebrtc takes first settles the round as chunked.
LEMMA AnswerFits ==
    ASSUME NEW p, NEW z \in NegotiationState, NEW d \in Description, Agreed(d), ~z.settled,
           NEW s, NEW r, Facts(s, z), Hears(p, s, d, r), d.kind = "answer"
    PROVE  Record(p, z, d).remote
<1>1. d.declares
  BY DEF Agreed
<1>2. After(s, d.by = p, "answer") # "invalid"
  BY DEF Hears
<1>3. CASE d.by = p
  <2>1. s = "remoteOffer"
    BY <1>2, <1>3 DEF After, Facts
  <2> DEFINE y == [z EXCEPT !.pending = FALSE]
  <2>2. y \in NegotiationState /\ ~y.settled /\ z.pending
    BY <2>1 DEF NegotiationState, Facts
  <2>3. Record(p, z, d) = Settle(y, z.pending /\ d.declares)
    BY <1>3 DEF Record, OnLocalDescription
  <2> HIDE DEF y
  <2>4. Settle(y, z.pending /\ d.declares).remote = (z.pending /\ d.declares)
    BY <2>2 DEF Settle, NegotiationState
  <2> QED
    BY <1>1, <2>2, <2>3, <2>4
<1>4. CASE d.by # p
  <2>1. s = "localOffer"
    BY <1>2, <1>4 DEF After, Facts
  <2>2. Record(p, z, d) = Settle(z, d.declares /\ z.declared) /\ z.declared
    BY <1>4, <2>1 DEF Record, OnRemoteDescription, Facts
  <2>3. Settle(z, d.declares /\ z.declared).remote = (d.declares /\ z.declared)
    BY DEF Settle, NegotiationState
  <2> QED
    BY <1>1, <2>2, <2>3
<1> QED
  BY <1>3, <1>4

\* Nothing else settles it.
LEMMA SettlesOnAnswer ==
    ASSUME NEW p, NEW z \in NegotiationState, NEW d \in Description, d.kind # "answer"
    PROVE  Record(p, z, d).settled = z.settled
BY DEF Record, OnLocalDescription, OnRemoteDescription, NegotiationState, Description

\* What may follow the first operation may follow from before it.
LEMMA RunBack ==
    ASSUME NEW p, NEW s \in Seq(Op), s # <<>>, NEW g \in Signals, NEW h,
           Hears(p, g, s[1].desc, h),
           NEW w \in [Nat -> Signals], NEW n \in 0 .. Len(Tail(s)), Run(p, h, Tail(s), w, n)
    PROVE  \E v \in [Nat -> Signals] : Run(p, g, s, v, n + 1) /\ v[n + 2] = w[n + 1]
<1> DEFINE v == [i \in Nat |-> IF i <= 1 THEN g ELSE w[i - 1]]
<1>1. v \in [Nat -> Signals]
  <2>1. \A i \in Nat : ~(i <= 1) => i - 1 \in Nat
    OBVIOUS
  <2> QED
    BY <2>1
<1>2. v[1] = g /\ \A i \in Nat : i >= 2 => v[i] = w[i - 1]
  OBVIOUS
<1> HIDE DEF v
<1>3. n \in Nat /\ n + 1 <= Len(s) /\ \A i \in 1 .. Len(Tail(s)) : Tail(s)[i] = s[i + 1]
  OBVIOUS
<1>4. ASSUME NEW i \in 1 .. (n + 1) PROVE Hears(p, v[i], s[i].desc, v[i + 1])
  <2>1. CASE i = 1
    <3>1. v[2] = h
      BY <1>2 DEF Run
    <3> QED
      BY <1>2, <2>1, <3>1
  <2>2. CASE i # 1
    <3>1. i - 1 \in 1 .. n /\ (i - 1) + 1 = i /\ i \in Nat /\ i >= 2 /\ (i + 1) - 1 = i
          /\ i - 1 \in 1 .. Len(Tail(s))
      BY <1>3, <2>2
    <3>2. Hears(p, w[i - 1], Tail(s)[i - 1].desc, w[i])
      BY <3>1 DEF Run
    <3>3. Tail(s)[i - 1] = s[i] /\ v[i] = w[i - 1] /\ v[i + 1] = w[i]
      BY <1>2, <1>3, <3>1
    <3> QED
      BY <3>2, <3>3
  <2> QED
    BY <2>1, <2>2
<1>5. v[n + 2] = w[n + 1]
  BY <1>2, <1>3
<1>6. Run(p, g, s, v, n + 1)
  BY <1>2, <1>4 DEF Run
<1> QED
  BY <1>1, <1>5, <1>6

\* An operation that is handed over is in time: it is not looked at yet.
LEMMA PendHanded ==
    ASSUME NEW p, NEW g, NEW s \in Seq(Op), NEW o \in Op, ~o.late, NEW u, NEW z,
           Pend(p, g, s, z), Wrong(p, g, s, u, z)
    PROVE  Pend(p, g, Append(s, o), z) /\ Wrong(p, g, Append(s, o), u, z)
<1> DEFINE m == Append(s, o)
<1>1. /\ Len(s) \in Nat /\ Len(m) = Len(s) + 1 /\ m[Len(s) + 1] = o
      /\ DOMAIN s = 1 .. Len(s) /\ DOMAIN m = 1 .. (Len(s) + 1)
      /\ \A i \in 1 .. Len(s) : m[i] = s[i]
  OBVIOUS
<1> HIDE DEF m
<1>2. ASSUME NEW n \in 0 .. Len(s), NEW w, Run(p, g, m, w, n) PROVE Run(p, g, s, w, n)
  <2>1. \A i \in 1 .. n : i \in 1 .. Len(s)
    BY <1>1
  <2> QED
    BY <1>1, <1>2, <2>1 DEF Run
<1>3. ASSUME NEW n \in Nat, LateUpTo(m, n) PROVE LateUpTo(s, n)
  <2>1. ~(Len(s) + 1 <= n)
    BY <1>1, <1>3 DEF LateUpTo
  <2>2. n \in 0 .. Len(s)
    BY <1>1, <2>1
  <2> QED
    BY <1>1, <1>3, <2>2 DEF LateUpTo
<1>4. Pend(p, g, m, z)
  <2> SUFFICES ASSUME NEW n \in Nat, LateUpTo(m, n), NEW w \in [Nat -> Signals], Run(p, g, m, w, n)
               PROVE  Facts(w[n + 1], z)
    BY DEF Pend
  <2>1. LateUpTo(s, n) /\ n \in 0 .. Len(s)
    BY <1>3 DEF LateUpTo
  <2> QED
    BY <1>2, <2>1 DEF Pend
<1>5. Wrong(p, g, m, u, z)
  <2> SUFFICES ASSUME z.settled, ~z.remote
               PROVE  ~u /\ \E j \in DOMAIN m :
                               /\ m[j].late /\ m[j].desc.kind = "answer"
                               /\ \A i \in 1 .. (j - 1) : m[i].desc.kind # "answer"
                               /\ \A w \in [Nat -> Signals] : ~Run(p, g, m, w, j)
    BY DEF Wrong
  <2>1. PICK j \in DOMAIN s : /\ s[j].late /\ s[j].desc.kind = "answer"
                              /\ \A i \in 1 .. (j - 1) : s[i].desc.kind # "answer"
                              /\ \A w \in [Nat -> Signals] : ~Run(p, g, s, w, j)
    BY DEF Wrong
  <2>2. j \in DOMAIN m /\ m[j] = s[j] /\ j \in 0 .. Len(s)
    BY <1>1, <2>1
  <2>3. \A i \in 1 .. (j - 1) : i \in 1 .. Len(s)
    BY <1>1, <2>1
  <2>4. \A i \in 1 .. (j - 1) : m[i].desc.kind # "answer"
    BY <1>1, <2>1, <2>3
  <2>5. \A w \in [Nat -> Signals] : ~Run(p, g, m, w, j)
    BY <1>2, <2>1, <2>2
  <2>6. ~u
    BY DEF Wrong
  <2> QED
    BY <2>1, <2>2, <2>4, <2>5, <2>6
<1> QED
  BY <1>4, <1>5 DEF m

\* The last operation outlives its apply and its description is recorded for good.
LEMMA PendTimedOut ==
    ASSUME NEW p, NEW g, NEW u, NEW s \in Seq(Op), NEW m \in Seq(Op), s # <<>>,
           DOMAIN m = DOMAIN s, \A i \in DOMAIN s : m[i].desc = s[i].desc /\ m[i].late,
           LateUpTo(s, Len(s) - 1),
           NEW d \in Description, d = s[Len(s)].desc, Agreed(d), NEW z \in NegotiationState,
           ~z.settled => ~u /\ \A i \in DOMAIN s : ~(s[i].late /\ s[i].desc.kind = "answer"),
           Pend(p, g, s, z), Wrong(p, g, s, u, z)
    PROVE  Pend(p, g, m, Record(p, z, d)) /\ Wrong(p, g, m, u, Record(p, z, d))
<1> DEFINE k == Len(s)
           r == Record(p, z, d)
<1>1. k \in Nat /\ k >= 1 /\ DOMAIN s = 1 .. k /\ DOMAIN m = 1 .. k /\ Len(m) = k
      /\ k - 1 \in Nat /\ (k - 1) + 1 = k
  OBVIOUS
<1> HIDE DEF k
<1>2. ASSUME NEW n \in 0 .. k, NEW w, Run(p, g, m, w, n) PROVE Run(p, g, s, w, n)
  <2>1. \A i \in 1 .. n : m[i].desc = s[i].desc
    BY <1>1
  <2> QED
    BY <1>1, <1>2, <2>1 DEF Run
<1>3. ASSUME NEW w \in [Nat -> Signals], Run(p, g, s, w, k)
      PROVE  Facts(w[k], z) /\ Hears(p, w[k], d, w[k + 1])
  <2>1. Run(p, g, s, w, k - 1)
    <3>1. \A i \in 1 .. (k - 1) : i \in 1 .. k
      BY <1>1
    <3> QED
      BY <1>3, <3>1 DEF Run
  <2>2. Facts(w[(k - 1) + 1], z)
    BY <1>1, <2>1 DEF Pend, k
  <2>3. Hears(p, w[k], s[k].desc, w[k + 1])
    BY <1>1, <1>3 DEF Run
  <2> QED
    BY <1>1, <2>2, <2>3 DEF k
<1>4. Pend(p, g, m, r)
  <2> SUFFICES ASSUME NEW n \in Nat, LateUpTo(m, n), NEW w \in [Nat -> Signals], Run(p, g, m, w, n)
               PROVE  Facts(w[n + 1], r)
    BY DEF Pend
  <2>1. n = k
    <3>1. n \in 0 .. k /\ (k \in DOMAIN m => k <= n)
      BY <1>1 DEF LateUpTo
    <3> QED
      BY <1>1, <3>1
  <2>2. Run(p, g, s, w, k)
    BY <1>1, <1>2, <2>1
  <2> QED
    BY <1>3, <2>1, <2>2, HearsRecord
<1>5. Wrong(p, g, m, u, r)
  <2> SUFFICES ASSUME r.settled, ~r.remote
               PROVE  ~u /\ \E j \in DOMAIN m :
                               /\ m[j].late /\ m[j].desc.kind = "answer"
                               /\ \A i \in 1 .. (j - 1) : m[i].desc.kind # "answer"
                               /\ \A w \in [Nat -> Signals] : ~Run(p, g, m, w, j)
    BY DEF Wrong
  <2>1. CASE z.settled
    <3>1. ~z.remote
      BY <2>1, RecordFacts
    <3>2. PICK j \in DOMAIN s : /\ s[j].late /\ s[j].desc.kind = "answer"
                                /\ \A i \in 1 .. (j - 1) : s[i].desc.kind # "answer"
                                /\ \A w \in [Nat -> Signals] : ~Run(p, g, s, w, j)
      BY <2>1, <3>1 DEF Wrong
    <3>3. j \in 0 .. k /\ m[j].late /\ m[j].desc.kind = "answer" /\ j \in DOMAIN m
      BY <1>1, <3>2
    <3>4. \A i \in 1 .. (j - 1) : i \in DOMAIN s
      BY <1>1, <3>2
    <3>5. \A i \in 1 .. (j - 1) : m[i].desc.kind # "answer"
      BY <3>2, <3>4
    <3>6. \A w \in [Nat -> Signals] : ~Run(p, g, m, w, j)
      BY <1>2, <3>2, <3>3
    <3>7. ~u
      BY <2>1, <3>1 DEF Wrong
    <3> QED
      BY <3>3, <3>5, <3>6, <3>7
  <2>2. CASE ~z.settled
    <3>1. d.kind = "answer"
      BY <2>2, SettlesOnAnswer
    <3>2. \A w \in [Nat -> Signals] : ~Run(p, g, s, w, k)
      BY <1>3, <2>2, <3>1, AnswerFits
    <3>3. k \in DOMAIN m /\ k \in 0 .. k /\ m[k].late /\ m[k].desc.kind = "answer"
      BY <1>1, <3>1 DEF k
    <3>4. \A i \in 1 .. (k - 1) : m[i].desc.kind # "answer"
      <4>1. ASSUME NEW i \in 1 .. (k - 1) PROVE m[i].desc.kind # "answer"
        <5>1. i \in DOMAIN s /\ s[i].late
          BY <1>1, <4>1 DEF LateUpTo, k
        <5> QED
          BY <2>2, <5>1
      <4> QED
        BY <4>1
    <3>5. \A w \in [Nat -> Signals] : ~Run(p, g, m, w, k)
      BY <1>2, <3>2, <3>3
    <3> QED
      BY <2>2, <3>3, <3>4, <3>5
  <2> QED
    BY <2>1, <2>2
<1> QED
  BY <1>4, <1>5

\* libwebrtc ends an operation that has outlived its apply.
LEMMA PendLateDone ==
    ASSUME NEW p, NEW g \in Signals, NEW h, NEW s \in Seq(Op), s # <<>>, s[1].late,
           Hears(p, g, s[1].desc, h), h \in Signals, NEW z, NEW u, NEW v,
           s[1].desc.kind # "answer" => v = u,
           Pend(p, g, s, z), Wrong(p, g, s, u, z)
    PROVE  Pend(p, h, Tail(s), z) /\ Wrong(p, h, Tail(s), v, z)
<1> DEFINE m == Tail(s)
<1>1. /\ Len(s) \in Nat /\ Len(s) >= 1 /\ Len(m) = Len(s) - 1 /\ 1 \in DOMAIN s
      /\ DOMAIN s = 1 .. Len(s) /\ DOMAIN m = 1 .. (Len(s) - 1)
      /\ \A i \in 1 .. (Len(s) - 1) : m[i] = s[i + 1]
  OBVIOUS
<1>2. ASSUME NEW w \in [Nat -> Signals], NEW n \in 0 .. Len(m), Run(p, h, m, w, n)
      PROVE  \E x \in [Nat -> Signals] : Run(p, g, s, x, n + 1) /\ x[n + 2] = w[n + 1]
  BY <1>2, RunBack
<1> HIDE DEF m
<1>3. Pend(p, h, m, z)
  <2> SUFFICES ASSUME NEW n \in Nat, LateUpTo(m, n), NEW w \in [Nat -> Signals], Run(p, h, m, w, n)
               PROVE  Facts(w[n + 1], z)
    BY DEF Pend
  <2>1. n \in 0 .. Len(m)
    BY DEF LateUpTo
  <2>2. LateUpTo(s, n + 1)
    <3>1. n + 1 \in 0 .. Len(s)
      BY <1>1, <2>1
    <3>2. ASSUME NEW i \in DOMAIN s PROVE s[i].late <=> i <= n + 1
      <4>1. CASE i = 1
        BY <4>1
      <4>2. CASE i # 1
        <5>1. i - 1 \in DOMAIN m /\ m[i - 1] = s[i]
          BY <1>1, <3>2, <4>2
        <5>2. m[i - 1].late <=> i - 1 <= n
          BY <5>1 DEF LateUpTo
        <5>3. i - 1 <= n <=> i <= n + 1
          BY <1>1
        <5> QED
          BY <5>1, <5>2, <5>3
      <4> QED
        BY <4>1, <4>2
    <3> QED
      BY <3>1, <3>2 DEF LateUpTo
  <2>3. PICK x \in [Nat -> Signals] : Run(p, g, s, x, n + 1) /\ x[n + 2] = w[n + 1]
    BY <1>2, <2>1
  <2>4. n + 1 \in Nat /\ (n + 1) + 1 = n + 2
    OBVIOUS
  <2>5. Facts(x[(n + 1) + 1], z)
    BY <2>2, <2>3, <2>4 DEF Pend
  <2> QED
    BY <2>3, <2>4, <2>5
<1>4. Wrong(p, h, m, v, z)
  <2> SUFFICES ASSUME z.settled, ~z.remote
               PROVE  ~v /\ \E j \in DOMAIN m :
                               /\ m[j].late /\ m[j].desc.kind = "answer"
                               /\ \A i \in 1 .. (j - 1) : m[i].desc.kind # "answer"
                               /\ \A w \in [Nat -> Signals] : ~Run(p, h, m, w, j)
    BY DEF Wrong
  <2>1. PICK j \in DOMAIN s : /\ s[j].late /\ s[j].desc.kind = "answer"
                              /\ \A i \in 1 .. (j - 1) : s[i].desc.kind # "answer"
                              /\ \A w \in [Nat -> Signals] : ~Run(p, g, s, w, j)
    BY DEF Wrong
  <2>2. ~u
    BY DEF Wrong
  <2>3. j # 1
    <3> SUFFICES ASSUME j = 1 PROVE FALSE
      OBVIOUS
    <3> DEFINE w == [i \in Nat |-> IF i <= 1 THEN g ELSE h]
    <3>1. w \in [Nat -> Signals] /\ w[1] = g /\ w[2] = h
      OBVIOUS
    <3> HIDE DEF w
    <3>2. Run(p, g, s, w, 1)
      BY <3>1 DEF Run
    <3> QED
      BY <2>1, <3>1, <3>2
  <2>4. s[1].desc.kind # "answer"
    <3>1. 1 \in 1 .. (j - 1)
      BY <1>1, <2>1, <2>3
    <3> QED
      BY <2>1, <3>1
  <2>5. /\ j - 1 \in DOMAIN m /\ m[j - 1] = s[j] /\ j - 1 \in 0 .. Len(m)
        /\ (j - 1) + 1 = j
    BY <1>1, <2>1, <2>3
  <2>6. ASSUME NEW i \in 1 .. ((j - 1) - 1) PROVE m[i].desc.kind # "answer"
    <3>1. i + 1 \in 1 .. (j - 1) /\ i \in 1 .. (Len(s) - 1)
      BY <1>1, <2>1
    <3> QED
      BY <1>1, <2>1, <3>1
  <2>7. \A w \in [Nat -> Signals] : ~Run(p, h, m, w, j - 1)
    BY <1>2, <2>1, <2>5
  <2>8. ~v
    BY <2>2, <2>4
  <2>9. m[j - 1].late /\ m[j - 1].desc.kind = "answer"
    BY <2>1, <2>5
  <2>10. PICK i \in DOMAIN m : i = j - 1
    BY <2>5
  <2> QED
    BY <2>6, <2>7, <2>8, <2>9, <2>10
<1> QED
  BY <1>3, <1>4 DEF m

\* libwebrtc ends the one operation that is in time.
LEMMA PendDone ==
    ASSUME NEW p, NEW g \in Signals, NEW h, NEW s \in Seq(Op), Len(s) = 1, ~s[1].late,
           NEW z \in NegotiationState, NEW y, NEW u, NEW v,
           Agreed(s[1].desc),
           \/ Hears(p, g, s[1].desc, h) /\ y = Record(p, z, s[1].desc)
           \/ h = g /\ y = z,
           Pend(p, g, s, z), Wrong(p, g, s, u, z)
    PROVE  Pend(p, h, Tail(s), y) /\ Wrong(p, h, Tail(s), v, y)
<1> DEFINE d == s[1].desc
<1>1. /\ s[1] \in Op /\ DOMAIN s = {1} /\ Len(s) = 1 /\ Tail(s) \in Seq(Op) /\ Len(Tail(s)) = 0
  OBVIOUS
<1>2. d \in Description
  BY <1>1 DEF Op
<1> HIDE DEF d
<1>3. Facts(g, z)
  <2> DEFINE w == [i \in Nat |-> g]
  <2>1. w \in [Nat -> Signals] /\ w[1] = g /\ w[0 + 1] = g
    OBVIOUS
  <2> HIDE DEF w
  <2>2. LateUpTo(s, 0) /\ 0 \in Nat
    BY <1>1 DEF LateUpTo
  <2>3. Run(p, g, s, w, 0)
    BY <2>1 DEF Run
  <2> QED
    BY <2>1, <2>2, <2>3 DEF Pend
<1>4. z.settled => z.remote
  <2>1. ~ \E j \in DOMAIN s : s[j].late
    BY <1>1
  <2> QED
    BY <2>1 DEF Wrong
<1>5. Facts(h, y) /\ (y.settled => y.remote)
  <2>1. CASE h = g /\ y = z
    BY <1>3, <1>4, <2>1
  <2>2. CASE Hears(p, g, d, h) /\ y = Record(p, z, d)
    <3>1. Agreed(d)
      BY DEF d
    <3>2. Facts(h, y)
      BY <1>2, <1>3, <2>2, <3>1, HearsRecord
    <3>3. CASE z.settled
      BY <1>2, <1>4, <2>2, <3>2, <3>3, RecordFacts
    <3>4. CASE ~z.settled /\ d.kind = "answer"
      BY <1>2, <1>3, <2>2, <3>1, <3>2, <3>4, AnswerFits
    <3>5. CASE ~z.settled /\ d.kind # "answer"
      BY <1>2, <2>2, <3>2, <3>5, SettlesOnAnswer
    <3> QED
      BY <3>3, <3>4, <3>5
  <2> QED
    BY <2>1, <2>2 DEF d
<1>6. Pend(p, h, Tail(s), y)
  <2> SUFFICES ASSUME NEW n \in Nat, LateUpTo(Tail(s), n),
                      NEW w \in [Nat -> Signals], Run(p, h, Tail(s), w, n)
               PROVE  Facts(w[n + 1], y)
    BY DEF Pend
  <2>1. n = 0 /\ 0 + 1 = 1
    <3>1. n \in 0 .. Len(Tail(s))
      BY DEF LateUpTo
    <3>2. n \in 0 .. 0
      BY <1>1, <3>1, Zenon
    <3> QED
      BY <3>2
  <2>2. w[1] = h
    BY DEF Run
  <2> QED
    BY <1>5, <2>1, <2>2
<1>7. Wrong(p, h, Tail(s), v, y)
  BY <1>5 DEF Wrong
<1> QED
  BY <1>6, <1>7

\* Both ends take part, every answer declares, and libwebrtc has refused none,
\* nor a rollback, after its apply had timed out.
EveryRoundChunks ==
    /\ Peers \subseteq TakesPart
    /\ \A p \in Peers : \A d \in made[p] : d.kind = "answer" => d.declares
    /\ misled \cap {"answer", "rollback"} = {}

ChunkedInv ==
    EveryRoundChunks => \A p \in Peers : /\ Pend(p, signaling[p], chain[p], due[p])
                                         /\ Wrong(p, signaling[p], chain[p], up[p], due[p])

LEMMA AgreedFacts ==
    ASSUME IInv, SaidInv, "pranswer" \notin Kinds, EveryRoundChunks,
           NEW d \in Description, d.kind \in Kinds, Said(d)
    PROVE  Agreed(d)
<1>1. d.by \in Peers /\ d.kind \in SdpTypes /\ d.kind # "pranswer"
  BY DEF Description
<1>2. d.kind # "rollback" => d \in made[d.by]
  BY DEF Said
<1>3. d.kind = "offer" => d.declares
  BY <1>1, <1>2 DEF SaidInv, EveryRoundChunks
<1>4. d.kind = "answer" => d.declares
  BY <1>1, <1>2 DEF EveryRoundChunks
<1> QED
  BY <1>1, <1>3, <1>4 DEF Agreed, SdpTypes

LEMMA ChunksBefore ==
    ASSUME IInv, [Next]_vars, EveryRoundChunks'
    PROVE  EveryRoundChunks
<1> USE DEF nativeVars
<1>1. TakesPart' = TakesPart
  BY ModeStep DEF IInv
<1>2. misled \subseteq misled'
  <2>1. ASSUME NEW p \in Peers, App(p) PROVE misled' = misled
    BY <2>1, AppFacts
  <2>2. ASSUME NEW p \in Peers, Accept(p) \/ Reject(p) PROVE misled \subseteq misled'
    BY <2>2 DEF Accept, Reject
  <2>3. ASSUME NEW p \in Peers, NEW t \in Threads,
               Call(p, t) \/ Begin(p, t) \/ Hand(p, t) \/ TimeOut(p, t) \/ Undo(p, t)
        PROVE  misled' = misled
    BY <2>3 DEF Call, Begin, Hand, TimeOut, Undo
  <2>4. UNCHANGED vars => misled' = misled
    BY DEF vars
  <2> QED
    BY <2>1, <2>2, <2>3, <2>4, NextCases
<1>3. \A p \in Peers : \A d \in made[p] : d \in made'[p]
  BY MadeGrows
<1> QED
  BY <1>1, <1>2, <1>3 DEF EveryRoundChunks

LEMMA ChunkedStep ==
    ASSUME IInv, SettledInv, SaidInv, LastInv, ChunkedInv, "pranswer" \notin Kinds, [Next]_vars
    PROVE  ChunkedInv'
<1>0. TypeOK /\ TypeOK' /\ LockInv /\ ChainInv
  BY TypeStep DEF IInv
<1> SUFFICES ASSUME EveryRoundChunks', NEW p \in Peers
             PROVE  /\ Pend(p, signaling'[p], chain'[p], due'[p])
                    /\ Wrong(p, signaling'[p], chain'[p], up'[p], due'[p])
  BY DEF ChunkedInv
<1>a. EveryRoundChunks
  BY ChunksBefore
<1>b. Pend(p, signaling[p], chain[p], due[p]) /\ Wrong(p, signaling[p], chain[p], up[p], due[p])
  BY <1>a DEF ChunkedInv
<1>c. p \in TakesPart /\ LastAt(p)
  BY <1>a DEF EveryRoundChunks, LastInv
<1>d. /\ chain[p] \in Seq(Op) /\ due[p] \in NegotiationState /\ up[p] \in BOOLEAN
      /\ signaling[p] \in Signals /\ signaling'[p] \in Signals
  BY <1>0 DEF TypeOK, Signals
<1>e. ASSUME NEW i \in DOMAIN chain[p]
      PROVE  chain[p][i].desc \in Description /\ Agreed(chain[p][i].desc)
  <2>1. chain[p][i].desc \in Description
    BY <1>d, OpFacts
  <2>2. chain[p][i].desc.kind \in Kinds /\ Said(chain[p][i].desc)
    BY DEF IInv, KindInv, SaidInv
  <2> QED
    BY <1>a, <2>1, <2>2, AgreedFacts
<1>1. CASE StaysAt(p)
  BY <1>b, <1>1 DEF StaysAt
<1>2. ASSUME NEW t \in Threads, HandedAt(p, t)
      PROVE  /\ Pend(p, signaling'[p], chain'[p], due'[p])
             /\ Wrong(p, signaling'[p], chain'[p], up'[p], due'[p])
  <2> DEFINE o == [desc |-> op[p][t], by |-> t, late |-> FALSE]
  <2>1. o \in Op /\ ~o.late /\ chain'[p] = Append(chain[p], o)
    BY <1>2 DEF HandedAt, Op
  <2>2. signaling'[p] = signaling[p] /\ up'[p] = up[p] /\ due'[p] = due[p]
    BY <1>2 DEF HandedAt
  <2> HIDE DEF o
  <2> QED
    BY <1>b, <1>d, <2>1, <2>2, PendHanded
<1>3. ASSUME NEW t \in Threads, TimedOutAt(p, t)
      PROVE  /\ Pend(p, signaling'[p], chain'[p], due'[p])
             /\ Wrong(p, signaling'[p], chain'[p], up'[p], due'[p])
  <2> DEFINE s == chain[p]
             m == MarkedLate(s, t)
             d == s[Len(s)].desc
  <2>1. /\ at[p][t] = "native" /\ chain'[p] = m
        /\ signaling'[p] = signaling[p] /\ up'[p] = up[p]
        /\ due'[p] = Record(p, due[p], op[p][t])
    BY <1>3, <1>c DEF TimedOutAt
  <2>2. PICK i \in DOMAIN s : ~s[i].late /\ s[i].by = t
    BY <1>c, <2>1 DEF LastAt
  <2>3. i = Len(s) /\ s # <<>> /\ Len(s) \in DOMAIN s /\ Len(s) \in Nat /\ DOMAIN s = 1 .. Len(s)
    BY <1>c, <1>d, <2>2 DEF LastAt
  <2>4. op[p][t] = d
    BY <1>0, <2>2, <2>3 DEF ChainInv
  <2>5. \A j \in DOMAIN s : s[j].late <=> j # Len(s)
    BY <1>c, <2>2, <2>3 DEF LastAt
  <2>6. LateUpTo(s, Len(s) - 1)
    <3>1. Len(s) - 1 \in 0 .. Len(s) /\ \A j \in DOMAIN s : j # Len(s) <=> j <= Len(s) - 1
      BY <2>3
    <3> QED
      BY <2>5, <3>1 DEF LateUpTo
  <2>7. m \in Seq(Op) /\ DOMAIN m = DOMAIN s
    BY <1>d, LateFacts
  <2>8. \A j \in DOMAIN s : m[j].desc = s[j].desc /\ m[j].late
    BY <1>d, <2>2, <2>3, <2>5, LateFacts
  <2>9. d \in Description /\ Agreed(d)
    BY <1>e, <2>3
  <2>10. ~due[p].settled =>
            ~up[p] /\ \A j \in DOMAIN s : ~(s[j].late /\ s[j].desc.kind = "answer")
    BY <1>c DEF SettledInv
  <2> HIDE DEF m, d, s
  <2>11. Pend(p, signaling[p], s, due[p]) /\ Wrong(p, signaling[p], s, up[p], due[p]) /\ s \in Seq(Op)
    BY <1>b, <1>d DEF s
  <2>12. d = s[Len(s)].desc
    BY DEF d
  <2>13. /\ Pend(p, signaling[p], m, Record(p, due[p], d))
         /\ Wrong(p, signaling[p], m, up[p], Record(p, due[p], d))
    BY <1>d, <2>3, <2>6, <2>7, <2>8, <2>9, <2>10, <2>11, <2>12, PendTimedOut
  <2> QED
    BY <2>1, <2>4, <2>13
<1>4. ASSUME NEW o \in Op, NEW taken \in BOOLEAN, DoneAt(p, o, taken)
      PROVE  /\ Pend(p, signaling'[p], chain'[p], due'[p])
             /\ Wrong(p, signaling'[p], chain'[p], up'[p], due'[p])
  <2> DEFINE s == chain[p]
  <2>1. s # <<>> /\ o = Head(s) /\ chain'[p] = Tail(s) /\ EndsWith(p, o.desc, taken)
    BY <1>4 DEF DoneAt
  <2>2. 1 \in DOMAIN s /\ o = s[1]
    BY <1>d, <2>1, TailFacts
  <2>3. o.desc \in Description /\ Agreed(o.desc)
    BY <1>e, <2>2
  <2>4. taken => Hears(p, signaling[p], o.desc, signaling'[p])
    BY <2>1 DEF EndsWith, Hears
  <2>5. ~taken => signaling'[p] = signaling[p] /\ up'[p] = up[p]
    BY <2>1 DEF EndsWith
  <2>6. CASE o.late
    <3>1. due'[p] = due[p] /\ (~taken => o.desc.kind \in misled')
      BY <1>4, <2>6 DEF DoneAt
    <3>2. ~taken => o.desc.kind \notin {"answer", "rollback"}
      BY <3>1 DEF EveryRoundChunks
    <3>3. Hears(p, signaling[p], o.desc, signaling'[p])
      BY <2>4, <2>5, <3>2 DEF Hears
    <3>4. o.desc.kind # "answer" => up'[p] = up[p]
      BY <1>d, <2>1, <2>3 DEF EndsWith, Agreed
    <3> HIDE DEF s
    <3>5. Pend(p, signaling[p], s, due[p]) /\ Wrong(p, signaling[p], s, up[p], due[p]) /\ s \in Seq(Op)
      BY <1>b, <1>d DEF s
    <3>6. s[1].late /\ Hears(p, signaling[p], s[1].desc, signaling'[p])
          /\ (s[1].desc.kind # "answer" => up'[p] = up[p])
      BY <2>2, <2>6, <3>3, <3>4
    <3>7. Pend(p, signaling'[p], Tail(s), due[p]) /\ Wrong(p, signaling'[p], Tail(s), up'[p], due[p])
      BY <1>d, <2>1, <3>5, <3>6, PendLateDone
    <3> QED
      BY <2>1, <3>1, <3>7
  <2>7. CASE ~o.late
    <3>1. Len(s) = 1
      BY <1>c, <2>2, <2>7 DEF LastAt
    <3>2. due'[p] = IF taken THEN Record(p, due[p], o.desc) ELSE due[p]
      BY <1>4, <1>c, <2>7 DEF DoneAt
    <3>3. \/ Hears(p, signaling[p], o.desc, signaling'[p]) /\ due'[p] = Record(p, due[p], o.desc)
          \/ signaling'[p] = signaling[p] /\ due'[p] = due[p]
      BY <2>4, <2>5, <3>2
    <3> HIDE DEF s
    <3>4. Pend(p, signaling[p], s, due[p]) /\ Wrong(p, signaling[p], s, up[p], due[p]) /\ s \in Seq(Op)
      BY <1>b, <1>d DEF s
    <3>5. ~s[1].late /\ Agreed(s[1].desc)
      BY <2>2, <2>3, <2>7
    <3>6. \/ Hears(p, signaling[p], s[1].desc, signaling'[p]) /\ due'[p] = Record(p, due[p], s[1].desc)
          \/ signaling'[p] = signaling[p] /\ due'[p] = due[p]
      BY <2>2, <3>3
    <3>7. Pend(p, signaling'[p], Tail(s), due'[p]) /\ Wrong(p, signaling'[p], Tail(s), up'[p], due'[p])
      BY <1>d, <3>1, <3>4, <3>5, <3>6, PendDone
    <3> QED
      BY <2>1, <3>7
  <2> QED
    BY <2>6, <2>7
<1> QED
  BY <1>1, <1>2, <1>3, <1>4, NativeMoves

-----------------------------------------------------------------------------

\* A connection has two ends.
TwoPeers == \E p, q \in Peers : Peers = {p, q}

AgreeInv ==
    SaidInv /\ LastInv /\ PlainInv /\ AnswerInv /\ DecidedInv /\ ChunkedInv

LEMMA AgreeInductive == ASSUME NoProvisional PROVE Spec => []AgreeInv
<1>1. Init => AgreeInv
  <2> SUFFICES ASSUME Init PROVE AgreeInv
    OBVIOUS
  <2>0. TypeOK /\ TakesPart \subseteq Peers
    BY InitInv DEF IInv, TypeOK, Mode, TakesPart
  <2>1. SaidInv /\ LastInv /\ PlainInv /\ AnswerInv /\ DecidedInv
    BY <2>0 DEF Init, Fresh, SaidInv, LastInv, LastAt, PlainInv, AnswerInv, DecidedInv
  <2>2. ASSUME NEW p \in Peers
        PROVE  /\ Pend(p, signaling[p], chain[p], due[p])
               /\ Wrong(p, signaling[p], chain[p], up[p], due[p])
    <3>1. chain[p] = <<>> /\ signaling[p] = "stable" /\ ~due[p].settled
      BY DEF Init, Fresh
    <3>2. ASSUME NEW n \in Nat, LateUpTo(chain[p], n),
                 NEW w \in [Nat -> Signals], Run(p, signaling[p], chain[p], w, n)
          PROVE  Facts(w[n + 1], due[p])
      <4>1. n \in 0 .. 0 /\ w[1] = "stable"
        BY <3>1, <3>2 DEF LateUpTo, Run
      <4>2. w[n + 1] = "stable"
        BY <4>1
      <4> QED
        BY <4>2 DEF Facts
    <3> QED
      BY <3>1, <3>2 DEF Pend, Wrong
  <2> QED
    BY <2>1, <2>2 DEF AgreeInv, ChunkedInv
<1>2. IInv => "pranswer" \notin Kinds
  BY DEF IInv, KindInv, NoProvisional, Kinds
<1>3. IInv /\ SettledInv /\ AgreeInv /\ [Next]_vars => AgreeInv'
  BY <1>2, SaidStep, LastStep, PlainStep, AnswerStep, DecidedStep, ChunkedStep DEF AgreeInv
<1> QED
  BY <1>1, <1>3, Inductive, SettledInductive, PTL DEF Spec

\* DcNegotiation's promise to its channels: where the applications use no
\* provisional answer, the two ends of every channel decide alike, whenever each
\* is asked, whatever else is applied at either end and from any thread, however
\* long, as long as the rounds declare alike and libwebrtc refuses no answer or
\* rollback whose apply has timed out.
THEOREM TwinsDecideAlike ==
    ASSUME NoProvisional, TwoPeers
    PROVE  Spec => []TwinsAgreeUnlessMisled
<1>1. ASSUME IInv, SettledInv, AgreeInv PROVE TwinsAgreeUnlessMisled
  <2> SUFFICES ASSUME RoundsAlike, misled \cap {"answer", "rollback"} = {},
                      NEW c \in Channels, NEW p \in Peers, NEW q \in Peers,
                      decided[p][c] # "no", decided[q][c] # "no"
               PROVE  decided[p][c] = decided[q][c]
    BY DEF TwinsAgreeUnlessMisled, TwinsAgree
  <2>1. /\ \A r \in Peers : up[r]
        /\ decided[p][c] = IF p \in TakesPart /\ state[p].remote THEN "chunked" ELSE "plain"
        /\ decided[q][c] = IF q \in TakesPart /\ state[q].remote THEN "chunked" ELSE "plain"
    BY <1>1 DEF AgreeInv, DecidedInv
  <2>2. ASSUME NEW r \in Peers, r \in TakesPart PROVE due[r].settled /\ state[r].remote = due[r].remote
    <3>1. due[r].settled
      BY <1>1, <2>1, <2>2 DEF SettledInv
    <3> QED
      BY <1>1, <3>1 DEF IInv, DueInv
  <2>3. CASE \E r \in Peers : \E d \in made[r] : d.kind = "answer" /\ d.declares
    <3>1. PICK r \in Peers : \E d \in made[r] : d.kind = "answer" /\ d.declares
      BY <2>3
    <3>2. r \in TakesPart /\ OthersTakePart(r)
      BY <1>1, <3>1 DEF AgreeInv, AnswerInv
    <3>3. Peers \subseteq TakesPart
      BY <3>2 DEF OthersTakePart, TwoPeers
    <3>4. \A s \in Peers : \A e \in made[s] : e.kind = "answer" => e.declares
      <4>1. PICK d \in made[r] : d.kind = "answer" /\ d.declares
        BY <3>1
      <4>2. ASSUME NEW s \in Peers, NEW e \in made[s], e.kind = "answer" PROVE e.declares
        BY <4>1, <4>2 DEF RoundsAlike
      <4> QED
        BY <4>2
    <3>5. EveryRoundChunks
      BY <3>3, <3>4 DEF EveryRoundChunks
    <3>6. ASSUME NEW s \in Peers PROVE due[s].remote
      <4>1. Wrong(s, signaling[s], chain[s], up[s], due[s])
        BY <1>1, <3>5 DEF AgreeInv, ChunkedInv
      <4>2. up[s] /\ due[s].settled
        BY <2>1, <2>2, <3>3
      <4> QED
        BY <4>1, <4>2 DEF Wrong
    <3>7. /\ p \in TakesPart /\ state[p].remote
          /\ q \in TakesPart /\ state[q].remote
      BY <2>2, <3>3, <3>6
    <3> QED
      BY <2>1, <3>7
  <2>4. CASE ~ \E r \in Peers : \E d \in made[r] : d.kind = "answer" /\ d.declares
    <3>1. \A s \in Peers : ~due[s].remote
      BY <1>1, <2>4 DEF AgreeInv, AnswerInv
    <3>2. /\ ~(p \in TakesPart /\ state[p].remote)
          /\ ~(q \in TakesPart /\ state[q].remote)
      BY <2>2, <3>1
    <3> QED
      BY <2>1, <3>2
  <2> QED
    BY <2>3, <2>4
<1> QED
  BY <1>1, Inductive, SettledInductive, AgreeInductive, PTL

=============================================================================
