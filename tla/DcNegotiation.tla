--------------------------- MODULE DcNegotiation ---------------------------
(***************************************************************************)
(* Whether the data channels between two peers are chunked: what each peer  *)
(* connection records of the descriptions it applies (DcNegotiation,        *)
(* dc_chunking.rs), how set_local_description and set_remote_description     *)
(* hand them to libwebrtc (peer_connection.rs), and the decision each        *)
(* channel takes once, when it opens.                                       *)
(*                                                                         *)
(* The signalling between the peers is the application's: it carries a      *)
(* description that its sender has applied, any number of times, in any     *)
(* order, or never.  A peer's parameters are a BOOLEAN, declared or not.    *)
(***************************************************************************)
EXTENDS Naturals, Sequences

CONSTANTS
    Peers,        \* the two ends
    AppThreads,   \* application threads of a peer
    Signaling,    \* a peer's signaling thread, from an observer callback
    NoThread,     \* nobody holds the lock
    Channels,     \* data channels, one end at each peer
    Modes,        \* what the peers start with: see Mode
    Refusals      \* bound: valid descriptions libwebrtc refuses

Threads == AppThreads \cup {Signaling}

SdpTypes == {"offer", "pranswer", "answer", "rollback"}

\* The peers whose factory was built with_dc_chunking, the SdpTypes the
\* applications use, and (bound) the descriptions each thread of each peer applies.
Mode == [takesPart : SUBSET Peers, kinds : SUBSET SdpTypes,
         applies : [Peers -> [Threads -> Nat]]]

ASSUME ThreadsAssumption == NoThread \notin Threads
ASSUME ModesAssumption   == Modes \subseteq Mode
ASSUME BoundsAssumption  == Refusals \in Nat

VARIABLES
    state,      \* DcNegotiation::state
    applying,   \* holder of DcNegotiation::applying, or NoThread
    at,         \* where each thread is in set_*_description
    op,         \* the description it is applying
    before,     \* its local `before`: the state its record found
    chain,      \* libwebrtc's operations, in order
    signaling,  \* libwebrtc's signaling state
    up,         \* libwebrtc has applied an answer at this peer
    answering,  \* answers libwebrtc has made and create_answer has yet to declare
    made,       \* descriptions the peer has created
    sent,       \* descriptions applied locally and handed to the signalling
    decided,    \* ChannelCore::decided of each end of each channel
    mode, refusals,     \* the bounds
    due,        \* history: the state without the descriptions refused in time
    misled      \* history: kinds refused after their apply had timed out

ownVars    == <<state, applying, before, due>>
threadVars == <<at, op>>
nativeVars == <<chain, signaling, up, refusals, misled>>
appVars    == <<answering, made, sent, mode>>
vars       == <<ownVars, threadVars, nativeVars, appVars, decided>>

TakesPart == mode.takesPart
Kinds     == mode.kinds

NegotiationState == [settled : BOOLEAN, remote : BOOLEAN, pending : BOOLEAN, declared : BOOLEAN]
Description      == [kind : SdpTypes, by : Peers, declares : BOOLEAN]
Op               == [desc : Description, by : Threads, late : BOOLEAN]

\* What op holds outside a call.
NoDescription == [kind |-> "none", by |-> NoThread, declares |-> FALSE]

-----------------------------------------------------------------------------
(* The bookkeeping a description moves.                                    *)

\* Mutant: the last round counts.
Settle_Again(s, params) == [s EXCEPT !.settled = TRUE, !.remote = params]

\* settle: only the first round counts.
Settle(s, params) ==
    IF s.settled THEN s ELSE [s EXCEPT !.settled = TRUE, !.remote = params]

OnLocalDescription(s, d) ==
    CASE d.kind = "offer"    -> [s EXCEPT !.declared = d.declares]
      [] d.kind = "answer"   -> Settle([s EXCEPT !.pending = FALSE], s.pending /\ d.declares)
      [] d.kind = "rollback" -> [s EXCEPT !.declared = FALSE]
      [] OTHER               -> s

\* Mutant: an answer settles as the offer declared.
OnRemoteDescription_AsOffered(s, d) ==
    CASE d.kind = "offer"    -> [s EXCEPT !.pending = d.declares]
      [] d.kind = "answer"   -> Settle(s, s.declared)
      [] d.kind = "rollback" -> [s EXCEPT !.pending = FALSE]
      [] OTHER               -> s

OnRemoteDescription(s, d) ==
    CASE d.kind = "offer"    -> [s EXCEPT !.pending = d.declares]
      [] d.kind = "answer"   -> Settle(s, d.declares /\ s.declared)
      [] d.kind = "rollback" -> [s EXCEPT !.pending = FALSE]
      [] OTHER               -> s

Record(p, s, d) == IF d.by = p THEN OnLocalDescription(s, d) ELSE OnRemoteDescription(s, d)

-----------------------------------------------------------------------------
(* create_offer and create_answer.                                         *)

\* libwebrtc makes a description for a thread that is in no other call, once it
\* has worked off what was asked of it before.
CanCreate(p) == chain[p] = <<>> /\ \E t \in Threads : at[p][t] = "idle"

CreateOffer(p) ==
    /\ CanCreate(p)
    /\ "offer" \in Kinds
    /\ signaling[p] # "remoteOffer"
    /\ made' = [made EXCEPT ![p] = @ \cup
                   {[kind |-> "offer", by |-> p, declares |-> p \in TakesPart]}]
    /\ UNCHANGED <<ownVars, threadVars, nativeVars, answering, sent, mode, decided>>

\* libwebrtc makes an answer, of the kind the application will give it.
MakeAnswer(p, kind) ==
    /\ CanCreate(p)
    /\ signaling[p] = "remoteOffer"
    /\ kind \notin answering[p]
    /\ answering' = [answering EXCEPT ![p] = @ \cup {kind}]
    /\ UNCHANGED <<ownVars, threadVars, nativeVars, made, sent, mode, decided>>

\* It mirrors the offer recorded as pending by the time the call reads that.
CreateAnswer(p, kind) ==
    /\ kind \in answering[p]
    /\ answering' = [answering EXCEPT ![p] = @ \ {kind}]
    /\ made' = [made EXCEPT ![p] = @ \cup
                   {[kind |-> kind, by |-> p,
                     declares |-> p \in TakesPart /\ state[p].pending]}]
    /\ UNCHANGED <<ownVars, threadVars, nativeVars, sent, mode, decided>>

-----------------------------------------------------------------------------
(* set_local_description and set_remote_description.                       *)

\* The signaling state after a local or remote description of this kind, or "invalid".
After(st, local, kind) ==
    LET offer   == IF local THEN "localOffer" ELSE "remoteOffer"
        answers == IF local THEN {"remoteOffer", "localPr"} ELSE {"localOffer", "remotePr"}
    IN CASE kind = "offer"    /\ st \in {"stable", offer}             -> offer
         [] kind = "rollback" /\ st \in {"localOffer", "remoteOffer"} -> "stable"
         [] kind = "answer"   /\ st \in answers                       -> "stable"
         [] kind = "pranswer" /\ st \in answers -> IF local THEN "localPr" ELSE "remotePr"
         [] OTHER                                                     -> "invalid"

\* What the application may apply at p: what the signalling brought, whenever
\* it arrives, and a description or rollback of its own that fits the signaling
\* state it sees.
Descriptions(p) ==
    {d \in sent : d.by # p}
      \cup {d \in made[p] \cup [kind : {"rollback"} \cap Kinds, by : Peers, declares : {FALSE}] :
              After(signaling[p], d.by = p, d.kind) # "invalid"}

Call(p, t) ==
    /\ at[p][t] = "idle"
    /\ mode.applies[p][t] > 0
    /\ \E d \in Descriptions(p) : op' = [op EXCEPT ![p][t] = d]
    /\ mode' = [mode EXCEPT !.applies[p][t] = @ - 1]
    /\ at' = [at EXCEPT ![p][t] = "wait"]
    /\ UNCHANGED <<ownVars, nativeVars, answering, made, sent, decided>>

\* A refused description is undone, where there is anything to undo.
Refused(p, t) ==
    /\ at' = [at EXCEPT ![p][t] = IF p \in TakesPart THEN "undo" ELSE "idle"]
    /\ op' = [op EXCEPT ![p][t] = NoDescription]

\* Mutant: the record takes the description with it.
Begin_TakesDescription(p, t) ==
    /\ at[p][t] = "wait"
    /\ applying[p] = NoThread
    /\ applying' = [applying EXCEPT ![p] = t]
    /\ state' = [state EXCEPT ![p] = Record(p, @, op[p][t])]
    /\ before' = [before EXCEPT ![p][t] = state[p]]
    /\ op' = [op EXCEPT ![p][t] = NoDescription]
    /\ at' = [at EXCEPT ![p][t] = "call"]
    /\ UNCHANGED <<due, nativeVars, appVars, decided>>

\* apply: take the lock and record.  Without settings, neither.
Begin(p, t) ==
    /\ at[p][t] = "wait"
    /\ \/ /\ p \in TakesPart
          /\ applying[p] = NoThread
          /\ applying' = [applying EXCEPT ![p] = t]
          /\ state' = [state EXCEPT ![p] = Record(p, @, op[p][t])]
          /\ before' = [before EXCEPT ![p][t] = state[p]]
       \/ /\ p \notin TakesPart
          /\ UNCHANGED <<applying, state, before>>
    /\ at' = [at EXCEPT ![p][t] = "call"]
    /\ UNCHANGED <<due, op, nativeVars, appVars, decided>>

\* The native call hands the description to libwebrtc, or refuses text that
\* does not parse on the spot.
Hand(p, t) ==
    /\ at[p][t] = "call"
    /\ \/ /\ chain' = [chain EXCEPT ![p] =
                          Append(@, [desc |-> op[p][t], by |-> t, late |-> FALSE])]
          /\ at' = [at EXCEPT ![p][t] = "native"]
          /\ UNCHANGED <<refusals, op>>
       \/ /\ refusals > 0
          /\ refusals' = refusals - 1
          /\ Refused(p, t)
          /\ UNCHANGED chain
    /\ UNCHANGED <<ownVars, signaling, up, misled, appVars, decided>>

\* The apply returns and lets the lock go; what it recorded stays.
Return(p, t) ==
    /\ at' = [at EXCEPT ![p][t] = "idle"]
    /\ op' = [op EXCEPT ![p][t] = NoDescription]
    /\ applying' = [applying EXCEPT ![p] = IF @ = t THEN NoThread ELSE @]
    /\ due' = [due EXCEPT ![p] = IF p \in TakesPart THEN Record(p, @, op[p][t]) ELSE @]
    /\ UNCHANGED <<state, before>>

\* Mutant: a timeout is undone as a refusal is.
TimeOut_Undoes(p, t) ==
    /\ at[p][t] = "native"
    /\ Refused(p, t)
    /\ chain' = [chain EXCEPT ![p] = [i \in DOMAIN chain[p] |->
                    IF chain[p][i].by = t THEN [chain[p][i] EXCEPT !.late = TRUE]
                                          ELSE chain[p][i]]]
    /\ UNCHANGED <<ownVars, signaling, up, refusals, misled, appVars, decided>>

\* OP_TIMEOUT passes: the record stays and libwebrtc still has the description.
TimeOut(p, t) ==
    /\ at[p][t] = "native"
    /\ Return(p, t)
    /\ chain' = [chain EXCEPT ![p] = [i \in DOMAIN chain[p] |->
                    IF chain[p][i].by = t THEN [chain[p][i] EXCEPT !.late = TRUE]
                                     ELSE chain[p][i]]]
    /\ UNCHANGED <<signaling, up, refusals, misled, appVars, decided>>

\* Mutant: the whole of the undo is missing.
Undo_KeepsRecord(p, t) ==
    /\ at[p][t] = "undo"
    /\ applying' = [applying EXCEPT ![p] = NoThread]
    /\ at' = [at EXCEPT ![p][t] = "idle"]
    /\ UNCHANGED <<state, before, due, op, nativeVars, appVars, decided>>

\* Mutant: the lock outlives the apply.
Undo_KeepsLock(p, t) ==
    /\ at[p][t] = "undo"
    /\ state' = [state EXCEPT ![p] = before[p][t]]
    /\ at' = [at EXCEPT ![p][t] = "idle"]
    /\ UNCHANGED <<applying, before, due, op, nativeVars, appVars, decided>>

\* A rejected description: back to what the record found.
Undo(p, t) ==
    /\ at[p][t] = "undo"
    /\ state' = [state EXCEPT ![p] = before[p][t]]
    /\ applying' = [applying EXCEPT ![p] = NoThread]
    /\ at' = [at EXCEPT ![p][t] = "idle"]
    /\ UNCHANGED <<before, due, op, nativeVars, appVars, decided>>

-----------------------------------------------------------------------------
(* libwebrtc, on the signaling thread: one operation after the other, none  *)
(* while an observer callback holds that thread in a call of its own.       *)

Turn(p) == chain[p] # <<>> /\ at[p][Signaling] = "idle"

HeadAfter(p) ==
    LET d == Head(chain[p]).desc
    IN After(signaling[p], d.by = p, d.kind)

\* The description is applied; the answer completes a round, and SCTP may start.
Accept(p) ==
    LET o == Head(chain[p])
    IN /\ Turn(p)
       /\ HeadAfter(p) # "invalid"
       /\ chain' = [chain EXCEPT ![p] = Tail(@)]
       /\ signaling' = [signaling EXCEPT ![p] = HeadAfter(p)]
       /\ up' = [up EXCEPT ![p] = @ \/ o.desc.kind \in {"answer", "pranswer"}]
       /\ \/ /\ ~o.late
             /\ Return(p, o.by)
             /\ sent' = IF o.desc.by = p /\ o.desc.kind # "rollback"
                        THEN sent \cup {o.desc} ELSE sent
          \/ /\ o.late
             /\ UNCHANGED <<ownVars, threadVars, sent>>
       /\ UNCHANGED <<refusals, misled, answering, made, mode, decided>>

\* It is refused, for its place or for a reason of libwebrtc's own.
Reject(p) ==
    LET o == Head(chain[p])
    IN /\ Turn(p)
       /\ \/ /\ HeadAfter(p) = "invalid"
             /\ UNCHANGED refusals
          \/ /\ HeadAfter(p) # "invalid"
             /\ refusals > 0
             /\ refusals' = refusals - 1
       /\ chain' = [chain EXCEPT ![p] = Tail(@)]
       /\ \/ /\ ~o.late
             /\ Refused(p, o.by)
             /\ UNCHANGED misled
          \/ /\ o.late
             /\ misled' = misled \cup {o.desc.kind}
             /\ UNCHANGED threadVars
       /\ UNCHANGED <<ownVars, signaling, up, appVars, decided>>

\* Once both ends have applied an answer the association can come up, and a
\* channel opens and decides at any moment (ChannelCore::chunked).
Decide(p, c) ==
    /\ \A q \in Peers : up[q]
    /\ decided[p][c] = "no"
    /\ decided' = [decided EXCEPT ![p][c] =
                     IF p \in TakesPart /\ state[p].remote THEN "chunked" ELSE "plain"]
    /\ UNCHANGED <<ownVars, threadVars, nativeVars, appVars>>

-----------------------------------------------------------------------------

Fresh == [settled |-> FALSE, remote |-> FALSE, pending |-> FALSE, declared |-> FALSE]

Init ==
    /\ state = [p \in Peers |-> Fresh]
    /\ due = [p \in Peers |-> Fresh]
    /\ before = [p \in Peers |-> [t \in Threads |-> Fresh]]
    /\ applying = [p \in Peers |-> NoThread]
    /\ at = [p \in Peers |-> [t \in Threads |-> "idle"]]
    /\ op = [p \in Peers |-> [t \in Threads |-> NoDescription]]
    /\ chain = [p \in Peers |-> <<>>]
    /\ signaling = [p \in Peers |-> "stable"]
    /\ up = [p \in Peers |-> FALSE]
    /\ answering = [p \in Peers |-> {}]
    /\ made = [p \in Peers |-> {}]
    /\ sent = {}
    /\ decided = [p \in Peers |-> [c \in Channels |-> "no"]]
    /\ mode \in Modes
    /\ refusals = Refusals
    /\ misled = {}

Next ==
    \E p \in Peers :
        \/ CreateOffer(p)
        \/ \E kind \in Kinds \cap {"answer", "pranswer"} :
              MakeAnswer(p, kind) \/ CreateAnswer(p, kind)
        \/ \E t \in Threads : Call(p, t) \/ Begin(p, t) \/ Hand(p, t) \/ TimeOut(p, t) \/ Undo(p, t)
        \/ Accept(p) \/ Reject(p)
        \/ \E c \in Channels : Decide(p, c)

Spec == Init /\ [][Next]_vars

\* libwebrtc works off its operations, and a thread inside a call runs; the
\* lock is handed to somebody who waits for it.
Fairness ==
    \A p \in Peers :
        /\ WF_vars(Accept(p) \/ Reject(p))
        /\ \A t \in Threads : WF_vars(Hand(p, t) \/ TimeOut(p, t) \/ Undo(p, t))
        /\ \A t \in Threads : WF_vars(Begin(p, t))

FairSpec == Spec /\ Fairness

-----------------------------------------------------------------------------
(* Correctness.                                                            *)

\* Every variable keeps to the values the code's types allow it.
TypeOK ==
    /\ state \in [Peers -> NegotiationState]
    /\ due \in [Peers -> NegotiationState]
    /\ before \in [Peers -> [Threads -> NegotiationState]]
    /\ applying \in [Peers -> Threads \cup {NoThread}]
    /\ at \in [Peers -> [Threads -> {"idle", "wait", "call", "native", "undo"}]]
    /\ op \in [Peers -> [Threads -> Description \cup {NoDescription}]]
    /\ chain \in [Peers -> Seq(Op)]
    /\ signaling \in [Peers -> {"stable", "localOffer", "remoteOffer", "localPr", "remotePr"}]
    /\ up \in [Peers -> BOOLEAN]
    /\ answering \in [Peers -> SUBSET {"answer", "pranswer"}]
    /\ made \in [Peers -> SUBSET Description]
    /\ sent \in SUBSET Description
    /\ decided \in [Peers -> [Channels -> {"no", "plain", "chunked"}]]
    /\ mode \in Mode
    /\ refusals \in Nat
    /\ misled \in SUBSET SdpTypes

\* A description refused in time leaves no trace, and its undo takes away
\* nothing that another thread's description recorded: between two applies the
\* state is what the other descriptions alone make of it (apply's comment).
RefusedLeavesNoTrace ==
    \A p \in Peers : applying[p] = NoThread => state[p] = due[p]

\* The record comes before the native apply: by the time libwebrtc has applied
\* an answer and channels may open, a peer that takes part has settled.
RecordedBeforeFlowing ==
    \A p \in TakesPart : up[p] => state[p].settled

\* Once a channel has decided, no description, refused ones and their undo
\* included, moves what the next channel will decide.
FixedOnceDecided ==
    [][\A p \in Peers : (\E c \in Channels : decided[p][c] # "no")
          => state'[p].remote = state[p].remote]_vars

TwinsAgree ==
    \A c \in Channels : \A p, q \in Peers :
        decided[p][c] # "no" /\ decided[q][c] # "no" => decided[p][c] = decided[q][c]

\* Every answer made so far declares what the others do.
RoundsAlike ==
    \A p, q \in Peers : \A d \in made[p], e \in made[q] :
        d.kind = "answer" /\ e.kind = "answer" => d.declares = e.declares

\* The two ends of a channel reach the same decision, whenever each is asked,
\* as long as every round declares alike and libwebrtc refuses no answer or
\* rollback after its apply has timed out.
TwinsAgreeUnlessMisled ==
    RoundsAlike /\ misled \cap {"answer", "rollback"} = {} => TwinsAgree

\* A description applied while another is in progress waits for it and no
\* longer, even when an observer callback applies one on the very thread that
\* libwebrtc needs to answer.
EveryApplyReturns ==
    \A p \in Peers : \A t \in Threads : at[p][t] = "wait" ~> at[p][t] = "idle"

=========================================================================
