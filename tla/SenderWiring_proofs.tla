------------------------ MODULE SenderWiring_proofs ------------------------
(***************************************************************************)
(* More proofs about SenderMeta: what is wired once every call has returned,  *)
(* and that a sender embeds the metadata of the track it sends.              *)
(***************************************************************************)
EXTENDS SenderMeta_proofs

-----------------------------------------------------------------------------
(* The inductive invariant.                                                *)

\* The metadata step and the flag of the slot that a key finds.
Meta(k) == IF registry[k] = 0 THEN Nothing ELSE slots[registry[k]].meta
Flag(k) == registry[k] # 0 /\ slots[registry[k]].installed

Wires(o) == o.call \in {"install", "set_track"}

\* What a call has read, by the place it is at.
Reads(o) ==
    /\ o.at = "idle" => o = Idle
    /\ o.at \in {"install", "prune", "next", "allowed", "lookup", "lookupReceiver"} =>
          o.call = "install"
    /\ o.at \in {"allowed", "lookup", "lookupReceiver"} => o.key[2] = "send"
    /\ o.at \in {"reread", "update", "swap", "gate"} => o.call = "set_track"
    /\ o.call = "set_track" =>
          /\ o.at \in KeyLabels /\ o.key[2] = "send" /\ tc[o.key[1]].track \in Tracks
    /\ o.at \in {"update", "swap", "gate"} => o.fill \in Tracks
    /\ o.at \in {"slot", "fill"} /\ o.call # "transform" =>
          /\ Wires(o)
          /\ o.key[2] = "send" => o.fill \in Tracks
          /\ o.key[2] = "receive" => o.fill = tc[o.key[1]].nth
    /\ o.at \in {"claim", "attach"} => Wires(o) \/ o.call = "transform"
    /\ o.at \in {"release", "unclaim"} => mode.fails

ReadInv == \A t \in Threads : Reads(op[t])

\* A slot with a metadata step is installed, or its filler is about to claim it.
FilledInv ==
    ~mode.fails => \A k \in Keys :
        Meta(k) # Nothing =>
            Flag(k) \/ \E t \in Threads : op[t].at = "claim" /\ op[t].key = k /\ Wires(op[t])

\* The call o will come to all transceivers, or to a among them.
WillWalk(o, a) ==
    \/ o.at \in {"arm", "install"}
    \/ /\ o.call = "install" /\ a \in o.todo
       /\ o.at \in {"prune", "next", "allowed", "lookup", "lookupReceiver", "slot", "fill",
                    "claim", "attach", "release", "unclaim"}

WillEmbed(o, a) ==
    \/ WillWalk(o, a)
    \/ o.key = <<a, "send">> /\ o.at \in {"allowed", "lookup", "reread"}
    \/ o.key = <<a, "send">> /\ o.at \in {"update", "swap", "gate"} /\ o.fill = tc[a].track
    \/ o.key = <<a, "send">> /\ o.at \in {"slot", "fill"} /\ Wires(o)

WillStrip(o, a) ==
    \/ WillWalk(o, a)
    \/ /\ o.key = <<a, "send">> /\ o.call = "install"
       /\ o.at \in {"allowed", "lookup", "lookupReceiver", "slot", "fill", "claim", "attach",
                    "release", "unclaim"}
    \/ o.key = <<a, "receive">> /\ o.call = "install" /\ o.at \in {"slot", "fill"}

\* With the gate open a side that is due and has no step yet is a call's in progress.
DueInv ==
    gate => \A a \in Up :
        /\ tc[a].track \in wrapped \ OffTracks =>
              Meta(<<a, "send">>) # Nothing \/ \E t \in Threads : WillEmbed(op[t], a)
        /\ tc[a].remote = "live" =>
              Meta(<<a, "receive">>) = tc[a].nth \/ \E t \in Threads : WillStrip(op[t], a)

\* Of a set_track: no other thread is wiring, and it works for the track it has set.
SetsAlone ==
    \A t \in Threads : op[t].call = "set_track" =>
        /\ \A u \in Threads \ {t} : ~Wires(op[u])
        /\ op[t].lent = tc[op[t].key[1]].track /\ op[t].lent \in wrapped
        /\ op[t].at \in {"update", "swap", "gate", "slot", "fill"} => op[t].fill = op[t].lent

\* An install has read the track that the sender still has.
ReadCurrent ==
    \A t \in Threads :
        op[t].call = "install" /\ op[t].at \in {"slot", "fill"} /\ op[t].key[2] = "send" =>
            op[t].fill = tc[op[t].key[1]].track

\* A sender embeds the metadata of its track, or a set_track is about to see to it.
Follows(o, a) == /\ o.call = "set_track" /\ o.key = <<a, "send">>
                 /\ o.at \in {"reread", "update", "swap"}

EmbedsOwn ==
    \A a \in Up : Meta(<<a, "send">>) # Nothing =>
        Meta(<<a, "send">>) = tc[a].track \/ \E t \in Threads : Follows(op[t], a)

SourceInv == ~raced /\ ~mode.fails => SetsAlone /\ ReadCurrent /\ EmbedsOwn

-----------------------------------------------------------------------------
(* What a step does to its thread's call.                                   *)

\* The call goes on to another place with all that it has.
Goes(t, l) ==
    /\ op'[t].at = l /\ op'[t].key = op[t].key /\ op'[t].fill = op[t].fill
    /\ op'[t].call = op[t].call /\ op'[t].todo = op[t].todo /\ op'[t].lent = op[t].lent

\* One side is done.
Left(t) ==
    \/ op[t].call # "install" /\ op'[t] = Idle
    \/ /\ op[t].call = "install" /\ op'[t].call = "install"
       /\ op'[t].key = op[t].key /\ op'[t].todo = op[t].todo
       /\ op'[t].at = IF op[t].key[2] = "send" THEN "lookupReceiver" ELSE "next"

LEMMA GoGoes ==
    ASSUME op \in [Threads -> Op], NEW t \in Threads, NEW l, Go(t, l)
    PROVE  Goes(t, l)
<1> DEFINE r == [op[t] EXCEPT !.at = l]
<1>1. op'[t] = r /\ op[t] \in Op
  BY DEF Go
<1>2. /\ r.at = l /\ r.key = op[t].key /\ r.fill = op[t].fill /\ r.call = op[t].call
      /\ r.todo = op[t].todo /\ r.lent = op[t].lent
  BY <1>1 DEF Op
<1> HIDE DEF r
<1> QED
  BY <1>1, <1>2 DEF Goes

LEMMA SlotGoes ==
    ASSUME op \in [Threads -> Op], NEW t \in Threads, NEW l, SlotFor(t, l)
    PROVE  Goes(t, l)
<1>1. ASSUME NEW x, op' = [op EXCEPT ![t].at = l, ![t].slot = x]
      PROVE  Goes(t, l)
  <2> DEFINE r == [op[t] EXCEPT !.at = l, !.slot = x]
  <2>1. op'[t] = r /\ op[t] \in Op
    BY <1>1
  <2>2. /\ r.at = l /\ r.key = op[t].key /\ r.fill = op[t].fill /\ r.call = op[t].call
        /\ r.todo = op[t].todo /\ r.lent = op[t].lent
    BY <2>1 DEF Op
  <2> HIDE DEF r
  <2> QED
    BY <2>1, <2>2 DEF Goes
<1>2. \E x : op' = [op EXCEPT ![t].at = l, ![t].slot = x]
  BY DEF SlotFor
<1> QED
  BY <1>1, <1>2

LEMMA LeaveLeft ==
    ASSUME op \in [Threads -> Op], NEW t \in Threads, Leave(t)
    PROVE  Left(t)
<1> DEFINE l == IF op[t].key[2] = "send" THEN "lookupReceiver" ELSE "next"
           r == [op[t] EXCEPT !.at = l, !.slot = 0, !.fill = Nothing]
<1>1. op'[t] = (IF op[t].call # "install" THEN Idle ELSE r) /\ op[t] \in Op
  BY DEF Leave
<1>2. r.at = l /\ r.key = op[t].key /\ r.call = op[t].call /\ r.todo = op[t].todo
  BY <1>1 DEF Op
<1> HIDE DEF r
<1> QED
  BY <1>1, <1>2 DEF Left

\* The walk over the transceivers; its questions are about the sender's track.
WalkMove(t) ==
    \/ op[t].at = "arm" /\ op'[t].at = "install" /\ op'[t].call = "install"
    \/ op[t].at = "install" /\ ~gate /\ op'[t] = Idle
    \/ /\ op[t].at = "install" /\ op'[t].at = "prune"
       /\ op'[t].call = op[t].call /\ op'[t].todo = Up
    \/ op[t].at = "prune" /\ Goes(t, "next")
    \/ op[t].at = "next" /\ op[t].todo = {} /\ op'[t] = Idle
    \/ /\ op[t].at = "next" /\ op'[t].at = "allowed" /\ op'[t].call = op[t].call
       /\ \E a \in op[t].todo : /\ op'[t].key = <<a, "send">> /\ op'[t].todo = op[t].todo \ {a}
    \/ op[t].at = "allowed" /\ Goes(t, "lookup")
    \/ /\ op[t].at = "allowed" /\ ~Allowed(tc[op[t].key[1]].track)
       /\ Goes(t, "lookupReceiver")
    \/ /\ op[t].at = "lookup" /\ Known(tc[op[t].key[1]].track)
       /\ op'[t].at = "slot" /\ op'[t].fill = tc[op[t].key[1]].track
       /\ op'[t].key = op[t].key /\ op'[t].call = op[t].call /\ op'[t].todo = op[t].todo
    \/ /\ op[t].at = "lookup" /\ ~Known(tc[op[t].key[1]].track)
       /\ Goes(t, "lookupReceiver")
    \/ /\ op[t].at = "lookupReceiver" /\ tc[op[t].key[1]].remote = "live"
       /\ op'[t].at = "slot" /\ op'[t].fill = tc[op[t].key[1]].nth
       /\ op'[t].key = <<op[t].key[1], "receive">>
       /\ op'[t].call = op[t].call /\ op'[t].todo = op[t].todo
    \/ /\ op[t].at = "lookupReceiver" /\ tc[op[t].key[1]].remote # "live"
       /\ Goes(t, "next")

\* The rest of set_track.
SetMove(t) ==
    \/ /\ op[t].at = "reread" /\ op'[t].at = "update"
       /\ op'[t].fill = tc[op[t].key[1]].track
       /\ op'[t].key = op[t].key /\ op'[t].call = op[t].call /\ op'[t].lent = op[t].lent
    \/ op[t].at = "update" /\ Known(op[t].fill) /\ Goes(t, "swap")
    \/ op[t].at = "update" /\ ~Known(op[t].fill) /\ Goes(t, "gate")
    \/ op[t].at = "swap" /\ Goes(t, "gate")
    \/ op[t].at = "gate" /\ Goes(t, "slot")
    \/ /\ op[t].at = "gate" /\ ~(gate /\ Allowed(op[t].fill) /\ Known(op[t].fill))
       /\ op'[t] = Idle

\* One side of a transceiver.
AttachMove(t) ==
    \/ op[t].at = "slot" /\ Goes(t, "fill")
    \/ op[t].at = "fill" /\ Goes(t, "claim")
    \/ op[t].at = "claim" /\ (Left(t) \/ Goes(t, "attach"))
    \/ op[t].at = "attach" /\ Left(t)
    \/ op[t].at = "attach" /\ mode.fails /\ Goes(t, "release")
    \/ op[t].at = "release" /\ Goes(t, "unclaim")
    \/ op[t].at = "unclaim" /\ Left(t)

LEMMA WalkMoves ==
    ASSUME TypeInv, NEW t \in Threads, InstallStep(t)
    PROVE  WalkMove(t) /\ \A u \in Threads \ {t} : op'[u] = op[u]
<1>t. op \in [Threads -> Op] /\ op[t] \in Op
  BY ThreadTypes
<1>u. \A u \in Threads \ {t} : op'[u] = op[u]
  BY Steps
<1>r. ASSUME NEW r, op' = [op EXCEPT ![t] = r]
      PROVE  op'[t] = r
  BY <1>r, <1>t
<1>1. CASE ArmGate(t)
  <2>1. op[t].at = "arm" /\ op'[t].at = "install" /\ op'[t].call = "install"
    BY <1>1, <1>t, InstallFields DEF ArmGate
  <2> QED
    BY <2>1, <1>u DEF WalkMove
<1>2. CASE Enumerate(t)
  <2> DEFINE r == [op[t] EXCEPT !.at = "prune", !.handles = Up, !.todo = Up]
  <2>1. op[t].at = "install" /\ op'[t] = IF gate THEN r ELSE Idle
    BY <1>2, <1>t DEF Enumerate
  <2>2. r.at = "prune" /\ r.call = op[t].call /\ r.todo = Up
    BY <1>t DEF Op
  <2> HIDE DEF r
  <2> QED
    BY <2>1, <2>2, <1>u DEF WalkMove
<1>3. CASE PruneStaleSlots(t)
  <2>1. op[t].at = "prune" /\ Goes(t, "next")
    BY <1>3, <1>t, GoGoes DEF PruneStaleSlots
  <2> QED
    BY <2>1, <1>u DEF WalkMove
<1>4. CASE NextTransceiver(t)
  <2>1. CASE op[t].todo = {}
    BY <2>1, <1>4, <1>t, <1>u DEF NextTransceiver, WalkMove
  <2>2. CASE op[t].todo # {}
    <3>1. PICK a \in op[t].todo :
             op' = [op EXCEPT ![t].at = "allowed", ![t].key = <<a, "send">>, ![t].todo = @ \ {a}]
      BY <2>2, <1>4 DEF NextTransceiver
    <3> DEFINE r == [op[t] EXCEPT !.at = "allowed", !.key = <<a, "send">>,
                                  !.todo = op[t].todo \ {a}]
    <3>2. op'[t] = r /\ op[t].at = "next"
      BY <3>1, <1>4, <1>t DEF NextTransceiver
    <3>3. /\ r.at = "allowed" /\ r.call = op[t].call /\ r.key = <<a, "send">>
          /\ r.todo = op[t].todo \ {a}
      BY <1>t DEF Op
    <3> HIDE DEF r
    <3> QED
      BY <3>2, <3>3, <1>u DEF WalkMove
  <2> QED
    BY <2>1, <2>2
<1>5. CASE CheckAllowed(t)
  <2>1. op[t].at = "allowed"
    BY <1>5 DEF CheckAllowed
  <2>2. CASE Allowed(tc[op[t].key[1]].track)
    <3>1. Goes(t, "lookup")
      BY <2>2, <1>5, <1>t, GoGoes DEF CheckAllowed
    <3> QED
      BY <2>1, <3>1, <1>u DEF WalkMove
  <2>3. CASE ~Allowed(tc[op[t].key[1]].track)
    <3>1. Goes(t, "lookupReceiver")
      BY <2>3, <1>5, <1>t, GoGoes DEF CheckAllowed
    <3> QED
      BY <2>1, <2>3, <3>1, <1>u DEF WalkMove
  <2> QED
    BY <2>2, <2>3
<1>6. CASE LookupSource(t)
  <2> DEFINE track == tc[op[t].key[1]].track
             r == [op[t] EXCEPT !.at = "slot", !.fill = track]
             s == [op[t] EXCEPT !.at = "lookupReceiver"]
  <2>1. op[t].at = "lookup" /\ op'[t] = IF Known(track) THEN r ELSE s
    BY <1>6, <1>t DEF LookupSource
  <2>2. /\ r.at = "slot" /\ r.fill = track /\ r.key = op[t].key /\ r.call = op[t].call
        /\ r.todo = op[t].todo
    BY <1>t DEF Op
  <2>3. /\ s.at = "lookupReceiver" /\ s.fill = op[t].fill /\ s.key = op[t].key
        /\ s.call = op[t].call /\ s.todo = op[t].todo /\ s.lent = op[t].lent
    BY <1>t DEF Op
  <2> HIDE DEF r, s
  <2> QED
    BY <2>1, <2>2, <2>3, <1>u DEF WalkMove, Goes
<1>7. CASE LookupReceiver(t)
  <2> DEFINE a == op[t].key[1]
             r == [op[t] EXCEPT !.at = "slot", !.key = <<a, "receive">>, !.fill = tc[a].nth]
             s == [op[t] EXCEPT !.at = "next"]
  <2>1. op[t].at = "lookupReceiver" /\ op'[t] = IF tc[a].remote = "live" THEN r ELSE s
    BY <1>7, <1>t DEF LookupReceiver
  <2>2. /\ r.at = "slot" /\ r.fill = tc[a].nth /\ r.key = <<a, "receive">>
        /\ r.call = op[t].call /\ r.todo = op[t].todo
    BY <1>t DEF Op
  <2>3. /\ s.at = "next" /\ s.fill = op[t].fill /\ s.key = op[t].key
        /\ s.call = op[t].call /\ s.todo = op[t].todo /\ s.lent = op[t].lent
    BY <1>t DEF Op
  <2> HIDE DEF r, s
  <2> QED
    BY <2>1, <2>2, <2>3, <1>u DEF WalkMove, Goes
<1> QED
  BY <1>1, <1>2, <1>3, <1>4, <1>5, <1>6, <1>7 DEF InstallStep

LEMMA SetMoves ==
    ASSUME TypeInv, NEW t \in Threads, SetTrackStep(t)
    PROVE  SetMove(t) /\ \A u \in Threads \ {t} : op'[u] = op[u]
<1>t. op \in [Threads -> Op] /\ op[t] \in Op
  BY ThreadTypes
<1>u. \A u \in Threads \ {t} : op'[u] = op[u]
  BY Steps
<1>1. CASE Reread(t)
  <2> DEFINE track == tc[op[t].key[1]].track
             r == [op[t] EXCEPT !.at = "update", !.fill = track]
  <2>1. op[t].at = "reread" /\ op'[t] = r
    BY <1>1, <1>t DEF Reread
  <2>2. /\ r.at = "update" /\ r.fill = track /\ r.key = op[t].key /\ r.call = op[t].call
        /\ r.lent = op[t].lent
    BY <1>t DEF Op
  <2> HIDE DEF r
  <2> QED
    BY <2>1, <2>2, <1>u DEF SetMove
<1>2. CASE UpdateSource(t)
  <2>1. CASE Known(op[t].fill)
    <3>1. op[t].at = "update" /\ SlotFor(t, "swap")
      BY <2>1, <1>2 DEF UpdateSource
    <3>2. Goes(t, "swap")
      BY <3>1, <1>t, SlotGoes
    <3> QED
      BY <2>1, <3>1, <3>2, <1>u DEF SetMove
  <2>2. CASE ~Known(op[t].fill)
    <3>1. op[t].at = "update" /\ Go(t, "gate")
      BY <2>2, <1>2 DEF UpdateSource
    <3>2. Goes(t, "gate")
      BY <3>1, <1>t, GoGoes
    <3> QED
      BY <2>2, <3>1, <3>2, <1>u DEF SetMove
  <2> QED
    BY <2>1, <2>2
<1>3. CASE SwapSource(t)
  <2>1. op[t].at = "swap" /\ Goes(t, "gate")
    BY <1>3, <1>t, GoGoes DEF SwapSource
  <2> QED
    BY <2>1, <1>u DEF SetMove
<1>4. CASE EmbedAtOnce(t)
  <2>0. op[t].at = "gate"
    BY <1>4 DEF EmbedAtOnce
  <2>1. CASE gate /\ Allowed(op[t].fill) /\ Known(op[t].fill)
    <3>1. Goes(t, "slot")
      BY <2>1, <1>4, <1>t, GoGoes DEF EmbedAtOnce
    <3> QED
      BY <2>0, <3>1, <1>u DEF SetMove
  <2>2. CASE ~(gate /\ Allowed(op[t].fill) /\ Known(op[t].fill))
    <3>1. op'[t] = Idle
      BY <2>2, <1>4, <1>t DEF EmbedAtOnce
    <3> QED
      BY <2>0, <2>2, <3>1, <1>u DEF SetMove
  <2> QED
    BY <2>1, <2>2
<1> QED
  BY <1>1, <1>2, <1>3, <1>4 DEF SetTrackStep

LEMMA AttachMoves ==
    ASSUME TypeInv, NEW t \in Threads, AttachStep(t)
    PROVE  AttachMove(t) /\ \A u \in Threads \ {t} : op'[u] = op[u]
<1>t. op \in [Threads -> Op] /\ op[t] \in Op
  BY ThreadTypes
<1>u. \A u \in Threads \ {t} : op'[u] = op[u]
  BY Steps
<1>1. CASE TakeSlot(t)
  BY <1>1, <1>t, <1>u, SlotGoes DEF TakeSlot, AttachMove
<1>2. CASE FillSlot(t)
  BY <1>2, <1>t, <1>u, GoGoes DEF FillSlot, AttachMove
<1>3. CASE ClaimInstall(t)
  BY <1>3, <1>t, <1>u, GoGoes, LeaveLeft DEF ClaimInstall, Return, AttachMove
<1>4. CASE Attach(t)
  BY <1>4, <1>t, <1>u, LeaveLeft DEF Attach, Return, AttachMove
<1>5. CASE AttachFails(t)
  BY <1>5, <1>t, <1>u, GoGoes DEF AttachFails, AttachMove
<1>6. CASE ReleaseSlot(t)
  BY <1>6, <1>t, <1>u, SlotGoes DEF ReleaseSlot, AttachMove
<1>7. CASE ReleaseInstall(t)
  BY <1>7, <1>t, <1>u, LeaveLeft DEF ReleaseInstall, Return, AttachMove
<1> QED
  BY <1>1, <1>2, <1>3, <1>4, <1>5, <1>6, <1>7 DEF AttachStep

-----------------------------------------------------------------------------
(* What a step does to the slots.                                           *)

\* Metadata steps are set by fill and swap, flags by claim and unclaim, each those
\* of the key in hand; only keys without a transceiver lose their slots.
Effect(t) ==
    \A k \in Keys :
        /\ op[t].at = "prune" /\ k[1] \notin Up => Meta(k)' = Nothing
        /\ op[t].at # "prune" \/ k[1] \in Up =>
              /\ Meta(k)' = IF k = op[t].key /\ \/ op[t].at = "fill" /\ op[t].call # "transform"
                                                \/ op[t].at = "swap" /\ Flag(k) /\ Meta(k) # Nothing
                            THEN op[t].fill ELSE Meta(k)
              /\ Flag(k)' <=> \/ k = op[t].key /\ op[t].at = "claim"
                              \/ ~(k = op[t].key /\ op[t].at = "unclaim") /\ Flag(k)

\* Where registry and slots stay.
LEMMA NoEffect ==
    ASSUME NEW t \in Threads, registry' = registry, slots' = slots,
           op[t].at \notin {"prune", "fill", "swap", "claim", "unclaim"}
    PROVE  Effect(t)
BY DEF Effect, Meta, Flag

\* A slot that is made has no step and no flag.
LEMMA LookupEffect ==
    ASSUME TypeInv, NEW t \in Threads, NEW l \in Labels, SlotFor(t, l),
           op[t].at \in {"update", "slot", "release"}
    PROVE  Effect(t)
<1>1. op[t].key \in Keys /\ StateTypes /\ registry \in [Keys -> 0 .. Len(slots)]
  BY ThreadTypes DEF TypeInv, StateTypes, KeyLabels
<1>2. /\ \A i \in 1 .. Len(slots) : slots'[i] = slots[i]
      /\ Len(slots) \in Nat
      /\ \/ registry[op[t].key] # 0 /\ slots' = slots /\ registry' = registry
         \/ /\ registry[op[t].key] = 0 /\ Len(slots') = Len(slots) + 1
            /\ registry' = [registry EXCEPT ![op[t].key] = Len(slots')]
            /\ slots'[Len(slots')] = [caller |-> 0, meta |-> Nothing, installed |-> FALSE]
  BY <1>1, SlotFields
<1>3. CASE registry' = registry /\ slots' = slots
  BY <1>3, NoEffect
<1>4. CASE /\ registry[op[t].key] = 0 /\ Len(slots') = Len(slots) + 1
           /\ registry' = [registry EXCEPT ![op[t].key] = Len(slots')]
           /\ slots'[Len(slots')] = [caller |-> 0, meta |-> Nothing, installed |-> FALSE]
  <2> SUFFICES ASSUME NEW k \in Keys
               PROVE  Meta(k)' = Meta(k) /\ (Flag(k)' <=> Flag(k))
    BY DEF Effect
  <2>1. CASE k = op[t].key
    <3>1. registry'[k] = Len(slots') /\ registry'[k] # 0
      BY <2>1, <1>1, <1>2, <1>4
    <3>2. slots'[registry'[k]].meta = Nothing /\ ~slots'[registry'[k]].installed
      BY <3>1, <1>4
    <3> QED
      BY <2>1, <3>1, <3>2, <1>4 DEF Meta, Flag
  <2>2. CASE k # op[t].key
    <3>1. registry'[k] = registry[k] /\ registry[k] \in 0 .. Len(slots)
      BY <2>2, <1>1, <1>4
    <3>2. registry[k] # 0 => slots'[registry[k]] = slots[registry[k]]
      BY <3>1, <1>2
    <3> QED
      BY <3>1, <3>2 DEF Meta, Flag
  <2> QED
    BY <2>1, <2>2
<1> QED
  BY <1>2, <1>3, <1>4

\* A slot that is changed is its key's only.
LEMMA SlotEffect ==
    ASSUME TypeInv, RegistryInv, NEW t \in Threads, op[t].at \in SlotLabels, registry' = registry,
           \A j \in 1 .. Len(slots) : j # op[t].slot => slots'[j] = slots[j]
    PROVE  /\ op[t].key \in Keys /\ registry[op[t].key] = op[t].slot /\ op[t].slot # 0
           /\ \A k \in Keys : k # op[t].key => Meta(k)' = Meta(k) /\ (Flag(k)' <=> Flag(k))
<1>1. /\ op[t].key \in Keys /\ op[t].slot \in 1 .. Len(slots) /\ op[t].slot # 0
      /\ registry \in [Keys -> 0 .. Len(slots)] /\ Len(slots) \in Nat
  BY ThreadTypes, LabelFacts DEF TypeInv, StateTypes
<1>2. registry[op[t].key] = op[t].slot
  BY DEF RegistryInv
<1>3. ASSUME NEW k \in Keys, k # op[t].key
      PROVE  Meta(k)' = Meta(k) /\ (Flag(k)' <=> Flag(k))
  <2>1. registry[k] # op[t].slot
    BY <1>1, <1>2, <1>3 DEF RegistryInv
  <2>2. registry[k] # 0 => slots'[registry[k]] = slots[registry[k]]
    BY <1>1, <2>1
  <2> QED
    BY <2>2 DEF Meta, Flag
<1> QED
  BY <1>1, <1>2, <1>3

LEMMA FieldEffect ==
    ASSUME TypeInv, RegistryInv, NEW t \in Threads,
           FillSlot(t) \/ SwapSource(t) \/ ClaimInstall(t) \/ ReleaseInstall(t)
    PROVE  Effect(t)
<1>1. op[t].at \in {"fill", "swap", "claim", "unclaim"} /\ op[t].at \in SlotLabels
  BY DEF FillSlot, SwapSource, ClaimInstall, ReleaseInstall, SlotLabels
<1>2. registry' = registry
  BY DEF FillSlot, SwapSource, ClaimInstall, ReleaseInstall
<1>p. PICK k \in Keys : k = op[t].key
  BY <1>1, ThreadTypes, LabelFacts
<1>q. PICK i \in 1 .. Len(slots) : i = op[t].slot
  BY <1>1, ThreadTypes
<1>3. /\ slots \in Seq(Slot) /\ tc[k[1]].nth \in Nat
      /\ op[t].fill \in Tracks \cup Nat \cup {Nothing}
  <2>1. /\ slots \in Seq(Slot) /\ k[1] \in Transceivers
        /\ op[t].fill \in Tracks \cup Nat \cup {Nothing}
    BY <1>1, <1>p, ThreadTypes, KeyFacts DEF TypeInv, StateTypes
  <2>2. tc[k[1]] \in Transceiver
    BY <2>1, ThreadTypes
  <2> QED
    BY <2>1, <2>2 DEF Transceiver
<1>a. ASSUME \A j \in 1 .. Len(slots) : j # i => slots'[j] = slots[j]
      PROVE  /\ \A l \in Keys : l # k => Meta(l)' = Meta(l) /\ (Flag(l)' <=> Flag(l))
             /\ Meta(k) = slots[i].meta /\ (Flag(k) <=> slots[i].installed)
             /\ Meta(k)' = slots'[i].meta /\ (Flag(k)' <=> slots'[i].installed)
  <2>1. /\ registry[k] = i /\ i # 0
        /\ \A l \in Keys : l # k => Meta(l)' = Meta(l) /\ (Flag(l)' <=> Flag(l))
    BY <1>a, <1>1, <1>2, <1>p, <1>q, SlotEffect
  <2> QED
    BY <2>1, <1>2 DEF Meta, Flag
<1>4. CASE FillSlot(t) /\ op[t].call = "transform"
  <2>1. slots' = [slots EXCEPT ![i].caller = tc[k[1]].nth] /\ op[t].at = "fill"
    BY <1>4, <1>p, <1>q DEF FillSlot
  <2>2. /\ slots'[i].meta = slots[i].meta /\ slots'[i].installed = slots[i].installed
        /\ \A j \in 1 .. Len(slots) : j # i => slots'[j] = slots[j]
    BY <2>1, <1>3, SlotFieldSet
  <2> QED
    BY <2>1, <2>2, <1>4, <1>a, <1>p DEF Effect
<1>5. CASE FillSlot(t) /\ op[t].call # "transform"
  <2>1. slots' = [slots EXCEPT ![i].meta = op[t].fill] /\ op[t].at = "fill"
    BY <1>5, <1>q DEF FillSlot
  <2>2. /\ slots'[i].meta = op[t].fill /\ slots'[i].installed = slots[i].installed
        /\ \A j \in 1 .. Len(slots) : j # i => slots'[j] = slots[j]
    BY <2>1, <1>3, SlotFieldSet
  <2> QED
    BY <2>1, <2>2, <1>5, <1>a, <1>p DEF Effect
<1>6. CASE SwapSource(t)
  <2>0. op[t].at = "swap"
    BY <1>6 DEF SwapSource
  <2>1. CASE slots[i].installed /\ slots[i].meta # Nothing
    <3>1. slots' = [slots EXCEPT ![i].meta = op[t].fill]
      BY <2>1, <1>6, <1>q DEF SwapSource
    <3>2. /\ slots'[i].meta = op[t].fill /\ slots'[i].installed = slots[i].installed
          /\ \A j \in 1 .. Len(slots) : j # i => slots'[j] = slots[j]
      BY <3>1, <1>3, SlotFieldSet
    <3> QED
      BY <2>0, <2>1, <3>2, <1>a, <1>p DEF Effect
  <2>2. CASE ~(slots[i].installed /\ slots[i].meta # Nothing)
    <3>1. slots' = slots
      BY <2>2, <1>6, <1>q DEF SwapSource
    <3> QED
      BY <2>0, <2>2, <3>1, <1>a, <1>p DEF Effect
  <2> QED
    BY <2>1, <2>2
<1>7. CASE ClaimInstall(t)
  <2>1. slots' = [slots EXCEPT ![i].installed = TRUE] /\ op[t].at = "claim"
    BY <1>7, <1>q DEF ClaimInstall
  <2>2. /\ slots'[i].meta = slots[i].meta /\ slots'[i].installed = TRUE
        /\ \A j \in 1 .. Len(slots) : j # i => slots'[j] = slots[j]
    BY <2>1, <1>3, SlotFieldSet
  <2> QED
    BY <2>1, <2>2, <1>a, <1>p DEF Effect
<1>8. CASE ReleaseInstall(t)
  <2>1. slots' = [slots EXCEPT ![i].installed = FALSE] /\ op[t].at = "unclaim"
    BY <1>8, <1>q DEF ReleaseInstall
  <2>2. /\ slots'[i].meta = slots[i].meta /\ slots'[i].installed = FALSE
        /\ \A j \in 1 .. Len(slots) : j # i => slots'[j] = slots[j]
    BY <2>1, <1>3, SlotFieldSet
  <2> QED
    BY <2>1, <2>2, <1>a, <1>p DEF Effect
<1> QED
  BY <1>4, <1>5, <1>6, <1>7, <1>8

LEMMA PruneEffect ==
    ASSUME TypeInv, PruneInv, NEW t \in Threads, PruneStaleSlots(t)
    PROVE  Effect(t)
<1>1. /\ op[t].at = "prune" /\ slots' = slots /\ op[t].handles = Up
      /\ registry' = [k \in Keys |-> IF k[1] \in op[t].handles THEN registry[k] ELSE 0]
  BY DEF PruneStaleSlots, PruneInv
<1> SUFFICES ASSUME NEW k \in Keys
             PROVE  /\ k[1] \notin Up => Meta(k)' = Nothing
                    /\ k[1] \in Up => Meta(k)' = Meta(k) /\ (Flag(k)' <=> Flag(k))
  BY <1>1 DEF Effect
<1>2. registry'[k] = IF k[1] \in Up THEN registry[k] ELSE 0
  BY <1>1
<1> QED
  BY <1>1, <1>2 DEF Meta, Flag

\* What a step within a call leaves alone.
LEMMA StepEffect ==
    ASSUME TypeInv, WiringInv, NEW t \in Threads,
           InstallStep(t) \/ SetTrackStep(t) \/ AttachStep(t)
    PROVE  /\ Effect(t) /\ tc' = tc /\ wrapped' = wrapped /\ mode' = mode
           /\ op[t].at # "arm" => gate' = gate /\ raced' = raced
           /\ raced => raced'
<1>w. RegistryInv /\ PruneInv
  BY DEF WiringInv
<1>1. CASE ArmGate(t)
  <2>1. /\ op[t].at = "arm" /\ tc' = tc /\ wrapped' = wrapped /\ mode' = mode
        /\ registry' = registry /\ slots' = slots /\ (raced => raced')
    BY <1>1 DEF ArmGate, StartInstall, Crosses, nativeVars, slotVars
  <2> QED
    BY <2>1, NoEffect
<1>2. CASE PruneStaleSlots(t)
  BY <1>2, <1>w, PruneEffect DEF PruneStaleSlots, nativeVars
<1>3. CASE \/ Enumerate(t) \/ NextTransceiver(t) \/ CheckAllowed(t) \/ LookupSource(t)
           \/ LookupReceiver(t) \/ Reread(t) \/ EmbedAtOnce(t) \/ AttachFails(t)
  <2>1. UNCHANGED <<mode, gate, nativeVars, slotVars, wrapped, raced>>
    BY <1>3 DEF Enumerate, NextTransceiver, CheckAllowed, LookupSource, LookupReceiver, Reread,
                EmbedAtOnce, AttachFails
  <2>2. op[t].at \notin {"prune", "fill", "swap", "claim", "unclaim"}
    BY <1>3 DEF Enumerate, NextTransceiver, CheckAllowed, LookupSource, LookupReceiver, Reread,
                EmbedAtOnce, AttachFails
  <2> QED
    BY <2>1, <2>2, NoEffect DEF nativeVars, slotVars
<1>4. CASE Attach(t)
  <2>1. /\ op[t].at = "attach" /\ tc' = tc
        /\ UNCHANGED <<mode, gate, slotVars, wrapped, raced>>
    BY <1>4 DEF Attach
  <2> QED
    BY <2>1, NoEffect DEF slotVars
<1>5. CASE UpdateSource(t) \/ TakeSlot(t) \/ ReleaseSlot(t)
  <2>1. UNCHANGED <<mode, gate, nativeVars, wrapped, raced>>
    BY <1>5 DEF UpdateSource, TakeSlot, ReleaseSlot
  <2>2. op[t].at \in {"update", "slot", "release"}
    BY <1>5, LookupSteps
  <2>3. {"swap", "fill", "unclaim"} \subseteq Labels
    BY DEF Labels
  <2>4. CASE SlotFor(t, "swap") \/ SlotFor(t, "fill") \/ SlotFor(t, "unclaim")
    BY <2>1, <2>2, <2>3, <2>4, LookupEffect DEF nativeVars
  <2>5. CASE UNCHANGED slotVars
    BY <2>1, <2>2, <2>5, NoEffect DEF nativeVars, slotVars
  <2> QED
    BY <2>4, <2>5, <1>5, LookupSteps
<1>6. CASE FillSlot(t) \/ SwapSource(t) \/ ClaimInstall(t) \/ ReleaseInstall(t)
  <2>1. tc' = tc /\ UNCHANGED <<mode, gate, wrapped, raced>>
    BY <1>6 DEF FillSlot, SwapSource, ClaimInstall, ReleaseInstall, nativeVars
  <2> QED
    BY <2>1, <1>6, <1>w, FieldEffect
<1> QED
  BY <1>1, <1>2, <1>3, <1>4, <1>5, <1>6 DEF InstallStep, SetTrackStep, AttachStep

-----------------------------------------------------------------------------
(* What a call does before its thread goes on.                              *)

Asked(t) ==
    /\ op[t].at = "idle" /\ UNCHANGED <<mode, gate, slots, registry>>
    /\ \A u \in Threads \ {t} : op'[u] = op[u]
    /\ \/ op'[t] = op[t]
       \/ op'[t].at = "arm" /\ op'[t].call = "remote"
       \/ op'[t].at = "install" /\ op'[t].call = "install"
       \/ /\ op'[t].at = "reread" /\ op'[t].call = "set_track"
          /\ \E a \in Up : /\ op'[t].key = <<a, "send">>
                           /\ op'[t].lent = tc'[a].track /\ tc'[a].track \in wrapped
       \/ op'[t].at = "slot" /\ op'[t].call = "transform"
    /\ \A a \in Up : tc'[a].up =>
          /\ \/ tc'[a].track = tc[a].track
             \/ /\ tc[a].track = Nothing /\ tc'[a].track \in wrapped
                /\ op'[t].at = "install"
             \/ /\ op'[t].at = "reread" /\ op'[t].key = <<a, "send">>
                /\ tc'[a].track \in wrapped
          /\ tc'[a].remote = "live" => tc[a].remote = "live" \/ op'[t].at = "arm"
    /\ \A a \in Transceivers \ Up : tc'[a].up =>
          \/ op'[t].at \in {"arm", "install"}
          \/ tc'[a].track = Nothing /\ tc'[a].remote # "live"
    /\ wrapped' \subseteq wrapped
    /\ \A u \in Threads : op[u].lent \in wrapped => op[u].lent \in wrapped'
    /\ op'[t].at = "reread" => wrapped' = wrapped

\* The history of what ran beside what.
Raced(t) ==
    /\ raced => raced'
    /\ ~raced' /\ op'[t].at = "install" => \A u \in Threads \ {t} : op[u].call # "set_track"
    /\ ~raced' /\ op'[t].at = "reread" => \A u \in Threads \ {t} : ~Wires(op[u])

LEMMA InstallRaced ==
    ASSUME op \in [Threads -> Op], NEW t \in Threads, StartInstall(t)
    PROVE  /\ Raced(t) /\ op'[t].at = "install" /\ op'[t].call = "install"
           /\ \A u \in Threads \ {t} : op'[u] = op[u]
<1>1. /\ op'[t].at = "install" /\ op'[t].call = "install"
      /\ \A u \in Threads \ {t} : op'[u] = op[u]
  BY InstallFields
<1>2. raced' = Crosses(t, "install")
  BY DEF StartInstall
<1>3. (raced => raced') /\ (~raced' => \A u \in Threads \ {t} : op[u].call # "set_track")
  BY <1>2 DEF Crosses, Wiring
<1> QED
  BY <1>1, <1>3 DEF Raced

LEMMA NotRaced ==
    ASSUME NEW t \in Threads, raced' = raced, op'[t].at \notin {"install", "reread"}
    PROVE  Raced(t)
BY DEF Raced

LEMMA AppliedTracks ==
    ASSUME NEW F \in SUBSET Up, NEW N \in SUBSET (Transceivers \ Up),
           NEW d \in BOOLEAN, ApplyNatively(F, N, d), NEW a \in Transceivers,
           tc \in [Transceivers -> Transceiver]
    PROVE  /\ a \in Up /\ tc'[a].up => /\ tc'[a].track = tc[a].track
                                       /\ tc'[a].remote = "live" => d \/ tc[a].remote = "live"
           /\ a \notin Up /\ tc'[a].up => a \in N
<1>1. tc'[a] = IF a \in F THEN [tc[a] EXCEPT !.up = FALSE]
               ELSE IF a \in N THEN [Fresh(a) EXCEPT !.remote = "live"]
               ELSE IF d /\ tc[a].up /\ tc[a].remote = "none"
                    THEN [tc[a] EXCEPT !.remote = "live"]
               ELSE tc[a]
  BY DEF ApplyNatively
<1>2. tc[a] \in Transceiver
  OBVIOUS
<1>3. ~[tc[a] EXCEPT !.up = FALSE].up
  BY <1>2 DEF Transceiver
<1>4. LET r == [tc[a] EXCEPT !.remote = "live"] IN r.up = tc[a].up /\ r.track = tc[a].track
  BY <1>2 DEF Transceiver
<1>5. a \in N => a \notin Up
  OBVIOUS
<1>6. a \in Up <=> tc[a].up
  BY DEF Up
<1>7. CASE a \in F
  BY <1>1, <1>3, <1>7
<1>8. CASE a \in N
  BY <1>5, <1>8
<1>9. CASE a \notin F /\ a \notin N
  BY <1>1, <1>4, <1>6, <1>9
<1> QED
  BY <1>7, <1>8, <1>9

\* Where no transceiver changes but one.
LEMMA OneChanged ==
    ASSUME tc \in [Transceivers -> Transceiver], NEW a \in Transceivers, NEW r,
           tc' = [tc EXCEPT ![a] = r]
    PROVE  tc'[a] = r /\ \A b \in Transceivers \ {a} : tc'[b] = tc[b]
OBVIOUS

LEMMA CallAsks ==
    ASSUME TypeInv, NEW t \in Threads, CallStep(t), ~Reconnect(t)
    PROVE  Asked(t) /\ Raced(t)
<1>t. /\ op \in [Threads -> Op] /\ op[t] \in Op /\ tc \in [Transceivers -> Transceiver]
      /\ \A a \in Transceivers : tc[a] \in Transceiver
      /\ Up \subseteq Transceivers /\ wrapped \subseteq Tracks
  BY ThreadTypes DEF TypeInv, StateTypes
<1>u. \A a \in Transceivers : a \in Up <=> tc[a].up
  BY DEF Up
<1>c. ASSUME NEW o, Call(t, o)
      PROVE  op[t].at = "idle"
  BY <1>c DEF Call
<1>r. ASSUME NEW r, op' = [op EXCEPT ![t] = r]
      PROVE  op'[t] = r /\ \A u \in Threads \ {t} : op'[u] = op[u]
  BY <1>r, <1>t
<1>1. CASE \E declares \in BOOLEAN : SetRemoteDescription(t, declares)
  <2>1. PICK declares \in BOOLEAN : SetRemoteDescription(t, declares)
    BY <1>1
  <2>2. PICK F \in SUBSET Up, N \in SUBSET (Transceivers \ Up) : ApplyNatively(F, N, TRUE)
    BY <2>1 DEF SetRemoteDescription
  <2> DEFINE r == [Idle EXCEPT !.at = "arm", !.call = "remote", !.fill = declares]
  <2>3. r.at = "arm" /\ r.call = "remote"
    BY DEF Idle
  <2>4. op' = [op EXCEPT ![t] = r]
    BY <2>1 DEF SetRemoteDescription
  <2> HIDE DEF r
  <2>5. /\ op'[t].at = "arm" /\ op'[t].call = "remote"
        /\ \A u \in Threads \ {t} : op'[u] = op[u]
    BY <2>3, <2>4, <1>r
  <2>6. op[t].at = "idle" /\ UNCHANGED <<mode, gate, slots, registry, wrapped, raced>>
    BY <2>1, <1>c DEF SetRemoteDescription, slotVars
  <2>7. \A a \in Up : tc'[a].up => tc'[a].track = tc[a].track
    BY <2>2, <1>t, AppliedTracks
  <2> QED
    BY <2>5, <2>6, <2>7, NotRaced DEF Asked
<1>2. CASE SetLocalDescription(t)
  <2>2. PICK F \in SUBSET Up : ApplyNatively(F, {}, FALSE)
    BY <1>2 DEF SetLocalDescription
  <2>3. StartInstall(t)
    BY <1>2 DEF SetLocalDescription
  <2>4. /\ Raced(t) /\ op'[t].at = "install" /\ op'[t].call = "install"
        /\ \A u \in Threads \ {t} : op'[u] = op[u]
    BY <2>3, <1>t, InstallRaced
  <2>5. op[t].at = "idle" /\ UNCHANGED <<mode, gate, slots, registry, wrapped>>
    BY <1>2, <1>c DEF SetLocalDescription, slotVars
  <2>6. {} \in SUBSET (Transceivers \ Up)
    OBVIOUS
  <2>7. \A a \in Up : tc'[a].up => /\ tc'[a].track = tc[a].track
                                   /\ tc'[a].remote = "live" => tc[a].remote = "live"
    BY <2>2, <2>6, <1>t, AppliedTracks
  <2> QED
    BY <2>4, <2>5, <2>7 DEF Asked
<1>3. CASE \E track \in Tracks : DropTrack(t, track)
  <2>1. PICK track \in Tracks : DropTrack(t, track)
    BY <1>3
  <2>2. /\ op[t].at = "idle" /\ UNCHANGED <<mode, gate, slots, registry, tc, op, raced>>
        /\ wrapped' = wrapped \ {track} /\ \A u \in Threads : op[u].lent # track
    BY <2>1, <1>c DEF DropTrack, slotVars, nativeVars
  <2> QED
    BY <2>2, <1>u, NotRaced DEF Asked
<1>4. CASE \E a \in Transceivers : AddTransceiver(t, a)
  <2>1. PICK a \in Transceivers : AddTransceiver(t, a)
    BY <1>4
  <2>2. /\ op[t].at = "idle" /\ UNCHANGED <<mode, gate, slots, registry, wrapped, op, raced>>
        /\ a \notin Up /\ tc' = [tc EXCEPT ![a] = Fresh(a)]
    BY <2>1, <1>c DEF AddTransceiver, slotVars
  <2>3. tc'[a] = Fresh(a) /\ \A b \in Transceivers \ {a} : tc'[b] = tc[b]
    BY <2>2, <1>t, OneChanged
  <2>4. Fresh(a).track = Nothing /\ Fresh(a).remote = "none"
    BY DEF Fresh
  <2> QED
    BY <2>2, <2>3, <2>4, <1>t, <1>u, NotRaced DEF Asked
<1>5. CASE \E a \in Transceivers : DropRemoteTrack(t, a)
  <2>1. PICK a \in Transceivers : DropRemoteTrack(t, a)
    BY <1>5
  <2> DEFINE r == [tc[a] EXCEPT !.remote = "gone"]
  <2>2. /\ op[t].at = "idle" /\ UNCHANGED <<mode, gate, slots, registry, wrapped, op, raced>>
        /\ tc' = [tc EXCEPT ![a] = r] /\ tc[a].up
    BY <2>1, <1>c, <1>t DEF DropRemoteTrack, slotVars
  <2>3. r.remote = "gone" /\ r.track = tc[a].track
    BY <1>t DEF Transceiver
  <2> HIDE DEF r
  <2>4. tc'[a] = r /\ \A b \in Transceivers \ {a} : tc'[b] = tc[b]
    BY <2>2, <1>t, OneChanged
  <2> QED
    BY <2>2, <2>3, <2>4, <1>t, <1>u, NotRaced DEF Asked
<1>6. CASE \E a \in Transceivers, track \in Tracks : AddTrack(t, track, a)
  <2>1. PICK a \in Transceivers, track \in Tracks : AddTrack(t, track, a)
    BY <1>6
  <2>2. /\ op[t].at = "idle" /\ UNCHANGED <<mode, gate, slots, registry, wrapped>>
        /\ track \in wrapped /\ StartInstall(t)
    BY <2>1, <1>c DEF AddTrack, slotVars
  <2>3. /\ Raced(t) /\ op'[t].at = "install" /\ op'[t].call = "install"
        /\ \A u \in Threads \ {t} : op'[u] = op[u]
    BY <2>2, <1>t, InstallRaced
  <2>4. CASE tc[a].up
    <3> DEFINE r == [tc[a] EXCEPT !.track = track]
    <3>1. tc[a].track = Nothing /\ tc' = [tc EXCEPT ![a] = r]
      BY <2>1, <2>4, <1>t DEF AddTrack
    <3>2. r.track = track /\ r.remote = tc[a].remote
      BY <1>t DEF Transceiver
    <3> HIDE DEF r
    <3>3. tc'[a] = r /\ \A b \in Transceivers \ {a} : tc'[b] = tc[b]
      BY <3>1, <1>t, OneChanged
    <3> QED
      BY <2>2, <2>3, <3>1, <3>2, <3>3, <1>t DEF Asked
  <2>5. CASE ~tc[a].up
    <3>1. tc' = [tc EXCEPT ![a] = [Fresh(a) EXCEPT !.track = track]]
      BY <2>1, <2>5 DEF AddTrack
    <3>2. \A b \in Transceivers \ {a} : tc'[b] = tc[b]
      BY <3>1, <1>t, OneChanged
    <3> QED
      BY <2>2, <2>3, <2>5, <3>2, <1>t, <1>u DEF Asked
  <2> QED
    BY <2>4, <2>5
<1>7. CASE \E a \in Transceivers, track \in Tracks : SetTrack(t, track, a)
  <2>1. PICK a \in Transceivers, track \in Tracks : SetTrack(t, track, a)
    BY <1>7
  <2> DEFINE r == [tc[a] EXCEPT !.track = track]
             o == [Idle EXCEPT !.at = "reread", !.call = "set_track", !.key = <<a, "send">>,
                               !.handles = {a}, !.lent = track]
  <2>2. /\ op[t].at = "idle" /\ UNCHANGED <<mode, gate, slots, registry, wrapped>>
        /\ track \in wrapped /\ a \in Up /\ tc' = [tc EXCEPT ![a] = r]
        /\ op' = [op EXCEPT ![t] = o] /\ raced' = Crosses(t, "set_track")
    BY <2>1, <1>c, <1>t DEF SetTrack, slotVars
  <2>3. r.track = track /\ r.remote = tc[a].remote
    BY <1>t DEF Transceiver
  <2>4. o.at = "reread" /\ o.call = "set_track" /\ o.key = <<a, "send">> /\ o.lent = track
    BY DEF Idle
  <2> HIDE DEF r, o
  <2>5. tc'[a] = r /\ \A b \in Transceivers \ {a} : tc'[b] = tc[b]
    BY <2>2, <1>t, OneChanged
  <2>6. op'[t] = o /\ \A u \in Threads \ {t} : op'[u] = op[u]
    BY <2>2, <1>r
  <2>7. (raced => raced') /\ (~raced' => \A u \in Threads \ {t} : ~Wires(op[u]))
    BY <2>2 DEF Crosses, Wiring, Wires
  <2>8. Raced(t)
    BY <2>4, <2>6, <2>7 DEF Raced
  <2>9. \E b \in Up : /\ op'[t].key = <<b, "send">>
                      /\ op'[t].lent = tc'[b].track /\ tc'[b].track \in wrapped
    BY <2>2, <2>3, <2>4, <2>5, <2>6
  <2>10. ASSUME NEW b \in Up
         PROVE  /\ \/ tc'[b].track = tc[b].track
                   \/ /\ op'[t].at = "reread" /\ op'[t].key = <<b, "send">>
                      /\ tc'[b].track \in wrapped
                /\ tc'[b].remote = tc[b].remote
    BY <2>2, <2>3, <2>4, <2>5, <2>6, <1>t
  <2>11. \A b \in Transceivers \ Up : ~tc'[b].up
    BY <2>2, <2>5, <1>u
  <2> QED
    BY <2>2, <2>4, <2>6, <2>8, <2>9, <2>10, <2>11 DEF Asked
<1>8. CASE \E a \in Transceivers, side \in Sides : SetTransform(t, a, side)
  <2>1. PICK a \in Transceivers, side \in Sides : SetTransform(t, a, side)
    BY <1>8
  <2> DEFINE o == [Idle EXCEPT !.at = "slot", !.call = "transform", !.key = <<a, side>>,
                               !.handles = {a}]
  <2>2. /\ op[t].at = "idle" /\ UNCHANGED <<mode, gate, slots, registry, wrapped, tc, raced>>
        /\ op' = [op EXCEPT ![t] = o]
    BY <2>1, <1>c DEF SetTransform, slotVars, nativeVars
  <2>3. o.at = "slot" /\ o.call = "transform"
    BY DEF Idle
  <2> HIDE DEF o
  <2>4. op'[t] = o /\ \A u \in Threads \ {t} : op'[u] = op[u]
    BY <2>2, <1>r
  <2> QED
    BY <2>2, <2>3, <2>4, <1>u, NotRaced DEF Asked
<1> QED
  BY <1>1, <1>2, <1>3, <1>4, <1>5, <1>6, <1>7, <1>8 DEF CallStep

-----------------------------------------------------------------------------
(* What a call has read.                                                    *)

\* What a thread holds stays where it is while another one calls.
LEMMA CallKeeps ==
    ASSUME TypeInv, NEW t \in Threads, CallStep(t), ~Reconnect(t), NEW u \in Threads,
           NEW a \in op[u].handles
    PROVE  a \in Up /\ a \in Up' /\ a \in Transceivers /\ tc'[a].up /\ tc'[a].nth = tc[a].nth
<1>1. PICK F \in SUBSET Up, N \in SUBSET (Transceivers \ Up) : Called(t, F, N)
  BY CalledSteps
<1>2. Remade(F, N) /\ F \cap Held = {}
  BY <1>1 DEF Called
<1>3. a \in Held /\ a \in Up /\ a \in Transceivers
  BY ThreadTypes DEF Held
<1>4. a \in Up'
  BY <1>2, HandlesStay
<1>5. a \notin F /\ a \notin N
  BY <1>2, <1>3
<1> QED
  BY <1>2, <1>3, <1>4, <1>5 DEF Remade, Up

LEMMA OtherReads ==
    ASSUME TypeInv, ReadInv, NEW t \in Threads, CallStep(t), ~Reconnect(t),
           NEW u \in Threads \ {t}
    PROVE  Reads(op[u])'
<1>1. Asked(t)
  BY CallAsks
<1>2. op'[u] = op[u] /\ Reads(op[u]) /\ wrapped \subseteq Tracks /\ mode' = mode
  BY <1>1 DEF Asked, ReadInv, TypeInv, StateTypes
<1>3. ASSUME op[u].at \in KeyLabels
      PROVE  /\ tc'[op[u].key[1]].nth = tc[op[u].key[1]].nth
             /\ tc[op[u].key[1]].track \in Tracks => tc'[op[u].key[1]].track \in Tracks
  <2>1. op[u].key[1] \in op[u].handles
    BY <1>3, ThreadTypes
  <2>2. PICK a : a = op[u].key[1]
    OBVIOUS
  <2>3. a \in Up /\ tc'[a].up /\ tc'[a].nth = tc[a].nth
    BY <2>1, <2>2, CallKeeps
  <2>4. tc[a].track \in Tracks => tc'[a].track \in Tracks
    BY <2>3, <1>1, <1>2 DEF Asked
  <2> QED
    BY <2>2, <2>3, <2>4
<1>4. "slot" \in KeyLabels /\ "fill" \in KeyLabels
  BY DEF KeyLabels
<1> QED
  BY <1>2, <1>3, <1>4 DEF Reads, Wires

LEMMA CallerReads ==
    ASSUME TypeInv, ReadInv, NEW t \in Threads, CallStep(t), ~Reconnect(t)
    PROVE  Reads(op[t])'
<1>1. Asked(t)
  BY CallAsks
<1>2. op[t].at = "idle" /\ op[t] = Idle /\ wrapped \subseteq Tracks
  BY <1>1 DEF Asked, ReadInv, Reads, TypeInv, StateTypes
<1>3. CASE op'[t] = op[t]
  BY <1>2, <1>3, IdleFields DEF Reads
<1>4. CASE op'[t].at = "arm" /\ op'[t].call = "remote"
  BY <1>4 DEF Reads
<1>5. CASE op'[t].at = "install" /\ op'[t].call = "install"
  BY <1>5 DEF Reads
<1>6. CASE /\ op'[t].at = "reread" /\ op'[t].call = "set_track"
           /\ \E a \in Up : /\ op'[t].key = <<a, "send">>
                            /\ op'[t].lent = tc'[a].track /\ tc'[a].track \in wrapped
  <2>1. PICK a \in Up : op'[t].key = <<a, "send">> /\ tc'[a].track \in wrapped
    BY <1>6
  <2>2. op'[t].key[1] = a /\ op'[t].key[2] = "send"
    BY <2>1
  <2>3. "reread" \in KeyLabels
    BY DEF KeyLabels
  <2> QED
    BY <2>1, <2>2, <2>3, <1>2, <1>6 DEF Reads
<1>7. CASE op'[t].at = "slot" /\ op'[t].call = "transform"
  BY <1>7 DEF Reads
<1>8. \/ op'[t] = op[t]
      \/ op'[t].at = "arm" /\ op'[t].call = "remote"
      \/ op'[t].at = "install" /\ op'[t].call = "install"
      \/ /\ op'[t].at = "reread" /\ op'[t].call = "set_track"
         /\ \E a \in Up : /\ op'[t].key = <<a, "send">>
                          /\ op'[t].lent = tc'[a].track /\ tc'[a].track \in wrapped
      \/ op'[t].at = "slot" /\ op'[t].call = "transform"
  BY <1>1 DEF Asked
<1> QED
  BY <1>8, <1>3, <1>4, <1>5, <1>6, <1>7

LEMMA WalkReads ==
    ASSUME TypeInv, NEW t \in Threads, Reads(op[t]), WalkMove(t), tc' = tc, mode' = mode
    PROVE  Reads(op[t])'
<1>0. op[t].at \in KeyLabels => op[t].key \in Keys
  BY ThreadTypes
<1>l. {"lookup", "lookupReceiver", "allowed"} \subseteq KeyLabels
  BY DEF KeyLabels
<1>t. wrapped \subseteq Tracks /\ PreEncoded \subseteq Tracks
  BY TracksAssumption DEF TypeInv, StateTypes
<1>i. CASE op'[t] = Idle
  BY <1>i, IdleFields DEF Reads
<1>1. CASE op[t].at = "arm" /\ op'[t].at = "install" /\ op'[t].call = "install"
  BY <1>1 DEF Reads
<1>2. CASE op[t].at = "install" /\ op'[t].at = "prune" /\ op'[t].call = op[t].call
  BY <1>2 DEF Reads
<1>3. CASE op[t].at = "prune" /\ Goes(t, "next")
  BY <1>3 DEF Reads, Goes
<1>4. CASE /\ op[t].at = "next" /\ op'[t].at = "allowed" /\ op'[t].call = op[t].call
           /\ \E a \in op[t].todo : op'[t].key = <<a, "send">>
  <2>1. op'[t].key[2] = "send"
    BY <1>4
  <2> QED
    BY <2>1, <1>4 DEF Reads
<1>5. CASE /\ op[t].at \in {"allowed", "lookup"}
           /\ Goes(t, "lookup") \/ Goes(t, "lookupReceiver")
  BY <1>5 DEF Reads, Goes
<1>6. CASE /\ op[t].at = "lookup" /\ Known(tc[op[t].key[1]].track)
           /\ op'[t].at = "slot" /\ op'[t].fill = tc[op[t].key[1]].track
           /\ op'[t].key = op[t].key /\ op'[t].call = op[t].call
  <2>1. op'[t].fill \in Tracks
    BY <1>6, <1>t DEF Known
  <2>2. op[t].call = "install" /\ op[t].key[2] = "send"
    BY <1>6 DEF Reads
  <2> QED
    BY <2>1, <2>2, <1>6 DEF Reads, Wires
<1>7. CASE /\ op[t].at = "lookupReceiver"
           /\ op'[t].at = "slot" /\ op'[t].fill = tc[op[t].key[1]].nth
           /\ op'[t].key = <<op[t].key[1], "receive">> /\ op'[t].call = op[t].call
  <2>1. op'[t].key[1] = op[t].key[1] /\ op'[t].key[2] = "receive"
    BY <1>7
  <2>2. op[t].call = "install"
    BY <1>7 DEF Reads
  <2> QED
    BY <2>1, <2>2, <1>7 DEF Reads, Wires
<1>8. CASE op[t].at = "lookupReceiver" /\ Goes(t, "next")
  BY <1>8 DEF Reads, Goes
<1> QED
  BY <1>i, <1>1, <1>2, <1>3, <1>4, <1>5, <1>6, <1>7, <1>8 DEF WalkMove

LEMMA SetReads ==
    ASSUME TypeInv, NEW t \in Threads, Reads(op[t]), SetMove(t), tc' = tc, mode' = mode
    PROVE  Reads(op[t])'
<1>l. {"reread", "update", "swap", "gate", "slot"} \subseteq KeyLabels
  BY DEF KeyLabels
<1>r. /\ op[t].at \in {"reread", "update", "swap", "gate"}
      /\ op[t].call = "set_track" /\ op[t].key[2] = "send"
      /\ tc[op[t].key[1]].track \in Tracks
      /\ op[t].at \in {"update", "swap", "gate"} => op[t].fill \in Tracks
  BY DEF Reads, SetMove
<1>1. CASE op'[t] = Idle
  BY <1>1, IdleFields DEF Reads
<1>2. CASE /\ op[t].at = "reread" /\ op'[t].at = "update"
           /\ op'[t].fill = tc[op[t].key[1]].track
           /\ op'[t].key = op[t].key /\ op'[t].call = op[t].call
  BY <1>2, <1>l, <1>r DEF Reads
<1>3. CASE /\ op[t].at \in {"update", "swap"}
           /\ Goes(t, "swap") \/ Goes(t, "gate")
  BY <1>3, <1>l, <1>r DEF Reads, Goes
<1>4. CASE op[t].at = "gate" /\ Goes(t, "slot")
  BY <1>4, <1>l, <1>r DEF Reads, Goes, Wires
<1> QED
  BY <1>1, <1>2, <1>3, <1>4 DEF SetMove

LEMMA AttachReads ==
    ASSUME TypeInv, NEW t \in Threads, Reads(op[t]), AttachMove(t), tc' = tc, mode' = mode
    PROVE  Reads(op[t])'
<1>l. {"slot", "fill", "claim", "attach", "release", "unclaim"} \subseteq KeyLabels
  BY DEF KeyLabels
<1>k. op[t].call = "set_track" => op[t].key[2] = "send" /\ tc[op[t].key[1]].track \in Tracks
  BY DEF Reads
<1>1. CASE op[t].at = "slot" /\ Goes(t, "fill")
  BY <1>1, <1>l, <1>k DEF Reads, Goes, Wires
<1>2. CASE op[t].at = "fill" /\ Goes(t, "claim")
  BY <1>2, <1>l, <1>k DEF Reads, Goes, Wires
<1>3. CASE op[t].at = "claim" /\ Goes(t, "attach")
  BY <1>3, <1>l, <1>k DEF Reads, Goes, Wires
<1>4. CASE \/ op[t].at = "attach" /\ mode.fails /\ Goes(t, "release")
           \/ op[t].at = "release" /\ Goes(t, "unclaim")
  BY <1>4, <1>l, <1>k DEF Reads, Goes
<1>5. CASE Left(t)
  <2>1. CASE op'[t] = Idle
    BY <2>1, IdleFields DEF Reads
  <2>2. CASE /\ op'[t].call = "install" /\ op'[t].key = op[t].key
             /\ op'[t].at = IF op[t].key[2] = "send" THEN "lookupReceiver" ELSE "next"
    BY <2>2 DEF Reads
  <2> QED
    BY <2>1, <2>2, <1>5 DEF Left
<1> QED
  BY <1>1, <1>2, <1>3, <1>4, <1>5 DEF AttachMove

LEMMA ReadStep ==
    ASSUME TypeInv, WiringInv, ReadInv, [Next]_vars
    PROVE  ReadInv'
<1>1. CASE UNCHANGED vars
  <2>1. op' = op /\ tc' = tc /\ mode' = mode
    BY <1>1 DEF vars, nativeVars
  <2> QED
    BY <2>1 DEF ReadInv, Reads, Wires
<1>2. ASSUME NEW t \in Threads,
             CallStep(t) \/ InstallStep(t) \/ SetTrackStep(t) \/ AttachStep(t)
      PROVE  ReadInv'
  <2>1. CASE CallStep(t) /\ ~Reconnect(t)
    BY <2>1, OtherReads, CallerReads DEF ReadInv
  <2>2. CASE Reconnect(t)
    <3>1. \A u \in Threads : op'[u] = Idle
      BY <2>2, ReconnectFields DEF TypeInv
    <3> QED
      BY <3>1, IdleFields DEF ReadInv, Reads
  <2>3. CASE InstallStep(t) \/ SetTrackStep(t) \/ AttachStep(t)
    <3>1. tc' = tc /\ mode' = mode
      BY <2>3, StepEffect
    <3>2. \A u \in Threads \ {t} : op'[u] = op[u]
      BY <2>3, Steps
    <3>3. \A u \in Threads : Reads(op[u])
      BY DEF ReadInv
    <3>4. \A u \in Threads \ {t} : Reads(op[u])'
      BY <3>1, <3>2, <3>3 DEF Reads, Wires
    <3>5. Reads(op[t])'
      BY <2>3, <3>1, <3>3, WalkMoves, SetMoves, AttachMoves, WalkReads, SetReads, AttachReads
    <3> QED
      BY <3>4, <3>5 DEF ReadInv
  <2> QED
    BY <1>2, <2>1, <2>2, <2>3
<1> QED
  BY <1>1, <1>2, StepsOf

-----------------------------------------------------------------------------
(* Filled slots.                                                            *)

LEMMA MoveFilled ==
    ASSUME TypeInv, WiringInv, ReadInv, FilledInv, NEW t \in Threads,
           InstallStep(t) \/ SetTrackStep(t) \/ AttachStep(t)
    PROVE  FilledInv'
<1>1. Effect(t) /\ mode' = mode
  BY StepEffect
<1>2. Reads(op[t]) /\ \A u \in Threads \ {t} : op'[u] = op[u]
  BY Steps DEF ReadInv
<1> SUFFICES ASSUME ~mode.fails, NEW k \in Keys, Meta(k)' # Nothing
             PROVE  Flag(k)' \/ \E u \in Threads : /\ op'[u].at = "claim" /\ op'[u].key = k
                                                   /\ Wires(op'[u])
  BY <1>1 DEF FilledInv, Wires
<1>3. op[t].at # "prune" \/ k[1] \in Up
  BY <1>1 DEF Effect
<1>4. /\ Meta(k)' = IF k = op[t].key /\ \/ op[t].at = "fill" /\ op[t].call # "transform"
                                        \/ op[t].at = "swap" /\ Flag(k) /\ Meta(k) # Nothing
                    THEN op[t].fill ELSE Meta(k)
      /\ Flag(k)' <=> \/ k = op[t].key /\ op[t].at = "claim"
                      \/ ~(k = op[t].key /\ op[t].at = "unclaim") /\ Flag(k)
  BY <1>1, <1>3 DEF Effect
<1>5. op[t].at # "unclaim"
  BY <1>2 DEF Reads
<1>6. CASE k = op[t].key /\ op[t].at = "fill" /\ op[t].call # "transform"
  <2>1. Goes(t, "claim")
    <3>1. WalkMove(t) \/ SetMove(t) \/ AttachMove(t)
      BY WalkMoves, SetMoves, AttachMoves
    <3>2. ~WalkMove(t) /\ ~SetMove(t)
      BY <1>6 DEF WalkMove, SetMove
    <3> QED
      BY <3>1, <3>2, <1>6 DEF AttachMove
  <2>2. Wires(op[t])
    BY <1>2, <1>6 DEF Reads
  <2> QED
    BY <2>1, <2>2, <1>6 DEF Goes, Wires
<1>7. CASE Meta(k) # Nothing
  <2>1. CASE Flag(k)
    BY <2>1, <1>4, <1>5
  <2>2. CASE \E u \in Threads : op[u].at = "claim" /\ op[u].key = k /\ Wires(op[u])
    <3>1. PICK u \in Threads : op[u].at = "claim" /\ op[u].key = k /\ Wires(op[u])
      BY <2>2
    <3>2. CASE u = t
      BY <3>1, <3>2, <1>4
    <3>3. CASE u # t
      BY <3>1, <3>3, <1>2 DEF Wires
    <3> QED
      BY <3>2, <3>3
  <2> QED
    BY <2>1, <2>2, <1>7 DEF FilledInv
<1> QED
  BY <1>4, <1>6, <1>7

LEMMA FilledStep ==
    ASSUME TypeInv, WiringInv, ReadInv, FilledInv, [Next]_vars
    PROVE  FilledInv'
<1>1. CASE UNCHANGED vars
  <2>1. op' = op /\ registry' = registry /\ slots' = slots /\ mode' = mode
    BY <1>1 DEF vars, slotVars
  <2> QED
    BY <2>1 DEF FilledInv, Meta, Flag, Wires
<1>2. ASSUME NEW t \in Threads,
             CallStep(t) \/ InstallStep(t) \/ SetTrackStep(t) \/ AttachStep(t)
      PROVE  FilledInv'
  <2>1. CASE CallStep(t) /\ ~Reconnect(t)
    <3>1. Asked(t)
      BY <2>1, CallAsks
    <3>2. /\ op[t].at = "idle" /\ registry' = registry /\ slots' = slots /\ mode' = mode
          /\ \A u \in Threads \ {t} : op'[u] = op[u]
      BY <3>1 DEF Asked
    <3>3. \A u \in Threads : op[u].at = "claim" => op'[u] = op[u]
      BY <3>2
    <3> QED
      BY <3>2, <3>3 DEF FilledInv, Meta, Flag, Wires
  <2>2. CASE Reconnect(t)
    <3>1. /\ \A u \in Threads : op[u] = Idle
          /\ slots' = slots /\ mode' = mode
          /\ \A k \in Keys : registry'[k] = IF k[1] \in Up THEN 0 ELSE registry[k]
      BY <2>2, ReconnectFields DEF TypeInv
    <3>2. \A u \in Threads : op[u].at # "claim"
      BY <3>1, IdleFields
    <3>3. ~mode.fails => \A k \in Keys : Meta(k) # Nothing => Flag(k)
      BY <3>2 DEF FilledInv
    <3> QED
      BY <3>1, <3>3 DEF FilledInv, Meta, Flag
  <2>3. CASE InstallStep(t) \/ SetTrackStep(t) \/ AttachStep(t)
    BY <2>3, MoveFilled
  <2> QED
    BY <1>2, <2>1, <2>2, <2>3
<1> QED
  BY <1>1, <1>2, StepsOf

-----------------------------------------------------------------------------
(* What is due.                                                             *)

\* A live transceiver's steps stay.
LEMMA MetaStays ==
    ASSUME TypeInv, WiringInv, ReadInv, NEW t \in Threads,
           InstallStep(t) \/ SetTrackStep(t) \/ AttachStep(t), NEW a \in Up
    PROVE  /\ Meta(<<a, "send">>) # Nothing => Meta(<<a, "send">>)' # Nothing
           /\ Meta(<<a, "receive">>) = tc[a].nth => Meta(<<a, "receive">>)' = tc[a].nth
           /\ op[t].at = "fill" /\ op[t].call # "transform" /\ op[t].key = <<a, "send">> =>
                Meta(<<a, "send">>)' # Nothing
           /\ op[t].at = "fill" /\ op[t].call # "transform" /\ op[t].key = <<a, "receive">> =>
                Meta(<<a, "receive">>)' = tc[a].nth
<1>1. Effect(t) /\ Reads(op[t])
  BY StepEffect DEF ReadInv
<1>2. <<a, "send">> \in Keys /\ <<a, "receive">> \in Keys
  BY DEF Keys, Sides, Up
<1>3. ASSUME NEW k \in Keys, k[1] = a
      PROVE  Meta(k)' = IF k = op[t].key /\ \/ op[t].at = "fill" /\ op[t].call # "transform"
                                            \/ op[t].at = "swap" /\ Flag(k) /\ Meta(k) # Nothing
                        THEN op[t].fill ELSE Meta(k)
  BY <1>1, <1>3 DEF Effect
<1>4. Nothing \notin Tracks
  BY TracksAssumption
<1>5. op[t].at \in {"fill", "swap"} /\ op[t].call # "transform" =>
         /\ op[t].key[2] = "send" => op[t].fill \in Tracks
         /\ op[t].key[2] = "receive" => op[t].at = "fill" /\ op[t].fill = tc[op[t].key[1]].nth
  BY <1>1 DEF Reads
<1>6. op[t].at = "swap" => op[t].call = "set_track"
  BY <1>1 DEF Reads
<1>7. ASSUME op[t].key = <<a, "send">>
      PROVE  op[t].key[2] = "send"
  BY <1>7
<1>8. ASSUME op[t].key = <<a, "receive">>
      PROVE  op[t].key[1] = a /\ op[t].key[2] = "receive"
  BY <1>8
<1>9. Meta(<<a, "send">>)' =
         IF <<a, "send">> = op[t].key
            /\ \/ op[t].at = "fill" /\ op[t].call # "transform"
               \/ op[t].at = "swap" /\ Flag(<<a, "send">>) /\ Meta(<<a, "send">>) # Nothing
         THEN op[t].fill ELSE Meta(<<a, "send">>)
  BY <1>2, <1>3
<1>10. Meta(<<a, "receive">>)' =
          IF <<a, "receive">> = op[t].key
             /\ \/ op[t].at = "fill" /\ op[t].call # "transform"
                \/ op[t].at = "swap" /\ Flag(<<a, "receive">>) /\ Meta(<<a, "receive">>) # Nothing
          THEN op[t].fill ELSE Meta(<<a, "receive">>)
  BY <1>2, <1>3
<1> QED
  BY <1>4, <1>5, <1>6, <1>7, <1>8, <1>9, <1>10

\* The walk does not pass by a transceiver that is due.
LEMMA WalkWill ==
    ASSUME TypeInv, NEW t \in Threads, Reads(op[t]), gate, NEW a \in Up,
           WalkMove(t) \/ SetMove(t) \/ AttachMove(t), WillWalk(op[t], a)
    PROVE  \/ WillWalk(op'[t], a)
           \/ op'[t].at = "allowed" /\ op'[t].call = "install" /\ op'[t].key = <<a, "send">>
<1>1. CASE op[t].at \in {"arm", "install"}
  <2>1. op[t].at = "install" => op[t].call = "install"
    BY DEF Reads
  <2> QED
    BY <2>1, <1>1 DEF WalkMove, SetMove, AttachMove, WillWalk
<1>2. CASE /\ op[t].call = "install" /\ a \in op[t].todo
           /\ op[t].at \in {"prune", "next", "allowed", "lookup", "lookupReceiver", "slot", "fill",
                            "claim", "attach", "release", "unclaim"}
  <2>1. CASE WalkMove(t) /\ op[t].at # "next"
    <3>1. /\ op'[t].call = "install" /\ op'[t].todo = op[t].todo
          /\ op'[t].at \in {"next", "lookup", "lookupReceiver", "slot"}
      BY <1>2, <2>1 DEF WalkMove, Goes
    <3> QED
      BY <3>1, <1>2 DEF WillWalk
  <2>2. CASE WalkMove(t) /\ op[t].at = "next"
    <3>1. /\ op'[t].at = "allowed" /\ op'[t].call = op[t].call
          /\ \E b \in op[t].todo : op'[t].key = <<b, "send">> /\ op'[t].todo = op[t].todo \ {b}
      BY <1>2, <2>2 DEF WalkMove
    <3>2. PICK b \in op[t].todo : op'[t].key = <<b, "send">> /\ op'[t].todo = op[t].todo \ {b}
      BY <3>1
    <3> QED
      BY <3>1, <3>2, <1>2 DEF WillWalk
  <2>3. CASE AttachMove(t)
    <3>1. /\ op'[t].call = "install" /\ op'[t].todo = op[t].todo
          /\ op'[t].at \in {"fill", "claim", "attach", "release", "unclaim", "lookupReceiver",
                            "next"}
      BY <1>2, <2>3 DEF AttachMove, Goes, Left
    <3> QED
      BY <3>1, <1>2 DEF WillWalk
  <2>4. CASE SetMove(t)
    BY <1>2, <2>4 DEF SetMove
  <2> QED
    BY <2>1, <2>2, <2>3, <2>4
<1> QED
  BY <1>1, <1>2 DEF WillWalk

\* A thread that will come to a sender that is due comes to it.
LEMMA EmbedWill ==
    ASSUME TypeInv, NEW t \in Threads, Reads(op[t]), gate, NEW a \in Up,
           WalkMove(t) \/ SetMove(t) \/ AttachMove(t), tc' = tc,
           tc[a].track \in wrapped \ OffTracks, WillEmbed(op[t], a)
    PROVE  \/ WillEmbed(op[t], a)'
           \/ op[t].at = "fill" /\ op[t].call # "transform" /\ op[t].key = <<a, "send">>
<1>1. CASE WillWalk(op[t], a)
  BY <1>1, WalkWill DEF WillEmbed, WillWalk
<1>k. op[t].key = <<a, "send">> => op[t].key[1] = a
  OBVIOUS
<1>a. Allowed(tc[a].track) /\ Known(tc[a].track)
  BY DEF Allowed, Known
<1>2. CASE op[t].key = <<a, "send">> /\ op[t].at = "allowed"
  <2>1. Goes(t, "lookup")
    BY <1>2, <1>k, <1>a DEF WalkMove, SetMove, AttachMove
  <2> QED
    BY <2>1, <1>2 DEF WillEmbed, Goes
<1>3. CASE op[t].key = <<a, "send">> /\ op[t].at = "lookup"
  <2>1. op'[t].at = "slot" /\ op'[t].key = op[t].key /\ op'[t].call = op[t].call
    BY <1>3, <1>k, <1>a DEF WalkMove, SetMove, AttachMove
  <2>2. op[t].call = "install"
    BY <1>3 DEF Reads
  <2> QED
    BY <2>1, <2>2, <1>3 DEF WillEmbed, Wires
<1>4. CASE op[t].key = <<a, "send">> /\ op[t].at = "reread"
  <2>1. op'[t].at = "update" /\ op'[t].fill = tc[a].track /\ op'[t].key = op[t].key
    BY <1>4, <1>k DEF WalkMove, SetMove, AttachMove
  <2> QED
    BY <2>1, <1>4 DEF WillEmbed
<1>5. CASE /\ op[t].key = <<a, "send">> /\ op[t].fill = tc[a].track
           /\ op[t].at \in {"update", "swap", "gate"}
  <2>1. Goes(t, "swap") \/ Goes(t, "gate") \/ Goes(t, "slot")
    BY <1>5, <1>a DEF WalkMove, SetMove, AttachMove
  <2>2. op[t].call = "set_track"
    BY <1>5 DEF Reads
  <2> QED
    BY <2>1, <2>2, <1>5 DEF WillEmbed, Goes, Wires
<1>6. CASE op[t].key = <<a, "send">> /\ op[t].at = "slot" /\ Wires(op[t])
  <2>1. Goes(t, "fill")
    BY <1>6 DEF WalkMove, SetMove, AttachMove
  <2> QED
    BY <2>1, <1>6 DEF WillEmbed, Goes, Wires
<1>7. CASE op[t].key = <<a, "send">> /\ op[t].at = "fill" /\ Wires(op[t])
  BY <1>7 DEF Wires
<1> QED
  BY <1>1, <1>2, <1>3, <1>4, <1>5, <1>6, <1>7 DEF WillEmbed

LEMMA StripWill ==
    ASSUME TypeInv, NEW t \in Threads, Reads(op[t]), gate, NEW a \in Up,
           WalkMove(t) \/ SetMove(t) \/ AttachMove(t), tc' = tc,
           tc[a].remote = "live", WillStrip(op[t], a)
    PROVE  \/ WillStrip(op[t], a)'
           \/ op[t].at = "fill" /\ op[t].call # "transform" /\ op[t].key = <<a, "receive">>
<1>1. CASE WillWalk(op[t], a)
  BY <1>1, WalkWill DEF WillStrip, WillWalk
<1>k. op[t].key = <<a, "send">> => op[t].key[1] = a /\ op[t].key[2] = "send"
  OBVIOUS
<1>2. CASE /\ op[t].key = <<a, "send">> /\ op[t].call = "install"
           /\ op[t].at \in {"allowed", "lookup"}
  <2>1. \/ Goes(t, "lookup") \/ Goes(t, "lookupReceiver")
        \/ op'[t].at = "slot" /\ op'[t].key = op[t].key /\ op'[t].call = op[t].call
    BY <1>2 DEF WalkMove, SetMove, AttachMove
  <2> QED
    BY <2>1, <1>2 DEF WillStrip, Goes
<1>3. CASE /\ op[t].key = <<a, "send">> /\ op[t].call = "install"
           /\ op[t].at = "lookupReceiver"
  <2>1. op'[t].at = "slot" /\ op'[t].key = <<a, "receive">> /\ op'[t].call = op[t].call
    BY <1>3, <1>k DEF WalkMove, SetMove, AttachMove
  <2> QED
    BY <2>1, <1>3 DEF WillStrip
<1>4. CASE /\ op[t].key = <<a, "send">> /\ op[t].call = "install"
           /\ op[t].at \in {"slot", "fill", "claim", "attach", "release", "unclaim"}
  <2>1. /\ op'[t].key = op[t].key /\ op'[t].call = op[t].call
        /\ op'[t].at \in {"fill", "claim", "attach", "release", "unclaim", "lookupReceiver"}
    BY <1>4, <1>k DEF WalkMove, SetMove, AttachMove, Goes, Left
  <2> QED
    BY <2>1, <1>4 DEF WillStrip
<1>5. CASE op[t].key = <<a, "receive">> /\ op[t].call = "install" /\ op[t].at = "slot"
  <2>1. Goes(t, "fill")
    BY <1>5 DEF WalkMove, SetMove, AttachMove
  <2> QED
    BY <2>1, <1>5 DEF WillStrip, Goes
<1> QED
  BY <1>1, <1>2, <1>3, <1>4, <1>5 DEF WillStrip

LEMMA MoveDue ==
    ASSUME TypeInv, WiringInv, ReadInv, DueInv, NEW t \in Threads,
           InstallStep(t) \/ SetTrackStep(t) \/ AttachStep(t)
    PROVE  DueInv'
<1>m. /\ WalkMove(t) \/ SetMove(t) \/ AttachMove(t)
      /\ \A u \in Threads \ {t} : op'[u] = op[u]
  BY WalkMoves, SetMoves, AttachMoves
<1>e. tc' = tc /\ wrapped' = wrapped /\ (op[t].at # "arm" => gate' = gate)
  BY StepEffect
<1>r. Reads(op[t])
  BY DEF ReadInv
<1>1. CASE op[t].at = "arm"
  <2>1. op'[t].at = "install"
    BY <1>1, <1>m DEF WalkMove, SetMove, AttachMove
  <2> QED
    BY <2>1 DEF DueInv, WillEmbed, WillStrip, WillWalk
<1>2. CASE op[t].at # "arm"
  <2> SUFFICES ASSUME gate, NEW a \in Up
               PROVE  /\ tc[a].track \in wrapped \ OffTracks =>
                            \/ Meta(<<a, "send">>)' # Nothing
                            \/ \E u \in Threads : WillEmbed(op[u], a)'
                      /\ tc[a].remote = "live" =>
                            \/ Meta(<<a, "receive">>)' = tc[a].nth
                            \/ \E u \in Threads : WillStrip(op[u], a)'
    <3>1. Up' = Up /\ gate' = gate
      BY <1>2, <1>e DEF Up
    <3> QED
      BY <3>1, <1>e DEF DueInv
  <2>1. ASSUME tc[a].track \in wrapped \ OffTracks
        PROVE  Meta(<<a, "send">>)' # Nothing \/ \E u \in Threads : WillEmbed(op[u], a)'
    <3>1. CASE Meta(<<a, "send">>) # Nothing
      BY <3>1, MetaStays
    <3>2. CASE \E u \in Threads : WillEmbed(op[u], a)
      <4>1. PICK u \in Threads : WillEmbed(op[u], a)
        BY <3>2
      <4>2. CASE u = t
        BY <4>1, <4>2, <2>1, <1>m, <1>e, <1>r, EmbedWill, MetaStays
      <4>3. CASE u # t
        BY <4>1, <4>3, <1>m, <1>e DEF WillEmbed, WillWalk, Wires
      <4> QED
        BY <4>2, <4>3
    <3> QED
      BY <3>1, <3>2, <2>1 DEF DueInv
  <2>2. ASSUME tc[a].remote = "live"
        PROVE  Meta(<<a, "receive">>)' = tc[a].nth \/ \E u \in Threads : WillStrip(op[u], a)'
    <3>1. CASE Meta(<<a, "receive">>) = tc[a].nth
      BY <3>1, MetaStays
    <3>2. CASE \E u \in Threads : WillStrip(op[u], a)
      <4>1. PICK u \in Threads : WillStrip(op[u], a)
        BY <3>2
      <4>2. CASE u = t
        BY <4>1, <4>2, <2>2, <1>m, <1>e, <1>r, StripWill, MetaStays
      <4>3. CASE u # t
        BY <4>1, <4>3, <1>m, <1>e DEF WillStrip, WillWalk
      <4> QED
        BY <4>2, <4>3
    <3> QED
      BY <3>1, <3>2, <2>2 DEF DueInv
  <2> QED
    BY <2>1, <2>2
<1> QED
  BY <1>1, <1>2

LEMMA CallDue ==
    ASSUME TypeInv, DueInv, NEW t \in Threads, CallStep(t), ~Reconnect(t)
    PROVE  DueInv'
<1>a. Asked(t)
  BY CallAsks
<1>c. /\ op[t].at = "idle" /\ gate' = gate /\ \A u \in Threads \ {t} : op'[u] = op[u]
      /\ slots' = slots /\ registry' = registry /\ wrapped' \subseteq wrapped
      /\ wrapped \subseteq Tracks /\ Nothing \notin Tracks
  BY <1>a, TracksAssumption DEF Asked, TypeInv, StateTypes
<1>1. CASE op'[t].at \in {"arm", "install"}
  BY <1>1 DEF DueInv, WillEmbed, WillStrip, WillWalk
<1>2. CASE op'[t].at \notin {"arm", "install"}
  <2> SUFFICES ASSUME gate, NEW a \in Up'
               PROVE  /\ tc'[a].track \in wrapped' \ OffTracks =>
                            \/ Meta(<<a, "send">>)' # Nothing
                            \/ \E u \in Threads : WillEmbed(op[u], a)'
                      /\ tc'[a].remote = "live" =>
                            \/ Meta(<<a, "receive">>)' = tc'[a].nth
                            \/ \E u \in Threads : WillStrip(op[u], a)'
    BY <1>c DEF DueInv
  <2>u. a \in Transceivers /\ tc'[a].up
    BY DEF Up
  <2>1. CASE a \notin Up
    <3>1. tc'[a].track = Nothing /\ tc'[a].remote # "live"
      BY <2>1, <2>u, <1>2, <1>a DEF Asked
    <3> QED
      BY <3>1, <1>c
  <2>2. CASE a \in Up
    <3>n. tc'[a].nth = tc[a].nth
      <4>1. PICK F \in SUBSET Up, N \in SUBSET (Transceivers \ Up) : Called(t, F, N)
        BY CalledSteps
      <4>2. Remade(F, N)
        BY <4>1 DEF Called
      <4> QED
        BY <4>2, <2>2, <2>u DEF Remade
    <3>o. ASSUME NEW u \in Threads, WillEmbed(op[u], a) \/ WillStrip(op[u], a)
          PROVE  op'[u] = op[u]
      <4>1. op[u].at # "idle"
        BY <3>o DEF WillEmbed, WillStrip, WillWalk
      <4> QED
        BY <4>1, <1>c
    <3>m. \A k : Meta(k)' = Meta(k)
      BY <1>c DEF Meta
    <3>t. \/ tc'[a].track = tc[a].track
          \/ op'[t].at = "reread" /\ op'[t].key = <<a, "send">>
      BY <2>2, <2>u, <1>2, <1>a DEF Asked
    <3>l. tc'[a].remote = "live" => tc[a].remote = "live"
      BY <2>2, <2>u, <1>2, <1>a DEF Asked
    <3>1. ASSUME tc'[a].track \in wrapped' \ OffTracks
          PROVE  Meta(<<a, "send">>)' # Nothing \/ \E u \in Threads : WillEmbed(op[u], a)'
      <4>1. CASE op'[t].at = "reread" /\ op'[t].key = <<a, "send">>
        BY <4>1 DEF WillEmbed
      <4>2. CASE tc'[a].track = tc[a].track
        <5>1. CASE Meta(<<a, "send">>) # Nothing
          BY <5>1, <3>m
        <5>2. CASE \E u \in Threads : WillEmbed(op[u], a)
          <6>1. PICK u \in Threads : WillEmbed(op[u], a)
            BY <5>2
          <6>2. op'[u] = op[u]
            BY <6>1, <3>o
          <6> QED
            BY <6>1, <6>2, <4>2 DEF WillEmbed, WillWalk, Wires
        <5> QED
          BY <5>1, <5>2, <4>2, <3>1, <2>2, <1>c DEF DueInv
      <4> QED
        BY <4>1, <4>2, <3>t
    <3>2. ASSUME tc'[a].remote = "live"
          PROVE  Meta(<<a, "receive">>)' = tc'[a].nth \/ \E u \in Threads : WillStrip(op[u], a)'
      <4>1. CASE Meta(<<a, "receive">>) = tc[a].nth
        BY <4>1, <3>m, <3>n
      <4>2. CASE \E u \in Threads : WillStrip(op[u], a)
        <5>1. PICK u \in Threads : WillStrip(op[u], a)
          BY <4>2
        <5>2. op'[u] = op[u]
          BY <5>1, <3>o
        <5> QED
          BY <5>1, <5>2 DEF WillStrip, WillWalk
      <4> QED
        BY <4>1, <4>2, <3>l, <3>2, <2>2 DEF DueInv
    <3> QED
      BY <3>1, <3>2
  <2> QED
    BY <2>1, <2>2
<1> QED
  BY <1>1, <1>2

LEMMA DueStep ==
    ASSUME TypeInv, WiringInv, ReadInv, DueInv, [Next]_vars
    PROVE  DueInv'
<1>1. CASE UNCHANGED vars
  <2>1. /\ op' = op /\ registry' = registry /\ slots' = slots /\ gate' = gate
        /\ tc' = tc /\ wrapped' = wrapped
    BY <1>1 DEF vars, slotVars, nativeVars
  <2>2. Up' = Up /\ \A k : Meta(k)' = Meta(k)
    BY <2>1 DEF Up, Meta
  <2>3. \A t \in Threads, a \in Up : /\ WillEmbed(op[t], a)' <=> WillEmbed(op[t], a)
                                     /\ WillStrip(op[t], a)' <=> WillStrip(op[t], a)
    BY <2>1 DEF WillEmbed, WillStrip, WillWalk, Wires
  <2> QED
    BY <2>1, <2>2, <2>3 DEF DueInv
<1>2. ASSUME NEW t \in Threads,
             CallStep(t) \/ InstallStep(t) \/ SetTrackStep(t) \/ AttachStep(t)
      PROVE  DueInv'
  <2>1. CASE Reconnect(t)
    <3>1. ~gate'
      BY <2>1 DEF Reconnect
    <3> QED
      BY <3>1 DEF DueInv
  <2> QED
    BY <1>2, <2>1, CallDue, MoveDue
<1> QED
  BY <1>1, <1>2, StepsOf

-----------------------------------------------------------------------------
(* Sources.                                                                 *)

\* A thread goes on with the call it is in, or to an install from the gate.
LEMMA CallStays ==
    ASSUME TypeInv, NEW t \in Threads, Reads(op[t]),
           WalkMove(t) \/ SetMove(t) \/ AttachMove(t)
    PROVE  /\ op[t].at # "arm" => op'[t] = Idle \/ op'[t].call = op[t].call
           /\ op[t].at = "arm" => op'[t].call = "install" /\ op'[t].at = "install"
           /\ op'[t].call = "set_track" =>
                 /\ op[t].call = "set_track" /\ op'[t].key = op[t].key /\ op'[t].lent = op[t].lent
                 /\ \/ op'[t].fill = op[t].fill /\ (op[t].at = "reread" => op'[t].at = "reread")
                    \/ op'[t].fill = tc[op[t].key[1]].track
                 /\ op'[t].at \in {"update", "swap", "gate", "slot", "fill"} =>
                       op[t].at \in {"reread", "update", "swap", "gate", "slot", "fill"}
<1>i. Idle.call = "none"
  BY IdleFields
<1>r. /\ op[t].at \in {"install", "prune", "next", "allowed", "lookup", "lookupReceiver"} =>
            op[t].call = "install"
  BY DEF Reads
<1>1. CASE WalkMove(t)
  <2>1. op[t].at # "arm" => op'[t] = Idle \/ op'[t].call = op[t].call
    BY <1>1 DEF WalkMove, Goes
  <2>2. op[t].at = "arm" => op'[t].call = "install" /\ op'[t].at = "install"
    BY <1>1 DEF WalkMove
  <2>3. op[t].at \in {"arm", "install", "prune", "next", "allowed", "lookup", "lookupReceiver"}
    BY <1>1 DEF WalkMove
  <2>4. op'[t].call # "set_track"
    BY <2>1, <2>2, <2>3, <1>i, <1>r
  <2> QED
    BY <2>1, <2>2, <2>4
<1>2. CASE SetMove(t)
  BY <1>2, <1>i DEF SetMove, Goes
<1>3. CASE AttachMove(t)
  BY <1>3, <1>i DEF AttachMove, Goes, Left
<1> QED
  BY <1>1, <1>2, <1>3

LEMMA MoveSets ==
    ASSUME TypeInv, WiringInv, ReadInv, SetsAlone, NEW t \in Threads,
           InstallStep(t) \/ SetTrackStep(t) \/ AttachStep(t), ~raced'
    PROVE  SetsAlone'
<1>m. /\ WalkMove(t) \/ SetMove(t) \/ AttachMove(t)
      /\ \A u \in Threads \ {t} : op'[u] = op[u]
  BY WalkMoves, SetMoves, AttachMoves
<1>e. tc' = tc /\ wrapped' = wrapped
  BY StepEffect
<1>c. /\ op[t].at # "arm" => op'[t] = Idle \/ op'[t].call = op[t].call
      /\ op[t].at = "arm" => op'[t].call = "install" /\ op'[t].at = "install"
      /\ op'[t].call = "set_track" =>
            /\ op[t].call = "set_track" /\ op'[t].key = op[t].key /\ op'[t].lent = op[t].lent
            /\ \/ op'[t].fill = op[t].fill /\ (op[t].at = "reread" => op'[t].at = "reread")
               \/ op'[t].fill = tc[op[t].key[1]].track
            /\ op'[t].at \in {"update", "swap", "gate", "slot", "fill"} =>
                  op[t].at \in {"reread", "update", "swap", "gate", "slot", "fill"}
  BY <1>m, CallStays DEF ReadInv
<1>1. CASE op[t].at = "arm"
  <2>1. ArmGate(t)
    BY <1>1 DEF InstallStep, SetTrackStep, AttachStep, ArmGate, Enumerate, PruneStaleSlots,
                NextTransceiver, CheckAllowed, LookupSource, LookupReceiver, Reread, UpdateSource,
                SwapSource, EmbedAtOnce, TakeSlot, FillSlot, ClaimInstall, Attach, AttachFails,
                ReleaseSlot, ReleaseInstall
  <2>2. Raced(t)
    BY <2>1, ThreadTypes, InstallRaced DEF ArmGate
  <2>3. \A u \in Threads \ {t} : op[u].call # "set_track"
    BY <2>2, <1>1, <1>c DEF Raced
  <2>4. \A u \in Threads : op'[u].call # "set_track"
    BY <2>3, <1>1, <1>c, <1>m
  <2> QED
    BY <2>4 DEF SetsAlone
<1>2. CASE op[t].at # "arm"
  <2>1. Wires(op'[t]) => Wires(op[t])
    BY <1>2, <1>c, IdleFields DEF Wires
  <2>2. \A u \in Threads : op'[u].call = "set_track" => op[u].call = "set_track"
    BY <1>c, <1>m
  <2>3. \A u \in Threads : Wires(op'[u]) => Wires(op[u])
    BY <2>1, <1>m
  <2> SUFFICES ASSUME NEW u \in Threads, op'[u].call = "set_track"
               PROVE  /\ \A v \in Threads \ {u} : ~Wires(op'[v])
                      /\ op'[u].lent = tc[op'[u].key[1]].track /\ op'[u].lent \in wrapped
                      /\ op'[u].at \in {"update", "swap", "gate", "slot", "fill"} =>
                            op'[u].fill = op'[u].lent
    BY <1>e DEF SetsAlone, Wires
  <2>4. /\ \A v \in Threads \ {u} : ~Wires(op[v])
        /\ op[u].lent = tc[op[u].key[1]].track /\ op[u].lent \in wrapped
        /\ op[u].at \in {"update", "swap", "gate", "slot", "fill"} => op[u].fill = op[u].lent
    BY <2>2 DEF SetsAlone
  <2>5. CASE u = t
    <3>1. op'[t].key = op[t].key /\ op'[t].lent = op[t].lent
      BY <2>5, <1>c
    <3>2. op'[t].at \in {"update", "swap", "gate", "slot", "fill"} => op'[t].fill = op[t].lent
      BY <2>5, <2>4, <1>c
    <3> QED
      BY <3>1, <3>2, <2>3, <2>4, <2>5
  <2>6. CASE u # t
    BY <2>3, <2>4, <2>6, <1>m
  <2> QED
    BY <2>5, <2>6
<1> QED
  BY <1>1, <1>2

LEMMA MoveCurrent ==
    ASSUME TypeInv, WiringInv, ReadInv, ReadCurrent, NEW t \in Threads,
           InstallStep(t) \/ SetTrackStep(t) \/ AttachStep(t)
    PROVE  ReadCurrent'
<1>m. /\ WalkMove(t) \/ SetMove(t) \/ AttachMove(t)
      /\ \A u \in Threads \ {t} : op'[u] = op[u]
  BY WalkMoves, SetMoves, AttachMoves
<1>e. tc' = tc
  BY StepEffect
<1>r. Reads(op[t])
  BY DEF ReadInv
<1>1. ASSUME op'[t].call = "install", op'[t].at \in {"slot", "fill"}, op'[t].key[2] = "send"
      PROVE  op'[t].fill = tc[op'[t].key[1]].track
  <2>1. CASE WalkMove(t)
    <3>1. \/ op'[t].fill = tc[op[t].key[1]].track /\ op'[t].key = op[t].key
          \/ op'[t].key = <<op[t].key[1], "receive">>
      BY <2>1, <1>1 DEF WalkMove, Goes, Idle
    <3>2. op'[t].key # <<op[t].key[1], "receive">>
      <4>1. <<op[t].key[1], "receive">>[2] # "send"
        OBVIOUS
      <4> QED
        BY <4>1, <1>1
    <3> QED
      BY <3>1, <3>2
  <2>2. CASE SetMove(t)
    <3>1. op[t].call = "set_track"
      BY <2>2, <1>r DEF SetMove, Reads
    <3>2. op'[t] = Idle \/ op'[t].call = op[t].call
      BY <2>2 DEF SetMove, Goes
    <3> QED
      BY <3>1, <3>2, <1>1, IdleFields
  <2>3. CASE AttachMove(t)
    <3>1. op[t].at = "slot" /\ Goes(t, "fill")
      BY <2>3, <1>1, IdleFields DEF AttachMove, Goes, Left
    <3> QED
      BY <3>1, <1>1 DEF Goes, ReadCurrent
  <2> QED
    BY <2>1, <2>2, <2>3, <1>m
<1> QED
  BY <1>1, <1>m, <1>e DEF ReadCurrent

LEMMA MoveOwn ==
    ASSUME TypeInv, WiringInv, ReadInv, FilledInv, ~mode.fails, SetsAlone, ReadCurrent, EmbedsOwn,
           NEW t \in Threads, InstallStep(t) \/ SetTrackStep(t) \/ AttachStep(t)
    PROVE  EmbedsOwn'
<1>m. /\ WalkMove(t) \/ SetMove(t) \/ AttachMove(t)
      /\ \A u \in Threads \ {t} : op'[u] = op[u]
  BY WalkMoves, SetMoves, AttachMoves
<1>e. tc' = tc /\ Effect(t)
  BY StepEffect
<1>r. Reads(op[t])
  BY DEF ReadInv
<1> SUFFICES ASSUME NEW a \in Up, Meta(<<a, "send">>)' # Nothing
             PROVE  \/ Meta(<<a, "send">>)' = tc[a].track
                    \/ \E u \in Threads : Follows(op'[u], a)
  <2>1. Up' = Up
    BY <1>e DEF Up
  <2> QED
    BY <2>1, <1>e DEF EmbedsOwn, Follows
<1>k. PICK k \in Keys : k = <<a, "send">>
  BY DEF Keys, Sides, Up
<1>l. k[1] = a /\ k[2] = "send" /\ k[1] \in Up
  BY <1>k
<1>1. Meta(k)' = IF k = op[t].key /\ \/ op[t].at = "fill" /\ op[t].call # "transform"
                                     \/ op[t].at = "swap" /\ Flag(k) /\ Meta(k) # Nothing
                 THEN op[t].fill ELSE Meta(k)
  BY <1>e, <1>l DEF Effect
<1>2. CASE k = op[t].key /\ op[t].at = "fill" /\ op[t].call # "transform"
  <2>1. Meta(k)' = op[t].fill
    BY <1>1, <1>2
  <2>2. Wires(op[t])
    BY <1>2, <1>r DEF Reads
  <2>3. CASE op[t].call = "install"
    BY <2>1, <2>3, <1>2, <1>k, <1>l DEF ReadCurrent
  <2>4. CASE op[t].call = "set_track"
    BY <2>1, <2>4, <1>2, <1>k, <1>l DEF SetsAlone
  <2> QED
    BY <2>2, <2>3, <2>4 DEF Wires
<1>s. op[t].at \in {"update", "swap"} =>
         /\ op[t].call = "set_track" /\ op[t].fill = tc[op[t].key[1]].track
         /\ op[t].fill \in wrapped /\ \A u \in Threads \ {t} : ~Wires(op[u])
  <2>1. op[t].at \in {"update", "swap"} => op[t].call = "set_track"
    BY <1>r DEF Reads
  <2> QED
    BY <2>1 DEF SetsAlone
<1>3. CASE k = op[t].key /\ op[t].at = "swap"
  <2>1. CASE Flag(k) /\ Meta(k) # Nothing
    BY <2>1, <1>1, <1>3, <1>k, <1>l, <1>s
  <2>2. ASSUME ~Flag(k), Meta(k) # Nothing PROVE FALSE
    <3>1. PICK u \in Threads : op[u].at = "claim" /\ Wires(op[u])
      BY <2>2 DEF FilledInv
    <3>2. u # t
      BY <3>1, <1>3
    <3> QED
      BY <3>1, <3>2, <1>3, <1>s
  <2>3. Meta(k) # Nothing
    BY <1>1, <1>3, <1>k
  <2> QED
    BY <2>1, <2>2, <2>3
<1>4. CASE /\ ~(k = op[t].key /\ op[t].at = "fill" /\ op[t].call # "transform")
           /\ ~(k = op[t].key /\ op[t].at = "swap")
  <2>1. Meta(k)' = Meta(k)
    BY <1>1, <1>4
  <2>2. CASE Meta(k) = tc[a].track
    BY <2>1, <2>2, <1>k
  <2>3. CASE \E u \in Threads : Follows(op[u], a)
    <3>1. PICK u \in Threads : Follows(op[u], a)
      BY <2>3
    <3>2. CASE u # t
      BY <3>1, <3>2, <1>m
    <3>3. CASE u = t
      <4>1. op[t].key = k /\ op[t].call = "set_track" /\ op[t].at \in {"reread", "update"}
        BY <3>1, <3>3, <1>4, <1>k DEF Follows
      <4>2. op[t].at = "update" => Known(op[t].fill)
        BY <1>s DEF Known
      <4>3. /\ op'[t].key = op[t].key /\ op'[t].call = op[t].call
            /\ op'[t].at \in {"update", "swap"}
        BY <4>1, <4>2, <1>m DEF WalkMove, SetMove, AttachMove, Goes
      <4> QED
        BY <4>1, <4>3, <1>k DEF Follows
    <3> QED
      BY <3>2, <3>3
  <2> QED
    BY <2>1, <2>2, <2>3, <1>k DEF EmbedsOwn
<1> QED
  BY <1>2, <1>3, <1>4

\* A call beside a set_track, or another call's wiring, leaves that one's track alone.
LEMMA TrackStays ==
    ASSUME TypeInv, ReadInv, NEW t \in Threads, CallStep(t), ~Reconnect(t), ~raced',
           NEW u \in Threads \ {t}, op[u].at \in KeyLabels, Wires(op[u]),
           tc[op[u].key[1]].track \in Tracks
    PROVE  tc'[op[u].key[1]].track = tc[op[u].key[1]].track
<1>1. Asked(t) /\ Raced(t)
  BY CallAsks
<1>2. PICK a : a = op[u].key[1]
  OBVIOUS
<1>3. a \in op[u].handles
  BY <1>2, ThreadTypes
<1>4. a \in Up /\ tc'[a].up
  BY <1>3, CallKeeps
<1>5. op'[t].at # "reread"
  BY <1>1 DEF Raced
<1>6. tc[a].track # Nothing
  BY <1>2, TracksAssumption
<1>7. tc'[a].track = tc[a].track
  BY <1>1, <1>4, <1>5, <1>6 DEF Asked
<1> QED
  BY <1>2, <1>7

LEMMA CallSets ==
    ASSUME TypeInv, ReadInv, SetsAlone, NEW t \in Threads, CallStep(t), ~Reconnect(t), ~raced'
    PROVE  SetsAlone'
<1>1. Asked(t) /\ Raced(t)
  BY CallAsks
<1>2. \A u \in Threads \ {t} : op'[u] = op[u]
  BY <1>1 DEF Asked
<1>i. op[t].call = "none"
  BY <1>1, IdleFields DEF Asked, ReadInv, Reads
<1> SUFFICES ASSUME NEW u \in Threads, op'[u].call = "set_track"
             PROVE  /\ \A v \in Threads \ {u} : ~Wires(op'[v])
                    /\ op'[u].lent = tc'[op'[u].key[1]].track /\ op'[u].lent \in wrapped'
                    /\ op'[u].at \in {"update", "swap", "gate", "slot", "fill"} =>
                          op'[u].fill = op'[u].lent
  BY DEF SetsAlone, Wires
<1>o. \/ op'[t] = op[t]
      \/ op'[t].at = "arm" /\ op'[t].call = "remote"
      \/ op'[t].at = "install" /\ op'[t].call = "install"
      \/ /\ op'[t].at = "reread" /\ op'[t].call = "set_track"
         /\ \E a \in Up : /\ op'[t].key = <<a, "send">>
                          /\ op'[t].lent = tc'[a].track /\ tc'[a].track \in wrapped
      \/ op'[t].at = "slot" /\ op'[t].call = "transform"
  BY <1>1 DEF Asked
<1>3. CASE u = t
  <2>1. /\ op'[t].at = "reread"
        /\ \E a \in Up : /\ op'[t].key = <<a, "send">>
                         /\ op'[t].lent = tc'[a].track /\ tc'[a].track \in wrapped
    BY <1>3, <1>o, <1>i
  <2>2. PICK a \in Up : /\ op'[t].key = <<a, "send">>
                        /\ op'[t].lent = tc'[a].track /\ tc'[a].track \in wrapped
    BY <2>1
  <2>3. op'[t].key[1] = a
    BY <2>2
  <2>4. wrapped' = wrapped
    BY <2>1, <1>1 DEF Asked
  <2>5. \A v \in Threads \ {t} : ~Wires(op'[v])
    BY <2>1, <1>1, <1>2 DEF Raced
  <2> QED
    BY <2>1, <2>2, <2>3, <2>4, <2>5, <1>3
<1>4. CASE u # t
  <2>1. op'[u] = op[u] /\ op[u].call = "set_track"
    BY <1>2, <1>4
  <2>2. /\ \A v \in Threads \ {u} : ~Wires(op[v])
        /\ op[u].lent = tc[op[u].key[1]].track /\ op[u].lent \in wrapped
        /\ op[u].at \in {"update", "swap", "gate", "slot", "fill"} => op[u].fill = op[u].lent
    BY <2>1 DEF SetsAlone
  <2>3. op[u].at \in KeyLabels /\ Wires(op[u]) /\ tc[op[u].key[1]].track \in Tracks
    BY <2>1 DEF ReadInv, Reads, Wires
  <2>4. tc'[op[u].key[1]].track = tc[op[u].key[1]].track
    BY <2>3, <1>4, TrackStays
  <2>5. op[u].lent \in wrapped'
    BY <2>2, <1>1 DEF Asked
  <2>6. op'[t].at # "install" /\ op'[t].at # "reread"
    BY <2>1, <2>3, <1>1, <1>4 DEF Raced
  <2>7. ~Wires(op'[t])
    BY <2>6, <1>o, <1>i DEF Wires
  <2> QED
    BY <2>1, <2>2, <2>4, <2>5, <2>7, <1>2
<1> QED
  BY <1>3, <1>4

LEMMA CallCurrent ==
    ASSUME TypeInv, ReadInv, ReadCurrent, NEW t \in Threads, CallStep(t), ~Reconnect(t), ~raced'
    PROVE  ReadCurrent'
<1>1. Asked(t)
  BY CallAsks
<1>2. \A u \in Threads \ {t} : op'[u] = op[u]
  BY <1>1 DEF Asked
<1> SUFFICES ASSUME NEW u \in Threads, op'[u].call = "install", op'[u].at \in {"slot", "fill"},
                    op'[u].key[2] = "send"
             PROVE  op'[u].fill = tc'[op'[u].key[1]].track
  BY DEF ReadCurrent
<1>3. u # t
  BY <1>1 DEF Asked
<1>4. op'[u] = op[u] /\ op[u].fill = tc[op[u].key[1]].track
  BY <1>2, <1>3 DEF ReadCurrent
<1>5. op[u].at \in KeyLabels /\ Wires(op[u]) /\ op[u].fill \in Tracks
  BY <1>4 DEF ReadInv, Reads, Wires, KeyLabels
<1>6. tc'[op[u].key[1]].track = tc[op[u].key[1]].track
  BY <1>3, <1>4, <1>5, TrackStays
<1> QED
  BY <1>4, <1>6

LEMMA CallOwn ==
    ASSUME Orderly, TypeInv, LoneInv, WiringInv, EmbedsOwn, NEW t \in Threads, CallStep(t),
           ~Reconnect(t)
    PROVE  EmbedsOwn'
<1>1. Asked(t)
  BY CallAsks
<1>2. /\ \A u \in Threads \ {t} : op'[u] = op[u]
      /\ op[t].at = "idle" /\ registry' = registry /\ slots' = slots
  BY <1>1 DEF Asked
<1>c. calls[t] > 0
  BY <1>2, Steps
<1> SUFFICES ASSUME NEW a \in Up', Meta(<<a, "send">>) # Nothing
             PROVE  \/ Meta(<<a, "send">>) = tc'[a].track
                    \/ \E u \in Threads : Follows(op'[u], a)
  <2>1. \A k : Meta(k)' = Meta(k)
    BY <1>2 DEF Meta
  <2> QED
    BY <2>1 DEF EmbedsOwn, Follows
<1>u. a \in Transceivers /\ tc'[a].up
  BY DEF Up
<1>k. PICK k \in Keys : k = <<a, "send">>
  BY <1>u DEF Keys, Sides
<1>3. CASE a \notin Up
  <2>1. ~tc[k[1]].up /\ StaleInv
    BY <1>3, <1>k, <1>u DEF Up, WiringInv
  <2>2. registry[k] = 0
    BY <2>1, <1>2, <1>c, NothingStale
  <2> QED
    BY <2>2, <1>k DEF Meta
<1>4. CASE a \in Up
  <2>1. Meta(<<a, "send">>) = tc[a].track \/ \E u \in Threads : Follows(op[u], a)
    BY <1>4 DEF EmbedsOwn
  <2>2. CASE \E u \in Threads : Follows(op[u], a)
    <3>1. PICK u \in Threads : Follows(op[u], a)
      BY <2>2
    <3>2. u # t
      BY <3>1, <1>2 DEF Follows
    <3> QED
      BY <3>1, <3>2, <1>2
  <2>3. CASE op'[t].at = "reread" /\ op'[t].key = <<a, "send">>
    <3>1. op'[t].call = "set_track"
      BY <2>3, <1>1 DEF Asked
    <3> QED
      BY <3>1, <2>3 DEF Follows
  <2>4. CASE /\ Meta(<<a, "send">>) = tc[a].track
             /\ ~(op'[t].at = "reread" /\ op'[t].key = <<a, "send">>)
    <3>1. tc[a].track # Nothing
      BY <2>4
    <3>2. tc'[a].track = tc[a].track
      BY <3>1, <2>4, <1>1, <1>4, <1>u DEF Asked
    <3> QED
      BY <3>2, <2>4
  <2> QED
    BY <2>1, <2>2, <2>3, <2>4
<1> QED
  BY <1>3, <1>4

LEMMA SourceStep ==
    ASSUME Orderly, TypeInv, LoneInv, WiringInv, ReadInv, FilledInv, SourceInv, [Next]_vars
    PROVE  SourceInv'
<1>1. CASE UNCHANGED vars
  <2>1. /\ op' = op /\ registry' = registry /\ slots' = slots /\ mode' = mode
        /\ tc' = tc /\ wrapped' = wrapped /\ raced' = raced
    BY <1>1 DEF vars, slotVars, nativeVars
  <2>2. Up' = Up /\ \A k : Meta(k)' = Meta(k)
    BY <2>1 DEF Up, Meta
  <2>3. (SetsAlone => SetsAlone') /\ (ReadCurrent => ReadCurrent')
    BY <2>1 DEF SetsAlone, ReadCurrent, Wires
  <2>4. EmbedsOwn => EmbedsOwn'
    BY <2>1, <2>2 DEF EmbedsOwn, Follows
  <2> QED
    BY <2>1, <2>3, <2>4 DEF SourceInv
<1>2. ASSUME NEW t \in Threads,
             CallStep(t) \/ InstallStep(t) \/ SetTrackStep(t) \/ AttachStep(t)
      PROVE  SourceInv'
  <2>1. CASE CallStep(t) /\ ~Reconnect(t)
    <3>1. mode' = mode /\ (raced => raced')
      BY <2>1, CallAsks DEF Asked, Raced
    <3> QED
      BY <2>1, <3>1, CallSets, CallCurrent, CallOwn DEF SourceInv
  <2>2. CASE Reconnect(t)
    <3>1. /\ \A u \in Threads : op'[u] = Idle
          /\ \A a \in Transceivers : ~tc'[a].up
      BY <2>2, ReconnectFields DEF TypeInv
    <3>2. Up' = {} /\ \A u \in Threads : op'[u].call = "none"
      BY <3>1, IdleFields DEF Up
    <3> QED
      BY <3>2 DEF SourceInv, SetsAlone, ReadCurrent, EmbedsOwn
  <2>3. CASE InstallStep(t) \/ SetTrackStep(t) \/ AttachStep(t)
    <3>1. mode' = mode /\ (raced => raced')
      BY <2>3, StepEffect
    <3> QED
      BY <2>3, <3>1, MoveSets, MoveCurrent, MoveOwn DEF SourceInv
  <2> QED
    BY <1>2, <2>1, <2>2, <2>3
<1> QED
  BY <1>1, <1>2, StepsOf

-----------------------------------------------------------------------------
(* The theorems.                                                            *)

LEMMA InitWires == ASSUME Init PROVE ReadInv /\ FilledInv /\ DueInv /\ SourceInv
<1>1. /\ \A t \in Threads : op[t] = Idle
      /\ \A k \in Keys : registry[k] = 0
      /\ \A a \in Transceivers : ~tc[a].up
      /\ gate = FALSE
  BY DEF Init
<1>2. /\ \A t \in Threads : op[t].at = "idle" /\ op[t].call = "none"
      /\ \A k \in Keys : Meta(k) = Nothing
      /\ Up = {}
  BY <1>1, IdleFields DEF Meta, Up
<1>3. ReadInv
  BY <1>1, <1>2 DEF ReadInv, Reads
<1>4. FilledInv /\ DueInv
  BY <1>1, <1>2 DEF FilledInv, DueInv
<1>5. SourceInv
  BY <1>2 DEF SourceInv, SetsAlone, ReadCurrent, EmbedsOwn
<1> QED
  BY <1>3, <1>4, <1>5

WiredInv == TypeInv /\ LoneInv /\ WiringInv /\ ReadInv /\ FilledInv /\ DueInv /\ SourceInv

LEMMA WiredInvariance == Orderly => (Spec => []WiredInv)
<1> SUFFICES ASSUME Orderly PROVE Spec => []WiredInv
  OBVIOUS
<1>1. Init => WiredInv
  BY InitTypes, InitLone, InitWiring, InitWires DEF WiredInv
<1>2. WiredInv /\ [Next]_vars => WiredInv'
  BY TypeStep, LoneStep, WiringStep, ReadStep, FilledStep, DueStep, SourceStep DEF WiredInv
<1> QED
  BY <1>1, <1>2, PTL DEF Spec

\* At rest a side with a metadata step runs it.
LEMMA StepRuns ==
    ASSUME TypeInv, WiringInv, FilledInv, Quiet, ~mode.fails, NEW k \in Keys, k[1] \in Up
    PROVE  IF Meta(k) # Nothing THEN attached[k] # 0 /\ slots[attached[k]].meta = Meta(k)
           ELSE attached[k] = 0 \/ slots[attached[k]].meta = Nothing
<1>1. ~Claimed(k) /\ tc[k[1]].up
  BY DEF Quiet, Claimed, Up
<1>2. attached[k] = IF registry[k] # 0 /\ slots[registry[k]].installed THEN registry[k] ELSE 0
  BY <1>1 DEF WiringInv, RunsItsSlot
<1>3. Meta(k) # Nothing => Flag(k)
  BY DEF FilledInv, Quiet
<1> QED
  BY <1>2, <1>3 DEF Meta, Flag

\* With the gate open and every call returned, no transceiver is left out: one that
\* sends a live track which may carry metadata embeds it, and one whose remote track
\* is live strips into that track's queue, whichever of set_track, the negotiation
\* and the tracks' events came first, with any number of threads and transceivers.
THEOREM WiredAtRest == Orderly => (Spec => []Wired)
<1> SUFFICES ASSUME Orderly PROVE Spec => []Wired
  OBVIOUS
<1>1. ASSUME WiredInv, Quiet, gate, ~mode.fails, NEW a \in Up
      PROVE  /\ tc[a].track \in wrapped \ OffTracks =>
                   /\ attached[<<a, "send">>] # 0
                   /\ slots[attached[<<a, "send">>]].meta # Nothing
             /\ tc[a].remote = "live" =>
                   /\ attached[<<a, "receive">>] # 0
                   /\ slots[attached[<<a, "receive">>]].meta = tc[a].nth
  <2>1. TypeInv /\ WiringInv /\ FilledInv /\ DueInv
    BY <1>1 DEF WiredInv
  <2>2. PICK s \in Keys, r \in Keys : s = <<a, "send">> /\ r = <<a, "receive">>
    BY DEF Keys, Sides, Up
  <2>3. s[1] \in Up /\ r[1] \in Up
    BY <2>2
  <2>4. \A t \in Threads : ~WillEmbed(op[t], a) /\ ~WillStrip(op[t], a)
    BY <1>1 DEF Quiet, WillEmbed, WillStrip, WillWalk
  <2>5. /\ tc[a].track \in wrapped \ OffTracks => Meta(s) # Nothing
        /\ tc[a].remote = "live" => Meta(r) = tc[a].nth
    BY <2>1, <2>2, <2>4, <1>1 DEF DueInv
  <2>6. tc[a].nth # Nothing
    <3>1. tc[a] \in Transceiver
      BY <2>1 DEF TypeInv, StateTypes, Up
    <3> QED
      BY <3>1, TracksAssumption DEF Transceiver
  <2>7. Meta(s) # Nothing => attached[s] # 0 /\ slots[attached[s]].meta = Meta(s)
    BY <2>1, <2>3, <1>1, StepRuns
  <2>8. Meta(r) # Nothing => attached[r] # 0 /\ slots[attached[r]].meta = Meta(r)
    BY <2>1, <2>3, <1>1, StepRuns
  <2> QED
    BY <2>2, <2>5, <2>6, <2>7, <2>8
<1>2. WiredInv => Wired
  BY <1>1 DEF Wired
<1>3. Spec => []WiredInv
  BY WiredInvariance
<1> QED
  BY <1>2, <1>3, PTL

\* No transceiver goes on embedding the metadata of a track that set_track has taken
\* from it, when no other thread was wiring meanwhile: update_embed_source reaches
\* the step that runs, and a negotiation reads the track that is set.
THEOREM SourceIsCurrent == Orderly => (Spec => []SourceCurrent)
<1> SUFFICES ASSUME Orderly PROVE Spec => []SourceCurrent
  OBVIOUS
<1>1. ASSUME WiredInv, Quiet, ~raced, ~mode.fails, NEW a \in Up,
             attached[<<a, "send">>] # 0, slots[attached[<<a, "send">>]].meta # Nothing
      PROVE  slots[attached[<<a, "send">>]].meta = tc[a].track
  <2>1. TypeInv /\ WiringInv /\ FilledInv /\ EmbedsOwn
    BY <1>1 DEF WiredInv, SourceInv
  <2>2. PICK k \in Keys : k = <<a, "send">>
    BY DEF Keys, Sides, Up
  <2>3. k[1] \in Up
    BY <2>2
  <2>4. Meta(k) # Nothing /\ slots[attached[k]].meta = Meta(k)
    BY <2>1, <2>2, <2>3, <1>1, StepRuns
  <2>5. \A t \in Threads : ~Follows(op[t], a)
    BY <1>1 DEF Quiet, Follows
  <2> QED
    BY <2>1, <2>2, <2>4, <2>5 DEF EmbedsOwn
<1>2. WiredInv => SourceCurrent
  BY <1>1 DEF SourceCurrent
<1>3. Spec => []WiredInv
  BY WiredInvariance
<1> QED
  BY <1>2, <1>3, PTL

=============================================================================
