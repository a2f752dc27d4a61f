----------------------------- MODULE SenderMeta -----------------------------
(***************************************************************************)
(* How the transformers of a connection's video transceivers get installed  *)
(* (sender_meta.rs, peer_connection.rs).  libwebrtc gives each side of a      *)
(* transceiver one place for a transformer; the crate puts one there that    *)
(* runs a ComposedSlot: the caller's callback and the frame-metadata step.   *)
(* Slots are found by the transceiver's native address, metadata sources by  *)
(* the native track, and a slot's `installed` flag makes sure that of all the *)
(* threads that fill the slot one attaches the transformer.                 *)
(*                                                                         *)
(* libwebrtc may stop and free transceivers while it applies a description,   *)
(* and allocate the next one at the same address.  A handle, which the calls  *)
(* below hold, keeps a transceiver in memory.  A thread is between two steps   *)
(* where it lets go of a mutex or calls libwebrtc.                           *)
(***************************************************************************)
EXTENDS Naturals, Sequences

CONSTANTS
    Threads,        \* application threads
    Transceivers,   \* native addresses of transceivers
    Tracks,         \* local video tracks
    OffTracks,      \* those created with frame_metadata off
    PreEncoded,     \* those wrapped in an EncodedVideoTrack
    Nothing,        \* no track, no metadata step
    Enabled,        \* the connection's frame_metadata_enabled
    Modes           \* the modes to start in: see Mode

Sides == {"send", "receive"}
Keys  == Transceivers \X Sides
Operations ==
    {"remote", "local", "add_track", "add_transceiver", "set_track", "set_transform", "drop_track",
     "drop_remote", "reconnect"}

\* The operations each thread may call and, a bound, how many calls it makes;
\* whether attaching a transformer may fail; when libwebrtc frees transceivers:
\* never, in an apply after which the gate is open, or in any; and whether one
\* may be made while another thread has enumerated them and not pruned yet.
Mode == [may : [Threads -> SUBSET Operations], calls : [Threads -> Nat], fails : BOOLEAN,
         frees : {"never", "gateOpen", "any"}, overtakes : BOOLEAN]

ASSUME TracksAssumption ==
    OffTracks \subseteq Tracks /\ PreEncoded \subseteq Tracks /\ Nothing \notin Tracks \cup Nat
ASSUME ModesAssumption == Enabled \in BOOLEAN /\ Modes \subseteq Mode

VARIABLES
    mode,
    gate,       \* FrameMetadataGate
    tc,         \* libwebrtc's transceiver at each address
    attached,   \* the slot that the transformer of each side runs, or 0
    slots,      \* every ComposedSlot there has been
    registry,   \* slots(): the slot each key finds, or 0
    wrapped,    \* the tracks whose Rust Track is alive
    op,         \* the call each thread is in
    calls,      \* bound
    promised,   \* history: a set_*_transform for this side has returned Ok
    raced       \* history: a set_track ran beside another thread's wiring

nativeVars == <<tc, attached>>
slotVars   == <<slots, registry>>
vars       == <<mode, gate, nativeVars, slotVars, wrapped, op, calls, promised, raced>>

\* A transceiver: alive or not, the how-manyeth at its address, the track its
\* sender has, and whether the Rust wrapper of its receiver's track is alive.
Fresh(a) == [up |-> TRUE, nth |-> tc[a].nth + 1, track |-> Nothing, remote |-> "none"]

Up == {a \in Transceivers : tc[a].up}

Idle == [at |-> "idle", call |-> "none", key |-> Nothing, fill |-> Nothing, slot |-> 0,
         handles |-> {}, todo |-> {}, lent |-> Nothing]

\* The addresses some handle keeps from being freed.
Held == UNION {op[t].handles : t \in Threads}

Go(t, label) == op' = [op EXCEPT ![t].at = label]

\* A call that may be made now, and takes one from the thread's budget.
Call(t, operation) ==
    /\ op[t].at = "idle" /\ calls[t] > 0
    /\ operation \in mode.may[t]
    /\ calls' = [calls EXCEPT ![t] = @ - 1]

\* Another thread is wiring while t sets a track, or the other way round.
Wiring(t)     == op[t].call \in {"install", "set_track"}
Crosses(t, c) ==
    raced \/ \E u \in Threads \ {t} : Wiring(u) /\ "set_track" \in {c, op[u].call}

StartInstall(t) ==
    /\ op' = [op EXCEPT ![t] = [Idle EXCEPT !.at = "install", !.call = "install"]]
    /\ raced' = Crosses(t, "install")

-----------------------------------------------------------------------------
(* The registries of metadata sources and of the tracks that may carry any. *)

\* lookup: a source outlives its Track only in an EncodedVideoTrack's case, as
\* long as some slot still in use holds it.
SlotsInUse == {registry[k] : k \in Keys} \cup {attached[k] : k \in Keys}

Known(track) ==
    \/ track \in wrapped
    \/ track \in PreEncoded /\ \E i \in SlotsInUse \ {0} : slots[i].meta = track

\* allowed: a track that is not listed, as one whose Track is gone, is.
Allowed(track) == track \notin wrapped \cap OffTracks

-----------------------------------------------------------------------------
(* Calls.                                                                  *)

\* libwebrtc's share of an apply: stopped transceivers are freed, and a remote
\* description may bring a new one and delivers remote tracks (on_track).
ApplyNatively(freed, new, delivers) ==
    /\ tc' = [a \in Transceivers |->
                 IF a \in freed THEN [tc[a] EXCEPT !.up = FALSE]
                 ELSE IF a \in new THEN [Fresh(a) EXCEPT !.remote = "live"]
                 ELSE IF delivers /\ tc[a].up /\ tc[a].remote = "none"
                      THEN [tc[a] EXCEPT !.remote = "live"]
                 ELSE tc[a]]
    /\ attached' = [k \in Keys |-> IF k[1] \in freed \cup new THEN 0 ELSE attached[k]]
    /\ promised' = [k \in Keys |-> k[1] \notin freed \cup new /\ promised[k]]

MayFree(freed, open) ==
    /\ freed \subseteq Up \ Held
    /\ mode.frees = "never" => freed = {}
    /\ mode.frees = "gateOpen" /\ freed # {} => open

MayMake == mode.overtakes \/ \A t \in Threads : op[t].at # "prune"

\* set_remote_description: the native apply,
SetRemoteDescription(t, declares) ==
    /\ Call(t, "remote")
    /\ \E freed \in SUBSET Up, new \in {{}} \cup {{a} : a \in Transceivers \ Up} :
          /\ MayFree(freed, Enabled /\ declares)
          /\ new = {} \/ MayMake
          /\ ApplyNatively(freed, new, TRUE)
    /\ op' = [op EXCEPT ![t] = [Idle EXCEPT !.at = "arm", !.call = "remote", !.fill = declares]]
    /\ UNCHANGED <<mode, gate, slotVars, wrapped, raced>>

\* then the gate, and the install.
ArmGate(t) ==
    /\ op[t].at = "arm"
    /\ gate' = (Enabled /\ op[t].fill)
    /\ StartInstall(t)
    /\ UNCHANGED <<mode, nativeVars, slotVars, wrapped, calls, promised>>

SetLocalDescription(t) ==
    /\ Call(t, "local")
    /\ \E freed \in SUBSET Up : MayFree(freed, gate) /\ ApplyNatively(freed, {}, FALSE)
    /\ StartInstall(t)
    /\ UNCHANGED <<mode, gate, slotVars, wrapped>>

\* add_track takes a transceiver that has no track yet, or makes one.
AddTrack(t, track, a) ==
    /\ Call(t, "add_track")
    /\ track \in wrapped /\ \A b \in Up : tc[b].track # track
    /\ IF tc[a].up
       THEN /\ tc[a].track = Nothing
            /\ tc' = [tc EXCEPT ![a].track = track]
            /\ UNCHANGED <<attached, promised>>
       ELSE /\ MayMake /\ \A b \in Up : tc[b].track # Nothing
            /\ tc' = [tc EXCEPT ![a] = [Fresh(a) EXCEPT !.track = track]]
            /\ attached' = [k \in Keys |-> IF k[1] = a THEN 0 ELSE attached[k]]
            /\ promised' = [k \in Keys |-> k[1] # a /\ promised[k]]
    /\ StartInstall(t)
    /\ UNCHANGED <<mode, gate, slotVars, wrapped>>

AddTransceiver(t, a) ==
    /\ Call(t, "add_transceiver")
    /\ a \notin Up /\ MayMake
    /\ tc' = [tc EXCEPT ![a] = Fresh(a)]
    /\ attached' = [k \in Keys |-> IF k[1] = a THEN 0 ELSE attached[k]]
    /\ promised' = [k \in Keys |-> k[1] # a /\ promised[k]]
    /\ UNCHANGED <<mode, gate, slotVars, wrapped, op, raced>>

\* Transceiver::set_track: the native call.
SetTrack(t, track, a) ==
    /\ Call(t, "set_track")
    /\ track \in wrapped /\ a \in Up /\ \A b \in Up : tc[b].track # track
    /\ tc' = [tc EXCEPT ![a].track = track]
    /\ op' = [op EXCEPT ![t] =
                 [Idle EXCEPT !.at = "reread", !.call = "set_track", !.key = <<a, "send">>,
                              !.handles = {a}, !.lent = track]]
    /\ raced' = Crosses(t, "set_track")
    /\ UNCHANGED <<mode, gate, attached, slotVars, wrapped, promised>>

\* set_sender_transform, set_receiver_transform
SetTransform(t, a, side) ==
    /\ Call(t, "set_transform")
    /\ a \in Up
    /\ op' = [op EXCEPT ![t] =
                 [Idle EXCEPT !.at = "slot", !.call = "transform", !.key = <<a, side>>,
                              !.handles = {a}]]
    /\ UNCHANGED <<mode, gate, nativeVars, slotVars, wrapped, promised, raced>>

\* Drop for PeerConnection, and another one made at its address.
Reconnect(t) ==
    /\ \A u \in Threads : op[u] = Idle
    /\ Call(t, "reconnect")
    /\ registry' = [k \in Keys |-> IF k[1] \in Up THEN 0 ELSE registry[k]]
    /\ tc' = [a \in Transceivers |-> [tc[a] EXCEPT !.up = FALSE]]
    /\ attached' = [k \in Keys |-> 0]
    /\ promised' = [k \in Keys |-> FALSE]
    /\ gate' = FALSE
    /\ UNCHANGED <<mode, slots, wrapped, op, raced>>

\* Drop for a Track that no call has borrowed, local or remote.
DropTrack(t, track) ==
    /\ Call(t, "drop_track")
    /\ track \in wrapped /\ \A u \in Threads : op[u].lent # track
    /\ wrapped' = wrapped \ {track}
    /\ UNCHANGED <<mode, gate, nativeVars, slotVars, op, promised, raced>>

DropRemoteTrack(t, a) ==
    /\ Call(t, "drop_remote")
    /\ tc[a].up /\ tc[a].remote = "live"
    /\ tc' = [tc EXCEPT ![a].remote = "gone"]
    /\ UNCHANGED <<mode, gate, attached, slotVars, wrapped, op, promised, raced>>

-----------------------------------------------------------------------------
(* install_frame_metadata_transforms.                                      *)

\* With the gate open, the handles of all transceivers are taken.
Enumerate(t) ==
    /\ op[t].at = "install"
    /\ op' = [op EXCEPT ![t] = IF gate
                               THEN [@ EXCEPT !.at = "prune", !.handles = Up, !.todo = Up]
                               ELSE Idle]
    /\ UNCHANGED <<mode, gate, nativeVars, slotVars, wrapped, calls, promised, raced>>

\* Mutant: slots of transceivers that are gone are kept.
PruneStaleSlots_Skips(t) ==
    /\ op[t].at = "prune"
    /\ Go(t, "next")
    /\ UNCHANGED <<mode, gate, nativeVars, slotVars, wrapped, calls, promised, raced>>

PruneStaleSlots(t) ==
    /\ op[t].at = "prune"
    /\ registry' = [k \in Keys |-> IF k[1] \in op[t].handles THEN registry[k] ELSE 0]
    /\ Go(t, "next")
    /\ UNCHANGED <<mode, gate, nativeVars, slots, wrapped, calls, promised, raced>>

NextTransceiver(t) ==
    /\ op[t].at = "next"
    /\ IF op[t].todo = {} THEN op' = [op EXCEPT ![t] = Idle]
       ELSE \E a \in op[t].todo :
              op' = [op EXCEPT ![t].at = "allowed", ![t].key = <<a, "send">>,
                               ![t].todo = @ \ {a}]
    /\ UNCHANGED <<mode, gate, nativeVars, slotVars, wrapped, calls, promised, raced>>

CheckAllowed(t) ==
    /\ op[t].at = "allowed"
    /\ Go(t, IF Allowed(tc[op[t].key[1]].track) THEN "lookup" ELSE "lookupReceiver")
    /\ UNCHANGED <<mode, gate, nativeVars, slotVars, wrapped, calls, promised, raced>>

LookupSource(t) ==
    /\ op[t].at = "lookup"
    /\ LET track == tc[op[t].key[1]].track
       IN op' = [op EXCEPT ![t] = IF Known(track)
                                  THEN [@ EXCEPT !.at = "slot", !.fill = track]
                                  ELSE [@ EXCEPT !.at = "lookupReceiver"]]
    /\ UNCHANGED <<mode, gate, nativeVars, slotVars, wrapped, calls, promised, raced>>

\* The queue of the remote track, known by the transceiver it came with.
LookupReceiver(t) ==
    /\ op[t].at = "lookupReceiver"
    /\ LET a == op[t].key[1]
       IN op' = [op EXCEPT ![t] = IF tc[a].remote = "live"
                                  THEN [@ EXCEPT !.at = "slot", !.key = <<a, "receive">>,
                                                 !.fill = tc[a].nth]
                                  ELSE [@ EXCEPT !.at = "next"]]
    /\ UNCHANGED <<mode, gate, nativeVars, slotVars, wrapped, calls, promised, raced>>

-----------------------------------------------------------------------------
(* The rest of set_track: the track is read back from the sender.           *)

Reread(t) ==
    /\ op[t].at = "reread"
    /\ op' = [op EXCEPT ![t].at = "update", ![t].fill = tc[op[t].key[1]].track]
    /\ UNCHANGED <<mode, gate, nativeVars, slotVars, wrapped, calls, promised, raced>>

\* Mutant: a new slot is handed out and not put into the registry's table.
SlotFor_NotStored(t, label) ==
    /\ op' = [op EXCEPT ![t].at = label,
                        ![t].slot = IF registry[op[t].key] = 0 THEN Len(slots) + 1
                                    ELSE registry[op[t].key]]
    /\ UNCHANGED slotVars

\* slot_for: the slot the thread's key finds, or a new empty one.
SlotFor(t, label) ==
    LET k == op[t].key
    IN IF registry[k] # 0
       THEN /\ op' = [op EXCEPT ![t].at = label, ![t].slot = registry[k]]
            /\ UNCHANGED slotVars
       ELSE /\ slots' = Append(slots, [caller |-> 0, meta |-> Nothing, installed |-> FALSE])
            /\ registry' = [registry EXCEPT ![k] = Len(slots')]
            /\ op' = [op EXCEPT ![t].at = label, ![t].slot = Len(slots')]

\* update_embed_source, when the track has a source: its slot,
UpdateSource(t) ==
    /\ op[t].at = "update"
    /\ IF Known(op[t].fill) THEN SlotFor(t, "swap") ELSE Go(t, "gate") /\ UNCHANGED slotVars
    /\ UNCHANGED <<mode, gate, nativeVars, wrapped, calls, promised, raced>>

\* Mutant: only a slot that is not installed gets the new source.
SwapSource_OnlyUninstalled(t) ==
    /\ op[t].at = "swap"
    /\ LET i == op[t].slot
       IN slots' = IF ~slots[i].installed /\ slots[i].meta # Nothing
                   THEN [slots EXCEPT ![i].meta = op[t].fill] ELSE slots
    /\ Go(t, "gate")
    /\ UNCHANGED <<mode, gate, nativeVars, registry, wrapped, calls, promised, raced>>

\* whose embed step, if it runs one, gets the new source.
SwapSource(t) ==
    /\ op[t].at = "swap"
    /\ LET i == op[t].slot
       IN slots' = IF slots[i].installed /\ slots[i].meta # Nothing
                   THEN [slots EXCEPT ![i].meta = op[t].fill] ELSE slots
    /\ Go(t, "gate")
    /\ UNCHANGED <<mode, gate, nativeVars, registry, wrapped, calls, promised, raced>>

\* Mutant: the step is left to the next negotiation.
EmbedAtOnce_Never(t) ==
    /\ op[t].at = "gate"
    /\ op' = [op EXCEPT ![t] = Idle]
    /\ UNCHANGED <<mode, gate, nativeVars, slotVars, wrapped, calls, promised, raced>>

\* With the gate open, a track that may carry metadata gets its step at once.
EmbedAtOnce(t) ==
    /\ op[t].at = "gate"
    /\ LET track == op[t].fill
       IN IF gate /\ Allowed(track) /\ Known(track) THEN Go(t, "slot")
          ELSE op' = [op EXCEPT ![t] = Idle]
    /\ UNCHANGED <<mode, gate, nativeVars, slotVars, wrapped, calls, promised, raced>>

-----------------------------------------------------------------------------
(* attach_caller, attach_embed and attach_strip, and what their callers do   *)
(* with the transformer.                                                    *)

TakeSlot(t) ==
    /\ op[t].at = "slot"
    /\ SlotFor(t, "fill")
    /\ UNCHANGED <<mode, gate, nativeVars, wrapped, calls, promised, raced>>

\* set_caller or set_meta.  The callback is known by the transceiver it is for.
FillSlot(t) ==
    /\ op[t].at = "fill"
    /\ slots' = IF op[t].call = "transform"
                THEN [slots EXCEPT ![op[t].slot].caller = tc[op[t].key[1]].nth]
                ELSE [slots EXCEPT ![op[t].slot].meta = op[t].fill]
    /\ Go(t, "claim")
    /\ UNCHANGED <<mode, gate, nativeVars, registry, wrapped, calls, promised, raced>>

\* This side is done: install goes on, the other calls return.
Leave(t) ==
    op' = [op EXCEPT ![t] =
              IF @.call # "install" THEN Idle
              ELSE [@ EXCEPT !.at = IF op[t].key[2] = "send" THEN "lookupReceiver" ELSE "next",
                             !.slot = 0, !.fill = Nothing]]

Return(t, ok) ==
    /\ Leave(t)
    /\ promised' = IF ok /\ op[t].call = "transform"
                   THEN [promised EXCEPT ![op[t].key] = TRUE] ELSE promised

\* Mutant: the flag is read and not set.
ClaimInstall_OnlyReads(t) ==
    /\ op[t].at = "claim"
    /\ IF slots[op[t].slot].installed THEN Return(t, TRUE)
       ELSE Go(t, "attach") /\ UNCHANGED promised
    /\ UNCHANGED <<mode, gate, nativeVars, slotVars, wrapped, calls, raced>>

\* claim_install: the first to come attaches the transformer.
ClaimInstall(t) ==
    /\ op[t].at = "claim"
    /\ slots' = [slots EXCEPT ![op[t].slot].installed = TRUE]
    /\ IF slots[op[t].slot].installed THEN Return(t, TRUE)
       ELSE Go(t, "attach") /\ UNCHANGED promised
    /\ UNCHANGED <<mode, gate, nativeVars, registry, wrapped, calls, raced>>

\* attach_native_transform
Attach(t) ==
    /\ op[t].at = "attach"
    /\ attached' = [attached EXCEPT ![op[t].key] = op[t].slot]
    /\ Return(t, TRUE)
    /\ UNCHANGED <<mode, gate, tc, slotVars, wrapped, calls, raced>>

AttachFails(t) ==
    /\ op[t].at = "attach" /\ mode.fails
    /\ Go(t, "release")
    /\ UNCHANGED <<mode, gate, nativeVars, slotVars, wrapped, calls, promised, raced>>

\* release_install looks the slot up again.
ReleaseSlot(t) ==
    /\ op[t].at = "release"
    /\ SlotFor(t, "unclaim")
    /\ UNCHANGED <<mode, gate, nativeVars, wrapped, calls, promised, raced>>

\* Mutant: the claim is kept.
ReleaseInstall_KeepsClaim(t) ==
    /\ op[t].at = "unclaim"
    /\ Return(t, FALSE)
    /\ UNCHANGED <<mode, gate, nativeVars, slotVars, wrapped, calls, raced>>

ReleaseInstall(t) ==
    /\ op[t].at = "unclaim"
    /\ slots' = [slots EXCEPT ![op[t].slot].installed = FALSE]
    /\ Return(t, FALSE)
    /\ UNCHANGED <<mode, gate, nativeVars, registry, wrapped, calls, raced>>

-----------------------------------------------------------------------------

Init ==
    /\ mode \in Modes
    /\ gate = FALSE
    /\ tc = [a \in Transceivers |-> [up |-> FALSE, nth |-> 0, track |-> Nothing, remote |-> "none"]]
    /\ attached = [k \in Keys |-> 0]
    /\ slots = <<>> /\ registry = [k \in Keys |-> 0]
    /\ wrapped = Tracks
    /\ op = [t \in Threads |-> Idle] /\ calls = mode.calls
    /\ promised = [k \in Keys |-> FALSE] /\ raced = FALSE

CallStep(t) ==
    \/ \E declares \in BOOLEAN : SetRemoteDescription(t, declares)
    \/ SetLocalDescription(t)
    \/ Reconnect(t)
    \/ \E track \in Tracks : DropTrack(t, track)
    \/ \E a \in Transceivers :
          \/ AddTransceiver(t, a) \/ DropRemoteTrack(t, a)
          \/ \E track \in Tracks : AddTrack(t, track, a) \/ SetTrack(t, track, a)
          \/ \E side \in Sides : SetTransform(t, a, side)

InstallStep(t) ==
    \/ ArmGate(t) \/ Enumerate(t) \/ PruneStaleSlots(t) \/ NextTransceiver(t)
    \/ CheckAllowed(t) \/ LookupSource(t) \/ LookupReceiver(t)

SetTrackStep(t) == Reread(t) \/ UpdateSource(t) \/ SwapSource(t) \/ EmbedAtOnce(t)

AttachStep(t) ==
    \/ TakeSlot(t) \/ FillSlot(t) \/ ClaimInstall(t)
    \/ Attach(t) \/ AttachFails(t) \/ ReleaseSlot(t) \/ ReleaseInstall(t)

Quiet == \A t \in Threads : op[t].at = "idle"

Next ==
    \/ \E t \in Threads : CallStep(t) \/ InstallStep(t) \/ SetTrackStep(t) \/ AttachStep(t)
    \/ Quiet /\ UNCHANGED vars

Spec == Init /\ [][Next]_vars

-----------------------------------------------------------------------------
(* Correctness.                                                            *)

Labels == {"idle", "arm", "install", "prune", "next", "allowed", "lookup", "lookupReceiver",
           "reread", "update", "swap", "gate", "slot", "fill", "claim", "attach", "release",
           "unclaim"}

\* Every variable keeps to the values the code's types allow it: a registry entry
\* and a transformer name slots there are, and the sides' steps are of their kind.
TypeOK ==
    /\ mode \in Modes /\ gate \in BOOLEAN
    /\ tc \in [Transceivers -> [up : BOOLEAN, nth : Nat, track : Tracks \cup {Nothing},
                                remote : {"none", "live", "gone"}]]
    /\ slots \in Seq([caller : Nat, meta : Tracks \cup Nat \cup {Nothing}, installed : BOOLEAN])
    /\ registry \in [Keys -> 0 .. Len(slots)] /\ attached \in [Keys -> 0 .. Len(slots)]
    /\ wrapped \subseteq Tracks
    /\ \A t \in Threads :
          /\ op[t].at \in Labels
          /\ op[t].at \in {"fill", "swap", "claim", "attach", "unclaim"} =>
                op[t].slot \in DOMAIN slots
    /\ calls \in [Threads -> Nat]
    /\ promised \in [Keys -> BOOLEAN] /\ raced \in BOOLEAN

\* A thread has claimed this side and not attached its transformer yet.
Claimed(k) == \E t \in Threads : op[t].at \in {"attach", "release", "unclaim"} /\ op[t].key = k

\* A live transceiver runs the transformer of the slot its key finds exactly if
\* that slot's `installed` flag says so, so that whatever is registered later
\* is picked up and nothing is taken for installed that is not: also after an
\* attach that failed, and at an address that was freed and used again
\* (attach_caller, release_install, prune_stale_slots).
RunsItsSlot ==
    \A k \in Keys : tc[k[1]].up /\ ~Claimed(k) =>
        attached[k] = IF registry[k] # 0 /\ slots[registry[k]].installed
                      THEN registry[k] ELSE 0

\* SetFrameTransformer is called at most once for a side of a transceiver: of the
\* threads that fill a slot one attaches, where nothing is attached yet, so that no
\* transformer replaces another with the callback it runs ("composes rather than
\* replaces").
AttachedOnce ==
    \A t \in Threads : op[t].at = "attach" =>
        /\ attached[op[t].key] = 0
        /\ \A u \in Threads \ {t} : ~(op[u].at = "attach" /\ op[u].key = op[t].key)

\* Once set_sender_transform or set_receiver_transform has returned Ok, this
\* transceiver runs a transformer with a callback that was set on it, and not
\* one left over from another transceiver.
CallbackRuns ==
    \A k \in Keys : tc[k[1]].up /\ promised[k] /\ ~Claimed(k) =>
        attached[k] # 0 /\ slots[attached[k]].caller = tc[k[1]].nth

\* With the gate open and no call in progress, every transceiver that sends a
\* live track which may carry metadata embeds it, and every one whose remote
\* track is live strips into that track's queue: whichever of negotiation and
\* set_track came second has found the other's work done.
Wired ==
    Quiet /\ gate /\ ~mode.fails =>
        \A a \in Up :
            /\ tc[a].track \in wrapped \ OffTracks =>
                  /\ attached[<<a, "send">>] # 0
                  /\ slots[attached[<<a, "send">>]].meta # Nothing
            /\ tc[a].remote = "live" =>
                  /\ attached[<<a, "receive">>] # 0
                  /\ slots[attached[<<a, "receive">>]].meta = tc[a].nth

\* What a transceiver embeds is the metadata of the track it sends, and never
\* that of a track it sent before; unless a set_track ran beside another
\* thread's wiring, whose older reading of the sender's track may come last.
SourceCurrent ==
    Quiet /\ ~raced /\ ~mode.fails =>
        \A a \in Up : LET i == attached[<<a, "send">>]
                      IN i # 0 /\ slots[i].meta # Nothing /\ tc[a].track \in wrapped =>
                            slots[i].meta = tc[a].track

=============================================================================
