------------------------------ MODULE DcStream ------------------------------
(***************************************************************************)
(* What the sending half of a chunked channel promises its callers: the     *)
(* messages `send` accepted are handed to SCTP whole, once each and in the  *)
(* order they were accepted, for as long as the channel is open, and none   *)
(* is handed over once it is not (DataChannel's documentation and that of   *)
(* `send`, peer_connection.rs).                                             *)
(***************************************************************************)
EXTENDS Naturals, Sequences

CONSTANT Sizes

VARIABLES
    accepted,   \* sizes of the messages send took, in order
    handed,     \* sizes of the messages handed over whole, in order
    open        \* whether the channel is open

streamVars == <<accepted, handed, open>>

StreamInit == accepted = <<>> /\ handed = <<>> /\ open = TRUE

\* A send that saw the channel open may be accepted just after it closed.
Accept ==
    /\ \E size \in Sizes : accepted' = Append(accepted, size)
    /\ UNCHANGED <<handed, open>>

HandOver ==
    /\ open
    /\ Len(handed) < Len(accepted)
    /\ handed' = Append(handed, accepted[Len(handed) + 1])
    /\ UNCHANGED <<accepted, open>>

End ==
    /\ open
    /\ open' = FALSE
    /\ UNCHANGED <<accepted, handed>>

StreamNext == Accept \/ HandOver \/ End

StreamSpec == StreamInit /\ [][StreamNext]_streamVars

=============================================================================
