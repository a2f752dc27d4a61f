------------------------- MODULE MCEncoderRegistry -------------------------
(* Instances of EncoderRegistry for TLC. *)
EXTENDS EncoderRegistry, TLC

CONSTANTS a, b, app1, app2

TwoTracks == {a, b}
OneTrack  == {a}
Apps      == {app1, app2}

Symmetry == Permutations(Apps)

=============================================================================
