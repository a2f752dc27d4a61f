---------------------------- MODULE MCSenderMeta ----------------------------
(* SenderMeta on small instances, and the modes they start in.             *)
EXTENDS SenderMeta

CONSTANTS app, app2

Each(first, second) == [t \in Threads |-> IF t = app THEN first ELSE second]

\* One thread does everything, and transceivers come and go.
Alone == [may |-> Each(Operations, {}), calls |-> Each(5, 0), fails |-> FALSE,
          frees |-> "gateOpen", overtakes |-> FALSE]

\* Attaching may fail as well.
Failing == [Alone EXCEPT !.calls = Each(4, 0), !.fails = TRUE]

\* Two threads negotiate and wire the same transceivers.
Beside == [Alone EXCEPT !.may   = Each({"remote", "local", "add_track"},
                                       {"local", "set_track", "set_transform", "drop_track"}),
                        !.calls = Each(2, 2),
                        !.frees = "never"]

AllModes == {Alone, Failing, Beside}

=============================================================================
