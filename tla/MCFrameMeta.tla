---------------------------- MODULE MCFrameMeta -----------------------------
(* FrameMeta on small instances, and the modes they start in.              *)
EXTENDS FrameMeta

CONSTANTS app, app2

Each(first, second) == [t \in Pushers |-> IF t = app THEN first ELSE second]

\* A raw track, pushed to by two threads, one of which pushes without metadata.
RawMode == [kind |-> "raw", may |-> Each({"marked"}, {"marked", "plain"}), stamps |-> {0},
            frames |-> 3, turns |-> 1, sinks |-> 0, early |-> FALSE, drops |-> FALSE,
            layers |-> 1, faults |-> {}]

\* Frames stamped by the caller, before and after the present millisecond.
Stamped == [RawMode EXCEPT !.may = Each({"marked", "plain"}, {}), !.stamps = {-1, 1}]

\* One thread, two simulcast layers, a callback that drops frames.
Simulcast == [RawMode EXCEPT !.may = Each({"marked"}, {}), !.layers = 2, !.drops = TRUE]

\* A network that does everything to the frames of one thread.
Network == [RawMode EXCEPT !.may = Each({"marked"}, {}), !.frames = 4, !.early = TRUE,
            !.faults = Faults]

\* A pre-encoded track, all of whose frames carry metadata.
Encoded == [RawMode EXCEPT !.kind = "encoded", !.may = Each({"marked"}, {}), !.frames = 4,
            !.turns = 2, !.early = TRUE]

\* A pre-encoded track, some of whose frames carry none.
Mixed == [Encoded EXCEPT !.may = Each({"marked", "plain"}, {}), !.frames = 3]

\* Two threads set the sink while frames arrive.
Sinks == [RawMode EXCEPT !.may = Each({"marked"}, {}), !.frames = 2, !.sinks = 3]

AllModes == {RawMode, Stamped, Simulcast, Network, Encoded, Mixed, Sinks}

=============================================================================
