---------------------------- MODULE MCDcReceive ----------------------------
(* DcReceive on small instances, and the modes they start in.              *)
EXTENDS DcReceive

CONSTANTS cb_thread, app

Posted == [inline |-> FALSE, callers |-> Threads, replacers |-> Threads]

\* Callbacks on the network thread; only handlers it runs call channel methods.
Inline == [inline |-> TRUE, callers |-> {cb_thread}, replacers |-> {cb_thread}]

\* And the one in which handlers run by a flush call them as well.
InlineFlush == [inline |-> TRUE, callers |-> {app}, replacers |-> {}]

AllModes       == {Posted, Inline, InlineFlush}
FlushMode      == {InlineFlush}
ReplacingMode  == {Posted}

=============================================================================
