---------------------------- MODULE MCServeDrive ----------------------------
(***************************************************************************)
(* Instances of ServeDrive for TLC: two chunks, so that a marker of the    *)
(* first is there when the second is scanned, and a feedback round; a kill *)
(* and a stall, so that a recovery and a marker nudge can follow.          *)
(***************************************************************************)
EXTENDS ServeDrive

Message(k, b, n) == [kind |-> k, burns |-> b, input |-> n]

\* Every kind, with figures of output among the turns that count and those that were
\* killed, and a turn without any; a message that is no turn raises the input figure
\* when it comes first, and leaves it alone after a "done".
MCWritten ==
    {Message("done", TRUE, 1), Message("marked", FALSE, 0), Message("guard", TRUE, 0),
     Message("finalize", TRUE, 0), Message("void", FALSE, 0), Message("error", FALSE, 1),
     Message("summary", TRUE, 0)}
=============================================================================
