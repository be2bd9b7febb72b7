----------------------------- MODULE MCCampaign -----------------------------
(***************************************************************************)
(* Instances of Campaign for TLC: two sessions, such as the OFF cell and   *)
(* the ON cell of one model, and one result of each outcome.               *)
(***************************************************************************)
EXTENDS Campaign

Pass == [green |-> TRUE, truncated |-> TRUE]
Fail == [green |-> FALSE, truncated |-> FALSE]
Void == [green |-> FALSE, truncated |-> TRUE]

EachOutcome == {Pass, Fail, Void}
PassOrVoid  == {Pass, Void}

LastGateFails == {S - 1}
=============================================================================
