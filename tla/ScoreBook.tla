----------------------------- MODULE ScoreBook ------------------------------
(***************************************************************************)
(* What a campaign promises its reader: the sessions are closed one by     *)
(* one, in schedule order, each with one result, and a closed session      *)
(* keeps its result for ever.                                              *)
(***************************************************************************)
EXTENDS RunArtifacts

VARIABLE book    \* the result of every session: none yet, or one

BookInit == book = [s \in Sessions |-> {}]

Close(s, r) ==
    /\ book[s] = {}
    /\ \A t \in Sessions : t < s => book[t] # {}
    /\ book' = [book EXCEPT ![s] = {r}]

BookNext == \E s \in Sessions, r \in Results : Close(s, r)

BookSpec == BookInit /\ [][BookNext]_book
=============================================================================
