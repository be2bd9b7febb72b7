----------------------------- MODULE MCCellRun ------------------------------
(***************************************************************************)
(* Instances of CellRun for TLC: two gates, so that one can begin to pass  *)
(* while the other fails; runs metered at 0 or 1; a proxy that commits up  *)
(* to 1 more than that; a budget that a dear attempt can use up.           *)
(***************************************************************************)
EXTENDS CellRun

MCCosts    == {0, 1}
MCOverhead == {0, 1}
=============================================================================
