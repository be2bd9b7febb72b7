--------------------------- MODULE MCStdoutDrive ---------------------------
(***************************************************************************)
(* Instances of StdoutDrive for TLC: five events are two steps and an      *)
(* error in between, or a step in each of two invocations.                 *)
(***************************************************************************)
EXTENDS StdoutDrive
=============================================================================
