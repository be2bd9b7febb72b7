---------------------------- MODULE MCWorkerCell ----------------------------
(***************************************************************************)
(* WorkerCell on two cells, with every call liable to fail.                *)
(***************************************************************************)
EXTENDS WorkerCell

AllCalls ==
    {"docker", "stale", "network", "create", "chown", "volrm", "argv", "run", "serve",
     "kill", "stop", "export", "rm", "sweep", "probe", "gate"}
=============================================================================
