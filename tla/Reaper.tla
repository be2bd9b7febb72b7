------------------------------- MODULE Reaper -------------------------------
(***************************************************************************)
(* The host processes a run reaps when it ends (ProcessReaper).  A table   *)
(* gives every living process its parent; ps is what shows it, and shows   *)
(* only some of them: without -x, those on the terminal of the caller.     *)
(***************************************************************************)

CONSTANTS Init1,        \* process 1, the parent of orphans
          Own,          \* the run itself
          RunBinary(_)  \* whether ps names a process node, opencode, playwright, report.mjs

\* The rows of ps that parse.
Rows(parent, shown) == (DOMAIN parent) \cap shown

\* Direct children of the run (_list_child_pids).
Children(parent, shown) == {p \in Rows(parent, shown) : p # Own /\ parent[p] = Own}

\* Faulty variant of Candidates: orphans alone.
CandidatesOrphaned(parent, shown) ==
    {p \in Rows(parent, shown) : p # Own /\ RunBinary(p) /\ parent[p] = Init1}

\* _default_process_provider: the children, and orphans that run one of the
\* run's binaries, whoever started them.
Candidates(parent, shown) ==
    Children(parent, shown)
      \cup {p \in Rows(parent, shown) : p # Own /\ RunBinary(p) /\ parent[p] = Init1}

\* A signal reaches a living process other than the run (SIGTERM, then SIGKILL).
Signalled(parent, pids) == {p \in pids : p \in DOMAIN parent /\ p # Own}

\* _kill_tree: despite its name, the processes and not what they started, which
\* is orphaned.
KillTree(parent, pids) ==
    LET dead == Signalled(parent, pids)
    IN  [p \in (DOMAIN parent) \ dead |->
            IF parent[p] \in dead THEN Init1 ELSE parent[p]]

\* _kill_process_group: the children, if the run leads its process group.
AfterGroupKill(parent, shown, leader) ==
    IF leader THEN KillTree(parent, Children(parent, shown)) ELSE parent

\* _reap_orphaned_children: ps is asked again.
AfterReap(parent, shown) == KillTree(parent, Candidates(parent, shown))
=============================================================================
