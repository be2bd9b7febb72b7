----------------------------- MODULE WorkerCell -----------------------------
(***************************************************************************)
(* The docker life of the cells of a campaign.  Each cell gets a container *)
(* and a volume of its own name, publishes the same host port, keeps its   *)
(* transcript in the volume and copies it to the host at teardown; when    *)
(* the run ends for whatever reason but a kill, the reaper sweeps up       *)
(* (DockerCell, the head of BackgammonRunner.run, ProcessReaper, main).    *)
(*                                                                         *)
(* Docker and the processes inside a container are external: a call may    *)
(* fail (MaxFaults), a container that runs holds the port, a volume that a *)
(* container uses cannot be removed.  The run may be interrupted, or       *)
(* killed at any point.  The operator launches it again until the campaign *)
(* is complete.                                                            *)
(*                                                                         *)
(* On the host a cell has a docker exec client or a gate runner with its   *)
(* workers, each in a session of its own.  A killed run leaves them to     *)
(* process 1; an orphan is taken never to end by itself, but for a docker  *)
(* exec whose container goes.                                              *)
(***************************************************************************)
EXTENDS Naturals, FiniteSets

CONSTANTS
    Cells,          \* the number of cells of the campaign
    Tasks,          \* the values of --task the run is launched with
    Faulty,         \* the docker calls that may fail
    Seen,           \* the kinds of host process ps shows to the run
    MaxRows,        \* bound: rows an attempt writes to its transcript
    MaxFaults,      \* bound: calls that fail
    MaxBreaks       \* bound: interrupts and kills of the run

\* A gate runner and its workers are in one session: ps shows both or neither.
ASSUME WorkerAssumption ==
    /\ Cells \in Nat \ {0}
    /\ Seen \subseteq {"exec", "gate", "vitest"}
    /\ "gate" \in Seen <=> "vitest" \in Seen
    /\ {MaxRows, MaxFaults, MaxBreaks} \subseteq Nat

VARIABLES
    task,           \* args.task
    cont,           \* cell -> its container
    inside,         \* cell -> the opencode processes in its container
    volumes,        \* the cells whose volume exists
    db,             \* cell -> the rows of the transcript in its volume
    out,            \* cell -> the rows of the transcript on the host
    net,            \* the bridge network exists
    host,           \* the host processes of this and of killed runs -> their parent
    pc,
    cell,           \* the cell the manifest has next
    raised,         \* an exception is on its way out
    report,         \* the reaper's verdict on the port
    faults, breaks,
    leaked,         \* history: cells whose teardown failed to remove something
    kept,           \* history: cells that run on the volume of an earlier attempt
    excused         \* history: cells whose transcript may be lost

docker == <<cont, inside, volumes, db, net, host>>
history == <<leaked, kept, excused>>
vars == <<task, docker, out, pc, cell, raised, report, faults, breaks, history>>

Cell == 1 .. Cells

\* A row is of the attempt that started the container, or of one before it.
Rows == {"own", "old"} \X (1 .. MaxRows)

Aged(rows) == {<<"old", r[2]>> : r \in rows}

Teardown == {"stop", "capture", "export", "remove", "volrm"}

Unexported == {"serve", "work", "stop", "capture", "export"}

Entry == {"probe", "stale", "network", "volume", "argv", "run"}

\* A call that fails uses up a fault.
Fail(call) ==
    /\ call \in Faulty /\ faults < MaxFaults
    /\ faults' = faults + 1

Works == faults' = faults

\* Processes are named by kind and number: the run, and process 1.
Own == <<"run", 0>>

Orphaned == <<"init", 1>>

\* The run's children on the host; what runs in a gate runner is its child.
Mine(kind) == {p \in DOMAIN host : p[1] = kind /\ host[p] = Own}

Without(ps) == [p \in (DOMAIN host) \ ps |-> host[p]]

\* A gate runner and its workers, by a number that is free.
Gate(n) == {<<"gate", n>>, <<"vitest", n>>}

FreeGate == CHOOSE n \in 0 .. MaxBreaks + MaxFaults : Gate(n) \cap DOMAIN host = {}

WithGate(n) ==
    [p \in (DOMAIN host) \cup Gate(n) |->
        IF p = <<"gate", n>> THEN Own ELSE IF p = <<"vitest", n>> THEN <<"gate", n>> ELSE host[p]]

\* The gate runner is in a session of its own, and is killed with its group.
GateTree == UNION {Gate(p[2]) : p \in Mine("gate")}

\* docker is none of the run's binaries, node is.
IsRunBinary(p) == p[1] \in {"gate", "vitest"}

Reap == INSTANCE Reaper WITH Init1 <- Orphaned, RunBinary <- IsRunBinary

Shown == {p \in DOMAIN host : p[1] \in Seen}

PortHolder == {c \in Cell : cont[c] = "running"}

\* docker rm -f; a docker exec into the container ends with it
Gone(cs) ==
    /\ cont' = [c \in Cell |-> IF c \in cs THEN "none" ELSE cont[c]]
    /\ inside' = [c \in Cell |-> IF c \in cs THEN {} ELSE inside[c]]
    /\ host' = Without({<<"exec", c>> : c \in cs})

Stays == UNCHANGED <<cont, inside, host>>

\* docker volume rm -f succeeds on a volume that is not there, fails on one in use.
VolumeGone(c) ==
    /\ cont[c] = "none"
    /\ volumes' = volumes \ {c}
    /\ db' = [db EXCEPT ![c] = {}]

VolumeStays(c) ==
    /\ \/ cont[c] # "none" /\ Works
       \/ Fail("volrm")
    /\ UNCHANGED <<volumes, db>>

Init ==
    /\ task \in Tasks
    /\ cont = [c \in Cell |-> "none"]
    /\ inside = [c \in Cell |-> {}]
    /\ volumes = {} /\ net = FALSE /\ host = <<>>
    /\ db = [c \in Cell |-> {}]
    /\ out = [c \in Cell |-> {}]
    /\ pc = "down" /\ cell = 1
    /\ raised = FALSE /\ report = "none"
    /\ faults = 0 /\ breaks = 0
    /\ leaked = {} /\ kept = {} /\ excused = {}

Goto(l) == pc' = l /\ UNCHANGED <<raised, cell>>

Raise(l) == pc' = l /\ raised' = TRUE /\ UNCHANGED cell

\* main: the run begins with the first cell that is not complete.
Launch ==
    /\ pc = "down"
    /\ pc' = IF cell > Cells THEN "group" ELSE "probe"
    /\ raised' = FALSE /\ report' = "none"
    /\ UNCHANGED <<task, docker, out, cell, faults, breaks, history>>

\* docker_available, worker_image_fingerprint
Preflight ==
    /\ pc = "probe"
    /\ \/ Works /\ Goto("stale")
       \/ Fail("docker") /\ Raise("group")
    /\ UNCHANGED <<task, docker, out, report, breaks, history>>

\* Faulty variant of StaleRemove: it only removes containers that stopped.
StaleRemoveStopped ==
    /\ pc = "stale"
    /\ \/ Works /\ (IF cont[cell] = "running" THEN Stays ELSE Gone({cell})) /\ Goto("network")
       \/ Fail("stale") /\ Stays /\ Raise("group")
    /\ UNCHANGED <<task, volumes, db, net, out, report, breaks, history>>

\* A container of the same name is left from an attempt that was killed.
StaleRemove ==
    /\ pc = "stale"
    /\ \/ Works /\ Gone({cell}) /\ Goto("network")
       \/ Fail("stale") /\ Stays /\ Raise("group")
    /\ UNCHANGED <<task, volumes, db, net, out, report, breaks, history>>

\* ensure_network
EnsureNetwork ==
    /\ pc = "network"
    /\ \/ Works /\ net' = TRUE /\ Goto("volume")
       \/ ~net /\ Fail("network") /\ UNCHANGED net /\ Raise("group")
    /\ UNCHANGED <<task, host, cont, inside, volumes, db, out, report, breaks, history>>

\* Faulty variant of EnsureVolume: a volume that is there is taken.
EnsureVolumeReused ==
    /\ pc = "volume"
    /\ volumes' = volumes \cup {cell} /\ Works /\ Goto("argv")
    /\ UNCHANGED <<task, host, cont, inside, db, net, out, report, breaks, history>>

\* _ensure_session_db_volume: remove, create, chown.  A failed removal goes
\* unnoticed, and creating a volume that exists succeeds and keeps what is in it.
EnsureVolume ==
    /\ pc = "volume"
    /\ \/ /\ cont[cell] = "none" /\ db' = [db EXCEPT ![cell] = {}]
          /\ kept' = kept \ {cell} /\ excused' = excused \ {cell}
          /\ \/ Works /\ volumes' = volumes \cup {cell} /\ Goto("argv")
             \/ Fail("chown") /\ volumes' = volumes \cup {cell} /\ Raise("group")
             \/ Fail("create") /\ volumes' = volumes \ {cell} /\ Raise("group")
       \/ /\ cell \in volumes /\ Fail("volrm") /\ UNCHANGED <<volumes, db, excused>>
          /\ kept' = kept \cup {cell}
          /\ Goto("argv")
    /\ UNCHANGED <<task, host, cont, inside, net, out, report, breaks, leaked>>

\* Faulty variant of BuildRunArgv: a cell that cannot be set up is passed over.
BuildRunArgvSkips ==
    /\ pc = "argv"
    /\ \/ Works /\ Goto("run")
       \/ /\ Fail("argv") /\ cell' = cell + 1
          /\ pc' = IF cell = Cells THEN "group" ELSE "probe"
          /\ UNCHANGED raised
    /\ UNCHANGED <<task, docker, out, report, breaks, history>>

\* _build_run_argv: a memory arm needs its token, its store and a readable config.
BuildRunArgv ==
    /\ pc = "argv"
    /\ \/ Works /\ Goto("run")
       \/ Fail("argv") /\ Raise("group")
    /\ UNCHANGED <<task, docker, out, report, breaks, history>>

\* docker run -d -p: a container that cannot have the port stays behind, created.
DockerRun ==
    /\ pc = "run"
    /\ \/ /\ PortHolder = {} /\ Works
          /\ cont' = [cont EXCEPT ![cell] = "running"]
          /\ db' = [db EXCEPT ![cell] = Aged(@)]
          /\ out' = [out EXCEPT ![cell] = Aged(@)]
          /\ Goto("serve")
       \/ /\ (PortHolder # {} /\ Works) \/ Fail("run")
          /\ cont' = [cont EXCEPT ![cell] = IF @ = "none" THEN "created" ELSE @]
          /\ UNCHANGED <<db, out>>
          /\ Raise("group")
    /\ UNCHANGED <<task, host, inside, volumes, net, report, breaks, history>>

\* start_serve; that nothing answers on the port is not an error.
StartServe ==
    /\ pc = "serve"
    /\ \/ Works /\ inside' = [inside EXCEPT ![cell] = {"serve"}] /\ Goto("work")
       \/ Fail("serve") /\ UNCHANGED inside /\ Raise("stop")
    /\ UNCHANGED <<task, host, cont, volumes, db, net, out, report, breaks, history>>

\* External: docker exec opencode run, and the transcript opencode keeps.
StartClient ==
    /\ pc = "work" /\ "client" \notin inside[cell] /\ GateTree = {}
    /\ inside' = [inside EXCEPT ![cell] = @ \cup {"client"}]
    /\ host' = [p \in (DOMAIN host) \cup {<<"exec", cell>>} |->
                  IF p = <<"exec", cell>> THEN Own ELSE host[p]]
    /\ UNCHANGED <<task, cont, volumes, db, net, out, pc, cell, raised,
                   report, faults, breaks, history>>

WriteRow(c) ==
    /\ inside[c] # {}
    /\ \E n \in 1 .. MaxRows :
          /\ <<"own", n>> \notin db[c]
          /\ db' = [db EXCEPT ![c] = @ \cup {<<"own", n>>}]
    /\ UNCHANGED <<task, host, cont, inside, volumes, net, out, pc, cell, raised,
                   report, faults, breaks, history>>

\* kill_worker_processes; its caller only logs a failure, and kills the docker exec.
KillWorkerProcesses ==
    /\ pc = "work" /\ "client" \in inside[cell]
    /\ \/ Works /\ inside' = [inside EXCEPT ![cell] = @ \cap {"serve"}]
       \/ Fail("kill") /\ UNCHANGED inside
    /\ host' = Without(Mine("exec"))
    /\ UNCHANGED <<task, cont, volumes, db, net, out, pc, cell, raised,
                   report, breaks, history>>

\* _run_gate_report, when no docker exec is up.
StartGate ==
    /\ pc = "work" /\ Mine("exec") = {} /\ GateTree = {}
    /\ host' = WithGate(FreeGate)
    /\ UNCHANGED <<task, cont, inside, volumes, db, net, out, pc, cell, raised,
                   report, faults, breaks, history>>

\* The gate runner ends, or the watchdog kills it with its group; or it dies of its own,
\* after which nobody looks for its workers.
EndGate ==
    /\ GateTree # {}
    /\ \/ Works /\ host' = Without(GateTree)
       \/ Fail("gate") /\ host' = Reap!KillTree(host, Mine("gate"))
    /\ UNCHANGED <<task, cont, inside, volumes, db, net, out, pc, cell, raised,
                   report, breaks, history>>

\* The body of the with statement is left; a client whose docker exec was killed after
\* its grace goes on in the container.
EndWork ==
    /\ pc = "work" /\ GateTree = {}
    /\ host' = Without(Mine("exec"))
    /\ \/ /\ inside' = [inside EXCEPT ![cell] = @ \ {"client"}] /\ Goto("stop")
          /\ UNCHANGED excused
       \/ /\ "client" \in inside[cell] /\ UNCHANGED inside /\ Goto("stop")
          /\ excused' = excused \cup {cell}
    /\ UNCHANGED <<task, cont, volumes, db, net, out, report, faults, breaks, leaked, kept>>

\* Faulty variant of StopServe: the serve is left to docker rm.
StopServeLater ==
    /\ pc = "stop" /\ Works /\ Goto("capture")
    /\ UNCHANGED <<task, docker, out, report, breaks, history>>

\* stop_serve never raises
StopServe ==
    /\ pc = "stop"
    /\ \/ Works /\ inside' = [inside EXCEPT ![cell] = @ \ {"serve"}] /\ UNCHANGED excused
       \/ Fail("stop") /\ UNCHANGED inside /\ excused' = excused \cup {cell}
    /\ Goto("capture")
    /\ UNCHANGED <<task, host, cont, volumes, db, net, out, report, breaks, leaked, kept>>

\* _capture_worker_logs_pre_teardown never raises; another copy of the data goes to the
\* logs, and while it is made the container is up.
CaptureLogs ==
    /\ pc = "capture" /\ Works /\ Goto("export")
    /\ UNCHANGED <<task, docker, out, report, breaks, history>>

\* _export_session_db_pre_teardown: the copy that the rest of the program reads.
Export ==
    /\ pc = "export"
    /\ \/ Works /\ out' = [out EXCEPT ![cell] = db[cell]] /\ UNCHANGED excused
       \/ Fail("export") /\ UNCHANGED out /\ excused' = excused \cup {cell}
    /\ Goto("remove")
    /\ UNCHANGED <<task, docker, report, breaks, leaked, kept>>

\* teardown, docker rm -f; a failure is only logged
Remove ==
    /\ pc = "remove"
    /\ \/ Works /\ Gone({cell}) /\ UNCHANGED leaked
       \/ Fail("rm") /\ Stays /\ leaked' = leaked \cup {cell}
    /\ Goto("volrm")
    /\ UNCHANGED <<task, volumes, db, net, out, report, breaks, kept, excused>>

\* _remove_session_db_volume, in the finally of teardown; then the exception goes on,
\* or the cell is checkpointed and the next one is up.
RemoveVolume ==
    /\ pc = "volrm"
    /\ \/ VolumeGone(cell) /\ Works /\ UNCHANGED leaked
       \/ VolumeStays(cell) /\ leaked' = leaked \cup {cell}
    /\ \/ /\ raised
          /\ Goto("group")
       \/ /\ ~raised
          /\ cell' = cell + 1
          /\ pc' = IF cell = Cells THEN "group" ELSE "probe"
          /\ UNCHANGED raised
    /\ UNCHANGED <<task, host, cont, inside, net, out, report, breaks, kept, excused>>

\* reap: each step is tried whatever came of the one before.  Under the control
\* server, and in a shell with job control, the run leads its process group.
KillProcessGroup ==
    /\ pc = "group"
    /\ \E leader \in BOOLEAN : host' = Reap!AfterGroupKill(host, Shown, leader)
    /\ Goto("orphans")
    /\ UNCHANGED <<task, cont, inside, volumes, db, net, out, report, faults, breaks, history>>

\* _reap_orphaned_children
ReapOrphanedChildren ==
    /\ pc = "orphans"
    /\ host' = Reap!AfterReap(host, Shown)
    /\ Goto("sweep")
    /\ UNCHANGED <<task, cont, inside, volumes, db, net, out, report, faults, breaks, history>>

\* The name filter of the sweep is wevibe-bench-cell-<task>, and a cell's container is
\* called wevibe-bench-cell-cumulative-<index>-...
Matches == task = "cumulative"

\* _remove_cell_containers
Sweep ==
    /\ pc = "sweep"
    /\ \/ Works /\ (IF Matches THEN Gone(Cell) ELSE Stays)
       \/ Fail("sweep") /\ Stays
    /\ Goto("ports")
    /\ UNCHANGED <<task, volumes, db, net, out, report, breaks, history>>

\* _port_clear, for a probe that gets through
PortClear == PortHolder = {}

\* The report is out, and the run over.
ReapOver == Goto(IF cell > Cells THEN "done" ELSE "down")

\* _assert_ports: a probe that still fails after its retries is an error.
AssertPorts ==
    /\ pc = "ports"
    /\ \/ Works /\ report' = IF PortClear THEN "clear" ELSE "occupied"
       \/ Fail("probe") /\ report' = "error"
    /\ ReapOver
    /\ UNCHANGED <<task, docker, out, breaks, history>>

\* An interrupt ends what teardown has left to do, except for the volume when
\* docker rm is under way; the gate runner is killed on the way out, a docker exec is not.
Interrupt ==
    /\ breaks < MaxBreaks /\ breaks' = breaks + 1
    /\ \/ pc \in Entry \cup (Teardown \ {"remove"}) /\ Raise("group")
       \/ pc \in {"serve", "work"} /\ Raise("stop")
       \/ pc = "remove" /\ Raise("volrm")
    /\ excused' = IF \/ pc \in {"stop", "capture", "export"}
                     \/ pc = "work" /\ "client" \in inside[cell]
                  THEN excused \cup {cell} ELSE excused
    /\ host' = Without(GateTree)
    /\ UNCHANGED <<task, cont, inside, volumes, db, net, out, report, faults, leaked, kept>>

\* The run is killed, or interrupted again in the reaper: nothing is torn down and
\* nothing is swept.
Crash ==
    /\ breaks < MaxBreaks /\ breaks' = breaks + 1
    /\ pc \notin {"down", "done"}
    /\ Goto("down")
    /\ excused' = IF pc \in Unexported THEN excused \cup {cell} ELSE excused
    /\ host' = [p \in DOMAIN host |-> IF host[p] = Own THEN Orphaned ELSE host[p]]
    /\ UNCHANGED <<task, cont, inside, volumes, db, net, out, report, faults, leaked, kept>>

Run ==
    \/ Launch \/ Preflight \/ StaleRemove \/ EnsureNetwork \/ EnsureVolume \/ BuildRunArgv
    \/ DockerRun \/ StartServe \/ EndWork \/ StopServe \/ CaptureLogs \/ Export \/ Remove
    \/ RemoveVolume \/ KillProcessGroup \/ ReapOrphanedChildren \/ Sweep \/ AssertPorts

Next ==
    \/ Run
    \/ StartClient \/ KillWorkerProcesses \/ StartGate \/ EndGate
    \/ \E c \in Cell : WriteRow(c)
    \/ Interrupt \/ Crash

\* A gate runner ends or is killed at its deadline, and a cell has a bounded number of
\* gates, so that its body is left in the end.
Spec == Init /\ [][Next]_vars /\ WF_vars(Run) /\ WF_vars(EndGate) /\ SF_vars(EndWork)

-----------------------------------------------------------------------------
(***************************************************************************)
(* Properties.                                                             *)
(***************************************************************************)
\* What runs in a container sees no row of another attempt, however the attempts
\* before it ended: only a stale volume that could not be removed is taken over
\* (_ensure_session_db_volume, docker_worker.py:509).
OwnTranscript ==
    \A c \in Cell : cont[c] = "running" /\ c \notin kept => \A r \in db[c] : r[1] = "own"

\* One container at a time has the port, and of a cell before the current one only what
\* its teardown failed to remove is left.
NothingLeftBehind ==
    /\ Cardinality(PortHolder) <= 1
    /\ \A c \in Cell : c < cell /\ c \notin leaked => cont[c] = "none" /\ c \notin volumes

\* Of what ps shows, a run that was reaped leaves on the host nothing it started itself,
\* and of killed runs no gate runner: at most its workers, which the kill of the runner
\* orphaned, or a docker exec, which is none of the binaries the reaper knows
\* (_reap_orphaned_children).
HostReaped ==
    report # "none" =>
        \A p \in DOMAIN host : p[1] \in Seen => p[1] # "gate" /\ host[p] = Orphaned

\* A volume is dropped only when all of its transcript is on the host, unless the copy
\* failed, was never reached, or something in the container went on writing
\* (teardown, docker_worker.py:583).
TranscriptKept ==
    [][\A c \in volumes : c \notin volumes' => db[c] \subseteq out[c] \/ c \in excused]_vars

\* However often it is interrupted or killed, a campaign that is launched again is
\* completed in the end, unless the container of a completed cell keeps the port and the
\* sweep does not match its name.
Completes ==
    <>(pc = "done" \/ (~Matches /\ \E c \in Cell : c < cell /\ cont[c] = "running"))

\* What process_reaper.py:5 says of the reaper: it "force-removes any leaked bench cell
\* containers".
SweptClean == pc = "ports" => \A c \in Cell : cont[c] = "none"
=============================================================================
