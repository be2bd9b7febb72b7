---------------------------- MODULE WorkerProofs ----------------------------
(***************************************************************************)
(* What the docker life of a campaign's cells guarantees for any number of *)
(* cells, of failing calls and of interrupts and kills, whatever ps shows. *)
(*                                                                         *)
(* The argument is in three parts that share only the types.  The          *)
(* containers: while a cell is set up nothing of an earlier attempt of it  *)
(* runs, so its volume is empty or known to be taken over.  The copies: a  *)
(* transcript is ahead of its copy only in the attempt that runs, before   *)
(* its export, or with an excuse.  The host: the table of processes is a   *)
(* forest of gate runners and docker execs under the run and process 1,    *)
(* and what Reaper does to such a table is known whatever is in it.        *)
(***************************************************************************)
EXTENDS WorkerCell, FiniteSetTheorems, TLAPS

-----------------------------------------------------------------------------
(***************************************************************************)
(* The inductive invariant.                                                *)
(***************************************************************************)
Reaping == {"group", "orphans", "sweep", "ports"}

\* Every variable has its type, and a cell is set up only while one is left.
WorkerTypes ==
    /\ cont \in [Cell -> {"none", "created", "running"}]
    /\ inside \in [Cell -> SUBSET {"serve", "client"}]
    /\ volumes \subseteq Cell /\ kept \subseteq Cell
    /\ excused \subseteq Cell /\ leaked \subseteq Cell
    /\ db \in [Cell -> SUBSET Rows] /\ out \in [Cell -> SUBSET Rows]
    /\ pc \in Entry \cup Unexported \cup Teardown \cup Reaping \cup {"down", "done"}
    /\ cell \in 1 .. Cells + 1
    /\ pc \in Entry \cup Unexported \cup Teardown => cell \in Cell
    /\ raised \in BOOLEAN

\* One container has the port, opencode runs in no other, and the cell in hand has its
\* container from docker run to docker rm and none while it is set up.
Containers ==
    /\ \A c, d \in Cell : cont[c] = "running" /\ cont[d] = "running" => c = d
    /\ \A c \in Cell : inside[c] # {} => cont[c] = "running"
    /\ pc \in {"network", "volume", "argv", "run"} => cont[cell] = "none"
    /\ pc \in Unexported \cup {"remove"} => cont[cell] = "running"

\* A volume that was not taken over is empty until its container runs.
FreshVolume ==
    pc \in {"argv", "run"} /\ cell \notin kept => db[cell] = {}

\* What the teardown of the cell in hand could not remove is known by the time the next
\* cell is up.
RemovedOrLeaked ==
    /\ pc = "volrm" /\ ~raised /\ cell \notin leaked => cont[cell] = "none"
    /\ \A c \in Cell : c < cell /\ c \notin leaked => cont[c] = "none" /\ c \notin volumes

\* Something in a container can write only in the body of its cell, the serve until it is
\* stopped, or with an excuse.
Quiet ==
    \A c \in Cell :
        inside[c] # {} =>
            \/ c \in excused
            \/ c = cell /\ (pc = "work" \/ (pc = "stop" /\ "client" \notin inside[c]))

Copied(c) == db[c] \subseteq out[c] \/ c \in excused

\* Only the attempt in hand has rows that were not copied, and only until its export.
CopiedOrInHand ==
    \A c \in Cell : Copied(c) \/ (c = cell /\ pc \in Unexported)

\* In a table of processes docker execs and gate runners are children of the run or
\* orphans, and workers are orphans or children of their gate runner, which is there.
Forest(table) ==
    \A p \in DOMAIN table :
        /\ p = <<p[1], p[2]>>
        /\ \/ p[1] \in {"exec", "gate"} /\ table[p] \in {Own, Orphaned}
           \/ /\ p[1] = "vitest"
              /\ \/ table[p] = Orphaned
                 \/ table[p] = <<"gate", p[2]>> /\ <<"gate", p[2]>> \in DOMAIN table

Reaped(table) ==
    \A p \in DOMAIN table : p[1] \in Seen => p[1] # "gate" /\ table[p] = Orphaned

\* From the reaping of orphans to the next launch the host is reaped.
ReapedSince ==
    /\ report # "none" => pc \in {"down", "done"}
    /\ (report # "none" \/ pc \in {"sweep", "ports"}) => Reaped(host)

WorkerInv ==
    /\ WorkerTypes /\ Containers /\ FreshVolume /\ OwnTranscript /\ RemovedOrLeaked
    /\ Quiet /\ CopiedOrInHand /\ Forest(host) /\ ReapedSince

-----------------------------------------------------------------------------
(***************************************************************************)
(* Types.                                                                  *)
(***************************************************************************)
LEMMA InitTypes == Init => WorkerTypes
<1> SUFFICES ASSUME Init PROVE WorkerTypes
  OBVIOUS
<1>1. cell \in 1 .. Cells + 1
  BY WorkerAssumption DEF Init
<1>2. /\ db \in [Cell -> SUBSET Rows] /\ out \in [Cell -> SUBSET Rows]
      /\ inside \in [Cell -> SUBSET {"serve", "client"}]
  BY DEF Init
<1>3. cont \in [Cell -> {"none", "created", "running"}]
  BY DEF Init
<1>4. QED
  BY <1>1, <1>2, <1>3 DEF Init, WorkerTypes, Entry, Unexported, Teardown

\* A cell that is set up is one of the campaign's, and so is the next one if there is one.
LEMMA CellStep ==
    ASSUME WorkerTypes
    PROVE  /\ cell \in Cell => cell + 1 \in 1 .. Cells + 1 /\ (cell # Cells => cell + 1 \in Cell)
           /\ cell <= Cells => cell \in Cell
           /\ ~(cell > Cells) => cell \in Cell
BY WorkerAssumption DEF WorkerTypes, Cell

LEMMA CellOrder ==
    ASSUME WorkerTypes
    PROVE  \A c \in Cell : (c < cell => c # cell) /\ (c < cell + 1 <=> c < cell \/ c = cell)
BY WorkerAssumption DEF WorkerTypes, Cell

LEMMA AgedRows == \A rows \in SUBSET Rows : Aged(rows) \in SUBSET Rows
BY DEF Aged, Rows

\* Rows that were aged are a copy if they were one.
LEMMA AgedCopy == \A r, s : r \subseteq s => Aged(r) \subseteq Aged(s)
BY DEF Aged

\* Every step keeps the types.
LEMMA TypesKept == WorkerTypes /\ [Next]_vars => WorkerTypes'
<1> SUFFICES ASSUME WorkerTypes, [Next]_vars PROVE WorkerTypes'
  OBVIOUS
<1> USE DEF WorkerTypes, Entry, Unexported, Teardown, Reaping, Goto, Raise, docker, history
<1>1. CASE Launch
  BY <1>1, CellStep DEF Launch
<1>2. CASE Preflight
  BY <1>2 DEF Preflight
<1>3. CASE StaleRemove
  BY <1>3 DEF StaleRemove, Gone, Stays
<1>4. CASE EnsureNetwork
  BY <1>4 DEF EnsureNetwork
<1>5. CASE EnsureVolume
  BY <1>5 DEF EnsureVolume
<1>6. CASE BuildRunArgv
  BY <1>6 DEF BuildRunArgv
<1>7. CASE DockerRun
  <2>1. Aged(db[cell]) \in SUBSET Rows /\ Aged(out[cell]) \in SUBSET Rows
    BY <1>7, AgedRows DEF DockerRun
  <2>2. /\ db' \in [Cell -> SUBSET Rows] /\ out' \in [Cell -> SUBSET Rows]
        /\ cont' \in [Cell -> {"none", "created", "running"}]
    BY <1>7, <2>1 DEF DockerRun
  <2>3. QED
    BY <1>7, <2>2 DEF DockerRun
<1>8. CASE StartServe
  BY <1>8 DEF StartServe
<1>9. CASE EndWork
  BY <1>9 DEF EndWork
<1>10. CASE StopServe
  BY <1>10 DEF StopServe
<1>11. CASE CaptureLogs
  BY <1>11 DEF CaptureLogs
<1>12. CASE Export
  BY <1>12 DEF Export
<1>13. CASE Remove
  BY <1>13 DEF Remove, Gone, Stays
<1>14. CASE RemoveVolume
  BY <1>14, CellStep DEF RemoveVolume, VolumeGone, VolumeStays
<1>15. CASE KillProcessGroup
  BY <1>15 DEF KillProcessGroup
<1>16. CASE ReapOrphanedChildren
  BY <1>16 DEF ReapOrphanedChildren
<1>17. CASE Sweep
  BY <1>17 DEF Sweep, Gone, Stays
<1>18. CASE AssertPorts
  BY <1>18 DEF AssertPorts, ReapOver
<1>19. CASE StartClient
  BY <1>19 DEF StartClient
<1>20. CASE KillWorkerProcesses
  BY <1>20 DEF KillWorkerProcesses
<1>21. CASE StartGate
  BY <1>21 DEF StartGate
<1>22. CASE EndGate
  BY <1>22 DEF EndGate
<1>23. ASSUME NEW c \in Cell, WriteRow(c) PROVE WorkerTypes'
  BY <1>23 DEF WriteRow, Rows
<1>24. CASE Interrupt
  BY <1>24 DEF Interrupt
<1>25. CASE Crash
  BY <1>25 DEF Crash
<1>26. CASE UNCHANGED vars
  BY <1>26 DEF vars
<1>27. QED
  BY <1>1, <1>2, <1>3, <1>4, <1>5, <1>6, <1>7, <1>8, <1>9, <1>10, <1>11, <1>12, <1>13,
     <1>14, <1>15, <1>16, <1>17, <1>18, <1>19, <1>20, <1>21, <1>22, <1>23, <1>24, <1>25,
     <1>26 DEF Next, Run

-----------------------------------------------------------------------------
(***************************************************************************)
(* Containers and volumes.                                                 *)
(***************************************************************************)
LEMMA InitContainers == Init => Containers /\ FreshVolume /\ OwnTranscript /\ RemovedOrLeaked
BY WorkerAssumption
   DEF Init, Containers, FreshVolume, OwnTranscript, RemovedOrLeaked, Unexported, Cell

\* The steps that start, stop or remove a container, or that move the run to a place where
\* there has to be one or none.
LEMMA ContainersKept == WorkerTypes /\ Containers /\ [Next]_vars => Containers'
<1> SUFFICES ASSUME WorkerTypes, Containers, [Next]_vars PROVE Containers'
  OBVIOUS
<1> USE DEF WorkerTypes, Containers, Entry, Unexported, Teardown, Reaping, Goto, Raise,
            docker, history
<1>1. CASE Launch
  BY <1>1 DEF Launch
<1>2. CASE Preflight
  BY <1>2 DEF Preflight
<1>3. CASE StaleRemove
  BY <1>3 DEF StaleRemove, Gone, Stays
<1>4. CASE EnsureNetwork
  BY <1>4 DEF EnsureNetwork
<1>5. CASE EnsureVolume
  BY <1>5 DEF EnsureVolume
<1>6. CASE BuildRunArgv
  BY <1>6 DEF BuildRunArgv
<1>7. CASE DockerRun
  BY <1>7 DEF DockerRun, PortHolder
<1>8. CASE StartServe
  BY <1>8 DEF StartServe
<1>9. CASE EndWork
  BY <1>9 DEF EndWork
<1>10. CASE StopServe
  BY <1>10 DEF StopServe
<1>11. CASE CaptureLogs
  BY <1>11 DEF CaptureLogs
<1>12. CASE Export
  BY <1>12 DEF Export
<1>13. CASE Remove
  BY <1>13 DEF Remove, Gone, Stays
<1>14. CASE RemoveVolume
  BY <1>14 DEF RemoveVolume
<1>15. CASE KillProcessGroup
  BY <1>15 DEF KillProcessGroup
<1>16. CASE ReapOrphanedChildren
  BY <1>16 DEF ReapOrphanedChildren
<1>17. CASE Sweep
  BY <1>17 DEF Sweep, Gone, Stays
<1>18. CASE AssertPorts
  BY <1>18 DEF AssertPorts, ReapOver
<1>19. CASE StartClient
  BY <1>19 DEF StartClient
<1>20. CASE KillWorkerProcesses
  BY <1>20 DEF KillWorkerProcesses
<1>21. CASE StartGate \/ EndGate
  BY <1>21 DEF StartGate, EndGate
<1>22. ASSUME NEW c \in Cell, WriteRow(c) PROVE Containers'
  BY <1>22 DEF WriteRow
<1>23. CASE Interrupt
  BY <1>23 DEF Interrupt
<1>24. CASE Crash
  BY <1>24 DEF Crash
<1>25. CASE UNCHANGED vars
  BY <1>25 DEF vars
<1>26. QED
  BY <1>1, <1>2, <1>3, <1>4, <1>5, <1>6, <1>7, <1>8, <1>9, <1>10, <1>11, <1>12, <1>13,
     <1>14, <1>15, <1>16, <1>17, <1>18, <1>19, <1>20, <1>21, <1>22, <1>23, <1>24, <1>25
     DEF Next, Run

\* A volume is filled by a container only, and handed to the container of a later attempt
\* emptied, or taken over and marked so.
LEMMA FreshKept == WorkerTypes /\ Containers /\ FreshVolume /\ [Next]_vars => FreshVolume'
<1> SUFFICES ASSUME WorkerTypes, Containers, FreshVolume, [Next]_vars PROVE FreshVolume'
  OBVIOUS
<1> USE DEF WorkerTypes, Entry, Unexported, Teardown, Reaping, Goto, Raise, docker, history,
            Containers, FreshVolume
<1>1. CASE EnsureVolume
  BY <1>1 DEF EnsureVolume
<1>2. CASE BuildRunArgv
  BY <1>2 DEF BuildRunArgv
<1>3. ASSUME NEW c \in Cell, WriteRow(c) PROVE FreshVolume'
  BY <1>3 DEF WriteRow
<1>4. CASE \/ Launch \/ Preflight \/ StaleRemove \/ EnsureNetwork \/ StartServe
          \/ StopServe \/ CaptureLogs \/ Export \/ Remove \/ EndWork
  BY <1>4 DEF Launch, Preflight, StaleRemove, EnsureNetwork, StartServe,
               StopServe, CaptureLogs, Export, Remove, EndWork
<1>5. CASE DockerRun \/ RemoveVolume
  BY <1>5 DEF DockerRun, RemoveVolume
<1>6. CASE \/ KillProcessGroup \/ ReapOrphanedChildren \/ Sweep \/ AssertPorts
          \/ StartClient \/ KillWorkerProcesses \/ StartGate
  BY <1>6 DEF KillProcessGroup, ReapOrphanedChildren, Sweep, AssertPorts, ReapOver,
               StartClient, KillWorkerProcesses, StartGate
<1>7. CASE EndGate \/ Interrupt \/ Crash
  BY <1>7 DEF EndGate, Interrupt, Crash
<1>8. CASE UNCHANGED vars
  BY <1>8 DEF vars
<1>9. QED
  BY <1>1, <1>2, <1>3, <1>4, <1>5, <1>6, <1>7, <1>8 DEF Next, Run

\* A container starts on a volume of its own and adds rows of its own.
LEMMA OwnTranscriptKept == WorkerTypes /\ Containers /\ FreshVolume /\ OwnTranscript /\ [Next]_vars => OwnTranscript'
<1> SUFFICES ASSUME WorkerTypes, Containers, FreshVolume, OwnTranscript, [Next]_vars PROVE OwnTranscript'
  OBVIOUS
<1> USE DEF WorkerTypes, Entry, Unexported, Teardown, Reaping, Goto, Raise, docker, history,
            Containers, FreshVolume, OwnTranscript
<1>1. CASE StaleRemove \/ Remove \/ Sweep
  BY <1>1 DEF StaleRemove, Remove, Sweep, Gone, Stays
<1>2. CASE EnsureVolume
  BY <1>2 DEF EnsureVolume
<1>3. CASE DockerRun
  BY <1>3 DEF DockerRun, Aged
<1>4. CASE RemoveVolume
  BY <1>4 DEF RemoveVolume, VolumeGone, VolumeStays
<1>5. ASSUME NEW c \in Cell, WriteRow(c) PROVE OwnTranscript'
  BY <1>5 DEF WriteRow
<1>6. CASE \/ Launch \/ Preflight \/ EnsureNetwork \/ BuildRunArgv \/ StartServe
          \/ EndWork \/ StopServe \/ CaptureLogs \/ Export
  BY <1>6 DEF Launch, Preflight, EnsureNetwork, BuildRunArgv, StartServe,
               EndWork, StopServe, CaptureLogs, Export
<1>7. CASE \/ KillProcessGroup \/ ReapOrphanedChildren \/ AssertPorts
          \/ StartClient \/ KillWorkerProcesses \/ StartGate
  BY <1>7 DEF KillProcessGroup, ReapOrphanedChildren, AssertPorts,
               StartClient, KillWorkerProcesses, StartGate
<1>8. CASE EndGate \/ Interrupt \/ Crash
  BY <1>8 DEF EndGate, Interrupt, Crash
<1>9. CASE UNCHANGED vars
  BY <1>9 DEF vars
<1>10. QED
  BY <1>1, <1>2, <1>3, <1>4, <1>5, <1>6, <1>7, <1>8, <1>9 DEF Next, Run

\* The next cell is up only when teardown has removed container and volume of this one, or
\* has noted that it could not.
LEMMA RemovedKept == WorkerTypes /\ Containers /\ RemovedOrLeaked /\ [Next]_vars => RemovedOrLeaked'
<1> SUFFICES ASSUME WorkerTypes, Containers, RemovedOrLeaked, [Next]_vars PROVE RemovedOrLeaked'
  OBVIOUS
<1> USE DEF WorkerTypes, Entry, Unexported, Teardown, Reaping, Goto, Raise, docker, history,
            Containers, RemovedOrLeaked
<1>1. CASE StaleRemove \/ Sweep
  BY <1>1 DEF StaleRemove, Sweep, Gone, Stays
<1>2. CASE Remove
  BY <1>2 DEF Remove, Gone, Stays
<1>3. CASE EnsureVolume
  BY <1>3, CellOrder DEF EnsureVolume
<1>4. CASE DockerRun
  BY <1>4, CellOrder DEF DockerRun
<1>5. CASE RemoveVolume
  BY <1>5, CellOrder DEF RemoveVolume, VolumeGone, VolumeStays
<1>6. CASE \/ Launch \/ Preflight \/ EnsureNetwork \/ BuildRunArgv \/ StartServe
          \/ EndWork \/ StopServe \/ CaptureLogs \/ Export
  BY <1>6 DEF Launch, Preflight, EnsureNetwork, BuildRunArgv, StartServe,
               EndWork, StopServe, CaptureLogs, Export
<1>7. CASE \/ KillProcessGroup \/ ReapOrphanedChildren \/ AssertPorts
          \/ StartClient \/ KillWorkerProcesses \/ StartGate
  BY <1>7 DEF KillProcessGroup, ReapOrphanedChildren, AssertPorts, ReapOver,
               StartClient, KillWorkerProcesses, StartGate
<1>8. ASSUME NEW c \in Cell, WriteRow(c) PROVE RemovedOrLeaked'
  BY <1>8 DEF WriteRow
<1>9. CASE EndGate \/ Interrupt \/ Crash
  BY <1>9 DEF EndGate, Interrupt, Crash
<1>10. CASE UNCHANGED vars
  BY <1>10 DEF vars
<1>11. QED
  BY <1>1, <1>2, <1>3, <1>4, <1>5, <1>6, <1>7, <1>8, <1>9, <1>10 DEF Next, Run

-----------------------------------------------------------------------------
(***************************************************************************)
(* Transcripts and their copies.                                           *)
(***************************************************************************)
LEMMA InitCopies == Init => Quiet /\ CopiedOrInHand
BY DEF Init, Quiet, CopiedOrInHand, Copied

\* What goes on in a container after its cell's body has an excuse.
LEMMA QuietKept == WorkerTypes /\ Containers /\ Quiet /\ [Next]_vars => Quiet'
<1> SUFFICES ASSUME WorkerTypes, Containers, Quiet, [Next]_vars PROVE Quiet'
  OBVIOUS
<1> USE DEF WorkerTypes, Entry, Unexported, Teardown, Reaping, Goto, Raise, docker, history,
            Containers, Quiet
<1>1. CASE StaleRemove \/ Remove \/ Sweep
  BY <1>1 DEF StaleRemove, Remove, Sweep, Gone, Stays
<1>2. CASE EnsureVolume
  BY <1>2 DEF EnsureVolume
<1>3. CASE DockerRun \/ StartServe
  BY <1>3 DEF DockerRun, StartServe
<1>4. CASE EndWork
  BY <1>4 DEF EndWork
<1>5. CASE StopServe
  BY <1>5 DEF StopServe
<1>6. CASE StartClient
  BY <1>6 DEF StartClient
<1>7. CASE KillWorkerProcesses
  BY <1>7 DEF KillWorkerProcesses
<1>8. CASE RemoveVolume
  BY <1>8 DEF RemoveVolume
<1>9. CASE \/ Launch \/ Preflight \/ EnsureNetwork \/ BuildRunArgv \/ CaptureLogs \/ Export
  BY <1>9 DEF Launch, Preflight, EnsureNetwork, BuildRunArgv, CaptureLogs, Export
<1>10. CASE \/ KillProcessGroup \/ ReapOrphanedChildren \/ AssertPorts \/ StartGate \/ EndGate
  BY <1>10 DEF KillProcessGroup, ReapOrphanedChildren, AssertPorts, ReapOver,
               StartGate, EndGate
<1>11. ASSUME NEW c \in Cell, WriteRow(c) PROVE Quiet'
  BY <1>11 DEF WriteRow
<1>12. CASE Interrupt
  BY <1>12 DEF Interrupt
<1>13. CASE Crash
  BY <1>13 DEF Crash
<1>14. CASE UNCHANGED vars
  BY <1>14 DEF vars
<1>15. QED
  BY <1>1, <1>2, <1>3, <1>4, <1>5, <1>6, <1>7, <1>8, <1>9, <1>10, <1>11, <1>12,
     <1>13, <1>14 DEF Next, Run

\* A row that is written is the attempt's in hand, or has an excuse; the export copies all.
LEMMA CopiesKept == WorkerTypes /\ Containers /\ Quiet /\ CopiedOrInHand /\ [Next]_vars => CopiedOrInHand'
<1> SUFFICES ASSUME WorkerTypes, Containers, Quiet, CopiedOrInHand, [Next]_vars PROVE CopiedOrInHand'
  OBVIOUS
<1> USE DEF WorkerTypes, Entry, Unexported, Teardown, Reaping, Goto, Raise, docker, history,
            Containers, Quiet, CopiedOrInHand, Copied
<1>1. CASE StaleRemove \/ Remove \/ Sweep
  BY <1>1 DEF StaleRemove, Remove, Sweep
<1>2. CASE EnsureVolume
  BY <1>2 DEF EnsureVolume
<1>3. CASE DockerRun
  BY <1>3, AgedCopy DEF DockerRun
<1>4. CASE StartServe \/ EndWork \/ StopServe \/ CaptureLogs
  BY <1>4 DEF StartServe, EndWork, StopServe, CaptureLogs
<1>5. CASE Export
  BY <1>5 DEF Export
<1>6. CASE RemoveVolume
  BY <1>6 DEF RemoveVolume, VolumeGone, VolumeStays
<1>7. ASSUME NEW c \in Cell, WriteRow(c) PROVE CopiedOrInHand'
  BY <1>7 DEF WriteRow
<1>8. CASE \/ Launch \/ Preflight \/ EnsureNetwork \/ BuildRunArgv
  BY <1>8 DEF Launch, Preflight, EnsureNetwork, BuildRunArgv
<1>9. CASE \/ KillProcessGroup \/ ReapOrphanedChildren \/ AssertPorts
          \/ StartClient \/ KillWorkerProcesses \/ StartGate \/ EndGate
  BY <1>9 DEF KillProcessGroup, ReapOrphanedChildren, AssertPorts, ReapOver,
               StartClient, KillWorkerProcesses, StartGate, EndGate
<1>10. CASE Interrupt
  BY <1>10 DEF Interrupt
<1>11. CASE Crash
  BY <1>11 DEF Crash
<1>12. CASE UNCHANGED vars
  BY <1>12 DEF vars
<1>13. QED
  BY <1>1, <1>2, <1>3, <1>4, <1>5, <1>6, <1>7, <1>8, <1>9, <1>10, <1>11, <1>12 DEF
     Next, Run

-----------------------------------------------------------------------------
(***************************************************************************)
(* The host.  First what is done to a table of processes, whatever is in   *)
(* it: what a kill orphans, and what a reaping leaves.                     *)
(***************************************************************************)
LEMMA InitHost == Init => Forest(host) /\ ReapedSince
BY DEF Init, Forest, ReapedSince, Reaped

\* A kill of processes orphans what they started.
LEMMA KillTreeForest ==
    ASSUME NEW table, NEW ps, Forest(table)
    PROVE  Forest(Reap!KillTree(table, ps))
<1> DEFINE dead == Reap!Signalled(table, ps)
           after == Reap!KillTree(table, ps)
<1> SUFFICES Forest(after)
  OBVIOUS
<1>1. /\ DOMAIN after = (DOMAIN table) \ dead
      /\ \A p \in DOMAIN after : after[p] = IF table[p] \in dead THEN Orphaned ELSE table[p]
  BY DEF Reap!KillTree
<1>2. ASSUME NEW p \in DOMAIN after, p[1] \in {"exec", "gate"}
      PROVE  after[p] \in {Own, Orphaned}
  BY <1>1, <1>2 DEF Forest
<1>3. ASSUME NEW p \in DOMAIN after, p[1] = "vitest"
      PROVE  \/ after[p] = Orphaned
             \/ after[p] = <<"gate", p[2]>> /\ <<"gate", p[2]>> \in DOMAIN after
  BY <1>1, <1>3, Zenon DEF Forest
<1> HIDE DEF after
<1>4. QED
  BY <1>1, <1>2, <1>3, Zenon DEF Forest

LEMMA KillTreeReaped == \A table, ps : Reaped(table) => Reaped(Reap!KillTree(table, ps))
BY DEF Reaped, Reap!KillTree, Reap!Signalled

\* What ps shows is killed if it is a child of the run or an orphan of its binaries: of
\* what it shows orphaned docker execs are left, and workers the killing orphaned.
LEMMA AfterReapReaped ==
    ASSUME Forest(host)
    PROVE  Reaped(Reap!AfterReap(host, Shown))
<1> DEFINE dead == Reap!Signalled(host, Reap!Candidates(host, Shown))
           table == Reap!AfterReap(host, Shown)
<1> SUFFICES ASSUME NEW p \in DOMAIN table, p[1] \in Seen
             PROVE  p[1] # "gate" /\ table[p] = Orphaned
  BY DEF Reaped
<1>1. /\ p \in DOMAIN host /\ p \notin dead /\ p \in Shown
      /\ table[p] = IF host[p] \in dead THEN Orphaned ELSE host[p]
  BY DEF Reap!AfterReap, Reap!KillTree, Shown
<1>2. \A q \in Shown : q # Own /\ (host[q] = Own \/ (IsRunBinary(q) /\ host[q] = Orphaned)) => q \in dead
  BY DEF Reap!Signalled, Reap!Candidates, Reap!Children, Reap!Rows, Shown
<1>3. \A q \in DOMAIN host : q # Own
  BY DEF Forest, Own
<1>4. CASE p[1] \in {"exec", "gate"}
  BY <1>1, <1>2, <1>3, <1>4 DEF Forest, IsRunBinary, Own, Orphaned
<1>5. CASE p[1] = "vitest"
  <2>1. host[p] = <<"gate", p[2]>> /\ <<"gate", p[2]>> \in DOMAIN host
    BY <1>1, <1>2, <1>3, <1>5 DEF Forest, IsRunBinary
  <2>2. <<"gate", p[2]>> \in Shown
    BY <1>5, <2>1, WorkerAssumption DEF Shown
  <2>3. <<"gate", p[2]>> \in dead
    BY <1>2, <1>3, <2>1, <2>2 DEF Forest, IsRunBinary
  <2>4. QED
    BY <1>1, <1>5, <2>1, <2>3
<1>6. QED
  BY <1>1, <1>4, <1>5 DEF Forest

\* Processes that end, workers with their gate runner, leave a forest.
LEMMA WithoutForest ==
    ASSUME Forest(host), NEW ps, \A n : <<"gate", n>> \in ps => <<"vitest", n>> \in ps
    PROVE  Forest(Without(ps))
<1> DEFINE after == Without(ps)
<1> SUFFICES Forest(after)
  OBVIOUS
<1>1. DOMAIN after = (DOMAIN host) \ ps /\ \A p \in DOMAIN after : after[p] = host[p]
  BY DEF Without
<1>2. ASSUME NEW p \in DOMAIN after, p[1] = "vitest", after[p] # Orphaned
      PROVE  after[p] = <<"gate", p[2]>> /\ <<"gate", p[2]>> \in DOMAIN after
  <2>1. p = <<"vitest", p[2]>> /\ after[p] = <<"gate", p[2]>> /\ <<"gate", p[2]>> \in DOMAIN host
    BY <1>1, <1>2, Zenon DEF Forest
  <2>2. QED
    BY <1>1, <2>1
<1> HIDE DEF after
<1>3. QED
  BY <1>1, <1>2, Zenon DEF Forest

LEMMA WithoutReaped == \A ps : Reaped(host) => Reaped(Without(ps))
BY DEF Reaped, Without

LEMMA NoGates ==
    /\ \A cs, n : <<"gate", n>> \notin {<<"exec", c>> : c \in cs}
    /\ \A n : <<"gate", n>> \notin Mine("exec")
    /\ \A n : <<"gate", n>> \in GateTree => <<"vitest", n>> \in GateTree
BY DEF Mine, GateTree, Gate

\* Every step leaves a forest.
LEMMA ForestKept == Forest(host) /\ [Next]_vars => Forest(host)'
<1> SUFFICES ASSUME Forest(host), [Next]_vars PROVE Forest(host)'
  OBVIOUS
<1> USE DEF Goto, Raise, docker, history
<1>1. CASE StaleRemove \/ Remove \/ Sweep
  BY <1>1, WithoutForest, NoGates DEF StaleRemove, Remove, Sweep, Gone, Stays
<1>2. CASE StartClient
  <2> DEFINE client == <<"exec", cell>>
  <2>1. /\ DOMAIN host' = (DOMAIN host) \cup {client}
        /\ \A p \in DOMAIN host' : host'[p] = IF p = client THEN Own ELSE host[p]
    BY <1>2 DEF StartClient
  <2>2. client = <<client[1], client[2]>> /\ client[1] = "exec"
    OBVIOUS
  <2> HIDE DEF client
  <2>3. QED
    BY <2>1, <2>2, Zenon DEF Forest
<1>3. CASE StartGate
  <2> DEFINE gate == <<"gate", FreeGate>>
             vitest == <<"vitest", FreeGate>>
  <2>1. /\ DOMAIN host' = (DOMAIN host) \cup {gate, vitest}
        /\ \A p \in DOMAIN host' :
              host'[p] = IF p = gate THEN Own ELSE IF p = vitest THEN gate ELSE host[p]
    BY <1>3 DEF StartGate, WithGate, Gate
  <2>2. /\ gate = <<gate[1], gate[2]>> /\ gate[1] = "gate"
        /\ vitest = <<vitest[1], vitest[2]>> /\ vitest[1] = "vitest"
        /\ gate = <<"gate", vitest[2]>> /\ vitest # gate
    OBVIOUS
  <2> HIDE DEF gate, vitest
  <2>3. QED
    BY <2>1, <2>2, Zenon DEF Forest
<1>4. CASE KillWorkerProcesses \/ EndWork
  BY <1>4, WithoutForest, NoGates DEF KillWorkerProcesses, EndWork
<1>5. CASE EndGate
  BY <1>5, WithoutForest, NoGates, KillTreeForest DEF EndGate
<1>6. CASE KillProcessGroup \/ ReapOrphanedChildren
  BY <1>6, KillTreeForest
     DEF KillProcessGroup, ReapOrphanedChildren, Reap!AfterGroupKill, Reap!AfterReap
<1>7. CASE Interrupt
  BY <1>7, WithoutForest, NoGates DEF Interrupt
<1>8. CASE Crash
  BY <1>8 DEF Crash, Forest, Own, Orphaned
<1>9. CASE \/ Launch \/ Preflight \/ EnsureNetwork \/ EnsureVolume \/ BuildRunArgv
          \/ DockerRun \/ StartServe \/ StopServe \/ CaptureLogs \/ Export
          \/ RemoveVolume \/ AssertPorts
  BY <1>9 DEF Launch, Preflight, EnsureNetwork, EnsureVolume, BuildRunArgv, DockerRun,
               StartServe, StopServe, CaptureLogs, Export, RemoveVolume, AssertPorts
<1>10. ASSUME NEW c \in Cell, WriteRow(c) PROVE Forest(host)'
  BY <1>10 DEF WriteRow
<1>11. CASE UNCHANGED vars
  BY <1>11 DEF vars
<1>12. QED
  BY <1>1, <1>2, <1>3, <1>4, <1>5, <1>6, <1>7, <1>8, <1>9, <1>10, <1>11 DEF Next,
     Run

\* What was reaped stays reaped until the run is launched again.
LEMMA ReapedKept == WorkerTypes /\ Forest(host) /\ ReapedSince /\ [Next]_vars => ReapedSince'
<1> SUFFICES ASSUME WorkerTypes, Forest(host), ReapedSince, [Next]_vars PROVE ReapedSince'
  OBVIOUS
<1> USE DEF WorkerTypes, Entry, Unexported, Teardown, Reaping, Goto, Raise, docker, history,
            ReapedSince
<1>1. CASE ReapOrphanedChildren
  BY <1>1, AfterReapReaped DEF ReapOrphanedChildren
<1>2. CASE StaleRemove \/ Remove \/ Sweep
  BY <1>2, WithoutReaped DEF StaleRemove, Remove, Sweep, Gone, Stays
<1>3. CASE EndGate
  BY <1>3, WithoutReaped, KillTreeReaped DEF EndGate
<1>4. CASE AssertPorts
  BY <1>4 DEF AssertPorts, ReapOver
<1>5. CASE \/ StartClient \/ StartGate \/ KillWorkerProcesses \/ EndWork
          \/ KillProcessGroup
  BY <1>5 DEF StartClient, StartGate, KillWorkerProcesses, EndWork, KillProcessGroup
<1>6. CASE Interrupt \/ Crash
  BY <1>6 DEF Interrupt, Crash
<1>7. CASE \/ Launch \/ Preflight \/ EnsureNetwork \/ EnsureVolume \/ BuildRunArgv
          \/ DockerRun \/ StartServe \/ StopServe \/ CaptureLogs \/ Export
          \/ RemoveVolume
  BY <1>7 DEF Launch, Preflight, EnsureNetwork, EnsureVolume, BuildRunArgv, DockerRun,
               StartServe, StopServe, CaptureLogs, Export, RemoveVolume
<1>8. ASSUME NEW c \in Cell, WriteRow(c) PROVE ReapedSince'
  BY <1>8 DEF WriteRow
<1>9. CASE UNCHANGED vars
  BY <1>9 DEF vars
<1>10. QED
  BY <1>1, <1>2, <1>3, <1>4, <1>5, <1>6, <1>7, <1>8, <1>9 DEF Next, Run

-----------------------------------------------------------------------------
(***************************************************************************)
(* The theorems.                                                           *)
(***************************************************************************)
LEMMA WorkerInvariant == Spec => []WorkerInv
<1>1. Init => WorkerInv
  BY InitTypes, InitContainers, InitCopies, InitHost DEF WorkerInv
<1>2. WorkerInv /\ [Next]_vars => WorkerInv'
  BY TypesKept, ContainersKept, FreshKept, OwnTranscriptKept, RemovedKept, QuietKept,
     CopiesKept, ForestKept, ReapedKept DEF WorkerInv
<1>3. QED
  BY <1>1, <1>2, PTL DEF Spec

\* The bookkeeping of DockerCell and of the reaper stays well typed, and a cell is set up
\* only while the manifest has one left, however the run is interrupted and launched again.
THEOREM WorkerTypeCorrect == Spec => []WorkerTypes
BY WorkerInvariant, PTL DEF WorkerInv

\* No cell reads the transcript of another attempt, for any number of cells, failing calls
\* and kills: _ensure_session_db_volume leaves an empty volume or one that is known to be
\* taken over.
THEOREM TranscriptsAreOwn == Spec => []OwnTranscript
BY WorkerInvariant, PTL DEF WorkerInv

\* The port has one holder, and teardown leaves of a finished cell what it could not
\* remove and nothing else.
THEOREM FinishedCellsAreGone == Spec => []NothingLeftBehind
<1>1. WorkerInv => NothingLeftBehind
  <2> SUFFICES ASSUME WorkerInv PROVE NothingLeftBehind
    OBVIOUS
  <2>1. PortHolder = {} \/ \E c : PortHolder = {c}
    BY DEF WorkerInv, Containers, PortHolder
  <2>2. Cardinality(PortHolder) \in {0, 1}
    BY <2>1, FS_EmptySet, FS_Singleton
  <2>3. QED
    BY <2>2 DEF NothingLeftBehind, WorkerInv, RemovedOrLeaked
<1>2. QED
  BY <1>1, WorkerInvariant, PTL

\* What ps shows of a reaped run's processes are orphans, and no gate runner is among them,
\* whichever kinds ps shows and however many killed runs left theirs behind.
THEOREM HostIsReaped == Spec => []HostReaped
<1>1. WorkerInv => HostReaped
  BY DEF WorkerInv, ReapedSince, Reaped, HostReaped
<1>2. QED
  BY <1>1, WorkerInvariant, PTL

\* A volume is removed only after its transcript was copied, or with an excuse: what runs
\* on in a container after its cell's body is the only thing that gets ahead of the copy.
THEOREM TranscriptsAreKept == Spec => TranscriptKept
<1>1. WorkerInv /\ [Next]_vars =>
          \A c \in volumes : c \notin volumes' => db[c] \subseteq out[c] \/ c \in excused
  <2> SUFFICES ASSUME WorkerInv, [Next]_vars, NEW c \in volumes, c \notin volumes'
               PROVE  Copied(c)
    BY DEF Copied
  <2>1. c \in Cell
    BY DEF WorkerInv, WorkerTypes
  <2>2. pc = "volume" \/ pc = "volrm"
    BY DEF Next, Run, Launch, Preflight, StaleRemove, EnsureNetwork, EnsureVolume,
           BuildRunArgv, DockerRun, StartServe, EndWork, StopServe, CaptureLogs, Export,
           Remove, RemoveVolume, KillProcessGroup, ReapOrphanedChildren, Sweep, AssertPorts,
           StartClient, KillWorkerProcesses, StartGate, EndGate, WriteRow, Interrupt, Crash,
           vars, docker
  <2>3. QED
    BY <2>1, <2>2 DEF WorkerInv, CopiedOrInHand, Unexported
<1>2. QED
  BY <1>1, WorkerInvariant, PTL DEF Spec, TranscriptKept

-----------------------------------------------------------------------------
(***************************************************************************)
(* What sets a campaign back.                                              *)
(***************************************************************************)
\* A launch that does not get to the end was set back by a call that failed, by an
\* interrupt or a kill, or by the container of an earlier cell, left by a teardown that
\* failed, that still has the port; and no step goes back to an earlier cell.
SetbacksHaveCause ==
    /\ raised' /\ ~raised =>
         \/ faults' > faults \/ breaks' > breaks
         \/ \E c \in leaked : c < cell /\ cont[c] = "running"
    /\ pc' = "down" /\ pc # "down" => raised \/ breaks' > breaks
    /\ cell' >= cell

\* No cell has a container before its turn, and a run that is reaped early has raised.
InTurn ==
    /\ faults \in Nat /\ breaks \in Nat
    /\ \A c \in Cell : c > cell => cont[c] = "none"
    /\ pc \in Reaping /\ cell <= Cells => raised

\* Every call that fails uses up a fault, every interrupt a break.
LEMMA CountsKept ==
    ASSUME faults \in Nat, breaks \in Nat, Next
    PROVE  faults' \in Nat /\ breaks' \in Nat
<1> USE DEF Works, Fail, history
<1>1. CASE Launch \/ Preflight \/ StaleRemove \/ EnsureNetwork
  BY <1>1 DEF Launch, Preflight, StaleRemove, EnsureNetwork
<1>2. CASE EnsureVolume \/ BuildRunArgv \/ DockerRun \/ StartServe
  BY <1>2 DEF EnsureVolume, BuildRunArgv, DockerRun, StartServe
<1>3. CASE EndWork \/ StopServe \/ CaptureLogs \/ Export
  BY <1>3 DEF EndWork, StopServe, CaptureLogs, Export
<1>4. CASE Remove \/ RemoveVolume \/ KillProcessGroup \/ ReapOrphanedChildren
  BY <1>4 DEF Remove, RemoveVolume, VolumeGone, VolumeStays, KillProcessGroup, ReapOrphanedChildren
<1>5. CASE Sweep \/ AssertPorts \/ StartClient \/ KillWorkerProcesses
  BY <1>5 DEF Sweep, AssertPorts, StartClient, KillWorkerProcesses
<1>6. CASE StartGate \/ EndGate \/ \E c \in Cell : WriteRow(c)
  BY <1>6 DEF StartGate, EndGate, WriteRow
<1>7. CASE Interrupt \/ Crash
  BY <1>7 DEF Interrupt, Crash
<1>8. QED
  BY <1>1, <1>2, <1>3, <1>4, <1>5, <1>6, <1>7 DEF Next, Run

\* The steps that start a container, go on to a cell, or reach the reaper.
LEMMA InTurnKept == WorkerTypes /\ InTurn /\ [Next]_vars => InTurn'
<1> SUFFICES ASSUME WorkerTypes, InTurn, [Next]_vars PROVE InTurn'
  OBVIOUS
<1>0. faults' \in Nat /\ breaks' \in Nat
  BY CountsKept DEF InTurn, vars
<1> DEFINE Turn == /\ \A c \in Cell : c > cell => cont[c] = "none"
                   /\ pc \in Reaping /\ cell <= Cells => raised
<1>a. Turn /\ cell \in 1 .. Cells + 1 /\ Cells \in Nat
  BY WorkerAssumption DEF InTurn, WorkerTypes
<1> SUFFICES Turn'
  BY <1>0 DEF InTurn
<1> USE <1>a DEF WorkerTypes, Entry, Unexported, Teardown, Reaping, Goto, Raise, docker, history, Cell
<1>1. CASE Launch
  BY <1>1 DEF Launch
<1>2. CASE Preflight
  BY <1>2 DEF Preflight
<1>3. CASE StaleRemove
  BY <1>3 DEF StaleRemove, Gone, Stays
<1>4. CASE EnsureNetwork
  BY <1>4 DEF EnsureNetwork
<1>5. CASE EnsureVolume
  BY <1>5 DEF EnsureVolume
<1>6. CASE BuildRunArgv
  BY <1>6 DEF BuildRunArgv
<1>7. CASE DockerRun
  BY <1>7 DEF DockerRun
<1>8. CASE StartServe
  BY <1>8 DEF StartServe
<1>9. CASE EndWork
  BY <1>9 DEF EndWork
<1>10. CASE StopServe
  BY <1>10 DEF StopServe
<1>11. CASE CaptureLogs
  BY <1>11 DEF CaptureLogs
<1>12. CASE Export
  BY <1>12 DEF Export
<1>13. CASE Remove
  BY <1>13 DEF Remove, Gone, Stays
<1>14. CASE RemoveVolume
  BY <1>14 DEF RemoveVolume
<1>15. CASE KillProcessGroup
  BY <1>15 DEF KillProcessGroup
<1>16. CASE ReapOrphanedChildren
  BY <1>16 DEF ReapOrphanedChildren
<1>17. CASE Sweep
  BY <1>17 DEF Sweep, Gone, Stays
<1>18. CASE AssertPorts
  BY <1>18 DEF AssertPorts, ReapOver
<1>19. CASE StartClient
  BY <1>19 DEF StartClient
<1>20. CASE KillWorkerProcesses
  BY <1>20 DEF KillWorkerProcesses
<1>21. CASE StartGate \/ EndGate
  BY <1>21 DEF StartGate, EndGate
<1>22. ASSUME NEW c \in Cell, WriteRow(c) PROVE Turn'
  BY <1>22 DEF WriteRow
<1>23. CASE Interrupt
  BY <1>23 DEF Interrupt
<1>24. CASE Crash
  BY <1>24 DEF Crash
<1>25. CASE UNCHANGED vars
  BY <1>25 DEF vars
<1>26. QED
  BY <1>1, <1>2, <1>3, <1>4, <1>5, <1>6, <1>7, <1>8, <1>9, <1>10, <1>11, <1>12, <1>13,
     <1>14, <1>15, <1>16, <1>17, <1>18, <1>19, <1>20, <1>21, <1>22, <1>23, <1>24, <1>25
     DEF Next, Run

\* The port is held by nobody, or by a container that an earlier teardown left.
LEMMA HolderIsLeaked ==
    ASSUME WorkerInv, InTurn, pc = "run", PortHolder # {}
    PROVE  \E c \in leaked : c < cell /\ cont[c] = "running"
<1>1. PICK c \in Cell : cont[c] = "running"
  BY DEF PortHolder
<1>2. c # cell /\ ~(c > cell)
  BY <1>1 DEF WorkerInv, Containers, InTurn
<1>3. c < cell
  BY <1>2, WorkerAssumption DEF WorkerInv, WorkerTypes, Cell
<1>4. c \in leaked
  BY <1>1, <1>3 DEF WorkerInv, RemovedOrLeaked
<1>5. QED
  BY <1>1, <1>3, <1>4

\* Each step that raises, gives up a launch or goes on to another cell.
LEMMA SetbackStep == WorkerInv /\ InTurn /\ [Next]_vars => [SetbacksHaveCause]_vars
<1> SUFFICES ASSUME WorkerInv, InTurn, Next PROVE SetbacksHaveCause
  OBVIOUS
<1>0. faults \in Nat /\ breaks \in Nat /\ cell \in 1 .. Cells + 1 /\ Cells \in Nat
  BY WorkerAssumption DEF WorkerInv, WorkerTypes, InTurn
<1> USE <1>0 DEF SetbacksHaveCause, Goto, Raise, Works, Fail, history
<1>1. CASE Launch \/ Preflight \/ StaleRemove \/ EnsureNetwork \/ EnsureVolume \/ BuildRunArgv
  BY <1>1 DEF Launch, Preflight, StaleRemove, EnsureNetwork, EnsureVolume, BuildRunArgv
<1>2. CASE DockerRun
  BY <1>2, HolderIsLeaked DEF DockerRun
<1>3. CASE StartServe \/ EndWork \/ StopServe \/ CaptureLogs \/ Export \/ Remove
  BY <1>3 DEF StartServe, EndWork, StopServe, CaptureLogs, Export, Remove
<1>4. CASE RemoveVolume
  BY <1>4 DEF RemoveVolume
<1>5. CASE KillProcessGroup \/ ReapOrphanedChildren \/ Sweep
  BY <1>5 DEF KillProcessGroup, ReapOrphanedChildren, Sweep
<1>6. CASE AssertPorts
  <2>1. cell' = cell /\ raised' = raised /\ pc = "ports" /\ (pc' = "down" => cell <= Cells)
    BY <1>6 DEF AssertPorts, ReapOver
  <2>2. QED
    BY <2>1 DEF InTurn, Reaping
<1>7. CASE StartClient \/ KillWorkerProcesses \/ StartGate \/ EndGate \/ \E c \in Cell : WriteRow(c)
  BY <1>7 DEF StartClient, KillWorkerProcesses, StartGate, EndGate, WriteRow
<1>8. CASE Interrupt \/ Crash
  BY <1>8 DEF Interrupt, Crash
<1>9. QED
  BY <1>1, <1>2, <1>3, <1>4, <1>5, <1>6, <1>7, <1>8 DEF Next, Run

\* A campaign never goes back to an earlier cell, and a launch stops short of the end only
\* for a cause: a failed call, an interrupt, a kill, or a container of an earlier cell that
\* could not be removed and holds the port.  Everything else it does takes it on, which is
\* Completes short of its fairness.
THEOREM NothingElseSetsBack == Spec => [][SetbacksHaveCause]_vars
<1>1. Init => InTurn
  BY DEF Init, InTurn, Reaping
<1>2. WorkerInv /\ InTurn /\ [Next]_vars => InTurn'
  BY InTurnKept DEF WorkerInv
<1>3. QED
  BY <1>1, <1>2, SetbackStep, WorkerInvariant, PTL DEF Spec

=============================================================================
