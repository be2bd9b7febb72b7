--------------------------- MODULE CampaignProofs ---------------------------
(***************************************************************************)
(* The walk and the records of a campaign, for every schedule length,      *)
(* number of attempts and number of crashes.                               *)
(*                                                                         *)
(* ScheduleOrder is about the manifest on disk; it is inductive together   *)
(* with the same statement about the manifest in memory, which is what the *)
(* next checkpoint writes.  That a completed session is not run again      *)
(* needs more: the memory of a running `run' is what is on disk, which a   *)
(* `state' process can spoil.  No checkpoint of `run' itself takes the     *)
(* campaign back, spoiled or not: it writes one step past what it has in   *)
(* memory, and a `state' can only have put the disk behind that.           *)
(*                                                                         *)
(* The status stream is a sequence that only grows, and what it says of a  *)
(* session does not depend on what other sessions append; so the argument  *)
(* never goes by induction over it.  The invariant follows the records of  *)
(* the cell in hand from the queue to the stream (Held, Queued, Whole) and *)
(* counts what torn appends have cost so far (Debt).                       *)
(***************************************************************************)
EXTENDS Campaign, FiniteSetTheorems, TLAPS

(***************************************************************************)
(* What the operations on a manifest preserve.                             *)
(***************************************************************************)
\* The part of a manifest's type the walk depends on, and the walk.
WellWalked(m) == m \in Manifests /\ Walk(m)

\* A new manifest is a walk that has not begun.
LEMMA UnstartedWalks ==
    ASSUME NEW made \in {"absent", "bare", "primed"}
    PROVE  WellWalked(Unstarted(made))
BY ScheduleAssumption DEF WellWalked, Manifests, Unstarted, Walk, Phases, Sessions

\* Preparing the fixture of the current session keeps the walk.
LEMMA PreparedWalks ==
    ASSUME NEW m, WellWalked(m), m.current_index < S
    PROVE  WellWalked(SetPhase(m, m.current_index, "RUN_SESSION"))
<1> DEFINE s == m.current_index
           n == SetPhase(m, s, "RUN_SESSION")
<1>1. m \in Manifests /\ Walk(m) /\ s \in Sessions
  BY ScheduleAssumption DEF WellWalked, Manifests, Sessions
<1>2. n.phase = [m.phase EXCEPT ![s] = "RUN_SESSION"]
      /\ n.current_index = s /\ n.progress = m.progress /\ n \in Manifests
  BY <1>1 DEF SetPhase, Manifests, Phases
<1> HIDE DEF n
<1>3. Walk(n)
  BY <1>1, <1>2 DEF Walk, Manifests, Sessions
<1>4. QED
  BY <1>2, <1>3 DEF WellWalked, n

\* Finishing the current session keeps the walk.
LEMMA FinishedWalks ==
    ASSUME NEW m, WellWalked(m), m.current_index < S, NEW r \in Results,
           NEW halt \in BOOLEAN
    PROVE  WellWalked(Finished(m, m.current_index, r, halt))
<1> DEFINE s == m.current_index
           p == IF halt THEN "HALTED_ON_GATE" ELSE "DONE"
           n == Finished(m, s, r, halt)
<1>1. m \in Manifests /\ Walk(m) /\ s \in Sessions /\ p \in Phases
  BY ScheduleAssumption DEF WellWalked, Manifests, Sessions, Phases
<1>2. n.phase = [m.phase EXCEPT ![s] = p] /\ n.progress = [m.progress EXCEPT ![s] = {r}]
      /\ n.current_index = s /\ n \in Manifests
  BY <1>1 DEF Finished, Manifests
<1> HIDE DEF n, p
<1>3. Walk(n)
  BY <1>1, <1>2 DEF Walk, Manifests, Sessions
<1>4. QED
  BY <1>2, <1>3 DEF WellWalked, n

\* Advancing past a completed session keeps the walk.
LEMMA AdvancedWalks ==
    ASSUME NEW m, WellWalked(m), m.current_index < S, m.phase[m.current_index] = "DONE"
    PROVE  WellWalked(Advanced(m))
<1> DEFINE i == m.current_index + 1
           n == Advanced(m)
<1>1. m \in Manifests /\ Walk(m) /\ m.current_index \in Sessions /\ i \in 0 .. S
  BY ScheduleAssumption DEF WellWalked, Manifests, Sessions
<1>2. n.current_index = i /\ n.progress = m.progress
      /\ n.phase = [s \in Sessions |-> IF s = i THEN "PREPARE_FIXTURE" ELSE m.phase[s]]
      /\ n \in Manifests
  BY <1>1 DEF Advanced, Manifests, Phases
<1> HIDE DEF n
<1>3. Walk(n)
  <2> SUFFICES ASSUME NEW s \in Sessions
               PROVE  /\ s < i => n.phase[s] = "DONE" /\ n.progress[s] # {}
                      /\ s > i => n.phase[s] = "PREPARE_FIXTURE" /\ n.progress[s] = {}
                      /\ n.phase[s] = "DONE" => n.progress[s] # {}
    BY <1>2 DEF Walk
  <2>1. CASE s < m.current_index
    BY <1>1, <1>2, <2>1 DEF Walk, Sessions, Manifests
  <2>2. CASE s = m.current_index
    BY <1>1, <1>2, <2>2 DEF Walk, Sessions, Manifests
  <2>3. CASE s = i
    BY <1>1, <1>2, <2>3 DEF Walk, Sessions, Manifests
  <2>4. CASE s > i
    BY <1>1, <1>2, <2>4 DEF Walk, Sessions, Manifests
  <2>5. QED
    BY <1>1, <2>1, <2>2, <2>3, <2>4 DEF Sessions, Manifests
<1>4. QED
  BY <1>2, <1>3 DEF WellWalked, n

(***************************************************************************)
(* The manifest on disk is a walk in schedule order.                       *)
(***************************************************************************)
\* While a cell is in hand, it is the current session's, in phase RUN_SESSION.
InCell == {"cell", "ran", "appending"}

CellPlace ==
    pc \in InCell => mem.current_index < S /\ mem.phase[mem.current_index] = "RUN_SESSION"

WalkInv == WellWalked(disk) /\ WellWalked(mem) /\ result \in Results /\ CellPlace

\* The result of a cell in hand is a result.
LEMMA ResultStep ==
    ASSUME result \in Results, Next
    PROVE  result' \in Results
<1>1. NoResult \in Results
  BY DEF NoResult, Results
<1>2. CASE CellEnds
  BY <1>2, CampaignAssumption DEF CellEnds
<1>3. CASE Boot \/ Finish \/ ReportHalt \/ AppendFails \/ Killed \/ SessionDone
  BY <1>1, <1>3 DEF Boot, Finish, ReportHalt, AppendFails, Killed, SessionDone, Exit
<1>4. CASE resume_or_create \/ Prime \/ _advance_to_next_session \/ prepare_fixture
  BY <1>4 DEF resume_or_create, Prime, _advance_to_next_session, prepare_fixture, cell
<1>5. CASE run_cell \/ _write_run_manifest_once \/ _append_status_records
  BY <1>5 DEF run_cell, _write_run_manifest_once, _append_status_records, cell
<1>6. CASE StateLoads \/ StateWrites
  BY <1>6 DEF StateLoads, StateWrites, cell
<1>7. QED
  BY <1>2, <1>3, <1>4, <1>5, <1>6 DEF Next, RunStep

\* The cell in hand stays the current session's.
LEMMA CellPlaceStep ==
    ASSUME WellWalked(disk), CellPlace, Next
    PROVE  CellPlace'
<1> USE DEF CellPlace, InCell
<1>0. CASE Boot
  BY <1>0 DEF Boot, Exit, WellWalked, Manifests
<1>1. CASE Finish \/ ReportHalt \/ AppendFails \/ Killed \/ SessionDone
  BY <1>1 DEF Finish, ReportHalt, AppendFails, Killed, SessionDone, Exit
<1>2. CASE resume_or_create \/ Prime \/ _advance_to_next_session \/ prepare_fixture
  BY <1>2 DEF resume_or_create, Prime, _advance_to_next_session, prepare_fixture, At
<1>3. CASE run_cell \/ CellEnds \/ _write_run_manifest_once \/ _append_status_records
  BY <1>3 DEF run_cell, CellEnds, _write_run_manifest_once, _append_status_records, At
<1>4. CASE StateLoads \/ StateWrites
  BY <1>4 DEF StateLoads, StateWrites
<1>5. QED
  BY <1>0, <1>1, <1>2, <1>3, <1>4 DEF Next, RunStep

\* Every step keeps both manifests walks.
LEMMA WalkStep == WalkInv /\ [Next]_vars => WalkInv'
<1> SUFFICES ASSUME WalkInv, [Next]_vars PROVE WalkInv'
  OBVIOUS
<1>1. CASE UNCHANGED vars
  BY <1>1 DEF WalkInv, vars, WellWalked, Walk, CellPlace
<1>2. CASE Next
  <2>1. result' \in Results /\ CellPlace'
    BY <1>2, ResultStep, CellPlaceStep DEF WalkInv
  <2>2. SUFFICES WellWalked(disk)' /\ WellWalked(mem)'
    BY <2>1 DEF WalkInv
  <2> USE DEF WalkInv
  <2>3. CASE Boot
    BY <2>3, UnstartedWalks DEF Boot, Exit
  <2>4. CASE resume_or_create \/ Prime
    BY <2>4, UnstartedWalks DEF resume_or_create, Prime, Checkpoint
  <2>5. CASE Finish \/ ReportHalt
    BY <2>5, UnstartedWalks DEF Finish, ReportHalt, Exit
  <2>6. CASE _advance_to_next_session
    BY <2>6, AdvancedWalks DEF _advance_to_next_session, At, Checkpoint
  <2>7. CASE prepare_fixture
    BY <2>7, PreparedWalks DEF prepare_fixture, At, Checkpoint
  <2>8. CASE run_cell \/ CellEnds \/ _write_run_manifest_once \/ _append_status_records
    BY <2>8 DEF run_cell, CellEnds, _write_run_manifest_once, _append_status_records
  <2>9. CASE AppendFails \/ Killed
    BY <2>9, UnstartedWalks DEF AppendFails, Killed, Exit
  <2>10. CASE SessionDone
    BY <2>10, FinishedWalks, UnstartedWalks DEF SessionDone, Checkpoint, Exit, CellPlace, InCell
  <2>11. CASE StateLoads \/ StateWrites
    BY <2>11, UnstartedWalks DEF StateLoads, StateWrites
  <2>12. QED
    BY <1>2, <2>3, <2>4, <2>5, <2>6, <2>7, <2>8, <2>9, <2>10, <2>11 DEF Next, RunStep
<1>3. QED
  BY <1>1, <1>2

\* A campaign starts with no manifest.
LEMMA WalkInit == Init => WalkInv
BY UnstartedWalks DEF Init, WalkInv, CellPlace, InCell, NoResult, Results

\* Whatever writes it and however often `run` is killed, the manifest on disk is
\* a walk in schedule order: no session is skipped, none is begun early.
THEOREM WalksInOrder == Spec => []ScheduleOrder
<1>1. WalkInv => ScheduleOrder
  BY DEF WalkInv, WellWalked, ScheduleOrder
<1>2. QED
  BY <1>1, WalkInit, WalkStep, PTL DEF Spec

(***************************************************************************)
(* Without a `state` process, memory and disk stay in step.                *)
(***************************************************************************)
\* The memory of a running `run` is what is on disk, and a manifest without its
\* session records has not begun.
Synced ==
    /\ reader = "idle"
    /\ pc \notin Exits => mem = disk
    /\ disk.made # "primed" => disk = Unstarted(disk.made)
    /\ pc \in {"creating", "created"} => disk.made # "primed"
    /\ pc \in {"loop"} \cup InCell => disk.made = "primed"

\* Every step keeps memory and disk in step.
LEMMA SyncedStep ==
    ASSUME MaxReads = 0, reads \in Nat, WalkInv, Synced, Next
    PROVE  Synced' /\ reads' \in Nat
<1> USE DEF Synced, Exits, InCell
<1>a. disk \in Manifests /\ mem \in Manifests
  BY DEF WalkInv, WellWalked
<1>b. \A x \in {"bare", "primed"} : Unstarted(x).made = x
  BY DEF Unstarted
<1>c. /\ Advanced(mem).made = mem.made
        /\ SetPhase(mem, mem.current_index, "RUN_SESSION").made = mem.made
        /\ \A halt \in BOOLEAN : Finished(mem, mem.current_index, result, halt).made = mem.made
  BY <1>a DEF Advanced, SetPhase, Finished, Manifests
<1>1. CASE Boot
  BY <1>a, <1>1 DEF Boot, Exit, others, Manifests
<1>2. CASE resume_or_create \/ Prime
  BY <1>b, <1>2 DEF resume_or_create, Prime, Checkpoint, others
<1>3. CASE _advance_to_next_session
  BY <1>c, <1>3 DEF _advance_to_next_session, At, Checkpoint, others
<1>4. CASE prepare_fixture
  BY <1>c, <1>4 DEF prepare_fixture, At, Checkpoint, others
<1>5. CASE run_cell \/ CellEnds \/ _write_run_manifest_once \/ _append_status_records
  BY <1>5 DEF run_cell, CellEnds, _write_run_manifest_once, _append_status_records, At, others
<1>6. CASE SessionDone
  BY <1>c, <1>6 DEF SessionDone, Checkpoint, Exit, others
<1>7. CASE Finish \/ ReportHalt \/ AppendFails \/ Killed
  BY <1>7 DEF Finish, ReportHalt, AppendFails, Killed, Exit, others
<1>8. CASE StateLoads \/ StateWrites
  BY <1>8 DEF StateLoads, StateWrites
<1>9. QED
  BY <1>1, <1>2, <1>3, <1>4, <1>5, <1>6, <1>7, <1>8 DEF Next, RunStep

\* What makes memory and disk stay in step, as one invariant.
SyncedInv == WalkInv /\ Synced /\ reads \in Nat

\* A campaign starts in step.
LEMMA SyncedInit == Init => SyncedInv
BY WalkInit DEF Init, SyncedInv, Synced, Exits, InCell, Unstarted

\* SyncedInv is inductive as long as nobody calls `state`.
LEMMA SyncedInvStep ==
    ASSUME MaxReads = 0
    PROVE  SyncedInv /\ [Next]_vars => SyncedInv'
<1> SUFFICES ASSUME SyncedInv, [Next]_vars PROVE SyncedInv'
  OBVIOUS
<1>1. WalkInv'
  BY WalkStep DEF SyncedInv
<1>2. CASE Next
  BY <1>1, <1>2, SyncedStep DEF SyncedInv
<1>3. CASE UNCHANGED vars
  BY <1>1, <1>3 DEF SyncedInv, Synced, vars
<1>4. QED
  BY <1>2, <1>3

\* The rank of a manifest, from its index and the phase of its current session.
LEMMA RankOf ==
    ASSUME NEW m \in Manifests
    PROVE  /\ m.current_index = S => Rank(m) = 3 * m.current_index
           /\ m.current_index < S /\ m.phase[m.current_index] = "PREPARE_FIXTURE"
                => Rank(m) = 3 * m.current_index
           /\ m.current_index < S /\ m.phase[m.current_index] = "RUN_SESSION"
                => Rank(m) = 3 * m.current_index + 1
           /\ m.current_index < S /\ m.phase[m.current_index] \in {"DONE", "HALTED_ON_GATE"}
                => Rank(m) = 3 * m.current_index + 2
           /\ Rank(m) >= 3 * m.current_index
BY ScheduleAssumption DEF Rank, Manifests, Phases

\* A step starts at most the current session's cell, and only in RUN_SESSION.
LEMMA StartStep ==
    ASSUME Next
    PROVE  started' = started \/ (run_cell /\ started' = [started EXCEPT ![mem.current_index] = @ + 1])
<1>1. CASE run_cell
  BY <1>1 DEF run_cell
<1>2. CASE Boot \/ Finish \/ ReportHalt \/ AppendFails \/ Killed \/ SessionDone
  BY <1>2 DEF Boot, Finish, ReportHalt, AppendFails, Killed, SessionDone
<1>3. CASE resume_or_create \/ Prime \/ _advance_to_next_session \/ prepare_fixture
  BY <1>3 DEF resume_or_create, Prime, _advance_to_next_session, prepare_fixture, cell
<1>4. CASE CellEnds \/ _write_run_manifest_once \/ _append_status_records
  BY <1>4 DEF CellEnds, _write_run_manifest_once, _append_status_records, cell
<1>5. CASE StateLoads \/ StateWrites
  BY <1>5 DEF StateLoads, StateWrites, cell
<1>6. QED
  BY <1>1, <1>2, <1>3, <1>4, <1>5 DEF Next, RunStep

\* The count of cell starts is a count.
StartedType == started \in [Sessions -> Nat]

\* As long as no `state` process shares the manifest, a session whose DONE
\* checkpoint was written is not paid for again.
THEOREM CompletedStaysCompleted ==
    ASSUME MaxReads = 0
    PROVE  Spec => NoRerun
<1>1. StartedType /\ [Next]_vars => StartedType'
  BY StartStep DEF StartedType, vars
<1>2. StartedType /\ SyncedInv /\ [Next]_vars
        => [\A s \in Sessions : disk.phase[s] = "DONE" => started'[s] = started[s]]_vars
  BY StartStep DEF StartedType, run_cell, At, SyncedInv, Synced, Exits
<1>3. Init => StartedType
  BY DEF Init, StartedType
<1>4. QED
  BY <1>1, <1>2, <1>3, SyncedInit, SyncedInvStep, PTL DEF Spec, NoRerun

(***************************************************************************)
(* A cell is started a second time only because `run` was killed.          *)
(***************************************************************************)
\* The start of a session's cell that no kill accounts for: its result is on
\* disk, or the cell is in hand.
Covered(s) ==
    \/ disk.phase[s] \in {"DONE", "HALTED_ON_GATE"}
    \/ pc \in InCell /\ s = mem.current_index

Paid ==
    /\ StartedType /\ kills \in Nat /\ tears \in Nat
    /\ \A s \in Sessions : started[s] <= kills + (IF Covered(s) THEN 1 ELSE 0)

\* A covered session stays covered unless `run` is killed.
LEMMA CoveredStep ==
    ASSUME MaxReads = 0, MaxTears = 0, tears \in Nat, SyncedInv, Next, ~Killed,
           NEW s \in Sessions, Covered(s)
    PROVE  Covered(s)'
<1> USE DEF Covered, InCell, Exits
<1>1. disk \in Manifests /\ mem \in Manifests /\ Walk(mem) /\ CellPlace /\ Synced
  BY DEF SyncedInv, WalkInv, WellWalked
<1>2. CASE Boot \/ Finish \/ ReportHalt
  BY <1>2 DEF Boot, Finish, ReportHalt, Exit, At
<1>3. CASE run_cell \/ CellEnds \/ _write_run_manifest_once \/ _append_status_records
  BY <1>3 DEF run_cell, CellEnds, _write_run_manifest_once, _append_status_records, At
<1>4. CASE resume_or_create \/ Prime
  <2>1. disk = Unstarted(disk.made) /\ pc \notin InCell
    BY <1>1, <1>4 DEF Synced, resume_or_create, Prime
  <2>2. disk.phase[s] = "PREPARE_FIXTURE"
    BY <2>1 DEF Unstarted
  <2>3. QED
    BY <2>1, <2>2
<1>5. CASE _advance_to_next_session
  <2>1. mem = disk /\ mem.current_index < S /\ disk' = Advanced(mem) /\ pc \notin InCell
    BY <1>1, <1>5 DEF _advance_to_next_session, At, Checkpoint, Synced
  <2>2. Advanced(mem).phase[s] = IF s = mem.current_index + 1 THEN "PREPARE_FIXTURE" ELSE mem.phase[s]
    BY <1>1 DEF Advanced, Manifests
  <2>3. s = mem.current_index + 1 => mem.phase[s] = "PREPARE_FIXTURE"
    BY <1>1 DEF Walk, Manifests, Sessions
  <2>4. QED
    BY <2>1, <2>2, <2>3
<1>6. CASE prepare_fixture
  <2>1. mem = disk /\ mem.current_index < S /\ mem.phase[mem.current_index] = "PREPARE_FIXTURE"
        /\ disk' = SetPhase(mem, mem.current_index, "RUN_SESSION") /\ pc \notin InCell
    BY <1>1, <1>6 DEF prepare_fixture, At, Checkpoint, Synced
  <2>2. s # mem.current_index
        => SetPhase(mem, mem.current_index, "RUN_SESSION").phase[s] = mem.phase[s]
    BY <1>1 DEF SetPhase, Manifests
  <2>3. QED
    BY <2>1, <2>2
<1>7. CASE SessionDone
  <2>0. PICK halt \in BOOLEAN : disk' = Finished(mem, mem.current_index, result, halt)
    BY <1>7 DEF SessionDone, Checkpoint
  <2>1. mem = disk /\ disk' = Finished(mem, mem.current_index, result, halt)
    BY <1>1, <1>7, <2>0 DEF SessionDone, Synced
  <2>2. Finished(mem, mem.current_index, result, halt).phase[s] =
          IF s = mem.current_index
          THEN IF halt THEN "HALTED_ON_GATE" ELSE "DONE"
          ELSE mem.phase[s]
    BY <1>1 DEF Finished, Manifests
  <2>3. QED
    BY <2>1, <2>2
<1>8. CASE AppendFails
  BY <1>8 DEF AppendFails
<1>9. CASE StateLoads \/ StateWrites
  BY <1>1, <1>9 DEF StateLoads, StateWrites, Synced
<1>10. QED
  BY <1>2, <1>3, <1>4, <1>5, <1>6, <1>7, <1>8, <1>9 DEF Next, RunStep

\* How the two histories move: a kill is counted, a start is of a session that
\* nothing covered yet.
LEMMA PaidStep ==
    ASSUME MaxReads = 0, MaxTears = 0, SyncedInv, Paid, Next
    PROVE  Paid'
<1>1. StartedType' /\ tears' \in Nat /\ kills' \in Nat
  <2>1. StartedType'
    BY StartStep DEF Paid, StartedType
  <2>2. CASE Boot \/ RunStep
    BY <2>1, <2>2 DEF Paid, Boot, RunStep, resume_or_create, Prime, Finish, ReportHalt,
       _advance_to_next_session, prepare_fixture, run_cell, CellEnds,
       _write_run_manifest_once, _append_status_records, SessionDone, others
  <2>3. CASE AppendFails \/ Killed \/ StateLoads \/ StateWrites
    BY <2>1, <2>3 DEF Paid, AppendFails, Killed, StateLoads, StateWrites
  <2>4. QED
    BY <2>2, <2>3 DEF Next
<1>2. ASSUME NEW s \in Sessions
      PROVE  started'[s] <= kills' + (IF Covered(s)' THEN 1 ELSE 0)
  <2>1. started[s] <= kills + (IF Covered(s) THEN 1 ELSE 0) /\ started[s] \in Nat /\ kills \in Nat
    BY DEF Paid, StartedType
  <2>2. CASE Killed
    BY <2>1, <2>2 DEF Killed
  <2>3. CASE run_cell
    <3>1. mem = disk /\ mem.phase[mem.current_index] = "RUN_SESSION" /\ pc = "loop"
          /\ pc' = "cell" /\ mem' = mem /\ kills' = kills
          /\ started' = [started EXCEPT ![mem.current_index] = @ + 1]
      BY <2>3 DEF run_cell, At, SyncedInv, Synced, Exits, others
    <3>2. CASE s = mem.current_index
      <4>1. ~Covered(s) /\ Covered(s)'
        BY <3>1, <3>2 DEF Covered, InCell
      <4>2. started'[s] = started[s] + 1
        BY <3>1, <3>2 DEF Paid, StartedType
      <4>3. QED
        BY <2>1, <3>1, <4>1, <4>2
    <3>3. CASE s # mem.current_index
      <4>1. started'[s] = started[s]
        BY <3>1, <3>3 DEF Paid, StartedType
      <4>2. Covered(s) => Covered(s)'
        BY <3>1, <3>3, <2>3 DEF Covered, run_cell, InCell
      <4>3. QED
        BY <2>1, <3>1, <4>1, <4>2
    <3>4. QED
      BY <3>2, <3>3
  <2>4. CASE ~Killed /\ ~run_cell
    <3>1. started' = started
      BY <2>4, StartStep
    <3>2. kills' = kills
      <4>1. CASE Boot \/ RunStep
        BY <4>1 DEF Boot, RunStep, resume_or_create, Prime, Finish, ReportHalt,
           _advance_to_next_session, prepare_fixture, run_cell, CellEnds,
           _write_run_manifest_once, _append_status_records, SessionDone, others
      <4>2. CASE AppendFails \/ StateLoads \/ StateWrites
        BY <4>2 DEF AppendFails, StateLoads, StateWrites
      <4>3. QED
        BY <2>4, <4>1, <4>2 DEF Next
    <3>3. Covered(s) => Covered(s)'
      BY <2>4, CoveredStep DEF Paid
    <3>4. QED
      BY <2>1, <3>1, <3>2, <3>3
  <2>5. QED
    BY <2>2, <2>3, <2>4
<1>3. QED
  BY <1>1, <1>2 DEF Paid

\* As long as no append fails and no `state` process shares the manifest, every
\* start of a cell beyond its first is the price of a kill.
THEOREM RerunsAreKills ==
    ASSUME MaxReads = 0, MaxTears = 0
    PROVE  Spec => []RerunOnlyAfterKill
<1>1. Init => Paid
  BY DEF Init, Paid, StartedType
<1>2. SyncedInv /\ Paid /\ [Next]_vars => Paid'
  <2>1. SyncedInv /\ Paid /\ Next => Paid'
    BY PaidStep
  <2>2. Paid /\ UNCHANGED vars => Paid'
    BY DEF Paid, StartedType, Covered, vars
  <2>3. QED
    BY <2>1, <2>2
<1>3. Paid => RerunOnlyAfterKill
  BY DEF Paid, RerunOnlyAfterKill, StartedType
<1>4. QED
  BY <1>1, <1>2, <1>3, SyncedInit, SyncedInvStep, PTL DEF Spec

(***************************************************************************)
(* The status stream.                                                      *)
(***************************************************************************)
LineType == Records \cup {Garbage}

\* What a session's result is read from: its attempt records.
LEMMA LineKinds ==
    /\ Garbage \notin Records
    /\ \A l \in Records : /\ l.type \in {"attempt", "turn"}
                          /\ l.session \in Sessions /\ l.result \in Results
    /\ \A l \in LineType : l # Garbage <=> l \in Records
<1>1. Garbage.type = "garbage"
  BY DEF Garbage
<1>2. \A l \in Records : /\ l.type \in {"attempt", "turn"}
                         /\ l.session \in Sessions /\ l.result \in Results
  BY DEF Records
<1>3. QED
  BY <1>1, <1>2 DEF LineType

\* A line appended to closed lines is read as what it is.
LEMMA BestAppended ==
    ASSUME NEW st, st.lines \in Seq(LineType), NEW l \in LineType,
           NEW t, t.lines = Append(st.lines, l), NEW s
    PROVE  best_by_cell(t, s) =
             IF l # Garbage /\ l.type = "attempt" /\ l.session = s
             THEN {l.result} ELSE best_by_cell(st, s)
<1> DEFINE n == Len(st.lines)
           A == attempts_of(st, s)
           B == attempts_of(t, s)
           counts == l # Garbage /\ l.type = "attempt" /\ l.session = s
<1>1. /\ n \in Nat /\ Len(t.lines) = n + 1 /\ t.lines[n + 1] = l
      /\ \A i \in 1 .. n : t.lines[i] = st.lines[i]
  OBVIOUS
<1>2. A \subseteq 1 .. n /\ B = A \cup {i \in {n + 1} : counts}
  BY <1>1 DEF attempts_of, records
<1>3. /\ best_by_cell(st, s) = {st.lines[i].result : i \in {j \in A : \A k \in A : k <= j}}
      /\ best_by_cell(t, s) = {t.lines[i].result : i \in {j \in B : \A k \in B : k <= j}}
  BY DEF best_by_cell
<1> HIDE DEF A, B, counts, n
<1>4. CASE counts
  <2>1. B = A \cup {n + 1}
    BY <1>2, <1>4
  <2>2. {j \in B : \A k \in B : k <= j} = {n + 1}
    <3>1. \A k \in B : k <= n + 1
      BY <1>1, <1>2, <2>1
    <3>2. \A j \in A : ~(n + 1 <= j)
      BY <1>1, <1>2
    <3>3. n + 1 \in B
      BY <2>1
    <3>4. QED
      BY <2>1, <3>1, <3>2, <3>3
  <2>3. QED
    BY <1>1, <1>3, <1>4, <2>2 DEF counts
<1>5. CASE ~counts
  <2>1. B = A /\ \A i \in A : t.lines[i] = st.lines[i]
    BY <1>1, <1>2, <1>5
  <2>2. QED
    BY <1>3, <1>5, <2>1 DEF counts
<1>6. QED
  BY <1>4, <1>5

\* A last line that is spoiled changes the result of its own session alone.
LEMMA BestSpoiled ==
    ASSUME NEW st, st.lines \in Seq(LineType), Len(st.lines) > 0,
           NEW t, t.lines = [st.lines EXCEPT ![Len(st.lines)] = Garbage], NEW s,
           LET l == st.lines[Len(st.lines)] IN l = Garbage \/ l.session # s
    PROVE  best_by_cell(t, s) = best_by_cell(st, s)
<1> DEFINE n == Len(st.lines)
           A == attempts_of(st, s)
<1>1. /\ n \in Nat /\ n > 0 /\ Len(t.lines) = n /\ t.lines[n] = Garbage
      /\ \A i \in 1 .. n : i # n => t.lines[i] = st.lines[i]
  OBVIOUS
<1>2. n \notin A
  BY DEF attempts_of, records
<1>3. attempts_of(t, s) = A
  BY <1>1, <1>2 DEF attempts_of, records
<1>4. \A i \in A : t.lines[i] = st.lines[i]
  BY <1>1, <1>2 DEF attempts_of, records
<1> HIDE DEF A
<1>5. /\ best_by_cell(st, s) = {st.lines[i].result : i \in {j \in A : \A k \in A : k <= j}}
      /\ best_by_cell(t, s) = {t.lines[i].result : i \in {j \in A : \A k \in A : k <= j}}
  BY <1>3 DEF best_by_cell, A
<1>6. QED
  BY <1>4, <1>5

\* The records of a cell: its first is that of an attempt.
LEMMA RecordsOfCell ==
    ASSUME NEW s \in Sessions, NEW r \in Results,
           NEW attempts \in 1 .. MaxAttempts, NEW turns \in 0 .. MaxTurns
    PROVE  LET q == StatusRecords(s, r, attempts, turns)
           IN  /\ q \in Seq(Records) /\ Len(q) \in Nat /\ 1 <= Len(q) /\ q[1].type = "attempt"
               /\ \A i \in 1 .. Len(q) : q[i].session = s /\ q[i].result = r
<1> DEFINE q == StatusRecords(s, r, attempts, turns)
           n == attempts + turns
<1>1. n \in Nat /\ 1 <= n /\ 1 <= attempts /\ attempts \in Nat
  BY CampaignAssumption
<1>2. \A i \in 1 .. n :
        [type |-> IF i <= attempts THEN "attempt" ELSE "turn", session |-> s, result |-> r]
          \in Records
  BY DEF Records
<1>3. q = [i \in 1 .. n |->
            [type |-> IF i <= attempts THEN "attempt" ELSE "turn", session |-> s, result |-> r]]
  BY DEF StatusRecords
<1> HIDE DEF q, n
<1>4. q \in [1 .. n -> Records]
  BY <1>2, <1>3
<1>5. q \in Seq(Records) /\ Len(q) = n
  BY <1>1, <1>4
<1>6. q[1].type = "attempt" /\ \A i \in 1 .. n : q[i].session = s /\ q[i].result = r
  BY <1>1, <1>3
<1>7. QED
  BY <1>1, <1>5, <1>6 DEF q

\* A stream whose last line may be open.
StreamType(st) ==
    /\ st.lines \in Seq(LineType)
    /\ st.tail \in {"closed", "unterminated", "fragment"}
    /\ st.tail # "closed" => Len(st.lines) > 0
    /\ st.tail = "fragment" => st.lines[Len(st.lines)] = Garbage

\* Whose record the next append would spoil: none, unless the last line lacks its newline.
Exposed(st, s) ==
    /\ st.tail = "unterminated"
    /\ st.lines[Len(st.lines)] # Garbage
    /\ st.lines[Len(st.lines)].session = s

\* A line behind an open line is lost with it.
LEMMA ExtendedLines ==
    ASSUME NEW st, StreamType(st), NEW l \in LineType, NEW t, t.lines = Extended(st, l)
    PROVE  /\ t.lines \in Seq(LineType) /\ Len(t.lines) > 0
           /\ st.tail = "closed" => t.lines[Len(t.lines)] = l
           /\ st.tail # "closed" => t.lines[Len(t.lines)] = Garbage
           /\ \A s : /\ st.tail = "closed" =>
                          best_by_cell(t, s) =
                            IF l # Garbage /\ l.type = "attempt" /\ l.session = s
                            THEN {l.result} ELSE best_by_cell(st, s)
                     /\ st.tail # "closed" /\ ~Exposed(st, s) =>
                          best_by_cell(t, s) = best_by_cell(st, s)
<1>1. CASE st.tail = "closed"
  <2>1. t.lines = Append(st.lines, l) /\ st.lines \in Seq(LineType)
    BY <1>1 DEF Extended, StreamType
  <2>2. \A s : best_by_cell(t, s) = IF l # Garbage /\ l.type = "attempt" /\ l.session = s
                                    THEN {l.result} ELSE best_by_cell(st, s)
    BY <2>1, BestAppended
  <2>3. t.lines \in Seq(LineType) /\ Len(t.lines) > 0 /\ t.lines[Len(t.lines)] = l
    BY <2>1
  <2>4. QED
    BY <1>1, <2>2, <2>3
<1>2. CASE st.tail # "closed"
  <2>1. /\ t.lines = [st.lines EXCEPT ![Len(st.lines)] = Garbage]
        /\ st.lines \in Seq(LineType) /\ Len(st.lines) > 0
    BY <1>2 DEF Extended, StreamType
  <2>2. t.lines \in Seq(LineType) /\ Len(t.lines) > 0 /\ t.lines[Len(t.lines)] = Garbage
    BY <2>1 DEF LineType
  <2>3. ASSUME NEW s, ~Exposed(st, s) PROVE best_by_cell(t, s) = best_by_cell(st, s)
    <3>1. LET x == st.lines[Len(st.lines)] IN x = Garbage \/ x.session # s
      BY <1>2, <2>3 DEF Exposed, StreamType
    <3>2. QED
      BY <2>1, <3>1, BestSpoiled
  <2>4. QED
    BY <1>2, <2>2, <2>3
<1>3. QED
  BY <1>1, <1>2

(***************************************************************************)
(* The two records of a session agree, but for what torn appends cost.     *)
(***************************************************************************)
\* What `run` holds in memory is what is on disk, unless a `state` process has written a
\* new manifest over it.
Held == pc \notin Exits => mem = disk \/ \E x \in {"bare", "primed"} : disk = Unstarted(x)

\* An attempt record is still to be appended.
ToCome == \E i \in 1 .. Len(queue) : queue[i].type = "attempt"

\* What is to be appended is of the cell in hand.
Queued ==
    /\ queue \in Seq(Records)
    /\ \A i \in 1 .. Len(queue) :
         queue[i].session = mem.current_index /\ queue[i].result = result
    /\ pc \notin {"ran", "appending"} => queue = <<>>
    /\ pc = "ran" => ToCome
    /\ pc = "appending" => ToCome \/ stream.tail = "closed"

\* The next append spoils no record that anybody counts on.
Whole ==
    /\ StreamType(stream)
    /\ \A s \in Sessions :
         Exposed(stream, s) => disk.phase[s] # "DONE" /\ mem.phase[s] # "DONE"

\* The sessions a manifest calls DONE for which the stream has another result, or none.
MisIn(st, m) == {s \in Sessions : m.phase[s] = "DONE" /\ best_by_cell(st, s) # m.progress[s]}

\* The cell in hand has lost its record.
Lost == pc = "appending" /\ ~ToCome /\ best_by_cell(stream, mem.current_index) # {result}

\* What is broken and has not cost a session yet.
Owed == IF stream.tail # "closed" \/ Lost THEN 1 ELSE 0

Debt ==
    /\ tears \in Nat /\ tears <= MaxTears
    /\ Cardinality(MisIn(stream, disk)) + Owed <= tears
    /\ Cardinality(MisIn(stream, mem)) + Owed <= tears

StreamInv == WalkInv /\ Held /\ Queued /\ Whole /\ Debt

\* A manifest misses finitely many sessions, and a new one none.
LEMMA MisCount ==
    ASSUME NEW st, NEW m
    PROVE  /\ IsFiniteSet(MisIn(st, m)) /\ Cardinality(MisIn(st, m)) \in Nat
           /\ \A M \in SUBSET MisIn(st, m) : Cardinality(M) <= Cardinality(MisIn(st, m))
<1>1. IsFiniteSet(Sessions)
  BY FS_Interval, ScheduleAssumption DEF Sessions
<1>2. MisIn(st, m) \in SUBSET Sessions
  BY DEF MisIn
<1>3. QED
  BY <1>1, <1>2, FS_Subset, FS_CardinalityType

LEMMA MisUnstarted ==
    ASSUME NEW st, NEW x
    PROVE  MisIn(st, Unstarted(x)) = {} /\ Cardinality(MisIn(st, Unstarted(x))) = 0
<1>1. \A s \in Sessions : Unstarted(x).phase[s] # "DONE"
  BY DEF Unstarted
<1>2. MisIn(st, Unstarted(x)) = {}
  BY <1>1 DEF MisIn
<1>3. QED
  BY <1>2, FS_EmptySet

\* Where the cell in hand stands: its session is DONE nowhere.
LEMMA CellInHand ==
    ASSUME StreamInv, pc \in InCell
    PROVE  /\ mem.current_index \in Sessions /\ mem.current_index < S
           /\ mem.phase[mem.current_index] # "DONE" /\ disk.phase[mem.current_index] # "DONE"
<1>1. mem \in Manifests /\ CellPlace /\ Held
  BY DEF StreamInv, WalkInv, WellWalked
<1>2. mem.current_index < S /\ mem.phase[mem.current_index] = "RUN_SESSION"
  BY <1>1 DEF CellPlace
<1>3. mem.current_index \in Sessions
  BY <1>1, <1>2, ScheduleAssumption DEF Manifests, Sessions
<1>4. mem = disk \/ \E x \in {"bare", "primed"} : disk = Unstarted(x)
  BY <1>1 DEF Held, InCell, Exits
<1>5. disk.phase[mem.current_index] # "DONE"
  BY <1>2, <1>3, <1>4 DEF Unstarted
<1>6. QED
  BY <1>2, <1>3, <1>5

(***************************************************************************)
(* Memory and disk.                                                        *)
(***************************************************************************)
LEMMA HeldStep ==
    ASSUME Held, Next
    PROVE  Held'
<1> USE DEF Held, Exits
<1>1. CASE Boot
  BY <1>1 DEF Boot, Exit
<1>2. CASE resume_or_create \/ Prime \/ _advance_to_next_session \/ prepare_fixture
  BY <1>2 DEF resume_or_create, Prime, _advance_to_next_session, prepare_fixture, Checkpoint
<1>3. CASE Finish \/ ReportHalt \/ AppendFails \/ Killed
  BY <1>3 DEF Finish, ReportHalt, AppendFails, Killed, Exit
<1>4. CASE run_cell \/ CellEnds \/ _write_run_manifest_once \/ _append_status_records
  BY <1>4 DEF run_cell, CellEnds, _write_run_manifest_once, _append_status_records, At
<1>5. CASE SessionDone
  BY <1>5 DEF SessionDone, Checkpoint, Exit
<1>6. CASE StateLoads
  BY <1>6 DEF StateLoads
<1>7. CASE StateWrites
  BY <1>7 DEF StateWrites
<1>8. QED
  BY <1>1, <1>2, <1>3, <1>4, <1>5, <1>6, <1>7 DEF Next, RunStep

(***************************************************************************)
(* The queue.                                                              *)
(***************************************************************************)
\* An append takes the head of the queue.
LEMMA QueueTail ==
    ASSUME NEW q \in Seq(Records), q # <<>>
    PROVE  /\ Tail(q) \in Seq(Records) /\ Head(q) \in Records /\ Head(q) = q[1]
           /\ \A i \in 1 .. Len(Tail(q)) : i + 1 \in 1 .. Len(q) /\ Tail(q)[i] = q[i + 1]
           /\ 1 \in 1 .. Len(q)
           /\ \A i \in 1 .. Len(q) : i # 1 => i - 1 \in 1 .. Len(Tail(q)) /\ Tail(q)[i - 1] = q[i]
OBVIOUS

LEMMA QueuedStep ==
    ASSUME StreamInv, Next
    PROVE  Queued'
<1>1. /\ queue \in Seq(Records)
      /\ \A i \in 1 .. Len(queue) :
           queue[i].session = mem.current_index /\ queue[i].result = result
      /\ pc \notin {"ran", "appending"} => queue = <<>>
      /\ pc = "ran" => ToCome
      /\ pc = "appending" => ToCome \/ stream.tail = "closed"
  BY DEF StreamInv, Queued
<1>2. ASSUME queue' = <<>>, pc' \notin {"ran", "appending"} PROVE Queued'
  BY <1>2 DEF Queued
<1>3. CASE Boot
  <2>1. pc' \notin {"ran", "appending"} /\ (queue' = <<>> \/ queue' = queue)
        /\ pc \notin {"ran", "appending"}
    <3>1. disk.made \in {"absent", "bare", "primed"}
      BY DEF StreamInv, WalkInv, WellWalked, Manifests
    <3>2. QED
      BY <1>3, <3>1 DEF Boot, Exit, Exits
  <2>2. QED
    BY <1>1, <1>2, <2>1
<1>4. CASE Finish \/ ReportHalt \/ AppendFails \/ Killed
  BY <1>2, <1>4 DEF Finish, ReportHalt, AppendFails, Killed, Exit
<1>5. CASE resume_or_create \/ Prime
  BY <1>1, <1>2, <1>5 DEF resume_or_create, Prime, cell
<1>6. CASE _advance_to_next_session \/ prepare_fixture
  BY <1>1, <1>2, <1>6 DEF _advance_to_next_session, prepare_fixture, At, cell
<1>7. CASE run_cell
  BY <1>1, <1>2, <1>7 DEF run_cell, At
<1>8. CASE CellEnds
  <2>1. PICK r \in CellResults, attempts \in 1 .. MaxAttempts, turns \in 0 .. MaxTurns :
          result' = r /\ queue' = StatusRecords(mem.current_index, r, attempts, turns)
    BY <1>8 DEF CellEnds
  <2>2. pc = "cell" /\ pc' = "ran" /\ mem' = mem
    BY <1>8 DEF CellEnds
  <2>3. mem.current_index \in Sessions /\ r \in Results
    BY <2>2, CellInHand, CampaignAssumption DEF InCell
  <2>4. /\ queue' \in Seq(Records) /\ Len(queue') \in Nat /\ 1 <= Len(queue')
        /\ queue'[1].type = "attempt"
        /\ \A i \in 1 .. Len(queue') : queue'[i].session = mem.current_index /\ queue'[i].result = r
    BY <2>1, <2>3, RecordsOfCell
  <2>5. ToCome'
    <3>1. 1 \in 1 .. Len(queue')
      BY <2>4
    <3>2. QED
      BY <2>4, <3>1 DEF ToCome
  <2>6. QED
    BY <2>1, <2>2, <2>4, <2>5 DEF Queued
<1>9. CASE _write_run_manifest_once
  <2>1. pc = "ran" /\ pc' = "appending" /\ UNCHANGED <<mem, queue, result>>
    BY <1>9 DEF _write_run_manifest_once, cell
  <2>2. ToCome'
    BY <1>1, <2>1 DEF ToCome
  <2>3. QED
    BY <1>1, <2>1, <2>2 DEF Queued
<1>10. CASE _append_status_records
  <2>1. /\ pc = "appending" /\ pc' = "appending" /\ queue # <<>> /\ queue' = Tail(queue)
        /\ UNCHANGED <<mem, result>> /\ stream'.tail = "closed"
    BY <1>10 DEF _append_status_records, append
  <2>2. /\ queue' \in Seq(Records)
        /\ \A i \in 1 .. Len(queue') : i + 1 \in 1 .. Len(queue) /\ queue'[i] = queue[i + 1]
    BY <1>1, <2>1, QueueTail
  <2>3. QED
    BY <1>1, <2>1, <2>2 DEF Queued
<1>11. CASE SessionDone
  BY <1>2, <1>11 DEF SessionDone, Exit
<1>12. CASE StateLoads \/ StateWrites
  <2>1. UNCHANGED <<pc, mem, queue, result, stream>>
    BY <1>12 DEF StateLoads, StateWrites, cell, artifacts
  <2>2. ToCome' <=> ToCome
    BY <2>1 DEF ToCome
  <2>3. QED
    BY <1>1, <2>1, <2>2 DEF Queued
<1>13. QED
  BY <1>3, <1>4, <1>5, <1>6, <1>7, <1>8, <1>9, <1>10, <1>11, <1>12 DEF Next, RunStep

(***************************************************************************)
(* The completed sessions, and what the stream says of them.               *)
(***************************************************************************)
\* What n calls DONE, m calls DONE with the same result.
Behind(n, m) ==
    \A s \in Sessions : n.phase[s] = "DONE" => m.phase[s] = "DONE" /\ n.progress[s] = m.progress[s]

LEMMA BehindMis ==
    ASSUME NEW st, NEW n, NEW m, Behind(n, m)
    PROVE  MisIn(st, n) \in SUBSET MisIn(st, m)
BY DEF Behind, MisIn

\* The operations on a manifest that complete no session.
LEMMA BehindOps ==
    ASSUME NEW m, m \in Manifests
    PROVE  /\ Behind(m, m)
           /\ \A x : Behind(Unstarted(x), m)
           /\ m.current_index < S => /\ Behind(Advanced(m), m)
                                     /\ Behind(SetPhase(m, m.current_index, "RUN_SESSION"), m)
<1>1. Behind(m, m)
  BY DEF Behind
<1>2. \A x : Behind(Unstarted(x), m)
  BY DEF Behind, Unstarted
<1>3. ASSUME m.current_index < S PROVE Behind(Advanced(m), m)
  <2> DEFINE n == Advanced(m)
             i == m.current_index + 1
  <2>1. /\ n.phase = [s \in Sessions |-> IF s = i THEN "PREPARE_FIXTURE" ELSE m.phase[s]]
        /\ n.progress = m.progress
    BY DEF Advanced, Manifests
  <2> HIDE DEF n, i
  <2>2. QED
    BY <2>1 DEF Behind, n
<1>4. ASSUME m.current_index < S PROVE Behind(SetPhase(m, m.current_index, "RUN_SESSION"), m)
  <2> DEFINE n == SetPhase(m, m.current_index, "RUN_SESSION")
  <2>1. n.phase = [m.phase EXCEPT ![m.current_index] = "RUN_SESSION"] /\ n.progress = m.progress
    BY DEF SetPhase, Manifests
  <2>2. \A s \in Sessions : n.phase[s] = "DONE" => m.phase[s] = "DONE"
    BY <2>1 DEF Manifests
  <2> HIDE DEF n
  <2>3. QED
    BY <2>1, <2>2 DEF Behind, n
<1>5. QED
  BY <1>1, <1>2, <1>3, <1>4

LEMMA ManifestStep ==
    ASSUME StreamInv, Next, ~SessionDone
    PROVE  /\ Behind(disk', disk) \/ Behind(disk', mem)
           /\ Behind(mem', disk) \/ Behind(mem', mem)
<1>1. disk \in Manifests /\ mem \in Manifests
  BY DEF StreamInv, WalkInv, WellWalked
<1>2. /\ Behind(disk, disk) /\ Behind(mem, mem)
      /\ \A x : Behind(Unstarted(x), disk) /\ Behind(Unstarted(x), mem)
  BY <1>1, BehindOps
<1>3. CASE Boot
  BY <1>2, <1>3 DEF Boot, Exit
<1>4. CASE Finish \/ ReportHalt \/ AppendFails \/ Killed
  BY <1>2, <1>4 DEF Finish, ReportHalt, AppendFails, Killed, Exit
<1>5. CASE resume_or_create \/ Prime
  BY <1>2, <1>5 DEF resume_or_create, Prime, Checkpoint
<1>6. CASE _advance_to_next_session
  <2>1. mem.current_index < S /\ mem' = Advanced(mem) /\ disk' = Advanced(mem)
    BY <1>6 DEF _advance_to_next_session, At, Checkpoint
  <2>2. QED
    BY <1>1, <2>1, BehindOps
<1>7. CASE prepare_fixture
  <2> DEFINE n == SetPhase(mem, mem.current_index, "RUN_SESSION")
  <2>1. mem.current_index < S /\ mem' = n /\ disk' = n
    BY <1>7 DEF prepare_fixture, At, Checkpoint
  <2>2. Behind(n, mem)
    BY <1>1, <2>1, BehindOps
  <2> HIDE DEF n
  <2>3. QED
    BY <2>1, <2>2
<1>8. CASE run_cell \/ CellEnds \/ _write_run_manifest_once \/ _append_status_records
  BY <1>2, <1>8 DEF run_cell, CellEnds, _write_run_manifest_once, _append_status_records, At
<1>9. CASE StateLoads
  BY <1>2, <1>9 DEF StateLoads
<1>10. CASE StateWrites
  BY <1>2, <1>10 DEF StateWrites
<1>11. QED
  BY <1>3, <1>4, <1>5, <1>6, <1>7, <1>8, <1>9, <1>10 DEF Next, RunStep

\* An append, whole or torn, is of the cell in hand: it changes nothing for the sessions
\* that are DONE.
LEMMA AppendStep ==
    ASSUME StreamInv, pc = "appending", queue # <<>>,
           NEW l \in {Head(queue), Garbage}, NEW t, t.lines = Extended(stream, l)
    PROVE  /\ t.lines \in Seq(LineType) /\ Len(t.lines) > 0
           /\ stream.tail = "closed" => t.lines[Len(t.lines)] = l
           /\ stream.tail # "closed" => t.lines[Len(t.lines)] = Garbage
           /\ MisIn(t, disk) = MisIn(stream, disk) /\ MisIn(t, mem) = MisIn(stream, mem)
           /\ stream.tail = "closed" =>
                best_by_cell(t, mem.current_index) =
                  IF l # Garbage /\ l.type = "attempt"
                  THEN {result} ELSE best_by_cell(stream, mem.current_index)
<1> DEFINE i == mem.current_index
<1>1. StreamType(stream) /\ \A s \in Sessions : Exposed(stream, s)
         => disk.phase[s] # "DONE" /\ mem.phase[s] # "DONE"
  BY DEF StreamInv, Whole
<1>2. i \in Sessions /\ mem.phase[i] # "DONE" /\ disk.phase[i] # "DONE"
  BY CellInHand DEF InCell
<1>3. Head(queue) \in Records /\ Head(queue).session = i /\ Head(queue).result = result
  BY QueueTail DEF StreamInv, Queued
<1>4. l \in LineType /\ (l # Garbage => l.session = i /\ l.result = result)
  BY <1>3 DEF LineType
<1>5. /\ t.lines \in Seq(LineType) /\ Len(t.lines) > 0
      /\ stream.tail = "closed" => t.lines[Len(t.lines)] = l
      /\ stream.tail # "closed" => t.lines[Len(t.lines)] = Garbage
      /\ \A s : /\ stream.tail = "closed" =>
                     best_by_cell(t, s) =
                       IF l # Garbage /\ l.type = "attempt" /\ l.session = s
                       THEN {l.result} ELSE best_by_cell(stream, s)
                /\ stream.tail # "closed" /\ ~Exposed(stream, s) =>
                     best_by_cell(t, s) = best_by_cell(stream, s)
  BY <1>1, <1>4, ExtendedLines
<1>6. ASSUME NEW s \in Sessions, disk.phase[s] = "DONE" \/ mem.phase[s] = "DONE"
      PROVE  best_by_cell(t, s) = best_by_cell(stream, s)
  <2>1. ~Exposed(stream, s) /\ s # i
    BY <1>1, <1>2, <1>6
  <2>2. QED
    BY <1>4, <1>5, <2>1
<1>7. MisIn(t, disk) = MisIn(stream, disk) /\ MisIn(t, mem) = MisIn(stream, mem)
  BY <1>6 DEF MisIn
<1>8. stream.tail = "closed" =>
        best_by_cell(t, i) = IF l # Garbage /\ l.type = "attempt"
                             THEN {result} ELSE best_by_cell(stream, i)
  BY <1>4, <1>5
<1>9. QED
  BY <1>5, <1>7, <1>8

\* When a cell's records are all appended, the last line is closed.
LEMMA Settled ==
    ASSUME StreamInv, pc = "appending", queue = <<>>
    PROVE  stream.tail = "closed" /\ ~ToCome
<1>1. ~ToCome
  BY DEF ToCome
<1>2. QED
  BY <1>1 DEF StreamInv, Queued

LEMMA WholeStep ==
    ASSUME StreamInv, Next
    PROVE  Whole'
<1>1. StreamType(stream) /\ \A s \in Sessions : Exposed(stream, s)
         => disk.phase[s] # "DONE" /\ mem.phase[s] # "DONE"
  BY DEF StreamInv, Whole
<1>2. CASE _append_status_records
  <2>1. pc = "appending" /\ queue # <<>> /\ stream' = append(stream, Head(queue))
    BY <1>2 DEF _append_status_records
  <2>2. stream'.lines = Extended(stream, Head(queue)) /\ stream'.tail = "closed"
    BY <2>1 DEF append
  <2>3. stream'.lines \in Seq(LineType)
    BY <2>1, <2>2, AppendStep
  <2>4. QED
    BY <2>2, <2>3 DEF Whole, StreamType, Exposed
<1>3. CASE AppendFails
  <2>1. /\ pc = "appending" /\ queue # <<>> /\ stream' \in TornAppends(stream, Head(queue))
        /\ disk' = disk /\ mem' = Unstarted("absent")
    BY <1>3 DEF AppendFails, Exit
  <2>2. \A s \in Sessions : mem'.phase[s] # "DONE"
    BY <2>1 DEF Unstarted
  <2>3. CASE stream' = [lines |-> Extended(stream, Garbage), tail |-> "fragment"]
    <3>1. stream'.lines = Extended(stream, Garbage) /\ stream'.tail = "fragment"
      BY <2>3
    <3>2. /\ stream'.lines \in Seq(LineType) /\ Len(stream'.lines) > 0
          /\ stream'.lines[Len(stream'.lines)] = Garbage
      BY <2>1, <3>1, AppendStep
    <3>3. QED
      BY <3>1, <3>2 DEF Whole, StreamType, Exposed
  <2>4. CASE stream' = [lines |-> Extended(stream, Head(queue)),
                        tail |-> IF stream.tail = "closed" THEN "unterminated" ELSE "fragment"]
    <3>1. /\ stream'.lines = Extended(stream, Head(queue))
          /\ stream'.tail = IF stream.tail = "closed" THEN "unterminated" ELSE "fragment"
      BY <2>4
    <3>2. /\ stream'.lines \in Seq(LineType) /\ Len(stream'.lines) > 0
          /\ stream.tail = "closed" => stream'.lines[Len(stream'.lines)] = Head(queue)
          /\ stream.tail # "closed" => stream'.lines[Len(stream'.lines)] = Garbage
      BY <2>1, <3>1, AppendStep
    <3>3. StreamType(stream')
      BY <3>1, <3>2 DEF StreamType
    <3>4. Head(queue).session = mem.current_index
      BY <2>1, QueueTail DEF StreamInv, Queued
    <3>5. disk.phase[mem.current_index] # "DONE"
      BY <2>1, CellInHand DEF InCell
    <3>6. \A s \in Sessions : Exposed(stream', s) => disk'.phase[s] # "DONE"
      BY <2>1, <3>1, <3>2, <3>4, <3>5 DEF Exposed
    <3>7. QED
      BY <2>2, <3>3, <3>6 DEF Whole
  <2>5. QED
    BY <2>1, <2>3, <2>4 DEF TornAppends
<1>4. CASE SessionDone
  <2>1. stream' = stream /\ stream.tail = "closed"
    BY <1>4, Settled DEF SessionDone, artifacts
  <2>2. QED
    BY <1>1, <2>1 DEF Whole, Exposed
<1>5. CASE ~SessionDone /\ stream' = stream
  <2>1. \A s \in Sessions : (disk'.phase[s] = "DONE" \/ mem'.phase[s] = "DONE")
                              => (disk.phase[s] = "DONE" \/ mem.phase[s] = "DONE")
    BY <1>5, ManifestStep DEF Behind
  <2>2. QED
    BY <1>1, <1>5, <2>1 DEF Whole
<1>6. stream' = stream \/ _append_status_records \/ AppendFails
  <2>1. CASE RunStep
    BY <2>1 DEF RunStep, resume_or_create, Prime, Finish, ReportHalt,
       _advance_to_next_session, prepare_fixture, run_cell, CellEnds,
       _write_run_manifest_once, SessionDone, artifacts
  <2>2. CASE Boot \/ Killed \/ StateLoads \/ StateWrites
    BY <2>2 DEF Boot, Killed, StateLoads, StateWrites, artifacts
  <2>3. QED
    BY <2>1, <2>2 DEF Next
<1>7. QED
  BY <1>2, <1>3, <1>4, <1>5, <1>6

(***************************************************************************)
(* The debt.                                                               *)
(***************************************************************************)
\* A step that completes no session keeps the debt if it owes no more than before.
LEMMA DebtKept ==
    ASSUME StreamInv, Next, ~SessionDone, tears' = tears, Owed' <= Owed,
           MisIn(stream', disk) = MisIn(stream, disk), MisIn(stream', mem) = MisIn(stream, mem)
    PROVE  Debt'
<1>1. /\ Behind(disk', disk) \/ Behind(disk', mem)
      /\ Behind(mem', disk) \/ Behind(mem', mem)
  BY ManifestStep
<1>2. /\ MisIn(stream', disk') \in SUBSET MisIn(stream, disk)
           \/ MisIn(stream', disk') \in SUBSET MisIn(stream, mem)
      /\ MisIn(stream', mem') \in SUBSET MisIn(stream, disk)
           \/ MisIn(stream', mem') \in SUBSET MisIn(stream, mem)
  BY <1>1, BehindMis
<1> DEFINE a == Cardinality(MisIn(stream, disk))
           b == Cardinality(MisIn(stream, mem))
           c == Cardinality(MisIn(stream', disk'))
           d == Cardinality(MisIn(stream', mem'))
<1>3. (c <= a \/ c <= b) /\ (d <= a \/ d <= b)
  BY <1>2, MisCount
<1>4. a \in Nat /\ b \in Nat /\ c \in Nat /\ d \in Nat
  BY MisCount
<1>5. tears \in Nat /\ tears <= MaxTears /\ a + Owed <= tears /\ b + Owed <= tears
  BY DEF StreamInv, Debt
<1>6. Owed \in {0, 1} /\ Owed' \in {0, 1}
  BY DEF Owed
<1>7. Debt' <=> tears' \in Nat /\ tears' <= MaxTears /\ c + Owed' <= tears' /\ d + Owed' <= tears'
  BY DEF Debt
<1> DEFINE o == Owed
           p == Owed'
<1>8. o \in {0, 1} /\ p \in {0, 1} /\ p <= o /\ a + o <= tears /\ b + o <= tears
  BY <1>5, <1>6
<1>9. Debt' <=> tears \in Nat /\ tears <= MaxTears /\ c + p <= tears /\ d + p <= tears
  BY <1>7
<1> HIDE DEF a, b, c, d, o, p
<1>10. c + p <= tears /\ d + p <= tears
  BY <1>3, <1>4, <1>5, <1>8
<1>11. QED
  BY <1>5, <1>9, <1>10

LEMMA DebtStep ==
    ASSUME StreamInv, Next
    PROVE  Debt'
<1>1. CASE _append_status_records
  <2> DEFINE i == mem.current_index
  <2>1. /\ pc = "appending" /\ queue # <<>> /\ stream' = append(stream, Head(queue))
        /\ queue' = Tail(queue) /\ UNCHANGED <<pc, mem, disk, result, tears>>
    BY <1>1 DEF _append_status_records, others
  <2>2. stream'.lines = Extended(stream, Head(queue)) /\ stream'.tail = "closed"
    BY <2>1 DEF append
  <2>3. /\ MisIn(stream', disk) = MisIn(stream, disk) /\ MisIn(stream', mem) = MisIn(stream, mem)
        /\ stream.tail = "closed" =>
             best_by_cell(stream', i) =
               IF Head(queue) # Garbage /\ Head(queue).type = "attempt"
               THEN {result} ELSE best_by_cell(stream, i)
    BY <2>1, <2>2, AppendStep
  <2>4. Head(queue) # Garbage /\ Head(queue) = queue[1]
        /\ \A j \in 1 .. Len(queue) : j # 1 => j - 1 \in 1 .. Len(queue') /\ queue'[j - 1] = queue[j]
    BY <2>1, QueueTail, LineKinds DEF StreamInv, Queued
  <2>5. ToCome => ToCome' \/ Head(queue).type = "attempt"
    BY <2>4 DEF ToCome
  <2>6. Lost' => stream.tail # "closed" \/ Lost
    BY <2>1, <2>3, <2>4, <2>5 DEF Lost
  <2>7. Owed' <= Owed
    BY <2>2, <2>6 DEF Owed
  <2>8. ~SessionDone
    BY <2>1 DEF SessionDone
  <2>9. QED
    BY <2>1, <2>3, <2>7, <2>8, DebtKept
<1>2. CASE AppendFails
  <2>1. /\ pc = "appending" /\ queue # <<>> /\ stream' \in TornAppends(stream, Head(queue))
        /\ disk' = disk /\ mem' = Unstarted("absent") /\ tears < MaxTears /\ tears' = tears + 1
    BY <1>2 DEF AppendFails, Exit
  <2>2. MisIn(stream', disk) = MisIn(stream, disk)
    <3>1. \E l \in {Head(queue), Garbage} : stream'.lines = Extended(stream, l)
      BY <2>1 DEF TornAppends
    <3>2. QED
      BY <2>1, <3>1, AppendStep
  <2>3. Cardinality(MisIn(stream', mem')) = 0
    BY <2>1, MisUnstarted
  <2> DEFINE a == Cardinality(MisIn(stream, disk))
  <2>4. a \in Nat /\ tears \in Nat /\ a + Owed <= tears /\ MaxTears \in Nat
    BY MisCount, CampaignAssumption DEF StreamInv, Debt
  <2>5. Owed \in {0, 1} /\ Owed' \in {0, 1}
    BY DEF Owed
  <2>6. Debt' <=> tears' \in Nat /\ tears' <= MaxTears /\ a + Owed' <= tears' /\ 0 + Owed' <= tears'
    BY <2>1, <2>2, <2>3 DEF Debt
  <2> DEFINE p == Owed'
  <2>7. p \in {0, 1} /\ a <= tears
    BY <2>4, <2>5
  <2>8. Debt' <=> tears + 1 \in Nat /\ tears + 1 <= MaxTears /\ a + p <= tears + 1 /\ 0 + p <= tears + 1
    BY <2>1, <2>6
  <2> HIDE DEF a, p
  <2>9. tears + 1 \in Nat /\ tears + 1 <= MaxTears /\ a + p <= tears + 1 /\ 0 + p <= tears + 1
    BY <2>1, <2>4, <2>7
  <2>10. QED
    BY <2>8, <2>9
<1>3. CASE SessionDone
  <2> DEFINE i == mem.current_index
  <2>1. pc = "appending" /\ queue = <<>> /\ UNCHANGED <<stream, tears>>
    BY <1>3 DEF SessionDone, artifacts, others
  <2>2. PICK halt \in BOOLEAN :
          /\ disk' = Finished(mem, i, result, halt)
          /\ mem' = Finished(mem, i, result, halt) \/ mem' = Unstarted("absent")
          /\ pc' \in {"halted", "loop"}
    BY <1>3 DEF SessionDone, Checkpoint, Exit
  <2> DEFINE m == Finished(mem, i, result, halt)
             n == IF best_by_cell(stream, i) # {result} THEN {i} ELSE {}
             a == Cardinality(MisIn(stream, mem))
             c == Cardinality(MisIn(stream, m))
  <2>3. stream.tail = "closed" /\ ~ToCome
    BY <2>1, Settled
  <2>4. Owed' = 0
    BY <2>1, <2>2, <2>3 DEF Owed, Lost
  <2>5. Owed = IF best_by_cell(stream, i) # {result} THEN 1 ELSE 0
    BY <2>1, <2>3 DEF Owed, Lost
  <2>6. mem \in Manifests /\ i \in Sessions
    BY <2>1, CellInHand DEF StreamInv, WalkInv, WellWalked, InCell
  <2>7. MisIn(stream, m) \in SUBSET (MisIn(stream, mem) \cup n)
    <3>1. /\ m.progress = [mem.progress EXCEPT ![i] = {result}]
          /\ m.phase = [mem.phase EXCEPT ![i] = IF halt THEN "HALTED_ON_GATE" ELSE "DONE"]
      BY <2>6 DEF Finished, Manifests
    <3>2. \A s \in Sessions : s # i => m.progress[s] = mem.progress[s] /\ m.phase[s] = mem.phase[s]
      BY <2>6, <3>1 DEF Manifests
    <3>3. m.progress[i] = {result}
      BY <2>6, <3>1 DEF Manifests
    <3> HIDE DEF m
    <3>4. QED
      BY <3>2, <3>3 DEF MisIn
  <2>8. IsFiniteSet(MisIn(stream, mem)) /\ a \in Nat
    BY MisCount
  <2>9. c <= a + Owed
    <3>1. IsFiniteSet(MisIn(stream, mem) \cup n) /\ Cardinality(MisIn(stream, mem) \cup n) <= a + Owed
          /\ Cardinality(MisIn(stream, mem) \cup n) \in Nat
      <4>1. CASE best_by_cell(stream, i) # {result}
        <5>1. IsFiniteSet(MisIn(stream, mem) \cup {i})
              /\ Cardinality(MisIn(stream, mem) \cup {i})
                   = IF i \in MisIn(stream, mem) THEN a ELSE a + 1
          BY <2>8, FS_AddElement
        <5>2. QED
          BY <2>5, <2>8, <4>1, <5>1
      <4>2. CASE best_by_cell(stream, i) = {result}
        BY <2>5, <2>8, <4>2
      <4>3. QED
        BY <4>1, <4>2
    <3>2. Cardinality(MisIn(stream, m)) <= Cardinality(MisIn(stream, mem) \cup n)
      BY <2>7, <3>1, FS_Subset
    <3>3. c \in Nat
      BY MisCount
    <3> HIDE DEF m, n
    <3>4. QED
      BY <2>5, <2>8, <3>1, <3>2, <3>3
  <2>10. c \in Nat /\ tears \in Nat /\ tears <= MaxTears /\ a + Owed <= tears
    BY MisCount DEF StreamInv, Debt
  <2>11. Owed \in {0, 1}
    BY DEF Owed
  <2>12. Cardinality(MisIn(stream', disk')) = c
    BY <2>1, <2>2
  <2>13. Cardinality(MisIn(stream', mem')) = c \/ Cardinality(MisIn(stream', mem')) = 0
    BY <2>1, <2>2, MisUnstarted
  <2> HIDE DEF m, n, a, c
  <2>14. c <= tears
    BY <2>8, <2>9, <2>10, <2>11
  <2>15. QED
    BY <2>1, <2>4, <2>10, <2>12, <2>13, <2>14 DEF Debt
<1>4. CASE _write_run_manifest_once
  <2>1. /\ pc = "ran" /\ pc' = "appending" /\ UNCHANGED <<mem, queue, result, stream, tears>>
    BY <1>4 DEF _write_run_manifest_once, cell, others
  <2>2. ToCome'
    BY <2>1 DEF ToCome, StreamInv, Queued
  <2>3. Owed' <= Owed
    BY <2>1, <2>2 DEF Owed, Lost
  <2>4. ~SessionDone
    BY <2>1 DEF SessionDone
  <2>5. QED
    BY <2>1, <2>3, <2>4, DebtKept
<1>5. CASE StateLoads \/ StateWrites
  <2>1. UNCHANGED <<pc, mem, queue, result, stream, tears>>
    BY <1>5 DEF StateLoads, StateWrites, cell, artifacts
  <2>2. (Lost' <=> Lost) /\ Owed' <= Owed
    BY <2>1 DEF Owed, Lost, ToCome
  <2>3. CASE ~SessionDone
    BY <2>1, <2>2, <2>3, DebtKept
  <2>4. QED
    BY <1>3, <2>3
<1>6. CASE Boot \/ Finish \/ ReportHalt \/ Killed \/ resume_or_create \/ Prime
           \/ _advance_to_next_session \/ prepare_fixture \/ run_cell \/ CellEnds
  <2>1. stream' = stream /\ tears' = tears
    <3>1. CASE Boot \/ Finish \/ ReportHalt \/ Killed
      BY <3>1 DEF Boot, Finish, ReportHalt, Killed, artifacts, others
    <3>2. CASE resume_or_create \/ Prime \/ _advance_to_next_session \/ prepare_fixture
      BY <3>2 DEF resume_or_create, Prime, _advance_to_next_session, prepare_fixture,
         artifacts, others
    <3>3. CASE run_cell \/ CellEnds
      BY <3>3 DEF run_cell, CellEnds, artifacts, others
    <3>4. QED
      BY <1>6, <3>1, <3>2, <3>3
  <2>2. pc' # "appending"
    <3>1. CASE Boot
      <4>1. disk.made \in {"absent", "bare", "primed"}
        BY DEF StreamInv, WalkInv, WellWalked, Manifests
      <4>2. QED
        BY <3>1, <4>1 DEF Boot, Exit
    <3>2. CASE Finish \/ ReportHalt \/ Killed
      BY <3>2 DEF Finish, ReportHalt, Killed, Exit
    <3>3. CASE resume_or_create \/ Prime \/ _advance_to_next_session \/ prepare_fixture
      BY <3>3 DEF resume_or_create, Prime, _advance_to_next_session, prepare_fixture, At
    <3>4. CASE run_cell \/ CellEnds
      BY <3>4 DEF run_cell, CellEnds
    <3>5. QED
      BY <1>6, <3>1, <3>2, <3>3, <3>4
  <2>3. Owed' <= Owed
    BY <2>1, <2>2 DEF Owed, Lost
  <2>4. CASE ~SessionDone
    BY <2>1, <2>3, <2>4, DebtKept
  <2>5. QED
    BY <1>3, <2>4
<1>7. QED
  BY <1>1, <1>2, <1>3, <1>4, <1>5, <1>6 DEF Next, RunStep

(***************************************************************************)
(* What follows for the reader of the stream.                              *)
(***************************************************************************)
LEMMA StreamInit == Init => StreamInv
<1> SUFFICES ASSUME Init PROVE StreamInv
  OBVIOUS
<1>1. /\ pc = "down" /\ queue = <<>> /\ tears = 0
      /\ disk = Unstarted("absent") /\ mem = Unstarted("absent")
      /\ stream.lines = <<>> /\ stream.tail = "closed"
  BY DEF Init, EmptyStream
<1>2. WalkInv
  BY WalkInit
<1>3. Held
  BY <1>1 DEF Held, Exits
<1>4. Queued
  BY <1>1 DEF Queued
<1>5. Whole
  BY <1>1 DEF Whole, StreamType, Exposed
<1>6. Debt
  <2>1. Owed = 0
    BY <1>1 DEF Owed, Lost
  <2>2. Cardinality(MisIn(stream, disk)) = 0 /\ Cardinality(MisIn(stream, mem)) = 0
    BY <1>1, MisUnstarted
  <2>3. QED
    BY <1>1, <2>1, <2>2, CampaignAssumption DEF Debt
<1>7. QED
  BY <1>2, <1>3, <1>4, <1>5, <1>6 DEF StreamInv

LEMMA StreamStep == StreamInv /\ [Next]_vars => StreamInv'
<1> SUFFICES ASSUME StreamInv, [Next]_vars PROVE StreamInv'
  OBVIOUS
<1>1. WalkInv'
  BY WalkStep DEF StreamInv
<1>2. CASE Next
  BY <1>1, <1>2, HeldStep, QueuedStep, WholeStep, DebtStep DEF StreamInv
<1>3. CASE UNCHANGED vars
  <2>1. UNCHANGED <<disk, mem, pc, result, queue, stream, tears>>
    BY <1>3 DEF vars
  <2>2. Held'
    BY <2>1 DEF StreamInv, Held
  <2>3. Queued'
    BY <2>1 DEF StreamInv, Queued, ToCome
  <2>4. Whole'
    BY <2>1 DEF StreamInv, Whole
  <2>5. Debt'
    <3>1. Owed' = Owed
      BY <2>1 DEF Owed, Lost, ToCome
    <3>2. QED
      BY <2>1, <3>1 DEF StreamInv, Debt
  <2>6. QED
    BY <1>1, <2>2, <2>3, <2>4, <2>5 DEF StreamInv
<1>4. QED
  BY <1>2, <1>3

LEMMA StreamInvariant == Spec => []StreamInv
BY StreamInit, StreamStep, PTL DEF Spec

\* A torn append costs the record of at most one session (StatusStream.append), whoever
\* dies when, and though `state' may write over the manifest meanwhile: the line that is
\* open is of the cell that was in hand, whose session is not DONE, and the one append it
\* spoils is again of a cell in hand.
THEOREM EachTearCostsOne == Spec => []TearsCostOneSession
<1>1. Misrecorded = MisIn(stream, disk)
  BY DEF Misrecorded, MisIn
<1>2. StreamInv => TearsCostOneSession
  <2> SUFFICES ASSUME StreamInv PROVE Cardinality(MisIn(stream, disk)) <= tears
    BY <1>1 DEF TearsCostOneSession
  <2> DEFINE a == Cardinality(MisIn(stream, disk))
             o == Owed
  <2>1. a \in Nat /\ o \in {0, 1} /\ a + o <= tears /\ tears \in Nat
    BY MisCount DEF StreamInv, Debt, Owed
  <2> HIDE DEF a, o
  <2>2. a <= tears
    BY <2>1
  <2>3. QED
    BY <2>2 DEF a
<1>3. QED
  BY <1>2, StreamInvariant, PTL

\* As long as no append is cut short, the scorecard and the mutable manifest agree on every
\* completed session, however often its cell was run again.
LEMMA AgreeNow ==
    ASSUME tears = 0, StreamInv
    PROVE  StreamAgrees
<1>1. Cardinality(MisIn(stream, disk)) = 0
  <2> DEFINE a == Cardinality(MisIn(stream, disk))
             o == Owed
  <2>1. a \in Nat /\ o \in {0, 1} /\ a + o <= tears /\ tears = 0
    BY MisCount DEF StreamInv, Debt, Owed
  <2> HIDE DEF a, o
  <2>2. a = 0
    BY <2>1
  <2>3. QED
    BY <2>2 DEF a
<1>2. MisIn(stream, disk) = {}
  BY <1>1, MisCount, FS_EmptySet
<1>3. QED
  BY <1>2 DEF StreamAgrees, MisIn

THEOREM RecordsAgree == Spec => [](tears = 0 => StreamAgrees)
<1>1. StreamInv => (tears = 0 => StreamAgrees)
  BY AgreeNow
<1>2. QED
  BY <1>1, StreamInvariant, PTL

\* What the run checks, where no append is ever cut short.
COROLLARY UntornRecordsAgree ==
    ASSUME MaxTears = 0
    PROVE  Spec => []StreamAgrees
<1>1. StreamInv => tears = 0
  <2> SUFFICES ASSUME StreamInv PROVE tears = 0
    OBVIOUS
  <2>1. tears \in 0 .. MaxTears
    BY DEF StreamInv, Debt
  <2>2. QED
    BY <2>1
<1>2. QED
  BY <1>1, RecordsAgree, StreamInvariant, PTL

\* The step that prints the standings.
LEMMA StandingsStep ==
    ASSUME StreamInv, StandingsComplete, Next
    PROVE  StandingsComplete'
<1>1. CASE Finish
  <2>1. /\ pc = "loop" /\ UNCHANGED <<disk, stream, runManifest>>
        /\ standings' = IF runManifest THEN build_scorecard(stream)
                        ELSE FallbackStandings(mem.progress)
    BY <1>1 DEF Finish, artifacts
  <2>2. mem = disk \/ \A s \in Sessions : disk.phase[s] # "DONE"
    <3>1. mem = disk \/ \E x \in {"bare", "primed"} : disk = Unstarted(x)
      BY <2>1 DEF StreamInv, Held, Exits
    <3>2. QED
      BY <3>1 DEF Unstarted
  <2>3. ASSUME NEW s \in Sessions \ Misrecorded, disk.phase[s] = "DONE"
        PROVE  /\ runManifest => standings'[s] = {Outcome(r) : r \in disk.progress[s]}
               /\ ("scored_pass" \in standings'[s]) = (\E r \in disk.progress[s] : r.green)
    <3>1. /\ mem = disk /\ best_by_cell(stream, s) = disk.progress[s]
          /\ disk.progress[s] \subseteq Results
      BY <2>2, <2>3 DEF Misrecorded, StreamInv, WalkInv, WellWalked, Manifests
    <3> DEFINE p == disk.progress[s]
               o == standings'[s]
    <3>2. CASE runManifest
      <4>1. o = {Outcome(r) : r \in p}
        BY <2>1, <3>1, <3>2 DEF build_scorecard
      <4>2. \A r \in Results : Outcome(r) = "scored_pass" <=> r.green
        BY DEF Outcome, Results
      <4>3. "scored_pass" \in o <=> \E r \in p : r.green
        <5> HIDE DEF o, p
        <5>1. p \subseteq Results
          BY <3>1 DEF p
        <5>2. "scored_pass" \in o <=> \E r \in p : Outcome(r) = "scored_pass"
          BY <4>1
        <5>3. QED
          BY <4>2, <5>1, <5>2
      <4>4. ("scored_pass" \in o) = (\E r \in p : r.green)
        <5> HIDE DEF o, p
        <5>1. ("scored_pass" \in o) \in BOOLEAN /\ (\E r \in p : r.green) \in BOOLEAN
          OBVIOUS
        <5>2. QED
          BY <4>3, <5>1, Zenon
      <4>5. QED
        BY <4>1, <4>4 DEF o, p
    <3>3. CASE ~runManifest
      <4>1. o = {TrendOutcome(r) : r \in p}
        BY <2>1, <3>1, <3>3 DEF FallbackStandings
      <4>2. \A r \in Results : TrendOutcome(r) = "scored_pass" <=> r.green
        BY DEF TrendOutcome, Results
      <4>3. "scored_pass" \in o <=> \E r \in p : r.green
        <5> HIDE DEF o, p
        <5>1. p \subseteq Results
          BY <3>1 DEF p
        <5>2. "scored_pass" \in o <=> \E r \in p : TrendOutcome(r) = "scored_pass"
          BY <4>1
        <5>3. QED
          BY <4>2, <5>1, <5>2
      <4>4. ("scored_pass" \in o) = (\E r \in p : r.green)
        <5> HIDE DEF o, p
        <5>1. ("scored_pass" \in o) \in BOOLEAN /\ (\E r \in p : r.green) \in BOOLEAN
          OBVIOUS
        <5>2. QED
          BY <4>3, <5>1, Zenon
      <4>5. QED
        BY <3>3, <4>4 DEF o, p
    <3>4. QED
      BY <3>2, <3>3
  <2>4. Misrecorded' = Misrecorded
    BY <2>1 DEF Misrecorded
  <2>5. QED
    BY <2>1, <2>3, <2>4 DEF StandingsComplete
<1>2. CASE StateLoads
  <2>1. UNCHANGED <<pc, disk, stream, runManifest, standings>>
    BY <1>2 DEF StateLoads, artifacts
  <2>2. QED
    BY <2>1 DEF StandingsComplete, Misrecorded
<1>3. CASE StateWrites
  <2>1. \E x \in {"bare", "primed"} : disk' = Unstarted(x)
    BY <1>3 DEF StateWrites
  <2>2. \A s \in Sessions : disk'.phase[s] # "DONE"
    BY <2>1 DEF Unstarted
  <2>3. QED
    BY <2>2 DEF StandingsComplete
<1>4. CASE Boot
  <2>1. disk.made \in {"absent", "bare", "primed"}
    BY DEF StreamInv, WalkInv, WellWalked, Manifests
  <2>2. pc' # "done"
    BY <1>4, <2>1 DEF Boot, Exit
  <2>3. QED
    BY <2>2 DEF StandingsComplete
<1>5. CASE ReportHalt \/ AppendFails \/ Killed \/ SessionDone \/ run_cell \/ CellEnds
           \/ _write_run_manifest_once \/ _append_status_records
           \/ resume_or_create \/ Prime \/ _advance_to_next_session \/ prepare_fixture
  <2>1. pc' # "done"
    <3>1. CASE ReportHalt \/ AppendFails \/ Killed \/ SessionDone
      BY <3>1 DEF ReportHalt, AppendFails, Killed, SessionDone, Exit
    <3>2. CASE run_cell \/ CellEnds \/ _write_run_manifest_once
      BY <3>2 DEF run_cell, CellEnds, _write_run_manifest_once
    <3>3. CASE _append_status_records \/ _advance_to_next_session \/ prepare_fixture
      BY <3>3 DEF _append_status_records, _advance_to_next_session, prepare_fixture, At
    <3>4. CASE resume_or_create \/ Prime
      BY <3>4 DEF resume_or_create, Prime
    <3>5. QED
      BY <1>5, <3>1, <3>2, <3>3, <3>4
  <2>2. QED
    BY <2>1 DEF StandingsComplete
<1>6. QED
  BY <1>1, <1>2, <1>3, <1>4, <1>5 DEF Next, RunStep

\* The standings `run' prints count every completed session by its result, unless a torn
\* append has cost it its record: from the status stream when the run manifest is there,
\* from the mutable manifest when it is not (print_standings and its fallback).
THEOREM StandingsAreComplete == Spec => []StandingsComplete
<1>1. Init => StandingsComplete
  BY DEF Init, StandingsComplete
<1>2. StreamInv /\ StandingsComplete /\ [Next]_vars => StandingsComplete'
  <2>1. StandingsComplete /\ UNCHANGED vars => StandingsComplete'
    <3> SUFFICES ASSUME StandingsComplete, UNCHANGED vars PROVE StandingsComplete'
      OBVIOUS
    <3>1. UNCHANGED <<pc, disk, stream, runManifest, standings>>
      BY DEF vars
    <3>2. QED
      BY <3>1 DEF StandingsComplete, Misrecorded
  <2>2. QED
    BY <2>1, StandingsStep
<1>3. QED
  BY <1>1, <1>2, StreamInvariant, PTL DEF Spec

(***************************************************************************)
(* The campaign keeps a score book.                                        *)
(***************************************************************************)
\* What is on the book: the results of the sessions that are DONE.
Shelf == [s \in Sessions |-> IF disk.phase[s] = "DONE" THEN best_by_cell(stream, s) ELSE {}]

\* When the records agree, the book is the manifest's.
LEMMA ShelfIsProgress ==
    ASSUME StreamAgrees
    PROVE  Shelf = [s \in Sessions |-> IF disk.phase[s] = "DONE" THEN disk.progress[s] ELSE {}]
BY DEF Shelf, StreamAgrees

\* A step of the campaign closes one session of the book, in schedule order, or leaves it
\* as it is.
LEMMA BookStep ==
    ASSUME StreamAgrees, StreamAgrees', SyncedInv, StreamInv, Next
    PROVE  \/ Shelf' = Shelf
           \/ \E s \in Sessions, r \in Results :
                /\ Shelf[s] = {}
                /\ \A t \in Sessions : t < s => Shelf[t] # {}
                /\ Shelf' = [Shelf EXCEPT ![s] = {r}]
<1>1. /\ Shelf = [s \in Sessions |-> IF disk.phase[s] = "DONE" THEN disk.progress[s] ELSE {}]
      /\ Shelf' = [s \in Sessions |-> IF disk'.phase[s] = "DONE" THEN disk'.progress[s] ELSE {}]
  BY DEF Shelf, StreamAgrees
<1>2. /\ mem \in Manifests /\ disk \in Manifests /\ Walk(disk) /\ result \in Results
      /\ pc \notin Exits => mem = disk
      /\ disk.made # "primed" => disk = Unstarted(disk.made)
      /\ reader = "idle"
      /\ pc \in {"creating", "created"} => disk.made # "primed"
  BY DEF SyncedInv, WalkInv, WellWalked, Synced
<1>3. ASSUME UNCHANGED disk PROVE Shelf' = Shelf
  BY <1>1, <1>3
<1>4. CASE resume_or_create \/ Prime
  <2>1. (\E x : disk' = Unstarted(x)) /\ (\E x : disk = Unstarted(x))
    BY <1>2, <1>4 DEF resume_or_create, Prime, Checkpoint
  <2>2. \A s \in Sessions : disk.phase[s] # "DONE" /\ disk'.phase[s] # "DONE"
    BY <2>1 DEF Unstarted
  <2>3. QED
    BY <1>1, <2>2
<1>5. CASE _advance_to_next_session
  <2> DEFINE i == disk.current_index
  <2>1. i < S /\ disk' = Advanced(disk)
    BY <1>2, <1>5 DEF _advance_to_next_session, At, Checkpoint, Exits
  <2>2. /\ disk'.phase = [s \in Sessions |-> IF s = i + 1 THEN "PREPARE_FIXTURE" ELSE disk.phase[s]]
        /\ disk'.progress = disk.progress
    BY <1>2, <2>1 DEF Advanced, Manifests
  <2>3. \A s \in Sessions : s = i + 1 => disk.phase[s] # "DONE"
    BY <1>2, <2>1 DEF Walk, Manifests, Sessions
  <2> HIDE DEF i
  <2>4. QED
    BY <1>1, <2>2, <2>3
<1>6. CASE prepare_fixture
  <2> DEFINE i == disk.current_index
  <2>1. i < S /\ disk.phase[i] # "DONE" /\ disk' = SetPhase(disk, i, "RUN_SESSION")
    BY <1>2, <1>6 DEF prepare_fixture, At, Checkpoint, Exits
  <2>2. /\ disk'.phase = [disk.phase EXCEPT ![i] = "RUN_SESSION"]
        /\ disk'.progress = disk.progress
    BY <1>2, <2>1 DEF SetPhase, Manifests
  <2>3. \A s \in Sessions : disk'.phase[s] = "DONE" <=> disk.phase[s] = "DONE"
    BY <1>2, <2>1, <2>2 DEF Manifests
  <2> HIDE DEF i
  <2>4. QED
    BY <1>1, <2>2, <2>3
<1>7. CASE SessionDone
  <2> DEFINE i == disk.current_index
  <2>1. pc = "appending" /\ mem = disk
    BY <1>2, <1>7 DEF SessionDone, Exits
  <2>2. PICK halt \in BOOLEAN : disk' = Finished(disk, i, result, halt)
    BY <1>7, <2>1 DEF SessionDone, Checkpoint
  <2>3. i \in Sessions /\ disk.phase[i] # "DONE"
    BY <2>1, CellInHand DEF InCell
  <2>4. /\ disk'.phase = [disk.phase EXCEPT ![i] = IF halt THEN "HALTED_ON_GATE" ELSE "DONE"]
        /\ disk'.progress = [disk.progress EXCEPT ![i] = {result}]
    BY <1>2, <2>2, <2>3 DEF Finished, Manifests
  <2>5. \A s \in Sessions : s # i => disk'.phase[s] = disk.phase[s] /\ disk'.progress[s] = disk.progress[s]
    BY <1>2, <2>4 DEF Manifests
  <2>6. /\ disk'.phase[i] = IF halt THEN "HALTED_ON_GATE" ELSE "DONE"
        /\ disk'.progress[i] = {result}
    BY <1>2, <2>3, <2>4 DEF Manifests
  <2>7. \A t \in Sessions : t < i => disk.phase[t] = "DONE" /\ disk.progress[t] # {}
    BY <1>2 DEF Walk
  <2> HIDE DEF i
  <2>8. CASE halt
    BY <1>1, <2>3, <2>5, <2>6, <2>8
  <2>9. CASE ~halt
    <3>1. Shelf[i] = {} /\ \A t \in Sessions : t < i => Shelf[t] # {}
      BY <1>1, <2>3, <2>7
    <3>2. Shelf' = [Shelf EXCEPT ![i] = {result}]
      BY <1>1, <2>3, <2>5, <2>6, <2>9
    <3>3. QED
      BY <1>2, <2>3, <3>1, <3>2
  <2>10. QED
    BY <2>8, <2>9
<1>8. CASE Boot \/ Finish \/ ReportHalt \/ AppendFails \/ Killed
  BY <1>3, <1>8 DEF Boot, Finish, ReportHalt, AppendFails, Killed
<1>9. CASE run_cell \/ CellEnds \/ _write_run_manifest_once \/ _append_status_records
  BY <1>3, <1>9 DEF run_cell, CellEnds, _write_run_manifest_once, _append_status_records
<1>10. CASE StateLoads \/ StateWrites
  BY <1>2, <1>3, <1>10 DEF StateLoads, StateWrites
<1>11. QED
  BY <1>4, <1>5, <1>6, <1>7, <1>8, <1>9, <1>10 DEF Next, RunStep

\* The campaign implements the score book: as long as no append is cut short and no `state'
\* process shares the manifest, the reader of the stream sees the sessions closed one by
\* one, in schedule order, each with one result that stays, however often `run' is killed.
THEOREM CampaignKeepsBook ==
    ASSUME MaxReads = 0, MaxTears = 0
    PROVE  Spec => KeepsBook
<1>1. Init => Book!BookInit
  <2> SUFFICES ASSUME Init PROVE Book!BookInit
    OBVIOUS
  <2>1. \A s \in Sessions : disk.phase[s] # "DONE"
    BY DEF Init, Unstarted
  <2>2. QED
    BY <2>1 DEF Book!BookInit, Sessions, Book!Sessions
<1>2. StreamInv /\ SyncedInv /\ StreamAgrees /\ StreamAgrees' /\ [Next]_vars
        => [Book!BookNext]_Shelf
  <2> SUFFICES ASSUME StreamInv, SyncedInv, StreamAgrees, StreamAgrees',
                      [Next]_vars, Shelf' # Shelf
               PROVE  Book!BookNext
    OBVIOUS
  <2>1. Next
    BY DEF vars, Shelf
  <2>2. PICK s \in Sessions, r \in Results :
          /\ Shelf[s] = {}
          /\ \A t \in Sessions : t < s => Shelf[t] # {}
          /\ Shelf' = [Shelf EXCEPT ![s] = {r}]
    BY <2>1, BookStep
  <2>3. QED
    BY <2>2 DEF Book!BookNext, Book!Close, Book!Sessions, Book!Results, Sessions, Results, Shelf
<1>3. QED
  BY <1>1, <1>2, StreamInvariant, UntornRecordsAgree, SyncedInit, SyncedInvStep, PTL
  DEF Spec, KeepsBook, Book!BookSpec, Shelf

(***************************************************************************)
(* The way of an invocation of `run'.                                      *)
(***************************************************************************)
\* The order of the places of a round.
Place(p) ==
    CASE p = "creating" -> 0 [] p = "created" -> 1 [] p = "loop" -> 2
      [] p = "cell" -> 3     [] p = "ran" -> 4     [] OTHER -> 5

\* A step that leaves less to do: the invocation ends, or its manifest gets further, or
\* the manifest stays as it is and the round gets further, or a record less is left to
\* append.  What is being created has no manifest to go by yet.
Nearer ==
    \/ pc' \in Exits
    \/ pc \in {"creating", "created"} /\ Place(pc') > Place(pc)
    \/ pc' = "loop" /\ Rank(mem') > Rank(mem)
    \/ mem' = mem /\ Place(pc') > Place(pc)
    \/ mem' = mem /\ pc' = pc /\ Len(queue') < Len(queue)

\* A running invocation gets nearer to its end or is left where it is, and its own steps
\* never leave it there.
RunAdvances ==
    pc \notin Exits =>
        /\ RunStep => Nearer
        /\ Nearer \/ UNCHANGED <<pc, mem, queue>>

\* The places in their order.
LEMMA Places ==
    /\ Place("creating") = 0 /\ Place("created") = 1 /\ Place("loop") = 2
    /\ Place("cell") = 3 /\ Place("ran") = 4 /\ Place("appending") = 5
BY DEF Place

\* A manifest has a rank, and the last one is 3 * S.
LEMMA RankBounded ==
    ASSUME NEW m \in Manifests
    PROVE  Rank(m) \in Nat /\ Rank(m) <= 3 * S
<1>1. m.current_index \in 0 .. S /\ S \in Nat
  BY ScheduleAssumption DEF Manifests
<1>2. CASE m.current_index = S
  BY <1>1, <1>2, RankOf
<1>3. CASE m.current_index < S
  <2>1. m.phase[m.current_index] \in Phases
    BY <1>1, <1>3 DEF Manifests, Sessions
  <2>2. Rank(m) \in 3 * m.current_index .. 3 * m.current_index + 2
    BY <1>1, <1>3, <2>1, RankOf DEF Phases
  <2>3. QED
    BY <1>1, <1>3, <2>2
<1>4. QED
  BY <1>1, <1>2, <1>3

\* The three checkpoints of a session each raise the rank.
LEMMA CheckpointRaises ==
    ASSUME WalkInv, mem.current_index < S
    PROVE  LET s == mem.current_index
           IN  /\ mem.phase[s] = "PREPARE_FIXTURE" =>
                    Rank(SetPhase(mem, s, "RUN_SESSION")) > Rank(mem)
               /\ mem.phase[s] = "RUN_SESSION" =>
                    \A halt \in BOOLEAN : Rank(Finished(mem, s, result, halt)) > Rank(mem)
               /\ mem.phase[s] = "DONE" => Rank(Advanced(mem)) > Rank(mem)
<1> DEFINE s == mem.current_index
<1>1. mem \in Manifests /\ s \in 0 .. S /\ s \in Sessions /\ S \in Nat
  BY ScheduleAssumption DEF WalkInv, WellWalked, Manifests, Sessions
<1>2. ASSUME mem.phase[s] = "PREPARE_FIXTURE"
      PROVE  Rank(SetPhase(mem, s, "RUN_SESSION")) > Rank(mem)
  <2> DEFINE n == SetPhase(mem, s, "RUN_SESSION")
  <2>1. n \in Manifests
    BY PreparedWalks DEF WalkInv, WellWalked
  <2>2. n.current_index = s /\ n.phase[s] = "RUN_SESSION"
    BY <1>1 DEF SetPhase, Manifests
  <2> HIDE DEF n
  <2>3. QED
    BY <1>1, <1>2, <2>1, <2>2, RankOf DEF n
<1>3. ASSUME mem.phase[s] = "RUN_SESSION", NEW halt \in BOOLEAN
      PROVE  Rank(Finished(mem, s, result, halt)) > Rank(mem)
  <2> DEFINE n == Finished(mem, s, result, halt)
  <2>1. n \in Manifests
    BY FinishedWalks DEF WalkInv, WellWalked
  <2>2. n.current_index = s /\ n.phase[s] \in {"DONE", "HALTED_ON_GATE"}
    BY <1>1 DEF Finished, Manifests
  <2> HIDE DEF n
  <2>3. Rank(n) > Rank(mem)
    BY <1>1, <1>3, <2>1, <2>2, RankOf
  <2>4. QED
    BY <2>3 DEF n
<1>4. ASSUME mem.phase[s] = "DONE"
      PROVE  Rank(Advanced(mem)) > Rank(mem)
  <2> DEFINE n == Advanced(mem)
  <2>1. n \in Manifests
    BY <1>4, AdvancedWalks DEF WalkInv, WellWalked
  <2>2. n.current_index = s + 1
    BY <1>1 DEF Advanced, Manifests
  <2> HIDE DEF n
  <2>3. Rank(n) >= 3 * (s + 1) /\ Rank(n) \in Nat
    BY <1>1, <2>1, <2>2, RankOf, RankBounded
  <2>4. Rank(mem) = 3 * s + 2
    BY <1>1, <1>4, RankOf
  <2>5. Rank(n) > Rank(mem)
    BY <1>1, <2>3, <2>4
  <2>6. QED
    BY <2>5 DEF n
<1>5. QED
  BY <1>2, <1>3, <1>4

\* Every step of `run' leaves less to do.
LEMMA RunStepNearer ==
    ASSUME StreamInv, RunStep
    PROVE  Nearer
<1> USE Places DEF Nearer
<1>1. WalkInv /\ queue \in Seq(Records)
  BY DEF StreamInv, Queued
<1>2. CASE resume_or_create \/ Prime
  BY <1>2 DEF resume_or_create, Prime
<1>3. CASE Finish \/ ReportHalt
  BY <1>3 DEF Finish, ReportHalt, Exit, Exits
<1>4. CASE _advance_to_next_session
  BY <1>1, <1>4, CheckpointRaises DEF _advance_to_next_session, At, Checkpoint
<1>5. CASE prepare_fixture
  BY <1>1, <1>5, CheckpointRaises DEF prepare_fixture, At, Checkpoint
<1>6. CASE run_cell \/ CellEnds \/ _write_run_manifest_once
  BY <1>6 DEF run_cell, CellEnds, _write_run_manifest_once, At
<1>7. CASE _append_status_records
  <2>1. queue # <<>> /\ queue' = Tail(queue) /\ UNCHANGED <<mem, pc>>
    BY <1>7 DEF _append_status_records
  <2>2. Len(Tail(queue)) < Len(queue)
    BY <1>1, <2>1
  <2>3. QED
    BY <2>1, <2>2
<1>8. CASE SessionDone
  <2>1. PICK halt \in BOOLEAN :
          \/ pc' = "halted"
          \/ mem' = Finished(mem, mem.current_index, result, halt) /\ pc' = "loop"
    BY <1>8 DEF SessionDone, Checkpoint, Exit
  <2>2. mem.current_index < S /\ mem.phase[mem.current_index] = "RUN_SESSION"
    BY <1>1, <1>8 DEF SessionDone, WalkInv, CellPlace, InCell
  <2>3. QED
    BY <1>1, <2>1, <2>2, CheckpointRaises DEF Exits
<1>9. QED
  BY <1>2, <1>3, <1>4, <1>5, <1>6, <1>7, <1>8 DEF RunStep

\* No step moves a running invocation anywhere else.
LEMMA AdvanceStep ==
    ASSUME StreamInv, [Next]_vars
    PROVE  [RunAdvances]_vars
<1> SUFFICES ASSUME Next, pc \notin Exits
             PROVE  (RunStep => Nearer) /\ (Nearer \/ UNCHANGED <<pc, mem, queue>>)
  BY DEF RunAdvances
<1>1. CASE RunStep
  BY <1>1, RunStepNearer
<1>2. CASE AppendFails \/ Killed
  BY <1>2, RunStepNearer DEF AppendFails, Killed, Exit, Exits, Nearer
<1>3. CASE StateLoads \/ StateWrites
  BY <1>3, RunStepNearer DEF StateLoads, StateWrites, cell
<1>4. CASE Boot
  BY <1>4 DEF Boot
<1>5. QED
  BY <1>1, <1>2, <1>3, <1>4 DEF Next

\* Each step of an invocation of `run' leaves it less to do, by an order that no schedule,
\* number of records, crash or `state' beside it makes longer without end: there are 3 * S
\* ranks, six places and one queue of records a session.  So no round is walked twice, and
\* an invocation can stay only where a step is not taken (RunEnds short of its fairness).
THEOREM RunsOnlyAdvance ==
    Spec => [](Rank(mem) \in 0 .. 3 * S) /\ [][RunAdvances]_vars
<1>1. StreamInv => Rank(mem) \in 0 .. 3 * S
  BY RankBounded, ScheduleAssumption DEF StreamInv, WalkInv, WellWalked
<1>2. StreamInv /\ [Next]_vars => [RunAdvances]_vars
  BY AdvanceStep
<1>3. QED
  BY <1>1, <1>2, StreamInvariant, PTL DEF Spec

(***************************************************************************)
(* The checkpoints of `run` only move forward, with a `state` beside it.   *)
(***************************************************************************)
\* A manifest without its session records has not begun, and neither has the one that
\* `run` is about to create or to prime.
Fresh ==
    /\ disk.made # "primed" => disk = Unstarted(disk.made)
    /\ pc \in {"creating", "created"} =>
         \E x \in {"absent", "bare", "primed"} : disk = Unstarted(x)
    /\ pc \in {"loop"} \cup InCell => mem.made = "primed"

\* Every step keeps that.
LEMMA FreshStep ==
    ASSUME WalkInv, Fresh, Next
    PROVE  Fresh'
<1> USE DEF Fresh, InCell
<1>a. disk \in Manifests /\ mem \in Manifests
  BY DEF WalkInv, WellWalked
<1>b. \A x \in {"absent", "bare", "primed"} : Unstarted(x).made = x
  BY DEF Unstarted
<1>c. /\ Advanced(mem).made = mem.made
      /\ SetPhase(mem, mem.current_index, "RUN_SESSION").made = mem.made
      /\ \A halt \in BOOLEAN : Finished(mem, mem.current_index, result, halt).made = mem.made
  BY <1>a DEF Advanced, SetPhase, Finished, Manifests
<1>1. CASE Boot
  <2>1. disk.made \in {"absent", "bare", "primed"} /\ disk' = disk
    BY <1>a, <1>1 DEF Boot, Manifests
  <2>2. \/ pc' = "refused"
        \/ mem' = disk /\ pc' = CASE disk.made = "absent" -> "creating"
                                  [] disk.made = "bare"   -> "created"
                                  [] disk.made = "primed" -> "loop"
    BY <1>1 DEF Boot, Exit
  <2>3. QED
    BY <2>1, <2>2
<1>2. CASE resume_or_create \/ Prime
  BY <1>b, <1>2 DEF resume_or_create, Prime, Checkpoint
<1>3. CASE _advance_to_next_session
  BY <1>c, <1>3 DEF _advance_to_next_session, At, Checkpoint
<1>4. CASE prepare_fixture
  BY <1>c, <1>4 DEF prepare_fixture, At, Checkpoint
<1>5. CASE run_cell \/ CellEnds \/ _write_run_manifest_once \/ _append_status_records
  BY <1>5 DEF run_cell, CellEnds, _write_run_manifest_once, _append_status_records, At
<1>6. CASE SessionDone
  BY <1>c, <1>6 DEF SessionDone, Checkpoint, Exit
<1>7. CASE Finish \/ ReportHalt \/ AppendFails \/ Killed
  BY <1>7 DEF Finish, ReportHalt, AppendFails, Killed, Exit
<1>8. CASE StateLoads
  BY <1>8 DEF StateLoads
<1>9. CASE StateWrites
  BY <1>b, <1>9 DEF StateWrites
<1>10. QED
  BY <1>1, <1>2, <1>3, <1>4, <1>5, <1>6, <1>7, <1>8, <1>9 DEF Next, RunStep

\* A manifest that has not begun has the lowest rank.
LEMMA UnstartedRank == \A x \in {"absent", "bare", "primed"} : Rank(Unstarted(x)) = 0
<1>1. \A x \in {"absent", "bare", "primed"} : Unstarted(x) \in Manifests
  BY UnstartedWalks DEF WellWalked
<1>2. 0 \in Sessions
  BY ScheduleAssumption DEF Sessions
<1>3. \A x \in {"absent", "bare", "primed"} :
        Unstarted(x).current_index = 0 /\ Unstarted(x).phase[0] = "PREPARE_FIXTURE"
  BY <1>2 DEF Unstarted
<1>4. QED
  BY <1>1, <1>3, RankOf, ScheduleAssumption

\* Memory is not behind the disk while `run` runs, whoever wrote last.
LEMMA MemoryAhead ==
    ASSUME WalkInv, Held, pc \notin Exits
    PROVE  Rank(mem) >= Rank(disk) /\ Rank(mem) \in Nat /\ Rank(disk) \in Nat
<1>1. Rank(mem) \in Nat /\ Rank(disk) \in Nat
  BY RankBounded DEF WalkInv, WellWalked
<1>2. QED
  BY <1>1, UnstartedRank DEF Held

\* A step of `run` that writes the manifest writes one of higher or equal rank.
LEMMA RankStep ==
    ASSUME StreamInv, Fresh, Next
    PROVE  Rank(disk') >= Rank(disk) \/ StateWrites
<1> DEFINE s == mem.current_index
<1>1. WalkInv /\ Held /\ disk \in Manifests /\ mem \in Manifests
  BY DEF StreamInv, WalkInv, WellWalked
<1>2. Rank(disk) \in Nat
  BY <1>1, RankBounded
<1>3. CASE UNCHANGED disk
  BY <1>2, <1>3
<1>4. CASE resume_or_create \/ Prime
  <2>1. Rank(disk) = 0
    BY <1>4, UnstartedRank DEF Fresh, resume_or_create, Prime
  <2>2. Rank(disk') = 0
    BY <1>4, UnstartedRank DEF resume_or_create, Prime, Checkpoint
  <2>3. QED
    BY <2>1, <2>2
<1>5. ASSUME NEW m, disk' = m, pc \notin Exits, m \in Manifests, Rank(m) > Rank(mem)
      PROVE  Rank(disk') >= Rank(disk)
  <2>1. Rank(m) \in Nat
    BY <1>5, RankBounded
  <2>2. QED
    BY <1>1, <1>5, <2>1, MemoryAhead
<1>6. CASE _advance_to_next_session
  <2>1. s < S /\ mem.phase[s] = "DONE" /\ disk' = Advanced(mem) /\ pc \notin Exits
    BY <1>6 DEF _advance_to_next_session, At, Checkpoint, Exits
  <2>2. Advanced(mem) \in Manifests
    BY <1>1, <2>1, AdvancedWalks DEF WalkInv, WellWalked
  <2>3. QED
    BY <1>1, <1>5, <2>1, <2>2, CheckpointRaises
<1>7. CASE prepare_fixture
  <2>1. /\ s < S /\ mem.phase[s] = "PREPARE_FIXTURE" /\ pc \notin Exits
        /\ disk' = SetPhase(mem, s, "RUN_SESSION")
    BY <1>7 DEF prepare_fixture, At, Checkpoint, Exits
  <2>2. SetPhase(mem, s, "RUN_SESSION") \in Manifests
    BY <1>1, <2>1, PreparedWalks DEF WalkInv, WellWalked
  <2>3. QED
    BY <1>1, <1>5, <2>1, <2>2, CheckpointRaises
<1>8. CASE SessionDone
  <2>1. PICK halt \in BOOLEAN : disk' = Finished(mem, s, result, halt)
    BY <1>8 DEF SessionDone, Checkpoint
  <2>2. s < S /\ mem.phase[s] = "RUN_SESSION" /\ pc \notin Exits
    BY <1>1, <1>8 DEF SessionDone, Exits, WalkInv, CellPlace, InCell
  <2>3. Finished(mem, s, result, halt) \in Manifests
    BY <1>1, <2>2, FinishedWalks DEF WalkInv, WellWalked
  <2>4. QED
    BY <1>1, <1>5, <2>1, <2>2, <2>3, CheckpointRaises
<1>9. CASE Boot \/ Finish \/ ReportHalt \/ AppendFails \/ Killed \/ StateLoads
  BY <1>3, <1>9 DEF Boot, Finish, ReportHalt, AppendFails, Killed, StateLoads
<1>10. CASE run_cell \/ CellEnds \/ _write_run_manifest_once \/ _append_status_records
  BY <1>3, <1>10 DEF run_cell, CellEnds, _write_run_manifest_once, _append_status_records
<1>11. QED
  BY <1>4, <1>6, <1>7, <1>8, <1>9, <1>10 DEF Next, RunStep

\* No checkpoint of `run` ever takes the campaign back, whenever and however often it is
\* killed, however many `state` commands are called beside it and whatever they write
\* over its manifest: only their writes can.
THEOREM CheckpointsOnlyAdvance == Spec => CheckpointsAdvance
<1>1. Init => Fresh
  BY DEF Init, Fresh, InCell, Unstarted
<1>2. StreamInv /\ Fresh /\ [Next]_vars => Fresh'
  <2> SUFFICES ASSUME StreamInv, Fresh, [Next]_vars PROVE Fresh'
    OBVIOUS
  <2>1. CASE Next
    BY <2>1, FreshStep DEF StreamInv
  <2>2. CASE UNCHANGED vars
    BY <2>2 DEF vars, Fresh
  <2>3. QED
    BY <2>1, <2>2
<1>3. StreamInv /\ Fresh /\ [Next]_vars => [Rank(disk') >= Rank(disk) \/ StateWrites]_vars
  BY RankStep
<1>4. QED
  BY <1>1, <1>2, <1>3, StreamInvariant, PTL DEF Spec, CheckpointsAdvance

=============================================================================
