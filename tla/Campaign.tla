------------------------------ MODULE Campaign ------------------------------
(***************************************************************************)
(* A cumulative campaign: run_cumulative.py walks the scheduled sessions   *)
(* with a CumulativeSequencer, checkpointing the mutable manifest after    *)
(* every phase, while each cell publishes its result to the write-once run *)
(* manifest and to the append-only status stream.                          *)
(*                                                                         *)
(* A step is what happens between two points where the process can be      *)
(* killed and a restart would find something else on disk.  `run` may be   *)
(* started again after any exit; `state` is a second process that builds   *)
(* the same sequencer on the same manifest, at any time.                   *)
(***************************************************************************)
EXTENDS RunArtifacts, FiniteSets

CONSTANTS
    CellResults,   \* the results a cell may end with
    MaxAttempts,   \* attempts of a cell, each with its attempt record
    MaxTurns,      \* bound: anomalous turns of a cell, each with its turn record
    GateFails,     \* the sessions whose runner may report a failed stopping walk gate
    MaxBoots,      \* bound: invocations of `run`
    MaxReads,      \* bound: invocations of `state`
    MaxTears,      \* bound: appends that fail, cut short
    MayLoseRunManifest  \* may the write of the run manifest fail?

ASSUME CampaignAssumption ==
    /\ CellResults \subseteq Results
    /\ MaxAttempts \in Nat \ {0}
    /\ MaxTurns \in Nat
    /\ GateFails \subseteq Sessions
    /\ MaxBoots \in Nat
    /\ MaxReads \in Nat
    /\ MaxTears \in Nat
    /\ MayLoseRunManifest \in BOOLEAN

VARIABLES
    disk,         \* the mutable manifest on disk
    mem,          \* the manifest of the running process
    pc,           \* where `run` is
    result,       \* the result of the cell in hand
    queue,        \* the status records of the cell in hand still to be appended
    stream,       \* the status stream
    runManifest,  \* does the run manifest exist?
    standings,    \* the standings `run` last printed
    reader,       \* where `state` is
    started,      \* history: how often each cell was started
    kills,        \* history: how often `run` was killed
    boots, reads, tears   \* counters for the bounds

vars == <<disk, mem, pc, result, queue, stream, runManifest, standings, reader,
          started, kills, boots, reads, tears>>

(***************************************************************************)
(* The mutable manifest.                                                   *)
(***************************************************************************)
Phases == {"PREPARE_FIXTURE", "RUN_SESSION", "DONE", "HALTED_ON_GATE"}

\* resume_or_create writes a manifest without session records; the sequencer's
\* constructor fills them in with a second write.
Manifests ==
    [made : {"absent", "bare", "primed"}, current_index : 0 .. S,
     phase : [Sessions -> Phases], progress : [Sessions -> SUBSET Results]]

Unstarted(made) ==
    [made |-> made, current_index |-> 0,
     phase |-> [s \in Sessions |-> "PREPARE_FIXTURE"],
     progress |-> [s \in Sessions |-> {}]]

SetPhase(m, s, p) == [m EXCEPT !.phase = [@ EXCEPT ![s] = p]]

\* Faulty variants of Finished: the checkpoint keeps the phase, or sends a cell
\* that is not green back to its fixture.
FinishedInPlace(m, s, r, halt) == [m EXCEPT !.progress = [@ EXCEPT ![s] = {r}]]

FinishedIfGreen(m, s, r, halt) ==
    [m EXCEPT !.progress = [@ EXCEPT ![s] = {r}],
              !.phase = [@ EXCEPT ![s] = IF r.green THEN "DONE" ELSE "PREPARE_FIXTURE"]]

\* The session's telemetry, and the phase it ends in.
Finished(m, s, r, halt) ==
    [m EXCEPT !.progress = [@ EXCEPT ![s] = {r}],
              !.phase = [@ EXCEPT ![s] = IF halt THEN "HALTED_ON_GATE" ELSE "DONE"]]

\* Faulty variant of Advanced: a session is skipped.
AdvancedByTwo(m) ==
    [m EXCEPT !.current_index = IF @ + 2 < S THEN @ + 2 ELSE S]

\* _advance_to_next_session primes the next session as well.
Advanced(m) ==
    LET next == m.current_index + 1
    IN  [m EXCEPT !.current_index = next,
                  !.phase = [s \in Sessions |-> IF s = next THEN "PREPARE_FIXTURE" ELSE @[s]]]

\* atomic_write of the manifest in memory.  A write that fails ends the process,
\* like a kill just before it.
Checkpoint(m) == mem' = m /\ disk' = m

(***************************************************************************)
(* `run`: building the sequencer.                                          *)
(***************************************************************************)
Exits == {"down", "done", "halted", "refused"}

PCs == Exits \cup {"creating", "created", "loop", "cell", "ran", "appending"}

artifacts == <<stream, runManifest>>
cell == <<result, queue, started>>
others == <<standings, reader, kills, reads, tears>>

\* The process ends as p, and its memory with it.
NoResult == [green |-> FALSE, truncated |-> FALSE]

Exit(p) ==
    /\ pc' = p
    /\ mem' = Unstarted("absent")
    /\ result' = NoResult
    /\ queue' = <<>>

\* The manifest is looked up and loaded; with no session left, `run` raises.
Boot ==
    /\ pc \in Exits
    /\ boots < MaxBoots
    /\ boots' = boots + 1
    /\ \/ /\ disk.current_index = S
          /\ Exit("refused")
       \/ /\ disk.current_index < S
          /\ pc' = CASE disk.made = "absent" -> "creating"
                     [] disk.made = "bare"   -> "created"
                     [] disk.made = "primed" -> "loop"
          /\ mem' = disk
          /\ UNCHANGED <<result, queue>>
    /\ UNCHANGED <<disk, artifacts, started, others>>

resume_or_create ==
    /\ pc = "creating"
    /\ Checkpoint(Unstarted("bare"))
    /\ pc' = "created"
    /\ UNCHANGED <<artifacts, cell, others, boots>>

Prime ==
    /\ pc = "created"
    /\ Checkpoint(Unstarted("primed"))
    /\ pc' = "loop"
    /\ UNCHANGED <<artifacts, cell, others, boots>>

(***************************************************************************)
(* `run`: one round of step_until_done.                                    *)
(***************************************************************************)
At(phase) ==
    /\ pc = "loop"
    /\ mem.current_index < S
    /\ mem.phase[mem.current_index] = phase

\* The last session is behind: print the standings, from the two published
\* artifacts or, when the run manifest is missing, from the mutable manifest.
Finish ==
    /\ pc = "loop" /\ mem.current_index = S
    /\ standings' = IF runManifest THEN build_scorecard(stream)
                    ELSE FallbackStandings(mem.progress)
    /\ Exit("done")
    /\ UNCHANGED <<disk, artifacts, started, reader, kills, boots, reads, tears>>

\* Faulty variant of ReportHalt: the walk polls the halted session for ever.
PollHalt == At("HALTED_ON_GATE") /\ UNCHANGED vars

ReportHalt ==
    /\ At("HALTED_ON_GATE")
    /\ Exit("halted")
    /\ UNCHANGED <<disk, artifacts, started, others, boots>>

_advance_to_next_session ==
    /\ At("DONE")
    /\ Checkpoint(Advanced(mem))
    /\ UNCHANGED <<pc, artifacts, cell, others, boots>>

prepare_fixture ==
    /\ At("PREPARE_FIXTURE")
    /\ Checkpoint(SetPhase(mem, mem.current_index, "RUN_SESSION"))
    /\ UNCHANGED <<pc, artifacts, cell, others, boots>>

\* Faulty variant of run_cell: a completed session is not told from a crashed one.
run_cell_again ==
    /\ At("RUN_SESSION") \/ At("DONE")
    /\ started' = [started EXCEPT ![mem.current_index] = @ + 1]
    /\ pc' = "cell"
    /\ UNCHANGED <<disk, mem, artifacts, result, queue, others, boots>>

\* run_session starts the cell; run_cell seeds a fresh worktree every time.
run_cell ==
    /\ At("RUN_SESSION")
    /\ started' = [started EXCEPT ![mem.current_index] = @ + 1]
    /\ pc' = "cell"
    /\ UNCHANGED <<disk, mem, artifacts, result, queue, others, boots>>

\* The records of a result: one per attempt, then one per anomalous turn.
StatusRecords(s, r, attempts, turns) ==
    [i \in 1 .. attempts + turns |->
        [type |-> IF i <= attempts THEN "attempt" ELSE "turn", session |-> s, result |-> r]]

CellEnds ==
    /\ pc = "cell"
    /\ \E r \in CellResults, attempts \in 1 .. MaxAttempts, turns \in 0 .. MaxTurns :
         /\ result' = r
         /\ queue' = StatusRecords(mem.current_index, r, attempts, turns)
    /\ pc' = "ran"
    /\ UNCHANGED <<disk, mem, artifacts, started, others, boots>>

\* The first session writes the run manifest; a failure is logged and the next
\* session tries again.
_write_run_manifest_once ==
    /\ pc = "ran"
    /\ runManifest' = TRUE \/ (MayLoseRunManifest /\ UNCHANGED runManifest)
    /\ pc' = "appending"
    /\ UNCHANGED <<disk, mem, stream, cell, others, boots>>

_append_status_records ==
    /\ pc = "appending" /\ queue # <<>>
    /\ stream' = append(stream, Head(queue))
    /\ queue' = Tail(queue)
    /\ UNCHANGED <<disk, mem, pc, runManifest, result, started, others, boots>>

\* An append that raises: nothing between it and main() catches the exception.
AppendFails ==
    /\ pc = "appending" /\ queue # <<>>
    /\ tears < MaxTears
    /\ tears' = tears + 1
    /\ stream' \in TornAppends(stream, Head(queue))
    /\ Exit("down")
    /\ UNCHANGED <<disk, runManifest, started, standings, reader, kills, boots, reads>>

\* run_session returned: telemetry, walk gate, phase, checkpoint.
SessionDone ==
    /\ pc = "appending" /\ queue = <<>>
    /\ \E halt \in BOOLEAN :
         LET m == Finished(mem, mem.current_index, result, halt)
         IN  \/ /\ halt /\ mem.current_index \in GateFails
                /\ disk' = m
                /\ Exit("halted")
             \/ /\ ~halt
                /\ Checkpoint(m)
                /\ pc' = "loop"
                /\ result' = NoResult
                /\ UNCHANGED queue
    /\ UNCHANGED <<artifacts, started, others, boots>>

\* SIGKILL, a host failure, or an exception of a cell or a checkpoint.
Killed ==
    /\ pc \notin Exits
    /\ Exit("down")
    /\ kills' = kills + 1
    /\ UNCHANGED <<disk, artifacts, started, standings, reader, boots, reads, tears>>

(***************************************************************************)
(* `state`: builds a sequencer of its own to print a summary.              *)
(***************************************************************************)
StateLoads ==
    /\ reader = "idle"
    /\ reads < MaxReads
    /\ reads' = reads + 1
    /\ reader' = CASE disk.made = "absent" -> "creating"
                   [] disk.made = "bare"   -> "created"
                   [] OTHER                -> "idle"
    /\ UNCHANGED <<disk, mem, pc, artifacts, cell, standings, kills, boots, tears>>

StateWrites ==
    /\ \/ reader = "creating" /\ disk' = Unstarted("bare") /\ reader' = "created"
       \/ reader = "created" /\ disk' = Unstarted("primed") /\ reader' = "idle"
    /\ UNCHANGED <<mem, pc, artifacts, cell, standings, kills, boots, reads, tears>>

(***************************************************************************)
(* The campaign.                                                           *)
(***************************************************************************)
Init ==
    /\ disk = Unstarted("absent")
    /\ mem = Unstarted("absent")
    /\ pc = "down"
    /\ result = NoResult
    /\ queue = <<>>
    /\ stream = EmptyStream
    /\ runManifest = FALSE
    /\ standings = [s \in Sessions |-> {}]
    /\ reader = "idle"
    /\ started = [s \in Sessions |-> 0]
    /\ kills = 0 /\ boots = 0 /\ reads = 0 /\ tears = 0

RunStep ==
    \/ resume_or_create \/ Prime \/ Finish \/ ReportHalt
    \/ _advance_to_next_session \/ prepare_fixture \/ run_cell \/ CellEnds
    \/ _write_run_manifest_once \/ _append_status_records \/ SessionDone

Next == Boot \/ RunStep \/ AppendFails \/ Killed \/ StateLoads \/ StateWrites

Spec == Init /\ [][Next]_vars

\* A running `run` keeps going: nothing in the walk waits for anybody.  That a cell
\* ends is assumed: its runs and gates have timeouts, but a worker that never uses a
\* tool is resumed without bound, and an operator may hold the cell for review.
\* Nobody is obliged to start `run` again.
FairSpec == Spec /\ WF_vars(RunStep)

(***************************************************************************)
(* Properties.                                                             *)
(***************************************************************************)
\* A walk in schedule order: everything before current_index is DONE with its
\* progress, everything after it untouched.
Walk(m) ==
    \A s \in Sessions :
        /\ s < m.current_index => m.phase[s] = "DONE" /\ m.progress[s] # {}
        /\ s > m.current_index => m.phase[s] = "PREPARE_FIXTURE" /\ m.progress[s] = {}
        /\ m.phase[s] = "DONE" => m.progress[s] # {}

\* Whichever process wrote the manifest on disk last and whenever `run` dies, what
\* a resume finds there is a walk in schedule order.
ScheduleOrder == Walk(disk)

\* The two records of a session agree: the scorecard's result for a completed
\* session, read from the status stream, is the one in the mutable manifest,
\* however often the cell had to be run again.
StreamAgrees ==
    \A s \in Sessions : disk.phase[s] = "DONE" => best_by_cell(stream, s) = disk.progress[s]

\* A session whose DONE checkpoint is on disk is never run again.
NoRerun ==
    [][\A s \in Sessions : disk.phase[s] = "DONE" => started'[s] = started[s]]_vars

\* A cell is paid for a second time only because `run` was killed.
RerunOnlyAfterKill == \A s \in Sessions : started[s] <= 1 + kills

\* How far a manifest has come: three checkpoints a session.
Rank(m) ==
    3 * m.current_index +
      (IF m.current_index = S THEN 0
       ELSE CASE m.phase[m.current_index] = "PREPARE_FIXTURE" -> 0
              [] m.phase[m.current_index] = "RUN_SESSION" -> 1
              [] OTHER -> 2)

\* The checkpoints (_checkpoint) of `run` only move forward: however often it is killed,
\* whatever it resumed from and whatever `state` wrote meanwhile, no write of its own
\* takes the campaign back.  `state` is the exception, and the only one: it builds a
\* sequencer too, and if it looked before there was a primed manifest it writes a new
\* one, over whatever `run` has checkpointed since.
CheckpointsAdvance == [][Rank(disk') >= Rank(disk) \/ StateWrites]_vars

\* The completed sessions whose result the stream has lost or holds wrongly.
Misrecorded ==
    {s \in Sessions : disk.phase[s] = "DONE" /\ best_by_cell(stream, s) # disk.progress[s]}

\* A torn append costs the record of at most one session (StatusStream.append).
TearsCostOneSession == Cardinality(Misrecorded) <= tears

\* The standings count every completed session by its result, unless a torn append has
\* cost it its record; without the run manifest, when they are built from the mutable
\* manifest, void sessions count as failed, but still a session stands as passed exactly
\* when it passed.
StandingsComplete ==
    pc = "done" =>
        \A s \in Sessions \ Misrecorded : disk.phase[s] = "DONE" =>
            /\ runManifest => standings[s] = {Outcome(r) : r \in disk.progress[s]}
            /\ ("scored_pass" \in standings[s]) = (\E r \in disk.progress[s] : r.green)

\* An invocation of `run` that is left alone ends with the standings or a halt.
RunEnds == pc \notin Exits ~> pc \in Exits

\* The campaign as its reader sees it: a result is on the book once the session
\* is DONE, and it is the scorecard's.
Book == INSTANCE ScoreBook WITH
    book <- [s \in Sessions |-> IF disk.phase[s] = "DONE" THEN best_by_cell(stream, s) ELSE {}]

\* The campaign keeps the promises of a score book.
KeepsBook == Book!BookSpec
=============================================================================
