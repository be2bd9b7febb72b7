# wevibe-bench: TLA+ models, model checking and proofs

wevibe-bench measures what shared memory is worth to a coding agent. It runs a
model on a fixed task (a backgammon game with gates) in pairs of cells, memory
OFF and memory ON, meters every request through a budget proxy, and publishes
the results. This directory models the parts of it whose correctness depends on
the order in which things happen: the money, the records, the drives of the
worker, its container and processes, and the processes that launch all that.

## 1. Inventory

Paths are relative to the repository.

| part | state it keeps | operations | talks to |
|---|---|---|---|
| budget proxy: `wevibe_bench/adapters/openrouter_proxy.py`, `openrouter_proxy_server.py` | `BudgetLedger` (actual, derived, unproven, outstanding holds) in memory and in a checkpoint file; identity trip switch and proven-billed prefix bound, in memory only | one thread per POST: check, price, reserve, forward, relay, settle or retain; restart on the checkpoint | the worker's HTTP requests, the OpenRouter upstream, the cell runner (reads the checkpoint) |
| cumulative sequencer: `wevibe_bench/cumulative/{sequencer,manifest,types}.py` | mutable manifest: `current_index`, a phase and a progress vector per session | create, prime, prepare, run session, gate, advance, resume | manifest file, `run_session` |
| run artifacts: `wevibe_bench/cumulative/{run_artifacts,convergence}.py` | write-once run manifest; append-only status stream | write once, append, read back, scorecard, fallback trend | status file, dashboard |
| command line: `scripts/run_cumulative.py` | none of its own | `run`, `state` and one-shot commands; `run_session` with its publication of records | sequencer, cell runner, artifacts |
| cell runner: `wevibe_bench/adapters/backgammon.py` | attempt counter, costs, session id, verdict, reports | first run, gate, feedback, boundary compaction, verdict | worker container, gates, proxy checkpoint |
| serve drive: same file and `serve_client.py` | agent session, readings of its transcript, watermarks, sums | send, wait busy, wait idle, read, classify, nudge, scan for markers, compact | agent server over HTTP |
| stdout drive: same file | a dictionary two reader threads and a polling loop share; anomaly records | read events, poll, kill at a limit, join, resume | `docker exec opencode run` |
| docker worker: `adapters/docker_worker.py` | a container and a volume per cell, one network, one host port | preflight, remove stale, create, run, exec, kill, stop, export, remove | docker |
| process reaper: `process_reaper.py` | none; reads the process table | list, kill group, reap orphans, sweep containers, assert ports | `ps`, docker |
| UI review hold: `_hold_for_ui_review` | state file, release file, a server on a port | boot, probe, publish, wait, stop, unlink | operator, the game's server |
| ladder and single-run driver: `scripts/backgammon_ladder.py`, `run_backgammon.py` | ladder checkpoint, checkpoint and scorecard per label, logs, escalation files | launch, resume, retry, escalate, clean up; run modes, save, score, print the result | operator, each other |
| control plane: `control/*.mjs` | run state, hold flag, event buffers | start, stop, hold, release, recover | `run_cumulative.py` as a child process |
| dashboard, statistics, stack ledger, calibration, signer scaffold, task and gates | read-only views, or inputs of the system | | |

What is hard here: handlers of concurrent requests share one ledger; every
ledger method ends with a file write that may fail after the fields in memory
have changed; the proxy and `run` are killed and resumed at arbitrary points;
`state` builds the same sequencer as `run`; the stream is continued by a later
process after a torn line; prices are bounds on what a provider, which is out of
control, will bill. `PROJECT.json` lists each hazard at its line.

What makes each part correct:

- proxy: the cap is a ceiling on the money accounted for; nothing that was or
  may have been spent is forgotten, in memory or on disk; what is held is given
  back; a foreign model stops the run;
- campaign: the checkpoints of `run` only advance, in schedule order; a completed session is
  not paid for twice; stream, manifest and standings tell the same story; every
  undisturbed run ends;
- cell runner: the verdict and the termination reason are those of what
  happened; costs add up; an attempt is only started within budget;
- drives: what was burned is metered or known to be lost, turns the relay killed
  do not count, nothing the worker said is lost, the worktree is gated when the worker
  is done with it, waits end;
- worker and reaper: a cell sees no transcript but its own, a transcript is copied
  out before it is dropped, nothing stays behind but what could not be removed;
- ladder: what is called ok has an honest scorecard, finished cells are kept,
  retries end;
- hold: the link is the cell's own, no stale release, a touch is honoured;
- control plane: one run at a time; a hold is released or times out.

## 2. Modules

| module | models | built on |
|---|---|---|
| `Totals` | sum of a table of amounts | |
| `ProxyPricing` | `worst_case_usd`, `derived_cost_usd`, what the stream branch passes on | |
| `ProxyStart` | what `main` of the proxy asks before it serves: arguments, profile, credential, binding, price listing | `ProxyPricing` |
| `ProxyLedger` | `BudgetLedger`, `_handle_post`, restart | `ProxyStart`, `Totals` |
| `RunArtifacts` | status stream with torn lines, `best_by_cell`, `build_scorecard`, fallback trend | |
| `ScoreBook` | abstract: sessions close once, in order, for good | `RunArtifacts` |
| `Campaign` | `run` and `state` over manifest and artifacts | `RunArtifacts`, `ScoreBook` |
| `CellRun` | the attempt loop of `_run_cell_impl`, the budget decision, what the scorecard makes of the result | `Totals`, `RunArtifacts` |
| `ServeDrive` | `_run_opencode_serve`, its chunked form, the two compactions, `serve_client` | |
| `StdoutDrive` | `_run_opencode`, its threads and limits, the zero-tool resumes | |
| `Reaper` | the process side of `ProcessReaper`, on a table of parents | |
| `WorkerCell` | `DockerCell`, the host processes of a cell, the reaper at the end of `main` | `Reaper` |
| `Ladder` | `backgammon_ladder.py` over `run_backgammon.py`, with preflight, meter and scorecard as they decide there | |
| `UiHold` | `_hold_for_ui_review` | |
| `TotalsProofs`, `ProxyProofs` (prices and ledger), `CampaignProofs`, `CellProofs` (with `UiHold`), `ServeProofs`, `StdoutProofs`, `WorkerProofs`, `LadderProofs` | theorems | the module named, TLAPS |
| `MCProxyLedger`, `MCCampaign`, `MCCellRun`, `MCServeDrive`, `MCStdoutDrive`, `MCWorkerCell`, `MCLadder` | instances for TLC | |

Definitions that begin with "Faulty variant" are plausible slips of the code
they stand beside; none is used by a specification. Replacing the operator they
shadow makes the property they are paired with fail.

### The proxy

A step of a handler is what it does between two points where another thread can
get in. Each ledger method runs under the ledger's lock, so it is one step, with
its write of the checkpoint: `Persist` (memory and disk agree) or `PersistFails`
(memory has changed, disk has not, the exception takes the handler to the place
the code's `except` clauses send it to). `Restart` loses the threads, the trip
switch and the prefix bound, and reloads the ledger. Amounts are naturals, in
thousandths of a price unit, so that the padding factor 1.166 is exact; the
code's floats are not modelled. The upstream is external: it bills a usage from
a set, within the bounds of the request, and shows the handler a cost, a usage
or nothing. What a stream has shown when it ends may fall short of the bill
(`Figures`, with `PartialUsage`): the handler settles on the last figures it saw.
The key of a hold is the request's trace id, which the client chooses
(`X-WeVibe-Trace-Id`), not the request.

The proxy starts in a mode of `Modes`, and restarts in one: the flags of a command
line that is not refused with the keys and the price listing of that moment
(`ProxyStart`). The run's id, profile and hard cap are constants, since the
checkpoint binds a run to them; command lines (`Launches`), contents of `auth.json`
(`KeyRings`) and listings (`Listings`) are sets of the configuration, with launches
that would break the budget and have to be refused. A listing is whether it could be
had, whether its version is the pinned one, its discounts neutral, its anchor model
in order, and the rows of the run's model, with ratios in thousandths. `charged` says
that the upstream charges what was authorized: OrcaRouter charges what it lists, and
of the other upstreams, which have no listing, the operator has checked the prices.

### The campaign

A step is what happens between two points where a kill would leave something
else on disk. The manifest is a record with its index, phases and progress; a
checkpoint is atomic (temporary file and rename). The status stream is its
lines and the state of its last one: a torn append leaves a fragment, or an
object without its newline, and the next append continues that line. A failing
append passes through `run_session` and ends `run`; a failing write of the run
manifest is only logged. `state` looks, then creates and primes the manifest if
it saw none. A cell is one start and one end with any result, since a resumed
cell starts from a fresh worktree.

### The cell

A step is a run of the worker, a gating of its worktree, a decision after it, or
the cheat scan at the end. The order of the decisions in the review of a report
is the code's: green, ceiling, dead worker, mock, no session, budget, resume
budget. A run of the worker ends in one of six ways (`Ends`), those the code
tells apart; the serve drive and the stdout path with its resumes are behind that
step. The harness meters a run at some cost and the proxy commits at least as
much, or more (`Overhead`): when the serve drive raises, the run is made again on
stdout and what the first try cost is not metered. `remaining` is what the
checkpoint says, without the holds in flight. `Init` chooses how the cell is run
(`setup`: mock or not, with a checkpoint, without one, or without one though a
cost limit is set). A killed gate runner leaves `final_report` as it was, which
is why it is a variable of its own next to the list of reports. The branch for a
worker killed for any other reason than a limit of the harness
(`backgammon.py:1831`) has no counterpart: no such reason is ever assigned.

A label the first run leaves (`BUDGET_STOP`, `zero_tool_turn_honest_fail`,
`harness_error`) is not terminal: the gates run all the same, and what they lead
to overwrites it. So a cell stopped by a 402 in its first run can end as FAIL
(no session, gates killed, one attempt only); `BudgetStopIsReal` states the
direction that holds.

### The serve drive

The serve is external: it accepts a prompt at once and takes it up later, and
until then its session does not show as busy. A transcript only grows, so a
reading of it is its length; what the code computes from a reading is a function
of that. A message is its kind, whether it reports output tokens (`burns`, counted as
one) and how many input tokens: the code sums the first up and takes the maximum of
the second (`OutputTokens`, `InputGrew`), and asks both, with the turns, whether a
phase produced anything. One phase is baseline, window, send, wait busy, wait idle, meter,
classify; a turn the relay killed leads back to send with the window moved. A
read fails when it still fails after its retries; it is then treated as the code
does at that place (no baseline, window at 0, observation lost, an exception).
The phases are chained by the chunks, each left only on its marker, and by rounds
of feedback, with a compaction between them. `MeteredIsBurned` is about output
tokens, the figure that is a sum; the history variables `landed`, `inPhases` and
`forgone` follow what the serve wrote, phase by phase, and what of it a phase that
broke off has given up. What is written after the last reading of a phase and before
the next baseline belongs to no phase and is metered by none.

### The stdout drive

Four parties: the worker in the container behind its `docker exec`, a thread that
reads its events, one that reads its stderr, and the loop that polls every two
seconds and kills at a limit. Each section under the lock is one step. The
worker's process and the client in front of it are two variables, because the
limits kill both and the completion grace only the client. The kill inside the
container is a hook whose failure is only logged (`RunKillHook`); then the worker may
live on, which `spared` remembers until the invocation after it. A step may go on
after an error, use tools and finish: the reader has forgotten then what tools it used
before.

### The worker and the reaper

Every call to docker is a step that works or fails (`Faulty`, `MaxFaults`), and
every failure goes where the code sends it: out of the cell, to the teardown, or
nowhere. The port is held by a container that runs. A transcript is the set of
rows of the attempt that runs and of attempts before it. `Interrupt` is an
exception from anywhere in the cell, `Crash` a kill of `run`, after which the
operator launches it again. On the host a cell has a `docker exec` client, or a
gate runner with its workers; `Reaper` is what `ProcessReaper` makes of the
table of processes, and knows only the rows `ps` shows (`Seen`).

### The ladder

Logs are told apart by launch and attempt; in the code their names have the second
they were opened in (`backgammon_ladder.py:433`), so two launches of one unit within a
second would share one. One ladder at a time, its child, and possibly the child of a
ladder that died:
such an orphan runs on until it prints, since its pipe is broken, and may still
write its files. The command lines are constants. Checkpoint, scorecard and
escalation files are keyed as in the code: by label, or by unit. What a scorecard is
held against (`OkIsScored`, `CardHonest`) is label, model and modes, not whether the
cell was run with `--mock`.

### The hold

The hold, the game's server and the operator run side by side, hold after hold in
one directory. The release file remembers only whether it was touched before or
after the hold cleared it: a touch that was meant for an earlier hold and comes late
counts as this one's. A stray listener is there before the hold frees the port or not
at all; one that binds the port between that and the boot of the server is not
modelled.

## 3. Runs

| run | bounds | shows |
|---|---|---|
| `ProxySafety` | 3 requests, 1 failed write, 1 restart, a cap two reservations nearly fill; 8 command lines, 3 key rings, 5 listings | cap, durable holds, no unaccounted spend, reservations are upper bounds |
| `ProxyLive` | 2 requests on the free upstream, enforced, watched or not authorized, 2 failed writes, cache misses, streams that break off, no restart | what is held in memory is given back, identity refusal |
| `CampaignWalk` | 2 sessions, 3 starts of `run`, all outcomes, turn records, a gate that may halt | stream and manifest agree, reruns only after kills, refinement of `ScoreBook` |
| `CampaignFaults` | the same with 1 torn append, 1 `state`, a run manifest that may fail | schedule order, only `state` takes a checkpoint back, one tear costs one session, the standings from both sources, `run` ends |
| `CellAttempts` | 3 attempts, 2 gates, costs 0 and 1, budget 2, every setup | the gates decide, the books add up, budget stops are real, feedback only to a living worker |
| `ServeChunks` | 2 chunks, 1 feedback round, 3 messages, 1 kill, 1 stall, 1 fault | metering, killed turns, quiet worktree, the drive returns |
| `StdoutEvents` | 5 events, 2 invocations, limits of 1 step and 0 tokens | nothing unheard, silence is chosen, worker gone, no turn invisible, the run returns |
| `WorkerCells` | 2 cells, 2 failing calls, 2 interrupts or kills, matching and default `--task` | own transcript, nothing left behind, host reaped, transcript kept, completion |
| `LadderRuns` | 7 command lines, 2 models, 2 labels, 2 launches, 2 retries, 2 faults | ok is scored, honest cards, escalation evidence, cells kept, the ladder ends |
| `UiReview` | 3 holds, 3 touches, 3 faults | own link, no stale release, touches are honoured |
| `CellCheat` | 2 attempts | violation: a CHEAT cell is scored as passed |
| `WorkerSweep` | 1 failed `docker rm`, default `--task` | violation: the reaper's sweep does not match the leaked container |

The cause of `CellCheat`: the scorecard decides by `full_green`, which is the
`conformed` flag of the last gate report (its conformance stage), and by
truncation fields; it asks neither for the verdict nor for the termination reason.

### Disagreements without a run

The models have these behaviours; no run is spent on them.

- Scorecard. For the same reason a non-green BUDGET_STOP cell is scored as a
  failure (`PREREG-R2-2026-07-25.md:126`: "NEVER a capability FAIL"), and so is one
  whose gate runner was killed (`backgammon.py:1738`: "That is not the model
  failing"). Without the run manifest the standings come from the mutable manifest,
  which has no void class (`RUNBOOK.md:476`).
- Proxy. Two requests with one `X-WeVibe-Trace-Id` share a hold
  (`openrouter_proxy.py:840`), and the second overwrites the first; the properties
  are checked for distinct ids. When the checkpoint write of a reservation fails, the
  hold has been booked and the handler does not know of it (`openrouter_proxy.py:840`,
  `openrouter_proxy_server.py:921`): it stays in memory until the proxy is restarted,
  and `HoldsDrain` names it (`Stranded`). A stream that breaks off is settled on the
  figures it had shown, which may be less than the bill; the properties about the
  spend are checked for streams that show all of it (`PartialUsage = FALSE`).
  The stream branch settles with
  `cache_write_tokens=0` (`openrouter_proxy_server.py:868`), too low when writing to
  the cache is dearer than plain input; `ProxyLive` has the two rates equal.
- Campaign. The record after a torn line is glued to the fragment and lost with it
  (`run_artifacts.py:246`; `TearsCostOneSession` says how much that costs). A
  `state` that looked before the manifest existed overwrites the progress of the
  run that created it meanwhile (`run_cumulative.py:1228`), although it is called
  read-only (1476); `CheckpointsAdvance` says that nothing else does. A failing append raises
  out of `_append_status_records`, documented never to abort the run
  (`run_cumulative.py:735`): `RerunOnlyAfterKill` is checked and proved without
  failing appends.
- Serve drive. `_fire_backstop_summarize` reads the session's model and looks for
  the summary without a guard, though a compaction failure "must never kill a cell"
  (`backgammon.py:3853`); a fault there leaves the chunked drive with what it metered
  discarded. A nudge that cannot be sent, or is not seen busy when the transcript cannot
  be read either, ends its phase at zero tokens though the killed turn burned some, against "its tokens stay metered"
  (`backgammon.py:3136`) and "every burned token stays on the token counters" (3505); a
  phase whose transcript can no longer be read does so too, and says it
  (`tokens_unmetered`). `MeteredIsBurned` counts both as given up. The input tokens of
  a session are the largest message's, so the sum of the phases' deltas is a peak and
  no burn. Nudge turns of the marker scan count as turns (`backgammon.py:3641`)
  although they "are excluded from scoring turns" (74).
- Stdout drive. A step open at the end is recorded only if its start carried a
  timestamp (`backgammon.py:4435`), against "a burned turn must never be invisible"
  (4427); `NoTurnInvisible` is checked with timestamps (`Stamps = {TRUE}`). The kill
  after the completion grace leaves the worker in the container running. An error event
  resets the count of tools (`backgammon.py:4100`), so a step that used some before it
  and finishes after it reads as one without a tool, and is nudged; `SilenceIsChosen`
  excepts it.
- Worker. A stale volume that could not be removed is taken over, transcript and
  all (`docker_worker.py:509`), which `OwnTranscript` excepts. A client whose exec was
  killed after its grace may write while the transcript is copied, although
  "opencode is dead before this copy" (`docker_worker.py:583`). A leaked container
  keeps the one port, and no cell after it can start.
- Gates. `BackgammonRunner` defines `_kill_process_group` twice; the second
  (`backgammon.py:5145`) is the one in force, and does nothing once the runner itself
  is gone, so the workers of a runner that died are left to process 1 until a reaper
  finds them.
- Reaper. `ps` without `-x` lists only processes on the caller's terminal, while
  everything a run spawns is in a session of its own: where that is so, `Seen` is empty
  and nothing is reaped. `_kill_tree` kills one generation. An orphaned `node` of
  anybody's is a candidate. A port assertion that raises is reported as clear
  (`process_reaper.py:404`).
- Ladder. A dry run is recorded as ok, so a later `--resume` skips the real one. The
  escalation file is never removed by a later success. A meter that is down raises
  after the cell was paid for and before it is saved (`run_backgammon.py:348`).
- Hold. A health probe answered with something other than HTTP, or a server that
  does not stop in time, raises out of a hold that "never fails the cell"
  (`backgammon.py:761`). The wall time of a cell includes its review.

Why the bounds are enough. Three requests are the least with which one settles,
one is in flight and one is refused; the cap lies where the third fits only at
the cached price. One restart separates the lives of the process, and the
checkpoint carries no count of them. Two sessions give a completed one, a
current one and the advance between them; three starts allow a kill in the
resumed run too. Three attempts give one whose report has a predecessor, so that a
gate can begin to pass and the pass verdict is run, and one attempt after it.
Two kinds of record (attempt, turn) meet in one stream. Two chunks let the marker
of the first be there when the second is scanned; one kill, one stall and one
fault of a read can meet in one phase, and three messages are a killed turn, its
nudged successor and what a later phase adds. Five events are two steps with an
error between them, or a step in each of two invocations. Two cells are one whose
leftovers the next meets; two faults let a cleanup fail after what it was to clean
up, and one row tells an own from an inherited transcript. Two launches of the
ladder with an orphan between them are the least in which two children write one
checkpoint. Three holds give one that is killed, one that inherits from it and one
that inherits from that. The theorems of section 4 lift the bounds for the
properties they state.

`CHECK_DEADLOCK FALSE` is set because the systems stop: all requests answered, all
starts of `run` used up, the cell ended.

Fairness. `ProxyLive` assumes that a handler thread keeps running: its waits on
the upstream end by the transport's timeout and its waits for a lock by the
length of the critical sections. `CampaignFaults` assumes that a running `run`
keeps going: the walk waits for nobody, and a cell is assumed to end. Runs of the
worker and gates have timeouts, but a worker that never uses a tool is resumed
without bound (`backgammon.py:2371`) and an operator may hold a cell for review.
In `ServeChunks` the harness is fair, since all its waits have deadlines, and the
serve is not; that nudges end rests on the bounds on kills and stalls, which is
what `DriveReturns` says: they end when what they answer to does. `StdoutEvents`
has the loop, the readers and the clock fair, and a worker that may hang.
`WorkerCells` has the run fair, its gate runners end by their watchdog, and strong
fairness takes a cell out of its body, because the attempts of a cell are bounded;
launching again is part of the run there, as `Completes` is about a campaign whose
operator does not give up. `LadderRuns` has ladder and child fair. In `UiReview`
the hold is fair and the operator is not.
Nobody is obliged to send a request or to start `run` again.

Two assumptions of the proxy's properties are worth knowing, since the code
does not guarantee them. The reservation prices the established prefix at the
cache-read rate, so it is an upper bound only while the provider finds that
prefix in its cache (`CacheMayMiss = FALSE`); with a miss the bill can exceed the
hold, and the ledger then counts the whole bill (the docstring of
`worst_case_usd` calls the reservation admission control, the accrued ledger the
backstop). And the trip switch is one-way for the life of the process only: a
restart on the same checkpoint forgets it, which the comment at
`openrouter_proxy_server.py:330` ("every subsequent request in this run") leaves
open and the docstring at 358 states.

## 4. Proofs

TLAPS checks, for every value of the constants that meets the ASSUMEs:

- `TotalsProofs!TotalUpdate`: changing one entry changes the sum by the
  difference. Induction is done with a set of naturals and the well-foundedness
  of the predecessor relation, because the provers cannot instantiate an operator
  parameter. `TotalMono` compares two tables.
- `ProxyProofs!ReservationCoversSettlement`: the padded worst case of a
  request covers every derived cost within its bounds. Nonlinear, hence broken
  into monotonicity lemmas. `StreamSettlement`: a stream, which drops the
  cache-write count, is not settled below its usage's cost, as long as writing to
  the cache is no dearer than plain input.
- `ProxyProofs!TypeCorrect`, `CommittedMonotone` (committed money on disk never
  shrinks): no assumption.
- `ProxyProofs!HoldsAreDurable`: assumes unique trace ids. The invariant adds
  to `DurableHold` that two requests in `Holding` have different keys, which is
  what uniqueness gives.
- `ProxyProofs!ReservationsBound`: assumes an honest cache. The invariant says
  that a priced request holds `worst_case_usd` of its bounds. That the upstream
  charges the prices of the reservation is not assumed of OrcaRouter: `ModesSound`
  gets it from the price gate, for any launches, keys and listings.
- `ProxyProofs!CapIsCeiling`: assumes both and that no launch that is accepted is
  watch-only. `CapHeld` alone is not inductive: a settlement takes a hold out and puts
  a bill in, so one has to know that the hold is still in the table
  (`DurableHold`) and at least the bill (`Priced`); and a failed write leaves disk
  behind memory, so the bound has to be kept for both.
- `ProxyProofs!SpendIsAccounted`: assumes unique trace ids, an honest cache, streams
  that show their whole bill (`PartialUsage = FALSE`) and no cache-write premium on
  them; watch-only modes are allowed. It is the bound from
  the other side: `SpendInv` says that what the requests may have been billed, a hold
  in flight included, is within the accounts in memory and on disk (`Covered`), and
  that a request that is yet to reserve has a free key (`Unreserved`).
- `ProxyProofs!ForeignModelShutsTheGate`: assumes that the proxy is not restarted,
  since the switch is in memory only (`MaxRestarts = 0`, as in `ProxyLive`).
  `Latched`: the switch remembers the mismatch, and a late request that has not been
  refused has not got past the switch.
- `CampaignProofs!WalksInOrder`: no assumption, `state` included. `WalkInv` adds
  that memory is a walk as well and that a cell in hand belongs to the current
  session.
- `CampaignProofs!CheckpointsOnlyAdvance`: no assumption, `state` included. A running
  `run` has in memory what is on disk, or a manifest ahead of the new one a `state` has
  put there, and writes one step past it.
- `CampaignProofs!CompletedStaysCompleted`: assumes that no `state` runs
  (`MaxReads = 0`); `SyncedInv` says that a running `run` has in memory what is on disk.
- `CampaignProofs!RerunsAreKills`: also assumes that no append fails. `Paid`
  counts a start as covered while the session has not been checkpointed.
- `CampaignProofs!EachTearCostsOne`, `StandingsAreComplete`: no assumption, `state`
  and failing writes included. `RecordsAgree`: for as long as no append was cut short.
  What the stream says of a session is not changed by records of others, so nothing
  is proved by induction over the sequence. `StreamInv` follows the records of the cell
  in hand: memory is disk or a `state` has written a new manifest over it (`Held`); what
  is queued is of that cell, and its attempt record is queued until it is appended
  (`Queued`); the line the next append would spoil is of a session that is not DONE
  (`Whole`); and the sessions that have lost their record, with one more if a line is
  open or the cell in hand has lost its own, are at most the tears (`Debt`).
- `CampaignProofs!CampaignKeepsBook`: the refinement of `ScoreBook`, without `state`
  and torn appends (`MaxReads = 0`, `MaxTears = 0`, as in `CampaignWalk`). A `SessionDone`
  that does not halt is the `Close` of its session, every other step stutters
  (`BookStep`); it needs the records to agree before and after the step and the walk to
  be in order.

- `CellProofs!CellTypeCorrect`, `GatesDecide`, `BooksBalance`,
  `BudgetStopsAreReal`, `PassesAreScored`, `FeedbackReachesTheLiving`: no
  assumption. `CellInv` ties the properties to the place in the round: while the
  cell goes on, no report has passed and the verdict is not PASS (`Verdict`); one
  report per attempt unless the worker died (`Lengths`); a session that may be
  fed back to is of a living worker (`Alive`); the costs up to the attempt are
  settled and a pass verdict's is pending (`Settled`), from which the reports stay
  in line with the books (`Filed`).

- `ServeProofs!MeteringIsExact`, `RecoveryDoesNotInflate`: no assumption. What a reading
  counts never changes, because transcripts only grow. `ServeInv`: baseline and last
  reading lie within the transcript (`Readings`); what was written since the phase began
  is what the transcript has beyond the baseline (`Landed`); the last reading is not
  behind the baseline and saw what was written in between (`Measured`); a phase that
  breaks off moves all that was written in it to `forgone`, and only a failed call or
  a session that was never busy and wrote nothing breaks one off (`ForgoStep`,
  `DeadIsSilent`); and no more turns
  count than the worker ended, before the baseline of the phase in hand (`Counted`).
- `ServeProofs!SuccessIsQuiet`: no assumption. A session that was seen busy and turned
  idle has no prompt waiting, and nothing is sent from there to a successful return
  (`Quiet`).

- `StdoutProofs!EverythingIsHeard`, `SilenceIsTheWorkers`, `NoWorkerIsLeft`: no
  assumption. The dictionary the threads share is right only together with what is
  still in the pipe, and `StdoutInv` speaks of both: turns counted and finishes unread
  are the finishes there were (`Counted`), a budget stop is known or unread (`Heard`),
  a run that returned has read everything (`Drained`), a limit takes the worker in the
  container along unless the hook fails (`Gone`), what tools the open step has used is
  known unless an error was reported in it (`Tooled`, from which a silent step used none,
  `Idle`), only the return closes a turn that died open (`Cut`), and
  starts and ends alternate across what was read and what was not (`OneFinish`,
  `OneStart`), which is what keeps a turn from being counted twice.
- `StdoutProofs!NoTurnIsInvisible`: assumes that step starts carry timestamps
  (`Stamps = {TRUE}`, see the disagreement above). `Visible`: every step begun is
  finished, noted, or the one that is open.

- `WorkerProofs!WorkerTypeCorrect`, `TranscriptsAreOwn`, `FinishedCellsAreGone`,
  `HostIsReaped`, `TranscriptsAreKept`: no assumption. `WorkerInv` has three parts that
  share only the types. Containers: one has the port, the cell in hand has its own from
  `docker run` to `docker rm`, and while a cell is set up its volume is empty or known to
  be taken over (`FreshVolume`). Copies: only the attempt in hand has rows that were not
  copied, until its export (`CopiedOrInHand`), and nothing else writes without an excuse
  (`Quiet`). Host: the process table is a forest of gate runners and docker execs
  (`Forest`), and the lemmas on `Reaper` say what a reap leaves of any such table.

- `CellProofs!HoldTypes`, `HoldLink`, `HoldReleasedClean`, `HoldNotStale`: no
  assumption. `HoldInv` adds how what is left of earlier holds got past the cleanup: a
  stray that is there while the server boots was spared by a kill that failed
  (`StraySpared`), a release file from before the clearing that is there while the
  hold publishes and waits was spared by a removal that failed (`OldSpared`), and
  once a hold has stopped its server there is none until the next (`NoServerBetween`).

- `LadderProofs!LadderTypeCorrect`, `OkUnitsAreScored`, `ScorecardsAreHonest`,
  `EscalationsKeepTheirEvidence`, `SavedCellsAreKept`: no assumption. What a unit is
  recorded as is decided on files that other launches, other units of the same label and
  orphaned children may have written, so the invariant speaks of every verdict there is:
  in the memory of a child, in a checkpoint or on a scorecard, it is of a cell that ran
  under that label and model, whoever wrote it down (`Backed`). To it come, for a child,
  that the modes it has passed have a cell, that the cell in hand ran, and that its
  scorecard is written before its result line (`Sound`, by which a result line read by
  the ladder has a scorecard behind it); that a resumed child that found no orphan on its
  label has in memory what the checkpoint has (`Kept`); and that an escalation file names
  attempts of a launch that is over, whose logs later launches do not reuse (`Evidence`).
  `Owned` says when the ladder has a child, and that it works on what the ladder was asked.
- `LadderProofs!ParsedModesAreTheEntries`: what `parse_modes` keeps of a string, by the
  ranks of its entries, for strings of every length.

The liveness properties rest on fairness, with which the provers cannot deal. What they
rest on besides is proved: that nothing leads back. Each of these says that what progress
there is, is not undone, and, where there is an order to go by, that each step goes up in
it; that a step is taken at all is left to the fairness of section 3 and to TLC.

| liveness | theorem | the order |
|---|---|---|
| `HoldsDrain` | `ProxyProofs!HandlersNeverTurnBack`, `AnswersReturnTheirHold` (unique trace ids, no restart) | the places of a handler, eleven steps at most; a request that was sent and settled holds nothing, and one that was not sent may be `Stranded` |
| `RunEnds` | `CampaignProofs!RunsOnlyAdvance` | sessions and phases of the manifest, then the place, then the queued records |
| `DriveReturns` | `ServeProofs!NoNudgeForNothing` | none: a nudge answers a kill of its own, a phase driven again has written something, but for what failed reads cost (`Windowed`) |
| `RunReturns` | `StdoutProofs!NoRunTurnsBack` | past the deadline: the places of the loop, then what is left in the pipes (`Closed`) |
| `Completes` | `WorkerProofs!NothingElseSetsBack` | cells; a launch stops short only for a failed call, an interrupt, a kill, or an earlier cell's container on the port (`InTurn`) |
| `LadderEnds` | `LadderProofs!LadderNeverTurnsBack` | attempts, then places, then modes; both loops are bounded |
| `TouchHonoured` | `CellProofs!HoldTouchStands` | the stages of the hold; the file stands until its end (`FilesOfThisHold`) |

Only model-checked: these seven liveness properties, and `CheatNeverPass` and `SweptClean`,
which runs show to be violated. The assumptions above are those of the run that checks the
property, or weaker. The type invariants of `ProxyLedger`, `CellRun`,
`WorkerCell`, `Ladder` and `UiHold` are theorems and need no run; those of `Campaign`,
`ServeDrive` and `StdoutDrive` are conjuncts of the invariants above.

## 5. Not modelled

- Floating-point rounding of amounts; token and cost sums of the scorecard.
- The transformation of request bodies by `apply_policy` (its refusal is).
- Drift checks of a resume: other arguments are refused before anything changes.
- Exceptions out of a cell (docker preflight, a missing gate report): in `Campaign`
  they are kills of `run`. The telemetry scans of a cell.
- The proxy's token file, which a launch has rewritten before it is refused, and its
  HTTP plumbing. Tolerances of the price gate.
- What the drives say: prompts, log lines, the wording of anomalies. The estimate of
  tokens of a truncated reply.
- `_hold_ui_lan_exposed`, which only informs.
- Two ladders at once on one directory.
- Failures of the stdout drive's reader threads themselves (`backgammon.py:4246`, 4275).
- A worker a failed kill hook has spared, once its run has been resumed: it may write
  beside its successor.
- Two `run`s on one manifest: the control server admits one at a time.
- Retention pruning, the roster of models and the one-shot commands of the command
  line.
- The parts marked `not_modelled` in `PROJECT.json`, with their reasons.

## 6. Plan

1. `CellUnderBudget`: `CellRun` composed with an abstract proxy (committed and
   held money) shown to be implemented by `ProxyLedger`; `ServeDrive` and
   `StdoutDrive` shown to end in one of `CellRun`'s `Ends`.
2. `ControlPlane`: one run at a time, hold and release, crash recovery.
3. The outcome spool of the worker plugin (claim, deliver, retry), which is vendored.
