------------------------------- MODULE Ladder -------------------------------
(***************************************************************************)
(* The single-model ladder: scripts/backgammon_ladder.py relaunches        *)
(* scripts/run_backgammon.py until it succeeds or the retries are spent,   *)
(* and both keep a checkpoint file so that `--resume' can skip what is     *)
(* done.  The operator launches a ladder with any of a few command lines,  *)
(* one ladder at a time; ladder and child may die at any step.  A child    *)
(* whose ladder died is an orphan: its stdout is a broken pipe, so it goes *)
(* on until its next printed line and dies there, and meanwhile it may     *)
(* still write its files beside a newer child.                             *)
(***************************************************************************)
EXTENDS Naturals, FiniteSets, Sequences, TLC

CONSTANTS Units,        \* ladder checkpoint keys: (run_number, model)
          Labels,       \* --run-label values, which name the child's files
          ModelOf,      \* the model of each unit
          Asks,         \* command lines the operator uses
          MaxRetries,   \* --max-retries
          MaxLaunches,  \* bound: ladders launched
          MaxFaults     \* bound: deaths, failed preflights, dead meters

Modes == {"off", "on"}
Verdicts == {"PASS", "FAIL"}   \* FAIL stands for every verdict but PASS
RawModes == Modes \cup {"", "bad"}
Slots == {"own", "orphan"}

\* max_retries below one is a usage error.
ASSUME RetriesAssumption == MaxRetries \in Nat \ {0}
ASSUME BoundsAssumption == MaxLaunches \in Nat /\ MaxFaults \in Nat
ASSUME AskAssumption ==
    \A a \in Asks : /\ a.unit \in Units /\ a.label \in Labels
                    /\ a.raw \in Seq(RawModes)
                    /\ a.resume \in BOOLEAN /\ a.dry \in BOOLEAN

VARIABLES lpc, ask, launch, attempt,   \* the ladder process
          child,                       \* run_backgammon.py processes, by slot
          units,                       \* ladder-checkpoint.json
          askedBy,                     \* history: who recorded the unit as ok
          ckpt,                        \* <label>-checkpoint.json, by label
          cards,                       \* *-scorecard.json
          logs, escal,                 \* attempt logs; <label>-ESCALATE.json
          ran,                         \* history: cells that really ran
          faults

ladderVars == <<lpc, ask, launch, attempt>>
diskVars == <<units, askedBy, ckpt, cards, logs, escal>>
vars == <<ladderVars, child, diskVars, ran, faults>>

NoAsk == [none |-> TRUE]
NoCell == [verdict |-> "-", carded |-> FALSE]
NoCells == [m \in Modes |-> NoCell]
NoFile == [model |-> "-", cells |-> NoCells]
NoChild == [pc |-> "none"]

\* The modes a checkpoint or a scorecard has a cell for.
Done(cells) == {m \in Modes : cells[m] # NoCell}
Alive(s) == child[s].pc \notin {"none", "exit"}
Down == lpc' = "down" /\ ask' = NoAsk /\ attempt' = 0   \* the process is gone
Fault == faults < MaxFaults /\ faults' = faults + 1

-----------------------------------------------------------------------------
(* What the two scripts compute. *)

\* The list a raw --memory-modes string stands for: blanks and repeats are
\* dropped; an unknown mode or an empty list is a ValueError (<<>> here).
ParseModes(raw) ==
    LET first == {i \in DOMAIN raw : raw[i] # "" /\ \A j \in 1 .. i - 1 : raw[j] # raw[i]}
    IN  IF \E i \in DOMAIN raw : raw[i] = "bad" THEN <<>>
        ELSE [k \in 1 .. Cardinality(first) |->
                raw[CHOOSE i \in first : Cardinality({j \in first : j <= i}) = k]]

AskedModes(a) == {ParseModes(a.raw)[i] : i \in DOMAIN ParseModes(a.raw)}

\* preflight(): the hub first, then the recall client; a reachable client
\* that answers 401 is locked, and only 200 passes.
PreflightPasses(hub, mcp) == hub = "healthy" /\ mcp = 200

\* Scorecard.model_diffs for the one ON condition: pass rates of one-cell
\* arms, 0 for an absent arm; no diff at all without an ON cell.  Every cell
\* is added with scored = True.
PassRate(cells, m) == IF cells[m].verdict = "PASS" THEN 100 ELSE 0
ModelDiffs(cells) ==
    IF "on" \in Done(cells)
    THEN {[off |-> PassRate(cells, "off"), on |-> PassRate(cells, "on"),
           offN |-> Cardinality({"off"} \cap Done(cells))]}
    ELSE {}

\* What Scorecard.to_json writes for the requested modes.
Scorecard(c) ==
    LET asked == AskedModes(c.ask)
        cells == [m \in Modes |-> IF m \in asked THEN c.mem[m] ELSE NoCell]
    IN  [label |-> c.ask.label, model |-> ModelOf[c.ask.unit],
         cells |-> cells, diffs |-> ModelDiffs(cells)]

\* The status on the last result line of the child's output, "" for none.
ResultStatus(c) == c.out

\* Faulty variant of UnitOk: any result line will do.
UnitOkAnyLine(c) == ResultStatus(c) # ""

\* run_unit's verdict on a finished child: exit code and result line agree.
UnitOk(c) == c.exit = 0 /\ ResultStatus(c) = "ok"

-----------------------------------------------------------------------------
(* The ladder driver. *)

Init ==
    /\ lpc = "down" /\ ask = NoAsk /\ launch = 0 /\ attempt = 0
    /\ child = [s \in Slots |-> NoChild]
    /\ units = [u \in Units |-> 0]
    /\ askedBy = [u \in Units |-> NoAsk]
    /\ ckpt = [l \in Labels |-> NoFile]
    /\ cards = {} /\ logs = {}
    /\ escal = [l \in Labels |-> {}]
    /\ ran = {} /\ faults = 0

\* main(): parse the arguments, open the driver log, read the checkpoint.
Launch(a) ==
    /\ lpc = "down" /\ launch < MaxLaunches
    /\ lpc' = "loop" /\ ask' = a /\ launch' = launch + 1 /\ attempt' = 0
    /\ logs' = logs \cup {<<launch + 1, 0>>}
    /\ UNCHANGED <<child, units, askedBy, ckpt, cards, escal, ran, faults>>

\* The unit's entry is found by run number, model and phase alone.
Prior == units[ask.unit]
UpsertUnit(n) == [units EXCEPT ![ask.unit] = n]
Skipped == ask.resume /\ Prior > 0

\* `--resume' and a unit recorded as ok: the unit is not run.
ResumeSkip ==
    /\ lpc = "loop" /\ attempt = 0 /\ Skipped
    /\ lpc' = "clean"
    /\ UNCHANGED <<ask, launch, attempt, child, diskVars, ran, faults>>

Fresh == [pc |-> "parse", ask |-> ask, i |-> 1,
          mem |-> NoCells, cur |-> NoCell, exit |-> 0, out |-> "",
          alone |-> TRUE]

\* A dry run starts no process: its unit is over at once, with status ok.
Unit == IF ask.dry THEN [Fresh EXCEPT !.pc = "exit", !.out = "ok"] ELSE Fresh

\* Faulty variant of NextAttempt: the loop never advances.
NextAttemptStuck == attempt
NextAttempt == attempt + 1

\* The next attempt: a new log and a new unit.  Logs are told apart by launch and
\* attempt; the code names them by the second in which they are opened.
StartAttempt ==
    /\ lpc = "loop" /\ attempt < MaxRetries
    /\ attempt = 0 => ~Skipped
    /\ attempt' = NextAttempt
    /\ logs' = logs \cup {<<launch, NextAttempt>>}
    /\ lpc' = "child"
    /\ child' = [child EXCEPT !["own"] = Unit]
    /\ UNCHANGED <<ask, launch, units, askedBy, ckpt, cards, escal, ran, faults>>

UnitEnded == lpc = "child" /\ child["own"].pc = "exit"

AttemptsTaken == attempt

\* The unit is recorded as ok and the checkpoint saved, dry run or not.
AttemptOk ==
    /\ UnitEnded /\ UnitOk(child["own"])
    /\ units' = UpsertUnit(AttemptsTaken)
    /\ askedBy' = [askedBy EXCEPT ![ask.unit] = ask]
    /\ lpc' = "clean"
    /\ child' = [child EXCEPT !["own"] = NoChild]
    /\ UNCHANGED <<ask, launch, attempt, ckpt, cards, logs, escal, ran, faults>>

AttemptFailed == UnitEnded /\ ~UnitOk(child["own"])

Retry ==
    /\ AttemptFailed /\ attempt < MaxRetries
    /\ lpc' = "loop"
    /\ child' = [child EXCEPT !["own"] = NoChild]
    /\ UNCHANGED <<ask, launch, attempt, diskVars, ran, faults>>

\* The retries are spent: write the escalation file, naming the attempts'
\* logs, and return 3.
Escalate ==
    /\ AttemptFailed /\ attempt = MaxRetries
    /\ escal' = [escal EXCEPT ![ask.label] = {<<launch, n>> : n \in 1 .. attempt}]
    /\ Down
    /\ child' = [child EXCEPT !["own"] = NoChild]
    /\ UNCHANGED <<launch, units, askedBy, ckpt, cards, logs, ran, faults>>

\* Faulty variant of Removed: the logs of every launch so far.
RemovedOfRun == {g \in logs : g[1] <= launch}

\* _cleanup_success_logs: this launch's attempt logs and its driver log.
Removed == {<<launch, n>> : n \in 0 .. attempt}

\* Clean up (not after a dry run), print the result and return 0.
Finish ==
    /\ lpc = "clean"
    /\ logs' = IF ask.dry THEN logs ELSE logs \ Removed
    /\ Down
    /\ UNCHANGED <<launch, child, units, askedBy, ckpt, cards, escal, ran, faults>>

\* The ladder dies; a living child is orphaned.
LadderDies ==
    /\ lpc # "down" /\ ~Alive("orphan") /\ Fault
    /\ Down
    /\ child' = [s \in Slots |-> IF s = "orphan" /\ Alive("own") THEN child["own"] ELSE NoChild]
    /\ UNCHANGED <<launch, diskVars, ran>>

-----------------------------------------------------------------------------
(* The child, run_backgammon.py, in slot s. *)

\* The exit code and result line are read by the ladder alone; an orphan dies
\* where it prints (`moved' is the child after the printed line).
Exits(s, code, out) ==
    IF s = "own" THEN [child[s] EXCEPT !.pc = "exit", !.exit = code, !.out = out] ELSE NoChild
Printed(s, moved) == child' = [child EXCEPT ![s] = IF s = "own" THEN moved ELSE NoChild]
Move(s, pc) == [child[s] EXCEPT !.pc = pc]

Parse(s) ==
    /\ child[s].pc = "parse"
    /\ IF ParseModes(child[s].ask.raw) = <<>>
       THEN child' = [child EXCEPT ![s] = Exits(s, 1, "")]
       ELSE Printed(s, Move(s, "preflight"))
    /\ UNCHANGED <<ladderVars, diskVars, ran, faults>>

\* A failed preflight prints its status and returns 2.
Preflight(s) ==
    /\ child[s].pc = "preflight"
    /\ \E hub \in {"down", "unhealthy", "healthy"}, mcp \in {0, 200, 401, 500} :
          \/ /\ PreflightPasses(hub, mcp)
             /\ Printed(s, Move(s, "load"))
             /\ UNCHANGED faults
          \/ /\ ~PreflightPasses(hub, mcp) /\ Fault
             /\ Printed(s, Exits(s, 2, "preflight_failed"))
    /\ UNCHANGED <<ladderVars, diskVars, ran>>

NewCheckpoint(c) == [model |-> ModelOf[c.ask.unit], cells |-> NoCells]

\* Faulty variant of Loaded: --resume is not looked at.
LoadedFresh(c) == NewCheckpoint(c)

\* The checkpoint a child starts from.
Loaded(c) == IF c.ask.resume /\ ckpt[c.ask.label] # NoFile
             THEN ckpt[c.ask.label] ELSE NewCheckpoint(c)

\* Faulty variant of SameModel: any checkpoint will do.
AnyModel(c) == Loaded(c).model # ""

SameModel(c) == Loaded(c).model = ModelOf[c.ask.unit]

\* A checkpoint of another model is a RuntimeError.
Load(s) ==
    LET c == child[s] IN
    /\ c.pc = "load"
    /\ child' = [child EXCEPT ![s] =
                   IF SameModel(c)
                   THEN [Move(s, "modes") EXCEPT !.mem = Loaded(c).cells,
                                                 !.alone = ~Alive("orphan")]
                   ELSE Exits(s, 1, "")]
    /\ UNCHANGED <<ladderVars, diskVars, ran, faults>>

Mode(c) == ParseModes(c.ask.raw)[c.i]
HasMode(c) == c.pc = "modes" /\ c.i <= Len(ParseModes(c.ask.raw))

SkipMode(s) ==
    LET c == child[s] IN
    /\ HasMode(c)
    /\ c.ask.resume /\ Mode(c) \in Done(c.mem)
    /\ Printed(s, [c EXCEPT !.i = @ + 1])
    /\ UNCHANGED <<ladderVars, diskVars, ran, faults>>

\* BackgammonRunner.run_cell, which prints as it goes, returns a verdict.
RunCell(s) ==
    LET c == child[s] IN
    /\ HasMode(c) /\ s = "own"
    /\ ~(c.ask.resume /\ Mode(c) \in Done(c.mem))
    /\ \E v \in Verdicts :
          /\ child' = [child EXCEPT ![s] = [c EXCEPT !.pc = "meter", !.cur.verdict = v]]
          /\ ran' = ran \cup {<<c.ask.label, Mode(c), ModelOf[c.ask.unit], v>>}
    /\ UNCHANGED <<ladderVars, diskVars, faults>>

\* contention_covariates answers (at once when the cell has no session id);
\* then the cell-complete line is printed.
Meter(s) ==
    /\ child[s].pc = "meter"
    /\ Printed(s, Move(s, "save"))
    /\ UNCHANGED <<ladderVars, diskVars, ran, faults>>

\* The meter's connection error is not caught: the finished cell is lost.
MeterDown(s) ==
    /\ child[s].pc = "meter" /\ Fault
    /\ child' = [child EXCEPT ![s] = Exits(s, 1, "")]
    /\ UNCHANGED <<ladderVars, diskVars, ran>>

UpsertCell(c) == [c.mem EXCEPT ![Mode(c)] = c.cur]
Saved(c, cells) == [ckpt EXCEPT ![c.ask.label] = [model |-> ModelOf[c.ask.unit], cells |-> cells]]

\* Upsert the cell and replace the checkpoint file; nothing is printed.
SaveCell(s) ==
    LET c == child[s] IN
    /\ c.pc = "save"
    /\ ckpt' = Saved(c, UpsertCell(c))
    /\ child' = [child EXCEPT ![s] = [c EXCEPT !.pc = "modes", !.mem = UpsertCell(c), !.i = @ + 1,
                                               !.cur = NoCell]]
    /\ UNCHANGED <<ladderVars, units, askedBy, cards, logs, escal, ran, faults>>

\* Every requested mode has a cell: write the scorecard.
WriteScorecard(s) ==
    LET c == child[s] IN
    /\ c.pc = "modes" /\ c.i > Len(ParseModes(c.ask.raw))
    /\ cards' = cards \cup {Scorecard(c)}
    /\ child' = [child EXCEPT ![s] = Move(s, "final")]
    /\ UNCHANGED <<ladderVars, units, askedBy, ckpt, logs, escal, ran, faults>>

\* Write the detail file, stamp every cell with the scorecard and save.
FinalSave(s) ==
    LET c == child[s]
        mem == [m \in Modes |-> IF m \in Done(c.mem) THEN [c.mem[m] EXCEPT !.carded = TRUE]
                                ELSE NoCell] IN
    /\ c.pc = "final"
    /\ ckpt' = Saved(c, mem)
    /\ child' = [child EXCEPT ![s] = [Move(s, "result") EXCEPT !.mem = mem]]
    /\ UNCHANGED <<ladderVars, units, askedBy, cards, logs, escal, ran, faults>>

PrintResult(s) ==
    /\ child[s].pc = "result"
    /\ Printed(s, Exits(s, 0, "ok"))
    /\ UNCHANGED <<ladderVars, diskVars, ran, faults>>

\* Any exception, or a kill.
ChildDies(s) ==
    /\ Alive(s) /\ Fault
    /\ child' = [child EXCEPT ![s] = Exits(s, 1, "")]
    /\ UNCHANGED <<ladderVars, diskVars, ran>>

\* An orphan about to start a cell dies at the cell's first printed line.
OrphanStops(s) ==
    /\ s = "orphan" /\ HasMode(child[s])
    /\ child' = [child EXCEPT ![s] = Exits(s, 1, "")]
    /\ UNCHANGED <<ladderVars, diskVars, ran, faults>>

-----------------------------------------------------------------------------
Driver == ResumeSkip \/ StartAttempt \/ AttemptOk \/ Retry \/ Escalate \/ Finish
Cell(s) == \/ Parse(s) \/ Preflight(s) \/ Load(s) \/ SkipMode(s) \/ RunCell(s)
           \/ Meter(s) \/ SaveCell(s) \/ WriteScorecard(s) \/ FinalSave(s)
           \/ PrintResult(s) \/ OrphanStops(s)
Faulty(s) == MeterDown(s) \/ ChildDies(s)

Next == \/ \E a \in Asks : Launch(a)
        \/ Driver \/ LadderDies
        \/ \E s \in Slots : Cell(s) \/ Faulty(s)

Spec == Init /\ [][Next]_vars /\ WF_vars(Driver) /\ \A s \in Slots : WF_vars(Cell(s))

-----------------------------------------------------------------------------
(* Properties. *)

\* A unit that ladder-checkpoint.json calls ok, and that was not recorded by
\* a dry run, has a scorecard on disk for its label and model with a verdict
\* for exactly the modes asked for.
OkIsScored ==
    \A u \in Units :
        (units[u] > 0 /\ ~askedBy[u].dry) =>
            \E k \in cards : /\ k.label = askedBy[u].label /\ k.model = ModelOf[u]
                             /\ Done(k.cells) = AskedModes(askedBy[u])

\* Every verdict on a scorecard is that of a cell run under the scorecard's
\* label and model, whichever process ran it, and no arm of its diff reports
\* a pass that did not happen.
CardHonest ==
    \A k \in cards :
        /\ \A m \in Done(k.cells) : <<k.label, m, k.model, k.cells[m].verdict>> \in ran
        /\ \A d \in k.diffs :
              /\ d.on = 100 => <<k.label, "on", k.model, "PASS">> \in ran
              /\ d.off = 100 => <<k.label, "off", k.model, "PASS">> \in ran

\* The logs an escalation file names are on disk for as long as the file is,
\* whatever later launches of the run do.
EscalationEvidence ==
    \A l \in Labels : escal[l] # {} => Cardinality(escal[l]) = MaxRetries /\ escal[l] \subseteq logs

\* A saved cell is dropped or replaced only by a launch without --resume, by an
\* orphan, or by a child that loaded its checkpoint while an orphan could write.
CellsKept ==
    [][\A l \in Labels, m \in Modes :
          (m \in Done(ckpt[l].cells) /\ ckpt'[l].cells[m].verdict # ckpt[l].cells[m].verdict)
          => \E s \in Slots : /\ child[s].pc \in {"save", "final"} /\ child[s].ask.label = l
                              /\ \/ ~child[s].ask.resume \/ ~child[s].alone
                                 \/ s = "orphan"]_vars

\* A launched ladder ends: its retries are bounded and each child returns.
LadderEnds == (lpc # "down") ~> (lpc = "down")
=============================================================================
