------------------------------ MODULE CellRun -------------------------------
(***************************************************************************)
(* One cell of the backgammon runner (_run_cell_impl): a first run of the  *)
(* worker, then rounds of gating its worktree and feeding the failures     *)
(* back, until the gates are green, the attempts or the budget are used    *)
(* up, or something breaks.  What the cell reports goes to the scorecard.  *)
(*                                                                         *)
(* A run of the worker is one step that ends in one of the ways the code   *)
(* tells apart, in the order in which it asks:                             *)
(*   budget  a 402 or a quota error was seen                               *)
(*   honest  the last turn used no tool and there is no session to resume  *)
(*   cut     exit 1 with the trace of a broken stream (first run only)     *)
(*   error   any other exit status but 0                                   *)
(*   limit   killed by a limit of the harness (time, steps, tokens)        *)
(*   ok      exit 0                                                        *)
(***************************************************************************)
EXTENDS Integers, Sequences, Totals

CONSTANTS
    MaxAttempts,     \* max_attempts
    Gates,           \* the gates of the task
    Costs,           \* what the harness may meter a run at
    Overhead,        \* what the proxy may commit beyond that
    Budget,          \* what is left on the proxy's ledger when the cell starts
    Fallback,        \* _fallback_attempt_estimate_usd
    ResumeBudgets,   \* the values resume_budget may have
    Meters           \* the kinds of budget a cell may be run under

ASSUME CellAssumption ==
    /\ MaxAttempts \in Nat \ {0}
    /\ Costs \subseteq Nat
    /\ Overhead \subseteq Nat
    /\ Budget \in Nat
    /\ Fallback \in Nat
    /\ ResumeBudgets \subseteq Nat
    /\ Meters \subseteq {"checkpoint", "missing", "unbounded"}

VARIABLES
    pc,          \* where the cell is
    setup,       \* how the cell is run, fixed from the start
    attempt,     \* the attempt whose worktree is gated
    session,     \* is session_id known?
    annot,       \* _worker_exit_annot is "harness_error"
    verdict,
    reason,      \* termination_reason
    green,       \* attempts_to_green: {n}, or {} for one of its words
    reports,     \* attempt_reports
    final,       \* final_report: {} or {the last gate report}
    costs,       \* attempt_costs_usd, 0 where there is no entry
    observed,    \* max(observed_attempt_costs)
    pending,     \* next_attempt_cost_usd
    cellCost,    \* cell_cost_usd
    truncated,   \* a truncation, a truncated turn or a lost observation was counted
    remaining,   \* hard cap less committed money, in the proxy's checkpoint
    spentOn,     \* history: what the runs made for each attempt were metered at
    lastEnd      \* history: how the last run of the worker ended

money == <<costs, observed, pending, cellCost, spentOn>>
outcome == <<verdict, reason, green>>
record == <<reports, final>>
worker == <<session, annot, truncated, lastEnd>>
vars == <<pc, setup, attempt, worker, outcome, record, money, remaining>>

Attempts == 1 .. MaxAttempts

\* mock: files are copied in and no worker is started; meter: there is a proxy
\* checkpoint to consult, or none though a cost limit is set, or neither.
Setups == [mock : BOOLEAN, meter : Meters, resume_budget : ResumeBudgets]

\* How the process of a worker ends, and how a run of it does, tool-less turns
\* having been resumed.
ProcessEnds == {"ok", "limit", "budget", "cut", "error"}

Ends == ProcessEnds \cup {"honest"}

Larger(a, b) == IF a > b THEN a ELSE b

(***************************************************************************)
(* The gates.  A report is PASS when all its stages passed; conformed is   *)
(* the conformance stage alone.                                            *)
(***************************************************************************)
GateReports ==
    {r \in [pass : BOOLEAN, conformed : BOOLEAN, failed : SUBSET Gates] :
        r.pass => r.conformed /\ r.failed = {}}

\* The report of an attempt whose gate runner was killed.
NoGates == [pass |-> FALSE, conformed |-> FALSE, failed |-> {}]

AttemptReports == [attempt : Attempts, gates : GateReports, cost : Nat]

\* A worker that died leaves no attempt report.
Reported(gates) ==
    IF annot THEN reports
    ELSE Append(reports, [attempt |-> attempt, gates |-> gates, cost |-> costs[attempt]])

(***************************************************************************)
(* The budget decision.                                                    *)
(***************************************************************************)
\* _estimate_full_attempt_cost_usd
Estimate == Larger(observed, Fallback)

\* Faulty variant of Decisions: an attempt that fits exactly is refused.
DecisionsStrict ==
    {"harness_error", IF remaining > Estimate THEN "allow" ELSE "budget_stop"}

\* _budget_decision_for_attempt: a checkpoint may prove unreadable; the holds in
\* flight are not counted.
Decisions ==
    CASE setup.meter = "unbounded"  -> {"allow"}
      [] setup.meter = "missing"    -> {"harness_error"}
      [] setup.meter = "checkpoint" ->
            {"harness_error", IF remaining >= Estimate THEN "allow" ELSE "budget_stop"}

\* The proxy commits money for what the worker does; the ledger never gives back.
Spend(cost) ==
    \E o \in Overhead : remaining' = IF cost + o > remaining THEN 0 ELSE remaining - (cost + o)

\* The request that compacts the transcript is not metered, and may fail.
CompactAttemptBoundary == Spend(0)

(***************************************************************************)
(* The cell.                                                               *)
(***************************************************************************)
PCs == {"start", "first", "gate", "review", "pass", "feedback", "concluding", "ended"}

Conclude(v, why) ==
    /\ verdict' = v
    /\ reason' = why
    /\ pc' = "concluding"

Init ==
    /\ pc = "start"
    /\ setup \in Setups
    /\ attempt = 1
    /\ session = FALSE
    /\ annot = FALSE
    /\ verdict = "FAIL"
    /\ reason = "pending"
    /\ green = {}
    /\ reports = <<>>
    /\ final = {}
    /\ costs = [a \in Attempts |-> 0]
    /\ observed = 0
    /\ pending = 0
    /\ cellCost = 0
    /\ truncated = FALSE
    /\ remaining = Budget
    /\ spentOn = [a \in Attempts |-> 0]
    /\ lastEnd = "none"

\* A mock cell goes straight to its gates; a real one asks for its budget.
\* Refused, it is labelled, and gated all the same.
InitialBudget ==
    /\ pc = "start"
    /\ \/ setup.mock /\ pc' = "gate" /\ UNCHANGED <<verdict, reason>>
       \/ /\ ~setup.mock
          /\ \E d \in Decisions :
               \/ d = "allow" /\ pc' = "first" /\ UNCHANGED <<verdict, reason>>
               \/ /\ d = "harness_error"
                  /\ pc' = "gate"
                  /\ verdict' = "FAIL" /\ reason' = "harness_error"
               \/ /\ d = "budget_stop"
                  /\ pc' = "gate"
                  /\ verdict' = "BUDGET_STOP" /\ reason' = "attempts_exhausted_by_budget"
    /\ UNCHANGED <<setup, attempt, worker, green, record, money, remaining>>

\* What every run of the worker does to the books, made for attempt a.
Metering(a, cost, end) ==
    /\ cellCost' = cellCost + cost
    /\ spentOn' = [spentOn EXCEPT ![a] = @ + cost]
    /\ Spend(cost)
    /\ lastEnd' = end
    /\ \E t \in BOOLEAN : truncated' = (truncated \/ t \/ end = "cut")

\* The verdict the end of the first run leaves; the gates run regardless.
FirstLabel(end) ==
    \/ end = "budget" /\ verdict' = "BUDGET_STOP" /\ reason' = "budget_stop_mid_attempt"
    \/ end = "honest" /\ verdict' = "FAIL" /\ reason' = "zero_tool_turn_honest_fail"
    \/ end = "error"  /\ verdict' = "FAIL" /\ reason' = "harness_error"
    \/ end \in {"ok", "limit", "cut"} /\ UNCHANGED <<verdict, reason>>

FirstRun ==
    /\ pc = "first"
    /\ \E end \in Ends, cost \in Costs, sid \in BOOLEAN :
         /\ end = "honest" => ~sid
         /\ Metering(1, cost, end)
         /\ costs' = [costs EXCEPT ![1] = cost]
         /\ observed' = Larger(observed, cost)
         /\ session' = sid
         /\ annot' = (end = "error")
         /\ FirstLabel(end)
    /\ pc' = "gate"
    /\ UNCHANGED <<setup, attempt, green, record, pending>>

\* The watchdog killed the gate runner: nothing was measured.
GateTimeoutError ==
    /\ pc = "gate"
    /\ reports' = Reported(NoGates)
    /\ green' = {}
    /\ Conclude("FAIL", "gate_timeout")
    /\ UNCHANGED <<setup, attempt, worker, final, money, remaining>>

Gated ==
    /\ pc = "gate"
    /\ \E r \in GateReports : reports' = Reported(r) /\ final' = {r}
    /\ pc' = "review"
    /\ UNCHANGED <<setup, attempt, worker, outcome, money, remaining>>

Passed == \E r \in final : r.pass

GatesGreen ==
    /\ pc = "review" /\ Passed
    /\ green' = {attempt - 1}
    /\ Conclude("PASS", "gates_green")
    /\ UNCHANGED <<setup, attempt, worker, record, money, remaining>>

\* Faulty variant of CeilingReached: the ceiling is looked at before the gates.
CeilingFirst ==
    /\ pc = "review" /\ attempt = MaxAttempts
    /\ green' = {}
    /\ Conclude("FAIL", IF annot THEN "harness_error" ELSE "attempt_ceiling_reached")
    /\ UNCHANGED <<setup, attempt, worker, record, money, remaining>>

CeilingReached ==
    /\ pc = "review" /\ ~Passed /\ attempt = MaxAttempts
    /\ green' = {}
    /\ Conclude("FAIL", IF annot THEN "harness_error" ELSE "attempt_ceiling_reached")
    /\ UNCHANGED <<setup, attempt, worker, record, money, remaining>>

GoesOn == pc = "review" /\ ~Passed /\ attempt < MaxAttempts

\* Faulty variant of FeedbackSkipped: the dead worker is only noted.
FeedbackNotSkipped ==
    /\ GoesOn /\ annot
    /\ annot' = FALSE
    /\ UNCHANGED <<pc, setup, attempt, session, truncated, lastEnd, outcome, record, money,
                   remaining>>

\* The first run died: there is no working session to feed back to.
FeedbackSkipped ==
    /\ GoesOn /\ annot
    /\ Conclude(verdict, "harness_error")
    /\ UNCHANGED <<setup, attempt, worker, green, record, money, remaining>>

\* A mock cell is gated again as it is.
MockContinues ==
    /\ GoesOn /\ ~annot /\ setup.mock
    /\ attempt' = attempt + 1
    /\ pc' = "gate"
    /\ UNCHANGED <<setup, worker, outcome, record, money, remaining>>

SessionMissing ==
    /\ GoesOn /\ ~annot /\ ~setup.mock /\ ~session
    /\ green' = {}
    /\ Conclude("FAIL", "harness_error")
    /\ UNCHANGED <<setup, attempt, worker, record, money, remaining>>

\* The gates that failed in the attempt before and do not fail now.
NewlyPassing ==
    IF Len(reports) < 2 THEN {}
    ELSE reports[Len(reports) - 1].gates.failed \ reports[Len(reports)].gates.failed

\* The budget of the next attempt; if it is granted, the transcript is compacted and
\* the worker gets its feedback: first what passes now, if anything does, then what
\* fails.
NextBudget ==
    /\ GoesOn /\ ~annot /\ ~setup.mock /\ session
    /\ \E d \in Decisions :
         \/ /\ d = "harness_error"
            /\ Conclude("FAIL", "harness_error") /\ UNCHANGED remaining
         \/ /\ d = "budget_stop"
            /\ Conclude("BUDGET_STOP", "attempts_exhausted_by_budget") /\ UNCHANGED remaining
         \/ /\ d = "allow" /\ setup.resume_budget = 0
            /\ Conclude("FAIL", "transport_incomplete") /\ UNCHANGED remaining
         \/ /\ d = "allow" /\ setup.resume_budget > 0
            /\ pc' = IF NewlyPassing # {} THEN "pass" ELSE "feedback"
            /\ CompactAttemptBoundary
            /\ UNCHANGED <<verdict, reason>>
    /\ pending' = 0
    /\ green' = {}
    /\ UNCHANGED <<setup, attempt, worker, record, costs, observed, cellCost, spentOn>>

\* How a run that carries feedback may end: it has a session to resume, and a
\* broken stream counts as an error.
FeedbackEnds == Ends \ {"honest", "cut"}

\* The verdict such an end leads to; TRUE if the cell goes on.
FeedbackGoesOn(end) == end \in {"ok", "limit"}

ConcludeFeedback(end) ==
    IF end = "budget" THEN Conclude("BUDGET_STOP", "budget_stop_mid_attempt")
    ELSE Conclude("FAIL", "harness_error")

\* The pass verdict: its cost belongs to the next attempt.
PassVerdictRun ==
    /\ pc = "pass"
    /\ \E end \in FeedbackEnds, cost \in Costs :
         /\ Metering(attempt + 1, cost, end)
         /\ pending' = pending + cost
         /\ IF FeedbackGoesOn(end) THEN pc' = "feedback" /\ UNCHANGED <<verdict, reason>>
            ELSE ConcludeFeedback(end)
    /\ UNCHANGED <<setup, attempt, session, annot, green, record, costs, observed>>

\* Faulty variant of FeedbackRun: the cost of the pass verdict is not carried over.
FeedbackRunAlone ==
    /\ pc = "feedback"
    /\ \E end \in FeedbackEnds, cost \in Costs :
         /\ Metering(attempt + 1, cost, end)
         /\ costs' = [costs EXCEPT ![attempt + 1] = cost]
         /\ observed' = Larger(observed, cost)
         /\ IF FeedbackGoesOn(end)
            THEN pc' = "gate" /\ attempt' = attempt + 1 /\ UNCHANGED <<verdict, reason>>
            ELSE ConcludeFeedback(end) /\ UNCHANGED attempt
    /\ UNCHANGED <<setup, session, annot, green, record, pending>>

FeedbackRun ==
    /\ pc = "feedback"
    /\ \E end \in FeedbackEnds, cost \in Costs :
         /\ Metering(attempt + 1, cost, end)
         /\ costs' = [costs EXCEPT ![attempt + 1] = pending + cost]
         /\ observed' = Larger(observed, pending + cost)
         /\ IF FeedbackGoesOn(end)
            THEN pc' = "gate" /\ attempt' = attempt + 1 /\ UNCHANGED <<verdict, reason>>
            ELSE ConcludeFeedback(end) /\ UNCHANGED attempt
    /\ UNCHANGED <<setup, session, annot, green, record, pending>>

\* The transcript of the worker's runs is scanned for access to the oracle.
CheatScan ==
    /\ pc = "concluding"
    /\ pc' = "ended"
    /\ \E cheated \in BOOLEAN :
         /\ cheated => lastEnd # "none"
         /\ verdict' = IF cheated THEN "CHEAT" ELSE verdict
         /\ reason' = IF cheated THEN "cheat_detected" ELSE reason
    /\ UNCHANGED <<setup, attempt, worker, green, record, money, remaining>>

Next ==
    \/ InitialBudget \/ FirstRun
    \/ GateTimeoutError \/ Gated
    \/ GatesGreen \/ CeilingReached \/ FeedbackSkipped \/ MockContinues
    \/ SessionMissing \/ NextBudget
    \/ PassVerdictRun \/ FeedbackRun
    \/ CheatScan

Spec == Init /\ [][Next]_vars

(***************************************************************************)
(* What the scorecard makes of the cell.                                   *)
(***************************************************************************)
Card == INSTANCE RunArtifacts WITH S <- 1

\* BackgammonCellResult: conformed is that of the last report.
CellReport ==
    [conformed |-> \E r \in final : r.conformed, truncated |-> truncated,
     termination_reason |-> reason]

\* progress_from_cell_result takes full_green from conformed; the truncation signal
\* is that of the terminal attempt's record.
CellResult ==
    [green |-> CellReport.conformed,
     truncated |-> CellReport.truncated \/ CellReport.termination_reason = "transport_incomplete"]

Scored == Card!Outcome(CellResult)

(***************************************************************************)
(* Properties.                                                             *)
(***************************************************************************)
Verdicts == {"PASS", "FAIL", "BUDGET_STOP", "CHEAT"}

Reasons ==
    {"pending", "harness_error", "attempts_exhausted_by_budget", "budget_stop_mid_attempt",
     "zero_tool_turn_honest_fail", "gate_timeout", "gates_green", "attempt_ceiling_reached",
     "transport_incomplete", "cheat_detected"}

\* The attempt stays within its ceiling, amounts are natural numbers, and a cell
\* that has ended has a termination reason: the label "pending" never gets out.
TypeOK ==
    /\ pc \in PCs
    /\ setup \in Setups
    /\ attempt \in Attempts
    /\ session \in BOOLEAN /\ annot \in BOOLEAN /\ truncated \in BOOLEAN
    /\ lastEnd \in Ends \cup {"none"}
    /\ verdict \in Verdicts
    /\ reason \in (IF pc \in {"concluding", "ended"} THEN Reasons \ {"pending"} ELSE Reasons)
    /\ green \in SUBSET (0 .. MaxAttempts - 1)
    /\ reports \in Seq(AttemptReports)
    /\ final \in SUBSET GateReports
    /\ costs \in [Attempts -> Nat] /\ spentOn \in [Attempts -> Nat]
    /\ observed \in Nat /\ pending \in Nat /\ cellCost \in Nat /\ remaining \in Nat

\* The verdict is the gates': whatever else was noted on the way, a cell ends as
\* PASS exactly when its last gate report passed and no cheat was found, and then
\* attempts_to_green is the number of attempts that failed before.
VerdictIsGates ==
    pc = "ended" =>
        /\ verdict = "PASS" => Passed
        /\ Passed => verdict \in {"PASS", "CHEAT"} /\ green # {}
        /\ Passed /\ reports # <<>> => green = {Len(reports) - 1}

\* The books add up: the cell costs what its runs were metered at, and the cost in
\* an attempt report is that of all the runs made for the attempt, the pass verdict
\* (feedback-pass-injection) included.
CostsAddUp ==
    /\ cellCost = Total(spentOn, MaxAttempts)
    /\ \A i \in DOMAIN reports : reports[i].cost = spentOn[reports[i].attempt]

\* A worker that died, or that has no session left, gets no more feedback.
DeadWorkerLeftAlone ==
    [][PassVerdictRun \/ FeedbackRun => lastEnd \notin {"error", "honest"} /\ session]_vars

\* BUDGET_STOP is true: the money left is less than the dearest attempt (or the
\* fallback estimate), or the run that was just made met the end of the budget.
BudgetStopIsReal ==
    pc = "ended" /\ verdict = "BUDGET_STOP" =>
        \/ reason = "attempts_exhausted_by_budget" /\ remaining < Estimate
        \/ reason = "budget_stop_mid_attempt" /\ lastEnd = "budget"

\* A cell that passes its gates is scored as passed (build_scorecard), truncated
\* turns or not.
PassIsScored == pc = "ended" /\ verdict = "PASS" => Scored = "scored_pass"

\* A cell in which cheating was found is not counted as passed.
CheatNeverPass == pc = "ended" /\ verdict = "CHEAT" => Scored # "scored_pass"
=============================================================================
