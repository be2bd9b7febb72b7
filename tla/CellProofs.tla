----------------------------- MODULE CellProofs -----------------------------
(***************************************************************************)
(* The verdict, the labels and the books of a cell, for every number of    *)
(* attempts, set of gates, metering and budget; and the hold in which the  *)
(* finished cell waits for its review.                                     *)
(*                                                                         *)
(* None of the properties is inductive.  Verdict ties them to the place in *)
(* the round: as long as the cell goes on, no report has passed and the    *)
(* verdict is not PASS.  Settled says which of the costs are final, and    *)
(* that the cost of a pass verdict is pending until its feedback was run.  *)
(* The hold has variables and an invariant of its own (HoldInv).           *)
(***************************************************************************)
EXTENDS CellRun, UiHold, TotalsProofs

Going == {"start", "first", "gate", "review", "pass", "feedback"}

(***************************************************************************)
(* The inductive invariant.                                                *)
(***************************************************************************)
\* A round that goes on has an attempt left.
Rounds == pc \in {"pass", "feedback"} => attempt < MaxAttempts

\* No report has passed unless the cell is being reviewed or is over.
Verdict ==
    /\ pc \in {"start", "first"} => attempt = 1 /\ final = {} /\ ~annot
    /\ pc \in Going \ {"review"} => ~Passed
    /\ pc \in Going => verdict \in {"FAIL", "BUDGET_STOP"}
    /\ pc = "concluding" => verdict # "CHEAT" /\ (verdict = "PASS" <=> Passed)
    /\ pc = "ended" => (verdict = "PASS" => Passed)
                       /\ (Passed => verdict \in {"PASS", "CHEAT"})
    /\ pc \in {"concluding", "ended"} /\ Passed => green = {attempt - 1}

\* One report per attempt, unless the worker died.
Lengths ==
    /\ annot => reports = <<>>
    /\ ~annot /\ pc \in {"start", "first", "gate"} => Len(reports) = attempt - 1
    /\ ~annot /\ pc \in {"review", "pass", "feedback"} => Len(reports) = attempt
    /\ ~annot /\ pc \in {"concluding", "ended"} /\ Passed => Len(reports) = attempt

\* A worker that may be fed back to is alive; one that died has failed.
Alive ==
    /\ pc \in {"start", "first"} => ~session
    /\ pc \in {"pass", "feedback"} => session /\ ~annot
    /\ pc \in {"gate", "review", "pass", "feedback"} /\ ~annot /\ session
         => lastEnd \notin {"error", "honest"}
    /\ pc \in {"gate", "review"} /\ annot => verdict = "FAIL"

\* BUDGET_STOP is true when it is decided.
Labels ==
    pc \in {"concluding", "ended"} /\ verdict = "BUDGET_STOP" =>
        \/ reason = "attempts_exhausted_by_budget" /\ remaining < Estimate
        \/ reason = "budget_stop_mid_attempt" /\ lastEnd = "budget"

\* The cell costs what its runs cost, and a report has the cost of its attempt.
Filed ==
    /\ cellCost = Total(spentOn, MaxAttempts)
    /\ \A i \in DOMAIN reports :
         reports[i].attempt <= attempt /\ reports[i].cost = spentOn[reports[i].attempt]
    /\ pc \in {"start", "first"} => reports = <<>>

\* What the runs for the attempts so far cost is settled, what the pass verdict
\* cost is pending, and nothing else was spent.
Settled ==
    /\ pc \in {"start", "first"} => spentOn[1] = 0
    /\ pc \in Going => \A a \in Attempts :
         /\ a <= attempt => spentOn[a] = costs[a]
         /\ a > attempt => /\ costs[a] = 0
                           /\ spentOn[a] = IF a = attempt + 1 /\ pc \in {"pass", "feedback"}
                                           THEN pending ELSE 0

(***************************************************************************)
(* Helpers.                                                                *)
(***************************************************************************)
\* A run of the worker leaves a natural number of dollars on the ledger.
LEMMA SpendNat ==
    ASSUME TypeOK, NEW cost \in Nat, Spend(cost)
    PROVE  remaining' \in Nat
BY CellAssumption DEF TypeOK, Spend

\* The report that is filed is one, and the others stay.
LEMMA ReportedType ==
    ASSUME TypeOK, NEW g \in GateReports
    PROVE  Reported(g) \in Seq(AttemptReports)
<1>1. [attempt |-> attempt, gates |-> g, cost |-> costs[attempt]] \in AttemptReports
  BY DEF TypeOK, AttemptReports
<1>2. QED
  BY <1>1 DEF TypeOK, Reported

\* The report of a killed gate runner is one.
LEMMA NoGatesType == NoGates \in GateReports
BY DEF NoGates, GateReports

\* A budget stop is decided on the checkpoint.
LEMMA StopMeansShort ==
    ASSUME TypeOK, "budget_stop" \in Decisions
    PROVE  remaining < Estimate
<1>1. setup.meter \in {"checkpoint", "missing", "unbounded"}
  BY CellAssumption DEF TypeOK, Setups
<1>2. remaining \in Nat /\ Estimate \in Nat
  BY CellAssumption DEF TypeOK, Estimate, Larger
<1>3. setup.meter = "checkpoint"
  BY <1>1 DEF Decisions
<1>4. QED
  BY <1>2, <1>3 DEF Decisions

(***************************************************************************)
(* Types.                                                                  *)
(***************************************************************************)
\* A cell starts well typed.
LEMMA InitTypes == Init => TypeOK /\ Rounds
<1> SUFFICES ASSUME Init PROVE TypeOK /\ Rounds
  OBVIOUS
<1>1. reports \in Seq(AttemptReports) /\ final \in SUBSET GateReports
      /\ green \in SUBSET (0 .. MaxAttempts - 1)
  BY DEF Init
<1>2. attempt \in Attempts /\ costs \in [Attempts -> Nat] /\ spentOn \in [Attempts -> Nat]
      /\ observed \in Nat /\ pending \in Nat /\ cellCost \in Nat /\ remaining \in Nat
  BY CellAssumption DEF Init, Attempts
<1>3. session \in BOOLEAN /\ annot \in BOOLEAN /\ truncated \in BOOLEAN
  BY DEF Init
<1>4. QED
  BY <1>1, <1>2, <1>3 DEF Init, TypeOK, Rounds, PCs, Verdicts, Reasons

\* Every step keeps the types, and goes on only below the ceiling.
LEMMA TypesPreserved ==
    ASSUME TypeOK, Rounds, [Next]_vars PROVE TypeOK' /\ Rounds'
<1> USE CellAssumption DEF TypeOK, Rounds, PCs, Attempts, Verdicts, Reasons, Ends, ProcessEnds
<1> USE DEF outcome, record, money, worker
<1>1. CASE InitialBudget
  BY <1>1 DEF InitialBudget
<1>2. CASE FirstRun
  <2>1. PICK end \in Ends, cost \in Costs, sid \in BOOLEAN :
            /\ Metering(1, cost, end)
            /\ costs' = [costs EXCEPT ![1] = cost]
            /\ observed' = Larger(observed, cost)
            /\ session' = sid
            /\ annot' = (end = "error")
            /\ FirstLabel(end)
    BY <1>2 DEF FirstRun
  <2>2. cost \in Nat /\ remaining' \in Nat
    BY <2>1, SpendNat DEF Metering
  <2>3. costs' \in [1 .. MaxAttempts -> Nat] /\ spentOn' \in [1 .. MaxAttempts -> Nat]
        /\ cellCost' \in Nat /\ observed' \in Nat
    BY <2>1, <2>2 DEF Metering, Larger
  <2>4. verdict' \in Verdicts /\ reason' \in Reasons
    BY <2>1 DEF FirstLabel
  <2>5. QED
    BY <1>2, <2>1, <2>2, <2>3, <2>4 DEF FirstRun, Metering
<1>3. CASE GateTimeoutError
  BY <1>3, ReportedType, NoGatesType DEF GateTimeoutError, Conclude
<1>4. CASE Gated
  <2>1. PICK r \in GateReports : reports' = Reported(r) /\ final' = {r}
    BY <1>4 DEF Gated
  <2>2. reports' \in Seq(AttemptReports) /\ final' \in SUBSET GateReports
    BY <2>1, ReportedType
  <2>3. QED
    BY <1>4, <2>2 DEF Gated
<1>5. CASE GatesGreen
  BY <1>5 DEF GatesGreen, Conclude, Passed
<1>6. CASE CeilingReached
  BY <1>6 DEF CeilingReached, Conclude
<1>7. CASE FeedbackSkipped
  BY <1>7 DEF FeedbackSkipped, GoesOn, Conclude
<1>8. CASE MockContinues
  BY <1>8 DEF MockContinues, GoesOn
<1>9. CASE SessionMissing
  BY <1>9 DEF SessionMissing, GoesOn, Conclude
<1>10. CASE NextBudget
  <2>1. remaining' \in Nat
    BY <1>10, SpendNat DEF NextBudget, CompactAttemptBoundary
  <2>2. QED
    BY <1>10, <2>1 DEF NextBudget, GoesOn, Conclude
<1>11. CASE PassVerdictRun
  <2>1. PICK end \in FeedbackEnds, cost \in Costs :
            /\ Metering(attempt + 1, cost, end)
            /\ pending' = pending + cost
            /\ IF FeedbackGoesOn(end)
               THEN pc' = "feedback" /\ UNCHANGED <<verdict, reason>>
               ELSE ConcludeFeedback(end)
    BY <1>11 DEF PassVerdictRun
  <2>2. cost \in Nat /\ remaining' \in Nat
    BY <2>1, SpendNat DEF Metering
  <2>3. spentOn' \in [1 .. MaxAttempts -> Nat] /\ cellCost' \in Nat /\ pending' \in Nat
    <3>1. attempt + 1 \in 1 .. MaxAttempts
      BY <1>11 DEF PassVerdictRun
    <3>2. spentOn[attempt + 1] + cost \in Nat
      BY <2>2, <3>1
    <3>3. QED
      BY <2>1, <2>2, <3>1, <3>2 DEF Metering
  <2>4. QED
    BY <1>11, <2>1, <2>2, <2>3
       DEF PassVerdictRun, Metering, FeedbackEnds, ConcludeFeedback, Conclude
<1>12. CASE FeedbackRun
  <2>1. PICK end \in FeedbackEnds, cost \in Costs :
            /\ Metering(attempt + 1, cost, end)
            /\ costs' = [costs EXCEPT ![attempt + 1] = pending + cost]
            /\ observed' = Larger(observed, pending + cost)
            /\ IF FeedbackGoesOn(end)
               THEN pc' = "gate" /\ attempt' = attempt + 1 /\ UNCHANGED <<verdict, reason>>
               ELSE ConcludeFeedback(end) /\ UNCHANGED attempt
    BY <1>12 DEF FeedbackRun
  <2>2. cost \in Nat /\ remaining' \in Nat
    BY <2>1, SpendNat DEF Metering
  <2>3. /\ attempt + 1 \in 1 .. MaxAttempts
        /\ spentOn' \in [1 .. MaxAttempts -> Nat] /\ costs' \in [1 .. MaxAttempts -> Nat]
        /\ cellCost' \in Nat /\ observed' \in Nat
    <3>1. attempt + 1 \in 1 .. MaxAttempts
      BY <1>12 DEF FeedbackRun
    <3>2. spentOn[attempt + 1] + cost \in Nat /\ pending + cost \in Nat
      BY <2>2, <3>1
    <3>3. spentOn' \in [1 .. MaxAttempts -> Nat] /\ costs' \in [1 .. MaxAttempts -> Nat]
      BY <2>1, <3>1, <3>2 DEF Metering
    <3>4. cellCost' \in Nat /\ observed' \in Nat
      BY <2>1, <2>2, <3>2 DEF Metering, Larger
    <3>5. QED
      BY <3>1, <3>3, <3>4
  <2>4. attempt' \in 1 .. MaxAttempts
    BY <2>1, <2>3
  <2>5. QED
    BY <1>12, <2>1, <2>2, <2>3, <2>4
       DEF FeedbackRun, Metering, FeedbackEnds, ConcludeFeedback, Conclude
<1>13. CASE CheatScan
  BY <1>13 DEF CheatScan
<1>14. CASE UNCHANGED vars
  BY <1>14 DEF vars
<1>15. QED
  BY <1>1, <1>2, <1>3, <1>4, <1>5, <1>6, <1>7, <1>8, <1>9, <1>10, <1>11, <1>12, <1>13, <1>14
     DEF Next

(***************************************************************************)
(* Verdicts and labels.                                                    *)
(***************************************************************************)
\* Every step keeps the verdict in line with the last report.
LEMMA VerdictPreserved ==
    ASSUME TypeOK, Verdict, [Next]_vars PROVE Verdict'
<1> USE DEF TypeOK, PCs, Verdict, Going, Passed, outcome, record, money, worker
<1>1. CASE InitialBudget
  BY <1>1 DEF InitialBudget
<1>2. CASE FirstRun
  BY <1>2 DEF FirstRun, Metering, FirstLabel
<1>3. CASE GateTimeoutError
  BY <1>3 DEF GateTimeoutError, Conclude
<1>4. CASE Gated
  BY <1>4 DEF Gated
<1>5. CASE GatesGreen
  BY <1>5 DEF GatesGreen, Conclude
<1>6. CASE CeilingReached
  BY <1>6 DEF CeilingReached, Conclude
<1>7. CASE FeedbackSkipped
  BY <1>7 DEF FeedbackSkipped, GoesOn, Conclude
<1>8. CASE MockContinues
  BY <1>8 DEF MockContinues, GoesOn
<1>9. CASE SessionMissing
  BY <1>9 DEF SessionMissing, GoesOn, Conclude
<1>10. CASE NextBudget
  BY <1>10 DEF NextBudget, GoesOn, Conclude
<1>11. CASE PassVerdictRun
  BY <1>11 DEF PassVerdictRun, Metering, FeedbackGoesOn, ConcludeFeedback, Conclude
<1>12. CASE FeedbackRun
  BY <1>12 DEF FeedbackRun, Metering, FeedbackGoesOn, ConcludeFeedback, Conclude
<1>13. CASE CheatScan
  BY <1>13 DEF CheatScan
<1>14. CASE UNCHANGED vars
  BY <1>14 DEF vars
<1>15. QED
  BY <1>1, <1>2, <1>3, <1>4, <1>5, <1>6, <1>7, <1>8, <1>9, <1>10, <1>11, <1>12, <1>13, <1>14
     DEF Next

\* Every step keeps feedback to workers that are alive.
LEMMA AlivePreserved ==
    ASSUME TypeOK, Verdict, Alive, [Next]_vars PROVE Alive'
<1> USE DEF TypeOK, PCs, Alive, outcome, record, money, worker
<1>1. CASE InitialBudget
  BY <1>1 DEF InitialBudget, Verdict
<1>2. CASE FirstRun
  BY <1>2 DEF FirstRun, Metering, FirstLabel, Ends
<1>3. CASE GateTimeoutError
  BY <1>3 DEF GateTimeoutError, Conclude
<1>4. CASE Gated
  BY <1>4 DEF Gated
<1>5. CASE GatesGreen
  BY <1>5 DEF GatesGreen, Conclude
<1>6. CASE CeilingReached
  BY <1>6 DEF CeilingReached, Conclude
<1>7. CASE FeedbackSkipped
  BY <1>7 DEF FeedbackSkipped, GoesOn, Conclude
<1>8. CASE MockContinues
  BY <1>8 DEF MockContinues, GoesOn
<1>9. CASE SessionMissing
  BY <1>9 DEF SessionMissing, GoesOn, Conclude
<1>10. CASE NextBudget
  BY <1>10 DEF NextBudget, GoesOn, Conclude
<1>11. CASE PassVerdictRun
  BY <1>11 DEF PassVerdictRun, Metering, FeedbackGoesOn, ConcludeFeedback, Conclude, FeedbackEnds
<1>12. CASE FeedbackRun
  BY <1>12 DEF FeedbackRun, Metering, FeedbackGoesOn, ConcludeFeedback, Conclude, FeedbackEnds
<1>13. CASE CheatScan
  BY <1>13 DEF CheatScan
<1>14. CASE UNCHANGED vars
  BY <1>14 DEF vars
<1>15. QED
  BY <1>1, <1>2, <1>3, <1>4, <1>5, <1>6, <1>7, <1>8, <1>9, <1>10, <1>11, <1>12, <1>13, <1>14
     DEF Next

\* Every step keeps the label BUDGET_STOP true.
LEMMA LabelsPreserved ==
    ASSUME TypeOK, Verdict, Alive, Labels, [Next]_vars PROVE Labels'
<1> USE DEF TypeOK, PCs, Labels, Estimate, Larger, outcome, record, money, worker
<1>1. CASE InitialBudget
  BY <1>1 DEF InitialBudget
<1>2. CASE FirstRun
  BY <1>2 DEF FirstRun, Metering, FirstLabel
<1>3. CASE GateTimeoutError
  BY <1>3 DEF GateTimeoutError, Conclude
<1>4. CASE Gated
  BY <1>4 DEF Gated
<1>5. CASE GatesGreen
  BY <1>5 DEF GatesGreen, Conclude
<1>6. CASE CeilingReached
  BY <1>6 DEF CeilingReached, Conclude
<1>7. CASE FeedbackSkipped
  BY <1>7 DEF FeedbackSkipped, GoesOn, Conclude, Alive
<1>8. CASE MockContinues
  BY <1>8 DEF MockContinues, GoesOn
<1>9. CASE SessionMissing
  BY <1>9 DEF SessionMissing, GoesOn, Conclude
<1>10. CASE NextBudget
  BY <1>10, StopMeansShort DEF NextBudget, GoesOn, Conclude
<1>11. CASE PassVerdictRun
  BY <1>11 DEF PassVerdictRun, Metering, FeedbackGoesOn, ConcludeFeedback, Conclude
<1>12. CASE FeedbackRun
  BY <1>12 DEF FeedbackRun, Metering, FeedbackGoesOn, ConcludeFeedback, Conclude
<1>13. CASE CheatScan
  BY <1>13 DEF CheatScan
<1>14. CASE UNCHANGED vars
  BY <1>14 DEF vars
<1>15. QED
  BY <1>1, <1>2, <1>3, <1>4, <1>5, <1>6, <1>7, <1>8, <1>9, <1>10, <1>11, <1>12, <1>13, <1>14
     DEF Next

\* Every step keeps one report per attempt.
LEMMA LengthsPreserved ==
    ASSUME TypeOK, Rounds, Verdict, Alive, Lengths, [Next]_vars PROVE Lengths'
<1> USE DEF TypeOK, Rounds, PCs, Lengths, Passed, outcome, record, money, worker
<1>1. CASE InitialBudget
  BY <1>1 DEF InitialBudget
<1>2. CASE FirstRun
  BY <1>2 DEF FirstRun, Metering, FirstLabel, Verdict
<1>3. CASE GateTimeoutError
  BY <1>3 DEF GateTimeoutError, Conclude, Reported, Verdict, Going
<1>4. CASE Gated
  <2>1. PICK r \in GateReports : reports' = Reported(r)
    BY <1>4 DEF Gated
  <2>2. annot => reports' = <<>>
    BY <2>1 DEF Reported
  <2>3. ~annot => Len(reports') = attempt
    BY <1>4, <2>1 DEF Gated, Reported, Attempts
  <2>4. QED
    BY <1>4, <2>2, <2>3 DEF Gated
<1>5. CASE GatesGreen
  BY <1>5 DEF GatesGreen, Conclude
<1>6. CASE CeilingReached
  BY <1>6 DEF CeilingReached, Conclude
<1>7. CASE FeedbackSkipped
  BY <1>7 DEF FeedbackSkipped, GoesOn, Conclude
<1>8. CASE MockContinues
  BY <1>8 DEF MockContinues, GoesOn
<1>9. CASE SessionMissing
  BY <1>9 DEF SessionMissing, GoesOn, Conclude
<1>10. CASE NextBudget
  BY <1>10 DEF NextBudget, GoesOn, Conclude, Alive
<1>11. CASE PassVerdictRun
  BY <1>11 DEF PassVerdictRun, Metering, FeedbackGoesOn, ConcludeFeedback, Conclude
<1>12. CASE FeedbackRun
  BY <1>12 DEF FeedbackRun, Metering, FeedbackGoesOn, ConcludeFeedback, Conclude, Alive
<1>13. CASE CheatScan
  BY <1>13 DEF CheatScan
<1>14. CASE UNCHANGED vars
  BY <1>14 DEF vars
<1>15. QED
  BY <1>1, <1>2, <1>3, <1>4, <1>5, <1>6, <1>7, <1>8, <1>9, <1>10, <1>11, <1>12, <1>13, <1>14
     DEF Next

\* Every step keeps the costs of the attempts settled.
LEMMA SettledPreserved ==
    ASSUME TypeOK, Rounds, Verdict, Settled, [Next]_vars PROVE Settled'
<1> USE DEF TypeOK, Attempts, Rounds, PCs, Settled, Going, outcome, record, money, worker
<1>1. CASE InitialBudget
  BY <1>1 DEF InitialBudget
<1>2. CASE FirstRun
  BY <1>2, CellAssumption DEF FirstRun, Metering, FirstLabel, Verdict
<1>3. CASE GateTimeoutError
  BY <1>3 DEF GateTimeoutError, Conclude
<1>4. CASE Gated
  BY <1>4 DEF Gated
<1>5. CASE GatesGreen
  BY <1>5 DEF GatesGreen, Conclude
<1>6. CASE CeilingReached
  BY <1>6 DEF CeilingReached, Conclude
<1>7. CASE FeedbackSkipped
  BY <1>7 DEF FeedbackSkipped, GoesOn, Conclude
<1>8. CASE MockContinues
  BY <1>8 DEF MockContinues, GoesOn
<1>9. CASE SessionMissing
  BY <1>9 DEF SessionMissing, GoesOn, Conclude
<1>10. CASE NextBudget
  BY <1>10 DEF NextBudget, GoesOn, Conclude
<1>11. CASE PassVerdictRun
  BY <1>11, CellAssumption DEF PassVerdictRun, Metering, FeedbackGoesOn, ConcludeFeedback, Conclude
<1>12. CASE FeedbackRun
  BY <1>12, CellAssumption DEF FeedbackRun, Metering, FeedbackGoesOn, ConcludeFeedback, Conclude
<1>13. CASE CheatScan
  BY <1>13 DEF CheatScan
<1>14. CASE UNCHANGED vars
  BY <1>14 DEF vars
<1>15. QED
  BY <1>1, <1>2, <1>3, <1>4, <1>5, <1>6, <1>7, <1>8, <1>9, <1>10, <1>11, <1>12, <1>13, <1>14
     DEF Next

\* A run of the worker keeps the books balanced.
LEMMA MeteringBalances ==
    ASSUME TypeOK, Filed, NEW a \in Attempts, NEW cost \in Nat, NEW end, Metering(a, cost, end)
    PROVE  cellCost' = Total(spentOn', MaxAttempts)
<1>1. MaxAttempts \in Nat /\ a \in 1 .. MaxAttempts /\ spentOn \in [1 .. MaxAttempts -> Nat]
      /\ spentOn[a] + cost \in Nat
  BY CellAssumption DEF TypeOK, Attempts
<1>2. Total(spentOn', MaxAttempts) = (Total(spentOn, MaxAttempts) - spentOn[a]) + (spentOn[a] + cost)
  BY <1>1, TotalUpdate DEF Metering
<1>3. Total(spentOn, MaxAttempts) \in Nat /\ spentOn[a] \in Nat
  BY <1>1, TotalNat
<1>4. QED
  BY <1>2, <1>3 DEF Metering, Filed

\* Filing a report of the attempt whose costs are settled.
LEMMA FilingReports ==
    ASSUME TypeOK, Filed, Settled, pc = "gate", NEW g \in GateReports,
           reports' = Reported(g), spentOn' = spentOn, attempt' = attempt
    PROVE  \A i \in DOMAIN reports' :
             reports'[i].attempt <= attempt' /\ reports'[i].cost = spentOn'[reports'[i].attempt]
<1> DEFINE rep == [attempt |-> attempt, gates |-> g, cost |-> costs[attempt]]
<1>1. attempt \in Attempts /\ attempt <= attempt /\ costs[attempt] = spentOn[attempt]
  BY DEF TypeOK, Settled, Going, Attempts
<1>2. rep.attempt = attempt /\ rep.cost = spentOn[attempt] /\ rep \in AttemptReports
  BY <1>1 DEF TypeOK, AttemptReports
<1> HIDE DEF rep
<1>3. CASE annot
  BY <1>3 DEF Filed, Reported
<1>4. CASE ~annot
  <2>1. reports' = Append(reports, rep) /\ reports \in Seq(AttemptReports)
    BY <1>4 DEF Reported, rep, TypeOK
  <2>2. \A i \in DOMAIN reports' : (i \in DOMAIN reports /\ reports'[i] = reports[i]) \/ reports'[i] = rep
    BY <1>2, <2>1
  <2>3. QED
    BY <1>1, <1>2, <2>2 DEF Filed
<1>5. QED
  BY <1>3, <1>4

\* Every report is of one of the attempts.
LEMMA ReportAttempts ==
    ASSUME TypeOK PROVE \A i \in DOMAIN reports : reports[i].attempt \in Attempts
<1>1. \A i \in DOMAIN reports : reports[i] \in AttemptReports
  BY DEF TypeOK
<1>2. QED
  BY <1>1 DEF AttemptReports

\* A step that makes no run and files no report.
LEMMA FiledUnchanged ==
    ASSUME TypeOK, Filed, TypeOK', UNCHANGED <<cellCost, spentOn, reports>>, attempt' >= attempt,
           pc' \in {"start", "first"} => pc \in {"start", "first"}
    PROVE  Filed'
<1>1. \A i \in DOMAIN reports : reports[i].attempt \in Int
  BY ReportAttempts DEF Attempts
<1>2. attempt \in Int /\ attempt' \in Int
  BY DEF TypeOK, Attempts
<1>3. QED
  BY <1>1, <1>2 DEF Filed

\* A run for an attempt that has no report yet.
LEMMA FiledMetering ==
    ASSUME TypeOK, Filed, TypeOK', NEW a \in Attempts, NEW cost \in Nat, NEW end,
           Metering(a, cost, end), reports' = reports, attempt' >= attempt,
           a > attempt \/ reports = <<>>, pc' \notin {"start", "first"}
    PROVE  Filed'
<1>1. \A i \in DOMAIN reports : reports[i].attempt \in Attempts
  BY ReportAttempts
<1>2. attempt \in Attempts /\ attempt' \in Attempts
  BY DEF TypeOK
<1>3. ASSUME NEW i \in DOMAIN reports
      PROVE  reports[i].attempt <= attempt' /\ reports[i].cost = spentOn'[reports[i].attempt]
  <2>1. reports[i].attempt <= attempt /\ reports[i].attempt # a
    BY <1>1, <1>2, <1>3 DEF Filed, Attempts
  <2>2. spentOn'[reports[i].attempt] = spentOn[reports[i].attempt]
    BY <1>1, <1>3, <2>1 DEF Metering, TypeOK
  <2>3. reports[i].attempt <= attempt'
    BY <1>1, <1>2, <1>3, <2>1 DEF Attempts
  <2>4. QED
    BY <1>3, <2>2, <2>3 DEF Filed
<1>4. cellCost' = Total(spentOn', MaxAttempts)
  BY MeteringBalances
<1>5. QED
  BY <1>3, <1>4 DEF Filed

\* Every step keeps the reports in line with the books.
LEMMA FiledPreserved ==
    ASSUME TypeOK, TypeOK', Rounds, Filed, Settled, [Next]_vars PROVE Filed'
<1> USE DEF outcome, record, money, worker
<1>0. attempt \in Int /\ attempt >= attempt /\ attempt + 1 >= attempt
  BY DEF TypeOK, Attempts
<1>1. CASE InitialBudget
  BY <1>1, <1>0, FiledUnchanged DEF InitialBudget
<1>2. CASE FirstRun
  <2>1. PICK end \in Ends, cost \in Costs : Metering(1, cost, end)
    BY <1>2 DEF FirstRun
  <2>2. cost \in Nat /\ 1 \in Attempts
    BY CellAssumption DEF Attempts
  <2>3. reports = <<>> /\ reports' = reports /\ attempt' >= attempt
    BY <1>2 DEF FirstRun, Filed, TypeOK, Attempts
  <2>4. QED
    BY <1>2, <2>1, <2>2, <2>3, FiledMetering DEF FirstRun
<1>3. CASE GateTimeoutError
  <2>1. \A i \in DOMAIN reports' :
          reports'[i].attempt <= attempt' /\ reports'[i].cost = spentOn'[reports'[i].attempt]
    BY <1>3, FilingReports, NoGatesType DEF GateTimeoutError
  <2>2. QED
    BY <1>3, <2>1 DEF GateTimeoutError, Conclude, Filed
<1>4. CASE Gated
  <2>1. \A i \in DOMAIN reports' :
          reports'[i].attempt <= attempt' /\ reports'[i].cost = spentOn'[reports'[i].attempt]
    BY <1>4, FilingReports DEF Gated
  <2>2. QED
    BY <1>4, <2>1 DEF Gated, Filed
<1>5. CASE GatesGreen
  BY <1>5, <1>0, FiledUnchanged DEF GatesGreen, Conclude
<1>6. CASE CeilingReached
  BY <1>6, <1>0, FiledUnchanged DEF CeilingReached, Conclude
<1>7. CASE FeedbackSkipped
  BY <1>7, <1>0, FiledUnchanged DEF FeedbackSkipped, GoesOn, Conclude
<1>8. CASE MockContinues
  BY <1>8, <1>0, FiledUnchanged DEF MockContinues, GoesOn
<1>9. CASE SessionMissing
  BY <1>9, <1>0, FiledUnchanged DEF SessionMissing, GoesOn, Conclude
<1>10. CASE NextBudget
  BY <1>10, <1>0, FiledUnchanged DEF NextBudget, GoesOn, Conclude
<1>11. CASE PassVerdictRun
  <2>1. PICK end \in FeedbackEnds, cost \in Costs : Metering(attempt + 1, cost, end)
    BY <1>11 DEF PassVerdictRun
  <2>2. cost \in Nat /\ attempt + 1 \in Attempts /\ attempt + 1 > attempt
    BY <1>11, CellAssumption DEF PassVerdictRun, TypeOK, Rounds, Attempts
  <2>3. reports' = reports /\ attempt' >= attempt /\ pc' \notin {"start", "first"}
    BY <1>11 DEF PassVerdictRun, FeedbackGoesOn, ConcludeFeedback, Conclude, TypeOK, Attempts
  <2>4. QED
    BY <2>1, <2>2, <2>3, FiledMetering
<1>12. CASE FeedbackRun
  <2>1. PICK end \in FeedbackEnds, cost \in Costs : Metering(attempt + 1, cost, end)
    BY <1>12 DEF FeedbackRun
  <2>2. cost \in Nat /\ attempt + 1 \in Attempts /\ attempt + 1 > attempt
    BY <1>12, CellAssumption DEF FeedbackRun, TypeOK, Rounds, Attempts
  <2>3. reports' = reports /\ attempt' >= attempt /\ pc' \notin {"start", "first"}
    BY <1>12 DEF FeedbackRun, FeedbackGoesOn, ConcludeFeedback, Conclude, TypeOK, Attempts
  <2>4. QED
    BY <2>1, <2>2, <2>3, FiledMetering
<1>13. CASE CheatScan
  BY <1>13, <1>0, FiledUnchanged DEF CheatScan
<1>14. CASE UNCHANGED vars
  BY <1>14, <1>0, FiledUnchanged DEF vars
<1>15. QED
  BY <1>1, <1>2, <1>3, <1>4, <1>5, <1>6, <1>7, <1>8, <1>9, <1>10, <1>11, <1>12, <1>13, <1>14
     DEF Next

(***************************************************************************)
(* The theorems.                                                           *)
(***************************************************************************)
\* All of the above, which is inductive.
CellInv ==
    TypeOK /\ Rounds /\ Verdict /\ Lengths /\ Alive /\ Labels /\ Filed /\ Settled

\* A cell starts with nothing spent and nothing decided.
LEMMA InitCell == Init => CellInv
<1> SUFFICES ASSUME Init PROVE CellInv
  OBVIOUS
<1>1. TypeOK /\ Rounds
  BY InitTypes
<1>2. Verdict /\ Lengths /\ Alive /\ Labels
  BY DEF Init, Verdict, Lengths, Alive, Labels, Going, Passed
<1>3. Settled
  BY <1>1 DEF Init, Settled, Attempts, TypeOK
<1>4. Filed
  <2>1. Total(spentOn, MaxAttempts) = 0
    BY CellAssumption, ZeroTotal DEF Init, Attempts
  <2>2. QED
    BY <2>1 DEF Init, Filed
<1>5. QED
  BY <1>1, <1>2, <1>3, <1>4 DEF CellInv

\* Every behaviour of a cell keeps the invariant.
LEMMA CellInvariant == Spec => []CellInv
<1>1. CellInv /\ [Next]_vars => CellInv'
  BY TypesPreserved, VerdictPreserved, LengthsPreserved, AlivePreserved, LabelsPreserved,
     FiledPreserved, SettledPreserved DEF CellInv
<1>2. QED
  BY <1>1, InitCell, PTL DEF Spec

\* The attempts stay within their ceiling, and no cell reports "pending".
THEOREM CellTypeCorrect == Spec => []TypeOK
<1>1. CellInv => TypeOK
  BY DEF CellInv
<1>2. QED
  BY <1>1, CellInvariant, PTL

\* Whatever was noted on the way, the gates decide: a cell ends as PASS exactly when
\* its last gate report passed and no cheat was found.
THEOREM GatesDecide == Spec => []VerdictIsGates
<1>1. CellInv => VerdictIsGates
  BY DEF CellInv, VerdictIsGates, Verdict, Lengths, TypeOK, Attempts
<1>2. QED
  BY <1>1, CellInvariant, PTL

\* The cost of a cell, and of each attempt in its reports, is that of the runs made.
THEOREM BooksBalance == Spec => []CostsAddUp
<1>1. CellInv => CostsAddUp
  BY DEF CellInv, CostsAddUp, Filed
<1>2. QED
  BY <1>1, CellInvariant, PTL

\* A BUDGET_STOP is one.
THEOREM BudgetStopsAreReal == Spec => []BudgetStopIsReal
<1>1. CellInv => BudgetStopIsReal
  BY DEF CellInv, BudgetStopIsReal, Labels
<1>2. QED
  BY <1>1, CellInvariant, PTL

\* A cell that passes its gates is scored as passed.
THEOREM PassesAreScored == Spec => []PassIsScored
<1>1. CellInv => PassIsScored
  <2> SUFFICES ASSUME CellInv, pc = "ended", verdict = "PASS" PROVE Scored = "scored_pass"
    BY DEF PassIsScored
  <2>1. \E r \in final : r.pass
    BY DEF CellInv, Verdict, Passed
  <2>2. \E r \in final : r.conformed
    BY <2>1 DEF CellInv, TypeOK, GateReports
  <2>3. CellResult.green
    BY <2>2 DEF CellResult, CellReport
  <2>4. QED
    BY <2>3 DEF Scored, Card!Outcome
<1>2. QED
  BY <1>1, CellInvariant, PTL

\* Feedback goes only to a worker that is alive and has a session.
THEOREM FeedbackReachesTheLiving == Spec => DeadWorkerLeftAlone
<1>1. CellInv /\ [Next]_vars
        => [PassVerdictRun \/ FeedbackRun => lastEnd \notin {"error", "honest"} /\ session]_vars
  BY DEF CellInv, Alive, PassVerdictRun, FeedbackRun
<1>2. QED
  BY <1>1, CellInvariant, PTL DEF Spec, DeadWorkerLeftAlone

-----------------------------------------------------------------------------
(***************************************************************************)
(* Holding the finished cell for review, for any number of holds, touches  *)
(* and faults.  The inductive invariant adds to the types: a listener that *)
(* is still there when the server boots was spared by a failed kill; a     *)
(* release file from before the clearing that is still there was spared by *)
(* a failed removal; and between holds no server belongs to anybody.       *)
(***************************************************************************)
StraySpared == (stage \in {"boot", "health"} /\ stray) => "listener" \in spared
OldSpared == (stage \in {"publish", "wait"} /\ sentinel = "old") => "sentinel" \in spared
NoServerBetween == stage \in {"idle", "unlink"} => server = "none"

HoldInv == HoldTypeOK /\ StraySpared /\ OldSpared /\ NoServerBetween /\ LinkIsOwn /\ ReleasedClean

\* The state before the first hold satisfies the invariant.
LEMMA HoldInitKeeps == HoldInit => HoldInv
<1> SUFFICES ASSUME HoldInit PROVE HoldInv
  OBVIOUS
<1>1. HoldTypeOK
  <2>1. raising \in BOOLEAN /\ stray \in BOOLEAN /\ looked \in BOOLEAN
    BY Zenon DEF HoldInit
  <2>2. holds \in 0 .. MaxHolds /\ touches \in 0 .. MaxTouches /\ faults \in 0 .. MaxFaults
    BY HoldBounds DEF HoldInit
  <2> QED
    BY <2>1, <2>2, Zenon DEF HoldInit, HoldTypeOK
<1>2. StraySpared /\ OldSpared /\ NoServerBetween /\ LinkIsOwn /\ ReleasedClean
  BY DEF HoldInit, StraySpared, OldSpared, NoServerBetween, LinkIsOwn, ReleasedClean
<1> QED
  BY <1>1, <1>2 DEF HoldInv

\* Start preserves the invariant.
LEMMA StartKeeps == HoldInv /\ Start => HoldInv'
<1> SUFFICES ASSUME HoldInv, Start PROVE HoldInv'
  OBVIOUS
<1> USE HoldBounds DEF HoldInv, Start, fileVars, operatorVars
<1>1. HoldTypeOK'
  <2>1. raising' \in BOOLEAN /\ stray' \in BOOLEAN /\ looked' \in BOOLEAN
    BY Zenon DEF HoldTypeOK
  <2>2. holds' \in 0 .. MaxHolds /\ touches' \in 0 .. MaxTouches /\ faults' \in 0 .. MaxFaults
    BY DEF HoldTypeOK
  <2>3. /\ stage' \in {"idle", "free", "boot", "health", "clear", "publish", "wait",
                       "stop", "unlink"}
        /\ last' \in {"none", "released", "raised", "killed"}
        /\ server' \in {"none", "booting", "serving", "exited"}
        /\ ui' \in {"no", "own", "other"}
        /\ sentinel' \in {"no", "old", "new"} /\ state' \in {"no", "stale", "live"}
        /\ spared' \subseteq {"listener", "sentinel", "files"}
    BY DEF HoldTypeOK
  <2> QED
    BY <2>1, <2>2, <2>3, Zenon DEF HoldTypeOK
<1>2. StraySpared' /\ OldSpared' /\ NoServerBetween'
  BY DEF HoldTypeOK, StraySpared, OldSpared, NoServerBetween
<1>3. LinkIsOwn' /\ ReleasedClean'
  BY DEF HoldTypeOK, StraySpared, NoServerBetween, LinkIsOwn, ReleasedClean
<1> QED
  BY <1>1, <1>2, <1>3

\* FreePort preserves the invariant.
LEMMA FreePortKeeps == HoldInv /\ FreePort => HoldInv'
<1> SUFFICES ASSUME HoldInv, FreePort PROVE HoldInv'
  OBVIOUS
<1> USE HoldBounds DEF HoldInv, FreePort, StrayLeft, Fault, fileVars, operatorVars
<1>1. HoldTypeOK'
  <2>1. raising' \in BOOLEAN /\ stray' \in BOOLEAN /\ looked' \in BOOLEAN
    BY Zenon DEF HoldTypeOK
  <2>2. holds' \in 0 .. MaxHolds /\ touches' \in 0 .. MaxTouches /\ faults' \in 0 .. MaxFaults
    BY DEF HoldTypeOK
  <2>3. /\ stage' \in {"idle", "free", "boot", "health", "clear", "publish", "wait",
                       "stop", "unlink"}
        /\ last' \in {"none", "released", "raised", "killed"}
        /\ server' \in {"none", "booting", "serving", "exited"}
        /\ ui' \in {"no", "own", "other"}
        /\ sentinel' \in {"no", "old", "new"} /\ state' \in {"no", "stale", "live"}
        /\ spared' \subseteq {"listener", "sentinel", "files"}
    BY DEF HoldTypeOK
  <2> QED
    BY <2>1, <2>2, <2>3, Zenon DEF HoldTypeOK
<1>2. StraySpared' /\ OldSpared' /\ NoServerBetween'
  BY DEF HoldTypeOK, StraySpared, OldSpared, NoServerBetween
<1>3. LinkIsOwn' /\ ReleasedClean'
  BY DEF HoldTypeOK, StraySpared, NoServerBetween, LinkIsOwn, ReleasedClean
<1> QED
  BY <1>1, <1>2, <1>3

\* Boot preserves the invariant.
LEMMA BootKeeps == HoldInv /\ Boot => HoldInv'
<1> SUFFICES ASSUME HoldInv, Boot PROVE HoldInv'
  OBVIOUS
<1> USE HoldBounds DEF HoldInv, Boot, fileVars, operatorVars
<1>1. HoldTypeOK'
  BY DEF HoldTypeOK
<1>2. StraySpared' /\ OldSpared' /\ NoServerBetween'
  BY DEF HoldTypeOK, StraySpared, OldSpared, NoServerBetween
<1>3. LinkIsOwn' /\ ReleasedClean'
  BY DEF HoldTypeOK, StraySpared, NoServerBetween, LinkIsOwn, ReleasedClean
<1> QED
  BY <1>1, <1>2, <1>3

\* Health preserves the invariant.
LEMMA HealthKeeps == HoldInv /\ Health => HoldInv'
<1> SUFFICES ASSUME HoldInv, Health PROVE HoldInv'
  OBVIOUS
<1> USE HoldBounds DEF HoldInv, Health, fileVars, operatorVars
<1>1. HoldTypeOK'
  BY DEF HoldTypeOK
<1>2. StraySpared' /\ OldSpared' /\ NoServerBetween'
  BY DEF HoldTypeOK, StraySpared, OldSpared, NoServerBetween
<1>3. LinkIsOwn' /\ ReleasedClean'
  BY DEF HoldTypeOK, StraySpared, NoServerBetween, LinkIsOwn, ReleasedClean
<1> QED
  BY <1>1, <1>2, <1>3

\* Clear preserves the invariant.
LEMMA ClearKeeps == HoldInv /\ Clear => HoldInv'
<1> SUFFICES ASSUME HoldInv, Clear PROVE HoldInv'
  OBVIOUS
<1> USE HoldBounds DEF HoldInv, Clear, Cleared, Fault, fileVars, operatorVars
<1>1. HoldTypeOK'
  <2>1. raising' \in BOOLEAN /\ stray' \in BOOLEAN /\ looked' \in BOOLEAN
    BY Zenon DEF HoldTypeOK
  <2>2. holds' \in 0 .. MaxHolds /\ touches' \in 0 .. MaxTouches /\ faults' \in 0 .. MaxFaults
    BY DEF HoldTypeOK
  <2>3. /\ stage' \in {"idle", "free", "boot", "health", "clear", "publish", "wait",
                       "stop", "unlink"}
        /\ last' \in {"none", "released", "raised", "killed"}
        /\ server' \in {"none", "booting", "serving", "exited"}
        /\ ui' \in {"no", "own", "other"}
        /\ sentinel' \in {"no", "old", "new"} /\ state' \in {"no", "stale", "live"}
        /\ spared' \subseteq {"listener", "sentinel", "files"}
    BY DEF HoldTypeOK
  <2> QED
    BY <2>1, <2>2, <2>3, Zenon DEF HoldTypeOK
<1>2. StraySpared' /\ OldSpared' /\ NoServerBetween'
  BY DEF HoldTypeOK, StraySpared, OldSpared, NoServerBetween
<1>3. LinkIsOwn' /\ ReleasedClean'
  BY DEF HoldTypeOK, StraySpared, NoServerBetween, LinkIsOwn, ReleasedClean
<1> QED
  BY <1>1, <1>2, <1>3

\* Publish preserves the invariant.
LEMMA PublishKeeps == HoldInv /\ Publish => HoldInv'
<1> SUFFICES ASSUME HoldInv, Publish PROVE HoldInv'
  OBVIOUS
<1> USE HoldBounds DEF HoldInv, Publish, Fault, fileVars, operatorVars
<1>1. HoldTypeOK'
  BY DEF HoldTypeOK
<1>2. StraySpared' /\ OldSpared' /\ NoServerBetween'
  BY DEF HoldTypeOK, StraySpared, OldSpared, NoServerBetween
<1>3. LinkIsOwn' /\ ReleasedClean'
  BY DEF HoldTypeOK, StraySpared, NoServerBetween, LinkIsOwn, ReleasedClean
<1> QED
  BY <1>1, <1>2, <1>3

\* Release preserves the invariant.
LEMMA ReleaseKeeps == HoldInv /\ Release => HoldInv'
<1> SUFFICES ASSUME HoldInv, Release PROVE HoldInv'
  OBVIOUS
<1> USE HoldBounds DEF HoldInv, Release, Released, fileVars, operatorVars
<1>1. HoldTypeOK'
  BY DEF HoldTypeOK
<1>2. StraySpared' /\ OldSpared' /\ NoServerBetween'
  BY DEF HoldTypeOK, StraySpared, OldSpared, NoServerBetween
<1>3. LinkIsOwn' /\ ReleasedClean'
  BY DEF HoldTypeOK, StraySpared, NoServerBetween, LinkIsOwn, ReleasedClean
<1> QED
  BY <1>1, <1>2, <1>3

\* Stop preserves the invariant.
LEMMA StopKeeps == HoldInv /\ Stop => HoldInv'
<1> SUFFICES ASSUME HoldInv, Stop PROVE HoldInv'
  OBVIOUS
<1> USE HoldBounds DEF HoldInv, Stop, Stopped, fileVars, operatorVars
<1>1. HoldTypeOK'
  BY DEF HoldTypeOK
<1>2. StraySpared' /\ OldSpared' /\ NoServerBetween'
  BY DEF HoldTypeOK, StraySpared, OldSpared, NoServerBetween
<1>3. LinkIsOwn' /\ ReleasedClean'
  BY DEF HoldTypeOK, StraySpared, NoServerBetween, LinkIsOwn, ReleasedClean
<1> QED
  BY <1>1, <1>2, <1>3

\* StopTimesOut preserves the invariant.
LEMMA StopTimesOutKeeps == HoldInv /\ StopTimesOut => HoldInv'
<1> SUFFICES ASSUME HoldInv, StopTimesOut PROVE HoldInv'
  OBVIOUS
<1> USE HoldBounds DEF HoldInv, StopTimesOut, Running, Fault, fileVars, operatorVars
<1>1. HoldTypeOK'
  BY DEF HoldTypeOK
<1>2. StraySpared' /\ OldSpared' /\ NoServerBetween'
  BY DEF HoldTypeOK, StraySpared, OldSpared, NoServerBetween
<1>3. LinkIsOwn' /\ ReleasedClean'
  BY DEF HoldTypeOK, StraySpared, NoServerBetween, LinkIsOwn, ReleasedClean
<1> QED
  BY <1>1, <1>2, <1>3

\* Unlink preserves the invariant.
LEMMA UnlinkKeeps == HoldInv /\ Unlink => HoldInv'
<1> SUFFICES ASSUME HoldInv, Unlink PROVE HoldInv'
  OBVIOUS
<1> USE HoldBounds DEF HoldInv, Unlink, Fault, fileVars, operatorVars
<1>1. HoldTypeOK'
  <2>1. raising' \in BOOLEAN /\ stray' \in BOOLEAN /\ looked' \in BOOLEAN
    BY Zenon DEF HoldTypeOK
  <2>2. holds' \in 0 .. MaxHolds /\ touches' \in 0 .. MaxTouches /\ faults' \in 0 .. MaxFaults
    BY DEF HoldTypeOK
  <2>3. /\ stage' \in {"idle", "free", "boot", "health", "clear", "publish", "wait",
                       "stop", "unlink"}
        /\ last' \in {"none", "released", "raised", "killed"}
        /\ server' \in {"none", "booting", "serving", "exited"}
        /\ ui' \in {"no", "own", "other"}
        /\ sentinel' \in {"no", "old", "new"} /\ state' \in {"no", "stale", "live"}
        /\ spared' \subseteq {"listener", "sentinel", "files"}
    BY DEF HoldTypeOK
  <2> QED
    BY <2>1, <2>2, <2>3, Zenon DEF HoldTypeOK
<1>2. StraySpared' /\ OldSpared' /\ NoServerBetween'
  BY DEF HoldTypeOK, StraySpared, OldSpared, NoServerBetween
<1>3. LinkIsOwn' /\ ReleasedClean'
  BY DEF HoldTypeOK, StraySpared, NoServerBetween, LinkIsOwn, ReleasedClean
<1> QED
  BY <1>1, <1>2, <1>3

\* Garbage preserves the invariant.
LEMMA GarbageKeeps == HoldInv /\ Garbage => HoldInv'
<1> SUFFICES ASSUME HoldInv, Garbage PROVE HoldInv'
  OBVIOUS
<1> USE HoldBounds DEF HoldInv, Garbage, Abandon, Running, Fault, fileVars, operatorVars
<1>1. HoldTypeOK'
  BY DEF HoldTypeOK
<1>2. StraySpared' /\ OldSpared' /\ NoServerBetween'
  BY DEF HoldTypeOK, StraySpared, OldSpared, NoServerBetween
<1>3. LinkIsOwn' /\ ReleasedClean'
  BY DEF HoldTypeOK, StraySpared, NoServerBetween, LinkIsOwn, ReleasedClean
<1> QED
  BY <1>1, <1>2, <1>3

\* RaiseInWait preserves the invariant.
LEMMA RaiseInWaitKeeps == HoldInv /\ RaiseInWait => HoldInv'
<1> SUFFICES ASSUME HoldInv, RaiseInWait PROVE HoldInv'
  OBVIOUS
<1> USE HoldBounds DEF HoldInv, RaiseInWait, Fault, fileVars, operatorVars
<1>1. HoldTypeOK'
  BY DEF HoldTypeOK
<1>2. StraySpared' /\ OldSpared' /\ NoServerBetween'
  BY DEF HoldTypeOK, StraySpared, OldSpared, NoServerBetween
<1>3. LinkIsOwn' /\ ReleasedClean'
  BY DEF HoldTypeOK, StraySpared, NoServerBetween, LinkIsOwn, ReleasedClean
<1> QED
  BY <1>1, <1>2, <1>3

\* Killed preserves the invariant.
LEMMA KilledKeeps == HoldInv /\ Killed => HoldInv'
<1> SUFFICES ASSUME HoldInv, Killed PROVE HoldInv'
  OBVIOUS
<1> USE HoldBounds DEF HoldInv, Killed, Abandon, Running, Fault, fileVars, operatorVars
<1>1. HoldTypeOK'
  BY DEF HoldTypeOK
<1>2. StraySpared' /\ OldSpared' /\ NoServerBetween'
  BY DEF HoldTypeOK, StraySpared, OldSpared, NoServerBetween
<1>3. LinkIsOwn' /\ ReleasedClean'
  BY DEF HoldTypeOK, StraySpared, NoServerBetween, LinkIsOwn, ReleasedClean
<1> QED
  BY <1>1, <1>2, <1>3

\* ServerBinds preserves the invariant.
LEMMA ServerBindsKeeps == HoldInv /\ ServerBinds => HoldInv'
<1> SUFFICES ASSUME HoldInv, ServerBinds PROVE HoldInv'
  OBVIOUS
<1> USE HoldBounds DEF HoldInv, ServerBinds, fileVars, operatorVars
<1>1. HoldTypeOK'
  BY DEF HoldTypeOK
<1>2. StraySpared' /\ OldSpared' /\ NoServerBetween'
  BY DEF HoldTypeOK, StraySpared, OldSpared, NoServerBetween
<1>3. LinkIsOwn' /\ ReleasedClean'
  BY DEF HoldTypeOK, StraySpared, NoServerBetween, LinkIsOwn, ReleasedClean
<1> QED
  BY <1>1, <1>2, <1>3

\* ServerExits preserves the invariant.
LEMMA ServerExitsKeeps == HoldInv /\ ServerExits => HoldInv'
<1> SUFFICES ASSUME HoldInv, ServerExits PROVE HoldInv'
  OBVIOUS
<1> USE HoldBounds DEF HoldInv, ServerExits, Running, fileVars, operatorVars
<1>1. HoldTypeOK'
  BY DEF HoldTypeOK
<1>2. StraySpared' /\ OldSpared' /\ NoServerBetween'
  BY DEF HoldTypeOK, StraySpared, OldSpared, NoServerBetween
<1>3. LinkIsOwn' /\ ReleasedClean'
  BY DEF HoldTypeOK, StraySpared, NoServerBetween, LinkIsOwn, ReleasedClean
<1> QED
  BY <1>1, <1>2, <1>3

\* Look preserves the invariant.
LEMMA LookKeeps == HoldInv /\ Look => HoldInv'
<1> SUFFICES ASSUME HoldInv, Look PROVE HoldInv'
  OBVIOUS
<1> USE HoldBounds DEF HoldInv, Look, fileVars, operatorVars
<1>1. HoldTypeOK'
  BY DEF HoldTypeOK
<1>2. StraySpared' /\ OldSpared' /\ NoServerBetween'
  BY DEF HoldTypeOK, StraySpared, OldSpared, NoServerBetween
<1>3. LinkIsOwn' /\ ReleasedClean'
  BY DEF HoldTypeOK, StraySpared, NoServerBetween, LinkIsOwn, ReleasedClean
<1> QED
  BY <1>1, <1>2, <1>3

\* Touch preserves the invariant.
LEMMA TouchKeeps == HoldInv /\ Touch => HoldInv'
<1> SUFFICES ASSUME HoldInv, Touch PROVE HoldInv'
  OBVIOUS
<1> USE HoldBounds DEF HoldInv, Touch, fileVars, operatorVars
<1>1. HoldTypeOK'
  <2>1. raising' \in BOOLEAN /\ stray' \in BOOLEAN /\ looked' \in BOOLEAN
    BY Zenon DEF HoldTypeOK
  <2>2. holds' \in 0 .. MaxHolds /\ touches' \in 0 .. MaxTouches /\ faults' \in 0 .. MaxFaults
    BY DEF HoldTypeOK
  <2>3. /\ stage' \in {"idle", "free", "boot", "health", "clear", "publish", "wait",
                       "stop", "unlink"}
        /\ last' \in {"none", "released", "raised", "killed"}
        /\ server' \in {"none", "booting", "serving", "exited"}
        /\ ui' \in {"no", "own", "other"}
        /\ sentinel' \in {"no", "old", "new"} /\ state' \in {"no", "stale", "live"}
        /\ spared' \subseteq {"listener", "sentinel", "files"}
    BY DEF HoldTypeOK
  <2> QED
    BY <2>1, <2>2, <2>3, Zenon DEF HoldTypeOK
<1>2. StraySpared' /\ OldSpared' /\ NoServerBetween'
  BY DEF HoldTypeOK, StraySpared, OldSpared, NoServerBetween
<1>3. LinkIsOwn' /\ ReleasedClean'
  BY DEF HoldTypeOK, StraySpared, NoServerBetween, LinkIsOwn, ReleasedClean
<1> QED
  BY <1>1, <1>2, <1>3

\* Every step, of the holding process, the server or the operator, preserves it.
LEMMA HoldStepKeeps == HoldInv /\ [HoldNext]_holdVars => HoldInv'
<1> SUFFICES ASSUME HoldInv, [HoldNext]_holdVars PROVE HoldInv'
  OBVIOUS
<1>1. CASE UNCHANGED holdVars
  BY <1>1 DEF holdVars, fileVars, operatorVars, HoldInv, HoldTypeOK, StraySpared, OldSpared,
     NoServerBetween, LinkIsOwn, ReleasedClean
<1>2. CASE Hold
  BY <1>2, FreePortKeeps, BootKeeps, HealthKeeps, ClearKeeps, PublishKeeps, ReleaseKeeps,
     StopKeeps, UnlinkKeeps DEF Hold
<1>3. CASE Start \/ StopTimesOut \/ Garbage \/ RaiseInWait \/ Killed
  BY <1>3, StartKeeps, StopTimesOutKeeps, GarbageKeeps, RaiseInWaitKeeps, KilledKeeps
<1>4. CASE ServerBinds \/ ServerExits \/ Look \/ Touch
  BY <1>4, ServerBindsKeeps, ServerExitsKeeps, LookKeeps, TouchKeeps
<1> QED
  BY <1>1, <1>2, <1>3, <1>4 DEF HoldNext

\* The inductive invariant holds in every reachable state.
THEOREM HoldInvariant == HoldSpec => []HoldInv
<1>1. HoldInit => HoldInv
  BY HoldInitKeeps
<1>2. HoldInv /\ [HoldNext]_holdVars => HoldInv'
  BY HoldStepKeeps
<1> QED
  BY <1>1, <1>2, PTL DEF HoldSpec

\* The hold's state stays within its types.
THEOREM HoldTypes == HoldSpec => []HoldTypeOK
<1>1. HoldInv => HoldTypeOK
  BY DEF HoldInv
<1> QED
  BY <1>1, HoldInvariant, PTL

\* The game offered for review is the held cell's own.
THEOREM HoldLink == HoldSpec => []LinkIsOwn
<1>1. HoldInv => LinkIsOwn
  BY DEF HoldInv
<1> QED
  BY <1>1, HoldInvariant, PTL

\* A released hold leaves neither its server nor its state file.
THEOREM HoldReleasedClean == HoldSpec => []ReleasedClean
<1>1. HoldInv => ReleasedClean
  BY DEF HoldInv
<1> QED
  BY <1>1, HoldInvariant, PTL

\* No step releases a hold on a release file from before its clearing.
LEMMA ReleaseIsFresh ==
    HoldInv /\ [HoldNext]_holdVars =>
        [(stage = "wait" /\ stage' = "stop" /\ ~raising') =>
            (sentinel = "new" \/ "sentinel" \in spared)]_holdVars
<1> SUFFICES ASSUME HoldInv, [HoldNext]_holdVars, stage = "wait", stage' = "stop", ~raising'
             PROVE  sentinel = "new" \/ "sentinel" \in spared
  OBVIOUS
<1>1. Released
  BY DEF HoldNext, Hold, Start, FreePort, Boot, Health, Clear, Publish, Release, Stop, Unlink,
     StopTimesOut, Garbage, RaiseInWait, Killed, Abandon, ServerBinds, ServerExits, Look,
     Touch, holdVars
<1> QED
  BY <1>1 DEF Released, HoldInv, HoldTypeOK, OldSpared

\* A hold ends on a file touched after it had cleared the release file, whoever it was
\* meant for, or on one that could not be removed (_hold_for_ui_review).
THEOREM HoldNotStale == HoldSpec => NoStaleRelease
<1> QED
  BY HoldInvariant, ReleaseIsFresh, PTL DEF HoldSpec, NoStaleRelease

\* Where a hold is, in the order of its stages.
Step(s) ==
    CASE s = "free" -> 0    [] s = "boot" -> 1 [] s = "health" -> 2 [] s = "clear" -> 3
      [] s = "publish" -> 4 [] s = "wait" -> 5 [] s = "stop" -> 6   [] s = "unlink" -> 7
      [] OTHER -> 8

\* A hold that is announced and touched stays so until it ends and goes to its end: each
\* step of its own takes it on, and nobody's step takes it back or undoes the touch.
TouchStands ==
    state = "live" /\ sentinel = "new" /\ stage # "idle" =>
        /\ Step(stage') >= Step(stage)
        /\ Hold => Step(stage') > Step(stage)
        /\ stage' = "idle" \/ (state' = "live" /\ sentinel' = "new")
        /\ stage = "wait" => Released

\* Neither file is of this hold before the hold gets that far.
FilesOfThisHold ==
    /\ sentinel = "new" => stage \notin {"free", "boot", "health", "clear"}
    /\ state = "live" => stage \notin {"free", "boot", "health", "clear", "publish"}

\* The stages in their order.
LEMMA Steps ==
    /\ Step("free") = 0 /\ Step("boot") = 1 /\ Step("health") = 2 /\ Step("clear") = 3
    /\ Step("publish") = 4 /\ Step("wait") = 5 /\ Step("stop") = 6 /\ Step("unlink") = 7
    /\ Step("idle") = 8
BY DEF Step

\* What is on disk from an earlier hold is told from what is of this one.
LEMMA FilesStep == HoldInv /\ FilesOfThisHold /\ [HoldNext]_holdVars => FilesOfThisHold'
<1> SUFFICES ASSUME HoldInv, FilesOfThisHold, [HoldNext]_holdVars PROVE FilesOfThisHold'
  OBVIOUS
<1> USE DEF FilesOfThisHold, fileVars, operatorVars
<1>1. CASE UNCHANGED holdVars
  BY <1>1 DEF holdVars
<1>2. CASE Start \/ FreePort \/ Boot \/ Health
  BY <1>2 DEF Start, FreePort, Boot, Health, HoldInv, HoldTypeOK
<1>3. CASE Clear \/ Publish \/ Release \/ Stop \/ Unlink
  BY <1>3 DEF Clear, Cleared, Publish, Release, Stop, Unlink
<1>4. CASE StopTimesOut \/ Garbage \/ RaiseInWait \/ Killed
  BY <1>4 DEF StopTimesOut, Garbage, RaiseInWait, Killed, Abandon
<1>5. CASE ServerBinds \/ ServerExits \/ Look \/ Touch
  BY <1>5 DEF ServerBinds, ServerExits, Look, Touch
<1> QED
  BY <1>1, <1>2, <1>3, <1>4, <1>5 DEF HoldNext, Hold

\* No step undoes the touch of an announced hold.
LEMMA TouchStep == HoldInv /\ FilesOfThisHold /\ [HoldNext]_holdVars => [TouchStands]_holdVars
<1> SUFFICES ASSUME FilesOfThisHold, HoldInv, HoldNext,
                    state = "live", sentinel = "new", stage # "idle"
             PROVE  /\ Step(stage') >= Step(stage)
                    /\ Hold => Step(stage') > Step(stage)
                    /\ stage' = "idle" \/ (state' = "live" /\ sentinel' = "new")
                    /\ stage = "wait" => Released
  BY DEF TouchStands
<1> USE Steps DEF fileVars, operatorVars
<1>0. stage \in {"wait", "stop", "unlink"} /\ Released
  BY DEF FilesOfThisHold, HoldInv, HoldTypeOK, Released
<1>1. CASE Hold
  <2>1. Release \/ Stop \/ Unlink
    BY <1>0, <1>1 DEF Hold, FreePort, Boot, Health, Clear, Publish
  <2>2. QED
    BY <1>0, <2>1 DEF Release, Stop, Unlink
<1>2. ASSUME ~Hold
      PROVE  /\ Step(stage') >= Step(stage)
             /\ stage' = "idle" \/ (state' = "live" /\ sentinel' = "new")
  <2>1. CASE Start \/ StopTimesOut \/ Garbage \/ RaiseInWait \/ Killed
    BY <1>0, <2>1 DEF Start, StopTimesOut, Garbage, RaiseInWait, Killed, Abandon
  <2>2. CASE ServerBinds \/ ServerExits \/ Look \/ Touch
    BY <1>0, <2>2 DEF ServerBinds, ServerExits, Look, Touch
  <2>3. QED
    BY <1>2, <2>1, <2>2 DEF HoldNext
<1>3. QED
  BY <1>0, <1>1, <1>2

\* A touch of the release file of an announced hold is not lost: whatever the server, the
\* operator and failing calls do, it stands until the hold has ended, the hold is ready
\* for it in the wait, and every step of the hold is one towards its end (TouchHonoured
\* short of its fairness).
THEOREM HoldTouchStands == HoldSpec => [][TouchStands]_holdVars
<1>1. HoldInit => FilesOfThisHold
  BY DEF HoldInit, FilesOfThisHold
<1> QED
  BY <1>1, HoldInvariant, FilesStep, TouchStep, PTL DEF HoldSpec

=============================================================================
