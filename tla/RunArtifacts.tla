---------------------------- MODULE RunArtifacts ----------------------------
(***************************************************************************)
(* The status stream of a campaign, an append-only JSON-lines file, and    *)
(* the scorecard that is built from it.                                    *)
(*                                                                         *)
(* A stream is its lines and the state of its last one: a write that was   *)
(* cut short (full disk, power) leaves a fragment, or a whole object whose *)
(* newline is missing, and the next append continues that line.            *)
(***************************************************************************)
EXTENDS Integers, Sequences

CONSTANT S             \* sessions in the schedule, each one cell

ASSUME ScheduleAssumption == S \in Nat \ {0}

Sessions == 0 .. S - 1

\* What a cell reports, as far as the scorecard tells results apart: the flag
\* full_green, and does the terminal attempt carry a truncation signal?
Results == [green : BOOLEAN, truncated : BOOLEAN]

\* One "attempt" record per attempt of a cell, one "turn" (turn_terminal) record
\* per turn that ended anomalously.  A line that is not a JSON object is Garbage.
Records == [type : {"attempt", "turn"}, session : Sessions, result : Results]

Garbage == [type |-> "garbage"]

\* A stream is its lines, and how the last one ends: closed, unterminated or a fragment.
EmptyStream == [lines |-> <<>>, tail |-> "closed"]

\* The lines after the bytes of a line were appended: behind an open line they
\* only lengthen it, and the result is not JSON.
Extended(st, line) ==
    IF st.tail = "closed" THEN Append(st.lines, line)
    ELSE [st.lines EXCEPT ![Len(st.lines)] = Garbage]

\* Faulty variant of append: the newline is never written.
AppendUnterminated(st, record) == [lines |-> Extended(st, record), tail |-> "unterminated"]

append(st, record) == [lines |-> Extended(st, record), tail |-> "closed"]

\* An append that was cut short, in the object or just before its newline.
TornAppends(st, record) ==
    { [lines |-> Extended(st, Garbage), tail |-> "fragment"],
      [lines |-> Extended(st, record),
       tail  |-> IF st.tail = "closed" THEN "unterminated" ELSE "fragment"] }

\* The positions of the lines the reader can parse.
records(st) == {i \in 1 .. Len(st.lines) : st.lines[i] # Garbage}

\* The attempt records of a session, by position.
attempts_of(st, s) ==
    {i \in records(st) : st.lines[i].type = "attempt" /\ st.lines[i].session = s}

\* Faulty variant of best_by_cell: the first attempt record wins.
first_by_cell(st, s) ==
    {st.lines[i].result : i \in {j \in attempts_of(st, s) : \A k \in attempts_of(st, s) : j <= k}}

\* best_by_cell: the result in the last attempt record of a session, if any.
best_by_cell(st, s) ==
    {st.lines[i].result : i \in {j \in attempts_of(st, s) : \A k \in attempts_of(st, s) : k <= j}}

\* How build_scorecard counts a result.  (The delivery records that would exclude
\* a cell have no writer in the repository.)
Outcome(r) ==
    IF r.green THEN "scored_pass"
    ELSE IF r.truncated THEN "void_instrument" ELSE "scored_fail"

\* Faulty variant of build_scorecard: no gate for void cells.
ScorecardWithoutVoid(st) ==
    [s \in Sessions |->
        {IF r.green THEN "scored_pass" ELSE "scored_fail" : r \in best_by_cell(st, s)}]

build_scorecard(st) ==
    [s \in Sessions |-> {Outcome(r) : r \in best_by_cell(st, s)}]

\* build_convergence_trend over the mutable manifest's progress: every session
\* with progress counts, green or not.
TrendOutcome(r) == IF r.green THEN "scored_pass" ELSE "scored_fail"

FallbackStandings(progress) ==
    [s \in Sessions |-> {TrendOutcome(r) : r \in progress[s]}]
=============================================================================
