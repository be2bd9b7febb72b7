---------------------------- MODULE StdoutDrive ----------------------------
(***************************************************************************)
(* The drive of a worker as a subprocess, which is what is left when there *)
(* is no serve: docker exec runs opencode in the container and its events  *)
(* come back on a pipe (_run_opencode, and the resumes of a worker that    *)
(* ended on a turn without a tool).                                        *)
(*                                                                         *)
(* Four parties run side by side: the worker, a thread that reads its      *)
(* events into a dictionary under a lock, a thread that reads its stderr,  *)
(* and a loop that looks at the dictionary every two seconds and may kill  *)
(* the run.  Each lock section is one step.  The worker is external.       *)
(***************************************************************************)
EXTENDS Integers, Sequences, FiniteSets

CONSTANTS
    MaxSteps,       \* max_steps_per_attempt
    TokenCap,       \* token_cap
    Stamps,         \* whether a step_start carries a timestamp: some of TRUE, FALSE
    MaxEvents,      \* bound: events the worker writes
    MaxRuns         \* bound: invocations, the first and its resumes

ASSUME StdoutAssumption ==
    /\ {MaxSteps, TokenCap, MaxEvents} \subseteq Nat
    /\ MaxRuns \in Nat \ {0}
    /\ Stamps \in SUBSET BOOLEAN /\ Stamps # {}

VARIABLES
    inner,      \* the worker's process in the container runs
    client,     \* the docker exec in front of it: up, exited or killed
    busy,       \* the worker is inside a step
    pipe,       \* events written and not read
    stderr,     \* lines that name a budget stop, written to stderr and not read
    written,    \* events written so far
    expired,    \* run_timeout_s has passed
    state,      \* the dictionary the threads share
    pc,         \* of the loop
    seen,       \* the loop's snapshot of turns and tokens
    reason,     \* killed_reason
    spared,     \* history: the kill hook failed in this invocation
    runs,       \* invocations started
    sum,        \* aggregate over the invocations before this one
    finishes,   \* history: step_finish events written
    refused     \* history: budget stops written

worker == <<inner, client, busy, pipe, stderr, written, expired, finishes, refused>>
loop == <<pc, seen, reason, spared, runs, sum>>
vars == <<worker, loop, state>>

(***************************************************************************)
(* Events and anomalies.                                                   *)
(***************************************************************************)
\* A finish for length counts as one for tool-calls here.
Normal == {"stop", "tool-calls"}

Truncated == {"unknown"}

Events ==
    [type : {"step_start"}, stamped : Stamps]
      \cup [type : {"tool_use"}]
      \cup [type : {"step_finish"}, reason : Normal \cup Truncated \cup {"other"}, tokens : {0, 1}]
      \cup [type : {"error"}, budget : BOOLEAN]

Anomaly(step, terminal, unmetered) ==
    [step |-> step, terminal |-> terminal, unmetered |-> unmetered, retried |-> FALSE]

\* The state of an invocation that begins; session: the id to resume into is known;
\* histories: finished, the steps that ended with a step_finish; used, those in which a
\* tool was used.
Fresh(session) ==
    [session |-> session, turns |-> 0, tokens |-> 0, completed |-> FALSE, budget |-> FALSE,
     silent |-> FALSE, tools |-> FALSE, step |-> 0, open |-> FALSE, stamped |-> FALSE,
     anomalies |-> <<>>, unretried |-> 0, finished |-> {}, used |-> {}]

\* _append_turn_anomaly: it is the one a later step may mark as retried.
AppendAnomaly(s, a) ==
    [s EXCEPT !.anomalies = Append(@, a), !.unretried = Len(s.anomalies) + 1]

\* _mark_anomaly_retried
MarkRetried(s) ==
    [s EXCEPT !.unretried = 0,
              !.anomalies = IF s.unretried = 0 THEN @
                            ELSE [@ EXCEPT ![s.unretried].retried = TRUE]]

(***************************************************************************)
(* The worker.                                                             *)
(***************************************************************************)
\* A step begins, uses tools and ends; an error may come at any time, and the step may
\* go on after it or be over with it.
Emits(e) ==
    \/ e.type = "step_start" /\ ~busy /\ busy' = TRUE
    \/ e.type = "tool_use" /\ busy /\ UNCHANGED busy
    \/ e.type = "step_finish" /\ busy /\ busy' = FALSE
    \/ e.type = "error" /\ busy' \in {FALSE, busy}

Emit ==
    /\ client = "up" /\ written < MaxEvents
    /\ \E e \in Events :
         /\ Emits(e)
         /\ pipe' = Append(pipe, e)
         /\ finishes' = IF e.type = "step_finish" THEN finishes + 1 ELSE finishes
         /\ refused' = IF e.type = "error" /\ e.budget THEN refused + 1 ELSE refused
    /\ written' = written + 1
    /\ UNCHANGED <<inner, client, stderr, expired>>

Complain ==
    /\ client = "up" /\ written < MaxEvents
    /\ written' = written + 1 /\ stderr' = stderr + 1 /\ refused' = refused + 1
    /\ UNCHANGED <<inner, client, busy, pipe, expired, finishes>>

\* The worker ends by itself, inside a step perhaps, and its docker exec with it.
Exit ==
    /\ client = "up"
    /\ inner' = FALSE /\ client' = "exited"
    /\ UNCHANGED <<busy, pipe, stderr, written, expired, finishes, refused>>

Expire ==
    /\ pc \in {"poll", "judge"} /\ ~expired /\ expired' = TRUE
    /\ UNCHANGED <<inner, client, busy, pipe, stderr, written, finishes, refused, loop, state>>

Worker == (Emit \/ Complain \/ Exit) /\ UNCHANGED <<loop, state>>

(***************************************************************************)
(* The readers: one event, or one line, per step.                          *)
(***************************************************************************)
StepStart(s, e) ==
    [MarkRetried(s) EXCEPT !.completed = FALSE, !.tools = FALSE, !.silent = FALSE,
                           !.step = @ + 1, !.open = TRUE, !.stamped = e.stamped]

\* Faulty variant of StepFinish: a turn the transport cut off reads as one in which the
\* model chose silence.
StepFinishCut(s, e) ==
    LET t == [s EXCEPT !.turns = @ + 1, !.tokens = @ + e.tokens, !.finished = @ \cup {s.step},
                       !.open = FALSE, !.stamped = FALSE, !.tools = FALSE,
                       !.completed = @ \/ e.reason = "stop",
                       !.silent = ~s.tools]
    IN  IF e.reason \in Truncated THEN AppendAnomaly(t, Anomaly(s.step, "truncated", e.tokens = 0))
        ELSE IF e.reason \notin Normal THEN AppendAnomaly(t, Anomaly(s.step, "unclassified", FALSE))
        ELSE t

\* A truncated turn is no zero-tool turn, whatever it used.
StepFinish(s, e) ==
    LET t == [s EXCEPT !.turns = @ + 1, !.tokens = @ + e.tokens, !.finished = @ \cup {s.step},
                       !.open = FALSE, !.stamped = FALSE, !.tools = FALSE,
                       !.completed = @ \/ e.reason = "stop",
                       !.silent = e.reason \notin Truncated /\ ~s.tools]
    IN  IF e.reason \in Truncated THEN AppendAnomaly(t, Anomaly(s.step, "truncated", e.tokens = 0))
        ELSE IF e.reason \notin Normal THEN AppendAnomaly(t, Anomaly(s.step, "unclassified", FALSE))
        ELSE t

\* Faulty variant of ErrorEvent: every error is taken for a stop that is only noted.
ErrorEventNoted(s, e) ==
    IF e.budget THEN [s EXCEPT !.budget = TRUE]
    ELSE [s EXCEPT !.open = FALSE, !.stamped = FALSE, !.tools = FALSE]

\* A budget stop is only noted, and leaves the step open; any other error closes it, and
\* what tools it had used is forgotten.
ErrorEvent(s, e) ==
    IF e.budget THEN [s EXCEPT !.budget = TRUE]
    ELSE AppendAnomaly([s EXCEPT !.open = FALSE, !.stamped = FALSE, !.tools = FALSE],
                       Anomaly(s.step, "transport_error", TRUE))

ReadEvent(s, e) ==
    CASE e.type = "step_start" -> StepStart(s, e)
      [] e.type = "tool_use" -> [s EXCEPT !.tools = TRUE, !.used = @ \cup {s.step}]
      [] e.type = "step_finish" -> StepFinish(s, e)
      [] e.type = "error" -> ErrorEvent(s, e)

\* The first event that carries a session id settles it.
StdoutReader ==
    /\ pipe # <<>>
    /\ \E sid \in BOOLEAN :
         state' = [ReadEvent(state, Head(pipe)) EXCEPT !.session = @ \/ sid]
    /\ pipe' = Tail(pipe)
    /\ UNCHANGED <<inner, client, busy, stderr, written, expired, finishes, refused, loop>>

StderrReader ==
    /\ stderr > 0
    /\ stderr' = stderr - 1
    /\ state' = [state EXCEPT !.budget = TRUE]
    /\ UNCHANGED <<inner, client, busy, pipe, written, expired, finishes, refused, loop>>

(***************************************************************************)
(* The loop.                                                               *)
(***************************************************************************)
Poll ==
    /\ pc = "poll"
    /\ pc' = IF client = "up" THEN "judge" ELSE "join"
    /\ seen' = [turns |-> state.turns, tokens |-> state.tokens]
    /\ UNCHANGED <<worker, state, reason, spared, runs, sum>>

\* _kill_process_group: the docker exec dies, the worker it started does not.
KillClient == client' = IF client = "up" THEN "killed" ELSE client

\* A worker that said stop and is still there after the grace period is cut off.
CompletionGrace ==
    /\ pc = "judge" /\ state.completed
    /\ pc' = "join" /\ KillClient
    /\ UNCHANGED <<inner, busy, pipe, stderr, written, expired, finishes, refused,
                   state, seen, reason, spared, runs, sum>>

Limit ==
    IF expired THEN "run_timeout"
    ELSE IF seen.turns > MaxSteps THEN "max_steps_per_attempt"
    ELSE IF seen.tokens > TokenCap THEN "token_cap"
    ELSE "none"

\* Faulty variant of LimitKill: the hook that reaches into the container is forgotten.
LimitKillOutside ==
    /\ pc = "judge" /\ Limit # "none"
    /\ reason' = Limit
    /\ pc' = "join" /\ KillClient
    /\ UNCHANGED <<inner, busy, pipe, stderr, written, expired, finishes, refused,
                   state, seen, spared, runs, sum>>

\* run_kill_hook: the worker in the container is killed; a hook that fails is only logged.
RunKillHook ==
    \/ inner' = FALSE /\ UNCHANGED spared
    \/ UNCHANGED inner /\ spared' = TRUE

\* A limit is passed: the client is killed, and the worker in the container too.
LimitKill ==
    /\ pc = "judge" /\ Limit # "none"
    /\ reason' = Limit
    /\ pc' = "join" /\ KillClient /\ RunKillHook
    /\ UNCHANGED <<busy, pipe, stderr, written, expired, finishes, refused,
                   state, seen, runs, sum>>

\* Faulty variant of Sleep: the deadline is not looked at.
SleepOn ==
    /\ pc = "judge"
    /\ pc' = "poll"
    /\ UNCHANGED <<worker, state, seen, reason, spared, runs, sum>>

Sleep ==
    /\ pc = "judge" /\ Limit = "none"
    /\ pc' = "poll"
    /\ UNCHANGED <<worker, state, seen, reason, spared, runs, sum>>

\* A step is still open: it has died without any signal.
CloseOpen(s) ==
    IF ~s.stamped THEN s
    ELSE AppendAnomaly([s EXCEPT !.turns = @ + 1, !.stamped = FALSE, !.tools = FALSE,
                                 !.silent = FALSE],
                       Anomaly(s.step, "stream_died_open", TRUE))

\* Faulty variant of Join: the join of the readers times out.
JoinTimed ==
    /\ pc = "join"
    /\ pc' = "returned"
    /\ state' = CloseOpen(state)
    /\ UNCHANGED <<worker, seen, reason, spared, runs, sum>>

\* The threads are joined once they have read all there was.
Join ==
    /\ pc = "join" /\ pipe = <<>> /\ stderr = 0
    /\ pc' = "returned"
    /\ state' = CloseOpen(state)
    /\ UNCHANGED <<worker, seen, reason, spared, runs, sum>>

(***************************************************************************)
(* _run_opencode_with_zero_tool_resumes.                                   *)
(***************************************************************************)
Died(anomalies) ==
    Cardinality({i \in DOMAIN anomalies : anomalies[i].terminal = "stream_died_open"})

\* The worker ended on a turn without a tool: it is nudged, in the same session.
Resume ==
    /\ pc = "returned" /\ state.silent /\ state.session /\ runs < MaxRuns
    /\ sum' = [turns |-> sum.turns + state.turns, budget |-> sum.budget \/ state.budget,
               died |-> sum.died + Died(state.anomalies)]
    /\ runs' = runs + 1
    /\ state' = Fresh(TRUE)
    /\ inner' = TRUE /\ client' = "up" /\ busy' = FALSE /\ expired' = FALSE
    /\ reason' = "none" /\ spared' = FALSE /\ pc' = "poll" /\ seen' = [turns |-> 0, tokens |-> 0]
    /\ UNCHANGED <<pipe, stderr, written, finishes, refused>>

Init ==
    /\ inner = TRUE /\ client = "up" /\ busy = FALSE
    /\ pipe = <<>> /\ stderr = 0 /\ written = 0 /\ expired = FALSE
    /\ state = Fresh(FALSE)
    /\ pc = "poll" /\ seen = [turns |-> 0, tokens |-> 0] /\ reason = "none" /\ spared = FALSE
    /\ runs = 1
    /\ sum = [turns |-> 0, budget |-> FALSE, died |-> 0]
    /\ finishes = 0 /\ refused = 0

Loop == Poll \/ CompletionGrace \/ LimitKill \/ Sleep \/ Join

Readers == StdoutReader \/ StderrReader

Next == Worker \/ Expire \/ Readers \/ Loop \/ Resume

\* The loop sleeps two seconds at most, the readers read what there is, time passes.
\* The worker may hang.
Spec == Init /\ [][Next]_vars /\ WF_vars(Loop) /\ WF_vars(Readers) /\ WF_vars(Expire)

(***************************************************************************)
(* Properties.                                                             *)
(***************************************************************************)
\* Nothing the worker said goes unheard, however the run ended and however many times
\* it was resumed: every finished turn is counted once, with those that died open, and
\* a budget stop is known.
NothingUnheard ==
    pc = "returned" =>
        /\ sum.turns + state.turns = finishes + sum.died + Died(state.anomalies)
        /\ refused > 0 => sum.budget \/ state.budget

\* A worker is nudged for having used no tool only when that is what it did: the last
\* step was ended by a step_finish of its own, neither truncated nor left open, and used
\* no tool; unless an error was reported in that step, with which its tools are forgotten.
SilenceIsChosen ==
    LET noted == {state.anomalies[i].terminal :
                    i \in {i \in DOMAIN state.anomalies : state.anomalies[i].step = state.step}}
    IN  pc = "returned" /\ state.silent =>
            /\ ~state.open /\ state.step \in state.finished
            /\ noted \cap {"truncated", "stream_died_open"} = {}
            /\ state.step \in state.used => "transport_error" \in noted

\* What runs into a limit is stopped inside the container as well: when an invocation
\* returns, its worker no longer writes to the worktree, unless it had said stop or the
\* kill hook failed.
WorkerGone ==
    pc = "returned" /\ inner => spared \/ (reason = "none" /\ client = "killed")

\* A run returns though the worker may hang for ever.
RunReturns == (pc = "poll") ~> (pc = "returned")

\* "A burned turn must never be invisible": each step begun is a turn that finished, or
\* an anomaly, when the run returns (a budget stop is visible by itself).
NoTurnInvisible ==
    pc = "returned" /\ ~state.budget =>
        \A i \in 1 .. state.step :
            i \in state.finished \/ \E a \in DOMAIN state.anomalies : state.anomalies[a].step = i
=============================================================================
