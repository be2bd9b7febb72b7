----------------------------- MODULE ServeDrive -----------------------------
(***************************************************************************)
(* The drive of a worker through a running opencode serve: prompts are     *)
(* posted, the session is polled until it is idle, and what was done is    *)
(* read off its transcript.  The chunks of the task are sent in order, each *)
(* until its marker shows up, with the transcript compacted in between;    *)
(* then come rounds of feedback (_run_opencode_serve, its chunked form and *)
(* the two compactions, over serve_client).                                *)
(*                                                                         *)
(* The serve is external.  It picks a prompt up some time after it has     *)
(* accepted it, and until then the session does not show as busy; prompts  *)
(* that arrive while it is busy follow at once.                            *)
(*                                                                         *)
(* A read of the session fails when it still fails after its retries.  The *)
(* deadline of a wait may pass at any time.  A transcript only grows, so a *)
(* reading of it is kept as its length; prompts are left out of it.  Of    *)
(* the figures a message reports two matter: that it has output tokens,    *)
(* counted as one, and how many input tokens.                              *)
(***************************************************************************)
EXTENDS Integers, Sequences, FiniteSets

CONSTANTS
    Chunks,         \* the number of chunk prompts
    Rounds,         \* the number of feedback rounds that may follow
    Compact,        \* WEVIBE_BENCH_CHUNK_COMPACT
    Written,        \* the messages the worker may write
    MaxMessages,    \* bound: messages the serve writes
    MaxKills,       \* bound: turns the relay kills
    MaxStalls,      \* bound: turns that end without the marker
    MaxFaults       \* bound: reads and posts that fail

\* What the worker writes; void: killed by the loop guard before it said anything.
Answers == {"done", "marked", "guard", "void", "finalize", "error"}

Kinds == Answers \cup {"summary"}

\* _is_real_assistant_turn
Real(k) == k \notin {"void", "error"}

\* A message that reports output tokens is a real turn for that reason alone.
Messages == {x \in [kind : Kinds, burns : BOOLEAN, input : Nat] : x.burns => Real(x.kind)}

ASSUME ServeAssumption ==
    /\ Chunks \in Nat \ {0}
    /\ Written \subseteq Messages
    /\ Compact \in BOOLEAN
    /\ {Rounds, MaxMessages, MaxKills, MaxStalls, MaxFaults} \subseteq Nat

VARIABLES
    transcript,     \* the persisted messages of the worker
    queue,          \* prompts accepted and not picked up
    busy,           \* what the session is doing
    kills, stalls, faults,
    pc,
    leg,            \* the chunk being driven, or Chunks + the feedback round
    watermark,      \* of the chunk: where the scan for its marker begins
    baseline,       \* of the phase: {its first reading}, or {} if that failed
    window,         \* class_watermark: where the classification begins
    m,              \* the last reading of the phase: {} when it was lost
    killed,         \* killed_reason is "run_timeout"
    exit,           \* exit_code
    sawBusy,        \* of the watch for a compaction
    turns, burned,  \* the sums: turns that count, output tokens
    landed,         \* history: output tokens written since the phase began ...
    seen,           \* ... and those written before its last reading
    inPhases,       \* history: what there was to meter in the phases so far
    forgone,        \* history: what of that was given up
    degraded,       \* history: a phase had no baseline
    raced           \* history: a prompt was taken for answered, never seen busy

serve == <<transcript, queue, busy, kills, stalls>>
phase == <<baseline, window, m, killed, exit, landed, seen>>
sums == <<turns, burned, inPhases, forgone, degraded, raced>>
vars == <<serve, faults, pc, leg, watermark, sawBusy, phase, sums>>

(***************************************************************************)
(* The transcript.                                                         *)
(***************************************************************************)
\* extract_transcript_metrics over a reading: real turns, and those of them the
\* relay killed (only a real turn may be subtracted); output tokens, summed up.
RealTurns(n) == Cardinality({i \in 1 .. n : Real(transcript[i].kind)})

OutputTokens(n) == Cardinality({i \in 1 .. n : transcript[i].burns})

\* Input tokens are a running maximum: they grow from one reading to another when a
\* message of the second reports more than any of the first.
InputGrew(from, to) ==
    \E i \in 1 .. to :
        transcript[i].input > 0 /\ \A j \in 1 .. from : transcript[i].input > transcript[j].input

GuardAborted(n) == Cardinality({i \in 1 .. n : transcript[i].kind = "guard"})

\* Faulty variant of FinalizeTimeouts: turns lost to the watchdog count as work.
FinalizeTimeoutsKept(n) == 0

FinalizeTimeouts(n) == Cardinality({i \in 1 .. n : transcript[i].kind = "finalize"})

\* assistant_texts_since, compaction_since
MarkedSince(n) == \E i \in n + 1 .. Len(transcript) : transcript[i].kind = "marked"

CompactedSince(n) == \E i \in n + 1 .. Len(transcript) : transcript[i].kind = "summary"

\* classify_transport_anomaly over the messages from a watermark on: the first text
\* that names a kill of the relay decides, then other errors (or a truncation, which
\* like them is only recorded).
Classified(n) ==
    LET new == n + 1 .. Len(transcript)
        named == {i \in new : transcript[i].kind \in {"guard", "void", "finalize"}}
        first == CHOOSE i \in named : \A j \in named : i <= j
    IN  IF named # {} THEN (IF transcript[first].kind = "finalize" THEN "finalize" ELSE "guard")
        ELSE IF \E i \in new : transcript[i].kind = "error" THEN "error"
        ELSE "none"

Recoverable == {"guard", "finalize"}

(***************************************************************************)
(* The serve.                                                              *)
(***************************************************************************)
PickUp ==
    /\ busy = "idle" /\ queue > 0
    /\ queue' = queue - 1
    /\ busy' = "prompt"
    /\ UNCHANGED <<transcript, kills, stalls>>

\* What the session was doing is over: the next prompt follows, if there is one.
Settle ==
    /\ busy' = IF queue > 0 THEN "prompt" ELSE "idle"
    /\ queue' = IF queue > 0 THEN queue - 1 ELSE 0

\* The worker writes a message; a kill or an error ends its turn.
Write ==
    /\ busy = "prompt" /\ Len(transcript) < MaxMessages
    /\ \E x \in Written :
         /\ transcript' = Append(transcript, x)
         /\ \/ x.kind \in {"done", "marked"} /\ UNCHANGED <<queue, busy, kills>>
            \/ /\ x.kind \in {"guard", "void", "finalize", "error"}
               /\ kills < MaxKills /\ kills' = kills + 1
               /\ Settle
    /\ UNCHANGED stalls

EndsMarked == transcript # <<>> /\ transcript[Len(transcript)].kind = "marked"

\* The turn ends: after a marker, or short of one.
EndTurn ==
    /\ busy = "prompt"
    /\ \/ EndsMarked /\ UNCHANGED stalls
       \/ stalls < MaxStalls /\ stalls' = stalls + 1
    /\ Settle
    /\ UNCHANGED <<transcript, kills>>

\* The worker calls self_compact at the end of a chunk; it starts once the session is
\* idle, and its summary may fail.
SelfCompact ==
    /\ busy = "idle" /\ EndsMarked
    /\ busy' = "compact"
    /\ UNCHANGED <<transcript, queue, kills, stalls>>

EndCompact ==
    /\ busy = "compact"
    /\ Settle
    /\ \/ /\ Len(transcript) < MaxMessages
          /\ \E x \in Written : x.kind = "summary" /\ transcript' = Append(transcript, x)
       \/ UNCHANGED transcript
    /\ UNCHANGED <<kills, stalls>>

InPhase == {"mark", "send", "busy", "idle", "meter", "window", "advance", "finish"}

\* A step of the serve, and what it adds to the phase in progress; after an exception,
\* or a phase that failed short of its deadline, nobody looks at the session any more.
Serve ==
    /\ pc # "raised" /\ (pc = "returned" => exit = 0 \/ killed)
    /\ PickUp \/ Write \/ EndTurn \/ SelfCompact \/ EndCompact
    /\ landed' = IF pc \in InPhase THEN landed + OutputTokens(Len(transcript))' - OutputTokens(Len(transcript))
                 ELSE landed
    /\ UNCHANGED <<faults, pc, leg, watermark, sawBusy, baseline, window, m, killed, exit,
                   seen, sums>>

(***************************************************************************)
(* The steps of the harness.  A read or a post works, or uses up a fault.  *)
(***************************************************************************)
Goto(from, to) == pc = from /\ pc' = to

Works == UNCHANGED faults

Fails == faults < MaxFaults /\ faults' = faults + 1

\* A read nobody guards fails: the exception leaves the drive.
Raises(from) ==
    /\ Goto(from, "raised") /\ Fails
    /\ UNCHANGED <<serve, leg, watermark, sawBusy, phase, sums>>

(***************************************************************************)
(* One phase: _run_opencode_serve.                                         *)
(***************************************************************************)
ReadBaseline ==
    /\ Goto("baseline", "mark")
    /\ \/ Works /\ baseline' = {Len(transcript)} /\ UNCHANGED degraded
       \/ Fails /\ baseline' = {} /\ degraded' = TRUE
    /\ killed' = FALSE /\ exit' = 0
    /\ landed' = 0 /\ seen' = 0
    /\ UNCHANGED <<serve, leg, watermark, sawBusy, window, m, turns, burned, inPhases, forgone, raced>>

ReadWindow ==
    /\ Goto("mark", "send")
    /\ \/ Works /\ window' = Len(transcript)
       \/ Fails /\ window' = 0
    /\ UNCHANGED <<serve, leg, watermark, sawBusy, baseline, m, killed, exit, landed, seen, sums>>

\* The phase returns, and its variables are gone.
measures == <<baseline, window, m, landed, seen>>

PhaseOver == baseline' = {} /\ window' = 0 /\ m' = {} /\ landed' = 0 /\ seen' = 0

\* Nothing that was written in the phase is metered.
Forgo == inPhases' = inPhases + landed /\ forgone' = forgone + landed

\* It returns zeros for all its counts.
Unmetered == pc' = "returned" /\ exit' = 1 /\ PhaseOver /\ Forgo

\* send_prompt; a post that fails may have been accepted all the same.
Posted ==
    \/ Works /\ queue' = queue + 1
    \/ Fails /\ queue' \in {queue, queue + 1}

\* A post that fails ends the phase with nothing metered, be it the first of the phase
\* or a nudge.
SendPrompt ==
    /\ pc = "send" /\ Posted
    /\ \/ Works /\ pc' = "busy" /\ UNCHANGED <<exit, measures, inPhases, forgone>>
       \/ Fails /\ Unmetered
    /\ UNCHANGED <<transcript, busy, kills, stalls, leg, watermark, sawBusy, killed,
                   turns, burned, degraded, raced>>

\* wait_busy; a probe that fails shows nothing.
SeesBusy ==
    /\ Goto("busy", "idle") /\ busy # "idle" /\ Works
    /\ UNCHANGED <<serve, leg, watermark, sawBusy, phase, sums>>

\* The messages in a reading, {} standing for an empty one.
ReadTo(r) == IF r = {} THEN 0 ELSE CHOOSE n \in r : TRUE

\* Never seen busy: given up, unless the transcript shows turns of this phase.
NeverBusy ==
    /\ pc = "busy"
    /\ LET now == Len(transcript)
           then == ReadTo(baseline)
           dead == /\ RealTurns(now) - RealTurns(then) <= 0
                   /\ baseline # {} => OutputTokens(now) - OutputTokens(then) <= 0
       IN  \/ /\ (dead /\ Works) \/ Fails
              /\ Unmetered /\ UNCHANGED raced
           \/ /\ ~dead /\ Works
              /\ pc' = "meter" /\ raced' = TRUE /\ UNCHANGED <<exit, measures, inPhases, forgone>>
    /\ UNCHANGED <<serve, leg, watermark, sawBusy, killed, turns, burned, degraded>>

\* Faulty variant of SeesIdle: a probe that fails is taken for idle.
SeesIdleBlind ==
    /\ Goto("idle", "meter") /\ (IF busy = "idle" THEN Works ELSE Fails)
    /\ UNCHANGED <<serve, leg, watermark, sawBusy, phase, sums>>

\* wait_idle; a probe that fails shows a busy session.
SeesIdle ==
    /\ Goto("idle", "meter") /\ busy = "idle" /\ Works
    /\ UNCHANGED <<serve, leg, watermark, sawBusy, phase, sums>>

\* abort: it may drop what is queued, and fail.
Abort ==
    \/ busy' = "idle" /\ queue' \in {0, queue}
    \/ UNCHANGED <<busy, queue>>

\* The deadline of the phase; the kill hook spares the serve.
RunTimeout ==
    /\ Goto("idle", "meter")
    /\ Abort
    /\ killed' = TRUE /\ exit' = 1
    /\ UNCHANGED <<transcript, kills, stalls, faults, leg, watermark, sawBusy, baseline,
                   window, m, landed, seen, sums>>

\* Observation lost: the phase ends as if nothing had happened since it began, and says
\* that its tokens are unmetered.
Lost ==
    /\ Fails /\ pc' = "finish"
    /\ m' = baseline /\ seen' = 0 /\ Forgo
    /\ exit' = 1

MeterRead ==
    /\ pc = "meter"
    /\ \/ Works /\ pc' = "window" /\ m' = {Len(transcript)} /\ seen' = landed
          /\ UNCHANGED <<exit, inPhases, forgone>>
       \/ Lost
    /\ UNCHANGED <<serve, leg, watermark, sawBusy, baseline, window, killed, landed, turns,
                   burned, degraded, raced>>

\* The classification: a turn the relay killed is driven again, with a nudge.
WindowRead ==
    /\ pc = "window"
    /\ \/ /\ Works
          /\ LET again == Classified(window) \in Recoverable /\ ~killed /\ exit = 0
             IN  pc' = IF again THEN "advance" ELSE "finish"
          /\ UNCHANGED <<m, seen, exit, inPhases, forgone>>
       \/ Lost
    /\ UNCHANGED <<serve, leg, watermark, sawBusy, baseline, window, killed, landed, turns,
                   burned, degraded, raced>>

\* Faulty variant of AdvanceWindow: the window stays where the phase began, and the
\* transcript is read again before the nudge is sent.
AdvanceNowhere ==
    /\ Goto("advance", "meter") /\ Works
    /\ UNCHANGED <<serve, leg, watermark, sawBusy, phase, sums>>

\* Faulty variant of AdvanceWindow: the metering starts anew with the nudge.
AdvanceRebased ==
    /\ Goto("advance", "send") /\ Works
    /\ window' = Len(transcript) /\ baseline' = {Len(transcript)}
    /\ UNCHANGED <<serve, leg, watermark, sawBusy, m, killed, exit, landed, seen, sums>>

\* The error of a killed turn stays in the transcript: the window moves past it.
AdvanceWindow ==
    /\ Goto("advance", "send")
    /\ \/ Works /\ window' = Len(transcript)
       \/ Fails /\ UNCHANGED window
    /\ UNCHANGED <<serve, leg, watermark, sawBusy, baseline, m, killed, exit, landed, seen, sums>>

\* Turns of a reading that count for the score.
Floor(n) == IF n < 0 THEN 0 ELSE n

KilledTurns(n) == GuardAborted(n) + FinalizeTimeouts(n)

\* The deltas; a phase that reached idle and produced nothing is an error.
FinishPhase ==
    /\ pc = "finish"
    /\ LET end == ReadTo(m)
           start == ReadTo(baseline)
           d_turns == RealTurns(end) - RealTurns(start)
           d_output == OutputTokens(end) - OutputTokens(start)
           silent == d_turns <= 0 /\ d_output <= 0 /\ ~InputGrew(start, end)
       IN  /\ turns' = turns + Floor(d_turns - (KilledTurns(end) - KilledTurns(start)))
           /\ burned' = burned + d_output
           /\ exit' = IF exit = 0 /\ silent THEN 1 ELSE exit
           /\ pc' = IF exit' # 0 \/ leg > Chunks THEN "returned" ELSE "scan"
    /\ inPhases' = inPhases + seen
    /\ PhaseOver
    /\ UNCHANGED <<serve, faults, leg, watermark, sawBusy, killed, forgone, degraded, raced>>

(***************************************************************************)
(* The chunks: _run_opencode_serve_chunked.                                *)
(***************************************************************************)
StartChunk ==
    /\ Goto("chunk", "baseline") /\ Works
    /\ watermark' = Len(transcript)
    /\ UNCHANGED <<serve, leg, sawBusy, phase, sums>>

\* Without the marker the worker is nudged; with it, the next chunk is due.
ScanMarker ==
    /\ pc = "scan" /\ Works
    /\ LET found == MarkedSince(watermark)
       IN  /\ pc' = IF ~found THEN "baseline"
                    ELSE IF leg = Chunks THEN "returned"
                    ELSE IF Compact THEN "watch" ELSE "chunk"
           /\ leg' = IF found /\ leg < Chunks /\ ~Compact THEN leg + 1 ELSE leg
    /\ sawBusy' = FALSE
    /\ UNCHANGED <<serve, watermark, phase, sums>>

(***************************************************************************)
(* Compaction: between two chunks, and before a feedback round.            *)
(***************************************************************************)
\* Whatever came of the compaction, the drive goes on.
GoOn ==
    /\ pc' = IF leg <= Chunks THEN "chunk" ELSE "baseline"
    /\ leg' = IF leg <= Chunks THEN leg + 1 ELSE leg
    /\ sawBusy' = FALSE

\* _await_chunk_compaction, one poll: the worker may have started one by itself.
WatchCompaction ==
    /\ pc = "watch"
    /\ \/ /\ Fails \/ (Works /\ (CompactedSince(watermark) \/ sawBusy))
          /\ GoOn                               \* probe_error, self, no_evidence, timeout
       \/ /\ Works /\ ~CompactedSince(watermark) /\ busy # "idle" /\ ~sawBusy
          /\ sawBusy' = TRUE /\ UNCHANGED <<pc, leg>>
       \/ /\ Works /\ ~CompactedSince(watermark) /\ busy = "idle" /\ ~sawBusy
          /\ pc' = "backstop" /\ UNCHANGED <<leg, sawBusy>>
    /\ UNCHANGED <<serve, watermark, phase, sums>>

\* _compact_attempt_boundary: straight to the backstop.
StartFeedback ==
    /\ pc = "returned" /\ (exit = 0 \/ killed) /\ leg < Chunks + Rounds
    /\ leg' = IF leg < Chunks THEN Chunks + 1 ELSE leg + 1
    /\ \/ /\ Works
          /\ watermark' = Len(transcript)
          /\ pc' = IF Compact THEN "backstop" ELSE "baseline"
       \/ Compact /\ Fails /\ pc' = "baseline" /\ UNCHANGED watermark
    /\ UNCHANGED <<serve, sawBusy, phase, sums>>

\* summarize: the post may come to nothing, and be carried out though it failed.
Summarize == busy' \in {busy, IF busy = "idle" THEN "compact" ELSE busy}

\* _fire_backstop_summarize
Backstop ==
    /\ pc = "backstop"
    /\ \/ Works /\ pc' = "confirm" /\ UNCHANGED <<leg, sawBusy>>
       \/ Fails /\ GoOn
    /\ Summarize
    /\ UNCHANGED <<transcript, queue, kills, stalls, watermark, phase, sums>>

Confirm ==
    /\ pc = "confirm" /\ Works
    /\ GoOn
    /\ UNCHANGED <<serve, watermark, phase, sums>>

(***************************************************************************)
(* The specification.                                                      *)
(***************************************************************************)
Init ==
    /\ transcript = <<>> /\ queue = 0 /\ busy = "idle"
    /\ kills = 0 /\ stalls = 0 /\ faults = 0
    /\ pc = "chunk" /\ leg = 1
    /\ watermark = 0 /\ sawBusy = FALSE
    /\ baseline = {} /\ window = 0 /\ m = {}
    /\ killed = FALSE /\ exit = 0
    /\ turns = 0 /\ burned = 0
    /\ landed = 0 /\ seen = 0 /\ inPhases = 0 /\ forgone = 0
    /\ degraded = FALSE /\ raced = FALSE

\* The reads outside every guard: the watermark of a chunk, the scan for its marker,
\* the model of the session, the confirmation of a summary.
Unguarded == {"chunk", "scan", "backstop", "confirm"}

Harness ==
    \/ ReadBaseline \/ ReadWindow \/ SendPrompt
    \/ SeesBusy \/ NeverBusy \/ SeesIdle \/ RunTimeout
    \/ MeterRead \/ WindowRead \/ AdvanceWindow \/ FinishPhase
    \/ StartChunk \/ ScanMarker
    \/ WatchCompaction \/ Backstop \/ Confirm
    \/ \E from \in Unguarded : Raises(from)

Next == Serve \/ Harness \/ StartFeedback

\* Every wait of the harness has a deadline, so its next step comes; the serve owes
\* nothing.
Spec == Init /\ [][Next]_vars /\ WF_vars(Harness)

(***************************************************************************)
(* Properties.                                                             *)
(***************************************************************************)
\* The deltas add up: of the output tokens written from the beginning of each phase to
\* its last reading, or to where it broke off, however often it was nudged, every one
\* is metered once or was given up; none is given up unless a call failed: a phase that
\* cannot be read, or whose nudge cannot be sent, meters nothing.  (Where a baseline
\* could not be read, a phase is metered from the start of the session.)
MeteredIsBurned ==
    ~degraded => /\ burned + forgone = inPhases
                 /\ faults = 0 => forgone = 0

\* Recovery does not inflate the score: as many turns count, at most, as the worker
\* ended by itself.
KilledTurnsDoNotCount ==
    ~degraded =>
        turns <= Cardinality({i \in DOMAIN transcript :
                                transcript[i].kind \in {"done", "marked", "summary"}})

\* The drive reports success, and has the worktree gated, only when the worker is
\* done with it: nothing is being generated and no prompt is waiting, unless a prompt
\* that was never seen busy was taken for answered.
GatedWhenQuiet ==
    pc = "returned" /\ exit = 0 /\ ~raced => queue = 0 /\ busy # "prompt"

\* Nudges are unbounded, and still end when what they answer to does: once the relay
\* has stopped killing turns and the worker writing messages without a marker, a phase
\* that has begun returns, or an unguarded read raises.
DriveReturns == (pc = "baseline") ~> (pc \in {"returned", "raised"})
=============================================================================
