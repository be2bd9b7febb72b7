------------------------------- MODULE UiHold -------------------------------
(***************************************************************************)
(* Holding a finished cell for review (_hold_for_ui_review): the harness   *)
(* boots the game the worker wrote, publishes hold-ui.json, and waits for  *)
(* somebody to create the RELEASE_HOLD file.  Three parties run at once:   *)
(* the holding process, the game's server, and the operator, who looks at  *)
(* the state file (or the printed banner) and touches the release file     *)
(* some time later.  Holds follow one another in the same directory when a *)
(* session is run again, and an earlier one may have been killed.          *)
(***************************************************************************)
EXTENDS Naturals

CONSTANTS MaxHolds,    \* bound: holds, one after the other
          MaxTouches,  \* bound: times the operator touches the release file
          MaxFaults    \* bound: failed calls, garbage answers, interrupts, kills

ASSUME HoldBounds == MaxHolds \in Nat /\ MaxTouches \in Nat /\ MaxFaults \in Nat

VARIABLES
    stage,     \* where the holding process is; "idle" between holds
    raising,   \* an exception is on its way out of the hold
    last,      \* how the last hold ended
    server,    \* the server this hold booted
    stray,     \* something else listens on the port
    ui,        \* who answered the health probe: ui_healthy is ui # "no"
    sentinel,  \* RELEASE_HOLD: absent, or touched before or after the clearing
    state,     \* hold-ui.json: absent, this hold's, or an earlier one's
    looked,    \* the operator has read where to release
    spared,    \* history: what a failed call left in place during this hold
    holds, touches, faults

operatorVars == <<looked, touches>>
fileVars == <<sentinel, state>>
holdVars == <<stage, raising, last, server, stray, ui, fileVars, operatorVars, spared,
              holds, faults>>

Fault == faults < MaxFaults /\ faults' = faults + 1
Running == server \in {"booting", "serving"}

HoldInit ==
    /\ stage = "idle" /\ raising = FALSE /\ last = "none"
    /\ server = "none" /\ ui = "no" /\ stray \in BOOLEAN
    /\ sentinel = "no" /\ state = "no"
    /\ looked = FALSE /\ spared = {}
    /\ holds = 0 /\ touches = 0 /\ faults = 0

-----------------------------------------------------------------------------
(* The holding process. *)

\* What an earlier hold left becomes stale; its server, if it ran on, is a
\* stranger by now.
Start ==
    /\ stage = "idle" /\ holds < MaxHolds
    /\ stage' = "free" /\ holds' = holds + 1
    /\ raising' = FALSE /\ server' = "none" /\ ui' = "no" /\ spared' = {}
    /\ sentinel' = IF sentinel = "new" THEN "old" ELSE sentinel
    /\ state' = IF state = "live" THEN "stale" ELSE state
    /\ UNCHANGED <<last, stray, operatorVars, faults>>

\* Faulty variant of StrayLeft: nobody is killed.
StrayLeftAlive == stray

\* SIGKILL whatever listens on the port; a failed kill is only reported.
StrayLeft == FALSE

FreePort ==
    /\ stage = "free" /\ stage' = "boot"
    /\ \/ /\ stray' = StrayLeft
          /\ UNCHANGED <<spared, faults>>
       \/ /\ stray /\ Fault
          /\ spared' = spared \cup {"listener"}
          /\ UNCHANGED stray
    /\ UNCHANGED <<raising, last, server, ui, fileVars, operatorVars, holds>>

\* The entrypoint resolves and the server is spawned; or there is none, or
\* the spawn fails, and the hold goes on without a server.
Boot ==
    /\ stage = "boot"
    /\ \/ stage' = "health" /\ server' = "booting"
       \/ stage' = "clear" /\ UNCHANGED server
    /\ UNCHANGED <<raising, last, stray, ui, fileVars, operatorVars, spared, holds, faults>>

\* One look of the health loop: has the server exited, does the port answer,
\* is the time up?  The probe asks the port, not the process.
Health ==
    /\ stage = "health" /\ stage' = "clear"
    /\ \/ server = "exited" /\ UNCHANGED ui
       \/ server = "serving" /\ ui' = "own"
       \/ server = "booting" /\ stray /\ ui' = "other"
       \/ server # "exited" /\ UNCHANGED ui        \* the deadline
    /\ UNCHANGED <<raising, last, server, stray, fileVars, operatorVars, spared, holds, faults>>

\* Faulty variants of Cleared: the file stays, or is truncated.
ClearedNot == sentinel
\* A release file of an earlier hold is removed before the wait.
Cleared == "no"

Clear ==
    /\ stage = "clear" /\ stage' = "publish"
    /\ \/ sentinel' = Cleared /\ UNCHANGED <<spared, faults>>
       \/ /\ sentinel # "no" /\ Fault
          /\ spared' = spared \cup {"sentinel"} /\ UNCHANGED sentinel
    /\ UNCHANGED <<raising, last, server, stray, ui, state, operatorVars, holds>>

\* Write hold-ui.json and print the banner; a failed write is only reported.
Publish ==
    /\ stage = "publish" /\ stage' = "wait"
    /\ \/ state' = "live" /\ UNCHANGED faults
       \/ Fault /\ UNCHANGED state
    /\ UNCHANGED <<raising, last, server, stray, ui, sentinel, operatorVars, spared, holds>>

\* Faulty variant of Released: a hold whose server exited is not released.
ReleasedIfServed == sentinel # "no" /\ server # "exited"

Released == sentinel # "no"

Release ==
    /\ stage = "wait" /\ Released
    /\ stage' = "stop"
    /\ UNCHANGED <<raising, last, server, stray, ui, fileVars, operatorVars, spared, holds, faults>>

\* The finally block: terminate the server, then kill it.  A child of the
\* server may live on and keep the port.
Stopped == "none"

Stop ==
    /\ stage = "stop" /\ stage' = "unlink"
    /\ server' = Stopped
    /\ \/ UNCHANGED stray
       \/ server = "serving" /\ stray' = TRUE
    /\ UNCHANGED <<raising, last, ui, fileVars, operatorVars, spared, holds, faults>>

\* A server that survives SIGKILL for 1.5 s raises TimeoutExpired out of the
\* finally block, past the clean-up of the files.
StopTimesOut ==
    /\ stage = "stop" /\ Running /\ Fault
    /\ stage' = "idle" /\ last' = "raised" /\ raising' = TRUE
    /\ stray' = TRUE /\ server' = "none"
    /\ UNCHANGED <<ui, fileVars, operatorVars, spared, holds>>

\* Remove the release file, then the state file; the first failure ends it.
Unlink ==
    /\ stage = "unlink" /\ stage' = "idle"
    /\ last' = IF raising THEN "raised" ELSE "released"
    /\ \/ sentinel' = "no" /\ state' = "no" /\ UNCHANGED <<spared, faults>>
       \/ /\ Fault /\ spared' = spared \cup {"files"}
          /\ sentinel' \in {sentinel, "no"} /\ UNCHANGED state
    /\ UNCHANGED <<raising, server, stray, ui, operatorVars, holds>>

\* Something answers the health probe with no HTTP status line: the exception
\* is not among those the probe catches.  During the boot nothing stops the
\* server; during the wait the finally block does.
Abandon(how) ==
    /\ stage' = "idle" /\ last' = how
    /\ stray' = (stray \/ Running) /\ server' = "none"

Garbage ==
    /\ stage = "health" /\ (server = "serving" \/ stray) /\ Fault
    /\ Abandon("raised") /\ raising' = TRUE
    /\ UNCHANGED <<ui, fileVars, operatorVars, spared, holds>>

\* Ctrl-C, or garbage at a heartbeat, while waiting.
RaiseInWait ==
    /\ stage = "wait" /\ Fault
    /\ stage' = "stop" /\ raising' = TRUE
    /\ UNCHANGED <<last, server, stray, ui, fileVars, operatorVars, spared, holds>>

\* The process is killed: its server is in a session of its own and runs on.
Killed ==
    /\ stage # "idle" /\ Fault
    /\ Abandon("killed")
    /\ UNCHANGED <<raising, ui, fileVars, operatorVars, spared, holds>>

-----------------------------------------------------------------------------
(* The game's server, written by the worker, and the operator. *)

\* It takes the port, or exits because the port is taken; it may exit anyway.
ServerBinds ==
    /\ server = "booting"
    /\ server' = IF stray THEN "exited" ELSE "serving"
    /\ UNCHANGED <<stage, raising, last, stray, ui, fileVars, operatorVars, spared, holds, faults>>

ServerExits ==
    /\ Running /\ server' = "exited"
    /\ UNCHANGED <<stage, raising, last, stray, ui, fileVars, operatorVars, spared, holds, faults>>

Look ==
    /\ ~looked /\ (state # "no" \/ stage = "wait")
    /\ looked' = TRUE
    /\ UNCHANGED <<stage, raising, last, server, stray, ui, fileVars, touches, spared,
                   holds, faults>>

Touch ==
    /\ looked /\ touches < MaxTouches
    /\ looked' = FALSE /\ touches' = touches + 1
    /\ sentinel' = IF stage \in {"free", "boot", "health", "clear"} THEN "old" ELSE "new"
    /\ UNCHANGED <<stage, raising, last, server, stray, ui, state, spared, holds, faults>>

-----------------------------------------------------------------------------
Hold == FreePort \/ Boot \/ Health \/ Clear \/ Publish \/ Release \/ Stop \/ Unlink
HoldNext == \/ Start \/ Hold \/ StopTimesOut \/ Garbage \/ RaiseInWait \/ Killed
        \/ ServerBinds \/ ServerExits \/ Look \/ Touch

\* The operator need not ever come, and nobody need start another hold.
HoldSpec == HoldInit /\ [][HoldNext]_holdVars /\ WF_holdVars(Hold)

-----------------------------------------------------------------------------
(* Properties. *)

HoldTypeOK ==
    /\ stage \in {"idle", "free", "boot", "health", "clear", "publish", "wait", "stop", "unlink"}
    /\ raising \in BOOLEAN /\ stray \in BOOLEAN /\ looked \in BOOLEAN
    /\ last \in {"none", "released", "raised", "killed"}
    /\ server \in {"none", "booting", "serving", "exited"}
    /\ ui \in {"no", "own", "other"}
    /\ sentinel \in {"no", "old", "new"} /\ state \in {"no", "stale", "live"}
    /\ spared \subseteq {"listener", "sentinel", "files"}
    /\ holds \in 0 .. MaxHolds /\ touches \in 0 .. MaxTouches /\ faults \in 0 .. MaxFaults

\* The page offered for review is the held cell's own game, unless a listener
\* could not be killed before the boot.
LinkIsOwn == ui = "other" => "listener" \in spared

\* A hold is not released by a file touched before it had cleared the way for its own,
\* unless that file could not be removed.  (A touch is taken for this hold's when it
\* comes after that, even if it was meant for an earlier one.)
NoStaleRelease ==
    [][(stage = "wait" /\ stage' = "stop" /\ ~raising') =>
          (sentinel = "new" \/ "sentinel" \in spared)]_holdVars

\* A released hold leaves no server of its own, and no state file unless it
\* could not be removed, however the server and the operator behaved.
ReleasedClean ==
    (stage = "idle" /\ last = "released") =>
        /\ server = "none"
        /\ state = "no" \/ "files" \in spared

\* Once hold-ui.json is out, a touch of the release file ends the hold.
TouchHonoured == (state = "live" /\ sentinel = "new") ~> (stage = "idle")
=============================================================================
