----------------------------- MODULE ProxyLedger ----------------------------
(***************************************************************************)
(* The OpenRouter proxy of a benchmark run: concurrent request handlers    *)
(* (one thread per request) sharing one BudgetLedger, its checkpoint file, *)
(* the upstream-identity trip switch and the proven-billed prefix bound.   *)
(*                                                                         *)
(* A step of a handler is what it does between two points where another    *)
(* thread can get in: each ledger method runs under the ledger's lock and  *)
(* includes its write of the checkpoint.  The write is atomic (temporary   *)
(* file, fsync, replace) and may fail with an exception, by which time the *)
(* in-memory ledger has already changed.  The process may be killed and    *)
(* restarted on the same checkpoint at any point.                          *)
(***************************************************************************)
EXTENDS ProxyStart, Totals

CONSTANTS
    N,             \* the run makes N requests
    TraceId,       \* the trace id of each request, the ledger's key
    InputUB,       \* input_token_upper_bound of each request
    Stream,        \* does the request ask for a stream?
    Usages,        \* the usages the upstream may bill a request with
    CacheMayMiss,  \* may the provider bill the established prefix as fresh?
    PartialUsage,  \* may a stream break off after figures short of its bill?
    MaxRestarts,   \* bound: restarts of the process
    MaxFaults      \* bound: failed checkpoint writes

Reqs == 1..N
Ids  == 1..N

ASSUME LedgerAssumption ==
    /\ N \in Nat
    /\ TraceId \in [Reqs -> Ids]
    /\ InputUB \in [Reqs -> Nat]
    /\ Stream \in [Reqs -> BOOLEAN]
    /\ Usages \subseteq UsageEvidence
    /\ CacheMayMiss \in BOOLEAN
    /\ PartialUsage \in BOOLEAN
    /\ MaxRestarts \in Nat
    /\ MaxFaults \in Nat

VARIABLES
    mem,        \* the BudgetLedger's fields in memory
    disk,       \* the same fields as last written to the checkpoint
    mode,       \* the flags of the running process
    tripped,    \* _identity_mismatch_observed is set
    billedUb,   \* _proven_billed_input_ub
    pc,         \* where each request's handler is
    hold,       \* reserved_usd of each request
    cachedUb,   \* cached_in_tokens_ub of each request
    usage,      \* what the upstream bills the request with, once forwarded
    evidence,   \* what the handler got to see of it: its cost, its tokens, neither
    shown,      \* the figures of the bill it saw last
    sent,       \* history: the request was forwarded
    mismatch,   \* history: a foreign model was seen in this run
    late,       \* history: the request arrived after that
    restarts,   \* counter for MaxRestarts
    faults      \* counter for MaxFaults

ledgers == <<mem, disk>>
process == <<mode, tripped, billedUb, restarts>>
handlers == <<pc, hold, cachedUb, usage, evidence, shown>>
history == <<sent, mismatch, late>>
vars == <<ledgers, process, handlers, history, faults>>

(***************************************************************************)
(* The ledger.                                                             *)
(***************************************************************************)
Ledgers == [actual : Nat, derived : Nat, unproven : Nat, outstanding : [Ids -> Nat]]

EmptyLedger == [actual |-> 0, derived |-> 0, unproven |-> 0,
                outstanding |-> [i \in Ids |-> 0]]

\* Money that no later step gives back.
Committed(l) == l.actual + l.derived + l.unproven

\* hard_cap - remaining(): committed money and the holds in flight.
Accounted(l) == Committed(l) + Total(l.outstanding, N)

\* Faulty variant of Over: the holds in flight are left out of the projection.
OverWithoutHolds(l, amt) == Committed(l) + amt > HardCap

\* reserve()'s refusal, for a reservation of amt.
Over(l, amt) ==
    LET projected == Accounted(l) + amt
    IN  IF mode.reject_on_equality THEN projected >= HardCap ELSE projected > HardCap

Reserved(l, id, amt) == [l EXCEPT !.outstanding = [@ EXCEPT ![id] = amt]]

ReleasedUnproven(l, id) == [l EXCEPT !.outstanding = [@ EXCEPT ![id] = 0]]

SettledActual(l, id, amt) ==
    [l EXCEPT !.outstanding = [@ EXCEPT ![id] = 0], !.actual = @ + amt]

SettledDerived(l, id, amt) ==
    [l EXCEPT !.outstanding = [@ EXCEPT ![id] = 0], !.derived = @ + amt]

RetainedUnproven(l, id) ==
    [l EXCEPT !.outstanding = [@ EXCEPT ![id] = 0], !.unproven = @ + l.outstanding[id]]

\* Faulty variant of Persist: the checkpoint is left for later.
PersistInMemory(l) == mem' = l /\ UNCHANGED <<disk, faults>>

\* A ledger method that changes the fields to l: the write that ends it
\* succeeds, or raises after the fields have changed.
Persist(l) == mem' = l /\ disk' = l /\ UNCHANGED faults

PersistFails(l) ==
    /\ faults < MaxFaults
    /\ faults' = faults + 1
    /\ mem' = l
    /\ UNCHANGED disk

(***************************************************************************)
(* The handler of one request, _handle_post.                               *)
(***************************************************************************)
PCs == {"idle", "arrived", "cleared", "priced", "reserved", "sent", "relaying",
        "drained", "retain", "except", "billed", "done", "dead"}

\* Between reserve() and the settlement: the request owns a hold.
Holding == {"reserved", "sent", "relaying", "drained"}

Running == PCs \ {"idle", "done", "dead"}

Goto(r, l) == pc' = [pc EXCEPT ![r] = l]

\* The request comes in; route, bearer token and JSON body are in order, or the
\* handler answers 404, 401 or 400.
Arrive(r) ==
    /\ pc[r] = "idle"
    /\ \E ok \in BOOLEAN : Goto(r, IF ok THEN "arrived" ELSE "done")
    /\ late' = [late EXCEPT ![r] = mismatch]
    /\ UNCHANGED <<ledgers, process, hold, cachedUb, usage, evidence, shown, sent, mismatch, faults>>

\* Faulty variant of CheckRunnable: the trip switch is not consulted.
CheckAuthorizedOnly(r) ==
    /\ pc[r] = "arrived"
    /\ Goto(r, IF ~mode.authorized THEN "done" ELSE "cleared")
    /\ UNCHANGED <<ledgers, process, hold, cachedUb, usage, evidence, shown, history, faults>>

\* The trip switch (503), then runnable_reason (403).
CheckRunnable(r) ==
    /\ pc[r] = "arrived"
    /\ Goto(r, IF tripped \/ ~mode.authorized THEN "done" ELSE "cleared")
    /\ UNCHANGED <<ledgers, process, hold, cachedUb, usage, evidence, shown, history, faults>>

\* apply_policy refuses the body (400), or the reservation is priced against
\* the prefix bound of this moment.
PolicyRefuses(r) ==
    /\ pc[r] = "cleared"
    /\ Goto(r, "done")
    /\ UNCHANGED <<ledgers, process, hold, cachedUb, usage, evidence, shown, history, faults>>

Price(r) ==
    /\ pc[r] = "cleared"
    /\ LET cached == IF billedUb < InputUB[r] THEN billedUb ELSE InputUB[r]
       IN  /\ cachedUb' = [cachedUb EXCEPT ![r] = cached]
           /\ hold' = [hold EXCEPT ![r] = worst_case_usd(InputUB[r], cached)]
    /\ Goto(r, "priced")
    /\ UNCHANGED <<ledgers, process, usage, evidence, shown, history, faults>>

\* reserve() raises BudgetExceededError: 402.
ReserveRefused(r) ==
    /\ pc[r] = "priced"
    /\ Over(mem, hold[r]) /\ ~mode.watch_only
    /\ Goto(r, "done")
    /\ UNCHANGED <<ledgers, process, hold, cachedUb, usage, evidence, shown, history, faults>>

\* reserve() succeeds; or its write raises, which the handler answers with a 502:
\* the flag `reserved` is still False, so nothing takes the hold back.
Reserve(r) ==
    /\ pc[r] = "priced"
    /\ ~Over(mem, hold[r]) \/ mode.watch_only
    /\ LET l == Reserved(mem, TraceId[r], hold[r])
       IN  \/ Persist(l) /\ Goto(r, "reserved")
           \/ PersistFails(l) /\ Goto(r, "done")
    /\ UNCHANGED <<process, hold, cachedUb, usage, evidence, shown, history>>

\* The request goes upstream, where it is going to be billed with u; a bill at prices
\* that are not those authorized is one beyond the bounds.
Forward(r) ==
    /\ pc[r] = "reserved"
    /\ \E u \in Usages :
         /\ mode.charged => WithinBounds(u, InputUB[r])
         /\ mode.charged /\ ~CacheMayMiss => PrefixHonoured(u, InputUB[r], cachedUb[r])
         /\ usage' = [usage EXCEPT ![r] = u]
    /\ sent' = [sent EXCEPT ![r] = TRUE]
    /\ Goto(r, "sent")
    /\ UNCHANGED <<ledgers, process, hold, cachedUb, evidence, shown, mismatch, late, faults>>

\* Faulty variant of TransportFails: the error answer skips the retention.
TransportFailsForgetting(r) ==
    /\ pc[r] \in {"sent", "relaying"}
    /\ Goto(r, "done")
    /\ UNCHANGED <<ledgers, process, hold, cachedUb, usage, evidence, shown, history, faults>>

\* The exchange raises before its settlement: the transport (refused, reset, no
\* answer within its timeout), or a log line of the relay.
TransportFails(r) ==
    /\ pc[r] \in {"sent", "relaying"}
    /\ Goto(r, "except")
    /\ UNCHANGED <<ledgers, process, hold, cachedUb, usage, evidence, shown, history, faults>>

\* A reply: the model it names is checked as soon as it is seen, which for a
\* stream is well before the reply ends, if the profile expects one.
Relay(r) ==
    /\ pc[r] = "sent"
    /\ \E foreign \in {FALSE, DEFAULT_PROFILES[RunProfile].expects_model} :
         /\ tripped' = (tripped \/ foreign)
         /\ mismatch' = (mismatch \/ foreign)
    /\ Goto(r, "relaying")
    /\ UNCHANGED <<ledgers, mode, billedUb, restarts, hold, cachedUb, usage, evidence, shown, sent, late, faults>>

\* The figures a reply may have shown of its bill u when it ends: u itself; of a
\* stream that breaks off, the prompt and the completion so far.
Figures(u, stream) ==
    LET short == {[u EXCEPT !.completion = c] : c \in 0..u.completion}
    IN  IF PartialUsage /\ stream THEN short ELSE {u}

\* The reply ends: with usage.cost, with token usage only, or with neither
\* (an error body, a stream cut short); the figures that count are the last ones it
\* showed.  A client that went away does not matter, the handler drains the
\* upstream all the same.
Drain(r) ==
    /\ pc[r] = "relaying"
    /\ \E e \in {"cost", "usage", "none"}, u \in Figures(usage[r], Stream[r]) :
         /\ e = "usage" => u.prompt > 0 \/ u.completion > 0
         /\ evidence' = [evidence EXCEPT ![r] = e]
         /\ shown' = [shown EXCEPT ![r] = u]
    /\ Goto(r, "drained")
    /\ UNCHANGED <<ledgers, process, hold, cachedUb, usage, history, faults>>

\* What the upstream bills for the request, and the part of it that usage.cost showed.
Bill(r) == derived_cost_usd(usage[r])

ShownCost(r) == derived_cost_usd(shown[r])

\* _finalize_reservation with a proven cost.  A failed write raises out of it.
SettleActual(r) ==
    /\ pc[r] = "drained" /\ evidence[r] = "cost"
    /\ LET l == SettledActual(mem, TraceId[r], ShownCost(r))
       IN  \/ Persist(l) /\ Goto(r, "billed")
           \/ PersistFails(l) /\ Goto(r, "except")
    /\ UNCHANGED <<process, hold, cachedUb, usage, evidence, shown, history>>

\* _finalize_reservation with usage and authorized pricing.  A failed write, or
\* a failed log line after a good write, falls through to the retain path.
SettleDerived(r) ==
    /\ pc[r] = "drained" /\ evidence[r] = "usage"
    /\ LET l == SettledDerived(mem, TraceId[r],
                  derived_cost_usd(EvidenceForSettlement(shown[r], Stream[r])))
       IN  \/ Persist(l) /\ Goto(r, "billed")
           \/ PersistFails(l) /\ Goto(r, "retain")
           \/ faults < MaxFaults /\ faults' = faults + 1 /\ mem' = l /\ disk' = l
              /\ Goto(r, "retain")
    /\ UNCHANGED <<process, hold, cachedUb, usage, evidence, shown, history>>

\* _finalize_reservation without evidence, or after a failed derived settlement.
Retain(r) ==
    /\ pc[r] = "retain" \/ (pc[r] = "drained" /\ evidence[r] = "none")
    /\ LET l == RetainedUnproven(mem, TraceId[r])
       IN  \/ Persist(l) /\ Goto(r, "done")
           \/ PersistFails(l) /\ Goto(r, "except")
    /\ UNCHANGED <<process, hold, cachedUb, usage, evidence, shown, history>>

\* The handler's outer except: retain what is still reserved, swallow a second
\* failure, answer 502.
ExceptRetain(r) ==
    /\ pc[r] = "except"
    /\ LET l == RetainedUnproven(mem, TraceId[r])
       IN  Persist(l) \/ PersistFails(l)
    /\ Goto(r, "done")
    /\ UNCHANGED <<process, hold, cachedUb, usage, evidence, shown, history>>

\* _record_proven_billed_input_ub, under a lock of its own.
RecordBilled(r) ==
    /\ pc[r] = "billed"
    /\ billedUb' = IF InputUB[r] > billedUb THEN InputUB[r] ELSE billedUb
    /\ Goto(r, "done")
    /\ UNCHANGED <<ledgers, mode, tripped, restarts, hold, cachedUb, usage, evidence, shown, history, faults>>

\* The process dies and is started again on its checkpoint: the ledger is what
\* the checkpoint says, the switch and the prefix bound are gone.
Restart ==
    /\ restarts < MaxRestarts
    /\ restarts' = restarts + 1
    /\ mode' \in Modes
    /\ mem' = disk
    /\ tripped' = FALSE
    /\ billedUb' = 0
    /\ pc' = [r \in Reqs |-> IF pc[r] \in Running THEN "dead" ELSE pc[r]]
    /\ UNCHANGED <<disk, hold, cachedUb, usage, evidence, shown, history, faults>>

NoUsage == [prompt |-> 0, cached |-> 0, cache_write |-> 0, completion |-> 0]

Init ==
    /\ mem = EmptyLedger
    /\ disk = EmptyLedger
    /\ mode \in Modes
    /\ tripped = FALSE
    /\ billedUb = 0
    /\ pc = [r \in Reqs |-> "idle"]
    /\ hold = [r \in Reqs |-> 0]
    /\ cachedUb = [r \in Reqs |-> 0]
    /\ usage = [r \in Reqs |-> NoUsage]
    /\ evidence = [r \in Reqs |-> "none"]
    /\ shown = [r \in Reqs |-> NoUsage]
    /\ sent = [r \in Reqs |-> FALSE]
    /\ mismatch = FALSE
    /\ late = [r \in Reqs |-> FALSE]
    /\ restarts = 0
    /\ faults = 0

\* The steps a handler takes by itself once its request has arrived.
HandlerStep(r) ==
    \/ CheckRunnable(r) \/ PolicyRefuses(r) \/ Price(r)
    \/ ReserveRefused(r) \/ Reserve(r) \/ Forward(r)
    \/ TransportFails(r) \/ Relay(r) \/ Drain(r)
    \/ SettleActual(r) \/ SettleDerived(r) \/ Retain(r) \/ ExceptRetain(r)
    \/ RecordBilled(r)

Next ==
    \/ \E r \in Reqs : Arrive(r) \/ HandlerStep(r)
    \/ Restart

Spec == Init /\ [][Next]_vars

\* A handler thread keeps running: its waits on the upstream are bounded by the
\* transport's timeout, its waits on a lock by the short critical sections.
FairSpec == Spec /\ \A r \in Reqs : WF_vars(HandlerStep(r))

(***************************************************************************)
(* Properties.                                                             *)
(***************************************************************************)
\* Every amount of the ledger is a natural number: no settlement, retention or
\* reload of the checkpoint makes one negative.
TypeOK ==
    /\ mem \in Ledgers /\ disk \in Ledgers
    /\ mode \in ModeType
    /\ tripped \in BOOLEAN /\ billedUb \in Nat
    /\ pc \in [Reqs -> PCs]
    /\ hold \in [Reqs -> Nat] /\ cachedUb \in [Reqs -> Nat]
    /\ usage \in [Reqs -> UsageEvidence] /\ shown \in [Reqs -> UsageEvidence]
    /\ evidence \in [Reqs -> {"cost", "usage", "none"}]
    /\ sent \in [Reqs -> BOOLEAN] /\ late \in [Reqs -> BOOLEAN]
    /\ mismatch \in BOOLEAN
    /\ restarts \in Nat /\ faults \in Nat

\* The hard cap is a ceiling: however the handlers interleave, whatever writes
\* fail and however often the proxy restarts, the money accounted for, in
\* memory and on disk, stays within it.
CapHeld == Accounted(mem) <= HardCap /\ Accounted(disk) <= HardCap

\* A request that owns a hold has it in the checkpoint too, at its full amount:
\* the proxy can die anywhere in the exchange without forgetting the exposure.
DurableHold ==
    \A r \in Reqs : pc[r] \in Holding =>
        /\ mem.outstanding[TraceId[r]] = hold[r]
        /\ disk.outstanding[TraceId[r]] = hold[r]

\* The upstream's bill, request by request.
Billed == [r \in Reqs |-> IF sent[r] THEN Bill(r) ELSE 0]

\* What the upstream has been made to bill is covered by the checkpoint, at
\* every moment: in flight, settled, retained, orphaned by a restart.  It takes
\* streams that show their whole bill (PartialUsage is FALSE).
NoUnaccountedSpend == Total(Billed, N) <= Accounted(disk)

\* Committed money is never given back, neither by a settlement nor by the
\* reload of the checkpoint.
DurableMonotone == [][Committed(disk') >= Committed(disk)]_vars

\* Once a foreign model was seen, no request that arrives afterwards goes upstream.
IdentityRefusal == \A r \in Reqs : late[r] => ~sent[r]

\* The request was turned away with its hold in the ledger: reserve() had booked it
\* when its checkpoint write raised, and the handler's flag `reserved` was not set, so
\* the 502 takes nothing back.  The hold is in memory until the proxy restarts.
Stranded(r) == pc[r] = "done" /\ ~sent[r]

\* Money held in memory is given back in the end, settled or retained, whichever writes
\* fail and however the exchange ends: the only hold that stays is the one of a request
\* whose own reservation could not be written, which never went upstream.
HoldsDrain ==
    \A r \in Reqs : mem.outstanding[TraceId[r]] > 0
        ~> (mem.outstanding[TraceId[r]] = 0 \/ pc[r] = "dead" \/ Stranded(r))

\* A reservation is an upper bound of what the request settles at.
ReservationsAreUpperBounds == \A r \in Reqs : sent[r] => Bill(r) <= hold[r]

=============================================================================
