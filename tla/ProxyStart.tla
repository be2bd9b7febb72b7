----------------------------- MODULE ProxyStart -----------------------------
(***************************************************************************)
(* What the OpenRouter proxy asks before it serves (main): the command     *)
(* line against the profile, the credential, the binding of the budget     *)
(* checkpoint, and for OrcaRouter the live price listing.  A launch that   *)
(* is refused serves nothing and leaves the checkpoint as it is.           *)
(***************************************************************************)
EXTENDS ProxyPricing

CONSTANTS
    Launches,      \* the command lines the proxy may be (re)started with
    KeyRings,      \* the contents auth.json may have: upstream -> its key's fingerprint
    Listings,      \* what OrcaRouter's price listing may say
    AbsoluteMax,   \* ABSOLUTE_MAX_USD
    RunId,         \* the run id, the profile and the hard cap the checkpoint of
    RunProfile,    \* the run is bound to
    HardCap

Profiles == {"glm", "mimo", "mimo25", "hy3", "kimicode", "kimik3", "minimax", "ring",
             "opus", "bigpickle"}

\* --model is named by the profile whose model it is; an option may be blank.
LaunchType ==
    [run_id : {"own", "other"}, model : Profiles, profile : Profiles, cap : Nat,
     provider_order : {"none", "blank", "slug"}, provider_quant : {"none", "blank", "slug"},
     authorize : BOOLEAN, priced : BOOLEAN, watch_only : BOOLEAN, reject_on_equality : BOOLEAN]

ASSUME StartAssumption ==
    /\ Launches \subseteq LaunchType
    /\ AbsoluteMax \in Nat /\ HardCap \in Nat
    /\ RunId \in {"own", "other"} /\ RunProfile \in Profiles

\* All profiles ask for prices and an authorization; they differ in where they send to,
\* and in whether provider, model and key are pinned.
DEFAULT_PROFILES ==
    [p \in Profiles |->
        [upstream |-> CASE p \in {"mimo", "mimo25", "ring", "opus"} -> "openrouter"
                        [] p = "bigpickle" -> "opencode"
                        [] OTHER -> "orcarouter",
         pinned |-> p = "opus",
         expects_model |-> p \notin {"mimo", "mimo25", "ring", "opus"},
         expects_key |-> IF p = "bigpickle" THEN {"b5ce6e5e"} ELSE {}]]

Upstream(l) == DEFAULT_PROFILES[l.profile].upstream

ArgumentsFit(l) == l.cap > 0 /\ (l.authorize => l.priced)

\* OpenRouter needs one provider to be named, by the profile or by the command line.
ProviderFits(l) ==
    IF Upstream(l) = "openrouter" /\ ~DEFAULT_PROFILES[l.profile].pinned
    THEN l.provider_order = "slug" /\ l.provider_quant # "blank"
    ELSE l.provider_order = "none" /\ l.provider_quant = "none"

\* load_upstream_key finds a key: {} stands for none.
KeyLoads(l, ring) == ring[Upstream(l)] # {}

\* _assert_expected_upstream_key_fp
KeyFits(l, ring) ==
    LET expected == DEFAULT_PROFILES[l.profile].expects_key
    IN  expected # {} => ring[Upstream(l)] = expected

\* A checkpoint that exists is of this run, or the ledger refuses it.
LedgerFits(l) ==
    /\ l.run_id = RunId
    /\ l.profile = RunProfile
    /\ (IF l.cap < AbsoluteMax THEN l.cap ELSE AbsoluteMax) = HardCap

Authorized == [input |-> InputRate, output |-> OutputRate, cache_read |-> CacheReadRate]

\* The prices a listing's row comes to; its ratios are in thousandths, and the code's
\* tolerance for float rounding is left out.
RowPrices(row) ==
    LET input == 2 * row.model_ratio
    IN  [input |-> input \div 1000, output |-> (input * row.completion_ratio) \div 1000000,
         cache_read |-> (input * row.cache_ratio) \div 1000000]

Charges(listing) == {RowPrices(row) : row \in listing.rows}

\* Faulty variant of verify_orcarouter_pricing_gate: without the expected prices it
\* returns once the anchor is in order.
verify_anchor_only(listing) == listing.pinned /\ listing.neutral /\ listing.anchored

verify_orcarouter_pricing_gate(listing) ==
    /\ listing.pinned /\ listing.neutral /\ listing.anchored
    /\ Charges(listing) = {Authorized}

\* Anything but a 200 with a JSON object raises PricingGateError, as the gate does.
fetch_orcarouter_pricing(listing) == listing.fetched

GatePasses(l, listing) ==
    l.authorize /\ Upstream(l) = "orcarouter" =>
        fetch_orcarouter_pricing(listing) /\ verify_orcarouter_pricing_gate(listing)

Starts(l, ring, listing) ==
    /\ ArgumentsFit(l) /\ ProviderFits(l)
    /\ KeyLoads(l, ring) /\ KeyFits(l, ring)
    /\ l.model = l.profile
    /\ LedgerFits(l)
    /\ GatePasses(l, listing)

\* External: the upstream charges what was authorized.  OrcaRouter charges what it
\* lists; of the other upstreams the operator has checked it.
ChargedAsAuthorized(l, listing) ==
    Upstream(l) = "orcarouter" => listing.neutral /\ Charges(listing) = {Authorized}

\* The flags of a running proxy; without an authorization nothing is charged.
Mode(l, listing) ==
    [watch_only |-> l.watch_only, reject_on_equality |-> l.reject_on_equality,
     authorized |-> l.authorize,
     charged |-> l.authorize => ChargedAsAuthorized(l, listing)]

Modes ==
    {Mode(t[1], t[3]) :
        t \in {t \in Launches \X KeyRings \X Listings : Starts(t[1], t[2], t[3])}}

ModeType == [watch_only : BOOLEAN, reject_on_equality : BOOLEAN, authorized : BOOLEAN,
             charged : BOOLEAN]
=============================================================================
