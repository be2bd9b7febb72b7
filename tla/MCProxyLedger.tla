---------------------------- MODULE MCProxyLedger ---------------------------
(***************************************************************************)
(* Instances of ProxyLedger for TLC.  Rates: input 2, cache read 1, output *)
(* 1 per token; a request of 2 or 3 input tokens and an output window of   *)
(* 1.  The cap is chosen so that two full reservations fit and a third     *)
(* fits only when the established prefix makes it cheaper.                 *)
(***************************************************************************)
EXTENDS ProxyLedger

\* Pairwise distinct trace ids (uuid4).
UniqueIds == [r \in Reqs |-> r]

MCInputUB == [r \in Reqs |-> IF r = 1 THEN 2 ELSE 3]

MCStream  == [r \in Reqs |-> r # 2]

\* A fresh prompt with a cache write, a longer one that is mostly cached, a
\* refusal that is billed nothing.
MCUsages ==
    { [prompt |-> 2, cached |-> 0, cache_write |-> 1, completion |-> 1],
      [prompt |-> 3, cached |-> 2, cache_write |-> 1, completion |-> 1],
      [prompt |-> 0, cached |-> 0, cache_write |-> 0, completion |-> 0] }

\* A command line that names no provider.
Line(profile, model, cap, authorize, priced, watch, reject) ==
    [run_id |-> "own", profile |-> profile, model |-> model, cap |-> cap,
     provider_order |-> "none", provider_quant |-> "none",
     authorize |-> authorize, priced |-> priced,
     watch_only |-> watch, reject_on_equality |-> reject]

\* Command lines of a paid run.  The ones that could do harm are refused: another
\* profile, run or model, no prices, a higher cap without a hard stop.
PaidLines ==
    {Line("glm", "glm", 17000, TRUE, TRUE, FALSE, FALSE),
     Line("glm", "glm", 17000, TRUE, TRUE, FALSE, TRUE),
     Line("hy3", "hy3", 17000, TRUE, TRUE, TRUE, FALSE),
     Line("glm", "hy3", 17000, TRUE, TRUE, TRUE, FALSE),
     Line("glm", "glm", 17000, TRUE, FALSE, TRUE, FALSE),
     Line("glm", "glm", 16000, TRUE, TRUE, TRUE, FALSE),
     [Line("glm", "glm", 17000, TRUE, TRUE, TRUE, FALSE) EXCEPT !.run_id = "other"],
     [Line("mimo", "mimo", 17000, TRUE, TRUE, TRUE, FALSE) EXCEPT !.provider_order = "slug"]}

\* Command lines of a run on the free upstream: enforced, watched, not authorized.
FreeLines ==
    {Line("bigpickle", "bigpickle", 20000, TRUE, TRUE, FALSE, FALSE),
     Line("bigpickle", "bigpickle", 17000, TRUE, TRUE, TRUE, FALSE),
     Line("bigpickle", "bigpickle", 17000, FALSE, FALSE, FALSE, FALSE)}

\* The key there, rotated, or not there.
MCKeyRings ==
    {[u \in {"openrouter", "opencode", "orcarouter"} |-> fp] :
        fp \in {{"b5ce6e5e"}, {"other"}, {}}}

\* A listing that has the authorized prices, one that is dearer for input, one without
\* the model, one at a discount, one that cannot be had.
AsAuthorized ==
    [fetched |-> TRUE, pinned |-> TRUE, neutral |-> TRUE, anchored |-> TRUE,
     rows |-> {[model_ratio |-> 1000, completion_ratio |-> 500, cache_ratio |-> 500]}]

MCListings ==
    {AsAuthorized,
     [AsAuthorized EXCEPT !.rows = {[model_ratio |-> 2000, completion_ratio |-> 250, cache_ratio |-> 250]}],
     [AsAuthorized EXCEPT !.rows = {}],
     [AsAuthorized EXCEPT !.neutral = FALSE],
     [AsAuthorized EXCEPT !.fetched = FALSE]}
=============================================================================
