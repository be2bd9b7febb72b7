---------------------------- MODULE ProxyPricing ----------------------------
(***************************************************************************)
(* The money arithmetic of the OpenRouter proxy: the reservation that is   *)
(* taken before a request is forwarded, and the settlement that is derived *)
(* from the token usage the upstream reports.                              *)
(*                                                                         *)
(* Rates are naturals (price of one token in some unit).  An amount is in  *)
(* thousandths of that unit, so that the code's factors                    *)
(* (1 + FEE_RATE) * RESERVATION_SAFETY_FACTOR = 1.06 * 1.10 = 1.166 are    *)
(* exact.                                                                  *)
(***************************************************************************)
EXTENDS Integers

CONSTANTS
    InputRate,        \* pricing["input"]
    OutputRate,       \* pricing["output"]
    CacheReadRate,    \* pricing["cache_read"]
    CacheWriteRate,   \* pricing["cache_write"], the input rate when absent
    OutputWindow,     \* max_tokens_cap + profile.max_reasoning_tokens
    FlatFee           \* FLAT_FEE_USD

ASSUME PricingAssumption ==
    /\ InputRate \in Nat
    /\ OutputRate \in Nat
    /\ CacheReadRate \in Nat
    /\ CacheWriteRate \in Nat
    /\ OutputWindow \in Nat
    /\ FlatFee \in Nat

\* (1 + FEE_RATE) * RESERVATION_SAFETY_FACTOR, in thousandths.
PaddingPermille == 1166

\* What a reply reports of the tokens it used (_UsageEvidence).
UsageEvidence == [prompt : Nat, cached : Nat, cache_write : Nat, completion : Nat]

\* fresh_price and cached_price of worst_case_usd.
FreshPrice == IF CacheWriteRate > InputRate THEN CacheWriteRate ELSE InputRate

CachedPrice == IF CacheReadRate < FreshPrice THEN CacheReadRate ELSE FreshPrice

\* Faulty variant of worst_case_usd: the output window is not priced.
PromptOnlyReservation(in_ub, cached_ub) ==
    LET cached == IF cached_ub < in_ub THEN cached_ub ELSE in_ub
    IN  (cached * CachedPrice + (in_ub - cached) * FreshPrice) * PaddingPermille + FlatFee

\* The reservation for a request of at most in_ub input tokens, of which
\* cached_ub are believed to sit in the provider's prompt cache.
worst_case_usd(in_ub, cached_ub) ==
    LET cached == IF cached_ub < in_ub THEN cached_ub ELSE in_ub
        fresh  == in_ub - cached
    IN  (cached * CachedPrice + fresh * FreshPrice + OutputWindow * OutputRate)
          * PaddingPermille + FlatFee

\* The prompt tokens by the rate they are billed at.
CachedTokens(u) == IF u.cached < u.prompt THEN u.cached ELSE u.prompt

WrittenTokens(u) ==
    LET uncached == u.prompt - CachedTokens(u)
    IN  IF u.cache_write < uncached THEN u.cache_write ELSE uncached

PlainTokens(u) == u.prompt - CachedTokens(u) - WrittenTokens(u)

\* The honest billed estimate: no padding, no fees.
derived_cost_usd(u) ==
    (PlainTokens(u) * InputRate + CachedTokens(u) * CacheReadRate
       + WrittenTokens(u) * CacheWriteRate + u.completion * OutputRate) * 1000

\* The usage the handler passes on for settlement.  The non-stream branch
\* passes the evidence as parsed; the stream branch rebuilds it from the
\* figures it collected line by line, with cache_write_tokens=0.
EvidenceForSettlement(u, stream) ==
    IF stream THEN [u EXCEPT !.cache_write = 0] ELSE u

\* The provider behaves as the reservation supposes: it bills no more input
\* and output than the bounds, and finds the established prefix in its cache,
\* so that no more than the new part of the input is billed as uncached.
WithinBounds(u, in_ub) == u.prompt <= in_ub /\ u.completion <= OutputWindow

PrefixHonoured(u, in_ub, cached_ub) ==
    u.prompt - CachedTokens(u) <= in_ub - (IF cached_ub < in_ub THEN cached_ub ELSE in_ub)
=============================================================================
