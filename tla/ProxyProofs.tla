----------------------------- MODULE ProxyProofs ----------------------------
(***************************************************************************)
(* What the budget ledger of the proxy guarantees for every number of      *)
(* requests, every price list and every bound on faults and restarts.      *)
(*                                                                         *)
(* The argument goes through the shape of a ledger step: a reserve, a      *)
(* settlement or a retention of one entry of one table (LedgerStepShape),  *)
(* written to disk or not.  Types, monotony of the committed money and the *)
(* durability of the holds follow from the shape alone.  The cap needs in  *)
(* addition that a settlement is within its hold (ReservationsBound): that *)
(* is the arithmetic of the prices (ReservationCoversSettlement: it is an  *)
(* upper bound of what the request can settle at, as long as the provider  *)
(* still has the established prefix in its prompt cache) and rests on the  *)
(* durability of the holds: what a settlement takes out of the table is    *)
(* what was reserved.  That nothing billed is forgotten is the opposite    *)
(* bound: a settlement books at least the bill (StreamSettlement), so the  *)
(* accounts on disk stay above what the requests may yet cost (Covered).   *)
(***************************************************************************)
EXTENDS ProxyLedger, TotalsProofs, TLAPS

(***************************************************************************)
(* The arithmetic of the prices.                                           *)
(***************************************************************************)
\* Products are monotone in the count and in the rate.
LEMMA TimesMono ==
    ASSUME NEW a \in Nat, NEW b \in Nat, NEW r \in Nat, NEW s \in Nat,
           a <= b, r <= s
    PROVE  a * r <= b * s /\ a * r \in Nat /\ b * s \in Nat
<1>1. a * r <= b * r
  OBVIOUS
<1>2. b * r <= b * s
  OBVIOUS
<1>3. a * r \in Nat /\ b * r \in Nat /\ b * s \in Nat
  OBVIOUS
<1>4. QED
  BY <1>1, <1>2, <1>3

\* The three classes of prompt tokens are naturals that add up to the prompt.
LEMMA TokensPartition ==
    ASSUME NEW u \in UsageEvidence
    PROVE  /\ CachedTokens(u) \in Nat /\ WrittenTokens(u) \in Nat /\ PlainTokens(u) \in Nat
           /\ CachedTokens(u) + WrittenTokens(u) + PlainTokens(u) = u.prompt
BY DEF UsageEvidence, CachedTokens, WrittenTokens, PlainTokens

\* The two input prices of a reservation are naturals.
LEMMA PricesNat ==
    /\ FreshPrice \in Nat /\ CachedPrice \in Nat
    /\ InputRate <= FreshPrice /\ CacheWriteRate <= FreshPrice
BY PricingAssumption DEF FreshPrice, CachedPrice

\* worst_case_usd is a reservation: a natural amount.
THEOREM ReservationNat ==
    ASSUME NEW in_ub \in Nat, NEW cached_ub \in Nat
    PROVE  worst_case_usd(in_ub, cached_ub) \in Nat
<1> DEFINE C == IF cached_ub < in_ub THEN cached_ub ELSE in_ub
           F == in_ub - C
<1>1. C \in Nat /\ F \in Nat
  OBVIOUS
<1>2. worst_case_usd(in_ub, cached_ub)
        = (C * CachedPrice + F * FreshPrice + OutputWindow * OutputRate)
            * PaddingPermille + FlatFee
  BY DEF worst_case_usd
<1> HIDE DEF C, F
<1>3. C * CachedPrice \in Nat /\ F * FreshPrice \in Nat /\ OutputWindow * OutputRate \in Nat
  BY <1>1, PricesNat, PricingAssumption
<1>4. QED
  BY <1>2, <1>3, PricingAssumption DEF PaddingPermille

\* derived_cost_usd is a natural amount.
THEOREM DerivedNat ==
    ASSUME NEW u \in UsageEvidence
    PROVE  derived_cost_usd(u) \in Nat
<1> DEFINE a == PlainTokens(u) * InputRate
           b == CachedTokens(u) * CacheReadRate
           c == WrittenTokens(u) * CacheWriteRate
           d == u.completion * OutputRate
<1>1. a \in Nat /\ b \in Nat /\ c \in Nat /\ d \in Nat
  BY TokensPartition, PricingAssumption DEF UsageEvidence
<1>2. derived_cost_usd(u) = (a + b + c + d) * 1000
  BY DEF derived_cost_usd
<1> HIDE DEF a, b, c, d
<1>3. QED
  BY <1>1, <1>2

\* The claim of reserve()'s docstring (the reservations are upper bounds), with
\* the condition under which worst_case_usd earns it: the provider bills within
\* the token bounds, honours the established prefix, and does not charge more
\* for a cached token than for a fresh one.
THEOREM ReservationCoversSettlement ==
    ASSUME NEW in_ub \in Nat, NEW cached_ub \in Nat, NEW u \in UsageEvidence,
           CacheReadRate <= FreshPrice,
           WithinBounds(u, in_ub), PrefixHonoured(u, in_ub, cached_ub)
    PROVE  derived_cost_usd(u) <= worst_case_usd(in_ub, cached_ub)
<1> DEFINE C == IF cached_ub < in_ub THEN cached_ub ELSE in_ub
           F == in_ub - C
           c == CachedTokens(u)
           w == WrittenTokens(u)
           p == PlainTokens(u)
           o == u.completion
           d == F - (w + p)
<1>1. C \in Nat /\ F \in Nat /\ C + F = in_ub
  OBVIOUS
<1>2. c \in Nat /\ w \in Nat /\ p \in Nat /\ c + w + p = u.prompt
  BY TokensPartition
<1>3. o \in Nat /\ o <= OutputWindow /\ u.prompt \in Nat /\ u.prompt <= in_ub
  BY DEF UsageEvidence, WithinBounds
<1>4. u.prompt - c <= F
  BY DEF PrefixHonoured
<1>5. derived_cost_usd(u)
        = (p * InputRate + c * CacheReadRate + w * CacheWriteRate + o * OutputRate) * 1000
  BY DEF derived_cost_usd
<1>6. worst_case_usd(in_ub, cached_ub)
        = (C * CacheReadRate + F * FreshPrice + OutputWindow * OutputRate)
            * PaddingPermille + FlatFee
  <2>1. CachedPrice = CacheReadRate
    BY PricingAssumption, PricesNat DEF CachedPrice
  <2>2. QED
    BY <2>1 DEF worst_case_usd
<1> HIDE DEF C, F, c, w, p, o
<1>7. d \in Nat /\ c <= C + d /\ F = p + w + d
  BY <1>1, <1>2, <1>3, <1>4
<1> HIDE DEF d
<1>8. o * OutputRate <= OutputWindow * OutputRate
  BY <1>3, PricingAssumption
<1>9. p * InputRate <= p * FreshPrice /\ w * CacheWriteRate <= w * FreshPrice
  BY <1>2, PricesNat, PricingAssumption
<1>10. c * CacheReadRate <= C * CacheReadRate + d * FreshPrice
  <2>1. c * CacheReadRate <= (C + d) * CacheReadRate
    BY <1>1, <1>2, <1>7, PricingAssumption
  <2>2. (C + d) * CacheReadRate = C * CacheReadRate + d * CacheReadRate
    BY <1>1, <1>7, PricingAssumption
  <2>3. d * CacheReadRate <= d * FreshPrice
    BY <1>7, PricesNat, PricingAssumption
  <2>4. d * CacheReadRate \in Nat /\ C * CacheReadRate \in Nat /\ d * FreshPrice \in Nat
        /\ c * CacheReadRate \in Nat
    BY <1>1, <1>2, <1>7, PricesNat, PricingAssumption
  <2>5. QED
    BY <2>1, <2>2, <2>3, <2>4
<1>11. F * FreshPrice = p * FreshPrice + w * FreshPrice + d * FreshPrice
  BY <1>2, <1>7, PricesNat
<1> DEFINE x == p * InputRate + c * CacheReadRate + w * CacheWriteRate + o * OutputRate
           y == C * CacheReadRate + F * FreshPrice + OutputWindow * OutputRate
<1>12. x \in Nat /\ y \in Nat /\ x <= y
  <2> DEFINE x1 == p * InputRate   x2 == c * CacheReadRate
             x3 == w * CacheWriteRate   x4 == o * OutputRate
             y1 == C * CacheReadRate    y2 == p * FreshPrice
             y3 == w * FreshPrice       y4 == d * FreshPrice
             y5 == OutputWindow * OutputRate
  <2>1. /\ x1 \in Nat /\ x2 \in Nat /\ x3 \in Nat /\ x4 \in Nat
        /\ y1 \in Nat /\ y2 \in Nat /\ y3 \in Nat /\ y4 \in Nat /\ y5 \in Nat
    BY <1>1, <1>2, <1>3, <1>7, PricesNat, PricingAssumption
  <2>2. x1 <= y2 /\ x3 <= y3 /\ x2 <= y1 + y4 /\ x4 <= y5
    BY <1>8, <1>9, <1>10
  <2>3. x = x1 + x2 + x3 + x4 /\ y = y1 + (y2 + y3 + y4) + y5
    BY <1>11
  <2> HIDE DEF x1, x2, x3, x4, y1, y2, y3, y4, y5, x, y
  <2>4. QED
    BY <2>1, <2>2, <2>3
<1>13. derived_cost_usd(u) = x * 1000
       /\ worst_case_usd(in_ub, cached_ub) = y * 1166 + FlatFee
  BY <1>5, <1>6 DEF PaddingPermille
<1> HIDE DEF x, y
<1>14. QED
  BY <1>12, <1>13, PricingAssumption

\* The usage that is settled: dropping the cache-write count keeps the bounds.
LEMMA EvidenceBounded ==
    ASSUME NEW in_ub \in Nat, NEW cached_ub \in Nat, NEW u \in UsageEvidence,
           NEW stream \in BOOLEAN,
           WithinBounds(u, in_ub), PrefixHonoured(u, in_ub, cached_ub)
    PROVE  LET e == EvidenceForSettlement(u, stream)
           IN  e \in UsageEvidence /\ WithinBounds(e, in_ub) /\ PrefixHonoured(e, in_ub, cached_ub)
BY DEF EvidenceForSettlement, UsageEvidence, WithinBounds, PrefixHonoured, CachedTokens

\* Dropping the cache-write count never settles a request below its bill, as long
\* as a token written to the cache costs no more than a fresh one.
THEOREM StreamSettlement ==
    ASSUME NEW u \in UsageEvidence, NEW stream \in BOOLEAN,
           stream => CacheWriteRate <= InputRate
    PROVE  derived_cost_usd(u) <= derived_cost_usd(EvidenceForSettlement(u, stream))
<1> DEFINE e == EvidenceForSettlement(u, stream)
           c == CachedTokens(u)
           w == WrittenTokens(u)
           p == PlainTokens(u)
           o == u.completion
<1>1. c \in Nat /\ w \in Nat /\ p \in Nat /\ c + w + p = u.prompt /\ o \in Nat
  BY TokensPartition DEF UsageEvidence
<1>2. CASE stream
  <2>1. e = [u EXCEPT !.cache_write = 0]
    BY <1>2 DEF EvidenceForSettlement
  <2>2. e.prompt = u.prompt /\ e.cached = u.cached /\ e.cache_write = 0 /\ e.completion = o
    BY <2>1 DEF UsageEvidence
  <2> HIDE DEF e
  <2>3. CachedTokens(e) = c
    BY <2>2 DEF CachedTokens
  <2>4. WrittenTokens(e) = 0
    BY <2>2, <2>3, <1>1 DEF WrittenTokens
  <2> HIDE DEF c, w, p, o
  <2>5. PlainTokens(e) = p + w
    BY <2>2, <2>3, <2>4, <1>1 DEF PlainTokens
  <2>6. derived_cost_usd(e)
          = ((p + w) * InputRate + c * CacheReadRate + 0 * CacheWriteRate + o * OutputRate) * 1000
    BY <2>2, <2>3, <2>4, <2>5 DEF derived_cost_usd
  <2>7. derived_cost_usd(u)
          = (p * InputRate + c * CacheReadRate + w * CacheWriteRate + o * OutputRate) * 1000
    BY DEF derived_cost_usd, c, w, p, o
  <2>8. w * CacheWriteRate <= w * InputRate
    BY <1>1, <1>2, PricingAssumption
  <2>9. (p + w) * InputRate = p * InputRate + w * InputRate /\ 0 * CacheWriteRate = 0
    BY <1>1, PricingAssumption
  <2>10. /\ p * InputRate \in Nat /\ w * InputRate \in Nat /\ w * CacheWriteRate \in Nat
         /\ c * CacheReadRate \in Nat /\ o * OutputRate \in Nat
    BY <1>1, PricingAssumption
  <2> DEFINE x1 == p * InputRate       x2 == c * CacheReadRate
             x3 == w * CacheWriteRate  x4 == o * OutputRate   x5 == w * InputRate
  <2>11. /\ x1 \in Nat /\ x2 \in Nat /\ x3 \in Nat /\ x4 \in Nat /\ x5 \in Nat /\ x3 <= x5
         /\ derived_cost_usd(u) = (x1 + x2 + x3 + x4) * 1000
         /\ derived_cost_usd(e) = ((x1 + x5) + x2 + 0 + x4) * 1000
    BY <2>6, <2>7, <2>8, <2>9, <2>10
  <2> HIDE DEF x1, x2, x3, x4, x5
  <2>12. derived_cost_usd(u) <= derived_cost_usd(e)
    BY <2>11
  <2>13. QED
    BY <2>12 DEF e
<1>3. CASE ~stream
  BY <1>3, DerivedNat DEF EvidenceForSettlement
<1>4. QED
  BY <1>2, <1>3

(***************************************************************************)
(* The modes of a launch, and sums over the table of holds.                *)
(***************************************************************************)
\* The law of sums for tables of holds.
LEMMA HoldsTotal ==
    \A f \in [Ids -> Nat], id \in Ids, v \in Nat :
        Total([f EXCEPT ![id] = v], N) = (Total(f, N) - f[id]) + v
BY TotalUpdate, LedgerAssumption DEF Ids

\* Every launch that is not refused has well-typed flags, and its upstream charges what
\* was authorized: for OrcaRouter the price gate has seen to it.
LEMMA ModesSound == \A m \in Modes : m \in ModeType /\ m.charged = TRUE
<1> SUFFICES ASSUME NEW l \in Launches, NEW k \in KeyRings, NEW x \in Listings, Starts(l, k, x)
             PROVE  Mode(l, x) \in ModeType /\ Mode(l, x).charged = TRUE
  BY DEF Modes
<1>1. /\ l.watch_only \in BOOLEAN /\ l.reject_on_equality \in BOOLEAN
      /\ l.authorize \in BOOLEAN
  BY StartAssumption DEF LaunchType
<1>2. l.authorize => ChargedAsAuthorized(l, x)
  BY DEF Starts, GatePasses, verify_orcarouter_pricing_gate, ChargedAsAuthorized
<1>3. QED
  BY <1>1, <1>2, Zenon DEF Mode, ModeType

\* Whether the run's profile names the model it expects.
LEMMA ExpectsModel == DEFAULT_PROFILES[RunProfile].expects_model \in BOOLEAN
BY StartAssumption DEF DEFAULT_PROFILES

(***************************************************************************)
(* What the ledger's methods do to a ledger.                               *)
(***************************************************************************)
\* The sums of a well-typed ledger are naturals.
LEMMA LedgerNat ==
    ASSUME NEW l \in Ledgers
    PROVE  /\ l.actual \in Nat /\ l.derived \in Nat /\ l.unproven \in Nat
           /\ l.outstanding \in [Ids -> Nat]
           /\ Committed(l) \in Nat /\ Total(l.outstanding, N) \in Nat
           /\ Accounted(l) \in Nat
<1>1. /\ l.actual \in Nat /\ l.derived \in Nat /\ l.unproven \in Nat
      /\ l.outstanding \in [Ids -> Nat]
  BY DEF Ledgers
<1>2. Total(l.outstanding, N) \in Nat
  BY <1>1, TotalNat, LedgerAssumption DEF Ids
<1>3. QED
  BY <1>1, <1>2 DEF Committed, Accounted

\* reserve() keeps a ledger well typed and commits nothing.
LEMMA ReservedLedger ==
    ASSUME NEW l \in Ledgers, NEW id \in Ids, NEW amt \in Nat
    PROVE  /\ Reserved(l, id, amt) \in Ledgers
           /\ Reserved(l, id, amt).outstanding = [l.outstanding EXCEPT ![id] = amt]
           /\ Committed(Reserved(l, id, amt)) = Committed(l)
<1> DEFINE m == Reserved(l, id, amt)
<1>1. /\ m \in Ledgers
      /\ m.outstanding = [l.outstanding EXCEPT ![id] = amt]
      /\ m.actual = l.actual /\ m.derived = l.derived /\ m.unproven = l.unproven
  BY DEF Reserved, Ledgers
<1> HIDE DEF m
<1>2. Committed(m) = Committed(l)
  BY <1>1 DEF Committed
<1>3. QED
  BY <1>1, <1>2 DEF m

\* reserve() on a free id accounts for exactly the reservation.
LEMMA ReservedAccounted ==
    ASSUME NEW l \in Ledgers, NEW id \in Ids, NEW amt \in Nat
    PROVE  Accounted(Reserved(l, id, amt)) = (Accounted(l) - l.outstanding[id]) + amt
<1> DEFINE m == Reserved(l, id, amt)
<1>1. m.outstanding = [l.outstanding EXCEPT ![id] = amt] /\ Committed(m) = Committed(l)
  BY ReservedLedger
<1> HIDE DEF m
<1>2. Total(m.outstanding, N) = (Total(l.outstanding, N) - l.outstanding[id]) + amt
  BY <1>1, HoldsTotal, LedgerNat
<1>3. Accounted(m) = (Accounted(l) - l.outstanding[id]) + amt
  BY <1>1, <1>2, LedgerNat DEF Accounted
<1>4. QED
  BY <1>3 DEF m

\* settle_actual() trades the hold of its id for the proven amount.
LEMMA SettledActualLedger ==
    ASSUME NEW l \in Ledgers, NEW id \in Ids, NEW amt \in Nat
    PROVE  LET m == SettledActual(l, id, amt)
           IN  /\ m \in Ledgers
               /\ m.outstanding = [l.outstanding EXCEPT ![id] = 0]
               /\ Committed(m) = Committed(l) + amt
               /\ Accounted(m) = (Accounted(l) - l.outstanding[id]) + amt
<1> DEFINE m == SettledActual(l, id, amt)
<1>1. /\ m \in Ledgers
      /\ m.outstanding = [l.outstanding EXCEPT ![id] = 0]
      /\ m.actual = l.actual + amt /\ m.derived = l.derived /\ m.unproven = l.unproven
  <2>1. m.outstanding = [l.outstanding EXCEPT ![id] = 0]
    BY DEF SettledActual, Ledgers
  <2>2. m.actual = l.actual + amt
    BY DEF SettledActual, Ledgers
  <2>3. m.derived = l.derived /\ m.unproven = l.unproven
    BY DEF SettledActual, Ledgers
  <2>4. m \in Ledgers
    <3>1. [l.outstanding EXCEPT ![id] = 0] \in [Ids -> Nat] /\ l.actual + amt \in Nat
      BY LedgerNat
    <3>2. \A o \in [Ids -> Nat], a \in Nat :
            [l EXCEPT !.outstanding = o, !.actual = a] \in Ledgers
      BY DEF Ledgers
    <3>3. m = [l EXCEPT !.outstanding = [l.outstanding EXCEPT ![id] = 0],
                        !.actual = l.actual + amt]
      BY DEF SettledActual
    <3>4. QED
      BY <3>1, <3>2, <3>3
  <2>5. QED
    BY <2>1, <2>2, <2>3, <2>4
<1> HIDE DEF m
<1>2. Total(m.outstanding, N) = (Total(l.outstanding, N) - l.outstanding[id]) + 0
  BY <1>1, HoldsTotal, LedgerNat
<1>3. QED
  BY <1>1, <1>2, LedgerNat DEF Committed, Accounted, m

\* settle_derived() trades the hold of its id for the derived amount.
LEMMA SettledDerivedLedger ==
    ASSUME NEW l \in Ledgers, NEW id \in Ids, NEW amt \in Nat
    PROVE  LET m == SettledDerived(l, id, amt)
           IN  /\ m \in Ledgers
               /\ m.outstanding = [l.outstanding EXCEPT ![id] = 0]
               /\ Committed(m) = Committed(l) + amt
               /\ Accounted(m) = (Accounted(l) - l.outstanding[id]) + amt
<1> DEFINE m == SettledDerived(l, id, amt)
<1>1. /\ m \in Ledgers
      /\ m.outstanding = [l.outstanding EXCEPT ![id] = 0]
      /\ m.derived = l.derived + amt /\ m.actual = l.actual /\ m.unproven = l.unproven
  <2>1. m.outstanding = [l.outstanding EXCEPT ![id] = 0]
    BY DEF SettledDerived, Ledgers
  <2>2. m.derived = l.derived + amt
    BY DEF SettledDerived, Ledgers
  <2>3. m.actual = l.actual /\ m.unproven = l.unproven
    BY DEF SettledDerived, Ledgers
  <2>4. m \in Ledgers
    <3>1. [l.outstanding EXCEPT ![id] = 0] \in [Ids -> Nat] /\ l.derived + amt \in Nat
      BY LedgerNat
    <3>2. \A o \in [Ids -> Nat], a \in Nat :
            [l EXCEPT !.outstanding = o, !.derived = a] \in Ledgers
      BY DEF Ledgers
    <3>3. m = [l EXCEPT !.outstanding = [l.outstanding EXCEPT ![id] = 0],
                        !.derived = l.derived + amt]
      BY DEF SettledDerived
    <3>4. QED
      BY <3>1, <3>2, <3>3
  <2>5. QED
    BY <2>1, <2>2, <2>3, <2>4
<1> HIDE DEF m
<1>2. Total(m.outstanding, N) = (Total(l.outstanding, N) - l.outstanding[id]) + 0
  BY <1>1, HoldsTotal, LedgerNat
<1>3. QED
  BY <1>1, <1>2, LedgerNat DEF Committed, Accounted, m

\* retain_unproven() moves the hold of its id and loses nothing of it.
LEMMA RetainedUnprovenLedger ==
    ASSUME NEW l \in Ledgers, NEW id \in Ids
    PROVE  LET m == RetainedUnproven(l, id)
           IN  /\ m \in Ledgers
               /\ m.outstanding = [l.outstanding EXCEPT ![id] = 0]
               /\ Committed(m) = Committed(l) + l.outstanding[id]
               /\ Accounted(m) = Accounted(l)
<1> DEFINE m == RetainedUnproven(l, id)
<1>1. /\ m \in Ledgers
      /\ m.outstanding = [l.outstanding EXCEPT ![id] = 0]
      /\ m.unproven = l.unproven + l.outstanding[id] /\ m.derived = l.derived /\ m.actual = l.actual
  <2>1. m.outstanding = [l.outstanding EXCEPT ![id] = 0]
    BY DEF RetainedUnproven, Ledgers
  <2>2. m.unproven = l.unproven + l.outstanding[id]
    BY DEF RetainedUnproven, Ledgers
  <2>3. m.derived = l.derived /\ m.actual = l.actual
    BY DEF RetainedUnproven, Ledgers
  <2>4. m \in Ledgers
    <3>1. [l.outstanding EXCEPT ![id] = 0] \in [Ids -> Nat] /\ l.unproven + l.outstanding[id] \in Nat
      BY LedgerNat
    <3>2. \A o \in [Ids -> Nat], a \in Nat :
            [l EXCEPT !.outstanding = o, !.unproven = a] \in Ledgers
      BY DEF Ledgers
    <3>3. m = [l EXCEPT !.outstanding = [l.outstanding EXCEPT ![id] = 0],
                        !.unproven = l.unproven + l.outstanding[id]]
      BY DEF RetainedUnproven
    <3>4. QED
      BY <3>1, <3>2, <3>3
  <2>5. QED
    BY <2>1, <2>2, <2>3, <2>4
<1> HIDE DEF m
<1>2. Total(m.outstanding, N) = (Total(l.outstanding, N) - l.outstanding[id]) + 0
  BY <1>1, HoldsTotal, LedgerNat
<1>3. QED
  BY <1>1, <1>2, LedgerNat DEF Committed, Accounted, m

(***************************************************************************)
(* Type correctness.                                                       *)
(***************************************************************************)
\* A ledger method leaves two ledgers behind, whether its write fails or not.
LEMMA PersistTypes ==
    ASSUME NEW l \in Ledgers, disk \in Ledgers, faults \in Nat,
           Persist(l) \/ PersistFails(l)
    PROVE  mem' \in Ledgers /\ disk' \in Ledgers /\ faults' \in Nat
BY DEF Persist, PersistFails

\* The usage that is settled is well typed.
LEMMA EvidenceType ==
    ASSUME NEW u \in UsageEvidence, NEW b \in BOOLEAN
    PROVE  EvidenceForSettlement(u, b) \in UsageEvidence
BY DEF EvidenceForSettlement, UsageEvidence

\* The figures a reply may have shown of its bill are those of the bill, but for a
\* completion that may be short; without broken streams they are the bill.
LEMMA FiguresShort ==
    ASSUME NEW u \in UsageEvidence, NEW b \in BOOLEAN, NEW v \in Figures(u, b)
    PROVE  /\ v \in UsageEvidence
           /\ v.prompt = u.prompt /\ v.cached = u.cached /\ v.cache_write = u.cache_write
           /\ v.completion <= u.completion
           /\ ~PartialUsage => v = u
<1>1. CASE v = u
  BY <1>1 DEF UsageEvidence
<1>2. ASSUME NEW c \in 0..u.completion, v = [u EXCEPT !.completion = c], PartialUsage
      PROVE  /\ v \in UsageEvidence
             /\ v.prompt = u.prompt /\ v.cached = u.cached /\ v.cache_write = u.cache_write
             /\ v.completion <= u.completion
  BY <1>2 DEF UsageEvidence
<1>3. v = u \/ (PartialUsage /\ \E c \in 0..u.completion : v = [u EXCEPT !.completion = c])
  BY DEF Figures
<1>4. QED
  BY <1>1, <1>2, <1>3

\* A handler only goes to places of the handler.
LEMMA GotoType ==
    ASSUME pc \in [Reqs -> PCs], NEW r \in Reqs, NEW l \in PCs, Goto(r, l)
    PROVE  pc' \in [Reqs -> PCs]
BY DEF Goto

\* The proxy starts well typed.
LEMMA TypeInit == Init => TypeOK
<1> SUFFICES ASSUME Init PROVE TypeOK
  OBVIOUS
<1>1. EmptyLedger \in Ledgers
  BY DEF EmptyLedger, Ledgers
<1>2. NoUsage \in UsageEvidence
  BY DEF NoUsage, UsageEvidence
<1>3. QED
  BY <1>1, <1>2, ModesSound, LedgerAssumption DEF Init, TypeOK, PCs

\* The steps that leave both ledgers alone.
QuietStep(r) ==
    \/ Arrive(r) \/ CheckRunnable(r) \/ PolicyRefuses(r) \/ Price(r) \/ ReserveRefused(r)
    \/ Forward(r) \/ TransportFails(r) \/ Relay(r) \/ Drain(r) \/ RecordBilled(r)

\* The steps that are a method of the ledger.
LedgerStep(r) ==
    Reserve(r) \/ SettleActual(r) \/ SettleDerived(r) \/ Retain(r) \/ ExceptRetain(r)

\* The steps that call no ledger method leave both ledgers alone.
LEMMA QuietLedgers ==
    ASSUME NEW r \in Reqs, QuietStep(r)
    PROVE  UNCHANGED <<mem, disk, faults>>
BY DEF QuietStep, Arrive, CheckRunnable, PolicyRefuses, Price, ReserveRefused, Forward,
       TransportFails, Relay, Drain, RecordBilled, ledgers

\* They keep the proxy well typed.
LEMMA QuietTypes ==
    ASSUME TypeOK, NEW r \in Reqs, QuietStep(r)
    PROVE  TypeOK'
<1> USE DEF ledgers, process, history
<1>1. CASE Arrive(r)
  BY <1>1 DEF Arrive, TypeOK, Goto, PCs
<1>2. CASE CheckRunnable(r)
  BY <1>2 DEF CheckRunnable, TypeOK, Goto, PCs
<1>3. CASE PolicyRefuses(r)
  BY <1>3 DEF PolicyRefuses, TypeOK, Goto, PCs
<1>4. CASE Price(r)
  <2> DEFINE c == IF billedUb < InputUB[r] THEN billedUb ELSE InputUB[r]
  <2>1. c \in Nat
    BY LedgerAssumption DEF TypeOK
  <2>2. worst_case_usd(InputUB[r], c) \in Nat
    BY <2>1, ReservationNat, LedgerAssumption
  <2>3. /\ cachedUb' = [cachedUb EXCEPT ![r] = c]
        /\ hold' = [hold EXCEPT ![r] = worst_case_usd(InputUB[r], c)]
    BY <1>4 DEF Price
  <2> HIDE DEF c
  <2>4. hold' \in [Reqs -> Nat] /\ cachedUb' \in [Reqs -> Nat]
    BY <2>1, <2>2, <2>3 DEF TypeOK
  <2>5. pc' \in [Reqs -> PCs]
    BY <1>4 DEF Price, Goto, PCs, TypeOK
  <2>6. QED
    BY <1>4, <2>4, <2>5 DEF Price, TypeOK
<1>5. CASE ReserveRefused(r)
  BY <1>5 DEF ReserveRefused, TypeOK, Goto, PCs
<1>6. CASE Forward(r)
  <2>1. PICK u \in Usages : usage' = [usage EXCEPT ![r] = u]
    BY <1>6 DEF Forward
  <2>2. usage' \in [Reqs -> UsageEvidence]
    BY <2>1, LedgerAssumption DEF TypeOK
  <2>3. pc' \in [Reqs -> PCs] /\ sent' \in [Reqs -> BOOLEAN]
    BY <1>6 DEF Forward, Goto, PCs, TypeOK
  <2>4. QED
    BY <1>6, <2>2, <2>3 DEF Forward, TypeOK
<1>7. CASE TransportFails(r)
  BY <1>7 DEF TransportFails, TypeOK, Goto, PCs
<1>8. CASE Relay(r)
  BY <1>8, ExpectsModel DEF Relay, TypeOK, Goto, PCs
<1>9. CASE Drain(r)
  <2>1. pc' \in [Reqs -> PCs]
    BY <1>9 DEF Drain, Goto, PCs, TypeOK
  <2>2. evidence' \in [Reqs -> {"cost", "usage", "none"}]
    BY <1>9 DEF Drain, TypeOK
  <2>3. shown' \in [Reqs -> UsageEvidence]
    <3>1. PICK u \in Figures(usage[r], Stream[r]) : shown' = [shown EXCEPT ![r] = u]
      BY <1>9 DEF Drain
    <3>2. u \in UsageEvidence
      BY <3>1, FiguresShort, LedgerAssumption DEF TypeOK
    <3>3. QED
      BY <3>1, <3>2 DEF TypeOK
  <2>4. QED
    BY <1>9, <2>1, <2>2, <2>3 DEF Drain, TypeOK
<1>10. CASE RecordBilled(r)
  BY <1>10, LedgerAssumption DEF RecordBilled, TypeOK, Goto, PCs
<1>11. QED
  BY <1>1, <1>2, <1>3, <1>4, <1>5, <1>6, <1>7, <1>8, <1>9, <1>10 DEF QuietStep

\* The amounts a step settles with.
LEMMA AmountTypes ==
    ASSUME TypeOK, NEW r \in Reqs
    PROVE  /\ TraceId[r] \in Ids /\ hold[r] \in Nat /\ usage[r] \in UsageEvidence
           /\ shown[r] \in UsageEvidence /\ Bill(r) \in Nat /\ ShownCost(r) \in Nat
           /\ EvidenceForSettlement(shown[r], Stream[r]) \in UsageEvidence
           /\ derived_cost_usd(EvidenceForSettlement(shown[r], Stream[r])) \in Nat
<1>1. /\ TraceId[r] \in Ids /\ hold[r] \in Nat /\ usage[r] \in UsageEvidence
      /\ shown[r] \in UsageEvidence /\ Stream[r] \in BOOLEAN
  BY LedgerAssumption DEF TypeOK
<1>2. EvidenceForSettlement(shown[r], Stream[r]) \in UsageEvidence
  BY <1>1, EvidenceType
<1>3. QED
  BY <1>1, <1>2, DerivedNat DEF Bill, ShownCost

\* The ledgers after a ledger step: a method's result l in memory, and on disk
\* l or what was there; the handler's place is the only other thing it changes.
LEMMA LedgerStepShape ==
    ASSUME TypeOK, NEW r \in Reqs, LedgerStep(r)
    PROVE  /\ UNCHANGED <<mode, tripped, billedUb, restarts, hold, cachedUb, usage, evidence, shown,
                          sent, mismatch, late>>
           /\ faults' \in Nat
           /\ \E q \in PCs : Goto(r, q)
           /\ mem' \in Ledgers
           /\ disk' \in {mem', disk}
           /\ mem' \in { Reserved(mem, TraceId[r], hold[r]),
                         SettledActual(mem, TraceId[r], ShownCost(r)),
                         SettledDerived(mem, TraceId[r],
                            derived_cost_usd(EvidenceForSettlement(shown[r], Stream[r]))),
                         RetainedUnproven(mem, TraceId[r]) }
<1> DEFINE a == Reserved(mem, TraceId[r], hold[r])
           b == SettledActual(mem, TraceId[r], ShownCost(r))
           c == SettledDerived(mem, TraceId[r],
                    derived_cost_usd(EvidenceForSettlement(shown[r], Stream[r])))
           d == RetainedUnproven(mem, TraceId[r])
<1>1. mem \in Ledgers /\ disk \in Ledgers /\ faults \in Nat
  BY DEF TypeOK
<1>2. a \in Ledgers /\ b \in Ledgers /\ c \in Ledgers /\ d \in Ledgers
  BY <1>1, AmountTypes, ReservedLedger, SettledActualLedger, SettledDerivedLedger,
     RetainedUnprovenLedger
<1> HIDE DEF a, b, c, d
<1>3. CASE Reserve(r)
  <2>1. /\ UNCHANGED <<process, hold, cachedUb, usage, evidence, shown, history>>
        /\ (Persist(a) /\ Goto(r, "reserved")) \/ (PersistFails(a) /\ Goto(r, "done"))
    BY <1>3 DEF Reserve, a
  <2>2. QED
    BY <2>1, <1>1, <1>2 DEF Persist, PersistFails, process, history, PCs, a, b, c, d
<1>4. CASE SettleActual(r)
  <2>1. /\ UNCHANGED <<process, hold, cachedUb, usage, evidence, shown, history>>
        /\ (Persist(b) /\ Goto(r, "billed")) \/ (PersistFails(b) /\ Goto(r, "except"))
    BY <1>4 DEF SettleActual, b
  <2>2. QED
    BY <2>1, <1>1, <1>2 DEF Persist, PersistFails, process, history, PCs, a, b, c, d
<1>5. CASE SettleDerived(r)
  <2>1. /\ UNCHANGED <<process, hold, cachedUb, usage, evidence, shown, history>>
        /\ \/ Persist(c) /\ Goto(r, "billed")
           \/ PersistFails(c) /\ Goto(r, "retain")
           \/ faults' = faults + 1 /\ mem' = c /\ disk' = c /\ Goto(r, "retain")
    BY <1>5 DEF SettleDerived, c
  <2>2. QED
    BY <2>1, <1>1, <1>2 DEF Persist, PersistFails, process, history, PCs, a, b, c, d
<1>6. CASE Retain(r)
  <2>1. /\ UNCHANGED <<process, hold, cachedUb, usage, evidence, shown, history>>
        /\ (Persist(d) /\ Goto(r, "done")) \/ (PersistFails(d) /\ Goto(r, "except"))
    BY <1>6 DEF Retain, d
  <2>2. QED
    BY <2>1, <1>1, <1>2 DEF Persist, PersistFails, process, history, PCs, a, b, c, d
<1>7. CASE ExceptRetain(r)
  <2>1. /\ UNCHANGED <<process, hold, cachedUb, usage, evidence, shown, history>>
        /\ (Persist(d) \/ PersistFails(d)) /\ Goto(r, "done")
    BY <1>7 DEF ExceptRetain, d
  <2>2. QED
    BY <2>1, <1>1, <1>2 DEF Persist, PersistFails, process, history, PCs, a, b, c, d
<1>8. QED
  BY <1>3, <1>4, <1>5, <1>6, <1>7 DEF LedgerStep

\* A step is a quiet step, a ledger step of one request, or a restart.
LEMMA NextCases ==
    ASSUME Next
    PROVE  (\E r \in Reqs : QuietStep(r) \/ LedgerStep(r)) \/ Restart
BY DEF Next, HandlerStep, QuietStep, LedgerStep

\* A restart keeps the proxy well typed.
LEMMA RestartTypes ==
    ASSUME TypeOK, Restart
    PROVE  TypeOK'
<1>1. pc' \in [Reqs -> PCs]
  BY DEF Restart, TypeOK, PCs
<1>2. mode' \in ModeType
  BY ModesSound DEF Restart
<1>3. /\ mem' = disk /\ tripped' \in BOOLEAN /\ billedUb' = 0 /\ restarts' = restarts + 1
      /\ UNCHANGED <<disk, hold, cachedUb, usage, evidence, shown, sent, mismatch, late, faults>>
  BY DEF Restart, history
<1>4. billedUb' \in Nat /\ restarts' \in Nat
  BY <1>3 DEF TypeOK
<1>5. QED
  BY <1>1, <1>2, <1>3, <1>4 DEF TypeOK

\* A ledger step keeps the proxy well typed.
LEMMA LedgerStepTypes ==
    ASSUME TypeOK, NEW r \in Reqs, LedgerStep(r)
    PROVE  TypeOK'
<1>1. pc' \in [Reqs -> PCs]
  BY LedgerStepShape, GotoType DEF TypeOK
<1>2. mem' \in Ledgers /\ disk' \in Ledgers /\ faults' \in Nat
  BY LedgerStepShape DEF TypeOK
<1>3. UNCHANGED <<mode, tripped, billedUb, restarts, hold, cachedUb, usage, evidence, shown,
                  sent, mismatch, late>>
  BY LedgerStepShape
<1>4. QED
  BY <1>1, <1>2, <1>3 DEF TypeOK

\* Every step keeps the proxy well typed.
LEMMA TypeStep == TypeOK /\ [Next]_vars => TypeOK'
<1> SUFFICES ASSUME TypeOK, [Next]_vars PROVE TypeOK'
  OBVIOUS
<1>1. CASE Next
  <2>1. CASE Restart
    BY <2>1, RestartTypes
  <2>2. CASE \E r \in Reqs : QuietStep(r) \/ LedgerStep(r)
    <3>1. PICK r \in Reqs : QuietStep(r) \/ LedgerStep(r)
      BY <2>2
    <3>2. CASE QuietStep(r)
      BY <3>2, QuietTypes
    <3>3. CASE LedgerStep(r)
      BY <3>3, LedgerStepTypes
    <3>4. QED
      BY <3>1, <3>2, <3>3
  <2>3. QED
    BY <1>1, <2>1, <2>2, NextCases
<1>2. CASE UNCHANGED vars
  BY <1>2 DEF vars, ledgers, process, handlers, history, TypeOK
<1>3. QED
  BY <1>1, <1>2

\* Every reachable state of the proxy is well typed: in particular no amount of
\* the ledger ever becomes negative, in memory or on disk.
THEOREM TypeCorrect == Spec => []TypeOK
BY TypeInit, TypeStep, PTL DEF Spec

(***************************************************************************)
(* Committed money is never given back.                                    *)
(***************************************************************************)
\* The memory is ahead of the checkpoint, never behind it.
Ahead == Committed(mem) >= Committed(disk)

\* A ledger method never lowers the committed money it found in memory.
LEMMA LedgerStepCommits ==
    ASSUME TypeOK, Ahead, NEW r \in Reqs, LedgerStep(r)
    PROVE  Committed(mem') >= Committed(mem) /\ Committed(mem) \in Nat /\ Committed(mem') \in Nat
<1>1. mem \in Ledgers /\ mem' \in Ledgers
  BY LedgerStepShape DEF TypeOK
<1>2. Committed(mem) \in Nat /\ Committed(mem') \in Nat
  BY <1>1, LedgerNat
<1>3. mem.outstanding[TraceId[r]] \in Nat
  BY <1>1, LedgerNat, AmountTypes
<1>4. CASE mem' = Reserved(mem, TraceId[r], hold[r])
  <2>1. Committed(mem') = Committed(mem)
    BY <1>4, <1>1, AmountTypes, ReservedLedger
  <2>2. QED
    BY <2>1, <1>2
<1>5. CASE mem' = SettledActual(mem, TraceId[r], ShownCost(r))
  <2>1. Committed(mem') = Committed(mem) + ShownCost(r)
    BY <1>5, <1>1, AmountTypes, SettledActualLedger
  <2>2. QED
    BY <2>1, <1>2, AmountTypes
<1>6. CASE mem' = SettledDerived(mem, TraceId[r],
                    derived_cost_usd(EvidenceForSettlement(shown[r], Stream[r])))
  <2> DEFINE amt == derived_cost_usd(EvidenceForSettlement(shown[r], Stream[r]))
  <2>1. amt \in Nat
    BY AmountTypes
  <2> HIDE DEF amt
  <2>2. Committed(mem') = Committed(mem) + amt
    BY <2>1, <1>6, <1>1, AmountTypes, SettledDerivedLedger DEF amt
  <2>3. QED
    BY <2>1, <2>2, <1>2
<1>7. CASE mem' = RetainedUnproven(mem, TraceId[r])
  <2>1. Committed(mem') = Committed(mem) + mem.outstanding[TraceId[r]]
    BY <1>7, <1>1, AmountTypes, RetainedUnprovenLedger
  <2>2. QED
    BY <2>1, <1>2, <1>3
<1>8. \/ mem' = Reserved(mem, TraceId[r], hold[r])
      \/ mem' = SettledActual(mem, TraceId[r], ShownCost(r))
      \/ mem' = SettledDerived(mem, TraceId[r],
                    derived_cost_usd(EvidenceForSettlement(shown[r], Stream[r])))
      \/ mem' = RetainedUnproven(mem, TraceId[r])
  BY LedgerStepShape
<1>9. QED
  BY <1>4, <1>5, <1>6, <1>7, <1>8

\* Every step keeps memory ahead of the checkpoint, and the checkpoint growing.
LEMMA AheadStep ==
    ASSUME TypeOK, Ahead, [Next]_vars
    PROVE  Ahead' /\ Committed(disk') >= Committed(disk)
<1>0. Committed(mem) \in Nat /\ Committed(disk) \in Nat
  BY LedgerNat DEF TypeOK
<1>1. ASSUME UNCHANGED <<mem, disk>> PROVE Ahead' /\ Committed(disk') >= Committed(disk)
  BY <1>0, <1>1 DEF Ahead
<1>2. CASE UNCHANGED vars
  BY <1>1, <1>2 DEF vars, ledgers
<1>3. ASSUME NEW r \in Reqs, QuietStep(r) PROVE Ahead' /\ Committed(disk') >= Committed(disk)
  BY <1>1, <1>3, QuietLedgers
<1>4. ASSUME NEW r \in Reqs, LedgerStep(r) PROVE Ahead' /\ Committed(disk') >= Committed(disk)
  <2>1. Committed(mem') >= Committed(mem) /\ Committed(mem') \in Nat
    BY <1>4, LedgerStepCommits
  <2>2. disk' = mem' \/ disk' = disk
    BY <1>4, LedgerStepShape
  <2>3. QED
    BY <1>0, <2>1, <2>2 DEF Ahead
<1>5. CASE Restart
  <2>1. mem' = disk /\ disk' = disk
    BY <1>5 DEF Restart
  <2>2. QED
    BY <2>1, <1>0 DEF Ahead
<1>6. QED
  BY <1>2, <1>3, <1>4, <1>5, NextCases

\* Memory and checkpoint start level.
LEMMA AheadInit == Init => Ahead
BY DEF Init, Ahead, EmptyLedger, Committed

\* The money on the checkpoint that is committed (accrued, derived, retained)
\* never decreases: not by a settlement, not by a failed write, not by a restart.
THEOREM CommittedMonotone == Spec => DurableMonotone
<1>1. Init => TypeOK /\ Ahead
  BY TypeInit, AheadInit
<1>2. (TypeOK /\ Ahead) /\ [Next]_vars
        => (TypeOK /\ Ahead)' /\ [Committed(disk') >= Committed(disk)]_vars
  BY TypeStep, AheadStep
<1>3. QED
  BY <1>1, <1>2, PTL DEF Spec, DurableMonotone

(***************************************************************************)
(* Holds are durable.                                                      *)
(***************************************************************************)
\* Trace ids are not reused (uuid4, unless the client supplies its own).
UniqueTraces == \A r, s \in Reqs : TraceId[r] = TraceId[s] => r = s

\* A handler's step leaves the other handlers' locals alone.
LEMMA Frame ==
    ASSUME TypeOK, NEW r \in Reqs, QuietStep(r) \/ LedgerStep(r), NEW s \in Reqs, s # r
    PROVE  /\ pc'[s] = pc[s] /\ hold'[s] = hold[s] /\ cachedUb'[s] = cachedUb[s]
           /\ usage'[s] = usage[s] /\ sent'[s] = sent[s] /\ shown'[s] = shown[s]
<1> USE DEF ledgers, process, history
<1>1. CASE QuietStep(r)
  <2>1. pc'[s] = pc[s]
    BY <1>1 DEF QuietStep, Arrive, CheckRunnable, PolicyRefuses, Price, ReserveRefused,
                Forward, TransportFails, Relay, Drain, RecordBilled, Goto, TypeOK
  <2>2. hold'[s] = hold[s] /\ cachedUb'[s] = cachedUb[s]
    BY <1>1 DEF QuietStep, Arrive, CheckRunnable, PolicyRefuses, Price, ReserveRefused,
                Forward, TransportFails, Relay, Drain, RecordBilled, TypeOK
  <2>3. usage'[s] = usage[s] /\ sent'[s] = sent[s]
    BY <1>1 DEF QuietStep, Arrive, CheckRunnable, PolicyRefuses, Price, ReserveRefused,
                Forward, TransportFails, Relay, Drain, RecordBilled, TypeOK
  <2>4. shown'[s] = shown[s]
    BY <1>1 DEF QuietStep, Arrive, CheckRunnable, PolicyRefuses, Price, ReserveRefused,
                Forward, TransportFails, Relay, Drain, RecordBilled, TypeOK
  <2>5. QED
    BY <2>1, <2>2, <2>3, <2>4
<1>2. CASE LedgerStep(r)
  <2>1. PICK q \in PCs : Goto(r, q)
    BY <1>2, LedgerStepShape
  <2>2. pc'[s] = pc[s]
    BY <2>1 DEF Goto, TypeOK
  <2>3. QED
    BY <2>2, <1>2, LedgerStepShape
<1>3. QED
  BY <1>1, <1>2

\* A ledger step touches the entry of its own trace id only.
LEMMA OtherEntries ==
    ASSUME TypeOK, NEW r \in Reqs, LedgerStep(r), NEW id \in Ids, id # TraceId[r]
    PROVE  mem'.outstanding[id] = mem.outstanding[id]
<1> DEFINE amt == derived_cost_usd(EvidenceForSettlement(shown[r], Stream[r]))
<1>1. mem \in Ledgers /\ mem.outstanding \in [Ids -> Nat]
  BY LedgerNat DEF TypeOK
<1>2. amt \in Nat /\ ShownCost(r) \in Nat /\ hold[r] \in Nat /\ TraceId[r] \in Ids
  BY AmountTypes
<1>3. mem' \in { Reserved(mem, TraceId[r], hold[r]), SettledActual(mem, TraceId[r], ShownCost(r)),
                 SettledDerived(mem, TraceId[r], amt), RetainedUnproven(mem, TraceId[r]) }
  BY LedgerStepShape
<1> HIDE DEF amt
<1>4. \E v \in Nat : mem'.outstanding = [mem.outstanding EXCEPT ![TraceId[r]] = v]
  <2>1. CASE mem' = Reserved(mem, TraceId[r], hold[r])
    BY <2>1, <1>1, <1>2, ReservedLedger
  <2>2. CASE mem' = SettledActual(mem, TraceId[r], ShownCost(r))
    BY <2>2, <1>1, <1>2, SettledActualLedger
  <2>3. CASE mem' = SettledDerived(mem, TraceId[r], amt)
    BY <2>3, <1>1, <1>2, SettledDerivedLedger
  <2>4. CASE mem' = RetainedUnproven(mem, TraceId[r])
    BY <2>4, <1>1, <1>2, RetainedUnprovenLedger
  <2>5. QED
    BY <1>3, <2>1, <2>2, <2>3, <2>4
<1>5. QED
  BY <1>1, <1>4

\* A ledger step leaves the handler without a hold, unless it is a reservation
\* that was written.
LEMMA LedgerStepHolding ==
    ASSUME TypeOK, NEW r \in Reqs, LedgerStep(r), pc'[r] \in Holding
    PROVE  mem' = Reserved(mem, TraceId[r], hold[r]) /\ disk' = mem'
<1>1. ASSUME NEW q \in PCs, Goto(r, q) PROVE pc'[r] = q
  BY <1>1 DEF Goto, TypeOK
<1>2. /\ "done" \in PCs /\ "billed" \in PCs /\ "except" \in PCs /\ "retain" \in PCs
      /\ "done" \notin Holding /\ "billed" \notin Holding
      /\ "except" \notin Holding /\ "retain" \notin Holding
  BY DEF PCs, Holding
<1>3. CASE Reserve(r)
  <2>1. Persist(Reserved(mem, TraceId[r], hold[r]))
    BY <1>1, <1>2, <1>3 DEF Reserve
  <2>2. QED
    BY <2>1 DEF Persist
<1>4. ~SettleActual(r) /\ ~SettleDerived(r) /\ ~Retain(r) /\ ~ExceptRetain(r)
  <2>1. ~SettleActual(r)
    BY <1>1, <1>2 DEF SettleActual
  <2>2. ~SettleDerived(r)
    BY <1>1, <1>2 DEF SettleDerived
  <2>3. ~Retain(r)
    BY <1>1, <1>2 DEF Retain
  <2>4. ~ExceptRetain(r)
    BY <1>1, <1>2 DEF ExceptRetain
  <2>5. QED
    BY <2>1, <2>2, <2>3, <2>4
<1>5. QED
  BY <1>3, <1>4 DEF LedgerStep

\* A quiet step that leaves the handler with a hold found it with that hold.
LEMMA QuietHolding ==
    ASSUME TypeOK, NEW r \in Reqs, QuietStep(r), pc'[r] \in Holding
    PROVE  pc[r] \in Holding /\ hold'[r] = hold[r]
<1> USE DEF history
<1>1. ~Arrive(r) /\ ~CheckRunnable(r) /\ ~PolicyRefuses(r) /\ ~Price(r)
      /\ ~ReserveRefused(r) /\ ~TransportFails(r) /\ ~RecordBilled(r)
  BY DEF Arrive, CheckRunnable, PolicyRefuses, Price, ReserveRefused, TransportFails,
         RecordBilled, Goto, TypeOK, Holding
<1>2. CASE Forward(r)
  BY <1>2 DEF Forward, Holding
<1>3. CASE Relay(r)
  BY <1>3 DEF Relay, Holding
<1>4. CASE Drain(r)
  BY <1>4 DEF Drain, Holding
<1>5. QED
  BY <1>1, <1>2, <1>3, <1>4 DEF QuietStep

\* Every step keeps the holds in flight in memory and on the checkpoint.
LEMMA DurableHoldStep ==
    ASSUME UniqueTraces, TypeOK, DurableHold, [Next]_vars
    PROVE  DurableHold'
<1>1. CASE UNCHANGED vars
  BY <1>1 DEF vars, ledgers, handlers, DurableHold
<1>2. CASE Restart
  <2>1. \A r \in Reqs : pc'[r] \notin Holding
    BY <1>2 DEF Restart, Holding, Running, PCs, TypeOK
  <2>2. QED
    BY <2>1 DEF DurableHold
<1>3. ASSUME NEW r \in Reqs, QuietStep(r) PROVE DurableHold'
  <2>1. UNCHANGED <<mem, disk>>
    BY <1>3, QuietLedgers
  <2>2. ASSUME NEW s \in Reqs, pc'[s] \in Holding
        PROVE  pc[s] \in Holding /\ hold'[s] = hold[s]
    BY <1>3, <2>2, Frame, QuietHolding
  <2>3. QED
    BY <2>1, <2>2 DEF DurableHold
<1>4. ASSUME NEW r \in Reqs, LedgerStep(r) PROVE DurableHold'
  <2>1. disk' \in {mem', disk} /\ hold' = hold
    BY <1>4, LedgerStepShape
  <2>2. ASSUME NEW s \in Reqs, pc'[s] \in Holding
        PROVE  mem'.outstanding[TraceId[s]] = hold[s] /\ disk'.outstanding[TraceId[s]] = hold[s]
    <3>0. TraceId[s] \in Ids /\ TraceId[r] \in Ids /\ hold[r] \in Nat
      BY AmountTypes
    <3>1. CASE s = r
      <4>1. mem' = Reserved(mem, TraceId[r], hold[r]) /\ disk' = mem'
        BY <1>4, <2>2, <3>1, LedgerStepHolding
      <4>2. mem \in Ledgers /\ mem.outstanding \in [Ids -> Nat]
        BY LedgerNat DEF TypeOK
      <4>3. mem'.outstanding = [mem.outstanding EXCEPT ![TraceId[r]] = hold[r]]
        BY <4>1, <4>2, <3>0, ReservedLedger
      <4>4. QED
        BY <4>1, <4>2, <4>3, <3>0, <3>1
    <3>2. CASE s # r
      <4>1. TraceId[s] # TraceId[r]
        BY <3>2 DEF UniqueTraces
      <4>2. mem'.outstanding[TraceId[s]] = mem.outstanding[TraceId[s]]
        BY <1>4, <4>1, <3>0, OtherEntries
      <4>3. pc[s] \in Holding
        BY <1>4, <2>2, <3>2, Frame
      <4>4. QED
        BY <4>2, <4>3, <2>1 DEF DurableHold
    <3>3. QED
      BY <3>1, <3>2
  <2>3. QED
    BY <2>1, <2>2 DEF DurableHold
<1>5. QED
  BY <1>1, <1>2, <1>3, <1>4, NextCases

\* No request is in flight at the start.
LEMMA DurableHoldInit == Init => DurableHold
BY DEF Init, DurableHold, Holding

\* With trace ids that are not reused, every request between its reservation and
\* its settlement has its full hold in memory and on the checkpoint: whenever the
\* proxy dies, the exposure of the requests in flight is on disk.
THEOREM HoldsAreDurable ==
    ASSUME UniqueTraces
    PROVE  Spec => []DurableHold
<1>1. Init => TypeOK /\ DurableHold
  BY TypeInit, DurableHoldInit
<1>2. (TypeOK /\ DurableHold) /\ [Next]_vars => (TypeOK /\ DurableHold)'
  BY TypeStep, DurableHoldStep
<1>3. QED
  BY <1>1, <1>2, PTL DEF Spec

(***************************************************************************)
(* Reservations are upper bounds, and the cap is a ceiling.                *)
(***************************************************************************)
\* The provider the reservation supposes: it does not charge more for a cached
\* token than for a fresh one, and has the established prefix in its cache.
HonestCache == ~CacheMayMiss /\ CacheReadRate <= FreshPrice

\* No command line of the run asks for budget-watch mode.
NoWatch == \A m \in Modes : m.watch_only = FALSE

\* How a request's hold and usage follow its handler: the hold is the worst case
\* of the prefix bound it was priced with, and the usage respects both.
Priced ==
    \A r \in Reqs :
        /\ pc[r] = "priced" \/ pc[r] \in Holding =>
              hold[r] = worst_case_usd(InputUB[r], cachedUb[r])
        /\ pc[r] \in {"idle", "arrived", "cleared", "priced", "reserved"} => ~sent[r]
        /\ pc[r] \in {"sent", "relaying", "drained"} => sent[r]
        /\ sent[r] =>
              /\ hold[r] = worst_case_usd(InputUB[r], cachedUb[r])
              /\ WithinBounds(usage[r], InputUB[r])
              /\ PrefixHonoured(usage[r], InputUB[r], cachedUb[r])

\* Priced, for one request; P is the handler's place.
PricedOne(r, P, h, c, u, b) ==
    /\ P = "priced" \/ P \in Holding => h = worst_case_usd(InputUB[r], c)
    /\ P \in {"idle", "arrived", "cleared", "priced", "reserved"} => ~b
    /\ P \in {"sent", "relaying", "drained"} => b
    /\ b => /\ h = worst_case_usd(InputUB[r], c)
            /\ WithinBounds(u, InputUB[r])
            /\ PrefixHonoured(u, InputUB[r], c)

\* Priced, unfolded for one request.
LEMMA PricedAlt ==
    /\ Priced <=> \A r \in Reqs : PricedOne(r, pc[r], hold[r], cachedUb[r], usage[r], sent[r])
    /\ Priced' <=> \A r \in Reqs : PricedOne(r, pc'[r], hold'[r], cachedUb'[r], usage'[r], sent'[r])
BY DEF Priced, PricedOne

\* The handler's own step keeps its own request priced.
LEMMA PricedOwnStep ==
    ASSUME HonestCache, TypeOK, Priced, mode \in Modes, NEW r \in Reqs,
           QuietStep(r) \/ LedgerStep(r)
    PROVE  PricedOne(r, pc'[r], hold'[r], cachedUb'[r], usage'[r], sent'[r])
<1> USE DEF history
<1>0. PricedOne(r, pc[r], hold[r], cachedUb[r], usage[r], sent[r])
  BY PricedAlt
<1>1. ASSUME NEW q \in PCs, Goto(r, q) PROVE pc'[r] = q
  BY <1>1 DEF Goto, TypeOK
<1>2. CASE Arrive(r)
  BY <1>0, <1>2 DEF Arrive, Goto, TypeOK, PricedOne, Holding
<1>3. CASE CheckRunnable(r)
  BY <1>0, <1>3 DEF CheckRunnable, Goto, TypeOK, PricedOne, Holding
<1>4. CASE PolicyRefuses(r)
  BY <1>0, <1>4 DEF PolicyRefuses, Goto, TypeOK, PricedOne, Holding
<1>5. CASE Price(r)
  <2>1. pc'[r] = "priced" /\ hold'[r] = worst_case_usd(InputUB[r], cachedUb'[r])
    BY <1>5 DEF Price, Goto, TypeOK
  <2>2. sent'[r] = sent[r] /\ ~sent[r]
    BY <1>0, <1>5 DEF Price, PricedOne
  <2>3. QED
    BY <2>1, <2>2 DEF PricedOne
<1>6. CASE ReserveRefused(r)
  BY <1>0, <1>6 DEF ReserveRefused, Goto, TypeOK, PricedOne, Holding
<1>7. CASE Forward(r)
  <2>1. PICK u \in Usages : /\ WithinBounds(u, InputUB[r])
                            /\ PrefixHonoured(u, InputUB[r], cachedUb[r])
                            /\ usage' = [usage EXCEPT ![r] = u]
    BY <1>7, ModesSound DEF Forward, HonestCache
  <2>2. /\ pc'[r] = "sent" /\ hold'[r] = hold[r] /\ cachedUb'[r] = cachedUb[r] /\ sent'[r]
        /\ usage'[r] = u
    BY <1>7, <2>1 DEF Forward, Goto, TypeOK
  <2>3. hold[r] = worst_case_usd(InputUB[r], cachedUb[r])
    BY <1>0, <1>7 DEF Forward, PricedOne, Holding
  <2>4. QED
    BY <2>1, <2>2, <2>3 DEF PricedOne
<1>8. CASE TransportFails(r)
  BY <1>0, <1>8 DEF TransportFails, Goto, TypeOK, PricedOne, Holding
<1>9. CASE Relay(r)
  BY <1>0, <1>9 DEF Relay, Goto, TypeOK, PricedOne, Holding
<1>10. CASE Drain(r)
  BY <1>0, <1>10 DEF Drain, Goto, TypeOK, PricedOne, Holding
<1>11. CASE RecordBilled(r)
  BY <1>0, <1>11 DEF RecordBilled, Goto, TypeOK, PricedOne, Holding
<1>12. CASE LedgerStep(r)
  <2>1. hold' = hold /\ cachedUb' = cachedUb /\ usage' = usage /\ sent' = sent
    BY <1>12, LedgerStepShape
  <2>2. pc'[r] \in {"done", "billed", "except", "retain"}
        \/ (pc[r] = "priced" /\ pc'[r] = "reserved")
    <3>0. {"done", "billed", "except", "retain", "reserved"} \subseteq PCs
      BY DEF PCs
    <3>1. CASE Reserve(r)
      BY <3>0, <3>1, <1>1 DEF Reserve
    <3>2. CASE SettleActual(r)
      BY <3>0, <3>2, <1>1 DEF SettleActual
    <3>3. CASE SettleDerived(r)
      BY <3>0, <3>3, <1>1 DEF SettleDerived
    <3>4. CASE Retain(r)
      BY <3>0, <3>4, <1>1 DEF Retain
    <3>5. CASE ExceptRetain(r)
      BY <3>0, <3>5, <1>1 DEF ExceptRetain
    <3>6. QED
      BY <1>12, <3>1, <3>2, <3>3, <3>4, <3>5 DEF LedgerStep
  <2>3. QED
    BY <1>0, <2>1, <2>2 DEF PricedOne, Holding
<1>13. QED
  BY <1>2, <1>3, <1>4, <1>5, <1>6, <1>7, <1>8, <1>9, <1>10, <1>11, <1>12 DEF QuietStep

\* Every step keeps every request priced.
LEMMA PricedStep ==
    ASSUME HonestCache, TypeOK, Priced, mode \in Modes, [Next]_vars
    PROVE  Priced'
<1>1. CASE UNCHANGED vars
  BY <1>1 DEF vars, handlers, history, Priced
<1>2. CASE Restart
  <2>1. /\ \A r \in Reqs : pc'[r] = (IF pc[r] \in Running THEN "dead" ELSE pc[r])
        /\ UNCHANGED <<hold, cachedUb, usage, sent>>
    BY <1>2 DEF Restart, history
  <2>2. QED
    BY <2>1 DEF Priced, Holding, Running, PCs
<1>3. ASSUME NEW r \in Reqs, QuietStep(r) \/ LedgerStep(r) PROVE Priced'
  <2>1. ASSUME NEW s \in Reqs
        PROVE  PricedOne(s, pc'[s], hold'[s], cachedUb'[s], usage'[s], sent'[s])
    <3>1. CASE s = r
      BY <1>3, <3>1, PricedOwnStep
    <3>2. CASE s # r
      <4>1. PricedOne(s, pc[s], hold[s], cachedUb[s], usage[s], sent[s])
        BY PricedAlt
      <4>2. QED
        BY <4>1, <1>3, <3>2, Frame
    <3>3. QED
      BY <3>1, <3>2
  <2>2. QED
    BY <2>1, PricedAlt
<1>4. QED
  BY <1>1, <1>2, <1>3, NextCases

\* No request has a price to respect at the start.
LEMMA PricedInit == Init => Priced
BY DEF Init, Priced, Holding

\* The bill of a forwarded request is within its hold.
LEMMA BillWithinHold ==
    ASSUME HonestCache, TypeOK, Priced, NEW r \in Reqs, sent[r]
    PROVE  Bill(r) <= hold[r]
<1>1. /\ hold[r] = worst_case_usd(InputUB[r], cachedUb[r])
      /\ WithinBounds(usage[r], InputUB[r])
      /\ PrefixHonoured(usage[r], InputUB[r], cachedUb[r])
  BY DEF Priced
<1>2. usage[r] \in UsageEvidence /\ InputUB[r] \in Nat /\ cachedUb[r] \in Nat
  BY LedgerAssumption DEF TypeOK
<1>3. CacheReadRate <= FreshPrice
  BY DEF HonestCache
<1>4. QED
  BY <1>1, <1>2, <1>3, ReservationCoversSettlement DEF Bill

\* The figures a drained reply has shown are figures of its bill.
Shown == \A r \in Reqs : pc[r] = "drained" => shown[r] \in Figures(usage[r], Stream[r])

\* The handler that takes a step has shown no other.
LEMMA ShownOwnStep ==
    ASSUME TypeOK, NEW r \in Reqs, QuietStep(r) \/ LedgerStep(r), pc'[r] = "drained"
    PROVE  shown'[r] \in Figures(usage'[r], Stream[r])
<1> USE DEF Goto, TypeOK
<1>1. CASE Drain(r)
  BY <1>1 DEF Drain
<1>2. ~Arrive(r) /\ ~CheckRunnable(r) /\ ~PolicyRefuses(r)
  BY DEF Arrive, CheckRunnable, PolicyRefuses
<1>3. ~Price(r) /\ ~ReserveRefused(r) /\ ~Forward(r)
  BY DEF Price, ReserveRefused, Forward
<1>4. ~TransportFails(r) /\ ~Relay(r) /\ ~RecordBilled(r)
  BY DEF TransportFails, Relay, RecordBilled
<1>5. ~Reserve(r) /\ ~SettleActual(r) /\ ~Retain(r) /\ ~ExceptRetain(r)
  BY DEF Reserve, SettleActual, Retain, ExceptRetain
<1>6. ~SettleDerived(r)
  BY DEF SettleDerived
<1>7. QED
  BY <1>1, <1>2, <1>3, <1>4, <1>5, <1>6 DEF QuietStep, LedgerStep

\* Every step keeps what was shown to figures of the bill.
LEMMA ShownStep ==
    ASSUME TypeOK, Shown, [Next]_vars
    PROVE  Shown'
<1>1. CASE UNCHANGED vars
  BY <1>1 DEF vars, handlers, Shown, Figures
<1>2. CASE Restart
  <2>1. /\ \A r \in Reqs : pc'[r] = "drained" => pc[r] = "drained"
        /\ shown' = shown /\ usage' = usage
    BY <1>2 DEF Restart
  <2>2. QED
    BY <2>1 DEF Shown, Figures
<1>3. ASSUME NEW r \in Reqs, QuietStep(r) \/ LedgerStep(r) PROVE Shown'
  <2>1. ASSUME NEW s \in Reqs, pc'[s] = "drained"
        PROVE  shown'[s] \in Figures(usage'[s], Stream[s])
    <3>1. CASE s = r
      BY <1>3, <2>1, <3>1, ShownOwnStep
    <3>2. CASE s # r
      <4>1. pc'[s] = pc[s] /\ usage'[s] = usage[s] /\ shown'[s] = shown[s]
        BY <1>3, <3>2, Frame
      <4>2. QED
        BY <2>1, <4>1 DEF Shown
    <3>3. QED
      BY <3>1, <3>2
  <2>2. QED
    BY <2>1 DEF Shown, Figures
<1>4. QED
  BY <1>1, <1>2, <1>3, NextCases

\* No reply is drained at the start.
LEMMA ShownInit == Init => Shown
BY DEF Init, Shown

\* Both amounts a drained reply may settle at are within its request's hold.
LEMMA SettlementWithinHold ==
    ASSUME HonestCache, TypeOK, Priced, Shown, NEW r \in Reqs, pc[r] = "drained"
    PROVE  /\ ShownCost(r) <= hold[r]
           /\ derived_cost_usd(EvidenceForSettlement(shown[r], Stream[r])) <= hold[r]
<1> DEFINE e == EvidenceForSettlement(shown[r], Stream[r])
<1>1. /\ hold[r] = worst_case_usd(InputUB[r], cachedUb[r])
      /\ WithinBounds(usage[r], InputUB[r])
      /\ PrefixHonoured(usage[r], InputUB[r], cachedUb[r])
  BY DEF Priced
<1>2. /\ usage[r] \in UsageEvidence /\ shown[r] \in UsageEvidence
      /\ InputUB[r] \in Nat /\ cachedUb[r] \in Nat /\ Stream[r] \in BOOLEAN
  BY LedgerAssumption DEF TypeOK
<1>3. CacheReadRate <= FreshPrice
  BY DEF HonestCache
<1>4. WithinBounds(shown[r], InputUB[r]) /\ PrefixHonoured(shown[r], InputUB[r], cachedUb[r])
  <2>1. shown[r] \in Figures(usage[r], Stream[r])
    BY DEF Shown
  <2>2. /\ shown[r].prompt = usage[r].prompt /\ shown[r].cached = usage[r].cached
        /\ shown[r].completion <= usage[r].completion
    BY <1>2, <2>1, FiguresShort
  <2>3. /\ usage[r].completion \in Nat /\ shown[r].completion \in Nat /\ OutputWindow \in Nat
    BY <1>2, PricingAssumption DEF UsageEvidence
  <2>4. CachedTokens(shown[r]) = CachedTokens(usage[r])
    BY <2>2 DEF CachedTokens
  <2>5. QED
    BY <1>1, <2>2, <2>3, <2>4 DEF WithinBounds, PrefixHonoured
<1>5. derived_cost_usd(shown[r]) <= hold[r]
  BY <1>1, <1>2, <1>3, <1>4, ReservationCoversSettlement
<1>6. e \in UsageEvidence /\ WithinBounds(e, InputUB[r]) /\ PrefixHonoured(e, InputUB[r], cachedUb[r])
  BY <1>2, <1>4, EvidenceBounded
<1> HIDE DEF e
<1>7. derived_cost_usd(e) <= hold[r]
  BY <1>1, <1>2, <1>3, <1>6, ReservationCoversSettlement
<1>8. QED
  BY <1>5, <1>7 DEF ShownCost, e

\* The flags of the process are always those of a launch that was not refused.
LEMMA ModeStep ==
    ASSUME TypeOK, mode \in Modes, [Next]_vars
    PROVE  mode' \in Modes
<1>1. CASE UNCHANGED vars
  BY <1>1 DEF vars, process
<1>2. CASE Restart
  BY <1>2 DEF Restart
<1>3. ASSUME NEW r \in Reqs, QuietStep(r) PROVE mode' = mode
  BY <1>3 DEF QuietStep, Arrive, CheckRunnable, PolicyRefuses, Price, ReserveRefused,
              Forward, TransportFails, Relay, Drain, RecordBilled, process
<1>4. ASSUME NEW r \in Reqs, LedgerStep(r) PROVE mode' = mode
  BY <1>4, LedgerStepShape
<1>5. QED
  BY <1>1, <1>2, <1>3, <1>4, NextCases

\* The reserve() docstring's claim: what the upstream bills for a request never
\* exceeds its reservation, as long as the provider keeps the prefix cached.
THEOREM ReservationsBound ==
    ASSUME HonestCache
    PROVE  Spec => []ReservationsAreUpperBounds
<1>1. Init => TypeOK /\ Priced /\ mode \in Modes
  BY TypeInit, PricedInit DEF Init
<1>2. (TypeOK /\ Priced /\ mode \in Modes) /\ [Next]_vars => (TypeOK /\ Priced /\ mode \in Modes)'
  BY TypeStep, PricedStep, ModeStep
<1>3. TypeOK /\ Priced => ReservationsAreUpperBounds
  BY BillWithinHold DEF ReservationsAreUpperBounds
<1>4. QED
  BY <1>1, <1>2, <1>3, PTL DEF Spec

\* The inductive invariant of the ceiling.
CapInv == TypeOK /\ DurableHold /\ Priced /\ Shown /\ mode \in Modes /\ CapHeld

\* A ledger step never lifts the accounted money above the cap.
LEMMA LedgerStepWithinCap ==
    ASSUME HonestCache, NoWatch, CapInv, NEW r \in Reqs, LedgerStep(r)
    PROVE  Accounted(mem') <= HardCap
<1> DEFINE id == TraceId[r]
           amt == derived_cost_usd(EvidenceForSettlement(shown[r], Stream[r]))
<1>0. TypeOK /\ DurableHold /\ Priced /\ Shown /\ mode \in Modes /\ CapHeld
  BY DEF CapInv
<1>1. /\ id \in Ids /\ hold[r] \in Nat /\ ShownCost(r) \in Nat /\ amt \in Nat
  BY <1>0, AmountTypes
<1>2. /\ mem \in Ledgers /\ mem.outstanding[id] \in Nat /\ Accounted(mem) \in Nat
      /\ Accounted(mem) <= HardCap /\ HardCap \in Nat
  BY <1>0, <1>1, LedgerNat, StartAssumption DEF TypeOK, CapHeld
<1> HIDE DEF id, amt
<1>3. CASE Reserve(r)
  <2>1. mem' = Reserved(mem, id, hold[r])
    BY <1>3 DEF Reserve, Persist, PersistFails, id
  <2>2. ~Over(mem, hold[r])
    BY <1>0, <1>3 DEF Reserve, NoWatch
  <2>3. Accounted(mem) + hold[r] <= HardCap
    BY <2>2, <1>1, <1>2 DEF Over
  <2>4. Accounted(mem') = (Accounted(mem) - mem.outstanding[id]) + hold[r]
    BY <2>1, <1>1, <1>2, ReservedAccounted
  <2>5. QED
    BY <2>3, <2>4, <1>1, <1>2
<1>4. ASSUME pc[r] = "drained"
      PROVE  mem.outstanding[id] = hold[r] /\ ShownCost(r) <= hold[r] /\ amt <= hold[r]
  <2>1. mem.outstanding[id] = hold[r]
    BY <1>0, <1>4 DEF DurableHold, Holding, id
  <2>2. QED
    BY <2>1, <1>0, <1>4, SettlementWithinHold DEF amt
<1>5. CASE SettleActual(r)
  <2>1. mem' = SettledActual(mem, id, ShownCost(r)) /\ pc[r] = "drained"
    BY <1>5 DEF SettleActual, Persist, PersistFails, id
  <2>2. Accounted(mem') = (Accounted(mem) - mem.outstanding[id]) + ShownCost(r)
    BY <2>1, <1>1, <1>2, SettledActualLedger
  <2>3. QED
    BY <2>1, <2>2, <1>1, <1>2, <1>4
<1>6. CASE SettleDerived(r)
  <2>1. mem' = SettledDerived(mem, id, amt) /\ pc[r] = "drained"
    BY <1>6 DEF SettleDerived, Persist, PersistFails, id, amt
  <2>2. Accounted(mem') = (Accounted(mem) - mem.outstanding[id]) + amt
    BY <2>1, <1>1, <1>2, SettledDerivedLedger
  <2>3. QED
    BY <2>1, <2>2, <1>1, <1>2, <1>4
<1>7. CASE Retain(r) \/ ExceptRetain(r)
  <2>1. mem' = RetainedUnproven(mem, id)
    BY <1>7 DEF Retain, ExceptRetain, Persist, PersistFails, id
  <2>2. Accounted(mem') = Accounted(mem)
    BY <2>1, <1>1, <1>2, RetainedUnprovenLedger
  <2>3. QED
    BY <2>2, <1>2
<1>8. QED
  BY <1>3, <1>5, <1>6, <1>7 DEF LedgerStep

\* Every step keeps the accounted money within the cap.
LEMMA CapStep ==
    ASSUME HonestCache, NoWatch, CapInv, [Next]_vars
    PROVE  CapHeld'
<1>0. CapHeld /\ TypeOK /\ mode \in Modes
  BY DEF CapInv
<1>1. ASSUME UNCHANGED <<mem, disk>> PROVE CapHeld'
  BY <1>0, <1>1 DEF CapHeld, Accounted, Committed
<1>2. CASE UNCHANGED vars
  BY <1>0, <1>1, <1>2 DEF vars, ledgers, process
<1>3. CASE Restart
  <2>1. mem' = disk /\ disk' = disk
    BY <1>3 DEF Restart
  <2>2. QED
    BY <2>1, <1>0 DEF CapHeld, Accounted, Committed
<1>4. ASSUME NEW r \in Reqs, QuietStep(r) PROVE CapHeld'
  BY <1>1, <1>4, QuietLedgers
<1>5. ASSUME NEW r \in Reqs, LedgerStep(r) PROVE CapHeld'
  <2>1. Accounted(mem') <= HardCap
    BY <1>5, LedgerStepWithinCap
  <2>2. disk' = mem' \/ disk' = disk
    BY <1>0, <1>5, LedgerStepShape
  <2>3. Accounted(disk') <= HardCap
    BY <2>1, <2>2, <1>0 DEF CapHeld
  <2>4. QED
    BY <2>1, <2>2, <2>3, <1>0 DEF CapHeld
<1>6. QED
  BY <1>2, <1>3, <1>4, <1>5, NextCases

\* The empty ledger is within the cap.
LEMMA CapInit == Init => CapHeld /\ mode \in Modes
<1>1. \A f \in [Ids -> Nat] : Total(f, N) \in Nat
  BY TotalNat, LedgerAssumption DEF Ids
<1>2. Total([i \in Ids |-> 0], N) = 0
  BY ZeroTotal, LedgerAssumption DEF Ids
<1>3. Accounted(EmptyLedger) = 0
  BY <1>2 DEF Accounted, Committed, EmptyLedger
<1>4. QED
  BY <1>3, StartAssumption DEF Init, CapHeld

\* The hard cap is a ceiling for any number of concurrent requests, any prices,
\* any failed checkpoint writes and any restarts, on three conditions: the trace
\* ids are not reused, the provider keeps the prefix cached, and no (re)start of
\* the proxy asks for budget-watch mode.
THEOREM CapIsCeiling ==
    ASSUME UniqueTraces, HonestCache, NoWatch
    PROVE  Spec => []CapHeld
<1>1. Init => CapInv
  BY TypeInit, DurableHoldInit, PricedInit, CapInit, ShownInit DEF CapInv
<1>2. CapInv /\ [Next]_vars => CapInv'
  BY TypeStep, DurableHoldStep, PricedStep, ModeStep, ShownStep, CapStep DEF CapInv
<1>3. CapInv => CapHeld
  BY DEF CapInv
<1>4. QED
  BY <1>1, <1>2, <1>3, PTL DEF Spec

(***************************************************************************)
(* What was billed is on the checkpoint.                                   *)
(***************************************************************************)
\* The streaming handler settles without the cache-write count: that is no discount
\* only where a token written to the cache costs no more than a fresh one.
FlatWrites == \A r \in Reqs : Stream[r] => CacheWriteRate <= InputRate

\* Every stream shows its whole bill before it ends.
WholeUsage == ~PartialUsage

\* What a request may have been billed so far: its hold while it owns one, its bill
\* once it went upstream, nothing before.
ExposureOf(P, h, u, b) ==
    IF P \in Holding THEN h ELSE IF b THEN derived_cost_usd(u) ELSE 0

Exposure == [r \in Reqs |-> ExposureOf(pc[r], hold[r], usage[r], sent[r])]

\* The trace id of a request that has not reserved yet is free.
Unreserved ==
    \A r \in Reqs : pc[r] \in {"idle", "arrived", "cleared", "priced"} =>
        mem.outstanding[TraceId[r]] = 0 /\ disk.outstanding[TraceId[r]] = 0

\* Memory and checkpoint both account for the exposure of all requests.
Covered == Total(Exposure, N) <= Accounted(mem) /\ Total(Exposure, N) <= Accounted(disk)

\* The inductive invariant of the spend.
SpendInv == TypeOK /\ DurableHold /\ Priced /\ Shown /\ mode \in Modes /\ Unreserved /\ Covered

\* Exposures and bills are naturals, and so are their sums.
LEMMA ExposureNat ==
    ASSUME TypeOK
    PROVE  /\ Exposure \in [Reqs -> Nat] /\ Total(Exposure, N) \in Nat
           /\ Billed \in [Reqs -> Nat] /\ Total(Billed, N) \in Nat
<1>1. ASSUME NEW r \in Reqs PROVE Exposure[r] \in Nat /\ Billed[r] \in Nat
  BY AmountTypes DEF Exposure, ExposureOf, Billed, Bill
<1>2. Exposure \in [Reqs -> Nat] /\ Billed \in [Reqs -> Nat]
  BY <1>1 DEF Exposure, Billed
<1>3. QED
  BY <1>2, TotalNat, LedgerAssumption DEF Reqs

\* The same in the next state.
LEMMA ExposureNatNext ==
    ASSUME TypeOK'
    PROVE  Exposure' \in [Reqs -> Nat] /\ Total(Exposure', N) \in Nat
<1>1. ASSUME NEW r \in Reqs
      PROVE  ExposureOf(pc'[r], hold'[r], usage'[r], sent'[r]) \in Nat
  <2>1. usage'[r] \in UsageEvidence /\ hold'[r] \in Nat
    BY DEF TypeOK
  <2>2. QED
    BY <2>1, DerivedNat DEF ExposureOf
<1>2. Exposure' = [r \in Reqs |-> ExposureOf(pc'[r], hold'[r], usage'[r], sent'[r])]
  BY DEF Exposure, ExposureOf
<1>3. Exposure' \in [Reqs -> Nat]
  BY <1>1, <1>2
<1>4. QED
  BY <1>3, TotalNat, LedgerAssumption DEF Reqs

\* A handler's step changes the exposure of its own request only.
LEMMA ExposureUpdate ==
    ASSUME TypeOK, TypeOK', NEW r \in Reqs, QuietStep(r) \/ LedgerStep(r)
    PROVE  /\ Total(Exposure', N) = (Total(Exposure, N) - Exposure[r]) + Exposure'[r]
           /\ Exposure'[r] = ExposureOf(pc'[r], hold'[r], usage'[r], sent'[r])
           /\ Exposure[r] = ExposureOf(pc[r], hold[r], usage[r], sent[r])
           /\ Exposure[r] \in Nat /\ Exposure'[r] \in Nat
           /\ Total(Exposure, N) \in Nat /\ Total(Exposure', N) \in Nat
<1>1. Exposure \in [Reqs -> Nat] /\ Total(Exposure, N) \in Nat
  BY ExposureNat
<1>2. ASSUME NEW s \in Reqs
      PROVE  Exposure'[s] = ExposureOf(pc'[s], hold'[s], usage'[s], sent'[s])
  BY DEF Exposure, ExposureOf
<1>3. ASSUME NEW s \in Reqs PROVE Exposure[s] = ExposureOf(pc[s], hold[s], usage[s], sent[s])
  BY DEF Exposure
<1>4. Exposure'[r] \in Nat /\ Total(Exposure', N) \in Nat
  BY ExposureNatNext
<1>5. Exposure' = [Exposure EXCEPT ![r] = Exposure'[r]]
  <2>1. ASSUME NEW s \in Reqs, s # r PROVE Exposure'[s] = Exposure[s]
    BY <2>1, <1>2, <1>3, Frame
  <2>2. Exposure' = [s \in Reqs |-> Exposure'[s]]
    BY DEF Exposure
  <2>3. Exposure \in [Reqs -> Nat]
    BY <1>1
  <2>4. QED
    BY <2>1, <2>2, <2>3
<1> DEFINE e == Exposure'[r]
<1>6. Total([Exposure EXCEPT ![r] = e], N) = (Total(Exposure, N) - Exposure[r]) + e
  <2>1. e \in Nat
    BY <1>4
  <2> HIDE DEF e
  <2>2. QED
    BY <2>1, <1>1, TotalUpdate, LedgerAssumption DEF Reqs
<1>7. Total(Exposure', N) = (Total(Exposure, N) - Exposure[r]) + Exposure'[r]
  BY <1>5, <1>6
<1>8. Exposure[r] \in Nat
  BY <1>1
<1>9. QED
  BY <1>1, <1>2, <1>3, <1>4, <1>7, <1>8

\* A quiet step raises no exposure: a request goes upstream under its hold.
LEMMA QuietExposure ==
    ASSUME HonestCache, SpendInv, NEW r \in Reqs, QuietStep(r)
    PROVE  ExposureOf(pc'[r], hold'[r], usage'[r], sent'[r])
             <= ExposureOf(pc[r], hold[r], usage[r], sent[r])
<1> USE DEF history
<1>0. TypeOK /\ Priced
  BY DEF SpendInv
<1>1. /\ hold[r] \in Nat /\ derived_cost_usd(usage[r]) \in Nat
      /\ sent[r] => derived_cost_usd(usage[r]) <= hold[r]
  BY <1>0, AmountTypes, BillWithinHold DEF Bill
<1>2. CASE pc'[r] \in Holding
  BY <1>0, <1>1, <1>2, QuietHolding DEF ExposureOf
<1>3. CASE pc'[r] \notin Holding
  <2>0. ~Forward(r) /\ ~Relay(r) /\ ~Drain(r)
    BY <1>0, <1>3 DEF Forward, Relay, Drain, Goto, TypeOK, Holding
  <2>1. usage'[r] = usage[r] /\ sent'[r] = sent[r]
    BY <2>0 DEF QuietStep, Arrive, CheckRunnable, PolicyRefuses, Price, ReserveRefused,
                TransportFails, RecordBilled
  <2>2. CASE sent[r]
    BY <2>1, <2>2, <1>1, <1>3 DEF ExposureOf
  <2>3. CASE ~sent[r]
    BY <2>1, <2>3, <1>1, <1>3 DEF ExposureOf
  <2>4. QED
    BY <2>2, <2>3
<1>4. QED
  BY <1>2, <1>3

\* What a ledger step adds to the exposure it adds to the ledger in memory, and if it
\* adds any, the ledger is on the checkpoint.
LEMMA LedgerExposure ==
    ASSUME HonestCache, FlatWrites, WholeUsage, SpendInv, NEW r \in Reqs, LedgerStep(r)
    PROVE  LET a == ExposureOf(pc[r], hold[r], usage[r], sent[r])
               b == ExposureOf(pc'[r], hold'[r], usage'[r], sent'[r])
           IN  /\ Accounted(mem') \in Nat
               /\ Accounted(mem) + b <= Accounted(mem') + a
               /\ disk' = mem' \/ (disk' = disk /\ b <= a)
<1> DEFINE id == TraceId[r]
           amt == derived_cost_usd(EvidenceForSettlement(shown[r], Stream[r]))
           a == ExposureOf(pc[r], hold[r], usage[r], sent[r])
           b == ExposureOf(pc'[r], hold'[r], usage'[r], sent'[r])
<1>0. TypeOK /\ DurableHold /\ Priced /\ Shown /\ Unreserved
  BY DEF SpendInv
<1>1. /\ id \in Ids /\ hold[r] \in Nat /\ Bill(r) \in Nat /\ amt \in Nat
      /\ derived_cost_usd(usage[r]) = Bill(r)
      /\ pc[r] = "drained" => ShownCost(r) = Bill(r) /\ Bill(r) <= amt
  <2>1. usage[r] \in UsageEvidence /\ Stream[r] \in BOOLEAN
    BY <1>0, LedgerAssumption DEF TypeOK
  <2>2. ASSUME pc[r] = "drained" PROVE ShownCost(r) = Bill(r) /\ Bill(r) <= amt
    <3>1. shown[r] = usage[r]
      BY <1>0, <2>1, <2>2, FiguresShort DEF Shown, WholeUsage
    <3>2. QED
      BY <2>1, <3>1, StreamSettlement DEF FlatWrites, Bill, ShownCost
  <2>3. QED
    BY <1>0, <2>2, AmountTypes DEF Bill
<1>2. /\ mem \in Ledgers /\ mem' \in Ledgers /\ mem.outstanding[id] \in Nat
      /\ Accounted(mem) \in Nat /\ Accounted(mem') \in Nat
  BY <1>0, <1>1, LedgerNat, LedgerStepShape DEF TypeOK
<1>3. /\ hold'[r] = hold[r] /\ usage'[r] = usage[r] /\ sent'[r] = sent[r]
      /\ disk' \in {mem', disk}
  BY <1>0, LedgerStepShape
<1>4. sent[r] => Bill(r) <= hold[r]
  BY <1>0, BillWithinHold
<1> HIDE DEF id, amt
<1>5. a = IF pc[r] \in Holding THEN hold[r] ELSE IF sent[r] THEN Bill(r) ELSE 0
  BY <1>1 DEF ExposureOf
<1>6. b = IF pc'[r] \in Holding THEN hold[r] ELSE IF sent[r] THEN Bill(r) ELSE 0
  BY <1>1, <1>3 DEF ExposureOf
<1> HIDE DEF a, b
<1>7. a \in Nat /\ b \in Nat
  BY <1>1, <1>5, <1>6
<1>8. CASE pc'[r] \in Holding
  <2>1. mem' = Reserved(mem, id, hold[r]) /\ disk' = mem'
    BY <1>0, <1>8, LedgerStepHolding DEF id
  <2>2. pc[r] = "priced"
    <3>1. ~SettleActual(r) /\ ~SettleDerived(r) /\ ~Retain(r) /\ ~ExceptRetain(r)
      BY <1>0, <1>8 DEF SettleActual, SettleDerived, Retain, ExceptRetain, Goto, TypeOK, Holding
    <3>2. QED
      BY <3>1 DEF LedgerStep, Reserve
  <2>3. mem.outstanding[id] = 0 /\ ~sent[r]
    BY <2>2, <1>0 DEF Unreserved, Priced, id
  <2>4. Accounted(mem') = Accounted(mem) + hold[r]
    BY <2>1, <2>3, <1>1, <1>2, ReservedAccounted
  <2>5. b = hold[r]
    BY <1>6, <1>8
  <2>6. QED
    BY <2>1, <2>4, <2>5, <1>1, <1>2, <1>7 DEF a, b
<1>9. CASE pc'[r] \notin Holding
  <2>1. b = (IF sent[r] THEN Bill(r) ELSE 0) /\ b <= a
    BY <1>9, <1>1, <1>4, <1>5, <1>6
  <2>2. pc[r] = "drained" => sent[r] /\ mem.outstanding[id] = hold[r] /\ a = hold[r] /\ b = Bill(r)
    BY <1>0, <1>5, <2>1 DEF Priced, DurableHold, Holding, id
  <2>3. CASE Reserve(r)
    <3>1. mem' = Reserved(mem, id, hold[r]) /\ pc[r] = "priced"
      BY <2>3 DEF Reserve, Persist, PersistFails, id
    <3>2. mem.outstanding[id] = 0
      BY <3>1, <1>0 DEF Unreserved, id
    <3>3. Accounted(mem') = Accounted(mem) + hold[r]
      BY <3>1, <3>2, <1>1, <1>2, ReservedAccounted
    <3>4. QED
      BY <3>3, <2>1, <1>1, <1>2, <1>3, <1>7 DEF a, b
  <2>4. CASE SettleActual(r)
    <3>1. mem' = SettledActual(mem, id, ShownCost(r)) /\ pc[r] = "drained"
      BY <2>4 DEF SettleActual, Persist, PersistFails, id
    <3>2. Accounted(mem') = (Accounted(mem) - mem.outstanding[id]) + ShownCost(r)
      <4>1. id \in Ids /\ ShownCost(r) \in Nat /\ mem \in Ledgers
        BY <1>0, <1>1, <1>2, AmountTypes
      <4>2. QED
        BY <3>1, <4>1, SettledActualLedger
    <3>3. QED
      BY <3>1, <3>2, <2>1, <2>2, <1>1, <1>2, <1>3, <1>7 DEF a, b
  <2>5. CASE SettleDerived(r)
    <3>1. mem' = SettledDerived(mem, id, amt) /\ pc[r] = "drained"
      BY <2>5 DEF SettleDerived, Persist, PersistFails, id, amt
    <3>2. Accounted(mem') = (Accounted(mem) - mem.outstanding[id]) + amt
      <4>1. id \in Ids /\ amt \in Nat /\ mem \in Ledgers
        BY <1>1, <1>2
      <4>2. QED
        BY <3>1, <4>1, SettledDerivedLedger
    <3>3. QED
      BY <3>1, <3>2, <2>1, <2>2, <1>1, <1>2, <1>3, <1>7 DEF a, b
  <2>6. CASE Retain(r) \/ ExceptRetain(r)
    <3>1. mem' = RetainedUnproven(mem, id)
      BY <2>6 DEF Retain, ExceptRetain, Persist, PersistFails, id
    <3>2. Accounted(mem') = Accounted(mem)
      BY <3>1, <1>1, <1>2, RetainedUnprovenLedger
    <3>3. QED
      BY <3>2, <2>1, <1>2, <1>3, <1>7 DEF a, b
  <2>7. QED
    BY <2>3, <2>4, <2>5, <2>6 DEF LedgerStep
<1>10. QED
  BY <1>8, <1>9

\* Every step keeps the trace ids of the requests to come free.
LEMMA UnreservedStep ==
    ASSUME UniqueTraces, TypeOK, Unreserved, [Next]_vars
    PROVE  Unreserved'
<1> DEFINE Early == {"idle", "arrived", "cleared", "priced"}
<1>1. CASE UNCHANGED vars
  BY <1>1 DEF vars, ledgers, handlers, Unreserved
<1>2. CASE Restart
  <2>1. /\ \A r \in Reqs : pc'[r] = (IF pc[r] \in Running THEN "dead" ELSE pc[r])
        /\ mem' = disk /\ disk' = disk
    BY <1>2 DEF Restart
  <2>2. QED
    BY <2>1 DEF Unreserved, Running, PCs
<1>3. ASSUME NEW r \in Reqs, QuietStep(r) PROVE Unreserved'
  <2>1. UNCHANGED <<mem, disk>>
    BY <1>3, QuietLedgers
  <2>2. pc'[r] \in Early => pc[r] \in Early
    BY <1>3 DEF QuietStep, Arrive, CheckRunnable, PolicyRefuses, Price, ReserveRefused,
                Forward, TransportFails, Relay, Drain, RecordBilled, Goto, TypeOK
  <2>3. ASSUME NEW s \in Reqs, pc'[s] \in Early PROVE pc[s] \in Early
    BY <1>3, <2>2, <2>3, Frame
  <2>4. QED
    BY <2>1, <2>3 DEF Unreserved
<1>4. ASSUME NEW r \in Reqs, LedgerStep(r) PROVE Unreserved'
  <2>1. pc'[r] \notin Early
    BY <1>4 DEF LedgerStep, Reserve, SettleActual, SettleDerived, Retain, ExceptRetain, Goto, TypeOK
  <2>2. disk' \in {mem', disk}
    BY <1>4, LedgerStepShape
  <2>3. ASSUME NEW s \in Reqs, pc'[s] \in Early
        PROVE  mem'.outstanding[TraceId[s]] = 0 /\ disk'.outstanding[TraceId[s]] = 0
    <3>1. s # r
      BY <2>1, <2>3
    <3>2. pc[s] \in Early
      BY <2>3, <3>1, <1>4, Frame
    <3>3. TraceId[s] # TraceId[r] /\ TraceId[s] \in Ids
      BY <3>1, AmountTypes DEF UniqueTraces
    <3>4. mem'.outstanding[TraceId[s]] = mem.outstanding[TraceId[s]]
      BY <1>4, <3>3, OtherEntries
    <3>5. QED
      BY <2>2, <3>2, <3>4 DEF Unreserved
  <2>4. QED
    BY <2>3 DEF Unreserved
<1>5. QED
  BY <1>1, <1>2, <1>3, <1>4, NextCases

\* Every step keeps the exposure of all requests covered.
LEMMA CoveredStep ==
    ASSUME HonestCache, FlatWrites, WholeUsage, SpendInv, [Next]_vars
    PROVE  Covered'
<1>0. TypeOK /\ TypeOK' /\ Covered /\ Priced
  BY TypeStep DEF SpendInv
<1>1. /\ Total(Exposure, N) \in Nat /\ Total(Exposure', N) \in Nat
      /\ Accounted(mem) \in Nat /\ Accounted(disk) \in Nat
      /\ Total(Exposure, N) <= Accounted(mem) /\ Total(Exposure, N) <= Accounted(disk)
  <2>1. Total(Exposure, N) \in Nat /\ Accounted(mem) \in Nat /\ Accounted(disk) \in Nat
    BY <1>0, ExposureNat, LedgerNat DEF TypeOK
  <2>2. Total(Exposure', N) \in Nat
    BY <1>0, ExposureNatNext
  <2>3. QED
    BY <1>0, <2>1, <2>2 DEF Covered
<1>2. CASE UNCHANGED vars
  <2>1. Exposure' = Exposure /\ mem' = mem /\ disk' = disk
    BY <1>2 DEF vars, ledgers, handlers, history, Exposure, ExposureOf
  <2>2. QED
    BY <2>1, <1>1 DEF Covered, Accounted, Committed
<1>3. CASE Restart
  <2>1. /\ \A r \in Reqs : pc'[r] = (IF pc[r] \in Running THEN "dead" ELSE pc[r])
        /\ hold' = hold /\ usage' = usage /\ sent' = sent /\ mem' = disk /\ disk' = disk
    BY <1>3 DEF Restart, history
  <2>2. ASSUME NEW r \in Reqs PROVE Exposure'[r] <= Exposure[r]
    <3>1. /\ hold[r] \in Nat /\ derived_cost_usd(usage[r]) \in Nat
          /\ sent[r] => derived_cost_usd(usage[r]) <= hold[r]
      BY <1>0, AmountTypes, BillWithinHold DEF Bill
    <3>2. Exposure'[r] = ExposureOf(pc'[r], hold[r], usage[r], sent[r])
      BY <2>1 DEF Exposure, ExposureOf
    <3>3. Exposure[r] = ExposureOf(pc[r], hold[r], usage[r], sent[r])
      BY DEF Exposure
    <3>4. pc'[r] \in Holding => pc[r] \in Holding
      BY <2>1 DEF Holding
    <3>5. QED
      BY <3>1, <3>2, <3>3, <3>4 DEF ExposureOf
  <2>3. Exposure \in [Reqs -> Nat] /\ Exposure' \in [Reqs -> Nat]
    BY <1>0, ExposureNat, ExposureNatNext
  <2>4. Total(Exposure', N) <= Total(Exposure, N)
    BY <2>2, <2>3, TotalMono, LedgerAssumption DEF Reqs
  <2>5. QED
    BY <2>1, <2>4, <1>1 DEF Covered, Accounted, Committed
<1>4. ASSUME NEW r \in Reqs, QuietStep(r) PROVE Covered'
  <2>1. mem' = mem /\ disk' = disk
    BY <1>4, QuietLedgers
  <2>2. Total(Exposure', N) <= Total(Exposure, N)
    BY <1>0, <1>4, ExposureUpdate, QuietExposure
  <2>3. QED
    BY <2>1, <2>2, <1>1 DEF Covered, Accounted, Committed
<1>5. ASSUME NEW r \in Reqs, LedgerStep(r) PROVE Covered'
  <2> DEFINE a == ExposureOf(pc[r], hold[r], usage[r], sent[r])
             b == ExposureOf(pc'[r], hold'[r], usage'[r], sent'[r])
  <2>1. /\ Total(Exposure', N) = (Total(Exposure, N) - a) + b
        /\ a \in Nat /\ b \in Nat
    BY <1>0, <1>5, ExposureUpdate
  <2>2. /\ Accounted(mem') \in Nat
        /\ Accounted(mem) + b <= Accounted(mem') + a
        /\ disk' = mem' \/ (disk' = disk /\ b <= a)
    BY <1>5, LedgerExposure
  <2> HIDE DEF a, b
  <2>3. Total(Exposure', N) <= Accounted(mem')
    BY <2>1, <2>2, <1>1
  <2>4. Total(Exposure', N) <= Accounted(disk')
    <3>1. CASE disk' = mem'
      BY <3>1, <2>3
    <3>2. CASE disk' = disk /\ b <= a
      BY <3>2, <2>1, <1>1
    <3>3. QED
      BY <2>2, <3>1, <3>2
  <2>5. QED
    BY <2>3, <2>4 DEF Covered, Accounted, Committed
<1>6. QED
  BY <1>2, <1>3, <1>4, <1>5, NextCases

\* Nothing is reserved and nothing was billed at the start.
LEMMA SpendInit == Init => Unreserved /\ Covered
<1> SUFFICES ASSUME Init PROVE Unreserved /\ Covered
  OBVIOUS
<1>1. Unreserved
  BY LedgerAssumption DEF Init, Unreserved, EmptyLedger
<1>2. Exposure = [r \in 1..N |-> 0]
  BY DEF Init, Exposure, ExposureOf, Holding, Reqs
<1>3. Total(Exposure, N) = 0
  BY <1>2, ZeroTotal, LedgerAssumption
<1>4. Accounted(mem) \in Nat /\ Accounted(disk) \in Nat
  BY TypeInit, LedgerNat DEF TypeOK
<1>5. QED
  BY <1>1, <1>3, <1>4 DEF Covered

\* Covered exposure is accounted spend.
LEMMA SpendWithinExposure ==
    ASSUME HonestCache, SpendInv
    PROVE  NoUnaccountedSpend
<1>0. TypeOK /\ Priced /\ Covered
  BY DEF SpendInv
<1>1. ASSUME NEW r \in Reqs PROVE Billed[r] <= Exposure[r]
  <2>1. hold[r] \in Nat /\ Bill(r) \in Nat /\ (sent[r] => Bill(r) <= hold[r])
    BY <1>0, AmountTypes, BillWithinHold
  <2>2. Billed[r] = (IF sent[r] THEN Bill(r) ELSE 0)
    BY DEF Billed
  <2>3. Exposure[r] = (IF pc[r] \in Holding THEN hold[r] ELSE IF sent[r] THEN Bill(r) ELSE 0)
    BY DEF Exposure, ExposureOf, Bill
  <2>4. QED
    BY <2>1, <2>2, <2>3
<1>2. /\ Exposure \in [Reqs -> Nat] /\ Total(Exposure, N) \in Nat
      /\ Billed \in [Reqs -> Nat] /\ Total(Billed, N) \in Nat
  BY <1>0, ExposureNat
<1>3. Total(Billed, N) <= Total(Exposure, N)
  BY <1>1, <1>2, TotalMono, LedgerAssumption DEF Reqs
<1>4. Accounted(disk) \in Nat
  BY <1>0, LedgerNat DEF TypeOK
<1>5. QED
  BY <1>0, <1>2, <1>3, <1>4 DEF Covered, NoUnaccountedSpend

\* Whatever the upstream has billed is accounted for on the checkpoint, at every moment
\* of every run, across failed writes and restarts, on four conditions: the trace ids
\* are not reused, the provider keeps the prefix cached, a stream shows its whole bill
\* before it ends, and pays no premium for writing to the cache.  Budget-watch mode may
\* be on: it lifts the cap, not the bookkeeping.
THEOREM SpendIsAccounted ==
    ASSUME UniqueTraces, HonestCache, FlatWrites, WholeUsage
    PROVE  Spec => []NoUnaccountedSpend
<1>1. Init => SpendInv
  BY TypeInit, DurableHoldInit, PricedInit, CapInit, ShownInit, SpendInit DEF SpendInv
<1>2. SpendInv /\ [Next]_vars => SpendInv'
  BY TypeStep, DurableHoldStep, PricedStep, ModeStep, ShownStep, UnreservedStep, CoveredStep DEF SpendInv
<1>3. SpendInv => NoUnaccountedSpend
  BY SpendWithinExposure
<1>4. QED
  BY <1>1, <1>2, <1>3, PTL DEF Spec

(***************************************************************************)
(* The identity trip switch.                                               *)
(***************************************************************************)
\* The switch remembers the foreign model, and a request that came in after it never
\* gets past the switch.
Latched ==
    /\ mismatch => tripped
    /\ \A r \in Reqs :
          /\ pc[r] = "idle" => ~sent[r]
          /\ late[r] => mismatch /\ ~sent[r] /\ pc[r] \in {"arrived", "done"}

\* A handler's step keeps its own request latched, and never clears the switch.
LEMMA LatchedOwnStep ==
    ASSUME TypeOK, Latched, NEW r \in Reqs, QuietStep(r) \/ LedgerStep(r)
    PROVE  /\ mismatch' => tripped'
           /\ mismatch => mismatch'
           /\ \A s \in Reqs : s # r => late'[s] = late[s]
           /\ pc'[r] # "idle"
           /\ late'[r] => mismatch' /\ ~sent'[r] /\ pc'[r] \in {"arrived", "done"}
<1> USE DEF ledgers, process, history
<1>1. CASE Arrive(r)
  BY <1>1 DEF Arrive, Goto, TypeOK, Latched
<1>2. CASE CheckRunnable(r)
  BY <1>2 DEF CheckRunnable, Goto, TypeOK, Latched
<1>3. CASE PolicyRefuses(r)
  BY <1>3 DEF PolicyRefuses, Goto, TypeOK, Latched
<1>4. CASE Price(r)
  BY <1>4 DEF Price, Goto, TypeOK, Latched
<1>5. CASE ReserveRefused(r)
  BY <1>5 DEF ReserveRefused, Goto, TypeOK, Latched
<1>6. CASE Forward(r)
  BY <1>6 DEF Forward, Goto, TypeOK, Latched
<1>7. CASE TransportFails(r)
  BY <1>7 DEF TransportFails, Goto, TypeOK, Latched
<1>8. CASE Relay(r)
  BY <1>8 DEF Relay, Goto, TypeOK, Latched
<1>9. CASE Drain(r)
  BY <1>9 DEF Drain, Goto, TypeOK, Latched
<1>10. CASE RecordBilled(r)
  BY <1>10 DEF RecordBilled, Goto, TypeOK, Latched
<1>11. CASE LedgerStep(r)
  <2>1. UNCHANGED <<tripped, sent, mismatch, late>>
    BY <1>11, LedgerStepShape
  <2>2. pc[r] \notin {"arrived", "done"} /\ pc'[r] # "idle"
    BY <1>11 DEF LedgerStep, Reserve, SettleActual, SettleDerived, Retain, ExceptRetain,
                 Goto, TypeOK
  <2>3. QED
    BY <2>1, <2>2 DEF Latched
<1>12. QED
  BY <1>1, <1>2, <1>3, <1>4, <1>5, <1>6, <1>7, <1>8, <1>9, <1>10, <1>11 DEF QuietStep

\* While the proxy runs, every step keeps every request latched.
LEMMA LatchedStep ==
    ASSUME TypeOK, Latched, [Next]_vars, ~Restart
    PROVE  Latched'
<1>1. CASE UNCHANGED vars
  BY <1>1 DEF vars, process, handlers, history, Latched
<1>2. ASSUME NEW r \in Reqs, QuietStep(r) \/ LedgerStep(r) PROVE Latched'
  <2>1. ASSUME NEW s \in Reqs
        PROVE  /\ pc'[s] = "idle" => ~sent'[s]
               /\ late'[s] => mismatch' /\ ~sent'[s] /\ pc'[s] \in {"arrived", "done"}
    <3>1. CASE s = r
      BY <1>2, <3>1, LatchedOwnStep
    <3>2. CASE s # r
      <4>1. pc'[s] = pc[s] /\ sent'[s] = sent[s]
        BY <1>2, <3>2, Frame
      <4>2. late'[s] = late[s] /\ (mismatch => mismatch')
        BY <1>2, <3>2, LatchedOwnStep
      <4>3. QED
        BY <4>1, <4>2 DEF Latched
    <3>3. QED
      BY <3>1, <3>2
  <2>2. mismatch' => tripped'
    BY <1>2, LatchedOwnStep
  <2>3. QED
    BY <2>1, <2>2 DEF Latched
<1>3. QED
  BY <1>1, <1>2, NextCases

\* A process that is not restarted refuses every request that arrives after a reply
\* named a foreign model, however many handlers were already under way.  The condition
\* is needed: the switch is in memory only, and a restart forgets it.
THEOREM ForeignModelShutsTheGate ==
    ASSUME MaxRestarts = 0
    PROVE  Spec => []IdentityRefusal
<1>1. Init => TypeOK /\ Latched
  BY TypeInit DEF Init, Latched
<1>2. (TypeOK /\ Latched) /\ [Next]_vars => (TypeOK /\ Latched)'
  <2>1. TypeOK => ~Restart
    BY DEF TypeOK, Restart
  <2>2. QED
    BY <2>1, TypeStep, LatchedStep
<1>3. Latched => IdentityRefusal
  BY DEF Latched, IdentityRefusal
<1>4. QED
  BY <1>1, <1>2, <1>3, PTL DEF Spec

(***************************************************************************)
(* The way of a handler.                                                   *)
(***************************************************************************)
\* How far a handler has come.
Mark(p) ==
    CASE p = "idle" -> 0     [] p = "arrived" -> 1  [] p = "cleared" -> 2
      [] p = "priced" -> 3   [] p = "reserved" -> 4 [] p = "sent" -> 5
      [] p = "relaying" -> 6 [] p = "drained" -> 7  [] p = "retain" -> 8
      [] p = "except" -> 9   [] p = "billed" -> 10  [] OTHER -> 11

\* A step that moves a handler brings it nearer to its answer.
Onwards == \A r \in Reqs : pc'[r] # pc[r] => Mark(pc'[r]) > Mark(pc[r])

\* What a process that has not been restarted holds for requests that went upstream
\* and are settled: nothing.  A request that has yet to reserve was not sent.
AnsweredHoldsNothing ==
    restarts = 0 =>
        \A r \in Reqs : sent[r] /\ pc[r] \in {"billed", "done"} =>
            mem.outstanding[TraceId[r]] = 0

UnsentBefore ==
    \A r \in Reqs : pc[r] \in {"idle", "arrived", "cleared", "priced"} => ~sent[r]

\* The places in their order.
LEMMA Marks ==
    /\ Mark("idle") = 0 /\ Mark("arrived") = 1 /\ Mark("cleared") = 2 /\ Mark("priced") = 3
    /\ Mark("reserved") = 4 /\ Mark("sent") = 5 /\ Mark("relaying") = 6 /\ Mark("drained") = 7
    /\ Mark("retain") = 8 /\ Mark("except") = 9 /\ Mark("billed") = 10
    /\ Mark("done") = 11 /\ Mark("dead") = 11
BY DEF Mark

\* The handler that takes a step goes on.
LEMMA OwnWay ==
    ASSUME TypeOK, NEW r \in Reqs, QuietStep(r) \/ LedgerStep(r)
    PROVE  Mark(pc'[r]) > Mark(pc[r])
<1> USE Marks DEF Goto
<1>0. pc \in [Reqs -> PCs]
  BY DEF TypeOK
<1>1. CASE QuietStep(r)
  <2>1. CASE Arrive(r) \/ CheckRunnable(r) \/ PolicyRefuses(r)
    BY <2>1, <1>0 DEF Arrive, CheckRunnable, PolicyRefuses
  <2>2. CASE Price(r) \/ ReserveRefused(r) \/ Forward(r)
    BY <2>2, <1>0 DEF Price, ReserveRefused, Forward
  <2>3. CASE TransportFails(r) \/ Relay(r) \/ Drain(r) \/ RecordBilled(r)
    BY <2>3, <1>0 DEF TransportFails, Relay, Drain, RecordBilled
  <2>4. QED
    BY <1>1, <2>1, <2>2, <2>3 DEF QuietStep
<1>2. CASE LedgerStep(r)
  <2>1. CASE Reserve(r)
    <3>1. pc[r] = "priced" /\ (Goto(r, "reserved") \/ Goto(r, "done"))
      BY <2>1 DEF Reserve
    <3>2. QED
      BY <3>1, <1>0
  <2>2. CASE SettleActual(r)
    <3>1. pc[r] = "drained" /\ (Goto(r, "billed") \/ Goto(r, "except"))
      BY <2>2 DEF SettleActual
    <3>2. QED
      BY <3>1, <1>0
  <2>3. CASE SettleDerived(r)
    <3>1. pc[r] = "drained" /\ (Goto(r, "billed") \/ Goto(r, "retain"))
      BY <2>3 DEF SettleDerived
    <3>2. QED
      BY <3>1, <1>0
  <2>4. CASE Retain(r)
    <3>1. pc[r] \in {"retain", "drained"} /\ (Goto(r, "done") \/ Goto(r, "except"))
      BY <2>4 DEF Retain
    <3>2. QED
      BY <3>1, <1>0
  <2>5. CASE ExceptRetain(r)
    <3>1. pc[r] = "except" /\ Goto(r, "done")
      BY <2>5 DEF ExceptRetain
    <3>2. QED
      BY <3>1, <1>0
  <2>6. QED
    BY <1>2, <2>1, <2>2, <2>3, <2>4, <2>5 DEF LedgerStep
<1>3. QED
  BY <1>1, <1>2

\* Every step of the proxy moves handlers onwards only.
LEMMA OnwardsStep ==
    ASSUME TypeOK, [Next]_vars
    PROVE  Onwards
<1>1. CASE UNCHANGED vars
  BY <1>1 DEF vars, handlers, Onwards
<1>2. CASE Restart
  <2>1. ASSUME NEW r \in Reqs, pc'[r] # pc[r]
        PROVE  Mark(pc'[r]) > Mark(pc[r])
    <3>1. pc[r] \in Running /\ pc'[r] = "dead"
      BY <1>2, <2>1 DEF Restart
    <3>2. QED
      BY <3>1, Marks DEF Running, PCs
  <2>2. QED
    BY <2>1 DEF Onwards
<1>3. ASSUME NEW r \in Reqs, QuietStep(r) \/ LedgerStep(r)
      PROVE  Onwards
  <2>1. ASSUME NEW s \in Reqs, pc'[s] # pc[s]
        PROVE  Mark(pc'[s]) > Mark(pc[s])
    BY <1>3, <2>1, Frame, OwnWay
  <2>2. QED
    BY <2>1 DEF Onwards
<1>4. QED
  BY <1>1, <1>2, <1>3, NextCases

\* A handler never goes back to an earlier place, so it takes at most eleven
\* steps for a request, whatever the upstream answers and whichever writes fail: no
\* settlement is retried, and nothing but a step that is not taken keeps a hold from
\* being settled (HoldsDrain short of its fairness).
THEOREM HandlersNeverTurnBack == Spec => [][Onwards]_vars
<1>1. TypeOK /\ [Next]_vars => [Onwards]_vars
  BY OnwardsStep
<1>2. QED
  BY <1>1, TypeInit, TypeStep, PTL DEF Spec

\* A ledger step that is not a reservation leaves no hold under the handler's key.
LEMMA SettledHoldsNothing ==
    ASSUME TypeOK, NEW r \in Reqs, LedgerStep(r), ~Reserve(r)
    PROVE  mem'.outstanding[TraceId[r]] = 0
<1> DEFINE amt == derived_cost_usd(EvidenceForSettlement(shown[r], Stream[r]))
<1>1. mem \in Ledgers /\ mem.outstanding \in [Ids -> Nat]
  BY LedgerNat DEF TypeOK
<1>2. amt \in Nat /\ ShownCost(r) \in Nat /\ TraceId[r] \in Ids
  BY AmountTypes
<1>3. \/ mem' = SettledActual(mem, TraceId[r], ShownCost(r))
      \/ mem' = SettledDerived(mem, TraceId[r], amt)
      \/ mem' = RetainedUnproven(mem, TraceId[r])
  <2>1. CASE SettleActual(r)
    BY <2>1 DEF SettleActual, Persist, PersistFails
  <2>2. CASE SettleDerived(r)
    BY <2>2 DEF SettleDerived, Persist, PersistFails
  <2>3. CASE Retain(r)
    BY <2>3 DEF Retain, Persist, PersistFails
  <2>4. CASE ExceptRetain(r)
    BY <2>4 DEF ExceptRetain, Persist, PersistFails
  <2>5. QED
    BY <2>1, <2>2, <2>3, <2>4 DEF LedgerStep
<1> HIDE DEF amt
<1>4. mem'.outstanding = [mem.outstanding EXCEPT ![TraceId[r]] = 0]
  BY <1>1, <1>2, <1>3, SettledActualLedger, SettledDerivedLedger, RetainedUnprovenLedger
<1>5. QED
  BY <1>1, <1>2, <1>4

\* What the handler that takes a quiet step has sent, and where it then is.
LEMMA QuietAnswered ==
    ASSUME TypeOK, UnsentBefore, NEW r \in Reqs, QuietStep(r)
    PROVE  /\ pc'[r] \in {"idle", "arrived", "cleared", "priced"} => ~sent'[r]
           /\ sent'[r] /\ pc'[r] \in {"billed", "done"} => sent[r] /\ pc[r] = "billed"
           /\ restarts' = restarts
<1> USE DEF Goto, UnsentBefore, TypeOK, history, process
<1>1. CASE Arrive(r) \/ CheckRunnable(r) \/ PolicyRefuses(r)
  BY <1>1 DEF Arrive, CheckRunnable, PolicyRefuses
<1>2. CASE Price(r) \/ ReserveRefused(r) \/ Forward(r)
  BY <1>2 DEF Price, ReserveRefused, Forward
<1>3. CASE TransportFails(r) \/ Relay(r) \/ Drain(r) \/ RecordBilled(r)
  BY <1>3 DEF TransportFails, Relay, Drain, RecordBilled
<1>4. QED
  BY <1>1, <1>2, <1>3 DEF QuietStep

\* The same of the handler that takes a ledger step: it has settled, or it had
\* nothing sent.
LEMMA LedgerAnswered ==
    ASSUME TypeOK, UnsentBefore, NEW r \in Reqs, LedgerStep(r)
    PROVE  /\ pc'[r] \notin {"idle", "arrived", "cleared", "priced"}
           /\ Reserve(r) => ~sent'[r]
           /\ restarts' = restarts
<1>1. sent' = sent /\ restarts' = restarts
  BY LedgerStepShape
<1>2. Reserve(r) => ~sent'[r]
  BY <1>1 DEF Reserve, UnsentBefore
<1>3. \E q \in {"reserved", "done", "billed", "except", "retain"} : Goto(r, q)
  <2>1. CASE Reserve(r)
    BY <2>1 DEF Reserve
  <2>2. CASE SettleActual(r)
    BY <2>2 DEF SettleActual
  <2>3. CASE SettleDerived(r)
    BY <2>3 DEF SettleDerived
  <2>4. CASE Retain(r)
    BY <2>4 DEF Retain
  <2>5. CASE ExceptRetain(r)
    BY <2>5 DEF ExceptRetain
  <2>6. QED
    BY <2>1, <2>2, <2>3, <2>4, <2>5 DEF LedgerStep
<1>4. QED
  BY <1>1, <1>2, <1>3 DEF Goto, TypeOK

\* Every step leaves nothing held for what is answered.
LEMMA AnsweredStep ==
    ASSUME UniqueTraces, TypeOK, UnsentBefore, AnsweredHoldsNothing, [Next]_vars
    PROVE  UnsentBefore' /\ AnsweredHoldsNothing'
<1>1. CASE UNCHANGED vars
  BY <1>1 DEF vars, ledgers, process, handlers, history, UnsentBefore, AnsweredHoldsNothing
<1>2. CASE Restart
  <2>1. restarts' # 0
    BY <1>2 DEF Restart, TypeOK
  <2>2. sent' = sent
    BY <1>2 DEF Restart, history
  <2>3. \A r \in Reqs : pc'[r] \in {"idle", "arrived", "cleared", "priced"} => pc'[r] = pc[r]
    BY <1>2 DEF Restart
  <2>4. QED
    BY <2>1, <2>2, <2>3 DEF UnsentBefore, AnsweredHoldsNothing
<1>3. ASSUME NEW r \in Reqs, QuietStep(r)
      PROVE  UnsentBefore' /\ AnsweredHoldsNothing'
  <2>1. mem' = mem /\ restarts' = restarts
    BY <1>3, QuietLedgers, QuietAnswered
  <2>2. \A s \in Reqs : s # r => pc'[s] = pc[s] /\ sent'[s] = sent[s]
    BY <1>3, Frame
  <2>3. UnsentBefore'
    BY <1>3, <2>2, QuietAnswered DEF UnsentBefore
  <2>4. \A s \in Reqs : sent'[s] /\ pc'[s] \in {"billed", "done"} =>
                           sent[s] /\ pc[s] \in {"billed", "done"}
    BY <1>3, <2>2, QuietAnswered
  <2>5. QED
    BY <2>1, <2>3, <2>4 DEF AnsweredHoldsNothing
<1>4. ASSUME NEW r \in Reqs, LedgerStep(r)
      PROVE  UnsentBefore' /\ AnsweredHoldsNothing'
  <2>1. \A s \in Reqs : s # r => pc'[s] = pc[s] /\ sent'[s] = sent[s]
    BY <1>4, Frame
  <2>2. UnsentBefore'
    BY <1>4, <2>1, LedgerAnswered DEF UnsentBefore
  <2>3. restarts' = restarts
    BY <1>4, LedgerAnswered
  <2>4. ASSUME NEW s \in Reqs, restarts = 0, sent'[s], pc'[s] \in {"billed", "done"}
        PROVE  mem'.outstanding[TraceId[s]] = 0
    <3>1. CASE s = r
      BY <1>4, <2>4, <3>1, LedgerAnswered, SettledHoldsNothing
    <3>2. CASE s # r
      <4>1. TraceId[s] # TraceId[r] /\ TraceId[s] \in Ids
        BY <3>2, AmountTypes DEF UniqueTraces
      <4>2. mem'.outstanding[TraceId[s]] = mem.outstanding[TraceId[s]]
        BY <1>4, <4>1, OtherEntries
      <4>3. QED
        BY <2>1, <2>4, <3>2, <4>2 DEF AnsweredHoldsNothing
    <3>3. QED
      BY <3>1, <3>2
  <2>5. QED
    BY <2>2, <2>3, <2>4 DEF AnsweredHoldsNothing
<1>5. QED
  BY <1>1, <1>2, <1>3, <1>4, NextCases

\* With trace ids that are not reused, a process that was not restarted holds nothing
\* for a request that went upstream and is settled, whatever its handler met on the
\* way: errors of the transport, a stream cut short, failing writes, both settlements
\* failing after one another.  With HandlersNeverTurnBack this is HoldsDrain for all
\* values of the constants, but for the step that has to be taken.
THEOREM AnswersReturnTheirHold ==
    ASSUME UniqueTraces
    PROVE  Spec => []AnsweredHoldsNothing
<1>1. Init => TypeOK /\ UnsentBefore /\ AnsweredHoldsNothing
  BY TypeInit DEF Init, UnsentBefore, AnsweredHoldsNothing
<1>2. (TypeOK /\ UnsentBefore /\ AnsweredHoldsNothing) /\ [Next]_vars
        => (TypeOK /\ UnsentBefore /\ AnsweredHoldsNothing)'
  BY TypeStep, AnsweredStep
<1>3. QED
  BY <1>1, <1>2, PTL DEF Spec

=============================================================================
