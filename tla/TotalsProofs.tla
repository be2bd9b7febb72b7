---------------------------- MODULE TotalsProofs ----------------------------
(***************************************************************************)
(* Laws of Total: it is a natural number, changing one entry of the table  *)
(* changes it by the difference, and no entry exceeds it.  They are proved *)
(* by induction over the keys, from the well-foundedness of the predecessor *)
(* relation.                                                               *)
(***************************************************************************)
EXTENDS Totals, TLAPS, WellFoundedInduction

\* The predecessor relation is contained in a well-founded one.
LEMMA PredecessorOrder ==
    \E R : IsWellFoundedOn(R, Nat) /\ \A x \in Nat : <<x, x + 1>> \in R
<1> DEFINE R == OpToRel(<, Nat)
<1>1. IsWellFoundedOn(R, Nat)
  BY NatLessThanWellFounded
<1>2. ASSUME NEW x \in Nat PROVE <<x, x + 1>> \in R
  <2>1. x + 1 \in Nat /\ x < x + 1
    OBVIOUS
  <2>2. QED
    BY <2>1 DEF OpToRel
<1> HIDE DEF R
<1>3. QED
  BY <1>1, <1>2

\* Induction over the naturals, stated for a set rather than a predicate.
LEMMA NatSetInduction ==
    ASSUME NEW S, 0 \in S, \A n \in Nat : n \in S => n + 1 \in S
    PROVE  Nat \subseteq S
<1>1. SUFFICES ASSUME Nat \ S # {} PROVE FALSE
  OBVIOUS
<1>2. PICK R : IsWellFoundedOn(R, Nat) /\ \A x \in Nat : <<x, x + 1>> \in R
  BY PredecessorOrder
<1>3. PICK x \in Nat \ S : \A y \in Nat \ S : ~ (<<y, x>> \in R)
  BY <1>1, <1>2, WFMin
<1>4. x # 0 /\ x - 1 \in Nat /\ (x - 1) + 1 = x
  BY <1>3
<1>5. <<x - 1, x>> \in R
  BY <1>2, <1>4
<1>6. x - 1 \in S
  BY <1>3, <1>4, <1>5
<1>7. QED
  BY <1>3, <1>4, <1>6

\* A chain of partial sums exists for every length.
LEMMA PartialSumsExist ==
    ASSUME NEW n \in Nat, NEW f \in [1..n -> Int]
    PROVE  \E g \in [0..n -> Int] :
             g = [k \in 0..n |-> IF k = 0 THEN 0 ELSE g[k - 1] + f[k]]
<1> DEFINE Chain(m, g) == \A k \in 0..m :
                            g[k] = IF k = 0 THEN 0 ELSE g[k - 1] + f[k]
           S == {m \in Nat : m <= n => \E g \in [0..m -> Int] : Chain(m, g)}
<1>1. 0 \in S
  <2>1. [k \in 0..0 |-> 0] \in [0..0 -> Int] /\ Chain(0, [k \in 0..0 |-> 0])
    OBVIOUS
  <2>2. QED
    BY <2>1
<1>2. ASSUME NEW m \in Nat, m \in S, m + 1 <= n PROVE m + 1 \in S
  <2>1. PICK g \in [0..m -> Int] : Chain(m, g)
    BY <1>2
  <2> DEFINE h == [k \in 0..(m + 1) |-> IF k = m + 1 THEN g[m] + f[m + 1] ELSE g[k]]
  <2>2. h \in [0..(m + 1) -> Int]
    BY <1>2, <2>1
  <2>3. ASSUME NEW k \in 0..(m + 1)
        PROVE  h[k] = IF k = 0 THEN 0 ELSE h[k - 1] + f[k]
    <3>1. CASE k = m + 1
      BY <3>1, <2>1, <1>2
    <3>2. CASE k # m + 1 /\ k # 0
      <4>1. k \in 0..m /\ k - 1 \in 0..m /\ k - 1 # m + 1
        BY <3>2
      <4>2. g[k] = g[k - 1] + f[k]
        BY <4>1, <3>2, <2>1
      <4>3. QED
        BY <4>1, <4>2, <3>2
    <3>3. CASE k = 0
      BY <3>3, <2>1
    <3>4. QED
      BY <3>1, <3>2, <3>3
  <2>4. Chain(m + 1, h)
    BY <2>3
  <2> HIDE DEF h, Chain
  <2>5. \E gg \in [0..(m + 1) -> Int] : Chain(m + 1, gg)
    BY <2>2, <2>4
  <2>6. QED
    BY <2>5
<1>3. ASSUME NEW m \in Nat, m \in S PROVE m + 1 \in S
  <2>1. CASE m + 1 <= n
    BY <2>1, <1>2, <1>3
  <2>2. CASE ~(m + 1 <= n)
    BY <2>2
  <2>3. QED
    BY <2>1, <2>2
<1>4. n \in S
  <2> HIDE DEF S
  <2>1. QED
    BY <1>1, <1>3, NatSetInduction
<1>5. PICK g \in [0..n -> Int] : Chain(n, g)
  BY <1>4
<1>6. g = [k \in 0..n |-> IF k = 0 THEN 0 ELSE g[k - 1] + f[k]]
  BY <1>5
<1>7. QED
  BY <1>6

\* PartialSums is such a chain.
LEMMA PartialSumsDef ==
    ASSUME NEW n \in Nat, NEW f \in [1..n -> Int]
    PROVE  PartialSums(f, n)
             = [k \in 0..n |-> IF k = 0 THEN 0 ELSE PartialSums(f, n)[k - 1] + f[k]]
<1> DEFINE P(g) == g = [k \in 0..n |-> IF k = 0 THEN 0 ELSE g[k - 1] + f[k]]
<1>1. \E g : P(g)
  BY PartialSumsExist
<1>2. P(CHOOSE g : P(g))
  BY <1>1
<1>3. PartialSums(f, n) = CHOOSE g : P(g)
  BY DEF PartialSums
<1>4. QED
  BY <1>2, <1>3

\* The chain read element by element.
LEMMA PartialSumsStep ==
    ASSUME NEW n \in Nat, NEW f \in [1..n -> Int]
    PROVE  /\ PartialSums(f, n)[0] = 0
           /\ \A k \in 1..n : PartialSums(f, n)[k] = PartialSums(f, n)[k - 1] + f[k]
<1> DEFINE g == PartialSums(f, n)
<1>1. g = [k \in 0..n |-> IF k = 0 THEN 0 ELSE g[k - 1] + f[k]]
  BY PartialSumsDef
<1> HIDE DEF g
<1>2. g[0] = 0
  BY <1>1
<1>3. ASSUME NEW k \in 1..n PROVE g[k] = g[k - 1] + f[k]
  <2>1. k \in 0..n /\ k # 0
    OBVIOUS
  <2>2. QED
    BY <2>1, <1>1
<1>4. QED
  BY <1>2, <1>3 DEF g

\* A table of naturals has natural partial sums.
LEMMA PartialSumsNat ==
    ASSUME NEW n \in Nat, NEW f \in [1..n -> Nat]
    PROVE  \A k \in 0..n : PartialSums(f, n)[k] \in Nat
<1> DEFINE g == PartialSums(f, n)
           S == {k \in Nat : k <= n => g[k] \in Nat}
<1>0. f \in [1..n -> Int]
  OBVIOUS
<1>1. g[0] = 0 /\ \A k \in 1..n : g[k] = g[k - 1] + f[k]
  BY <1>0, PartialSumsStep
<1> HIDE DEF g
<1>2. 0 \in S
  BY <1>1
<1>3. ASSUME NEW m \in Nat, m \in S PROVE m + 1 \in S
  <2>1. CASE m + 1 <= n
    <3>1. m + 1 \in 1..n /\ (m + 1) - 1 = m /\ g[m] \in Nat
      BY <2>1, <1>3
    <3>2. g[m + 1] = g[m] + f[m + 1]
      BY <3>1, <1>1
    <3>3. QED
      BY <3>1, <3>2
  <2>2. CASE ~(m + 1 <= n)
    BY <2>2
  <2>3. QED
    BY <2>1, <2>2
<1>4. ASSUME NEW k \in 0..n PROVE k \in S
  <2> HIDE DEF S
  <2>1. Nat \subseteq S
    BY <1>2, <1>3, NatSetInduction
  <2>2. QED
    BY <2>1
<1>5. QED
  BY <1>4 DEF g

\* Replacing one entry shifts every partial sum from that entry on by the
\* difference, and leaves the earlier ones alone.
LEMMA PartialSumsUpdate ==
    ASSUME NEW n \in Nat, NEW f \in [1..n -> Int], NEW i \in 1..n, NEW v \in Int
    PROVE  \A k \in 0..n :
             PartialSums([f EXCEPT ![i] = v], n)[k]
               = IF k < i THEN PartialSums(f, n)[k] ELSE (PartialSums(f, n)[k] - f[i]) + v
<1> DEFINE f2 == [f EXCEPT ![i] = v]
           g == PartialSums(f, n)
           h == PartialSums(f2, n)
           S == {k \in Nat : k <= n => /\ g[k] \in Int
                                      /\ h[k] = IF k < i THEN g[k] ELSE (g[k] - f[i]) + v}
<1>0. f2 \in [1..n -> Int] /\ \A k \in 1..n : f2[k] = IF k = i THEN v ELSE f[k]
  OBVIOUS
<1> HIDE DEF f2
<1>1. g[0] = 0 /\ \A k \in 1..n : g[k] = g[k - 1] + f[k]
  BY PartialSumsStep
<1>2. h[0] = 0 /\ \A k \in 1..n : h[k] = h[k - 1] + f2[k]
  BY <1>0, PartialSumsStep
<1> HIDE DEF g, h
<1>3. 0 \in S
  BY <1>1, <1>2
<1>4. ASSUME NEW m \in Nat, m \in S PROVE m + 1 \in S
  <2>1. CASE m + 1 <= n
    <3>1. /\ m + 1 \in 1..n /\ (m + 1) - 1 = m /\ g[m] \in Int
          /\ h[m] = IF m < i THEN g[m] ELSE (g[m] - f[i]) + v
      BY <2>1, <1>4
    <3>2. g[m + 1] = g[m] + f[m + 1] /\ h[m + 1] = h[m] + f2[m + 1]
      BY <3>1, <1>1, <1>2
    <3>3. f[m + 1] \in Int /\ f[i] \in Int
      BY <3>1
    <3>4. g[m + 1] \in Int
      BY <3>1, <3>2, <3>3
    <3>5. CASE m + 1 = i
      <4>1. h[m + 1] = g[m] + v /\ g[m + 1] = g[m] + f[i]
        BY <3>1, <3>2, <3>5, <1>0
      <4>2. h[m + 1] = (g[m + 1] - f[i]) + v
        BY <4>1, <3>1, <3>3
      <4>3. QED
        BY <4>2, <3>4, <3>5
    <3>6. CASE m + 1 # i
      <4>1. f2[m + 1] = f[m + 1] /\ (m < i <=> m + 1 < i)
        BY <3>1, <3>6, <1>0
      <4>2. h[m + 1] = IF m + 1 < i THEN g[m + 1] ELSE (g[m + 1] - f[i]) + v
        BY <4>1, <3>1, <3>2, <3>3
      <4>3. QED
        BY <4>2, <3>4
    <3>7. QED
      BY <3>5, <3>6
  <2>2. CASE ~(m + 1 <= n)
    BY <2>2
  <2>3. QED
    BY <2>1, <2>2
<1>5. ASSUME NEW k \in 0..n PROVE k \in S
  <2> HIDE DEF S
  <2>1. Nat \subseteq S
    BY <1>3, <1>4, NatSetInduction
  <2>2. QED
    BY <2>1
<1>6. \A k \in 0..n : h[k] = IF k < i THEN g[k] ELSE (g[k] - f[i]) + v
  BY <1>5
<1>7. QED
  BY <1>6 DEF g, h, f2

\* The total of a table of naturals is a natural.
THEOREM TotalNat ==
    ASSUME NEW n \in Nat, NEW f \in [1..n -> Nat]
    PROVE  Total(f, n) \in Nat
BY PartialSumsNat DEF Total

\* What replacing one entry does to the total: the law every reservation and
\* every settlement of the ledger rests on.
THEOREM TotalUpdate ==
    ASSUME NEW n \in Nat, NEW f \in [1..n -> Nat], NEW i \in 1..n, NEW v \in Nat
    PROVE  Total([f EXCEPT ![i] = v], n) = (Total(f, n) - f[i]) + v
<1>1. f \in [1..n -> Int] /\ v \in Int /\ n \in 0..n /\ ~(n < i)
  OBVIOUS
<1>2. \A k \in 0..n :
        PartialSums([f EXCEPT ![i] = v], n)[k]
          = IF k < i THEN PartialSums(f, n)[k] ELSE (PartialSums(f, n)[k] - f[i]) + v
  BY <1>1, PartialSumsUpdate
<1>3. QED
  BY <1>1, <1>2 DEF Total

\* An entry never exceeds the total.
THEOREM EntryAtMostTotal ==
    ASSUME NEW n \in Nat, NEW f \in [1..n -> Nat], NEW i \in 1..n
    PROVE  f[i] <= Total(f, n)
<1> DEFINE g == [f EXCEPT ![i] = 0]
<1>1. g \in [1..n -> Nat]
  OBVIOUS
<1>2. Total(g, n) = (Total(f, n) - f[i]) + 0
  BY TotalUpdate
<1>3. Total(g, n) \in Nat /\ Total(f, n) \in Nat /\ f[i] \in Nat
  BY <1>1, TotalNat
<1> HIDE DEF g
<1>4. QED
  BY <1>2, <1>3

\* The total of a table of zeros.
THEOREM ZeroTotal ==
    ASSUME NEW n \in Nat
    PROVE  Total([i \in 1..n |-> 0], n) = 0
<1> DEFINE f == [i \in 1..n |-> 0]
           g == PartialSums(f, n)
           S == {k \in Nat : k <= n => g[k] = 0}
<1>0. f \in [1..n -> Int] /\ \A k \in 1..n : f[k] = 0
  OBVIOUS
<1> HIDE DEF f
<1>1. g[0] = 0 /\ \A k \in 1..n : g[k] = g[k - 1] + f[k]
  BY <1>0, PartialSumsStep
<1> HIDE DEF g
<1>2. 0 \in S
  BY <1>1
<1>3. ASSUME NEW m \in Nat, m \in S PROVE m + 1 \in S
  <2>1. CASE m + 1 <= n
    <3>1. m + 1 \in 1..n /\ (m + 1) - 1 = m /\ g[m] = 0
      BY <2>1, <1>3
    <3>2. g[m + 1] = 0
      BY <3>1, <1>0, <1>1
    <3>3. QED
      BY <3>2
  <2>2. CASE ~(m + 1 <= n)
    BY <2>2
  <2>3. QED
    BY <2>1, <2>2
<1>4. Nat \subseteq S
  <2> HIDE DEF S
  <2>1. QED
    BY <1>2, <1>3, NatSetInduction
<1>5. g[n] = 0
  BY <1>4
<1>6. QED
  BY <1>5 DEF Total, g, f

\* Totals are monotone: a table that is nowhere above another sums to no more.
THEOREM TotalMono ==
    ASSUME NEW n \in Nat, NEW f \in [1..n -> Nat], NEW g \in [1..n -> Nat],
           \A k \in 1..n : f[k] <= g[k]
    PROVE  Total(f, n) <= Total(g, n)
<1> DEFINE F == PartialSums(f, n)
           G == PartialSums(g, n)
           S == {k \in Nat : k <= n => F[k] <= G[k]}
<1>0. /\ \A k \in 0..n : F[k] \in Nat /\ G[k] \in Nat
      /\ F[0] = 0 /\ \A k \in 1..n : F[k] = F[k - 1] + f[k]
      /\ G[0] = 0 /\ \A k \in 1..n : G[k] = G[k - 1] + g[k]
  <2>1. f \in [1..n -> Int] /\ g \in [1..n -> Int]
    OBVIOUS
  <2>2. QED
    BY <2>1, PartialSumsNat, PartialSumsStep
<1> HIDE DEF F, G
<1>1. 0 \in S
  BY <1>0
<1>2. ASSUME NEW m \in Nat, m \in S PROVE m + 1 \in S
  <2>1. CASE m + 1 <= n
    <3>1. m + 1 \in 1..n /\ (m + 1) - 1 = m /\ m \in 0..n /\ F[m] <= G[m]
      BY <2>1, <1>2
    <3>2. F[m + 1] = F[m] + f[m + 1] /\ G[m + 1] = G[m] + g[m + 1]
      BY <3>1, <1>0
    <3>3. f[m + 1] <= g[m + 1] /\ f[m + 1] \in Nat /\ g[m + 1] \in Nat
      BY <3>1
    <3>4. QED
      BY <3>1, <3>2, <3>3, <1>0
  <2>2. CASE ~(m + 1 <= n)
    BY <2>2
  <2>3. QED
    BY <2>1, <2>2
<1>3. n \in S
  <2> HIDE DEF S
  <2>1. QED
    BY <1>1, <1>2, NatSetInduction
<1>4. QED
  BY <1>3 DEF Total, F, G
=============================================================================
