------------------------------- MODULE Totals -------------------------------
(***************************************************************************)
(* The sum of a finite table of amounts.  The budget code adds up          *)
(* dictionaries of dollar amounts (sum(self._outstanding.values())); the   *)
(* tables of this project are functions on 1..n, an absent key being 0.    *)
(***************************************************************************)
EXTENDS Integers

\* The partial sums of f, from S[0] = 0 to S[n] = f[1] + ... + f[n].
PartialSums(f, n) ==
    LET S[k \in 0..n] == IF k = 0 THEN 0 ELSE S[k - 1] + f[k]
    IN  S

\* The sum of the table f, whose keys are 1..n.
Total(f, n) == PartialSums(f, n)[n]
=============================================================================
