---------------------------- MODULE MCUnderwriting ----------------------------
(* Small instances of UnderwritingWorker. *)
EXTENDS UnderwritingWorker, TLC

CONSTANTS a1, a2, d1, d2, p1, p2, v1, v2

MCAttempts == {a1, a2}
MCDeals == {d1, d2}
OnePrint == {p1}
TwoPrints == {p1, p2}
\* The second report qualifies no deal.
TwoDealsSelected == [p \in Prints |-> IF p = p1 THEN <<d1, d2>> ELSE <<>>]
MCVariants == {v1, v2}
\* Attempts (with their nonces) and variants are interchangeable.
Symmetric == Permutations(MCAttempts) \cup Permutations(MCVariants)
OneDealSelected == [p \in Prints |-> <<d1>>]
=============================================================================
