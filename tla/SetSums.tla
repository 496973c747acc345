------------------------------- MODULE SetSums -------------------------------
(***************************************************************************)
(* Sums over finite sets: what loops over rows and SUM(...) compute.       *)
(***************************************************************************)
EXTENDS Naturals, FiniteSets, FiniteSetsExt

\* The weights W[x] of the members of S added up.
Total(W, S) == MapThenSumSet(LAMBDA x : W[x], S)

=============================================================================
