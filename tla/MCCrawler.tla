----------------------------- MODULE MCCrawler -----------------------------
(* Crawler on one peer, a dialer and up to two connections for TLC. *)
EXTENDS Crawler, TLC

CONSTANTS p, c1, c2, d1, d2, w

\* Connection slots are alike, and so are discovery goroutines; only the safety
\* run uses it.
Symmetry == Permutations(Conns) \cup Permutations(Finders)
=============================================================================
