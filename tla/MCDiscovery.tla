---------------------------- MODULE MCDiscovery ----------------------------
(* Model values for Discovery. *)
EXTENDS Discovery
CONSTANTS s1, s2, r1, r2, b1, b2
MCStarts == {s1, s2}
MCRuns == {r1, r2}
MCBootNodes == {b1, b2}
=============================================================================
