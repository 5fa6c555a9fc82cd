------------------------------- MODULE MCAuth -------------------------------
(* Auth for TLC: two requests at once, two GitHub users. *)
EXTENDS Auth, TLC

CONSTANTS w1, w2, g1, g2

MCWorkers == {w1, w2}
MCIds == {g1, g2}
MCSymmetry == Permutations(MCWorkers) \cup Permutations(MCIds)
=============================================================================
