----------------------------- MODULE MCConnection -----------------------------
(* A small instance of Connection for TLC. *)
EXTENDS Connection, DashboardCheck, TLC

CONSTANTS r1, r2, s1, s2

TwoRequests == {r1, r2}
TwoSockets  == {s1, s2}

Symmetry == Permutations(TwoRequests) \cup Permutations(TwoSockets)
=============================================================================
