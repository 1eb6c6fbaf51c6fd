----------------------------- MODULE MCConsole -----------------------------
(* Small instances of Console for TLC. *)
EXTENDS Console

CONSTANTS r1, r2

TwoRequests == {r1, r2}
Symmetry == Permutations(TwoRequests)
=============================================================================
