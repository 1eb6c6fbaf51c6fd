------------------------------ MODULE MCSteamCmd ------------------------------
(* A small instance of SteamCmd for TLC. *)
EXTENDS SteamCmd, ModsPageCheck, TLC

CONSTANTS j1, j2, j3, sA, sB

ThreeJobs   == {j1, j2, j3}
TwoStagings == {sA, sB}
=============================================================================
