------------------------------- MODULE MCMods -------------------------------
(* Small instances of Mods for TLC. *)
EXTENDS Mods, Acf

CONSTANTS c1, c2, m1, m2

OneClient  == {c1}
TwoClients == {c1, c2}
ClientSymmetry == Permutations(TwoClients)

OneMod  == {m1}
TwoMods == {m1, m2}

AllRequests == RequestKinds
Everything  == RequestKinds \cup {"cleanup"}
=============================================================================
