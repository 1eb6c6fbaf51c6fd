--------------------------- MODULE MCServerManager ---------------------------
(* Small instances of ServerManager for TLC. *)
EXTENDS ServerManager, StartCommandCheck, TLC

CONSTANTS r1, r2, e1, e2, b1, b2, b3

OneRequest  == {r1}
TwoRequests == {r1, r2}
OneEntry    == {e1}
TwoEntries  == {e1, e2}
TwoBash     == {b1, b2}
ThreeBash   == {b1, b2, b3}

(* The requests a run issues. *)
Lifecycle   == OpKinds \cup {"close", "remove"}
Registry    == {"start", "remove", "create"}
Everything  == Lifecycle \cup {"configure", "force"}

Symmetry == Permutations(Requests) \cup Permutations(Bash)
              \cup Permutations(Entries)
=============================================================================
