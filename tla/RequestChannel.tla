---------------------------- MODULE RequestChannel ----------------------------
(***************************************************************************)
(* What request() promises of the three acknowledged console commands: the *)
(* panel carries a command out at most once, and a caller told that it     *)
(* went well or badly is told what the panel found.  A caller may give up  *)
(* at any time, before the panel has even seen the command; that stops     *)
(* nothing.                                                                *)
(***************************************************************************)
CONSTANT Requests

VARIABLES
  told,   \* what the caller knows: nothing yet, "ok", "failed", "gaveUp"
  done    \* what the panel did: nothing, "running", "ok", "failed", "lost"

vars == <<told, done>>

Init ==
  /\ told = [r \in Requests |-> "idle"]
  /\ done = [r \in Requests |-> "none"]

Ask(r) ==
  /\ told[r] = "idle"
  /\ told' = [told EXCEPT ![r] = "asked"]
  /\ UNCHANGED done

Start(r) ==
  /\ told[r] # "idle" /\ done[r] = "none"
  /\ done' = [done EXCEPT ![r] = "running"]
  /\ UNCHANGED told

End(r) ==
  /\ done[r] = "running"
  /\ \E res \in {"ok", "failed"} : done' = [done EXCEPT ![r] = res]
  /\ UNCHANGED told

(* The panel ends: what it was doing, and the answers it had not sent. *)
Lose(R) ==
  /\ \A r \in R : done[r] # "none"
  /\ done' = [r \in Requests |-> IF r \in R THEN "lost" ELSE done[r]]
  /\ UNCHANGED told

Tell(r) ==
  /\ told[r] = "asked" /\ done[r] \in {"ok", "failed"}
  /\ told' = [told EXCEPT ![r] = done[r]]
  /\ UNCHANGED done

(* A timeout, or a connection lost under several callers. *)
GiveUp(R) ==
  /\ \A r \in R : told[r] \in {"idle", "asked"}
  /\ told' = [r \in Requests |-> IF r \in R THEN "gaveUp" ELSE told[r]]
  /\ UNCHANGED done

Next ==
  \/ \E r \in Requests : Ask(r) \/ Start(r) \/ End(r) \/ Tell(r)
  \/ \E R \in SUBSET Requests : Lose(R) \/ GiveUp(R)

Spec == Init /\ [][Next]_vars
=============================================================================
