---------------------------- MODULE DownloadQueue ----------------------------
(***************************************************************************)
(* What SteamCmdManager promises of the downloads into one staging         *)
(* directory: they run one at a time, in the order they were asked for,    *)
(* and one that fails does not keep the next from its turn.                *)
(***************************************************************************)
CONSTANTS Jobs, Stagings

VARIABLES
  waiting,   \* waiting[d]: the downloads into d that are asked for, not over
  ahead,     \* ahead[j]: those into the same directory asked for before j
  running    \* running[d]: the downloads into d that have their turn

vars == <<waiting, ahead, running>>

Init ==
  /\ waiting = [d \in Stagings |-> {}]
  /\ ahead = [j \in Jobs |-> {}]
  /\ running = [d \in Stagings |-> {}]

Ask(j, d) ==
  /\ \A s \in Stagings : j \notin waiting[s]
  /\ waiting' = [waiting EXCEPT ![d] = @ \cup {j}]
  /\ ahead' = [ahead EXCEPT ![j] = waiting[d]]
  /\ UNCHANGED running

Run(j, d) ==
  /\ j \in waiting[d] /\ ahead[j] = {} /\ running[d] = {}
  /\ running' = [running EXCEPT ![d] = {j}]
  /\ UNCHANGED <<waiting, ahead>>

(* Completed or failed: the next one moves up either way. *)
End(j, d) ==
  /\ running[d] = {j}
  /\ running' = [running EXCEPT ![d] = {}]
  /\ waiting' = [waiting EXCEPT ![d] = @ \ {j}]
  /\ ahead' = [k \in Jobs |-> ahead[k] \ {j}]

Next == \E j \in Jobs, d \in Stagings : Ask(j, d) \/ Run(j, d) \/ End(j, d)

Spec == Init /\ [][Next]_vars
=============================================================================
