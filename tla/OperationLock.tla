---------------------------- MODULE OperationLock ----------------------------
(***************************************************************************)
(* What activeOperation promises the users of ServerManager: per entry, at *)
(* most one coroutine at a time is inside an operation, the type shown is  *)
(* that of the operation, and it goes when the operation ends.             *)
(***************************************************************************)
CONSTANTS Procs, Entries, Types

VARIABLES
  holders,   \* holders[e]: the coroutines inside an operation of e
  shown      \* shown[e]: activeOperation.type of e

vars == <<holders, shown>>

Init ==
  /\ holders = [e \in Entries |-> {}]
  /\ shown = [e \in Entries |-> "none"]

(* A coroutine inside no operation takes that of an entry nobody holds. *)
Take(p, e, k) ==
  /\ holders[e] = {}
  /\ \A d \in Entries : p \notin holders[d]
  /\ holders' = [holders EXCEPT ![e] = {p}]
  /\ shown' = [shown EXCEPT ![e] = k]

Give(p, e) ==
  /\ holders[e] = {p}
  /\ holders' = [holders EXCEPT ![e] = {}]
  /\ shown' = [shown EXCEPT ![e] = "none"]

Next == \E p \in Procs, e \in Entries :
          Give(p, e) \/ \E k \in Types \ {"none"} : Take(p, e, k)

Spec == Init /\ [][Next]_vars
=============================================================================
