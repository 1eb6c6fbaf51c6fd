----------------------------- MODULE PtyManager -----------------------------
(***************************************************************************)
(* The pseudo-terminals of the panel, for one server id: the bash that     *)
(* PtyManager.processes holds under that id, whether a SIGKILL has been    *)
(* sent to it, and whether a line that matches U3DS_READY_PATTERNS waits   *)
(* in the 50 ms output buffer.  Other output lines change no state that    *)
(* the lifecycle reads, so one flag stands for the buffer.                 *)
(*                                                                         *)
(* A dead bash stays in the map until node-pty delivers its exit event:    *)
(* between a SIGKILL and that event isRunning still answers true.          *)
(*                                                                         *)
(* The module holds the state and the operations; ServerManager composes   *)
(* them with its own.                                                      *)
(***************************************************************************)

CONSTANTS
  Bash,   \* identities of spawned bash processes (recycled once forgotten)
  None    \* no process, no entry, no value

ASSUME NoneAssumption == None \notin Bash

VARIABLES
  bash,      \* processes.get(id): the live bash, or None
  killed,    \* SIGKILL was sent to it and its exit event has not come yet
  buffered   \* a ready line is in outputBuffers, not yet given to callbacks

ptyVars == <<bash, killed, buffered>>

PtyTypeOK ==
  /\ bash \in Bash \cup {None}
  /\ killed \in BOOLEAN
  /\ buffered \in BOOLEAN

PtyInit ==
  /\ bash = None
  /\ killed = FALSE
  /\ buffered = FALSE

isRunning == bash # None

(* spawn: refused while the map has an entry for the id. *)
Spawn(b) ==
  /\ ~isRunning
  /\ bash' = b
  /\ killed' = FALSE
  /\ buffered' = FALSE

(* forceKill: SIGKILL, and the buffered output is thrown away.  The map    *)
(* entry stays.  Without an entry it does nothing.                         *)
ForceKill ==
  /\ killed' = isRunning
  /\ buffered' = FALSE
  /\ UNCHANGED bash

(* The exit event: the entry goes, the buffers are flushed and cleared.    *)
Exit ==
  /\ isRunning
  /\ bash' = None
  /\ killed' = FALSE
  /\ buffered' = FALSE

(* A chunk that holds a complete ready line enters the buffer. *)
PrintLine ==
  /\ isRunning
  /\ buffered' = TRUE
  /\ UNCHANGED <<bash, killed>>

(* The 50 ms flush timer hands the buffered lines to the callbacks. *)
Flush ==
  /\ buffered
  /\ buffered' = FALSE
  /\ UNCHANGED <<bash, killed>>
=============================================================================
