---------------------------- MODULE ServerManager ----------------------------
(***************************************************************************)
(* The lifecycle of one server instance: ServerManager and the pseudo-     *)
(* terminal it drives.  The panel is one Node.js process, so the           *)
(* interleaving is that of its event loop.  A coroutine (an HTTP or        *)
(* WebSocket request, or the crash restart) runs without interruption up   *)
(* to its next await, and the promise continuations that an event makes    *)
(* ready run before the next timer, I/O completion or exit event.          *)
(*                                                                         *)
(* One server id is modelled: entries of different ids share no state.     *)
(* The id may be deleted and created again, and closures keep the entry    *)
(* object they captured, so entries have identities of their own.          *)
(***************************************************************************)
EXTENDS FiniteSets, Naturals, PtyManager

CONSTANTS
  Requests,          \* coroutines of requests that may be in flight at once
  Restarter,         \* the coroutine of the crash restart
  Kinds,             \* the kinds of request that are issued
  Entries,           \* identities of RuntimeServerState objects
  MaxCrashTimers,    \* bound: crash timers pending at once
  MaxCommandTimers   \* bound: start-command timers pending at once

Hooked == {"mod_apply", "ldm_apply", "modpack_apply"}
OpKinds == {"start", "stop", "restart"} \cup Hooked
AllKinds == OpKinds \cup {"remove", "create", "configure", "close", "force"}

ASSUME ConstantsAssumption ==
  /\ Restarter \notin Requests
  /\ Kinds \subseteq AllKinds
  /\ None \notin Entries
  /\ MaxCrashTimers \in Nat /\ MaxCommandTimers \in Nat

VARIABLES
  \* the Map of the manager and what is on disk
  servers,        \* the entry the Map holds for the id, or None
  onDisk,         \* Commands.dat of the id exists
  savedCommand,   \* startCommand in the settings table
  \* fields of the entry objects
  state, op, stopRequested,
  sessionEpoch,   \* the spawn the entry last made (the counter, as an identity)
  terminal,       \* terminalSessionId and ptyPid: the bash they name
  command,        \* config.startCommand
  \* closures, timers and the other stores
  exitOwner,      \* the entry captured by the exit callback of the live bash
  crashTimers,    \* number of pending CRASH_RESTART_DELAY timers
  commandTimers,  \* pending START_COMMAND_DELAY timers
  session,        \* the record of the SessionManager for the id
  incident,       \* the kind of the last incident recorded for the id
  \* the coroutines
  job

diskVars  == <<servers, onDisk, savedCommand>>
entryVars == <<state, op, stopRequested, sessionEpoch, terminal, command>>
timerVars == <<crashTimers, commandTimers>>
logVars   == <<session, incident>>
vars == <<ptyVars, diskVars, entryVars, exitOwner, timerVars, logVars, job>>

States   == {"STOPPED", "STARTING", "RUNNING", "STOPPING"}
Commands == {"none", "detected", "custom"}
Procs    == Requests \cup {Restarter}

(* The activeOperation type that a kind of request takes. *)
OpOf(k) ==
  CASE k = "start"   -> "manual_start"
    [] k = "stop"    -> "manual_stop"
    [] k = "restart" -> "manual_restart"
    [] OTHER         -> k
Ops == {"none", "manual_start", "manual_stop", "manual_restart"} \cup Hooked

(* The hooks each caller of applyChangesCore passes.  That of ldm_apply    *)
(* before the stop only returns, in the same turn of the event loop.       *)
(* modpack_apply has no caller yet: all three hooks of the contract.       *)
HooksOf(k) ==
  CASE k = "mod_apply"     -> {"preStart"}
    [] k = "ldm_apply"     -> {"postStart"}
    [] k = "modpack_apply" -> {"preStop", "preStart", "postStart"}
    [] OTHER               -> {}

(***************************************************************************)
(* A coroutine: the await or the code it is at, the kind of request, the   *)
(* entry its operation captured, the entry startPty or waitForState        *)
(* captured, the bash it waits for, the command value it carries.          *)
(***************************************************************************)
Waits == {"waitExit", "waitKill", "close"}
Pcs == Waits \cup
  {"idle", "build", "spawn", "preStop", "halt", "preStart", "boot",
   "waitRun", "postStart", "rm", "mkdir", "write"}

Coroutine(pc, k, e, b, c) ==
  [pc |-> pc, kind |-> k, entry |-> e, target |-> e, waits |-> b, draft |-> c]
Idle == Coroutine("idle", "none", None, None, "none")
Jobs == [pc : Pcs, kind : AllKinds \cup {"none", "crash"},
         entry : Entries \cup {None}, target : Entries \cup {None},
         waits : Bash \cup {None}, draft : Commands]

Timers == [entry : Entries, epoch : Bash]

(* The incident a transition to `to` of an entry in `from` records. *)
Recorded(from, to, asked) ==
  CASE from = to -> incident
    [] to \in {"STARTING", "RUNNING"} /\ from # to -> "start"
    [] to = "STOPPED" /\ from \in {"STARTING", "RUNNING"} ->
         IF asked THEN "stop" ELSE "crash"
    [] OTHER -> incident

(* transition(): a no-op when the id has no entry or is in that state.     *)
(* Actions that change stopRequested set it first.                         *)
Transition(to) ==
  IF servers = None
  THEN UNCHANGED <<state, incident>>
  ELSE /\ state' = [state EXCEPT ![servers] = to]
       /\ incident' = Recorded(state[servers], to, stopRequested'[servers])

(***************************************************************************)
(* Identities nobody refers to any more.                                   *)
(***************************************************************************)
FreeBash == Bash \ ({bash} \cup {job[p].waits : p \in Procs}
                           \cup {t.epoch : t \in commandTimers})
FreeEntries == Entries \ ({servers, exitOwner}
                 \cup {job[p].entry : p \in Procs}
                 \cup {job[p].target : p \in Procs}
                 \cup {t.entry : t \in commandTimers})

(* The two fields of an entry that name its bash, and its spawn counter.   *)
(* Mutants: the fields are kept; those of the entry in the Map are cleared *)
(* instead of those of the captured one; the counter does not advance.     *)
KeepTerminal(e)      == UNCHANGED terminal
ForgetMapTerminal(e) == terminal' = [terminal EXCEPT ![servers] = None]
KeepEpoch(e, b)      == UNCHANGED sessionEpoch
ForgetTerminal(e) == terminal' = [terminal EXCEPT ![e] = None]
NextEpoch(e, b)   == sessionEpoch' = [sessionEpoch EXCEPT ![e] = b]

(* setSessionActive(id, false): nothing without a record.  Mutant: it is   *)
(* not called.                                                             *)
KeepSession == UNCHANGED session
Deactivate  == session' = IF session = "active" THEN "inactive" ELSE session

(***************************************************************************)
(* A coroutine is ready when it is running code between two awaits, or     *)
(* awaits the exit of a bash that has gone.  Nothing else happens before   *)
(* the ready coroutines have run (Quiet).                                  *)
(***************************************************************************)
Ready(p) == \/ job[p].pc \in {"halt", "boot", "spawn"}
            \/ job[p].pc \in Waits /\ job[p].waits # bash
Quiet == \A p \in Procs : ~Ready(p)

Goto(p, pc) == job' = [job EXCEPT ![p].pc = pc]
Enter(p, pc, k, e) ==
  job' = [job EXCEPT ![p] = Coroutine(pc, k, e, None, "none")]
(* `finally` gives the operation of the captured entry back.  Mutant: it   *)
(* looks the id up in the Map again.                                       *)
ReleaseInMap(p) ==
  op' = IF job[p].kind \in OpKinds
        THEN [op EXCEPT ![servers] = "none"]
        ELSE op
Release(p) ==
  op' = IF job[p].kind \in OpKinds
        THEN [op EXCEPT ![job[p].entry] = "none"]
        ELSE op

(* The coroutine returns or throws. *)
Finish(p) == /\ Release(p)
             /\ job' = [job EXCEPT ![p] = Idle]

(* A request arrives; one that needs the operation finds it free and takes *)
(* it in the same turn.  Mutants: it does not look; it stores its own name.*)
Accept(r, k) == Quiet /\ k \in Kinds /\ job[r] = Idle
FreeUnchecked(r, k) == Accept(r, k) /\ servers # None
AcquireKind(k) == op' = [op EXCEPT ![servers] = k]
Free(r, k)   == Accept(r, k) /\ servers # None /\ op[servers] = "none"
Acquire(k)   == op' = [op EXCEPT ![servers] = OpOf(k)]

(***************************************************************************)
(* Requests that take the activeOperation of the entry.                    *)
(***************************************************************************)
(* start: RUNNING and STARTING answer at once with the session there is.   *)
RequestStart(r) ==
  /\ Free(r, "start")
  /\ state[servers] \notin {"RUNNING", "STARTING"}
  /\ Acquire("start")
  /\ Enter(r, IF command[servers] = "none" THEN "build" ELSE "spawn",
           "start", servers)
  /\ UNCHANGED <<stopRequested, sessionEpoch, terminal, command>>
  /\ Transition("STARTING")
  /\ UNCHANGED <<ptyVars, diskVars, exitOwner, timerVars, session>>

RequestStop(r) ==
  /\ Free(r, "stop")
  /\ state[servers] # "STOPPED"
  /\ Acquire("stop")
  /\ Enter(r, "halt", "stop", servers)
  /\ UNCHANGED <<stopRequested, sessionEpoch, terminal, command>>
  /\ Transition("STOPPING")
  /\ UNCHANGED <<ptyVars, diskVars, exitOwner, timerVars, session>>

(* restart: no condition on the state, unlike applyChangesCore. *)
RequestRestart(r) ==
  /\ Free(r, "restart")
  /\ Acquire("restart")
  /\ Enter(r, "halt", "restart", servers)
  /\ UNCHANGED <<stopRequested, sessionEpoch, terminal, command>>
  /\ Transition("STOPPING")
  /\ UNCHANGED <<ptyVars, diskVars, exitOwner, timerVars, session>>

(* applyChangesCore, up to its hook before the stop or to stopInternal. *)
RequestApply(r, k) ==
  /\ Free(r, k)
  /\ state[servers] = "RUNNING"
  /\ Acquire(k)
  /\ UNCHANGED <<stopRequested, sessionEpoch, terminal, command>>
  /\ IF "preStop" \in HooksOf(k)
     THEN Enter(r, "preStop", k, servers) /\ UNCHANGED <<state, incident>>
     ELSE Enter(r, "halt", k, servers) /\ Transition("STOPPING")
  /\ UNCHANGED <<ptyVars, diskVars, exitOwner, timerVars, session>>

(* The coroutine ends here and changes nothing but its operation. *)
Return(p) ==
  /\ Finish(p)
  /\ UNCHANGED <<ptyVars, diskVars, exitOwner, timerVars, logVars, state,
                 stopRequested, sessionEpoch, terminal, command>>

PreStopDone(p) ==
  /\ Quiet /\ job[p].pc = "preStop"
  /\ Goto(p, "halt")
  /\ UNCHANGED <<op, stopRequested, sessionEpoch, terminal, command>>
  /\ Transition("STOPPING")
  /\ UNCHANGED <<ptyVars, diskVars, exitOwner, timerVars, session>>

HookFails(p) ==
  /\ Quiet /\ job[p].pc \in {"preStop", "preStart"}
  /\ Return(p)

(***************************************************************************)
(* stopPty, as stop, stopInternal and removeServer run it.  The writes of  *)
(* ctrl-c and exit throw when there is no bash; what the bash makes of the *)
(* bytes is its own affair (BashExit).                                     *)
(***************************************************************************)
Halt(p) ==
  /\ job[p].pc = "halt" /\ servers # None /\ isRunning
  /\ stopRequested' = [stopRequested EXCEPT ![servers] = TRUE]
  /\ job' = [job EXCEPT ![p].pc = "waitExit", ![p].waits = bash]
  /\ UNCHANGED <<ptyVars, diskVars, exitOwner, timerVars, logVars, state, op,
                 sessionEpoch, terminal, command>>

HaltThrows(p) ==
  /\ job[p].pc = "halt" /\ (servers = None \/ ~isRunning)
  /\ stopRequested' = IF servers = None THEN stopRequested
                      ELSE [stopRequested EXCEPT ![servers] = TRUE]
  /\ Finish(p)
  /\ UNCHANGED <<ptyVars, diskVars, exitOwner, timerVars, logVars, state,
                 sessionEpoch, terminal, command>>

(* 30 s without an exit event: SIGKILL, and 2 s more.  Mutant: only stop   *)
(* has the 30 s.                                                           *)
StopOverdue(p) == Quiet /\ job[p].pc = "waitExit" /\ job[p].kind = "stop"
ExitOverdue(p) == Quiet /\ job[p].pc = "waitExit"

ExitTimeout(p) ==
  /\ ExitOverdue(p)
  /\ ForceKill
  /\ Goto(p, "waitKill")
  /\ UNCHANGED <<diskVars, entryVars, exitOwner, timerVars, logVars>>

(* stopPty has returned: STOPPED, then what the caller does next. *)
Halted(p) ==
  /\ \/ job[p].pc \in {"waitExit", "waitKill"} /\ Ready(p)
     \/ job[p].pc = "waitKill" /\ Quiet                \* the 2 s are over
  /\ UNCHANGED <<stopRequested, sessionEpoch, terminal, command>>
  /\ Transition("STOPPED")
  /\ CASE job[p].kind = "stop" -> Finish(p)
       [] job[p].kind = "remove" -> Goto(p, "rm") /\ UNCHANGED op
       [] servers = None -> Finish(p)                   \* server-not-found
       [] "preStart" \in HooksOf(job[p].kind) ->
            Goto(p, "preStart") /\ UNCHANGED op
       [] OTHER -> Goto(p, "boot") /\ UNCHANGED op
  /\ UNCHANGED <<ptyVars, diskVars, exitOwner, timerVars, session>>

(***************************************************************************)
(* startInternal and startPty.                                             *)
(***************************************************************************)
PreStartDone(p) ==
  /\ Quiet /\ job[p].pc = "preStart"
  /\ Goto(p, "boot")
  /\ UNCHANGED <<ptyVars, diskVars, entryVars, exitOwner, timerVars, logVars>>

(* After the hook: STARTING, then startPty captures the entry of the Map   *)
(* and looks for a command.                                                *)
Boot(p) ==
  /\ job[p].pc = "boot" /\ servers # None
  /\ UNCHANGED <<op, stopRequested, sessionEpoch, terminal, command>>
  /\ Transition("STARTING")
  /\ job' = [job EXCEPT
       ![p].pc = IF command[servers] = "none" THEN "build" ELSE "spawn",
       ![p].target = servers]
  /\ UNCHANGED <<ptyVars, diskVars, exitOwner, timerVars, session>>

BootThrows(p) ==
  /\ job[p].pc = "boot" /\ servers = None
  /\ Return(p)

(* buildStartCommand found the script and made it executable. *)
BuildDone(p) ==
  /\ Quiet /\ job[p].pc = "build"
  /\ command' = [command EXCEPT ![job[p].target] = "detected"]
  /\ Goto(p, "spawn")
  /\ UNCHANGED <<ptyVars, diskVars, exitOwner, timerVars, logVars, state, op,
                 stopRequested, sessionEpoch, terminal>>

(* startPty returns: applyChangesCore goes on to wait for RUNNING. *)
Started(p) ==
  IF job[p].kind \in Hooked /\ servers # None
  THEN /\ job' = [job EXCEPT ![p].pc = "waitRun", ![p].target = servers]
       /\ UNCHANGED op
  ELSE Finish(p)

(* startPty throws.  start() cleans up; the other callers only return.     *)
StartThrows(p) ==
  IF job[p].kind # "start"
  THEN Return(p)
  ELSE LET e == job[p].entry IN
       /\ stopRequested' = [stopRequested EXCEPT ![e] = TRUE]
       /\ ForceKill
       /\ ForgetTerminal(e)
       /\ Transition("STOPPED")
       /\ session' = "absent"
       /\ Finish(p)
       /\ UNCHANGED <<diskVars, exitOwner, timerVars, sessionEpoch, command>>

BuildFails(p) ==
  /\ Quiet /\ job[p].pc = "build"
  /\ StartThrows(p)

(* A bash is still there: no spawn, the command is written into it.        *)
ReuseBash(p) ==
  /\ job[p].pc = "spawn" /\ isRunning
  /\ stopRequested' = [stopRequested EXCEPT ![job[p].target] = FALSE]
  /\ Transition("RUNNING")
  /\ Started(p)
  /\ UNCHANGED <<ptyVars, diskVars, exitOwner, timerVars, session,
                 sessionEpoch, terminal, command>>

(* A new bash: the session is saved, the exit callback and the             *)
(* start-command timer capture the entry and the epoch.  stopRequested     *)
(* keeps the value it has.                                                 *)
SpawnBash(p) ==
  /\ job[p].pc = "spawn"
  /\ \E b \in FreeBash :
       /\ Spawn(b)
       /\ terminal' = [terminal EXCEPT ![job[p].target] = b]
       /\ NextEpoch(job[p].target, b)
       /\ commandTimers' = commandTimers
                             \cup {[entry |-> job[p].target, epoch |-> b]}
  /\ exitOwner' = job[p].target
  /\ session' = "active"
  /\ Started(p)
  /\ UNCHANGED <<diskVars, crashTimers, incident, state, stopRequested,
                 command>>

(* node-pty cannot fork: pty-spawn-failed. *)
SpawnFails(p) ==
  /\ job[p].pc = "spawn" /\ ~isRunning
  /\ StartThrows(p)

(* waitForState polls every 100 ms and gives up after 15 s.               *)
WaitRunDone(p) ==
  /\ Quiet /\ job[p].pc = "waitRun"
  /\ IF "postStart" \in HooksOf(job[p].kind)
     THEN Goto(p, "postStart") /\ UNCHANGED op
     ELSE Finish(p)
  /\ UNCHANGED <<ptyVars, diskVars, exitOwner, timerVars, logVars, state,
                 stopRequested, sessionEpoch, terminal, command>>

(* The hook after the start has returned or thrown; a throw is logged.     *)
PostStartDone(p) ==
  /\ Quiet /\ job[p].pc = "postStart"
  /\ Return(p)

(***************************************************************************)
(* Timers and events of the pseudo-terminal.                               *)
(***************************************************************************)
(* START_COMMAND_DELAY after a spawn.  The three checks, then RUNNING.     *)
(* Mutant: the epoch is not compared.                                      *)
TimerFiresAnyEpoch(t) == state[t.entry] = "STARTING" /\ isRunning
TimerFires(t) == /\ sessionEpoch[t.entry] = t.epoch
                 /\ state[t.entry] = "STARTING"
                 /\ isRunning

CommandTimer(t) ==
  /\ Quiet
  /\ commandTimers' = commandTimers \ {t}
  /\ UNCHANGED <<op, stopRequested, sessionEpoch, terminal, command>>
  /\ IF TimerFires(t)
     THEN Transition("RUNNING")
     ELSE UNCHANGED <<state, incident>>
  /\ UNCHANGED <<ptyVars, diskVars, exitOwner, crashTimers, session, job>>

(* CRASH_RESTART_DELAY after a crash: startInternal, unless the id has no  *)
(* entry or is RUNNING.  It takes no activeOperation.  Mutant: it gives up *)
(* when one is taken.                                                      *)
RestartDueIfFree ==
  servers # None /\ state[servers] # "RUNNING" /\ op[servers] = "none"
RestartDue == servers # None /\ state[servers] # "RUNNING"

CrashTimer ==
  /\ Quiet
  /\ crashTimers > 0 /\ job[Restarter] = Idle
  /\ crashTimers' = crashTimers - 1
  /\ IF RestartDue
     THEN Enter(Restarter, "boot", "crash", servers)
     ELSE UNCHANGED job
  /\ UNCHANGED <<ptyVars, diskVars, entryVars, exitOwner, commandTimers,
                 logVars>>

(* scheduleCrashRestart reads the entry of the Map and its operation.      *)
(* Mutant: not the operation.                                              *)
RestartsAfterAny(failed) == servers # None /\ failed
RestartsAfter(failed) ==
  /\ servers # None
  /\ failed
  /\ op[servers] \notin {"manual_stop", "manual_restart"}

(* The exit event.  An unfinished last line goes to the callbacks first    *)
(* (tail: it is a ready line), then the exit callback of startPty runs,    *)
(* and after it the lines still buffered are flushed: a ready line among   *)
(* them turns the STOPPED entry RUNNING.                                   *)
BashExit(failed, tail) ==
  /\ Quiet /\ Exit
  /\ Cardinality(commandTimers) < MaxCommandTimers
  /\ stopRequested' = [stopRequested EXCEPT ![exitOwner] = FALSE]
  /\ ForgetTerminal(exitOwner)
  /\ IF ~stopRequested[exitOwner] /\ RestartsAfter(failed)
     THEN crashTimers < MaxCrashTimers /\ crashTimers' = crashTimers + 1
     ELSE UNCHANGED crashTimers
  /\ IF servers = None THEN UNCHANGED <<state, incident>>
     ELSE LET from == IF tail THEN "RUNNING" ELSE state[servers] IN
          /\ state' = [state EXCEPT
                          ![servers] = IF buffered THEN "RUNNING" ELSE "STOPPED"]
          /\ incident' = IF buffered THEN "start"
                          ELSE Recorded(from, "STOPPED", stopRequested'[servers])
  /\ Deactivate
  /\ exitOwner' = None
  /\ UNCHANGED <<diskVars, commandTimers, op, sessionEpoch, command, job>>

PrintReady ==
  /\ Quiet /\ PrintLine
  /\ UNCHANGED <<diskVars, entryVars, exitOwner, timerVars, logVars, job>>

(* pipePtyOutput: a ready line makes the entry RUNNING, whatever it was.   *)
FlushLines ==
  /\ Quiet /\ Flush
  /\ UNCHANGED <<op, stopRequested, sessionEpoch, terminal, command>>
  /\ Transition("RUNNING")
  /\ UNCHANGED <<diskVars, exitOwner, timerVars, session, job>>

(***************************************************************************)
(* Creating, configuring and deleting the instance.  None of the three     *)
(* looks at activeOperation or takes it.                                   *)
(***************************************************************************)
RequestRemove(r) ==
  /\ Accept(r, "remove")
  /\ UNCHANGED <<op, stopRequested, sessionEpoch, terminal, command>>
  /\ IF servers # None /\ state[servers] # "STOPPED"
     THEN Enter(r, "halt", "remove", None) /\ Transition("STOPPING")
     ELSE Enter(r, "rm", "remove", None) /\ UNCHANGED <<state, incident>>
  /\ UNCHANGED <<ptyVars, diskVars, exitOwner, timerVars, session>>

(* The directory is gone: the command, the session and the entry follow.   *)
RemoveDone(p) ==
  /\ Quiet /\ job[p].pc = "rm"
  /\ servers' = None
  /\ onDisk' = FALSE
  /\ savedCommand' = "none"
  /\ session' = "absent"
  /\ Finish(p)
  /\ UNCHANGED <<ptyVars, exitOwner, timerVars, incident, state,
                 stopRequested, sessionEpoch, terminal, command>>

(* createServer found no Commands.dat and starts to write one. *)
RequestCreate(r) ==
  /\ Accept(r, "create")
  /\ ~onDisk
  /\ \E c \in {"none", "custom"} :
       job' = [job EXCEPT ![r] = Coroutine("mkdir", "create", None, None, c)]
  /\ UNCHANGED <<ptyVars, diskVars, entryVars, exitOwner, timerVars, logVars>>

(* Commands.dat is written: a fresh entry takes the place of whatever the  *)
(* Map holds.                                                              *)
CreateDone(p) ==
  /\ Quiet /\ job[p].pc = "mkdir"
  /\ \E e \in FreeEntries :
       /\ servers' = e
       /\ state' = [state EXCEPT ![e] = "STOPPED"]
       /\ op' = [op EXCEPT ![e] = "none"]
       /\ stopRequested' = [stopRequested EXCEPT ![e] = FALSE]
       /\ sessionEpoch' = [sessionEpoch EXCEPT ![e] = None]
       /\ terminal' = [terminal EXCEPT ![e] = None]
       /\ command' = [command EXCEPT ![e] = job[p].draft]
  /\ onDisk' = TRUE
  /\ savedCommand' = IF job[p].draft = "custom" THEN "custom" ELSE savedCommand
  /\ job' = [job EXCEPT ![p] = Idle]
  /\ UNCHANGED <<ptyVars, exitOwner, timerVars, logVars>>

(* configureServer: a new startCommand is saved at once.  A change of name,*)
(* port or owner first awaits the rewrite of Commands.dat; the config of   *)
(* the entry is then replaced by the copy made before.                     *)
RequestConfigure(r) ==
  /\ Accept(r, "configure")
  /\ servers # None
  /\ \E patched, awaits \in BOOLEAN :
     LET c == IF patched THEN "custom" ELSE command[servers] IN
       /\ savedCommand' = IF patched THEN "custom" ELSE savedCommand
       /\ IF awaits
          THEN /\ job' = [job EXCEPT ![r] =
                    Coroutine("write", "configure", servers, None, c)]
               /\ UNCHANGED command
          ELSE /\ command' = [command EXCEPT ![servers] = c]
               /\ UNCHANGED job
  /\ UNCHANGED <<ptyVars, servers, onDisk, exitOwner, timerVars, logVars,
                 state, op, stopRequested, sessionEpoch, terminal>>

ConfigureDone(p) ==
  /\ Quiet /\ job[p].pc = "write"
  /\ command' = [command EXCEPT ![job[p].target] = job[p].draft]
  /\ job' = [job EXCEPT ![p] = Idle]
  /\ UNCHANGED <<ptyVars, diskVars, exitOwner, timerVars, logVars, state, op,
                 stopRequested, sessionEpoch, terminal>>

(* Commands.dat could not be read or written. *)
DiskFails(p) ==
  /\ Quiet /\ job[p].pc \in {"mkdir", "write"}
  /\ Return(p)

(***************************************************************************)
(* The terminal_close message and forceStop.                               *)
(***************************************************************************)
(* PtyManager.kill: SIGTERM, then SIGKILL if no exit event comes in 5 s.   *)
(* Neither stopRequested nor the operation is touched.                     *)
RequestClose(r) ==
  /\ Accept(r, "close") /\ isRunning
  /\ job' = [job EXCEPT ![r] = Coroutine("close", "close", None, bash, "none")]
  /\ UNCHANGED <<ptyVars, diskVars, entryVars, exitOwner, timerVars, logVars>>

CloseTimeout(p) ==
  /\ Quiet /\ job[p].pc = "close"
  /\ ForceKill
  /\ job' = [job EXCEPT ![p] = Idle]
  /\ UNCHANGED <<diskVars, entryVars, exitOwner, timerVars, logVars>>

Closed(p) ==
  /\ job[p].pc = "close" /\ Ready(p)
  /\ Return(p)

(* forceStop: no condition; it also clears an operation another request    *)
(* holds.  Part of the interface; no route calls it.                       *)
RequestForceStop(r) ==
  /\ Accept(r, "force") /\ servers # None
  /\ stopRequested' = [stopRequested EXCEPT ![servers] = TRUE]
  /\ ForceKill
  /\ op' = [op EXCEPT ![servers] = "none"]
  /\ Transition("STOPPED")
  /\ UNCHANGED <<diskVars, exitOwner, timerVars, session, job, sessionEpoch,
                 terminal, command>>

(***************************************************************************)
(* The specification.  loadServersFromDisk finds the instance on disk.     *)
(***************************************************************************)
Init ==
  /\ PtyInit
  /\ servers \in Entries
  /\ onDisk = TRUE
  /\ savedCommand \in {"none", "custom"}
  /\ state = [e \in Entries |-> "STOPPED"]
  /\ op = [e \in Entries |-> "none"]
  /\ stopRequested = [e \in Entries |-> FALSE]
  /\ sessionEpoch = [e \in Entries |-> None]
  /\ terminal = [e \in Entries |-> None]
  /\ command = [e \in Entries |-> IF e = servers THEN savedCommand ELSE "none"]
  /\ exitOwner = None
  /\ crashTimers = 0
  /\ commandTimers = {}
  /\ session = "absent"
  /\ incident = "none"
  /\ job = [p \in Procs |-> Idle]

Request(r) ==
  \/ RequestStart(r) \/ RequestStop(r) \/ RequestRestart(r)
  \/ \E k \in Hooked : RequestApply(r, k)
  \/ RequestRemove(r) \/ RequestCreate(r) \/ RequestConfigure(r)
  \/ RequestClose(r) \/ RequestForceStop(r)

Step(p) ==
  \/ PreStopDone(p) \/ HookFails(p) \/ Halt(p) \/ HaltThrows(p)
  \/ ExitTimeout(p) \/ Halted(p) \/ PreStartDone(p) \/ Boot(p)
  \/ BootThrows(p) \/ BuildDone(p) \/ BuildFails(p) \/ ReuseBash(p)
  \/ SpawnBash(p) \/ SpawnFails(p) \/ WaitRunDone(p) \/ PostStartDone(p)
  \/ RemoveDone(p) \/ CreateDone(p) \/ ConfigureDone(p) \/ DiskFails(p)
  \/ CloseTimeout(p) \/ Closed(p)

TerminalEvent ==
  \/ \E failed, tail \in BOOLEAN : BashExit(failed, tail)
  \/ PrintReady
  \/ FlushLines

Next ==
  \/ \E r \in Requests : Request(r)
  \/ \E p \in Procs : Step(p)
  \/ \E t \in commandTimers : CommandTimer(t)
  \/ CrashTimer
  \/ TerminalEvent

Spec == Init /\ [][Next]_vars

(***************************************************************************)
(* Fairness.  The event loop serves every timer, I/O completion and ready  *)
(* continuation in turn, however many requests keep arriving: strong       *)
(* fairness, because an arriving request makes the others wait (Quiet).    *)
(* The kernel delivers the exit of a bash that got SIGKILL.  Nothing is    *)
(* assumed of requests, of other exits or of output.                       *)
(***************************************************************************)
Fairness ==
  /\ \A p \in Procs : SF_vars(Step(p))
  /\ SF_vars(\E t \in commandTimers : CommandTimer(t))
  /\ SF_vars(CrashTimer)
  /\ SF_vars(FlushLines)
  /\ SF_vars(killed /\ \E failed, tail \in BOOLEAN : BashExit(failed, tail))

FairSpec == Spec /\ Fairness

(***************************************************************************)
(* Properties.                                                             *)
(***************************************************************************)
(* What the place a coroutine has reached says of what it carries. *)
JobShape(j) ==
  /\ j.pc = "idle" => j = Idle
  /\ j.kind \in OpKinds => j.entry \in Entries
  /\ j.pc \in {"build", "spawn", "waitRun", "write"} => j.target \in Entries
  /\ j.pc = "mkdir" => j.kind = "create"
  /\ j.pc = "rm" => j.kind = "remove"
  /\ j.pc = "write" => j.kind = "configure"
  /\ j.pc = "close" => j.kind = "close"

TypeOK ==
  /\ PtyTypeOK
  /\ servers \in Entries \cup {None}
  /\ onDisk \in BOOLEAN
  /\ savedCommand \in Commands
  /\ state \in [Entries -> States]
  /\ op \in [Entries -> Ops]
  /\ stopRequested \in [Entries -> BOOLEAN]
  /\ sessionEpoch \in [Entries -> Bash \cup {None}]
  /\ terminal \in [Entries -> Bash \cup {None}]
  /\ command \in [Entries -> Commands]
  /\ exitOwner \in Entries \cup {None}
  /\ crashTimers \in Nat
  /\ commandTimers \in SUBSET Timers
  /\ session \in {"absent", "active", "inactive"}
  /\ incident \in {"none", "start", "stop", "crash"}
  /\ job \in [Procs -> Jobs]
  /\ \A p \in Procs : JobShape(job[p])

(* A coroutine between taking the activeOperation of e and giving it back. *)
Holds(p, e) == job[p].kind \in OpKinds /\ job[p].entry = e

(* activeOperation is a lock: two requests never run an operation on the   *)
(* same instance at once, and the type the panel shows is that of the      *)
(* request which is running.  It is checked in one turn and given back in  *)
(* a finally, over every await of start, stop, restart and                 *)
(* applyChangesCore.                                                       *)
OperationExclusive ==
  \A e \in Entries :
    /\ \A p, q \in Procs : Holds(p, e) /\ Holds(q, e) => p = q
    /\ \A p \in Procs : Holds(p, e) => op[e] = OpOf(job[p].kind)
    /\ op[e] # "none" => \E p \in Procs : Holds(p, e)

(* Seen from the panel, activeOperation is the lock of OperationLock: a    *)
(* request takes it only when nobody holds it, and only its holder gives   *)
(* it back, whatever becomes of the entry in the Map meanwhile.            *)
Lock == INSTANCE OperationLock WITH
          Types <- Ops,
          holders <- [e \in Entries |-> {p \in Procs : Holds(p, e)}],
          shown <- op
ImplementsLock == Lock!Spec

(* terminalSessionId and ptyPid never name a bash that is gone: a start    *)
(* that finds the instance RUNNING or STARTING hands out a live terminal   *)
(* or none, although deleted entries, failed starts and late exit events   *)
(* all touch the two fields.                                               *)
TerminalIsLive ==
  \A e \in Entries :
    terminal[e] # None => terminal[e] = bash /\ exitOwner = e

(* A session the SessionManager has as active has a bash.                  *)
SessionIsLive == session = "active" => isRunning

(* An instance that shows STARTING over a live bash, with no coroutine     *)
(* left that could move it, has the timer pending that makes it RUNNING:   *)
(* the three checks of the timer never drop the one of the live bash.      *)
StartingWillRun ==
  (/\ servers # None /\ state[servers] = "STARTING" /\ isRunning
   /\ \A p \in Procs : job[p] = Idle)
  => [entry |-> servers, epoch |-> bash] \in commandTimers
       /\ sessionEpoch[servers] = bash

(* A start-command timer never writes into a bash other than the one it    *)
(* was armed for: the epoch check of startPty.                             *)
CommandTimerOwnsBash ==
  [][\A t \in commandTimers \ commandTimers' :
       state' # state => t.epoch = bash]_vars

(* The exit that a stop or a restart waits for is never taken for a crash. *)
AwaitedExitIsNoCrash ==
  [][(/\ isRunning /\ ~isRunning'
      /\ \E p \in Procs : /\ job[p].kind \in {"stop", "restart"}
                           /\ job[p].pc \in {"waitExit", "waitKill"})
     => crashTimers' = crashTimers]_vars

(* Every request gets its answer, whatever the bash does: each await of    *)
(* the manager has a timeout or is an I/O operation that completes.  With  *)
(* OperationExclusive: activeOperation is always given back.               *)
RequestsEnd == \A p \in Procs : job[p] # Idle ~> job[p] = Idle

(* A crash timer that is armed leads to a restart, unless the instance is  *)
(* deleted or shown as started by then.                                    *)
CrashRestartTried ==
  crashTimers > 0
    ~> \/ servers = None
       \/ state[servers] \in {"STARTING", "RUNNING"}
=============================================================================
