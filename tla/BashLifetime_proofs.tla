------------------------- MODULE BashLifetime_proofs -------------------------
(***************************************************************************)
(* What the entries, the session store and the timers know of the bash:    *)
(* the fields never outlive it, the epoch names it, and, as long as the    *)
(* instance is not created again, no timer reaches another one.            *)
(***************************************************************************)
EXTENDS ServerManager_proofs

(***************************************************************************)
(* The four things a step can do to the bash and to what names it.         *)
(***************************************************************************)
Kept ==
  /\ UNCHANGED <<bash, exitOwner, sessionEpoch>>
  /\ UNCHANGED terminal \/ \E e \in Entries : ForgetTerminal(e)
  /\ session' \in {session, "absent"}

Spawned ==
  \E e \in Entries, b \in Bash :
    /\ ~isRunning
    /\ bash' = b
    /\ exitOwner' = e
    /\ terminal' = [terminal EXCEPT ![e] = b]
    /\ sessionEpoch' = [sessionEpoch EXCEPT ![e] = b]

Exited ==
  /\ isRunning
  /\ bash' = None
  /\ exitOwner' = None
  /\ ForgetTerminal(exitOwner)
  /\ UNCHANGED sessionEpoch
  /\ session' # "active"

Replaced ==
  \E e \in FreeEntries :
    /\ UNCHANGED <<bash, exitOwner, session>>
    /\ ForgetTerminal(e)
    /\ sessionEpoch' = [sessionEpoch EXCEPT ![e] = None]

BashStep == Kept \/ Spawned \/ Exited \/ Replaced

(* Every step does one of them. *)
LEMMA BashNext ==
  ASSUME TypeOK, Next
  PROVE  BashStep
<1>1. ASSUME NEW r \in Requests, RequestStart(r) PROVE BashStep
  BY <1>1 DEF RequestStart, ptyVars, diskVars, entryVars, timerVars, logVars,
     BashStep, Kept
<1>2. ASSUME NEW r \in Requests, RequestStop(r) PROVE BashStep
  BY <1>2 DEF RequestStop, ptyVars, diskVars, entryVars, timerVars, logVars,
     BashStep, Kept
<1>3. ASSUME NEW r \in Requests, RequestRestart(r) PROVE BashStep
  BY <1>3 DEF RequestRestart, ptyVars, diskVars, entryVars, timerVars, logVars,
     BashStep, Kept
<1>4. ASSUME NEW r \in Requests, RequestRemove(r) PROVE BashStep
  BY <1>4 DEF RequestRemove, ptyVars, diskVars, entryVars, timerVars, logVars,
     BashStep, Kept
<1>5. ASSUME NEW r \in Requests, RequestCreate(r) PROVE BashStep
  BY <1>5 DEF RequestCreate, ptyVars, diskVars, entryVars, timerVars, logVars,
     BashStep, Kept
<1>6. ASSUME NEW r \in Requests, RequestConfigure(r) PROVE BashStep
  BY <1>6 DEF RequestConfigure, ptyVars, diskVars, entryVars, timerVars, logVars,
     BashStep, Kept
<1>7. ASSUME NEW r \in Requests, RequestClose(r) PROVE BashStep
  BY <1>7 DEF RequestClose, ptyVars, diskVars, entryVars, timerVars, logVars,
     BashStep, Kept
<1>8. ASSUME NEW r \in Requests, RequestForceStop(r) PROVE BashStep
  BY <1>8 DEF RequestForceStop, ForceKill, ptyVars, diskVars, entryVars, timerVars,
     logVars, BashStep, Kept
<1>9. ASSUME NEW r \in Requests, NEW k \in Hooked, RequestApply(r, k) PROVE BashStep
  BY <1>9 DEF RequestApply, ptyVars, diskVars, entryVars, timerVars, logVars,
     BashStep, Kept
<1>10. ASSUME NEW p \in Procs, PreStopDone(p) PROVE BashStep
  BY <1>10 DEF PreStopDone, ptyVars, diskVars, entryVars, timerVars, logVars,
     BashStep, Kept
<1>11. ASSUME NEW p \in Procs, HookFails(p) PROVE BashStep
  BY <1>11 DEF HookFails, Return, ptyVars, diskVars, entryVars, timerVars, logVars,
     BashStep, Kept
<1>12. ASSUME NEW p \in Procs, Halt(p) PROVE BashStep
  BY <1>12 DEF Halt, ptyVars, diskVars, entryVars, timerVars, logVars, BashStep, Kept
<1>13. ASSUME NEW p \in Procs, HaltThrows(p) PROVE BashStep
  BY <1>13 DEF HaltThrows, ptyVars, diskVars, entryVars, timerVars, logVars,
     BashStep, Kept
<1>14. ASSUME NEW p \in Procs, ExitTimeout(p) PROVE BashStep
  BY <1>14 DEF ExitTimeout, ForceKill, ptyVars, diskVars, entryVars, timerVars,
     logVars, BashStep, Kept
<1>15. ASSUME NEW p \in Procs, Halted(p) PROVE BashStep
  BY <1>15 DEF Halted, ptyVars, diskVars, entryVars, timerVars, logVars, BashStep, Kept
<1>16. ASSUME NEW p \in Procs, PreStartDone(p) PROVE BashStep
  BY <1>16 DEF PreStartDone, ptyVars, diskVars, entryVars, timerVars, logVars,
     BashStep, Kept
<1>17. ASSUME NEW p \in Procs, Boot(p) PROVE BashStep
  BY <1>17 DEF Boot, ptyVars, diskVars, entryVars, timerVars, logVars, BashStep, Kept
<1>18. ASSUME NEW p \in Procs, BootThrows(p) PROVE BashStep
  BY <1>18 DEF BootThrows, Return, ptyVars, diskVars, entryVars, timerVars, logVars,
     BashStep, Kept
<1>19. ASSUME NEW p \in Procs, BuildDone(p) PROVE BashStep
  BY <1>19 DEF BuildDone, ptyVars, diskVars, entryVars, timerVars, logVars,
     BashStep, Kept
<1>20. ASSUME NEW p \in Procs, BuildFails(p) PROVE BashStep
  BY <1>20 DEF BuildFails, StartThrows, Return, ForceKill, TypeOK, JobShape,
     OpKinds, ptyVars, diskVars, entryVars, timerVars, logVars, BashStep, Kept
<1>21. ASSUME NEW p \in Procs, ReuseBash(p) PROVE BashStep
  BY <1>21 DEF ReuseBash, ptyVars, diskVars, entryVars, timerVars, logVars,
     BashStep, Kept
<1>22. ASSUME NEW p \in Procs, SpawnBash(p) PROVE BashStep
  BY <1>22 DEF SpawnBash, Spawn, NextEpoch, FreeBash, TypeOK, JobShape, BashStep,
     Spawned
<1>23. ASSUME NEW p \in Procs, SpawnFails(p) PROVE BashStep
  BY <1>23 DEF SpawnFails, StartThrows, Return, ForceKill, TypeOK, JobShape,
     OpKinds, ptyVars, diskVars, entryVars, timerVars, logVars, BashStep, Kept
<1>24. ASSUME NEW p \in Procs, WaitRunDone(p) PROVE BashStep
  BY <1>24 DEF WaitRunDone, ptyVars, diskVars, entryVars, timerVars, logVars,
     BashStep, Kept
<1>25. ASSUME NEW p \in Procs, PostStartDone(p) PROVE BashStep
  BY <1>25 DEF PostStartDone, Return, ptyVars, diskVars, entryVars, timerVars,
     logVars, BashStep, Kept
<1>26. ASSUME NEW p \in Procs, RemoveDone(p) PROVE BashStep
  BY <1>26 DEF RemoveDone, ptyVars, diskVars, entryVars, timerVars, logVars,
     BashStep, Kept
<1>27. ASSUME NEW p \in Procs, CreateDone(p) PROVE BashStep
  BY <1>27 DEF CreateDone, ForgetTerminal, ptyVars, logVars, BashStep, Replaced
<1>28. ASSUME NEW p \in Procs, ConfigureDone(p) PROVE BashStep
  BY <1>28 DEF ConfigureDone, ptyVars, diskVars, entryVars, timerVars, logVars,
     BashStep, Kept
<1>29. ASSUME NEW p \in Procs, DiskFails(p) PROVE BashStep
  BY <1>29 DEF DiskFails, Return, ptyVars, diskVars, entryVars, timerVars, logVars,
     BashStep, Kept
<1>30. ASSUME NEW p \in Procs, CloseTimeout(p) PROVE BashStep
  BY <1>30 DEF CloseTimeout, ForceKill, ptyVars, diskVars, entryVars, timerVars,
     logVars, BashStep, Kept
<1>31. ASSUME NEW p \in Procs, Closed(p) PROVE BashStep
  BY <1>31 DEF Closed, Return, ptyVars, diskVars, entryVars, timerVars, logVars,
     BashStep, Kept
<1>32. ASSUME NEW t \in commandTimers, CommandTimer(t) PROVE BashStep
  BY <1>32 DEF CommandTimer, ptyVars, diskVars, entryVars, timerVars, logVars,
     BashStep, Kept
<1>33. CASE CrashTimer
  BY <1>33 DEF CrashTimer, ptyVars, diskVars, entryVars, timerVars, logVars,
     BashStep, Kept
<1>34. ASSUME NEW failed \in BOOLEAN, NEW tail \in BOOLEAN, BashExit(failed, tail) PROVE BashStep
  BY <1>34 DEF BashExit, Exit, Deactivate, BashStep, Exited
<1>35. CASE PrintReady
  BY <1>35 DEF PrintReady, PrintLine, ptyVars, diskVars, entryVars, timerVars,
     logVars, BashStep, Kept
<1>36. CASE FlushLines
  BY <1>36 DEF FlushLines, Flush, ptyVars, diskVars, entryVars, timerVars, logVars,
     BashStep, Kept
<1> QED
  BY Zenon, <1>1, <1>2, <1>3, <1>4, <1>5, <1>6, <1>7, <1>8, <1>9, <1>10, <1>11,
     <1>12, <1>13, <1>14, <1>15, <1>16, <1>17, <1>18, <1>19, <1>20, <1>21, <1>22,
     <1>23, <1>24, <1>25, <1>26, <1>27, <1>28, <1>29, <1>30, <1>31, <1>32, <1>33,
     <1>34, <1>35, <1>36 DEF Next, Request, Step, TerminalEvent

(* The inductive invariant: the spawn counter of the entry whose exit      *)
(* callback is registered names the live bash.                             *)
EpochIsBash ==
  isRunning => exitOwner \in Entries /\ sessionEpoch[exitOwner] = bash

BashInv == TerminalIsLive /\ SessionIsLive /\ EpochIsBash

(* None of them lets a field outlive the bash. *)
LEMMA BashInvNext ==
  ASSUME TypeOK, BashInv, BashStep, session' \in {"absent", "active", "inactive"}
  PROVE  BashInv'
<1> USE NoneAssumption, ConstantsAssumption
    DEF TypeOK, PtyTypeOK, BashInv, TerminalIsLive, SessionIsLive, EpochIsBash,
         isRunning, ForgetTerminal
<1>1. CASE Kept
  BY <1>1 DEF Kept
<1>2. CASE Spawned
  BY <1>2 DEF Spawned
<1>3. CASE Exited
  BY <1>3 DEF Exited
<1>4. CASE Replaced
  BY <1>4 DEF Replaced, FreeEntries
<1> QED
  BY <1>1, <1>2, <1>3, <1>4 DEF BashStep

(* The inductive invariant: the epoch of an entry names its live bash. *)
THEOREM BashInvariant == Spec => []BashInv
<1>1. Init => BashInv
  BY DEF Init, PtyInit, BashInv, TerminalIsLive, SessionIsLive, EpochIsBash, isRunning
<1>2. TypeOK /\ TypeOK' /\ BashInv /\ [Next]_vars => BashInv'
  <2> SUFFICES ASSUME TypeOK, TypeOK', BashInv, [Next]_vars
               PROVE  BashInv'
    OBVIOUS
  <2>1. CASE Next
    BY <2>1, BashNext, BashInvNext DEF TypeOK
  <2>2. CASE UNCHANGED vars
    BY <2>2 DEF vars, ptyVars, entryVars, logVars, BashInv, TerminalIsLive,
       SessionIsLive, EpochIsBash, isRunning
  <2> QED
    BY <2>1, <2>2
<1> QED
  BY <1>1, <1>2, TypeCorrect, PTL DEF Spec

(* terminalSessionId and ptyPid never name a bash that is gone.            *)
THEOREM TerminalsLive == Spec => []TerminalIsLive
BY BashInvariant, PTL DEF BashInv

(* No session record is active without a bash.                             *)
THEOREM SessionsLive == Spec => []SessionIsLive
BY BashInvariant, PTL DEF BashInv

(***************************************************************************)
(* The kinds of request that are in flight are kinds that are issued.      *)
(***************************************************************************)
KindsIssued == \A p \in Procs : job[p].kind \in Kinds \cup {"none", "crash"}

LEMMA IdleIssued ==
  ASSUME TypeOK, KindsIssued, NEW p \in Procs, Finish(p) \/ job' = [job EXCEPT ![p] = Idle]
  PROVE  KindsIssued'
BY DEF TypeOK, KindsIssued, Finish, Idle, Coroutine

LEMMA GotoIssued ==
  ASSUME TypeOK, KindsIssued, NEW p \in Procs, NEW pc, Goto(p, pc)
  PROVE  KindsIssued'
BY DEF TypeOK, Jobs, KindsIssued, Goto

LEMMA EnterIssued ==
  ASSUME TypeOK, KindsIssued, NEW p \in Procs, NEW k \in Kinds \cup {"crash"},
         NEW pc, NEW e, NEW b, NEW c, job' = [job EXCEPT ![p] = Coroutine(pc, k, e, b, c)]
  PROVE  KindsIssued'
BY DEF TypeOK, KindsIssued, Coroutine

LEMMA StartedIssued ==
  ASSUME TypeOK, KindsIssued, NEW p \in Procs, Started(p)
  PROVE  KindsIssued'
<1>1. CASE job[p].kind \in Hooked /\ servers # None
  BY <1>1 DEF TypeOK, Jobs, KindsIssued, Started
<1>2. CASE ~(job[p].kind \in Hooked /\ servers # None)
  BY <1>2, IdleIssued DEF Started
<1> QED
  BY <1>1, <1>2

LEMMA KindsNext ==
  ASSUME TypeOK, KindsIssued, Next
  PROVE  KindsIssued'
<1>0. ASSUME UNCHANGED job PROVE KindsIssued'
  BY <1>0 DEF KindsIssued
<1>1. ASSUME NEW r \in Requests,
             RequestStart(r) \/ RequestStop(r) \/ RequestRestart(r) \/ RequestRemove(r)
      PROVE  KindsIssued'
  <2>1. r \in Procs
    BY DEF Procs
  <2>2. \E pc, e : \E k \in Kinds : Enter(r, pc, k, e)
    BY <1>1, Zenon DEF RequestStart, RequestStop, RequestRestart, RequestRemove,
       Free, Accept
  <2> QED
    BY <2>1, <2>2, EnterIssued DEF Enter
<1>2. ASSUME NEW r \in Requests, NEW k \in Hooked, RequestApply(r, k) PROVE KindsIssued'
  <2>1. r \in Procs
    BY DEF Procs
  <2>2. k \in Kinds /\ \E pc : Enter(r, pc, k, servers)
    BY <1>2, Zenon DEF RequestApply, Free, Accept
  <2> QED
    BY <2>1, <2>2, EnterIssued DEF Enter
<1>3. ASSUME NEW r \in Requests, RequestCreate(r) \/ RequestClose(r) PROVE KindsIssued'
  <2>1. r \in Procs
    BY DEF Procs
  <2>2. CASE RequestCreate(r)
    <3>1. "create" \in Kinds
      BY <2>2, Zenon DEF RequestCreate, Accept
    <3>2. PICK c : job' = [job EXCEPT ![r] = Coroutine("mkdir", "create", None, None, c)]
      BY <2>2, Zenon DEF RequestCreate
    <3> QED
      BY <2>1, <3>1, <3>2, EnterIssued
  <2>3. CASE RequestClose(r)
    <3>1. "close" \in Kinds
      BY <2>3, Zenon DEF RequestClose, Accept
    <3>2. job' = [job EXCEPT ![r] = Coroutine("close", "close", None, bash, "none")]
      BY <2>3, Zenon DEF RequestClose
    <3> QED
      BY <2>1, <3>1, <3>2, EnterIssued
  <2> QED
    BY <1>3, <2>2, <2>3
<1>4. ASSUME NEW r \in Requests, RequestConfigure(r) PROVE KindsIssued'
  <2>1. r \in Procs
    BY DEF Procs
  <2>2. "configure" \in Kinds
    BY <1>4, Zenon DEF RequestConfigure, Accept
  <2>3. \/ UNCHANGED job
        \/ \E pc, e, b, c : job' = [job EXCEPT ![r] = Coroutine(pc, "configure", e, b, c)]
    BY <1>4, Zenon DEF RequestConfigure
  <2> QED
    BY <1>0, <2>1, <2>2, <2>3, EnterIssued
<1>5. ASSUME NEW r \in Requests, RequestForceStop(r) PROVE KindsIssued'
  BY <1>0, <1>5, Zenon DEF RequestForceStop
<1>6. ASSUME NEW p \in Procs,
             \/ PreStopDone(p) \/ ExitTimeout(p) \/ PreStartDone(p) \/ BuildDone(p)
             \/ Halted(p) \/ WaitRunDone(p)
      PROVE  KindsIssued'
  <2>1. Finish(p) \/ \E pc : Goto(p, pc)
    BY <1>6, Zenon DEF PreStopDone, ExitTimeout, PreStartDone, BuildDone, Halted,
       WaitRunDone
  <2> QED
    BY <2>1, IdleIssued, GotoIssued
<1>7. ASSUME NEW p \in Procs,
             \/ HookFails(p) \/ HaltThrows(p) \/ BootThrows(p) \/ BuildFails(p)
             \/ SpawnFails(p) \/ PostStartDone(p) \/ RemoveDone(p) \/ CreateDone(p)
             \/ ConfigureDone(p) \/ DiskFails(p) \/ CloseTimeout(p) \/ Closed(p)
      PROVE  KindsIssued'
  <2>1. StartThrows(p) => Finish(p)
    BY Zenon DEF StartThrows, Return
  <2>2. Finish(p) \/ job' = [job EXCEPT ![p] = Idle]
    BY <1>7, <2>1, Zenon DEF HookFails, HaltThrows, BootThrows, BuildFails, SpawnFails,
       PostStartDone, RemoveDone, CreateDone, ConfigureDone, DiskFails, CloseTimeout,
       Closed, Return
  <2> QED
    BY <2>2, IdleIssued
<1>8. ASSUME NEW p \in Procs, Halt(p) \/ Boot(p) PROVE KindsIssued'
  BY <1>8 DEF Halt, Boot, TypeOK, Jobs, KindsIssued
<1>9. ASSUME NEW p \in Procs, ReuseBash(p) \/ SpawnBash(p) PROVE KindsIssued'
  <2>1. Started(p)
    BY <1>9, Zenon DEF ReuseBash, SpawnBash
  <2> QED
    BY <2>1, StartedIssued
<1>10. CASE CrashTimer
  <2>1. UNCHANGED job \/ Enter(Restarter, "boot", "crash", servers)
    BY <1>10, Zenon DEF CrashTimer
  <2> QED
    BY <1>0, <2>1, EnterIssued DEF Enter, Procs
<1>11. CASE TerminalEvent \/ \E t \in commandTimers : CommandTimer(t)
  BY <1>0, <1>11, Zenon DEF TerminalEvent, BashExit, PrintReady, FlushLines, CommandTimer
<1> QED
  BY Zenon, <1>1, <1>2, <1>3, <1>4, <1>5, <1>6, <1>7, <1>8, <1>9, <1>10, <1>11
  DEF Next, Request, Step

LEMMA KindsInvariant == Spec => []KindsIssued
<1>1. Init => KindsIssued
  BY DEF Init, KindsIssued, Idle, Coroutine
<1>2. TypeOK /\ KindsIssued /\ [Next]_vars => KindsIssued'
  BY KindsNext DEF vars, KindsIssued
<1> QED
  BY <1>1, <1>2, TypeCorrect, PTL DEF Spec

(***************************************************************************)
(* As long as the instance, once deleted, is not created again, the Map,   *)
(* the timers, the exit callback and the coroutines all know one and the   *)
(* same entry.                                                             *)
(***************************************************************************)
Knows(j) == j.entry \in {None, servers} /\ j.target \in {None, servers}

SoleEntry ==
  servers # None =>
    /\ exitOwner \in {None, servers}
    /\ \A t \in commandTimers : t.entry = servers
    /\ \A p \in Procs : Knows(job[p])

(* Only a creation gives the id another entry. *)
LEMMA ServersNext ==
  ASSUME TypeOK, KindsIssued, "create" \notin Kinds, Next
  PROVE  servers' \in {servers, None}
<1>1. ASSUME NEW p \in Procs, CreateDone(p) PROVE FALSE
  BY <1>1 DEF CreateDone, TypeOK, JobShape, KindsIssued
<1>2. ASSUME NEW p \in Procs, RemoveDone(p) PROVE servers' = None
  BY <1>2, Zenon DEF RemoveDone
<1>3. ASSUME NEW r \in Requests, Request(r) PROVE servers' = servers
  BY <1>3, Zenon DEF Request, RequestApply, RequestStart, RequestStop, RequestRestart,
     RequestRemove, RequestCreate, RequestConfigure, RequestClose, RequestForceStop,
     diskVars
<1>4. ASSUME NEW p \in Procs, Step(p), ~CreateDone(p), ~RemoveDone(p)
      PROVE  servers' = servers
  <2>1. Return(p) \/ StartThrows(p) => servers' = servers
    BY Zenon DEF Return, StartThrows, diskVars
  <2> QED
    BY <1>4, <2>1, Zenon DEF Step, PreStopDone, HookFails, Halt, HaltThrows, ExitTimeout,
       Halted, PreStartDone, Boot, BootThrows, BuildDone, BuildFails, ReuseBash,
       SpawnBash, SpawnFails, WaitRunDone, PostStartDone, ConfigureDone, DiskFails,
       CloseTimeout, Closed, diskVars
<1>5. CASE TerminalEvent \/ CrashTimer \/ \E t \in commandTimers : CommandTimer(t)
  BY <1>5, Zenon DEF TerminalEvent, BashExit, PrintReady, FlushLines, CommandTimer,
     CrashTimer, diskVars
<1> QED
  BY <1>1, <1>2, <1>3, <1>4, <1>5 DEF Next

(* A coroutine that ends, or whose start is over, knows the only entry. *)
LEMMA FinishKnows ==
  ASSUME TypeOK, SoleEntry, NEW p \in Procs, Finish(p), UNCHANGED servers,
         servers # None
  PROVE  \A q \in Procs : Knows(job[q])'
BY DEF TypeOK, SoleEntry, Knows, Finish, Idle, Coroutine

LEMMA StartedKnows ==
  ASSUME TypeOK, SoleEntry, NEW p \in Procs, Started(p), UNCHANGED servers,
         servers # None
  PROVE  \A q \in Procs : Knows(job[q])'
<1>1. CASE job[p].kind \in Hooked /\ servers # None
  BY <1>1 DEF TypeOK, Jobs, SoleEntry, Knows, Started
<1>2. CASE ~(job[p].kind \in Hooked /\ servers # None)
  BY <1>2, FinishKnows DEF Started
<1> QED
  BY <1>1, <1>2

(* Without a second creation there is one entry, and everybody who holds   *)
(* one holds it.                                                           *)
LEMMA SoleNext ==
  ASSUME TypeOK, SoleEntry, KindsIssued, "create" \notin Kinds, Next
  PROVE  SoleEntry'
<1>0. CASE servers' = None
  BY <1>0 DEF SoleEntry
<1> SUFFICES ASSUME servers' # None, servers # None, servers' = servers
             PROVE  SoleEntry'
  BY <1>0, ServersNext
<1> USE DEF SoleEntry
<1>1. ASSUME NEW r \in Requests, RequestStart(r) PROVE SoleEntry'
  BY <1>1 DEF RequestStart, TypeOK, Knows, Enter, Coroutine, Accept, Free, OpKinds,
     Hooked, ptyVars, diskVars, entryVars, timerVars, logVars
<1>2. ASSUME NEW r \in Requests, RequestStop(r) PROVE SoleEntry'
  BY <1>2 DEF RequestStop, TypeOK, Knows, Enter, Coroutine, Accept, Free, OpKinds,
     Hooked, ptyVars, diskVars, entryVars, timerVars, logVars
<1>3. ASSUME NEW r \in Requests, RequestRestart(r) PROVE SoleEntry'
  BY <1>3 DEF RequestRestart, TypeOK, Knows, Enter, Coroutine, Accept, Free,
     OpKinds, Hooked, ptyVars, diskVars, entryVars, timerVars, logVars
<1>4. ASSUME NEW r \in Requests, RequestConfigure(r) PROVE SoleEntry'
  BY <1>4 DEF RequestConfigure, TypeOK, Knows, Enter, Coroutine, Accept, Free,
     OpKinds, Hooked, ptyVars, diskVars, entryVars, timerVars, logVars
<1>5. ASSUME NEW r \in Requests, RequestClose(r) PROVE SoleEntry'
  BY <1>5 DEF RequestClose, TypeOK, Knows, Enter, Coroutine, Accept, Free, OpKinds,
     Hooked, ptyVars, diskVars, entryVars, timerVars, logVars
<1>6. ASSUME NEW r \in Requests, RequestForceStop(r) PROVE SoleEntry'
  BY <1>6 DEF RequestForceStop, TypeOK, Knows, Enter, Coroutine, Accept, Free,
     OpKinds, Hooked, ptyVars, diskVars, entryVars, timerVars, logVars
<1>7. ASSUME NEW r \in Requests, NEW k \in Hooked, RequestApply(r, k) PROVE SoleEntry'
  BY <1>7 DEF RequestApply, TypeOK, Knows, Enter, Coroutine, Accept, Free, OpKinds,
     Hooked, ptyVars, diskVars, entryVars, timerVars, logVars
<1>8. ASSUME NEW r \in Requests, RequestRemove(r) PROVE SoleEntry'
  BY <1>8 DEF RequestRemove, TypeOK, Knows, Enter, Coroutine, ptyVars, diskVars,
     entryVars, timerVars, logVars
<1>80. ASSUME NEW r \in Requests PROVE ~RequestCreate(r)
  BY DEF RequestCreate, Accept
<1>9. ASSUME NEW p \in Procs, PreStopDone(p) PROVE SoleEntry'
  BY <1>9 DEF PreStopDone, Goto, TypeOK, Jobs, Knows, Idle, Coroutine, ptyVars,
     diskVars, entryVars, timerVars, logVars
<1>10. ASSUME NEW p \in Procs, HookFails(p) PROVE SoleEntry'
  BY <1>10, FinishKnows DEF HookFails, Return, ptyVars, diskVars, entryVars,
     timerVars, logVars
<1>11. ASSUME NEW p \in Procs, Halt(p) PROVE SoleEntry'
  BY <1>11 DEF Halt, Goto, TypeOK, Jobs, Knows, Idle, Coroutine, ptyVars, diskVars,
     entryVars, timerVars, logVars
<1>12. ASSUME NEW p \in Procs, HaltThrows(p) PROVE SoleEntry'
  BY <1>12, FinishKnows DEF HaltThrows, ptyVars, diskVars, entryVars, timerVars, logVars
<1>13. ASSUME NEW p \in Procs, ExitTimeout(p) PROVE SoleEntry'
  BY <1>13 DEF ExitTimeout, Goto, TypeOK, Jobs, Knows, Idle, Coroutine, ptyVars,
     diskVars, entryVars, timerVars, logVars
<1>14. ASSUME NEW p \in Procs, Halted(p) PROVE SoleEntry'
  <2>1. Finish(p) \/ \E pc : Goto(p, pc)
    BY <1>14 DEF Halted
  <2>2. \A q \in Procs : Knows(job[q])'
    BY <1>14, <2>1, FinishKnows DEF Halted, Goto, TypeOK, Jobs, Knows, ptyVars,
       diskVars, entryVars, timerVars, logVars
  <2> QED
    BY <1>14, <2>2 DEF Halted, ptyVars, diskVars, entryVars, timerVars, logVars
<1>15. ASSUME NEW p \in Procs, PreStartDone(p) PROVE SoleEntry'
  BY <1>15 DEF PreStartDone, Goto, TypeOK, Jobs, Knows, Idle, Coroutine, ptyVars,
     diskVars, entryVars, timerVars, logVars
<1>16. ASSUME NEW p \in Procs, Boot(p) PROVE SoleEntry'
  BY <1>16 DEF Boot, Goto, TypeOK, Jobs, Knows, Idle, Coroutine, ptyVars, diskVars,
     entryVars, timerVars, logVars
<1>17. ASSUME NEW p \in Procs, BootThrows(p) PROVE SoleEntry'
  BY <1>17, FinishKnows DEF BootThrows, Return, ptyVars, diskVars, entryVars,
     timerVars, logVars
<1>18. ASSUME NEW p \in Procs, BuildDone(p) PROVE SoleEntry'
  BY <1>18 DEF BuildDone, Goto, TypeOK, Jobs, Knows, Idle, Coroutine, ptyVars,
     diskVars, entryVars, timerVars, logVars
<1>19. ASSUME NEW p \in Procs, BuildFails(p) PROVE SoleEntry'
  BY <1>19, FinishKnows DEF BuildFails, StartThrows, Return, ptyVars, diskVars,
     entryVars, timerVars, logVars
<1>20. ASSUME NEW p \in Procs, ReuseBash(p) PROVE SoleEntry'
  BY <1>20, StartedKnows DEF ReuseBash, ptyVars, diskVars, entryVars, timerVars, logVars
<1>21. ASSUME NEW p \in Procs, SpawnBash(p) PROVE SoleEntry'
  <2>1. PICK b \in FreeBash :
          commandTimers' =
            commandTimers \cup {[entry |-> job[p].target, epoch |-> b]}
    BY <1>21 DEF SpawnBash
  <2>2. job[p].target = servers
    BY <1>21, ConstantsAssumption DEF SpawnBash, TypeOK, JobShape, Knows
  <2>3. servers' = servers /\ exitOwner' = job[p].target /\ Started(p)
    BY <1>21 DEF SpawnBash, diskVars
  <2>4. \A q \in Procs : Knows(job[q])'
    BY <2>3, StartedKnows
  <2> QED
    BY <2>1, <2>2, <2>3, <2>4
<1>22. ASSUME NEW p \in Procs, SpawnFails(p) PROVE SoleEntry'
  BY <1>22, FinishKnows DEF SpawnFails, StartThrows, Return, ptyVars, diskVars,
     entryVars, timerVars, logVars
<1>23. ASSUME NEW p \in Procs, WaitRunDone(p) PROVE SoleEntry'
  <2>1. Finish(p) \/ \E pc : Goto(p, pc)
    BY <1>23 DEF WaitRunDone
  <2>2. \A q \in Procs : Knows(job[q])'
    BY <1>23, <2>1, FinishKnows DEF WaitRunDone, Goto, TypeOK, Jobs, Knows, ptyVars,
       diskVars, entryVars, timerVars, logVars
  <2> QED
    BY <1>23, <2>2 DEF WaitRunDone, ptyVars, diskVars, entryVars, timerVars, logVars
<1>24. ASSUME NEW p \in Procs, PostStartDone(p) PROVE SoleEntry'
  BY <1>24, FinishKnows DEF PostStartDone, Return, ptyVars, diskVars, entryVars,
     timerVars, logVars
<1>25. ASSUME NEW p \in Procs, ConfigureDone(p) PROVE SoleEntry'
  BY <1>25 DEF ConfigureDone, Goto, TypeOK, Jobs, Knows, Idle, Coroutine, ptyVars,
     diskVars, entryVars, timerVars, logVars
<1>26. ASSUME NEW p \in Procs, DiskFails(p) PROVE SoleEntry'
  BY <1>26, FinishKnows DEF DiskFails, Return, ptyVars, diskVars, entryVars,
     timerVars, logVars
<1>27. ASSUME NEW p \in Procs, CloseTimeout(p) PROVE SoleEntry'
  BY <1>27 DEF CloseTimeout, Goto, TypeOK, Jobs, Knows, Idle, Coroutine, ptyVars,
     diskVars, entryVars, timerVars, logVars
<1>28. ASSUME NEW p \in Procs, Closed(p) PROVE SoleEntry'
  BY <1>28, FinishKnows DEF Closed, Return, ptyVars, diskVars, entryVars, timerVars,
     logVars
<1>29. ASSUME NEW p \in Procs PROVE ~RemoveDone(p) /\ ~CreateDone(p)
  BY DEF RemoveDone, CreateDone, TypeOK, JobShape, KindsIssued
<1>30. ASSUME NEW t \in commandTimers, CommandTimer(t) PROVE SoleEntry'
  BY <1>30 DEF CommandTimer, Knows, ptyVars, diskVars, entryVars, timerVars, logVars
<1>31. CASE CrashTimer
  BY <1>31 DEF CrashTimer, TypeOK, Knows, Enter, Coroutine, Accept, Free, OpKinds,
     Hooked, ptyVars, diskVars, entryVars, timerVars, logVars, Procs
<1>32. CASE TerminalEvent
  BY <1>32 DEF TerminalEvent, BashExit, PrintReady, FlushLines, Knows, ptyVars,
     diskVars, entryVars, timerVars, logVars
<1> HIDE DEF SoleEntry
<1> QED
  BY Zenon, <1>1, <1>2, <1>3, <1>4, <1>5, <1>6, <1>7, <1>8, <1>80, <1>9, <1>10, <1>11,
     <1>12, <1>13, <1>14, <1>15, <1>16, <1>17, <1>18, <1>19, <1>20, <1>21, <1>22,
     <1>23, <1>24, <1>25, <1>26, <1>27, <1>28, <1>29, <1>30, <1>31, <1>32 DEF Next,
     Request, Step

(* Only the steps of the timers and of the exit event take a timer away or *)
(* arm a crash restart.                                                    *)
TimersKept == commandTimers \subseteq commandTimers' /\ UNCHANGED crashTimers

(* Every step keeps the timers, arms one for the live bash, or lets one    *)
(* act.                                                                    *)
LEMMA TimersNext ==
  ASSUME Next
  PROVE  \/ TimersKept
         \/ \E t \in commandTimers : CommandTimer(t)
         \/ CrashTimer
         \/ \E failed, tail \in BOOLEAN : BashExit(failed, tail)
<1> USE DEF TimersKept, timerVars
<1>1. ASSUME NEW r \in Requests, Request(r) PROVE TimersKept
  BY <1>1 DEF Request, RequestApply, RequestStart, RequestStop, RequestRestart,
     RequestRemove, RequestCreate, RequestConfigure, RequestClose, RequestForceStop
<1>2. ASSUME NEW p \in Procs, Step(p) PROVE TimersKept
  <2>1. PreStopDone(p) => TimersKept
    BY DEF PreStopDone
  <2>2. HookFails(p) => TimersKept
    BY DEF HookFails, Return
  <2>3. Halt(p) => TimersKept
    BY DEF Halt
  <2>4. HaltThrows(p) => TimersKept
    BY DEF HaltThrows
  <2>5. ExitTimeout(p) => TimersKept
    BY DEF ExitTimeout
  <2>6. Halted(p) => TimersKept
    BY DEF Halted
  <2>7. PreStartDone(p) => TimersKept
    BY DEF PreStartDone
  <2>8. Boot(p) => TimersKept
    BY DEF Boot
  <2>9. BootThrows(p) => TimersKept
    BY DEF BootThrows, Return
  <2>10. BuildDone(p) => TimersKept
    BY DEF BuildDone
  <2>11. BuildFails(p) => TimersKept
    BY DEF BuildFails, StartThrows, Return
  <2>12. ReuseBash(p) => TimersKept
    BY DEF ReuseBash
  <2>13. SpawnBash(p) => TimersKept
    BY DEF SpawnBash
  <2>14. SpawnFails(p) => TimersKept
    BY DEF SpawnFails, StartThrows, Return
  <2>15. WaitRunDone(p) => TimersKept
    BY DEF WaitRunDone
  <2>16. PostStartDone(p) => TimersKept
    BY DEF PostStartDone, Return
  <2>17. RemoveDone(p) => TimersKept
    BY DEF RemoveDone
  <2>18. CreateDone(p) => TimersKept
    BY DEF CreateDone
  <2>19. ConfigureDone(p) => TimersKept
    BY DEF ConfigureDone
  <2>20. DiskFails(p) => TimersKept
    BY DEF DiskFails, Return
  <2>21. CloseTimeout(p) => TimersKept
    BY DEF CloseTimeout
  <2>22. Closed(p) => TimersKept
    BY DEF Closed, Return
  <2> QED
    BY Zenon, <1>2, <2>1, <2>2, <2>3, <2>4, <2>5, <2>6, <2>7, <2>8, <2>9, <2>10,
       <2>11, <2>12, <2>13, <2>14, <2>15, <2>16, <2>17, <2>18, <2>19, <2>20, <2>21,
       <2>22 DEF Step
<1>3. PrintReady \/ FlushLines => TimersKept
  BY DEF PrintReady, FlushLines
<1> HIDE DEF TimersKept
<1> QED
  BY Zenon, <1>1, <1>2, <1>3 DEF Next, TerminalEvent

(* Without a second creation every closure captured the entry that is in   *)
(* the Map, if there is one.                                               *)
THEOREM SoleEntryInvariant ==
  ASSUME "create" \notin Kinds
  PROVE  Spec => []SoleEntry
<1>1. Init => SoleEntry
  BY DEF Init, SoleEntry, Knows, Idle, Coroutine
<1>2. TypeOK /\ KindsIssued /\ SoleEntry /\ [Next]_vars => SoleEntry'
  <2> SUFFICES ASSUME TypeOK, KindsIssued, SoleEntry, [Next]_vars
               PROVE  SoleEntry'
    OBVIOUS
  <2>1. CASE Next
    BY <2>1, SoleNext
  <2>2. CASE UNCHANGED vars
    BY <2>2 DEF vars, diskVars, timerVars, SoleEntry, Knows
  <2> QED
    BY <2>1, <2>2
<1> QED
  BY <1>1, <1>2, TypeCorrect, KindsInvariant, PTL DEF Spec

(* As long as the instance is not created again after a deletion, a start- *)
(* command timer only ever acts on the bash it was armed for, whatever     *)
(* stops, restarts, crashes, failed starts and deletions lie between.      *)
THEOREM TimersOwnBash ==
  ASSUME "create" \notin Kinds
  PROVE  Spec => CommandTimerOwnsBash
<1>1. TypeOK /\ BashInv /\ SoleEntry /\ [Next]_vars
        => [\A t \in commandTimers \ commandTimers' :
              state' # state => t.epoch = bash]_vars
  <2> SUFFICES ASSUME TypeOK, BashInv, SoleEntry, Next,
                      NEW t \in commandTimers, t \notin commandTimers',
                      state' # state
               PROVE  t.epoch = bash
    BY DEF vars, timerVars
  <2>1. CASE TimersKept \/ CrashTimer
    BY <2>1 DEF TimersKept, CrashTimer
  <2>2. ASSUME NEW failed \in BOOLEAN, NEW tail \in BOOLEAN,
               BashExit(failed, tail)
        PROVE  FALSE
    BY <2>2 DEF BashExit
  <2>3. ASSUME NEW u \in commandTimers, CommandTimer(u)
        PROVE  t.epoch = bash
    <3>1. t = u /\ TimerFires(t) /\ servers # None
      BY <2>3 DEF CommandTimer, Transition
    <3>2. exitOwner = servers /\ t.entry = servers
      BY <3>1, ConstantsAssumption
      DEF TimerFires, SoleEntry, BashInv, EpochIsBash
    <3> QED
      BY <3>1, <3>2 DEF TimerFires, BashInv, EpochIsBash
  <2> QED
    BY <2>1, <2>2, <2>3, TimersNext
<1> QED
  BY <1>1, TypeCorrect, BashInvariant, SoleEntryInvariant, PTL
  DEF Spec, CommandTimerOwnsBash

(* As long as the instance is not created again and nobody forces a stop,  *)
(* the exit a stop or a restart waits for never arms a crash restart.      *)
THEOREM AwaitedExitsNoCrash ==
  ASSUME {"create", "force"} \cap Kinds = {}
  PROVE  Spec => AwaitedExitIsNoCrash
<1>1. TypeOK /\ SoleEntry /\ OperationExclusive /\ [Next]_vars
        => [(/\ isRunning /\ ~isRunning'
             /\ \E p \in Procs : /\ job[p].kind \in {"stop", "restart"}
                                  /\ job[p].pc \in {"waitExit", "waitKill"})
            => crashTimers' = crashTimers]_vars
  <2> SUFFICES ASSUME TypeOK, SoleEntry, OperationExclusive, Next,
                      isRunning, ~isRunning',
                      NEW p \in Procs, job[p].kind \in {"stop", "restart"}
               PROVE  crashTimers' = crashTimers
    BY DEF vars, timerVars
  <2>1. servers # None => op[servers] \in {"manual_stop", "manual_restart"}
    <3>1. servers # None => Holds(p, servers)
      BY ConstantsAssumption DEF TypeOK, JobShape, SoleEntry, Knows, Holds, OpKinds
    <3> QED
      BY <3>1 DEF OperationExclusive, TypeOK, OpOf
  <2>2. CASE TimersKept
    BY <2>2 DEF TimersKept
  <2>3. ASSUME NEW t \in commandTimers, CommandTimer(t)
        PROVE  crashTimers' = crashTimers
    BY <2>3 DEF CommandTimer
  <2>4. CASE CrashTimer
    BY <2>4 DEF CrashTimer, ptyVars, isRunning
  <2>5. ASSUME NEW failed \in BOOLEAN, NEW tail \in BOOLEAN,
               BashExit(failed, tail)
        PROVE  crashTimers' = crashTimers
    BY <2>1, <2>5 DEF BashExit, RestartsAfter
  <2> QED
    BY <2>2, <2>3, <2>4, <2>5, TimersNext
<1>2. Spec => []SoleEntry
  BY SoleEntryInvariant
<1>3. Spec => []OperationExclusive
  BY OperationsExclusive
<1> QED
  BY <1>1, <1>2, <1>3, TypeCorrect, PTL DEF Spec, AwaitedExitIsNoCrash

(***************************************************************************)
(* An instance that shows STARTING over a live bash.                       *)
(***************************************************************************)
Spawning == {p \in Procs : job[p].pc = "spawn"}

(* The start command of an instance with a bash, or about to get one, has  *)
(* been found: a restart over the bash does not look for it again.         *)
CommandKnown ==
  servers # None /\ (isRunning \/ Spawning # {}) => command[servers] # "none"

(* Either the timer of the live bash is armed, or a coroutine is about to  *)
(* reuse the bash.                                                         *)
WillRun ==
  servers # None /\ state[servers] = "STARTING" /\ isRunning
    => [entry |-> servers, epoch |-> bash] \in commandTimers \/ Spawning # {}

(* A step that has no part in a start. *)
Calm ==
  /\ UNCHANGED <<bash, command, commandTimers, Spawning>>
  /\ servers' \in {servers, None}
  /\ state' = state \/ \E to \in {"STOPPED", "STOPPING", "RUNNING"} : Transition(to)

LEMMA CalmKeeps ==
  ASSUME TypeOK, CommandKnown, WillRun, Calm
  PROVE  CommandKnown' /\ WillRun'
<1>1. ASSUME servers' # None, state'[servers'] = "STARTING"
      PROVE  servers # None /\ state[servers] = "STARTING"
  BY <1>1 DEF Calm, Transition, TypeOK
<1> QED
  BY <1>1 DEF Calm, CommandKnown, WillRun, isRunning

(* A coroutine that is not at its spawn, before or after. *)
LEMMA Elsewhere ==
  ASSUME TypeOK, NEW p \in Procs, NEW j, job' = [job EXCEPT ![p] = j],
         job[p].pc # "spawn", j.pc # "spawn"
  PROVE  UNCHANGED Spawning
BY DEF TypeOK, Spawning

LEMMA GotoElsewhere ==
  ASSUME TypeOK, NEW p \in Procs, NEW pc, Goto(p, pc), job[p].pc # "spawn", pc # "spawn"
  PROVE  UNCHANGED Spawning
BY DEF TypeOK, Jobs, Spawning, Goto

LEMMA EndElsewhere ==
  ASSUME TypeOK, NEW p \in Procs, Finish(p), job[p].pc # "spawn"
  PROVE  UNCHANGED Spawning
<1>1. Idle.pc # "spawn"
  BY DEF Idle, Coroutine
<1> QED
  BY <1>1, Elsewhere DEF Finish

LEMMA RequestCalm ==
  ASSUME TypeOK, NEW r \in Requests, "create" \notin Kinds, "configure" \notin Kinds,
         Request(r), ~RequestStart(r)
  PROVE  Calm
<1> USE DEF Calm
<1>0. r \in Procs /\ (job[r] = Idle => job[r].pc # "spawn")
  <2>1. Idle.pc # "spawn"
    BY DEF Idle, Coroutine
  <2> QED
    BY <2>1 DEF Procs
<1>1. ASSUME NEW pc, NEW k, NEW e, Enter(r, pc, k, e), job[r] = Idle, pc # "spawn"
      PROVE  UNCHANGED Spawning
  <2>1. Coroutine(pc, k, e, None, "none").pc # "spawn"
    BY <1>1 DEF Coroutine
  <2> QED
    BY <1>0, <1>1, <2>1, Elsewhere DEF Enter
<1>2. CASE RequestStop(r) \/ RequestRestart(r)
  <2>1. UNCHANGED Spawning
    BY <1>1, <1>2 DEF RequestStop, RequestRestart, Free, Accept
  <2> QED
    BY <1>2, <2>1, Zenon DEF RequestStop, RequestRestart, ptyVars, diskVars, timerVars
<1>3. ASSUME NEW k \in Hooked, RequestApply(r, k) PROVE Calm
  <2>1. UNCHANGED Spawning
    BY <1>1, <1>3 DEF RequestApply, Free, Accept
  <2> QED
    BY <1>3, <2>1, Zenon DEF RequestApply, ptyVars, diskVars, timerVars
<1>4. CASE RequestRemove(r)
  <2>1. UNCHANGED Spawning
    BY <1>1, <1>4 DEF RequestRemove, Accept
  <2> QED
    BY <1>4, <2>1, Zenon DEF RequestRemove, ptyVars, diskVars, timerVars
<1>5. CASE RequestClose(r)
  <2>1. UNCHANGED Spawning
    <3>1. Coroutine("close", "close", None, bash, "none").pc # "spawn"
      BY DEF Coroutine
    <3> QED
      BY <1>0, <1>5, <3>1, Elsewhere DEF RequestClose, Accept
  <2> QED
    BY <1>5, <2>1, Zenon DEF RequestClose, ptyVars, diskVars, timerVars, entryVars
<1>6. CASE RequestForceStop(r)
  <2>1. UNCHANGED Spawning
    BY <1>6 DEF RequestForceStop, Spawning
  <2> QED
    BY <1>6, <2>1, Zenon DEF RequestForceStop, ForceKill, diskVars, timerVars
<1>7. ~RequestCreate(r) /\ ~RequestConfigure(r)
  BY Zenon DEF RequestCreate, RequestConfigure, Accept
<1> QED
  BY Zenon, <1>2, <1>3, <1>4, <1>5, <1>6, <1>7 DEF Request

LEMMA StepCalm ==
  ASSUME TypeOK, KindsIssued, NEW p \in Procs, "create" \notin Kinds,
         "configure" \notin Kinds, Step(p),
         ~(Boot(p) \/ BuildDone(p) \/ ReuseBash(p) \/ SpawnBash(p) \/ SpawnFails(p))
  PROVE  Calm
<1> USE DEF Calm, ptyVars, diskVars, entryVars, timerVars
<1>0. ASSUME Return(p), job[p].pc # "spawn" PROVE Calm
  <2>1. UNCHANGED Spawning
    BY <1>0, EndElsewhere DEF Return
  <2> QED
    BY <1>0, <2>1, Zenon DEF Return
<1>1. CASE PreStopDone(p)
  BY <1>1, GotoElsewhere DEF PreStopDone
<1>2. CASE HookFails(p) \/ BootThrows(p) \/ PostStartDone(p) \/ DiskFails(p) \/ Closed(p)
  BY <1>0, <1>2 DEF HookFails, BootThrows, PostStartDone, DiskFails, Closed
<1>3. CASE Halt(p)
  <2>1. UNCHANGED Spawning
    BY <1>3 DEF Halt, Spawning, TypeOK, Jobs
  <2> QED
    BY <1>3, <2>1, Zenon DEF Halt
<1>4. CASE HaltThrows(p)
  <2>1. UNCHANGED Spawning
    BY <1>4, EndElsewhere DEF HaltThrows
  <2> QED
    BY <1>4, <2>1, Zenon DEF HaltThrows
<1>5. CASE ExitTimeout(p)
  <2>1. UNCHANGED Spawning
    BY <1>5, GotoElsewhere DEF ExitTimeout, ExitOverdue
  <2> QED
    BY <1>5, <2>1, Zenon DEF ExitTimeout, ForceKill
<1>6. CASE Halted(p)
  <2>1. \/ Finish(p)
        \/ \E pc \in {"rm", "preStart", "boot"} : Goto(p, pc)
    BY <1>6, Zenon DEF Halted
  <2>2. UNCHANGED Spawning
    BY <1>6, <2>1, EndElsewhere, GotoElsewhere DEF Halted
  <2> QED
    BY <1>6, <2>2, Zenon DEF Halted
<1>7. CASE PreStartDone(p)
  BY <1>7, GotoElsewhere DEF PreStartDone
<1>8. CASE BuildFails(p)
  <2>1. job[p].pc = "build" /\ StartThrows(p)
    BY <1>8, Zenon DEF BuildFails
  <2>2. CASE job[p].kind # "start"
    BY <1>0, <2>1, <2>2 DEF StartThrows
  <2>3. CASE job[p].kind = "start"
    <3>1. UNCHANGED Spawning
      BY <2>1, <2>3, EndElsewhere DEF StartThrows
    <3> QED
      BY <2>1, <2>3, <3>1, Zenon DEF StartThrows, ForceKill
  <2> QED
    BY <2>2, <2>3
<1>9. CASE WaitRunDone(p)
  <2>1. Finish(p) \/ Goto(p, "postStart")
    BY <1>9, Zenon DEF WaitRunDone
  <2>2. UNCHANGED Spawning
    BY <1>9, <2>1, EndElsewhere, GotoElsewhere DEF WaitRunDone
  <2> QED
    BY <1>9, <2>2, Zenon DEF WaitRunDone
<1>10. CASE RemoveDone(p)
  <2>1. UNCHANGED Spawning
    BY <1>10, EndElsewhere DEF RemoveDone
  <2> QED
    BY <1>10, <2>1, Zenon DEF RemoveDone
<1>11. CASE CloseTimeout(p)
  <2>1. UNCHANGED Spawning
    <3>1. Idle.pc # "spawn"
      BY DEF Idle, Coroutine
    <3> QED
      BY <1>11, <3>1, Elsewhere DEF CloseTimeout
  <2> QED
    BY <1>11, <2>1, Zenon DEF CloseTimeout, ForceKill
<1>12. ~CreateDone(p) /\ ~ConfigureDone(p)
  BY DEF CreateDone, ConfigureDone, TypeOK, JobShape, KindsIssued
<1> QED
  BY Zenon, <1>1, <1>2, <1>3, <1>4, <1>5, <1>6, <1>7, <1>8, <1>9, <1>10, <1>11, <1>12
  DEF Step

(* The steps of a start. *)
LEMMA StartKeeps ==
  ASSUME TypeOK, SoleEntry, BashInv, CommandKnown, WillRun, NEW p \in Procs,
         \/ p \in Requests /\ RequestStart(p)
         \/ Boot(p) \/ BuildDone(p) \/ ReuseBash(p) \/ SpawnBash(p) \/ SpawnFails(p)
  PROVE  CommandKnown' /\ WillRun'
<1> USE DEF CommandKnown, WillRun, Spawning, isRunning, ptyVars, diskVars, timerVars
<1>1. CASE p \in Requests /\ RequestStart(p)
  BY <1>1 DEF RequestStart, Enter, Coroutine, Idle, Free, Accept, TypeOK
<1>2. CASE Boot(p)
  BY <1>2 DEF Boot, TypeOK, Jobs
<1>3. CASE BuildDone(p)
  <2>1. servers # None => job[p].target = servers
    BY <1>3, ConstantsAssumption DEF BuildDone, TypeOK, JobShape, SoleEntry, Knows
  <2>2. command' = [command EXCEPT ![job[p].target] = "detected"]
    BY <1>3 DEF BuildDone
  <2>3. /\ servers' = servers /\ bash' = bash /\ commandTimers' = commandTimers
        /\ state' = state
    BY <1>3 DEF BuildDone
  <2>4. Spawning' # {}
    BY <1>3 DEF BuildDone, Goto, TypeOK, Jobs
  <2>5. CommandKnown'
    BY <2>1, <2>2, <2>3 DEF TypeOK
  <2>6. WillRun'
    BY <2>4
  <2> QED
    BY <2>5, <2>6
<1>4. CASE ReuseBash(p)
  BY <1>4 DEF ReuseBash, Transition, TypeOK
<1>5. CASE SpawnBash(p)
  <2>1. servers # None => job[p].target = servers /\ command[servers] # "none"
    BY <1>5, ConstantsAssumption DEF SpawnBash, TypeOK, JobShape, SoleEntry, Knows
  <2>2. servers' = servers /\ command' = command
    BY <1>5 DEF SpawnBash
  <2>3. [entry |-> job[p].target, epoch |-> bash'] \in commandTimers'
    BY <1>5 DEF SpawnBash, Spawn
  <2> QED
    BY <2>1, <2>2, <2>3
<1>6. CASE SpawnFails(p)
  BY <1>6 DEF SpawnFails, StartThrows, Return, Finish, Idle, Coroutine, ForceKill, TypeOK
<1> QED
  BY <1>1, <1>2, <1>3, <1>4, <1>5, <1>6

LEMMA EventKeeps ==
  ASSUME TypeOK, SoleEntry, BashInv, CommandKnown, WillRun,
         CrashTimer \/ TerminalEvent \/ \E t \in commandTimers : CommandTimer(t)
  PROVE  CommandKnown' /\ WillRun'
<1>1. CASE CrashTimer
  <2>1. UNCHANGED Spawning
    <3>1. Restarter \in Procs /\ Idle.pc # "spawn"
          /\ Coroutine("boot", "crash", servers, None, "none").pc # "spawn"
      BY DEF Procs, Idle, Coroutine
    <3>2. CASE RestartDue
      BY <1>1, <3>1, <3>2, Elsewhere DEF CrashTimer, Enter
    <3>3. CASE ~RestartDue
      BY <1>1, <3>3 DEF CrashTimer, Spawning
    <3> QED
      BY <3>2, <3>3
  <2>2. Calm
    BY <1>1, <2>1, Zenon DEF CrashTimer, Calm, ptyVars, diskVars, entryVars
  <2> QED
    BY <2>2, CalmKeeps
<1>2. CASE PrintReady \/ FlushLines
  <2>1. UNCHANGED Spawning
    BY <1>2 DEF PrintReady, FlushLines, Spawning
  <2>2. Calm
    BY <1>2, <2>1, Zenon DEF PrintReady, FlushLines, PrintLine, Flush, Calm, diskVars,
       entryVars, timerVars
  <2> QED
    BY <2>2, CalmKeeps
<1>3. ASSUME NEW failed \in BOOLEAN, NEW tail \in BOOLEAN, BashExit(failed, tail)
      PROVE  CommandKnown' /\ WillRun'
  <2>1. bash' = None /\ servers' = servers /\ command' = command /\ job' = job
    BY <1>3, Zenon DEF BashExit, Exit, diskVars
  <2> QED
    BY <2>1 DEF CommandKnown, WillRun, Spawning, isRunning
<1>4. ASSUME NEW t \in commandTimers, CommandTimer(t)
      PROVE  CommandKnown' /\ WillRun'
  <2>1. /\ bash' = bash /\ servers' = servers /\ command' = command /\ job' = job
        /\ commandTimers' = commandTimers \ {t}
    BY <1>4, Zenon DEF CommandTimer, ptyVars, diskVars
  <2>2. CommandKnown'
    BY <2>1 DEF CommandKnown, Spawning, isRunning
  <2>3. ASSUME servers # None, state'[servers] = "STARTING", isRunning
        PROVE  [entry |-> servers, epoch |-> bash] \in commandTimers' \/ Spawning # {}
    <3>1. ~TimerFires(t) /\ state' = state
      BY <1>4, <2>3 DEF CommandTimer, Transition, TypeOK
    <3>2. sessionEpoch[servers] = bash
      BY <2>3, ConstantsAssumption DEF SoleEntry, BashInv, EpochIsBash
    <3>3. t # [entry |-> servers, epoch |-> bash]
      BY <2>3, <3>1, <3>2 DEF TimerFires
    <3> QED
      BY <2>1, <2>3, <3>1, <3>3 DEF WillRun
  <2>4. WillRun'
    BY <2>1, <2>3 DEF WillRun, Spawning, isRunning
  <2> QED
    BY <2>2, <2>4
<1> QED
  BY <1>1, <1>2, <1>3, <1>4 DEF TerminalEvent

LEMMA WillRunNext ==
  ASSUME TypeOK, KindsIssued, SoleEntry, BashInv, CommandKnown, WillRun,
         "create" \notin Kinds, "configure" \notin Kinds, Next
  PROVE  CommandKnown' /\ WillRun'
<1>1. ASSUME NEW r \in Requests, Request(r) PROVE CommandKnown' /\ WillRun'
  <2>1. CASE RequestStart(r)
    BY <1>1, <2>1, StartKeeps DEF Procs
  <2>2. CASE ~RequestStart(r)
    BY <1>1, <2>2, RequestCalm, CalmKeeps
  <2> QED
    BY <2>1, <2>2
<1>2. ASSUME NEW p \in Procs, Step(p) PROVE CommandKnown' /\ WillRun'
  BY <1>2, StartKeeps, StepCalm, CalmKeeps
<1> QED
  BY <1>1, <1>2, EventKeeps DEF Next

(* An instance that shows STARTING over a live bash, with no coroutine     *)
(* left that could move it, has the timer pending that makes it RUNNING:   *)
(* the three checks of the timer never drop the one of the live bash, and  *)
(* only a restart that finds the bash alive takes a RUNNING instance back  *)
(* to STARTING.  A configureServer may write an old empty command back and *)
(* a creation may replace the entry: then it need not hold.                *)
THEOREM StartingRuns ==
  ASSUME {"create", "configure"} \cap Kinds = {}
  PROVE  Spec => []StartingWillRun
<1>1. Init => CommandKnown /\ WillRun
  BY DEF Init, PtyInit, CommandKnown, WillRun, Spawning, isRunning, Idle, Coroutine
<1>2. TypeOK /\ KindsIssued /\ SoleEntry /\ BashInv /\ CommandKnown /\ WillRun
        /\ [Next]_vars => CommandKnown' /\ WillRun'
  <2> SUFFICES ASSUME TypeOK, KindsIssued, SoleEntry, BashInv, CommandKnown, WillRun,
                      [Next]_vars
               PROVE  CommandKnown' /\ WillRun'
    OBVIOUS
  <2>1. CASE Next
    BY <2>1, WillRunNext
  <2>2. CASE UNCHANGED vars
    BY <2>2 DEF vars, ptyVars, diskVars, entryVars, timerVars, CommandKnown, WillRun,
       Spawning, isRunning
  <2> QED
    BY <2>1, <2>2
<1>3. SoleEntry /\ BashInv /\ WillRun => StartingWillRun
  <2> SUFFICES ASSUME SoleEntry, BashInv, WillRun, servers # None,
                      state[servers] = "STARTING", isRunning,
                      \A p \in Procs : job[p] = Idle
               PROVE  [entry |-> servers, epoch |-> bash] \in commandTimers
                        /\ sessionEpoch[servers] = bash
    BY DEF StartingWillRun
  <2>1. Spawning = {}
    BY DEF Spawning, Idle, Coroutine
  <2>2. sessionEpoch[servers] = bash
    BY ConstantsAssumption DEF SoleEntry, BashInv, EpochIsBash
  <2> QED
    BY <2>1, <2>2 DEF WillRun
<1>4. Spec => []SoleEntry
  BY SoleEntryInvariant
<1> QED
  BY <1>1, <1>2, <1>3, <1>4, TypeCorrect, KindsInvariant, BashInvariant, PTL DEF Spec
=============================================================================
