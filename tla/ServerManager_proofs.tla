------------------------ MODULE ServerManager_proofs ------------------------
(***************************************************************************)
(* Type correctness of ServerManager, the exclusion of its operations, and *)
(* the refinement of OperationLock, for any number of requests, entries    *)
(* and bashes.  The argument for the lock: whatever a step does, it takes  *)
(* a free operation, moves within one, gives its own back, or replaces an  *)
(* entry nobody holds (LockStep).                                          *)
(***************************************************************************)
EXTENDS ServerManager, TLAPS

(* The events of PtyManager keep the types of its fields. *)
LEMMA KillType ==
  ForceKill => bash' = bash /\ killed' \in BOOLEAN /\ buffered' \in BOOLEAN
BY Zenon DEF ForceKill, isRunning

LEMMA FlushType == Flush => UNCHANGED <<bash, killed>> /\ buffered' \in BOOLEAN
BY Zenon DEF Flush

LEMMA ExitType ==
  Exit => /\ bash' = None
          /\ killed' \in BOOLEAN /\ buffered' \in BOOLEAN
BY Zenon DEF Exit

(* The initial state, and every step, keeps the types. *)
LEMMA TypeInit == Init => TypeOK
<1> SUFFICES ASSUME Init PROVE TypeOK
  OBVIOUS
<1>1. PtyTypeOK
  BY Zenon DEF Init, PtyInit, PtyTypeOK
<1>2. /\ servers \in Entries \cup {None} /\ onDisk \in BOOLEAN
      /\ savedCommand \in Commands /\ exitOwner \in Entries \cup {None}
      /\ session \in {"absent", "active", "inactive"}
      /\ incident \in {"none", "start", "stop", "crash"}
      /\ crashTimers \in Nat /\ commandTimers \in SUBSET Timers
  BY DEF Init, Commands
<1>3. /\ state \in [Entries -> States] /\ op \in [Entries -> Ops]
      /\ stopRequested \in [Entries -> BOOLEAN]
      /\ sessionEpoch \in [Entries -> Bash \cup {None}]
      /\ terminal \in [Entries -> Bash \cup {None}]
      /\ command \in [Entries -> Commands]
  BY DEF Init, States, Ops, Commands
<1>4. job \in [Procs -> Jobs] /\ \A p \in Procs : JobShape(job[p])
  BY DEF Init, Idle, Coroutine, Jobs, Pcs, JobShape, OpKinds, Hooked, Commands
<1> QED
  BY <1>1, <1>2, <1>3, <1>4 DEF TypeOK

LEMMA TypeNext == TypeOK /\ [Next]_vars => TypeOK'
<1> SUFFICES ASSUME TypeOK, [Next]_vars PROVE TypeOK'
  OBVIOUS
<1> USE NoneAssumption, ConstantsAssumption DEF TypeOK, PtyTypeOK, Procs, Jobs, Pcs,
   Waits, Idle, Coroutine, JobShape, Timers, Ops, Commands, States, OpKinds, Hooked,
   AllKinds, ptyVars, diskVars, entryVars, timerVars, logVars, Accept, Free,
   Acquire, Enter, Goto, Transition, Recorded, Finish, Release, Return, OpOf
<1>a. ASSUME NEW p \in Procs, StartThrows(p) PROVE TypeOK'
  <2>1. CASE job[p].kind # "start"
    <3>1. Return(p)
      BY <1>a, <2>1 DEF StartThrows
    <3> QED
      BY <3>1
  <2>2. CASE job[p].kind = "start"
    <3>1. job[p].entry \in Entries
      BY <2>2
    <3>2. PtyTypeOK'
      BY <1>a, <2>2, KillType DEF StartThrows
    <3>3. /\ ForgetTerminal(job[p].entry) /\ Finish(p) /\ session' = "absent"
          /\ stopRequested' = [stopRequested EXCEPT ![job[p].entry] = TRUE]
          /\ Transition("STOPPED")
          /\ UNCHANGED <<diskVars, exitOwner, timerVars, sessionEpoch, command>>
      BY <1>a, <2>2 DEF StartThrows
    <3> QED
      BY <3>1, <3>2, <3>3 DEF ForgetTerminal
  <2> QED
    BY <2>1, <2>2
<1>1. ASSUME NEW r \in Requests, RequestStart(r) PROVE TypeOK'
  BY <1>1 DEF RequestStart, isRunning, ForceKill
<1>2. ASSUME NEW r \in Requests, RequestStop(r) PROVE TypeOK'
  BY <1>2 DEF RequestStop, isRunning, ForceKill
<1>3. ASSUME NEW r \in Requests, RequestRestart(r) PROVE TypeOK'
  BY <1>3 DEF RequestRestart, isRunning, ForceKill
<1>4. ASSUME NEW r \in Requests, RequestRemove(r) PROVE TypeOK'
  BY <1>4 DEF RequestRemove, isRunning, ForceKill
<1>5. ASSUME NEW r \in Requests, RequestCreate(r) PROVE TypeOK'
  BY <1>5 DEF RequestCreate, isRunning, ForceKill
<1>6. ASSUME NEW r \in Requests, RequestConfigure(r) PROVE TypeOK'
  BY <1>6 DEF RequestConfigure, isRunning, ForceKill
<1>7. ASSUME NEW r \in Requests, RequestClose(r) PROVE TypeOK'
  BY <1>7 DEF RequestClose, isRunning, ForceKill
<1>8. ASSUME NEW r \in Requests, RequestForceStop(r) PROVE TypeOK'
  BY <1>8, KillType DEF RequestForceStop
<1>9. ASSUME NEW r \in Requests, NEW k \in Hooked, RequestApply(r, k) PROVE TypeOK'
  BY <1>9 DEF RequestApply, HooksOf
<1>10. ASSUME NEW p \in Procs, PreStopDone(p) PROVE TypeOK'
  BY <1>10 DEF PreStopDone, HooksOf
<1>11. ASSUME NEW p \in Procs, HookFails(p) PROVE TypeOK'
  BY <1>11 DEF HookFails
<1>12. ASSUME NEW p \in Procs, Halt(p) PROVE TypeOK'
  BY <1>12 DEF Halt
<1>13. ASSUME NEW p \in Procs, HaltThrows(p) PROVE TypeOK'
  BY <1>13 DEF HaltThrows
<1>14. ASSUME NEW p \in Procs, ExitTimeout(p) PROVE TypeOK'
  BY <1>14, KillType DEF ExitTimeout
<1>15. ASSUME NEW p \in Procs, Halted(p) PROVE TypeOK'
  BY <1>15 DEF Halted, HooksOf, Ready
<1>16. ASSUME NEW p \in Procs, PreStartDone(p) PROVE TypeOK'
  BY <1>16 DEF PreStartDone
<1>17. ASSUME NEW p \in Procs, Boot(p) PROVE TypeOK'
  BY <1>17 DEF Boot
<1>18. ASSUME NEW p \in Procs, BootThrows(p) PROVE TypeOK'
  BY <1>18 DEF BootThrows
<1>19. ASSUME NEW p \in Procs, BuildDone(p) PROVE TypeOK'
  BY <1>19 DEF BuildDone
<1>20. ASSUME NEW p \in Procs, BuildFails(p) PROVE TypeOK'
  BY <1>20, <1>a DEF BuildFails
<1>21. ASSUME NEW p \in Procs, ReuseBash(p) PROVE TypeOK'
  BY <1>21 DEF ReuseBash, Started
<1>22. ASSUME NEW p \in Procs, SpawnBash(p) PROVE TypeOK'
  <2>1. PICK b \in FreeBash :
          /\ bash' = b /\ killed' = FALSE /\ buffered' = FALSE
          /\ terminal' = [terminal EXCEPT ![job[p].target] = b]
          /\ sessionEpoch' = [sessionEpoch EXCEPT ![job[p].target] = b]
          /\ commandTimers' =
               commandTimers \cup {[entry |-> job[p].target, epoch |-> b]}
    BY <1>22 DEF SpawnBash, Spawn, NextEpoch
  <2>2. b \in Bash /\ job[p].target \in Entries
    BY <1>22 DEF SpawnBash, FreeBash
  <2>3. PtyTypeOK'
    BY <2>1, <2>2
  <2>4. commandTimers' \in SUBSET Timers
    BY <2>1, <2>2
  <2> QED
    BY <1>22, <2>1, <2>2, <2>3, <2>4 DEF SpawnBash, Started
<1>23. ASSUME NEW p \in Procs, SpawnFails(p) PROVE TypeOK'
  BY <1>23, <1>a DEF SpawnFails
<1>24. ASSUME NEW p \in Procs, WaitRunDone(p) PROVE TypeOK'
  BY <1>24 DEF WaitRunDone, HooksOf
<1>25. ASSUME NEW p \in Procs, PostStartDone(p) PROVE TypeOK'
  BY <1>25 DEF PostStartDone
<1>26. ASSUME NEW p \in Procs, RemoveDone(p) PROVE TypeOK'
  BY <1>26 DEF RemoveDone
<1>27. ASSUME NEW p \in Procs, CreateDone(p) PROVE TypeOK'
  BY <1>27 DEF CreateDone, FreeEntries
<1>28. ASSUME NEW p \in Procs, ConfigureDone(p) PROVE TypeOK'
  BY <1>28 DEF ConfigureDone
<1>29. ASSUME NEW p \in Procs, DiskFails(p) PROVE TypeOK'
  BY <1>29 DEF DiskFails
<1>30. ASSUME NEW p \in Procs, CloseTimeout(p) PROVE TypeOK'
  BY <1>30, KillType DEF CloseTimeout
<1>31. ASSUME NEW p \in Procs, Closed(p) PROVE TypeOK'
  BY <1>31 DEF Closed
<1>32. ASSUME NEW t \in commandTimers, CommandTimer(t) PROVE TypeOK'
  BY <1>32 DEF CommandTimer
<1>33. CASE CrashTimer
  BY <1>33 DEF CrashTimer, RestartDue
<1>34. ASSUME NEW failed \in BOOLEAN, NEW tail \in BOOLEAN, BashExit(failed, tail) PROVE TypeOK'
  <2>1. PtyTypeOK' /\ crashTimers' \in Nat
    BY <1>34, ExitType DEF BashExit
  <2>2. state' \in [Entries -> States]
    BY <1>34 DEF BashExit
  <2>3. incident' \in {"none", "start", "stop", "crash"}
    BY <1>34 DEF BashExit
  <2> QED
    BY <1>34, <2>1, <2>2, <2>3 DEF BashExit, ForgetTerminal, Deactivate
<1>35. CASE PrintReady
  BY <1>35 DEF PrintReady, PrintLine
<1>36. CASE FlushLines
  BY <1>36, FlushType DEF FlushLines
<1>37. CASE UNCHANGED vars
  BY <1>37 DEF vars
<1> HIDE DEF TypeOK, PtyTypeOK, Procs, Jobs, Pcs, Waits, Idle, Coroutine, JobShape,
     Timers, Ops, Commands, States, OpKinds, Hooked, AllKinds, ptyVars, diskVars,
     entryVars, timerVars, logVars, Accept, Free, Acquire, Enter, Goto, Transition,
     Recorded, Finish, Release, Return, OpOf
<1> QED
  BY Zenon, <1>1, <1>2, <1>3, <1>4, <1>5, <1>6, <1>7, <1>8, <1>9, <1>10, <1>11,
     <1>12, <1>13, <1>14, <1>15, <1>16, <1>17, <1>18, <1>19, <1>20, <1>21, <1>22,
     <1>23, <1>24, <1>25, <1>26, <1>27, <1>28, <1>29, <1>30, <1>31, <1>32, <1>33,
     <1>34, <1>35, <1>36, <1>37 DEF Next, Request, Step, TerminalEvent

(***************************************************************************)
(* activeOperation as a lock.  Every step keeps what is held, or a request *)
(* takes the operation of an entry nobody holds, or a coroutine that holds *)
(* one gives it back.                                                      *)
(***************************************************************************)
Keeps ==
  /\ op' = op
  /\ \A q \in Procs : job[q].kind \in OpKinds \/ job'[q].kind \in OpKinds =>
       job'[q].kind = job[q].kind /\ job'[q].entry = job[q].entry

Takes(r, k) ==
  /\ servers \in Entries /\ op[servers] = "none"
  /\ op' = [op EXCEPT ![servers] = OpOf(k)]
  /\ job[r].kind = "none"
  /\ job'[r].kind = k /\ job'[r].entry = servers
  /\ \A q \in Procs \ {r} : job'[q] = job[q]

Gives(p) ==
  /\ job[p].kind \in OpKinds
  /\ op' = [op EXCEPT ![job[p].entry] = "none"]
  /\ job'[p].kind = "none"
  /\ \A q \in Procs \ {p} : job'[q] = job[q]

LockStep == \/ Keeps
            \/ \E r \in Requests, k \in OpKinds : Takes(r, k)
            \/ \E p \in Procs : Gives(p)

(* A coroutine that ends gives the operation of its own entry back. *)
LEMMA FinishLocks ==
  ASSUME TypeOK, NEW p \in Procs, Finish(p)
  PROVE  LockStep
BY DEF TypeOK, Finish, Release, LockStep, Keeps, Gives, Procs, Idle, Coroutine,
   OpKinds, Hooked

(* A coroutine that goes on within its operation. *)
LEMMA MoveLocks ==
  ASSUME TypeOK, NEW p \in Procs, op' = op,
         NEW pc, NEW e, \/ job' = [job EXCEPT ![p].pc = pc]
                        \/ job' = [job EXCEPT ![p].pc = pc, ![p].target = e]
  PROVE  LockStep
BY DEF TypeOK, Jobs, LockStep, Keeps

(* A start that is over does so, or, in an apply, goes on. *)
LEMMA StartedLocks ==
  ASSUME TypeOK, NEW p \in Procs, Started(p)
  PROVE  LockStep
<1>1. CASE job[p].kind \in Hooked /\ servers # None
  BY <1>1, MoveLocks DEF Started
<1>2. CASE ~(job[p].kind \in Hooked /\ servers # None)
  BY <1>2, FinishLocks DEF Started
<1> QED
  BY <1>1, <1>2

(* Every step does one of four things to the operations. *)
LEMMA LockNext ==
  ASSUME TypeOK, OperationExclusive, "force" \notin Kinds, Next
  PROVE  LockStep
<1> USE DEF TypeOK
<1>1. ASSUME NEW r \in Requests, RequestStart(r) PROVE LockStep
  BY <1>1 DEF RequestStart, Enter, Coroutine, Accept, Free, Acquire, Idle, OpOf,
     OpKinds, Hooked, Procs, LockStep, Takes
<1>2. ASSUME NEW r \in Requests, RequestStop(r) PROVE LockStep
  BY <1>2 DEF RequestStop, Enter, Coroutine, Accept, Free, Acquire, Idle, OpOf,
     OpKinds, Hooked, Procs, LockStep, Takes
<1>3. ASSUME NEW r \in Requests, RequestRestart(r) PROVE LockStep
  BY <1>3 DEF RequestRestart, Enter, Coroutine, Accept, Free, Acquire, Idle, OpOf,
     OpKinds, Hooked, Procs, LockStep, Takes
<1>4. ASSUME NEW r \in Requests, RequestRemove(r) PROVE LockStep
  BY <1>4 DEF RequestRemove, Coroutine, Accept, Idle, OpKinds, Hooked, Procs,
     LockStep, Keeps, Enter
<1>5. ASSUME NEW r \in Requests, RequestCreate(r) PROVE LockStep
  BY <1>5 DEF RequestCreate, Coroutine, Accept, Idle, OpKinds, Hooked, Procs,
     LockStep, Keeps, Enter, entryVars
<1>6. ASSUME NEW r \in Requests, RequestConfigure(r) PROVE LockStep
  BY <1>6 DEF RequestConfigure, Coroutine, Accept, Idle, OpKinds, Hooked, Procs,
     LockStep, Keeps, Enter
<1>7. ASSUME NEW r \in Requests, RequestClose(r) PROVE LockStep
  BY <1>7 DEF RequestClose, Coroutine, Accept, Idle, OpKinds, Hooked, Procs,
     LockStep, Keeps, Enter, entryVars
<1>8. ASSUME NEW r \in Requests, NEW k \in Hooked, RequestApply(r, k) PROVE LockStep
  <2>1. PICK pc : Enter(r, pc, k, servers)
    BY <1>8 DEF RequestApply
  <2>2. Takes(r, k)
    BY <1>8, <2>1 DEF RequestApply, Enter, Coroutine, Accept, Free, Acquire, Idle,
       Procs, Takes
  <2> QED
    BY <2>2 DEF LockStep, OpKinds
<1>9. ASSUME NEW p \in Procs, PreStopDone(p) PROVE LockStep
  BY <1>9 DEF PreStopDone, Goto, LockStep, Keeps, entryVars, JobShape, Idle,
     Coroutine, OpKinds, Hooked
<1>10. ASSUME NEW p \in Procs, HookFails(p) PROVE LockStep
  BY <1>10, FinishLocks DEF HookFails, Return
<1>11. ASSUME NEW p \in Procs, Halt(p) PROVE LockStep
  BY <1>11 DEF Halt, Goto, LockStep, Keeps, entryVars, JobShape, Idle, Coroutine,
     OpKinds, Hooked
<1>12. ASSUME NEW p \in Procs, HaltThrows(p) PROVE LockStep
  BY <1>12, FinishLocks DEF HaltThrows
<1>13. ASSUME NEW p \in Procs, ExitTimeout(p) PROVE LockStep
  BY <1>13 DEF ExitTimeout, Goto, LockStep, Keeps, entryVars, JobShape, Idle,
     Coroutine, OpKinds, Hooked
<1>14. ASSUME NEW p \in Procs, Halted(p) PROVE LockStep
  <2>1. \/ Finish(p)
        \/ UNCHANGED op /\ \E pc : Goto(p, pc)
    BY <1>14 DEF Halted
  <2> QED
    BY <2>1, FinishLocks, MoveLocks DEF Goto
<1>15. ASSUME NEW p \in Procs, PreStartDone(p) PROVE LockStep
  BY <1>15 DEF PreStartDone, Goto, LockStep, Keeps, entryVars, JobShape, Idle,
     Coroutine, OpKinds, Hooked
<1>16. ASSUME NEW p \in Procs, Boot(p) PROVE LockStep
  BY <1>16 DEF Boot, Goto, LockStep, Keeps, entryVars, JobShape, Idle, Coroutine,
     OpKinds, Hooked
<1>17. ASSUME NEW p \in Procs, BootThrows(p) PROVE LockStep
  BY <1>17, FinishLocks DEF BootThrows, Return
<1>18. ASSUME NEW p \in Procs, BuildDone(p) PROVE LockStep
  BY <1>18 DEF BuildDone, Goto, LockStep, Keeps, entryVars, JobShape, Idle,
     Coroutine, OpKinds, Hooked
<1>19. ASSUME NEW p \in Procs, BuildFails(p) PROVE LockStep
  BY <1>19, FinishLocks DEF BuildFails, StartThrows, Return
<1>20. ASSUME NEW p \in Procs, ReuseBash(p) PROVE LockStep
  BY <1>20, StartedLocks DEF ReuseBash
<1>21. ASSUME NEW p \in Procs, SpawnBash(p) PROVE LockStep
  BY <1>21, StartedLocks DEF SpawnBash
<1>22. ASSUME NEW p \in Procs, SpawnFails(p) PROVE LockStep
  BY <1>22, FinishLocks DEF SpawnFails, StartThrows, Return
<1>23. ASSUME NEW p \in Procs, WaitRunDone(p) PROVE LockStep
  <2>1. \/ Finish(p)
        \/ UNCHANGED op /\ Goto(p, "postStart")
    BY <1>23 DEF WaitRunDone
  <2> QED
    BY <2>1, FinishLocks, MoveLocks DEF Goto
<1>24. ASSUME NEW p \in Procs, PostStartDone(p) PROVE LockStep
  BY <1>24, FinishLocks DEF PostStartDone, Return
<1>25. ASSUME NEW p \in Procs, RemoveDone(p) PROVE LockStep
  BY <1>25, FinishLocks DEF RemoveDone
<1>26. ASSUME NEW p \in Procs, CreateDone(p) PROVE LockStep
  <2>1. PICK e \in FreeEntries : op' = [op EXCEPT ![e] = "none"]
    BY <1>26 DEF CreateDone
  <2>2. op[e] = "none"
    BY <2>1 DEF FreeEntries, OperationExclusive, Holds
  <2>3. op' = op
    BY <2>1, <2>2 DEF FreeEntries
  <2>4. job[p].kind = "create" /\ job' = [job EXCEPT ![p] = Idle]
    BY <1>26 DEF CreateDone, JobShape
  <2> QED
    BY <2>3, <2>4 DEF LockStep, Keeps, Idle, Coroutine, OpKinds, Hooked
<1>27. ASSUME NEW p \in Procs, ConfigureDone(p) PROVE LockStep
  BY <1>27 DEF ConfigureDone, Goto, LockStep, Keeps, entryVars, JobShape, Idle,
     Coroutine, OpKinds, Hooked
<1>28. ASSUME NEW p \in Procs, DiskFails(p) PROVE LockStep
  BY <1>28, FinishLocks DEF DiskFails, Return
<1>29. ASSUME NEW p \in Procs, CloseTimeout(p) PROVE LockStep
  BY <1>29 DEF CloseTimeout, Goto, LockStep, Keeps, entryVars, JobShape, Idle,
     Coroutine, OpKinds, Hooked
<1>30. ASSUME NEW p \in Procs, Closed(p) PROVE LockStep
  BY <1>30, FinishLocks DEF Closed, Return
<1>31. ASSUME NEW t \in commandTimers, CommandTimer(t) PROVE LockStep
  BY <1>31 DEF CommandTimer, LockStep, Keeps
<1>32. CASE CrashTimer
  BY <1>32 DEF CrashTimer, Enter, Coroutine, LockStep, Keeps, entryVars, Idle,
     OpKinds, Hooked, Procs
<1>33. CASE TerminalEvent
  BY <1>33 DEF TerminalEvent, BashExit, PrintReady, FlushLines, entryVars, LockStep,
     Keeps
<1>34. ASSUME NEW r \in Requests PROVE ~RequestForceStop(r)
  BY DEF RequestForceStop, Accept
<1> HIDE DEF TypeOK
<1> QED
  BY Zenon, <1>1, <1>2, <1>3, <1>4, <1>5, <1>6, <1>7, <1>8, <1>9, <1>10, <1>11,
     <1>12, <1>13, <1>14, <1>15, <1>16, <1>17, <1>18, <1>19, <1>20, <1>21, <1>22,
     <1>23, <1>24, <1>25, <1>26, <1>27, <1>28, <1>29, <1>30, <1>31, <1>32, <1>33,
     <1>34 DEF Next, Request, Step

(* None of them breaks the exclusion. *)
LEMMA ExclusiveNext ==
  ASSUME TypeOK, OperationExclusive, LockStep
  PROVE  OperationExclusive'
<1>1. CASE Keeps
  BY <1>1 DEF Keeps, TypeOK, OperationExclusive, Holds
<1>2. ASSUME NEW r \in Requests, NEW k \in OpKinds, Takes(r, k)
      PROVE  OperationExclusive'
  <2>1. r \in Procs /\ OpOf(k) # "none"
    BY DEF Procs, OpOf, OpKinds, Hooked
  <2>2. \A q \in Procs, e \in Entries :
          Holds(q, e)' <=> (q = r /\ e = servers) \/ Holds(q, e)
    BY <1>2 DEF Takes, Holds, OpKinds, Hooked
  <2>3. \A j \in OpKinds : OpOf(j) # "none"
    BY DEF OpOf, OpKinds, Hooked
  <2>4. \A q \in Procs : ~Holds(q, servers)
    BY <1>2, <2>3 DEF Takes, OperationExclusive, Holds
  <2>5. /\ servers \in Entries /\ job'[r].kind = k
        /\ op' = [op EXCEPT ![servers] = OpOf(k)]
        /\ \A q \in Procs \ {r} : job'[q] = job[q]
    BY <1>2 DEF Takes
  <2>6. \A p, q \in Procs, e \in Entries : Holds(p, e)' /\ Holds(q, e)' => p = q
    BY <2>2, <2>4 DEF OperationExclusive
  <2>7. ASSUME NEW p \in Procs, NEW e \in Entries, Holds(p, e)'
        PROVE  op'[e] = OpOf(job'[p].kind)
    <3>1. CASE e = servers
      <4>1. p = r
        BY <2>2, <2>4, <2>7, <3>1
      <4> QED
        BY <2>5, <3>1, <4>1 DEF TypeOK
    <3>2. CASE e # servers
      <4>1. Holds(p, e) /\ p # r
        BY <1>2, <2>2, <2>7, <3>2 DEF Takes, Holds, OpKinds, Hooked
      <4> QED
        BY <2>5, <3>2, <4>1 DEF OperationExclusive, TypeOK
    <3> QED
      BY <3>1, <3>2
  <2>8. ASSUME NEW e \in Entries, op'[e] # "none"
        PROVE  \E p \in Procs : Holds(p, e)'
    <3>1. CASE e = servers
      BY <2>1, <2>2, <3>1
    <3>2. CASE e # servers
      BY <2>2, <2>5, <2>8, <3>2 DEF OperationExclusive, TypeOK
    <3> QED
      BY <3>1, <3>2
  <2> QED
    BY <2>6, <2>7, <2>8 DEF OperationExclusive
<1>3. ASSUME NEW p \in Procs, Gives(p)
      PROVE  OperationExclusive'
  <2>1. \A q \in Procs, e \in Entries : Holds(q, e)' <=> q # p /\ Holds(q, e)
    BY <1>3 DEF Gives, Holds, OpKinds, Hooked
  <2>2. Holds(p, job[p].entry) /\ job[p].entry \in Entries
    BY <1>3 DEF Gives, Holds, TypeOK, JobShape
  <2> QED
    <3>1. \A d \in Entries : Holds(p, d) => d = job[p].entry
      BY DEF Holds
    <3>2. /\ op' = [op EXCEPT ![job[p].entry] = "none"]
          /\ \A q \in Procs \ {p} : job'[q] = job[q]
      BY <1>3 DEF Gives
    <3>3. \A d \in Entries : \A q \in Procs :
            Holds(q, d)' => d # job[p].entry
      BY <2>1, <2>2 DEF OperationExclusive
    <3>4. \A d \in Entries :
            op'[d] # "none" => \E q \in Procs : Holds(q, d)'
      BY <2>1, <3>1, <3>2 DEF OperationExclusive, TypeOK
    <3>5. \A d \in Entries, q \in Procs :
            Holds(q, d)' => op'[d] = OpOf(job'[q].kind)
      BY <2>1, <3>2, <3>3 DEF OperationExclusive, TypeOK
    <3>6. \A d \in Entries, q, s \in Procs : Holds(q, d)' /\ Holds(s, d)' => q = s
      BY <2>1 DEF OperationExclusive
    <3> QED
      BY <3>4, <3>5, <3>6 DEF OperationExclusive
<1> QED
  BY <1>1, <1>2, <1>3 DEF LockStep

(* Every step is a step of the lock seen through the refinement mapping.   *)
LEMMA LockRefined ==
  ASSUME TypeOK, OperationExclusive, LockStep
  PROVE  Lock!Next \/ UNCHANGED Lock!vars
<1> DEFINE H == [e \in Entries |-> {p \in Procs : Holds(p, e)}]
<1>1. CASE Keeps
  <2>1. \A q \in Procs, e \in Entries : Holds(q, e)' <=> Holds(q, e)
    BY <1>1 DEF Keeps, Holds
  <2>2. H' = H
    BY <2>1
  <2> QED
    BY <1>1, <2>2 DEF Keeps, Lock!vars
<1>2. ASSUME NEW r \in Requests, NEW k \in OpKinds, Takes(r, k)
      PROVE  Lock!Next
  <2>1. /\ r \in Procs /\ servers \in Entries
        /\ OpOf(k) \in Ops \ {"none"} /\ op' = [op EXCEPT ![servers] = OpOf(k)]
    BY <1>2 DEF Takes, Procs, OpOf, Ops, OpKinds, Hooked
  <2>2. \A q \in Procs, e \in Entries :
          Holds(q, e)' <=> (q = r /\ e = servers) \/ Holds(q, e)
    BY <1>2 DEF Takes, Holds, OpKinds, Hooked
  <2>3. \A q \in Procs : ~Holds(q, servers)
    <3>1. \A j \in OpKinds : OpOf(j) # "none"
      BY DEF OpOf, OpKinds, Hooked
    <3> QED
      BY <1>2, <3>1 DEF Takes, OperationExclusive, Holds
  <2>4. \A e \in Entries : ~Holds(r, e)
    BY <1>2 DEF Takes, Holds, OpKinds, Hooked
  <2>5. H' = [H EXCEPT ![servers] = {r}]
    BY <2>1, <2>2, <2>3
  <2>6. Lock!Take(r, servers, OpOf(k))
    BY <2>1, <2>3, <2>4, <2>5 DEF Lock!Take
  <2> QED
    BY <2>1, <2>6 DEF Lock!Next
<1>3. ASSUME NEW p \in Procs, Gives(p)
      PROVE  Lock!Next
  <2> DEFINE e == job[p].entry
  <2>1. e \in Entries /\ Holds(p, e) /\ op' = [op EXCEPT ![e] = "none"]
    BY <1>3 DEF Gives, Holds, TypeOK, JobShape
  <2>2. \A q \in Procs, d \in Entries : Holds(q, d)' <=> q # p /\ Holds(q, d)
    BY <1>3 DEF Gives, Holds, OpKinds, Hooked
  <2>3. \A d \in Entries : Holds(p, d) => d = e
    BY DEF Holds
  <2>4. \A q \in Procs : Holds(q, e) => q = p
    BY <2>1 DEF OperationExclusive
  <2>5. H' = [H EXCEPT ![e] = {}]
    BY <2>1, <2>2, <2>3, <2>4
  <2>6. H[e] = {p}
    BY <2>1, <2>4
  <2>7. Lock!Give(p, e)
    BY <2>1, <2>5, <2>6 DEF Lock!Give
  <2> QED
    BY <2>1, <2>7 DEF Lock!Next
<1> QED
  BY <1>1, <1>2, <1>3 DEF LockStep

(***************************************************************************)
(* The theorems.                                                           *)
(***************************************************************************)
(* Every field, timer and coroutine keeps its type, and a coroutine has    *)
(* captured the entry its continuation dereferences.                       *)
THEOREM TypeCorrect == Spec => []TypeOK
<1>1. Init => TypeOK
  BY TypeInit
<1>2. TypeOK /\ [Next]_vars => TypeOK'
  BY TypeNext
<1> QED
  BY <1>1, <1>2, PTL DEF Spec

(* Without forceStop, which no route calls, activeOperation is a lock: two *)
(* requests never run an operation on one instance at once, for any number *)
(* of requests, entries and bashes.                                        *)
THEOREM OperationsExclusive ==
  ASSUME "force" \notin Kinds
  PROVE  Spec => []OperationExclusive
<1>1. Init => OperationExclusive
  BY DEF Init, OperationExclusive, Holds, Idle, Coroutine, OpKinds, Hooked
<1>2. TypeOK /\ OperationExclusive /\ [Next]_vars => OperationExclusive'
  <2> SUFFICES ASSUME TypeOK, OperationExclusive, [Next]_vars
               PROVE  OperationExclusive'
    OBVIOUS
  <2>1. CASE Next
    BY <2>1, LockNext, ExclusiveNext
  <2>2. CASE UNCHANGED vars
    BY <2>2 DEF vars, entryVars, OperationExclusive, Holds
  <2> QED
    BY <2>1, <2>2
<1> QED
  BY <1>1, <1>2, TypeCorrect, PTL DEF Spec

(* ServerManager implements OperationLock. *)
THEOREM LockImplemented ==
  ASSUME "force" \notin Kinds
  PROVE  Spec => ImplementsLock
<1>1. Init => Lock!Init
  BY DEF Init, Lock!Init, Holds, Idle, Coroutine, OpKinds, Hooked
<1>2. TypeOK /\ OperationExclusive /\ [Next]_vars => [Lock!Next]_(Lock!vars)
  <2> SUFFICES ASSUME TypeOK, OperationExclusive, [Next]_vars
               PROVE  Lock!Next \/ UNCHANGED Lock!vars
    OBVIOUS
  <2>1. CASE Next
    BY <2>1, LockNext, LockRefined
  <2>2. CASE UNCHANGED vars
    BY <2>2 DEF vars, entryVars, Lock!vars, Holds
  <2> QED
    BY <2>1, <2>2
<1> QED
  BY <1>1, <1>2, TypeCorrect, OperationsExclusive, PTL
  DEF Spec, ImplementsLock, Lock!Spec
=============================================================================
