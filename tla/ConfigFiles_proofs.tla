------------------------- MODULE ConfigFiles_proofs -------------------------
(***************************************************************************)
(* Proofs about ConfigFiles, for any number of requests and files and any  *)
(* order of failures, timeouts and restarts.  The argument: a lock bears   *)
(* the name of the one writer inside (LockInv), since a writer that was    *)
(* never inside does not release; so nobody else touches the temporary     *)
(* file of an AtomicFileWriter (TempInv), nor, where the writers without a *)
(* lock do not write, the file between its backup and its replacement      *)
(* (SavedInv).                                                             *)
(***************************************************************************)
EXTENDS ConfigFiles, TLAPS

(* The stages a kind of request goes through.                              *)
MayBeAt(k, s) ==
  \/ s = "wait" /\ k \in Locked
  \/ s = "backup" /\ k \in {"config", "ldm"}
  \/ s \in {"open", "fill", "rename"} /\ k \in Locked \cup {"upload"}
  \/ s \in {"prune", "unlink", "rollback", "restore"} /\ k = "ldm"
  \/ s \in {"delete", "move"} /\ k = s
  \/ s \in {"keep", "kept", "copy"} /\ k = "mods"

Shape == \A p \in Writers : job[p].at # "idle" => MayBeAt(job[p].kind, job[p].at)

LockInv ==
  /\ WritersExclude
  /\ LocksAreHeld
  /\ \A p \in Writers : IsInside(p) => locks[job[p].path] = Owner(job[p].kind)

TempInv ==
  \A p \in Writers : job[p].kind = "ldm" /\ job[p].at = "rename"
                       => temp[job[p].path] = p

SavedInv ==
  \A p \in Writers :
    /\ job[p].kind \in {"config", "ldm"} /\ job[p].at \in {"open", "fill", "rename"}
    /\ KindsAt[job[p].path] \cap {"upload", "mods", "move"} = {}
    /\ file[job[p].path] # None
    => job[p].saved = file[job[p].path]

IInv == TypeOK /\ Shape /\ LockInv /\ TempInv /\ SavedInv

(***************************************************************************)
(* Type correctness.                                                       *)
(***************************************************************************)
LEMMA InitInv == Init => IInv
BY ConstantsAssumption DEF Init, IInv, TypeOK, Shape, LockInv, TempInv, SavedInv,
   WritersExclude, LocksAreHeld, IsInside, Idle, JobRecords, Stages, Inside,
   Contents, Versions

LEMMA BackupKept ==
  ASSUME job \in [Writers -> JobRecords], NEW p \in Writers,
         NEW s \in Stages, NEW saved \in Contents,
         job' = [job EXCEPT ![p].at = s, ![p].saved = saved]
  PROVE  /\ job' \in [Writers -> JobRecords]
         /\ \A q \in Writers \ {p} : job'[q] = job[q]
         /\ job'[p].kind = job[p].kind /\ job'[p].path = job[p].path
         /\ job'[p].at = s /\ job'[p].saved = saved
<1>1. job[p] \in JobRecords
  OBVIOUS
<1>2. job'[p] = [job[p] EXCEPT !.at = s, !.saved = saved]
  OBVIOUS
<1>3. job'[p] \in JobRecords
  BY <1>1, <1>2 DEF JobRecords
<1>4. \A q \in Writers : job'[q] = IF q = p THEN job'[p] ELSE job[q]
  BY <1>2
<1>5. job' \in [Writers -> JobRecords]
  BY <1>3, <1>4
<1> QED BY <1>1, <1>2, <1>4, <1>5 DEF JobRecords

(* A step of p is one of these: only p's request and p's file change.      *)
LocalTo(p) ==
  /\ \A q \in Writers \ {p} : job'[q] = job[q]
  /\ \A f \in Paths \ {job[p].path} :
       locks'[f] = locks[f] /\ file'[f] = file[f] /\ temp'[f] = temp[f]
  /\ \/ job'[p] = Idle
     \/ /\ job'[p].kind = job[p].kind /\ job'[p].path = job[p].path
        /\ MayBeAt(job[p].kind, job'[p].at)

LEMMA StepIsLocal ==
  ASSUME TypeOK, Shape, NEW p \in Writers, Step(p)
  PROVE  /\ TypeOK' /\ LocalTo(p)
         /\ job[p].at # "idle" /\ job[p].path \in Paths
         /\ job[p].kind \in KindsAt[job[p].path] /\ job[p].kind \in Kinds
<1> DEFINE f == job[p].path
           k == job[p].kind
<1>1. job[p].at # "idle"
  BY DEF Step, Delete, Acquire, AcquireTimeout, Backup, OpenTemp, FillTemp, Rename,
     Prune, WriteFails, BackupFails, TempFails, UnlinkTemp, RollbackSkipped,
     Rollback, Restore, Move, Keep, DeletionEnds, CopyBack, CopyEnds
<1>2. f \in Paths /\ k \in KindsAt[f] /\ k \in Kinds
  BY <1>1, ConstantsAssumption DEF TypeOK
<1>3. MayBeAt(k, job[p].at)
  BY <1>1 DEF Shape
<1>4. ASSUME Release(p)
      PROVE  /\ locks' \in [Paths -> {Owner(j) : j \in Locked} \cup {None}]
             /\ \A g \in Paths \ {f} : locks'[g] = locks[g]
  BY <1>4, <1>2 DEF Release, TypeOK
<1>5. ASSUME Leave(p)
      PROVE  /\ job' \in [Writers -> JobRecords]
             /\ \A q \in Writers \ {p} : job'[q] = job[q]
             /\ job'[p] = Idle
  BY <1>5 DEF Leave, TypeOK, JobRecords, Idle, Stages, Contents
<1>6. ASSUME NEW s, MayBeAt(k, s), Goto(p, s)
      PROVE  /\ job' \in [Writers -> JobRecords]
             /\ \A q \in Writers \ {p} : job'[q] = job[q]
             /\ job'[p].kind = k /\ job'[p].path = f /\ job'[p].at = s
             /\ s # "idle"
  BY <1>6, <1>2 DEF Goto, TypeOK, JobRecords, Stages, Inside, MayBeAt, Kinds
<1>7. ASSUME job' \in [Writers -> JobRecords],
             \A q \in Writers \ {p} : job'[q] = job[q],
             \/ job'[p] = Idle
             \/ job'[p].kind = k /\ job'[p].path = f /\ job'[p].at # "idle"
      PROVE  \A q \in Writers : IF job'[q].at = "idle" THEN job'[q] = Idle
               ELSE job'[q].path \in Paths /\ job'[q].kind \in KindsAt[job'[q].path]
  BY <1>7, <1>2 DEF TypeOK, Idle
<1>8. CASE Delete(p)
  BY <1>8, <1>2, <1>5, <1>7 DEF Delete, LocalTo, TypeOK, Contents
<1>9. CASE Acquire(p)
  <2>1. k \in Locked
    BY <1>9, <1>3 DEF Acquire, MayBeAt
  <2>2. \E s \in {"open", "backup"} : MayBeAt(k, s) /\ Goto(p, s)
    BY <1>9, <2>1 DEF Acquire, MayBeAt, Locked
  <2> QED BY <1>9, <1>2, <2>1, <2>2, <1>6, <1>7 DEF Acquire, LocalTo, TypeOK
<1>10. CASE AcquireTimeout(p)
  BY <1>10, <1>2, <1>5, <1>7 DEF AcquireTimeout, LocalTo, TypeOK
<1>11. CASE Backup(p)
  <2>1. /\ k \in {"config", "ldm"}
        /\ \E saved \in Contents :
             job' = [job EXCEPT ![p].at = "open", ![p].saved = saved]
    BY <1>11, <1>2, <1>3 DEF Backup, MayBeAt, TypeOK, Contents, Versions
  <2>2. PICK saved \in Contents :
          job' = [job EXCEPT ![p].at = "open", ![p].saved = saved]
    BY <2>1
  <2>3. "open" \in Stages /\ job \in [Writers -> JobRecords]
    BY DEF Stages, Inside, TypeOK
  <2>4. /\ job' \in [Writers -> JobRecords]
        /\ \A q \in Writers \ {p} : job'[q] = job[q]
        /\ job'[p].kind = k /\ job'[p].path = f /\ job'[p].at = "open"
    BY <2>2, <2>3, BackupKept
  <2> QED BY <1>11, <1>2, <2>1, <2>4, <1>7 DEF Backup, LocalTo, TypeOK, MayBeAt, Locked
<1>12. CASE OpenTemp(p)
  BY <1>12, <1>2, <1>3, <1>6, <1>7 DEF OpenTemp, Temp, LocalTo, TypeOK, MayBeAt, Kinds
<1>13. CASE FillTemp(p)
  BY <1>13, <1>2, <1>3, <1>6, <1>7 DEF FillTemp, Temp, LocalTo, TypeOK, MayBeAt, Kinds
<1>14. CASE Rename(p)
  BY <1>14, <1>2, <1>3, <1>4, <1>5, <1>6, <1>7 DEF Rename, Written, Temp, End, LocalTo, TypeOK, MayBeAt, Contents, Versions
<1>15. CASE Prune(p)
  BY <1>15, <1>2, <1>4, <1>5, <1>7 DEF Prune, End, LocalTo, TypeOK
<1>16. CASE WriteFails(p)
  BY <1>16, <1>2, <1>4, <1>5, <1>7 DEF WriteFails, End, LocalTo, TypeOK
<1>17. CASE BackupFails(p)
  <2>1. /\ k \in {"config", "ldm"}
        /\ \E saved \in Contents :
             job' = [job EXCEPT ![p].at = "rollback", ![p].saved = saved]
    BY <1>17, <1>2, <1>3 DEF BackupFails, MayBeAt, TypeOK, Contents, Versions
  <2>2. PICK saved \in Contents :
          job' = [job EXCEPT ![p].at = "rollback", ![p].saved = saved]
    BY <2>1
  <2>3. "rollback" \in Stages /\ job \in [Writers -> JobRecords]
    BY DEF Stages, Inside, TypeOK
  <2>4. /\ job' \in [Writers -> JobRecords]
        /\ \A q \in Writers \ {p} : job'[q] = job[q]
        /\ job'[p].kind = k /\ job'[p].path = f /\ job'[p].at = "rollback"
    BY <2>2, <2>3, BackupKept
  <2> QED BY <1>17, <1>2, <2>1, <2>4, <1>7 DEF BackupFails, LocalTo, TypeOK, MayBeAt
<1>18. CASE TempFails(p)
  BY <1>18, <1>2, <1>3, <1>6, <1>7 DEF TempFails, LocalTo, TypeOK, MayBeAt
<1>19. CASE UnlinkTemp(p)
  BY <1>19, <1>2, <1>3, <1>6, <1>7 DEF UnlinkTemp, LocalTo, TypeOK, MayBeAt
<1>20. CASE RollbackSkipped(p)
  BY <1>20, <1>2, <1>4, <1>5, <1>7 DEF RollbackSkipped, End, LocalTo, TypeOK
<1>21. CASE Rollback(p)
  BY <1>21, <1>2, <1>3, <1>6, <1>7 DEF Rollback, LocalTo, TypeOK, MayBeAt, Contents
<1>22. CASE Restore(p)
  BY <1>22, <1>2, <1>4, <1>5, <1>7 DEF Restore, End, LocalTo, TypeOK, Contents, JobRecords
<1>23. CASE Move(p)
  BY <1>23, <1>2, <1>5, <1>7 DEF Move, LocalTo, TypeOK, Contents, Versions
<1>24. CASE Keep(p)
  <2>1. CASE Leave(p)
    BY <1>24, <2>1, <1>2, <1>5, <1>7 DEF Keep, LocalTo, TypeOK
  <2>2. CASE job' = [job EXCEPT ![p].at = "kept", ![p].saved = file[f]]
    <3>1. file[f] \in Contents /\ "kept" \in Stages /\ job \in [Writers -> JobRecords]
      BY <1>2 DEF Stages, TypeOK
    <3>2. /\ job' \in [Writers -> JobRecords]
          /\ \A q \in Writers \ {p} : job'[q] = job[q]
          /\ job'[p].kind = k /\ job'[p].path = f /\ job'[p].at = "kept"
      BY <2>2, <3>1, BackupKept
    <3>3. k = "mods"
      BY <1>24, <1>3 DEF Keep, MayBeAt
    <3> QED BY <1>24, <1>2, <3>2, <3>3, <1>7 DEF Keep, LocalTo, TypeOK, MayBeAt
  <2> QED BY <1>24, <2>1, <2>2 DEF Keep
<1>25. CASE DeletionEnds(p)
  BY <1>25, <1>2, <1>5, <1>7 DEF DeletionEnds, LocalTo, TypeOK
<1>26. CASE CopyBack(p)
  BY <1>26, <1>2, <1>3, <1>6, <1>7 DEF CopyBack, LocalTo, TypeOK, MayBeAt, Contents
<1>27. CASE CopyEnds(p)
  BY <1>27, <1>2, <1>5, <1>7 DEF CopyEnds, LocalTo, TypeOK, Contents, JobRecords
<1> QED BY <1>1, <1>2, <1>8, <1>9, <1>10, <1>11, <1>12, <1>13, <1>14, <1>15, <1>16,
           <1>17, <1>18, <1>19, <1>20, <1>21, <1>22, <1>23, <1>24, <1>25, <1>26,
           <1>27 DEF Step
(***************************************************************************)
(* The locks.                                                              *)
(***************************************************************************)
(* What a step does to the lock of its file: nothing, take it, give it back.*)
LEMMA LockStep ==
  ASSUME TypeOK, Shape, NEW p \in Writers, Step(p)
  PROVE  \/ locks' = locks /\ (IsInside(p) <=> IsInside(p)')
         \/ /\ ~IsInside(p) /\ IsInside(p)' /\ job'[p] # Idle
            /\ locks[job[p].path] = None
            /\ locks' = [locks EXCEPT ![job[p].path] = Owner(job[p].kind)]
         \/ IsInside(p) /\ Release(p) /\ job'[p] = Idle /\ ~IsInside(p)'
<1> DEFINE k == job[p].kind
<1>1. LocalTo(p) /\ job[p].at # "idle" /\ job[p].path \in Paths /\ k \in Kinds
  BY StepIsLocal
<1>2. MayBeAt(k, job[p].at)
  BY <1>1 DEF Shape
<1>3. ASSUME End(p), job[p].at \in Inside
      PROVE  \/ locks' = locks /\ ~IsInside(p) /\ ~IsInside(p)'
             \/ IsInside(p) /\ Release(p) /\ job'[p] = Idle /\ ~IsInside(p)'
  BY <1>3 DEF End, Leave, Release, IsInside, Idle, TypeOK, Inside
<1>4. ASSUME NEW s \in Inside, Goto(p, s), locks' = locks, job[p].at \in Inside
      PROVE  locks' = locks /\ (IsInside(p) <=> IsInside(p)')
  BY <1>4 DEF Goto, IsInside, TypeOK, JobRecords
<1>5. CASE Delete(p) \/ AcquireTimeout(p)
  BY <1>5 DEF Delete, AcquireTimeout, Leave, IsInside, Idle, Inside, TypeOK
<1>5a. CASE Move(p) \/ DeletionEnds(p) \/ CopyEnds(p)
  BY <1>5a DEF Move, DeletionEnds, CopyEnds, Leave, IsInside, Idle, Inside, TypeOK
<1>5b. CASE Keep(p) \/ CopyBack(p)
  <2>1. job[p].at \in {"keep", "kept"} /\ job'[p].at \in {"idle", "kept", "copy"}
        /\ locks' = locks
    BY <1>5b DEF Keep, CopyBack, Goto, Leave, Idle, TypeOK, JobRecords
  <2> QED BY <2>1 DEF IsInside, Inside
<1>6. CASE Acquire(p)
  <2>1. k \in Locked
    BY <1>2, <1>6 DEF Acquire, MayBeAt
  <2>2. job'[p].kind = k /\ job'[p].at \in {"open", "backup"}
    BY <1>6 DEF Acquire, Goto, TypeOK, JobRecords
  <2> QED BY <1>6, <2>1, <2>2 DEF Acquire, IsInside, Inside, Idle
<1>7. CASE Backup(p) \/ BackupFails(p)
  <2>1. job[p].at = "backup" /\ job'[p].at \in {"open", "rollback"} /\ locks' = locks
    BY <1>7 DEF Backup, BackupFails, TypeOK, JobRecords
  <2>2. job'[p].kind = k
    BY <1>7 DEF Backup, BackupFails, TypeOK, JobRecords
  <2> QED BY <2>1, <2>2 DEF IsInside, Inside
<1>8. CASE OpenTemp(p) \/ FillTemp(p) \/ TempFails(p) \/ UnlinkTemp(p) \/ Rollback(p)
  BY <1>8, <1>4 DEF OpenTemp, FillTemp, TempFails, UnlinkTemp, Rollback, Inside
<1>9. CASE Rename(p)
  BY <1>9, <1>3, <1>4 DEF Rename, Inside
<1>10. CASE Prune(p) \/ WriteFails(p) \/ RollbackSkipped(p) \/ Restore(p)
  BY <1>10, <1>3 DEF Prune, WriteFails, RollbackSkipped, Restore, Inside
<1> QED BY <1>5, <1>5a, <1>5b, <1>6, <1>7, <1>8, <1>9, <1>10 DEF Step

LEMMA StepKeepsLock ==
  ASSUME TypeOK, Shape, LockInv, NEW p \in Writers, Step(p)
  PROVE  LockInv'
<1> DEFINE f == job[p].path
<1>1. /\ TypeOK' /\ LocalTo(p) /\ f \in Paths
  BY StepIsLocal
<1>2. \A q \in Writers \ {p} : IsInside(q)' <=> IsInside(q)
  BY <1>1 DEF LocalTo, IsInside
<1>3. IsInside(p)' => job'[p].kind = job[p].kind /\ job'[p].path = f
  BY <1>1 DEF LocalTo, IsInside, Idle, Inside
<1>4. \A k \in Locked : Owner(k) # None
  BY ConstantsAssumption
<1>5. CASE locks' = locks /\ (IsInside(p) <=> IsInside(p)')
  BY <1>1, <1>2, <1>3, <1>5 DEF LockInv, WritersExclude, LocksAreHeld, LocalTo
<1>6. CASE /\ ~IsInside(p) /\ IsInside(p)' /\ job'[p] # Idle
           /\ locks[f] = None
           /\ locks' = [locks EXCEPT ![f] = Owner(job[p].kind)]
  <2>1. \A q \in Writers \ {p} : IsInside(q) => job[q].path # f
    BY <1>6, <1>4 DEF LockInv, IsInside
  <2>2. \A g \in Paths : locks'[g] = IF g = f THEN Owner(job[p].kind) ELSE locks[g]
    BY <1>6 DEF TypeOK
  <2>3. WritersExclude'
    BY <1>1, <1>2, <1>3, <2>1 DEF LockInv, WritersExclude, LocalTo
  <2>4. LocksAreHeld'
    BY <1>1, <1>2, <1>3, <1>6, <2>2 DEF LockInv, LocksAreHeld, LocalTo
  <2>5. ASSUME NEW q \in Writers, IsInside(q)'
        PROVE  locks'[job'[q].path] = Owner(job'[q].kind)
    <3>1. CASE q = p
      BY <3>1, <1>1, <1>3, <2>2, <2>5
    <3>2. CASE q # p
      <4>1. IsInside(q) /\ job'[q] = job[q] /\ job[q].path # f
        BY <3>2, <1>1, <1>2, <2>1, <2>5 DEF LocalTo
      <4>2. job[q].path \in Paths
        BY <4>1 DEF TypeOK, IsInside, Inside
      <4> QED BY <4>1, <4>2, <2>2 DEF LockInv
    <3> QED BY <3>1, <3>2
  <2> QED BY <2>3, <2>4, <2>5 DEF LockInv
<1>7. CASE IsInside(p) /\ Release(p) /\ job'[p] = Idle /\ ~IsInside(p)'
  <2>1. locks' = [locks EXCEPT ![f] = None]
    BY <1>7 DEF LockInv, Release, IsInside
  <2>2. \A g \in Paths : locks'[g] = IF g = f THEN None ELSE locks[g]
    BY <2>1 DEF TypeOK
  <2>3. \A q \in Writers : IsInside(q)' =>
          IsInside(q) /\ job'[q] = job[q] /\ job[q].path # f /\ job[q].path \in Paths
    BY <1>1, <1>2, <1>7 DEF LockInv, WritersExclude, LocalTo, TypeOK, IsInside, Inside
  <2>4. WritersExclude' /\ \A q \in Writers : IsInside(q)' =>
          locks'[job'[q].path] = Owner(job'[q].kind)
    BY <2>2, <2>3 DEF LockInv, WritersExclude
  <2>5. LocksAreHeld'
    <3> SUFFICES ASSUME NEW g \in Paths, locks'[g] # None
                 PROVE  \E q \in Writers : IsInside(q)' /\ job'[q].path = g
                          /\ locks'[g] = Owner(job'[q].kind)
      BY DEF LocksAreHeld
    <3>1. g # f /\ locks'[g] = locks[g]
      BY <2>2
    <3>2. PICK q \in Writers : IsInside(q) /\ job[q].path = g
                                /\ locks[g] = Owner(job[q].kind)
      BY <3>1 DEF LockInv, LocksAreHeld
    <3> QED BY <3>1, <3>2, <1>1, <1>2 DEF LocalTo
  <2> QED BY <2>4, <2>5 DEF LockInv
<1> QED BY <1>5, <1>6, <1>7, LockStep
(***************************************************************************)
(* The temporary file and the backup.                                      *)
(***************************************************************************)
LEMMA StepKeepsShape ==
  ASSUME TypeOK, Shape, NEW p \in Writers, Step(p)
  PROVE  Shape'
BY StepIsLocal DEF Shape, LocalTo, Idle

LEMMA StepKeepsTemp ==
  ASSUME TypeOK, Shape, LockInv, TempInv, NEW p \in Writers, Step(p)
  PROVE  TempInv'
<1> DEFINE f == job[p].path
           k == job[p].kind
<1>1. LocalTo(p) /\ f \in Paths /\ MayBeAt(k, job[p].at)
  BY StepIsLocal DEF Shape
<1>2. temp' # temp => IsInside(p) /\ k = "ldm"
  BY <1>1 DEF Step, Delete, Acquire, AcquireTimeout, Backup, OpenTemp, FillTemp,
     Rename, Prune, WriteFails, BackupFails, TempFails, UnlinkTemp,
     RollbackSkipped, Rollback, Restore, Move, Keep, DeletionEnds, CopyBack,
     CopyEnds, Temp, IsInside, Inside, Locked, MayBeAt
<1>3. ASSUME NEW q \in Writers, job'[q].kind = "ldm", job'[q].at = "rename"
      PROVE  temp'[job'[q].path] = q
  <2>1. CASE q # p
    <3>1. job'[q] = job[q] /\ temp[job[q].path] = q
      BY <1>1, <1>3, <2>1 DEF LocalTo, TempInv
    <3>2. IsInside(q) /\ job[q].path \in Paths
      BY <1>3, <3>1 DEF IsInside, Inside, Locked, TypeOK
    <3>3. CASE temp' = temp
      BY <3>1, <3>3
    <3>4. CASE temp' # temp
      <4>1. job[q].path # f
        BY <1>2, <2>1, <3>2, <3>4 DEF LockInv, WritersExclude
      <4> QED BY <1>1, <3>1, <3>2, <4>1 DEF LocalTo
    <3> QED BY <3>3, <3>4
  <2>2. CASE q = p
    <3>1. FillTemp(p)
      BY <1>3, <2>2 DEF Step, Delete, Acquire, AcquireTimeout, Backup, OpenTemp,
         FillTemp, Rename, Prune, WriteFails, BackupFails, TempFails, UnlinkTemp,
         RollbackSkipped, Rollback, Restore, Move, Keep, DeletionEnds, CopyBack,
         CopyEnds, End, Goto, Leave, Idle, TypeOK, JobRecords
    <3> QED BY <1>1, <1>3, <2>2, <3>1 DEF FillTemp, Temp, Goto, TypeOK, JobRecords
  <2> QED BY <2>1, <2>2
<1> QED BY <1>3 DEF TempInv

(* A file changes by a writer inside, by one without a lock or by being    *)
(* deleted.                                                                *)
LEMMA FileChange ==
  ASSUME TypeOK, Shape, NEW p \in Writers, Step(p)
  PROVE  file' # file => \/ IsInside(p)
                         \/ job[p].kind \in {"upload", "mods", "move"}
                         \/ file'[job[p].path] = None
<1>1. job[p].path \in Paths /\ job[p].kind \in Kinds /\ MayBeAt(job[p].kind, job[p].at)
  BY StepIsLocal DEF Shape
<1> QED BY <1>1 DEF Step, Delete, Acquire, AcquireTimeout, Backup, OpenTemp, FillTemp,
     Rename, Prune, WriteFails, BackupFails, TempFails, UnlinkTemp,
     RollbackSkipped, Rollback, Restore, Move, Keep, DeletionEnds, CopyBack,
     CopyEnds, IsInside, Inside, Locked, Kinds, MayBeAt, TypeOK

LEMMA StepKeepsSaved ==
  ASSUME TypeOK, Shape, LockInv, SavedInv, NEW p \in Writers, Step(p)
  PROVE  SavedInv'
<1> DEFINE f == job[p].path
<1>1. LocalTo(p) /\ f \in Paths /\ job[p].kind \in KindsAt[f]
  BY StepIsLocal
<1> SUFFICES ASSUME NEW q \in Writers,
                    job'[q].kind \in {"config", "ldm"},
                    job'[q].at \in {"open", "fill", "rename"},
                    KindsAt[job'[q].path] \cap {"upload", "mods", "move"} = {},
                    file'[job'[q].path] # None
             PROVE  job'[q].saved = file'[job'[q].path]
  BY DEF SavedInv
<1>2. CASE q # p
  <2>1. job'[q] = job[q] /\ IsInside(q) /\ job[q].path \in Paths
    BY <1>1, <1>2 DEF LocalTo, IsInside, Inside, Locked, TypeOK
  <2>2. CASE job[q].path # f \/ file' = file
    BY <1>1, <2>1, <2>2 DEF LocalTo, SavedInv
  <2>3. CASE job[q].path = f /\ file' # file
    <3>1. ~IsInside(p)
      BY <1>2, <2>1, <2>3 DEF LockInv, WritersExclude
    <3>2. job[p].kind \notin {"upload", "mods", "move"} /\ file'[f] # None
      BY <1>1, <2>1, <2>3
    <3> QED BY <3>1, <3>2, <2>3, FileChange
  <2> QED BY <2>2, <2>3
<1>3. CASE q = p
  <2>1. Backup(p) \/ OpenTemp(p) \/ FillTemp(p) \/ Acquire(p)
    BY <1>3 DEF Step, Delete, AcquireTimeout, Rename, Prune, WriteFails, BackupFails,
       TempFails, UnlinkTemp, RollbackSkipped, Rollback, Restore, Move, Keep,
       DeletionEnds, CopyBack, CopyEnds, End, Goto, Leave, Idle, TypeOK,
       JobRecords
  <2>2. ~Acquire(p)
    BY <1>3 DEF Acquire, Goto, TypeOK, JobRecords
  <2>3. CASE Backup(p)
    BY <1>3, <2>3 DEF Backup, TypeOK, JobRecords
  <2>4. CASE OpenTemp(p) \/ FillTemp(p)
    <3>1. job'[p] = [job[p] EXCEPT !.at = job'[p].at] /\ file' = file
      BY <2>4 DEF OpenTemp, FillTemp, Goto, TypeOK, JobRecords
    <3>2. job[p].at \in {"open", "fill"} /\ job'[p].kind = job[p].kind
          /\ job'[p].path = f /\ job'[p].saved = job[p].saved
      BY <2>4, <3>1 DEF OpenTemp, FillTemp, TypeOK, JobRecords
    <3> QED BY <1>3, <3>1, <3>2 DEF SavedInv
  <2> QED BY <2>1, <2>2, <2>3, <2>4
<1> QED BY <1>2, <1>3

(***************************************************************************)
(* Requests and restarts.                                                  *)
(***************************************************************************)
LEMMA RequestKeeps ==
  ASSUME IInv, NEW p \in Writers, Request(p)
  PROVE  IInv'
<1>1. PICK f \in Paths : \E k \in KindsAt[f], seen \in Contents :
        job' = [job EXCEPT ![p] = [at |-> FirstStage(k), kind |-> k, path |-> f,
                                   seen |-> seen, saved |-> None]]
  BY DEF Request, IInv, TypeOK, Contents
<1>1a. PICK k \in KindsAt[f], seen \in Contents :
        job' = [job EXCEPT ![p] = [at |-> FirstStage(k), kind |-> k, path |-> f,
                                   seen |-> seen, saved |-> None]]
  BY <1>1
<1>2. /\ k \in Kinds /\ job[p].at = "idle"
      /\ locks' = locks /\ file' = file /\ temp' = temp
  BY ConstantsAssumption DEF Request
<1>3. /\ \A q \in Writers \ {p} : job'[q] = job[q]
      /\ job'[p] = [at |-> FirstStage(k), kind |-> k, path |-> f,
                    seen |-> seen, saved |-> None]
      /\ job'[p] \in JobRecords /\ job' \in [Writers -> JobRecords]
  BY <1>1a, <1>2 DEF IInv, TypeOK, JobRecords, FirstStage, Stages, Inside, Contents,
     Kinds, Unlocked, Locked
<1>4. MayBeAt(k, FirstStage(k)) /\ FirstStage(k) # "idle"
  BY <1>2 DEF MayBeAt, FirstStage, Locked, Unlocked, Kinds
<1>5. TypeOK' /\ Shape'
  BY <1>2, <1>3, <1>4 DEF IInv, TypeOK, Shape
<1>6. \A q \in Writers : IsInside(q)' => q # p /\ IsInside(q)
  BY <1>2, <1>3 DEF IsInside, Inside, FirstStage, Kinds, Unlocked, Locked
<1>7. \A q \in Writers : IsInside(q) => q # p
  BY <1>2 DEF IsInside, Inside
<1>8. LockInv'
  <2>1. \A q \in Writers : IsInside(q) => IsInside(q)' /\ job'[q] = job[q]
    BY <1>3, <1>7 DEF IsInside
  <2>2. \A q \in Writers : IsInside(q)' => IsInside(q) /\ job'[q] = job[q]
    BY <1>3, <1>6
  <2>3. LocksAreHeld'
    BY <1>2, <2>1 DEF IInv, LockInv, LocksAreHeld
  <2> QED BY <1>2, <2>2, <2>3 DEF IInv, LockInv, WritersExclude
<1>9. TempInv'
  BY <1>2, <1>3 DEF IInv, TempInv, FirstStage, Locked
<1>10. SavedInv'
  BY <1>2, <1>3 DEF IInv, SavedInv, FirstStage, Locked
<1> QED BY <1>5, <1>8, <1>9, <1>10 DEF IInv

LEMMA CrashKeeps ==
  ASSUME IInv, Crash
  PROVE  IInv'
BY ConstantsAssumption DEF IInv, Crash, TypeOK, Shape, LockInv, TempInv, SavedInv,
   WritersExclude, LocksAreHeld, IsInside, Idle, JobRecords, Stages, Inside,
   Contents, Versions

LEMMA NextKeeps == IInv /\ [Next]_vars => IInv'
<1> SUFFICES ASSUME IInv, [Next]_vars PROVE IInv'
  OBVIOUS
<1>1. CASE Crash
  BY <1>1, CrashKeeps
<1>2. ASSUME NEW p \in Writers, Request(p) PROVE IInv'
  BY <1>2, RequestKeeps
<1>3. ASSUME NEW p \in Writers, Step(p) PROVE IInv'
  BY <1>3, StepIsLocal, StepKeepsShape, StepKeepsLock, StepKeepsTemp, StepKeepsSaved
     DEF IInv
<1>4. CASE UNCHANGED vars
  BY <1>4 DEF vars, IInv, TypeOK, Shape, LockInv, TempInv, SavedInv,
     WritersExclude, LocksAreHeld, IsInside
<1> QED BY <1>1, <1>2, <1>3, <1>4 DEF Next

LEMMA Invariant == Spec => []IInv
BY InitInv, NextKeeps, PTL DEF Spec

(***************************************************************************)
(* The theorems.                                                           *)
(***************************************************************************)
(* Every step keeps the types, and a writer at work knows its file.        *)
THEOREM TypeCorrect == Spec => []TypeOK
BY Invariant, PTL DEF IInv

(* FileLockProvider: two writers that take the lock of a file are never    *)
(* both between acquire and release, however often acquire times out.      *)
THEOREM WritersExcluded == Spec => []WritersExclude
BY Invariant, PTL DEF IInv, LockInv

(* A lock that is taken has a writer inside, which releases it: no failure *)
(* of a write leaves a file locked.                                        *)
THEOREM LocksHeld == Spec => []LocksAreHeld
BY Invariant, PTL DEF IInv, LockInv

LEMMA TornStep ==
  ASSUME IInv, NEW p \in Writers, Step(p), NEW f \in Paths,
         file'[f] = Torn, file[f] # Torn
  PROVE  job[p].at \in {"rollback", "kept", "move"} /\ job[p].path = f
<1>1. LocalTo(p) /\ job[p].path \in Paths
  BY StepIsLocal DEF IInv
<1>2. job[p].path = f
  BY <1>1 DEF LocalTo
<1>3. Torn \notin Writers /\ Torn # None
  BY ConstantsAssumption DEF Versions
<1>4. CASE Rename(p)
  BY <1>2, <1>3, <1>4 DEF Rename, Written, IInv, TempInv, TypeOK
<1>5. CASE Restore(p)
  BY <1>2, <1>5 DEF Restore, IInv, TypeOK
<1>6. CASE Delete(p)
  BY <1>2, <1>3, <1>6 DEF Delete, IInv, TypeOK
<1>7. CASE Rollback(p)
  BY <1>2, <1>7 DEF Rollback
<1>8. CASE Move(p) \/ CopyBack(p)
  BY <1>2, <1>8 DEF Move, CopyBack
<1>9. CASE CopyEnds(p)
  BY <1>2, <1>3, <1>9 DEF CopyEnds, IInv, TypeOK
<1> QED BY <1>4, <1>5, <1>6, <1>7, <1>8, <1>9 DEF Step, Keep, DeletionEnds,
     Acquire, AcquireTimeout, Backup, OpenTemp, FillTemp, Prune, WriteFails,
     BackupFails, TempFails, UnlinkTemp, RollbackSkipped

(* A file becomes incomplete only when AtomicFileWriter or ConfigService   *)
(* rolls back in place, or when half a file is moved there: no write's     *)
(* rename ever puts one there, whoever fails or is killed.                 *)
THEOREM TornByRollbackOnly == Spec => TornOnlyByRollback
<1>1. IInv /\ [Next]_vars =>
        [\A f \in Paths : file'[f] = Torn /\ file[f] # Torn =>
           \E p \in Writers :
             job[p].at \in {"rollback", "kept", "move"} /\ job[p].path = f]_vars
  <2> SUFFICES ASSUME IInv, Next, NEW f \in Paths, file'[f] = Torn, file[f] # Torn
               PROVE  \E p \in Writers :
                        job[p].at \in {"rollback", "kept", "move"} /\ job[p].path = f
    OBVIOUS
  <2>1. PICK p \in Writers : Step(p)
    BY DEF Next, Crash, Request
  <2> QED BY <2>1, TornStep
<1> QED BY <1>1, Invariant, PTL DEF Spec, TornOnlyByRollback

(* Where no writer without a lock writes, what ConfigService and           *)
(* AtomicFileWriter replace is what their backup holds.                    *)
THEOREM ReplacedAreBackedUp == Spec => ReplacedIsBackedUp
<1>1. IInv =>
        [\A p \in Writers :
           /\ job[p].kind \in {"config", "ldm"} /\ job[p].at = "rename"
           /\ KindsAt[job[p].path] \cap {"upload", "mods", "move"} = {}
           /\ file'[job[p].path] # file[job[p].path]
           /\ file[job[p].path] # None
           => job[p].saved = file[job[p].path]]_vars
  BY DEF IInv, SavedInv
<1> QED BY <1>1, Invariant, PTL DEF ReplacedIsBackedUp
=============================================================================
