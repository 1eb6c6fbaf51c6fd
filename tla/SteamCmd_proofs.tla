---------------------------- MODULE SteamCmd_proofs ----------------------------
(***************************************************************************)
(* Proofs about SteamCmd, for any number of calls, staging directories and *)
(* orders of failures.  The argument: the downloads of a staging directory *)
(* form a chain (Chain), so the only one without a predecessor is the only *)
(* one past its turn, and the locks say who is in a directory.             *)
(***************************************************************************)
EXTENDS SteamCmd, TLAPS

(* OrderOf: a download has no predecessor exactly when nothing is ahead of *)
(* it; otherwise its predecessor and what is ahead of that are ahead of it.*)
OrderOf(j) ==
  /\ j \notin ahead[j]
  /\ ahead[j] # {} => job[j].kind = "download"
  /\ job[j].prev = None <=> ahead[j] = {}
  /\ job[j].prev # None =>
       /\ job[job[j].prev].kind = "download"
       /\ job[job[j].prev].dir = job[j].dir
       /\ ahead[j] = ahead[job[j].prev] \cup {job[j].prev}

SameQueue(j, k) ==
  job[j].kind = "download" /\ job[k].kind = "download" /\ job[j].dir = job[k].dir

Chain ==
  /\ \A j \in Jobs : OrderOf(j)
  /\ \A j, k \in Jobs : k \in ahead[j] => SameQueue(j, k)
  /\ \A j, k \in Jobs : SameQueue(j, k) /\ j # k
                          => j \in ahead[k] \/ k \in ahead[j]

(* The Map holds the download that everybody else of its directory is      *)
(* ahead of.                                                               *)
LastInLine ==
  \A d \in Stagings :
    /\ downloadQueue[d] = None => Downloads(d) = {}
    /\ downloadQueue[d] # None =>
         /\ downloadQueue[d] \in Downloads(d)
         /\ \A k \in Downloads(d) : k = downloadQueue[d]
                                      \/ k \in ahead[downloadQueue[d]]

Consistent == Chain /\ LastInLine

IInv == TypeOK /\ Consistent /\ LockExclusive

(***************************************************************************)
(* Type correctness.                                                       *)
(***************************************************************************)
(* The coroutines, apart from the rest of TypeOK. *)
JobsOK == job \in [Jobs -> JobRecords] /\ \A j \in Jobs : Shape(job[j])

(* A coroutine that goes on to a stage its kind has stays well formed.     *)
LEMMA GotoKeepsJobs ==
  ASSUME JobsOK, NEW j \in Jobs, NEW pc \in Pcs, Goto(j, pc),
         Shape([job[j] EXCEPT !.pc = pc])
  PROVE  JobsOK'
<1>1. job' \in [Jobs -> JobRecords]
  BY DEF JobsOK, Goto, JobRecords
<1>2. job' = [job EXCEPT ![j] = [job[j] EXCEPT !.pc = pc]]
  BY DEF Goto
<1>3. \A k \in Jobs : job'[k] = IF k = j THEN [job[j] EXCEPT !.pc = pc] ELSE job[k]
  BY <1>2 DEF JobsOK
<1> QED
  BY <1>1, <1>3 DEF JobsOK

(* One that ends, or whose turn it is, too. *)
LEMMA LeaveKeepsJobs ==
  ASSUME JobsOK, NEW j \in Jobs, Leave(j)
  PROVE  JobsOK'
<1>1. Idle \in JobRecords /\ Shape(Idle)
  BY DirsAssumption DEF Idle, Job, JobRecords, Pcs, Shape, Dirs, Kinds, Binary, JobIds
<1>2. \A k \in Jobs : job'[k] = IF k = j THEN Idle ELSE job[k]
  BY DEF Leave, JobsOK
<1> QED
  BY <1>1, <1>2 DEF JobsOK, Leave

(* The end of a download leaves the others well formed: only one that      *)
(* waits for it has it as its predecessor.                                 *)
LEMMA SettleKeepsJobs ==
  ASSUME JobsOK, NEW j \in Jobs, NEW ok \in BOOLEAN, MoveUp(j, ok)
  PROVE  JobsOK'
<1>1. Idle \in JobRecords /\ Shape(Idle)
  BY DirsAssumption DEF Idle, Job, JobRecords, Pcs, Shape, Dirs, Kinds, Binary, JobIds
<1>2. \A k \in Jobs : LET r == [job[k] EXCEPT !.prev = None]
                      IN  job[k].pc = "queued" => r \in JobRecords /\ Shape(r)
  BY DEF JobsOK, JobRecords, Shape, Idle, Job
<1>3. \A k \in Jobs : job[k].prev = j => job[k].pc = "queued"
  BY DirsAssumption DEF JobsOK, Shape
<1>4. \A k \in Jobs : job'[k] = IF k = j THEN Idle
                                ELSE IF job[k].prev = j THEN [job[k] EXCEPT !.prev = None]
                                ELSE job[k]
  BY DEF MoveUp
<1>5. \A k \in Jobs : job'[k] \in JobRecords /\ Shape(job'[k])
  BY <1>1, <1>2, <1>3, <1>4 DEF JobsOK
<1>6. job' = [k \in Jobs |-> job'[k]]
  BY DEF MoveUp
<1> QED
  BY <1>5, <1>6 DEF JobsOK

(* Nothing is in flight at first. *)
LEMMA TypeInit == Init => TypeOK
<1>1. Idle \in JobRecords /\ Shape(Idle)
  BY DirsAssumption DEF Idle, Job, JobRecords, Pcs, Shape, Dirs, Kinds, Binary, JobIds
<1> QED
  BY <1>1 DEF Init, TypeOK, JobIds, Binary

(* The end of a download. *)
LEMMA SettleType ==
  ASSUME TypeOK, NEW j \in Jobs, NEW ok \in BOOLEAN, Settle(j, ok),
         job[j].kind = "download", UNCHANGED <<processes, exe>>
  PROVE  TypeOK'
<1>1. JobsOK'
  BY SettleKeepsJobs DEF Settle, TypeOK, JobsOK
<1>2. job[j].dir \in Stagings
  BY DEF TypeOK, Shape
<1>3. activeJobs' \subseteq Dirs /\ downloadQueue' \in [Stagings -> Jobs \cup {None}]
  BY <1>2 DEF Settle, Unlock, ForgetQueue, TypeOK
<1>4. panel' \in {"up", "down"} /\ ahead' \in [Jobs -> SUBSET Jobs]
  BY DEF Settle, TypeOK
<1> QED
  BY <1>1, <1>3, <1>4 DEF TypeOK, JobsOK

(* A coroutine that gives its lock back or not and ends. *)
LEMMA LeaveType ==
  ASSUME TypeOK, NEW j \in Jobs, Leave(j),
         activeJobs' \subseteq activeJobs,
         UNCHANGED <<downloadQueue, processes, exe, panel, ahead>>
  PROVE  TypeOK'
<1>1. JobsOK'
  BY LeaveKeepsJobs DEF TypeOK, JobsOK
<1> QED
  BY <1>1 DEF TypeOK, JobsOK

(* A coroutine that has its turn goes on to a stage that its kind has.     *)
StageOf(k, pc) ==
  \/ pc = "prepare" /\ k \in JobIds \cup {"check"}
  \/ pc = "wait" /\ k \in JobIds
  \/ pc = "verify" /\ k \in {"install", "download"}
  \/ pc = "clean" /\ k = "download"
  \/ pc = "unlink" /\ k \in {"update", "download"}
  \/ pc = "fetch" /\ k = "reinstall"
  \/ pc = "work" /\ k \in {"check", "reinstall"}

LEMMA GotoType ==
  ASSUME TypeOK, NEW j \in Jobs, NEW pc, Goto(j, pc),
         job[j].pc # "idle", job[j].prev = None, StageOf(job[j].kind, pc),
         activeJobs' \subseteq Dirs, processes' \in [JobIds -> Dirs \cup {None}],
         exe' \in BOOLEAN, UNCHANGED <<downloadQueue, panel, ahead>>
  PROVE  TypeOK'
<1>1. job[j] \in JobRecords /\ Shape(job[j])
  BY DEF TypeOK
<1>2. pc \in Pcs
  BY DEF StageOf, Pcs
<1>3. Shape([job[j] EXCEPT !.pc = pc])
  BY <1>1 DEF Shape, StageOf, Idle, Job, JobRecords, JobIds, Binary
<1>4. JobsOK'
  BY <1>2, <1>3, GotoKeepsJobs DEF TypeOK, JobsOK
<1> QED
  BY <1>4 DEF TypeOK, JobsOK

(* A request. *)
LEMMA BeginType ==
  ASSUME TypeOK, NEW j \in Jobs, NEW pc, NEW k, NEW d, Begin(j, pc, k, d),
         \/ pc = "prepare" /\ k \in Binary /\ d = InstallDir
         \/ pc = "prepare" /\ k = "check" /\ d = TmpDir
         \/ pc = "wipe" /\ k = "reinstall" /\ d = ToolDir
  PROVE  TypeOK'
<1>1. Job(pc, k, d, None) \in JobRecords /\ Shape(Job(pc, k, d, None))
  BY DirsAssumption DEF Job, JobRecords, Pcs, Shape, Idle, Dirs, Kinds, Binary, JobIds
<1>2. job' \in [Jobs -> JobRecords] /\ \A i \in Jobs : Shape(job'[i])
  BY <1>1 DEF Begin, TypeOK
<1>3. activeJobs' \subseteq Dirs
  BY DEF Begin, TypeOK, Dirs
<1> QED
  BY <1>2, <1>3 DEF Begin, TypeOK

(* Each kind of call begins well formed. *)
LEMMA RequestType ==
  ASSUME TypeOK, NEW j \in Jobs, Request(j)
  PROVE  TypeOK'
<1>1. ASSUME NEW k \in Binary, RequestBinary(j, k) PROVE TypeOK'
  BY <1>1, BeginType DEF RequestBinary
<1>2. CASE RequestCheck(j)
  BY <1>2, BeginType DEF RequestCheck
<1>3. CASE RequestReinstall(j)
  BY <1>3, BeginType DEF RequestReinstall
<1>4. ASSUME NEW d \in Stagings, RequestDownload(j, d) PROVE TypeOK'
  <2> DEFINE r == Job("queued", "download", d, downloadQueue[d])
  <2>1. r \in JobRecords /\ Shape(r)
    BY DirsAssumption DEF TypeOK, Job, JobRecords, Pcs, Shape, Idle, Dirs, Kinds, Binary, JobIds
  <2>2. job' = [job EXCEPT ![j] = r]
    BY <1>4 DEF RequestDownload
  <2> HIDE DEF r
  <2>3. job' \in [Jobs -> JobRecords] /\ \A i \in Jobs : Shape(job'[i])
    BY <2>1, <2>2 DEF TypeOK
  <2>4. downloadQueue' \in [Stagings -> Jobs \cup {None}]
    BY <1>4 DEF RequestDownload, TypeOK
  <2>5. ahead' \in [Jobs -> SUBSET Jobs]
    BY <1>4 DEF RequestDownload, TypeOK, Downloads
  <2> QED
    BY <1>4, <2>3, <2>4, <2>5 DEF RequestDownload, TypeOK
<1> QED
  BY <1>1, <1>2, <1>3, <1>4 DEF Request

(* What a job does when its child has ended. *)
LEMMA AfterExitType ==
  ASSUME TypeOK, NEW j \in Jobs, NEW ok \in BOOLEAN, AfterExit(j, ok),
         job[j].pc # "idle", job[j].prev = None, job[j].kind \in JobIds,
         processes' \in [JobIds -> Dirs \cup {None}],
         UNCHANGED <<downloadQueue, exe, panel, ahead>>
  PROVE  TypeOK'
<1>1. CASE Leave(j) /\ Unlock(job[j].dir)
  <2>1. JobsOK'
    BY <1>1, LeaveKeepsJobs DEF TypeOK, JobsOK
  <2> QED
    BY <1>1, <2>1 DEF TypeOK, JobsOK, Unlock
<1>2. ASSUME NEW pc, Goto(j, pc), StageOf(job[j].kind, pc), UNCHANGED activeJobs
      PROVE  TypeOK'
  BY <1>2, GotoType DEF TypeOK
<1> QED
  BY <1>1, <1>2 DEF AfterExit, StageOf, JobIds, Binary

(* So does each stage, action by action. *)
LEMMA StepType ==
  ASSUME TypeOK, NEW j \in Jobs, Step(j)
  PROVE  TypeOK'
<1>1. /\ job[j] \in JobRecords /\ Shape(job[j])
      /\ activeJobs \subseteq Dirs /\ exe \in BOOLEAN
      /\ processes \in [JobIds -> Dirs \cup {None}]
  BY DEF TypeOK
<1>2. job[j].pc # "idle" => job[j].dir \in Dirs
  BY <1>1 DEF Shape, JobRecords, Dirs, Kinds, Binary, JobIds
<1>3. CASE Start(j)
  <2>1. CASE Free(job[j].dir)
    <3>1. /\ Goto(j, "prepare") /\ StageOf(job[j].kind, "prepare")
          /\ job[j].pc # "idle" /\ job[j].prev = None
      BY <1>1, <1>3, <2>1 DEF Start, Shape, StageOf, JobIds
    <3>2. activeJobs' \subseteq Dirs
      BY <1>1, <1>2, <1>3, <2>1, <3>1 DEF Start
    <3> QED
      BY <1>1, <1>3, <2>1, <3>1, <3>2, GotoType DEF Start
  <2>2. CASE ~Free(job[j].dir)
    BY <1>1, <1>3, <2>2, SettleType DEF Start, Shape
  <2> QED
    BY <2>1, <2>2
<1>4. CASE SpawnChild(j)
  BY <1>1, <1>2, <1>4, GotoType DEF SpawnChild, Shape, StageOf, JobIds, Binary
<1>5. CASE SpawnFails(j)
  <2>1. CASE job[j].kind = "download"
    BY <1>1, <1>2, <1>5, <2>1, GotoType DEF SpawnFails, Unlock, Shape, StageOf
  <2>2. CASE job[j].kind # "download"
    BY <1>5, <2>2, LeaveType DEF SpawnFails, Unlock
  <2> QED
    BY <2>1, <2>2
<1>6. CASE PrepareFails(j)
  BY <1>6, LeaveType, SettleType DEF PrepareFails, Unlock
<1>7. CASE CheckPrepared(j)
  BY <1>1, <1>7, GotoType DEF CheckPrepared, Shape, StageOf
<1>8. CASE WaitTimeout(j)
  <2>1. CASE job[j].kind = "update"
    BY <1>1, <1>8, <2>1, GotoType DEF WaitTimeout, Shape, StageOf
  <2>2. CASE job[j].kind # "update"
    BY <1>1, <1>8, <2>2, LeaveType, SettleType
       DEF WaitTimeout, Unlock, Shape, JobIds, Binary
  <2> QED
    BY <2>1, <2>2
<1>9. CASE Verified(j)
  BY <1>9, LeaveType, SettleType DEF Verified, Unlock
<1>10. CASE ItemsMissing(j)
  BY <1>1, <1>10, GotoType DEF ItemsMissing, Shape, StageOf
<1>11. CASE Cleaned(j)
  BY <1>11, LeaveType, SettleType DEF Cleaned, Unlock
<1>12. CASE Wiped(j)
  BY <1>1, <1>12, GotoType DEF Wiped, Shape, StageOf
<1>13. CASE Fetched(j)
  BY <1>1, <1>13, GotoType DEF Fetched, Shape, StageOf
<1>14. CASE Done(j)
  BY <1>14, LeaveType DEF Done, Unlock
<1>15. CASE ExecFails(j)
  BY <1>1, <1>15, AfterExitType DEF ExecFails, Shape
<1> QED
  BY <1>3, <1>4, <1>5, <1>6, <1>7, <1>8, <1>9, <1>10, <1>11, <1>12, <1>13, <1>14, <1>15
     DEF Step

(* Every step keeps the types. *)
LEMMA TypeNext == TypeOK /\ [Next]_vars => TypeOK'
<1> SUFFICES ASSUME TypeOK, [Next]_vars PROVE TypeOK'
  OBVIOUS
<1>1. ASSUME NEW j \in Jobs, Request(j) \/ Step(j) PROVE TypeOK'
  BY <1>1, RequestType, StepType
<1>2. ASSUME NEW id \in JobIds, NEW ok \in BOOLEAN, ChildExit(id, ok) PROVE TypeOK'
  <2>1. /\ processes' = [processes EXCEPT ![id] = None]
        /\ UNCHANGED <<downloadQueue, exe, panel, ahead>>
    BY <1>2 DEF ChildExit
  <2>2. processes' \in [JobIds -> Dirs \cup {None}]
    BY <2>1 DEF TypeOK
  <2>3. ASSUME NEW j \in Jobs, job[j].pc = "wait", job[j].kind = id, AfterExit(j, ok)
        PROVE  TypeOK'
    <3>1. job[j].prev = None
      BY <2>3 DEF TypeOK, Shape
    <3> QED
      BY <2>1, <2>2, <2>3, <3>1, AfterExitType
  <2>4. CASE UNCHANGED <<activeJobs, job>>
    BY <2>1, <2>2, <2>4 DEF TypeOK
  <2> QED
    BY <1>2, <2>3, <2>4 DEF ChildExit
<1>3. CASE UNCHANGED vars
  BY <1>3 DEF vars, TypeOK, Shape
<1> QED
  BY <1>1, <1>2, <1>3 DEF Next

(* The types hold always, and the stage of a coroutine says what it has:   *)
(* the continuations of SteamCmdManager only meet the jobs they belong to. *)
THEOREM TypeCorrect == Spec => []TypeOK
<1> QED
  BY TypeInit, TypeNext, PTL DEF Spec

(***************************************************************************)
(* The chain of downloads.                                                 *)
(***************************************************************************)
(* A step that leaves the downloads in their directories and line alone.   *)
LEMMA SameLine ==
  ASSUME TypeOK, Consistent, UNCHANGED <<downloadQueue, ahead>>,
         \A k \in Jobs : /\ job'[k].prev = job[k].prev
                         /\ job'[k].kind = "download" <=> job[k].kind = "download"
                         /\ job[k].kind = "download" => job'[k].dir = job[k].dir
  PROVE  Consistent'
<1>1. \A j \in Jobs : job[j].prev \in Jobs \cup {None}
  BY DEF TypeOK, JobRecords
<1>2. \A j \in Jobs : OrderOf(j)'
  <2> SUFFICES ASSUME NEW j \in Jobs PROVE OrderOf(j)'
    OBVIOUS
  <2>1. OrderOf(j)
    BY DEF Consistent, Chain
  <2>2. CASE job[j].prev = None
    BY <2>1, <2>2 DEF OrderOf
  <2>3. CASE job[j].prev # None
    <3>1. job[j].prev \in Jobs /\ job[j].kind = "download"
      BY <1>1, <2>1, <2>3 DEF OrderOf
    <3> QED
      BY <2>1, <2>3, <3>1 DEF OrderOf
  <2> QED
    BY <2>2, <2>3
<1>3. \A j, k \in Jobs : SameQueue(j, k)' <=> SameQueue(j, k)
  BY DEF SameQueue
<1>4. Chain'
  BY <1>2, <1>3 DEF Consistent, Chain
<1>5. \A d \in Stagings : Downloads(d)' = Downloads(d)
  BY DEF Downloads
<1>6. LastInLine'
  BY <1>5 DEF Consistent, LastInLine
<1> QED
  BY <1>4, <1>6 DEF Consistent

(* Nothing is ahead of a download that has its turn, and everybody else in *)
(* its directory waits.                                                    *)
LEMMA TurnIsFirst ==
  ASSUME TypeOK, Consistent, NEW j \in Jobs,
         job[j].kind = "download", job[j].prev = None,
         NEW k \in Jobs, k # j, SameQueue(j, k)
  PROVE  job[k].pc = "queued" /\ j \in ahead[k]
<1>1. ahead[j] = {}
  BY DEF Consistent, Chain, OrderOf
<1>2. j \in ahead[k]
  BY <1>1 DEF Consistent, Chain
<1>3. job[k].prev # None
  BY <1>2 DEF Consistent, Chain, OrderOf
<1> QED
  BY <1>2, <1>3 DEF TypeOK, Shape

(* A download is asked for: it becomes the last of its line.               *)
LEMMA AskKeepsLine ==
  ASSUME TypeOK, Consistent, NEW j \in Jobs, NEW d \in Stagings,
         RequestDownload(j, d)
  PROVE  Consistent'
<1> DEFINE t == downloadQueue[d]
<1>1. /\ job'[j].kind = "download" /\ job'[j].dir = d /\ job'[j].prev = t
      /\ \A k \in Jobs \ {j} : job'[k] = job[k] /\ ahead'[k] = ahead[k]
      /\ ahead'[j] = Downloads(d)
      /\ downloadQueue' = [downloadQueue EXCEPT ![d] = j]
  BY DEF RequestDownload, TypeOK, Job
<1>2. job[j].kind # "download"
  BY DEF RequestDownload, Idle, Job
<1>3. /\ \A k \in Jobs : j \notin ahead[k] /\ job[k].prev # j
      /\ ahead[j] = {} /\ j # None
  <2>1. \A k \in Jobs : j \notin ahead[k]
    BY <1>2 DEF Consistent, Chain, SameQueue
  <2>2. j # None
    BY DirsAssumption
  <2>3. ASSUME NEW k \in Jobs PROVE job[k].prev # j
    <3>1. OrderOf(k)
      BY DEF Consistent, Chain
    <3> QED
      BY <1>2, <2>2, <3>1 DEF OrderOf
  <2>4. ahead[j] = {}
    <3>1. OrderOf(j)
      BY DEF Consistent, Chain
    <3> QED
      BY <1>2, <3>1 DEF OrderOf
  <2> QED
    BY <2>1, <2>2, <2>3, <2>4
<1>4. /\ t = None => Downloads(d) = {}
      /\ t # None => t \in Downloads(d) /\ Downloads(d) = ahead[t] \cup {t}
  <2>1. t # None => t \in Downloads(d) /\ Downloads(d) \subseteq ahead[t] \cup {t}
    BY DEF Consistent, LastInLine
  <2>2. t # None => ahead[t] \subseteq Downloads(d)
    BY <2>1 DEF Consistent, Chain, SameQueue, Downloads, TypeOK
  <2> QED
    BY <2>1, <2>2 DEF Consistent, LastInLine
<1>5. \A k \in Jobs : job[k].prev \in Jobs \cup {None}
  BY DEF TypeOK, JobRecords
<1>6. \A k \in Jobs : OrderOf(k)'
  <2> SUFFICES ASSUME NEW k \in Jobs PROVE OrderOf(k)'
    OBVIOUS
  <2>1. CASE k = j
    <3>1. j \notin Downloads(d)
      BY <1>2 DEF Downloads
    <3>2. CASE t = None
      BY <1>1, <1>4, <2>1, <3>1, <3>2 DEF OrderOf
    <3>3. CASE t # None
      <4>1. t \in Jobs /\ t # j /\ job'[t] = job[t] /\ ahead'[t] = ahead[t]
            /\ job[t].kind = "download" /\ job[t].dir = d
        BY <1>1, <1>2, <1>4, <3>3 DEF Downloads
      <4> QED
        BY <1>1, <1>4, <2>1, <3>1, <3>3, <4>1 DEF OrderOf
    <3> QED
      BY <3>2, <3>3
  <2>2. CASE k # j
    <3>1. job'[k] = job[k] /\ ahead'[k] = ahead[k] /\ job[k].prev # j
      BY <1>1, <1>3, <2>2
    <3>2. job[k].prev # None => /\ job'[job[k].prev] = job[job[k].prev]
                                /\ ahead'[job[k].prev] = ahead[job[k].prev]
      BY <1>1, <1>5, <3>1
    <3> QED
      BY <3>1, <3>2 DEF Consistent, Chain, OrderOf
  <2> QED
    BY <2>1, <2>2
<1>7. \A k, i \in Jobs : i \in ahead'[k] => SameQueue(k, i)'
  <2> SUFFICES ASSUME NEW k \in Jobs, NEW i \in Jobs, i \in ahead'[k]
               PROVE  SameQueue(k, i)'
    OBVIOUS
  <2>1. CASE k = j
    <3>1. i \in Jobs /\ job[i].kind = "download" /\ job[i].dir = d /\ i # j
      BY <1>1, <1>2, <2>1 DEF Downloads
    <3> QED
      BY <1>1, <2>1, <3>1 DEF SameQueue
  <2>2. CASE k # j
    BY <1>1, <1>3, <2>2 DEF SameQueue, Consistent, Chain
  <2> QED
    BY <2>1, <2>2
<1>8. \A k, i \in Jobs : SameQueue(k, i)' /\ k # i => k \in ahead'[i] \/ i \in ahead'[k]
  <2> SUFFICES ASSUME NEW k \in Jobs, NEW i \in Jobs, SameQueue(k, i)', k # i
               PROVE  k \in ahead'[i] \/ i \in ahead'[k]
    OBVIOUS
  <2>1. CASE k # j /\ i # j
    BY <1>1, <2>1 DEF SameQueue, Consistent, Chain
  <2>2. CASE k = j \/ i = j
    <3>1. ASSUME NEW x \in Jobs, x # j, job'[x].kind = "download", job'[x].dir = d
          PROVE  x \in ahead'[j]
      BY <1>1, <3>1 DEF Downloads
    <3> QED
      BY <1>1, <2>2, <3>1 DEF SameQueue
  <2> QED
    BY <2>1, <2>2
<1>9. LastInLine'
  <2>1. \A s \in Stagings : Downloads(s)' = IF s = d THEN Downloads(d) \cup {j} ELSE Downloads(s)
    BY <1>1, <1>2 DEF Downloads
  <2> SUFFICES ASSUME NEW s \in Stagings
               PROVE  /\ downloadQueue'[s] = None => Downloads(s)' = {}
                      /\ downloadQueue'[s] # None =>
                           /\ downloadQueue'[s] \in Downloads(s)'
                           /\ \A k \in Downloads(s)' : k = downloadQueue'[s]
                                                        \/ k \in ahead'[downloadQueue'[s]]
    BY DEF LastInLine
  <2>2. CASE s = d
    <3>1. downloadQueue'[s] = j /\ j # None
      BY <1>1, <2>2, DirsAssumption DEF TypeOK
    <3> QED
      BY <1>1, <2>1, <2>2, <3>1
  <2>3. CASE s # d
    <3>1. downloadQueue'[s] = downloadQueue[s] /\ Downloads(s)' = Downloads(s)
      BY <1>1, <2>1, <2>3 DEF TypeOK
    <3>2. j \notin Downloads(s) /\ Downloads(s) \subseteq Jobs
      BY <1>2 DEF Downloads
    <3>3. downloadQueue[s] # None => ahead'[downloadQueue[s]] = ahead[downloadQueue[s]]
      BY <1>1, <3>2 DEF Consistent, LastInLine
    <3> QED
      BY <3>1, <3>3 DEF Consistent, LastInLine
  <2> QED
    BY <2>2, <2>3
<1> QED
  BY <1>6, <1>7, <1>8, <1>9 DEF Consistent, Chain

(* The promise of the first download settles: the line moves up.           *)
LEMMA SettleKeepsLine ==
  ASSUME TypeOK, Consistent, NEW j \in Jobs, NEW ok \in BOOLEAN, Settle(j, ok),
         job[j].kind = "download", job[j].prev = None
  PROVE  Consistent'
<1>1. /\ job'[j] = Idle
      /\ \A k \in Jobs \ {j} : /\ job'[k].kind = job[k].kind
                               /\ job'[k].dir = job[k].dir
                               /\ job'[k].prev = IF job[k].prev = j THEN None
                                                 ELSE job[k].prev
      /\ \A k \in Jobs : ahead'[k] = ahead[k] \ {j}
  BY DEF Settle, MoveUp, TypeOK, JobRecords
<1>2. Idle.kind = "none" /\ Idle.prev = None
  BY DEF Idle, Job
<1>3. ahead[j] = {}
  BY DEF Consistent, Chain, OrderOf
<1>4. \A k \in Jobs : job[k].prev \in Jobs \cup {None}
  BY DEF TypeOK, JobRecords
<1>5. \A k \in Jobs : OrderOf(k)'
  <2> SUFFICES ASSUME NEW k \in Jobs PROVE OrderOf(k)'
    OBVIOUS
  <2>1. OrderOf(k)
    BY DEF Consistent, Chain
  <2>2. CASE k = j
    BY <1>1, <1>2, <1>3, <2>2 DEF OrderOf
  <2>3. CASE k # j /\ job[k].prev = j
    <3>1. ahead[k] = {j}
      BY <1>3, <2>1, <2>3, DirsAssumption DEF OrderOf
    <3> QED
      BY <1>1, <2>3, <3>1 DEF OrderOf
  <2>4. CASE k # j /\ job[k].prev = None
    BY <1>1, <2>1, <2>4, DirsAssumption DEF OrderOf
  <2>5. CASE k # j /\ job[k].prev \in Jobs \ {j}
    <3> DEFINE p == job[k].prev
    <3>1. p # None /\ job'[k].prev = p /\ ahead'[p] = ahead[p] \ {j}
      BY <1>1, <2>5, DirsAssumption
    <3>2. ahead'[k] = ahead'[p] \cup {p}
      BY <1>1, <2>1, <2>5, <3>1 DEF OrderOf
    <3> QED
      BY <1>1, <2>1, <2>5, <3>1, <3>2 DEF OrderOf
  <2> QED
    BY <1>4, <2>2, <2>3, <2>4, <2>5
<1>6. \A k, i \in Jobs : SameQueue(k, i)' <=> SameQueue(k, i) /\ k # j /\ i # j
  BY <1>1, <1>2 DEF SameQueue
<1>7. \A k, i \in Jobs : i \in ahead'[k] => SameQueue(k, i)'
  BY <1>1, <1>3, <1>6 DEF Consistent, Chain
<1>8. \A k, i \in Jobs : SameQueue(k, i)' /\ k # i => k \in ahead'[i] \/ i \in ahead'[k]
  BY <1>1, <1>6 DEF Consistent, Chain
<1>9. LastInLine'
  <2>1. \A d \in Stagings : Downloads(d)' = Downloads(d) \ {j}
    BY <1>1, <1>2 DEF Downloads
  <2>2. job[j].dir \in Stagings /\ j \in Downloads(job[j].dir)
    BY DEF TypeOK, Shape, Downloads
  <2>3. \A d \in Stagings : downloadQueue'[d] = IF downloadQueue[d] = j THEN None
                                                ELSE downloadQueue[d]
    <3>1. \A d \in Stagings : downloadQueue[d] = j => d = job[j].dir
      BY DirsAssumption DEF Consistent, LastInLine, Downloads
    <3> QED
      BY <2>2, <3>1 DEF Settle, ForgetQueue, TypeOK
  <2> SUFFICES ASSUME NEW d \in Stagings
               PROVE  /\ downloadQueue'[d] = None => Downloads(d)' = {}
                      /\ downloadQueue'[d] # None =>
                           /\ downloadQueue'[d] \in Downloads(d)'
                           /\ \A k \in Downloads(d)' : k = downloadQueue'[d]
                                                        \/ k \in ahead'[downloadQueue'[d]]
    BY DEF LastInLine
  <2>4. downloadQueue[d] # None =>
           /\ downloadQueue[d] \in Downloads(d)
           /\ \A k \in Downloads(d) : k = downloadQueue[d]
                                        \/ k \in ahead[downloadQueue[d]]
    BY DEF Consistent, LastInLine
  <2>5. CASE downloadQueue[d] = j
    BY <1>3, <2>1, <2>3, <2>4, <2>5, DirsAssumption
  <2>6. CASE downloadQueue[d] = None
    BY <2>1, <2>3, <2>6 DEF Consistent, LastInLine
  <2>7. CASE downloadQueue[d] # j /\ downloadQueue[d] # None
    <3>1. downloadQueue[d] \in Jobs
      BY <2>4, <2>7 DEF Downloads
    <3> QED
      BY <1>1, <2>1, <2>3, <2>4, <2>7, <3>1
  <2> QED
    BY <2>5, <2>6, <2>7
<1> QED
  BY <1>5, <1>7, <1>8, <1>9 DEF Consistent, Chain

(***************************************************************************)
(* The locks.                                                              *)
(***************************************************************************)
(* Nobody but j enters or leaves a directory. *)
Elsewhere(j) ==
  \A k \in Jobs \ {j} : /\ job'[k].pc = job[k].pc
                        /\ job'[k].kind = job[k].kind
                        /\ job'[k].dir = job[k].dir

(* Taking the lock of a directory that is free. *)
LEMMA TakeLock ==
  ASSUME LockExclusive, NEW j \in Jobs, NEW d \in Dirs, Elsewhere(j),
         d \notin activeJobs, activeJobs' = activeJobs \cup {d},
         job[j].pc \in {"idle", "queued"}, job'[j].dir = d,
         job'[j].pc \notin {"idle", "queued", "unlink"}
  PROVE  LockExclusive'
<1>1. \A k \in Jobs \ {j}, e \in Dirs : Holds(k, e)' <=> Holds(k, e)
  BY DEF Elsewhere, Holds
<1>2. \A e \in Dirs : ~Holds(j, e) /\ (Holds(j, e)' <=> e = d)
  BY DEF Holds
<1>3. \A k \in Jobs : ~Holds(k, d)
  BY DEF LockExclusive
<1> QED
  BY <1>1, <1>2, <1>3 DEF LockExclusive

(* The last disjunct is the install that fails before its try. *)
LEMMA DropLock ==
  ASSUME LockExclusive, NEW j \in Jobs, NEW d \in Dirs, Elsewhere(j),
         Holds(j, d),
         \/ activeJobs' = activeJobs \ {d}
         \/ d = InstallDir /\ activeJobs' = activeJobs,
         \/ job'[j].pc = "idle"
         \/ job'[j].kind = "download" /\ job'[j].pc = "unlink"
  PROVE  LockExclusive'
<1>1. \A k \in Jobs \ {j}, e \in Dirs : Holds(k, e)' <=> Holds(k, e)
  BY DEF Elsewhere, Holds
<1>2. \A e \in Dirs : ~Holds(j, e)' /\ (Holds(j, e) <=> e = d)
  BY DEF Holds
<1>3. \A k \in Jobs : Holds(k, d) => k = j
  BY DEF LockExclusive
<1> QED
  BY <1>1, <1>2, <1>3 DEF LockExclusive

(* Going on with what one has. *)
LEMMA KeepsLock ==
  ASSUME LockExclusive, NEW j \in Jobs, Elsewhere(j), UNCHANGED activeJobs,
         \A d \in Dirs : Holds(j, d)' <=> Holds(j, d)
  PROVE  LockExclusive'
<1>1. \A k \in Jobs, d \in Dirs : Holds(k, d)' <=> Holds(k, d)
  BY DEF Elsewhere, Holds
<1> QED
  BY <1>1 DEF LockExclusive

(* A download whose turn it is finds its directory unlocked.               *)
LEMMA TurnFindsFree ==
  ASSUME TypeOK, Consistent, LockExclusive, NEW j \in Jobs,
         job[j].kind = "download", job[j].prev = None, ~Holds(j, job[j].dir)
  PROVE  job[j].dir \notin activeJobs
<1>1. job[j].dir \in Stagings
  BY DEF TypeOK, Shape
<1>2. ASSUME NEW k \in Jobs, Holds(k, job[j].dir) PROVE FALSE
  <2>1. job[k].kind = "download" /\ k # j
    BY <1>1, <1>2, DirsAssumption DEF TypeOK, JobRecords, Shape, Holds, Kinds, Binary
  <2>2. SameQueue(j, k)
    BY <1>2, <2>1 DEF SameQueue, Holds
  <2> QED
    BY <1>2, <2>1, <2>2, TurnIsFirst DEF Holds
<1>3. job[j].dir \in Dirs /\ job[j].dir # InstallDir
  BY <1>1, DirsAssumption DEF Dirs
<1> QED
  BY <1>2, <1>3 DEF LockExclusive

(* The `finally` of a download unlocks what it holds, or what nobody       *)
(* does.                                                                   *)
LEMMA SettleKeepsLocks ==
  ASSUME TypeOK, Consistent, LockExclusive, NEW j \in Jobs, NEW ok \in BOOLEAN,
         Settle(j, ok), job[j].kind = "download", job[j].prev = None
  PROVE  LockExclusive'
<1>1. Elsewhere(j) /\ job'[j] = Idle
  BY DEF Settle, MoveUp, Elsewhere, TypeOK, JobRecords
<1>2. Idle.pc = "idle"
  BY DEF Idle, Job
<1>3. job[j].dir \in Dirs
  BY DEF TypeOK, Shape, Dirs
<1>4. activeJobs' = activeJobs \ {job[j].dir}
  BY DEF Settle, Unlock
<1>5. CASE Holds(j, job[j].dir)
  BY <1>1, <1>2, <1>3, <1>4, <1>5, DropLock
<1>6. CASE ~Holds(j, job[j].dir)
  <2>1. activeJobs' = activeJobs
    BY <1>4, <1>6, TurnFindsFree
  <2>2. \A d \in Dirs : Holds(j, d)' <=> Holds(j, d)
    BY <1>1, <1>2, <1>6 DEF Holds
  <2> QED
    BY <1>1, <2>1, <2>2, KeepsLock
<1> QED
  BY <1>5, <1>6

(***************************************************************************)
(* The inductive invariant.                                                *)
(***************************************************************************)
LEMMA InvInit == Init => IInv
<1> SUFFICES ASSUME Init PROVE IInv
  OBVIOUS
<1>1. TypeOK
  BY TypeInit
<1>2. \A j \in Jobs : /\ job[j].pc = "idle" /\ job[j].kind = "none"
                      /\ job[j].prev = None /\ ahead[j] = {}
  BY DEF Init, Idle, Job
<1>3. Consistent
  BY <1>2 DEF Init, Consistent, Chain, OrderOf, SameQueue, LastInLine, Downloads
<1>4. LockExclusive
  BY <1>2 DEF Init, LockExclusive, Holds
<1> QED
  BY <1>1, <1>3, <1>4 DEF IInv

(* A coroutine that ends gives its directory back, or was the install that *)
(* does not.                                                               *)
LEMMA LeaveInv ==
  ASSUME IInv, NEW j \in Jobs, Leave(j),
         job[j].kind # "download", job[j].pc # "idle",
         \/ Unlock(job[j].dir)
         \/ job[j].kind = "install" /\ UNCHANGED activeJobs,
         UNCHANGED <<downloadQueue, ahead>>
  PROVE  Consistent' /\ LockExclusive'
<1>1. job'[j] = Idle /\ \A k \in Jobs \ {j} : job'[k] = job[k]
  BY DEF Leave, IInv, TypeOK
<1>2. Idle.pc = "idle" /\ Idle.kind = "none" /\ Idle.prev = None
  BY DEF Idle, Job
<1>3. job[j] \in JobRecords /\ Shape(job[j])
  BY DEF IInv, TypeOK
<1>4. Consistent'
  BY <1>1, <1>2, <1>3, SameLine DEF IInv, Shape
<1>5. job[j].dir \in Dirs /\ Holds(j, job[j].dir)
  BY <1>3 DEF Shape, JobRecords, Dirs, Holds, Kinds, Binary
<1>6. job[j].kind = "install" => job[j].dir = InstallDir
  BY <1>3 DEF Shape, Binary
<1>7. Elsewhere(j)
  BY <1>1 DEF Elsewhere
<1> QED
  BY <1>1, <1>2, <1>4, <1>5, <1>6, <1>7, DropLock DEF IInv, Unlock

(* A coroutine that goes on keeps it. *)
LEMMA GotoInv ==
  ASSUME IInv, NEW j \in Jobs, NEW pc, Goto(j, pc),
         job[j].pc \notin {"idle", "queued"}, pc \notin {"idle", "queued"},
         job[j].kind = "download" => job[j].pc # "unlink" /\ pc # "unlink",
         UNCHANGED <<activeJobs, downloadQueue, ahead>>
  PROVE  Consistent' /\ LockExclusive'
<1>1. /\ job'[j] = [job[j] EXCEPT !.pc = pc]
      /\ \A k \in Jobs \ {j} : job'[k] = job[k]
  BY DEF Goto, IInv, TypeOK
<1>2. job'[j].pc = pc /\ job'[j].kind = job[j].kind /\ job'[j].dir = job[j].dir
      /\ job'[j].prev = job[j].prev
  BY <1>1 DEF IInv, TypeOK, JobRecords
<1>3. Consistent'
  BY <1>1, <1>2, SameLine DEF IInv
<1>4. Elsewhere(j)
  BY <1>1 DEF Elsewhere
<1>5. \A d \in Dirs : Holds(j, d)' <=> Holds(j, d)
  BY <1>2 DEF Holds
<1> QED
  BY <1>3, <1>4, <1>5, KeepsLock DEF IInv

(* A download settles. *)
LEMMA SettleInv ==
  ASSUME IInv, NEW j \in Jobs, NEW ok \in BOOLEAN, Settle(j, ok),
         job[j].kind = "download", job[j].prev = None
  PROVE  Consistent' /\ LockExclusive'
BY SettleKeepsLine, SettleKeepsLocks DEF IInv

(* A call takes its lock at once. *)
LEMMA BeginInv ==
  ASSUME IInv, NEW j \in Jobs, NEW pc \in {"prepare", "wipe"}, NEW k,
         NEW d \in Dirs, k # "download", Begin(j, pc, k, d)
  PROVE  Consistent' /\ LockExclusive'
<1>1. /\ job'[j].pc = pc /\ job'[j].kind = k /\ job'[j].dir = d
      /\ job'[j].prev = None
      /\ \A i \in Jobs \ {j} : job'[i] = job[i]
  BY DEF Begin, Job, IInv, TypeOK
<1>2. job[j].pc = "idle" /\ job[j].kind = "none" /\ job[j].prev = None
  BY DEF Begin, Idle, Job
<1>3. Consistent'
  BY <1>1, <1>2, SameLine DEF IInv, Begin
<1>4. Elsewhere(j)
  BY <1>1 DEF Elsewhere
<1> QED
  BY <1>1, <1>2, <1>3, <1>4, TakeLock DEF IInv, Begin, Free

(* Each kind of call keeps the invariant. *)
LEMMA RequestInv ==
  ASSUME IInv, NEW j \in Jobs, Request(j)
  PROVE  Consistent' /\ LockExclusive'
<1>1. ASSUME NEW k \in Binary, RequestBinary(j, k)
      PROVE  Consistent' /\ LockExclusive'
  BY <1>1, BeginInv DEF RequestBinary, Dirs, Binary
<1>2. CASE RequestCheck(j)
  BY <1>2, BeginInv DEF RequestCheck, Dirs
<1>3. CASE RequestReinstall(j)
  BY <1>3, BeginInv DEF RequestReinstall, Dirs
<1>4. ASSUME NEW d \in Stagings, RequestDownload(j, d)
      PROVE  Consistent' /\ LockExclusive'
  <2>1. Consistent'
    BY <1>4, AskKeepsLine DEF IInv
  <2>2. Elsewhere(j)
    BY <1>4 DEF RequestDownload, Elsewhere, IInv, TypeOK
  <2>3. job[j].pc = "idle" /\ job'[j].pc = "queued"
    BY <1>4 DEF RequestDownload, Idle, Job, IInv, TypeOK
  <2>4. LockExclusive'
    BY <1>4, <2>2, <2>3, KeepsLock DEF RequestDownload, Holds, IInv
  <2> QED
    BY <2>1, <2>4
<1> QED
  BY <1>1, <1>2, <1>3, <1>4 DEF Request

(* What a job does when its child has ended. *)
LEMMA AfterExitInv ==
  ASSUME IInv, NEW j \in Jobs, NEW ok \in BOOLEAN, AfterExit(j, ok),
         job[j].pc \notin {"idle", "queued", "unlink"}, job[j].kind \in JobIds,
         UNCHANGED <<downloadQueue, ahead>>
  PROVE  Consistent' /\ LockExclusive'
<1>1. CASE job[j].kind = "download"
  BY <1>1, GotoInv DEF AfterExit
<1>2. CASE job[j].kind = "install"
  BY <1>2, GotoInv, LeaveInv DEF AfterExit
<1>3. CASE job[j].kind = "update"
  BY <1>3, GotoInv DEF AfterExit
<1> QED
  BY <1>1, <1>2, <1>3 DEF JobIds, Binary

(* So does each stage, action by action. *)
LEMMA StepInv ==
  ASSUME IInv, NEW j \in Jobs, Step(j)
  PROVE  Consistent' /\ LockExclusive'
<1>1. job[j] \in JobRecords /\ Shape(job[j])
  BY DEF IInv, TypeOK
<1>2. job[j].kind = "download" => job[j].dir \in Dirs
  BY <1>1 DEF Shape, Dirs
<1>3. CASE Start(j)
  <2>1. job[j].kind = "download" /\ job[j].prev = None /\ job[j].pc = "queued"
    BY <1>1, <1>3 DEF Start, Shape
  <2>2. Free(job[j].dir)
    BY <2>1, TurnFindsFree DEF IInv, Holds, Free
  <2>3. /\ activeJobs' = activeJobs \cup {job[j].dir}
        /\ Goto(j, "prepare") /\ UNCHANGED <<downloadQueue, ahead>>
    BY <1>3, <2>2 DEF Start
  <2>4. /\ job'[j].pc = "prepare" /\ job'[j].kind = job[j].kind
        /\ job'[j].dir = job[j].dir /\ job'[j].prev = job[j].prev
        /\ \A k \in Jobs \ {j} : job'[k] = job[k]
    BY <2>3 DEF Goto, IInv, TypeOK, JobRecords
  <2>5. Consistent'
    BY <2>3, <2>4, SameLine DEF IInv
  <2>6. LockExclusive'
    BY <1>2, <2>1, <2>2, <2>3, <2>4, TakeLock DEF Elsewhere, Free, IInv
  <2> QED
    BY <2>5, <2>6
<1>4. CASE SpawnChild(j)
  BY <1>4, GotoInv DEF SpawnChild
<1>5. CASE SpawnFails(j)
  <2>1. CASE job[j].kind # "download"
    BY <1>5, <2>1, LeaveInv DEF SpawnFails
  <2>2. CASE job[j].kind = "download"
    <3>1. /\ Goto(j, "unlink") /\ Unlock(job[j].dir)
          /\ UNCHANGED <<downloadQueue, ahead>>
      BY <1>5, <2>2 DEF SpawnFails
    <3>2. /\ job'[j].pc = "unlink" /\ job'[j].kind = job[j].kind
          /\ job'[j].dir = job[j].dir /\ job'[j].prev = job[j].prev
          /\ \A k \in Jobs \ {j} : job'[k] = job[k]
      BY <3>1 DEF Goto, IInv, TypeOK, JobRecords
    <3>3. Consistent'
      BY <3>1, <3>2, SameLine DEF IInv
    <3>4. LockExclusive'
      BY <1>2, <1>5, <2>2, <3>1, <3>2, DropLock
         DEF SpawnFails, Holds, Elsewhere, Unlock, IInv
    <3> QED
      BY <3>3, <3>4
  <2> QED
    BY <2>1, <2>2
<1>6. CASE PrepareFails(j)
  BY <1>1, <1>6, LeaveInv, SettleInv DEF PrepareFails, Shape
<1>7. CASE CheckPrepared(j)
  BY <1>7, GotoInv DEF CheckPrepared
<1>8. CASE WaitTimeout(j)
  BY <1>1, <1>8, LeaveInv, SettleInv, GotoInv DEF WaitTimeout, Shape
<1>9. CASE Verified(j)
  BY <1>1, <1>9, LeaveInv, SettleInv DEF Verified, Shape
<1>10. CASE ItemsMissing(j)
  BY <1>10, GotoInv DEF ItemsMissing
<1>11. CASE Cleaned(j)
  BY <1>1, <1>11, LeaveInv, SettleInv DEF Cleaned, Shape
<1>12. CASE Wiped(j)
  BY <1>1, <1>12, GotoInv DEF Wiped, Shape
<1>13. CASE Fetched(j)
  BY <1>1, <1>13, GotoInv DEF Fetched, Shape
<1>14. CASE Done(j)
  BY <1>1, <1>14, LeaveInv DEF Done, Shape
<1>15. CASE ExecFails(j)
  BY <1>15, AfterExitInv DEF ExecFails
<1> QED
  BY <1>3, <1>4, <1>5, <1>6, <1>7, <1>8, <1>9, <1>10, <1>11, <1>12, <1>13, <1>14, <1>15
     DEF Step

(* A child ends, waited for or given up. *)
LEMMA ExitInv ==
  ASSUME IInv, NEW id \in JobIds, NEW ok \in BOOLEAN, ChildExit(id, ok)
  PROVE  Consistent' /\ LockExclusive'
<1>1. ASSUME NEW j \in Jobs, job[j].pc = "wait", job[j].kind = id, AfterExit(j, ok)
      PROVE  Consistent' /\ LockExclusive'
  BY <1>1, AfterExitInv DEF ChildExit
<1>2. CASE UNCHANGED <<activeJobs, job>>
  <2>1. UNCHANGED <<downloadQueue, ahead>>
    BY DEF ChildExit
  <2>2. Consistent'
    BY <1>2, <2>1, SameLine DEF IInv
  <2> QED
    BY <1>2, <2>2 DEF IInv, LockExclusive, Holds
<1> QED
  BY <1>1, <1>2 DEF ChildExit

(* The invariant is inductive. *)
LEMMA InvNext == IInv /\ [Next]_vars => IInv'
<1> SUFFICES ASSUME IInv, [Next]_vars PROVE Consistent' /\ LockExclusive'
  BY TypeNext DEF IInv
<1>1. ASSUME NEW j \in Jobs, Request(j) \/ Step(j) PROVE Consistent' /\ LockExclusive'
  BY <1>1, RequestInv, StepInv
<1>2. ASSUME NEW id \in JobIds, NEW ok \in BOOLEAN, ChildExit(id, ok)
      PROVE  Consistent' /\ LockExclusive'
  BY <1>2, ExitInv
<1>3. CASE UNCHANGED vars
  <2>1. Consistent'
    BY <1>3, SameLine DEF IInv, vars
  <2> QED
    BY <1>3, <2>1 DEF IInv, vars, LockExclusive, Holds
<1> QED
  BY <1>1, <1>2, <1>3 DEF Next

(* It holds always. *)
LEMMA InvHolds == Spec => []IInv
<1> QED
  BY InvInit, InvNext, PTL DEF Spec

(* activeJobs keeps two calls out of one directory, and only an install    *)
(* can leave its lock behind, in whatever order calls fail, time out and   *)
(* run their finally blocks.                                               *)
THEOREM LocksExclude == Spec => []LockExclusive
<1>1. IInv => LockExclusive
  BY DEF IInv
<1> QED
  BY <1>1, InvHolds, PTL

(* The guard of downloadWorkshopItem behind `await prev` that answers      *)
(* steamcmd-busy is never taken.                                           *)
THEOREM TurnsFindFree == Spec => []TurnMeansFree
<1>1. IInv => TurnMeansFree
  <2> SUFFICES ASSUME IInv, NEW j \in Jobs, job[j].pc = "queued", job[j].prev = None
               PROVE  job[j].dir \notin activeJobs
    BY DEF TurnMeansFree
  <2>1. job[j].kind = "download"
    BY DEF IInv, TypeOK, Shape
  <2> QED
    BY <2>1, TurnFindsFree DEF IInv, Holds
<1> QED
  BY <1>1, InvHolds, PTL

(***************************************************************************)
(* The children.                                                           *)
(***************************************************************************)
(* A step that keeps the table and lets nobody begin to wait.              *)
LEMMA NobodyNewWaits ==
  ASSUME WaiterHasChild, UNCHANGED processes,
         \A k \in Jobs : job'[k].pc = "wait" =>
           job[k].pc = "wait" /\ job'[k].kind = job[k].kind /\ job'[k].dir = job[k].dir
  PROVE  WaiterHasChild'
BY DEF WaiterHasChild

(* A child is spawned when no other of its id is waited for. *)
LEMMA SpawnKeepsWaiters ==
  ASSUME TypeOK, WaiterHasChild, NEW j \in Jobs, SpawnChild(j)
  PROVE  WaiterHasChild'
<1>1. /\ job[j].kind \in JobIds /\ processes[job[j].kind] = None
      /\ processes' = [processes EXCEPT ![job[j].kind] = job[j].dir]
      /\ job'[j].kind = job[j].kind /\ job'[j].dir = job[j].dir
      /\ \A k \in Jobs \ {j} : job'[k] = job[k]
  BY DEF SpawnChild, Spawnable, Goto, TypeOK, JobRecords
<1>2. \A k \in Jobs : job[k].pc = "wait" => job[k].dir # None /\ job[k].kind \in JobIds
  BY DirsAssumption DEF TypeOK, Shape, Dirs, JobIds, Binary
<1>3. \A k \in Jobs : job[k].pc = "wait" => job[k].kind # job[j].kind
  BY <1>1, <1>2 DEF WaiterHasChild
<1>4. ASSUME NEW k \in Jobs, job'[k].pc = "wait"
      PROVE  processes'[job'[k].kind] = job'[k].dir
  <2>1. CASE k = j
    BY <1>1, <2>1 DEF TypeOK
  <2>2. CASE k # j
    BY <1>1, <1>3, <1>4, <2>2 DEF TypeOK, WaiterHasChild
  <2> QED
    BY <2>1, <2>2
<1> QED
  BY <1>1, <1>3, <1>4 DEF WaiterHasChild

(* A child that ends is waited for by one job or by none. *)
LEMMA ExitKeepsWaiters ==
  ASSUME TypeOK, WaiterHasChild, NEW id \in JobIds, NEW ok \in BOOLEAN,
         ChildExit(id, ok)
  PROVE  WaiterHasChild'
<1>1. \A k \in Jobs : job[k].pc = "wait" /\ job[k].kind # id
                        => processes'[job[k].kind] = processes[job[k].kind]
  BY DEF ChildExit, TypeOK, Shape
<1>2. ASSUME NEW j \in Jobs, job[j].pc = "wait", job[j].kind = id, AfterExit(j, ok)
      PROVE  WaiterHasChild'
  <2>1. job'[j].pc # "wait" /\ \A k \in Jobs \ {j} : job'[k] = job[k]
    BY <1>2 DEF AfterExit, Goto, Leave, Idle, Job, TypeOK, JobRecords
  <2>2. \A k \in Jobs : job[k].pc = "wait" /\ job[k].kind = id => k = j
    BY <1>2 DEF WaiterHasChild
  <2> QED
    BY <1>1, <2>1, <2>2 DEF WaiterHasChild
<1>3. CASE /\ \A j \in Jobs : ~(job[j].pc = "wait" /\ job[j].kind = id)
           /\ UNCHANGED job
  BY <1>1, <1>3 DEF WaiterHasChild
<1> QED
  BY <1>2, <1>3 DEF ChildExit

(* waitForExit is resolved by the child of its own job only, although the  *)
(* downloads of all staging directories are registered under one id and    *)
(* children outlive the jobs that time out.                                *)
THEOREM WaitersHaveChildren == Spec => []WaiterHasChild
<1>1. Init => WaiterHasChild
  BY DEF Init, Idle, Job, WaiterHasChild
<1>2. TypeOK /\ WaiterHasChild /\ [Next]_vars => WaiterHasChild'
  <2> SUFFICES ASSUME TypeOK, WaiterHasChild, [Next]_vars PROVE WaiterHasChild'
    OBVIOUS
  <2>1. ASSUME NEW j \in Jobs, Request(j) PROVE WaiterHasChild'
    <3>1. UNCHANGED processes
      BY <2>1 DEF Request, RequestBinary, RequestCheck, RequestReinstall,
                  RequestDownload, Begin
    <3>2. \A k \in Jobs \ {j} : job'[k] = job[k]
      BY <2>1 DEF Request, RequestBinary, RequestCheck, RequestReinstall,
                  RequestDownload, Begin, TypeOK
    <3>3. job'[j].pc # "wait"
      BY <2>1 DEF Request, RequestBinary, RequestCheck, RequestReinstall,
                  RequestDownload, Begin, Job, TypeOK
    <3> QED
      BY <3>1, <3>2, <3>3, NobodyNewWaits
  <2>2. ASSUME NEW j \in Jobs, Step(j), ~SpawnChild(j) PROVE WaiterHasChild'
    <3>1. UNCHANGED processes
      BY <2>2 DEF Step, Start, SpawnFails, PrepareFails, CheckPrepared, WaitTimeout,
                  Verified, ItemsMissing, Cleaned, Wiped, Fetched, Done,
                  ExecFails
    <3>2. \/ Leave(j)
          \/ \E pc \in Pcs \ {"wait"} : Goto(j, pc)
          \/ \E ok \in BOOLEAN : MoveUp(j, ok)
      <4>1. CASE Start(j)
        BY <4>1 DEF Start, Settle, Pcs
      <4>2. CASE PrepareFails(j) \/ WaitTimeout(j) \/ Cleaned(j)
        BY <4>2 DEF PrepareFails, WaitTimeout, Cleaned, Settle, Pcs
      <4>3. CASE Verified(j)
        BY <4>3 DEF Verified, Settle
      <4>4. CASE SpawnFails(j) \/ CheckPrepared(j) \/ ItemsMissing(j)
        BY <4>4 DEF SpawnFails, CheckPrepared, ItemsMissing, Pcs
      <4>5. CASE Wiped(j) \/ Fetched(j) \/ Done(j)
        BY <4>5 DEF Wiped, Fetched, Done, Pcs
      <4>6. CASE ExecFails(j)
        BY <4>6 DEF ExecFails, AfterExit, Pcs
      <4> QED
        BY <2>2, <4>1, <4>2, <4>3, <4>4, <4>5, <4>6 DEF Step
    <3>3. \A k \in Jobs : job'[k].pc = "wait" =>
             job[k].pc = "wait" /\ job'[k].kind = job[k].kind /\ job'[k].dir = job[k].dir
      <4>1. CASE Leave(j)
        BY <4>1 DEF Leave, Idle, Job, TypeOK
      <4>2. ASSUME NEW pc \in Pcs \ {"wait"}, Goto(j, pc)
            PROVE  \A k \in Jobs : job'[k].pc = "wait" => job'[k] = job[k]
        BY <4>2 DEF Goto, TypeOK, JobRecords
      <4>3. ASSUME NEW ok \in BOOLEAN, MoveUp(j, ok)
            PROVE  \A k \in Jobs : job'[k].pc = "wait" =>
                     /\ job'[k].pc = job[k].pc /\ job'[k].kind = job[k].kind
                     /\ job'[k].dir = job[k].dir
        BY <4>3 DEF MoveUp, Idle, Job, TypeOK, JobRecords
      <4> QED
        BY <3>2, <4>1, <4>2, <4>3
    <3> QED
      BY <3>1, <3>3, NobodyNewWaits
  <2>3. ASSUME NEW j \in Jobs, SpawnChild(j) PROVE WaiterHasChild'
    BY <2>3, SpawnKeepsWaiters
  <2>4. ASSUME NEW id \in JobIds, NEW ok \in BOOLEAN, ChildExit(id, ok)
        PROVE  WaiterHasChild'
    BY <2>4, ExitKeepsWaiters
  <2>5. CASE UNCHANGED vars
    BY <2>5 DEF vars, WaiterHasChild
  <2> QED
    BY <2>1, <2>2, <2>3, <2>4, <2>5 DEF Next
<1> QED
  BY <1>1, <1>2, TypeCorrect, PTL DEF Spec

(***************************************************************************)
(* Refinement.                                                             *)
(***************************************************************************)
Waiting == [d \in Stagings |-> Downloads(d)]
Running == [d \in Stagings |-> {j \in Downloads(d) : job[j].pc # "queued"}]

(* A step of a coroutine that stays before or behind its turn is a stutter.*)
LEMMA LineStutters ==
  ASSUME UNCHANGED ahead,
         \A k \in Jobs :
           \/ job[k].kind # "download" /\ job'[k].kind # "download"
           \/ /\ job'[k].kind = job[k].kind /\ job'[k].dir = job[k].dir
              /\ job'[k].pc = "queued" <=> job[k].pc = "queued"
  PROVE  UNCHANGED Queue!vars
<1>1. \A d \in Stagings : Downloads(d)' = Downloads(d)
  BY DEF Downloads
<1>2. \A d \in Stagings : {j \in Downloads(d) : job[j].pc # "queued"}'
                            = {j \in Downloads(d) : job[j].pc # "queued"}
  BY DEF Downloads
<1>3. UNCHANGED Waiting
  BY <1>1 DEF Waiting
<1>4. UNCHANGED Running
  BY <1>2 DEF Running
<1> QED
  BY <1>3, <1>4 DEF Queue!vars, Waiting, Running

(* RequestDownload is Ask. *)
LEMMA AskRefines ==
  ASSUME IInv, NEW j \in Jobs, NEW d \in Stagings, RequestDownload(j, d)
  PROVE  Queue!Ask(j, d)
<1>1. /\ job[j].kind # "download"
      /\ job'[j].kind = "download" /\ job'[j].dir = d /\ job'[j].pc = "queued"
      /\ \A k \in Jobs \ {j} : job'[k] = job[k]
      /\ ahead' = [ahead EXCEPT ![j] = Downloads(d)]
  BY DEF RequestDownload, Idle, Job, IInv, TypeOK
<1>2. \A s \in Stagings : j \notin Waiting[s]
  BY <1>1 DEF Downloads, Waiting
<1>3. Waiting' = [Waiting EXCEPT ![d] = @ \cup {j}]
  <2>1. \A s \in Stagings : Downloads(s)' = IF s = d THEN Downloads(d) \cup {j}
                                            ELSE Downloads(s)
    BY <1>1 DEF Downloads
  <2> QED
    BY <2>1 DEF Waiting
<1>4. Running' = Running
  <2>1. \A s \in Stagings : {k \in Downloads(s) : job[k].pc # "queued"}'
                              = {k \in Downloads(s) : job[k].pc # "queued"}
    BY <1>1 DEF Downloads
  <2> QED
    BY <2>1 DEF Running
<1>5. ahead' = [ahead EXCEPT ![j] = Waiting[d]]
  BY <1>1 DEF Waiting
<1> QED
  BY <1>2, <1>3, <1>4, <1>5 DEF Queue!Ask, Waiting, Running

(* The download that has its turn is the only one that runs. *)
LEMMA OneHasTurn ==
  ASSUME IInv, NEW j \in Jobs, job[j].kind = "download", job[j].prev = None
  PROVE  /\ ahead[j] = {} /\ job[j].dir \in Stagings /\ j \in Waiting[job[j].dir]
         /\ Running[job[j].dir] = IF job[j].pc = "queued" THEN {} ELSE {j}
<1>1. ahead[j] = {}
  BY DEF IInv, Consistent, Chain, OrderOf
<1>2. job[j].dir \in Stagings /\ j \in Waiting[job[j].dir]
  BY DEF IInv, TypeOK, Shape, Waiting, Downloads
<1>3. \A k \in Downloads(job[j].dir) : k # j => job[k].pc = "queued"
  <2> SUFFICES ASSUME NEW k \in Downloads(job[j].dir), k # j PROVE job[k].pc = "queued"
    OBVIOUS
  <2>1. k \in Jobs /\ SameQueue(j, k)
    BY DEF Downloads, SameQueue
  <2> QED
    BY <2>1, TurnIsFirst DEF IInv
<1>4. Running[job[j].dir] = {k \in Downloads(job[j].dir) : job[k].pc # "queued"}
  BY <1>2 DEF Running
<1>5. j \in Downloads(job[j].dir)
  BY DEF Downloads
<1> QED
  BY <1>1, <1>2, <1>3, <1>4, <1>5

(* Start is Run: the directory is never busy. *)
LEMMA StartRefines ==
  ASSUME IInv, NEW j \in Jobs, NEW d, d = job[j].dir, Start(j)
  PROVE  Queue!Run(j, d)
<1>1. job[j].pc = "queued" /\ job[j].kind = "download" /\ job[j].prev = None
  BY DEF Start, IInv, TypeOK, Shape
<1>2. Free(job[j].dir)
  BY <1>1, TurnFindsFree DEF IInv, Holds, Free
<1>3. /\ job'[j].pc = "prepare" /\ job'[j].kind = "download"
      /\ job'[j].dir = job[j].dir /\ UNCHANGED ahead
      /\ \A k \in Jobs \ {j} : job'[k] = job[k]
  BY <1>1, <1>2 DEF Start, Goto, IInv, TypeOK, JobRecords
<1>4. Waiting' = Waiting
  <2>1. \A s \in Stagings : Downloads(s)' = Downloads(s)
    BY <1>1, <1>3 DEF Downloads
  <2> QED
    BY <2>1 DEF Waiting
<1>5. Running' = [Running EXCEPT ![job[j].dir] = {j}]
  <2>1. /\ Running[job[j].dir] = {} /\ job[j].dir \in Stagings
    BY <1>1, OneHasTurn
  <2>2. \A s \in Stagings : {k \in Downloads(s) : job[k].pc # "queued"}'
          = IF s = job[j].dir THEN {k \in Downloads(s) : job[k].pc # "queued"} \cup {j}
            ELSE {k \in Downloads(s) : job[k].pc # "queued"}
    BY <1>1, <1>3 DEF Downloads
  <2> QED
    BY <2>1, <2>2 DEF Running
<1>6. /\ j \in Waiting[job[j].dir] /\ ahead[j] = {} /\ Running[job[j].dir] = {}
  BY <1>1, OneHasTurn
<1> QED
  BY <1>3, <1>4, <1>5, <1>6 DEF Queue!Run, Waiting, Running

(* The end of a download that had its turn is End. *)
LEMMA SettleRefines ==
  ASSUME IInv, NEW j \in Jobs, NEW ok \in BOOLEAN, NEW d, d = job[j].dir,
         Settle(j, ok),
         job[j].kind = "download", job[j].prev = None, job[j].pc # "queued"
  PROVE  Queue!End(j, d)
<1>1. /\ job'[j].kind # "download"
      /\ \A k \in Jobs \ {j} : /\ job'[k].kind = job[k].kind
                               /\ job'[k].dir = job[k].dir
                               /\ job'[k].pc = job[k].pc
      /\ ahead' = [k \in Jobs |-> ahead[k] \ {j}]
  BY DEF Settle, MoveUp, Idle, Job, IInv, TypeOK, JobRecords
<1>2. /\ Running[job[j].dir] = {j} /\ job[j].dir \in Stagings
  BY OneHasTurn
<1>3. Waiting' = [Waiting EXCEPT ![job[j].dir] = @ \ {j}]
  <2>1. \A s \in Stagings : Downloads(s)' = IF s = job[j].dir THEN Downloads(s) \ {j}
                                            ELSE Downloads(s)
    BY <1>1 DEF Downloads
  <2> QED
    BY <2>1 DEF Waiting
<1>4. Running' = [Running EXCEPT ![job[j].dir] = {}]
  <2>1. \A s \in Stagings : {k \in Downloads(s) : job[k].pc # "queued"}'
          = IF s = job[j].dir THEN {k \in Downloads(s) : job[k].pc # "queued"} \ {j}
            ELSE {k \in Downloads(s) : job[k].pc # "queued"}
    BY <1>1 DEF Downloads
  <2> QED
    BY <1>2, <2>1 DEF Running
<1> QED
  BY <1>1, <1>2, <1>3, <1>4 DEF Queue!End, Waiting, Running

(* The other stages of a download are stutters. *)
LEMMA GotoStutters ==
  ASSUME IInv, NEW j \in Jobs, NEW pc, Goto(j, pc), UNCHANGED ahead,
         job[j].pc # "queued", pc # "queued"
  PROVE  UNCHANGED Queue!vars
<1>1. /\ job'[j].kind = job[j].kind /\ job'[j].dir = job[j].dir /\ job'[j].pc = pc
      /\ \A k \in Jobs \ {j} : job'[k] = job[k]
  BY DEF Goto, IInv, TypeOK, JobRecords
<1> QED
  BY <1>1, LineStutters

(* So is whatever is no download. *)
LEMMA LeaveStutters ==
  ASSUME IInv, NEW j \in Jobs, Leave(j), UNCHANGED ahead, job[j].kind # "download"
  PROVE  UNCHANGED Queue!vars
<1>1. job'[j].kind # "download" /\ \A k \in Jobs \ {j} : job'[k] = job[k]
  BY DEF Leave, Idle, Job, IInv, TypeOK
<1> QED
  BY <1>1, LineStutters

(* The three parts of Next. *)
LEMMA RequestRefines ==
  ASSUME IInv, NEW j \in Jobs, Request(j)
  PROVE  [Queue!Next]_(Queue!vars)
<1>1. ASSUME NEW d \in Stagings, RequestDownload(j, d) PROVE Queue!Next
  BY <1>1, AskRefines DEF Queue!Next
<1>2. ASSUME NEW pc, NEW k, NEW d, Begin(j, pc, k, d), k # "download"
      PROVE  UNCHANGED Queue!vars
  <2>1. /\ job[j].kind # "download" /\ job'[j].kind # "download"
        /\ \A i \in Jobs \ {j} : job'[i] = job[i]
    BY <1>2 DEF Begin, Idle, Job, IInv, TypeOK
  <2>2. UNCHANGED ahead
    BY <1>2 DEF Begin
  <2> QED
    BY <2>1, <2>2, LineStutters
<1> QED
  BY <1>1, <1>2
     DEF Request, RequestBinary, RequestCheck, RequestReinstall, Binary

(* The coroutines. *)
LEMMA StepRefines ==
  ASSUME IInv, NEW j \in Jobs, Step(j)
  PROVE  [Queue!Next]_(Queue!vars)
<1>1. Shape(job[j])
  BY DEF IInv, TypeOK
<1>2. CASE Start(j)
  <2>1. PICK d \in Stagings : d = job[j].dir
    BY <1>1, <1>2 DEF Start, Shape
  <2>2. Queue!Run(j, d)
    BY <1>2, <2>1, StartRefines
  <2> QED
    BY <2>2 DEF Queue!Next
<1>3. ASSUME NEW ok \in BOOLEAN, Settle(j, ok), job[j].kind = "download",
             job[j].prev = None, job[j].pc # "queued"
      PROVE  Queue!Next
  <2>1. PICK d \in Stagings : d = job[j].dir
    BY <1>1, <1>3 DEF Shape
  <2>2. Queue!End(j, d)
    BY <1>3, <2>1, SettleRefines
  <2> QED
    BY <2>2 DEF Queue!Next
<1>4. CASE SpawnChild(j)
  BY <1>4, GotoStutters DEF SpawnChild
<1>5. CASE SpawnFails(j)
  BY <1>5, GotoStutters, LeaveStutters DEF SpawnFails
<1>6. CASE PrepareFails(j)
  BY <1>1, <1>3, <1>6, LeaveStutters DEF PrepareFails, Shape
<1>7. CASE CheckPrepared(j)
  BY <1>7, GotoStutters DEF CheckPrepared
<1>8. CASE WaitTimeout(j)
  BY <1>1, <1>3, <1>8, GotoStutters, LeaveStutters DEF WaitTimeout, Shape
<1>9. CASE Verified(j)
  BY <1>1, <1>3, <1>9, LeaveStutters DEF Verified, Shape
<1>10. CASE ItemsMissing(j)
  BY <1>10, GotoStutters DEF ItemsMissing
<1>11. CASE Cleaned(j)
  BY <1>1, <1>3, <1>11, LeaveStutters DEF Cleaned, Shape
<1>12. CASE Wiped(j)
  BY <1>12, GotoStutters DEF Wiped
<1>13. CASE Fetched(j)
  BY <1>13, GotoStutters DEF Fetched
<1>14. CASE Done(j)
  BY <1>1, <1>14, LeaveStutters DEF Done, Shape
<1>15. CASE ExecFails(j)
  BY <1>15, GotoStutters, LeaveStutters DEF ExecFails, AfterExit
<1> QED
  BY <1>2, <1>4, <1>5, <1>6, <1>7, <1>8, <1>9, <1>10, <1>11, <1>12, <1>13, <1>14, <1>15
     DEF Step

(* The children. *)
LEMMA ExitRefines ==
  ASSUME IInv, NEW id \in JobIds, NEW ok \in BOOLEAN, ChildExit(id, ok)
  PROVE  UNCHANGED Queue!vars
<1>1. UNCHANGED ahead
  BY DEF ChildExit
<1>2. ASSUME NEW j \in Jobs, job[j].pc = "wait", job[j].kind = id, AfterExit(j, ok)
      PROVE  UNCHANGED Queue!vars
  BY <1>1, <1>2, GotoStutters, LeaveStutters DEF AfterExit
<1>3. CASE UNCHANGED <<activeJobs, job>>
  BY <1>1, <1>3, LineStutters
<1> QED
  BY <1>2, <1>3 DEF ChildExit

(* The queue is empty at first. *)
LEMMA InitRefines == Init => Queue!Init
<1> SUFFICES ASSUME Init PROVE Queue!Init
  OBVIOUS
<1>1. \A d \in Stagings : Downloads(d) = {}
  BY DEF Init, Idle, Job, Downloads
<1> QED
  BY <1>1 DEF Init, Queue!Init

(* Every step is one of the queue or leaves it alone. *)
LEMMA NextRefines == IInv /\ [Next]_vars => [Queue!Next]_(Queue!vars)
<1> SUFFICES ASSUME IInv, [Next]_vars PROVE [Queue!Next]_(Queue!vars)
  OBVIOUS
<1>1. CASE UNCHANGED vars
  BY <1>1, LineStutters DEF vars
<1> QED
  BY <1>1, RequestRefines, StepRefines, ExitRefines DEF Next

(* downloadWorkshopItem implements a first-come, first-served queue per    *)
(* staging directory: every step of SteamCmd is a step of DownloadQueue or *)
(* leaves it alone, for any number of downloads and failures.              *)
THEOREM QueueImplemented == Spec => ImplementsQueue
<1> QED
  BY InitRefines, NextRefines, InvHolds, PTL DEF Spec, ImplementsQueue, Queue!Spec
================================================================================
