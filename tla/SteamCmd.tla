------------------------------- MODULE SteamCmd -------------------------------
(***************************************************************************)
(* SteamCmdManager and the part of ProcessSupervisor it uses: installing   *)
(* and updating the game server, downloading mods, checking for updates    *)
(* and reinstalling SteamCMD itself.  Each is answered at once and goes on *)
(* as a coroutine; a Set of directories keeps two of them out of the same  *)
(* directory, and a chain of promises lines up the downloads of a staging  *)
(* directory.  One installation directory is modelled; a directory is the  *)
(* key of its lock.                                                        *)
(***************************************************************************)
EXTENDS FiniteSets

CONSTANTS
  Jobs,        \* calls in flight at once
  Stagings,    \* Workshop/staging of the instances
  InstallDir,  \* the game server
  ToolDir,     \* SteamCMD
  TmpDir,      \* the runscripts of checkUpdate
  None

Dirs == Stagings \cup {InstallDir, ToolDir, TmpDir}

ASSUME DirsAssumption ==
  /\ InstallDir \notin Stagings /\ ToolDir \notin Stagings
  /\ TmpDir \notin Stagings
  /\ InstallDir # ToolDir /\ InstallDir # TmpDir /\ ToolDir # TmpDir
  /\ None \notin Dirs \cup Jobs

VARIABLES
  activeJobs,     \* the directories that are locked
  downloadQueue,  \* the last download of each staging directory, or None
  processes,      \* per job id, the directory its live child writes, or None
  job,            \* the coroutines
  exe,            \* a SteamCMD executable is found
  panel,          \* the panel process: an unhandled rejection ends it
  ahead           \* history: the unfinished downloads asked for before

vars == <<activeJobs, downloadQueue, processes, job, exe, panel, ahead>>

Binary == {"install", "update"}
Kinds  == Binary \cup {"download", "check", "reinstall"}

(* The job id a child is registered under names the kind and installDir,   *)
(* so the downloads of all staging directories share one.                  *)
JobIds == Binary \cup {"download"}

(* Where a coroutine is: behind the download before it; writing its        *)
(* runscript; waiting for its child; looking at what the child left;       *)
(* removing what a failed download left; removing the runscript; and the   *)
(* stages of checkUpdate and reinstall that have no supervised child.      *)
Pcs == {"idle", "queued", "prepare", "wait", "verify", "clean", "unlink",
        "wipe", "fetch", "work"}

Job(pc, k, d, prev) == [pc |-> pc, kind |-> k, dir |-> d, prev |-> prev]
Idle == Job("idle", "none", None, None)
JobRecords == [pc : Pcs, kind : Kinds \cup {"none"}, dir : Dirs \cup {None},
               prev : Jobs \cup {None}]

(* Mutant: the coroutine that ends keeps its directory. *)
Goto(j, pc)   == job' = [job EXCEPT ![j].pc = pc]
LeaveStage(j) == Goto(j, "idle")
Leave(j)      == job' = [job EXCEPT ![j] = Idle]

Downloads(d) == {j \in Jobs : job[j].kind = "download" /\ job[j].dir = d}

(* Mutant: a `finally` is missing. *)
KeepLock(d) == UNCHANGED activeJobs
Unlock(d)   == activeJobs' = activeJobs \ {d}

(***************************************************************************)
(* The promise of a download settles: its `finally` forgets the queue if   *)
(* the download is still the last one and unlocks the directory, and the   *)
(* next one, which waits for it to settle either way, moves up.  A         *)
(* rejection that no later download waits for is handled by nobody.        *)
(* Mutants: the queue is forgotten in any case; only a success lets the    *)
(* next one start.                                                         *)
(***************************************************************************)
ForgetAlways(j)  == downloadQueue' = [downloadQueue EXCEPT ![job[j].dir] = None]
ForgetQueue(j)   == downloadQueue' = [downloadQueue EXCEPT
                      ![job[j].dir] = IF @ = j THEN None ELSE @]
MoveUpAfterSuccess(j, ok) ==
  job' = [k \in Jobs |->
            IF k = j THEN Idle
            ELSE IF job[k].prev = j /\ ok THEN [job[k] EXCEPT !.prev = None]
            ELSE job[k]]
MoveUp(j, ok) ==
  job' = [k \in Jobs |->
            IF k = j THEN Idle
            ELSE IF job[k].prev = j THEN [job[k] EXCEPT !.prev = None]
            ELSE job[k]]

Settle(j, ok) ==
  /\ ForgetQueue(j)
  /\ Unlock(job[j].dir)
  /\ MoveUp(j, ok)
  /\ ahead' = [k \in Jobs |-> ahead[k] \ {j}]
  /\ panel' = IF ok \/ \E k \in Jobs : job[k].prev = j THEN panel ELSE "down"
(***************************************************************************)
(* Requests.                                                               *)
(***************************************************************************)
(* The lock is looked at and taken in one turn.  Mutant: not looked at.    *)
FreeUnchecked(d) == TRUE
Free(d) == d \notin activeJobs

Begin(j, pc, k, d) ==
  /\ job[j] = Idle
  /\ Free(d)
  /\ activeJobs' = activeJobs \cup {d}
  /\ job' = [job EXCEPT ![j] = Job(pc, k, d, None)]
  /\ UNCHANGED <<downloadQueue, processes, exe, panel, ahead>>

(* installU3DS, updateU3DS.  activeProbe refuses them while an instance is *)
(* not STOPPED; it is asked here only, and instances start and stop        *)
(* without a look at activeJobs, so its answer may be either at any time.  *)
RequestBinary(j, k) == exe /\ Begin(j, "prepare", k, InstallDir)

RequestCheck(j) == exe /\ Begin(j, "prepare", "check", TmpDir)

(* The directory is configured, so it is known when there is nothing in it.*)
RequestReinstall(j) == Begin(j, "wipe", "reinstall", ToolDir)

(* downloadWorkshopItem: no lock yet; behind the last download, if any.    *)
RequestDownload(j, d) ==
  /\ job[j] = Idle /\ exe
  /\ job' = [job EXCEPT ![j] = Job("queued", "download", d, downloadQueue[d])]
  /\ downloadQueue' = [downloadQueue EXCEPT ![d] = j]
  /\ ahead' = [ahead EXCEPT ![j] = Downloads(d)]
  /\ UNCHANGED <<activeJobs, processes, exe, panel>>

(***************************************************************************)
(* The coroutines.                                                         *)
(***************************************************************************)
(* The download before this one has settled. *)
Start(j) ==
  /\ job[j].pc = "queued" /\ job[j].prev = None
  /\ IF Free(job[j].dir)
     THEN /\ activeJobs' = activeJobs \cup {job[j].dir}
          /\ Goto(j, "prepare")
          /\ UNCHANGED <<downloadQueue, panel, ahead>>
     ELSE Settle(j, FALSE)                              \* steamcmd-busy
  /\ UNCHANGED <<processes, exe>>

(* The runscript is written; the child is spawned in the same turn unless  *)
(* one lives under this job id.  Mutant: that is not looked at.            *)
SpawnableAlways(j) == TRUE
Spawnable(j) == processes[job[j].kind] = None

SpawnChild(j) ==
  /\ job[j].pc = "prepare" /\ job[j].kind \in JobIds
  /\ Spawnable(j) /\ exe
  /\ processes' = [processes EXCEPT ![job[j].kind] = job[j].dir]
  /\ Goto(j, "wait")
  /\ UNCHANGED <<activeJobs, downloadQueue, exe, panel, ahead>>

(* A download still removes its runscript when it has unlocked. *)
SpawnFails(j) ==
  /\ job[j].pc = "prepare" /\ job[j].kind \in JobIds
  /\ Unlock(job[j].dir)
  /\ IF job[j].kind = "download" THEN Goto(j, "unlink") ELSE Leave(j)
  /\ UNCHANGED <<downloadQueue, processes, exe, panel, ahead>>

(* The runscript cannot be written.  Only install does it outside a try.   *)
PrepareFails(j) ==
  /\ job[j].pc = "prepare"
  /\ CASE job[j].kind = "download" -> Settle(j, FALSE)
       [] job[j].kind = "install" ->
            Leave(j) /\ UNCHANGED <<activeJobs, downloadQueue, panel, ahead>>
       [] OTHER ->
            /\ Unlock(job[j].dir)
            /\ Leave(j)
            /\ UNCHANGED <<downloadQueue, panel, ahead>>
  /\ UNCHANGED <<processes, exe>>

(* checkUpdate: its directory is there, the attempts follow. *)
CheckPrepared(j) ==
  /\ job[j].pc = "prepare" /\ job[j].kind = "check"
  /\ Goto(j, "work")
  /\ UNCHANGED <<activeJobs, downloadQueue, processes, exe, panel, ahead>>

(***************************************************************************)
(* waitForExit: the exit code counts as success when it is zero or, the    *)
(* child ended by a signal, null.                                          *)
(***************************************************************************)
AfterExit(j, ok) ==
  CASE job[j].kind = "download" ->
         /\ Goto(j, IF ok THEN "verify" ELSE "clean")
         /\ UNCHANGED activeJobs
    [] job[j].kind = "install" /\ ok ->
         Goto(j, "verify") /\ UNCHANGED activeJobs
    [] job[j].kind = "install" /\ ~ok ->
         Leave(j) /\ Unlock(job[j].dir)
    [] OTHER -> Goto(j, "unlink") /\ UNCHANGED activeJobs

ChildExit(id, ok) ==
  /\ processes[id] # None
  /\ processes' = [processes EXCEPT ![id] = None]
  /\ \/ \E j \in Jobs : /\ job[j].pc = "wait" /\ job[j].kind = id
                         /\ AfterExit(j, ok)
     \/ /\ \A j \in Jobs : ~(job[j].pc = "wait" /\ job[j].kind = id)
        /\ UNCHANGED <<activeJobs, job>>
  /\ UNCHANGED <<downloadQueue, exe, panel, ahead>>

(* 30 or 60 minutes without an exit: the job is given up, not the child.   *)
WaitTimeout(j) ==
  /\ job[j].pc = "wait"
  /\ CASE job[j].kind = "download" -> Settle(j, FALSE)
       [] job[j].kind = "install" ->
            /\ Unlock(job[j].dir)
            /\ Leave(j)
            /\ UNCHANGED <<downloadQueue, panel, ahead>>
       [] OTHER -> Goto(j, "unlink")
                   /\ UNCHANGED <<activeJobs, downloadQueue, panel, ahead>>
  /\ UNCHANGED <<processes, exe>>

(* The executable a reinstall has removed since it was looked for: `error` *)
(* takes the child from the table, `close` answers with a negative code.   *)
ExecFails(j) ==
  /\ job[j].pc = "prepare" /\ job[j].kind \in JobIds
  /\ Spawnable(j) /\ ~exe
  /\ AfterExit(j, FALSE)
  /\ UNCHANGED <<downloadQueue, processes, exe, panel, ahead>>

(* install: the start script is there or not.  download: each item has     *)
(* files, or what is left of the missing ones is removed first.            *)
Verified(j) ==
  /\ job[j].pc = "verify"
  /\ \/ job[j].kind = "download" /\ Settle(j, TRUE)
     \/ /\ job[j].kind = "install"
        /\ Unlock(job[j].dir)
        /\ Leave(j)
        /\ UNCHANGED <<downloadQueue, panel, ahead>>
  /\ UNCHANGED <<processes, exe>>

ItemsMissing(j) ==
  /\ job[j].pc = "verify" /\ job[j].kind = "download"
  /\ Goto(j, "clean")
  /\ UNCHANGED <<activeJobs, downloadQueue, processes, exe, panel, ahead>>

(* The last thing a failed download or an update does. *)
Cleaned(j) ==
  /\ job[j].pc \in {"clean", "unlink"}
  /\ IF job[j].kind = "download"
     THEN Settle(j, FALSE)
     ELSE /\ Unlock(job[j].dir)
          /\ Leave(j)
          /\ UNCHANGED <<downloadQueue, panel, ahead>>
  /\ UNCHANGED <<processes, exe>>

(* reinstall: the old files are gone; the archive is downloaded from one   *)
(* of two sources and unpacked, or not.                                    *)
Wiped(j) ==
  /\ job[j].pc = "wipe"
  /\ exe' = FALSE
  /\ Goto(j, "fetch")
  /\ UNCHANGED <<activeJobs, downloadQueue, processes, panel, ahead>>

Fetched(j) ==
  /\ job[j].pc = "fetch"
  /\ exe' = TRUE
  /\ Goto(j, "work")
  /\ UNCHANGED <<activeJobs, downloadQueue, processes, panel, ahead>>

(* The download failed; or checkUpdate and the first run of a reinstalled  *)
(* SteamCMD are over, whatever came of them.                               *)
Done(j) ==
  /\ job[j].pc \in {"fetch", "work"}
  /\ Unlock(job[j].dir)
  /\ Leave(j)
  /\ UNCHANGED <<downloadQueue, processes, exe, panel, ahead>>

(***************************************************************************)
(* The specification.                                                      *)
(***************************************************************************)
Init ==
  /\ activeJobs = {}
  /\ downloadQueue = [d \in Stagings |-> None]
  /\ processes = [id \in JobIds |-> None]
  /\ job = [j \in Jobs |-> Idle]
  /\ exe = TRUE
  /\ panel = "up"
  /\ ahead = [j \in Jobs |-> {}]

Request(j) ==
  \/ \E k \in Binary : RequestBinary(j, k)
  \/ \E d \in Stagings : RequestDownload(j, d)
  \/ RequestCheck(j) \/ RequestReinstall(j)

Step(j) ==
  \/ Start(j) \/ SpawnChild(j) \/ SpawnFails(j) \/ PrepareFails(j)
  \/ ExecFails(j) \/ CheckPrepared(j) \/ WaitTimeout(j) \/ Verified(j) \/ ItemsMissing(j)
  \/ Cleaned(j) \/ Wiped(j) \/ Fetched(j) \/ Done(j)

Next ==
  /\ panel = "up"
  /\ \/ \E j \in Jobs : Request(j) \/ Step(j)
     \/ \E id \in JobIds, ok \in BOOLEAN : ChildExit(id, ok)

Spec == Init /\ [][Next]_vars

(* File operations complete, the timer of waitForExit fires.  Nothing is   *)
(* assumed of the children.                                                *)
FairSpec == Spec /\ \A j \in Jobs : WF_vars(panel = "up" /\ Step(j))

(***************************************************************************)
(* Properties.                                                             *)
(***************************************************************************)
(* What the stage of a coroutine says of it. *)
Shape(r) ==
  /\ r.pc = "idle" <=> r = Idle
  /\ r.pc = "idle" <=> r.kind = "none"
  /\ r.kind = "download" => r.dir \in Stagings
  /\ r.kind \in Binary => r.dir = InstallDir
  /\ r.kind = "check" => r.dir = TmpDir
  /\ r.kind = "reinstall" => r.dir = ToolDir
  /\ r.pc = "queued" => r.kind = "download"
  /\ r.pc # "queued" => r.prev = None
  /\ r.pc = "prepare" => r.kind # "reinstall"
  /\ r.pc = "wait" => r.kind \in JobIds
  /\ r.pc = "verify" => r.kind \in {"install", "download"}
  /\ r.pc = "clean" => r.kind = "download"
  /\ r.pc = "unlink" => r.kind \in {"update", "download"}
  /\ r.pc \in {"wipe", "fetch"} => r.kind = "reinstall"
  /\ r.pc = "work" => r.kind \in {"check", "reinstall"}

TypeOK ==
  /\ activeJobs \subseteq Dirs
  /\ downloadQueue \in [Stagings -> Jobs \cup {None}]
  /\ processes \in [JobIds -> Dirs \cup {None}]
  /\ job \in [Jobs -> JobRecords]
  /\ \A j \in Jobs : Shape(job[j])
  /\ exe \in BOOLEAN
  /\ panel \in {"up", "down"}
  /\ ahead \in [Jobs -> SUBSET Jobs]

(* A coroutine between taking a lock and giving it back.  A download whose *)
(* child could not be spawned has given it back before it removes its      *)
(* runscript; an update gives it back after that.                          *)
Holds(j, d) ==
  /\ job[j].dir = d
  /\ job[j].pc \notin {"idle", "queued"}
  /\ ~(job[j].kind = "download" /\ job[j].pc = "unlink")

(* activeJobs keeps two coroutines out of one directory, whatever fails    *)
(* and in whatever order the `finally` blocks run, two of which unlock     *)
(* what they may not hold any more; and no lock outlives its coroutine,    *)
(* except the one of an install that cannot write its runscript.           *)
LockExclusive ==
  \A d \in Dirs :
    /\ \A j, k \in Jobs : Holds(j, d) /\ Holds(k, d) => j = k
    /\ \A j \in Jobs : Holds(j, d) => d \in activeJobs
    /\ d \in activeJobs /\ d # InstallDir => \E j \in Jobs : Holds(j, d)

(* "In theory not: the promise before has cleared the lock": a download    *)
(* whose turn it is never finds its directory locked.                      *)
TurnMeansFree ==
  \A j \in Jobs : job[j].pc = "queued" /\ job[j].prev = None
                    => job[j].dir \notin activeJobs

(* waitForExit never takes the answer of another child for its own: the    *)
(* table of children is keyed by a job id that several jobs share.         *)
WaiterHasChild ==
  \A j \in Jobs : job[j].pc = "wait"
    => /\ processes[job[j].kind] = job[j].dir
       /\ \A k \in Jobs : job[k].pc = "wait" /\ job[k].kind = job[j].kind
                            => k = j

(* The chain of promises and the Map that forgets it are the queue of      *)
(* DownloadQueue: in order, one at a time, a failure included.             *)
Queue == INSTANCE DownloadQueue WITH
           waiting <- [d \in Stagings |-> Downloads(d)],
           running <- [d \in Stagings |->
                         {j \in Downloads(d) : job[j].pc # "queued"}]
ImplementsQueue == Queue!Spec

(* Every call comes to an end, behind whatever failed or hung before it.   *)
JobsEnd == \A j \in Jobs :
             panel = "up" /\ job[j] # Idle ~> panel = "down" \/ job[j] = Idle
=============================================================================
