----------------------------- MODULE ConfigFiles -----------------------------
(***************************************************************************)
(* The writers of configuration files and the lock registry they share:    *)
(* ConfigService.atomicWrite, backup and rollback (for deleteMod),         *)
(* FilesService.writeFile, deleteEntry and renameEntry,                    *)
(* AtomicFileWriter.writeFile (for LdmConfigWriter), the raw upload route  *)
(* and FileLockProvider.  Any write to the disk may fail, and the panel    *)
(* may be killed and started again at any time.                            *)
(***************************************************************************)
CONSTANTS
  Writers,  \* requests in flight at once; a writer stands for what it writes
  Paths,    \* the files; a path is the key of its lock
  KindsAt,  \* KindsAt[f]: the ways f is written
  Original, \* what a file holds at the start
  Torn,     \* a file that was opened for writing and not completed
  None

(* "mods" is a deletion of a mod, which may roll this file back; the       *)
(* atomicWrite in the middle of it is a "config" request of its own.       *)
Locked   == {"config", "files", "ldm"}
Unlocked == {"upload", "delete", "mods", "move"}
Kinds    == Locked \cup Unlocked

(* The name a kind locks under.  A name belongs to a service, not to a     *)
(* request: release cannot tell two requests of a service apart.           *)
Owner(k) == IF k = "config" THEN "ConfigService"
            ELSE IF k = "files" THEN "FilesService"
            ELSE "LdmConfigWriter"

Versions == Writers \cup {Original}
Contents == Versions \cup {None, Torn}

ASSUME ConstantsAssumption ==
  /\ KindsAt \in [Paths -> SUBSET Kinds]
  /\ None \notin Versions /\ Torn \notin Versions /\ None # Torn
  /\ Original \notin Writers
  /\ \A k \in Locked : Owner(k) # None

VARIABLES
  locks,  \* FileLockProvider: the owner of each path, or None
  file,   \* the files
  temp,   \* <path>.tmp, the one name every AtomicFileWriter uses
  job     \* the writers

vars == <<locks, file, temp, job>>

(* Where a writer is: polling for the lock; making the backup; opening and *)
(* filling its temporary file; renaming it; pruning old backups; after a   *)
(* failure removing the temporary file and writing the backup back;        *)
(* deleting the file or renaming it; or, for a deletion of a mod, backing  *)
(* the file up, at work elsewhere, and copying the backup back.            *)
Inside == {"backup", "open", "fill", "rename", "prune", "unlink",
           "rollback", "restore"}
Stages == Inside \cup {"idle", "wait", "delete", "move", "keep", "kept", "copy"}

(* seen: the version whose mtime the client sent, None without one.        *)
(* saved: what the backup holds, None when there is none.                  *)
Idle == [at |-> "idle", kind |-> "none", path |-> None, seen |-> None,
         saved |-> None]
JobRecords == [at : Stages, kind : Kinds \cup {"none"}, path : Paths \cup {None},
               seen : Contents, saved : Contents]

(* Mutant: a request that ends leaves its fields behind.                   *)
Goto(p, s)    == job' = [job EXCEPT ![p].at = s]
LeaveStage(p) == Goto(p, "idle")
Leave(p)      == job' = [job EXCEPT ![p] = Idle]

(* release(path, owner).  Mutant: a release that was forgotten.            *)
ReleaseNot(p) == UNCHANGED locks
Release(p) ==
  locks' = IF job[p].kind \in Locked /\ locks[job[p].path] = Owner(job[p].kind)
             THEN [locks EXCEPT ![job[p].path] = None]
             ELSE locks

(* The `finally` of a writer. *)
End(p) == Release(p) /\ Leave(p)

Init ==
  /\ locks = [f \in Paths |-> None]
  /\ file \in [Paths -> {Original, None}]
  /\ temp = [f \in Paths |-> None]
  /\ job = [p \in Writers |-> Idle]

(* A request reaches its first await.  A client of ConfigService may send  *)
(* the mtime it has read: another one than the file has now is refused at  *)
(* once, with config_conflict.  The other kinds have read by now what they *)
(* build their content from.                                               *)
FirstStage(k) == IF k \in Locked THEN "wait"
                 ELSE IF k = "upload" THEN "open"
                 ELSE IF k = "mods" THEN "keep"
                 ELSE k

Request(p) ==
  /\ job[p].at = "idle"
  /\ \E f \in Paths : \E k \in KindsAt[f] :
       \E seen \in IF k = "config" THEN {None, file[f]} ELSE {None} :
         job' = [job EXCEPT ![p] = [at |-> FirstStage(k), kind |-> k, path |-> f,
                                    seen |-> seen, saved |-> None]]
  /\ UNCHANGED <<locks, file, temp>>

(* FilesService.deleteEntry takes no lock, nor does the removal of a whole *)
(* instance.                                                               *)
Delete(p) ==
  /\ job[p].at = "delete"
  /\ file' \in {file, [file EXCEPT ![job[p].path] = None]}
  /\ Leave(p)
  /\ UNCHANGED <<locks, temp>>

(* FilesService.renameEntry takes no lock either.  The file is moved away, *)
(* or another one is moved here, half a file if that is what it was.       *)
Move(p) ==
  /\ job[p].at = "move"
  /\ \/ UNCHANGED file
     \/ \E content \in {None, p, Torn} : file' = [file EXCEPT ![job[p].path] = content]
  /\ Leave(p)
  /\ UNCHANGED <<locks, temp>>

(* acquire: the registry is polled every 50 ms. *)
Acquire(p) ==
  /\ job[p].at = "wait"
  /\ locks[job[p].path] = None
  /\ locks' = [locks EXCEPT ![job[p].path] = Owner(job[p].kind)]
  /\ Goto(p, IF job[p].kind = "files" THEN "open" ELSE "backup")
  /\ UNCHANGED <<file, temp>>

(* acquire gives up after ten seconds.  It is called outside the try, so   *)
(* a writer that never had the lock does not run the `finally`.            *)
(* Mutants: it waits for ever; the call moves into the try; the writer     *)
(* takes the lock over.                                                    *)
NeverGiveUp(p)   == FALSE /\ UNCHANGED vars
GiveUpInTry(p) ==
  /\ job[p].at = "wait"
  /\ locks[job[p].path] # None
  /\ End(p)
  /\ UNCHANGED <<file, temp>>
GiveUpAndWrite(p) ==
  /\ job[p].at = "wait"
  /\ locks[job[p].path] # None
  /\ locks' = [locks EXCEPT ![job[p].path] = Owner(job[p].kind)]
  /\ Goto(p, IF job[p].kind = "files" THEN "open" ELSE "backup")
  /\ UNCHANGED <<file, temp>>
AcquireTimeout(p) ==
  /\ job[p].at = "wait"
  /\ locks[job[p].path] # None
  /\ Leave(p)
  /\ UNCHANGED <<locks, file, temp>>

(* A copy of the file, if there is one, under a name of this moment.       *)
Backup(p) ==
  /\ job[p].at = "backup"
  /\ job' = [job EXCEPT ![p].at = "open", ![p].saved = file[job[p].path]]
  /\ UNCHANGED <<locks, file, temp>>

(* AtomicFileWriter always uses <path>.tmp.  ConfigService, FilesService   *)
(* and the upload name the temporary file by the millisecond and leave it  *)
(* behind when they fail: it is the writer's own here, though two uploads  *)
(* of one millisecond, which no lock keeps apart, would share it.          *)
Temp(p, content) == temp' = IF job[p].kind = "ldm"
                              THEN [temp EXCEPT ![job[p].path] = content]
                              ELSE temp

(* Mutant: the write is not awaited. *)
OpenTempUnawaited(p) ==
  /\ job[p].at = "open"
  /\ Temp(p, Torn)
  /\ Goto(p, "rename")
  /\ UNCHANGED <<locks, file>>
OpenTemp(p) ==
  /\ job[p].at = "open"
  /\ Temp(p, Torn)
  /\ Goto(p, "fill")
  /\ UNCHANGED <<locks, file>>

FillTemp(p) ==
  /\ job[p].at = "fill"
  /\ Temp(p, p)
  /\ Goto(p, "rename")
  /\ UNCHANGED <<locks, file>>

(* The rename puts the temporary file in the place of the old one.         *)
Written(p) == IF job[p].kind = "ldm" THEN temp[job[p].path] ELSE p

Rename(p) ==
  /\ job[p].at = "rename"
  /\ Written(p) # None
  /\ file' = [file EXCEPT ![job[p].path] = Written(p)]
  /\ Temp(p, None)
  /\ IF job[p].kind = "ldm" THEN Goto(p, "prune") /\ UNCHANGED locks ELSE End(p)

(* cleanupOldBackups ignores its errors. *)
Prune(p) ==
  /\ job[p].at = "prune"
  /\ End(p)
  /\ UNCHANGED <<file, temp>>

(***************************************************************************)
(* Failures.  ConfigService, FilesService and the upload route only give   *)
(* the lock back.                                                          *)
(***************************************************************************)
WriteFails(p) ==
  /\ job[p].kind # "ldm"
  /\ job[p].at \in {"backup", "open", "fill", "rename"}
  /\ End(p)
  /\ UNCHANGED <<file, temp>>

(* AtomicFileWriter: when the backup cannot be written it is missing or    *)
(* cut short, and it is rolled back to all the same.                       *)
BackupFails(p) ==
  /\ job[p].kind = "ldm"
  /\ job[p].at = "backup"
  /\ file[job[p].path] # None
  /\ \E saved \in {None, Torn} :
       job' = [job EXCEPT ![p].at = "rollback", ![p].saved = saved]
  /\ UNCHANGED <<locks, file, temp>>

TempFails(p) ==
  /\ job[p].kind = "ldm"
  /\ job[p].at \in {"open", "fill", "rename"}
  /\ Goto(p, "unlink")
  /\ UNCHANGED <<locks, file, temp>>

(* safeUnlink ignores its errors. *)
UnlinkTemp(p) ==
  /\ job[p].at = "unlink"
  /\ temp' \in {temp, [temp EXCEPT ![job[p].path] = None]}
  /\ Goto(p, "rollback")
  /\ UNCHANGED <<locks, file>>

(* Nothing to roll back: no backup, no file, or the backup cannot be read. *)
RollbackSkipped(p) ==
  /\ job[p].at = "rollback"
  /\ End(p)
  /\ UNCHANGED <<file, temp>>

(* The rollback writes in place: the file is opened, that is emptied, and  *)
(* filled from the backup; either may fail.  A file that was deleted or    *)
(* replaced meanwhile is no longer the one that was opened.                *)
Rollback(p) ==
  /\ job[p].at = "rollback"
  /\ job[p].saved # None /\ file[job[p].path] # None
  /\ file' = [file EXCEPT ![job[p].path] = Torn]
  /\ Goto(p, "restore")
  /\ UNCHANGED <<locks, temp>>

Restore(p) ==
  /\ job[p].at = "restore"
  /\ file' \in {file, [file EXCEPT ![job[p].path] =
                         IF @ = Torn THEN job[p].saved ELSE @]}
  /\ End(p)
  /\ UNCHANGED temp

(***************************************************************************)
(* A deletion of a mod.  ConfigService.backup and rollback are copies made *)
(* without the lock.                                                       *)
(***************************************************************************)
(* Without a backup, of a file that is missing or by an error, deleteMod   *)
(* goes on and rolls nothing back.                                         *)
Keep(p) ==
  /\ job[p].at = "keep"
  /\ \/ /\ file[job[p].path] # None
        /\ job' = [job EXCEPT ![p].at = "kept", ![p].saved = file[job[p].path]]
     \/ Leave(p)
  /\ UNCHANGED <<locks, file, temp>>

(* The deletion succeeds, or its rollback finds no backup to copy. *)
DeletionEnds(p) ==
  /\ job[p].at = "kept"
  /\ Leave(p)
  /\ UNCHANGED <<locks, file, temp>>

(* It fails: copyFile opens the file, that is creates or empties it, and   *)
(* fills it.  When the copy fails, node tries to remove what is there.     *)
CopyBack(p) ==
  /\ job[p].at = "kept"
  /\ file' = [file EXCEPT ![job[p].path] = Torn]
  /\ Goto(p, "copy")
  /\ UNCHANGED <<locks, temp>>

CopyEnds(p) ==
  /\ job[p].at = "copy"
  /\ file' \in {file, [file EXCEPT ![job[p].path] = None],
                [file EXCEPT ![job[p].path] = IF @ = Torn THEN job[p].saved ELSE @]}
  /\ Leave(p)
  /\ UNCHANGED <<locks, temp>>

(* The panel is killed: files stay as they are, the registry and the       *)
(* requests are gone.                                                      *)
Crash ==
  /\ locks' = [f \in Paths |-> None]
  /\ job' = [p \in Writers |-> Idle]
  /\ UNCHANGED <<file, temp>>

Step(p) ==
  \/ Delete(p) \/ Move(p) \/ Acquire(p) \/ AcquireTimeout(p)
  \/ Backup(p) \/ OpenTemp(p) \/ FillTemp(p) \/ Rename(p) \/ Prune(p)
  \/ WriteFails(p) \/ BackupFails(p) \/ TempFails(p)
  \/ UnlinkTemp(p) \/ RollbackSkipped(p) \/ Rollback(p) \/ Restore(p)
  \/ Keep(p) \/ DeletionEnds(p) \/ CopyBack(p) \/ CopyEnds(p)

Next == Crash \/ \E p \in Writers : Request(p) \/ Step(p)

Spec == Init /\ [][Next]_vars

(* Timers fire and file operations end, one way or the other. *)
Fairness == \A p \in Writers : WF_vars(Step(p))
FairSpec == Spec /\ Fairness

(***************************************************************************)
(* Properties.                                                             *)
(***************************************************************************)
(* Types; a writer at work knows its file and writes it in a way the file  *)
(* is written in.                                                          *)
TypeOK ==
  /\ locks \in [Paths -> {Owner(k) : k \in Locked} \cup {None}]
  /\ file \in [Paths -> Contents]
  /\ temp \in [Paths -> Writers \cup {None, Torn}]
  /\ job \in [Writers -> JobRecords]
  /\ \A p \in Writers : IF job[p].at = "idle" THEN job[p] = Idle
       ELSE job[p].path \in Paths /\ job[p].kind \in KindsAt[job[p].path]

IsInside(p) == job[p].kind \in Locked /\ job[p].at \in Inside

(* FileLockProvider: two writers that take the lock of a file are never    *)
(* both between acquire and release, timeouts, failures and restarts       *)
(* included, although release knows the service only, not the request.     *)
WritersExclude ==
  \A p, q \in Writers :
    IsInside(p) /\ IsInside(q) /\ job[p].path = job[q].path => p = q

(* No lock outlives its writer: a file whose lock is taken has a writer at *)
(* work that will release it, and it was taken in that writer's name.      *)
LocksAreHeld ==
  \A f \in Paths : locks[f] # None =>
    \E p \in Writers : IsInside(p) /\ job[p].path = f /\ locks[f] = Owner(job[p].kind)

(* Atomic write: a file becomes incomplete only by one of the two          *)
(* rollbacks, both in place (AtomicFileWriter's after a write that failed, *)
(* ConfigService's after a deletion of a mod that failed), or because the  *)
(* user moves half a file here.  No failure, no kill and no write beside   *)
(* another, though all AtomicFileWriters share one temporary name, makes   *)
(* the rename of a write put half a file there.                            *)
TornOnlyByRollback ==
  [][\A f \in Paths : file'[f] = Torn /\ file[f] # Torn =>
       \E p \in Writers :
         job[p].at \in {"rollback", "kept", "move"} /\ job[p].path = f]_vars

(* Backup: when ConfigService or AtomicFileWriter replaces a file, what it *)
(* replaces is what its backup holds: nobody else's write gets lost        *)
(* between the two.  The upload, the rollback of a deleted mod and the     *)
(* renaming of a file take no lock, so where they write this is not        *)
(* promised; a deletion leaves nothing to lose.                            *)
ReplacedIsBackedUp ==
  [][\A p \in Writers :
       /\ job[p].kind \in {"config", "ldm"} /\ job[p].at = "rename"
       /\ KindsAt[job[p].path] \cap {"upload", "mods", "move"} = {}
       /\ file'[job[p].path] # file[job[p].path]
       /\ file[job[p].path] # None
       => job[p].saved = file[job[p].path]]_vars

(* Every request ends: polling has no order, so only the timeout keeps one *)
(* that others always overtake from waiting for ever.                      *)
WritersEnd == \A p \in Writers : job[p].at # "idle" ~> job[p].at = "idle"
=============================================================================
