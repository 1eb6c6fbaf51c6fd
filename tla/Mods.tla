-------------------------------- MODULE Mods --------------------------------
(***************************************************************************)
(* The mods of a server: what the acf names (WorkshopAcfService), the      *)
(* directories under content and staging, and the File_IDs of              *)
(* WorkshopDownloadConfig.json, under GET /mods/downloaded (which also     *)
(* registers), DELETE /mods/:fileId (WorkshopDeleteService), restart and   *)
(* apply (WorkshopApplyService) and PUT /config/workshop.  No two of them  *)
(* exclude each other but two applies.  Any write may fail, and the panel  *)
(* may be killed and started again at any time.                            *)
(***************************************************************************)
CONSTANTS
  Clients, \* requests in flight at once
  Mods,    \* file ids
  Kinds,   \* the requests made; "cleanup": downloads that fail remove files
  Torn,    \* a file that was opened for writing and not completed
  None

RequestKinds == {"list", "delete", "apply", "save"}

ASSUME ConstantsAssumption ==
  /\ Kinds \subseteq RequestKinds \cup {"cleanup"}
  /\ \A s \in SUBSET Mods : s # Torn /\ s # None
  /\ None # Torn
  /\ None \notin Mods

VARIABLES
  activeOperation, \* of the instance (ServerManager)
  acf,             \* the mods appworkshop_304930.acf names; a missing file names none
  content,         \* directories under Workshop/Steam/content
  stage,           \* directories under Workshop/staging that the staging acf names
  fileIds,         \* File_IDs; None: there is no WorkshopDownloadConfig.json
  job              \* the requests

disk == <<acf, content, stage, fileIds>>
vars == <<activeOperation, disk, job>>

(* The awaits of a request: reading the acf and the directories; in addItem *)
(* and removeItem parsing and writing the acf; a deletion's backups, its    *)
(* removal of the files, its second look at the acf, the write of File_IDs  *)
(* and its rollback; an apply's removal of old files and its move.          *)
Rollback == {"rollbackAcf", "restoreAcf", "rollbackIds", "restoreIds"}
Stages == Rollback \cup
  {"idle", "read", "scan", "parse", "write", "backupIds", "items", "backupAcf",
   "remove", "reread", "writeIds", "clear", "rename", "unstage", "done", "failed"}

Files == (SUBSET Mods) \cup {None, Torn}

(* alone: no other request has run since this one began (history).         *)
(* mod: the mod in hand; acf: what was read, or is to be written.          *)
(* todo: mods to register; items, moves: mods an apply moves, and has not  *)
(* moved yet.  removed: removedFrom has "content".                         *)
Idle == [at |-> "idle", kind |-> "none", alone |-> FALSE, mod |-> None,
         acf |-> {}, todo |-> {}, items |-> {}, moves |-> {},
         savedAcf |-> None, savedIds |-> None, removed |-> FALSE]
JobRecords == [at : Stages, kind : RequestKinds \cup {"none"}, alone : BOOLEAN,
               mod : Mods \cup {None}, acf : SUBSET Mods, todo : SUBSET Mods,
               items : SUBSET Mods, moves : SUBSET Mods,
               savedAcf : Files, savedIds : Files, removed : BOOLEAN]

Init ==
  /\ activeOperation = "none"
  /\ acf = {} /\ content = {} /\ stage = {}
  /\ fileIds \in {None, {}}
  /\ job = [p \in Clients |-> Idle]

(* parse of an acf that was emptied finds no item; one that breaks off     *)
(* does not parse.  Torn may be either.                                    *)
Items == IF acf = Torn THEN {} ELSE acf
Unreadable == acf = Torn

Goto(p, s)  == job' = [job EXCEPT ![p].at = s]
Leave(p)    == job' = [job EXCEPT ![p] = Idle]

(* The end of a request that did not succeed: an apply still has to give   *)
(* activeOperation back.                                                   *)
Fail(p) == IF job[p].kind = "apply" THEN Goto(p, "failed") ELSE Leave(p)

(* The requests beside one that begins are not alone any more.             *)
Begin(p, k, s, m, ids) ==
  job' = [q \in Clients |->
            IF q = p
              THEN [Idle EXCEPT !.at = s, !.kind = k, !.mod = m, !.acf = ids,
                      !.alone = \A r \in Clients \ {p} : job[r].at = "idle"]
              ELSE [job[q] EXCEPT !.alone = FALSE]]

(* The guard of DELETE and apply.  Mutant: it is forgotten.                *)
FreeUnchecked == TRUE
Free == activeOperation = "none"

(* DELETE looks at activeOperation and takes nothing; an apply takes it.   *)
Request(p) ==
  /\ job[p].at = "idle"
  /\ \/ /\ "list" \in Kinds
        /\ Begin(p, "list", "read", None, {})
        /\ UNCHANGED activeOperation
     \/ /\ "delete" \in Kinds /\ Free
        /\ \E m \in Mods : Begin(p, "delete", "backupIds", m, {})
        /\ UNCHANGED activeOperation
     \/ /\ "apply" \in Kinds /\ Free
        /\ activeOperation' = "mod_apply"
        /\ Begin(p, "apply", "read", None, {})
     \/ /\ "save" \in Kinds
        /\ \E ids \in SUBSET Mods : Begin(p, "save", "writeIds", None, ids)
        /\ UNCHANGED activeOperation
  /\ UNCHANGED disk

(***************************************************************************)
(* addItem and removeItem: parse, change, write; no lock.                  *)
(***************************************************************************)
(* After an item: the next one; then a list ends and an apply moves files. *)
Registered(p, rest) ==
  IF rest = {} /\ job[p].kind = "list" THEN Leave(p)
  ELSE job' = [job EXCEPT ![p].todo = rest,
                          ![p].at = IF rest = {} THEN "clear" ELSE "parse"]

ParseToAdd(p) ==
  /\ job[p].at = "parse" /\ job[p].kind # "delete"
  /\ \E m \in job[p].todo :
       job' = [job EXCEPT ![p].at = "write", ![p].mod = m,
                          ![p].acf = Items \cup {m}]
  /\ UNCHANGED <<activeOperation, disk>>

ParseToRemove(p) ==
  /\ job[p].at = "parse" /\ job[p].kind = "delete"
  /\ IF job[p].mod \in Items
       THEN job' = [job EXCEPT ![p].at = "write", ![p].acf = Items \ {job[p].mod}]
       ELSE Goto(p, "remove")
  /\ UNCHANGED <<activeOperation, disk>>

Write(p) ==
  /\ job[p].at = "write"
  /\ acf' = job[p].acf
  /\ IF job[p].kind = "delete" THEN Goto(p, "remove")
     ELSE Registered(p, job[p].todo \ {job[p].mod})
  /\ UNCHANGED <<activeOperation, content, stage, fileIds>>

(* The mod an addItem that fails was called for.                           *)
InHand(p) == IF job[p].at = "write" THEN {job[p].mod} ELSE job[p].todo

(* A list goes on with the next mod, an apply does not.  Mutant: an apply  *)
(* swallows the error as well.                                             *)
AddFailsSwallowed(p) ==
  /\ \/ job[p].at = "parse" /\ Unreadable
     \/ job[p].at = "write"
  /\ job[p].kind # "delete"
  /\ \E m \in InHand(p) : Registered(p, job[p].todo \ {m})
  /\ UNCHANGED <<activeOperation, disk>>
AddFails(p) ==
  /\ \/ job[p].at = "parse" /\ Unreadable
     \/ job[p].at = "write"
  /\ \/ /\ job[p].kind = "list"
        /\ \E m \in InHand(p) : Registered(p, job[p].todo \ {m})
     \/ /\ job[p].kind = "apply"
        /\ Fail(p)
  /\ UNCHANGED <<activeOperation, disk>>

(***************************************************************************)
(* GET /mods/downloaded and applyStaged.                                   *)
(***************************************************************************)
Read(p) ==
  /\ job[p].at = "read"
  /\ job' = [job EXCEPT ![p].at = "scan", ![p].acf = Items]
  /\ UNCHANGED <<activeOperation, disk>>

(* A list registers what content has and the acf has not.  What it reads   *)
(* afterwards changes nothing.  Mutant: only mods SteamCMD has downloaded. *)
ScanDownloaded(p) ==
  /\ job[p].at = "scan" /\ job[p].kind = "list"
  /\ LET missing == (content \cap stage) \ job[p].acf IN
       IF missing = {} THEN Leave(p)
       ELSE job' = [job EXCEPT ![p].at = "parse", ![p].todo = missing]
  /\ UNCHANGED <<activeOperation, disk>>
ScanContent(p) ==
  /\ job[p].at = "scan" /\ job[p].kind = "list"
  /\ LET missing == content \ job[p].acf IN
       IF missing = {} THEN Leave(p)
       ELSE job' = [job EXCEPT ![p].at = "parse", ![p].todo = missing]
  /\ UNCHANGED <<activeOperation, disk>>

(* An apply moves what is staged, once the acf names all of it.  Mutant:   *)
(* it moves what it adds to the acf.                                       *)
ScanNew(p) ==
  /\ job[p].at = "scan" /\ job[p].kind = "apply"
  /\ LET new == stage \ job[p].acf IN
       job' = [job EXCEPT ![p].at = IF new = {} THEN "done" ELSE "parse",
                          ![p].todo = new, ![p].items = new, ![p].moves = new]
  /\ UNCHANGED <<activeOperation, disk>>
ScanStage(p) ==
  /\ job[p].at = "scan" /\ job[p].kind = "apply"
  /\ job' = [job EXCEPT
       ![p].at = IF stage = {} THEN "done"
                 ELSE IF stage \subseteq job[p].acf THEN "clear" ELSE "parse",
       ![p].todo = stage \ job[p].acf, ![p].items = stage, ![p].moves = stage]
  /\ UNCHANGED <<activeOperation, disk>>

ReadFails(p) ==
  /\ job[p].at \in {"read", "scan"}
  /\ Fail(p)
  /\ UNCHANGED <<activeOperation, disk>>

(* moveDir: the old directory is removed, the staged one takes its place.  *)
Clear(p) ==
  /\ job[p].at = "clear"
  /\ \E m \in job[p].moves :
       /\ content' = content \ {m}
       /\ job' = [job EXCEPT ![p].at = "rename", ![p].mod = m]
  /\ UNCHANGED <<activeOperation, acf, stage, fileIds>>

Moved(p) ==
  LET rest == job[p].moves \ {job[p].mod} IN
  job' = [job EXCEPT ![p].moves = rest,
                     ![p].at = IF rest = {} THEN "done" ELSE "clear"]

Rename(p) ==
  /\ job[p].at = "rename" /\ job[p].mod \in stage
  /\ content' = content \cup {job[p].mod}
  /\ stage' = stage \ {job[p].mod}
  /\ Moved(p)
  /\ UNCHANGED <<activeOperation, acf, fileIds>>

(* Across devices the directory is copied and then removed.                *)
Copy(p) ==
  /\ job[p].at = "rename" /\ job[p].mod \in stage
  /\ content' = content \cup {job[p].mod}
  /\ Goto(p, "unstage")
  /\ UNCHANGED <<activeOperation, acf, stage, fileIds>>

Unstage(p) ==
  /\ job[p].at = "unstage"
  /\ stage' = stage \ {job[p].mod}
  /\ Moved(p)
  /\ UNCHANGED <<activeOperation, acf, content, fileIds>>

(* Also when there is nothing to move any more.  Nothing is undone.        *)
MoveFails(p) ==
  /\ job[p].at \in {"clear", "rename", "unstage"}
  /\ Fail(p)
  /\ UNCHANGED <<activeOperation, disk>>

(* The server is started, or not, and the `finally` runs; a deletion that  *)
(* has ended answers.  Mutant: every request that ends clears the flag.    *)
EndClears(p) ==
  /\ job[p].at \in {"done", "failed"}
  /\ activeOperation' = "none"
  /\ Leave(p)
  /\ UNCHANGED disk
End(p) ==
  /\ job[p].at \in {"done", "failed"}
  /\ activeOperation' = IF job[p].kind = "apply" THEN "none" ELSE activeOperation
  /\ Leave(p)
  /\ UNCHANGED disk

(***************************************************************************)
(* deleteMod.                                                              *)
(***************************************************************************)
(* Any error of the backup is taken for a missing file.                    *)
BackupIds(p) ==
  /\ job[p].at = "backupIds"
  /\ \E saved \in {fileIds, None} :
       job' = [job EXCEPT ![p].at = "items", ![p].savedIds = saved]
  /\ UNCHANGED <<activeOperation, disk>>

(* Mutant: the files are removed first. *)
ListFilesFirst(p) ==
  /\ job[p].at = "items"
  /\ Goto(p, "remove")
  /\ UNCHANGED <<activeOperation, disk>>
ListItems(p) ==
  /\ job[p].at = "items"
  /\ Goto(p, IF job[p].mod \in Items THEN "backupAcf" ELSE "remove")
  /\ UNCHANGED <<activeOperation, disk>>

BackupAcf(p) ==
  /\ job[p].at = "backupAcf"
  /\ job' = [job EXCEPT ![p].at = "parse", ![p].savedAcf = acf]
  /\ UNCHANGED <<activeOperation, disk>>

(* Outside the try: nothing to roll back.                                  *)
PrepareFails(p) ==
  /\ job[p].at \in {"items", "backupAcf"}
  /\ Fail(p)
  /\ UNCHANGED <<activeOperation, disk>>

Remove(p) ==
  /\ job[p].at = "remove"
  /\ content' = content \ {job[p].mod}
  /\ job' = [job EXCEPT ![p].removed = job[p].mod \in content,
                         ![p].at = IF job[p].savedIds = None THEN "done" ELSE "reread"]
  /\ UNCHANGED <<activeOperation, acf, stage, fileIds>>

(* File_IDs become what the acf names now.  Mutant: what it named before.  *)
RereadBackup(p) ==
  /\ job[p].at = "reread"
  /\ job' = [job EXCEPT ![p].at = "writeIds",
                         ![p].acf = @ \cup {job[p].mod}]
  /\ UNCHANGED <<activeOperation, disk>>
Reread(p) ==
  /\ job[p].at = "reread"
  /\ job' = [job EXCEPT ![p].at = "writeIds", ![p].acf = Items]
  /\ UNCHANGED <<activeOperation, disk>>

WriteIds(p) ==
  /\ job[p].at = "writeIds"
  /\ fileIds' = job[p].acf
  /\ IF job[p].kind = "delete" THEN Goto(p, "done") ELSE Leave(p)
  /\ UNCHANGED <<activeOperation, acf, content, stage>>

SaveFails(p) ==
  /\ job[p].at = "writeIds" /\ job[p].kind = "save"
  /\ Leave(p)
  /\ UNCHANGED <<activeOperation, disk>>

(* A failed deletion copies back, in place, the backups it has made.       *)
NextRollback(p) == IF job[p].savedIds # None THEN "rollbackIds" ELSE "failed"
FirstRollback(p) == IF job[p].savedAcf # None THEN "rollbackAcf" ELSE NextRollback(p)

DeleteFails(p) ==
  /\ job[p].kind = "delete"
  /\ \/ job[p].at \in {"write", "writeIds"}
     \/ job[p].at \in {"parse", "reread"} /\ Unreadable
     \/ job[p].at = "remove" /\ job[p].mod \in content
  /\ Goto(p, FirstRollback(p))
  /\ UNCHANGED <<activeOperation, disk>>

RollbackAcf(p) ==
  /\ job[p].at = "rollbackAcf"
  /\ acf' = Torn
  /\ Goto(p, "restoreAcf")
  /\ UNCHANGED <<activeOperation, content, stage, fileIds>>

(* A file that was replaced since is not the one that is filled.           *)
RestoreAcf(p) ==
  /\ job[p].at = "restoreAcf"
  /\ acf' = IF acf = Torn THEN job[p].savedAcf ELSE acf
  /\ Goto(p, NextRollback(p))
  /\ UNCHANGED <<activeOperation, content, stage, fileIds>>

RollbackIds(p) ==
  /\ job[p].at = "rollbackIds"
  /\ fileIds' = Torn
  /\ Goto(p, "restoreIds")
  /\ UNCHANGED <<activeOperation, acf, content, stage>>

RestoreIds(p) ==
  /\ job[p].at = "restoreIds"
  /\ fileIds' = IF fileIds = Torn THEN job[p].savedIds ELSE fileIds
  /\ Goto(p, "failed")
  /\ UNCHANGED <<activeOperation, acf, content, stage>>

RollbackFails(p) ==
  /\ job[p].at \in Rollback
  /\ Goto(p, IF job[p].at \in {"rollbackAcf", "restoreAcf"} THEN NextRollback(p)
             ELSE "failed")
  /\ UNCHANGED <<activeOperation, disk>>

(***************************************************************************)
(* The world around.                                                       *)
(***************************************************************************)
(* SteamCMD downloads beside everything else.  A failed download removes   *)
(* the staged directory, also one that was downloaded well before.         *)
Download ==
  /\ \E m \in Mods :
       stage' \in {stage \cup {m}} \cup {stage \ {m} : k \in Kinds \cap {"cleanup"}}
  /\ UNCHANGED <<activeOperation, acf, content, fileIds, job>>

(* The user puts a mod into content by hand.                               *)
Paste ==
  /\ \E m \in Mods : content' = content \cup {m}
  /\ job' = [p \in Clients |-> [job[p] EXCEPT !.alone = FALSE]]
  /\ UNCHANGED <<activeOperation, acf, stage, fileIds>>

Crash ==
  /\ activeOperation' = "none"
  /\ job' = [p \in Clients |-> Idle]
  /\ UNCHANGED disk

Adds(p)    == ParseToAdd(p) \/ ParseToRemove(p) \/ Write(p)
Applies(p) == \/ Read(p) \/ ScanContent(p) \/ ScanStage(p) \/ Clear(p)
              \/ Rename(p) \/ Copy(p) \/ Unstage(p) \/ End(p)
Deletes(p) == \/ BackupIds(p) \/ ListItems(p) \/ BackupAcf(p) \/ Remove(p)
              \/ Reread(p) \/ WriteIds(p) \/ RollbackAcf(p) \/ RestoreAcf(p)
              \/ RollbackIds(p) \/ RestoreIds(p)
Fails(p)   == \/ AddFails(p) \/ ReadFails(p) \/ MoveFails(p) \/ PrepareFails(p)
              \/ SaveFails(p) \/ DeleteFails(p) \/ RollbackFails(p)

Step(p) == Adds(p) \/ Applies(p) \/ Deletes(p) \/ Fails(p)

Next == Download \/ Paste \/ Crash \/ \E p \in Clients : Request(p) \/ Step(p)

Spec == Init /\ [][Next]_vars

(* File operations end, one way or the other. *)
FairSpec == Spec /\ \A p \in Clients : WF_vars(Step(p))

(***************************************************************************)
(* Properties.                                                             *)
(***************************************************************************)
(* Types; while an apply is at work activeOperation says so.               *)
TypeOK ==
  /\ activeOperation \in {"none", "mod_apply"}
  /\ acf \in (SUBSET Mods) \cup {Torn}
  /\ content \in SUBSET Mods
  /\ stage \in SUBSET Mods
  /\ fileIds \in Files
  /\ job \in [Clients -> JobRecords]
  /\ \A p \in Clients : job[p].kind = "apply" => activeOperation = "mod_apply"

(* applyStaged: whatever fails, and whatever runs beside it, it does not   *)
(* destroy a mod: the last directory of a mod goes only when the mod is    *)
(* deleted, if need be while it is copied (provided no failed download     *)
(* takes the staged one away).                                             *)
OnlyDeletionLosesFiles ==
  [][\A m \in content \cup stage : m \notin content' \cup stage' =>
       \E p \in Clients : job[p].at \in {"remove", "unstage"} /\ job[p].mod = m]_vars

(* The order acf first, files after, in deletion and apply alike: a        *)
(* request nobody disturbs, whether it succeeds, fails or is killed, never *)
(* leaves the acf naming a mod without files, but by rolling back.         *)
Nameless == Items \ (content \cup stage)
NamedHasFiles ==
  [][\A p \in Clients :
       job[p].alone /\ job'[p] # job[p] /\ job[p].at # "restoreAcf"
       => Nameless' \subseteq Nameless]_vars

(* deleteMod answers success: undisturbed, the mod has left acf and        *)
(* content, and File_IDs if it could back them up.                         *)
DeletedIsGone ==
  \A p \in Clients :
    job[p].kind = "delete" /\ job[p].at = "done" /\ job[p].alone =>
      /\ job[p].mod \notin Items \cup content
      /\ job[p].savedIds # None => job[p].mod \notin fileIds

(* applyStaged ends well: undisturbed, every mod that was staged when it   *)
(* looked is installed, and the acf names it.                              *)
ApplyInstalls ==
  \A p \in Clients :
    job[p].kind = "apply" /\ job[p].at = "done" /\ job[p].alone =>
      job[p].items \subseteq Items \cap content

(* GET /mods/downloaded heals the acf: a mod put into content by hand, or  *)
(* whose name a concurrent write has lost, is named again, if the page is  *)
(* opened again and again, and files can be written and read from some     *)
(* time on.                                                                *)
Sound == \/ Download \/ Paste
         \/ \E p \in Clients : Request(p) \/ Adds(p) \/ Applies(p) \/ Deletes(p)
ListBegins == \E p \in Clients : job[p].kind # "list" /\ job'[p].kind = "list"
ContentIsNamed ==
  (<>[][Sound]_vars /\ []<><<ListBegins>>_vars) =>
    \A m \in Mods : m \in content ~> m \in Items \/ m \notin content

(* An apply that failed or was killed is made good by the next one: what is *)
(* staged is installed, named already or not, if the server is restarted   *)
(* again and again.                                                        *)
ApplyBegins == \E p \in Clients : job[p].kind # "apply" /\ job'[p].kind = "apply"
StagedIsInstalled ==
  (<>[][Sound]_vars /\ []<><<ApplyBegins>>_vars) =>
    \A m \in Mods : m \in stage ~> m \in content \/ m \notin stage
=============================================================================
