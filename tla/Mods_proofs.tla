----------------------------- MODULE Mods_proofs -----------------------------
(***************************************************************************)
(* Proofs about Mods, for any number of requests and mods and any order of *)
(* failures and restarts.                                                  *)
(***************************************************************************)
EXTENDS Mods, TLAPS

(* The stages a kind of request goes through.                              *)
MayBeAt(k, s) ==
  \/ k = "none" /\ s = "idle"
  \/ k = "list" /\ s \in {"read", "scan", "parse", "write"}
  \/ k = "apply" /\ s \in {"read", "scan", "parse", "write", "clear", "rename",
                           "unstage", "done", "failed"}
  \/ k = "delete" /\ s \in Rollback \cup {"backupIds", "items", "backupAcf", "parse",
                           "write", "remove", "reread", "writeIds", "done", "failed"}
  \/ k = "save" /\ s = "writeIds"

(* What the stage of a request says of its own fields.                     *)
JobShape(j) ==
  /\ MayBeAt(j.kind, j.at)
  /\ j.kind = "none" => j = Idle
  /\ j.kind = "delete" => j.mod # None
  /\ j.at \in {"rename", "unstage"} => j.mod \in j.moves
  /\ j.at = "write" /\ j.kind # "delete" => j.mod \in j.todo
  /\ j.moves \subseteq j.items
  /\ j.kind # "apply" \/ j.at \in {"read", "scan"} => j.items = {}
  /\ j.at = "done" => j.moves = {}
  /\ j.at \in {"rollbackAcf", "restoreAcf"} => j.savedAcf # None
Shape == \A p \in Clients : JobShape(job[p])

OneApply == \A p, q \in Clients : job[p].kind = "apply" /\ job[q].kind = "apply" => p = q

LEMMA IdleShape == Idle \in JobRecords /\ JobShape(Idle)
<1>1. Idle \in JobRecords
  <2>1. "idle" \in Stages /\ None \in Files /\ {} \in SUBSET Mods
    BY DEF Stages, Files
  <2>2. "none" \in RequestKinds \cup {"none"} /\ None \in Mods \cup {None}
    OBVIOUS
  <2> QED BY <2>1, <2>2 DEF Idle, JobRecords
<1>2. JobShape(Idle)
  BY DEF JobShape, MayBeAt, Idle
<1> QED BY <1>1, <1>2

LEMMA ItemsType == TypeOK => Items \subseteq Mods
  BY DEF TypeOK, Items

(* Nothing but the record of p changes, in these fields.                   *)
Update(p, s, m, a, t, i, v) ==
  /\ \A q \in Clients \ {p} : job'[q] = job[q]
  /\ job' \in [Clients -> JobRecords]
  /\ job'[p].at = s /\ job'[p].mod = m /\ job'[p].acf = a /\ job'[p].todo = t
  /\ job'[p].items = i /\ job'[p].moves = v
  /\ job'[p].kind = job[p].kind /\ job'[p].alone = job[p].alone
  /\ job'[p].savedAcf = job[p].savedAcf
  /\ job'[p].at # "items" => job'[p].savedIds = job[p].savedIds

Ends(p) ==
  /\ \A q \in Clients \ {p} : job'[q] = job[q]
  /\ job' \in [Clients -> JobRecords]
  /\ job'[p] = Idle

LEMMA GotoEffect ==
  ASSUME TypeOK, NEW p \in Clients, NEW s \in Stages, Goto(p, s)
  PROVE  Update(p, s, job[p].mod, job[p].acf, job[p].todo, job[p].items, job[p].moves)
BY DEF Goto, Update, TypeOK, JobRecords

LEMMA LeaveEffect ==
  ASSUME TypeOK, NEW p \in Clients, Leave(p)
  PROVE  Ends(p)
BY IdleShape DEF Leave, Ends, TypeOK

LEMMA ParseToAddEffect ==
  ASSUME TypeOK, NEW p \in Clients, ParseToAdd(p)
  PROVE  \E m \in job[p].todo :
           Update(p, "write", m, Items \cup {m}, job[p].todo, job[p].items, job[p].moves)
<1>1. PICK m \in job[p].todo :
        job' = [job EXCEPT ![p].at = "write", ![p].mod = m, ![p].acf = Items \cup {m}]
  BY DEF ParseToAdd
<1>2. job[p].todo \in SUBSET Mods
  BY DEF TypeOK, JobRecords
<1> DEFINE ids == Items \cup {m}
<1>3. m \in Mods /\ ids \in SUBSET Mods /\ "write" \in Stages
  BY <1>2, ItemsType DEF Stages
<1>4. job' = [job EXCEPT ![p].at = "write", ![p].mod = m, ![p].acf = ids]
  BY <1>1
<1> HIDE DEF ids
<1>5. job[p] \in JobRecords /\ job \in [Clients -> JobRecords]
  BY DEF TypeOK
<1>6. job' = [job EXCEPT ![p] = job'[p]]
  BY <1>4, <1>5
<1>7. /\ job'[p].at = "write" /\ job'[p].mod = m /\ job'[p].acf = ids
      /\ job'[p] \in JobRecords
      /\ \A f \in {"kind", "alone", "todo", "items", "moves", "savedAcf", "savedIds"} :
           job'[p][f] = job[p][f]
  BY <1>3, <1>4, <1>5 DEF JobRecords
<1>8. Update(p, "write", m, ids, job[p].todo, job[p].items, job[p].moves)
  BY <1>5, <1>6, <1>7 DEF Update
<1> QED BY <1>8 DEF ids

LEMMA ReadEffect ==
  ASSUME TypeOK, NEW p \in Clients, Read(p)
  PROVE  Update(p, "scan", job[p].mod, Items, job[p].todo, job[p].items, job[p].moves)
<1>1. Items \in SUBSET Mods /\ "scan" \in Stages
  BY ItemsType DEF Stages
<1> QED BY <1>1 DEF Read, Update, TypeOK, JobRecords

LEMMA RegisteredEffect ==
  ASSUME TypeOK, NEW p \in Clients, NEW rest \in SUBSET Mods, Registered(p, rest)
  PROVE  \/ job[p].kind = "list" /\ Ends(p)
         \/ Update(p, "parse", job[p].mod, job[p].acf, rest, job[p].items, job[p].moves)
         \/ /\ rest = {} /\ job[p].kind # "list"
            /\ Update(p, "clear", job[p].mod, job[p].acf, rest, job[p].items, job[p].moves)
<1>1. CASE rest = {} /\ job[p].kind = "list"
  BY <1>1, LeaveEffect DEF Registered
<1>2. ASSUME NEW s \in {"parse", "clear"},
             job' = [job EXCEPT ![p].todo = rest, ![p].at = s]
      PROVE  Update(p, s, job[p].mod, job[p].acf, rest, job[p].items, job[p].moves)
  <2>1. s \in Stages
    BY DEF Stages
  <2> QED BY <1>2, <2>1 DEF Update, TypeOK, JobRecords
<1>3. CASE rest = {} /\ job[p].kind # "list"
  BY <1>3, <1>2 DEF Registered
<1>4. CASE rest # {}
  BY <1>4, <1>2 DEF Registered
<1> QED BY <1>1, <1>3, <1>4

LEMMA ScanContentEffect ==
  ASSUME TypeOK, NEW p \in Clients, ScanContent(p)
  PROVE  \/ Ends(p)
         \/ Update(p, "parse", job[p].mod, job[p].acf, content \ job[p].acf,
                   job[p].items, job[p].moves)
<1>1. CASE content \ job[p].acf = {}
  BY <1>1, LeaveEffect DEF ScanContent
<1>2. CASE content \ job[p].acf # {}
  <2>1. content \ job[p].acf \in SUBSET Mods /\ "parse" \in Stages
    BY DEF TypeOK, Stages
  <2> QED BY <1>2, <2>1 DEF ScanContent, Update, TypeOK, JobRecords
<1> QED BY <1>1, <1>2

LEMMA ScanStageEffect ==
  ASSUME TypeOK, NEW p \in Clients, ScanStage(p)
  PROVE  \E s \in {"done", "clear", "parse"} :
           /\ Update(p, s, job[p].mod, job[p].acf, stage \ job[p].acf, stage, stage)
           /\ s = "done" => stage = {}
           /\ s = "clear" => stage \subseteq job[p].acf
<1> DEFINE s == IF stage = {} THEN "done"
                ELSE IF stage \subseteq job[p].acf THEN "clear" ELSE "parse"
           new == stage \ job[p].acf
<1>1. stage \in SUBSET Mods /\ new \in SUBSET Mods /\ s \in Stages
  BY DEF TypeOK, Stages
<1>2. job' = [job EXCEPT ![p].at = s, ![p].todo = new,
                         ![p].items = stage, ![p].moves = stage]
  BY DEF ScanStage
<1> HIDE DEF s, new
<1>3. job[p] \in JobRecords /\ job \in [Clients -> JobRecords]
  BY DEF TypeOK
<1>4. job' = [job EXCEPT ![p] = job'[p]]
  BY <1>2, <1>3
<1>5. /\ job'[p].at = s /\ job'[p].todo = new /\ job'[p].items = stage
      /\ job'[p].moves = stage /\ job'[p] \in JobRecords
      /\ \A f \in {"kind", "alone", "mod", "acf", "savedAcf", "savedIds"} :
           job'[p][f] = job[p][f]
  BY <1>1, <1>2, <1>3 DEF JobRecords
<1>6. Update(p, s, job[p].mod, job[p].acf, new, stage, stage)
  BY <1>3, <1>4, <1>5 DEF Update
<1> QED BY <1>6 DEF s, new

LEMMA ClearEffect ==
  ASSUME TypeOK, NEW p \in Clients, Clear(p)
  PROVE  \E m \in job[p].moves :
           /\ content' = content \ {m}
           /\ Update(p, "rename", m, job[p].acf, job[p].todo, job[p].items, job[p].moves)
<1>1. PICK m \in job[p].moves :
        /\ content' = content \ {m}
        /\ job' = [job EXCEPT ![p].at = "rename", ![p].mod = m]
  BY DEF Clear
<1>2. m \in Mods /\ "rename" \in Stages
  BY DEF TypeOK, JobRecords, Stages
<1> QED BY <1>1, <1>2 DEF Update, TypeOK, JobRecords

LEMMA MovedEffect ==
  ASSUME TypeOK, NEW p \in Clients, Moved(p)
  PROVE  \E s \in {"done", "clear"} :
           /\ Update(p, s, job[p].mod, job[p].acf, job[p].todo, job[p].items,
                     job[p].moves \ {job[p].mod})
           /\ s = "done" => job[p].moves \ {job[p].mod} = {}
<1> DEFINE rest == job[p].moves \ {job[p].mod}
           s == IF rest = {} THEN "done" ELSE "clear"
<1>1. rest \in SUBSET Mods /\ s \in Stages
  BY DEF TypeOK, JobRecords, Stages
<1>2. job' = [job EXCEPT ![p].moves = rest, ![p].at = s]
  BY DEF Moved
<1> HIDE DEF rest, s
<1>3. Update(p, s, job[p].mod, job[p].acf, job[p].todo, job[p].items, rest)
  BY <1>1, <1>2 DEF Update, TypeOK, JobRecords
<1> QED BY <1>3 DEF rest, s

LEMMA BackupIdsEffect ==
  ASSUME TypeOK, NEW p \in Clients, BackupIds(p)
  PROVE  Update(p, "items", job[p].mod, job[p].acf, job[p].todo, job[p].items, job[p].moves)
<1>1. PICK saved \in {fileIds, None} :
        job' = [job EXCEPT ![p].at = "items", ![p].savedIds = saved]
  BY DEF BackupIds
<1>2. saved \in Files /\ "items" \in Stages
  BY DEF TypeOK, Files, Stages
<1> QED BY <1>1, <1>2 DEF Update, TypeOK, JobRecords

LEMMA RemoveEffect ==
  ASSUME TypeOK, NEW p \in Clients, Remove(p)
  PROVE  /\ content' = content \ {job[p].mod}
         /\ \E s \in {"done", "reread"} :
              /\ Update(p, s, job[p].mod, job[p].acf, job[p].todo, job[p].items, job[p].moves)
              /\ s = "done" <=> job[p].savedIds = None
<1> DEFINE s == IF job[p].savedIds = None THEN "done" ELSE "reread"
           had == job[p].mod \in content
<1>1. s \in Stages /\ had \in BOOLEAN
  BY DEF Stages
<1>2. job' = [job EXCEPT ![p].removed = had, ![p].at = s]
  BY DEF Remove
<1> HIDE DEF s, had
<1>3. Update(p, s, job[p].mod, job[p].acf, job[p].todo, job[p].items, job[p].moves)
  BY <1>1, <1>2 DEF Update, TypeOK, JobRecords
<1> QED BY <1>3 DEF s, Remove

LEMMA ParseToRemoveEffect ==
  ASSUME TypeOK, NEW p \in Clients, ParseToRemove(p)
  PROVE  \/ Update(p, "write", job[p].mod, Items \ {job[p].mod}, job[p].todo,
                   job[p].items, job[p].moves)
         \/ /\ job[p].mod \notin Items
            /\ Update(p, "remove", job[p].mod, job[p].acf, job[p].todo,
                      job[p].items, job[p].moves)
<1> DEFINE ids == Items \ {job[p].mod}
<1>1. ids \in SUBSET Mods /\ "write" \in Stages /\ "remove" \in Stages
  BY ItemsType DEF Stages
<1>2. CASE job[p].mod \in Items
  <2>1. job' = [job EXCEPT ![p].at = "write", ![p].acf = ids]
    BY <1>2 DEF ParseToRemove
  <2> HIDE DEF ids
  <2>2. Update(p, "write", job[p].mod, ids, job[p].todo, job[p].items, job[p].moves)
    BY <1>1, <2>1 DEF Update, TypeOK, JobRecords
  <2> QED BY <2>2 DEF ids
<1>3. CASE job[p].mod \notin Items
  BY <1>1, <1>3, GotoEffect DEF ParseToRemove
<1> QED BY <1>2, <1>3

(* A step of a request changes no other request, and leaves it idle or with *)
(* a record of the shape of its kind.                                       *)
Local(p) ==
  /\ \A q \in Clients \ {p} : job'[q] = job[q]
  /\ job' \in [Clients -> JobRecords]
  /\ JobShape(job'[p])
  /\ \/ job'[p] = Idle
     \/ job'[p].kind = job[p].kind /\ job'[p].alone = job[p].alone

LEMMA StepIsLocal ==
  ASSUME TypeOK, Shape, NEW p \in Clients, Step(p)
  PROVE  Local(p)
<1>0. JobShape(job[p]) /\ job[p] \in JobRecords /\ job \in [Clients -> JobRecords]
  BY DEF Shape, TypeOK
<1>1. ASSUME Ends(p) PROVE Local(p)
  BY <1>1, IdleShape DEF Ends, Local
<1>2. ASSUME Leave(p) PROVE Local(p)
  BY <1>1, <1>2, LeaveEffect
<1>3. ASSUME NEW s \in Stages, Goto(p, s), JobShape([job[p] EXCEPT !.at = s])
      PROVE  Local(p)
  BY <1>0, <1>3 DEF Goto, Local, JobRecords
<1>4. ASSUME Copy(p) PROVE Local(p)
  BY <1>0, <1>2, <1>3, <1>4 DEF Copy, JobShape, MayBeAt, Stages, Rollback
<1>5. ASSUME End(p) PROVE Local(p)
  BY <1>0, <1>2, <1>3, <1>5 DEF End, JobShape, MayBeAt, Stages, Rollback
<1>6. ASSUME ListItems(p) PROVE Local(p)
  BY <1>0, <1>2, <1>3, <1>6 DEF ListItems, JobShape, MayBeAt, Stages, Rollback
<1>7. ASSUME Reread(p) PROVE Local(p)
  BY <1>0, <1>2, <1>3, <1>7, ItemsType DEF Reread, JobShape, MayBeAt, Stages, Rollback, Local, TypeOK, JobRecords, Files
<1>8. ASSUME BackupAcf(p) PROVE Local(p)
  BY <1>0, <1>2, <1>3, <1>8, ItemsType DEF BackupAcf, JobShape, MayBeAt, Stages, Rollback, Local, TypeOK, JobRecords, Files
<1>9. ASSUME RollbackAcf(p) PROVE Local(p)
  BY <1>0, <1>2, <1>3, <1>9 DEF RollbackAcf, JobShape, MayBeAt, Stages, Rollback
<1>10. ASSUME RestoreAcf(p) PROVE Local(p)
  BY <1>0, <1>2, <1>3, <1>10 DEF RestoreAcf, JobShape, MayBeAt, Stages, Rollback, NextRollback
<1>11. ASSUME RollbackIds(p) PROVE Local(p)
  BY <1>0, <1>2, <1>3, <1>11 DEF RollbackIds, JobShape, MayBeAt, Stages, Rollback
<1>12. ASSUME RestoreIds(p) PROVE Local(p)
  BY <1>0, <1>2, <1>3, <1>12 DEF RestoreIds, JobShape, MayBeAt, Stages, Rollback
<1>13. ASSUME ReadFails(p) PROVE Local(p)
  BY <1>0, <1>2, <1>3, <1>13 DEF ReadFails, JobShape, MayBeAt, Stages, Rollback, Fail
<1>14. ASSUME MoveFails(p) PROVE Local(p)
  BY <1>0, <1>2, <1>3, <1>14 DEF MoveFails, JobShape, MayBeAt, Stages, Rollback, Fail
<1>15. ASSUME PrepareFails(p) PROVE Local(p)
  BY <1>0, <1>2, <1>3, <1>15 DEF PrepareFails, JobShape, MayBeAt, Stages, Rollback, Fail
<1>16. ASSUME SaveFails(p) PROVE Local(p)
  BY <1>0, <1>2, <1>3, <1>16 DEF SaveFails, JobShape, MayBeAt, Stages, Rollback, Fail
<1>17. ASSUME DeleteFails(p) PROVE Local(p)
  BY <1>0, <1>2, <1>3, <1>17 DEF DeleteFails, JobShape, MayBeAt, Stages, Rollback, NextRollback, FirstRollback
<1>18. ASSUME RollbackFails(p) PROVE Local(p)
  BY <1>0, <1>2, <1>3, <1>18 DEF RollbackFails, JobShape, MayBeAt, Stages, Rollback, NextRollback
<1>19. ASSUME ParseToAdd(p) PROVE Local(p)
  BY <1>0, <1>1, <1>19, ParseToAddEffect DEF ParseToAdd, Update, Local, JobShape, MayBeAt, Rollback
<1>20. ASSUME ParseToRemove(p) PROVE Local(p)
  BY <1>0, <1>1, <1>20, ParseToRemoveEffect DEF ParseToRemove, Update, Local, JobShape, MayBeAt, Rollback
<1>21. ASSUME Read(p) PROVE Local(p)
  BY <1>0, <1>1, <1>21, ReadEffect DEF Read, Update, Local, JobShape, MayBeAt, Rollback
<1>22. ASSUME ScanContent(p) PROVE Local(p)
  BY <1>0, <1>1, <1>22, ScanContentEffect DEF ScanContent, Update, Local, JobShape, MayBeAt, Rollback
<1>23. ASSUME Rename(p) PROVE Local(p)
  BY <1>0, <1>1, <1>23, MovedEffect DEF Rename, Update, Local, JobShape, MayBeAt, Rollback
<1>24. ASSUME Unstage(p) PROVE Local(p)
  BY <1>0, <1>1, <1>24, MovedEffect DEF Unstage, Update, Local, JobShape, MayBeAt, Rollback
<1>25. ASSUME Remove(p) PROVE Local(p)
  BY <1>0, <1>1, <1>25, RemoveEffect DEF Remove, Update, Local, JobShape, MayBeAt, Rollback
<1>26. ASSUME BackupIds(p) PROVE Local(p)
  BY <1>0, <1>1, <1>26, BackupIdsEffect DEF BackupIds, Update, Local, JobShape, MayBeAt, Rollback
<1>27. ASSUME Clear(p) PROVE Local(p)
  <2>1. PICK m \in job[p].moves :
          Update(p, "rename", m, job[p].acf, job[p].todo, job[p].items, job[p].moves)
    BY <1>27, ClearEffect
  <2> QED BY <1>0, <1>27, <2>1 DEF Clear, Update, Local, JobShape, MayBeAt, Rollback
<1>28. ASSUME ScanStage(p) PROVE Local(p)
  <2>1. PICK s \in {"done", "clear", "parse"} :
          /\ Update(p, s, job[p].mod, job[p].acf, stage \ job[p].acf, stage, stage)
          /\ s = "done" => stage = {}
    BY <1>28, ScanStageEffect
  <2> QED BY <1>0, <1>28, <2>1 DEF ScanStage, Update, Local, JobShape, MayBeAt, Rollback
<1>29. ASSUME NEW rest \in SUBSET Mods, Registered(p, rest),
             job[p].at \in {"parse", "write"}, job[p].kind # "delete"
      PROVE  Local(p)
  BY <1>0, <1>1, <1>29, RegisteredEffect DEF Update, Local, JobShape, MayBeAt, Rollback
<1>30. ASSUME Write(p) PROVE Local(p)
  <2>1. CASE job[p].kind = "delete"
    BY <1>0, <1>3, <1>30, <2>1 DEF Write, JobShape, MayBeAt, Stages, Rollback
  <2>2. CASE job[p].kind # "delete"
    <3>1. job[p].todo \ {job[p].mod} \in SUBSET Mods
      BY <1>0 DEF JobRecords
    <3> QED BY <1>29, <1>30, <2>2, <3>1 DEF Write
  <2> QED BY <2>1, <2>2
<1>31. ASSUME AddFails(p) PROVE Local(p)
  <2>1. CASE job[p].kind = "list"
    <3>1. PICK m \in InHand(p) : Registered(p, job[p].todo \ {m})
      BY <1>31, <2>1 DEF AddFails
    <3>2. job[p].todo \ {m} \in SUBSET Mods
      BY <1>0 DEF JobRecords
    <3> QED BY <1>29, <1>31, <2>1, <3>1, <3>2 DEF AddFails
  <2>2. CASE job[p].kind = "apply"
    BY <1>0, <1>3, <1>31, <2>2 DEF AddFails, Fail, JobShape, MayBeAt, Stages, Rollback
  <2> QED BY <1>31, <2>1, <2>2 DEF AddFails
<1>32. ASSUME WriteIds(p) PROVE Local(p)
  BY <1>0, <1>2, <1>3, <1>32 DEF WriteIds, JobShape, MayBeAt, Stages, Rollback
<1> QED
  BY <1>4, <1>5, <1>6, <1>7, <1>8, <1>9, <1>10, <1>11, <1>12, <1>13, <1>14,
     <1>15, <1>16, <1>17, <1>18, <1>19, <1>20, <1>21, <1>22, <1>23, <1>24,
     <1>25, <1>26, <1>27, <1>28, <1>30, <1>31, <1>32
  DEF Step, Adds, Applies, Deletes, Fails

LEMMA DiskTyped ==
  ASSUME TypeOK, Shape, NEW p \in Clients, Step(p)
  PROVE  /\ acf' \in (SUBSET Mods) \cup {Torn}
         /\ content' \in SUBSET Mods
         /\ stage' \in SUBSET Mods
         /\ fileIds' \in Files
<1>1. JobShape(job[p]) /\ job[p] \in JobRecords
  BY DEF Shape, TypeOK
<1>2. CASE Write(p) \/ WriteIds(p)
  BY <1>1, <1>2 DEF Write, WriteIds, TypeOK, JobRecords, Files
<1>3. CASE Clear(p) \/ Remove(p)
  BY <1>3 DEF Clear, Remove, TypeOK
<1>4. CASE Rename(p) \/ Copy(p) \/ Unstage(p)
  BY <1>4 DEF Rename, Copy, Unstage, TypeOK
<1>5. CASE RollbackAcf(p) \/ RestoreAcf(p)
  BY <1>1, <1>5 DEF RollbackAcf, RestoreAcf, JobShape, TypeOK, JobRecords, Files
<1>6. CASE RollbackIds(p) \/ RestoreIds(p)
  BY <1>1, <1>6 DEF RollbackIds, RestoreIds, TypeOK, JobRecords, Files
<1>7. CASE ParseToAdd(p) \/ ParseToRemove(p)
  BY <1>7 DEF ParseToAdd, ParseToRemove, disk, TypeOK
<1>8. CASE Read(p) \/ ScanContent(p) \/ ScanStage(p) \/ End(p)
  BY <1>8 DEF Read, ScanContent, ScanStage, End, disk, TypeOK
<1>9. CASE BackupIds(p) \/ ListItems(p) \/ BackupAcf(p) \/ Reread(p)
  BY <1>9 DEF BackupIds, ListItems, BackupAcf, Reread, disk, TypeOK
<1>10. CASE Fails(p)
  BY <1>10 DEF Fails, AddFails, ReadFails, MoveFails, PrepareFails, SaveFails,
               DeleteFails, RollbackFails, disk, TypeOK
<1> QED BY <1>2, <1>3, <1>4, <1>5, <1>6, <1>7, <1>8, <1>9, <1>10
           DEF Step, Adds, Applies, Deletes

LEMMA FlagKept ==
  ASSUME NEW p \in Clients, Step(p)
  PROVE  activeOperation' = IF End(p) /\ job[p].kind = "apply" THEN "none"
                            ELSE activeOperation
BY DEF Step, Adds, ParseToAdd, ParseToRemove, Write, Applies, Read, ScanContent,
       ScanStage, Clear, Rename, Copy, Unstage, End, Deletes, BackupIds, ListItems,
       BackupAcf, Remove, Reread, WriteIds, RollbackAcf, RestoreAcf, RollbackIds,
       RestoreIds, Fails, AddFails, ReadFails, MoveFails, PrepareFails, SaveFails,
       DeleteFails, RollbackFails

LEMMA NotAlone ==
  ASSUME NEW j \in JobRecords, JobShape(j), NEW n, n = [j EXCEPT !.alone = FALSE]
  PROVE  /\ n \in JobRecords /\ JobShape(n)
         /\ ~n.alone /\ n.kind = j.kind /\ n.at = j.at /\ n.mod = j.mod
         /\ n.items = j.items /\ n.moves = j.moves
<1>1. n \in JobRecords
  BY DEF JobRecords
<1>2. /\ ~n.alone /\ n.kind = j.kind /\ n.at = j.at /\ n.mod = j.mod /\ n.todo = j.todo
      /\ n.items = j.items /\ n.moves = j.moves /\ n.savedAcf = j.savedAcf
  BY DEF JobRecords
<1>3. ASSUME j.kind = "none" PROVE n = Idle
  <2>1. j = Idle
    BY <1>3 DEF JobShape
  <2> QED BY <2>1 DEF Idle
<1>4. JobShape(n)
  BY <1>2, <1>3 DEF JobShape
<1> QED BY <1>1, <1>2, <1>4

(* A request that begins: its record, and what becomes of the others.      *)
LEMMA BeginEffect ==
  ASSUME TypeOK, Shape, NEW p \in Clients,
         NEW k \in RequestKinds, NEW s \in Stages, NEW m \in Mods \cup {None},
         NEW ids \in SUBSET Mods, Begin(p, k, s, m, ids),
         MayBeAt(k, s), s \in {"read", "backupIds", "writeIds"},
         k = "delete" => m # None
  PROVE  /\ job' \in [Clients -> JobRecords]
         /\ Shape'
         /\ job'[p].kind = k /\ job'[p].at = s /\ job'[p].mod = m
         /\ job'[p].alone => \A q \in Clients \ {p} : job[q].at = "idle"
         /\ \A q \in Clients \ {p} :
              /\ ~job'[q].alone /\ job'[q].kind = job[q].kind
              /\ job'[q].at = job[q].at /\ job'[q].moves = job[q].moves
         /\ job'[p].moves = {}
<1> DEFINE free == \A r \in Clients \ {p} : job[r].at = "idle"
<1>1. /\ Idle \in JobRecords /\ Idle.items = {} /\ Idle.moves = {} /\ ~Idle.alone
      /\ free \in BOOLEAN
  BY IdleShape DEF Idle
<1>2. job' = [q \in Clients |->
         IF q = p THEN [Idle EXCEPT !.at = s, !.kind = k, !.mod = m, !.acf = ids,
                          !.alone = free]
         ELSE [job[q] EXCEPT !.alone = FALSE]]
  BY DEF Begin
<1> HIDE DEF free
<1>3. ASSUME NEW q \in Clients \ {p}
      PROVE  /\ job'[q] \in JobRecords /\ JobShape(job'[q])
             /\ ~job'[q].alone /\ job'[q].kind = job[q].kind
             /\ job'[q].at = job[q].at /\ job'[q].moves = job[q].moves
  <2>1. job'[q] = [job[q] EXCEPT !.alone = FALSE]
    BY <1>2
  <2>2. job[q] \in JobRecords /\ JobShape(job[q])
    BY DEF TypeOK, Shape
  <2> QED BY <2>1, <2>2, NotAlone
<1>4. /\ job'[p] = [Idle EXCEPT !.at = s, !.kind = k, !.mod = m, !.acf = ids, !.alone = free]
      /\ DOMAIN job' = Clients /\ job' = [q \in Clients |-> job'[q]]
  BY <1>2
<1>5. job'[p] \in JobRecords
  BY <1>1, <1>4 DEF JobRecords
<1>6. /\ job'[p].kind = k /\ job'[p].at = s /\ job'[p].mod = m /\ job'[p].alone = free
      /\ job'[p].items = {} /\ job'[p].moves = {}
  BY <1>1, <1>4 DEF Idle
<1>7. JobShape(job'[p])
  BY <1>6 DEF JobShape, RequestKinds
<1>8. job' \in [Clients -> JobRecords] /\ Shape'
  BY <1>3, <1>4, <1>5, <1>7 DEF Shape
<1> QED BY <1>3, <1>6, <1>8 DEF free

Alone == \A p, q \in Clients : p # q /\ job[p].alone => job[q].kind = "none"

Inv == TypeOK /\ Shape /\ OneApply /\ Alone

LEMMA InvInit == Init => Inv
<1> SUFFICES ASSUME Init PROVE Inv
  OBVIOUS
<1>1. \A p \in Clients : job[p] = Idle
  BY DEF Init
<1>0. Idle.kind = "none" /\ ~Idle.alone
  BY DEF Idle
<1>2. \A p \in Clients : job[p].kind = "none" /\ ~job[p].alone
  BY <1>0, <1>1
<1>3. job \in [Clients -> JobRecords] /\ Shape
  BY <1>1, IdleShape DEF Init, Shape
<1>4. TypeOK
  BY <1>2, <1>3 DEF Init, TypeOK, Files
<1> QED BY <1>2, <1>3, <1>4 DEF Inv, OneApply, Alone

(* The effect of a Request, whichever it is.                               *)
Begun(p, k, s, m) ==
  /\ job' \in [Clients -> JobRecords]
  /\ Shape'
  /\ job'[p].kind = k /\ job'[p].at = s /\ job'[p].mod = m
  /\ job'[p].alone => \A q \in Clients \ {p} : job[q].at = "idle"
  /\ job'[p].moves = {}
  /\ \A q \in Clients \ {p} :
       /\ ~job'[q].alone /\ job'[q].kind = job[q].kind
       /\ job'[q].at = job[q].at /\ job'[q].moves = job[q].moves

LEMMA RequestEffect ==
  ASSUME TypeOK, Shape, NEW p \in Clients, Request(p)
  PROVE  /\ UNCHANGED disk
         /\ \/ Begun(p, "list", "read", None) /\ activeOperation' = activeOperation
            \/ /\ \E m \in Mods : Begun(p, "delete", "backupIds", m)
               /\ activeOperation' = activeOperation
            \/ /\ Begun(p, "apply", "read", None)
               /\ activeOperation = "none" /\ activeOperation' = "mod_apply"
            \/ Begun(p, "save", "writeIds", None) /\ activeOperation' = activeOperation
<1>1. /\ "read" \in Stages /\ "backupIds" \in Stages /\ "writeIds" \in Stages
      /\ RequestKinds = {"list", "delete", "apply", "save"}
      /\ None \in Mods \cup {None} /\ {} \in SUBSET Mods
      /\ MayBeAt("list", "read") /\ MayBeAt("apply", "read")
      /\ MayBeAt("delete", "backupIds") /\ MayBeAt("save", "writeIds")
  BY DEF Stages, RequestKinds, MayBeAt
<1>2. ASSUME Begin(p, "list", "read", None, {}) PROVE Begun(p, "list", "read", None)
  BY <1>1, <1>2, BeginEffect DEF Begun
<1>3. ASSUME Begin(p, "apply", "read", None, {}) PROVE Begun(p, "apply", "read", None)
  BY <1>1, <1>3, BeginEffect DEF Begun
<1>4. ASSUME NEW m \in Mods, Begin(p, "delete", "backupIds", m, {})
      PROVE  Begun(p, "delete", "backupIds", m)
  <2>1. m \in Mods \cup {None} /\ m # None
    BY ConstantsAssumption DEF ConstantsAssumption
  <2> QED BY <1>1, <1>4, <2>1, BeginEffect DEF Begun
<1>5. ASSUME NEW ids \in SUBSET Mods, Begin(p, "save", "writeIds", None, ids)
      PROVE  Begun(p, "save", "writeIds", None)
  BY <1>1, <1>5, BeginEffect DEF Begun
<1> QED BY <1>2, <1>3, <1>4, <1>5 DEF Request, Free

LEMMA RequestKeeps ==
  ASSUME Inv, NEW p \in Clients, Request(p)
  PROVE  Inv'
<1>1. TypeOK /\ Shape /\ OneApply /\ Alone /\ UNCHANGED disk
  BY RequestEffect DEF Inv
<1>2. \A q \in Clients : job[q].at = "idle" => job[q].kind = "none"
  BY <1>1 DEF Shape, JobShape, MayBeAt, Rollback
<1>3. PICK k \in RequestKinds, s \in Stages, m \in Mods \cup {None} :
        /\ Begun(p, k, s, m)
        /\ IF k = "apply" THEN activeOperation = "none" /\ activeOperation' = "mod_apply"
           ELSE activeOperation' = activeOperation
  BY <1>1, RequestEffect DEF RequestKinds, Stages
<1>4. TypeOK'
  BY <1>1, <1>3 DEF TypeOK, Begun, disk
<1>5. OneApply'
  BY <1>1, <1>3 DEF TypeOK, OneApply, Begun
<1>6. Alone'
  BY <1>2, <1>3 DEF Alone, Begun
<1> QED BY <1>3, <1>4, <1>5, <1>6 DEF Inv, Begun

LEMMA StepKeeps ==
  ASSUME Inv, NEW p \in Clients, Step(p)
  PROVE  Inv'
<1>1. TypeOK /\ Shape /\ OneApply /\ Alone /\ Local(p)
  BY StepIsLocal DEF Inv
<1>2. Idle.kind = "none" /\ ~Idle.alone
  BY DEF Idle
<1>3. ASSUME End(p) PROVE job'[p] = Idle
  BY <1>1, <1>3 DEF End, Leave, TypeOK
<1>4. TypeOK'
  <2>1. job[p].kind = "apply" /\ End(p) =>
          \A q \in Clients : job'[q].kind # "apply"
    BY <1>1, <1>2, <1>3 DEF Local, OneApply
  <2>2. \A q \in Clients : job'[q].kind = "apply" => job[q].kind = "apply"
    BY <1>1, <1>2 DEF Local
  <2>3. \A q \in Clients : job'[q].kind = "apply" => activeOperation' = "mod_apply"
    BY <1>1, <2>1, <2>2, FlagKept DEF TypeOK
  <2>4. activeOperation' \in {"none", "mod_apply"}
    BY <1>1, FlagKept DEF TypeOK
  <2> QED BY <1>1, <2>3, <2>4, DiskTyped DEF TypeOK, Local
<1>5. Shape'
  BY <1>1 DEF Shape, Local
<1>6. OneApply'
  BY <1>1, <1>2 DEF OneApply, Local
<1>7. Alone'
  BY <1>1, <1>2 DEF Alone, Local
<1> QED BY <1>4, <1>5, <1>6, <1>7 DEF Inv

LEMMA WorldKeeps ==
  ASSUME Inv, Download \/ Paste \/ Crash \/ UNCHANGED vars
  PROVE  Inv'
<1>1. TypeOK /\ Shape /\ OneApply /\ Alone
  BY DEF Inv
<1>2. CASE Download \/ UNCHANGED vars
  <2>1. UNCHANGED <<activeOperation, acf, content, fileIds, job>> /\ stage' \in SUBSET Mods
    BY <1>1, <1>2 DEF Download, vars, disk, TypeOK
  <2> QED BY <1>1, <2>1 DEF Inv, TypeOK, Shape, OneApply, Alone
<1>3. CASE Paste
  <2>1. ASSUME NEW q \in Clients
        PROVE  /\ job'[q] \in JobRecords /\ JobShape(job'[q])
               /\ ~job'[q].alone /\ job'[q].kind = job[q].kind
    <3>1. job'[q] = [job[q] EXCEPT !.alone = FALSE]
      BY <1>3 DEF Paste
    <3>2. job[q] \in JobRecords /\ JobShape(job[q])
      BY <1>1 DEF TypeOK, Shape
    <3> QED BY <3>1, <3>2, NotAlone
  <2>2. job' \in [Clients -> JobRecords]
    BY <1>3, <2>1 DEF Paste
  <2>3. UNCHANGED <<activeOperation, acf, stage, fileIds>> /\ content' \in SUBSET Mods
    BY <1>1, <1>3 DEF Paste, TypeOK
  <2> QED BY <1>1, <2>1, <2>2, <2>3 DEF Inv, TypeOK, Shape, OneApply, Alone
<1>4. CASE Crash
  <2>1. \A q \in Clients : job'[q] = Idle
    BY <1>4 DEF Crash
  <2>2. \A q \in Clients : job'[q].kind = "none" /\ ~job'[q].alone
    BY <2>1 DEF Idle
  <2>3. job' \in [Clients -> JobRecords] /\ Shape'
    BY <1>4, <2>1, IdleShape DEF Crash, Shape
  <2>4. TypeOK'
    BY <1>1, <1>4, <2>2, <2>3 DEF Crash, TypeOK, disk
  <2> QED BY <2>2, <2>3, <2>4 DEF Inv, OneApply, Alone
<1> QED BY <1>2, <1>3, <1>4

LEMMA InvInduction == Spec => []Inv
<1>1. Inv /\ [Next]_vars => Inv'
  BY RequestKeeps, StepKeeps, WorldKeeps DEF Next
<1> QED BY InvInit, <1>1, PTL DEF Spec

(* TypeOK: types, and activeOperation belongs to the apply at work (the    *)
(* guard of POST /servers/:id/restart-apply-mods and its `finally`), for   *)
(* any number of requests.                                                 *)
THEOREM TypeCorrect == Spec => []TypeOK
<1>1. Inv => TypeOK
  BY DEF Inv
<1> QED BY InvInduction, <1>1, PTL

(***************************************************************************)
(* What an apply has still to move stays staged, if no failed download     *)
(* removes what it staged: no other request takes anything from staging.   *)
(***************************************************************************)
MovesStaged == \A p \in Clients : job[p].moves \subseteq stage

LEMMA StepMoves ==
  ASSUME Inv, NEW p \in Clients, Step(p)
  PROVE  \/ /\ stage' = stage
            /\ job'[p].moves \subseteq job[p].moves \/ job'[p].moves \subseteq stage
         \/ /\ stage' = stage \ {job[p].mod} /\ job[p].kind = "apply"
            /\ job'[p].moves = job[p].moves \ {job[p].mod}
<1>0. /\ TypeOK /\ JobShape(job[p]) /\ job[p] \in JobRecords
      /\ Idle.moves = {}
  BY DEF Inv, TypeOK, Shape, Idle
<1>1. ASSUME Ends(p) \/ Leave(p) PROVE job'[p].moves \subseteq job[p].moves
  BY <1>0, <1>1, LeaveEffect DEF Ends
<1>2. ASSUME NEW s, Goto(p, s) PROVE job'[p].moves \subseteq job[p].moves
  BY <1>0, <1>2 DEF Goto, TypeOK, JobRecords
<1>3. ASSUME NEW rest \in SUBSET Mods, Registered(p, rest)
      PROVE  job'[p].moves \subseteq job[p].moves
  BY <1>0, <1>1, <1>3, RegisteredEffect DEF Update
<1>4. CASE Rename(p) \/ Unstage(p)
  <2>1. job'[p].moves = job[p].moves \ {job[p].mod}
    BY <1>0, <1>4, MovedEffect DEF Rename, Unstage, Update
  <2> QED BY <1>0, <1>4, <2>1 DEF Rename, Unstage, JobShape, MayBeAt, Rollback
<1>5. CASE ScanStage(p)
  BY <1>0, <1>5, ScanStageEffect DEF ScanStage, Update, disk
<1>6. CASE Copy(p) \/ End(p) \/ ListItems(p) \/ RollbackAcf(p) \/ RestoreAcf(p)
           \/ RollbackIds(p) \/ RestoreIds(p) \/ WriteIds(p)
  BY <1>1, <1>2, <1>6 DEF Copy, End, ListItems, RollbackAcf, RestoreAcf, RollbackIds,
                          RestoreIds, WriteIds, disk
<1>7. CASE ReadFails(p) \/ MoveFails(p) \/ PrepareFails(p) \/ SaveFails(p)
           \/ DeleteFails(p) \/ RollbackFails(p)
  BY <1>1, <1>2, <1>7 DEF ReadFails, MoveFails, PrepareFails, SaveFails, DeleteFails,
                          RollbackFails, Fail, disk
<1>8. CASE BackupAcf(p) \/ Reread(p)
  BY <1>0, <1>8 DEF BackupAcf, Reread, disk, TypeOK, JobRecords
<1>9. CASE ParseToAdd(p) \/ ParseToRemove(p) \/ Read(p) \/ ScanContent(p)
  BY <1>0, <1>1, <1>9, ParseToAddEffect, ParseToRemoveEffect, ReadEffect, ScanContentEffect
     DEF ParseToAdd, ParseToRemove, Read, ScanContent, Update, disk
<1>10. CASE Clear(p) \/ Remove(p) \/ BackupIds(p)
  BY <1>0, <1>10, ClearEffect, RemoveEffect, BackupIdsEffect
     DEF Clear, Remove, BackupIds, Update, disk
<1>11. CASE Write(p)
  <2>1. job[p].todo \ {job[p].mod} \in SUBSET Mods
    BY <1>0 DEF JobRecords
  <2> QED BY <1>2, <1>3, <1>11, <2>1 DEF Write
<1>12. CASE AddFails(p)
  <2>1. ASSUME NEW m \in InHand(p) PROVE job[p].todo \ {m} \in SUBSET Mods
    BY <1>0 DEF JobRecords
  <2> QED BY <1>1, <1>2, <1>3, <1>12, <2>1 DEF AddFails, Fail, disk
<1> QED BY <1>4, <1>5, <1>6, <1>7, <1>8, <1>9, <1>10, <1>11, <1>12
           DEF Step, Adds, Applies, Deletes, Fails

LEMMA StepKeepsMoves ==
  ASSUME Inv, MovesStaged, NEW p \in Clients, Step(p)
  PROVE  MovesStaged'
<1>1. Local(p) /\ \A q \in Clients : JobShape(job[q]) /\ job[q] \in JobRecords
  BY StepIsLocal DEF Inv, Shape, TypeOK
<1>2. CASE stage' = stage
  BY <1>1, <1>2, StepMoves DEF MovesStaged, Local
<1>3. CASE /\ stage' = stage \ {job[p].mod} /\ job[p].kind = "apply"
           /\ job'[p].moves = job[p].moves \ {job[p].mod}
  <2>1. ASSUME NEW q \in Clients \ {p} PROVE job'[q].moves = {}
    <3>1. job[q].kind # "apply"
      BY <1>3 DEF Inv, OneApply
    <3> QED BY <1>1, <3>1 DEF Local, JobShape
  <2> QED BY <1>3, <2>1 DEF MovesStaged
<1> QED BY <1>2, <1>3, StepMoves

LEMMA OthersKeepMoves ==
  ASSUME Inv, MovesStaged, "cleanup" \notin Kinds,
         \/ Download \/ Paste \/ Crash \/ UNCHANGED vars
         \/ \E p \in Clients : Request(p)
  PROVE  /\ MovesStaged'
         /\ content \cup stage \subseteq content' \cup stage'
<1>1. CASE Download \/ UNCHANGED vars
  BY <1>1 DEF Download, vars, disk, MovesStaged
<1>2. CASE Paste
  <2>1. ASSUME NEW q \in Clients PROVE job'[q].moves = job[q].moves
    <3>1. job'[q] = [job[q] EXCEPT !.alone = FALSE]
      BY <1>2 DEF Paste
    <3>2. job[q] \in JobRecords /\ JobShape(job[q])
      BY DEF Inv, TypeOK, Shape
    <3> QED BY <3>1, <3>2, NotAlone
  <2> QED BY <1>2, <2>1 DEF Paste, MovesStaged
<1>3. CASE Crash
  <2>1. \A q \in Clients : job'[q].moves = {}
    BY <1>3 DEF Crash, Idle
  <2> QED BY <1>3, <2>1 DEF Crash, MovesStaged, disk
<1>4. CASE \E p \in Clients : Request(p)
  <2>1. PICK p \in Clients : Request(p)
    BY <1>4
  <2>2. /\ UNCHANGED disk
        /\ job'[p].moves = {}
        /\ \A q \in Clients \ {p} : job'[q].moves = job[q].moves
    BY <2>1, RequestEffect DEF Inv, Begun
  <2> QED BY <2>2 DEF MovesStaged, disk
<1> QED BY <1>1, <1>2, <1>3, <1>4

(* The last directory of a mod goes in a removal, or in the removal of a   *)
(* staged directory that has been copied.                                  *)
LEMMA StepKeepsFiles ==
  ASSUME Inv, MovesStaged, NEW p \in Clients, Step(p),
         NEW m \in content \cup stage, m \notin content' \cup stage'
  PROVE  job[p].at \in {"remove", "unstage"} /\ job[p].mod = m
<1>0. /\ JobShape(job[p]) /\ job[p].moves \subseteq stage
  BY DEF Inv, Shape, MovesStaged
<1>1. CASE Clear(p)
  BY <1>0, <1>1 DEF Clear
<1>2. CASE Remove(p) \/ Unstage(p)
  BY <1>2 DEF Remove, Unstage
<1>3. CASE Rename(p) \/ Copy(p)
  BY <1>3 DEF Rename, Copy
<1>4. CASE ~(Clear(p) \/ Remove(p) \/ Unstage(p) \/ Rename(p) \/ Copy(p))
  <2>1. content' = content /\ stage' = stage
    BY <1>4 DEF Step, Adds, ParseToAdd, ParseToRemove, Write, Applies, Read,
                ScanContent, ScanStage, End, Deletes, BackupIds, ListItems, BackupAcf,
                Reread, WriteIds, RollbackAcf, RestoreAcf, RollbackIds, RestoreIds,
                Fails, AddFails, ReadFails, MoveFails, PrepareFails, SaveFails,
                DeleteFails, RollbackFails, disk
  <2> QED BY <2>1
<1> QED BY <1>1, <1>2, <1>3, <1>4

LEMMA MovesInduction ==
  ASSUME "cleanup" \notin Kinds
  PROVE  Spec => []MovesStaged
<1>1. Init => MovesStaged
  <2>1. Idle.moves = {}
    BY DEF Idle
  <2> QED BY <2>1 DEF Init, MovesStaged
<1>2. Inv /\ MovesStaged /\ [Next]_vars => MovesStaged'
  BY StepKeepsMoves, OthersKeepMoves DEF Next
<1> QED BY InvInduction, <1>1, <1>2, PTL DEF Spec

(* applyStaged and moveDir: whatever fails and whatever runs beside an     *)
(* apply, a mod's last directory goes only when the mod is deleted or has  *)
(* been copied, unless a failed download removes what was staged.          *)
THEOREM FilesKept ==
  ASSUME "cleanup" \notin Kinds
  PROVE  Spec => OnlyDeletionLosesFiles
<1> DEFINE Kept == \A m \in content \cup stage : m \notin content' \cup stage' =>
                    \E p \in Clients : job[p].at \in {"remove", "unstage"} /\ job[p].mod = m
<1>1. Inv /\ MovesStaged /\ [Next]_vars => Kept
  <2> SUFFICES ASSUME Inv, MovesStaged, [Next]_vars,
                      NEW m \in content \cup stage, m \notin content' \cup stage'
               PROVE  \E p \in Clients :
                        job[p].at \in {"remove", "unstage"} /\ job[p].mod = m
    OBVIOUS
  <2>1. PICK p \in Clients : Step(p)
    BY OthersKeepMoves DEF Next
  <2> QED BY <2>1, StepKeepsFiles
<1>2. Inv /\ MovesStaged /\ [Next]_vars => [Kept]_vars
  BY <1>1
<1> QED BY InvInduction, MovesInduction, <1>2, PTL DEF Spec, OnlyDeletionLosesFiles

(***************************************************************************)
(* What an undisturbed request knows of the disk.                          *)
(***************************************************************************)
Facts(j) ==
  /\ j.kind = "list" /\ j.at \in {"parse", "write"} => j.todo \subseteq content
  /\ j.kind = "apply" /\ j.at \in {"parse", "write"} =>
       /\ j.todo \subseteq j.moves /\ j.items \subseteq j.moves
       /\ j.items \subseteq j.todo \cup Items
  /\ j.at = "scan" => j.acf = Items
  /\ j.at = "write" =>
       j.acf = IF j.kind = "delete" THEN Items \ {j.mod} ELSE Items \cup {j.mod}
  /\ j.kind = "delete" /\ j.at \in {"remove", "reread", "writeIds", "done"} =>
       j.mod \notin Items
  /\ j.kind = "delete" /\ j.at \in {"reread", "writeIds", "done"} => j.mod \notin content
  /\ j.kind = "delete" /\ j.at = "writeIds" => j.mod \notin j.acf
  /\ j.kind = "delete" /\ j.at = "done" /\ j.savedIds # None => j.mod \notin fileIds
  /\ j.kind = "apply" /\ j.at \in {"clear", "rename", "unstage", "done"} =>
       j.items \subseteq Items /\ j.items \ j.moves \subseteq content
  /\ j.at = "unstage" => j.mod \in content
AloneFacts == \A p \in Clients : job[p].alone => Facts(job[p])

LEMMA StepKeepsFacts ==
  ASSUME Inv, NEW p \in Clients, Facts(job[p]), Step(p)
  PROVE  Facts(job[p])'
<1>0. TypeOK /\ JobShape(job[p]) /\ job[p] \in JobRecords
  BY DEF Inv, TypeOK, Shape
<1>1. ASSUME job'[p] = Idle PROVE Facts(job[p])'
  <2>1. job'[p].kind = "none" /\ job'[p].at = "idle"
    BY <1>1 DEF Idle
  <2> QED BY <2>1 DEF Facts
<1>2. ASSUME Ends(p) \/ Leave(p) PROVE Facts(job[p])'
  BY <1>0, <1>1, <1>2, LeaveEffect DEF Ends
<1>3. acf' = acf => Items' = Items
  BY DEF Items
<1>4. ASSUME NEW s \in Stages, Goto(p, s)
      PROVE  Update(p, s, job[p].mod, job[p].acf, job[p].todo, job[p].items, job[p].moves)
  BY <1>0, <1>4, GotoEffect
<1>5. ASSUME Copy(p) PROVE Facts(job[p])'
  BY <1>0, <1>5, <1>2, <1>3, <1>4
     DEF Copy, Facts, Update, JobShape, MayBeAt, Rollback, disk, Stages
<1>6. ASSUME ListItems(p) PROVE Facts(job[p])'
  BY <1>0, <1>6, <1>2, <1>3, <1>4
     DEF ListItems, Facts, Update, JobShape, MayBeAt, Rollback, disk, Stages
<1>7. ASSUME RollbackIds(p) PROVE Facts(job[p])'
  BY <1>0, <1>7, <1>2, <1>3, <1>4
     DEF RollbackIds, Facts, Update, JobShape, MayBeAt, Rollback, disk, Stages
<1>8. ASSUME RestoreIds(p) PROVE Facts(job[p])'
  BY <1>0, <1>8, <1>2, <1>3, <1>4
     DEF RestoreIds, Facts, Update, JobShape, MayBeAt, Rollback, disk, Stages
<1>9. ASSUME WriteIds(p) PROVE Facts(job[p])'
  BY <1>0, <1>9, <1>2, <1>3, <1>4
     DEF WriteIds, Facts, Update, JobShape, MayBeAt, Rollback, disk, Stages
<1>10. ASSUME RestoreAcf(p) PROVE Facts(job[p])'
  BY <1>0, <1>10, <1>2, <1>3, <1>4
     DEF RestoreAcf, Facts, Update, JobShape, MayBeAt, Rollback, disk, Stages, NextRollback
<1>11. ASSUME RollbackAcf(p) PROVE Facts(job[p])'
  BY <1>0, <1>11, <1>2, <1>3, <1>4
     DEF RollbackAcf, Facts, Update, JobShape, MayBeAt, Rollback, disk, Stages
<1>12. ASSUME End(p) PROVE Facts(job[p])'
  BY <1>0, <1>12, <1>2
     DEF End, Facts, Update, JobShape, MayBeAt, Rollback, disk
<1>13. ASSUME ReadFails(p) PROVE Facts(job[p])'
  BY <1>0, <1>13, <1>2, <1>3, <1>4
     DEF ReadFails, Fail, Facts, Update, JobShape, MayBeAt, Rollback, disk, Stages
<1>14. ASSUME MoveFails(p) PROVE Facts(job[p])'
  BY <1>0, <1>14, <1>2, <1>3, <1>4
     DEF MoveFails, Fail, Facts, Update, JobShape, MayBeAt, Rollback, disk, Stages
<1>15. ASSUME PrepareFails(p) PROVE Facts(job[p])'
  BY <1>0, <1>15, <1>2, <1>3, <1>4
     DEF PrepareFails, Fail, Facts, Update, JobShape, MayBeAt, Rollback, disk, Stages
<1>16. ASSUME SaveFails(p) PROVE Facts(job[p])'
  BY <1>0, <1>16, <1>2, <1>3, <1>4
     DEF SaveFails, Fail, Facts, Update, JobShape, MayBeAt, Rollback, disk, Stages
<1>17. ASSUME DeleteFails(p) PROVE Facts(job[p])'
  BY <1>0, <1>17, <1>3, <1>4
     DEF DeleteFails, FirstRollback, NextRollback, Facts, Update, JobShape, MayBeAt, Rollback, disk, Stages
<1>18. ASSUME RollbackFails(p) PROVE Facts(job[p])'
  BY <1>0, <1>18, <1>3, <1>4
     DEF RollbackFails, NextRollback, Facts, Update, JobShape, MayBeAt, Rollback, disk, Stages
<1>19. ASSUME ParseToAdd(p) PROVE Facts(job[p])'
  BY <1>0, <1>19, <1>2, <1>3, ParseToAddEffect
     DEF ParseToAdd, Facts, Update, JobShape, MayBeAt, Rollback, disk
<1>20. ASSUME ParseToRemove(p) PROVE Facts(job[p])'
  BY <1>0, <1>20, <1>2, <1>3, ParseToRemoveEffect
     DEF ParseToRemove, Facts, Update, JobShape, MayBeAt, Rollback, disk
<1>21. ASSUME Read(p) PROVE Facts(job[p])'
  BY <1>0, <1>21, <1>2, <1>3, ReadEffect
     DEF Read, Facts, Update, JobShape, MayBeAt, Rollback, disk
<1>22. ASSUME ScanContent(p) PROVE Facts(job[p])'
  BY <1>0, <1>22, <1>2, <1>3, ScanContentEffect
     DEF ScanContent, Facts, Update, JobShape, MayBeAt, Rollback, disk
<1>23. ASSUME Remove(p) PROVE Facts(job[p])'
  BY <1>0, <1>23, <1>2, <1>3, RemoveEffect
     DEF Remove, Facts, Update, JobShape, MayBeAt, Rollback, disk
<1>24. ASSUME BackupIds(p) PROVE Facts(job[p])'
  BY <1>0, <1>24, <1>2, <1>3, BackupIdsEffect
     DEF BackupIds, Facts, Update, JobShape, MayBeAt, Rollback, disk
<1>25. ASSUME Rename(p) PROVE Facts(job[p])'
  BY <1>0, <1>25, <1>2, <1>3, MovedEffect
     DEF Rename, Facts, Update, JobShape, MayBeAt, Rollback, disk
<1>26. ASSUME Unstage(p) PROVE Facts(job[p])'
  BY <1>0, <1>26, <1>2, <1>3, MovedEffect
     DEF Unstage, Facts, Update, JobShape, MayBeAt, Rollback, disk
<1>27. ASSUME Clear(p) PROVE Facts(job[p])'
  BY <1>0, <1>27, <1>2, <1>3, ClearEffect
     DEF Clear, Facts, Update, JobShape, MayBeAt, Rollback, disk
<1>28. ASSUME BackupAcf(p) PROVE Facts(job[p])'
  BY <1>0, <1>28, <1>3
     DEF BackupAcf, TypeOK, JobRecords, Facts, Update, JobShape, MayBeAt, Rollback, disk
<1>29. ASSUME Reread(p) PROVE Facts(job[p])'
  BY <1>0, <1>29, <1>3
     DEF Reread, TypeOK, JobRecords, Facts, Update, JobShape, MayBeAt, Rollback, disk
<1>30. ASSUME Write(p) PROVE Facts(job[p])'
  <2>1. Items' = job[p].acf
    BY <1>0, <1>30, ConstantsAssumption DEF Write, Items, JobRecords, ConstantsAssumption
  <2>2. CASE job[p].kind = "delete"
    BY <1>0, <1>4, <1>30, <2>1, <2>2 DEF Write, Facts, Update, JobShape, MayBeAt, Rollback, Stages
  <2>3. CASE job[p].kind # "delete"
    <3>1. job[p].todo \ {job[p].mod} \in SUBSET Mods
      BY <1>0 DEF JobRecords
    <3> QED BY <1>0, <1>2, <1>30, <2>1, <2>3, <3>1, RegisteredEffect
            DEF Write, Facts, Update, JobShape, MayBeAt
  <2> QED BY <2>2, <2>3
<1>31. ASSUME ScanStage(p) PROVE Facts(job[p])'
  <2>1. PICK s \in {"done", "clear", "parse"} :
          /\ Update(p, s, job[p].mod, job[p].acf, stage \ job[p].acf, stage, stage)
          /\ s = "done" => stage = {}
          /\ s = "clear" => stage \subseteq job[p].acf
    BY <1>0, <1>31, ScanStageEffect
  <2>2. job[p].acf = Items /\ acf' = acf
    BY <1>0, <1>31 DEF ScanStage, Facts, disk
  <2>3. Items' = Items /\ job'[p].kind = "apply" /\ job'[p].at = s
    BY <1>3, <1>31, <2>1, <2>2 DEF ScanStage, Update
  <2> QED BY <2>1, <2>2, <2>3 DEF Facts, Update
<1>32. ASSUME AddFails(p) PROVE Facts(job[p])'
  <2>1. CASE job[p].kind = "list"
    <3>1. PICK m \in InHand(p) : Registered(p, job[p].todo \ {m})
      BY <1>32, <2>1 DEF AddFails
    <3>2. job[p].todo \ {m} \in SUBSET Mods
      BY <1>0 DEF JobRecords
    <3> QED BY <1>0, <1>2, <1>3, <1>32, <2>1, <3>1, <3>2, RegisteredEffect
            DEF AddFails, Facts, Update, disk
  <2>2. CASE job[p].kind = "apply"
    BY <1>0, <1>4, <1>32, <2>2 DEF AddFails, Fail, Facts, Update, Stages
  <2> QED BY <1>32, <2>1, <2>2 DEF AddFails
<1> QED
  BY <1>5, <1>6, <1>7, <1>8, <1>9, <1>10, <1>11, <1>12, <1>13, <1>14, <1>15,
     <1>16, <1>17, <1>18, <1>19, <1>20, <1>21, <1>22, <1>23, <1>24, <1>25,
     <1>26, <1>27, <1>28, <1>29, <1>30, <1>31, <1>32
     DEF Step, Adds, Applies, Deletes, Fails

LEMMA StepIsNotIdle ==
  ASSUME Inv, NEW p \in Clients, Step(p)
  PROVE  job[p].kind # "none"
<1>1. JobShape(job[p])
  BY DEF Inv, Shape
<1>2. CASE Adds(p)
  BY <1>1, <1>2 DEF Adds, ParseToAdd, ParseToRemove, Write, JobShape, MayBeAt
<1>3. CASE Applies(p)
  BY <1>1, <1>3 DEF Applies, Read, ScanContent, ScanStage, Clear, Rename, Copy,
                    Unstage, End, JobShape, MayBeAt
<1>4. CASE Deletes(p)
  BY <1>1, <1>4 DEF Deletes, BackupIds, ListItems, BackupAcf, Remove, Reread, WriteIds,
                    RollbackAcf, RestoreAcf, RollbackIds, RestoreIds, JobShape, MayBeAt
<1>5. CASE Fails(p)
  BY <1>1, <1>5 DEF Fails, AddFails, ReadFails, MoveFails, PrepareFails, SaveFails,
                    DeleteFails, RollbackFails, Rollback, JobShape, MayBeAt
<1> QED BY <1>2, <1>3, <1>4, <1>5 DEF Step

LEMMA NextKeepsFacts ==
  ASSUME Inv, AloneFacts, [Next]_vars
  PROVE  AloneFacts'
<1>1. ASSUME NEW p \in Clients, Step(p) PROVE AloneFacts'
  <2>1. Local(p) /\ job[p].kind # "none" /\ ~Idle.alone
    BY <1>1, StepIsLocal, StepIsNotIdle DEF Inv, Idle
  <2>2. \A q \in Clients \ {p} : ~job[q].alone /\ job'[q] = job[q]
    BY <2>1 DEF Inv, Alone, Local
  <2>3. job'[p].alone => job[p].alone
    BY <2>1 DEF Local
  <2>4. job'[p].alone => Facts(job[p])'
    BY <1>1, <2>3, StepKeepsFacts DEF AloneFacts
  <2> QED BY <2>2, <2>4 DEF AloneFacts
<1>2. ASSUME NEW p \in Clients, Request(p) PROVE AloneFacts'
  <2>1. /\ job'[p].at \in {"read", "backupIds", "writeIds"}
        /\ job'[p].at = "writeIds" => job'[p].kind = "save"
        /\ \A q \in Clients \ {p} : ~job'[q].alone
    BY <1>2, RequestEffect DEF Inv, Begun
  <2>2. Facts(job[p])'
    BY <2>1 DEF Facts
  <2> QED BY <2>1, <2>2 DEF AloneFacts
<1>3. CASE Download \/ UNCHANGED vars
  <2>1. UNCHANGED <<acf, content, fileIds, job>>
    BY <1>3 DEF Download, vars, disk
  <2> QED BY <2>1 DEF AloneFacts, Facts, Items
<1>4. CASE Paste \/ Crash
  <2>1. \A q \in Clients : ~job'[q].alone
    BY <1>4, NotAlone DEF Paste, Crash, Idle, Inv, TypeOK, Shape
  <2> QED BY <2>1 DEF AloneFacts
<1> QED BY <1>1, <1>2, <1>3, <1>4 DEF Next

LEMMA FactsInduction == Spec => [](Inv /\ AloneFacts)
<1>1. Init => AloneFacts
  <2>1. ~Idle.alone
    BY DEF Idle
  <2> QED BY <2>1 DEF Init, AloneFacts
<1>2. Inv /\ AloneFacts /\ [Next]_vars => AloneFacts'
  BY NextKeepsFacts
<1> QED BY InvInduction, <1>1, <1>2, PTL DEF Spec

(* deleteMod: a deletion that nobody disturbed and that answers success    *)
(* leaves no trace of the mod in acf, content and the File_IDs it saved.   *)
THEOREM DeletionDeletes == Spec => []DeletedIsGone
<1>1. Inv /\ AloneFacts => DeletedIsGone
  BY DEF AloneFacts, Facts, DeletedIsGone
<1> QED BY FactsInduction, <1>1, PTL

(* applyStaged: an apply that nobody disturbed and that ends well has      *)
(* installed, and named, every mod that it found staged.                   *)
THEOREM ApplyCompletes == Spec => []ApplyInstalls
<1>1. Inv /\ AloneFacts => ApplyInstalls
  <2> SUFFICES ASSUME Inv, AloneFacts, NEW p \in Clients,
                      job[p].kind = "apply", job[p].at = "done", job[p].alone
               PROVE  job[p].items \subseteq Items \cap content
    BY DEF ApplyInstalls
  <2>1. job[p].moves = {}
    BY DEF Inv, Shape, JobShape
  <2> QED BY <2>1 DEF AloneFacts, Facts
<1> QED BY FactsInduction, <1>1, PTL

LEMMA StepNames ==
  ASSUME Inv, MovesStaged, NEW p \in Clients, Facts(job[p]), Step(p),
         job[p].at # "restoreAcf"
  PROVE  Nameless' \subseteq Nameless
<1>0. /\ TypeOK /\ JobShape(job[p]) /\ job[p] \in JobRecords
      /\ job[p].moves \subseteq stage
  BY DEF Inv, TypeOK, Shape, MovesStaged
<1>1. acf' = acf => Items' = Items
  BY DEF Items
<1>2. CASE Write(p)
  <2>1. Items' = job[p].acf
    BY <1>0, <1>2, ConstantsAssumption DEF Write, Items, JobRecords, ConstantsAssumption
  <2>2. job[p].kind \in {"list", "apply", "delete"}
    BY <1>0, <1>2 DEF Write, JobShape, MayBeAt, Rollback
  <2> QED BY <1>0, <1>2, <2>1, <2>2 DEF Write, Facts, JobShape, Nameless
<1>3. CASE Remove(p)
  <2>1. job[p].mod \notin Items
    BY <1>0, <1>3 DEF Remove, Facts, JobShape, MayBeAt, Rollback
  <2> QED BY <1>1, <1>3, <2>1 DEF Remove, Nameless
<1>4. CASE Clear(p) \/ Rename(p) \/ Copy(p)
  BY <1>0, <1>1, <1>4 DEF Clear, Rename, Copy, Nameless
<1>5. CASE Unstage(p)
  BY <1>1, <1>5 DEF Unstage, Facts, Nameless
<1>6. CASE RollbackAcf(p)
  BY <1>6 DEF RollbackAcf, Items, Nameless
<1>7. CASE ~(Write(p) \/ Remove(p) \/ Clear(p) \/ Rename(p) \/ Copy(p) \/ Unstage(p)
             \/ RollbackAcf(p))
  <2>1. UNCHANGED <<acf, content, stage>>
    BY <1>7 DEF Step, Adds, ParseToAdd, ParseToRemove, Applies, Read, ScanContent,
                ScanStage, End, Deletes, BackupIds, ListItems, BackupAcf, Reread,
                WriteIds, RestoreAcf, RollbackIds, RestoreIds, Fails, AddFails,
                ReadFails, MoveFails, PrepareFails, SaveFails, DeleteFails,
                RollbackFails, disk
  <2> QED BY <1>1, <2>1 DEF Nameless
<1> QED BY <1>2, <1>3, <1>4, <1>5, <1>6, <1>7

(* The order acf first, files after: an undisturbed request never makes    *)
(* the acf name one more mod that has no files, whatever fails, unless it  *)
(* rolls back or a failed download removes what was staged.                *)
THEOREM NamesHaveFiles ==
  ASSUME "cleanup" \notin Kinds
  PROVE  Spec => NamedHasFiles
<1> DEFINE Named == \A p \in Clients :
              job[p].alone /\ job'[p] # job[p] /\ job[p].at # "restoreAcf"
              => Nameless' \subseteq Nameless
<1>1. Inv /\ MovesStaged /\ AloneFacts /\ [Next]_vars => Named
  <2> SUFFICES ASSUME Inv, MovesStaged, AloneFacts, [Next]_vars,
                      NEW p \in Clients,
                      job[p].alone, job'[p] # job[p], job[p].at # "restoreAcf"
               PROVE  Nameless' \subseteq Nameless
    OBVIOUS
  <2>1. CASE \E q \in Clients : Step(q)
    <3>1. PICK q \in Clients : Step(q)
      BY <2>1
    <3>2. q = p
      BY <3>1, StepIsLocal DEF Inv, Local
    <3> QED BY <3>1, <3>2, StepNames DEF AloneFacts
  <2>2. CASE Paste \/ Crash \/ \E q \in Clients : Request(q)
    <3>1. acf' = acf /\ content \subseteq content' /\ stage' = stage
      BY <2>2, RequestEffect DEF Paste, Crash, Inv, disk
    <3> QED BY <3>1 DEF Nameless, Items
  <2>3. CASE Download \/ UNCHANGED vars
    BY <2>3 DEF Download, vars
  <2> QED BY <2>1, <2>2, <2>3 DEF Next
<1>2. Inv /\ MovesStaged /\ AloneFacts /\ [Next]_vars => [Named]_vars
  BY <1>1
<1> QED BY FactsInduction, MovesInduction, <1>2, PTL DEF Spec, NamedHasFiles

=============================================================================
