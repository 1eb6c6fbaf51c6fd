------------------------------ MODULE Instances ------------------------------
(***************************************************************************)
(* The instances and what a browser tab makes of them: the list of         *)
(* ServersContext, which is fetched and then follows the pushes of the     *)
(* panel; the selection of CurrentServerContext, which localStorage keeps  *)
(* and the other tabs share; the selector of the sidebar and the page that *)
(* creates and deletes instances.  Every request has three steps: sent,    *)
(* done by the panel, and its answer, which may be a failure.              *)
(***************************************************************************)
EXTENDS FileTree

CONSTANTS
  Ids,         \* names of instances
  None,        \* no instance, no dialog
  FirstDisk,   \* what is below the installation directory at first
  MaxRequests, \* bound: requests of one kind under way at once
  MaxMoves     \* bound: clicks, and steps of the other tab and of the servers

VARIABLES
  known,       \* ServerManager.servers: sequence of [id, state]
  disk,        \* the files
  servers,     \* the list of the tab
  loading,     \* no list was there yet
  listError,
  refreshes,   \* GET /servers under way: what each will bring, <<>> before the panel answers
  connected,   \* the WebSocket of the tab
  pushes,      \* state_change messages on their way
  current,     \* currentServerId
  storage,     \* what localStorage holds
  storageOk,   \* detectStorage, when the tab was opened
  events,      \* storage events on their way
  page,        \* the route
  setup,       \* ServerSetupPage: its dialog, None, "create" or the id to delete
  job,         \* the create or delete request of that page, or None
  moves        \* history: clicks and steps of others so far

instanceVars == <<known, disk, servers, loading, listError, refreshes, connected, pushes,
                  current, storage, storageOk, events, page, setup, job, moves>>

Routes == {"files", "setup", "home"}

IdsOf(list) == {list[i].id : i \in DOMAIN list}
Home(id) == <<"Servers", id>>

Entry(id, state) == [id |-> id, state |-> state]
SetState(list, id, state) ==
  [i \in DOMAIN list |-> IF list[i].id = id THEN Entry(id, state) ELSE list[i]]

Move == moves < MaxMoves /\ moves' = moves + 1

(* Every instance with a directory was found when the panel started; what  *)
(* the browser remembers may be one that is gone.                          *)
InstancesInit ==
  /\ disk = FirstDisk
  /\ known = SetToSeq({Entry(p[2], "STOPPED") : p \in List(FirstDisk, <<"Servers">>)})
  /\ servers = <<>> /\ loading = TRUE /\ listError = FALSE
  /\ refreshes = <<<<>>>>
  /\ connected = FALSE /\ pushes = <<>>
  /\ storageOk \in BOOLEAN
  /\ storage \in Ids \cup {None}
  /\ current = IF storageOk THEN storage ELSE None
  /\ events = <<>>
  /\ page = "home" /\ setup = None /\ job = None
  /\ moves = 0
-----------------------------------------------------------------------------
(* refresh.                                                                *)
PanelLists(i) ==
  /\ refreshes[i] = <<>>
  /\ refreshes' = [refreshes EXCEPT ![i] = <<known>>]
  /\ UNCHANGED <<known, disk, servers, loading, listError, connected, pushes, current,
                 storage, storageOk, events, page, setup, job, moves>>

ListArrives(i) ==
  /\ \/ refreshes[i] # <<>> /\ servers' = refreshes[i][1] /\ listError' = FALSE
     \/ listError' = TRUE /\ UNCHANGED servers
  /\ loading' = FALSE
  /\ refreshes' = RemoveAt(refreshes, i)
  /\ UNCHANGED <<known, disk, connected, pushes, current, storage, storageOk, events, page,
                 setup, job, moves>>

Refresh == Len(refreshes) < MaxRequests /\ refreshes' = Append(refreshes, <<>>)

(* Connected again, the list is fetched; what was pushed meanwhile is lost.*)
Connect ==
  /\ Move
  /\ ~connected /\ connected' = TRUE
  /\ Refresh
  /\ UNCHANGED <<known, disk, servers, loading, listError, pushes, current, storage,
                 storageOk, events, page, setup, job>>

Disconnect ==
  /\ Move
  /\ connected /\ connected' = FALSE
  /\ pushes' = <<>>
  /\ UNCHANGED <<known, disk, servers, loading, listError, refreshes, current, storage,
                 storageOk, events, page, setup, job>>

(* An instance starts or stops, and the panel tells the tabs.              *)
StateChanges(id, to) ==
  /\ Move
  /\ Entry(id, to) \notin Range(known) /\ id \in IdsOf(known)
  /\ known' = SetState(known, id, to)
  /\ pushes' = IF connected THEN Append(pushes, Entry(id, to)) ELSE pushes
  /\ UNCHANGED <<disk, servers, loading, listError, refreshes, connected, current, storage,
                 storageOk, events, page, setup, job>>

PushArrives ==
  /\ pushes # <<>>
  /\ servers' = SetState(servers, Head(pushes).id, Head(pushes).state)
  /\ pushes' = Tail(pushes)
  /\ UNCHANGED <<known, disk, loading, listError, refreshes, connected, current, storage,
                 storageOk, events, page, setup, job, moves>>
-----------------------------------------------------------------------------
(* setCurrentServerId and clear.                                           *)
SetCurrent(id) ==
  /\ current' = id
  /\ storage' = IF storageOk THEN id ELSE storage

(* The selector of the sidebar, and the list of ServerSetupPage.           *)
SelectServer(id) ==
  /\ Move
  /\ ~loading /\ id \in IdsOf(servers) \ {current}
  /\ SetCurrent(id)
  /\ UNCHANGED <<known, disk, servers, loading, listError, refreshes, connected, pushes,
                 storageOk, events, page, setup, job>>

(* Another tab selects or clears.                                          *)
OtherTabSelects(id) ==
  /\ Move
  /\ storage # id /\ storage' = id
  /\ events' = Append(events, id)
  /\ UNCHANGED <<known, disk, servers, loading, listError, refreshes, connected, pushes,
                 current, storageOk, page, setup, job>>

StorageEvent ==
  /\ events # <<>>
  /\ current' = Head(events)
  /\ events' = Tail(events)
  /\ UNCHANGED <<known, disk, servers, loading, listError, refreshes, connected, pushes,
                 storage, storageOk, page, setup, job, moves>>
-----------------------------------------------------------------------------
(* ServerSetupPage.  Without a valid selection the first instance counts.  *)
CurrentId ==
  IF current \in IdsOf(servers) THEN current
  ELSE IF servers = <<>> THEN None ELSE servers[1].id

OpenDialog(d) ==
  /\ Move
  /\ page = "setup" /\ setup = None
  /\ setup' = d
  /\ UNCHANGED <<known, disk, servers, loading, listError, refreshes, connected, pushes,
                 current, storage, storageOk, events, page, job>>

CancelDialog ==
  /\ Move
  /\ page = "setup" /\ setup # None
  /\ setup' = None
  /\ UNCHANGED <<known, disk, servers, loading, listError, refreshes, connected, pushes,
                 current, storage, storageOk, events, page, job>>

(* onSubmit of CreateServerDialog, handleDelete: the selection and the     *)
(* list are those of the moment of the click.                              *)
Submit(kind, id) ==
  /\ Move
  /\ page = "setup" /\ job = None
  /\ setup = IF kind = "create" THEN "create" ELSE id
  /\ job' = [kind |-> kind, id |-> id, stage |-> "sent", selected |-> CurrentId = id,
             others |-> SelectSeq(servers, LAMBDA s : s.id # id)]
  /\ UNCHANGED <<known, disk, servers, loading, listError, refreshes, connected, pushes,
                 current, storage, storageOk, events, page, setup>>

(* removeServer: the instance is stopped, and if its directory cannot be   *)
(* removed it is forgotten all the same.                                   *)
RemoveServer(id) ==
  /\ disk' \in {disk, DeleteEntry(disk, Home(id))}
  /\ known' = SelectSeq(known, LAMBDA s : s.id # id)
  /\ pushes' = IF connected /\ Entry(id, "RUNNING") \in Range(known)
               THEN Append(pushes, Entry(id, "STOPPED")) ELSE pushes

CommandsDat(id) == Home(id) \o <<"Server", "Commands.dat">>

CreateServer(id) ==
  /\ CommandsDat(id) \notin DOMAIN disk
  /\ disk' = WriteRaw(disk, CommandsDat(id), "commands")
  /\ known' = IF id \in IdsOf(known) THEN SetState(known, id, "STOPPED")
              ELSE Append(known, Entry(id, "STOPPED"))
  /\ UNCHANGED pushes

PanelDoes ==
  /\ job # None /\ job.stage = "sent"
  /\ IF job.kind = "create" THEN CreateServer(job.id) ELSE RemoveServer(job.id)
  /\ job' = [job EXCEPT !.stage = "done"]
  /\ UNCHANGED <<servers, loading, listError, refreshes, connected, current, storage,
                 storageOk, events, page, setup, moves>>

(* The list is fetched again and awaited before the selection moves on.    *)
JobRefreshes ==
  /\ job # None /\ job.stage = "done"
  /\ \/ servers' = known /\ listError' = FALSE
     \/ listError' = TRUE /\ UNCHANGED servers
  /\ job' = [job EXCEPT !.stage = "listed"]
  /\ UNCHANGED <<known, disk, loading, refreshes, connected, pushes, current, storage,
                 storageOk, events, page, setup, moves>>

JobEnds ==
  /\ job # None /\ job.stage = "listed"
  /\ LET leaves == job.kind = "delete" /\ job.selected /\ job.others = <<>>
     IN /\ CASE job.kind = "create"                    -> SetCurrent(job.id)
             [] leaves                                 -> SetCurrent(None)
             [] job.kind = "delete" /\ job.selected    -> SetCurrent(job.others[1].id)
             [] OTHER                                  -> UNCHANGED <<current, storage>>
        /\ page' = IF leaves THEN "home" ELSE page
  /\ setup' = None /\ job' = None
  /\ UNCHANGED <<known, disk, servers, loading, listError, refreshes, connected, pushes,
                 storageOk, events, moves>>

(* The dialog that creates stays open, the one that deletes is closed.     *)
JobFails ==
  /\ job # None /\ job.stage \in {"sent", "done"}
  /\ setup' = IF job.kind = "create" THEN setup ELSE None
  /\ job' = None
  /\ UNCHANGED <<known, disk, servers, loading, listError, refreshes, connected, pushes,
                 current, storage, storageOk, events, page, moves>>
-----------------------------------------------------------------------------
InstancesNext ==
  \/ \E i \in DOMAIN refreshes : PanelLists(i) \/ ListArrives(i)
  \/ Connect \/ Disconnect \/ PushArrives \/ StorageEvent
  \/ \E id \in Ids : \/ SelectServer(id)
                     \/ \E to \in {"STOPPED", "RUNNING"} : StateChanges(id, to)
                     \/ Submit("create", id) \/ Submit("delete", id)
  \/ \E id \in Ids \cup {None} : OtherTabSelects(id)
  \/ \E d \in IdsOf(servers) \cup {"create"} : OpenDialog(d)
  \/ CancelDialog \/ PanelDoes \/ JobRefreshes \/ JobEnds \/ JobFails
=============================================================================
