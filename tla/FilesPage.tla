------------------------------ MODULE FilesPage ------------------------------
(***************************************************************************)
(* The file manager of the panel: the page, which shows what is below the  *)
(* installation directory and sends every change to the selected instance, *)
(* and the routers that answer.  A request under way is followed by the    *)
(* page even when the user has gone elsewhere on it.                       *)
(***************************************************************************)
EXTENDS Instances

CONSTANTS Names \* names the user types

VARIABLES
  path,         \* directory of the URL
  entries,      \* what the page shows
  filesLoading, filesError,
  lists,        \* listings under way: [path, got], got = <<>> before the panel answers
  selected,     \* entry, or None
  menu,         \* entry of the context menu, or None
  dialogs,      \* those of "new", "upload", "rename", "permissions" that are open
  doomed,       \* entry of the delete dialog, or None
  newName, newKind,
  upload,       \* the file chosen, or None
  calls         \* requests under way

listing  == <<entries, filesLoading, filesError, lists>>
forms    == <<dialogs, doomed, newName, newKind, upload>>
filesVars == <<path, listing, selected, menu, forms, calls>>
vars      == <<instanceVars, filesVars>>

EntriesOf(dir) == {[path |-> q, dir |-> disk[q] = "dir"] : q \in List(disk, dir)}
NameOf(entry)  == Last(entry.path)
-----------------------------------------------------------------------------
(* The routers below /api/servers in the order index.ts mounts them; a     *)
(* request goes to the first that has a route for it.                      *)
Routers == <<
  {<<"POST", "">>, <<"PATCH", ":id">>, <<"POST", ":id/start">>, <<"POST", ":id/stop">>,
   <<"POST", ":id/restart">>, <<"DELETE", ":id">>, <<"GET", "">>},
  {<<"GET", ":id/mods/downloaded">>, <<"POST", ":id/mods/download">>,
   <<"DELETE", ":id/mods/:fileId">>, <<"GET", ":id/mods/acf">>},
  {<<verb, ":id/config/" \o file>> : verb \in {"GET", "PUT"}, file \in {"commands", "txt", "workshop"}},
  {<<"GET", ":id">>, <<"GET", ":id/content">>, <<"POST", ":id/upload">>,
   <<"POST", ":id/files/raw">>, <<"GET", ":id/files/raw">>, <<"POST", ":id/mkdir">>,
   <<"DELETE", ":id">>, <<"PUT", ":id/rename">>} >>

RouterOf(route) == CHOOSE n \in DOMAIN Routers : /\ route \in Routers[n]
                                                 /\ \A k \in 1..(n - 1) : route \notin Routers[k]

(* The servers' router deletes an instance where the files' one would      *)
(* delete an entry.                                                        *)
AnsweredAs(call) ==
  IF call.route = <<"DELETE", ":id">> THEN IF RouterOf(call.route) = 1 THEN "removeServer" ELSE "deleteEntry"
  ELSE call.route[2]

(* What a request leaves on the disk when it succeeds; it may also fail    *)
(* and leave things as they are.                                           *)
Target(call) == Home(call.id) \o call.path
Outcome(call) ==
  CASE AnsweredAs(call) = ":id/mkdir"     -> MakeDirectories(disk, Target(call))
    [] AnsweredAs(call) = ":id/upload"    -> WriteFile(disk, Target(call), call.content)
    [] AnsweredAs(call) = ":id/files/raw" -> WriteRaw(disk, Target(call), call.content)
    [] AnsweredAs(call) = ":id/rename"    -> RenameEntry(disk, Target(call), call.name)
    [] AnsweredAs(call) = "deleteEntry"   -> DeleteEntry(disk, Target(call))
    [] OTHER                              -> disk

Succeeds(call) ==
  CASE AnsweredAs(call) = ":id/mkdir"   -> IsDir(Outcome(call), Target(call))
    [] AnsweredAs(call) = ":id/content" -> IsFile(disk, Target(call))
    [] AnsweredAs(call) = ":id/rename"  -> Target(call) \in DOMAIN disk /\ (NameOf(call) = call.name \/ Outcome(call) # disk)
    [] AnsweredAs(call) = "deleteEntry" -> Target(call) \in DOMAIN disk
    [] OTHER                            -> IsFile(Outcome(call), Target(call))

PanelHandles(i) ==
  /\ calls[i].stage = "sent"
  /\ IF AnsweredAs(calls[i]) = "removeServer"
     THEN /\ RemoveServer(calls[i].id)
          /\ calls' = [calls EXCEPT ![i].stage = "ok"]
     ELSE /\ \/ /\ Succeeds(calls[i])
                /\ disk' = Outcome(calls[i])
                /\ calls' = [calls EXCEPT ![i].stage = "ok"]
             \/ /\ calls' = [calls EXCEPT ![i].stage = "failed"]
                /\ UNCHANGED disk
          /\ UNCHANGED <<known, pushes>>
  /\ UNCHANGED <<servers, loading, listError, refreshes, connected, current, storage,
                 storageOk, events, page, setup, job, moves, path, listing, selected, menu, forms>>

PanelListsFiles(i) ==
  /\ lists[i].got = <<>>
  /\ lists' = [lists EXCEPT ![i].got = <<EntriesOf(lists[i].path)>>]
  /\ UNCHANGED <<instanceVars, path, entries, filesLoading, filesError, selected, menu, forms, calls>>
-----------------------------------------------------------------------------
(* fetchFiles, for the directory the page had when the handler was made.   *)
Fetch(dir) ==
  /\ Len(lists) < MaxRequests
  /\ lists' = Append(lists, [path |-> dir, got |-> <<>>])
  /\ filesLoading' = TRUE /\ filesError' = FALSE

FilesArrive(i) ==
  /\ page = "files"
  /\ \/ lists[i].got # <<>> /\ entries' = lists[i].got[1] /\ UNCHANGED filesError
     \/ filesError' = TRUE /\ UNCHANGED entries
  /\ filesLoading' = FALSE
  /\ lists' = RemoveAt(lists, i)
  /\ UNCHANGED <<instanceVars, path, selected, menu, forms, calls>>

(* A click on the page; while it loads or shows an error nothing else is   *)
(* there, and what was open comes back afterwards.                         *)
ShownAs == IF filesLoading /\ entries = {} THEN "loading" ELSE IF filesError THEN "error" ELSE "files"

OnPage == /\ Move
          /\ page = "files" /\ ShownAs = "files"
          /\ UNCHANGED <<known, disk, servers, loading, listError, refreshes, connected, pushes,
                         current, storage, storageOk, events, page, setup, job>>
Uncovered == OnPage /\ dialogs = {} /\ doomed = None

GoTo(route) ==
  /\ Move
  /\ page # route /\ page' = route
  /\ setup' = None
  /\ IF route = "files"
     THEN /\ path' = <<>> /\ entries' = {} /\ filesLoading' = TRUE /\ filesError' = FALSE
          /\ lists' = <<[path |-> <<>>, got |-> <<>>]>>
          /\ selected' = None /\ menu' = None
          /\ dialogs' = {} /\ doomed' = None /\ newName' = None /\ newKind' = "folder" /\ upload' = None
     ELSE lists' = <<>> /\ UNCHANGED <<path, entries, filesLoading, filesError, selected, menu, forms>>
  /\ calls' = [i \in DOMAIN calls |-> [calls[i] EXCEPT !.live = FALSE]]
  /\ UNCHANGED <<known, disk, servers, loading, listError, refreshes, connected, pushes,
                 current, storage, storageOk, events, job>>

(* Cards, the path bar, and a click beside them.                           *)
Enter(dir) ==
  /\ Uncovered
  /\ path' = dir
  /\ \/ \E e \in entries \cup ({menu} \ {None}) : e.dir /\ e.path = dir
     \/ dir # path /\ IsPrefix(dir, path)
  /\ IF dir = path THEN UNCHANGED <<lists, filesLoading, filesError>> ELSE Fetch(dir)
  /\ selected' = None /\ menu' = None
  /\ UNCHANGED <<entries, forms, calls>>

Select(e) ==
  /\ Uncovered
  /\ selected' = e
  /\ UNCHANGED <<path, listing, menu, forms, calls>>

OpenMenu(e) ==
  /\ Uncovered
  /\ selected' = e /\ menu' = e
  /\ UNCHANGED <<path, listing, forms, calls>>

ClickBeside ==
  /\ OnPage
  /\ selected' = None /\ menu' = None
  /\ dialogs' = {} /\ doomed' = None
  /\ newName' = IF "rename" \in dialogs THEN None ELSE newName
  /\ UNCHANGED <<path, listing, newKind, upload, calls>>

CloseDialogs ==
  /\ OnPage
  /\ dialogs' = {} /\ doomed' = None
  /\ newName' = IF "rename" \in dialogs THEN None ELSE newName
  /\ UNCHANGED <<path, listing, selected, menu, newKind, upload, calls>>

(* Retry on the screen of the error, and the button of the toolbar.        *)
Reload ==
  /\ Move
  /\ page = "files"
  /\ ShownAs = "error" \/ (ShownAs = "files" /\ dialogs = {} /\ doomed = None)
  /\ Fetch(path)
  /\ UNCHANGED <<known, disk, servers, loading, listError, refreshes, connected, pushes, current,
                 storage, storageOk, events, page, setup, job, path, entries, selected, menu, forms, calls>>

(* The buttons of the toolbar and the items of the menu.                   *)
OpenNew(which) ==
  /\ Uncovered /\ current # None
  /\ dialogs' = {which}
  /\ newKind' = IF which = "new" THEN "folder" ELSE newKind
  /\ newName' = IF which = "new" THEN None ELSE newName
  /\ upload' = IF which = "upload" THEN None ELSE upload
  /\ selected' = None /\ menu' = None
  /\ UNCHANGED <<path, listing, doomed, calls>>

OpenRename ==
  /\ Uncovered /\ menu # None
  /\ newName' = NameOf(menu) /\ dialogs' = {"rename"} /\ menu' = None
  /\ UNCHANGED <<path, listing, selected, doomed, newKind, upload, calls>>

OpenPermissions ==
  /\ Uncovered /\ menu # None
  /\ dialogs' = IF selected = None THEN {} ELSE {"permissions"}
  /\ menu' = None
  /\ UNCHANGED <<path, listing, selected, doomed, newName, newKind, upload, calls>>

CopyOrCut ==
  /\ Uncovered /\ menu # None
  /\ filesError' = TRUE /\ menu' = None
  /\ UNCHANGED <<path, entries, filesLoading, lists, selected, forms, calls>>

handleDeleteEntry ==
  /\ Uncovered
  /\ doomed' \in {selected, menu} \ {None}
  /\ UNCHANGED <<path, listing, selected, menu, dialogs, newName, newKind, upload, calls>>

Type(name, kind, file) ==
  /\ OnPage /\ dialogs \cap {"new", "upload", "rename"} # {}
  /\ IF "upload" \in dialogs
     THEN upload' = [name |-> name, content |-> file] /\ UNCHANGED <<newName, newKind>>
     ELSE newName' = name /\ UNCHANGED upload
          /\ newKind' = IF "new" \in dialogs THEN kind ELSE newKind
  /\ UNCHANGED <<path, listing, selected, menu, dialogs, doomed, calls>>
-----------------------------------------------------------------------------
(* The requests: `of' says which handler waits for the answer.             *)
Call(of, verb, tail, p, name, content) ==
  [of |-> of, route |-> <<verb, tail>>, id |-> current, path |-> p, name |-> name,
   content |-> content, at |-> path, named |-> doomed, stage |-> "sent", live |-> TRUE]

Send(call) ==
  /\ OnPage /\ current # None
  /\ Len(calls) < MaxRequests
  /\ calls' = Append(calls, call)
  /\ UNCHANGED <<path, listing, selected, menu, forms>>

handleCreateNew ==
  /\ "new" \in dialogs /\ newName # None
  /\ Send(IF newKind = "folder" THEN Call("new", "POST", ":id/mkdir", Append(path, newName), None, None)
          ELSE Call("new", "POST", ":id/upload", Append(path, newName), None, ""))

handleUpload ==
  /\ "upload" \in dialogs /\ upload # None
  /\ Send(Call("upload", "POST", ":id/files/raw", Append(path, upload.name), None, upload.content))

confirmDelete ==
  /\ doomed # None
  /\ Send(Call("delete", "DELETE", ":id", doomed.path, None, None))

handleRename ==
  /\ "rename" \in dialogs /\ newName # None /\ selected # None
  /\ Send(Call("rename", "PUT", ":id/rename", selected.path, newName, None))

handleReadFile ==
  /\ dialogs = {} /\ doomed = None
  /\ menu # None /\ ~menu.dir
  /\ Send(Call("read", "GET", ":id/content", menu.path, None, None))

(* The answer: the dialog is closed and the directory fetched; an upload   *)
(* that was refused counts as done.                                        *)
Forget(call) ==
  /\ dialogs' = dialogs \ {call.of}
  /\ doomed' = IF call.of = "delete" THEN None ELSE doomed
  /\ newName' = IF call.of \in {"new", "rename"} THEN None ELSE newName
  /\ upload' = IF call.of = "upload" THEN None ELSE upload
  /\ selected' = IF call.of \in {"delete", "rename"} THEN None ELSE selected
  /\ menu' = IF call.of = "delete" THEN None ELSE menu
  /\ UNCHANGED newKind

AnswerArrives(i) ==
  /\ calls[i].live /\ page = "files"
  /\ \/ calls[i].stage = "ok" \/ (calls[i].stage = "failed" /\ calls[i].of = "upload")
  /\ IF calls[i].of = "read" THEN UNCHANGED <<listing, forms, selected, menu>>
     ELSE Forget(calls[i]) /\ Fetch(calls[i].at) /\ UNCHANGED entries
  /\ calls' = RemoveAt(calls, i)
  /\ UNCHANGED <<instanceVars, path>>

(* Refused, or lost on its way there or back.                              *)
AnswerFails(i) ==
  /\ calls[i].live /\ page = "files"
  /\ filesError' = TRUE
  /\ doomed' = IF calls[i].of = "delete" THEN None ELSE doomed
  /\ calls' = RemoveAt(calls, i)
  /\ UNCHANGED <<instanceVars, path, entries, filesLoading, lists, selected, menu, dialogs,
                 newName, newKind, upload>>

(* The page that waited is gone.                                           *)
AnswerIsLost(i) ==
  /\ ~calls[i].live
  /\ calls' = RemoveAt(calls, i)
  /\ UNCHANGED <<instanceVars, path, listing, selected, menu, forms>>
-----------------------------------------------------------------------------
Init ==
  /\ InstancesInit
  /\ path = <<>> /\ entries = {} /\ filesLoading = FALSE /\ filesError = FALSE /\ lists = <<>>
  /\ selected = None /\ menu = None
  /\ dialogs = {} /\ doomed = None /\ newName = None /\ newKind = "folder" /\ upload = None
  /\ calls = <<>>

Next ==
  \/ InstancesNext /\ UNCHANGED filesVars
  \/ \E route \in Routes : GoTo(route)
  \/ \E i \in DOMAIN lists : PanelListsFiles(i) \/ FilesArrive(i)
  \/ \E e \in entries \cup ({menu} \ {None}) : Enter(e.path)
  \/ \E e \in entries : Select(e) \/ OpenMenu(e)
  \/ \E n \in 0..(Len(path) - 1) : Enter(SubSeq(path, 1, n))
  \/ ClickBeside \/ CloseDialogs \/ Reload
  \/ \E which \in {"new", "upload"} : OpenNew(which)
  \/ OpenRename \/ OpenPermissions \/ CopyOrCut \/ handleDeleteEntry
  \/ \E name \in Names, kind \in {"folder", "file"}, file \in {"", "bytes"} : Type(name, kind, file)
  \/ handleCreateNew \/ handleUpload \/ confirmDelete \/ handleRename \/ handleReadFile
  \/ \E i \in DOMAIN calls : PanelHandles(i) \/ AnswerArrives(i) \/ AnswerFails(i) \/ AnswerIsLost(i)

Spec == Init /\ [][Next]_vars
-----------------------------------------------------------------------------
(* What the panel does for the delete dialog takes away nothing but the    *)
(* entry the dialog named ("确定要删除 <name> 吗？") and what is below it.  *)
DeletionTakesOneEntry ==
  [][\A i \in DOMAIN calls :
       calls[i].of = "delete" /\ PanelHandles(i) =>
         DOMAIN disk \ DOMAIN disk' \subseteq Below(disk, calls[i].named.path)]_vars
=============================================================================
