------------------------------ MODULE ModsPage ------------------------------
(***************************************************************************)
(* The page on which mods of the workshop are found and downloaded: one    *)
(* operator per handler.  A download is shown from the click until a       *)
(* "completed" or "failed" of its file arrives through the WebSocket; all  *)
(* downloads of an installation have the same job id, so an event is told  *)
(* from another by the file it names, if it names one.                     *)
(***************************************************************************)
EXTENDS Naturals, Sequences, FiniteSets, TLC

CONSTANTS JobId, NoFile

Event(stage, file, percent) == [stage |-> stage, currentFileId |-> file, percent |-> percent]
Ends == {"completed", "failed"}

(* downloading: file -> "pending" or the job id; progress: file -> event;  *)
(* handled: the keys of the events that had an effect; downloaded is what  *)
(* the last answer of the panel listed, and asked that a new one was asked *)
(* for.                                                                    *)
Opened(downloaded) ==
  [downloading |-> <<>>, progress |-> <<>>, handled |-> {},
   downloaded |-> downloaded, asked |-> TRUE]

With(f, k, v)  == (k :> v) @@ f
Without(f, k)  == [x \in DOMAIN f \ {k} |-> f[x]]
-----------------------------------------------------------------------------
(* handleDownload, before and after its await.                             *)
MayDownload(page, file) == file \notin DOMAIN page.downloading \cup page.downloaded

Download(page, file) == [page EXCEPT !.downloading = With(@, file, "pending")]

DownloadAnswered(page, file) ==
  [page EXCEPT !.downloading = With(@, file, JobId)]

DownloadRefused(page, file) ==
  [page EXCEPT !.downloading = Without(@, file)]

DownloadedArrives(page, downloaded) ==
  [page EXCEPT !.downloaded = downloaded, !.asked = FALSE]
-----------------------------------------------------------------------------
(* The effect that takes the newest event.  The file is the one it names,  *)
(* or the only one that is downloading under the job id.                   *)
OfJob(page) == {f \in DOMAIN page.downloading : page.downloading[f] = JobId}

Target(page, e) ==
  IF e.currentFileId # NoFile THEN e.currentFileId
  ELSE IF Cardinality(OfJob(page)) = 1 THEN CHOOSE f \in OfJob(page) : TRUE ELSE NoFile

DedupKey(e) == <<e.currentFileId, e.stage>>

Ended(page, e, file) ==
  [page EXCEPT !.downloading = Without(@, file), !.progress = Without(@, file),
               !.asked = @ \/ e.stage = "completed"]

Shown(page, e, file) == [page EXCEPT !.progress = With(@, file, e)]

HandleProgress(page, e) ==
  LET seen == [page EXCEPT !.handled = @ \cup {DedupKey(e)}]
      file == Target(page, e)
  IN IF DedupKey(e) \in page.handled THEN page
     ELSE IF file = NoFile THEN seen
     ELSE IF e.stage \in Ends THEN Ended(seen, e, file) ELSE Shown(seen, e, file)

(* What the card of a mod offers.                                          *)
ButtonEnabled(page, file) == MayDownload(page, file)
-----------------------------------------------------------------------------
(* The filters: what is asked of the workshop.                             *)
FirstFilter == [query |-> "", sort |-> "popular", range |-> "week", page |-> 1, pageSize |-> 12]

TriggerSearch(f, q) == [f EXCEPT !.query = q, !.sort = "relevance", !.page = 1]

SearchClick(f, q) ==
  [f EXCEPT !.query = q, !.sort = IF q = "" THEN "popular" ELSE "relevance",
            !.range = IF q = "" THEN "week" ELSE @, !.page = 1]

SortChange(f, next) ==
  [f EXCEPT !.sort = next, !.page = 1, !.range = IF next = "popular" THEN @ ELSE "all"]

RangeChange(f, next)    == [f EXCEPT !.range = next, !.page = 1]
PageSizeChange(f, next) == [f EXCEPT !.pageSize = next, !.page = 1]

TotalPages(f, total) ==
  IF total = 0 THEN 1 ELSE (total + f.pageSize - 1) \div f.pageSize

(* The buttons of the pagination bar.                                      *)
Turns(f, total) ==
  (IF f.page > 1 THEN {[f EXCEPT !.page = @ - 1]} ELSE {})
    \cup (IF f.page < TotalPages(f, total) THEN {[f EXCEPT !.page = @ + 1]} ELSE {})

(* The rows "from - to" that the bar says are shown.                       *)
RowsShown(f, total) ==
  [from |-> IF total = 0 THEN 0 ELSE (f.page - 1) * f.pageSize + 1,
   to   |-> IF f.page * f.pageSize < total THEN f.page * f.pageSize ELSE total]
=============================================================================
