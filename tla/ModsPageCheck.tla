---------------------------- MODULE ModsPageCheck ----------------------------
(***************************************************************************)
(* ModsPage with a panel that downloads one file after the other: every    *)
(* interleaving of clicks, answers and events, up to a bound.              *)
(***************************************************************************)
EXTENDS Naturals, Sequences, FiniteSets

W == INSTANCE ModsPage WITH JobId <- "job", NoFile <- ""

Files == {"f", "g"}

(* What the panel broadcasts of one download: the file is named at its     *)
(* queueing and its end, but not when the spawn failed, and nothing is     *)
(* broadcast when its directory or script could not be written.            *)
Scripts(f) ==
  {<<W!Event("queued", f, 0), W!Event("downloading", f, 10), W!Event("downloading", f, 50),
     W!Event("completed", f, 100)>>,
   <<W!Event("queued", f, 0), W!Event("failed", f, 0)>>,
   <<W!Event("failed", "", 0)>>, <<>>}

(* The page, the requests without answer, the events on their way, the     *)
(* files the panel has; and, as history, how often a file was clicked and  *)
(* which ends came before the answer of their request.  Bound: one request *)
(* of a file at a time, two clicks.                                        *)
World == [page |-> W!Opened({}), posts |-> {}, events |-> <<>>, disk |-> {},
          clicks |-> [f \in Files |-> 0], early |-> {}, silent |-> {}]

Click(w, f) ==
  {[w EXCEPT !.page = W!Download(@, f), !.posts = @ \cup {f}, !.events = @ \o script,
             !.clicks[f] = @ + 1,
             !.silent = IF \E i \in DOMAIN script : script[i] = W!Event("completed", f, 100)
                                                   \/ script[i] = W!Event("failed", f, 0)
                        THEN @ ELSE @ \cup {f}] :
     script \in IF W!ButtonEnabled(w.page, f) /\ f \notin w.posts /\ w.clicks["f"] + w.clicks["g"] < 2
                THEN Scripts(f) ELSE {}}

Answer(w, f) ==
  IF f \notin w.posts THEN {}
  ELSE {[w EXCEPT !.page = answer, !.posts = @ \ {f}] :
          answer \in {W!DownloadAnswered(w.page, f), W!DownloadRefused(w.page, f)}}

Deliver(w) ==
  IF w.events = <<>> THEN {}
  ELSE LET e == Head(w.events)
       IN {[w EXCEPT !.page = W!HandleProgress(@, e), !.events = Tail(@),
                     !.disk = IF e.stage = "completed" THEN @ \cup {e.currentFileId} ELSE @,
                     !.early = IF e.stage \in W!Ends /\ e.currentFileId \in w.posts
                               THEN @ \cup {e.currentFileId} ELSE @]}

Listed(w) ==
  IF w.page.asked THEN {[w EXCEPT !.page = W!DownloadedArrives(@, w.disk)]} ELSE {}

Steps(w) == Deliver(w) \cup Listed(w) \cup UNION {Click(w, f) \cup Answer(w, f) : f \in Files}

Worlds ==
  LET upTo[n \in 0..14] ==
        IF n = 0 THEN [all |-> {World}, new |-> {World}]
        ELSE LET before == upTo[n - 1]
                 next   == UNION {Steps(w) : w \in before.new} \ before.all
             IN [all |-> before.all \cup next, new |-> next]
  IN upTo[14].all

AtRest(w) == w.posts = {} /\ w.events = <<>> /\ ~w.page.asked
Stuck(w)  == DOMAIN w.page.downloading

(* "Cleared at completed or failed" holds for a file that is downloaded    *)
(* once, whose answer comes before its end and whose end names it; what    *)
(* stays for good is one of the other cases.                               *)
ASSUME DownloadsAreCleared ==
  \A w \in Worlds : AtRest(w) =>
    \A f \in Stuck(w) : f \in w.early \cup w.silent \/ w.clicks[f] > 1

(* Each of the other cases does leave a button that is disabled for good:  *)
(* the same file failing a second time, an end that overtakes the answer,  *)
(* an end without the file while two files download.                       *)
ASSUME SomeStayForGood ==
  /\ \E w \in Worlds : AtRest(w) /\ \E f \in Stuck(w) :
       w.clicks[f] = 2 /\ w.early \cup w.silent = {}
  /\ \E w \in Worlds : AtRest(w) /\ \E f \in Stuck(w) \cap w.early : w.clicks[f] = 1
  /\ \E w \in Worlds : AtRest(w) /\ \E f \in Stuck(w) \cap w.silent : w.clicks[f] = 1

(* The page never says of a file that is not there that it is downloaded,  *)
(* and when all is quiet it says so of every file that is.                 *)
ASSUME ListFollowsDisk ==
  \A w \in Worlds : /\ w.page.downloaded \subseteq w.disk
                    /\ AtRest(w) => w.page.downloaded = w.disk

(* The bar of a file stays at the first number of a stage: the events that *)
(* follow with the same stage have no effect.                              *)
ASSUME BarStandsStill ==
  \A w \in Worlds : \A f \in DOMAIN w.page.progress :
    w.page.progress[f].stage = "downloading" => w.page.progress[f].percent = 10
-----------------------------------------------------------------------------
Filters(total) ==
  LET next(f) == W!Turns(f, total)
                 \cup {W!TriggerSearch(f, "q"), W!SearchClick(f, ""), W!SearchClick(f, "q"),
                       W!SortChange(f, "rated"), W!SortChange(f, "popular"),
                       W!RangeChange(f, "day"), W!PageSizeChange(f, 48)}
      upTo[n \in 0..4] == IF n = 0 THEN {W!FirstFilter}
                          ELSE LET before == upTo[n - 1]
                               IN before \cup UNION {next(f) : f \in before}
  IN upTo[4]

(* As long as the workshop has as many mods as before, the page that is    *)
(* asked for exists, whatever was filtered and turned, and the bar says a  *)
(* range that is not empty.                                                *)
ASSUME PageExists ==
  \A total \in {0, 1, 12, 13, 30} : \A f \in Filters(total) :
    /\ f.page \in 1..W!TotalPages(f, total)
    /\ total > 0 => W!RowsShown(f, total).from <= W!RowsShown(f, total).to
=============================================================================
