------------------------------ MODULE Console ------------------------------
(***************************************************************************)
(* The console of one server, seen from the panel: the bash of the server  *)
(* and the game inside it, the lines on their way through PtyManager, and  *)
(* the requests that wait for a line, for the exit of the bash or for      *)
(* their timer: save, shutdown and terminal_close of the WebSocket, and    *)
(* the plugin commands of the LDM routes, which race their waiter against  *)
(* a poll of what they collected.  One page (ConsolePage) makes some of    *)
(* them, other tabs the rest; Sessions records the terminal.               *)
(*                                                                         *)
(* Callbacks are called in the order of their registration from an array   *)
(* that is walked while those who are served take themselves out of it:    *)
(* the one behind them is passed over.  The two callbacks of ServerManager *)
(* come first and stay, so they are left out of the lists.                 *)
(***************************************************************************)
EXTENDS Sessions, ConsolePage, FiniteSets

CONSTANTS
  Requests,   \* identities of requests (recycled once answered)
  Capacity,   \* OUTPUT_BUFFER_CAPACITY, in lines somebody may wait for
  MaxInput    \* bound: commands in the input of the terminal

ASSUME ConsoleAssumption ==
  /\ {Capacity, MaxInput, MaxQueue, MaxArguments} \subseteq Nat
  /\ None \notin {"page", "ok", "shutdown", "close", "plugin", "about"}

VARIABLES
  running,    \* processes.has(id): a bash runs, or its exit is not seen yet
  killed,     \* SIGKILL was sent to it
  game,       \* the game in it: "unstarted", "loading", "ready" or "ended"
  input,      \* commands written to the terminal and not yet read
  lines,      \* outputBuffers
  onData,     \* dataCallbacks: who waits for which lines
  onExit,     \* exitCallbacks
  request,    \* [Requests -> the request of that identity]
  phase,      \* of the panel: "down", "up", or a stage of gracefulShutdown
  busy        \* bound: what a behaviour is about, "requests" or "records"

ptyVars == <<running, killed, game, input, lines, onData, onExit>>
vars == <<ptyVars, request, phase, busy, sessionVars, pageVars>>

Kinds == {"save", "shutdown", "close", "plugin", "about"}
Free  == [kind |-> None, from |-> None, stage |-> "free", live |-> FALSE,
          hit |-> None, answer |-> None]

Init ==
  /\ running = FALSE /\ killed = FALSE /\ game = "unstarted"
  /\ input = <<>> /\ lines = <<>>
  /\ onData = <<>> /\ onExit = <<>>
  /\ request = [r \in Requests |-> Free]
  /\ phase = "down"
  /\ SessionsInit /\ PageInit
  /\ busy \in {"requests", "records"} /\ (busy = "requests" => file = "missing")

(* An answer is "ok" or an error, of which there are several.              *)
Done(q, answer) == [Free EXCEPT !.from = q.from, !.stage = "answered", !.answer = answer]

(* A command of LDM answered by its poll: its waiter stays with PtyManager *)
(* until a line, the exit or its timer, and nobody listens to it any more. *)
Left(q, answer) == [Free EXCEPT !.kind = q.kind, !.stage = "left", !.answer = answer]

Callback(r, role) == [by |-> r, role |-> role]

Waits(r) == request[r].stage = "waits"
Up == phase # "down"

(* The requests and the records meet in the bash only, which comes and     *)
(* goes under both: a behaviour has the records stand still or nobody ask. *)
Record(kinds) == IF busy = "records" THEN Enqueue(kinds) ELSE UNCHANGED sessionVars
-----------------------------------------------------------------------------
(* A list without the callbacks that took themselves out.                  *)
Without(list, gone) ==
  LET left[i \in 0..Len(list)] ==
        IF i = 0 THEN <<>>
        ELSE IF list[i] \in gone THEN left[i - 1] ELSE Append(left[i - 1], list[i])
  IN left[Len(list)]

(* Who is called: each callback that is served takes itself out, and the   *)
(* walk goes on one place further, past the one behind it.                 *)
Called(list, served) ==
  LET passed[i \in 0..Len(list)] ==
        i > 1 /\ ~passed[i - 1] /\ list[i - 1] \in served
  IN {list[i] : i \in {j \in 1..Len(list) : ~passed[j]}}

(* The lines that settle a waiter of each kind: waitForMarker and the      *)
(* callback of save.  A waiter of LDM minds the case of letters and knows  *)
(* fewer words than the collector beside it: of a plugin that is "loaded"  *)
(* or "unknown" only the collector hears.                                  *)
Markers ==
  [save |-> {"saved", "ignored"}, plugin |-> {"loading", "failed"},
   about |-> {"rocket"}]

(* What a line makes of the outcome collected so far.                      *)
Hit(kind, hit, line) ==
  CASE hit # None -> hit
    [] kind = "plugin" /\ line \in {"loading", "loaded"} -> "ok"
    [] kind = "plugin" /\ line \in {"failed", "unknown"} -> "error"
    [] kind = "about" /\ line = "rocket"   -> "ok"
    [] OTHER -> hit

Settling(c, line) == c.role = "waits" /\ line \in Markers[request[c.by].kind]

AnswerTo(line) == IF line = "saved" THEN "ok" ELSE "error"

(* One line goes to everybody: state is [req, data, exit], the requests    *)
(* and the two lists of callbacks.                                         *)
Hear(state, line) ==
  LET called  == Called(state.data, {c \in Range(state.data) : Settling(c, line)})
      settled == {c \in called : Settling(c, line)}
      done    == {c.by : c \in settled}
      heard   == {c.by : c \in {d \in called : d.role = "collects"}}
  IN [req  |-> [r \in Requests |->
                 LET q == state.req[r]
                 IN CASE r \in done /\ q.stage = "left" -> Free
                      [] r \in done /\ q.kind = "save" /\ q.stage = "waits" ->
                           Done(q, AnswerTo(line))
                      [] r \in heard \cup done /\ q.kind # "save" /\ q.stage # "left" ->
                           [q EXCEPT !.hit = IF r \in heard THEN Hit(q.kind, @, line) ELSE @,
                                     !.stage = IF r \in done /\ @ = "waits" THEN "settled" ELSE @]
                      [] OTHER -> q],
      data |-> Without(state.data, settled),
      exit |-> Without(state.exit, done)]

(* The lines, one after another.                                           *)
HearAll(state, seq) ==
  LET heard[n \in 0..Len(seq)] ==
        IF n = 0 THEN state ELSE Hear(heard[n - 1], seq[n])
  IN heard[Len(seq)]

(* What the promise of a command of LDM becomes when its waiter settled:   *)
(* the outcome the other callback has collected, and an error if that is   *)
(* nothing.                                                                *)
Resumed(req) ==
  [r \in Requests |->
     IF req[r].stage = "settled"
     THEN Done(req[r], IF req[r].hit = None THEN "error" ELSE req[r].hit)
     ELSE req[r]]

(* flushOutputBuffer: the lines one after another; then, as microtasks,    *)
(* the handlers go on and take their collectors out.                       *)
Callbacks == [req |-> request, data |-> onData, exit |-> onExit]
Heard     == HearAll(Callbacks, lines)

Collected(req, list) ==
  {c \in Range(list) : c.role = "collects" /\ req[c.by].stage # "waits"}
-----------------------------------------------------------------------------
(* The bash and the game.                                                  *)
StartBash ==
  /\ Up /\ ~running
  /\ running' = TRUE /\ killed' = FALSE /\ game' = "unstarted"
  /\ Record(<<"save">>)
  /\ UNCHANGED <<input, lines, onData, onExit, request, phase, pageVars>>

(* The start timer or the user enters the start command.                   *)
StartGame ==
  /\ running /\ ~killed /\ game \in {"unstarted", "ended"} /\ busy = "requests"
  /\ game' = "loading"
  /\ UNCHANGED <<running, killed, input, lines, onData, onExit, request, phase,
                 sessionVars, pageVars>>

(* The data event: a line goes into the ring.  Lines nobody waits for are  *)
(* not kept here, but enough of them push out the others.                  *)
(* Mutant: the ring is an array that grows.                                *)
PushAll(line) == Append(lines, line)
Push(line) == LET s == Append(lines, line)
              IN IF Len(s) > Capacity THEN Tail(s) ELSE s

Prints(line) == IF line = "other" THEN lines' \in {lines, <<>>} ELSE lines' = Push(line)

GameLoads ==
  /\ game = "loading" /\ ~killed
  /\ game' = "ready"
  /\ Prints("other")
  /\ UNCHANGED <<running, killed, input, onData, onExit, request, phase, sessionVars, pageVars>>

GameEnds ==
  /\ game \in {"loading", "ready"}
  /\ game' = "ended"
  /\ UNCHANGED <<running, killed, input, lines, onData, onExit, request, phase,
                 sessionVars, pageVars>>

Replies(command) ==
  CASE command = "Save"    -> IF game = "ready" THEN {"saved"} ELSE {"ignored"}
    [] command = "plugin"  -> {"loading", "failed", "loaded", "unknown"}
    [] command = "about"   -> {"rocket"}
    [] OTHER               -> {"other"}

GameReads ==
  /\ game \in {"loading", "ready"} /\ ~killed /\ input # <<>>
  /\ input' = Tail(input)
  /\ \E line \in Replies(Head(input)) : Prints(line)
  /\ game' = IF Head(input) = "Shutdown" THEN "ended" ELSE game
  /\ UNCHANGED <<running, killed, onData, onExit, request, phase, sessionVars, pageVars>>

(* Without the game the bash reads them, and answers with other lines.     *)
BashReads ==
  /\ running /\ ~killed /\ game \in {"unstarted", "ended"} /\ input # <<>>
  /\ input' = Tail(input)
  /\ Prints("other")
  /\ UNCHANGED <<running, killed, game, onData, onExit, request, phase, sessionVars, pageVars>>

(* terminal_input: raw keys of a terminal, and commands of the line.  What *)
(* is not Save, Shutdown or a command of LDM nobody waits for.             *)
Write(commands) == Len(input) + Len(commands) <= MaxInput /\ input' = input \o commands

TypeInTerminal ==
  /\ Up /\ running /\ busy = "requests"
  /\ Write(<<"Save">>)
  /\ UNCHANGED <<running, killed, game, lines, onData, onExit, request, phase,
                 sessionVars, pageVars>>

FlushLines ==
  /\ lines # <<>>
  /\ lines' = <<>>
  /\ request' = Resumed(Heard.req)
  /\ onData' = Without(Heard.data, Collected(request', Heard.data))
  /\ onExit' = Heard.exit
  /\ UNCHANGED <<running, killed, game, input, phase, sessionVars, pageVars>>

(* flushChunkBuffer: to the terminals, and the record is touched; within   *)
(* five seconds of the last time it is not.                                *)
FlushChunks ==
  /\ running /\ ~killed /\ busy = "records"
  /\ Record(<<"touch">>)
  /\ UNCHANGED <<ptyVars, request, phase, pageVars>>

(* The exit event.  A line that is not ended yet goes to the callbacks;    *)
(* the exit callbacks are called, those who are served taking themselves   *)
(* out; then the lines that are left go to whoever is still there; the     *)
(* lists are dropped, and with them those who were passed over.  Who waits *)
(* for the process itself hears of it last.                                *)
Tails ==
  {<<>>} \cup (IF game \in {"loading", "ready"} /\ input # <<>>
              THEN {<<line>> : line \in Replies(Head(input))} ELSE {})

Exited(before) ==
  LET called   == Called(before.exit, Range(before.exit))
      rejected == [r \in Requests |->
                    CASE r \in called /\ before.req[r].stage = "waits" ->
                           Done(before.req[r], "error")
                      [] r \in called /\ before.req[r].stage = "left" -> Free
                      [] OTHER -> before.req[r]]
      left     == Without(before.data, {Callback(r, "waits") : r \in called})
      after    == HearAll([req |-> rejected, data |-> left, exit |-> <<>>], lines)
      hears    == {r \in Requests : after.req[r].kind \in {"shutdown", "close"}}
  IN [after EXCEPT !.req = [r \in Requests |->
        IF r \in hears THEN Done(after.req[r], "ok") ELSE [after.req[r] EXCEPT !.live = FALSE]]]

BashIsGone ==
  /\ running' = FALSE /\ killed' = FALSE /\ game' = "unstarted"
  /\ lines' = <<>> /\ input' = <<>>
  /\ Record(<<"deactivate">>)
  /\ UNCHANGED <<phase, pageVars>>

(* Mutant: the lists are kept for the next bash.                           *)
BashExitKeepsCallbacks ==
  /\ running
  /\ BashIsGone
  /\ \E tail \in Tails :
       LET after == Exited(HearAll(Callbacks, tail))
       IN /\ request' = Resumed(after.req)
          /\ onData' = Without(after.data, Collected(request', after.data))
          /\ onExit' = Without(onExit, {r \in Requests : request'[r].stage # "waits"})
BashExit ==
  /\ running
  /\ BashIsGone
  /\ \E tail \in Tails :
       request' = Resumed(Exited(HearAll(Callbacks, tail)).req)
  /\ onData' = <<>> /\ onExit' = <<>>

(* forceKill: by stop, forceStop, the end of kill and destroy.             *)
Killing == killed' = TRUE /\ lines' = <<>>

ForceKill ==
  /\ Up /\ running /\ Killing
  /\ UNCHANGED <<running, game, input, onData, onExit, request, phase, sessionVars, pageVars>>
-----------------------------------------------------------------------------
(* Requests.                                                               *)
Asks(r, kind, from) ==
  request' = [request EXCEPT ![r] =
    [Free EXCEPT !.kind = kind, !.from = from, !.stage = "waits",
                 !.live = kind \notin {"shutdown", "close"}]]

AnswerAtOnce(r, from, answer) ==
  /\ request' = [request EXCEPT ![r] = Done([Free EXCEPT !.from = from], answer)]
  /\ UNCHANGED <<input, onData, onExit>>

(* The handlers of save, shutdown and terminal_close up to their await.    *)
HandleSave(r, from) ==
  IF ~running THEN AnswerAtOnce(r, from, "error")
  ELSE /\ Write(<<"Save">>)
       /\ onData' = Append(onData, Callback(r, "waits"))
       /\ onExit' = Append(onExit, r)
       /\ Asks(r, "save", from)

HandleShutdown(r, from) ==
  IF ~running THEN AnswerAtOnce(r, from, "error")
  ELSE /\ Write(<<"Save", "Shutdown">>)
       /\ Asks(r, "shutdown", from)
       /\ UNCHANGED <<onData, onExit>>

(* kill: an interactive bash ignores SIGTERM, so the exit may never come.  *)
HandleClose(r) ==
  IF ~running THEN AnswerAtOnce(r, "other", "ok")
  ELSE Asks(r, "close", "other") /\ UNCHANGED <<input, onData, onExit>>

(* run, under the lock of the server, and runMarkerless: the collector is  *)
(* there before the command is written, the waiter after it.               *)
PluginBusy == \E r \in Requests : request[r].kind = "plugin" /\ Waits(r)

HandlePlugin(r, kind) ==
  IF kind = "plugin" /\ PluginBusy THEN AnswerAtOnce(r, "other", "error")
  ELSE IF ~running \/ game = "unstarted" THEN AnswerAtOnce(r, "other", "error")
  ELSE /\ Write(<<kind>>)
       /\ onData' = onData \o <<Callback(r, "collects"), Callback(r, "waits")>>
       /\ onExit' = Append(onExit, r)
       /\ Asks(r, kind, "other")

Quiet == UNCHANGED <<running, killed, game, lines, phase, sessionVars>>

OtherAsks(r) ==
  /\ phase = "up" /\ request[r] = Free /\ Quiet
  /\ \/ HandleSave(r, "other")
     \/ HandleShutdown(r, "other")
     \/ HandleClose(r)
     \/ \E kind \in {"plugin", "about"} : HandlePlugin(r, kind)
  /\ UNCHANGED pageVars

(* The page.                                                               *)
PressSave(r) ==
  /\ phase = "up" /\ request[r] = Free /\ Quiet
  /\ pending = None /\ ~DialogShown
  /\ RunAck("save")
  /\ HandleSave(r, "page")
  /\ UNCHANGED <<confirm, asking>>

ConfirmShutdown(r) ==
  /\ phase = "up" /\ request[r] = Free /\ Quiet
  /\ asking /\ asking' = FALSE
  /\ RunAck("shutdown")
  /\ HandleShutdown(r, "page")
  /\ UNCHANGED confirm

(* handleSend: asked about, made a request, or typed into the terminal.    *)
HandleSend ==
  /\ phase = "up"
  /\ \E c \in Handed :
       \/ AskAbout(c) /\ UNCHANGED <<input, onData, onExit, request>>
       \/ /\ Through(c) /\ c.name = "shutdown"
          /\ RunAck("shutdown") /\ UNCHANGED asking
          /\ \E r \in Requests : request[r] = Free /\ HandleShutdown(r, "page")
       \/ /\ Through(c) /\ c.name # "shutdown"
          /\ UNCHANGED <<asking, pending, input, onData, onExit, request>>
  /\ Quiet

PageStep ==
  /\ (\E w \in Presets : PressPreset(w)) \/ Cancel \/ PressShutdown
  /\ UNCHANGED <<ptyVars, request, phase, sessionVars>>

(* The answer goes to who asked, and the request is forgotten.             *)
Answer(r) ==
  /\ request[r].stage = "answered"
  /\ request' = [request EXCEPT ![r] = Free]
  /\ IF request[r].from = "page" THEN AckSettles ELSE UNCHANGED pageVars
  /\ UNCHANGED <<ptyVars, phase, sessionVars>>

(* The local timeout of the page: nobody hears the answer any more.        *)
(* Mutant: it forgets the request and leaves the buttons as they are.      *)
PageTimesOutQuietly(r) ==
  /\ request[r].from = "page"
  /\ request' = [request EXCEPT ![r].from = "other"]
  /\ UNCHANGED <<ptyVars, phase, sessionVars, pageVars>>
PageTimesOut(r) ==
  /\ request[r].from = "page"
  /\ request' = [request EXCEPT ![r].from = "other"]
  /\ AckSettles
  /\ UNCHANGED <<ptyVars, phase, sessionVars>>

Unsubscribed(r) ==
  /\ onData' = Without(onData, {Callback(r, "waits"), Callback(r, "collects")})
  /\ onExit' = Without(onExit, {r})

(* pollForMarker looks at the outcome every 50 ms, whatever has become of  *)
(* the bash; the handler goes on and takes its collector out.  The poll    *)
(* gives up after the 10 s the waiter has as well, with the same error:    *)
(* that is TimerFires.                                                     *)
PollHits(r) ==
  /\ Waits(r) /\ request[r].kind \in {"plugin", "about"} /\ request[r].hit # None
  /\ request' = [request EXCEPT ![r] = Left(@, @.hit)]
  /\ onData' = Without(onData, {Callback(r, "collects")})
  /\ UNCHANGED <<running, killed, game, input, lines, onExit, phase, sessionVars, pageVars>>

(* The timers: 30 s of save, the countdown and 30 s of shutdown, 5 s of    *)
(* kill, which then sends SIGKILL, and 10 s of the commands of LDM.        *)
TimerOfLeft(r) ==
  /\ request[r].stage = "left"
  /\ request' = [request EXCEPT ![r] = Free]
  /\ Unsubscribed(r)
  /\ UNCHANGED <<running, killed, game, input, lines, phase, sessionVars, pageVars>>

TimerFires(r) ==
  /\ Waits(r)
  /\ request' = [request EXCEPT ![r] =
                   Done(@, IF request[r].kind = "close" THEN "ok" ELSE "error")]
  /\ IF request[r].kind = "close" THEN Killing ELSE UNCHANGED <<killed, lines>>
  /\ Unsubscribed(r)
  /\ UNCHANGED <<running, game, input, phase, sessionVars, pageVars>>
-----------------------------------------------------------------------------
(* The panel starts, ends and dies; the records of the terminal.           *)
Boot ==
  /\ phase = "down"
  /\ phase' = "up"
  /\ Initialize
  /\ UNCHANGED <<ptyVars, request, pageVars>>

(* gracefulShutdown: the record is marked, and the write waited for.       *)
Signal ==
  /\ phase = "up"
  /\ phase' = "marking"
  /\ IF record = "active" THEN Record(<<"mark">>) ELSE UNCHANGED sessionVars
  /\ UNCHANGED <<ptyVars, request, pageVars>>

Marked == "mark" \notin Range(mutations) \cup {writes[i].by : i \in DOMAIN writes}

(* Every socket is closed; the page hears of it.                           *)
CloseSockets ==
  /\ phase = "marking" /\ Marked
  /\ phase' = "closing"
  /\ request' = [r \in Requests |->
                   [request[r] EXCEPT !.from = IF @ = "page" THEN "other" ELSE @]]
  /\ AckSettles
  /\ UNCHANGED <<ptyVars, sessionVars>>

(* destroy: SIGKILL for what runs, and a tenth of a second later the end.  *)
DestroyTerminals ==
  /\ phase = "closing"
  /\ phase' = "killed"
  /\ IF running THEN Killing ELSE UNCHANGED <<killed, lines>>
  /\ UNCHANGED <<running, game, input, onData, onExit, request, sessionVars, pageVars>>

(* The process is gone, and every bash with it: at the end of the          *)
(* shutdown, after its 30 s, by a crash, and because nobody handles the    *)
(* rejection of saveSession.                                               *)
PanelEnds ==
  /\ Up
  /\ phase' = "down"
  /\ running' = FALSE /\ killed' = FALSE /\ game' = "unstarted"
  /\ input' = <<>> /\ lines' = <<>>
  /\ onData' = <<>> /\ onExit' = <<>>
  /\ request' = [r \in Requests |-> Free]
  /\ AckSettles
  /\ SessionsDie

SessionStep ==
  /\ Up /\ busy = "records"
  /\ \/ BeginMutation
     \/ \E i \in DOMAIN writes : WriteEnds(i) \/ WriteFails(i)
     \/ Enqueue(<<"cleanup">>)
     \/ ~running /\ Enqueue(<<"remove">>)
  /\ UNCHANGED <<ptyVars, request, phase, pageVars>>
-----------------------------------------------------------------------------
TerminalStep ==
  \/ StartBash \/ StartGame \/ GameLoads \/ GameEnds \/ GameReads \/ BashReads
  \/ TypeInTerminal \/ FlushLines \/ FlushChunks \/ BashExit \/ ForceKill

RequestStep(r) ==
  \/ OtherAsks(r) \/ PressSave(r) \/ ConfirmShutdown(r)
  \/ Answer(r) \/ PageTimesOut(r) \/ TimerFires(r)
  \/ PollHits(r) \/ TimerOfLeft(r)

PanelStep == Boot \/ Signal \/ CloseSockets \/ DestroyTerminals \/ PanelEnds

Next ==
  /\ \/ TerminalStep
     \/ busy = "requests" /\ ((\E r \in Requests : RequestStep(r)) \/ HandleSend \/ PageStep)
     \/ PanelStep \/ SessionStep
  /\ UNCHANGED busy

Spec == Init /\ [][Next]_vars
-----------------------------------------------------------------------------
Lines     == {"saved", "ignored", "loading", "loaded", "failed", "unknown", "rocket", "other"}
Commands  == {"Save", "Shutdown", "plugin", "about"}
Listeners == [by : Requests, role : {"waits", "collects"}]

RequestsAt(stages) ==
  [kind : Kinds \cup {None}, from : {"page", "other", None}, stage : stages,
   live : BOOLEAN, hit : {"ok", "error", None}, answer : {"ok", "error", None}]

AtRest ==
  RequestsAt({"free", "waits", "answered"}) \cup
  [kind : {"plugin", "about"}, from : {None}, stage : {"left"}, live : {FALSE},
   hit : {None}, answer : {"ok", "error"}]

(* The types, that the ring, the input and the queue keep their bounds and *)
(* that no settled command of LDM is left without its handler: every       *)
(* request is free, waits, is answered, or was answered by its poll.       *)
TypeOK ==
  /\ SessionsTypeOK /\ PageTypeOK
  /\ {running, killed} \subseteq BOOLEAN
  /\ game \in {"unstarted", "loading", "ready", "ended"}
  /\ lines \in Seq(Lines) /\ Len(lines) <= Capacity
  /\ input \in Seq(Commands) /\ Len(input) <= MaxInput
  /\ onData \in Seq(Listeners) /\ onExit \in Seq(Requests)
  /\ phase \in {"down", "up", "marking", "closing", "killed"}
  /\ request \in [Requests -> AtRest]

(* What an "ok" says is so: a save was reported by the bash the request    *)
(* was made to, not by one started later, and so was the outcome of a      *)
(* command of LDM, which is collected while that bash lives although its   *)
(* poll may answer up to 50 ms after the exit; a terminal that is closed   *)
(* and a server that is shut down have no bash any more, or a killed one.  *)
ToldTheTruth(r) ==
  IF request[r].kind \in {"shutdown", "close"} THEN killed' \/ ~running'
  ELSE request[r].live \/ request[r].hit = "ok"

AnswersAreTrue ==
  [][\A r \in Requests : Waits(r) =>
       IF request'[r].stage = "waits"
       THEN request'[r].hit # request[r].hit => request[r].live
       ELSE request'[r].answer = "ok" => ToldTheTruth(r)]_vars

(* terminal-sessions.json says what the panel remembers once nothing is    *)
(* under way, in whatever order saves, exits, touches, removals and        *)
(* expiries came, unless the disk refused the last write.                  *)
RecordIsKept == Up => FileIsRecord

(* The buttons are disabled only while a request of the page is under way: *)
(* the answer, the local timeout or the end of the socket enables them     *)
(* again, whatever becomes of the terminal.                                *)
ButtonsComeBack == pending # None => \E r \in Requests : request[r].from = "page"
=============================================================================
