# unturned-manager: specifications and proofs

TLA+ models of unturned-manager, a web panel that runs Unturned dedicated servers
on one Linux machine, its server and the pages of its client: TLC configurations
that check them on small instances, and TLAPS proofs of the safety properties of
the server's core, of the connection and of the console for every instance. Paths are relative to the root of the repository;
`manager-server/src/modules/` is written `modules/`.

## 1. The system

A panel is one Node.js process: Express routes (`routes/`), a WebSocket gateway
(`ws/gateway.ts`), services wired in `composition-root.ts`, and a React client
(`manager-web/`). Everything runs on one event loop, so a function is atomic
between two `await`s; everything else interleaves: the continuations of requests,
timers, exits and output of child processes. Nothing but the file system,
`sessions.json` and a small SQLite database survives the process.

| Component | State | Operations | Hard behaviour |
|---|---|---|---|
| ServerManager (`modules/server`) | `servers`: per instance state, activeOperation, stopRequested, sessionEpoch, terminal id and pid | create, configure, delete, start, stop, restart, apply (LDM, mod, configuration), forceStop; crash restart after 5 s; start-command timer after 3 s (comments of the code still say 1 s) | operations hold a flag over many awaits; timers outlive what armed them; an exit is a stop or a crash; delete and create while operations run |
| PtyManager (`modules/process`) | `ptys`, output buffers, callbacks | spawn, write, kill, forceKill, waitExit | exit callbacks run before the last lines are flushed; SIGTERM then SIGKILL |
| SteamCmdManager (`modules/steamcmd`) | `activeJobs` (locked directories), `downloadQueue` (promise chains) | install, update, download, check for updates, reinstall | fire-and-forget coroutines, a chain of promises with failures, children that never end |
| ProcessSupervisor (`modules/process`) | `processes`, callbacks | spawn, waitForExit, shutdown | children keyed by a job id that jobs share |
| ConfigService, FileLockProvider | files and backups; lock registry | read and write Commands.dat, Config.txt, WorkshopDownloadConfig.json; backup, rollback | check before the lock, polling, crash between backup and rename |
| AtomicFileWriter, LDM services | files and backups | write, prune backups; discover, configure, apply LDM | in-place rollback; same lock, other writer |
| Workshop services | acf, content, staging, File_IDs | list (and register), delete, apply staged, download | read-modify-write without a lock; several steps of which one fails; crash in between |
| SessionManager | `sessions.json` and its copy in memory | save, activate, touch, remove, expire | FIFO of mutations; memory ahead of the file |
| WsBroadcaster and WebSocketContext | subscriptions, line buffers; requests in flight, timers | subscribe, broadcast, request and ack; reconnect | acks against timeouts and reconnections |
| console page, plugin commands of LDM | the line buffers and callbacks of a terminal, `pendingAction`, dialogs | save, shutdown, close, run a command and wait for its line | who hears which line; answers about another bash; buttons that stay disabled |
| configuration page | what was loaded for each of three tabs, of whatever server | load, edit, save, delete a mod | loads that overtake one another; what the form does not show must survive a save |
| LDM configuration | four XML files | read fields, merge fields into the file | a parser and a serializer that must agree |
| files page, instance list | listing, dialogs, the selected instance shared by tabs | list, upload, rename, delete; select, create, remove | late answers, pushes against refreshes, which router answers |
| mods page | downloads shown, progress, filters | download, search, turn pages | answers, events and listings in any order |
| start script, discovery | the saved start command, Servers/ | normalise, detect, scan | the same command after every start and restart |
| AuthService, api/client, AuthContext | refresh tokens, token copies | login, refresh, logout | rotation raced by several callers |
| IncidentsService, MetricsService, LogStreamer | bounded rings | record, sample, stream | the bound |
| FilesService, discovery, status, settings, items | the disk, a key-value table | list, read, write | none of their own beyond the shared lock |

How they interact. Routes call ServerManager; ServerManager calls PtyManager and
is called back on output and exit, calls SessionManager and IncidentsService on
transitions, and WorkshopApplyService before a start. `mods` routes call
SteamCmdManager and the Workshop services, which call ConfigService.
SteamCmdManager spawns through ProcessSupervisor. ConfigService, FilesService and
AtomicFileWriter share one FileLockProvider. All of them broadcast through the
gateway, which carries terminal input, close, save and shutdown back.

What makes each correct, in a sentence:

- ServerManager: operations on an instance exclude each other and end; what the
  panel shows of state, terminal and session is what the bash does; a timer acts
  on the bash it was armed for; a stop the panel asked for is no crash.
- SteamCmdManager: no two jobs in one directory; downloads in order, none lost or
  blocked by another's failure; each job judged by the exit of its own child.
- Files: a file is always one complete version, writers of one file exclude each
  other, a conflict is found or the last writer wins knowingly, a backup exists
  of what was replaced.
- Mods: files of a mod are somewhere until it is deleted; acf, content and
  File_IDs agree at rest.
- Sessions: memory and disk agree; a restart starts from the truth.
- Connection: every request is answered once, by its own ack, a timeout or a close.
- Console: an "ok" is about the bash that was asked; a page gets its buttons back.
- Configuration: a save changes what the user changed; what is read and put back
  is the same file.
- Files: a deletion takes the entry it names.

`PROJECT.json` lists the components with what is modelled of each, the hazards
with their lines, the mapping from definitions to lines, and the mutants.

## 2. Modules

| Module | Models |
|---|---|
| `PtyManager` | the bash of the instance: spawn, kill, exit, buffered lines (`modules/process/PtyManager.ts`) |
| `ServerManager` | EXTENDS PtyManager; every operation, timer and callback of `modules/server/ServerManager.ts`, the session record and the last incident |
| `OperationLock` | abstract: what activeOperation promises |
| `MCServerManager` | instances for TLC |
| `ServerManager_proofs`, `BashLifetime_proofs` | theorems of ServerManager |
| `DownloadQueue` | abstract: a FIFO per staging directory |
| `SteamCmd` | jobs of SteamCmdManager and children of ProcessSupervisor |
| `MCSteamCmd` | instance for TLC |
| `SteamCmd_proofs` | theorems of SteamCmd |
| `ConfigFiles` | the writers of files (ConfigService and its rollback for deleteMod, FilesService, AtomicFileWriter, the raw upload) and FileLockProvider |
| `MCConfigFiles` | instances for TLC |
| `ConfigFiles_proofs` | theorems of ConfigFiles |
| `Mods` | acf, content, staging and File_IDs under the mod routes (WorkshopAcfService, WorkshopApplyService, WorkshopDeleteService) |
| `MCMods` | instances for TLC |
| `Mods_proofs` | theorems of Mods |
| `RequestChannel` | abstract: what request() of the client promises |
| `Connection`, `MCConnection` | WebSocketProvider of a tab and WsBroadcaster (`ws/gateway.ts`), the network between them, panel restarts |
| `Connection_proofs` | theorems of Connection |
| `Sessions` | SessionManager: record, file, queue of mutations, writes |
| `ConsolePage` | command line, dialogs and buttons of the console page |
| `Console`, `MCConsole` | composes Sessions and ConsolePage with the terminal: PtyManager's buffers and callbacks, the handlers of save, shutdown and terminal_close, the plugin commands of LDM, start and shutdown of the panel |
| `Console_proofs` | theorems of Console, with those of Sessions and ConsolePage in it |
| `CommandsDat`, `ConfigTxt` | the conversions of Commands.dat and Config.txt: lines, record or sections, fields of the form, and back |
| `LoadoutDialog` | the dialog that chooses the items of a loadout |
| `Lists` | Array.filter, as CommandsDat and LoadoutDialog use it |
| `Dashboard` (`DashboardCheck`) | the incidents of `IncidentsService` and the hook that shows them, the samples of `MetricsService` |
| `ConfigPage`, `MCConfigPage` | composes both conversions and the dialog with the configuration page, its requests and the files of the servers |
| `ConfigPage_proofs` | theorems of ConfigPage, with those of CommandsDat in it |
| `XmlTree`, `RocketConfig` | RocketConfigXmlParser on trees; GET and PUT of the four kinds of LDM files |
| `FileTree`, `Instances` | FilesService on a tree; ServersContext, CurrentServerContext and the instance list of the setup page |
| `FilesPage`, `MCFilesPage` | composes both with the files page and the routers of the panel |
| `Vdf`, `Acf` | VdfParser on texts; what WorkshopAcfService makes of them |
| `StartCommand` (`StartCommandCheck`) | startScript, ServerDiscovery and how ServerManager uses them |
| `ModsPage` (`ModsPageCheck`) | download buttons, filters and pages of the mods page |

### ServerManager

State. `servers` is the entry of the id in the Map or None. Entries are values of
their own (`Entries`), because closures keep an entry that has left the Map:
`state`, `op` (activeOperation.type), `stopRequested`, `sessionEpoch`,
`terminal` and `command` are per entry. A bash is a value of `Bash`; epochs and
terminal ids are compared only for being those of the live bash, so the bash
value stands for all three. `job[p]` is the continuation of request p (or of
the crash restart, `Restarter`): the await it stands at, the kind of operation and
the entries it captured before and after it looked the id up again.

Actions. One per stretch of code between two awaits (`Halt`, `Halted`, `Boot`,
`BuildDone`, `SpawnBash`, ...), per failure of such an await (`HaltThrows`,
`BuildFails`, `SpawnFails`, `DiskFails`, `HookFails`), per timer
(`CommandTimer`, `CrashTimer`, `ExitTimeout`, `CloseTimeout`) and per event of
the terminal (`BashExit`, `PrintReady`, `FlushLines`). A request is `Accept`ed
with the checks the method makes before its first await. `Transition` includes
`recordIncidentForTransition`.

Abstractions, and why they are harmless. One id: instances share nothing that
ServerManager reads. Microtasks: a resolved promise continues before the next
timer or event (`Quiet`), as in Node. The session store is applied at once: its
FIFO keeps the order in which ServerManager calls it. One crash-restart
coroutine at a time. Callbacks registered twice by a reused bash are not
counted: they repeat the same transitions and broadcasts. The exit code is
chosen freely. `save` and `shutdown` of the gateway write to the terminal and
wait; they change no state of the manager. Timers have no durations: any order
of timers is allowed that their arming allows, which is more than the code does.

### SteamCmd

State. `activeJobs` and `downloadQueue` as in the code (a promise is the job it
belongs to), `processes` per job id with the directory its child writes, `job[j]`
the await of a coroutine, `exe` whether an executable is found, `panel` whether
the process lives. `ahead` is a history variable: the unfinished downloads
asked for before.

Actions. `RequestBinary` (install, update), `RequestDownload`, `RequestCheck`,
`RequestReinstall`; a download's turn (`Start`); writing the runscript and
spawning (`SpawnChild`, with `SpawnFails`, `ExecFails`, `PrepareFails`); the
child's exit with either verdict (`ChildExit`: a child that dies by a signal
leaves exit code null, which counts as success) or none at all (`WaitTimeout`);
verification, cleaning and the `finally` blocks (`Verified`, `ItemsMissing`,
`Cleaned`, `Settle`); and the stages of check and reinstall that run no
supervised child.

Abstractions. One installation directory; a directory is the key of its lock
(the key of a path through a symbolic link that does not exist yet is another
one, see 6). The answer of the HTTP request of a download is not modelled.
`activeProbe` may answer either way: it is asked once and ServerManager never
looks at `activeJobs`. `error` and `close` of a failed exec are one step, in the
order in which both take effect. The panel does not come back after it ended.

### ConfigFiles

State. `locks` is the registry of FileLockProvider (owner per path), `file` what
a target holds (a version, that is who wrote it, nothing, or half a file:
`Torn`), `temp` the `<path>.tmp` that all AtomicFileWriters of a path share,
`job[p]` a request: its await, kind, path, the version whose mtime the client
sent (`seen`) and what its backup holds (`saved`). Three kinds of request take
the lock (`Locked`: ConfigService, FilesService, AtomicFileWriter for LDM), four
do not (`Unlocked`: the raw upload, a deletion, `renameEntry`, and a deletion of
a mod, which backs WorkshopDownloadConfig.json up and may copy it back).

Actions. A `Request` with its mtime check; `Acquire` and `AcquireTimeout`; then
one action per file operation (`Backup`, `OpenTemp`, `FillTemp`, `Rename`,
`Prune`), for the kinds that make it; their failures (`WriteFails`,
`BackupFails`, `TempFails`) and the rollback of AtomicFileWriter (`UnlinkTemp`,
`Rollback`, `Restore`); `Delete` and `Move` of the file manager; the backup and
the rollback of deleteMod (`Keep`, `DeletionEnds`, `CopyBack`, `CopyEnds`), a
copy in place whose failure makes node remove the file; and `Crash`: the panel
is killed and started again, files stay, the registry and the requests are gone.
Power loss is not modelled (the code never syncs).

Abstractions. A version has the mtime of its own. Temporary files named by the
millisecond belong to one writer: two uploads of a file in one millisecond, which
no lock keeps apart, would share one. A deletion of a mod writes File_IDs between
its backup and its rollback; that write is a "config" request of its own here,
which may also be another user's. `Move` takes the file away or puts any other
here, half a file included; a file that is moved away while a rollback writes it
is followed no further. Backups are what a writer's own backup holds;
their names and pruning are left out. The content a request builds from what it
read before is its version. A path is the key of its lock: FilesService
resolves symbolic links inside the installation and ConfigService does not.

### Mods

State. What four things on disk say of each mod of a server: `acf` (the mods
`appworkshop_304930.acf` names, or `Torn`, a file opened for writing and not
completed), `content` and `stage` (its directories; `stage` holds those the
staging acf names), `fileIds` (File_IDs, or None without a
WorkshopDownloadConfig.json). `activeOperation` is that of the instance. `job[p]`
is a request: its await, kind, the mod in hand, what it read or is about to
write, what an apply has still to register and to move, and the backups a
deletion made. `alone` is a history variable: no other request has run, and
nobody has touched content, since this one began.

Actions. `Request` with the guard of each route; `Read`, `ScanContent` and
`ScanStage` (GET /mods/downloaded and applyStaged); `ParseToAdd`,
`ParseToRemove` and `Write`, the read-modify-write of the acf that no lock
guards; `Clear`, `Rename`, or `Copy` and `Unstage` across devices (moveDir);
`BackupIds`, `ListItems`, `BackupAcf`, `Remove`, `Reread`, `WriteIds` (deleteMod)
and, for a deletion that failed, `RollbackAcf`, `RestoreAcf`, `RollbackIds`,
`RestoreIds`, copies in place in two steps; a failure of each (`AddFails`,
`ReadFails`, `MoveFails`, `PrepareFails`, `SaveFails`, `DeleteFails`,
`RollbackFails`); `End`, the `finally` that gives activeOperation back. Around
them `Download` (SteamCMD, which takes no activeOperation; a failed one removes
the staged directory when "cleanup" is among `Kinds`), `Paste` (a directory put
in by hand) and `Crash`.

Abstractions. A mod is its id: sizes, dates and manifests are left out, and so
is the order in which a page load registers. A directory is there or not: half
removed and half copied directories are not modelled. `write` of the acf is one
step, since it ends in a rename; its failure leaves the acf alone. The state of
the instance is left out: an apply stops it before it reads and starts it after
it moved (see ServerManager), and nothing here depends on whether the start
succeeds. forceStop, which lets two applies overlap, is left out.

### Connection and RequestChannel

State. At the tab what the provider keeps in refs and state (`intentionalClose`,
`wsRef`, `retryRef`, the timers armed, `connect` calls that wait for a token), the
`readyState` of each socket and the requests; at the panel the `peer` of each
socket and its handlers; between them two queues per socket and whether the
path works. Sockets are values used again once both ends forgot them, so a
behaviour has any number of connections.

Actions. `Login` and `Logout` run and clean up the effect; `ConnectWithToken`,
`ConnectWithoutToken`, `Retry`; `OnOpen`, `AckReceived`, `CloseReceived`,
`LossNoticed`, `RefuseConnection` are the socket's events; `Ask`, `Timeout` are
request(). The panel accepts, subscribes, times out, beats (`Heartbeat`),
handles and acks (`HandlerEnds`, `SendAck`), and restarts. `LinkDies` loses what is
under way at any moment.

`RequestChannel` says what a caller may rely on: a command is carried out at most
once, "ok" and "failed" are what the panel found, and giving up stops nothing.
`ImplementsChannel` is the refinement.

### Console, ConsolePage, Sessions

State. The bash and the game in it, the commands typed and not yet read
(`input`), the lines on their way (`lines`), the two lists of callbacks that wait
for lines and for the exit, the requests at the panel, the stage of
gracefulShutdown, and the state of Sessions and ConsolePage. Of the lines only those
somebody waits for are modelled; what the game prints for a command is a choice
(`Replies`).

Callbacks are served in order from the array they take themselves out of, so that
each served one makes the walk pass over the next (`Called`), as `for..of` and
`splice` do. `BashExit` does what the exit handler does, in its order: the
unfinished line, exit callbacks, flush, the lists dropped, waitExit resolved.

A command of LDM has three ways to end: its waiter for a line, which resumes the
handler with what the collector beside it has heard (`Settling`, `Resumed`); its
timer; and `pollForMarker`, which looks at the same outcome every 50 ms
(`PollHits`). Waiter and collector are called in one walk and the waiter's promise
goes on before any timer, so the poll comes first only when a line reached the
collector and not the waiter, whose pattern minds the case of letters and knows
fewer words ("Loaded plugin", "Reload", "Unknown plugin": the lines `loaded` and
`unknown`). Such a request gets stage `left`: it is answered, its collector is gone,
its waiter stays in both lists until a line, the exit or its own 10 s
(`TimerOfLeft`), and nobody listens to it. The poll's own end after 10 s is the
same error as the timer's, and merged with it.

A behaviour is about requests or about records (`busy`): the two meet in the bash
only, which starts and ends under both, and no handler of a request reads the
record. Sessions carries one server; the file holds the records of all, written
as a whole, and each write takes what the memory says when it begins.

### CommandsDat, ConfigTxt, ConfigPage, LoadoutDialog

Conversions. A line is a key and the parts of its value, so that cutting and
trimming text is left out and everything the parsers decide by a key or a value is
kept: repeated keys, flags, legacy keys, comments, invalid loadouts, keys before any
section, braces on lines of their own or behind a key, nested blocks. One field
stands for those that are treated alike (`Name`, `PvE`, `Icon`, `VAC_Secure`).

The page. `held` is what was loaded for each tab, with the server and the file it
came from as history (`from`, `base`); `loads`, `save`, `deletion` are the requests
under way, of which the loads may arrive in any order and also for a server that is
no longer selected. `PanelWrites` applies schema, service and serializer.
`EditLoadout` takes any outcome of the dialog (`LoadoutDialog!Outcomes`), which is
modelled event by event but counts as one step of the page from opening to saving,
since it covers the page.

### XmlTree and RocketConfig

A document is a sequence of nodes (elements, texts, comments, CDATA, declarations);
cutting text into tokens is left out. `Merged` is the serializer of each kind:
`MergeSimple` for Rocket.config and Rocket.Unturned.config, `MergePermissions`,
and the text of a plugin's file as it is. The owner and the game change the file
(`ChangeByHand`) at most `MaxHands` times.

### FileTree, Instances, FilesPage

The tree is a function from paths to "dir" or a content. `Routers` lists the routes
under /api/servers in the order `index.ts` mounts them, and a request is answered
by the first router that has its route (`RouterOf`, `AnsweredAs`). Every request
of the page has three steps: sent, done by the panel, answered; an answer that
arrives after the page was left is dropped, one that arrives after the user went on
is applied. `Instances` is the list of ServersContext (fetched, then following
pushes), the selection that localStorage shares with another tab, and the dialogs
that create and delete instances.

### Operators checked by assumptions

`Acf`, `StartCommandCheck`, `MCConfigPage`, `ModsPageCheck` and
`DashboardCheck` state, as named assumptions over bounded inputs, what pure operators
should do; TLC evaluates them at the start of every run whose module extends them
(`mods` and `mods_heal`; `lifecycle`, `registry` and `liveness`; `config_page`;
`steamcmd`; `connection`).

- `Acf`: what serializeVdf writes parseVdf reads back (`VdfRoundTrip`: keys and
  values up to two characters of quotes, backslashes, braces, slashes and spaces);
  a cut file is refused (`TornIsRefused`, which is why `Torn` of Mods is an error
  and never fewer items); comments may stand between tokens
  (`CommentsAreSkipped`); items survive writing and reading (`ItemsAreKept`).
- `StartCommandCheck`: commands up to four words. With one server argument U3DS
  reads the id and nothing behind it (`U3DSReadsTheId`); with two it never does,
  and every start swaps them again (`TwoIdsNeverSettle`); a start types the same
  command after a start and after a restart of the panel (`StartsAgree`);
  discovery finds what creation and configuration wrote (`RestartFindsInstances`)
  and nothing else (`OnlyInstancesAreFound`).
- `MCConfigPage`: the loadout dialog over four items, two per page, in all its states
  within four events. The arrow keys reach every item (`ArrowsReachEveryItem`); enter adds
  what is highlighted or typed (`EnterAddsWhatIsShown`); there is always a row to
  highlight (`ThereIsAHighlight`).
- `ModsPageCheck`: every interleaving of two downloads, their answers, events and
  listings (all 14 steps of it). A button comes back if its file is downloaded
  once, its answer comes before its end and the end names it
  (`DownloadsAreCleared`); in each other case it may stay disabled for good
  (`SomeStayForGood`); the list of downloaded mods follows the disk
  (`ListFollowsDisk`); the progress bar stands still (`BarStandsStill`); the page
  that is asked for exists (`PageExists`).
- `DashboardCheck`: two instances, lists of two, answers of one. Four incidents at any
  times, also on a clock that goes back: each buffer holds the last ones in the order
  they were recorded, and an answer starts with the newest (`TheLastIncidentsAreKept`).
  Then every interleaving of three incidents, two choices of an instance and the
  arrival of pushes and answers: no incident is listed twice (`NoIncidentTwice`); in
  the order they were sent they leave the newest on top (`InOrderTheListIsComplete`);
  a late answer drops what was pushed or shows another instance (`SomeAreMissed`).
  Five samples, four kept: the longest window is complete (`TheWindowIsComplete`),
  rates add up except after a read that failed (`RatesAddUp`).

## 3. Runs

| Run | Instance | Properties |
|---|---|---|
| `lifecycle` | two requests of start, stop, restart, the three applies, delete, terminal_close; one crash timer, two command timers, three bash | TypeOK, TerminalIsLive, SessionIsLive, StartingWillRun, ImplementsLock, CommandTimerOwnsBash, AwaitedExitIsNoCrash |
| `registry` | two requests of start, delete, create; two entries | OperationExclusive, TerminalIsLive |
| `liveness` | one request of every kind, forceStop included | RequestsEnd, CrashRestartTried |
| `steamcmd` | three jobs, two staging directories | TypeOK, LockExclusive, TurnMeansFree, WaiterHasChild, ImplementsQueue, JobsEnd |
| `files` | two writers at a time; WorkshopDownloadConfig.json with ConfigService, FilesService, the upload, the rollback of a deleted mod and renaming; a file of LDM, FilesService and deletion | TypeOK, WritersExclude, LocksAreHeld, TornOnlyByRollback, ReplacedIsBackedUp, WritersEnd |
| `mods` | two requests of every kind at a time, one mod, failed downloads that remove nothing | TypeOK, OnlyDeletionLosesFiles, NamedHasFiles, DeletedIsGone, ApplyInstalls |
| `mods_heal` | one request at a time, two mods, failed downloads that remove | ContentIsNamed, StagedIsInstalled |
| `connection` | two requests, two sockets, one connect and one retry timer at a time | TypeOK, PendingIsReachable, ImplementsChannel |
| `console` | two requests of every kind at a time, or three queued mutations; a buffer of one line, two commands typed, the page's own without arguments | TypeOK, RecordIsKept, ButtonsComeBack, AnswersAreTrue |
| `config_page` | two servers, two loads at a time, four clicks or writes of others | TypeOK, CommandsSavedAsShown, TxtSavedAsShown |
| `round_trip` | one file of each kind, changed once by hand | RoundTripIsEquivalent, violated |
| `file_deletion` | two instances, one request at a time, seven clicks | DeletionTakesOneEntry, violated |

What the new ones ask. `PendingIsReachable`: whatever ends a socket rejects what
waits for it, also when the event of an old socket arrives after a new one was
opened. `RecordIsKept`: once nothing is under way, the file of sessions says what
the memory says, in whatever order saves, exits, touches, removals and expiries
came. `ButtonsComeBack`: a page waits only for a request that is still under way
and will end. `AnswersAreTrue`: an "ok" of a save or a command of LDM was reported by the
bash that was asked, also when the poll tells it after that bash has ended, and one
of a shutdown or a close leaves no bash that was not killed.
`CommandsSavedAsShown`, `TxtSavedAsShown`: what is loaded from a server, edited and
saved to the same server comes back from the file as the form showed it, and what
the form does not show comes back as it was, comments included, through both
conversions and while loads and other writers come in between. Exempt is what the
code loses (6): of Commands.dat a poll that is switched off, of Config.txt nested
blocks and, of its comments only, those behind a key without a value. Not seen by
`CommandsSavedAsShown`, since it reads both files with the code's own parser
(`Effective`), are the lines of Commands.dat that the parser itself passes over: an
unknown command that is repeated (the last one wins) and a Loadout line that is not
valid. A save loses both.

Bounds. `MaxCrashTimers` and `MaxCommandTimers` bound the timers armed at once;
`Bash` bounds those alive or referred to at once (a bash value nobody refers to is
used again, so runs are of any length). Two requests are enough for every
interference of one operation with another, and the crash restart is a third
coroutine beside them; two timers are enough for one stale timer beside the live
one; two entries for a closure that holds the deleted one while the new one
lives. Three jobs make a queue with a head, a middle and a tail, or two queues
of which one has a waiter; two staging directories are the least that can meet
under one job id. Two writers at a time, who come back as often as they like,
are a holder and a waiter, a waiter that comes back after its timeout, and a
writer that finds what a killed one left. Two mod requests are one and what
disturbs it; mods meet only in the acf, which is written as a whole, so that one
mod shows every interference on its own entry, and two mods the loop over
several (`mods_heal`); the theorems cover any number of both. Requests, bashes
and entries are symmetric in the safety runs of ServerManager, requests in
`mods`; no symmetry is used with liveness or in `steamcmd` and `files`.

In `connection` two sockets are an old one and a new one; a third would wait for
one of them to be forgotten. One buffered line is the least that can be lost to
the flush and two are served by two requests; two commands are one that is read
and one behind it. With arguments the dialog of the page may ask again about what was
typed meanwhile; the buttons do not depend on it, and `ButtonsFollow` is proved for
any number of them. In `config_page` four clicks let the user go to another tab or
server, edit, save and come back with loads of both under way; a file of
another writer is one with other loadouts and nested blocks. `round_trip` and
`file_deletion` need only be large enough for their counterexample: a file with
one group, and the clicks from opening the page to confirming a deletion.
`connection` and `console` use symmetry; neither checks liveness.

`steamcmd` switches the deadlock check off: the panel may end, and nothing runs
after that. So do `config_page`, `round_trip` and `file_deletion`, where the
user's clicks are bounded.

Every property of a passing run has a mutant, a definition changed the way a
slip in the code would change it, that TLC must find; the mutants stand beside
the definitions they change.

## 4. Fairness

`ServerManager!Fairness`: the event loop serves every continuation, timer and I/O
completion. Strong fairness, because a request that arrives makes the others wait
for its turn (`Quiet`) and requests may keep arriving. SIGKILL is assumed to end
a bash; no other exit, output or request is. With it `RequestsEnd` says that
each await of the manager has a timeout or is an I/O operation: no
activeOperation is held for ever by a bash that ignores everything.

`SteamCmd!FairSpec`: weak fairness of each job's own steps: file operations
complete and the timer of `waitForExit` fires. Nothing is assumed of the
children: a child that never exits is the case `JobsEnd` is about.

`ConfigFiles!FairSpec`: weak fairness of each request's own steps: file
operations end, well or not, and the polling timer fires. Nothing orders the
waiters of a lock: what ends a wait is the timeout (`WritersEnd`).

`Connection`, `Console`, `ConfigPage`, `RocketConfig` and `FilesPage` state no
fairness: a network, a game or a user owes nothing, and their properties are safety
properties. That a page waits only for what will end is stated as such
(`PendingIsReachable`, `ButtonsComeBack`); the end itself is a local timer.

`Mods!FairSpec`: weak fairness of each request's own steps. Its two properties
are about repair, so they also assume, in their own premise, that failures and
kills cease (`<>[][Sound]_vars`) and that the page is opened, or the server
restarted, again and again; neither is anything the code could ensure.

## 5. Proofs

For every number of requests, entries, bashes, timers, jobs and directories,
under the assumptions the modules name (the constants are what their comments
say; `DirsAssumption`: the directories differ).

`ServerManager_proofs`. `TypeCorrect`: TypeOK, with `JobShape` (what the await of a
coroutine says of the entries it holds) as the inductive part.
`OperationsExclusive` and `LockImplemented` (`ImplementsLock`): provided nobody
forces a stop (`"force" \notin Kinds`; forceStop clears activeOperation under
its holder). Every action either leaves kind, entry and op alone or is one of
acquire and release (`LockStep`), which keeps OperationExclusive and is a step
of OperationLock.

`BashLifetime_proofs`. `TerminalsLive`, `SessionsLive`: from an invariant that ties
`exitOwner`, `terminal`, `session` and the timers to the live bash (`BashInv`).
`TimersOwnBash` needs that the instance is not created again once it was deleted
(`"create" \notin Kinds`), `AwaitedExitsNoCrash` also that nobody forces a stop:
with a second creation the first is false (6), and the proof shows that deletion
alone is harmless. What they rest on is that the entry in the Map, if there is
one, is the one every closure captured (`SoleEntry`), with the live bash as its
epoch (`EpochIsBash`). `StartingRuns` (`StartingWillRun`) adds that an instance
STARTING over a live bash has the timer of that bash armed, or a coroutine about
to reuse the bash (`WillRun`). The checks of the timer (epoch, state, isRunning)
never drop the one of the live bash, most steps have no part in a start (`Calm`),
and a start that reuses the bash arms a timer again, since the command of an
instance with a bash has been found before (`CommandKnown`). It needs "configure"
left out of `Kinds` besides "create": configureServer keeps a command over an
await and writes it back, so that an empty one may come to stand over a live bash.

`SteamCmd_proofs`. `TypeCorrect`, `LocksExclude`, `TurnsFindFree`,
`WaitersHaveChildren`, `QueueImplemented`: from `IInv == TypeOK /\ Consistent /\
LockExclusive`. `Consistent` says that the downloads of a directory form one
chain (`Chain`: the one before is the last of those asked for earlier, and all
of them are over when it has settled) whose end is what the Map holds or has
forgotten rightly (`LastInLine`). LockExclusive alone is not inductive: that a
`finally` unlocks nobody else's directory depends on the chain.

`ConfigFiles_proofs`. `TypeCorrect`, `WritersExcluded`, `LocksHeld`,
`TornByRollbackOnly`, `ReplacedAreBackedUp`: from `IInv == TypeOK /\ Shape /\
LockInv /\ TempInv /\ SavedInv`. `LockInv` adds to the exclusion that the lock
of a file bears the name of the writer inside, which is what makes a release by
name sound: a writer that gives up was never inside and does not release.
Exclusion then gives `TempInv` (the shared temporary file is the renaming
writer's own and complete) and, where none of the writers without a lock writes,
`SavedInv` (the file is what the backup holds). `TornByRollbackOnly` names the
three ways half a file comes to be there: the rollback of AtomicFileWriter, that
of ConfigService, and a user who moves one there.

`Mods_proofs`. From `Inv == TypeOK /\ Shape /\ OneApply /\ Alone`: the stage of a
request determines what its record holds, only one apply is at work, and beside
a request that is alone all others are idle. `TypeCorrect` follows.
`MovesStaged` (what an apply has still to move is staged) gives `FilesKept`
(`OnlyDeletionLosesFiles`), provided that no failed download removes what it
staged (`"cleanup" \notin Kinds`): with it a download that fails while an apply
is between removal and rename loses the mod. `AloneFacts`, what a request that
is alone knows of the disk at each of its awaits, gives `DeletionDeletes`
(`DeletedIsGone`), `ApplyCompletes` (`ApplyInstalls`) and, with `MovesStaged`,
`NamesHaveFiles` (`NamedHasFiles`).

`Connection_proofs`. `TypeCorrect`; `PendingReachable`: the socket of a waiting
request is one that is open, since whatever takes a socket out of "open" at the tab
rejects what waits for it in the same step. `ChannelImplemented`
(`ImplementsChannel`) needs the history of a message: a request is on its way only
while the panel has not seen it, once, and on the socket it was sent on
(`AskedOnce`: what makes "at most once" true is that request() never sends
again), and an ack on its way says what the panel found (`AcksAreTrue`). Then an
ack that arrives settles the request it names as RequestChannel allows, and what
the network does is a stutter. Assumed (`ConnectionAssumption`): `MaxConnects >= 1`,
since the page connects when it is loaded, and that None is no socket or request.

`Console_proofs`. `IInv == TypeOK /\ CallbacksWait /\ LdmElsewhere /\ DiskFollows /\
ButtonsComeBack`. `CallbacksWait`: whoever is in the list of callbacks for lines is a
request that waits for a line, about a bash that has not been replaced, or the
waiter of one its poll has answered. `LdmElsewhere`: no command of LDM is the page's.
`DiskFollows`: at most one write of sessions.json is under way, it is of what the
memory says, and when there is none and the last one went well the file says the
same. The hard part is that callbacks leave the list while it is being walked, so
the walk is a recursion over the list (`HearAll`, over the lines of a flush, each a
`Called`). What it keeps whatever the lists are (`Sound`: it adds nobody, it
settles only who waited for that line, gives an outcome to live commands only, and
whoever is left in the list still waits or was answered by its poll) is proved by induction over lengths, from the existence of the recursive
functions on prefixes up; the induction rule is derived from the well-foundedness
of the naturals, as the one of the library takes an operator. `RecordKept`,
`ButtonsFollow` and `AnswersTrue` follow: the first two are conjuncts, the third is
an action property that `CallbacksWait` carries over each of the walks.
`ConsoleAssumption`: the bounds are naturals and None is none of the page, the
kinds of request and "ok".

`ConfigPage_proofs`. `CommandsSavedCorrect` (`CommandsSavedAsShown`), for files of
Commands.dat of any length, any names, texts and loadouts, and any number of loads,
clicks and writers. Its core is `CommandsRoundTrip`: what `SerializeCommandsDat`
writes of a record, `ParseCommandsDat` reads back as that record, provided that
unknown keys are not known ones, comments are comments and loadouts are valid
(`Writable`); and that the page sends no other record (`RecordOfType`) follows from
the types of the form and of what was loaded. Parsing is a function that is
recursive over the lines; its values at the ends of the four parts that are written
(comments, known keys, loadouts, unknown keys) are shown by induction (`Follows`),
from the existence of the recursive function up (`RecursionExists`,
`ParsePrefixes`). `CommentsParsed` is the same for the comments of the file that was
loaded. `IInv` carries this over the steps of the page: what is held has the hidden
lines of the file it was made of (`MadeOfBase`, which no edit touches), an answer
under way is the lines of a file (`LoadOK`), and a save under way has the record of
the form that was held when the button was pressed (`CallOK`). `TypeCorrect` follows
too. The edits are those of the form and of the loadout dialog, whose outcomes are
item ids however many events it sees (`OutcomesType`, by induction over events).
`ConfigPageAssumption`: files are lines of texts, the user types texts, item ids are
item ids, and one load may be under way, since the page loads when it is opened.

Only model-checked: the liveness properties (`RequestsEnd`, `CrashRestartTried`,
`JobsEnd`, `WritersEnd`, `ContentIsNamed`, `StagedIsInstalled`; fairness is
beyond the prover); `TxtSavedAsShown`, whose parser has states and blocks within
blocks and whose property has exceptions that depend on where a comment stands (7);
and the assumptions of `Acf`, whose parser is RECURSIVE, of the three Check modules
and of `MCConfigPage`, which are about bounded inputs.

## 6. Where code and comments disagree

Two disagreements have a run whose counterexample shows them.

1. `RoundTripIsEquivalent`: a client reads permissions and puts them back as they
   are, and the members and permissions of every group are gone
   (`RocketConfigXmlParser.ts:140-155` reads a "value" no parsed element has).
   `shared/contracts/ldm.ts:284` promises that the round trip is equivalent.
2. `DeletionTakesOneEntry`: to delete a file in the file manager deletes the selected
   instance, since `DELETE /api/servers/:id?path=...` is answered by the router of
   servers, which `index.ts:116` mounts before that of files (`index.ts:132`).
   The dialog of `FilesPage.tsx:511` asks about the file.

The others are modelled and have no run of their own. Each line names the
definition that shows it.

Servers and terminals.
- The exit handler of PtyManager flushes its last lines after the exit callbacks, and
  a ready line among them makes the stopped instance RUNNING without a bash
  (`FlushLines` after `BashExit`; `ServerManager.ts:85` says bash dead = STOPPED).
- A stop that finds no bash throws before its try and leaves STOPPING behind
  (`HaltThrows`; `ServerManager.ts:84` says STOPPING is followed by STOPPED).
- `StartingWillRun` holds for one entry (`lifecycle`, `StartingRuns`); where the id is
  deleted and created again it does not, for the reason that breaks
  `CommandTimerOwnsBash`: an entry deleted while STARTING keeps its epoch and state,
  and its timer writes into the bash of the new entry. Nor does it when
  configureServer reads an empty start command, a start saves one and spawns
  meanwhile, and configureServer writes the empty one back (`Configure`).
- A stop the user asked for records no "stop" incident, since it passes through
  STOPPING and the rule asks for RUNNING or STARTING before STOPPED (`Recorded`).
- A start that was looking for the script overwrites the start command saved
  meanwhile (`BuildDone`).
- A crash timer that fires while an apply stops the bash clears stopRequested, and
  the awaited exit becomes a crash. A crash restart or apply whose spawn fails
  leaves STARTING without a bash. A DELETE that overlaps a start leaves a bash
  without an instance. The crash timer of a deleted instance starts its successor
  of the same name.
- Every second waiter for an exit is passed over and sits out its timer (`Called`).
- An interactive bash ignores SIGTERM: terminal_close takes five seconds and a
  SIGKILL, the exit counts as a crash and the instance is started again;
  a shutdown over the WebSocket ends in shutdown_timeout, because the bash stays when
  the game ends (`HandleClose`, `HandleShutdown`).
- The waiter for "Loading" of a plugin command takes any line with that word;
  the about card of LDM runs two commands at once with one marker
  (`Markers`, `HandlePlugin`).
- A plugin command answered by its poll leaves its waiter in the lists of PtyManager
  for up to 10 s. If a line of the next command settles that waiter, the walk passes
  over the collector behind it, and the next command is reported as pty-timeout though
  it worked (`PollHits`, `Called`). Its answer may also come up to 50 ms after the bash
  has ended, about what that bash had printed.
- A Shutdown typed in the console page with a parameter is asked about and never
  confirmed, without one it bypasses `pendingAction` (`HandleSend`).
- `cleanupExpired` removes the record of a terminal that was silent for seven days,
  active or not (`Mutated`); a shutdown that is forced leaves the file saying active
  (`PanelEnds`); a save that fails ends the panel, since its rejection has no
  handler (`WriteFails`).
- A start command with two server arguments is swapped and saved again at every start
  (`TwoIdsNeverSettle`); a name of blanks becomes the id after a restart
  (`RestartFindsInstances`).

SteamCMD and mods.
- The rejection of the last download of a chain has no handler and ends the panel
  (`Settle`; `SteamCmdManager.ts:592-593` says that a failure does not interrupt the queue).
- All downloads of an installation share a job id, so two staging directories exclude
  each other by an error (`JobIds`). install leaves its directory locked when it
  cannot write its runscript. After a timeout the child goes on writing a directory
  that is unlocked. A child killed by a signal counts as success. reinstall takes
  the executable from under running jobs. An update asks once whether an instance
  runs; one may start a moment later.
- A deletion that fails after it removed the directory rolls back acf and File_IDs,
  not the directory (`RollbackAcf`; `WorkshopDeleteService.ts:50` says that all is
  rolled back).
- Any error of the backup of WorkshopDownloadConfig.json is taken for a missing file,
  and the deleted mod then stays in File_IDs (`BackupIds`); otherwise a deletion
  replaces File_IDs by everything the acf names (`Reread`). A kill during the
  rollback leaves an acf that may not parse, and then no page load, deletion or
  apply succeeds (`ReadFails`). An apply that fails half way is not undone, though
  `shared/contracts/workshop.ts:133` says that it is. A deletion is allowed while
  the instance runs, though the comment at `routes/mods.ts:228` says STOPPED
  (`Free`). A failed download that removes what it staged loses an installed mod
  that an apply is just replacing.
- Writing the acf keeps the items and drops WorkshopItemDetails; an empty acf reads as
  no items (`Written`, `ParseContent`).
- A download button stays disabled for good when the same file fails twice, when the
  end overtakes the answer of the request, or when the end does not name the file
  (`SomeStayForGood`); `ModsPage.tsx:117` says that the entry is
  cleared at completed or failed. The bar shows the first number of each stage only.

Files and configuration.
- The mtime a client sends is compared before the lock is waited for, so of two
  clients with the same mtime both succeed (`Request`, `Acquire`;
  `shared/contracts/config.ts:7` says that the second is refused). The page never
  sends one.
- The rollback of a deleted mod copies over WorkshopDownloadConfig.json in place and
  without the lock: it may undo the write of another request, and a kill half way
  leaves half a file (`CopyBack`). Renaming a file takes no lock either (`Move`).
- A backup that fails half way, as on a full disk, is rolled back to, over a target
  nobody has touched (`BackupFails`).
- Commands.dat: repeated unknown commands collapse to the last
  (`ParseLine`; `ConfigService.ts:643` says unknown keys are kept), invalid loadout
  lines are dropped, comments move to the top (`SerializeCommandsDat`), a file that
  cannot be read reads as an empty one that is then saved.
- A poll (Votify) cannot be switched off in the form once it has numbers
  (`KnownOf`).
- Config.txt: keys before any section are lost; nested blocks are written on one line
  and read back wrongly, so that the second save destroys them
  (`OpenNested`, `InNested`; `TxtSavedAsShown` exempts such files).
- A comment between a key without a value and the next key is lost: the line of the
  next key pushes the one without a value and drops the comment with it (`FallBack`,
  `ConfigService.ts:388`), though `ConfigService.ts:305` says that a comment belongs to
  the key that follows it (`CommentAtRisk` exempts the comments of such files).
- The configuration page saves what it holds to the server that is selected: after
  a switch, or a load that arrives late, that is the unknown keys of another server
  (`Payload`, `LoadArrives`). It is no longer "dirty" when a save ends although it was
  edited meanwhile (`SaveEnds`). A disabled mod comes back as pending_apply and is
  enabled by the next save (`Rows`). An empty list of mods is refused (`Refused`).
- In the loadout dialog saving removes duplicates that the comment at
  `LoadoutItemDialog.tsx:126-127` allows (`Saved`), and enter takes the highlighted
  row when a whole id was typed (`Enter`).
- LDM: a file that is missing is saved as an empty root (`WrapRoot`); comments inside a
  value and around the root are dropped (`SetElementText`); values below the minimum
  can be read and not saved back (`Valid`); nested elements of one name are cut at
  the first end tag, and texts are written unescaped (both left out of XmlTree).
- Files page: what is listed is below the installation directory and what is changed
  below Servers/<id> (`Target`); uploads that fail are not noticed; a listing that
  arrives late is shown under another directory (`FilesArrive`).

Read and not modelled: a plain start does not apply what is staged, though
`routes/mods.ts:31` says so; the second of two queued downloads is answered 502 when
the first fails although it runs, and its request waits for the first; `resolveLockKey` gives two
keys to a directory reached through a symbolic link before it exists; two LDM writes
within a second share the name of their backup, and the version before both is lost;
on a reload WebSocketProvider and AuthProvider refresh with one token, and the loser
clears what the winner got; a tab may have two sockets at once when a token arrives
after the effect was set up again (`ConnectWithToken` does allow it; a comment of
WebSocketContext speaks of a single one); output of a bash that is reused is
broadcast twice; ServerControlCard saves `{commands: draft}` where a record is
expected and is always refused.

## 7. Not modelled, and what is left

Left out for good: authentication and the refresh of tokens (one table and one
timer; Connection takes their outcome as a choice), the Steam Web API, system and
status probes, PE metadata, the settings table, the item list, the middleware, the
layout of pages and the pages that are one form over one request (login, dashboard,
settings, LDM and setup cards).

Planned:
1. A proof of `TxtSavedAsShown` for files without blocks: the round trip of Config.txt
   section by section, along the lines of `CommandsRoundTrip`.
2. `Update`: ServerManager beside SteamCmd (activeProbe asked once) and beside Mods (a
   deletion while the instance starts, forceStop between two applies).
