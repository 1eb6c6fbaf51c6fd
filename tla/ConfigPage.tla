----------------------------- MODULE ConfigPage -----------------------------
(***************************************************************************)
(* The configuration page of one browser tab, the panel behind it and the  *)
(* files of the servers.  The page holds what it loaded for each of its    *)
(* three tabs, whatever server that came from; a load that is under way is *)
(* never cancelled, and its answer replaces what is held when it arrives.  *)
(* The button is enabled by "dirty" alone, also while a load is under way. *)
(* What the panel does with a file is CommandsDat and ConfigTxt; that a    *)
(* write is atomic is ConfigFiles.                                         *)
(***************************************************************************)
EXTENDS Naturals, Sequences, FiniteSets, SequencesExt

CONSTANTS
  Servers,        \* the instances
  Absent,         \* no server
  Disks,          \* the contents the files of a server may have at first
  OtherCommands, OtherTxt,  \* what U3DS or another tab may write meanwhile
  Names, Cooldowns,         \* what the user types
  Items, Finds, ItemIds, PAGE_SIZE,  \* the list of items, see LoadoutDialog
  MaxEvents,      \* bound: what the user does in one opening of that dialog
  MaxLoads,       \* bound: loads under way at once
  MaxMoves        \* bound: clicks of the user and writes of others

C == INSTANCE CommandsDat
T == INSTANCE ConfigTxt
G == INSTANCE LoadoutDialog

Tabs == {"commands", "txt", "workshop"}

ASSUME ConfigPageAssumption ==
  /\ Absent \notin Servers
  /\ \A d \in Disks : DOMAIN d = Tabs /\ d.commands \in Seq(C!Lines)
  /\ OtherCommands \subseteq Seq(C!Lines)
  /\ Names \subseteq Seq(STRING) /\ Cooldowns \subseteq STRING
  /\ Items \in Seq(C!ITEM_IDS) /\ ItemIds \subseteq C!ITEM_IDS
  /\ PAGE_SIZE \in Nat /\ MaxEvents \in Nat
  /\ MaxLoads \in Nat \ {0}            \* the page loads when it is opened

VARIABLES
  server,         \* serverId
  tab,
  held,           \* fields, originalMetaRef; txtFields, allTxtSections; workshopRows
  dirty, configLoading, configError, saving,
  loads,          \* fetchConfig calls between request and answer
  save,           \* the handleSave call under way, or <<>>
  deletion,       \* the handleDeleteConfirm call under way, or <<>>
  disk,           \* [Servers -> the files of that server]
  moves           \* history: how many clicks and writes of others there were

vars == <<server, tab, held, dirty, configLoading, configError, saving, loads,
          save, deletion, disk, moves>>

(* What is held before anything was loaded.  "from" and "base" are history *)
(* variables: the server and the file the content was made of.             *)
NothingHeld ==
  [commands |-> [fields |-> C!EMPTY_FIELDS, meta |-> C!NoMeta, from |-> Absent, base |-> <<>>],
   txt      |-> [fields |-> T!EMPTY_TXT_FIELDS, sections |-> <<>>, from |-> Absent,
                 base |-> <<>>],
   workshop |-> [rows |-> <<>>, from |-> Absent]]

Load(s, t) == [server |-> s, tab |-> t, stage |-> "sent", data |-> <<>>]

Init ==
  /\ disk \in [Servers -> Disks]
  /\ server \in Servers
  /\ tab = "commands"
  /\ held = NothingHeld
  /\ dirty = FALSE /\ saving = FALSE /\ configError = FALSE
  /\ configLoading = TRUE
  /\ loads = <<Load(server, "commands")>>
  /\ save = <<>> /\ deletion = <<>>
  /\ moves = 0
-----------------------------------------------------------------------------
(* Loading.                                                                *)
FetchConfig(s, t) ==
  /\ Len(loads) < MaxLoads
  /\ loads' = Append(loads, Load(s, t))
  /\ configLoading' = TRUE
  /\ configError' = FALSE

Move == moves < MaxMoves /\ moves' = moves + 1

(* The server selector; the guard shell passes the new server down, and    *)
(* nothing that is held is dropped.                                        *)
SelectServer(s) ==
  /\ Move
  /\ s # server
  /\ server' = s
  /\ FetchConfig(s, tab)
  /\ UNCHANGED <<tab, held, dirty, saving, save, deletion, disk>>

SelectTab(t) ==
  /\ Move
  /\ t # tab
  /\ tab' = t
  /\ dirty' = FALSE
  /\ FetchConfig(server, t)
  /\ UNCHANGED <<server, held, saving, save, deletion, disk>>

Shown == ~configLoading /\ ~configError

PressRetry ==
  /\ Move
  /\ configError /\ ~configLoading
  /\ FetchConfig(server, tab)
  /\ UNCHANGED <<server, tab, held, dirty, saving, save, deletion, disk>>

(* The routes answer with what the file says at that moment.               *)
PanelAnswers(i) ==
  /\ loads[i].stage = "sent"
  /\ loads' = [loads EXCEPT ![i].stage = "answered", ![i].data = disk[loads[i].server][loads[i].tab]]
  /\ UNCHANGED <<server, tab, held, dirty, configLoading, configError, saving, save,
                 deletion, disk, moves>>

Rows(w) == [m \in w.downloaded |-> IF m \in w.named THEN "enabled" ELSE "pending_apply"]

HeldAfter(l) ==
  CASE l.tab = "commands" ->
         LET r == C!ParseCommandsDat(l.data)
         IN [held EXCEPT !.commands = [fields |-> C!FieldsOf(r), meta |-> C!MetaOf(r),
                                       from |-> l.server, base |-> l.data]]
    [] l.tab = "txt" ->
         LET p == T!ParseConfigTxt(l.data)
         IN [held EXCEPT !.txt = [fields |-> T!TxtFieldsOf(p), sections |-> p,
                                  from |-> l.server, base |-> l.data]]
    [] l.tab = "workshop" ->
         [held EXCEPT !.workshop = [rows |-> Rows(l.data), from |-> l.server]]

LoadArrives(i) ==
  /\ loads[i].stage = "answered"
  /\ held' = HeldAfter(loads[i])
  /\ dirty' = FALSE
  /\ configLoading' = FALSE
  /\ loads' = RemoveAt(loads, i)
  /\ UNCHANGED <<server, tab, configError, saving, save, deletion, disk, moves>>

LoadFails(i) ==
  /\ configError' = TRUE
  /\ configLoading' = FALSE
  /\ loads' = RemoveAt(loads, i)
  /\ UNCHANGED <<server, tab, held, dirty, saving, save, deletion, disk, moves>>
-----------------------------------------------------------------------------
(* Editing: handleFieldChange, handleTxtChange, updateRawEntry, and the    *)
(* switch of a row.                                                        *)
Edit(t) ==
  /\ Move
  /\ Shown /\ tab = t
  /\ dirty' = TRUE
  /\ UNCHANGED <<server, tab, configLoading, configError, saving, loads, save, deletion, disk>>

ChangeFields(f) ==
  f # held.commands.fields /\ held' = [held EXCEPT !.commands.fields = f]

EditField ==
  /\ Edit("commands")
  /\ LET f == held.commands.fields
     IN \/ \E n \in Names : ChangeFields([f EXCEPT !.Name = n])
        \/ ChangeFields([f EXCEPT !.PvE = ~@])
        \/ ChangeFields([f EXCEPT !.VotifyAllow = IF @ = "Y" THEN "N" ELSE "Y"])
        \/ \E n \in Cooldowns : ChangeFields([f EXCEPT !.VotifyPassCooldown = n])

EditLoadout ==
  /\ Edit("commands")
  /\ LET f == held.commands.fields
     IN \/ \E id \in C!AddableSkillsets(f.Loadout) :
             \E items \in G!Outcomes(<<>>, MaxEvents) :
               ChangeFields([f EXCEPT !.Loadout = C!PickerSave(@, id, items)])
        \/ \E i \in {j \in DOMAIN f.Loadout : f.Loadout[j].skillsetId \in C!Editable(f.Loadout)} :
             \E items \in G!Outcomes(f.Loadout[i].itemIds, MaxEvents) :
               ChangeFields([f EXCEPT !.Loadout = C!PickerSave(@, f.Loadout[i].skillsetId, items)])
        \/ \E i \in {j \in DOMAIN f.Loadout : f.Loadout[j].skillsetId \in C!Editable(f.Loadout)} :
             ChangeFields([f EXCEPT !.Loadout = C!DeleteEntry(@, i)])

EditTxtField ==
  /\ Edit("txt")
  /\ \/ held' = [held EXCEPT !.txt.fields.Icon = IF @ = "" THEN "url" ELSE ""]
     \/ held' = [held EXCEPT !.txt.fields.VAC_Secure = ~@]

(* The cards of the sections the form does not manage; clearing a field    *)
(* makes it a key without a value.                                         *)
EditRawEntry ==
  /\ Edit("txt")
  /\ \E i \in DOMAIN held.txt.sections :
       LET sec == held.txt.sections[i]
       IN /\ sec.name \notin {m[1] : m \in T!Managed}
          /\ \E e \in Range(sec.entries), v \in {"", "5"} :
               /\ e.value # v
               /\ held' = [held EXCEPT !.txt.sections = T!UpdateRawEntry(@, sec.name, e.key, v)]

ToggleStatus(m) ==
  /\ Edit("workshop")
  /\ m \in DOMAIN held.workshop.rows
  /\ held' = [held EXCEPT !.workshop.rows[m] = IF @ = "enabled" THEN "disabled" ELSE "enabled"]
-----------------------------------------------------------------------------
(* Saving: what is held for the tab goes to the server that is selected.   *)
(* Mutant: the fields of the form replace the sections of the file.        *)
PayloadFormOnly(t) ==
  CASE t = "commands" -> C!RecordOf(held.commands.fields, held.commands.meta)
    [] t = "txt"      -> T!MergeTxtSections(<<>>, held.txt.fields)
    [] t = "workshop" -> {m \in DOMAIN held.workshop.rows : held.workshop.rows[m] # "disabled"}
Payload(t) ==
  CASE t = "commands" -> C!RecordOf(held.commands.fields, held.commands.meta)
    [] t = "txt"      -> T!MergeTxtSections(held.txt.sections, held.txt.fields)
    [] t = "workshop" -> {m \in DOMAIN held.workshop.rows : held.workshop.rows[m] # "disabled"}

PressSave ==
  /\ Move
  /\ dirty /\ ~saving
  /\ saving' = TRUE
  /\ configError' = FALSE
  /\ save' = <<[server |-> server, tab |-> tab, payload |-> Payload(tab),
                form |-> held[tab], stage |-> "sent"]>>
  /\ UNCHANGED <<server, tab, held, dirty, configLoading, loads, deletion, disk>>

(* The schema wants one mod at least; the service refuses loadouts of      *)
(* everybody beside those of a skillset.                                   *)
Refused(s) ==
  \/ s.tab = "workshop" /\ s.payload = {}
  \/ s.tab = "commands" /\ C!LoadoutsExclude(s.payload.loadouts)

Written(s) ==
  CASE s.tab = "commands" -> C!SerializeCommandsDat(s.payload)
    [] s.tab = "txt"      -> T!SerializeConfigTxt(s.payload)
    [] s.tab = "workshop" -> [disk[s.server].workshop EXCEPT !.named = s.payload]

PanelWrites ==
  /\ save # <<>> /\ save[1].stage = "sent" /\ ~Refused(save[1])
  /\ disk' = [disk EXCEPT ![save[1].server][save[1].tab] = Written(save[1])]
  /\ save' = [save EXCEPT ![1].stage = "done"]
  /\ UNCHANGED <<server, tab, held, dirty, configLoading, configError, saving, loads,
                 deletion, moves>>

SaveEnds ==
  /\ save # <<>> /\ save[1].stage = "done"
  /\ dirty' = FALSE
  /\ saving' = FALSE
  /\ save' = <<>>
  /\ UNCHANGED <<server, tab, held, configLoading, configError, loads, deletion, disk, moves>>

(* Refused, or the write failed, or its answer was lost.                   *)
(* Mutant: setSaving(false) before the catch instead of in the finally.     *)
SaveFailsTurning ==
  /\ save # <<>>
  /\ configError' = TRUE
  /\ save' = <<>>
  /\ UNCHANGED <<server, tab, held, dirty, configLoading, saving, loads, deletion, disk, moves>>
SaveFails ==
  /\ save # <<>>
  /\ configError' = TRUE
  /\ saving' = FALSE
  /\ save' = <<>>
  /\ UNCHANGED <<server, tab, held, dirty, configLoading, loads, deletion, disk, moves>>
-----------------------------------------------------------------------------
(* removeWs and its confirmation; the row goes when the panel has answered.*)
ConfirmDeletion(m) ==
  /\ Move
  /\ Shown /\ tab = "workshop" /\ deletion = <<>>
  /\ m \in DOMAIN held.workshop.rows
  /\ deletion' = <<[server |-> server, mod |-> m, stage |-> "sent"]>>
  /\ UNCHANGED <<server, tab, held, dirty, configLoading, configError, saving, loads, save,
                 disk>>

PanelDeletes ==
  /\ deletion # <<>> /\ deletion[1].stage = "sent"
  /\ disk' = [disk EXCEPT ![deletion[1].server].workshop =
                [downloaded |-> @.downloaded \ {deletion[1].mod},
                 named |-> @.named \ {deletion[1].mod}]]
  /\ deletion' = [deletion EXCEPT ![1].stage = "done"]
  /\ UNCHANGED <<server, tab, held, dirty, configLoading, configError, saving, loads, save,
                 moves>>

DeletionEnds ==
  /\ deletion # <<>> /\ deletion[1].stage = "done"
  /\ held' = [held EXCEPT !.workshop.rows =
                [m \in DOMAIN @ \ {deletion[1].mod} |-> @[m]]]
  /\ deletion' = <<>>
  /\ UNCHANGED <<server, tab, dirty, configLoading, configError, saving, loads, save, disk,
                 moves>>

DeletionFails ==
  /\ deletion # <<>>
  /\ configError' = TRUE
  /\ deletion' = <<>>
  /\ UNCHANGED <<server, tab, held, dirty, configLoading, saving, loads, save, disk, moves>>

(* U3DS writes Config.txt when it stops; another tab or an editor writes.  *)
OtherWrites(s) ==
  /\ Move
  /\ \/ \E c \in OtherCommands : disk' = [disk EXCEPT ![s].commands = c]
     \/ \E c \in OtherTxt : disk' = [disk EXCEPT ![s].txt = c]
  /\ UNCHANGED <<server, tab, held, dirty, configLoading, configError, saving, loads, save,
                 deletion>>
-----------------------------------------------------------------------------
Mods == UNION {disk[s].workshop.downloaded : s \in Servers} \cup DOMAIN held.workshop.rows

UserStep ==
  \/ \E s \in Servers : SelectServer(s)
  \/ \E t \in Tabs : SelectTab(t)
  \/ PressRetry
  \/ EditField \/ EditLoadout \/ EditTxtField \/ EditRawEntry
  \/ \E m \in Mods : ToggleStatus(m) \/ ConfirmDeletion(m)
  \/ PressSave

PanelStep ==
  \/ \E i \in DOMAIN loads : PanelAnswers(i) \/ LoadArrives(i) \/ LoadFails(i)
  \/ PanelWrites \/ SaveEnds \/ SaveFails
  \/ PanelDeletes \/ DeletionEnds \/ DeletionFails

Next == UserStep \/ PanelStep \/ \E s \in Servers : OtherWrites(s)

Spec == Init /\ [][Next]_vars
-----------------------------------------------------------------------------
(* The types of the page: one save under way while the button turns, and   *)
(* what is held for a tab is of the kind that tab shows.                   *)
TypeOK ==
  /\ server \in Servers
  /\ tab \in Tabs
  /\ {dirty, configLoading, configError, saving} \subseteq BOOLEAN
  /\ \A t \in Tabs : held[t].from \in Servers \cup {Absent}
  /\ saving <=> save # <<>>
  /\ Len(loads) <= MaxLoads
  /\ loads # <<>> \/ ~configLoading
  /\ \A m \in DOMAIN held.workshop.rows :
       held.workshop.rows[m] \in {"enabled", "disabled", "pending_apply"}

(* A save changes what the user changed.  If what is saved came from the   *)
(* same server, the file then says what the form showed when the button    *)
(* was pressed, and of what the form does not show it says what it said    *)
(* when it was loaded: unknown commands and comments.  What a file says is *)
(* what ParseCommandsDat reads in it: of an unknown command that is        *)
(* repeated the last line, of the Loadout lines the valid ones; the lines  *)
(* it passes over are lost by a save, and not seen here.  Of what it reads *)
(* only the poll is not kept: once it has numbers it cannot be switched    *)
(* off (README).                                                           *)
CommandsSaved(s, lines) ==
  LET f    == s.form.fields
      now  == C!Effective(lines)
      want == C!Shown(f, s.form.base)
  IN /\ \A part \in DOMAIN want \ {"Votify"} : now[part] = want[part]
     /\ (f.VotifyAllow = "Y" \/ f.Votify = <<>>) => now.Votify = want.Votify
     /\ C!Comments(lines) = C!Comments(s.form.base)

CommandsSavedAsShown ==
  [][\A s \in Servers :
       (/\ PanelWrites /\ save[1].tab = "commands"
        /\ save[1].server = s /\ save[1].form.from = s)
       => CommandsSaved(save[1], disk'[s].commands)]_vars

(* The same of Config.txt: the values of all keys, the other sections,     *)
(* their keys with their comments, and the blocks.  Two files are beyond   *)
(* what the code keeps: lists or dictionaries inside a section, and, of    *)
(* the comments alone, one behind a key without a value (README).          *)
TxtSaved(s, lines) ==
  LET now == T!Says(T!ParseConfigTxt(lines))
      old == T!Says(T!ParseConfigTxt(s.form.base))
      values(said)   == {<<o[1], o[2].key, o[2].value>> : o \in said.others}
      comments(said) == {<<o[1], o[2].key, o[2].comment>> : o \in said.others}
  IN \/ T!Nested(s.form.base)
     \/ /\ now.managed = s.form.fields
        /\ values(now) = values(T!Says(s.form.sections))
        /\ now.blocks = old.blocks
        /\ comments(now) = comments(old) \/ T!CommentAtRisk(s.payload)

TxtSavedAsShown ==
  [][\A s \in Servers :
       (/\ PanelWrites /\ save[1].tab = "txt"
        /\ save[1].server = s /\ save[1].form.from = s)
       => TxtSaved(save[1], disk'[s].txt)]_vars
=============================================================================
