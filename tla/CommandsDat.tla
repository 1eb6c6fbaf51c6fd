----------------------------- MODULE CommandsDat -----------------------------
(***************************************************************************)
(* Commands.dat and its two conversions: lines to record and back          *)
(* (ConfigService), record to the fields of the form and back (ConfigPage, *)
(* LoadoutEditor).  A line is a key and the parts of its value; "Name"     *)
(* stands for the text fields, "PvE" for the flags, "LogChat" for the      *)
(* leftovers of split composites, and of the composites Log has two parts  *)
(* and Votify two (the switch and one number).                             *)
(***************************************************************************)
EXTENDS Naturals, Sequences, FiniteSets, SequencesExt, Lists

Line(k, v) == [key |-> k, value |-> v]
Lines      == [key : STRING, value : Seq(STRING)]

FLAG_KEYS       == {"PvE"}
REPEATABLE_KEYS == {"Loadout"}
LEGACY_KEYS     == {"LogChat", "VotifyPassCooldown"}
KNOWN_KEYS      == {"Name", "Log", "Votify"} \cup FLAG_KEYS \cup REPEATABLE_KEYS
COMMENTS        == {"#", ";"}

VALID_LOADOUT_SKILLSET_IDS == {"0", "1", "255"}
ITEM_IDS == {"363", "15"}
-----------------------------------------------------------------------------
(* parseLoadoutLine: an entry, or <<>> for a line that is not one.          *)
ParseLoadoutLine(v) ==
  IF v # <<>> /\ Head(v) \in VALID_LOADOUT_SKILLSET_IDS /\ Range(Tail(v)) \subseteq ITEM_IDS
  THEN <<[skillsetId |-> Head(v), itemIds |-> Tail(v)]>> ELSE <<>>

Put(f, k, v) == [x \in DOMAIN f \cup {k} |-> IF x = k THEN v ELSE f[x]]

(* parseCommandsDatContent, line by line.                                  *)
ParseLine(r, l) ==
  LET loadout == l.key = "Loadout" /\ l.value # <<>>
  IN CASE l.key \in COMMENTS    -> [r EXCEPT !.comments = Append(@, l)]
       [] l.key \in LEGACY_KEYS -> r
       [] loadout               -> [r EXCEPT !.loadouts = @ \o ParseLoadoutLine(l.value)]
       [] l.key \in KNOWN_KEYS /\ ~loadout -> [r EXCEPT !.known = Put(@, l.key, l.value)]
       [] OTHER                 -> [r EXCEPT !.unknown = Put(@, l.key, l.value)]

NoKeys      == [k \in {} |-> <<>>]
EmptyRecord == [known |-> NoKeys, unknown |-> NoKeys, comments |-> <<>>, loadouts |-> <<>>]

ParseCommandsDat(lines) ==
  LET after[n \in 0..Len(lines)] ==
        IF n = 0 THEN EmptyRecord ELSE ParseLine(after[n - 1], lines[n])
  IN after[Len(lines)]

(* writeCommandsDat refuses "all skillsets" beside a particular one. *)
LoadoutsExclude(loadouts) ==
  /\ \E i \in DOMAIN loadouts : loadouts[i].skillsetId = "255"
  /\ \E i \in DOMAIN loadouts : loadouts[i].skillsetId # "255"

LinesOf(f) == LET keys == SetToSeq(DOMAIN f)
              IN [i \in DOMAIN keys |-> Line(keys[i], f[keys[i]])]

SerializeCommandsDat(r) ==
  LET one(l)   == IF l.key \in FLAG_KEYS THEN Line(l.key, <<>>) ELSE l
      known    == LinesOf([k \in DOMAIN r.known \ REPEATABLE_KEYS |-> r.known[k]])
      loadouts == KeptAt(r.loadouts, {i \in DOMAIN r.loadouts :
                            r.loadouts[i].skillsetId \in VALID_LOADOUT_SKILLSET_IDS})
  IN r.comments
     \o [i \in DOMAIN known |-> one(known[i])]
     \o [i \in DOMAIN loadouts |->
           Line("Loadout", <<loadouts[i].skillsetId>> \o loadouts[i].itemIds)]
     \o LinesOf(r.unknown)
-----------------------------------------------------------------------------
(* The form.  Raw values of known keys stay among the fields beside what   *)
(* is made of them, as in the object spread of fetchConfig.                *)
EMPTY_FIELDS ==
  [Name |-> <<"Unturned">>, PvE |-> FALSE, LogChat |-> "Y", LogAnticheat |-> "N",
   VotifyAllow |-> "N", VotifyPassCooldown |-> "5", Votify |-> <<>>, Loadout |-> <<>>]

Part(v, i, default) == IF i \in DOMAIN v THEN v[i] ELSE default
YesNo(v, i)         == IF i \in DOMAIN v /\ v[i] = "Y" THEN "Y" ELSE "N"

FieldsOf(r) ==
  LET has(k) == k \in DOMAIN r.known
  IN [Name     |-> IF has("Name") THEN r.known["Name"] ELSE EMPTY_FIELDS.Name,
      PvE      |-> has("PvE"),
      LogChat  |-> IF has("Log") THEN YesNo(r.known["Log"], 1) ELSE "Y",
      LogAnticheat |-> IF has("Log") THEN YesNo(r.known["Log"], 2) ELSE "N",
      VotifyAllow  |-> IF has("Votify") THEN YesNo(r.known["Votify"], 1) ELSE "N",
      VotifyPassCooldown |->
        IF has("Votify") THEN Part(r.known["Votify"], 2, "5") ELSE "5",
      Votify   |-> IF has("Votify") THEN r.known["Votify"] ELSE <<>>,
      Loadout  |-> r.loadouts]

(* handleSave: text if there is any, flags that are on, Log always, Votify *)
(* when voting is on, else the raw value the file had.                     *)
KnownOf(f) ==
  LET votify == IF f.VotifyAllow = "Y"
                THEN <<"Y", IF f.VotifyPassCooldown = "" THEN "5" ELSE f.VotifyPassCooldown>>
                ELSE f.Votify
      value(k) == CASE k = "Name"   -> f.Name
                    [] k = "PvE"    -> <<>>
                    [] k = "Log"    -> <<f.LogChat, f.LogAnticheat>>
                    [] k = "Votify" -> votify
      keys == {"Log"} \cup (IF f.Name = <<>> THEN {} ELSE {"Name"})
                      \cup (IF f.PvE THEN {"PvE"} ELSE {})
                      \cup (IF votify = <<>> THEN {} ELSE {"Votify"})
  IN [k \in keys |-> value(k)]

(* Mutant: the record is built from the form alone. *)
RecordOfForm(f, meta) ==
  [known |-> KnownOf(f), unknown |-> NoKeys, comments |-> <<>>, loadouts |-> f.Loadout]
RecordOf(f, meta) ==
  [known |-> KnownOf(f), unknown |-> meta.unknown, comments |-> meta.comments,
   loadouts |-> f.Loadout]

(* What fetchConfig keeps in originalMetaRef. *)
MetaOf(r) == [unknown |-> r.unknown, comments |-> r.comments]
NoMeta    == [unknown |-> NoKeys, comments |-> <<>>]
-----------------------------------------------------------------------------
(* LoadoutEditor.                                                          *)
Used(loadouts) == {loadouts[i].skillsetId : i \in DOMAIN loadouts}

AddableSkillsets(loadouts) ==
  {id \in VALID_LOADOUT_SKILLSET_IDS \ Used(loadouts) :
     IF id = "255" THEN Used(loadouts) \subseteq {"255"} ELSE "255" \notin Used(loadouts)}

(* handlePickerSave: an empty choice removes the entry. *)
PickerSave(loadouts, id, items) ==
  IF id \in Used(loadouts)
  THEN IF items = <<>>
       THEN KeptAt(loadouts, {i \in DOMAIN loadouts : loadouts[i].skillsetId # id})
       ELSE [i \in DOMAIN loadouts |->
               IF loadouts[i].skillsetId = id
               THEN [loadouts[i] EXCEPT !.itemIds = items] ELSE loadouts[i]]
  ELSE IF items = <<>> THEN loadouts
       ELSE Append(loadouts, [skillsetId |-> id, itemIds |-> items])

(* The pencil is offered for entries that are not overruled by "255". *)
Editable(loadouts) ==
  {id \in Used(loadouts) : "255" \in Used(loadouts) => id = "255"}

DeleteEntry(loadouts, i) == RemoveAt(loadouts, i)
-----------------------------------------------------------------------------
(* What the server makes of a file: the last line of a key counts, a key   *)
(* that is missing has the default of the SDK, and what Unturned does not  *)
(* know has no effect but belongs to the user.                             *)
Overriding(loadouts) ==
  {<<loadouts[i].skillsetId, loadouts[i].itemIds>> :
     i \in {j \in DOMAIN loadouts : \A k \in DOMAIN loadouts :
              k > j => loadouts[k].skillsetId # loadouts[j].skillsetId}}

Comments(lines) == KeptAt(lines, {i \in DOMAIN lines : lines[i].key \in COMMENTS})

Effective(lines) ==
  LET r == ParseCommandsDat(lines)
      get(k, d) == IF k \in DOMAIN r.known THEN r.known[k] ELSE d
      votify == get("Votify", <<"N", "5">>)
  IN [Name    |-> get("Name", EMPTY_FIELDS.Name),
      PvE     |-> "PvE" \in DOMAIN r.known,
      Log     |-> get("Log", <<"Y", "N">>),
      Votify  |-> <<Part(votify, 1, "N"), Part(votify, 2, "5")>>,
      Loadout |-> Overriding(r.loadouts),
      unknown |-> {<<k, r.unknown[k]>> : k \in DOMAIN r.unknown}]

(* What the form shows as the configuration of the server, given the file  *)
(* the lines it does not show came from.                                   *)
Shown(f, base) ==
  [Name    |-> IF f.Name = <<>> THEN EMPTY_FIELDS.Name ELSE f.Name,
   PvE     |-> f.PvE,
   Log     |-> <<f.LogChat, f.LogAnticheat>>,
   Votify  |-> IF f.VotifyAllow = "N" THEN <<"N", "5">>
               ELSE <<"Y", IF f.VotifyPassCooldown = "" THEN "5" ELSE f.VotifyPassCooldown>>,
   Loadout |-> Overriding(f.Loadout),
   unknown |-> Effective(base).unknown]
=============================================================================
