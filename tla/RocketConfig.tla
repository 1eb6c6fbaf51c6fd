---------------------------- MODULE RocketConfig ----------------------------
(***************************************************************************)
(* One configuration file of LDM and a client of its endpoints: GET        *)
(* returns fields, PUT sends them back and the panel merges them into the  *)
(* file it finds.  The file of a plugin is read and written as text.  The  *)
(* owner edits the file by hand and the game writes its own, with comments *)
(* and with elements the panel does not know.                              *)
(*                                                                         *)
(* Values: "x" and "y" are acceptable, "small" is below the minimum of the *)
(* schema, "odd" is not a number or truth value.                           *)
(***************************************************************************)
EXTENDS XmlTree, FiniteSets

CONSTANTS
  Missing,   \* what stands for a file that does not exist,
  Broken,    \* and for a text that is no XML
  Kinds,     \* which files: "rocket", "unturned", "permissions", "plugin"
  MaxHands   \* bound: times the file changes by other hands

VARIABLES
  kind,    \* which file this behaviour is about
  file,    \* the document: a sequence of nodes, Missing or Broken
  fields,  \* what the client has: None, or what a GET returned, edited or not
  done,    \* what the last step did to the file: "get", "put", "hand", ...
  hands    \* how often other hands changed it

vars == <<kind, file, fields, done, hands>>

Absent == {Missing, Broken}

(* The element of each field, and what is read where it is missing.        *)
Simple == [rocket   |-> {<<"LanguageCode">>, <<"AutomaticShutdown", "Interval">>},
           unturned |-> {<<"MaxSpawnAmount">>, <<"AutomaticSave", "Interval">>}]
Numbers == {<<"AutomaticShutdown", "Interval">>, <<"MaxSpawnAmount">>, <<"AutomaticSave", "Interval">>}
RootName == [rocket |-> "RocketConfiguration", unturned |-> "RocketConfiguration",
             permissions |-> "RocketPermissions", plugin |-> "Plugin"]

(* parseIntOr: no number is the default.                                   *)
Read(root, path) ==
  LET text == ElementText(root, path, "default")
  IN IF path \in Numbers /\ text \in {"odd", ""} THEN "default" ELSE text

ParseSimple(root, k) == [p \in Simple[k] |-> Read(root, p)]

(* parsePermissionsConfig: of a member and a permission the "value" is     *)
(* taken, which an element that was read does not have.                    *)
ValuesOf(g, list, name) ==
  LET leaves == IF Has(g, list)
                THEN SelectSeq(Find(g, list).children,
                               LAMBDA c : Named(c, name) /\ c.value # None)
                ELSE <<>>
  IN [i \in DOMAIN leaves |-> leaves[i].value]

ParseGroup(g) ==
  [id |-> ElementText(g, <<"Id">>, ""), color |-> ElementText(g, <<"Color">>, "default"),
   members |-> ValuesOf(g, "Members", "Member"),
   permissions |-> ValuesOf(g, "Permissions", "Permission")]

ParsePermissions(root) ==
  [defaultGroup |-> ElementText(root, <<"DefaultGroup">>, "default"),
   groups |-> IF Has(root, "Groups")
              THEN LET gs == ElementsOf(Find(root, "Groups"), "Group")
                   IN [i \in DOMAIN gs |-> ParseGroup(gs[i])]
              ELSE <<>>]

FieldsOf(document) ==
  LET root == WrapRoot(document)
  IN CASE kind = "permissions" -> ParsePermissions(root)
       [] kind = "plugin"      -> document
       [] OTHER                -> ParseSimple(root, kind)

(* serializeRocketConfig, serializeRocketUnturnedConfig: one field after   *)
(* another.                                                                *)
RECURSIVE MergeSimple(_, _, _)
MergeSimple(root, f, paths) ==
  IF paths = {} THEN root
  ELSE LET p == CHOOSE q \in paths : TRUE
       IN MergeSimple(SetElementText(root, p, f[p]), f, paths \ {p})

(* serializePermissionsConfig: the groups are built anew; what an old one  *)
(* of the same id had as attributes and as elements of other names is      *)
(* added, the last one of that id.  Without <Groups> they are not written. *)
Known == {"Id", "DisplayName", "Color", "ParentGroup", "Priority", "Members", "Permissions"}

OldGroup(container, id) ==
  LET old == SelectSeq(container.children,
                       LAMBDA c : Named(c, "Group") /\ ElementText(c, <<"Id">>, "") = id)
  IN IF old = <<>> THEN Element("Group", <<>>) ELSE Last(old)

Leaves(name, values) == [i \in DOMAIN values |-> Leaf(name, values[i])]

BuildGroup(container, g) ==
  LET old == OldGroup(container, g.id)
  IN [Element("Group",
        <<TextElement("Id", g.id), TextElement("Color", g.color),
          Element("Members", Leaves("Member", g.members)),
          Element("Permissions", Leaves("Permission", g.permissions))>>
        \o SelectSeq(old.children, LAMBDA c : IsElement(c) /\ c.name \notin Known))
      EXCEPT !.attrs = old.attrs]

MergePermissions(root, f) ==
  LET named == SetElementText(root, <<"DefaultGroup">>, f.defaultGroup)
  IN IF ~Has(named, "Groups") THEN named
     ELSE LET container == Find(named, "Groups")
          IN Replace(named, "Groups",
               [container EXCEPT !.children =
                  [i \in DOMAIN f.groups |-> BuildGroup(container, f.groups[i])]])

(* What a PUT writes: a file that is missing counts as an empty document.  *)
Merged(f) ==
  LET root == WrapRoot(IF file = Missing THEN <<>> ELSE file)
  IN IF kind = "plugin" THEN f
     ELSE <<Written(IF kind = "permissions" THEN MergePermissions(root, f)
                    ELSE MergeSimple(root, f, Simple[kind]))>>

(* The schemas of the bodies.                                              *)
Valid(f) ==
  CASE kind = "permissions" -> f.defaultGroup # "" /\ \A i \in DOMAIN f.groups :
                                 f.groups[i].id # "" /\ f.groups[i].color # "odd"
    [] kind = "plugin"      -> f # Broken
    [] OTHER                -> \A p \in DOMAIN f : f[p] \notin {"small", ""}
-----------------------------------------------------------------------------
(* The documents the owner and the game write.                             *)
Words  == {"x", "small", "odd"}
Aside  == {<<>>, <<Comment("note")>>}

SimpleDocuments(k) ==
  LET one == CHOOSE p \in Simple[k] : Len(p) = 1
      two == CHOOSE p \in Simple[k] : Len(p) = 2
  IN {before \o <<Element(RootName[k],
                    inside \o <<TextElement(one[1], v),
                      Element(two[1], within \o <<TextElement(two[2], w)>>),
                      Element("Unknown", <<Cdata("x")>>)>>)>>
      : before \in {<<>>, <<Declaration, Comment("note")>>},
        inside \in Aside, within \in Aside, v \in Words, w \in Words}

Group(attrs, aside, members) ==
  [Element("Group",
     <<TextElement("Id", "g"), TextElement("Color", "x"),
       Element("Members", [i \in DOMAIN members |-> TextElement("Member", members[i])]),
       Element("Permissions", <<TextElement("Permission", "x")>>),
       TextElement("Prefix", "x")>> \o aside)
   EXCEPT !.attrs = attrs]

PermissionDocuments ==
  {<<Element("RocketPermissions",
       <<TextElement("DefaultGroup", "x"),
         Element("Groups", between \o <<Group(attrs, aside, members)>>)>>)>>
   : between \in Aside, attrs \in {{}, {"Cooldown"}}, aside \in Aside,
     members \in {<<>>, <<"m1">>, <<"m1", "m2">>}}

Documents ==
  CASE kind = "permissions" -> PermissionDocuments
    [] kind = "plugin"      -> {<<Element("Plugin", <<TextElement("Unknown", v)>>)>> : v \in Words}
    [] OTHER                -> SimpleDocuments(kind)

Init ==
  /\ kind \in Kinds
  /\ file = Missing
  /\ fields = None
  /\ done = None
  /\ hands = 0

(* Another hand: the game, the owner, the file browser.                    *)
ChangeByHand ==
  /\ hands < MaxHands /\ hands' = hands + 1
  /\ file' \in Documents \cup Absent
  /\ done' = "hand"
  /\ UNCHANGED <<kind, fields>>

(* readFile of LdmConfigReader: 404 without the file, 500 if it cannot be  *)
(* read or parsed.  The file of a plugin is not parsed.                    *)
Answer ==
  CASE file = Missing -> None
    [] file = Broken  -> IF kind = "plugin" THEN Broken ELSE None
    [] OTHER          -> FieldsOf(file)

Get ==
  /\ fields' = Answer
  /\ done' = "get"
  /\ UNCHANGED <<kind, file, hands>>

Edited ==
  CASE kind = "permissions" ->
         {[fields EXCEPT !.defaultGroup = v] : v \in {"y", ""}}
           \cup {[fields EXCEPT !.groups[i].members = Append(@, "m3")] : i \in DOMAIN fields.groups}
    [] kind = "plugin" -> Documents \cup {Broken}
    [] OTHER -> {[fields EXCEPT ![p] = v] : p \in DOMAIN fields, v \in {"y", "small"}}

Edit ==
  /\ fields \notin {None, Broken}
  /\ fields' \in Edited
  /\ done' = "edit"
  /\ UNCHANGED <<kind, file, hands>>

(* PUT: validated, merged into what is on the disk now, and written as a   *)
(* whole; the atomic writer keeps the old file if the disk fails.          *)
Refused == ~Valid(fields) \/ (kind # "plugin" /\ file = Broken)

AtomicWriteFile(document) ==
  \/ file' = document /\ done' = "put"
  \/ file' = file /\ done' = "failed"

Put ==
  /\ fields # None
  /\ IF Refused THEN file' = file /\ done' = "failed" ELSE AtomicWriteFile(Merged(fields))
  /\ UNCHANGED <<kind, fields, hands>>

Next == ChangeByHand \/ Get \/ Edit \/ Put

Spec == Init /\ [][Next]_vars
-----------------------------------------------------------------------------
TypeOK ==
  /\ kind \in Kinds
  /\ hands \in 0..MaxHands
  /\ (fields # None /\ kind \in DOMAIN Simple) => DOMAIN fields = Simple[kind]

(* To save the fields as they were read keeps every text and attribute     *)
(* within the root element: what the fields do not mention stays, and what *)
(* they mention has its value.  (A text that is not acceptable as the      *)
(* value of its field may be replaced.)                                    *)
Unedited == file \notin Absent /\ fields = FieldsOf(file)

Values(document) ==
  {c \in Contents(document, <<>>) : c[1] # <<>> /\ c[2] # "comment" /\ c[Len(c)] # "odd"}

RoundTripIsEquivalent ==
  [][(done' = "put" /\ Unedited) => Values(file) \subseteq Values(file')]_vars
=============================================================================
