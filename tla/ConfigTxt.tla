------------------------------ MODULE ConfigTxt ------------------------------
(***************************************************************************)
(* Config.txt and its conversions: lines to sections and back              *)
(* (ConfigService), sections to the fields of the form and back            *)
(* (configTxtAdapter, ConfigPage).  A line is a key and a value ("" for    *)
(* none): a brace or bracket of its own is a key without a value, and      *)
(* "Key {" the key with the value "{", the same text.  Blank lines, which  *)
(* the parser skips wherever they are, are left out.  Of the 18 fields the *)
(* form manages, "Icon" stands for text, "VAC_Secure" for the switches;    *)
(* Max_Instances is one of the 280 others.                                 *)
(***************************************************************************)
EXTENDS Naturals, Sequences, FiniteSets, SequencesExt

Line(k, v) == [key |-> k, value |-> v]
Bare(k)    == Line(k, "")
Comment(c) == Line("//", c)
Version    == Line("Version", "1")

Entry(k, v, c)    == [key |-> k, value |-> v, comment |-> c]
Section(n)        == [name |-> n, entries |-> <<>>, rawBlocks |-> <<>>]
-----------------------------------------------------------------------------
(* parseConfigTxt.  The state of its loop; "" and <<>> stand for null.      *)
Start ==
  [sections |-> <<>>, current |-> Section("_unlabeled"), hasCurrent |-> FALSE,
   pendingComment |-> <<>>, pendingKey |-> "", pendingSectionKey |-> "",
   pendingSectionKeyComment |-> <<>>, inNestedBlock |-> FALSE, currentRawBlock |-> <<>>]

(* A repeated key keeps its first place and its last value. *)
Dedupe(entries) ==
  LET add(acc, e) ==
        IF \E i \in DOMAIN acc : acc[i].key = e.key
        THEN [i \in DOMAIN acc |-> IF acc[i].key = e.key THEN e ELSE acc[i]]
        ELSE Append(acc, e)
  IN FoldLeft(add, <<>>, entries)

(* sections[name] = section, in the order of first assignment. *)
Assign(sections, s) ==
  IF \E i \in DOMAIN sections : sections[i].name = s.name
  THEN [i \in DOMAIN sections |-> IF sections[i].name = s.name THEN s ELSE sections[i]]
  ELSE Append(sections, s)

FlushSection(p) ==
  LET s == [p.current EXCEPT !.entries = Dedupe(@)]
  IN IF p.hasCurrent /\ (s.entries # <<>> \/ s.rawBlocks # <<>>)
     THEN [p EXCEPT !.current = s, !.sections = Assign(@, s)] ELSE p

OpenSection(p, name) ==
  [FlushSection(p) EXCEPT
     !.current = Section(name), !.hasCurrent = TRUE, !.pendingKey = "",
     !.pendingSectionKey = "", !.pendingSectionKeyComment = <<>>, !.pendingComment = <<>>]

PushEntry(p, e) == [p EXCEPT !.current.entries = Append(@, e), !.pendingComment = <<>>]

(* The line before was a key without a value and no section name. *)
FallBack(p, l) ==
  IF p.pendingSectionKey # "" /\ l \notin {Bare("{"), Bare("[")}
  THEN [PushEntry(p, Entry(p.pendingSectionKey, "", p.pendingSectionKeyComment))
          EXCEPT !.pendingSectionKey = "", !.pendingSectionKeyComment = <<>>]
  ELSE p

Owner(p) == IF p.pendingKey # "" THEN p.pendingKey ELSE p.pendingSectionKey

OpenNested(p, l) ==
  [p EXCEPT !.inNestedBlock = TRUE, !.currentRawBlock = <<Line(Owner(p), l.key)>>,
            !.pendingKey = "", !.pendingSectionKey = "", !.pendingSectionKeyComment = <<>>]

InNested(p, l) ==
  LET block == Append(p.currentRawBlock, l)
  IN IF l \in {Bare("}"), Bare("]")}
     THEN [p EXCEPT !.inNestedBlock = FALSE, !.currentRawBlock = <<>>,
                    !.current.rawBlocks = Append(@, block)]
     ELSE [p EXCEPT !.currentRawBlock = block]

KeyLine(p, l) ==
  IF l.value = ""
  THEN [p EXCEPT !.pendingSectionKey = l.key, !.pendingSectionKeyComment = p.pendingComment,
                 !.pendingComment = <<>>, !.pendingKey = ""]
  ELSE [PushEntry(p, Entry(l.key, l.value, p.pendingComment)) EXCEPT !.pendingKey = l.key]

AfterFallBack(p, l) ==
  CASE l.value = "{" /\ ~p.inNestedBlock -> OpenSection(p, l.key)
    [] l \in {Bare("{"), Bare("[")} /\ ~p.inNestedBlock /\ Owner(p) # "" -> OpenNested(p, l)
    [] p.inNestedBlock -> InNested(p, l)
    [] l = Bare("}") /\ ~p.inNestedBlock ->
         [FlushSection(p) EXCEPT !.pendingKey = "", !.pendingSectionKey = "",
                                 !.pendingSectionKeyComment = <<>>]
    [] l = Bare("{") /\ ~p.inNestedBlock /\ Owner(p) = "" ->
         [p EXCEPT !.pendingKey = "", !.pendingSectionKey = ""]
    [] OTHER -> KeyLine(p, l)

ParseLine(p, l) ==
  CASE l = Version -> p
    [] l.key = "//" -> [p EXCEPT !.pendingComment = Append(@, l.value)]
    [] l = Bare("{") /\ p.pendingSectionKey # "" /\ ~p.inNestedBlock ->
         OpenSection(p, p.pendingSectionKey)
    [] OTHER -> AfterFallBack(FallBack(p, l), l)

ParseConfigTxt(lines) == FlushSection(FoldLeft(ParseLine, Start, lines)).sections
-----------------------------------------------------------------------------
(* serializeConfigTxt.                                                     *)
EntryLines(e) == [i \in DOMAIN e.comment |-> Comment(e.comment[i])]
                   \o <<Line(e.key, e.value)>>

SectionLines(s) ==
  <<Bare(s.name), Bare("{")>> \o FlattenSeq([i \in DOMAIN s.entries |-> EntryLines(s.entries[i])])
    \o FlattenSeq(s.rawBlocks) \o <<Bare("}")>>

SerializeConfigTxt(sections) == 
  <<Version>> \o FlattenSeq([i \in DOMAIN sections |-> SectionLines(sections[i])])
-----------------------------------------------------------------------------
(* configTxtAdapter.                                                       *)
Managed == {<<"Browser", "Icon">>, <<"Server", "VAC_Secure">>}
ManagedOrder == <<<<"Browser", "Icon">>, <<"Server", "VAC_Secure">>>>

EntriesOf(sections, name) ==
  FlattenSeq([i \in DOMAIN sections |->
                IF sections[i].name = name THEN sections[i].entries ELSE <<>>])
Find(sections, name, key) ==
  SelectSeq(EntriesOf(sections, name), LAMBDA e : e.key = key)

ReadStringEntry(sections, name, key) ==
  LET e == Find(sections, name, key) IN IF e = <<>> THEN "" ELSE Head(e).value

(* A switch without a value has the default of the SDK. *)
ReadBoolEntry(sections, name, key, default) ==
  LET e == Find(sections, name, key)
  IN IF e = <<>> \/ Head(e).value = "" THEN default ELSE Head(e).value # "false"

EMPTY_TXT_FIELDS == [Icon |-> "", VAC_Secure |-> TRUE]
TxtFieldsOf(sections) ==
  [Icon       |-> ReadStringEntry(sections, "Browser", "Icon"),
   VAC_Secure |-> ReadBoolEntry(sections, "Server", "VAC_Secure", EMPTY_TXT_FIELDS.VAC_Secure)]

StringEntry(key, value) == Entry(key, value, <<>>)
BoolEntry(key, enabled) == Entry(key, IF enabled THEN "true" ELSE "false", <<>>)
ManagedEntry(m, f) == IF m[2] = "Icon" THEN StringEntry("Icon", f.Icon)
                                       ELSE BoolEntry("VAC_Secure", f.VAC_Secure)

(* mergeTxtSections: values and places of the others stay, comments too. *)
MergeEntry(sections, m, e) ==
  LET into(x) == IF x.key = m[2] THEN [e EXCEPT !.comment = x.comment] ELSE x
      merged(s) == IF \E j \in DOMAIN s.entries : s.entries[j].key = m[2]
                   THEN [j \in DOMAIN s.entries |-> into(s.entries[j])]
                   ELSE Append(s.entries, e)
  IN IF \E i \in DOMAIN sections : sections[i].name = m[1]
     THEN [i \in DOMAIN sections |->
             IF sections[i].name = m[1]
             THEN [sections[i] EXCEPT !.entries = merged(sections[i])] ELSE sections[i]]
     ELSE Append(sections, [Section(m[1]) EXCEPT !.entries = <<e>>])

MergeTxtSections(sections, f) ==
  FoldLeft(LAMBDA acc, m : MergeEntry(acc, m, ManagedEntry(m, f)), sections, ManagedOrder)

(* updateRawEntry of ConfigPage: the other fields, in the sections below. *)
UpdateRawEntry(sections, name, key, value) ==
  [i \in DOMAIN sections |->
     IF sections[i].name # name THEN sections[i]
     ELSE [sections[i] EXCEPT !.entries =
             [j \in DOMAIN @ |-> IF @[j].key = key THEN [@[j] EXCEPT !.value = value]
                                 ELSE @[j]]]]
-----------------------------------------------------------------------------
(* What the file says: of the managed fields their values, of the others   *)
(* the entries with their comments, and the blocks nobody here reads.      *)
Says(sections) ==
  [managed |-> TxtFieldsOf(sections),
   others  |-> UNION {{<<s.name, e>> : e \in {x \in Range(s.entries) :
                         <<s.name, x.key>> \notin Managed}} : s \in Range(sections)},
   blocks  |-> UNION {{<<s.name, b>> : b \in Range(s.rawBlocks)} : s \in Range(sections)}]

(* A comment behind a key without a value: the line of the next key pushes  *)
(* the key without a value (FallBack) and drops the comment as if it had    *)
(* been the pushed key's.                                                   *)
CommentAtRisk(sections) ==
  \E s \in Range(sections) : \E i \in 2..Len(s.entries) :
    s.entries[i - 1].value = "" /\ s.entries[i].comment # <<>>

Nested(lines) ==
  \E i \in 2..Len(lines) : \/ lines[i] = Bare("[")
                           \/ lines[i] = Bare("{") /\ lines[i - 1].value # ""
=============================================================================
