---------------------------- MODULE MCConfigPage ----------------------------
(* Two servers.  The Commands.dat of a file set has voting on, a line the  *)
(* panel does not know, a comment and two loadouts of one skillset; the    *)
(* Config.txt has keys under comments, with and without a value, and a     *)
(* section the form does not manage.                                       *)
EXTENDS ConfigPage, TLC
CONSTANTS s1, s2, m1, m2

L(k, v) == C!Line(k, v)

CommandsFile == <<L("#", <<"note">>), L("Name", <<"Mine">>), L("Votify", <<"Y", "9">>),
                  L("LogChat", <<"true">>), L("Loadout", <<"0", "363">>),
                  L("Owner2", <<"me">>), L("Loadout", <<"0", "15">>)>>
BareFile     == <<L("PvE", <<>>), L("Loadout", <<"255", "15">>), L("Loadout", <<"1">>)>>

TxtFile == <<T!Version, T!Bare("Browser"), T!Bare("{"), T!Comment("icon"),
             T!Bare("Icon"), T!Bare("}"),
             T!Line("Events", "{"), T!Comment("rain"), T!Line("Rain", "1"),
             T!Comment("snow"), T!Bare("Snow"), T!Bare("}"), T!Line("Wind", "2")>>
NestedFile == <<T!Bare("Browser"), T!Bare("{"), T!Bare("Links"), T!Bare("["), T!Bare("{"),
                T!Line("Message", "hi"), T!Bare("}"), T!Bare("]"), T!Bare("}")>>
Files(c, t) == [commands |-> c, txt |-> t,
                workshop |-> [downloaded |-> {m1, m2}, named |-> {m1}]]
MCDisks == {Files(CommandsFile, TxtFile)}
MCOtherCommands == {BareFile}
MCOtherTxt == {NestedFile}
MCNames == {<<>>, <<"Yours">>}
MCCooldowns == {"", "7"}
MCItems   == <<"363">>
MCFinds   == [t \in {"", "15"} |-> {}]
MCItemIds == {"15"}
-----------------------------------------------------------------------------
(* LoadoutDialog over a list of four items, loaded by two.                 *)
List == INSTANCE LoadoutDialog WITH
       Items <- <<"1", "363", "15", "16">>,
       Finds <- [t \in {"", "1", "mag", "999"} |->
                   CASE t = "1" -> {"1", "15", "16"} [] t = "mag" -> {"363"} [] OTHER -> {}],
       ItemIds <- {"1", "999"}, PAGE_SIZE <- 2

AnyDialog == UNION {List!Within(tags, 4) : tags \in {<<>>, <<"363", "363">>}}

(* The arrow keys reach every item of the list, page by page: after n of    *)
(* them row n + 1 is highlighted, and the enter key takes it.               *)
ASSUME ArrowsReachEveryItem ==
  \A d \in {x \in AnyDialog : x.active = 0} :
    LET after[n \in 0..3] == IF n = 0 THEN d ELSE List!ArrowDown(after[n - 1])
    IN \A n \in 0..3 : n < Len(List!Filtered(d)) =>
         /\ List!Highlighted(after[n]) = List!Filtered(d)[n + 1]
         /\ n > 0 => List!Enter(after[n]).tags = Append(d.tags, List!Filtered(d)[n + 1])

(* What the enter key adds is what the user sees: the highlighted row, or   *)
(* the id in the input when no row is left; a typed id that is part of      *)
(* another gives way to the row.                                            *)
ASSUME EnterAddsWhatIsShown ==
  \A d \in AnyDialog :
    LET tags == List!Enter(d).tags
    IN \/ tags = d.tags
       \/ List!Filtered(d) # <<>> /\ tags = Append(d.tags, List!Highlighted(d))
       \/ List!Filtered(d) = <<>> /\ tags = Append(d.tags, d.input)

(* No event asks for a row that is not there, and a page once loaded stays  *)
(* until something is typed.                                                *)
ASSUME ThereIsAHighlight ==
  \A d \in AnyDialog :
    /\ List!Visible(d) = <<>> <=> List!Filtered(d) = <<>>
    /\ \A e \in List!Events(d) : e.input = d.input /\ e.tags = d.tags /\ e.active # 0
                                => Len(List!Visible(e)) >= Len(List!Visible(d))
=============================================================================
