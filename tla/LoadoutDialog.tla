---------------------------- MODULE LoadoutDialog ----------------------------
(***************************************************************************)
(* The dialog in which the items of one loadout are chosen: the tags, the  *)
(* input, the highlighted row and how much of the list was loaded.  One    *)
(* operator per event; Outcomes is what "save" may hand over.               *)
(***************************************************************************)
EXTENDS Naturals, Sequences, FiniteSets, SequencesExt, Lists

CONSTANTS
  Items,      \* the ids of the list, in its order
  Finds,      \* [text typed -> the ids whose number, name or label has it]
  ItemIds,    \* the texts that are an item id themselves
  PAGE_SIZE

Opened(initialItemIds) ==
  [tags |-> initialItemIds, input |-> "", active |-> 0, visible |-> PAGE_SIZE]

Filtered(d) == KeptAt(Items, {i \in DOMAIN Items : d.input = "" \/ Items[i] \in Finds[d.input]})
HasMore(d)  == d.visible < Len(Filtered(d))
Visible(d)  == IF HasMore(d) THEN SubSeq(Filtered(d), 1, d.visible) ELSE Filtered(d)

Smaller(a, b) == IF a < b THEN a ELSE b
Grown(d) == [d EXCEPT !.visible = Smaller(@ + PAGE_SIZE, Len(Filtered(d)))]

(* The row that is drawn as active; there is one when the list has any.    *)
Highlighted(d) == Visible(d)[(d.active % Len(Visible(d))) + 1]

Type(d, text) == [d EXCEPT !.input = text, !.active = 0, !.visible = PAGE_SIZE]

AddTag(d, id, keepView) ==
  LET added == [d EXCEPT !.tags = Append(@, id)]
  IN IF keepView THEN added ELSE Type(added, "")

(* commit: the highlighted row once something was typed or the highlight   *)
(* was moved, else the id that was typed.                                  *)
Enter(d) ==
  IF (d.input # "" \/ d.active > 0) /\ Visible(d) # <<>> THEN AddTag(d, Highlighted(d), FALSE)
  ELSE IF d.input \in ItemIds THEN AddTag(d, d.input, FALSE) ELSE d

ArrowDown(d) ==
  LET next == d.active + 1
      loaded == IF Visible(d) # <<>> /\ next >= Len(Visible(d)) /\ HasMore(d) THEN Grown(d) ELSE d
  IN [loaded EXCEPT !.active = next]

ArrowUp(d)   == [d EXCEPT !.active = IF @ = 0 THEN 0 ELSE @ - 1]
Backspace(d) == IF d.input = "" /\ d.tags # <<>> THEN [d EXCEPT !.tags = Front(@)] ELSE d
Scroll(d)    == Grown(d)

(* The mouse is over the row it clicks.                                    *)
Click(d, row)     == AddTag([d EXCEPT !.active = row - 1], Visible(d)[row], TRUE)
RemoveTag(d, id)  == [d EXCEPT !.tags = KeptAt(@, {i \in DOMAIN @ : @[i] # id})]

(* Array.from(new Set(tags)): of an id that is there twice the first stays.*)
Saved(d) == KeptAt(d.tags, {i \in DOMAIN d.tags : \A j \in 1..(i - 1) : d.tags[j] # d.tags[i]})

Events(d) ==
  {Enter(d), ArrowDown(d), ArrowUp(d), Backspace(d), Scroll(d)}
    \cup {Type(d, text) : text \in DOMAIN Finds}
    \cup {Click(d, row) : row \in DOMAIN Visible(d)}
    \cup {RemoveTag(d, id) : id \in Range(d.tags)}

(* The dialogs within so many events of its opening.                       *)
Within(initialItemIds, events) ==
  LET dialogs[n \in 0..events] ==
        IF n = 0 THEN {Opened(initialItemIds)}
        ELSE dialogs[n - 1] \cup UNION {Events(d) : d \in dialogs[n - 1]}
  IN dialogs[events]

Outcomes(initialItemIds, events) == {Saved(d) : d \in Within(initialItemIds, events)}
=============================================================================
