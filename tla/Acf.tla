--------------------------------- MODULE Acf ---------------------------------
(***************************************************************************)
(* What WorkshopAcfService makes of the text of an acf file: the items of  *)
(* the game server's, which it also writes, and those of the staging       *)
(* directory, which SteamCMD writes.  An item is [timeupdated, size,       *)
(* manifest], the manifest NoManifest if there is none.                    *)
(***************************************************************************)
EXTENDS Vdf

ACF_ROOT_KEY == <<"AppWorkshop">>
Installed    == <<"WorkshopItemsInstalled">>
Details      == <<"WorkshopItemDetails">>
AppId        == <<"304930">>
NoManifest   == <<"no manifest">>

(* parseInt of the texts there are: digits first, and 0 for anything else. *)
Digit == [c \in {"0", "1", "2", "3", "4", "5", "6", "7", "8", "9"} |->
            CHOOSE n \in 0..9 : ToString(n) = c]

RECURSIVE ParseInt(_, _)
ParseInt(text, sofar) ==
  IF text = <<>> \/ Head(text) \notin DOMAIN Digit THEN sofar
  ELSE ParseInt(Tail(text), 10 * sofar + Digit[Head(text)])

RECURSIVE StringOf(_)
StringOf(n) == (IF n < 10 THEN <<>> ELSE StringOf(n \div 10)) \o <<ToString(n % 10)>>

Field(object, key) == IF key \in DOMAIN object THEN object[key] ELSE Value(<<"0">>)
Number(object, key) ==
  LET node == Field(object, key) IN IF node.kind = "value" THEN ParseInt(node.text, 0) ELSE 0
ManifestOf(object) ==
  IF <<"manifest">> \in DOMAIN object /\ object[<<"manifest">>].kind = "value"
  THEN object[<<"manifest">>].text ELSE NoManifest

Item(object, size) ==
  [timeupdated |-> Number(object, <<"timeupdated">>), size |-> Number(object, size),
   manifest |-> ManifestOf(object)]

BlockAt(object, key) ==
  IF key \in DOMAIN object /\ object[key].kind = "block" THEN object[key].object ELSE NoKeys
BlocksOf(object) == {k \in DOMAIN object : object[k].kind = "block"}

(* parseContent: a file it cannot parse fails, one with another root has   *)
(* no items.                                                               *)
ParseContent(text) ==
  LET parsed    == ParseVdf(text)
      installed == BlockAt(BlockAt(parsed.object, ACF_ROOT_KEY), Installed)
  IN IF ~parsed.ok THEN Failure
     ELSE [ok |-> TRUE,
           items |-> [id \in BlocksOf(installed) |-> Item(installed[id].object, <<"size">>)]]

(* write: nothing of the file but its items is kept.                       *)
ItemsToVdf(items) ==
  [id \in DOMAIN items |->
     Block((<<"timeupdated">> :> Value(StringOf(items[id].timeupdated)))
           @@ (<<"size">> :> Value(StringOf(items[id].size)))
           @@ (IF items[id].manifest \in {NoManifest, <<>>} THEN NoKeys
               ELSE <<"manifest">> :> Value(items[id].manifest)))]

Written(items) ==
  SerializeVdf(ACF_ROOT_KEY :> Block((<<"appid">> :> Value(AppId))
                                     @@ (Installed :> Block(ItemsToVdf(items))))).text

(* The staging directory: listStagingItems and parseStagingItem read the   *)
(* items, readStagingDetail what SteamCMD noted when it tried.             *)
ParseStagingItem(text, id) ==
  LET parsed == ParseContent(text)
  IN IF ~parsed.ok THEN Failure
     ELSE IF id \in DOMAIN parsed.items THEN [ok |-> TRUE, item |-> parsed.items[id]]
     ELSE [ok |-> TRUE, item |-> NoManifest]

ReadStagingDetail(text, id) ==
  LET parsed  == ParseVdf(text)
      details == BlockAt(BlockAt(parsed.object, ACF_ROOT_KEY), Details)
      meta    == BlockAt(details, id)
      size    == IF <<"BytesToDownload">> \in DOMAIN meta THEN <<"BytesToDownload">> ELSE <<"size">>
  IN IF ~parsed.ok THEN Failure
     ELSE IF id \in BlocksOf(details) THEN [ok |-> TRUE, item |-> Item(meta, size)]
     ELSE [ok |-> TRUE, item |-> NoManifest]
-----------------------------------------------------------------------------
(* Vdf and Acf against what they should do, over small texts.              *)
Alphabet == {"\"", "\\", "n", "{", "/", " "}
Texts(n) == UNION {[1..k -> Alphabet] : k \in 0..n}

Objects ==
  LET leaves == {Value(s) : s \in Texts(2)} IN
  {NoKeys} \cup {k :> v : k \in Texts(2), v \in leaves} \cup
  {(k :> Block(<<"a">> :> Value(s))) @@ (<<"b">> :> Value(k)) : k \in Texts(1), s \in Texts(1)} \cup
  {k :> Block(k :> Block(NoKeys)) : k \in Texts(1)}

Root(object) == <<"root">> :> Block(object)

(* What serializeVdf writes parseVdf reads back, whatever quotes,          *)
(* backslashes, braces and slashes keys and values hold.                   *)
ASSUME VdfRoundTrip ==
  \A o \in Objects : ParseVdf(SerializeVdf(Root(o)).text) = [ok |-> TRUE, object |-> Root(o)]

(* A file of which only the first part was written is refused, never read  *)
(* as fewer items: only an empty one passes, as no items.                  *)
ASSUME TornIsRefused ==
  \A o \in Objects : LET text == SerializeVdf(Root(o)).text
                     IN \A n \in 1..(Len(text) - 1) : ParseVdf(SubSeq(text, 1, n)) = Failure

(* Comments change nothing, wherever a token may stand.                    *)
ASSUME CommentsAreSkipped ==
  \A comment \in {<<"/", "/", "\"", "{", "\n">>, <<"/", "*", "\"", "/", "*", "/">>} :
    \A o \in {NoKeys, <<"a">> :> Value(<<>>), <<"a">> :> Block(NoKeys)} :
      LET text == SerializeVdf(Root(o)).text
      IN \A n \in {k \in 0..Len(text) : k = Len(text) \/ text[k + 1] \in {" ", "\n", "\t", "{", "}"}} :
           ParseVdf(SubSeq(text, 1, n) \o comment \o SubSeq(text, n + 1, Len(text))) = ParseVdf(text)

(* The items written are the items read, manifests with any character      *)
(* included.                                                               *)
ASSUME ItemsAreKept ==
  \A size \in {0, 7, 10, 304930}, manifest \in (Texts(2) \ {<<>>}) \cup {NoManifest} :
    LET items == (<<"1">> :> [timeupdated |-> 12, size |-> size, manifest |-> manifest])
                 @@ (<<"2">> :> [timeupdated |-> 0, size |-> 3, manifest |-> NoManifest])
    IN /\ ParseContent(Written(items)) = [ok |-> TRUE, items |-> items]
       /\ ParseStagingItem(Written(items), <<"1">>).item = items[<<"1">>]
       /\ ReadStagingDetail(Written(items), <<"1">>).item = NoManifest
=============================================================================
