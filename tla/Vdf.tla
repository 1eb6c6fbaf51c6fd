--------------------------------- MODULE Vdf ---------------------------------
(***************************************************************************)
(* VdfParser.ts, which reads and writes the files in which SteamCMD keeps  *)
(* what it downloaded.  A text is a sequence of characters, and a word     *)
(* without special characters may stand for one.  Objects are functions    *)
(* from keys, which are texts, to nodes.                                   *)
(***************************************************************************)
EXTENDS Naturals, Sequences, FiniteSets, TLC

Failure == [ok |-> FALSE]

After(s, n) == SubSeq(s, n + 1, Len(s))
StartsWith(text, mark) == Len(text) >= Len(mark) /\ SubSeq(text, 1, Len(mark)) = mark

(* The text from the first place where a mark stands, or nothing.          *)
From(text, mark) ==
  LET places == {n \in 1..Len(text) : StartsWith(After(text, n - 1), mark)}
  IN IF places = {} THEN <<>>
     ELSE After(text, (CHOOSE n \in places : \A k \in places : n <= k) - 1)

Escapes == [c \in {"\"", "\\", "n", "t"} |-> CASE c = "n" -> "\n" [] c = "t" -> "\t" [] OTHER -> c]

(* After the opening quote; other backslashes stand for themselves.        *)
RECURSIVE ReadQuotedString(_)
ReadQuotedString(text) ==
  IF text = <<>> THEN Failure
  ELSE IF Head(text) = "\"" THEN [ok |-> TRUE, value |-> <<>>, rest |-> Tail(text)]
  ELSE LET escaped == Len(text) > 1 /\ Head(text) = "\\" /\ text[2] \in DOMAIN Escapes
           more    == ReadQuotedString(After(text, IF escaped THEN 2 ELSE 1))
       IN IF more.ok
          THEN [more EXCEPT !.value = <<IF escaped THEN Escapes[text[2]] ELSE Head(text)>> \o more.value]
          ELSE Failure

OpenBrace  == [type |-> "openBrace"]
CloseBrace == [type |-> "closeBrace"]
IllegalEnd == [type |-> "error"]
Word(value) == [type |-> "string", value |-> value]

(* The tokens, the last of them IllegalEnd where the code throws.          *)
RECURSIVE Tokenize(_)
Tokenize(text) ==
  CASE text = <<>>                       -> <<>>
    [] StartsWith(text, <<"/", "/">>)    -> Tokenize(From(text, <<"\n">>))
    [] StartsWith(text, <<"/", "*">>)    -> Tokenize(After(From(After(text, 2), <<"*", "/">>), 2))
    [] StartsWith(text, <<"{">>)         -> <<OpenBrace>> \o Tokenize(Tail(text))
    [] StartsWith(text, <<"}">>)         -> <<CloseBrace>> \o Tokenize(Tail(text))
    [] StartsWith(text, <<"\"">>)        ->
         LET read == ReadQuotedString(Tail(text))
         IN IF read.ok THEN <<Word(read.value)>> \o Tokenize(read.rest) ELSE <<IllegalEnd>>
    [] text # <<>> /\ Head(text) \in {" ", "\n", "\t"} -> Tokenize(Tail(text))
    [] OTHER                             -> <<IllegalEnd>>

Value(text)   == [kind |-> "value", text |-> text]
Block(object) == [kind |-> "block", object |-> object]
NoKeys        == [k \in {} |-> Value(<<>>)]
Put(object, key, node) == (key :> node) @@ object

(* Up to the closing brace; a key given twice has its last value.          *)
RECURSIVE ParseBlock(_, _)
ParseBlock(tokens, out) ==
  CASE tokens = <<>> -> Failure
    [] tokens # <<>> /\ Head(tokens) = CloseBrace ->
         [ok |-> TRUE, object |-> out, rest |-> Tail(tokens)]
    [] Len(tokens) > 1 /\ Head(tokens).type = "string" /\ tokens[2].type = "string" ->
         ParseBlock(After(tokens, 2), Put(out, tokens[1].value, Value(tokens[2].value)))
    [] Len(tokens) > 1 /\ Head(tokens).type = "string" /\ tokens[2] = OpenBrace ->
         LET nested == ParseBlock(After(tokens, 2), NoKeys)
         IN IF nested.ok
            THEN ParseBlock(nested.rest, Put(out, tokens[1].value, Block(nested.object)))
            ELSE Failure
    [] OTHER -> Failure

(* What follows the block of the root is not looked at.                    *)
ParseVdf(text) ==
  LET tokens == Tokenize(text)
      block  == ParseBlock(After(tokens, 2), NoKeys)
  IN CASE tokens = <<>> -> [ok |-> TRUE, object |-> NoKeys]
       [] tokens # <<>> /\ (tokens[Len(tokens)] = IllegalEnd \/ Len(tokens) = 1) -> Failure
       [] Len(tokens) > 1 /\ tokens[Len(tokens)] # IllegalEnd ->
            IF Head(tokens).type = "string" /\ tokens[2] = OpenBrace /\ block.ok
            THEN [ok |-> TRUE, object |-> Head(tokens).value :> Block(block.object)]
            ELSE Failure
-----------------------------------------------------------------------------
RECURSIVE EscapeVdfString(_)
EscapeVdfString(s) ==
  IF s = <<>> THEN <<>>
  ELSE (IF Head(s) \in {"\"", "\\"} THEN <<"\\", Head(s)>> ELSE <<Head(s)>>)
       \o EscapeVdfString(Tail(s))

Quote(s) == <<"\"">> \o EscapeVdfString(s) \o <<"\"">>

(* The order of the keys is any; a blank stands for the indentation.       *)
RECURSIVE SerializeBlock(_)
SerializeBlock(object) ==
  IF object = NoKeys THEN <<"\n">>
  ELSE LET key  == CHOOSE k \in DOMAIN object : TRUE
           node == object[key]
       IN <<" ">> \o Quote(key)
          \o (IF node.kind = "value" THEN <<"\t">> \o Quote(node.text)
              ELSE <<"\n", "{", "\n">> \o SerializeBlock(node.object) \o <<"}">>)
          \o <<"\n">> \o SerializeBlock([k \in DOMAIN object \ {key} |-> object[k]])

(* Only an object of one key, which holds an object, has a text.           *)
SerializeVdf(object) ==
  IF Cardinality(DOMAIN object) # 1 THEN Failure
  ELSE LET root == CHOOSE k \in DOMAIN object : TRUE
       IN IF object[root].kind # "block" THEN Failure
          ELSE [ok |-> TRUE,
                text |-> Quote(root) \o <<"\n", "{", "\n">> \o SerializeBlock(object[root].object) \o <<"}">>]
=============================================================================
