---------------------------- MODULE StartCommand ----------------------------
(***************************************************************************)
(* What the panel finds on the disk before a server runs: the instances    *)
(* (ServerDiscovery), the start script of U3DS and the start command       *)
(* (startScript), which ServerManager saves in the settings and types into *)
(* the bash.  A command is a sequence of words; a word that is a server    *)
(* argument names an instance.  Numbers in a file are kept as text.        *)
(***************************************************************************)
EXTENDS Naturals, Sequences, FiniteSets, SequencesExt

CONSTANTS
  NumberOf(_),   \* parseInt of a text, or NotANumber
  TextOf(_),     \* the text of a number
  NotANumber

Word(text)        == [prefix |-> "", text |-> text]
ServerArg(mode, id) == [prefix |-> mode, text |-> id]

SERVER_ARG_PREFIXES == {"+internetserver/", "+lanserver/", "+secureserver/", "+insecureserver/"}

ServerWords(tokens) == {i \in DOMAIN tokens : tokens[i].prefix \in SERVER_ARG_PREFIXES}

(* The words behind the first server argument move in front of it.         *)
NormalizeStartCommand(tokens) ==
  LET serverIdx == CHOOSE i \in ServerWords(tokens) : \A j \in ServerWords(tokens) : i <= j
  IN IF ServerWords(tokens) = {} \/ serverIdx = Len(tokens)
     THEN [command |-> tokens, changed |-> FALSE]
     ELSE [command |-> Append(RemoveAt(tokens, serverIdx), tokens[serverIdx]), changed |-> TRUE]

(* U3DS (external): everything from the first server argument to the end   *)
(* of the line is the id; ServerHelper.sh passes its arguments on.         *)
TryGetServer(tokens) ==
  LET first == CHOOSE i \in ServerWords(tokens) : \A j \in ServerWords(tokens) : i <= j
  IN IF ServerWords(tokens) = {} THEN <<>>
     ELSE <<tokens[first].text>> \o SubSeq(tokens, first + 1, Len(tokens))
-----------------------------------------------------------------------------
StartScriptNames(platform) ==
  IF platform \in {"linux", "darwin"} THEN <<"ServerHelper.sh", "ExampleServer.sh">> ELSE <<>>

(* A directory that cannot be read has no files; "" is no script. *)
DetectStartScript(files, platform) ==
  LET names == SelectSeq(StartScriptNames(platform), LAMBDA n : n \in files)
  IN IF names = <<>> THEN "" ELSE Head(names)

(* A saved command is typed as it is after its words were put in order; a  *)
(* command that was built is kept until the panel ends, and never saved.   *)
BuildStartCommand(id, files, platform) ==
  LET script == DetectStartScript(files, platform)
  IN IF script = "" THEN <<>>
     ELSE <<Word(script), Word("-ThreadedConsole"), ServerArg("+internetserver/", id)>>

(* startPty: the command it types, what the configuration and the settings *)
(* hold afterwards; <<>> is no command, and typed = <<>> is the 409.       *)
StartPtyCommand(id, command, saved, files, platform) ==
  IF command = <<>>
  THEN LET built == BuildStartCommand(id, files, platform)
       IN [typed |-> built, command |-> built, saved |-> saved]
  ELSE LET n == NormalizeStartCommand(command)
       IN [typed |-> n.command, command |-> n.command,
           saved |-> IF n.changed THEN n.command ELSE saved]

(* restoreStartCommand, for an instance that was found at startup.         *)
RestoreStartCommand(saved) ==
  LET n == NormalizeStartCommand(saved)
  IN [command |-> n.command, saved |-> IF n.changed THEN n.command ELSE saved]
-----------------------------------------------------------------------------
(* Commands.dat as far as an instance is known by it: [key, value] lines,  *)
(* of a key that is repeated the last one counts.  A value of blanks is no *)
(* value once it is read.                                                  *)
Trim(v) == IF v = " " THEN "" ELSE v

Known(lines, key) ==
  LET at == {i \in DOMAIN lines : lines[i].key = key}
  IN IF at = {} THEN "" ELSE Trim(lines[CHOOSE i \in at : \A j \in at : j <= i].value)

(* parseInt of text; zero and no number give way to the default.           *)
GamePort(v) ==
  LET text == IF v = "" THEN "27015" ELSE v
  IN IF NumberOf(text) \in {0, NotANumber} THEN 27015 ELSE NumberOf(text)

(* What is below Servers/, nothing when it is not there: directories and   *)
(* others, with a Commands.dat that is absent, unreadable or readable.     *)
ScanSync(servers) ==
  {[id |-> id,
    name |-> IF Known(servers[id].lines, "Name") = "" THEN id
             ELSE Known(servers[id].lines, "Name"),
    gamePort |-> GamePort(Known(servers[id].lines, "Port")),
    ownerSteamId |-> Known(servers[id].lines, "Owner")] :
    id \in {x \in DOMAIN servers : servers[x].directory /\ servers[x].commandsDat = "readable"}}

(* What createServer writes into an empty Commands.dat, and configureServer*)
(* over one that is there.                                                 *)
CommandsDatOf(config) ==
  <<[key |-> "Name", value |-> config.name], [key |-> "Port", value |-> TextOf(config.gamePort)],
    [key |-> "Owner", value |-> config.ownerSteamId]>>

Configured(lines, patch) ==
  LET value(k) == CASE k = "Name"  -> patch["name"]
                    [] k = "Port"  -> TextOf(patch["gamePort"])
                    [] k = "Owner" -> patch["ownerSteamId"]
      patched  == {k \in {"Name", "Port", "Owner"} :
                     [Name |-> "name", Port |-> "gamePort", Owner |-> "ownerSteamId"][k] \in DOMAIN patch}
      keys     == {lines[i].key : i \in DOMAIN lines} \cup patched
      now(k)   == IF k \in patched THEN value(k) ELSE Known(lines, k)
  IN SetToSeq({[key |-> k, value |-> now(k)] : k \in keys})
=============================================================================
