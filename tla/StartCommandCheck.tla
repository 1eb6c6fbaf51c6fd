-------------------------- MODULE StartCommandCheck --------------------------
(* StartCommand against what U3DS and a restart of the panel need.          *)
EXTENDS Integers, Sequences, FiniteSets

PortOf(t)     == CASE t = "27015" -> 27015 [] t = "27016" -> 27016 [] t = "0" -> 0 [] OTHER -> -1
PortText(n)   == IF n = 27016 THEN "27016" ELSE "27015"

U == INSTANCE StartCommand WITH NotANumber <- -1, NumberOf <- PortOf, TextOf <- PortText

Arguments == {U!ServerArg("+internetserver/", "a"), U!ServerArg("+lanserver/", "b")}
Options   == {U!Word("./ServerHelper.sh"), U!Word("-x")}
CommandsUpTo(n) == UNION {[1..k -> Arguments \cup Options] : k \in 1..n}
Named(c) == {c[i].text : i \in U!ServerWords(c)}

(* "+InternetServer/<id> must be the last argument": whatever a user has    *)
(* typed, with one server argument U3DS reads the id and nothing else, no   *)
(* option is lost or reordered, and the command is in order from then on.   *)
ASSUME U3DSReadsTheId ==
  \A c \in CommandsUpTo(4) :
    Cardinality(U!ServerWords(c)) = 1 =>
      LET n == U!NormalizeStartCommand(c).command
      IN /\ {U!TryGetServer(n)} = {<<i>> : i \in Named(c)}
         /\ ~U!NormalizeStartCommand(n).changed
         /\ SelectSeq(n, LAMBDA w : w.prefix = "") = SelectSeq(c, LAMBDA w : w.prefix = "")

(* A command with two of them is never in order: each start swaps the two   *)
(* and saves it again, and U3DS reads the other argument as part of the id. *)
ASSUME TwoIdsNeverSettle ==
  \A c \in CommandsUpTo(4) :
    Cardinality(U!ServerWords(c)) > 1 =>
      LET n == U!NormalizeStartCommand(c).command
      IN U!NormalizeStartCommand(n).changed /\ U!TryGetServer(n) \notin {<<i>> : i \in Named(c)}

Places == SUBSET {"ServerHelper.sh", "ExampleServer.sh", "Unturned"}

(* A start and a restart of the panel agree: what a start types is what it  *)
(* types again, and, when the user saved a command, what it types after the *)
(* panel was restarted; it types nothing only without any command and       *)
(* without a script.                                                        *)
ASSUME StartsAgree ==
  \A files \in Places, platform \in {"linux", "win32"},
     saved \in {<<>>} \cup CommandsUpTo(3) :
    LET found == U!RestoreStartCommand(saved)
        one   == U!StartPtyCommand("a", found.command, found.saved, files, platform)
        two   == U!StartPtyCommand("a", one.command, one.saved, files, platform)
        again == U!RestoreStartCommand(one.saved)
        after == U!StartPtyCommand("a", again.command, again.saved, files, platform)
    IN /\ one.typed = <<>> <=> saved = <<>> /\ U!DetectStartScript(files, platform) = ""
       /\ (Cardinality(U!ServerWords(saved)) < 2) =>
            one.typed = two.typed /\ one.typed = after.typed

Configs == [name : {"Mine", " "}, gamePort : {27015, 27016}, ownerSteamId : {"7656", "7657"}]
Patches == {[name |-> "Yours"], [gamePort |-> 27016], [ownerSteamId |-> "7657"],
            [name |-> "Yours", gamePort |-> 27015]}
OnDisk(lines) == [x \in {"a"} |-> [directory |-> TRUE, commandsDat |-> "readable", lines |-> lines]]
Apply(config, patch) ==
  [f \in DOMAIN config |-> IF f \in DOMAIN patch THEN patch[f] ELSE config[f]]

(* A restart of the panel finds an instance as it was created and           *)
(* configured; only a name of blanks becomes the id.                        *)
ASSUME RestartFindsInstances ==
  \A config \in Configs, patch \in Patches :
    LET lines == U!CommandsDatOf(config)
        found(l) == U!ScanSync(OnDisk(l))
        shown(c) == [id |-> "a", name |-> IF c.name = " " THEN "a" ELSE c.name,
                     gamePort |-> c.gamePort, ownerSteamId |-> c.ownerSteamId]
    IN /\ found(lines) = {shown(config)}
       /\ found(U!Configured(lines, patch)) = {shown(Apply(config, patch))}

(* Of what is below Servers/ only a directory with a Commands.dat that can  *)
(* be read is an instance, and each has a port.                             *)
ASSUME OnlyInstancesAreFound ==
  \A d \in BOOLEAN, k \in {"absent", "unreadable", "readable"}, p \in {"", "0", "27016", "x"} :
    LET found == U!ScanSync([x \in {"a"} |-> [directory |-> d, commandsDat |-> k,
                                lines |-> <<[key |-> "Port", value |-> "1"],
                                            [key |-> "Port", value |-> p]>>]])
    IN /\ found # {} <=> d /\ k = "readable"
       /\ \A s \in found : s.gamePort = IF p = "27016" THEN 27016 ELSE 27015
=============================================================================
