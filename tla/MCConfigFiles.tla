---------------------------- MODULE MCConfigFiles ----------------------------
(* Small instances of ConfigFiles for TLC: a file of ConfigService, which   *)
(* is also written without the lock, and one of LDM.                        *)
EXTENDS ConfigFiles, TLC

CONSTANTS p1, p2, workshopJson, rocketXml

TwoWriters == {p1, p2}

TwoPaths == {workshopJson, rocketXml}

AllKindsAt == workshopJson :> {"config", "files", "upload", "mods", "move"}
                @@ rocketXml :> {"ldm", "files", "delete"}
=============================================================================
