----------------------------- MODULE MCFilesPage -----------------------------
(* A small instance of FilesPage for TLC. *)
EXTENDS FilesPage

CONSTANTS s1, s2

TwoInstances == {s1, s2}

(* One instance of two, and a file that belongs to none.                   *)
SmallDisk == <<"Servers">> :> "dir" @@ Home(s1) :> "dir" @@ Home(s1) \o <<"Server">> :> "dir"
             @@ CommandsDat(s1) :> "commands" @@ <<"a.log">> :> "text"
=============================================================================
