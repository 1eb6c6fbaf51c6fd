------------------------------ MODULE Sessions ------------------------------
(***************************************************************************)
(* SessionManager for one server: the record it holds in memory, the file  *)
(* terminal-sessions.json, the queue that runs one mutation after another, *)
(* and the temporary files on their way to a rename.  A mutation changes   *)
(* the memory and then waits for the write; the content of the write is    *)
(* what the memory says when it begins.                                    *)
(*                                                                         *)
(* The module holds the state and the operations; Console composes them    *)
(* with the terminal that causes them.                                     *)
(***************************************************************************)
EXTENDS Naturals, Sequences, SequencesExt

CONSTANT MaxQueue   \* bound: mutations that wait

VARIABLES
  record,    \* the record of the server: "none", "active" or "inactive"
  file,      \* what the file says of it, or "missing"
  mutations, \* mutationQueue: the mutations that have not begun
  writes,    \* what is being written to temporary files, and for which mutation
  saved      \* history: the last write went well

sessionVars == <<record, file, mutations, writes, saved>>

Records == {"none", "active", "inactive"}
Mutations == {"save", "deactivate", "mark", "touch", "remove", "cleanup"}

SessionsTypeOK ==
  /\ record \in Records
  /\ file \in Records \cup {"missing"}
  /\ mutations \in Seq(Mutations) /\ Len(mutations) <= MaxQueue
  /\ writes \in Seq([by : Mutations, content : Records])
  /\ saved \in BOOLEAN

(* Before initialize: nothing in memory yet.                               *)
SessionsInit ==
  /\ record = "none"
  /\ file \in {"missing", "active", "inactive"}
  /\ mutations = <<>>
  /\ writes = <<>>
  /\ saved = TRUE

(* enqueueMutation: nobody is refused.                                     *)
Enqueue(kinds) ==
  /\ Len(mutations) + Len(kinds) <= MaxQueue
  /\ mutations' = mutations \o kinds
  /\ UNCHANGED <<record, file, writes, saved>>

(* What a mutation makes of the record.  Expiry looks at lastActivity      *)
(* alone, whether the record is active or not.                             *)
Mutated(kind) ==
  CASE kind = "save"       -> {"active"}
    [] kind \in {"deactivate", "mark"} -> IF record = "none" THEN {"none"} ELSE {"inactive"}
    [] kind = "touch"      -> {record}
    [] kind = "remove"     -> {"none"}
    [] kind = "cleanup"    -> {record, "none"}

(* A mutation that finds nothing to change writes nothing.                 *)
Saves(kind, r) == kind = "save" \/ (record # "none" /\ (kind # "cleanup" \/ r = "none"))

(* The next mutation begins when the one before has ended.                 *)
(* Mutant: the mutation runs at once instead of behind the last one.       *)
BeginMutationAtOnce ==
  /\ mutations # <<>>
  /\ mutations' = Tail(mutations)
  /\ \E r \in Mutated(Head(mutations)) :
       /\ record' = r
       /\ writes' = writes \o (IF Saves(Head(mutations), r)
                              THEN <<[by |-> Head(mutations), content |-> r]>> ELSE <<>>)
  /\ UNCHANGED <<file, saved>>
BeginMutation ==
  /\ mutations # <<>> /\ writes = <<>>
  /\ mutations' = Tail(mutations)
  /\ \E r \in Mutated(Head(mutations)) :
       /\ record' = r
       /\ writes' = IF Saves(Head(mutations), r)
                   THEN <<[by |-> Head(mutations), content |-> r]>> ELSE <<>>
  /\ UNCHANGED <<file, saved>>

(* saveConfig: the temporary file is written and renamed.                  *)
WriteEnds(i) ==
  /\ file' = writes[i].content
  /\ writes' = RemoveAt(writes, i)
  /\ saved' = TRUE
  /\ UNCHANGED <<record, mutations>>

(* The disk is full: the temporary file goes, the memory keeps the change. *)
(* Of the callers only saveSession passes the failure on, which nobody     *)
(* handles: the panel ends.                                                *)
WriteFails(i) ==
  /\ writes[i].by # "save"
  /\ writes' = RemoveAt(writes, i)
  /\ saved' = FALSE
  /\ UNCHANGED <<record, file, mutations>>

(* initialize: a file that is missing is written; one that cannot be read  *)
(* ends the start of the panel.                                            *)
Initialize ==
  /\ record' = IF file = "missing" THEN "none" ELSE file
  /\ file' = record'
  /\ saved' = TRUE
  /\ UNCHANGED <<mutations, writes>>

(* The panel dies: what waits or is half written is gone.                  *)
SessionsDie ==
  /\ record' = "none"
  /\ mutations' = <<>>
  /\ writes' = <<>>
  /\ saved' = TRUE
  /\ UNCHANGED file

(* While nothing is under way the file says what the memory says, unless   *)
(* the last write failed.                                                  *)
FileIsRecord == (mutations = <<>> /\ writes = <<>> /\ saved) => file = record
=============================================================================
