---------------------------- MODULE ConsolePage ----------------------------
(***************************************************************************)
(* The console page of one tab: the command line with its dialog, and the  *)
(* two buttons whose requests wait for an answer.  While "pending" is set  *)
(* the buttons are disabled; the command line is not, and a Shutdown typed *)
(* there is a request as well, so two of them may be under way and the     *)
(* first answer enables the buttons again.                                 *)
(*                                                                         *)
(* The module holds the state and the operations; Console composes them    *)
(* with the panel.                                                         *)
(***************************************************************************)
EXTENDS Naturals

CONSTANTS
  None,
  MaxArguments   \* bound: arguments of a command

VARIABLES
  confirm,   \* showConfirm: the command the dialog shows, or None
  asking,    \* confirmAction: the dialog of the shutdown button is open
  pending    \* pendingAction: "save", "shutdown", or None

pageVars == <<confirm, asking, pending>>

Command(name, args) == [name |-> name, args |-> args]

(* The words that are asked about, and the buttons above the terminal.     *)
Dangerous == {"shutdown"}
Presets   == {"kick"}
Words     == Dangerous \cup Presets

PageTypeOK ==
  /\ confirm \in [name : Words, args : 0..MaxArguments] \cup {None}
  /\ asking \in BOOLEAN
  /\ pending \in {"save", "shutdown", None}

PageInit ==
  /\ confirm = None
  /\ asking = FALSE
  /\ pending = None

DialogShown == confirm # None \/ asking

(* handleSend up to the question: a dangerous command goes through only if *)
(* it is the one the dialog shows.                                         *)
Asked(c) == c.name \in Dangerous /\ confirm # c

AskAbout(c) ==
  /\ Asked(c)
  /\ confirm' = c
  /\ UNCHANGED <<asking, pending>>

Through(c) == ~Asked(c) /\ confirm' = None

(* What the user may hand to handleSend: the line typed; with the dialog   *)
(* open, Enter in the line confirms what it shows, and its own button adds *)
(* what was typed there, as often as it is pressed.                        *)
Handed ==
  IF confirm = None
  THEN {Command(w, n) : w \in IF asking THEN {} ELSE Words, n \in 0..MaxArguments}
  ELSE {Command(confirm.name, n) : n \in confirm.args..MaxArguments}

PressPreset(w) ==
  /\ ~DialogShown
  /\ confirm' = Command(w, 0)
  /\ UNCHANGED <<asking, pending>>

Cancel ==
  /\ DialogShown
  /\ confirm' = None /\ asking' = FALSE
  /\ UNCHANGED pending

PressShutdown ==
  /\ ~DialogShown /\ pending = None
  /\ asking' = TRUE
  /\ UNCHANGED <<confirm, pending>>

(* runAck: the buttons are disabled until the answer, whatever it is.      *)
RunAck(action)  == pending' = action
AckSettles      == pending' = None /\ UNCHANGED <<confirm, asking>>
=============================================================================
