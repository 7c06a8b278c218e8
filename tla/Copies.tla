------------------------------- MODULE Copies -------------------------------
(***************************************************************************)
(* What every handler of the game does with the save, seen from one         *)
(* connection: it changes the copy in memory, tells dispatch whether        *)
(* player.json has to be written, and answers.  The write may fail.         *)
(* Modules that EXTEND this one say what the handlers change.               *)
(***************************************************************************)
EXTENDS Integers

CONSTANT MaxBehind      \* bound: failing writes in a row

ASSUME BoundAssumption == MaxBehind \in Nat

VARIABLES
  mem,     \* the connection's copy of the save
  disk,    \* player.json
  behind   \* number of failed writes since the last good one

copies == <<mem, disk, behind>>

Loaded(s) == mem = s /\ disk = s /\ behind = 0

(* dispatch: the copy in memory is already `new`; it is written if the      *)
(* handler reports a change.  A write that raises leaves the old file.      *)
Answer(new, changed) ==
  /\ mem' = new
  /\ \/ ~changed /\ UNCHANGED <<disk, behind>>
     \/ changed /\ disk' = new /\ behind' = 0
     \/ changed /\ behind < MaxBehind /\ behind' = behind + 1 /\ UNCHANGED disk

(* A reconnect, or a restart of the server: Client.__init__ reads the file. *)
Relog == mem' = disk /\ behind' = 0 /\ UNCHANGED disk

(* handle: PLAYER_LOGIN writes the copy.                                    *)
LoginSave == Answer(mem, TRUE)
=============================================================================
