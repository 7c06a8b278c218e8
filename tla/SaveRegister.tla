---------------------------- MODULE SaveRegister ----------------------------
(***************************************************************************)
(* What player_save.save and load_save promise together: the file holds one *)
(* whole document, and each save replaces it in one step by the document    *)
(* being saved, or not at all.                                              *)
(***************************************************************************)
CONSTANTS Savers, Docs, Missing, NoDoc

VARIABLES
  file,     \* the document in the file, or Missing before the first save
  pending   \* pending[a]: the document a is about to put there, or NoDoc

vars == <<file, pending>>

Init == file = Missing /\ pending = [a \in Savers |-> NoDoc]

Begin(a, d) ==
  /\ pending[a] = NoDoc
  /\ pending' = [pending EXCEPT ![a] = d]
  /\ UNCHANGED file

Commit(a) ==
  /\ pending[a] # NoDoc
  /\ file' = pending[a]
  /\ pending' = [pending EXCEPT ![a] = NoDoc]

Abort(a) ==
  /\ pending[a] # NoDoc
  /\ pending' = [pending EXCEPT ![a] = NoDoc]
  /\ UNCHANGED file

Next == \E a \in Savers : (\E d \in Docs : Begin(a, d)) \/ Commit(a) \/ Abort(a)

Spec == Init /\ [][Next]_vars
=============================================================================
