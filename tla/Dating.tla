------------------------------- MODULE Dating -------------------------------
(***************************************************************************)
(* Story stages, work/offline/dating_handlers.py: which scripts were ever   *)
(* started, and the one that runs now, which the request for the last node  *)
(* does not name.                                                           *)
(***************************************************************************)
EXTENDS Integers

CONSTANT Scripts      \* DatingRule rows with a start node

NoScript == 0

(* dating_script: only a first start is reported as a change.               *)
IsFirst(s, r) == r \notin s.seen

Started(s, r) == [s EXCEPT !.seen = @ \cup {r}, !.running = r]

(* dating_settlement, for the last node                                     *)
Runs(s) == s.running # NoScript

Ended(s) == [s EXCEPT !.running = NoScript]
=============================================================================
