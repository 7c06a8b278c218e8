------------------------------ MODULE Profile ------------------------------
(***************************************************************************)
(* work/offline/player_handlers.py: name and remark, the step of the        *)
(* new-player guide and the one-off guides that were played.                *)
(***************************************************************************)
EXTENDS Integers, FiniteSets

CONSTANTS
  GuideJumps,   \* steps whose row of the Guide table names a later stepId
  GuideJump,    \* GuideJump[g]: that stepId
  QueryFrom,    \* GUIDE_QUERY_THRESHOLD + 1: from here on an id only asks
  Blank,        \* text that is empty when trimmed
  NotGiven      \* a remark the request does not carry

ASSUME GuideAssumption ==
  /\ GuideJump \in [GuideJumps -> Nat]
  /\ QueryFrom \in Nat

FirstStep == 1

(* new_guide_next_step                                                      *)
NextStep(g) == IF g \in GuideJumps THEN GuideJump[g] ELSE g + 1

(* guide_progress; 0 stands for a save without a step.                      *)
GuideStep(s) == IF s.guide > FirstStep THEN s.guide ELSE FirstStep

Reports(g) == g \in 0..(QueryFrom - 1)

(* Slip: a step that was passed long ago is taken up again.                 *)
MovesAnywhere(s, g) == Reports(g)

MovesOn(s, g) == Reports(g) /\ NextStep(g) > GuideStep(s)

Guided(s, g) == IF MovesOn(s, g) THEN [s EXCEPT !.guide = NextStep(g)] ELSE s

(* set_player_info: no name leaves the name, an empty remark is a remark.   *)
Introduced(s, name, remark) ==
  [s EXCEPT !.name = IF name = Blank THEN @ ELSE name,
            !.remark = IF remark = NotGiven THEN @ ELSE remark]

(* EXPLORE_REQ_ADD_GUIDE_STEP                                               *)
GroupDone(s, g) == IF g > 0 THEN [s EXCEPT !.groups = @ \cup {g}] ELSE s
=============================================================================
