------------------------------ MODULE MCCombat ------------------------------
(* A small instance of Combat: two stages, the first passed from the start, *)
(* dice with two outcomes, and a level table of four levels.  The second   *)
(* stage plays a town of three steps: the first has an entrance without a   *)
(* table row and two exits, the second an entrance that leads nowhere and   *)
(* one that leads to itself before its exit, the third nothing to show.     *)
EXTENDS CombatLedger, TLC

MCLevels == {1, 2}
MCFirstPlot == 1
MCGoals == {1}
MCPrice == 1 :> 0 @@ 2 :> 1
MCDrops == 1 :> {[items |-> 1, exp |-> 0]}
        @@ 2 :> {[items |-> 0, exp |-> 1], [items |-> 1, exp |-> 2]}
MCFirstDrops == 1 :> {[items |-> 5, exp |-> 0]}
             @@ 2 :> {[items |-> 3, exp |-> 1]}
MCNextLevel == 1 :> 2 @@ 2 :> 0
MCLevelExp == <<1, 2, 1>>
MCDatingOf == 1 :> {} @@ 2 :> {1}
MCSteps == 1 :> <<[id |-> 11, events |-> <<1, 2, 3>>],
                  [id |-> 12, events |-> <<4, 5, 6>>],
                  [id |-> 13, events |-> <<7>>]>>
MCJump == 2 :> 12 @@ 3 :> 13 @@ 4 :> 0 @@ 5 :> 12 @@ 6 :> 13 @@ 7 :> 11
=============================================================================
