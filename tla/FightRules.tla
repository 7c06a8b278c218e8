----------------------------- MODULE FightRules -----------------------------
(***************************************************************************)
(* The dungeon-fight rules of work/offline/combat_handlers.py, as operators *)
(* on one copy of the player save.  A fight is opened by c2s 1793 (its      *)
(* price is taken), played by the client on its own, and settled by c2s     *)
(* 1794 (its rewards are paid).  Only the part of the save these handlers   *)
(* read or write is kept; a currency is one number, a drop table is the set *)
(* of rewards its dice can produce.                                         *)
(***************************************************************************)
EXTENDS Integers, FiniteSets, Sequences, Functions

CONSTANTS
  Levels,      \* stage ids (level cids) of the DungeonLevel table
  FirstPlot,   \* FIRST_PLOT_LEVEL: passed in every save from the start
  Goals,       \* star conditions a settlement may report
  Price,       \* Price[l]: entry cost of stage l, in stamina
  Drops,       \* Drops[l]: what a win of l may pay (rewardDrop)
  FirstDrops,  \* FirstDrops[l]: what the first win adds (firstRewardDrop)
  NextLevel,   \* NextLevel[l]: nextLevelCid of l, 0 when the table has none
  LevelExp,    \* LevelExp[n]: player EXP that leaves player level n
  MaxLevel,    \* last row of the LevelUp table
  MaxFights,   \* bound on fightSequence
  Stamina,     \* stamina of a new save
  Lines,       \* town lines (mainId of the NovelStep table)
  DatingOf,    \* DatingOf[l]: lines played by stage l; none unless CITYDATING
  Steps,       \* Steps[d]: the steps of line d, each with its entrances
  Entrances,   \* entrance events a step may name
  Jump,        \* Jump[e]: stepJump, for the entrances that have a table row
  Usable,      \* entrances whose row says use
  NoRow, NoFight, NoResult  \* absent levelStates row, activeFight, lastFightResult

Fights == 1..MaxFights

(* What a settlement pays: bag items and player EXP (cid 500005).           *)
Reward == [items: Nat, exp: Nat]
Nothing == [items |-> 0, exp |-> 0]
Plus(r, t) == [items |-> r.items + t.items, exp |-> r.exp + t.exp]

(* A levelStates row, and the s2c 1794 body a settlement answers with.      *)
Row == [fightCount: Nat, win: BOOLEAN, goals: SUBSET Goals]
Response == [row: Row, win: BOOLEAN, pay: Reward]
Fight == [seq: Fights, level: Levels]
Result == [seq: Fights, level: Levels, response: Response]

(* One line of the history below: how often fight n was settled, what it    *)
(* paid and whether a first-clear bonus was in it.                          *)
Entry == [times: Nat, pay: Reward]
NoEntry == [times |-> 0, pay |-> Nothing]

(* A cityDatings row.  A line without one is as the row _line creates.      *)
TownRow == [step: Nat, done: SUBSET Entrances]
NewTownRow == [step |-> 0, done |-> {}]

(* The save.  ledger, bonus and walked are history: what was paid, and how  *)
(* often a stage of a line was won.  They travel with the copy that did it, *)
(* so that they roll back with it.                                          *)
Save == [stamina: Nat, bag: Nat, lvl: Nat \ {0}, exp: Nat,
         passed: SUBSET Levels, rows: [Levels -> Row \cup {NoRow}],
         mainLine: Nat, seq: 0..MaxFights,
         active: Fight \cup {NoFight}, last: Result \cup {NoResult},
         lines: [Lines -> TownRow],
         ledger: [Fights -> Entry], bonus: [Levels -> Nat],
         walked: [Lines -> Nat]]

ASSUME ConstantsAssumption ==
  /\ Levels \subseteq Nat \ {0}
  /\ FirstPlot \in Levels
  /\ MaxFights \in Nat
  /\ MaxLevel \in Nat \ {0}
  /\ Stamina \in Nat
  /\ Price \in [Levels -> Nat]
  /\ Drops \in [Levels -> SUBSET Reward]
  /\ FirstDrops \in [Levels -> SUBSET Reward]
  /\ NextLevel \in [Levels -> Nat]

ASSUME TablesAssumption ==
  /\ \A n \in 1..(MaxLevel - 1) : LevelExp[n] \in Nat
  /\ Jump \in [DOMAIN Jump -> Nat]
  /\ Steps \in [Lines -> Seq([id: Nat, events: Seq(Entrances)])]

ASSUME AbsentAssumption ==
  /\ NoRow \notin Row
  /\ NoFight \notin Fight
  /\ NoResult \notin Result

(* Player level and EXP.                                                    *)
Standing(s) == [lvl |-> s.lvl, exp |-> s.exp]

(* default_save(), as far as the fights see it.                             *)
NewSave ==
  [stamina |-> Stamina, bag |-> 0, lvl |-> 1, exp |-> 0,
   passed |-> {FirstPlot}, rows |-> [l \in Levels |-> NoRow],
   mainLine |-> 0, seq |-> 0, active |-> NoFight, last |-> NoResult,
   lines |-> [d \in Lines |-> NewTownRow],
   ledger |-> [n \in Fights |-> NoEntry], bonus |-> [l \in Levels |-> 0],
   walked |-> [d \in Lines |-> 0]]

-----------------------------------------------------------------------------
(* Slips: forgets that the stage may be passed already; never refuses for   *)
(* lack of stamina; forgets to store the new sequence number.               *)
LevelStateUnwon(s, l) ==
  IF s.rows[l] = NoRow THEN [fightCount |-> 0, win |-> FALSE, goals |-> {}]
                       ELSE s.rows[l]
CanPayUnchecked(s, l, q) == TRUE
OpenedSameNumber(s, l, q) ==
  [s EXCEPT !.active = [seq |-> s.seq + 1, level |-> l]]

(* _level_state: the row of a stage, created on first use.  A stage that is *)
(* already in passedLevels starts out won.                                  *)
LevelState(s, l) ==
  IF s.rows[l] = NoRow
    THEN [fightCount |-> 0, win |-> l \in s.passed, goals |-> {}]
    ELSE s.rows[l]

WithRow(s, l) == [s EXCEPT !.rows[l] = LevelState(s, l)]

(* The entry cost: a sweep of q fights pays q times, an ordinary one once.  *)
EntryCost(l, q) == Price[l] * (IF q > 1 THEN q ELSE 1)

CanPay(s, l, q) == EntryCost(l, q) <= s.stamina

(* _start_fight: the cost is taken, the sequence number advanced and the    *)
(* active fight replaced, whatever it was.                                  *)
Opened(s, l, q) ==
  [s EXCEPT !.stamina = @ - EntryCost(l, q),
            !.seq = @ + 1,
            !.active = [seq |-> s.seq + 1, level |-> l]]

-----------------------------------------------------------------------------
(* Slip: climbs and keeps the EXP that paid for the level.                  *)
ClimbStepKeepsExp(p) ==
  IF p.lvl < MaxLevel /\ LevelExp[p.lvl] > 0 /\ p.exp >= LevelExp[p.lvl]
    THEN [p EXCEPT !.lvl = @ + 1]
    ELSE p

(* One turn of the loop of _apply_player_exp.  It breaks off at the last    *)
(* level, where the table has no positive row (0 here), and where the EXP   *)
(* does not reach.                                                          *)
ClimbStep(p) ==
  IF p.lvl < MaxLevel /\ LevelExp[p.lvl] > 0 /\ p.exp >= LevelExp[p.lvl]
    THEN [lvl |-> p.lvl + 1, exp |-> p.exp - LevelExp[p.lvl]]
    ELSE p

(* _apply_player_exp: where a gain of EXP leaves p, a level and its EXP.    *)
(* The loop has come to rest after MaxLevel turns; the last level keeps no  *)
(* EXP, and no gain leaves p alone.                                         *)
Climbed(p, gain) ==
  LET climb[n \in 0..MaxLevel] ==
        IF n = 0 THEN [p EXCEPT !.exp = @ + gain] ELSE ClimbStep(climb[n - 1])
      top == climb[MaxLevel]
  IN IF gain = 0 THEN p
     ELSE IF top.lvl >= MaxLevel THEN [top EXCEPT !.exp = 0] ELSE top

-----------------------------------------------------------------------------
(* _current_step: the step the row names, or the first if none has that id. *)
CurrentStep(row, d) ==
  IF \E i \in DOMAIN Steps[d] : Steps[d][i].id = row.step
    THEN Steps[d][CHOOSE i \in DOMAIN Steps[d] : Steps[d][i].id = row.step]
    ELSE Steps[d][1]

(* dating_info: asking where a line stands stores its current step.         *)
Visited(row, d) == [row EXCEPT !.step = CurrentStep(row, d).id]

HasEntrance(row, d) ==
  \E i \in DOMAIN CurrentStep(row, d).events :
    CurrentStep(row, d).events[i] \in Usable \cap DOMAIN Jump

(* advance_line looks at the entrances of the current step in order and     *)
(* leaves by the first that leads anywhere else.                            *)
Leaves(row, events, i) ==
  events[i] \in DOMAIN Jump /\ Jump[events[i]] \notin {0, row.step}

IsExit(row, events, i) ==
  Leaves(row, events, i) /\ \A j \in 1..(i - 1) : ~Leaves(row, events, j)

(* Slip: the last entrance that leads elsewhere is taken.                   *)
AdvancedByLast(row, d) ==
  LET events == CurrentStep(row, d).events
      X == {i \in DOMAIN events : Leaves(row, events, i)}
  IN IF X = {} THEN row
     ELSE [row EXCEPT !.step = Jump[events[CHOOSE i \in X : \A j \in X : i >= j]]]

(* The entrances up to the exit are done, and the step is where it jumps.   *)
Advanced(row, d) ==
  LET events == CurrentStep(row, d).events
      exits == {i \in DOMAIN events : IsExit(row, events, i)}
      passed == {i \in DOMAIN events : \A x \in exits : i <= x}
  IN IF Steps[d] = <<>> THEN row
     ELSE [step |-> IF exits = {} THEN row.step
                    ELSE Jump[events[CHOOSE x \in exits : TRUE]],
           done |-> row.done \cup {events[i] : i \in {j \in passed : events[j] \in DOMAIN Jump}}]

-----------------------------------------------------------------------------
(* Slips: settles whatever fight is open; pays the bonus of every win;      *)
(* stores the answer before the payment is in it.                           *)
HasAnyFight(s, l) == s.active # NoFight
IsAnyClear(s, l, win) == win
ResponseUnpaid(s, l, win, goals, pay) ==
  [row |-> LevelState(s, l), win |-> win, pay |-> Nothing]

(* _fight_over has a fight to settle only if one is open on that stage: the *)
(* request names the stage and not the fight.                               *)
HasFight(s, l) == s.active # NoFight /\ s.active.level = l

(* _last_result: the stored answer, if it was about this stage.             *)
CanReplay(s, l) == s.last # NoResult /\ s.last.level = l

IsFirstClear(s, l, win) == win /\ ~LevelState(s, l).win

(* _clear_rewards, regular and first-clear, for the given dice.             *)
Payment(s, l, win, roll, extra) ==
  IF ~win THEN Nothing
  ELSE IF IsFirstClear(s, l, win) THEN Plus(roll, extra) ELSE roll

SettledRow(s, l, win, goals) ==
  LET row == LevelState(s, l)
  IN [fightCount |-> row.fightCount + 1, win |-> row.win \/ win,
      goals |-> row.goals \cup goals]

SettledResponse(s, l, win, goals, pay) ==
  [row |-> SettledRow(s, l, win, goals), win |-> win, pay |-> pay]

FurtherOf(m, n) == IF m > n THEN m ELSE n

(* _fight_over with an open fight: row, payment, player level, town lines,  *)
(* passed list, main line, stored answer, and the fight is closed.          *)
Settled(s, l, win, goals, pay) ==
  [s EXCEPT
     !.rows[l] = SettledRow(s, l, win, goals),
     !.bag = @ + pay.items,
     !.lvl = Climbed(Standing(s), pay.exp).lvl,
     !.exp = Climbed(Standing(s), pay.exp).exp,
     !.lines = [d \in Lines |->
        IF win /\ d \in DatingOf[l] THEN Advanced(@[d], d) ELSE @[d]],
     !.passed = IF win THEN @ \cup {l} ELSE @,
     !.mainLine = IF ~win THEN @
                  ELSE IF NextLevel[l] > 0 THEN NextLevel[l]
                  ELSE FurtherOf(@, l),
     !.last = [seq |-> s.active.seq, level |-> l,
               response |-> SettledResponse(s, l, win, goals, pay)],
     !.active = NoFight,
     !.ledger[s.active.seq] = [times |-> @.times + 1, pay |-> pay],
     !.bonus[l] = IF IsFirstClear(s, l, win) THEN @ + 1 ELSE @,
     !.walked = [d \in Lines |->
        IF win /\ d \in DatingOf[l] THEN @[d] + 1 ELSE @[d]]]
=============================================================================
