------------------------------- MODULE Combat -------------------------------
(***************************************************************************)
(* The fight lifecycle as the server runs it.  Every connection is a thread *)
(* of tcp_server.py that loads its own copy of the save when it is accepted *)
(* and answers requests from that copy; a handler that changed the copy     *)
(* writes the whole copy back to player.json before it replies.  A client   *)
(* may send any fight request at any time: a settlement twice, one for a    *)
(* stage it did not start, a start on top of an open fight.                 *)
(*                                                                         *)
(* The write of the file is one step here; module SaveFile opens it up.     *)
(***************************************************************************)
EXTENDS FightRules

CONSTANTS
  Conns,          \* connections that may be open at the same time
  Sweeps,         \* values of quickCount a start may carry
  Overlap,        \* may a connection be accepted while another is open?
  WriteMayFail,   \* may persist raise (disk full, file held open by a reader)?
  NoSave          \* memory of a connection that is closed

ASSUME CombatAssumption ==
  /\ Sweeps \subseteq Nat
  /\ Overlap \in BOOLEAN
  /\ WriteMayFail \in BOOLEAN
  /\ NoSave \notin Save

VARIABLES
  mem,    \* mem[c]: the copy the thread of connection c works on
  disk,   \* player.json
  view,   \* view[c]: the totals the client on c was last sent
  lag,    \* history: lag[c] once a write by c has failed
  shown   \* history: stages whose win has been reported to the player

vars == <<mem, disk, view, lag, shown>>

(* The item totals of push s2c 515; push s2c 267 carries the Standing.      *)
Totals(s) == [stamina |-> s.stamina, bag |-> s.bag]
NoView == [items |-> Totals(NewSave), player |-> Standing(NewSave)]
ViewOf(s) == [items |-> Totals(s), player |-> Standing(s)]

Open(c) == mem[c] # NoSave
Copies == {mem[c] : c \in {d \in Conns : Open(d)}} \cup {disk}

Init ==
  /\ mem = [c \in Conns |-> NoSave]
  /\ disk = NewSave
  /\ view = [c \in Conns |-> NoView]
  /\ lag = [c \in Conns |-> FALSE]
  /\ shown = {}

-----------------------------------------------------------------------------
(* Slip: the copy is a fresh save, the file is not read.                    *)
AcceptFresh(c) ==
  /\ ~Open(c)
  /\ mem' = [mem EXCEPT ![c] = NewSave]
  /\ view' = [view EXCEPT ![c] = ViewOf(NewSave)]
  /\ lag' = [lag EXCEPT ![c] = FALSE]
  /\ UNCHANGED <<disk, shown>>

(* Client.__init__: the accept loop loads the file for the new thread.  The *)
(* client asks for its items and level when it logs in.                     *)
Accept(c) ==
  /\ ~Open(c)
  /\ Overlap \/ \A d \in Conns : ~Open(d)
  /\ mem' = [mem EXCEPT ![c] = disk]
  /\ view' = [view EXCEPT ![c] = ViewOf(disk)]
  /\ lag' = [lag EXCEPT ![c] = FALSE]
  /\ UNCHANGED <<disk, shown>>

(* LOGIN_ENTER and LOGIN_RECONNECT write the copy back before any change.   *)
Login(c) ==
  /\ Open(c)
  /\ disk' = mem[c]
  /\ UNCHANGED <<mem, view, lag, shown>>

(* The thread ends with its connection; what it did not write is gone.      *)
Close(c) ==
  /\ Open(c)
  /\ mem' = [mem EXCEPT ![c] = NoSave]
  /\ view' = [view EXCEPT ![c] = NoView]
  /\ lag' = [lag EXCEPT ![c] = FALSE]
  /\ UNCHANGED <<disk, shown>>

(* The server process dies with all its threads and is started again.       *)
Crash ==
  /\ \E c \in Conns : Open(c)
  /\ mem' = [c \in Conns |-> NoSave]
  /\ view' = [c \in Conns |-> NoView]
  /\ lag' = [c \in Conns |-> FALSE]
  /\ UNCHANGED <<disk, shown>>

-----------------------------------------------------------------------------
(* Slip: level-ups are not pushed.                                          *)
PushItems(c, s) == [items |-> Totals(s), player |-> view[c].player]

(* dispatch after the rules changed the copy of c from mem[c] to s: write   *)
(* the copy, push the totals that differ, then reply.                       *)
Push(c, s) ==
  [items  |-> IF Totals(s) # Totals(mem[c]) THEN Totals(s) ELSE view[c].items,
   player |-> IF Standing(s) # Standing(mem[c]) THEN Standing(s)
              ELSE view[c].player]

Written(c, s) ==
  /\ mem' = [mem EXCEPT ![c] = s]
  /\ disk' = s
  /\ view' = [view EXCEPT ![c] = Push(c, s)]
  /\ UNCHANGED lag

(* The write raises: the copy keeps the change, nothing is pushed, and the  *)
(* exception makes tcp_server answer with the zero-filled default body.     *)
WriteFailed(c, s) ==
  /\ WriteMayFail
  /\ mem' = [mem EXCEPT ![c] = s]
  /\ lag' = [lag EXCEPT ![c] = TRUE]
  /\ UNCHANGED <<disk, view>>

(* c2s 1793.                                                                *)
OpenFight(c, l, q) ==
  /\ Open(c)
  /\ CanPay(mem[c], l, q)
  /\ mem[c].seq < MaxFights   \* bound
  /\ \/ Written(c, Opened(mem[c], l, q))
     \/ WriteFailed(c, Opened(mem[c], l, q))
  /\ UNCHANGED shown

(* Too little stamina: nothing changes, and yet the copy is written.        *)
RefuseFight(c, l, q) ==
  /\ Open(c)
  /\ ~CanPay(mem[c], l, q)
  /\ Written(c, mem[c]) \/ WriteFailed(c, mem[c])
  /\ UNCHANGED shown

(* c2s 1794 with an open fight on that stage.                               *)
Settle(c, l, win, goals) ==
  /\ Open(c)
  /\ HasFight(mem[c], l)
  /\ \E roll \in Drops[l], extra \in FirstDrops[l] :
       LET pay == Payment(mem[c], l, win, roll, extra)
           s == Settled(mem[c], l, win, goals, pay)
       IN \/ /\ Written(c, s)
             /\ shown' = IF win THEN shown \cup {l} ELSE shown
          \/ WriteFailed(c, s) /\ UNCHANGED shown

(* c2s 1794 again after the answer was lost: the stored answer is sent, the *)
(* copy is neither changed nor written.                                     *)
Replay(c, l) ==
  /\ Open(c)
  /\ ~HasFight(mem[c], l)
  /\ CanReplay(mem[c], l)
  /\ shown' = IF mem[c].last.response.win THEN shown \cup {l} ELSE shown
  /\ UNCHANGED <<mem, disk, view, lag>>

(* c2s 1794 for a fight nobody opened: the row is created in memory only,   *)
(* and the answer pays nothing.                                             *)
SettleUnopened(c, l) ==
  /\ Open(c)
  /\ ~HasFight(mem[c], l)
  /\ ~CanReplay(mem[c], l)
  /\ mem' = [mem EXCEPT ![c] = WithRow(@, l)]
  /\ UNCHANGED <<disk, view, lag, shown>>

(* c2s 5633, the town of line d: the step is stored; if the step has no     *)
(* entrance to show, in memory only, and another handler answers.           *)
TownInfo(c, d) ==
  /\ Open(c)
  /\ Steps[d] # <<>>
  /\ LET s == [mem[c] EXCEPT !.lines[d] = Visited(@, d)]
     IN IF HasEntrance(mem[c].lines[d], d)
          THEN Written(c, s) \/ WriteFailed(c, s)
          ELSE mem' = [mem EXCEPT ![c] = s] /\ UNCHANGED <<disk, view, lag>>
  /\ UNCHANGED shown

Connection(c) == Accept(c) \/ Login(c) \/ Close(c)

FightRequest(c, l) ==
  \/ \E q \in Sweeps : OpenFight(c, l, q)
  \/ \E q \in Sweeps : RefuseFight(c, l, q)
  \/ \E win \in BOOLEAN, goals \in SUBSET Goals : Settle(c, l, win, goals)
  \/ Replay(c, l)
  \/ SettleUnopened(c, l)

Request(c) ==
  \/ \E l \in Levels : FightRequest(c, l)
  \/ \E d \in Lines : TownInfo(c, d)

Next == (\E c \in Conns : Connection(c) \/ Request(c)) \/ Crash

Spec == Init /\ [][Next]_vars

-----------------------------------------------------------------------------
TypeOK ==
  /\ mem \in [Conns -> Save \cup {NoSave}]
  /\ disk \in Save
  /\ view \in [Conns -> [items: [stamina: Nat, bag: Nat],
                         player: [lvl: Nat, exp: Nat]]]
  /\ lag \in [Conns -> BOOLEAN]
  /\ shown \in SUBSET Levels

(* A stage's row says "won" exactly if the stage is in passedLevels: the    *)
(* two records of the same fact are written by different code               *)
(* (_level_state and _fight_over) and must not come apart in any copy.      *)
WinAgrees(s) == \A l \in Levels : s.rows[l] # NoRow => (s.rows[l].win <=> l \in s.passed)
RowsAgreeWithPassed == \A s \in Copies : WinAgrees(s)

(* The first-clear bonus of a stage is paid exactly once in the history of  *)
(* any copy, and only if the stage is cleared; the opening stage, passed    *)
(* from the start, never pays one.                                          *)
BonusExact(s) ==
  \A l \in Levels : s.bonus[l] = IF l \in s.passed \ {FirstPlot} THEN 1 ELSE 0
FirstClearPaidOnce == \A s \in Copies : BonusExact(s)

(* No fight is settled twice, and none that was not paid for: the open      *)
(* fight is the newest one and unsettled.                                   *)
OncePerFight(s) ==
  /\ \A n \in Fights : s.ledger[n].times <= 1
  /\ \A n \in Fights : n > s.seq => s.ledger[n].times = 0
  /\ s.active # NoFight => s.active.seq = s.seq /\ s.ledger[s.seq].times = 0
FightsSettledOnce == \A s \in Copies : OncePerFight(s)

(* The stored answer tells the truth: it repeats what settling that fight   *)
(* paid, and reports a win only of a stage that is passed.                  *)
AnswerTrue(s) ==
  s.last # NoResult =>
    /\ s.last.seq <= s.seq
    /\ s.ledger[s.last.seq] = [times |-> 1, pay |-> s.last.response.pay]
    /\ s.last.response.win => s.last.level \in s.passed
StoredAnswerTrue == \A s \in Copies : AnswerTrue(s)

(* The EXP all fights of a copy's history have paid, and the EXP it takes   *)
(* to climb from level 1 to level n.                                        *)
ExpWon(s) == SumFunctionOnSet([n \in Fights |-> s.ledger[n].pay.exp], Fights)
ExpUpTo(n) == SumFunctionOnSet(LevelExp, 1..(n - 1))

(* EXP is conserved over all fights (_apply_player_exp): a player below the *)
(* last level has spent, on exactly the levels climbed, and kept what the   *)
(* settled fights paid, and not enough for one level more; a player at the  *)
(* last level has won at least what it costs, and the rest is dropped.  It  *)
(* goes wrong if a threshold is charged twice or not at all, if a gain that *)
(* passes several levels stops early, or if one fight pays its EXP twice.   *)
ExpBalance(s) ==
  IF s.lvl < MaxLevel
    THEN /\ ExpUpTo(s.lvl) + s.exp = ExpWon(s)
         /\ LevelExp[s.lvl] = 0 \/ s.exp < LevelExp[s.lvl]
    ELSE ExpUpTo(s.lvl) <= ExpWon(s) /\ s.exp = 0
ExpAccounted == \A s \in Copies : ExpBalance(s)

(* By the table alone: the entrances by which step k of line d is left, the *)
(* step the first of them leads to, and the step a player is at who has won *)
(* n stages of the line.                                                    *)
WaysOut(d, k) ==
  LET events == Steps[d][k].events
  IN {i \in DOMAIN events : events[i] \in DOMAIN Jump /\
                            Jump[events[i]] \notin {0, Steps[d][k].id}}

StepBehind(d, k) ==
  IF WaysOut(d, k) = {} THEN k
  ELSE CHOOSE j \in DOMAIN Steps[d] :
         \E i \in WaysOut(d, k) : /\ Steps[d][j].id = Jump[Steps[d][k].events[i]]
                                 /\ \A x \in WaysOut(d, k) : i <= x

StepAfter ==
  [d \in Lines |->
     LET walk[n \in 0..MaxFights] ==
           IF n = 0 THEN 1 ELSE StepBehind(d, walk[n - 1])
     IN walk]

(* The town tables: steps have ids of their own, a way out of a step leads  *)
(* to a step of the same line, and none leads from the first step to itself *)
(* (advance_line would take it from a row that names no step yet, and pass  *)
(* it over once the map has been asked for).                                *)
ASSUME TownsAssumption ==
  \A d \in Lines : \A k \in DOMAIN Steps[d] :
    /\ Steps[d][k].id > 0
    /\ \A j \in DOMAIN Steps[d] : Steps[d][j].id = Steps[d][k].id => j = k
    /\ \A i \in DOMAIN Steps[d][k].events :
         LET e == Steps[d][k].events[i]
         IN e \in DOMAIN Jump /\ Jump[e] # 0 =>
              /\ \E j \in DOMAIN Steps[d] : Steps[d][j].id = Jump[e]
              /\ k = 1 => Jump[e] # Steps[d][k].id

(* A town stands where the wins of its stages have led it, and has only     *)
(* entrances done of steps it has left or cannot leave: not a step further  *)
(* for a settlement sent twice, a defeat or a failed write, not one behind  *)
(* for a map that was never asked for (advance_line, dating_info).          *)
TownFollowsWins ==
  \A s \in Copies : \A d \in {e \in Lines : Steps[e] # <<>>} :
    LET at(n) == Steps[d][StepAfter[d][n]]
    IN /\ CurrentStep(s.lines[d], d) = at(s.walked[d])
       /\ s.lines[d].done \subseteq
            {e \in Entrances : \E n \in 0..(s.walked[d] - 1) :
                              \E i \in DOMAIN at(n).events : at(n).events[i] = e}

(* A client is never left with stale totals (the drift dispatch's comment   *)
(* warns of), unless a write failed on its connection.                      *)
ViewCurrent ==
  \A c \in Conns : Open(c) /\ ~lag[c] => view[c] = ViewOf(mem[c])

(* A win reported to the player is in player.json when nobody is connected  *)
(* any more: what README.md says of clears ("persist with their stars").    *)
ShownWinSurvives == (\A c \in Conns : ~Open(c)) => shown \subseteq disk.passed

(* player.json never loses a cleared stage, a settled fight, a player level *)
(* or a step of a town, whatever is closed, crashed or fails to be written. *)
Keeps(s, t) ==
  /\ s.passed \subseteq t.passed
  /\ s.seq <= t.seq
  /\ s.lvl <= t.lvl
  /\ \A n \in Fights : s.ledger[n].times <= t.ledger[n].times
  /\ \A d \in Lines : s.walked[d] <= t.walked[d]
DiskKeeps == [][Keeps(disk, disk')]_vars
=============================================================================
