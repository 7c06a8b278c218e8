----------------------------- MODULE FightLedger -----------------------------
(***************************************************************************)
(* What fights promise the player, without saying how: every fight is       *)
(* opened before it is settled, settled at most once, and only on the stage *)
(* it was opened for; a win clears its stage; the bonus of a stage goes out *)
(* with the win that clears it first.  Each connection works on its own     *)
(* copy of the book and may write it to the saved book at any change.       *)
(***************************************************************************)
EXTENDS Integers

CONSTANTS Levels, FirstPlot, MaxFights, Conns, NoFight, NoBook

VARIABLES
  book,   \* book[c]: the copy connection c works on
  saved   \* the book in the file

vars == <<book, saved>>

Fights == 1..MaxFights
Book == [opened: 0..MaxFights,
         current: [seq: Fights, level: Levels] \cup {NoFight},
         paid: SUBSET Fights, cleared: SUBSET Levels, bonus: SUBSET Levels]

EmptyBook == [opened |-> 0, current |-> NoFight, paid |-> {},
              cleared |-> {FirstPlot}, bonus |-> {}]

Init == book = [c \in Conns |-> NoBook] /\ saved = EmptyBook

(* A new connection reads the saved book.                                   *)
Load(c) ==
  /\ book[c] = NoBook
  /\ book' = [book EXCEPT ![c] = saved]
  /\ UNCHANGED saved

(* Connections end and forget their copies.                                 *)
Forget(C) ==
  /\ book' = [c \in Conns |-> IF c \in C THEN NoBook ELSE book[c]]
  /\ UNCHANGED saved

(* A connection writes its copy over the saved book.                        *)
Save(c) == book[c] # NoBook /\ saved' = book[c] /\ UNCHANGED book

(* The copy of c changes to b, and b is written, or the write is lost.      *)
Becomes(c, b) ==
  /\ book' = [book EXCEPT ![c] = b]
  /\ saved' = b \/ UNCHANGED saved

Start(c, l) ==
  /\ book[c] # NoBook
  /\ book[c].opened < MaxFights
  /\ LET n == book[c].opened + 1
     IN Becomes(c, [book[c] EXCEPT !.opened = n,
                                   !.current = [seq |-> n, level |-> l]])

Settle(c, win) ==
  /\ book[c] # NoBook
  /\ book[c].current # NoFight
  /\ book[c].current.seq \notin book[c].paid
  /\ LET l == book[c].current.level
         won == IF win THEN {l} ELSE {}
     IN Becomes(c, [book[c] EXCEPT
                      !.current = NoFight,
                      !.paid = @ \cup {book[c].current.seq},
                      !.cleared = @ \cup won,
                      !.bonus = @ \cup (won \ book[c].cleared)])

Next ==
  \/ \E c \in Conns :
       \/ Load(c) \/ Save(c)
       \/ \E l \in Levels : Start(c, l)
       \/ \E win \in BOOLEAN : Settle(c, win)
  \/ \E C \in SUBSET Conns : Forget(C)

Spec == Init /\ [][Next]_vars
=============================================================================
