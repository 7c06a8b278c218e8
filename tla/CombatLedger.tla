---------------------------- MODULE CombatLedger ----------------------------
(***************************************************************************)
(* Combat implements FightLedger.  The book of a save lists a fight as paid *)
(* if its history line says it was settled exactly once, and a bonus as     *)
(* given if it was given exactly once: a second payment would take the fight *)
(* off the list, which no step of the ledger does.                          *)
(***************************************************************************)
EXTENDS Combat

BookOf(s) ==
  [opened |-> s.seq, current |-> s.active,
   paid |-> {n \in Fights : s.ledger[n].times = 1},
   cleared |-> s.passed,
   bonus |-> {l \in Levels : s.bonus[l] = 1}]

Books == [c \in Conns |-> IF Open(c) THEN BookOf(mem[c]) ELSE NoSave]

Ledger == INSTANCE FightLedger
            WITH book <- Books, saved <- BookOf(disk), NoBook <- NoSave

(* A closed connection has no book that could be mistaken for one.          *)
ASSUME NoBookAssumption == NoSave \notin Ledger!Book

(* Every behaviour of the server's fights is one of the ledger, read through *)
(* BookOf: start, settle, load, write, forget, or nothing.                   *)
KeepsLedger == Ledger!Spec
=============================================================================
