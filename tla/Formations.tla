----------------------------- MODULE Formations -----------------------------
(***************************************************************************)
(* Teams of heroes: the formations that fight (operate_formation in         *)
(* work/offline/stateful_handlers.py) and the presets a player prepares     *)
(* (work/offline/formation_backup_handlers.py).  A stance is the sequence   *)
(* of the instance ids of its heroes; an empty one stands for a formation   *)
(* that is not in the save yet.                                             *)
(***************************************************************************)
EXTENDS Inventory

CONSTANTS
  TeamTypes,   \* types of formations; type 1 is the main one
  Backups,     \* ids of presets, 1..MAX_BACKUPS
  TeamSize,    \* heroes in a team: 3
  NoHero       \* an empty hero id in a request

ASSUME TeamsAssumption == 1 \in TeamTypes /\ 1 \in Backups /\ TeamSize \in Nat \ {0}

FirstOf(stance) == SubSeq(stance, 1, Min({Len(stance), TeamSize}))

(* Slip: who is there twice stays.                                         *)
Repeating(stance) == stance

Distinct(stance) == Firsts(stance, Range(stance))

(* operate_formation: target comes in for source, or joins, or source goes. *)
(* A hero put in for another one who is in the team already leaves the      *)
(* other's place empty.                                                     *)
Operated(stance, owned, source, target) ==
  IF target \notin owned \cup {NoHero} THEN stance
  ELSE LET there == Contains(stance, source)
           moved == CASE target = NoHero           -> RemoveFirst(stance, source)
                      [] target # NoHero /\ there  -> ReplaceAll(stance, source, target)
                      [] target # NoHero /\ ~there -> Append(stance, target)
       IN FirstOf(Distinct(moved))

-----------------------------------------------------------------------------
(* _backups: whenever the first preset is empty it is the main team again.  *)
Seeded(s) ==
  IF s.backups[1] # <<>> THEN s
  ELSE [s EXCEPT !.backups[1] = FirstOf(s.teams[1])]

(* _change_backup_hero: here source is the hero who comes in and target the *)
(* one who makes room; both in the preset means that they change places.    *)
Arranged(stance, owned, source, target) ==
  LET there == Contains(stance, source)
      swap(h) == CASE h = source -> target [] h = target -> source [] OTHER -> h
  IN IF \/ source \notin owned \cup {NoHero}
        \/ target # NoHero /\ ~Contains(stance, target)
       THEN stance
     ELSE IF target # NoHero
       THEN CASE source = NoHero            -> RemoveFirst(stance, target)
              [] source # NoHero /\ there   -> [i \in DOMAIN stance |-> swap(stance[i])]
              [] source # NoHero /\ ~there  -> ReplaceAll(stance, target, source)
     ELSE IF there THEN RemoveFirst(stance, source)
     ELSE IF source # NoHero /\ Len(stance) < TeamSize THEN Append(stance, source)
     ELSE stance

Rearranged(s, b, owned, source, target) ==
  [Seeded(s) EXCEPT !.backups[b] = Arranged(@, owned, source, target)]

(* _apply_backup                                                            *)
Applied(s, b, t) ==
  LET seeded == Seeded(s)
  IN IF seeded.backups[b] = <<>> THEN seeded
     ELSE [seeded EXCEPT !.teams[t] = seeded.backups[b]]
=============================================================================
