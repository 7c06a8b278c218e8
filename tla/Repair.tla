------------------------------- MODULE Repair -------------------------------
(***************************************************************************)
(* normalize_save of work/offline/player_save.py: what a load does to a     *)
(* save of an older schema, and every load and every save to any save.  A   *)
(* hero row has an id, a cid, a level, an angel level and a number of skill *)
(* pages.  The mirrors gold and diamonds are read for an item the bag has   *)
(* no row for: they are `coins` here, 0 if there is none.                   *)
(***************************************************************************)
EXTENDS Inventory

CONSTANTS
  Stocked,        \* STOCKED_CIDS, in their order
  Float,          \* TEST_CURRENCY_STOCK
  NoSid, StarterSid, StarterCid,
  FirstPlot,      \* FIRST_PLOT_LEVEL
  GuideFinished   \* NEW_GUIDE_FINISHED

ASSUME RepairAssumption ==
  /\ {Float, FirstPlot, StarterCid} \subseteq Nat \ {0}
  /\ GuideFinished \in Nat /\ StarterSid # NoSid

Schema == 6

Starter ==
  [sid |-> StarterSid, cid |-> StarterCid, lvl |-> 1, angel |-> 1, pages |-> 1,
   firstShow |-> FALSE]

-----------------------------------------------------------------------------
(* _normalize_items: a stocked item without a row under its own name gets   *)
(* one.                                                                     *)
WithRow(bag, c, coins) ==
  IF HasRow(bag, <<c, 1>>) THEN bag
  ELSE Append(bag, Stack(<<c, 1>>, c, IF coins[c] > 0 THEN coins[c] ELSE Float))

Defaulted(bag, coins) == FoldLeft(LAMBDA acc, c : WithRow(acc, c, coins), bag, Stocked)

(* Schema 6: the last stack of every stocked item is raised to the float.   *)
(* An item without a stack takes the row of its name, whatever is in it.    *)
WithFloat(new, c, bag) ==
  IF Rows(bag, c) = {} THEN [new EXCEPT ![RowOf(bag, <<c, 1>>)] = Stack(<<c, 1>>, c, Float)]
  ELSE [new EXCEPT ![Max(Rows(bag, c))].num = Max({@, Float})]

Raised(bag) == FoldLeft(LAMBDA new, c : WithFloat(new, c, bag), bag, Stocked)

(* Slip: the float is given at every repair.                                *)
BagRaised(bag, coins, schema) == Raised(Defaulted(bag, coins))

FullBag(bag, coins, schema) ==
  IF schema < 6 THEN Raised(Defaulted(bag, coins)) ELSE Defaulted(bag, coins)

(* _normalize_heroes: rows without an id or a cid go, of two with one id    *)
(* the first stays.  Before schema 4 an angel had no level and no page,     *)
(* before schema 3 a player had no hero.                                    *)
WithHero(rows, h) ==
  IF h.sid = NoSid \/ h.cid <= 0 \/ \E i \in DOMAIN rows : rows[i].sid = h.sid
    THEN rows ELSE Append(rows, h)

Kept(heroes) == FoldLeft(WithHero, <<>>, heroes)

CleanHero(h, schema) ==
  [h EXCEPT !.lvl = Max({1, @}),
            !.angel = Max({@, IF schema < 4 THEN 1 ELSE 0}),
            !.pages = Max({@, IF schema < 4 THEN 1 ELSE 0})]

CleanHeroes(heroes, schema) ==
  IF Kept(heroes) = <<>> /\ schema < 3 THEN <<Starter>>
  ELSE [i \in DOMAIN Kept(heroes) |-> CleanHero(Kept(heroes)[i], schema)]

(* _normalize_formations: three teams, the main one not without a hero in a *)
(* save from before schema 3.                                               *)
Stance(team) == Only(team, Range(team) \ {NoSid})

CleanTeams(teams, heroes, schema) ==
  LET stance(t) == IF t \in DOMAIN teams THEN Stance(teams[t]) ELSE <<>>
  IN [t \in 1..3 |->
        IF t = 1 /\ schema < 3 /\ heroes # <<>> /\ stance(t) = <<>>
          THEN <<heroes[1].sid>> ELSE stance(t)]

CleanPassed(passed) ==
  LET levels == Firsts(passed, Nat \ {0})
  IN IF Contains(levels, FirstPlot) THEN levels ELSE <<FirstPlot>> \o levels

Repaired(s, coins) ==
  LET heroes == CleanHeroes(s.heroes, s.schema)
      passed == CleanPassed(s.passed)
      pastGuide == s.schema < 6 /\ s.guide = 0 /\ (Len(passed) > 1 \/ s.lvl > 1)
  IN [s EXCEPT
        !.schema = Schema,
        !.bag = FullBag(@, coins, s.schema),
        !.heroes = heroes,
        !.teams = CleanTeams(@, heroes, s.schema),
        !.help = IF s.schema < 3 /\ heroes # <<>> /\ @ = 0 THEN heroes[1].cid ELSE @,
        !.passed = passed,
        !.guide = IF pastGuide THEN GuideFinished ELSE @]
=============================================================================
