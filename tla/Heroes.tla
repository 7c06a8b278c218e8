------------------------------- MODULE Heroes -------------------------------
(***************************************************************************)
(* Rows of the hero roster and what work/offline/hero_progression_handlers  *)
(* does to them: EXP items, advancement, quality and skins, each paid from  *)
(* the bag.  A cost of NoCost stands for a row the static tables lack.      *)
(***************************************************************************)
EXTENDS Inventory

CONSTANTS
  NoCost,
  MaxLevel,       \* last row of the LevelUp table
  HeroExp,        \* HeroExp[n]: EXP that leaves hero level n
  ExpValue,       \* ExpValue[h]: EXP of each item hero h may be fed
  AdvanceCost,    \* AdvanceCost[h][n]: price of leaving advanced level n
  QualityCost,    \* QualityCost[h][q]: price of reaching quality q
  DefaultSkin, Paint, PaintQuality,   \* of each hero; 0 for no painting
  BoughtSkins     \* BoughtSkins[h]: skins of h that are items of the bag

MaxAdvance == 10
MaxQuality == 5

(* _find_hero: the first row with the id that was asked for.                *)
Sids(s) == {s.heroes[i].sid : i \in DOMAIN s.heroes}
HeroRow(s, sid) == Min({i \in DOMAIN s.heroes : s.heroes[i].sid = sid})

CanPay(s, cost) == cost # NoCost /\ CanConsumeCids(s.bag, cost)

(* Slip: the price is only taken off the first line.                        *)
PaidHead(s, cost) ==
  [s EXCEPT !.bag = ConsumedCids(@, IF cost = <<>> THEN cost ELSE <<Head(cost)>>)]

Paid(s, cost) == [s EXCEPT !.bag = ConsumedCids(@, cost)]

-----------------------------------------------------------------------------
(* _level_up: a hero takes EXP up to the player's own level and climbs as   *)
(* far as it goes; what is left over stays with the hero.                   *)
(* Slip: the player's level is not looked at.                               *)
CapOfTable(s) == MaxLevel

Cap(s) == Min({s.lvl, MaxLevel})

ExpUpTo(m, n) == SumFunctionOnSet(HeroExp, m..(n - 1))

Reached(lvl, exp, cap) ==
  Max({n \in lvl..cap :
         \A k \in lvl..(n - 1) : HeroExp[k] > 0 /\ ExpUpTo(lvl, k + 1) <= exp})

MayFeed(s, i, food) ==
  LET h == s.heroes[i]
  IN /\ h.lvl < Cap(s)
     /\ food # <<>>
     /\ \A j \in DOMAIN food :
          /\ food[j].id \in DOMAIN ExpValue[h.cid]
          /\ food[j].num > 0
     /\ CanConsumeCids(s.bag, food)

ExpIn(h, food) ==
  SumFunction([j \in DOMAIN food |-> ExpValue[h.cid][food[j].id] * food[j].num])

Climbed(s, i, gained) ==
  LET h == s.heroes[i]
      exp == h.exp + gained
      lvl == Reached(h.lvl, exp, Cap(s))
  IN [s EXCEPT !.heroes[i].lvl = lvl,
               !.heroes[i].exp = exp - ExpUpTo(h.lvl, lvl)]

Fed(s, i, food) == Paid(Climbed(s, i, ExpIn(s.heroes[i], food)), food)

-----------------------------------------------------------------------------
(* _advance and _quality                                                    *)
PriceToAdvance(h) == IF h.adv < MaxAdvance THEN AdvanceCost[h.cid][h.adv] ELSE NoCost

Advanced(s, i) ==
  [Paid(s, PriceToAdvance(s.heroes[i])) EXCEPT !.heroes[i].adv = @ + 1]

PriceToImprove(h) ==
  IF h.quality < MaxQuality THEN QualityCost[h.cid][h.quality + 1] ELSE NoCost

Improved(s, i) ==
  [Paid(s, PriceToImprove(s.heroes[i])) EXCEPT !.heroes[i].quality = @ + 1]

-----------------------------------------------------------------------------
(* _resolve_skin: the painting is switched to by quality, the default is    *)
(* always there, another skin has to be in the bag.                         *)
Wearable(s, h, isSwitch) ==
  IF isSwitch
    THEN {k \in {Paint[h.cid]} \ {0} : PaintQuality[h.cid] \in 1..h.quality}
    ELSE {DefaultSkin[h.cid]} \cup
         {s.bag[j].cid : j \in {r \in DOMAIN s.bag :
            s.bag[r].cid \in BoughtSkins[h.cid] \cup {Paint[h.cid]} /\ s.bag[r].num > 0}}
=============================================================================
