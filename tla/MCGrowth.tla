------------------------------ MODULE MCGrowth ------------------------------
(* Five players: one with tickets for two banners, one with EXP items and   *)
(* the price of an advance and of a better quality, one who grows an angel, *)
(* two who make up teams, with heroes just drawn or with more than fit.     *)
(* Items: 1 ticket, 2 starter ticket, 3 gem, 4 and 5 EXP, 6 a skin.  Gear   *)
(* 201 piles up to two pieces, 202 does not.                                *)
EXTENDS Growth

Heroes == {101, 102, 103}
ForAll(x) == [h \in Heroes |-> x]

MCHeroExp == <<2, 2, 3>>
MCExpValue == ForAll(4 :> 1 @@ 5 :> 3)
MCAdvanceCost == ForAll([n \in 0..9 |-> IF n = 0 THEN <<Line(3, 1), Line(4, 1)>> ELSE NoCost])
MCQualityCost == ForAll([q \in 2..5 |-> IF q = 2 THEN <<Line(3, 1)>> ELSE NoCost])
MCDefaultSkin == ForAll(7)
MCPaint == ForAll(8)
MCPaintQuality == ForAll(2)
MCBoughtSkins == ForAll({6})

Node(id, type, pos, lvl, cost, needAngel, front) ==
  [id |-> id, hero |-> 101, type |-> type, pos |-> pos, lvl |-> lvl, cost |-> cost,
   needHero |-> 1, needAngel |-> needAngel, front |-> front]

MCNodes == {Node(1, 1, 1, 1, 1, 1, {}), Node(2, 1, 1, 2, 2, 1, {}),
            Node(3, 2, 1, 1, 1, 2, {1}), Node(4, 10, 1, 1, 0, 1, {1})}
MCSlots == <<[needHero |-> 1, needAngel |-> 1], [needHero |-> 1, needAngel |-> 2]>>
MCAwakeCost == ForAll(<<<<Line(3, 1)>>>>)
MCStrengthenCost == ForAll(<<<<<<<<Line(3, 1)>>, <<Line(4, 1)>>>>>>>>)
MCStages == ForAll(<<[prices |-> <<<<Line(3, 1)>>, <<Line(4, 1)>>>>, points |-> 150],
                     [prices |-> <<<<Line(3, 1)>>>>, points |-> 300]>>)

Card(quality, weight, id) == [quality |-> quality, weight |-> weight, items |-> <<Line(id, 1)>>]
MCPool == <<<<Card(1, <<1>>, 201), Card(2, <<1, 0>>, 102), Card(3, <<0, 1>>, 103)>>,
            <<Card(1, <<1>>, 1), Card(2, <<1>>, 202), Card(2, <<1>>, 102)>>>>
MCCardCount == <<1, 2>>
MCRareEvery == <<2, 3>>
MCRareQualities == <<<<{2}, {3}>>, <<{2}, {}>>>>
MCCosts == <<<<<<Line(1, 1)>>, <<Line(1, 1), Line(3, 1)>>>>, <<<<Line(3, 1)>>>>>>
MCFirstCosts == <<<<<<Line(2, 1)>>>>, <<>>>>
MCBaseQuality == ForAll(1)
MCGridMax == 201 :> 2

Comes(wants, bag, lvl, cids) ==
  [wants |-> wants, bag |-> bag, lvl |-> lvl, gear |-> <<>>,
   heroes |-> [i \in DOMAIN cids |-> NewHero(<<cids[i], 1>>, cids[i])]]
Of(cid, num) == Stack(<<cid, 1>>, cid, num)

MCStartSaves ==
  {Comes({"pull"}, <<Of(1, 2), Of(2, 2), Of(3, 2), Stack(<<1, 2>>, 1, 1)>>, 1, <<101>>),
   Comes({"pull", "teams"}, <<Of(3, 1)>>, 1, <<101>>),
   Comes({"train", "fights"}, <<Of(3, 2), Of(4, 2), Of(5, 2), Of(6, 1)>>, 2, <<101>>),
   Comes({"angel", "skills"}, <<Of(3, 3), Of(4, 1)>>, 1, <<101>>),
   Comes({"teams"}, <<>>, 1, <<101, 102, 103>>)}
MCFoods == {<<Line(4, 1)>>, <<Line(5, 1)>>, <<Line(4, 1), Line(5, 1), Line(4, 1)>>}
MCStrangers == {<<109, 1>>}
=============================================================================
