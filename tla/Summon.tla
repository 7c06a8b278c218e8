------------------------------- MODULE Summon -------------------------------
(***************************************************************************)
(* One pull on a summoning banner (work/offline/summon_handlers.py): the    *)
(* price, the cards with the guarantee of a rare one, and where each thing  *)
(* a card pays is kept: heroes in the roster, equipment in its own rows,    *)
(* anything else in the bag.  The weights of the dice are left out: a card  *)
(* is any row of the pool that has a weight in the band of the price.       *)
(***************************************************************************)
EXTENDS Angel

CONSTANTS
  Banners,
  Pool,          \* Pool[b]: sequence of cards, with quality, weight and items
  CardCount,     \* CardCount[b]: cards of one pull
  RareEvery,     \* RareEvery[b]: rareGetTimes, 0 for no guarantee
  RareQualities, \* RareQualities[b]: minQuality..maxQuality of each band
  Costs, FirstCosts,   \* price options of a banner, by band
  HeroCids, BaseQuality,
  GearCids,      \* cids of the Equipment table
  GridMax        \* GridMax[c]: most pieces one row holds, 0 for no limit,
                 \* for the gear that piles up (pileUp)

(* _band: the option asked for, or the last one there is.                   *)
Band(options, k) == options[Min({k, Len(options)})]

(* The starter price first, as long as nothing was pulled, then the normal  *)
(* one; the first that can be paid is taken.                                *)
Offered(s, b, k) ==
  LET options == <<IF ~s.banners[b].pulled /\ FirstCosts[b] # <<>>
                     THEN Band(FirstCosts[b], k) ELSE <<>>,
                   IF Costs[b] # <<>> THEN Band(Costs[b], k) ELSE <<>> >>
  IN Only(options, Range(options) \ {<<>>})

PriceOf(s, b, k) ==
  LET offered == Offered(s, b, k)
      payable == {j \in DOMAIN offered : CanConsumeCids(s.bag, offered[j])}
  IN IF offered = <<>> THEN <<>>
     ELSE IF payable = {} THEN NoCost ELSE offered[Min(payable)]

-----------------------------------------------------------------------------
(* Cards of a band that count as rare, and cards the dice can show.         *)
RareCards(b, k) ==
  {c \in DOMAIN Pool[b] : Pool[b][c].quality \in Band(RareQualities[b], k)}

Rollable(b, k, cards) ==
  LET weighty == {c \in cards : Band(Pool[b][c].weight, k) > 0}
  IN IF weighty = {} THEN cards ELSE weighty

(* sinceRare after the first n cards of a draw.                             *)
Since(b, k, since, draw, n) ==
  FoldLeft(LAMBDA acc, c : IF c \in RareCards(b, k) THEN 0 ELSE acc + 1,
           since, SubSeq(draw, 1, n))

(* Slip: the guarantee comes one card late.                                 *)
DrawsLate(b, k, since) ==
  {draw \in [1..CardCount[b] -> DOMAIN Pool[b]] :
     \A n \in DOMAIN draw :
       LET due == /\ RareEvery[b] > 0
                  /\ RareCards(b, k) # {}
                  /\ Since(b, k, since, draw, n - 1) + 1 > RareEvery[b]
       IN draw[n] \in Rollable(b, k, IF due THEN RareCards(b, k) ELSE DOMAIN Pool[b])}

Draws(b, k, since) ==
  {draw \in [1..CardCount[b] -> DOMAIN Pool[b]] :
     \A n \in DOMAIN draw :
       LET due == /\ RareEvery[b] > 0
                  /\ RareCards(b, k) # {}
                  /\ Since(b, k, since, draw, n - 1) + 1 >= RareEvery[b]
       IN draw[n] \in Rollable(b, k, IF due THEN RareCards(b, k) ELSE DOMAIN Pool[b])}

Contents(b, draw) == FoldLeft(LAMBDA acc, c : acc \o Pool[b][c].items, <<>>, draw)

-----------------------------------------------------------------------------
(* Slip: the first number, free or not.                                     *)
FirstNumber(ids, cid) == <<cid, 1>>

(* _hero_sid and the instance ids of add_equipment: the first free number.  *)
FreeId(ids, cid) ==
  <<cid, Min({k \in 1..(Cardinality(ids) + 1) : <<cid, k>> \notin ids})>>

NewHero(sid, cid) ==
  [sid |-> sid, cid |-> cid, lvl |-> 1, exp |-> 0, adv |-> 0,
   quality |-> Max({1, BaseQuality[cid]}), skin |-> DefaultSkin[cid],
   angel |-> 1, points |-> 0, broken |-> 0,
   strong |-> [t \in DOMAIN StrengthenCost[cid] |-> 0],
   pages |-> [p \in {1} |-> NewPage], use |-> 1]

Owns(s, cid) == \E i \in DOMAIN s.heroes : s.heroes[i].cid = cid

(* Slip: a hero who is there already comes again.                           *)
WithHeroAgain(s, cid) == [s EXCEPT !.heroes = Append(@, NewHero(FreeId(Sids(s), cid), cid))]

(* _grant_hero: a hero who is there already changes nothing.                *)
WithHero(s, cid) ==
  IF Owns(s, cid) THEN s
  ELSE [s EXCEPT !.heroes = Append(@, NewHero(FreeId(Sids(s), cid), cid))]

(* add_equipment                                                            *)
WithGear(s, cid, num) ==
  LET rows == {i \in DOMAIN s.gear : s.gear[i].cid = cid}
      ids == {s.gear[i].id : i \in DOMAIN s.gear}
      full(n) == IF GridMax[cid] > 0 THEN Min({n, GridMax[cid]}) ELSE n
  IN IF cid \in DOMAIN GridMax /\ rows # {}
       THEN [s EXCEPT !.gear[Min(rows)].num = full(@ + num)]
       ELSE [s EXCEPT !.gear = Append(@, Stack(FreeId(ids, cid), cid, num))]

(* The lines of a draw, each to its place.  The answer shows all of them    *)
(* but the heroes who were there already.                                   *)
Stored(s, line) ==
  IF line.id \in HeroCids THEN WithHero(s, line.id)
  ELSE IF line.id \in GearCids THEN WithGear(s, line.id, line.num)
  ELSE s

StoredAll(s, lines) == FoldLeft(LAMBDA t, line : Stored(t, line), s, lines)

ForBag(lines) == Only(lines, {l \in Range(lines) : l.id \notin HeroCids \cup GearCids})

Kept(s, lines) == [StoredAll(s, lines) EXCEPT !.bag = Granted(@, ForBag(lines))]

ShownHeroes(s, lines) ==
  {c \in HeroCids : ~Owns(s, c) /\ \E i \in DOMAIN lines : lines[i].id = c}

(* summon                                                                   *)
Pulled(s, b, k, draw) ==
  [Kept(Paid(s, PriceOf(s, b, k)), Contents(b, draw)) EXCEPT
     !.banners[b] = [pulled |-> TRUE,
                     since |-> Since(b, k, s.banners[b].since, draw, Len(draw))]]
=============================================================================
