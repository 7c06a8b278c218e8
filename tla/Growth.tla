------------------------------- MODULE Growth -------------------------------
(***************************************************************************)
(* A player summons heroes, trains them, arranges their skills and makes    *)
(* up teams, on one connection.  As in Account, the save carries a book (not *)
(* in the code) of what was paid and handed out.                            *)
(***************************************************************************)
EXTENDS Summon, Formations, Copies

CONSTANTS
  Cids,         \* item cids
  StartSaves,   \* what a player may come with: bag, lvl, heroes, gear and
                \* wants, the kinds of requests he makes (a bound)
  Foods,        \* lists of EXP items a client offers
  Skins,        \* skins a client asks for
  Strangers,    \* hero ids no row has
  UsedPages     \* bound: pages that are used

Price == {NoCost} \cup Lines(Cids)

(* What the static tables are read as: ids of heroes, equipment and items   *)
(* are told apart, amounts are not negative, a node of the skill tree is    *)
(* named by its hero, place and level, and a later breakthrough sets at     *)
(* least the skill points of an earlier one.                                *)
ASSUME TablesAssumption ==
  /\ MaxLevel \in Nat \ {0} /\ HeroExp \in [1..MaxLevel -> Nat]
  /\ Cids \cup HeroCids \cup GearCids \subseteq Int
  /\ HeroCids \cap GearCids = {} /\ Cids \cap (HeroCids \cup GearCids) = {}
  /\ \A h \in HeroCids :
       /\ BaseQuality[h] \in Int /\ BaseQuality[h] <= MaxQuality
       /\ \A c \in DOMAIN ExpValue[h] : ExpValue[h][c] \in Nat
       /\ AdvanceCost[h] \in [0..(MaxAdvance - 1) -> Price]
       /\ QualityCost[h] \in [2..MaxQuality -> Price]
       /\ \A n \in DOMAIN AwakeCost[h] : AwakeCost[h][n] \in Price
       /\ \A t \in DOMAIN StrengthenCost[h] : \A n \in DOMAIN StrengthenCost[h][t] :
            \A kind \in 1..2 : StrengthenCost[h][t][n][kind] \in Price
       /\ \A n \in DOMAIN Stages[h] :
            LET stage == Stages[h][n]
            IN /\ n \in Nat /\ stage.points \in Nat
               /\ \A o \in DOMAIN stage.prices : stage.prices[o] \in Price
               /\ \A l \in DOMAIN Stages[h] : l > n /\ Stages[h][l].points > 0 =>
                    stage.points <= Stages[h][l].points
  /\ IsFiniteSet(Nodes)
  /\ \A m \in Nodes : m.lvl \in Nat \ {0} /\ m.cost \in Nat
  /\ \A m, n \in Nodes : m.hero = n.hero /\ Place(m) = Place(n) /\ m.lvl = n.lvl => m = n

(* Of the banners: the starter price is never the normal price, both name   *)
(* items, a guarantee is of some number of cards, and no card has more      *)
(* pieces of a kind than a row of that kind holds.                          *)
ASSUME BannersAssumption ==
  /\ \A c \in DOMAIN GridMax : GridMax[c] \in Nat
  /\ \A b \in Banners :
       /\ CardCount[b] \in Nat \ {0} /\ RareEvery[b] \in Nat
       /\ FirstCosts[b] \in Seq(Lines(Cids) \ {<<>>})
       /\ Costs[b] \in Seq(Lines(Cids) \ {<<>>})
       /\ Range(FirstCosts[b]) \cap Range(Costs[b]) = {}
       /\ \A c \in DOMAIN Pool[b] :
            /\ Pool[b][c].items \in Lines(Cids \cup HeroCids \cup GearCids)
            /\ \A line \in Range(Pool[b][c].items) :
                 /\ line.num > 0
                 /\ line.id \in DOMAIN GridMax /\ GridMax[line.id] > 0 =>
                      line.num <= GridMax[line.id]

ASSUME RequestsAssumption == Foods \subseteq Lines(Cids) /\ UsedPages \subseteq Pages

-----------------------------------------------------------------------------
(* Rows of the roster as the server keeps them.                             *)
ExpOf(h) == ExpUpTo(1, h.lvl) + h.exp

HeroOK(h) ==
  /\ h.cid \in HeroCids
  /\ h.lvl \in 1..MaxLevel /\ h.exp \in Nat
  /\ h.adv \in 0..MaxAdvance /\ h.quality \in 1..MaxQuality
  /\ h.use \in DOMAIN h.pages /\ DOMAIN h.pages \subseteq Pages
  /\ \A p \in DOMAIN h.pages : h.pages[p].used \in Nat

LearnedOn(h, page) == {m \in Nodes : m.hero = h.cid /\ m.lvl <= SkillLevel(page, Place(m))}

PointsOK(h, page) ==
  /\ page.used = SumFunction([m \in LearnedOn(h, page) |-> m.cost])
  /\ page.used * 100 <= h.points

PassiveOK(h, page) ==
  \A a \in DOMAIN page.passive : page.passive[a] # 0 =>
    /\ \A c \in DOMAIN page.passive : page.passive[c] = page.passive[a] => c = a
    /\ \E m \in Nodes : m.id = page.passive[a] /\ m.hero = h.cid

PageRow(page) ==
  /\ page = [used |-> page.used, levels |-> page.levels, passive |-> page.passive]
  /\ page.levels \in [DOMAIN page.levels -> Nat]
  /\ page.passive = [a \in DOMAIN page.passive |-> page.passive[a]]

HeroFields == {"sid", "cid", "lvl", "exp", "adv", "quality", "skin", "angel", "points",
               "broken", "strong", "pages", "use"}

HeroRowOK(h) ==
  /\ DOMAIN h = HeroFields /\ h = [f \in HeroFields |-> h[f]]
  /\ HeroOK(h)
  /\ h.points \in Nat /\ h.broken \in Nat
  /\ \A n \in DOMAIN Stages[h.cid] : n > h.broken /\ Stages[h.cid][n].points > 0 =>
       h.points <= Stages[h.cid][n].points
  /\ h.pages = [p \in DOMAIN h.pages |-> h.pages[p]]
  /\ \A p \in DOMAIN h.pages :
       PageRow(h.pages[p]) /\ PointsOK(h, h.pages[p]) /\ PassiveOK(h, h.pages[p])

(* A roster has one row for a hero, the equipment one for a kind that piles *)
(* up: the server never adds a second.                                      *)
ASSUME StartAssumption ==
  \A s \in StartSaves :
    /\ IsBag(s.bag) /\ DistinctIds(s.bag) /\ \A i \in DOMAIN s.bag : s.bag[i].cid \in Cids
    /\ s.lvl \in 1..MaxLevel
    /\ IsSeq(s.heroes) /\ s.heroes # <<>>
    /\ \A i \in DOMAIN s.heroes : HeroRowOK(s.heroes[i]) /\ s.heroes[i].lvl <= s.lvl
    /\ \A i, j \in DOMAIN s.heroes :
         s.heroes[i].sid = s.heroes[j].sid \/ s.heroes[i].cid = s.heroes[j].cid => i = j
    /\ IsBag(s.gear) /\ DistinctIds(s.gear)
    /\ \A i \in DOMAIN s.gear :
         LET c == s.gear[i].cid
         IN /\ c \in GearCids
            /\ c \in DOMAIN GridMax =>
                 /\ GridMax[c] > 0 => s.gear[i].num <= GridMax[c]
                 /\ \A j \in DOMAIN s.gear : s.gear[j].cid = c => i = j

(* The book of a save that is new: what the player comes with.              *)
Opening(s) ==
  [net      |-> [c \in Cids |-> Total(s.bag, c)],
   fed      |-> [c \in HeroCids |->
                  SumFunction([i \in Rows(s.heroes, c) |-> ExpOf(s.heroes[i])])],
   shown    |-> [c \in HeroCids \cup GearCids |-> IF Owns(s, c) THEN 1 ELSE Total(s.gear, c)],
   starters |-> [b \in Banners |-> 0],
   plain    |-> [b \in Banners |-> 0],
   missed   |-> [b \in Banners |-> 0]]

(* default_save, with the heroes and items of a later day: the first hero   *)
(* is the main team.                                                        *)
Starting(s) ==
  [bag     |-> s.bag, lvl |-> s.lvl, heroes |-> s.heroes, gear |-> s.gear,
   wants   |-> s.wants,
   banners |-> [b \in Banners |-> [pulled |-> FALSE, since |-> 0]],
   teams   |-> [t \in TeamTypes |-> IF t = 1 THEN <<s.heroes[1].sid>> ELSE <<>>],
   backups |-> [b \in Backups |-> <<>>],
   book    |-> Opening(s)]

Init == \E s \in StartSaves : Loaded(Starting(s))

-----------------------------------------------------------------------------
Booked(net, out, in) == [c \in Cids |-> net[c] + Worth(in, c) - Worth(out, c)]

Sold(s, price) == [s EXCEPT !.book.net = Booked(@, price, <<>>)]

(* Cards drawn in a row without a rare one of their own band, and those     *)
(* among them that the guarantee should have made rare.                     *)
Streak(b, k, plain, draw) ==
  FoldLeft(LAMBDA acc, c :
             IF c \in RareCards(b, k) THEN [acc EXCEPT !.plain = 0]
             ELSE [plain  |-> acc.plain + 1,
                   missed |-> acc.missed +
                     IF /\ RareEvery[b] > 0 /\ RareCards(b, k) # {}
                        /\ acc.plain + 1 >= RareEvery[b] THEN 1 ELSE 0],
           [plain |-> plain, missed |-> 0], draw)

BookedPull(book, s, b, k, draw) ==
  LET lines == Contents(b, draw)
      price == PriceOf(s, b, k)
      streak == Streak(b, k, book.plain[b], draw)
  IN [book EXCEPT
        !.net = Booked(@, price, lines),
        !.shown = [c \in DOMAIN @ |-> @[c] +
                     IF c \in GearCids THEN Worth(lines, c)
                     ELSE IF c \in ShownHeroes(s, lines) THEN 1 ELSE 0],
        !.starters[b] = @ + IF /\ FirstCosts[b] # <<>>
                               /\ price = Band(FirstCosts[b], k) THEN 1 ELSE 0,
        !.plain[b] = streak.plain,
        !.missed[b] = @ + streak.missed]

(* SUMMON_SUMMON.  A pull that cannot be paid changes nothing.              *)
Pull(b, k) ==
  /\ PriceOf(mem, b, k) # NoCost
  /\ \E draw \in Draws(b, k, mem.banners[b].since) :
       Answer([Pulled(mem, b, k, draw) EXCEPT
                 !.book = BookedPull(@, mem, b, k, draw)], TRUE)

-----------------------------------------------------------------------------
(* HERO_UPGRADE, HERO_ADVANCE, UP_QUALITY and CHANGE_HERO_SKIN              *)
Feed(i, food) ==
  /\ MayFeed(mem, i, food)
  /\ Answer([Sold(Fed(mem, i, food), food) EXCEPT
               !.book.fed[mem.heroes[i].cid] = @ + ExpIn(mem.heroes[i], food)], TRUE)

Advance(i) ==
  LET price == PriceToAdvance(mem.heroes[i])
  IN CanPay(mem, price) /\ Answer(Sold(Advanced(mem, i), price), TRUE)

Improve(i) ==
  LET price == PriceToImprove(mem.heroes[i])
  IN CanPay(mem, price) /\ Answer(Sold(Improved(mem, i), price), TRUE)

ChangeSkin(i, skin, isSwitch) ==
  /\ skin \in Wearable(mem, mem.heroes[i], isSwitch) \ {mem.heroes[i].skin}
  /\ Answer([mem EXCEPT !.heroes[i].skin = skin], TRUE)

-----------------------------------------------------------------------------
(* The angel: AWAKE_ANGEL, ANGEL_STRENGTHEN and UPGRADE_ANGLE_SPIRIT ask    *)
(* for a price that is not empty.                                           *)
Charges(price) == price # <<>> /\ CanPay(mem, price)

Awake(i) ==
  LET price == PriceToAwake(mem.heroes[i])
  IN Charges(price) /\ Answer(Sold(Awoken(mem, i), price), TRUE)

Strengthen(i, t, kind) ==
  LET price == PriceToStrengthen(mem.heroes[i], t, kind)
  IN Charges(price) /\ Answer(Sold(Strengthened(mem, i, t, kind), price), TRUE)

Breakthrough(i, option) ==
  LET price == PriceToBreak(mem.heroes[i], option)
  IN Charges(price) /\ Answer(Sold(Broken(mem, i, option), price), TRUE)

(* Handlers of skill pages: h is the row as the handler found or made it.   *)
WithRow(i, h) == [mem EXCEPT !.heroes[i] = h]
InUse(i) == WithPage(mem.heroes[i], mem.heroes[i].use)

(* UPGRADE_SKILL                                                            *)
LearnSkill(i, k) ==
  /\ k[1] # PassiveType
  /\ MayLearn(InUse(i), k)
  /\ Answer(WithRow(i, Learned(InUse(i), k)), TRUE)

UnlearnSkill(i, k) ==
  /\ k[1] # PassiveType
  /\ MayUnlearn(InUse(i), k)
  /\ Answer(WithRow(i, Unlearned(InUse(i), k)), TRUE)

(* EQUIP_PASSIVE_SKILL                                                      *)
EquipPassive(i, skill, pos) ==
  LET h == Equipped(InUse(i), skill, pos)
  IN /\ MayEquip(InUse(i), skill, pos)
     /\ Answer(WithRow(i, h), h # InUse(i))

UnequipPassive(i, skill) ==
  LET h == Unequipped(InUse(i), skill)
  IN Answer(WithRow(i, h), h # InUse(i))

(* RESET_SKILL                                                              *)
ResetSkill(i, p) ==
  /\ p \in DOMAIN mem.heroes[i].pages
  /\ mem.heroes[i].pages[p] # NewPage
  /\ Answer(WithRow(i, Reset(mem.heroes[i], p)), TRUE)

(* USE_SKILL_STRATEGY and MODIFY_STRATEGY_NAME: the page is made if it is   *)
(* not there, but with a name that is refused that is not saved.            *)
UseStrategy(i, p) ==
  LET h == [WithPage(mem.heroes[i], p) EXCEPT !.use = p]
  IN Answer(WithRow(i, h), h # mem.heroes[i])

RenameStrategy(i, p, named) == Answer(WithRow(i, WithPage(mem.heroes[i], p)), named)

-----------------------------------------------------------------------------
(* PLAYER_OPERATE_FORMATION is saved whether it changed anything or not.    *)
OperateFormation(t, source, target) ==
  Answer([mem EXCEPT !.teams[t] = Operated(@, Sids(mem), source, target)], TRUE)

(* Slip: filling the first preset again is not reported.                    *)
ShowBackupsQuietly(renamed) == Answer(Seeded(mem), renamed)

(* The FORMATION_BACKUP requests: LIST and DESC, HERO and USE.              *)
ShowBackups(renamed) == Answer(Seeded(mem), renamed \/ Seeded(mem) # mem)

ChangeBackup(b, source, target) ==
  LET new == Rearranged(mem, b, Sids(mem), source, target)
  IN Answer(new, new # mem)

UseBackup(b, t) ==
  LET new == Applied(mem, b, t) IN Answer(new, new # mem)

(* A fight won elsewhere raises the player's level (see Combat).            *)
PlayerLevelUp ==
  mem.lvl < MaxLevel /\ Answer([mem EXCEPT !.lvl = @ + 1], TRUE)

-----------------------------------------------------------------------------
Train(i) ==
  \/ \E food \in Foods : Feed(i, food)
  \/ Advance(i)
  \/ Improve(i)
  \/ \E skin \in Skins, isSwitch \in BOOLEAN : ChangeSkin(i, skin, isSwitch)

GrowAngel(i) ==
  \/ Awake(i)
  \/ \E t \in DOMAIN StrengthenCost[mem.heroes[i].cid], kind \in 1..2 : Strengthen(i, t, kind)
  \/ \E option \in 1..2 : Breakthrough(i, option)

ArrangeSkills(i) ==
  \/ \E m \in Nodes : \/ LearnSkill(i, Place(m))
                      \/ UnlearnSkill(i, Place(m))
                      \/ UnequipPassive(i, m.id)
                      \/ \E pos \in DOMAIN Slots : EquipPassive(i, m.id, pos)
  \/ \E p \in UsedPages : \/ ResetSkill(i, p)
                          \/ UseStrategy(i, p)
                          \/ \E named \in BOOLEAN : RenameStrategy(i, p, named)

MakeTeams ==
  \/ \E source, target \in Sids(mem) \cup Strangers \cup {NoHero} :
       \/ \E t \in TeamTypes : OperateFormation(t, source, target)
       \/ \E b \in Backups : ChangeBackup(b, source, target)
  \/ \E renamed \in BOOLEAN : ShowBackups(renamed)
  \/ \E b \in Backups, t \in TeamTypes : UseBackup(b, t)

Wants(kind) == kind \in mem.wants

Next ==
  \/ Wants("pull") /\ \E b \in Banners, k \in 1..2 : Pull(b, k)
  \/ \E i \in DOMAIN mem.heroes :
       \/ Wants("train") /\ Train(i)
       \/ Wants("angel") /\ GrowAngel(i)
       \/ Wants("skills") /\ ArrangeSkills(i)
  \/ Wants("teams") /\ MakeTeams
  \/ Wants("fights") /\ PlayerLevelUp
  \/ Relog
  \/ LoginSave

Spec == Init /\ [][Next]_copies

-----------------------------------------------------------------------------
Copy(s) ==
  /\ \A i \in DOMAIN s.bag : s.bag[i].cid \in Cids /\ s.bag[i].num \in Nat
  /\ \A i, j \in DOMAIN s.bag : s.bag[i].id = s.bag[j].id => i = j
  /\ \A i \in DOMAIN s.heroes : HeroOK(s.heroes[i])
  /\ \A i, j \in DOMAIN s.heroes : s.heroes[i].sid = s.heroes[j].sid => i = j
  /\ \A i, j \in DOMAIN s.gear : s.gear[i].id = s.gear[j].id => i = j
  /\ \A b \in Banners : s.banners[b].since \in Nat

(* Rows of the bag, the roster and the equipment keep distinct ids, and no  *)
(* number leaves its range.                                                 *)
TypeOK == Copy(mem) /\ Copy(disk) /\ behind \in 0..MaxBehind

(* Every item is accounted for: prices over several cids and stacks are     *)
(* taken whole or not at all, whichever of two alternatives a pull is paid  *)
(* with, and nothing that belongs in the roster or the equipment shows up   *)
(* in the bag (consume_cids, summon).                                       *)
BooksBalance ==
  \A s \in {mem, disk} : \A c \in Cids : Total(s.bag, c) = s.book.net[c]

(* A pull is fair: the starter price is paid at most once on a banner, and  *)
(* no RareEvery cards in a row go by without a rare one, the last of them   *)
(* drawn in a band that has rare cards, although all bands of a banner      *)
(* share one counter and a pull may be lost with a failed write (summon).   *)
PullsFair ==
  \A s \in {mem, disk} : \A b \in Banners :
    s.book.starters[b] <= 1 /\ s.book.missed[b] = 0

(* What the answers to pulls showed is what the player owns: each hero once *)
(* however often it was drawn, and every piece of equipment, in one row or  *)
(* in rows of their own, up to what a row can hold (_grant_hero,            *)
(* add_equipment).                                                          *)
DrawnIsOwned ==
  \A s \in {mem, disk} :
    /\ \A c \in HeroCids :
         Cardinality({i \in DOMAIN s.heroes : s.heroes[i].cid = c}) = s.book.shown[c]
    /\ \A c \in GearCids :
         Total(s.gear, c) = IF c \in DOMAIN GridMax /\ GridMax[c] > 0
                             THEN Min({s.book.shown[c], GridMax[c]}) ELSE s.book.shown[c]

(* No EXP is lost or made: the levels a hero climbed cost what it was fed,  *)
(* less what it still carries; and no hero is above the player (_level_up). *)
LevelsEarned ==
  \A s \in {mem, disk} : \A i \in DOMAIN s.heroes :
    /\ ExpOf(s.heroes[i]) = s.book.fed[s.heroes[i].cid]
    /\ s.heroes[i].lvl <= s.lvl

(* The points a page says are spent are the prices of the levels learned on *)
(* it, and no more than the hero has, whatever is learned, unlearned, reset *)
(* or moved to another page in between (_upgrade_skill, _reset_skill).      *)
PointsAccounted ==
  \A s \in {mem, disk} : \A i \in DOMAIN s.heroes : \A p \in DOMAIN s.heroes[i].pages :
    PointsOK(s.heroes[i], s.heroes[i].pages[p])

(* A passive skill is in one slot of a page at most, and belongs to the     *)
(* hero (_equip_passive).                                                   *)
PassiveOnce ==
  \A s \in {mem, disk} : \A i \in DOMAIN s.heroes : \A p \in DOMAIN s.heroes[i].pages :
    PassiveOK(s.heroes[i], s.heroes[i].pages[p])

(* Every team and every preset is of at most TeamSize different heroes the  *)
(* player owns, however heroes are put in, swapped and applied              *)
(* (operate_formation, _change_backup_hero, _apply_backup).                 *)
TeamsValid ==
  \A s \in {mem, disk} : \A stance \in Range(s.teams) \cup Range(s.backups) :
    /\ Len(stance) <= TeamSize
    /\ IsInjective(stance)
    /\ Range(stance) \subseteq Sids(s)

(* A page without a row is shown as an empty one.                           *)
SeenRow(h) ==
  [h EXCEPT !.pages = [p \in Pages |-> IF p \in DOMAIN @ THEN @[p] ELSE NewPage]]

Seen(s) == [s EXCEPT !.heroes = [i \in DOMAIN @ |-> SeenRow(@[i])]]

(* Unless the last write failed, a reconnect now shows the player what he   *)
(* sees: no handler changes more of the copy than it reports.               *)
NothingUnsaved == behind = 0 => Seen(mem) = Seen(disk)
=============================================================================
