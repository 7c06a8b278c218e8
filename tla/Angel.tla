-------------------------------- MODULE Angel --------------------------------
(***************************************************************************)
(* The angel of a hero (work/offline/angel_handlers.py): awakening, skill   *)
(* pages, strengthening and breakthroughs.  A page is one of four layouts   *)
(* of the skill tree; the nodes learned on it share the skill points the    *)
(* breakthroughs gave, and its slots hold passive skills.                   *)
(***************************************************************************)
EXTENDS Heroes

CONSTANTS
  Nodes,          \* AngelSkillTree: records id, hero, type, pos, lvl, cost,
                  \* needHero, needAngel and front, the ids that come first
  Slots,          \* Slots[pos]: needHero and needAngel of a passive slot
  AwakeCost,      \* AwakeCost[h][n]: price of leaving angel level n
  StrengthenCost, \* StrengthenCost[h][t][n]: prices of level n of type t, by cost
                  \* type; no levels where openAngelStrengthen is 0
  Stages          \* Stages[h]: breakthroughs, with their price options and
                  \* the skill points (in hundredths) they set, 0 for none

Pages == 1..4
PassiveType == 10

(* f with the value v at k.                                                 *)
Put(f, k, v) == [x \in DOMAIN f \cup {k} |-> IF x = k THEN v ELSE f[x]]

NewPage == [used |-> 0, levels |-> <<>>, passive |-> <<>>]

(* _strategy with create: pages come into being when they are named.        *)
WithPage(h, p) ==
  IF p \in DOMAIN h.pages THEN h ELSE [h EXCEPT !.pages = Put(@, p, NewPage)]

-----------------------------------------------------------------------------
Place(n) == <<n.type, n.pos>>
SkillLevel(page, k) == IF k \in DOMAIN page.levels THEN page.levels[k] ELSE 0

(* _set_skill_level: level 0 is kept as no row.                             *)
AtLevel(levels, k, n) ==
  IF n > 0 THEN Put(levels, k, n)
           ELSE [j \in DOMAIN levels \ {k} |-> levels[j]]

NodesAt(h, k, n) == {m \in Nodes : m.hero = h.cid /\ Place(m) = k /\ m.lvl = n}

(* _node_unlocked                                                           *)
Unlocked(h, page, n) ==
  /\ h.lvl >= n.needHero
  /\ h.angel >= n.needAngel
  /\ \A f \in n.front :
       \E m \in Nodes : m.id = f /\ SkillLevel(page, Place(m)) >= m.lvl

PointsLeft(h, page) == Max({0, (h.points \div 100) - page.used})

(* _upgrade_skill on the page in use: a node is learned, or unlearned and   *)
(* its points come back.                                                    *)
CostOf(h, k, n) == SumFunction([m \in NodesAt(h, k, n) |-> m.cost])

MayLearn(h, k) ==
  LET page == h.pages[h.use]
  IN \E m \in NodesAt(h, k, SkillLevel(page, k) + 1) :
       Unlocked(h, page, m) /\ m.cost <= PointsLeft(h, page)

MayUnlearn(h, k) ==
  LET n == SkillLevel(h.pages[h.use], k) IN n > 0 /\ NodesAt(h, k, n) # {}

Learned(h, k) ==
  LET n == SkillLevel(h.pages[h.use], k) + 1
  IN [h EXCEPT !.pages[h.use].levels = AtLevel(@, k, n),
               !.pages[h.use].used = @ + CostOf(h, k, n)]

Unlearned(h, k) ==
  LET n == SkillLevel(h.pages[h.use], k)
  IN [h EXCEPT !.pages[h.use].levels = AtLevel(@, k, n - 1),
               !.pages[h.use].used = Max({0, @ - CostOf(h, k, n)})]

-----------------------------------------------------------------------------
(* _equip_passive: a skill put into a slot leaves the slot it was in.       *)
MayEquip(h, skill, pos) ==
  /\ pos \in DOMAIN Slots
  /\ h.lvl >= Slots[pos].needHero
  /\ h.angel >= Slots[pos].needAngel
  /\ \E m \in Nodes :
       /\ m.id = skill /\ m.hero = h.cid /\ m.type = PassiveType
       /\ Unlocked(h, h.pages[h.use], m)

Without(passive, skill) ==
  [p \in DOMAIN passive |-> IF passive[p] = skill THEN 0 ELSE passive[p]]

(* Slip: the slot the skill was in is not emptied.                          *)
EquippedTwice(h, skill, pos) ==
  [h EXCEPT !.pages[h.use].passive = Put(@, pos, skill)]

Equipped(h, skill, pos) ==
  [h EXCEPT !.pages[h.use].passive = Put(Without(@, skill), pos, skill)]

Unequipped(h, skill) == [h EXCEPT !.pages[h.use].passive = Without(@, skill)]

(* _reset_skill                                                             *)
(* Slip: the learned levels are forgotten, the points stay spent.           *)
ResetKeepsUsed(h, p) ==
  [h EXCEPT !.pages[p] = [NewPage EXCEPT !.used = h.pages[p].used]]

Reset(h, p) == [h EXCEPT !.pages[p] = NewPage]

-----------------------------------------------------------------------------
(* _awake, _strengthen and _breakthrough; each has a price that is not      *)
(* empty.                                                                   *)
PriceToAwake(h) ==
  IF h.angel \in DOMAIN AwakeCost[h.cid] THEN AwakeCost[h.cid][h.angel] ELSE NoCost

Awoken(s, i) == [Paid(s, PriceToAwake(s.heroes[i])) EXCEPT !.heroes[i].angel = @ + 1]

PriceToStrengthen(h, t, kind) ==
  IF h.strong[t] + 1 \in DOMAIN StrengthenCost[h.cid][t]
    THEN StrengthenCost[h.cid][t][h.strong[t] + 1][kind] ELSE NoCost

Strengthened(s, i, t, kind) ==
  [Paid(s, PriceToStrengthen(s.heroes[i], t, kind)) EXCEPT !.heroes[i].strong[t] = @ + 1]

PriceToBreak(h, option) ==
  IF /\ h.broken + 1 \in DOMAIN Stages[h.cid]
     /\ option \in DOMAIN Stages[h.cid][h.broken + 1].prices
    THEN Stages[h.cid][h.broken + 1].prices[option] ELSE NoCost

Broken(s, i, option) ==
  LET given == Stages[s.heroes[i].cid][s.heroes[i].broken + 1].points
  IN [Paid(s, PriceToBreak(s.heroes[i], option)) EXCEPT
        !.heroes[i].broken = @ + 1,
        !.heroes[i].points = IF given > 0 THEN given ELSE @]
=============================================================================
