---------------------------- MODULE GrowthProofs ----------------------------
(***************************************************************************)
(* What holds of the game of Growth for every set of heroes, items, gear,   *)
(* banners, skill trees, teams and presets: teams are of heroes the player  *)
(* owns, skill pages and passive skills stay in order, levels are earned,   *)
(* the books of items and of what was drawn balance, pulls are fair, and a  *)
(* reconnect shows what the player sees.                                    *)
(***************************************************************************)
EXTENDS Growth, InventoryProofs

-----------------------------------------------------------------------------
(* The inductive invariant.  Every part of a copy of the save is good by    *)
(* itself or together with its part of the book.                            *)
SaveFields == {"bag", "lvl", "heroes", "gear", "wants", "banners", "teams", "backups", "book"}
BookFields == {"net", "fed", "shown", "starters", "plain", "missed"}

Fields(s) ==
  /\ DOMAIN s = SaveFields /\ s = [f \in SaveFields |-> s[f]]
  /\ DOMAIN s.book = BookFields /\ s.book = [f \in BookFields |-> s.book[f]]

BagGood(bag) == IsBag(bag) /\ DistinctIds(bag) /\ BagCids(bag) \subseteq Cids

ItemsOf(bag, net) == BagGood(bag) /\ net = [c \in Cids |-> Total(bag, c)]

ItemsGood(s) == ItemsOf(s.bag, s.book.net)

RosterGood(s) ==
  /\ s.lvl \in 1..MaxLevel /\ IsSeq(s.heroes)
  /\ \A i \in DOMAIN s.heroes : HeroRowOK(s.heroes[i]) /\ s.heroes[i].lvl <= s.lvl
  /\ \A i, j \in DOMAIN s.heroes :
       s.heroes[i].sid = s.heroes[j].sid \/ s.heroes[i].cid = s.heroes[j].cid => i = j

FedGood(s) ==
  /\ s.book.fed \in [HeroCids -> Int]
  /\ \A i \in DOMAIN s.heroes : ExpOf(s.heroes[i]) = s.book.fed[s.heroes[i].cid]
  /\ \A c \in HeroCids : ~Owns(s, c) => s.book.fed[c] = 0

GearOK(gear) ==
  /\ IsBag(gear) /\ DistinctIds(gear) /\ BagCids(gear) \subseteq GearCids
  /\ \A i \in DOMAIN gear : gear[i].cid \in DOMAIN GridMax =>
       /\ GridMax[gear[i].cid] > 0 => gear[i].num <= GridMax[gear[i].cid]
       /\ \A j \in DOMAIN gear : gear[j].cid = gear[i].cid => i = j

Room(c, n) ==
  IF c \in DOMAIN GridMax /\ GridMax[c] > 0 THEN (IF n <= GridMax[c] THEN n ELSE GridMax[c]) ELSE n

ShownGood(s) ==
  /\ s.book.shown \in [HeroCids \cup GearCids -> Nat]
  /\ \A c \in HeroCids : s.book.shown[c] = IF Owns(s, c) THEN 1 ELSE 0
  /\ \A c \in GearCids : Total(s.gear, c) = Room(c, s.book.shown[c])

(* A stance of different heroes, as many as fit, all of them from S.        *)
Lined(q, S) == IsSeq(q) /\ Len(q) <= TeamSize /\ Once(q) /\ Range(q) \subseteq S

Stances(f, T, S) == f = [t \in T |-> f[t]] /\ \A t \in T : Lined(f[t], S)

TeamsGood(s) == Stances(s.teams, TeamTypes, Sids(s)) /\ Stances(s.backups, Backups, Sids(s))

Banner == [pulled : BOOLEAN, since : Nat]

BannersGood(s) ==
  /\ s.banners \in [Banners -> Banner]
  /\ s.book.starters \in [Banners -> 0..1]
  /\ s.book.plain \in [Banners -> Nat]
  /\ s.book.missed \in [Banners -> {0}]
  /\ \A b \in Banners : /\ s.banners[b].since = s.book.plain[b]
                        /\ s.book.starters[b] = 1 => s.banners[b].pulled

Held(s) ==
  /\ Fields(s) /\ ItemsGood(s) /\ RosterGood(s) /\ FedGood(s) /\ GearOK(s.gear)
  /\ ShownGood(s) /\ TeamsGood(s) /\ BannersGood(s)

HeldInv == Held(mem) /\ Held(disk)

(* What handlers of other parts leave alone.                                *)
SameItems(s, t) == t.bag = s.bag /\ t.book.net = s.book.net
SameFed(s, t) == t.heroes = s.heroes /\ t.book.fed = s.book.fed
SameShown(s, t) ==
  /\ t.gear = s.gear /\ t.book.shown = s.book.shown
  /\ \A c \in HeroCids : Owns(t, c) <=> Owns(s, c)
SameTeams(s, t) ==
  t.teams = s.teams /\ t.backups = s.backups /\ Sids(s) \subseteq Sids(t)
SameBanners(s, t) ==
  /\ t.banners = s.banners /\ t.book.starters = s.book.starters
  /\ t.book.plain = s.book.plain /\ t.book.missed = s.book.missed

LEMMA HeldFrom ==
  ASSUME NEW s, Held(s), NEW t, Fields(t),
         SameItems(s, t) \/ ItemsGood(t),
         (t.heroes = s.heroes /\ t.lvl = s.lvl) \/ RosterGood(t),
         SameFed(s, t) \/ FedGood(t), t.gear = s.gear \/ GearOK(t.gear),
         SameShown(s, t) \/ ShownGood(t), SameTeams(s, t) \/ TeamsGood(t),
         SameBanners(s, t) \/ BannersGood(t)
  PROVE  Held(t)
<1>1. ItemsGood(t)
  BY DEF Held, SameItems, ItemsGood
<1>2. RosterGood(t)
  BY DEF Held, RosterGood
<1>3. FedGood(t)
  BY DEF Held, SameFed, FedGood, Owns
<1>4. GearOK(t.gear)
  BY DEF Held
<1>5. ShownGood(t)
  BY DEF Held, SameShown, ShownGood
<1>6. TeamsGood(t)
  BY DEF Held, SameTeams, TeamsGood, Stances, Lined
<1>7. BannersGood(t)
  BY DEF Held, SameBanners, BannersGood
<1> QED
  BY <1>1, <1>2, <1>3, <1>4, <1>5, <1>6, <1>7 DEF Held

LEMMA AnswerHeld ==
  ASSUME HeldInv, NEW new, Held(new), NEW changed, Answer(new, changed)
  PROVE  HeldInv'
<1>1. mem' = new /\ (disk' = new \/ disk' = disk)
  BY DEF Answer
<1>2. Held(mem') /\ Held(disk')
  BY <1>1 DEF HeldInv
<1> QED
  BY <1>2 DEF HeldInv

(* What a copy is after some of its fields, and some entries of its book,   *)
(* were replaced.                                                           *)
Changed(s, t, fields, entries) ==
  /\ Fields(t)
  /\ \A f \in SaveFields \ (fields \cup {"book"}) : t[f] = s[f]
  /\ \A f \in BookFields \ entries : t.book[f] = s.book[f]

LEMMA ChangedSame ==
  ASSUME NEW s, NEW t, NEW fields, NEW entries, Changed(s, t, fields, entries)
  PROVE  /\ Fields(t)
         /\ "bag" \notin fields /\ "net" \notin entries => SameItems(s, t)
         /\ "heroes" \notin fields => t.heroes = s.heroes
         /\ "lvl" \notin fields => t.lvl = s.lvl
         /\ "heroes" \notin fields /\ "fed" \notin entries => SameFed(s, t)
         /\ "gear" \notin fields => t.gear = s.gear
         /\ "heroes" \notin fields /\ "gear" \notin fields /\ "shown" \notin entries
              => SameShown(s, t)
         /\ "heroes" \notin fields /\ "teams" \notin fields /\ "backups" \notin fields
              => SameTeams(s, t)
         /\ "banners" \notin fields /\ entries \cap {"starters", "plain", "missed"} = {}
              => SameBanners(s, t)
<1>1. Fields(t)
  BY DEF Changed
<1>2. "bag" \notin fields /\ "net" \notin entries => SameItems(s, t)
  BY DEF Changed, SameItems, SaveFields, BookFields
<1>3. ("heroes" \notin fields => t.heroes = s.heroes) /\ ("lvl" \notin fields => t.lvl = s.lvl)
  BY DEF Changed, SaveFields
<1>4. "heroes" \notin fields /\ "fed" \notin entries => SameFed(s, t)
  BY <1>3 DEF Changed, SameFed, BookFields
<1>5. "gear" \notin fields => t.gear = s.gear
  BY DEF Changed, SaveFields
<1>6. "heroes" \notin fields /\ "gear" \notin fields /\ "shown" \notin entries => SameShown(s, t)
  BY <1>3, <1>5 DEF Changed, SameShown, BookFields, Owns
<1>7. "heroes" \notin fields /\ "teams" \notin fields /\ "backups" \notin fields => SameTeams(s, t)
  BY <1>3 DEF Changed, SameTeams, SaveFields, Sids
<1>8. "banners" \notin fields /\ entries \cap {"starters", "plain", "missed"} = {}
        => SameBanners(s, t)
  BY DEF Changed, SameBanners, SaveFields, BookFields
<1> QED
  BY <1>1, <1>2, <1>3, <1>4, <1>5, <1>6, <1>7, <1>8

-----------------------------------------------------------------------------
(* Stances.                                                                 *)
LEMMA SliceIs ==
  ASSUME NEW q, IsSeq(q), NEW m \in Nat, NEW n \in Nat, m >= 1, n <= Len(q)
  PROVE  LET r == SubSeq(q, m, n) IN
         /\ IsSeq(r) /\ Len(r) = IF m <= n THEN n - m + 1 ELSE 0
         /\ \A i \in 1..Len(r) : r[i] = q[m + i - 1]
<1> DEFINE r == SubSeq(q, m, n)
<1> DEFINE R == Range(q)
<1>1. q \in Seq(R)
  BY DEF IsSeq
<1>2. Len(q) \in Nat /\ DOMAIN q = 1..Len(q)
  BY SeqFacts
<1> HIDE DEF R
<1>3. r = [i \in 1..(n - m + 1) |-> q[m + i - 1]]
  BY <1>1
<1> HIDE DEF r
<1>4. CASE m <= n
  <2> DEFINE k == n - m + 1
  <2>1. k \in Nat /\ r = [i \in 1..k |-> r[i]]
    BY <1>3, <1>4
  <2>2. IsSeq(r) /\ Len(r) = k
    <3> HIDE DEF k
    <3> QED
      BY <2>1, FunctionIsSeq
  <2> QED
    BY <1>3, <1>4, <2>2 DEF r
<1>5. CASE ~(m <= n)
  <2>1. 1..(n - m + 1) = {} /\ 1..0 = {}
    BY <1>5
  <2>2. r = [i \in 1..0 |-> r[i]]
    BY <1>3, <2>1
  <2>3. IsSeq(r) /\ Len(r) = 0
    BY <2>2, FunctionIsSeq
  <2> QED
    BY <1>5, <2>3 DEF r
<1> QED
  BY <1>4, <1>5

LEMMA FirstOfIs ==
  ASSUME NEW q, IsSeq(q), NEW S, Range(q) \subseteq S, Once(q)
  PROVE  Lined(FirstOf(q), S)
<1> DEFINE n == Min({Len(q), TeamSize})
<1> DEFINE r == SubSeq(q, 1, n)
<1>1. Len(q) \in Nat /\ DOMAIN q = 1..Len(q) /\ TeamSize \in Nat
  BY SeqFacts, TeamsAssumption
<1>2. n \in Nat /\ n <= Len(q) /\ n <= TeamSize
  BY <1>1, MinTwo
<1> HIDE DEF n
<1>3. IsSeq(r) /\ Len(r) = n /\ \A i \in 1..n : r[i] = q[i]
  BY <1>1, <1>2, SliceIs
<1> HIDE DEF r
<1>4. DOMAIN r = 1..n
  BY <1>3, SeqFacts
<1>5. Once(r) /\ Range(r) \subseteq S
  BY <1>1, <1>2, <1>3, <1>4 DEF Once, Range
<1> QED
  BY <1>2, <1>3, <1>5 DEF Lined, FirstOf, n, r

(* One hero fewer: the places after the first one with him move up.         *)
LEMMA RemoveFirstIs ==
  ASSUME NEW q, IsSeq(q), NEW e
  PROVE  LET r == RemoveFirst(q, e) IN
         /\ IsSeq(r) /\ Len(r) <= Len(q) /\ Range(r) \subseteq Range(q)
         /\ Once(q) => Once(r)
<1>0. Len(q) \in Nat /\ DOMAIN q = 1..Len(q)
  BY SeqFacts
<1>1. CASE ~\E i \in 1..Len(q) : q[i] = e
  BY <1>0, <1>1 DEF RemoveFirst
<1>2. CASE \E i \in 1..Len(q) : q[i] = e
  <2> DEFINE I == {i \in 1..Len(q) : q[i] = e}
  <2> DEFINE k == Min(I)
  <2>1. k \in 1..Len(q)
    <3>1. I \in SUBSET Nat /\ I # {}
      BY <1>2
    <3>2. PICK x \in I : \A y \in I : x <= y
      BY <3>1, LeastNumber
    <3>3. k \in I
      BY <3>2 DEF Min
    <3> QED
      BY <3>3
  <2>2. RemoveFirst(q, e) = SubSeq(q, 1, k - 1) \o SubSeq(q, k + 1, Len(q))
    BY <1>2 DEF RemoveFirst, RemoveAt, SelectInSeq
  <2> HIDE DEF k
  <2> DEFINE a == SubSeq(q, 1, k - 1)
  <2> DEFINE b == SubSeq(q, k + 1, Len(q))
  <2> DEFINE R == Range(q)
  <2> DEFINE r == a \o b
  <2>3. /\ k - 1 \in Nat /\ k + 1 \in Nat /\ k - 1 <= Len(q) /\ k + 1 >= 1
    BY <1>0, <2>1
  <2>4. /\ IsSeq(a) /\ Len(a) = k - 1 /\ \A i \in 1..Len(a) : a[i] = q[i]
    BY <1>0, <2>1, <2>3, SliceIs
  <2>5. /\ IsSeq(b) /\ Len(b) = Len(q) - k /\ \A i \in 1..Len(b) : b[i] = q[k + i]
    <3>1. /\ IsSeq(b) /\ Len(b) = (IF k + 1 <= Len(q) THEN Len(q) - (k + 1) + 1 ELSE 0)
          /\ \A i \in 1..Len(b) : b[i] = q[(k + 1) + i - 1]
      BY <1>0, <2>1, <2>3, SliceIs
    <3> HIDE DEF b
    <3>2. Len(b) = Len(q) - k
      <4>1. Len(b) = IF k + 1 <= Len(q) THEN Len(q) - (k + 1) + 1 ELSE 0
        BY <3>1
      <4>2. Len(q) \in Nat /\ k \in Nat /\ k <= Len(q)
        BY <1>0, <2>1
      <4> QED
        BY <4>1, <4>2
    <3>3. ASSUME NEW i \in 1..Len(b) PROVE b[i] = q[k + i]
      <4>1. b[i] = q[(k + 1) + i - 1]
        BY <3>1
      <4>2. i \in 1..(Len(q) - k)
        BY <3>2
      <4>3. i \in Int /\ k \in Int
        BY <1>0, <2>1, <4>2
      <4>4. (k + 1) + i - 1 = k + i
        BY <4>3
      <4> QED
        BY <4>1, <4>4
    <3>4. IsSeq(b)
      BY <3>1
    <3> QED
      BY <3>2, <3>3, <3>4
  <2> HIDE DEF a, b
  <2>6. DOMAIN a = 1..(k - 1) /\ DOMAIN b = 1..(Len(q) - k)
    BY <2>4, <2>5, SeqFacts
  <2>7. a \in Seq(R) /\ b \in Seq(R)
    <3>1. \A i \in 1..Len(q) : q[i] \in R
      BY <1>0 DEF Range
    <3> HIDE DEF R
    <3>2. Range(a) \subseteq R /\ Range(b) \subseteq R
      BY <1>0, <2>1, <2>4, <2>5, <2>6, <3>1 DEF Range
    <3> QED
      BY <2>4, <2>5, <3>2 DEF IsSeq
  <2>8. /\ r \in Seq(R) /\ Len(r) = Len(q) - 1
        /\ \A i \in 1..(Len(q) - 1) : r[i] = IF i <= k - 1 THEN q[i] ELSE q[i + 1]
    <3> HIDE DEF R
    <3>1. r \in Seq(R)
      BY <2>7, SeqGrows
    <3>2. /\ Len(r) = Len(a) + Len(b)
          /\ \A i \in 1..(Len(a) + Len(b)) : r[i] = IF i <= Len(a) THEN a[i] ELSE b[i - Len(a)]
      BY <2>7, JoinedIs
    <3> HIDE DEF r
    <3>3. Len(a) + Len(b) = Len(q) - 1
      BY <1>0, <2>1, <2>4, <2>5
    <3>4. ASSUME NEW i \in 1..(Len(q) - 1) PROVE r[i] = IF i <= k - 1 THEN q[i] ELSE q[i + 1]
      <4>1. CASE i <= k - 1
        BY <1>0, <2>1, <2>4, <3>2, <3>3, <4>1
      <4>2. CASE ~(i <= k - 1)
        <5>1. r[i] = b[i - (k - 1)] /\ i - (k - 1) \in 1..Len(b) /\ k + (i - (k - 1)) = i + 1
          BY <1>0, <2>1, <2>4, <2>5, <3>2, <3>3, <4>2
        <5> QED
          BY <2>5, <4>2, <5>1
      <4> QED
        BY <4>1, <4>2
    <3> QED
      BY <3>1, <3>2, <3>3, <3>4
  <2> HIDE DEF r
  <2>9. IsSeq(r) /\ DOMAIN r = 1..(Len(q) - 1) /\ \A i \in DOMAIN r : r[i] \in R
    <3> HIDE DEF R
    <3> QED
      BY <2>8, SeqMembers
  <2>10. Range(r) \subseteq R
    BY <2>9 DEF Range
  <2>11. ASSUME Once(q) PROVE Once(r)
    <3>1. ASSUME NEW i \in 1..(Len(q) - 1), NEW j \in 1..(Len(q) - 1), r[i] = r[j] PROVE i = j
      <4> DEFINE x == IF i <= k - 1 THEN i ELSE i + 1
      <4> DEFINE y == IF j <= k - 1 THEN j ELSE j + 1
      <4>1. x \in DOMAIN q /\ y \in DOMAIN q /\ q[x] = q[y]
        BY <1>0, <2>8, <3>1
      <4>2. x = y
        BY <2>11, <4>1 DEF Once
      <4> QED
        BY <2>1, <4>2
    <3> QED
      BY <2>9, <3>1 DEF Once
  <2> QED
    BY <1>0, <2>2, <2>8, <2>9, <2>10, <2>11 DEF r, R, a, b
<1> QED
  BY <1>1, <1>2

(* The same places, each with a hero of S.                                  *)
LEMMA RefilledIs ==
  ASSUME NEW q, IsSeq(q), NEW S, NEW r, r = [i \in DOMAIN q |-> r[i]],
         \A i \in DOMAIN q : r[i] \in S
  PROVE  IsSeq(r) /\ Len(r) = Len(q) /\ DOMAIN r = DOMAIN q /\ Range(r) \subseteq S
<1>1. Len(q) \in Nat /\ DOMAIN q = 1..Len(q)
  BY SeqFacts
<1>2. IsSeq(r) /\ Len(r) = Len(q)
  BY <1>1, FunctionIsSeq
<1> QED
  BY <1>1, <1>2 DEF Range

LEMMA ReplaceAllIs ==
  ASSUME NEW q, IsSeq(q), NEW old, NEW new
  PROVE  LET r == ReplaceAll(q, old, new) IN
         /\ IsSeq(r) /\ Len(r) = Len(q) /\ Range(r) \subseteq Range(q) \cup {new}
         /\ Once(q) /\ ~Contains(q, new) => Once(r)
<1> DEFINE r == ReplaceAll(q, old, new)
<1>1. Len(q) \in Nat /\ DOMAIN q = 1..Len(q)
  BY SeqFacts
<1>2. r = [i \in DOMAIN q |-> r[i]] /\ \A i \in DOMAIN q : r[i] = IF q[i] = old THEN new ELSE q[i]
  BY <1>1 DEF ReplaceAll
<1> HIDE DEF r
<1>3. \A i \in DOMAIN q : r[i] \in Range(q) \cup {new}
  BY <1>2 DEF Range
<1>4. IsSeq(r) /\ Len(r) = Len(q) /\ DOMAIN r = DOMAIN q /\ Range(r) \subseteq Range(q) \cup {new}
  BY <1>2, <1>3, RefilledIs
<1>5. ASSUME Once(q), ~Contains(q, new) PROVE Once(r)
  BY <1>1, <1>2, <1>4, <1>5 DEF Once, Contains
<1> QED
  BY <1>4, <1>5 DEF r

LEMMA AppendedIs ==
  ASSUME NEW q, IsSeq(q), NEW e
  PROVE  LET r == Append(q, e) IN
         /\ IsSeq(r) /\ Len(r) = Len(q) + 1 /\ Range(r) \subseteq Range(q) \cup {e}
         /\ Once(q) /\ ~Contains(q, e) => Once(r)
<1> DEFINE r == Append(q, e)
<1>1. Len(q) \in Nat /\ DOMAIN q = 1..Len(q)
  BY SeqFacts
<1>2. /\ IsSeq(r) /\ Len(r) = Len(q) + 1 /\ DOMAIN r = 1..(Len(q) + 1)
      /\ r[Len(q) + 1] = e /\ \A i \in 1..Len(q) : r[i] = q[i]
  BY AppendIs
<1> HIDE DEF r
<1>3. Range(r) \subseteq Range(q) \cup {e}
  BY <1>1, <1>2 DEF Range
<1>4. ASSUME Once(q), ~Contains(q, e) PROVE Once(r)
  BY <1>1, <1>2, <1>4 DEF Once, Contains
<1> QED
  BY <1>2, <1>3, <1>4 DEF r

LEMMA OperatedLined ==
  ASSUME NEW S, NEW q, Lined(q, S), NEW source, NEW target
  PROVE  Lined(Operated(q, S, source, target), S)
<1> DEFINE there == Contains(q, source)
<1> DEFINE moved == CASE target = NoHero           -> RemoveFirst(q, source)
                      [] target # NoHero /\ there  -> ReplaceAll(q, source, target)
                      [] target # NoHero /\ ~there -> Append(q, target)
<1>1. CASE target \notin S \cup {NoHero}
  BY <1>1 DEF Operated
<1>2. CASE target \in S \cup {NoHero}
  <2>0. IsSeq(q) /\ Range(q) \subseteq S
    BY DEF Lined
  <2>1. IsSeq(moved) /\ Range(moved) \subseteq S
    <3>1. CASE target = NoHero
      BY <2>0, <3>1, RemoveFirstIs
    <3>2. CASE target # NoHero /\ there
      <4>1. moved = ReplaceAll(q, source, target) /\ target \in S
        BY <1>2, <3>2
      <4> QED
        BY <2>0, <4>1, ReplaceAllIs
    <3>3. CASE target # NoHero /\ ~there
      <4> DEFINE w == Append(q, target)
      <4>1. moved = w /\ target \in S
        BY <1>2, <3>3
      <4>2. IsSeq(w) /\ Range(w) \subseteq Range(q) \cup {target}
        BY <2>0, AppendedIs
      <4> HIDE DEF w
      <4> QED
        BY <2>0, <4>1, <4>2
    <3> QED
      BY <3>1, <3>2, <3>3
  <2>2. Operated(q, S, source, target) = FirstOf(Distinct(moved))
    BY <1>2 DEF Operated
  <2> HIDE DEF moved
  <2>3. /\ Distinct(moved) \in Seq(Range(moved) \cap Range(moved))
        /\ Range(Distinct(moved)) = Range(moved) \cap Range(moved) /\ Once(Distinct(moved))
    BY <2>1, FirstsIs DEF Distinct
  <2>4. IsSeq(Distinct(moved)) /\ Range(Distinct(moved)) \subseteq S
    BY <2>1, <2>3, SeqMembers
  <2> QED
    BY <2>2, <2>3, <2>4, FirstOfIs
<1> QED
  BY <1>1, <1>2

LEMMA ArrangedLined ==
  ASSUME NEW S, NEW q, Lined(q, S), NEW source, NEW target
  PROVE  Lined(Arranged(q, S, source, target), S)
<1> DEFINE r == Arranged(q, S, source, target)
<1> DEFINE swap(h) == CASE h = source -> target [] h = target -> source [] OTHER -> h
<1>0. IsSeq(q) /\ Range(q) \subseteq S /\ Once(q) /\ Len(q) <= TeamSize
  BY DEF Lined
<1>a. Len(q) \in Nat /\ DOMAIN q = 1..Len(q) /\ TeamSize \in Nat
  BY <1>0, SeqFacts, TeamsAssumption
<1>b. \A i \in DOMAIN q : q[i] \in S
  BY <1>0 DEF Range
<1>1. CASE \/ source \notin S \cup {NoHero}
           \/ target # NoHero /\ ~Contains(q, target)
  BY <1>1 DEF Arranged
<1>2. ASSUME NEW e PROVE Lined(RemoveFirst(q, e), S)
  <2> DEFINE w == RemoveFirst(q, e)
  <2>1. /\ IsSeq(w) /\ Len(w) <= Len(q) /\ Range(w) \subseteq Range(q) /\ Once(w)
    BY <1>0, RemoveFirstIs
  <2>2. Len(w) \in Nat
    BY <2>1, SeqFacts
  <2> HIDE DEF w
  <2>3. Lined(w, S)
    BY <1>0, <1>a, <2>1, <2>2 DEF Lined
  <2> QED
    BY <2>3 DEF w
<1>3. ASSUME source \in S, target # NoHero, ~Contains(q, source)
      PROVE  Lined(ReplaceAll(q, target, source), S)
  <2>1. LET w == ReplaceAll(q, target, source)
        IN IsSeq(w) /\ Len(w) = Len(q) /\ Range(w) \subseteq Range(q) \cup {source} /\ Once(w)
    BY <1>0, <1>3, ReplaceAllIs
  <2> QED
    BY <1>0, <1>3, <2>1 DEF Lined
<1>4. ASSUME source \in S, ~Contains(q, source), Len(q) < TeamSize
      PROVE  Lined(Append(q, source), S)
  <2>1. LET w == Append(q, source)
        IN IsSeq(w) /\ Len(w) = Len(q) + 1 /\ Range(w) \subseteq Range(q) \cup {source} /\ Once(w)
    BY <1>0, <1>4, AppendedIs
  <2> QED
    BY <1>0, <1>a, <1>4, <2>1 DEF Lined
<1>5. ASSUME Contains(q, source), Contains(q, target)
      PROVE  Lined([i \in DOMAIN q |-> swap(q[i])], S)
  <2> DEFINE w == [i \in DOMAIN q |-> swap(q[i])]
  <2>1. source \in S /\ target \in S
    BY <1>a, <1>b, <1>5 DEF Contains
  <2>2. /\ w = [i \in DOMAIN q |-> w[i]] /\ \A i \in DOMAIN q : w[i] = swap(q[i]) /\ w[i] \in S
    BY <1>b, <2>1
  <2>3. Once(w)
    BY <1>0 DEF Once
  <2> HIDE DEF w
  <2>4. IsSeq(w) /\ Len(w) = Len(q) /\ Range(w) \subseteq S
    BY <1>0, <2>2, RefilledIs
  <2>5. Lined(w, S)
    BY <1>0, <2>3, <2>4 DEF Lined
  <2> QED
    BY <2>5 DEF w
<1>6. CASE source \in S \cup {NoHero} /\ (target = NoHero \/ Contains(q, target))
  <2>1. CASE target # NoHero /\ source = NoHero
    BY <1>2, <1>6, <2>1 DEF Arranged
  <2>2. CASE target # NoHero /\ source # NoHero /\ Contains(q, source)
    <3>1. r = [i \in DOMAIN q |-> swap(q[i])]
      BY <1>6, <2>2 DEF Arranged
    <3> QED
      BY <1>5, <1>6, <2>2, <3>1
  <2>3. CASE target # NoHero /\ source # NoHero /\ ~Contains(q, source)
    <3>1. r = ReplaceAll(q, target, source) /\ source \in S
      BY <1>6, <2>3 DEF Arranged
    <3> QED
      BY <1>3, <2>3, <3>1
  <2>4. CASE target = NoHero
    <3>1. r = IF Contains(q, source) THEN RemoveFirst(q, source)
              ELSE IF source # NoHero /\ Len(q) < TeamSize THEN Append(q, source) ELSE q
      BY <1>6, <2>4 DEF Arranged
    <3>2. CASE Contains(q, source)
      BY <1>2, <3>1, <3>2
    <3>3. CASE ~Contains(q, source) /\ source # NoHero /\ Len(q) < TeamSize
      BY <1>4, <1>6, <3>1, <3>3
    <3>4. CASE ~Contains(q, source) /\ ~(source # NoHero /\ Len(q) < TeamSize)
      BY <3>1, <3>4
    <3> QED
      BY <3>2, <3>3, <3>4
  <2> QED
    BY <2>1, <2>2, <2>3, <2>4
<1> QED
  BY <1>1, <1>6

-----------------------------------------------------------------------------
(* Skill pages.                                                             *)
NodeCost == [m \in Nodes |-> m.cost]

LEMMA CostsOf ==
  ASSUME NEW S \in SUBSET Nodes
  PROVE  /\ IsFiniteSet(S) /\ \A m \in S : NodeCost[m] = m.cost /\ NodeCost[m] \in Nat
         /\ SumFunction([m \in S |-> m.cost]) = SumFunctionOnSet(NodeCost, S)
         /\ SumFunctionOnSet(NodeCost, S) \in Nat
<1> DEFINE f == [m \in S |-> m.cost]
<1>1. IsFiniteSet(S)
  BY TablesAssumption, FS_Subset
<1>2. \A m \in S : NodeCost[m] = m.cost /\ NodeCost[m] \in Nat
  BY TablesAssumption DEF NodeCost
<1>3. \A m \in S : f[m] \in Int /\ f[m] = NodeCost[m]
  BY <1>2
<1>4. DOMAIN f = S
  OBVIOUS
<1> HIDE DEF f
<1>5. SumFunctionOnSet(f, S) = SumFunctionOnSet(NodeCost, S)
  BY <1>1, <1>3, SumEqual
<1>6. SumFunctionOnSet(NodeCost, S) \in Nat
  BY <1>1, <1>2, SumNat
<1> QED
  BY <1>1, <1>2, <1>4, <1>5, <1>6 DEF SumFunction, f

LEMMA LevelIs ==
  ASSUME NEW page, PageRow(page), NEW k
  PROVE  SkillLevel(page, k) \in Nat
BY DEF PageRow, SkillLevel

(* _set_skill_level sets the level of one place.                            *)
LEMMA AtLevelIs ==
  ASSUME NEW page, PageRow(page), NEW k, NEW n \in Nat, NEW new, PageRow(new),
         new.levels = AtLevel(page.levels, k, n)
  PROVE  \A j : SkillLevel(new, j) = IF j = k THEN n ELSE SkillLevel(page, j)
BY DEF PageRow, SkillLevel, AtLevel, Put

LEMMA AtLevelRow ==
  ASSUME NEW levels, levels \in [DOMAIN levels -> Nat], NEW k, NEW n \in Nat
  PROVE  AtLevel(levels, k, n) \in [DOMAIN AtLevel(levels, k, n) -> Nat]
BY DEF AtLevel, Put

(* What a row has besides its pages decides nothing but these.              *)
LEMMA SamePages ==
  ASSUME NEW h, NEW g, g.cid = h.cid, NEW page
  PROVE  /\ LearnedOn(g, page) = LearnedOn(h, page)
         /\ g.points = h.points /\ PointsOK(h, page) => PointsOK(g, page)
         /\ PassiveOK(h, page) => PassiveOK(g, page)
BY DEF LearnedOn, PointsOK, PassiveOK

LEMMA NewPageOK ==
  ASSUME NEW h, h.points \in Nat
  PROVE  PageRow(NewPage) /\ NewPage.used \in Nat /\ PointsOK(h, NewPage) /\ PassiveOK(h, NewPage)
<1>1. /\ NewPage.used = 0 /\ NewPage.levels = <<>> /\ NewPage.passive = <<>>
      /\ NewPage = [used |-> NewPage.used, levels |-> NewPage.levels, passive |-> NewPage.passive]
  BY DEF NewPage
<1>2. DOMAIN <<>> = {} /\ <<>> = [a \in {} |-> <<>>[a]]
  OBVIOUS
<1>3. PageRow(NewPage)
  BY <1>1, <1>2 DEF PageRow
<1>4. \A k : SkillLevel(NewPage, k) = 0
  BY <1>1, <1>2 DEF SkillLevel
<1>5. LearnedOn(h, NewPage) = {}
  BY <1>4, TablesAssumption DEF LearnedOn
<1>6. SumFunction([m \in {} |-> m.cost]) = 0
  BY CostsOf, SumEmpty
<1>7. PointsOK(h, NewPage)
  BY <1>1, <1>5, <1>6 DEF PointsOK
<1>8. PassiveOK(h, NewPage)
  BY <1>1, <1>2 DEF PassiveOK
<1> QED
  BY <1>1, <1>3, <1>7, <1>8

(* A row with one page replaced or made.                                    *)
PageFits(h, page) ==
  PageRow(page) /\ page.used \in Nat /\ PointsOK(h, page) /\ PassiveOK(h, page)

LEMMA PageSet ==
  ASSUME NEW h, HeroRowOK(h), NEW p \in Pages, NEW page, PageFits(h, page),
         NEW g, DOMAIN g = HeroFields, g = [f \in HeroFields |-> g[f]],
         \A f \in HeroFields \ {"pages", "use"} : g[f] = h[f],
         g.pages = Put(h.pages, p, page), g.use \in DOMAIN g.pages
  PROVE  HeroRowOK(g)
<1>1. /\ g.cid = h.cid /\ g.lvl = h.lvl /\ g.exp = h.exp /\ g.adv = h.adv
      /\ g.quality = h.quality /\ g.points = h.points /\ g.broken = h.broken
  BY DEF HeroFields
<1>2. /\ DOMAIN g.pages = DOMAIN h.pages \cup {p}
      /\ g.pages = [x \in DOMAIN g.pages |-> g.pages[x]]
      /\ g.pages[p] = page
      /\ \A x \in DOMAIN h.pages : g.pages[x] = IF x = p THEN page ELSE h.pages[x]
  <2> DEFINE P == Put(h.pages, p, page)
  <2>1. /\ DOMAIN P = DOMAIN h.pages \cup {p} /\ P = [x \in DOMAIN P |-> P[x]] /\ P[p] = page
        /\ \A x \in DOMAIN h.pages : P[x] = IF x = p THEN page ELSE h.pages[x]
    BY DEF Put
  <2>2. g.pages = P
    OBVIOUS
  <2> HIDE DEF P
  <2> QED
    BY <2>1, <2>2
<1>3. \A x \in DOMAIN h.pages : PageFits(h, h.pages[x])
  BY DEF HeroRowOK, HeroOK, PageFits
<1>4. ASSUME NEW x \in DOMAIN g.pages PROVE PageFits(g, g.pages[x])
  <2>1. PageFits(h, g.pages[x])
    BY <1>2, <1>3
  <2> QED
    BY <1>1, <2>1, SamePages DEF PageFits
<1>5. HeroOK(g)
  BY <1>1, <1>2, <1>4 DEF HeroRowOK, HeroOK, PageFits
<1> QED
  BY <1>1, <1>2, <1>4, <1>5 DEF HeroRowOK, PageFits

(* The page in use is there, so no handler has to make it.                  *)
LEMMA InUseIs ==
  ASSUME NEW h, HeroRowOK(h)
  PROVE  /\ WithPage(h, h.use) = h /\ h.use \in Pages /\ PageFits(h, h.pages[h.use])
         /\ Put(h.pages, h.use, h.pages[h.use]) = h.pages
<1>1. h.use \in DOMAIN h.pages /\ h.use \in Pages /\ h.pages = [p \in DOMAIN h.pages |-> h.pages[p]]
  BY DEF HeroRowOK, HeroOK
<1>2. PageFits(h, h.pages[h.use])
  BY <1>1 DEF HeroRowOK, HeroOK, PageFits
<1>3. Put(h.pages, h.use, h.pages[h.use]) = h.pages
  BY <1>1 DEF Put
<1> QED
  BY <1>1, <1>2, <1>3 DEF WithPage

(* What a row is after the page p was replaced.                             *)
PagePut(h, p, page, g) == g = [h EXCEPT !.pages[p] = page]

LEMMA PageExcept ==
  ASSUME NEW h, HeroRowOK(h), NEW p \in DOMAIN h.pages, NEW page, PageFits(h, page),
         NEW g, PagePut(h, p, page, g)
  PROVE  HeroRowOK(g) /\ \A f \in HeroFields \ {"pages"} : g[f] = h[f]
<1>1. DOMAIN h = HeroFields /\ h = [f \in HeroFields |-> h[f]] /\ p \in Pages
      /\ h.pages = [x \in DOMAIN h.pages |-> h.pages[x]] /\ h.use \in DOMAIN h.pages
  BY DEF HeroRowOK, HeroOK
<1>2. /\ DOMAIN g = HeroFields /\ g = [f \in HeroFields |-> g[f]]
      /\ \A f \in HeroFields \ {"pages"} : g[f] = h[f]
      /\ g.pages = [h.pages EXCEPT ![p] = page]
  BY <1>1 DEF HeroFields, PagePut
<1>3. [h.pages EXCEPT ![p] = page] = Put(h.pages, p, page)
  BY <1>1 DEF Put
<1>4. g.use = h.use
  BY <1>2 DEF HeroFields
<1>5. g.use \in DOMAIN g.pages
  BY <1>1, <1>2, <1>4
<1>6. HeroRowOK(g)
  <2>1. g.pages = Put(h.pages, p, page) /\ \A f \in HeroFields \ {"pages", "use"} : g[f] = h[f]
    BY <1>2, <1>3
  <2>2. DOMAIN g = HeroFields /\ g = [f \in HeroFields |-> g[f]]
    BY <1>2
  <2> QED
    BY <1>1, <1>5, <2>1, <2>2, PageSet
<1> QED
  BY <1>2, <1>6

LEMMA WithPageOK ==
  ASSUME NEW h, HeroRowOK(h), NEW p \in Pages
  PROVE  /\ HeroRowOK(WithPage(h, p)) /\ p \in DOMAIN WithPage(h, p).pages
         /\ \A f \in HeroFields \ {"pages"} : WithPage(h, p)[f] = h[f]
         /\ DOMAIN WithPage(h, p).pages = DOMAIN h.pages \cup {p}
         /\ \A x \in DOMAIN WithPage(h, p).pages :
              WithPage(h, p).pages[x] = IF x \in DOMAIN h.pages THEN h.pages[x] ELSE NewPage
<1>1. DOMAIN h = HeroFields /\ h = [f \in HeroFields |-> h[f]] /\ h.points \in Nat
      /\ h.use \in DOMAIN h.pages
  BY DEF HeroRowOK, HeroOK
<1>2. CASE p \in DOMAIN h.pages
  BY <1>2 DEF WithPage
<1>3. CASE p \notin DOMAIN h.pages
  <2> DEFINE g == [h EXCEPT !.pages = Put(@, p, NewPage)]
  <2>1. WithPage(h, p) = g
    BY <1>3 DEF WithPage
  <2>2. /\ DOMAIN g = HeroFields /\ g = [f \in HeroFields |-> g[f]]
        /\ \A f \in HeroFields \ {"pages"} : g[f] = h[f]
        /\ g.pages = Put(h.pages, p, NewPage)
    BY <1>1 DEF HeroFields
  <2> HIDE DEF g
  <2>3. /\ DOMAIN g.pages = DOMAIN h.pages \cup {p} /\ g.pages[p] = NewPage
        /\ \A x \in DOMAIN h.pages : g.pages[x] = IF x = p THEN NewPage ELSE h.pages[x]
    <3> DEFINE P == Put(h.pages, p, NewPage)
    <3>1. /\ DOMAIN P = DOMAIN h.pages \cup {p} /\ P[p] = NewPage
          /\ \A x \in DOMAIN h.pages : P[x] = IF x = p THEN NewPage ELSE h.pages[x]
      BY DEF Put
    <3>2. g.pages = P
      BY <2>2
    <3> HIDE DEF P
    <3> QED
      BY <3>1, <3>2
  <2>4. g.use = h.use
    BY <2>2 DEF HeroFields
  <2>5. HeroRowOK(g)
    <3>1. PageFits(h, NewPage)
      BY <1>1, NewPageOK DEF PageFits
    <3> QED
      BY <1>1, <2>2, <2>3, <2>4, <3>1, PageSet
  <2> QED
    BY <1>3, <2>1, <2>2, <2>3, <2>5
<1> QED
  BY <1>2, <1>3

(* Learning and unlearning: the node of the level is added to those learned *)
(* on the page, or taken away, and its price with it.                       *)
LEMMA NodesAtIs ==
  ASSUME NEW h, HeroRowOK(h), NEW k, NEW n
  PROVE  /\ NodesAt(h, k, n) \in SUBSET Nodes
         /\ CostOf(h, k, n) = SumFunctionOnSet(NodeCost, NodesAt(h, k, n))
         /\ CostOf(h, k, n) \in Nat
         /\ \A m \in NodesAt(h, k, n) : CostOf(h, k, n) = m.cost
<1> DEFINE N == NodesAt(h, k, n)
<1>1. N \in SUBSET Nodes
  BY DEF NodesAt
<1>2. \A m, l \in N : m = l
  BY TablesAssumption DEF NodesAt
<1> HIDE DEF N
<1>3. CostOf(h, k, n) = SumFunctionOnSet(NodeCost, N) /\ CostOf(h, k, n) \in Nat
  BY <1>1, CostsOf DEF CostOf, N
<1>4. ASSUME NEW m \in N PROVE SumFunctionOnSet(NodeCost, N) = m.cost
  <2>1. N = {} \cup {m}
    BY <1>2
  <2>2. NodeCost[m] = m.cost /\ \A y \in {} \cup {m} : NodeCost[y] \in Int
    BY <1>1, TablesAssumption DEF NodeCost
  <2>3. SumFunctionOnSet(NodeCost, {} \cup {m}) = SumFunctionOnSet(NodeCost, {}) + NodeCost[m]
    BY <2>2, SumWith, FS_EmptySet
  <2>4. m.cost \in Nat
    BY <1>1, TablesAssumption
  <2> QED
    BY <2>1, <2>2, <2>3, <2>4, SumEmpty
<1> QED
  BY <1>1, <1>3, <1>4 DEF N

(* _upgrade_skill changes the levels and the points of the page in use.     *)
LevelsPut(h, levels, used, g) ==
  g = [h EXCEPT !.pages[h.use].levels = levels, !.pages[h.use].used = used]

LEMMA LevelsPutIs ==
  ASSUME NEW h, HeroRowOK(h), NEW L, NEW U, NEW g, LevelsPut(h, L, U, g)
  PROVE  PagePut(h, h.use, [used |-> U, levels |-> L, passive |-> h.pages[h.use].passive], g)
<1> DEFINE page == h.pages[h.use]
<1>1. /\ DOMAIN h = HeroFields /\ h = [f \in HeroFields |-> h[f]]
      /\ h.pages = [x \in DOMAIN h.pages |-> h.pages[x]] /\ h.use \in DOMAIN h.pages
  BY DEF HeroRowOK, HeroOK
<1>2. page = [used |-> page.used, levels |-> page.levels, passive |-> page.passive]
  BY <1>1 DEF HeroRowOK, PageRow
<1>3. g = [h EXCEPT !.pages[h.use] = [page EXCEPT !.levels = L, !.used = U]]
  BY <1>1, <1>2 DEF LevelsPut, HeroFields
<1> HIDE DEF page
<1>4. [page EXCEPT !.levels = L, !.used = U] = [used |-> U, levels |-> L, passive |-> page.passive]
  <2>1. DOMAIN page = {"used", "levels", "passive"} /\ page = [f \in DOMAIN page |-> page[f]]
    BY <1>2
  <2> DEFINE w == [page EXCEPT !.levels = L, !.used = U]
  <2>2. DOMAIN w = {"used", "levels", "passive"} /\ w = [f \in DOMAIN w |-> w[f]]
    BY <2>1
  <2>3. w["levels"] = L /\ w["used"] = U /\ w["passive"] = page["passive"]
    BY <2>1
  <2> HIDE DEF w
  <2>4. w = [used |-> U, levels |-> L, passive |-> page.passive]
    BY <2>2, <2>3
  <2> QED
    BY <2>4 DEF w
<1> QED
  BY <1>3, <1>4 DEF page, PagePut

LEMMA LearnedRow ==
  ASSUME NEW h, HeroRowOK(h), NEW k, MayLearn(h, k)
  PROVE  /\ HeroRowOK(Learned(h, k))
         /\ \A f \in HeroFields \ {"pages"} : Learned(h, k)[f] = h[f]
<1> DEFINE page == h.pages[h.use]
<1> DEFINE n == SkillLevel(page, k) + 1
<1> DEFINE N == NodesAt(h, k, n)
<1> DEFINE cost == CostOf(h, k, n)
<1> DEFINE new == [used |-> page.used + cost, levels |-> AtLevel(page.levels, k, n),
                   passive |-> page.passive]
<1>1. /\ PageFits(h, page) /\ h.points \in Nat
  BY InUseIs DEF HeroRowOK
<1>2. n \in Nat /\ n > 0 /\ SkillLevel(page, k) = n - 1
  BY <1>1, LevelIs DEF PageFits
<1>3. /\ N \in SUBSET Nodes /\ cost = SumFunctionOnSet(NodeCost, N) /\ cost \in Nat
  BY NodesAtIs
<1>4. PICK m \in N : m.cost <= PointsLeft(h, page)
  BY DEF MayLearn
<1>5. cost = m.cost /\ m.cost \in Nat
  BY <1>3, <1>4, NodesAtIs
<1> HIDE DEF cost, n, N
<1>6. /\ new = [used |-> new.used, levels |-> new.levels, passive |-> new.passive]
      /\ new.used = page.used + cost /\ new.levels = AtLevel(page.levels, k, n)
      /\ new.passive = page.passive
  OBVIOUS
<1> HIDE DEF new
<1>7. PageRow(new)
  <2>1. page.levels \in [DOMAIN page.levels -> Nat]
    BY <1>1 DEF PageFits, PageRow
  <2>2. new.levels \in [DOMAIN new.levels -> Nat]
    BY <1>2, <1>6, <2>1, AtLevelRow
  <2>3. new.passive = [a \in DOMAIN new.passive |-> new.passive[a]]
    BY <1>1, <1>6 DEF PageFits, PageRow
  <2> QED
    BY <1>6, <2>2, <2>3 DEF PageRow
<1>8. \A j : SkillLevel(new, j) = IF j = k THEN n ELSE SkillLevel(page, j)
  BY <1>2, <1>6 DEF SkillLevel, AtLevel, Put
<1>9. LearnedOn(h, new) = LearnedOn(h, page) \cup N /\ LearnedOn(h, page) \cap N = {}
  <2>1. \A l \in Nodes : l.lvl \in Nat
    BY TablesAssumption
  <2> QED
    BY <1>2, <1>8, <2>1 DEF LearnedOn, NodesAt, N
<1>10. /\ page.used = SumFunctionOnSet(NodeCost, LearnedOn(h, page)) /\ page.used \in Nat
       /\ page.used * 100 <= h.points
       /\ SumFunction([l \in LearnedOn(h, new) |-> l.cost])
            = SumFunctionOnSet(NodeCost, LearnedOn(h, new))
  <2>1. LearnedOn(h, page) \in SUBSET Nodes /\ LearnedOn(h, new) \in SUBSET Nodes
    BY DEF LearnedOn
  <2> QED
    BY <1>1, <2>1, CostsOf DEF PageFits, PointsOK
<1>11. SumFunctionOnSet(NodeCost, LearnedOn(h, new))
         = SumFunctionOnSet(NodeCost, LearnedOn(h, page)) + SumFunctionOnSet(NodeCost, N)
  <2> DEFINE A == LearnedOn(h, page)
  <2>1. A \in SUBSET Nodes
    BY DEF LearnedOn
  <2> HIDE DEF A
  <2>2. IsFiniteSet(A) /\ IsFiniteSet(N) /\ \A x \in A \cup N : NodeCost[x] \in Int
    BY <1>3, <2>1, FS_Subset, TablesAssumption DEF NodeCost
  <2>3. A \cap N = {} /\ LearnedOn(h, new) = A \cup N
    BY <1>9 DEF A
  <2>4. SumFunctionOnSet(NodeCost, A \cup N)
          = SumFunctionOnSet(NodeCost, A) + SumFunctionOnSet(NodeCost, N)
    BY <2>2, <2>3, SumUnion
  <2> QED
    BY <2>3, <2>4 DEF A
<1>12. new.used * 100 <= h.points
  <2>1. PointsLeft(h, page) = IF (h.points \div 100) - page.used > 0
                              THEN (h.points \div 100) - page.used ELSE 0
    <3>1. (h.points \div 100) - page.used \in Int
      BY <1>1, <1>10
    <3> QED
      BY <3>1, MaxZero DEF PointsLeft
  <2>2. (h.points \div 100) * 100 <= h.points /\ h.points \div 100 \in Int
    BY <1>1
  <2>3. cost <= PointsLeft(h, page)
    BY <1>4, <1>5
  <2>4. CASE (h.points \div 100) - page.used > 0
    <3>1. page.used + cost <= h.points \div 100
      BY <1>3, <1>10, <2>1, <2>2, <2>3, <2>4
    <3> QED
      BY <1>1, <1>3, <1>6, <1>10, <2>2, <3>1
  <2>5. CASE ~((h.points \div 100) - page.used > 0)
    <3>1. cost = 0
      BY <1>3, <2>1, <2>3, <2>5
    <3> QED
      BY <1>6, <1>10, <3>1
  <2> QED
    BY <2>4, <2>5
<1>13. PageFits(h, new)
  <2>1. new.used \in Nat
    BY <1>3, <1>6, <1>10
  <2>2. PassiveOK(h, new)
    BY <1>1, <1>6 DEF PageFits, PassiveOK
  <2>3. PointsOK(h, new)
    BY <1>3, <1>6, <1>10, <1>11, <1>12 DEF PointsOK
  <2> QED
    BY <1>7, <2>1, <2>2, <2>3 DEF PageFits
<1>14. PagePut(h, h.use, new, Learned(h, k))
  <2> DEFINE L == AtLevel(page.levels, k, n)
  <2> DEFINE U == page.used + cost
  <2>1. LevelsPut(h, L, U, Learned(h, k))
    BY InUseIs DEF LevelsPut, Learned, n, cost, HeroRowOK, HeroOK, HeroFields, PageFits, PageRow
  <2> HIDE DEF L, U
  <2>2. PagePut(h, h.use, [used |-> U, levels |-> L, passive |-> page.passive], Learned(h, k))
    BY <2>1, LevelsPutIs
  <2> QED
    BY <2>2 DEF new, L, U
<1>15. h.use \in DOMAIN h.pages
  BY DEF HeroRowOK, HeroOK
<1> QED
  BY <1>13, <1>14, <1>15, PageExcept

LEMMA UnlearnedRow ==
  ASSUME NEW h, HeroRowOK(h), NEW k, MayUnlearn(h, k)
  PROVE  /\ HeroRowOK(Unlearned(h, k))
         /\ \A f \in HeroFields \ {"pages"} : Unlearned(h, k)[f] = h[f]
<1> DEFINE page == h.pages[h.use]
<1> DEFINE n == SkillLevel(page, k)
<1> DEFINE N == NodesAt(h, k, n)
<1> DEFINE cost == CostOf(h, k, n)
<1> DEFINE L == AtLevel(page.levels, k, n - 1)
<1> DEFINE U == Max({0, page.used - cost})
<1> DEFINE new == [used |-> U, levels |-> L, passive |-> page.passive]
<1>1. PageFits(h, page) /\ h.points \in Nat
  BY InUseIs DEF HeroRowOK
<1>2. n \in Nat /\ n > 0 /\ n - 1 \in Nat
  BY <1>1, LevelIs DEF PageFits, MayUnlearn
<1>3. N \in SUBSET Nodes /\ cost = SumFunctionOnSet(NodeCost, N) /\ cost \in Nat
  BY NodesAtIs
<1>4. LevelsPut(h, L, U, Unlearned(h, k))
  BY InUseIs DEF LevelsPut, Unlearned, HeroRowOK, HeroOK, HeroFields, PageFits, PageRow
<1> HIDE DEF cost, n, N
<1>5. page.levels \in [DOMAIN page.levels -> Nat]
  BY <1>1 DEF PageFits, PageRow
<1>6. L \in [DOMAIN L -> Nat]
  BY <1>2, <1>5, AtLevelRow
<1>7. \A j : SkillLevel(new, j) = IF j = k THEN n - 1 ELSE SkillLevel(page, j)
  BY <1>2 DEF SkillLevel, AtLevel, Put
<1> HIDE DEF L, U
<1>8. new.used = U /\ new.levels = L /\ new.passive = page.passive
      /\ new = [used |-> new.used, levels |-> new.levels, passive |-> new.passive]
  OBVIOUS
<1>9. PagePut(h, h.use, new, Unlearned(h, k))
  BY <1>4, LevelsPutIs
<1> HIDE DEF new
<1>10. PageRow(new)
  BY <1>1, <1>6, <1>8 DEF PageFits, PageRow
<1> DEFINE A == LearnedOn(h, new)
<1>11. LearnedOn(h, page) = A \cup N /\ A \cap N = {}
  <2>1. \A l \in Nodes : l.lvl \in Nat
    BY TablesAssumption
  <2>2. \A l \in Nodes : l \in N <=> l.hero = h.cid /\ Place(l) = k /\ l.lvl = n
    BY DEF N, NodesAt
  <2>3. \A l \in Nodes : Place(l) = k /\ l.lvl <= SkillLevel(new, Place(l)) <=>
                          Place(l) = k /\ l.lvl <= n /\ l.lvl # n
    BY <1>2, <1>7, <2>1
  <2>4. SkillLevel(page, k) = n
    BY DEF n
  <2> QED
    BY <1>2, <1>3, <1>7, <2>1, <2>2, <2>3, <2>4 DEF LearnedOn
<1>12. /\ page.used = SumFunctionOnSet(NodeCost, LearnedOn(h, page)) /\ page.used \in Nat
       /\ page.used * 100 <= h.points
       /\ SumFunction([l \in A |-> l.cost]) = SumFunctionOnSet(NodeCost, A)
       /\ SumFunctionOnSet(NodeCost, A) \in Nat
  <2>1. LearnedOn(h, page) \in SUBSET Nodes /\ A \in SUBSET Nodes
    BY DEF LearnedOn
  <2> QED
    BY <1>1, <2>1, CostsOf DEF PageFits, PointsOK
<1>13. page.used = SumFunctionOnSet(NodeCost, A) + cost
  <2>1. A \in SUBSET Nodes
    BY DEF LearnedOn
  <2> HIDE DEF A
  <2>2. IsFiniteSet(A) /\ IsFiniteSet(N) /\ \A x \in A \cup N : NodeCost[x] \in Int
    BY <1>3, <2>1, FS_Subset, TablesAssumption DEF NodeCost
  <2>3. SumFunctionOnSet(NodeCost, A \cup N)
          = SumFunctionOnSet(NodeCost, A) + SumFunctionOnSet(NodeCost, N)
    BY <1>11, <2>2, SumUnion
  <2> QED
    BY <1>3, <1>11, <1>12, <2>3
<1>14. U = SumFunctionOnSet(NodeCost, A)
  <2>1. page.used - cost \in Nat
    BY <1>3, <1>12, <1>13
  <2> QED
    BY <1>3, <1>12, <1>13, <2>1, MaxZero DEF U
<1>15. PageFits(h, new)
  <2>1. PassiveOK(h, new)
    BY <1>1, <1>8 DEF PageFits, PassiveOK
  <2>2. PointsOK(h, new)
    BY <1>1, <1>3, <1>8, <1>12, <1>13, <1>14 DEF PointsOK
  <2> QED
    BY <1>8, <1>10, <1>12, <1>14, <2>1, <2>2 DEF PageFits
<1>16. h.use \in DOMAIN h.pages
  BY DEF HeroRowOK, HeroOK
<1> QED
  BY <1>9, <1>15, <1>16, PageExcept

(* A passive skill is put into a slot, or taken off.                        *)
PassivePut(h, passive, g) == g = [h EXCEPT !.pages[h.use].passive = passive]

LEMMA PassivePutIs ==
  ASSUME NEW h, HeroRowOK(h), NEW v, v = [a \in DOMAIN v |-> v[a]],
         NEW g, PassivePut(h, v, g),
         \A a \in DOMAIN v : v[a] # 0 =>
           /\ \A c \in DOMAIN v : v[c] = v[a] => c = a
           /\ \E m \in Nodes : m.id = v[a] /\ m.hero = h.cid
  PROVE  HeroRowOK(g) /\ \A f \in HeroFields \ {"pages"} : g[f] = h[f]
<1> DEFINE page == h.pages[h.use]
<1> DEFINE new == [used |-> page.used, levels |-> page.levels, passive |-> v]
<1>1. /\ DOMAIN h = HeroFields /\ h = [f \in HeroFields |-> h[f]]
      /\ h.pages = [x \in DOMAIN h.pages |-> h.pages[x]] /\ h.use \in DOMAIN h.pages
  BY DEF HeroRowOK, HeroOK
<1>2. PageFits(h, page)
  BY InUseIs
<1>3. page = [used |-> page.used, levels |-> page.levels, passive |-> page.passive]
  BY <1>2 DEF PageFits, PageRow
<1>4. g = [h EXCEPT !.pages[h.use] = [page EXCEPT !.passive = v]]
  BY <1>1, <1>3 DEF PassivePut, HeroFields
<1>5. [page EXCEPT !.passive = v] = new
  <2> HIDE DEF page
  <2>1. DOMAIN page = {"used", "levels", "passive"} /\ page = [f \in DOMAIN page |-> page[f]]
    BY <1>3
  <2> DEFINE w == [page EXCEPT !.passive = v]
  <2>2. DOMAIN w = {"used", "levels", "passive"} /\ w = [f \in DOMAIN w |-> w[f]]
    BY <2>1
  <2>3. w["levels"] = page["levels"] /\ w["used"] = page["used"] /\ w["passive"] = v
    BY <2>1
  <2> HIDE DEF w
  <2>4. w = new
    BY <2>2, <2>3
  <2> QED
    BY <2>4 DEF w
<1>6. new.used = page.used /\ new.levels = page.levels /\ new.passive = v
      /\ new = [used |-> new.used, levels |-> new.levels, passive |-> new.passive]
  OBVIOUS
<1>7. PagePut(h, h.use, new, g)
  BY <1>4, <1>5 DEF PagePut
<1> HIDE DEF new
<1>8. PageRow(new)
  BY <1>2, <1>6 DEF PageFits, PageRow
<1>9. LearnedOn(h, new) = LearnedOn(h, page)
  BY <1>6 DEF LearnedOn, SkillLevel
<1>10. PageFits(h, new)
  BY <1>2, <1>6, <1>8, <1>9 DEF PageFits, PointsOK, PassiveOK
<1> QED
  BY <1>1, <1>7, <1>10, PageExcept

LEMMA WithoutIs ==
  ASSUME NEW h, HeroRowOK(h), NEW skill
  PROVE  LET old == h.pages[h.use].passive
             v == Without(old, skill)
         IN /\ DOMAIN v = DOMAIN old /\ v = [a \in DOMAIN v |-> v[a]]
            /\ \A a \in DOMAIN old : v[a] = IF old[a] = skill THEN 0 ELSE old[a]
            /\ \A a \in DOMAIN old : old[a] # 0 =>
                 /\ \A c \in DOMAIN old : old[c] = old[a] => c = a
                 /\ \E m \in Nodes : m.id = old[a] /\ m.hero = h.cid
<1>1. PassiveOK(h, h.pages[h.use])
  BY InUseIs DEF PageFits
<1> QED
  BY <1>1 DEF Without, PassiveOK

LEMMA EquippedRow ==
  ASSUME NEW h, HeroRowOK(h), NEW skill, NEW pos, MayEquip(h, skill, pos)
  PROVE  /\ HeroRowOK(Equipped(h, skill, pos))
         /\ \A f \in HeroFields \ {"pages"} : Equipped(h, skill, pos)[f] = h[f]
<1> DEFINE old == h.pages[h.use].passive
<1> DEFINE w == Without(old, skill)
<1> DEFINE v == Put(w, pos, skill)
<1>1. PassivePut(h, v, Equipped(h, skill, pos))
  BY DEF PassivePut, Equipped
<1>2. PICK m \in Nodes : m.id = skill /\ m.hero = h.cid
  BY DEF MayEquip
<1>3. /\ DOMAIN w = DOMAIN old /\ w = [a \in DOMAIN w |-> w[a]]
      /\ \A a \in DOMAIN old : w[a] = IF old[a] = skill THEN 0 ELSE old[a]
      /\ \A a \in DOMAIN old : old[a] # 0 =>
           /\ \A c \in DOMAIN old : old[c] = old[a] => c = a
           /\ \E l \in Nodes : l.id = old[a] /\ l.hero = h.cid
  BY WithoutIs
<1> HIDE DEF old, w
<1>4. /\ DOMAIN v = DOMAIN w \cup {pos} /\ v = [a \in DOMAIN v |-> v[a]]
      /\ v[pos] = skill /\ \A a \in DOMAIN w : v[a] = IF a = pos THEN skill ELSE w[a]
  BY DEF Put
<1> HIDE DEF v
<1>5. ASSUME NEW a \in DOMAIN v, v[a] # 0
      PROVE  /\ \A c \in DOMAIN v : v[c] = v[a] => c = a
             /\ \E l \in Nodes : l.id = v[a] /\ l.hero = h.cid
  BY <1>2, <1>3, <1>4, <1>5
<1> QED
  BY <1>1, <1>4, <1>5, PassivePutIs

LEMMA UnequippedRow ==
  ASSUME NEW h, HeroRowOK(h), NEW skill
  PROVE  /\ HeroRowOK(Unequipped(h, skill))
         /\ \A f \in HeroFields \ {"pages"} : Unequipped(h, skill)[f] = h[f]
<1> DEFINE old == h.pages[h.use].passive
<1> DEFINE v == Without(old, skill)
<1>1. PassivePut(h, v, Unequipped(h, skill))
  BY DEF PassivePut, Unequipped
<1>2. /\ DOMAIN v = DOMAIN old /\ v = [a \in DOMAIN v |-> v[a]]
      /\ \A a \in DOMAIN old : v[a] = IF old[a] = skill THEN 0 ELSE old[a]
      /\ \A a \in DOMAIN old : old[a] # 0 =>
           /\ \A c \in DOMAIN old : old[c] = old[a] => c = a
           /\ \E m \in Nodes : m.id = old[a] /\ m.hero = h.cid
  BY WithoutIs
<1> HIDE DEF old, v
<1>3. ASSUME NEW a \in DOMAIN v, v[a] # 0
      PROVE  /\ \A c \in DOMAIN v : v[c] = v[a] => c = a
             /\ \E m \in Nodes : m.id = v[a] /\ m.hero = h.cid
  BY <1>2, <1>3
<1> QED
  BY <1>1, <1>2, <1>3, PassivePutIs

LEMMA ResetRow ==
  ASSUME NEW h, HeroRowOK(h), NEW p \in DOMAIN h.pages
  PROVE  /\ HeroRowOK(Reset(h, p))
         /\ \A f \in HeroFields \ {"pages"} : Reset(h, p)[f] = h[f]
<1>1. PageFits(h, NewPage)
  BY NewPageOK DEF HeroRowOK, PageFits
<1>2. PagePut(h, p, NewPage, Reset(h, p))
  BY DEF PagePut, Reset
<1> QED
  BY <1>1, <1>2, PageExcept

-----------------------------------------------------------------------------
(* Rows of the roster.                                                      *)
LEMMA RowFrom ==
  ASSUME NEW h, HeroRowOK(h), NEW g, DOMAIN g = HeroFields, g = [f \in HeroFields |-> g[f]],
         \A f \in {"cid", "points", "broken", "pages"} : g[f] = h[f],
         g.lvl \in 1..MaxLevel, g.exp \in Nat, g.adv \in 0..MaxAdvance,
         g.quality \in 1..MaxQuality, g.use \in DOMAIN g.pages
  PROVE  HeroRowOK(g)
<1>1. g.cid = h.cid /\ g.points = h.points /\ g.broken = h.broken /\ g.pages = h.pages
  OBVIOUS
<1>2. HeroOK(g)
  BY <1>1 DEF HeroRowOK, HeroOK
<1>3. ASSUME NEW p \in DOMAIN g.pages
      PROVE  PageRow(g.pages[p]) /\ PointsOK(g, g.pages[p]) /\ PassiveOK(g, g.pages[p])
  <2>1. PageRow(h.pages[p]) /\ PointsOK(h, h.pages[p]) /\ PassiveOK(h, h.pages[p])
    BY <1>1 DEF HeroRowOK
  <2> QED
    BY <1>1, <2>1, SamePages
<1>4. /\ g.points \in Nat /\ g.broken \in Nat
      /\ g.pages = [p \in DOMAIN g.pages |-> g.pages[p]]
      /\ \A n \in DOMAIN Stages[g.cid] : n > g.broken /\ Stages[g.cid][n].points > 0 =>
           g.points <= Stages[g.cid][n].points
  BY <1>1 DEF HeroRowOK
<1> QED
  BY <1>2, <1>3, <1>4 DEF HeroRowOK

LEMMA RowFacts ==
  ASSUME NEW h, HeroRowOK(h)
  PROVE  /\ DOMAIN h = HeroFields /\ h = [f \in HeroFields |-> h[f]]
         /\ h.cid \in HeroCids /\ h.lvl \in 1..MaxLevel /\ h.exp \in Nat
         /\ h.adv \in 0..MaxAdvance /\ h.quality \in 1..MaxQuality
         /\ h.use \in DOMAIN h.pages /\ DOMAIN h.pages \subseteq Pages
         /\ h.points \in Nat /\ h.broken \in Nat
BY DEF HeroRowOK, HeroOK

LEMMA AdvancedRow ==
  ASSUME NEW h, HeroRowOK(h), h.adv < MaxAdvance
  PROVE  LET g == [h EXCEPT !.adv = @ + 1] IN
         HeroRowOK(g) /\ \A f \in HeroFields \ {"adv"} : g[f] = h[f]
<1> DEFINE g == [h EXCEPT !.adv = @ + 1]
<1>1. /\ DOMAIN g = HeroFields /\ g = [f \in HeroFields |-> g[f]] /\ g.adv = h.adv + 1
      /\ \A f \in HeroFields \ {"adv"} : g[f] = h[f]
  BY RowFacts DEF HeroFields
<1> HIDE DEF g
<1>2. \A f \in {"cid", "points", "broken", "pages"} : g[f] = h[f]
  BY <1>1 DEF HeroFields
<1>3. g.lvl = h.lvl /\ g.exp = h.exp /\ g.quality = h.quality /\ g.use = h.use /\ g.pages = h.pages
  BY <1>1 DEF HeroFields
<1>4. g.adv \in 0..MaxAdvance
  BY <1>1, RowFacts DEF MaxAdvance
<1>5. HeroRowOK(g)
  BY <1>1, <1>2, <1>3, <1>4, RowFacts, RowFrom
<1> QED
  BY <1>1, <1>5 DEF g

LEMMA ImprovedRow ==
  ASSUME NEW h, HeroRowOK(h), h.quality < MaxQuality
  PROVE  LET g == [h EXCEPT !.quality = @ + 1] IN
         HeroRowOK(g) /\ \A f \in HeroFields \ {"quality"} : g[f] = h[f]
<1> DEFINE g == [h EXCEPT !.quality = @ + 1]
<1>1. /\ DOMAIN g = HeroFields /\ g = [f \in HeroFields |-> g[f]] /\ g.quality = h.quality + 1
      /\ \A f \in HeroFields \ {"quality"} : g[f] = h[f]
  BY RowFacts DEF HeroFields
<1> HIDE DEF g
<1>2. \A f \in {"cid", "points", "broken", "pages"} : g[f] = h[f]
  BY <1>1 DEF HeroFields
<1>3. g.lvl = h.lvl /\ g.exp = h.exp /\ g.adv = h.adv /\ g.use = h.use /\ g.pages = h.pages
  BY <1>1 DEF HeroFields
<1>4. g.quality \in 1..MaxQuality
  BY <1>1, RowFacts DEF MaxQuality
<1>5. HeroRowOK(g)
  BY <1>1, <1>2, <1>3, <1>4, RowFacts, RowFrom
<1> QED
  BY <1>1, <1>5 DEF g

(* A skin, the level of the angel or of a strengthening: nothing else in    *)
(* the row depends on these.                                                *)
LEMMA LooseRow ==
  ASSUME NEW h, HeroRowOK(h), NEW g, DOMAIN g = HeroFields, g = [f \in HeroFields |-> g[f]],
         \A f \in HeroFields \ {"skin", "angel", "strong"} : g[f] = h[f]
  PROVE  HeroRowOK(g) /\ g.sid = h.sid /\ g.cid = h.cid /\ g.lvl = h.lvl /\ g.exp = h.exp
<1>1. \A f \in {"cid", "points", "broken", "pages"} : g[f] = h[f]
  BY DEF HeroFields
<1>2. /\ g.sid = h.sid /\ g.cid = h.cid /\ g.lvl = h.lvl /\ g.exp = h.exp /\ g.adv = h.adv
      /\ g.quality = h.quality /\ g.use = h.use /\ g.pages = h.pages
  BY DEF HeroFields
<1> QED
  BY <1>1, <1>2, RowFacts, RowFrom

(* _breakthrough: a stage sets no fewer points than the one before it.      *)
LEMMA BrokenRow ==
  ASSUME NEW h, HeroRowOK(h), h.broken + 1 \in DOMAIN Stages[h.cid]
  PROVE  LET given == Stages[h.cid][h.broken + 1].points
             points == IF given > 0 THEN given ELSE h.points
             g == [h EXCEPT !.broken = @ + 1, !.points = points]
         IN HeroRowOK(g) /\ \A f \in HeroFields \ {"broken", "points"} : g[f] = h[f]
<1> DEFINE given == Stages[h.cid][h.broken + 1].points
<1> DEFINE points == IF given > 0 THEN given ELSE h.points
<1> DEFINE g == [h EXCEPT !.broken = @ + 1, !.points = points]
<1>0. points = IF given > 0 THEN given ELSE h.points
  OBVIOUS
<1> HIDE DEF points
<1>1. /\ DOMAIN g = HeroFields /\ g = [f \in HeroFields |-> g[f]]
      /\ g.broken = h.broken + 1 /\ g.points = points
      /\ \A f \in HeroFields \ {"broken", "points"} : g[f] = h[f]
  BY RowFacts DEF HeroFields
<1> HIDE DEF g
<1>2. /\ g.cid = h.cid /\ g.lvl = h.lvl /\ g.exp = h.exp /\ g.adv = h.adv
      /\ g.quality = h.quality /\ g.use = h.use /\ g.pages = h.pages
  BY <1>1 DEF HeroFields
<1>3. /\ given \in Nat
      /\ given > 0 => h.points <= given
      /\ \A l \in DOMAIN Stages[h.cid] :
           l \in Nat /\ (l > h.broken + 1 /\ Stages[h.cid][l].points > 0 =>
                          given <= Stages[h.cid][l].points)
  <2>1. h.cid \in HeroCids /\ h.broken \in Nat /\ h.broken + 1 > h.broken
    BY RowFacts
  <2>2. \A n \in DOMAIN Stages[h.cid] :
          /\ n \in Nat /\ Stages[h.cid][n].points \in Nat
          /\ \A l \in DOMAIN Stages[h.cid] : l > n /\ Stages[h.cid][l].points > 0 =>
               Stages[h.cid][n].points <= Stages[h.cid][l].points
    BY <2>1, TablesAssumption
  <2>3. \A n \in DOMAIN Stages[h.cid] : n > h.broken /\ Stages[h.cid][n].points > 0 =>
          h.points <= Stages[h.cid][n].points
    BY DEF HeroRowOK
  <2> HIDE DEF given
  <2> QED
    BY <2>1, <2>2, <2>3 DEF given
<1>4. /\ points \in Nat /\ h.points <= points
      /\ \A n \in DOMAIN Stages[h.cid] : n > h.broken + 1 /\ Stages[h.cid][n].points > 0 =>
           points <= Stages[h.cid][n].points
  <2>1. points = IF given > 0 THEN given ELSE h.points
    BY <1>0
  <2>2. h.points \in Nat /\ h.broken \in Nat
    BY RowFacts
  <2>3. \A n \in DOMAIN Stages[h.cid] : n > h.broken + 1 /\ Stages[h.cid][n].points > 0 =>
          h.points <= Stages[h.cid][n].points
    <3>1. ASSUME NEW n \in DOMAIN Stages[h.cid], n > h.broken + 1, Stages[h.cid][n].points > 0
          PROVE  h.points <= Stages[h.cid][n].points
      <4>1. n \in Nat
        BY <1>3
      <4>2. n > h.broken
        BY <2>2, <3>1, <4>1
      <4> QED
        BY <3>1, <4>2 DEF HeroRowOK
    <3> QED
      BY <3>1
  <2> HIDE DEF given
  <2>4. CASE given > 0
    BY <1>3, <2>1, <2>4
  <2>5. CASE ~(given > 0)
    BY <2>1, <2>2, <2>3, <2>5
  <2> QED
    BY <2>4, <2>5
<1>5. ASSUME NEW p \in DOMAIN g.pages
      PROVE  PageRow(g.pages[p]) /\ PointsOK(g, g.pages[p]) /\ PassiveOK(g, g.pages[p])
  <2> DEFINE page == g.pages[p]
  <2>1. PageRow(page) /\ PointsOK(h, page) /\ PassiveOK(h, page) /\ page.used \in Nat
    BY <1>2 DEF HeroRowOK, HeroOK
  <2> HIDE DEF page
  <2>2. LearnedOn(g, page) = LearnedOn(h, page) /\ PassiveOK(g, page)
    BY <1>2, <2>1, SamePages
  <2>3. page.used * 100 <= g.points
    <3>1. page.used * 100 <= h.points /\ page.used * 100 \in Nat
      BY <2>1 DEF PointsOK
    <3>2. h.points \in Nat
      BY RowFacts
    <3> QED
      BY <1>1, <1>4, <3>1, <3>2
  <2>4. PointsOK(g, page)
    BY <2>1, <2>2, <2>3 DEF PointsOK
  <2> QED
    BY <2>1, <2>2, <2>4 DEF page
<1>6. HeroOK(g)
  BY <1>2 DEF HeroRowOK, HeroOK
<1>7. /\ g.points \in Nat /\ g.broken \in Nat
      /\ \A n \in DOMAIN Stages[g.cid] : n > g.broken /\ Stages[g.cid][n].points > 0 =>
           g.points <= Stages[g.cid][n].points
  BY <1>1, <1>2, <1>4, RowFacts
<1>8. g.pages = [p \in DOMAIN g.pages |-> g.pages[p]]
  BY <1>2 DEF HeroRowOK
<1>9. HeroRowOK(g)
  BY <1>1, <1>5, <1>6, <1>7, <1>8 DEF HeroRowOK
<1> QED
  BY <1>1, <1>9 DEF g, points

(* USE_SKILL_STRATEGY                                                       *)
LEMMA UsedRow ==
  ASSUME NEW h, HeroRowOK(h), NEW p \in Pages
  PROVE  LET g == [WithPage(h, p) EXCEPT !.use = p] IN
         HeroRowOK(g) /\ \A f \in HeroFields \ {"pages", "use"} : g[f] = h[f]
<1> DEFINE w == WithPage(h, p)
<1> DEFINE g == [w EXCEPT !.use = p]
<1>1. /\ HeroRowOK(w) /\ p \in DOMAIN w.pages /\ \A f \in HeroFields \ {"pages"} : w[f] = h[f]
  BY WithPageOK
<1> HIDE DEF w
<1>2. /\ DOMAIN g = HeroFields /\ g = [f \in HeroFields |-> g[f]] /\ g.use = p
      /\ \A f \in HeroFields \ {"use"} : g[f] = w[f]
  BY <1>1, RowFacts DEF HeroFields
<1> HIDE DEF g
<1>3. \A f \in {"cid", "points", "broken", "pages"} : g[f] = w[f]
  BY <1>2 DEF HeroFields
<1>4. g.lvl = w.lvl /\ g.exp = w.exp /\ g.adv = w.adv /\ g.quality = w.quality /\ g.pages = w.pages
  BY <1>2 DEF HeroFields
<1>5. HeroRowOK(g)
  BY <1>1, <1>2, <1>3, <1>4, RowFacts, RowFrom
<1> QED
  BY <1>1, <1>2, <1>5 DEF g, w

-----------------------------------------------------------------------------
(* EXP.                                                                     *)
LEMMA ExpUpToIs ==
  ASSUME NEW m \in 1..MaxLevel, NEW n \in m..MaxLevel
  PROVE  /\ ExpUpTo(m, n) \in Nat /\ ExpUpTo(1, n) = ExpUpTo(1, m) + ExpUpTo(m, n)
         /\ ExpUpTo(1, m) \in Nat /\ ExpUpTo(m, m) = 0
<1>0. MaxLevel \in Nat /\ m \in Nat /\ n \in Nat /\ 1 <= m /\ m <= n /\ n <= MaxLevel
  BY TablesAssumption
<1>1. \A k \in 1..MaxLevel : HeroExp[k] \in Nat
  BY TablesAssumption
<1> DEFINE A == 1..(m - 1)
<1> DEFINE B == m..(n - 1)
<1>2. A \cap B = {} /\ A \cup B = 1..(n - 1) /\ A \subseteq 1..MaxLevel /\ B \subseteq 1..MaxLevel
  BY <1>0
<1>3. IsFiniteSet(A) /\ IsFiniteSet(B)
  BY <1>0, FS_Interval
<1>4. m..(m - 1) = {}
  BY <1>0
<1>5. ExpUpTo(1, n) = SumFunctionOnSet(HeroExp, A \cup B)
  BY <1>2 DEF ExpUpTo
<1> HIDE DEF A, B
<1>6. (\A k \in A \cup B : HeroExp[k] \in Int) /\ (\A k \in A : HeroExp[k] \in Nat)
      /\ (\A k \in B : HeroExp[k] \in Nat)
  BY <1>1, <1>2
<1>7. SumFunctionOnSet(HeroExp, A \cup B)
        = SumFunctionOnSet(HeroExp, A) + SumFunctionOnSet(HeroExp, B)
  BY <1>2, <1>3, <1>6, SumUnion
<1>8. SumFunctionOnSet(HeroExp, A) \in Nat /\ SumFunctionOnSet(HeroExp, B) \in Nat
  BY <1>3, <1>6, SumNat
<1>9. SumFunctionOnSet(HeroExp, {}) = 0
  BY SumEmpty
<1> QED
  BY <1>4, <1>5, <1>7, <1>8, <1>9 DEF ExpUpTo, A, B

LEMMA ReachedIs ==
  ASSUME NEW lvl \in 1..MaxLevel, NEW exp \in Nat, NEW cap \in lvl..MaxLevel
  PROVE  Reached(lvl, exp, cap) \in lvl..cap /\ ExpUpTo(lvl, Reached(lvl, exp, cap)) <= exp
<1> DEFINE R == {n \in lvl..cap :
                   \A k \in lvl..(n - 1) : HeroExp[k] > 0 /\ ExpUpTo(lvl, k + 1) <= exp}
<1>0. MaxLevel \in Nat /\ lvl \in Nat /\ cap \in Nat /\ lvl <= cap /\ 1 <= lvl
  BY TablesAssumption
<1>1. lvl \in R
  BY <1>0
<1>2. IsFiniteSet(R) /\ R \in SUBSET Int
  <2>1. IsFiniteSet(lvl..cap) /\ R \subseteq lvl..cap
    BY <1>0, FS_Interval
  <2>2. lvl..cap \subseteq Int
    BY <1>0
  <2> HIDE DEF R
  <2>3. IsFiniteSet(R)
    BY <2>1, FS_Subset
  <2> QED
    BY <2>1, <2>2, <2>3
<1> DEFINE r == Max(R)
<1>3. r \in R
  <2> HIDE DEF R
  <2> QED
    BY <1>1, <1>2, FiniteMax
<1>4. r = Reached(lvl, exp, cap)
  BY DEF Reached
<1> HIDE DEF r
<1>5. r \in lvl..cap /\ \A k \in lvl..(r - 1) : ExpUpTo(lvl, k + 1) <= exp
  BY <1>3
<1> HIDE DEF R
<1>6. CASE r = lvl
  <2>1. ExpUpTo(lvl, lvl) = 0
    <3>1. lvl \in lvl..MaxLevel
      BY <1>0
    <3> QED
      BY <3>1, ExpUpToIs
  <2> QED
    BY <1>4, <1>5, <1>6, <2>1
<1>7. CASE r # lvl
  <2>1. r - 1 \in lvl..(r - 1) /\ (r - 1) + 1 = r
    BY <1>0, <1>5, <1>7
  <2>2. ExpUpTo(lvl, (r - 1) + 1) <= exp
    BY <1>5, <2>1
  <2> QED
    BY <1>4, <1>5, <2>1, <2>2
<1> QED
  BY <1>6, <1>7

Climbs(h, gained, cap, g) ==
  LET r == Reached(h.lvl, h.exp + gained, cap)
  IN g = [h EXCEPT !.lvl = r, !.exp = (h.exp + gained) - ExpUpTo(h.lvl, r)]

LEMMA ClimbedRow ==
  ASSUME NEW h, HeroRowOK(h), NEW gained \in Nat, NEW cap \in h.lvl..MaxLevel,
         NEW g, Climbs(h, gained, cap, g)
  PROVE  /\ HeroRowOK(g) /\ g.lvl <= cap /\ ExpOf(g) = ExpOf(h) + gained
         /\ \A f \in HeroFields \ {"lvl", "exp"} : g[f] = h[f]
<1> DEFINE r == Reached(h.lvl, h.exp + gained, cap)
<1> DEFINE e == (h.exp + gained) - ExpUpTo(h.lvl, r)
<1>0. g = [h EXCEPT !.lvl = r, !.exp = e]
  BY DEF Climbs
<1>1. h.lvl \in 1..MaxLevel /\ h.exp \in Nat /\ h.exp + gained \in Nat /\ MaxLevel \in Nat
  BY RowFacts, TablesAssumption
<1>2. r \in h.lvl..cap /\ ExpUpTo(h.lvl, r) <= h.exp + gained
  BY <1>1, ReachedIs
<1> HIDE DEF r
<1>3. r \in h.lvl..MaxLevel /\ r \in 1..MaxLevel /\ r <= cap
  BY <1>1, <1>2
<1>4. /\ ExpUpTo(h.lvl, r) \in Nat /\ ExpUpTo(1, h.lvl) \in Nat
      /\ ExpUpTo(1, r) = ExpUpTo(1, h.lvl) + ExpUpTo(h.lvl, r)
  BY <1>1, <1>3, ExpUpToIs
<1>5. e \in Nat
  BY <1>1, <1>2, <1>4
<1>6. ExpUpTo(1, r) + e = ExpUpTo(1, h.lvl) + h.exp + gained
  BY <1>1, <1>4
<1> HIDE DEF e
<1>7. /\ DOMAIN g = HeroFields /\ g = [f \in HeroFields |-> g[f]] /\ g.lvl = r /\ g.exp = e
      /\ \A f \in HeroFields \ {"lvl", "exp"} : g[f] = h[f]
  BY <1>0, RowFacts DEF HeroFields
<1>8. \A f \in {"cid", "points", "broken", "pages"} : g[f] = h[f]
  BY <1>7 DEF HeroFields
<1>9. g.adv = h.adv /\ g.quality = h.quality /\ g.use = h.use /\ g.pages = h.pages
  BY <1>7 DEF HeroFields
<1>10. HeroRowOK(g)
  BY <1>3, <1>5, <1>7, <1>8, <1>9, RowFacts, RowFrom
<1>11. ExpOf(g) = ExpOf(h) + gained
  BY <1>1, <1>4, <1>6, <1>7 DEF ExpOf
<1> QED
  BY <1>3, <1>7, <1>10, <1>11

LEMMA ExpInIs ==
  ASSUME NEW h, h.cid \in HeroCids, NEW food, IsSeq(food),
         \A j \in DOMAIN food : food[j].id \in DOMAIN ExpValue[h.cid] /\ food[j].num \in Nat
  PROVE  ExpIn(h, food) \in Nat
<1> DEFINE f == [j \in DOMAIN food |-> ExpValue[h.cid][food[j].id] * food[j].num]
<1>1. ASSUME NEW j \in DOMAIN food PROVE f[j] \in Nat
  <2>1. ExpValue[h.cid][food[j].id] \in Nat /\ food[j].num \in Nat
    BY TablesAssumption
  <2> QED
    BY <2>1
<1>2. IsFiniteSet(DOMAIN food) /\ DOMAIN f = DOMAIN food
  BY SeqFacts
<1> HIDE DEF f
<1>3. SumFunctionOnSet(f, DOMAIN food) \in Nat
  BY <1>1, <1>2, SumNat
<1> QED
  BY <1>2, <1>3 DEF ExpIn, SumFunction, f

-----------------------------------------------------------------------------
(* Items.  What a price takes is what the book says.                        *)
LEMMA NothingWorth ==
  ASSUME NEW c
  PROVE  Worth(<<>>, c) = 0
<1>1. {i \in DOMAIN <<>> : <<>>[i].id = c} = {}
  OBVIOUS
<1> QED
  BY <1>1, SumEmpty DEF Worth

LEMMA ConsumedItems ==
  ASSUME NEW bag, NEW net, ItemsOf(bag, net), NEW costs \in Lines(Cids),
         CanConsumeCids(bag, costs)
  PROVE  ItemsOf(ConsumedCids(bag, costs), Booked(net, costs, <<>>))
<1> DEFINE new == ConsumedCids(bag, costs)
<1>1. IsLines(costs)
  BY LinesTyped
<1>2. IsBag(bag) /\ DistinctIds(bag) /\ BagCids(bag) \subseteq Cids
  BY DEF ItemsOf, BagGood
<1>3. \A c : Total(bag, c) \in Nat /\ Worth(costs, c) \in Nat /\ Worth(<<>>, c) = 0
             /\ Asked(costs, c) = Worth(costs, c)
  BY <1>1, <1>2, BagFacts, LinesFacts, NothingWorth
<1>4. /\ IsBag(new) /\ DOMAIN new = DOMAIN bag
      /\ \A i \in DOMAIN bag : new[i].id = bag[i].id /\ new[i].cid = bag[i].cid
  BY <1>1, <1>2, ConsumedRows
<1>5. ASSUME NEW c PROVE Total(new, c) = Total(bag, c) - Worth(costs, c)
  <2>1. Asked(costs, c) <= Total(bag, c)
    <3>1. CASE c \in Named(costs)
      BY <3>1 DEF CanConsumeCids
    <3>2. CASE c \notin Named(costs)
      BY <1>1, <1>3, <3>2, LinesFacts
    <3> QED
      BY <3>1, <3>2
  <2> QED
    BY <1>1, <1>2, <1>3, <2>1, ConsumedTotal
<1> HIDE DEF new
<1>6. BagGood(new)
  BY <1>2, <1>4 DEF BagGood, BagCids, DistinctIds
<1>7. net = [c \in Cids |-> Total(bag, c)]
  BY DEF ItemsOf
<1>8. Booked(net, costs, <<>>) = [c \in Cids |-> Total(new, c)]
  <2>1. ASSUME NEW c \in Cids PROVE net[c] + Worth(<<>>, c) - Worth(costs, c) = Total(new, c)
    BY <1>3, <1>5, <1>7
  <2> QED
    BY <2>1 DEF Booked
<1> QED
  BY <1>6, <1>8 DEF ItemsOf, new

(* What a price costs, as the handlers find it.                             *)
LEMMA PriceIs ==
  ASSUME NEW s, NEW price \in Price, CanPay(s, price)
  PROVE  price \in Lines(Cids) /\ CanConsumeCids(s.bag, price)
BY DEF Price, CanPay


-----------------------------------------------------------------------------
(* One row of the roster, the bag and the books of a copy change together.  *)
RowIn(q, i, h, r) == r = [q EXCEPT ![i] = h]
RowPut(s, i, h, t) == t = [s EXCEPT !.heroes[i] = h]

LEMMA PaidIs ==
  ASSUME NEW s, Fields(s), NEW price
  PROVE  /\ Changed(s, Paid(s, price), {"bag"}, {})
         /\ Paid(s, price).bag = ConsumedCids(s.bag, price)
         /\ Paid(s, price).heroes = s.heroes
BY DEF Fields, Changed, Paid, SaveFields, BookFields

LEMMA RowPutIs ==
  ASSUME NEW s, Fields(s), NEW i, NEW h, NEW t, RowPut(s, i, h, t)
  PROVE  Changed(s, t, {"heroes"}, {}) /\ RowIn(s.heroes, i, h, t.heroes)
BY DEF Fields, Changed, RowPut, RowIn, SaveFields, BookFields

LEMMA SoldIs ==
  ASSUME NEW s, Fields(s), NEW price
  PROVE  /\ Changed(s, Sold(s, price), {}, {"net"})
         /\ Sold(s, price).book.net = Booked(s.book.net, price, <<>>)
BY DEF Fields, Changed, Sold, SaveFields, BookFields

LEMMA ChangedTwice ==
  ASSUME NEW s, NEW t, NEW u, NEW F, NEW G, NEW E, NEW D,
         Changed(s, t, F, E), Changed(t, u, G, D)
  PROVE  Changed(s, u, F \cup G, E \cup D)
BY DEF Changed

LEMMA RosterPut ==
  ASSUME NEW s, RosterGood(s), NEW t, t.lvl = s.lvl, NEW i \in DOMAIN s.heroes,
         NEW h, HeroRowOK(h), h.sid = s.heroes[i].sid, h.cid = s.heroes[i].cid,
         h.lvl <= s.lvl, RowIn(s.heroes, i, h, t.heroes)
  PROVE  /\ RosterGood(t) /\ Sids(t) = Sids(s) /\ \A c : Owns(t, c) <=> Owns(s, c)
         /\ DOMAIN t.heroes = DOMAIN s.heroes
         /\ \A j \in DOMAIN s.heroes : t.heroes[j] = IF j = i THEN h ELSE s.heroes[j]
<1>1. Len(s.heroes) \in Nat /\ DOMAIN s.heroes = 1..Len(s.heroes)
  BY SeqFacts DEF RosterGood
<1>2. /\ DOMAIN t.heroes = DOMAIN s.heroes
      /\ \A j \in DOMAIN s.heroes : t.heroes[j] = IF j = i THEN h ELSE s.heroes[j]
  BY <1>1 DEF RowIn
<1>3. IsSeq(t.heroes)
  <2>1. t.heroes = [j \in 1..Len(s.heroes) |-> t.heroes[j]]
    BY <1>1 DEF RowIn
  <2> QED
    BY <1>1, <2>1, FunctionIsSeq
<1>4. \A j \in DOMAIN s.heroes : /\ t.heroes[j].sid = s.heroes[j].sid
                                 /\ t.heroes[j].cid = s.heroes[j].cid
  BY <1>2
<1>5. \A j \in DOMAIN s.heroes : HeroRowOK(t.heroes[j]) /\ t.heroes[j].lvl <= s.lvl
  BY <1>2 DEF RosterGood
<1>6. RosterGood(t)
  <2>1. \A j, k \in DOMAIN t.heroes :
          t.heroes[j].sid = t.heroes[k].sid \/ t.heroes[j].cid = t.heroes[k].cid => j = k
    BY <1>2, <1>4 DEF RosterGood
  <2>2. DOMAIN t.heroes = DOMAIN s.heroes
    BY <1>2
  <2> QED
    BY <1>3, <1>5, <2>1, <2>2 DEF RosterGood
<1>7. Sids(t) = Sids(s) /\ \A c : Owns(t, c) <=> Owns(s, c)
  <2>1. DOMAIN t.heroes = DOMAIN s.heroes
    BY <1>2
  <2>2. Sids(t) = Sids(s)
    BY <1>4, <2>1 DEF Sids
  <2> QED
    BY <1>4, <2>1, <2>2 DEF Owns
<1> QED
  BY <1>2, <1>6, <1>7

(* Row i becomes h, which has e EXP more, and the book says so.             *)
Trained(s, i, h, e, t) ==
  /\ Changed(s, t, {"bag", "heroes"}, {"net", "fed"})
  /\ RowIn(s.heroes, i, h, t.heroes)
  /\ t.book.fed \in [HeroCids -> Int]
  /\ \A c \in HeroCids : t.book.fed[c] = s.book.fed[c] + IF c = h.cid THEN e ELSE 0

LEMMA TrainedHeld ==
  ASSUME NEW s, Held(s), NEW i \in DOMAIN s.heroes,
         NEW h, HeroRowOK(h), h.sid = s.heroes[i].sid, h.cid = s.heroes[i].cid,
         h.lvl <= s.lvl, NEW e \in Nat, ExpOf(h) = ExpOf(s.heroes[i]) + e,
         NEW t, Trained(s, i, h, e, t), SameItems(s, t) \/ ItemsGood(t)
  PROVE  Held(t)
<1>1. Changed(s, t, {"bag", "heroes"}, {"net", "fed"}) /\ RowIn(s.heroes, i, h, t.heroes)
  BY DEF Trained
<1>2. /\ Fields(t) /\ t.lvl = s.lvl /\ t.gear = s.gear /\ SameBanners(s, t)
      /\ t.teams = s.teams /\ t.backups = s.backups /\ t.book.shown = s.book.shown
  <2>1. {"net", "fed"} \cap {"starters", "plain", "missed"} = {}
    OBVIOUS
  <2>2. Fields(t) /\ t.lvl = s.lvl /\ t.gear = s.gear /\ SameBanners(s, t)
    BY <1>1, <2>1, ChangedSame
  <2>3. t.teams = s.teams /\ t.backups = s.backups /\ t.book.shown = s.book.shown
    BY <1>1 DEF Changed, SaveFields, BookFields
  <2> QED
    BY <2>2, <2>3
<1>3. RosterGood(s) /\ FedGood(s)
  BY DEF Held
<1>4. /\ RosterGood(t) /\ Sids(t) = Sids(s) /\ \A c : Owns(t, c) <=> Owns(s, c)
      /\ DOMAIN t.heroes = DOMAIN s.heroes
      /\ \A j \in DOMAIN s.heroes : t.heroes[j] = IF j = i THEN h ELSE s.heroes[j]
  BY <1>1, <1>2, <1>3, RosterPut
<1>5. SameShown(s, t) /\ SameTeams(s, t)
  BY <1>2, <1>4 DEF SameShown, SameTeams
<1>6. FedGood(t)
  <2>1. ASSUME NEW j \in DOMAIN t.heroes
        PROVE  ExpOf(t.heroes[j]) = t.book.fed[t.heroes[j].cid]
    <3>1. /\ j \in DOMAIN s.heroes /\ s.heroes[j].cid \in HeroCids
          /\ ExpOf(s.heroes[j]) = s.book.fed[s.heroes[j].cid]
          /\ s.book.fed[s.heroes[j].cid] \in Int
      BY <1>3, <1>4, RowFacts DEF RosterGood, FedGood
    <3>2. CASE j = i
      <4>1. t.book.fed[h.cid] = s.book.fed[h.cid] + e
        BY <3>1, <3>2 DEF Trained
      <4> QED
        BY <1>4, <3>1, <3>2, <4>1
    <3>3. CASE j # i
      <4>1. s.heroes[j].cid # h.cid
        BY <1>3, <3>1, <3>3 DEF RosterGood
      <4>2. t.book.fed[s.heroes[j].cid] = s.book.fed[s.heroes[j].cid] + 0
        BY <3>1, <4>1 DEF Trained
      <4> QED
        BY <1>4, <3>1, <3>3, <4>2
    <3> QED
      BY <3>2, <3>3
  <2>2. ASSUME NEW c \in HeroCids, ~Owns(t, c) PROVE t.book.fed[c] = 0
    <3>1. c # h.cid /\ s.book.fed[c] = 0
      BY <1>3, <1>4, <2>2 DEF FedGood, Owns
    <3> QED
      BY <3>1 DEF Trained
  <2> QED
    BY <2>1, <2>2 DEF FedGood, Trained
<1> QED
  BY <1>2, <1>4, <1>5, <1>6, HeldFrom

(* A row that keeps its sid, cid, level and EXP.                            *)
Alike(h, g) == g.sid = h.sid /\ g.cid = h.cid /\ g.lvl = h.lvl /\ g.exp = h.exp

LEMMA AlikeExp ==
  ASSUME NEW h, HeroRowOK(h), NEW g, Alike(h, g)
  PROVE  ExpOf(g) = ExpOf(h) + 0
<1>1. h.exp \in Nat /\ ExpUpTo(1, h.lvl) \in Nat
  BY RowFacts, ExpUpToIs, TablesAssumption
<1> QED
  BY <1>1 DEF ExpOf, Alike

LEMMA RowHeld ==
  ASSUME NEW s, Held(s), NEW i \in DOMAIN s.heroes, NEW h, HeroRowOK(h),
         Alike(s.heroes[i], h), NEW t, RowPut(s, i, h, t)
  PROVE  Held(t)
<1>1. Fields(s) /\ RosterGood(s) /\ FedGood(s)
  BY DEF Held
<1>2. Changed(s, t, {"heroes"}, {}) /\ RowIn(s.heroes, i, h, t.heroes)
  BY <1>1, RowPutIs
<1>3. SameItems(s, t) /\ Changed(s, t, {"bag", "heroes"}, {"net", "fed"})
  <2>1. SameItems(s, t)
    BY <1>2, ChangedSame
  <2> QED
    BY <1>2, <2>1 DEF Changed
<1>4. t.book.fed = s.book.fed
  BY <1>2 DEF Changed, BookFields
<1>5. \A c \in HeroCids : s.book.fed[c] \in Int
  BY <1>1 DEF FedGood
<1>6. Trained(s, i, h, 0, t)
  BY <1>1, <1>2, <1>3, <1>4, <1>5 DEF Trained, FedGood
<1>7. /\ h.lvl <= s.lvl /\ h.sid = s.heroes[i].sid /\ h.cid = s.heroes[i].cid
      /\ ExpOf(h) = ExpOf(s.heroes[i]) + 0
  BY <1>1, AlikeExp DEF RosterGood, Alike
<1> QED
  BY <1>3, <1>6, <1>7, TrainedHeld

LEMMA BoughtHeld ==
  ASSUME NEW s, Held(s), NEW i \in DOMAIN s.heroes, NEW h, HeroRowOK(h),
         Alike(s.heroes[i], h), NEW price \in Price, CanPay(s, price),
         NEW t, RowPut(Paid(s, price), i, h, t)
  PROVE  Held(Sold(t, price))
<1> DEFINE p == Paid(s, price)
<1> DEFINE u == Sold(t, price)
<1>1. Fields(s) /\ RosterGood(s) /\ FedGood(s) /\ ItemsGood(s)
  BY DEF Held
<1>2. Changed(s, p, {"bag"}, {}) /\ p.bag = ConsumedCids(s.bag, price) /\ p.heroes = s.heroes
  BY <1>1, PaidIs
<1>3. Changed(p, t, {"heroes"}, {}) /\ RowIn(p.heroes, i, h, t.heroes)
  BY <1>2, RowPutIs DEF Changed
<1>4. Changed(t, u, {}, {"net"}) /\ u.book.net = Booked(t.book.net, price, <<>>)
  BY <1>3, SoldIs DEF Changed
<1> HIDE DEF p, u
<1>5. /\ u.bag = t.bag /\ u.heroes = t.heroes /\ u.book.fed = t.book.fed
      /\ t.book.fed = p.book.fed /\ p.book.fed = s.book.fed /\ p.book.net = s.book.net
      /\ t.bag = p.bag /\ t.book.net = p.book.net
  BY <1>2, <1>3, <1>4 DEF Changed, SaveFields, BookFields
<1>6. Changed(s, u, {"bag", "heroes"}, {"net", "fed"})
  BY <1>2, <1>3, <1>4 DEF Changed
<1>7. \A c \in HeroCids : s.book.fed[c] \in Int
  BY <1>1 DEF FedGood
<1>8. Trained(s, i, h, 0, u)
  BY <1>1, <1>2, <1>3, <1>5, <1>6, <1>7 DEF Trained, FedGood
<1>9. ItemsGood(u)
  <2>1. ItemsOf(ConsumedCids(s.bag, price), Booked(s.book.net, price, <<>>))
    BY <1>1, PriceIs, ConsumedItems DEF ItemsGood
  <2> QED
    BY <1>2, <1>4, <1>5, <2>1 DEF ItemsGood
<1>10. /\ h.lvl <= s.lvl /\ h.sid = s.heroes[i].sid /\ h.cid = s.heroes[i].cid
       /\ ExpOf(h) = ExpOf(s.heroes[i]) + 0
  BY <1>1, AlikeExp DEF RosterGood, Alike
<1>11. Held(u)
  BY <1>8, <1>9, <1>10, TrainedHeld
<1> QED
  BY <1>11 DEF u

-----------------------------------------------------------------------------
(* The handlers of heroes and angels.                                       *)
LEMMA RowOfMem ==
  ASSUME NEW s, Held(s), NEW i \in DOMAIN s.heroes
  PROVE  HeroRowOK(s.heroes[i])
BY DEF Held, RosterGood

LEMMA AdvanceHeld ==
  ASSUME HeldInv, NEW i \in DOMAIN mem.heroes, Advance(i)
  PROVE  HeldInv'
<1> DEFINE h == mem.heroes[i]
<1> DEFINE price == PriceToAdvance(h)
<1> DEFINE g == [h EXCEPT !.adv = @ + 1]
<1>1. Held(mem) /\ HeroRowOK(h)
  BY RowOfMem DEF HeldInv
<1>2. CanPay(mem, price) /\ Answer(Sold(Advanced(mem, i), price), TRUE)
  BY DEF Advance
<1>3. h.adv < MaxAdvance /\ price \in Price
  <2>1. price # NoCost
    BY <1>2 DEF CanPay
  <2>2. h.adv < MaxAdvance
    BY <2>1 DEF PriceToAdvance
  <2>3. h.adv \in 0..(MaxAdvance - 1) /\ h.cid \in HeroCids
    BY <1>1, <2>2, RowFacts DEF MaxAdvance
  <2> QED
    BY <2>2, <2>3, TablesAssumption DEF PriceToAdvance
<1>4. HeroRowOK(g) /\ \A f \in HeroFields \ {"adv"} : g[f] = h[f]
  BY <1>1, <1>3, AdvancedRow
<1>5. RowPut(Paid(mem, price), i, g, Advanced(mem, i))
  BY DEF RowPut, Advanced, Paid
<1>6. Alike(h, g)
  BY <1>4 DEF Alike, HeroFields
<1> HIDE DEF g, price
<1>7. Held(Sold(Advanced(mem, i), price))
  BY <1>1, <1>2, <1>3, <1>4, <1>5, <1>6, BoughtHeld
<1> QED
  BY <1>2, <1>7, AnswerHeld

LEMMA ImproveHeld ==
  ASSUME HeldInv, NEW i \in DOMAIN mem.heroes, Improve(i)
  PROVE  HeldInv'
<1> DEFINE h == mem.heroes[i]
<1> DEFINE price == PriceToImprove(h)
<1> DEFINE g == [h EXCEPT !.quality = @ + 1]
<1>1. Held(mem) /\ HeroRowOK(h)
  BY RowOfMem DEF HeldInv
<1>2. CanPay(mem, price) /\ Answer(Sold(Improved(mem, i), price), TRUE)
  BY DEF Improve
<1>3. h.quality < MaxQuality /\ price \in Price
  <2>1. price # NoCost
    BY <1>2 DEF CanPay
  <2>2. h.quality < MaxQuality
    BY <2>1 DEF PriceToImprove
  <2>3. h.quality + 1 \in 2..MaxQuality /\ h.cid \in HeroCids
    BY <1>1, <2>2, RowFacts DEF MaxQuality
  <2> QED
    BY <2>2, <2>3, TablesAssumption DEF PriceToImprove
<1>4. HeroRowOK(g) /\ \A f \in HeroFields \ {"quality"} : g[f] = h[f]
  BY <1>1, <1>3, ImprovedRow
<1>5. RowPut(Paid(mem, price), i, g, Improved(mem, i))
  BY DEF RowPut, Improved, Paid
<1>6. Alike(h, g)
  BY <1>4 DEF Alike, HeroFields
<1> HIDE DEF g, price
<1>7. Held(Sold(Improved(mem, i), price))
  BY <1>1, <1>2, <1>3, <1>4, <1>5, <1>6, BoughtHeld
<1> QED
  BY <1>2, <1>7, AnswerHeld

LEMMA ChangeSkinHeld ==
  ASSUME HeldInv, NEW i \in DOMAIN mem.heroes, NEW skin, NEW isSwitch,
         ChangeSkin(i, skin, isSwitch)
  PROVE  HeldInv'
<1> DEFINE h == mem.heroes[i]
<1> DEFINE g == [h EXCEPT !.skin = skin]
<1> DEFINE new == [mem EXCEPT !.heroes[i].skin = skin]
<1>1. Held(mem) /\ HeroRowOK(h)
  BY RowOfMem DEF HeldInv
<1>2. /\ DOMAIN g = HeroFields /\ g = [f \in HeroFields |-> g[f]]
      /\ \A f \in HeroFields \ {"skin", "angel", "strong"} : g[f] = h[f]
  BY <1>1, RowFacts DEF HeroFields
<1>3. RowPut(mem, i, g, new)
  BY DEF RowPut
<1>4. Answer(new, TRUE)
  BY DEF ChangeSkin
<1> HIDE DEF g, new
<1>5. HeroRowOK(g) /\ Alike(h, g)
  BY <1>1, <1>2, LooseRow DEF Alike
<1>6. Held(new)
  BY <1>1, <1>3, <1>5, RowHeld
<1> QED
  BY <1>4, <1>6, AnswerHeld

LEMMA AwakeHeld ==
  ASSUME HeldInv, NEW i \in DOMAIN mem.heroes, Awake(i)
  PROVE  HeldInv'
<1> DEFINE h == mem.heroes[i]
<1> DEFINE price == PriceToAwake(h)
<1> DEFINE g == [h EXCEPT !.angel = @ + 1]
<1>1. Held(mem) /\ HeroRowOK(h)
  BY RowOfMem DEF HeldInv
<1>2. CanPay(mem, price) /\ Answer(Sold(Awoken(mem, i), price), TRUE)
  BY DEF Awake, Charges
<1>3. price \in Price
  <2>1. h.cid \in HeroCids
    BY <1>1, RowFacts
  <2> QED
    BY <2>1, TablesAssumption DEF PriceToAwake, Price
<1>4. /\ DOMAIN g = HeroFields /\ g = [f \in HeroFields |-> g[f]]
      /\ \A f \in HeroFields \ {"skin", "angel", "strong"} : g[f] = h[f]
  BY <1>1, RowFacts DEF HeroFields
<1>5. RowPut(Paid(mem, price), i, g, Awoken(mem, i))
  BY DEF RowPut, Awoken, Paid
<1> HIDE DEF g, price
<1>6. HeroRowOK(g) /\ Alike(h, g)
  BY <1>1, <1>4, LooseRow DEF Alike
<1>7. Held(Sold(Awoken(mem, i), price))
  BY <1>1, <1>2, <1>3, <1>5, <1>6, BoughtHeld
<1> QED
  BY <1>2, <1>7, AnswerHeld

LEMMA StrengthenHeld ==
  ASSUME HeldInv, NEW i \in DOMAIN mem.heroes, NEW t \in DOMAIN StrengthenCost[mem.heroes[i].cid],
         NEW kind \in 1..2, Strengthen(i, t, kind)
  PROVE  HeldInv'
<1> DEFINE h == mem.heroes[i]
<1> DEFINE price == PriceToStrengthen(h, t, kind)
<1> DEFINE g == [h EXCEPT !.strong[t] = @ + 1]
<1>1. Held(mem) /\ HeroRowOK(h)
  BY RowOfMem DEF HeldInv
<1>2. CanPay(mem, price) /\ Answer(Sold(Strengthened(mem, i, t, kind), price), TRUE)
  BY DEF Strengthen, Charges
<1>3. price \in Price
  <2>1. h.cid \in HeroCids
    BY <1>1, RowFacts
  <2> QED
    BY <2>1, TablesAssumption DEF PriceToStrengthen, Price
<1>4. /\ DOMAIN g = HeroFields /\ g = [f \in HeroFields |-> g[f]]
      /\ \A f \in HeroFields \ {"skin", "angel", "strong"} : g[f] = h[f]
  BY <1>1, RowFacts DEF HeroFields
<1>5. RowPut(Paid(mem, price), i, g, Strengthened(mem, i, t, kind))
  BY DEF RowPut, Strengthened, Paid
<1> HIDE DEF g, price
<1>6. HeroRowOK(g) /\ Alike(h, g)
  BY <1>1, <1>4, LooseRow DEF Alike
<1>7. Held(Sold(Strengthened(mem, i, t, kind), price))
  BY <1>1, <1>2, <1>3, <1>5, <1>6, BoughtHeld
<1> QED
  BY <1>2, <1>7, AnswerHeld

LEMMA StagePrice ==
  ASSUME NEW c \in HeroCids, NEW n \in DOMAIN Stages[c], NEW o \in DOMAIN Stages[c][n].prices
  PROVE  Stages[c][n].prices[o] \in Price
BY TablesAssumption

LEMMA BreakthroughHeld ==
  ASSUME HeldInv, NEW i \in DOMAIN mem.heroes, NEW option, Breakthrough(i, option)
  PROVE  HeldInv'
<1> DEFINE h == mem.heroes[i]
<1> DEFINE price == PriceToBreak(h, option)
<1> DEFINE given == Stages[h.cid][h.broken + 1].points
<1> DEFINE points == IF given > 0 THEN given ELSE h.points
<1> DEFINE g == [h EXCEPT !.broken = @ + 1, !.points = points]
<1>1. Held(mem) /\ HeroRowOK(h)
  BY RowOfMem DEF HeldInv
<1>2. CanPay(mem, price) /\ Answer(Sold(Broken(mem, i, option), price), TRUE)
  BY DEF Breakthrough, Charges
<1>3. h.broken + 1 \in DOMAIN Stages[h.cid] /\ price \in Price
  <2>1. h.cid \in HeroCids /\ price # NoCost
    BY <1>1, <1>2, RowFacts DEF CanPay
  <2>2. /\ h.broken + 1 \in DOMAIN Stages[h.cid]
        /\ option \in DOMAIN Stages[h.cid][h.broken + 1].prices
        /\ price = Stages[h.cid][h.broken + 1].prices[option]
    BY <2>1 DEF PriceToBreak
  <2> HIDE DEF h, price
  <2> QED
    BY <2>1, <2>2, StagePrice
<1>4. HeroRowOK(g) /\ \A f \in HeroFields \ {"broken", "points"} : g[f] = h[f]
  BY <1>1, <1>3, BrokenRow
<1>5. RowPut(Paid(mem, price), i, g, Broken(mem, i, option))
  BY DEF RowPut, Broken, Paid
<1>6. Alike(h, g)
  BY <1>4 DEF Alike, HeroFields
<1> HIDE DEF g, price
<1>7. Held(Sold(Broken(mem, i, option), price))
  BY <1>1, <1>2, <1>3, <1>4, <1>5, <1>6, BoughtHeld
<1> QED
  BY <1>2, <1>7, AnswerHeld

(* HERO_UPGRADE.  A hero grows up to the player's level, and what it ate    *)
(* is what the book says it was fed.                                        *)
FedPut(s, c, e, t) == t = [s EXCEPT !.book.fed[c] = @ + e]

LEMMA FedIs ==
  ASSUME NEW s, Fields(s), s.book.fed \in [HeroCids -> Int], NEW c \in HeroCids, NEW e \in Nat,
         NEW t, FedPut(s, c, e, t)
  PROVE  /\ Changed(s, t, {}, {"fed"}) /\ t.book.fed \in [HeroCids -> Int]
         /\ \A d \in HeroCids : t.book.fed[d] = s.book.fed[d] + IF d = c THEN e ELSE 0
<1>1. Changed(s, t, {}, {"fed"}) /\ t.book.fed = [s.book.fed EXCEPT ![c] = @ + e]
  BY DEF Fields, Changed, SaveFields, BookFields, FedPut
<1> QED
  BY <1>1

RowClimbs(q, i, lvl, exp, r) == r = [[q EXCEPT ![i].lvl = lvl] EXCEPT ![i].exp = exp]

LEMMA RowClimbsIs ==
  ASSUME NEW q, NEW i \in DOMAIN q, NEW lvl, NEW exp, NEW r, RowClimbs(q, i, lvl, exp, r)
  PROVE  r = [q EXCEPT ![i] = [q[i] EXCEPT !.lvl = lvl, !.exp = exp]]
<1> DEFINE a == [q EXCEPT ![i].lvl = lvl]
<1> DEFINE b == [q[i] EXCEPT !.lvl = lvl]
<1>1. r = [a EXCEPT ![i].exp = exp]
  BY DEF RowClimbs
<1>2. a = [q EXCEPT ![i] = b]
  OBVIOUS
<1>3. [q[i] EXCEPT !.lvl = lvl, !.exp = exp] = [b EXCEPT !.exp = exp]
  OBVIOUS
<1> HIDE DEF a, b
<1>4. DOMAIN a = DOMAIN q /\ a[i] = b /\ \A j \in DOMAIN q : j # i => a[j] = q[j]
  BY <1>2
<1>5. r = [q EXCEPT ![i] = [b EXCEPT !.exp = exp]]
  BY <1>1, <1>4
<1> QED
  BY <1>3, <1>5

LevelsTo(s, i, lvl, exp, t) == t = [s EXCEPT !.heroes[i].lvl = lvl, !.heroes[i].exp = exp]

LEMMA LevelsToIs ==
  ASSUME NEW s, Fields(s), NEW i \in DOMAIN s.heroes, NEW lvl, NEW exp, NEW t,
         LevelsTo(s, i, lvl, exp, t)
  PROVE  RowPut(s, i, [s.heroes[i] EXCEPT !.lvl = lvl, !.exp = exp], t)
<1> DEFINE m == [s EXCEPT !.heroes[i].lvl = lvl]
<1> DEFINE q == [[s.heroes EXCEPT ![i].lvl = lvl] EXCEPT ![i].exp = exp]
<1>1. t = [m EXCEPT !.heroes[i].exp = exp]
  BY DEF LevelsTo
<1>2. m = [s EXCEPT !.heroes = m.heroes] /\ m.heroes = [s.heroes EXCEPT ![i].lvl = lvl]
  BY DEF Fields, SaveFields
<1> HIDE DEF m
<1>3. t = [s EXCEPT !.heroes = [m.heroes EXCEPT ![i].exp = exp]]
  BY <1>1, <1>2 DEF Fields, SaveFields
<1>4. t = [s EXCEPT !.heroes = q]
  BY <1>2, <1>3
<1>5. RowClimbs(s.heroes, i, lvl, exp, q)
  BY DEF RowClimbs
<1> HIDE DEF q
<1>6. q = [s.heroes EXCEPT ![i] = [s.heroes[i] EXCEPT !.lvl = lvl, !.exp = exp]]
  BY <1>5, RowClimbsIs
<1> QED
  BY <1>4, <1>6 DEF RowPut

LEMMA ClimbedIs ==
  ASSUME NEW s, Fields(s), NEW i \in DOMAIN s.heroes, NEW gained
  PROVE  LET r == Reached(s.heroes[i].lvl, s.heroes[i].exp + gained, Cap(s))
         IN RowPut(s, i, [s.heroes[i] EXCEPT
                            !.lvl = r, !.exp = (s.heroes[i].exp + gained)
                                                 - ExpUpTo(s.heroes[i].lvl, r)],
                   Climbed(s, i, gained))
<1> DEFINE r == Reached(s.heroes[i].lvl, s.heroes[i].exp + gained, Cap(s))
<1> DEFINE x == (s.heroes[i].exp + gained) - ExpUpTo(s.heroes[i].lvl, r)
<1>1. LevelsTo(s, i, r, x, Climbed(s, i, gained))
  BY DEF LevelsTo, Climbed
<1> HIDE DEF r, x
<1>2. RowPut(s, i, [s.heroes[i] EXCEPT !.lvl = r, !.exp = x], Climbed(s, i, gained))
  BY <1>1, LevelsToIs
<1> QED
  BY <1>2 DEF r, x

LEMMA FeedHeld ==
  ASSUME HeldInv, NEW i \in DOMAIN mem.heroes, NEW food \in Foods, Feed(i, food)
  PROVE  HeldInv'
<1> DEFINE h == mem.heroes[i]
<1> DEFINE e == ExpIn(h, food)
<1> DEFINE r == Reached(h.lvl, h.exp + e, Cap(mem))
<1> DEFINE g == [h EXCEPT !.lvl = r, !.exp = (h.exp + e) - ExpUpTo(h.lvl, r)]
<1> DEFINE climbed == Climbed(mem, i, e)
<1> DEFINE fed == Paid(climbed, food)
<1> DEFINE sold == Sold(fed, food)
<1> DEFINE new == [sold EXCEPT !.book.fed[h.cid] = @ + e]
<1>1. Held(mem) /\ HeroRowOK(h) /\ RosterGood(mem) /\ Fields(mem)
  BY RowOfMem DEF HeldInv, Held
<1>2. food \in Lines(Cids) /\ CanConsumeCids(mem.bag, food)
  BY RequestsAssumption DEF Feed, MayFeed
<1>3. e \in Nat
  <2>1. IsSeq(food) /\ \A j \in DOMAIN food : food[j].num \in Nat
    BY <1>2, LinesMembers
  <2>2. \A j \in DOMAIN food : food[j].id \in DOMAIN ExpValue[h.cid]
    BY DEF Feed, MayFeed
  <2>3. h.cid \in HeroCids
    BY <1>1, RowFacts
  <2> QED
    BY <2>1, <2>2, <2>3, ExpInIs
<1> HIDE DEF e
<1>4. Cap(mem) = mem.lvl /\ Cap(mem) \in h.lvl..MaxLevel
  <2>1. mem.lvl \in 1..MaxLevel /\ h.lvl <= mem.lvl /\ h.lvl \in 1..MaxLevel /\ MaxLevel \in Nat
    BY <1>1, RowFacts, TablesAssumption DEF RosterGood
  <2>2. mem.lvl \in Int /\ MaxLevel \in Int /\ mem.lvl <= MaxLevel
    BY <2>1
  <2>3. Min({mem.lvl, MaxLevel}) = mem.lvl
    BY <2>2, MinTwo
  <2> QED
    BY <2>1, <2>3 DEF Cap
<1>5. /\ HeroRowOK(g) /\ g.lvl <= mem.lvl /\ ExpOf(g) = ExpOf(h) + e
      /\ \A f \in HeroFields \ {"lvl", "exp"} : g[f] = h[f]
  <2>1. Climbs(h, e, Cap(mem), g)
    BY DEF Climbs
  <2> HIDE DEF g
  <2> DEFINE cap == Cap(mem)
  <2>2. Climbs(h, e, cap, g) /\ cap \in h.lvl..MaxLevel /\ HeroRowOK(h) /\ cap = mem.lvl
    BY <1>1, <1>4, <2>1
  <2> HIDE DEF h, cap
  <2>3. /\ HeroRowOK(g) /\ g.lvl <= cap /\ ExpOf(g) = ExpOf(h) + e
        /\ \A f \in HeroFields \ {"lvl", "exp"} : g[f] = h[f]
    BY <1>3, <2>2, ClimbedRow
  <2> QED
    BY <2>2, <2>3
<1>6. RowPut(mem, i, g, climbed)
  BY <1>1, ClimbedIs
<1>7. Answer(new, TRUE) /\ FedPut(sold, h.cid, e, new)
  BY DEF Feed, Fed, e, FedPut
<1> HIDE DEF g, climbed, fed, sold, new
<1>8. g.sid = h.sid /\ g.cid = h.cid
  BY <1>5 DEF HeroFields
<1>9. Changed(mem, climbed, {"heroes"}, {}) /\ RowIn(mem.heroes, i, g, climbed.heroes)
  BY <1>1, <1>6, RowPutIs
<1>10. /\ Changed(climbed, fed, {"bag"}, {}) /\ fed.bag = ConsumedCids(climbed.bag, food)
       /\ fed.heroes = climbed.heroes
  BY <1>9, PaidIs DEF Changed, fed
<1>11. Changed(fed, sold, {}, {"net"}) /\ sold.book.net = Booked(fed.book.net, food, <<>>)
  BY <1>10, SoldIs DEF Changed, sold
<1>12. /\ Changed(sold, new, {}, {"fed"}) /\ new.book.fed \in [HeroCids -> Int]
       /\ \A c \in HeroCids : new.book.fed[c] = sold.book.fed[c] + IF c = h.cid THEN e ELSE 0
  <2>1. Fields(sold) /\ sold.book.fed = mem.book.fed
    BY <1>9, <1>10, <1>11 DEF Changed, SaveFields, BookFields
  <2>2. mem.book.fed \in [HeroCids -> Int] /\ h.cid \in HeroCids
    BY <1>1, RowFacts DEF Held, FedGood
  <2> DEFINE c == h.cid
  <2>3. /\ Fields(sold) /\ sold.book.fed \in [HeroCids -> Int] /\ c \in HeroCids
        /\ FedPut(sold, c, e, new)
    BY <1>7, <2>1, <2>2
  <2> HIDE DEF c
  <2>4. /\ Changed(sold, new, {}, {"fed"}) /\ new.book.fed \in [HeroCids -> Int]
        /\ \A d \in HeroCids : new.book.fed[d] = sold.book.fed[d] + IF d = c THEN e ELSE 0
    BY <1>3, <2>3, FedIs
  <2> QED
    BY <2>4 DEF c
<1>13. /\ new.heroes = climbed.heroes /\ new.bag = ConsumedCids(mem.bag, food)
       /\ new.book.net = Booked(mem.book.net, food, <<>>) /\ sold.book.fed = mem.book.fed
  BY <1>9, <1>10, <1>11, <1>12 DEF Changed, SaveFields, BookFields
<1>14. Changed(mem, new, {"bag", "heroes"}, {"net", "fed"})
  BY <1>9, <1>10, <1>11, <1>12 DEF Changed
<1>15. Trained(mem, i, g, e, new)
  <2>1. /\ new.book.fed \in [HeroCids -> Int]
        /\ \A c \in HeroCids : new.book.fed[c] = mem.book.fed[c] + IF c = g.cid THEN e ELSE 0
    BY <1>8, <1>12, <1>13
  <2> QED
    BY <1>9, <1>13, <1>14, <2>1 DEF Trained
<1>16. ItemsGood(new)
  <2>1. ItemsOf(ConsumedCids(mem.bag, food), Booked(mem.book.net, food, <<>>))
    BY <1>1, <1>2, ConsumedItems DEF Held, ItemsGood
  <2> QED
    BY <1>13, <2>1 DEF ItemsGood
<1>17. Held(new)
  BY <1>1, <1>3, <1>5, <1>8, <1>15, <1>16, TrainedHeld
<1> QED
  BY <1>7, <1>17, AnswerHeld

(* PlayerLevelUp leaves every hero below the player.                        *)
LEMMA LevelUpHeld ==
  ASSUME HeldInv, PlayerLevelUp
  PROVE  HeldInv'
<1> DEFINE new == [mem EXCEPT !.lvl = @ + 1]
<1>1. Held(mem) /\ Fields(mem) /\ RosterGood(mem)
  BY DEF HeldInv, Held
<1>2. Answer(new, TRUE) /\ mem.lvl < MaxLevel
  BY DEF PlayerLevelUp
<1>3. Changed(mem, new, {"lvl"}, {}) /\ new.lvl = mem.lvl + 1
  BY <1>1 DEF Fields, Changed, SaveFields, BookFields
<1> HIDE DEF new
<1>4. /\ Fields(new) /\ SameItems(mem, new) /\ SameFed(mem, new) /\ new.gear = mem.gear
      /\ SameShown(mem, new) /\ SameTeams(mem, new) /\ SameBanners(mem, new)
      /\ new.heroes = mem.heroes
  BY <1>3, ChangedSame
<1>5. RosterGood(new)
  <2>1. mem.lvl \in Nat /\ MaxLevel \in Nat /\ new.lvl \in 1..MaxLevel
    BY <1>1, <1>2, <1>3, TablesAssumption DEF RosterGood
  <2>2. ASSUME NEW i \in DOMAIN mem.heroes PROVE mem.heroes[i].lvl <= new.lvl
    <3>1. mem.heroes[i].lvl \in 1..MaxLevel /\ mem.heroes[i].lvl <= mem.lvl
      BY <1>1, RowFacts DEF RosterGood
    <3> QED
      BY <1>3, <2>1, <3>1
  <2> QED
    BY <1>1, <1>4, <2>1, <2>2 DEF RosterGood
<1>6. Held(new)
  BY <1>1, <1>4, <1>5, HeldFrom
<1> QED
  BY <1>2, <1>6, AnswerHeld

-----------------------------------------------------------------------------
(* The handlers of skill pages.                                             *)
LEMMA PageHeld ==
  ASSUME HeldInv, NEW i \in DOMAIN mem.heroes, NEW h, HeroRowOK(h),
         \A f \in HeroFields \ {"pages", "use"} : h[f] = mem.heroes[i][f],
         NEW changed, Answer(WithRow(i, h), changed)
  PROVE  HeldInv'
<1>1. Held(mem) /\ RowPut(mem, i, h, WithRow(i, h))
  BY DEF HeldInv, RowPut, WithRow
<1>2. Alike(mem.heroes[i], h)
  BY DEF Alike, HeroFields
<1>3. Held(WithRow(i, h))
  BY <1>1, <1>2, RowHeld
<1> QED
  BY <1>3, AnswerHeld

LEMMA SkillsHeld ==
  ASSUME HeldInv, NEW i \in DOMAIN mem.heroes, NEW k,
         LearnSkill(i, k) \/ UnlearnSkill(i, k)
  PROVE  HeldInv'
<1> DEFINE h == mem.heroes[i]
<1>1. HeroRowOK(h) /\ InUse(i) = h
  BY RowOfMem, InUseIs DEF HeldInv, InUse
<1>2. CASE LearnSkill(i, k)
  <2>1. MayLearn(h, k) /\ Answer(WithRow(i, Learned(h, k)), TRUE)
    BY <1>1, <1>2 DEF LearnSkill
  <2>2. HeroRowOK(Learned(h, k)) /\ \A f \in HeroFields \ {"pages"} : Learned(h, k)[f] = h[f]
    BY <1>1, <2>1, LearnedRow
  <2> QED
    BY <2>1, <2>2, PageHeld
<1>3. CASE UnlearnSkill(i, k)
  <2>1. MayUnlearn(h, k) /\ Answer(WithRow(i, Unlearned(h, k)), TRUE)
    BY <1>1, <1>3 DEF UnlearnSkill
  <2>2. /\ HeroRowOK(Unlearned(h, k))
        /\ \A f \in HeroFields \ {"pages"} : Unlearned(h, k)[f] = h[f]
    BY <1>1, <2>1, UnlearnedRow
  <2> QED
    BY <2>1, <2>2, PageHeld
<1> QED
  BY <1>2, <1>3

LEMMA PassiveHeld ==
  ASSUME HeldInv, NEW i \in DOMAIN mem.heroes, NEW skill, NEW pos,
         EquipPassive(i, skill, pos) \/ UnequipPassive(i, skill)
  PROVE  HeldInv'
<1> DEFINE h == mem.heroes[i]
<1>1. HeroRowOK(h) /\ InUse(i) = h
  BY RowOfMem, InUseIs DEF HeldInv, InUse
<1>2. CASE EquipPassive(i, skill, pos)
  <2> DEFINE g == Equipped(h, skill, pos)
  <2>1. MayEquip(h, skill, pos) /\ Answer(WithRow(i, g), g # h)
    BY <1>1, <1>2 DEF EquipPassive
  <2>2. HeroRowOK(g) /\ \A f \in HeroFields \ {"pages"} : g[f] = h[f]
    BY <1>1, <2>1, EquippedRow
  <2> HIDE DEF g
  <2> QED
    BY <2>1, <2>2, PageHeld
<1>3. CASE UnequipPassive(i, skill)
  <2> DEFINE g == Unequipped(h, skill)
  <2>1. Answer(WithRow(i, g), g # h)
    BY <1>1, <1>3 DEF UnequipPassive
  <2>2. HeroRowOK(g) /\ \A f \in HeroFields \ {"pages"} : g[f] = h[f]
    BY <1>1, UnequippedRow
  <2> HIDE DEF g
  <2> QED
    BY <2>1, <2>2, PageHeld
<1> QED
  BY <1>2, <1>3

LEMMA StrategyHeld ==
  ASSUME HeldInv, NEW i \in DOMAIN mem.heroes, NEW p \in UsedPages, NEW named,
         ResetSkill(i, p) \/ UseStrategy(i, p) \/ RenameStrategy(i, p, named)
  PROVE  HeldInv'
<1> DEFINE h == mem.heroes[i]
<1>1. HeroRowOK(h) /\ p \in Pages
  BY RowOfMem, RequestsAssumption DEF HeldInv
<1>2. CASE ResetSkill(i, p)
  <2>1. p \in DOMAIN h.pages /\ Answer(WithRow(i, Reset(h, p)), TRUE)
    BY <1>2 DEF ResetSkill
  <2>2. HeroRowOK(Reset(h, p)) /\ \A f \in HeroFields \ {"pages"} : Reset(h, p)[f] = h[f]
    BY <1>1, <2>1, ResetRow
  <2> QED
    BY <2>1, <2>2, PageHeld
<1>3. CASE UseStrategy(i, p)
  <2> DEFINE g == [WithPage(h, p) EXCEPT !.use = p]
  <2>1. Answer(WithRow(i, g), g # h)
    BY <1>3 DEF UseStrategy
  <2>2. HeroRowOK(g) /\ \A f \in HeroFields \ {"pages", "use"} : g[f] = h[f]
    BY <1>1, UsedRow
  <2> HIDE DEF g
  <2> QED
    BY <2>1, <2>2, PageHeld
<1>4. CASE RenameStrategy(i, p, named)
  <2> DEFINE g == WithPage(h, p)
  <2>1. Answer(WithRow(i, g), named)
    BY <1>4 DEF RenameStrategy
  <2>2. HeroRowOK(g) /\ \A f \in HeroFields \ {"pages"} : g[f] = h[f]
    BY <1>1, WithPageOK
  <2> HIDE DEF g
  <2> QED
    BY <2>1, <2>2, PageHeld
<1> QED
  BY <1>2, <1>3, <1>4

-----------------------------------------------------------------------------
(* The handlers of formations and presets.                                  *)
Formed(s, t) == Changed(s, t, {"teams", "backups"}, {}) /\ TeamsGood(t)

LEMMA FormedHeld ==
  ASSUME NEW s, Held(s), NEW t, Formed(s, t)
  PROVE  Held(t)
<1>1. Changed(s, t, {"teams", "backups"}, {}) /\ TeamsGood(t)
  BY DEF Formed
<1>2. /\ Fields(t) /\ SameItems(s, t) /\ SameFed(s, t) /\ t.gear = s.gear
      /\ SameShown(s, t) /\ SameBanners(s, t) /\ t.heroes = s.heroes /\ t.lvl = s.lvl
  BY <1>1, ChangedSame
<1> QED
  BY <1>1, <1>2, HeldFrom

(* One stance is replaced by another one of the player's heroes.            *)
StancePut(f, x, q, g) == g = [f EXCEPT ![x] = q]

LEMMA StancePutIs ==
  ASSUME NEW T, NEW S, NEW f, Stances(f, T, S), NEW x, NEW q, Lined(q, S),
         NEW g, StancePut(f, x, q, g)
  PROVE  Stances(g, T, S)
BY DEF StancePut, Stances

LEMMA OperateHeld ==
  ASSUME HeldInv, NEW t \in TeamTypes, NEW source, NEW target,
         OperateFormation(t, source, target)
  PROVE  HeldInv'
<1> DEFINE S == Sids(mem)
<1> DEFINE q == Operated(mem.teams[t], S, source, target)
<1> DEFINE new == [mem EXCEPT !.teams[t] = q]
<1>1. Held(mem) /\ Fields(mem) /\ Stances(mem.teams, TeamTypes, S) /\ Stances(mem.backups, Backups, S)
  BY DEF HeldInv, Held, TeamsGood
<1>2. Answer(new, TRUE)
  BY DEF OperateFormation
<1>3. Lined(q, S)
  BY <1>1, OperatedLined DEF Stances
<1> HIDE DEF q
<1>4. Changed(mem, new, {"teams"}, {}) /\ StancePut(mem.teams, t, q, new.teams)
  BY <1>1 DEF Fields, Changed, SaveFields, BookFields, StancePut
<1> HIDE DEF new
<1>5. /\ Changed(mem, new, {"teams", "backups"}, {}) /\ Sids(new) = S
      /\ new.backups = mem.backups
  BY <1>4 DEF Changed, SaveFields, Sids
<1>6. Stances(new.teams, TeamTypes, S)
  BY <1>1, <1>3, <1>4, StancePutIs
<1>7. Formed(mem, new)
  BY <1>1, <1>5, <1>6 DEF Formed, TeamsGood
<1> QED
  BY <1>1, <1>2, <1>7, FormedHeld, AnswerHeld

LEMMA SeededIs ==
  ASSUME NEW s, Held(s)
  PROVE  Held(Seeded(s)) /\ Sids(Seeded(s)) = Sids(s)
<1> DEFINE S == Sids(s)
<1> DEFINE q == FirstOf(s.teams[1])
<1> DEFINE t == [s EXCEPT !.backups[1] = q]
<1>1. Fields(s) /\ Stances(s.teams, TeamTypes, S) /\ Stances(s.backups, Backups, S)
  BY DEF Held, TeamsGood
<1>2. Lined(q, S)
  <2>1. Lined(s.teams[1], S)
    BY <1>1, TeamsAssumption DEF Stances
  <2> QED
    BY <2>1, FirstOfIs DEF Lined
<1> HIDE DEF q
<1>3. Changed(s, t, {"backups"}, {}) /\ StancePut(s.backups, 1, q, t.backups)
  BY <1>1 DEF Fields, Changed, SaveFields, BookFields, StancePut
<1>4. Seeded(s) = s \/ Seeded(s) = t
  BY DEF Seeded, q
<1> HIDE DEF t
<1>5. Changed(s, t, {"teams", "backups"}, {}) /\ Sids(t) = S /\ t.teams = s.teams
  BY <1>3 DEF Changed, SaveFields, Sids
<1>6. Stances(t.backups, Backups, S)
  BY <1>1, <1>2, <1>3, StancePutIs
<1>7. Formed(s, t)
  BY <1>1, <1>5, <1>6 DEF Formed, TeamsGood
<1>8. Held(t)
  BY <1>7, FormedHeld
<1> QED
  BY <1>4, <1>5, <1>8

LEMMA RearrangedHeld ==
  ASSUME NEW s, Held(s), NEW b \in Backups, NEW source, NEW target
  PROVE  Held(Rearranged(s, b, Sids(s), source, target))
<1> DEFINE S == Sids(s)
<1> DEFINE u == Seeded(s)
<1> DEFINE q == Arranged(u.backups[b], S, source, target)
<1> DEFINE t == [u EXCEPT !.backups[b] = q]
<1>1. Rearranged(s, b, S, source, target) = t
  BY DEF Rearranged
<1>2. Held(u) /\ Sids(u) = S
  BY SeededIs
<1> HIDE DEF u
<1>3. Fields(u) /\ Stances(u.teams, TeamTypes, S) /\ Stances(u.backups, Backups, S)
  BY <1>2 DEF Held, TeamsGood
<1>4. Lined(q, S)
  BY <1>3, ArrangedLined DEF Stances
<1> HIDE DEF q
<1>5. Changed(u, t, {"backups"}, {}) /\ StancePut(u.backups, b, q, t.backups)
  BY <1>3 DEF Fields, Changed, SaveFields, BookFields, StancePut
<1> HIDE DEF t
<1>6. Changed(u, t, {"teams", "backups"}, {}) /\ Sids(t) = S /\ t.teams = u.teams
  <2>1. t.heroes = u.heroes /\ t.teams = u.teams
    BY <1>5 DEF Changed, SaveFields
  <2>2. Sids(t) = Sids(u)
    BY <2>1 DEF Sids
  <2>3. Changed(u, t, {"teams", "backups"}, {})
    BY <1>5 DEF Changed
  <2> QED
    BY <1>2, <2>1, <2>2, <2>3
<1>7. Stances(t.backups, Backups, S)
  BY <1>3, <1>4, <1>5, StancePutIs
<1>8. Formed(u, t)
  BY <1>3, <1>6, <1>7 DEF Formed, TeamsGood
<1> QED
  BY <1>1, <1>2, <1>8, FormedHeld

LEMMA AppliedHeld ==
  ASSUME NEW s, Held(s), NEW b \in Backups, NEW f \in TeamTypes
  PROVE  Held(Applied(s, b, f))
<1> DEFINE S == Sids(s)
<1> DEFINE u == Seeded(s)
<1> DEFINE q == u.backups[b]
<1> DEFINE t == [u EXCEPT !.teams[f] = q]
<1>1. Applied(s, b, f) = u \/ Applied(s, b, f) = t
  BY DEF Applied
<1>2. Held(u) /\ Sids(u) = S
  BY SeededIs
<1> HIDE DEF u
<1>3. Fields(u) /\ Stances(u.teams, TeamTypes, S) /\ Stances(u.backups, Backups, S)
  BY <1>2 DEF Held, TeamsGood
<1>4. Lined(q, S)
  BY <1>3 DEF Stances
<1> HIDE DEF q
<1>5. Changed(u, t, {"teams"}, {}) /\ StancePut(u.teams, f, q, t.teams)
  BY <1>3 DEF Fields, Changed, SaveFields, BookFields, StancePut
<1> HIDE DEF t
<1>6. Changed(u, t, {"teams", "backups"}, {}) /\ Sids(t) = S /\ t.backups = u.backups
  <2>1. t.heroes = u.heroes /\ t.backups = u.backups
    BY <1>5 DEF Changed, SaveFields
  <2>2. Sids(t) = Sids(u)
    BY <2>1 DEF Sids
  <2>3. Changed(u, t, {"teams", "backups"}, {})
    BY <1>5 DEF Changed
  <2> QED
    BY <1>2, <2>1, <2>2, <2>3
<1>7. Stances(t.teams, TeamTypes, S)
  BY <1>3, <1>4, <1>5, StancePutIs
<1>8. Formed(u, t)
  BY <1>3, <1>6, <1>7 DEF Formed, TeamsGood
<1> QED
  BY <1>1, <1>2, <1>8, FormedHeld

LEMMA TeamsHeld ==
  ASSUME HeldInv, MakeTeams
  PROVE  HeldInv'
<1>1. Held(mem)
  BY DEF HeldInv
<1>2. ASSUME NEW source, NEW target, NEW t \in TeamTypes, OperateFormation(t, source, target)
      PROVE  HeldInv'
  BY <1>2, OperateHeld
<1>3. ASSUME NEW source, NEW target, NEW b \in Backups, ChangeBackup(b, source, target)
      PROVE  HeldInv'
  <2> DEFINE new == Rearranged(mem, b, Sids(mem), source, target)
  <2>1. Answer(new, new # mem)
    BY <1>3 DEF ChangeBackup
  <2>2. Held(new)
    BY <1>1, RearrangedHeld
  <2> HIDE DEF new
  <2> QED
    BY <2>1, <2>2, AnswerHeld
<1>4. ASSUME NEW renamed, ShowBackups(renamed)
      PROVE  HeldInv'
  <2>1. Answer(Seeded(mem), renamed \/ Seeded(mem) # mem)
    BY <1>4 DEF ShowBackups
  <2>2. Held(Seeded(mem))
    BY <1>1, SeededIs
  <2> QED
    BY <2>1, <2>2, AnswerHeld
<1>5. ASSUME NEW b \in Backups, NEW t \in TeamTypes, UseBackup(b, t)
      PROVE  HeldInv'
  <2> DEFINE new == Applied(mem, b, t)
  <2>1. Answer(new, new # mem)
    BY <1>5 DEF UseBackup
  <2>2. Held(new)
    BY <1>1, AppliedHeld
  <2> HIDE DEF new
  <2> QED
    BY <2>1, <2>2, AnswerHeld
<1> QED
  BY <1>2, <1>3, <1>4, <1>5 DEF MakeTeams

-----------------------------------------------------------------------------
(* What a pull costs.                                                       *)
LEMMA BandIs ==
  ASSUME NEW S, NEW options \in Seq(S), options # <<>>, NEW k \in 1..2
  PROVE  Band(options, k) \in S /\ Band(options, k) \in Range(options)
<1>1. Len(options) \in Nat /\ Len(options) >= 1 /\ DOMAIN options = 1..Len(options)
  OBVIOUS
<1>2. Min({k, Len(options)}) = IF k <= Len(options) THEN k ELSE Len(options)
  BY <1>1, MinTwo
<1>3. Min({k, Len(options)}) \in DOMAIN options
  BY <1>1, <1>2
<1> QED
  BY <1>3, SeqMembers DEF Band, Range

(* The starter price is asked only on a banner nobody pulled on.            *)
LEMMA PriceOfIs ==
  ASSUME NEW s, NEW b \in Banners, NEW k \in 1..2, PriceOf(s, b, k) # NoCost
  PROVE  LET price == PriceOf(s, b, k) IN
         /\ price \in Lines(Cids) /\ CanConsumeCids(s.bag, price)
         /\ FirstCosts[b] # <<>> /\ price = Band(FirstCosts[b], k) => ~s.banners[b].pulled
<1> DEFINE L == Lines(Cids) \ {<<>>}
<1> DEFINE first == IF ~s.banners[b].pulled /\ FirstCosts[b] # <<>>
                      THEN Band(FirstCosts[b], k) ELSE <<>>
<1> DEFINE normal == IF Costs[b] # <<>> THEN Band(Costs[b], k) ELSE <<>>
<1> DEFINE options == <<first, normal>>
<1> DEFINE keep == Range(options) \ {<<>>}
<1> DEFINE offered == Only(options, keep)
<1> DEFINE payable == {j \in DOMAIN offered : CanConsumeCids(s.bag, offered[j])}
<1> DEFINE price == PriceOf(s, b, k)
<1>1. /\ FirstCosts[b] \in Seq(L) /\ Costs[b] \in Seq(L)
      /\ Range(FirstCosts[b]) \cap Range(Costs[b]) = {}
  BY BannersAssumption
<1>2. price = IF offered = <<>> THEN <<>>
              ELSE IF payable = {} THEN NoCost ELSE offered[Min(payable)]
  BY DEF PriceOf, Offered
<1>3. IsSeq(options) /\ Range(options) = {first, normal}
  <2> HIDE DEF first, normal
  <2>1. /\ options \in Seq({first, normal}) /\ DOMAIN options = {1, 2}
        /\ options[1] = first /\ options[2] = normal
    OBVIOUS
  <2> HIDE DEF options
  <2>2. IsSeq(options)
    BY <2>1, SeqMembers
  <2> QED
    BY <2>1, <2>2 DEF Range
<1>4. offered \in Seq({first, normal} \ {<<>>})
  <2>1. offered \in Seq(Range(options) \cap keep)
    BY <1>3, OnlyIs
  <2>2. Range(options) \cap keep = {first, normal} \ {<<>>}
    BY <1>3
  <2> QED
    BY <2>1, <2>2
<1> HIDE DEF offered
<1>5. /\ price = <<>> \/ price \in {first, normal} \ {<<>>}
      /\ price # <<>> => CanConsumeCids(s.bag, price)
  <2>1. CASE offered = <<>>
    BY <1>2, <2>1
  <2>2. CASE offered # <<>>
    <3>1. payable # {} /\ payable \in SUBSET Nat
      BY <1>2, <1>4, <2>2
    <3>2. PICK m \in payable : \A j \in payable : m <= j
      BY <3>1, LeastNumber
    <3>3. Min(payable) \in payable
      BY <3>2 DEF Min
    <3>4. price = offered[Min(payable)]
      BY <1>2, <2>2, <3>1
    <3>5. Min(payable) \in DOMAIN offered /\ CanConsumeCids(s.bag, offered[Min(payable)])
      BY <3>3
    <3> HIDE DEF payable, price, first, normal
    <3> QED
      BY <1>4, <3>4, <3>5, SeqMembers
  <2> QED
    BY <2>1, <2>2
<1>6. /\ FirstCosts[b] # <<>> => /\ Band(FirstCosts[b], k) \in L
                                 /\ Band(FirstCosts[b], k) \in Range(FirstCosts[b])
      /\ Costs[b] # <<>> => /\ Band(Costs[b], k) \in L
                            /\ Band(Costs[b], k) \in Range(Costs[b])
  <2> HIDE DEF L
  <2> QED
    BY <1>1, BandIs
<1> HIDE DEF price
<1>7. price \in Lines(Cids)
  <2>1. <<>> \in Lines(Cids)
    BY SeqGrows DEF Lines
  <2> QED
    BY <1>5, <1>6, <2>1
<1>8. CanConsumeCids(s.bag, price)
  <2>1. ASSUME price = <<>> PROVE Named(price) = {}
    BY <2>1 DEF Named
  <2>2. CASE price = <<>>
    BY <2>1, <2>2 DEF CanConsumeCids
  <2> QED
    BY <1>5, <2>2
<1>9. ASSUME FirstCosts[b] # <<>>, price = Band(FirstCosts[b], k), s.banners[b].pulled
      PROVE  FALSE
  <2>1. first = <<>> /\ price # <<>> /\ price \in Range(FirstCosts[b])
    BY <1>6, <1>9
  <2>2. price = normal /\ normal # <<>>
    BY <1>5, <2>1
  <2>3. price \in Range(Costs[b])
    BY <1>6, <2>2
  <2> QED
    BY <1>1, <2>1, <2>3
<1> QED
  BY <1>7, <1>8, <1>9 DEF price

-----------------------------------------------------------------------------
(* What the first n lines say of one id.                                    *)
Upto(lines, n, c) == SumFunctionOnSet(Nums(lines), {j \in 1..n : lines[j].id = c})

LEMMA UptoIs ==
  ASSUME NEW lines, IsLines(lines), NEW c
  PROVE  /\ Upto(lines, 0, c) = 0 /\ Upto(lines, Len(lines), c) = Worth(lines, c)
         /\ \A n \in 0..Len(lines) : Upto(lines, n, c) \in Nat
         /\ \A n \in 1..Len(lines) :
              Upto(lines, n, c) = Upto(lines, n - 1, c)
                                    + IF lines[n].id = c THEN lines[n].num ELSE 0
<1> DEFINE f == Nums(lines)
<1> DEFINE At(n) == {j \in 1..n : lines[j].id = c}
<1>1. /\ Len(lines) \in Nat /\ DOMAIN lines = 1..Len(lines)
      /\ \A j \in 1..Len(lines) : f[j] = lines[j].num /\ f[j] \in Nat
  BY SeqFacts DEF IsLines, Nums
<1> HIDE DEF f
<1>2. At(0) = {} /\ At(Len(lines)) = {j \in DOMAIN lines : lines[j].id = c}
  BY <1>1
<1>3. Upto(lines, 0, c) = 0
  BY <1>2, SumEmpty DEF Upto
<1>4. Upto(lines, Len(lines), c) = Worth(lines, c)
  BY <1>2 DEF Upto, Worth
<1>5. ASSUME NEW n \in 0..Len(lines)
      PROVE  /\ IsFiniteSet(At(n)) /\ \A j \in At(n) : f[j] \in Nat
             /\ SumFunctionOnSet(f, At(n)) \in Nat
  <2>1. IsFiniteSet(1..n) /\ At(n) \in SUBSET (1..n)
    BY <1>1, FS_Interval
  <2>2. \A j \in At(n) : f[j] \in Nat
    BY <1>1
  <2> HIDE DEF At
  <2>3. IsFiniteSet(At(n))
    BY <2>1, FS_Subset
  <2> QED
    BY <2>2, <2>3, SumNat
<1>6. ASSUME NEW n \in 1..Len(lines)
      PROVE  SumFunctionOnSet(f, At(n)) = SumFunctionOnSet(f, At(n - 1))
                                            + IF lines[n].id = c THEN lines[n].num ELSE 0
  <2>1. n - 1 \in 0..Len(lines) /\ n \in 0..Len(lines) /\ n \notin At(n - 1)
    BY <1>1
  <2>2. SumFunctionOnSet(f, At(n - 1)) \in Nat
    BY <1>5, <2>1
  <2>3. CASE lines[n].id = c
    <3>1. At(n) = At(n - 1) \cup {n}
      BY <1>1, <2>3
    <3>2. /\ IsFiniteSet(At(n - 1)) /\ \A j \in At(n) : f[j] \in Nat
      BY <1>5, <2>1
    <3> HIDE DEF At
    <3>3. \A j \in At(n - 1) \cup {n} : f[j] \in Int
      BY <3>1, <3>2
    <3>4. SumFunctionOnSet(f, At(n - 1) \cup {n}) = SumFunctionOnSet(f, At(n - 1)) + f[n]
      BY <2>1, <3>2, <3>3, SumWith
    <3> QED
      BY <1>1, <2>3, <3>1, <3>4
  <2>4. CASE lines[n].id # c
    <3>1. At(n) = At(n - 1)
      BY <1>1, <2>4
    <3> HIDE DEF At
    <3> QED
      BY <2>2, <2>4, <3>1
  <2> QED
    BY <2>3, <2>4
<1> QED
  BY <1>3, <1>4, <1>5, <1>6 DEF Upto, f

LEMMA WorthAppend ==
  ASSUME NEW S, NEW q \in Lines(S), NEW l \in [id : S, num : Nat], NEW c
  PROVE  /\ Append(q, l) \in Lines(S)
         /\ Worth(Append(q, l), c) = Worth(q, c) + IF l.id = c THEN l.num ELSE 0
<1> DEFINE L == [id : S, num : Nat]
<1> DEFINE n == Len(q)
<1> DEFINE r == Append(q, l)
<1>1. q \in Seq(L) /\ l \in L
  BY DEF Lines
<1> HIDE DEF L
<1>2. r \in Seq(L)
  BY <1>1, SeqGrows
<1>3. r \in Lines(S)
  BY <1>2 DEF Lines, L
<1>4. IsLines(q) /\ IsLines(r)
  BY <1>3, LinesTyped
<1>5. /\ n \in Nat /\ Len(r) = n + 1 /\ r[n + 1] = l /\ DOMAIN q = 1..n
      /\ \A j \in 1..n : r[j] = q[j]
  BY <1>1, SeqMembers, AppendIs
<1>6. /\ Worth(q, c) = Upto(q, n, c) /\ Worth(r, c) = Upto(r, Len(r), c)
  BY <1>4, UptoIs
<1>7. Upto(r, n, c) = Upto(q, n, c)
  <2> DEFINE A == {j \in 1..n : q[j].id = c}
  <2>1. {j \in 1..n : r[j].id = c} = A
    BY <1>5
  <2>2. /\ \A j \in 1..n : Nums(q)[j] = q[j].num /\ q[j].num \in Nat
        /\ \A j \in 1..(n + 1) : Nums(r)[j] = r[j].num
    <3>1. DOMAIN r = 1..(n + 1)
      BY <1>2, <1>5, SeqMembers
    <3> HIDE DEF r, n
    <3> QED
      BY <1>4, <1>5, <3>1 DEF Nums, IsLines
  <2>3. IsFiniteSet(A)
    <3>1. IsFiniteSet(1..n) /\ A \in SUBSET (1..n)
      BY <1>5, FS_Interval
    <3> HIDE DEF A
    <3> QED
      BY <3>1, FS_Subset
  <2>4. \A j \in A : Nums(r)[j] \in Int /\ Nums(r)[j] = Nums(q)[j]
    BY <1>5, <2>2
  <2> HIDE DEF A
  <2>5. SumFunctionOnSet(Nums(r), A) = SumFunctionOnSet(Nums(q), A)
    BY <2>3, <2>4, SumEqual
  <2> QED
    BY <2>1, <2>5 DEF Upto, A
<1> HIDE DEF r, n
<1>8. n + 1 \in 1..(n + 1) /\ (n + 1) - 1 = n
  BY <1>5
<1>9. Upto(r, n + 1, c) = Upto(r, n, c) + IF l.id = c THEN l.num ELSE 0
  BY <1>4, <1>5, <1>8, UptoIs
<1> QED
  BY <1>3, <1>5, <1>6, <1>7, <1>9 DEF r

(* Lines that say nothing of an item can be left out.                       *)
LEMMA OnlyWorth ==
  ASSUME NEW S, NEW lines \in Lines(S), NEW keep, NEW c,
         \A j \in DOMAIN lines : lines[j].id = c => lines[j] \in keep
  PROVE  Worth(Only(lines, keep), c) = Worth(lines, c)
<1> DEFINE L == [id : S, num : Nat]
<1> DEFINE n == Len(lines)
<1>1. /\ IsSeq(lines) /\ n \in Nat /\ DOMAIN lines = 1..n
      /\ \A j \in 1..n : lines[j] \in L
  <2>1. lines \in Seq(L)
    BY DEF Lines
  <2> HIDE DEF L
  <2> QED
    BY <2>1, SeqMembers
<1>2. \A j \in 1..n : lines[j].num \in Nat
  BY <1>1
<1>3. /\ IsLines(lines) /\ \A k \in 0..n : Upto(lines, k, c) \in Nat
      /\ \A k \in 1..n : Upto(lines, k, c) = Upto(lines, k - 1, c)
                            + IF lines[k].id = c THEN lines[k].num ELSE 0
  BY LinesTyped, UptoIs
<1>4. PICK p : OnlyRuns(lines, keep, p)
  BY <1>1, OnlyWalk
<1>5. /\ p[0] = <<>> /\ p[n] = Only(lines, keep)
      /\ \A k \in 1..n : p[k] = IF lines[k] \in keep THEN Append(p[k - 1], lines[k]) ELSE p[k - 1]
  BY <1>4 DEF OnlyRuns
<1> HIDE DEF L
<1> DEFINE Fits(k) == p[k] \in Lines(S) /\ Worth(p[k], c) = Upto(lines, k, c)
<1> DEFINE T == {k \in Nat : k <= n => Fits(k)}
<1>6. 0 \in T
  <2>1. <<>> \in Lines(S)
    BY SeqGrows DEF Lines
  <2>2. Worth(<<>>, c) = 0 /\ Upto(lines, 0, c) = 0
    BY <1>3, NothingWorth, UptoIs
  <2> QED
    BY <1>5, <2>1, <2>2
<1>7. ASSUME NEW k \in Nat, k \in T PROVE k + 1 \in T
  <2>1. SUFFICES ASSUME k + 1 <= n PROVE Fits(k + 1)
    OBVIOUS
  <2>2. k <= n /\ k + 1 \in 1..n /\ (k + 1) - 1 = k
    BY <1>1, <2>1
  <2>3. Fits(k)
    BY <1>7, <2>2
  <2>4. p[k + 1] = IF lines[k + 1] \in keep THEN Append(p[k], lines[k + 1]) ELSE p[k]
    BY <1>5, <2>2
  <2> DEFINE x == IF lines[k + 1].id = c THEN lines[k + 1].num ELSE 0
  <2>5. Upto(lines, k + 1, c) = Upto(lines, k, c) + x
    BY <1>3, <2>2
  <2>6. Upto(lines, k, c) \in Nat
    BY <1>1, <1>3, <2>2
  <2>7. CASE lines[k + 1] \in keep
    <3>1. lines[k + 1] \in [id : S, num : Nat]
      BY <1>1, <2>2 DEF L
    <3>2. /\ Append(p[k], lines[k + 1]) \in Lines(S)
          /\ Worth(Append(p[k], lines[k + 1]), c) = Worth(p[k], c) + x
      BY <2>3, <3>1, WorthAppend
    <3> HIDE DEF x
    <3> QED
      BY <2>3, <2>4, <2>5, <2>7, <3>2
  <2>8. CASE lines[k + 1] \notin keep
    <3>1. x = 0
      BY <1>1, <2>2, <2>8
    <3> HIDE DEF x
    <3> QED
      BY <2>3, <2>4, <2>5, <2>6, <2>8, <3>1
  <2> QED
    BY <2>7, <2>8
<1> HIDE DEF T
<1>8. n \in T
  BY <1>1, <1>6, <1>7, NumberInduction
<1>9. Fits(n)
  BY <1>1, <1>8 DEF T
<1> QED
  BY <1>3, <1>5, <1>9, UptoIs

Everything == Cids \cup HeroCids \cup GearCids

LEMMA ForBagIs ==
  ASSUME NEW lines \in Lines(Everything)
  PROVE  ForBag(lines) \in Lines(Cids) /\ \A c \in Cids : Worth(ForBag(lines), c) = Worth(lines, c)
<1> DEFINE L == [id : Cids, num : Nat]
<1> DEFINE keep == {l \in Range(lines) : l.id \notin HeroCids \cup GearCids}
<1>1. /\ IsSeq(lines) /\ DOMAIN lines = 1..Len(lines) /\ Len(lines) \in Nat
      /\ \A j \in DOMAIN lines : /\ lines[j] \in [id : Everything, num : Nat]
                                 /\ lines[j] \in Range(lines)
  <2> DEFINE M == [id : Everything, num : Nat]
  <2>1. lines \in Seq(M)
    BY DEF Lines
  <2> HIDE DEF M
  <2>2. \A j \in DOMAIN lines : lines[j] \in M
    BY <2>1, SeqMembers
  <2>3. IsSeq(lines) /\ DOMAIN lines = 1..Len(lines) /\ Len(lines) \in Nat
    BY <2>1, SeqMembers
  <2> QED
    BY <2>2, <2>3 DEF M, Range
<1>2. keep \subseteq L
  BY <1>1 DEF Everything, Range
<1>3. ForBag(lines) = Only(lines, keep)
  BY DEF ForBag
<1>4. \A c \in Cids : \A j \in DOMAIN lines : lines[j].id = c => lines[j] \in keep
  BY <1>1, TablesAssumption
<1> HIDE DEF keep, L
<1>5. Only(lines, keep) \in Seq(L)
  <2>1. Only(lines, keep) \in Seq(Range(lines) \cap keep)
    BY <1>1, OnlyIs
  <2>2. /\ Len(Only(lines, keep)) \in Nat
        /\ \A i \in 1..Len(Only(lines, keep)) : Only(lines, keep)[i] \in L
        /\ Only(lines, keep) = [i \in 1..Len(Only(lines, keep)) |-> Only(lines, keep)[i]]
    BY <1>2, <2>1, SeqMembers
  <2> QED
    BY <2>2, SeqFrom
<1>6. ForBag(lines) \in Lines(Cids)
  BY <1>3, <1>5 DEF Lines, L
<1> QED
  BY <1>3, <1>4, <1>6, OnlyWorth

LEMMA GrantedItems ==
  ASSUME NEW bag, NEW net, NEW price, ItemsOf(bag, Booked(net, price, <<>>)),
         price \in Lines(Cids), NEW lines \in Lines(Everything), net \in [Cids -> Int]
  PROVE  ItemsOf(Granted(bag, ForBag(lines)), Booked(net, price, lines))
<1> DEFINE gains == ForBag(lines)
<1> DEFINE new == Granted(bag, gains)
<1>0. gains \in Lines(Cids) /\ \A c \in Cids : Worth(gains, c) = Worth(lines, c)
  BY ForBagIs
<1> HIDE DEF gains
<1>1. IsRewards(gains) /\ Named(gains) \subseteq Cids
  <2>1. Cids \subseteq Int
    BY TablesAssumption
  <2> QED
    BY <1>0, <2>1, LinesTyped, LinesMembers DEF IsRewards
<1>2. /\ BagGood(bag) /\ IsBag(bag) /\ BagCids(bag) \subseteq Cids /\ DistinctIds(bag)
      /\ Booked(net, price, <<>>) = [c \in Cids |-> Total(bag, c)]
  BY DEF ItemsOf, BagGood
<1>3. /\ Follows(bag, new) /\ BagCids(new) \subseteq BagCids(bag) \cup Named(gains)
      /\ \A c : Total(new, c) = Total(bag, c) + Worth(gains, c)
  BY <1>1, <1>2, GrantedIs
<1>4. \A c : Total(bag, c) \in Nat /\ Worth(gains, c) \in Nat /\ Worth(<<>>, c) = 0
  BY <1>1, <1>2, BagFacts, LinesFacts, NothingWorth DEF IsRewards
<1>5. \A c : Worth(price, c) \in Nat
  BY LinesTyped, LinesFacts
<1> HIDE DEF new
<1>6. BagGood(new)
  BY <1>1, <1>2, <1>3 DEF BagGood, Follows
<1>7. ASSUME NEW c \in Cids
      PROVE  net[c] + Worth(lines, c) - Worth(price, c) = Total(new, c)
  <2>1. net[c] + Worth(<<>>, c) - Worth(price, c) = Total(bag, c)
    BY <1>2 DEF Booked
  <2>2. net[c] \in Int /\ Worth(lines, c) = Worth(gains, c)
    BY <1>0
  <2> QED
    BY <1>3, <1>4, <1>5, <2>1, <2>2
<1>8. Booked(net, price, lines) = [c \in Cids |-> Total(new, c)]
  BY <1>7 DEF Booked
<1> QED
  BY <1>6, <1>8 DEF ItemsOf, new, gains

-----------------------------------------------------------------------------
(* Where the things drawn are kept.                                         *)
LEMMA FreeIdIs ==
  ASSUME NEW ids, IsFiniteSet(ids), NEW c
  PROVE  FreeId(ids, c) \notin ids
<1> DEFINE n == Cardinality(ids)
<1> DEFINE free == {k \in 1..(n + 1) : <<c, k>> \notin ids}
<1>1. n \in Nat
  BY FS_CardinalityType
<1> HIDE DEF n
<1>2. free # {}
  <2>1. SUFFICES ASSUME \A k \in 1..(n + 1) : <<c, k>> \in ids PROVE FALSE
    OBVIOUS
  <2> DEFINE f == [k \in 1..(n + 1) |-> <<c, k>>]
  <2>2. f \in [1..(n + 1) -> ids] /\ \A k \in 1..(n + 1) : f[k] = <<c, k>>
    BY <2>1
  <2>3. IsFiniteSet(1..(n + 1)) /\ Cardinality(1..(n + 1)) = n + 1 /\ n < n + 1
    BY <1>1, FS_Interval
  <2> DEFINE S == 1..(n + 1)
  <2> HIDE DEF f
  <2>31. IsFiniteSet(S) /\ Cardinality(ids) < Cardinality(S) /\ f \in [S -> ids]
    BY <2>2, <2>3 DEF n
  <2> HIDE DEF S
  <2>32. \E x, y \in S : x # y /\ f[x] = f[y]
    BY <2>31, FS_PigeonHole
  <2>4. PICK x, y \in 1..(n + 1) : x # y /\ f[x] = f[y]
    BY <2>32 DEF S
  <2>5. <<c, x>> = <<c, y>>
    BY <2>2, <2>4
  <2> QED
    BY <2>4, <2>5
<1>3. free \in SUBSET Nat
  OBVIOUS
<1>4. PICK m \in free : \A k \in free : m <= k
  BY <1>2, <1>3, LeastNumber
<1>5. Min(free) \in free
  BY <1>4 DEF Min
<1>6. FreeId(ids, c) = <<c, Min(free)>>
  BY DEF FreeId, n
<1>7. <<c, Min(free)>> \notin ids
  BY <1>5
<1> QED
  BY <1>6, <1>7

LEMMA NewHeroIs ==
  ASSUME NEW c \in HeroCids, NEW sid
  PROVE  LET h == NewHero(sid, c) IN
         HeroRowOK(h) /\ h.sid = sid /\ h.cid = c /\ h.lvl = 1 /\ ExpOf(h) = 0
<1> DEFINE h == NewHero(sid, c)
<1>1. /\ DOMAIN h = HeroFields /\ h = [f \in HeroFields |-> h[f]]
      /\ h.sid = sid /\ h.cid = c /\ h.lvl = 1 /\ h.exp = 0 /\ h.adv = 0
      /\ h.quality = Max({1, BaseQuality[c]}) /\ h.points = 0 /\ h.broken = 0
      /\ h.pages = [p \in {1} |-> NewPage] /\ h.use = 1
  BY DEF NewHero, HeroFields
<1> HIDE DEF h
<1>2. h.quality \in 1..MaxQuality
  <2>1. BaseQuality[c] \in Int /\ BaseQuality[c] <= MaxQuality
    BY TablesAssumption
  <2> DEFINE q == BaseQuality[c]
  <2>11. 1 \in Int /\ q \in Int /\ h.quality = Max({1, q})
    BY <1>1, <2>1
  <2> HIDE DEF q
  <2>12. Max({1, q}) = IF 1 >= q THEN 1 ELSE q
    BY <2>11, MaxTwo
  <2>2. h.quality = IF 1 >= BaseQuality[c] THEN 1 ELSE BaseQuality[c]
    BY <2>11, <2>12 DEF q
  <2> QED
    BY <2>1, <2>2 DEF MaxQuality
<1>3. 1 \in 1..MaxLevel /\ MaxLevel \in Nat
  BY TablesAssumption
<1>4. DOMAIN h.pages = {1} /\ h.pages[1] = NewPage /\ {1} \subseteq Pages
  BY <1>1 DEF Pages
<1>5. PageRow(NewPage) /\ NewPage.used \in Nat /\ PointsOK(h, NewPage) /\ PassiveOK(h, NewPage)
  <2>1. h.points \in Nat
    BY <1>1
  <2> QED
    BY <2>1, NewPageOK
<1>6. HeroOK(h)
  <2>1. h.adv \in 0..MaxAdvance
    BY <1>1 DEF MaxAdvance
  <2> QED
    BY <1>1, <1>2, <1>3, <1>4, <1>5, <2>1 DEF HeroOK
<1>7. \A n \in DOMAIN Stages[h.cid] : n > h.broken /\ Stages[h.cid][n].points > 0 =>
        h.points <= Stages[h.cid][n].points
  <2>1. \A n \in DOMAIN Stages[c] : Stages[c][n].points \in Nat
    BY TablesAssumption
  <2> QED
    BY <1>1, <2>1
<1>8. h.pages = [p \in DOMAIN h.pages |-> h.pages[p]]
  BY <1>1
<1>9. \A p \in DOMAIN h.pages :
        PageRow(h.pages[p]) /\ PointsOK(h, h.pages[p]) /\ PassiveOK(h, h.pages[p])
  BY <1>4, <1>5
<1>10. HeroRowOK(h)
  <2>1. h.points \in Nat /\ h.broken \in Nat
    BY <1>1
  <2> QED
    BY <1>1, <1>6, <1>7, <1>8, <1>9, <2>1 DEF HeroRowOK
<1>11. ExpOf(h) = 0
  <2>1. ExpUpTo(1, 1) = 0
    <3>1. 1 \in 1..MaxLevel /\ 1 \in 1..MaxLevel
      BY <1>3
    <3> QED
      BY <3>1, ExpUpToIs
  <2> QED
    BY <1>1, <2>1 DEF ExpOf
<1> QED
  BY <1>1, <1>10, <1>11 DEF h

(* A row joins the roster.                                                  *)
RowJoins(q, h, r) == r = Append(q, h)

LEMMA RowJoinsIs ==
  ASSUME NEW q, IsSeq(q), NEW h, NEW r, RowJoins(q, h, r)
  PROVE  /\ IsSeq(r) /\ DOMAIN q \subseteq DOMAIN r /\ Len(q) + 1 \in DOMAIN r
         /\ r[Len(q) + 1] = h /\ \A i \in DOMAIN q : r[i] = q[i]
         /\ \A i \in DOMAIN r : i \in DOMAIN q \/ i = Len(q) + 1
<1>1. Len(q) \in Nat /\ DOMAIN q = 1..Len(q)
  BY SeqFacts
<1>2. /\ IsSeq(r) /\ DOMAIN r = 1..(Len(q) + 1)
      /\ r[Len(q) + 1] = h /\ \A i \in 1..Len(q) : r[i] = q[i]
  BY AppendIs DEF RowJoins
<1> QED
  BY <1>1, <1>2

LEMMA WithHeroIs ==
  ASSUME NEW t, Fields(t), RosterGood(t), FedGood(t), NEW c \in HeroCids
  PROVE  LET w == WithHero(t, c) IN
         /\ Changed(t, w, {"heroes"}, {}) /\ RosterGood(w) /\ FedGood(w)
         /\ Sids(t) \subseteq Sids(w) /\ \A d : Owns(w, d) <=> Owns(t, d) \/ d = c
<1> DEFINE w == WithHero(t, c)
<1>1. CASE Owns(t, c)
  <2>1. w = t
    BY <1>1 DEF WithHero
  <2>2. Changed(t, t, {"heroes"}, {})
    BY DEF Changed
  <2> QED
    BY <1>1, <2>1, <2>2
<1>2. CASE ~Owns(t, c)
  <2> DEFINE sid == FreeId(Sids(t), c)
  <2> DEFINE h == NewHero(sid, c)
  <2> DEFINE n == Len(t.heroes)
  <2>1. IsSeq(t.heroes) /\ n \in Nat /\ DOMAIN t.heroes = 1..n /\ IsFiniteSet(DOMAIN t.heroes)
    BY SeqFacts DEF RosterGood
  <2>2. sid \notin Sids(t)
    <3> DEFINE f == [i \in DOMAIN t.heroes |-> t.heroes[i].sid]
    <3>1. Sids(t) = {f[i] : i \in DOMAIN t.heroes}
      BY DEF Sids
    <3> HIDE DEF f
    <3>2. IsFiniteSet(Sids(t))
      BY <2>1, <3>1, ImageFinite
    <3> QED
      BY <3>2, FreeIdIs
  <2> HIDE DEF sid
  <2>3. HeroRowOK(h) /\ h.sid = sid /\ h.cid = c /\ h.lvl = 1 /\ ExpOf(h) = 0
    BY NewHeroIs
  <2>4. w = [t EXCEPT !.heroes = Append(@, h)]
    BY <1>2 DEF WithHero, sid
  <2> HIDE DEF h, n
  <2>5. Changed(t, w, {"heroes"}, {}) /\ RowJoins(t.heroes, h, w.heroes)
    BY <2>4 DEF Fields, Changed, SaveFields, BookFields, RowJoins
  <2> HIDE DEF w
  <2>6. w.lvl = t.lvl /\ w.book.fed = t.book.fed
    BY <2>5 DEF Changed, SaveFields, BookFields
  <2> DEFINE l == n + 1
  <2>7. /\ IsSeq(w.heroes) /\ DOMAIN t.heroes \subseteq DOMAIN w.heroes /\ l \in DOMAIN w.heroes
        /\ w.heroes[l] = h /\ \A i \in DOMAIN t.heroes : w.heroes[i] = t.heroes[i]
        /\ \A i \in DOMAIN w.heroes : i \in DOMAIN t.heroes \/ i = l
    BY <2>1, <2>5, RowJoinsIs DEF n
  <2> HIDE DEF l
  <2>8. Sids(t) \subseteq Sids(w) /\ \A d : Owns(w, d) <=> Owns(t, d) \/ d = c
    BY <2>3, <2>7 DEF Sids, Owns
  <2>9. RosterGood(w)
    <3>1. t.lvl \in 1..MaxLevel /\ MaxLevel \in Nat
      BY TablesAssumption DEF RosterGood
    <3>2. \A i \in DOMAIN w.heroes : HeroRowOK(w.heroes[i]) /\ w.heroes[i].lvl <= w.lvl
      BY <2>3, <2>6, <2>7, <3>1 DEF RosterGood
    <3>3. \A i \in DOMAIN t.heroes : t.heroes[i].sid # sid /\ t.heroes[i].cid # c
      BY <1>2, <2>2 DEF Sids, Owns
    <3>4. \A i, j \in DOMAIN w.heroes :
            w.heroes[i].sid = w.heroes[j].sid \/ w.heroes[i].cid = w.heroes[j].cid => i = j
      BY <2>3, <2>7, <3>3 DEF RosterGood
    <3> QED
      BY <2>6, <2>7, <3>1, <3>2, <3>4 DEF RosterGood
  <2>10. FedGood(w)
    <3>1. t.book.fed[c] = 0
      BY <1>2 DEF FedGood
    <3>2. \A i \in DOMAIN w.heroes : ExpOf(w.heroes[i]) = w.book.fed[w.heroes[i].cid]
      BY <2>3, <2>6, <2>7, <3>1 DEF FedGood
    <3>3. \A d \in HeroCids : ~Owns(w, d) => w.book.fed[d] = 0
      BY <2>6, <2>8 DEF FedGood
    <3> QED
      BY <2>6, <3>2, <3>3 DEF FedGood
  <2> QED
    BY <2>5, <2>8, <2>9, <2>10 DEF w
<1> QED
  BY <1>1, <1>2

(* add_equipment on the rows of the equipment: what a pile holds is set,    *)
(* or a row joins.                                                          *)
Filled(c, n) == IF GridMax[c] > 0 THEN Min({n, GridMax[c]}) ELSE n
GearPiled(g, c, num, r) == r = [g EXCEPT ![Min(Rows(g, c))].num = Filled(c, @ + num)]
GearJoined(g, c, num, r) ==
  r = Append(g, Stack(FreeId({g[i].id : i \in DOMAIN g}, c), c, num))

LEMMA PileIs ==
  ASSUME NEW g, GearOK(g), NEW c \in DOMAIN GridMax, Rows(g, c) # {},
         NEW num \in Nat, NEW r, GearPiled(g, c, num, r), NEW x \in Nat, Total(g, c) = Room(c, x)
  PROVE  /\ GearOK(r) /\ Total(r, c) = Room(c, x + num)
         /\ \A d : d # c => Total(r, d) = Total(g, d)
<1> DEFINE rows == Rows(g, c)
<1> DEFINE m == Min(rows)
<1> DEFINE old == g[m].num
<1> DEFINE G == GridMax[c]
<1> DEFINE v == Filled(c, old + num)
<1>1. IsBag(g) /\ DOMAIN g = 1..Len(g) /\ Len(g) \in Nat
  BY BagFacts DEF GearOK
<1>2. m \in rows
  <2>1. rows \in SUBSET Nat /\ rows # {}
    BY <1>1 DEF Rows
  <2> HIDE DEF rows
  <2>2. PICK k \in rows : \A j \in rows : k <= j
    BY <2>1, LeastNumber
  <2> QED
    BY <2>2 DEF Min
<1>3. m \in DOMAIN g /\ g[m].cid = c /\ \A j \in DOMAIN g : g[j].cid = c => m = j
  BY <1>2 DEF GearOK, Rows
<1>4. rows = {m}
  BY <1>3 DEF Rows
<1>5. r = [g EXCEPT ![m].num = v]
  BY DEF GearPiled
<1> HIDE DEF m
<1>6. old \in Nat /\ G \in Nat /\ (G > 0 => old <= G)
  BY <1>1, <1>3, BagFacts, BannersAssumption DEF GearOK
<1>7. Total(g, c) = old
  <2> DEFINE f == Nums(g)
  <2>1. f[m] = old /\ \A y \in {} \cup {m} : f[y] \in Int
    BY <1>1, <1>3, <1>6, BagFacts
  <2>2. Total(g, c) = SumFunctionOnSet(f, {} \cup {m})
    BY <1>4 DEF Total
  <2> HIDE DEF f
  <2>3. IsFiniteSet({}) /\ m \notin {}
    BY FS_EmptySet
  <2>4. SumFunctionOnSet(f, {} \cup {m}) = SumFunctionOnSet(f, {}) + f[m]
    BY <2>1, <2>3, SumWith
  <2>5. SumFunctionOnSet(f, {}) = 0
    BY SumEmpty
  <2> QED
    BY <1>6, <2>1, <2>2, <2>4, <2>5
<1> HIDE DEF old, G
<1>8. v = IF G > 0 THEN (IF old + num <= G THEN old + num ELSE G) ELSE old + num
  <2>1. old + num \in Int /\ G \in Int
    BY <1>6
  <2>2. Min({old + num, G}) = IF old + num <= G THEN old + num ELSE G
    BY <2>1, MinTwo
  <2> QED
    BY <2>2 DEF Filled, G
<1>9. v \in Nat /\ v - old \in Nat /\ old + (v - old) = v /\ (G > 0 => v <= G)
  BY <1>6, <1>8
<1>10. v = Room(c, x + num)
  <2>1. old = IF G > 0 THEN (IF x <= G THEN x ELSE G) ELSE x
    BY <1>7 DEF Room, G
  <2>2. v = IF G > 0 THEN (IF x + num <= G THEN x + num ELSE G) ELSE x + num
    BY <1>6, <1>8, <2>1
  <2> QED
    BY <2>2 DEF Room, G
<1> HIDE DEF v
<1> DEFINE n == v - old
<1>11. r = AddItem(g, c, n)
  <2>1. AddItem(g, c, n) = [g EXCEPT ![m].num = @ + n]
    BY DEF AddItem, m
  <2>2. g[m].num + n = v
    BY <1>9 DEF old
  <2> HIDE DEF n
  <2> QED
    BY <1>5, <2>1, <2>2
<1>12. n \in Nat
  BY <1>9
<1> HIDE DEF n
<1>13. /\ IsBag(r) /\ DOMAIN r = DOMAIN g
       /\ \A i \in DOMAIN g : r[i].id = g[i].id /\ r[i].cid = g[i].cid
       /\ \A d : Total(r, d) = Total(g, d) + (IF d = c THEN n ELSE 0)
  BY <1>1, <1>11, <1>12, AddToStack
<1>14. \A d : Total(g, d) \in Nat
  BY <1>1, BagFacts
<1>15. Total(r, c) = v /\ \A d : d # c => Total(r, d) = Total(g, d)
  BY <1>7, <1>9, <1>13, <1>14 DEF n
<1>16. \A i \in DOMAIN g : r[i].num = IF i = m THEN v ELSE g[i].num
  <2>1. \A i \in DOMAIN g : g[i] = Stack(g[i].id, g[i].cid, g[i].num)
    BY <1>1 DEF IsBag
  <2>2. \A i \in DOMAIN g : i # m => r[i] = g[i]
    BY <1>5
  <2>3. r[m] = [g[m] EXCEPT !.num = v]
    BY <1>3, <1>5
  <2>4. r[m].num = v
    BY <1>3, <2>1, <2>3 DEF Stack
  <2> QED
    BY <2>2, <2>4
<1>17. GearOK(r)
  <2>1. DistinctIds(r) /\ BagCids(r) \subseteq GearCids
    BY <1>13 DEF GearOK, DistinctIds, BagCids
  <2>2. ASSUME NEW i \in DOMAIN r, r[i].cid \in DOMAIN GridMax
        PROVE  /\ GridMax[r[i].cid] > 0 => r[i].num <= GridMax[r[i].cid]
               /\ \A j \in DOMAIN r : r[j].cid = r[i].cid => i = j
    <3>1. \A j \in DOMAIN r : r[j].cid = r[i].cid => i = j
      BY <1>13, <2>2 DEF GearOK
    <3>2. CASE i = m
      BY <1>3, <1>9, <1>13, <1>16, <3>1, <3>2 DEF G
    <3>3. CASE i # m
      BY <1>13, <1>16, <2>2, <3>1, <3>3 DEF GearOK
    <3> QED
      BY <3>2, <3>3
  <2> QED
    BY <1>13, <2>1, <2>2 DEF GearOK
<1> QED
  BY <1>10, <1>15, <1>17

LEMMA JoinIs ==
  ASSUME NEW g, GearOK(g), NEW c \in GearCids, c \in DOMAIN GridMax => Rows(g, c) = {},
         NEW num \in Nat, num > 0,
         c \in DOMAIN GridMax /\ GridMax[c] > 0 => num <= GridMax[c],
         NEW r, GearJoined(g, c, num, r), NEW x \in Nat, Total(g, c) = Room(c, x)
  PROVE  /\ GearOK(r) /\ Total(r, c) = Room(c, x + num)
         /\ \A d : d # c => Total(r, d) = Total(g, d)
<1> DEFINE id == FreeId({g[i].id : i \in DOMAIN g}, c)
<1>1. IsBag(g) /\ DOMAIN g = 1..Len(g) /\ Len(g) \in Nat /\ IsFiniteSet(DOMAIN g) /\ IsSeq(g)
  BY BagFacts, SeqFacts DEF GearOK, IsBag
<1>2. id \notin BagIds(g)
  <2> DEFINE f == [i \in DOMAIN g |-> g[i].id]
  <2>1. {g[i].id : i \in DOMAIN g} = {f[i] : i \in DOMAIN g}
    OBVIOUS
  <2> HIDE DEF f
  <2> DEFINE D == DOMAIN g
  <2>11. IsFiniteSet(D)
    BY <1>1
  <2> HIDE DEF D
  <2>12. IsFiniteSet({f[i] : i \in D})
    BY <2>11, ImageFinite
  <2>2. IsFiniteSet({g[i].id : i \in DOMAIN g})
    BY <2>1, <2>12 DEF D
  <2> QED
    BY <2>2, FreeIdIs DEF BagIds
<1>3. r = Append(g, Stack(id, c, num))
  BY DEF GearJoined
<1> HIDE DEF id
<1>4. /\ IsBag(r) /\ BagCids(r) = BagCids(g) \cup {c} /\ DistinctIds(r)
      /\ \A d : Total(r, d) = Total(g, d) + (IF d = c THEN num ELSE 0)
  BY <1>1, <1>2, <1>3, AddStack DEF GearOK
<1>5. \A d : Total(g, d) \in Nat
  BY <1>1, BagFacts
<1>6. Total(r, c) = Room(c, x + num)
  <2>1. Total(r, c) = Room(c, x) + num
    BY <1>4
  <2>2. CASE c \in DOMAIN GridMax /\ GridMax[c] > 0
    <3>1. Total(g, c) = 0
      BY <2>2, SumEmpty DEF Total
    <3>2. GridMax[c] \in Nat
      BY <2>2, BannersAssumption
    <3>3. x = 0
      BY <2>2, <3>1, <3>2 DEF Room
    <3> QED
      BY <2>1, <2>2, <3>2, <3>3 DEF Room
  <2> QED
    BY <2>1, <2>2 DEF Room
<1> DEFINE n == Len(g)
<1> DEFINE row == Stack(id, c, num)
<1>7. /\ DOMAIN r = 1..(n + 1) /\ r[n + 1] = row
      /\ \A i \in 1..n : r[i] = g[i]
  BY <1>1, <1>3, AppendIs
<1>8. row.cid = c /\ row.num = num
  BY DEF Stack
<1> HIDE DEF row, n
<1>9. /\ DOMAIN g = 1..n /\ n \in Nat /\ n + 1 \notin DOMAIN g
  BY <1>1 DEF n
<1>10. \A i \in DOMAIN r : i \in DOMAIN g \/ i = n + 1
  BY <1>7, <1>9
<1>11. GearOK(r)
  <2>1. BagCids(r) \subseteq GearCids
    BY <1>4 DEF GearOK
  <2>2. ASSUME NEW i \in DOMAIN r, r[i].cid \in DOMAIN GridMax
        PROVE  /\ GridMax[r[i].cid] > 0 => r[i].num <= GridMax[r[i].cid]
               /\ \A j \in DOMAIN r : r[j].cid = r[i].cid => i = j
    <3>1. \A j \in DOMAIN g : c \in DOMAIN GridMax => g[j].cid # c
      BY DEF Rows
    <3>2. CASE i = n + 1
      BY <1>7, <1>8, <1>9, <1>10, <2>2, <3>1, <3>2
    <3>3. CASE i \in DOMAIN g
      <4>1. r[i] = g[i]
        BY <1>7, <1>9, <3>3
      <4>2. ASSUME NEW j \in DOMAIN r, r[j].cid = r[i].cid PROVE i = j
        <5>1. CASE j \in DOMAIN g
          BY <1>7, <1>9, <2>2, <3>3, <4>1, <4>2, <5>1 DEF GearOK
        <5>2. CASE j = n + 1
          BY <1>7, <1>8, <2>2, <3>1, <3>3, <4>1, <4>2, <5>2
        <5> QED
          BY <1>10, <5>1, <5>2
      <4> QED
        BY <2>2, <3>3, <4>1, <4>2 DEF GearOK
    <3> QED
      BY <1>10, <3>2, <3>3
  <2> QED
    BY <1>4, <2>1, <2>2 DEF GearOK
<1> QED
  BY <1>4, <1>5, <1>6, <1>11

LEMMA WithGearIs ==
  ASSUME NEW t, Fields(t), GearOK(t.gear), NEW c \in GearCids, NEW num \in Nat, num > 0,
         c \in DOMAIN GridMax /\ GridMax[c] > 0 => num <= GridMax[c],
         NEW x \in Nat, Total(t.gear, c) = Room(c, x)
  PROVE  LET w == WithGear(t, c, num) IN
         /\ Changed(t, w, {"gear"}, {}) /\ GearOK(w.gear) /\ Total(w.gear, c) = Room(c, x + num)
         /\ \A d : d # c => Total(w.gear, d) = Total(t.gear, d)
<1> DEFINE w == WithGear(t, c, num)
<1> DEFINE piled == [t EXCEPT !.gear[Min(Rows(t.gear, c))].num = Filled(c, @ + num)]
<1> DEFINE joined ==
      [t EXCEPT !.gear = Append(@, Stack(FreeId({t.gear[i].id : i \in DOMAIN t.gear}, c), c, num))]
<1>1. w = IF c \in DOMAIN GridMax /\ Rows(t.gear, c) # {} THEN piled ELSE joined
  BY DEF WithGear, Rows, Filled
<1>2. /\ Changed(t, piled, {"gear"}, {}) /\ Changed(t, joined, {"gear"}, {})
  BY DEF Fields, Changed, SaveFields, BookFields
<1>3. /\ GearPiled(t.gear, c, num, piled.gear) /\ GearJoined(t.gear, c, num, joined.gear)
  BY DEF Fields, SaveFields, GearPiled, GearJoined
<1> HIDE DEF piled, joined
<1>4. CASE c \in DOMAIN GridMax /\ Rows(t.gear, c) # {}
  BY <1>1, <1>2, <1>3, <1>4, PileIs
<1>5. CASE ~(c \in DOMAIN GridMax /\ Rows(t.gear, c) # {})
  BY <1>1, <1>2, <1>3, <1>5, JoinIs
<1> QED
  BY <1>4, <1>5

-----------------------------------------------------------------------------
(* Lines of cards: amounts that a row can hold.                             *)
CardLine ==
  {l \in [id : Everything, num : Nat] :
     l.num > 0 /\ (l.id \in DOMAIN GridMax /\ GridMax[l.id] > 0 => l.num <= GridMax[l.id])}

(* What the roster and the equipment of copy s are, t, after the first n    *)
(* lines were kept.                                                         *)
StoredTo(s, lines, n, t) ==
  /\ Changed(s, t, {"heroes", "gear"}, {}) /\ RosterGood(t) /\ FedGood(t) /\ GearOK(t.gear)
  /\ Sids(s) \subseteq Sids(t)
  /\ \A c \in HeroCids : Owns(t, c) <=> Owns(s, c) \/ \E j \in 1..n : lines[j].id = c
  /\ \A c \in GearCids : Total(t.gear, c) = Room(c, s.book.shown[c] + Upto(lines, n, c))

LEMMA ChangedTwo ==
  ASSUME NEW s, NEW t, NEW w, NEW fields, NEW more,
         Changed(s, t, fields, {}), Changed(t, w, more, {}), more \subseteq fields
  PROVE  Changed(s, w, fields, {})
BY DEF Changed

LEMMA ChangedKeeps ==
  ASSUME NEW s, NEW t, NEW fields, Changed(s, t, fields, {})
  PROVE  /\ Fields(t) /\ t.book.fed = s.book.fed /\ t.book.shown = s.book.shown
         /\ "lvl" \notin fields => t.lvl = s.lvl
         /\ "heroes" \notin fields => t.heroes = s.heroes
         /\ "gear" \notin fields => t.gear = s.gear
BY DEF Changed, SaveFields, BookFields

LEMMA RowsMove ==
  ASSUME NEW t, FedGood(t), NEW w, w.heroes = t.heroes, w.book.fed = t.book.fed
  PROVE  FedGood(w)
BY DEF FedGood, Owns

LEMMA StoredStep ==
  ASSUME NEW s, s.book.shown \in [HeroCids \cup GearCids -> Nat],
         NEW lines \in Seq(CardLine), NEW n \in 1..Len(lines), NEW t,
         StoredTo(s, lines, n - 1, t)
  PROVE  StoredTo(s, lines, n, Stored(t, lines[n]))
<1> DEFINE l == lines[n]
<1> DEFINE w == Stored(t, l)
<1>1. IsSeq(lines) /\ Len(lines) \in Nat /\ DOMAIN lines = 1..Len(lines) /\ l \in CardLine
  BY SeqMembers
<1>2. /\ l.id \in Everything /\ l.num \in Nat /\ l.num > 0
      /\ l.id \in DOMAIN GridMax /\ GridMax[l.id] > 0 => l.num <= GridMax[l.id]
  BY <1>1 DEF CardLine
<1>3. IsLines(lines)
  BY <1>1, SeqMembers DEF IsLines, CardLine
<1>4. \A c : /\ Upto(lines, n - 1, c) \in Nat
             /\ Upto(lines, n, c) = Upto(lines, n - 1, c) + IF l.id = c THEN l.num ELSE 0
  <2>1. n - 1 \in 0..Len(lines)
    BY <1>1
  <2> QED
    BY <1>3, <2>1, UptoIs
<1>5. \A j : j \in 1..n <=> j \in 1..(n - 1) \/ j = n
  BY <1>1
<1>6. HeroCids \cap GearCids = {} /\ Cids \cap (HeroCids \cup GearCids) = {}
  BY TablesAssumption
<1>7. s.book.shown \in [HeroCids \cup GearCids -> Nat]
  OBVIOUS
<1>8. Fields(t)
  BY ChangedKeeps DEF StoredTo
<1> HIDE DEF l
<1>9. CASE l.id \in HeroCids
  <2>1. w = WithHero(t, l.id)
    BY <1>9 DEF Stored
  <2> HIDE DEF w
  <2>2. /\ Changed(t, w, {"heroes"}, {}) /\ RosterGood(w) /\ FedGood(w)
        /\ Sids(t) \subseteq Sids(w) /\ \A d : Owns(w, d) <=> Owns(t, d) \/ d = l.id
    BY <1>8, <1>9, <2>1, WithHeroIs DEF StoredTo
  <2>3. Changed(s, w, {"heroes", "gear"}, {}) /\ w.gear = t.gear
    BY <2>2, ChangedTwo, ChangedKeeps DEF StoredTo
  <2>4. \A c \in HeroCids : Owns(w, c) <=> Owns(s, c) \/ \E j \in 1..n : lines[j].id = c
    BY <1>5, <2>2 DEF StoredTo, l
  <2>5. \A c \in GearCids : Total(w.gear, c) = Room(c, s.book.shown[c] + Upto(lines, n, c))
    <3>1. ASSUME NEW c \in GearCids PROVE Upto(lines, n, c) = Upto(lines, n - 1, c)
      BY <1>4, <1>6, <1>9
    <3> QED
      BY <2>3, <3>1 DEF StoredTo
  <2> QED
    BY <2>2, <2>3, <2>4, <2>5 DEF StoredTo, w, l
<1>10. CASE l.id \in GearCids
  <2>1. w = WithGear(t, l.id, l.num)
    BY <1>6, <1>10 DEF Stored
  <2> HIDE DEF w
  <2> DEFINE x == s.book.shown[l.id] + Upto(lines, n - 1, l.id)
  <2>2. x \in Nat /\ Total(t.gear, l.id) = Room(l.id, x)
    BY <1>4, <1>7, <1>10 DEF StoredTo
  <2> HIDE DEF x
  <2>21. GearOK(t.gear)
    BY DEF StoredTo
  <2> DEFINE d == l.id
  <2> DEFINE z == l.num
  <2>22. /\ d \in GearCids /\ z \in Nat /\ z > 0 /\ Total(t.gear, d) = Room(d, x)
         /\ d \in DOMAIN GridMax /\ GridMax[d] > 0 => z <= GridMax[d]
    BY <1>2, <1>10, <2>2
  <2> HIDE DEF d, z
  <2>23. /\ Changed(t, WithGear(t, d, z), {"gear"}, {}) /\ GearOK(WithGear(t, d, z).gear)
         /\ Total(WithGear(t, d, z).gear, d) = Room(d, x + z)
         /\ \A e : e # d => Total(WithGear(t, d, z).gear, e) = Total(t.gear, e)
    BY <1>8, <2>2, <2>21, <2>22, WithGearIs
  <2>3. /\ Changed(t, w, {"gear"}, {}) /\ GearOK(w.gear)
        /\ Total(w.gear, l.id) = Room(l.id, x + l.num)
        /\ \A e : e # l.id => Total(w.gear, e) = Total(t.gear, e)
    BY <2>1, <2>23 DEF d, z
  <2>4. /\ Changed(s, w, {"heroes", "gear"}, {}) /\ w.heroes = t.heroes /\ w.lvl = t.lvl
        /\ w.book.fed = t.book.fed
    BY <2>3, ChangedTwo, ChangedKeeps DEF StoredTo
  <2>51. \A c : Owns(w, c) <=> Owns(t, c)
    BY <2>4 DEF Owns
  <2>52. RosterGood(w)
    BY <2>4 DEF StoredTo, RosterGood
  <2>530. FedGood(t)
    BY DEF StoredTo
  <2>53. FedGood(w)
    BY <2>4, <2>530, RowsMove
  <2>54. Sids(s) \subseteq Sids(w)
    <3>1. Sids(w) = Sids(t)
      BY <2>4 DEF Sids
    <3> QED
      BY <3>1 DEF StoredTo
  <2>5. /\ RosterGood(w) /\ FedGood(w) /\ Sids(s) \subseteq Sids(w)
        /\ \A c : Owns(w, c) <=> Owns(t, c)
    BY <2>51, <2>52, <2>53, <2>54
  <2>6. \A c \in HeroCids : Owns(w, c) <=> Owns(s, c) \/ \E j \in 1..n : lines[j].id = c
    BY <1>5, <1>6, <1>10, <2>5 DEF StoredTo, l
  <2>7. ASSUME NEW c \in GearCids
        PROVE  Total(w.gear, c) = Room(c, s.book.shown[c] + Upto(lines, n, c))
    <3>1. CASE c = l.id
      <4>1. s.book.shown[l.id] + Upto(lines, n, l.id) = x + l.num
        <5>1. /\ Upto(lines, n, l.id) = Upto(lines, n - 1, l.id) + l.num
              /\ Upto(lines, n - 1, l.id) \in Nat
          BY <1>4
        <5>2. s.book.shown[l.id] \in Nat
          BY <1>7, <1>10
        <5> QED
          BY <1>2, <5>1, <5>2 DEF x
      <4> QED
        BY <2>3, <3>1, <4>1
    <3>2. CASE c # l.id
      <4>1. Upto(lines, n, c) = Upto(lines, n - 1, c)
        BY <1>4, <3>2
      <4> QED
        BY <2>3, <3>2, <4>1 DEF StoredTo
    <3> QED
      BY <3>1, <3>2
  <2> QED
    BY <2>3, <2>4, <2>5, <2>6, <2>7 DEF StoredTo, w, l
<1>11. CASE l.id \notin HeroCids /\ l.id \notin GearCids
  <2>1. w = t
    BY <1>11 DEF Stored
  <2> HIDE DEF w
  <2>2. \A c \in HeroCids : Owns(t, c) <=> Owns(s, c) \/ \E j \in 1..n : lines[j].id = c
    BY <1>5, <1>11 DEF StoredTo, l
  <2>3. ASSUME NEW c \in GearCids PROVE Upto(lines, n, c) = Upto(lines, n - 1, c)
    BY <1>4, <1>11
  <2>4. \A c \in GearCids : Total(t.gear, c) = Room(c, s.book.shown[c] + Upto(lines, n, c))
    BY <2>3 DEF StoredTo
  <2> QED
    BY <2>1, <2>2, <2>4 DEF StoredTo, w, l
<1> QED
  BY <1>9, <1>10, <1>11

(* The lines are kept one after the other.                                  *)
StoredSteps(u, lines, k, g) ==
  g = [s \in SUBSET (1..k) |->
         IF s = {} THEN u ELSE Stored(g[s \ {Max(s)}], lines[Max(s)])]

StoredRuns(u, lines, p) ==
  /\ p[0] = u /\ \A k \in 1..Len(lines) : p[k] = Stored(p[k - 1], lines[k])
  /\ p[Len(lines)] = StoredAll(u, lines)

LEMMA StoredStepsExist ==
  ASSUME NEW u, NEW lines
  PROVE  \A n \in Nat : \E g : StoredSteps(u, lines, n, g)
<1> DEFINE T == {k \in Nat : \E g : StoredSteps(u, lines, k, g)}
<1>1. 0 \in T
  <2> DEFINE g == [s \in SUBSET (1..0) |-> u]
  <2>1. \A s \in SUBSET (1..0) : s = {}
    OBVIOUS
  <2>2. g = [s \in SUBSET (1..0) |->
               IF s = {} THEN u ELSE Stored(g[s \ {Max(s)}], lines[Max(s)])]
    BY <2>1
  <2>3. StoredSteps(u, lines, 0, g)
    BY <2>2 DEF StoredSteps
  <2> QED
    BY <2>3
<1>2. ASSUME NEW k \in Nat, k \in T PROVE k + 1 \in T
  <2>1. PICK g : StoredSteps(u, lines, k, g)
    BY <1>2
  <2> DEFINE S == SUBSET (1..(k + 1))
  <2> DEFINE h == [s \in S |-> IF k + 1 \in s THEN Stored(g[s \ {k + 1}], lines[k + 1]) ELSE g[s]]
  <2>2. \A s \in SUBSET (1..k) :
          g[s] = IF s = {} THEN u ELSE Stored(g[s \ {Max(s)}], lines[Max(s)])
    BY <2>1 DEF StoredSteps
  <2>3. /\ \A s \in SUBSET (1..k) : s \in S /\ k + 1 \notin s
        /\ \A s \in S : k + 1 \notin s => s \in SUBSET (1..k)
        /\ \A s \in S : s \ {k + 1} \in SUBSET (1..k)
    OBVIOUS
  <2>4. \A s \in SUBSET (1..k) : h[s] = g[s]
    BY <2>3
  <2>5. \A s \in S : k + 1 \in s => h[s] = Stored(g[s \ {k + 1}], lines[k + 1])
    OBVIOUS
  <2>6. h = [s \in S |-> h[s]]
    OBVIOUS
  <2>7. \A s \in S : k + 1 \in s => Max(s) = k + 1
    <3>1. SUFFICES ASSUME NEW s \in S, k + 1 \in s PROVE Max(s) = k + 1
      OBVIOUS
    <3>2. s \in SUBSET (1..(k + 1)) /\ s # {}
      BY <3>1
    <3>3. Max(s) \in s /\ \A y \in s : y <= Max(s)
      <4>1. s \in SUBSET Int /\ IsFiniteSet(1..(k + 1))
        BY <3>2, FS_Interval
      <4>2. IsFiniteSet(s)
        BY <3>2, <4>1, FS_Subset
      <4> QED
        BY <3>2, <4>1, <4>2, FiniteMax
    <3>4. Max(s) \in 1..(k + 1) /\ k + 1 <= Max(s)
      BY <3>1, <3>2, <3>3
    <3> QED
      BY <3>4
  <2> HIDE DEF h
  <2>8. ASSUME NEW s \in S
        PROVE  h[s] = IF s = {} THEN u ELSE Stored(h[s \ {Max(s)}], lines[Max(s)])
    <3>1. CASE k + 1 \in s
      <4>1. h[s \ {k + 1}] = g[s \ {k + 1}]
        BY <2>3, <2>4
      <4> QED
        BY <2>5, <2>7, <3>1, <4>1
    <3>2. CASE k + 1 \notin s
      <4>1. s \in SUBSET (1..k) /\ s \ {Max(s)} \in SUBSET (1..k)
        BY <2>3, <3>2
      <4> QED
        BY <2>2, <2>4, <4>1
    <3> QED
      BY <3>1, <3>2
  <2>9. StoredSteps(u, lines, k + 1, h)
    BY <2>6, <2>8 DEF StoredSteps
  <2> QED
    BY <2>9
<1> HIDE DEF T
<1>3. Nat \subseteq T
  BY <1>1, <1>2, NumberInduction
<1> QED
  BY <1>3 DEF T

LEMMA StoredWalk ==
  ASSUME NEW u, NEW lines, IsSeq(lines)
  PROVE  \E p : StoredRuns(u, lines, p)
<1> DEFINE n == Len(lines)
<1> DEFINE h == CHOOSE g : StoredSteps(u, lines, n, g)
<1>1. n \in Nat /\ DOMAIN lines = 1..n
  BY SeqFacts
<1>2. StoredAll(u, lines) = h[1..n]
  BY <1>1 DEF StoredAll, FoldLeft, MapThenFoldSet, StoredSteps
<1> HIDE DEF n
<1>3. StoredSteps(u, lines, n, h)
  BY <1>1, StoredStepsExist
<1> HIDE DEF h
<1> DEFINE p == [k \in 0..n |-> h[1..k]]
<1>4. \A s \in SUBSET (1..n) :
        h[s] = IF s = {} THEN u ELSE Stored(h[s \ {Max(s)}], lines[Max(s)])
  BY <1>3 DEF StoredSteps
<1>5. p[0] = u
  <2>1. 1..0 = {} /\ {} \in SUBSET (1..n) /\ 0 \in 0..n
    BY <1>1
  <2> QED
    BY <1>4, <2>1
<1>6. ASSUME NEW k \in 1..n PROVE p[k] = Stored(p[k - 1], lines[k])
  <2>1. Max(1..k) = k /\ (1..k) \ {k} = 1..(k - 1)
    BY <1>1, LastOfPrefix
  <2>2. 1..k \in SUBSET (1..n) /\ 1..k # {} /\ k \in 0..n /\ k - 1 \in 0..n
    BY <1>1
  <2>3. h[1..k] = Stored(h[1..(k - 1)], lines[k])
    BY <1>4, <2>1, <2>2
  <2> QED
    BY <2>2, <2>3
<1>7. n \in 0..n /\ p[n] = StoredAll(u, lines)
  BY <1>1, <1>2
<1> HIDE DEF p
<1>8. StoredRuns(u, lines, p)
  BY <1>5, <1>6, <1>7 DEF StoredRuns, n
<1> QED
  BY <1>8

(* What roster and equipment are once all lines were kept.                  *)
LEMMA StoredAllIs ==
  ASSUME NEW s, s.book.shown \in [HeroCids \cup GearCids -> Nat],
         NEW lines \in Seq(CardLine), NEW u, StoredTo(s, lines, 0, u)
  PROVE  StoredTo(s, lines, Len(lines), StoredAll(u, lines))
<1> DEFINE n == Len(lines)
<1>1. IsSeq(lines) /\ n \in Nat
  BY SeqMembers
<1>2. PICK p : StoredRuns(u, lines, p)
  BY <1>1, StoredWalk
<1>3. /\ p[0] = u /\ \A k \in 1..n : p[k] = Stored(p[k - 1], lines[k])
      /\ p[n] = StoredAll(u, lines)
  BY <1>2 DEF StoredRuns
<1> DEFINE Fits(k) == StoredTo(s, lines, k, p[k])
<1> DEFINE T == {k \in Nat : k <= n => Fits(k)}
<1>4. 0 \in T
  BY <1>3
<1>5. ASSUME NEW k \in Nat, k \in T PROVE k + 1 \in T
  <2>1. SUFFICES ASSUME k + 1 <= n PROVE Fits(k + 1)
    OBVIOUS
  <2>2. k <= n /\ k + 1 \in 1..n /\ (k + 1) - 1 = k
    BY <1>1, <2>1
  <2>3. Fits(k)
    BY <1>5, <2>2
  <2>4. p[k + 1] = Stored(p[k], lines[k + 1])
    BY <1>3, <2>2
  <2>5. StoredTo(s, lines, k + 1, Stored(p[k], lines[k + 1]))
    BY <2>2, <2>3, StoredStep
  <2> QED
    BY <2>4, <2>5
<1> HIDE DEF T, Fits
<1>6. n \in T
  BY <1>1, <1>4, <1>5, NumberInduction
<1>7. Fits(n)
  BY <1>1, <1>6 DEF T
<1> QED
  BY <1>3, <1>7 DEF Fits

-----------------------------------------------------------------------------
(* The cards of a draw, and what each of them pays.                         *)
CardsSteps(b, draw, g) ==
  g = [s \in SUBSET DOMAIN draw |->
         IF s = {} THEN <<>>
         ELSE g[s \ {Max(s)}] \o Pool[b][draw[Max(s)]].items]

CardsRuns(b, draw, V, p) ==
  /\ p \in [0..Len(draw) -> V] /\ p[0] = <<>>
  /\ \A k \in 1..Len(draw) :
       p[k] = p[k - 1] \o Pool[b][draw[k]].items
  /\ p[Len(draw)] = Contents(b, draw)

LEMMA CardsWalk ==
  ASSUME NEW b, NEW draw, IsSeq(draw), NEW V, <<>> \in V,
         \A i \in DOMAIN draw : \A v \in V : (v \o Pool[b][draw[i]].items) \in V
  PROVE  \E p : CardsRuns(b, draw, V, p)
<1> DEFINE n == Len(draw)
<1> DEFINE base == <<>>
<1> DEFINE step == [i \in 1..n |-> [v \in V |->
                      v \o Pool[b][draw[i]].items]]
<1> DEFINE h == CHOOSE g : CardsSteps(b, draw, g)
<1>1. n \in Nat /\ DOMAIN draw = 1..n
  BY SeqFacts
<1>2. base \in V
  OBVIOUS
<1>3. StepsIn(1..n, V, step)
  BY <1>1 DEF StepsIn
<1>4. \A i \in 1..n : \A v \in V :
        step[i][v] = v \o Pool[b][draw[i]].items
  OBVIOUS
<1>5. Contents(b, draw) = h[1..n]
  BY <1>1 DEF Contents, FoldLeft, MapThenFoldSet, CardsSteps
<1> HIDE DEF n, step, base
<1>6. PICK g : LeftSteps(n, V, base, step, g)
  BY <1>1, <1>2, <1>3, LeftFoldExists
<1>7. CardsSteps(b, draw, g)
  <2>1. ASSUME NEW s \in SUBSET (1..n), s # {}
        PROVE  g[s] = g[s \ {Max(s)}] \o Pool[b][draw[Max(s)]].items
    BY <1>4, <1>6, <2>1 DEF LeftSteps
  <2> QED
    BY <1>1, <1>6, <2>1 DEF LeftSteps, CardsSteps, base
<1>8. CardsSteps(b, draw, h)
  BY <1>7
<1> HIDE DEF h
<1>9. LeftUnfolds(n, V, base, step, h)
  BY <1>1, <1>4, <1>8 DEF LeftUnfolds, CardsSteps, base
<1>10. WalksTo(n, V, base, step, h[1..n])
  BY <1>1, <1>2, <1>3, <1>9, LeftFoldWalks
<1>11. PICK p : Walk(n, V, base, step, p) /\ p[n] = h[1..n]
  BY <1>10 DEF WalksTo
<1>12. ASSUME NEW k \in 1..n
       PROVE  p[k] = p[k - 1] \o Pool[b][draw[k]].items
  <2>1. p[k - 1] \in V /\ p[k] = step[k][p[k - 1]]
    BY <1>1, <1>11 DEF Walk
  <2> QED
    BY <1>4, <2>1
<1>13. p \in [0..n -> V] /\ p[0] = base
  BY <1>11 DEF Walk
<1>14. CardsRuns(b, draw, V, p)
  BY <1>5, <1>11, <1>12, <1>13 DEF CardsRuns, n, base
<1> QED
  BY <1>14

(* sinceRare after a draw.                                                  *)
DryAfter(b, bd, x, draw) ==
  FoldLeft(LAMBDA acc, c : IF c \in RareCards(b, bd) THEN 0 ELSE acc + 1, x, draw)

DrySteps(b, bd, x, draw, g) ==
  g = [s \in SUBSET DOMAIN draw |->
         IF s = {} THEN x
         ELSE IF draw[Max(s)] \in RareCards(b, bd) THEN 0 ELSE g[s \ {Max(s)}] + 1]

DryRuns(b, bd, x, draw, V, p) ==
  /\ p \in [0..Len(draw) -> V] /\ p[0] = x
  /\ \A k \in 1..Len(draw) :
       p[k] = IF draw[k] \in RareCards(b, bd) THEN 0 ELSE p[k - 1] + 1
  /\ p[Len(draw)] = DryAfter(b, bd, x, draw)

LEMMA DryWalk ==
  ASSUME NEW b, NEW bd, NEW x, NEW draw, IsSeq(draw), NEW V, x \in V,
         \A i \in DOMAIN draw : \A v \in V : (IF draw[i] \in RareCards(b, bd) THEN 0 ELSE v + 1) \in V
  PROVE  \E p : DryRuns(b, bd, x, draw, V, p)
<1> DEFINE n == Len(draw)
<1> DEFINE base == x
<1> DEFINE step == [i \in 1..n |-> [v \in V |->
                      IF draw[i] \in RareCards(b, bd) THEN 0 ELSE v + 1]]
<1> DEFINE h == CHOOSE g : DrySteps(b, bd, x, draw, g)
<1>1. n \in Nat /\ DOMAIN draw = 1..n
  BY SeqFacts
<1>2. base \in V
  OBVIOUS
<1>3. StepsIn(1..n, V, step)
  BY <1>1 DEF StepsIn
<1>4. \A i \in 1..n : \A v \in V :
        step[i][v] = IF draw[i] \in RareCards(b, bd) THEN 0 ELSE v + 1
  OBVIOUS
<1>5. DryAfter(b, bd, x, draw) = h[1..n]
  BY <1>1 DEF DryAfter, FoldLeft, MapThenFoldSet, DrySteps
<1> HIDE DEF n, step, base
<1>6. PICK g : LeftSteps(n, V, base, step, g)
  BY <1>1, <1>2, <1>3, LeftFoldExists
<1>7. DrySteps(b, bd, x, draw, g)
  <2>1. ASSUME NEW s \in SUBSET (1..n), s # {}
        PROVE  g[s] = IF draw[Max(s)] \in RareCards(b, bd) THEN 0 ELSE g[s \ {Max(s)}] + 1
    BY <1>4, <1>6, <2>1 DEF LeftSteps
  <2> QED
    BY <1>1, <1>6, <2>1 DEF LeftSteps, DrySteps, base
<1>8. DrySteps(b, bd, x, draw, h)
  BY <1>7
<1> HIDE DEF h
<1>9. LeftUnfolds(n, V, base, step, h)
  BY <1>1, <1>4, <1>8 DEF LeftUnfolds, DrySteps, base
<1>10. WalksTo(n, V, base, step, h[1..n])
  BY <1>1, <1>2, <1>3, <1>9, LeftFoldWalks
<1>11. PICK p : Walk(n, V, base, step, p) /\ p[n] = h[1..n]
  BY <1>10 DEF WalksTo
<1>12. ASSUME NEW k \in 1..n
       PROVE  p[k] = IF draw[k] \in RareCards(b, bd) THEN 0 ELSE p[k - 1] + 1
  <2>1. p[k - 1] \in V /\ p[k] = step[k][p[k - 1]]
    BY <1>1, <1>11 DEF Walk
  <2> QED
    BY <1>4, <2>1
<1>13. p \in [0..n -> V] /\ p[0] = base
  BY <1>11 DEF Walk
<1>14. DryRuns(b, bd, x, draw, V, p)
  BY <1>5, <1>11, <1>12, <1>13 DEF DryRuns, n, base
<1> QED
  BY <1>14

(* What the book makes of one card.                                         *)
StreakOn(b, bd, acc, c) ==
  IF c \in RareCards(b, bd) THEN [acc EXCEPT !.plain = 0]
  ELSE [plain |-> acc.plain + 1,
        missed |-> acc.missed +
          IF /\ RareEvery[b] > 0 /\ RareCards(b, bd) # {}
             /\ acc.plain + 1 >= RareEvery[b] THEN 1 ELSE 0]

(* And of a draw.                                                           *)
StreakSteps(b, bd, x, draw, g) ==
  g = [s \in SUBSET DOMAIN draw |->
         IF s = {} THEN [plain |-> x, missed |-> 0]
         ELSE StreakOn(b, bd, g[s \ {Max(s)}], draw[Max(s)])]

StreakRuns(b, bd, x, draw, V, p) ==
  /\ p \in [0..Len(draw) -> V] /\ p[0] = [plain |-> x, missed |-> 0]
  /\ \A k \in 1..Len(draw) :
       p[k] = StreakOn(b, bd, p[k - 1], draw[k])
  /\ p[Len(draw)] = Streak(b, bd, x, draw)

LEMMA StreakWalk ==
  ASSUME NEW b, NEW bd, NEW x, NEW draw, IsSeq(draw), NEW V, [plain |-> x, missed |-> 0] \in V,
         \A i \in DOMAIN draw : \A v \in V : (StreakOn(b, bd, v, draw[i])) \in V
  PROVE  \E p : StreakRuns(b, bd, x, draw, V, p)
<1> DEFINE n == Len(draw)
<1> DEFINE base == [plain |-> x, missed |-> 0]
<1> DEFINE step == [i \in 1..n |-> [v \in V |->
                      StreakOn(b, bd, v, draw[i])]]
<1> DEFINE h == CHOOSE g : StreakSteps(b, bd, x, draw, g)
<1>1. n \in Nat /\ DOMAIN draw = 1..n
  BY SeqFacts
<1>2. base \in V
  OBVIOUS
<1>3. StepsIn(1..n, V, step)
  BY <1>1 DEF StepsIn
<1>4. \A i \in 1..n : \A v \in V :
        step[i][v] = StreakOn(b, bd, v, draw[i])
  OBVIOUS
<1>5. Streak(b, bd, x, draw) = h[1..n]
  BY <1>1 DEF Streak, StreakOn, FoldLeft, MapThenFoldSet, StreakSteps
<1> HIDE DEF n, step, base
<1>6. PICK g : LeftSteps(n, V, base, step, g)
  BY <1>1, <1>2, <1>3, LeftFoldExists
<1>7. StreakSteps(b, bd, x, draw, g)
  <2>1. ASSUME NEW s \in SUBSET (1..n), s # {}
        PROVE  g[s] = StreakOn(b, bd, g[s \ {Max(s)}], draw[Max(s)])
    BY <1>4, <1>6, <2>1 DEF LeftSteps
  <2> QED
    BY <1>1, <1>6, <2>1 DEF LeftSteps, StreakSteps, base
<1>8. StreakSteps(b, bd, x, draw, h)
  BY <1>7
<1> HIDE DEF h
<1>9. LeftUnfolds(n, V, base, step, h)
  BY <1>1, <1>4, <1>8 DEF LeftUnfolds, StreakSteps, base
<1>10. WalksTo(n, V, base, step, h[1..n])
  BY <1>1, <1>2, <1>3, <1>9, LeftFoldWalks
<1>11. PICK p : Walk(n, V, base, step, p) /\ p[n] = h[1..n]
  BY <1>10 DEF WalksTo
<1>12. ASSUME NEW k \in 1..n
       PROVE  p[k] = StreakOn(b, bd, p[k - 1], draw[k])
  <2>1. p[k - 1] \in V /\ p[k] = step[k][p[k - 1]]
    BY <1>1, <1>11 DEF Walk
  <2> QED
    BY <1>4, <2>1
<1>13. p \in [0..n -> V] /\ p[0] = base
  BY <1>11 DEF Walk
<1>14. StreakRuns(b, bd, x, draw, V, p)
  BY <1>5, <1>11, <1>12, <1>13 DEF StreakRuns, n, base
<1> QED
  BY <1>14

LEMMA ContentsIs ==
  ASSUME NEW b \in Banners, NEW draw, IsSeq(draw), \A i \in DOMAIN draw : draw[i] \in DOMAIN Pool[b]
  PROVE  Contents(b, draw) \in Seq(CardLine)
<1> DEFINE V == Seq(CardLine)
<1>1. ASSUME NEW c \in DOMAIN Pool[b] PROVE Pool[b][c].items \in V
  <2> DEFINE q == Pool[b][c].items
  <2> DEFINE L == [id : Everything, num : Nat]
  <2>1. q \in Lines(Everything)
    BY BannersAssumption DEF Everything
  <2>2. q \in Seq(L)
    BY <2>1 DEF Lines
  <2>3. \A line \in Range(q) :
          line.num > 0 /\ (line.id \in DOMAIN GridMax /\ GridMax[line.id] > 0 =>
                             line.num <= GridMax[line.id])
    BY BannersAssumption
  <2> HIDE DEF q, L
  <2>4. /\ DOMAIN q = 1..Len(q) /\ Len(q) \in Nat /\ q = [i \in 1..Len(q) |-> q[i]]
        /\ \A i \in DOMAIN q : q[i] \in L
    BY <2>2, SeqMembers
  <2>5. \A i \in DOMAIN q : q[i] \in Range(q)
    BY DEF Range
  <2>6. \A i \in DOMAIN q : q[i] \in CardLine
    <3>1. \A i \in DOMAIN q : q[i] \in [id : Everything, num : Nat]
      BY <2>4 DEF L
    <3> QED
      BY <2>3, <2>5, <3>1 DEF CardLine
  <2>7. \A i \in 1..Len(q) : q[i] \in CardLine
    BY <2>4, <2>6
  <2>8. q \in Seq(CardLine)
    BY <2>4, <2>7, SeqFrom
  <2> QED
    BY <2>8 DEF q
<1>2. <<>> \in V /\ \A q, r \in V : q \o r \in V
  BY SeqGrows
<1> HIDE DEF V
<1>3. \A i \in DOMAIN draw : \A v \in V : (v \o Pool[b][draw[i]].items) \in V
  BY <1>1, <1>2
<1>4. PICK p : CardsRuns(b, draw, V, p)
  BY <1>2, <1>3, CardsWalk
<1>5. Len(draw) \in 0..Len(draw)
  BY SeqFacts
<1> QED
  BY <1>4, <1>5 DEF CardsRuns, V

LEMMA CardLines ==
  ASSUME NEW lines \in Seq(CardLine)
  PROVE  lines \in Lines(Everything)
<1>1. /\ Len(lines) \in Nat /\ DOMAIN lines = 1..Len(lines)
      /\ lines = [i \in 1..Len(lines) |-> lines[i]] /\ \A i \in DOMAIN lines : lines[i] \in CardLine
  BY SeqMembers
<1> DEFINE L == [id : Everything, num : Nat]
<1>2. \A i \in DOMAIN lines : lines[i] \in L
  BY <1>1 DEF CardLine
<1> HIDE DEF L
<1>3. \A i \in 1..Len(lines) : lines[i] \in L
  BY <1>1, <1>2
<1>4. lines \in Seq(L)
  BY <1>1, <1>3, SeqFrom
<1> QED
  BY <1>4 DEF Lines, L

-----------------------------------------------------------------------------
(* The guarantee counts the cards one by one.                               *)
Drier(b, k, draw, p) ==
  \A n \in 1..Len(draw) :
    p[n] = IF draw[n] \in RareCards(b, k) THEN 0 ELSE p[n - 1] + 1

LEMMA DryIs ==
  ASSUME NEW b, NEW k, NEW x \in Nat, NEW draw, IsSeq(draw)
  PROVE  \E p : /\ p \in [0..Len(draw) -> Nat] /\ p[0] = x /\ Drier(b, k, draw, p)
                /\ p[Len(draw)] = DryAfter(b, k, x, draw)
<1>1. \A i \in DOMAIN draw : \A v \in Nat :
        (IF draw[i] \in RareCards(b, k) THEN 0 ELSE v + 1) \in Nat
  OBVIOUS
<1>2. PICK p : DryRuns(b, k, x, draw, Nat, p)
  BY <1>1, DryWalk
<1> QED
  BY <1>2 DEF DryRuns, Drier

LEMMA SinceIs ==
  ASSUME NEW b, NEW k, NEW x \in Nat, NEW draw, IsSeq(draw)
  PROVE  \E p : /\ p \in [0..Len(draw) -> Nat] /\ p[0] = x /\ Drier(b, k, draw, p)
                /\ \A n \in 0..Len(draw) : Since(b, k, x, draw, n) = p[n]
<1>1. Len(draw) \in Nat /\ DOMAIN draw = 1..Len(draw)
  BY SeqFacts
<1>2. PICK p : p \in [0..Len(draw) -> Nat] /\ p[0] = x /\ Drier(b, k, draw, p)
  BY DryIs
<1>3. ASSUME NEW n \in 0..Len(draw)
      PROVE  Since(b, k, x, draw, n) = p[n]
  <2> DEFINE r == SubSeq(draw, 1, n)
  <2>1. Since(b, k, x, draw, n) = DryAfter(b, k, x, r)
    BY DEF Since, DryAfter
  <2>2. IsSeq(r) /\ Len(r) = n /\ \A i \in 1..n : r[i] = draw[i]
    <3>1. 1 \in Nat /\ n \in Nat /\ 1 >= 1 /\ n <= Len(draw)
      BY <1>1
    <3>2. /\ IsSeq(r) /\ Len(r) = IF 1 <= n THEN n - 1 + 1 ELSE 0
          /\ \A i \in 1..Len(r) : r[i] = draw[1 + i - 1]
      BY <3>1, SliceIs
    <3>3. Len(r) = n
      BY <3>1, <3>2
    <3>4. \A i \in 1..n : 1 + i - 1 = i
      BY <3>1
    <3> HIDE DEF r
    <3> QED
      BY <3>2, <3>3, <3>4
  <2> HIDE DEF r
  <2>3. PICK q : /\ q \in [0..Len(r) -> Nat] /\ q[0] = x /\ Drier(b, k, r, q)
                 /\ q[Len(r)] = DryAfter(b, k, x, r)
    BY <2>2, DryIs
  <2> DEFINE T == {j \in Nat : j <= n => q[j] = p[j]}
  <2>4. 0 \in T
    BY <1>2, <2>3
  <2>5. ASSUME NEW j \in Nat, j \in T PROVE j + 1 \in T
    <3>1. SUFFICES ASSUME j + 1 <= n PROVE q[j + 1] = p[j + 1]
      OBVIOUS
    <3>2. j <= n /\ j + 1 \in 1..n /\ j + 1 \in 1..Len(draw) /\ (j + 1) - 1 = j
      BY <1>1, <3>1
    <3>3. q[j] = p[j]
      BY <2>5, <3>2
    <3>4. q[j + 1] = IF r[j + 1] \in RareCards(b, k) THEN 0 ELSE q[j] + 1
      BY <2>2, <2>3, <3>2 DEF Drier
    <3>5. p[j + 1] = IF draw[j + 1] \in RareCards(b, k) THEN 0 ELSE p[j] + 1
      BY <1>2, <3>2 DEF Drier
    <3> QED
      BY <2>2, <3>2, <3>3, <3>4, <3>5
  <2> HIDE DEF T
  <2>6. n \in T
    BY <2>4, <2>5, NumberInduction
  <2>7. q[n] = p[n]
    BY <1>1, <2>6 DEF T
  <2> QED
    BY <2>1, <2>2, <2>3, <2>7
<1> QED
  BY <1>2, <1>3

LEMMA DrawIs ==
  ASSUME NEW b \in Banners, NEW k, NEW x, NEW draw \in Draws(b, k, x)
  PROVE  /\ IsSeq(draw) /\ Len(draw) \in Nat /\ DOMAIN draw = 1..Len(draw)
         /\ \A i \in DOMAIN draw : draw[i] \in DOMAIN Pool[b]
         /\ \A n \in 1..Len(draw) :
              /\ RareEvery[b] > 0 /\ RareCards(b, k) # {}
              /\ Since(b, k, x, draw, n - 1) + 1 >= RareEvery[b]
              => draw[n] \in RareCards(b, k)
<1> DEFINE m == CardCount[b]
<1>1. draw \in [1..m -> DOMAIN Pool[b]] /\ m \in Nat
  BY BannersAssumption DEF Draws
<1>2. \A cards : Rollable(b, k, cards) \subseteq cards
  BY DEF Rollable
<1>3. \A n \in DOMAIN draw :
        /\ RareEvery[b] > 0 /\ RareCards(b, k) # {}
        /\ Since(b, k, x, draw, n - 1) + 1 >= RareEvery[b]
        => draw[n] \in Rollable(b, k, RareCards(b, k))
  BY DEF Draws
<1> HIDE DEF m
<1>4. draw = [i \in 1..m |-> draw[i]] /\ \A i \in 1..m : draw[i] \in DOMAIN Pool[b]
  BY <1>1
<1>5. IsSeq(draw) /\ Len(draw) = m
  BY <1>1, <1>4, FunctionIsSeq
<1>6. DOMAIN draw = 1..m
  BY <1>1
<1> QED
  BY <1>1, <1>2, <1>3, <1>4, <1>5, <1>6

(* The book's own count agrees with sinceRare, and no guarantee is missed.  *)
LEMMA StreakIs ==
  ASSUME NEW b \in Banners, NEW k, NEW x \in Nat, NEW draw \in Draws(b, k, x)
  PROVE  /\ Since(b, k, x, draw, Len(draw)) \in Nat
         /\ Streak(b, k, x, draw) = [plain |-> Since(b, k, x, draw, Len(draw)), missed |-> 0]
<1> DEFINE n == Len(draw)
<1> DEFINE V == [plain : Nat, missed : Nat]
<1>1. /\ IsSeq(draw) /\ n \in Nat /\ DOMAIN draw = 1..n
      /\ \A i \in 1..n :
           /\ RareEvery[b] > 0 /\ RareCards(b, k) # {}
           /\ Since(b, k, x, draw, i - 1) + 1 >= RareEvery[b]
           => draw[i] \in RareCards(b, k)
  BY DrawIs
<1>2. PICK p : /\ p \in [0..n -> Nat] /\ p[0] = x /\ Drier(b, k, draw, p)
               /\ \A i \in 0..n : Since(b, k, x, draw, i) = p[i]
  BY <1>1, SinceIs
<1>3. [plain |-> x, missed |-> 0] \in V
  OBVIOUS
<1>4. \A i \in DOMAIN draw : \A v \in V : StreakOn(b, k, v, draw[i]) \in V
  BY DEF StreakOn
<1> HIDE DEF V
<1>5. PICK q : StreakRuns(b, k, x, draw, V, q)
  BY <1>1, <1>3, <1>4, StreakWalk
<1>6. /\ q[0] = [plain |-> x, missed |-> 0] /\ q[n] = Streak(b, k, x, draw)
      /\ \A i \in 1..n : q[i] = StreakOn(b, k, q[i - 1], draw[i])
  BY <1>5 DEF StreakRuns
<1> HIDE DEF n
<1> DEFINE Fits(j) == q[j] = [plain |-> p[j], missed |-> 0]
<1> DEFINE T == {j \in Nat : j <= n => Fits(j)}
<1>7. 0 \in T
  BY <1>2, <1>6
<1>8. ASSUME NEW j \in Nat, j \in T PROVE j + 1 \in T
  <2>1. SUFFICES ASSUME j + 1 <= n PROVE Fits(j + 1)
    OBVIOUS
  <2>2. j <= n /\ j \in 0..n /\ j + 1 \in 1..n /\ (j + 1) - 1 = j
    BY <1>1, <2>1
  <2>3. q[j] = [plain |-> p[j], missed |-> 0]
    BY <1>8, <2>2
  <2>4. q[j + 1] = StreakOn(b, k, q[j], draw[j + 1])
    BY <1>6, <2>2
  <2>5. p[j + 1] = IF draw[j + 1] \in RareCards(b, k) THEN 0 ELSE p[j] + 1
    BY <1>2, <2>2 DEF Drier, n
  <2>6. Since(b, k, x, draw, j) = p[j]
    BY <1>2, <2>2
  <2>7. /\ RareEvery[b] > 0 /\ RareCards(b, k) # {} /\ p[j] + 1 >= RareEvery[b]
        => draw[j + 1] \in RareCards(b, k)
    BY <1>1, <2>2, <2>6
  <2>8. CASE draw[j + 1] \in RareCards(b, k)
    BY <2>3, <2>4, <2>5, <2>8 DEF StreakOn
  <2>9. CASE draw[j + 1] \notin RareCards(b, k)
    BY <2>3, <2>4, <2>5, <2>7, <2>9 DEF StreakOn
  <2> QED
    BY <2>8, <2>9
<1> HIDE DEF T, Fits
<1>9. n \in T
  BY <1>1, <1>7, <1>8, NumberInduction
<1>10. q[n] = [plain |-> p[n], missed |-> 0]
  BY <1>1, <1>9 DEF T, Fits
<1>11. n \in 0..n
  BY <1>1
<1> QED
  BY <1>2, <1>6, <1>10, <1>11 DEF n

-----------------------------------------------------------------------------
(* A pull: paid, kept, marked on the banner and written in the book.        *)
PullPut(s, b, k, draw, kept, lines, t) ==
  t = [[[kept EXCEPT !.bag = Granted(@, ForBag(lines))] EXCEPT
          !.banners[b] = [pulled |-> TRUE,
                          since |-> Since(b, k, s.banners[b].since, draw, Len(draw))]]
        EXCEPT !.book = BookedPull(@, s, b, k, draw)]

Marked(s, b, k, draw, banners) ==
  banners = [s.banners EXCEPT ![b] =
               [pulled |-> TRUE, since |-> Since(b, k, s.banners[b].since, draw, Len(draw))]]

PullBook(s, b, k, draw, price, lines, book) ==
  /\ book = [f \in BookFields |-> book[f]]
  /\ book.net = Booked(s.book.net, price, lines) /\ book.fed = s.book.fed
  /\ book.shown = [c \in DOMAIN s.book.shown |-> s.book.shown[c] +
                     IF c \in GearCids THEN Worth(lines, c)
                     ELSE IF c \in ShownHeroes(s, lines) THEN 1 ELSE 0]
  /\ book.starters = [s.book.starters EXCEPT ![b] = @ +
                        IF FirstCosts[b] # <<>> /\ price = Band(FirstCosts[b], k) THEN 1 ELSE 0]
  /\ book.plain = [s.book.plain EXCEPT ![b] = Streak(b, k, s.book.plain[b], draw).plain]
  /\ book.missed = [s.book.missed EXCEPT ![b] = @ + Streak(b, k, s.book.plain[b], draw).missed]

LEMMA PullBookIs ==
  ASSUME NEW s, Fields(s), NEW b, NEW k, NEW draw
  PROVE  PullBook(s, b, k, draw, PriceOf(s, b, k), Contents(b, draw),
                  BookedPull(s.book, s, b, k, draw))
BY DEF Fields, PullBook, BookedPull, BookFields

LEMMA PullPutIs ==
  ASSUME NEW s, Fields(s), NEW b, NEW k, NEW draw, NEW lines,
         NEW u, Changed(s, u, {"bag"}, {}),
         NEW kept, Changed(u, kept, {"heroes", "gear"}, {}),
         NEW t, PullPut(s, b, k, draw, kept, lines, t),
         NEW price, PullBook(s, b, k, draw, price, lines, BookedPull(s.book, s, b, k, draw))
  PROVE  /\ Fields(t) /\ t.book = BookedPull(s.book, s, b, k, draw)
         /\ t.bag = Granted(u.bag, ForBag(lines))
         /\ t.heroes = kept.heroes /\ t.gear = kept.gear /\ t.lvl = s.lvl
         /\ t.teams = s.teams /\ t.backups = s.backups
         /\ Marked(s, b, k, draw, t.banners)
<1> DEFINE book == BookedPull(s.book, s, b, k, draw)
<1> DEFINE row == [pulled |-> TRUE, since |-> Since(b, k, s.banners[b].since, draw, Len(draw))]
<1>1. Fields(u) /\ Fields(kept)
  BY DEF Changed
<1>2. /\ kept.bag = u.bag /\ kept.lvl = s.lvl /\ kept.teams = s.teams
      /\ kept.backups = s.backups /\ kept.banners = s.banners
  BY DEF Changed, SaveFields
<1>3. kept.book = s.book
  <2>1. u.book = s.book
    BY <1>1 DEF Fields, Changed, BookFields
  <2>2. kept.book = u.book
    BY <1>1 DEF Fields, Changed, BookFields
  <2> QED
    BY <2>1, <2>2
<1>4. t = [[[kept EXCEPT !.bag = Granted(@, ForBag(lines))] EXCEPT !.banners[b] = row]
            EXCEPT !.book = book]
  <2>1. t = [[[kept EXCEPT !.bag = Granted(@, ForBag(lines))] EXCEPT !.banners[b] = row]
              EXCEPT !.book = BookedPull(@, s, b, k, draw)]
    BY DEF PullPut
  <2>2. [[kept EXCEPT !.bag = Granted(@, ForBag(lines))] EXCEPT !.banners[b] = row].book = s.book
    BY <1>1, <1>3 DEF Fields, SaveFields
  <2> HIDE DEF row
  <2> QED
    BY <1>1, <2>1, <2>2 DEF Fields, SaveFields
<1>5. DOMAIN book = BookFields /\ book = [f \in BookFields |-> book[f]]
  BY DEF PullBook
<1> HIDE DEF book, row
<1>6. /\ DOMAIN t = SaveFields /\ t = [f \in SaveFields |-> t[f]]
      /\ t.book = book /\ t.bag = Granted(kept.bag, ForBag(lines))
      /\ t.heroes = kept.heroes /\ t.gear = kept.gear /\ t.lvl = kept.lvl
      /\ t.teams = kept.teams /\ t.backups = kept.backups
      /\ t.banners = [kept.banners EXCEPT ![b] = row]
  BY <1>1, <1>4 DEF Fields, SaveFields
<1>7. Fields(t)
  BY <1>5, <1>6 DEF Fields
<1> QED
  BY <1>2, <1>6, <1>7 DEF Marked, book, row

LEMMA PulledItems ==
  ASSUME NEW s, Held(s), NEW price \in Lines(Cids), CanConsumeCids(s.bag, price),
         NEW lines \in Lines(Everything)
  PROVE  ItemsOf(Granted(ConsumedCids(s.bag, price), ForBag(lines)),
                 Booked(s.book.net, price, lines))
<1>1. ItemsOf(s.bag, s.book.net)
  BY DEF Held, ItemsGood
<1>2. ItemsOf(ConsumedCids(s.bag, price), Booked(s.book.net, price, <<>>))
  BY <1>1, ConsumedItems
<1>3. s.book.net \in [Cids -> Int]
  <2>1. \A c \in Cids : Total(s.bag, c) \in Int
    BY <1>1, BagFacts DEF ItemsOf, BagGood
  <2> QED
    BY <1>1, <2>1 DEF ItemsOf
<1> QED
  BY <1>2, <1>3, GrantedItems

LEMMA PulledShown ==
  ASSUME NEW s, Held(s), NEW lines, IsLines(lines), NEW u, u.book = s.book, u.heroes = s.heroes,
         NEW kept, StoredTo(u, lines, Len(lines), kept),
         NEW t, t.heroes = kept.heroes, t.gear = kept.gear,
         t.book.shown = [c \in DOMAIN s.book.shown |-> s.book.shown[c] +
                           IF c \in GearCids THEN Worth(lines, c)
                           ELSE IF c \in ShownHeroes(s, lines) THEN 1 ELSE 0]
  PROVE  ShownGood(t)
<1> DEFINE old == s.book.shown
<1> DEFINE new == t.book.shown
<1>1. /\ old \in [HeroCids \cup GearCids -> Nat]
      /\ \A c \in HeroCids : old[c] = IF Owns(s, c) THEN 1 ELSE 0
  BY DEF Held, ShownGood
<1>2. HeroCids \cap GearCids = {}
  BY TablesAssumption
<1>3. \A c : /\ Worth(lines, c) \in Nat /\ Upto(lines, Len(lines), c) = Worth(lines, c)
  BY LinesFacts, UptoIs
<1>4. Len(lines) \in Nat /\ DOMAIN lines = 1..Len(lines)
  BY SeqFacts DEF IsLines
<1>5. /\ \A c : Owns(u, c) <=> Owns(s, c)
      /\ \A c : Owns(t, c) <=> Owns(kept, c)
  BY DEF Owns
<1>6. \A c \in HeroCids : Owns(t, c) <=> Owns(s, c) \/ c \in ShownHeroes(s, lines)
  BY <1>4, <1>5 DEF StoredTo, ShownHeroes
<1>7. \A c \in HeroCids \cup GearCids :
        new[c] = old[c] + IF c \in GearCids THEN Worth(lines, c)
                          ELSE IF c \in ShownHeroes(s, lines) THEN 1 ELSE 0
  BY <1>1
<1>8. new \in [HeroCids \cup GearCids -> Nat]
  BY <1>1, <1>3
<1>9. \A c \in HeroCids : c \in ShownHeroes(s, lines) => ~Owns(s, c)
  BY DEF ShownHeroes
<1>10. u.book.shown = old
  OBVIOUS
<1>11. \A c \in GearCids : Total(t.gear, c) = Room(c, old[c] + Worth(lines, c))
  BY <1>3, <1>10 DEF StoredTo
<1> HIDE DEF new, old
<1>12. \A c \in HeroCids : new[c] = IF Owns(t, c) THEN 1 ELSE 0
  BY <1>1, <1>2, <1>6, <1>7, <1>9
<1>13. \A c \in GearCids : Total(t.gear, c) = Room(c, new[c])
  BY <1>7, <1>11
<1> QED
  BY <1>8, <1>12, <1>13 DEF ShownGood, new

LEMMA PulledBanners ==
  ASSUME NEW s, Held(s), NEW b \in Banners, NEW k, NEW draw \in Draws(b, k, s.banners[b].since),
         NEW price, NEW lines, FirstCosts[b] # <<>> /\ price = Band(FirstCosts[b], k) =>
                      ~s.banners[b].pulled,
         NEW t, PullBook(s, b, k, draw, price, lines, t.book),
         Marked(s, b, k, draw, t.banners)
  PROVE  BannersGood(t)
<1> DEFINE x == s.banners[b].since
<1> DEFINE y == Since(b, k, x, draw, Len(draw))
<1> DEFINE paid == IF FirstCosts[b] # <<>> /\ price = Band(FirstCosts[b], k) THEN 1 ELSE 0
<1>1. /\ s.banners \in [Banners -> Banner] /\ s.book.starters \in [Banners -> 0..1]
      /\ s.book.plain \in [Banners -> Nat] /\ s.book.missed \in [Banners -> {0}]
      /\ \A c \in Banners : /\ s.banners[c].since = s.book.plain[c]
                            /\ s.book.starters[c] = 1 => s.banners[c].pulled
  BY DEF Held, BannersGood
<1>2. x \in Nat /\ s.book.plain[b] = x
  BY <1>1 DEF Banner
<1> HIDE DEF x
<1>3. y \in Nat /\ Streak(b, k, x, draw) = [plain |-> y, missed |-> 0]
  BY <1>2, StreakIs DEF x
<1>4. /\ t.book.starters = [s.book.starters EXCEPT ![b] = @ + paid]
      /\ t.book.plain = [s.book.plain EXCEPT ![b] = y]
      /\ t.book.missed = [s.book.missed EXCEPT ![b] = @ + 0]
  BY <1>2, <1>3 DEF PullBook
<1>5. t.banners = [s.banners EXCEPT ![b] = [pulled |-> TRUE, since |-> y]]
  BY DEF Marked, x
<1>6. paid \in 0..1 /\ (paid = 1 => s.book.starters[b] = 0)
  BY <1>1
<1> HIDE DEF y, paid
<1>7. t.banners \in [Banners -> Banner]
  BY <1>1, <1>3, <1>5 DEF Banner
<1>8. t.book.starters \in [Banners -> 0..1]
  BY <1>1, <1>4, <1>6
<1>9. t.book.plain \in [Banners -> Nat] /\ t.book.missed \in [Banners -> {0}]
  BY <1>1, <1>3, <1>4
<1>10. ASSUME NEW c \in Banners
       PROVE  /\ t.banners[c].since = t.book.plain[c]
              /\ t.book.starters[c] = 1 => t.banners[c].pulled
  BY <1>1, <1>4, <1>5
<1> QED
  BY <1>7, <1>8, <1>9, <1>10 DEF BannersGood

LEMMA PullHeld ==
  ASSUME HeldInv, NEW b \in Banners, NEW k \in 1..2, Pull(b, k)
  PROVE  HeldInv'
<1> DEFINE price == PriceOf(mem, b, k)
<1>1. PICK draw \in Draws(b, k, mem.banners[b].since) :
        Answer([Pulled(mem, b, k, draw) EXCEPT !.book = BookedPull(@, mem, b, k, draw)], TRUE)
  BY DEF Pull
<1> DEFINE lines == Contents(b, draw)
<1> DEFINE u == Paid(mem, price)
<1> DEFINE kept == StoredAll(u, lines)
<1> DEFINE new == [Pulled(mem, b, k, draw) EXCEPT !.book = BookedPull(@, mem, b, k, draw)]
<1>2. /\ Held(mem) /\ Fields(mem) /\ RosterGood(mem) /\ FedGood(mem) /\ GearOK(mem.gear)
      /\ ShownGood(mem)
  BY DEF HeldInv, Held
<1>3. /\ price \in Lines(Cids) /\ CanConsumeCids(mem.bag, price)
      /\ FirstCosts[b] # <<>> /\ price = Band(FirstCosts[b], k) => ~mem.banners[b].pulled
  BY PriceOfIs DEF Pull
<1>4. lines \in Seq(CardLine)
  BY DrawIs, ContentsIs
<1>5. lines \in Lines(Everything)
  BY <1>4, CardLines
<1>6. IsLines(lines)
  BY <1>5, LinesTyped
<1>7. PullPut(mem, b, k, draw, kept, lines, new)
  BY DEF PullPut, Pulled, Kept
<1>8. PullBook(mem, b, k, draw, price, lines, BookedPull(mem.book, mem, b, k, draw))
  BY <1>2, PullBookIs
<1> HIDE DEF new, kept, lines, price
<1>9. Changed(mem, u, {"bag"}, {}) /\ u.bag = ConsumedCids(mem.bag, price)
  BY <1>2, PaidIs
<1> HIDE DEF u
<1>10. Fields(u) /\ u.heroes = mem.heroes /\ u.gear = mem.gear /\ u.lvl = mem.lvl /\ u.book = mem.book
  <2>1. u.book = mem.book
    BY <1>2, <1>9 DEF Fields, Changed, BookFields
  <2> QED
    BY <1>9, <2>1, ChangedKeeps
<1>11. StoredTo(u, lines, 0, u)
  <2>1. Changed(u, u, {"heroes", "gear"}, {}) /\ RosterGood(u) /\ GearOK(u.gear)
    BY <1>2, <1>10 DEF Changed, RosterGood
  <2>2. FedGood(u)
    BY <1>2, <1>10, RowsMove
  <2>3. \A c \in HeroCids : Owns(u, c) <=> Owns(u, c) \/ \E j \in 1..0 : lines[j].id = c
    OBVIOUS
  <2>4. ASSUME NEW c \in GearCids
        PROVE  Total(u.gear, c) = Room(c, u.book.shown[c] + Upto(lines, 0, c))
    <3>1. Upto(lines, 0, c) = 0
      BY <1>6, UptoIs
    <3>2. mem.book.shown[c] \in Nat /\ Total(mem.gear, c) = Room(c, mem.book.shown[c])
      BY <1>2 DEF ShownGood
    <3>3. mem.book.shown[c] + 0 = mem.book.shown[c]
      BY <3>2
    <3> QED
      BY <1>10, <3>1, <3>2, <3>3
  <2> QED
    BY <2>1, <2>2, <2>3, <2>4 DEF StoredTo
<1>12. StoredTo(u, lines, Len(lines), kept)
  <2>1. u.book.shown \in [HeroCids \cup GearCids -> Nat]
    BY <1>2, <1>10 DEF ShownGood
  <2> QED
    BY <1>4, <1>11, <2>1, StoredAllIs DEF kept
<1>13. /\ Changed(u, kept, {"heroes", "gear"}, {}) /\ RosterGood(kept) /\ FedGood(kept)
       /\ GearOK(kept.gear) /\ Sids(u) \subseteq Sids(kept)
  BY <1>12 DEF StoredTo
<1>14. /\ Fields(new) /\ new.book = BookedPull(mem.book, mem, b, k, draw)
       /\ new.bag = Granted(u.bag, ForBag(lines))
       /\ new.heroes = kept.heroes /\ new.gear = kept.gear /\ new.lvl = mem.lvl
       /\ new.teams = mem.teams /\ new.backups = mem.backups
       /\ Marked(mem, b, k, draw, new.banners)
  BY <1>2, <1>7, <1>8, <1>9, <1>13, PullPutIs
<1>15. PullBook(mem, b, k, draw, price, lines, new.book)
  BY <1>8, <1>14
<1>16. ItemsGood(new)
  <2>1. new.book.net = Booked(mem.book.net, price, lines)
    BY <1>15 DEF PullBook
  <2>2. ItemsOf(Granted(ConsumedCids(mem.bag, price), ForBag(lines)),
                Booked(mem.book.net, price, lines))
    BY <1>2, <1>3, <1>5, PulledItems
  <2> QED
    BY <1>9, <1>14, <2>1, <2>2 DEF ItemsGood
<1>17. kept.lvl = u.lvl /\ kept.book.fed = u.book.fed
  BY <1>13 DEF Changed, SaveFields, BookFields
<1>18. RosterGood(new)
  BY <1>10, <1>13, <1>14, <1>17 DEF RosterGood
<1>19. FedGood(new)
  <2>1. new.book.fed = kept.book.fed
    BY <1>10, <1>15, <1>17 DEF PullBook
  <2> QED
    BY <1>13, <1>14, <2>1, RowsMove
<1>20. ShownGood(new)
  <2>1. new.book.shown = [c \in DOMAIN mem.book.shown |-> mem.book.shown[c] +
                           IF c \in GearCids THEN Worth(lines, c)
                           ELSE IF c \in ShownHeroes(mem, lines) THEN 1 ELSE 0]
    BY <1>15 DEF PullBook
  <2> QED
    BY <1>2, <1>6, <1>10, <1>12, <1>14, <2>1, PulledShown
<1>21. SameTeams(mem, new)
  <2>1. Sids(mem) = Sids(u) /\ Sids(new) = Sids(kept)
    BY <1>10, <1>14 DEF Sids
  <2> QED
    BY <1>13, <1>14, <2>1 DEF SameTeams
<1>22. BannersGood(new)
  BY <1>2, <1>3, <1>14, <1>15, PulledBanners
<1>23. Held(new)
  BY <1>2, <1>13, <1>14, <1>16, <1>18, <1>19, <1>20, <1>21, <1>22, HeldFrom
<1>24. Answer(new, TRUE)
  BY <1>1 DEF new
<1> QED
  BY <1>23, <1>24, AnswerHeld

-----------------------------------------------------------------------------
(* What a player comes with.                                                *)
LEMMA ExpOfIs ==
  ASSUME NEW h, HeroRowOK(h)
  PROVE  ExpOf(h) \in Int
<1>1. h.lvl \in 1..MaxLevel /\ h.exp \in Nat /\ MaxLevel \in Nat
  BY RowFacts, TablesAssumption
<1>2. 1 \in 1..MaxLevel /\ h.lvl \in 1..MaxLevel
  BY <1>1
<1> DEFINE n == h.lvl
<1>3. n \in 1..MaxLevel /\ n \in n..MaxLevel
  BY <1>1
<1> HIDE DEF n
<1>4. ExpUpTo(1, n) \in Nat
  BY <1>3, ExpUpToIs
<1> QED
  BY <1>1, <1>4 DEF ExpOf, n

LEMMA OpeningFed ==
  ASSUME NEW s, RosterGood(s), NEW c \in HeroCids
  PROVE  LET x == SumFunction([i \in Rows(s.heroes, c) |-> ExpOf(s.heroes[i])]) IN
         /\ x \in Int /\ (~Owns(s, c) => x = 0)
         /\ \A i \in DOMAIN s.heroes : s.heroes[i].cid = c => x = ExpOf(s.heroes[i])
<1> DEFINE R == Rows(s.heroes, c)
<1> DEFINE f == [i \in R |-> ExpOf(s.heroes[i])]
<1>1. SumFunction(f) = SumFunctionOnSet(f, R)
  <2>1. DOMAIN f = R
    OBVIOUS
  <2> HIDE DEF f
  <2> QED
    BY <2>1 DEF SumFunction
<1> DEFINE x == SumFunctionOnSet(f, R)
<1> DEFINE Good == /\ x \in Int /\ (~Owns(s, c) => x = 0)
                   /\ \A i \in DOMAIN s.heroes : s.heroes[i].cid = c => x = ExpOf(s.heroes[i])
<1>2. ASSUME R = {} PROVE Good
  <2>1. x = 0
    BY <1>2, SumEmpty
  <2>2. ~Owns(s, c) /\ \A i \in DOMAIN s.heroes : s.heroes[i].cid # c
    BY <1>2 DEF Rows, Owns
  <2> HIDE DEF x
  <2> QED
    BY <2>1, <2>2
<1>3. ASSUME R # {} PROVE Good
  <2>1. PICK m \in R : TRUE
    BY <1>3
  <2>2. m \in DOMAIN s.heroes /\ s.heroes[m].cid = c
    BY <2>1 DEF Rows
  <2>3. \A i \in DOMAIN s.heroes : s.heroes[i].cid = c => i = m
    BY <2>2 DEF RosterGood
  <2>4. R = {} \cup {m}
    BY <2>2, <2>3 DEF Rows
  <2>5. f[m] = ExpOf(s.heroes[m]) /\ f[m] \in Int
    BY <2>1, <2>2, ExpOfIs DEF RosterGood
  <2> HIDE DEF f, R
  <2>6. SumFunctionOnSet(f, {} \cup {m}) = SumFunctionOnSet(f, {}) + f[m]
    <3>1. IsFiniteSet({}) /\ m \notin {} /\ \A y \in {} \cup {m} : f[y] \in Int
      BY <2>5, FS_EmptySet
    <3> QED
      BY <3>1, SumWith
  <2>7. SumFunctionOnSet(f, {}) = 0
    BY SumEmpty
  <2>8. x = f[m]
    BY <2>4, <2>5, <2>6, <2>7
  <2>9. Owns(s, c)
    BY <2>2 DEF Owns
  <2> HIDE DEF x
  <2> QED
    BY <2>3, <2>5, <2>8, <2>9
<1>4. Good
  BY <1>2, <1>3
<1> HIDE DEF x
<1>5. x = SumFunction([i \in Rows(s.heroes, c) |-> ExpOf(s.heroes[i])])
  BY <1>1 DEF x
<1> QED
  BY <1>4, <1>5

LEMMA OpeningShown ==
  ASSUME NEW gear, GearOK(gear), NEW c \in GearCids
  PROVE  Total(gear, c) = Room(c, Total(gear, c))
<1> DEFINE n == Total(gear, c)
<1>1. IsBag(gear) /\ n \in Nat
  BY BagFacts DEF GearOK
<1>2. CASE c \in DOMAIN GridMax /\ GridMax[c] > 0
  <2> DEFINE R == Rows(gear, c)
  <2> DEFINE f == Nums(gear)
  <2>1. n = SumFunctionOnSet(f, R) /\ GridMax[c] \in Nat
    BY <1>2, BannersAssumption DEF Total
  <2>2. CASE R = {}
    <3>1. n = 0
      BY <2>1, <2>2, SumEmpty
    <3> QED
      BY <1>2, <2>1, <3>1 DEF Room
  <2>3. CASE R # {}
    <3>1. PICK m \in R : TRUE
      BY <2>3
    <3>2. /\ m \in DOMAIN gear /\ gear[m].cid = c /\ gear[m].num <= GridMax[c]
          /\ \A j \in DOMAIN gear : gear[j].cid = c => m = j
      BY <1>2, <3>1 DEF Rows, GearOK
    <3>3. R = {} \cup {m}
      BY <3>2 DEF Rows
    <3>4. f[m] = gear[m].num /\ f[m] \in Nat
      BY <1>1, <3>2, BagFacts
    <3> HIDE DEF f, R, n
    <3>5. SumFunctionOnSet(f, {} \cup {m}) = SumFunctionOnSet(f, {}) + f[m]
      <4>1. IsFiniteSet({}) /\ m \notin {} /\ \A y \in {} \cup {m} : f[y] \in Int
        BY <3>4, FS_EmptySet
      <4> QED
        BY <4>1, SumWith
    <3>6. SumFunctionOnSet(f, {}) = 0
      BY SumEmpty
    <3>7. n <= GridMax[c]
      BY <2>1, <3>2, <3>3, <3>4, <3>5, <3>6
    <3> QED
      BY <1>2, <3>7 DEF Room, n
  <2> QED
    BY <2>2, <2>3
<1>3. CASE ~(c \in DOMAIN GridMax /\ GridMax[c] > 0)
  BY <1>3 DEF Room
<1> QED
  BY <1>2, <1>3

LEMMA StartHeld ==
  ASSUME NEW s \in StartSaves
  PROVE  Held(Starting(s))
<1> DEFINE t == Starting(s)
<1> DEFINE book == Opening(s)
<1>1. /\ DOMAIN t = SaveFields /\ t = [f \in SaveFields |-> t[f]]
      /\ t.bag = s.bag /\ t.lvl = s.lvl /\ t.heroes = s.heroes /\ t.gear = s.gear
      /\ t.banners = [b \in Banners |-> [pulled |-> FALSE, since |-> 0]]
      /\ t.teams = [x \in TeamTypes |-> IF x = 1 THEN <<s.heroes[1].sid>> ELSE <<>>]
      /\ t.backups = [b \in Backups |-> <<>>] /\ t.book = book
  BY DEF Starting, SaveFields
<1>2. /\ DOMAIN book = BookFields /\ book = [f \in BookFields |-> book[f]]
      /\ book.net = [c \in Cids |-> Total(s.bag, c)]
      /\ book.fed = [c \in HeroCids |->
                       SumFunction([i \in Rows(s.heroes, c) |-> ExpOf(s.heroes[i])])]
      /\ book.shown = [c \in HeroCids \cup GearCids |->
                         IF Owns(s, c) THEN 1 ELSE Total(s.gear, c)]
      /\ book.starters = [b \in Banners |-> 0] /\ book.plain = [b \in Banners |-> 0]
      /\ book.missed = [b \in Banners |-> 0]
  BY DEF Opening, BookFields
<1> HIDE DEF t, book
<1>3. Fields(t)
  BY <1>1, <1>2 DEF Fields
<1>4. ItemsGood(t)
  <2>1. IsBag(s.bag) /\ DistinctIds(s.bag) /\ BagCids(s.bag) \subseteq Cids
    BY StartAssumption DEF BagCids
  <2> QED
    BY <1>1, <1>2, <2>1 DEF ItemsGood, ItemsOf, BagGood
<1>5. RosterGood(s)
  BY StartAssumption DEF RosterGood
<1>6. RosterGood(t)
  BY <1>1, <1>5 DEF RosterGood
<1>7. FedGood(t)
  <2>1. ASSUME NEW c \in HeroCids
        PROVE  /\ book.fed[c] \in Int /\ (~Owns(s, c) => book.fed[c] = 0)
               /\ \A i \in DOMAIN s.heroes : s.heroes[i].cid = c => book.fed[c] = ExpOf(s.heroes[i])
    <3> DEFINE x == SumFunction([i \in Rows(s.heroes, c) |-> ExpOf(s.heroes[i])])
    <3>1. book.fed[c] = x
      BY <1>2
    <3>2. /\ x \in Int /\ (~Owns(s, c) => x = 0)
          /\ \A i \in DOMAIN s.heroes : s.heroes[i].cid = c => x = ExpOf(s.heroes[i])
      BY <1>5, OpeningFed
    <3> HIDE DEF x
    <3> QED
      BY <3>1, <3>2
  <2>2. \A i \in DOMAIN s.heroes : s.heroes[i].cid \in HeroCids
    BY <1>5, RowFacts DEF RosterGood
  <2>3. \A c : Owns(t, c) <=> Owns(s, c)
    BY <1>1 DEF Owns
  <2>4. book.fed = [c \in HeroCids |-> book.fed[c]]
    BY <1>2
  <2>5. book.fed \in [HeroCids -> Int]
    BY <2>1, <2>4
  <2>6. FedGood(t) <=> /\ book.fed \in [HeroCids -> Int]
                       /\ \A i \in DOMAIN s.heroes : ExpOf(s.heroes[i]) = book.fed[s.heroes[i].cid]
                       /\ \A c \in HeroCids : ~Owns(s, c) => book.fed[c] = 0
    BY <1>1, <2>3 DEF FedGood
  <2> QED
    BY <2>1, <2>2, <2>5, <2>6
<1>8. GearOK(t.gear)
  <2>1. IsBag(s.gear) /\ DistinctIds(s.gear) /\ BagCids(s.gear) \subseteq GearCids
    BY StartAssumption DEF BagCids
  <2>2. \A i \in DOMAIN s.gear : s.gear[i].cid \in DOMAIN GridMax =>
          /\ GridMax[s.gear[i].cid] > 0 => s.gear[i].num <= GridMax[s.gear[i].cid]
          /\ \A j \in DOMAIN s.gear : s.gear[j].cid = s.gear[i].cid => i = j
    BY StartAssumption
  <2> QED
    BY <1>1, <2>1, <2>2 DEF GearOK
<1>9. ShownGood(t)
  <2>1. HeroCids \cap GearCids = {}
    BY TablesAssumption
  <2>2. \A c : Total(s.gear, c) \in Nat
    BY <1>1, <1>8, BagFacts DEF GearOK
  <2>3. ASSUME NEW c \in HeroCids PROVE Total(s.gear, c) = 0
    <3>1. \A i \in DOMAIN s.gear : s.gear[i].cid \in GearCids
      BY <1>1, <1>8 DEF GearOK, BagCids
    <3>2. Rows(s.gear, c) = {}
      BY <2>1, <3>1 DEF Rows
    <3> QED
      BY <3>2, SumEmpty DEF Total
  <2>4. ASSUME NEW c \in GearCids PROVE ~Owns(s, c)
    BY <1>5, <2>1, RowFacts DEF RosterGood, Owns
  <2>5. \A c : Owns(t, c) <=> Owns(s, c)
    BY <1>1 DEF Owns
  <2>6. \A c \in GearCids : Total(s.gear, c) = Room(c, Total(s.gear, c))
    BY <1>1, <1>8, OpeningShown
  <2>7. book.shown \in [HeroCids \cup GearCids -> Nat]
    BY <1>2, <2>2
  <2>8. ASSUME NEW c \in HeroCids PROVE book.shown[c] = IF Owns(s, c) THEN 1 ELSE 0
    BY <1>2, <2>3
  <2>9. ASSUME NEW c \in GearCids PROVE book.shown[c] = Total(s.gear, c)
    BY <1>2, <2>4
  <2>10. t.gear = s.gear /\ t.book.shown = book.shown
    BY <1>1
  <2> QED
    BY <2>5, <2>6, <2>7, <2>8, <2>9, <2>10 DEF ShownGood
<1>10. TeamsGood(t)
  <2> DEFINE S == Sids(t)
  <2>1. s.heroes[1].sid \in S
    <3>1. IsSeq(s.heroes) /\ s.heroes # <<>>
      BY StartAssumption
    <3>2. Len(s.heroes) \in Nat /\ DOMAIN s.heroes = 1..Len(s.heroes) /\ 1 \in DOMAIN s.heroes
      BY <3>1 DEF IsSeq
    <3> QED
      BY <1>1, <3>2 DEF Sids
  <2>2. TeamSize \in Nat \ {0}
    BY TeamsAssumption
  <2> HIDE DEF S
  <2>3. Lined(<<>>, S)
    BY <2>2 DEF Lined, IsSeq, Once, Range
  <2>4. ASSUME NEW x \in S PROVE Lined(<<x>>, S)
    <3>1. <<x>> \in Seq({x}) /\ Len(<<x>>) = 1 /\ DOMAIN <<x>> = {1} /\ <<x>>[1] = x
      OBVIOUS
    <3>2. Range(<<x>>) = {x}
      BY <3>1 DEF Range
    <3> QED
      BY <2>2, <3>1, <3>2 DEF Lined, IsSeq, Once
  <2>5. Stances(t.teams, TeamTypes, S) /\ Stances(t.backups, Backups, S)
    BY <1>1, <2>1, <2>3, <2>4 DEF Stances
  <2> QED
    BY <2>5 DEF TeamsGood, S
<1>11. BannersGood(t)
  <2> DEFINE none == [pulled |-> FALSE, since |-> 0]
  <2>1. none \in Banner /\ none.since = 0
    BY DEF Banner
  <2>2. t.banners = [b \in Banners |-> none]
    BY <1>1
  <2> HIDE DEF none
  <2>3. /\ t.banners \in [Banners -> Banner] /\ t.book.starters \in [Banners -> 0..1]
        /\ t.book.plain \in [Banners -> Nat] /\ t.book.missed \in [Banners -> {0}]
    BY <1>1, <1>2, <2>1, <2>2
  <2>4. ASSUME NEW b \in Banners
        PROVE  /\ t.banners[b].since = t.book.plain[b] /\ t.book.starters[b] # 1
    BY <1>1, <1>2, <2>1, <2>2
  <2> QED
    BY <2>3, <2>4 DEF BannersGood
<1>12. Held(t)
  BY <1>3, <1>4, <1>6, <1>7, <1>8, <1>9, <1>10, <1>11 DEF Held
<1> QED
  BY <1>12 DEF t

LEMMA InitHeld == Init => HeldInv
BY StartHeld DEF Init, Loaded, HeldInv

LEMMA NextHeld == HeldInv /\ [Next]_copies => HeldInv'
<1> SUFFICES ASSUME HeldInv, [Next]_copies PROVE HeldInv'
  OBVIOUS
<1>1. CASE \E b \in Banners, k \in 1..2 : Pull(b, k)
  BY <1>1, PullHeld
<1>2. ASSUME NEW i \in DOMAIN mem.heroes, Train(i) PROVE HeldInv'
  <2>1. CASE \E food \in Foods : Feed(i, food)
    BY <2>1, FeedHeld
  <2>2. CASE Advance(i)
    BY <2>2, AdvanceHeld
  <2>3. CASE Improve(i)
    BY <2>3, ImproveHeld
  <2>4. CASE \E skin \in Skins, isSwitch \in BOOLEAN : ChangeSkin(i, skin, isSwitch)
    BY <2>4, ChangeSkinHeld
  <2> QED
    BY <1>2, <2>1, <2>2, <2>3, <2>4 DEF Train
<1>3. ASSUME NEW i \in DOMAIN mem.heroes, GrowAngel(i) PROVE HeldInv'
  <2>1. CASE Awake(i)
    BY <2>1, AwakeHeld
  <2>2. CASE \E t \in DOMAIN StrengthenCost[mem.heroes[i].cid], kind \in 1..2 : Strengthen(i, t, kind)
    BY <2>2, StrengthenHeld
  <2>3. CASE \E option \in 1..2 : Breakthrough(i, option)
    BY <2>3, BreakthroughHeld
  <2> QED
    BY <1>3, <2>1, <2>2, <2>3 DEF GrowAngel
<1>4. ASSUME NEW i \in DOMAIN mem.heroes, ArrangeSkills(i) PROVE HeldInv'
  <2>1. ASSUME NEW m \in Nodes, LearnSkill(i, Place(m)) \/ UnlearnSkill(i, Place(m))
        PROVE  HeldInv'
    BY <2>1, SkillsHeld
  <2>2. ASSUME NEW m \in Nodes, UnequipPassive(i, m.id) \/ \E pos \in DOMAIN Slots : EquipPassive(i, m.id, pos)
        PROVE  HeldInv'
    BY <2>2, PassiveHeld
  <2>3. ASSUME NEW p \in UsedPages,
               ResetSkill(i, p) \/ UseStrategy(i, p) \/ \E named \in BOOLEAN : RenameStrategy(i, p, named)
        PROVE  HeldInv'
    BY <2>3, StrategyHeld
  <2> QED
    BY <1>4, <2>1, <2>2, <2>3 DEF ArrangeSkills
<1>5. CASE MakeTeams
  BY <1>5, TeamsHeld
<1>6. CASE PlayerLevelUp
  BY <1>6, LevelUpHeld
<1>7. CASE Relog
  BY <1>7 DEF Relog, HeldInv
<1>8. CASE LoginSave
  BY <1>8, AnswerHeld DEF LoginSave, HeldInv
<1>9. CASE UNCHANGED copies
  BY <1>9 DEF copies, HeldInv
<1> QED
  BY <1>1, <1>2, <1>3, <1>4, <1>5, <1>6, <1>7, <1>8, <1>9 DEF Next

-----------------------------------------------------------------------------
THEOREM HeldTheorem == Spec => []HeldInv
<1> QED
  BY InitHeld, NextHeld, PTL DEF Spec

(* The totals of the bag are what the player came with, plus what pulls     *)
(* paid, minus what every price took, whatever it was paid with             *)
(* (consume_cids, summon).                                                  *)
THEOREM BooksTheorem == Spec => []BooksBalance
<1>1. HeldInv => BooksBalance
  BY DEF HeldInv, Held, ItemsGood, ItemsOf, BooksBalance
<1> QED
  BY <1>1, HeldTheorem, PTL

(* On every banner the starter price is paid once at most, and no guarantee *)
(* of a rare card is missed, whatever writes fail between pulls (summon).   *)
THEOREM FairTheorem == Spec => []PullsFair
<1>1. HeldInv => PullsFair
  BY DEF HeldInv, Held, BannersGood, PullsFair
<1> QED
  BY <1>1, HeldTheorem, PTL

(* What the answers to pulls showed is what roster and equipment hold       *)
(* (_grant_hero, add_equipment).                                            *)
THEOREM DrawnTheorem == Spec => []DrawnIsOwned
<1>1. ASSUME NEW s, Held(s), NEW c \in HeroCids
      PROVE  Cardinality({i \in DOMAIN s.heroes : s.heroes[i].cid = c}) = s.book.shown[c]
  <2> DEFINE R == {i \in DOMAIN s.heroes : s.heroes[i].cid = c}
  <2>1. s.book.shown[c] = IF Owns(s, c) THEN 1 ELSE 0
    BY <1>1 DEF Held, ShownGood
  <2>2. CASE Owns(s, c)
    <3>1. PICK m \in DOMAIN s.heroes : s.heroes[m].cid = c
      BY <2>2 DEF Owns
    <3>2. R = {m}
      BY <1>1, <3>1 DEF Held, RosterGood
    <3> HIDE DEF R
    <3>3. Cardinality(R) = 1
      BY <3>2, FS_Singleton
    <3> QED
      BY <2>1, <2>2, <3>3 DEF R
  <2>3. CASE ~Owns(s, c)
    <3>1. R = {}
      BY <2>3 DEF Owns
    <3> HIDE DEF R
    <3>2. Cardinality(R) = 0
      BY <3>1, FS_EmptySet
    <3> QED
      BY <2>1, <2>3, <3>2 DEF R
  <2> QED
    BY <2>2, <2>3
<1>2. ASSUME NEW s, Held(s), NEW c \in GearCids
      PROVE  Total(s.gear, c) = IF c \in DOMAIN GridMax /\ GridMax[c] > 0
                                 THEN Min({s.book.shown[c], GridMax[c]}) ELSE s.book.shown[c]
  <2>1. s.book.shown[c] \in Nat /\ Total(s.gear, c) = Room(c, s.book.shown[c])
    BY <1>2 DEF Held, ShownGood
  <2>2. CASE c \in DOMAIN GridMax /\ GridMax[c] > 0
    <3> DEFINE x == s.book.shown[c]
    <3> DEFINE y == GridMax[c]
    <3>1. x \in Int /\ y \in Int /\ Total(s.gear, c) = IF x <= y THEN x ELSE y
      BY <2>1, <2>2, BannersAssumption DEF Room
    <3> HIDE DEF x, y
    <3>2. Min({x, y}) = IF x <= y THEN x ELSE y
      BY <3>1, MinTwo
    <3> QED
      BY <2>2, <3>1, <3>2 DEF x, y
  <2>3. CASE ~(c \in DOMAIN GridMax /\ GridMax[c] > 0)
    BY <2>1, <2>3 DEF Room
  <2> QED
    BY <2>2, <2>3
<1>3. HeldInv => DrawnIsOwned
  BY <1>1, <1>2 DEF HeldInv, DrawnIsOwned
<1> QED
  BY <1>3, HeldTheorem, PTL

(* The levels of a hero cost exactly the EXP it was fed, less what it still *)
(* carries, and none is above the player (_level_up).                       *)
THEOREM LevelsTheorem == Spec => []LevelsEarned
<1>1. HeldInv => LevelsEarned
  BY DEF HeldInv, Held, RosterGood, FedGood, LevelsEarned
<1> QED
  BY <1>1, HeldTheorem, PTL

(* The points a page says are spent are those of the levels learned on it,  *)
(* and within what the hero has (_upgrade_skill, _reset_skill).             *)
THEOREM PointsTheorem == Spec => []PointsAccounted
<1>1. HeldInv => PointsAccounted
  BY DEF HeldInv, Held, RosterGood, HeroRowOK, PointsAccounted
<1> QED
  BY <1>1, HeldTheorem, PTL

(* A passive skill is in one slot of a page at most, and it is the hero's   *)
(* (_equip_passive).                                                        *)
THEOREM PassiveTheorem == Spec => []PassiveOnce
<1>1. HeldInv => PassiveOnce
  BY DEF HeldInv, Held, RosterGood, HeroRowOK, PassiveOnce
<1> QED
  BY <1>1, HeldTheorem, PTL

(* Teams and presets are of different heroes the player owns, as many as    *)
(* fit (operate_formation, _change_backup_hero, _apply_backup).             *)
THEOREM TeamsTheorem == Spec => []TeamsValid
<1>1. ASSUME NEW T, NEW S, NEW f, Stances(f, T, S), NEW q \in Range(f) PROVE Lined(q, S)
  BY <1>1 DEF Stances, Range
<1>2. ASSUME NEW s, Held(s), NEW q \in Range(s.teams) \cup Range(s.backups)
      PROVE  Lined(q, Sids(s))
  BY <1>1, <1>2 DEF Held, TeamsGood
<1>3. HeldInv => TeamsValid
  BY <1>2 DEF HeldInv, TeamsValid, Lined, Once, IsInjective
<1> QED
  BY <1>3, HeldTheorem, PTL

-----------------------------------------------------------------------------
(* How the copies move: every step of a handler is an answer, and what it   *)
(* does not report does not show.                                           *)
Reports == \E new, changed : Answer(new, changed) /\ (changed \/ Seen(new) = Seen(mem))

LEMMA RowKept ==
  ASSUME HeldInv, NEW i \in DOMAIN mem.heroes
  PROVE  WithRow(i, mem.heroes[i]) = mem
<1> DEFINE q == mem.heroes
<1>1. Fields(mem) /\ IsSeq(q)
  BY DEF HeldInv, Held, RosterGood
<1>2. q = [j \in DOMAIN q |-> q[j]]
  BY <1>1 DEF IsSeq
<1>3. [q EXCEPT ![i] = q[i]] = q
  BY <1>2
<1>4. WithRow(i, q[i]) = [mem EXCEPT !.heroes = [q EXCEPT ![i] = q[i]]]
  BY <1>1 DEF WithRow, Fields, SaveFields
<1>5. [mem EXCEPT !.heroes = q] = mem
  BY <1>1 DEF Fields, SaveFields
<1> QED
  BY <1>3, <1>4, <1>5

(* A page that was made and is empty does not show.                         *)
LEMMA PageUnseen ==
  ASSUME NEW h, HeroRowOK(h), NEW p \in Pages
  PROVE  SeenRow(WithPage(h, p)) = SeenRow(h)
<1>1. DOMAIN h = HeroFields /\ h = [f \in HeroFields |-> h[f]]
  BY RowFacts
<1>2. CASE p \in DOMAIN h.pages
  BY <1>2 DEF WithPage
<1>3. CASE p \notin DOMAIN h.pages
  <2> DEFINE g == WithPage(h, p)
  <2>1. g = [h EXCEPT !.pages = Put(h.pages, p, NewPage)]
    BY <1>3 DEF WithPage
  <2>2. /\ DOMAIN g = HeroFields /\ g = [f \in HeroFields |-> g[f]]
        /\ \A f \in HeroFields \ {"pages"} : g[f] = h[f]
        /\ g.pages = Put(h.pages, p, NewPage)
    BY <1>1, <2>1 DEF HeroFields
  <2> HIDE DEF g
  <2>3. [x \in Pages |-> IF x \in DOMAIN g.pages THEN g.pages[x] ELSE NewPage] =
        [x \in Pages |-> IF x \in DOMAIN h.pages THEN h.pages[x] ELSE NewPage]
    BY <1>3, <2>2 DEF Put
  <2> QED
    BY <1>1, <2>2, <2>3 DEF SeenRow, HeroFields, g
<1> QED
  BY <1>2, <1>3

LEMMA RenameUnseen ==
  ASSUME HeldInv, NEW i \in DOMAIN mem.heroes, NEW p \in Pages
  PROVE  Seen(WithRow(i, WithPage(mem.heroes[i], p))) = Seen(mem)
<1> DEFINE q == mem.heroes
<1> DEFINE h == WithPage(q[i], p)
<1> DEFINE new == WithRow(i, h)
<1>1. Fields(mem) /\ HeroRowOK(q[i])
  BY DEF HeldInv, Held, RosterGood
<1>2. SeenRow(h) = SeenRow(q[i])
  BY <1>1, PageUnseen
<1> HIDE DEF h
<1>3. /\ DOMAIN new = SaveFields /\ new = [f \in SaveFields |-> new[f]]
      /\ \A f \in SaveFields \ {"heroes"} : new[f] = mem[f]
      /\ new.heroes = [q EXCEPT ![i] = h]
  BY <1>1 DEF WithRow, Fields, SaveFields
<1> HIDE DEF new
<1>4. DOMAIN new.heroes = DOMAIN q /\ \A j \in DOMAIN q : new.heroes[j] = IF j = i THEN h ELSE q[j]
  BY <1>3
<1>5. [j \in DOMAIN new.heroes |-> SeenRow(new.heroes[j])] = [j \in DOMAIN q |-> SeenRow(q[j])]
  BY <1>2, <1>4
<1>6. /\ Seen(new) = [new EXCEPT !.heroes = [j \in DOMAIN new.heroes |-> SeenRow(new.heroes[j])]]
      /\ Seen(mem) = [mem EXCEPT !.heroes = [j \in DOMAIN q |-> SeenRow(q[j])]]
  BY DEF Seen
<1>7. Seen(new) = Seen(mem)
  BY <1>1, <1>3, <1>5, <1>6 DEF Fields, SaveFields
<1> QED
  BY <1>7 DEF new, h

LEMMA SkillReports ==
  ASSUME HeldInv, NEW i \in DOMAIN mem.heroes, ArrangeSkills(i)
  PROVE  Reports
<1>1. HeroRowOK(mem.heroes[i]) /\ InUse(i) = mem.heroes[i] /\ WithRow(i, mem.heroes[i]) = mem
  BY InUseIs, RowKept DEF HeldInv, Held, RosterGood, InUse
<1>2. ASSUME NEW k, LearnSkill(i, k) \/ UnlearnSkill(i, k) PROVE Reports
  BY <1>2 DEF LearnSkill, UnlearnSkill, Reports
<1>3. ASSUME NEW h, Answer(WithRow(i, h), h # mem.heroes[i]) PROVE Reports
  BY <1>1, <1>3 DEF Reports
<1>4. ASSUME NEW skill, NEW pos, EquipPassive(i, skill, pos) \/ UnequipPassive(i, skill)
      PROVE  Reports
  BY <1>1, <1>3, <1>4 DEF EquipPassive, UnequipPassive
<1>5. ASSUME NEW p, ResetSkill(i, p) \/ UseStrategy(i, p) PROVE Reports
  BY <1>3, <1>5 DEF ResetSkill, UseStrategy, Reports
<1>6. ASSUME NEW p \in UsedPages, NEW named, RenameStrategy(i, p, named) PROVE Reports
  BY <1>6, RenameUnseen, RequestsAssumption DEF RenameStrategy, Reports
<1> QED
  BY <1>2, <1>4, <1>5, <1>6 DEF ArrangeSkills

LEMMA EveryStep ==
  ASSUME HeldInv, [Next]_copies
  PROVE  Reports \/ Relog \/ UNCHANGED copies
<1>1. ASSUME NEW b, NEW k, Pull(b, k) PROVE Reports
  BY <1>1 DEF Pull, Reports
<1>2. ASSUME NEW i, Train(i) PROVE Reports
  BY <1>2 DEF Train, Feed, Advance, Improve, ChangeSkin, Reports
<1>3. ASSUME NEW i, GrowAngel(i) PROVE Reports
  BY <1>3 DEF GrowAngel, Awake, Strengthen, Breakthrough, Reports
<1>4. ASSUME MakeTeams PROVE Reports
  <2>1. ASSUME NEW t, NEW source, NEW target, OperateFormation(t, source, target) PROVE Reports
    BY <2>1 DEF OperateFormation, Reports
  <2>2. ASSUME NEW new, Answer(new, new # mem) PROVE Reports
    BY <2>2 DEF Reports
  <2>3. ASSUME NEW renamed, ShowBackups(renamed) PROVE Reports
    BY <2>3 DEF ShowBackups, Reports
  <2> QED
    BY <1>4, <2>1, <2>2, <2>3 DEF MakeTeams, ChangeBackup, UseBackup
<1>5. ASSUME PlayerLevelUp PROVE Reports
  BY <1>5 DEF PlayerLevelUp, Reports
<1>6. ASSUME LoginSave PROVE Reports
  BY <1>6 DEF LoginSave, Reports
<1> QED
  BY <1>1, <1>2, <1>3, <1>4, <1>5, <1>6, SkillReports DEF Next

Bounded == behind \in 0..MaxBehind

LEMMA BoundedLemma == Spec => []Bounded
<1>1. Init => Bounded
  BY BoundAssumption DEF Init, Loaded, Bounded
<1>2. ASSUME HeldInv, Bounded, [Next]_copies PROVE Bounded'
  <2>1. CASE Reports
    BY <1>2, <2>1, BoundAssumption DEF Reports, Answer, Bounded
  <2>2. CASE Relog
    BY <2>2, BoundAssumption DEF Relog, Bounded
  <2>3. CASE UNCHANGED copies
    BY <1>2, <2>3 DEF copies, Bounded
  <2> QED
    BY <1>2, <2>1, <2>2, <2>3, EveryStep
<1> QED
  BY <1>1, <1>2, HeldTheorem, PTL DEF Spec

(* Rows of the bag, the roster and the equipment keep distinct ids, and no  *)
(* number leaves its range.                                                 *)
THEOREM TypeTheorem == Spec => []TypeOK
<1>1. ASSUME NEW s, Held(s) PROVE Copy(s)
  <2>1. /\ \A i \in DOMAIN s.bag : s.bag[i].cid \in Cids /\ s.bag[i].num \in Nat
        /\ \A i, j \in DOMAIN s.bag : s.bag[i].id = s.bag[j].id => i = j
    BY <1>1, BagFacts DEF Held, ItemsGood, ItemsOf, BagGood, BagCids, DistinctIds
  <2>2. /\ \A i \in DOMAIN s.heroes : HeroOK(s.heroes[i])
        /\ \A i, j \in DOMAIN s.heroes : s.heroes[i].sid = s.heroes[j].sid => i = j
    BY <1>1 DEF Held, RosterGood, HeroRowOK
  <2>3. \A i, j \in DOMAIN s.gear : s.gear[i].id = s.gear[j].id => i = j
    BY <1>1 DEF Held, GearOK, DistinctIds
  <2>4. \A b \in Banners : s.banners[b].since \in Nat
    BY <1>1 DEF Held, BannersGood, Banner
  <2> QED
    BY <2>1, <2>2, <2>3, <2>4 DEF Copy
<1>2. HeldInv /\ Bounded => TypeOK
  BY <1>1 DEF HeldInv, Bounded, TypeOK
<1> QED
  BY <1>2, BoundedLemma, HeldTheorem, PTL

(* Unless the last write failed, a reconnect shows the player what he sees: *)
(* no handler of heroes, angels, teams and presets changes more of the copy *)
(* than it reports to dispatch.                                             *)
THEOREM UnsavedTheorem == Spec => []NothingUnsaved
<1>1. Init => NothingUnsaved
  BY DEF Init, Loaded, NothingUnsaved
<1>2. ASSUME HeldInv, Bounded, NothingUnsaved, [Next]_copies PROVE NothingUnsaved'
  <2>1. CASE Reports
    <3>1. PICK new, changed : Answer(new, changed) /\ (changed \/ Seen(new) = Seen(mem))
      BY <2>1 DEF Reports
    <3>2. CASE disk' = new /\ mem' = new
      BY <3>2 DEF NothingUnsaved, Seen
    <3>3. CASE behind' = behind + 1
      BY <1>2, <3>3 DEF Bounded, NothingUnsaved
    <3>4. CASE ~changed /\ mem' = new /\ disk' = disk /\ behind' = behind
      <4>1. Seen(mem') = Seen(mem) /\ Seen(disk') = Seen(disk)
        BY <3>1, <3>4
      <4>2. Seen(mem)' = Seen(mem') /\ Seen(disk)' = Seen(disk')
        BY DEF Seen
      <4> QED
        BY <1>2, <3>4, <4>1, <4>2 DEF NothingUnsaved
    <3> QED
      BY <3>1, <3>2, <3>3, <3>4 DEF Answer
  <2>2. CASE Relog
    BY <2>2 DEF Relog, NothingUnsaved
  <2>3. CASE UNCHANGED copies
    BY <1>2, <2>3 DEF copies, NothingUnsaved, Seen
  <2> QED
    BY <1>2, <2>1, <2>2, <2>3, EveryStep
<1> QED
  BY <1>1, <1>2, HeldTheorem, BoundedLemma, PTL DEF Spec
=============================================================================
