--------------------------- MODULE AccountProofs ---------------------------
(***************************************************************************)
(* Theorems about Account, for every shop, friend list, Guide table and     *)
(* start save.  Each copy of the save is Good by itself: its records agree  *)
(* with its book.  A handler keeps the copy it works on Good, and a write   *)
(* or a load puts one Good copy in the place of another.                    *)
(***************************************************************************)
EXTENDS Account, InventoryProofs, TLAPS

Record == [dayKey : Days \cup {NoDay}, day : Nat, cycle : Nat, total : Nat]

(* The fields the theorems speak of are there.                              *)
Shape(s) ==
  /\ {"purchases", "friends", "name", "remark", "guide", "groups", "book"} \subseteq DOMAIN s
  /\ {"today", "cycle", "ever", "gifts", "stood", "told"} \subseteq DOMAIN s.book
  /\ {"name", "remark", "groups", "resumed", "steps"} \subseteq DOMAIN s.book.told

Typed(s) ==
  /\ s.purchases \in [Goods -> Record]
  /\ s.book.today \in [Goods -> [Days -> Nat]]
  /\ s.book.cycle \in [Goods -> Nat]
  /\ s.book.ever \in [Goods -> Nat]

(* The record of a commodity says what the book says, for the day it was    *)
(* last looked at; of later days neither knows anything.                    *)
Agrees(s, today) ==
  \A k \in Goods :
    LET r == s.purchases[k]
    IN /\ r.dayKey <= today
       /\ r.total = s.book.ever[k]
       /\ Limit[k].type = PerCycle => r.cycle = s.book.cycle[k]
       /\ \A d \in Days : d = r.dayKey => s.book.today[k][d] = r.day
       /\ \A d \in Days : d > r.dayKey => s.book.today[k][d] = 0

ShopGood(s, today) == Typed(s) /\ Agrees(s, today) /\ PurchasesLimited(s)

FriendsGood(s) ==
  /\ s.friends \in [Pids -> FriendRow]
  /\ s.book.stood = [p \in Pids |-> Covered(s.friends[p])]
  /\ s.book.gifts \in [Pids -> Nat]
  /\ GiftsOnce(s)

ProfileGood(s) ==
  /\ s.guide \in Nat
  /\ s.book.told.resumed \in Nat
  /\ s.book.told.steps \subseteq Nat
  /\ GuideStep(s) \in Reached(s.book.told)
  /\ \A x \in Reached(s.book.told) : x <= GuideStep(s)
  /\ s.groups = s.book.told.groups
  /\ s.name = s.book.told.name /\ s.remark = s.book.told.remark

Good(s, today) == Shape(s) /\ ShopGood(s, today) /\ FriendsGood(s) /\ ProfileGood(s)

Inv == day \in Days /\ Good(mem, day) /\ Good(disk, day)

-----------------------------------------------------------------------------
(* What a handler of another part of the account does to the fields above.  *)
SameShop(s, t) ==
  /\ t.purchases = s.purchases /\ t.book.today = s.book.today
  /\ t.book.cycle = s.book.cycle /\ t.book.ever = s.book.ever

SameFriends(s, t) ==
  t.friends = s.friends /\ t.book.stood = s.book.stood /\ t.book.gifts = s.book.gifts

SameProfile(s, t) ==
  /\ t.guide = s.guide /\ t.groups = s.groups /\ t.name = s.name
  /\ t.remark = s.remark /\ t.book.told = s.book.told

LEMMA ShopKept ==
  ASSUME NEW s, NEW t, NEW d, ShopGood(s, d), SameShop(s, t)
  PROVE  ShopGood(t, d)
<1>1. Typed(t)
  BY DEF ShopGood, SameShop, Typed
<1>2. Agrees(t, d)
  BY DEF ShopGood, SameShop, Agrees
<1>3. PurchasesLimited(t)
  BY DEF ShopGood, SameShop, PurchasesLimited
<1> QED
  BY <1>1, <1>2, <1>3 DEF ShopGood

LEMMA FriendsKept ==
  ASSUME NEW s, NEW t, FriendsGood(s), SameFriends(s, t)
  PROVE  FriendsGood(t)
BY DEF FriendsGood, SameFriends, GiftsOnce

LEMMA ProfileKept ==
  ASSUME NEW s, NEW t, ProfileGood(s), SameProfile(s, t)
  PROVE  ProfileGood(t)
BY DEF ProfileGood, SameProfile, GuideStep

(* The date only goes forward.                                              *)
LEMMA LaterGood ==
  ASSUME NEW s, NEW d \in Days, NEW e \in Days, d <= e, Good(s, d)
  PROVE  Good(s, e)
<1> USE StoreAssumption, DaysAssumption
<1>1. Agrees(s, e)
  <2>1. ASSUME NEW k \in Goods PROVE s.purchases[k].dayKey <= e
    <3>1. s.purchases[k].dayKey <= d
      BY <2>1 DEF Good, ShopGood, Agrees
    <3>2. s.purchases[k].dayKey \in Int
      BY <2>1 DEF Good, ShopGood, Typed, Record, Days
    <3> QED
      BY <3>1, <3>2 DEF Days
  <2> QED
    BY <2>1 DEF Good, ShopGood, Agrees
<1> QED
  BY <1>1 DEF Good, ShopGood

-----------------------------------------------------------------------------
(* What Answer, a load and the passing of time do to the two copies.        *)
LEMMA AnswerGood ==
  ASSUME Inv, NEW new, NEW changed, day' \in Days, day <= day',
         Good(new, day'), Answer(new, changed)
  PROVE  Inv'
<1>1. Good(disk, day')
  BY LaterGood DEF Inv
<1>2. mem' = new /\ (disk' = new \/ disk' = disk)
  BY DEF Answer
<1>3. Good(mem', day') /\ Good(disk', day')
  BY <1>1, <1>2
<1> QED
  BY <1>3 DEF Inv

(* A handler that leaves all of it alone.                                   *)
Same(s, t) == Shape(t) /\ SameShop(s, t) /\ SameFriends(s, t) /\ SameProfile(s, t)

LEMMA SameGood ==
  ASSUME NEW s, NEW t, NEW d, Good(s, d), Same(s, t)
  PROVE  Good(t, d)
BY ShopKept, FriendsKept, ProfileKept DEF Good, Same

-----------------------------------------------------------------------------
(* Records of purchases.                                                    *)
LEMMA RecordTyped ==
  ASSUME NEW r \in Record, NEW d \in Days
  PROVE  /\ RecordOn(r, d) \in Record
         /\ RecordOn(r, d).dayKey = d
         /\ RecordOn(r, d).day = IF r.dayKey = d THEN r.day ELSE 0
         /\ RecordOn(r, d).cycle = r.cycle
         /\ RecordOn(r, d).total = r.total
BY DEF RecordOn, Record

(* Looking at records on some day keeps their agreement with the book.      *)
LEMMA TouchedGood ==
  ASSUME NEW s, NEW K, NEW d \in Days, Good(s, d)
  PROVE  Good(Touched(s, K, d), d)
<1> DEFINE t == Touched(s, K, d)
<1> USE StoreAssumption, DaysAssumption
<1>1. /\ Shape(t) /\ t.book = s.book
      /\ t.purchases = [k \in Goods |-> IF k \in K THEN RecordOn(s.purchases[k], d)
                                        ELSE s.purchases[k]]
      /\ SameFriends(s, t) /\ SameProfile(s, t)
  BY DEF Good, Shape, Touched, SameFriends, SameProfile
<1>2. Typed(s) /\ Agrees(s, d) /\ PurchasesLimited(s)
  BY DEF Good, ShopGood
<1>3. \A k \in Goods :
        /\ t.purchases[k] \in Record
        /\ t.purchases[k] = s.purchases[k] \/ t.purchases[k] = RecordOn(s.purchases[k], d)
  BY <1>1, <1>2, RecordTyped DEF Typed
<1>4. Typed(t)
  BY <1>1, <1>2, <1>3 DEF Typed
<1>5. Agrees(t, d)
  <2>1. SUFFICES ASSUME NEW k \in Goods
        PROVE  /\ t.purchases[k].dayKey <= d
               /\ t.purchases[k].total = t.book.ever[k]
               /\ Limit[k].type = PerCycle => t.purchases[k].cycle = t.book.cycle[k]
               /\ \A e \in Days : e = t.purchases[k].dayKey =>
                    t.book.today[k][e] = t.purchases[k].day
               /\ \A e \in Days : e > t.purchases[k].dayKey => t.book.today[k][e] = 0
    BY DEF Agrees
  <2> DEFINE r == s.purchases[k]
  <2>2. r \in Record /\ r.dayKey \in Int
    BY <1>2 DEF Typed, Record, Days
  <2>3. /\ r.dayKey <= d
        /\ r.total = t.book.ever[k]
        /\ Limit[k].type = PerCycle => r.cycle = t.book.cycle[k]
        /\ \A e \in Days : e = r.dayKey => t.book.today[k][e] = r.day
        /\ \A e \in Days : e > r.dayKey => t.book.today[k][e] = 0
    BY <1>1, <1>2 DEF Agrees
  <2>4. CASE t.purchases[k] = r
    BY <2>3, <2>4
  <2>5. CASE t.purchases[k] = RecordOn(r, d)
    <3>1. /\ RecordOn(r, d).dayKey = d
          /\ RecordOn(r, d).day = IF r.dayKey = d THEN r.day ELSE 0
          /\ RecordOn(r, d).cycle = r.cycle
          /\ RecordOn(r, d).total = r.total
      BY <2>2, RecordTyped
    <3>0. d \in Int /\ \A e \in Days : e \in Int
      BY DEF Days
    <3>2. t.book.today[k][d] = RecordOn(r, d).day
      <4>1. CASE r.dayKey = d
        BY <4>1, <2>3, <3>1
      <4>2. CASE r.dayKey # d
        <5>1. d > r.dayKey
          BY <4>2, <2>2, <2>3, <3>0
        <5> QED
          BY <4>2, <5>1, <2>3, <3>1
      <4> QED
        BY <4>1, <4>2
    <3>3. \A e \in Days : e > d => t.book.today[k][e] = 0
      <4>1. \A e \in Days : e > d => e > r.dayKey
        BY <2>2, <2>3, <3>0
      <4> QED
        BY <4>1, <2>3
    <3> HIDE DEF r, t
    <3> QED
      BY <2>5, <2>3, <3>1, <3>2, <3>3 DEF Days
  <2> QED
    BY <1>3, <2>4, <2>5
<1>6. PurchasesLimited(t)
  BY <1>1, <1>2 DEF PurchasesLimited
<1> QED
  BY <1>1, <1>4, <1>5, <1>6, FriendsKept, ProfileKept DEF Good, ShopGood

LEMMA CountedTyped ==
  ASSUME NEW r \in Record, NEW n \in Nat
  PROVE  /\ Counted(r, n) \in Record
         /\ Counted(r, n).dayKey = r.dayKey
         /\ Counted(r, n).day = r.day + n
         /\ Counted(r, n).cycle = r.cycle + n
         /\ Counted(r, n).total = r.total + n
<1>1. /\ DOMAIN r = {"dayKey", "day", "cycle", "total"}
      /\ r.dayKey \in Days \cup {NoDay}
      /\ r.day \in Nat /\ r.cycle \in Nat /\ r.total \in Nat
  BY DEF Record
<1>2. /\ r.day + n \in Nat /\ r.cycle + n \in Nat /\ r.total + n \in Nat
  BY <1>1
<1>3. Counted(r, n) \in Record
  BY <1>1, <1>2 DEF Counted, Record
<1>4. /\ Counted(r, n).dayKey = r.dayKey
      /\ Counted(r, n).day = r.day + n
      /\ Counted(r, n).cycle = r.cycle + n
      /\ Counted(r, n).total = r.total + n
  BY <1>1 DEF Counted
<1> QED
  BY <1>3, <1>4

(* A purchase the limit allowed on day d, recorded on d or on the day after.*)
LEMMA BoughtGood ==
  ASSUME NEW s, NEW t, NEW k \in Goods, NEW n \in 1..MaxCount,
         NEW d \in Days, NEW e \in Days, e \in {d, d + 1},
         Good(s, d), s.purchases[k].dayKey = d,
         Limited(k) => n <= Remaining(k, s.purchases[k]),
         Shape(t), SameFriends(s, t), SameProfile(s, t),
         t.purchases = [s.purchases EXCEPT ![k] = Counted(RecordOn(@, e), n)],
         t.book.today = [s.book.today EXCEPT ![k][e] = @ + n],
         t.book.cycle = [s.book.cycle EXCEPT ![k] = @ + n],
         t.book.ever = [s.book.ever EXCEPT ![k] = @ + n]
  PROVE  Good(t, e)
<1> DEFINE r == RecordOn(s.purchases[k], e)
<1> DEFINE q == t.purchases[k]
<1> USE StoreAssumption, DaysAssumption
<1>1. Typed(s) /\ Agrees(s, d) /\ PurchasesLimited(s)
  BY DEF Good, ShopGood
<1>2. n \in Nat /\ d \in Int /\ e \in Int /\ d <= e
  BY DEF Days, MaxCount
<1>3. /\ s.purchases[k] \in Record
      /\ r \in Record /\ r.dayKey = e
      /\ r.day = IF d = e THEN s.purchases[k].day ELSE 0
      /\ r.cycle = s.purchases[k].cycle /\ r.total = s.purchases[k].total
  BY <1>1, RecordTyped DEF Typed
<1>4. /\ q = Counted(r, n)
      /\ \A j \in Goods \ {k} : t.purchases[j] = s.purchases[j]
  BY <1>1 DEF Typed
<1>5. /\ q \in Record /\ q.dayKey = e
      /\ q.day = r.day + n /\ q.cycle = r.cycle + n /\ q.total = r.total + n
  <2> HIDE DEF r, q
  <2> QED
    BY <1>2, <1>3, <1>4, CountedTyped
<1>6. Typed(t)
  <2>1. t.purchases \in [Goods -> Record]
    BY <1>1, <1>5 DEF Typed
  <2>2. t.book.today \in [Goods -> [Days -> Nat]]
    <3>1. s.book.today \in [Goods -> [Days -> Nat]] /\ s.book.today[k][e] + n \in Nat
      BY <1>1, <1>2 DEF Typed
    <3> QED
      BY <3>1
  <2>3. t.book.cycle \in [Goods -> Nat] /\ t.book.ever \in [Goods -> Nat]
    BY <1>1, <1>2 DEF Typed
  <2> QED
    BY <2>1, <2>2, <2>3 DEF Typed
<1>7. /\ t.book.today[k][e] = s.book.today[k][e] + n
      /\ \A c \in Days \ {e} : t.book.today[k][c] = s.book.today[k][c]
      /\ t.book.cycle[k] = s.book.cycle[k] + n
      /\ t.book.ever[k] = s.book.ever[k] + n
      /\ \A j \in Goods \ {k} : /\ t.book.today[j] = s.book.today[j]
                                /\ t.book.cycle[j] = s.book.cycle[j]
                                /\ t.book.ever[j] = s.book.ever[j]
  BY <1>1 DEF Typed
<1>8. /\ s.book.today[k][e] = r.day
      /\ s.book.ever[k] = r.total
      /\ Limit[k].type = PerCycle => s.book.cycle[k] = r.cycle
  <2>1. CASE e = d
    BY <1>1, <1>3, <2>1 DEF Agrees
  <2>2. CASE e # d
    <3>1. e > s.purchases[k].dayKey
      BY <2>2, <1>2
    <3> QED
      BY <1>1, <1>3, <2>2, <3>1 DEF Agrees
  <2> QED
    BY <2>1, <2>2
<1>9. Agrees(t, e)
  <2>1. SUFFICES ASSUME NEW j \in Goods
        PROVE  /\ t.purchases[j].dayKey <= e
               /\ t.purchases[j].total = t.book.ever[j]
               /\ Limit[j].type = PerCycle => t.purchases[j].cycle = t.book.cycle[j]
               /\ \A c \in Days : c = t.purchases[j].dayKey =>
                    t.book.today[j][c] = t.purchases[j].day
               /\ \A c \in Days : c > t.purchases[j].dayKey => t.book.today[j][c] = 0
    BY DEF Agrees
  <2>2. CASE j = k
    <3>1. \A c \in Days : c > e => t.book.today[k][c] = 0
      <4>1. ASSUME NEW c \in Days, c > e PROVE t.book.today[k][c] = 0
        <5>1. c \in Int /\ c # e /\ c > d
          BY <4>1, <1>2 DEF Days
        <5>2. s.book.today[k][c] = 0
          BY <5>1, <1>1 DEF Agrees
        <5> QED
          BY <5>1, <5>2, <1>7
      <4> QED
        BY <4>1
    <3> HIDE DEF r, q
    <3>2. q.day = t.book.today[k][e] /\ q.total = t.book.ever[k]
          /\ (Limit[k].type = PerCycle => q.cycle = t.book.cycle[k])
      BY <1>5, <1>7, <1>8
    <3> QED
      BY <2>2, <3>1, <3>2, <1>5, <1>2 DEF q
  <2>3. CASE j # k
    <3>1. s.purchases[j].dayKey \in Int /\ s.purchases[j].dayKey <= d
      <4>1. s.purchases[j] \in Record
        BY <1>1 DEF Typed
      <4>2. s.purchases[j].dayKey <= d
        BY <1>1 DEF Agrees
      <4> QED
        BY <4>1, <4>2 DEF Record, Days
    <3> QED
      BY <2>3, <3>1, <1>1, <1>2, <1>4, <1>7 DEF Agrees
  <2> QED
    BY <2>2, <2>3
<1>10. PurchasesLimited(t)
  <2>1. SUFFICES ASSUME NEW j \in Goods, Limited(j)
        PROVE  CASE Limit[j].type = PerDay   -> \A c \in Days : t.book.today[j][c] <= Limit[j].val
                 [] Limit[j].type = PerCycle -> t.book.cycle[j] <= Limit[j].val
                 [] OTHER                    -> t.book.ever[j] <= Limit[j].val
    BY DEF PurchasesLimited
  <2>2. CASE j # k
    BY <2>1, <2>2, <1>1, <1>7 DEF PurchasesLimited
  <2>3. CASE j = k
    <3>1. /\ Limit[k].val \in Int /\ Limit[k].val > 0
          /\ Used(k, s.purchases[k]) \in Nat
          /\ n <= Limit[k].val - Used(k, s.purchases[k])
      <4> DEFINE room == Limit[k].val - Used(k, s.purchases[k])
      <4>1. /\ Limit[k].val \in Int /\ Limit[k].val > 0
            /\ Used(k, s.purchases[k]) \in Nat
        BY <2>1, <2>3, <1>3 DEF Limited, Used, Record
      <4>2. n <= Max({0, room})
        BY <2>1, <2>3 DEF Remaining
      <4>3. room \in Int
        BY <4>1
      <4> HIDE DEF room
      <4>4. Max({0, room}) = IF room > 0 THEN room ELSE 0
        BY <4>3, MaxZero
      <4>5. n > 0
        BY DEF MaxCount
      <4>6. n <= room
        BY <4>2, <4>3, <4>4, <4>5, <1>2
      <4> QED
        BY <4>1, <4>6 DEF room
    <3>2. CASE Limit[k].type = PerDay
      <4>1. s.book.today[k][e] + n <= Limit[k].val
        BY <3>1, <3>2, <1>2, <1>3, <1>8 DEF Used, PerDay, PerCycle, Record
      <4>2. \A c \in Days : s.book.today[k][c] <= Limit[k].val
        BY <1>1, <2>1, <2>3, <3>2 DEF PurchasesLimited, PerDay, PerCycle
      <4>3. \A c \in Days : t.book.today[k][c] <= Limit[k].val
        BY <4>1, <4>2, <1>7
      <4> QED
        BY <4>3, <2>3, <3>2 DEF PerDay, PerCycle
    <3>3. CASE Limit[k].type = PerCycle
      BY <3>1, <3>3, <1>2, <1>3, <1>7, <1>8, <2>3 DEF Used, PerDay, PerCycle, Record
    <3>4. CASE Limit[k].type \notin {PerDay, PerCycle}
      BY <3>1, <3>4, <1>2, <1>3, <1>7, <1>8, <2>3 DEF Used, PerDay, PerCycle, Record
    <3> QED
      BY <3>2, <3>3, <3>4
  <2> QED
    BY <2>2, <2>3
<1> QED
  BY <1>6, <1>9, <1>10, FriendsKept, ProfileKept DEF Good, ShopGood

-----------------------------------------------------------------------------
(* An answer within a day.                                                  *)
LEMMA TodayGood ==
  ASSUME Inv, UNCHANGED day, NEW new, NEW changed, Good(new, day), Answer(new, changed)
  PROVE  Inv'
<1>1. day \in Int
  BY StoreAssumption, DaysAssumption DEF Inv, Days
<1> QED
  BY <1>1, AnswerGood DEF Inv

LEMMA TodaySame ==
  ASSUME Inv, UNCHANGED day, NEW new, NEW changed, Same(mem, new), Answer(new, changed)
  PROVE  Inv'
<1>1. Good(new, day)
  BY SameGood DEF Inv
<1> QED
  BY <1>1, TodayGood

-----------------------------------------------------------------------------
(* Purchases.                                                               *)
LEMMA BuyStep ==
  ASSUME Inv, NEW k \in Goods, NEW n \in Counts, NEW later \in Days, Buy(k, n, later)
  PROVE  Inv'
<1> DEFINE s == Touched(mem, {k}, day)
<1> DEFINE b == Bought(s, k, n, later)
<1> DEFINE B == Purchased(b.book, k, n, later)
<1> DEFINE t == [b EXCEPT !.book = B]
<1>1. /\ later \in {day, day + 1} /\ day' = later
      /\ n \in 1..MaxCount
      /\ Limited(k) => n <= Remaining(k, RecordOn(mem.purchases[k], day))
      /\ Answer(t, TRUE)
  BY DEF Buy, MayBuy
<1>2. day \in Days /\ Good(s, day) /\ Typed(mem)
  BY TouchedGood DEF Inv, Good, ShopGood
<1>3. s.purchases[k] = RecordOn(mem.purchases[k], day)
  BY DEF Touched, Inv, Good, Shape
<1>4. s.purchases[k].dayKey = day
  BY <1>2, <1>3, RecordTyped DEF Typed
<1>5. Shape(s)
  BY <1>2 DEF Good
<1>6. /\ Shape(t) /\ SameFriends(s, t) /\ SameProfile(s, t)
      /\ t.purchases = [s.purchases EXCEPT ![k] = Counted(RecordOn(@, later), n)]
      /\ t.book.today = [s.book.today EXCEPT ![k][later] = @ + n]
      /\ t.book.cycle = [s.book.cycle EXCEPT ![k] = @ + n]
      /\ t.book.ever = [s.book.ever EXCEPT ![k] = @ + n]
  <2>1. /\ Shape(b) /\ SameFriends(s, b) /\ SameProfile(s, b) /\ b.book = s.book
        /\ b.purchases = [s.purchases EXCEPT ![k] = Counted(RecordOn(@, later), n)]
    <3> HIDE DEF s
    <3> QED
      BY <1>5 DEF Shape, SameFriends, SameProfile, Bought
  <2>2. /\ DOMAIN B = DOMAIN b.book
        /\ B.today = [b.book.today EXCEPT ![k][later] = @ + n]
        /\ B.cycle = [b.book.cycle EXCEPT ![k] = @ + n]
        /\ B.ever = [b.book.ever EXCEPT ![k] = @ + n]
        /\ B.stood = b.book.stood /\ B.gifts = b.book.gifts /\ B.told = b.book.told
    <3>1. {"today", "cycle", "ever", "gifts", "stood", "told"} \subseteq DOMAIN b.book
      BY <2>1 DEF Shape
    <3> HIDE DEF b
    <3> QED
      BY <3>1 DEF Purchased
  <2>3. /\ DOMAIN t = DOMAIN b /\ t.book = B
        /\ t.purchases = b.purchases /\ t.friends = b.friends /\ t.name = b.name
        /\ t.remark = b.remark /\ t.guide = b.guide /\ t.groups = b.groups
    <3> HIDE DEF b, B
    <3> QED
      BY <2>1 DEF Shape
  <2>4. Shape(t) /\ SameFriends(b, t) /\ SameProfile(b, t)
    <3> HIDE DEF b, B, t
    <3> QED
      BY <2>1, <2>2, <2>3 DEF Shape, SameFriends, SameProfile
  <2> HIDE DEF b, s, t, B
  <2> QED
    BY <2>1, <2>2, <2>3, <2>4 DEF SameFriends, SameProfile
<1>7. day <= day' /\ day' \in Days
  BY <1>1, <1>2, StoreAssumption, DaysAssumption DEF Days
<1> HIDE DEF s, t
<1>8. Good(t, later)
  BY <1>1, <1>2, <1>3, <1>4, <1>6, BoughtGood
<1> QED
  BY <1>1, <1>7, <1>8, AnswerGood

LEMMA RefreshStep ==
  ASSUME Inv, UNCHANGED day, NEW f \in Stores, RefreshStore(f)
  PROVE  Inv'
<1> DEFINE R == {k \in ShelfOf[f] : Limit[k].type = PerCycle}
<1> DEFINE t == [Refreshed(mem, f, day) EXCEPT
                   !.book.net = Booked(@, RefreshPrice(mem, f), <<>>),
                   !.book.cycle = [k \in Goods |-> IF k \in ShelfOf[f] THEN 0 ELSE @[k]]]
<1> DEFINE s == Touched(mem, R, day)
<1>1. Answer(t, TRUE)
  BY DEF RefreshStore
<1>2. day \in Days /\ Good(mem, day) /\ Good(s, day)
  BY TouchedGood DEF Inv
<1>3. Shape(mem) /\ Shape(s)
  BY <1>2 DEF Good
<1>4. /\ s.purchases = [k \in Goods |-> IF k \in R THEN RecordOn(mem.purchases[k], day)
                                        ELSE mem.purchases[k]]
      /\ s.book = mem.book /\ SameFriends(mem, s) /\ SameProfile(mem, s)
  BY <1>3 DEF Touched, Shape, SameFriends, SameProfile
<1>5. /\ Shape(t) /\ SameFriends(mem, t) /\ SameProfile(mem, t)
      /\ t.purchases = [k \in Goods |->
            IF k \in R THEN [RecordOn(mem.purchases[k], day) EXCEPT !.cycle = 0]
            ELSE mem.purchases[k]]
      /\ t.book.today = mem.book.today /\ t.book.ever = mem.book.ever
      /\ t.book.cycle = [k \in Goods |-> IF k \in ShelfOf[f] THEN 0 ELSE mem.book.cycle[k]]
  BY <1>3 DEF Refreshed, Shape, SameFriends, SameProfile
<1>6. /\ Typed(s) /\ Agrees(s, day) /\ PurchasesLimited(s)
  BY <1>2 DEF Good, ShopGood
<1>7. ASSUME NEW k \in Goods, k \in R
      PROVE  /\ s.purchases[k] \in Record
             /\ t.purchases[k] = [s.purchases[k] EXCEPT !.cycle = 0]
             /\ t.book.cycle[k] = 0
  <2>1. s.purchases[k] = RecordOn(mem.purchases[k], day)
    BY <1>4, <1>7
  <2> QED
    BY <2>1, <1>5, <1>6, <1>7 DEF Typed
<1>8. ASSUME NEW k \in Goods, k \notin R
      PROVE  /\ t.purchases[k] = s.purchases[k]
             /\ Limit[k].type = PerCycle => t.book.cycle[k] = s.book.cycle[k]
  <2>1. t.purchases[k] = s.purchases[k]
    BY <1>4, <1>5, <1>8
  <2>2. ASSUME Limit[k].type = PerCycle PROVE t.book.cycle[k] = s.book.cycle[k]
    <3>1. k \notin ShelfOf[f]
      BY <2>2, <1>8
    <3> QED
      BY <3>1, <1>4, <1>5
  <2> QED
    BY <2>1, <2>2
<1>9. /\ t.book.today = s.book.today /\ t.book.ever = s.book.ever
      /\ \A k \in Goods : t.book.cycle[k] = 0 \/ t.book.cycle[k] = s.book.cycle[k]
  <2> HIDE DEF R, s, t
  <2> QED
    BY <1>4, <1>5
<1>10. ASSUME NEW k \in Goods
       PROVE  /\ t.purchases[k] \in Record
              /\ t.purchases[k].dayKey = s.purchases[k].dayKey
              /\ t.purchases[k].day = s.purchases[k].day
              /\ t.purchases[k].total = s.purchases[k].total
              /\ Limit[k].type = PerCycle => t.purchases[k].cycle = t.book.cycle[k]
  <2> HIDE DEF R, s, t
  <2>1. CASE k \in R
    <3> DEFINE r == s.purchases[k]
    <3>1. r \in Record /\ t.purchases[k] = [r EXCEPT !.cycle = 0] /\ t.book.cycle[k] = 0
      BY <2>1, <1>7
    <3> HIDE DEF r
    <3>2. /\ [r EXCEPT !.cycle = 0] \in Record
          /\ [r EXCEPT !.cycle = 0].dayKey = r.dayKey
          /\ [r EXCEPT !.cycle = 0].day = r.day
          /\ [r EXCEPT !.cycle = 0].total = r.total
          /\ [r EXCEPT !.cycle = 0].cycle = 0
      BY <3>1 DEF Record
    <3> QED
      BY <3>1, <3>2 DEF r
  <2>2. CASE k \notin R
    BY <2>2, <1>8, <1>6 DEF Typed, Agrees
  <2> QED
    BY <2>1, <2>2
<1> HIDE DEF R, s, t
<1>11. Typed(t)
  <2>1. t.purchases \in [Goods -> Record]
    BY <1>5, <1>10
  <2>2. t.book.cycle \in [Goods -> Nat]
    BY <1>5, <1>9, <1>6 DEF Typed
  <2> QED
    BY <2>1, <2>2, <1>6, <1>9 DEF Typed
<1>12. Agrees(t, day)
  BY <1>6, <1>9, <1>10 DEF Agrees
<1>13. PurchasesLimited(t)
  <2>1. SUFFICES ASSUME NEW k \in Goods, Limited(k)
        PROVE  CASE Limit[k].type = PerDay   -> \A c \in Days : t.book.today[k][c] <= Limit[k].val
                 [] Limit[k].type = PerCycle -> t.book.cycle[k] <= Limit[k].val
                 [] OTHER                    -> t.book.ever[k] <= Limit[k].val
    BY DEF PurchasesLimited
  <2>2. Limit[k].val \in Int /\ Limit[k].val > 0
    BY <2>1, StoreAssumption DEF Limited
  <2>3. CASE Limit[k].type = PerDay
    <3>1. \A c \in Days : s.book.today[k][c] <= Limit[k].val
      BY <1>6, <2>1, <2>3 DEF PurchasesLimited, PerDay, PerCycle
    <3> QED
      BY <3>1, <2>3, <1>9 DEF PerDay, PerCycle
  <2>4. CASE Limit[k].type = PerCycle
    <3>1. s.book.cycle[k] <= Limit[k].val
      BY <1>6, <2>1, <2>4 DEF PurchasesLimited, PerDay, PerCycle
    <3>2. t.book.cycle[k] <= Limit[k].val
      BY <3>1, <1>9, <2>2
    <3> QED
      BY <3>2, <2>4 DEF PerDay, PerCycle
  <2>5. CASE Limit[k].type \notin {PerDay, PerCycle}
    <3>1. s.book.ever[k] <= Limit[k].val
      BY <1>6, <2>1, <2>5 DEF PurchasesLimited, PerDay, PerCycle
    <3> QED
      BY <3>1, <2>5, <1>9 DEF PerDay, PerCycle
  <2> QED
    BY <2>3, <2>4, <2>5
<1>14. Good(t, day)
  BY <1>2, <1>5, <1>11, <1>12, <1>13, FriendsKept, ProfileKept DEF Good, ShopGood
<1> QED
  BY <1>1, <1>14, TodayGood

LEMMA ShopStep ==
  ASSUME Inv, Shops
  PROVE  Inv'
<1>1. ASSUME NEW k \in Goods, NEW n \in Counts, BuyDeclined(k, n) PROVE Inv'
  <2>1. Good(Touched(mem, {j \in {k} : n \in 1..MaxCount /\ Limited(j)}, day), day)
    BY TouchedGood DEF Inv
  <2> QED
    BY <1>1, <2>1, TodayGood DEF BuyDeclined
<1>2. CASE BuyLog
  <2>1. Good(Touched(mem, Goods, day), day)
    BY TouchedGood DEF Inv
  <2> QED
    BY <1>2, <2>1, TodayGood DEF BuyLog
<1>3. ASSUME NEW goods, NEW value, Convert(goods, value) PROVE Inv'
  <2> DEFINE given == [i \in DOMAIN goods |->
                         Line(mem.bag[RowOf(mem.bag, goods[i].id)].cid, goods[i].num)]
  <2> DEFINE new == [Converted(mem, goods, value) EXCEPT
                       !.book.net = Booked(@, given, ValueOf(goods, value))]
  <2>1. Answer(new, TRUE) /\ UNCHANGED day
    BY <1>3 DEF Convert
  <2> HIDE DEF given
  <2>2. Same(mem, new)
    BY DEF Converted, Same, Inv, Good, Shape, SameShop, SameFriends, SameProfile
  <2> QED
    BY <2>1, <2>2, TodaySame
<1>4. CASE Midnight
  <2>1. day' \in Days /\ day <= day' /\ mem' = mem /\ disk' = disk
    BY <1>4, StoreAssumption, DaysAssumption DEF Midnight, copies, Inv, Days
  <2> QED
    BY <2>1, LaterGood DEF Inv
<1>5. ASSUME NEW f \in Stores, RefreshStore(f) PROVE Inv'
  BY <1>5, RefreshStep DEF RefreshStore
<1> QED
  BY <1>1, <1>2, <1>3, <1>4, <1>5, BuyStep DEF Shops, SellGoods, UseItems

-----------------------------------------------------------------------------
(* Other players.  What an operation makes of a row stands for the player   *)
(* Stands says, and no row can pay a gift it could not pay before.          *)
LEMMA RowOperated ==
  ASSUME NEW op \in Operations, NEW r \in FriendRow
  PROVE  /\ Operated(op, r) \in FriendRow
         /\ Covered(Operated(op, r)) = Stands(op, r, Covered(r))
         /\ Operated(op, r).receive => r.receive /\ ~(op = 8 /\ Receives(r))
<1> DEFINE q == Operated(op, r)
<1> SUFFICES /\ q \in FriendRow
             /\ Covered(q) = Stands(op, r, Covered(r))
             /\ q.receive => r.receive /\ ~(op = 8 /\ Receives(r))
  OBVIOUS
<1> USE DEF Gone, Friend, Shielding, Applied, Added, Invited, Unshielded
<1>1. /\ DOMAIN r = {"status", "previous", "canSend", "receive"}
      /\ r.status \in {Gone, Shielding} \cup Unshielded
      /\ r.previous \in {Gone} \cup Unshielded
      /\ r.canSend \in BOOLEAN /\ r.receive \in BOOLEAN
  BY DEF FriendRow
<1>2. /\ NoFriend \in FriendRow /\ Covered(NoFriend) = Gone /\ NoFriend.status = Gone
      /\ ~NoFriend.receive
  BY DEF NoFriend, FriendRow, Covered
<1>3. CASE op = 1
  <2>1. q = IF r.status = Added THEN [r EXCEPT !.status = Applied] ELSE r
    BY <1>3 DEF Operated
  <2>2. Stands(op, r, Covered(r)) = IF r.status = Shielding THEN Covered(r) ELSE q.status
    BY <1>3 DEF Stands
  <2>3. [r EXCEPT !.status = Applied] \in FriendRow
    BY DEF FriendRow
  <2> HIDE DEF q
  <2> QED
    BY <1>1, <1>3, <2>1, <2>2, <2>3 DEF Covered
<1>4. CASE op = 2
  <2>1. q = NoFriend /\ Stands(op, r, Covered(r)) = Gone
    BY <1>4 DEF Operated, Stands
  <2> HIDE DEF q
  <2> QED
    BY <1>2, <1>4, <2>1
<1>5. CASE op = 3
  <2>1. q = Shielded(r) /\ Stands(op, r, Covered(r)) = Covered(r)
    BY <1>5 DEF Operated, Stands
  <2>2. r.status \in Unshielded =>
          [r EXCEPT !.status = Shielding, !.previous = r.status] \in FriendRow
    BY DEF FriendRow
  <2> HIDE DEF q
  <2> QED
    BY <1>1, <1>5, <2>1, <2>2 DEF Shielded, Covered
<1>6. CASE op = 4
  <2>1. q = Lifted(r) /\ Stands(op, r, Covered(r)) = Covered(r)
    BY <1>6 DEF Operated, Stands
  <2>2. r.previous \in Unshielded =>
          [r EXCEPT !.status = r.previous, !.previous = Gone] \in FriendRow
    BY DEF FriendRow
  <2> HIDE DEF q
  <2>3. CASE r.status # Shielding
    BY <1>1, <1>6, <2>1, <2>3 DEF Lifted
  <2>4. CASE r.status = Shielding /\ r.previous \in Unshielded
    <3>1. q = [r EXCEPT !.status = r.previous, !.previous = Gone]
      BY <2>1, <2>4 DEF Lifted
    <3> QED
      BY <1>1, <1>6, <2>1, <2>2, <2>4, <3>1 DEF Covered
  <2>5. CASE r.status = Shielding /\ r.previous \notin Unshielded
    <3>1. q = NoFriend /\ Covered(r) = Gone
      BY <1>1, <2>1, <2>5 DEF Lifted, Covered
    <3> QED
      BY <1>2, <2>1, <3>1
  <2> QED
    BY <2>3, <2>4, <2>5
<1>7. CASE op = 5
  <2>1. q = IF r.status = Applied THEN [r EXCEPT !.status = Friend, !.previous = Gone] ELSE r
    BY <1>7 DEF Operated
  <2>2. Stands(op, r, Covered(r)) = IF r.status = Shielding THEN Covered(r) ELSE q.status
    BY <1>7 DEF Stands
  <2>3. [r EXCEPT !.status = Friend, !.previous = Gone] \in FriendRow
    BY DEF FriendRow
  <2> HIDE DEF q
  <2> QED
    BY <1>1, <1>7, <2>1, <2>2, <2>3 DEF Covered
<1>8. CASE op = 6
  <2>1. q = IF r.status = Applied THEN NoFriend ELSE r
    BY <1>8 DEF Operated
  <2>2. Stands(op, r, Covered(r)) = IF r.status = Shielding THEN Covered(r) ELSE q.status
    BY <1>8 DEF Stands
  <2> HIDE DEF q
  <2> QED
    BY <1>1, <1>2, <1>8, <2>1, <2>2 DEF Covered
<1>9. CASE op = 7
  <2>1. q = IF r.status = Friend THEN [r EXCEPT !.canSend = FALSE] ELSE r
    BY <1>9 DEF Operated
  <2>2. Stands(op, r, Covered(r)) = IF r.status = Shielding THEN Covered(r) ELSE q.status
    BY <1>9 DEF Stands
  <2>3. [r EXCEPT !.canSend = FALSE] \in FriendRow
    BY DEF FriendRow
  <2> HIDE DEF q
  <2> QED
    BY <1>1, <1>9, <2>1, <2>2, <2>3 DEF Covered
<1>10. CASE op = 8
  <2>1. q = IF Receives(r) THEN [r EXCEPT !.receive = FALSE] ELSE r
    BY <1>10 DEF Operated, Received
  <2>2. Stands(op, r, Covered(r)) = IF r.status = Shielding THEN Covered(r) ELSE q.status
    BY <1>10 DEF Stands
  <2>3. [r EXCEPT !.receive = FALSE] \in FriendRow
    BY DEF FriendRow
  <2> HIDE DEF q
  <2> QED
    BY <1>1, <1>10, <2>1, <2>2, <2>3 DEF Covered
<1> HIDE DEF q
<1> QED
  BY <1>3, <1>4, <1>5, <1>6, <1>7, <1>8, <1>9, <1>10 DEF Operations

LEMMA MeetStep ==
  ASSUME Inv, UNCHANGED day, Meets
  PROVE  Inv'
<1> PICK op \in Operations, named \in PidSets : OperateFriends(op, named)
  BY DEF Meets
<1> DEFINE new == Socialized(mem, op, named)
<1> DEFINE gifts == [p \in Pids |->
                       mem.book.gifts[p] + IF p \in GiftsFrom(mem, op, named) THEN 1 ELSE 0]
<1> DEFINE stood == [p \in Pids |-> IF p \in Targets(named)
                       THEN Stands(op, mem.friends[p], mem.book.stood[p])
                       ELSE mem.book.stood[p]]
<1> DEFINE t == [new EXCEPT !.book.gifts = gifts, !.book.stood = stood]
<1>1. Good(mem, day) /\ Shape(mem) /\ FriendsGood(mem)
  BY DEF Inv, Good
<1>2. /\ Shape(new) /\ SameShop(mem, new) /\ SameProfile(mem, new)
      /\ new.book = mem.book
      /\ new.friends = FriendsAfter(mem, op, named)
  BY <1>1 DEF Socialized, Shape, SameShop, SameProfile
<1>3. Answer(t, new.friends # mem.friends)
  BY <1>2 DEF OperateFriends
<1>4. /\ Shape(t) /\ SameShop(new, t) /\ SameProfile(new, t)
      /\ t.friends = new.friends /\ t.book.gifts = gifts /\ t.book.stood = stood
  <2> HIDE DEF new, gifts, stood
  <2> QED
    BY <1>2 DEF Shape, SameShop, SameProfile
<1> HIDE DEF new, t
<1>5. t.friends = [p \in Pids |-> IF p \in Targets(named) THEN Operated(op, mem.friends[p])
                                 ELSE mem.friends[p]]
  BY <1>2, <1>4 DEF FriendsAfter
<1>6. ASSUME NEW p \in Pids
      PROVE  /\ t.friends[p] \in FriendRow
             /\ stood[p] = Covered(t.friends[p])
             /\ gifts[p] \in Nat
             /\ gifts[p] <= IF t.friends[p].receive THEN 0 ELSE 1
  <2> DEFINE r == mem.friends[p]
  <2> DEFINE q == Operated(op, r)
  <2>1. /\ r \in FriendRow /\ mem.book.stood[p] = Covered(r)
        /\ mem.book.gifts[p] \in Nat
        /\ mem.book.gifts[p] <= IF r.receive THEN 0 ELSE 1
    BY <1>1 DEF FriendsGood, GiftsOnce
  <2>2. /\ q \in FriendRow /\ Covered(q) = Stands(op, r, Covered(r))
        /\ q.receive => r.receive /\ ~(op = 8 /\ Receives(r))
    <3> HIDE DEF r
    <3> QED
      BY <2>1, RowOperated
  <2>3. p \in GiftsFrom(mem, op, named) =>
          p \in Targets(named) /\ op = 8 /\ Receives(r) /\ r.receive
    BY DEF GiftsFrom, Receives
  <2>4. gifts[p] = mem.book.gifts[p] + IF p \in GiftsFrom(mem, op, named) THEN 1 ELSE 0
    OBVIOUS
  <2>5. CASE p \in Targets(named)
    <3>1. t.friends[p] = q /\ stood[p] = Stands(op, r, mem.book.stood[p])
      BY <1>5, <2>5
    <3> HIDE DEF q, r, gifts, stood
    <3> QED
      BY <3>1, <2>1, <2>2, <2>3, <2>4
  <2>6. CASE p \notin Targets(named)
    <3>1. t.friends[p] = r /\ stood[p] = mem.book.stood[p]
      BY <1>5, <2>6
    <3> HIDE DEF q, r, gifts, stood
    <3> QED
      BY <3>1, <2>6, <2>1, <2>3, <2>4
  <2> QED
    BY <2>5, <2>6
<1>7. FriendsGood(t)
  <2>1. t.friends \in [Pids -> FriendRow]
    BY <1>5, <1>6
  <2>2. stood = [p \in Pids |-> Covered(t.friends[p])] /\ gifts \in [Pids -> Nat]
    BY <1>6
  <2> HIDE DEF gifts, stood
  <2> QED
    BY <2>1, <2>2, <1>4, <1>6 DEF FriendsGood, GiftsOnce
<1>8. SameShop(mem, t) /\ SameProfile(mem, t)
  BY <1>2, <1>4 DEF SameShop, SameProfile
<1>9. Good(t, day)
  BY <1>1, <1>4, <1>7, <1>8, ShopKept, ProfileKept DEF Good
<1> QED
  BY <1>3, <1>9, TodayGood

-----------------------------------------------------------------------------
(* The guide.                                                               *)
LEMMA GuideStepStep ==
  ASSUME Inv, UNCHANGED day, NEW g, ReportGuide(g)
  PROVE  Inv'
<1> DEFINE new == Guided(mem, g)
<1> DEFINE steps == IF Reports(g) THEN mem.book.told.steps \cup {g} ELSE mem.book.told.steps
<1> DEFINE t == [new EXCEPT !.book.told.steps = steps]
<1>1. Good(mem, day) /\ Shape(mem) /\ ProfileGood(mem)
  BY DEF Inv, Good
<1>2. /\ Shape(new) /\ SameShop(mem, new) /\ SameFriends(mem, new)
      /\ new.book = mem.book /\ new.groups = mem.groups
      /\ new.name = mem.name /\ new.remark = mem.remark
      /\ new.guide = IF MovesOn(mem, g) THEN NextStep(g) ELSE mem.guide
  BY <1>1 DEF Guided, Shape, SameShop, SameFriends
<1>3. Answer(t, MovesOn(mem, g))
  BY <1>2 DEF ReportGuide
<1>4. /\ Shape(t) /\ SameShop(new, t) /\ SameFriends(new, t)
      /\ t.guide = new.guide /\ t.groups = new.groups
      /\ t.name = new.name /\ t.remark = new.remark
      /\ t.book.told = [new.book.told EXCEPT !.steps = steps]
  <2> HIDE DEF new, steps
  <2> QED
    BY <1>2 DEF Shape, SameShop, SameFriends
<1>5. /\ t.book.told.resumed = mem.book.told.resumed /\ t.book.told.steps = steps
      /\ t.book.told.groups = mem.book.told.groups
      /\ t.book.told.name = mem.book.told.name
      /\ t.book.told.remark = mem.book.told.remark
  <2> HIDE DEF new, steps, t
  <2> QED
    BY <1>1, <1>2, <1>4 DEF Shape
<1> HIDE DEF new, t
<1>6. /\ mem.guide \in Nat /\ GuideStep(mem) \in Nat /\ mem.book.told.resumed \in Nat
      /\ mem.book.told.steps \subseteq Nat
      /\ GuideStep(mem) \in Reached(mem.book.told)
      /\ \A x \in Reached(mem.book.told) : x <= GuideStep(mem)
  BY <1>1 DEF ProfileGood, GuideStep, FirstStep
<1>7. Reports(g) => g \in Nat /\ NextStep(g) \in Nat
  BY GuideAssumption DEF Reports, NextStep
<1>8. Reached(t.book.told) =
        IF Reports(g) THEN Reached(mem.book.told) \cup {NextStep(g)} ELSE Reached(mem.book.told)
  BY <1>5 DEF Reached
<1>9. /\ t.guide \in Nat
      /\ GuideStep(t) \in Reached(t.book.told)
      /\ \A x \in Reached(t.book.told) : x <= GuideStep(t)
  <2>1. CASE MovesOn(mem, g)
    <3>1. Reports(g) /\ NextStep(g) > GuideStep(mem) /\ t.guide = NextStep(g)
      BY <2>1, <1>2, <1>4 DEF MovesOn
    <3>2. GuideStep(mem) >= 1
      BY <1>6 DEF GuideStep, FirstStep
    <3>3. GuideStep(t) = NextStep(g)
      BY <3>1, <3>2, <1>6, <1>7 DEF GuideStep, FirstStep
    <3>4. ASSUME NEW x \in Reached(mem.book.told) PROVE x <= NextStep(g)
      <4>1. x \in Nat
        BY <1>6, GuideAssumption DEF Reached, NextStep
      <4> QED
        BY <4>1, <3>1, <1>6, <1>7
    <3> QED
      BY <3>1, <3>3, <3>4, <1>7, <1>8
  <2>2. CASE ~MovesOn(mem, g)
    <3>1. t.guide = mem.guide /\ GuideStep(t) = GuideStep(mem)
      BY <2>2, <1>2, <1>4 DEF GuideStep
    <3>2. Reports(g) => NextStep(g) <= GuideStep(mem)
      BY <2>2, <1>6, <1>7 DEF MovesOn
    <3> QED
      BY <3>1, <3>2, <1>6, <1>8
  <2> QED
    BY <2>1, <2>2
<1>10. ProfileGood(t)
  <2>1. steps \subseteq Nat
    BY <1>6, <1>7
  <2> HIDE DEF steps
  <2> QED
    BY <2>1, <1>1, <1>2, <1>4, <1>5, <1>6, <1>9 DEF ProfileGood
<1>11. SameShop(mem, t) /\ SameFriends(mem, t)
  BY <1>2, <1>4 DEF SameShop, SameFriends
<1>12. Good(t, day)
  BY <1>1, <1>4, <1>10, <1>11, ShopKept, FriendsKept DEF Good
<1> QED
  BY <1>3, <1>12, TodayGood

LEMMA GroupStep ==
  ASSUME Inv, UNCHANGED day, NEW g, PlayGroup(g)
  PROVE  Inv'
<1> DEFINE new == GroupDone(mem, g)
<1> DEFINE groups == IF g > 0 THEN mem.book.told.groups \cup {g} ELSE mem.book.told.groups
<1> DEFINE t == [new EXCEPT !.book.told.groups = groups]
<1>1. Good(mem, day) /\ Shape(mem) /\ ProfileGood(mem)
  BY DEF Inv, Good
<1>2. /\ Shape(new) /\ SameShop(mem, new) /\ SameFriends(mem, new)
      /\ new.book = mem.book /\ new.guide = mem.guide
      /\ new.name = mem.name /\ new.remark = mem.remark
      /\ new.groups = groups
  BY <1>1 DEF GroupDone, Shape, SameShop, SameFriends, ProfileGood
<1>3. Answer(t, new # mem)
  BY <1>2 DEF PlayGroup
<1>4. /\ Shape(t) /\ SameShop(new, t) /\ SameFriends(new, t)
      /\ t.guide = new.guide /\ t.groups = new.groups
      /\ t.name = new.name /\ t.remark = new.remark
      /\ t.book.told = [new.book.told EXCEPT !.groups = groups]
  <2> HIDE DEF new, groups
  <2> QED
    BY <1>2 DEF Shape, SameShop, SameFriends
<1> HIDE DEF new, groups, t
<1>5. /\ t.book.told.groups = groups
      /\ t.book.told.resumed = mem.book.told.resumed
      /\ t.book.told.steps = mem.book.told.steps
      /\ t.book.told.name = mem.book.told.name
      /\ t.book.told.remark = mem.book.told.remark
  BY <1>1, <1>2, <1>4 DEF Shape
<1>6. ProfileGood(t)
  BY <1>1, <1>2, <1>4, <1>5 DEF ProfileGood, GuideStep, Reached
<1>7. SameShop(mem, t) /\ SameFriends(mem, t)
  BY <1>2, <1>4 DEF SameShop, SameFriends
<1>8. Good(t, day)
  BY <1>1, <1>4, <1>6, <1>7, ShopKept, FriendsKept DEF Good
<1> QED
  BY <1>3, <1>8, TodayGood

LEMMA NameStep ==
  ASSUME Inv, UNCHANGED day, NEW name, NEW remark, SetPlayerInfo(name, remark)
  PROVE  Inv'
<1> DEFINE new == Introduced(mem, name, remark)
<1> DEFINE called == IF name = Blank THEN mem.book.told.name ELSE name
<1> DEFINE said == IF remark = NotGiven THEN mem.book.told.remark ELSE remark
<1> DEFINE t == [new EXCEPT !.book.told.name = called, !.book.told.remark = said]
<1>1. Good(mem, day) /\ Shape(mem) /\ ProfileGood(mem)
  BY DEF Inv, Good
<1>2. /\ Shape(new) /\ SameShop(mem, new) /\ SameFriends(mem, new)
      /\ new.book = mem.book /\ new.guide = mem.guide /\ new.groups = mem.groups
      /\ new.name = called /\ new.remark = said
  BY <1>1 DEF Introduced, Shape, SameShop, SameFriends, ProfileGood
<1>3. Answer(t, new # mem)
  BY <1>2 DEF SetPlayerInfo
<1>4. /\ Shape(t) /\ SameShop(new, t) /\ SameFriends(new, t)
      /\ t.guide = new.guide /\ t.groups = new.groups
      /\ t.name = new.name /\ t.remark = new.remark
      /\ t.book.told = [new.book.told EXCEPT !.name = called, !.remark = said]
  <2> HIDE DEF new, called, said
  <2> QED
    BY <1>2 DEF Shape, SameShop, SameFriends
<1> HIDE DEF new, called, said, t
<1>5. /\ t.book.told.name = called /\ t.book.told.remark = said
      /\ t.book.told.resumed = mem.book.told.resumed
      /\ t.book.told.steps = mem.book.told.steps
      /\ t.book.told.groups = mem.book.told.groups
  BY <1>1, <1>2, <1>4 DEF Shape
<1>6. ProfileGood(t)
  BY <1>1, <1>2, <1>4, <1>5 DEF ProfileGood, GuideStep, Reached
<1>7. SameShop(mem, t) /\ SameFriends(mem, t)
  BY <1>2, <1>4 DEF SameShop, SameFriends
<1>8. Good(t, day)
  BY <1>1, <1>4, <1>6, <1>7, ShopKept, FriendsKept DEF Good
<1> QED
  BY <1>3, <1>8, TodayGood

-----------------------------------------------------------------------------
(* Handlers that leave the fields alone.                                    *)
LEMMA CollectStep ==
  ASSUME Inv, UNCHANGED day, Collects
  PROVE  Inv'
<1>1. Shape(mem)
  BY DEF Inv, Good
<1> USE <1>1 DEF Same, Shape, SameShop, SameFriends, SameProfile
<1>2. ASSUME NEW ids, ReadMails(ids) PROVE Inv'
  <2>1. Same(mem, MailsRead(mem, ids))
    BY DEF MailsRead
  <2> QED
    BY <1>2, <2>1, TodaySame DEF ReadMails
<1>3. ASSUME NEW ids, CollectMails(ids) PROVE Inv'
  <2> DEFINE found == ToCollect(mem, ids)
  <2> DEFINE paid == [m \in Mails |->
                 mem.book.mailPaid[m] + Cardinality({i \in DOMAIN found : found[i] = m})]
  <2> DEFINE new == [MailsCollected(mem, ids) EXCEPT
                       !.book.net = Booked(@, <<>>, AttachedTo(found)),
                       !.book.mailPaid = paid]
  <2>1. MailsCollected(mem, ids).book = mem.book
    BY DEF MailsCollected
  <2>2. Answer(new, found # <<>>)
    BY <1>3, <2>1 DEF CollectMails
  <2> HIDE DEF found, paid
  <2>3. Same(mem, new)
    BY DEF MailsCollected
  <2> QED
    BY <2>2, <2>3, TodaySame
<1>4. ASSUME NEW ids, DeleteMails(ids) PROVE Inv'
  <2>1. Same(mem, MailsDeleted(mem, ids))
    BY DEF MailsDeleted
  <2> QED
    BY <1>4, <2>1, TodaySame DEF DeleteMails
<1>5. ASSUME NEW ids, SubmitTasks(ids) PROVE Inv'
  <2> DEFINE paid == {u \in Tasks : Pays(mem, u) /\ In(ids, u)}
  <2> DEFINE net == [c \in Cids |->
                 mem.book.net[c] + SumFunction([u \in paid |-> Worth(TaskPays[u], c)])]
  <2> DEFINE tasks == [u \in Tasks |-> mem.book.taskPaid[u] + IF u \in paid THEN 1 ELSE 0]
  <2> DEFINE new == [TasksClaimed(mem, ids) EXCEPT !.book.net = net, !.book.taskPaid = tasks]
  <2>1. TasksClaimed(mem, ids).book = mem.book
    BY DEF TasksClaimed
  <2>2. Answer(new, paid # {})
    BY <1>5, <2>1 DEF SubmitTasks
  <2> HIDE DEF paid, net, tasks
  <2>3. Same(mem, new)
    BY DEF TasksClaimed
  <2> QED
    BY <2>2, <2>3, TodaySame
<1>6. ASSUME NEW n \in Signs, SubmitSign(n) PROVE Inv'
  <2> DEFINE new == [Signed(mem, n) EXCEPT
                       !.book.net = Booked(@, <<>>, SignPays[n]),
                       !.book.signPaid[n] = @ + 1]
  <2>1. Answer(new, TRUE)
    BY <1>6 DEF SubmitSign
  <2>2. Same(mem, new)
    BY DEF Signed
  <2> QED
    BY <2>1, <2>2, TodaySame
<1> QED
  BY <1>2, <1>3, <1>4, <1>5, <1>6 DEF Collects

LEMMA SpendStep ==
  ASSUME Inv, UNCHANGED day, Spends
  PROVE  Inv'
<1>1. Shape(mem)
  BY DEF Inv, Good
<1> USE <1>1 DEF Same, Shape, SameShop, SameFriends, SameProfile
<1>2. ASSUME NEW lines, Puts(lines) PROVE Inv'
  <2>1. Same(mem, [mem EXCEPT !.spirit = PointsPut(@, lines)])
    OBVIOUS
  <2> QED
    BY <1>2, <2>1, TodaySame DEF Puts
<1>3. CASE ShowSpirits
  <2>1. Same(mem, Shown(mem))
    BY DEF Shown
  <2> QED
    BY <1>3, <2>1, TodaySame DEF ShowSpirits
<1>4. CASE SpiritInfo
  <2>1. Same(mem, [mem EXCEPT !.spirit = Normal(@)])
    OBVIOUS
  <2> QED
    BY <1>4, <2>1, TodaySame DEF SpiritInfo
<1> QED
  BY <1>2, <1>3, <1>4 DEF Spends

LEMMA StoryStep ==
  ASSUME Inv, UNCHANGED day, (\E r \in Scripts : GetScript(r)) \/ LastNode
  PROVE  Inv'
<1>1. Shape(mem)
  BY DEF Inv, Good
<1> USE <1>1 DEF Same, Shape, SameShop, SameFriends, SameProfile
<1>2. ASSUME NEW r, GetScript(r) PROVE Inv'
  <2>1. Same(mem, Started(mem, r))
    BY DEF Started
  <2> QED
    BY <1>2, <2>1, TodaySame DEF GetScript
<1>3. CASE LastNode
  <2>1. Same(mem, Ended(mem))
    BY DEF Ended
  <2> QED
    BY <1>3, <2>1, TodaySame DEF LastNode
<1> QED
  BY <1>2, <1>3

LEMMA ReconnectStep ==
  ASSUME Inv, Reconnect
  PROVE  Inv'
<1>1. CASE Relog /\ UNCHANGED day
  BY <1>1 DEF Relog, Inv
<1>2. CASE LoginSave /\ UNCHANGED day
  BY <1>2, TodayGood DEF LoginSave, Inv
<1> QED
  BY <1>1, <1>2 DEF Reconnect

-----------------------------------------------------------------------------
(* The save a player comes with, repaired: whatever its schema was.         *)
LEMMA InitGood == Init => Inv
<1> SUFFICES ASSUME Init PROVE Inv
  OBVIOUS
<1> PICK start \in StartSaves :
           Loaded(WithBook(Repaired(start.save, start.coins)))
  BY DEF Init
<1> DEFINE s == Repaired(start.save, start.coins)
<1> DEFINE t == WithBook(s)
<1>1. mem = t /\ disk = t
  BY DEF Loaded
<1>2. day = NoDay + 1 /\ day \in Days
  BY StoreAssumption, DaysAssumption DEF Init, Days
<1>3. /\ DOMAIN s = DOMAIN start.save
      /\ s.purchases = start.save.purchases /\ s.friends = start.save.friends
      /\ s.name = start.save.name /\ s.remark = start.save.remark
      /\ s.groups = start.save.groups
      /\ s.guide \in Nat
  BY StartAssumption, RepairAssumption DEF Repaired, IsSave
<1>4. /\ {"purchases", "friends", "name", "remark", "guide", "groups"} \subseteq DOMAIN s
      /\ s.purchases = [k \in Goods |-> NewRecord]
      /\ s.friends \in [Pids -> FriendRow]
  BY <1>3, StartAssumption DEF IsSave
<1> HIDE DEF s
<1>5. /\ DOMAIN t = DOMAIN s \cup {"book"} /\ t.book = Opening(s)
      /\ t.purchases = s.purchases /\ t.friends = s.friends /\ t.name = s.name
      /\ t.remark = s.remark /\ t.guide = s.guide /\ t.groups = s.groups
  BY <1>4 DEF WithBook
<1> HIDE DEF t
<1>6. /\ t.book.today = [k \in Goods |-> [d \in Days |-> 0]]
      /\ t.book.cycle = [k \in Goods |-> 0] /\ t.book.ever = [k \in Goods |-> 0]
      /\ t.book.gifts = [p \in Pids |-> 0]
      /\ t.book.stood = [p \in Pids |-> Covered(s.friends[p])]
      /\ t.book.told = [name |-> s.name, remark |-> s.remark, groups |-> s.groups,
                        resumed |-> GuideStep(s), steps |-> {}]
  BY <1>5 DEF Opening
<1>7. Shape(t)
  <2>1. {"today", "cycle", "ever", "gifts", "stood", "told"} \subseteq DOMAIN t.book
    BY <1>5 DEF Opening
  <2> QED
    BY <2>1, <1>4, <1>5, <1>6 DEF Shape
<1>8. \A k \in Goods : /\ t.purchases[k] \in Record
                       /\ t.purchases[k].dayKey = NoDay /\ t.purchases[k].day = 0
                       /\ t.purchases[k].cycle = 0 /\ t.purchases[k].total = 0
  BY <1>4, <1>5 DEF NewRecord, Record
<1>9. Typed(t)
  <2>1. t.purchases \in [Goods -> Record]
    BY <1>4, <1>5, <1>8
  <2> QED
    BY <2>1, <1>6 DEF Typed
<1>10. Agrees(t, day)
  <2>1. NoDay <= day
    BY <1>2, StoreAssumption
  <2>2. \A d \in Days : d # NoDay
    BY StoreAssumption, DaysAssumption DEF Days
  <2>3. \A k \in Goods : /\ t.book.ever[k] = 0 /\ t.book.cycle[k] = 0
                         /\ \A d \in Days : t.book.today[k][d] = 0
    BY <1>6
  <2> QED
    BY <2>1, <2>2, <2>3, <1>8 DEF Agrees
<1>11. PurchasesLimited(t)
  <2>1. ASSUME NEW k \in Goods, Limited(k)
        PROVE  CASE Limit[k].type = PerDay   -> \A c \in Days : t.book.today[k][c] <= Limit[k].val
                 [] Limit[k].type = PerCycle -> t.book.cycle[k] <= Limit[k].val
                 [] OTHER                    -> t.book.ever[k] <= Limit[k].val
    <3>1. Limit[k].val \in Int /\ Limit[k].val > 0
      BY <2>1, StoreAssumption DEF Limited
    <3>2. /\ t.book.ever[k] <= Limit[k].val /\ t.book.cycle[k] <= Limit[k].val
          /\ \A c \in Days : t.book.today[k][c] <= Limit[k].val
      BY <3>1, <1>6
    <3> QED
      BY <3>2 DEF PerDay, PerCycle
  <2> QED
    BY <2>1 DEF PurchasesLimited
<1>12. FriendsGood(t)
  <2>1. \A p \in Pids : t.book.gifts[p] <= IF t.friends[p].receive THEN 0 ELSE 1
    BY <1>6
  <2> QED
    BY <2>1, <1>4, <1>5, <1>6 DEF FriendsGood, GiftsOnce
<1>13. ProfileGood(t)
  <2>1. GuideStep(t) = GuideStep(s) /\ GuideStep(s) \in Nat
    BY <1>3, <1>5 DEF GuideStep, FirstStep
  <2>2. Reached(t.book.told) = {GuideStep(s)}
    BY <1>6 DEF Reached
  <2> QED
    BY <2>1, <2>2, <1>3, <1>5, <1>6 DEF ProfileGood
<1>14. Good(t, day)
  BY <1>7, <1>9, <1>10, <1>11, <1>12, <1>13 DEF Good, ShopGood
<1> QED
  BY <1>1, <1>2, <1>14 DEF Inv

LEMMA NextGood == Inv /\ [Next]_vars => Inv'
<1> SUFFICES ASSUME Inv, [Next]_vars PROVE Inv'
  OBVIOUS
<1>1. CASE Shops
  BY <1>1, ShopStep
<1>2. CASE Collects /\ UNCHANGED day
  BY <1>2, CollectStep
<1>3. CASE Meets /\ UNCHANGED day
  BY <1>3, MeetStep
<1>4. CASE Spends /\ UNCHANGED day
  BY <1>4, SpendStep
<1>5. CASE Presents /\ UNCHANGED day
  BY <1>5, GuideStepStep, GroupStep, NameStep DEF Presents
<1>6. CASE ((\E r \in Scripts : GetScript(r)) \/ LastNode) /\ UNCHANGED day
  BY <1>6, StoryStep
<1>7. CASE Reconnect
  BY <1>7, ReconnectStep
<1>8. CASE UNCHANGED vars
  BY <1>8 DEF vars, copies, Inv
<1> QED
  BY <1>1, <1>2, <1>3, <1>4, <1>5, <1>6, <1>7, <1>8 DEF Next

(* In both copies of the save the purchase records, the friends and the     *)
(* profile agree with what the player was told, whatever he does, whenever  *)
(* a write fails or he reconnects.                                          *)
THEOREM InvTheorem == Spec => []Inv
<1> QED
  BY InitGood, NextGood, PTL DEF Spec

(* Nobody buys more than the limit of a commodity allows within a day,      *)
(* between two refreshes, or ever, also over midnight (_store_buy,          *)
(* _purchase_record, _store_refresh).                                       *)
THEOREM LimitsTheorem == Spec => []LimitsKept
<1>1. Inv => LimitsKept
  BY DEF Inv, Good, ShopGood, LimitsKept
<1> QED
  BY <1>1, InvTheorem, PTL

(* A friend's gift is received at most once (_operate_friend).              *)
THEOREM GiftsTheorem == Spec => [](\A s \in {mem, disk} : GiftsOnce(s))
<1>1. Inv => \A s \in {mem, disk} : GiftsOnce(s)
  BY DEF Inv, Good, FriendsGood
<1> QED
  BY <1>1, InvTheorem, PTL

(* Shielding a player and lifting the shield loses nothing                  *)
(* (_operate_friend).                                                       *)
THEOREM ShieldTheorem == Spec => []ShieldKeeps
<1>1. Inv => ShieldKeeps
  BY DEF Inv, Good, FriendsGood, ShieldKeeps
<1> QED
  BY <1>1, InvTheorem, PTL

(* The player resumes the guide behind the furthest step he ever reported   *)
(* or came with, whatever the Guide table skips (guide_progress,            *)
(* new_guide_next_step); groups, name and remark are what he last gave.     *)
THEOREM ReportsTheorem == Spec => []ReportsKept
<1>1. ASSUME NEW s, ProfileGood(s) PROVE GuideStep(s) = Max(Reached(s.book.told))
  <2> DEFINE R == Reached(s.book.told)
  <2>1. \A x \in R : x \in Int
    BY <1>1, GuideAssumption DEF ProfileGood, Reached, NextStep, GuideStep
  <2>2. GuideStep(s) \in R /\ \A x \in R : x <= GuideStep(s)
    BY <1>1 DEF ProfileGood
  <2> HIDE DEF R
  <2>3. ASSUME NEW x \in R, \A y \in R : x >= y PROVE x = GuideStep(s)
    <3>1. x >= GuideStep(s) /\ x <= GuideStep(s)
      BY <2>2, <2>3
    <3>2. x \in Int /\ GuideStep(s) \in Int
      BY <2>1, <2>2
    <3> HIDE DEF GuideStep
    <3> QED
      BY <3>1, <3>2
  <2>4. \A y \in R : GuideStep(s) >= y
    BY <2>1, <2>2
  <2> QED
    BY <2>2, <2>3, <2>4 DEF Max, R
<1>2. Inv => ReportsKept
  BY <1>1 DEF Inv, Good, ProfileGood, ReportsKept
<1> QED
  BY <1>2, InvTheorem, PTL

(* ValueOf, one line after the other.                                       *)
ValueSteps(goods, value, g) ==
  g = [s \in SUBSET DOMAIN goods |->
         IF s = {} THEN <<>>
         ELSE g[s \ {Max(s)}] \o Times(value[goods[Max(s)].id], goods[Max(s)].num)]

ValueRuns(goods, value, V, p) ==
  /\ p \in [0..Len(goods) -> V] /\ p[0] = <<>>
  /\ \A k \in 1..Len(goods) :
       p[k] = p[k - 1] \o Times(value[goods[k].id], goods[k].num)
  /\ p[Len(goods)] = ValueOf(goods, value)

LEMMA ValueWalk ==
  ASSUME NEW goods, NEW value, IsSeq(goods), NEW V, <<>> \in V,
         \A i \in DOMAIN goods : \A v \in V : (v \o Times(value[goods[i].id], goods[i].num)) \in V
  PROVE  \E p : ValueRuns(goods, value, V, p)
<1> DEFINE n == Len(goods)
<1> DEFINE base == <<>>
<1> DEFINE step == [i \in 1..n |-> [v \in V |->
                      v \o Times(value[goods[i].id], goods[i].num)]]
<1> DEFINE h == CHOOSE g : ValueSteps(goods, value, g)
<1>1. n \in Nat /\ DOMAIN goods = 1..n
  BY SeqFacts
<1>2. base \in V
  OBVIOUS
<1>3. StepsIn(1..n, V, step)
  BY <1>1 DEF StepsIn
<1>4. \A i \in 1..n : \A v \in V :
        step[i][v] = v \o Times(value[goods[i].id], goods[i].num)
  OBVIOUS
<1>5. ValueOf(goods, value) = h[1..n]
  BY <1>1 DEF ValueOf, FoldLeft, MapThenFoldSet, ValueSteps
<1> HIDE DEF n, step, base
<1>6. PICK g : LeftSteps(n, V, base, step, g)
  BY <1>1, <1>2, <1>3, LeftFoldExists
<1>7. ValueSteps(goods, value, g)
  <2>1. ASSUME NEW s \in SUBSET (1..n), s # {}
        PROVE  g[s] = g[s \ {Max(s)}] \o Times(value[goods[Max(s)].id], goods[Max(s)].num)
    BY <1>4, <1>6, <2>1 DEF LeftSteps
  <2> QED
    BY <1>1, <1>6, <2>1 DEF LeftSteps, ValueSteps, base
<1>8. ValueSteps(goods, value, h)
  BY <1>7
<1> HIDE DEF h
<1>9. LeftUnfolds(n, V, base, step, h)
  BY <1>1, <1>4, <1>8 DEF LeftUnfolds, ValueSteps, base
<1>10. WalksTo(n, V, base, step, h[1..n])
  BY <1>1, <1>2, <1>3, <1>9, LeftFoldWalks
<1>11. PICK p : Walk(n, V, base, step, p) /\ p[n] = h[1..n]
  BY <1>10 DEF WalksTo
<1>12. ASSUME NEW k \in 1..n
       PROVE  p[k] = p[k - 1] \o Times(value[goods[k].id], goods[k].num)
  <2>1. p[k - 1] \in V /\ p[k] = step[k][p[k - 1]]
    BY <1>1, <1>11 DEF Walk
  <2> QED
    BY <1>4, <2>1
<1>13. p \in [0..n -> V] /\ p[0] = base
  BY <1>11 DEF Walk
<1>14. ValueRuns(goods, value, V, p)
  BY <1>5, <1>11, <1>12, <1>13 DEF ValueRuns, n, base
<1> QED
  BY <1>14

(* AttachedTo, one mail after the other.                                    *)
AttachedSteps(found, g) ==
  g = [s \in SUBSET DOMAIN found |->
         IF s = {} THEN <<>>
         ELSE g[s \ {Max(s)}] \o Attached[found[Max(s)]]]

AttachedRuns(found, V, p) ==
  /\ p \in [0..Len(found) -> V] /\ p[0] = <<>>
  /\ \A k \in 1..Len(found) :
       p[k] = p[k - 1] \o Attached[found[k]]
  /\ p[Len(found)] = AttachedTo(found)

LEMMA AttachedWalk ==
  ASSUME NEW found, IsSeq(found), NEW V, <<>> \in V,
         \A i \in DOMAIN found : \A v \in V : (v \o Attached[found[i]]) \in V
  PROVE  \E p : AttachedRuns(found, V, p)
<1> DEFINE n == Len(found)
<1> DEFINE base == <<>>
<1> DEFINE step == [i \in 1..n |-> [v \in V |->
                      v \o Attached[found[i]]]]
<1> DEFINE h == CHOOSE g : AttachedSteps(found, g)
<1>1. n \in Nat /\ DOMAIN found = 1..n
  BY SeqFacts
<1>2. base \in V
  OBVIOUS
<1>3. StepsIn(1..n, V, step)
  BY <1>1 DEF StepsIn
<1>4. \A i \in 1..n : \A v \in V :
        step[i][v] = v \o Attached[found[i]]
  OBVIOUS
<1>5. AttachedTo(found) = h[1..n]
  BY <1>1 DEF AttachedTo, FoldLeft, MapThenFoldSet, AttachedSteps
<1> HIDE DEF n, step, base
<1>6. PICK g : LeftSteps(n, V, base, step, g)
  BY <1>1, <1>2, <1>3, LeftFoldExists
<1>7. AttachedSteps(found, g)
  <2>1. ASSUME NEW s \in SUBSET (1..n), s # {}
        PROVE  g[s] = g[s \ {Max(s)}] \o Attached[found[Max(s)]]
    BY <1>4, <1>6, <2>1 DEF LeftSteps
  <2> QED
    BY <1>1, <1>6, <2>1 DEF LeftSteps, AttachedSteps, base
<1>8. AttachedSteps(found, h)
  BY <1>7
<1> HIDE DEF h
<1>9. LeftUnfolds(n, V, base, step, h)
  BY <1>1, <1>4, <1>8 DEF LeftUnfolds, AttachedSteps, base
<1>10. WalksTo(n, V, base, step, h[1..n])
  BY <1>1, <1>2, <1>3, <1>9, LeftFoldWalks
<1>11. PICK p : Walk(n, V, base, step, p) /\ p[n] = h[1..n]
  BY <1>10 DEF WalksTo
<1>12. ASSUME NEW k \in 1..n
       PROVE  p[k] = p[k - 1] \o Attached[found[k]]
  <2>1. p[k - 1] \in V /\ p[k] = step[k][p[k - 1]]
    BY <1>1, <1>11 DEF Walk
  <2> QED
    BY <1>4, <2>1
<1>13. p \in [0..n -> V] /\ p[0] = base
  BY <1>11 DEF Walk
<1>14. AttachedRuns(found, V, p)
  BY <1>5, <1>11, <1>12, <1>13 DEF AttachedRuns, n, base
<1> QED
  BY <1>14

(* The bag of TasksClaimed, one task after the other.                       *)
TaskSteps(bag, list, g) ==
  g = [s \in SUBSET DOMAIN list |->
         IF s = {} THEN bag
         ELSE Granted(g[s \ {Max(s)}], TaskPays[list[Max(s)]])]

TaskRuns(bag, list, V, p) ==
  /\ p \in [0..Len(list) -> V] /\ p[0] = bag
  /\ \A k \in 1..Len(list) :
       p[k] = Granted(p[k - 1], TaskPays[list[k]])
  /\ p[Len(list)] = TasksGranted(bag, list)

LEMMA TaskWalk ==
  ASSUME NEW bag, NEW list, IsSeq(list), NEW V, bag \in V,
         \A i \in DOMAIN list : \A v \in V : (Granted(v, TaskPays[list[i]])) \in V
  PROVE  \E p : TaskRuns(bag, list, V, p)
<1> DEFINE n == Len(list)
<1> DEFINE base == bag
<1> DEFINE step == [i \in 1..n |-> [v \in V |->
                      Granted(v, TaskPays[list[i]])]]
<1> DEFINE h == CHOOSE g : TaskSteps(bag, list, g)
<1>1. n \in Nat /\ DOMAIN list = 1..n
  BY SeqFacts
<1>2. base \in V
  OBVIOUS
<1>3. StepsIn(1..n, V, step)
  BY <1>1 DEF StepsIn
<1>4. \A i \in 1..n : \A v \in V :
        step[i][v] = Granted(v, TaskPays[list[i]])
  OBVIOUS
<1>5. TasksGranted(bag, list) = h[1..n]
  BY <1>1 DEF TasksGranted, FoldLeft, MapThenFoldSet, TaskSteps
<1> HIDE DEF n, step, base
<1>6. PICK g : LeftSteps(n, V, base, step, g)
  BY <1>1, <1>2, <1>3, LeftFoldExists
<1>7. TaskSteps(bag, list, g)
  <2>1. ASSUME NEW s \in SUBSET (1..n), s # {}
        PROVE  g[s] = Granted(g[s \ {Max(s)}], TaskPays[list[Max(s)]])
    BY <1>4, <1>6, <2>1 DEF LeftSteps
  <2> QED
    BY <1>1, <1>6, <2>1 DEF LeftSteps, TaskSteps, base
<1>8. TaskSteps(bag, list, h)
  BY <1>7
<1> HIDE DEF h
<1>9. LeftUnfolds(n, V, base, step, h)
  BY <1>1, <1>4, <1>8 DEF LeftUnfolds, TaskSteps, base
<1>10. WalksTo(n, V, base, step, h[1..n])
  BY <1>1, <1>2, <1>3, <1>9, LeftFoldWalks
<1>11. PICK p : Walk(n, V, base, step, p) /\ p[n] = h[1..n]
  BY <1>10 DEF WalksTo
<1>12. ASSUME NEW k \in 1..n
       PROVE  p[k] = Granted(p[k - 1], TaskPays[list[k]])
  <2>1. p[k - 1] \in V /\ p[k] = step[k][p[k - 1]]
    BY <1>1, <1>11 DEF Walk
  <2> QED
    BY <1>4, <2>1
<1>13. p \in [0..n -> V] /\ p[0] = base
  BY <1>11 DEF Walk
<1>14. TaskRuns(bag, list, V, p)
  BY <1>5, <1>11, <1>12, <1>13 DEF TaskRuns, n, base
<1> QED
  BY <1>14

(* The specialism of PointsPut, one line after the other.                   *)
PointsSteps(rows, lines, g) ==
  g = [s \in SUBSET DOMAIN lines |->
         IF s = {} THEN rows
         ELSE AddPoints(g[s \ {Max(s)}], lines[Max(s)])]

PointsRuns(rows, lines, V, p) ==
  /\ p \in [0..Len(lines) -> V] /\ p[0] = rows
  /\ \A k \in 1..Len(lines) :
       p[k] = AddPoints(p[k - 1], lines[k])
  /\ p[Len(lines)] = PointsAdded(rows, lines)

LEMMA PointsWalk ==
  ASSUME NEW rows, NEW lines, IsSeq(lines), NEW V, rows \in V,
         \A i \in DOMAIN lines : \A v \in V : (AddPoints(v, lines[i])) \in V
  PROVE  \E p : PointsRuns(rows, lines, V, p)
<1> DEFINE n == Len(lines)
<1> DEFINE base == rows
<1> DEFINE step == [i \in 1..n |-> [v \in V |->
                      AddPoints(v, lines[i])]]
<1> DEFINE h == CHOOSE g : PointsSteps(rows, lines, g)
<1>1. n \in Nat /\ DOMAIN lines = 1..n
  BY SeqFacts
<1>2. base \in V
  OBVIOUS
<1>3. StepsIn(1..n, V, step)
  BY <1>1 DEF StepsIn
<1>4. \A i \in 1..n : \A v \in V :
        step[i][v] = AddPoints(v, lines[i])
  OBVIOUS
<1>5. PointsAdded(rows, lines) = h[1..n]
  BY <1>1 DEF PointsAdded, FoldLeft, MapThenFoldSet, PointsSteps
<1> HIDE DEF n, step, base
<1>6. PICK g : LeftSteps(n, V, base, step, g)
  BY <1>1, <1>2, <1>3, LeftFoldExists
<1>7. PointsSteps(rows, lines, g)
  <2>1. ASSUME NEW s \in SUBSET (1..n), s # {}
        PROVE  g[s] = AddPoints(g[s \ {Max(s)}], lines[Max(s)])
    BY <1>4, <1>6, <2>1 DEF LeftSteps
  <2> QED
    BY <1>1, <1>6, <2>1 DEF LeftSteps, PointsSteps, base
<1>8. PointsSteps(rows, lines, h)
  BY <1>7
<1> HIDE DEF h
<1>9. LeftUnfolds(n, V, base, step, h)
  BY <1>1, <1>4, <1>8 DEF LeftUnfolds, PointsSteps, base
<1>10. WalksTo(n, V, base, step, h[1..n])
  BY <1>1, <1>2, <1>3, <1>9, LeftFoldWalks
<1>11. PICK p : Walk(n, V, base, step, p) /\ p[n] = h[1..n]
  BY <1>10 DEF WalksTo
<1>12. ASSUME NEW k \in 1..n
       PROVE  p[k] = AddPoints(p[k - 1], lines[k])
  <2>1. p[k - 1] \in V /\ p[k] = step[k][p[k - 1]]
    BY <1>1, <1>11 DEF Walk
  <2> QED
    BY <1>4, <2>1
<1>13. p \in [0..n -> V] /\ p[0] = base
  BY <1>11 DEF Walk
<1>14. PointsRuns(rows, lines, V, p)
  BY <1>5, <1>11, <1>12, <1>13 DEF PointsRuns, n, base
<1> QED
  BY <1>14

(* Defaulted and Raised, one item after the other.                          *)
DefaultSteps(bag, coins, g) ==
  g = [s \in SUBSET DOMAIN Stocked |->
         IF s = {} THEN bag
         ELSE WithRow(g[s \ {Max(s)}], Stocked[Max(s)], coins)]

DefaultRuns(bag, coins, V, p) ==
  /\ p \in [0..Len(Stocked) -> V] /\ p[0] = bag
  /\ \A k \in 1..Len(Stocked) :
       p[k] = WithRow(p[k - 1], Stocked[k], coins)
  /\ p[Len(Stocked)] = Defaulted(bag, coins)

LEMMA DefaultWalk ==
  ASSUME NEW bag, NEW coins, IsSeq(Stocked), NEW V, bag \in V,
         \A i \in DOMAIN Stocked : \A v \in V : (WithRow(v, Stocked[i], coins)) \in V
  PROVE  \E p : DefaultRuns(bag, coins, V, p)
<1> DEFINE n == Len(Stocked)
<1> DEFINE base == bag
<1> DEFINE step == [i \in 1..n |-> [v \in V |->
                      WithRow(v, Stocked[i], coins)]]
<1> DEFINE h == CHOOSE g : DefaultSteps(bag, coins, g)
<1>1. n \in Nat /\ DOMAIN Stocked = 1..n
  BY SeqFacts
<1>2. base \in V
  OBVIOUS
<1>3. StepsIn(1..n, V, step)
  BY <1>1 DEF StepsIn
<1>4. \A i \in 1..n : \A v \in V :
        step[i][v] = WithRow(v, Stocked[i], coins)
  OBVIOUS
<1>5. Defaulted(bag, coins) = h[1..n]
  BY <1>1 DEF Defaulted, FoldLeft, MapThenFoldSet, DefaultSteps
<1> HIDE DEF n, step, base
<1>6. PICK g : LeftSteps(n, V, base, step, g)
  BY <1>1, <1>2, <1>3, LeftFoldExists
<1>7. DefaultSteps(bag, coins, g)
  <2>1. ASSUME NEW s \in SUBSET (1..n), s # {}
        PROVE  g[s] = WithRow(g[s \ {Max(s)}], Stocked[Max(s)], coins)
    BY <1>4, <1>6, <2>1 DEF LeftSteps
  <2> QED
    BY <1>1, <1>6, <2>1 DEF LeftSteps, DefaultSteps, base
<1>8. DefaultSteps(bag, coins, h)
  BY <1>7
<1> HIDE DEF h
<1>9. LeftUnfolds(n, V, base, step, h)
  BY <1>1, <1>4, <1>8 DEF LeftUnfolds, DefaultSteps, base
<1>10. WalksTo(n, V, base, step, h[1..n])
  BY <1>1, <1>2, <1>3, <1>9, LeftFoldWalks
<1>11. PICK p : Walk(n, V, base, step, p) /\ p[n] = h[1..n]
  BY <1>10 DEF WalksTo
<1>12. ASSUME NEW k \in 1..n
       PROVE  p[k] = WithRow(p[k - 1], Stocked[k], coins)
  <2>1. p[k - 1] \in V /\ p[k] = step[k][p[k - 1]]
    BY <1>1, <1>11 DEF Walk
  <2> QED
    BY <1>4, <2>1
<1>13. p \in [0..n -> V] /\ p[0] = base
  BY <1>11 DEF Walk
<1>14. DefaultRuns(bag, coins, V, p)
  BY <1>5, <1>11, <1>12, <1>13 DEF DefaultRuns, n, base
<1> QED
  BY <1>14


RaiseSteps(bag, g) ==
  g = [s \in SUBSET DOMAIN Stocked |->
         IF s = {} THEN bag
         ELSE WithFloat(g[s \ {Max(s)}], Stocked[Max(s)], bag)]

RaiseRuns(bag, V, p) ==
  /\ p \in [0..Len(Stocked) -> V] /\ p[0] = bag
  /\ \A k \in 1..Len(Stocked) :
       p[k] = WithFloat(p[k - 1], Stocked[k], bag)
  /\ p[Len(Stocked)] = Raised(bag)

LEMMA RaiseWalk ==
  ASSUME NEW bag, IsSeq(Stocked), NEW V, bag \in V,
         \A i \in DOMAIN Stocked : \A v \in V : (WithFloat(v, Stocked[i], bag)) \in V
  PROVE  \E p : RaiseRuns(bag, V, p)
<1> DEFINE n == Len(Stocked)
<1> DEFINE base == bag
<1> DEFINE step == [i \in 1..n |-> [v \in V |->
                      WithFloat(v, Stocked[i], bag)]]
<1> DEFINE h == CHOOSE g : RaiseSteps(bag, g)
<1>1. n \in Nat /\ DOMAIN Stocked = 1..n
  BY SeqFacts
<1>2. base \in V
  OBVIOUS
<1>3. StepsIn(1..n, V, step)
  BY <1>1 DEF StepsIn
<1>4. \A i \in 1..n : \A v \in V :
        step[i][v] = WithFloat(v, Stocked[i], bag)
  OBVIOUS
<1>5. Raised(bag) = h[1..n]
  BY <1>1 DEF Raised, FoldLeft, MapThenFoldSet, RaiseSteps
<1> HIDE DEF n, step, base
<1>6. PICK g : LeftSteps(n, V, base, step, g)
  BY <1>1, <1>2, <1>3, LeftFoldExists
<1>7. RaiseSteps(bag, g)
  <2>1. ASSUME NEW s \in SUBSET (1..n), s # {}
        PROVE  g[s] = WithFloat(g[s \ {Max(s)}], Stocked[Max(s)], bag)
    BY <1>4, <1>6, <2>1 DEF LeftSteps
  <2> QED
    BY <1>1, <1>6, <2>1 DEF LeftSteps, RaiseSteps, base
<1>8. RaiseSteps(bag, h)
  BY <1>7
<1> HIDE DEF h
<1>9. LeftUnfolds(n, V, base, step, h)
  BY <1>1, <1>4, <1>8 DEF LeftUnfolds, RaiseSteps, base
<1>10. WalksTo(n, V, base, step, h[1..n])
  BY <1>1, <1>2, <1>3, <1>9, LeftFoldWalks
<1>11. PICK p : Walk(n, V, base, step, p) /\ p[n] = h[1..n]
  BY <1>10 DEF WalksTo
<1>12. ASSUME NEW k \in 1..n
       PROVE  p[k] = WithFloat(p[k - 1], Stocked[k], bag)
  <2>1. p[k - 1] \in V /\ p[k] = step[k][p[k - 1]]
    BY <1>1, <1>11 DEF Walk
  <2> QED
    BY <1>4, <2>1
<1>13. p \in [0..n -> V] /\ p[0] = base
  BY <1>11 DEF Walk
<1>14. RaiseRuns(bag, V, p)
  BY <1>5, <1>11, <1>12, <1>13 DEF RaiseRuns, n, base
<1> QED
  BY <1>14

(* Kept, one row after the other.                                           *)
KeepSteps(heroes, g) ==
  g = [s \in SUBSET DOMAIN heroes |->
         IF s = {} THEN <<>>
         ELSE WithHero(g[s \ {Max(s)}], heroes[Max(s)])]

KeepRuns(heroes, V, p) ==
  /\ p \in [0..Len(heroes) -> V] /\ p[0] = <<>>
  /\ \A k \in 1..Len(heroes) :
       p[k] = WithHero(p[k - 1], heroes[k])
  /\ p[Len(heroes)] = Kept(heroes)

LEMMA KeepWalk ==
  ASSUME NEW heroes, IsSeq(heroes), NEW V, <<>> \in V,
         \A i \in DOMAIN heroes : \A v \in V : (WithHero(v, heroes[i])) \in V
  PROVE  \E p : KeepRuns(heroes, V, p)
<1> DEFINE n == Len(heroes)
<1> DEFINE base == <<>>
<1> DEFINE step == [i \in 1..n |-> [v \in V |->
                      WithHero(v, heroes[i])]]
<1> DEFINE h == CHOOSE g : KeepSteps(heroes, g)
<1>1. n \in Nat /\ DOMAIN heroes = 1..n
  BY SeqFacts
<1>2. base \in V
  OBVIOUS
<1>3. StepsIn(1..n, V, step)
  BY <1>1 DEF StepsIn
<1>4. \A i \in 1..n : \A v \in V :
        step[i][v] = WithHero(v, heroes[i])
  OBVIOUS
<1>5. Kept(heroes) = h[1..n]
  BY <1>1 DEF Kept, FoldLeft, MapThenFoldSet, KeepSteps
<1> HIDE DEF n, step, base
<1>6. PICK g : LeftSteps(n, V, base, step, g)
  BY <1>1, <1>2, <1>3, LeftFoldExists
<1>7. KeepSteps(heroes, g)
  <2>1. ASSUME NEW s \in SUBSET (1..n), s # {}
        PROVE  g[s] = WithHero(g[s \ {Max(s)}], heroes[Max(s)])
    BY <1>4, <1>6, <2>1 DEF LeftSteps
  <2> QED
    BY <1>1, <1>6, <2>1 DEF LeftSteps, KeepSteps, base
<1>8. KeepSteps(heroes, h)
  BY <1>7
<1> HIDE DEF h
<1>9. LeftUnfolds(n, V, base, step, h)
  BY <1>1, <1>4, <1>8 DEF LeftUnfolds, KeepSteps, base
<1>10. WalksTo(n, V, base, step, h[1..n])
  BY <1>1, <1>2, <1>3, <1>9, LeftFoldWalks
<1>11. PICK p : Walk(n, V, base, step, p) /\ p[n] = h[1..n]
  BY <1>10 DEF WalksTo
<1>12. ASSUME NEW k \in 1..n
       PROVE  p[k] = WithHero(p[k - 1], heroes[k])
  <2>1. p[k - 1] \in V /\ p[k] = step[k][p[k - 1]]
    BY <1>1, <1>11 DEF Walk
  <2> QED
    BY <1>4, <2>1
<1>13. p \in [0..n -> V] /\ p[0] = base
  BY <1>11 DEF Walk
<1>14. KeepRuns(heroes, V, p)
  BY <1>5, <1>11, <1>12, <1>13 DEF KeepRuns, n, base
<1> QED
  BY <1>14

(* Lines handed out together.                                               *)
LEMMA ValueIn ==
  ASSUME NEW C, NEW goods, IsSeq(goods), NEW value,
         \A i \in DOMAIN goods : value[goods[i].id] \in Lines(C) /\ goods[i].num \in Nat
  PROVE  ValueOf(goods, value) \in Lines(C)
<1> DEFINE V == Lines(C)
<1>1. <<>> \in V /\ \A v, w \in V : v \o w \in V
  BY SeqGrows DEF Lines
<1>2. \A i \in DOMAIN goods : Times(value[goods[i].id], goods[i].num) \in V
  BY TimesLines
<1> HIDE DEF V
<1>3. PICK p : ValueRuns(goods, value, V, p)
  BY <1>1, <1>2, ValueWalk
<1>4. Len(goods) \in 0..Len(goods)
  BY SeqFacts
<1> QED
  BY <1>3, <1>4 DEF ValueRuns, V

LEMMA AttachedIn ==
  ASSUME NEW found \in Seq(Mails)
  PROVE  AttachedTo(found) \in Lines(Cids) /\ (found = <<>> => AttachedTo(found) = <<>>)
<1> DEFINE V == Lines(Cids)
<1>1. IsSeq(found) /\ Len(found) \in Nat /\ \A i \in DOMAIN found : found[i] \in Mails
  BY SeqMembers
<1>2. <<>> \in V /\ \A v, w \in V : v \o w \in V
  BY SeqGrows DEF Lines
<1>3. \A m \in Mails : Attached[m] \in V
  BY TablesAssumption
<1> HIDE DEF V
<1>4. PICK p : AttachedRuns(found, V, p)
  BY <1>1, <1>2, <1>3, AttachedWalk
<1>5. found = <<>> => Len(found) = 0
  OBVIOUS
<1>6. Len(found) \in 0..Len(found)
  BY <1>1
<1> QED
  BY <1>4, <1>5, <1>6 DEF AttachedRuns, V

(* Rewards granted one after the other.                                     *)
LEMMA FollowsOn ==
  ASSUME NEW a, NEW b, NEW c, Follows(a, b), Follows(b, c)
  PROVE  Follows(a, c)
BY DEF Follows

LEMMA TasksGrantedIs ==
  ASSUME NEW bag, IsBag(bag), BagCids(bag) \subseteq Cids, NEW list \in Seq(Tasks), Once(list)
  PROVE  /\ Follows(bag, TasksGranted(bag, list))
         /\ BagCids(TasksGranted(bag, list)) \subseteq Cids
         /\ list = <<>> => TasksGranted(bag, list) = bag
         /\ \A c \in Cids : /\ SumFunction([t \in Range(list) |-> Worth(TaskPays[t], c)]) \in Nat
                            /\ Total(TasksGranted(bag, list), c) = Total(bag, c)
                                 + SumFunction([t \in Range(list) |-> Worth(TaskPays[t], c)])
<1> DEFINE n == Len(list)
<1> DEFINE I == BagIds(bag) \cup (Int \X Nat)
<1> DEFINE V == {v \in BagsOf(I, Cids) : Follows(bag, v)}
<1>1. IsSeq(list) /\ n \in Nat /\ DOMAIN list = 1..n /\ \A i \in DOMAIN list : list[i] \in Tasks
  BY SeqMembers
<1>2. bag \in V
  BY BagsOfIs DEF Follows
<1>3. \A v \in V : IsBag(v) /\ Follows(bag, v) /\ BagIds(v) \subseteq I /\ BagCids(v) \subseteq Cids
  BY BagsOfIs DEF Follows
<1>4. \A t \in Tasks : IsRewards(TaskPays[t]) /\ Named(TaskPays[t]) \subseteq Cids
  <2>1. SUFFICES ASSUME NEW t \in Tasks
                 PROVE  IsRewards(TaskPays[t]) /\ Named(TaskPays[t]) \subseteq Cids
    OBVIOUS
  <2>2. TaskPays[t] \in Lines(Cids) /\ Cids \subseteq Int
    BY TablesAssumption
  <2> QED
    BY <2>2, LinesTyped, LinesMembers DEF IsRewards
<1>5. ASSUME NEW v \in V, NEW t \in Tasks
      PROVE  /\ Granted(v, TaskPays[t]) \in V
             /\ \A c : Total(Granted(v, TaskPays[t]), c) = Total(v, c) + Worth(TaskPays[t], c)
  <2> DEFINE new == Granted(v, TaskPays[t])
  <2>1. /\ Follows(v, new) /\ BagIds(new) \subseteq BagIds(v) \cup (Int \X Nat)
        /\ BagCids(new) \subseteq BagCids(v) \cup Named(TaskPays[t])
        /\ \A c : Total(new, c) = Total(v, c) + Worth(TaskPays[t], c)
    BY <1>3, <1>4, GrantedIs
  <2> HIDE DEF new
  <2>2. Follows(bag, new)
    BY <1>3, <2>1, FollowsOn
  <2>3. BagIds(new) \subseteq I /\ BagCids(new) \subseteq Cids /\ IsBag(new)
    BY <1>3, <1>4, <2>1 DEF Follows
  <2> HIDE DEF I
  <2>4. new \in V
    BY <2>2, <2>3, BagsOfIs
  <2> QED
    BY <2>1, <2>4 DEF new
<1> HIDE DEF V, I
<1>6. PICK p : TaskRuns(bag, list, V, p)
  BY <1>1, <1>2, <1>5, TaskWalk
<1>7. /\ p \in [0..n -> V] /\ p[0] = bag /\ p[n] = TasksGranted(bag, list)
      /\ \A k \in 1..n : p[k] = Granted(p[k - 1], TaskPays[list[k]])
  BY <1>6 DEF TaskRuns
<1>8. Follows(bag, TasksGranted(bag, list)) /\ BagCids(TasksGranted(bag, list)) \subseteq Cids
  <2>1. n \in 0..n
    BY <1>1
  <2> QED
    BY <1>3, <1>7, <2>1
<1>9. list = <<>> => TasksGranted(bag, list) = bag
  BY <1>7
<1>10. ASSUME NEW c \in Cids
       PROVE  /\ SumFunction([t \in Range(list) |-> Worth(TaskPays[t], c)]) \in Nat
              /\ Total(TasksGranted(bag, list), c) = Total(bag, c)
                   + SumFunction([t \in Range(list) |-> Worth(TaskPays[t], c)])
  <2> DEFINE w == [t \in Tasks |-> Worth(TaskPays[t], c)]
  <2> DEFINE First(k) == {list[i] : i \in 1..k}
  <2> DEFINE Fits(k) == Total(p[k], c) = Total(bag, c) + SumFunctionOnSet(w, First(k))
  <2> DEFINE T == {k \in Nat : k <= n => Fits(k)}
  <2>1. \A t \in Tasks : w[t] \in Nat
    BY <1>4, LinesFacts DEF IsRewards
  <2>2. Total(bag, c) \in Nat
    BY BagFacts
  <2>3. \A k \in Nat : k <= n => IsFiniteSet(First(k)) /\ First(k) \subseteq Tasks
    <3>1. ASSUME NEW k \in Nat, k <= n PROVE IsFiniteSet(First(k)) /\ First(k) \subseteq Tasks
      <4>1. IsFiniteSet(1..k)
        BY <3>1, FS_Interval
      <4> QED
        BY <1>1, <3>1, <4>1, ImageFinite
    <3> QED
      BY <3>1
  <2> HIDE DEF w
  <2>4. 0 \in T
    <3>1. First(0) = {}
      OBVIOUS
    <3> QED
      BY <1>7, <2>2, <3>1, SumEmpty
  <2>5. ASSUME NEW k \in Nat, k \in T PROVE k + 1 \in T
    <3>1. SUFFICES ASSUME k + 1 <= n PROVE Fits(k + 1)
      OBVIOUS
    <3> DEFINE x == list[k + 1]
    <3>2. k <= n /\ k \in 0..n /\ k + 1 \in 1..n /\ (k + 1) - 1 = k /\ x \in Tasks
      BY <1>1, <3>1
    <3>3. x \notin First(k)
      BY <1>1, <3>2 DEF Once
    <3>4. First(k + 1) = First(k) \cup {x}
      BY <3>2
    <3>5. IsFiniteSet(First(k)) /\ First(k) \subseteq Tasks
      BY <2>3, <3>2
    <3>6. Fits(k)
      BY <2>5, <3>2
    <3>7. Total(p[k + 1], c) = Total(p[k], c) + w[x]
      BY <1>5, <1>7, <3>2 DEF w
    <3> HIDE DEF x, First
    <3>8. \A y \in First(k) \cup {x} : w[y] \in Int
      BY <2>1, <3>2, <3>5
    <3>9. SumFunctionOnSet(w, First(k) \cup {x}) = SumFunctionOnSet(w, First(k)) + w[x]
      BY <3>3, <3>5, <3>8, SumWith
    <3>10. SumFunctionOnSet(w, First(k)) \in Int /\ w[x] \in Int
      BY <2>1, <3>2, <3>5, <3>8, SumInt
    <3>11. Total(p[k], c) = Total(bag, c) + SumFunctionOnSet(w, First(k))
      BY <3>6
    <3>12. SumFunctionOnSet(w, First(k + 1)) = SumFunctionOnSet(w, First(k)) + w[x]
      BY <3>4, <3>9
    <3>13. Total(p[k + 1], c) = Total(bag, c) + SumFunctionOnSet(w, First(k + 1))
      BY <2>2, <3>7, <3>10, <3>11, <3>12
    <3> QED
      BY <3>13
  <2> HIDE DEF T
  <2>6. n \in T
    BY <1>1, <2>4, <2>5, NumberInduction
  <2>7. Fits(n)
    BY <1>1, <2>6 DEF T
  <2>8. First(n) = Range(list)
    BY <1>1 DEF Range
  <2> DEFINE f == [t \in Range(list) |-> Worth(TaskPays[t], c)]
  <2>9. IsFiniteSet(Range(list)) /\ Range(list) \subseteq Tasks
    <3>1. n <= n
      BY <1>1
    <3> HIDE DEF First, n
    <3> QED
      BY <1>1, <2>3, <2>8, <3>1
  <2>10. \A t \in Range(list) : w[t] \in Int /\ w[t] = f[t] /\ f[t] \in Nat
    BY <2>1, <2>9 DEF w
  <2>11. DOMAIN f = Range(list)
    OBVIOUS
  <2> HIDE DEF f, First
  <2>12. SumFunctionOnSet(w, Range(list)) = SumFunctionOnSet(f, Range(list))
    BY <2>9, <2>10, SumEqual
  <2>13. SumFunctionOnSet(f, Range(list)) \in Nat
    BY <2>9, <2>10, SumNat
  <2> QED
    BY <1>7, <2>7, <2>8, <2>11, <2>12, <2>13 DEF SumFunction, f
<1> QED
  BY <1>8, <1>9, <1>10

-----------------------------------------------------------------------------
(* Spirit points.                                                           *)
SpiritRow == [points : Nat, specialism : Lines(Int), firstShow : BOOLEAN]

SumOf(rows) == SumFunction(Nums(rows))

LEMMA SumOfRows ==
  ASSUME NEW rows \in Lines(Int)
  PROVE  /\ IsFiniteSet(DOMAIN rows)
         /\ SumOf(rows) = SumFunctionOnSet(Nums(rows), DOMAIN rows) /\ SumOf(rows) \in Nat
         /\ \A i \in DOMAIN rows : Nums(rows)[i] = rows[i].num /\ Nums(rows)[i] \in Nat
<1>1. \A i \in DOMAIN rows : Nums(rows)[i] = rows[i].num /\ Nums(rows)[i] \in Nat
  BY LinesMembers DEF Nums
<1>2. DOMAIN Nums(rows) = DOMAIN rows
  BY DEF Nums
<1>3. IsFiniteSet(DOMAIN rows)
  BY LinesMembers, FS_Interval
<1>4. SumFunctionOnSet(Nums(rows), DOMAIN rows) \in Nat
  BY <1>1, <1>3, SumNat
<1> QED
  BY <1>1, <1>2, <1>3, <1>4 DEF SumOf, SumFunction

LEMMA SumOfAppend ==
  ASSUME NEW rows \in Lines(Int), NEW l \in [id : Int, num : Nat]
  PROVE  Append(rows, l) \in Lines(Int) /\ SumOf(Append(rows, l)) = SumOf(rows) + l.num
<1> DEFINE n == Len(rows)
<1> DEFINE new == Append(rows, l)
<1>1. new \in Lines(Int)
  <2> DEFINE L == [id : Int, num : Nat]
  <2>1. rows \in Seq(L) /\ l \in L
    BY DEF Lines
  <2> HIDE DEF L
  <2>2. new \in Seq(L)
    BY <2>1, SeqGrows
  <2> QED
    BY <2>2 DEF Lines, L
<1>2. /\ IsSeq(rows) /\ n \in Nat /\ DOMAIN rows = 1..n
  BY LinesMembers
<1>3. /\ DOMAIN new = 1..(n + 1) /\ new[n + 1] = l /\ \A i \in 1..n : new[i] = rows[i]
  BY <1>2, AppendIs
<1> HIDE DEF new, n
<1>4. /\ SumOf(rows) = SumFunctionOnSet(Nums(rows), 1..n)
      /\ \A i \in 1..n : Nums(rows)[i] = rows[i].num /\ Nums(rows)[i] \in Nat
  BY <1>2, SumOfRows
<1>5. /\ SumOf(new) = SumFunctionOnSet(Nums(new), 1..(n + 1))
      /\ \A i \in 1..(n + 1) : Nums(new)[i] = new[i].num /\ Nums(new)[i] \in Nat
  BY <1>1, <1>3, SumOfRows
<1>6. 1..(n + 1) = (1..n) \cup {n + 1} /\ n + 1 \notin 1..n /\ n + 1 \in 1..(n + 1)
  BY <1>2
<1>7. IsFiniteSet(1..n)
  BY <1>2, FS_Interval
<1>8. \A i \in (1..n) \cup {n + 1} : Nums(new)[i] \in Int
  BY <1>5, <1>6
<1>9. SumFunctionOnSet(Nums(new), (1..n) \cup {n + 1})
        = SumFunctionOnSet(Nums(new), 1..n) + Nums(new)[n + 1]
  BY <1>6, <1>7, <1>8, SumWith
<1>10. \A i \in 1..n : Nums(new)[i] \in Int /\ Nums(new)[i] = Nums(rows)[i]
  BY <1>3, <1>4, <1>5, <1>6
<1>11. SumFunctionOnSet(Nums(new), 1..n) = SumFunctionOnSet(Nums(rows), 1..n)
  BY <1>7, <1>10, SumEqual
<1>12. Nums(new)[n + 1] = l.num
  BY <1>3, <1>5, <1>6
<1> QED
  BY <1>1, <1>4, <1>5, <1>6, <1>9, <1>11, <1>12 DEF new

(* Rows without points can be left out.                                     *)
LEMMA SumOfOnly ==
  ASSUME NEW rows \in Lines(Int), NEW keep,
         \A i \in DOMAIN rows : rows[i] \notin keep => rows[i].num = 0
  PROVE  Only(rows, keep) \in Lines(Int) /\ SumOf(Only(rows, keep)) = SumOf(rows)
<1> DEFINE n == Len(rows)
<1> DEFINE V == Seq(Range(rows) \cap keep)
<1>1. /\ IsSeq(rows) /\ n \in Nat /\ DOMAIN rows = 1..n
      /\ \A i \in 1..n : rows[i] \in [id : Int, num : Nat]
  <2> DEFINE L == [id : Int, num : Nat]
  <2>1. rows \in Seq(L)
    BY DEF Lines
  <2> HIDE DEF L
  <2>2. IsSeq(rows) /\ n \in Nat /\ DOMAIN rows = 1..n /\ \A i \in 1..n : rows[i] \in L
    BY <2>1, SeqMembers
  <2> QED
    BY <2>2 DEF L
<1>2. PICK p : OnlyRuns(rows, keep, p)
  BY <1>1, OnlyWalk
<1>3. /\ p[0] = <<>> /\ p[n] = Only(rows, keep)
      /\ \A k \in 1..n : p[k] = IF rows[k] \in keep THEN Append(p[k - 1], rows[k]) ELSE p[k - 1]
  BY <1>2 DEF OnlyRuns
<1> DEFINE f == Nums(rows)
<1>4. \A i \in 1..n : f[i] = rows[i].num /\ f[i] \in Nat
  BY <1>1, SumOfRows
<1> HIDE DEF f
<1> DEFINE Fits(k) == p[k] \in Lines(Int) /\ SumOf(p[k]) = SumFunctionOnSet(f, 1..k)
<1> DEFINE T == {k \in Nat : k <= n => Fits(k)}
<1>5. 0 \in T
  <2>1. <<>> \in Lines(Int)
    BY SeqGrows DEF Lines
  <2>2. SumOf(<<>>) = SumFunctionOnSet(Nums(<<>>), {}) /\ 1..0 = {}
    BY <2>1, SumOfRows
  <2>3. SumOf(<<>>) = 0
    BY <2>2, SumEmpty
  <2>4. SumFunctionOnSet(f, 1..0) = 0
    BY <2>2, SumEmpty
  <2> QED
    BY <1>3, <2>1, <2>3, <2>4
<1>6. ASSUME NEW k \in Nat, k \in T PROVE k + 1 \in T
  <2>1. SUFFICES ASSUME k + 1 <= n PROVE Fits(k + 1)
    OBVIOUS
  <2>2. k <= n /\ k + 1 \in 1..n /\ (k + 1) - 1 = k /\ k + 1 \notin 1..k
    BY <1>1, <2>1
  <2>3. Fits(k)
    BY <1>6, <2>2
  <2>4. IsFiniteSet(1..k) /\ 1..(k + 1) = (1..k) \cup {k + 1}
    BY FS_Interval
  <2>5. \A y \in (1..k) \cup {k + 1} : f[y] \in Int
    BY <1>4, <2>2, <2>4
  <2>6. SumFunctionOnSet(f, 1..(k + 1)) = SumFunctionOnSet(f, 1..k) + rows[k + 1].num
    <3>1. SumFunctionOnSet(f, (1..k) \cup {k + 1}) = SumFunctionOnSet(f, 1..k) + f[k + 1]
      BY <2>2, <2>4, <2>5, SumWith
    <3> QED
      BY <1>4, <2>2, <2>4, <3>1
  <2>7. CASE rows[k + 1] \in keep
    <3>1. p[k + 1] = Append(p[k], rows[k + 1]) /\ rows[k + 1] \in [id : Int, num : Nat]
      BY <1>1, <1>3, <2>2, <2>7
    <3>2. p[k + 1] \in Lines(Int) /\ SumOf(p[k + 1]) = SumOf(p[k]) + rows[k + 1].num
      BY <2>3, <3>1, SumOfAppend
    <3> QED
      BY <2>3, <2>6, <3>2
  <2>8. CASE rows[k + 1] \notin keep
    <3>1. p[k + 1] = p[k] /\ rows[k + 1].num = 0
      BY <1>1, <1>3, <2>2, <2>8
    <3>2. SumOf(p[k]) \in Nat
      BY <2>3, SumOfRows
    <3> QED
      BY <2>3, <2>6, <3>1, <3>2
  <2> QED
    BY <2>7, <2>8
<1> HIDE DEF T
<1>7. n \in T
  BY <1>1, <1>5, <1>6, NumberInduction
<1>8. Fits(n)
  BY <1>1, <1>7 DEF T
<1> QED
  BY <1>1, <1>3, <1>8, SumOfRows DEF f

LEMMA NormalIs ==
  ASSUME NEW spirit \in SpiritRow
  PROVE  /\ Normal(spirit) \in SpiritRow /\ Normal(spirit).points = spirit.points
         /\ Allocated(Normal(spirit)) = Allocated(spirit) /\ Allocated(spirit) \in Nat
<1> DEFINE keep == [id : Int, num : Nat \ {0}]
<1> DEFINE rows == spirit.specialism
<1>1. rows \in Lines(Int)
  BY DEF SpiritRow
<1>2. ASSUME NEW i \in DOMAIN rows, rows[i] \notin keep PROVE rows[i].num = 0
  <2>1. rows[i] \in [id : Int, num : Nat]
    <3> DEFINE L == [id : Int, num : Nat]
    <3>1. rows \in Seq(L)
      BY <1>1 DEF Lines
    <3> HIDE DEF L, rows
    <3>2. rows[i] \in L
      BY <1>2, <3>1, SeqMembers
    <3> QED
      BY <3>2 DEF L
  <2> QED
    BY <1>2, <2>1
<1> HIDE DEF keep
<1>3. Only(rows, keep) \in Lines(Int) /\ SumOf(Only(rows, keep)) = SumOf(rows)
  BY <1>1, <1>2, SumOfOnly
<1>4. /\ Normal(spirit) \in SpiritRow /\ Normal(spirit).points = spirit.points
      /\ Normal(spirit).specialism = Only(rows, keep)
  BY <1>3 DEF Normal, SpiritRow, keep
<1> QED
  BY <1>1, <1>3, <1>4, SumOfRows DEF Allocated, SumOf

LEMMA AddPointsIs ==
  ASSUME NEW rows \in Lines(Int), NEW l \in [id : Int, num : Int]
  PROVE  /\ AddPoints(rows, l) \in Lines(Int)
         /\ SumOf(AddPoints(rows, l)) = SumOf(rows) + (IF l.num > 0 THEN l.num ELSE 0)
<1> DEFINE n == Len(rows)
<1> DEFINE I == {i \in DOMAIN rows : rows[i].id = l.id}
<1> DEFINE L == [id : Int, num : Nat]
<1>1. rows \in Seq(L)
  BY DEF Lines
<1> HIDE DEF L
<1>2. /\ IsSeq(rows) /\ n \in Nat /\ DOMAIN rows = 1..n /\ rows = [i \in 1..n |-> rows[i]]
      /\ \A i \in 1..n : rows[i] \in L
  BY <1>1, SeqMembers
<1>3. /\ SumOf(rows) = SumFunctionOnSet(Nums(rows), 1..n) /\ SumOf(rows) \in Nat
      /\ \A i \in 1..n : Nums(rows)[i] = rows[i].num /\ Nums(rows)[i] \in Nat
  BY <1>2, SumOfRows
<1>7. IsFiniteSet(1..n)
  <2>1. n \in Nat
    BY <1>2
  <2> HIDE DEF n
  <2> QED
    BY <2>1, FS_Interval
<1>4. CASE l.num <= 0
  BY <1>3, <1>4 DEF AddPoints
<1>5. CASE l.num > 0 /\ I = {}
  <2>1. l \in [id : Int, num : Nat] /\ AddPoints(rows, l) = Append(rows, l)
    BY <1>5 DEF AddPoints
  <2> QED
    BY <1>5, <2>1, SumOfAppend
<1>6. CASE l.num > 0 /\ I # {}
  <2> DEFINE m == Max(I)
  <2> DEFINE new == [rows EXCEPT ![m].num = @ + l.num]
  <2>1. AddPoints(rows, l) = new
    BY <1>6 DEF AddPoints
  <2>2. m \in 1..n
    <3>1. I \subseteq 1..n
      BY <1>2
    <3> HIDE DEF I, n
    <3>2. IsFiniteSet(I)
      BY <1>7, <3>1, FS_Subset
    <3>3. I \in SUBSET Int
      BY <3>1
    <3> QED
      BY <1>6, <3>1, <3>2, <3>3, FiniteMax
  <2> HIDE DEF m
  <2>3. /\ new = [i \in 1..n |-> new[i]]
        /\ \A i \in 1..n : i # m => new[i] = rows[i]
        /\ new[m] = [rows[m] EXCEPT !.num = @ + l.num]
    BY <1>2, <2>2
  <2>4. rows[m].num \in Nat /\ rows[m] \in L
    BY <1>2, <1>3, <2>2
  <2>5. new[m] \in L /\ new[m].num = rows[m].num + l.num
    BY <1>6, <2>3, <2>4 DEF L
  <2>6. \A i \in 1..n : new[i] \in L
    BY <1>2, <2>3, <2>5
  <2> HIDE DEF new
  <2>7. new \in Seq(L) /\ Len(new) = n
    BY <1>2, <2>3, <2>6, SeqFrom
  <2>8. new \in Lines(Int) /\ DOMAIN new = 1..n
    BY <2>3, <2>7 DEF Lines, L
  <2>9. /\ SumOf(new) = SumFunctionOnSet(Nums(new), 1..n)
        /\ \A i \in 1..n : Nums(new)[i] = new[i].num /\ Nums(new)[i] \in Nat
    BY <2>8, SumOfRows
  <2>10. \A i \in 1..n : /\ Nums(rows)[i] \in Int /\ Nums(new)[i] \in Int
                         /\ i # m => Nums(rows)[i] = Nums(new)[i]
    <3>1. ASSUME NEW i \in 1..n
          PROVE  /\ Nums(rows)[i] \in Int /\ Nums(new)[i] \in Int
                 /\ i # m => Nums(rows)[i] = Nums(new)[i]
      <4>1. Nums(rows)[i] = rows[i].num /\ Nums(rows)[i] \in Nat
        BY <1>3
      <4>2. Nums(new)[i] = new[i].num /\ Nums(new)[i] \in Nat
        BY <2>9
      <4>3. i # m => new[i] = rows[i]
        BY <2>3
      <4> QED
        BY <4>1, <4>2, <4>3
    <3> QED
      BY <3>1
  <2>12. SumFunctionOnSet(Nums(new), 1..n)
           = SumFunctionOnSet(Nums(rows), 1..n) + (Nums(new)[m] - Nums(rows)[m])
    BY <2>2, <2>10, <1>7, SumChanged
  <2>13. Nums(new)[m] - Nums(rows)[m] = l.num
    BY <1>3, <2>2, <2>4, <2>5, <2>9
  <2> QED
    BY <1>3, <1>6, <2>1, <2>8, <2>9, <2>12, <2>13
<1> QED
  BY <1>4, <1>5, <1>6

LEMMA PointsAddedIs ==
  ASSUME NEW rows \in Lines(Int), NEW lines \in Seq([id : Int, num : Int])
  PROVE  /\ PointsAdded(rows, lines) \in Lines(Int)
         /\ SumOf(PointsAdded(rows, lines)) = SumOf(rows) + Points(lines)
         /\ Points(lines) \in Int
<1> DEFINE n == Len(lines)
<1> DEFINE V == Lines(Int)
<1> DEFINE L == [id : Int, num : Int]
<1> HIDE DEF L
<1>1. lines \in Seq(L)
  BY DEF L
<1>2. IsSeq(lines) /\ n \in Nat /\ DOMAIN lines = 1..n /\ \A i \in 1..n : lines[i] \in L
  BY <1>1, SeqMembers
<1>3. \A i \in 1..n : \A v \in V :
        /\ AddPoints(v, lines[i]) \in V
        /\ SumOf(AddPoints(v, lines[i])) = SumOf(v) + (IF lines[i].num > 0 THEN lines[i].num ELSE 0)
  BY <1>2, AddPointsIs DEF L
<1> HIDE DEF V
<1>4. PICK p : PointsRuns(rows, lines, V, p)
  BY <1>2, <1>3, PointsWalk DEF V
<1>5. /\ p \in [0..n -> V] /\ p[0] = rows /\ p[n] = PointsAdded(rows, lines)
      /\ \A k \in 1..n : p[k] = AddPoints(p[k - 1], lines[k])
  BY <1>4 DEF PointsRuns
<1> DEFINE f == Nums(lines)
<1>6. \A i \in 1..n : f[i] = lines[i].num /\ f[i] \in Int
  BY <1>2 DEF L, Nums
<1> HIDE DEF f
<1> DEFINE Solid(k) == {i \in 1..k : lines[i].num > 0}
<1> DEFINE Fits(k) == SumOf(p[k]) = SumOf(rows) + SumFunctionOnSet(f, Solid(k))
<1> DEFINE T == {k \in Nat : k <= n => Fits(k)}
<1>7. \A v \in V : SumOf(v) \in Nat
  BY SumOfRows DEF V
<1>8. SumOf(rows) \in Nat
  BY SumOfRows
<1>9. 0 \in T
  <2>1. Solid(0) = {}
    OBVIOUS
  <2> QED
    BY <1>5, <1>8, <2>1, SumEmpty
<1>10. ASSUME NEW k \in Nat, k <= n
       PROVE  /\ IsFiniteSet(Solid(k)) /\ \A i \in Solid(k) : f[i] \in Int
              /\ SumFunctionOnSet(f, Solid(k)) \in Int
  <2>1. Solid(k) \subseteq 1..k /\ IsFiniteSet(1..k)
    BY <1>10, FS_Interval
  <2>2. IsFiniteSet(Solid(k))
    BY <2>1, FS_Subset
  <2>3. \A i \in Solid(k) : f[i] \in Int
    BY <1>2, <1>6, <1>10
  <2> HIDE DEF Solid
  <2> QED
    BY <2>2, <2>3, SumInt
<1>11. ASSUME NEW k \in Nat, k \in T PROVE k + 1 \in T
  <2>1. SUFFICES ASSUME k + 1 <= n PROVE Fits(k + 1)
    OBVIOUS
  <2>2. k <= n /\ k + 1 \in 1..n /\ (k + 1) - 1 = k /\ k \in 0..n
    BY <1>2, <2>1
  <2>3. SumOf(p[k]) = SumOf(rows) + SumFunctionOnSet(f, Solid(k))
    BY <1>11, <2>2
  <2>4. SumOf(p[k + 1]) = SumOf(p[k]) + (IF lines[k + 1].num > 0 THEN lines[k + 1].num ELSE 0)
    <3>1. p[k] \in V /\ p[k + 1] = AddPoints(p[k], lines[k + 1])
      BY <1>5, <2>2
    <3> QED
      BY <1>3, <2>2, <3>1
  <2>5. SumFunctionOnSet(f, Solid(k)) \in Int /\ f[k + 1] \in Int /\ f[k + 1] = lines[k + 1].num
    BY <1>6, <1>10, <2>2
  <2>6. CASE lines[k + 1].num > 0
    <3>1. Solid(k + 1) = Solid(k) \cup {k + 1} /\ k + 1 \notin Solid(k)
      BY <2>6
    <3>2. IsFiniteSet(Solid(k)) /\ \A i \in Solid(k) \cup {k + 1} : f[i] \in Int
      <4>1. /\ IsFiniteSet(Solid(k)) /\ \A i \in Solid(k) : f[i] \in Int
        BY <1>10, <2>2
      <4> HIDE DEF Solid
      <4> QED
        BY <2>5, <4>1
    <3> HIDE DEF Solid
    <3>3. SumFunctionOnSet(f, Solid(k) \cup {k + 1}) = SumFunctionOnSet(f, Solid(k)) + f[k + 1]
      BY <3>1, <3>2, SumWith
    <3>4. SumOf(p[k + 1]) = SumOf(rows) + SumFunctionOnSet(f, Solid(k + 1))
      <4>1. SumOf(p[k + 1]) = SumOf(p[k]) + f[k + 1]
        BY <2>4, <2>5, <2>6
      <4>2. SumFunctionOnSet(f, Solid(k + 1)) = SumFunctionOnSet(f, Solid(k)) + f[k + 1]
        BY <3>1, <3>3
      <4> QED
        BY <1>8, <2>3, <2>5, <4>1, <4>2
    <3> QED
      BY <3>4
  <2>7. CASE ~(lines[k + 1].num > 0)
    <3>1. Solid(k + 1) = Solid(k)
      <4>1. 1..(k + 1) = (1..k) \cup {k + 1}
        OBVIOUS
      <4> QED
        BY <2>7, <4>1
    <3> HIDE DEF Solid
    <3>2. SumOf(p[k + 1]) = SumOf(rows) + SumFunctionOnSet(f, Solid(k + 1))
      BY <1>8, <2>3, <2>4, <2>5, <2>7, <3>1
    <3> QED
      BY <3>2
  <2> QED
    BY <2>6, <2>7
<1> HIDE DEF T
<1>12. n \in T
  BY <1>2, <1>9, <1>11, NumberInduction
<1>13. Fits(n)
  <2>1. n \in Nat /\ n <= n
    BY <1>2
  <2> HIDE DEF Fits
  <2> QED
    BY <1>12, <2>1 DEF T
<1>14. Points(lines) = SumFunctionOnSet(f, Solid(n))
  BY <1>2 DEF Points, f
<1>15. n \in 0..n /\ n <= n
  BY <1>2
<1> HIDE DEF Solid
<1> QED
  BY <1>2, <1>5, <1>10, <1>13, <1>14, <1>15 DEF V

(* What may be put is put, and never more than there is.                    *)
LEMMA PointsPutIs ==
  ASSUME NEW spirit \in SpiritRow, NEW lines \in Seq([id : Int, num : Int])
  PROVE  /\ PointsPut(spirit, lines) \in SpiritRow
         /\ PointsPut(spirit, lines).points = spirit.points
         /\ \/ Allocated(PointsPut(spirit, lines)) = Allocated(spirit)
            \/ Allocated(PointsPut(spirit, lines)) <= spirit.points
<1> DEFINE n == Normal(spirit)
<1>1. n \in SpiritRow /\ n.points = spirit.points /\ Allocated(n) = Allocated(spirit)
      /\ Allocated(n) \in Nat
  BY NormalIs
<1> HIDE DEF n
<1>2. CASE ~Affords(n, lines)
  BY <1>1, <1>2 DEF PointsPut, n
<1>3. CASE Affords(n, lines)
  <2> DEFINE rows == n.specialism
  <2> DEFINE new == PointsAdded(rows, lines)
  <2>1. rows \in Lines(Int)
    BY <1>1 DEF SpiritRow
  <2>2. /\ new \in Lines(Int) /\ SumOf(new) = SumOf(rows) + Points(lines)
        /\ Points(lines) \in Int
    BY <2>1, PointsAddedIs
  <2>3. PointsPut(spirit, lines) = [n EXCEPT !.specialism = new]
    BY <1>3 DEF PointsPut, n
  <2> HIDE DEF new
  <2>4. /\ PointsPut(spirit, lines) \in SpiritRow
        /\ PointsPut(spirit, lines).points = spirit.points
        /\ PointsPut(spirit, lines).specialism = new
    BY <1>1, <2>2, <2>3 DEF SpiritRow
  <2>5. Allocated(PointsPut(spirit, lines)) = Allocated(n) + Points(lines)
    BY <2>2, <2>4 DEF Allocated, SumOf
  <2>6. Points(lines) > 0 /\ Points(lines) <= Max({0, n.points - Allocated(n)})
    BY <1>3 DEF Affords
  <2>7. n.points \in Nat
    BY <1>1 DEF SpiritRow
  <2>8. n.points - Allocated(n) \in Int
    BY <1>1, <2>7
  <2>9. Max({0, n.points - Allocated(n)}) =
          IF n.points - Allocated(n) > 0 THEN n.points - Allocated(n) ELSE 0
    BY <2>8, MaxZero
  <2>10. Allocated(n) + Points(lines) <= n.points
    BY <1>1, <2>2, <2>6, <2>7, <2>9
  <2> QED
    BY <1>1, <2>4, <2>5, <2>10
<1> QED
  BY <1>2, <1>3

-----------------------------------------------------------------------------
(* The repair of a save.                                                    *)
Stores1(bag) == \A i \in DOMAIN Stocked : <<Stocked[i], 1>> \in BagIds(bag)

BagGood(bag) == IsBag(bag) /\ DistinctIds(bag) /\ BagCids(bag) \subseteq Cids

LEMMA HasRowIs ==
  ASSUME NEW bag, NEW id
  PROVE  HasRow(bag, id) <=> id \in BagIds(bag)
BY DEF HasRow, BagIds

LEMMA StockedIs == IsSeq(Stocked) /\ Len(Stocked) \in Nat /\ DOMAIN Stocked = 1..Len(Stocked)
                   /\ \A i \in DOMAIN Stocked : Stocked[i] \in Cids
<1>1. Stocked \in Seq(Cids)
  BY TablesAssumption
<1> QED
  BY <1>1, SeqMembers

LEMMA DefaultedSame ==
  ASSUME NEW bag, NEW coins, Stores1(bag)
  PROVE  Defaulted(bag, coins) = bag
<1>1. \A i \in DOMAIN Stocked : WithRow(bag, Stocked[i], coins) = bag
  BY HasRowIs DEF Stores1, WithRow
<1>2. PICK p : DefaultRuns(bag, coins, {bag}, p)
  <2> DEFINE V == {bag}
  <2>1. bag \in V
    OBVIOUS
  <2>2. \A i \in DOMAIN Stocked : \A v \in V : WithRow(v, Stocked[i], coins) \in V
    BY <1>1
  <2> HIDE DEF V
  <2>3. \E p : DefaultRuns(bag, coins, V, p)
    BY <2>1, <2>2, StockedIs, DefaultWalk
  <2> QED
    BY <2>3 DEF V
<1> QED
  BY <1>2, StockedIs DEF DefaultRuns

LEMMA DefaultedGood ==
  ASSUME NEW bag, BagGood(bag), NEW coins, \A i \in DOMAIN Stocked : coins[Stocked[i]] \in Int
  PROVE  BagGood(Defaulted(bag, coins)) /\ Stores1(Defaulted(bag, coins))
<1> DEFINE n == Len(Stocked)
<1> DEFINE I == BagIds(bag) \cup (Int \X Nat)
<1> DEFINE V == {v \in BagsOf(I, Cids) : DistinctIds(v)}
<1>1. IsSeq(Stocked) /\ n \in Nat /\ DOMAIN Stocked = 1..n /\ \A i \in 1..n : Stocked[i] \in Cids
  BY StockedIs
<1>2. bag \in V
  BY BagsOfIs DEF BagGood
<1>3. \A v \in V : BagGood(v) /\ BagIds(v) \subseteq I
  <2>1. ASSUME NEW v \in V PROVE BagGood(v) /\ BagIds(v) \subseteq I
    <3>1. v \in BagsOf(I, Cids) /\ IsBag(v) /\ DistinctIds(v)
      BY DEF BagsOf
    <3> HIDE DEF I, V
    <3> QED
      BY <3>1, BagsOfIs DEF BagGood
  <2> HIDE DEF I, V
  <2> QED
    BY <2>1
<1>4. ASSUME NEW i \in 1..n, NEW v \in V
      PROVE  LET new == WithRow(v, Stocked[i], coins)
             IN new \in V /\ BagIds(new) = BagIds(v) \cup {<<Stocked[i], 1>>}
  <2> DEFINE c == Stocked[i]
  <2> DEFINE num == IF coins[c] > 0 THEN coins[c] ELSE Float
  <2> DEFINE new == WithRow(v, c, coins)
  <2>1. IsBag(v) /\ DistinctIds(v) /\ BagIds(v) \subseteq I /\ BagCids(v) \subseteq Cids
    BY <1>3 DEF BagGood
  <2>2. c \in Cids /\ c \in Int /\ num \in Nat
    <3>1. c \in Cids /\ coins[c] \in Int
      BY <1>1
    <3>2. Cids \subseteq Int /\ Float \in Nat
      BY TablesAssumption, RepairAssumption
    <3> HIDE DEF c
    <3>3. num \in Nat
      BY <3>1, <3>2
    <3> QED
      BY <3>1, <3>2, <3>3
  <2>3. <<c, 1>> \in I
    BY <2>2
  <2>4. CASE <<c, 1>> \in BagIds(v)
    <3>1. new = v
      BY <2>4, HasRowIs DEF WithRow
    <3> QED
      BY <2>4, <3>1
  <2>5. CASE <<c, 1>> \notin BagIds(v)
    <3>1. new = Append(v, Stack(<<c, 1>>, c, num))
      BY <2>5, HasRowIs DEF WithRow
    <3> DEFINE id == <<c, 1>>
    <3> HIDE DEF new, num, c, id
    <3>2. /\ IsBag(new) /\ BagIds(new) = BagIds(v) \cup {<<c, 1>>}
          /\ BagCids(new) = BagCids(v) \cup {c} /\ DistinctIds(new)
      BY <2>1, <2>2, <2>5, <3>1, AddStack DEF id
    <3>3. BagIds(new) \subseteq I /\ BagCids(new) \subseteq Cids
      BY <2>1, <2>2, <2>3, <3>2
    <3> HIDE DEF I
    <3>4. new \in V
      BY <3>2, <3>3, BagsOfIs
    <3> HIDE DEF V, c
    <3> QED
      BY <3>2, <3>4 DEF new, c
  <2> QED
    BY <2>4, <2>5
<1> HIDE DEF V, I
<1>5. PICK p : DefaultRuns(bag, coins, V, p)
  <2>1. \A i \in DOMAIN Stocked : \A v \in V : WithRow(v, Stocked[i], coins) \in V
    BY <1>1, <1>4
  <2> QED
    BY <1>1, <1>2, <2>1, DefaultWalk
<1>6. /\ p \in [0..n -> V] /\ p[n] = Defaulted(bag, coins)
      /\ \A k \in 1..n : p[k] = WithRow(p[k - 1], Stocked[k], coins)
  BY <1>5 DEF DefaultRuns
<1> DEFINE Has(k) == \A i \in 1..k : <<Stocked[i], 1>> \in BagIds(p[k])
<1> DEFINE T == {k \in Nat : k <= n => Has(k)}
<1>7. 0 \in T
  OBVIOUS
<1>8. ASSUME NEW k \in Nat, k \in T PROVE k + 1 \in T
  <2>1. SUFFICES ASSUME k + 1 <= n PROVE Has(k + 1)
    OBVIOUS
  <2>2. k <= n /\ k + 1 \in 1..n /\ (k + 1) - 1 = k /\ k \in 0..n
    BY <1>1, <2>1
  <2>3. Has(k)
    BY <1>8, <2>2
  <2>4. p[k] \in V /\ p[k + 1] = WithRow(p[k], Stocked[k + 1], coins)
    BY <1>6, <2>2
  <2>5. BagIds(p[k + 1]) = BagIds(p[k]) \cup {<<Stocked[k + 1], 1>>}
    BY <1>4, <2>2, <2>4
  <2>6. \A i \in 1..(k + 1) : i \in 1..k \/ i = k + 1
    OBVIOUS
  <2> QED
    BY <2>3, <2>5, <2>6
<1> HIDE DEF T
<1>9. n \in T
  BY <1>1, <1>7, <1>8, NumberInduction
<1>10. Has(n)
  BY <1>1, <1>9 DEF T
<1>11. p[n] \in V
  BY <1>1, <1>6
<1> QED
  BY <1>1, <1>3, <1>6, <1>10, <1>11 DEF Stores1

LEMMA RaisedGood ==
  ASSUME NEW bag, BagGood(bag), Stores1(bag)
  PROVE  BagGood(Raised(bag)) /\ Stores1(Raised(bag))
<1> DEFINE n == Len(Stocked)
<1> DEFINE m == Len(bag)
<1> DEFINE V == {v \in BagsOf(BagIds(bag), Cids) :
                   DOMAIN v = DOMAIN bag /\ \A i \in DOMAIN bag : v[i].id = bag[i].id}
<1>1. IsSeq(Stocked) /\ n \in Nat /\ DOMAIN Stocked = 1..n /\ \A i \in 1..n : Stocked[i] \in Cids
  BY StockedIs
<1>2. bag \in V
  BY BagsOfIs DEF BagGood
<1>3. m \in Nat /\ DOMAIN bag = 1..m
  BY BagFacts DEF BagGood
<1>4. ASSUME NEW v \in V
      PROVE  /\ BagGood(v) /\ BagIds(v) = BagIds(bag) /\ DOMAIN v = 1..m
             /\ v = [i \in 1..m |-> v[i]]
             /\ \A i \in 1..m : /\ v[i] = Stack(bag[i].id, v[i].cid, v[i].num)
                                /\ v[i].cid \in Cids /\ v[i].num \in Nat
  <2>1. /\ IsBag(v) /\ BagCids(v) \subseteq Cids
        /\ DOMAIN v = DOMAIN bag /\ \A i \in DOMAIN bag : v[i].id = bag[i].id
    BY <1>4, BagsOfIs DEF BagsOf
  <2>2. BagIds(v) = BagIds(bag) /\ (DistinctIds(v) <=> DistinctIds(bag))
    BY <2>1 DEF BagIds, DistinctIds
  <2>3. v = [i \in DOMAIN v |-> v[i]]
    BY <2>1 DEF IsBag, IsSeq
  <2> QED
    BY <1>3, <2>1, <2>2, <2>3 DEF BagGood, IsBag, BagCids
<1>5. ASSUME NEW v \in V, NEW j \in 1..m, NEW c \in Cids, NEW num \in Nat, NEW new,
             new = [v EXCEPT ![j] = Stack(bag[j].id, c, num)]
      PROVE  new \in V
  <2>1. /\ new = [i \in 1..m |-> new[i]] /\ new[j] = Stack(bag[j].id, c, num)
        /\ \A i \in 1..m : i # j => new[i] = v[i]
    BY <1>4, <1>5
  <2>2. IsSeq(new) /\ DOMAIN new = 1..m
    BY <1>3, <2>1, FunctionIsSeq
  <2>3. ASSUME NEW i \in 1..m
        PROVE  /\ new[i] = Stack(new[i].id, new[i].cid, new[i].num) /\ new[i].num \in Nat
               /\ new[i].id = bag[i].id /\ new[i].cid \in Cids
    BY <1>4, <1>5, <2>1 DEF Stack
  <2>4. IsBag(new)
    BY <2>2, <2>3 DEF IsBag
  <2>5. BagIds(new) \subseteq BagIds(bag) /\ BagCids(new) \subseteq Cids
    BY <1>3, <2>2, <2>3 DEF BagIds, BagCids
  <2> QED
    BY <1>3, <2>2, <2>3, <2>4, <2>5, BagsOfIs
<1>6. ASSUME NEW i \in 1..n, NEW v \in V PROVE WithFloat(v, Stocked[i], bag) \in V
  <2> DEFINE c == Stocked[i]
  <2>1. c \in Cids /\ Float \in Nat
    BY <1>1, RepairAssumption
  <2>2. CASE Rows(bag, c) = {}
    <3> DEFINE j == RowOf(bag, <<c, 1>>)
    <3>1. <<c, 1>> \in BagIds(bag)
      BY <1>1 DEF Stores1
    <3>2. \E k \in DOMAIN bag : bag[k].id = <<c, 1>>
      BY <3>1 DEF BagIds
    <3>3. j \in 1..m /\ bag[j].id = <<c, 1>>
      BY <1>3, <3>2 DEF RowOf
    <3>4. WithFloat(v, c, bag) = [v EXCEPT ![j] = Stack(bag[j].id, c, Float)]
      BY <2>2, <3>3 DEF WithFloat
    <3> HIDE DEF V, j, m, c
    <3>5. WithFloat(v, c, bag) \in V
      BY <1>5, <2>1, <3>3, <3>4
    <3> QED
      BY <3>5 DEF c
  <2>3. CASE Rows(bag, c) # {}
    <3> DEFINE j == Max(Rows(bag, c))
    <3>1. /\ IsFiniteSet(Rows(bag, c)) /\ Rows(bag, c) \subseteq 1..m
      BY <1>3, BagFacts DEF BagGood
    <3>2. Rows(bag, c) \in SUBSET Int
      BY <3>1
    <3>3. j \in 1..m
      BY <2>3, <3>1, <3>2, FiniteMax
    <3>4. v[j].num \in Nat /\ v[j] = Stack(bag[j].id, v[j].cid, v[j].num) /\ v[j].cid \in Cids
      BY <1>4, <3>3
    <3> DEFINE num == Max({v[j].num, Float})
    <3>5. num \in Nat
      BY <2>1, <3>4, MaxTwo
    <3>6. WithFloat(v, c, bag) = [v EXCEPT ![j] = [v[j] EXCEPT !.num = num]]
      BY <2>3 DEF WithFloat
    <3> HIDE DEF num, j
    <3>7. [v[j] EXCEPT !.num = num] = Stack(bag[j].id, v[j].cid, num)
      BY <3>4 DEF Stack
    <3>8. WithFloat(v, c, bag) = [v EXCEPT ![j] = Stack(bag[j].id, v[j].cid, num)]
      BY <3>6, <3>7
    <3> DEFINE d == v[j].cid
    <3> DEFINE new == WithFloat(v, c, bag)
    <3>9. d \in Cids
      BY <3>4
    <3>10. new = [v EXCEPT ![j] = Stack(bag[j].id, d, num)]
      BY <3>8
    <3> HIDE DEF V, m, c, d, new
    <3>11. new \in V
      BY <1>5, <3>3, <3>5, <3>9, <3>10
    <3> QED
      BY <3>11 DEF c, new
  <2> QED
    BY <2>2, <2>3
<1> HIDE DEF V
<1>7. PICK p : RaiseRuns(bag, V, p)
  <2>1. \A i \in DOMAIN Stocked : \A v \in V : WithFloat(v, Stocked[i], bag) \in V
    BY <1>1, <1>6
  <2> QED
    BY <1>1, <1>2, <2>1, RaiseWalk
<1>8. Raised(bag) \in V
  BY <1>1, <1>7 DEF RaiseRuns
<1> QED
  BY <1>4, <1>8 DEF Stores1

(* Heroes with an id and a cid, no two of one id.                           *)
Heroic(rows) ==
  /\ IsSeq(rows)
  /\ \A i \in DOMAIN rows : /\ rows[i] \in HeroRow(rows[i].sid)
                            /\ rows[i].sid # NoSid /\ rows[i].cid > 0
  /\ \A i, j \in DOMAIN rows : rows[i].sid = rows[j].sid => i = j

HeroesGood(rows) ==
  Heroic(rows) /\ \A i \in DOMAIN rows : rows[i].lvl >= 1 /\ rows[i].angel >= 0 /\ rows[i].pages >= 0

LEMMA KeptSame ==
  ASSUME NEW rows, Heroic(rows)
  PROVE  Kept(rows) = rows
<1> DEFINE n == Len(rows)
<1> DEFINE V == Seq(Range(rows))
<1>1. IsSeq(rows) /\ n \in Nat /\ DOMAIN rows = 1..n
  BY SeqFacts DEF Heroic
<1>2. <<>> \in V
  BY SeqGrows
<1>3. \A i \in DOMAIN rows : rows[i] \in Range(rows)
  BY DEF Range
<1>4. ASSUME NEW i \in DOMAIN rows, NEW v \in V PROVE WithHero(v, rows[i]) \in V
  BY <1>3, <1>4, SeqGrows DEF WithHero
<1> HIDE DEF V
<1>5. PICK p : KeepRuns(rows, V, p)
  BY <1>1, <1>2, <1>4, KeepWalk
<1>6. /\ p \in [0..n -> V] /\ p[0] = <<>> /\ p[n] = Kept(rows)
      /\ \A k \in 1..n : p[k] = WithHero(p[k - 1], rows[k])
  BY <1>5 DEF KeepRuns
<1> DEFINE Fits(k) == Len(p[k]) = k /\ \A i \in 1..k : p[k][i] = rows[i]
<1> DEFINE T == {k \in Nat : k <= n => Fits(k)}
<1>7. 0 \in T
  BY <1>6
<1>8. ASSUME NEW k \in Nat, k \in T PROVE k + 1 \in T
  <2>1. SUFFICES ASSUME k + 1 <= n PROVE Fits(k + 1)
    OBVIOUS
  <2>2. k <= n /\ k \in 0..n /\ k + 1 \in 1..n /\ (k + 1) - 1 = k
    BY <1>1, <2>1
  <2>3. Fits(k)
    BY <1>8, <2>2
  <2> DEFINE v == p[k]
  <2> DEFINE h == rows[k + 1]
  <2>4. v \in V /\ p[k + 1] = WithHero(v, h)
    BY <1>6, <2>2
  <2>5. IsSeq(v) /\ DOMAIN v = 1..k
    BY <2>3, <2>4, SeqMembers DEF V
  <2>6. h.sid # NoSid /\ h.cid > 0 /\ h.cid \in Int
    BY <1>1, <2>2 DEF Heroic, HeroRow
  <2>7. ASSUME NEW i \in DOMAIN v PROVE v[i].sid # h.sid
    <3>1. v[i] = rows[i] /\ i \in DOMAIN rows /\ k + 1 \in DOMAIN rows /\ i # k + 1
      BY <1>1, <2>2, <2>3, <2>5
    <3> QED
      BY <3>1 DEF Heroic
  <2>8. p[k + 1] = Append(v, h)
    BY <2>4, <2>6, <2>7 DEF WithHero
  <2> QED
    BY <2>3, <2>5, <2>8, AppendIs
<1> HIDE DEF T
<1>9. n \in T
  BY <1>1, <1>7, <1>8, NumberInduction
<1>10. Fits(n) /\ p[n] \in V
  BY <1>1, <1>6, <1>9 DEF T
<1>11. p[n] \in Seq(Range(rows)) /\ rows \in Seq(Range(rows))
  BY <1>1, <1>10 DEF V, IsSeq
<1> QED
  BY <1>6, <1>10, <1>11, SeqEqual

LEMMA KeptHeroic ==
  ASSUME NEW rows, IsSeq(rows), \A i \in DOMAIN rows : rows[i] \in HeroRow(rows[i].sid)
  PROVE  Heroic(Kept(rows))
<1> DEFINE n == Len(rows)
<1> DEFINE V == {v \in Seq(Range(rows)) : Heroic(v)}
<1>1. n \in Nat /\ DOMAIN rows = 1..n
  BY SeqFacts
<1>2. <<>> \in V
  BY SeqGrows DEF Heroic, IsSeq
<1>3. \A i \in DOMAIN rows : rows[i] \in Range(rows)
  BY DEF Range
<1>4. ASSUME NEW i \in DOMAIN rows, NEW v \in V PROVE WithHero(v, rows[i]) \in V
  <2> DEFINE h == rows[i]
  <2> DEFINE w == Append(v, h)
  <2>1. CASE h.sid = NoSid \/ h.cid <= 0 \/ \E j \in DOMAIN v : v[j].sid = h.sid
    BY <2>1 DEF WithHero
  <2>2. CASE ~(h.sid = NoSid \/ h.cid <= 0 \/ \E j \in DOMAIN v : v[j].sid = h.sid)
    <3>1. WithHero(v, h) = w
      BY <2>2 DEF WithHero
    <3>2. v \in Seq(Range(rows)) /\ Heroic(v) /\ IsSeq(v) /\ h \in HeroRow(h.sid)
      BY <1>4 DEF Heroic
    <3>3. w \in Seq(Range(rows))
      BY <1>3, <3>2, SeqGrows
    <3>4. /\ IsSeq(w) /\ Len(v) \in Nat /\ DOMAIN v = 1..Len(v) /\ DOMAIN w = 1..(Len(v) + 1)
          /\ w[Len(v) + 1] = h /\ \A j \in 1..Len(v) : w[j] = v[j]
      BY <3>2, AppendIs, SeqFacts
    <3>5. h.sid # NoSid /\ h.cid > 0
      BY <2>2, <3>2 DEF HeroRow
    <3>6. \A j \in DOMAIN v : v[j].sid # h.sid
      BY <2>2
    <3> HIDE DEF h, w
    <3>7. \A j \in DOMAIN w : (j \in DOMAIN v /\ w[j] = v[j]) \/ (j = Len(v) + 1 /\ w[j] = h)
      BY <3>4
    <3>8. \A j \in DOMAIN w : w[j] \in HeroRow(w[j].sid) /\ w[j].sid # NoSid /\ w[j].cid > 0
      BY <3>2, <3>5, <3>7 DEF Heroic
    <3>9. \A j, k \in DOMAIN w : w[j].sid = w[k].sid => j = k
      BY <3>2, <3>6, <3>7 DEF Heroic
    <3> QED
      BY <3>1, <3>3, <3>4, <3>8, <3>9 DEF Heroic, h
  <2> QED
    BY <2>1, <2>2
<1> HIDE DEF V
<1>5. PICK p : KeepRuns(rows, V, p)
  BY <1>2, <1>4, KeepWalk
<1>6. Kept(rows) \in V
  BY <1>1, <1>5 DEF KeepRuns
<1> QED
  BY <1>6 DEF V

LEMMA CleanHeroesGood ==
  ASSUME NEW rows, IsSeq(rows), \A i \in DOMAIN rows : rows[i] \in HeroRow(rows[i].sid),
         NEW schema \in Nat
  PROVE  HeroesGood(CleanHeroes(rows, schema))
<1>1. CASE Kept(rows) = <<>> /\ schema < 3
  <2>1. CleanHeroes(rows, schema) = <<Starter>>
    BY <1>1 DEF CleanHeroes
  <2>2. <<Starter>> = [i \in 1..1 |-> Starter] /\ DOMAIN <<Starter>> = 1..1
    OBVIOUS
  <2>3. IsSeq(<<Starter>>)
    BY <2>2, FunctionIsSeq
  <2>4. /\ Starter \in HeroRow(Starter.sid) /\ Starter.sid # NoSid /\ Starter.cid > 0
        /\ Starter.lvl = 1 /\ Starter.angel = 1 /\ Starter.pages = 1
    BY RepairAssumption DEF Starter, HeroRow
  <2> QED
    BY <2>1, <2>2, <2>3, <2>4 DEF HeroesGood, Heroic
<1>2. CASE ~(Kept(rows) = <<>> /\ schema < 3)
  <2> DEFINE old == Kept(rows)
  <2> DEFINE n == Len(old)
  <2> DEFINE new == [i \in DOMAIN old |-> CleanHero(old[i], schema)]
  <2>1. Heroic(old)
    BY KeptHeroic
  <2>2. CleanHeroes(rows, schema) = new
    BY <1>2 DEF CleanHeroes
  <2> HIDE DEF old
  <2>3. n \in Nat /\ DOMAIN old = 1..n
    BY <2>1, SeqFacts DEF Heroic
  <2>4. IsSeq(new) /\ DOMAIN new = 1..n /\ \A i \in 1..n : new[i] = CleanHero(old[i], schema)
    BY <2>3, FunctionIsSeq
  <2>5. ASSUME NEW i \in 1..n
        PROVE  /\ new[i] \in HeroRow(new[i].sid) /\ new[i].sid = old[i].sid
               /\ new[i].sid # NoSid /\ new[i].cid > 0
               /\ new[i].lvl >= 1 /\ new[i].angel >= 0 /\ new[i].pages >= 0
    <3> DEFINE h == old[i]
    <3> DEFINE least == IF schema < 4 THEN 1 ELSE 0
    <3>1. h \in HeroRow(h.sid) /\ h.sid # NoSid /\ h.cid > 0
      BY <2>1, <2>3, <2>5 DEF Heroic
    <3>2. new[i] = [h EXCEPT !.lvl = Max({1, @}), !.angel = Max({@, least}),
                             !.pages = Max({@, least})]
      BY <2>4, <2>5 DEF CleanHero
    <3> HIDE DEF new, h
    <3>3. {h.lvl, h.angel, h.pages} \subseteq Int /\ least \in Nat
      BY <3>1 DEF HeroRow
    <3> HIDE DEF least
    <3>4. /\ Max({1, h.lvl}) \in Int /\ Max({1, h.lvl}) >= 1
          /\ Max({h.angel, least}) \in Int /\ Max({h.angel, least}) >= 0
          /\ Max({h.pages, least}) \in Int /\ Max({h.pages, least}) >= 0
      BY <3>3, MaxTwo
    <3> QED
      BY <3>1, <3>2, <3>4 DEF HeroRow, h
  <2> HIDE DEF new
  <2>6. \A i, j \in DOMAIN new : new[i].sid = new[j].sid => i = j
    BY <2>1, <2>3, <2>4, <2>5 DEF Heroic
  <2> QED
    BY <2>2, <2>4, <2>5, <2>6 DEF HeroesGood, Heroic
<1> QED
  BY <1>1, <1>2

LEMMA CleanHeroesSame ==
  ASSUME NEW rows, HeroesGood(rows)
  PROVE  CleanHeroes(rows, Schema) = rows
<1>1. Kept(rows) = rows
  BY KeptSame DEF HeroesGood
<1>2. ASSUME NEW i \in DOMAIN rows PROVE CleanHero(rows[i], Schema) = rows[i]
  <2> DEFINE h == rows[i]
  <2>1. h \in HeroRow(h.sid) /\ h.lvl >= 1 /\ h.angel >= 0 /\ h.pages >= 0
    BY <1>2 DEF HeroesGood, Heroic
  <2> HIDE DEF h
  <2>2. {h.lvl, h.angel, h.pages} \subseteq Int
    BY <2>1 DEF HeroRow
  <2>3. Max({1, h.lvl}) = h.lvl /\ Max({h.angel, 0}) = h.angel /\ Max({h.pages, 0}) = h.pages
    BY <2>1, <2>2, MaxTwo
  <2>4. CleanHero(h, Schema) = [h EXCEPT !.lvl = Max({1, @}), !.angel = Max({@, 0}),
                                         !.pages = Max({@, 0})]
    BY DEF CleanHero, Schema
  <2>5. CleanHero(h, Schema) = h
    BY <2>1, <2>3, <2>4 DEF HeroRow
  <2> QED
    BY <2>5 DEF h
<1>3. rows = [i \in DOMAIN rows |-> rows[i]]
  BY DEF HeroesGood, Heroic, IsSeq
<1> QED
  BY <1>1, <1>2, <1>3 DEF CleanHeroes, Schema

TeamGood(team) == IsSeq(team) /\ \A i \in DOMAIN team : team[i] # NoSid

TeamsGood(teams) ==
  /\ teams = [t \in 1..3 |-> teams[t]]
  /\ \A t \in 1..3 : TeamGood(teams[t])

LEMMA StanceIs ==
  ASSUME NEW team, IsSeq(team)
  PROVE  TeamGood(Stance(team)) /\ (TeamGood(team) => Stance(team) = team)
<1> DEFINE keep == Range(team) \ {NoSid}
<1> DEFINE R == Range(team) \cap keep
<1>1. NoSid \notin R
  OBVIOUS
<1>2. TeamGood(team) => \A i \in DOMAIN team : team[i] \in keep
  BY DEF TeamGood, Range
<1>3. Stance(team) = Only(team, keep)
  BY DEF Stance
<1> HIDE DEF keep
<1>4. Only(team, keep) \in Seq(R) /\ (TeamGood(team) => Only(team, keep) = team)
  BY <1>2, OnlyIs
<1> HIDE DEF R
<1>5. TeamGood(Only(team, keep))
  BY <1>1, <1>4, SeqMembers DEF TeamGood
<1> QED
  BY <1>3, <1>4, <1>5

LEMMA CleanTeamsGood ==
  ASSUME NEW teams, \A t \in DOMAIN teams : IsSeq(teams[t]), NEW heroes, HeroesGood(heroes),
         NEW schema
  PROVE  TeamsGood(CleanTeams(teams, heroes, schema))
<1>1. TeamGood(<<>>)
  BY SeqGrows DEF TeamGood, IsSeq
<1>2. ASSUME heroes # <<>> PROVE TeamGood(<<heroes[1].sid>>)
  <2>1. 1 \in DOMAIN heroes
    BY <1>2, SeqFacts DEF HeroesGood, Heroic, IsSeq
  <2>2. heroes[1].sid # NoSid
    BY <2>1 DEF HeroesGood, Heroic
  <2> DEFINE e == heroes[1].sid
  <2> HIDE DEF e
  <2>3. <<e>> = [i \in 1..1 |-> e] /\ DOMAIN <<e>> = 1..1
    OBVIOUS
  <2>4. IsSeq(<<e>>)
    BY <2>3, FunctionIsSeq
  <2> QED
    BY <2>2, <2>3, <2>4 DEF TeamGood, e
<1> DEFINE stance(t) == IF t \in DOMAIN teams THEN Stance(teams[t]) ELSE <<>>
<1>3. \A t : TeamGood(stance(t))
  BY <1>1, StanceIs
<1> DEFINE new == CleanTeams(teams, heroes, schema)
<1>4. new = [t \in 1..3 |->
               IF t = 1 /\ schema < 3 /\ heroes # <<>> /\ stance(t) = <<>>
                 THEN <<heroes[1].sid>> ELSE stance(t)]
  BY DEF CleanTeams
<1> HIDE DEF new, stance
<1>5. \A t \in 1..3 : TeamGood(new[t])
  BY <1>2, <1>3, <1>4
<1> QED
  BY <1>4, <1>5 DEF TeamsGood, new

LEMMA CleanTeamsSame ==
  ASSUME NEW teams, TeamsGood(teams), NEW heroes
  PROVE  CleanTeams(teams, heroes, Schema) = teams
<1>1. DOMAIN teams = 1..3
  BY DEF TeamsGood
<1>2. \A t \in 1..3 : Stance(teams[t]) = teams[t]
  BY StanceIs DEF TeamsGood, TeamGood
<1>3. CleanTeams(teams, heroes, Schema) = [t \in 1..3 |-> teams[t]]
  BY <1>1, <1>2 DEF CleanTeams, Schema
<1> QED
  BY <1>3 DEF TeamsGood

PassedGood(passed) ==
  passed \in Seq(Nat \ {0}) /\ Once(passed) /\ Contains(passed, FirstPlot)

LEMMA CleanPassedGood ==
  ASSUME NEW passed \in Seq(Int)
  PROVE  PassedGood(CleanPassed(passed))
<1> DEFINE P == Nat \ {0}
<1> DEFINE R == Range(passed) \cap P
<1> DEFINE levels == Firsts(passed, P)
<1>1. IsSeq(passed) /\ FirstPlot \in P
  BY SeqMembers, RepairAssumption
<1> HIDE DEF P
<1>2. levels \in Seq(R) /\ Once(levels)
  BY <1>1, FirstsIs
<1> DEFINE n == Len(levels)
<1>3. n \in Nat /\ DOMAIN levels = 1..n /\ levels = [i \in 1..n |-> levels[i]]
      /\ \A i \in 1..n : levels[i] \in P
  <2>1. \A x \in R : x \in P
    OBVIOUS
  <2> HIDE DEF R
  <2> QED
    BY <1>2, <2>1, SeqMembers
<1> HIDE DEF levels
<1>4. levels \in Seq(P)
  BY <1>3, SeqFrom
<1>5. CASE Contains(levels, FirstPlot)
  BY <1>2, <1>4, <1>5 DEF CleanPassed, PassedGood, levels, P
<1>6. CASE ~Contains(levels, FirstPlot)
  <2> DEFINE new == <<FirstPlot>> \o levels
  <2>1. CleanPassed(passed) = new
    BY <1>6 DEF CleanPassed, levels, P
  <2>2. /\ new \in Seq(P) /\ DOMAIN new = 1..(n + 1)
        /\ new[1] = FirstPlot /\ \A i \in 2..(n + 1) : new[i] = levels[i - 1]
    <3>1. <<FirstPlot>> \in Seq(P) /\ Len(<<FirstPlot>>) = 1 /\ <<FirstPlot>>[1] = FirstPlot
      BY <1>1
    <3> DEFINE q == <<FirstPlot>>
    <3> HIDE DEF q
    <3>2. q \in Seq(P) /\ Len(q) = 1 /\ q[1] = FirstPlot
      BY <3>1 DEF q
    <3>3. q \o levels \in Seq(P)
      BY <1>4, <3>2, SeqGrows
    <3>4. /\ Len(q \o levels) = n + 1 /\ (q \o levels)[1] = q[1]
          /\ \A i \in 2..(n + 1) : (q \o levels)[i] = levels[i - 1]
      <4>1. /\ Len(q \o levels) = Len(q) + n
            /\ \A i \in 1..(Len(q) + n) :
                 (q \o levels)[i] = IF i <= Len(q) THEN q[i] ELSE levels[i - Len(q)]
        BY <1>4, <3>2, JoinedIs
      <4>2. \A i \in 1..(1 + n) : (q \o levels)[i] = IF i <= 1 THEN q[i] ELSE levels[i - 1]
        BY <3>2, <4>1
      <4>3. n \in Nat
        BY <1>3
      <4> DEFINE joined == q \o levels
      <4>4. \A i \in 1..(1 + n) : joined[i] = IF i <= 1 THEN q[i] ELSE levels[i - 1]
        BY <4>2
      <4> HIDE DEF n, joined
      <4>5. joined[1] = q[1] /\ \A i \in 2..(n + 1) : joined[i] = levels[i - 1]
        BY <4>3, <4>4
      <4> QED
        BY <3>2, <4>1, <4>3, <4>5 DEF joined
    <3>5. DOMAIN (q \o levels) = 1..(n + 1)
      BY <3>3, <3>4, SeqMembers
    <3> QED
      BY <3>2, <3>3, <3>4, <3>5 DEF q
  <2> HIDE DEF new
  <2>3. \A i \in 1..n : levels[i] # FirstPlot
    BY <1>3, <1>6 DEF Contains
  <2>4. \A i \in 1..(n + 1) : \/ i = 1
                              \/ i - 1 \in 1..n /\ new[i] = levels[i - 1]
    <3>1. \A i \in 1..(n + 1) : i = 1 \/ (i \in 2..(n + 1) /\ i - 1 \in 1..n)
      BY <1>3
    <3> QED
      BY <2>2, <3>1
  <2>5. ASSUME NEW i \in DOMAIN new, NEW j \in DOMAIN new, new[i] = new[j] PROVE i = j
    <3>1. CASE i = 1 \/ j = 1
      BY <2>2, <2>3, <2>4, <2>5, <3>1
    <3>2. CASE i # 1 /\ j # 1
      <4>1. i - 1 \in DOMAIN levels /\ j - 1 \in DOMAIN levels /\ levels[i - 1] = levels[j - 1]
        BY <1>3, <2>2, <2>4, <2>5, <3>2
      <4>2. i - 1 = j - 1
        BY <1>2, <4>1 DEF Once
      <4> QED
        BY <1>3, <2>2, <4>2
    <3> QED
      BY <3>1, <3>2
  <2>6. Contains(new, FirstPlot)
    BY <1>3, <2>2 DEF Contains
  <2> QED
    BY <2>1, <2>2, <2>5, <2>6 DEF PassedGood, Once, P
<1> QED
  BY <1>5, <1>6

LEMMA CleanPassedSame ==
  ASSUME NEW passed, PassedGood(passed)
  PROVE  CleanPassed(passed) = passed
<1> DEFINE P == Nat \ {0}
<1>1. passed \in Seq(P) /\ Once(passed) /\ Contains(passed, FirstPlot)
  BY DEF PassedGood
<1> HIDE DEF P
<1>2. IsSeq(passed) /\ \A i \in DOMAIN passed : passed[i] \in P
  BY <1>1, SeqMembers
<1>3. Firsts(passed, P) = passed
  BY <1>1, <1>2, FirstsIs
<1> QED
  BY <1>1, <1>3 DEF CleanPassed, P

-----------------------------------------------------------------------------
(* What a repair leaves alone.                                              *)
RepairGood(s) ==
  /\ s.schema = Schema /\ BagGood(s.bag) /\ Stores1(s.bag)
  /\ HeroesGood(s.heroes) /\ TeamsGood(s.teams) /\ PassedGood(s.passed)

Repairable ==
  {"schema", "bag", "heroes", "teams", "help", "passed", "lvl", "guide"}

LEMMA RepairedSame ==
  ASSUME NEW s, NEW coins, RepairGood(s), Repairable \subseteq DOMAIN s,
         s = [f \in DOMAIN s |-> s[f]]
  PROVE  Repaired(s, coins) = s
<1>1. /\ s.schema = Schema /\ ~(s.schema < 3) /\ ~(s.schema < 6)
  BY DEF RepairGood, Schema
<1>2. /\ FullBag(s.bag, coins, s.schema) = s.bag
      /\ CleanHeroes(s.heroes, s.schema) = s.heroes
      /\ CleanTeams(s.teams, s.heroes, s.schema) = s.teams
      /\ CleanPassed(s.passed) = s.passed
  BY <1>1, DefaultedSame, CleanHeroesSame, CleanTeamsSame, CleanPassedSame
     DEF RepairGood, FullBag
<1>3. Repaired(s, coins) =
        [s EXCEPT !.schema = s.schema, !.bag = s.bag, !.heroes = s.heroes, !.teams = s.teams,
                  !.help = s.help, !.passed = s.passed, !.guide = s.guide]
  BY <1>1, <1>2 DEF Repaired
<1> QED
  BY <1>3 DEF Repairable

LEMMA RepairedGood ==
  ASSUME NEW s, IsSave(s), NEW coins, \A i \in DOMAIN Stocked : coins[Stocked[i]] \in Int
  PROVE  RepairGood(Repaired(s, coins))
<1> DEFINE heroes == CleanHeroes(s.heroes, s.schema)
<1> DEFINE new == Repaired(s, coins)
<1>1. /\ s.schema \in Nat /\ BagGood(s.bag) /\ s.passed \in Seq(Int)
      /\ \A t \in DOMAIN s.teams : IsSeq(s.teams[t])
      /\ IsSeq(s.heroes) /\ \A i \in DOMAIN s.heroes : s.heroes[i] \in HeroRow(s.heroes[i].sid)
      /\ Repairable \subseteq DOMAIN s
  BY DEF IsSave, BagGood, BagCids, Repairable
<1>2. HeroesGood(heroes)
  BY <1>1, CleanHeroesGood
<1> HIDE DEF heroes
<1>3. TeamsGood(CleanTeams(s.teams, heroes, s.schema)) /\ PassedGood(CleanPassed(s.passed))
  BY <1>1, <1>2, CleanTeamsGood, CleanPassedGood
<1>4. /\ BagGood(FullBag(s.bag, coins, s.schema)) /\ Stores1(FullBag(s.bag, coins, s.schema))
  BY <1>1, DefaultedGood, RaisedGood DEF FullBag
<1>5. /\ new.schema = Schema /\ new.bag = FullBag(s.bag, coins, s.schema)
      /\ new.heroes = heroes /\ new.teams = CleanTeams(s.teams, heroes, s.schema)
      /\ new.passed = CleanPassed(s.passed)
  BY <1>1 DEF Repaired, Repairable, heroes
<1> HIDE DEF new
<1> QED
  BY <1>2, <1>3, <1>4, <1>5 DEF RepairGood, new

-----------------------------------------------------------------------------
(* Items.  What a trade takes and gives is what the book says.              *)
ItemsOf(bag, net) ==
  BagGood(bag) /\ Stores1(bag) /\ net = [c \in Cids |-> Total(bag, c)]

LEMMA FollowsGood ==
  ASSUME NEW bag, BagGood(bag), Stores1(bag), NEW new, Follows(bag, new),
         BagCids(new) \subseteq Cids
  PROVE  BagGood(new) /\ Stores1(new)
BY DEF BagGood, Stores1, Follows

LEMMA NothingWorth ==
  ASSUME NEW c
  PROVE  Worth(<<>>, c) = 0
<1>1. {i \in DOMAIN <<>> : <<>>[i].id = c} = {}
  OBVIOUS
<1> QED
  BY <1>1, SumEmpty DEF Worth

LEMMA GrantedItems ==
  ASSUME NEW bag, NEW net, ItemsOf(bag, net), NEW gains \in Lines(Cids)
  PROVE  ItemsOf(Granted(bag, gains), Booked(net, <<>>, gains))
<1> DEFINE new == Granted(bag, gains)
<1>1. IsRewards(gains) /\ Named(gains) \subseteq Cids
  <2>1. Cids \subseteq Int
    BY TablesAssumption
  <2> QED
    BY <2>1, LinesTyped, LinesMembers DEF IsRewards
<1>2. BagGood(bag) /\ Stores1(bag) /\ IsBag(bag) /\ BagCids(bag) \subseteq Cids
  BY DEF ItemsOf, BagGood
<1>3. /\ Follows(bag, new) /\ BagCids(new) \subseteq BagCids(bag) \cup Named(gains)
      /\ \A c : Total(new, c) = Total(bag, c) + Worth(gains, c)
  BY <1>1, <1>2, GrantedIs
<1>4. \A c : Total(bag, c) \in Nat /\ Worth(gains, c) \in Nat /\ Worth(<<>>, c) = 0
  BY <1>1, <1>2, BagFacts, LinesFacts, NothingWorth DEF IsRewards
<1> HIDE DEF new
<1>5. BagGood(new) /\ Stores1(new)
  BY <1>1, <1>2, <1>3, FollowsGood
<1>6. net = [c \in Cids |-> Total(bag, c)]
  BY DEF ItemsOf
<1>7. Booked(net, <<>>, gains) = [c \in Cids |-> Total(new, c)]
  <2>1. ASSUME NEW c \in Cids PROVE net[c] + Worth(gains, c) - Worth(<<>>, c) = Total(new, c)
    BY <1>3, <1>4, <1>6
  <2> QED
    BY <2>1 DEF Booked
<1> QED
  BY <1>5, <1>7 DEF ItemsOf, new

LEMMA ConsumedItems ==
  ASSUME NEW bag, NEW net, ItemsOf(bag, net), NEW costs \in Lines(Cids),
         CanConsumeCids(bag, costs)
  PROVE  ItemsOf(ConsumedCids(bag, costs), Booked(net, costs, <<>>))
<1> DEFINE new == ConsumedCids(bag, costs)
<1>1. IsLines(costs)
  BY LinesTyped
<1>2. BagGood(bag) /\ Stores1(bag) /\ IsBag(bag) /\ BagCids(bag) \subseteq Cids
  BY DEF ItemsOf, BagGood
<1>3. \A c : Total(bag, c) \in Nat /\ Worth(costs, c) \in Nat /\ Worth(<<>>, c) = 0
             /\ Asked(costs, c) = Worth(costs, c)
  BY <1>1, <1>2, BagFacts, LinesFacts, NothingWorth
<1>4. /\ IsBag(new) /\ DOMAIN new = DOMAIN bag
      /\ \A i \in DOMAIN bag : new[i].id = bag[i].id /\ new[i].cid = bag[i].cid
  BY <1>1, <1>2, ConsumedRows
<1>5. ASSUME NEW c PROVE Total(new, c) = Total(bag, c) - Worth(costs, c)
  <2>1. Asked(costs, c) <= Total(bag, c)
    <3>1. CASE c \in Named(costs)
      BY <3>1 DEF CanConsumeCids
    <3>2. CASE c \notin Named(costs)
      BY <1>1, <1>3, <3>2, LinesFacts
    <3> QED
      BY <3>1, <3>2
  <2> QED
    BY <1>1, <1>2, <1>3, <2>1, ConsumedTotal
<1> HIDE DEF new
<1>6. Follows(bag, new) /\ BagCids(new) \subseteq Cids
  BY <1>2, <1>4 DEF Follows, BagIds, BagCids, DistinctIds
<1>7. BagGood(new) /\ Stores1(new)
  BY <1>2, <1>6, FollowsGood
<1>8. net = [c \in Cids |-> Total(bag, c)]
  BY DEF ItemsOf
<1>9. Booked(net, costs, <<>>) = [c \in Cids |-> Total(new, c)]
  <2>1. ASSUME NEW c \in Cids PROVE net[c] + Worth(<<>>, c) - Worth(costs, c) = Total(new, c)
    BY <1>3, <1>5, <1>8
  <2> QED
    BY <2>1 DEF Booked
<1> QED
  BY <1>7, <1>9 DEF ItemsOf, new

LEMMA TradedItems ==
  ASSUME NEW bag, NEW net, ItemsOf(bag, net), NEW costs \in Lines(Cids),
         NEW gains \in Lines(Cids), CanConsumeCids(bag, costs)
  PROVE  ItemsOf(Granted(ConsumedCids(bag, costs), gains), Booked(net, costs, gains))
<1> DEFINE mid == ConsumedCids(bag, costs)
<1> DEFINE new == Granted(mid, gains)
<1> DEFINE less == Booked(net, costs, <<>>)
<1>1. ItemsOf(mid, less)
  BY ConsumedItems
<1> HIDE DEF mid, less
<1>2. ItemsOf(new, Booked(less, <<>>, gains))
  BY <1>1, GrantedItems
<1>3. IsLines(costs) /\ IsLines(gains) /\ IsBag(bag)
  BY LinesTyped DEF ItemsOf, BagGood
<1>4. \A c : Total(bag, c) \in Nat /\ Worth(costs, c) \in Nat /\ Worth(gains, c) \in Nat
             /\ Worth(<<>>, c) = 0
  BY <1>3, BagFacts, LinesFacts, NothingWorth
<1>5. net = [c \in Cids |-> Total(bag, c)]
  BY DEF ItemsOf
<1>6. Booked(less, <<>>, gains) = Booked(net, costs, gains)
  <2>1. ASSUME NEW c \in Cids
        PROVE  less[c] + Worth(gains, c) - Worth(<<>>, c)
                 = net[c] + Worth(gains, c) - Worth(costs, c)
    BY <1>4, <1>5 DEF less, Booked
  <2> QED
    BY <2>1 DEF Booked
<1> QED
  BY <1>2, <1>6 DEF mid

LEMMA ConvertedItems ==
  ASSUME NEW bag, NEW net, ItemsOf(bag, net), NEW goods, IsLines(goods),
         \A i \in DOMAIN goods : goods[i].num > 0, CanConsumeIds(bag, goods),
         NEW gains \in Lines(Cids)
  PROVE  ItemsOf(Granted(ConsumedIds(bag, goods), gains), Booked(net, Given(bag, goods), gains))
<1> DEFINE mid == ConsumedIds(bag, goods)
<1> DEFINE given == Given(bag, goods)
<1> DEFINE less == [c \in Cids |-> Total(mid, c)]
<1>1. BagGood(bag) /\ Stores1(bag) /\ IsBag(bag) /\ DistinctIds(bag) /\ BagCids(bag) \subseteq Cids
  BY DEF ItemsOf, BagGood
<1>2. /\ Follows(bag, mid) /\ BagCids(mid) = BagCids(bag)
      /\ \A c : Total(bag, c) = Total(mid, c) + Worth(given, c)
      /\ \A c : Worth(given, c) \in Nat
  BY <1>1, ConsumedIdsIs
<1> HIDE DEF mid, given
<1>3. ItemsOf(mid, less)
  BY <1>1, <1>2, FollowsGood DEF ItemsOf
<1>4. ItemsOf(Granted(mid, gains), Booked(less, <<>>, gains))
  BY <1>3, GrantedItems
<1>5. IsLines(gains) /\ IsBag(mid)
  BY <1>2, LinesTyped DEF Follows
<1>6. \A c : Total(mid, c) \in Nat /\ Worth(gains, c) \in Nat /\ Worth(<<>>, c) = 0
  BY <1>5, BagFacts, LinesFacts, NothingWorth
<1>7. net = [c \in Cids |-> Total(bag, c)]
  BY DEF ItemsOf
<1>8. Booked(less, <<>>, gains) = Booked(net, given, gains)
  <2>1. ASSUME NEW c \in Cids
        PROVE  less[c] + Worth(gains, c) - Worth(<<>>, c)
                 = net[c] + Worth(gains, c) - Worth(given, c)
    BY <1>2, <1>6, <1>7
  <2> QED
    BY <2>1 DEF Booked
<1> QED
  BY <1>4, <1>8 DEF mid, given

LEMMA TaskItems ==
  ASSUME NEW bag, NEW net, ItemsOf(bag, net), NEW list \in Seq(Tasks), Once(list)
  PROVE  ItemsOf(TasksGranted(bag, list),
                 [c \in Cids |->
                    net[c] + SumFunction([t \in Range(list) |-> Worth(TaskPays[t], c)])])
<1> DEFINE new == TasksGranted(bag, list)
<1>1. BagGood(bag) /\ Stores1(bag) /\ IsBag(bag) /\ BagCids(bag) \subseteq Cids
  BY DEF ItemsOf, BagGood
<1>2. /\ Follows(bag, new) /\ BagCids(new) \subseteq Cids
      /\ \A c \in Cids : Total(new, c) = Total(bag, c)
           + SumFunction([t \in Range(list) |-> Worth(TaskPays[t], c)])
  BY <1>1, TasksGrantedIs
<1> HIDE DEF new
<1>3. BagGood(new) /\ Stores1(new)
  BY <1>1, <1>2, FollowsGood
<1> QED
  BY <1>2, <1>3 DEF ItemsOf, new

-----------------------------------------------------------------------------
(* Counts of what is marked.                                                *)
LEMMA SumOnes ==
  ASSUME NEW S, IsFiniteSet(S), NEW f, \A x \in S : f[x] = 1
  PROVE  SumFunctionOnSet(f, S) = Cardinality(S)
<1> DEFINE F == {s \in SUBSET S : SumFunctionOnSet(f, s) = Cardinality(s)}
<1>1. {} \in F
  BY SumEmpty, FS_EmptySet
<1>2. ASSUME NEW s \in SUBSET S, NEW x \in S \ s, s \in F PROVE s \cup {x} \in F
  <2>1. IsFiniteSet(s)
    BY FS_Subset
  <2>2. \A y \in s \cup {x} : f[y] \in Int
    OBVIOUS
  <2>3. SumFunctionOnSet(f, s \cup {x}) = SumFunctionOnSet(f, s) + f[x]
    BY <2>1, <2>2, SumWith
  <2>4. Cardinality(s \cup {x}) = Cardinality(s) + 1
    BY <2>1, FS_AddElement
  <2>5. s \cup {x} \in SUBSET S /\ f[x] = 1 /\ SumFunctionOnSet(f, s) = Cardinality(s)
    BY <1>2
  <2> QED
    BY <2>3, <2>4, <2>5
<1> HIDE DEF F
<1>3. S \in F
  BY <1>1, <1>2, SetInduction
<1> QED
  BY <1>3 DEF F

LEMMA SumMarks ==
  ASSUME NEW S, IsFiniteSet(S), NEW G \in SUBSET S
  PROVE  SumFunctionOnSet([x \in S |-> IF x \in G THEN 1 ELSE 0], S) = Cardinality(G)
<1> DEFINE f == [x \in S |-> IF x \in G THEN 1 ELSE 0]
<1> DEFINE R == S \ G
<1>1. IsFiniteSet(G) /\ IsFiniteSet(R) /\ G \cap R = {} /\ G \cup R = S
  BY FS_Subset
<1>2. (\A x \in G : f[x] = 1) /\ (\A x \in R : f[x] = 0) /\ (\A x \in G \cup R : f[x] \in Int)
  OBVIOUS
<1> HIDE DEF f, R
<1>3. SumFunctionOnSet(f, G \cup R) = SumFunctionOnSet(f, G) + SumFunctionOnSet(f, R)
  BY <1>1, <1>2, SumUnion
<1>4. SumFunctionOnSet(f, G) = Cardinality(G) /\ SumFunctionOnSet(f, R) = 0
  BY <1>1, <1>2, SumOnes, SumZero
<1>5. Cardinality(G) \in Nat
  BY <1>1, FS_CardinalityType
<1>6. SumFunctionOnSet(f, S) = Cardinality(G)
  BY <1>1, <1>3, <1>4, <1>5
<1> QED
  BY <1>6 DEF f

LEMMA AtMostOnce ==
  ASSUME NEW q, Once(q), NEW x
  PROVE  LET n == Cardinality({i \in DOMAIN q : q[i] = x})
         IN n = IF In(q, x) THEN 1 ELSE 0
<1> DEFINE I == {i \in DOMAIN q : q[i] = x}
<1>1. CASE In(q, x)
  <2>1. PICK i \in DOMAIN q : q[i] = x
    BY <1>1 DEF In
  <2>2. I = {i}
    BY <2>1 DEF Once
  <2> QED
    BY <1>1, <2>2, FS_Singleton
<1>2. CASE ~In(q, x)
  <2>1. I = {}
    BY <1>2 DEF In
  <2> QED
    BY <1>2, <2>1, FS_EmptySet
<1> QED
  BY <1>1, <1>2

-----------------------------------------------------------------------------
(* The second invariant: what the bag, the rewards, the spirit points and   *)
(* the repaired parts of a copy say agrees with its book.                   *)
Fields(s) ==
  /\ s = [f \in DOMAIN s |-> s[f]]
  /\ Repairable \cup {"refresh", "mails", "tasks", "signs", "friends", "received", "spirit",
                      "seen", "running", "purchases", "book", "name", "remark", "groups"}
       \subseteq DOMAIN s
  /\ {"net", "mailPaid", "taskPaid", "signPaid", "signable", "received", "gifts", "pool",
      "today", "cycle", "ever", "stood", "told"} \subseteq DOMAIN s.book

ItemsGood(s) == ItemsOf(s.bag, s.book.net)

MailsGood(s) ==
  /\ s.mails \in [Mails -> {Unread, Read, Claimed, Deleted}]
  /\ s.book.mailPaid \in [Mails -> Nat]
  /\ \A m \in Mails : s.book.mailPaid[m] <= IF s.mails[m] \in {Claimed, Deleted} THEN 1 ELSE 0

TasksGood(s) ==
  /\ s.tasks \in [Tasks -> {Open, Done, Claimed}]
  /\ s.book.taskPaid \in [Tasks -> Nat]
  /\ \A t \in Tasks : s.book.taskPaid[t] <= IF s.tasks[t] = Claimed THEN 1 ELSE 0

SignsGood(s) ==
  /\ s.signs \in [Signs -> [can : Seq(BOOLEAN), index : Nat]]
  /\ s.book.signPaid \in [Signs -> Nat]
  /\ \A n \in Signs :
       s.book.signPaid[n] + Cardinality(Signable(s, n)) = s.book.signable[n]

GiftsGood(s) ==
  /\ s.received \in Nat /\ s.book.received \in Nat /\ s.book.gifts \in [Pids -> Nat]
  /\ s.received = s.book.received + SumFunctionOnSet(s.book.gifts, Pids)

SpiritGood(s) ==
  /\ s.spirit \in SpiritRow /\ s.book.pool \in Nat
  /\ s.spirit.points <= s.book.pool /\ Allocated(s.spirit) <= s.book.pool

FixedGood(s) ==
  /\ s.schema = Schema
  /\ HeroesGood(s.heroes) /\ TeamsGood(s.teams) /\ PassedGood(s.passed)

StoryGood(s) ==
  /\ s.refresh \in [Stores -> [free : Nat, count : Nat]]
  /\ s.seen \subseteq Scripts /\ s.running \in Scripts \cup {NoScript}

Held(s) ==
  /\ Fields(s) /\ ItemsGood(s) /\ MailsGood(s) /\ TasksGood(s) /\ SignsGood(s)
  /\ GiftsGood(s) /\ SpiritGood(s) /\ FixedGood(s) /\ StoryGood(s)

HeldInv == Held(mem) /\ Held(disk)

(* What handlers of other parts leave alone.                                *)
SameItems(s, t) == t.bag = s.bag /\ t.book.net = s.book.net
SameMails(s, t) == t.mails = s.mails /\ t.book.mailPaid = s.book.mailPaid
SameTasks(s, t) == t.tasks = s.tasks /\ t.book.taskPaid = s.book.taskPaid
SameSigns(s, t) ==
  t.signs = s.signs /\ t.book.signPaid = s.book.signPaid /\ t.book.signable = s.book.signable
SameGifts(s, t) ==
  t.received = s.received /\ t.book.received = s.book.received /\ t.book.gifts = s.book.gifts
SameSpirit(s, t) == t.spirit = s.spirit /\ t.book.pool = s.book.pool
SameFixed(s, t) ==
  t.schema = s.schema /\ t.heroes = s.heroes /\ t.teams = s.teams /\ t.passed = s.passed
SameStory(s, t) == t.refresh = s.refresh /\ t.seen = s.seen /\ t.running = s.running

LEMMA HeldFrom ==
  ASSUME NEW s, Held(s), NEW t, Fields(t),
         SameItems(s, t) \/ ItemsGood(t), SameMails(s, t) \/ MailsGood(t),
         SameTasks(s, t) \/ TasksGood(t), SameSigns(s, t) \/ SignsGood(t),
         SameGifts(s, t) \/ GiftsGood(t), SameSpirit(s, t) \/ SpiritGood(t),
         SameFixed(s, t) \/ FixedGood(t), SameStory(s, t) \/ StoryGood(t)
  PROVE  Held(t)
<1>1. ItemsGood(t)
  BY DEF Held, SameItems, ItemsGood
<1>2. MailsGood(t)
  BY DEF Held, SameMails, MailsGood
<1>3. TasksGood(t)
  BY DEF Held, SameTasks, TasksGood
<1>4. SignsGood(t)
  BY DEF Held, SameSigns, SignsGood, Signable
<1>5. GiftsGood(t)
  BY DEF Held, SameGifts, GiftsGood
<1>6. SpiritGood(t)
  BY DEF Held, SameSpirit, SpiritGood
<1>7. FixedGood(t)
  BY DEF Held, SameFixed, FixedGood
<1>8. StoryGood(t)
  BY DEF Held, SameStory, StoryGood
<1> QED
  BY <1>1, <1>2, <1>3, <1>4, <1>5, <1>6, <1>7, <1>8 DEF Held

LEMMA AnswerHeld ==
  ASSUME HeldInv, NEW new, Held(new), NEW changed, Answer(new, changed)
  PROVE  HeldInv'
<1>1. mem' = new /\ (disk' = new \/ disk' = disk)
  BY DEF Answer
<1>2. Held(mem') /\ Held(disk')
  BY <1>1 DEF HeldInv
<1> QED
  BY <1>2 DEF HeldInv

(* Looking at purchase records.                                             *)
LEMMA TouchedHeld ==
  ASSUME NEW s, Held(s), NEW K, NEW d
  PROVE  Held(Touched(s, K, d)) /\ Touched(s, K, d).bag = s.bag
<1> DEFINE t == Touched(s, K, d)
<1>1. Fields(s)
  BY DEF Held
<1>2. /\ DOMAIN t = DOMAIN s /\ t = [f \in DOMAIN t |-> t[f]]
      /\ \A f \in DOMAIN s \ {"purchases"} : t[f] = s[f]
  BY <1>1 DEF Touched, Fields
<1> HIDE DEF t
<1>3. Fields(t) /\ t.bag = s.bag
  BY <1>1, <1>2 DEF Fields, Repairable
<1>4. /\ SameItems(s, t) /\ SameMails(s, t) /\ SameTasks(s, t) /\ SameSigns(s, t)
      /\ SameGifts(s, t) /\ SameSpirit(s, t) /\ SameFixed(s, t) /\ SameStory(s, t)
  BY <1>1, <1>2 DEF Fields, Repairable, SameItems, SameMails, SameTasks, SameSigns, SameGifts,
                    SameSpirit, SameFixed, SameStory
<1> QED
  BY <1>3, <1>4, HeldFrom DEF t

(* What a copy is after some of its fields, and some entries of its book,   *)
(* were replaced.                                                           *)
Changed(s, t, fields, entries) ==
  /\ DOMAIN t = DOMAIN s /\ t = [f \in DOMAIN t |-> t[f]]
  /\ \A f \in DOMAIN s \ (fields \cup {"book"}) : t[f] = s[f]
  /\ DOMAIN t.book = DOMAIN s.book
  /\ \A f \in DOMAIN s.book \ entries : t.book[f] = s.book[f]

LEMMA ChangedSame ==
  ASSUME NEW s, Fields(s), NEW t, NEW fields, NEW entries, Changed(s, t, fields, entries)
  PROVE  /\ Fields(t)
         /\ "bag" \notin fields /\ "net" \notin entries => SameItems(s, t)
         /\ "mails" \notin fields /\ "mailPaid" \notin entries => SameMails(s, t)
         /\ "tasks" \notin fields /\ "taskPaid" \notin entries => SameTasks(s, t)
         /\ "signs" \notin fields /\ "signPaid" \notin entries /\ "signable" \notin entries
              => SameSigns(s, t)
         /\ "received" \notin fields \cup entries /\ "gifts" \notin entries => SameGifts(s, t)
         /\ "spirit" \notin fields /\ "pool" \notin entries => SameSpirit(s, t)
         /\ fields \cap {"schema", "heroes", "teams", "passed"} = {} => SameFixed(s, t)
         /\ fields \cap {"refresh", "seen", "running"} = {} => SameStory(s, t)
<1>1. Fields(t)
  BY DEF Fields, Changed
<1>2. "bag" \notin fields /\ "net" \notin entries => SameItems(s, t)
  BY DEF Fields, Changed, SameItems, Repairable
<1>3. "mails" \notin fields /\ "mailPaid" \notin entries => SameMails(s, t)
  BY DEF Fields, Changed, SameMails, Repairable
<1>4. "tasks" \notin fields /\ "taskPaid" \notin entries => SameTasks(s, t)
  BY DEF Fields, Changed, SameTasks, Repairable
<1>5. "signs" \notin fields /\ "signPaid" \notin entries /\ "signable" \notin entries
        => SameSigns(s, t)
  BY DEF Fields, Changed, SameSigns, Repairable
<1>6. "received" \notin fields \cup entries /\ "gifts" \notin entries => SameGifts(s, t)
  BY DEF Fields, Changed, SameGifts, Repairable
<1>7. "spirit" \notin fields /\ "pool" \notin entries => SameSpirit(s, t)
  BY DEF Fields, Changed, SameSpirit, Repairable
<1>8. fields \cap {"schema", "heroes", "teams", "passed"} = {} => SameFixed(s, t)
  BY DEF Fields, Changed, SameFixed, Repairable
<1>9. fields \cap {"refresh", "seen", "running"} = {} => SameStory(s, t)
  BY DEF Fields, Changed, SameStory, Repairable
<1> QED
  BY <1>1, <1>2, <1>3, <1>4, <1>5, <1>6, <1>7, <1>8, <1>9

(* Purchases.                                                               *)
LEMMA BuyHeld ==
  ASSUME HeldInv, NEW k \in Goods, NEW n \in Counts, NEW later, Buy(k, n, later)
  PROVE  HeldInv'
<1> DEFINE s == Touched(mem, {k}, day)
<1> DEFINE b == Bought(s, k, n, later)
<1> DEFINE B == Purchased(b.book, k, n, later)
<1> DEFINE t == [b EXCEPT !.book = B]
<1>1. /\ n \in 1..MaxCount /\ CanConsumeCids(mem.bag, Times(Price[k], n)) /\ Answer(t, TRUE)
  BY DEF Buy, MayBuy
<1>2. Held(s) /\ s.bag = mem.bag
  BY TouchedHeld DEF HeldInv
<1> HIDE DEF s
<1>3. Fields(s) /\ ItemsGood(s)
  BY <1>2 DEF Held
<1>4. /\ Changed(s, b, {"bag", "purchases"}, {}) /\ b.book = s.book
      /\ b.bag = Granted(ConsumedCids(s.bag, Times(Price[k], n)), Times(Content[k], n))
  BY <1>3 DEF Bought, Changed, Fields, Repairable
<1>5. Fields(b)
  BY <1>3, <1>4, ChangedSame
<1> HIDE DEF b
<1>6. /\ DOMAIN B = DOMAIN b.book
      /\ \A f \in DOMAIN b.book \ {"net", "today", "cycle", "ever"} : B[f] = b.book[f]
      /\ B.net = Booked(b.book.net, Times(Price[k], n), Times(Content[k], n))
  BY <1>5 DEF Purchased, Fields
<1> HIDE DEF B
<1>7. Changed(s, t, {"bag", "purchases"}, {"net", "today", "cycle", "ever"})
      /\ t.bag = b.bag /\ t.book = B
  BY <1>3, <1>4, <1>5, <1>6 DEF Changed, Fields, Repairable
<1> HIDE DEF t
<1>8. ItemsGood(t)
  <2>1. n \in Nat
    BY <1>1 DEF MaxCount
  <2>2. Times(Price[k], n) \in Lines(Cids) /\ Times(Content[k], n) \in Lines(Cids)
    BY <2>1, TimesLines, TablesAssumption
  <2> QED
    BY <1>1, <1>2, <1>3, <1>4, <1>6, <1>7, <2>2, TradedItems DEF ItemsGood
<1>9. Held(t)
  BY <1>2, <1>3, <1>7, <1>8, ChangedSame, HeldFrom
<1> QED
  BY <1>1, <1>9, AnswerHeld

LEMMA RefreshPriceIs ==
  ASSUME NEW s, StoryGood(s), NEW f \in Stores
  PROVE  RefreshPrice(s, f) \in Lines(Cids)
<1> DEFINE costs == RefreshCost[f]
<1> DEFINE n == Min({RefreshOf(s, f).count + 1, Len(costs)})
<1>1. RefreshOf(s, f).count \in Nat
  BY DEF StoryGood, RefreshOf, NewRefresh
<1>2. costs \in Seq(Nat)
  BY TablesAssumption
<1> HIDE DEF costs
<1>3. Len(costs) \in Nat /\ DOMAIN costs = 1..Len(costs)
      /\ (\A i \in DOMAIN costs : costs[i] \in Nat) /\ (costs # <<>> => Len(costs) > 0)
  <2>1. /\ IsSeq(costs) /\ Len(costs) \in Nat /\ DOMAIN costs = 1..Len(costs)
        /\ \A i \in DOMAIN costs : costs[i] \in Nat
    BY <1>2, SeqMembers
  <2> QED
    BY <1>2, <2>1
<1>4. costs # <<>> => n \in DOMAIN costs
  BY <1>1, <1>3, MinTwo
<1> HIDE DEF n
<1>5. costs # <<>> => Line(RefreshCid, costs[n]) \in [id : Cids, num : Nat]
  BY <1>3, <1>4, TablesAssumption DEF Line
<1>6. \A l \in [id : Cids, num : Nat] : <<l>> \in Seq([id : Cids, num : Nat])
  OBVIOUS
<1>7. <<>> \in Lines(Cids)
  BY SeqGrows DEF Lines
<1> QED
  BY <1>5, <1>6, <1>7 DEF RefreshPrice, Lines, costs, n

LEMMA RefreshHeld ==
  ASSUME HeldInv, NEW f \in Stores, RefreshStore(f)
  PROVE  HeldInv'
<1> DEFINE b == Refreshed(mem, f, day)
<1> DEFINE price == RefreshPrice(mem, f)
<1> DEFINE cycle == [k \in Goods |-> IF k \in ShelfOf[f] THEN 0 ELSE b.book.cycle[k]]
<1> DEFINE t == [b EXCEPT !.book.net = Booked(b.book.net, price, <<>>), !.book.cycle = cycle]
<1>1. Held(mem) /\ Fields(mem) /\ ItemsGood(mem) /\ StoryGood(mem)
  BY DEF HeldInv, Held
<1>2. CanConsumeCids(mem.bag, price) /\ Answer(t, TRUE)
  BY DEF RefreshStore, MayRefresh
<1>3. price \in Lines(Cids)
  BY <1>1, RefreshPriceIs
<1>4. /\ Changed(mem, b, {"bag", "refresh", "purchases"}, {}) /\ b.book = mem.book
      /\ b.bag = ConsumedCids(mem.bag, price) /\ b.seen = mem.seen /\ b.running = mem.running
  BY <1>1 DEF Refreshed, Changed, Fields, Repairable
<1>5. b.refresh \in [Stores -> [free : Nat, count : Nat]]
  <2> DEFINE r == RefreshOf(mem, f)
  <2> DEFINE next == [free |-> Max({0, r.free - 1}), count |-> r.count + 1]
  <2>1. r.free \in Nat /\ r.count \in Nat
    BY <1>1 DEF StoryGood, RefreshOf, NewRefresh
  <2>2. Max({0, r.free - 1}) \in Nat
    <3>1. r.free - 1 \in Int
      BY <2>1
    <3> QED
      BY <3>1, MaxZero
  <2>3. next \in [free : Nat, count : Nat]
    BY <2>1, <2>2
  <2>4. b.refresh = [mem.refresh EXCEPT ![f] = IF f \in OwnRefresh THEN next ELSE mem.refresh[f]]
    BY <1>1 DEF Refreshed, Fields
  <2> HIDE DEF next, b
  <2> QED
    BY <2>3, <2>4, <1>1 DEF StoryGood
<1>6. Fields(b)
  BY <1>1, <1>4, ChangedSame
<1> HIDE DEF b, price, cycle
<1>7. /\ Changed(mem, t, {"bag", "refresh", "purchases"}, {"net", "cycle"})
      /\ t.bag = b.bag /\ t.refresh = b.refresh /\ t.seen = b.seen /\ t.running = b.running
      /\ t.book.net = Booked(mem.book.net, price, <<>>)
  BY <1>1, <1>4, <1>6 DEF Changed, Fields, Repairable
<1> HIDE DEF t
<1>8. ItemsGood(t)
  BY <1>1, <1>2, <1>3, <1>4, <1>7, ConsumedItems DEF ItemsGood
<1>9. StoryGood(t)
  BY <1>1, <1>4, <1>5, <1>7 DEF StoryGood
<1>10. Held(t)
  BY <1>1, <1>7, <1>8, <1>9, ChangedSame, HeldFrom
<1> QED
  BY <1>2, <1>10, AnswerHeld

LEMMA ConvertHeld ==
  ASSUME HeldInv, NEW goods \in GoodsLists, NEW value,
         \A id \in DOMAIN value : value[id] \in Lines(Cids), Convert(goods, value)
  PROVE  HeldInv'
<1> DEFINE b == Converted(mem, goods, value)
<1> DEFINE given == Given(mem.bag, goods)
<1> DEFINE gains == ValueOf(goods, value)
<1> DEFINE t == [b EXCEPT !.book.net = Booked(b.book.net, given, gains)]
<1>1. Held(mem) /\ Fields(mem) /\ ItemsGood(mem)
  BY DEF HeldInv, Held
<1>2. /\ \A i \in DOMAIN goods : goods[i].num > 0 /\ goods[i].id \in DOMAIN value
      /\ CanConsumeIds(mem.bag, goods) /\ Answer(t, TRUE)
  BY DEF Convert, MayConvert, Given
<1>3. IsLines(goods) /\ IsSeq(goods)
  <2> DEFINE L == [id : {goods[i].id : i \in DOMAIN goods}, num : Int]
  <2>1. goods \in Seq(L)
    BY RequestsAssumption
  <2> HIDE DEF L
  <2>2. IsSeq(goods) /\ \A i \in DOMAIN goods : goods[i] \in L
    BY <2>1, SeqMembers
  <2>3. \A i \in DOMAIN goods : goods[i].num \in Nat
    BY <1>2, <2>2 DEF L
  <2> QED
    BY <2>2, <2>3 DEF IsLines
<1>4. gains \in Lines(Cids)
  BY <1>2, <1>3, ValueIn DEF IsLines
<1>5. /\ Changed(mem, b, {"bag"}, {}) /\ b.book = mem.book
      /\ b.bag = Granted(ConsumedIds(mem.bag, goods), gains)
  BY <1>1 DEF Converted, Changed, Fields, Repairable
<1>6. Fields(b)
  BY <1>1, <1>5, ChangedSame
<1> HIDE DEF b, given, gains
<1>7. /\ Changed(mem, t, {"bag"}, {"net"})
      /\ t.bag = b.bag /\ t.book.net = Booked(mem.book.net, given, gains)
  BY <1>1, <1>5, <1>6 DEF Changed, Fields, Repairable
<1> HIDE DEF t
<1>8. ItemsGood(t)
  BY <1>1, <1>2, <1>3, <1>4, <1>5, <1>7, ConvertedItems DEF ItemsGood, given
<1>9. Held(t)
  BY <1>1, <1>7, <1>8, ChangedSame, HeldFrom
<1> QED
  BY <1>2, <1>9, AnswerHeld

LEMMA ShopsHeld ==
  ASSUME HeldInv, Shops
  PROVE  HeldInv'
<1>1. ASSUME NEW k \in Goods, NEW n \in Counts, BuyDeclined(k, n) PROVE HeldInv'
  <2>1. Held(Touched(mem, {j \in {k} : n \in 1..MaxCount /\ Limited(j)}, day))
    BY TouchedHeld DEF HeldInv
  <2> QED
    BY <1>1, <2>1, AnswerHeld DEF BuyDeclined
<1>2. CASE BuyLog
  <2>1. Held(Touched(mem, Goods, day))
    BY TouchedHeld DEF HeldInv
  <2> QED
    BY <1>2, <2>1, AnswerHeld DEF BuyLog
<1>3. ASSUME NEW goods \in GoodsLists, SellGoods(goods) \/ UseItems(goods) PROVE HeldInv'
  BY <1>3, ConvertHeld, TablesAssumption DEF SellGoods, UseItems
<1>4. CASE Midnight
  BY <1>4 DEF Midnight, copies, HeldInv
<1> QED
  BY <1>1, <1>2, <1>3, <1>4, BuyHeld, RefreshHeld DEF Shops

-----------------------------------------------------------------------------
(* Mails, tasks and sign-ins.                                               *)
LEMMA ReadHeld ==
  ASSUME HeldInv, NEW ids, ReadMails(ids)
  PROVE  HeldInv'
<1> DEFINE t == MailsRead(mem, ids)
<1>1. Held(mem) /\ Fields(mem) /\ MailsGood(mem)
  BY DEF HeldInv, Held
<1>2. /\ Changed(mem, t, {"mails"}, {}) /\ t.book = mem.book
      /\ t.mails = [m \in Mails |->
           IF mem.mails[m] = Unread /\ In(ids, m) THEN Read ELSE mem.mails[m]]
  BY <1>1 DEF MailsRead, Changed, Fields, Repairable
<1> HIDE DEF t
<1>3. MailsGood(t)
  BY <1>1, <1>2 DEF MailsGood, Unread, Read, Claimed, Deleted
<1>4. Held(t)
  BY <1>1, <1>2, <1>3, ChangedSame, HeldFrom
<1> QED
  BY <1>4, AnswerHeld DEF ReadMails, t

LEMMA DeleteHeld ==
  ASSUME HeldInv, NEW ids, DeleteMails(ids)
  PROVE  HeldInv'
<1> DEFINE t == MailsDeleted(mem, ids)
<1>1. Held(mem) /\ Fields(mem) /\ MailsGood(mem)
  BY DEF HeldInv, Held
<1>2. /\ Changed(mem, t, {"mails"}, {}) /\ t.book = mem.book
      /\ t.mails = [m \in Mails |-> IF In(ids, m) THEN Deleted ELSE mem.mails[m]]
  BY <1>1 DEF MailsDeleted, Changed, Fields, Repairable
<1> HIDE DEF t
<1>3. MailsGood(t)
  BY <1>1, <1>2 DEF MailsGood, Unread, Read, Claimed, Deleted
<1>4. Held(t)
  BY <1>1, <1>2, <1>3, ChangedSame, HeldFrom
<1> QED
  BY <1>4, AnswerHeld DEF DeleteMails, t

LEMMA CollectHeld ==
  ASSUME HeldInv, NEW ids \in MailLists, CollectMails(ids)
  PROVE  HeldInv'
<1> DEFINE due == {m \in Mails : mem.mails[m] \notin {Claimed, Deleted}}
<1> DEFINE found == ToCollect(mem, ids)
<1> DEFINE times(m) == Cardinality({i \in DOMAIN found : found[i] = m})
<1> DEFINE b == MailsCollected(mem, ids)
<1> DEFINE paid == [m \in Mails |-> b.book.mailPaid[m] + times(m)]
<1> DEFINE net == Booked(b.book.net, <<>>, AttachedTo(found))
<1> DEFINE t == [b EXCEPT !.book.net = net, !.book.mailPaid = paid]
<1>1. Held(mem) /\ Fields(mem) /\ ItemsGood(mem) /\ MailsGood(mem)
  BY DEF HeldInv, Held
<1>2. Answer(t, found # <<>>)
  BY DEF CollectMails
<1>3. found \in Seq(Mails) /\ Once(found) /\ Range(found) = Range(ids) \cap due
  <2>1. ids \in Seq(Mails)
    BY RequestsAssumption
  <2>2. /\ found \in Seq(Range(ids) \cap due) /\ Once(found)
        /\ Range(found) = Range(ids) \cap due
    BY <2>1, SeqMembers, FirstsIs DEF ToCollect
  <2> HIDE DEF found
  <2> QED
    BY <2>2, SeqMembers, SeqFrom
<1>4. AttachedTo(found) \in Lines(Cids)
  BY <1>3, AttachedIn
<1>5. /\ Changed(mem, b, {"bag", "mails"}, {}) /\ b.book = mem.book
      /\ b.bag = Granted(mem.bag, AttachedTo(found))
      /\ b.mails = [m \in Mails |-> IF In(found, m) THEN Claimed ELSE mem.mails[m]]
  BY <1>1 DEF MailsCollected, Changed, Fields, Repairable
<1>6. Fields(b)
  BY <1>1, <1>5, ChangedSame
<1>7. \A m \in Mails : /\ times(m) = IF In(found, m) THEN 1 ELSE 0
                       /\ In(found, m) => m \in due
  <2> HIDE DEF found, due
  <2>1. \A m \in Mails : times(m) = IF In(found, m) THEN 1 ELSE 0
    BY <1>3, AtMostOnce
  <2>2. \A m \in Mails : In(found, m) => m \in due
    BY <1>3 DEF In, Range
  <2> QED
    BY <2>1, <2>2
<1> HIDE DEF b, net
<1>8. paid = [m \in Mails |-> mem.book.mailPaid[m] + IF In(found, m) THEN 1 ELSE 0]
  BY <1>5, <1>7
<1> HIDE DEF found, paid
<1>9. /\ Changed(mem, t, {"bag", "mails"}, {"net", "mailPaid"})
      /\ t.bag = b.bag /\ t.mails = b.mails /\ t.book.net = net /\ t.book.mailPaid = paid
  BY <1>1, <1>5, <1>6 DEF Changed, Fields, Repairable
<1> HIDE DEF t
<1>10. ItemsGood(t)
  <2>1. net = Booked(mem.book.net, <<>>, AttachedTo(found))
    BY <1>5 DEF net
  <2> QED
    BY <1>1, <1>4, <1>5, <1>9, <2>1, GrantedItems DEF ItemsGood
<1>11. MailsGood(t)
  <2>1. ASSUME NEW m \in Mails
        PROVE  /\ t.mails[m] \in {Unread, Read, Claimed, Deleted} /\ paid[m] \in Nat
               /\ paid[m] <= IF t.mails[m] \in {Claimed, Deleted} THEN 1 ELSE 0
    <3>1. /\ mem.mails[m] \in {Unread, Read, Claimed, Deleted} /\ mem.book.mailPaid[m] \in Nat
          /\ mem.book.mailPaid[m] <= IF mem.mails[m] \in {Claimed, Deleted} THEN 1 ELSE 0
      BY <1>1 DEF MailsGood
    <3>2. t.mails[m] = IF In(found, m) THEN Claimed ELSE mem.mails[m]
      BY <1>5, <1>9
    <3>3. paid[m] = mem.book.mailPaid[m] + IF In(found, m) THEN 1 ELSE 0
      BY <1>8
    <3>4. In(found, m) => mem.mails[m] \notin {Claimed, Deleted}
      BY <1>7
    <3> QED
      BY <3>1, <3>2, <3>3, <3>4
  <2>2. DOMAIN paid = Mails /\ paid = [m \in Mails |-> paid[m]]
    BY <1>8
  <2>3. t.mails = [m \in Mails |-> t.mails[m]]
    BY <1>5, <1>9
  <2> QED
    BY <2>1, <2>2, <2>3, <1>9 DEF MailsGood
<1>12. Held(t)
  BY <1>1, <1>9, <1>10, <1>11, ChangedSame, HeldFrom
<1> QED
  BY <1>2, <1>12, AnswerHeld

LEMMA SubmitTasksHeld ==
  ASSUME HeldInv, NEW ids \in TaskLists, SubmitTasks(ids)
  PROVE  HeldInv'
<1> DEFINE paid == {u \in Tasks : Pays(mem, u) /\ In(ids, u)}
<1> DEFINE found == ToClaim(mem, ids)
<1> DEFINE b == TasksClaimed(mem, ids)
<1> DEFINE net == [c \in Cids |->
                    b.book.net[c] + SumFunction([u \in paid |-> Worth(TaskPays[u], c)])]
<1> DEFINE marks == [u \in Tasks |-> b.book.taskPaid[u] + IF u \in paid THEN 1 ELSE 0]
<1> DEFINE t == [b EXCEPT !.book.net = net, !.book.taskPaid = marks]
<1>1. Held(mem) /\ Fields(mem) /\ ItemsGood(mem) /\ TasksGood(mem)
  BY DEF HeldInv, Held
<1>2. Answer(t, paid # {})
  BY DEF SubmitTasks
<1>3. found \in Seq(Tasks) /\ Once(found) /\ Range(found) = paid
  <2>1. ids \in Seq(Tasks)
    BY RequestsAssumption
  <2> DEFINE due == {u \in Tasks : Pays(mem, u)}
  <2>2. /\ found \in Seq(Range(ids) \cap due) /\ Once(found)
        /\ Range(found) = Range(ids) \cap due
    BY <2>1, SeqMembers, FirstsIs DEF ToClaim
  <2> HIDE DEF found
  <2> QED
    BY <2>2, SeqMembers, SeqFrom DEF In, Range
<1>4. /\ Changed(mem, b, {"bag", "tasks"}, {}) /\ b.book = mem.book
      /\ b.bag = TasksGranted(mem.bag, found)
      /\ b.tasks = [u \in Tasks |-> IF In(found, u) THEN Claimed ELSE mem.tasks[u]]
  BY <1>1 DEF TasksClaimed, Changed, Fields, Repairable
<1>5. Fields(b)
  BY <1>1, <1>4, ChangedSame
<1> HIDE DEF b, found
<1>6. \A u \in Tasks : In(found, u) <=> u \in paid
  BY <1>3 DEF In, Range
<1>7. /\ net = [c \in Cids |-> mem.book.net[c]
                   + SumFunction([u \in Range(found) |-> Worth(TaskPays[u], c)])]
      /\ marks = [u \in Tasks |-> mem.book.taskPaid[u] + IF u \in paid THEN 1 ELSE 0]
  BY <1>3, <1>4
<1> HIDE DEF net, marks
<1>8. /\ Changed(mem, t, {"bag", "tasks"}, {"net", "taskPaid"})
      /\ t.bag = b.bag /\ t.tasks = b.tasks /\ t.book.net = net /\ t.book.taskPaid = marks
  BY <1>1, <1>4, <1>5 DEF Changed, Fields, Repairable
<1> HIDE DEF t
<1>9. ItemsGood(t)
  <2>1. ItemsOf(TasksGranted(mem.bag, found),
                [c \in Cids |-> mem.book.net[c]
                   + SumFunction([u \in Range(found) |-> Worth(TaskPays[u], c)])])
    BY <1>1, <1>3, TaskItems DEF ItemsGood
  <2>2. ItemsOf(TasksGranted(mem.bag, found), net)
    BY <2>1, <1>7
  <2> QED
    BY <2>2, <1>4, <1>8 DEF ItemsGood
<1>10. TasksGood(t)
  <2>1. ASSUME NEW u \in Tasks
        PROVE  /\ t.tasks[u] \in {Open, Done, Claimed} /\ marks[u] \in Nat
               /\ marks[u] <= IF t.tasks[u] = Claimed THEN 1 ELSE 0
    <3>1. /\ mem.tasks[u] \in {Open, Done, Claimed} /\ mem.book.taskPaid[u] \in Nat
          /\ mem.book.taskPaid[u] <= IF mem.tasks[u] = Claimed THEN 1 ELSE 0
      BY <1>1 DEF TasksGood
    <3>2. t.tasks[u] = IF u \in paid THEN Claimed ELSE mem.tasks[u]
      BY <1>4, <1>6, <1>8
    <3>3. marks[u] = mem.book.taskPaid[u] + IF u \in paid THEN 1 ELSE 0
      BY <1>7
    <3>4. u \in paid => mem.tasks[u] # Claimed
      BY DEF Pays, Done, Claimed
    <3> QED
      BY <3>1, <3>2, <3>3, <3>4
  <2>2. marks = [u \in Tasks |-> marks[u]] /\ t.tasks = [u \in Tasks |-> t.tasks[u]]
    BY <1>4, <1>7, <1>8
  <2> QED
    BY <2>1, <2>2, <1>8 DEF TasksGood
<1>11. Held(t)
  BY <1>1, <1>8, <1>9, <1>10, ChangedSame, HeldFrom
<1> QED
  BY <1>2, <1>11, AnswerHeld

LEMMA SignHeld ==
  ASSUME HeldInv, NEW n \in Signs, SubmitSign(n)
  PROVE  HeldInv'
<1> DEFINE S == Signable(mem, n)
<1> DEFINE i == Min(S)
<1> DEFINE old == mem.signs[n].index
<1> DEFINE index == IF n = 1 THEN Max({old, i}) ELSE old
<1> DEFINE b == Signed(mem, n)
<1> DEFINE net == Booked(b.book.net, <<>>, SignPays[n])
<1> DEFINE t == [b EXCEPT !.book.net = net, !.book.signPaid[n] = b.book.signPaid[n] + 1]
<1>1. Held(mem) /\ Fields(mem) /\ ItemsGood(mem) /\ SignsGood(mem)
  BY DEF HeldInv, Held
<1>2. S # {} /\ Answer(t, TRUE)
  BY DEF SubmitSign, MaySign
<1>3. /\ mem.signs[n].can \in Seq(BOOLEAN) /\ mem.signs[n].index \in Nat
      /\ mem.signs[n] \in [can : Seq(BOOLEAN), index : Nat]
  BY <1>1 DEF SignsGood
<1>4. S \subseteq DOMAIN mem.signs[n].can /\ S \in SUBSET Nat /\ IsFiniteSet(S)
  <2>1. DOMAIN mem.signs[n].can \in SUBSET Nat /\ IsFiniteSet(DOMAIN mem.signs[n].can)
    BY <1>3, SeqMembers, SeqFacts
  <2> QED
    BY <2>1, FS_Subset DEF Signable
<1> HIDE DEF S
<1>5. i \in S /\ i \in Nat /\ i \in DOMAIN mem.signs[n].can
  <2>1. \E x \in S : \A y \in S : x <= y
    BY <1>2, <1>4, LeastNumber
  <2>2. i \in S
    BY <2>1 DEF Min
  <2> QED
    BY <2>2, <1>4
<1> HIDE DEF i
<1>6. index \in Nat
  <2>1. old \in Nat
    BY <1>3
  <2> HIDE DEF old
  <2>2. Max({old, i}) \in Nat
    BY <1>5, <2>1, MaxTwo
  <2> QED
    BY <2>1, <2>2
<1> DEFINE row == [can |-> [mem.signs[n].can EXCEPT ![i] = FALSE], index |-> index]
<1>7. /\ Changed(mem, b, {"bag", "signs"}, {}) /\ b.book = mem.book
      /\ b.bag = Granted(mem.bag, SignPays[n])
      /\ b.signs = [mem.signs EXCEPT ![n] = row]
  <2> HIDE DEF i
  <2>1. b = [mem EXCEPT !.bag = Granted(@, SignPays[n]), !.signs[n] = row]
    BY DEF Signed, i, S
  <2> HIDE DEF b, row
  <2> QED
    BY <1>1, <2>1 DEF Changed, Fields, Repairable
<1> HIDE DEF b
<1> HIDE DEF index
<1>8. Fields(b)
  BY <1>1, <1>7, ChangedSame
<1> HIDE DEF b, net
<1>9. /\ Changed(mem, t, {"bag", "signs"}, {"net", "signPaid"})
      /\ t.bag = b.bag /\ t.signs = b.signs /\ t.book.net = net
      /\ t.book.signPaid = [mem.book.signPaid EXCEPT ![n] = mem.book.signPaid[n] + 1]
      /\ t.book.signable = mem.book.signable
  BY <1>1, <1>7, <1>8 DEF Changed, Fields, Repairable
<1> HIDE DEF t
<1>10. ItemsGood(t)
  <2>1. SignPays[n] \in Lines(Cids) /\ net = Booked(mem.book.net, <<>>, SignPays[n])
    BY <1>7, TablesAssumption DEF net
  <2> QED
    BY <1>1, <1>7, <1>9, <2>1, GrantedItems DEF ItemsGood
<1>20. t.signs = [mem.signs EXCEPT ![n] = row] /\ mem.signs = [m \in Signs |-> mem.signs[m]]
  BY <1>1, <1>7, <1>9 DEF SignsGood
<1>11. t.signs[n].can = [mem.signs[n].can EXCEPT ![i] = FALSE] /\ t.signs[n].index = index
       /\ (\A m \in Signs \ {n} : t.signs[m] = mem.signs[m])
       /\ t.signs = [m \in Signs |-> t.signs[m]]
       /\ DOMAIN t.signs[n] = {"can", "index"}
       /\ t.signs[n] = [can |-> t.signs[n].can, index |-> t.signs[n].index]
  <2>1. /\ t.signs = [m \in Signs |-> t.signs[m]] /\ t.signs[n] = row
        /\ \A m \in Signs \ {n} : t.signs[m] = mem.signs[m]
    <3> HIDE DEF row
    <3> QED
      BY <1>20
  <2>2. /\ row.can = [mem.signs[n].can EXCEPT ![i] = FALSE] /\ row.index = index
        /\ DOMAIN row = {"can", "index"} /\ row = [can |-> row.can, index |-> row.index]
    OBVIOUS
  <2> HIDE DEF row
  <2> QED
    BY <2>1, <2>2
<1>12. t.signs[n].can \in Seq(BOOLEAN) /\ DOMAIN t.signs[n].can = DOMAIN mem.signs[n].can
  BY <1>3, <1>5, <1>11
<1>13. t.signs \in [Signs -> [can : Seq(BOOLEAN), index : Nat]]
  <2>1. t.signs[n] \in [can : Seq(BOOLEAN), index : Nat]
    BY <1>6, <1>11, <1>12
  <2>2. \A m \in Signs : t.signs[m] \in [can : Seq(BOOLEAN), index : Nat]
    BY <1>1, <1>11, <2>1 DEF SignsGood
  <2> QED
    BY <1>11, <2>2
<1>14. Signable(t, n) = S \ {i} /\ \A m \in Signs \ {n} : Signable(t, m) = Signable(mem, m)
  <2>1. \A j \in DOMAIN mem.signs[n].can :
          t.signs[n].can[j] = IF j = i THEN FALSE ELSE mem.signs[n].can[j]
    BY <1>5, <1>11
  <2> QED
    BY <1>11, <1>12, <2>1 DEF Signable, S
<1>15. Cardinality(S) \in Nat /\ Cardinality(S \ {i}) = Cardinality(S) - 1
  BY <1>4, <1>5, FS_RemoveElement, FS_CardinalityType
<1>16. SignsGood(t)
  <2>1. /\ mem.book.signPaid \in [Signs -> Nat]
        /\ \A m \in Signs : mem.book.signPaid[m] + Cardinality(Signable(mem, m))
                              = mem.book.signable[m]
    BY <1>1 DEF SignsGood
  <2>2. t.book.signPaid \in [Signs -> Nat]
    BY <1>9, <2>1
  <2>3. t.book.signPaid[n] + Cardinality(Signable(t, n)) = t.book.signable[n]
    <3>1. t.book.signPaid[n] = mem.book.signPaid[n] + 1 /\ mem.book.signPaid[n] \in Nat
      BY <1>9, <2>1
    <3>2. mem.book.signPaid[n] + Cardinality(S) = mem.book.signable[n]
      BY <2>1 DEF S
    <3>3. Cardinality(Signable(t, n)) = Cardinality(S) - 1
      BY <1>14, <1>15
    <3> QED
      BY <1>9, <1>15, <3>1, <3>2, <3>3
  <2>4. \A m \in Signs \ {n} :
          t.book.signPaid[m] + Cardinality(Signable(t, m)) = t.book.signable[m]
    BY <1>9, <1>14, <2>1
  <2> QED
    BY <1>13, <2>2, <2>3, <2>4 DEF SignsGood
<1>17. Held(t)
  BY <1>1, <1>9, <1>10, <1>16, ChangedSame, HeldFrom
<1> QED
  BY <1>2, <1>17, AnswerHeld

LEMMA CollectsHeld ==
  ASSUME HeldInv, Collects
  PROVE  HeldInv'
BY ReadHeld, CollectHeld, DeleteHeld, SubmitTasksHeld, SignHeld DEF Collects

-----------------------------------------------------------------------------
(* Friends' gifts.                                                          *)
LEMMA MeetHeld ==
  ASSUME HeldInv, Meets
  PROVE  HeldInv'
<1> PICK op \in Operations, named \in PidSets : OperateFriends(op, named)
  BY DEF Meets
<1> DEFINE G == GiftsFrom(mem, op, named)
<1> DEFINE b == Socialized(mem, op, named)
<1> DEFINE gifts == [p \in Pids |-> b.book.gifts[p] + IF p \in G THEN 1 ELSE 0]
<1> DEFINE stood == [p \in Pids |-> IF p \in Targets(named)
                       THEN Stands(op, mem.friends[p], b.book.stood[p])
                       ELSE b.book.stood[p]]
<1> DEFINE t == [b EXCEPT !.book.gifts = gifts, !.book.stood = stood]
<1>1. Held(mem) /\ Fields(mem) /\ GiftsGood(mem)
  BY DEF HeldInv, Held
<1>2. Answer(t, b.friends # mem.friends)
  BY DEF OperateFriends
<1>3. /\ Changed(mem, b, {"friends", "received"}, {}) /\ b.book = mem.book
      /\ b.received = mem.received + Cardinality(G)
  BY <1>1 DEF Socialized, Changed, Fields, Repairable
<1>4. Fields(b)
  BY <1>1, <1>3, ChangedSame
<1>5. IsFiniteSet(Pids) /\ G \in SUBSET Pids /\ IsFiniteSet(G)
  BY PidsAssumption, FS_Subset DEF GiftsFrom
<1> HIDE DEF G, b
<1>6. gifts = [p \in Pids |-> mem.book.gifts[p] + IF p \in G THEN 1 ELSE 0]
  BY <1>3
<1> HIDE DEF gifts, stood
<1>7. /\ Changed(mem, t, {"friends", "received"}, {"gifts", "stood"})
      /\ t.received = b.received /\ t.book.gifts = gifts /\ t.book.received = mem.book.received
  BY <1>1, <1>3, <1>4 DEF Changed, Fields, Repairable
<1> HIDE DEF t
<1>8. GiftsGood(t)
  <2> DEFINE marks == [p \in Pids |-> IF p \in G THEN 1 ELSE 0]
  <2>1. /\ mem.received \in Nat /\ mem.book.received \in Nat
        /\ mem.book.gifts \in [Pids -> Nat]
        /\ mem.received = mem.book.received + SumFunctionOnSet(mem.book.gifts, Pids)
    BY <1>1 DEF GiftsGood
  <2>2. \A p \in Pids : /\ mem.book.gifts[p] \in Int /\ marks[p] \in Int
                        /\ gifts[p] = mem.book.gifts[p] + marks[p] /\ gifts[p] \in Nat
    BY <1>6, <2>1
  <2>3. SumFunctionOnSet(marks, Pids) = Cardinality(G) /\ Cardinality(G) \in Nat
    BY <1>5, SumMarks, FS_CardinalityType
  <2> HIDE DEF marks
  <2>4. SumFunctionOnSet(gifts, Pids)
          = SumFunctionOnSet(mem.book.gifts, Pids) + SumFunctionOnSet(marks, Pids)
    BY <1>5, <2>2, SumPlus
  <2>5. SumFunctionOnSet(mem.book.gifts, Pids) \in Nat
    BY <1>5, <2>1, SumNat
  <2>6. gifts \in [Pids -> Nat]
    BY <1>6, <2>2
  <2> QED
    BY <1>3, <1>7, <2>1, <2>3, <2>4, <2>5, <2>6 DEF GiftsGood
<1>9. Held(t)
  BY <1>1, <1>7, <1>8, ChangedSame, HeldFrom
<1> QED
  BY <1>2, <1>9, AnswerHeld

-----------------------------------------------------------------------------
(* Spirit points.                                                           *)
LEMMA SpiritHeld ==
  ASSUME NEW s, Held(s), NEW spirit \in SpiritRow, spirit.points = s.spirit.points,
         Allocated(spirit) = Allocated(s.spirit) \/ Allocated(spirit) <= s.spirit.points
  PROVE  Held([s EXCEPT !.spirit = spirit])
<1> DEFINE t == [s EXCEPT !.spirit = spirit]
<1>1. Fields(s) /\ SpiritGood(s)
  BY DEF Held
<1>2. Changed(s, t, {"spirit"}, {}) /\ t.book = s.book /\ t.spirit = spirit
  BY <1>1 DEF Changed, Fields
<1> HIDE DEF t
<1>3. Allocated(spirit) \in Nat
  BY NormalIs
<1>4. s.spirit.points \in Nat
  BY <1>1 DEF SpiritGood, SpiritRow
<1>5. SpiritGood(t)
  BY <1>1, <1>2, <1>3, <1>4 DEF SpiritGood
<1> QED
  BY <1>1, <1>2, <1>5, ChangedSame, HeldFrom DEF t

LEMMA ShownHeld ==
  ASSUME NEW s, Held(s)
  PROVE  Held(Shown(s))
<1> DEFINE n == [Normal(s.spirit) EXCEPT !.firstShow = FALSE]
<1> DEFINE rows == [i \in DOMAIN s.heroes |-> [s.heroes[i] EXCEPT !.firstShow = FALSE]]
<1> DEFINE t == Shown(s)
<1>1. Fields(s) /\ SpiritGood(s) /\ FixedGood(s)
  BY DEF Held
<1>2. Changed(s, t, {"spirit", "heroes"}, {}) /\ t.book = s.book /\ t.spirit = n
      /\ t.heroes = rows /\ t.schema = s.schema /\ t.teams = s.teams /\ t.passed = s.passed
  BY <1>1 DEF Changed, Fields, Shown, Repairable
<1>3. /\ n \in SpiritRow /\ n.points = s.spirit.points
      /\ Allocated(n) = Allocated(s.spirit)
  <2>1. /\ Normal(s.spirit) \in SpiritRow /\ Normal(s.spirit).points = s.spirit.points
        /\ Allocated(Normal(s.spirit)) = Allocated(s.spirit)
    BY <1>1, NormalIs DEF SpiritGood
  <2> DEFINE m == Normal(s.spirit)
  <2> HIDE DEF m
  <2>2. m \in SpiritRow /\ m.points = s.spirit.points /\ Allocated(m) = Allocated(s.spirit)
    BY <2>1 DEF m
  <2>3. LET x == [m EXCEPT !.firstShow = FALSE]
        IN x \in SpiritRow /\ x.points = m.points /\ x.specialism = m.specialism
    BY <2>2 DEF SpiritRow
  <2> QED
    BY <2>2, <2>3 DEF Allocated, m
<1> HIDE DEF n, t
<1>4. SpiritGood(t)
  BY <1>1, <1>2, <1>3 DEF SpiritGood
<1>5. HeroesGood(rows)
  <2>1. /\ IsSeq(s.heroes)
        /\ \A i \in DOMAIN s.heroes :
             /\ s.heroes[i] \in HeroRow(s.heroes[i].sid)
             /\ s.heroes[i].sid # NoSid /\ s.heroes[i].cid > 0
             /\ s.heroes[i].lvl >= 1 /\ s.heroes[i].angel >= 0 /\ s.heroes[i].pages >= 0
        /\ \A i, j \in DOMAIN s.heroes : s.heroes[i].sid = s.heroes[j].sid => i = j
    BY <1>1 DEF FixedGood, HeroesGood, Heroic
  <2>2. /\ Len(s.heroes) \in Nat /\ DOMAIN s.heroes = 1..Len(s.heroes)
    BY <2>1, SeqFacts
  <2>3. /\ DOMAIN rows = DOMAIN s.heroes /\ rows = [i \in 1..Len(s.heroes) |-> rows[i]]
    BY <2>2
  <2>4. ASSUME NEW i \in DOMAIN s.heroes
        PROVE  /\ rows[i] \in HeroRow(rows[i].sid) /\ rows[i].sid = s.heroes[i].sid
               /\ rows[i].cid = s.heroes[i].cid /\ rows[i].lvl = s.heroes[i].lvl
               /\ rows[i].angel = s.heroes[i].angel /\ rows[i].pages = s.heroes[i].pages
    <3>1. s.heroes[i] \in HeroRow(s.heroes[i].sid) /\ rows[i] = [s.heroes[i] EXCEPT !.firstShow = FALSE]
      BY <2>1, <2>4
    <3> HIDE DEF rows
    <3> QED
      BY <3>1 DEF HeroRow
  <2> HIDE DEF rows
  <2>5. IsSeq(rows)
    BY <2>2, <2>3, FunctionIsSeq
  <2> QED
    BY <2>1, <2>3, <2>4, <2>5 DEF HeroesGood, Heroic
<1>6. FixedGood(t)
  BY <1>1, <1>2, <1>5 DEF FixedGood
<1> QED
  BY <1>1, <1>2, <1>4, <1>6, ChangedSame, HeldFrom DEF t

LEMMA SpendsHeld ==
  ASSUME HeldInv, Spends
  PROVE  HeldInv'
<1>1. Held(mem) /\ mem.spirit \in SpiritRow
  BY DEF HeldInv, Held, SpiritGood
<1>2. ASSUME NEW lines \in PointLists, Puts(lines) PROVE HeldInv'
  <2> DEFINE spirit == PointsPut(mem.spirit, lines)
  <2>1. lines \in Seq([id : Int, num : Int])
    BY RequestsAssumption
  <2>2. /\ spirit \in SpiritRow /\ spirit.points = mem.spirit.points
        /\ Allocated(spirit) = Allocated(mem.spirit) \/ Allocated(spirit) <= mem.spirit.points
    BY <1>1, <2>1, PointsPutIs
  <2> HIDE DEF spirit
  <2>3. Held([mem EXCEPT !.spirit = spirit])
    BY <1>1, <2>2, SpiritHeld
  <2> QED
    BY <1>2, <2>3, AnswerHeld DEF Puts, spirit
<1>3. CASE ShowSpirits
  BY <1>1, <1>3, ShownHeld, AnswerHeld DEF ShowSpirits
<1>4. CASE SpiritInfo
  <2>1. Held([mem EXCEPT !.spirit = Normal(mem.spirit)])
    BY <1>1, NormalIs, SpiritHeld
  <2> QED
    BY <1>4, <2>1, AnswerHeld DEF SpiritInfo
<1> QED
  BY <1>2, <1>3, <1>4 DEF Spends

-----------------------------------------------------------------------------
(* Guide, name, scripts and reconnects.                                     *)
LEMMA PresentsHeld ==
  ASSUME HeldInv, Presents
  PROVE  HeldInv'
<1>1. Held(mem) /\ Fields(mem)
  BY DEF HeldInv, Held
<1>2. ASSUME NEW g, ReportGuide(g) PROVE HeldInv'
  <2> DEFINE b == Guided(mem, g)
  <2> DEFINE steps == IF Reports(g) THEN b.book.told.steps \cup {g} ELSE b.book.told.steps
  <2> DEFINE t == [b EXCEPT !.book.told.steps = steps]
  <2>1. Answer(t, MovesOn(mem, g))
    BY <1>2 DEF ReportGuide
  <2>2. Changed(mem, b, {"guide"}, {})
    BY <1>1 DEF Guided, Changed, Fields, Repairable
  <2> HIDE DEF b, steps
  <2>3. Changed(mem, t, {"guide"}, {"told"})
    BY <1>1, <2>2 DEF Changed, Fields
  <2> HIDE DEF t
  <2>4. Held(t)
    BY <1>1, <2>3, ChangedSame, HeldFrom
  <2> QED
    BY <2>1, <2>4, AnswerHeld
<1>3. ASSUME NEW g, PlayGroup(g) PROVE HeldInv'
  <2> DEFINE b == GroupDone(mem, g)
  <2> DEFINE groups == IF g > 0 THEN b.book.told.groups \cup {g} ELSE b.book.told.groups
  <2> DEFINE t == [b EXCEPT !.book.told.groups = groups]
  <2>1. Answer(t, b # mem)
    BY <1>3 DEF PlayGroup
  <2>2. Changed(mem, b, {"groups"}, {})
    BY <1>1 DEF GroupDone, Changed, Fields, Repairable
  <2> HIDE DEF b, groups
  <2>3. Changed(mem, t, {"groups"}, {"told"})
    BY <1>1, <2>2 DEF Changed, Fields
  <2> HIDE DEF t
  <2>4. Held(t)
    BY <1>1, <2>3, ChangedSame, HeldFrom
  <2> QED
    BY <2>1, <2>4, AnswerHeld
<1>4. ASSUME NEW name, NEW remark, SetPlayerInfo(name, remark) PROVE HeldInv'
  <2> DEFINE b == Introduced(mem, name, remark)
  <2> DEFINE called == IF name = Blank THEN b.book.told.name ELSE name
  <2> DEFINE said == IF remark = NotGiven THEN b.book.told.remark ELSE remark
  <2> DEFINE t == [b EXCEPT !.book.told.name = called, !.book.told.remark = said]
  <2>1. Answer(t, b # mem)
    BY <1>4 DEF SetPlayerInfo
  <2>2. Changed(mem, b, {"name", "remark"}, {})
    BY <1>1 DEF Introduced, Changed, Fields, Repairable
  <2> HIDE DEF b, called, said
  <2>3. Changed(mem, t, {"name", "remark"}, {"told"})
    BY <1>1, <2>2 DEF Changed, Fields
  <2> HIDE DEF t
  <2>4. Held(t)
    BY <1>1, <2>3, ChangedSame, HeldFrom
  <2> QED
    BY <2>1, <2>4, AnswerHeld
<1> QED
  BY <1>2, <1>3, <1>4 DEF Presents

LEMMA StoryHeld ==
  ASSUME HeldInv, (\E r \in Scripts : GetScript(r)) \/ LastNode
  PROVE  HeldInv'
<1>1. Held(mem) /\ Fields(mem) /\ StoryGood(mem)
  BY DEF HeldInv, Held
<1>2. ASSUME NEW t, Changed(mem, t, {"seen", "running"}, {}), t.refresh = mem.refresh,
             t.seen \subseteq Scripts, t.running \in Scripts \cup {NoScript}
      PROVE  Held(t)
  <2>1. StoryGood(t)
    BY <1>1, <1>2 DEF StoryGood
  <2> QED
    BY <1>1, <1>2, <2>1, ChangedSame, HeldFrom
<1>3. ASSUME NEW r \in Scripts, GetScript(r) PROVE HeldInv'
  <2> DEFINE t == Started(mem, r)
  <2>1. /\ Changed(mem, t, {"seen", "running"}, {}) /\ t.refresh = mem.refresh
        /\ t.seen = mem.seen \cup {r} /\ t.running = r
    BY <1>1 DEF Started, Changed, Fields, Repairable
  <2> HIDE DEF t
  <2>2. Held(t)
    BY <1>1, <1>2, <2>1 DEF StoryGood
  <2> QED
    BY <1>3, <2>2, AnswerHeld DEF GetScript, t
<1>4. CASE LastNode
  <2> DEFINE t == Ended(mem)
  <2>1. /\ Changed(mem, t, {"seen", "running"}, {}) /\ t.refresh = mem.refresh
        /\ t.seen = mem.seen /\ t.running = NoScript
    BY <1>1 DEF Ended, Changed, Fields, Repairable
  <2> HIDE DEF t
  <2>2. Held(t)
    BY <1>1, <1>2, <2>1 DEF StoryGood
  <2> QED
    BY <1>4, <2>2, AnswerHeld DEF LastNode, t
<1> QED
  BY <1>3, <1>4

LEMMA NextHeld == HeldInv /\ [Next]_vars => HeldInv'
<1> SUFFICES ASSUME HeldInv, [Next]_vars PROVE HeldInv'
  OBVIOUS
<1>1. CASE Shops
  BY <1>1, ShopsHeld
<1>2. CASE Collects
  BY <1>2, CollectsHeld
<1>3. CASE Meets
  BY <1>3, MeetHeld
<1>4. CASE Spends
  BY <1>4, SpendsHeld
<1>5. CASE Presents
  BY <1>5, PresentsHeld
<1>6. CASE (\E r \in Scripts : GetScript(r)) \/ LastNode
  BY <1>6, StoryHeld
<1>7. CASE Relog
  BY <1>7 DEF Relog, HeldInv
<1>8. CASE LoginSave
  BY <1>8, AnswerHeld DEF LoginSave, HeldInv
<1>9. CASE UNCHANGED vars
  BY <1>9 DEF vars, copies, HeldInv
<1> QED
  BY <1>1, <1>2, <1>3, <1>4, <1>5, <1>6, <1>7, <1>8, <1>9 DEF Next, Reconnect

(* The save a player comes with, repaired, and the book opened on it.       *)
LEMMA InitHeld == Init => HeldInv
<1> SUFFICES ASSUME Init PROVE HeldInv
  OBVIOUS
<1> PICK start \in StartSaves : Loaded(WithBook(Repaired(start.save, start.coins)))
  BY DEF Init
<1> DEFINE o == start.save
<1> DEFINE s == Repaired(o, start.coins)
<1> DEFINE t == WithBook(s)
<1>1. mem = t /\ disk = t
  BY DEF Loaded
<1>2. IsSave(o) /\ RepairGood(s)
  BY StartAssumption, RepairedGood
<1>3. /\ DOMAIN s = DOMAIN o /\ s.mails = o.mails /\ s.tasks = o.tasks
      /\ s.signs = o.signs /\ s.received = o.received /\ s.spirit = o.spirit
      /\ s.refresh = o.refresh /\ s.seen = o.seen /\ s.running = o.running
  <2> HIDE DEF o
  <2> QED
    BY <1>2 DEF Repaired, IsSave
<1>4. Repairable \cup {"refresh", "mails", "tasks", "signs", "friends", "received", "spirit",
                       "seen", "running", "purchases", "name", "remark", "groups"}
        \subseteq DOMAIN s
  BY <1>2, <1>3 DEF IsSave, Repairable
<1> HIDE DEF o, s
<1>5. /\ DOMAIN t = DOMAIN s \cup {"book"} /\ t = [f \in DOMAIN t |-> t[f]]
      /\ t.book = Opening(s) /\ \A f \in DOMAIN s \ {"book"} : t[f] = s[f]
  BY DEF WithBook
<1> HIDE DEF t
<1>6. /\ t.bag = s.bag /\ t.mails = s.mails /\ t.tasks = s.tasks /\ t.signs = s.signs
      /\ t.received = s.received /\ t.spirit = s.spirit /\ t.refresh = s.refresh
      /\ t.seen = s.seen /\ t.running = s.running /\ t.schema = s.schema
      /\ t.heroes = s.heroes /\ t.teams = s.teams /\ t.passed = s.passed
  BY <1>4, <1>5 DEF Repairable
<1>7. Fields(t)
  BY <1>4, <1>5 DEF Fields, Opening
<1>8. ItemsGood(t)
  BY <1>2, <1>5, <1>6 DEF ItemsGood, ItemsOf, RepairGood, Opening
<1>9. MailsGood(t)
  <2>1. t.book.mailPaid = [m \in Mails |-> 0]
    BY <1>5 DEF Opening
  <2>2. t.mails \in [Mails -> {Unread, Read, Claimed, Deleted}]
    BY <1>2, <1>3, <1>6 DEF IsSave
  <2> QED
    BY <2>1, <2>2 DEF MailsGood
<1>10. TasksGood(t)
  <2>1. t.book.taskPaid = [u \in Tasks |-> 0]
    BY <1>5 DEF Opening
  <2>2. t.tasks \in [Tasks -> {Open, Done, Claimed}]
    BY <1>2, <1>3, <1>6 DEF IsSave
  <2> QED
    BY <2>1, <2>2 DEF TasksGood
<1>11. SignsGood(t)
  <2>1. /\ t.book.signPaid = [n \in Signs |-> 0]
        /\ t.book.signable = [n \in Signs |-> Cardinality(Signable(s, n))]
    BY <1>5 DEF Opening
  <2>2. t.signs \in [Signs -> [can : Seq(BOOLEAN), index : Nat]]
    BY <1>2, <1>3, <1>6 DEF IsSave
  <2>3. ASSUME NEW n \in Signs
        PROVE  Signable(t, n) = Signable(s, n) /\ Cardinality(Signable(s, n)) \in Nat
    <3>1. Signable(t, n) = Signable(s, n)
      BY <1>6 DEF Signable
    <3>2. IsFiniteSet(DOMAIN t.signs[n].can)
      <4>1. t.signs[n].can \in Seq(BOOLEAN)
        BY <2>2
      <4> QED
        BY <4>1, SeqMembers, SeqFacts
    <3>3. IsFiniteSet(Signable(s, n))
      BY <3>1, <3>2, FS_Subset DEF Signable
    <3> QED
      BY <3>1, <3>3, FS_CardinalityType
  <2> QED
    BY <2>1, <2>2, <2>3 DEF SignsGood
<1>12. GiftsGood(t)
  <2> DEFINE none == [p \in Pids |-> 0]
  <2>1. t.book.gifts = none /\ t.book.received = s.received
    BY <1>5 DEF Opening
  <2>2. \A p \in Pids : none[p] = 0
    OBVIOUS
  <2>3. none \in [Pids -> Nat]
    OBVIOUS
  <2> HIDE DEF none
  <2>4. SumFunctionOnSet(none, Pids) = 0
    BY <2>2, SumZero, PidsAssumption
  <2>5. t.received \in Nat
    BY <1>2, <1>3, <1>6 DEF IsSave
  <2> QED
    BY <1>6, <2>1, <2>3, <2>4, <2>5 DEF GiftsGood
<1>13. SpiritGood(t)
  <2>1. t.spirit \in SpiritRow
    BY <1>2, <1>3, <1>6 DEF IsSave, SpiritRow
  <2>2. t.spirit.points \in Nat /\ Allocated(t.spirit) \in Nat
    BY <2>1, NormalIs DEF SpiritRow
  <2>3. t.book.pool = Max({t.spirit.points, Allocated(t.spirit)})
    BY <1>5, <1>6 DEF Opening
  <2> HIDE DEF Allocated
  <2>4. t.book.pool = IF t.spirit.points >= Allocated(t.spirit) THEN t.spirit.points
                      ELSE Allocated(t.spirit)
    BY <2>2, <2>3, MaxTwo
  <2> QED
    BY <2>1, <2>2, <2>4 DEF SpiritGood
<1>14. FixedGood(t)
  BY <1>2, <1>6 DEF FixedGood, RepairGood
<1>15. StoryGood(t)
  BY <1>2, <1>3, <1>6 DEF StoryGood, IsSave
<1> QED
  BY <1>1, <1>7, <1>8, <1>9, <1>10, <1>11, <1>12, <1>13, <1>14, <1>15 DEF HeldInv, Held

(* In both copies of the save the bag, the rewards, the gifts and the       *)
(* spirit points are what the book says, and nothing is left to repair.     *)
THEOREM HeldTheorem == Spec => []HeldInv
<1> QED
  BY InitHeld, NextHeld, PTL DEF Spec

(* For each cid the stacks of the bag together hold what the player came    *)
(* with, plus what every answer handed out, minus what it charged, and no   *)
(* more spirit points are spent than there are (consume_cids,               *)
(* consume_items, add_item, grant_rewards, _put_spirit_points).             *)
THEOREM BooksTheorem == Spec => []BooksBalance
<1>1. HeldInv => BooksBalance
  BY DEF HeldInv, Held, ItemsGood, ItemsOf, SpiritGood, BooksBalance
<1> QED
  BY <1>1, HeldTheorem, PTL

(* A mail, a task, each day of a sign-in and a friend's gift pay at most    *)
(* once (_mail_handle, _claim_task, _claim, _operate_friend).               *)
THEOREM PaidTheorem == Spec => []PaidOnce
<1>1. Inv /\ HeldInv => PaidOnce
  BY DEF Inv, Good, FriendsGood, HeldInv, Held, MailsGood, TasksGood, SignsGood, GiftsGood,
         PaidOnce
<1> QED
  BY <1>1, InvTheorem, HeldTheorem, PTL

(* A second repair of either copy changes nothing (normalize_save).         *)
THEOREM RepairTheorem == Spec => []RepairIdle
<1>1. ASSUME NEW s, Held(s), NEW coins PROVE Repaired(s, coins) = s
  BY <1>1, RepairedSame DEF Held, Fields, ItemsGood, ItemsOf, FixedGood, RepairGood
<1>2. HeldInv => RepairIdle
  BY <1>1 DEF HeldInv, RepairIdle
<1> QED
  BY <1>2, HeldTheorem, PTL

-----------------------------------------------------------------------------
(* How the copies move: every step of a handler is an answer.               *)
LEMMA EveryStep ==
  ASSUME [Next]_vars
  PROVE  (\E new, changed : Answer(new, changed)) \/ Relog \/ UNCHANGED copies
<1>1. CASE Shops
  BY <1>1 DEF Shops, BuyDeclined, Buy, BuyLog, RefreshStore, SellGoods, UseItems, Convert, Midnight
<1>2. CASE Collects
  BY <1>2 DEF Collects, ReadMails, CollectMails, DeleteMails, SubmitTasks, SubmitSign
<1>3. CASE Meets
  BY <1>3 DEF Meets, OperateFriends
<1>4. CASE Spends
  BY <1>4 DEF Spends, Puts, ShowSpirits, SpiritInfo
<1>5. CASE Presents
  BY <1>5 DEF Presents, ReportGuide, PlayGroup, SetPlayerInfo
<1>6. CASE (\E r \in Scripts : GetScript(r)) \/ LastNode
  BY <1>6 DEF GetScript, LastNode
<1>7. CASE Reconnect
  BY <1>7 DEF Reconnect, LoginSave
<1>8. CASE UNCHANGED vars
  BY <1>8 DEF vars
<1> QED
  BY <1>1, <1>2, <1>3, <1>4, <1>5, <1>6, <1>7, <1>8 DEF Next

Bounded == behind \in 0..MaxBehind

LEMMA BoundedLemma == Spec => []Bounded
<1>1. Init => Bounded
  BY BoundAssumption DEF Init, Loaded, Bounded
<1>2. Bounded /\ [Next]_vars => Bounded'
  BY EveryStep, BoundAssumption DEF Answer, Relog, copies, Bounded
<1> QED
  BY <1>1, <1>2, PTL DEF Spec

(* Rows keep distinct ids and numbers that are not negative, mails, tasks   *)
(* and friends keep to their states, and a save keeps the current schema.   *)
THEOREM TypeTheorem == Spec => []TypeOK
<1>1. ASSUME NEW s, Good(s, day), Held(s) PROVE Copy(s)
  <2>1. /\ IsBag(s.bag) /\ DistinctIds(s.bag) /\ \A i \in DOMAIN s.bag : s.bag[i].cid \in Cids
    BY <1>1 DEF Held, ItemsGood, ItemsOf, BagGood, BagCids
  <2>2. /\ s.purchases \in [Goods -> [dayKey : Days \cup {NoDay}, day : Nat, cycle : Nat, total : Nat]]
        /\ s.friends \in [Pids -> FriendRow] /\ s.guide \in Nat
    BY <1>1 DEF Good, ShopGood, Typed, Record, FriendsGood, ProfileGood
  <2>3. \A n \in Signs : s.signs[n].can \in Seq(BOOLEAN) /\ s.signs[n].index \in Nat
    BY <1>1 DEF Held, SignsGood
  <2>4. s.schema = Schema /\ DOMAIN s.teams = 1..3
    BY <1>1 DEF Held, FixedGood, TeamsGood
  <2> QED
    BY <1>1, <2>1, <2>2, <2>3, <2>4 DEF Held, MailsGood, TasksGood, GiftsGood, StoryGood, Copy
<1>2. Inv /\ HeldInv /\ Bounded => TypeOK
  BY <1>1 DEF Inv, HeldInv, Bounded, TypeOK
<1> QED
  BY <1>2, BoundedLemma, InvTheorem, HeldTheorem, PTL

-----------------------------------------------------------------------------
(* Nothing is left unsaved.  Two copies that look alike on a day:           *)
Alike(s, t, d) ==
  /\ DOMAIN t = DOMAIN s /\ t = [f \in DOMAIN t |-> t[f]]
  /\ \A f \in DOMAIN s \ {"purchases", "running", "book"} : t[f] = s[f]
  /\ \A k \in Goods : RecordOn(t.purchases[k], d) = RecordOn(s.purchases[k], d)

LEMMA AlikeSeen ==
  ASSUME NEW s, Fields(s), NEW t, Alike(s, t, day)
  PROVE  Seen(t) = Seen(s)
<1> DEFINE P(u) == [k \in Goods |-> RecordOn(u.purchases[k], day)]
<1>1. P(t) = P(s)
  BY DEF Alike
<1> HIDE DEF P
<1>2. \A u : Seen(u) = [u EXCEPT !.purchases = P(u), !.running = NoScript, !.book = {}]
  BY DEF Seen, P
<1>3. [t EXCEPT !.purchases = P(t), !.running = NoScript, !.book = {}]
        = [s EXCEPT !.purchases = P(s), !.running = NoScript, !.book = {}]
  <2>1. DOMAIN t = DOMAIN s /\ \A f \in DOMAIN s \ {"purchases", "running", "book"} : t[f] = s[f]
    BY DEF Alike
  <2> QED
    BY <1>1, <2>1
<1> QED
  BY <1>2, <1>3

(* An answer that writes, or changes nothing that can be seen.              *)
LEMMA AnswerSaved ==
  ASSUME NothingUnsaved, Bounded, NEW new, NEW changed \in BOOLEAN, Answer(new, changed),
         ~changed => UNCHANGED day /\ Seen(new) = Seen(mem)
  PROVE  NothingUnsaved'
<1>1. CASE changed
  <2>1. behind' = 0 => mem' = new /\ disk' = new
    <3>1. CASE disk' = new /\ behind' = 0
      BY <3>1 DEF Answer
    <3>2. CASE behind < MaxBehind /\ behind' = behind + 1 /\ UNCHANGED disk
      BY <3>2, BoundAssumption DEF Bounded
    <3> QED
      BY <1>1, <3>1, <3>2 DEF Answer
  <2> QED
    BY <2>1 DEF NothingUnsaved
<1>2. CASE ~changed
  <2>1. mem' = new /\ disk' = disk /\ behind' = behind /\ day' = day
    BY <1>2 DEF Answer
  <2>2. Seen(mem)' = Seen(new) /\ Seen(disk)' = Seen(disk)
    BY <2>1 DEF Seen
  <2> QED
    BY <1>2, <2>1, <2>2 DEF NothingUnsaved
<1> QED
  BY <1>1, <1>2

LEMMA GrantedNothing ==
  ASSUME NEW bag, IsBag(bag)
  PROVE  Granted(bag, <<>>) = bag
<1>1. Named(<<>>) = {}
  BY DEF Named
<1>2. IsRewards(<<>>)
  BY <1>1 DEF IsRewards, IsLines, IsSeq
<1> DEFINE g == CHOOSE h : GrantSteps(bag, <<>>, h)
<1>3. GrantSteps(bag, <<>>, g)
  BY <1>2, GrantExists
<1> HIDE DEF g
<1>4. g[{}] = bag
  BY <1>1, <1>3 DEF GrantSteps
<1> QED
  BY <1>1, <1>4, GrantDef DEF g

(* Handlers that report no change.                                          *)
LEMMA QuietCopy ==
  ASSUME HeldInv, NEW t, NEW entries, Changed(mem, t, {"purchases", "running"}, entries),
         \A k \in Goods : RecordOn(t.purchases[k], day) = RecordOn(mem.purchases[k], day)
  PROVE  Seen(t) = Seen(mem)
<1>1. Alike(mem, t, day)
  BY DEF Changed, Alike
<1> QED
  BY <1>1, AlikeSeen DEF HeldInv, Held

LEMMA QuietTouch ==
  ASSUME Inv, HeldInv, NEW K
  PROVE  Seen(Touched(mem, K, day)) = Seen(mem)
<1> DEFINE t == Touched(mem, K, day)
<1>1. Fields(mem) /\ mem.purchases \in [Goods -> Record] /\ day \in Days
  BY DEF HeldInv, Held, Inv, Good, ShopGood, Typed
<1>2. Changed(mem, t, {"purchases"}, {})
      /\ \A k \in Goods : t.purchases[k] \in {mem.purchases[k], RecordOn(mem.purchases[k], day)}
  BY <1>1 DEF Touched, Changed, Fields
<1> HIDE DEF t
<1>3. \A k \in Goods :
        RecordOn(RecordOn(mem.purchases[k], day), day) = RecordOn(mem.purchases[k], day)
  <2>1. \A k \in Goods : mem.purchases[k] \in Record
    BY <1>1
  <2>2. \A r \in Record : RecordOn(r, day).dayKey = day
    BY <1>1, RecordTyped
  <2> QED
    BY <2>1, <2>2 DEF RecordOn
<1>4. Changed(mem, t, {"purchases", "running"}, {})
  BY <1>2 DEF Changed
<1> QED
  BY <1>2, <1>3, <1>4, QuietCopy DEF t

LEMMA RecordEqual ==
  ASSUME NEW p \in Record, NEW q \in Record, p.dayKey = q.dayKey, p.day = q.day,
         p.cycle = q.cycle, p.total = q.total
  PROVE  p = q
<1>1. /\ DOMAIN p = {"dayKey", "day", "cycle", "total"} /\ DOMAIN q = DOMAIN p
      /\ p = [f \in DOMAIN p |-> p[f]] /\ q = [f \in DOMAIN q |-> q[f]]
  BY DEF Record
<1>2. \A f \in DOMAIN p : p[f] = q[f]
  BY <1>1
<1> QED
  BY <1>1, <1>2

LEMMA ShopsSaved ==
  ASSUME Inv, HeldInv, Bounded, NothingUnsaved, Shops
  PROVE  NothingUnsaved'
<1>1. ASSUME NEW k \in Goods, NEW n \in Counts, BuyDeclined(k, n) PROVE NothingUnsaved'
  BY <1>1, QuietTouch, AnswerSaved DEF BuyDeclined
<1>2. ASSUME NEW k \in Goods, NEW n \in Counts, NEW later \in Days, Buy(k, n, later)
      PROVE  NothingUnsaved'
  BY <1>2, AnswerSaved DEF Buy
<1>3. CASE BuyLog
  BY <1>3, QuietTouch, AnswerSaved DEF BuyLog
<1>4. ASSUME NEW f \in Stores, RefreshStore(f) PROVE NothingUnsaved'
  BY <1>4, AnswerSaved DEF RefreshStore
<1>5. ASSUME NEW goods \in GoodsLists, SellGoods(goods) \/ UseItems(goods)
      PROVE  NothingUnsaved'
  BY <1>5, AnswerSaved DEF SellGoods, UseItems, Convert
<1>6. CASE Midnight
  <2>1. behind' = behind /\ mem' = mem /\ disk' = disk /\ day' = day + 1 /\ day \in Int
    BY <1>6, StoreAssumption, DaysAssumption DEF Midnight, copies, Inv, Days
  <2> DEFINE later(s, k) == RecordOn(s.purchases[k], day + 1)
  <2>2. ASSUME behind = 0, NEW k \in Goods PROVE later(mem, k) = later(disk, k)
    <3>1. \A s \in {mem, disk} : s.purchases \in [Goods -> Record] /\ Agrees(s, day)
      BY DEF Inv, Good, ShopGood, Typed
    <3> DEFINE p == mem.purchases[k]
    <3> DEFINE q == disk.purchases[k]
    <3>2. p \in Record /\ q \in Record /\ p.dayKey <= day /\ q.dayKey <= day
      BY <3>1 DEF Agrees
    <3>3. RecordOn(p, day) = RecordOn(q, day)
      <4>1. Seen(mem) = Seen(disk)
        BY <2>2 DEF NothingUnsaved
      <4>2. \A s \in {mem, disk} : "purchases" \in DOMAIN s
        BY DEF HeldInv, Held, Fields
      <4>3. \A s \in {mem, disk} :
              Seen(s).purchases = [j \in Goods |-> RecordOn(s.purchases[j], day)]
        BY <4>2 DEF Seen
      <4> QED
        BY <4>1, <4>3
    <3> HIDE DEF p, q
    <3>4. p.dayKey # day + 1 /\ q.dayKey # day + 1 /\ p.dayKey \in Int /\ q.dayKey \in Int
      BY <2>1, <3>2, StoreAssumption DEF Record, Days
    <3>5. p.cycle = q.cycle /\ p.total = q.total
      BY <2>1, <3>2, <3>3, RecordTyped DEF Inv
    <3>6. day + 1 \in Days
      BY <1>6 DEF Midnight
    <3>7. \A r \in {p, q} : /\ RecordOn(r, day + 1) \in Record
                            /\ RecordOn(r, day + 1).dayKey = day + 1
                            /\ RecordOn(r, day + 1).day = 0
                            /\ RecordOn(r, day + 1).cycle = r.cycle
                            /\ RecordOn(r, day + 1).total = r.total
      BY <3>2, <3>4, <3>6, RecordTyped
    <3>8. RecordOn(p, day + 1) = RecordOn(q, day + 1)
      BY <3>5, <3>7, RecordEqual
    <3> QED
      BY <3>8 DEF p, q
  <2>3. ASSUME behind = 0
        PROVE  [mem EXCEPT !.purchases = [k \in Goods |-> later(mem, k)],
                           !.running = NoScript, !.book = {}]
                 = [disk EXCEPT !.purchases = [k \in Goods |-> later(disk, k)],
                                !.running = NoScript, !.book = {}]
    <3> DEFINE M == [k \in Goods |-> later(mem, k)]
    <3> DEFINE D == [k \in Goods |-> later(disk, k)]
    <3> DEFINE m == [k \in Goods |-> RecordOn(mem.purchases[k], day)]
    <3> DEFINE d == [k \in Goods |-> RecordOn(disk.purchases[k], day)]
    <3>1. M = D
      BY <2>2, <2>3
    <3>2. [mem EXCEPT !.purchases = m, !.running = NoScript, !.book = {}]
            = [disk EXCEPT !.purchases = d, !.running = NoScript, !.book = {}]
      BY <2>3 DEF NothingUnsaved, Seen
    <3> HIDE DEF M, D, m, d
    <3>3. DOMAIN mem = DOMAIN disk
          /\ \A f \in DOMAIN mem \ {"purchases", "running", "book"} : mem[f] = disk[f]
      BY <3>2
    <3>4. [mem EXCEPT !.purchases = M, !.running = NoScript, !.book = {}]
            = [disk EXCEPT !.purchases = D, !.running = NoScript, !.book = {}]
      BY <3>1, <3>3
    <3> QED
      BY <3>4 DEF M, D
  <2> QED
    BY <2>1, <2>3 DEF NothingUnsaved, Seen
<1> QED
  BY <1>1, <1>2, <1>3, <1>4, <1>5, <1>6 DEF Shops

LEMMA CollectsSaved ==
  ASSUME Inv, HeldInv, Bounded, NothingUnsaved, UNCHANGED day, Collects
  PROVE  NothingUnsaved'
<1>1. Held(mem) /\ Fields(mem) /\ IsBag(mem.bag) /\ MailsGood(mem) /\ TasksGood(mem)
  BY DEF HeldInv, Held, ItemsGood, ItemsOf, BagGood
<1>2. mem.mails = [m \in Mails |-> mem.mails[m]] /\ mem.tasks = [u \in Tasks |-> mem.tasks[u]]
  BY <1>1 DEF MailsGood, TasksGood
<1>3. ASSUME NEW ids, ReadMails(ids) PROVE NothingUnsaved'
  <2>1. ASSUME ~ReadsMail(mem, ids) PROVE Seen(MailsRead(mem, ids)) = Seen(mem)
    <3> DEFINE t == MailsRead(mem, ids)
    <3>1. [m \in Mails |-> IF mem.mails[m] = Unread /\ In(ids, m) THEN Read ELSE mem.mails[m]]
            = mem.mails
      BY <1>2, <2>1 DEF ReadsMail
    <3>2. Changed(mem, t, {"purchases", "running"}, {}) /\ t.purchases = mem.purchases
      BY <1>1, <3>1 DEF MailsRead, Changed, Fields, Repairable
    <3> HIDE DEF t
    <3> QED
      BY <3>2, QuietCopy DEF t
  <2> QED
    BY <1>3, <2>1, AnswerSaved DEF ReadMails, ReadsMail
<1>4. ASSUME NEW ids, DeleteMails(ids) PROVE NothingUnsaved'
  <2>1. ASSUME ~DeletesMail(mem, ids) PROVE Seen(MailsDeleted(mem, ids)) = Seen(mem)
    <3> DEFINE t == MailsDeleted(mem, ids)
    <3>1. [m \in Mails |-> IF In(ids, m) THEN Deleted ELSE mem.mails[m]] = mem.mails
      BY <1>2, <2>1 DEF DeletesMail
    <3>2. Changed(mem, t, {"purchases", "running"}, {}) /\ t.purchases = mem.purchases
      BY <1>1, <3>1 DEF MailsDeleted, Changed, Fields, Repairable
    <3> HIDE DEF t
    <3> QED
      BY <3>2, QuietCopy DEF t
  <2> QED
    BY <1>4, <2>1, AnswerSaved DEF DeleteMails, DeletesMail
<1>5. ASSUME NEW ids, CollectMails(ids) PROVE NothingUnsaved'
  <2> DEFINE found == ToCollect(mem, ids)
  <2> DEFINE b == MailsCollected(mem, ids)
  <2> DEFINE net == Booked(b.book.net, <<>>, AttachedTo(found))
  <2> DEFINE paid == [m \in Mails |->
                        b.book.mailPaid[m] + Cardinality({i \in DOMAIN found : found[i] = m})]
  <2> DEFINE t == [b EXCEPT !.book.net = net, !.book.mailPaid = paid]
  <2>1. Answer(t, found # <<>>)
    BY <1>5 DEF CollectMails
  <2>2. ASSUME found = <<>> PROVE Seen(t) = Seen(mem)
    <3>1. AttachedTo(<<>>) = <<>>
      BY AttachedIn, SeqGrows
    <3>2. Granted(mem.bag, AttachedTo(found)) = mem.bag
      BY <1>1, <2>2, <3>1, GrantedNothing
    <3>3. [m \in Mails |-> IF In(found, m) THEN Claimed ELSE mem.mails[m]] = mem.mails
      BY <1>2, <2>2 DEF In
    <3>4. Changed(mem, b, {}, {}) /\ b.purchases = mem.purchases
      BY <1>1, <3>2, <3>3 DEF MailsCollected, Changed, Fields, Repairable
    <3> HIDE DEF b, net, paid
    <3>5. /\ Changed(mem, t, {"purchases", "running"}, {"net", "mailPaid"})
          /\ t.purchases = mem.purchases
      BY <1>1, <3>4 DEF Changed, Fields, Repairable
    <3> HIDE DEF t
    <3> QED
      BY <3>5, QuietCopy
  <2> HIDE DEF found, t
  <2> QED
    BY <2>1, <2>2, AnswerSaved
<1>6. ASSUME NEW ids \in TaskLists, SubmitTasks(ids) PROVE NothingUnsaved'
  <2> DEFINE paid == {u \in Tasks : Pays(mem, u) /\ In(ids, u)}
  <2> DEFINE found == ToClaim(mem, ids)
  <2> DEFINE b == TasksClaimed(mem, ids)
  <2> DEFINE net == [c \in Cids |->
                      b.book.net[c] + SumFunction([u \in paid |-> Worth(TaskPays[u], c)])]
  <2> DEFINE marks == [u \in Tasks |-> b.book.taskPaid[u] + IF u \in paid THEN 1 ELSE 0]
  <2> DEFINE t == [b EXCEPT !.book.net = net, !.book.taskPaid = marks]
  <2>1. Answer(t, paid # {})
    BY <1>6 DEF SubmitTasks
  <2>2. found \in Seq(Tasks) /\ Once(found) /\ Range(found) = paid
    <3>1. ids \in Seq(Tasks)
      BY RequestsAssumption
    <3> DEFINE due == {u \in Tasks : Pays(mem, u)}
    <3>2. /\ found \in Seq(Range(ids) \cap due) /\ Once(found)
          /\ Range(found) = Range(ids) \cap due
      BY <3>1, SeqMembers, FirstsIs DEF ToClaim
    <3> HIDE DEF found
    <3> QED
      BY <3>1, <3>2, SeqMembers, SeqFrom DEF In, Range
  <2>3. ASSUME paid = {} PROVE Seen(t) = Seen(mem)
    <3>1. TasksGranted(mem.bag, found) = mem.bag
      <4> HIDE DEF found, paid
      <4>1. found = <<>>
        BY <2>2, <2>3, SeqMembers DEF Range
      <4>2. BagCids(mem.bag) \subseteq Cids
        BY <1>1 DEF Held, ItemsGood, ItemsOf, BagGood
      <4> QED
        BY <1>1, <2>2, <4>1, <4>2, TasksGrantedIs
    <3>2. \A u \in Tasks : ~In(found, u)
      <4> HIDE DEF found, paid
      <4> QED
        BY <2>2, <2>3 DEF In, Range
    <3>3. [u \in Tasks |-> IF In(found, u) THEN Claimed ELSE mem.tasks[u]] = mem.tasks
      BY <1>2, <3>2
    <3>4. Changed(mem, b, {}, {}) /\ b.purchases = mem.purchases
      BY <1>1, <3>1, <3>3 DEF TasksClaimed, Changed, Fields, Repairable
    <3> HIDE DEF b, net, marks
    <3>5. /\ Changed(mem, t, {"purchases", "running"}, {"net", "taskPaid"})
          /\ t.purchases = mem.purchases
      BY <1>1, <3>4 DEF Changed, Fields, Repairable
    <3> HIDE DEF t
    <3> QED
      BY <3>5, QuietCopy
  <2> HIDE DEF paid, t
  <2> QED
    BY <2>1, <2>3, AnswerSaved
<1>7. ASSUME NEW n \in Signs, SubmitSign(n) PROVE NothingUnsaved'
  BY <1>7, AnswerSaved DEF SubmitSign
<1> QED
  BY <1>3, <1>4, <1>5, <1>6, <1>7 DEF Collects

LEMMA MeetsSaved ==
  ASSUME Inv, HeldInv, Bounded, NothingUnsaved, UNCHANGED day, Meets
  PROVE  NothingUnsaved'
<1> PICK op \in Operations, named \in PidSets : OperateFriends(op, named)
  BY DEF Meets
<1> DEFINE G == GiftsFrom(mem, op, named)
<1> DEFINE b == Socialized(mem, op, named)
<1> DEFINE gifts == [p \in Pids |-> b.book.gifts[p] + IF p \in G THEN 1 ELSE 0]
<1> DEFINE stood == [p \in Pids |-> IF p \in Targets(named)
                       THEN Stands(op, mem.friends[p], b.book.stood[p])
                       ELSE b.book.stood[p]]
<1> DEFINE t == [b EXCEPT !.book.gifts = gifts, !.book.stood = stood]
<1>1. Held(mem) /\ Fields(mem) /\ mem.received \in Nat /\ mem.friends \in [Pids -> FriendRow]
  BY DEF HeldInv, Held, GiftsGood, Inv, Good, FriendsGood
<1>2. Answer(t, b.friends # mem.friends)
  BY DEF OperateFriends
<1>3. /\ Changed(mem, b, {"friends", "received"}, {}) /\ b.purchases = mem.purchases
      /\ b.received = mem.received + Cardinality(G)
      /\ b.friends = FriendsAfter(mem, op, named)
  BY <1>1 DEF Socialized, Changed, Fields, Repairable
<1>4. ASSUME b.friends = mem.friends PROVE Seen(t) = Seen(mem)
  <2>1. G = {}
    <3>1. SUFFICES ASSUME NEW p \in G PROVE FALSE
      OBVIOUS
    <3>2. op = 8 /\ p \in Targets(named) /\ p \in Pids /\ Receives(mem.friends[p])
      BY <3>1 DEF GiftsFrom
    <3>3. b.friends[p] = Operated(op, mem.friends[p])
      BY <1>3, <3>2 DEF FriendsAfter
    <3>4. mem.friends[p] \in FriendRow
      BY <1>1, <3>2
    <3>5. ~Operated(op, mem.friends[p]).receive
      BY <3>2, <3>4, RowOperated
    <3>6. mem.friends[p].receive
      BY <3>2 DEF Receives
    <3> QED
      BY <1>4, <3>3, <3>5, <3>6
  <2>2. b.received = mem.received
    <3>1. Cardinality(G) = 0
      BY <2>1, FS_EmptySet
    <3> HIDE DEF b, G
    <3> QED
      BY <1>1, <1>3, <3>1
  <2> HIDE DEF b, gifts, stood
  <2>3. /\ Changed(mem, t, {"purchases", "running"}, {"gifts", "stood"})
        /\ t.purchases = mem.purchases
    BY <1>1, <1>3, <1>4, <2>2 DEF Changed, Fields, Repairable
  <2> HIDE DEF t
  <2> QED
    BY <2>3, QuietCopy
<1> HIDE DEF b, t
<1> QED
  BY <1>2, <1>4, AnswerSaved

LEMMA SpendsSaved ==
  ASSUME Inv, HeldInv, Bounded, NothingUnsaved, UNCHANGED day, Spends
  PROVE  NothingUnsaved'
<1>1. mem = [f \in DOMAIN mem |-> mem[f]] /\ "spirit" \in DOMAIN mem
  BY DEF HeldInv, Held, Fields
<1>2. [mem EXCEPT !.spirit = mem.spirit] = mem
  BY <1>1
<1>3. ASSUME NEW lines, Puts(lines) PROVE NothingUnsaved'
  <2>1. ASSUME ~(Affords(Normal(mem.spirit), lines) \/ Normal(mem.spirit) # mem.spirit)
        PROVE  PointsPut(mem.spirit, lines) = mem.spirit
    BY <2>1 DEF PointsPut
  <2> DEFINE spirit == PointsPut(mem.spirit, lines)
  <2> DEFINE changed == Affords(Normal(mem.spirit), lines) \/ Normal(mem.spirit) # mem.spirit
  <2>2. Answer([mem EXCEPT !.spirit = spirit], changed) /\ changed \in BOOLEAN
    BY <1>3 DEF Puts, Affords
  <2>3. ~changed => spirit = mem.spirit
    BY <2>1
  <2> HIDE DEF spirit, changed
  <2>4. ~changed => Seen([mem EXCEPT !.spirit = spirit]) = Seen(mem)
    BY <1>2, <2>3
  <2> QED
    BY <2>2, <2>4, AnswerSaved
<1>4. CASE ShowSpirits
  BY <1>4, AnswerSaved DEF ShowSpirits
<1>5. CASE SpiritInfo
  BY <1>2, <1>5, AnswerSaved DEF SpiritInfo
<1> QED
  BY <1>3, <1>4, <1>5 DEF Spends

LEMMA PresentsSaved ==
  ASSUME Inv, HeldInv, Bounded, NothingUnsaved, UNCHANGED day, Presents
  PROVE  NothingUnsaved'
<1>1. Fields(mem)
  BY DEF HeldInv, Held
<1>2. ASSUME NEW b, b = mem, NEW told
      PROVE  Seen([b EXCEPT !.book.told = told]) = Seen(mem)
  <2> DEFINE t == [b EXCEPT !.book.told = told]
  <2>1. Changed(mem, t, {"purchases", "running"}, {"told"}) /\ t.purchases = mem.purchases
    BY <1>1, <1>2 DEF Changed, Fields
  <2> HIDE DEF t
  <2>2. Seen(t) = Seen(mem)
    BY <2>1, QuietCopy
  <2> QED
    BY <2>2 DEF t
<1>3. ASSUME NEW g, ReportGuide(g) PROVE NothingUnsaved'
  <2> DEFINE b == Guided(mem, g)
  <2> DEFINE told == [b.book.told EXCEPT !.steps = IF Reports(g) THEN @ \cup {g} ELSE @]
  <2> DEFINE t == [b EXCEPT !.book.told = told]
  <2>1. Answer(t, MovesOn(mem, g))
    BY <1>3 DEF ReportGuide
  <2>2. ~MovesOn(mem, g) => b = mem
    BY DEF Guided
  <2> HIDE DEF b, told
  <2>3. ~MovesOn(mem, g) => Seen(t) = Seen(mem)
    BY <1>2, <2>2
  <2> HIDE DEF t
  <2> QED
    BY <2>1, <2>3, AnswerSaved DEF MovesOn, Reports
<1>4. ASSUME NEW g, PlayGroup(g) PROVE NothingUnsaved'
  <2> DEFINE b == GroupDone(mem, g)
  <2> DEFINE told == [b.book.told EXCEPT !.groups = IF g > 0 THEN @ \cup {g} ELSE @]
  <2> DEFINE t == [b EXCEPT !.book.told = told]
  <2>1. Answer(t, b # mem)
    BY <1>4 DEF PlayGroup
  <2> HIDE DEF b, told
  <2>2. b = mem => Seen(t) = Seen(mem)
    BY <1>2
  <2> HIDE DEF t
  <2> QED
    BY <2>1, <2>2, AnswerSaved
<1>5. ASSUME NEW name, NEW remark, SetPlayerInfo(name, remark) PROVE NothingUnsaved'
  <2> DEFINE b == Introduced(mem, name, remark)
  <2> DEFINE told == [b.book.told EXCEPT !.name = IF name = Blank THEN @ ELSE name,
                                         !.remark = IF remark = NotGiven THEN @ ELSE remark]
  <2> DEFINE t == [b EXCEPT !.book.told = told]
  <2>1. Answer(t, b # mem)
    BY <1>5 DEF SetPlayerInfo
  <2> HIDE DEF b, told
  <2>2. b = mem => Seen(t) = Seen(mem)
    BY <1>2
  <2> HIDE DEF t
  <2> QED
    BY <2>1, <2>2, AnswerSaved
<1> QED
  BY <1>3, <1>4, <1>5 DEF Presents

LEMMA StorySaved ==
  ASSUME Inv, HeldInv, Bounded, NothingUnsaved, UNCHANGED day,
         (\E r \in Scripts : GetScript(r)) \/ LastNode
  PROVE  NothingUnsaved'
<1>1. Fields(mem)
  BY DEF HeldInv, Held
<1>2. ASSUME NEW r \in Scripts, GetScript(r) PROVE NothingUnsaved'
  <2> DEFINE t == Started(mem, r)
  <2>1. ASSUME ~IsFirst(mem, r) PROVE Seen(t) = Seen(mem)
    <3>1. mem.seen \cup {r} = mem.seen
      BY <2>1 DEF IsFirst
    <3>2. Changed(mem, t, {"purchases", "running"}, {}) /\ t.purchases = mem.purchases
      BY <1>1, <3>1 DEF Started, Changed, Fields
    <3> HIDE DEF t
    <3> QED
      BY <3>2, QuietCopy
  <2> HIDE DEF t
  <2> QED
    BY <1>2, <2>1, AnswerSaved DEF GetScript, IsFirst, t
<1>3. CASE LastNode
  <2> DEFINE t == Ended(mem)
  <2>1. Changed(mem, t, {"purchases", "running"}, {}) /\ t.purchases = mem.purchases
    BY <1>1 DEF Ended, Changed, Fields
  <2> HIDE DEF t
  <2>2. Seen(t) = Seen(mem)
    BY <2>1, QuietCopy
  <2> QED
    BY <1>3, <2>2, AnswerSaved DEF LastNode, Runs, t
<1> QED
  BY <1>2, <1>3

(* No handler changes the copy and reports that nothing changed: after a    *)
(* write, or with nothing written since the last one, a reconnect shows     *)
(* what the player sees (dispatch, _purchase_record and every handler's     *)
(* changed flag).                                                           *)
THEOREM UnsavedTheorem == Spec => []NothingUnsaved
<1>1. Init => NothingUnsaved
  BY DEF Init, Loaded, NothingUnsaved
<1>2. ASSUME Inv, HeldInv, Bounded, NothingUnsaved, [Next]_vars PROVE NothingUnsaved'
  <2>1. CASE Shops
    BY <1>2, <2>1, ShopsSaved
  <2>2. CASE Collects /\ UNCHANGED day
    BY <1>2, <2>2, CollectsSaved
  <2>3. CASE Meets /\ UNCHANGED day
    BY <1>2, <2>3, MeetsSaved
  <2>4. CASE Spends /\ UNCHANGED day
    BY <1>2, <2>4, SpendsSaved
  <2>5. CASE Presents /\ UNCHANGED day
    BY <1>2, <2>5, PresentsSaved
  <2>6. CASE ((\E r \in Scripts : GetScript(r)) \/ LastNode) /\ UNCHANGED day
    BY <1>2, <2>6, StorySaved
  <2>7. CASE Relog
    BY <2>7 DEF Relog, NothingUnsaved
  <2>8. CASE LoginSave
    BY <1>2, <2>8, AnswerSaved DEF LoginSave
  <2>9. CASE UNCHANGED vars
    BY <1>2, <2>9 DEF vars, copies, NothingUnsaved, Seen
  <2> QED
    BY <1>2, <2>1, <2>2, <2>3, <2>4, <2>5, <2>6, <2>7, <2>8, <2>9 DEF Next, Reconnect
<1> QED
  BY <1>1, <1>2, InvTheorem, HeldTheorem, BoundedLemma, PTL DEF Spec
=============================================================================
