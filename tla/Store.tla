------------------------------- MODULE Store -------------------------------
(***************************************************************************)
(* The shop of work/offline/stateful_handlers.py: purchase limits per day,  *)
(* per refresh and for ever, refreshes that cost more each time, and sales  *)
(* of bag rows.  The purchase records are in the save; of the refresh       *)
(* counters only those of stores the save has a row for: a store that       *)
(* exists only in the shipped catalogue is copied anew for every request.   *)
(***************************************************************************)
EXTENDS Inventory

CONSTANTS
  Goods,        \* commodity ids
  Limit,        \* Limit[k]: [type, val]; type 0 or val 0: no limit
  Price,        \* Price[k]: lines charged for one
  Content,      \* Content[k]: lines handed out for one
  Stores,       \* store ids
  ShelfOf,      \* ShelfOf[t]: the commodities of store t
  OwnRefresh,   \* stores whose refresh counters are in the save
  RefreshCost,  \* RefreshCost[t]: price of the first, second, ... refresh
  RefreshCid,   \* cid the refresh is paid in
  NoDay

ASSUME StoreAssumption ==
  /\ Limit \in [Goods -> [type : Int, val : Int]]
  /\ NoDay \in Int

MaxCount == 200
PerCycle == 1
PerDay == 2

NewRecord == [dayKey |-> NoDay, day |-> 0, cycle |-> 0, total |-> 0]
NewRefresh == [free |-> 0, count |-> 0]

(* Slip: looking at a record always clears its daily count.                 *)
RecordReset(r, today) == [r EXCEPT !.dayKey = today, !.day = 0]

(* _purchase_record: whoever looks at a record on another day than it was   *)
(* written resets its daily count.                                          *)
RecordOn(r, today) ==
  IF r.dayKey = today THEN r ELSE [r EXCEPT !.dayKey = today, !.day = 0]

Limited(k) == Limit[k].type # 0 /\ Limit[k].val > 0

Used(k, r) ==
  CASE Limit[k].type = PerCycle -> r.cycle
    [] Limit[k].type = PerDay   -> r.day
    [] OTHER                    -> r.total

Remaining(k, r) == Max({0, Limit[k].val - Used(k, r)})

(* _store_buy, checked at the time of day `today`, recorded at `later`.     *)
MayBuy(s, k, n, today) ==
  /\ n \in 1..MaxCount
  /\ Limited(k) => n <= Remaining(k, RecordOn(s.purchases[k], today))
  /\ Named(Content[k]) # {}
  /\ CanConsumeCids(s.bag, Times(Price[k], n))

Counted(r, n) ==
  [r EXCEPT !.day = @ + n, !.cycle = @ + n, !.total = @ + n]

Bought(s, k, n, later) ==
  [s EXCEPT
     !.bag = Granted(ConsumedCids(@, Times(Price[k], n)), Times(Content[k], n)),
     !.purchases[k] = Counted(RecordOn(@, later), n)]

(* Slip: a read resets the daily count in memory.                           *)
TouchedReset(s, K, today) ==
  [s EXCEPT !.purchases =
     [k \in Goods |-> IF k \in K THEN RecordReset(@[k], today) ELSE @[k]]]

(* What a request does to the records even if it buys nothing.              *)
Touched(s, K, today) ==
  [s EXCEPT !.purchases =
     [k \in Goods |-> IF k \in K THEN RecordOn(@[k], today) ELSE @[k]]]

-----------------------------------------------------------------------------
(* _store_refresh: a free one first, else the price of the next one.        *)
RefreshOf(s, t) == IF t \in OwnRefresh THEN s.refresh[t] ELSE NewRefresh

RefreshPrice(s, t) ==
  LET costs == RefreshCost[t]
      n == Min({RefreshOf(s, t).count + 1, Len(costs)})
  IN IF RefreshOf(s, t).free > 0 \/ costs = <<>> THEN <<>>
     ELSE <<Line(RefreshCid, costs[n])>>

MayRefresh(s, t) == CanConsumeCids(s.bag, RefreshPrice(s, t))

Refreshed(s, t, today) ==
  LET r == RefreshOf(s, t)
      next == [free |-> Max({0, r.free - 1}), count |-> r.count + 1]
      reset == {k \in ShelfOf[t] : Limit[k].type = PerCycle}
  IN [s EXCEPT
        !.bag = ConsumedCids(@, RefreshPrice(s, t)),
        !.refresh[t] = IF t \in OwnRefresh THEN next ELSE @,
        !.purchases = [k \in Goods |->
          IF k \in reset THEN [RecordOn(@[k], today) EXCEPT !.cycle = 0] ELSE @[k]]]

-----------------------------------------------------------------------------
(* _sale_rewards with _store_sell, and _item_use: both turn bag rows, named *)
(* by id, into the rewards configured on them.  Value[id] is what one piece *)
(* of row id turns into; rows outside its domain have nothing configured.   *)
ValueOf(goods, value) ==
  FoldLeft(LAMBDA acc, g : acc \o Times(value[g.id], g.num), <<>>, goods)

MayConvert(s, goods, value) ==
  /\ \A i \in DOMAIN goods : goods[i].num > 0 /\ goods[i].id \in DOMAIN value
  /\ CanConsumeIds(s.bag, goods)

Converted(s, goods, value) ==
  [s EXCEPT !.bag = Granted(ConsumedIds(@, goods), ValueOf(goods, value))]
=============================================================================
