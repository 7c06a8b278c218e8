------------------------------ MODULE Account ------------------------------
(***************************************************************************)
(* What a player does with an account outside the fights and the heroes, on *)
(* one connection: he shops, collects rewards, deals with other players,    *)
(* spends spirit points, reports the guide and plays story scripts.  The    *)
(* save he comes with may be of any schema and is repaired when it is       *)
(* loaded.  The day may end at any time, also between the check and the     *)
(* record of a purchase.                                                    *)
(*                                                                         *)
(* The save carries a book (not in the code): what the answers said was     *)
(* paid and handed out, and what the player did.  It is kept apart from the *)
(* state it is compared with, and travels with every copy.                  *)
(***************************************************************************)
EXTENDS Store, Rewards, Friends, Spirits, Profile, Dating, Repair, Copies

CONSTANTS
  Cids,          \* item cids
  StartSaves,    \* what a player may come with: a save without a book, with
                 \* wants, the kinds of requests he makes (a bound), and coins
  SellValue,     \* SellValue[id]: lines one piece of row id sells for
  UseValue,      \* UseValue[id]: lines one piece of row id opens to
  Counts,        \* numbers a client asks to buy
  GoodsLists,    \* row lists a client asks to sell or use
  MailLists, TaskLists,   \* id lists a client asks for
  PidSets,       \* players a client names together
  PointLists,    \* specialism lines a client asks for
  GuideIds,      \* guide ids and group ids a client sends
  Texts,         \* names and remarks
  LastDay        \* bound: midnights that are looked at

ASSUME DaysAssumption == LastDay \in Int /\ NoDay + 1 <= LastDay

(* Items are numbered, and no table charges or hands out a negative number. *)
ASSUME TablesAssumption ==
  /\ Cids \subseteq Int /\ Stocked \in Seq(Cids)
  /\ Price \in [Goods -> Lines(Cids)] /\ Content \in [Goods -> Lines(Cids)]
  /\ RefreshCid \in Cids /\ RefreshCost \in [Stores -> Seq(Nat)]
  /\ Attached \in [Mails -> Lines(Cids)]
  /\ TaskPays \in [Tasks -> Lines(Cids)] /\ SignPays \in [Signs -> Lines(Cids)]
  /\ \A id \in DOMAIN SellValue : SellValue[id] \in Lines(Cids)
  /\ \A id \in DOMAIN UseValue : UseValue[id] \in Lines(Cids)

(* A request may say anything about known ids; unknown ids are skipped.     *)
ASSUME RequestsAssumption ==
  /\ \A goods \in GoodsLists :
       goods \in Seq([id : {goods[i].id : i \in DOMAIN goods}, num : Int])
  /\ MailLists \subseteq Seq(Mails) /\ TaskLists \subseteq Seq(Tasks)
  /\ \A lines \in PointLists : lines \in Seq([id : Int, num : Int])

(* A save as load_save may find it, of whatever schema.                     *)
HeroRow(sid) ==
  [sid : {sid}, cid : Int, lvl : Int, angel : Int, pages : Int, firstShow : BOOLEAN]

IsSave(save) ==
  /\ {"schema", "bag", "heroes", "teams", "help", "passed", "lvl", "guide", "purchases",
      "refresh", "mails", "tasks", "signs", "friends", "received", "spirit", "name",
      "remark", "groups", "seen", "running"} \subseteq DOMAIN save
  /\ save.schema \in Nat /\ save.guide \in Nat
  /\ IsBag(save.bag) /\ DistinctIds(save.bag)
  /\ \A i \in DOMAIN save.bag : save.bag[i].cid \in Cids
  /\ IsSeq(save.heroes)
  /\ \A i \in DOMAIN save.heroes : save.heroes[i] \in HeroRow(save.heroes[i].sid)
  /\ \A t \in DOMAIN save.teams : IsSeq(save.teams[t])
  /\ save.passed \in Seq(Int)
  /\ save.purchases = [k \in Goods |-> NewRecord]
  /\ save.refresh \in [Stores -> [free : Nat, count : Nat]]
  /\ save.mails \in [Mails -> {Unread, Read, Claimed, Deleted}]
  /\ save.tasks \in [Tasks -> {Open, Done, Claimed}]
  /\ save.signs \in [Signs -> [can : Seq(BOOLEAN), index : Nat]]
  /\ save.friends \in [Pids -> FriendRow] /\ save.received \in Nat
  /\ save.spirit \in [points : Nat, specialism : Lines(Int), firstShow : BOOLEAN]
  /\ save.seen \subseteq Scripts /\ save.running \in Scripts \cup {NoScript}

ASSUME StartAssumption ==
  \A start \in StartSaves :
    /\ IsSave(start.save)
    /\ \A i \in DOMAIN Stocked : start.coins[Stocked[i]] \in Int

VARIABLES
  day,    \* the date, in UTC
  story   \* the client's dating layer: the script it plays, and of the
          \* settlement it waited for last, whose and which one it got

vars == <<copies, day, story>>

Days == (NoDay + 1)..LastDay

(* What a player is, shielded or not.                                       *)
Covered(r) == IF r.status = Shielding THEN r.previous ELSE r.status

Opening(s) ==
  [net      |-> [c \in Cids |-> Total(s.bag, c)],
   today    |-> [k \in Goods |-> [d \in Days |-> 0]],
   cycle    |-> [k \in Goods |-> 0],
   ever     |-> [k \in Goods |-> 0],
   mailPaid |-> [m \in Mails |-> 0],
   taskPaid |-> [t \in Tasks |-> 0],
   signPaid |-> [n \in Signs |-> 0],
   signable |-> [n \in Signs |-> Cardinality(Signable(s, n))],
   received |-> s.received,
   gifts    |-> [p \in Pids |-> 0],
   stood    |-> [p \in Pids |-> Covered(s.friends[p])],
   pool     |-> Max({s.spirit.points, Allocated(s.spirit)}),
   told     |-> [name |-> s.name, remark |-> s.remark, groups |-> s.groups,
                 resumed |-> GuideStep(s), steps |-> {}]]

WithBook(s) ==
  [f \in DOMAIN s \cup {"book"} |-> IF f = "book" THEN Opening(s) ELSE s[f]]

(* load_save: the file is repaired and, if that changed it, written.        *)
Init ==
  /\ \E start \in StartSaves : Loaded(WithBook(Repaired(start.save, start.coins)))
  /\ day = NoDay + 1
  /\ story = [plays |-> NoScript, asked |-> NoScript, named |-> NoScript]

Wants(kind) == kind \in mem.wants

-----------------------------------------------------------------------------
(* Entries of the book: lines handed out minus lines paid.                  *)
Booked(net, out, in) == [c \in Cids |-> net[c] + Worth(in, c) - Worth(out, c)]

Purchased(book, k, n, later) ==
  [book EXCEPT
     !.net = Booked(@, Times(Price[k], n), Times(Content[k], n)),
     !.today[k][later] = @ + n,
     !.cycle[k] = @ + n,
     !.ever[k] = @ + n]

(* STORE_BUY_GOODS, checked on one day, recorded on the same or the next.   *)
Buy(k, n, later) ==
  /\ later \in Days /\ later \in {day, day + 1}
  /\ MayBuy(mem, k, n, day)
  /\ day' = later
  /\ Answer([Bought(Touched(mem, {k}, day), k, n, later) EXCEPT
               !.book = Purchased(@, k, n, later)],
            TRUE)

BuyDeclined(k, n) ==
  /\ ~MayBuy(mem, k, n, day)
  /\ Answer(Touched(mem, {j \in {k} : n \in 1..MaxCount /\ Limited(j)}, day), FALSE)
  /\ UNCHANGED day

(* STORE_GET_COMMODITY_BUY_LOG looks at every record.                       *)
BuyLog == Answer(Touched(mem, Goods, day), FALSE) /\ UNCHANGED day

(* STORE_REFRESH_STORE                                                      *)
RefreshStore(t) ==
  /\ MayRefresh(mem, t)
  /\ Answer([Refreshed(mem, t, day) EXCEPT
               !.book.net = Booked(@, RefreshPrice(mem, t), <<>>),
               !.book.cycle = [k \in Goods |-> IF k \in ShelfOf[t] THEN 0 ELSE @[k]]],
            TRUE)
  /\ UNCHANGED day

Convert(goods, value) ==
  /\ MayConvert(mem, goods, value)
  /\ LET given == [i \in DOMAIN goods |->
                     Line(mem.bag[RowOf(mem.bag, goods[i].id)].cid, goods[i].num)]
     IN Answer([Converted(mem, goods, value) EXCEPT
                  !.book.net = Booked(@, given, ValueOf(goods, value))],
               TRUE)
  /\ UNCHANGED day

(* STORE_SELL_INFO and ITEM_USE_ITEM; a preview changes nothing.            *)
SellGoods(goods) == Convert(goods, SellValue)
UseItems(goods) == Convert(goods, UseValue)

-----------------------------------------------------------------------------
(* MAIL_MAIL_HANDLE with its three operations.                              *)
ReadMails(ids) == Answer(MailsRead(mem, ids), ReadsMail(mem, ids))

CollectMails(ids) ==
  LET found == ToCollect(mem, ids)
  IN Answer([MailsCollected(mem, ids) EXCEPT
               !.book.net = Booked(@, <<>>, AttachedTo(found)),
               !.book.mailPaid = [m \in Mails |->
                 @[m] + Cardinality({i \in DOMAIN found : found[i] = m})]],
            found # <<>>)

DeleteMails(ids) == Answer(MailsDeleted(mem, ids), DeletesMail(mem, ids))

(* TASK_SUBMIT_TASK and TASK_SUBMIT_TASK_LIST                               *)
SubmitTasks(ids) ==
  LET paid == {t \in Tasks : Pays(mem, t) /\ In(ids, t)}
  IN Answer([TasksClaimed(mem, ids) EXCEPT
               !.book.net = [c \in Cids |->
                 @[c] + SumFunction([t \in paid |-> Worth(TaskPays[t], c)])],
               !.book.taskPaid = [t \in Tasks |-> @[t] + IF t \in paid THEN 1 ELSE 0]],
            paid # {})

(* SIGN_SUBMIT_SIGN                                                         *)
SubmitSign(n) ==
  /\ MaySign(mem, n)
  /\ Answer([Signed(mem, n) EXCEPT
               !.book.net = Booked(@, <<>>, SignPays[n]),
               !.book.signPaid[n] = @ + 1],
            TRUE)

-----------------------------------------------------------------------------
(* FRIEND_REQ_OPERATE.  What a player stands for is his status, whatever    *)
(* shields do to it.                                                        *)
Stands(op, r, stood) ==
  IF op = 2 THEN Gone
  ELSE IF op \in {3, 4} \/ r.status = Shielding THEN stood
  ELSE Operated(op, r).status

OperateFriends(op, named) ==
  LET new == Socialized(mem, op, named)
  IN Answer([new EXCEPT
               !.book.gifts = [p \in Pids |->
                 @[p] + IF p \in GiftsFrom(mem, op, named) THEN 1 ELSE 0],
               !.book.stood = [p \in Pids |->
                 IF p \in Targets(named) THEN Stands(op, mem.friends[p], @[p]) ELSE @[p]]],
            new.friends # mem.friends)

-----------------------------------------------------------------------------
(* HERO_SPIRIT_REQ_PUT_SPIRIT_POINTS, SHOW_NEW_SPIRIT and NEW_SPIRIT_INFO   *)
Puts(lines) ==
  Answer([mem EXCEPT !.spirit = PointsPut(@, lines)],
         Affords(Normal(mem.spirit), lines) \/ Normal(mem.spirit) # mem.spirit)

ShowSpirits == Answer(Shown(mem), Shown(mem) # mem)

SpiritInfo ==
  Answer([mem EXCEPT !.spirit = Normal(@)], Normal(mem.spirit) # mem.spirit)

-----------------------------------------------------------------------------
(* PLAYER_REQ_NEW_PLAYER_GUIDE, EXPLORE_REQ_ADD_GUIDE_STEP, SET_PLAYER_INFO *)
ReportGuide(g) ==
  Answer([Guided(mem, g) EXCEPT !.book.told.steps = IF Reports(g) THEN @ \cup {g} ELSE @],
         MovesOn(mem, g))

PlayGroup(g) ==
  Answer([GroupDone(mem, g) EXCEPT !.book.told.groups = IF g > 0 THEN @ \cup {g} ELSE @],
         GroupDone(mem, g) # mem)

SetPlayerInfo(name, remark) ==
  LET new == Introduced(mem, name, remark)
  IN Answer([new EXCEPT
               !.book.told.name = IF name = Blank THEN @ ELSE name,
               !.book.told.remark = IF remark = NotGiven THEN @ ELSE remark],
            new # mem)

-----------------------------------------------------------------------------
(* A handler whose write raises leaves its pushes out: the client gets the  *)
(* zero-filled answer alone.                                                *)
Pushed(changed) == changed => behind' = 0

(* DATING_GET_SCRIPT: the script arrives on a push and the client plays it. *)
GetScript(r) ==
  /\ Answer(Started(mem, r), IsFirst(mem, r))
  /\ story' = IF Pushed(IsFirst(mem, r)) THEN [story EXCEPT !.plays = r] ELSE story

(* DATING_DIALOGUE for the last node: the client waits for a settlement.    *)
LastNode ==
  /\ story.plays # NoScript
  /\ Answer(Ended(mem), Runs(mem))
  /\ story' = [plays |-> IF Runs(mem) /\ Pushed(TRUE) THEN NoScript ELSE story.plays,
               asked |-> story.plays,
               named |-> IF Pushed(Runs(mem)) THEN mem.running ELSE NoScript]

-----------------------------------------------------------------------------
Reconnect == (Relog \/ LoginSave) /\ UNCHANGED day

Midnight == day + 1 \in Days /\ day' = day + 1 /\ UNCHANGED copies

Shops ==
  \/ \E k \in Goods, n \in Counts :
       BuyDeclined(k, n) \/ \E later \in Days : Buy(k, n, later)
  \/ BuyLog
  \/ \E t \in Stores : RefreshStore(t)
  \/ \E goods \in GoodsLists : SellGoods(goods) \/ UseItems(goods)
  \/ Midnight

Collects ==
  \/ \E ids \in MailLists : ReadMails(ids) \/ CollectMails(ids) \/ DeleteMails(ids)
  \/ \E ids \in TaskLists : SubmitTasks(ids)
  \/ \E n \in Signs : SubmitSign(n)

Meets == \E op \in Operations, named \in PidSets : OperateFriends(op, named)

Spends == (\E lines \in PointLists : Puts(lines)) \/ ShowSpirits \/ SpiritInfo

Presents ==
  \/ \E g \in GuideIds : ReportGuide(g) \/ PlayGroup(g)
  \/ \E name \in Texts \cup {Blank}, remark \in Texts \cup {Blank, NotGiven} :
       SetPlayerInfo(name, remark)

Next ==
  \/ Wants("shop") /\ Shops /\ UNCHANGED story
  \/ Wants("rewards") /\ Collects /\ UNCHANGED <<day, story>>
  \/ Wants("friends") /\ Meets /\ UNCHANGED <<day, story>>
  \/ Wants("spirit") /\ Spends /\ UNCHANGED <<day, story>>
  \/ Wants("profile") /\ Presents /\ UNCHANGED <<day, story>>
  \/ Wants("story") /\ ((\E r \in Scripts : GetScript(r)) \/ LastNode) /\ UNCHANGED day
  \/ Reconnect /\ UNCHANGED story

Spec == Init /\ [][Next]_vars

-----------------------------------------------------------------------------
Copy(s) ==
  /\ IsBag(s.bag) /\ DistinctIds(s.bag) /\ \A i \in DOMAIN s.bag : s.bag[i].cid \in Cids
  /\ s.purchases \in [Goods -> [dayKey : Days \cup {NoDay}, day : Nat, cycle : Nat, total : Nat]]
  /\ s.refresh \in [Stores -> [free : Nat, count : Nat]]
  /\ s.mails \in [Mails -> {Unread, Read, Claimed, Deleted}]
  /\ s.tasks \in [Tasks -> {Open, Done, Claimed}]
  /\ \A n \in Signs : s.signs[n].can \in Seq(BOOLEAN) /\ s.signs[n].index \in Nat
  /\ s.friends \in [Pids -> FriendRow]
  /\ s.received \in Nat /\ s.guide \in Nat
  /\ s.seen \subseteq Scripts /\ s.running \in Scripts \cup {NoScript}
  /\ s.schema = Schema /\ DOMAIN s.teams = 1..3

(* Rows of the bag keep distinct ids and numbers that are not negative;     *)
(* mails, tasks and friends keep to their states.                           *)
TypeOK == Copy(mem) /\ Copy(disk) /\ day \in Days /\ behind \in 0..MaxBehind

(* Every item is accounted for: for each cid the stacks together hold what  *)
(* the player began with, plus everything an answer handed out, minus       *)
(* everything it charged, however lines repeat an id and stacks are split   *)
(* (consume_cids, consume_items and add_item).  Of the spirit points no     *)
(* more are spent than there are (_put_spirit_points).                      *)
BooksBalance ==
  \A s \in {mem, disk} :
    /\ \A c \in Cids : Total(s.bag, c) = s.book.net[c]
    /\ Allocated(s.spirit) <= s.book.pool

(* Nobody buys more than the limit allows within one day, between two       *)
(* refreshes of the store, or ever (limitType 2, 1 and the others), also    *)
(* when a purchase runs over midnight (_store_buy, _purchase_record).       *)
PurchasesLimited(s) ==
  \A k \in {j \in Goods : Limited(j)} :
    CASE Limit[k].type = PerDay   -> \A d \in Days : s.book.today[k][d] <= Limit[k].val
      [] Limit[k].type = PerCycle -> s.book.cycle[k] <= Limit[k].val
      [] OTHER                    -> s.book.ever[k] <= Limit[k].val

LimitsKept == \A s \in {mem, disk} : PurchasesLimited(s)

(* A mail, a task, each day of a sign-in and a friend's gift pay at most    *)
(* once and are marked when they have paid, whatever ids a request repeats, *)
(* however often it is sent again, whether or not the write that went with  *)
(* it succeeded (_mail_handle, _claim_task, _claim, _operate_friend).       *)
GiftsOnce(s) ==
  \A p \in Pids : s.book.gifts[p] <= IF s.friends[p].receive THEN 0 ELSE 1

PaidOnce ==
  \A s \in {mem, disk} :
    /\ \A m \in Mails :
         s.book.mailPaid[m] <= IF s.mails[m] \in {Claimed, Deleted} THEN 1 ELSE 0
    /\ \A t \in Tasks : s.book.taskPaid[t] <= IF s.tasks[t] = Claimed THEN 1 ELSE 0
    /\ \A n \in Signs :
         s.book.signPaid[n] + Cardinality(Signable(s, n)) = s.book.signable[n]
    /\ GiftsOnce(s)
    /\ s.received = s.book.received + SumFunctionOnSet(s.book.gifts, Pids)

(* The player resumes the guide behind the furthest step he ever reported   *)
(* or came with, skipping the steps the Guide table skips; no report takes  *)
(* him back (guide_progress, README.md:255-275).  A group guide he played   *)
(* stays played, and his name and remark are the last he gave.              *)
Reached(told) == {told.resumed} \cup {NextStep(g) : g \in told.steps}

ReportsKept ==
  \A s \in {mem, disk} :
    /\ GuideStep(s) = Max(Reached(s.book.told))
    /\ s.groups = s.book.told.groups
    /\ s.name = s.book.told.name /\ s.remark = s.book.told.remark

(* Shielding a player loses nothing: once the shield is lifted he is again  *)
(* the friend, the applicant or the stranger he was, whatever was asked     *)
(* meanwhile; a shield from an old save, which does not say what it covers, *)
(* is lifted to nothing (_operate_friend).                                  *)
ShieldKeeps ==
  \A s \in {mem, disk} : \A p \in Pids : s.book.stood[p] = Covered(s.friends[p])

(* What a reconnect can show of a copy: purchase records as of today.  The  *)
(* script that runs is shown to nobody.                                     *)
Seen(s) ==
  [s EXCEPT !.purchases = [k \in Goods |-> RecordOn(@[k], day)],
            !.running = NoScript, !.book = {}]

(* Unless the last write failed, a reconnect now shows the player what he   *)
(* sees: no handler changes the copy and reports that nothing changed, and  *)
(* the records that reads rewrite without saving (_purchase_record) are     *)
(* worth nothing.                                                           *)
NothingUnsaved == behind = 0 => Seen(mem) = Seen(disk)

(* Every write repairs what it writes and the copy in memory is not         *)
(* repaired; the two are the same because no handler leaves anything to     *)
(* repair: nothing is raised to the float, added or dropped a second time   *)
(* (normalize_save, called by load_save and save).                          *)
RepairIdle ==
  \A s \in {mem, disk} : Repaired(s, [c \in Cids |-> 0]) = s

(* The settlement names the script the client plays: "the run has to be     *)
(* remembered here for the settlement to be able to name it"                *)
(* (dating_handlers.py:77-79).                                              *)
SettlementNames == story.asked = story.named
=============================================================================
