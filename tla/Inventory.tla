----------------------------- MODULE Inventory -----------------------------
(***************************************************************************)
(* work/offline/state_transactions.py on a bag of item stacks.  A bag is    *)
(* the sequence of its rows in the order of the save's dictionary; a row    *)
(* has an instance id, an item cid and a number.  The id of the first stack *)
(* of a cid is normally the cid itself, <<cid, 1>> here; "cid:2" is         *)
(* <<cid, 2>>.  Rows that came with an old save may have any id, and a cid  *)
(* may have several stacks.  Requests and rewards are lists of lines        *)
(* [id, num] in which an id may appear twice.                               *)
(***************************************************************************)
EXTENDS Integers, SequencesExt

Stack(id, cid, num) == [id |-> id, cid |-> cid, num |-> num]
Line(id, num) == [id |-> id, num |-> num]

Rows(bag, cid) == {i \in DOMAIN bag : bag[i].cid = cid}

(* Lines about the items C, as the configured prices and rewards have them. *)
Lines(C) == Seq([id : C, num : Nat])

IsSeq(q) == q \in Seq(Range(q))

(* A bag as the game keeps it: no row has a negative number and no two rows *)
(* share an id.                                                             *)
IsBag(bag) ==
  /\ IsSeq(bag)
  /\ \A i \in DOMAIN bag : /\ bag[i] = Stack(bag[i].id, bag[i].cid, bag[i].num)
                           /\ bag[i].num \in Nat

DistinctIds(bag) == \A i, j \in DOMAIN bag : bag[i].id = bag[j].id => i = j

(* Lists without some of their members, and with each member once.          *)
Only(q, keep) ==
  FoldLeft(LAMBDA acc, x : IF x \in keep THEN Append(acc, x) ELSE acc, <<>>, q)

Firsts(q, keep) ==
  FoldLeft(LAMBDA acc, x : IF x \in keep /\ ~Contains(acc, x) THEN Append(acc, x) ELSE acc,
           <<>>, q)

Nums(lines) == [i \in DOMAIN lines |-> lines[i].num]

(* item_count(cid=...)                                                      *)
Total(bag, cid) == SumFunctionOnSet(Nums(bag), Rows(bag, cid))

-----------------------------------------------------------------------------
(* The merge step of _normalize_requirements, consume_cids and              *)
(* normalize_rewards: lines with the same id are added up, lines without a  *)
(* positive number are dropped.                                             *)
Named(lines) == {lines[i].id : i \in {j \in DOMAIN lines : lines[j].num > 0}}

(* Slip: of two lines with the same id the first one counts.                *)
AskedFirst(lines, id) ==
  LET I == {i \in DOMAIN lines : lines[i].id = id /\ lines[i].num > 0}
  IN IF I = {} THEN 0 ELSE lines[Min(I)].num

Asked(lines, id) ==
  SumFunctionOnSet(Nums(lines), {i \in DOMAIN lines : lines[i].id = id /\ lines[i].num > 0})

(* What all lines say of one id.                                            *)
Worth(lines, id) ==
  SumFunctionOnSet(Nums(lines), {i \in DOMAIN lines : lines[i].id = id})

Times(lines, k) == [i \in DOMAIN lines |-> Line(lines[i].id, lines[i].num * k)]

-----------------------------------------------------------------------------
(* consume_cids: every cid is checked before anything is taken; the stacks  *)
(* of a cid are emptied from the first one on.                              *)
CanConsumeCids(bag, costs) ==
  \A cid \in Named(costs) : Asked(costs, cid) <= Total(bag, cid)

Before(bag, i) ==
  SumFunctionOnSet(Nums(bag), {j \in 1..(i - 1) : bag[j].cid = bag[i].cid})

ConsumedCids(bag, costs) ==
  [i \in DOMAIN bag |->
     LET missing == Max({0, Asked(costs, bag[i].cid) - Before(bag, i)})
     IN [bag[i] EXCEPT !.num = @ - Min({@, missing})]]

(* consume_items: by instance id, again all checked first; an empty or      *)
(* all-zero request is refused.                                             *)
RowOf(bag, id) == CHOOSE i \in DOMAIN bag : bag[i].id = id
HasRow(bag, id) == \E i \in DOMAIN bag : bag[i].id = id

(* Slip: each line is checked on its own.                                   *)
CanConsumeEach(bag, req) ==
  /\ Named(req) # {}
  /\ \A i \in DOMAIN req :
       HasRow(bag, req[i].id) /\ req[i].num <= bag[RowOf(bag, req[i].id)].num

CanConsumeIds(bag, req) ==
  /\ Named(req) # {}
  /\ \A id \in Named(req) :
       HasRow(bag, id) /\ Asked(req, id) <= bag[RowOf(bag, id)].num

ConsumedIds(bag, req) ==
  [i \in DOMAIN bag |-> [bag[i] EXCEPT !.num = @ - Asked(req, bag[i].id)]]

-----------------------------------------------------------------------------
(* add_item: onto the first stack of the cid, or onto a new one at the end  *)
(* under the first free name.                                               *)
(* Slip: the name of the first stack, taken or not.                         *)
FirstId(bag, cid) == <<cid, 1>>

FreshId(bag, cid) ==
  LET taken(k) == \E i \in DOMAIN bag : bag[i].id = <<cid, k>>
  IN <<cid, Min({k \in 1..(Len(bag) + 1) : ~taken(k)})>>

AddItem(bag, cid, num) ==
  IF Rows(bag, cid) # {}
    THEN [bag EXCEPT ![Min(Rows(bag, cid))].num = @ + num]
    ELSE Append(bag, Stack(FreshId(bag, cid), cid, num))

(* grant_rewards: merged lines in the order of their cids.                  *)
Granted(bag, rewards) ==
  LET Add[C \in SUBSET Named(rewards)] ==
        IF C = {} THEN bag
        ELSE LET c == Max(C)
             IN AddItem(Add[C \ {c}], c, Asked(rewards, c))
  IN Add[Named(rewards)]
=============================================================================
