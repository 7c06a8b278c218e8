----------------------------- MODULE MCAccount -----------------------------
(* Gold (1), gems (2) and boxes (3).  A box per refresh, a gem per day whose *)
(* price names gold twice, a box for ever.  Store 1 is in the save and has a *)
(* free refresh, store 2 only in the catalogue.  Mail 2 pays one cid in two  *)
(* lines.  Players come for one kind of request each; three of them bring a  *)
(* save of an older schema.                                                  *)
EXTENDS Account

MCLimit == (1 :> [type |-> PerCycle, val |-> 2]) @@ (2 :> [type |-> PerDay, val |-> 1])
             @@ (3 :> [type |-> 3, val |-> 1])
MCPrice == (1 :> <<Line(1, 1)>>) @@ (2 :> <<Line(1, 1), Line(1, 1)>>)
             @@ (3 :> <<Line(2, 1)>>)
MCContent == (1 :> <<Line(3, 1)>>) @@ (2 :> <<Line(2, 1)>>)
               @@ (3 :> <<Line(3, 1), Line(3, 1)>>)
MCShelf == (1 :> {1, 3}) @@ (2 :> {2})
MCRefreshCost == (1 :> <<1, 2>>) @@ (2 :> <<2>>)

Box == <<3, 1>>
MCSell == Box :> <<Line(1, 1)>>
MCUse == Box :> <<>>
MCGoodsLists == {<<Line(Box, 1), Line(Box, 1)>>}

MCAttached == <<<<Line(1, 1)>>, <<Line(2, 1), Line(1, 1), Line(2, 1)>>>>
MCTaskPays == <<<<Line(2, 1)>>, <<Line(1, 2)>>, <<Line(1, 1)>>>>
MCSignPays == <<<<Line(1, 1)>>, <<Line(2, 1)>>>>
MCMailLists == {<<1>>, <<2, 2>>, <<2, 1>>}
MCTaskLists == {<<1>>, <<1, 2, 1>>, <<3>>}

(* Player 9 is the player himself.                                          *)
MCPidSets == {{11}, {12, 9}, {11, 13}}
MCPointLists == {<<Line(1, 1)>>, <<Line(2, 1), Line(2, 2), Line(3, 0)>>, <<Line(3, 0)>>}
MCGuideJump == 3 :> 5
MCStocked == <<1, 2>>

Row(status, canSend, receive) ==
  [status |-> status, previous |-> Gone, canSend |-> canSend, receive |-> receive]

(* default_save                                                             *)
Default ==
  [schema |-> Schema, bag |-> <<Stack(<<1, 1>>, 1, 1), Stack(<<2, 1>>, 2, 1)>>,
   purchases |-> [k \in Goods |-> NewRecord], refresh |-> [t \in Stores |-> NewRefresh],
   mails |-> [m \in Mails |-> Unread], tasks |-> [t \in Tasks |-> Open],
   signs |-> [n \in Signs |-> [can |-> <<FALSE>>, index |-> 0]],
   friends |-> [p \in Pids |-> NoFriend], received |-> 0,
   spirit |-> [points |-> 0, specialism |-> <<>>, firstShow |-> FALSE],
   name |-> "Shido", remark |-> Blank, guide |-> 0, groups |-> {},
   seen |-> {}, running |-> NoScript,
   heroes |-> <<Starter>>, teams |-> <<<<StarterSid>>, <<>>, <<>>>>, help |-> StarterCid,
   passed |-> <<FirstPlot>>, lvl |-> 1]

Comes(wants, save) ==
  [save |-> save @@ [wants |-> wants], coins |-> [c \in {1, 2} |-> 0]]

Shopper ==
  [Default EXCEPT
     !.bag = <<Stack(<<1, 1>>, 1, 1), Stack(<<2, 1>>, 2, 0), Stack(<<1, 2>>, 1, 2)>>,
     !.refresh[1] = [free |-> 1, count |-> 0]]

(* A stack of gold has the name of the first stack of gems.                 *)
Collector ==
  [Default EXCEPT
     !.bag = <<Stack(<<2, 1>>, 1, 1)>>,
     !.tasks = <<Done, Done, Open>>,
     !.signs[1] = [can |-> <<TRUE, FALSE, TRUE>>, index |-> 0]]

Sociable ==
  [Default EXCEPT
     !.received = 1,
     !.friends = (11 :> Row(Friend, TRUE, TRUE)) @@ (12 :> Row(Added, FALSE, TRUE))
                   @@ (13 :> Row(Shielding, FALSE, TRUE))]

Hero(sid, lvl, angel) ==
  [sid |-> sid, cid |-> StarterCid, lvl |-> lvl, angel |-> angel, pages |-> angel,
   firstShow |-> TRUE]

(* Lines without points and two lines of specialism 2.                      *)
Spiritual ==
  [Default EXCEPT
     !.schema = 3, !.heroes = <<Hero(StarterSid, 0, 0)>>,
     !.spirit = [points |-> 6, firstShow |-> TRUE,
                 specialism |-> <<Line(2, 1), Line(1, 0), Line(2, 1)>>]]

(* Before schema 3: no hero, no team, stages that were passed twice.        *)
Veteran ==
  [Default EXCEPT
     !.schema = 2, !.bag = <<Stack(<<1, 2>>, 1, 0)>>,
     !.heroes = <<Hero(NoSid, 1, 0)>>, !.teams = 2 :> <<NoSid>>, !.help = 0,
     !.passed = <<7, 0, 7>>]

(* Before schema 6: nothing but the first stage.                            *)
Beginner ==
  [Default EXCEPT
     !.schema = 5, !.bag = <<Stack(<<1, 1>>, 1, 0)>>, !.passed = <<>>,
     !.heroes = <<Hero(StarterSid, 1, 0), Hero(StarterSid, 2, 1)>>]

MCStartSaves ==
  {Comes({"shop"}, Shopper), Comes({"rewards"}, Collector), Comes({"friends"}, Sociable),
   Comes({"spirit"}, Spiritual), Comes({"profile"}, Beginner),
   Comes({"story"}, Default),
   [Comes({"shop"}, Veteran) EXCEPT !.coins[1] = 2]}

MCStories == {Comes({"story"}, Default)}
=============================================================================
