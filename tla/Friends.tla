------------------------------ MODULE Friends ------------------------------
(***************************************************************************)
(* FRIEND_REQ_OPERATE of work/offline/progression_handlers.py.  The rows    *)
(* came with the save: no operation makes a new one.  A player without a    *)
(* row is Gone.  A request names players; a player named twice counts once, *)
(* and the player himself is skipped.                                       *)
(***************************************************************************)
EXTENDS Integers, FiniteSets

CONSTANTS Pids, OwnPid

ASSUME PidsAssumption == IsFiniteSet(Pids)

Gone == 0
Friend == 1
Shielding == 2
Applied == 3
Added == 4
Invited == 5
Unshielded == {Friend, Applied, Added, Invited}

(* previous is what a shielded row was before; Gone if the save does not    *)
(* say, as in saves from before it was recorded.                            *)
FriendRow == [status : {Gone, Shielding} \cup Unshielded,
              previous : {Gone} \cup Unshielded,
              canSend : BOOLEAN, receive : BOOLEAN]
NoFriend == [status |-> Gone, previous |-> Gone, canSend |-> FALSE, receive |-> FALSE]

Operations == 1..8

(* Slip: only friends and applicants are remembered.                        *)
ShieldedSome(r) ==
  IF r.status \notin Unshielded THEN r
  ELSE [r EXCEPT !.status = Shielding,
                 !.previous = IF r.status \in {Friend, Applied} THEN r.status ELSE @]

Shielded(r) ==
  IF r.status \notin Unshielded THEN r
  ELSE [r EXCEPT !.status = Shielding, !.previous = r.status]

Lifted(r) ==
  IF r.status # Shielding THEN r
  ELSE IF r.previous \in Unshielded THEN [r EXCEPT !.status = r.previous, !.previous = Gone]
  ELSE NoFriend

Receives(r) == r.status = Friend /\ r.receive
Received(r) == IF Receives(r) THEN [r EXCEPT !.receive = FALSE] ELSE r

(* _operate_friend on one row: apply, delete, shield, lift, agree, refuse,  *)
(* give and receive.                                                        *)
Operated(op, r) ==
  CASE op = 1 /\ r.status = Added   -> [r EXCEPT !.status = Applied]
    [] op = 2                       -> NoFriend
    [] op = 3                       -> Shielded(r)
    [] op = 4                       -> Lifted(r)
    [] op = 5 /\ r.status = Applied -> [r EXCEPT !.status = Friend, !.previous = Gone]
    [] op = 6 /\ r.status = Applied -> NoFriend
    [] op = 7 /\ r.status = Friend  -> [r EXCEPT !.canSend = FALSE]
    [] op = 8                       -> Received(r)
    [] OTHER                        -> r

Targets(named) == named \ {OwnPid}

FriendsAfter(s, op, named) ==
  [p \in Pids |-> IF p \in Targets(named) THEN Operated(op, s.friends[p]) ELSE s.friends[p]]

GiftsFrom(s, op, named) ==
  IF op = 8 THEN {p \in Targets(named) \cap Pids : Receives(s.friends[p])} ELSE {}

Socialized(s, op, named) ==
  [s EXCEPT !.friends = FriendsAfter(s, op, named),
            !.received = @ + Cardinality(GiftsFrom(s, op, named))]
=============================================================================
