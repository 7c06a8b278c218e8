------------------------------ MODULE Rewards ------------------------------
(***************************************************************************)
(* Mails, tasks and sign-ins: rewards that may be collected once            *)
(* (stateful_handlers.py, sign_handlers.py).                                *)
(***************************************************************************)
EXTENDS Inventory

CONSTANTS
  Mails, Attached,    \* Attached[m]: the rewards of mail m
  Tasks, TaskPays,    \* TaskPays[t]: the rewards of task t
  Signs, SignPays     \* SignPays[n]: the rewards of sign-in n

(* A mail is unread, read, claimed, or deleted.                             *)
Unread == 0
Read == 1
Claimed == 2
Deleted == 3

In(ids, x) == \E i \in DOMAIN ids : ids[i] = x

-----------------------------------------------------------------------------
(* _mail_handle: read (1), collect (2), delete (3).  A request lists ids    *)
(* and may repeat one; the answer is FALSE if nothing changed.              *)
(* Slip: the change is not reported.                                        *)
ReadsUnreported(s, ids) == FALSE

ReadsMail(s, ids) == \E m \in Mails : s.mails[m] = Unread /\ In(ids, m)

MailsRead(s, ids) ==
  [s EXCEPT !.mails = [m \in Mails |->
     IF @[m] = Unread /\ In(ids, m) THEN Read ELSE @[m]]]

(* Slip: the ids are not looked at one after another, so a mail named twice *)
(* is collected twice.                                                      *)
ToCollectTwice(s, ids) ==
  Only(ids, {m \in Mails : s.mails[m] \notin {Claimed, Deleted}})

ToCollect(s, ids) == Firsts(ids, {m \in Mails : s.mails[m] \notin {Claimed, Deleted}})

AttachedTo(found) == FoldLeft(LAMBDA acc, m : acc \o Attached[m], <<>>, found)

MailsCollected(s, ids) ==
  [s EXCEPT
     !.bag = Granted(@, AttachedTo(ToCollect(s, ids))),
     !.mails = [m \in Mails |-> IF In(ToCollect(s, ids), m) THEN Claimed ELSE @[m]]]

DeletesMail(s, ids) == \E m \in Mails : s.mails[m] # Deleted /\ In(ids, m)

MailsDeleted(s, ids) ==
  [s EXCEPT !.mails = [m \in Mails |-> IF In(ids, m) THEN Deleted ELSE @[m]]]

-----------------------------------------------------------------------------
(* _claim_task, for one id and for each id of a list.  A task is open, done *)
(* or claimed; only a done one pays, and what it pays is granted on its own.*)
Open == 0
Done == 1

Pays(s, t) == s.tasks[t] = Done

ToClaim(s, ids) == Firsts(ids, {t \in Tasks : Pays(s, t)})

TasksGranted(bag, list) == FoldLeft(LAMBDA b, t : Granted(b, TaskPays[t]), bag, list)

TasksClaimed(s, ids) ==
  [s EXCEPT
     !.bag = TasksGranted(@, ToClaim(s, ids)),
     !.tasks = [t \in Tasks |-> IF In(ToClaim(s, ids), t) THEN Claimed ELSE @[t]]]

-----------------------------------------------------------------------------
(* sign_handlers._claim on signs[n] = [can, index]: can[i] while day i may  *)
(* be signed; the first such day is.  Sign-in 1 also counts its days.       *)
Signable(s, n) == {i \in DOMAIN s.signs[n].can : s.signs[n].can[i]}

MaySign(s, n) == Signable(s, n) # {} /\ Named(SignPays[n]) # {}

Signed(s, n) ==
  LET i == Min(Signable(s, n))
  IN [s EXCEPT
        !.bag = Granted(@, SignPays[n]),
        !.signs[n] = [can   |-> [@.can EXCEPT ![i] = FALSE],
                      index |-> IF n = 1 THEN Max({@.index, i}) ELSE @.index]]
=============================================================================
