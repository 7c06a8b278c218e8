---------------------------- MODULE ServerProofs ----------------------------
(* Acknowledged changes are kept, for any number of connections, sessions,  *)
(* requests and edits, as long as sessions do not overlap and the save is   *)
(* edited offline.                                                          *)
EXTENDS Server, TLAPS

Serial == ~Overlap /\ ~EditOnline

(* At most one thread is alive, it serves the client if anybody does, and   *)
(* its copy is ahead of the file; the editor's copy is the file.            *)
OneThread ==
  /\ \A c, d \in Conns : Alive(c) /\ Alive(d) => c = d
  /\ cur # NoConn => cur \in Conns /\ Alive(cur)
  /\ editor # NoCopy => Offline /\ editor = disk

CopyAhead == \A c \in Conns : Alive(c) => disk \subseteq mem[c]

Shapes ==
  /\ mem \in [Conns -> Saves \cup {NoCopy}]
  /\ disk \in Saves
  /\ inbox \in [Conns -> Seq(Requests \cup {Login})]
  /\ reply \in [Conns -> [to: Requests \cup {Login}, answer: {"ok", "zero"}]
                         \cup {NoReply}]
  /\ cur \in Conns \cup {NoConn}
  /\ sent \in [Requests -> 0..MaxSessions]
  /\ got \in [Requests -> Answers]
  /\ editor \in Saves \cup {NoCopy} /\ edited \in SUBSET Edits
  /\ sessions \in 0..MaxSessions

(* A thread has something to do only while it is alive.                     *)
Busy == \A c \in Conns :
          inbox[c] # <<>> \/ reply[c] # NoReply => Alive(c)

IInv ==
  /\ Shapes
  /\ OneThread /\ CopyAhead /\ Busy
  /\ Acknowledged \subseteq disk
  /\ ReplyBacked
  /\ edited \subseteq disk

(* A thread that takes a request is alive, and may change only its inbox,   *)
(* its copy, its answer and the file.                                       *)
LEMMA TakesFacts ==
  ASSUME IInv, NEW c \in Conns, NEW R, Takes(c, R)
  PROVE  /\ Head(inbox[c]) \in R /\ Head(inbox[c]) \in Requests \cup {Login}
         /\ inbox' \in [Conns -> Seq(Requests \cup {Login})]
         /\ \A d \in Conns : inbox'[d] # <<>> => inbox[d] # <<>>
         /\ Alive(c) /\ mem[c] \in Saves
         /\ reply[c] = NoReply
         /\ UNCHANGED <<cur, sent, got, sessions, editor, edited>>
  BY DEF Takes, IInv, Shapes, Busy, Alive, client, edit

(* A thread that is alive is the only one, and nobody is editing.           *)
LEMMA AloneFacts ==
  ASSUME IInv, NEW c \in Conns, Alive(c)
  PROVE  /\ editor = NoCopy
         /\ \A d \in Conns : d # c => mem[d] = NoCopy /\ reply[d] = NoReply
         /\ disk \subseteq mem[c]
         /\ cur \in {c, NoConn}
  BY DEF IInv, OneThread, CopyAhead, Busy, Alive, Offline

LEMMA InitOK == Serial /\ Init => IInv
<1>. SUFFICES ASSUME Serial, Init PROVE IInv
  OBVIOUS
<1>. USE ServerAssumption
<1>1. Shapes
  BY DEF Init, Shapes, Saves, Answers
<1>2. OneThread /\ CopyAhead /\ Busy
  BY DEF Init, OneThread, CopyAhead, Busy, Alive
<1>3. Acknowledged \subseteq disk /\ ReplyBacked /\ edited \subseteq disk
  BY DEF Init, Acknowledged, ReplyBacked, Requests
<1>. QED
  BY <1>1, <1>2, <1>3 DEF IInv

(* Handling a request: the copy becomes ahead of the old one, the file is   *)
(* that copy or stays, and "ok" to a change is prepared only if it is in    *)
(* the file.                                                                *)
LEMMA HandleOK ==
  ASSUME IInv, NEW c \in Conns, NEW R, Takes(c, R),
         NEW copy \in Saves, mem[c] \subseteq copy,
         mem' = [mem EXCEPT ![c] = copy],
         disk' = copy \/ disk' = disk,
         \/ reply' = reply
         \/ \E a \in {"ok", "zero"} :
              /\ reply' = [reply EXCEPT ![c] = [to |-> Head(inbox[c]), answer |-> a]]
              /\ a = "ok" /\ Head(inbox[c]) \in Changes => Head(inbox[c]) \in disk'
  PROVE  IInv'
<1>1. copy # NoCopy
  BY ServerAssumption DEF Saves
<1>2. disk \subseteq disk' /\ disk' \subseteq copy /\ disk' \in Saves
  BY TakesFacts, AloneFacts DEF IInv, Shapes
<1>3. Shapes'
  <2>1. reply' \in [Conns -> [to: Requests \cup {Login}, answer: {"ok", "zero"}]
                             \cup {NoReply}]
    <3>1. CASE reply' = reply
      BY <3>1 DEF IInv, Shapes
    <3>2. ASSUME NEW a \in {"ok", "zero"},
                 reply' = [reply EXCEPT ![c] = [to |-> Head(inbox[c]), answer |-> a]]
          PROVE  reply' \in [Conns -> [to: Requests \cup {Login},
                                     answer: {"ok", "zero"}] \cup {NoReply}]
      <4>1. [to |-> Head(inbox[c]), answer |-> a]
              \in [to: Requests \cup {Login}, answer: {"ok", "zero"}]
        BY TakesFacts
      <4>. QED
        BY <3>2, <4>1 DEF IInv, Shapes
    <3>. QED
      BY <3>1, <3>2
  <2>. QED
    BY <2>1, <1>2, TakesFacts DEF IInv, Shapes
<1>4. OneThread'
  BY <1>1, TakesFacts, AloneFacts DEF IInv, Shapes, OneThread, Alive
<1>5. CopyAhead'
  BY <1>2, TakesFacts, AloneFacts DEF IInv, Shapes, CopyAhead, Alive
<1>6. Busy'
  BY <1>1, TakesFacts, AloneFacts DEF IInv, Shapes, Busy, Alive
<1>7. (Acknowledged \subseteq disk)' /\ (edited \subseteq disk)'
  BY <1>2, TakesFacts DEF IInv, Acknowledged
<1>8. ReplyBacked'
  BY <1>2, TakesFacts, AloneFacts DEF IInv, Shapes, ReplyBacked
<1>. QED
  BY <1>3, <1>4, <1>5, <1>6, <1>7, <1>8 DEF IInv

LEMMA NextOK == Serial /\ IInv /\ [Next]_vars => IInv'
<1>. SUFFICES ASSUME Serial, IInv, [Next]_vars PROVE IInv'
  OBVIOUS
<1>1. ASSUME NEW c \in Conns, Joins(c) PROVE IInv'
  <2>. USE <1>1, ServerAssumption DEF Joins, Connect, edit
  <2>1. Offline /\ editor = NoCopy
    BY DEF Serial
  <2>2. inbox' \in [Conns -> Seq(Requests \cup {Login})]
    BY DEF IInv, Shapes
  <2>3. disk # NoCopy
    BY DEF IInv, Shapes, Saves
  <2>4. Shapes'
    BY <2>2 DEF IInv, Shapes
  <2>5. OneThread' /\ CopyAhead'
    BY <2>1, <2>3 DEF IInv, Shapes, OneThread, CopyAhead, Alive, Offline
  <2>6. Busy'
    BY <2>3 DEF IInv, Shapes, Busy, Alive
  <2>. QED
    BY <2>4, <2>5, <2>6 DEF IInv, Acknowledged, ReplyBacked
<1>2. ASSUME NEW c \in Conns, HandleLogin(c) PROVE IInv'
  <2>1. Takes(c, {Login}) /\ Login \notin Changes
    BY <1>2, ServerAssumption DEF HandleLogin
  <2>2. mem[c] \in Saves /\ mem' = [mem EXCEPT ![c] = mem[c]]
    BY <1>2, <2>1, TakesFacts DEF HandleLogin, IInv, Shapes
  <2>3. Head(inbox[c]) = Login
    BY <2>1, TakesFacts
  <2>. QED
    BY <1>2, <2>1, <2>2, <2>3, HandleOK DEF HandleLogin, Persisted
<1>3. ASSUME NEW c \in Conns, HandleChange(c) PROVE IInv'
  <2>. DEFINE copy == mem[c] \cup {Head(inbox[c])}
  <2>1. Takes(c, Changes) /\ mem' = [mem EXCEPT ![c] = copy]
    BY <1>3 DEF HandleChange
  <2>2. copy \in Saves /\ mem[c] \subseteq copy /\ mem'[c] = copy
    BY <2>1, TakesFacts DEF Saves, IInv, Shapes
  <2>. QED
    BY <1>3, <2>1, <2>2, HandleOK DEF HandleChange, Persisted, PersistFailed
<1>4. ASSUME NEW c \in Conns, HandleRead(c) \/ HandleDeclined(c) PROVE IInv'
  <2>1. PICK R \in {Reads, Declined} : Takes(c, R)
    BY <1>4 DEF HandleRead, HandleDeclined
  <2>2. Head(inbox[c]) \notin Changes
    BY <2>1, TakesFacts, ServerAssumption
  <2>3. mem[c] \in Saves /\ mem' = [mem EXCEPT ![c] = mem[c]]
    BY <1>4, <2>1, TakesFacts DEF HandleRead, HandleDeclined, IInv, Shapes
  <2>. QED
    BY <1>4, <2>1, <2>2, <2>3, HandleOK DEF HandleRead, HandleDeclined
<1>5. ASSUME NEW c \in Conns, SendReply(c) PROVE IInv'
  <2>. USE <1>5 DEF SendReply, edit
  <2>1. Shapes'
    BY DEF IInv, Shapes, Requests, Answers
  <2>2. OneThread' /\ CopyAhead' /\ Busy'
    BY DEF IInv, Shapes, OneThread, CopyAhead, Busy, Alive, Offline
  <2>3. (Acknowledged \subseteq disk)'
    BY DEF IInv, Shapes, Acknowledged, ReplyBacked
  <2>4. ReplyBacked'
    BY DEF IInv, Shapes, ReplyBacked
  <2>. QED
    BY <2>1, <2>2, <2>3, <2>4 DEF IInv
<1>6. ASSUME NEW c \in Conns, Finish(c) PROVE IInv'
  BY <1>6 DEF Finish, client, edit, IInv, Shapes, OneThread, CopyAhead, Busy,
     Alive, Offline, Acknowledged, ReplyBacked
<1>7. ASSUME NEW r \in Requests, Send(r) PROVE IInv'
  <2>. USE <1>7 DEF Send, edit
  <2>1. cur \in Conns /\ Alive(cur)
    BY DEF IInv, OneThread
  <2>2. inbox' \in [Conns -> Seq(Requests \cup {Login})]
    BY <2>1 DEF IInv, Shapes
  <2>. QED
    BY <2>1, <2>2 DEF IInv, Shapes, OneThread, CopyAhead, Busy, Alive, Offline,
       Acknowledged, ReplyBacked
<1>8. CASE Drop
  <2>. USE <1>8 DEF Drop, edit
  <2>1. cur \in Conns /\ Alive(cur)
    BY DEF IInv, OneThread
  <2>2. PICK n \in 0..Len(inbox[cur]) :
          inbox' = [inbox EXCEPT ![cur] = SubSeq(@, 1, n)]
    BY DEF Drop
  <2>3. SubSeq(inbox[cur], 1, n) \in Seq(Requests \cup {Login})
    BY <2>1, <2>2 DEF IInv, Shapes
  <2>4. inbox' \in [Conns -> Seq(Requests \cup {Login})]
    BY <2>1, <2>2, <2>3 DEF IInv, Shapes
  <2>5. Shapes'
    BY <2>4 DEF IInv, Shapes
  <2>6. OneThread' /\ CopyAhead'
    BY DEF IInv, OneThread, CopyAhead, Alive, Offline
  <2>7. Busy'
    BY <2>1, <2>2 DEF IInv, Shapes, Busy, Alive
  <2>. QED
    BY <2>5, <2>6, <2>7 DEF IInv, Acknowledged, ReplyBacked
<1>9. CASE Crash
  <2>. USE <1>9 DEF Crash, edit
  <2>1. Shapes'
    BY DEF IInv, Shapes
  <2>2. OneThread' /\ CopyAhead' /\ Busy'
    BY DEF IInv, OneThread, CopyAhead, Busy, Alive, Offline
  <2>. QED
    BY <2>1, <2>2 DEF IInv, Acknowledged, ReplyBacked
<1>10. CASE EditLoad
  <2>. USE <1>10 DEF EditLoad, client
  <2>1. Offline
    BY DEF Serial
  <2>. QED
    BY <2>1 DEF IInv, Shapes, OneThread, CopyAhead, Busy, Alive, Offline,
       Acknowledged, ReplyBacked
<1>11. ASSUME NEW e \in Edits, EditSave(e) PROVE IInv'
  <2>. USE <1>11 DEF EditSave, client
  <2>1. Offline /\ disk' = disk \cup {e}
    BY DEF IInv, OneThread
  <2>2. disk' \in Saves
    BY <2>1 DEF IInv, Shapes, Saves
  <2>3. Shapes'
    BY <2>2 DEF IInv, Shapes
  <2>4. OneThread' /\ CopyAhead' /\ Busy'
    BY <2>1 DEF IInv, OneThread, CopyAhead, Busy, Alive, Offline
  <2>. QED
    BY <2>1, <2>3, <2>4 DEF IInv, Acknowledged, ReplyBacked
<1>12. CASE UNCHANGED vars
  BY <1>12 DEF vars, IInv, Shapes, OneThread, CopyAhead, Busy, Alive, Offline,
     Acknowledged, ReplyBacked
<1>. QED
  BY <1>1, <1>2, <1>3, <1>4, <1>5, <1>6, <1>7, <1>8, <1>9, <1>10, <1>11, <1>12
  DEF Next, Thread

(* The invariant, for every serial server.                                  *)
THEOREM Inductive == Serial => (Spec => []IInv)
<1>1. CASE Serial
  <2>1. Init => IInv
    BY <1>1, InitOK
  <2>2. IInv /\ [Next]_vars => IInv'
    BY <1>1, NextOK
  <2>. QED
    BY <2>1, <2>2, PTL DEF Spec
<1>. QED
  BY <1>1

(* Type correctness of the copies, queues, answers and histories.           *)
THEOREM TypeTheorem == Serial => (Spec => []TypeOK)
<1>1. IInv => TypeOK
  BY DEF IInv, Shapes, TypeOK
<1>. QED
  BY <1>1, Inductive, PTL

(* What the client was told is made survives every crash, drop and relog.   *)
THEOREM AcknowledgedTheorem == Serial => (Spec => []AcknowledgedKept)
<1>1. IInv => AcknowledgedKept
  BY DEF IInv, OneThread, CopyAhead, AcknowledgedKept
<1>. QED
  BY <1>1, Inductive, PTL

(* An edit made while nobody is connected is there at the next login.       *)
THEOREM EditTheorem == Serial => (Spec => []EditSurvivesRelog)
<1>1. IInv => EditSurvivesRelog
  BY DEF IInv, EditSurvivesRelog
<1>. QED
  BY <1>1, Inductive, PTL

(* No "ok" to a change is even on its way before the file has the change.   *)
THEOREM ReplyTheorem == Serial => (Spec => []ReplyBacked)
<1>1. IInv => ReplyBacked
  BY DEF IInv
<1>. QED
  BY <1>1, Inductive, PTL
=============================================================================
