------------------------------- MODULE Server -------------------------------
(***************************************************************************)
(* Sessions of tcp_server.py.  Each connection is a thread with a copy of   *)
(* the save loaded when it was accepted; requests are handled one by one in *)
(* the order they arrive; a request that changes the copy is answered after *)
(* the whole copy has been written to player.json.  The client uses one     *)
(* connection at a time and may drop it and come back; edit_state.py writes *)
(* the same file from another process.  Nothing locks the file.             *)
(*                                                                         *)
(* A save is the set of changes it contains, so that a lost one shows.      *)
(***************************************************************************)
EXTENDS Naturals, Sequences, FiniteSets

CONSTANTS
  Conns,        \* connections
  Changes,      \* requests that change the save when they are handled
  Reads,        \* requests that are answered and change nothing
  Declined,     \* requests whose handler returns None, "to stay silent"
  Edits,        \* changes made by hand with edit_state.py
  Login,        \* LOGIN_ENTER or LOGIN_RECONNECT, first on every connection
  Overlap,      \* may a connection open before the last thread has ended?
  WriteMayFail, \* may persist raise?
  EditOnline,   \* may the save be edited while a connection is open?
  MaxSessions,  \* bound on the number of times the client connects
  NoCopy, NoReply, NoConn

ASSUME ServerAssumption ==
  /\ Changes \cap (Reads \cup Declined) = {} /\ Reads \cap Declined = {}
  /\ Edits \cap Changes = {}
  /\ Login \notin Changes \cup Reads \cup Declined
  /\ {Overlap, WriteMayFail, EditOnline} \subseteq BOOLEAN
  /\ MaxSessions \in Nat
  /\ NoCopy \notin SUBSET (Changes \cup Edits)
  /\ NoConn \notin Conns

Requests == Changes \cup Reads \cup Declined
Saves == SUBSET (Changes \cup Edits)
Answers == {"none", "ok", "zero"}   \* "zero": the zero-filled default body

VARIABLES
  mem,       \* mem[c]: the copy thread c works on, or NoCopy
  disk,      \* player.json
  inbox,     \* inbox[c]: requests sent on c and not yet handled
  reply,     \* reply[c]: the answer thread c is about to send
  cur,       \* the connection the client uses
  sent,      \* sent[r]: the session r was sent in, or 0
  got,       \* got[r]: the answer the client has for r
  editor,    \* the copy edit_state.py has loaded, or NoCopy
  edited,    \* changes edit_state.py has reported as saved
  sessions   \* how often the client has connected

vars == <<mem, disk, inbox, reply, cur, sent, got, editor, edited, sessions>>
client == <<cur, sent, got, sessions>>
edit == <<editor, edited>>

Alive(c) == mem[c] # NoCopy
Offline == \A c \in Conns : ~Alive(c)

Init ==
  /\ mem = [c \in Conns |-> NoCopy]
  /\ disk = {}
  /\ inbox = [c \in Conns |-> <<>>]
  /\ reply = [c \in Conns |-> NoReply]
  /\ cur = NoConn
  /\ sent = [r \in Requests |-> 0]
  /\ got = [r \in Requests |-> "none"]
  /\ editor = NoCopy /\ edited = {} /\ sessions = 0

-----------------------------------------------------------------------------
(* Slip: the thread starts from a new save, the file is not read.           *)
ConnectStale(c) ==
  /\ cur = NoConn /\ ~Alive(c)
  /\ sessions < MaxSessions
  /\ mem' = [mem EXCEPT ![c] = {}]
  /\ inbox' = [inbox EXCEPT ![c] = <<Login>>]
  /\ cur' = c /\ sessions' = sessions + 1
  /\ UNCHANGED <<disk, reply, sent, got, edit>>

(* The client connects and logs in; the accept loop loads the save and      *)
(* starts the thread.                                                       *)
Connect(c) ==
  /\ cur = NoConn /\ ~Alive(c)
  /\ Overlap \/ Offline
  /\ sessions < MaxSessions   \* bound
  /\ mem' = [mem EXCEPT ![c] = disk]
  /\ inbox' = [inbox EXCEPT ![c] = <<Login>>]
  /\ cur' = c /\ sessions' = sessions + 1
  /\ UNCHANGED <<disk, reply, sent, got, edit>>

Send(r) ==
  /\ cur # NoConn
  /\ sent[r] = 0
  /\ inbox' = [inbox EXCEPT ![cur] = Append(@, r)]
  /\ sent' = [sent EXCEPT ![r] = sessions]
  /\ UNCHANGED <<mem, disk, reply, cur, got, sessions, edit>>

(* The client gives up the connection; what it had sent arrives up to some  *)
(* point.                                                                   *)
Drop ==
  /\ cur # NoConn
  /\ \E n \in 0..Len(inbox[cur]) :
       inbox' = [inbox EXCEPT ![cur] = SubSeq(@, 1, n)]
  /\ cur' = NoConn
  /\ UNCHANGED <<mem, disk, reply, sent, got, sessions, edit>>

-----------------------------------------------------------------------------
(* Slip: the answer goes out and nothing is written.                        *)
PersistedNot(c, copy) ==
  /\ UNCHANGED disk
  /\ reply' = [reply EXCEPT ![c] = [to |-> Head(inbox[c]), answer |-> "ok"]]

(* persist, then answer.  When persist raises the copy keeps the change and *)
(* the request goes on to the default answer.                               *)
Persisted(c, copy) ==
  /\ disk' = copy
  /\ reply' = [reply EXCEPT ![c] = [to |-> Head(inbox[c]), answer |-> "ok"]]

(* Slip: the exception of a failed write takes the answer with it.          *)
PersistEscaped(c) ==
  /\ WriteMayFail
  /\ UNCHANGED <<disk, reply>>

(* Slip: a packet that is neither the answer nor the default body.          *)
PersistFailedBlank(c) ==
  /\ WriteMayFail
  /\ reply' = [reply EXCEPT ![c] = [to |-> Head(inbox[c]), answer |-> "blank"]]
  /\ UNCHANGED disk

PersistFailed(c) ==
  /\ WriteMayFail
  /\ reply' = [reply EXCEPT ![c] = [to |-> Head(inbox[c]), answer |-> "zero"]]
  /\ UNCHANGED disk

(* The thread is free for its next request only after it has sent the last  *)
(* answer.                                                                  *)
Takes(c, R) ==
  /\ reply[c] = NoReply
  /\ inbox[c] # <<>> /\ Head(inbox[c]) \in R
  /\ inbox' = [inbox EXCEPT ![c] = Tail(@)]
  /\ UNCHANGED <<client, edit>>

(* The login writes the copy outside the try block of the handlers: if that *)
(* raises nobody answers.                                                   *)
HandleLogin(c) ==
  /\ Takes(c, {Login})
  /\ UNCHANGED mem
  /\ \/ Persisted(c, mem[c])
     \/ WriteMayFail /\ UNCHANGED <<disk, reply>>

HandleChange(c) ==
  /\ Takes(c, Changes)
  /\ mem' = [mem EXCEPT ![c] = @ \cup {Head(inbox[c])}]
  /\ Persisted(c, mem'[c]) \/ PersistFailed(c)

HandleRead(c) ==
  /\ Takes(c, Reads)
  /\ reply' = [reply EXCEPT ![c] = [to |-> Head(inbox[c]), answer |-> "ok"]]
  /\ UNCHANGED <<mem, disk>>

(* No handler of the chain takes the request: if the table of default       *)
(* bodies knows the protocol (it knows every one these modules serve), the  *)
(* client gets zeros.                                                       *)
HandleDeclined(c) ==
  /\ Takes(c, Declined)
  /\ reply' = [reply EXCEPT ![c] = [to |-> Head(inbox[c]), answer |-> "zero"]]
  /\ UNCHANGED <<mem, disk>>

(* sendall: an answer on a connection the client has left is lost.          *)
SendReply(c) ==
  /\ reply[c] # NoReply
  /\ got' = IF cur = c /\ reply[c].to # Login
              THEN [got EXCEPT ![reply[c].to] = reply[c].answer] ELSE got
  /\ reply' = [reply EXCEPT ![c] = NoReply]
  /\ UNCHANGED <<mem, disk, inbox, cur, sent, sessions, edit>>

(* recv returns no more bytes.                                              *)
Finish(c) ==
  /\ Alive(c) /\ cur # c
  /\ inbox[c] = <<>> /\ reply[c] = NoReply
  /\ mem' = [mem EXCEPT ![c] = NoCopy]
  /\ UNCHANGED <<disk, inbox, reply, client, edit>>

(* The server process dies between any two steps, and is started again.     *)
Crash ==
  /\ mem' = [c \in Conns |-> NoCopy]
  /\ inbox' = [c \in Conns |-> <<>>]
  /\ reply' = [c \in Conns |-> NoReply]
  /\ cur' = NoConn
  /\ UNCHANGED <<disk, sent, got, sessions, edit>>

-----------------------------------------------------------------------------
(* edit_state.py: load the save, change one thing, save it.                 *)
EditLoad ==
  /\ editor = NoCopy
  /\ Edits \ edited # {}   \* bound: each edit is made once
  /\ EditOnline \/ Offline
  /\ editor' = disk
  /\ UNCHANGED <<mem, disk, inbox, reply, client, edited>>

EditSave(e) ==
  /\ editor # NoCopy
  /\ e \notin edited
  /\ EditOnline \/ Offline
  /\ disk' = editor \cup {e}
  /\ editor' = NoCopy
  /\ edited' = edited \cup {e}
  /\ UNCHANGED <<mem, inbox, reply, client>>

(* The player must be offline while the script runs, unless EditOnline.     *)
Joins(c) == (EditOnline \/ editor = NoCopy) /\ Connect(c)

Thread(c) ==
  \/ HandleLogin(c) \/ HandleChange(c) \/ HandleRead(c)
  \/ HandleDeclined(c) \/ SendReply(c) \/ Finish(c)

Next ==
  \/ \E c \in Conns : Joins(c) \/ Thread(c)
  \/ \E r \in Requests : Send(r)
  \/ Drop \/ Crash
  \/ EditLoad \/ \E e \in Edits : EditSave(e)

Spec == Init /\ [][Next]_vars

(* Every thread keeps running: its loop never waits for anything but bytes, *)
(* and a receive timeout only makes it try again.                           *)
FairSpec == Spec /\ \A c \in Conns : WF_vars(Thread(c))

-----------------------------------------------------------------------------
TypeOK ==
  /\ mem \in [Conns -> Saves \cup {NoCopy}]
  /\ disk \in Saves
  /\ \A c \in Conns :
       /\ inbox[c] \in Seq(Requests \cup {Login})
       /\ reply[c] # NoReply =>
            reply[c] \in [to: Requests \cup {Login}, answer: {"ok", "zero"}]
  /\ cur \in Conns \cup {NoConn}
  /\ sent \in [Requests -> 0..MaxSessions]
  /\ got \in [Requests -> Answers]
  /\ editor \in Saves \cup {NoCopy} /\ edited \in SUBSET Edits
  /\ sessions \in 0..MaxSessions

Acknowledged == {r \in Changes : got[r] = "ok"}

(* A change the client was told has been made is in player.json, and in the *)
(* copy of whoever serves the client now: it survives crash, drop and       *)
(* relog ("the server is the only memory they have").                       *)
AcknowledgedKept ==
  /\ Acknowledged \subseteq disk
  /\ cur # NoConn => Acknowledged \subseteq mem[cur]

(* A saved edit is still in the file when nobody is connected any more, so  *)
(* that the next login shows it ("relog after editing").                    *)
EditSurvivesRelog == Offline => edited \subseteq disk

(* An answer is never ahead of the file, even while it is on its way.       *)
ReplyBacked ==
  \A c \in Conns :
    reply[c] # NoReply /\ reply[c].answer = "ok" /\ reply[c].to \in Changes
      => reply[c].to \in disk

(* A handler that returns None "to stay silent" (summon: "acknowledge       *)
(* nothing rather than handing out a free pull") gets no answer out.        *)
SilentStaysSilent == \A r \in Declined : got[r] = "none"

(* Every request is answered, be it with zeros, if the client waits.        *)
EveryRequestAnswered ==
  \A r \in Requests :
    sent[r] # 0 ~> got[r] # "none" \/ cur = NoConn \/ sessions # sent[r]
=============================================================================
