-------------------------------- MODULE Wire --------------------------------
(***************************************************************************)
(* The framing of work/offline/tcp_server.py, both ways of one connection.  *)
(*                                                                         *)
(* Bytes are positions: the client's stream is a list of frames, frame i    *)
(* begins at byte Start[i], and the server's buffer holds bytes head+1 up   *)
(* to tail.  recv returns any number of the bytes under way, so frames      *)
(* arrive in pieces and several at a time.  A frame may carry a wrong       *)
(* token, or a length the server does not accept; the buffer is cleared     *)
(* then, also of what belongs to the frames behind it, and parsing goes on  *)
(* with whatever byte comes next.  The inside of a frame is taken not to    *)
(* begin with the token.                                                    *)
(*                                                                         *)
(* Replies are padded for a client that, before it looks at the length of   *)
(* a frame, compares the four bytes behind it with what it has received.    *)
(***************************************************************************)
EXTENDS Integers, Sequences

CONSTANTS
  Start,       \* Start[i]: where frame i begins; Start[N + 1]: the end
  TokenOk,     \* TokenOk[i]: frame i carries the head token
  MinLen, MaxLen, HDR,
  ChunkMax,    \* the most one recv returns
  Bodies,      \* sizes of reply bodies
  Sums,        \* sums of the bytes of a reply's payload
  Pieces       \* bound: numbers of bytes of a reply that arrive together, or the rest

N == Len(Start) - 1
PadUnit == 65536

ASSUME StartAssumption ==
  /\ Start \in Seq(Nat) /\ Len(Start) >= 1 /\ Start[1] = 0
  /\ \A i, j \in 1..(N + 1) : i < j => Start[i] + HDR <= Start[j]
ASSUME HeadAssumption == HDR = 8 /\ MinLen = HDR + 2 /\ MaxLen \in Nat
ASSUME TokenAssumption == TokenOk \in [1..N -> BOOLEAN]
ASSUME BodyAssumption == Bodies \subseteq Nat /\ Sums \subseteq Nat
ASSUME PieceAssumption == Pieces \subseteq Nat \ {0} /\ ChunkMax \in Nat \ {0}

VARIABLES
  at,         \* "recv", "parse" or "closed"
  head, tail, \* the server's buffer
  handled,    \* frames handed to handle(), oldest first
  replies,    \* replies the client has not taken yet, oldest first: [total, sum]
  arrived     \* bytes the client has of the first of them

vars == <<at, head, tail, handled, replies, arrived>>

FrameLen(i) == Start[i + 1] - Start[i]
IsGood(i) == TokenOk[i] /\ FrameLen(i) \in MinLen..MaxLen

-----------------------------------------------------------------------------
(* pack: 8 bytes of header and 6 of payload before the body.                *)
(* Slip: the frame is as long as what it holds.                             *)
PackExact(n) == 14 + n

PackTotal(n) == ((14 + n + PadUnit - 1) \div PadUnit) * PadUnit

(* checksum: (s + 119) & 0xFF7F, sixteen bits without bit 7.                *)
Checksum(s) == ((s + 119) % 65536) - 128 * (((s + 119) \div 128) % 2)

(* The client reads four bytes at offset 4: the lower half of the length    *)
(* and the checksum behind it.                                              *)
BogusLength(r) == (r.total % 65536) * 65536 + Checksum(r.sum)

-----------------------------------------------------------------------------
Init ==
  /\ at = "recv" /\ head = 0 /\ tail = 0 /\ handled = <<>>
  /\ replies = <<>> /\ arrived = 0

Held == tail - head
BeginsHere(i) == Start[i] = head
Clear == head' = tail /\ at' = "recv"
FromServer == <<replies, arrived>>

(* sock.recv(65536): bytes, or nothing at all when the client has closed.   *)
Receive(n) ==
  /\ at = "recv"
  /\ tail + n <= Start[N + 1]
  /\ tail' = tail + n
  /\ at' = "parse"
  /\ UNCHANGED <<head, handled, FromServer>>

Close == at = "recv" /\ at' = "closed" /\ UNCHANGED <<head, tail, handled, FromServer>>

(* One round of the loop over the buffer.                                   *)
Starve ==
  /\ at = "parse"
  /\ Held < HDR
  /\ at' = "recv"
  /\ UNCHANGED <<head, tail, handled, FromServer>>

BadToken ==
  /\ at = "parse"
  /\ Held >= HDR
  /\ \A i \in 1..N : BeginsHere(i) => ~TokenOk[i]
  /\ Clear
  /\ UNCHANGED <<tail, handled, FromServer>>

BadLength(i) ==
  /\ at = "parse"
  /\ Held >= HDR
  /\ BeginsHere(i) /\ TokenOk[i] /\ ~IsGood(i)
  /\ Clear
  /\ UNCHANGED <<tail, handled, FromServer>>

Partial(i) ==
  /\ at = "parse"
  /\ Held >= HDR
  /\ BeginsHere(i) /\ IsGood(i)
  /\ Held < FrameLen(i)
  /\ at' = "recv"
  /\ UNCHANGED <<head, tail, handled, FromServer>>

(* del self.buf[:total]                                                     *)
(* Slips: the whole buffer goes with the frame; the header is counted       *)
(* twice; the frame stays.                                                  *)
CutAll(i) == head' = tail
CutPast(i) == head' = head + HDR + FrameLen(i)
CutNothing(i) == head' = head
Cut(i) == head' = head + FrameLen(i)

(* handle() sends nothing when it raises or knows no answer, and several    *)
(* packets for some requests; one stands for them.                          *)
Handle(i) ==
  /\ at = "parse"
  /\ Held >= HDR
  /\ BeginsHere(i) /\ IsGood(i)
  /\ Held >= FrameLen(i)
  /\ Cut(i)
  /\ handled' = Append(handled, i)
  /\ \/ UNCHANGED replies
     \/ \E n \in Bodies, s \in Sums :
          replies' = Append(replies, [total |-> PackTotal(n), sum |-> s])
  /\ UNCHANGED <<at, tail, arrived>>

-----------------------------------------------------------------------------
(* The client's receive loop (external).                                    *)
Waiting == replies # <<>>
First == Head(replies)
Gate == BogusLength(First) <= arrived

Arrive(n) ==
  /\ Waiting
  /\ arrived < First.total
  /\ arrived' = IF arrived + n < First.total THEN arrived + n ELSE First.total
  /\ UNCHANGED <<at, head, tail, handled, replies>>

Take ==
  /\ Waiting
  /\ Gate
  /\ arrived = First.total
  /\ arrived' = 0
  /\ replies' = Tail(replies)
  /\ UNCHANGED <<at, head, tail, handled>>

Next ==
  \/ \E n \in 1..ChunkMax : Receive(n)
  \/ Close
  \/ Starve
  \/ BadToken
  \/ \E i \in 1..N : BadLength(i) \/ Partial(i) \/ Handle(i)
  \/ \E n \in Pieces : Arrive(n)
  \/ Take

Spec == Init /\ [][Next]_vars

-----------------------------------------------------------------------------
Reply == [total : Nat, sum : Sums]

(* The server's buffer is a stretch of what has arrived.                    *)
TypeOK ==
  /\ at \in {"recv", "parse", "closed"}
  /\ head \in Nat /\ tail \in Nat /\ head <= tail /\ tail <= Start[N + 1]
  /\ handled \in Seq(1..N)
  /\ replies \in Seq(Reply)
  /\ arrived \in Nat

(* Frames are handled in the order the client sent them, each at most once, *)
(* and none that is not whole and well-formed: however the stream is cut    *)
(* into pieces, and whatever a cleared buffer has swallowed.                *)
HandledInOrder ==
  /\ \A j \in DOMAIN handled : IsGood(handled[j]) /\ Start[handled[j] + 1] <= head
  /\ \A j \in DOMAIN handled : j > 1 => handled[j - 1] < handled[j]

(* No frame is forgotten: when the server goes back to wait for bytes, it   *)
(* has handled every frame that has arrived and has none but good ones      *)
(* before it, so a client that waits for an answer does not wait for ever.  *)
NothingLeftBehind ==
  at = "recv" =>
    \A i \in 1..N : (Start[i + 1] <= tail /\ \A j \in 1..i : IsGood(j))
                      => \E k \in DOMAIN handled : handled[k] = i

(* A reply that has arrived as a whole passes the client's gate: README.md  *)
(* on what padding is for.                                                  *)
RepliesPassGate == (Waiting /\ arrived = First.total) => Gate
=============================================================================
