----------------------------- MODULE WireProofs -----------------------------
(***************************************************************************)
(* Proofs about Wire for every stream of frames, every way recv cuts it     *)
(* into pieces, and every size and byte sum of a reply.                     *)
(*                                                                         *)
(* What makes the two statements about the incoming side inductive is       *)
(* Aligned: the buffer begins with a frame, or a frame that is not good     *)
(* lies behind.                                                             *)
(***************************************************************************)
EXTENDS Wire, TLAPS

(* The buffer lies within the stream.                                       *)
Bounds ==
  /\ at \in {"recv", "parse", "closed"}
  /\ head \in Nat /\ tail \in Nat
  /\ head <= tail /\ tail <= Start[N + 1]
  /\ handled \in Seq(1..N)

Aligned ==
  \/ \E i \in 1..(N + 1) : Start[i] = head
  \/ \E j \in 1..N : ~IsGood(j) /\ Start[j] < head

(* Every frame of the good beginning of the stream that lies before the     *)
(* buffer has been handled.                                                 *)
PrefixHandled ==
  \A i \in 1..N : (Start[i + 1] <= head /\ \A j \in 1..i : IsGood(j))
                    => \E k \in DOMAIN handled : handled[k] = i

(* Whoever waits for bytes does not have the whole of a good frame.         *)
NoneWhole ==
  at = "recv" => \A i \in 1..N : (BeginsHere(i) /\ IsGood(i)) => Held < FrameLen(i)

Incoming == Bounds /\ Aligned /\ PrefixHandled /\ NoneWhole /\ HandledInOrder

(* Starts are natural numbers and increase.                                 *)
LEMMA Starts ==
  /\ N \in Nat
  /\ \A i \in 1..(N + 1) : Start[i] \in Nat
  /\ \A i, j \in 1..(N + 1) : i < j => Start[i] + 8 <= Start[j]
  /\ \A i \in 1..N : i \in 1..(N + 1) /\ i + 1 \in 1..(N + 1)
BY StartAssumption, HeadAssumption DEF N

LEMMA InitIncoming == Init => Incoming
<1> SUFFICES ASSUME Init PROVE Incoming
  OBVIOUS
<1>1. Bounds
  BY Starts DEF Init, Bounds
<1>2. Aligned
  <2>1. Start[1] = 0 /\ 1 \in 1..(N + 1)
    BY StartAssumption, Starts
  <2> QED BY <2>1 DEF Init, Aligned
<1>3. PrefixHandled
  <2>1. \A i \in 1..N : Start[i + 1] > 0
    <3> SUFFICES ASSUME NEW i \in 1..N PROVE Start[i + 1] > 0
      OBVIOUS
    <3> QED BY Starts
  <2> QED BY <2>1, Starts DEF Init, PrefixHandled
<1>4. NoneWhole
  <2> SUFFICES ASSUME NEW i \in 1..N PROVE 0 < FrameLen(i)
    BY DEF Init, NoneWhole, Held
  <2> QED BY Starts DEF FrameLen
<1>5. HandledInOrder
  BY DEF Init, HandledInOrder
<1> QED BY <1>1, <1>2, <1>3, <1>4, <1>5 DEF Incoming

(* Going on with the next byte that comes is safe once a bad frame lies     *)
(* behind, or begins the buffer.                                            *)
LEMMA ClearKeeps ==
  ASSUME Incoming, Clear, UNCHANGED <<tail, handled>>, Held >= 8,
         NEW b \in 1..N, ~IsGood(b), Start[b] <= head
  PROVE  Incoming'
<1> USE Starts
<1>1. /\ head \in Nat /\ tail \in Nat /\ head <= tail /\ head < tail
      /\ head' = tail /\ tail' = tail /\ handled' = handled /\ at' = "recv"
  BY DEF Incoming, Bounds, Clear, Held
<1>2. Bounds'
  BY <1>1 DEF Incoming, Bounds
<1>3. Aligned'
  <2>1. Start[b] < head'
    BY <1>1
  <2> QED BY <2>1 DEF Aligned, IsGood, FrameLen
<1>4. PrefixHandled'
  <2> SUFFICES ASSUME NEW i \in 1..N, \A j \in 1..i : IsGood(j)
               PROVE  \E k \in DOMAIN handled : handled[k] = i
    BY <1>1 DEF PrefixHandled, IsGood, FrameLen
  <2>1. i < b
    OBVIOUS
  <2>2. Start[i + 1] <= Start[b]
    BY <2>1
  <2>3. Start[i + 1] <= head
    BY <1>1, <2>2
  <2> QED BY <2>3 DEF Incoming, PrefixHandled
<1>5. NoneWhole'
  <2> SUFFICES ASSUME NEW i \in 1..N PROVE tail - tail < FrameLen(i)
    BY <1>1 DEF NoneWhole, Held, FrameLen, BeginsHere, IsGood
  <2> QED BY <1>1 DEF FrameLen
<1>6. HandledInOrder'
  <2>1. \A j \in DOMAIN handled : handled[j] \in 1..N
    BY DEF Incoming, Bounds
  <2>2. \A j \in DOMAIN handled : Start[handled[j] + 1] \in Nat
    BY <2>1
  <2> QED BY <1>1, <2>2 DEF Incoming, HandledInOrder, IsGood, FrameLen
<1> QED BY <1>2, <1>3, <1>4, <1>5, <1>6 DEF Incoming

(* A frame that is whole is cut off and handled.                            *)
LEMMA HandleKeeps ==
  ASSUME Incoming, NEW f \in 1..N, Handle(f)
  PROVE  Incoming'
<1> USE Starts
<1>1. /\ head \in Nat /\ tail \in Nat /\ head <= tail
      /\ Start[f] = head /\ IsGood(f) /\ Start[f + 1] <= tail
      /\ head' = Start[f + 1] /\ tail' = tail
      /\ handled \in Seq(1..N) /\ handled' = Append(handled, f)
      /\ at = "parse" /\ at' = "parse" /\ tail <= Start[N + 1]
  BY DEF Incoming, Bounds, Handle, Cut, Held, FrameLen, BeginsHere
<1>2. /\ handled' \in Seq(1..N)
      /\ Len(handled') = Len(handled) + 1
      /\ \A k \in 1..Len(handled) : handled'[k] = handled[k]
      /\ handled'[Len(handled) + 1] = f
      /\ DOMAIN handled = 1..Len(handled)
      /\ DOMAIN handled' = 1..(Len(handled) + 1)
      /\ Len(handled) \in Nat
  BY <1>1
<1>3. Bounds'
  <2>1. Start[f + 1] \in Nat
    OBVIOUS
  <2> QED BY <1>1, <1>2, <2>1 DEF Bounds
<1>4. Aligned'
  <2>1. f + 1 \in 1..(N + 1) /\ Start[f + 1] = head'
    BY <1>1
  <2> QED BY <2>1 DEF Aligned
<1>5. PrefixHandled'
  <2> SUFFICES ASSUME NEW i \in 1..N, Start[i + 1] <= head', \A j \in 1..i : IsGood(j)
               PROVE  \E k \in DOMAIN handled' : handled'[k] = i
    BY DEF PrefixHandled, IsGood, FrameLen
  <2>1. CASE i = f
    <3>1. Len(handled) + 1 \in DOMAIN handled'
      BY <1>2
    <3> QED BY <1>2, <2>1, <3>1
  <2>2. CASE i # f
    <3>1. i < f
      <4>1. ~(f < i)
        <5> SUFFICES ASSUME f < i PROVE FALSE
          OBVIOUS
        <5>1. f + 1 < i + 1 /\ f + 1 \in 1..(N + 1) /\ i + 1 \in 1..(N + 1)
          OBVIOUS
        <5>2. Start[f + 1] + 8 <= Start[i + 1] /\ Start[f + 1] \in Nat /\ Start[i + 1] \in Nat
          BY <5>1
        <5> QED BY <5>2, <1>1
      <4> QED BY <4>1, <2>2
    <3>2. Start[i + 1] <= Start[f]
      BY <3>1
    <3>3. Start[i + 1] <= head
      BY <3>2, <1>1
    <3>4. PICK k \in DOMAIN handled : handled[k] = i
      BY <3>3 DEF Incoming, PrefixHandled
    <3> QED BY <3>4, <1>2
  <2> QED BY <2>1, <2>2
<1>6. NoneWhole'
  BY <1>1 DEF NoneWhole
<1>7. HandledInOrder'
  <2>1. \A k \in 1..Len(handled) :
          /\ handled[k] \in 1..N /\ IsGood(handled[k]) /\ Start[handled[k] + 1] <= head
    <3> SUFFICES ASSUME NEW k \in 1..Len(handled)
                 PROVE  /\ handled[k] \in 1..N /\ IsGood(handled[k])
                        /\ Start[handled[k] + 1] <= head
      OBVIOUS
    <3>1. k \in DOMAIN handled
      BY <1>2
    <3>2. handled[k] \in 1..N
      BY <1>1, <3>1
    <3> QED BY <3>1, <3>2 DEF Incoming, HandledInOrder
  <2>2. \A k \in 1..Len(handled) : handled[k] < f /\ Start[handled[k] + 1] <= Start[f + 1]
    <3> SUFFICES ASSUME NEW k \in 1..Len(handled)
                 PROVE  handled[k] < f /\ Start[handled[k] + 1] <= Start[f + 1]
      OBVIOUS
    <3> DEFINE h == handled[k]
    <3>1. h \in 1..N /\ Start[h + 1] <= Start[f]
      BY <2>1, <1>1
    <3> HIDE DEF h
    <3>2. h < f
      <4> SUFFICES ASSUME ~(h < f) PROVE FALSE
        OBVIOUS
      <4>1. f < h + 1 /\ h + 1 \in 1..(N + 1) /\ f \in 1..(N + 1)
        BY <3>1
      <4>2. Start[f] + 8 <= Start[h + 1] /\ Start[f] \in Nat /\ Start[h + 1] \in Nat
        BY <4>1
      <4> QED BY <4>2, <3>1
    <3>3. Start[h + 1] <= Start[f + 1]
      <4>1. Start[f] + 8 <= Start[f + 1] /\ Start[f] \in Nat /\ Start[f + 1] \in Nat
        OBVIOUS
      <4>2. Start[h + 1] \in Nat
        BY <3>1
      <4> QED BY <4>1, <4>2, <3>1
    <3> QED BY <3>2, <3>3 DEF h
  <2>3. \A k \in DOMAIN handled' : IsGood(handled'[k]) /\ Start[handled'[k] + 1] <= head'
    <3> SUFFICES ASSUME NEW k \in 1..(Len(handled) + 1)
                 PROVE  IsGood(handled'[k]) /\ Start[handled'[k] + 1] <= head'
      BY <1>2
    <3>1. CASE k = Len(handled) + 1
      <4>1. Start[f + 1] \in Nat
        OBVIOUS
      <4> QED BY <3>1, <4>1, <1>1, <1>2
    <3>2. CASE k \in 1..Len(handled)
      BY <3>2, <1>1, <1>2, <2>1, <2>2
    <3> QED BY <3>1, <3>2, <1>2
  <2>4. \A k \in DOMAIN handled' : k > 1 => handled'[k - 1] < handled'[k]
    <3> SUFFICES ASSUME NEW k \in 1..(Len(handled) + 1), k > 1
                 PROVE  handled'[k - 1] < handled'[k]
      BY <1>2
    <3>a. k - 1 \in 1..Len(handled)
      BY <1>2
    <3>0. k - 1 \in 1..Len(handled) /\ handled'[k - 1] = handled[k - 1]
      BY <1>2, <3>a
    <3>1. CASE k = Len(handled) + 1
      BY <3>0, <3>1, <1>2, <2>2
    <3>2. CASE k \in 1..Len(handled)
      BY <3>0, <3>2, <1>2 DEF Incoming, HandledInOrder
    <3> QED BY <3>1, <3>2, <1>2
  <2> QED BY <2>3, <2>4 DEF HandledInOrder, IsGood, FrameLen
<1> QED BY <1>3, <1>4, <1>5, <1>6, <1>7 DEF Incoming

(* What neither moves the buffer's beginning nor handles a frame.           *)
LEMMA StillKeeps ==
  ASSUME Incoming, UNCHANGED <<head, handled>>, Bounds', NoneWhole'
  PROVE  Incoming'
<1>1. head' = head /\ handled' = handled
  OBVIOUS
<1>2. Aligned'
  BY <1>1 DEF Incoming, Aligned, IsGood, FrameLen
<1>3. PrefixHandled'
  BY <1>1 DEF Incoming, PrefixHandled, IsGood, FrameLen
<1>4. HandledInOrder'
  BY <1>1 DEF Incoming, HandledInOrder, IsGood, FrameLen
<1> QED BY <1>2, <1>3, <1>4 DEF Incoming

LEMMA NextIncoming == Incoming /\ [Next]_vars => Incoming'
<1> SUFFICES ASSUME Incoming, [Next]_vars PROVE Incoming'
  OBVIOUS
<1> USE Starts
<1>0. Bounds /\ NoneWhole /\ Aligned
  BY DEF Incoming
<1>1. ASSUME NEW n \in 1..ChunkMax, Receive(n) PROVE Incoming'
  <2>1. /\ head' = head /\ handled' = handled /\ at' = "parse"
        /\ tail' = tail + n /\ tail + n <= Start[N + 1] /\ n \in Nat
    BY <1>1, PieceAssumption DEF Receive
  <2>2. Bounds'
    BY <1>0, <2>1 DEF Bounds
  <2>3. NoneWhole'
    BY <2>1 DEF NoneWhole
  <2> QED BY <2>1, <2>2, <2>3, StillKeeps
<1>2. CASE Close
  <2>1. UNCHANGED <<head, tail, handled>> /\ at' = "closed"
    BY <1>2 DEF Close
  <2>2. Bounds' /\ NoneWhole'
    BY <1>0, <2>1 DEF Bounds, NoneWhole
  <2> QED BY <2>1, <2>2, StillKeeps
<1>3. CASE Starve
  <2>1. UNCHANGED <<head, tail, handled>> /\ at' = "recv" /\ Held < 8
    BY <1>3, HeadAssumption DEF Starve
  <2>2. Bounds'
    BY <1>0, <2>1 DEF Bounds
  <2>3. NoneWhole'
    <3> SUFFICES ASSUME NEW i \in 1..N PROVE Held < FrameLen(i)
      BY <2>1 DEF NoneWhole, Held, FrameLen, BeginsHere, IsGood
    <3>1. Start[i] + 8 <= Start[i + 1] /\ Start[i] \in Nat /\ Start[i + 1] \in Nat
      OBVIOUS
    <3>2. Held \in Int
      BY <1>0 DEF Held, Bounds
    <3> QED BY <2>1, <3>1, <3>2 DEF FrameLen
  <2> QED BY <2>1, <2>2, <2>3, StillKeeps
<1>4. CASE BadToken
  <2>1. /\ Clear /\ UNCHANGED <<tail, handled>> /\ Held >= 8
        /\ \A i \in 1..N : Start[i] = head => ~TokenOk[i]
    BY <1>4, HeadAssumption DEF BadToken, BeginsHere
  <2>2. \E b \in 1..N : ~IsGood(b) /\ Start[b] <= head
    <3>1. CASE \E i \in 1..(N + 1) : Start[i] = head
      <4>1. PICK i \in 1..(N + 1) : Start[i] = head
        BY <3>1
      <4>2. i # N + 1
        BY <4>1, <2>1, <1>0 DEF Held, Bounds
      <4>3. i \in 1..N
        BY <4>2
      <4>4. ~TokenOk[i]
        BY <4>1, <4>3, <2>1
      <4> QED BY <4>1, <4>3, <4>4 DEF IsGood
    <3>2. CASE \E j \in 1..N : ~IsGood(j) /\ Start[j] < head
      BY <3>2, <1>0 DEF Bounds
    <3> QED BY <3>1, <3>2, <1>0 DEF Aligned
  <2>3. PICK b \in 1..N : ~IsGood(b) /\ Start[b] <= head
    BY <2>2
  <2> QED BY <2>1, <2>3, ClearKeeps
<1>5. ASSUME NEW i \in 1..N, BadLength(i) PROVE Incoming'
  <2>1. /\ Clear /\ UNCHANGED <<tail, handled>> /\ Held >= 8
        /\ ~IsGood(i) /\ Start[i] = head
    BY <1>5, HeadAssumption DEF BadLength, BeginsHere
  <2>2. Start[i] <= head
    BY <2>1
  <2> QED BY <2>1, <2>2, ClearKeeps
<1>6. ASSUME NEW i \in 1..N, Partial(i) PROVE Incoming'
  <2>1. /\ UNCHANGED <<head, tail, handled>> /\ at' = "recv"
        /\ Start[i] = head /\ Held < FrameLen(i)
    BY <1>6 DEF Partial, BeginsHere
  <2>2. Bounds'
    BY <1>0, <2>1 DEF Bounds
  <2>3. NoneWhole'
    <3> SUFFICES ASSUME NEW j \in 1..N, Start[j] = head PROVE Held < FrameLen(j)
      BY <2>1 DEF NoneWhole, Held, FrameLen, BeginsHere, IsGood
    <3>1. j = i
      <4>1. ~(i < j) /\ ~(j < i)
        BY <2>1
      <4> QED BY <4>1
    <3> QED BY <3>1, <2>1
  <2> QED BY <2>1, <2>2, <2>3, StillKeeps
<1>7. ASSUME NEW i \in 1..N, Handle(i) PROVE Incoming'
  BY <1>7, HandleKeeps
<1>8. CASE (\E n \in Pieces : Arrive(n)) \/ Take \/ UNCHANGED vars
  <2>1. UNCHANGED <<at, head, tail, handled>>
    BY <1>8 DEF Arrive, Take, vars
  <2>2. Bounds' /\ NoneWhole'
    BY <1>0, <2>1 DEF Bounds, NoneWhole, Held, FrameLen, BeginsHere, IsGood
  <2> QED BY <2>1, <2>2, StillKeeps
<1> QED BY <1>1, <1>2, <1>3, <1>4, <1>5, <1>6, <1>7, <1>8 DEF Next

LEMMA IncomingAlways == Spec => []Incoming
<1> QED BY InitIncoming, NextIncoming, PTL DEF Spec

(* Frames are handled in order, each at most once, and only good ones.      *)
THEOREM InOrderTheorem == Spec => []HandledInOrder
<1>1. Incoming => HandledInOrder
  BY DEF Incoming
<1> QED BY <1>1, IncomingAlways, PTL

(* A server that waits for bytes has handled every frame that has arrived,  *)
(* up to the first one that is not good.                                    *)
THEOREM NothingLeftTheorem == Spec => []NothingLeftBehind
<1>1. Incoming => NothingLeftBehind
  <2> USE Starts
  <2> SUFFICES ASSUME Incoming, at = "recv", NEW i \in 1..N, Start[i + 1] <= tail,
                      \A j \in 1..i : IsGood(j)
               PROVE  \E k \in DOMAIN handled : handled[k] = i
    BY DEF NothingLeftBehind
  <2>1. Start[i + 1] \in Nat /\ head \in Nat /\ tail \in Nat
    BY DEF Incoming, Bounds
  <2>2. CASE Start[i + 1] <= head
    BY <2>2 DEF Incoming, PrefixHandled
  <2>3. CASE head < Start[i + 1]
    <3>1. CASE \E b \in 1..N : ~IsGood(b) /\ Start[b] < head
      <4>1. PICK b \in 1..N : ~IsGood(b) /\ Start[b] < head
        BY <3>1
      <4>2. ~(b < i + 1)
        BY <4>1
      <4>3. b = i + 1 \/ i + 1 < b
        BY <4>2
      <4>4. Start[i + 1] <= Start[b]
        BY <4>3
      <4> QED BY <4>1, <4>4, <2>1, <2>3
    <3>2. CASE \E k \in 1..(N + 1) : Start[k] = head
      <4>1. PICK k \in 1..(N + 1) : Start[k] = head
        BY <3>2
      <4>2. k < i + 1
        BY <4>1, <2>1, <2>3
      <4>3. k \in 1..N /\ k \in 1..i
        BY <4>2
      <4>4. tail - head < Start[k + 1] - Start[k]
        BY <4>1, <4>3 DEF Incoming, NoneWhole, BeginsHere, Held, FrameLen
      <4>5. Start[k + 1] <= Start[i + 1]
        <5>1. k + 1 = i + 1 \/ k + 1 < i + 1
          BY <4>2
        <5> QED BY <5>1
      <4>6. Start[k] \in Nat /\ Start[k + 1] \in Nat
        BY <4>3
      <4> QED BY <4>1, <4>4, <4>5, <4>6, <2>1
    <3> QED BY <3>1, <3>2 DEF Incoming, Aligned
  <2> QED BY <2>1, <2>2, <2>3
<1> QED BY <1>1, IncomingAlways, PTL

-----------------------------------------------------------------------------
(* A packed frame is a positive multiple of 65536 bytes; a checksum is less *)
(* than that.                                                               *)
LEMMA PackedTotal ==
  ASSUME NEW n \in Nat
  PROVE  /\ PackTotal(n) \in Nat /\ PackTotal(n) >= 65536 /\ PackTotal(n) % 65536 = 0
         /\ PackTotal(n) >= 14 + n
BY DEF PackTotal, PadUnit

LEMMA ChecksumSmall ==
  ASSUME NEW s \in Nat
  PROVE  Checksum(s) \in Int /\ Checksum(s) < 65536
BY DEF Checksum

LEMMA MemberOfSeq ==
  ASSUME NEW S, NEW q \in Seq(S), NEW k \in DOMAIN q
  PROVE  q[k] \in S
OBVIOUS

Outgoing ==
  /\ replies \in Seq([total : Nat, sum : Nat])
  /\ \A k \in DOMAIN replies : replies[k].total >= 65536 /\ replies[k].total % 65536 = 0

LEMMA OutgoingAlways == Spec => []Outgoing
<1>1. Init => Outgoing
  BY DEF Init, Outgoing
<1>2. Outgoing /\ [Next]_vars => Outgoing'
  <2> SUFFICES ASSUME Outgoing, [Next]_vars PROVE Outgoing'
    OBVIOUS
  <2>1. CASE replies' = replies
    BY <2>1 DEF Outgoing
  <2>2. ASSUME NEW n \in Bodies, NEW s \in Sums,
               replies' = Append(replies, [total |-> PackTotal(n), sum |-> s])
        PROVE  Outgoing'
    <3> DEFINE r == [total |-> PackTotal(n), sum |-> s]
    <3>1. n \in Nat /\ s \in Nat
      BY BodyAssumption
    <3>2. r \in [total : Nat, sum : Nat] /\ r.total >= 65536 /\ r.total % 65536 = 0
      BY <3>1, PackedTotal
    <3> HIDE DEF r
    <3>3. replies' = Append(replies, r)
      BY <2>2 DEF r
    <3>4. replies' \in Seq([total : Nat, sum : Nat])
      BY <3>2, <3>3 DEF Outgoing
    <3>5. \A k \in DOMAIN replies' : replies'[k] = r \/ (k \in DOMAIN replies /\ replies'[k] = replies[k])
      BY <3>3 DEF Outgoing
    <3>6. \A k \in DOMAIN replies' :
            replies'[k].total >= 65536 /\ replies'[k].total % 65536 = 0
      <4> SUFFICES ASSUME NEW k \in DOMAIN replies'
                   PROVE  replies'[k].total >= 65536 /\ replies'[k].total % 65536 = 0
        OBVIOUS
      <4>1. CASE replies'[k] = r
        BY <4>1, <3>2
      <4>2. CASE k \in DOMAIN replies /\ replies'[k] = replies[k]
        BY <4>2 DEF Outgoing
      <4> QED BY <4>1, <4>2, <3>5
    <3> QED BY <3>4, <3>6 DEF Outgoing
  <2>3. CASE Take
    <3>1. replies # <<>> /\ replies' = Tail(replies)
      BY <2>3 DEF Take, Waiting
    <3>2. replies' \in Seq([total : Nat, sum : Nat])
      BY <3>1 DEF Outgoing
    <3>3. \A k \in DOMAIN replies' : k + 1 \in DOMAIN replies /\ replies'[k] = replies[k + 1]
      BY <3>1 DEF Outgoing
    <3> QED BY <3>2, <3>3 DEF Outgoing
  <2> QED BY <2>1, <2>2, <2>3
        DEF Next, vars, Receive, Close, Starve, BadToken, BadLength, Partial, Handle,
            Arrive, FromServer
<1> QED BY <1>1, <1>2, PTL DEF Spec

(* The padding works: every reply that has arrived passes the client's      *)
(* gate, whatever it holds.                                                 *)
THEOREM PadTheorem == Spec => []RepliesPassGate
<1>1. Outgoing => RepliesPassGate
  <2> SUFFICES ASSUME Outgoing, replies # <<>>, arrived = First.total
               PROVE  BogusLength(First) <= arrived
    BY DEF RepliesPassGate, Waiting, Gate
  <2>1. First = replies[1] /\ 1 \in DOMAIN replies
    BY DEF Outgoing, First
  <2>2. First.sum \in Nat /\ First.total \in Nat
    <3>1. replies[1] \in [total : Nat, sum : Nat]
      <4> DEFINE R == [total : Nat, sum : Nat]
      <4>1. replies \in Seq(R)
        BY DEF Outgoing
      <4> HIDE DEF R
      <4>2. replies[1] \in R
        BY <2>1, <4>1, MemberOfSeq
      <4> QED BY <4>2 DEF R
    <3> DEFINE r == replies[1]
    <3>2. r.sum \in Nat /\ r.total \in Nat
      <4> HIDE DEF r
      <4>1. r \in [total : Nat, sum : Nat]
        BY <3>1 DEF r
      <4> QED BY <4>1
    <3> QED BY <2>1, <3>2
  <2>3. First.total >= 65536 /\ First.total % 65536 = 0
    BY <2>1 DEF Outgoing
  <2>4. Checksum(First.sum) \in Int /\ Checksum(First.sum) < 65536
    BY <2>2, ChecksumSmall
  <2>5. BogusLength(First) = Checksum(First.sum)
    BY <2>3, <2>4 DEF BogusLength
  <2> QED BY <2>2, <2>3, <2>4, <2>5
<1> QED BY <1>1, OutgoingAlways, PTL

-----------------------------------------------------------------------------
Sending == replies \in Seq(Reply) /\ arrived \in Nat

(* Type correctness: the buffer stays within what has arrived, and no frame  *)
(* number, reply size or count of bytes is anything but what it should be.   *)
THEOREM TypeTheorem == Spec => []TypeOK
<1>1. Init => Sending
  BY DEF Init, Sending
<1>2. Sending /\ [Next]_vars => Sending'
  <2> SUFFICES ASSUME Sending, [Next]_vars PROVE Sending'
    OBVIOUS
  <2>1. CASE UNCHANGED <<replies, arrived>>
    BY <2>1 DEF Sending
  <2>2. ASSUME NEW n \in Bodies, NEW s \in Sums, UNCHANGED arrived,
               replies' = Append(replies, [total |-> PackTotal(n), sum |-> s])
        PROVE  Sending'
    <3> DEFINE r == [total |-> PackTotal(n), sum |-> s]
    <3>1. n \in Nat
      BY BodyAssumption
    <3>2. r \in Reply
      BY <3>1, PackedTotal DEF Reply
    <3> HIDE DEF r
    <3>3. replies' = Append(replies, r)
      BY <2>2 DEF r
    <3> QED BY <2>2, <3>2, <3>3 DEF Sending
  <2>3. ASSUME NEW n \in Pieces, Arrive(n) PROVE Sending'
    <3>1. First \in Reply
      BY <2>3 DEF Arrive, Waiting, First, Sending
    <3>2. First.total \in Nat /\ n \in Nat
      BY <3>1, PieceAssumption DEF Reply
    <3> QED BY <2>3, <3>2 DEF Arrive, Sending
  <2>4. CASE Take
    BY <2>4 DEF Take, Waiting, Sending
  <2> QED BY <2>1, <2>2, <2>3, <2>4
        DEF Next, vars, Receive, Close, Starve, BadToken, BadLength, Partial, Handle,
            FromServer
<1>3. Incoming /\ Sending => TypeOK
  BY DEF Incoming, Bounds, Sending, TypeOK
<1> QED BY <1>1, <1>2, <1>3, IncomingAlways, PTL DEF Spec
=============================================================================
