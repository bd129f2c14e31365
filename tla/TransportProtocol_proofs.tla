---------------------- MODULE TransportProtocol_proofs ----------------------
(* Theorems about TransportProtocol, for every value of its constants *)
EXTENDS TransportProtocol, SequenceTheorems, TLAPS

USE DEF Byte, MAX_PACKETS

-----------------------------------------------------------------------------
(* Sizes in bytes and in packets *)

\* The number of packets of a size is a byte, whatever the size.
LEMMA SizeType ==
  ASSUME NEW size \in Word
  PROVE  /\ Slots(size) \in Nat /\ Slots(size) % 256 = PacketCount(size)
         /\ PacketCount(size) \in Byte
<1>1. size \in Nat
  BY SMT DEF Word
<1>2. (size + 6) \div 7 \in Nat
  BY <1>1, SMT
<1>3. Slots(size) \in Nat
  BY <1>2 DEF Slots
<1> QED
  BY <1>3 DEF PacketCount

\* What the application sends has 2 to 255 packets, none of them uncounted.
LEMMA PacketsType ==
  ASSUME NEW m \in Message
  PROVE  /\ Packets(m) \in 2 .. 255 /\ Header[m].size \in Word
         /\ Slots(Header[m].size) = Packets(m)
<1>1. Header[m] \in HeaderType
  BY NodeAssumption
<1>2. PICK size \in 9 .. 1785 : size = Header[m].size
  BY <1>1 DEF HeaderType, CAN_DATA_LENGTH, MAX_PROTOCOL_DATA_LENGTH
<1>3. (size + 6) \div 7 \in 2 .. 255 /\ size \in Word
  BY SMT DEF Word
<1>4. Slots(size) \in 2 .. 255
  BY <1>3 DEF Slots
<1>5. PacketCount(size) = Slots(size)
  BY <1>4 DEF PacketCount
<1> QED
  BY <1>2, <1>3, <1>4, <1>5 DEF Packets

\* A length and what is left of it in a byte.
LEMMA LengthByte ==
  ASSUME NEW l \in Nat
  PROVE  l % 256 \in Byte /\ l % 256 <= l /\ (l <= 255 => l % 256 = l)
OBVIOUS

-----------------------------------------------------------------------------
(* The values the actions store *)

\* The least of two integers is one of them and above neither.
LEMMA LeastType ==
  ASSUME NEW x \in Int, NEW y \in Int
  PROVE  Least(x, y) \in {x, y} /\ Least(x, y) <= x /\ Least(x, y) <= y
BY DEF Least

LEMMA LeastByte ==
  ASSUME NEW x \in Byte, NEW y \in Byte
  PROVE  Least(x, y) \in Byte
BY DEF Least

\* The uint8_t arithmetic of the counters gives a byte.
LEMMA ByteType ==
  ASSUME NEW x \in Byte, NEW y \in Byte, NEW z \in Byte
  PROVE  /\ (x - y) % 256 \in Byte
         /\ (x - (y - z)) % 256 \in Byte
         /\ (x + y) % 256 \in Byte
OBVIOUS

LEMMA ByteSum ==
  ASSUME NEW x \in Byte, NEW c \in Int
  PROVE  (x + c) % 256 \in Byte /\ (x + c - 1) % 256 \in Byte
OBVIOUS

LEMMA ByteBefore ==
  ASSUME NEW x \in Byte
  PROVE  (x - 1) % 256 \in Byte
OBVIOUS

\* The uint8_t counters that are computed stay in their width.
LEMMA CounterType ==
  ASSUME NEW s \in Session
  PROVE  /\ Remaining(s) \in Byte
         /\ CtsRemaining(s) \in Byte
         /\ Segment(s) \in Byte
         /\ (s.last + 1) % 256 \in Byte
<1>1. s.total \in 0 .. 255 /\ s.last \in 0 .. 255 /\ s.ack \in 0 .. 255
      /\ s.cts \in 0 .. 255 /\ s.max \in 0 .. 255
  BY DEF Session, SessionRecord
<1>2. Remaining(s) \in Byte
  BY <1>1, ByteType DEF Remaining
<1>3. CtsRemaining(s) \in Byte
  BY <1>1, ByteType DEF CtsRemaining
<1>4. Segment(s) \in Byte
  BY <1>1, <1>2 DEF Segment
<1>5. (s.last + 1) % 256 \in Byte
  BY <1>1
<1> QED
  BY <1>2, <1>3, <1>4, <1>5

\* Sessions keep their type when a state, a counter or the age is set.
LEMMA StateType ==
  ASSUME NEW s \in Session, NEW state \in TxState \cup RxState
  PROVE  InState(s, state) \in Session
<1> DEFINE t == InState(s, state)
<1>0. Len(s.data) % 256 = s.total
  BY DEF Session
<1>1. s \in SessionRecord
  BY DEF Session
<1>2. 0 \in 0 .. T2T3 + 1
  BY ConfigurationAssumption
<1>3. t \in SessionRecord
  BY <1>1, <1>2 DEF InState, SessionRecord
<1>4. t.data = s.data /\ t.total = s.total
  BY <1>1 DEF InState, SessionRecord
<1> QED
  BY <1>0, <1>3, <1>4 DEF Session

LEMMA ClearedType ==
  ASSUME NEW s \in Session
  PROVE  Cleared(s) \in Session
<1> DEFINE t == Cleared(s)
<1>0. Len(s.data) % 256 = s.total
  BY DEF Session
<1>1. s \in SessionRecord
  BY DEF Session
<1>2. 0 \in 0 .. T2T3 + 1
  BY ConfigurationAssumption
<1>3. t \in SessionRecord
  <2>1. Segment(s) \in Byte
    BY CounterType
  <2> QED
    BY <1>1, <1>2, <2>1 DEF Cleared, SessionRecord
<1>4. t.data = s.data /\ t.total = s.total
  BY <1>1 DEF Cleared, SessionRecord
<1> QED
  BY <1>0, <1>3, <1>4 DEF Session

LEMMA GrantType ==
  ASSUME NEW s \in Session, NEW b \in Byte, NEW d \in Byte
  PROVE  [s EXCEPT !.ack = b, !.cts = d, !.age = 0] \in Session
<1> DEFINE t == [s EXCEPT !.ack = b, !.cts = d, !.age = 0]
<1>0. Len(s.data) % 256 = s.total
  BY DEF Session
<1>1. s \in SessionRecord
  BY DEF Session
<1>2. 0 \in 0 .. T2T3 + 1
  BY ConfigurationAssumption
<1>3. t \in SessionRecord
  BY <1>1, <1>2 DEF SessionRecord
<1>4. t.data = s.data /\ t.total = s.total
  BY <1>1 DEF SessionRecord
<1> QED
  BY <1>0, <1>3, <1>4 DEF Session

LEMMA LastType ==
  ASSUME NEW s \in Session, NEW b \in Byte
  PROVE  [s EXCEPT !.last = b, !.age = 0] \in Session
<1> DEFINE t == [s EXCEPT !.last = b, !.age = 0]
<1>0. Len(s.data) % 256 = s.total
  BY DEF Session
<1>1. s \in SessionRecord
  BY DEF Session
<1>2. 0 \in 0 .. T2T3 + 1
  BY ConfigurationAssumption
<1>3. t \in SessionRecord
  BY <1>1, <1>2 DEF SessionRecord
<1>4. t.data = s.data /\ t.total = s.total
  BY <1>1 DEF SessionRecord
<1> QED
  BY <1>0, <1>3, <1>4 DEF Session

\* A new session has the type of its contents.
LEMMA NewSessionType ==
  ASSUME NEW m \in Message \cup {NoMessage}, NEW pgn \in PGN, NEW total \in Byte,
         NEW limit \in Byte, NEW data \in Seq(Payload \cup {Blank}), Len(data) % 256 = total,
         NEW state \in TxState \cup RxState
  PROVE  NewSession(m, pgn, total, limit, data, state) \in Session
<1>1. 0 \in 0 .. T2T3 + 1
  BY ConfigurationAssumption
<1> QED
  BY <1>1 DEF NewSession, Session, SessionRecord

-----------------------------------------------------------------------------
(* The type of the sessions and of the transmit paths *)

\* Storing a session that fits its node and pair keeps the type.
LEMMA StoreType ==
  ASSUME SessionsOK(sess), NEW n \in Node, NEW k \in Key, NEW s \in SessionOf(n, k)
  PROVE  SessionsOK(Store(n, k, s))
<1>1. s \in Session
  BY DEF SessionOf
<1>2. Store(n, k, s) \in [Node -> [Key -> Session \cup {NoSession}]]
  BY <1>1 DEF SessionsOK, Store
<1>3. ASSUME NEW p \in Node, NEW q \in Key, Store(n, k, s)[p][q] # NoSession
      PROVE  Store(n, k, s)[p][q] \in SessionOf(p, q)
  <2>1. CASE p = n /\ q = k
    BY <2>1 DEF SessionsOK, Store
  <2>2. CASE ~(p = n /\ q = k)
    <3>1. Store(n, k, s)[p][q] = sess[p][q]
      BY <2>2 DEF SessionsOK, Store
    <3> QED
      BY <1>3, <3>1 DEF SessionsOK
  <2> QED
    BY <2>1, <2>2
<1> QED
  BY <1>2, <1>3 DEF SessionsOK

\* Closing sessions keeps the type.
LEMMA CloseType ==
  ASSUME SessionsOK(sess), NEW n \in Node, NEW K
  PROVE  SessionsOK(Close(n, K))
<1>1. Close(n, K) \in [Node -> [Key -> Session \cup {NoSession}]]
  BY DEF SessionsOK, Close
<1>2. ASSUME NEW p \in Node, NEW q \in Key, Close(n, K)[p][q] # NoSession
      PROVE  Close(n, K)[p][q] \in SessionOf(p, q)
  <2>1. Close(n, K)[p][q] = sess[p][q]
    BY <1>2 DEF SessionsOK, Close
  <2> QED
    BY <1>2, <2>1 DEF SessionsOK
<1> QED
  BY <1>1, <1>2 DEF SessionsOK

\* A report is a legal outcome.
LEMMA ReportType ==
  ASSUME OutcomesOK(outcome), NEW n, NEW k, NEW result \in {"success", "failure"}
  PROVE  OutcomesOK(Report(n, k, result))
BY DEF OutcomesOK, Report

\* A function on an initial, possibly empty, segment is a sequence.
LEMMA FunctionIsSequence ==
  ASSUME NEW S, NEW count \in Int, NEW g \in [1 .. count -> S]
  PROVE  g \in Seq(S)
<1>1. PICK c \in Nat : 1 .. count = 1 .. c
  <2>1. CASE count >= 0
    BY <2>1
  <2>2. CASE count < 0
    BY <2>2, 1 .. count = 1 .. 0
  <2> QED
    BY <2>1, <2>2
<1> QED
  BY <1>1, SeqDef

\* An entry of node n's transmit path leaves nobody to itself.
LEMMA EntryType ==
  ASSUME NEW n \in Node, NEW f \in FrameOf(n)
  PROVE  Entry(f) \in EntryOf(n)
<1>1. f.src = n /\ f.dst # n /\ f.dst \in Node \cup {Global}
  BY DEF FrameOf, FrameType, Destination
<1>2. Receivers(f) \in SUBSET (Node \ {n})
  BY <1>1 DEF Receivers
<1> QED
  BY <1>2 DEF Entry, EntryOf

\* Offering frames to the driver keeps the type, whatever fits.
LEMMA OfferType ==
  ASSUME PathsOK(tx), NEW n \in Node, NEW frames \in Seq(FrameOf(n))
  PROVE  Offer(n, frames) \in Seq(EntryOf(n))
<1>1. Len(frames) \in Nat /\ Len(tx[n]) \in Nat /\ TxCapacity \in Nat
  BY ConfigurationAssumption DEF PathsOK
<1>2. Room(n) \in Int
  BY <1>1 DEF Room
<1> DEFINE count == Least(Len(frames), Room(n))
           added == [i \in 1 .. count |-> Entry(frames[i])]
<1>3. count \in Int /\ count <= Len(frames)
  BY <1>1, <1>2, LeastType
<1>4. ASSUME NEW i \in 1 .. count
      PROVE  added[i] \in EntryOf(n)
  <2>1. i \in 1 .. Len(frames)
    BY <1>1, <1>3
  <2>2. frames[i] \in FrameOf(n)
    BY <2>1
  <2> QED
    BY <2>2, EntryType
<1>5. added \in [1 .. count -> EntryOf(n)]
  BY <1>4
<1> HIDE DEF added, count
<1>7. added \in Seq(EntryOf(n))
  BY <1>3, <1>5, FunctionIsSequence
<1> QED
  BY <1>7 DEF Offer, PathsOK, added, count

\* The frame at the head of a transmit path, and the path when it is processed.
LEMMA HeadType ==
  ASSUME PathsOK(tx), NEW n \in Node, NEW a \in Node, Arrives(n, a)
  PROVE  /\ Head(tx[a]).frame \in FrameOf(a)
         /\ Head(tx[a]).frame.src = a
         /\ n # a
         /\ Processed(a, n) \in Seq(EntryOf(a))
<1>1. tx[a] \in Seq(EntryOf(a)) /\ tx[a] # <<>>
  BY DEF PathsOK, Arrives
<1>2. Head(tx[a]) \in EntryOf(a) /\ Tail(tx[a]) \in Seq(EntryOf(a))
  BY <1>1
<1>3. Head(tx[a]).frame \in FrameOf(a) /\ n # a
  BY <1>2 DEF EntryOf, Arrives
<1>4. [Head(tx[a]) EXCEPT !.to = @ \ {n}] \in EntryOf(a)
  BY <1>2 DEF EntryOf
<1>5. Processed(a, n) \in Seq(EntryOf(a))
  BY <1>2, <1>4 DEF Processed
<1> QED
  BY <1>3, <1>5 DEF FrameOf

\* Answering a frame keeps the type of the transmit paths.
LEMMA AnswerType ==
  ASSUME PathsOK(tx), NEW n \in Node, NEW a \in Node, Arrives(n, a),
         NEW frames \in Seq(FrameOf(n)), Answer(n, Head(tx[a]).frame, frames)
  PROVE  PathsOK(tx')
<1>1. n # a /\ Processed(a, n) \in Seq(EntryOf(a)) /\ Offer(n, frames) \in Seq(EntryOf(n))
  BY HeadType, OfferType
<1>2. tx' = [tx EXCEPT ![a] = Processed(a, n), ![n] = Offer(n, frames)]
  BY HeadType DEF Answer
<1> QED
  BY <1>1, <1>2 DEF PathsOK

\* Sending frames keeps the type of the transmit paths.
LEMMA SendType ==
  ASSUME PathsOK(tx), NEW n \in Node, NEW frames \in Seq(FrameOf(n)),
         tx' = [tx EXCEPT ![n] = Offer(n, frames)]
  PROVE  PathsOK(tx')
<1>1. Offer(n, frames) \in Seq(EntryOf(n))
  BY OfferType
<1> QED
  BY <1>1 DEF PathsOK

-----------------------------------------------------------------------------
(* The frames the handlers build and read *)

\* A key is a pair of its two members.
LEMMA KeyType ==
  ASSUME NEW k \in Key
  PROVE  k[1] \in Node /\ k[2] \in Node \cup {Global} /\ k = <<k[1], k[2]>>
BY DEF Key, Destination

\* What a session that fits its node and pair says of both.
LEMMA SessionFacts ==
  ASSUME NEW n \in Node, NEW k \in Key, NEW s \in SessionOf(n, k)
  PROVE  /\ n \in Stack /\ s \in Session /\ k[1] # k[2] /\ (k[1] # n => k[2] \in {n, Global})
         /\ s.pgn \in PGN /\ s.total \in Byte /\ s.last \in Byte /\ s.cts \in Byte
         /\ s.max \in Byte /\ s.data \in Seq(Payload \cup {Blank})
         /\ s.state \in TxState => k[1] = n
         /\ s.state \in RxState => k[1] # n
         /\ k[1] = n => /\ s.state \in TxState /\ s.msg \in Message
                        /\ s.data \in Seq(Payload) /\ Len(s.data) = s.total
<1>1. s \in Session /\ n \in Stack
  BY DEF SessionOf
<1>2. /\ s.pgn \in PGN /\ s.total \in Byte /\ s.last \in Byte /\ s.cts \in Byte
      /\ s.max \in Byte /\ s.data \in Seq(Payload \cup {Blank})
  BY <1>1 DEF Session, SessionRecord
<1>3. k[1] # k[2]
  <2>1. CASE k[1] = n
    BY <2>1, NodeAssumption DEF SessionOf
  <2>2. CASE k[1] # n
    BY <2>2, KeyType, NodeAssumption DEF SessionOf
  <2> QED
    BY <2>1, <2>2
<1>4. TxState \cap RxState = {}
  BY DEF TxState, RxState
<1> QED
  BY <1>1, <1>2, <1>3, <1>4 DEF SessionOf

\* The count of a session goes with its buffer.
LEMMA SessionLength ==
  ASSUME NEW n \in Node, NEW k \in Key, NEW s \in SessionOf(n, k)
  PROVE  Len(s.data) \in Nat /\ Len(s.data) % 256 = s.total
BY DEF SessionOf, Session, SessionRecord

\* The frames a node sends for one of its sessions are frames of its own.
LEMMA SessionFrames ==
  ASSUME NEW n \in Node, NEW k \in Key, NEW s \in SessionOf(n, k), NEW count \in Byte
  PROVE  /\ k[1] = n => /\ AnnounceFrame(k, s) \in FrameOf(n)
                        /\ RequestFrame(k, s) \in FrameOf(n)
                        /\ OpenFrame(k, s) \in FrameOf(n)
                        /\ DataFrame(k, s, count) \in FrameOf(n)
         /\ k[2] = n => /\ ClearFrame(k, s, count) \in FrameOf(n)
                        /\ AckFrame(k, s) \in FrameOf(n)
         /\ PartnerAbort(n, k, s) \in Seq(FrameOf(n))
<1>1. k[1] \in Node /\ k[2] \in Node \cup {Global} /\ k[1] # k[2] /\ Global \notin Node
  BY KeyType, SessionFacts, NodeAssumption
<1>2. s.pgn \in PGN /\ s.total \in Byte /\ s.max \in Byte /\ s.last \in Byte
  BY SessionFacts
<1>3. (s.last + 1) % 256 \in Byte /\ (count + 1) % 256 \in Byte
  BY <1>2
<1>4. ASSUME k[1] = n
      PROVE  /\ AnnounceFrame(k, s) \in FrameOf(n) /\ RequestFrame(k, s) \in FrameOf(n)
             /\ OpenFrame(k, s) \in FrameOf(n)
  <2>0. Header[s.msg].size \in Word
    BY <1>4, SessionFacts, PacketsType
  <2>1. AnnounceFrame(k, s) \in FrameOf(n)
    BY <1>1, <1>2, <1>4, <2>0 DEF AnnounceFrame, FrameOf, FrameType, Destination
  <2>2. RequestFrame(k, s) \in FrameOf(n)
    BY <1>1, <1>2, <1>4, <2>0 DEF RequestFrame, FrameOf, FrameType, Destination
  <2> QED
    BY <2>1, <2>2 DEF OpenFrame
<1>5. ASSUME k[1] = n
      PROVE  DataFrame(k, s, count) \in FrameOf(n)
  <2>1. s.data \in Seq(Payload) /\ Len(s.data) = s.total
    BY <1>5, SessionFacts
  <2>2. count < s.total => count + 1 \in 1 .. Len(s.data)
    BY <1>2, <2>1
  <2>3. (IF count < s.total THEN s.data[count + 1] ELSE Padding) \in Payload
    BY <2>1, <2>2 DEF Payload
  <2> QED
    BY <1>1, <1>3, <1>5, <2>3 DEF DataFrame, FrameOf, FrameType, Destination
<1>6. ASSUME k[2] = n
      PROVE  ClearFrame(k, s, count) \in FrameOf(n) /\ AckFrame(k, s) \in FrameOf(n)
  BY <1>1, <1>2, <1>3, <1>6
     DEF ClearFrame, AckFrame, Frame, FrameOf, FrameType, Destination
<1>7. PartnerAbort(n, k, s) \in Seq(FrameOf(n))
  <2>1. CASE IsBroadcast(k)
    BY <2>1 DEF PartnerAbort
  <2>2. CASE ~IsBroadcast(k)
    <3> DEFINE d == IF k[1] = n THEN k[2] ELSE k[1]
    <3>1. d \in Node /\ d # n
      BY <1>1, <2>2, SessionFacts DEF IsBroadcast
    <3>2. AbortFrame(n, d, s.pgn) \in FrameOf(n)
      BY <1>2, <3>1 DEF AbortFrame, Frame, FrameOf, FrameType, Destination
    <3> QED
      BY <2>2, <3>2 DEF PartnerAbort
  <2> QED
    BY <2>1, <2>2
<1> QED
  BY <1>4, <1>5, <1>6, <1>7

\* A node may abort towards any other node.
LEMMA AbortType ==
  ASSUME NEW n \in Node, NEW dst \in Node, n # dst, NEW pgn \in PGN
  PROVE  AbortFrame(n, dst, pgn) \in FrameOf(n)
BY DEF AbortFrame, Frame, FrameOf, FrameType, Destination

\* The fields of the frames a handler reads.
LEMMA FrameFields ==
  ASSUME NEW a \in Node, NEW f \in FrameOf(a)
  PROVE  /\ f.src = a /\ f.dst # a /\ f.dst \in Destination
         /\ f.type # "DT" /\ f.type # "Other" => f.pgn \in PGN
         /\ f.type \in {"BAM", "RTS"} => f.size \in Word /\ f.packets \in Byte
         /\ f.type = "RTS" => f.max \in Byte
         /\ f.type = "CTS" => f.count \in Byte /\ f.next \in Byte
         /\ f.type = "DT" => f.seq \in Byte /\ f.data \in Payload
BY DEF FrameOf, FrameType, Destination

\* A session that keeps its message, its buffer and its direction fits.
LEMMA KeepsPair ==
  ASSUME NEW n \in Node, NEW k \in Key, NEW s \in SessionOf(n, k), NEW t \in Session,
         t.msg = s.msg,
         k[1] = n => t.state \in TxState /\ t.data = s.data,
         k[1] # n => t.state \in RxState /\ (t.state = "SendClearToSend" => k[2] = n)
  PROVE  t \in SessionOf(n, k)
BY DEF SessionOf, Session

\* The updates the actions make to a session keep it fitting.
LEMMA SessionUpdates ==
  ASSUME NEW n \in Node, NEW k \in Key, NEW s \in SessionOf(n, k)
  PROVE  /\ \A state \in TxState : k[1] = n => InState(s, state) \in SessionOf(n, k)
         /\ k[1] # n => InState(s, "WaitForDataTransferPacket") \in SessionOf(n, k)
         /\ Cleared(s) \in SessionOf(n, k)
<1>1. s \in Session /\ s \in SessionRecord /\ Len(s.data) % 256 = s.total
  BY DEF SessionOf, Session
<1>2. k[1] # n => (s.state = "SendClearToSend" => k[2] = n)
  BY DEF SessionOf
<1>3. /\ k[1] = n => s.state \in TxState
      /\ k[1] # n => s.state \in RxState
  BY DEF SessionOf
<1>4. ASSUME NEW state \in TxState, k[1] = n
      PROVE  InState(s, state) \in SessionOf(n, k)
  <2>1. InState(s, state) \in Session
    BY <1>1, StateType
  <2>2. /\ InState(s, state).msg = s.msg /\ InState(s, state).data = s.data
        /\ InState(s, state).state = state
    BY <1>1 DEF InState, SessionRecord
  <2> QED
    BY <1>4, <2>1, <2>2, KeepsPair
<1>5. ASSUME k[1] # n
      PROVE  InState(s, "WaitForDataTransferPacket") \in SessionOf(n, k)
  <2> DEFINE t == InState(s, "WaitForDataTransferPacket")
  <2>1. "WaitForDataTransferPacket" \in RxState
    BY DEF RxState
  <2>2. t \in Session
    BY <1>1, <2>1, StateType
  <2>3. t.msg = s.msg /\ t.data = s.data /\ t.state = "WaitForDataTransferPacket"
    BY <1>1 DEF InState, SessionRecord
  <2> QED
    BY <1>5, <2>1, <2>2, <2>3, KeepsPair
<1>6. Cleared(s) \in SessionOf(n, k)
  <2>1. Cleared(s) \in Session
    BY <1>1, ClearedType
  <2>2. Cleared(s).msg = s.msg /\ Cleared(s).data = s.data /\ Cleared(s).state = s.state
    BY <1>1 DEF Cleared, SessionRecord
  <2> QED
    BY <1>2, <1>3, <2>1, <2>2, KeepsPair
<1> QED
  BY <1>4, <1>5, <1>6

LEMMA SessionGrant ==
  ASSUME NEW n \in Node, NEW k \in Key, NEW s \in SessionOf(n, k), NEW b \in Byte, NEW d \in Byte
  PROVE  [s EXCEPT !.ack = b, !.cts = d, !.age = 0] \in SessionOf(n, k)
<1>1. s \in Session /\ s \in SessionRecord /\ Len(s.data) % 256 = s.total
  BY DEF SessionOf, Session
<1>2. k[1] # n => (s.state = "SendClearToSend" => k[2] = n)
  BY DEF SessionOf
<1>3. /\ k[1] = n => s.state \in TxState
      /\ k[1] # n => s.state \in RxState
  BY DEF SessionOf
<1>4. [s EXCEPT !.ack = b, !.cts = d, !.age = 0] \in SessionOf(n, k)
  <2> DEFINE t == [s EXCEPT !.ack = b, !.cts = d, !.age = 0]
  <2>1. t \in Session
    BY <1>1, GrantType
  <2>2. t.msg = s.msg /\ t.data = s.data /\ t.state = s.state
    BY <1>1 DEF SessionRecord
  <2> QED
    BY <1>2, <1>3, <2>1, <2>2, KeepsPair
<1> QED
  BY <1>4

LEMMA SessionLast ==
  ASSUME NEW n \in Node, NEW k \in Key, NEW s \in SessionOf(n, k), NEW b \in Byte
  PROVE  [s EXCEPT !.last = b, !.age = 0] \in SessionOf(n, k)
<1>1. s \in Session /\ s \in SessionRecord /\ Len(s.data) % 256 = s.total
  BY DEF SessionOf, Session
<1>2. k[1] # n => (s.state = "SendClearToSend" => k[2] = n)
  BY DEF SessionOf
<1>3. /\ k[1] = n => s.state \in TxState
      /\ k[1] # n => s.state \in RxState
  BY DEF SessionOf
<1>4. [s EXCEPT !.last = b, !.age = 0] \in SessionOf(n, k)
  <2> DEFINE t == [s EXCEPT !.last = b, !.age = 0]
  <2>1. t \in Session
    BY <1>1, LastType
  <2>2. t.msg = s.msg /\ t.data = s.data /\ t.state = s.state
    BY <1>1 DEF SessionRecord
  <2> QED
    BY <1>2, <1>3, <2>1, <2>2, KeepsPair
<1> QED
  BY <1>4

LEMMA SessionAge ==
  ASSUME NEW n \in Node, NEW k \in Key, NEW s \in SessionOf(n, k), NEW e \in 0 .. T2T3 + 1
  PROVE  [s EXCEPT !.age = e] \in SessionOf(n, k)
<1>1. s \in Session /\ s \in SessionRecord /\ Len(s.data) % 256 = s.total
  BY DEF SessionOf, Session
<1>2. k[1] # n => (s.state = "SendClearToSend" => k[2] = n)
  BY DEF SessionOf
<1>3. /\ k[1] = n => s.state \in TxState
      /\ k[1] # n => s.state \in RxState
  BY DEF SessionOf
<1>4. [s EXCEPT !.age = e] \in SessionOf(n, k)
  <2> DEFINE t == [s EXCEPT !.age = e]
  <2>1. t \in SessionRecord
    BY <1>1 DEF SessionRecord
  <2>2. t.msg = s.msg /\ t.data = s.data /\ t.state = s.state /\ t.total = s.total
    BY <1>1 DEF SessionRecord
  <2> QED
    <3>1. t \in Session
      BY <1>1, <2>1, <2>2 DEF Session
    <3> QED
      BY <1>2, <1>3, <2>2, <3>1, KeepsPair
<1> QED
  BY <1>4

\* The buffer of a new receive session.
LEMMA BlankBuffer ==
  ASSUME NEW total \in Nat
  PROVE  /\ [i \in 1 .. total |-> Blank] \in Seq(Payload \cup {Blank})
         /\ Len([i \in 1 .. total |-> Blank]) = total
OBVIOUS

\* The session a request or an announcement opens.
LEMMA ReceiveSessionType ==
  ASSUME NEW n \in Stack, NEW k \in Key, k[1] # n, NEW f, f.pgn \in PGN, f.size \in Word,
         NEW limit \in Byte, NEW state \in RxState, k[2] \in {n, Global},
         state = "SendClearToSend" => k[2] = n
  PROVE  /\ ReceiveSession(f, limit, state) \in SessionOf(n, k)
         /\ ReceiveSession(f, limit, state).data = [i \in 1 .. Slots(f.size) |-> Blank]
         /\ ReceiveSession(f, limit, state).last = 0
         /\ ReceiveSession(f, limit, state).total = PacketCount(f.size)
<1> DEFINE data == [i \in 1 .. Slots(f.size) |-> Blank]
<1>1. /\ data \in Seq(Payload \cup {Blank}) /\ Len(data) % 256 = PacketCount(f.size)
      /\ PacketCount(f.size) \in Byte
  BY BlankBuffer, SizeType
<1>2. ReceiveSession(f, limit, state) \in Session
  BY <1>1, NewSessionType DEF ReceiveSession
<1>3. /\ ReceiveSession(f, limit, state).msg = NoMessage
      /\ ReceiveSession(f, limit, state).state = state
      /\ ReceiveSession(f, limit, state).data = data
      /\ ReceiveSession(f, limit, state).last = 0
      /\ ReceiveSession(f, limit, state).total = PacketCount(f.size)
  BY DEF ReceiveSession, NewSession
<1> QED
  BY <1>2, <1>3 DEF SessionOf

-----------------------------------------------------------------------------
(* Every step keeps the types: received frames *)

\* What a handler knows of the frame it was called with.
LEMMA TakesFacts ==
  ASSUME TypeOK, NEW n \in Node, NEW a \in Node, NEW type, Takes(n, a, type)
  PROVE  /\ n \in Stack /\ n # a /\ Arrives(n, a)
         /\ Head(tx[a]).frame \in FrameOf(a)
         /\ Head(tx[a]).frame.src = a
         /\ Head(tx[a]).frame.type = type
         /\ type # "DT" /\ type # "BAM" => Head(tx[a]).frame.dst # Global
         /\ type = "BAM" => Head(tx[a]).frame.dst = Global
BY HeadType DEF TypeOK, Takes, Listens, IgnoredManagement

\* A session a node has fits.
LEMMA Existing ==
  ASSUME SessionsOK(sess), NEW n \in Node, NEW k \in Key, sess[n][k] # NoSession
  PROVE  sess[n][k] \in SessionOf(n, k)
BY DEF SessionsOK

LEMMA AnnounceStep ==
  ASSUME TypeOK, NEW n \in Node, NEW a \in Node, ReceiveAnnounce(n, a)
  PROVE  TypeOK'
<1> DEFINE f == Head(tx[a]).frame
           k == <<a, Global>>
           new == ReceiveSession(f, 255, "WaitForDataTransferPacket")
<1>1. ProcessAnnounce(n, f) /\ UNCHANGED <<known, left>> /\ Takes(n, a, "BAM")
  BY DEF ReceiveAnnounce
<1>2. n \in Stack /\ n # a /\ Arrives(n, a) /\ f \in FrameOf(a) /\ f.src = a /\ f.type = "BAM"
  BY <1>1, TakesFacts
<1>3. k \in Key /\ k[1] = a /\ k[2] = Global
  BY DEF Key, Destination
<1>4. PathsOK(tx')
  <2>1. Answer(n, f, <<>>) /\ <<>> \in Seq(FrameOf(n)) /\ PathsOK(tx)
    BY <1>1 DEF TypeOK, ProcessAnnounce
  <2> QED
    BY <1>2, <2>1, AnswerType
<1>5. new \in SessionOf(n, k)
  <2>1. f.pgn \in PGN /\ f.size \in Word
    BY <1>2, FrameFields
  <2>2. 255 \in Byte /\ "WaitForDataTransferPacket" \in RxState
    BY DEF RxState
  <2> HIDE DEF f, k
  <2> QED
    BY <1>2, <1>3, <2>1, <2>2, ReceiveSessionType
<1>6. SessionsOK(sess')
  <2>1. SessionsOK(Close(n, {k})) /\ SessionsOK(Store(n, k, new)) /\ SessionsOK(sess)
    BY <1>3, <1>5, CloseType, StoreType DEF TypeOK
  <2>2. sess' = sess \/ sess' = Close(n, {k}) \/ sess' = Store(n, k, new)
    BY <1>1, <1>2 DEF ProcessAnnounce
  <2> QED
    BY <2>1, <2>2
<1> QED
  BY <1>1, <1>4, <1>6 DEF TypeOK, ProcessAnnounce

LEMMA RequestStep ==
  ASSUME TypeOK, NEW n \in Node, NEW a \in Node, ReceiveRequestToSend(n, a)
  PROVE  TypeOK'
<1> DEFINE f == Head(tx[a]).frame
           k == <<a, n>>
           old == sess[n][k]
           refusal == <<AbortFrame(n, a, f.pgn)>>
           aborted == IF old # NoSession /\ old.pgn # f.pgn
                      THEN <<AbortFrame(n, a, old.pgn)>> ELSE <<>>
           new == ReceiveSession(f, Least(f.max, PacketsPerCts), "SendClearToSend")
           clear == Append(aborted, ClearFrame(k, new, Segment(new)))
           asked == InState(Cleared(new), "WaitForDataTransferPacket")
<1>1. ProcessRequestToSend(n, f) /\ UNCHANGED <<known, left>> /\ Takes(n, a, "RTS")
  BY DEF ReceiveRequestToSend
<1>2. /\ n \in Stack /\ n # a /\ Arrives(n, a)
      /\ f \in FrameOf(a) /\ f.src = a /\ f.type = "RTS"
  BY <1>1, TakesFacts
<1>3. k \in Key /\ k[1] = a /\ k[2] = n
  BY DEF Key, Destination
<1>4. f.pgn \in PGN /\ f.size \in Word /\ f.max \in Byte
  BY <1>2, FrameFields
<1>5. new \in SessionOf(n, k)
  <2>1. Least(f.max, PacketsPerCts) \in Byte
    BY <1>4, ConfigurationAssumption, LeastByte
  <2> HIDE DEF f, k
  <2> QED
    BY <1>2, <1>3, <1>4, <2>1, ReceiveSessionType DEF RxState
<1>6. asked \in SessionOf(n, k)
  <2>1. Cleared(new) \in SessionOf(n, k)
    BY <1>3, <1>5, SessionUpdates
  <2> HIDE DEF new, k
  <2> QED
    BY <1>2, <1>3, <2>1, SessionUpdates
<1>7. refusal \in Seq(FrameOf(n)) /\ aborted \in Seq(FrameOf(n))
  <2>1. AbortFrame(n, a, f.pgn) \in FrameOf(n)
    BY <1>2, <1>4, AbortType
  <2>2. ASSUME old # NoSession
        PROVE  AbortFrame(n, a, old.pgn) \in FrameOf(n)
    <3>1. old \in SessionOf(n, k)
      BY <1>3, <2>2, Existing DEF TypeOK
    <3>2. old.pgn \in PGN
      BY <1>3, <3>1, SessionFacts
    <3> QED
      BY <1>2, <3>2, AbortType
  <2> HIDE DEF old
  <2> QED
    BY <2>1, <2>2
<1>8. clear \in Seq(FrameOf(n)) /\ aborted \o refusal \in Seq(FrameOf(n))
  <2>1. Segment(new) \in Byte
    <3> HIDE DEF new
    <3>1. new \in Session
      BY <1>5 DEF SessionOf
    <3> QED
      BY <3>1, CounterType, Zenon
  <2> HIDE DEF new
  <2>2. ClearFrame(k, new, Segment(new)) \in FrameOf(n)
    BY <1>3, <1>5, <2>1, SessionFrames
  <2> HIDE DEF aborted, refusal, k
  <2> QED
    BY <1>7, <2>2
<1>9. PathsOK(tx')
  <2>1. \E frames \in {refusal, aborted \o refusal, clear} : Answer(n, f, frames)
    BY <1>1, <1>2 DEF ProcessRequestToSend
  <2> HIDE DEF refusal, aborted, clear
  <2> QED
    BY <1>2, <1>7, <1>8, <2>1, AnswerType DEF TypeOK
<1>10. SessionsOK(sess')
  <2>1. SessionsOK(Close(n, {k})) /\ SessionsOK(sess)
        /\ SessionsOK(Store(n, k, new)) /\ SessionsOK(Store(n, k, asked))
    BY <1>3, <1>5, <1>6, CloseType, StoreType DEF TypeOK
  <2>2. \/ sess' = sess \/ sess' = Close(n, {k})
        \/ sess' = Store(n, k, asked) \/ sess' = Store(n, k, new)
    BY <1>1, <1>2 DEF ProcessRequestToSend
  <2> HIDE DEF new, asked, k
  <2> QED
    BY <2>1, <2>2
<1> QED
  BY <1>1, <1>9, <1>10 DEF TypeOK, ProcessRequestToSend

LEMMA ClearToSendStep ==
  ASSUME TypeOK, NEW n \in Node, NEW a \in Node, ReceiveClearToSend(n, a)
  PROVE  TypeOK'
<1> DEFINE f == Head(tx[a]).frame
           k == <<n, a>>
           s == sess[n][k]
           granted == [s EXCEPT !.ack = (f.next - 1) % 256, !.cts = f.count, !.age = 0]
           abort == AbortFrame(n, a, s.pgn)
           both == <<abort, AbortFrame(n, a, f.pgn)>>
           going == InState(granted, "SendDataTransferPackets")
<1>1. ProcessClearToSend(n, f) /\ UNCHANGED <<known, left, delivered>> /\ Takes(n, a, "CTS")
  BY DEF ReceiveClearToSend, ProcessClearToSend
<1>2. /\ n \in Stack /\ n # a /\ Arrives(n, a)
      /\ f \in FrameOf(a) /\ f.src = a /\ f.type = "CTS"
  BY <1>1, TakesFacts
<1>3. k \in Key /\ k[1] = n /\ k[2] = a
  BY DEF Key, Destination
<1>4. f.pgn \in PGN /\ f.count \in Byte /\ (f.next - 1) % 256 \in Byte
  <2> HIDE DEF f
  <2>1. f.pgn \in PGN /\ f.count \in Byte /\ f.next \in Byte
    BY <1>2, FrameFields
  <2> QED
    BY <2>1, ByteBefore
<1>5. CASE s = NoSession
  <2>1. Answer(n, f, <<>>) /\ UNCHANGED <<sess, outcome>>
    BY <1>1, <1>2, <1>5 DEF ProcessClearToSend
  <2>2. PathsOK(tx')
    <3>1. <<>> \in Seq(FrameOf(n)) /\ PathsOK(tx)
      BY DEF TypeOK
    <3> QED
      BY <1>2, <2>1, <3>1, AnswerType
  <2> QED
    BY <1>1, <2>1, <2>2 DEF TypeOK
<1>6. CASE s # NoSession
  <2>1. s \in SessionOf(n, k) /\ s.pgn \in PGN
    BY <1>3, <1>6, Existing, SessionFacts DEF TypeOK
  <2>2. granted \in SessionOf(n, k)
    <3> HIDE DEF s, k, f
    <3> QED
      BY <1>3, <1>4, <2>1, SessionGrant
  <2>3. going \in SessionOf(n, k)
    <3> HIDE DEF granted, k
    <3> QED
      BY <1>3, <2>2, SessionUpdates DEF TxState
  <2>4. <<abort>> \in Seq(FrameOf(n)) /\ both \in Seq(FrameOf(n))
    <3>1. abort \in FrameOf(n) /\ AbortFrame(n, a, f.pgn) \in FrameOf(n)
      BY <1>2, <1>4, <2>1, AbortType
    <3> HIDE DEF abort
    <3> QED
      BY <3>1
  <2>5. PathsOK(tx')
    <3>1. \E frames \in {<<>>, <<abort>>, both} : Answer(n, f, frames)
      BY <1>1, <1>2, <1>6 DEF ProcessClearToSend
    <3>2. <<>> \in Seq(FrameOf(n)) /\ PathsOK(tx)
      BY DEF TypeOK
    <3> HIDE DEF both, abort
    <3> QED
      BY <1>2, <2>4, <3>1, <3>2, AnswerType
  <2>6. SessionsOK(sess') /\ OutcomesOK(outcome')
    <3>1. \/ sess' = Close(n, {k}) /\ outcome' = Report(n, k, "failure")
          \/ sess' = Store(n, k, going) /\ outcome' = outcome
          \/ sess' = Store(n, k, granted) /\ outcome' = outcome
      BY <1>1, <1>2, <1>6 DEF ProcessClearToSend
    <3>2. /\ SessionsOK(Close(n, {k})) /\ OutcomesOK(Report(n, k, "failure"))
          /\ SessionsOK(Store(n, k, going)) /\ SessionsOK(Store(n, k, granted))
      BY <1>3, <2>2, <2>3, CloseType, StoreType, ReportType DEF TypeOK
    <3> HIDE DEF k, going, granted
    <3> QED
      BY <3>1, <3>2 DEF TypeOK
  <2> QED
    BY <1>1, <2>5, <2>6 DEF TypeOK
<1> QED
  BY <1>5, <1>6

LEMMA AckStep ==
  ASSUME TypeOK, NEW n \in Node, NEW a \in Node, ReceiveEndOfMessageAck(n, a)
  PROVE  TypeOK'
<1> DEFINE f == Head(tx[a]).frame
           k == <<n, a>>
<1>1. /\ ProcessEndOfMessageAck(n, f) /\ UNCHANGED <<known, left, delivered>>
      /\ Takes(n, a, "EOMA")
  BY DEF ReceiveEndOfMessageAck, ProcessEndOfMessageAck
<1>2. n \in Stack /\ n # a /\ Arrives(n, a) /\ f.src = a
  BY <1>1, TakesFacts
<1>3. PathsOK(tx')
  <2>1. Answer(n, f, <<>>) /\ <<>> \in Seq(FrameOf(n)) /\ PathsOK(tx)
    BY <1>1 DEF TypeOK, ProcessEndOfMessageAck
  <2> QED
    BY <1>2, <2>1, AnswerType
<1>4. SessionsOK(sess') /\ OutcomesOK(outcome')
  <2>1. \/ sess' = Close(n, {k}) /\ outcome' = Report(n, k, "success")
        \/ UNCHANGED <<sess, outcome>>
    BY <1>1, <1>2 DEF ProcessEndOfMessageAck
  <2>2. SessionsOK(Close(n, {k})) /\ OutcomesOK(Report(n, k, "success"))
    BY CloseType, ReportType DEF TypeOK
  <2> QED
    BY <2>1, <2>2 DEF TypeOK
<1> QED
  BY <1>1, <1>3, <1>4 DEF TypeOK

LEMMA AbortStep ==
  ASSUME TypeOK, NEW n \in Node, NEW a \in Node, ReceiveAbort(n, a)
  PROVE  TypeOK'
<1> DEFINE f == Head(tx[a]).frame
           rx == <<a, n>>
           transmit == <<n, a>>
           Hit == {k \in {rx, transmit} : sess[n][k] # NoSession /\ sess[n][k].pgn = f.pgn}
<1>1. ProcessAbort(n, f) /\ UNCHANGED <<known, left, delivered>> /\ Takes(n, a, "Abort")
  BY DEF ReceiveAbort, ProcessAbort
<1>2. n \in Stack /\ n # a /\ Arrives(n, a) /\ f.src = a
  BY <1>1, TakesFacts
<1>3. PathsOK(tx')
  <2>1. Answer(n, f, <<>>) /\ <<>> \in Seq(FrameOf(n)) /\ PathsOK(tx)
    BY <1>1 DEF TypeOK, ProcessAbort
  <2> QED
    BY <1>2, <2>1, AnswerType
<1>4. SessionsOK(sess') /\ OutcomesOK(outcome')
  <2>1. /\ sess' = Close(n, Hit)
        /\ outcome' = Report(n, transmit, "failure") \/ outcome' = outcome
    BY <1>1, <1>2 DEF ProcessAbort
  <2>2. SessionsOK(Close(n, Hit)) /\ OutcomesOK(Report(n, transmit, "failure"))
    BY CloseType, ReportType DEF TypeOK
  <2> QED
    BY <2>1, <2>2 DEF TypeOK
<1> QED
  BY <1>1, <1>3, <1>4 DEF TypeOK

\* Writing a packet into a buffer keeps its length and its type.
LEMMA WriteType ==
  ASSUME NEW S, NEW data \in Seq(S), NEW j, NEW v \in S
  PROVE  /\ [i \in DOMAIN data |-> IF i = j THEN v ELSE data[i]] \in Seq(S)
         /\ Len([i \in DOMAIN data |-> IF i = j THEN v ELSE data[i]]) = Len(data)
<1>1. DOMAIN data = 1 .. Len(data) /\ Len(data) \in Nat
  OBVIOUS
<1>2. [i \in DOMAIN data |-> IF i = j THEN v ELSE data[i]] \in [1 .. Len(data) -> S]
  BY <1>1
<1> QED
  BY <1>1, <1>2, SeqDef

\* The packet of a data transfer message in its session.
Got(s, seq, v) ==
  [s EXCEPT !.data = [i \in DOMAIN @ |-> IF i = s.last + 1 THEN v ELSE @[i]],
            !.last = seq, !.age = 0]

LEMMA GotFields ==
  ASSUME NEW s \in Session, NEW seq, NEW v
  PROVE  /\ Got(s, seq, v).msg = s.msg /\ Got(s, seq, v).pgn = s.pgn
         /\ Got(s, seq, v).total = s.total /\ Got(s, seq, v).state = s.state
         /\ Got(s, seq, v).last = seq
         /\ Got(s, seq, v).data = [i \in DOMAIN s.data |->
                                     IF i = s.last + 1 THEN v ELSE s.data[i]]
<1>1. s \in SessionRecord
  BY DEF Session
<1> QED
  BY <1>1 DEF Got, SessionRecord

LEMMA GotType ==
  ASSUME NEW n \in Node, NEW k \in Key, NEW s \in SessionOf(n, k), k[1] # n,
         NEW seq \in Byte, NEW v \in Payload
  PROVE  Got(s, seq, v) \in SessionOf(n, k)
<1> DEFINE data == [i \in DOMAIN s.data |-> IF i = s.last + 1 THEN v ELSE s.data[i]]
<1>1. s \in SessionRecord /\ s.data \in Seq(Payload \cup {Blank}) /\ Len(s.data) % 256 = s.total
  BY DEF SessionOf, Session, SessionRecord
<1>2. data \in Seq(Payload \cup {Blank}) /\ Len(data) = Len(s.data)
  BY <1>1, WriteType
<1>3. Got(s, seq, v) = [s EXCEPT !.data = data, !.last = seq, !.age = 0]
  BY <1>1 DEF Got, SessionRecord
<1>4. 0 \in 0 .. T2T3 + 1
  BY ConfigurationAssumption
<1> HIDE DEF data
<1>5. Got(s, seq, v) \in SessionRecord
  <2> DEFINE t == [s EXCEPT !.data = data]
  <2>1. t \in SessionRecord
    BY <1>1, <1>2 DEF SessionRecord
  <2>2. Got(s, seq, v) = [t EXCEPT !.last = seq, !.age = 0]
    BY <1>1, <1>3 DEF SessionRecord
  <2> HIDE DEF t
  <2>3. [t EXCEPT !.last = seq, !.age = 0] \in SessionRecord
    BY <1>4, <2>1 DEF SessionRecord
  <2> QED
    BY <2>2, <2>3
<1>6. /\ Got(s, seq, v).data = data /\ Got(s, seq, v).total = s.total /\ Got(s, seq, v).last = seq
      /\ Got(s, seq, v).pgn = s.pgn /\ Got(s, seq, v).msg = s.msg /\ Got(s, seq, v).state = s.state
  BY <1>1, <1>3 DEF SessionRecord
<1>7. Got(s, seq, v) \in Session
  BY <1>1, <1>2, <1>5, <1>6 DEF Session
<1>8. Got(s, seq, v) \in SessionOf(n, k)
  BY <1>6, <1>7 DEF SessionOf
<1> QED
  BY <1>8

LEMMA DataTransferStep ==
  ASSUME TypeOK, NEW n \in Node, NEW a \in Node, ReceiveDataTransfer(n, a)
  PROVE  TypeOK'
<1> DEFINE f == Head(tx[a]).frame
           k == <<a, f.dst>>
           s == sess[n][k]
           got == Got(s, f.seq, f.data)
<1>1. ProcessDataTransfer(n, f) /\ UNCHANGED <<known, left, outcome>> /\ Takes(n, a, "DT")
  BY DEF ReceiveDataTransfer, ProcessDataTransfer
<1>2. /\ n \in Stack /\ n # a /\ Arrives(n, a)
      /\ f \in FrameOf(a) /\ f.src = a /\ f.type = "DT"
  BY <1>1, TakesFacts
<1>3. f.dst \in Destination /\ f.seq \in Byte /\ f.data \in Payload
  BY <1>2, FrameFields
<1>4. k \in Key /\ k[1] = a /\ k[2] = f.dst
  BY <1>3 DEF Key
<1>5. CASE s = NoSession
  <2>1. Answer(n, f, <<>>) /\ UNCHANGED <<sess, delivered>>
    BY <1>1, <1>2, <1>5 DEF ProcessDataTransfer
  <2>2. PathsOK(tx')
    <3>1. <<>> \in Seq(FrameOf(n)) /\ PathsOK(tx)
      BY DEF TypeOK
    <3> QED
      BY <1>2, <2>1, <3>1, AnswerType
  <2> QED
    BY <1>1, <2>1, <2>2 DEF TypeOK
<1>6. CASE s # NoSession
  <2>1. s \in SessionOf(n, k) /\ s.pgn \in PGN /\ k[2] \in {n, Global}
    BY <1>2, <1>4, <1>6, Existing, SessionFacts DEF TypeOK
  <2>2. got \in SessionOf(n, k) /\ got \in Session /\ Cleared(got) \in SessionOf(n, k)
    <3> HIDE DEF s, k, f
    <3>1. got \in SessionOf(n, k)
      BY <1>2, <1>3, <1>4, <2>1, GotType
    <3> QED
      BY <1>4, <3>1, SessionUpdates, SessionFacts
  <2> DEFINE refusal == <<AbortFrame(n, a, s.pgn)>>
             ack == <<AckFrame(k, got)>>
             clear == <<ClearFrame(k, got, Segment(got))>>
  <2>3. refusal \in Seq(FrameOf(n)) /\ <<>> \in Seq(FrameOf(n))
    <3>1. AbortFrame(n, a, s.pgn) \in FrameOf(n)
      BY <1>2, <2>1, AbortType
    <3> QED
      BY <3>1
  <2>4. ASSUME ~IsBroadcast(k)
        PROVE  ack \in Seq(FrameOf(n)) /\ clear \in Seq(FrameOf(n))
    <3>1. k[2] = n
      BY <2>1, <2>4 DEF IsBroadcast
    <3>2. Segment(got) \in Byte
      BY <2>2, CounterType
    <3> HIDE DEF got, k
    <3>3. AckFrame(k, got) \in FrameOf(n) /\ ClearFrame(k, got, Segment(got)) \in FrameOf(n)
      BY <1>4, <2>2, <3>1, <3>2, SessionFrames
    <3> QED
      BY <3>3
  <2>5. PathsOK(tx')
    <3>1. \/ Answer(n, f, <<>>)
          \/ Answer(n, f, refusal)
          \/ ~IsBroadcast(k) /\ (Answer(n, f, ack) \/ Answer(n, f, clear))
      BY <1>1, <1>2, <1>6 DEF ProcessDataTransfer, TakePacket, Got
    <3> HIDE DEF refusal, ack, clear, k
    <3> QED
      BY <1>2, <2>3, <2>4, <3>1, AnswerType DEF TypeOK
  <2>6. SessionsOK(sess')
    <3>1. sess' \in {Close(n, {k}), Store(n, k, got), Store(n, k, Cleared(got))}
      BY <1>1, <1>2, <1>6 DEF ProcessDataTransfer, TakePacket, Got
    <3>2. /\ SessionsOK(Close(n, {k})) /\ SessionsOK(Store(n, k, got))
          /\ SessionsOK(Store(n, k, Cleared(got)))
      BY <1>4, <2>2, CloseType, StoreType DEF TypeOK
    <3> HIDE DEF got, k
    <3> QED
      BY <3>1, <3>2
  <2>7. delivered' \in [Node -> Seq(Delivery)]
    <3>1. \/ delivered' = delivered
          \/ delivered' = [delivered EXCEPT ![n] = Append(@, DeliveredMessage(k, got))]
      BY <1>1, <1>2, <1>6 DEF ProcessDataTransfer, TakePacket, Got
    <3>2. DeliveredMessage(k, got) \in Delivery
      <4>1. got.pgn \in PGN /\ got.data \in Seq(Payload \cup {Blank})
        BY <1>4, <2>2, SessionFacts
      <4> HIDE DEF got
      <4> QED
        BY <1>3, <1>4, <4>1 DEF DeliveredMessage, Delivery
    <3>3. delivered \in [Node -> Seq(Delivery)]
      BY DEF TypeOK
    <3> HIDE DEF got, k
    <3>4. Append(delivered[n], DeliveredMessage(k, got)) \in Seq(Delivery)
      BY <3>2, <3>3
    <3> QED
      BY <3>1, <3>3, <3>4
  <2> QED
    BY <1>1, <2>5, <2>6, <2>7 DEF TypeOK
<1> QED
  BY <1>5, <1>6

LEMMA ReceiveStep ==
  ASSUME TypeOK, NEW n \in Node, NEW a \in Node, Receive(n, a)
  PROVE  TypeOK'
<1>1. ASSUME Ignore(n, a)
      PROVE  TypeOK'
  <2>1. Processed(a, n) \in Seq(EntryOf(a))
    BY <1>1, HeadType DEF TypeOK, Ignore
  <2>2. PathsOK(tx')
    BY <1>1, <2>1 DEF TypeOK, Ignore, PathsOK
  <2> QED
    BY <1>1, <2>2 DEF TypeOK, Ignore
<1> QED
  BY <1>1, AnnounceStep, RequestStep, ClearToSendStep, AckStep, AbortStep, DataTransferStep
     DEF Receive

-----------------------------------------------------------------------------
(* Every step keeps the types: the application and the update loop *)

\* A node goes on with a session, or is done with it, and sends some frames.
LEMMA GoOnType ==
  ASSUME TypeOK, NEW n \in Node, NEW k \in Key, NEW s \in SessionOf(n, k),
         NEW frames \in Seq(FrameOf(n)), GoOn(n, k, s, frames),
         UNCHANGED <<delivered, known, left>>
  PROVE  TypeOK'
<1>1. SessionsOK(sess')
  BY StoreType DEF GoOn, TypeOK
<1>2. PathsOK(tx')
  BY SendType DEF GoOn, TypeOK
<1> QED
  BY <1>1, <1>2 DEF GoOn, TypeOK

LEMMA FinishType ==
  ASSUME TypeOK, NEW n \in Node, NEW k \in Key, NEW result \in {"success", "failure"},
         NEW frames \in Seq(FrameOf(n)), Finish(n, k, result, frames),
         UNCHANGED <<delivered, known, left>>
  PROVE  TypeOK'
<1>1. SessionsOK(sess')
  BY CloseType DEF Finish, TypeOK
<1>2. PathsOK(tx')
  BY SendType DEF Finish, TypeOK
<1>3. OutcomesOK(outcome')
  BY ReportType DEF Finish, TypeOK
<1> QED
  BY <1>1, <1>2, <1>3 DEF TypeOK

\* The session of a new message fits its source and its pair.
LEMMA TransmitType ==
  ASSUME NEW m \in Message
  PROVE  /\ Header[m].src \in Node /\ <<Header[m].src, Header[m].dst>> \in Key
         /\ TransmitSession(m) \in SessionOf(Header[m].src, <<Header[m].src, Header[m].dst>>)
         /\ TransmitSession(m).msg = m
<1> DEFINE h == Header[m]
           s == TransmitSession(m)
           packets == Packets(m)
           data == [i \in 1 .. packets |-> <<m, i>>]
<1>1. h \in HeaderType /\ h.src \in Stack /\ h.dst # h.src
  BY NodeAssumption
<1>2. h.src \in Node /\ h.dst \in Destination /\ h.pgn \in PGN /\ packets \in 2 .. 255
  BY <1>1, PacketsType DEF HeaderType
<1>3. data \in Seq(Payload) /\ data \in Seq(Payload \cup {Blank}) /\ Len(data) = packets
  <2> HIDE DEF h, packets
  <2>1. data \in [1 .. packets -> Payload]
    BY <1>2 DEF Payload
  <2>2. packets \in Nat /\ DOMAIN data = 1 .. packets
    BY <1>2
  <2>3. data \in [1 .. packets -> Payload \cup {Blank}]
    BY <2>1
  <2> QED
    BY <2>1, <2>2, <2>3, FunctionIsSequence, LenProperties
<1>4. s \in Session /\ s.msg = m /\ s.data = data /\ s.total = packets /\ s.state \in TxState
  <2> DEFINE state == IF h.dst = Global THEN "SendBroadcastAnnounce" ELSE "SendRequestToSend"
  <2>1. state \in TxState
    BY DEF TxState
  <2>2. s = NewSession(m, h.pgn, packets, PacketsPerCts, data, state)
    BY DEF TransmitSession
  <2>3. packets \in Byte /\ Len(data) % 256 = packets /\ PacketsPerCts \in Byte
    <3> HIDE DEF packets, data
    <3> QED
      BY <1>2, <1>3, LengthByte, ConfigurationAssumption
  <2> HIDE DEF h, s, data, state, packets
  <2>4. s \in Session
    BY <1>2, <1>3, <2>1, <2>2, <2>3, NewSessionType
  <2>5. s.msg = m /\ s.data = data /\ s.total = packets /\ s.state = state
    BY <2>2 DEF NewSession
  <2> QED
    BY <2>1, <2>4, <2>5
<1>5. <<h.src, h.dst>> \in Key
  BY <1>2 DEF Key
<1> QED
  BY <1>1, <1>2, <1>3, <1>4, <1>5 DEF SessionOf

LEMMA OpenedType ==
  ASSUME NEW n \in Node, NEW k \in Key, NEW s \in SessionOf(n, k), k[1] = n
  PROVE  Opened(k, s) \in SessionOf(n, k)
BY SessionUpdates DEF Opened, TxState

LEMMA SubmitStep ==
  ASSUME TypeOK, NEW m \in Message, Submit(m)
  PROVE  TypeOK'
<1> DEFINE n == Header[m].src
           k == <<n, Header[m].dst>>
           s == TransmitSession(m)
<1>1. n \in Node /\ k \in Key /\ k[1] = n /\ s \in SessionOf(n, k)
  BY TransmitType
<1>2. Opened(k, s) \in SessionOf(n, k)
  <2> HIDE DEF k, s, n
  <2> QED
    BY <1>1, OpenedType
<1>3. <<OpenFrame(k, s)>> \in Seq(FrameOf(n))
  <2> HIDE DEF k, s, n
  <2>1. 0 \in Byte
    OBVIOUS
  <2>2. OpenFrame(k, s) \in FrameOf(n)
    BY <1>1, <2>1, SessionFrames
  <2> QED
    BY <2>2
<1>4. SessionsOK(sess')
  <2>1. sess' \in {Store(n, k, Opened(k, s)), Store(n, k, s)}
    BY DEF Submit
  <2> HIDE DEF k, s, n
  <2> QED
    BY <1>1, <1>2, <2>1, StoreType DEF TypeOK
<1>5. PathsOK(tx')
  <2>1. tx' = tx \/ tx' = [tx EXCEPT ![n] = Offer(n, <<OpenFrame(k, s)>>)]
    BY DEF Submit
  <2> HIDE DEF k, s, n
  <2> QED
    BY <1>1, <1>3, <2>1, SendType DEF TypeOK
<1>6. OutcomesOK(outcome')
  BY DEF Submit, TypeOK, OutcomesOK
<1> QED
  BY <1>4, <1>5, <1>6 DEF Submit, TypeOK

\* The burst of data frames of a session, whatever its length.
LEMMA BurstType ==
  ASSUME NEW n \in Node, NEW k \in Key, NEW s \in SessionOf(n, k), k[1] = n, NEW count \in Int
  PROVE  [i \in 1 .. count |-> DataFrame(k, s, (s.last + i - 1) % 256)] \in Seq(FrameOf(n))
<1>1. s.last \in Byte
  BY SessionFacts
<1>2. ASSUME NEW i \in 1 .. count
      PROVE  DataFrame(k, s, (s.last + i - 1) % 256) \in FrameOf(n)
  <2>1. (s.last + i - 1) % 256 \in Byte
    <3>1. i \in Int
      OBVIOUS
    <3> QED
      BY <1>1, <3>1, ByteSum
  <2> QED
    BY <2>1, SessionFrames
<1>3. [i \in 1 .. count |-> DataFrame(k, s, (s.last + i - 1) % 256)] \in [1 .. count -> FrameOf(n)]
  BY <1>2
<1> QED
  BY <1>3, FunctionIsSequence

LEMMA BurstCount ==
  ASSUME TypeOK, NEW n \in Node, NEW k \in Key, NEW s \in SessionOf(n, k)
  PROVE  BurstLength(n, k, s) \in Int /\ (s.last + BurstLength(n, k, s)) % 256 \in Byte
<1>1. CtsRemaining(s) \in Int /\ FramesPerUpdate \in Int
  <2>1. CtsRemaining(s) \in Byte
    <3>1. s \in Session
      BY SessionFacts
    <3> QED
      BY <3>1, CounterType
  <2> QED
    BY <2>1, ConfigurationAssumption
<1>2. Room(n) \in Int
  BY ConfigurationAssumption DEF TypeOK, PathsOK, Room
<1>3. Least(CtsRemaining(s), FramesPerUpdate) \in Int
  BY <1>1, LeastType
<1>4. BurstLength(n, k, s) \in Int
  BY <1>2, <1>3, LeastType DEF BurstLength
<1>5. s.last \in Byte
  BY SessionFacts
<1> QED
  BY <1>4, <1>5, ByteSum

LEMMA DataStep ==
  ASSUME TypeOK, NEW n \in Node, NEW k \in Key, SendDataTransferPackets(n, k)
  PROVE  TypeOK'
<1> DEFINE s == sess[n][k]
           count == BurstLength(n, k, s)
           burst == [i \in 1 .. count |-> DataFrame(k, s, (s.last + i - 1) % 256)]
           after == IF count = 0 THEN s
                    ELSE [s EXCEPT !.last = (s.last + count) % 256, !.age = 0]
<1>1. s \in SessionOf(n, k) /\ k[1] = n
  BY Existing, SessionFacts DEF SendDataTransferPackets, Updates, TypeOK, TxState
<1>2. count \in Int /\ (s.last + count) % 256 \in Byte
  BY <1>1, BurstCount
<1>3. burst \in Seq(FrameOf(n))
  <2> HIDE DEF s, count
  <2> QED
    BY <1>1, <1>2, BurstType
<1>4. after \in SessionOf(n, k)
  <2> HIDE DEF s, count
  <2> QED
    BY <1>1, <1>2, SessionLast
<1>5. /\ InState(after, "WaitForEndOfMessageAcknowledge") \in SessionOf(n, k)
      /\ InState(after, "WaitForClearToSend") \in SessionOf(n, k)
  <2> HIDE DEF after
  <2> QED
    BY <1>1, <1>4, SessionUpdates DEF TxState
<1>6. \/ Finish(n, k, "success", burst)
      \/ GoOn(n, k, InState(after, "WaitForEndOfMessageAcknowledge"), burst)
      \/ GoOn(n, k, InState(after, "WaitForClearToSend"), burst)
      \/ GoOn(n, k, after, burst)
  BY DEF SendDataTransferPackets
<1>7. UNCHANGED <<delivered, known, left>>
  BY DEF SendDataTransferPackets
<1> HIDE DEF after, burst
<1> QED
  BY <1>3, <1>4, <1>5, <1>6, <1>7, GoOnType, FinishType

LEMMA UpdateStep ==
  ASSUME TypeOK, NEW n \in Node, NEW k \in Key, UpdateSession(n, k)
  PROVE  TypeOK'
<1> DEFINE s == sess[n][k]
<1>1. s \in SessionOf(n, k)
  BY Existing DEF UpdateSession, CloseUnreachable, OpenConnection, SendClearToSend,
                  SendDataTransferPackets, TimeOut, Updates, TypeOK
<1>2. <<>> \in Seq(FrameOf(n)) /\ 0 \in Byte
  OBVIOUS
<1>3. ASSUME CloseUnreachable(n, k)
      PROVE  TypeOK'
  BY <1>2, <1>3, FinishType DEF CloseUnreachable
<1>4. ASSUME OpenConnection(n, k)
      PROVE  TypeOK'
  <2>1. k[1] = n
    BY <1>1, <1>4, SessionFacts DEF OpenConnection, Updates, TxState
  <2>2. Opened(k, s) \in SessionOf(n, k)
    BY <1>1, <2>1, OpenedType
  <2>3. OpenFrame(k, s) \in FrameOf(n)
    BY <1>1, <1>2, <2>1, SessionFrames
  <2>4. <<OpenFrame(k, s)>> \in Seq(FrameOf(n))
    BY <2>3
  <2>5. GoOn(n, k, Opened(k, s), <<OpenFrame(k, s)>>) /\ UNCHANGED <<delivered, known, left>>
    BY <1>4 DEF OpenConnection
  <2> HIDE DEF s
  <2> QED
    BY <2>2, <2>4, <2>5, GoOnType
<1>5. ASSUME SendClearToSend(n, k)
      PROVE  TypeOK'
  <2>1. k[1] # n /\ k[2] = n
    <3>1. s.state = "SendClearToSend"
      BY <1>5 DEF SendClearToSend, Updates
    <3>2. k[1] # n
      BY <1>1, <3>1, SessionFacts DEF RxState
    <3> QED
      BY <1>1, <3>1, <3>2 DEF SessionOf
  <2> DEFINE next == InState(Cleared(s), "WaitForDataTransferPacket")
             clear == <<ClearFrame(k, s, Segment(s))>>
  <2>2. next \in SessionOf(n, k)
    <3>1. Cleared(s) \in SessionOf(n, k)
      BY <1>1, SessionUpdates
    <3> QED
      BY <2>1, <3>1, SessionUpdates
  <2>3. clear \in Seq(FrameOf(n))
    <3>1. Segment(s) \in Byte
      <4>1. s \in Session
        BY <1>1, SessionFacts
      <4> QED
        BY <4>1, CounterType
    <3>2. ClearFrame(k, s, Segment(s)) \in FrameOf(n)
      BY <1>1, <2>1, <3>1, SessionFrames
    <3> QED
      BY <3>2
  <2>4. GoOn(n, k, next, clear) /\ UNCHANGED <<delivered, known, left>>
    BY <1>5 DEF SendClearToSend
  <2> HIDE DEF next, clear
  <2> QED
    BY <2>2, <2>3, <2>4, GoOnType
<1>6. ASSUME TimeOut(n, k)
      PROVE  TypeOK'
  <2>1. PartnerAbort(n, k, s) \in Seq(FrameOf(n))
    BY <1>1, <1>2, SessionFrames
  <2>2. \E frames \in {<<>>, PartnerAbort(n, k, s)} : Finish(n, k, "failure", frames)
    BY <1>6 DEF TimeOut
  <2>3. UNCHANGED <<delivered, known, left>>
    BY <1>6 DEF TimeOut
  <2> QED
    BY <1>2, <2>1, <2>2, <2>3, FinishType
<1> QED
  BY <1>3, <1>4, <1>5, <1>6, DataStep DEF UpdateSession

-----------------------------------------------------------------------------
(* Every step keeps the types: the environment *)

\* A frame behind the others keeps the type of the transmit paths.
LEMMA AppendType ==
  ASSUME PathsOK(tx), NEW n \in Node, NEW f \in FrameOf(n),
         tx' = [tx EXCEPT ![n] = Append(@, Entry(f))]
  PROVE  PathsOK(tx')
<1>1. Entry(f) \in EntryOf(n)
  BY EntryType
<1> QED
  BY <1>1 DEF PathsOK

LEMMA UseType ==
  ASSUME TypeOK, NEW event \in Event, Use(event)
  PROVE  left' \in [Event -> Nat]
BY DEF TypeOK, Use

LEMMA AgedExists ==
  ASSUME TypeOK, Tick, NEW n \in Node, NEW k \in Key, sess[n][k] # NoSession
  PROVE  sess'[n][k] \in SessionOf(n, k)
<1>1. sess[n][k] \in SessionOf(n, k)
  BY Existing DEF TypeOK
<1>2. Least(sess[n][k].age + 1, T2T3 + 1) \in 0 .. T2T3 + 1
  <2>1. sess[n][k].age \in 0 .. T2T3 + 1
    BY <1>1 DEF SessionOf, Session, SessionRecord
  <2> QED
    BY <2>1, ConfigurationAssumption DEF Least
<1>3. sess'[n][k] = [sess[n][k] EXCEPT !.age = Least(@ + 1, T2T3 + 1)]
  BY DEF Tick
<1> QED
  BY <1>1, <1>2, <1>3, SessionAge

LEMMA TickStep ==
  ASSUME TypeOK, Tick
  PROVE  TypeOK'
<1>1. ASSUME NEW n \in Node, NEW k \in Key
      PROVE  /\ sess'[n][k] \in Session \cup {NoSession}
             /\ sess'[n][k] # NoSession => sess'[n][k] \in SessionOf(n, k)
  <2>1. CASE sess[n][k] = NoSession
    BY <2>1 DEF Tick
  <2>2. CASE sess[n][k] # NoSession
    <3>1. sess'[n][k] \in SessionOf(n, k)
      BY <2>2, AgedExists
    <3> QED
      BY <3>1 DEF SessionOf
  <2> QED
    BY <2>1, <2>2
<1>2. sess' = [n \in Node |-> [k \in Key |-> sess'[n][k]]]
  BY DEF Tick
<1>3. SessionsOK(sess')
  <2>1. sess' \in [Node -> [Key -> Session \cup {NoSession}]]
    BY <1>1, <1>2
  <2> QED
    BY <1>1, <2>1 DEF SessionsOK
<1> QED
  BY <1>3 DEF Tick, TypeOK

LEMMA EnvironmentStep ==
  ASSUME TypeOK, Environment
  PROVE  TypeOK'
<1>1. ASSUME NEW n \in Node, NEW a \in Node, Lose(n, a)
      PROVE  TypeOK'
  <2>1. Processed(a, n) \in Seq(EntryOf(a))
    BY <1>1, HeadType DEF TypeOK, Lose
  <2>2. PathsOK(tx')
    BY <1>1, <2>1 DEF TypeOK, Lose, PathsOK
  <2>3. left' \in [Event -> Nat]
    BY <1>1, UseType DEF Lose, Event
  <2> QED
    BY <1>1, <2>2, <2>3 DEF TypeOK, Lose
<1>2. ASSUME NEW n \in Stack, NEW b \in Node, SendOther(n, b)
      PROVE  TypeOK'
  <2> DEFINE f == [type |-> "Other", src |-> n, dst |-> b]
  <2>1. n \in Node /\ f \in FrameOf(n)
    BY <1>2 DEF SendOther, Stack, FrameOf, FrameType
  <2>2. tx' = [tx EXCEPT ![n] = Append(@, Entry(f))]
    BY <1>2 DEF SendOther
  <2> HIDE DEF f
  <2>3. PathsOK(tx')
    BY <2>1, <2>2, AppendType DEF TypeOK
  <2>4. left' \in [Event -> Nat]
    BY <1>2, UseType DEF SendOther, Event
  <2> QED
    BY <1>2, <2>3, <2>4 DEF TypeOK, SendOther
<1>3. ASSUME NEW n \in Stack, NEW c \in Node, LoseAddress(n, c)
      PROVE  TypeOK'
  <2>1. left' \in [Event -> Nat]
    BY <1>3, UseType DEF LoseAddress, Event
  <2> QED
    BY <1>3, <2>1 DEF TypeOK, LoseAddress, Stack
<1>4. ASSUME NEW n \in Stack, NEW c \in Node, RegainAddress(n, c)
      PROVE  TypeOK'
  BY <1>4 DEF TypeOK, RegainAddress, Stack
<1>5. ASSUME NEW f \in ForeignFrame, ForeignSend(f)
      PROVE  TypeOK'
  <2>1. f.src \in Node /\ f \in FrameOf(f.src)
    BY FrameAssumption, NodeAssumption
  <2>2. PathsOK(tx')
    BY <1>5, <2>1, AppendType DEF TypeOK, ForeignSend
  <2>3. left' \in [Event -> Nat]
    BY <1>5, UseType DEF ForeignSend, Event
  <2> QED
    BY <1>5, <2>2, <2>3 DEF TypeOK, ForeignSend
<1> QED
  BY <1>1, <1>2, <1>3, <1>4, <1>5, TickStep DEF Environment

-----------------------------------------------------------------------------
(* Type correctness *)

LEMMA TypeInit == Init => TypeOK
<1> SUFFICES ASSUME Init PROVE TypeOK
  OBVIOUS
<1>1. SessionsOK(sess)
  BY DEF Init, SessionsOK
<1>2. PathsOK(tx)
  BY DEF Init, PathsOK
<1> QED
  BY <1>1, <1>2, ConfigurationAssumption DEF Init, TypeOK, OutcomesOK

LEMMA TypeStep == TypeOK /\ [Next]_vars => TypeOK'
<1> SUFFICES ASSUME TypeOK, [Next]_vars PROVE TypeOK'
  OBVIOUS
<1>1. CASE UNCHANGED vars
  BY <1>1 DEF vars, TypeOK
<1>2. CASE Next
  <2>1. Stack \subseteq Node
    BY DEF Stack
  <2> QED
    BY <1>2, <2>1, SubmitStep, ReceiveStep, UpdateStep, EnvironmentStep DEF Next
<1> QED
  BY <1>1, <1>2

\* Every variable keeps its type, whatever the number of nodes, messages and
\* sessions, the timeouts, and the frames of other makes: no computed counter
\* leaves its uint8_t, no session gets into a state of the other direction or
\* carries a message of another pair, and no frame leaves under another source.
THEOREM TypeCorrect == Spec => []TypeOK
<1> QED
  BY TypeInit, TypeStep, PTL DEF Spec
=============================================================================
