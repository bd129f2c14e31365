------------------------- MODULE TransportProtocol -------------------------
(***************************************************************************)
(* The ISO 11783 / J1939 transport protocol of the stack:                  *)
(* isobus/src/can_transport_protocol.cpp and can_transport_protocol_base.  *)
(* Every node runs one TransportProtocolManager for one control function.  *)
(*                                                                         *)
(* A session is kept under its (source, destination) pair, the pair        *)
(* get_session() and has_session() look for.  Its direction follows from   *)
(* the pair: node n transmits the sessions whose source is n.  A buffer is *)
(* counted in packets of 7 bytes, the size it is made from in bytes; the   *)
(* uint8_t counters keep their width.  A payload is the pair <<message,    *)
(* packet index>>.                                                         *)
(*                                                                         *)
(* tx[n] is node n's transmit path: the hardware transmit queue, the bus   *)
(* and the receivers' message queues in one FIFO.  An entry names the      *)
(* nodes that have still to process the frame.                             *)
(***************************************************************************)
EXTENDS Integers, Sequences, FiniteSets

CONSTANTS
  Node,             \* the nodes on the bus
  Foreign,          \* nodes that run some other implementation
  Global,           \* the destination of a broadcast (a null destination)
  Message,          \* what the applications hand to send_can_message()
  NoMessage,        \* the message of a receive session
  Header,           \* source, destination, PGN and size of a message
  PGN,              \* parameter group numbers
  ForeignFrame,     \* the frames foreign nodes may put on the bus
  Blank,            \* a packet of a receive buffer nothing was written to
  Padding,          \* the 0xFF filler behind the end of the message
  NoSession,
  MaxSessions,      \* configured maximum number of concurrent sessions
  PacketsPerCts,    \* configured number of packets per CTS message
  FramesPerUpdate,  \* configured number of data frames per update
  T1, T2T3, BamGap, \* T1, T2/T3 timeout and BAM frame gap, in clock ticks
  TxCapacity,       \* room of the transmit path
  Allowance,        \* bounds on the events of the environment
  Prompt            \* TRUE: the stack never lets a frame or an update wait
                    \* for longer than the timers allow

Byte == 0 .. 255
Word == 0 .. 65535
CAN_DATA_LENGTH == 8
MAX_PROTOCOL_DATA_LENGTH == 1785
MAX_PACKETS == 255                     \* MAX_PROTOCOL_DATA_LENGTH / 7
Stack == Node \ Foreign
Destination == Node \cup {Global}
Key == Node \X Destination
Payload == (Message \X (1 .. MAX_PACKETS)) \cup {Padding}
Event == {"loss", "other", "address", "foreign"}

\* The packets a message of that many bytes takes up
Slots(size) == (size + 6) \div 7
\* Variant: a last packet that is not full is not counted
PacketCountFloor(size) == (size \div 7) % 256
\* get_total_number_of_packets(), in uint8_t arithmetic
PacketCount(size) == Slots(size) % 256

HeaderType ==
  [src : Node, dst : Destination, pgn : PGN,
   size : CAN_DATA_LENGTH + 1 .. MAX_PROTOCOL_DATA_LENGTH]

ASSUME ConfigurationAssumption ==
  /\ MaxSessions \in Nat
  /\ PacketsPerCts \in Byte
  /\ FramesPerUpdate \in Byte
  /\ T1 \in Nat /\ T2T3 \in Nat /\ T1 <= T2T3 /\ BamGap \in 0 .. T1
  /\ TxCapacity \in Nat
  /\ Allowance \in [Event -> Nat]
  /\ Prompt \in BOOLEAN

ASSUME NodeAssumption ==
  /\ IsFiniteSet(Node)
  /\ Foreign \subseteq Node
  /\ Global \notin Node
  /\ NoMessage \notin Message
  /\ Blank \notin Payload
  /\ Header \in [Message -> HeaderType]
  /\ \A m \in Message : Header[m].src \in Stack /\ Header[m].dst # Header[m].src

VARIABLES
  sess,      \* sess[n][k]: the active session of node n for the pair k
  tx,        \* tx[n]: frames node n has sent and somebody has still to process
  outcome,   \* outcome[m]: what the application of m's source was told
  delivered, \* delivered[n]: the messages node n gave to its application
  known,     \* known[n]: the control functions with a valid address, to node n
  left       \* what is left of the allowance of environment events

vars == <<sess, tx, outcome, delivered, known, left>>

TxState == {"SendBroadcastAnnounce", "SendRequestToSend", "WaitForClearToSend",
            "SendDataTransferPackets", "WaitForEndOfMessageAcknowledge"}
RxState == {"SendClearToSend", "WaitForDataTransferPacket"}

-----------------------------------------------------------------------------
(* Sessions *)

Packets(m) == PacketCount(Header[m].size)

IsBroadcast(k) == k[2] = Global
Active(n) == {k \in Key : sess[n][k] # NoSession}
\* Variant: one session more than configured
FullLate(n) == Cardinality(Active(n)) > MaxSessions
\* The configured number of sessions is reached
Full(n) == Cardinality(Active(n)) >= MaxSessions

NewSession(m, pgn, total, limit, data, state) ==
  [msg |-> m, pgn |-> pgn, total |-> total, max |-> limit, data |-> data,
   state |-> state, last |-> 0, ack |-> 0, cts |-> 0, age |-> 0]

\* get_cts_number_of_packets_remaining(), in uint8_t arithmetic
CtsRemaining(s) == (s.cts - (s.last - s.ack)) % 256
\* get_number_of_remaining_packets()
Remaining(s) == (s.total - s.last) % 256

InState(s, state) == [s EXCEPT !.state = state, !.age = 0]

Close(n, K) == [sess EXCEPT ![n] = [k \in Key |-> IF k \in K THEN NoSession ELSE @[k]]]
Store(n, k, s) == [sess EXCEPT ![n][k] = s]

\* Variant: a failed session goes without a report
ReportSuccessOnly(n, k, result) ==
  IF k[1] = n /\ result = "success"
  THEN [outcome EXCEPT ![sess[n][k].msg] = result]
  ELSE outcome
\* TransportProtocolSessionBase::complete(): only transmit sessions report
Report(n, k, result) ==
  IF k[1] = n /\ sess[n][k] # NoSession
  THEN [outcome EXCEPT ![sess[n][k].msg] = result]
  ELSE outcome

-----------------------------------------------------------------------------
(* Frames *)

Frame(type, src, dst, pgn) == [type |-> type, src |-> src, dst |-> dst, pgn |-> pgn]

AnnounceFrame(k, s) ==
  [type |-> "BAM", src |-> k[1], dst |-> Global, pgn |-> s.pgn,
   size |-> Header[s.msg].size, packets |-> s.total]
RequestFrame(k, s) ==
  [type |-> "RTS", src |-> k[1], dst |-> k[2], pgn |-> s.pgn,
   size |-> Header[s.msg].size, packets |-> s.total, max |-> s.max]
ClearFrame(k, s, count) ==
  [type |-> "CTS", src |-> k[2], dst |-> k[1], pgn |-> s.pgn,
   count |-> count, next |-> (s.last + 1) % 256]
AckFrame(k, s) == Frame("EOMA", k[2], k[1], s.pgn)
AbortFrame(src, dst, pgn) == Frame("Abort", src, dst, pgn)

\* Variant: the last packet is taken for filler
DataFrameShort(k, s, sent) ==
  [type |-> "DT", src |-> k[1], dst |-> k[2], seq |-> (sent + 1) % 256,
   data |-> IF sent + 1 < s.total THEN s.data[sent + 1] ELSE Padding]
\* The frame send_data_transfer_packets() builds when `sent' packets are out
DataFrame(k, s, sent) ==
  [type |-> "DT", src |-> k[1], dst |-> k[2], seq |-> (sent + 1) % 256,
   data |-> IF sent < s.total THEN s.data[sent + 1] ELSE Padding]

Receivers(f) == IF f.dst = Global THEN Node \ {f.src} ELSE {f.dst}
Entry(f) == [frame |-> f, to |-> Receivers(f)]
Room(n) == TxCapacity - Len(tx[n])
Least(a, b) == IF a < b THEN a ELSE b

\* Node n hands the frames to the driver one after the other; the ones that
\* do not fit are refused.
Offer(n, frames) ==
  tx[n] \o [i \in 1 .. Least(Len(frames), Room(n)) |-> Entry(frames[i])]

\* The transmit path of a when node n has processed the first frame
Processed(a, n) ==
  LET h == Head(tx[a])
  IN IF h.to = {n} THEN Tail(tx[a])
                   ELSE <<[h EXCEPT !.to = @ \ {n}]>> \o Tail(tx[a])

\* Node n has processed the frame f of another node and sent these frames
Answer(n, f, frames) ==
  tx' = [tx EXCEPT ![f.src] = Processed(f.src, n), ![n] = Offer(n, frames)]

-----------------------------------------------------------------------------
(* Received connection management messages.  Each operator is one handler  *)
(* of node n for a frame f of another node.                                *)

\* send_clear_to_send(): the packets of the next segment
Segment(s) ==
  IF Remaining(s) > s.max THEN s.max
  ELSE IF Remaining(s) > 16 THEN 16 ELSE Remaining(s)
\* Variant: the acknowledged packet is not stored
ClearedWithoutAck(s) == [s EXCEPT !.cts = Segment(s), !.age = 0]
Cleared(s) == [s EXCEPT !.cts = Segment(s), !.ack = s.last, !.age = 0]

\* The buffer is as long as the frame says, the packets are counted in a byte
ReceiveSession(f, limit, state) ==
  NewSession(NoMessage, f.pgn, PacketCount(f.size), limit,
             [i \in 1 .. Slots(f.size) |-> Blank], state)

\* process_broadcast_announce_message(): one that is too long is ignored before
\* an old session is closed
ProcessAnnounce(n, f) ==
  LET k == <<f.src, Global>>
  IN /\ Answer(n, f, <<>>)
     /\ sess' = IF Full(n) \/ f.size > MAX_PROTOCOL_DATA_LENGTH THEN sess
                ELSE IF f.packets # PacketCount(f.size) THEN Close(n, {k})
                ELSE Store(n, k, ReceiveSession(f, 255, "WaitForDataTransferPacket"))
     /\ UNCHANGED <<outcome, delivered>>

\* process_request_to_send(): the limit on the sessions is checked first,
\* an old session of the pair is then replaced.  The size is compared with the
\* number of packets, not with MAX_PROTOCOL_DATA_LENGTH
ProcessRequestToSend(n, f) ==
  LET k == <<f.src, n>>
      old == sess[n][k]
      refusal == <<AbortFrame(n, f.src, f.pgn)>>
      aborted == IF old # NoSession /\ old.pgn # f.pgn
                 THEN <<AbortFrame(n, f.src, old.pgn)>> ELSE <<>>
      new == ReceiveSession(f, Least(f.max, PacketsPerCts), "SendClearToSend")
      clear == Append(aborted, ClearFrame(k, new, Segment(new)))
  IN /\ \/ /\ Full(n)
           /\ Answer(n, f, refusal)
           /\ UNCHANGED sess
        \/ /\ ~Full(n)
           /\ f.packets # PacketCount(f.size)
           /\ Answer(n, f, aborted \o refusal)
           /\ sess' = Close(n, {k})
        \/ /\ ~Full(n)
           /\ f.packets = PacketCount(f.size)
           /\ Answer(n, f, clear)
           /\ sess' = Store(n, k,
                IF Len(clear) <= Room(n)
                THEN InState(Cleared(new), "WaitForDataTransferPacket") ELSE new)
     /\ UNCHANGED <<outcome, delivered>>

\* process_clear_to_send()
ProcessClearToSend(n, f) ==
  LET k == <<n, f.src>>
      s == sess[n][k]
      granted == [s EXCEPT !.ack = (f.next - 1) % 256, !.cts = f.count, !.age = 0]
      GiveUp(frames) == /\ Answer(n, f, frames)
                        /\ sess' = Close(n, {k})
                        /\ outcome' = Report(n, k, "failure")
      abort == AbortFrame(n, f.src, s.pgn)
  IN /\ \/ /\ s = NoSession
           /\ Answer(n, f, <<>>)
           /\ UNCHANGED <<sess, outcome>>
        \/ /\ s # NoSession
           /\ s.pgn # f.pgn
           /\ GiveUp(<<abort, AbortFrame(n, f.src, f.pgn)>>)
        \/ /\ s # NoSession
           /\ s.pgn = f.pgn
           /\ f.next > s.total \/ s.state # "WaitForClearToSend"
           /\ GiveUp(<<abort>>)
        \/ /\ s # NoSession
           /\ s.pgn = f.pgn
           /\ f.next <= s.total /\ s.state = "WaitForClearToSend"
           /\ Answer(n, f, <<>>)
           /\ sess' = Store(n, k, IF f.count # 0
                                  THEN InState(granted, "SendDataTransferPackets")
                                  ELSE granted)
           /\ UNCHANGED outcome
     /\ UNCHANGED delivered

\* process_end_of_session_acknowledgement(): the PGN is not looked at
ProcessEndOfMessageAck(n, f) ==
  LET k == <<n, f.src>>
      s == sess[n][k]
  IN /\ Answer(n, f, <<>>)
     /\ IF s # NoSession /\ s.state = "WaitForEndOfMessageAcknowledge"
        THEN sess' = Close(n, {k}) /\ outcome' = Report(n, k, "success")
        ELSE UNCHANGED <<sess, outcome>>
     /\ UNCHANGED delivered

\* process_abort(): the sessions of both directions that carry the PGN
ProcessAbort(n, f) ==
  LET rx == <<f.src, n>>
      transmit == <<n, f.src>>
      Hit == {k \in {rx, transmit} : sess[n][k] # NoSession /\ sess[n][k].pgn = f.pgn}
  IN /\ Answer(n, f, <<>>)
     /\ sess' = Close(n, Hit)
     /\ outcome' = IF transmit \in Hit THEN Report(n, transmit, "failure") ELSE outcome
     /\ UNCHANGED delivered

\* process_connection_management_message(): which handler takes the frame
IgnoredManagement(f) == (f.type = "BAM") # (f.dst = Global)

-----------------------------------------------------------------------------
(* Received data transfer messages: process_data_transfer_message() *)

DeliveredMessage(k, s) == [src |-> k[1], dst |-> k[2], pgn |-> s.pgn, data |-> s.data]

\* The packet is the next one: it is copied, and the session goes on.  A
\* broadcast session has no control function to send a CTS from: the network
\* manager refuses a frame without a source.
TakePacket(n, f, k, s) ==
  LET got == [s EXCEPT !.data = [i \in DOMAIN @ |-> IF i = s.last + 1 THEN f.data ELSE @[i]],
                       !.last = f.seq, !.age = 0]
      done == Remaining(got) = 0
      asks == ~done /\ ~IsBroadcast(k) /\ CtsRemaining(got) = 0
  IN \/ /\ done
        /\ Answer(n, f, IF IsBroadcast(k) THEN <<>> ELSE <<AckFrame(k, got)>>)
        /\ delivered' = [delivered EXCEPT ![n] = Append(@, DeliveredMessage(k, got))]
        /\ sess' = Close(n, {k})
     \/ /\ ~done /\ asks
        /\ Answer(n, f, <<ClearFrame(k, got, Segment(got))>>)
        /\ sess' = Store(n, k, IF Room(n) > 0 THEN Cleared(got) ELSE got)
        /\ UNCHANGED delivered
     \/ /\ ~done /\ ~asks
        /\ Answer(n, f, <<>>)
        /\ sess' = Store(n, k, got)
        /\ UNCHANGED delivered

\* Variant: a gap goes unnoticed
ExpectedLater(s, f) == s.state = "WaitForDataTransferPacket" /\ f.seq > s.last
\* Neither out of state, nor a duplicate, nor out of sequence
Expected(s, f) == s.state = "WaitForDataTransferPacket" /\ f.seq = s.last + 1

ProcessDataTransfer(n, f) ==
  LET k == <<f.src, f.dst>>
      s == sess[n][k]
  IN /\ \/ /\ s = NoSession
           /\ Answer(n, f, <<>>)
           /\ UNCHANGED <<sess, delivered>>
        \/ /\ s # NoSession /\ ~Expected(s, f)
           /\ Answer(n, f, IF IsBroadcast(k) THEN <<>> ELSE <<AbortFrame(n, f.src, s.pgn)>>)
           /\ sess' = Close(n, {k})
           /\ UNCHANGED delivered
        \/ /\ s # NoSession /\ Expected(s, f)
           /\ TakePacket(n, f, k, s)
     /\ UNCHANGED outcome

-----------------------------------------------------------------------------
(* process_message(): node n processes the next frame of node a *)

Arrives(n, a) == Len(tx[a]) > 0 /\ n \in Head(tx[a]).to
Listens(n, f) == n \in Stack /\ f.src \in known[n] /\ (f.dst = Global \/ n \in known[n])

Ignore(n, a) ==
  /\ Arrives(n, a)
  /\ LET f == Head(tx[a]).frame
     IN /\ \/ ~Listens(n, f)
           \/ f.type = "Other"
           \/ f.type \in {"BAM", "RTS", "CTS", "EOMA", "Abort"} /\ IgnoredManagement(f)
        /\ tx' = [tx EXCEPT ![a] = Processed(a, n)]
  /\ UNCHANGED <<sess, outcome, delivered, known, left>>

Takes(n, a, type) ==
  /\ Arrives(n, a)
  /\ LET f == Head(tx[a]).frame
     IN f.type = type /\ Listens(n, f) /\ (type # "DT" => ~IgnoredManagement(f))

ReceiveAnnounce(n, a) ==
  /\ Takes(n, a, "BAM")
  /\ ProcessAnnounce(n, Head(tx[a]).frame)
  /\ UNCHANGED <<known, left>>
ReceiveRequestToSend(n, a) ==
  /\ Takes(n, a, "RTS")
  /\ ProcessRequestToSend(n, Head(tx[a]).frame)
  /\ UNCHANGED <<known, left>>
ReceiveClearToSend(n, a) ==
  /\ Takes(n, a, "CTS")
  /\ ProcessClearToSend(n, Head(tx[a]).frame)
  /\ UNCHANGED <<known, left>>
ReceiveEndOfMessageAck(n, a) ==
  /\ Takes(n, a, "EOMA")
  /\ ProcessEndOfMessageAck(n, Head(tx[a]).frame)
  /\ UNCHANGED <<known, left>>
ReceiveAbort(n, a) ==
  /\ Takes(n, a, "Abort")
  /\ ProcessAbort(n, Head(tx[a]).frame)
  /\ UNCHANGED <<known, left>>
ReceiveDataTransfer(n, a) ==
  /\ Takes(n, a, "DT")
  /\ ProcessDataTransfer(n, Head(tx[a]).frame)
  /\ UNCHANGED <<known, left>>

-----------------------------------------------------------------------------
(* The application: protocol_transmit_message().  A refusal (the source has *)
(* no address, or a session of the pair exists) changes nothing.            *)

TransmitSession(m) ==
  NewSession(m, Header[m].pgn, Packets(m), PacketsPerCts,
             [i \in 1 .. Packets(m) |-> <<m, i>>],
             IF Header[m].dst = Global THEN "SendBroadcastAnnounce" ELSE "SendRequestToSend")

\* update_state_machine() of a session that still has to open the connection
OpenFrame(k, s) ==
  IF IsBroadcast(k) THEN AnnounceFrame(k, s) ELSE RequestFrame(k, s)
Opened(k, s) == InState(s, IF IsBroadcast(k) THEN "SendDataTransferPackets"
                                             ELSE "WaitForClearToSend")

Submit(m) ==
  LET n == Header[m].src
      k == <<n, Header[m].dst>>
      s == TransmitSession(m)
      sends == Room(n) > 0 /\ (IsBroadcast(k) \/ k[2] \in known[n])
  IN /\ outcome[m] = "idle"
     /\ n \in known[n]
     /\ sess[n][k] = NoSession
     /\ outcome' = [outcome EXCEPT ![m] = "sending"]
     /\ sess' = Store(n, k, IF sends THEN Opened(k, s) ELSE s)
     /\ tx' = IF sends THEN [tx EXCEPT ![n] = Offer(n, <<OpenFrame(k, s)>>)] ELSE tx
     /\ UNCHANGED <<delivered, known, left>>

-----------------------------------------------------------------------------
(* update(): the loop runs this step once for every active session          *)

Finish(n, k, result, frames) ==
  /\ sess' = Close(n, {k})
  /\ outcome' = Report(n, k, result)
  /\ tx' = [tx EXCEPT ![n] = Offer(n, frames)]

GoOn(n, k, s, frames) ==
  /\ sess' = Store(n, k, s)
  /\ tx' = [tx EXCEPT ![n] = Offer(n, frames)]
  /\ UNCHANGED outcome

\* Variant: the abort always goes to the destination of the session
PartnerAbortToDestination(n, k, s) ==
  IF IsBroadcast(k) THEN <<>> ELSE <<AbortFrame(n, k[2], s.pgn)>>
\* The abort frame abort_session() sends, from this node to its partner
PartnerAbort(n, k, s) ==
  IF IsBroadcast(k) THEN <<>>
  ELSE <<AbortFrame(n, IF k[1] = n THEN k[2] ELSE k[1], s.pgn)>>

LostAddress(n, k) == k[1] \notin known[n] \/ (~IsBroadcast(k) /\ k[2] \notin known[n])

CloseUnreachable(n, k) ==
  /\ sess[n][k] # NoSession
  /\ LostAddress(n, k)
  /\ Finish(n, k, "failure", <<>>)
  /\ UNCHANGED <<delivered, known, left>>

Updates(n, k, state) ==
  /\ sess[n][k] # NoSession
  /\ ~LostAddress(n, k)
  /\ sess[n][k].state = state

\* States SendBroadcastAnnounce, SendRequestToSend and SendClearToSend: the
\* frame was refused before and is offered again
OpenConnection(n, k) ==
  /\ \/ Updates(n, k, "SendBroadcastAnnounce")
     \/ Updates(n, k, "SendRequestToSend")
  /\ Room(n) > 0
  /\ GoOn(n, k, Opened(k, sess[n][k]), <<OpenFrame(k, sess[n][k])>>)
  /\ UNCHANGED <<delivered, known, left>>

SendClearToSend(n, k) ==
  /\ Updates(n, k, "SendClearToSend")
  /\ Room(n) > 0
  /\ LET s == sess[n][k]
     IN GoOn(n, k, InState(Cleared(s), "WaitForDataTransferPacket"),
             <<ClearFrame(k, s, Segment(s))>>)
  /\ UNCHANGED <<delivered, known, left>>

\* Variant: the clear to send does not bound the burst
BurstLengthUngranted(n, k, s) ==
  Least(IF IsBroadcast(k) THEN 1 ELSE FramesPerUpdate, Room(n))
\* send_data_transfer_packets(): as many frames as the CTS, the configuration
\* and the transmit path allow
BurstLength(n, k, s) ==
  LET quota == IF IsBroadcast(k) THEN 1 ELSE Least(CtsRemaining(s), FramesPerUpdate)
  IN Least(quota, Room(n))

SendDataTransferPackets(n, k) ==
  /\ Updates(n, k, "SendDataTransferPackets")
  /\ IsBroadcast(k) => sess[n][k].age >= BamGap
  /\ LET s == sess[n][k]
         count == BurstLength(n, k, s)
         burst == [i \in 1 .. count |-> DataFrame(k, s, (s.last + i - 1) % 256)]
         after == IF count = 0 THEN s
                  ELSE [s EXCEPT !.last = (s.last + count) % 256, !.age = 0]
     IN \/ /\ Remaining(after) = 0 /\ IsBroadcast(k)
           /\ Finish(n, k, "success", burst)
        \/ /\ Remaining(after) = 0 /\ ~IsBroadcast(k)
           /\ GoOn(n, k, InState(after, "WaitForEndOfMessageAcknowledge"), burst)
        \/ /\ Remaining(after) # 0
           /\ GoOn(n, k, IF CtsRemaining(after) = 0 /\ ~IsBroadcast(k)
                         THEN InState(after, "WaitForClearToSend") ELSE after, burst)
  /\ UNCHANGED <<delivered, known, left>>

\* Variant: no timeout for the acknowledgement
ExpiredNotForAck(k, s) ==
  \/ s.state = "WaitForClearToSend" /\ s.age > T2T3
  \/ s.state = "WaitForDataTransferPacket" /\ s.age > T2T3
\* Variant: no timeout for the first packet after a clear to send
ExpiredNotForFirst(k, s) ==
  \/ s.state \in {"WaitForClearToSend", "WaitForEndOfMessageAcknowledge"} /\ s.age > T2T3
  \/ s.state = "WaitForDataTransferPacket" /\ CtsRemaining(s) # s.cts /\ s.age > T1
\* The timeouts of the waiting states; the connection is aborted once it is
\* established
Expired(k, s) ==
  \/ s.state = "WaitForClearToSend" /\ s.age > T2T3
  \/ s.state = "WaitForEndOfMessageAcknowledge" /\ s.age > T2T3
  \/ /\ s.state = "WaitForDataTransferPacket"
     /\ s.age > IF ~IsBroadcast(k) /\ CtsRemaining(s) = s.cts THEN T2T3 ELSE T1

TimeOut(n, k) ==
  /\ sess[n][k] # NoSession
  /\ ~LostAddress(n, k)
  /\ LET s == sess[n][k]
     IN /\ Expired(k, s)
        /\ Finish(n, k, "failure",
             IF s.state = "WaitForClearToSend" /\ s.cts = 0 THEN <<>>
             ELSE PartnerAbort(n, k, s))
  /\ UNCHANGED <<delivered, known, left>>

UpdateSession(n, k) ==
  \/ CloseUnreachable(n, k)
  \/ OpenConnection(n, k)
  \/ SendClearToSend(n, k)
  \/ SendDataTransferPackets(n, k)
  \/ TimeOut(n, k)

-----------------------------------------------------------------------------
(* The environment: time, the bus, other traffic, address claims, and the   *)
(* nodes that run another implementation                                    *)

Use(event) == left[event] > 0 /\ left' = [left EXCEPT ![event] = @ - 1]

\* Nothing is left to do for this session before time goes on
Idle(k, s) ==
  \/ /\ s.state \in {"WaitForClearToSend", "WaitForDataTransferPacket",
                     "WaitForEndOfMessageAcknowledge"}
     /\ ~Expired(k, s)
  \/ s.state = "SendDataTransferPackets" /\ IsBroadcast(k) /\ s.age < BamGap

Tick ==
  /\ Prompt => /\ \A n \in Node : tx[n] = <<>>
               /\ \A n \in Stack : \A k \in Active(n) : Idle(k, sess[n][k])
  /\ sess' = [n \in Node |-> [k \in Key |->
                IF sess[n][k] = NoSession THEN NoSession
                ELSE [sess[n][k] EXCEPT !.age = Least(@ + 1, T2T3 + 1)]]]
  /\ UNCHANGED <<tx, outcome, delivered, known, left>>

Lose(n, a) ==
  /\ Arrives(n, a)
  /\ Use("loss")
  /\ tx' = [tx EXCEPT ![a] = Processed(a, n)]
  /\ UNCHANGED <<sess, outcome, delivered, known>>

SendOther(n, b) ==
  /\ n # b /\ Room(n) > 0
  /\ Use("other")
  /\ tx' = [tx EXCEPT ![n] = Append(@, Entry([type |-> "Other", src |-> n, dst |-> b]))]
  /\ UNCHANGED <<sess, outcome, delivered, known>>

LoseAddress(n, c) ==
  /\ c \in known[n]
  /\ Use("address")
  /\ known' = [known EXCEPT ![n] = @ \ {c}]
  /\ UNCHANGED <<sess, tx, outcome, delivered>>

RegainAddress(n, c) ==
  /\ c \notin known[n]
  /\ known' = [known EXCEPT ![n] = @ \cup {c}]
  /\ UNCHANGED <<sess, tx, outcome, delivered, left>>

ForeignSend(f) ==
  /\ Room(f.src) > 0
  /\ Use("foreign")
  /\ tx' = [tx EXCEPT ![f.src] = Append(@, Entry(f))]
  /\ UNCHANGED <<sess, outcome, delivered, known>>

-----------------------------------------------------------------------------
(* The specification *)

Init ==
  /\ sess = [n \in Node |-> [k \in Key |-> NoSession]]
  /\ tx = [n \in Node |-> <<>>]
  /\ outcome = [m \in Message |-> "idle"]
  /\ delivered = [n \in Node |-> <<>>]
  /\ known = [n \in Node |-> Node]
  /\ left = Allowance

Receive(n, a) ==
  \/ Ignore(n, a)
  \/ ReceiveAnnounce(n, a)
  \/ ReceiveRequestToSend(n, a)
  \/ ReceiveClearToSend(n, a)
  \/ ReceiveEndOfMessageAck(n, a)
  \/ ReceiveAbort(n, a)
  \/ ReceiveDataTransfer(n, a)

Environment ==
  \/ Tick
  \/ \E n, a \in Node : Lose(n, a)
  \/ \E n \in Stack, b \in Node : SendOther(n, b)
  \/ \E n \in Stack, c \in Node : LoseAddress(n, c) \/ RegainAddress(n, c)
  \/ \E f \in ForeignFrame : ForeignSend(f)

Next ==
  \/ \E m \in Message : Submit(m)
  \/ \E n, a \in Node : Receive(n, a)
  \/ \E n \in Stack, k \in Key : UpdateSession(n, k)
  \/ Environment

Spec == Init /\ [][Next]_vars

\* The CAN thread processes every received frame and updates every session
\* again and again, the driver puts every queued frame on the bus, and time
\* goes on.
Fairness ==
  /\ WF_vars(Tick)
  /\ \A n, a \in Node : WF_vars(Receive(n, a))
  /\ \A n \in Stack, k \in Key : WF_vars(UpdateSession(n, k))

FairSpec == Spec /\ Fairness

-----------------------------------------------------------------------------
(* Properties *)

SessionRecord ==
  [msg : Message \cup {NoMessage}, pgn : PGN, total : Byte, max : Byte,
   data : Seq(Payload \cup {Blank}), state : TxState \cup RxState, last : Byte, ack : Byte,
   cts : Byte, age : 0 .. T2T3 + 1]
Session == {s \in SessionRecord : Len(s.data) % 256 = s.total}

FrameType ==
  [type : {"BAM"}, src : Node, dst : Destination, pgn : PGN, size : Word, packets : Byte]
  \cup [type : {"RTS"}, src : Node, dst : Destination, pgn : PGN, size : Word,
        packets : Byte, max : Byte]
  \cup [type : {"CTS"}, src : Node, dst : Destination, pgn : PGN, count : Byte, next : Byte]
  \cup [type : {"EOMA", "Abort"}, src : Node, dst : Destination, pgn : PGN]
  \cup [type : {"DT"}, src : Node, dst : Destination, seq : Byte, data : Payload]
  \cup [type : {"Other"}, src : Node, dst : Node]

\* What node n may keep under the pair k: it is the source of what it transmits
\* and the destination, or one of many, of what it receives
SessionOf(n, k) ==
  {s \in Session :
     /\ n \in Stack
     /\ IF k[1] = n
        THEN /\ s.msg \in Message /\ Header[s.msg].src = k[1] /\ Header[s.msg].dst = k[2]
             /\ s.state \in TxState /\ s.data \in Seq(Payload) /\ Len(s.data) = s.total
        ELSE /\ k[2] \in {n, Global} /\ s.msg = NoMessage
             /\ s.state \in RxState /\ (s.state = "SendClearToSend" => k[2] = n)}

FrameOf(n) == {f \in FrameType : f.src = n /\ f.dst # n}
EntryOf(n) == [frame : FrameOf(n), to : SUBSET (Node \ {n})]
Delivery == [src : Node, dst : Destination, pgn : PGN, data : Seq(Payload \cup {Blank})]

ASSUME FrameAssumption ==
  /\ NoSession \notin Session
  /\ \A f \in ForeignFrame : f.src \in Foreign /\ f \in FrameOf(f.src)

SessionsOK(se) ==
  /\ se \in [Node -> [Key -> Session \cup {NoSession}]]
  /\ \A n \in Node, k \in Key : se[n][k] # NoSession => se[n][k] \in SessionOf(n, k)
PathsOK(t) == DOMAIN t = Node /\ \A n \in Node : t[n] \in Seq(EntryOf(n))
OutcomesOK(o) == o \in [Message -> {"idle", "sending", "success", "failure"}]

\* Every variable keeps its type: the uint8_t counters stay in their width, a
\* session is only ever in a state of its own direction and carries a message
\* of its own pair, and every frame on a transmit path is well formed and one
\* of its own node.
TypeOK ==
  /\ SessionsOK(sess)
  /\ PathsOK(tx)
  /\ OutcomesOK(outcome)
  /\ delivered \in [Node -> Seq(Delivery)]
  /\ known \in [Node -> SUBSET Node]
  /\ left \in [Event -> Nat]

\* A receive buffer holds the packets 1 .. last, each at its own place, and
\* nothing behind them; a session that has them all is gone, and the message
\* it leaves to the application has no gap, whatever size and number of packets
\* the request said.  Except where a buffer of more than 255 packets, which
\* MAX_PROTOCOL_DATA_LENGTH rules out and a request to send gets (lines 186-251),
\* outruns the uint8_t count: what is behind the count then remains empty, and a
\* session whose count is 0 is never complete.
BufferInOrder ==
  \A n \in Stack :
    /\ \A k \in Active(n) :
         LET s == sess[n][k]
         IN k[1] # n => /\ s.last < s.total \/ s.total = 0
                        /\ \A i \in 1 .. Len(s.data) : (s.data[i] = Blank) = (i > s.last)
    /\ \A i \in 1 .. Len(delivered[n]) :
         LET data == delivered[n][i].data
         IN \A j \in 1 .. Len(data) : (data[j] = Blank) = (j > Len(data) % 256)

\* A message is being sent exactly as long as a session of its sender carries
\* it: no path closes a session without the report to the application, and
\* none reports a message whose session goes on.
SendingHasSession ==
  \A m \in Message :
    LET s == sess[Header[m].src][<<Header[m].src, Header[m].dst>>]
    IN (outcome[m] = "sending") = (s # NoSession /\ s.msg = m)

\* The frames of a connection never run ahead of the last clear to send, nor
\* past the end of the message.
WithinGrant ==
  \A n \in Stack : \A k \in Active(n) :
    LET s == sess[n][k]
    IN k[1] = n /\ ~IsBroadcast(k) =>
         s.ack <= s.last /\ s.last <= s.ack + s.cts /\ s.last <= s.total

\* What the header says of get_cts_number_of_packets(): it is the number of
\* packets that can be sent in response to the current CTS.
NoMoreThanGranted ==
  \A n \in Stack : \A k \in Active(n) :
    LET s == sess[n][k]
    IN k[1] = n /\ ~IsBroadcast(k) => CtsRemaining(s) <= s.cts

\* The receive sessions alone respect the configured limit on sessions.
ReceiveSessionsWithinLimit ==
  \A n \in Stack : Cardinality({k \in Active(n) : k[1] # n}) <= MaxSessions

\* Every session ends: no exchange of frames, refusals and timeouts keeps one
\* alive for ever.
SessionsEnd ==
  \A n \in Stack, k \in Key : sess[n][k] # NoSession ~> sess[n][k] = NoSession

\* As long as the bus shows no fault, an accepted message is sent to its end.
FaultlessSucceeds ==
  \A m \in Message :
    outcome[m] = "sending" ~> outcome[m] = "success" \/ left # Allowance

-----------------------------------------------------------------------------
(* The abstract view: MessageTransfer, with the same two variables *)

Content(m) == [src |-> Header[m].src, dst |-> Header[m].dst, pgn |-> Header[m].pgn,
               data |-> [i \in 1 .. Packets(m) |-> <<m, i>>]]
Transfer == INSTANCE MessageTransfer WITH
  Broadcast <- LAMBDA m : Header[m].dst = Global,
  Receivers <- LAMBDA m : IF Header[m].dst = Global THEN Node \ {Header[m].src}
                                                    ELSE {Header[m].dst},
  Content <- Content

\* Whole messages, each at most once, and a success only after the delivery
TransferSafety == Transfer!Safety
\* ... and every accepted message is reported in the end
TransferSpec == Transfer!Spec
=============================================================================
