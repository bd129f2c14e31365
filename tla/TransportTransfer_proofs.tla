---------------------- MODULE TransportTransfer_proofs ------------------------
(*****************************************************************************)
(* What both ends of a transfer do together, for nodes that all run this     *)
(* stack: the sender stays within the grant of its receiver (GrantsKept) and *)
(* TransportProtocol implements the safety of MessageTransfer (TransferKept).*)
(*                                                                           *)
(* The argument looks at one pair of source and destination at a time.       *)
(* Either nothing of it is under way, or all the sessions and frames of the  *)
(* pair belong to one message (Exchange), and the counters of both ends and  *)
(* of the frames between them fit (Grants).  A step either takes something   *)
(* away from a pair (Subsides) or is one of the handlers that add to it.     *)
(*****************************************************************************)
EXTENDS TransportSessions_proofs

-----------------------------------------------------------------------------
(* The exchange of a pair: what its message has under way *)

\* The frames of the exchange of the pair k: those that open it, carry it,
\* clear the next packets, and confirm the end
Opening(k, f) == f.type \in {"BAM", "RTS"} /\ f.src = k[1] /\ f.dst = k[2]
Carrying(k, f) == f.type = "DT" /\ f.src = k[1] /\ f.dst = k[2]
Clearing(k, f) == f.type = "CTS" /\ f.src = k[2] /\ f.dst = k[1]
Confirming(k, f) == f.type = "EOMA" /\ f.src = k[2] /\ f.dst = k[1]
Concerns(k, f) == Opening(k, f) \/ Carrying(k, f) \/ Clearing(k, f) \/ Confirming(k, f)

\* A frame belongs to the exchange of one pair at most.
LEMMA OnePair ==
  ASSUME NEW k \in Key, NEW q \in Key, NEW f, Concerns(k, f), Concerns(q, f)
  PROVE  q = k
BY KeyType DEF Concerns, Opening, Carrying, Clearing, Confirming

-----------------------------------------------------------------------------
(* What a step does to a transmit path *)

\* The places of a path
Places(q) == 1 .. Len(q)

\* r is the path q without its first d entries and with these frames behind it
Follows(q, r, d, new) ==
  /\ d \in 0 .. Len(q) /\ Len(r) = Len(q) - d + Len(new)
  /\ \A i \in 1 .. Len(q) - d : r[i].frame = q[i + d].frame /\ r[i].to \subseteq q[i + d].to
  /\ \A i \in 1 .. Len(new) : r[Len(q) - d + i] = Entry(new[i])

\* Of the frames of the pair k, r has no other ones than q, in the same order
LosesFrames(k, q, r) ==
  \E d \in Nat : \A i \in Places(r) :
    Concerns(k, r[i].frame) =>
      i + d \in Places(q) /\ r[i].frame = q[i + d].frame /\ r[i].to \subseteq q[i + d].to

\* An entry of a path.
LEMMA PlaceType ==
  ASSUME NEW S, NEW q \in Seq(S), NEW i \in Places(q)
  PROVE  i \in Nat /\ i >= 1 /\ i <= Len(q) /\ q[i] \in S
BY DEF Places

\* A path follows itself.
LEMMA SamePath ==
  ASSUME NEW S, NEW q \in Seq(S)
  PROVE  Follows(q, q, 0, <<>>)
BY DEF Follows

\* The path of a when n has processed the first frame.
LEMMA ProcessedPath ==
  ASSUME PathsOK(tx), NEW n \in Node, NEW a \in Node, Arrives(n, a)
  PROVE  \E d \in {0, 1} :
           /\ Follows(tx[a], Processed(a, n), d, <<>>)
           /\ d = 0 => n \notin Processed(a, n)[1].to
           /\ Head(tx[a]).to = {n} => d = 1
<1> DEFINE q == tx[a]
           h == Head(q)
<1>1. q \in Seq(EntryOf(a)) /\ Len(q) \in Nat /\ Len(q) > 0 /\ q # <<>>
  BY DEF PathsOK, Arrives
<1>2. h \in EntryOf(a) /\ h = q[1]
  BY <1>1
<1> HIDE DEF h
<1>3. CASE h.to = {n}
  <2>1. Processed(a, n) = Tail(q)
    BY <1>3 DEF Processed, h
  <2>2. Len(Tail(q)) = Len(q) - 1 /\ \A i \in 1 .. Len(q) - 1 : Tail(q)[i] = q[i + 1]
    BY <1>1
  <2>3. Follows(q, Tail(q), 1, <<>>)
    <3> HIDE DEF q
    <3> QED
      BY <1>1, <2>2 DEF Follows
  <2> QED
    BY <2>1, <2>3
<1>4. CASE h.to # {n}
  <2> DEFINE g == [h EXCEPT !.to = @ \ {n}]
             r == <<g>> \o Tail(q)
  <2>1. Processed(a, n) = r
    BY <1>4 DEF Processed, h
  <2>2. g.frame = h.frame /\ g.to = h.to \ {n} /\ g \in EntryOf(a)
    BY <1>2 DEF EntryOf
  <2> HIDE DEF g
  <2>3. /\ Len(r) = Len(q) /\ r[1] = g
        /\ \A i \in 2 .. Len(q) : r[i] = q[i]
    <3>1. Tail(q) \in Seq(EntryOf(a)) /\ Len(Tail(q)) = Len(q) - 1
          /\ \A i \in 1 .. Len(q) - 1 : Tail(q)[i] = q[i + 1]
      BY <1>1
    <3>2. <<g>> \in Seq(EntryOf(a)) /\ Len(<<g>>) = 1 /\ <<g>>[1] = g
      BY <2>2
    <3> QED
      BY <1>1, <3>1, <3>2, ConcatProperties
  <2> HIDE DEF r
  <2>4. Follows(q, r, 0, <<>>)
    <3> HIDE DEF q
    <3>1. ASSUME NEW i \in 1 .. Len(q)
          PROVE  r[i].frame = q[i].frame /\ r[i].to \subseteq q[i].to
      BY <1>1, <1>2, <2>2, <2>3
    <3> QED
      BY <1>1, <2>3, <3>1 DEF Follows
  <2>5. n \notin r[1].to
    BY <2>2, <2>3
  <2>6. Head(tx[a]).to # {n}
    BY <1>4 DEF h
  <2> QED
    BY <2>1, <2>4, <2>5, <2>6
<1> QED
  BY <1>3, <1>4

\* The path of n when it has offered frames: the first of them, all when there
\* is room, none when there is no room.
LEMMA OfferPath ==
  ASSUME PathsOK(tx), NEW n \in Node, NEW frames \in Seq(FrameOf(n))
  PROVE  \E sent \in Seq(FrameOf(n)) :
           /\ Follows(tx[n], Offer(n, frames), 0, sent)
           /\ Len(sent) <= Len(frames) /\ \A i \in 1 .. Len(sent) : sent[i] = frames[i]
           /\ Len(frames) <= Room(n) => sent = frames
           /\ Room(n) <= 0 => sent = <<>>
           /\ Room(n) >= 0 => Len(sent) <= Room(n)
<1> DEFINE q == tx[n]
           count == Least(Len(frames), Room(n))
           size == IF count < 0 THEN 0 ELSE count
           sent == [i \in 1 .. size |-> frames[i]]
           added == [i \in 1 .. count |-> Entry(frames[i])]
<1>1. q \in Seq(EntryOf(n)) /\ Len(q) \in Nat /\ Room(n) \in Int /\ Len(frames) \in Nat
  BY ConfigurationAssumption DEF PathsOK, Room
<1>2. size \in Nat /\ size <= Len(frames) /\ 1 .. size = 1 .. count
  BY <1>1, LeastType
<1>3. /\ (Len(frames) <= Room(n) => size = Len(frames)) /\ (Room(n) <= 0 => size = 0)
      /\ Room(n) >= 0 => size <= Room(n)
  BY <1>1 DEF Least
<1> HIDE DEF size
<1>4. sent \in Seq(FrameOf(n)) /\ Len(sent) = size /\ \A i \in 1 .. size : sent[i] = frames[i]
  <2>1. \A i \in 1 .. size : frames[i] \in FrameOf(n)
    BY <1>1, <1>2
  <2>2. sent \in [1 .. size -> FrameOf(n)]
    BY <2>1
  <2> QED
    BY <1>2, <2>2, FunctionIsSequence, LenProperties
<1>5. added = [i \in 1 .. size |-> Entry(frames[i])]
  BY <1>2
<1>6. added \in Seq(EntryOf(n)) /\ Len(added) = size
  <2>1. \A i \in 1 .. size : Entry(frames[i]) \in EntryOf(n)
    BY <1>1, <1>2, EntryType
  <2>2. added \in [1 .. size -> EntryOf(n)] /\ DOMAIN added = 1 .. size
    BY <1>5, <2>1
  <2> HIDE DEF added
  <2>3. added \in Seq(EntryOf(n))
    BY <1>2, <2>2, FunctionIsSequence
  <2> QED
    BY <1>2, <2>2, <2>3, LenProperties
<1>7. Offer(n, frames) = q \o added
  BY DEF Offer
<1>8. \A i \in 1 .. size : added[i] = Entry(sent[i])
  BY <1>4, <1>5
<1>9. Follows(q, q \o added, 0, sent)
  <2> HIDE DEF q, added, sent
  <2>1. /\ Len(q \o added) = Len(q) + size
        /\ \A i \in 1 .. Len(q) : (q \o added)[i] = q[i]
        /\ \A i \in 1 .. size : (q \o added)[Len(q) + i] = added[i]
    <3>1. /\ Len(q \o added) = Len(q) + size
          /\ \A i \in 1 .. Len(q) + size :
                (q \o added)[i] = IF i <= Len(q) THEN q[i] ELSE added[i - Len(q)]
      BY <1>1, <1>2, <1>6, ConcatProperties
    <3>2. ASSUME NEW i \in 1 .. size
          PROVE  Len(q) + i \in 1 .. Len(q) + size /\ ~(Len(q) + i <= Len(q))
                 /\ (Len(q) + i) - Len(q) = i
      BY <1>1, <1>2
    <3> QED
      BY <1>1, <1>2, <3>1, <3>2
  <2> QED
    BY <1>1, <1>2, <1>4, <1>8, <2>1 DEF Follows
<1>10. (Len(frames) <= Room(n) => sent = frames) /\ (Room(n) <= 0 => sent = <<>>)
  <2>1. ASSUME size = Len(frames)
        PROVE  sent = frames
    BY <1>4, <2>1, SeqEqual
  <2>2. ASSUME size = 0
        PROVE  sent = <<>>
    BY <1>4, <2>2
  <2> QED
    BY <1>3, <2>1, <2>2
<1> HIDE DEF sent
<1> QED
  BY <1>2, <1>3, <1>4, <1>7, <1>9, <1>10

\* Frames of other exchanges behind a path add nothing to this one.
LEMMA FollowsLoses ==
  ASSUME NEW k, NEW S, NEW q \in Seq(S), NEW r, NEW d, NEW new, Len(new) \in Nat,
         Follows(q, r, d, new), \A i \in 1 .. Len(new) : ~Concerns(k, new[i])
  PROVE  LosesFrames(k, q, r)
<1>1. Len(q) \in Nat /\ d \in 0 .. Len(q)
  BY DEF Follows
<1>2. ASSUME NEW i \in 1 .. Len(r), Concerns(k, r[i].frame)
      PROVE  i + d \in 1 .. Len(q) /\ r[i].frame = q[i + d].frame /\ r[i].to \subseteq q[i + d].to
  <2>1. CASE i <= Len(q) - d
    BY <1>1, <2>1 DEF Follows
  <2>2. CASE i > Len(q) - d
    <3>1. i - (Len(q) - d) \in 1 .. Len(new) /\ i = Len(q) - d + (i - (Len(q) - d))
      BY <1>1, <2>2 DEF Follows
    <3>2. r[i] = Entry(new[i - (Len(q) - d)])
      BY <3>1 DEF Follows
    <3> QED
      BY <1>2, <3>1, <3>2 DEF Entry
  <2> QED
    BY <1>1, <2>1, <2>2
<1>3. d \in Nat
  BY <1>1
<1> QED
  BY <1>2, <1>3 DEF LosesFrames, Places

USE DEF Byte, MAX_PACKETS

-----------------------------------------------------------------------------
(* The exchange of a message *)

Arrived(m, n) == \E i \in 1 .. Len(delivered[n]) : delivered[n][i] = Content(m)

\* No frame of the exchange of the pair is under way
NoFrames(k) == \A x \in Node : \A i \in Places(tx[x]) : ~Concerns(k, tx[x][i].frame)
\* ... and no node has a session of the pair
Quiet(k) == NoFrames(k) /\ \A n \in Node : sess[n][k] = NoSession

\* The message m of the pair k is still to be announced or requested
Unopened(k, m) ==
  NoFrames(k) /\ \A n \in Node : n # k[1] => sess[n][k] = NoSession /\ ~Arrived(m, n)

SenderOf(k, m, s) ==
  /\ s.msg = m /\ s.pgn = Header[m].pgn /\ s.total = Packets(m)
  /\ s.data = Content(m).data
  /\ s.state \in {"SendBroadcastAnnounce", "SendRequestToSend"} => Unopened(k, m) /\ s.last = 0
  /\ s.state = "SendDataTransferPackets" => s.last < s.total
ReceiverOf(m, n, r) ==
  /\ r.pgn = Header[m].pgn /\ r.total = Packets(m) /\ Len(r.data) = r.total
  /\ \A i \in 1 .. r.last : r.data[i] = <<m, i>>
  /\ ~Arrived(m, n)
OpeningOf(k, m, e) ==
  /\ e.frame.pgn = Header[m].pgn /\ e.frame.size = Header[m].size
  /\ e.frame.packets = Packets(m)
  /\ \A n \in e.to : sess[n][k] = NoSession /\ ~Arrived(m, n)
CarryingOf(k, m, f) ==
  /\ f.seq \in 1 .. Packets(m) /\ f.data = <<m, f.seq>>
  /\ sess[k[1]][k] # NoSession => f.seq <= sess[k[1]][k].last

\* The packets follow the frame that opens the exchange, each before the next
Ordered(k, q) ==
  \A i, j \in Places(q) :
    i < j /\ (Opening(k, q[i].frame) \/ Carrying(k, q[i].frame)) =>
      /\ ~Opening(k, q[j].frame)
      /\ Carrying(k, q[i].frame) /\ Carrying(k, q[j].frame) => q[i].frame.seq < q[j].frame.seq

SendersSession(k, m) == sess[k[1]][k] # NoSession => SenderOf(k, m, sess[k[1]][k])
ReceiversSessions(k, m) ==
  \A n \in Node : n # k[1] /\ sess[n][k] # NoSession => ReceiverOf(m, n, sess[n][k])
SendersFrames(k, m) ==
  \A i \in Places(tx[k[1]]) :
    /\ Opening(k, tx[k[1]][i].frame) => OpeningOf(k, m, tx[k[1]][i])
    /\ Carrying(k, tx[k[1]][i].frame) => CarryingOf(k, m, tx[k[1]][i].frame)
ReceiversFrames(k, m) ==
  k[2] \in Node => \A i \in Places(tx[k[2]]) :
    Confirming(k, tx[k[2]][i].frame) => Arrived(m, k[2])

\* All that is under way of the pair k belongs to the message m
Exchange(k, m) ==
  /\ Pair(m) = k /\ outcome[m] # "idle"
  /\ SendersSession(k, m) /\ ReceiversSessions(k, m)
  /\ SendersFrames(k, m) /\ ReceiversFrames(k, m)
  /\ Ordered(k, tx[k[1]])

-----------------------------------------------------------------------------
(* The grants of an exchange with one receiver *)

Granted(s) == s.ack <= s.last /\ s.last <= s.ack + s.cts /\ s.ack + s.cts <= s.total
SenderGrant(s) ==
  /\ Granted(s)
  /\ s.state \in {"SendBroadcastAnnounce", "SendRequestToSend"} => s.ack + s.cts = 0
  /\ s.state = "SendDataTransferPackets" => s.last < s.ack + s.cts
  /\ s.state = "WaitForEndOfMessageAcknowledge" => s.last = s.total
ReceiverGrant(r) == Granted(r) /\ (r.state = "SendClearToSend" => r.ack + r.cts = 0)
NoCarrying(k, q) == \A i \in Places(q) : ~Carrying(k, q[i].frame)
NoClearing(k, q) == \A i \in Places(q) : ~Clearing(k, q[i].frame)
\* A clear to send that is under way
ClearingOf(k, f, s, r) ==
  /\ f.next >= 1
  /\ s # NoSession => /\ s.state = "WaitForClearToSend" /\ s.last = f.next - 1
                      /\ f.next - 1 + f.count <= s.total
  /\ r # NoSession => /\ r.state = "WaitForDataTransferPacket"
                      /\ r.ack = f.next - 1 /\ r.cts = f.count

SessionGrants(k) ==
  LET s == sess[k[1]][k]
      r == sess[k[2]][k]
  IN /\ s # NoSession => SenderGrant(s)
     /\ r # NoSession => ReceiverGrant(r)
     /\ s # NoSession /\ r # NoSession => s.ack + s.cts <= r.ack + r.cts
FrameGrants(k) ==
  LET s == sess[k[1]][k]
      r == sess[k[2]][k]
  IN \A i \in Places(tx[k[1]]) :
       LET f == tx[k[1]][i].frame
       IN /\ Carrying(k, f) /\ r # NoSession => f.seq <= r.ack + r.cts
          /\ Opening(k, f) =>
               /\ r = NoSession
               /\ s # NoSession => s.state = "WaitForClearToSend" /\ s.ack + s.cts = 0
               /\ NoCarrying(k, tx[k[1]]) /\ NoClearing(k, tx[k[2]])
ClearGrants(k) ==
  \A i \in Places(tx[k[2]]) :
    Clearing(k, tx[k[2]][i].frame) =>
      /\ ClearingOf(k, tx[k[2]][i].frame, sess[k[1]][k], sess[k[2]][k])
      /\ NoCarrying(k, tx[k[1]])
      /\ \A j \in Places(tx[k[2]]) : Clearing(k, tx[k[2]][j].frame) => i = j
Grants(k) == SessionGrants(k) /\ FrameGrants(k) /\ ClearGrants(k)

Sound(k) ==
  /\ Quiet(k) \/ \E m \in Message : Exchange(k, m)
  /\ k[2] \in Node /\ k[2] # k[1] => Grants(k)

-----------------------------------------------------------------------------
(* Steps that add nothing to an exchange *)

\* The same session, but for its age and the limit of its next grant
Alike(s, t) ==
  /\ s.msg = t.msg /\ s.pgn = t.pgn /\ s.total = t.total /\ s.data = t.data
  /\ s.state = t.state /\ s.last = t.last /\ s.ack = t.ack /\ s.cts = t.cts

SessionsSubside(k) ==
  \A n \in Node : sess'[n][k] # NoSession =>
                    sess[n][k] # NoSession /\ Alike(sess'[n][k], sess[n][k])
FramesSubside(k) == \A x \in Node : LosesFrames(k, tx[x], tx'[x])
Subsides(k) ==
  /\ SessionsSubside(k) /\ FramesSubside(k)
  /\ \A m \in Message : Pair(m) = k =>
       /\ outcome[m] # "idle" => outcome'[m] # "idle"
       /\ \A n \in Node : Arrived(m, n)' = Arrived(m, n)

\* What has no frames under way has none after frames were taken away.
LEMMA NoFramesSubside ==
  ASSUME PathsOK(tx), PathsOK(tx'), NEW k \in Key, FramesSubside(k), NoFrames(k)
  PROVE  NoFrames(k)'
<1> SUFFICES ASSUME NEW x \in Node, NEW i \in Places(tx'[x]), Concerns(k, tx'[x][i].frame)
             PROVE  FALSE
  BY DEF NoFrames
<1> QED
  BY DEF FramesSubside, LosesFrames, NoFrames

\* Frames that are taken away leave the rest in order.
LEMMA OrderSubsides ==
  ASSUME PathsOK(tx), PathsOK(tx'), NEW k \in Key, NEW x \in Node, LosesFrames(k, tx[x], tx'[x]),
         Ordered(k, tx[x])
  PROVE  Ordered(k, tx'[x])
<1>1. PICK d \in Nat : \A i \in Places(tx'[x]) :
        Concerns(k, tx'[x][i].frame) =>
          /\ i + d \in Places(tx[x])
          /\ tx'[x][i].frame = tx[x][i + d].frame /\ tx'[x][i].to \subseteq tx[x][i + d].to
  BY DEF LosesFrames
<1>2. Len(tx[x]) \in Nat /\ Len(tx'[x]) \in Nat
  BY DEF PathsOK
<1> SUFFICES ASSUME NEW i \in Places(tx'[x]), NEW j \in Places(tx'[x]), i < j,
                    Opening(k, tx'[x][i].frame) \/ Carrying(k, tx'[x][i].frame)
             PROVE  /\ ~Opening(k, tx'[x][j].frame)
                    /\ Carrying(k, tx'[x][i].frame) /\ Carrying(k, tx'[x][j].frame)
                         => tx'[x][i].frame.seq < tx'[x][j].frame.seq
  BY DEF Ordered
<1>3. i + d \in Places(tx[x]) /\ tx'[x][i].frame = tx[x][i + d].frame
  BY <1>1 DEF Concerns
<1>4. CASE Opening(k, tx'[x][j].frame) \/ Carrying(k, tx'[x][j].frame)
  <2>1. j + d \in Places(tx[x]) /\ tx'[x][j].frame = tx[x][j + d].frame
    BY <1>1, <1>4 DEF Concerns
  <2>2. i \in Nat /\ j \in Nat
    BY PlaceType DEF PathsOK
  <2>3. i + d < j + d
    BY <2>2
  <2> QED
    BY <1>3, <2>1, <2>3 DEF Ordered
<1> QED
  BY <1>4

LEMMA HeaderFacts ==
  ASSUME NEW m \in Message
  PROVE  Packets(m) \in 2 .. 255
BY PacketsType

\* A session's counters fit a byte.
LEMMA Counters ==
  ASSUME NEW s \in Session
  PROVE  /\ s.last \in 0 .. 255 /\ s.ack \in 0 .. 255 /\ s.cts \in 0 .. 255
         /\ s.total \in 0 .. 255
BY DEF Session, SessionRecord

LEMMA ByteIsInt ==
  ASSUME NEW x \in 0 .. 255
  PROVE  x \in Int /\ x <= x
OBVIOUS

LEMMA Fits ==
  ASSUME NEW se, SessionsOK(se), NEW n \in Node, NEW k \in Key, se[n][k] # NoSession
  PROVE  /\ se[n][k] \in SessionOf(n, k) /\ se[n][k].total \in 0 .. 255
         /\ se[n][k].last \in 0 .. 255 /\ se[n][k].ack \in 0 .. 255 /\ se[n][k].cts \in 0 .. 255
<1>1. se[n][k] \in Session /\ se[n][k] \in SessionOf(n, k)
  BY DEF SessionsOK
<1> QED
  BY <1>1 DEF Session, SessionRecord

\* The sessions of the receivers end at most
ReceiversSubside(k) ==
  \A n \in Node : n # k[1] /\ sess'[n][k] # NoSession =>
                    sess[n][k] # NoSession /\ Alike(sess'[n][k], sess[n][k])
\* The sender's session goes on, or ends
SenderGoesOn(k) ==
  sess'[k[1]][k] # NoSession =>
    sess[k[1]][k] # NoSession /\ sess[k[1]][k].last <= sess'[k[1]][k].last
SameArrivals(m) == \A n \in Node : Arrived(m, n)' = Arrived(m, n)

\* A step that takes away keeps what is said of the receivers' sessions.
LEMMA ReceiversKeep ==
  ASSUME NEW k \in Key, NEW m \in Message, Exchange(k, m), ReceiversSubside(k), SameArrivals(m)
  PROVE  ReceiversSessions(k, m)'
BY DEF Exchange, ReceiversSessions, ReceiverOf, ReceiversSubside, Alike, SameArrivals

\* Frames that are left fit the sessions, if the sender has not gone back.
LEMMA FramesKeep ==
  ASSUME TypeOK, TypeOK', NEW k \in Key, NEW m \in Message, Exchange(k, m),
         FramesSubside(k), ReceiversSubside(k), SameArrivals(m),
         SenderGoesOn(k)
  PROVE  SendersFrames(k, m)' /\ ReceiversFrames(k, m)' /\ Ordered(k, tx'[k[1]])
<1>1. PathsOK(tx) /\ PathsOK(tx') /\ k[1] \in Node
  BY KeyType DEF TypeOK
<1>2. SendersFrames(k, m)'
  <2> SUFFICES ASSUME NEW i \in Places(tx'[k[1]]), Concerns(k, tx'[k[1]][i].frame)
               PROVE  /\ Opening(k, tx'[k[1]][i].frame) => OpeningOf(k, m, tx[k[1]][i])'
                      /\ Carrying(k, tx'[k[1]][i].frame) => CarryingOf(k, m, tx[k[1]][i].frame)'
    BY DEF SendersFrames, Concerns
  <2>1. PICK j \in Places(tx[k[1]]) :
          tx'[k[1]][i].frame = tx[k[1]][j].frame /\ tx'[k[1]][i].to \subseteq tx[k[1]][j].to
    BY <1>1 DEF FramesSubside, LosesFrames
  <2>2. /\ Opening(k, tx'[k[1]][i].frame) => OpeningOf(k, m, tx[k[1]][j])
        /\ Carrying(k, tx'[k[1]][i].frame) => CarryingOf(k, m, tx[k[1]][j].frame)
    BY <2>1 DEF Exchange, SendersFrames
  <2>3. tx[k[1]][j].to \subseteq Node \ {k[1]}
    <3>1. tx[k[1]] \in Seq(EntryOf(k[1]))
      BY <1>1 DEF PathsOK
    <3>2. tx[k[1]][j] \in EntryOf(k[1])
      BY <3>1, PlaceType
    <3> QED
      BY <3>2 DEF EntryOf
  <2>4. Opening(k, tx'[k[1]][i].frame) => OpeningOf(k, m, tx[k[1]][i])'
    BY <2>1, <2>2, <2>3 DEF OpeningOf, ReceiversSubside, SameArrivals
  <2>5. Carrying(k, tx'[k[1]][i].frame) => CarryingOf(k, m, tx[k[1]][i].frame)'
    <3> SUFFICES ASSUME Carrying(k, tx'[k[1]][i].frame)
                 PROVE  CarryingOf(k, m, tx[k[1]][i].frame)'
      OBVIOUS
    <3>1. CarryingOf(k, m, tx[k[1]][j].frame) /\ tx'[k[1]][i].frame = tx[k[1]][j].frame
      BY <2>1, <2>2
    <3>2. Packets(m) \in Int
      BY HeaderFacts
    <3>3. sess'[k[1]][k] # NoSession => sess[k[1]][k].last \in Int /\ sess'[k[1]][k].last \in Int
      <4>1. SessionsOK(sess) /\ SessionsOK(sess')
        BY DEF TypeOK
      <4> SUFFICES ASSUME sess'[k[1]][k] # NoSession
                   PROVE  sess[k[1]][k].last \in Int /\ sess'[k[1]][k].last \in Int
        OBVIOUS
      <4>0. sess[k[1]][k] # NoSession
        BY DEF SenderGoesOn
      <4>2. sess[k[1]][k].last \in 0 .. 255
        BY <1>1, <4>0, <4>1, Fits
      <4>3. sess'[k[1]][k].last \in 0 .. 255
        BY <1>1, <4>1, Fits
      <4> QED
        BY <4>2, <4>3, ByteIsInt, Zenon
    <3> QED
      BY <3>1, <3>2, <3>3 DEF CarryingOf, SenderGoesOn
  <2> QED
    BY <2>4, <2>5
<1>3. ReceiversFrames(k, m)'
  <2> SUFFICES ASSUME k[2] \in Node, NEW i \in Places(tx'[k[2]]),
                      Confirming(k, tx'[k[2]][i].frame)
               PROVE  Arrived(m, k[2])
    BY DEF ReceiversFrames, SameArrivals
  <2>1. PICK j \in Places(tx[k[2]]) : tx'[k[2]][i].frame = tx[k[2]][j].frame
    BY <1>1 DEF FramesSubside, LosesFrames, Concerns
  <2> QED
    BY <2>1 DEF Exchange, ReceiversFrames
<1>4. Ordered(k, tx'[k[1]])
  BY <1>1, OrderSubsides DEF Exchange, FramesSubside
<1> QED
  BY <1>2, <1>3, <1>4

\* ... the exchange of the message
LEMMA ExchangeSubsides ==
  ASSUME TypeOK, TypeOK', NEW k \in Key, NEW m \in Message, Exchange(k, m), Subsides(k)
  PROVE  Exchange(k, m)'
<1>1. PathsOK(tx) /\ PathsOK(tx') /\ FramesSubside(k) /\ SessionsSubside(k)
  BY DEF TypeOK, Subsides
<1>2. Pair(m) = k /\ outcome'[m] # "idle" /\ SameArrivals(m) /\ ReceiversSubside(k)
  BY DEF Exchange, Subsides, SameArrivals, SessionsSubside, ReceiversSubside
<1>3. k[1] \in Node
  BY KeyType
<1>4. SendersSession(k, m)'
  <2> SUFFICES ASSUME sess'[k[1]][k] # NoSession
               PROVE  SenderOf(k, m, sess[k[1]][k])'
    BY DEF SendersSession
  <2>1. sess[k[1]][k] # NoSession /\ Alike(sess'[k[1]][k], sess[k[1]][k])
    BY <1>1, <1>3 DEF SessionsSubside
  <2>2. SenderOf(k, m, sess[k[1]][k])
    BY <2>1 DEF Exchange, SendersSession
  <2>3. Unopened(k, m) => Unopened(k, m)'
    BY <1>1, <1>2, NoFramesSubside DEF Unopened, SessionsSubside, SameArrivals
  <2> QED
    BY <2>1, <2>2, <2>3 DEF SenderOf, Alike
<1>5. SenderGoesOn(k)
  <2> SUFFICES ASSUME sess'[k[1]][k] # NoSession
               PROVE  sess[k[1]][k] # NoSession /\ sess[k[1]][k].last <= sess'[k[1]][k].last
    BY DEF SenderGoesOn
  <2>1. sess[k[1]][k] # NoSession /\ sess[k[1]][k].last = sess'[k[1]][k].last
    BY <1>1, <1>3 DEF SessionsSubside, Alike
  <2>2. sess[k[1]][k].last \in 0 .. 255
    BY <1>3, <2>1, Fits, ZenonT(30) DEF TypeOK
  <2> QED
    BY <2>1, <2>2
<1> QED
  BY <1>1, <1>2, <1>4, <1>5, ReceiversKeep, FramesKeep DEF Exchange

\* ... and its grants.
LEMMA GrantsSubside ==
  ASSUME TypeOK, TypeOK', NEW k \in Key, k[2] \in Node, Grants(k), Subsides(k)
  PROVE  Grants(k)'
<1> DEFINE from == k[1]
           dest == k[2]
<1>1. PathsOK(tx) /\ PathsOK(tx') /\ FramesSubside(k) /\ SessionsSubside(k)
  BY DEF TypeOK, Subsides
<1>2. k[1] \in Node
  BY KeyType
<1>3. SessionGrants(k)'
  BY <1>1, <1>2
     DEF Grants, SessionGrants, SessionsSubside, Alike, SenderGrant, ReceiverGrant, Granted
<1>4. /\ NoCarrying(k, tx[k[1]]) => NoCarrying(k, tx'[k[1]])
      /\ NoClearing(k, tx[k[2]]) => NoClearing(k, tx'[k[2]])
  BY <1>1, <1>2 DEF FramesSubside, LosesFrames, NoCarrying, NoClearing, Concerns
<1>5. FrameGrants(k)'
  <2> SUFFICES ASSUME NEW i \in Places(tx'[k[1]]), Concerns(k, tx'[k[1]][i].frame)
               PROVE  (LET s == sess[k[1]][k]
                           r == sess[k[2]][k]
                           f == tx[k[1]][i].frame
                       IN /\ Carrying(k, f) /\ r # NoSession => f.seq <= r.ack + r.cts
                          /\ Opening(k, f) =>
                               /\ r = NoSession
                               /\ s # NoSession => s.state = "WaitForClearToSend" /\ s.ack + s.cts = 0
                               /\ NoCarrying(k, tx[k[1]]) /\ NoClearing(k, tx[k[2]]))'
    BY DEF FrameGrants, Concerns
  <2>1. PICK j \in Places(tx[k[1]]) : tx'[k[1]][i].frame = tx[k[1]][j].frame
    BY <1>1, <1>2 DEF FramesSubside, LosesFrames
  <2> QED
    BY <1>1, <1>2, <1>4, <2>1 DEF Grants, FrameGrants, SessionsSubside, Alike
<1>6. ClearGrants(k)'
  <2>1. PICK d \in Nat : \A i \in Places(tx'[k[2]]) :
          Concerns(k, tx'[k[2]][i].frame) =>
            i + d \in Places(tx[k[2]]) /\ tx'[k[2]][i].frame = tx[k[2]][i + d].frame
    BY <1>1 DEF FramesSubside, LosesFrames
  <2> SUFFICES ASSUME NEW i \in Places(tx'[k[2]]), Clearing(k, tx'[k[2]][i].frame)
               PROVE  /\ ClearingOf(k, tx[k[2]][i].frame, sess[k[1]][k], sess[k[2]][k])'
                      /\ NoCarrying(k, tx[k[1]])'
                      /\ \A j \in Places(tx'[k[2]]) : Clearing(k, tx'[k[2]][j].frame) => i = j
    BY DEF ClearGrants
  <2>2. i + d \in Places(tx[k[2]]) /\ tx'[k[2]][i].frame = tx[k[2]][i + d].frame
    BY <2>1 DEF Concerns
  <2>3. /\ ClearingOf(k, tx[k[2]][i + d].frame, sess[k[1]][k], sess[k[2]][k])
        /\ NoCarrying(k, tx[k[1]])
        /\ \A j \in Places(tx[k[2]]) : Clearing(k, tx[k[2]][j].frame) => i + d = j
    BY <2>2 DEF Grants, ClearGrants
  <2>4. \A j \in Places(tx'[k[2]]) : Clearing(k, tx'[k[2]][j].frame) => i = j
    <3> SUFFICES ASSUME NEW j \in Places(tx'[k[2]]), Clearing(k, tx'[k[2]][j].frame)
                 PROVE  i = j
      OBVIOUS
    <3>1. j + d \in Places(tx[k[2]]) /\ tx'[k[2]][j].frame = tx[k[2]][j + d].frame
      BY <2>1 DEF Concerns
    <3>2. i + d = j + d
      BY <2>3, <3>1
    <3>3. i \in Nat /\ j \in Nat
      BY <1>1, PlaceType DEF PathsOK
    <3> QED
      BY <3>2, <3>3
  <2>5. ClearingOf(k, tx[k[2]][i].frame, sess[k[1]][k], sess[k[2]][k])'
    BY <1>1, <1>2, <2>2, <2>3 DEF ClearingOf, SessionsSubside, Alike
  <2> QED
    BY <1>4, <2>3, <2>4, <2>5
<1> QED
  BY <1>3, <1>5, <1>6 DEF Grants

\* A step that adds nothing to the exchange of a pair keeps it sound.
LEMMA SoundSubsides ==
  ASSUME TypeOK, TypeOK', NEW k \in Key, Sound(k), Subsides(k)
  PROVE  Sound(k)'
<1>1. Quiet(k) => Quiet(k)'
  BY NoFramesSubside DEF Quiet, Subsides, SessionsSubside, TypeOK
<1>2. ASSUME NEW m \in Message, Exchange(k, m)
      PROVE  Exchange(k, m)'
  BY <1>2, ExchangeSubsides
<1>3. k[2] \in Node /\ k[2] # k[1] => Grants(k)'
  BY GrantsSubside DEF Sound
<1> QED
  BY <1>1, <1>2, <1>3 DEF Sound

-----------------------------------------------------------------------------
(* Frames and sessions a step leaves alone *)

LEMMA OfferSubsides ==
  ASSUME PathsOK(tx), NEW n \in Node, NEW frames \in Seq(FrameOf(n)), NEW k,
         \A i \in 1 .. Len(frames) : ~Concerns(k, frames[i])
  PROVE  LosesFrames(k, tx[n], Offer(n, frames))
<1>1. PICK sent \in Seq(FrameOf(n)) :
        /\ Follows(tx[n], Offer(n, frames), 0, sent)
        /\ Len(sent) <= Len(frames) /\ \A i \in 1 .. Len(sent) : sent[i] = frames[i]
  BY OfferPath
<1>2. \A i \in 1 .. Len(sent) : ~Concerns(k, sent[i])
  BY <1>1
<1>3. tx[n] \in Seq(EntryOf(n)) /\ Len(sent) \in Nat
  BY DEF PathsOK
<1> QED
  BY <1>1, <1>2, <1>3, FollowsLoses

LEMMA ProcessedSubsides ==
  ASSUME PathsOK(tx), NEW n \in Node, NEW a \in Node, Arrives(n, a), NEW k
  PROVE  LosesFrames(k, tx[a], Processed(a, n))
<1>1. PICK d \in {0, 1} : Follows(tx[a], Processed(a, n), d, <<>>)
  BY ProcessedPath
<1>2. tx[a] \in Seq(EntryOf(a)) /\ Len(<<>>) \in Nat /\ \A i \in 1 .. Len(<<>>) : FALSE
  BY DEF PathsOK
<1> QED
  BY <1>1, <1>2, FollowsLoses

LEMMA SameSubsides ==
  ASSUME PathsOK(tx), NEW n \in Node, NEW k
  PROVE  LosesFrames(k, tx[n], tx[n])
<1>1. tx[n] \in Seq(EntryOf(n)) /\ Len(<<>>) \in Nat /\ \A i \in 1 .. Len(<<>>) : FALSE
  BY DEF PathsOK
<1> QED
  BY <1>1, SamePath, FollowsLoses

LEMMA SendSubsides ==
  ASSUME PathsOK(tx), NEW n \in Node, NEW frames \in Seq(FrameOf(n)), NEW k,
         tx' = [tx EXCEPT ![n] = Offer(n, frames)],
         \A i \in 1 .. Len(frames) : ~Concerns(k, frames[i])
  PROVE  FramesSubside(k)
<1>1. \A x \in Node : tx'[x] = IF x = n THEN Offer(n, frames) ELSE tx[x]
  BY DEF PathsOK
<1> QED
  BY <1>1, OfferSubsides, SameSubsides DEF FramesSubside

LEMMA AnswerSubsides ==
  ASSUME PathsOK(tx), NEW n \in Node, NEW a \in Node, Arrives(n, a),
         NEW frames \in Seq(FrameOf(n)), NEW k, Answer(n, Head(tx[a]).frame, frames),
         \A i \in 1 .. Len(frames) : ~Concerns(k, frames[i])
  PROVE  FramesSubside(k)
<1>1. n # a /\ tx' = [tx EXCEPT ![a] = Processed(a, n), ![n] = Offer(n, frames)]
  BY HeadType DEF Answer
<1>2. \A x \in Node : tx'[x] = IF x = n THEN Offer(n, frames)
                               ELSE IF x = a THEN Processed(a, n) ELSE tx[x]
  BY <1>1 DEF PathsOK
<1> QED
  BY <1>2, OfferSubsides, ProcessedSubsides, SameSubsides DEF FramesSubside

LEMMA TakeSubsides ==
  ASSUME PathsOK(tx), NEW n \in Node, NEW a \in Node, Arrives(n, a), NEW k,
         tx' = [tx EXCEPT ![a] = Processed(a, n)]
  PROVE  FramesSubside(k)
<1>1. \A x \in Node : tx'[x] = IF x = a THEN Processed(a, n) ELSE tx[x]
  BY DEF PathsOK
<1> QED
  BY <1>1, ProcessedSubsides, SameSubsides DEF FramesSubside

\* Aborts belong to no exchange, nor does other traffic.
LEMMA AbortAside ==
  ASSUME NEW k, NEW n, NEW dst, NEW pgn
  PROVE  ~Concerns(k, AbortFrame(n, dst, pgn))
BY DEF AbortFrame, Frame, Concerns, Opening, Carrying, Clearing, Confirming

LEMMA PartnerAbortAside ==
  ASSUME NEW k, NEW n, NEW q, NEW s
  PROVE  \A i \in 1 .. Len(PartnerAbort(n, q, s)) : ~Concerns(k, PartnerAbort(n, q, s)[i])
<1>1. CASE IsBroadcast(q)
  BY <1>1 DEF PartnerAbort
<1>2. CASE ~IsBroadcast(q)
  <2> DEFINE dst == IF q[1] = n THEN q[2] ELSE q[1]
  <2>1. PartnerAbort(n, q, s) = <<AbortFrame(n, dst, s.pgn)>>
    BY <1>2 DEF PartnerAbort
  <2> HIDE DEF dst
  <2> QED
    BY <2>1, AbortAside
<1> QED
  BY <1>1, <1>2

LEMMA CloseSubsides ==
  ASSUME SessionsOK(sess), NEW n \in Node, NEW K, sess' = Close(n, K), NEW k \in Key
  PROVE  SessionsSubside(k)
<1>1. \A p \in Node : sess'[p][k] # NoSession => sess'[p][k] = sess[p][k]
  BY DEF SessionsOK, Close
<1> QED
  BY <1>1 DEF SessionsSubside, Alike

LEMMA StoreSubsides ==
  ASSUME SessionsOK(sess), NEW n \in Node, NEW q \in Key, NEW s, sess' = Store(n, q, s),
         NEW k \in Key, k # q
  PROVE  SessionsSubside(k)
<1>1. \A p \in Node : sess'[p][k] = sess[p][k]
  BY DEF SessionsOK, Store
<1> QED
  BY <1>1 DEF SessionsSubside, Alike

LEMMA SameSessions ==
  ASSUME sess' = sess, NEW k
  PROVE  SessionsSubside(k)
BY DEF SessionsSubside, Alike

\* The tick changes ages only.
LEMMA TickSessions ==
  ASSUME TypeOK, Tick, NEW k \in Key
  PROVE  SessionsSubside(k)
<1> SUFFICES ASSUME NEW n \in Node, sess'[n][k] # NoSession
             PROVE  sess[n][k] # NoSession /\ Alike(sess'[n][k], sess[n][k])
  BY DEF SessionsSubside
<1>1. sess[n][k] # NoSession /\ sess'[n][k] = [sess[n][k] EXCEPT !.age = Least(@ + 1, T2T3 + 1)]
  BY DEF Tick
<1>2. sess[n][k] \in SessionRecord
  BY <1>1, Existing DEF TypeOK, SessionOf, Session
<1> QED
  BY <1>1, <1>2 DEF Alike, SessionRecord

-----------------------------------------------------------------------------
(* What a step leaves of the exchanges it does not take part in *)

\* Nothing is delivered, and no message becomes idle again
Onward == \A m \in Message : outcome[m] # "idle" => outcome'[m] # "idle"

LEMMA SubsidesQuietly ==
  ASSUME NEW k \in Key, SessionsSubside(k), FramesSubside(k), Onward, delivered' = delivered
  PROVE  Subsides(k)
BY DEF Subsides, Onward, Arrived

LEMMA ReportOnward ==
  ASSUME TypeOK, NEW n, NEW k, NEW result \in {"success", "failure"},
         outcome' = outcome \/ outcome' = Report(n, k, result)
  PROVE  Onward
BY DEF TypeOK, OutcomesOK, Report, Onward

LEMMA FinishSubsides ==
  ASSUME TypeOK, NEW n \in Node, NEW q \in Key, NEW result \in {"success", "failure"},
         NEW frames \in Seq(FrameOf(n)), Finish(n, q, result, frames), delivered' = delivered,
         NEW k \in Key, \A i \in 1 .. Len(frames) : ~Concerns(k, frames[i])
  PROVE  Subsides(k)
<1>1. SessionsSubside(k)
  BY CloseSubsides DEF TypeOK, Finish
<1>2. FramesSubside(k)
  BY SendSubsides DEF TypeOK, Finish
<1>3. Onward
  BY ReportOnward DEF Finish
<1> QED
  BY <1>1, <1>2, <1>3, SubsidesQuietly

LEMMA GoOnSubsides ==
  ASSUME TypeOK, NEW n \in Node, NEW q \in Key, NEW s, NEW frames \in Seq(FrameOf(n)),
         GoOn(n, q, s, frames), delivered' = delivered,
         NEW k \in Key, k # q, \A i \in 1 .. Len(frames) : ~Concerns(k, frames[i])
  PROVE  Subsides(k)
<1>1. SessionsSubside(k)
  BY StoreSubsides DEF TypeOK, GoOn
<1>2. FramesSubside(k)
  BY SendSubsides DEF TypeOK, GoOn
<1>3. Onward
  BY DEF GoOn, Onward
<1> QED
  BY <1>1, <1>2, <1>3, SubsidesQuietly

LEMMA EnvironmentSubsides ==
  ASSUME TypeOK, Foreign = {}, Environment, NEW k \in Key
  PROVE  Subsides(k)
<1>1. UNCHANGED <<outcome, delivered>> /\ Onward
  BY DEF Environment, Tick, Lose, SendOther, LoseAddress, RegainAddress, ForeignSend, Onward
<1>2. SessionsSubside(k)
  <2>1. Tick \/ sess' = sess
    BY DEF Environment, Lose, SendOther, LoseAddress, RegainAddress, ForeignSend
  <2> QED
    BY <2>1, TickSessions, SameSessions
<1>3. FramesSubside(k)
  <2>1. CASE tx' = tx
    BY <2>1, SameSubsides DEF FramesSubside, TypeOK
  <2>2. ASSUME NEW n \in Node, NEW a \in Node, Lose(n, a)
        PROVE  FramesSubside(k)
    BY <2>2, TakeSubsides DEF Lose, TypeOK
  <2>3. ASSUME NEW n \in Stack, NEW b \in Node, SendOther(n, b)
        PROVE  FramesSubside(k)
    <3> DEFINE f == [type |-> "Other", src |-> n, dst |-> b]
    <3>1. n \in Node /\ f \in FrameOf(n)
      BY <2>3 DEF SendOther, Stack, FrameOf, FrameType
    <3>2. tx' = [tx EXCEPT ![n] = Append(@, Entry(f))]
      BY <2>3 DEF SendOther
    <3>3. ~Concerns(k, f)
      BY DEF Concerns, Opening, Carrying, Clearing, Confirming
    <3> HIDE DEF f
    <3>4. Follows(tx[n], Append(tx[n], Entry(f)), 0, <<f>>)
      <4>1. tx[n] \in Seq(EntryOf(n)) /\ Entry(f) \in EntryOf(n)
        BY <3>1, EntryType DEF TypeOK, PathsOK
      <4> QED
        BY <4>1 DEF Follows
    <3>5. LosesFrames(k, tx[n], Append(tx[n], Entry(f)))
      <4>1. tx[n] \in Seq(EntryOf(n)) /\ Len(<<f>>) \in Nat
            /\ \A i \in 1 .. Len(<<f>>) : ~Concerns(k, <<f>>[i])
        BY <3>1, <3>3 DEF TypeOK, PathsOK
      <4> QED
        BY <3>4, <4>1, FollowsLoses
    <3>6. \A x \in Node : tx'[x] = IF x = n THEN Append(tx[n], Entry(f)) ELSE tx[x]
      BY <3>1, <3>2 DEF TypeOK, PathsOK
    <3> QED
      BY <3>5, <3>6, SameSubsides DEF FramesSubside, TypeOK
  <2>4. \A f \in ForeignFrame : ~ForeignSend(f)
    BY FrameAssumption
  <2> QED
    BY <2>1, <2>2, <2>3, <2>4 DEF Environment, Tick, LoseAddress, RegainAddress
<1> QED
  BY <1>1, <1>2, <1>3, SubsidesQuietly

-----------------------------------------------------------------------------
(* Where the frames are, and what was delivered *)

\* A frame with a specific destination is for that node only.
Addressed ==
  \A x \in Node : \A i \in Places(tx[x]) : tx[x][i].to \subseteq Receivers(tx[x][i].frame)
\* No transmit path holds more than it has room for.
Capacity == \A x \in Node : Len(tx[x]) <= TxCapacity
\* What was delivered is what some application sent.
FromMessages ==
  \A n \in Node : \A i \in 1 .. Len(delivered[n]) :
    \E m \in Message : outcome[m] # "idle" /\ delivered[n][i] = Content(m)

\* Every path loses some frames at its front and gets others that fit behind it
Moves ==
  \A x \in Node : \E d \in Nat, new \in Seq(FrameOf(x)) :
    Follows(tx[x], tx'[x], d, new) /\ (new = <<>> \/ Len(new) <= Room(x))

LEMMA MovesKeep ==
  ASSUME PathsOK(tx), PathsOK(tx'), Addressed, Capacity, Moves
  PROVE  Addressed' /\ Capacity'
<1> SUFFICES ASSUME NEW x \in Node
             PROVE  /\ Len(tx'[x]) <= TxCapacity
                    /\ \A i \in Places(tx'[x]) : tx'[x][i].to \subseteq Receivers(tx'[x][i].frame)
  BY DEF Addressed, Capacity
<1> DEFINE q == tx[x]
           r == tx'[x]
<1>1. PICK d \in Nat, new \in Seq(FrameOf(x)) :
        Follows(q, r, d, new) /\ (new = <<>> \/ Len(new) <= Room(x))
  BY DEF Moves
<1>2. Len(q) \in Nat /\ Len(r) \in Nat /\ Len(new) \in Nat /\ Len(q) <= TxCapacity
      /\ (new = <<>> \/ Len(new) <= TxCapacity - Len(q)) /\ TxCapacity \in Nat
  BY <1>1, ConfigurationAssumption DEF PathsOK, Capacity, Room
<1>3. \A i \in 1 .. Len(q) : q[i].to \subseteq Receivers(q[i].frame)
  BY DEF Addressed, Places
<1> HIDE DEF q, r
<1>4. d \in 0 .. Len(q) /\ Len(r) = Len(q) - d + Len(new)
  BY <1>1 DEF Follows
<1>5. Len(r) <= TxCapacity
  <2>1. CASE new = <<>>
    <3>1. Len(new) = 0
      BY <2>1
    <3> QED
      BY <1>2, <1>4, <3>1
  <2>2. CASE new # <<>>
    BY <1>2, <1>4, <2>2
  <2> QED
    BY <2>1, <2>2
<1>6. ASSUME NEW i \in 1 .. Len(r)
      PROVE  r[i].to \subseteq Receivers(r[i].frame)
  <2>1. CASE i <= Len(q) - d
    <3>1. i \in 1 .. Len(q) - d /\ i + d \in 1 .. Len(q)
      BY <1>2, <1>4, <2>1
    <3>2. r[i].frame = q[i + d].frame /\ r[i].to \subseteq q[i + d].to
      BY <1>1, <3>1 DEF Follows
    <3> QED
      BY <1>3, <3>1, <3>2
  <2>2. CASE i > Len(q) - d
    <3>1. i - (Len(q) - d) \in 1 .. Len(new) /\ i = Len(q) - d + (i - (Len(q) - d))
      BY <1>2, <1>4, <2>2
    <3>2. r[i] = Entry(new[i - (Len(q) - d)])
      BY <1>1, <3>1 DEF Follows
    <3> QED
      BY <3>2 DEF Entry
  <2> QED
    BY <1>2, <1>4, <2>1, <2>2
<1> QED
  BY <1>5, <1>6 DEF r, Places

\* The path of one node in a step: it offers frames, a frame of it was
\* processed, or nothing happens to it.
LEMMA PathMoves ==
  ASSUME PathsOK(tx), NEW x \in Node, NEW r,
         \/ r = tx[x]
         \/ \E n \in Node : Arrives(n, x) /\ r = Processed(x, n)
         \/ \E frames \in Seq(FrameOf(x)) : r = Offer(x, frames)
  PROVE  \E d \in Nat, new \in Seq(FrameOf(x)) :
           Follows(tx[x], r, d, new) /\ (new = <<>> \/ Len(new) <= Room(x))
<1>1. <<>> \in Seq(FrameOf(x)) /\ tx[x] \in Seq(EntryOf(x)) /\ Room(x) \in Int
  BY ConfigurationAssumption DEF PathsOK, Room
<1>2. CASE r = tx[x]
  BY <1>1, <1>2, SamePath
<1>3. CASE \E n \in Node : Arrives(n, x) /\ r = Processed(x, n)
  BY <1>1, <1>3, ProcessedPath
<1>4. CASE \E frames \in Seq(FrameOf(x)) : r = Offer(x, frames)
  <2>1. PICK frames \in Seq(FrameOf(x)) : r = Offer(x, frames)
    BY <1>4
  <2>2. PICK sent \in Seq(FrameOf(x)) :
          /\ Follows(tx[x], r, 0, sent)
          /\ Room(x) <= 0 => sent = <<>>
          /\ Room(x) >= 0 => Len(sent) <= Room(x)
    BY <2>1, OfferPath
  <2> QED
    BY <1>1, <2>2
<1> QED
  BY <1>2, <1>3, <1>4

LEMMA AnswerMoves ==
  ASSUME PathsOK(tx), NEW n \in Node, NEW a \in Node, Arrives(n, a),
         NEW frames \in Seq(FrameOf(n)), Answer(n, Head(tx[a]).frame, frames)
  PROVE  Moves
<1>1. n # a /\ tx' = [tx EXCEPT ![a] = Processed(a, n), ![n] = Offer(n, frames)]
  BY HeadType DEF Answer
<1>2. \A x \in Node : tx'[x] = IF x = n THEN Offer(n, frames)
                               ELSE IF x = a THEN Processed(a, n) ELSE tx[x]
  BY <1>1 DEF PathsOK
<1> QED
  BY <1>2, PathMoves DEF Moves

LEMMA SendMoves ==
  ASSUME PathsOK(tx), NEW n \in Node, NEW frames \in Seq(FrameOf(n)),
         tx' = [tx EXCEPT ![n] = Offer(n, frames)]
  PROVE  Moves
<1>1. \A x \in Node : tx'[x] = IF x = n THEN Offer(n, frames) ELSE tx[x]
  BY DEF PathsOK
<1> QED
  BY <1>1, PathMoves DEF Moves

LEMMA TakeMoves ==
  ASSUME PathsOK(tx), NEW n \in Node, NEW a \in Node, Arrives(n, a),
         tx' = [tx EXCEPT ![a] = Processed(a, n)]
  PROVE  Moves
<1>1. \A x \in Node : tx'[x] = IF x = a THEN Processed(a, n) ELSE tx[x]
  BY DEF PathsOK
<1> QED
  BY <1>1, PathMoves DEF Moves

LEMMA StillMoves ==
  ASSUME PathsOK(tx), tx' = tx
  PROVE  Moves
BY PathMoves DEF Moves

LEMMA EnvironmentMoves ==
  ASSUME TypeOK, Foreign = {}, Environment
  PROVE  Moves
<1>1. CASE tx' = tx
  BY <1>1, StillMoves DEF TypeOK
<1>2. ASSUME NEW n \in Node, NEW a \in Node, Lose(n, a)
      PROVE  Moves
  BY <1>2, TakeMoves DEF Lose, TypeOK
<1>3. ASSUME NEW n \in Stack, NEW b \in Node, SendOther(n, b)
      PROVE  Moves
  <2> DEFINE f == [type |-> "Other", src |-> n, dst |-> b]
  <2>1. n \in Node /\ f \in FrameOf(n) /\ Room(n) > 0
    BY <1>3 DEF SendOther, Stack, FrameOf, FrameType
  <2>2. tx' = [tx EXCEPT ![n] = Append(@, Entry(f))]
    BY <1>3 DEF SendOther
  <2> HIDE DEF f
  <2>3. Follows(tx[n], Append(tx[n], Entry(f)), 0, <<f>>)
    <3>1. tx[n] \in Seq(EntryOf(n)) /\ Entry(f) \in EntryOf(n)
      BY <2>1, EntryType DEF TypeOK, PathsOK
    <3> QED
      BY <3>1 DEF Follows
  <2>4. <<f>> \in Seq(FrameOf(n)) /\ Len(<<f>>) <= Room(n)
    <3>1. Room(n) \in Int
      BY <2>1, ConfigurationAssumption DEF TypeOK, PathsOK, Room
    <3> QED
      BY <2>1, <3>1
  <2>5. \A x \in Node : tx'[x] = IF x = n THEN Append(tx[n], Entry(f)) ELSE tx[x]
    BY <2>1, <2>2 DEF TypeOK, PathsOK
  <2>6. ASSUME NEW x \in Node
        PROVE  \E d \in Nat, new \in Seq(FrameOf(x)) :
                 Follows(tx[x], tx'[x], d, new) /\ (new = <<>> \/ Len(new) <= Room(x))
    <3>1. CASE x = n
      BY <2>3, <2>4, <2>5, <3>1
    <3>2. CASE x # n
      BY <2>5, <3>2, PathMoves DEF TypeOK
    <3> QED
      BY <3>1, <3>2
  <2> QED
    BY <2>6 DEF Moves
<1>4. \A f \in ForeignFrame : ~ForeignSend(f)
  BY FrameAssumption
<1> QED
  BY <1>1, <1>2, <1>3, <1>4 DEF Environment, Tick, LoseAddress, RegainAddress

-----------------------------------------------------------------------------
(* The steps that add nothing to any exchange *)

LEMMA NoneAside ==
  ASSUME NEW n
  PROVE  /\ <<>> \in Seq(FrameOf(n))
         /\ \A k : \A i \in 1 .. Len(<<>>) : ~Concerns(k, <<>>[i])
OBVIOUS

\* An acknowledgement or an abort ends sessions; a frame nobody takes ends none.
LEMMA EndingFrames ==
  ASSUME TypeOK, NEW n \in Node, NEW a \in Node,
         Ignore(n, a) \/ ReceiveEndOfMessageAck(n, a) \/ ReceiveAbort(n, a)
  PROVE  Moves /\ \A k \in Key : Subsides(k)
<1> DEFINE f == Head(tx[a]).frame
<1>1. PathsOK(tx) /\ SessionsOK(sess)
  BY DEF TypeOK
<1>2. CASE Ignore(n, a)
  <2>1. /\ Arrives(n, a) /\ tx' = [tx EXCEPT ![a] = Processed(a, n)]
        /\ UNCHANGED <<sess, outcome, delivered>> /\ Onward
    BY <1>2 DEF Ignore, Onward
  <2> QED
    BY <1>1, <2>1, TakeMoves, TakeSubsides, SameSessions, SubsidesQuietly
<1>3. ASSUME ReceiveEndOfMessageAck(n, a) \/ ReceiveAbort(n, a)
      PROVE  Moves /\ \A k \in Key : Subsides(k)
  <2>1. Arrives(n, a) /\ Answer(n, f, <<>>) /\ delivered' = delivered
    BY <1>3, TakesFacts
       DEF ReceiveEndOfMessageAck, ReceiveAbort, ProcessEndOfMessageAck, ProcessAbort
  <2>2. sess' = sess \/ \E K : sess' = Close(n, K)
    BY <1>3 DEF ReceiveEndOfMessageAck, ReceiveAbort, ProcessEndOfMessageAck, ProcessAbort
  <2>3. Onward
    <3>1. outcome' \in {outcome, Report(n, <<n, f.src>>, "success"),
                        Report(n, <<n, f.src>>, "failure")}
      BY <1>3 DEF ReceiveEndOfMessageAck, ReceiveAbort, ProcessEndOfMessageAck, ProcessAbort
    <3> QED
      BY <3>1, ReportOnward
  <2>4. Moves
    BY <1>1, <2>1, NoneAside, AnswerMoves
  <2>5. ASSUME NEW k \in Key
        PROVE  Subsides(k)
    <3>1. SessionsSubside(k)
      BY <1>1, <2>2, CloseSubsides, SameSessions
    <3>2. FramesSubside(k)
      BY <1>1, <2>1, NoneAside, AnswerSubsides
    <3> QED
      BY <2>1, <2>3, <3>1, <3>2, SubsidesQuietly
  <2> QED
    BY <2>4, <2>5
<1> QED
  BY <1>2, <1>3

\* A session that expires or loses its control function ends.
LEMMA EndingUpdates ==
  ASSUME TypeOK, NEW n \in Node, NEW q \in Key, CloseUnreachable(n, q) \/ TimeOut(n, q)
  PROVE  Moves /\ \A k \in Key : Subsides(k)
<1>1. sess[n][q] \in SessionOf(n, q) /\ 0 \in Byte
  BY Existing DEF TypeOK, CloseUnreachable, TimeOut
<1>2. PartnerAbort(n, q, sess[n][q]) \in Seq(FrameOf(n))
  BY <1>1, SessionFrames
<1>3. PICK frames \in Seq(FrameOf(n)) :
        /\ Finish(n, q, "failure", frames) /\ delivered' = delivered
        /\ \A k : \A i \in 1 .. Len(frames) : ~Concerns(k, frames[i])
  BY <1>2, NoneAside, PartnerAbortAside DEF CloseUnreachable, TimeOut
<1>4. Moves
  BY <1>3, SendMoves DEF Finish, TypeOK
<1> QED
  BY <1>3, <1>4, FinishSubsides

-----------------------------------------------------------------------------
(* Messages and what is delivered *)

\* The content of a message tells which message it is.
LEMMA ContentTells ==
  ASSUME NEW m \in Message, NEW p \in Message, Content(m) = Content(p)
  PROVE  m = p
<1>1. 1 \in 1 .. Packets(m) /\ 1 \in 1 .. Packets(p)
  BY HeaderFacts
<1>2. Content(m).data[1] = <<m, 1>> /\ Content(p).data[1] = <<p, 1>>
  BY <1>1 DEF Content
<1> QED
  BY <1>2

\* What has not been sent has not been delivered.
LEMMA IdleNotArrived ==
  ASSUME FromMessages, NEW m \in Message, outcome[m] = "idle", NEW n \in Node
  PROVE  ~Arrived(m, n)
BY ContentTells DEF FromMessages, Arrived

LEMMA FromMessagesKept ==
  ASSUME FromMessages, Onward, delivered' = delivered
  PROVE  FromMessages'
BY DEF FromMessages, Onward

\* A message that is delivered arrives, and no other does.
LEMMA DeliveryArrives ==
  ASSUME TypeOK, NEW n \in Node, NEW m \in Message,
         delivered' = [delivered EXCEPT ![n] = Append(@, Content(m))]
  PROVE  /\ Arrived(m, n)'
         /\ \A p \in Message, x \in Node : p # m \/ x # n => Arrived(p, x)' = Arrived(p, x)
<1>1. delivered \in [Node -> Seq(Delivery)]
  BY DEF TypeOK
<1> DEFINE old == delivered[n]
           now == Append(old, Content(m))
<1>2. \A x \in Node : delivered'[x] = IF x = n THEN now ELSE delivered[x]
  BY <1>1
<1>3. old \in Seq(Delivery) /\ Len(old) \in Nat
  BY <1>1
<1> HIDE DEF old
<1>4. Len(now) = Len(old) + 1 /\ now[Len(old) + 1] = Content(m)
      /\ \A i \in 1 .. Len(old) : now[i] = old[i]
  BY <1>3
<1>5. Arrived(m, n)'
  <2>1. Len(old) + 1 \in 1 .. Len(now)
    BY <1>3, <1>4
  <2> HIDE DEF now
  <2> QED
    BY <1>2, <1>4, <2>1 DEF Arrived
<1>6. ASSUME NEW p \in Message, p # m
      PROVE  Arrived(p, n)' = Arrived(p, n)
  <2> HIDE DEF now
  <2>1. Content(p) # Content(m)
    BY <1>6, ContentTells
  <2>2. \A i \in 1 .. Len(now) : i \in 1 .. Len(old) \/ i = Len(old) + 1
    BY <1>3, <1>4
  <2>3. 1 .. Len(old) \subseteq 1 .. Len(now)
    BY <1>3, <1>4
  <2>4. (\E i \in 1 .. Len(now) : now[i] = Content(p)) <=> \E i \in 1 .. Len(old) : old[i] = Content(p)
    BY <1>4, <2>1, <2>2, <2>3
  <2> QED
    BY <1>2, <2>4 DEF Arrived, old
<1>7. \A p \in Message, x \in Node : x # n => Arrived(p, x)' = Arrived(p, x)
  BY <1>2 DEF Arrived
<1> QED
  BY <1>5, <1>6, <1>7

LEMMA DeliveryFromMessages ==
  ASSUME TypeOK, FromMessages, NEW n \in Node, NEW m \in Message, outcome[m] # "idle",
         outcome' = outcome, delivered' = [delivered EXCEPT ![n] = Append(@, Content(m))]
  PROVE  FromMessages'
<1>1. delivered \in [Node -> Seq(Delivery)]
  BY DEF TypeOK
<1> SUFFICES ASSUME NEW x \in Node, NEW i \in 1 .. Len(delivered'[x])
             PROVE  \E p \in Message : outcome[p] # "idle" /\ delivered'[x][i] = Content(p)
  BY DEF FromMessages
<1>2. CASE x # n
  BY <1>1, <1>2 DEF FromMessages
<1>3. CASE x = n
  <2>1. delivered'[n] = Append(delivered[n], Content(m)) /\ delivered[n] \in Seq(Delivery)
    BY <1>1
  <2>2. CASE i <= Len(delivered[n])
    BY <1>3, <2>1, <2>2 DEF FromMessages
  <2>3. CASE i > Len(delivered[n])
    <3>1. delivered'[n][i] = Content(m)
      BY <1>3, <2>1, <2>3
    <3> QED
      BY <1>3, <3>1
  <2> QED
    BY <1>3, <2>1, <2>2, <2>3
<1> QED
  BY <1>2, <1>3

-----------------------------------------------------------------------------
(* Opening an exchange *)

\* What stands at a place of a path that got one frame: an old frame, or at the
\* last place the new one.
LEMMA OneBehind ==
  ASSUME NEW S, NEW p \in Seq(S), NEW r, NEW f, Follows(p, r, 0, <<f>>), NEW i \in Places(r)
  PROVE  \/ i \in Places(p) /\ r[i].frame = p[i].frame /\ r[i].to \subseteq p[i].to
         \/ i = Len(r) /\ r[i] = Entry(f)
<1>1. Len(p) \in Nat /\ Len(r) = Len(p) + 1 /\ i \in 1 .. Len(r)
  BY DEF Follows, Places
<1>2. CASE i <= Len(p)
  BY <1>1, <1>2 DEF Follows, Places
<1>3. CASE i > Len(p)
  <2>1. i = Len(p) + 1 /\ 1 \in 1 .. Len(<<f>>) /\ <<f>>[1] = f
    BY <1>1, <1>3
  <2>2. r[i] = Entry(f)
    BY <1>1, <2>1 DEF Follows
  <2> QED
    BY <1>1, <2>1, <2>2
<1> QED
  BY <1>1, <1>2, <1>3

\* One frame is offered: it is behind the others, or there was no room.
LEMMA OfferOne ==
  ASSUME PathsOK(tx), NEW n \in Node, NEW f \in FrameOf(n)
  PROVE  /\ Room(n) > 0 => Follows(tx[n], Offer(n, <<f>>), 0, <<f>>)
         /\ ~(Room(n) > 0) => Follows(tx[n], Offer(n, <<f>>), 0, <<>>)
<1> DEFINE new == <<f>>
<1>0. new \in Seq(FrameOf(n))
  OBVIOUS
<1>1. Len(new) = 1 /\ Room(n) \in Int
  BY ConfigurationAssumption DEF PathsOK, Room
<1> HIDE DEF new
<1>2. PICK sent \in Seq(FrameOf(n)) :
        /\ Follows(tx[n], Offer(n, new), 0, sent)
        /\ Len(new) <= Room(n) => sent = new
        /\ Room(n) <= 0 => sent = <<>>
  BY <1>0, OfferPath
<1>3. (Room(n) > 0 => Len(new) <= Room(n)) /\ (~(Room(n) > 0) => Room(n) <= 0)
  BY <1>1
<1> QED
  BY <1>2, <1>3 DEF new

\* A session that has sent nothing of its message yet
Unsent(q, m, s) ==
  /\ s.msg = m /\ s.pgn = Header[m].pgn /\ s.total = Packets(m)
  /\ s.data = Content(m).data
  /\ s.state \in {"SendBroadcastAnnounce", "SendRequestToSend"} /\ s.last = 0
  /\ ~IsBroadcast(q) => s.ack = 0 /\ s.cts = 0

LEMMA OpensFrame ==
  ASSUME NEW q \in Key, NEW m \in Message, NEW s \in SessionOf(q[1], q), Unsent(q, m, s)
  PROVE  LET f == OpenFrame(q, s)
         IN /\ f \in FrameOf(q[1]) /\ Opening(q, f) /\ ~Carrying(q, f)
            /\ ~Clearing(q, f) /\ ~Confirming(q, f)
            /\ f.pgn = Header[m].pgn /\ f.size = Header[m].size
            /\ f.packets = Packets(m)
<1>1. q[1] \in Node /\ 0 \in Byte
  BY KeyType
<1>2. OpenFrame(q, s) \in FrameOf(q[1])
  BY <1>1, SessionFrames
<1> QED
  BY <1>2 DEF OpenFrame, AnnounceFrame, RequestFrame, IsBroadcast, Unsent, Opening, Carrying,
              Clearing, Confirming

LEMMA OpenedFacts ==
  ASSUME NEW q, NEW s \in Session
  PROVE  /\ Opened(q, s) # NoSession
         /\ Opened(q, s).state = IF IsBroadcast(q) THEN "SendDataTransferPackets"
                                                   ELSE "WaitForClearToSend"
         /\ Opened(q, s).msg = s.msg /\ Opened(q, s).pgn = s.pgn /\ Opened(q, s).total = s.total
         /\ Opened(q, s).data = s.data /\ Opened(q, s).last = s.last
         /\ Opened(q, s).ack = s.ack /\ Opened(q, s).cts = s.cts
<1>1. Opened(q, s) \in Session
  BY StateType DEF Opened, TxState
<1>2. Opened(q, s) # NoSession
  BY <1>1, SessionExists
<1> QED
  BY <1>2 DEF Opened, InState, Session, SessionRecord

LEMMA Opens ==
  ASSUME TypeOK, TypeOK', NEW q \in Key, NEW m \in Message, Pair(m) = q,
         outcome'[m] # "idle", delivered' = delivered, Unopened(q, m),
         NEW s \in SessionOf(q[1], q), Unsent(q, m, s),
         \/ sess' = Store(q[1], q, s) /\ tx' = tx
         \/ /\ sess' = Store(q[1], q, Opened(q, s)) /\ Room(q[1]) > 0
            /\ tx' = [tx EXCEPT ![q[1]] = Offer(q[1], <<OpenFrame(q, s)>>)]
  PROVE  Sound(q)'
<1> DEFINE from == q[1]
           f == OpenFrame(q, s)
<1>1. from \in Node /\ PathsOK(tx) /\ PathsOK(tx') /\ SessionsOK(sess) /\ q[2] # from /\ s \in Session
  BY KeyType, SessionFacts DEF TypeOK
<1>2. \A n \in Node : n # from => sess'[n][q] = sess[n][q] /\ sess[n][q] = NoSession
  BY <1>1 DEF Unopened, Store, SessionsOK
<1>3. SameArrivals(m) /\ \A n \in Node : n # from => ~Arrived(m, n)
  BY DEF Arrived, SameArrivals, Unopened
<1>4. s.total \in 0 .. 255
  BY <1>1 DEF Session, SessionRecord
<1>5. CASE sess' = Store(from, q, s) /\ tx' = tx
  <2>1. sess'[from][q] = s
    BY <1>1, <1>5 DEF Store, SessionsOK
  <2>2. NoFrames(q)'
    BY <1>5 DEF NoFrames, Unopened
  <2>3. Unopened(q, m)'
    BY <1>2, <1>3, <2>2 DEF Unopened, SameArrivals
  <2>4. SenderOf(q, m, sess[from][q])'
    BY <2>1, <2>3 DEF Unsent, SenderOf
  <2>5. Exchange(q, m)'
    BY <1>1, <1>2, <2>2, <2>4
       DEF Exchange, SendersSession, ReceiversSessions, SendersFrames, ReceiversFrames, Ordered,
           NoFrames, Concerns
  <2>6. ASSUME q[2] \in Node
        PROVE  Grants(q)'
    <3>1. SenderGrant(s)
      BY <1>4, <2>6, NodeAssumption DEF Unsent, IsBroadcast, SenderGrant, Granted
    <3>2. SessionGrants(q)'
      BY <1>1, <1>2, <2>1, <2>6, <3>1 DEF SessionGrants
    <3>3. FrameGrants(q)' /\ ClearGrants(q)'
      BY <1>1, <2>2, <2>6 DEF NoFrames, Concerns, FrameGrants, ClearGrants
    <3> QED
      BY <3>2, <3>3 DEF Grants
  <2> QED
    BY <2>5, <2>6 DEF Sound
<1>6. CASE /\ sess' = Store(from, q, Opened(q, s)) /\ Room(from) > 0
           /\ tx' = [tx EXCEPT ![from] = Offer(from, <<f>>)]
  <2> DEFINE t == Opened(q, s)
  <2>1. sess'[from][q] = t /\ t # NoSession
    BY <1>1, <1>6, OpenedFacts DEF Store, SessionsOK
  <2>2. /\ f \in FrameOf(from) /\ Opening(q, f)
        /\ ~Carrying(q, f) /\ ~Clearing(q, f) /\ ~Confirming(q, f)
        /\ f.pgn = Header[m].pgn /\ f.size = Header[m].size /\ f.packets = Packets(m)
    BY OpensFrame
  <2> HIDE DEF f
  <2>3. Follows(tx[from], tx'[from], 0, <<f>>)
    <3>1. tx'[from] = Offer(from, <<f>>)
      BY <1>1, <1>6 DEF PathsOK
    <3> QED
      BY <1>1, <1>6, <2>2, <3>1, OfferOne
  <2>4. ASSUME NEW i \in Places(tx'[from]), Concerns(q, tx'[from][i].frame)
        PROVE  i = Len(tx'[from]) /\ tx'[from][i] = Entry(f)
    <3>1. tx[from] \in Seq(EntryOf(from))
      BY <1>1 DEF PathsOK
    <3>2. ~(i \in Places(tx[from]) /\ tx'[from][i].frame = tx[from][i].frame)
      BY <1>1, <2>4 DEF Unopened, NoFrames
    <3> QED
      BY <2>3, <3>1, <3>2, OneBehind
  <2>5. \A x \in Node : x # from => \A i \in Places(tx'[x]) : ~Concerns(q, tx'[x][i].frame)
    BY <1>1, <1>6 DEF PathsOK, Unopened, NoFrames
  <2>6. Entry(f).frame = f /\ \A n \in Entry(f).to : n # from
    BY <1>1, <2>2, EntryType DEF EntryOf, Entry
  <2>7. SenderOf(q, m, sess[from][q])'
    BY <1>1, <2>1, OpenedFacts, HeaderFacts DEF Unsent, SenderOf
  <2>8. SendersFrames(q, m)'
    <3> SUFFICES ASSUME NEW i \in Places(tx'[from]), Concerns(q, tx'[from][i].frame)
                 PROVE  /\ Opening(q, tx'[from][i].frame) => OpeningOf(q, m, tx[from][i])'
                        /\ ~Carrying(q, tx'[from][i].frame)
      BY DEF SendersFrames, Concerns
    <3>1. tx'[from][i] = Entry(f)
      BY <2>4
    <3>2. \A n \in Entry(f).to : n \in Node
      BY <1>1, <2>2, EntryType DEF EntryOf
    <3> QED
      BY <1>2, <1>3, <2>2, <2>6, <3>1, <3>2 DEF OpeningOf, SameArrivals
  <2>9. Ordered(q, tx'[from])
    <3> SUFFICES ASSUME NEW i \in Places(tx'[from]), NEW j \in Places(tx'[from]), i < j,
                        Concerns(q, tx'[from][i].frame), Concerns(q, tx'[from][j].frame)
                 PROVE  FALSE
      BY DEF Ordered, Concerns
    <3>1. i = j /\ i \in Nat
      BY <1>1, <2>4, PlaceType DEF PathsOK
    <3> QED
      BY <3>1
  <2>10. Exchange(q, m)'
    BY <1>1, <1>2, <2>5, <2>7, <2>8, <2>9
       DEF Exchange, SendersSession, ReceiversSessions, ReceiversFrames, Concerns
  <2>11. ASSUME q[2] \in Node
         PROVE  Grants(q)'
    <3>1. t.state = "WaitForClearToSend" /\ t.ack = 0 /\ t.cts = 0 /\ t.last = 0 /\ t.total \in 0 .. 255
      BY <1>1, <1>4, <2>11, OpenedFacts, NodeAssumption DEF Unsent, IsBroadcast
    <3>2. sess'[q[2]][q] = NoSession
      BY <1>1, <1>2, <2>11
    <3> HIDE DEF t
    <3>3. SessionGrants(q)'
      BY <2>1, <3>1, <3>2 DEF SessionGrants, SenderGrant, Granted
    <3>4. NoClearing(q, tx'[q[2]])
      BY <1>1, <2>5, <2>11 DEF NoClearing, Concerns
    <3>5. NoCarrying(q, tx'[from])
      BY <2>2, <2>4, <2>6 DEF NoCarrying, Concerns
    <3>6. FrameGrants(q)'
      <4>1. t.ack + t.cts = 0
        BY <3>1
      <4> QED
        BY <2>1, <3>1, <3>2, <3>4, <3>5, <4>1 DEF FrameGrants, NoCarrying
    <3>7. ClearGrants(q)'
      BY <3>4 DEF ClearGrants, NoClearing
    <3> QED
      BY <3>3, <3>6, <3>7 DEF Grants
  <2> QED
    BY <2>10, <2>11 DEF Sound
<1> QED
  BY <1>5, <1>6

\* An application lets the exchange of a pair come to rest before it sends on.
Settled == \A m \in Message : outcome[m] = "idle" /\ outcome'[m] # "idle" => Quiet(Pair(m))

\* protocol_transmit_message(): the exchange of a new message begins.
LEMMA SubmitSound ==
  ASSUME TypeOK, TypeOK', FromMessages, \A k \in Key : Sound(k), NEW m \in Message, Submit(m),
         Settled
  PROVE  Moves /\ Onward /\ \A k \in Key : Sound(k)'
<1> DEFINE n == Header[m].src
           q == Pair(m)
           s == TransmitSession(m)
           f == OpenFrame(q, s)
<1>1. n \in Node /\ q \in Key /\ q[1] = n /\ q = <<n, Header[m].dst>>
  BY PairType DEF Pair
<1>2. s \in SessionOf(n, q)
  BY TransmitType DEF Pair
<1>3. outcome[m] = "idle" /\ outcome'[m] = "sending" /\ delivered' = delivered /\ Onward
  BY DEF Submit, TypeOK, OutcomesOK, Onward
<1>4. Unsent(q, m, s)
  BY DEF Unsent, TransmitSession, NewSession, Content
<1>5. Quiet(q)
  BY <1>3 DEF Settled
<1>6. Unopened(q, m)
  BY <1>1, <1>3, <1>5, IdleNotArrived DEF Unopened, Quiet
<1>7. \/ sess' = Store(n, q, s) /\ tx' = tx
      \/ /\ sess' = Store(n, q, Opened(q, s)) /\ Room(n) > 0
         /\ tx' = [tx EXCEPT ![n] = Offer(n, <<f>>)]
  BY DEF Submit, Pair
<1> HIDE DEF s, n
<1>8. f \in FrameOf(n) /\ Opening(q, f)
  BY <1>1, <1>2, <1>4, OpensFrame
<1> HIDE DEF q
<1>9. Sound(q)'
  <2>1. outcome'[m] # "idle" /\ Pair(m) = q
    BY <1>3 DEF q
  <2> QED
    BY <1>1, <1>2, <1>3, <1>4, <1>6, <1>7, <2>1, Opens
<1> HIDE DEF f
<1>10. <<f>> \in Seq(FrameOf(n)) /\ \A i \in 1 .. Len(<<f>>) : <<f>>[i] = f
  BY <1>8
<1>11. Moves
  BY <1>1, <1>7, <1>10, SendMoves, StillMoves DEF TypeOK
<1>12. ASSUME NEW k \in Key, k # q
       PROVE  Sound(k)'
  <2>1. SessionsSubside(k)
    BY <1>1, <1>7, <1>12, StoreSubsides DEF TypeOK
  <2>2. ~Concerns(k, f)
    BY <1>1, <1>8, <1>12, OnePair DEF Concerns
  <2>3. FramesSubside(k)
    <3>1. CASE tx' = tx
      BY <3>1, SameSubsides DEF FramesSubside, TypeOK
    <3>2. CASE tx' = [tx EXCEPT ![n] = Offer(n, <<f>>)]
      BY <1>1, <1>10, <2>2, <3>2, SendSubsides DEF TypeOK
    <3> QED
      BY <1>7, <3>1, <3>2
  <2> QED
    BY <1>3, <2>1, <2>3, SubsidesQuietly, SoundSubsides
<1> QED
  BY <1>3, <1>9, <1>11, <1>12

LEMMA NoSum ==
  ASSUME NEW x \in 0 .. 255, NEW y \in 0 .. 255, x + y = 0
  PROVE  x = 0 /\ y = 0
OBVIOUS

\* update(): the frame that opens the exchange goes out at a later attempt.
LEMMA OpenConnectionSound ==
  ASSUME TypeOK, TypeOK', \A k \in Key : Sound(k), NEW n \in Node, NEW q \in Key,
         OpenConnection(n, q)
  PROVE  Moves /\ \A k \in Key : Sound(k)'
<1> DEFINE s == sess[n][q]
           f == OpenFrame(q, s)
<1>1. /\ s # NoSession /\ s.state \in {"SendBroadcastAnnounce", "SendRequestToSend"}
      /\ GoOn(n, q, Opened(q, s), <<f>>) /\ Room(n) > 0 /\ delivered' = delivered
  BY DEF OpenConnection, Updates
<1>2. s \in SessionOf(n, q) /\ q[1] = n /\ q[1] # q[2]
  BY <1>1, Existing, SessionFacts DEF TypeOK, TxState
<1>3. PICK m \in Message : Exchange(q, m)
  BY <1>1 DEF Sound, Quiet
<1>4. SenderOf(q, m, s)
  BY <1>1, <1>2, <1>3 DEF Exchange, SendersSession
<1>5. Unsent(q, m, s)
  <2>1. s.ack \in 0 .. 255 /\ s.cts \in 0 .. 255 /\ s.last = 0
    BY <1>1, <1>4, Fits, ZenonT(30) DEF TypeOK, SenderOf
  <2>2. ASSUME ~IsBroadcast(q)
        PROVE  s.ack = 0 /\ s.cts = 0
    <3>1. q[2] \in Node
      BY <2>2, KeyType DEF IsBroadcast
    <3>2. SenderGrant(s)
      BY <1>1, <1>2, <3>1 DEF Sound, Grants, SessionGrants
    <3>3. s.ack + s.cts = 0
      BY <1>1, <3>2 DEF SenderGrant
    <3> QED
      BY <2>1, <3>3, NoSum
  <2> QED
    BY <1>1, <1>4, <2>1, <2>2 DEF SenderOf, Unsent
<1>6. /\ sess' = Store(n, q, Opened(q, s)) /\ outcome' = outcome
      /\ tx' = [tx EXCEPT ![n] = Offer(n, <<f>>)]
  BY <1>1 DEF GoOn
<1>7. f \in FrameOf(n) /\ Opening(q, f)
  BY <1>2, <1>5, OpensFrame
<1>8. Sound(q)'
  <2>1. Pair(m) = q /\ outcome'[m] # "idle" /\ Unopened(q, m)
    BY <1>1, <1>3, <1>4, <1>6 DEF Exchange, SenderOf
  <2> HIDE DEF s
  <2> QED
    BY <1>1, <1>2, <1>5, <1>6, <2>1, Opens
<1> HIDE DEF f
<1>9. <<f>> \in Seq(FrameOf(n)) /\ \A i \in 1 .. Len(<<f>>) : <<f>>[i] = f
  BY <1>7
<1>10. Moves
  BY <1>6, <1>9, SendMoves DEF TypeOK
<1>11. ASSUME NEW k \in Key, k # q
       PROVE  Sound(k)'
  <2>1. ~Concerns(k, f)
    BY <1>7, <1>11, OnePair DEF Concerns
  <2>2. \A i \in 1 .. Len(<<f>>) : ~Concerns(k, <<f>>[i])
    BY <1>9, <2>1
  <2> DEFINE t == Opened(q, s)
  <2>3. GoOn(n, q, t, <<f>>)
    BY <1>1
  <2> HIDE DEF t
  <2> QED
    BY <1>1, <1>9, <1>11, <2>2, <2>3, GoOnSubsides, SoundSubsides
<1> QED
  BY <1>8, <1>10, <1>11

-----------------------------------------------------------------------------
(* A receiver's session goes on *)

\* The frame node n takes from the path of a stands at its first place.
LEMMA FirstPlace ==
  ASSUME PathsOK(tx), NEW n, NEW a \in Node, Arrives(n, a)
  PROVE  1 \in Places(tx[a]) /\ tx[a][1] = Head(tx[a]) /\ n \in tx[a][1].to
BY DEF PathsOK, Arrives, Places

\* A frame with a specific destination is gone from its path when that node has
\* processed it.
LEMMA TakenGone ==
  ASSUME PathsOK(tx), Addressed, NEW n \in Node, NEW a \in Node, Arrives(n, a),
         Head(tx[a]).frame.dst # Global
  PROVE  Follows(tx[a], Processed(a, n), 1, <<>>)
<1>1. Head(tx[a]).to = {n}
  BY FirstPlace DEF Addressed, Receivers
<1> QED
  BY <1>1, ProcessedPath

\* What is left of such a path stood behind the first place.
LEMMA LeftBehind ==
  ASSUME NEW S, NEW p \in Seq(S), NEW r, Follows(p, r, 1, <<>>), NEW i \in Places(r)
  PROVE  /\ i + 1 \in Places(p) /\ r[i].frame = p[i + 1].frame /\ r[i].to \subseteq p[i + 1].to
         /\ 1 \in Places(p) /\ 1 < i + 1
BY DEF Follows, Places

LEMMA ReceiverGoesOn ==
  ASSUME TypeOK, TypeOK', NEW q \in Key, NEW m \in Message, Exchange(q, m), NEW n \in Node,
         n # q[1], NEW t, sess' = Store(n, q, t), ReceiverOf(m, n, t),
         outcome' = outcome, delivered' = delivered, ~Unopened(q, m),
         LosesFrames(q, tx[q[1]], tx'[q[1]]),
         \A i \in Places(tx'[q[1]]) : Opening(q, tx'[q[1]][i].frame) => n \notin tx'[q[1]][i].to,
         q[2] \in Node => \A i \in Places(tx'[q[2]]) :
           Confirming(q, tx'[q[2]][i].frame) => Arrived(m, q[2])
  PROVE  Exchange(q, m)'
<1>1. q[1] \in Node /\ PathsOK(tx) /\ PathsOK(tx') /\ SessionsOK(sess)
  BY KeyType DEF TypeOK
<1>2. \A x \in Node : sess'[x][q] = IF x = n THEN t ELSE sess[x][q]
  BY <1>1 DEF Store, SessionsOK
<1>3. SameArrivals(m)
  BY DEF SameArrivals, Arrived
<1>4. SendersSession(q, m)'
  <2>1. sess'[q[1]][q] = sess[q[1]][q]
    BY <1>1, <1>2
  <2> QED
    BY <2>1 DEF Exchange, SendersSession, SenderOf
<1>5. ReceiversSessions(q, m)'
  BY <1>2, <1>3 DEF Exchange, ReceiversSessions, ReceiverOf, SameArrivals
<1>6. SendersFrames(q, m)'
  <2> SUFFICES ASSUME NEW i \in Places(tx'[q[1]]), Concerns(q, tx'[q[1]][i].frame)
               PROVE  /\ Opening(q, tx'[q[1]][i].frame) => OpeningOf(q, m, tx[q[1]][i])'
                      /\ Carrying(q, tx'[q[1]][i].frame) => CarryingOf(q, m, tx[q[1]][i].frame)'
    BY DEF SendersFrames, Concerns
  <2>1. PICK j \in Places(tx[q[1]]) :
          tx'[q[1]][i].frame = tx[q[1]][j].frame /\ tx'[q[1]][i].to \subseteq tx[q[1]][j].to
    BY DEF LosesFrames
  <2>2. /\ Opening(q, tx'[q[1]][i].frame) => OpeningOf(q, m, tx[q[1]][j])
        /\ Carrying(q, tx'[q[1]][i].frame) => CarryingOf(q, m, tx[q[1]][j].frame)
    BY <2>1 DEF Exchange, SendersFrames
  <2>3. tx[q[1]][j].to \subseteq Node
    <3>1. tx[q[1]] \in Seq(EntryOf(q[1]))
      BY <1>1 DEF PathsOK
    <3>2. tx[q[1]][j] \in EntryOf(q[1])
      BY <3>1, PlaceType
    <3> QED
      BY <3>2 DEF EntryOf
  <2>4. Opening(q, tx'[q[1]][i].frame) => OpeningOf(q, m, tx[q[1]][i])'
    BY <1>2, <1>3, <2>1, <2>2, <2>3 DEF OpeningOf, SameArrivals
  <2>5. Carrying(q, tx'[q[1]][i].frame) => CarryingOf(q, m, tx[q[1]][i].frame)'
    <3>1. sess'[q[1]][q] = sess[q[1]][q]
      BY <1>1, <1>2
    <3> QED
      BY <2>1, <2>2, <3>1 DEF CarryingOf
  <2> QED
    BY <2>4, <2>5
<1>7. ReceiversFrames(q, m)'
  BY <1>3 DEF ReceiversFrames, SameArrivals
<1>8. Ordered(q, tx'[q[1]])
  BY <1>1, OrderSubsides DEF Exchange
<1> QED
  BY <1>4, <1>5, <1>6, <1>7, <1>8 DEF Exchange

\* The sender was granted no more than the receiver has cleared
Within(s, t) == s # NoSession => s.ack + s.cts <= t.ack + t.cts
CarryingWithin(k, p, t) ==
  \A i \in Places(p) : Carrying(k, p[i].frame) => p[i].frame.seq <= t.ack + t.cts
NoOpening(k, p) == \A i \in Places(p) : ~Opening(k, p[i].frame)
\* The last frame of the path is the only one that clears packets of the pair k
ClearsLast(k, p, f) ==
  \A i \in Places(p) : Clearing(k, p[i].frame) => i = Len(p) /\ p[i].frame = f

LEMMA ReceiverGrants ==
  ASSUME TypeOK, NEW q \in Key, q[2] \in Node, q[1] # q[2], Grants(q), NEW t,
         sess' = Store(q[2], q, t), t # NoSession, ReceiverGrant(t), Within(sess[q[1]][q], t),
         NoOpening(q, tx'[q[1]]), CarryingWithin(q, tx'[q[1]], t),
         \/ NoClearing(q, tx'[q[2]])
         \/ /\ NoCarrying(q, tx'[q[1]])
            /\ \E f : ClearsLast(q, tx'[q[2]], f) /\ ClearingOf(q, f, sess[q[1]][q], t)
  PROVE  Grants(q)'
<1>1. q[1] \in Node /\ SessionsOK(sess)
  BY KeyType DEF TypeOK
<1>2. sess'[q[1]][q] = sess[q[1]][q] /\ sess'[q[2]][q] = t
  BY <1>1 DEF Store, SessionsOK
<1>3. SessionGrants(q)'
  BY <1>2 DEF Grants, SessionGrants, Within
<1>4. FrameGrants(q)'
  BY <1>2 DEF FrameGrants, NoOpening, CarryingWithin
<1>5. ClearGrants(q)'
  BY <1>2 DEF ClearGrants, NoClearing, ClearsLast
<1> QED
  BY <1>3, <1>4, <1>5 DEF Grants

-----------------------------------------------------------------------------
(* A receiver takes the frame that opens the exchange *)

LEMMA OpeningTaken ==
  ASSUME PathsOK(tx), NEW n \in Node, NEW a \in Node, Arrives(n, a), NEW q,
         Ordered(q, tx[a]), Opening(q, Head(tx[a]).frame)
  PROVE  \A i \in Places(Processed(a, n)) :
           Opening(q, Processed(a, n)[i].frame) => n \notin Processed(a, n)[i].to
<1> DEFINE p == tx[a]
           r == Processed(a, n)
<1>1. p \in Seq(EntryOf(a)) /\ Len(p) \in Nat /\ 1 \in Places(p) /\ Opening(q, p[1].frame)
  BY FirstPlace DEF PathsOK
<1>2. \A j \in Places(p) : 1 < j => ~Opening(q, p[j].frame)
  BY <1>1 DEF Ordered
<1>3. PICK d \in {0, 1} : Follows(p, r, d, <<>>) /\ (d = 0 => n \notin r[1].to)
  BY ProcessedPath
<1> HIDE DEF p, r
<1> SUFFICES ASSUME NEW i \in Places(r), Opening(q, r[i].frame)
             PROVE  n \notin r[i].to
  BY DEF r
<1>4. /\ Len(r) = Len(p) - d /\ i \in 1 .. Len(r)
      /\ \A j \in 1 .. Len(p) - d : r[j].frame = p[j + d].frame
  BY <1>3 DEF Follows, Places
<1>5. i + d \in 1 .. Len(p) /\ r[i].frame = p[i + d].frame
  BY <1>1, <1>4
<1>6. ~(1 < i + d)
  BY <1>2, <1>5 DEF Places
<1>7. i = 1 /\ d = 0
  BY <1>4, <1>6
<1> QED
  BY <1>3, <1>7

LEMMA NewReceiver ==
  ASSUME NEW m \in Message, NEW n, NEW f, f.pgn = Header[m].pgn, f.size = Header[m].size,
         NEW limit, NEW state, ~Arrived(m, n)
  PROVE  LET t == ReceiveSession(f, limit, state)
         IN ReceiverOf(m, n, t) /\ t.last = 0 /\ t.ack = 0 /\ t.cts = 0 /\ t.max = limit
            /\ t.state = state /\ t.total = Packets(m) /\ t.pgn = f.pgn
<1> DEFINE t == ReceiveSession(f, limit, state)
<1>1. Packets(m) \in Nat /\ Slots(f.size) = Packets(m) /\ PacketCount(f.size) = Packets(m)
  BY PacketsType DEF Packets
<1>2. /\ t.last = 0 /\ t.ack = 0 /\ t.cts = 0 /\ t.max = limit /\ t.state = state
      /\ t.total = Packets(m) /\ t.pgn = f.pgn /\ t.data = [i \in 1 .. Packets(m) |-> Blank]
  BY <1>1 DEF ReceiveSession, NewSession
<1>3. Len([i \in 1 .. Packets(m) |-> Blank]) = Packets(m)
  BY <1>1, BlankBuffer
<1> HIDE DEF t
<1>4. Len(t.data) = t.total
  BY <1>2, <1>3
<1>5. \A i \in 1 .. t.last : t.data[i] = <<m, i>>
  <2>1. 1 .. 0 = {}
    OBVIOUS
  <2> QED
    BY <1>2, <2>1
<1> QED
  BY <1>2, <1>4, <1>5 DEF ReceiverOf, t

\* process_broadcast_announce_message()
LEMMA AnnounceSound ==
  ASSUME TypeOK, TypeOK', Addressed, \A k \in Key : Sound(k), NEW n \in Node, NEW a \in Node,
         ReceiveAnnounce(n, a)
  PROVE  Moves /\ \A k \in Key : Sound(k)'
<1> DEFINE f == Head(tx[a]).frame
           q == <<a, Global>>
           t == ReceiveSession(f, 255, "WaitForDataTransferPacket")
<1>1. /\ n \in Stack /\ n # a /\ Arrives(n, a) /\ f \in FrameOf(a) /\ f.src = a
      /\ f.type = "BAM" /\ f.dst = Global
  BY TakesFacts DEF ReceiveAnnounce
<1>2. /\ Answer(n, f, <<>>) /\ UNCHANGED <<outcome, delivered>>
      /\ \/ sess' = sess \/ sess' = Close(n, {q})
         \/ f.packets = PacketCount(f.size) /\ sess' = Store(n, q, t)
  BY <1>1 DEF ReceiveAnnounce, ProcessAnnounce
<1>3. q \in Key /\ q[1] = a /\ q[2] = Global /\ q[2] \notin Node /\ Opening(q, f)
  BY <1>1, NodeAssumption DEF Key, Destination, Opening
<1>4. PathsOK(tx) /\ PathsOK(tx') /\ SessionsOK(sess) /\ Onward
  BY <1>2 DEF TypeOK, Onward
<1>5. tx'[a] = Processed(a, n)
  BY <1>1, <1>2, <1>4 DEF Answer, PathsOK
<1> HIDE DEF q, t
<1>6. Moves
  BY <1>1, <1>2, <1>4, NoneAside, AnswerMoves
<1>7. \A k \in Key : FramesSubside(k)
  BY <1>1, <1>2, <1>4, NoneAside, AnswerSubsides
<1>8. ASSUME NEW k \in Key, SessionsSubside(k)
      PROVE  Sound(k)'
  BY <1>2, <1>4, <1>7, <1>8, SubsidesQuietly, SoundSubsides
<1>9. CASE sess' = sess \/ sess' = Close(n, {q})
  BY <1>4, <1>6, <1>8, <1>9, CloseSubsides, SameSessions
<1>10. CASE f.packets = PacketCount(f.size) /\ sess' = Store(n, q, t)
  <2>1. \A k \in Key : k # q => Sound(k)'
    BY <1>3, <1>4, <1>8, <1>10, StoreSubsides
  <2>2. Sound(q)'
    <3>1. 1 \in Places(tx[a]) /\ tx[a][1] = Head(tx[a]) /\ n \in tx[a][1].to
      BY <1>1, <1>4, FirstPlace
    <3>2. ~NoFrames(q)
      BY <1>3, <3>1 DEF NoFrames, Concerns
    <3>3. PICK m \in Message : Exchange(q, m)
      BY <1>3, <3>2 DEF Sound, Quiet
    <3>4. OpeningOf(q, m, tx[a][1])
      BY <1>3, <3>1, <3>3 DEF Exchange, SendersFrames
    <3>5. ReceiverOf(m, n, t)
      BY <3>1, <3>4, NewReceiver DEF OpeningOf, t
    <3>6. \A i \in Places(tx'[a]) : Opening(q, tx'[a][i].frame) => n \notin tx'[a][i].to
      BY <1>1, <1>3, <1>4, <1>5, <3>3, OpeningTaken DEF Exchange
    <3>7. LosesFrames(q, tx[a], tx'[a])
      BY <1>3, <1>7 DEF FramesSubside
    <3>8. Exchange(q, m)'
      BY <1>1, <1>2, <1>3, <1>10, <3>2, <3>3, <3>5, <3>6, <3>7, ReceiverGoesOn DEF Unopened
    <3> QED
      BY <1>3, <3>8 DEF Sound
  <2> QED
    BY <1>6, <2>1, <2>2
<1> QED
  BY <1>2, <1>9, <1>10

-----------------------------------------------------------------------------
(* A receiver clears the next packets *)

\* Packets are still missing
Unfinished(r) == r.last < r.total

LEMMA SegmentBound ==
  ASSUME NEW last \in 0 .. 255, NEW total \in 0 .. 255, last < total, NEW max \in 0 .. 255
  PROVE  /\ (total - last) % 256 = total - last /\ (last + 1) % 256 = last + 1
         /\ LET count == IF total - last > max THEN max
                         ELSE IF total - last > 16 THEN 16 ELSE total - last
            IN count \in 0 .. 255 /\ last + count <= total
<1>1. total - last \in 0 .. 255 /\ last + 1 \in 0 .. 255
  OBVIOUS
<1>2. \A x \in 0 .. 255 : x % 256 = x
  OBVIOUS
<1>3. (total - last) % 256 = total - last /\ (last + 1) % 256 = last + 1
  BY <1>1, <1>2
<1> QED
  BY <1>3

LEMMA SegmentFits ==
  ASSUME NEW r \in Session, Unfinished(r)
  PROVE  /\ r.last \in 0 .. 255 /\ r.total \in 0 .. 255 /\ Segment(r) \in 0 .. 255
         /\ r.last + Segment(r) <= r.total /\ (r.last + 1) % 256 = r.last + 1
         /\ Remaining(r) = r.total - r.last
<1>1. r.last \in 0 .. 255 /\ r.total \in 0 .. 255 /\ r.max \in 0 .. 255
  BY DEF Session, SessionRecord
<1> DEFINE last == r.last
           total == r.total
           max == r.max
<1>2. last \in 0 .. 255 /\ total \in 0 .. 255 /\ max \in 0 .. 255
  BY <1>1
<1>3. last < total
  BY <1>1 DEF Unfinished
<1>4. Segment(r) = IF (total - last) % 256 > max THEN max
                   ELSE IF (total - last) % 256 > 16 THEN 16 ELSE (total - last) % 256
  BY DEF Segment, Remaining
<1>5. Remaining(r) = (total - last) % 256
  BY DEF Remaining
<1> HIDE DEF last, total, max
<1>6. /\ (total - last) % 256 = total - last /\ (last + 1) % 256 = last + 1
      /\ LET count == IF total - last > max THEN max
                      ELSE IF total - last > 16 THEN 16 ELSE total - last
         IN count \in 0 .. 255 /\ last + count <= total
  BY <1>2, <1>3, SegmentBound
<1> QED
  BY <1>2, <1>4, <1>5, <1>6 DEF last, total, max

\* The sender s waits for a clear to send behind the packets r has received
Awaits(s, r) ==
  s # NoSession =>
    /\ s.state = "WaitForClearToSend" /\ s.last = r.last /\ s.total = r.total
    /\ s.ack + s.cts <= r.last
\* t is the session r whose next packets have been cleared
ClearsNext(r, t) ==
  /\ t # NoSession /\ t.state = "WaitForDataTransferPacket" /\ t.total = r.total
  /\ t.last = r.last /\ t.ack = r.last /\ t.cts = Segment(r)

LEMMA ClearFacts ==
  ASSUME NEW n \in Node, NEW q \in Key, SessionsOK(sess), NEW r \in Session, Unfinished(r),
         NEW t, ClearsNext(r, t), Awaits(sess[n][q], r)
  PROVE  /\ ClearingOf(q, ClearFrame(q, r, Segment(r)), sess[n][q], t)
         /\ ReceiverGrant(t) /\ Within(sess[n][q], t)
<1> DEFINE c == ClearFrame(q, r, Segment(r))
           s == sess[n][q]
<1>1. /\ r.last \in 0 .. 255 /\ r.total \in 0 .. 255 /\ Segment(r) \in 0 .. 255
      /\ r.last + Segment(r) <= r.total /\ (r.last + 1) % 256 = r.last + 1
  BY SegmentFits
<1>2. c.count = Segment(r) /\ c.next = r.last + 1
  BY <1>1 DEF ClearFrame
<1> HIDE DEF c
<1> DEFINE count == Segment(r)
           last == r.last
           total == r.total
<1>3. /\ last \in 0 .. 255 /\ total \in 0 .. 255 /\ count \in 0 .. 255 /\ last + count <= total
      /\ c.count = count /\ c.next = last + 1
  BY <1>1, <1>2
<1>4. /\ t # NoSession /\ t.state = "WaitForDataTransferPacket" /\ t.total = total
      /\ t.last = last /\ t.ack = last /\ t.cts = count
  BY DEF ClearsNext
<1>5. ASSUME s # NoSession
      PROVE  /\ s.state = "WaitForClearToSend" /\ s.last = last /\ s.total = total
             /\ s.ack + s.cts <= last /\ s.ack \in 0 .. 255 /\ s.cts \in 0 .. 255
  <2>1. s.ack \in 0 .. 255 /\ s.cts \in 0 .. 255
    BY <1>5, Fits, ZenonT(30)
  <2> QED
    BY <1>5, <2>1 DEF Awaits
<1> HIDE DEF count, last, total, s
<1>6. ClearingOf(q, c, s, t)
  BY <1>3, <1>4, <1>5 DEF ClearingOf
<1>7. ReceiverGrant(t)
  BY <1>3, <1>4 DEF ReceiverGrant, Granted
<1>8. Within(s, t)
  <2> SUFFICES ASSUME s # NoSession PROVE s.ack + s.cts <= t.ack + t.cts
    BY DEF Within
  <2>1. s.ack + s.cts <= last /\ s.ack \in 0 .. 255 /\ s.cts \in 0 .. 255
    BY <1>5
  <2>2. t.ack + t.cts = last + count
    BY <1>4
  <2>3. s.ack + s.cts <= last + count
    <3> DEFINE x == s.ack
               y == s.cts
    <3>1. x \in 0 .. 255 /\ y \in 0 .. 255 /\ x + y <= last
      BY <2>1
    <3> HIDE DEF x, y
    <3>2. x + y <= last + count
      BY <1>3, <3>1
    <3> QED
      BY <3>2 DEF x, y
  <2> QED
    BY <2>2, <2>3
<1> QED
  BY <1>6, <1>7, <1>8 DEF c, s

LEMMA ClearFrameType ==
  ASSUME NEW q \in Key, q[2] \in Node, NEW r \in SessionOf(q[2], q), q[1] # q[2]
  PROVE  LET c == ClearFrame(q, r, Segment(r))
         IN c \in FrameOf(q[2]) /\ Clearing(q, c) /\ ~Confirming(q, c)
<1>1. r \in Session /\ Segment(r) \in Byte
  BY SessionFacts, CounterType
<1>2. ClearFrame(q, r, Segment(r)) \in FrameOf(q[2])
  BY <1>1, SessionFrames
<1> QED
  BY <1>2 DEF ClearFrame, Clearing, Confirming

LEMMA ClearsBehind ==
  ASSUME NEW S, NEW p \in Seq(S), NEW r, NEW q, NEW c, Follows(p, r, 0, <<c>>),
         Clearing(q, c), NoClearing(q, p)
  PROVE  /\ ClearsLast(q, r, c)
         /\ \A i \in Places(r) : Confirming(q, r[i].frame) =>
              \E j \in Places(p) : Confirming(q, p[j].frame)
<1> SUFFICES ASSUME NEW i \in Places(r)
             PROVE  /\ Clearing(q, r[i].frame) => i = Len(r) /\ r[i].frame = c
                    /\ Confirming(q, r[i].frame) => \E j \in Places(p) : Confirming(q, p[j].frame)
  BY DEF ClearsLast
<1>1. CASE i \in Places(p) /\ r[i].frame = p[i].frame
  BY <1>1 DEF NoClearing
<1>2. CASE i = Len(r) /\ r[i] = Entry(c)
  BY <1>2 DEF Entry, Clearing, Confirming
<1> QED
  BY <1>1, <1>2, OneBehind

\* The frames of the pair that a path with no new frame of it holds were there.
LEMMA StaysNone ==
  ASSUME NEW S, NEW p \in Seq(S), NEW r, NEW q, LosesFrames(q, p, r)
  PROVE  /\ NoClearing(q, p) => NoClearing(q, r)
         /\ NoCarrying(q, p) => NoCarrying(q, r)
         /\ NoOpening(q, p) => NoOpening(q, r)
         /\ \A i \in Places(r) : Confirming(q, r[i].frame) =>
              \E j \in Places(p) : Confirming(q, p[j].frame)
BY DEF LosesFrames, NoClearing, NoCarrying, NoOpening, Concerns

\* The receiver's session r of the exchange is stored as t.  There was room for
\* the clear to send, or there was none and the session waits with it.
LEMMA Clears ==
  ASSUME TypeOK, TypeOK', NEW q \in Key, q[2] \in Node, q[1] # q[2], NEW m \in Message,
         Exchange(q, m), Grants(q), outcome' = outcome, delivered' = delivered,
         ~Unopened(q, m), NEW t, sess' = Store(q[2], q, t), ReceiverOf(m, q[2], t),
         t # NoSession, ReceiverGrant(t), Within(sess[q[1]][q], t),
         LosesFrames(q, tx[q[1]], tx'[q[1]]), NoOpening(q, tx'[q[1]]),
         CarryingWithin(q, tx'[q[1]], t), NoClearing(q, tx[q[2]]),
         \/ LosesFrames(q, tx[q[2]], tx'[q[2]])
         \/ \E c : /\ Follows(tx[q[2]], tx'[q[2]], 0, <<c>>) /\ Clearing(q, c)
                   /\ ClearingOf(q, c, sess[q[1]][q], t) /\ NoCarrying(q, tx'[q[1]])
  PROVE  Sound(q)'
<1>1. tx[q[2]] \in Seq(EntryOf(q[2]))
  BY DEF TypeOK, PathsOK
<1>2. /\ \A i \in Places(tx'[q[2]]) : Confirming(q, tx'[q[2]][i].frame) =>
           \E j \in Places(tx[q[2]]) : Confirming(q, tx[q[2]][j].frame)
      /\ \/ NoClearing(q, tx'[q[2]])
         \/ /\ NoCarrying(q, tx'[q[1]])
            /\ \E f : ClearsLast(q, tx'[q[2]], f) /\ ClearingOf(q, f, sess[q[1]][q], t)
  <2>1. CASE LosesFrames(q, tx[q[2]], tx'[q[2]])
    BY <1>1, <2>1, StaysNone
  <2>2. CASE \E c : /\ Follows(tx[q[2]], tx'[q[2]], 0, <<c>>) /\ Clearing(q, c)
                    /\ ClearingOf(q, c, sess[q[1]][q], t) /\ NoCarrying(q, tx'[q[1]])
    BY <1>1, <2>2, ClearsBehind
  <2> QED
    BY <2>1, <2>2
<1>3. Grants(q)'
  BY <1>2, ReceiverGrants
<1>4. \A i \in Places(tx'[q[2]]) : Confirming(q, tx'[q[2]][i].frame) => Arrived(m, q[2])
  BY <1>2 DEF Exchange, ReceiversFrames
<1>5. \A i \in Places(tx'[q[1]]) : ~Opening(q, tx'[q[1]][i].frame)
  BY DEF NoOpening
<1>6. Exchange(q, m)'
  BY <1>4, <1>5, ReceiverGoesOn
<1> QED
  BY <1>3, <1>6 DEF Sound

LEMMA ClearedFacts ==
  ASSUME NEW r \in Session
  PROVE  LET t == Cleared(r)
             u == InState(Cleared(r), "WaitForDataTransferPacket")
         IN /\ t.state = r.state /\ t.msg = r.msg /\ t.pgn = r.pgn /\ t.data = r.data
            /\ t.total = r.total /\ t.last = r.last /\ t.ack = r.last /\ t.cts = Segment(r)
            /\ t # NoSession
            /\ u.msg = r.msg /\ u.pgn = r.pgn /\ u.data = r.data
            /\ ClearsNext(r, u)
<1>1. Cleared(r) \in Session /\ InState(Cleared(r), "WaitForDataTransferPacket") \in Session
  BY ClearedType, StateType DEF RxState
<1>2. Cleared(r) # NoSession /\ InState(Cleared(r), "WaitForDataTransferPacket") # NoSession
  BY <1>1, SessionExists
<1> QED
  BY <1>2 DEF Cleared, InState, Session, SessionRecord, ClearsNext

\* What the opening frame of an exchange says of its sender and its receiver
LEMMA OpeningHead ==
  ASSUME TypeOK, NEW q \in Key, Sound(q), NEW n \in Node, NEW a \in Node, a = q[1],
         Arrives(n, a), Opening(q, Head(tx[a]).frame)
  PROVE  /\ ~NoFrames(q)
         /\ \E m \in Message :
              /\ Exchange(q, m) /\ ~Arrived(m, n) /\ sess[n][q] = NoSession
              /\ Head(tx[a]).frame.pgn = Header[m].pgn
              /\ Head(tx[a]).frame.size = Header[m].size
              /\ Head(tx[a]).frame.packets = Packets(m)
<1>1. 1 \in Places(tx[a]) /\ tx[a][1] = Head(tx[a]) /\ n \in tx[a][1].to
  BY FirstPlace DEF TypeOK
<1>2. ~NoFrames(q)
  BY <1>1 DEF NoFrames, Concerns
<1>3. PICK m \in Message : Exchange(q, m)
  BY <1>2 DEF Sound, Quiet
<1>4. OpeningOf(q, m, tx[a][1])
  BY <1>1, <1>3 DEF Exchange, SendersFrames
<1> QED
  BY <1>1, <1>2, <1>3, <1>4 DEF OpeningOf

LEMMA OpeningGone ==
  ASSUME PathsOK(tx), NEW a \in Node, NEW q, NEW r, Follows(tx[a], r, 1, <<>>),
         Ordered(q, tx[a]), Opening(q, tx[a][1].frame) \/ Carrying(q, tx[a][1].frame)
  PROVE  NoOpening(q, r)
<1> SUFFICES ASSUME NEW i \in Places(r), Opening(q, r[i].frame)
             PROVE  FALSE
  BY DEF NoOpening
<1>1. tx[a] \in Seq(EntryOf(a))
  BY DEF PathsOK
<1>2. i + 1 \in Places(tx[a]) /\ r[i].frame = tx[a][i + 1].frame /\ 1 \in Places(tx[a]) /\ 1 < i + 1
  BY <1>1, LeftBehind
<1> QED
  BY <1>2 DEF Ordered

\* process_request_to_send()
LEMMA RequestSound ==
  ASSUME TypeOK, TypeOK', Addressed, \A k \in Key : Sound(k), NEW n \in Node, NEW a \in Node,
         ReceiveRequestToSend(n, a)
  PROVE  Moves /\ Onward /\ \A k \in Key : Sound(k)'
<1> DEFINE f == Head(tx[a]).frame
           q == <<a, n>>
           s == sess[a][q]
           new == ReceiveSession(f, Least(f.max, PacketsPerCts), "SendClearToSend")
           t == InState(Cleared(new), "WaitForDataTransferPacket")
           c == ClearFrame(q, new, Segment(new))
           stored == IF Room(n) > 0 THEN t ELSE new
<1>1. /\ n \in Stack /\ n # a /\ Arrives(n, a) /\ f \in FrameOf(a) /\ f.src = a
      /\ f.type = "RTS" /\ f.dst # Global
  BY TakesFacts DEF ReceiveRequestToSend
<1>2. /\ PathsOK(tx) /\ PathsOK(tx') /\ SessionsOK(sess) /\ Onward
      /\ UNCHANGED <<outcome, delivered>>
  BY DEF TypeOK, ReceiveRequestToSend, ProcessRequestToSend, Onward
<1>3. f.dst = n
  BY <1>1, <1>2, FirstPlace DEF Addressed, Receivers
<1>4. q \in Key /\ q[1] = a /\ q[2] = n /\ Opening(q, f)
  BY <1>1, <1>3 DEF Key, Destination, Opening
<1>5. PICK m \in Message :
        /\ Exchange(q, m) /\ ~Arrived(m, n) /\ sess[n][q] = NoSession
        /\ f.pgn = Header[m].pgn /\ f.size = Header[m].size /\ f.packets = Packets(m)
  BY <1>1, <1>4, OpeningHead
<1>6. f.pgn \in PGN /\ f.size \in Word /\ f.max \in Byte
  <2>1. f \in FrameOf(a) /\ f.type = "RTS"
    BY <1>1
  <2> HIDE DEF f
  <2> QED
    BY <2>1, FrameFields
<1>7. \/ Answer(n, f, <<AbortFrame(n, a, f.pgn)>>) /\ sess' = sess
      \/ Answer(n, f, <<c>>) /\ sess' = Store(n, q, stored)
  <2>1. Append(<<>>, c) = <<c>> /\ Len(<<c>>) = 1
    OBVIOUS
  <2>2. 1 <= Room(n) <=> Room(n) > 0
    <3>1. Room(n) \in Int
      BY <1>2, ConfigurationAssumption DEF PathsOK, Room
    <3> QED
      BY <3>1
  <2> HIDE DEF c, t, new
  <2>3. \/ Answer(n, f, <<AbortFrame(n, a, f.pgn)>>) /\ sess' = sess
        \/ /\ Answer(n, f, Append(<<>>, c))
           /\ sess' = Store(n, q, IF Len(Append(<<>>, c)) <= Room(n) THEN t ELSE new)
    <3>1. f.packets = PacketCount(f.size)
      BY <1>5 DEF Packets
    <3> QED
      BY <1>1, <1>4, <1>5, <3>1 DEF ReceiveRequestToSend, ProcessRequestToSend, c, t, new
  <2> QED
    BY <2>1, <2>2, <2>3
<1>8. new \in SessionOf(n, q) /\ new \in Session
  <2>1. Least(f.max, PacketsPerCts) \in Byte
    BY <1>6, ConfigurationAssumption, LeastByte
  <2> HIDE DEF f, q
  <2>2. new \in SessionOf(n, q)
    BY <1>1, <1>4, <1>6, <2>1, ReceiveSessionType DEF RxState
  <2> QED
    BY <1>4, <2>2, SessionFacts
<1>9. /\ ReceiverOf(m, n, new) /\ new.last = 0 /\ new.ack = 0 /\ new.cts = 0
      /\ new.state = "SendClearToSend" /\ new.total = Packets(m) /\ new.pgn = f.pgn
  <2> HIDE DEF f
  <2> QED
    BY <1>5, NewReceiver
<1> HIDE DEF new, f, q
<1>10. c \in FrameOf(n) /\ Clearing(q, c)
  BY <1>1, <1>4, <1>8, ClearFrameType
<1> HIDE DEF c
<1>11. <<c>> \in Seq(FrameOf(n)) /\ \A i \in 1 .. Len(<<c>>) : <<c>>[i] = c
  BY <1>10
<1>12. CASE Answer(n, f, <<AbortFrame(n, a, f.pgn)>>) /\ sess' = sess
  <2> DEFINE g == AbortFrame(n, a, f.pgn)
  <2>1. g \in FrameOf(n) /\ \A k : ~Concerns(k, g)
    BY <1>1, <1>6, AbortType, AbortAside
  <2> HIDE DEF g
  <2>2. <<g>> \in Seq(FrameOf(n)) /\ \A k : \A i \in 1 .. Len(<<g>>) : ~Concerns(k, <<g>>[i])
    BY <2>1
  <2>3. Answer(n, f, <<g>>)
    BY <1>12 DEF g
  <2>4. Moves
    BY <1>1, <1>2, <2>2, <2>3, AnswerMoves DEF f
  <2>5. \A k \in Key : FramesSubside(k)
    BY <1>1, <1>2, <2>2, <2>3, AnswerSubsides DEF f
  <2> QED
    BY <1>2, <1>12, <2>4, <2>5, SameSessions, SubsidesQuietly, SoundSubsides
<1>13. CASE Answer(n, f, <<c>>) /\ sess' = Store(n, q, stored)
  <2>1. Moves
    BY <1>1, <1>2, <1>11, <1>13, AnswerMoves DEF f
  <2>2. ASSUME NEW k \in Key, k # q
        PROVE  Sound(k)'
    <3>1. ~Concerns(k, c)
      BY <1>4, <1>10, <2>2, OnePair DEF Concerns
    <3>2. FramesSubside(k)
      BY <1>1, <1>2, <1>11, <1>13, <3>1, AnswerSubsides DEF f
    <3> HIDE DEF stored
    <3>3. SessionsSubside(k)
      BY <1>2, <1>4, <1>13, <2>2, StoreSubsides
    <3> QED
      BY <1>2, <3>2, <3>3, SubsidesQuietly, SoundSubsides
  <2>3. tx'[a] = Processed(a, n) /\ tx'[n] = Offer(n, <<c>>)
    BY <1>1, <1>2, <1>13 DEF Answer, PathsOK
  <2>4. Follows(tx[a], tx'[a], 1, <<>>)
    BY <1>1, <1>2, <2>3, TakenGone DEF f
  <2>5. LosesFrames(q, tx[a], tx'[a])
    BY <1>1, <1>2, <2>3, ProcessedSubsides
  <2>6. 1 \in Places(tx[a]) /\ tx[a][1].frame = f
    BY <1>1, <1>2, FirstPlace DEF f
  <2>7. NoOpening(q, tx'[a])
    BY <1>2, <1>4, <1>5, <2>4, <2>6, OpeningGone DEF Exchange
  <2>8. Grants(q)
    BY <1>1, <1>4 DEF Sound
  <2>9. /\ s # NoSession => s.state = "WaitForClearToSend" /\ s.ack + s.cts = 0
        /\ NoCarrying(q, tx[a]) /\ NoClearing(q, tx[n])
    BY <1>4, <2>6, <2>8 DEF Grants, FrameGrants
  <2>10. NoCarrying(q, tx'[a])
    <3>1. tx[a] \in Seq(EntryOf(a))
      BY <1>2 DEF PathsOK
    <3> QED
      BY <2>5, <2>9, <3>1, StaysNone
  <2>11. Awaits(s, new)
    <3> SUFFICES ASSUME s # NoSession
                 PROVE  /\ s.state = "WaitForClearToSend" /\ s.last = 0
                        /\ s.total = new.total /\ s.ack + s.cts <= 0
      BY <1>9 DEF Awaits
    <3>1. Granted(s) /\ SenderOf(q, m, s)
      BY <1>4, <1>5, <2>8 DEF Grants, SessionGrants, SenderGrant, Exchange, SendersSession
    <3>2. s.ack \in 0 .. 255 /\ s.cts \in 0 .. 255 /\ s.last \in 0 .. 255
      BY <1>2, <1>4, Fits, ZenonT(30)
    <3> DEFINE x == s.ack
               y == s.cts
               z == s.last
    <3>3. x \in 0 .. 255 /\ y \in 0 .. 255 /\ z \in 0 .. 255 /\ x + y = 0 /\ z <= x + y
      BY <2>9, <3>1, <3>2 DEF Granted
    <3> HIDE DEF x, y, z
    <3>4. z = 0 /\ x + y <= 0
      BY <3>3
    <3> QED
      BY <1>5, <1>9, <2>9, <3>1, <3>4 DEF SenderOf, x, y, z
  <2>12. Unfinished(new)
    BY <1>9, HeaderFacts DEF Unfinished
  <2>13. ReceiverOf(m, n, stored) /\ stored # NoSession /\ (Room(n) > 0 => ClearsNext(new, stored))
    <3>1. /\ t.pgn = new.pgn /\ t.total = new.total /\ t.data = new.data /\ t.last = 0
          /\ t # NoSession /\ ClearsNext(new, t)
      BY <1>8, <1>9, ClearedFacts DEF ClearsNext
    <3>2. ReceiverOf(m, n, t)
      BY <1>9, <3>1 DEF ReceiverOf
    <3> HIDE DEF t
    <3> QED
      BY <1>8, <1>9, <3>1, <3>2, SessionExists
  <2>14. ReceiverGrant(stored) /\ Within(s, stored)
         /\ (Room(n) > 0 => ClearingOf(q, c, s, stored))
    <3>1. CASE Room(n) > 0
      <4>1. ClearsNext(new, stored)
        BY <2>13, <3>1
      <4> HIDE DEF stored
      <4> QED
        BY <1>2, <1>4, <1>8, <2>11, <2>12, <4>1, ClearFacts DEF c
    <3>2. CASE ~(Room(n) > 0)
      <4>1. stored = new
        BY <3>2
      <4>2. ReceiverGrant(new)
        BY <1>9, HeaderFacts DEF ReceiverGrant, Granted
      <4>3. Within(s, new)
        BY <1>9, <2>11 DEF Within, Awaits
      <4> QED
        BY <3>2, <4>1, <4>2, <4>3
    <3> QED
      BY <3>1, <3>2
  <2>15. CarryingWithin(q, tx'[a], stored)
    BY <2>10 DEF CarryingWithin, NoCarrying
  <2>16. \/ LosesFrames(q, tx[n], tx'[n])
         \/ /\ Follows(tx[n], tx'[n], 0, <<c>>) /\ Clearing(q, c)
            /\ ClearingOf(q, c, s, stored) /\ NoCarrying(q, tx'[a])
    <3>1. CASE Room(n) > 0
      BY <1>2, <1>10, <2>3, <2>10, <2>14, <3>1, OfferOne
    <3>2. CASE ~(Room(n) > 0)
      <4>1. Follows(tx[n], tx'[n], 0, <<>>)
        BY <1>2, <1>10, <2>3, <3>2, OfferOne
      <4>2. tx[n] \in Seq(EntryOf(n)) /\ Len(<<>>) \in Nat /\ \A i \in 1 .. Len(<<>>) : FALSE
        BY <1>2 DEF PathsOK
      <4> QED
        BY <4>1, <4>2, FollowsLoses
    <3> QED
      BY <3>1, <3>2
  <2>17. ~Unopened(q, m)
    BY <1>4, <2>6 DEF Unopened, NoFrames, Concerns
  <2> HIDE DEF stored
  <2>18. Sound(q)'
    BY <1>1, <1>2, <1>4, <1>5, <1>13, <2>5, <2>7, <2>8, <2>9, <2>13, <2>14, <2>15, <2>16, <2>17,
       Clears
  <2> QED
    BY <1>2, <2>1, <2>2, <2>18
<1> QED
  BY <1>7, <1>12, <1>13

\* got is the session r with the packets that were cleared, and the sender s has
\* sent them
UsedUp(s, r, got) ==
  /\ got.last = r.ack + r.cts /\ got.total = r.total
  /\ s # NoSession => got.last <= s.last

\* A receiver that has all the packets it asked for has all that were sent: the
\* sender waits for the next clear to send.
LEMMA SenderAwaits ==
  ASSUME TypeOK, NEW q \in Key, q[2] \in Node, q[1] # q[2], NEW m \in Message, Exchange(q, m),
         Grants(q), sess[q[2]][q] # NoSession, NEW got \in Session, Unfinished(got),
         UsedUp(sess[q[1]][q], sess[q[2]][q], got)
  PROVE  Awaits(sess[q[1]][q], got)
<1> DEFINE s == sess[q[1]][q]
           r == sess[q[2]][q]
<1> SUFFICES ASSUME s # NoSession
             PROVE  /\ s.state = "WaitForClearToSend" /\ s.last = got.last /\ s.total = got.total
                    /\ s.ack + s.cts <= got.last
  BY DEF Awaits
<1>1. q[1] \in Node /\ SessionsOK(sess)
  BY KeyType DEF TypeOK
<1>0. s \in SessionOf(q[1], q)
  BY <1>1, Existing
<1>2. s \in Session /\ s.last \in 0 .. 255 /\ s.ack \in 0 .. 255 /\ s.cts \in 0 .. 255
  <2>1. s \in Session
    BY <1>0 DEF SessionOf
  <2> QED
    BY <2>1, Counters, Zenon
<1>3. r.last \in 0 .. 255 /\ r.ack \in 0 .. 255 /\ r.cts \in 0 .. 255
  BY <1>1, Fits, ZenonT(30)
<1>4. SenderOf(q, m, s) /\ ReceiverOf(m, q[2], r)
  BY <1>1 DEF Exchange, SendersSession, ReceiversSessions
<1>5. SenderGrant(s) /\ Granted(s) /\ s.ack + s.cts <= r.ack + r.cts
  BY DEF Grants, SessionGrants, SenderGrant
<1>6. got.last \in 0 .. 255 /\ got.total \in 0 .. 255
  BY DEF Session, SessionRecord
<1> DEFINE last == s.last
           ack == s.ack
           cts == s.cts
           seq == got.last
           total == got.total
           grant == r.ack + r.cts
<1>7. /\ last \in 0 .. 255 /\ ack \in 0 .. 255 /\ cts \in 0 .. 255 /\ seq \in 0 .. 255
      /\ total \in 0 .. 255 /\ grant \in Int
      /\ last <= ack + cts /\ ack + cts <= grant /\ grant = seq /\ seq <= last /\ seq < total
  <2>1. last \in 0 .. 255 /\ ack \in 0 .. 255 /\ cts \in 0 .. 255
    BY <1>2
  <2>2. seq \in 0 .. 255 /\ total \in 0 .. 255
    BY <1>6
  <2>3. grant \in Int
    <3> DEFINE x == r.ack
               y == r.cts
    <3>1. x \in 0 .. 255 /\ y \in 0 .. 255
      BY <1>3
    <3> HIDE DEF x, y
    <3>2. x + y \in Int
      BY <3>1
    <3> QED
      BY <3>2 DEF x, y
  <2>4. last <= ack + cts /\ ack + cts <= grant
    BY <1>5 DEF Granted
  <2>5. grant = seq /\ seq <= last
    BY DEF UsedUp
  <2>6. seq < total
    BY DEF Unfinished
  <2> QED
    BY <2>1, <2>2, <2>3, <2>4, <2>5, <2>6
<1> HIDE DEF last, ack, cts, seq, total, grant
<1>8. last = seq /\ ack + cts <= seq /\ ~(last < ack + cts) /\ last # total
  BY <1>7
<1>9. s.total = got.total
  BY <1>4 DEF SenderOf, ReceiverOf, UsedUp
<1>10. s.state \in TxState
  BY <1>0 DEF SessionOf
<1>11. s.state # "SendBroadcastAnnounce" /\ s.state # "SendRequestToSend"
  BY <1>4 DEF SenderOf, Unopened
<1>12. s.state # "SendDataTransferPackets"
  BY <1>5, <1>8 DEF SenderGrant, last, ack, cts
<1>13. s.state # "WaitForEndOfMessageAcknowledge"
  BY <1>5, <1>8, <1>9 DEF SenderGrant, last, total
<1>14. s.state = "WaitForClearToSend"
  BY <1>10, <1>11, <1>12, <1>13 DEF TxState
<1> QED
  BY <1>8, <1>9, <1>14 DEF last, ack, cts, seq

\* update(): a clear to send goes out at a later attempt.
LEMMA SendClearSound ==
  ASSUME TypeOK, TypeOK', \A k \in Key : Sound(k), NEW n \in Node, NEW q \in Key,
         SendClearToSend(n, q)
  PROVE  Moves /\ \A k \in Key : Sound(k)'
<1> DEFINE r == sess[n][q]
           s == sess[q[1]][q]
           t == InState(Cleared(r), "WaitForDataTransferPacket")
           c == ClearFrame(q, r, Segment(r))
<1>1. /\ r # NoSession /\ r.state = "SendClearToSend" /\ GoOn(n, q, t, <<c>>) /\ Room(n) > 0
      /\ delivered' = delivered
  BY DEF SendClearToSend, Updates
<1>2. PathsOK(tx) /\ PathsOK(tx') /\ SessionsOK(sess)
  BY DEF TypeOK
<1>3. r \in SessionOf(n, q) /\ r \in Session /\ q[1] # n /\ q[2] = n /\ q[1] \in Node
  <2>1. r \in SessionOf(n, q)
    BY <1>1, <1>2, Existing
  <2>2. q[1] # n
    BY <1>1, <2>1, SessionFacts DEF RxState
  <2> QED
    BY <1>1, <2>1, <2>2, KeyType, SessionFacts DEF SessionOf
<1>4. PICK m \in Message : Exchange(q, m)
  BY <1>1 DEF Sound, Quiet
<1>5. Grants(q)
  BY <1>3 DEF Sound
<1>6. ReceiverOf(m, n, r)
  BY <1>1, <1>3, <1>4 DEF Exchange, ReceiversSessions
<1>7. /\ r.ack + r.cts = 0 /\ r.last = 0 /\ r.total \in 0 .. 255 /\ UsedUp(s, r, r)
  <2>1. ReceiverGrant(r)
    BY <1>1, <1>3, <1>5 DEF Grants, SessionGrants
  <2>2. r.last \in 0 .. 255 /\ r.ack \in 0 .. 255 /\ r.cts \in 0 .. 255 /\ r.total \in 0 .. 255
    BY <1>3, Counters, Zenon
  <2>3. r.ack + r.cts = 0 /\ r.last <= r.ack + r.cts
    BY <1>1, <2>1 DEF ReceiverGrant, Granted
  <2>4. r.last = 0
    <3> PICK last \in 0 .. 255 : last = r.last
      BY <2>2
    <3>1. last <= 0
      BY <2>3
    <3> QED
      BY <3>1
  <2>5. ASSUME s # NoSession
        PROVE  0 <= s.last
    <3>1. s.last \in 0 .. 255
      BY <1>2, <1>3, <2>5, Fits
    <3> QED
      BY <3>1
  <2>6. UsedUp(s, r, r)
    BY <2>3, <2>4, <2>5 DEF UsedUp
  <2> QED
    BY <2>2, <2>3, <2>4, <2>6
<1>8. Unfinished(r)
  <2>1. r.total = Packets(m) /\ Packets(m) \in 2 .. 255
    BY <1>6, HeaderFacts DEF ReceiverOf
  <2>2. 0 < r.total
    BY <2>1
  <2> QED
    BY <1>7, <2>2 DEF Unfinished
<1>9. Awaits(s, r)
  BY <1>1, <1>3, <1>4, <1>5, <1>7, <1>8, SenderAwaits
<1>10. /\ tx' = [tx EXCEPT ![n] = Offer(n, <<c>>)] /\ outcome' = outcome
       /\ sess' = Store(n, q, t)
  BY <1>1 DEF GoOn
<1>11. c \in FrameOf(n) /\ Clearing(q, c)
  BY <1>3, ClearFrameType
<1>12. ReceiverOf(m, n, t) /\ t # NoSession /\ ClearsNext(r, t)
  <2>1. ClearsNext(r, t) /\ t.pgn = r.pgn /\ t.data = r.data
    BY <1>3, ClearedFacts
  <2> QED
    BY <1>6, <1>7, <2>1 DEF ReceiverOf, ClearsNext
<1>13. ClearingOf(q, c, s, t) /\ ReceiverGrant(t) /\ Within(s, t)
  <2> HIDE DEF t
  <2> QED
    BY <1>2, <1>3, <1>8, <1>9, <1>12, ClearFacts
<1>14. NoOpening(q, tx[q[1]]) /\ NoCarrying(q, tx[q[1]]) /\ NoClearing(q, tx[n])
  <2>1. NoOpening(q, tx[q[1]])
    BY <1>1, <1>3, <1>5 DEF Grants, FrameGrants, NoOpening
  <2>2. NoCarrying(q, tx[q[1]])
    <3> SUFFICES ASSUME NEW i \in Places(tx[q[1]]), Carrying(q, tx[q[1]][i].frame)
                 PROVE  FALSE
      BY DEF NoCarrying
    <3> DEFINE seq == tx[q[1]][i].frame.seq
    <3>1. seq <= 0
      BY <1>1, <1>3, <1>5, <1>7 DEF Grants, FrameGrants
    <3>2. seq \in 1 .. Packets(m)
      BY <1>4 DEF Exchange, SendersFrames, CarryingOf
    <3> HIDE DEF seq
    <3> QED
      BY <3>1, <3>2, HeaderFacts
  <2>3. NoClearing(q, tx[n])
    BY <1>1, <1>3, <1>5 DEF Grants, ClearGrants, ClearingOf, NoClearing
  <2> QED
    BY <2>1, <2>2, <2>3
<1>15. tx'[q[1]] = tx[q[1]] /\ tx'[n] = Offer(n, <<c>>)
  BY <1>2, <1>3, <1>10 DEF PathsOK
<1>16. LosesFrames(q, tx[q[1]], tx'[q[1]])
  BY <1>2, <1>3, <1>15, SameSubsides
<1>17. CarryingWithin(q, tx'[q[1]], t)
  BY <1>14, <1>15 DEF CarryingWithin, NoCarrying
<1>18. ~Unopened(q, m)
  BY <1>1, <1>3 DEF Unopened
<1> HIDE DEF t, c
<1>19. Follows(tx[n], tx'[n], 0, <<c>>)
  BY <1>1, <1>2, <1>11, <1>15, OfferOne
<1>20. Sound(q)'
  BY <1>1, <1>3, <1>4, <1>5, <1>10, <1>11, <1>12, <1>13, <1>14, <1>15, <1>16, <1>17, <1>18, <1>19,
     Clears
<1>21. <<c>> \in Seq(FrameOf(n)) /\ \A i \in 1 .. Len(<<c>>) : <<c>>[i] = c
  BY <1>11
<1>22. Moves
  BY <1>2, <1>10, <1>21, SendMoves
<1>23. ASSUME NEW k \in Key, k # q
       PROVE  Sound(k)'
  <2>1. ~Concerns(k, c)
    BY <1>11, <1>23, OnePair DEF Concerns
  <2>2. \A i \in 1 .. Len(<<c>>) : ~Concerns(k, <<c>>[i])
    BY <1>21, <2>1
  <2> QED
    BY <1>1, <1>21, <1>23, <2>2, GoOnSubsides, SoundSubsides
<1> QED
  BY <1>20, <1>22, <1>23

-----------------------------------------------------------------------------
(* A receiver takes a data packet *)

\* The packet is the next one
Follower(r, seq) == seq = r.last + 1

\* The session of the receiver n with the packets up to this one
Grown(q, n, m, r, seq, got) ==
  /\ ReceiverOf(m, n, got) /\ got.last = seq /\ got.total = r.total
  /\ Remaining(got) = 0 => DeliveredMessage(q, got) = Content(m)
  /\ Remaining(got) # 0 => Unfinished(got)

LEMMA GotReceiver ==
  ASSUME NEW n \in Node, NEW q \in Key, NEW r \in SessionOf(n, q), NEW m \in Message,
         Pair(m) = q, ReceiverOf(m, n, r), Unfinished(r), NEW seq \in 0 .. 255, Follower(r, seq),
         NEW got, got = Got(r, seq, <<m, seq>>)
  PROVE  Grown(q, n, m, r, seq, got)
<1> DEFINE last == r.last
           total == r.total
<1>1. r \in Session /\ r.data \in Seq(Payload \cup {Blank}) /\ Len(r.data) = r.total
  BY SessionFacts DEF ReceiverOf
<1>2. last \in 0 .. 255 /\ total \in 0 .. 255
  BY <1>1 DEF Session, SessionRecord
<1>3. /\ got.msg = r.msg /\ got.pgn = r.pgn /\ got.total = total /\ got.last = seq
      /\ got.data = [i \in DOMAIN r.data |-> IF i = last + 1 THEN <<m, seq>> ELSE r.data[i]]
  BY <1>1, GotFields, SMTT(30)
<1>4. DOMAIN r.data = 1 .. total
  BY <1>1, LenProperties
<1>5. last < total /\ seq = last + 1
  BY DEF Unfinished, Follower
<1>6. \A i \in 1 .. last : r.data[i] = <<m, i>>
  BY DEF ReceiverOf
<1>7. total = Packets(m) /\ r.pgn = Header[m].pgn /\ ~Arrived(m, n)
  BY DEF ReceiverOf
<1> HIDE DEF last, total
<1>8. \A i \in 1 .. seq : got.data[i] = <<m, i>>
  <2> SUFFICES ASSUME NEW i \in 1 .. seq PROVE got.data[i] = <<m, i>>
    OBVIOUS
  <2>1. i \in 1 .. total /\ (i = last + 1 \/ i \in 1 .. last)
    BY <1>2, <1>5
  <2>2. got.data[i] = IF i = last + 1 THEN <<m, seq>> ELSE r.data[i]
    BY <1>3, <1>4, <2>1
  <2> QED
    BY <1>5, <1>6, <2>1, <2>2
<1>9. ReceiverOf(m, n, got)
  <2>1. Len(got.data) = total
    BY <1>2, <1>3, <1>4
  <2> QED
    BY <1>3, <1>7, <1>8, <2>1 DEF ReceiverOf
<1>10. Remaining(got) = 0 <=> seq = total
  <2>1. Remaining(got) = (total - (last + 1)) % 256
    BY <1>3, <1>5 DEF Remaining
  <2> QED
    <3>1. last + 1 \in 0 .. 255
      BY <1>5
    <3> QED
      BY <1>2, <1>5, <2>1, <3>1, RemainingNone, SMTT(30)
<1>11. ASSUME Remaining(got) = 0
       PROVE  DeliveredMessage(q, got) = Content(m)
  <2>1. seq = total
    BY <1>10, <1>11
  <2>2. got.data = [i \in 1 .. total |-> <<m, i>>]
    <3>1. got.data = [i \in 1 .. total |-> IF i = last + 1 THEN <<m, seq>> ELSE r.data[i]]
      BY <1>3, <1>4
    <3>2. \A i \in 1 .. total : (IF i = last + 1 THEN <<m, seq>> ELSE r.data[i]) = <<m, i>>
      BY <1>2, <1>5, <1>6, <2>1
    <3> QED
      BY <3>1, <3>2
  <2>3. q[1] = Header[m].src /\ q[2] = Header[m].dst
    BY PairType
  <2> QED
    BY <1>3, <1>7, <2>2, <2>3 DEF DeliveredMessage, Content
<1>12. ASSUME Remaining(got) # 0
       PROVE  Unfinished(got)
  <2>1. seq < total
    BY <1>2, <1>5, <1>10, <1>12
  <2> QED
    BY <1>3, <2>1 DEF Unfinished
<1> QED
  BY <1>3, <1>9, <1>11, <1>12 DEF Grown, total

\* The message has arrived at n, whose session is gone.
LEMMA ReceiverDone ==
  ASSUME TypeOK, TypeOK', NEW q \in Key, NEW m \in Message, Exchange(q, m), NEW n \in Node,
         n # q[1], sess[n][q] # NoSession, sess' = Close(n, {q}),
         outcome' = outcome, Arrived(m, n)',
         \A x \in Node : x # n => Arrived(m, x)' = Arrived(m, x),
         LosesFrames(q, tx[q[1]], tx'[q[1]]), q[2] \in Node => q[2] = n
  PROVE  Exchange(q, m)'
<1>1. q[1] \in Node /\ PathsOK(tx) /\ PathsOK(tx') /\ SessionsOK(sess)
  BY KeyType DEF TypeOK
<1>2. \A x \in Node : sess'[x][q] = IF x = n THEN NoSession ELSE sess[x][q]
  BY <1>1 DEF Close, SessionsOK
<1>3. SendersSession(q, m)'
  <2>1. sess'[q[1]][q] = sess[q[1]][q]
    BY <1>1, <1>2
  <2>2. ~Unopened(q, m)
    BY DEF Unopened
  <2> QED
    BY <2>1, <2>2 DEF Exchange, SendersSession, SenderOf
<1>4. ReceiversSessions(q, m)'
  <2> SUFFICES ASSUME NEW x \in Node, x # q[1], sess'[x][q] # NoSession
               PROVE  ReceiverOf(m, x, sess[x][q])'
    BY DEF ReceiversSessions
  <2>1. x # n /\ sess'[x][q] = sess[x][q]
    BY <1>2
  <2>2. ReceiverOf(m, x, sess[x][q])
    BY <2>1 DEF Exchange, ReceiversSessions
  <2>3. Arrived(m, x)' = Arrived(m, x)
    BY <2>1
  <2> HIDE DEF Arrived
  <2> QED
    BY <2>1, <2>2, <2>3 DEF ReceiverOf
<1>5. SendersFrames(q, m)'
  <2> SUFFICES ASSUME NEW i \in Places(tx'[q[1]]), Concerns(q, tx'[q[1]][i].frame)
               PROVE  /\ Opening(q, tx'[q[1]][i].frame) => OpeningOf(q, m, tx[q[1]][i])'
                      /\ Carrying(q, tx'[q[1]][i].frame) => CarryingOf(q, m, tx[q[1]][i].frame)'
    BY DEF SendersFrames, Concerns
  <2>1. PICK j \in Places(tx[q[1]]) :
          tx'[q[1]][i].frame = tx[q[1]][j].frame /\ tx'[q[1]][i].to \subseteq tx[q[1]][j].to
    BY DEF LosesFrames
  <2>2. /\ Opening(q, tx'[q[1]][i].frame) => OpeningOf(q, m, tx[q[1]][j])
        /\ Carrying(q, tx'[q[1]][i].frame) => CarryingOf(q, m, tx[q[1]][j].frame)
    BY <2>1 DEF Exchange, SendersFrames
  <2>3. tx[q[1]][j].to \subseteq Node
    <3>1. tx[q[1]] \in Seq(EntryOf(q[1]))
      BY <1>1 DEF PathsOK
    <3>2. tx[q[1]][j] \in EntryOf(q[1])
      BY <3>1, PlaceType
    <3> QED
      BY <3>2 DEF EntryOf
  <2>4. Opening(q, tx'[q[1]][i].frame) => OpeningOf(q, m, tx[q[1]][i])'
    BY <1>2, <2>1, <2>2, <2>3 DEF OpeningOf
  <2>5. Carrying(q, tx'[q[1]][i].frame) => CarryingOf(q, m, tx[q[1]][i].frame)'
    <3>1. sess'[q[1]][q] = sess[q[1]][q]
      BY <1>1, <1>2
    <3> QED
      BY <2>1, <2>2, <3>1 DEF CarryingOf
  <2> QED
    BY <2>4, <2>5
<1>6. ReceiversFrames(q, m)'
  BY DEF ReceiversFrames
<1>7. Ordered(q, tx'[q[1]])
  BY <1>1, OrderSubsides DEF Exchange
<1> QED
  BY <1>3, <1>4, <1>5, <1>6, <1>7 DEF Exchange

LEMMA GotGrant ==
  ASSUME NEW s \in Session, NEW seq, NEW v
  PROVE  /\ Got(s, seq, v).ack = s.ack /\ Got(s, seq, v).cts = s.cts
         /\ Got(s, seq, v).state = s.state
BY DEF Got, Session, SessionRecord

LEMMA ByteItself ==
  ASSUME NEW x \in 0 .. 255
  PROVE  x % 256 = x
OBVIOUS

LEMMA NoneRemaining ==
  ASSUME NEW cts \in 0 .. 255, NEW ack \in 0 .. 255, NEW last \in 0 .. 255,
         ack <= last, last <= ack + cts, (cts - (last - ack)) % 256 = 0
  PROVE  last = ack + cts
<1> DEFINE missing == cts - (last - ack)
<1>1. missing \in 0 .. 255
  OBVIOUS
<1>3. missing = 0
  <2> HIDE DEF missing
  <2>1. missing % 256 = missing
    BY <1>1, ByteItself
  <2>2. missing % 256 = 0
    BY DEF missing
  <2> QED
    BY <2>1, <2>2
<1> QED
  BY <1>3

\* got is the session r with the packet of the frame f
TakenBy(got, r, f) ==
  /\ got.last = f.seq /\ got.last \in 0 .. 255 /\ Follower(r, got.last)
  /\ got.total = r.total /\ got.ack = r.ack /\ got.cts = r.cts
  /\ got.state = "WaitForDataTransferPacket"
\* The sender s has sent what got holds
Behind(got, s) == s # NoSession => got.last <= s.last

\* What a receiver that takes a packet knows
LEMMA PacketTaken ==
  ASSUME TypeOK, OrderInv, NEW q \in Key, Sound(q), NEW n \in Node, n # q[1],
         Arrives(n, q[1]), Carrying(q, Head(tx[q[1]]).frame), sess[n][q] # NoSession,
         Expected(sess[n][q], Head(tx[q[1]]).frame)
  PROVE  LET f == Head(tx[q[1]]).frame
             r == sess[n][q]
             got == Got(r, f.seq, f.data)
         IN \E m \in Message :
              /\ Exchange(q, m) /\ ~Unopened(q, m) /\ ~Arrived(m, n)
              /\ r \in SessionOf(n, q) /\ r \in Session
              /\ got \in SessionOf(n, q) /\ got \in Session /\ got # NoSession
              /\ ReceiverOf(m, n, got)
              /\ TakenBy(got, r, f)
              /\ Remaining(got) = 0 => DeliveredMessage(q, got) = Content(m)
              /\ Remaining(got) # 0 => Unfinished(got)
              /\ Behind(got, sess[q[1]][q])
<1> DEFINE f == Head(tx[q[1]]).frame
           r == sess[n][q]
           seq == f.seq
           got == Got(r, seq, f.data)
<1>1. q[1] \in Node /\ PathsOK(tx) /\ SessionsOK(sess)
  BY KeyType DEF TypeOK
<1>2. 1 \in Places(tx[q[1]]) /\ tx[q[1]][1] = Head(tx[q[1]])
  BY <1>1, FirstPlace
<1>3. PICK m \in Message : Exchange(q, m)
  BY DEF Sound, Quiet
<1>4. CarryingOf(q, m, f)
  BY <1>2, <1>3 DEF Exchange, SendersFrames
<1>5. f.data = <<m, seq>> /\ (sess[q[1]][q] # NoSession => seq <= sess[q[1]][q].last)
  BY <1>4 DEF CarryingOf
<1>6. seq \in 0 .. 255 /\ f.data \in Payload
  <2>1. f \in FrameOf(q[1]) /\ f.type = "DT"
    BY <1>1, HeadType DEF Carrying
  <2>2. f.seq \in Byte /\ f.data \in Payload
    <3> HIDE DEF f
    <3> QED
      BY <1>1, <2>1, FrameFields
  <2> QED
    BY <2>2
<1>7. r \in SessionOf(n, q) /\ r \in Session
  BY <1>1, Existing, SessionFacts
<1>8. r.state = "WaitForDataTransferPacket" /\ Follower(r, seq)
  BY DEF Expected, Follower
<1>9. ReceiverOf(m, n, r) /\ Pair(m) = q
  BY <1>3 DEF Exchange, ReceiversSessions
<1>10. Unfinished(r)
  <2>1. r.last < r.total \/ r.total = 0
    BY DEF OrderInv, BuffersOrdered, OrderedBuffer
  <2>2. r.total # 0
    <3> HIDE DEF r
    <3>1. r.total = Packets(m)
      BY <1>9 DEF ReceiverOf
    <3> QED
      BY <3>1, HeaderFacts
  <2> QED
    BY <2>1, <2>2 DEF Unfinished
<1> HIDE DEF f, r, seq
<1>11. got \in SessionOf(n, q)
  BY <1>6, <1>7, GotType
<1>12. got \in Session /\ got # NoSession
  BY <1>11, SessionFacts, SessionExists
<1>13. /\ ReceiverOf(m, n, got) /\ got.last = seq /\ got.total = r.total
       /\ Remaining(got) = 0 => DeliveredMessage(q, got) = Content(m)
       /\ Remaining(got) # 0 => Unfinished(got)
  <2> DEFINE next == Got(r, seq, <<m, seq>>)
  <2>1. /\ ReceiverOf(m, n, next) /\ next.last = seq /\ next.total = r.total
        /\ Remaining(next) = 0 => DeliveredMessage(q, next) = Content(m)
        /\ Remaining(next) # 0 => Unfinished(next)
    <3>1. r \in SessionOf(n, q) /\ seq \in 0 .. 255 /\ Follower(r, seq) /\ Unfinished(r)
          /\ ReceiverOf(m, n, r) /\ Pair(m) = q
      BY <1>6, <1>7, <1>8, <1>9, <1>10
    <3> HIDE DEF next
    <3>2. next = Got(r, seq, <<m, seq>>)
      BY DEF next
    <3>3. Grown(q, n, m, r, seq, next)
      BY <3>1, <3>2, GotReceiver, Zenon
    <3> QED
      BY <3>3, Zenon DEF Grown
  <2>2. got = next
    BY <1>5
  <2> HIDE DEF next, got
  <2> QED
    BY <2>1, <2>2
<1>14. ~Unopened(q, m) /\ ~Arrived(m, n)
  BY <1>9 DEF Unopened, ReceiverOf, r
<1>15. TakenBy(got, r, f)
  <2>1. got.ack = r.ack /\ got.cts = r.cts /\ got.state = r.state
    BY <1>7, GotGrant
  <2> HIDE DEF got
  <2> QED
    BY <1>6, <1>8, <1>13, <2>1 DEF TakenBy, seq
<1>16. Behind(got, sess[q[1]][q])
  <2> HIDE DEF got
  <2> QED
    BY <1>5, <1>13 DEF Behind
<1>17. r \in SessionOf(n, q) /\ r \in Session
  BY <1>7
<1> HIDE DEF got
<1>18. /\ Exchange(q, m) /\ ~Unopened(q, m) /\ ~Arrived(m, n)
       /\ r \in SessionOf(n, q) /\ r \in Session
       /\ got \in SessionOf(n, q) /\ got \in Session /\ got # NoSession
       /\ ReceiverOf(m, n, got)
       /\ TakenBy(got, r, f)
       /\ Remaining(got) = 0 => DeliveredMessage(q, got) = Content(m)
       /\ Remaining(got) # 0 => Unfinished(got)
       /\ Behind(got, sess[q[1]][q])
  BY <1>3, <1>11, <1>12, <1>13, <1>14, <1>15, <1>16, <1>17
<1> QED
  BY <1>18 DEF f, r, seq, got

\* The receiver of a connection and the packet it takes
LEMMA GrantTaken ==
  ASSUME TypeOK, NEW q \in Key, q[2] \in Node, q[1] # q[2], Grants(q), Arrives(q[2], q[1]),
         Carrying(q, Head(tx[q[1]]).frame), sess[q[2]][q] # NoSession,
         NEW got \in Session, TakenBy(got, sess[q[2]][q], Head(tx[q[1]]).frame)
  PROVE  /\ ReceiverGrant(got) /\ Within(sess[q[1]][q], got)
         /\ NoOpening(q, tx[q[1]]) /\ NoClearing(q, tx[q[2]])
         /\ CarryingWithin(q, tx[q[1]], got)
         /\ CtsRemaining(got) = 0 /\ Behind(got, sess[q[1]][q]) =>
              UsedUp(sess[q[1]][q], sess[q[2]][q], got)
<1> DEFINE r == sess[q[2]][q]
           ack == got.ack
           cts == got.cts
           last == got.last
           before == r.last
           total == got.total
<1>1. q[1] \in Node /\ PathsOK(tx) /\ SessionsOK(sess)
  BY KeyType DEF TypeOK
<1>2. 1 \in Places(tx[q[1]]) /\ tx[q[1]][1] = Head(tx[q[1]])
  BY <1>1, FirstPlace
<1>3. Granted(r) /\ before \in 0 .. 255
  BY <1>1, Fits DEF Grants, SessionGrants, ReceiverGrant
<1>4. ack \in 0 .. 255 /\ cts \in 0 .. 255 /\ last \in 0 .. 255
  <2>1. got \in SessionRecord
    BY DEF Session
  <2>2. got.ack \in Byte /\ got.cts \in Byte /\ got.last \in Byte
    BY <2>1 DEF SessionRecord
  <2> QED
    BY <2>2
<1>0. /\ got.last = Head(tx[q[1]]).frame.seq /\ Follower(r, got.last)
      /\ got.total = r.total /\ got.ack = r.ack /\ got.cts = r.cts
      /\ got.state = "WaitForDataTransferPacket"
  BY DEF TakenBy
<1>5. CarryingWithin(q, tx[q[1]], got)
  BY <1>0, <1>1 DEF Grants, FrameGrants, CarryingWithin
<1>6. last <= ack + cts
  BY <1>0, <1>2, <1>5 DEF CarryingWithin
<1>7. ack <= before /\ before <= ack + cts /\ ack + cts <= total
  BY <1>0, <1>3 DEF Granted
<1>8. last = before + 1
  BY <1>0 DEF Follower
<1>9. CtsRemaining(got) = (cts - (last - ack)) % 256
  BY DEF CtsRemaining
<1>10. r.ack + r.cts = ack + cts /\ got.total = r.total
  BY <1>0
<1>11. Within(sess[q[1]][q], got)
  BY <1>0, <1>1 DEF Grants, SessionGrants, Within
<1>12. NoOpening(q, tx[q[1]])
  BY DEF Grants, FrameGrants, NoOpening
<1>13. NoClearing(q, tx[q[2]])
  BY <1>2 DEF Grants, ClearGrants, NoCarrying, NoClearing
<1> HIDE DEF ack, cts, last, before, total
<1>14. ack <= last
  <2>1. ack <= before /\ before \in 0 .. 255
    BY <1>3, <1>7
  <2> QED
    BY <1>4, <1>8, <2>1
<1>15. ReceiverGrant(got)
  BY <1>0, <1>6, <1>7, <1>14 DEF ReceiverGrant, Granted, ack, cts, last, total
<1>16. CtsRemaining(got) = 0 => last = ack + cts
  <2>1. (cts - (last - ack)) % 256 = 0 => last = ack + cts
    BY <1>4, <1>6, <1>14, NoneRemaining
  <2> QED
    BY <1>9, <2>1
<1>17. ASSUME CtsRemaining(got) = 0, Behind(got, sess[q[1]][q])
       PROVE  UsedUp(sess[q[1]][q], r, got)
  BY <1>10, <1>16, <1>17 DEF UsedUp, Behind, last
<1> QED
  BY <1>5, <1>11, <1>12, <1>13, <1>15, <1>17

\* Node n is a receiver of the message, which it had not been given before.
Delivers(m, n) ==
  /\ outcome[m] # "idle" /\ ~Arrived(m, n)
  /\ n # Header[m].src /\ (Header[m].dst = Global \/ Header[m].dst = n)
  /\ delivered' = [delivered EXCEPT ![n] = Append(@, Content(m))]

\* A frame of the exchange of one pair leaves the other exchanges as they are.
LEMMA OthersSound ==
  ASSUME TypeOK, TypeOK', NEW q \in Key, NEW k \in Key, k # q, Sound(k), NEW n \in Node,
         NEW a \in Node, Arrives(n, a), NEW frames \in Seq(FrameOf(n)),
         Answer(n, Head(tx[a]).frame, frames),
         \A i \in 1 .. Len(frames) : ~Concerns(k, frames[i]),
         sess' = Close(n, {q}) \/ \E t : sess' = Store(n, q, t), outcome' = outcome,
         \/ delivered' = delivered
         \/ \E m \in Message : /\ Pair(m) = q
                               /\ delivered' = [delivered EXCEPT ![n] = Append(@, Content(m))]
  PROVE  Sound(k)'
<1>1. PathsOK(tx) /\ SessionsOK(sess)
  BY DEF TypeOK
<1>2. SessionsSubside(k)
  BY <1>1, CloseSubsides, StoreSubsides
<1>3. FramesSubside(k)
  BY <1>1, AnswerSubsides
<1>4. ASSUME NEW p \in Message, Pair(p) = k, NEW x \in Node
      PROVE  Arrived(p, x)' = Arrived(p, x)
  <2>1. CASE delivered' = delivered
    BY <2>1 DEF Arrived
  <2>2. CASE \E m \in Message : /\ Pair(m) = q
                                /\ delivered' = [delivered EXCEPT ![n] = Append(@, Content(m))]
    <3>1. PICK m \in Message : /\ Pair(m) = q
                               /\ delivered' = [delivered EXCEPT ![n] = Append(@, Content(m))]
      BY <2>2
    <3>2. p # m
      BY <1>4, <3>1
    <3>3. \A o \in Message, y \in Node : o # m \/ y # n => Arrived(o, y)' = Arrived(o, y)
      BY <3>1, DeliveryArrives
    <3> QED
      BY <3>2, <3>3
  <2> QED
    BY <2>1, <2>2
<1> QED
  BY <1>2, <1>3, <1>4, SoundSubsides DEF Subsides

\* The last packet was taken: the message is delivered and the session closed.
LEMMA DoneSound ==
  ASSUME TypeOK, TypeOK', NEW q \in Key, Sound(q), NEW n \in Node, n # q[1],
         NEW m \in Message, Exchange(q, m), Arrives(n, q[1]), Carrying(q, Head(tx[q[1]]).frame),
         sess[n][q] # NoSession, q[2] \in Node => q[2] = n,
         sess' = Close(n, {q}), outcome' = outcome,
         delivered' = [delivered EXCEPT ![n] = Append(@, Content(m))],
         LosesFrames(q, tx[q[1]], tx'[q[1]]),
         q[2] \in Node =>
           \E g : /\ ~Clearing(q, g)
                  /\ Follows(tx[n], tx'[n], 0, <<>>) \/ Follows(tx[n], tx'[n], 0, <<g>>)
  PROVE  Sound(q)'
<1>1. q[1] \in Node /\ PathsOK(tx) /\ PathsOK(tx') /\ SessionsOK(sess)
  BY KeyType DEF TypeOK
<1>2. Exchange(q, m)'
  <2>1. Arrived(m, n)' /\ \A x \in Node : x # n => Arrived(m, x)' = Arrived(m, x)
    BY DeliveryArrives
  <2> HIDE DEF Arrived
  <2> QED
    BY <2>1, ReceiverDone
<1>3. ASSUME q[2] \in Node, q[2] # q[1]
      PROVE  Grants(q)'
  <2>1. Grants(q) /\ q[2] = n
    BY <1>3 DEF Sound
  <2>2. sess'[n][q] = NoSession /\ sess'[q[1]][q] = sess[q[1]][q]
    BY <1>1 DEF Close, SessionsOK
  <2>3. 1 \in Places(tx[q[1]]) /\ tx[q[1]][1] = Head(tx[q[1]])
    BY <1>1, FirstPlace
  <2>4. NoOpening(q, tx[q[1]]) /\ NoClearing(q, tx[n])
    BY <2>1, <2>3 DEF Grants, FrameGrants, ClearGrants, NoCarrying, NoClearing, NoOpening
  <2>5. tx[q[1]] \in Seq(EntryOf(q[1])) /\ tx[n] \in Seq(EntryOf(n))
    BY <1>1 DEF PathsOK
  <2>6. NoOpening(q, tx'[q[1]])
    BY <2>4, <2>5, StaysNone
  <2>7. NoClearing(q, tx'[n])
    <3> SUFFICES ASSUME NEW i \in Places(tx'[n])
                 PROVE  ~Clearing(q, tx'[n][i].frame)
      BY DEF NoClearing
    <3>1. PICK g : /\ ~Clearing(q, g)
                   /\ Follows(tx[n], tx'[n], 0, <<>>) \/ Follows(tx[n], tx'[n], 0, <<g>>)
      BY <2>1
    <3>2. CASE Follows(tx[n], tx'[n], 0, <<g>>)
      <4>1. \/ i \in Places(tx[n]) /\ tx'[n][i].frame = tx[n][i].frame
            \/ tx'[n][i] = Entry(g)
        BY <2>5, <3>2, OneBehind
      <4> QED
        BY <2>4, <3>1, <4>1 DEF NoClearing, Entry
    <3>3. CASE Follows(tx[n], tx'[n], 0, <<>>)
      <4>1. Len(<<>>) \in Nat /\ \A j \in 1 .. Len(<<>>) : FALSE
        OBVIOUS
      <4>2. LosesFrames(q, tx[n], tx'[n])
        BY <2>5, <3>3, <4>1, FollowsLoses
      <4>3. NoClearing(q, tx'[n])
        BY <2>4, <2>5, <4>2, StaysNone
      <4> QED
        BY <4>3 DEF NoClearing
    <3> QED
      BY <3>1, <3>2, <3>3
  <2>8. SessionGrants(q)'
    BY <2>1, <2>2 DEF Grants, SessionGrants
  <2>9. FrameGrants(q)'
    BY <2>1, <2>2, <2>6 DEF FrameGrants, NoOpening
  <2>10. ClearGrants(q)'
    BY <2>1, <2>7 DEF ClearGrants, NoClearing
  <2> QED
    BY <2>8, <2>9, <2>10 DEF Grants
<1> QED
  BY <1>2, <1>3 DEF Sound

\* A broadcast goes on, or the receiver of a connection waits for more packets
\* or cannot get its clear to send out.
LEMMA TakenSound ==
  ASSUME TypeOK, TypeOK', NEW q \in Key, Sound(q), NEW n \in Node, n # q[1],
         NEW m \in Message, Exchange(q, m), Arrives(n, q[1]), Carrying(q, Head(tx[q[1]]).frame),
         ~Unopened(q, m), sess[n][q] # NoSession, q[2] \in {n, Global},
         NEW got \in Session, TakenBy(got, sess[n][q], Head(tx[q[1]]).frame), got # NoSession,
         ReceiverOf(m, n, got),
         sess' = Store(n, q, got), outcome' = outcome, delivered' = delivered,
         LosesFrames(q, tx[q[1]], tx'[q[1]]), LosesFrames(q, tx[n], tx'[n])
  PROVE  Sound(q)'
<1>1. q[1] \in Node /\ PathsOK(tx) /\ SessionsOK(sess) /\ tx[q[1]] \in Seq(EntryOf(q[1]))
  BY KeyType DEF TypeOK, PathsOK
<1>2. CASE q[2] = Global
  <2>1. q[2] \notin Node
    BY <1>2, NodeAssumption
  <2>2. ASSUME NEW i \in Places(tx'[q[1]]), Opening(q, tx'[q[1]][i].frame)
        PROVE  n \notin tx'[q[1]][i].to
    <3>1. PICK j \in Places(tx[q[1]]) :
            tx'[q[1]][i].frame = tx[q[1]][j].frame /\ tx'[q[1]][i].to \subseteq tx[q[1]][j].to
      BY <2>2 DEF LosesFrames, Concerns
    <3>2. OpeningOf(q, m, tx[q[1]][j])
      BY <2>2, <3>1 DEF Exchange, SendersFrames
    <3> QED
      BY <3>1, <3>2 DEF OpeningOf
  <2>3. Exchange(q, m)'
    BY <2>1, <2>2, ReceiverGoesOn
  <2> QED
    BY <2>1, <2>3 DEF Sound
<1>3. CASE q[2] = n
  <2>1. Grants(q) /\ q[2] \in Node /\ q[1] # q[2]
    BY <1>3 DEF Sound
  <2>2. /\ ReceiverGrant(got) /\ Within(sess[q[1]][q], got)
        /\ NoOpening(q, tx[q[1]]) /\ NoClearing(q, tx[q[2]])
        /\ CarryingWithin(q, tx[q[1]], got)
    BY <1>3, <2>1, GrantTaken
  <2>3. NoOpening(q, tx'[q[1]])
    BY <2>2 DEF NoOpening, LosesFrames, Concerns
  <2>4. CarryingWithin(q, tx'[q[1]], got)
    BY <2>2 DEF CarryingWithin, LosesFrames, Concerns
  <2> QED
    BY <1>3, <2>1, <2>2, <2>3, <2>4, Clears
<1> QED
  BY <1>2, <1>3

\* The receiver of a connection has the packets it asked for, and there is room
\* for the clear to send of the next ones.
LEMMA AskSound ==
  ASSUME TypeOK, TypeOK', Addressed, NEW q \in Key, Sound(q), q[2] \in Node, q[1] # q[2],
         NEW m \in Message, Exchange(q, m), Arrives(q[2], q[1]),
         Carrying(q, Head(tx[q[1]]).frame), ~Unopened(q, m), sess[q[2]][q] # NoSession,
         NEW got \in Session, TakenBy(got, sess[q[2]][q], Head(tx[q[1]]).frame),
         ReceiverOf(m, q[2], got), Unfinished(got), CtsRemaining(got) = 0,
         Behind(got, sess[q[1]][q]),
         sess' = Store(q[2], q, Cleared(got)), outcome' = outcome, delivered' = delivered,
         tx'[q[1]] = Processed(q[1], q[2]),
         NEW c, c = ClearFrame(q, got, Segment(got)), Clearing(q, c),
         Follows(tx[q[2]], tx'[q[2]], 0, <<c>>)
  PROVE  Sound(q)'
<1> DEFINE a == q[1]
           n == q[2]
           s == sess[a][q]
           r == sess[n][q]
           f == Head(tx[a]).frame
           t == Cleared(got)
<1>1. a \in Node /\ PathsOK(tx) /\ SessionsOK(sess) /\ tx[a] \in Seq(EntryOf(a))
  BY KeyType DEF TypeOK, PathsOK
<1>2. Grants(q)
  BY DEF Sound
<1>3. /\ ReceiverGrant(got) /\ Within(s, got) /\ NoOpening(q, tx[a]) /\ NoClearing(q, tx[n])
      /\ CarryingWithin(q, tx[a], got)
  BY <1>2, GrantTaken
<1>4. UsedUp(s, r, got)
  BY <1>2, GrantTaken
<1>5. Awaits(s, got)
  BY <1>2, <1>4, SenderAwaits
<1>6. /\ t # NoSession /\ t.pgn = got.pgn /\ t.data = got.data /\ t.total = got.total
      /\ t.last = got.last /\ ClearsNext(got, t)
  <2>1. /\ t.state = got.state /\ t.pgn = got.pgn /\ t.data = got.data
        /\ t.total = got.total /\ t.last = got.last /\ t.ack = got.last /\ t.cts = Segment(got)
        /\ t # NoSession
    BY ClearedFacts
  <2> HIDE DEF t
  <2> QED
    BY <2>1 DEF ClearsNext, TakenBy
<1>17. sess' = Store(q[2], q, t)
  OBVIOUS
<1> HIDE DEF t
<1>7. ClearingOf(q, c, s, t) /\ ReceiverGrant(t) /\ Within(s, t)
  BY <1>1, <1>5, <1>6, ClearFacts
<1>8. ReceiverOf(m, n, t)
  BY <1>6 DEF ReceiverOf
<1>9. Follows(tx[a], tx'[a], 1, <<>>)
  <2>1. Head(tx[a]).frame.dst # Global
    BY NodeAssumption DEF Carrying
  <2> QED
    BY <1>1, <2>1, TakenGone
<1>10. LosesFrames(q, tx[a], tx'[a])
  BY <1>1, ProcessedSubsides
<1>11. 1 \in Places(tx[a]) /\ tx[a][1] = Head(tx[a])
  BY <1>1, FirstPlace
<1>12. NoCarrying(q, tx'[a])
  <2> SUFFICES ASSUME NEW i \in Places(tx'[a]), Carrying(q, tx'[a][i].frame)
               PROVE  FALSE
    BY DEF NoCarrying
  <2>1. i + 1 \in Places(tx[a]) /\ tx'[a][i].frame = tx[a][i + 1].frame /\ 1 < i + 1
    BY <1>1, <1>9, LeftBehind
  <2> DEFINE seq == tx'[a][i].frame.seq
             last == got.last
  <2>2. last < seq
    BY <1>11, <2>1, ZenonT(30) DEF Exchange, Ordered, TakenBy
  <2>3. seq <= got.ack + got.cts
    BY <1>3, <2>1 DEF CarryingWithin
  <2>4. seq <= last
    BY <1>4, <2>3 DEF UsedUp, TakenBy
  <2>5. seq \in 1 .. Packets(m)
    BY <2>1 DEF Exchange, SendersFrames, CarryingOf
  <2>6. last \in 0 .. 255
    BY DEF TakenBy
  <2>7. seq \in Int
    BY <2>5, HeaderFacts
  <2> HIDE DEF seq, last
  <2> QED
    BY <2>2, <2>4, <2>6, <2>7
<1>13. NoOpening(q, tx'[a])
  BY <1>1, <1>3, <1>10, StaysNone
<1>14. CarryingWithin(q, tx'[a], t)
  BY <1>12 DEF CarryingWithin, NoCarrying
<1> QED
  BY <1>1, <1>2, <1>3, <1>6, <1>7, <1>8, <1>10, <1>12, <1>13, <1>14, <1>17, Clears

LEMMA OneFrame ==
  ASSUME NEW n, NEW f \in FrameOf(n)
  PROVE  <<f>> \in Seq(FrameOf(n)) /\ \A i \in 1 .. Len(<<f>>) : <<f>>[i] = f
OBVIOUS

\* Nothing is offered: the path stays as it is.
LEMMA OfferNone ==
  ASSUME PathsOK(tx), NEW n \in Node
  PROVE  Follows(tx[n], Offer(n, <<>>), 0, <<>>)
<1> DEFINE none == <<>>
<1>1. none \in Seq(FrameOf(n)) /\ Len(none) = 0
  OBVIOUS
<1> HIDE DEF none
<1>2. PICK sent \in Seq(FrameOf(n)) :
        Follows(tx[n], Offer(n, none), 0, sent) /\ Len(sent) <= Len(none)
  BY <1>1, OfferPath
<1>3. sent = <<>>
  BY <1>1, <1>2
<1> QED
  BY <1>2, <1>3 DEF none

\* process_data_transfer_message(): a packet is taken, refused, or the last one.
LEMMA DataTransferSound ==
  ASSUME TypeOK, TypeOK', OrderInv, Addressed, \A k \in Key : Sound(k),
         NEW n \in Node, NEW a \in Node, ReceiveDataTransfer(n, a)
  PROVE  /\ Moves /\ outcome' = outcome /\ \A k \in Key : Sound(k)'
         /\ delivered' = delivered \/ \E m \in Message : Delivers(m, n)
<1> DEFINE f == Head(tx[a]).frame
<1>1. /\ n \in Stack /\ n # a /\ Arrives(n, a) /\ f \in FrameOf(a) /\ f.src = a /\ f.type = "DT"
      /\ ProcessDataTransfer(n, f) /\ outcome' = outcome
  BY TakesFacts DEF ReceiveDataTransfer, ProcessDataTransfer
<1>0. PICK q \in Key : q = <<a, f.dst>>
  <2>1. f.dst \in Destination
    BY <1>1, FrameFields
  <2> QED
    BY <1>1, <2>1 DEF Key
<1> DEFINE r == sess[n][q]
           got == Got(r, f.seq, f.data)
           c == ClearFrame(q, got, Segment(got))
           e == AckFrame(q, got)
           g == AbortFrame(n, a, r.pgn)
<1>2. q[1] = a /\ q[2] = f.dst /\ Carrying(q, f)
  BY <1>0, <1>1 DEF Carrying
<1>3. PathsOK(tx) /\ PathsOK(tx') /\ SessionsOK(sess)
  BY DEF TypeOK
<1>4. CASE r = NoSession \/ ~Expected(r, f)
  <2>1. /\ Answer(n, f, <<>>) \/ (r # NoSession /\ Answer(n, f, <<g>>))
        /\ sess' = sess \/ sess' = Close(n, {q})
        /\ delivered' = delivered
    BY <1>0, <1>1, <1>4 DEF ProcessDataTransfer
  <2>2. ASSUME r # NoSession
        PROVE  g \in FrameOf(n) /\ \A k : ~Concerns(k, g)
    <3>1. r.pgn \in PGN
      BY <1>2, <1>3, <2>2, Existing, SessionFacts
    <3> QED
      BY <1>1, <3>1, AbortType, AbortAside
  <2> HIDE DEF g
  <2>3. PICK frames \in Seq(FrameOf(n)) :
          /\ Answer(n, f, frames)
          /\ \A k : \A i \in 1 .. Len(frames) : ~Concerns(k, frames[i])
    <3>1. r # NoSession => /\ <<g>> \in Seq(FrameOf(n))
                           /\ \A k : \A i \in 1 .. Len(<<g>>) : ~Concerns(k, <<g>>[i])
      BY <2>2
    <3> QED
      BY <2>1, <3>1, NoneAside
  <2>4. Moves
    BY <1>1, <1>3, <2>3, AnswerMoves
  <2>5. \A k \in Key : FramesSubside(k)
    BY <1>1, <1>3, <2>3, AnswerSubsides
  <2>6. \A k \in Key : SessionsSubside(k)
    BY <1>3, <2>1, SameSessions, CloseSubsides
  <2>7. Onward
    BY <1>1 DEF Onward
  <2>8. \A k \in Key : Sound(k)'
    BY <2>1, <2>5, <2>6, <2>7, SubsidesQuietly, SoundSubsides
  <2> QED
    BY <1>1, <2>1, <2>4, <2>8
<1>5. CASE r # NoSession /\ Expected(r, f)
  <2>1. PICK m \in Message :
          /\ Exchange(q, m) /\ ~Unopened(q, m) /\ ~Arrived(m, n)
          /\ r \in SessionOf(n, q) /\ r \in Session
          /\ got \in SessionOf(n, q) /\ got \in Session /\ got # NoSession
          /\ ReceiverOf(m, n, got)
          /\ TakenBy(got, r, f)
          /\ Remaining(got) = 0 => DeliveredMessage(q, got) = Content(m)
          /\ Remaining(got) # 0 => Unfinished(got)
          /\ Behind(got, sess[a][q])
    BY <1>1, <1>2, <1>5, PacketTaken
  <2>3. q[2] \in {n, Global} /\ Global \notin Node
    BY <1>1, <1>2, <2>1, SessionFacts, NodeAssumption
  <2>4. TakePacket(n, f, q, r)
    BY <1>0, <1>1, <1>5 DEF ProcessDataTransfer
  <2>5. \/ /\ Remaining(got) = 0
           /\ Answer(n, f, IF IsBroadcast(q) THEN <<>> ELSE <<e>>)
           /\ delivered' = [delivered EXCEPT ![n] = Append(@, DeliveredMessage(q, got))]
           /\ sess' = Close(n, {q})
        \/ /\ Remaining(got) # 0 /\ ~IsBroadcast(q) /\ CtsRemaining(got) = 0
           /\ Answer(n, f, <<c>>)
           /\ sess' = Store(n, q, IF Room(n) > 0 THEN Cleared(got) ELSE got)
           /\ delivered' = delivered
        \/ /\ Remaining(got) # 0
           /\ Answer(n, f, <<>>)
           /\ sess' = Store(n, q, got)
           /\ delivered' = delivered
    BY <2>4 DEF TakePacket, Got
  <2>6. ASSUME ~IsBroadcast(q)
        PROVE  /\ q[2] = n
               /\ c \in FrameOf(n) /\ Clearing(q, c) /\ ~Confirming(q, c)
               /\ e \in FrameOf(n) /\ Confirming(q, e) /\ ~Clearing(q, e)
    <3>1. q[2] = n
      BY <2>3, <2>6 DEF IsBroadcast
    <3> HIDE DEF got
    <3>2. c \in FrameOf(n) /\ Clearing(q, c) /\ ~Confirming(q, c)
      BY <1>1, <1>2, <2>1, <3>1, ClearFrameType
    <3>3. 0 \in Byte
      OBVIOUS
    <3>4. e \in FrameOf(n)
      BY <1>2, <2>1, <3>1, <3>3, SessionFrames
    <3> QED
      BY <3>1, <3>2, <3>4 DEF AckFrame, Frame, Confirming, Clearing
  <2> HIDE DEF c, e, got, r
  <2>7. ~IsBroadcast(q) =>
          /\ <<c>> \in Seq(FrameOf(n)) /\ \A i \in 1 .. Len(<<c>>) : <<c>>[i] = c
          /\ <<e>> \in Seq(FrameOf(n)) /\ \A i \in 1 .. Len(<<e>>) : <<e>>[i] = e
    BY <2>6, OneFrame
  <2>8. PICK frames \in Seq(FrameOf(n)) :
          /\ Answer(n, f, frames)
          /\ \A i \in 1 .. Len(frames) : Concerns(q, frames[i])
          /\ frames = <<>> \/ (~IsBroadcast(q) /\ frames \in {<<c>>, <<e>>})
    <3>1. <<>> \in Seq(FrameOf(n)) /\ \A i \in 1 .. Len(<<>>) : Concerns(q, <<>>[i])
      OBVIOUS
    <3>2. ~IsBroadcast(q) => /\ \A i \in 1 .. Len(<<c>>) : Concerns(q, <<c>>[i])
                             /\ \A i \in 1 .. Len(<<e>>) : Concerns(q, <<e>>[i])
      BY <2>6, <2>7 DEF Concerns
    <3>3. Answer(n, f, <<>>) \/ (~IsBroadcast(q) /\ (Answer(n, f, <<e>>) \/ Answer(n, f, <<c>>)))
      BY <2>5
    <3> QED
      BY <2>7, <3>1, <3>2, <3>3
  <2>9. Moves
    BY <1>1, <1>3, <2>8, AnswerMoves
  <2>10. Pair(m) = q /\ outcome[m] # "idle"
    BY <2>1 DEF Exchange
  <2>11. \/ delivered' = delivered
         \/ delivered' = [delivered EXCEPT ![n] = Append(@, Content(m))]
    BY <2>1, <2>5
  <2>12. delivered' = delivered \/ Delivers(m, n)
    <3>1. Header[m].src = a /\ Header[m].dst \in {n, Global}
      BY <1>2, <2>3, <2>10, PairType
    <3> QED
      BY <1>1, <2>1, <2>10, <2>11, <3>1 DEF Delivers
  <2>13. sess' = Close(n, {q}) \/ sess' = Store(n, q, got) \/ sess' = Store(n, q, Cleared(got))
    BY <2>5
  <2>14. ASSUME NEW k \in Key, k # q
         PROVE  Sound(k)'
    <3>1. \A i \in 1 .. Len(frames) : ~Concerns(k, frames[i])
      BY <1>2, <2>8, <2>14, OnePair
    <3> QED
      BY <1>1, <1>2, <2>8, <2>10, <2>11, <2>13, <2>14, <3>1, OthersSound
  <2>15. tx'[a] = Processed(a, n) /\ LosesFrames(q, tx[a], tx'[a])
    <3>1. tx'[a] = Processed(a, n)
      BY <1>1, <1>3, <2>8 DEF Answer, PathsOK
    <3> QED
      BY <1>1, <1>3, <3>1, ProcessedSubsides
  <2>16. \A h : Answer(n, f, h) => tx'[n] = Offer(n, h)
    BY <1>1, <1>3 DEF Answer, PathsOK
  <2>17. Answer(n, f, <<>>) => Follows(tx[n], tx'[n], 0, <<>>)
    BY <1>3, <2>16, OfferNone
  <2>18. Follows(tx[n], tx'[n], 0, <<>>) => LosesFrames(q, tx[n], tx'[n])
    <3>1. tx[n] \in Seq(EntryOf(n)) /\ Len(<<>>) \in Nat /\ \A i \in 1 .. Len(<<>>) : FALSE
      BY <1>3 DEF PathsOK
    <3> QED
      BY <3>1, FollowsLoses
  <2>20. /\ n # q[1] /\ Arrives(n, q[1]) /\ Carrying(q, Head(tx[q[1]]).frame)
         /\ sess[n][q] # NoSession /\ TakenBy(got, sess[n][q], Head(tx[q[1]]).frame)
         /\ Behind(got, sess[q[1]][q]) /\ LosesFrames(q, tx[q[1]], tx'[q[1]])
         /\ tx'[q[1]] = Processed(q[1], n)
    BY <1>1, <1>2, <1>5, <2>1, <2>15 DEF r
  <2> HIDE DEF f
  <2>19. Sound(q)'
    <3>1. CASE Remaining(got) = 0
      <4>1. /\ Answer(n, f, IF IsBroadcast(q) THEN <<>> ELSE <<e>>)
            /\ delivered' = [delivered EXCEPT ![n] = Append(@, Content(m))]
            /\ sess' = Close(n, {q})
        BY <2>1, <2>5, <3>1
      <4>2. q[2] \in Node =>
              \E h : /\ ~Clearing(q, h)
                     /\ Follows(tx[n], tx'[n], 0, <<>>) \/ Follows(tx[n], tx'[n], 0, <<h>>)
        <5> SUFFICES ASSUME q[2] \in Node
                     PROVE  /\ ~Clearing(q, e)
                            /\ Follows(tx[n], tx'[n], 0, <<>>) \/ Follows(tx[n], tx'[n], 0, <<e>>)
          OBVIOUS
        <5>1. ~IsBroadcast(q)
          BY <2>3 DEF IsBroadcast
        <5>2. tx'[n] = Offer(n, <<e>>)
          BY <2>16, <4>1, <5>1
        <5> QED
          BY <1>3, <2>6, <5>1, <5>2, OfferOne
      <4>3. q[2] \in Node => q[2] = n
        BY <2>3
      <4> QED
        BY <1>1, <1>2, <2>1, <2>20, <4>1, <4>2, <4>3, DoneSound
    <3>2. CASE Remaining(got) # 0 /\ sess' = Store(n, q, got) /\ Follows(tx[n], tx'[n], 0, <<>>)
               /\ delivered' = delivered
      BY <1>1, <1>2, <2>1, <2>3, <2>18, <2>20, <3>2, TakenSound
    <3>3. CASE /\ Remaining(got) # 0 /\ ~IsBroadcast(q) /\ CtsRemaining(got) = 0
               /\ Answer(n, f, <<c>>) /\ delivered' = delivered
               /\ sess' = Store(n, q, Cleared(got)) /\ Room(n) > 0
      <4>1. Follows(tx[n], tx'[n], 0, <<c>>)
        BY <1>3, <2>6, <2>16, <3>3, OfferOne
      <4> QED
        BY <1>1, <1>2, <2>1, <2>6, <2>20, <3>3, <4>1, AskSound DEF c
    <3>4. CASE /\ Remaining(got) # 0 /\ ~IsBroadcast(q)
               /\ Answer(n, f, <<c>>) /\ delivered' = delivered
               /\ sess' = Store(n, q, got) /\ ~(Room(n) > 0)
      <4>1. Follows(tx[n], tx'[n], 0, <<>>)
        BY <1>3, <2>6, <2>16, <3>4, OfferOne
      <4> QED
        BY <3>2, <3>4, <4>1
    <3> QED
      BY <2>5, <2>17, <3>1, <3>2, <3>3, <3>4
  <2>21. ASSUME NEW k \in Key
         PROVE  Sound(k)'
    <3>1. CASE k = q
      BY <2>19, <3>1
    <3> QED
      BY <2>14, <3>1
  <2> QED
    BY <1>1, <2>9, <2>12, <2>21
<1> QED
  BY <1>4, <1>5

-----------------------------------------------------------------------------
(* The sender takes a clear to send *)

\* t is the session s with the grant of the frame f
GrantedBy(t, s, f) ==
  /\ t # NoSession /\ t.msg = s.msg /\ t.pgn = s.pgn /\ t.total = s.total /\ t.data = s.data
  /\ t.last = s.last /\ t.ack = s.last /\ t.cts = f.count
  /\ t.state = IF f.count # 0 THEN "SendDataTransferPackets" ELSE "WaitForClearToSend"

LEMMA GrantBounds ==
  ASSUME NEW last \in 0 .. 255, NEW total \in 0 .. 255, NEW count \in 0 .. 255,
         last + count <= total
  PROVE  /\ last <= last + count /\ last + count <= total
         /\ count # 0 => last < last + count /\ last < total
OBVIOUS

LEMMA GrantSound ==
  ASSUME TypeOK, TypeOK', Addressed, NEW q \in Key, Sound(q), q[2] \in Node, q[1] # q[2],
         Arrives(q[1], q[2]), Clearing(q, Head(tx[q[2]]).frame), sess[q[1]][q] # NoSession,
         sess[q[1]][q].state = "WaitForClearToSend",
         NEW t, GrantedBy(t, sess[q[1]][q], Head(tx[q[2]]).frame),
         sess' = Store(q[1], q, t), outcome' = outcome, delivered' = delivered,
         FramesSubside(q), tx'[q[2]] = Processed(q[2], q[1])
  PROVE  Sound(q)'
<1> DEFINE a == q[2]
           n == q[1]
           s == sess[n][q]
           r == sess[a][q]
           f == Head(tx[a]).frame
<1>1. /\ a \in Node /\ n \in Node /\ PathsOK(tx) /\ PathsOK(tx') /\ SessionsOK(sess)
      /\ tx[a] \in Seq(EntryOf(a)) /\ tx[n] \in Seq(EntryOf(n))
  BY KeyType DEF TypeOK, PathsOK
<1>2. 1 \in Places(tx[a]) /\ tx[a][1] = Head(tx[a])
  BY <1>1, FirstPlace
<1>3. Grants(q)
  BY DEF Sound
<1>4. /\ ClearingOf(q, f, s, r) /\ NoCarrying(q, tx[n])
      /\ \A j \in Places(tx[a]) : Clearing(q, tx[a][j].frame) => 1 = j
  BY <1>2, <1>3 DEF Grants, ClearGrants
<1>5. NoOpening(q, tx[n])
  BY <1>2, <1>3 DEF Grants, FrameGrants, NoClearing, NoOpening
<1>6. PICK m \in Message : Exchange(q, m)
  BY <1>1 DEF Sound, Quiet
<1>7. SenderOf(q, m, s)
  BY <1>6 DEF Exchange, SendersSession
<1>8. s.last \in 0 .. 255 /\ s.total \in 0 .. 255
  BY <1>1, Fits, ZenonT(30)
<1>9. f.next \in 0 .. 255 /\ f.count \in 0 .. 255
  <2>1. f \in FrameOf(a) /\ f.type = "CTS"
    BY <1>1, HeadType DEF Clearing
  <2> HIDE DEF f
  <2> QED
    BY <1>1, <2>1, FrameFields
<1>10. SenderGrant(t) /\ (t.state = "SendDataTransferPackets" => t.last < t.total)
  <2> DEFINE next == f.next
             count == f.count
             last == s.last
             total == s.total
  <2>0. last = next - 1 /\ next - 1 + count <= total
    BY <1>4 DEF ClearingOf
  <2>1. last + count <= total
    BY <2>0, Zenon
  <2>2. next \in 0 .. 255 /\ count \in 0 .. 255 /\ last \in 0 .. 255 /\ total \in 0 .. 255
    BY <1>8, <1>9
  <2>3. t.last = last /\ t.ack = last /\ t.cts = count /\ t.total = total
        /\ t.state = IF count # 0 THEN "SendDataTransferPackets" ELSE "WaitForClearToSend"
    BY DEF GrantedBy
  <2> HIDE DEF next, count, last, total
  <2>4. /\ last <= last + count /\ last + count <= total
        /\ count # 0 => last < last + count /\ last < total
    BY <2>1, <2>2, GrantBounds, Zenon
  <2>5. last <= last
    BY <2>2, ByteIsInt, Zenon
  <2> QED
    BY <2>3, <2>4, <2>5 DEF SenderGrant, Granted
<1>11. Within(t, r) \/ r = NoSession
  <2> SUFFICES ASSUME r # NoSession
               PROVE  t.ack + t.cts <= r.ack + r.cts
    BY DEF Within
  <2>1. r.ack = f.next - 1 /\ r.cts = f.count /\ s.last = f.next - 1
    BY <1>4 DEF ClearingOf
  <2>2. t.ack = r.ack /\ t.cts = r.cts
    BY <2>1 DEF GrantedBy
  <2>3. r.ack \in 0 .. 255 /\ r.cts \in 0 .. 255
    BY <1>1, Fits, ZenonT(30)
  <2> DEFINE x == r.ack
             y == r.cts
  <2>4. x \in 0 .. 255 /\ y \in 0 .. 255 /\ t.ack = x /\ t.cts = y
    BY <2>2, <2>3
  <2> HIDE DEF x, y
  <2>5. x + y <= x + y
    BY <2>4
  <2> QED
    BY <2>2, <2>5 DEF x, y
<1>12. sess'[n][q] = t /\ \A x \in Node : x # n => sess'[x][q] = sess[x][q]
  BY <1>1 DEF Store, SessionsOK
<1>13. Follows(tx[a], tx'[a], 1, <<>>)
  <2>1. Head(tx[a]).frame.dst # Global
    BY <1>1, NodeAssumption DEF Clearing
  <2> QED
    BY <1>1, <2>1, TakenGone
<1>14. NoClearing(q, tx'[a])
  <2> SUFFICES ASSUME NEW i \in Places(tx'[a]), Clearing(q, tx'[a][i].frame)
               PROVE  FALSE
    BY DEF NoClearing
  <2>1. i + 1 \in Places(tx[a]) /\ tx'[a][i].frame = tx[a][i + 1].frame /\ 1 < i + 1
    BY <1>1, <1>13, LeftBehind
  <2>2. 1 = i + 1
    BY <1>4, <2>1
  <2> QED
    BY <2>1, <2>2
<1>15. NoOpening(q, tx'[n]) /\ NoCarrying(q, tx'[n])
  BY <1>1, <1>4, <1>5, StaysNone DEF FramesSubside
<1>16. SameArrivals(m) /\ ReceiversSubside(q)
  BY <1>12 DEF SameArrivals, Arrived, ReceiversSubside, Alike
<1>17. SenderGoesOn(q)
  <2>1. s.last <= t.last
    <3>1. t.last = s.last
      BY DEF GrantedBy
    <3>2. s.last <= s.last
      BY <1>8, ByteIsInt, Zenon
    <3> QED
      BY <3>1, <3>2, Zenon
  <2> QED
    BY <1>12, <2>1 DEF SenderGoesOn
<1>18. SenderOf(q, m, t)'
  BY <1>7, <1>10 DEF SenderOf, GrantedBy
<1>19. Exchange(q, m)'
  <2>1. SendersSession(q, m)'
    BY <1>12, <1>18 DEF SendersSession, SenderOf
  <2>2. SendersFrames(q, m)' /\ ReceiversFrames(q, m)' /\ Ordered(q, tx'[n])
    BY <1>6, <1>16, <1>17, FramesKeep
  <2>3. ReceiversSessions(q, m)'
    BY <1>6, <1>16, ReceiversKeep
  <2> QED
    BY <1>6, <2>1, <2>2, <2>3 DEF Exchange
<1>20. Grants(q)'
  <2>1. SessionGrants(q)'
    BY <1>1, <1>3, <1>10, <1>11, <1>12 DEF Grants, SessionGrants, Within, GrantedBy
  <2>2. FrameGrants(q)'
    BY <1>15 DEF FrameGrants, NoOpening, NoCarrying
  <2>3. ClearGrants(q)'
    BY <1>14 DEF ClearGrants, NoClearing
  <2> QED
    BY <2>1, <2>2, <2>3 DEF Grants
<1> QED
  BY <1>19, <1>20 DEF Sound

\* The session s with the grant of the frame f, as process_clear_to_send() stores it
WithGrant(s, f) ==
  LET granted == [s EXCEPT !.ack = (f.next - 1) % 256, !.cts = f.count, !.age = 0]
  IN IF f.count # 0 THEN InState(granted, "SendDataTransferPackets") ELSE granted

LEMMA WithGrantFacts ==
  ASSUME NEW n \in Node, NEW q \in Key, q[1] = n, NEW s \in SessionOf(n, q),
         s.state = "WaitForClearToSend", NEW f, f.next \in Byte, f.count \in Byte,
         f.next >= 1, s.last = f.next - 1
  PROVE  GrantedBy(WithGrant(s, f), s, f)
<1> DEFINE next == f.next
           ack == (next - 1) % 256
           count == f.count
           granted == [s EXCEPT !.ack = ack, !.cts = count, !.age = 0]
           going == InState(granted, "SendDataTransferPackets")
<1>1. next \in 0 .. 255 /\ next >= 1 /\ s.last = next - 1 /\ count \in Byte
  OBVIOUS
<1>2. WithGrant(s, f) = IF count # 0 THEN going ELSE granted
  BY DEF WithGrant
<1> HIDE DEF next, count
<1>3. ack = s.last /\ ack \in Byte
  <2>1. next - 1 \in 0 .. 255
    BY <1>1
  <2>2. ack = next - 1
    BY <2>1, ByteItself, Zenon
  <2> QED
    BY <1>1, <2>1, <2>2, Zenon
<1> HIDE DEF ack
<1>4. granted \in SessionOf(n, q) /\ granted \in Session
  <2>1. granted \in SessionOf(n, q)
    BY <1>1, <1>3, SessionGrant
  <2> HIDE DEF granted
  <2> QED
    BY <2>1, SessionFacts
<1>5. going \in SessionOf(n, q) /\ going \in Session
  <2> HIDE DEF granted
  <2> QED
    BY <1>4, SessionUpdates, SessionFacts DEF TxState
<1>6. granted # NoSession /\ going # NoSession
  BY <1>4, <1>5, SessionExists
<1>7. /\ granted.msg = s.msg /\ granted.pgn = s.pgn /\ granted.total = s.total
      /\ granted.data = s.data /\ granted.last = s.last /\ granted.state = s.state
      /\ granted.ack = ack /\ granted.cts = count
  <2>1. s \in SessionRecord
    BY DEF SessionOf, Session
  <2> QED
    BY <2>1 DEF SessionRecord
<1>8. /\ going.msg = granted.msg /\ going.pgn = granted.pgn /\ going.total = granted.total
      /\ going.data = granted.data /\ going.last = granted.last
      /\ going.state = "SendDataTransferPackets" /\ going.ack = granted.ack
      /\ going.cts = granted.cts
  <2>1. granted \in SessionRecord
    BY <1>4 DEF Session
  <2> HIDE DEF granted
  <2> QED
    BY <2>1 DEF SessionRecord, InState
<1> HIDE DEF granted, going
<1> QED
  BY <1>2, <1>3, <1>6, <1>7, <1>8 DEF GrantedBy, count

\* process_clear_to_send()
LEMMA ClearToSendSound ==
  ASSUME TypeOK, TypeOK', Addressed, \A k \in Key : Sound(k),
         NEW n \in Node, NEW a \in Node, ReceiveClearToSend(n, a)
  PROVE  Moves /\ Onward /\ delivered' = delivered /\ \A k \in Key : Sound(k)'
<1> DEFINE f == Head(tx[a]).frame
           q == <<n, a>>
           s == sess[n][q]
           g == AbortFrame(n, a, s.pgn)
           h == AbortFrame(n, a, f.pgn)
           t == WithGrant(s, f)
<1>1. /\ n \in Stack /\ n # a /\ Arrives(n, a) /\ f \in FrameOf(a) /\ f.src = a /\ f.type = "CTS"
      /\ f.dst # Global /\ ProcessClearToSend(n, f) /\ delivered' = delivered
  <2>1. Takes(n, a, "CTS") /\ ProcessClearToSend(n, f)
    BY DEF ReceiveClearToSend
  <2>2. delivered' = delivered
    BY <2>1 DEF ProcessClearToSend
  <2> HIDE DEF f
  <2>3. PathsOK(tx)
    BY DEF TypeOK
  <2>4. n \in Stack /\ n # a /\ Arrives(n, a)
    BY <2>1, <2>3, TakesFacts
  <2>5. f \in FrameOf(a) /\ f.src = a /\ f.type = "CTS" /\ f.dst # Global
    BY <2>1, <2>3, TakesFacts DEF f
  <2> QED
    BY <2>1, <2>2, <2>4, <2>5
<1>2. PathsOK(tx) /\ PathsOK(tx') /\ SessionsOK(sess)
  BY DEF TypeOK
<1>3. f.dst = n
  BY <1>1, <1>2, FirstPlace DEF Addressed, Receivers
<1>4. q \in Key /\ q[1] = n /\ q[2] = a /\ Clearing(q, f)
  BY <1>1, <1>3 DEF Key, Destination, Clearing
<1>5. f.pgn \in PGN /\ f.next \in Byte /\ f.count \in Byte
  <2> HIDE DEF f
  <2> QED
    BY <1>1, FrameFields
<1>6. \/ Answer(n, f, <<>>) /\ sess' = sess /\ outcome' = outcome
      \/ /\ s # NoSession /\ (Answer(n, f, <<g>>) \/ Answer(n, f, <<g, h>>))
         /\ sess' = Close(n, {q}) /\ outcome' = Report(n, q, "failure")
      \/ /\ s # NoSession /\ s.state = "WaitForClearToSend"
         /\ Answer(n, f, <<>>) /\ sess' = Store(n, q, t) /\ outcome' = outcome
  <2>1. \/ Answer(n, f, <<>>) /\ UNCHANGED <<sess, outcome>>
        \/ /\ s # NoSession /\ (Answer(n, f, <<g>>) \/ Answer(n, f, <<g, h>>))
           /\ sess' = Close(n, {q}) /\ outcome' = Report(n, q, "failure")
        \/ /\ s # NoSession /\ s.state = "WaitForClearToSend"
           /\ Answer(n, f, <<>>) /\ sess' = Store(n, q, t) /\ outcome' = outcome
    BY <1>1 DEF ProcessClearToSend, WithGrant
  <2> QED
    BY <2>1
<1>7. Onward
  BY <1>6, ReportOnward DEF Onward
<1>8. s # NoSession => s \in SessionOf(n, q) /\ s.pgn \in PGN
  BY <1>2, <1>4, Existing, SessionFacts
<1>9. PICK frames \in Seq(FrameOf(n)) :
        Answer(n, f, frames) /\ \A k : \A i \in 1 .. Len(frames) : ~Concerns(k, frames[i])
  <2>1. h \in FrameOf(n) /\ (s # NoSession => g \in FrameOf(n))
    BY <1>1, <1>5, <1>8, AbortType
  <2>2. \A k : ~Concerns(k, g) /\ ~Concerns(k, h)
    BY AbortAside
  <2> HIDE DEF g, h
  <2>3. ASSUME s # NoSession
        PROVE  /\ <<g>> \in Seq(FrameOf(n)) /\ <<g, h>> \in Seq(FrameOf(n))
               /\ \A k : \A i \in 1 .. Len(<<g>>) : ~Concerns(k, <<g>>[i])
               /\ \A k : \A i \in 1 .. Len(<<g, h>>) : ~Concerns(k, <<g, h>>[i])
    <3>1. <<g>> \in Seq(FrameOf(n)) /\ <<g, h>> \in Seq(FrameOf(n))
      BY <2>1, <2>3
    <3>2. \A i \in 1 .. Len(<<g>>) : <<g>>[i] = g
      BY <2>1, <2>3
    <3>3. \A i \in 1 .. Len(<<g, h>>) : <<g, h>>[i] \in {g, h}
      BY <2>1, <2>3
    <3> QED
      BY <2>2, <3>1, <3>2, <3>3
  <2> QED
    BY <1>6, <2>3, NoneAside
<1>10. Moves
  BY <1>1, <1>2, <1>9, AnswerMoves
<1>11. \A k \in Key : FramesSubside(k)
  BY <1>1, <1>2, <1>9, AnswerSubsides
<1>12. ASSUME NEW k \in Key, SessionsSubside(k)
       PROVE  Sound(k)'
  BY <1>1, <1>7, <1>11, <1>12, SubsidesQuietly, SoundSubsides
<1> HIDE DEF t
<1>13. CASE sess' = sess \/ sess' = Close(n, {q})
  BY <1>1, <1>2, <1>7, <1>10, <1>12, <1>13, SameSessions, CloseSubsides
<1>14. CASE /\ s # NoSession /\ s.state = "WaitForClearToSend" /\ sess' = Store(n, q, t)
            /\ outcome' = outcome
  <2>1. \A k \in Key : k # q => Sound(k)'
    BY <1>2, <1>4, <1>12, <1>14, StoreSubsides
  <2>2. f.next >= 1 /\ s.last = f.next - 1
    <3>1. 1 \in Places(tx[a]) /\ tx[a][1] = Head(tx[a])
      BY <1>1, <1>2, FirstPlace
    <3>2. Grants(q)
      BY <1>1, <1>4 DEF Sound
    <3>3. ClearingOf(q, f, s, sess[a][q])
      BY <1>4, <3>1, <3>2 DEF Grants, ClearGrants
    <3> QED
      BY <1>14, <3>3 DEF ClearingOf
  <2>3. GrantedBy(t, s, f)
    <3> HIDE DEF s, f
    <3> QED
      BY <1>4, <1>5, <1>8, <1>14, <2>2, WithGrantFacts DEF t
  <2>4. tx'[a] = Processed(a, n)
    BY <1>1, <1>2, <1>9 DEF Answer, PathsOK
  <2> HIDE DEF f
  <2>5. /\ Arrives(q[1], q[2]) /\ Clearing(q, Head(tx[q[2]]).frame) /\ sess[q[1]][q] # NoSession
        /\ sess[q[1]][q].state = "WaitForClearToSend"
        /\ GrantedBy(t, sess[q[1]][q], Head(tx[q[2]]).frame)
        /\ sess' = Store(q[1], q, t) /\ tx'[q[2]] = Processed(q[2], q[1])
        /\ q[2] \in Node /\ q[1] # q[2]
    BY <1>1, <1>4, <1>14, <2>3, <2>4 DEF f
  <2> HIDE DEF q, s
  <2>6. Sound(q)'
    BY <1>1, <1>4, <1>11, <1>14, <2>5, GrantSound
  <2> QED
    BY <1>1, <1>7, <1>10, <2>1, <2>6
<1> QED
  BY <1>6, <1>13, <1>14

-----------------------------------------------------------------------------
(* The sender sends the next packets *)

\* The frame carries the packet i of the message
Packet(q, m, f, i) == Carrying(q, f) /\ f.seq = i /\ f.data = <<m, i>>
\* The frames carry the packets behind the first ones
BurstOf(q, m, burst, first) == \A j \in 1 .. Len(burst) : Packet(q, m, burst[j], first + j)
\* No packet of the pair on the path is behind the first ones
NoneBehind(q, p, first) ==
  \A i \in Places(p) : Carrying(q, p[i].frame) => p[i].frame.seq \in 1 .. first

\* What stands at a place of a path that got some frames.
LEMMA SomeBehind ==
  ASSUME NEW S, NEW p \in Seq(S), NEW r, NEW new, Len(new) \in Nat, Follows(p, r, 0, new),
         NEW i \in Places(r)
  PROVE  \/ i \in Places(p) /\ r[i].frame = p[i].frame /\ r[i].to \subseteq p[i].to
         \/ \E j \in 1 .. Len(new) : i = Len(p) + j /\ r[i] = Entry(new[j])
<1>1. Len(p) \in Nat /\ Len(r) = Len(p) + Len(new) /\ i \in 1 .. Len(r)
  BY DEF Follows, Places
<1>2. CASE i <= Len(p)
  BY <1>1, <1>2 DEF Follows, Places
<1>3. CASE i > Len(p)
  <2>1. i - Len(p) \in 1 .. Len(new) /\ i = Len(p) + (i - Len(p))
    BY <1>1, <1>3
  <2>2. \A j \in 1 .. Len(new) : r[Len(p) + j] = Entry(new[j])
    BY <1>1 DEF Follows
  <2> QED
    BY <2>1, <2>2
<1> QED
  BY <1>1, <1>2, <1>3

\* A burst behind earlier packets of the same message keeps the order.
LEMMA BurstOrdered ==
  ASSUME NEW S, NEW p \in Seq(S), NEW r, NEW burst, Len(burst) \in Nat,
         Follows(p, r, 0, burst), NEW q, NEW m, NEW first \in Nat,
         BurstOf(q, m, burst, first), NoneBehind(q, p, first), Ordered(q, p)
  PROVE  Ordered(q, r)
<1> SUFFICES ASSUME NEW i \in Places(r), NEW j \in Places(r), i < j,
                    Opening(q, r[i].frame) \/ Carrying(q, r[i].frame)
             PROVE  /\ ~Opening(q, r[j].frame)
                    /\ Carrying(q, r[i].frame) /\ Carrying(q, r[j].frame)
                         => r[i].frame.seq < r[j].frame.seq
  BY DEF Ordered
<1>1. Len(p) \in Nat /\ i \in Nat /\ j \in Nat
  BY DEF Places, Follows
<1>2. CASE j \in Places(p) /\ r[j].frame = p[j].frame
  <2>1. i \in Places(p)
    BY <1>1, <1>2 DEF Places, Follows
  <2>2. r[i].frame = p[i].frame
    <3>1. ~(\E y \in 1 .. Len(burst) : i = Len(p) + y)
      BY <1>1, <2>1 DEF Places
    <3> QED
      BY <3>1, SomeBehind
  <2> QED
    BY <1>2, <2>1, <2>2 DEF Ordered
<1>3. ASSUME NEW y \in 1 .. Len(burst), j = Len(p) + y, r[j] = Entry(burst[y])
      PROVE  /\ ~Opening(q, r[j].frame)
             /\ Carrying(q, r[i].frame) => r[i].frame.seq < r[j].frame.seq
  <2>1. Packet(q, m, r[j].frame, first + y)
    BY <1>3 DEF BurstOf, Entry
  <2>2. ~Opening(q, r[j].frame) /\ r[j].frame.seq = first + y
    BY <2>1 DEF Packet, Carrying, Opening
  <2>3. ASSUME Carrying(q, r[i].frame), i \in Places(p), r[i].frame = p[i].frame
        PROVE  r[i].frame.seq < first + y
    <3> DEFINE seq == r[i].frame.seq
    <3>1. seq \in 1 .. first
      BY <2>3 DEF NoneBehind
    <3> HIDE DEF seq
    <3>2. seq < first + y
      BY <3>1
    <3> QED
      BY <3>2 DEF seq
  <2>4. ASSUME NEW x \in 1 .. Len(burst), i = Len(p) + x, r[i] = Entry(burst[x])
        PROVE  r[i].frame.seq < first + y
    <3>1. r[i].frame.seq = first + x
      BY <2>4 DEF BurstOf, Packet, Entry
    <3>2. x < y
      BY <1>1, <1>3, <2>4
    <3> QED
      BY <3>1, <3>2
  <2> QED
    BY <2>2, <2>3, <2>4, SomeBehind
<1> QED
  BY <1>2, <1>3, SomeBehind

\* s was sent on to t: so many packets are out
SentMore(s, t, sent) ==
  /\ t.msg = s.msg /\ t.pgn = s.pgn /\ t.total = s.total /\ t.data = s.data
  /\ t.ack = s.ack /\ t.cts = s.cts /\ t.last = sent
  /\ t.state \in {"SendDataTransferPackets", "WaitForClearToSend",
                  "WaitForEndOfMessageAcknowledge"}
  /\ t.state = "SendDataTransferPackets" => sent < s.total
\* ... within the grant of a specific destination
SentWithin(s, t, sent) ==
  /\ t.state = "SendDataTransferPackets" => sent < s.ack + s.cts
  /\ t.state = "WaitForEndOfMessageAcknowledge" => sent = s.total

LEMMA GoesOnSending ==
  ASSUME NEW s, NEW t, SenderGrant(s), s.last \in 0 .. 255, s.ack \in 0 .. 255,
         s.cts \in 0 .. 255, NEW sent \in 0 .. 255, s.last <= sent, sent <= s.ack + s.cts,
         SentMore(s, t, sent), SentWithin(s, t, sent)
  PROVE  SenderGrant(t) /\ t.ack + t.cts = s.ack + s.cts
<1> DEFINE last == s.last
           ack == s.ack
           cts == s.cts
           total == s.total
<1>1. last \in 0 .. 255 /\ ack \in 0 .. 255 /\ cts \in 0 .. 255 /\ ack <= last
      /\ last <= sent /\ sent <= ack + cts /\ ack + cts <= total
  BY DEF SenderGrant, Granted
<1>2. /\ t.ack = ack /\ t.cts = cts /\ t.last = sent /\ t.total = total
      /\ t.state \notin {"SendBroadcastAnnounce", "SendRequestToSend"}
      /\ t.state = "SendDataTransferPackets" => sent < ack + cts
      /\ t.state = "WaitForEndOfMessageAcknowledge" => sent = total
  BY DEF SentMore, SentWithin
<1> HIDE DEF last, ack, cts, total
<1>3. ack <= sent
  BY <1>1
<1>4. SenderGrant(t) /\ t.ack + t.cts = ack + cts
  BY <1>1, <1>2, <1>3 DEF SenderGrant, Granted
<1> QED
  BY <1>4 DEF ack, cts

\* The grant of the session covers so many packets
Covers(s, sent) == sent <= s.ack + s.cts

\* What a burst leaves of the frames of the pair: the old ones and packets of
\* the message, none behind the last one sent.
LEMMA BurstFrames ==
  ASSUME NEW S, NEW p \in Seq(S), NEW r, NEW burst, Len(burst) \in Nat,
         Follows(p, r, 0, burst), NEW q, NEW m, NEW first \in Nat, NEW sent \in Nat,
         first + Len(burst) = sent, BurstOf(q, m, burst, first), NEW i \in Places(r)
  PROVE  \/ i \in Places(p) /\ r[i].frame = p[i].frame /\ r[i].to \subseteq p[i].to
         \/ \E x \in 1 .. sent : Packet(q, m, r[i].frame, x)
<1>1. ASSUME NEW j \in 1 .. Len(burst), r[i] = Entry(burst[j])
      PROVE  \E x \in 1 .. sent : Packet(q, m, r[i].frame, x)
  <2>1. Packet(q, m, r[i].frame, first + j)
    BY <1>1 DEF BurstOf, Entry
  <2>2. first + j \in 1 .. sent
    BY <1>1
  <2> QED
    BY <2>1, <2>2
<1> QED
  BY <1>1, SomeBehind

LEMMA SendsOn ==
  ASSUME TypeOK, TypeOK', NEW q \in Key, NEW m \in Message, Exchange(q, m),
         sess[q[1]][q] # NoSession, sess[q[1]][q].state = "SendDataTransferPackets",
         q[2] \in Node => Grants(q), NEW burst \in Seq(FrameOf(q[1])),
         NEW first \in 0 .. 255, sess[q[1]][q].last = first,
         NEW sent \in 0 .. 255, first + Len(burst) = sent, sent <= Packets(m),
         q[2] \in Node => Covers(sess[q[1]][q], sent),
         BurstOf(q, m, burst, first), Follows(tx[q[1]], tx'[q[1]], 0, burst),
         \A x \in Node : x # q[1] => tx'[x] = tx[x] /\ sess'[x][q] = sess[x][q],
         sess'[q[1]][q] # NoSession =>
           /\ SentMore(sess[q[1]][q], sess'[q[1]][q], sent)
           /\ q[2] \in Node => SentWithin(sess[q[1]][q], sess'[q[1]][q], sent),
         outcome'[m] # "idle", delivered' = delivered
  PROVE  Sound(q)'
<1> DEFINE from == q[1]
           s == sess[from][q]
           t == sess'[from][q]
           p == tx[from]
           r == tx'[from]
<1>1. from \in Node /\ SessionsOK(sess) /\ SessionsOK(sess') /\ p \in Seq(EntryOf(from))
      /\ Len(burst) \in Nat /\ q[2] # from
  <2>1. q[2] # from
    BY NodeAssumption DEF Exchange, Pair
  <2>2. from \in Node
    BY KeyType
  <2> QED
    BY <2>1, <2>2 DEF TypeOK, PathsOK
<1>2. SameArrivals(m) /\ Packets(m) \in 2 .. 255
  BY HeaderFacts DEF Arrived, SameArrivals
<1>3. ASSUME NEW i \in Places(r)
      PROVE  \/ i \in Places(p) /\ r[i].frame = p[i].frame /\ r[i].to \subseteq p[i].to
             \/ \E x \in 1 .. sent : Packet(q, m, r[i].frame, x)
  <2> HIDE DEF p, r
  <2>1. Follows(p, r, 0, burst)
    BY DEF p, r
  <2>2. first \in Nat /\ sent \in Nat
    OBVIOUS
  <2> QED
    BY <1>1, <1>3, <2>1, <2>2, BurstFrames
<1>4. \A f, x : Packet(q, m, f, x) =>
        /\ Carrying(q, f) /\ ~Opening(q, f) /\ ~Clearing(q, f) /\ ~Confirming(q, f)
        /\ f.seq = x /\ f.data = <<m, x>>
  BY DEF Packet, Opening, Carrying, Clearing, Confirming
<1>5. \A i \in Places(p) : Carrying(q, p[i].frame) => CarryingOf(q, m, p[i].frame)
  BY DEF Exchange, SendersFrames
<1>6. NoneBehind(q, p, first)
  <2> SUFFICES ASSUME NEW i \in Places(p), Carrying(q, p[i].frame)
               PROVE  p[i].frame.seq \in 1 .. first
    BY DEF NoneBehind
  <2> DEFINE seq == p[i].frame.seq
             packets == Packets(m)
  <2>1. seq \in 1 .. packets /\ seq <= first
    BY <1>5 DEF CarryingOf
  <2>2. packets \in 2 .. 255
    BY <1>2
  <2> HIDE DEF seq, packets
  <2>3. seq \in 1 .. first
    BY <2>1, <2>2
  <2> QED
    BY <2>3 DEF seq
<1>7. \A x \in 1 .. first : x \in 1 .. sent
  BY <1>1
<1>8. ASSUME NEW i \in Places(r), Carrying(q, r[i].frame)
      PROVE  r[i].frame.seq \in 1 .. sent /\ r[i].frame.data = <<m, r[i].frame.seq>>
  <2>1. CASE i \in Places(p) /\ r[i].frame = p[i].frame
    <3>1. p[i].frame.seq \in 1 .. first
      BY <1>6, <1>8, <2>1 DEF NoneBehind
    <3>2. p[i].frame.data = <<m, p[i].frame.seq>>
      BY <1>5, <1>8, <2>1 DEF CarryingOf
    <3> QED
      BY <1>7, <2>1, <3>1, <3>2
  <2>2. CASE \E x \in 1 .. sent : Packet(q, m, r[i].frame, x)
    BY <1>4, <2>2
  <2> QED
    BY <1>3, <1>8, <2>1, <2>2
<1>9. ASSUME NEW i \in Places(r), Opening(q, r[i].frame)
      PROVE  i \in Places(p) /\ r[i].frame = p[i].frame /\ r[i].to \subseteq p[i].to
  BY <1>3, <1>4, <1>9
<1>10. SendersFrames(q, m)'
  <2> SUFFICES ASSUME NEW i \in Places(r)
               PROVE  /\ Opening(q, r[i].frame) => OpeningOf(q, m, tx[from][i])'
                      /\ Carrying(q, r[i].frame) => CarryingOf(q, m, tx[from][i].frame)'
    BY DEF SendersFrames
  <2>1. ASSUME Opening(q, r[i].frame)
        PROVE  OpeningOf(q, m, tx[from][i])'
    <3>1. i \in Places(p) /\ r[i].frame = p[i].frame /\ r[i].to \subseteq p[i].to
      BY <1>9, <2>1
    <3>2. OpeningOf(q, m, p[i])
      BY <2>1, <3>1 DEF Exchange, SendersFrames
    <3>3. p[i].to \subseteq Node \ {from}
      <4>1. p[i] \in EntryOf(from)
        BY <1>1, <3>1, PlaceType
      <4> QED
        BY <4>1 DEF EntryOf
    <3> QED
      BY <1>2, <3>1, <3>2, <3>3 DEF OpeningOf, SameArrivals
  <2>2. ASSUME Carrying(q, r[i].frame)
        PROVE  CarryingOf(q, m, tx[from][i].frame)'
    <3> DEFINE seq == r[i].frame.seq
               packets == Packets(m)
    <3>1. seq \in 1 .. sent /\ r[i].frame.data = <<m, seq>>
      BY <1>8, <2>2
    <3>2. packets \in 2 .. 255 /\ sent <= packets
      BY <1>2
    <3>3. t # NoSession => t.last = sent
      BY DEF SentMore
    <3> HIDE DEF seq, packets
    <3>4. \A x \in 1 .. sent : x \in 1 .. packets /\ x <= sent
      BY <3>2
    <3>5. seq \in 1 .. packets /\ seq <= sent
      BY <3>1, <3>4, Zenon
    <3>6. t # NoSession => seq <= t.last
      BY <3>3, <3>5, Zenon
    <3> QED
      BY <3>1, <3>5, <3>6 DEF CarryingOf, seq, packets
  <2> QED
    BY <2>1, <2>2
<1>11. Ordered(q, r)
  <2>1. Ordered(q, p)
    BY DEF Exchange
  <2>2. Follows(p, r, 0, burst)
    OBVIOUS
  <2>3. first \in Nat
    OBVIOUS
  <2> HIDE DEF p, r
  <2> QED
    BY <1>1, <1>6, <2>1, <2>2, <2>3, BurstOrdered
<1>12. SendersSession(q, m)'
  <2> SUFFICES ASSUME t # NoSession
               PROVE  SenderOf(q, m, sess[from][q])'
    BY DEF SendersSession
  <2>1. SenderOf(q, m, s)
    BY DEF Exchange, SendersSession
  <2>2. SentMore(s, t, sent)
    OBVIOUS
  <2>3. /\ t.msg = m /\ t.pgn = Header[m].pgn /\ t.total = Packets(m)
        /\ t.data = Content(m).data
        /\ t.state \notin {"SendBroadcastAnnounce", "SendRequestToSend"}
        /\ t.state = "SendDataTransferPackets" => t.last < t.total
    BY <2>1, <2>2 DEF SenderOf, SentMore
  <2> QED
    BY <2>3 DEF SenderOf
<1>13. ReceiversSessions(q, m)'
  BY <1>2 DEF Exchange, ReceiversSessions, ReceiverOf, SameArrivals
<1>14. ReceiversFrames(q, m)'
  BY <1>1, <1>2 DEF Exchange, ReceiversFrames, SameArrivals
<1>15. Exchange(q, m)'
  BY <1>10, <1>11, <1>12, <1>13, <1>14 DEF Exchange
<1>16. ASSUME q[2] \in Node
       PROVE  Grants(q)'
  <2>1. /\ SenderGrant(s) /\ Granted(s) /\ s.last \in 0 .. 255 /\ s.ack \in 0 .. 255
        /\ s.cts \in 0 .. 255
    BY <1>1, <1>16, Fits, ZenonT(30) DEF Grants, SessionGrants, SenderGrant
  <2>2. tx'[q[2]] = tx[q[2]] /\ sess'[q[2]][q] = sess[q[2]][q]
    BY <1>1, <1>16
  <2>3. NoClearing(q, tx[q[2]])
    BY <1>16 DEF Grants, ClearGrants, ClearingOf, NoClearing
  <2>4. NoOpening(q, p)
    BY <1>16 DEF Grants, FrameGrants, NoOpening
  <2>5. NoOpening(q, r)
    BY <1>9, <2>4 DEF NoOpening
  <2>6. ASSUME t # NoSession
        PROVE  SenderGrant(t) /\ t.ack + t.cts = s.ack + s.cts
    <3>1. SentMore(s, t, sent) /\ SentWithin(s, t, sent)
      BY <1>16, <2>6
    <3>2. s.last <= sent
      BY <1>1
    <3>3. sent <= s.ack + s.cts
      BY <1>16 DEF Covers
    <3> HIDE DEF s, t
    <3> QED
      BY <2>1, <3>1, <3>2, <3>3, GoesOnSending
  <2>7. SessionGrants(q)'
    <3>1. SessionGrants(q)
      BY <1>16 DEF Grants
    <3> QED
      BY <2>2, <2>6, <3>1 DEF SessionGrants
  <2>8. CarryingWithin(q, r, s)
    <3> SUFFICES ASSUME NEW i \in Places(r), Carrying(q, r[i].frame)
                 PROVE  r[i].frame.seq <= s.ack + s.cts
      BY DEF CarryingWithin
    <3> DEFINE seq == r[i].frame.seq
               ack == s.ack
               cts == s.cts
    <3>1. seq \in 1 .. sent
      BY <1>8
    <3>2. ack \in 0 .. 255 /\ cts \in 0 .. 255
      BY <2>1
    <3>3. sent <= ack + cts
      BY <1>16 DEF Covers
    <3> HIDE DEF seq, ack, cts
    <3>4. seq <= ack + cts
      BY <3>1, <3>2, <3>3
    <3> QED
      BY <3>4 DEF seq, ack, cts
  <2>9. FrameGrants(q)'
    <3> SUFFICES ASSUME NEW i \in Places(r), Carrying(q, r[i].frame), sess[q[2]][q] # NoSession
                 PROVE  r[i].frame.seq <= sess[q[2]][q].ack + sess[q[2]][q].cts
      BY <2>2, <2>5 DEF FrameGrants, NoOpening
    <3> DEFINE seq == r[i].frame.seq
               ack == s.ack
               cts == s.cts
               more == sess[q[2]][q].ack
               clear == sess[q[2]][q].cts
    <3>1. seq \in 1 .. sent
      BY <1>8
    <3>2. ack \in 0 .. 255 /\ cts \in 0 .. 255
      BY <2>1
    <3>3. more \in 0 .. 255 /\ clear \in 0 .. 255
      <4>1. sess[q[2]][q] \in SessionOf(q[2], q)
        BY <1>1, <1>16, Existing
      <4>2. sess[q[2]][q] \in Session
        BY <4>1 DEF SessionOf
      <4> QED
        BY <4>2, Counters, Zenon
    <3>4. sent <= ack + cts
      BY <1>16 DEF Covers
    <3>5. ack + cts <= more + clear
      BY <1>16 DEF Grants, SessionGrants
    <3> HIDE DEF seq, ack, cts, more, clear
    <3>6. seq <= more + clear
      <4> DEFINE a == ack + cts
                 b == more + clear
      <4>1. seq \in Int /\ a \in Int /\ b \in Int /\ seq <= sent
        BY <3>1, <3>2, <3>3
      <4>2. sent <= a /\ a <= b
        BY <3>4, <3>5
      <4> HIDE DEF a, b
      <4>3. seq <= b
        BY <4>1, <4>2
      <4> QED
        BY <4>3 DEF b
    <3> QED
      BY <3>6 DEF seq, more, clear
  <2>10. ClearGrants(q)'
    BY <2>2, <2>3 DEF ClearGrants, NoClearing
  <2> QED
    BY <2>7, <2>9, <2>10 DEF Grants
<1> QED
  BY <1>15, <1>16 DEF Sound

\* The frame that carries the packet behind the first ones.
LEMMA DataPacket ==
  ASSUME NEW q, NEW m \in Message, NEW s, s.total = Packets(m),
         s.data = Content(m).data, NEW sent \in 0 .. 254, sent < Packets(m)
  PROVE  Packet(q, m, DataFrame(q, s, sent), sent + 1)
<1>1. Packets(m) \in 2 .. 255
  BY HeaderFacts
<1> DEFINE packets == Packets(m)
<1>2. packets \in 2 .. 255 /\ sent < packets
  BY <1>1
<1> HIDE DEF packets
<1>3. sent + 1 \in 1 .. packets /\ (sent + 1) % 256 = sent + 1
  <2>1. sent + 1 \in 0 .. 255 /\ sent + 1 \in 1 .. packets
    BY <1>2
  <2> QED
    BY <2>1, ByteItself
<1>4. Content(m).data[sent + 1] = <<m, sent + 1>>
  BY <1>3 DEF Content, packets
<1>5. DataFrame(q, s, sent).data = <<m, sent + 1>>
  BY <1>4 DEF DataFrame
<1> QED
  BY <1>3, <1>5 DEF Packet, Carrying, DataFrame

\* The packets a burst sends
Burst(q, s, count) == [i \in 1 .. count |-> DataFrame(q, s, (s.last + i - 1) % 256)]
\* The session when the burst has sent the packets up to this one
Sent(s, count, sent) == IF count = 0 THEN s ELSE [s EXCEPT !.last = sent, !.age = 0]

\* The session after a burst, in the state it was or in another one.
SentUpTo(t, s, sent) ==
  /\ t \in Session /\ t.state = s.state
  /\ t.last = sent /\ t.total = s.total /\ t.ack = s.ack /\ t.cts = s.cts
  /\ t.msg = s.msg /\ t.pgn = s.pgn /\ t.data = s.data

LEMMA AfterBurst ==
  ASSUME NEW s \in Session, NEW sent \in 0 .. 255, NEW count, count = 0 => s.last = sent,
         NEW t, t = Sent(s, count, sent)
  PROVE  SentUpTo(t, s, sent)
<1>1. [s EXCEPT !.last = sent, !.age = 0] \in Session
  BY LastType
<1> QED
  BY <1>1 DEF SentUpTo, Sent, Session, SessionRecord

LEMMA OtherState ==
  ASSUME NEW s \in Session, NEW state
  PROVE  LET t == InState(s, state)
         IN /\ t.state = state /\ t.last = s.last /\ t.total = s.total /\ t.ack = s.ack
            /\ t.cts = s.cts /\ t.msg = s.msg /\ t.pgn = s.pgn /\ t.data = s.data
BY DEF InState, Session, SessionRecord

LEMMA ByteRest ==
  ASSUME NEW x \in 0 .. 255, NEW y \in 0 .. 255, x <= y
  PROVE  (y - x) % 256 = 0 <=> x = y
<1>1. y - x \in 0 .. 255 /\ (y - x = 0 <=> x = y)
  OBVIOUS
<1> QED
  BY <1>1, ByteItself, SMTT(30)

\* A burst fits the transmit path, the message and the grant.
LEMMA BurstFits ==
  ASSUME TypeOK, Capacity, NEW n \in Node, NEW q \in Key, NEW s \in SessionOf(n, q),
         Unfinished(s), ~IsBroadcast(q) => SenderGrant(s) /\ s.state = "SendDataTransferPackets"
  PROVE  /\ BurstLength(n, q, s) \in Nat /\ BurstLength(n, q, s) <= Room(n)
         /\ s.last + BurstLength(n, q, s) <= s.total
         /\ ~IsBroadcast(q) => Covers(s, s.last + BurstLength(n, q, s))
<1> DEFINE last == s.last
           ack == s.ack
           cts == s.cts
           total == s.total
           room == Room(n)
<1>1. last \in 0 .. 255 /\ ack \in 0 .. 255 /\ cts \in 0 .. 255 /\ total \in 0 .. 255
  <2>1. s \in Session
    BY SessionFacts
  <2> QED
    BY <2>1 DEF Session, SessionRecord
<1>2. last < total
  BY DEF Unfinished
<1>3. room \in Nat
  <2>1. Len(tx[n]) \in Nat /\ Len(tx[n]) <= TxCapacity /\ TxCapacity \in Nat
    BY ConfigurationAssumption DEF TypeOK, PathsOK, Capacity
  <2> QED
    BY <2>1 DEF Room
<1>4. FramesPerUpdate \in 0 .. 255
  BY ConfigurationAssumption
<1>5. ASSUME ~IsBroadcast(q)
      PROVE  ack <= last /\ last < ack + cts /\ ack + cts <= total
  BY <1>5 DEF SenderGrant, Granted
<1>6. BurstLength(n, q, s) =
        Least(IF IsBroadcast(q) THEN 1 ELSE Least((cts - (last - ack)) % 256, FramesPerUpdate), room)
  BY DEF BurstLength, CtsRemaining
<1> HIDE DEF last, ack, cts, total, room
<1> DEFINE count == BurstLength(n, q, s)
<1>7. CASE IsBroadcast(q)
  <2>1. count = Least(1, room)
    BY <1>6, <1>7
  <2> HIDE DEF count
  <2>2. count \in Nat /\ count <= room /\ count <= 1
    BY <1>3, <2>1 DEF Least
  <2>3. last + count <= total
    BY <1>1, <1>2, <2>2
  <2> QED
    BY <1>7, <2>2, <2>3 DEF count, last, total, room
<1>8. CASE ~IsBroadcast(q)
  <2>1. count = Least(Least((cts - (last - ack)) % 256, FramesPerUpdate), room)
    BY <1>6, <1>8
  <2> HIDE DEF count
  <2>2. ack <= last /\ last < ack + cts /\ ack + cts <= total
    BY <1>5, <1>8
  <2>3. count \in Nat /\ count <= room /\ last + count <= ack + cts
    <3> DEFINE granted == cts - (last - ack)
    <3>1. granted \in 0 .. 255 /\ last + granted = ack + cts
      BY <1>1, <2>2
    <3>2. count = Least(Least(granted % 256, FramesPerUpdate), room)
      BY <2>1
    <3> HIDE DEF granted
    <3>3. granted % 256 = granted
      BY <3>1, ByteItself
    <3>4. count \in Nat /\ count <= room /\ count <= granted
      BY <1>3, <1>4, <3>1, <3>2, <3>3 DEF Least
    <3>5. last + count <= last + granted
      BY <1>1, <3>1, <3>4
    <3> QED
      BY <3>1, <3>4, <3>5
  <2>4. last + count <= total
    BY <1>1, <2>2, <2>3
  <2> QED
    BY <2>3, <2>4 DEF count, last, total, room, ack, cts, Covers
<1> QED
  BY <1>7, <1>8

\* The session s has sent the first packets of the message
Stands(m, s, first, total) ==
  s.last = first /\ s.total = total /\ total = Packets(m) /\ s.data = Content(m).data
\* Nothing remains exactly when the whole message was sent
AllSent(s, sent) ==
  \A t : t.last = sent /\ t.total = s.total => (Remaining(t) = 0 <=> sent = s.total)

\* A burst of this length ends at that packet of the message
EndsAt(first, count, sent, total) == sent = first + count /\ sent <= total

LEMMA BurstSize ==
  ASSUME NEW q, NEW s, NEW count \in Nat
  PROVE  Len(Burst(q, s, count)) = count
BY DEF Burst

\* What a burst of a session sends.
LEMMA BurstMoves ==
  ASSUME NEW q, NEW m \in Message, NEW s, NEW first \in 0 .. 255, NEW total \in 0 .. 255,
         Stands(m, s, first, total), NEW count \in Nat, NEW sent \in 0 .. 255,
         EndsAt(first, count, sent, total)
  PROVE  BurstOf(q, m, Burst(q, s, count), first) /\ AllSent(s, sent)
<1> DEFINE burst == Burst(q, s, count)
<1>0. sent = first + count /\ sent <= total
  BY DEF EndsAt
<1>1. s.data = Content(m).data /\ s.last = first /\ s.total = total
  BY DEF Stands
<1>2. burst = [i \in 1 .. count |-> DataFrame(q, s, (first + i - 1) % 256)]
  BY <1>1 DEF Burst
<1>3. total = Packets(m)
  BY DEF Stands
<1> HIDE DEF burst
<1>4. sent \in 0 .. 255 /\ sent % 256 = sent /\ first <= sent
      /\ ((total - sent) % 256 = 0 <=> sent = total)
  <2>1. sent \in 0 .. 255 /\ first <= sent
    BY <1>0
  <2>2. (total - sent) % 256 = 0 <=> sent = total
    <3>1. \A y \in 0 .. 255 : sent <= y => ((y - sent) % 256 = 0 <=> sent = y)
      BY <2>1, ByteRest
    <3>2. total \in 0 .. 255 /\ sent <= total
      BY <1>0
    <3> QED
      BY <3>1, <3>2, Zenon
  <2> QED
    BY <2>1, <2>2, ByteItself
<1>5. ASSUME NEW i \in 1 .. count
      PROVE  Packet(q, m, burst[i], first + i)
  <2> DEFINE x == first + i - 1
  <2>0. x \in 0 .. 255 /\ x \in 0 .. 254 /\ x < total /\ x + 1 = first + i
    BY <1>0
  <2>2. burst[i] = DataFrame(q, s, x % 256)
    BY <1>2
  <2> HIDE DEF x
  <2>1. x % 256 = x /\ x \in 0 .. 254 /\ x < total /\ x + 1 = first + i
    BY <2>0, ByteItself
  <2>3. Packet(q, m, DataFrame(q, s, x), x + 1)
    BY <1>1, <1>3, <2>1, DataPacket, ZenonT(30)
  <2> QED
    BY <2>1, <2>2, <2>3
<1>6. Len(burst) = count
  BY BurstSize DEF burst
<1>7. BurstOf(q, m, burst, first)
  BY <1>5, <1>6 DEF BurstOf
<1>8. AllSent(s, sent)
  BY <1>1, <1>4 DEF Remaining, AllSent
<1> QED
  BY <1>4, <1>6, <1>7, <1>8 DEF burst

\* What is left of the grant after a burst.
LEMMA GrantLeft ==
  ASSUME NEW s, NEW t, SenderGrant(s), s.last \in 0 .. 255, s.ack \in 0 .. 255,
         s.cts \in 0 .. 255, NEW sent \in 0 .. 255, s.last <= sent, Covers(s, sent),
         t.last = sent, t.ack = s.ack, t.cts = s.cts, CtsRemaining(t) # 0
  PROVE  sent < s.ack + s.cts
<1> DEFINE last == s.last
           ack == s.ack
           cts == s.cts
<1>1. last \in 0 .. 255 /\ ack \in 0 .. 255 /\ cts \in 0 .. 255 /\ ack <= last
      /\ last <= sent /\ sent <= ack + cts
  BY DEF SenderGrant, Granted, Covers
<1>2. (cts - (sent - ack)) % 256 # 0
  BY DEF CtsRemaining
<1> HIDE DEF last, ack, cts
<1>3. ack <= sent
  BY <1>1
<1>4. (cts - (sent - ack)) % 256 = 0 <=> sent = ack + cts
  <2> DEFINE rest == cts - (sent - ack)
  <2>1. rest \in 0 .. 255 /\ (rest = 0 <=> sent = ack + cts)
    BY <1>1, <1>3
  <2> HIDE DEF rest
  <2>2. rest % 256 = 0 <=> sent = ack + cts
    BY <2>1, ByteItself
  <2> QED
    BY <2>2 DEF rest
<1>5. sent < ack + cts
  BY <1>1, <1>2, <1>4
<1> QED
  BY <1>5 DEF ack, cts

\* What a session that sends packets becomes.
LEMMA BurstSession ==
  ASSUME NEW q \in Key, NEW s \in Session, s.state = "SendDataTransferPackets",
         NEW count, NEW sent \in 0 .. 255, count = 0 => s.last = sent, NEW after,
         after = Sent(s, count, sent),
         AllSent(s, sent), sent # s.total => sent < s.total,
         ~IsBroadcast(q) => SenderGrant(s) /\ s.last <= sent /\ Covers(s, sent), NEW t,
         \/ Remaining(after) = 0 /\ ~IsBroadcast(q)
            /\ t = InState(after, "WaitForEndOfMessageAcknowledge")
         \/ Remaining(after) # 0
            /\ t = IF CtsRemaining(after) = 0 /\ ~IsBroadcast(q)
                   THEN InState(after, "WaitForClearToSend") ELSE after
  PROVE  SentMore(s, t, sent) /\ (~IsBroadcast(q) => SentWithin(s, t, sent))
<1>1. /\ after \in Session /\ after.state = s.state
      /\ after.last = sent /\ after.total = s.total /\ after.ack = s.ack /\ after.cts = s.cts
      /\ after.msg = s.msg /\ after.pgn = s.pgn /\ after.data = s.data
  <2>1. SentUpTo(after, s, sent)
    BY AfterBurst, Zenon
  <2> QED
    BY <2>1, Zenon DEF SentUpTo
<1>2. \A state :
        LET u == InState(after, state)
        IN /\ u.state = state
           /\ u.last = sent /\ u.total = s.total /\ u.ack = s.ack /\ u.cts = s.cts
           /\ u.msg = s.msg /\ u.pgn = s.pgn /\ u.data = s.data
  BY <1>1, OtherState
<1>3. s.last \in 0 .. 255 /\ s.ack \in 0 .. 255 /\ s.cts \in 0 .. 255
  BY DEF Session, SessionRecord
<1>4. ASSUME ~IsBroadcast(q), CtsRemaining(after) # 0
      PROVE  sent < s.ack + s.cts
  BY <1>1, <1>3, <1>4, GrantLeft
<1>0. Remaining(after) = 0 <=> sent = s.total
  BY <1>1 DEF AllSent
<1>5. CASE Remaining(after) = 0 /\ ~IsBroadcast(q)
           /\ t = InState(after, "WaitForEndOfMessageAcknowledge")
  BY <1>0, <1>2, <1>5 DEF SentMore, SentWithin, TxState
<1>6. CASE Remaining(after) # 0
           /\ t = IF CtsRemaining(after) = 0 /\ ~IsBroadcast(q)
                  THEN InState(after, "WaitForClearToSend") ELSE after
  BY <1>0, <1>1, <1>2, <1>4, <1>6 DEF SentMore, SentWithin, TxState
<1> QED
  BY <1>5, <1>6

\* send_data_transfer_packets()
LEMMA SendDataSound ==
  ASSUME TypeOK, TypeOK', Capacity, \A k \in Key : Sound(k), NEW n \in Node, NEW q \in Key,
         SendDataTransferPackets(n, q)
  PROVE  Moves /\ Onward /\ delivered' = delivered /\ \A k \in Key : Sound(k)'
<1> DEFINE s == sess[n][q]
           count == BurstLength(n, q, s)
           burst == Burst(q, s, count)
           after == IF count = 0 THEN s
                    ELSE [s EXCEPT !.last = (s.last + count) % 256, !.age = 0]
           Next1(t) == \/ /\ Remaining(after) = 0 /\ ~IsBroadcast(q)
                          /\ t = InState(after, "WaitForEndOfMessageAcknowledge")
                       \/ /\ Remaining(after) # 0
                          /\ t = IF CtsRemaining(after) = 0 /\ ~IsBroadcast(q)
                                 THEN InState(after, "WaitForClearToSend") ELSE after
<1>1. /\ s # NoSession /\ s.state = "SendDataTransferPackets" /\ delivered' = delivered
      /\ \/ Finish(n, q, "success", burst)
         \/ \E t : Next1(t) /\ GoOn(n, q, t, burst)
  BY ZenonT(30) DEF SendDataTransferPackets, Updates, Burst
<1>2. PathsOK(tx) /\ PathsOK(tx') /\ SessionsOK(sess) /\ SessionsOK(sess')
  BY DEF TypeOK
<1>3. s \in SessionOf(n, q) /\ s \in Session /\ q[1] = n
  <2>1. s \in SessionOf(n, q)
    BY <1>1, <1>2, Existing
  <2> QED
    BY <1>1, <2>1, SessionFacts DEF TxState
<1>4. PICK m \in Message : Exchange(q, m)
  BY <1>1 DEF Sound, Quiet
<1>5. SenderOf(q, m, s) /\ Unfinished(s) /\ s.total = Packets(m) /\ s.data = Content(m).data
  BY <1>1, <1>3, <1>4 DEF Exchange, SendersSession, SenderOf, Unfinished
<1>6. q[2] \in Node <=> ~IsBroadcast(q)
  BY NodeAssumption, KeyType DEF IsBroadcast, Key, Destination
<1>7. q[2] \in Node => Grants(q)
  <2>1. q[2] # q[1]
    BY <1>4, NodeAssumption DEF Exchange, Pair
  <2> QED
    BY <2>1 DEF Sound
<1>8. ~IsBroadcast(q) => SenderGrant(s)
  BY <1>1, <1>3, <1>6, <1>7 DEF Grants, SessionGrants
<1>9. /\ count \in Nat /\ count <= Room(n) /\ s.last + count <= s.total
      /\ ~IsBroadcast(q) => Covers(s, s.last + count)
  <2> HIDE DEF s
  <2> QED
    BY <1>1, <1>3, <1>5, <1>8, BurstFits
<1> HIDE DEF count
<1>10. PICK first \in 0 .. 255, total \in 0 .. 255, sent \in 0 .. 255 :
         first = s.last /\ total = s.total /\ sent = first + count /\ sent <= total
  <2>1. s.last \in 0 .. 255 /\ s.total \in 0 .. 255
    BY <1>3, Counters, Zenon
  <2> DEFINE first == s.last
             total == s.total
             sent == first + count
  <2>2. first \in 0 .. 255 /\ total \in 0 .. 255 /\ count \in Nat
    BY <1>9, <2>1
  <2>3. sent <= total
    BY <1>9
  <2> HIDE DEF first, total
  <2>4. sent \in 0 .. 255
    BY <2>2, <2>3
  <2> HIDE DEF sent
  <2> QED
    BY <2>2, <2>3, <2>4 DEF first, total, sent
<1>11. sent % 256 = sent /\ first <= sent
  <2>1. sent = first + count /\ count \in Nat
    BY <1>9, <1>10
  <2>2. first <= sent
    BY <2>1
  <2> QED
    BY <2>2, ByteItself
<1>27. BurstOf(q, m, burst, first) /\ Len(burst) = count /\ AllSent(s, sent)
  <2>1. Stands(m, s, first, total)
    BY <1>5, <1>10 DEF Stands
  <2>2. EndsAt(first, count, sent, total)
    BY <1>10 DEF EndsAt
  <2>4. count \in Nat
    BY <1>9
  <2> HIDE DEF s
  <2>5. Len(Burst(q, s, count)) = count
    BY <2>4, BurstSize
  <2>6. BurstOf(q, m, Burst(q, s, count), first)
    BY <2>1, <2>2, <2>4, BurstMoves, ZenonT(30)
  <2>7. AllSent(s, sent)
    BY <2>1, <2>2, <2>4, BurstMoves
  <2> QED
    BY <2>5, <2>6, <2>7
<1>12. burst \in Seq(FrameOf(n)) /\ Len(burst) = count
  <2> HIDE DEF s
  <2>1. count \in Int
    BY <1>9
  <2> QED
    BY <1>3, <1>27, <2>1, BurstType DEF Burst
<1>13. after = Sent(s, count, sent)
  BY <1>10, <1>11 DEF Sent
<1>14. count = 0 => s.last = sent
  BY <1>10
<1>15. ~IsBroadcast(q) => Covers(s, sent) /\ s.last <= sent
  BY <1>9, <1>10, <1>11
<1> HIDE DEF burst, after
<1>17. sent # s.total => sent < s.total
  <2>1. total = s.total
    BY <1>10
  <2>2. sent <= total
    BY <1>10
  <2>3. sent # total => sent < total
    BY <2>2
  <2> QED
    BY <2>1, <2>3
<1>18. ASSUME NEW t, Next1(t)
       PROVE  SentMore(s, t, sent) /\ (~IsBroadcast(q) => SentWithin(s, t, sent))
  <2> HIDE DEF s
  <2>1. s \in Session /\ s.state = "SendDataTransferPackets" /\ sent \in 0 .. 255
    BY <1>1, <1>3, <1>11
  <2>2. ~IsBroadcast(q) => SenderGrant(s) /\ s.last <= sent /\ Covers(s, sent)
    BY <1>8, <1>15
  <2> QED
    BY <1>13, <1>14, <1>17, <1>18, <1>27, <2>1, <2>2, BurstSession, ZenonT(40)
<1> HIDE DEF Next1
<1>19. /\ tx' = [tx EXCEPT ![n] = Offer(n, burst)]
       /\ \/ sess' = Close(n, {q}) /\ outcome' = Report(n, q, "success")
          \/ \E t : Next1(t) /\ sess' = Store(n, q, t) /\ outcome' = outcome
  BY <1>1 DEF Finish, GoOn
<1>20. Onward
  BY <1>19, ReportOnward DEF Onward
<1>21. Moves
  BY <1>2, <1>12, <1>19, SendMoves
<1>22. tx'[n] = Offer(n, burst) /\ \A x \in Node : x # n => tx'[x] = tx[x]
  BY <1>2, <1>19 DEF PathsOK
<1>23. Follows(tx[n], tx'[n], 0, burst)
  <2>1. Len(burst) <= Room(n)
    BY <1>9, <1>12
  <2> QED
    BY <1>2, <1>12, <1>22, <2>1, OfferPath
<1>24. /\ \A x \in Node : x # n => sess'[x][q] = sess[x][q]
       /\ sess'[n][q] = NoSession \/ Next1(sess'[n][q])
  BY <1>2, <1>3, <1>19 DEF SessionsOK, Close, Store
<1>25. Sound(q)'
  <2>1. sess'[q[1]][q] # NoSession =>
          /\ SentMore(sess[q[1]][q], sess'[q[1]][q], sent)
          /\ q[2] \in Node => SentWithin(sess[q[1]][q], sess'[q[1]][q], sent)
    BY <1>3, <1>6, <1>18, <1>24
  <2>2. /\ sess[q[1]][q] # NoSession /\ sess[q[1]][q].state = "SendDataTransferPackets"
        /\ burst \in Seq(FrameOf(q[1])) /\ sess[q[1]][q].last = first
        /\ q[2] \in Node => Covers(sess[q[1]][q], sent)
        /\ Follows(tx[q[1]], tx'[q[1]], 0, burst)
        /\ \A x \in Node : x # q[1] => tx'[x] = tx[x] /\ sess'[x][q] = sess[x][q]
    BY <1>1, <1>3, <1>6, <1>10, <1>12, <1>15, <1>22, <1>23, <1>24
  <2>3. first + Len(burst) = sent /\ sent <= Packets(m)
    BY <1>5, <1>10, <1>12
  <2>4. outcome'[m] # "idle"
    BY <1>4, <1>20 DEF Exchange, Onward
  <2> HIDE DEF s
  <2> QED
    BY <1>1, <1>4, <1>7, <1>11, <1>27, <2>1, <2>2, <2>3, <2>4, SendsOn, ZenonT(30)
<1>26. ASSUME NEW k \in Key, k # q
       PROVE  Sound(k)'
  <2>1. \A i \in 1 .. Len(burst) : ~Concerns(k, burst[i])
    BY <1>26, <1>27, OnePair DEF BurstOf, Packet, Concerns
  <2>2. Sound(k)
    OBVIOUS
  <2>3. CASE sess' = Close(n, {q})
    <3>1. SessionsSubside(k) /\ FramesSubside(k)
      BY <1>2, <1>12, <1>19, <2>1, <2>3, CloseSubsides, SendSubsides
    <3> QED
      BY <1>1, <1>20, <2>2, <3>1, SubsidesQuietly, SoundSubsides
  <2>4. ASSUME NEW t, sess' = Store(n, q, t)
        PROVE  Sound(k)'
    <3>1. SessionsSubside(k) /\ FramesSubside(k)
      BY <1>2, <1>12, <1>19, <1>26, <2>1, <2>4, StoreSubsides, SendSubsides
    <3> QED
      BY <1>1, <1>20, <2>2, <3>1, SubsidesQuietly, SoundSubsides
  <2> QED
    BY <1>19, <2>3, <2>4
<1> QED
  BY <1>1, <1>20, <1>21, <1>25, <1>26

-----------------------------------------------------------------------------
(* The invariant of the exchanges *)

ExchangeInv == Addressed /\ Capacity /\ FromMessages /\ \A k \in Key : Sound(k)

LEMMA ExchangeInit == Init => ExchangeInv
<1> SUFFICES ASSUME Init PROVE ExchangeInv
  OBVIOUS
<1>1. \A x \in Node : tx[x] = <<>> /\ delivered[x] = <<>> /\ Places(tx[x]) = {}
  BY DEF Init, Places
<1>2. Addressed /\ FromMessages
  BY <1>1 DEF Addressed, FromMessages
<1>3. Capacity
  <2>1. \A x \in Node : Len(tx[x]) = 0
    BY <1>1
  <2> QED
    BY <2>1, ConfigurationAssumption DEF Capacity
<1>4. ASSUME NEW k \in Key
      PROVE  Sound(k)
  <2>1. \A n \in Node : sess[n][k] = NoSession
    BY DEF Init
  <2>2. NoFrames(k)
    BY <1>1 DEF NoFrames
  <2>3. Quiet(k)
    BY <2>1, <2>2 DEF Quiet
  <2>4. ASSUME k[2] \in Node
        PROVE  Grants(k)
    BY <1>1, <2>1, <2>4, KeyType DEF Grants, SessionGrants, FrameGrants, ClearGrants
  <2> QED
    BY <2>3, <2>4 DEF Sound
<1> QED
  BY <1>2, <1>3, <1>4 DEF ExchangeInv

\* The parts a step keeps make the invariant.
LEMMA ExchangeParts ==
  ASSUME TypeOK, TypeOK', ExchangeInv, Moves, \A k \in Key : Sound(k)', FromMessages'
  PROVE  ExchangeInv'
<1>1. PathsOK(tx) /\ PathsOK(tx') /\ Addressed /\ Capacity
  BY DEF TypeOK, ExchangeInv
<1>2. Addressed' /\ Capacity'
  BY <1>1, MovesKeep
<1> QED
  BY <1>2 DEF ExchangeInv

\* The handlers of received frames keep the invariant,
LEMMA ReceiveExchange ==
  ASSUME TypeOK, TypeOK', OrderInv, ExchangeInv, NEW n \in Node, NEW a \in Node, Receive(n, a)
  PROVE  ExchangeInv'
<1>1. Addressed /\ FromMessages /\ \A k \in Key : Sound(k)
  BY DEF ExchangeInv
<1>2. CASE Ignore(n, a) \/ ReceiveEndOfMessageAck(n, a) \/ ReceiveAbort(n, a)
  <2>1. Moves /\ \A k \in Key : Subsides(k)
    BY <1>2, EndingFrames
  <2>2. \A k \in Key : Sound(k)'
    BY <1>1, <2>1, SoundSubsides
  <2>3. Onward /\ delivered' = delivered
    BY <1>2, ReportOnward
       DEF Ignore, ReceiveEndOfMessageAck, ProcessEndOfMessageAck, ReceiveAbort, ProcessAbort,
           Onward
  <2> QED
    BY <1>1, <2>1, <2>2, <2>3, FromMessagesKept, ExchangeParts
<1>3. CASE ReceiveAnnounce(n, a)
  <2>1. Onward /\ delivered' = delivered
    BY <1>3 DEF ReceiveAnnounce, ProcessAnnounce, Onward
  <2> QED
    BY <1>1, <1>3, <2>1, AnnounceSound, FromMessagesKept, ExchangeParts
<1>4. CASE ReceiveRequestToSend(n, a)
  <2>1. delivered' = delivered
    BY <1>4 DEF ReceiveRequestToSend, ProcessRequestToSend
  <2> QED
    BY <1>1, <1>4, <2>1, RequestSound, FromMessagesKept, ExchangeParts
<1>5. CASE ReceiveClearToSend(n, a)
  BY <1>1, <1>5, ClearToSendSound, FromMessagesKept, ExchangeParts
<1>6. CASE ReceiveDataTransfer(n, a)
  <2>1. /\ Moves /\ outcome' = outcome /\ \A k \in Key : Sound(k)'
        /\ delivered' = delivered \/ \E m \in Message : Delivers(m, n)
    BY <1>1, <1>6, DataTransferSound
  <2>2. FromMessages'
    <3>1. CASE delivered' = delivered
      BY <1>1, <2>1, <3>1, FromMessagesKept DEF Onward
    <3>2. ASSUME NEW m \in Message, Delivers(m, n)
          PROVE  FromMessages'
      BY <1>1, <2>1, <3>2, DeliveryFromMessages DEF Delivers
    <3> QED
      BY <2>1, <3>1, <3>2
  <2> QED
    BY <2>1, <2>2, ExchangeParts
<1> QED
  BY <1>2, <1>3, <1>4, <1>5, <1>6 DEF Receive

\* so do the steps of update(),
LEMMA UpdateExchange ==
  ASSUME TypeOK, TypeOK', ExchangeInv, NEW n \in Node, NEW q \in Key, UpdateSession(n, q)
  PROVE  ExchangeInv'
<1>1. FromMessages /\ Capacity /\ \A k \in Key : Sound(k)
  BY DEF ExchangeInv
<1>2. CASE CloseUnreachable(n, q) \/ TimeOut(n, q)
  <2>1. Moves /\ \A k \in Key : Subsides(k)
    BY <1>2, EndingUpdates
  <2>2. \A k \in Key : Sound(k)'
    BY <1>1, <2>1, SoundSubsides
  <2>3. Onward /\ delivered' = delivered
    BY <1>2, ReportOnward DEF CloseUnreachable, TimeOut, Finish
  <2> QED
    BY <1>1, <2>1, <2>2, <2>3, FromMessagesKept, ExchangeParts
<1>3. CASE OpenConnection(n, q)
  <2>1. Onward /\ delivered' = delivered
    BY <1>3 DEF OpenConnection, GoOn, Onward
  <2> QED
    BY <1>1, <1>3, <2>1, OpenConnectionSound, FromMessagesKept, ExchangeParts
<1>4. CASE SendClearToSend(n, q)
  <2>1. Onward /\ delivered' = delivered
    BY <1>4 DEF SendClearToSend, GoOn, Onward
  <2> QED
    BY <1>1, <1>4, <2>1, SendClearSound, FromMessagesKept, ExchangeParts
<1>5. CASE SendDataTransferPackets(n, q)
  BY <1>1, <1>5, SendDataSound, FromMessagesKept, ExchangeParts
<1> QED
  BY <1>2, <1>3, <1>4, <1>5 DEF UpdateSession

\* and every other step in which no message overlaps with an earlier one.
LEMMA ExchangeStep ==
  ASSUME Foreign = {}
  PROVE  TypeOK /\ OrderInv /\ ExchangeInv /\ Settled /\ [Next]_vars => ExchangeInv'
<1> SUFFICES ASSUME TypeOK, OrderInv, ExchangeInv, Settled, [Next]_vars
             PROVE  ExchangeInv'
  OBVIOUS
<1>0. TypeOK'
  BY TypeStep
<1>1. FromMessages /\ \A k \in Key : Sound(k)
  BY DEF ExchangeInv
<1>2. CASE UNCHANGED vars
  <2>1. tx' = tx /\ sess' = sess /\ outcome' = outcome /\ delivered' = delivered
    BY <1>2 DEF vars
  <2>2. \A k \in Key : SessionsSubside(k) /\ FramesSubside(k)
    BY <2>1, SameSessions, SameSubsides DEF FramesSubside, TypeOK
  <2>3. Onward
    BY <2>1 DEF Onward
  <2>4. \A k \in Key : Sound(k)'
    BY <1>0, <1>1, <2>1, <2>2, <2>3, SubsidesQuietly, SoundSubsides
  <2>5. Moves
    BY <2>1, StillMoves DEF TypeOK
  <2> QED
    BY <1>0, <1>1, <2>1, <2>3, <2>4, <2>5, FromMessagesKept, ExchangeParts
<1>3. ASSUME NEW m \in Message, Submit(m)
      PROVE  ExchangeInv'
  <2>1. delivered' = delivered
    BY <1>3 DEF Submit
  <2> QED
    BY <1>0, <1>1, <1>3, <2>1, SubmitSound, FromMessagesKept, ExchangeParts
<1>4. CASE Environment
  <2>1. Moves /\ \A k \in Key : Subsides(k)
    BY <1>4, EnvironmentMoves, EnvironmentSubsides
  <2>2. \A k \in Key : Sound(k)'
    BY <1>0, <1>1, <2>1, SoundSubsides
  <2>3. Onward /\ delivered' = delivered
    BY <1>4 DEF Environment, Tick, Lose, SendOther, LoseAddress, RegainAddress, ForeignSend, Onward
  <2> QED
    BY <1>0, <1>1, <2>1, <2>2, <2>3, FromMessagesKept, ExchangeParts
<1>5. Stack \subseteq Node
  BY DEF Stack
<1> QED
  BY <1>0, <1>2, <1>3, <1>4, <1>5, ReceiveExchange, UpdateExchange DEF Next

-----------------------------------------------------------------------------
(* The frames of a connection stay within its grants *)

LEMMA GrantedWithin ==
  ASSUME NEW s, Granted(s), s.last \in Int, s.ack \in Int, s.cts \in Int, s.total \in Int
  PROVE  s.ack <= s.last /\ s.last <= s.ack + s.cts /\ s.last <= s.total
<1>1. \A last, ack, cts, total \in Int :
        ack <= last /\ last <= ack + cts /\ ack + cts <= total => last <= total
  OBVIOUS
<1> QED
  BY <1>1 DEF Granted

LEMMA ExchangeWithinGrant == TypeOK /\ ExchangeInv => WithinGrant
<1> SUFFICES ASSUME TypeOK, ExchangeInv, NEW n \in Stack, NEW k \in Active(n),
                    k[1] = n, ~IsBroadcast(k)
             PROVE  /\ sess[n][k].ack <= sess[n][k].last
                    /\ sess[n][k].last <= sess[n][k].ack + sess[n][k].cts
                    /\ sess[n][k].last <= sess[n][k].total
  BY DEF WithinGrant
<1> DEFINE s == sess[n][k]
<1>1. n \in Node /\ k \in Key /\ s # NoSession /\ k[2] \in Node
  BY KeyType DEF Stack, Active, IsBroadcast, Destination
<1>2. s \in SessionOf(n, k)
  BY <1>1, Existing DEF TypeOK
<1>3. k[2] # k[1]
  BY <1>2, NodeAssumption DEF SessionOf
<1>4. Granted(s)
  BY <1>1, <1>3 DEF ExchangeInv, Sound, Grants, SessionGrants, SenderGrant
<1>5. s.last \in Int /\ s.ack \in Int /\ s.cts \in Int /\ s.total \in Int
  <2>1. s \in SessionRecord
    BY <1>2 DEF SessionOf, Session
  <2> HIDE DEF s
  <2>2. s.last \in 0 .. 255 /\ s.ack \in 0 .. 255 /\ s.cts \in 0 .. 255 /\ s.total \in 0 .. 255
    BY <2>1 DEF SessionRecord
  <2>3. \A x : x \in 0 .. 255 \/ x \in 1 .. 255 => x \in Int
    OBVIOUS
  <2> QED
    BY <2>2, <2>3, Zenon
<1> HIDE DEF s
<1>6. s.ack <= s.last /\ s.last <= s.ack + s.cts /\ s.last <= s.total
  BY <1>4, <1>5, GrantedWithin
<1> QED
  BY <1>6 DEF s

\* What holds of every step as long as the messages of a pair do not overlap.
Inv == TypeOK /\ SendInv /\ OrderInv /\ ExchangeInv

LEMMA InvInit == Init => Inv
<1> SUFFICES ASSUME Init PROVE Inv
  OBVIOUS
<1>1. SendInv
  BY PairType DEF Init, SendInv, HasSession, Carried
<1>2. OrderInv
  BY DEF Init, OrderInv, BuffersOrdered, NoGaps
<1> QED
  BY <1>1, <1>2, TypeInit, ExchangeInit DEF Inv

LEMMA InvStep ==
  ASSUME Foreign = {}
  PROVE  Inv /\ [Next]_vars /\ [Settled]_vars => Inv'
<1> SUFFICES ASSUME Inv, [Next]_vars, [Settled]_vars
             PROVE  Inv'
  OBVIOUS
<1>1. TypeOK' /\ SendInv' /\ OrderInv'
  BY TypeStep, ReportStep, OrderStep DEF Inv
<1>2. Settled
  <2>1. UNCHANGED vars => Settled
    BY DEF vars, Settled
  <2> QED
    BY <2>1
<1>3. ExchangeInv'
  BY <1>2, ExchangeStep DEF Inv
<1> QED
  BY <1>1, <1>3 DEF Inv

\* WithinGrant: send_data_transfer_packets() never runs ahead of the clear to send
\* its partner gave, nor past the end of the message, whatever is lost, refused,
\* late or aborted in between, as long as messages of one pair do not overlap.
THEOREM GrantsKept ==
  ASSUME Foreign = {}
  PROVE  Spec /\ [][Settled]_vars => []WithinGrant
<1>1. Inv /\ [Next]_vars /\ [Settled]_vars => Inv'
  BY InvStep
<1>2. Inv => WithinGrant
  BY ExchangeWithinGrant DEF Inv
<1> QED
  BY <1>1, <1>2, InvInit, PTL DEF Spec

-----------------------------------------------------------------------------
(* The exchanges implement MessageTransfer *)

TransferStep == [Transfer!Next]_(Transfer!vars)

LEMMA TransferInit == Init => Transfer!Init
BY DEF Init, Transfer!Init

LEMMA TransferStutter ==
  ASSUME outcome' = outcome, delivered' = delivered
  PROVE  TransferStep
BY DEF TransferStep, Transfer!vars

\* What a node reports is the end of its own message of the pair.
LEMMA Reported ==
  ASSUME TypeOK, SendInv, NEW n \in Node, NEW k \in Key, NEW result,
         outcome' = Report(n, k, result)
  PROVE  \/ outcome' = outcome
         \/ \E m \in Message :
              /\ k[1] = n /\ sess[n][k] # NoSession /\ sess[n][k].msg = m /\ Pair(m) = k
              /\ outcome[m] = "sending" /\ outcome' = [outcome EXCEPT ![m] = result]
<1>1. CASE ~(k[1] = n /\ sess[n][k] # NoSession)
  BY <1>1 DEF Report
<1>2. CASE k[1] = n /\ sess[n][k] # NoSession
  <2> DEFINE m == sess[n][k].msg
  <2>1. sess[n][k] \in SessionOf(n, k)
    BY <1>2, Existing DEF TypeOK
  <2>2. m \in Message /\ Header[m].src = k[1] /\ Header[m].dst = k[2]
    BY <1>2, <2>1 DEF SessionOf
  <2>3. Pair(m) = k
    BY <2>2, KeyType DEF Pair
  <2>4. outcome' = [outcome EXCEPT ![m] = result]
    BY <1>2 DEF Report
  <2>5. Carried(m, sess)
    BY <1>2, <2>2, <2>3 DEF Carried
  <2> HIDE DEF m
  <2>6. outcome[m] = "sending"
    BY <2>2, <2>5 DEF SendInv, HasSession
  <2> QED
    BY <1>2, <2>2, <2>3, <2>4, <2>6 DEF m
<1> QED
  BY <1>1, <1>2

LEMMA FailedTransfer ==
  ASSUME TypeOK, SendInv, NEW n \in Node, NEW k \in Key,
         outcome' = outcome \/ outcome' = Report(n, k, "failure"), delivered' = delivered
  PROVE  TransferStep
<1>1. \/ outcome' = outcome
      \/ \E m \in Message : outcome[m] = "sending" /\ outcome' = [outcome EXCEPT ![m] = "failure"]
  BY Reported
<1>2. ASSUME NEW m \in Message, outcome[m] = "sending",
             outcome' = [outcome EXCEPT ![m] = "failure"]
      PROVE  TransferStep
  <2>1. Transfer!Fail(m)
    BY <1>2 DEF Transfer!Fail
  <2> QED
    BY <2>1 DEF TransferStep, Transfer!Next
<1> QED
  BY <1>1, <1>2, TransferStutter

\* The receiver confirms what it has given to its application.
LEMMA ConfirmedArrived ==
  ASSUME TypeOK, ExchangeInv, NEW n \in Node, NEW a \in Node, Takes(n, a, "EOMA"),
         NEW m \in Message, sess[n][Pair(m)] # NoSession, sess[n][Pair(m)].msg = m,
         Header[m].src = n, Header[m].dst = a
  PROVE  Arrived(m, a)
<1> DEFINE f == Head(tx[a]).frame
<1>1. PICK k \in Key : k = Pair(m) /\ k[1] = n /\ k[2] = a
  BY PairType
<1>2. /\ n \in Stack /\ n # a /\ Arrives(n, a) /\ f \in FrameOf(a) /\ f.src = a /\ f.type = "EOMA"
  BY TakesFacts
<1>3. 1 \in Places(tx[a]) /\ tx[a][1] = Head(tx[a]) /\ n \in tx[a][1].to
  BY <1>2, FirstPlace DEF TypeOK
<1>4. f.dst # Global
  BY <1>2 DEF Takes, IgnoredManagement
<1>5. f.dst = n
  BY <1>3, <1>4 DEF ExchangeInv, Addressed, Receivers
<1>6. Confirming(k, f)
  BY <1>1, <1>2, <1>5 DEF Confirming
<1>7. PICK o \in Message : Exchange(k, o)
  BY <1>1 DEF ExchangeInv, Sound, Quiet
<1>8. o = m
  BY <1>1, <1>7 DEF Exchange, SendersSession, SenderOf
<1> QED
  BY <1>1, <1>3, <1>6, <1>7, <1>8 DEF Exchange, ReceiversFrames

\* A handler of a received frame is a step of MessageTransfer, or none of it;
LEMMA ReceiveTransfer ==
  ASSUME Inv, TypeOK', NEW n \in Node, NEW a \in Node, Receive(n, a)
  PROVE  TransferStep
<1> DEFINE f == Head(tx[a]).frame
<1>1. TypeOK /\ SendInv /\ OrderInv /\ ExchangeInv
  BY DEF Inv
<1>2. PICK k \in Key : k = <<n, a>> /\ k[1] = n /\ k[2] = a
  <2>1. <<n, a>> \in Key /\ <<n, a>>[1] = n /\ <<n, a>>[2] = a
    BY DEF Key, Destination
  <2> QED
    BY <2>1
<1>3. CASE Ignore(n, a) \/ ReceiveAnnounce(n, a) \/ ReceiveRequestToSend(n, a)
  <2>1. outcome' = outcome /\ delivered' = delivered
    BY <1>3 DEF Ignore, ReceiveAnnounce, ProcessAnnounce, ReceiveRequestToSend,
                ProcessRequestToSend
  <2> QED
    BY <2>1, TransferStutter
<1>4. CASE ReceiveClearToSend(n, a)
  <2>1. f.src = a /\ ProcessClearToSend(n, f)
    BY <1>1, <1>4, TakesFacts DEF ReceiveClearToSend
  <2>2. (outcome' = outcome \/ outcome' = Report(n, k, "failure")) /\ delivered' = delivered
    BY <1>2, <2>1 DEF ProcessClearToSend
  <2> QED
    BY <1>1, <2>2, FailedTransfer
<1>5. CASE ReceiveAbort(n, a)
  <2>1. f.src = a /\ ProcessAbort(n, f)
    BY <1>1, <1>5, TakesFacts DEF ReceiveAbort
  <2>2. (outcome' = outcome \/ outcome' = Report(n, k, "failure")) /\ delivered' = delivered
    BY <1>2, <2>1 DEF ProcessAbort
  <2> QED
    BY <1>1, <2>2, FailedTransfer
<1>6. CASE ReceiveEndOfMessageAck(n, a)
  <2>1. Takes(n, a, "EOMA") /\ f.src = a /\ ProcessEndOfMessageAck(n, f)
    BY <1>1, <1>6, TakesFacts DEF ReceiveEndOfMessageAck
  <2>2. (outcome' = outcome \/ outcome' = Report(n, k, "success")) /\ delivered' = delivered
    BY <1>2, <2>1 DEF ProcessEndOfMessageAck
  <2>3. \/ outcome' = outcome
        \/ \E m \in Message :
             /\ sess[n][k] # NoSession /\ sess[n][k].msg = m /\ Pair(m) = k
             /\ outcome[m] = "sending" /\ outcome' = [outcome EXCEPT ![m] = "success"]
    BY <1>1, <2>2, Reported
  <2>4. ASSUME NEW m \in Message, sess[n][k] # NoSession, sess[n][k].msg = m, Pair(m) = k,
               outcome[m] = "sending", outcome' = [outcome EXCEPT ![m] = "success"]
        PROVE  TransferStep
    <3>1. Header[m].src = n /\ Header[m].dst = a
      BY <1>2, <2>4, PairType
    <3>2. Arrived(m, a)
      BY <1>1, <2>1, <2>4, <3>1, ConfirmedArrived
    <3>3. Transfer!Arrived(m, a) /\ a # Global
      BY <3>2, NodeAssumption DEF Arrived, Transfer!Arrived
    <3>4. Transfer!Succeed(m)
      BY <2>2, <2>4, <3>1, <3>3 DEF Transfer!Succeed
    <3> QED
      BY <3>4 DEF TransferStep, Transfer!Next
  <2> QED
    BY <2>2, <2>3, <2>4, TransferStutter
<1>7. CASE ReceiveDataTransfer(n, a)
  <2>1. outcome' = outcome /\ (delivered' = delivered \/ \E m \in Message : Delivers(m, n))
    BY <1>1, <1>7, DataTransferSound DEF ExchangeInv
  <2>2. ASSUME NEW m \in Message, Delivers(m, n)
        PROVE  TransferStep
    <3>1. n # Header[m].src /\ (Header[m].dst = Global \/ Header[m].dst = n)
      BY <2>2 DEF Delivers
    <3>2. ~Transfer!Arrived(m, n)
      BY <2>2 DEF Delivers, Arrived, Transfer!Arrived
    <3>3. Transfer!Deliver(m, n)
      BY <2>1, <2>2, <3>1, <3>2 DEF Transfer!Deliver, Delivers
    <3> QED
      BY <3>3 DEF TransferStep, Transfer!Next
  <2> QED
    BY <2>1, <2>2, TransferStutter
<1> QED
  BY <1>3, <1>4, <1>5, <1>6, <1>7 DEF Receive

\* so is a step of update(),
LEMMA UpdateTransfer ==
  ASSUME Inv, NEW n \in Node, NEW k \in Key, UpdateSession(n, k)
  PROVE  TransferStep
<1>1. TypeOK /\ SendInv /\ delivered' = delivered
  BY DEF Inv, UpdateSession, CloseUnreachable, OpenConnection, SendClearToSend,
         SendDataTransferPackets, TimeOut
<1>2. CASE CloseUnreachable(n, k) \/ TimeOut(n, k)
  <2>1. outcome' = Report(n, k, "failure")
    BY <1>2 DEF CloseUnreachable, TimeOut, Finish
  <2> QED
    BY <1>1, <2>1, FailedTransfer
<1>3. CASE OpenConnection(n, k) \/ SendClearToSend(n, k)
  <2>1. outcome' = outcome
    BY <1>3 DEF OpenConnection, SendClearToSend, GoOn
  <2> QED
    BY <1>1, <2>1, TransferStutter
<1>4. CASE SendDataTransferPackets(n, k)
  <2>1. \/ outcome' = outcome
        \/ IsBroadcast(k) /\ outcome' = Report(n, k, "success")
    BY <1>4 DEF SendDataTransferPackets, Finish, GoOn
  <2>2. \/ outcome' = outcome
        \/ \E m \in Message : /\ Pair(m) = k /\ IsBroadcast(k) /\ outcome[m] = "sending"
                              /\ outcome' = [outcome EXCEPT ![m] = "success"]
    BY <1>1, <2>1, Reported
  <2>3. ASSUME NEW m \in Message, Pair(m) = k, IsBroadcast(k), outcome[m] = "sending",
               outcome' = [outcome EXCEPT ![m] = "success"]
        PROVE  TransferStep
    <3>1. Header[m].dst = Global
      BY <2>3, PairType DEF IsBroadcast
    <3>2. Transfer!Succeed(m)
      BY <1>1, <2>3, <3>1 DEF Transfer!Succeed
    <3> QED
      BY <3>2 DEF TransferStep, Transfer!Next
  <2> QED
    BY <1>1, <2>2, <2>3, TransferStutter
<1> QED
  BY <1>2, <1>3, <1>4 DEF UpdateSession

\* and every other step.
LEMMA StepTransfer == Inv /\ [Next]_vars => TransferStep
<1> SUFFICES ASSUME Inv, [Next]_vars
             PROVE  TransferStep
  OBVIOUS
<1>1. TypeOK'
  BY TypeStep DEF Inv
<1>2. CASE UNCHANGED vars
  BY <1>2, TransferStutter DEF vars
<1>3. ASSUME NEW m \in Message, Submit(m)
      PROVE  TransferStep
  <2>1. Transfer!Accept(m)
    BY <1>3 DEF Submit, Transfer!Accept
  <2> QED
    BY <2>1 DEF TransferStep, Transfer!Next
<1>4. CASE Environment
  <2>1. outcome' = outcome /\ delivered' = delivered
    BY <1>4 DEF Environment, Tick, Lose, SendOther, LoseAddress, RegainAddress, ForeignSend
  <2> QED
    BY <2>1, TransferStutter
<1>5. Stack \subseteq Node
  BY DEF Stack
<1> QED
  BY <1>1, <1>2, <1>3, <1>4, <1>5, ReceiveTransfer, UpdateTransfer DEF Next

\* TransferSafety: canMessageReceivedCallback gets whole messages, each at most
\* once, the transmit complete callback tells the end of a message once, and it
\* tells a success only after the receiver's application got the message, as long
\* as messages of one pair do not overlap.
THEOREM TransferKept ==
  ASSUME Foreign = {}
  PROVE  Spec /\ [][Settled]_vars => TransferSafety
<1>1. Inv /\ [Next]_vars /\ [Settled]_vars => Inv'
  BY InvStep
<1>2. Inv /\ [Next]_vars => TransferStep
  BY StepTransfer
<1>3. TransferSafety <=> (Transfer!Init /\ [][Transfer!Next]_(Transfer!vars))
  BY DEF TransferSafety, Transfer!Safety
<1>4. Inv /\ [Next]_vars => [Transfer!Next]_(Transfer!vars)
  BY <1>2 DEF TransferStep
<1> QED
  BY <1>1, <1>3, <1>4, InvInit, TransferInit, PTL DEF Spec

-----------------------------------------------------------------------------
(* One message for each pair *)

\* No two messages have the same source and destination.
OneForEach == \A m, o \in Message : Pair(m) = Pair(o) => m = o

LEMMA OneForEachSettled ==
  ASSUME OneForEach
  PROVE  ExchangeInv => Settled
<1> SUFFICES ASSUME ExchangeInv, NEW m \in Message, outcome[m] = "idle"
             PROVE  Quiet(Pair(m))
  BY DEF Settled
<1>1. Sound(Pair(m))
  BY PairType DEF ExchangeInv
<1>2. ASSUME NEW o \in Message, Exchange(Pair(m), o)
      PROVE  FALSE
  BY <1>2 DEF Exchange, OneForEach
<1> QED
  BY <1>1, <1>2 DEF Sound

\* WithinGrant and TransferSafety: where no pair sends a second message nothing
\* can overlap, and both hold without a condition on when the applications call
\* send_can_message().
THEOREM OneForEachKept ==
  ASSUME Foreign = {}, OneForEach
  PROVE  Spec => []WithinGrant /\ TransferSafety
<1>1. Inv /\ [Next]_vars => Inv'
  <2>1. Inv => Settled
    BY OneForEachSettled DEF Inv
  <2> QED
    BY <2>1, InvStep
<1>2. Inv /\ [Next]_vars => [Transfer!Next]_(Transfer!vars)
  BY StepTransfer DEF TransferStep
<1>3. TransferSafety <=> (Transfer!Init /\ [][Transfer!Next]_(Transfer!vars))
  BY DEF TransferSafety, Transfer!Safety
<1>4. Inv => WithinGrant
  BY ExchangeWithinGrant DEF Inv
<1> QED
  BY <1>1, <1>2, <1>3, <1>4, InvInit, TransferInit, PTL DEF Spec
===============================================================================
