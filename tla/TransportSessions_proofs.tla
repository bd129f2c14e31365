---------------------- MODULE TransportSessions_proofs ------------------------
(* The two ends of TransportProtocol: sessions and reports of the sender, the *)
(* buffers of the receiver                                                    *)
EXTENDS TransportProtocol_proofs, FiniteSetTheorems

-----------------------------------------------------------------------------
(* The sending side *)

Pair(m) == <<Header[m].src, Header[m].dst>>
Carried(m, se) ==
  se[Header[m].src][Pair(m)] # NoSession /\ se[Header[m].src][Pair(m)].msg = m
HasSession(o, se) == \A m \in Message : o[m] = "sending" <=> Carried(m, se)

SendInv == HasSession(outcome, sess)

-----------------------------------------------------------------------------
(* Storing and closing sessions *)

LEMMA PairType ==
  ASSUME NEW m \in Message
  PROVE  /\ Header[m].src \in Node /\ Pair(m) \in Key
         /\ Pair(m)[1] = Header[m].src /\ Pair(m)[2] = Header[m].dst
BY TransmitType DEF Pair

\* A session that goes on keeps its message.
LEMMA StoreKeeps ==
  ASSUME TypeOK, SendInv, NEW n \in Node, NEW k \in Key, NEW s,
         k[1] = n => s # NoSession /\ sess[n][k] # NoSession /\ s.msg = sess[n][k].msg,
         sess' = Store(n, k, s), outcome' = outcome
  PROVE  SendInv'
<1>1. ASSUME NEW m \in Message
      PROVE  Carried(m, sess') <=> Carried(m, sess)
  <2>1. CASE Header[m].src = n /\ Pair(m) = k
    <3>1. k[1] = n
      BY <2>1, PairType
    <3>2. sess'[n][k] = s
      BY DEF TypeOK, SessionsOK, Store
    <3> QED
      BY <2>1, <3>1, <3>2 DEF Carried
  <2>2. CASE ~(Header[m].src = n /\ Pair(m) = k)
    <3>1. sess'[Header[m].src][Pair(m)] = sess[Header[m].src][Pair(m)]
      BY <2>2, PairType DEF TypeOK, SessionsOK, Store
    <3> QED
      BY <3>1 DEF Carried
  <2> QED
    BY <2>1, <2>2
<1> QED
  BY <1>1 DEF SendInv, HasSession

\* Of the sessions a node closes at once one at most is its own, and the
\* application hears of that one.
LEMMA CloseReports ==
  ASSUME TypeOK, SendInv, NEW n \in Node, NEW k \in Key, NEW K, NEW result \in {"success", "failure"},
         \A q \in Key : q \in K /\ q[1] = n => q = k,
         sess' = Close(n, K),
         outcome' = IF k \in K THEN Report(n, k, result) ELSE outcome
  PROVE  SendInv'
<1> SUFFICES ASSUME NEW m \in Message
             PROVE  outcome'[m] = "sending" <=> Carried(m, sess')
  BY DEF SendInv, HasSession
<1> DEFINE src == Header[m].src
<1>1. outcome[m] = "sending" <=> Carried(m, sess)
  BY DEF SendInv, HasSession
<1>2. src \in Node /\ Pair(m) \in Key /\ Pair(m)[1] = src
  BY PairType
<1>3. CASE src = n /\ Pair(m) \in K
  <2>1. Pair(m) = k /\ k \in K /\ k[1] = n
    BY <1>2, <1>3
  <2>2. ~Carried(m, sess')
    BY <1>2, <1>3 DEF Carried, TypeOK, SessionsOK, Close
  <2>3. outcome' = Report(n, k, result)
    BY <2>1
  <2>4. CASE Carried(m, sess)
    <3>1. sess[n][k] # NoSession /\ sess[n][k].msg = m
      BY <1>3, <2>1, <2>4 DEF Carried
    <3>2. outcome'[m] = result
      BY <2>1, <2>3, <3>1 DEF Report, TypeOK, OutcomesOK
    <3> QED
      BY <2>2, <3>2
  <2>5. CASE ~Carried(m, sess)
    <3>1. outcome[m] # "sending"
      BY <1>1, <2>5
    <3>2. outcome'[m] \in {outcome[m], result}
      BY <2>3 DEF Report, TypeOK, OutcomesOK
    <3> QED
      BY <2>2, <3>1, <3>2
  <2> QED
    BY <2>4, <2>5
<1>4. CASE ~(src = n /\ Pair(m) \in K)
  <2>1. sess'[src][Pair(m)] = sess[src][Pair(m)]
    BY <1>2, <1>4 DEF TypeOK, SessionsOK, Close
  <2>2. Carried(m, sess') <=> Carried(m, sess)
    BY <2>1 DEF Carried
  <2>3. outcome'[m] = outcome[m]
    <3>1. CASE k \in K /\ k[1] = n /\ sess[n][k] # NoSession
      <4>1. sess[n][k] \in SessionOf(n, k)
        BY <3>1, Existing DEF TypeOK
      <4>2. /\ sess[n][k].msg \in Message
            /\ Header[sess[n][k].msg].src = n /\ Header[sess[n][k].msg].dst = k[2]
        BY <3>1, <4>1 DEF SessionOf
      <4>3. Pair(sess[n][k].msg) = k
        BY <3>1, <4>2, KeyType DEF Pair
      <4>4. sess[n][k].msg # m
        BY <1>4, <3>1, <4>2, <4>3
      <4> QED
        BY <3>1, <4>2, <4>4 DEF Report, TypeOK, OutcomesOK
    <3>2. CASE ~(k \in K /\ k[1] = n /\ sess[n][k] # NoSession)
      BY <3>2 DEF Report
    <3> QED
      BY <3>1, <3>2
  <2> QED
    BY <1>1, <2>2, <2>3
<1> QED
  BY <1>3, <1>4

-----------------------------------------------------------------------------
(* The steps *)

\* A handler of the receiving side touches no session of its own node.
LEMMA ReceiverKeeps ==
  ASSUME TypeOK, SendInv, NEW n \in Node, NEW k \in Key, k[1] # n, outcome' = outcome,
         \/ sess' = sess \/ sess' = Close(n, {k})
         \/ \E s : sess' = Store(n, k, s)
  PROVE  SendInv'
<1>1. CASE sess' = sess
  BY <1>1 DEF SendInv
<1>2. CASE sess' = Close(n, {k})
  <2>1. Report(n, k, "failure") = outcome
    BY DEF Report
  <2> QED
    BY <1>2, <2>1, CloseReports
<1>3. CASE \E s : sess' = Store(n, k, s)
  BY <1>3, StoreKeeps
<1> QED
  BY <1>1, <1>2, <1>3

\* A session is a value of its own.
LEMMA SessionExists ==
  ASSUME NEW s \in Session
  PROVE  s # NoSession
BY FrameAssumption

LEMMA StateExists ==
  ASSUME NEW n \in Node, NEW k \in Key, NEW s \in SessionOf(n, k), NEW state \in TxState
  PROVE  InState(s, state) # NoSession /\ InState(s, state).msg = s.msg
<1>1. s \in Session /\ s \in SessionRecord
  BY DEF SessionOf, Session
<1>2. InState(s, state) \in Session
  BY <1>1, StateType
<1>3. InState(s, state).msg = s.msg
  BY <1>1 DEF InState, SessionRecord
<1> QED
  BY <1>2, <1>3, SessionExists

LEMMA ReceiverSteps ==
  ASSUME TypeOK, SendInv, NEW n \in Node, NEW a \in Node,
         \/ ReceiveAnnounce(n, a) \/ ReceiveRequestToSend(n, a) \/ ReceiveDataTransfer(n, a)
  PROVE  SendInv'
<1> DEFINE f == Head(tx[a]).frame
<1>1. n # a /\ f.src = a /\ f.dst \in Destination
  BY TakesFacts, FrameFields DEF ReceiveAnnounce, ReceiveRequestToSend, ReceiveDataTransfer
<1>2. PICK k \in Key : /\ k[1] # n
                       /\ \/ sess' = sess \/ sess' = Close(n, {k})
                          \/ \E s : sess' = Store(n, k, s)
  <2>1. CASE ReceiveAnnounce(n, a)
    <3>1. <<a, Global>> \in Key /\ <<a, Global>>[1] # n
      BY <1>1 DEF Key, Destination
    <3> QED
      BY <1>1, <2>1, <3>1 DEF ReceiveAnnounce, ProcessAnnounce
  <2>2. CASE ReceiveRequestToSend(n, a)
    <3>1. <<a, n>> \in Key /\ <<a, n>>[1] # n
      BY <1>1 DEF Key, Destination
    <3> QED
      BY <1>1, <2>2, <3>1 DEF ReceiveRequestToSend, ProcessRequestToSend
  <2>3. CASE ReceiveDataTransfer(n, a)
    <3>1. <<a, f.dst>> \in Key /\ <<a, f.dst>>[1] # n
      BY <1>1 DEF Key
    <3> QED
      BY <1>1, <2>3, <3>1 DEF ReceiveDataTransfer, ProcessDataTransfer, TakePacket
  <2> QED
    BY <2>1, <2>2, <2>3
<1>3. outcome' = outcome
  BY DEF ReceiveAnnounce, ProcessAnnounce, ReceiveRequestToSend, ProcessRequestToSend,
         ReceiveDataTransfer, ProcessDataTransfer
<1> QED
  BY <1>2, <1>3, ReceiverKeeps

LEMMA ClearToSendReport ==
  ASSUME TypeOK, SendInv, NEW n \in Node, NEW a \in Node, ReceiveClearToSend(n, a)
  PROVE  SendInv'
<1> DEFINE f == Head(tx[a]).frame
           k == <<n, a>>
           s == sess[n][k]
           granted == [s EXCEPT !.ack = (f.next - 1) % 256, !.cts = f.count, !.age = 0]
<1>1. ProcessClearToSend(n, f) /\ Takes(n, a, "CTS")
  BY DEF ReceiveClearToSend
<1>2. f.src = a /\ f \in FrameOf(a) /\ f.type = "CTS"
  BY <1>1, TakesFacts
<1>3. k \in Key /\ k[1] = n
  BY DEF Key, Destination
<1>4. \/ UNCHANGED <<sess, outcome>>
      \/ sess' = Close(n, {k}) /\ outcome' = Report(n, k, "failure")
      \/ /\ s # NoSession /\ outcome' = outcome
         /\ sess' = Store(n, k, InState(granted, "SendDataTransferPackets"))
      \/ /\ s # NoSession /\ outcome' = outcome
         /\ sess' = Store(n, k, granted)
  BY <1>1, <1>2 DEF ProcessClearToSend
<1>5. ASSUME s # NoSession
      PROVE  /\ granted # NoSession /\ granted.msg = s.msg
             /\ InState(granted, "SendDataTransferPackets") # NoSession
             /\ InState(granted, "SendDataTransferPackets").msg = s.msg
  <2>1. s \in SessionOf(n, k)
    BY <1>3, <1>5, Existing DEF TypeOK
  <2>2. f.count \in Byte /\ (f.next - 1) % 256 \in Byte
    <3>1. f.count \in Byte /\ f.next \in Byte
      BY <1>2, FrameFields
    <3> HIDE DEF f
    <3> QED
      BY <3>1, ByteBefore
  <2>3. "SendDataTransferPackets" \in TxState
    BY DEF TxState
  <2> HIDE DEF f, k, s
  <2>4. granted \in SessionOf(n, k)
    BY <1>3, <2>1, <2>2, SessionGrant
  <2>5. granted.msg = s.msg
    <3>1. s \in SessionRecord
      BY <2>1 DEF SessionOf, Session
    <3> QED
      BY <3>1 DEF SessionRecord
  <2>6. granted # NoSession
    BY <1>3, <2>4, SessionFacts, SessionExists
  <2> HIDE DEF granted
  <2> QED
    BY <1>3, <2>3, <2>4, <2>5, <2>6, StateExists
<1> HIDE DEF k, granted, f
<1> QED
  <2>1. ASSUME sess' = Close(n, {k}), outcome' = Report(n, k, "failure")
        PROVE  SendInv'
    BY <1>3, <2>1, CloseReports
  <2> QED
    BY <1>3, <1>4, <1>5, <2>1, StoreKeeps DEF SendInv

LEMMA ReceiveReport ==
  ASSUME TypeOK, SendInv, NEW n \in Node, NEW a \in Node, Receive(n, a)
  PROVE  SendInv'
<1> DEFINE f == Head(tx[a]).frame
           k == <<n, a>>
<1>1. k \in Key /\ k[1] = n
  BY DEF Key, Destination
<1>2. ASSUME Ignore(n, a)
      PROVE  SendInv'
  BY <1>2 DEF Ignore, SendInv
<1>3. ASSUME ReceiveEndOfMessageAck(n, a)
      PROVE  SendInv'
  <2>1. Takes(n, a, "EOMA") /\ ProcessEndOfMessageAck(n, f)
    BY <1>3 DEF ReceiveEndOfMessageAck
  <2>2. f.src = a
    BY <2>1, TakesFacts
  <2>3. \/ UNCHANGED <<sess, outcome>>
        \/ sess' = Close(n, {k}) /\ outcome' = Report(n, k, "success")
    BY <2>1, <2>2 DEF ProcessEndOfMessageAck
  <2>4. ASSUME sess' = Close(n, {k}), outcome' = Report(n, k, "success")
        PROVE  SendInv'
    BY <1>1, <2>4, CloseReports
  <2> QED
    BY <2>3, <2>4 DEF SendInv
<1>4. ASSUME ReceiveAbort(n, a)
      PROVE  SendInv'
  <2> DEFINE Hit == {q \in {<<a, n>>, k} : sess[n][q] # NoSession /\ sess[n][q].pgn = f.pgn}
  <2>1. Takes(n, a, "Abort") /\ ProcessAbort(n, f)
    BY <1>4 DEF ReceiveAbort
  <2>2. f.src = a /\ n # a
    BY <2>1, TakesFacts
  <2>3. /\ sess' = Close(n, Hit)
        /\ outcome' = IF k \in Hit THEN Report(n, k, "failure") ELSE outcome
    BY <2>1, <2>2 DEF ProcessAbort
  <2>4. \A q \in Key : q \in Hit /\ q[1] = n => q = k
    BY <2>2
  <2> HIDE DEF Hit, k
  <2> QED
    BY <1>1, <2>3, <2>4, CloseReports
<1> QED
  BY <1>2, <1>3, <1>4, ReceiverSteps, ClearToSendReport DEF Receive

LEMMA UpdateReport ==
  ASSUME TypeOK, SendInv, NEW n \in Node, NEW k \in Key, UpdateSession(n, k)
  PROVE  SendInv'
<1> DEFINE s == sess[n][k]
<1>1. s # NoSession /\ s \in SessionOf(n, k)
  BY Existing DEF UpdateSession, CloseUnreachable, OpenConnection, SendClearToSend,
                  SendDataTransferPackets, TimeOut, Updates, TypeOK
<1>2. ASSUME NEW result \in {"success", "failure"}, NEW frames, Finish(n, k, result, frames)
      PROVE  SendInv'
  <2>1. sess' = Close(n, {k}) /\ outcome' = Report(n, k, result)
    BY <1>2 DEF Finish
  <2> QED
    BY <2>1, CloseReports
<1>3. ASSUME NEW t, NEW frames, GoOn(n, k, t, frames),
             k[1] = n => t # NoSession /\ t.msg = s.msg
      PROVE  SendInv'
  <2>1. sess' = Store(n, k, t) /\ outcome' = outcome
    BY <1>3 DEF GoOn
  <2> QED
    BY <1>1, <1>3, <2>1, StoreKeeps
<1>4. ASSUME CloseUnreachable(n, k) \/ TimeOut(n, k)
      PROVE  SendInv'
  BY <1>2, <1>4 DEF CloseUnreachable, TimeOut
<1>5. ASSUME SendClearToSend(n, k)
      PROVE  SendInv'
  <2>1. k[1] # n
    BY <1>1, <1>5, SessionFacts DEF SendClearToSend, Updates, RxState
  <2> QED
    BY <1>3, <1>5, <2>1 DEF SendClearToSend
<1>6. ASSUME OpenConnection(n, k)
      PROVE  SendInv'
  <2>1. k[1] = n
    BY <1>1, <1>6, SessionFacts DEF OpenConnection, Updates, TxState
  <2>3. Opened(k, s) # NoSession /\ Opened(k, s).msg = s.msg
    BY <1>1, StateExists DEF Opened, TxState
  <2>4. GoOn(n, k, Opened(k, s), <<OpenFrame(k, s)>>)
    BY <1>6 DEF OpenConnection
  <2> HIDE DEF s
  <2> QED
    BY <1>3, <2>3, <2>4
<1>7. ASSUME SendDataTransferPackets(n, k)
      PROVE  SendInv'
  <2> DEFINE count == BurstLength(n, k, s)
             burst == [i \in 1 .. count |-> DataFrame(k, s, (s.last + i - 1) % 256)]
             after == IF count = 0 THEN s
                      ELSE [s EXCEPT !.last = (s.last + count) % 256, !.age = 0]
  <2>1. k[1] = n
    BY <1>1, <1>7, SessionFacts DEF SendDataTransferPackets, Updates, TxState
  <2>2. after \in SessionOf(n, k) /\ after.msg = s.msg
    <3>1. CASE count = 0
      BY <1>1, <3>1
    <3>2. CASE count # 0
      <4>1. (s.last + count) % 256 \in Byte
        BY <1>1, <2>1, BurstCount
      <4> HIDE DEF s, count
      <4>2. after = [s EXCEPT !.last = (s.last + count) % 256, !.age = 0]
        BY <3>2
      <4>3. after \in SessionOf(n, k)
        BY <1>1, <4>1, <4>2, SessionLast
      <4>4. s \in SessionRecord
        BY <1>1 DEF SessionOf, Session
      <4>5. after.msg = s.msg
        BY <4>2, <4>4 DEF SessionRecord
      <4> QED
        BY <4>3, <4>5
    <3> QED
      BY <3>1, <3>2
  <2>3. \/ Finish(n, k, "success", burst)
        \/ GoOn(n, k, InState(after, "WaitForEndOfMessageAcknowledge"), burst)
        \/ GoOn(n, k, InState(after, "WaitForClearToSend"), burst)
        \/ GoOn(n, k, after, burst)
    BY <1>7 DEF SendDataTransferPackets
  <2> HIDE DEF after, burst
  <2>5. \A state \in {"WaitForEndOfMessageAcknowledge", "WaitForClearToSend"} :
           InState(after, state) # NoSession /\ InState(after, state).msg = s.msg
    BY <2>2, StateExists DEF TxState
  <2>6. after # NoSession
    BY <2>2, SessionFacts, SessionExists
  <2> QED
    BY <1>2, <1>3, <2>2, <2>3, <2>5, <2>6
<1> QED
  BY <1>4, <1>5, <1>6, <1>7 DEF UpdateSession

LEMMA TickReport ==
  ASSUME TypeOK, SendInv, Tick
  PROVE  SendInv'
<1>1. ASSUME NEW m \in Message
      PROVE  Carried(m, sess') <=> Carried(m, sess)
  <2> DEFINE n == Header[m].src
             k == Pair(m)
  <2>1. n \in Node /\ k \in Key
    BY PairType
  <2> HIDE DEF n, k
  <2>2. CASE sess[n][k] = NoSession
    <3>1. sess'[n][k] = NoSession
      BY <2>1, <2>2 DEF Tick
    <3> QED
      BY <2>2, <3>1 DEF Carried, n, k
  <2>3. CASE sess[n][k] # NoSession
    <3>1. sess'[n][k] = [sess[n][k] EXCEPT !.age = Least(@ + 1, T2T3 + 1)]
      BY <2>1, <2>3 DEF Tick
    <3>2. sess[n][k] \in SessionRecord
      BY <2>1, <2>3, Existing DEF TypeOK, SessionOf, Session
    <3>3. sess'[n][k].msg = sess[n][k].msg
      BY <3>1, <3>2 DEF SessionRecord
    <3>4. sess'[n][k] # NoSession
      <4>1. sess'[n][k] \in SessionOf(n, k)
        BY <2>1, <2>3, AgedExists
      <4> QED
        BY <2>1, <4>1, SessionFacts, SessionExists
    <3> QED
      BY <2>3, <3>3, <3>4 DEF Carried, n, k
  <2> QED
    BY <2>2, <2>3
<1>2. outcome' = outcome
  BY DEF Tick
<1> QED
  BY <1>1, <1>2 DEF SendInv, HasSession

LEMMA SubmitReport ==
  ASSUME TypeOK, SendInv, NEW m \in Message, Submit(m)
  PROVE  SendInv'
<1> DEFINE n == Header[m].src
           k == Pair(m)
<1>1. n \in Node /\ k \in Key /\ k[1] = n
  BY PairType
<1>2. TransmitSession(m) \in SessionOf(n, k) /\ TransmitSession(m).msg = m
  BY TransmitType DEF Pair
<1>3. PICK s : s # NoSession /\ s.msg = m /\ sess' = Store(n, k, s)
  <2> DEFINE s == TransmitSession(m)
  <2>1. s # NoSession
    BY <1>1, <1>2, SessionFacts, SessionExists
  <2>2. Opened(k, s) # NoSession /\ Opened(k, s).msg = m
    <3>1. s \in SessionOf(n, k) /\ s.msg = m
      BY <1>2
    <3> HIDE DEF s, k, n
    <3> QED
      BY <1>1, <3>1, StateExists DEF Opened, TxState
  <2>3. sess' = Store(n, k, Opened(k, s)) \/ sess' = Store(n, k, s)
    BY DEF Submit, Pair
  <2> HIDE DEF s
  <2> QED
    BY <1>2, <2>1, <2>2, <2>3 DEF s
<1>4. outcome' = [outcome EXCEPT ![m] = "sending"] /\ sess[n][k] = NoSession
  BY DEF Submit, Pair
<1>5. ASSUME NEW q \in Message
      PROVE  outcome'[q] = "sending" <=> Carried(q, sess')
  <2>1. outcome[q] = "sending" <=> Carried(q, sess)
    BY DEF SendInv, HasSession
  <2>2. Header[q].src \in Node /\ Pair(q) \in Key /\ Pair(q)[1] = Header[q].src
    BY PairType
  <2>3. CASE q = m
    <3>1. outcome'[q] = "sending"
      BY <1>4, <2>3 DEF TypeOK, OutcomesOK
    <3>2. sess'[n][k] = s
      BY <1>1, <1>3 DEF TypeOK, SessionsOK, Store
    <3> QED
      BY <1>3, <2>3, <3>1, <3>2 DEF Carried
  <2>4. CASE q # m /\ Pair(q) = k
    <3>1. outcome'[q] = outcome[q]
      BY <1>4, <2>4 DEF TypeOK, OutcomesOK
    <3>2. Header[q].src = n
      BY <1>1, <2>2, <2>4
    <3>3. ~Carried(q, sess)
      BY <1>4, <2>4, <3>2 DEF Carried
    <3>4. sess'[n][k] = s
      BY <1>1, <1>3 DEF TypeOK, SessionsOK, Store
    <3>5. ~Carried(q, sess')
      BY <1>3, <2>4, <3>2, <3>4 DEF Carried
    <3> QED
      BY <2>1, <3>1, <3>3, <3>5
  <2>5. CASE q # m /\ Pair(q) # k
    <3>1. outcome'[q] = outcome[q]
      BY <1>4, <2>5 DEF TypeOK, OutcomesOK
    <3> HIDE DEF n, k
    <3>2. sess'[Header[q].src][Pair(q)] = sess[Header[q].src][Pair(q)]
      BY <1>1, <1>3, <2>2, <2>5 DEF TypeOK, SessionsOK, Store
    <3> QED
      BY <2>1, <3>1, <3>2 DEF Carried
  <2> QED
    BY <2>3, <2>4, <2>5
<1> QED
  BY <1>5 DEF SendInv, HasSession

LEMMA ReportStep == TypeOK /\ SendInv /\ [Next]_vars => SendInv'
<1> SUFFICES ASSUME TypeOK, SendInv, [Next]_vars PROVE SendInv'
  OBVIOUS
<1>1. CASE UNCHANGED vars
  BY <1>1 DEF vars, SendInv
<1>2. CASE Next
  <2>1. ASSUME Environment, ~Tick
        PROVE  SendInv'
    BY <2>1 DEF Environment, Lose, SendOther, LoseAddress, RegainAddress, ForeignSend, SendInv
  <2>2. Stack \subseteq Node
    BY DEF Stack
  <2> QED
    BY <1>2, <2>1, <2>2, TickReport, SubmitReport, ReceiveReport, UpdateReport DEF Next
<1> QED
  BY <1>1, <1>2

\* For every message an application hands over: as long as it was told neither
\* success nor failure there is a session that carries it, and no session
\* carries a message the application was told the end of.
THEOREM SendersHaveSessions == Spec => []SendingHasSession
<1>1. Init => SendInv
  <2> SUFFICES ASSUME Init PROVE SendInv
    OBVIOUS
  <2> QED
    BY PairType DEF Init, SendInv, HasSession, Carried
<1>2. SendInv => SendingHasSession
  BY DEF SendInv, HasSession, Carried, Pair, SendingHasSession
<1> QED
  BY <1>1, <1>2, TypeCorrect, ReportStep, PTL DEF Spec

-----------------------------------------------------------------------------
(* The receiving side: the buffer of a receive session *)

USE DEF Byte, MAX_PACKETS

OrderedBuffer(s) ==
  /\ s.last < s.total \/ s.total = 0
  /\ \A i \in 1 .. Len(s.data) : (s.data[i] = Blank) = (i > s.last)

BuffersOrdered(se) ==
  \A n \in Node, k \in Key : se[n][k] # NoSession /\ k[1] # n => OrderedBuffer(se[n][k])

NoGap(d) == \A j \in 1 .. Len(d.data) : (d.data[j] = Blank) = (j > Len(d.data) % 256)
NoGaps(de) == \A n \in Node : \A i \in 1 .. Len(de[n]) : NoGap(de[n][i])

OrderInv == BuffersOrdered(sess) /\ NoGaps(delivered)

-----------------------------------------------------------------------------
(* Storing and closing sessions *)

LEMMA StoreOrdered ==
  ASSUME SessionsOK(sess), BuffersOrdered(sess), NEW n \in Node, NEW k \in Key, NEW s,
         k[1] # n => OrderedBuffer(s)
  PROVE  BuffersOrdered(Store(n, k, s))
<1>1. ASSUME NEW p \in Node, NEW q \in Key, Store(n, k, s)[p][q] # NoSession, q[1] # p
      PROVE  OrderedBuffer(Store(n, k, s)[p][q])
  <2>1. CASE p = n /\ q = k
    <3>1. Store(n, k, s)[p][q] = s
      BY <2>1 DEF SessionsOK, Store
    <3> QED
      BY <1>1, <2>1, <3>1
  <2>2. CASE ~(p = n /\ q = k)
    <3>1. Store(n, k, s)[p][q] = sess[p][q]
      BY <2>2 DEF SessionsOK, Store
    <3> QED
      BY <1>1, <3>1 DEF BuffersOrdered
  <2> QED
    BY <2>1, <2>2
<1> QED
  BY <1>1 DEF BuffersOrdered

LEMMA CloseOrdered ==
  ASSUME SessionsOK(sess), BuffersOrdered(sess), NEW n \in Node, NEW K
  PROVE  BuffersOrdered(Close(n, K))
<1>1. ASSUME NEW p \in Node, NEW q \in Key, Close(n, K)[p][q] # NoSession
      PROVE  Close(n, K)[p][q] = sess[p][q]
  BY <1>1 DEF SessionsOK, Close
<1> QED
  BY <1>1 DEF BuffersOrdered

\* Only the packet count, the packets and the last packet matter.
LEMMA SameBuffer ==
  ASSUME NEW s, NEW t, OrderedBuffer(s), t.data = s.data, t.last = s.last, t.total = s.total
  PROVE  OrderedBuffer(t)
BY DEF OrderedBuffer

LEMMA UpdatesKeepBuffer ==
  ASSUME NEW n \in Node, NEW k \in Key, NEW s \in SessionOf(n, k), OrderedBuffer(s), NEW state
  PROVE  OrderedBuffer(Cleared(s)) /\ OrderedBuffer(InState(s, state))
<1>1. s \in SessionRecord
  BY DEF SessionOf, Session
<1>2. /\ Cleared(s).data = s.data /\ Cleared(s).last = s.last /\ Cleared(s).total = s.total
      /\ InState(s, state).data = s.data /\ InState(s, state).last = s.last
      /\ InState(s, state).total = s.total
  BY <1>1 DEF Cleared, InState, SessionRecord
<1> QED
  BY <1>2, SameBuffer

\* A new receive session has an empty buffer.
LEMMA NewBuffer ==
  ASSUME NEW n \in Stack, NEW k \in Key, k[1] # n, NEW f, f.pgn \in PGN, f.size \in Word,
         NEW limit \in Byte, NEW state \in RxState, k[2] \in {n, Global},
         state = "SendClearToSend" => k[2] = n
  PROVE  OrderedBuffer(ReceiveSession(f, limit, state))
<1>1. PICK s : s = ReceiveSession(f, limit, state)
  OBVIOUS
<1>2. /\ s.data = [i \in 1 .. Slots(f.size) |-> Blank] /\ s.last = 0
      /\ s.total = PacketCount(f.size)
  BY <1>1 DEF ReceiveSession, NewSession
<1>3. OrderedBuffer(s)
  <2>1. PICK total \in Byte, slots \in Nat : total = PacketCount(f.size) /\ slots = Slots(f.size)
    BY SizeType
  <2>2. s.data = [i \in 1 .. slots |-> Blank] /\ s.last = 0 /\ s.total = total
    BY <1>2, <2>1
  <2>3. Len(s.data) = slots
    BY <2>2
  <2> QED
    BY <2>2, <2>3 DEF OrderedBuffer
<1> QED
  BY <1>1, <1>3

-----------------------------------------------------------------------------
(* The steps *)

LEMMA AnnounceOrder ==
  ASSUME TypeOK, OrderInv, NEW n \in Node, NEW a \in Node, ReceiveAnnounce(n, a)
  PROVE  OrderInv'
<1> DEFINE f == Head(tx[a]).frame
           k == <<a, Global>>
           new == ReceiveSession(f, 255, "WaitForDataTransferPacket")
<1>1. ProcessAnnounce(n, f) /\ Takes(n, a, "BAM")
  BY DEF ReceiveAnnounce
<1>2. n \in Stack /\ n # a /\ f \in FrameOf(a) /\ f.src = a /\ f.type = "BAM"
  BY <1>1, TakesFacts
<1>3. k \in Key /\ k[1] = a /\ k[2] = Global
  BY DEF Key, Destination
<1>4. OrderedBuffer(new)
  <2>1. f.pgn \in PGN /\ f.size \in Word
    BY <1>2, FrameFields
  <2>2. 255 \in Byte /\ "WaitForDataTransferPacket" \in RxState
    BY DEF RxState
  <2> HIDE DEF f, k
  <2> QED
    BY <1>2, <1>3, <2>1, <2>2, NewBuffer
<1>5. sess' = sess \/ sess' = Close(n, {k}) \/ sess' = Store(n, k, new)
  BY <1>1, <1>2 DEF ProcessAnnounce
<1>6. BuffersOrdered(sess')
  <2> HIDE DEF k, new
  <2> QED
    BY <1>3, <1>4, <1>5, StoreOrdered, CloseOrdered DEF TypeOK, OrderInv
<1> QED
  BY <1>1, <1>6 DEF ProcessAnnounce, OrderInv

LEMMA RequestOrder ==
  ASSUME TypeOK, OrderInv, NEW n \in Node, NEW a \in Node, ReceiveRequestToSend(n, a)
  PROVE  OrderInv'
<1> DEFINE f == Head(tx[a]).frame
           k == <<a, n>>
           new == ReceiveSession(f, Least(f.max, PacketsPerCts), "SendClearToSend")
           asked == InState(Cleared(new), "WaitForDataTransferPacket")
<1>1. ProcessRequestToSend(n, f) /\ Takes(n, a, "RTS")
  BY DEF ReceiveRequestToSend
<1>2. n \in Stack /\ n # a /\ f \in FrameOf(a) /\ f.src = a /\ f.type = "RTS"
  BY <1>1, TakesFacts
<1>3. k \in Key /\ k[1] = a /\ k[2] = n
  BY DEF Key, Destination
<1>4. new \in SessionOf(n, k) /\ OrderedBuffer(new)
  <2>1. f.pgn \in PGN /\ f.size \in Word /\ f.max \in Byte
    BY <1>2, FrameFields
  <2>2. Least(f.max, PacketsPerCts) \in Byte
    BY <2>1, ConfigurationAssumption, LeastByte
  <2> HIDE DEF f, k
  <2> QED
    BY <1>2, <1>3, <2>1, <2>2, NewBuffer, ReceiveSessionType DEF RxState
<1>5. OrderedBuffer(asked)
  <2> HIDE DEF new, k
  <2>1. Cleared(new) \in SessionOf(n, k) /\ OrderedBuffer(Cleared(new))
    BY <1>3, <1>4, SessionUpdates, UpdatesKeepBuffer
  <2> QED
    BY <1>3, <2>1, UpdatesKeepBuffer
<1>6. \/ sess' = sess \/ sess' = Close(n, {k})
      \/ sess' = Store(n, k, asked) \/ sess' = Store(n, k, new)
  BY <1>1, <1>2 DEF ProcessRequestToSend
<1>7. BuffersOrdered(sess')
  <2> HIDE DEF k, new, asked
  <2> QED
    BY <1>3, <1>4, <1>5, <1>6, StoreOrdered, CloseOrdered DEF TypeOK, OrderInv
<1> QED
  BY <1>1, <1>7 DEF ProcessRequestToSend, OrderInv

LEMMA RemainingNone ==
  ASSUME NEW total \in Byte, NEW last \in Byte, last + 1 \in Byte
  PROVE  (total - (last + 1)) % 256 = 0 <=> last + 1 = total
OBVIOUS

\* The next packet of a session is written behind the others; when nothing is
\* missing, the last one was written.
LEMMA GotOrder ==
  ASSUME NEW n \in Node, NEW k \in Key, NEW s \in SessionOf(n, k), k[1] # n, OrderedBuffer(s),
         NEW seq \in Byte, NEW v \in Payload, seq = s.last + 1
  PROVE  /\ Remaining(Got(s, seq, v)) = 0 => NoGap(Got(s, seq, v))
         /\ Remaining(Got(s, seq, v)) # 0 => OrderedBuffer(Got(s, seq, v))
<1> DEFINE t == Got(s, seq, v)
<1>1. PICK total \in Byte, last \in Byte, data \in Seq(Payload \cup {Blank}), slots \in Nat :
        /\ total = s.total /\ last = s.last /\ data = s.data /\ slots = Len(data)
        /\ slots % 256 = total
  <2>1. s.total \in Byte /\ s.last \in Byte /\ s.data \in Seq(Payload \cup {Blank})
    BY SessionFacts
  <2>2. Len(s.data) \in Nat /\ Len(s.data) % 256 = s.total
    BY SessionLength
  <2> QED
    BY <2>1, <2>2
<1>2. /\ t.total = total /\ t.last = last + 1 /\ Len(t.data) = slots
      /\ \A i \in 1 .. slots : t.data[i] = IF i = last + 1 THEN v ELSE data[i]
  <2>1. s \in Session
    BY SessionFacts
  <2>2. t.total = s.total /\ t.last = seq
        /\ t.data = [i \in DOMAIN s.data |-> IF i = s.last + 1 THEN v ELSE s.data[i]]
    BY <2>1, GotFields
  <2>3. DOMAIN data = 1 .. slots
    BY <1>1
  <2> HIDE DEF t
  <2>4. t.total = total /\ t.last = last + 1
        /\ t.data = [i \in 1 .. slots |-> IF i = last + 1 THEN v ELSE data[i]]
    BY <1>1, <2>2, <2>3
  <2> QED
    BY <2>4
<1>3. /\ last < total \/ total = 0
      /\ \A i \in 1 .. slots : (data[i] = Blank) = (i > last)
  BY <1>1 DEF OrderedBuffer
<1>5. Remaining(t) = 0 <=> last + 1 = total
  <2>1. Remaining(t) = (total - (last + 1)) % 256
    BY <1>2 DEF Remaining
  <2>2. (total - (last + 1)) % 256 = 0 <=> last + 1 = total
    <3>1. last + 1 \in Byte
      BY <1>1
    <3> QED
      BY <3>1, RemainingNone
  <2> QED
    BY <2>1, <2>2
<1>6. v # Blank
  BY NodeAssumption
<1>7. \A i \in 1 .. slots : (t.data[i] = Blank) = (i > last + 1)
  <2> HIDE DEF t
  <2>1. ASSUME NEW i \in 1 .. slots
        PROVE  (t.data[i] = Blank) <=> (i > last + 1)
    <3>1. CASE i = last + 1
      <4>1. t.data[i] = v
        BY <1>2, <3>1
      <4> QED
        BY <1>6, <3>1, <4>1
    <3>2. CASE i # last + 1
      <4>1. t.data[i] = data[i] /\ (data[i] = Blank <=> i > last)
        BY <1>2, <1>3, <3>2
      <4>2. i > last <=> i > last + 1
        BY <3>2
      <4> QED
        BY <4>1, <4>2
    <3> QED
      BY <3>1, <3>2
  <2> QED
    BY <2>1
<1>8. ASSUME Remaining(t) = 0
      PROVE  NoGap(t)
  <2> HIDE DEF t
  <2>1. Len(t.data) % 256 = last + 1
    BY <1>1, <1>2, <1>5, <1>8
  <2>2. \A i \in 1 .. Len(t.data) : (t.data[i] = Blank) = (i > Len(t.data) % 256)
    BY <1>2, <1>7, <2>1
  <2> QED
    BY <2>2 DEF NoGap
<1>9. ASSUME Remaining(t) # 0
      PROVE  OrderedBuffer(t)
  BY <1>2, <1>3, <1>5, <1>7, <1>9 DEF OrderedBuffer
<1> QED
  BY <1>8, <1>9

LEMMA DataOrder ==
  ASSUME TypeOK, OrderInv, NEW n \in Node, NEW a \in Node, ReceiveDataTransfer(n, a)
  PROVE  OrderInv'
<1> DEFINE f == Head(tx[a]).frame
           k == <<a, f.dst>>
           s == sess[n][k]
           got == Got(s, f.seq, f.data)
<1>1. ProcessDataTransfer(n, f) /\ Takes(n, a, "DT")
  BY DEF ReceiveDataTransfer
<1>2. n \in Stack /\ n # a /\ f \in FrameOf(a) /\ f.src = a /\ f.type = "DT"
  BY <1>1, TakesFacts
<1>3. f.dst \in Destination /\ f.seq \in Byte /\ f.data \in Payload
  BY <1>2, FrameFields
<1>4. k \in Key /\ k[1] = a /\ k[2] = f.dst
  BY <1>3 DEF Key
<1>5. CASE s = NoSession \/ (s # NoSession /\ ~Expected(s, f))
  <2>1. sess' = sess \/ sess' = Close(n, {k})
    BY <1>1, <1>2, <1>5 DEF ProcessDataTransfer
  <2>2. delivered' = delivered
    BY <1>1, <1>2, <1>5 DEF ProcessDataTransfer
  <2>3. BuffersOrdered(sess')
    BY <2>1, CloseOrdered DEF TypeOK, OrderInv
  <2> QED
    BY <2>2, <2>3 DEF OrderInv
<1>6. CASE s # NoSession /\ Expected(s, f)
  <2>1. s \in SessionOf(n, k) /\ OrderedBuffer(s) /\ f.seq = s.last + 1
    BY <1>2, <1>4, <1>6, Existing DEF TypeOK, OrderInv, BuffersOrdered, Expected
  <2>2. got \in SessionOf(n, k) /\ (Remaining(got) = 0 => NoGap(got))
        /\ (Remaining(got) # 0 => OrderedBuffer(got) /\ OrderedBuffer(Cleared(got)))
    <3> HIDE DEF s, k, f
    <3>1. got \in SessionOf(n, k)
      BY <1>2, <1>3, <1>4, <2>1, GotType
    <3>2. /\ Remaining(got) = 0 => NoGap(got)
          /\ Remaining(got) # 0 => OrderedBuffer(got)
      BY <1>2, <1>3, <1>4, <2>1, GotOrder
    <3> HIDE DEF got
    <3> QED
      BY <1>4, <3>1, <3>2, UpdatesKeepBuffer
  <2>3. TakePacket(n, f, k, s)
    BY <1>1, <1>2, <1>6 DEF ProcessDataTransfer
  <2>4. CASE Remaining(got) = 0
    <3>1. sess' = Close(n, {k})
          /\ delivered' = [delivered EXCEPT ![n] = Append(@, DeliveredMessage(k, got))]
      BY <2>3, <2>4 DEF TakePacket, Got
    <3>2. NoGap(DeliveredMessage(k, got))
      <4>1. DeliveredMessage(k, got).data = got.data
        BY DEF DeliveredMessage
      <4>2. NoGap(got)
        BY <2>2, <2>4
      <4> HIDE DEF got, k
      <4> QED
        BY <4>1, <4>2 DEF NoGap
    <3> DEFINE d == DeliveredMessage(k, got)
    <3>3. delivered \in [Node -> Seq(Delivery)] /\ NoGaps(delivered)
      BY DEF TypeOK, OrderInv
    <3>4. ASSUME NEW p \in Node, NEW i \in 1 .. Len(delivered'[p])
          PROVE  NoGap(delivered'[p][i])
      <4> HIDE DEF d, got, k
      <4>1. CASE p = n
        <5>1. delivered'[p] = Append(delivered[p], d)
          BY <3>1, <3>3, <4>1 DEF d
        <5>2. CASE i = Len(delivered[p]) + 1
          BY <3>2, <3>3, <5>1, <5>2 DEF d
        <5>3. CASE i # Len(delivered[p]) + 1
          <6>1. i \in 1 .. Len(delivered[p]) /\ delivered'[p][i] = delivered[p][i]
            BY <3>3, <5>1, <5>3
          <6> QED
            BY <3>3, <6>1 DEF NoGaps
        <5> QED
          BY <5>2, <5>3
      <4>2. CASE p # n
        <5>1. delivered'[p] = delivered[p]
          BY <3>1, <3>3, <4>2
        <5> QED
          BY <3>3, <5>1 DEF NoGaps
      <4> QED
        BY <4>1, <4>2
    <3>5. BuffersOrdered(sess')
      BY <3>1, CloseOrdered DEF TypeOK, OrderInv
    <3> QED
      BY <3>4, <3>5 DEF OrderInv, NoGaps
  <2>5. CASE Remaining(got) # 0
    <3>1. sess' \in {Store(n, k, Cleared(got)), Store(n, k, got)} /\ delivered' = delivered
      BY <2>3, <2>5 DEF TakePacket, Got
    <3> HIDE DEF got, k
    <3>2. BuffersOrdered(sess')
      BY <1>4, <2>2, <2>5, <3>1, StoreOrdered DEF TypeOK, OrderInv
    <3> QED
      BY <3>1, <3>2 DEF OrderInv
  <2> QED
    BY <2>4, <2>5
<1> QED
  BY <1>5, <1>6

LEMMA ReceiveOrder ==
  ASSUME TypeOK, OrderInv, NEW n \in Node, NEW a \in Node, Receive(n, a)
  PROVE  OrderInv'
<1>1. ASSUME Ignore(n, a)
      PROVE  OrderInv'
  BY <1>1 DEF Ignore, OrderInv
<1>2. ASSUME ReceiveClearToSend(n, a)
      PROVE  OrderInv'
  <2> DEFINE f == Head(tx[a]).frame
             k == <<n, a>>
  <2>1. Takes(n, a, "CTS") /\ ProcessClearToSend(n, f)
    BY <1>2 DEF ReceiveClearToSend
  <2>2. f.src = a /\ k \in Key /\ k[1] = n
    BY <2>1, TakesFacts DEF Key, Destination
  <2>3. \/ sess' = sess \/ sess' = Close(n, {k})
        \/ \E s : sess' = Store(n, k, s)
    BY <2>1, <2>2 DEF ProcessClearToSend
  <2>4. delivered' = delivered
    BY <2>1 DEF ProcessClearToSend
  <2> HIDE DEF k, f
  <2>5. BuffersOrdered(sess')
    BY <2>2, <2>3, StoreOrdered, CloseOrdered DEF TypeOK, OrderInv
  <2> QED
    BY <2>4, <2>5 DEF OrderInv
<1>3. ASSUME ReceiveEndOfMessageAck(n, a) \/ ReceiveAbort(n, a)
      PROVE  OrderInv'
  <2>1. (\E K : sess' = Close(n, K)) \/ sess' = sess
    BY <1>3 DEF ReceiveEndOfMessageAck, ProcessEndOfMessageAck, ReceiveAbort, ProcessAbort
  <2>2. delivered' = delivered
    BY <1>3 DEF ReceiveEndOfMessageAck, ProcessEndOfMessageAck, ReceiveAbort, ProcessAbort
  <2>3. BuffersOrdered(sess')
    BY <2>1, CloseOrdered DEF TypeOK, OrderInv
  <2> QED
    BY <2>2, <2>3 DEF OrderInv
<1> QED
  BY <1>1, <1>2, <1>3, AnnounceOrder, RequestOrder, DataOrder DEF Receive

LEMMA UpdateOrder ==
  ASSUME TypeOK, OrderInv, NEW n \in Node, NEW k \in Key, UpdateSession(n, k)
  PROVE  OrderInv'
<1> DEFINE s == sess[n][k]
<1>1. s \in SessionOf(n, k)
  BY Existing DEF UpdateSession, CloseUnreachable, OpenConnection, SendClearToSend,
                  SendDataTransferPackets, TimeOut, Updates, TypeOK
<1>2. delivered' = delivered
  BY DEF UpdateSession, CloseUnreachable, OpenConnection, SendClearToSend,
         SendDataTransferPackets, TimeOut
<1>3. ASSUME CloseUnreachable(n, k) \/ TimeOut(n, k)
      PROVE  BuffersOrdered(sess')
  <2>1. sess' = Close(n, {k})
    BY <1>3 DEF CloseUnreachable, TimeOut, Finish
  <2> QED
    BY <2>1, CloseOrdered DEF TypeOK, OrderInv
<1>4. ASSUME OpenConnection(n, k) \/ SendDataTransferPackets(n, k)
      PROVE  BuffersOrdered(sess')
  <2>1. k[1] = n
    BY <1>1, <1>4, SessionFacts
       DEF OpenConnection, SendDataTransferPackets, Updates, TxState
  <2>2. sess' = Close(n, {k}) \/ \E t : sess' = Store(n, k, t)
    BY <1>4 DEF OpenConnection, SendDataTransferPackets, Finish, GoOn
  <2> QED
    BY <2>1, <2>2, StoreOrdered, CloseOrdered DEF TypeOK, OrderInv
<1>5. ASSUME SendClearToSend(n, k)
      PROVE  BuffersOrdered(sess')
  <2>1. sess' = Store(n, k, InState(Cleared(s), "WaitForDataTransferPacket"))
    BY <1>5 DEF SendClearToSend, GoOn
  <2>2. k[1] # n /\ s # NoSession
    BY <1>1, <1>5, SessionFacts DEF SendClearToSend, Updates, RxState
  <2>3. OrderedBuffer(s)
    BY <2>2 DEF OrderInv, BuffersOrdered
  <2>4. OrderedBuffer(Cleared(s)) /\ Cleared(s) \in SessionOf(n, k)
    BY <1>1, <2>3, UpdatesKeepBuffer, SessionUpdates
  <2>5. OrderedBuffer(InState(Cleared(s), "WaitForDataTransferPacket"))
    BY <2>4, UpdatesKeepBuffer
  <2> QED
    BY <2>1, <2>5, StoreOrdered DEF TypeOK, OrderInv
<1>6. BuffersOrdered(sess')
  BY <1>3, <1>4, <1>5 DEF UpdateSession
<1> QED
  BY <1>2, <1>6 DEF OrderInv

LEMMA TickOrder ==
  ASSUME TypeOK, OrderInv, Tick
  PROVE  OrderInv'
<1>1. ASSUME NEW n \in Node, NEW k \in Key, sess'[n][k] # NoSession, k[1] # n
      PROVE  OrderedBuffer(sess'[n][k])
  <2>1. sess[n][k] # NoSession
    BY <1>1 DEF Tick
  <2>2. sess'[n][k] = [sess[n][k] EXCEPT !.age = Least(@ + 1, T2T3 + 1)]
    BY <2>1 DEF Tick
  <2>3. sess[n][k] \in SessionRecord /\ OrderedBuffer(sess[n][k])
    BY <1>1, <2>1, Existing DEF TypeOK, SessionOf, Session, OrderInv, BuffersOrdered
  <2>4. /\ sess'[n][k].data = sess[n][k].data /\ sess'[n][k].last = sess[n][k].last
        /\ sess'[n][k].total = sess[n][k].total
    BY <2>2, <2>3 DEF SessionRecord
  <2> QED
    BY <2>3, <2>4, SameBuffer
<1>2. delivered' = delivered
  BY DEF Tick
<1> QED
  BY <1>1, <1>2 DEF OrderInv, BuffersOrdered

LEMMA SubmitOrder ==
  ASSUME TypeOK, OrderInv, NEW m \in Message, Submit(m)
  PROVE  OrderInv'
<1> DEFINE n == Header[m].src
           k == <<n, Header[m].dst>>
<1>1. n \in Node /\ k \in Key /\ k[1] = n
  BY TransmitType
<1>2. (\E s : sess' = Store(n, k, s)) /\ delivered' = delivered
  BY DEF Submit
<1> HIDE DEF n, k
<1>3. BuffersOrdered(sess')
  BY <1>1, <1>2, StoreOrdered DEF TypeOK, OrderInv
<1> QED
  BY <1>2, <1>3 DEF OrderInv

LEMMA OrderStep == TypeOK /\ OrderInv /\ [Next]_vars => OrderInv'
<1> SUFFICES ASSUME TypeOK, OrderInv, [Next]_vars PROVE OrderInv'
  OBVIOUS
<1>1. CASE UNCHANGED vars
  BY <1>1 DEF vars, OrderInv
<1>2. CASE Next
  <2>1. ASSUME Environment, ~Tick
        PROVE  OrderInv'
    BY <2>1 DEF Environment, Lose, SendOther, LoseAddress, RegainAddress, ForeignSend, OrderInv
  <2>2. Stack \subseteq Node
    BY DEF Stack
  <2> QED
    BY <1>2, <2>1, <2>2, TickOrder, SubmitOrder, ReceiveOrder, UpdateOrder DEF Next
<1> QED
  BY <1>1, <1>2

\* Whatever other nodes send, in whatever order, and whatever sizes and numbers of
\* packets they announce: a receive buffer is filled from the front without a
\* gap, and what the application is given has none, but behind the wrapped count
\* of a message of more than 255 packets.
THEOREM BuffersInOrder == Spec => []BufferInOrder
<1>1. Init => OrderInv
  BY DEF Init, OrderInv, BuffersOrdered, NoGaps
<1>2. TypeOK /\ OrderInv => BufferInOrder
  <2> SUFFICES ASSUME TypeOK, OrderInv PROVE BufferInOrder
    OBVIOUS
  <2>1. Stack \subseteq Node
    BY DEF Stack
  <2> QED
    BY <2>1 DEF BufferInOrder, OrderInv, BuffersOrdered, OrderedBuffer, NoGaps, NoGap, Active
<1> QED
  BY <1>1, <1>2, TypeCorrect, OrderStep, PTL DEF Spec

-----------------------------------------------------------------------------
(* The configured limit bounds the receive sessions *)

Incoming(n, se) == {k \in Key : se[n][k] # NoSession /\ k[1] # n}
LimitInv == \A n \in Node : Cardinality(Incoming(n, sess)) <= MaxSessions

LEMMA KeyFinite == IsFiniteSet(Key)
<1>1. IsFiniteSet(Destination)
  BY NodeAssumption, FS_AddElement DEF Destination
<1> QED
  BY <1>1, NodeAssumption, FS_Product DEF Key

LEMMA IncomingFinite ==
  ASSUME NEW n, NEW se
  PROVE  IsFiniteSet(Incoming(n, se)) /\ Cardinality(Incoming(n, se)) \in Nat
<1>1. Incoming(n, se) \in SUBSET Key
  BY DEF Incoming
<1>2. IsFiniteSet(Incoming(n, se))
  BY <1>1, KeyFinite, FS_Subset
<1> QED
  BY <1>2, FS_CardinalityType

\* A step that opens no receive session keeps the limit.
LEMMA NoNewKeepsLimit ==
  ASSUME LimitInv,
         \A p \in Node, q \in Key : sess'[p][q] # NoSession /\ q[1] # p => sess[p][q] # NoSession
  PROVE  LimitInv'
<1>1. ASSUME NEW n \in Node
      PROVE  Cardinality(Incoming(n, sess')) <= MaxSessions
  <2>1. Incoming(n, sess') \in SUBSET Incoming(n, sess)
    BY DEF Incoming
  <2>2. Cardinality(Incoming(n, sess')) <= Cardinality(Incoming(n, sess))
    BY <2>1, IncomingFinite, FS_Subset
  <2>3. Cardinality(Incoming(n, sess)) <= MaxSessions
    BY DEF LimitInv
  <2> QED
    BY <2>2, <2>3, IncomingFinite, ConfigurationAssumption
<1> QED
  BY <1>1 DEF LimitInv

\* A node that has not reached the limit may store one more session.
LEMMA StoreKeepsLimit ==
  ASSUME SessionsOK(sess), LimitInv, NEW n \in Node, NEW k \in Key, NEW s,
         sess' = Store(n, k, s), ~Full(n)
  PROVE  LimitInv'
<1>1. Incoming(n, sess') \in SUBSET (Incoming(n, sess) \cup {k})
  BY DEF Incoming, Store, SessionsOK
<1>2. Cardinality(Incoming(n, sess)) < MaxSessions
  <2>1. IsFiniteSet(Active(n)) /\ Cardinality(Active(n)) \in Nat
    <3>1. Active(n) \in SUBSET Key
      BY DEF Active
    <3>2. IsFiniteSet(Active(n))
      BY <3>1, KeyFinite, FS_Subset
    <3> QED
      BY <3>2, FS_CardinalityType
  <2>2. Cardinality(Active(n)) < MaxSessions
    BY <2>1, ConfigurationAssumption DEF Full
  <2>3. Incoming(n, sess) \in SUBSET Active(n)
    BY DEF Incoming, Active
  <2>4. Cardinality(Incoming(n, sess)) <= Cardinality(Active(n))
    BY <2>1, <2>3, FS_Subset
  <2> QED
    BY <2>1, <2>2, <2>4, IncomingFinite, ConfigurationAssumption
<1>3. /\ IsFiniteSet(Incoming(n, sess) \cup {k})
      /\ Cardinality(Incoming(n, sess) \cup {k}) <= Cardinality(Incoming(n, sess)) + 1
  <2> DEFINE S == Incoming(n, sess)
  <2>1. IsFiniteSet(S) /\ Cardinality(S) \in Nat
    BY IncomingFinite
  <2> HIDE DEF S
  <2>2. /\ IsFiniteSet(S \cup {k})
        /\ Cardinality(S \cup {k}) = IF k \in S THEN Cardinality(S) ELSE Cardinality(S) + 1
    BY <2>1, FS_AddElement
  <2>3. Cardinality(S \cup {k}) <= Cardinality(S) + 1
    BY <2>1, <2>2
  <2> QED
    BY <2>2, <2>3 DEF S
<1>4. Cardinality(Incoming(n, sess')) <= Cardinality(Incoming(n, sess) \cup {k})
  BY <1>1, <1>3, FS_Subset
<1>5. Cardinality(Incoming(n, sess) \cup {k}) \in Nat
  BY <1>3, FS_CardinalityType
<1>6. Cardinality(Incoming(n, sess')) <= MaxSessions
  BY <1>2, <1>3, <1>4, <1>5, IncomingFinite, ConfigurationAssumption
<1>7. ASSUME NEW p \in Node, p # n
      PROVE  Cardinality(Incoming(p, sess')) <= MaxSessions
  <2>1. Incoming(p, sess') = Incoming(p, sess)
    BY <1>7 DEF Incoming, Store, SessionsOK
  <2> QED
    BY <2>1 DEF LimitInv
<1> QED
  BY <1>6, <1>7 DEF LimitInv

LEMMA CloseKeepsLimit ==
  ASSUME SessionsOK(sess), LimitInv, NEW n \in Node, NEW K, sess' = Close(n, K)
  PROVE  LimitInv'
<1>1. \A p \in Node, q \in Key : sess'[p][q] # NoSession => sess[p][q] # NoSession
  BY DEF SessionsOK, Close
<1> QED
  BY <1>1, NoNewKeepsLimit

\* Storing a session of one's own, or one that was there before, opens no
\* receive session.
LEMMA RestoreKeepsLimit ==
  ASSUME SessionsOK(sess), LimitInv, NEW n \in Node, NEW k \in Key, NEW s,
         sess' = Store(n, k, s), k[1] = n \/ sess[n][k] # NoSession
  PROVE  LimitInv'
<1>1. ASSUME NEW p \in Node, NEW q \in Key, sess'[p][q] # NoSession, q[1] # p
      PROVE  sess[p][q] # NoSession
  <2>1. CASE p = n /\ q = k
    BY <1>1, <2>1
  <2>2. CASE ~(p = n /\ q = k)
    <3>1. sess'[p][q] = sess[p][q]
      BY <2>2 DEF SessionsOK, Store
    <3> QED
      BY <1>1, <3>1
  <2> QED
    BY <2>1, <2>2
<1> QED
  BY <1>1, NoNewKeepsLimit

LEMMA UnchangedKeepsLimit ==
  ASSUME LimitInv, sess' = sess
  PROVE  LimitInv'
BY DEF LimitInv

LEMMA ReceiveLimit ==
  ASSUME TypeOK, LimitInv, NEW n \in Node, NEW a \in Node, Receive(n, a)
  PROVE  LimitInv'
<1> DEFINE f == Head(tx[a]).frame
<1>1. ASSUME ReceiveAnnounce(n, a) \/ ReceiveRequestToSend(n, a)
      PROVE  LimitInv'
  <2>1. f.src = a
    BY <1>1, TakesFacts DEF ReceiveAnnounce, ReceiveRequestToSend
  <2>2. PICK k \in Key : \/ sess' = sess \/ sess' = Close(n, {k})
                         \/ ~Full(n) /\ \E s : sess' = Store(n, k, s)
    <3>1. <<a, n>> \in Key /\ <<a, Global>> \in Key
      BY DEF Key, Destination
    <3> QED
      BY <1>1, <2>1, <3>1
         DEF ReceiveAnnounce, ReceiveRequestToSend, ProcessAnnounce, ProcessRequestToSend
  <2> QED
    BY <2>2, StoreKeepsLimit, CloseKeepsLimit, UnchangedKeepsLimit DEF TypeOK
<1>2. ASSUME ReceiveClearToSend(n, a) \/ ReceiveDataTransfer(n, a)
      PROVE  LimitInv'
  <2>1. f.src = a /\ f.dst \in Destination
    BY <1>2, TakesFacts, FrameFields DEF ReceiveClearToSend, ReceiveDataTransfer
  <2>2. PICK k \in Key : \/ sess' = sess \/ sess' = Close(n, {k})
                         \/ sess[n][k] # NoSession /\ \E s : sess' = Store(n, k, s)
    <3>1. <<n, a>> \in Key /\ <<a, f.dst>> \in Key
      BY <2>1 DEF Key, Destination
    <3>2. CASE ReceiveClearToSend(n, a)
      BY <2>1, <3>1, <3>2 DEF ReceiveClearToSend, ProcessClearToSend
    <3>3. CASE ReceiveDataTransfer(n, a)
      BY <2>1, <3>1, <3>3 DEF ReceiveDataTransfer, ProcessDataTransfer, TakePacket
    <3> QED
      BY <1>2, <3>2, <3>3
  <2> QED
    BY <2>2, RestoreKeepsLimit, CloseKeepsLimit, UnchangedKeepsLimit DEF TypeOK
<1>3. ASSUME ReceiveEndOfMessageAck(n, a) \/ ReceiveAbort(n, a)
      PROVE  LimitInv'
  <2>1. (\E K : sess' = Close(n, K)) \/ sess' = sess
    BY <1>3 DEF ReceiveEndOfMessageAck, ProcessEndOfMessageAck, ReceiveAbort, ProcessAbort
  <2> QED
    BY <2>1, CloseKeepsLimit, UnchangedKeepsLimit DEF TypeOK
<1>4. ASSUME Ignore(n, a)
      PROVE  LimitInv'
  BY <1>4, UnchangedKeepsLimit DEF Ignore
<1> QED
  BY <1>1, <1>2, <1>3, <1>4 DEF Receive

LEMMA LimitStep == TypeOK /\ LimitInv /\ [Next]_vars => LimitInv'
<1> SUFFICES ASSUME TypeOK, LimitInv, [Next]_vars PROVE LimitInv'
  OBVIOUS
<1>1. CASE UNCHANGED vars
  BY <1>1, UnchangedKeepsLimit DEF vars
<1>2. ASSUME NEW m \in Message, Submit(m)
      PROVE  LimitInv'
  <2> DEFINE n == Header[m].src
             k == <<n, Header[m].dst>>
  <2>1. n \in Node /\ k \in Key /\ k[1] = n
    BY TransmitType
  <2>2. \E s : sess' = Store(n, k, s)
    BY <1>2 DEF Submit
  <2> HIDE DEF n, k
  <2> QED
    BY <2>1, <2>2, RestoreKeepsLimit DEF TypeOK
<1>3. ASSUME NEW n \in Node, NEW k \in Key, UpdateSession(n, k)
      PROVE  LimitInv'
  <2>1. sess[n][k] # NoSession
    BY <1>3 DEF UpdateSession, CloseUnreachable, OpenConnection, SendClearToSend,
                SendDataTransferPackets, TimeOut, Updates
  <2>2. sess' = Close(n, {k}) \/ \E s : sess' = Store(n, k, s)
    BY <1>3 DEF UpdateSession, CloseUnreachable, OpenConnection, SendClearToSend,
                SendDataTransferPackets, TimeOut, Finish, GoOn
  <2> QED
    BY <2>1, <2>2, RestoreKeepsLimit, CloseKeepsLimit DEF TypeOK
<1>4. ASSUME Tick
      PROVE  LimitInv'
  <2>1. \A p \in Node, q \in Key : sess'[p][q] # NoSession => sess[p][q] # NoSession
    BY <1>4 DEF Tick
  <2> QED
    BY <2>1, NoNewKeepsLimit
<1>5. ASSUME Environment, ~Tick
      PROVE  LimitInv'
  BY <1>5, UnchangedKeepsLimit
     DEF Environment, Lose, SendOther, LoseAddress, RegainAddress, ForeignSend
<1>6. Stack \subseteq Node
  BY DEF Stack
<1> QED
  BY <1>1, <1>2, <1>3, <1>4, <1>5, <1>6, ReceiveLimit DEF Next

\* No sequence of announcements and requests from the bus makes a node keep
\* more receive sessions than configured, whatever it transmits itself.
THEOREM ReceiveLimitHolds == Spec => []ReceiveSessionsWithinLimit
<1>1. Init => LimitInv
  <2> SUFFICES ASSUME Init, NEW n \in Node PROVE Cardinality(Incoming(n, sess)) <= MaxSessions
    BY DEF LimitInv
  <2>1. Incoming(n, sess) = {}
    BY DEF Init, Incoming
  <2> QED
    BY <2>1, FS_EmptySet, ConfigurationAssumption
<1>2. LimitInv => ReceiveSessionsWithinLimit
  <2> SUFFICES ASSUME LimitInv, NEW n \in Stack
               PROVE  Cardinality({k \in Active(n) : k[1] # n}) <= MaxSessions
    BY DEF ReceiveSessionsWithinLimit
  <2>1. {k \in Active(n) : k[1] # n} = Incoming(n, sess)
    BY DEF Active, Incoming
  <2> QED
    BY <2>1 DEF LimitInv, Stack
<1> QED
  BY <1>1, <1>2, TypeCorrect, LimitStep, PTL DEF Spec
=============================================================================
