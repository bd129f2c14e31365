----------------------- MODULE VirtualTerminal_proofs -----------------------
(***************************************************************************)
(* What holds of a client and its terminal for every number of pools,      *)
(* chunks, objects, values, calls and faults.                              *)
(***************************************************************************)
EXTENDS VirtualTerminal, Positions_proofs, SequenceTheorems

-----------------------------------------------------------------------------
(* Types *)

Chunks == Seq(0 .. NPools)
Change == [fn : {"ChangeNumericValue"}, obj : Object, val : Value]

\* What the messages to the terminal and to the client carry
ToTerminal ==
  [fn : {"MaintenanceInit", "Maintenance", "GetMemory", "GetSoftKeys", "GetTextFont",
         "GetHardware", "GetVersions", "LoadVersion", "StoreVersion", "EndOfObjectPool",
         "DeleteOtherVersion", "DeleteObjectPool"}]
  \cup Change
  \cup [fn : {"ObjectPoolTransfer"}, pool : 0 .. NPools, chunks : Chunks]

ToClient ==
  [fn : {"Nack"}, broadcast : BOOLEAN]
  \cup [fn : {"GetMemory", "LoadVersion", "StoreVersion", "EndOfObjectPool",
              "DeleteObjectPool"}, ok : BOOLEAN]
  \cup [fn : {"GetSoftKeys", "GetTextFont", "GetHardware", "DeleteVersion"}]
  \cup [fn : {"GetVersions"}, own : BOOLEAN, other : BOOLEAN]
  \cup [fn : {"ChangeNumericValue"}, obj : Object, val : Value, ok : BOOLEAN]
  \cup [fn : {"VTChangeNumericValue"}, obj : Object, val : Value]

TransferType == [pool : 0 .. NPools, chunks : Chunks, broken : BOOLEAN]
ClientType ==
  [state : State, upload : {"Uninitialized", "InProgress", "Success", "Failed"},
   uploaded : [Pool -> BOOLEAN], heard : {"none", "recent", "stale"},
   maintain : BOOLEAN, running : BOOLEAN, stale : BOOLEAN,
   work : WaitState \cup {"idle", "upload"}]
CallType == {NoCall} \cup [pc : {"check", "send", "mark", "push"}, obj : Object, val : Value]
CmdType ==
  [queue : Seq(Change), awaiting : BOOLEAN, call : CallType,
   last : [Object -> Value \cup {0}], owed : [Object -> BOOLEAN]]
HelperType == [value : [Object -> Value \cup {0}], server : BOOLEAN, told : SUBSET Object]
VolType ==
  [managed : BOOLEAN, pools : Seq(Chunks), parse : {"None", "Running", "Success", "Fail", "Joined"},
   tree : BOOLEAN, value : [Object -> Value \cup {0}], loaded : BOOLEAN, active : BOOLEAN,
   set : SUBSET Object]
TerminalType == [up : BOOLEAN, own : Seq(Chunks), other : BOOLEAN, vol : VolType]
LeftType == [calls : 0 .. MaxCalls, lossless : BOOLEAN]

Typed ==
  /\ config \in Config /\ faults \in 0 .. MaxFaults /\ transfer \in TransferType
  /\ client \in ClientType /\ cmd \in CmdType /\ helper \in HelperType
  /\ terminal \in TerminalType /\ left \in LeftType
  /\ toVT \in Seq(ToTerminal) /\ toECU \in Seq(ToClient)

LEMMA TypedIsTypeOK ==
  ASSUME Typed
  PROVE  TypeOK
BY DEF Typed, TypeOK, TransferType, Chunks, ClientType, CmdType, Change, HelperType, TerminalType,
       VolType, LeftType, vol

-----------------------------------------------------------------------------
(* What the operators of the model return *)

LEMMA Requests ==
  /\ SendState = {"SendGetMemory", "SendGetNumberSoftkeys", "SendGetTextFontData", "SendGetHardware",
                  "SendGetVersions", "SendLoadVersion", "SendStoreVersion", "SendEndOfObjectPool"}
  /\ WaitState = {"WaitForGetMemoryResponse", "WaitForGetNumberSoftKeysResponse",
                  "WaitForGetTextFontDataResponse", "WaitForGetHardwareResponse",
                  "WaitForGetVersionsResponse", "WaitForLoadVersionResponse",
                  "WaitForStoreVersionResponse", "WaitForEndOfObjectPoolResponse"}
<1>1. SendState = {"SendGetMemory", "SendGetNumberSoftkeys", "SendGetTextFontData", "SendGetHardware",
                  "SendGetVersions", "SendLoadVersion", "SendStoreVersion", "SendEndOfObjectPool"}
  BY DEF SendState, Request
<1> QED BY <1>1 DEF WaitState, Request

LEMMA RequestTable ==
  ASSUME NEW s \in SendState
  PROVE
    /\ s = "SendGetMemory" => Request[s].fn = "GetMemory" /\ Request[s].wait = "WaitForGetMemoryResponse"
    /\ s = "SendGetNumberSoftkeys" => Request[s].fn = "GetSoftKeys" /\ Request[s].wait = "WaitForGetNumberSoftKeysResponse"
    /\ s = "SendGetTextFontData" => Request[s].fn = "GetTextFont" /\ Request[s].wait = "WaitForGetTextFontDataResponse"
    /\ s = "SendGetHardware" => Request[s].fn = "GetHardware" /\ Request[s].wait = "WaitForGetHardwareResponse"
    /\ s = "SendGetVersions" => Request[s].fn = "GetVersions" /\ Request[s].wait = "WaitForGetVersionsResponse"
    /\ s = "SendLoadVersion" => Request[s].fn = "LoadVersion" /\ Request[s].wait = "WaitForLoadVersionResponse"
    /\ s = "SendStoreVersion" => Request[s].fn = "StoreVersion" /\ Request[s].wait = "WaitForStoreVersionResponse"
    /\ s = "SendEndOfObjectPool" => Request[s].fn = "EndOfObjectPool" /\ Request[s].wait = "WaitForEndOfObjectPoolResponse"
BY DEF Request, SendState

LEMMA States ==
  /\ SendState \subseteq State /\ WaitState \subseteq State
  /\ {"Disconnected", "WaitForPartnerVTStatusMessage", "SendWorkingSetMasterMessage",
      "ReadyForObjectPool", "UploadObjectPool", "Connected", "Failed"} \subseteq State
BY DEF State

LEMMA SetStateType ==
  ASSUME NEW c \in ClientType, NEW s \in State
  PROVE  SetState(c, s) \in ClientType
BY DEF SetState, ClientType

\* The queue of commands
LEMMA WithoutKeeps ==
  ASSUME NEW S, NEW q \in Seq(S), NEW i \in 1 .. Len(q)
  PROVE  /\ Without(q, i) \in Seq(S)
         /\ \A j \in 1 .. Len(q) : j # i => q[j] \in Range(Without(q, i))
         /\ \A e \in Range(Without(q, i)) : e \in Range(q)
<1> DEFINE a == SubSeq(q, 1, i - 1)
          b == SubSeq(q, i + 1, Len(q))
<1>1. a \in Seq(S) /\ Len(a) = i - 1 /\ \A j \in 1 .. i - 1 : a[j] = q[j]
  OBVIOUS
<1>2. b \in Seq(S) /\ Len(b) = Len(q) - i /\ \A j \in 1 .. Len(q) - i : b[j] = q[i + j]
  OBVIOUS
<1> HIDE DEF a, b
<1>3. /\ a \o b \in Seq(S) /\ Len(a \o b) = Len(q) - 1
      /\ \A j \in 1 .. i - 1 : (a \o b)[j] = q[j]
      /\ \A j \in i .. Len(q) - 1 : (a \o b)[j] = q[j + 1]
  <2>1. a \o b \in Seq(S) /\ Len(a \o b) = Len(a) + Len(b)
    BY <1>1, <1>2, ConcatProperties
  <2>2. \A j \in 1 .. i - 1 : (a \o b)[j] = q[j]
    BY <1>1, <1>2
  <2>3. ASSUME NEW j \in i .. Len(q) - 1 PROVE (a \o b)[j] = q[j + 1]
    <3>1. (a \o b)[j] = b[j - (i - 1)]
      BY <1>1, <1>2
    <3>2. b[j - (i - 1)] = q[i + (j - (i - 1))]
      BY <1>2
    <3> QED BY <3>1, <3>2
  <2> QED BY <1>1, <1>2, <2>1, <2>2, <2>3
<1>4. Without(q, i) = a \o b
  BY DEF Without, a, b
<1>5. ASSUME NEW j \in 1 .. Len(q), j # i PROVE q[j] \in Range(a \o b)
  <2>1. DOMAIN (a \o b) = 1 .. Len(q) - 1
    BY <1>3
  <2>2. CASE j < i
    <3>1. j \in DOMAIN (a \o b) /\ (a \o b)[j] = q[j]
      BY <1>3, <2>1, <2>2
    <3> QED BY <3>1 DEF Range
  <2>3. CASE j > i
    <3>1. j - 1 \in i .. Len(q) - 1 /\ (j - 1) + 1 = j /\ j - 1 \in DOMAIN (a \o b)
      BY <2>1, <2>3
    <3>2. (a \o b)[j - 1] = q[j]
      BY <1>3, <3>1
    <3> QED BY <3>1, <3>2 DEF Range
  <2> QED BY <1>5, <2>2, <2>3
<1>6. ASSUME NEW e \in Range(a \o b) PROVE e \in Range(q)
  <2>1. PICK k \in 1 .. Len(q) - 1 : e = (a \o b)[k]
    BY <1>3 DEF Range
  <2>2. e = q[k] \/ e = q[k + 1]
    BY <1>3, <2>1
  <2> QED BY <2>2 DEF Range
<1> QED BY <1>3, <1>4, <1>5, <1>6

\* A command that is queued is in the queue, and takes nothing away but those
\* it is similar to
LEMMA QueuedKeeps ==
  ASSUME NEW q \in Seq(Change), NEW m \in Change
  PROVE  /\ Queued(q, m) \in Seq(Change)
         /\ m \in Range(Queued(q, m))
         /\ \A e \in Range(q) : e.obj # m.obj => e \in Range(Queued(q, m))
<1> DEFINE similar == {i \in DOMAIN q : q[i].obj = m.obj}
          first == CHOOSE i \in similar : \A j \in similar : i <= j
          kept == DOMAIN q \ (similar \ {first})
          r == [k \in 1 .. Cardinality(kept) |-> IF Nth(k, kept) = first THEN m ELSE q[Nth(k, kept)]]
<1>1. CASE similar = {}
  <2>1. Queued(q, m) = Append(q, m)
    BY <1>1 DEF Queued
  <2>2. Append(q, m) \in Seq(Change) /\ Len(Append(q, m)) = Len(q) + 1
        /\ Append(q, m)[Len(q) + 1] = m /\ \A i \in 1 .. Len(q) : Append(q, m)[i] = q[i]
    OBVIOUS
  <2> QED BY <2>1, <2>2 DEF Range
<1>2. CASE similar # {}
  <2>1. Queued(q, m) = r
    BY <1>2 DEF Queued
  <2>2. first \in similar
    <3>1. similar \in SUBSET Nat
      OBVIOUS
    <3> QED BY <1>2, <3>1, First
  <2>3. kept \in SUBSET Nat /\ IsFiniteSet(kept) /\ kept \subseteq DOMAIN q /\ first \in kept
    <3>1. DOMAIN q = 1 .. Len(q) /\ IsFiniteSet(1 .. Len(q)) /\ DOMAIN q \subseteq Nat
      BY FS_Interval
    <3> QED BY <2>2, <3>1, FS_Subset
  <2>4. \A i \in DOMAIN q : q[i].obj # m.obj => i \in kept /\ i # first
    BY <2>2
  <2>5. DOMAIN q = 1 .. Len(q) /\ \A i \in DOMAIN q : q[i] \in Change
    OBVIOUS
  <2> HIDE DEF similar, first, kept
  <2>6. /\ Cardinality(kept) \in Nat
        /\ \A k \in 1 .. Cardinality(kept) : Nth(k, kept) \in kept
        /\ \A i \in kept : \E k \in 1 .. Cardinality(kept) : Nth(k, kept) = i
    BY <2>3, NthExists
  <2>7. r \in Seq(Change)
    <3>1. \A k \in 1 .. Cardinality(kept) : (IF Nth(k, kept) = first THEN m ELSE q[Nth(k, kept)]) \in Change
      BY <2>3, <2>5, <2>6
    <3>2. r \in [1 .. Cardinality(kept) -> Change]
      BY <3>1
    <3> QED BY <2>6, <3>2
  <2>8. m \in Range(r)
    BY <2>3, <2>6 DEF Range
  <2>9. \A i \in DOMAIN q : q[i].obj # m.obj => q[i] \in Range(r)
    BY <2>4, <2>6 DEF Range
  <2> QED BY <2>1, <2>7, <2>8, <2>9 DEF Range
<1> QED BY <1>1, <1>2

-----------------------------------------------------------------------------
(* The pass over the pools *)

PassType == [c : ClientType, all : BOOLEAN, sent : 0 .. NPools, over : BOOLEAN]

LEMMA PassPoolType ==
  ASSUME NEW r \in PassType, NEW i \in Pool
  PROVE  PassPool(r, i) \in PassType
<1>1. /\ r.c \in ClientType /\ r.all \in BOOLEAN /\ r.sent \in 0 .. NPools /\ r.over \in BOOLEAN
      /\ r.c.uploaded[i] \in BOOLEAN /\ i \in 0 .. NPools
  BY LinkAssumption DEF PassType, ClientType, Pool
<1>2. /\ [r.c EXCEPT !.uploaded[i] = TRUE] \in ClientType
      /\ [r.c EXCEPT !.uploaded[i] = TRUE, !.upload = "Uninitialized"] \in ClientType
      /\ [r.c EXCEPT !.upload = "InProgress"] \in ClientType
      /\ [r.c EXCEPT !.upload = "Uninitialized"] \in ClientType
  BY <1>1 DEF ClientType
<1>3. SetState([r.c EXCEPT !.upload = "Uninitialized"], "Disconnected") \in ClientType
  BY <1>2, SetStateType, States
<1>4. CASE r.over
  BY <1>1, <1>4 DEF PassPool
<1>5. CASE ~r.over /\ i \in ByVector
  <2>1. PassPool(r, i) = [r EXCEPT !.c.uploaded[i] = TRUE]
    BY <1>5 DEF PassPool
  <2> QED BY <1>2, <2>1 DEF PassType
<1>6. CASE ~r.over /\ i \notin ByVector
  BY <1>1, <1>2, <1>3, <1>6 DEF PassPool, PassType
<1> QED BY <1>1, <1>4, <1>5, <1>6

\* The recursion ends where it began to be defined: there is one such function
PassSteps(f, n) == f[0] = PassStart /\ \A i \in 1 .. n : f[i] = PassPool(f[i - 1], i)

LEMMA PassExists ==
  ASSUME NEW n \in Nat
  PROVE  \E f : DOMAIN f = 0 .. n /\ PassSteps(f, n)
<1> DEFINE S == {k \in Nat : \E f : DOMAIN f = 0 .. k /\ PassSteps(f, k)}
<1>1. 0 \in S
  <2> DEFINE f == [i \in 0 .. 0 |-> PassStart]
  <2>1. DOMAIN f = 0 .. 0 /\ PassSteps(f, 0)
    BY DEF PassSteps
  <2> HIDE DEF f
  <2> QED BY <2>1
<1>2. ASSUME NEW k \in Nat, k \in S PROVE k + 1 \in S
  <2>1. PICK f : DOMAIN f = 0 .. k /\ PassSteps(f, k)
    BY <1>2
  <2> DEFINE g == [i \in 0 .. k + 1 |-> IF i = k + 1 THEN PassPool(f[k], k + 1) ELSE f[i]]
  <2>2. DOMAIN g = 0 .. k + 1 /\ PassSteps(g, k + 1)
    BY <2>1 DEF PassSteps
  <2> HIDE DEF g
  <2> QED BY <2>2
<1>3. Nat \subseteq S
  <2> HIDE DEF S
  <2> QED BY <1>1, <1>2, Induction
<1> QED BY <1>3

LEMMA UploadPassSteps ==
  \E f : DOMAIN f = 0 .. NPools /\ PassSteps(f, NPools) /\ UploadPass = f[NPools]
<1>0. NPools \in Nat
  BY LinkAssumption
<1> DEFINE P(h) == h = [i \in 0 .. NPools |-> IF i = 0 THEN PassStart ELSE PassPool(h[i - 1], i)]
          p == CHOOSE h : P(h)
<1>1. P(p)
  <2>1. PICK f : DOMAIN f = 0 .. NPools /\ PassSteps(f, NPools)
    BY <1>0, PassExists
  <2> DEFINE g == [i \in 0 .. NPools |-> f[i]]
  <2>2. P(g)
    BY <1>0, <2>1 DEF PassSteps
  <2> HIDE DEF P, g
  <2> QED BY <2>2
<1>2. UploadPass = p[NPools]
  BY DEF UploadPass
<1>3. DOMAIN p = 0 .. NPools /\ PassSteps(p, NPools)
  <2> HIDE DEF p
  <2> QED BY <1>0, <1>1 DEF PassSteps
<1> HIDE DEF p
<1> QED BY <1>2, <1>3

LEMMA UploadPassType ==
  ASSUME client \in ClientType
  PROVE  UploadPass \in PassType
<1>1. PICK f : PassSteps(f, NPools) /\ UploadPass = f[NPools]
  BY UploadPassSteps
<1> DEFINE S == {n \in Nat : n <= NPools => f[n] \in PassType}
<1>2. 0 \in S
  <2>1. PassStart \in PassType
    BY LinkAssumption DEF PassStart, PassType
  <2> QED BY <1>1, <2>1 DEF PassSteps
<1>3. ASSUME NEW n \in Nat, n \in S PROVE n + 1 \in S
  <2>1. CASE n + 1 <= NPools
    <3>1. n + 1 \in 1 .. NPools /\ n + 1 \in Pool /\ f[n] \in PassType
      BY <1>3, <2>1, LinkAssumption DEF Pool
    <3>2. f[n + 1] = PassPool(f[n], n + 1)
      BY <1>1, <3>1 DEF PassSteps
    <3> QED BY <3>1, <3>2, PassPoolType
  <2> QED BY <2>1
<1>4. NPools \in S
  <2> HIDE DEF S
  <2> QED BY <1>2, <1>3, Induction, LinkAssumption
<1> QED BY <1>1, <1>4, LinkAssumption

-----------------------------------------------------------------------------
(* Every step keeps the types *)

LEMMA FaultType ==
  ASSUME Typed, Fault
  PROVE  faults' \in 0 .. MaxFaults
BY LinkAssumption DEF Fault, Typed

LEMMA DueType ==
  ASSUME Typed, Due
  PROVE  faults' \in 0 .. MaxFaults
BY FaultType DEF Due, Typed

LEMMA CmdParts ==
  ASSUME Typed
  PROVE  /\ cmd.queue \in Seq(Change) /\ cmd.awaiting \in BOOLEAN /\ cmd.call \in CallType
         /\ cmd.last \in [Object -> Value \cup {0}] /\ cmd.owed \in [Object -> BOOLEAN]
BY DEF Typed, CmdType

LEMMA InCall ==
  ASSUME Typed, cmd.call.pc \in {"check", "send", "mark", "push"}
  PROVE  /\ cmd.call \in [pc : {"check", "send", "mark", "push"}, obj : Object, val : Value]
         /\ cmd.call.obj \in Object /\ cmd.call.val \in Value
         /\ Command(cmd.call) \in Change
BY CmdParts DEF CallType, NoCall, Command, ValueMsg, Change

LEMMA SentType ==
  ASSUME NEW d \in CmdType, NEW o \in Object, NEW v
  PROVE  Sent(d, o, v) \in CmdType
BY DEF Sent, CmdType

LEMMA ToVTType ==
  ASSUME Typed, NEW m \in ToTerminal
  PROVE  toVT \o <<m>> \in Seq(ToTerminal)
BY DEF Typed

LEMMA QueueStep ==
  ASSUME Typed, NEW awaiting \in BOOLEAN, ProcessCommandQueue(awaiting)
  PROVE  cmd' \in CmdType /\ toVT' \in Seq(ToTerminal) /\ faults' \in 0 .. MaxFaults
<1> DEFINE d == [cmd EXCEPT !.awaiting = awaiting]
<1>1. d \in CmdType
  BY DEF Typed, CmdType
<1>2. CASE cmd' = d /\ UNCHANGED <<toVT, faults>>
  BY <1>1, <1>2 DEF Typed
<1>3. ASSUME NEW i \in 1 .. Len(cmd.queue), i - 1 <= faults, faults' = faults - (i - 1),
             ToVT(<<cmd.queue[i]>>),
             cmd' = [Sent(d, cmd.queue[i].obj, cmd.queue[i].val)
                       EXCEPT !.queue = Without(cmd.queue, i), !.awaiting = TRUE]
      PROVE  cmd' \in CmdType /\ toVT' \in Seq(ToTerminal) /\ faults' \in 0 .. MaxFaults
  <2>1. cmd.queue[i] \in Change /\ Without(cmd.queue, i) \in Seq(Change)
    BY CmdParts, WithoutKeeps
  <2>2. cmd.queue[i].obj \in Object /\ cmd.queue[i] \in ToTerminal
    BY <2>1 DEF Change, ToTerminal
  <2> DEFINE e == Sent(d, cmd.queue[i].obj, cmd.queue[i].val)
  <2>3. e \in CmdType
    BY <1>1, <2>2, SentType
  <2>4. cmd' = [e EXCEPT !.queue = Without(cmd.queue, i), !.awaiting = TRUE]
    BY <1>3
  <2>5. cmd' \in CmdType
    <3> HIDE DEF e
    <3> QED BY <2>1, <2>3, <2>4 DEF CmdType
  <2>6. toVT' \in Seq(ToTerminal)
    BY <1>3, <2>2, ToVTType DEF ToVT
  <2>7. faults' \in 0 .. MaxFaults
    BY <1>3, LinkAssumption DEF Typed
  <2> QED BY <2>5, <2>6, <2>7
<1>4. CASE Len(cmd.queue) <= faults /\ faults' = faults - Len(cmd.queue) /\ cmd' = d /\ UNCHANGED toVT
  <2>1. Len(cmd.queue) \in Nat
    BY CmdParts
  <2> QED BY <1>1, <1>4, <2>1, LinkAssumption DEF Typed
<1> QED BY <1>2, <1>3, <1>4 DEF ProcessCommandQueue

LEMMA NoTransferType == NoTransfer \in TransferType
<1>1. <<>> \in Chunks
  BY DEF Chunks
<1> QED BY <1>1, LinkAssumption DEF NoTransfer, TransferType

LEMMA WorkerType ==
  ASSUME Typed, Worker
  PROVE  Typed'
<1>0. client \in ClientType /\ faults \in 0 .. MaxFaults
  BY DEF Typed
<1>1. \A s \in State : SetState(client, s) \in ClientType
  BY <1>0, SetStateType
<1>2. UNCHANGED <<config, toECU, helper, terminal, left>>
  BY DEF Worker, WorkDisconnected, WorkStatusHeard, WorkMaster, WorkReady, WorkRequest, WorkRequested,
         WorkRetry, WorkConnected, WorkUpload, WorkUploadStarted, WorkQueue, WorkTimesOut, WorkerKeeps
<1>3. CASE \/ WorkDisconnected \/ WorkStatusHeard \/ WorkMaster \/ WorkRequested \/ WorkRetry
           \/ WorkConnected \/ WorkUploadStarted \/ (Due /\ WorkTimesOut)
  <2>0. UNCHANGED <<toVT, transfer, cmd>>
    BY <1>3 DEF WorkDisconnected, WorkStatusHeard, WorkMaster, WorkRequested,
       WorkRetry, WorkConnected, WorkUploadStarted, WorkTimesOut, WorkerKeeps
  <2>1. client' \in ClientType
    <3>1. CASE WorkStatusHeard \/ WorkMaster \/ WorkConnected \/ WorkTimesOut
      BY <1>1, <3>1, States, Requests DEF WorkStatusHeard, WorkMaster, WorkConnected, WorkTimesOut
    <3>2. CASE WorkDisconnected \/ WorkRetry
      <4>1. \A s \in State : [SetState(client, s) EXCEPT !.maintain = FALSE] \in ClientType
        BY <1>1 DEF ClientType
      <4> QED BY <3>2, <4>1, States DEF WorkDisconnected, WorkRetry
    <3>3. CASE WorkRequested
      <4>1. \A s \in State : [SetState(client, s) EXCEPT !.work = "idle"] \in ClientType
        BY <1>1 DEF ClientType
      <4> QED BY <3>3, <4>1, States DEF WorkRequested
    <3>4. CASE WorkUploadStarted
      BY <1>0, <3>4 DEF WorkUploadStarted, ClientType
    <3> QED BY <1>3, <3>1, <3>2, <3>3, <3>4
  <2>2. faults' \in 0 .. MaxFaults
    BY <1>0, <1>3, DueType DEF WorkDisconnected, WorkStatusHeard, WorkMaster, WorkRequested,
       WorkRetry, WorkConnected, WorkUploadStarted, WorkTimesOut
  <2> QED BY <1>2, <2>0, <2>1, <2>2 DEF Typed
<1>4. CASE WorkReady
  <2> DEFINE c == IF client.heard = "recent" THEN client ELSE SetState(client, "Disconnected")
  <2>1. SetState(c, "SendGetMemory") \in ClientType
    BY <1>0, <1>1, States, Requests, SetStateType
  <2>2. client' \in ClientType
    <3>1. client' = [SetState(c, "SendGetMemory") EXCEPT !.maintain = TRUE]
      BY <1>4 DEF WorkReady
    <3> HIDE DEF c
    <3> QED BY <2>1, <3>1 DEF ClientType
  <2>3. Msg("MaintenanceInit") \in ToTerminal
    BY DEF Msg, ToTerminal
  <2>4. toVT' \in Seq(ToTerminal) /\ faults' \in 0 .. MaxFaults
    BY <1>0, <1>4, <2>3, ToVTType, FaultType DEF WorkReady, ToVT, Typed
  <2> QED BY <1>2, <1>4, <2>2, <2>4 DEF WorkReady, WorkerKeeps, Typed
<1>5. CASE WorkRequest
  <2>1. client.state \in SendState
    BY <1>5 DEF WorkRequest
  <2>2. Request[client.state].wait \in WaitState /\ Request[client.state].wait \in State
    BY <2>1, States DEF WaitState
  <2>3. Msg(Request[client.state].fn) \in ToTerminal
    BY <2>1, Requests, RequestTable DEF Msg, ToTerminal
  <2>4. client' \in ClientType
    BY <1>0, <1>1, <1>5, <2>2 DEF WorkRequest, ClientType
  <2>5. toVT' \in Seq(ToTerminal) /\ faults' \in 0 .. MaxFaults
    BY <1>0, <1>5, <2>3, ToVTType, FaultType DEF WorkRequest, ToVT
  <2> QED BY <1>2, <1>5, <2>4, <2>5 DEF WorkRequest, WorkerKeeps, Typed
<1>6. CASE WorkUpload
  <2> DEFINE c == IF UploadPass.all THEN SetState(UploadPass.c, "SendEndOfObjectPool") ELSE UploadPass.c
  <2>1. UploadPass.c \in ClientType /\ UploadPass.sent \in 0 .. NPools
    BY <1>0, UploadPassType DEF PassType
  <2>2. c \in ClientType
    BY <2>1, SetStateType, States, Requests
  <2>3. /\ client' = c \/ client' = [c EXCEPT !.upload = "Uninitialized", !.work = "upload"]
        /\ transfer' = transfer \/ transfer' = [NoTransfer EXCEPT !.pool = UploadPass.sent]
        /\ faults' = faults \/ Fault
        /\ UNCHANGED <<toVT, cmd>>
    BY <1>6 DEF WorkUpload
  <2> HIDE DEF c
  <2>4. client' \in ClientType
    BY <2>2, <2>3 DEF ClientType
  <2>5. transfer' \in TransferType
    BY <2>1, <2>3, NoTransferType DEF Typed, TransferType
  <2>6. faults' \in 0 .. MaxFaults
    BY <1>0, <2>3, FaultType
  <2> QED BY <1>2, <2>3, <2>4, <2>5, <2>6 DEF Typed
<1>7. CASE WorkQueue
  <2>1. cmd.awaiting \in BOOLEAN
    BY CmdParts
  <2> QED BY <1>2, <1>7, <2>1, QueueStep DEF WorkQueue, Typed
<1> QED BY <1>3, <1>4, <1>5, <1>6, <1>7 DEF Worker

\* The message at the head of a line, and the rest of it
LEMMA ReadType ==
  ASSUME Typed, toECU # <<>>
  PROVE  Head(toECU) \in ToClient /\ Tail(toECU) \in Seq(ToClient)
BY DEF Typed

LEMMA ServeType ==
  ASSUME Typed, toVT # <<>>
  PROVE  Head(toVT) \in ToTerminal /\ Tail(toVT) \in Seq(ToTerminal)
BY DEF Typed

LEMMA TakenOverType ==
  ASSUME Typed, NEW m, m.obj \in Object, m.val \in Value
  PROVE  TakenOver(m) \in HelperType
BY DEF TakenOver, Typed, HelperType

LEMMA ReadingType ==
  ASSUME Typed, Reading
  PROVE  Typed'
<1>0. client \in ClientType /\ helper \in HelperType
  BY DEF Typed
<1>1. \A s \in State : SetState(client, s) \in ClientType
  BY <1>0, SetStateType
<1>2. toECU # <<>> /\ toECU' = Tail(toECU) /\ UNCHANGED <<config, transfer, terminal, left>>
  BY DEF Reading, Receive, ReceiveAcknowledge, ReceiveGetMemory, ReceiveGetNumberOfSoftKeys,
         ReceiveGetTextFontData, ReceiveGetHardware, ReceiveGetVersionsResponse, ReceiveLoadVersion,
         ReceiveStoreVersion, ReceiveEndOfObjectPool, ReceiveCommandResponse, ReceiveChangeNumericValue,
         ReceiveDeleteVersion, Answered, Received, Reads
<1>3. toECU' \in Seq(ToClient) /\ Head(toECU) \in ToClient
  BY <1>2, ReadType
<1>4. CASE \/ ReceiveAcknowledge \/ ReceiveGetMemory \/ ReceiveGetNumberOfSoftKeys
           \/ ReceiveGetTextFontData \/ ReceiveGetHardware \/ ReceiveLoadVersion
           \/ ReceiveStoreVersion \/ ReceiveEndOfObjectPool
  <2>1. client.state \in State
    BY <1>0 DEF ClientType
  <2>2. client' \in ClientType
    BY <1>0, <1>1, <1>4, <2>1, States, Requests
       DEF ReceiveAcknowledge, ReceiveGetMemory, ReceiveGetNumberOfSoftKeys, ReceiveGetTextFontData,
           ReceiveGetHardware, ReceiveLoadVersion, ReceiveStoreVersion, ReceiveEndOfObjectPool, Answered
  <2>3. UNCHANGED <<toVT, faults, cmd, helper>>
    BY <1>4 DEF ReceiveAcknowledge, ReceiveGetMemory, ReceiveGetNumberOfSoftKeys, ReceiveGetTextFontData,
           ReceiveGetHardware, ReceiveLoadVersion, ReceiveStoreVersion, ReceiveEndOfObjectPool, Answered
  <2> QED BY <1>2, <1>3, <2>2, <2>3 DEF Typed
<1>5. CASE ReceiveGetVersionsResponse
  <2>1. client' \in ClientType
    BY <1>0, <1>1, <1>5, States, Requests DEF ReceiveGetVersionsResponse
  <2>2. Msg("DeleteOtherVersion") \in ToTerminal
    BY DEF Msg, ToTerminal
  <2>3. toVT' \in {toVT, toVT \o <<Msg("DeleteOtherVersion")>>, toVT \o <<>>}
    BY <1>5 DEF ReceiveGetVersionsResponse, ToVT
  <2>4. toVT' \in Seq(ToTerminal)
    BY <2>2, <2>3, ToVTType DEF Typed
  <2> QED BY <1>2, <1>3, <1>5, <2>1, <2>4 DEF ReceiveGetVersionsResponse, Typed
<1>6. CASE ReceiveCommandResponse
  <2>1. helper' \in HelperType
    <3>1. Head(toECU).fn = "ChangeNumericValue" => Head(toECU).obj \in Object /\ Head(toECU).val \in Value
      BY <1>3 DEF ToClient
    <3> QED BY <1>0, <1>6, <3>1, TakenOverType DEF ReceiveCommandResponse
  <2>2. cmd' \in CmdType /\ toVT' \in Seq(ToTerminal) /\ faults' \in 0 .. MaxFaults
    BY <1>6, QueueStep DEF ReceiveCommandResponse, Typed
  <2> QED BY <1>2, <1>3, <1>6, <2>1, <2>2 DEF ReceiveCommandResponse, Typed
<1>7. CASE ReceiveChangeNumericValue
  <2>1. Head(toECU).obj \in Object /\ Head(toECU).val \in Value
    BY <1>3, <1>7 DEF ReceiveChangeNumericValue, Received, ToClient
  <2>2. helper' \in HelperType
    BY <1>7, <2>1, TakenOverType DEF ReceiveChangeNumericValue
  <2> QED BY <1>2, <1>3, <1>7, <2>2 DEF ReceiveChangeNumericValue, Typed
<1>8. CASE ReceiveDeleteVersion
  BY <1>2, <1>3, <1>8 DEF ReceiveDeleteVersion, Typed
<1> QED BY <1>4, <1>5, <1>6, <1>7, <1>8 DEF Reading, Receive

LEMMA VolTypes ==
  /\ Volatile \in VolType
  /\ AllPools \in Seq(Chunks) /\ NoPools \in Seq(Chunks)
<1>1. <<>> \in Seq(Chunks)
  OBVIOUS
<1>2. \A i \in Pool : [k \in 1 .. NChunks |-> i] \in Chunks
  BY LinkAssumption DEF Chunks, Pool
<1>3. AllPools \in Seq(Chunks)
  BY <1>2, LinkAssumption DEF AllPools, Pool
<1> QED BY <1>1, <1>3 DEF Volatile, VolType, NoPools

LEMMA TerminalParts ==
  ASSUME Typed
  PROVE  /\ terminal.up \in BOOLEAN /\ terminal.own \in Seq(Chunks) /\ terminal.other \in BOOLEAN
         /\ terminal.vol \in VolType /\ vol = terminal.vol
BY DEF Typed, TerminalType, vol

LEMMA ToECUType ==
  ASSUME Typed, NEW m \in ToClient, NEW n \in ToClient
  PROVE  toECU \o <<m>> \in Seq(ToClient) /\ toECU \o (<<m>> \o <<n>>) \in Seq(ToClient)
         /\ toECU \o <<>> \in Seq(ToClient) /\ toECU \o (<<>> \o <<n>>) \in Seq(ToClient)
BY DEF Typed

LEMMA StartParsingType ==
  ASSUME NEW v \in VolType
  PROVE  StartParsing(v) \in VolType
BY DEF StartParsing, VolType

\* What the terminal does to a message, and what it answers
LEMMA ServingType ==
  ASSUME Typed, Serving
  PROVE  Typed'
<1>0. /\ terminal \in TerminalType /\ terminal.vol \in VolType /\ vol = terminal.vol
      /\ terminal.own \in Seq(Chunks) /\ terminal.other \in BOOLEAN /\ faults \in 0 .. MaxFaults
      /\ config.broadcast \in BOOLEAN
  BY TerminalParts, ConfigAssumption DEF Typed
<1>1. toVT # <<>> /\ toVT' = Tail(toVT) /\ UNCHANGED <<config, transfer, client, cmd, helper, left>>
  BY DEF Serving, Serve, Undelivered, CheckIfSourceIsManaged, ServeObjectPoolTransfer, ServeGetMemory,
         ServeCapabilities, ServeGetVersions, ServeLoadVersion, ServeStoreVersion, ServeDeleteVersion,
         ServeEndOfObjectPool, ServeMaintenance, ServeChangeNumericValue, ServeDeleteObjectPool, Arrived
<1>2. Head(toVT) \in ToTerminal /\ toVT' \in Seq(ToTerminal)
  BY <1>1, ServeType
<1>3. SUFFICES terminal' \in TerminalType /\ toECU' \in Seq(ToClient) /\ faults' \in 0 .. MaxFaults
  BY <1>1, <1>2 DEF Typed
<1>4. ASSUME NEW v \in VolType PROVE [terminal EXCEPT !.vol = v] \in TerminalType
  BY <1>0 DEF TerminalType
<1>5. Nack \in ToClient
  BY <1>0 DEF Nack, ToClient
<1>6. toECU \in Seq(ToClient)
  BY DEF Typed
<1>7. CASE CheckIfSourceIsManaged
  <2>1. [terminal EXCEPT !.vol.managed = TRUE] \in TerminalType
    BY <1>0 DEF TerminalType, VolType
  <2> QED BY <1>0, <1>5, <1>6, <1>7, <2>1, ToECUType DEF CheckIfSourceIsManaged, ToECU
<1>8. CASE ServeObjectPoolTransfer
  <2>1. Head(toVT).chunks \in Chunks
    BY <1>2, <1>8 DEF ServeObjectPoolTransfer, Arrived, ToTerminal, Change
  <2>2. Append(terminal.vol.pools, Head(toVT).chunks) \in Seq(Chunks)
    BY <1>0, <2>1 DEF VolType
  <2>3. [terminal EXCEPT !.vol.pools = Append(@, Head(toVT).chunks)] \in TerminalType
    BY <1>0, <2>2 DEF TerminalType, VolType
  <2> QED BY <1>0, <1>6, <1>8, <2>3 DEF ServeObjectPoolTransfer
<1>9. CASE ServeGetMemory \/ ServeCapabilities \/ ServeGetVersions
  <2>1. /\ Response("GetMemory", TRUE) \in ToClient /\ Response("GetMemory", FALSE) \in ToClient
        /\ \A fn \in {"GetSoftKeys", "GetTextFont", "GetHardware"} : Msg(fn) \in ToClient
        /\ [fn |-> "GetVersions", own |-> terminal.own # NoPools, other |-> terminal.other] \in ToClient
    BY <1>0 DEF Response, Msg, ToClient
  <2>2. toECU' \in Seq(ToClient)
    BY <1>9, <2>1, ToECUType DEF ServeGetMemory, ServeCapabilities, ServeGetVersions, ToECU
  <2> QED BY <1>0, <1>9, <2>2, FaultType DEF ServeGetMemory, ServeCapabilities, ServeGetVersions
<1>10. CASE ServeLoadVersion
  <2>1. PICK found \in {terminal.own, NoPools} :
          /\ IF found = terminal.own THEN UNCHANGED faults ELSE Fault
          /\ LET v == [vol EXCEPT !.pools = @ \o found]
             IN  terminal' = [terminal EXCEPT !.vol =
                   IF v.pools = NoPools THEN v ELSE [StartParsing(v) EXCEPT !.loaded = TRUE]]
          /\ ToECU(IF found = NoPools THEN <<Response("LoadVersion", FALSE)>> ELSE <<>>)
    BY <1>10 DEF ServeLoadVersion
  <2> DEFINE v == [vol EXCEPT !.pools = @ \o found]
  <2>2. found \in Seq(Chunks) /\ vol.pools \in Seq(Chunks)
    BY <1>0, VolTypes DEF VolType
  <2>3. v \in VolType
    <3>1. vol.pools \o found \in Seq(Chunks) /\ vol \in VolType
      BY <1>0, <2>2, ConcatProperties
    <3> QED BY <3>1 DEF VolType
  <2>4. terminal' \in TerminalType
    <3>1. StartParsing(v) \in VolType
      BY <2>3, StartParsingType
    <3>2. [StartParsing(v) EXCEPT !.loaded = TRUE] \in VolType
      <4> HIDE DEF v
      <4> QED BY <3>1 DEF VolType
    <3>3. terminal' = [terminal EXCEPT !.vol =
                   IF v.pools = NoPools THEN v ELSE [StartParsing(v) EXCEPT !.loaded = TRUE]]
      BY <2>1
    <3> HIDE DEF v
    <3> QED BY <1>4, <2>3, <3>2, <3>3
  <2>5. Response("LoadVersion", FALSE) \in ToClient
    BY DEF Response, ToClient
  <2>6. toECU' \in Seq(ToClient)
    BY <1>5, <2>1, <2>5, ToECUType DEF ToECU
  <2> QED BY <1>0, <2>1, <2>4, <2>6, FaultType
<1>11. CASE ServeStoreVersion \/ ServeDeleteVersion
  <2>1. /\ Response("StoreVersion", TRUE) \in ToClient /\ Response("StoreVersion", FALSE) \in ToClient
        /\ Msg("DeleteVersion") \in ToClient
    BY DEF Response, Msg, ToClient
  <2>2. /\ [terminal EXCEPT !.own = vol.pools] \in TerminalType
        /\ [terminal EXCEPT !.other = FALSE] \in TerminalType
    BY <1>0 DEF TerminalType, VolType
  <2>3. toECU' \in Seq(ToClient)
    BY <1>5, <1>11, <2>1, ToECUType DEF ServeStoreVersion, ServeDeleteVersion, ToECU
  <2> QED BY <1>0, <1>11, <2>2, <2>3, FaultType DEF ServeStoreVersion, ServeDeleteVersion
<1>12. CASE ServeEndOfObjectPool
  <2>1. StartParsing(terminal.vol) \in VolType
    BY <1>0, StartParsingType
  <2>2. terminal' \in TerminalType
    BY <1>0, <1>4, <1>12, <2>1 DEF ServeEndOfObjectPool
  <2> QED BY <1>0, <1>6, <1>12, <2>2 DEF ServeEndOfObjectPool
<1>13. CASE ServeMaintenance \/ Undelivered
  BY <1>0, <1>6, <1>13 DEF ServeMaintenance, Undelivered
<1>14. CASE ServeChangeNumericValue
  <2>1. Head(toVT).obj \in Object /\ Head(toVT).val \in Value
    BY <1>2, <1>14 DEF ServeChangeNumericValue, Arrived, ToTerminal, Change
  <2>2. [terminal EXCEPT !.vol.value[Head(toVT).obj] = Head(toVT).val,
                         !.vol.set = @ \cup {Head(toVT).obj}] \in TerminalType
    BY <1>0, <2>1 DEF TerminalType, VolType
  <2>3. [fn |-> "ChangeNumericValue", obj |-> Head(toVT).obj, val |-> Head(toVT).val, ok |-> vol.tree]
          \in ToClient
    BY <1>0, <2>1 DEF ToClient, VolType
  <2>4. terminal' \in TerminalType
    BY <1>0, <1>14, <2>2 DEF ServeChangeNumericValue
  <2>5. toECU' \in Seq(ToClient)
    BY <1>14, <2>3, ToECUType DEF ServeChangeNumericValue, ToECU
  <2> QED BY <1>0, <1>14, <2>4, <2>5 DEF ServeChangeNumericValue
<1>15. CASE ServeDeleteObjectPool
  <2>1. Response("DeleteObjectPool", TRUE) \in ToClient
    BY DEF Response, ToClient
  <2> QED BY <1>0, <1>4, <1>15, <2>1, ToECUType, VolTypes DEF ServeDeleteObjectPool, ToECU
<1> QED BY <1>7, <1>8, <1>9, <1>10, <1>11, <1>12, <1>13, <1>14, <1>15 DEF Serving, Serve

LEMMA TerminalSteps ==
  ASSUME Typed, Updating \/ Parsing \/ Operator \/ PoweredOn
  PROVE  Typed'
<1>0. /\ terminal \in TerminalType /\ terminal.vol \in VolType /\ vol = terminal.vol
      /\ toECU \in Seq(ToClient) /\ faults \in 0 .. MaxFaults
  BY TerminalParts DEF Typed
<1>1. UNCHANGED <<config, toVT, transfer, faults, client, cmd, helper>>
  BY DEF Updating, Parsing, Operator, PoweredOn, ServerUpdate, ParseEnds, OperatorChanges, PowerOn
<1>2. SUFFICES terminal' \in TerminalType /\ toECU' \in Seq(ToClient) /\ left' \in LeftType
  BY <1>1 DEF Typed
<1>3. CASE Updating
  <2>1. terminal' \in TerminalType
    BY <1>0, <1>3 DEF Updating, ServerUpdate, TerminalType, VolType
  <2>2. Response("LoadVersion", TRUE) \in ToClient /\ Response("EndOfObjectPool", TRUE) \in ToClient
    BY DEF Response, ToClient
  <2>3. toECU' \in Seq(ToClient)
    BY <1>3, <2>2, ToECUType DEF Updating, ServerUpdate, ToECU
  <2> QED BY <1>3, <2>1, <2>3 DEF Updating, Typed
<1>4. CASE Parsing
  <2>1. PICK result \in {"Success", "Fail"} :
          terminal' = [terminal EXCEPT !.vol.parse = result, !.vol.tree = TRUE,
                                       !.vol.value = [o \in Object |-> 0], !.vol.set = {}]
    BY <1>4 DEF Parsing, ParseEnds
  <2>2. terminal' \in TerminalType
    BY <1>0, <2>1 DEF TerminalType, VolType
  <2> QED BY <1>0, <1>4, <2>2 DEF Parsing, ParseEnds, Typed
<1>5. CASE Operator
  <2>1. PICK o \in Object, v \in Value : OperatorChanges(o, v)
    BY <1>5 DEF Operator
  <2>2. terminal' \in TerminalType
    BY <1>0, <2>1 DEF OperatorChanges, TerminalType, VolType
  <2>3. ValueMsg("VTChangeNumericValue", o, v) \in ToClient
    BY DEF ValueMsg, ToClient
  <2>4. toECU' \in Seq(ToClient)
    BY <2>1, <2>3, ToECUType DEF OperatorChanges, ToECU
  <2>5. left' \in LeftType
    BY <1>5, ConfigAssumption DEF Operator, Typed, LeftType
  <2> QED BY <2>2, <2>4, <2>5
<1>6. CASE PoweredOn
  BY <1>0, <1>6 DEF PoweredOn, PowerOn, TerminalType, Typed
<1> QED BY <1>3, <1>4, <1>5, <1>6

LEMMA OtherSteps ==
  ASSUME Typed, \/ Maintain \/ Calling \/ Lose \/ StatusGrowsOld \/ CommandExpires \/ Asks
                \/ Restarting \/ Status \/ Transfer
  PROVE  Typed'
<1>0. /\ client \in ClientType /\ cmd \in CmdType /\ helper \in HelperType /\ transfer \in TransferType
      /\ toVT \in Seq(ToTerminal) /\ toECU \in Seq(ToClient) /\ faults \in 0 .. MaxFaults
      /\ terminal \in TerminalType /\ left \in LeftType
  BY DEF Typed
<1>1. CASE Maintain
  <2>1. Msg("Maintenance") \in ToTerminal
    BY DEF Msg, ToTerminal
  <2>2. toVT' \in Seq(ToTerminal)
    BY <1>1, <2>1, ToVTType DEF Maintain, WorkMaintain, ToVT
  <2> QED BY <1>1, <2>2 DEF Maintain, WorkMaintain, WorkerKeeps, Typed
<1>2. CASE Calling
  <2>1. cmd.call.pc \in {"check", "send", "mark", "push"} /\ UNCHANGED <<config, toECU, transfer, client, terminal, left>>
    BY <1>2 DEF Calling, CallCheck, CallSend, CallMark, CallPush
  <2>2. /\ cmd.call.obj \in Object /\ cmd.call.val \in Value /\ Command(cmd.call) \in Change
        /\ cmd.call \in [pc : {"check", "send", "mark", "push"}, obj : Object, val : Value]
    BY <2>1, InCall
  <2>3. \A d \in CmdType, pc \in {"check", "send", "mark", "push"} :
          d.call = cmd.call => [d EXCEPT !.call.pc = pc] \in CmdType
    BY <2>2 DEF CmdType, CallType
  <2>4. CASE CallCheck
    BY <1>0, <2>1, <2>3, <2>4 DEF CallCheck, Typed
  <2>5. CASE CallSend
    <3> DEFINE d == Sent(cmd, cmd.call.obj, cmd.call.val)
    <3>1. d \in CmdType /\ d.call = cmd.call
      BY <1>0, <2>2, SentType DEF Sent, CmdType
    <3>2. Command(cmd.call) \in ToTerminal
      BY <2>2 DEF ToTerminal
    <3>3. \/ /\ toVT' = toVT \o <<Command(cmd.call)>> /\ faults' = faults
             /\ cmd' = [d EXCEPT !.call.pc = "mark"]
          \/ Fault /\ toVT' = toVT /\ cmd' = [cmd EXCEPT !.call.pc = "push"]
      BY <2>5 DEF CallSend, ToVT
    <3> HIDE DEF d
    <3>4. cmd' \in CmdType
      BY <1>0, <2>3, <3>1, <3>3
    <3>5. toVT' \in Seq(ToTerminal) /\ faults' \in 0 .. MaxFaults
      BY <1>0, <3>2, <3>3, ToVTType, FaultType
    <3> QED BY <2>1, <2>5, <3>4, <3>5 DEF CallSend, Typed
  <2>6. CASE CallMark \/ CallPush
    <3>1. helper' \in HelperType
      BY <1>0, <2>2, <2>6, SMTT(30) DEF CallMark, CallPush, HelperType
    <3>2. Queued(cmd.queue, Command(cmd.call)) \in Seq(Change)
      BY <2>2, CmdParts, QueuedKeeps
    <3>3. cmd' \in CmdType
      BY <1>0, <2>6, <3>2 DEF CallMark, CallPush, CmdType, CallType
    <3> QED BY <2>1, <2>6, <3>1, <3>3 DEF CallMark, CallPush, Typed
  <2> QED BY <1>2, <2>4, <2>5, <2>6 DEF Calling
<1>3. CASE Lose
  <2>1. faults' \in 0 .. MaxFaults
    BY <1>3, FaultType DEF Lose
  <2>2. toVT' \in Seq(ToTerminal) /\ toECU' \in Seq(ToClient)
    <3>1. <<>> \in Seq(ToTerminal)
      OBVIOUS
    <3> QED BY <1>0, <1>3, <3>1, ReadType, ServeType DEF Lose, PowerOff
  <2>3. transfer' \in TransferType
    BY <1>0, <1>3 DEF Lose, PowerOff, TransferType, NoTransfer
  <2>4. terminal' \in TerminalType
    BY <1>0, <1>3, VolTypes DEF Lose, PowerOff, TerminalType
  <2>5. left' \in LeftType
    BY <1>0, <1>3 DEF Lose, LeftType
  <2> QED BY <1>0, <1>3, <2>1, <2>2, <2>3, <2>4, <2>5 DEF Lose, Typed
<1>4. CASE StatusGrowsOld \/ CommandExpires
  <2>1. faults' \in 0 .. MaxFaults
    BY <1>0, <1>4, FaultType, DueType DEF StatusGrowsOld, CommandExpires
  <2>2. client' \in ClientType /\ cmd' \in CmdType
    BY <1>0, <1>4 DEF StatusGrowsOld, CommandExpires, CommandTimesOut, ClientType, CmdType
  <2> QED BY <1>4, <2>1, <2>2 DEF StatusGrowsOld, CommandExpires, CommandTimesOut, Typed
<1>5. CASE Asks
  <2>1. PICK o \in Object, v \in Value : Call(o, v)
    BY <1>5 DEF Asks
  <2>2. cmd' \in CmdType
    BY <1>0, <2>1 DEF Call, CmdType, CallType
  <2>3. left' \in LeftType
    BY <1>0, <1>5, ConfigAssumption DEF Asks, LeftType
  <2> QED BY <1>5, <2>1, <2>2, <2>3 DEF Asks, Call, Typed
<1>6. CASE Restarting
  <2>1. SetState(client, "Disconnected") \in ClientType
    BY <1>0, SetStateType, States
  <2>2. client' \in ClientType
    BY <1>0, <1>6, <2>1 DEF Restarting, Terminate, Initialize, ClientType
  <2>3. Msg("DeleteObjectPool") \in ToTerminal
    BY DEF Msg, ToTerminal
  <2>4. toVT' \in Seq(ToTerminal)
    <3>1. toVT' \in {toVT, toVT \o <<Msg("DeleteObjectPool")>>, toVT \o <<>>}
      BY <1>6 DEF Restarting, Terminate, Initialize, ToVT
    <3> QED BY SMTT(30), <1>0, <2>3, <3>1, ToVTType
  <2>5. faults' \in 0 .. MaxFaults
    BY <1>0, <1>6, FaultType DEF Restarting, Initialize
  <2> QED BY <1>0, <1>6, <2>2, <2>4, <2>5 DEF Restarting, Terminate, Initialize, Typed
<1>7. CASE Status
  <2>1. vol.active \in BOOLEAN
    BY TerminalParts DEF VolType
  <2>2. client' \in ClientType /\ helper' \in HelperType
    BY <1>0, <1>7, <2>1 DEF Status, ReceiveStatus, ClientType, HelperType
  <2> QED BY <1>0, <1>7, <2>2 DEF Status, ReceiveStatus, Typed
<1>8. CASE Transfer
  <2>1. CASE FetchChunk
    <3> DEFINE open == {i \in Pool : ~client.uploaded[i]}
              i == IF open = {} THEN 0 ELSE CHOOSE j \in open : \A k \in open : j <= k
    <3>1. i \in 0 .. NPools
      <4>1. open \in SUBSET Nat /\ open \subseteq 0 .. NPools
        BY LinkAssumption DEF Pool
      <4>2. open # {} => i \in open
        <5> HIDE DEF open
        <5> QED BY <4>1, First
      <4>3. 0 \in 0 .. NPools
        BY LinkAssumption
      <4> QED BY <4>1, <4>2, <4>3
    <3>2. transfer' = [transfer EXCEPT !.chunks = Append(@, i)] /\ UNCHANGED <<config, toVT, toECU, faults, client, cmd, helper>>
      BY <2>1 DEF FetchChunk
    <3> HIDE DEF i
    <3>3. Append(transfer.chunks, i) \in Chunks
      BY <1>0, <3>1 DEF TransferType, Chunks
    <3>4. transfer' \in TransferType
      BY <1>0, <3>2, <3>3 DEF TransferType
    <3> QED BY <1>0, <1>8, <3>2, <3>4 DEF Transfer, Typed
  <2>2. CASE TransferSucceeds
    <3>1. [fn |-> "ObjectPoolTransfer", pool |-> transfer.pool, chunks |-> transfer.chunks] \in ToTerminal
      BY <1>0 DEF ToTerminal, TransferType
    <3>2. toVT' \in Seq(ToTerminal)
      BY <2>2, <3>1, ToVTType DEF TransferSucceeds, ToVT
    <3>3. client' \in ClientType
      BY <1>0, <2>2 DEF TransferSucceeds, Reported, ClientType
    <3> QED BY <1>0, <1>8, <2>2, <3>2, <3>3, NoTransferType DEF Transfer, TransferSucceeds, Typed
  <2>3. CASE (IF transfer.broken THEN UNCHANGED faults ELSE Fault) /\ TransferFails
    <3>1. client' \in ClientType
      BY <1>0, <2>3 DEF TransferFails, Reported, ClientType
    <3> QED BY <1>0, <1>8, <2>3, <3>1, NoTransferType, FaultType DEF Transfer, TransferFails, Typed
  <2> QED BY <1>8, <2>1, <2>2, <2>3 DEF Transfer
<1> QED BY <1>1, <1>2, <1>3, <1>4, <1>5, <1>6, <1>7, <1>8

LEMMA TypedInit ==
  ASSUME Init
  PROVE  Typed
<1>1. config \in Config /\ faults \in 0 .. MaxFaults /\ transfer \in TransferType /\ left \in LeftType
      /\ toVT \in Seq(ToTerminal) /\ toECU \in Seq(ToClient)
  BY LinkAssumption, ConfigAssumption, NoTransferType DEF Init, LeftType
<1>2. client \in ClientType /\ helper \in HelperType
  BY States DEF Init, ClientInit, ClientType, HelperType
<1>3. cmd \in CmdType
  <2>1. <<>> \in Seq(Change)
    OBVIOUS
  <2> QED BY <2>1 DEF Init, ClientInit, CmdType, CallType
<1>4. terminal \in TerminalType
  BY VolTypes DEF Init, ServerInit, TerminalType
<1> QED BY <1>1, <1>2, <1>3, <1>4 DEF Typed

LEMMA TypedStep ==
  ASSUME Typed, [Next]_vars
  PROVE  Typed'
<1>1. CASE UNCHANGED vars
  BY <1>1 DEF vars, Typed
<1> QED BY <1>1, WorkerType, ReadingType, ServingType, TerminalSteps, OtherSteps DEF Next

LEMMA AlwaysTyped == Spec => []Typed
<1>1. Init => Typed
  BY TypedInit
<1>2. Typed /\ [Next]_vars => Typed'
  BY TypedStep
<1> QED BY <1>1, <1>2, PTL DEF Spec

\* Client, queue of commands, helper and terminal keep their types, for every
\* number of pools, chunks, objects, values, calls and faults
THEOREM TypeCorrect == Spec => []TypeOK
<1>1. Typed => TypeOK
  BY TypedIsTypeOK
<1> QED BY <1>1, AlwaysTyped, PTL

-----------------------------------------------------------------------------
(* A value that was accepted is not forgotten before it is sent *)

\* The value of a call that has not sent it is the last one asked for; a value
\* that is owed is in such a call or in the queue
KeptInv ==
  /\ cmd.call.pc \in {"check", "send", "push"} => cmd.last[cmd.call.obj] = cmd.call.val
  /\ \A o \in Object : cmd.owed[o] =>
       \/ cmd.call.pc \in {"check", "send", "push"} /\ cmd.call.obj = o
       \/ ValueMsg("ChangeNumericValue", o, cmd.last[o]) \in Range(cmd.queue)

LEMMA KeptIsAccepted ==
  ASSUME KeptInv
  PROVE  AcceptedIsKept
BY DEF KeptInv, AcceptedIsKept, NoCall

\* The command that goes out was owed no longer, or its value is not the last
LEMMA KeptQueueStep ==
  ASSUME Typed, KeptInv, NEW awaiting \in BOOLEAN, ProcessCommandQueue(awaiting)
  PROVE  KeptInv'
<1>0. cmd \in CmdType
  BY DEF Typed
<1> DEFINE d == [cmd EXCEPT !.awaiting = awaiting]
<1>1. CASE cmd' = d
  BY <1>0, <1>1 DEF KeptInv, CmdType
<1>2. ASSUME NEW i \in 1 .. Len(cmd.queue),
             cmd' = [Sent(d, cmd.queue[i].obj, cmd.queue[i].val)
                       EXCEPT !.queue = Without(cmd.queue, i), !.awaiting = TRUE]
      PROVE  KeptInv'
  <2>1. /\ cmd.queue \in Seq(Change) /\ cmd.queue[i] \in Change
        /\ \A j \in 1 .. Len(cmd.queue) : j # i => cmd.queue[j] \in Range(Without(cmd.queue, i))
    BY CmdParts, WithoutKeeps
  <2>2. /\ cmd'.call = cmd.call /\ cmd'.last = cmd.last /\ cmd'.queue = Without(cmd.queue, i)
        /\ \A o \in Object : cmd'.owed[o] =>
             cmd.owed[o] /\ (o = cmd.queue[i].obj => cmd.last[o] # cmd.queue[i].val)
    BY <1>0, <1>2, <2>1 DEF Sent, CmdType, Change
  <2>3. ASSUME NEW o \in Object, cmd'.owed[o],
               ValueMsg("ChangeNumericValue", o, cmd.last[o]) \in Range(cmd.queue)
        PROVE  ValueMsg("ChangeNumericValue", o, cmd.last[o]) \in Range(Without(cmd.queue, i))
    <3>1. PICK j \in 1 .. Len(cmd.queue) : cmd.queue[j] = ValueMsg("ChangeNumericValue", o, cmd.last[o])
      BY <2>1, <2>3 DEF Range
    <3>2. j # i
      BY <2>2, <2>3, <3>1 DEF ValueMsg
    <3> QED BY <2>1, <3>1, <3>2
  <2> QED BY <2>2, <2>3 DEF KeptInv
<1> QED BY <1>1, <1>2 DEF ProcessCommandQueue

LEMMA KeptStep ==
  ASSUME Typed, KeptInv, [Next]_vars
  PROVE  KeptInv'
<1>0. cmd \in CmdType /\ cmd.queue \in Seq(Change)
  BY CmdParts DEF Typed
<1>1. CASE cmd' = cmd \/ (\E b \in BOOLEAN : cmd' = [cmd EXCEPT !.awaiting = b])
  BY <1>0, <1>1 DEF KeptInv, CmdType
<1>2. CASE Worker
  <2>1. CASE WorkQueue
    BY <2>1, KeptQueueStep, CmdParts DEF WorkQueue
  <2>2. CASE ~WorkQueue
    BY <1>1, <1>2, <2>2 DEF Worker, WorkDisconnected, WorkStatusHeard, WorkMaster, WorkReady, WorkRequest,
       WorkRequested, WorkRetry, WorkConnected, WorkUpload, WorkUploadStarted, WorkTimesOut, WorkerKeeps
  <2> QED BY <2>1, <2>2
<1>3. CASE Reading
  <2>1. CASE ReceiveCommandResponse
    BY <1>1, <2>1, KeptQueueStep DEF ReceiveCommandResponse
  <2>2. CASE ~ReceiveCommandResponse
    BY <1>1, <1>3, <2>2 DEF Reading, Receive, ReceiveAcknowledge, ReceiveGetMemory,
       ReceiveGetNumberOfSoftKeys, ReceiveGetTextFontData, ReceiveGetHardware,
       ReceiveGetVersionsResponse, ReceiveLoadVersion, ReceiveStoreVersion, ReceiveEndOfObjectPool,
       ReceiveChangeNumericValue, ReceiveDeleteVersion, Answered
  <2> QED BY <2>1, <2>2
<1>4. CASE CallCheck
  BY <1>0, <1>4 DEF CallCheck, KeptInv, CmdType, CallType, NoCall
<1>5. CASE CallSend
  <2>1. cmd.call \in [pc : {"check", "send", "mark", "push"}, obj : Object, val : Value]
    BY <1>5, InCall DEF CallSend
  <2>2. CASE cmd' = [cmd EXCEPT !.call.pc = "push"]
    BY <1>0, <1>5, <2>1, <2>2 DEF CallSend, KeptInv, CmdType
  <2>3. CASE cmd' = [Sent(cmd, cmd.call.obj, cmd.call.val) EXCEPT !.call.pc = "mark"]
    <3>1. /\ cmd'.call.pc = "mark" /\ cmd'.last = cmd.last /\ cmd'.queue = cmd.queue
          /\ \A o \in Object : cmd'.owed[o] => cmd.owed[o]
          /\ ~cmd'.owed[cmd.call.obj]
      BY <1>0, <1>5, <2>1, <2>3 DEF CallSend, Sent, KeptInv, CmdType
    <3> QED BY <1>5, <3>1 DEF CallSend, KeptInv
  <2> QED BY <1>5, <2>2, <2>3 DEF CallSend
<1>6. CASE CallMark
  BY <1>0, <1>6 DEF CallMark, KeptInv, CmdType, NoCall
<1>7. CASE CallPush
  <2>1. Command(cmd.call) \in Change /\ Command(cmd.call).obj = cmd.call.obj
    BY <1>7, InCall DEF CallPush, Command, ValueMsg
  <2>2. /\ Command(cmd.call) \in Range(Queued(cmd.queue, Command(cmd.call)))
        /\ \A e \in Range(cmd.queue) : e.obj # cmd.call.obj => e \in Range(Queued(cmd.queue, Command(cmd.call)))
    BY <1>0, <2>1, QueuedKeeps
  <2>3. cmd'.call = NoCall /\ cmd'.last = cmd.last /\ cmd'.owed = cmd.owed
        /\ cmd'.queue = Queued(cmd.queue, Command(cmd.call))
    BY <1>0, <1>7 DEF CallPush, CmdType
  <2>4. cmd.last[cmd.call.obj] = cmd.call.val
    BY <1>7 DEF CallPush, KeptInv
  <2> QED BY <2>2, <2>3, <2>4 DEF KeptInv, Command, ValueMsg, NoCall
<1>8. CASE Asks
  <2>1. PICK o \in Object, v \in Value : Call(o, v)
    BY <1>8 DEF Asks
  <2>2. /\ cmd.call = NoCall /\ cmd'.call = [pc |-> "check", obj |-> o, val |-> v]
        /\ cmd'.last = [cmd.last EXCEPT ![o] = v] /\ cmd'.queue = cmd.queue
        /\ cmd'.owed = [cmd.owed EXCEPT ![o] = TRUE]
    BY <1>0, <2>1 DEF Call, CmdType
  <2> QED BY <1>0, <2>2 DEF KeptInv, NoCall, CmdType
<1>9. CASE CommandExpires
  BY <1>1, <1>9 DEF CommandExpires, CommandTimesOut
<1>10. CASE Maintain \/ Serving \/ Updating \/ Parsing \/ Lose \/ PoweredOn \/ StatusGrowsOld
            \/ Operator \/ Restarting \/ Status \/ Transfer
  BY <1>1, <1>10 DEF Maintain, Serving, Updating, Parsing, Lose, PoweredOn, StatusGrowsOld, Operator,
     Restarting, Terminate, Initialize, Status, ReceiveStatus, Transfer, FetchChunk, TransferSucceeds,
     TransferFails, WorkMaintain, WorkerKeeps
<1>11. CASE UNCHANGED vars
  BY <1>1, <1>11 DEF vars
<1> QED BY <1>2, <1>3, <1>4, <1>5, <1>6, <1>7, <1>8, <1>9, <1>10, <1>11 DEF Next, Calling

\* The last value the application asked for, of every object, is in its call, in
\* the queue of commands or has gone out: replace_command, process_command_queue
\* and a call from another thread do not lose it, whatever fails and restarts
THEOREM AcceptedValuesKept == Spec => []AcceptedIsKept
<1>1. Init => KeptInv
  BY DEF Init, ClientInit, KeptInv, NoCall
<1>2. Typed /\ KeptInv /\ [Next]_vars => KeptInv'
  BY KeptStep
<1>3. KeptInv => AcceptedIsKept
  BY KeptIsAccepted
<1> QED BY <1>1, <1>2, <1>3, AlwaysTyped, PTL DEF Spec

-----------------------------------------------------------------------------
(* The helper's copy of a value *)

\* What is not managed, or off, has nothing; a value is set in a parsed pool
VolInv ==
  /\ ~terminal.up \/ ~vol.managed => vol = Volatile
  /\ vol.set # {} => vol.tree

\* The helper has heard of a value only from a terminal it listens to
ServerInv ==
  ~helper.server =>
    helper.told = {} /\ \A i \in DOMAIN toECU : toECU[i].fn # "VTChangeNumericValue"

\* A message that says to the helper what the value of o is now
Tells(m, o) ==
  /\ m.fn \in {"ChangeNumericValue", "VTChangeNumericValue"} /\ m.obj = o
  /\ m.fn = "ChangeNumericValue" => m.ok
Silent(q, o) == \A i \in DOMAIN q : ~Tells(q[i], o)
LastSays(q, o, v) ==
  \A i \in DOMAIN q :
    Tells(q[i], o) /\ (\A j \in DOMAIN q : j > i => ~Tells(q[j], o)) => q[i].val = v

\* A change of o that the terminal has not seen
Changes(m, o) == m.fn = "ChangeNumericValue" /\ m.obj = o
Pending(o, line, queue) ==
  \/ \E i \in DOMAIN line : Changes(line[i], o)
  \/ \E e \in Range(queue) : e.obj = o

\* Of a value that was set: the last message under way says what it is; when
\* none is, the copy is right, or a change is on its way to the terminal
Agrees(o) ==
  /\ LastSays(toECU, o, vol.value[o])
  /\ Silent(toECU, o) =>
       /\ o \in helper.told => helper.value[o] = vol.value[o] \/ Pending(o, toVT, cmd.queue)
       /\ cmd.call.pc = "mark" /\ cmd.call.obj = o => Pending(o, toVT, cmd.queue)
AgreeInv == left.lossless /\ ~config.threaded => \A o \in vol.set : Agrees(o)

\* Messages that are read and messages that are sent
LEMMA TailValues ==
  ASSUME NEW S, NEW q \in Seq(S), q # <<>>
  PROVE  /\ DOMAIN Tail(q) = 1 .. Len(q) - 1 /\ DOMAIN q = 1 .. Len(q) /\ Len(q) \in Nat \ {0}
         /\ 1 \in DOMAIN q /\ Head(q) = q[1]
         /\ \A i \in DOMAIN Tail(q) : i + 1 \in DOMAIN q /\ Tail(q)[i] = q[i + 1]
         /\ \A i \in DOMAIN q : i # 1 => i - 1 \in DOMAIN Tail(q) /\ q[i] = Tail(q)[i - 1]
OBVIOUS

LEMMA SendValues ==
  ASSUME NEW S, NEW q \in Seq(S), NEW m \in S
  PROVE  /\ DOMAIN (q \o <<m>>) = 1 .. Len(q) + 1 /\ DOMAIN q = 1 .. Len(q) /\ Len(q) \in Nat
         /\ \A i \in DOMAIN q : (q \o <<m>>)[i] = q[i]
         /\ (q \o <<m>>)[Len(q) + 1] = m
OBVIOUS

LEMMA TailSays ==
  ASSUME NEW S, NEW q \in Seq(S), q # <<>>, NEW o, NEW v
  PROVE  /\ LastSays(q, o, v) => LastSays(Tail(q), o, v)
         /\ Silent(q, o) => Silent(Tail(q), o)
         /\ Silent(Tail(q), o) /\ ~Silent(q, o) =>
              Tells(Head(q), o) /\ (LastSays(q, o, v) => Head(q).val = v)
<1>1. ASSUME LastSays(q, o, v) PROVE LastSays(Tail(q), o, v)
  <2> SUFFICES ASSUME NEW i \in DOMAIN Tail(q), Tells(Tail(q)[i], o),
                      \A j \in DOMAIN Tail(q) : j > i => ~Tells(Tail(q)[j], o)
               PROVE  Tail(q)[i].val = v
    BY DEF LastSays
  <2>1. ASSUME NEW j \in DOMAIN q, j > i + 1 PROVE ~Tells(q[j], o)
    <3>1. j # 1 /\ j - 1 > i
      BY <2>1, TailValues
    <3>2. j - 1 \in DOMAIN Tail(q) /\ q[j] = Tail(q)[j - 1]
      BY <3>1, TailValues
    <3> QED BY <3>1, <3>2
  <2>2. i + 1 \in DOMAIN q /\ Tells(q[i + 1], o) /\ Tail(q)[i] = q[i + 1]
    BY TailValues
  <2> QED BY <1>1, <2>1, <2>2 DEF LastSays
<1>2. Silent(q, o) => Silent(Tail(q), o)
  BY TailValues DEF Silent
<1>3. ASSUME Silent(Tail(q), o), ~Silent(q, o)
      PROVE  Tells(Head(q), o) /\ (LastSays(q, o, v) => Head(q).val = v)
  <2>1. \A j \in DOMAIN q : j # 1 => ~Tells(q[j], o)
    BY <1>3, TailValues DEF Silent
  <2>2. 1 \in DOMAIN q /\ Head(q) = q[1] /\ Tells(q[1], o)
    BY <1>3, <2>1, TailValues DEF Silent
  <2>3. \A j \in DOMAIN q : j > 1 => ~Tells(q[j], o)
    BY <2>1
  <2> QED BY <2>2, <2>3 DEF LastSays
<1> QED BY <1>1, <1>2, <1>3

LEMMA SendSays ==
  ASSUME NEW S, NEW q \in Seq(S), NEW m \in S, NEW o, NEW v
  PROVE  /\ ~Tells(m, o) => /\ LastSays(q, o, v) => LastSays(q \o <<m>>, o, v)
                            /\ Silent(q \o <<m>>, o) => Silent(q, o)
         /\ Tells(m, o) => LastSays(q \o <<m>>, o, m.val) /\ ~Silent(q \o <<m>>, o)
<1> DEFINE r == q \o <<m>>
<1>0. /\ DOMAIN r = 1 .. Len(q) + 1 /\ DOMAIN q = 1 .. Len(q) /\ Len(q) \in Nat
      /\ \A i \in DOMAIN q : r[i] = q[i]
      /\ r[Len(q) + 1] = m
  BY SendValues
<1> HIDE DEF r
<1>1. ASSUME ~Tells(m, o), LastSays(q, o, v) PROVE LastSays(r, o, v)
  <2> SUFFICES ASSUME NEW i \in DOMAIN r, Tells(r[i], o), \A j \in DOMAIN r : j > i => ~Tells(r[j], o)
               PROVE  r[i].val = v
    BY DEF LastSays
  <2>1. i # Len(q) + 1
    BY <1>0, <1>1
  <2>2. i \in DOMAIN q /\ r[i] = q[i]
    BY <1>0, <2>1
  <2>3. \A j \in DOMAIN q : j > i => ~Tells(q[j], o)
    BY <1>0
  <2> QED BY <1>1, <2>2, <2>3 DEF LastSays
<1>2. ASSUME ~Tells(m, o), Silent(r, o) PROVE Silent(q, o)
  BY <1>0, <1>2 DEF Silent
<1>3. ASSUME Tells(m, o) PROVE LastSays(r, o, m.val) /\ ~Silent(r, o)
  <2>1. Len(q) + 1 \in DOMAIN r /\ \A i \in DOMAIN r : i # Len(q) + 1 => Len(q) + 1 > i
    BY <1>0
  <2> QED BY <1>0, <1>3, <2>1 DEF LastSays, Silent
<1> QED BY <1>1, <1>2, <1>3 DEF r

LEMMA PendingSend ==
  ASSUME NEW S, NEW q \in Seq(S), NEW m \in S, NEW o, NEW c
  PROVE  /\ Pending(o, q, c) => Pending(o, q \o <<m>>, c)
         /\ Changes(m, o) => Pending(o, q \o <<m>>, c)
<1>1. Len(q) + 1 \in DOMAIN (q \o <<m>>) /\ \A i \in DOMAIN q : i \in DOMAIN (q \o <<m>>)
  BY SendValues
<1> QED BY <1>1, SendValues DEF Pending

LEMMA PendingTail ==
  ASSUME NEW S, NEW q \in Seq(S), q # <<>>, NEW o, NEW c, ~Changes(Head(q), o), Pending(o, q, c)
  PROVE  Pending(o, Tail(q), c)
BY TailValues DEF Pending

LEMMA VolStep ==
  ASSUME Typed, VolInv, [Next]_vars
  PROVE  VolInv'
<1>0. /\ terminal \in TerminalType /\ terminal.vol \in VolType /\ vol = terminal.vol
      /\ Volatile.set = {} /\ Volatile.managed = FALSE /\ Volatile.parse = "None" /\ Volatile.active = FALSE
  BY TerminalParts DEF Volatile, Typed
<1>1. CASE UNCHANGED terminal
  BY <1>1 DEF VolInv, vol
<1>2. CASE Serving
  <2>1. CASE CheckIfSourceIsManaged
    <3>1. terminal.up /\ terminal.vol.set = {}
      BY <1>0, <2>1 DEF CheckIfSourceIsManaged, VolInv
    <3>2. CASE terminal' = [terminal EXCEPT !.vol.managed = TRUE]
      <4>1. terminal'.up /\ terminal'.vol.managed /\ terminal'.vol.set = {}
        BY <1>0, <3>1, <3>2 DEF TerminalType, VolType
      <4> QED BY <4>1 DEF VolInv, vol
    <3> QED BY <1>1, <2>1, <3>2 DEF CheckIfSourceIsManaged
  <2>2. CASE ServeChangeNumericValue
    BY <1>0, <2>2 DEF ServeChangeNumericValue, Arrived, VolInv, vol, TerminalType, VolType
  <2>3. CASE ServeDeleteObjectPool
    BY <1>0, <2>3 DEF ServeDeleteObjectPool, VolInv, vol, TerminalType
  <2>4. CASE ServeLoadVersion
    BY <1>0, <2>4 DEF ServeLoadVersion, Arrived, StartParsing, VolInv, vol, TerminalType, VolType
  <2>5. CASE \/ ServeObjectPoolTransfer \/ ServeStoreVersion \/ ServeDeleteVersion \/ ServeEndOfObjectPool
    <3>1. terminal.up /\ terminal.vol.managed
      BY <1>0, <2>5 DEF ServeObjectPoolTransfer, ServeStoreVersion, ServeDeleteVersion,
         ServeEndOfObjectPool, Arrived
    <3>2. /\ terminal'.up /\ terminal'.vol.managed /\ terminal'.vol.set = terminal.vol.set
          /\ terminal'.vol.tree = terminal.vol.tree
      <4>1. CASE ServeObjectPoolTransfer
        BY <1>0, <3>1, <4>1 DEF ServeObjectPoolTransfer, TerminalType, VolType
      <4>2. CASE ServeStoreVersion \/ ServeDeleteVersion
        BY <1>0, <3>1, <4>2 DEF ServeStoreVersion, ServeDeleteVersion, TerminalType
      <4>3. CASE ServeEndOfObjectPool
        BY <1>0, <3>1, <4>3 DEF ServeEndOfObjectPool, StartParsing, TerminalType, VolType
      <4> QED BY <2>5, <4>1, <4>2, <4>3
    <3> QED BY <3>2 DEF VolInv, vol
  <2>6. CASE \/ ServeGetMemory \/ ServeCapabilities \/ ServeGetVersions \/ ServeMaintenance \/ Undelivered
    BY <1>1, <2>6 DEF ServeGetMemory, ServeCapabilities, ServeGetVersions, ServeMaintenance, Undelivered
  <2> QED BY <1>2, <2>1, <2>2, <2>3, <2>4, <2>5, <2>6 DEF Serving, Serve
<1>3. CASE Updating \/ Parsing
  <2>1. terminal.vol.parse # "None"
    BY <1>0, <1>3 DEF Updating, Parsing, ServerUpdate, ParseEnds
  <2>2. terminal.up /\ terminal.vol.managed
    BY <1>0, <2>1 DEF VolInv
  <2>3. CASE Updating
    <3>1. /\ terminal'.up /\ terminal'.vol.managed /\ terminal'.vol.set = terminal.vol.set
          /\ terminal'.vol.tree = terminal.vol.tree
      BY <1>0, <2>2, <2>3 DEF Updating, ServerUpdate, TerminalType, VolType
    <3> QED BY <3>1 DEF VolInv, vol
  <2>4. CASE Parsing
    <3>0. PICK result \in {"Success", "Fail"} :
            terminal' = [terminal EXCEPT !.vol.parse = result, !.vol.tree = TRUE,
                                         !.vol.value = [o \in Object |-> 0], !.vol.set = {}]
      BY <2>4 DEF Parsing, ParseEnds
    <3>1. terminal'.up /\ terminal'.vol.managed /\ terminal'.vol.tree
      BY <1>0, <2>2, <3>0 DEF TerminalType, VolType
    <3> QED BY <3>1 DEF VolInv, vol
  <2> QED BY <1>3, <2>3, <2>4
<1>4. CASE Operator
  <2>1. PICK o \in Object, v \in Value : OperatorChanges(o, v)
    BY <1>4 DEF Operator
  <2>2. terminal.up /\ terminal.vol.managed
    BY <1>0, <2>1 DEF OperatorChanges, VolInv
  <2>3. terminal'.up /\ terminal'.vol.managed /\ terminal'.vol.tree
    BY <1>0, <2>1, <2>2 DEF OperatorChanges, TerminalType, VolType
  <2> QED BY <2>3 DEF VolInv, vol
<1>5. CASE Lose \/ PoweredOn
  BY <1>0, <1>1, <1>5 DEF Lose, PowerOff, PoweredOn, PowerOn, VolInv, vol, TerminalType
<1>6. CASE Worker \/ Maintain \/ Calling \/ StatusGrowsOld \/ CommandExpires \/ Asks \/ Restarting
           \/ Reading \/ Status \/ Transfer
  BY <1>1, <1>6 DEF Worker, Maintain, Calling, StatusGrowsOld, CommandExpires, Asks, Restarting,
     Reading, Status, Transfer
<1>7. CASE UNCHANGED vars
  BY <1>1, <1>7 DEF vars
<1> QED BY <1>2, <1>3, <1>4, <1>5, <1>6, <1>7 DEF Next

\* What the terminal sends in a step: nothing, one message or two
LEMMA TerminalSends ==
  ASSUME Typed, Serving \/ Updating
  PROVE  \/ toECU' = toECU
         \/ \E m \in ToClient : /\ toECU' = toECU \o <<m>> /\ m.fn # "VTChangeNumericValue"
                                /\ m.fn = "ChangeNumericValue" => ServeChangeNumericValue
         \/ \E m, n \in ToClient : /\ toECU' = (toECU \o <<m>>) \o <<n>>
                                   /\ m.fn = "LoadVersion" /\ n.fn = "EndOfObjectPool"
<1>0. toECU \in Seq(ToClient) /\ toECU \o <<>> = toECU /\ config.broadcast \in BOOLEAN
      /\ terminal.other \in BOOLEAN
  BY ConfigAssumption, ConcatEmptySeq, TerminalParts DEF Typed
<1>1. CASE CheckIfSourceIsManaged \/ ServeStoreVersion
  <2>1. Nack \in ToClient /\ Nack.fn = "Nack"
    BY <1>0 DEF Nack, ToClient
  <2>2. \A b \in BOOLEAN : Response("StoreVersion", b) \in ToClient /\ Response("StoreVersion", b).fn = "StoreVersion"
    BY DEF Response, ToClient
  <2> QED BY <1>1, <2>1, <2>2 DEF CheckIfSourceIsManaged, ServeStoreVersion, ToECU
<1>2. CASE ServeGetMemory \/ ServeDeleteVersion \/ ServeDeleteObjectPool \/ ServeLoadVersion
  <2>1. \A b \in BOOLEAN, fn \in {"GetMemory", "LoadVersion", "DeleteObjectPool"} :
          Response(fn, b) \in ToClient /\ Response(fn, b).fn = fn
    BY DEF Response, ToClient
  <2>2. Msg("DeleteVersion") \in ToClient /\ Msg("DeleteVersion").fn = "DeleteVersion"
    BY DEF Msg, ToClient
  <2> QED BY <1>0, <1>2, <2>1, <2>2 DEF ServeGetMemory, ServeDeleteVersion, ServeDeleteObjectPool,
       ServeLoadVersion, ToECU
<1>3. CASE ServeCapabilities \/ ServeGetVersions
  <2>1. \A fn \in {"GetSoftKeys", "GetTextFont", "GetHardware"} : Msg(fn) \in ToClient /\ Msg(fn).fn = fn
    BY DEF Msg, ToClient
  <2>2. [fn |-> "GetVersions", own |-> terminal.own # NoPools, other |-> terminal.other] \in ToClient
    BY <1>0 DEF ToClient
  <2> QED BY <1>3, <2>1, <2>2 DEF ServeCapabilities, ServeGetVersions, ToECU
<1>4. CASE ServeChangeNumericValue
  <2>1. Head(toVT) \in ToTerminal /\ Head(toVT).fn = "ChangeNumericValue" /\ vol.tree \in BOOLEAN
    BY <1>4, ServeType, TerminalParts DEF ServeChangeNumericValue, Arrived, VolType
  <2>2. [fn |-> "ChangeNumericValue", obj |-> Head(toVT).obj, val |-> Head(toVT).val, ok |-> vol.tree]
          \in ToClient
    BY <2>1 DEF ToTerminal, ToClient, Change
  <2> QED BY <1>4, <2>2 DEF ServeChangeNumericValue, ToECU
<1>5. CASE ServeObjectPoolTransfer \/ ServeEndOfObjectPool \/ ServeMaintenance \/ Undelivered
  BY <1>5 DEF ServeObjectPoolTransfer, ServeEndOfObjectPool, ServeMaintenance, Undelivered
<1>6. CASE Updating
  <2> DEFINE l == Response("LoadVersion", TRUE)
            e == Response("EndOfObjectPool", TRUE)
  <2>1. l \in ToClient /\ l.fn = "LoadVersion" /\ e \in ToClient /\ e.fn = "EndOfObjectPool"
    BY DEF Response, ToClient
  <2>2. toECU' = toECU \o (<<l>> \o <<e>>) \/ toECU' = toECU \o (<<>> \o <<e>>)
    BY <1>6 DEF Updating, ServerUpdate, ToECU
  <2> HIDE DEF l, e
  <2>3. toECU \o (<<l>> \o <<e>>) = (toECU \o <<l>>) \o <<e>> /\ <<>> \o <<e>> = <<e>>
    <3>1. <<l>> \in Seq(ToClient) /\ <<e>> \in Seq(ToClient)
      BY <2>1
    <3> QED BY <1>0, <3>1, ConcatAssociative, ConcatEmptySeq
  <2> QED BY <2>1, <2>2, <2>3
<1> QED BY <1>1, <1>2, <1>3, <1>4, <1>5, <1>6 DEF Serving, Serve

LEMMA ServerStep ==
  ASSUME Typed, ServerInv, [Next]_vars
  PROVE  ServerInv'
<1>0. helper \in HelperType /\ toECU \in Seq(ToClient)
  BY DEF Typed
<1>1. ASSUME toECU' = toECU, UNCHANGED helper PROVE ServerInv'
  BY <1>1 DEF ServerInv
<1>2. CASE Reading
  <2>1. toECU # <<>> /\ toECU' = Tail(toECU)
    BY <1>2 DEF Reading, Receive, ReceiveAcknowledge, ReceiveGetMemory, ReceiveGetNumberOfSoftKeys,
         ReceiveGetTextFontData, ReceiveGetHardware, ReceiveGetVersionsResponse, ReceiveLoadVersion,
         ReceiveStoreVersion, ReceiveEndOfObjectPool, ReceiveCommandResponse, ReceiveChangeNumericValue,
         ReceiveDeleteVersion, Answered, Received, Reads
  <2>2. ASSUME ~helper.server PROVE \A i \in DOMAIN toECU' : toECU'[i].fn # "VTChangeNumericValue"
    BY <1>0, <2>1, <2>2, TailValues DEF ServerInv
  <2>3. helper'.server = helper.server /\ (~helper.server => helper'.told = helper.told)
    <3>1. CASE ReceiveChangeNumericValue
      <4>1. Head(toECU).fn = "VTChangeNumericValue"
        BY <3>1 DEF ReceiveChangeNumericValue, Received
      <4>2. helper.server
        BY <1>0, <2>1, <4>1, TailValues DEF ServerInv
      <4> QED BY <1>0, <3>1, <4>2 DEF ReceiveChangeNumericValue, TakenOver, HelperType
    <3>2. CASE ReceiveCommandResponse
      BY <1>0, <3>2 DEF ReceiveCommandResponse, TakenOver, HelperType
    <3>3. CASE ~ReceiveChangeNumericValue /\ ~ReceiveCommandResponse
      BY <1>2, <3>3 DEF Reading, Receive, ReceiveAcknowledge, ReceiveGetMemory, ReceiveGetNumberOfSoftKeys,
         ReceiveGetTextFontData, ReceiveGetHardware, ReceiveGetVersionsResponse, ReceiveLoadVersion,
         ReceiveStoreVersion, ReceiveEndOfObjectPool, ReceiveDeleteVersion, Answered
    <3> QED BY <3>1, <3>2, <3>3
  <2> QED BY <2>2, <2>3 DEF ServerInv
<1>3. CASE Serving \/ Updating
  <2>1. UNCHANGED helper
    BY <1>3 DEF Serving, Updating
  <2>2. ASSUME NEW q \in Seq(ToClient), NEW m \in ToClient, m.fn # "VTChangeNumericValue",
               \A i \in DOMAIN q : q[i].fn # "VTChangeNumericValue"
        PROVE  \A i \in DOMAIN (q \o <<m>>) : (q \o <<m>>)[i].fn # "VTChangeNumericValue"
    BY <2>2, SendValues
  <2>3. ASSUME \A i \in DOMAIN toECU : toECU[i].fn # "VTChangeNumericValue"
        PROVE  \A i \in DOMAIN toECU' : toECU'[i].fn # "VTChangeNumericValue"
    <3>1. CASE toECU' = toECU
      BY <2>3, <3>1
    <3>2. ASSUME NEW m \in ToClient, toECU' = toECU \o <<m>>, m.fn # "VTChangeNumericValue"
          PROVE  \A i \in DOMAIN toECU' : toECU'[i].fn # "VTChangeNumericValue"
      BY <1>0, <2>2, <2>3, <3>2
    <3>3. ASSUME NEW m \in ToClient, NEW n \in ToClient, toECU' = (toECU \o <<m>>) \o <<n>>,
                 m.fn = "LoadVersion", n.fn = "EndOfObjectPool"
          PROVE  \A i \in DOMAIN toECU' : toECU'[i].fn # "VTChangeNumericValue"
      <4>1. toECU \o <<m>> \in Seq(ToClient)
        BY <1>0
      <4>2. \A i \in DOMAIN (toECU \o <<m>>) : (toECU \o <<m>>)[i].fn # "VTChangeNumericValue"
        BY <1>0, <2>2, <2>3, <3>3
      <4> QED BY <2>2, <3>3, <4>1, <4>2
    <3> QED BY <1>3, <3>1, <3>2, <3>3, TerminalSends
  <2> QED BY <2>1, <2>3 DEF ServerInv
<1>4. CASE Operator
  BY <1>4 DEF Operator, ServerInv
<1>5. CASE Status
  BY <1>0, <1>5 DEF Status, ReceiveStatus, ServerInv, HelperType
<1>6. CASE Lose
  <2>1. UNCHANGED helper /\ (toECU' = toECU \/ (toECU # <<>> /\ toECU' = Tail(toECU)))
    BY <1>6 DEF Lose, PowerOff
  <2> QED BY <1>0, <1>1, <2>1, TailValues DEF ServerInv
<1>7. CASE CallMark \/ CallPush
  BY <1>0, <1>7 DEF CallMark, CallPush, ServerInv, HelperType
<1>8. CASE Worker
  BY <1>1, <1>8 DEF Worker, WorkDisconnected, WorkStatusHeard, WorkMaster, WorkReady, WorkRequest, WorkRequested,
         WorkRetry, WorkConnected, WorkUpload, WorkUploadStarted, WorkQueue, WorkTimesOut, WorkerKeeps
<1>9. CASE Maintain \/ CallCheck \/ CallSend \/ Parsing \/ PoweredOn \/ StatusGrowsOld \/ CommandExpires
           \/ Asks \/ Restarting \/ Transfer
  BY <1>1, <1>9 DEF Maintain, WorkMaintain, WorkerKeeps, CallCheck, CallSend, Parsing, ParseEnds,
     PoweredOn, PowerOn, StatusGrowsOld, CommandExpires, CommandTimesOut, Asks, Call, Restarting,
     Terminate, Initialize, Transfer, FetchChunk, TransferSucceeds, TransferFails
<1>10. CASE UNCHANGED vars
  BY <1>1, <1>10 DEF vars
<1> QED BY <1>2, <1>3, <1>4, <1>5, <1>6, <1>7, <1>8, <1>9, <1>10 DEF Next, Calling

\* What a step that changes neither the value nor the copy has to keep
LEMMA AgreesKept ==
  ASSUME NEW o, Agrees(o),
         vol'.value[o] = vol.value[o], helper'.value[o] = helper.value[o],
         o \in helper'.told => o \in helper.told,
         \A v : LastSays(toECU, o, v) => LastSays(toECU', o, v),
         Silent(toECU', o) => Silent(toECU, o),
         Pending(o, toVT, cmd.queue) => Pending(o, toVT', cmd'.queue),
         cmd'.call.pc = "mark" /\ cmd'.call.obj = o =>
           (cmd.call.pc = "mark" /\ cmd.call.obj = o) \/ Pending(o, toVT', cmd'.queue)
  PROVE  Agrees(o)'
BY DEF Agrees

LEMMA AgreeQuiet ==
  ASSUME AgreeInv, UNCHANGED <<config, left, terminal, toECU, helper>>,
         \A o \in Object : Pending(o, toVT, cmd.queue) => Pending(o, toVT', cmd'.queue),
         \A o \in Object : cmd'.call.pc = "mark" /\ cmd'.call.obj = o =>
           (cmd.call.pc = "mark" /\ cmd.call.obj = o) \/ Pending(o, toVT', cmd'.queue),
         Typed
  PROVE  AgreeInv'
<1> SUFFICES ASSUME left.lossless, ~config.threaded, NEW o \in vol.set PROVE Agrees(o)'
  BY DEF AgreeInv, vol
<1>1. Agrees(o) /\ o \in Object /\ vol' = vol
  BY TerminalParts DEF AgreeInv, VolType, vol
<1> QED BY <1>1, AgreesKept

\* What is taken from the queue is on its way
LEMMA PendingQueue ==
  ASSUME Typed, NEW awaiting, ProcessCommandQueue(awaiting), NEW o,
         Pending(o, toVT, cmd.queue)
  PROVE  Pending(o, toVT', cmd'.queue)
<1>0. cmd \in CmdType /\ cmd.queue \in Seq(Change)
  BY CmdParts DEF Typed
<1> DEFINE d == [cmd EXCEPT !.awaiting = awaiting]
<1>1. CASE cmd' = d /\ UNCHANGED toVT
  BY <1>0, <1>1 DEF CmdType
<1>2. ASSUME NEW i \in 1 .. Len(cmd.queue), ToVT(<<cmd.queue[i]>>),
             cmd' = [Sent(d, cmd.queue[i].obj, cmd.queue[i].val)
                       EXCEPT !.queue = Without(cmd.queue, i), !.awaiting = TRUE]
      PROVE  Pending(o, toVT', cmd'.queue)
  <2>1. /\ cmd.queue[i] \in Change /\ cmd.queue[i] \in ToTerminal
        /\ \A j \in 1 .. Len(cmd.queue) : j # i => cmd.queue[j] \in Range(Without(cmd.queue, i))
    BY <1>0, WithoutKeeps DEF ToTerminal
  <2>2. cmd'.queue = Without(cmd.queue, i) /\ toVT' = toVT \o <<cmd.queue[i]>>
    BY <1>0, <1>2 DEF Sent, CmdType, ToVT
  <2>3. cmd.queue[i].obj = o => Changes(cmd.queue[i], o)
    BY <2>1 DEF Changes, Change
  <2>4. CASE \E j \in DOMAIN toVT : Changes(toVT[j], o)
    <3>1. Pending(o, toVT, cmd'.queue)
      BY <2>4 DEF Pending
    <3> QED BY <2>1, <2>2, <3>1, PendingSend DEF Typed
  <2>5. CASE cmd.queue[i].obj = o
    BY <2>1, <2>2, <2>3, <2>5, PendingSend DEF Typed
  <2>6. CASE cmd.queue[i].obj # o /\ \E e \in Range(cmd.queue) : e.obj = o
    <3>1. PICK j \in 1 .. Len(cmd.queue) : cmd.queue[j].obj = o
      BY <1>0, <2>6 DEF Range
    <3>2. cmd.queue[j] \in Range(cmd'.queue)
      BY <2>1, <2>2, <2>6, <3>1
    <3> QED BY <3>1, <3>2 DEF Pending
  <2> QED BY <2>2, <2>4, <2>5, <2>6 DEF Pending
<1> QED BY <1>1, <1>2 DEF ProcessCommandQueue

LEMMA QueueKeepsCall ==
  ASSUME Typed, NEW awaiting, ProcessCommandQueue(awaiting)
  PROVE  cmd'.call = cmd.call
BY DEF Typed, CmdType, ProcessCommandQueue, Sent

\* The client's threads, but for those that read
LEMMA AgreeClient ==
  ASSUME Typed, AgreeInv,
         \/ Worker \/ Maintain \/ StatusGrowsOld \/ CommandExpires \/ Restarting \/ Transfer \/ Asks
         \/ CallCheck /\ UNCHANGED <<terminal, left>>
         \/ CallSend /\ UNCHANGED <<terminal, left>>
  PROVE  AgreeInv'
<1>0. toVT \in Seq(ToTerminal) /\ cmd \in CmdType /\ cmd.call \in CallType
  BY CmdParts DEF Typed
<1>1. ASSUME UNCHANGED <<config, left, terminal, toECU, helper>>, cmd'.queue = cmd.queue,
             cmd'.call.pc = "mark" => cmd'.call = cmd.call,
             toVT' = toVT \/ \E m \in ToTerminal : toVT' = toVT \o <<m>>
      PROVE  AgreeInv'
  <2>1. \A o \in Object : Pending(o, toVT, cmd.queue) => Pending(o, toVT', cmd'.queue)
    BY <1>0, <1>1, PendingSend
  <2> QED BY <1>1, <2>1, AgreeQuiet
<1>2. CASE Worker
  <2>1. CASE WorkQueue
    <3>1. \A o \in Object : Pending(o, toVT, cmd.queue) => Pending(o, toVT', cmd'.queue)
      BY <2>1, PendingQueue DEF WorkQueue
    <3>2. cmd'.call = cmd.call
      BY <2>1, QueueKeepsCall DEF WorkQueue
    <3> QED BY <1>2, <2>1, <3>1, <3>2, AgreeQuiet DEF Worker, WorkQueue
  <2>2. CASE ~WorkQueue
    <3>1. UNCHANGED <<config, left, terminal, toECU, helper, cmd>>
      BY <1>2, <2>2 DEF Worker, WorkDisconnected, WorkStatusHeard, WorkMaster, WorkReady, WorkRequest,
         WorkRequested, WorkRetry, WorkConnected, WorkUpload, WorkUploadStarted, WorkTimesOut, WorkerKeeps
    <3>2. Msg("MaintenanceInit") \in ToTerminal
          /\ \A s \in SendState : Msg(Request[s].fn) \in ToTerminal
      BY Requests, RequestTable DEF Msg, ToTerminal
    <3>3. toVT' = toVT \/ \E m \in ToTerminal : toVT' = toVT \o <<m>>
      BY <1>2, <2>2, <3>2 DEF Worker, WorkDisconnected, WorkStatusHeard, WorkMaster, WorkReady, WorkRequest,
         WorkRequested, WorkRetry, WorkConnected, WorkUpload, WorkUploadStarted, WorkTimesOut, ToVT
    <3> QED BY <1>1, <3>1, <3>3
  <2> QED BY <2>1, <2>2
<1>3. CASE Maintain
  <2>1. Msg("Maintenance") \in ToTerminal
    BY DEF Msg, ToTerminal
  <2> QED BY <1>1, <1>3, <2>1 DEF Maintain, WorkMaintain, WorkerKeeps, ToVT
<1>4. CASE StatusGrowsOld
  BY <1>1, <1>4 DEF StatusGrowsOld
<1>5. CASE CommandExpires
  <2>1. cmd'.queue = cmd.queue /\ cmd'.call = cmd.call
    BY <1>0, <1>5 DEF CommandExpires, CommandTimesOut, CmdType
  <2> QED BY <1>1, <1>5, <2>1 DEF CommandExpires, CommandTimesOut
<1>6. CASE Restarting
  <2>1. Msg("DeleteObjectPool") \in ToTerminal /\ toVT \o <<>> = toVT
    BY <1>0, ConcatEmptySeq DEF Msg, ToTerminal
  <2> QED BY <1>1, <1>6, <2>1 DEF Restarting, Terminate, Initialize, ToVT
<1>7. CASE Transfer
  <2>0. transfer \in TransferType
    BY DEF Typed
  <2>1. [fn |-> "ObjectPoolTransfer", pool |-> transfer.pool, chunks |-> transfer.chunks] \in ToTerminal
    BY <2>0 DEF TransferType, ToTerminal
  <2> QED BY <1>1, <1>7, <2>1 DEF Transfer, FetchChunk, TransferSucceeds, TransferFails, ToVT
<1>8. CASE Asks
  <2>1. PICK o \in Object, v \in Value : Call(o, v)
    BY <1>8 DEF Asks
  <2>2. cmd'.queue = cmd.queue /\ cmd'.call.pc # "mark"
    BY <1>0, <2>1 DEF Call, CmdType
  <2>3. \A o1 \in Object : Pending(o1, toVT, cmd.queue) => Pending(o1, toVT', cmd'.queue)
    BY <2>1, <2>2 DEF Call
  <2>4. left'.lossless = left.lossless /\ UNCHANGED <<config, terminal, toECU, helper>>
    BY <1>8, <2>1 DEF Asks, Call, Typed, LeftType
  <2> SUFFICES ASSUME left.lossless, ~config.threaded, NEW o1 \in vol.set PROVE Agrees(o1)'
    BY <2>4 DEF AgreeInv, vol
  <2>5. Agrees(o1) /\ o1 \in Object /\ vol' = vol
    BY <2>4, TerminalParts DEF AgreeInv, VolType, vol
  <2> QED BY <2>2, <2>3, <2>4, <2>5, AgreesKept
<1>9. CASE CallCheck /\ UNCHANGED <<terminal, left>>
  <2>1. cmd'.queue = cmd.queue /\ cmd'.call.pc # "mark"
    BY <1>0, <1>9 DEF CallCheck, CmdType, CallType, NoCall
  <2> QED BY <1>1, <1>9, <2>1 DEF CallCheck
<1>10. CASE CallSend /\ UNCHANGED <<terminal, left>>
  <2>1. /\ cmd.call \in [pc : {"check", "send", "mark", "push"}, obj : Object, val : Value]
        /\ Command(cmd.call) \in Change /\ Command(cmd.call) \in ToTerminal
    BY <1>10, InCall DEF CallSend, ToTerminal
  <2>2. Changes(Command(cmd.call), cmd.call.obj)
    BY DEF Changes, Command, ValueMsg
  <2>3. CASE cmd' = [cmd EXCEPT !.call.pc = "push"] /\ UNCHANGED toVT
    <3>1. cmd'.queue = cmd.queue /\ cmd'.call.pc # "mark"
      BY <1>0, <2>1, <2>3 DEF CmdType
    <3> QED BY <1>1, <1>10, <2>3, <3>1 DEF CallSend
  <2>4. CASE /\ ToVT(<<Command(cmd.call)>>)
             /\ cmd' = [Sent(cmd, cmd.call.obj, cmd.call.val) EXCEPT !.call.pc = "mark"]
    <3>1. cmd'.queue = cmd.queue /\ cmd'.call.obj = cmd.call.obj
      BY <1>0, <2>1, <2>4 DEF CmdType, Sent
    <3>2. /\ \A o \in Object : Pending(o, toVT, cmd.queue) => Pending(o, toVT', cmd'.queue)
          /\ Pending(cmd.call.obj, toVT', cmd'.queue)
      BY <1>0, <2>1, <2>2, <2>4, <3>1, PendingSend DEF ToVT
    <3> QED BY <1>10, <3>1, <3>2, AgreeQuiet DEF CallSend
  <2> QED BY <1>10, <2>3, <2>4 DEF CallSend
<1> QED BY <1>2, <1>3, <1>4, <1>5, <1>6, <1>7, <1>8, <1>9, <1>10

\* The call comes to its end: the copy is the value that was asked for
LEMMA AgreeCallEnds ==
  ASSUME Typed, AgreeInv, CallMark \/ CallPush, UNCHANGED <<terminal, left>>
  PROVE  AgreeInv'
<1>0. /\ cmd \in CmdType /\ cmd.queue \in Seq(Change) /\ helper \in HelperType
      /\ cmd.call \in [pc : {"check", "send", "mark", "push"}, obj : Object, val : Value]
      /\ Command(cmd.call) \in Change /\ Command(cmd.call).obj = cmd.call.obj
  BY CmdParts, InCall DEF Typed, CallMark, CallPush, Command, ValueMsg
<1>1. /\ UNCHANGED <<config, toVT, toECU>> /\ cmd'.call = NoCall /\ helper'.told = helper.told
      /\ helper'.value = [helper.value EXCEPT ![cmd.call.obj] = cmd.call.val]
  BY <1>0 DEF CallMark, CallPush, CmdType, HelperType
<1>2. SUFFICES ASSUME left.lossless, ~config.threaded, NEW o \in vol.set PROVE Agrees(o)'
  BY <1>1 DEF AgreeInv, vol
<1>3. Agrees(o) /\ o \in Object /\ vol' = vol
  BY <1>2, TerminalParts DEF AgreeInv, VolType, vol
<1>4. Pending(o, toVT, cmd.queue) => Pending(o, toVT', cmd'.queue)
  <2>1. CASE CallMark
    <3>1. cmd'.queue = cmd.queue
      BY <1>0, <2>1 DEF CallMark, CmdType
    <3> QED BY <1>1, <3>1
  <2>2. CASE CallPush
    <3>1. cmd'.queue = Queued(cmd.queue, Command(cmd.call))
      BY <1>0, <2>2 DEF CallPush, CmdType
    <3>2. /\ Command(cmd.call) \in Range(cmd'.queue)
          /\ \A e \in Range(cmd.queue) : e.obj # cmd.call.obj => e \in Range(cmd'.queue)
      BY <1>0, <3>1, QueuedKeeps
    <3> QED BY <1>0, <1>1, <3>2 DEF Pending
  <2> QED BY <2>1, <2>2
<1>5. CASE o # cmd.call.obj
  BY <1>0, <1>1, <1>3, <1>4, <1>5, AgreesKept DEF NoCall, HelperType
<1>6. CASE o = cmd.call.obj
  <2>1. Silent(toECU, o) => Pending(o, toVT', cmd'.queue)
    <3>1. CASE CallMark
      BY <1>3, <1>4, <1>6, <3>1 DEF CallMark, Agrees
    <3>2. CASE CallPush
      <4>1. cmd'.queue = Queued(cmd.queue, Command(cmd.call))
        BY <1>0, <3>2 DEF CallPush, CmdType
      <4>2. Command(cmd.call) \in Range(cmd'.queue)
        BY <1>0, <4>1, QueuedKeeps
      <4> QED BY <1>0, <1>6, <4>2 DEF Pending
    <3> QED BY <3>1, <3>2
  <2> QED BY <1>1, <1>3, <2>1 DEF Agrees, NoCall
<1> QED BY <1>5, <1>6

\* A message is read outside a call: the copy follows the last one that says
\* what the value is
LEMMA AgreeReading ==
  ASSUME Typed, ServerInv, AgreeInv, UpdateThreadFree, Reading
  PROVE  AgreeInv'
<1>0. /\ cmd \in CmdType /\ helper \in HelperType /\ toECU \in Seq(ToClient)
      /\ toVT \in Seq(ToTerminal)
  BY DEF Typed
<1>1. toECU # <<>> /\ toECU' = Tail(toECU) /\ UNCHANGED <<config, transfer, terminal, left>>
  BY DEF Reading, Receive, ReceiveAcknowledge, ReceiveGetMemory, ReceiveGetNumberOfSoftKeys,
         ReceiveGetTextFontData, ReceiveGetHardware, ReceiveGetVersionsResponse, ReceiveLoadVersion,
         ReceiveStoreVersion, ReceiveEndOfObjectPool, ReceiveCommandResponse, ReceiveChangeNumericValue,
         ReceiveDeleteVersion, Answered, Received, Reads
<1>2. SUFFICES ASSUME left.lossless, ~config.threaded, NEW o \in vol.set PROVE Agrees(o)'
  BY <1>1 DEF AgreeInv, vol
<1>3. Agrees(o) /\ o \in Object /\ vol' = vol /\ cmd.call = NoCall
  BY <1>1, <1>2, TerminalParts DEF AgreeInv, VolType, vol, UpdateThreadFree
<1>4. Head(toECU) \in ToClient
  BY <1>1, ReadType
<1>5. cmd'.call = NoCall /\ (Pending(o, toVT, cmd.queue) => Pending(o, toVT', cmd'.queue))
  <2>1. CASE ReceiveCommandResponse
    BY <1>3, <2>1, PendingQueue, QueueKeepsCall DEF ReceiveCommandResponse
  <2>2. CASE ReceiveGetVersionsResponse
    <3>1. Msg("DeleteOtherVersion") \in ToTerminal /\ toVT \o <<>> = toVT
      BY <1>0, ConcatEmptySeq DEF Msg, ToTerminal
    <3> QED BY <1>0, <1>3, <2>2, <3>1, PendingSend DEF ReceiveGetVersionsResponse, ToVT
  <2>3. CASE ~ReceiveCommandResponse /\ ~ReceiveGetVersionsResponse
    BY <1>3, <2>3 DEF Reading, Receive, ReceiveAcknowledge, ReceiveGetMemory, ReceiveGetNumberOfSoftKeys,
         ReceiveGetTextFontData, ReceiveGetHardware, ReceiveLoadVersion,
         ReceiveStoreVersion, ReceiveEndOfObjectPool, ReceiveChangeNumericValue,
         ReceiveDeleteVersion, Answered
  <2> QED BY <2>1, <2>2, <2>3
\* What the helper takes from the message
<1>6. \/ Tells(Head(toECU), o) /\ helper'.value[o] = Head(toECU).val
      \/ o \notin helper'.told
      \/ /\ ~Tells(Head(toECU), o) /\ helper'.value[o] = helper.value[o]
         /\ o \in helper'.told => o \in helper.told
  <2>1. CASE ReceiveCommandResponse
    <3>1. CASE Head(toECU).fn = "ChangeNumericValue" /\ Head(toECU).ok
      <4>1. helper' = IF helper.server THEN TakenOver(Head(toECU)) ELSE helper
        BY <2>1, <3>1 DEF ReceiveCommandResponse
      <4>2. ~helper.server => helper.told = {}
        BY DEF ServerInv
      <4>3. Head(toECU).obj \in Object
        BY <1>4, <3>1 DEF ToClient
      <4> QED BY <1>0, <1>3, <3>1, <4>1, <4>2, <4>3 DEF TakenOver, HelperType, Tells
    <3>2. CASE ~(Head(toECU).fn = "ChangeNumericValue" /\ Head(toECU).ok)
      <4>1. helper' = helper
        BY <2>1, <3>2 DEF ReceiveCommandResponse
      <4> QED BY <2>1, <3>2, <4>1 DEF ReceiveCommandResponse, Tells
    <3> QED BY <3>1, <3>2
  <2>2. CASE ReceiveChangeNumericValue
    <3>1. helper' = TakenOver(Head(toECU)) /\ Head(toECU).fn = "VTChangeNumericValue"
      BY <2>2 DEF ReceiveChangeNumericValue, Received
    <3>2. Head(toECU).obj \in Object
      BY <1>4, <3>1 DEF ToClient
    <3> QED BY <1>0, <1>3, <3>1, <3>2 DEF TakenOver, HelperType, Tells
  <2>3. CASE ~ReceiveCommandResponse /\ ~ReceiveChangeNumericValue
    <3>1. helper' = helper /\ Head(toECU).fn \notin {"ChangeNumericValue", "VTChangeNumericValue"}
      BY <2>3 DEF Reading, Receive, ReceiveAcknowledge, ReceiveGetMemory, ReceiveGetNumberOfSoftKeys,
         ReceiveGetTextFontData, ReceiveGetHardware, ReceiveGetVersionsResponse, ReceiveLoadVersion,
         ReceiveStoreVersion, ReceiveEndOfObjectPool, ReceiveDeleteVersion, Answered, Received
    <3> QED BY <3>1 DEF Tells
  <2> QED BY <2>1, <2>2, <2>3
<1>7. LastSays(toECU', o, vol'.value[o])
  BY <1>0, <1>1, <1>3, TailSays DEF Agrees
<1>8. ASSUME Silent(toECU', o), o \in helper'.told
      PROVE  helper'.value[o] = vol'.value[o] \/ Pending(o, toVT', cmd'.queue)
  <2>1. CASE Silent(toECU, o)
    <3>1. ~Tells(Head(toECU), o)
      BY <1>0, <1>1, <2>1, TailValues DEF Silent
    <3> QED BY <1>3, <1>5, <1>6, <1>8, <2>1, <3>1 DEF Agrees
  <2>2. CASE ~Silent(toECU, o)
    <3>1. Tells(Head(toECU), o) /\ Head(toECU).val = vol.value[o]
      BY <1>0, <1>1, <1>3, <1>8, <2>2, TailSays DEF Agrees
    <3> QED BY <1>3, <1>6, <1>8, <3>1
  <2> QED BY <2>1, <2>2
<1> QED BY <1>5, <1>7, <1>8 DEF Agrees, NoCall

\* A message that says nothing of o is sent
LEMMA Unsaid ==
  ASSUME Typed, NEW m \in ToClient, NEW o, ~Tells(m, o)
  PROVE  /\ \A v : LastSays(toECU, o, v) => LastSays(toECU \o <<m>>, o, v)
         /\ Silent(toECU \o <<m>>, o) => Silent(toECU, o)
BY SendSays DEF Typed

\* The terminal serves a message, or says that the pool was parsed
LEMMA AgreeServing ==
  ASSUME Typed, VolInv, AgreeInv, Serving \/ Updating
  PROVE  AgreeInv'
<1>0. /\ terminal \in TerminalType /\ terminal.vol \in VolType /\ vol = terminal.vol
      /\ toVT \in Seq(ToTerminal) /\ toECU \in Seq(ToClient)
  BY TerminalParts DEF Typed
<1>1. /\ UNCHANGED <<config, cmd, helper, left>>
      /\ Updating => UNCHANGED toVT
      /\ Serving => toVT # <<>> /\ toVT' = Tail(toVT)
  BY DEF Serving, Updating, ServerUpdate, Serve, Undelivered, CheckIfSourceIsManaged,
         ServeObjectPoolTransfer, ServeGetMemory, ServeCapabilities, ServeGetVersions, ServeLoadVersion,
         ServeStoreVersion, ServeDeleteVersion, ServeEndOfObjectPool, ServeMaintenance,
         ServeChangeNumericValue, ServeDeleteObjectPool, Arrived
<1>2. ASSUME vol'.set = {} PROVE AgreeInv'
  BY <1>2 DEF AgreeInv
<1>3. ASSUME NEW o \in vol.set, Agrees(o), vol'.value[o] = vol.value[o],
             Serving => ~Changes(Head(toVT), o), ~ServeChangeNumericValue \/ Head(toVT).obj # o
      PROVE  Agrees(o)'
  <2>1. Pending(o, toVT, cmd.queue) => Pending(o, toVT', cmd'.queue)
    BY <1>0, <1>1, <1>3, PendingTail
  <2>2. /\ \A v : LastSays(toECU, o, v) => LastSays(toECU', o, v)
        /\ Silent(toECU', o) => Silent(toECU, o)
    <3>1. CASE toECU' = toECU
      BY <3>1
    <3>2. ASSUME NEW m \in ToClient, toECU' = toECU \o <<m>>, m.fn # "VTChangeNumericValue",
                 m.fn = "ChangeNumericValue" => ServeChangeNumericValue
          PROVE  /\ \A v : LastSays(toECU, o, v) => LastSays(toECU', o, v)
                 /\ Silent(toECU', o) => Silent(toECU, o)
      <4>1. CASE m.fn # "ChangeNumericValue"
        BY <3>2, <4>1, Unsaid DEF Tells
      <4>2. CASE ServeChangeNumericValue
        <5>1. toECU' = toECU \o <<[fn |-> "ChangeNumericValue", obj |-> Head(toVT).obj,
                                   val |-> Head(toVT).val, ok |-> vol.tree]>>
          BY <4>2 DEF ServeChangeNumericValue, ToECU
        <5>2. [fn |-> "ChangeNumericValue", obj |-> Head(toVT).obj, val |-> Head(toVT).val,
               ok |-> vol.tree] \in ToClient
          <6>1. Head(toVT) \in ToTerminal /\ Head(toVT).fn = "ChangeNumericValue"
            BY <1>0, <4>2, ServeType DEF ServeChangeNumericValue, Arrived
          <6> QED BY <1>0, <6>1 DEF ToTerminal, ToClient, Change, VolType
        <5> QED BY <1>3, <4>2, <5>1, <5>2, Unsaid DEF Tells
      <4> QED BY <3>2, <4>1, <4>2
    <3>3. ASSUME NEW m \in ToClient, NEW n \in ToClient, toECU' = (toECU \o <<m>>) \o <<n>>,
                 m.fn = "LoadVersion", n.fn = "EndOfObjectPool"
          PROVE  /\ \A v : LastSays(toECU, o, v) => LastSays(toECU', o, v)
                 /\ Silent(toECU', o) => Silent(toECU, o)
      <4> DEFINE q == toECU \o <<m>>
      <4>1. q \in Seq(ToClient) /\ ~Tells(m, o) /\ ~Tells(n, o) /\ toECU' = q \o <<n>>
        BY <1>0, <3>3 DEF Tells
      <4>2. /\ \A v : LastSays(toECU, o, v) => LastSays(q, o, v)
            /\ Silent(q, o) => Silent(toECU, o)
        BY <4>1, Unsaid
      <4> HIDE DEF q
      <4>3. /\ \A v : LastSays(q, o, v) => LastSays(q \o <<n>>, o, v)
            /\ Silent(q \o <<n>>, o) => Silent(q, o)
        BY <4>1, SendSays
      <4> QED BY <4>1, <4>2, <4>3
    <3> QED BY <3>1, <3>2, <3>3, TerminalSends
  <2> QED BY <1>1, <1>3, <2>1, <2>2, AgreesKept
<1>4. CASE ServeChangeNumericValue
  <2>1. CASE ~vol.tree
    BY <1>2, <2>1, <1>4 DEF ServeChangeNumericValue, VolInv, vol
  <2>2. CASE vol.tree
    <3> DEFINE m == Head(toVT)
              r == [fn |-> "ChangeNumericValue", obj |-> m.obj, val |-> m.val, ok |-> vol.tree]
    <3>1. m.obj \in Object /\ m.val \in Value /\ m.fn = "ChangeNumericValue"
      <4>1. m \in ToTerminal /\ m.fn = "ChangeNumericValue"
        BY <1>0, <1>4, ServeType DEF ServeChangeNumericValue, Arrived
      <4> QED BY <4>1 DEF ToTerminal, Change
    <3>2. /\ vol'.set = vol.set \cup {m.obj} /\ vol'.value = [vol.value EXCEPT ![m.obj] = m.val]
          /\ toECU' = toECU \o <<r>>
      BY <1>0, <1>4, <2>2, <3>1 DEF ServeChangeNumericValue, ToECU, TerminalType, VolType, vol
    <3>3. r \in ToClient /\ Tells(r, m.obj) /\ r.val = m.val
      BY <2>2, <3>1 DEF ToClient, Tells
    <3> HIDE DEF r, m
    <3> SUFFICES ASSUME left.lossless, ~config.threaded, NEW o \in vol'.set PROVE Agrees(o)'
      BY <1>1 DEF AgreeInv
    <3>4. CASE o = m.obj
      <4>1. LastSays(toECU', o, m.val) /\ ~Silent(toECU', o)
        BY <1>0, <3>2, <3>3, <3>4, SendSays
      <4>2. vol'.value[o] = m.val
        BY <1>0, <3>1, <3>2, <3>4 DEF VolType
      <4> QED BY <4>1, <4>2 DEF Agrees
    <3>5. CASE o # m.obj
      <4>1. o \in vol.set /\ Agrees(o) /\ vol'.value[o] = vol.value[o] /\ ~Changes(Head(toVT), o)
        BY <1>0, <3>2, <3>5 DEF AgreeInv, VolType, Changes, m
      <4> QED BY <1>3, <3>5, <4>1 DEF m
    <3> QED BY <3>4, <3>5
  <2> QED BY <2>1, <2>2
<1>5. CASE CheckIfSourceIsManaged \/ Undelivered
  <2>1. vol'.set = {}
    <3>1. terminal.vol.set = {}
      BY <1>0, <1>5 DEF CheckIfSourceIsManaged, Undelivered, VolInv, Volatile
    <3>2. terminal'.vol.set = terminal.vol.set
      BY <1>0, <1>5 DEF CheckIfSourceIsManaged, Undelivered, TerminalType, VolType
    <3> QED BY <3>1, <3>2 DEF vol
  <2> QED BY <1>2, <2>1
<1>6. CASE ServeDeleteObjectPool
  BY <1>0, <1>2, <1>6 DEF ServeDeleteObjectPool, TerminalType, Volatile, vol
\* The rest leaves the values alone
<1>7. ASSUME vol'.set = vol.set, vol'.value = vol.value, ~ServeChangeNumericValue,
             Serving => Head(toVT).fn # "ChangeNumericValue"
      PROVE  AgreeInv'
  <2> SUFFICES ASSUME left.lossless, ~config.threaded, NEW o \in vol.set PROVE Agrees(o)'
    BY <1>1, <1>7 DEF AgreeInv
  <2> QED BY <1>3, <1>7 DEF AgreeInv, Changes
<1>8. CASE Updating /\ ~Serving
  <2>1. vol'.set = vol.set /\ vol'.value = vol.value
    BY <1>0, <1>8 DEF Updating, ServerUpdate, TerminalType, VolType, vol
  <2>2. ~ServeChangeNumericValue
    BY <1>1, <1>8 DEF Updating, ServeChangeNumericValue, Arrived, Serving, Serve
  <2> QED BY <1>7, <1>8, <2>1, <2>2
<1>9. CASE \/ ServeObjectPoolTransfer \/ ServeGetMemory \/ ServeCapabilities \/ ServeGetVersions
           \/ ServeStoreVersion \/ ServeDeleteVersion \/ ServeEndOfObjectPool \/ ServeMaintenance
  <2>1. Head(toVT).fn # "ChangeNumericValue" /\ ~ServeChangeNumericValue
    BY <1>9 DEF ServeObjectPoolTransfer, ServeGetMemory, ServeCapabilities, ServeGetVersions,
       ServeStoreVersion, ServeDeleteVersion, ServeEndOfObjectPool, ServeMaintenance,
       ServeChangeNumericValue, Arrived
  <2>2. terminal'.vol.set = terminal.vol.set /\ terminal'.vol.value = terminal.vol.value
    <3>1. CASE ServeObjectPoolTransfer
      BY <1>0, <3>1 DEF ServeObjectPoolTransfer, TerminalType, VolType
    <3>2. CASE ServeStoreVersion \/ ServeDeleteVersion
      BY <1>0, <3>2 DEF ServeStoreVersion, ServeDeleteVersion, TerminalType
    <3>3. CASE ServeEndOfObjectPool
      BY <1>0, <3>3 DEF ServeEndOfObjectPool, StartParsing, TerminalType, VolType
    <3>4. CASE ServeGetMemory \/ ServeCapabilities \/ ServeGetVersions \/ ServeMaintenance
      BY <3>4 DEF ServeGetMemory, ServeCapabilities, ServeGetVersions, ServeMaintenance
    <3> QED BY <1>9, <3>1, <3>2, <3>3, <3>4
  <2> QED BY <1>7, <2>1, <2>2 DEF vol
<1>10. CASE ServeLoadVersion
  <2>1. Head(toVT).fn # "ChangeNumericValue" /\ ~ServeChangeNumericValue
    BY <1>10 DEF ServeLoadVersion, ServeChangeNumericValue, Arrived
  <2>2. terminal'.vol.set = terminal.vol.set /\ terminal'.vol.value = terminal.vol.value
    BY <1>0, <1>10 DEF ServeLoadVersion, StartParsing, TerminalType, VolType
  <2> QED BY <1>7, <2>1, <2>2 DEF vol
<1> QED BY <1>4, <1>5, <1>6, <1>8, <1>9, <1>10 DEF Serving, Serve

\* The pool is parsed, the operator changes a value, power and messages are lost
LEMMA AgreeTerminal ==
  ASSUME Typed, VolInv, AgreeInv, Parsing \/ Operator \/ Lose \/ PoweredOn
  PROVE  AgreeInv'
<1>0. /\ terminal \in TerminalType /\ terminal.vol \in VolType /\ vol = terminal.vol
      /\ toVT \in Seq(ToTerminal) /\ toECU \in Seq(ToClient) /\ left \in LeftType
  BY TerminalParts DEF Typed
<1>1. ASSUME vol'.set = {} PROVE AgreeInv'
  BY <1>1 DEF AgreeInv
<1>2. CASE Parsing
  <2>1. PICK result \in {"Success", "Fail"} :
          terminal' = [terminal EXCEPT !.vol.parse = result, !.vol.tree = TRUE,
                                       !.vol.value = [o \in Object |-> 0], !.vol.set = {}]
    BY <1>2 DEF Parsing, ParseEnds
  <2>2. terminal'.vol.set = {}
    BY <1>0, <2>1 DEF TerminalType, VolType
  <2> QED BY <1>1, <2>2 DEF vol
<1>3. CASE Operator
  <2>1. PICK p \in Object, v \in Value : OperatorChanges(p, v)
    BY <1>3 DEF Operator
  <2> DEFINE m == ValueMsg("VTChangeNumericValue", p, v)
  <2>2. m \in ToClient /\ m.val = v /\ \A o : Tells(m, o) <=> o = p
    BY DEF ValueMsg, ToClient, Tells
  <2>3. /\ vol'.set = vol.set \cup {p} /\ vol'.value = [vol.value EXCEPT ![p] = v]
        /\ toECU' = toECU \o <<m>> /\ left'.lossless = left.lossless
        /\ UNCHANGED <<config, toVT, cmd, helper>>
    BY <1>0, <1>3, <2>1 DEF Operator, OperatorChanges, ToECU, TerminalType, VolType, LeftType, vol
  <2> HIDE DEF m
  <2> SUFFICES ASSUME left.lossless, ~config.threaded, NEW o \in vol'.set PROVE Agrees(o)'
    BY <2>3 DEF AgreeInv
  <2>4. CASE o = p
    <3>1. LastSays(toECU', o, v) /\ ~Silent(toECU', o)
      BY <1>0, <2>2, <2>3, <2>4, SendSays
    <3>2. vol'.value[o] = v
      BY <1>0, <2>3, <2>4 DEF VolType
    <3> QED BY <3>1, <3>2 DEF Agrees
  <2>5. CASE o # p
    <3>1. o \in vol.set /\ Agrees(o) /\ vol'.value[o] = vol.value[o] /\ ~Tells(m, o)
      BY <1>0, <2>2, <2>3, <2>5 DEF AgreeInv, VolType
    <3>2. /\ \A w : LastSays(toECU, o, w) => LastSays(toECU', o, w)
          /\ Silent(toECU', o) => Silent(toECU, o)
      BY <2>2, <2>3, <3>1, Unsaid
    <3> QED BY <2>3, <3>1, <3>2, AgreesKept
  <2> QED BY <2>4, <2>5
<1>4. CASE Lose
  <2>1. CASE left' = [left EXCEPT !.lossless = FALSE]
    BY <1>0, <2>1 DEF AgreeInv, LeftType
  <2>2. CASE PowerOff
    BY <1>0, <1>1, <2>2 DEF PowerOff, TerminalType, Volatile, vol
  <2> QED BY <1>4, <2>1, <2>2 DEF Lose
<1>5. CASE PoweredOn
  <2>1. vol' = vol /\ vol.set = {}
    BY <1>0, <1>5 DEF PoweredOn, PowerOn, TerminalType, VolInv, Volatile, vol
  <2> QED BY <1>1, <2>1
<1> QED BY <1>2, <1>3, <1>4, <1>5

LEMMA AgreeStep ==
  ASSUME Typed, VolInv, ServerInv, AgreeInv, [Next]_vars
  PROVE  AgreeInv'
<1>1. CASE Status
  <2>1. /\ UNCHANGED <<config, left, terminal, toECU, toVT, cmd>>
        /\ helper'.told = helper.told /\ helper'.value = helper.value
    BY <1>1 DEF Status, ReceiveStatus, Typed, HelperType
  <2> QED BY <2>1 DEF AgreeInv, Agrees, vol
<1>2. CASE UNCHANGED vars
  BY <1>2 DEF vars, AgreeInv, Agrees, vol
<1> QED BY <1>1, <1>2, AgreeClient, AgreeCallEnds, AgreeReading, AgreeServing, AgreeTerminal
   DEF Next, Calling

LEMMA AgreesAtRest ==
  ASSUME Typed, AgreeInv
  PROVE  HelperAgrees
<1>1. toECU = <<>> => \A o : Silent(toECU, o)
  BY DEF Silent
<1>2. toVT = <<>> /\ cmd.queue = <<>> => \A o : ~Pending(o, toVT, cmd.queue)
  BY DEF Pending, Range
<1> QED BY <1>1, <1>2 DEF AgreeInv, Agrees, HelperAgrees

\* Once nothing is on its way, the copy the helper answers from is what the
\* terminal shows, of every value it has heard of and that was set since the pool
\* was parsed: however the operator, the application, restarts and refusals are
\* interleaved, if no message was lost and the calls come from the update thread
THEOREM HelperCopyAgrees == Spec => []HelperAgrees
<1> DEFINE Inv == VolInv /\ ServerInv /\ AgreeInv
<1>1. Init => Inv
  <2> SUFFICES ASSUME Init PROVE Inv
    OBVIOUS
  <2>1. vol = Volatile /\ vol.set = {}
    BY DEF Init, ServerInit, vol, Volatile
  <2>2. helper.told = {} /\ DOMAIN toECU = {}
    BY DEF Init, ClientInit
  <2> QED BY <2>1, <2>2 DEF VolInv, ServerInv, AgreeInv
<1>2. Typed /\ Inv /\ [Next]_vars => Inv'
  BY VolStep, ServerStep, AgreeStep
<1>3. Typed /\ Inv => HelperAgrees
  BY AgreesAtRest
<1> HIDE DEF Inv
<1> QED BY <1>1, <1>2, <1>3, AlwaysTyped, PTL DEF Spec

-----------------------------------------------------------------------------
(* The pools a connected client has on the terminal.  What holds is said of a
   client c, a transfer t, what the terminal keeps in memory v, and the lines q
   to the terminal and e to the client, so that a step may be put together from
   what it does to each *)

Outcome == {"LoadVersion", "StoreVersion", "EndOfObjectPool"}
Has(q, fn) == \E p \in DOMAIN q : q[p].fn = fn
\* The pool x is in q in front of j, and no client is announced behind it
Carried(q, x, j) ==
  \E p \in DOMAIN q :
    /\ p < j /\ q[p].fn = "ObjectPoolTransfer" /\ q[p].chunks = x
    /\ \A k \in DOMAIN q : k > p => q[k].fn # "MaintenanceInit"
\* The terminal manages the client or will do so
Alive(v, q) == v.managed \/ Has(q, "MaintenanceInit")
Present(v) == Range(AllPools) \subseteq Range(v.pools)
\* The terminal has the pool i when it serves what is at j
Sure(v, q, i, j) == Alive(v, q) => AllPools[i] \in Range(v.pools) \/ Carried(q, AllPools[i], j)
AllSure(v, q, j) == \A i \in Pool : Sure(v, q, i, j)
Done(v, q) == Alive(v, q) => v.managed /\ v.tree /\ Present(v)

\* A message goes out
LEMMA SendElements ==
  ASSUME NEW S, NEW q \in Seq(S), NEW m \in S
  PROVE  /\ q \o <<m>> \in Seq(S) /\ Len(q) \in Nat /\ Len(q \o <<m>>) = Len(q) + 1
         /\ DOMAIN q = 1 .. Len(q) /\ DOMAIN (q \o <<m>>) = 1 .. Len(q) + 1
         /\ \A p \in 1 .. Len(q) : (q \o <<m>>)[p] = q[p]
         /\ (q \o <<m>>)[Len(q) + 1] = m
OBVIOUS

LEMMA SendHas ==
  ASSUME NEW S, NEW q \in Seq(S), NEW m \in S, NEW fn
  PROVE  Has(q \o <<m>>, fn) <=> Has(q, fn) \/ m.fn = fn
<1> DEFINE r == q \o <<m>>
<1>1. /\ Len(q) \in Nat /\ DOMAIN q = 1 .. Len(q) /\ DOMAIN r = 1 .. Len(q) + 1
      /\ \A p \in 1 .. Len(q) : r[p] = q[p]
      /\ r[Len(q) + 1] = m
  BY SendElements
<1> HIDE DEF r
<1>2. Has(r, fn) => Has(q, fn) \/ m.fn = fn
  <2> SUFFICES ASSUME NEW p \in DOMAIN r, r[p].fn = fn PROVE Has(q, fn) \/ m.fn = fn
    BY DEF Has
  <2>1. p = Len(q) + 1 \/ p \in 1 .. Len(q)
    BY <1>1
  <2> QED BY <1>1, <2>1 DEF Has
<1>3. Has(q, fn) => Has(r, fn)
  <2> SUFFICES ASSUME NEW p \in DOMAIN q, q[p].fn = fn PROVE Has(r, fn)
    BY DEF Has
  <2>1. p \in DOMAIN r /\ r[p] = q[p]
    BY <1>1
  <2> QED BY <2>1 DEF Has
<1>4. m.fn = fn => Has(r, fn)
  <2>1. Len(q) + 1 \in DOMAIN r
    BY <1>1
  <2> QED BY <1>1, <2>1 DEF Has
<1> QED BY <1>2, <1>3, <1>4 DEF r

LEMMA SendCarried ==
  ASSUME NEW S, NEW q \in Seq(S), NEW m \in S, NEW x, m.fn # "MaintenanceInit"
  PROVE  /\ \A j \in Int : Carried(q, x, j) => Carried(q \o <<m>>, x, j)
         /\ Carried(q, x, Len(q) + 1) => Carried(q \o <<m>>, x, Len(q) + 2)
         /\ m.fn = "ObjectPoolTransfer" /\ m.chunks = x => Carried(q \o <<m>>, x, Len(q) + 2)
<1> DEFINE r == q \o <<m>>
<1>1. /\ Len(q) \in Nat /\ DOMAIN q = 1 .. Len(q) /\ DOMAIN r = 1 .. Len(q) + 1
      /\ \A p \in 1 .. Len(q) : r[p] = q[p]
      /\ r[Len(q) + 1] = m
  BY SendElements
<1> HIDE DEF r
<1>2. ASSUME NEW p \in DOMAIN q, q[p].fn = "ObjectPoolTransfer", q[p].chunks = x,
             \A k \in DOMAIN q : k > p => q[k].fn # "MaintenanceInit"
      PROVE  /\ p \in DOMAIN r /\ r[p].fn = "ObjectPoolTransfer" /\ r[p].chunks = x
             /\ \A k \in DOMAIN r : k > p => r[k].fn # "MaintenanceInit"
             /\ p < Len(q) + 2
  <2>1. p \in DOMAIN r /\ r[p] = q[p] /\ p < Len(q) + 2
    BY <1>1
  <2>2. ASSUME NEW k \in DOMAIN r, k > p PROVE r[k].fn # "MaintenanceInit"
    <3>1. k = Len(q) + 1 \/ k \in 1 .. Len(q)
      BY <1>1
    <3> QED BY <1>1, <1>2, <2>2, <3>1
  <2> QED BY <1>2, <2>1, <2>2
<1>3. ASSUME NEW j \in Int, Carried(q, x, j) PROVE Carried(r, x, j)
  BY <1>2, <1>3 DEF Carried
<1>4. Carried(q, x, Len(q) + 1) => Carried(r, x, Len(q) + 2)
  BY <1>2 DEF Carried
<1>5. ASSUME m.fn = "ObjectPoolTransfer", m.chunks = x PROVE Carried(r, x, Len(q) + 2)
  <2>1. Len(q) + 1 \in DOMAIN r /\ Len(q) + 1 < Len(q) + 2 /\ \A k \in DOMAIN r : ~(k > Len(q) + 1)
    BY <1>1
  <2> QED BY <1>1, <1>5, <2>1 DEF Carried
<1> QED BY <1>3, <1>4, <1>5 DEF r

LEMMA SendSure ==
  ASSUME NEW S, NEW q \in Seq(S), NEW m \in S, NEW v, m.fn # "MaintenanceInit"
  PROVE  /\ \A i \in Pool, j \in Int : Sure(v, q, i, j) => Sure(v, q \o <<m>>, i, j)
         /\ \A i \in Pool : Sure(v, q, i, Len(q) + 1) => Sure(v, q \o <<m>>, i, Len(q) + 2)
         /\ \A i \in Pool : m.fn = "ObjectPoolTransfer" /\ m.chunks = AllPools[i] =>
              Sure(v, q \o <<m>>, i, Len(q) + 2)
         /\ Done(v, q) => Done(v, q \o <<m>>)
<1>1. Alive(v, q \o <<m>>) <=> Alive(v, q)
  BY SendHas DEF Alive
<1> QED BY <1>1, SendCarried DEF Sure, Done

\* A message is served, refused or lost
LEMMA RestElements ==
  ASSUME NEW S, NEW q \in Seq(S), q # <<>>
  PROVE  /\ Tail(q) \in Seq(S) /\ Len(q) \in Nat /\ Len(q) > 0 /\ Len(Tail(q)) = Len(q) - 1
         /\ DOMAIN q = 1 .. Len(q) /\ DOMAIN Tail(q) = 1 .. Len(q) - 1
         /\ \A p \in 1 .. Len(q) - 1 : Tail(q)[p] = q[p + 1]
         /\ Head(q) = q[1]
OBVIOUS

LEMMA RestHas ==
  ASSUME NEW S, NEW q \in Seq(S), q # <<>>, NEW fn
  PROVE  /\ Has(Tail(q), fn) => Has(q, fn)
         /\ Has(q, fn) /\ Head(q).fn # fn => Has(Tail(q), fn)
         /\ Head(q).fn = fn => Has(q, fn)
<1> DEFINE r == Tail(q)
<1>1. /\ Len(q) \in Nat /\ Len(q) > 0 /\ DOMAIN q = 1 .. Len(q) /\ DOMAIN r = 1 .. Len(q) - 1
      /\ \A p \in 1 .. Len(q) - 1 : r[p] = q[p + 1]
      /\ Head(q) = q[1]
  BY RestElements
<1> HIDE DEF r
<1>2. Has(r, fn) => Has(q, fn)
  <2> SUFFICES ASSUME NEW p \in DOMAIN r, r[p].fn = fn PROVE Has(q, fn)
    BY DEF Has
  <2>1. p + 1 \in DOMAIN q /\ q[p + 1] = r[p]
    BY <1>1
  <2> QED BY <2>1 DEF Has
<1>3. Has(q, fn) /\ Head(q).fn # fn => Has(r, fn)
  <2> SUFFICES ASSUME NEW p \in DOMAIN q, q[p].fn = fn, Head(q).fn # fn PROVE Has(r, fn)
    BY DEF Has
  <2>1. p # 1
    BY <1>1
  <2>2. p - 1 \in DOMAIN r /\ r[p - 1] = q[p]
    BY <1>1, <2>1
  <2> QED BY <2>2 DEF Has
<1>4. Head(q).fn = fn => Has(q, fn)
  <2>1. 1 \in DOMAIN q
    BY <1>1
  <2> QED BY <1>1, <2>1 DEF Has
<1> QED BY <1>2, <1>3, <1>4 DEF r

LEMMA RestCarried ==
  ASSUME NEW S, NEW q \in Seq(S), q # <<>>, NEW x, NEW j \in Int, Carried(q, x, j)
  PROVE  \/ Carried(Tail(q), x, j - 1)
         \/ /\ Head(q).fn = "ObjectPoolTransfer" /\ Head(q).chunks = x
            /\ ~Has(Tail(q), "MaintenanceInit")
<1> DEFINE r == Tail(q)
<1>1. /\ Len(q) \in Nat /\ Len(q) > 0 /\ DOMAIN q = 1 .. Len(q) /\ DOMAIN r = 1 .. Len(q) - 1
      /\ \A p \in 1 .. Len(q) - 1 : r[p] = q[p + 1]
      /\ Head(q) = q[1]
  BY RestElements
<1> HIDE DEF r
<1>2. PICK p \in DOMAIN q :
        /\ p < j /\ q[p].fn = "ObjectPoolTransfer" /\ q[p].chunks = x
        /\ \A k \in DOMAIN q : k > p => q[k].fn # "MaintenanceInit"
  BY DEF Carried
<1>3. \A k \in DOMAIN r : k + 1 \in DOMAIN q /\ r[k] = q[k + 1] /\ (k > p - 1 => k + 1 > p)
  BY <1>1
<1>4. CASE p = 1
  <2>1. \A k \in DOMAIN r : r[k].fn # "MaintenanceInit"
    <3> SUFFICES ASSUME NEW k \in DOMAIN r PROVE r[k].fn # "MaintenanceInit"
      OBVIOUS
    <3>1. k + 1 \in DOMAIN q /\ k + 1 > p /\ r[k] = q[k + 1]
      BY <1>1, <1>4
    <3> QED BY <1>2, <3>1
  <2> QED BY <1>1, <1>2, <1>4, <2>1 DEF Has, r
<1>5. CASE p # 1
  <2>1. p - 1 \in DOMAIN r /\ p - 1 < j - 1 /\ r[p - 1] = q[p]
    BY <1>1, <1>2, <1>5
  <2>2. \A k \in DOMAIN r : k > p - 1 => r[k].fn # "MaintenanceInit"
    BY <1>2, <1>3
  <2>3. Carried(r, x, j - 1)
    BY <1>2, <2>1, <2>2 DEF Carried
  <2> QED BY <2>3 DEF r
<1> QED BY <1>4, <1>5

\* What becomes of the memory v of a terminal that takes the head of q
Served(v, w, q) ==
  Alive(w, Tail(q)) =>
    /\ Alive(v, q) /\ Range(v.pools) \subseteq Range(w.pools)
    /\ Head(q).fn = "ObjectPoolTransfer" =>
         Head(q).chunks \in Range(w.pools) \/ Has(Tail(q), "MaintenanceInit")
    /\ v.managed /\ v.tree => w.managed /\ w.tree

LEMMA RestSure ==
  ASSUME NEW S, NEW q \in Seq(S), q # <<>>, NEW v, NEW w, Served(v, w, q)
  PROVE  /\ \A i \in Pool, j \in Int : Sure(v, q, i, j) => Sure(w, Tail(q), i, j - 1)
         /\ Done(v, q) => Done(w, Tail(q))
<1>1. ASSUME NEW i \in Pool, NEW j \in Int, Sure(v, q, i, j), Alive(w, Tail(q))
      PROVE  AllPools[i] \in Range(w.pools) \/ Carried(Tail(q), AllPools[i], j - 1)
  <2>1. AllPools[i] \in Range(v.pools) \/ Carried(q, AllPools[i], j)
    BY <1>1 DEF Sure, Served
  <2> QED BY <1>1, <2>1, RestCarried DEF Served
<1>2. Done(v, q) => Done(w, Tail(q))
  BY DEF Done, Served, Present
<1> QED BY <1>1, <1>2 DEF Sure

-----------------------------------------------------------------------------
Before == {"Disconnected", "WaitForPartnerVTStatusMessage", "SendWorkingSetMasterMessage",
           "ReadyForObjectPool"}
Ending == {"SendEndOfObjectPool", "WaitForEndOfObjectPoolResponse"}
Ended == {"SendStoreVersion", "WaitForStoreVersionResponse", "Connected"}
Open(c) == {i \in Pool : ~c.uploaded[i]}
FirstOpen(c) == CHOOSE j \in Open(c) : \A k \in Open(c) : j <= k

\* The requests of an earlier session are served when the client begins anew
Line(c, q) ==
  /\ \A p, k \in DOMAIN q : q[p].fn = "DeleteObjectPool" /\ k > p => q[k].fn # "MaintenanceInit"
  /\ Has(q, "DeleteObjectPool") => c.state \in Before /\ c.work = "idle"
  /\ c.state \in Before => \A i \in Pool : ~c.uploaded[i]
  /\ c.state \in {"SendWorkingSetMasterMessage", "ReadyForObjectPool"} => c.heard # "none"
  /\ c.state \in Before /\ c.heard # "none" =>
       \A fn \in Outcome \cup {"DeleteObjectPool"} : ~Has(q, fn)

\* A transfer carries the first pool that is not marked, and its outcome is
\* taken for that one
Uploads(c, t, v, q) ==
  /\ t # NoTransfer => c.upload = "InProgress" \/ c.work = "upload"
  /\ c.work = "upload" => c.state \in {"UploadObjectPool", "Disconnected"}
  /\ c.state = "UploadObjectPool" =>
       /\ t # NoTransfer =>
            Open(c) # {} /\ \A k \in DOMAIN t.chunks : t.chunks[k] = FirstOpen(c)
       /\ c.upload = "Success" => Open(c) # {} /\ Sure(v, q, FirstOpen(c), Len(q) + 1)
       /\ c.upload = "Failed" => Open(c) # {}

\* What is marked is on the terminal or on its way there in front of the end of
\* the pool
Promises(c, v, q) ==
  /\ \A i \in Pool : c.uploaded[i] => Sure(v, q, i, Len(q) + 1)
  /\ c.state \in Ending \/ c.work = "WaitForEndOfObjectPoolResponse" => AllSure(v, q, Len(q) + 1)
  /\ \A j \in DOMAIN q : q[j].fn = "EndOfObjectPool" => AllSure(v, q, j)
  /\ c.state \in Ended \/ c.work = "WaitForStoreVersionResponse" \/ Has(q, "StoreVersion") =>
       Done(v, q)

\* What is parsed or stored is complete, and a good answer is about that
Keeps(m, q, e) ==
  /\ Has(q, "MaintenanceInit") /\ ~m.vol.managed => \A p \in DOMAIN e : e[p].fn \notin Outcome
  /\ m.own # NoPools => Range(AllPools) \subseteq Range(m.own)
  /\ m.vol.parse \in {"Running", "Success", "Fail"} \/ m.vol.loaded => Present(m.vol)
  /\ m.vol.parse \in {"Success", "Fail"} => m.vol.tree
  /\ \A p \in DOMAIN e : e[p].fn \in Outcome /\ e[p].ok /\ m.vol.managed =>
       m.vol.tree /\ Present(m.vol)

Sound(c, t, v, q) == Line(c, q) /\ Uploads(c, t, v, q) /\ Promises(c, v, q)
PoolInv == ~client.stale => Sound(client, transfer, terminal.vol, toVT) /\ Keeps(terminal, toVT, toECU)

LEMMA FirstIsOpen ==
  ASSUME NEW c, Open(c) # {}
  PROVE  /\ FirstOpen(c) \in Open(c) /\ FirstOpen(c) \in Pool
         /\ \A k \in Open(c) : FirstOpen(c) <= k
<1>1. Open(c) \subseteq Pool /\ Open(c) \in SUBSET Nat
  BY LinkAssumption DEF Open, Pool
<1>2. \E j \in Open(c) : \A k \in Open(c) : j <= k
  BY <1>1, First
<1> QED BY <1>1, <1>2 DEF FirstOpen

\* A request that is not the first of a session, nor ends it
LEMMA SendSound ==
  ASSUME NEW q \in Seq(ToTerminal), NEW m \in ToTerminal, NEW c, NEW t, NEW v, Sound(c, t, v, q),
         m.fn \notin {"MaintenanceInit", "DeleteObjectPool"},
         m.fn \in Outcome => c.state \notin Before,
         m.fn = "EndOfObjectPool" => AllSure(v, q, Len(q) + 1),
         m.fn = "StoreVersion" => Done(v, q)
  PROVE  Sound(c, t, v, q \o <<m>>)
<1> DEFINE r == q \o <<m>>
<1>1. /\ Len(q) \in Nat /\ Len(r) = Len(q) + 1 /\ DOMAIN q = 1 .. Len(q) /\ DOMAIN r = 1 .. Len(q) + 1
      /\ \A p \in 1 .. Len(q) : r[p] = q[p]
      /\ r[Len(q) + 1] = m
  BY SendElements
<1>2. \A fn : Has(r, fn) <=> Has(q, fn) \/ m.fn = fn
  BY SendHas
<1>3. /\ \A i \in Pool, j \in Int : Sure(v, q, i, j) => Sure(v, r, i, j)
      /\ \A i \in Pool : Sure(v, q, i, Len(q) + 1) => Sure(v, r, i, Len(r) + 1)
      /\ Done(v, q) => Done(v, r)
  BY <1>1, SendSure
<1> HIDE DEF r
<1>4. Line(c, r)
  <2>1. ASSUME NEW p \in DOMAIN r, NEW k \in DOMAIN r, r[p].fn = "DeleteObjectPool", k > p
        PROVE  r[k].fn # "MaintenanceInit"
    <3>1. k = Len(q) + 1 \/ (k \in DOMAIN q /\ p \in DOMAIN q)
      BY <1>1, <2>1
    <3> QED BY <1>1, <2>1, <3>1 DEF Sound, Line
  <2> QED BY <1>2, <2>1 DEF Sound, Line, Outcome
<1>5. Uploads(c, t, v, r)
  BY <1>3, FirstIsOpen DEF Sound, Uploads
<1>6. Promises(c, v, r)
  <2>1. AllSure(v, q, Len(q) + 1) => AllSure(v, r, Len(r) + 1) /\ AllSure(v, r, Len(q) + 1)
    BY <1>1, <1>3 DEF AllSure
  <2>2. ASSUME NEW j \in DOMAIN r, r[j].fn = "EndOfObjectPool" PROVE AllSure(v, r, j)
    <3>1. CASE j = Len(q) + 1
      BY <1>1, <2>1, <2>2, <3>1
    <3>2. CASE j \in DOMAIN q
      <4>1. AllSure(v, q, j) /\ j \in Int
        BY <1>1, <2>2, <3>2 DEF Sound, Promises
      <4> QED BY <1>3, <4>1 DEF AllSure
    <3> QED BY <1>1, <3>1, <3>2
  <2> QED BY <1>2, <1>3, <2>1, <2>2 DEF Sound, Promises
<1> QED BY <1>4, <1>5, <1>6 DEF Sound, r

\* The head of the line is served, refused or lost
LEMMA RestSound ==
  ASSUME NEW q \in Seq(ToTerminal), q # <<>>, NEW c, NEW t, NEW v, NEW w, Sound(c, t, v, q),
         Served(v, w, q)
  PROVE  Sound(c, t, w, Tail(q))
<1> DEFINE r == Tail(q)
<1>1. /\ Len(q) \in Nat /\ Len(r) = Len(q) - 1 /\ DOMAIN q = 1 .. Len(q) /\ DOMAIN r = 1 .. Len(q) - 1
      /\ \A p \in 1 .. Len(q) - 1 : r[p] = q[p + 1]
  BY RestElements
<1>2. \A fn : Has(r, fn) => Has(q, fn)
  BY RestHas
<1>3. /\ \A i \in Pool, j \in Int : Sure(v, q, i, j) => Sure(w, r, i, j - 1)
      /\ Done(v, q) => Done(w, r)
  BY RestSure
<1> HIDE DEF r
<1>4. \A i \in Pool : Sure(v, q, i, Len(q) + 1) => Sure(w, r, i, Len(r) + 1)
  <2>1. Len(q) + 1 \in Int /\ Len(q) + 1 - 1 = Len(r) + 1
    BY <1>1
  <2> QED BY <1>3, <2>1
<1>5. Line(c, r)
  <2>1. ASSUME NEW p \in DOMAIN r, NEW k \in DOMAIN r, r[p].fn = "DeleteObjectPool", k > p
        PROVE  r[k].fn # "MaintenanceInit"
    <3>1. p + 1 \in DOMAIN q /\ k + 1 \in DOMAIN q /\ k + 1 > p + 1 /\ r[p] = q[p + 1] /\ r[k] = q[k + 1]
      BY <1>1, <2>1
    <3> QED BY <2>1, <3>1 DEF Sound, Line
  <2> QED BY <1>2, <2>1 DEF Sound, Line
<1>6. Uploads(c, t, w, r)
  BY <1>4, FirstIsOpen DEF Sound, Uploads
<1>7. Promises(c, w, r)
  <2>1. AllSure(v, q, Len(q) + 1) => AllSure(w, r, Len(r) + 1)
    BY <1>4 DEF AllSure
  <2>2. ASSUME NEW j \in DOMAIN r, r[j].fn = "EndOfObjectPool" PROVE AllSure(w, r, j)
    <3>1. j + 1 \in DOMAIN q /\ r[j] = q[j + 1] /\ j + 1 \in Int /\ (j + 1) - 1 = j
      BY <1>1
    <3>2. AllSure(v, q, j + 1)
      BY <2>2, <3>1 DEF Sound, Promises
    <3> QED BY <1>3, <3>1, <3>2 DEF AllSure
  <2> QED BY <1>2, <1>3, <1>4, <2>1, <2>2 DEF Sound, Promises
<1> QED BY <1>5, <1>6, <1>7 DEF Sound, r

-----------------------------------------------------------------------------
(* What the client does *)

LEMMA SetStateParts ==
  ASSUME NEW c \in ClientType, NEW s \in State
  PROVE  /\ SetState(c, s) \in ClientType
         /\ SetState(c, s).state = s /\ SetState(c, s).upload = c.upload
         /\ SetState(c, s).work = c.work /\ SetState(c, s).running = c.running
         /\ s # "Disconnected" =>
              SetState(c, s).uploaded = c.uploaded /\ SetState(c, s).heard = c.heard
         /\ s = "Disconnected" =>
              /\ SetState(c, s).heard = "none"
              /\ \A i \in Pool : ~SetState(c, s).uploaded[i]
         /\ ~SetState(c, s).stale =>
              ~c.stale /\ (s = "UploadObjectPool" => c.upload = "Uninitialized")
<1>1. SetState(c, s) \in ClientType
  BY SetStateType
<1>2. /\ SetState(c, s).state = s /\ SetState(c, s).upload = c.upload
      /\ SetState(c, s).work = c.work /\ SetState(c, s).running = c.running
      /\ SetState(c, s).heard = IF s = "Disconnected" THEN "none" ELSE c.heard
      /\ SetState(c, s).stale = (c.stale \/ (s = "UploadObjectPool" /\ c.upload # "Uninitialized"))
      /\ SetState(c, s).uploaded = IF s = "Disconnected" THEN [i \in Pool |-> FALSE] ELSE c.uploaded
  BY DEF SetState, ClientType
<1>3. c.stale \in BOOLEAN
  BY DEF ClientType
<1> HIDE DEF SetState
<1> QED BY <1>1, <1>2, <1>3

\* The client goes on to a state of the connection, or stays there
LEMMA MoveSound ==
  ASSUME NEW q \in Seq(ToTerminal), NEW c, NEW d, NEW t, NEW v, Sound(c, t, v, q),
         d.uploaded = c.uploaded, d.upload = c.upload,
         d.state \notin Before, c.state \notin Before \/ c.work # "idle",
         c.work # "upload", d.work # "upload",
         d.state = "UploadObjectPool" => c.state = "UploadObjectPool" \/ c.upload = "Uninitialized",
         d.state \in Ending \/ d.work = "WaitForEndOfObjectPoolResponse" => AllSure(v, q, Len(q) + 1),
         d.state \in Ended \/ d.work = "WaitForStoreVersionResponse" => Done(v, q)
  PROVE  Sound(d, t, v, q)
<1>1. ~Has(q, "DeleteObjectPool")
  BY DEF Sound, Line
<1>2. Line(d, q)
  BY <1>1 DEF Sound, Line, Before
<1>3. Open(d) = Open(c) /\ FirstOpen(d) = FirstOpen(c)
  BY DEF Open, FirstOpen
<1>4. t # NoTransfer => c.upload = "InProgress"
  BY DEF Sound, Uploads
<1>5. Uploads(d, t, v, q)
  BY <1>3, <1>4 DEF Sound, Uploads
<1>6. Promises(d, v, q)
  <2>1. Has(q, "StoreVersion") => Done(v, q)
    BY DEF Sound, Promises
  <2> QED BY <2>1 DEF Sound, Promises
<1> QED BY <1>2, <1>5, <1>6 DEF Sound

\* The connection is given up: nothing is marked any more
LEMMA GiveUpSound ==
  ASSUME NEW q \in Seq(ToTerminal), NEW c, NEW d, NEW t, NEW v, Sound(c, t, v, q),
         d.state = "Disconnected", d.heard = "none", \A i \in Pool : ~d.uploaded[i],
         d.work = c.work, d.upload = c.upload
  PROVE  Sound(d, t, v, q)
<1>1. Line(d, q)
  BY DEF Sound, Line, Before
<1>2. Uploads(d, t, v, q)
  BY DEF Sound, Uploads
<1>3. Promises(d, v, q)
  BY DEF Sound, Promises, Ending, Ended
<1> QED BY <1>1, <1>2, <1>3 DEF Sound

\* Nothing changes but what was heard, or what happens before the session
LEMMA BeginSound ==
  ASSUME NEW q \in Seq(ToTerminal), NEW c, NEW d, NEW t, NEW v, Sound(c, t, v, q),
         d.uploaded = c.uploaded, d.upload = c.upload, d.work = c.work,
         d.state = c.state \/ (c.state \in Before /\ d.state \in Before /\ c.work = "idle"),
         d.heard # "none" => c.heard # "none" \/ \A fn \in Outcome \cup {"DeleteObjectPool"} : ~Has(q, fn),
         d.state \in {"SendWorkingSetMasterMessage", "ReadyForObjectPool"} => d.heard # "none"
  PROVE  Sound(d, t, v, q)
<1>1. Open(d) = Open(c) /\ FirstOpen(d) = FirstOpen(c)
  BY DEF Open, FirstOpen
<1>2. Line(d, q)
  BY DEF Sound, Line
<1>3. Uploads(d, t, v, q)
  BY <1>1 DEF Sound, Uploads, Before
<1>4. Promises(d, v, q)
  BY DEF Sound, Promises, Before, Ending, Ended
<1> QED BY <1>2, <1>3, <1>4 DEF Sound

\* A transfer ends, or the worker notes that one has begun
LEMMA OutcomeSound ==
  ASSUME NEW q \in Seq(ToTerminal), NEW c, NEW t, NEW u, NEW d, NEW v, Sound(c, t, v, q),
         d.uploaded = c.uploaded, d.state = c.state, d.heard = c.heard,
         \/ d.work = c.work
         \/ c.work = "upload" /\ d.work = "idle",
         u # NoTransfer => u = t /\ d.upload = "InProgress",
         c.state = "UploadObjectPool" /\ d.upload = "Success" =>
           Open(c) # {} /\ Sure(v, q, FirstOpen(c), Len(q) + 1),
         c.state = "UploadObjectPool" /\ d.upload = "Failed" => Open(c) # {}
  PROVE  Sound(d, u, v, q)
<1>1. Open(d) = Open(c) /\ FirstOpen(d) = FirstOpen(c)
  BY DEF Open, FirstOpen
<1>2. Line(d, q)
  BY DEF Sound, Line
<1>3. Uploads(d, u, v, q)
  BY <1>1 DEF Sound, Uploads
<1>4. Promises(d, v, q)
  BY DEF Sound, Promises
<1> QED BY <1>2, <1>3, <1>4 DEF Sound

-----------------------------------------------------------------------------
(* The pass over pools that were given by pointer *)

\* What the pass does to the client at the pool i, from r to s
PassStep(r, i, s) ==
  \/ r.over /\ s = r
  \/ ~r.over /\ r.c.upload = "InProgress" /\ s.c = r.c /\ ~s.all /\ s.sent = r.sent /\ s.over
  \/ /\ ~r.over /\ r.c.upload = "Failed"
     /\ s.c.state = "Disconnected" /\ s.c.heard = "none" /\ \A k \in Pool : ~s.c.uploaded[k]
     /\ s.c.upload = "Uninitialized" /\ s.c.work = r.c.work /\ s.c.stale = r.c.stale
     /\ s.all = (r.all /\ r.c.uploaded[i]) /\ s.sent = r.sent /\ ~s.over
  \/ /\ ~r.over /\ r.c.upload = "Success" /\ ~r.c.uploaded[i]
     /\ s.c.uploaded = [r.c.uploaded EXCEPT ![i] = TRUE] /\ s.c.upload = "Uninitialized"
     /\ s.c.state = r.c.state /\ s.c.heard = r.c.heard
     /\ s.c.work = r.c.work /\ s.c.stale = r.c.stale
     /\ ~s.all /\ s.sent = r.sent /\ ~s.over
  \/ /\ ~r.over /\ r.c.upload = "Uninitialized" /\ ~r.c.uploaded[i] /\ transfer = NoTransfer
     /\ s.c.uploaded = r.c.uploaded /\ s.c.upload = "InProgress"
     /\ s.c.state = r.c.state /\ s.c.heard = r.c.heard
     /\ s.c.work = r.c.work /\ s.c.stale = r.c.stale
     /\ ~s.all /\ s.sent = i /\ ~s.over
  \/ /\ ~r.over
     /\ \/ r.c.upload = "Success" /\ r.c.uploaded[i]
        \/ r.c.upload = "Uninitialized" /\ (r.c.uploaded[i] \/ transfer # NoTransfer)
     /\ s.c = r.c /\ s.all = (r.all /\ r.c.uploaded[i]) /\ s.sent = r.sent /\ ~s.over

LEMMA PassPoolCases ==
  ASSUME ByVector = {}, NEW r \in PassType, NEW i \in Pool
  PROVE  PassStep(r, i, PassPool(r, i))
<1> DEFINE s == PassPool(r, i)
<1>1. /\ r.c \in ClientType /\ r.all \in BOOLEAN /\ r.over \in BOOLEAN
      /\ r.c.upload \in {"Uninitialized", "InProgress", "Success", "Failed"}
      /\ r.c.uploaded[i] \in BOOLEAN /\ r = [c |-> r.c, all |-> r.all, sent |-> r.sent, over |-> r.over]
  BY DEF PassType, ClientType
<1>2. i \notin ByVector
  OBVIOUS
<1>3. CASE r.over
  <2>1. s = r
    BY <1>3 DEF PassPool
  <2> QED BY <1>3, <2>1 DEF PassStep
<1>4. CASE ~r.over /\ r.c.upload = "InProgress"
  <2>1. s = [r EXCEPT !.all = FALSE, !.over = TRUE]
    BY <1>2, <1>4 DEF PassPool
  <2>2. s.c = r.c /\ ~s.all /\ s.sent = r.sent /\ s.over
    BY <1>1, <2>1
  <2> QED BY <1>4, <2>2 DEF PassStep
<1>5. CASE ~r.over /\ r.c.upload = "Failed"
  <2> DEFINE d == [r.c EXCEPT !.upload = "Uninitialized"]
            f == SetState(d, "Disconnected")
  <2>1. /\ d \in ClientType /\ d.upload = "Uninitialized" /\ d.work = r.c.work
        /\ d.stale = r.c.stale /\ d.stale \in BOOLEAN
    BY <1>1 DEF ClientType
  <2>2. s = [r EXCEPT !.c = f, !.all = r.all /\ r.c.uploaded[i]]
    BY <1>2, <1>5 DEF PassPool
  <2> HIDE DEF d
  <2>3. /\ f.state = "Disconnected" /\ f.heard = "none" /\ (\A k \in Pool : ~f.uploaded[k])
        /\ f.upload = "Uninitialized" /\ f.work = r.c.work /\ f.stale = r.c.stale
    BY <2>1 DEF SetState, ClientType
  <2> HIDE DEF f
  <2>4. s.c = f /\ s.all = (r.all /\ r.c.uploaded[i]) /\ s.sent = r.sent /\ ~s.over
    BY <1>1, <1>5, <2>2
  <2> QED BY <1>5, <2>3, <2>4 DEF PassStep
<1>6. CASE ~r.over /\ r.c.upload = "Success" /\ ~r.c.uploaded[i]
  <2> DEFINE f == [r.c EXCEPT !.uploaded[i] = TRUE, !.upload = "Uninitialized"]
  <2>1. s = [r EXCEPT !.c = f, !.all = FALSE]
    BY <1>2, <1>6 DEF PassPool
  <2>2. /\ f.uploaded = [r.c.uploaded EXCEPT ![i] = TRUE] /\ f.upload = "Uninitialized"
        /\ f.state = r.c.state /\ f.heard = r.c.heard /\ f.work = r.c.work /\ f.stale = r.c.stale
    BY <1>1 DEF ClientType
  <2> HIDE DEF f
  <2>3. s.c = f /\ ~s.all /\ s.sent = r.sent /\ ~s.over
    BY <1>1, <1>6, <2>1
  <2> QED BY <1>6, <2>2, <2>3 DEF PassStep
<1>7. CASE ~r.over /\ r.c.upload = "Uninitialized" /\ ~r.c.uploaded[i] /\ transfer = NoTransfer
  <2> DEFINE f == [r.c EXCEPT !.upload = "InProgress"]
  <2>1. s = [r EXCEPT !.c.upload = "InProgress", !.all = FALSE, !.sent = i]
    BY <1>2, <1>7 DEF PassPool
  <2>2. /\ f.uploaded = r.c.uploaded /\ f.upload = "InProgress"
        /\ f.state = r.c.state /\ f.heard = r.c.heard /\ f.work = r.c.work /\ f.stale = r.c.stale
    BY <1>1 DEF ClientType
  <2>3. s.c = f /\ ~s.all /\ s.sent = i /\ ~s.over
    BY <1>1, <1>7, <2>1
  <2> HIDE DEF f
  <2> QED BY <1>7, <2>2, <2>3 DEF PassStep
<1>8. CASE /\ ~r.over
           /\ \/ r.c.upload = "Success" /\ r.c.uploaded[i]
              \/ r.c.upload = "Uninitialized" /\ (r.c.uploaded[i] \/ transfer # NoTransfer)
  <2>1. s = [r EXCEPT !.all = r.all /\ r.c.uploaded[i]]
    BY <1>1, <1>2, <1>8 DEF PassPool
  <2>2. s.c = r.c /\ s.all = (r.all /\ r.c.uploaded[i]) /\ s.sent = r.sent /\ ~s.over
    BY <1>1, <1>8, <2>1
  <2> QED BY <1>8, <2>2 DEF PassStep
<1> QED BY <1>1, <1>3, <1>4, <1>5, <1>6, <1>7, <1>8

\* What has become of the client when the pass has looked at n pools
PassAt(r, n) ==
  /\ r.c.work = client.work /\ (~r.c.stale => ~client.stale) /\ (r.over => ~r.all)
  /\ r.sent # 0 => r.sent \in Pool /\ ~r.c.uploaded[r.sent] /\ r.c.upload = "InProgress" /\ ~r.all
  /\ client.upload = "InProgress" => r.c = client /\ r.sent = 0 /\ (n > 0 => ~r.all)
  /\ client.upload # "InProgress" /\ r.sent = 0 => ~r.over /\ r.c.upload # "InProgress"
  /\ client.upload = "Failed" /\ n = 0 => r.c = client /\ r.sent = 0
  /\ client.upload = "Failed" /\ n > 0 =>
       /\ r.c.state = "Disconnected" /\ r.c.heard = "none" /\ \A k \in Pool : ~r.c.uploaded[k]
       /\ r.c.upload \in {"Uninitialized", "InProgress"}
       /\ n > 1 \/ ~client.uploaded[1] => ~r.all
  /\ client.upload = "Success" /\ n < FirstOpen(client) => r.c = client /\ r.sent = 0
  /\ client.upload = "Success" /\ n >= FirstOpen(client) =>
       /\ r.c.state = client.state /\ r.c.heard = client.heard /\ ~r.all
       /\ r.c.uploaded = [client.uploaded EXCEPT ![FirstOpen(client)] = TRUE]
       /\ r.c.upload \in {"Uninitialized", "InProgress"}
  /\ client.upload = "Uninitialized" =>
       /\ r.c.state = client.state /\ r.c.heard = client.heard /\ r.c.uploaded = client.uploaded
       /\ r.c.upload \in {"Uninitialized", "InProgress"}
       /\ r.all => \A k \in 1 .. n : client.uploaded[k]

PassMay ==
  /\ transfer # NoTransfer => client.upload = "InProgress"
  /\ client.upload \in {"Success", "Failed"} => Open(client) # {}

LEMMA PassAtStep ==
  ASSUME ByVector = {}, client \in ClientType, PassMay, NEW r \in PassType, NEW n \in Nat, n < NPools,
         PassAt(r, n)
  PROVE  PassAt(PassPool(r, n + 1), n + 1)
<1>1. PICK s : s = PassPool(r, n + 1)
  OBVIOUS
<1>2. n + 1 \in Pool /\ n + 1 > 0 /\ NPools \in Nat /\ 0 \notin Pool /\ n + 1 # 0
  BY LinkAssumption DEF Pool
<1>3. /\ r.c \in ClientType /\ r.all \in BOOLEAN /\ r.over \in BOOLEAN
      /\ client.upload \in {"Uninitialized", "InProgress", "Success", "Failed"}
      /\ client.uploaded \in [Pool -> BOOLEAN]
  BY DEF PassType, ClientType
<1>0. PICK i \in Pool : i = n + 1
  BY <1>2
<1>4. PassStep(r, i, s)
  BY <1>0, <1>1, PassPoolCases
<1> SUFFICES PassAt(s, n + 1)
  BY <1>1
<1>5. CASE client.upload = "InProgress"
  BY <1>0, <1>2, <1>3, <1>4, <1>5 DEF PassAt, PassStep
<1>6. CASE client.upload = "Failed"
  <2>0. transfer = NoTransfer
    BY <1>6 DEF PassMay
  <2>1. CASE n = 0
    BY <1>0, <1>2, <1>3, <1>4, <1>6, <2>0, <2>1 DEF PassAt, PassStep
  <2>2. CASE n > 0
    BY <1>0, <1>2, <1>3, <1>4, <1>6, <2>0, <2>2 DEF PassAt, PassStep
  <2> QED BY <2>1, <2>2
<1>7. CASE client.upload = "Success"
  <2>0. /\ transfer = NoTransfer
        /\ FirstOpen(client) \in Open(client) /\ FirstOpen(client) \in Pool
        /\ \A k \in Open(client) : FirstOpen(client) <= k
    BY <1>7, FirstIsOpen DEF PassMay
  <2>1. PICK a : a = FirstOpen(client)
    OBVIOUS
  <2>2. a \in Pool /\ a \in Nat /\ ~client.uploaded[a] /\ (n + 1 < a => client.uploaded[n + 1])
    BY <1>2, <2>0, <2>1, LinkAssumption DEF Open, Pool
  <2>3. CASE n + 1 < a
    BY <1>0, <1>2, <1>3, <1>4, <1>7, <2>0, <2>1, <2>2, <2>3 DEF PassAt, PassStep
  <2>4. CASE n + 1 = a
    <3>1. r.c = client /\ r.sent = 0 /\ ~r.over
      BY <1>2, <1>7, <2>1, <2>2, <2>4 DEF PassAt, PassStep
    <3>2. ~r.c.uploaded[n + 1]
      BY <2>2, <2>4, <3>1
    <3>3. /\ s.c.uploaded = [client.uploaded EXCEPT ![a] = TRUE] /\ s.c.upload = "Uninitialized"
          /\ s.c.state = client.state /\ s.c.heard = client.heard
          /\ s.c.work = client.work /\ s.c.stale = client.stale
          /\ ~s.all /\ s.sent = 0 /\ ~s.over
      BY <1>0, <1>4, <1>7, <2>4, <3>1, <3>2 DEF PassStep
    <3> QED BY <1>2, <1>7, <2>1, <2>2, <2>4, <3>3 DEF PassAt, PassStep
  <2>5. CASE n + 1 > a
    BY <1>0, <1>2, <1>3, <1>4, <1>7, <2>0, <2>1, <2>2, <2>5 DEF PassAt, PassStep
  <2> QED BY <1>2, <2>2, <2>3, <2>4, <2>5
<1>8. CASE client.upload = "Uninitialized"
  <2>1. transfer = NoTransfer
    BY <1>8 DEF PassMay
  <2>2. \A k \in 1 .. n + 1 : k = n + 1 \/ k \in 1 .. n
    OBVIOUS
  <2> QED BY <1>0, <1>2, <1>3, <1>4, <1>8, <2>1, <2>2 DEF PassAt, PassStep
<1> QED BY <1>3, <1>5, <1>6, <1>7, <1>8

LEMMA UploadPassAt ==
  ASSUME ByVector = {}, client \in ClientType, PassMay
  PROVE  UploadPass \in PassType /\ PassAt(UploadPass, NPools)
<1>1. PICK f : PassSteps(f, NPools) /\ UploadPass = f[NPools]
  BY UploadPassSteps
<1> DEFINE S == {n \in Nat : n <= NPools => f[n] \in PassType /\ PassAt(f[n], n)}
<1>2. 0 \in S
  <2>1. PassStart \in PassType
    BY LinkAssumption DEF PassStart, PassType
  <2>2. PassAt(PassStart, 0)
    <3>1. /\ PassStart.c = client /\ PassStart.all = TRUE /\ PassStart.sent = 0 /\ PassStart.over = FALSE
          /\ client.upload \in {"Uninitialized", "InProgress", "Success", "Failed"}
      BY DEF PassStart, ClientType
    <3>2. \A k \in 1 .. 0 : FALSE
      OBVIOUS
    <3>3. PICK a : a = FirstOpen(client)
      OBVIOUS
    <3>4. client.upload = "Success" => ~(0 >= a)
      <4> SUFFICES ASSUME client.upload = "Success" PROVE ~(0 >= a)
        OBVIOUS
      <4>1. a \in Pool
        BY <3>3, FirstIsOpen DEF PassMay
      <4> QED BY <4>1, LinkAssumption DEF Pool
    <3> QED BY <3>1, <3>2, <3>3, <3>4 DEF PassAt
  <2> QED BY <1>1, <2>1, <2>2 DEF PassSteps
<1>3. ASSUME NEW n \in Nat, n \in S PROVE n + 1 \in S
  <2>1. CASE n + 1 <= NPools
    <3>1. n + 1 \in 1 .. NPools /\ n + 1 \in Pool /\ f[n] \in PassType /\ PassAt(f[n], n) /\ n < NPools
      BY <1>3, <2>1, LinkAssumption DEF Pool
    <3>2. f[n + 1] = PassPool(f[n], n + 1)
      BY <1>1, <3>1 DEF PassSteps
    <3>3. f[n + 1] \in PassType
      BY <3>1, <3>2, PassPoolType
    <3>4. PassAt(f[n + 1], n + 1)
      BY <3>1, <3>2, PassAtStep
    <3> QED BY <3>3, <3>4
  <2> QED BY <2>1
<1>4. NPools \in S
  <2> HIDE DEF S
  <2> QED BY <1>2, <1>3, Induction, LinkAssumption
<1> QED BY <1>1, <1>4, LinkAssumption

LEMMA UploadOnSound ==
  ASSUME NEW q \in Seq(ToTerminal), NEW c, NEW d, NEW t, NEW u, NEW v, Sound(c, t, v, q),
         c.state = "UploadObjectPool", d.state = "UploadObjectPool", d.work \in {"idle", "upload"},
         d.upload \in {"Uninitialized", "InProgress"},
         \A i \in Pool : d.uploaded[i] => Sure(v, q, i, Len(q) + 1),
         u # NoTransfer =>
           /\ u.chunks = <<>> /\ \E i \in Pool : ~d.uploaded[i]
           /\ d.upload = "InProgress" \/ d.work = "upload"
  PROVE  Sound(d, u, v, q)
<1>1. Line(d, q)
  BY DEF Sound, Line, Before
<1>2. Uploads(d, u, v, q)
  <2>1. u # NoTransfer => Open(d) # {} /\ DOMAIN u.chunks = {}
    BY DEF Open
  <2> QED BY <2>1 DEF Uploads
<1>3. Promises(d, v, q)
  BY DEF Sound, Promises, Ending, Ended
<1> QED BY <1>1, <1>2, <1>3 DEF Sound

\* update() in UploadObjectPool
LEMMA UploadSound ==
  ASSUME ByVector = {}, Typed, WorkUpload, Sound(client, transfer, vol, toVT), ~client'.stale,
         NEW d, NEW u, d = client', u = transfer'
  PROVE  ~client.stale /\ Sound(d, u, vol, toVT)
<1>1. /\ client \in ClientType /\ client.work = "idle" /\ client.state = "UploadObjectPool"
      /\ toVT \in Seq(ToTerminal) /\ NPools \in Nat \ {0}
      /\ client.upload \in {"Uninitialized", "InProgress", "Success", "Failed"}
  BY LinkAssumption DEF Typed, WorkUpload, Idle, ClientType
<1>2. PassMay
  BY <1>1 DEF Sound, Uploads, PassMay
<1>3. PICK r : r = UploadPass
  OBVIOUS
<1> DEFINE c == IF r.all THEN SetState(r.c, "SendEndOfObjectPool") ELSE r.c
<1>4. r \in PassType /\ PassAt(r, NPools) /\ r.c \in ClientType
  BY <1>1, <1>2, <1>3, UploadPassAt DEF PassType
<1>5. \/ r.sent = 0 /\ d = c /\ u = transfer
      \/ /\ r.sent # 0 /\ u = [NoTransfer EXCEPT !.pool = r.sent]
         /\ d = c \/ d = [c EXCEPT !.upload = "Uninitialized", !.work = "upload"]
  BY <1>3 DEF WorkUpload
<1>6. r.sent # 0 => ~r.all
  BY <1>4 DEF PassAt
<1>7. ASSUME ~r.all
      PROVE  /\ d.stale = r.c.stale /\ d.state = r.c.state /\ d.heard = r.c.heard
             /\ d.uploaded = r.c.uploaded
             /\ \/ d.upload = r.c.upload /\ d.work = r.c.work
                \/ r.sent # 0 /\ d.upload = "Uninitialized" /\ d.work = "upload"
  BY <1>4, <1>5, <1>7 DEF ClientType
<1>8. r.all => /\ d.stale = r.c.stale /\ d.state = "SendEndOfObjectPool" /\ d.upload = r.c.upload
               /\ d.uploaded = r.c.uploaded /\ d.work = r.c.work /\ u = transfer
  <2> SUFFICES ASSUME r.all PROVE d = SetState(r.c, "SendEndOfObjectPool") /\ u = transfer
    BY <1>4 DEF SetState, ClientType
  <2> QED BY <1>5, <1>6
<1>9. ~client.stale
  BY <1>4, <1>7, <1>8 DEF PassAt
<1>10. r.sent # 0 => u.chunks = <<>> /\ r.sent \in Pool /\ ~r.c.uploaded[r.sent] /\ r.c.upload = "InProgress"
  BY <1>4, <1>5 DEF PassAt, NoTransfer
<1> HIDE DEF c
<1>11. CASE client.upload = "InProgress"
  <2>1. d = client /\ u = transfer
    BY <1>1, <1>4, <1>5, <1>11 DEF PassAt, c
  <2> QED BY <1>9, <2>1
<1>12. ASSUME client.upload # "InProgress"
       PROVE  transfer = NoTransfer /\ (u # NoTransfer => r.sent # 0) /\ r.c.work = "idle"
  BY <1>1, <1>2, <1>4, <1>5, <1>12 DEF PassMay, PassAt
<1>13. CASE client.upload = "Failed"
  <2>1. \E i \in Pool : ~client.uploaded[i]
    BY <1>2, <1>13 DEF PassMay, Open
  <2>2. NPools > 1 \/ ~client.uploaded[1]
    BY <1>1, <2>1 DEF Pool
  <2>3. /\ r.c.state = "Disconnected" /\ r.c.heard = "none" /\ \A k \in Pool : ~r.c.uploaded[k]
        /\ ~r.all
    BY <1>1, <1>4, <1>13, <2>2 DEF PassAt
  <2>4. Line(d, toVT)
    BY <1>1, <1>7, <2>3 DEF Sound, Line, Before
  <2>5. Uploads(d, u, vol, toVT)
    BY <1>7, <1>10, <1>12, <1>13, <2>3 DEF Uploads
  <2>6. Promises(d, vol, toVT)
    BY <1>7, <1>12, <1>13, <2>3 DEF Sound, Promises, Ending, Ended
  <2> QED BY <1>9, <2>4, <2>5, <2>6 DEF Sound
<1>14. ASSUME client.upload \in {"Success", "Uninitialized"}, ~r.all, r.c.state = client.state,
              r.c.upload \in {"Uninitialized", "InProgress"},
              \A i \in Pool : r.c.uploaded[i] => Sure(vol, toVT, i, Len(toVT) + 1)
       PROVE  Sound(d, u, vol, toVT)
  <2>1. d.state = "UploadObjectPool" /\ d.work \in {"idle", "upload"}
        /\ d.upload \in {"Uninitialized", "InProgress"} /\ d.uploaded = r.c.uploaded
    BY <1>1, <1>7, <1>12, <1>14
  <2>2. u # NoTransfer => u.chunks = <<>> /\ (\E i \in Pool : ~d.uploaded[i])
                          /\ (d.upload = "InProgress" \/ d.work = "upload")
    BY <1>7, <1>10, <1>12, <1>14, <2>1
  <2> QED BY <1>1, <1>14, <2>1, <2>2, UploadOnSound
<1>15. CASE client.upload = "Success"
  <2>1. /\ FirstOpen(client) \in Pool /\ Sure(vol, toVT, FirstOpen(client), Len(toVT) + 1)
    BY <1>1, <1>2, <1>15, FirstIsOpen DEF PassMay, Sound, Uploads
  <2>2. PICK a \in Pool : a = FirstOpen(client)
    BY <2>1
  <2>3. a <= NPools
    BY <1>1, <2>2 DEF Pool
  <2>4. /\ r.c.state = client.state /\ ~r.all /\ r.c.upload \in {"Uninitialized", "InProgress"}
        /\ r.c.uploaded = [client.uploaded EXCEPT ![a] = TRUE]
    BY <1>1, <1>4, <1>15, <2>2, <2>3 DEF PassAt, Pool
  <2>5. client.uploaded \in [Pool -> BOOLEAN] /\ Sure(vol, toVT, a, Len(toVT) + 1)
    BY <1>1, <2>1, <2>2 DEF ClientType
  <2>6. \A i \in Pool : client.uploaded[i] => Sure(vol, toVT, i, Len(toVT) + 1)
    BY DEF Sound, Promises
  <2>7. \A i \in Pool : r.c.uploaded[i] => Sure(vol, toVT, i, Len(toVT) + 1)
    BY <2>4, <2>5, <2>6
  <2> QED BY <1>9, <1>14, <1>15, <2>4, <2>7
<1>16. CASE client.upload = "Uninitialized"
  <2>1. /\ r.c.state = client.state /\ r.c.uploaded = client.uploaded
        /\ r.c.upload \in {"Uninitialized", "InProgress"}
        /\ r.all => \A k \in Pool : client.uploaded[k]
    BY <1>1, <1>4, <1>16 DEF PassAt, Pool
  <2>2. \A i \in Pool : client.uploaded[i] => Sure(vol, toVT, i, Len(toVT) + 1)
    BY DEF Sound, Promises
  <2>3. CASE ~r.all
    BY <1>9, <1>14, <1>16, <2>1, <2>2, <2>3
  <2>4. CASE r.all
    <3>1. AllSure(vol, toVT, Len(toVT) + 1)
      BY <2>1, <2>2, <2>4 DEF AllSure
    <3>2. /\ d.state = "SendEndOfObjectPool" /\ d.uploaded = client.uploaded /\ d.work = "idle"
          /\ u = NoTransfer
      BY <1>8, <1>12, <1>16, <2>1, <2>4
    <3>3. Line(d, toVT)
      BY <1>1, <3>2 DEF Sound, Line, Before
    <3>4. Uploads(d, u, vol, toVT)
      BY <3>2 DEF Uploads
    <3>5. Promises(d, vol, toVT)
      BY <3>1, <3>2 DEF Sound, Promises, Ended
    <3> QED BY <1>9, <3>3, <3>4, <3>5 DEF Sound
  <2> QED BY <2>3, <2>4
<1> QED BY <1>1, <1>11, <1>13, <1>15, <1>16

-----------------------------------------------------------------------------
(* Every step *)

(* What the code does not guarantee and the property needs.  A client announces
   itself to a terminal that has forgotten it only when the outcomes of its
   earlier session have been read: an answer has no mark that ties it to a
   session.  And a terminal that finds no version to load has no pool of an upload
   that was given up: it parses what there is, and reports that as loaded *)
Undisturbed ==
  /\ client.state = "ReadyForObjectPool" /\ client'.state = "SendGetMemory" /\ ~vol.managed =>
       \A i \in DOMAIN toECU : toECU[i].fn \notin Outcome
  /\ ~vol.loaded /\ vol'.loaded => vol'.pools # vol.pools

\* The client alone
LEMMA AloneSound ==
  ASSUME ByVector = {}, Typed, Sound(client, transfer, vol, toVT), ~client'.stale,
         NEW d, NEW u, d = client', u = transfer',
         \/ WorkDisconnected \/ WorkStatusHeard \/ WorkMaster \/ WorkRequested \/ WorkTimesOut
         \/ WorkRetry \/ WorkConnected \/ WorkUpload \/ WorkUploadStarted \/ Status \/ StatusGrowsOld
         \/ Initialize
  PROVE  ~client.stale /\ Sound(d, u, vol, toVT)
<1>1. client \in ClientType /\ toVT \in Seq(ToTerminal)
  BY DEF Typed
<1>2. PICK c, t, v, q : c = client /\ t = transfer /\ v = vol /\ q = toVT
  OBVIOUS
<1>3. c \in ClientType /\ q \in Seq(ToTerminal) /\ Sound(c, t, v, q)
  BY <1>1, <1>2
<1>4. /\ {"Disconnected", "Failed", "WaitForPartnerVTStatusMessage", "SendWorkingSetMasterMessage",
          "ReadyForObjectPool"} \subseteq State
      /\ WaitState \subseteq State
  BY States
<1>5. CASE WorkDisconnected
  <2>1. c.state = "Disconnected" /\ c.work = "idle" /\ u = t
        /\ d = [SetState(c, "WaitForPartnerVTStatusMessage") EXCEPT !.maintain = FALSE]
    BY <1>2, <1>5 DEF WorkDisconnected, Idle, WorkerKeeps
  <2>2. /\ d.uploaded = c.uploaded /\ d.upload = c.upload /\ d.work = c.work /\ d.heard = c.heard
        /\ d.state = "WaitForPartnerVTStatusMessage" /\ d.stale = c.stale
    BY <1>3, <2>1 DEF SetState, ClientType
  <2>3. Sound(d, t, v, q)
    BY <1>3, <2>1, <2>2, BeginSound DEF Before
  <2> QED BY <1>2, <2>1, <2>2, <2>3
<1>6. CASE WorkStatusHeard
  <2>1. c.state = "WaitForPartnerVTStatusMessage" /\ c.work = "idle" /\ u = t /\ c.heard # "none"
        /\ d = SetState(c, "SendWorkingSetMasterMessage")
    BY <1>2, <1>6 DEF WorkStatusHeard, Idle, WorkerKeeps
  <2>2. /\ d.uploaded = c.uploaded /\ d.upload = c.upload /\ d.work = c.work /\ d.heard = c.heard
        /\ d.state = "SendWorkingSetMasterMessage" /\ d.stale = c.stale
    BY <1>3, <2>1 DEF SetState, ClientType
  <2>3. Sound(d, t, v, q)
    BY <1>3, <2>1, <2>2, BeginSound DEF Before
  <2> QED BY <1>2, <2>1, <2>2, <2>3
<1>7. CASE WorkMaster
  <2>1. c.state = "SendWorkingSetMasterMessage" /\ c.work = "idle" /\ u = t
        /\ d = SetState(c, "ReadyForObjectPool")
    BY <1>2, <1>7 DEF WorkMaster, Idle, WorkerKeeps
  <2>2. /\ d.uploaded = c.uploaded /\ d.upload = c.upload /\ d.work = c.work /\ d.heard = c.heard
        /\ d.state = "ReadyForObjectPool" /\ d.stale = c.stale
    BY <1>3, <2>1 DEF SetState, ClientType
  <2>3. c.heard # "none"
    BY <1>3, <2>1 DEF Sound, Line
  <2>4. Sound(d, t, v, q)
    BY <1>3, <2>1, <2>2, <2>3, BeginSound DEF Before
  <2> QED BY <1>2, <2>1, <2>2, <2>4
<1>8. CASE WorkRequested
  <2>1. PICK s : s = c.work
    OBVIOUS
  <2>2. s \in WaitState /\ u = t /\ d = [SetState(c, s) EXCEPT !.work = "idle"]
    BY <1>2, <1>8, <2>1 DEF WorkRequested, WorkerKeeps
  <2>3. s \notin {"idle", "upload", "Disconnected", "UploadObjectPool"} /\ s \notin Before
    BY <2>2, Requests DEF Before
  <2>4. /\ d.uploaded = c.uploaded /\ d.upload = c.upload /\ d.work = "idle"
        /\ d.state = s /\ d.stale = c.stale
    BY <1>3, <2>2, <2>3 DEF SetState, ClientType
  <2>5. /\ s \in Ending => AllSure(v, q, Len(q) + 1)
        /\ s \in Ended => Done(v, q)
    <3>1. s \in Ending => s = "WaitForEndOfObjectPoolResponse"
      BY <2>2, Requests DEF Ending
    <3>2. s \in Ended => s = "WaitForStoreVersionResponse"
      BY <2>2, Requests DEF Ended
    <3> QED BY <1>3, <2>1, <3>1, <3>2 DEF Sound, Promises
  <2>6. Sound(d, t, v, q)
    BY <1>3, <2>1, <2>3, <2>4, <2>5, MoveSound
  <2> QED BY <1>2, <2>2, <2>4, <2>6
<1>9. CASE WorkTimesOut
  <2>1. /\ c.state \in WaitState \cup {"SendGetVersions", "SendLoadVersion", "SendStoreVersion"}
        /\ c.work = "idle" /\ u = t /\ d = SetState(c, "Failed")
    BY <1>2, <1>9 DEF WorkTimesOut, TimedSendState, Idle, WorkerKeeps
  <2>2. c.state \notin Before
    BY <2>1, Requests DEF Before
  <2>3. /\ d.uploaded = c.uploaded /\ d.upload = c.upload /\ d.work = "idle" /\ d.state = "Failed"
        /\ d.stale = c.stale
    BY <1>3, <2>1 DEF SetState, ClientType
  <2>4. Sound(d, t, v, q)
    BY <1>3, <2>1, <2>2, <2>3, MoveSound DEF Before, Ending, Ended
  <2> QED BY <1>2, <2>1, <2>3, <2>4
<1>10. CASE WorkRetry \/ WorkConnected
  <2>1. /\ u = t
        /\ \/ d = SetState(c, "Disconnected")
           \/ d = [SetState(c, "Disconnected") EXCEPT !.maintain = FALSE]
    BY <1>2, <1>10 DEF WorkRetry, WorkConnected, WorkerKeeps
  <2>2. /\ d.state = "Disconnected" /\ d.heard = "none" /\ (\A i \in Pool : ~d.uploaded[i])
        /\ d.work = c.work /\ d.upload = c.upload /\ (~d.stale => ~c.stale)
    <3>1. PICK f : f = SetState(c, "Disconnected")
      OBVIOUS
    <3>2. /\ f \in ClientType /\ f.state = "Disconnected" /\ f.heard = "none"
          /\ \A i \in Pool : ~f.uploaded[i]
          /\ f.work = c.work /\ f.upload = c.upload /\ (~f.stale => ~c.stale)
      BY <1>3, <1>4, <3>1, SetStateParts
    <3> QED BY <2>1, <3>1, <3>2 DEF ClientType
  <2>3. Sound(d, t, v, q)
    BY <1>3, <2>2, GiveUpSound
  <2> QED BY <1>2, <2>1, <2>2, <2>3
<1>11. CASE WorkUpload
  BY <1>11, UploadSound
<1>12. CASE WorkUploadStarted
  <2>1. c.work = "upload" /\ u = t /\ d = [c EXCEPT !.upload = "InProgress", !.work = "idle"]
    BY <1>2, <1>12 DEF WorkUploadStarted, WorkerKeeps
  <2>2. /\ d.uploaded = c.uploaded /\ d.state = c.state /\ d.heard = c.heard /\ d.work = "idle"
        /\ d.upload = "InProgress" /\ d.stale = c.stale
    BY <1>3, <2>1 DEF ClientType
  <2>3. Sound(d, u, v, q)
    BY <1>3, <2>1, <2>2, OutcomeSound
  <2> QED BY <1>2, <2>1, <2>2, <2>3
<1>13. CASE Status
  <2>1. u = t /\ (d = c \/ d = [c EXCEPT !.heard = "recent"])
        /\ \A i \in DOMAIN q : q[i].fn \in {"Maintenance", "ChangeNumericValue"}
    BY <1>2, <1>13 DEF Status, ReceiveStatus
  <2>2. /\ d.uploaded = c.uploaded /\ d.state = c.state /\ d.work = c.work
        /\ d.upload = c.upload /\ d.stale = c.stale /\ (d.heard = c.heard \/ d.heard = "recent")
    BY <1>3, <2>1 DEF ClientType
  <2>3. \A fn \in Outcome \cup {"DeleteObjectPool"} : ~Has(q, fn)
    BY <2>1 DEF Has, Outcome
  <2>4. c.state \in {"SendWorkingSetMasterMessage", "ReadyForObjectPool"} => c.heard # "none"
    BY <1>3 DEF Sound, Line
  <2>5. Sound(d, t, v, q)
    BY <1>3, <2>2, <2>3, <2>4, BeginSound
  <2> QED BY <1>2, <2>1, <2>2, <2>5
<1>14. CASE StatusGrowsOld
  <2>1. u = t /\ c.heard = "recent" /\ d = [c EXCEPT !.heard = "stale"]
    BY <1>2, <1>14 DEF StatusGrowsOld
  <2>2. /\ d.uploaded = c.uploaded /\ d.state = c.state /\ d.work = c.work
        /\ d.upload = c.upload /\ d.stale = c.stale /\ d.heard = "stale"
    BY <1>3, <2>1 DEF ClientType
  <2>3. Sound(d, t, v, q)
    BY <1>3, <2>1, <2>2, BeginSound
  <2> QED BY <1>2, <2>1, <2>2, <2>3
<1>15. CASE Initialize
  <2>1. u = t /\ d = [c EXCEPT !.running = TRUE]
    BY <1>2, <1>15 DEF Initialize
  <2>2. /\ d.uploaded = c.uploaded /\ d.state = c.state /\ d.work = c.work
        /\ d.upload = c.upload /\ d.stale = c.stale /\ d.heard = c.heard
    BY <1>3, <2>1 DEF ClientType
  <2>3. c.state \in {"SendWorkingSetMasterMessage", "ReadyForObjectPool"} => c.heard # "none"
    BY <1>3 DEF Sound, Line
  <2>4. Sound(d, t, v, q)
    BY <1>3, <2>2, <2>3, BeginSound
  <2> QED BY <1>2, <2>1, <2>2, <2>4
<1> QED BY <1>5, <1>6, <1>7, <1>8, <1>9, <1>10, <1>11, <1>12, <1>13, <1>14, <1>15

LEMMA SendKeeps ==
  ASSUME NEW q \in Seq(ToTerminal), NEW x \in ToTerminal, NEW m, NEW e, Keeps(m, q, e),
         x.fn # "MaintenanceInit"
  PROVE  Keeps(m, q \o <<x>>, e)
<1>1. Has(q \o <<x>>, "MaintenanceInit") => Has(q, "MaintenanceInit")
  BY SendHas
<1> QED BY <1>1 DEF Keeps

\* The client announces itself, when nothing of an earlier session is left
LEMMA AnnounceSound ==
  ASSUME Typed, Sound(client, transfer, vol, toVT), Keeps(terminal, toVT, toECU), WorkReady, Undisturbed,
         NEW d, NEW q, d = client', q = toVT'
  PROVE  /\ ~d.stale => ~client.stale
         /\ Sound(d, transfer, vol, q) /\ Keeps(terminal, q, toECU)
<1>1. /\ client \in ClientType /\ client.state = "ReadyForObjectPool" /\ client.work = "idle"
      /\ toVT \in Seq(ToTerminal) /\ vol = terminal.vol
  BY DEF Typed, WorkReady, Idle, vol
<1>2. Msg("MaintenanceInit") \in ToTerminal /\ Msg("MaintenanceInit").fn = "MaintenanceInit"
  BY DEF Msg, ToTerminal
<1>3. PICK x \in ToTerminal : x = Msg("MaintenanceInit") /\ x.fn = "MaintenanceInit"
  BY <1>2
<1>4. q = toVT \/ q = toVT \o <<x>>
  BY <1>3 DEF WorkReady, ToVT
<1>5. /\ d.state = "SendGetMemory" /\ d.upload = client.upload /\ d.work = "idle"
      /\ (~d.stale => ~client.stale) /\ d.uploaded \in [Pool -> BOOLEAN]
      /\ d.uploaded = client.uploaded \/ \A i \in Pool : ~d.uploaded[i]
  <2>1. PICK b : b = IF client.heard = "recent" THEN client ELSE SetState(client, "Disconnected")
    OBVIOUS
  <2>2. /\ b \in ClientType /\ b.upload = client.upload /\ b.work = "idle"
        /\ ~b.stale => ~client.stale
        /\ b.uploaded = client.uploaded \/ \A i \in Pool : ~b.uploaded[i]
    <3>1. CASE b = client
      BY <1>1, <3>1
    <3>2. CASE b = SetState(client, "Disconnected")
      BY <1>1, <3>2, States, SetStateParts
    <3> QED BY <2>1, <3>1, <3>2
  <2>3. d = [SetState(b, "SendGetMemory") EXCEPT !.maintain = TRUE]
    BY <2>1 DEF WorkReady
  <2>4. SetState(b, "SendGetMemory") \in ClientType
    BY <2>2, States, Requests, SetStateType
  <2>5. /\ SetState(b, "SendGetMemory").state = "SendGetMemory"
        /\ SetState(b, "SendGetMemory").upload = b.upload /\ SetState(b, "SendGetMemory").work = b.work
        /\ SetState(b, "SendGetMemory").stale = b.stale
        /\ SetState(b, "SendGetMemory").uploaded = b.uploaded
    BY <2>2 DEF SetState, ClientType
  <2> HIDE DEF SetState
  <2> QED BY <2>2, <2>3, <2>4, <2>5 DEF ClientType
<1>6. \A i \in Pool : ~d.uploaded[i]
  BY <1>1, <1>5 DEF Sound, Line, Before
<1>7. \A fn \in Outcome \cup {"DeleteObjectPool"} : ~Has(toVT, fn)
  BY <1>1 DEF Sound, Line, Before
<1>8. \A fn \in Outcome \cup {"DeleteObjectPool"} : ~Has(q, fn)
  <2> SUFFICES ASSUME NEW fn \in Outcome \cup {"DeleteObjectPool"} PROVE ~Has(q, fn)
    OBVIOUS
  <2>1. ~Has(toVT, fn) /\ x.fn # fn
    BY <1>3, <1>7 DEF Outcome
  <2> QED BY <1>1, <1>4, <2>1, SendHas
<1>9. Line(d, q)
  BY <1>5, <1>8 DEF Line, Has, Before
<1>10. Uploads(d, transfer, vol, q)
  BY <1>1, <1>5 DEF Sound, Uploads
<1>11. Promises(d, vol, q)
  BY <1>5, <1>6, <1>8 DEF Promises, Has, Outcome, Ending, Ended
<1>12. Keeps(terminal, q, toECU)
  <2>1. ~terminal.vol.managed => \A p \in DOMAIN toECU : toECU[p].fn \notin Outcome
    BY <1>1, <1>5 DEF Undisturbed
  <2> QED BY <2>1 DEF Keeps
<1> QED BY <1>5, <1>9, <1>10, <1>11, <1>12 DEF Sound

\* The client has the application's pool removed
LEMMA TerminateSound ==
  ASSUME Typed, Sound(client, transfer, vol, toVT), Keeps(terminal, toVT, toECU), Terminate,
         NEW d, NEW q, d = client', q = toVT'
  PROVE  /\ ~d.stale => ~client.stale
         /\ Sound(d, transfer, vol, q) /\ Keeps(terminal, q, toECU)
<1>1. client \in ClientType /\ client.work = "idle" /\ toVT \in Seq(ToTerminal)
  BY DEF Typed, Terminate, Idle
<1>2. PICK x : x = Msg("DeleteObjectPool")
  OBVIOUS
<1>3. x \in ToTerminal /\ x.fn = "DeleteObjectPool"
  BY <1>2 DEF Msg, ToTerminal
<1>4. toVT' = toVT \o (IF client.state = "Connected" THEN <<x>> ELSE <<>>)
  BY <1>2 DEF Terminate, ToVT
<1>5. q = toVT \/ q = toVT \o <<x>>
  BY <1>1, <1>4
<1>6. /\ d.state = "Disconnected" /\ d.heard = "none" /\ (\A i \in Pool : ~d.uploaded[i])
      /\ d.work = client.work /\ d.upload = client.upload /\ (~d.stale => ~client.stale)
  <2>1. PICK f : f = SetState(client, "Disconnected")
    OBVIOUS
  <2>2. /\ f \in ClientType /\ f.state = "Disconnected" /\ f.heard = "none"
        /\ \A i \in Pool : ~f.uploaded[i]
        /\ f.work = client.work /\ f.upload = client.upload /\ (~f.stale => ~client.stale)
    BY <1>1, <2>1, States, SetStateParts
  <2>3. d = [f EXCEPT !.running = FALSE]
    BY <2>1 DEF Terminate
  <2> QED BY <2>2, <2>3 DEF ClientType
<1>7. Sound(d, transfer, vol, toVT)
  BY <1>1, <1>6, GiveUpSound
<1>8. CASE q = toVT \o <<x>>
  <2>1. /\ Len(q) = Len(toVT) + 1 /\ DOMAIN toVT = 1 .. Len(toVT) /\ DOMAIN q = 1 .. Len(toVT) + 1
        /\ \A p \in 1 .. Len(toVT) : q[p] = toVT[p]
        /\ q[Len(toVT) + 1] = x /\ Len(toVT) \in Nat
    BY <1>1, <1>3, <1>8, SendElements
  <2>2. \A fn : Has(q, fn) <=> Has(toVT, fn) \/ x.fn = fn
    BY <1>1, <1>3, <1>8, SendHas
  <2>3. Line(d, q)
    <3>1. ASSUME NEW p \in DOMAIN q, NEW k \in DOMAIN q, q[p].fn = "DeleteObjectPool", k > p
          PROVE  q[k].fn # "MaintenanceInit"
      <4>1. k = Len(toVT) + 1 \/ (k \in DOMAIN toVT /\ p \in DOMAIN toVT)
        BY <2>1, <3>1
      <4> QED BY <1>3, <1>7, <2>1, <3>1, <4>1 DEF Sound, Line
    <3> QED BY <1>1, <1>6, <3>1 DEF Line, Before
  <2>4. Uploads(d, transfer, vol, q)
    BY <1>6, <1>7 DEF Sound, Uploads
  <2>5. Promises(d, vol, q)
    <3>1. ASSUME NEW j \in DOMAIN q, q[j].fn = "EndOfObjectPool" PROVE AllSure(vol, q, j)
      <4>1. j \in DOMAIN toVT /\ toVT[j] = q[j] /\ j \in Int
        BY <1>3, <2>1, <3>1
      <4>2. AllSure(vol, toVT, j)
        BY <1>7, <3>1, <4>1 DEF Sound, Promises
      <4> QED BY <1>1, <1>3, <1>8, <4>1, <4>2, SendSure DEF AllSure
    <3>2. Done(vol, toVT) => Done(vol, q)
      BY <1>1, <1>3, <1>8, SendSure
    <3>3. Has(q, "StoreVersion") => Done(vol, q)
      BY <1>3, <1>7, <2>2, <3>2 DEF Sound, Promises
    <3> QED BY <1>1, <1>6, <3>1, <3>3 DEF Promises, Ending, Ended
  <2>6. Keeps(terminal, q, toECU)
    BY <1>1, <1>3, <1>8, SendKeeps
  <2> QED BY <1>6, <2>3, <2>4, <2>5, <2>6 DEF Sound
<1> QED BY <1>5, <1>6, <1>7, <1>8

\* A request of the connection
LEMMA RequestSound ==
  ASSUME Typed, Sound(client, transfer, vol, toVT), Keeps(terminal, toVT, toECU), WorkRequest,
         ~client'.stale, NEW d, NEW q, d = client', q = toVT'
  PROVE  ~client.stale /\ Sound(d, transfer, vol, q) /\ Keeps(terminal, q, toECU)
<1>1. PICK c, t, v, p : c = client /\ t = transfer /\ v = vol /\ p = toVT
  OBVIOUS
<1>2. /\ c \in ClientType /\ p \in Seq(ToTerminal) /\ c.work = "idle" /\ c.state \in SendState
      /\ Sound(c, t, v, p)
  BY <1>1 DEF Typed, WorkRequest, Idle
<1>3. PICK x, wait : x = Msg(Request[c.state].fn) /\ wait = Request[c.state].wait
  OBVIOUS
<1>4. /\ x \in ToTerminal /\ x.fn \notin {"MaintenanceInit", "DeleteObjectPool"}
      /\ x.fn = "EndOfObjectPool" => c.state = "SendEndOfObjectPool"
      /\ x.fn = "StoreVersion" => c.state = "SendStoreVersion"
      /\ wait \in WaitState
      /\ wait = "WaitForEndOfObjectPoolResponse" => c.state = "SendEndOfObjectPool"
      /\ wait = "WaitForStoreVersionResponse" => c.state = "SendStoreVersion"
  <2>1. c.state \in {"SendGetMemory", "SendGetNumberSoftkeys", "SendGetTextFontData", "SendGetHardware",
                    "SendGetVersions", "SendLoadVersion", "SendStoreVersion", "SendEndOfObjectPool"}
    BY <1>2, Requests
  <2>2. x.fn = Request[c.state].fn /\ x = [fn |-> x.fn]
    BY <1>3 DEF Msg
  <2> QED BY <1>2, <1>3, <2>1, <2>2, RequestTable, Requests DEF ToTerminal
<1>5. c.state \notin Before
  BY <1>2, Requests DEF Before
<1>6. /\ c.state = "SendEndOfObjectPool" => AllSure(v, p, Len(p) + 1)
      /\ c.state = "SendStoreVersion" => Done(v, p)
  BY <1>2 DEF Sound, Promises, Ending, Ended
<1>7. q = p \o <<x>>
  BY <1>1, <1>3 DEF WorkRequest, ToVT
<1>8. Sound(c, t, v, q)
  BY <1>2, <1>4, <1>5, <1>6, <1>7, SendSound
<1>9. Keeps(terminal, q, toECU)
  BY <1>1, <1>2, <1>4, <1>7, SendKeeps
<1>10. q \in Seq(ToTerminal)
  BY <1>2, <1>4, <1>7, SendElements
<1>11. /\ c.state = "SendEndOfObjectPool" => AllSure(v, q, Len(q) + 1)
       /\ c.state = "SendStoreVersion" => Done(v, q)
  BY <1>8 DEF Sound, Promises, Ending, Ended
<1>12. /\ wait \notin {"idle", "upload", "Disconnected", "UploadObjectPool"} /\ wait \notin Before
       /\ wait \in Ending => wait = "WaitForEndOfObjectPoolResponse"
       /\ wait \in Ended => wait = "WaitForStoreVersionResponse"
       /\ wait \in State
  BY <1>4, Requests, States DEF Before, Ending, Ended
<1>13. CASE d = SetState(c, wait)
  <2>1. /\ d.uploaded = c.uploaded /\ d.upload = c.upload /\ d.work = "idle" /\ d.state = wait
        /\ d.stale = c.stale
    BY <1>2, <1>12, <1>13 DEF SetState, ClientType
  <2>2. Sound(d, t, v, q)
    BY <1>2, <1>4, <1>5, <1>8, <1>10, <1>11, <1>12, <2>1, MoveSound
  <2> QED BY <1>1, <1>9, <2>1, <2>2
<1>14. CASE d = [c EXCEPT !.work = wait]
  <2>1. /\ d.uploaded = c.uploaded /\ d.upload = c.upload /\ d.work = wait /\ d.state = c.state
        /\ d.stale = c.stale
    BY <1>2, <1>14 DEF ClientType
  <2>2. /\ c.state \in Ending => c.state = "SendEndOfObjectPool"
        /\ c.state \in Ended => c.state = "SendStoreVersion"
    BY <1>2, Requests DEF Ending, Ended
  <2>3. Sound(d, t, v, q)
    BY <1>2, <1>4, <1>5, <1>8, <1>10, <1>11, <1>12, <2>1, <2>2, MoveSound
  <2> QED BY <1>1, <1>9, <2>1, <2>3
<1>15. d = SetState(c, wait) \/ d = [c EXCEPT !.work = wait]
  BY <1>1, <1>3 DEF WorkRequest
<1> QED BY <1>13, <1>14, <1>15

\* A command or a maintenance message goes out, or none
LEMMA CommandSound ==
  ASSUME Typed, Sound(client, transfer, vol, toVT), Keeps(terminal, toVT, toECU),
         NEW q, NEW x \in ToTerminal,
         x.fn \in {"Maintenance", "ChangeNumericValue", "DeleteOtherVersion"},
         q = toVT \/ q = toVT \o <<x>>
  PROVE  Sound(client, transfer, vol, q) /\ Keeps(terminal, q, toECU)
<1>1. x.fn \notin Outcome
  BY DEF Outcome
<1>2. toVT \in Seq(ToTerminal)
  BY DEF Typed
<1> QED BY <1>1, <1>2, SendSound, SendKeeps

LEMMA QueueSends ==
  ASSUME Typed, NEW awaiting, ProcessCommandQueue(awaiting)
  PROVE  \/ toVT' = toVT
         \/ \E x \in ToTerminal : x.fn = "ChangeNumericValue" /\ toVT' = toVT \o <<x>>
<1>1. cmd.queue \in Seq(Change)
  BY CmdParts
<1>2. ASSUME NEW i \in 1 .. Len(cmd.queue), ToVT(<<cmd.queue[i]>>)
      PROVE  \E x \in ToTerminal : x.fn = "ChangeNumericValue" /\ toVT' = toVT \o <<x>>
  <2>1. cmd.queue[i] \in Change
    BY <1>1
  <2>2. cmd.queue[i] \in ToTerminal /\ cmd.queue[i].fn = "ChangeNumericValue"
    BY <2>1 DEF Change, ToTerminal
  <2> QED BY <1>2, <2>2 DEF ToVT
<1> QED BY <1>2 DEF ProcessCommandQueue

\* A pool is handed to the transport protocol chunk by chunk, and arrives before
\* its outcome is reported
LEMMA TransferSound ==
  ASSUME Typed, Sound(client, transfer, vol, toVT), Keeps(terminal, toVT, toECU),
         FetchChunk \/ TransferSucceeds \/ TransferFails,
         NEW d, NEW u, NEW q, d = client', u = transfer', q = toVT'
  PROVE  d.stale = client.stale /\ Sound(d, u, vol, q) /\ Keeps(terminal, q, toECU)
<1>1. PICK c, t, v, p : c = client /\ t = transfer /\ v = vol /\ p = toVT
  OBVIOUS
<1>2. /\ c \in ClientType /\ t \in TransferType /\ p \in Seq(ToTerminal) /\ Sound(c, t, v, p)
      /\ t.chunks \in Seq(0 .. NPools) /\ t # NoTransfer
  BY <1>1 DEF Typed, FetchChunk, TransferSucceeds, TransferFails, TransferType, Chunks
<1>3. CASE FetchChunk
  <2>1. PICK i : i = IF Open(c) = {} THEN 0 ELSE FirstOpen(c)
    OBVIOUS
  <2>2. d = c /\ q = p /\ u = [t EXCEPT !.chunks = Append(@, i)]
    BY <1>1, <1>3, <2>1 DEF FetchChunk, Open, FirstOpen
  <2>3. u.chunks = Append(t.chunks, i)
    BY <1>2, <2>2 DEF TransferType
  <2>4. \A k \in DOMAIN u.chunks : u.chunks[k] = i \/ (k \in DOMAIN t.chunks /\ u.chunks[k] = t.chunks[k])
    BY <1>2, <2>3
  <2>5. Uploads(c, u, v, p)
    BY <1>2, <2>1, <2>4 DEF Sound, Uploads
  <2> QED BY <1>1, <1>2, <2>2, <2>5 DEF Sound
<1>4. CASE TransferFails
  <2>1. /\ q = p /\ u = NoTransfer
        /\ d = [c EXCEPT !.upload = IF c.state = "UploadObjectPool" THEN "Failed" ELSE @]
    BY <1>1, <1>4 DEF TransferFails, Reported
  <2>2. /\ d.uploaded = c.uploaded /\ d.state = c.state /\ d.heard = c.heard /\ d.work = c.work
        /\ d.stale = c.stale
        /\ c.state = "UploadObjectPool" => d.upload = "Failed"
    BY <1>2, <2>1 DEF ClientType
  <2>3. c.state = "UploadObjectPool" => Open(c) # {}
    BY <1>2 DEF Sound, Uploads
  <2>4. Sound(d, u, v, p)
    BY <1>2, <2>1, <2>2, <2>3, OutcomeSound
  <2> QED BY <1>1, <2>1, <2>2, <2>4
<1>5. CASE TransferSucceeds
  <2>1. PICK x : x = [fn |-> "ObjectPoolTransfer", pool |-> t.pool, chunks |-> t.chunks]
    OBVIOUS
  <2>2. /\ q = p \o <<x>> /\ u = NoTransfer /\ Len(t.chunks) = NChunks
        /\ d = [c EXCEPT !.upload = IF c.state = "UploadObjectPool" THEN "Success" ELSE @]
    BY <1>1, <1>5, <2>1 DEF TransferSucceeds, Reported, ToVT
  <2>3. x \in ToTerminal /\ x.fn = "ObjectPoolTransfer" /\ x.chunks = t.chunks
    BY <1>2, <2>1 DEF TransferType, Chunks, ToTerminal
  <2>4. Sound(c, t, v, q)
    BY <1>2, <2>2, <2>3, SendSound DEF Outcome
  <2>5. Keeps(terminal, q, toECU)
    BY <1>1, <1>2, <2>2, <2>3, SendKeeps
  <2>6. /\ d.uploaded = c.uploaded /\ d.state = c.state /\ d.heard = c.heard /\ d.work = c.work
        /\ d.stale = c.stale
        /\ c.state = "UploadObjectPool" => d.upload = "Success"
    BY <1>2, <2>2 DEF ClientType
  <2>7. ASSUME c.state = "UploadObjectPool" PROVE Open(c) # {} /\ Sure(v, q, FirstOpen(c), Len(q) + 1)
    <3>1. Open(c) # {} /\ \A k \in DOMAIN t.chunks : t.chunks[k] = FirstOpen(c)
      BY <1>2, <2>7 DEF Sound, Uploads
    <3>2. PICK a \in Pool : a = FirstOpen(c)
      BY <3>1, FirstIsOpen
    <3>3. NChunks \in Nat /\ Len(t.chunks) = NChunks /\ \A k \in 1 .. NChunks : t.chunks[k] = a
      BY <1>2, <2>2, <3>1, <3>2, LinkAssumption
    <3>4. t.chunks = [k \in 1 .. NChunks |-> a]
      BY <1>2, <3>3
    <3>5. AllPools[a] = [k \in 1 .. NChunks |-> a]
      BY DEF AllPools
    <3>6. Len(q) + 1 = Len(p) + 2
      BY <1>2, <2>2, <2>3, SendElements
    <3>7. Sure(v, q, a, Len(p) + 2)
      <4>1. x.chunks = AllPools[a] /\ x.fn # "MaintenanceInit"
        BY <2>3, <3>4, <3>5
      <4>2. Sure(v, p \o <<x>>, a, Len(p) + 2)
        BY <1>2, <2>3, <4>1, SendSure
      <4> QED BY <2>2, <4>2
    <3> QED BY <3>1, <3>2, <3>6, <3>7
  <2>8. q \in Seq(ToTerminal)
    BY <1>2, <2>2, <2>3, SendElements
  <2>9. Sound(d, u, v, q)
    BY <2>2, <2>4, <2>6, <2>7, <2>8, OutcomeSound
  <2> QED BY <1>1, <2>5, <2>6, <2>9
<1> QED BY <1>3, <1>4, <1>5

LEMMA RestKeeps ==
  ASSUME NEW q, NEW m, NEW e \in Seq(ToClient), e # <<>>, Keeps(m, q, e)
  PROVE  Keeps(m, q, Tail(e))
<1>1. \A p \in DOMAIN Tail(e) : p + 1 \in DOMAIN e /\ Tail(e)[p] = e[p + 1]
  BY TailValues
<1> HIDE DEF Keeps
<1>2. PICK f : f = Tail(e)
  OBVIOUS
<1> QED BY <1>1, <1>2 DEF Keeps

\* A good answer is about pools that are parsed, on a terminal that has not
\* forgotten them
LEMMA AnswerDone ==
  ASSUME NEW q, NEW m, NEW e \in Seq(ToClient), e # <<>>, Keeps(m, q, e),
         Head(e).fn \in Outcome, Head(e).ok
  PROVE  Done(m.vol, q)
<1>1. 1 \in DOMAIN e /\ Head(e) = e[1]
  BY TailValues
<1> QED BY <1>1 DEF Keeps, Done, Alive

LEMMA AnswerSound ==
  ASSUME NEW q \in Seq(ToTerminal), NEW c \in ClientType, NEW t, NEW v, Sound(c, t, v, q),
         c.state \in WaitState, NEW s \in State, s \notin Before,
         s \in Ending => AllSure(v, q, Len(q) + 1), s \in Ended => Done(v, q),
         ~SetState(c, s).stale
  PROVE  ~c.stale /\ Sound(SetState(c, s), t, v, q)
<1>1. PICK d : d = SetState(c, s)
  OBVIOUS
<1>2. c.state \notin Before /\ c.state \notin {"UploadObjectPool", "Disconnected"}
  BY Requests DEF Before
<1>3. c.work # "upload"
  BY <1>2 DEF Sound, Uploads
<1>4. /\ d.state = s /\ d.upload = c.upload /\ d.work = c.work /\ d.uploaded = c.uploaded
      /\ ~c.stale /\ (s = "UploadObjectPool" => c.upload = "Uninitialized")
  <2>1. s # "Disconnected"
    BY DEF Before
  <2> QED BY <1>1, <2>1, SetStateParts
<1>5. /\ c.work = "WaitForEndOfObjectPoolResponse" => AllSure(v, q, Len(q) + 1)
      /\ c.work = "WaitForStoreVersionResponse" => Done(v, q)
  BY DEF Sound, Promises
<1>6. Sound(d, t, v, q)
  BY <1>2, <1>3, <1>4, <1>5, MoveSound
<1> QED BY <1>1, <1>4, <1>6

\* A message is read
LEMMA ReadingSound ==
  ASSUME Typed, Sound(client, transfer, vol, toVT), Keeps(terminal, toVT, toECU), Reading,
         ~client'.stale, NEW d, NEW q, NEW f, d = client', q = toVT', f = toECU'
  PROVE  ~client.stale /\ Sound(d, transfer, vol, q) /\ Keeps(terminal, q, f)
<1>1. toECU # <<>> /\ toECU' = Tail(toECU) /\ UNCHANGED <<config, transfer, terminal, left>>
  BY DEF Reading, Receive, ReceiveAcknowledge, ReceiveGetMemory, ReceiveGetNumberOfSoftKeys,
         ReceiveGetTextFontData, ReceiveGetHardware, ReceiveGetVersionsResponse, ReceiveLoadVersion,
         ReceiveStoreVersion, ReceiveEndOfObjectPool, ReceiveCommandResponse, ReceiveChangeNumericValue,
         ReceiveDeleteVersion, Answered, Received, Reads
<1>2. PICK c, t, v, p, e, h : /\ c = client /\ t = transfer /\ v = vol /\ p = toVT /\ e = toECU
                              /\ h = Head(toECU)
  OBVIOUS
<1>3. /\ c \in ClientType /\ p \in Seq(ToTerminal) /\ e \in Seq(ToClient) /\ e # <<>>
      /\ Sound(c, t, v, p) /\ Keeps(terminal, p, e) /\ v = terminal.vol
  BY <1>1, <1>2 DEF Typed, vol
<1>4. Keeps(terminal, p, f)
  BY <1>1, <1>2, <1>3, RestKeeps
<1>5. h.fn \in Outcome /\ h.ok => Done(v, p)
  BY <1>2, <1>3, AnswerDone
<1>6. c.state \in Ended => Done(v, p)
  BY <1>3 DEF Sound, Promises
<1>7. ASSUME NEW fn, NEW wait \in WaitState, NEW s \in State, Answered(fn, wait, s), s \notin Before,
             s \notin Ending, s \in Ended => Done(v, p) \/ c.state \in Ended
      PROVE  ~client.stale /\ Sound(d, transfer, vol, q) /\ Keeps(terminal, q, f)
  <2>1. q = p /\ (d = c \/ (c.state \in WaitState /\ d = SetState(c, s)))
    BY <1>2, <1>7 DEF Answered
  <2>2. ~d.stale
    OBVIOUS
  <2>3. CASE d = c
    BY <1>2, <1>3, <1>4, <2>1, <2>2, <2>3
  <2>4. CASE c.state \in WaitState /\ d = SetState(c, s)
    <3>1. ~c.stale /\ Sound(d, t, v, p)
      BY <1>3, <1>6, <1>7, <2>2, <2>4, AnswerSound
    <3> QED BY <1>2, <1>4, <2>1, <3>1
  <2> QED BY <2>1, <2>3, <2>4
<1>8. \A s \in {"SendGetNumberSoftkeys", "SendGetTextFontData", "SendGetHardware", "SendGetVersions",
               "SendLoadVersion", "UploadObjectPool", "Failed", "SendStoreVersion", "Connected",
               "WaitForStoreVersionResponse"} :
        /\ s \in State /\ s \notin Before /\ s \notin Ending
        /\ s \in Ended => s \in {"SendStoreVersion", "Connected", "WaitForStoreVersionResponse"}
  BY Requests, States DEF Before, Ending, Ended
<1>9. CASE ReceiveAcknowledge
  <2>1. q = p /\ (d = c \/ d = SetState(c, "Disconnected"))
    BY <1>2, <1>9 DEF ReceiveAcknowledge
  <2>2. CASE d = c
    BY <1>2, <1>3, <1>4, <2>1, <2>2
  <2>3. CASE d = SetState(c, "Disconnected")
    <3>0. "Disconnected" \in State
      BY States
    <3>1. /\ d.state = "Disconnected" /\ d.heard = "none" /\ \A i \in Pool : ~d.uploaded[i]
          /\ d.work = c.work /\ d.upload = c.upload
      BY <1>3, <2>3, <3>0, SetStateParts
    <3>4. ~c.stale
      BY <1>3, <2>3, <3>0, SetStateParts
    <3>2. Sound(d, t, v, p)
      BY <1>3, <3>1, GiveUpSound
    <3> QED BY <1>2, <1>4, <2>1, <3>2, <3>4
  <2> QED BY <2>1, <2>2, <2>3
<1>10. CASE ReceiveGetMemory
  <2>1. PICK s \in {"SendGetNumberSoftkeys", "Failed"} : Answered("GetMemory", "WaitForGetMemoryResponse", s)
    BY <1>10 DEF ReceiveGetMemory
  <2> QED BY <1>7, <1>8, <2>1, Requests
<1>11. CASE ReceiveGetNumberOfSoftKeys \/ ReceiveGetTextFontData
  <2>1. \/ Answered("GetSoftKeys", "WaitForGetNumberSoftKeysResponse", "SendGetTextFontData")
        \/ Answered("GetTextFont", "WaitForGetTextFontDataResponse", "SendGetHardware")
    BY <1>11 DEF ReceiveGetNumberOfSoftKeys, ReceiveGetTextFontData
  <2> QED BY <1>7, <1>8, <2>1, Requests
<1>12. CASE ReceiveGetHardware
  <2>1. PICK s \in {"SendGetVersions", "UploadObjectPool"} :
          Answered("GetHardware", "WaitForGetHardwareResponse", s)
    BY <1>12 DEF ReceiveGetHardware
  <2> QED BY <1>7, <1>8, <2>1, Requests
<1>13. CASE ReceiveGetVersionsResponse
  <2>1. PICK x : x = Msg("DeleteOtherVersion")
    OBVIOUS
  <2>2. x \in ToTerminal /\ x.fn = "DeleteOtherVersion"
    BY <2>1 DEF Msg, ToTerminal
  <2>3. \/ d = c /\ q = p
        \/ /\ c.state = "WaitForGetVersionsResponse" /\ (q = p \/ q = p \o <<x>> \/ q = p \o <<>>)
           /\ d = SetState(c, "SendLoadVersion") \/ d = SetState(c, "UploadObjectPool")
    BY <1>2, <1>13, <2>1 DEF ReceiveGetVersionsResponse, ToVT
  <2>4. p \o <<>> = p
    BY <1>3
  <2>5. Sound(c, t, v, q) /\ Keeps(terminal, q, f)
    <3>1. x.fn \notin Outcome
      BY <2>2 DEF Outcome
    <3> QED BY <1>3, <1>4, <2>2, <2>3, <2>4, <3>1, SendSound, SendKeeps
  <2>6. q \in Seq(ToTerminal)
    <3>1. p \o <<x>> \in Seq(ToTerminal)
      BY <1>3, <2>2, SendElements
    <3> QED BY <1>3, <2>3, <2>4, <3>1
  <2>7. CASE d = c
    BY <1>2, <2>5, <2>7
  <2>8. ASSUME NEW s \in {"SendLoadVersion", "UploadObjectPool"}, d = SetState(c, s),
               c.state = "WaitForGetVersionsResponse"
        PROVE  ~c.stale /\ Sound(d, t, v, q)
    <3>1. s \in State /\ s \notin Before /\ s \notin Ending /\ s \notin Ended /\ c.state \in WaitState
      BY <1>8, <2>8, Requests
    <3>2. ~SetState(c, s).stale
      BY <2>8
    <3> QED BY <1>3, <2>5, <2>6, <2>8, <3>1, <3>2, AnswerSound
  <2> QED BY <1>2, <2>3, <2>5, <2>7, <2>8
<1>14. CASE ReceiveLoadVersion
  <2>1. Answered("LoadVersion", "WaitForLoadVersionResponse",
                 IF h.ok THEN "Connected" ELSE "UploadObjectPool")
        /\ h.fn = "LoadVersion"
    BY <1>2, <1>14 DEF ReceiveLoadVersion, Answered, Received
  <2>2. h.ok => Done(v, p)
    BY <1>5, <2>1 DEF Outcome
  <2> QED BY <1>7, <1>8, <2>1, <2>2, Requests
<1>15. CASE ReceiveStoreVersion
  <2>1. Answered("StoreVersion", "WaitForStoreVersionResponse", IF h.ok THEN "Connected" ELSE c.state)
        /\ h.fn = "StoreVersion"
    BY <1>2, <1>15 DEF ReceiveStoreVersion, Answered, Received
  <2>2. h.ok => Done(v, p)
    BY <1>5, <2>1 DEF Outcome
  <2>3. CASE h.ok
    BY <1>7, <1>8, <2>1, <2>2, <2>3, Requests
  <2>4. CASE ~h.ok
    <3>1. CASE c.state = "WaitForStoreVersionResponse"
      BY <1>7, <1>8, <2>1, <2>4, <3>1, Requests DEF Ended
    <3>2. CASE c.state # "WaitForStoreVersionResponse"
      <4>1. d = c /\ q = p
        BY <1>2, <2>1, <3>2 DEF Answered
      <4> QED BY <1>2, <1>3, <1>4, <4>1
    <3> QED BY <3>1, <3>2
  <2> QED BY <2>3, <2>4
<1>16. CASE ReceiveEndOfObjectPool
  <2>1. PICK s \in {"Failed", "SendStoreVersion", "Connected"} :
          /\ Answered("EndOfObjectPool", "WaitForEndOfObjectPoolResponse", s)
          /\ h.fn = "EndOfObjectPool" /\ (s # "Failed" => h.ok)
    <3>1. PICK s : s = IF ~h.ok THEN "Failed"
                       ELSE IF config.labelled THEN "SendStoreVersion" ELSE "Connected"
      OBVIOUS
    <3>2. Answered("EndOfObjectPool", "WaitForEndOfObjectPoolResponse", s) /\ h.fn = "EndOfObjectPool"
      BY <1>2, <1>16, <3>1 DEF ReceiveEndOfObjectPool, Answered, Received
    <3>3. s \in {"Failed", "SendStoreVersion", "Connected"} /\ (s # "Failed" => h.ok)
      BY <3>1
    <3> QED BY <3>2, <3>3
  <2>2. s # "Failed" => Done(v, p)
    BY <1>5, <2>1 DEF Outcome
  <2> QED BY <1>7, <1>8, <2>1, <2>2, Requests DEF Ended
<1>17. CASE ReceiveCommandResponse
  <2>1. d = c /\ (q = p \/ \E x \in ToTerminal : x.fn = "ChangeNumericValue" /\ q = p \o <<x>>)
    BY <1>2, <1>17, QueueSends DEF ReceiveCommandResponse
  <2>2. CASE q = p
    BY <1>2, <1>3, <1>4, <2>1, <2>2
  <2>3. ASSUME NEW x \in ToTerminal, x.fn = "ChangeNumericValue", q = p \o <<x>>
        PROVE  Sound(c, t, v, q) /\ Keeps(terminal, q, f)
    <3>1. x.fn \notin Outcome
      BY <2>3 DEF Outcome
    <3> QED BY <1>3, <1>4, <2>3, <3>1, SendSound, SendKeeps
  <2> QED BY <1>2, <2>1, <2>2, <2>3
<1>18. CASE ReceiveChangeNumericValue \/ ReceiveDeleteVersion
  <2>1. d = c /\ q = p
    BY <1>2, <1>18 DEF ReceiveChangeNumericValue, ReceiveDeleteVersion
  <2> QED BY <1>2, <1>3, <1>4, <2>1
<1> QED BY <1>9, <1>10, <1>11, <1>12, <1>13, <1>14, <1>15, <1>16, <1>17, <1>18 DEF Reading, Receive

-----------------------------------------------------------------------------
(* What the terminal does *)

LEMMA SendKept ==
  ASSUME NEW q, NEW m, NEW e \in Seq(ToClient), NEW x \in ToClient, Keeps(m, q, e),
         x.fn \in Outcome => m.vol.managed /\ (x.ok => m.vol.tree /\ Present(m.vol))
  PROVE  Keeps(m, q, e \o <<x>>)
<1>1. PICK f : f = e \o <<x>>
  OBVIOUS
<1>2. \A p \in DOMAIN f : f[p] = x \/ (p \in DOMAIN e /\ f[p] = e[p])
  <2>1. ASSUME NEW p \in DOMAIN f PROVE p = Len(e) + 1 \/ p \in DOMAIN e
    BY <1>1, <2>1, SendElements
  <2> QED BY <1>1, <2>1, SendElements
<1>3. ASSUME Has(q, "MaintenanceInit"), ~m.vol.managed, NEW p \in DOMAIN f
      PROVE  f[p].fn \notin Outcome
  BY <1>2, <1>3 DEF Keeps
<1>4. ASSUME NEW p \in DOMAIN f, f[p].fn \in Outcome, f[p].ok, m.vol.managed
      PROVE  m.vol.tree /\ Present(m.vol)
  BY <1>2, <1>4 DEF Keeps
<1> QED BY <1>1, <1>3, <1>4 DEF Keeps

\* A message that is not taken: lost, or to a terminal that does not manage the client
LEMMA Skipped ==
  ASSUME NEW q \in Seq(ToTerminal), q # <<>>, NEW m, NEW e, Keeps(m, q, e)
  PROVE  /\ Keeps(m, Tail(q), e)
         /\ ~m.vol.managed \/ Head(q).fn # "ObjectPoolTransfer" => Served(m.vol, m.vol, q)
<1>1. Has(Tail(q), "MaintenanceInit") => Has(q, "MaintenanceInit")
  BY RestHas
<1> QED BY <1>1 DEF Keeps, Served, Alive

\* The terminal keeps what it has, and may parse it if it is all
LEMMA Kept ==
  ASSUME NEW q, NEW r, NEW m, NEW n, NEW e, Keeps(m, q, e),
         m.vol.managed, n.vol.managed,
         n.own = m.own \/ Range(AllPools) \subseteq Range(n.own),
         Range(m.vol.pools) \subseteq Range(n.vol.pools), m.vol.tree => n.vol.tree,
         n.vol.parse = m.vol.parse \/ n.vol.parse = "Joined" \/ (Present(n.vol) /\ n.vol.parse = "Running")
           \/ (Present(n.vol) /\ n.vol.tree),
         n.vol.loaded = m.vol.loaded \/ Present(n.vol)
  PROVE  Keeps(n, r, e)
<1>1. Present(m.vol) => Present(n.vol)
  BY DEF Present
<1> QED BY <1>1 DEF Keeps

LEMMA KeptServed ==
  ASSUME NEW q, NEW v, NEW w, v.managed, w.managed,
         Range(v.pools) \subseteq Range(w.pools), v.tree => w.tree,
         Head(q).fn = "ObjectPoolTransfer" => Head(q).chunks \in Range(w.pools)
  PROVE  Served(v, w, q)
BY DEF Served, Alive

\* What is in memory stays, its state of processing may change
LEMMA SameSound ==
  ASSUME NEW q, NEW c, NEW t, NEW v, NEW w, Sound(c, t, v, q),
         w.managed = v.managed, w.pools = v.pools, v.tree => w.tree
  PROVE  Sound(c, t, w, q)
<1>1. \A i, j : Sure(v, q, i, j) => Sure(w, q, i, j)
  BY DEF Sure, Alive
<1>2. Done(v, q) => Done(w, q)
  BY DEF Done, Alive, Present
<1>3. \A j : AllSure(v, q, j) => AllSure(w, q, j)
  BY <1>1 DEF AllSure
<1>4. Uploads(c, t, w, q)
  BY <1>1 DEF Sound, Uploads
<1>5. Promises(c, w, q)
  BY <1>1, <1>2, <1>3 DEF Sound, Promises
<1> QED BY <1>4, <1>5 DEF Sound

\* A message of a client the terminal does not manage
LEMMA StrangerSound ==
  ASSUME Typed, VolInv, Sound(client, transfer, vol, toVT), Keeps(terminal, toVT, toECU),
         CheckIfSourceIsManaged \/ Undelivered,
         NEW n, NEW q, NEW f, n = terminal', q = toVT', f = toECU'
  PROVE  Sound(client, transfer, n.vol, q) /\ Keeps(n, q, f)
<1>1. PICK c, t, v, p, e, m : /\ c = client /\ t = transfer /\ v = vol /\ p = toVT /\ e = toECU
                              /\ m = terminal
  OBVIOUS
<1>2. /\ p \in Seq(ToTerminal) /\ e \in Seq(ToClient) /\ p # <<>> /\ q = Tail(p) /\ v = m.vol
      /\ m \in TerminalType /\ v \in VolType /\ v = Volatile /\ v.managed = FALSE
      /\ Sound(c, t, v, p) /\ Keeps(m, p, e)
  BY <1>1, TerminalParts DEF Typed, CheckIfSourceIsManaged, Undelivered, VolInv, Volatile
<1>3. CASE n = m
  <2>1. Nack \in ToClient /\ Nack.fn \notin Outcome
    BY ConfigAssumption DEF Typed, Nack, ToClient, Outcome
  <2>2. PICK x \in ToClient : x = Nack /\ x.fn \notin Outcome
    BY <2>1
  <2>3. f = e \/ f = e \o <<x>>
    BY <1>1, <2>2 DEF CheckIfSourceIsManaged, Undelivered, ToECU
  <2>4. Served(v, v, p) /\ Keeps(m, q, e)
    BY <1>2, Skipped
  <2>5. Keeps(m, q, f)
    BY <1>2, <2>2, <2>3, <2>4, SendKept
  <2>6. Sound(c, t, v, q)
    BY <1>2, <2>4, RestSound
  <2> QED BY <1>1, <1>2, <1>3, <2>5, <2>6
<1>4. CASE n # m
  <2>1. Head(p).fn = "MaintenanceInit" /\ f = e /\ n = [m EXCEPT !.vol.managed = TRUE]
    BY <1>1, <1>4 DEF CheckIfSourceIsManaged, Undelivered
  <2>2. /\ n.own = m.own /\ n.vol.managed /\ n.vol.pools = v.pools /\ n.vol.parse = v.parse
        /\ n.vol.tree = v.tree /\ n.vol.loaded = v.loaded
    <3>1. m \in TerminalType /\ m.vol \in VolType /\ v = m.vol
      BY <1>2
    <3> QED BY <2>1, <3>1 DEF TerminalType, VolType
  <2>3. v.parse = "None" /\ v.loaded = FALSE /\ v.tree = FALSE
    BY <1>2 DEF Volatile
  <2>4. Has(p, "MaintenanceInit")
    BY <1>2, <2>1, RestHas
  <2>5. Served(v, n.vol, p)
    BY <1>2, <2>1, <2>2, <2>4 DEF Served, Alive
  <2>6. Keeps(n, q, f)
    BY <1>2, <2>1, <2>2, <2>3, <2>4 DEF Keeps
  <2>7. Sound(c, t, n.vol, q)
    BY <1>2, <2>5, RestSound
  <2> QED BY <1>1, <2>6, <2>7
<1> QED BY <1>3, <1>4

\* A value is set
WithValue(m, o, y) == [m EXCEPT !.vol.value[o] = y, !.vol.set = @ \cup {o}]
LEMMA ValueKeeps ==
  ASSUME NEW m \in TerminalType, NEW o \in Object, NEW y \in Value, NEW n, n = WithValue(m, o, y)
  PROVE  /\ n.own = m.own /\ n.vol.managed = m.vol.managed /\ n.vol.pools = m.vol.pools
         /\ n.vol.parse = m.vol.parse /\ n.vol.tree = m.vol.tree /\ n.vol.loaded = m.vol.loaded
BY DEF WithValue, TerminalType, VolType

\* A request that leaves the pools as they are
LEMMA QuerySound ==
  ASSUME Typed, Sound(client, transfer, vol, toVT), Keeps(terminal, toVT, toECU),
         \/ ServeGetMemory \/ ServeCapabilities \/ ServeGetVersions \/ ServeDeleteVersion
         \/ ServeMaintenance \/ ServeChangeNumericValue,
         NEW n, NEW q, NEW f, n = terminal', q = toVT', f = toECU'
  PROVE  Sound(client, transfer, n.vol, q) /\ Keeps(n, q, f)
<1>1. PICK c, t, v, p, e, m : /\ c = client /\ t = transfer /\ v = vol /\ p = toVT /\ e = toECU
                              /\ m = terminal
  OBVIOUS
<1>2. /\ p \in Seq(ToTerminal) /\ e \in Seq(ToClient) /\ p # <<>> /\ q = Tail(p) /\ v = m.vol
      /\ m \in TerminalType /\ v \in VolType /\ v.managed
      /\ Sound(c, t, v, p) /\ Keeps(m, p, e)
  BY <1>1, TerminalParts DEF Typed, ServeGetMemory, ServeCapabilities, ServeGetVersions, ServeDeleteVersion,
     ServeMaintenance, ServeChangeNumericValue, Arrived
<1>3. Head(p).fn # "ObjectPoolTransfer"
  BY <1>1 DEF ServeGetMemory, ServeCapabilities, ServeGetVersions, ServeDeleteVersion,
     ServeMaintenance, ServeChangeNumericValue, Arrived
<1>4. /\ n.own = m.own /\ n.vol.managed /\ n.vol.pools = v.pools /\ n.vol.parse = v.parse
      /\ n.vol.tree = v.tree /\ n.vol.loaded = v.loaded
  <2>1. CASE n = m
    BY <1>2, <2>1
  <2>2. CASE n = [m EXCEPT !.other = FALSE]
    BY <1>2, <2>2 DEF TerminalType
  <2>3. CASE ServeChangeNumericValue /\ n # m
    <3>0. Head(toVT).obj \in Object /\ Head(toVT).val \in Value
      <4>1. Head(toVT) \in ToTerminal /\ Head(toVT).fn = "ChangeNumericValue"
        BY <2>3, ServeType DEF ServeChangeNumericValue, Arrived
      <4> QED BY <4>1 DEF ToTerminal, Change
    <3>1. PICK o \in Object, y \in Value : n = WithValue(m, o, y)
      BY <1>1, <2>3, <3>0 DEF ServeChangeNumericValue, WithValue
    <3>2. m \in TerminalType /\ m.vol \in VolType /\ v = m.vol /\ v.managed
      BY <1>2
    <3> QED BY <3>1, <3>2, ValueKeeps
  <2> QED BY <1>1, <2>1, <2>2, <2>3 DEF ServeGetMemory, ServeCapabilities, ServeGetVersions,
       ServeDeleteVersion, ServeMaintenance, ServeChangeNumericValue
<1>5. f = e \/ \E x \in ToClient : x.fn \notin Outcome /\ f = e \o <<x>>
  <2>1. CASE ServeGetMemory \/ ServeCapabilities \/ ServeGetVersions \/ ServeDeleteVersion
    <3>1. \A b \in BOOLEAN : /\ Response("GetMemory", b) \in ToClient
                             /\ Response("GetMemory", b).fn \notin Outcome
      BY DEF Response, ToClient, Outcome
    <3>2. \A fn \in {"GetSoftKeys", "GetTextFont", "GetHardware", "DeleteVersion"} :
            Msg(fn) \in ToClient /\ Msg(fn).fn \notin Outcome
      BY DEF Msg, ToClient, Outcome
    <3>3. PICK y : y = [fn |-> "GetVersions", own |-> terminal.own # NoPools, other |-> terminal.other]
      OBVIOUS
    <3>4. y \in ToClient /\ y.fn \notin Outcome
      BY <3>3, TerminalParts DEF ToClient, Outcome
    <3>5. CASE ServeGetMemory
      BY <1>1, <3>1, <3>5 DEF ServeGetMemory, ToECU
    <3>6. CASE ServeCapabilities \/ ServeDeleteVersion
      BY <1>1, <3>2, <3>6 DEF ServeCapabilities, ServeDeleteVersion, ToECU
    <3>7. CASE ServeGetVersions
      BY <1>1, <3>3, <3>4, <3>7 DEF ServeGetVersions, ToECU
    <3> QED BY <2>1, <3>5, <3>6, <3>7
  <2>2. CASE ServeMaintenance
    BY <1>1, <2>2 DEF ServeMaintenance
  <2>3. CASE ServeChangeNumericValue
    <3>1. Head(toVT) \in ToTerminal /\ Head(toVT).fn = "ChangeNumericValue" /\ vol.tree \in BOOLEAN
      BY <2>3, ServeType, TerminalParts DEF ServeChangeNumericValue, Arrived, VolType
    <3>2. PICK y : y = [fn |-> "ChangeNumericValue", obj |-> Head(toVT).obj, val |-> Head(toVT).val,
                        ok |-> vol.tree]
      OBVIOUS
    <3>3. y \in ToClient
      BY <3>1, <3>2 DEF ToTerminal, ToClient, Change
    <3>4. y.fn \notin Outcome
      BY <3>2 DEF Outcome
    <3> QED BY <1>1, <2>3, <3>2, <3>3, <3>4 DEF ServeChangeNumericValue, ToECU
  <2> QED BY <2>1, <2>2, <2>3
<1>6. Keeps(n, q, e)
  BY <1>2, <1>4, Kept
<1>7. Keeps(n, q, f)
  BY <1>2, <1>5, <1>6, SendKept
<1>8. Served(v, n.vol, p)
  BY <1>2, <1>3, <1>4, KeptServed
<1>9. Sound(c, t, n.vol, q)
  BY <1>2, <1>8, RestSound
<1> QED BY <1>1, <1>7, <1>9

\* A pool arrives
WithPool(m, y) == [m EXCEPT !.vol.pools = Append(@, y)]
LEMMA PoolKeeps ==
  ASSUME NEW m \in TerminalType, NEW y, NEW n, n = WithPool(m, y)
  PROVE  /\ n.own = m.own /\ n.vol.managed = m.vol.managed /\ n.vol.pools = Append(m.vol.pools, y)
         /\ n.vol.parse = m.vol.parse /\ n.vol.tree = m.vol.tree /\ n.vol.loaded = m.vol.loaded
BY DEF WithPool, TerminalType, VolType

LEMMA ArriveSound ==
  ASSUME Typed, Sound(client, transfer, vol, toVT), Keeps(terminal, toVT, toECU),
         ServeObjectPoolTransfer,
         NEW n, NEW q, NEW f, n = terminal', q = toVT', f = toECU'
  PROVE  Sound(client, transfer, n.vol, q) /\ Keeps(n, q, f)
<1>1. PICK c, t, v, p, e, m : /\ c = client /\ t = transfer /\ v = vol /\ p = toVT /\ e = toECU
                              /\ m = terminal
  OBVIOUS
<1>2. /\ p \in Seq(ToTerminal) /\ e \in Seq(ToClient) /\ p # <<>> /\ q = Tail(p) /\ v = m.vol
      /\ m \in TerminalType /\ v \in VolType /\ v.managed
      /\ Sound(c, t, v, p) /\ Keeps(m, p, e) /\ Head(p).fn = "ObjectPoolTransfer" /\ f = e
  BY <1>1, TerminalParts DEF Typed, ServeObjectPoolTransfer, Arrived
<1>3. PICK y \in Chunks : y = Head(p).chunks
  <2>1. Head(p) \in ToTerminal
    BY <1>2, RestElements
  <2> QED BY <1>2, <2>1 DEF ToTerminal, Change
<1>4. n = WithPool(m, y)
  BY <1>1, <1>3 DEF ServeObjectPoolTransfer, WithPool
<1>5. /\ n.own = m.own /\ n.vol.managed /\ n.vol.pools = Append(v.pools, y)
      /\ n.vol.parse = v.parse /\ n.vol.tree = v.tree /\ n.vol.loaded = v.loaded
  BY <1>2, <1>4, PoolKeeps
<1>6. Range(v.pools) \subseteq Range(n.vol.pools) /\ y \in Range(n.vol.pools)
  <2>1. PICK a : a = v.pools
    OBVIOUS
  <2>2. a \in Seq(Chunks)
    BY <1>2, <2>1 DEF VolType
  <2>3. /\ \A k \in DOMAIN a : k \in DOMAIN Append(a, y) /\ Append(a, y)[k] = a[k]
        /\ Len(a) + 1 \in DOMAIN Append(a, y) /\ Append(a, y)[Len(a) + 1] = y
    BY <2>2
  <2> QED BY <1>5, <2>1, <2>3 DEF Range
<1>7. Keeps(n, q, f)
  <2>1. /\ Range(m.vol.pools) \subseteq Range(n.vol.pools) /\ m.vol.managed
        /\ m.vol.tree => n.vol.tree
        /\ n.vol.parse = m.vol.parse /\ n.vol.loaded = m.vol.loaded /\ Keeps(m, p, f)
    BY <1>2, <1>5, <1>6
  <2> QED BY <1>5, <2>1, Kept
<1>8. Served(v, n.vol, p)
  BY <1>2, <1>3, <1>5, <1>6, KeptServed
<1>9. Sound(c, t, n.vol, q)
  BY <1>2, <1>8, RestSound
<1> QED BY <1>1, <1>7, <1>9

LEMMA JoinedRange ==
  ASSUME NEW S, NEW a \in Seq(S), NEW b \in Seq(S)
  PROVE  /\ Range(a) \subseteq Range(a \o b) /\ Range(b) \subseteq Range(a \o b)
         /\ (a \o b = a <=> b = <<>>)
<1>1. /\ Len(a) \in Nat /\ Len(b) \in Nat /\ DOMAIN a = 1 .. Len(a) /\ DOMAIN b = 1 .. Len(b)
      /\ DOMAIN (a \o b) = 1 .. Len(a) + Len(b) /\ Len(a \o b) = Len(a) + Len(b)
      /\ \A k \in DOMAIN a : (a \o b)[k] = a[k]
      /\ \A k \in DOMAIN b : Len(a) + k \in DOMAIN (a \o b) /\ (a \o b)[Len(a) + k] = b[k]
  OBVIOUS
<1>2. \A k \in DOMAIN a : k \in DOMAIN (a \o b)
  BY <1>1
<1>3. a \o b = a => b = <<>>
  <2>1. a \o b = a => Len(b) = 0
    BY <1>1
  <2> QED BY <2>1
<1>4. b = <<>> => a \o b = a
  OBVIOUS
<1> QED BY <1>1, <1>2, <1>3, <1>4 DEF Range

\* A stored version is loaded: all of it, or nothing
LEMMA LoadSound ==
  ASSUME Typed, Sound(client, transfer, vol, toVT), Keeps(terminal, toVT, toECU),
         ServeLoadVersion, Undisturbed,
         NEW n, NEW q, NEW f, n = terminal', q = toVT', f = toECU'
  PROVE  Sound(client, transfer, n.vol, q) /\ Keeps(n, q, f)
<1>1. PICK c, t, v, p, e, m : /\ c = client /\ t = transfer /\ v = vol /\ p = toVT /\ e = toECU
                              /\ m = terminal
  OBVIOUS
<1>2. /\ p \in Seq(ToTerminal) /\ e \in Seq(ToClient) /\ p # <<>> /\ q = Tail(p) /\ v = m.vol
      /\ m \in TerminalType /\ v \in VolType /\ v.managed /\ v.pools \in Seq(Chunks)
      /\ m.own \in Seq(Chunks)
      /\ Sound(c, t, v, p) /\ Keeps(m, p, e) /\ Head(p).fn = "LoadVersion"
  BY <1>1, TerminalParts DEF Typed, VolType, ServeLoadVersion, Arrived
<1>3. PICK found \in {m.own, NoPools} :
        /\ LET w == [v EXCEPT !.pools = @ \o found]
           IN  n = [m EXCEPT !.vol =
                 IF w.pools = NoPools THEN w ELSE [StartParsing(w) EXCEPT !.loaded = TRUE]]
        /\ f = e \o (IF found = NoPools THEN <<Response("LoadVersion", FALSE)>> ELSE <<>>)
  BY <1>1 DEF ServeLoadVersion, ToECU
<1>4. PICK w : w = [v EXCEPT !.pools = @ \o found]
  OBVIOUS
<1>5. /\ w \in VolType /\ w.pools = v.pools \o found /\ w.managed /\ w.parse = v.parse
      /\ w.tree = v.tree /\ w.loaded = v.loaded /\ found \in Seq(Chunks)
  <2>1. found \in Seq(Chunks)
    BY <1>2, <1>3, VolTypes
  <2>2. v.pools \o found \in Seq(Chunks)
    BY <1>2, <2>1
  <2> QED BY <1>2, <1>4, <2>1, <2>2 DEF VolType
<1>6. /\ n.own = m.own
      /\ n.vol = IF w.pools = NoPools THEN w ELSE [StartParsing(w) EXCEPT !.loaded = TRUE]
  BY <1>2, <1>3, <1>4 DEF TerminalType
<1>7. /\ n.vol.managed /\ n.vol.pools = v.pools \o found /\ n.vol.tree = v.tree
      /\ n.vol.parse = v.parse \/ (n.vol.parse = "Running" /\ n.vol.loaded)
      /\ n.vol.loaded = v.loaded \/ n.vol.loaded = TRUE
  <2>1. /\ StartParsing(w) \in VolType /\ StartParsing(w).managed /\ StartParsing(w).pools = w.pools
        /\ StartParsing(w).tree = w.tree
        /\ StartParsing(w).parse = w.parse \/ StartParsing(w).parse = "Running"
    BY <1>5, StartParsingType DEF StartParsing, VolType
  <2>2. CASE w.pools = NoPools
    BY <1>5, <1>6, <2>2
  <2>3. CASE w.pools # NoPools
    <3>1. PICK s : s = StartParsing(w)
      OBVIOUS
    <3>2. n.vol = [s EXCEPT !.loaded = TRUE]
      BY <1>6, <2>3, <3>1
    <3> QED BY <1>5, <2>1, <3>1, <3>2 DEF VolType
  <2> QED BY <2>2, <2>3
<1>8. Range(v.pools) \subseteq Range(n.vol.pools) /\ Range(found) \subseteq Range(n.vol.pools)
      /\ (n.vol.pools = v.pools => found = NoPools)
  BY <1>2, <1>5, <1>7, JoinedRange DEF NoPools
<1>9. n.vol.loaded => Present(n.vol)
  <2>1. CASE v.loaded
    BY <1>2, <1>8, <2>1 DEF Keeps, Present
  <2>2. CASE ~v.loaded /\ n.vol.loaded
    <3>1. n.vol.pools # v.pools
      BY <1>1, <2>2 DEF Undisturbed, vol
    <3>2. found # NoPools \/ n.vol.pools = v.pools
      BY <1>2, <1>7 DEF NoPools
    <3>3. found = m.own /\ m.own # NoPools
      BY <1>3, <3>1, <3>2
    <3> QED BY <1>2, <1>8, <3>3 DEF Keeps, Present
  <2> QED BY <2>1, <2>2
<1>10. Keeps(n, q, e)
  <2>1. v.parse = m.vol.parse /\ v.loaded = m.vol.loaded /\ (v.loaded => n.vol.loaded)
    <3>1. v.loaded \in BOOLEAN /\ n.vol.loaded \in BOOLEAN
      BY <1>2, <1>7 DEF VolType
    <3> QED BY <1>2, <1>7, <3>1
  <2> QED BY <1>2, <1>6, <1>7, <1>8, <1>9, <2>1, Kept
<1>11. Keeps(n, q, f)
  <2>1. PICK x : x = Response("LoadVersion", FALSE)
    OBVIOUS
  <2>2. x \in ToClient /\ ~x.ok
    BY <2>1 DEF Response, ToClient
  <2>3. f = e \/ f = e \o <<x>>
    BY <1>2, <1>3, <2>1
  <2> QED BY <1>2, <1>7, <1>10, <2>2, <2>3, SendKept
<1>12. Served(v, n.vol, p)
  BY <1>2, <1>7, <1>8, KeptServed
<1>13. Sound(c, t, n.vol, q)
  BY <1>2, <1>12, RestSound
<1> QED BY <1>1, <1>11, <1>13

\* What is stored is complete: it was parsed, and reported, before
LEMMA StoreSound ==
  ASSUME Typed, Sound(client, transfer, vol, toVT), Keeps(terminal, toVT, toECU), ServeStoreVersion,
         NEW n, NEW q, NEW f, n = terminal', q = toVT', f = toECU'
  PROVE  Sound(client, transfer, n.vol, q) /\ Keeps(n, q, f)
<1>1. PICK c, t, v, p, e, m : /\ c = client /\ t = transfer /\ v = vol /\ p = toVT /\ e = toECU
                              /\ m = terminal
  OBVIOUS
<1>2. /\ p \in Seq(ToTerminal) /\ e \in Seq(ToClient) /\ p # <<>> /\ q = Tail(p) /\ v = m.vol
      /\ m \in TerminalType /\ v \in VolType /\ v.managed
      /\ Sound(c, t, v, p) /\ Keeps(m, p, e) /\ Head(p).fn = "StoreVersion"
  BY <1>1, TerminalParts DEF Typed, ServeStoreVersion, Arrived
<1>3. v.tree /\ Present(v)
  <2>1. Has(p, "StoreVersion")
    BY <1>2, RestHas
  <2>2. Done(v, p)
    BY <1>2, <2>1 DEF Sound, Promises
  <2> QED BY <1>2, <2>2 DEF Done, Alive
<1>4. n.vol = v /\ (n.own = m.own \/ n.own = v.pools)
  <2>1. n = m \/ n = [m EXCEPT !.own = v.pools]
    BY <1>1 DEF ServeStoreVersion
  <2> QED BY <1>2, <2>1 DEF TerminalType
<1>5. Keeps(n, q, e)
  BY <1>2, <1>3, <1>4, Kept DEF Present
<1>6. f = e \/ \E x \in ToClient : f = e \o <<x>>
  <2>1. /\ Nack \in ToClient
        /\ \A b \in BOOLEAN : Response("StoreVersion", b) \in ToClient
    BY ConfigAssumption DEF Typed, Nack, Response, ToClient
  <2> QED BY <1>1, <2>1 DEF ServeStoreVersion, ToECU
<1>7. Keeps(n, q, f)
  BY <1>2, <1>3, <1>4, <1>5, <1>6, SendKept
<1>8. Served(v, v, p)
  BY <1>2, Skipped
<1>9. Sound(c, t, v, q)
  BY <1>2, <1>8, RestSound
<1> QED BY <1>1, <1>4, <1>7, <1>9

\* The end of the pool is behind all of it
LEMMA EndSound ==
  ASSUME Typed, Sound(client, transfer, vol, toVT), Keeps(terminal, toVT, toECU), ServeEndOfObjectPool,
         NEW n, NEW q, NEW f, n = terminal', q = toVT', f = toECU'
  PROVE  Sound(client, transfer, n.vol, q) /\ Keeps(n, q, f)
<1>1. PICK c, t, v, p, e, m : /\ c = client /\ t = transfer /\ v = vol /\ p = toVT /\ e = toECU
                              /\ m = terminal
  OBVIOUS
<1>2. /\ p \in Seq(ToTerminal) /\ e \in Seq(ToClient) /\ p # <<>> /\ q = Tail(p) /\ v = m.vol
      /\ m \in TerminalType /\ v \in VolType /\ v.managed /\ f = e
      /\ Sound(c, t, v, p) /\ Keeps(m, p, e) /\ Head(p).fn = "EndOfObjectPool"
  BY <1>1, TerminalParts DEF Typed, ServeEndOfObjectPool, Arrived
<1>3. Present(v)
  <2>1. 1 \in DOMAIN p /\ p[1].fn = "EndOfObjectPool" /\ \A k \in DOMAIN p : k \in Nat /\ k >= 1
    BY <1>2, RestElements
  <2>2. AllSure(v, p, 1)
    BY <1>2, <2>1 DEF Sound, Promises
  <2>3. ASSUME NEW i \in Pool PROVE AllPools[i] \in Range(v.pools)
    <3>1. ~Carried(p, AllPools[i], 1)
      BY <2>1 DEF Carried
    <3> QED BY <1>2, <2>2, <3>1 DEF AllSure, Sure, Alive
  <2>4. DOMAIN AllPools = Pool
    BY DEF AllPools
  <2> QED BY <2>3, <2>4 DEF Present, Range
<1>4. /\ n.own = m.own /\ n.vol.managed /\ n.vol.pools = v.pools /\ n.vol.tree = v.tree
      /\ n.vol.parse = v.parse \/ n.vol.parse = "Running"
      /\ n.vol.loaded = v.loaded
  <2>1. n.own = m.own /\ (n.vol = v \/ n.vol = StartParsing(v))
    <3>1. n = [m EXCEPT !.vol = v] \/ n = [m EXCEPT !.vol = StartParsing(v)]
      BY <1>1, <1>2 DEF ServeEndOfObjectPool
    <3> QED BY <1>2, <3>1 DEF TerminalType
  <2> QED BY <1>2, <2>1 DEF StartParsing, VolType
<1>5. Keeps(n, q, f)
  BY <1>2, <1>3, <1>4, Kept DEF Present
<1>6. Served(v, n.vol, p)
  BY <1>2, <1>4, KeptServed
<1>7. Sound(c, t, n.vol, q)
  BY <1>2, <1>6, RestSound
<1> QED BY <1>1, <1>5, <1>7

\* The pools are removed, and no client is announced behind that
LEMMA RemoveSound ==
  ASSUME Typed, Sound(client, transfer, vol, toVT), Keeps(terminal, toVT, toECU), ServeDeleteObjectPool,
         NEW n, NEW q, NEW f, n = terminal', q = toVT', f = toECU'
  PROVE  Sound(client, transfer, n.vol, q) /\ Keeps(n, q, f)
<1>1. PICK c, t, v, p, e, m : /\ c = client /\ t = transfer /\ v = vol /\ p = toVT /\ e = toECU
                              /\ m = terminal
  OBVIOUS
<1>2. /\ p \in Seq(ToTerminal) /\ e \in Seq(ToClient) /\ p # <<>> /\ q = Tail(p) /\ v = m.vol
      /\ m \in TerminalType /\ v \in VolType
      /\ Sound(c, t, v, p) /\ Keeps(m, p, e) /\ Head(p).fn = "DeleteObjectPool"
  BY <1>1, TerminalParts DEF Typed, ServeDeleteObjectPool, Arrived
<1>3. n.own = m.own /\ n.vol = Volatile
  <2>1. n = [m EXCEPT !.vol = Volatile]
    BY <1>1 DEF ServeDeleteObjectPool
  <2> QED BY <1>2, <2>1 DEF TerminalType
<1>4. /\ n.vol.managed = FALSE /\ n.vol.parse = "None" /\ n.vol.loaded = FALSE
  BY <1>3 DEF Volatile
<1>5. ~Has(q, "MaintenanceInit")
  <2>1. /\ 1 \in DOMAIN p /\ p[1].fn = "DeleteObjectPool"
        /\ \A k \in DOMAIN q : k + 1 \in DOMAIN p /\ k + 1 > 1 /\ q[k] = p[k + 1]
    BY <1>2, RestElements
  <2> QED BY <1>2, <2>1 DEF Sound, Line, Has
<1>6. Keeps(n, q, f)
  <2>1. Keeps(n, q, e)
    BY <1>2, <1>3, <1>4, <1>5 DEF Keeps
  <2>2. PICK x : x = Response("DeleteObjectPool", TRUE)
    OBVIOUS
  <2>3. x \in ToClient /\ x.fn \notin Outcome
    BY <2>2 DEF Response, ToClient, Outcome
  <2>4. f = e \o <<x>>
    BY <1>1, <2>2 DEF ServeDeleteObjectPool, ToECU
  <2> QED BY <1>2, <2>1, <2>3, <2>4, SendKept
<1>7. Served(v, n.vol, p)
  BY <1>2, <1>4, <1>5 DEF Served, Alive
<1>8. Sound(c, t, n.vol, q)
  BY <1>2, <1>7, RestSound
<1> QED BY <1>1, <1>6, <1>8

LEMMA ServingSound ==
  ASSUME Typed, VolInv, Sound(client, transfer, vol, toVT), Keeps(terminal, toVT, toECU),
         Serving, Undisturbed,
         NEW n, NEW q, NEW f, n = terminal', q = toVT', f = toECU'
  PROVE  Sound(client, transfer, n.vol, q) /\ Keeps(n, q, f)
BY StrangerSound, QuerySound, ArriveSound, LoadSound, StoreSound, EndSound, RemoveSound
   DEF Serving, Serve

\* The parsing thread is joined, or comes to an end
WithParse(m, s, b) == [m EXCEPT !.vol.parse = s, !.vol.active = @ \/ b]
LEMMA JoinKeeps ==
  ASSUME NEW m \in TerminalType, NEW s, NEW b, NEW n, n = WithParse(m, s, b)
  PROVE  /\ n.own = m.own /\ n.vol.managed = m.vol.managed /\ n.vol.pools = m.vol.pools
         /\ n.vol.parse = s /\ n.vol.tree = m.vol.tree /\ n.vol.loaded = m.vol.loaded
BY DEF WithParse, TerminalType, VolType

WithTree(m, s, x) == [m EXCEPT !.vol.parse = s, !.vol.tree = TRUE, !.vol.value = x, !.vol.set = {}]
LEMMA ParsedKeeps ==
  ASSUME NEW m \in TerminalType, NEW s, NEW x, NEW n, n = WithTree(m, s, x)
  PROVE  /\ n.own = m.own /\ n.vol.managed = m.vol.managed /\ n.vol.pools = m.vol.pools
         /\ n.vol.tree /\ n.vol.loaded = m.vol.loaded
BY DEF WithTree, TerminalType, VolType

\* What else the terminal does
LEMMA TerminalSound ==
  ASSUME Typed, VolInv, Sound(client, transfer, vol, toVT), Keeps(terminal, toVT, toECU),
         Updating \/ Parsing \/ Operator \/ PoweredOn,
         NEW n, NEW f, n = terminal', f = toECU'
  PROVE  Sound(client, transfer, n.vol, toVT) /\ Keeps(n, toVT, f)
<1>1. PICK c, t, v, q, e, m : /\ c = client /\ t = transfer /\ v = vol /\ q = toVT /\ e = toECU
                              /\ m = terminal
  OBVIOUS
<1>2. /\ e \in Seq(ToClient) /\ v = m.vol /\ m \in TerminalType /\ v \in VolType
      /\ Sound(c, t, v, q) /\ Keeps(m, q, e)
  BY <1>1, TerminalParts DEF Typed
<1>3. CASE Updating
  <2>1. /\ v.parse \in {"Success", "Fail"}
        /\ n = WithParse(m, "Joined", v.parse = "Success")
    BY <1>1, <1>3 DEF Updating, ServerUpdate, WithParse
  <2>2. v.managed
    BY <1>1, <1>2, <2>1 DEF VolInv, Volatile
  <2>3. v.tree /\ Present(v)
    BY <1>2, <2>1 DEF Keeps
  <2>4. /\ n.own = m.own /\ n.vol.managed = v.managed /\ n.vol.pools = v.pools
        /\ n.vol.parse = "Joined" /\ n.vol.tree = v.tree /\ n.vol.loaded = v.loaded
    BY <1>2, <2>1, JoinKeeps
  <2>5. Keeps(n, q, e)
    BY <1>2, <2>2, <2>4, Kept
  <2>6. n.vol.managed /\ n.vol.tree /\ Present(n.vol)
    BY <2>2, <2>3, <2>4 DEF Present
  <2>7. \/ f = e
        \/ \E x \in ToClient : f = e \o <<x>>
        \/ \E x, y \in ToClient : f = (e \o <<x>>) \o <<y>>
    BY <1>1, <1>3, TerminalSends
  <2>8. ASSUME NEW x \in ToClient PROVE Keeps(n, q, e \o <<x>>) /\ e \o <<x>> \in Seq(ToClient)
    BY <1>2, <2>5, <2>6, SendKept, SendElements
  <2>9. ASSUME NEW x \in ToClient, NEW y \in ToClient PROVE Keeps(n, q, (e \o <<x>>) \o <<y>>)
    BY <2>6, <2>8, SendKept
  <2>10. Keeps(n, q, f)
    BY <2>5, <2>7, <2>8, <2>9
  <2>11. Sound(c, t, n.vol, q)
    BY <1>2, <2>4, SameSound
  <2> QED BY <1>1, <2>10, <2>11
<1>4. CASE Parsing
  <2>1. PICK result \in {"Success", "Fail"} :
          n = WithTree(m, result, [o \in Object |-> 0])
    BY <1>1, <1>4 DEF Parsing, ParseEnds, WithTree
  <2>2. v.parse = "Running" /\ f = e
    BY <1>1, <1>4 DEF Parsing, ParseEnds
  <2>3. v.managed
    BY <1>1, <1>2, <2>2 DEF VolInv, Volatile
  <2>4. Present(v)
    BY <1>2, <2>2 DEF Keeps
  <2>5. /\ n.own = m.own /\ n.vol.managed = v.managed /\ n.vol.pools = v.pools
        /\ n.vol.tree /\ n.vol.loaded = v.loaded
    BY <1>2, <2>1, ParsedKeeps
  <2>6. Keeps(n, q, e)
    BY <1>2, <2>3, <2>4, <2>5, Kept DEF Present
  <2>7. Sound(c, t, n.vol, q)
    BY <1>2, <2>5, SameSound
  <2> QED BY <1>1, <2>2, <2>6, <2>7
<1>5. CASE Operator
  <2>1. PICK o \in Object, y \in Value : OperatorChanges(o, y)
    BY <1>5 DEF Operator
  <2>2. PICK x : x = ValueMsg("VTChangeNumericValue", o, y)
    OBVIOUS
  <2>3. x \in ToClient /\ x.fn \notin Outcome
    BY <2>2 DEF ValueMsg, ToClient, Outcome
  <2>4. n = WithValue(m, o, y) /\ f = e \o <<x>>
    BY <1>1, <2>1, <2>2 DEF OperatorChanges, WithValue, ToECU
  <2>5. v.managed
    BY <1>1, <1>2, <2>1 DEF VolInv, Volatile, OperatorChanges
  <2>6. /\ n.own = m.own /\ n.vol.managed = v.managed /\ n.vol.pools = v.pools
        /\ n.vol.parse = v.parse /\ n.vol.tree = v.tree /\ n.vol.loaded = v.loaded
    BY <1>2, <2>4, ValueKeeps
  <2>7. Keeps(n, q, e)
    BY <1>2, <2>5, <2>6, Kept
  <2>8. Keeps(n, q, f)
    BY <1>2, <2>3, <2>4, <2>7, SendKept
  <2>9. Sound(c, t, n.vol, q)
    BY <1>2, <2>6, SameSound
  <2> QED BY <1>1, <2>8, <2>9
<1>6. CASE PoweredOn
  <2>1. n = [m EXCEPT !.up = TRUE] /\ f = e
    BY <1>1, <1>6 DEF PoweredOn, PowerOn
  <2>2. n.own = m.own /\ n.vol = m.vol
    BY <1>2, <2>1 DEF TerminalType
  <2>3. Keeps(n, q, e)
    BY <1>2, <2>2 DEF Keeps
  <2> QED BY <1>1, <1>2, <2>1, <2>2, <2>3
<1> QED BY <1>3, <1>4, <1>5, <1>6

\* A message is lost, or the terminal loses its power
LEMMA LoseSound ==
  ASSUME Typed, Sound(client, transfer, vol, toVT), Keeps(terminal, toVT, toECU), Lose,
         NEW u, NEW n, NEW q, NEW f, u = transfer', n = terminal', q = toVT', f = toECU'
  PROVE  Sound(client, u, n.vol, q) /\ Keeps(n, q, f)
<1>1. PICK c, t, v, p, e, m : /\ c = client /\ t = transfer /\ v = vol /\ p = toVT /\ e = toECU
                              /\ m = terminal
  OBVIOUS
<1>2. /\ p \in Seq(ToTerminal) /\ e \in Seq(ToClient) /\ v = m.vol /\ m \in TerminalType
      /\ t \in TransferType /\ Sound(c, t, v, p) /\ Keeps(m, p, e)
  BY <1>1, TerminalParts DEF Typed
<1>3. CASE p # <<>> /\ Head(p).fn # "ObjectPoolTransfer" /\ q = Tail(p) /\ u = t /\ n = m /\ f = e
  <2>1. Keeps(m, q, e) /\ Served(v, v, p)
    BY <1>2, <1>3, Skipped
  <2>2. Sound(c, t, v, q)
    BY <1>2, <1>3, <2>1, RestSound
  <2> QED BY <1>1, <1>2, <1>3, <2>1, <2>2
<1>4. CASE e # <<>> /\ f = Tail(e) /\ q = p /\ u = t /\ n = m
  <2>1. Keeps(m, p, f)
    BY <1>2, <1>4, RestKeeps
  <2> QED BY <1>1, <1>2, <1>4, <2>1
<1>5. CASE PowerOff
  <2>1. /\ n = [m EXCEPT !.up = FALSE, !.vol = Volatile] /\ q = <<>> /\ f = e
        /\ u = IF t = NoTransfer THEN NoTransfer ELSE [t EXCEPT !.broken = TRUE]
    BY <1>1, <1>5 DEF PowerOff
  <2>2. n.own = m.own /\ n.vol = Volatile
    BY <1>2, <2>1 DEF TerminalType
  <2>3. /\ n.vol.managed = FALSE /\ n.vol.parse = "None" /\ n.vol.loaded = FALSE
    BY <2>2 DEF Volatile
  <2>4. u.chunks = t.chunks /\ (u # NoTransfer => t # NoTransfer)
    BY <1>2, <2>1 DEF TransferType, NoTransfer
  <2>5. (\A fn : ~Has(q, fn)) /\ DOMAIN q = {}
    BY <2>1 DEF Has
  <2>6. /\ \A i, j : Sure(n.vol, q, i, j)
        /\ \A j : AllSure(n.vol, q, j)
        /\ Done(n.vol, q)
    BY <2>3, <2>5 DEF Sure, AllSure, Done, Alive
  <2>7. Line(c, q)
    BY <1>2, <2>5 DEF Sound, Line
  <2>8. Uploads(c, u, n.vol, q)
    BY <1>2, <2>4, <2>6 DEF Sound, Uploads
  <2>9. Promises(c, n.vol, q)
    BY <2>6 DEF Promises
  <2>10. Keeps(n, q, f)
    BY <1>2, <2>1, <2>2, <2>3, <2>5 DEF Keeps
  <2> QED BY <1>1, <2>7, <2>8, <2>9, <2>10 DEF Sound
<1> QED BY <1>1, <1>3, <1>4, <1>5 DEF Lose

(* A mark that an outcome is left from an earlier upload stays *)

LEMMA SetStateStale ==
  ASSUME NEW c \in ClientType, c.stale, NEW s
  PROVE  SetState(c, s).stale
BY DEF SetState, ClientType

LEMMA PassPoolStale ==
  ASSUME NEW r \in PassType, NEW i \in Pool, r.c.stale
  PROVE  PassPool(r, i).c.stale
<1>1. /\ r.c \in ClientType /\ r.all \in BOOLEAN /\ r.sent \in 0 .. NPools /\ r.over \in BOOLEAN
      /\ r.c.uploaded[i] \in BOOLEAN
  BY DEF PassType, ClientType
<1>2. /\ [r.c EXCEPT !.uploaded[i] = TRUE].stale
      /\ [r.c EXCEPT !.uploaded[i] = TRUE, !.upload = "Uninitialized"].stale
      /\ [r.c EXCEPT !.upload = "InProgress"].stale
      /\ [r.c EXCEPT !.upload = "Uninitialized"].stale
      /\ [r.c EXCEPT !.upload = "Uninitialized"] \in ClientType
  BY <1>1 DEF ClientType
<1>3. SetState([r.c EXCEPT !.upload = "Uninitialized"], "Disconnected").stale
  BY <1>2, SetStateStale
<1>4. CASE r.over
  BY <1>1, <1>4 DEF PassPool
<1>5. CASE ~r.over /\ i \in ByVector
  <2>1. PassPool(r, i) = [r EXCEPT !.c.uploaded[i] = TRUE]
    BY <1>5 DEF PassPool
  <2> QED BY <1>2, <2>1 DEF PassType
<1>6. CASE ~r.over /\ i \notin ByVector
  BY <1>1, <1>2, <1>3, <1>6 DEF PassPool, PassType
<1> QED BY <1>1, <1>4, <1>5, <1>6

LEMMA UploadPassStale ==
  ASSUME client \in ClientType, client.stale
  PROVE  UploadPass.c.stale
<1>1. PICK f : PassSteps(f, NPools) /\ UploadPass = f[NPools]
  BY UploadPassSteps
<1> DEFINE S == {n \in Nat : n <= NPools => f[n] \in PassType /\ f[n].c.stale}
<1>2. 0 \in S
  <2>1. PassStart \in PassType /\ PassStart.c.stale
    BY LinkAssumption DEF PassStart, PassType
  <2> QED BY <1>1, <2>1 DEF PassSteps
<1>3. ASSUME NEW n \in Nat, n \in S PROVE n + 1 \in S
  <2>1. CASE n + 1 <= NPools
    <3>1. n + 1 \in 1 .. NPools /\ n + 1 \in Pool /\ f[n] \in PassType /\ f[n].c.stale
      BY <1>3, <2>1, LinkAssumption DEF Pool
    <3>2. f[n + 1] = PassPool(f[n], n + 1)
      BY <1>1, <3>1 DEF PassSteps
    <3> QED BY <3>1, <3>2, PassPoolType, PassPoolStale
  <2> QED BY <2>1
<1>4. NPools \in S
  <2> HIDE DEF S
  <2> QED BY <1>2, <1>3, Induction, LinkAssumption
<1> QED BY <1>1, <1>4, LinkAssumption

LEMMA StaleStays ==
  ASSUME Typed, client.stale, [Next]_vars
  PROVE  client'.stale
<1>1. PICK c, d : c = client /\ d = client'
  OBVIOUS
<1>2. c \in ClientType /\ c.stale
  BY <1>1 DEF Typed
<1>3. ASSUME NEW s, \/ d = SetState(c, s)
                    \/ d = [SetState(c, s) EXCEPT !.maintain = FALSE]
                    \/ d = [SetState(c, s) EXCEPT !.work = "idle"]
                    \/ d = [SetState(c, s) EXCEPT !.running = FALSE]
      PROVE  d.stale
  <2>1. PICK b : b = SetState(c, s)
    OBVIOUS
  <2>2. b.stale /\ DOMAIN b = DOMAIN c
    BY <1>2, <2>1, SetStateStale DEF SetState, ClientType
  <2> QED BY <1>2, <1>3, <2>1, <2>2 DEF ClientType
<1>4. CASE Worker
  <2>1. CASE \/ WorkDisconnected \/ WorkStatusHeard \/ WorkMaster \/ WorkRequested \/ WorkTimesOut
             \/ WorkRetry \/ WorkConnected
    BY <1>1, <1>3, <2>1 DEF WorkDisconnected, WorkStatusHeard, WorkMaster, WorkRequested, WorkTimesOut,
       WorkRetry, WorkConnected
  <2>2. CASE WorkReady
    <3>1. PICK b : b = IF c.heard = "recent" THEN c ELSE SetState(c, "Disconnected")
      OBVIOUS
    <3>2. b \in ClientType /\ b.stale
      BY <1>2, <3>1, States, SetStateType, SetStateStale
    <3>3. PICK g : g = SetState(b, "SendGetMemory")
      OBVIOUS
    <3>4. g \in ClientType /\ g.stale
      BY <3>2, <3>3, States, Requests, SetStateType, SetStateStale
    <3>5. d = [g EXCEPT !.maintain = TRUE]
      BY <1>1, <2>2, <3>1, <3>3 DEF WorkReady
    <3> QED BY <1>1, <3>4, <3>5 DEF ClientType
  <2>3. CASE WorkRequest
    <3>1. PICK wait : wait = Request[c.state].wait
      OBVIOUS
    <3>2. d = SetState(c, wait) \/ d = [c EXCEPT !.work = wait]
      BY <1>1, <2>3, <3>1 DEF WorkRequest
    <3>3. CASE d = [c EXCEPT !.work = wait]
      BY <1>1, <1>2, <3>3 DEF ClientType
    <3> QED BY <1>1, <1>3, <3>2, <3>3
  <2>4. CASE WorkUpload
    <3>1. PICK r : r = UploadPass
      OBVIOUS
    <3>2. r.c \in ClientType /\ r.c.stale
      BY <1>1, <1>2, <3>1, UploadPassType, UploadPassStale DEF PassType
    <3>3. PICK b : b = IF r.all THEN SetState(r.c, "SendEndOfObjectPool") ELSE r.c
      OBVIOUS
    <3>4. b \in ClientType /\ b.stale
      BY <3>2, <3>3, States, Requests, SetStateType, SetStateStale
    <3>5. d = b \/ d = [b EXCEPT !.upload = "Uninitialized", !.work = "upload"]
      BY <1>1, <2>4, <3>1, <3>3 DEF WorkUpload
    <3> QED BY <1>1, <3>4, <3>5 DEF ClientType
  <2>5. CASE WorkUploadStarted \/ WorkQueue
    BY <1>1, <1>2, <2>5 DEF WorkUploadStarted, WorkQueue, ClientType
  <2> QED BY <1>4, <2>1, <2>2, <2>3, <2>4, <2>5 DEF Worker
<1>5. CASE Reading
  <2>1. d = c \/ \E s : d = SetState(c, s)
    BY <1>1, <1>5 DEF Reading, Receive, ReceiveAcknowledge, ReceiveGetMemory, ReceiveGetNumberOfSoftKeys,
       ReceiveGetTextFontData, ReceiveGetHardware, ReceiveGetVersionsResponse, ReceiveLoadVersion,
       ReceiveStoreVersion, ReceiveEndOfObjectPool, ReceiveCommandResponse, ReceiveChangeNumericValue,
       ReceiveDeleteVersion, Answered
  <2> QED BY <1>1, <1>2, <1>3, <2>1
<1>6. CASE Restarting \/ StatusGrowsOld \/ Status \/ Transfer
  <2>1. \/ d = c \/ d = [c EXCEPT !.heard = "stale"] \/ d = [c EXCEPT !.heard = "recent"]
        \/ d = [c EXCEPT !.running = TRUE] \/ d = [SetState(c, "Disconnected") EXCEPT !.running = FALSE]
        \/ \E x : d = [c EXCEPT !.upload = x]
    BY <1>1, <1>6 DEF Restarting, Terminate, Initialize, StatusGrowsOld, Status, ReceiveStatus,
       Transfer, FetchChunk, TransferSucceeds, TransferFails, Reported
  <2>2. CASE d = [SetState(c, "Disconnected") EXCEPT !.running = FALSE]
    BY <1>1, <1>3, <2>2
  <2>3. CASE d # [SetState(c, "Disconnected") EXCEPT !.running = FALSE]
    BY <1>1, <1>2, <2>1, <2>3 DEF ClientType
  <2> QED BY <2>2, <2>3
<1>7. CASE \/ Maintain \/ Calling \/ Serving \/ Updating \/ Parsing \/ Lose \/ PoweredOn
           \/ CommandExpires \/ Operator \/ Asks \/ UNCHANGED vars
  BY <1>7 DEF Maintain, WorkMaintain, Calling, CallCheck, CallSend, CallMark, CallPush, Serving, Updating,
     Parsing, Lose, PoweredOn, CommandExpires, CommandTimesOut, Operator, Asks, Call, vars
<1> QED BY <1>4, <1>5, <1>6, <1>7 DEF Next

LEMMA PoolStep ==
  ASSUME ByVector = {}, Typed, VolInv, PoolInv, [Next]_vars, [Undisturbed]_vars
  PROVE  PoolInv'
<1>1. PICK d, u, n, q, f : d = client' /\ u = transfer' /\ n = terminal' /\ q = toVT' /\ f = toECU'
  OBVIOUS
<1>2. SUFFICES ASSUME ~client'.stale PROVE Sound(d, u, n.vol, q) /\ Keeps(n, q, f)
  BY <1>1 DEF PoolInv
<1>3. /\ Sound(client, transfer, vol, toVT) /\ Keeps(terminal, toVT, toECU) /\ vol = terminal.vol
      /\ ~client.stale
  BY <1>2, StaleStays DEF PoolInv, vol
<1>4. CASE UNCHANGED <<client, transfer, terminal, toVT, toECU>>
  BY <1>1, <1>3, <1>4
<1>5. ASSUME ~UNCHANGED vars PROVE Undisturbed
  BY <1>5
<1>6. ASSUME UNCHANGED <<client, transfer, terminal, toECU>>,
             NEW x \in ToTerminal, x.fn \in {"Maintenance", "ChangeNumericValue", "DeleteOtherVersion"},
             q = toVT \/ q = toVT \o <<x>>
      PROVE  Sound(d, u, n.vol, q) /\ Keeps(n, q, f)
  <2>1. Sound(client, transfer, vol, q) /\ Keeps(terminal, q, toECU)
    BY <1>3, <1>6, CommandSound
  <2> QED BY <1>1, <1>3, <1>6, <2>1
<1>7. ASSUME \/ WorkDisconnected \/ WorkStatusHeard \/ WorkMaster \/ WorkRequested \/ WorkTimesOut
             \/ WorkRetry \/ WorkConnected \/ WorkUpload \/ WorkUploadStarted \/ Status
             \/ StatusGrowsOld \/ Initialize,
             UNCHANGED <<terminal, toVT, toECU>>
      PROVE  Sound(d, u, n.vol, q) /\ Keeps(n, q, f)
  <2>1. Sound(d, u, vol, toVT)
    BY <1>1, <1>2, <1>3, <1>7, AloneSound
  <2> QED BY <1>1, <1>3, <1>7, <2>1
<1>8. CASE Worker
  <2>1. UNCHANGED <<terminal, toECU>>
    BY <1>8 DEF Worker, WorkDisconnected, WorkStatusHeard, WorkMaster, WorkReady, WorkRequest, WorkRequested,
       WorkTimesOut, WorkRetry, WorkConnected, WorkUpload, WorkUploadStarted, WorkQueue, WorkerKeeps
  <2>2. CASE \/ WorkDisconnected \/ WorkStatusHeard \/ WorkMaster \/ WorkRequested \/ WorkTimesOut
             \/ WorkRetry \/ WorkConnected \/ WorkUpload \/ WorkUploadStarted
    <3>1. UNCHANGED toVT
      BY <2>2 DEF WorkDisconnected, WorkStatusHeard, WorkMaster, WorkRequested,
         WorkTimesOut, WorkRetry, WorkConnected, WorkUpload, WorkUploadStarted, WorkerKeeps
    <3> QED BY <1>7, <2>1, <2>2, <3>1
  <2>3. CASE WorkReady
    <3>1. client.state = "ReadyForObjectPool" /\ UNCHANGED transfer
      BY <2>3 DEF WorkReady, WorkerKeeps
    <3>2. CASE UNCHANGED vars
      BY <1>4, <3>2 DEF vars
    <3>3. CASE ~UNCHANGED vars
      <4>1. Sound(d, transfer, vol, q) /\ Keeps(terminal, q, toECU)
        BY <1>1, <1>3, <1>5, <2>3, <3>3, AnnounceSound
      <4> QED BY <1>1, <1>3, <2>1, <3>1, <4>1
    <3> QED BY <3>2, <3>3
  <2>4. CASE WorkRequest
    <3>1. UNCHANGED transfer
      BY <2>4 DEF WorkRequest, WorkerKeeps
    <3>2. Sound(d, transfer, vol, q) /\ Keeps(terminal, q, toECU)
      BY <1>1, <1>2, <1>3, <2>4, RequestSound
    <3> QED BY <1>1, <1>3, <2>1, <3>1, <3>2
  <2>5. CASE WorkQueue
    <3>1. UNCHANGED <<transfer, client>> /\ ProcessCommandQueue(cmd.awaiting)
      BY <2>5 DEF WorkQueue
    <3>2. q = toVT \/ \E x \in ToTerminal : x.fn = "ChangeNumericValue" /\ q = toVT \o <<x>>
      BY <1>1, <3>1, QueueSends
    <3> QED BY <1>1, <1>4, <1>6, <2>1, <3>1, <3>2
  <2> QED BY <1>8, <2>2, <2>3, <2>4, <2>5 DEF Worker
<1>9. CASE Maintain
  <2>1. Msg("Maintenance") \in ToTerminal /\ Msg("Maintenance").fn = "Maintenance"
    BY DEF Msg, ToTerminal
  <2>2. q = toVT \o <<Msg("Maintenance")>> /\ UNCHANGED <<client, transfer, terminal, toECU>>
    BY <1>1, <1>9 DEF Maintain, WorkMaintain, WorkerKeeps, ToVT
  <2> QED BY <1>6, <2>1, <2>2
<1>10. CASE Calling
  <2>1. UNCHANGED <<client, transfer, terminal, toECU>>
    BY <1>10 DEF Calling, CallCheck, CallSend, CallMark, CallPush
  <2>2. CASE CallSend
    <3>1. Command(cmd.call) \in ToTerminal /\ Command(cmd.call).fn = "ChangeNumericValue"
      <4>1. Command(cmd.call) \in Change
        BY <2>2, InCall DEF CallSend
      <4> QED BY <4>1 DEF ToTerminal, Change
    <3>2. q = toVT \/ q = toVT \o <<Command(cmd.call)>>
      BY <1>1, <2>2 DEF CallSend, ToVT
    <3> QED BY <1>6, <2>1, <3>1, <3>2
  <2>3. CASE CallCheck \/ CallMark \/ CallPush
    <3>1. UNCHANGED toVT
      BY <2>3 DEF CallCheck, CallMark, CallPush
    <3> QED BY <1>4, <2>1, <3>1
  <2> QED BY <1>10, <2>2, <2>3 DEF Calling
<1>11. CASE Serving
  <2>1. UNCHANGED <<client, transfer>>
    BY <1>11 DEF Serving, Serve, Undelivered, CheckIfSourceIsManaged, ServeObjectPoolTransfer, ServeGetMemory,
         ServeCapabilities, ServeGetVersions, ServeLoadVersion, ServeStoreVersion, ServeDeleteVersion,
         ServeEndOfObjectPool, ServeMaintenance, ServeChangeNumericValue, ServeDeleteObjectPool, Arrived
  <2>2. CASE UNCHANGED vars
    BY <1>4, <2>2 DEF vars
  <2>3. CASE ~UNCHANGED vars
    <3>1. Sound(client, transfer, n.vol, q) /\ Keeps(n, q, f)
      BY <1>1, <1>3, <1>5, <1>11, <2>3, ServingSound
    <3> QED BY <1>1, <2>1, <3>1
  <2> QED BY <2>2, <2>3
<1>12. CASE Updating \/ Parsing \/ Operator \/ PoweredOn
  <2>1. UNCHANGED <<client, transfer, toVT>>
    BY <1>12 DEF Updating, ServerUpdate, Parsing, ParseEnds, Operator, OperatorChanges, PoweredOn, PowerOn
  <2>2. Sound(client, transfer, n.vol, toVT) /\ Keeps(n, toVT, f)
    BY <1>1, <1>3, <1>12, TerminalSound
  <2> QED BY <1>1, <2>1, <2>2
<1>13. CASE Lose
  <2>1. Sound(client, u, n.vol, q) /\ Keeps(n, q, f)
    BY <1>1, <1>3, <1>13, LoseSound
  <2> QED BY <1>1, <1>13, <2>1 DEF Lose
<1>14. CASE CommandExpires \/ Asks \/ UNCHANGED vars
  BY <1>4, <1>14 DEF CommandExpires, CommandTimesOut, Asks, Call, vars
<1>15. CASE Restarting
  <2>1. CASE Terminate
    <3>1. Sound(d, transfer, vol, q) /\ Keeps(terminal, q, toECU)
      BY <1>1, <1>3, <2>1, TerminateSound
    <3> QED BY <1>1, <1>3, <1>15, <2>1, <3>1 DEF Restarting, Terminate, Initialize
  <2>2. CASE Initialize
    BY <1>7, <1>15, <2>2 DEF Restarting, Terminate, Initialize
  <2> QED BY <1>15, <2>1, <2>2 DEF Restarting
<1>16. CASE StatusGrowsOld \/ Status
  BY <1>7, <1>16 DEF StatusGrowsOld, Status, ReceiveStatus
<1>17. CASE Reading
  <2>1. UNCHANGED <<transfer, terminal>>
    BY <1>17 DEF Reading, Receive, ReceiveAcknowledge, ReceiveGetMemory, ReceiveGetNumberOfSoftKeys,
         ReceiveGetTextFontData, ReceiveGetHardware, ReceiveGetVersionsResponse, ReceiveLoadVersion,
         ReceiveStoreVersion, ReceiveEndOfObjectPool, ReceiveCommandResponse, ReceiveChangeNumericValue,
         ReceiveDeleteVersion, Answered, Reads
  <2>2. Sound(d, transfer, vol, q) /\ Keeps(terminal, q, f)
    BY <1>1, <1>2, <1>3, <1>17, ReadingSound
  <2> QED BY <1>1, <1>3, <2>1, <2>2
<1>18. CASE Transfer
  <2>1. FetchChunk \/ TransferSucceeds \/ TransferFails
    BY <1>18 DEF Transfer
  <2>2. UNCHANGED <<terminal, toECU>>
    BY <1>18 DEF Transfer, FetchChunk, TransferSucceeds, TransferFails
  <2>3. Sound(d, u, vol, q) /\ Keeps(terminal, q, toECU)
    BY <1>1, <1>3, <2>1, TransferSound
  <2> QED BY <1>1, <1>3, <2>2, <2>3
<1> QED
  BY <1>8, <1>9, <1>10, <1>11, <1>12, <1>13, <1>14, <1>15, <1>16, <1>17, <1>18 DEF Next

LEMMA PoolInit ==
  ASSUME Init
  PROVE  PoolInv
<1>1. PICK c, t, m, q, e : c = client /\ t = transfer /\ m = terminal /\ q = toVT /\ e = toECU
  OBVIOUS
<1>2. /\ q = <<>> /\ e = <<>> /\ t = NoTransfer
      /\ c.state = "Disconnected" /\ c.upload = "Uninitialized" /\ c.heard = "none" /\ c.work = "idle"
      /\ \A i \in Pool : ~c.uploaded[i]
  BY <1>1 DEF Init, ClientInit
<1>3. m.vol = Volatile /\ (m.own = NoPools \/ m.own = AllPools)
  BY <1>1 DEF Init, ServerInit
<1>4. m.vol.managed = FALSE /\ m.vol.parse = "None" /\ m.vol.loaded = FALSE
  BY <1>3 DEF Volatile
<1>5. (\A fn : ~Has(q, fn)) /\ DOMAIN q = {} /\ DOMAIN e = {}
  BY <1>2 DEF Has
<1>6. Line(c, q)
  BY <1>2, <1>5 DEF Line
<1>7. Uploads(c, t, m.vol, q)
  BY <1>2 DEF Uploads
<1>8. Promises(c, m.vol, q)
  BY <1>2, <1>5 DEF Promises, Ending, Ended
<1>9. Keeps(m, q, e)
  BY <1>3, <1>4, <1>5 DEF Keeps
<1> QED BY <1>1, <1>6, <1>7, <1>8, <1>9 DEF PoolInv, Sound

LEMMA PoolHas ==
  ASSUME PoolInv
  PROVE  ConnectedHasPool
<1> SUFFICES ASSUME client.state = "Connected", vol.managed, ~client.stale
             PROVE  vol.tree /\ Range(AllPools) \subseteq Range(vol.pools)
  BY DEF ConnectedHasPool
<1>1. Done(vol, toVT)
  BY DEF PoolInv, Sound, Promises, Ended, vol
<1> QED BY <1>1 DEF Done, Alive, Present

(* A client that shows itself as connected to a terminal that manages it has all
   its pools there, parsed, in every session and whatever is lost, refused, late
   or off in between: the states of update(), the outcome of each upload, the
   answers and the terminal's parsing thread agree about what was sent.  In steps
   that are undisturbed, and with pools that are given by pointer *)
THEOREM ConnectedPools ==
  ASSUME ByVector = {}
  PROVE  Spec /\ [][Undisturbed]_vars => []ConnectedHasPool
<1>1. Init => PoolInv /\ VolInv
  <2>1. Init => VolInv
    BY DEF Init, ServerInit, VolInv, vol, Volatile
  <2> QED BY <2>1, PoolInit
<1>2. Typed /\ PoolInv /\ VolInv /\ [Next]_vars /\ [Undisturbed]_vars => (PoolInv /\ VolInv)'
  BY PoolStep, VolStep
<1>3. PoolInv => ConnectedHasPool
  BY PoolHas
<1> QED BY <1>1, <1>2, <1>3, AlwaysTyped, PTL DEF Spec
=============================================================================
