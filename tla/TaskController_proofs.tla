----------------------- MODULE TaskController_proofs -----------------------
(***************************************************************************)
(* What holds of a client and its task controller for every number of      *)
(* pools, commands, faults and reuploads: the types; how a connection      *)
(* starts (BaseInv); what it takes that the task controller looks for an   *)
(* ActiveClient that is not there (NoNullClient); and which pool a         *)
(* connected client runs (CurrentPoolActive).                              *)
(***************************************************************************)
EXTENDS TaskController, TLAPS

\* What the messages to the task controller and to the client carry
ToTC ==
  [fn : {"WorkingSetMaster", "ClientTask", "RequestVersion", "ParameterVersion",
         "RequestStructureLabel", "RequestLocalizationLabel", "Delete", "RequestTransfer",
         "Activate", "Deactivate"}, x : {0}]
  \cup [fn : {"ObjectPoolTransfer"}, x : Pool]
  \cup [fn : {"Value"}, x : Command \cup {0}]
  \cup [fn : {"Acknowledge"}, x : Command]

ToClient ==
  [fn : {"ParameterVersion", "RequestVersion", "StructureLabel", "LocalizationLabel",
         "DeleteResponse", "RequestTransferResponse", "TransferResponse", "ActivateResponse",
         "Nack"}, x : Nat]
  \cup [fn : {"RequestValue", "SetValueAndAcknowledge", "Measurement"}, x : Command]

\* TypeOK without the history variable, and the types of the messages
Typed ==
  /\ config \in Config /\ faults \in 0 .. MaxFaults /\ transfer \in Pool \cup {0}
  /\ client \in [state : State, work : State \cup {"idle"}, heard : {"recent", "stale"},
                 status : BOOLEAN, reupload : BOOLEAN, pool : Pool, binary : Pool \cup {0},
                 label : Pool \cup {0}, alive : BOOLEAN]
  /\ cmd \in [requests : Seq(Command), values : Seq(Command), measures : BOOLEAN,
              lost : SUBSET Command]
  /\ server \in [up : BOOLEAN, known : BOOLEAN, active : BOOLEAN, stored : Pool \cup {0},
                 waiting : SUBSET Command]
  /\ toTC \in Seq(ToTC) /\ toECU \in Seq(ToClient)
  /\ left \in [commands : SUBSET Command, reuploads : Nat]

-----------------------------------------------------------------------------
(* Types *)

ClientType ==
  [state : State, work : State \cup {"idle"}, heard : {"recent", "stale"},
   status : BOOLEAN, reupload : BOOLEAN, pool : Pool, binary : Pool \cup {0},
   label : Pool \cup {0}, alive : BOOLEAN]
CmdType ==
  [requests : Seq(Command), values : Seq(Command), measures : BOOLEAN, lost : SUBSET Command]
ServerType ==
  [up : BOOLEAN, known : BOOLEAN, active : BOOLEAN, stored : Pool \cup {0},
   waiting : SUBSET Command]
LeftType == [commands : SUBSET Command, reuploads : Nat]

LEMMA Parts ==
  Typed <=> /\ config \in Config /\ faults \in 0 .. MaxFaults /\ transfer \in Pool \cup {0}
            /\ client \in ClientType /\ cmd \in CmdType /\ server \in ServerType
            /\ toTC \in Seq(ToTC) /\ toECU \in Seq(ToClient) /\ left \in LeftType
BY DEF Typed, TypeOK, ClientType, CmdType, ServerType, LeftType

LEMMA PartsPrime ==
  Typed' <=> /\ config' \in Config /\ faults' \in 0 .. MaxFaults /\ transfer' \in Pool \cup {0}
             /\ client' \in ClientType /\ cmd' \in CmdType /\ server' \in ServerType
             /\ toTC' \in Seq(ToTC) /\ toECU' \in Seq(ToClient) /\ left' \in LeftType
BY DEF Typed, TypeOK, ClientType, CmdType, ServerType, LeftType

PlainToTC ==
  {"WorkingSetMaster", "ClientTask", "RequestVersion", "ParameterVersion",
   "RequestStructureLabel", "RequestLocalizationLabel", "Delete", "RequestTransfer",
   "Activate", "Deactivate"}

LEMMA SendStates ==
  /\ SendState = {"SendWorkingSetMaster", "SendStatusMessage", "RequestVersion",
                  "SendRequestVersionResponse", "RequestStructureLabel",
                  "RequestLocalizationLabel", "SendDeleteObjectPool",
                  "SendRequestTransferObjectPool", "SendObjectPoolActivate",
                  "DeactivateObjectPool"}
  /\ \A s \in SendState : Request[s].fn \in PlainToTC /\ Request[s].next \in State
BY DEF SendState, Request, PlainToTC, State, WaitState

LEMMA RequestTable ==
  ASSUME NEW s \in SendState
  PROVE
    /\ s = "SendWorkingSetMaster" => Request[s].fn = "WorkingSetMaster" /\ Request[s].next = "SendStatusMessage"
    /\ s = "SendStatusMessage" => Request[s].fn = "ClientTask" /\ Request[s].next = "RequestVersion"
    /\ s = "RequestVersion" => Request[s].fn = "RequestVersion" /\ Request[s].next = "WaitForRequestVersionResponse"
    /\ s = "SendRequestVersionResponse" => Request[s].fn = "ParameterVersion" /\ Request[s].next = "RequestLanguage"
    /\ s = "RequestStructureLabel" => Request[s].fn = "RequestStructureLabel" /\ Request[s].next = "WaitForStructureLabelResponse"
    /\ s = "RequestLocalizationLabel" => Request[s].fn = "RequestLocalizationLabel" /\ Request[s].next = "WaitForLocalizationLabelResponse"
    /\ s = "SendDeleteObjectPool" => Request[s].fn = "Delete" /\ Request[s].next = "WaitForDeleteObjectPoolResponse"
    /\ s = "SendRequestTransferObjectPool" => Request[s].fn = "RequestTransfer" /\ Request[s].next = "WaitForRequestTransferObjectPoolResponse"
    /\ s = "SendObjectPoolActivate" => Request[s].fn = "Activate" /\ Request[s].next = "WaitForObjectPoolActivateResponse"
    /\ s = "DeactivateObjectPool" => Request[s].fn = "Deactivate" /\ Request[s].next = "WaitForObjectPoolDeactivateResponse"
BY DEF Request, SendState

LEMMA SetStateType ==
  ASSUME NEW c \in ClientType, NEW s \in State
  PROVE  SetState(c, s) \in ClientType
BY DEF SetState, ClientType

LEMMA SetWorkType ==
  ASSUME NEW c \in ClientType, NEW s \in State
  PROVE  [c EXCEPT !.work = s] \in ClientType
BY DEF ClientType

LEMMA ClearedType ==
  ASSUME cmd \in CmdType
  PROVE  Cleared \in CmdType
BY DEF Cleared, CmdType, Range

LEMMA BecomesType ==
  ASSUME Typed, NEW c \in ClientType, Becomes(c)
  PROVE  client' \in ClientType /\ cmd' \in CmdType
<1>1. cmd \in CmdType
  BY Parts
<1>2. Cleared \in CmdType
  BY <1>1, ClearedType
<1> QED BY <1>1, <1>2 DEF Becomes

LEMMA FaultType ==
  ASSUME Typed, Fault
  PROVE  faults' \in 0 .. MaxFaults
BY PoolAssumption DEF Fault, Typed, TypeOK

\* A message is sent
LEMMA SendType ==
  ASSUME Typed, NEW m \in ToTC
  PROVE  Append(toTC, m) \in Seq(ToTC)
BY DEF Typed

LEMMA ReadType ==
  ASSUME Typed, toECU # <<>>
  PROVE  Tail(toECU) \in Seq(ToClient) /\ Head(toECU) \in ToClient
BY DEF Typed

LEMMA ServeType ==
  ASSUME Typed, toTC # <<>>
  PROVE  Tail(toTC) \in Seq(ToTC) /\ Head(toTC) \in ToTC
BY DEF Typed

LEMMA AnswerType ==
  ASSUME Typed, NEW m \in ToClient, NEW n \in ToClient
  PROVE  toECU \o <<m>> \in Seq(ToClient) /\ toECU \o <<m, n>> \in Seq(ToClient)
BY DEF Typed

-----------------------------------------------------------------------------
(* Every step keeps the types *)

LEMMA StateMembers ==
  /\ WaitState \subseteq State /\ SendState \subseteq State
  /\ {"Disconnected", "WaitForStartUpDelay", "WaitForServerStatusMessage",
      "WaitForRequestVersionFromServer", "RequestLanguage", "WaitForLanguageResponse",
      "ProcessDDOP", "BeginTransferDDOP", "WaitForDDOPTransfer", "Connected"} \subseteq State
BY DEF State

LEMMA WorkerType ==
  ASSUME Typed, Worker \/ Refused \/ Measure
  PROVE  Typed'
<1> USE SendStates, StateMembers, PartsPrime
<1>0. /\ config \in Config /\ faults \in 0 .. MaxFaults /\ transfer \in Pool \cup {0}
      /\ client \in ClientType /\ cmd \in CmdType /\ server \in ServerType
      /\ toTC \in Seq(ToTC) /\ toECU \in Seq(ToClient) /\ left \in LeftType
  BY Parts
<1>1. UNCHANGED <<config, toECU, server, left>>
  BY DEF Worker, Refused, Measure, Quiet, WorkDisconnected, WorkStartUpDelay, WorkRequest, WorkSets,
         WorkLanguage, WorkProcessDDOP, WorkBeginTransfer, WorkRefused, WorkTimesOut, WorkNotAsked,
         WorkConnected, WorkRequestQueue, WorkValueQueue, WorkMeasure
<1>2. CASE WorkDisconnected \/ WorkStartUpDelay \/ WorkLanguage \/ (Due /\ WorkNotAsked)
  <2>1. client' \in ClientType /\ UNCHANGED <<cmd, toTC, transfer>>
    BY <1>0, <1>2 DEF WorkDisconnected, WorkStartUpDelay, WorkLanguage, WorkNotAsked, Quiet,
                      SetState, ClientType
  <2>2. faults' \in 0 .. MaxFaults
    BY <1>0, <1>2, FaultType DEF WorkDisconnected, WorkStartUpDelay, WorkLanguage, Due
  <2> QED BY <1>0, <1>1, <2>1, <2>2
<1>3. CASE WorkRequest
  <2>1. Msg(Request[client.state].fn, 0) \in ToTC
    BY <1>3 DEF WorkRequest, Msg, ToTC, PlainToTC
  <2>2. toTC' \in Seq(ToTC) /\ UNCHANGED transfer
    BY <1>3, <2>1, SendType DEF WorkRequest, Quiet
  <2>3. faults' \in 0 .. MaxFaults
    BY <1>0, <1>3, FaultType DEF WorkRequest
  <2>4. PICK c \in ClientType : Becomes(c)
    <3>1. client.state \in SendState /\ Request[client.state].next \in State
      BY <1>3 DEF WorkRequest
    <3> DEFINE c == [client EXCEPT !.status = @ \/ client.state = "SendStatusMessage"]
    <3>2. c \in ClientType
      BY <1>0 DEF ClientType
    <3>3. Becomes(SetState(c, Request[client.state].next))
            \/ Becomes([c EXCEPT !.work = Request[client.state].next])
      BY <1>3 DEF WorkRequest
    <3> HIDE DEF c
    <3> QED BY <3>1, <3>2, <3>3, SetStateType, SetWorkType
  <2> QED BY <1>0, <1>1, <2>2, <2>3, <2>4, BecomesType
<1>4. CASE WorkSets
  <2>1. [SetState(client, client.work) EXCEPT !.work = "idle"] \in ClientType
    BY <1>0, <1>4 DEF WorkSets, SetState, ClientType
  <2> QED BY <1>0, <1>1, <1>4, <2>1, BecomesType DEF WorkSets, Quiet
<1>5. CASE WorkProcessDDOP
  <2>1. client' \in ClientType
    BY <1>0, <1>5 DEF WorkProcessDDOP, SetState, ClientType
  <2> QED BY <1>0, <1>1, <1>5, <2>1 DEF WorkProcessDDOP, Quiet
<1>6. CASE WorkBeginTransfer
  <2>1. transfer' \in Pool \cup {0}
    BY <1>0, <1>6 DEF WorkBeginTransfer, Data, ClientType
  <2>2. faults' \in 0 .. MaxFaults /\ UNCHANGED toTC
    BY <1>0, <1>6, FaultType DEF WorkBeginTransfer
  <2>3. SetState(client, "WaitForDDOPTransfer") \in ClientType
        /\ [client EXCEPT !.work = "WaitForDDOPTransfer"] \in ClientType
    BY <1>0 DEF SetState, ClientType
  <2>4. client' \in ClientType /\ cmd' \in CmdType
    BY <1>6, <2>3, BecomesType DEF WorkBeginTransfer
  <2> QED BY <1>0, <1>1, <2>1, <2>2, <2>4
<1>7. CASE WorkConnected
  <2>1. SetState(client, "Disconnected") \in ClientType
        /\ [client EXCEPT !.work = "Disconnected"] \in ClientType
    BY <1>0 DEF SetState, ClientType
  <2>2. client' \in ClientType /\ cmd' \in CmdType
    BY <1>7, <2>1, BecomesType DEF WorkConnected
  <2> QED BY <1>0, <1>1, <1>7, <2>2, FaultType DEF WorkConnected, Quiet
<1>8. CASE WorkRequestQueue
  <2>1. cmd.requests # <<>> /\ Head(cmd.requests) \in Command /\ Tail(cmd.requests) \in Seq(Command)
    BY <1>0, <1>8 DEF WorkRequestQueue, CmdType
  <2>2. cmd' \in CmdType
    <3>1. [cmd EXCEPT !.requests = Tail(@)] \in CmdType
      BY <1>0, <2>1 DEF CmdType
    <3>2. [[cmd EXCEPT !.requests = Tail(@)] EXCEPT !.lost = @ \cup {Head(cmd.requests)}] \in CmdType
      BY <2>1, <3>1 DEF CmdType
    <3> QED BY <1>8, <3>1, <3>2 DEF WorkRequestQueue
  <2>3. toTC' \in Seq(ToTC)
    <3>1. Msg("Value", Head(cmd.requests)) \in ToTC
      BY <2>1 DEF Msg, ToTC
    <3> QED BY <1>0, <1>8, <3>1, SendType DEF WorkRequestQueue
  <2> QED BY <1>0, <1>1, <1>8, <2>2, <2>3, FaultType DEF WorkRequestQueue, Quiet
<1>9. CASE WorkValueQueue
  <2>1. cmd.values # <<>> /\ Head(cmd.values) \in Command /\ Tail(cmd.values) \in Seq(Command)
    BY <1>0, <1>9 DEF WorkValueQueue, CmdType
  <2>2. cmd' \in CmdType
    <3>1. [cmd EXCEPT !.values = Tail(@)] \in CmdType
      BY <1>0, <2>1 DEF CmdType
    <3>2. [[cmd EXCEPT !.values = Tail(@)] EXCEPT !.lost = @ \cup {Head(cmd.values)}] \in CmdType
      BY <2>1, <3>1 DEF CmdType
    <3> QED BY <1>9, <3>1, <3>2 DEF WorkValueQueue
  <2>3. toTC' \in Seq(ToTC)
    <3>1. Msg("Acknowledge", Head(cmd.values)) \in ToTC
      BY <2>1 DEF Msg, ToTC
    <3> QED BY <1>0, <1>9, <3>1, SendType DEF WorkValueQueue
  <2> QED BY <1>0, <1>1, <1>9, <2>2, <2>3, FaultType DEF WorkValueQueue, Quiet
<1>10. CASE Due /\ WorkTimesOut
  <2>1. /\ SetState(client, "Disconnected") \in ClientType
        /\ Terminated(SetState(client, "Disconnected")) \in ClientType
        /\ [SetState(client, "ProcessDDOP") EXCEPT !.reupload = FALSE] \in ClientType
    BY <1>0 DEF SetState, Terminated, ClientType
  <2>2. client' \in ClientType /\ cmd' \in CmdType
    BY <1>10, <2>1, BecomesType DEF WorkTimesOut
  <2> QED BY <1>0, <1>1, <1>10, <2>2, FaultType DEF WorkTimesOut, Quiet, Due
<1>11. CASE WorkRefused
  <2>1. /\ SetState(client, "Disconnected") \in ClientType
        /\ Terminated(SetState(client, "Disconnected")) \in ClientType
    BY <1>0 DEF SetState, Terminated, ClientType
  <2>2. client' \in ClientType /\ cmd' \in CmdType
    BY <1>11, <2>1, BecomesType DEF WorkRefused
  <2>3. faults' \in 0 .. MaxFaults
    BY <1>0, <1>11, FaultType DEF WorkRefused
  <2> QED BY <1>0, <1>1, <1>11, <2>2, <2>3 DEF WorkRefused, Quiet
<1>12. CASE WorkMeasure
  <2>1. Msg("Value", 0) \in ToTC
    BY DEF Msg, ToTC
  <2> QED BY <1>0, <1>1, <1>12, <2>1, SendType DEF WorkMeasure, Quiet
<1> QED BY <1>2, <1>3, <1>4, <1>5, <1>6, <1>7, <1>8, <1>9, <1>10, <1>11, <1>12
        DEF Worker, Refused, Measure

LEMMA ReadingType ==
  ASSUME Typed, Reading
  PROVE  Typed'
<1>0. /\ config \in Config /\ faults \in 0 .. MaxFaults /\ transfer \in Pool \cup {0}
      /\ client \in ClientType /\ cmd \in CmdType /\ server \in ServerType
      /\ toTC \in Seq(ToTC) /\ toECU \in Seq(ToClient) /\ left \in LeftType
  BY Parts
<1>1. toECU # <<>> /\ toECU' = Tail(toECU) /\ UNCHANGED <<config, toTC, transfer, faults, server, left, mishap>>
  BY DEF Reading, Receive, ReceiveNack, ReceiveVersion, ReceiveStructureLabel,
         ReceiveLocalizationLabel, ReceiveDeleted, ReceiveMayTransfer, ReceiveTransferred,
         ReceiveActivated, ReceiveDeactivated, ReceiveCommand, ReceiveIgnored, In, Arrives, ReadKeeps
<1>2. toECU' \in Seq(ToClient) /\ Head(toECU) \in ToClient
  BY <1>1, ReadType
<1>3. \A s \in State : SetState(client, s) \in ClientType /\ Terminated(SetState(client, s)) \in ClientType
  BY <1>0 DEF SetState, Terminated, ClientType
<1>4. Terminated(client) \in ClientType
  BY <1>0 DEF Terminated, ClientType
<1>5. CASE ReceiveNack \/ ReceiveActivated
  <2>1. client' \in ClientType /\ cmd' \in CmdType
    BY <1>3, <1>5, BecomesType, StateMembers DEF ReceiveNack, ReceiveActivated
  <2> QED BY <1>0, <1>1, <1>2, <2>1, PartsPrime
<1>6. CASE \/ ReceiveVersion \/ ReceiveStructureLabel \/ ReceiveLocalizationLabel \/ ReceiveDeleted
           \/ ReceiveMayTransfer \/ ReceiveTransferred \/ ReceiveDeactivated
  <2>1. client' \in ClientType /\ UNCHANGED cmd
    BY <1>0, <1>3, <1>4, <1>6, StateMembers, SendStates
       DEF ReceiveVersion, ReceiveStructureLabel, ReceiveLocalizationLabel, ReceiveDeleted,
           ReceiveMayTransfer, ReceiveTransferred, ReceiveDeactivated
  <2> QED BY <1>0, <1>1, <1>2, <2>1, PartsPrime
<1>7. CASE ReceiveCommand \/ ReceiveIgnored
  <2>1. Head(toECU).fn \in {"RequestValue", "SetValueAndAcknowledge"} => Answer \in Command
    BY <1>2 DEF ToClient, Answer
  <2>2. CASE ReceiveCommand
    <3>1. cmd.requests \in Seq(Command) /\ cmd.values \in Seq(Command)
      BY <1>0 DEF CmdType
    <3>2. Head(toECU).fn \in {"RequestValue", "SetValueAndAcknowledge"} =>
            Append(cmd.requests, Answer) \in Seq(Command) /\ Append(cmd.values, Answer) \in Seq(Command)
      BY <2>1, <3>1
    <3>3. cmd' \in CmdType /\ UNCHANGED client
      BY <1>0, <2>2, <3>2 DEF ReceiveCommand, CmdType
    <3> QED BY <1>0, <1>1, <1>2, <3>3, PartsPrime
  <2>3. CASE ReceiveIgnored
    BY <1>0, <1>1, <1>2, <2>1, <2>3, PartsPrime DEF ReceiveIgnored, CmdType
  <2> QED BY <1>7, <2>2, <2>3
<1> QED BY <1>5, <1>6, <1>7 DEF Reading, Receive

\* What the task controller answers: nothing, one message or two
LEMMA ServingParts ==
  ASSUME Typed, Serve
  PROVE  /\ server.up /\ toTC # <<>> /\ toTC' = Tail(toTC) /\ UNCHANGED <<config, transfer>>
         /\ \/ toECU' = toECU
            \/ \E m \in ToClient : toECU' = toECU \o <<m>>
            \/ \E m, n \in ToClient : toECU' = toECU \o <<m, n>>
         /\ server' \in ServerType
         /\ faults' \in 0 .. MaxFaults
<1>0. faults \in 0 .. MaxFaults /\ server \in ServerType /\ (Head(toTC) \in ToTC \/ toTC = <<>>)
  BY Parts, ServeType
<1>1. server.up /\ toTC # <<>> /\ toTC' = Tail(toTC) /\ UNCHANGED <<config, transfer>>
  BY DEF Serve, ServeWorkingSetMaster, ServeClientTask, ServeRequestVersion, ServeParameterVersion,
         ServeStranger, ServeLabels, ServeRequestTransfer, ServeObjectPoolTransfer, ServeActivate,
         ServeDeactivate, ServeDelete, ServeValue, Arrived
<1>2. faults' \in 0 .. MaxFaults
  BY <1>0, <1>1, FaultType, Parts
     DEF Serve, ServeWorkingSetMaster, ServeClientTask, ServeRequestVersion, ServeParameterVersion,
         ServeStranger, ServeLabels, ServeRequestTransfer, ServeObjectPoolTransfer, ServeActivate,
         ServeDeactivate, ServeDelete, ServeValue
<1>3. Head(toTC) \in ToTC /\ server \in ServerType
  BY <1>1, ServeType, Parts
<1>4. server' \in ServerType
  <2>1. CASE ServeObjectPoolTransfer
    BY <1>3, <2>1 DEF ServeObjectPoolTransfer, Arrived, ToTC, ServerType
  <2>2. CASE ServeValue \/ ServeParameterVersion \/ ServeWorkingSetMaster
    BY <1>3, <2>2 DEF ServeValue, ServeParameterVersion, ServeWorkingSetMaster, Down, Forgotten, ServerType
  <2>3. CASE \/ ServeClientTask \/ ServeRequestVersion \/ ServeStranger \/ ServeLabels
             \/ ServeRequestTransfer
    BY <1>3, <2>3 DEF ServeClientTask, ServeRequestVersion, ServeStranger, ServeLabels, ServeRequestTransfer
  <2>4. CASE ServeActivate \/ ServeDeactivate \/ ServeDelete
    BY <1>3, <2>4 DEF ServeActivate, ServeDeactivate, ServeDelete, ServerType
  <2> QED BY <2>1, <2>2, <2>3, <2>4 DEF Serve
<1>5. Reports({"structure", "both"}, Structure) \in Nat /\ Reports({"both"}, Localization) \in Nat
  BY <1>3, PoolAssumption DEF Reports, ServerType
<1>6. \A x \in Nat : \A fn \in {"ParameterVersion", "RequestVersion", "StructureLabel",
           "LocalizationLabel", "DeleteResponse", "RequestTransferResponse", "TransferResponse",
           "ActivateResponse", "Nack"} : Msg(fn, x) \in ToClient
  BY DEF Msg, ToClient
<1>7. \/ toECU' = toECU
      \/ \E m \in ToClient : toECU' = toECU \o <<m>>
      \/ \E m, n \in ToClient : toECU' = toECU \o <<m, n>>
  <2>1. CASE ServeWorkingSetMaster \/ ServeClientTask \/ ServeParameterVersion \/ ServeValue
    BY <2>1 DEF ServeWorkingSetMaster, ServeClientTask, ServeParameterVersion, ServeValue
  <2>2. CASE ServeRequestVersion
    BY <1>6, <2>2 DEF ServeRequestVersion, ToECU
  <2>3. CASE \/ ServeStranger \/ ServeLabels \/ ServeRequestTransfer \/ ServeObjectPoolTransfer
             \/ ServeActivate \/ ServeDeactivate \/ ServeDelete
    BY <1>5, <1>6, <2>3 DEF ServeStranger, ServeLabels, ServeRequestTransfer,
       ServeObjectPoolTransfer, ServeActivate, ServeDeactivate, ServeDelete, ToECU
  <2> QED BY <2>1, <2>2, <2>3 DEF Serve
<1> QED BY <1>1, <1>2, <1>4, <1>7

LEMMA ServingType ==
  ASSUME Typed, Serving
  PROVE  Typed'
<1>0. /\ config \in Config /\ faults \in 0 .. MaxFaults /\ transfer \in Pool \cup {0}
      /\ client \in ClientType /\ cmd \in CmdType /\ server \in ServerType
      /\ toTC \in Seq(ToTC) /\ toECU \in Seq(ToClient) /\ left \in LeftType
  BY Parts
<1>1. CASE Serve
  <2>1. toTC' \in Seq(ToTC) /\ toECU' \in Seq(ToClient)
    BY <1>0, <1>1, ServingParts, ServeType, AnswerType
  <2> QED BY <1>0, <1>1, <2>1, ServingParts, PartsPrime DEF Serving
<1>2. CASE Undelivered
  BY <1>0, <1>2, PartsPrime DEF Serving, Undelivered
<1> QED BY <1>1, <1>2 DEF Serving

\* A command of the task controller
LEMMA CommandingType ==
  ASSUME Typed, Commanding
  PROVE  Typed'
<1>0. /\ config \in Config /\ faults \in 0 .. MaxFaults /\ transfer \in Pool \cup {0}
      /\ client \in ClientType /\ cmd \in CmdType /\ server \in ServerType
      /\ toTC \in Seq(ToTC) /\ toECU \in Seq(ToClient) /\ left \in LeftType
  BY Parts
<1>1. PICK c \in left.commands, fn \in Commands \ {"Nack"} :
        SendCommand(fn, c) /\ left' = [left EXCEPT !.commands = @ \ {c}]
  BY DEF Commanding
<1>2. c \in Command /\ fn \in {"RequestValue", "SetValueAndAcknowledge", "Measurement"}
  BY <1>0 DEF LeftType, Commands
<1>3. Msg(fn, c) \in ToClient
  BY <1>2 DEF Msg, ToClient
<1>4. toECU' \in Seq(ToClient)
  BY <1>1, <1>3, AnswerType DEF SendCommand, ToECU
<1>5. server' \in ServerType /\ left' \in LeftType
  BY <1>0, <1>1, <1>2 DEF SendCommand, ServerType, LeftType
<1> QED BY <1>0, <1>1, <1>4, <1>5, PartsPrime DEF Commanding, SendCommand

LEMMA LoseType ==
  ASSUME Typed, Lose
  PROVE  Typed'
<1>0. /\ config \in Config /\ faults \in 0 .. MaxFaults /\ transfer \in Pool \cup {0}
      /\ client \in ClientType /\ cmd \in CmdType /\ server \in ServerType
      /\ toTC \in Seq(ToTC) /\ toECU \in Seq(ToClient) /\ left \in LeftType
  BY Parts
<1>1. faults' \in 0 .. MaxFaults /\ UNCHANGED <<client, left>>
  BY FaultType DEF Lose
<1>2. CASE toTC # <<>> /\ toTC' = Tail(toTC) /\ UNCHANGED <<config, toECU, transfer, server>>
           /\ cmd' = [cmd EXCEPT !.lost = @ \cup ({Head(toTC).x} \cap Command)]
  <2>1. cmd' \in CmdType
    BY <1>0, <1>2 DEF CmdType
  <2> QED BY <1>0, <1>1, <1>2, <2>1, ServeType, PartsPrime
<1>3. CASE toECU # <<>> /\ toECU' = Tail(toECU) /\ UNCHANGED <<config, toTC, transfer, server>>
           /\ cmd' = IF Head(toECU).fn \in {"RequestValue", "SetValueAndAcknowledge"}
                     THEN [cmd EXCEPT !.lost = @ \cup {Head(toECU).x}] ELSE cmd
  <2>1. Head(toECU).fn \in {"RequestValue", "SetValueAndAcknowledge"} => Head(toECU).x \in Command
    BY <1>3, ReadType DEF ToClient
  <2>2. cmd' \in CmdType
    BY <1>0, <1>3, <2>1 DEF CmdType
  <2> QED BY <1>0, <1>1, <1>3, <2>2, ReadType, PartsPrime
<1>4. CASE PowerOff /\ UNCHANGED cmd
  <2>1. server' \in ServerType
    BY <1>0, <1>4 DEF PowerOff, Down, Forgotten, ServerType
  <2> QED BY <1>0, <1>1, <1>4, <2>1, PartsPrime DEF PowerOff
<1> QED BY <1>2, <1>3, <1>4 DEF Lose

LEMMA TransferType ==
  ASSUME Typed, Transfer
  PROVE  Typed'
<1>0. /\ config \in Config /\ faults \in 0 .. MaxFaults /\ transfer \in Pool \cup {0}
      /\ client \in ClientType /\ cmd \in CmdType /\ server \in ServerType
      /\ toTC \in Seq(ToTC) /\ toECU \in Seq(ToClient) /\ left \in LeftType
  BY Parts
<1>1. Msg("ObjectPoolTransfer", transfer) \in ToTC
  BY <1>0 DEF Transfer, Msg, ToTC
<1>2. toTC' \in Seq(ToTC)
  BY <1>0, <1>1, SendType DEF Transfer, TransferSucceeds, TransferFails
<1>3. faults' \in 0 .. MaxFaults
  BY <1>0, FaultType DEF Transfer, TransferSucceeds, TransferFails
<1>4. client' \in ClientType /\ cmd' \in CmdType
  <2>1. \A s \in State : SetState(client, s) \in ClientType
    BY <1>0 DEF SetState, ClientType
  <2>2. "WaitForObjectPoolTransferResponse" \in State /\ "Disconnected" \in State
    BY DEF State, WaitState
  <2>3. (\E successful \in BOOLEAN : TransferReported(successful)) => client' \in ClientType /\ cmd' \in CmdType
    BY <1>0, <2>1, <2>2, BecomesType DEF TransferReported
  <2> QED BY <2>3 DEF Transfer, TransferSucceeds, TransferFails
<1> QED BY <1>0, <1>2, <1>3, <1>4, PartsPrime DEF Transfer

LEMMA OtherType ==
  ASSUME Typed,
         \/ Forgetting \/ Status \/ StatusGrowsOld \/ Reuploading \/ Restarting \/ PoweredOn
         \/ UNCHANGED vars
  PROVE  Typed'
<1>0. /\ config \in Config /\ faults \in 0 .. MaxFaults /\ transfer \in Pool \cup {0}
      /\ client \in ClientType /\ cmd \in CmdType /\ server \in ServerType
      /\ toTC \in Seq(ToTC) /\ toECU \in Seq(ToClient) /\ left \in LeftType
  BY Parts
<1>1. CASE Forgetting \/ PoweredOn
  <2>1. server' \in ServerType
    BY <1>0, <1>1 DEF Forgetting, ForgetClient, PoweredOn, PowerOn, Forgotten, ServerType
  <2> QED BY <1>0, <1>1, <2>1, PartsPrime DEF Forgetting, ForgetClient, PoweredOn, PowerOn
<1>2. CASE Status
  <2>1. "SendWorkingSetMaster" \in State
    BY SendStates, StateMembers
  <2>2. client' \in ClientType
    BY <1>0, <1>2, <2>1 DEF Status, ReceiveStatus, ClientType
  <2> QED BY <1>0, <1>2, <2>2, PartsPrime DEF Status, ReceiveStatus
<1>3. CASE StatusGrowsOld
  <2>1. client' \in ClientType
    BY <1>0, <1>3 DEF StatusGrowsOld, ClientType
  <2> QED BY <1>0, <1>3, <2>1, FaultType, PartsPrime DEF StatusGrowsOld
<1>4. CASE Reuploading
  <2>1. "DeactivateObjectPool" \in State
    BY SendStates, StateMembers
  <2>2. client' \in ClientType
    BY <1>0, <1>4, <2>1 DEF Reuploading, Reupload, SetState, ClientType
  <2>3. cmd' \in CmdType
    BY <1>0, <1>4, ClearedType DEF Reuploading, Reupload
  <2>4. left' \in LeftType
    BY <1>0, <1>4 DEF Reuploading, LeftType
  <2> QED BY <1>0, <1>4, <2>2, <2>3, <2>4, PartsPrime DEF Reuploading, Reupload
<1>5. CASE Restarting
  <2>1. SetState(client, "Disconnected") \in ClientType /\ Terminated(client) \in ClientType
        /\ [client EXCEPT !.alive = TRUE] \in ClientType
    BY <1>0, StateMembers DEF SetState, Terminated, ClientType
  <2>2. client' \in ClientType /\ cmd' \in CmdType
    BY <1>0, <1>5, <2>1, BecomesType DEF Restarting, Restart, Terminate, Initialize
  <2>3. faults' \in 0 .. MaxFaults
    BY <1>0, <1>5, FaultType DEF Restarting, Initialize
  <2> QED BY <1>0, <1>5, <2>2, <2>3, PartsPrime DEF Restarting, Restart, Terminate, Initialize
<1>6. CASE UNCHANGED vars
  BY <1>0, <1>6, PartsPrime DEF vars
<1> QED BY <1>1, <1>2, <1>3, <1>4, <1>5, <1>6

LEMMA TypedStep ==
  ASSUME Typed, [Next]_vars
  PROVE  Typed'
BY WorkerType, ReadingType, ServingType, CommandingType, LoseType, TransferType, OtherType DEF Next

LEMMA TypedInit ==
  ASSUME Init
  PROVE  Typed
<1>1. <<>> \in Seq(ToTC) /\ <<>> \in Seq(ToClient) /\ <<>> \in Seq(Command)
  OBVIOUS
<1>2. client \in ClientType /\ cmd \in CmdType
  BY <1>1, StateMembers DEF Init, ClientInit, ClientType, CmdType
<1>3. server \in ServerType /\ left \in LeftType
  BY ConfigAssumption DEF Init, ServerInit, ServerType, LeftType
<1>4. MaxFaults \in 0 .. MaxFaults
  BY PoolAssumption
<1> QED BY <1>1, <1>2, <1>3, <1>4, Parts DEF Init

-----------------------------------------------------------------------------
(* How a connection starts *)

\* The state the worker is in, or is about to set
Phase == IF client.work = "idle" THEN client.state ELSE client.work

Early ==
  {"Disconnected", "WaitForStartUpDelay", "SendWorkingSetMaster", "SendStatusMessage",
   "RequestVersion", "WaitForRequestVersionResponse"}

Settable ==
  {"SendStatusMessage", "RequestVersion", "WaitForRequestVersionResponse", "RequestLanguage",
   "WaitForStructureLabelResponse", "WaitForLocalizationLabelResponse",
   "WaitForDeleteObjectPoolResponse", "WaitForRequestTransferObjectPoolResponse",
   "WaitForObjectPoolActivateResponse", "WaitForObjectPoolDeactivateResponse",
   "WaitForDDOPTransfer", "Disconnected"}

\* What the worker is about to set follows from the state in which it sent, unless
\* the connection was given up in between
WorkInv ==
  client.work # "idle" =>
    /\ client.work \in Settable
    /\ \/ client.state = "Disconnected"
       \/ client.state \in SendState /\ client.work = Request[client.state].next
       \/ client.state = "BeginTransferDDOP" /\ client.work = "WaitForDDOPTransfer"
       \/ client.state \in {"Connected", "DeactivateObjectPool"} /\ client.work = "Disconnected"

\* A connection starts with nothing on its way, and the announcement is the first
\* message of it: until it is served nothing was answered
StartInv ==
  /\ \A i \in DOMAIN toTC : toTC[i].fn = "WorkingSetMaster" => i = 1
  /\ Phase \in {"WaitForServerStatusMessage", "SendWorkingSetMaster"} =>
       toTC = <<>> /\ toECU = <<>> /\ transfer = 0 /\ ~server.known
  /\ toTC # <<>> /\ Head(toTC).fn = "WorkingSetMaster" =>
       /\ toECU = <<>> /\ transfer = 0 /\ ~server.known
       /\ client.state \in Early /\ client.work \in Early \cup {"idle"}

\* What a step of the worker does to its state
WorkerMoves(s, w, t, v) ==
  \/ t = s /\ v = w
  \/ w # "idle" /\ t = w /\ v = "idle"
  \/ w = "idle" /\ s \in SendState /\ ((t = Request[s].next /\ v = w) \/ (t = s /\ v = Request[s].next))
  \/ w = "idle" /\ v = w /\ s # "Disconnected" /\ t = "Disconnected"
  \/ w = "idle" /\ v = w /\ s = "Disconnected" /\ t = "WaitForStartUpDelay"
  \/ w = "idle" /\ v = w /\ s = "WaitForStartUpDelay" /\ t = "WaitForServerStatusMessage" /\ SixSeconds
  \/ w = "idle" /\ v = w /\ s = "WaitForRequestVersionFromServer" /\ t = "RequestLanguage"
  \/ w = "idle" /\ v = w /\ s = "RequestLanguage" /\ t = "WaitForLanguageResponse"
  \/ w = "idle" /\ v = w /\ s = "WaitForLanguageResponse" /\ t = "ProcessDDOP"
  \/ w = "idle" /\ v = w /\ s = "ProcessDDOP" /\ t = "RequestStructureLabel"
  \/ w = "idle" /\ v = w /\ s = "WaitForObjectPoolDeactivateResponse" /\ t = "ProcessDDOP"
  \/ w = "idle" /\ s = "BeginTransferDDOP"
       /\ ((t = "WaitForDDOPTransfer" /\ v = w) \/ (t = s /\ v = "WaitForDDOPTransfer"))
  \/ w = "idle" /\ s = "Connected" /\ t = s /\ v = "Disconnected"

LEMMA WorkerMove ==
  ASSUME Typed, Worker \/ Refused \/ Measure
  PROVE  /\ WorkerMoves(client.state, client.work, client'.state, client'.work)
         /\ UNCHANGED <<config, toECU, server, left, mishap>>
         /\ client' \in ClientType /\ (client'.alive => client.alive)
<1>0. client \in ClientType
  BY Parts
<1>1. client' \in ClientType
  BY WorkerType, PartsPrime
<1>2. UNCHANGED <<config, toECU, server, left, mishap>>
  BY DEF Worker, Refused, Measure, Quiet, WorkDisconnected, WorkStartUpDelay, WorkRequest, WorkSets,
         WorkLanguage, WorkProcessDDOP, WorkBeginTransfer, WorkRefused, WorkTimesOut, WorkNotAsked,
         WorkConnected, WorkRequestQueue, WorkValueQueue, WorkMeasure
<1>9. client'.alive => client.alive
  BY <1>0 DEF Worker, Refused, Measure, Quiet, WorkDisconnected, WorkStartUpDelay, WorkRequest, WorkSets,
         WorkLanguage, WorkProcessDDOP, WorkBeginTransfer, WorkRefused, WorkTimesOut, WorkNotAsked,
         WorkConnected, WorkRequestQueue, WorkValueQueue, WorkMeasure, Becomes, SetState, Terminated, ClientType
<1> SUFFICES WorkerMoves(client.state, client.work, client'.state, client'.work)
  BY <1>1, <1>2, <1>9
<1>3. CASE WorkDisconnected \/ (SixSeconds /\ WorkStartUpDelay) \/ WorkLanguage \/ WorkProcessDDOP \/ WorkNotAsked
  BY <1>0, <1>3 DEF WorkDisconnected, WorkStartUpDelay, WorkLanguage, WorkProcessDDOP, WorkNotAsked,
     Idle, SetState, ClientType, WorkerMoves
<1>4. CASE WorkRequest
  <2>1. client.work = "idle" /\ client.state \in SendState
    BY <1>4 DEF WorkRequest, Idle
  <2>2. \/ client'.state = Request[client.state].next /\ client'.work = "idle"
        \/ client'.state = client.state /\ client'.work = Request[client.state].next
    BY <1>0, <1>4, <2>1 DEF WorkRequest, Becomes, SetState, ClientType
  <2> QED BY <2>1, <2>2 DEF WorkerMoves
<1>5. CASE WorkSets
  BY <1>0, <1>5 DEF WorkSets, Becomes, SetState, ClientType, WorkerMoves
<1>6. CASE WorkBeginTransfer \/ WorkConnected
  BY <1>0, <1>6 DEF WorkBeginTransfer, WorkConnected, Idle, Becomes, SetState, ClientType, WorkerMoves
<1>7. CASE WorkTimesOut \/ WorkRefused
  <2>1. "Disconnected" \notin SendState \cup WaitState
    BY SendStates DEF WaitState
  <2> QED BY <1>0, <1>7, <2>1 DEF WorkTimesOut, WorkRefused, Idle, Becomes, SetState, Terminated, ClientType,
          WorkerMoves
<1>8. CASE WorkRequestQueue \/ WorkValueQueue \/ WorkMeasure
  BY <1>8 DEF WorkRequestQueue, WorkValueQueue, WorkMeasure, WorkerMoves
<1> QED BY <1>3, <1>4, <1>5, <1>6, <1>7, <1>8 DEF Worker, Refused, Measure

LEMMA WorkStep ==
  ASSUME Typed, WorkInv, [Next]_vars
  PROVE  WorkInv'
<1>0. client \in ClientType
  BY Parts
<1>1. CASE Worker \/ Refused \/ Measure
  <2>1. WorkerMoves(client.state, client.work, client'.state, client'.work)
    BY <1>1, WorkerMove
  <2>2. client.state \in SendState => Request[client.state].next \in Settable
    BY SendStates, RequestTable DEF Settable
  <2> QED BY <2>1, <2>2 DEF WorkerMoves, WorkInv, Settable
<1>2. CASE Reading
  BY <1>0, <1>2, SendStates
     DEF Reading, Receive, ReceiveNack, ReceiveVersion, ReceiveStructureLabel,
         ReceiveLocalizationLabel, ReceiveDeleted, ReceiveMayTransfer, ReceiveTransferred,
         ReceiveActivated, ReceiveDeactivated, ReceiveCommand, ReceiveIgnored, In, Becomes,
         SetState, Terminated, ClientType, WorkInv
<1>3. CASE Transfer
  BY <1>0, <1>3, SendStates DEF Transfer, TransferSucceeds, TransferFails, TransferReported, Becomes,
         SetState, ClientType, WorkInv
<1>4. CASE Status \/ StatusGrowsOld \/ Reuploading \/ Restarting
  BY <1>0, <1>4, SendStates DEF Status, ReceiveStatus, StatusGrowsOld, Reuploading, Reupload, Restarting,
         Restart, Terminate, Initialize, Becomes, SetState, Terminated, ClientType, WorkInv
<1>5. CASE Serving \/ Forgetting \/ Commanding \/ Lose \/ PoweredOn \/ UNCHANGED vars
  BY <1>5 DEF Serving, Forgetting, Commanding, Lose, PoweredOn, vars, WorkInv
<1> QED BY <1>1, <1>2, <1>3, <1>4, <1>5 DEF Next

\* The kinds of steps the messages under way can take
LEMMA TailValues ==
  ASSUME NEW S, NEW q \in Seq(S), q # <<>>
  PROVE  /\ DOMAIN Tail(q) = 1 .. Len(q) - 1 /\ DOMAIN q = 1 .. Len(q) /\ Len(q) \in Nat \ {0}
         /\ 1 \in DOMAIN q /\ Head(q) = q[1]
         /\ \A i \in DOMAIN Tail(q) : i + 1 \in DOMAIN q /\ Tail(q)[i] = q[i + 1]
OBVIOUS

LEMMA AppendValues ==
  ASSUME NEW S, NEW q \in Seq(S), NEW m \in S
  PROVE  /\ DOMAIN Append(q, m) = 1 .. Len(q) + 1 /\ DOMAIN q = 1 .. Len(q) /\ Len(q) \in Nat
         /\ Append(q, m)[Len(q) + 1] = m
         /\ \A i \in DOMAIN q : i \in DOMAIN Append(q, m) /\ Append(q, m)[i] = q[i]
         /\ \A i \in DOMAIN Append(q, m) : i \in DOMAIN q \/ i = Len(q) + 1
         /\ q # <<>> => Head(Append(q, m)) = Head(q)
         /\ Append(q, m) # <<>> /\ (q = <<>> => Len(q) = 0)
OBVIOUS

\* The announcement stays in front
LEMMA MasterSent ==
  ASSUME Typed, NEW m \in ToTC, toTC' = Append(toTC, m),
         m.fn = "WorkingSetMaster" => toTC = <<>>,
         \A i \in DOMAIN toTC : toTC[i].fn = "WorkingSetMaster" => i = 1
  PROVE  /\ \A i \in DOMAIN toTC' : toTC'[i].fn = "WorkingSetMaster" => i = 1
         /\ toTC' # <<>> /\ Head(toTC') = IF toTC = <<>> THEN m ELSE Head(toTC)
<1>1. toTC \in Seq(ToTC)
  BY Parts
<1> QED BY <1>1, AppendValues

LEMMA MasterServed ==
  ASSUME Typed, toTC # <<>>, toTC' = Tail(toTC),
         \A i \in DOMAIN toTC : toTC[i].fn = "WorkingSetMaster" => i = 1
  PROVE  /\ \A i \in DOMAIN toTC' : toTC'[i].fn # "WorkingSetMaster"
         /\ toTC' # <<>> => Head(toTC').fn # "WorkingSetMaster"
<1>1. toTC \in Seq(ToTC)
  BY Parts
<1>2. /\ DOMAIN Tail(toTC) = 1 .. Len(toTC) - 1
      /\ \A i \in DOMAIN Tail(toTC) : i + 1 \in DOMAIN toTC /\ Tail(toTC)[i] = toTC[i + 1]
  BY <1>1, TailValues
<1>3. ASSUME NEW i \in DOMAIN toTC', toTC'[i].fn = "WorkingSetMaster" PROVE FALSE
  <2>1. i \in Nat \ {0} /\ i + 1 \in DOMAIN toTC /\ toTC[i + 1].fn = "WorkingSetMaster"
    BY <1>2, <1>3
  <2>2. i + 1 = 1
    BY <2>1
  <2> QED BY <2>1, <2>2
<1>4. toTC' \in Seq(ToTC)
  BY ServeType
<1>5. toTC' # <<>> => 1 \in DOMAIN toTC' /\ Head(toTC') = toTC'[1]
  BY <1>4, TailValues
<1> QED BY <1>3, <1>5

LEMMA HeadFirst ==
  ASSUME Typed, toTC # <<>>
  PROVE  1 \in DOMAIN toTC /\ toTC[1] = Head(toTC)
<1>1. toTC \in Seq(ToTC)
  BY Parts
<1> QED BY <1>1, TailValues

Runs == client.alive \/ ~config.threaded

\* What a step of the worker sends: the request of its state, with the step to the
\* next one, or an answer to a command
WorkerKeeps ==
  /\ toTC' = toTC
  /\ client.state \in SendState /\ client.work = "idle" =>
       client'.state \in {client.state, "Disconnected"} /\ client'.work = "idle"
WorkerRequests ==
  /\ client.state \in SendState /\ client.work = "idle" /\ Runs
  /\ Msg(Request[client.state].fn, 0) \in ToTC
  /\ toTC' = Append(toTC, Msg(Request[client.state].fn, 0)) /\ transfer' = transfer
  /\ \/ client'.state = Request[client.state].next /\ client'.work = "idle"
     \/ client'.state = client.state /\ client'.work = Request[client.state].next
WorkerAnswers ==
  /\ client.state = "Connected" /\ client.work = "idle" /\ UNCHANGED <<client, transfer>>
  /\ \E m \in ToTC : m.fn \in {"Value", "Acknowledge"} /\ toTC' = Append(toTC, m)

LEMMA WorkerTraffic ==
  ASSUME Typed, Worker \/ Refused \/ Measure
  PROVE  WorkerKeeps \/ WorkerRequests \/ WorkerAnswers
<1>0. client \in ClientType /\ cmd \in CmdType
  BY Parts
<1>1. CASE WorkRequest
  <2>1. client.work = "idle" /\ client.state \in SendState /\ Runs
    BY <1>1 DEF WorkRequest, Idle, Runs
  <2>2. Msg(Request[client.state].fn, 0) \in ToTC
    BY <2>1, SendStates DEF Msg, ToTC, PlainToTC
  <2>3. \/ client'.state = Request[client.state].next /\ client'.work = "idle"
        \/ client'.state = client.state /\ client'.work = Request[client.state].next
    BY <1>0, <1>1, <2>1 DEF WorkRequest, Becomes, SetState, ClientType
  <2> QED BY <1>1, <2>1, <2>2, <2>3 DEF WorkRequest, Quiet, WorkerRequests
<1>2. CASE WorkRequestQueue \/ WorkValueQueue \/ WorkMeasure
  <2>1. /\ cmd.requests # <<>> => Msg("Value", Head(cmd.requests)) \in ToTC
        /\ cmd.values # <<>> => Msg("Acknowledge", Head(cmd.values)) \in ToTC
        /\ Msg("Value", 0) \in ToTC
    BY <1>0 DEF CmdType, Msg, ToTC
  <2>2. "Connected" \notin SendState
    BY SendStates
  <2> QED BY <1>2, <2>1, <2>2 DEF WorkRequestQueue, WorkValueQueue, WorkMeasure, Msg, CanServe, Idle, Quiet,
            WorkerKeeps, WorkerAnswers
<1>3. CASE \/ WorkDisconnected \/ WorkStartUpDelay \/ WorkLanguage \/ WorkProcessDDOP
           \/ WorkBeginTransfer \/ WorkConnected \/ WorkTimesOut \/ WorkNotAsked
  BY <1>3, SendStates DEF WorkDisconnected, WorkStartUpDelay, WorkLanguage, WorkProcessDDOP,
       WorkBeginTransfer, WorkConnected, WorkTimesOut, WorkNotAsked, Quiet, WaitState, WorkerKeeps
<1>4. CASE WorkSets \/ WorkRefused
  BY <1>0, <1>4 DEF WorkSets, WorkRefused, Quiet, Idle, Becomes, SetState, Terminated, ClientType, WorkerKeeps
<1> QED BY <1>1, <1>2, <1>3, <1>4 DEF Worker, Refused, Measure

LEMMA StartWorker ==
  ASSUME Typed, WorkInv, StartInv, Worker \/ Refused \/ Measure
  PROVE  StartInv'
<1>0. WorkerMoves(client.state, client.work, client'.state, client'.work) /\ client \in ClientType
  BY WorkerMove, Parts
<1>1. UNCHANGED <<toECU, server>>
  BY WorkerMove
<1>2. /\ \A i \in DOMAIN toTC' : toTC'[i].fn = "WorkingSetMaster" => i = 1
      /\ toTC' # <<>> /\ Head(toTC').fn = "WorkingSetMaster" =>
           \/ toTC # <<>> /\ Head(toTC).fn = "WorkingSetMaster"
           \/ Phase = "SendWorkingSetMaster" /\ client.state = Phase
  <2>1. CASE WorkerKeeps
    BY <2>1 DEF WorkerKeeps, StartInv
  <2>2. CASE WorkerRequests
    <3>1. Msg(Request[client.state].fn, 0).fn = "WorkingSetMaster" => client.state = "SendWorkingSetMaster"
      BY <2>2, SendStates, RequestTable DEF WorkerRequests, Msg
    <3>2. client.state = "SendWorkingSetMaster" => Phase = client.state /\ toTC = <<>>
      BY <2>2 DEF WorkerRequests, Phase, StartInv
    <3> QED BY <2>2, <3>1, <3>2, MasterSent DEF WorkerRequests, StartInv
  <2>3. CASE WorkerAnswers
    BY <2>3, MasterSent DEF WorkerAnswers, StartInv
  <2> QED BY <2>1, <2>2, <2>3, WorkerTraffic
\* What the worker does to its state before the announcement is served
<1>3. client.state \in SendState \cap Early => Request[client.state].next \in Early
  BY SendStates, RequestTable DEF Early
<1>4. client.state \in SendState =>
        Request[client.state].next \notin {"WaitForServerStatusMessage", "SendWorkingSetMaster", "idle"}
  BY SendStates, RequestTable
<1>5. ASSUME client.state \in Early, client.work \in Early \cup {"idle"},
             client.state = "WaitForStartUpDelay" => ~SixSeconds
      PROVE  client'.state \in Early /\ client'.work \in Early \cup {"idle"}
  BY <1>0, <1>3, <1>5 DEF WorkerMoves, Early
<1>6. Phase' \in {"WaitForServerStatusMessage", "SendWorkingSetMaster"} =>
        (SixSeconds /\ client.state = "WaitForStartUpDelay") \/ (Phase' = Phase /\ UNCHANGED <<client.state, client.work>>)
  BY <1>0, <1>4 DEF WorkerMoves, Phase, WorkInv, Settable
<1>7. transfer' = transfer \/ (client.state = "BeginTransferDDOP" /\ client.work = "idle")
  BY DEF Worker, Refused, Measure, Quiet, Idle, WorkDisconnected, WorkStartUpDelay, WorkRequest, WorkSets,
         WorkLanguage, WorkProcessDDOP, WorkBeginTransfer, WorkRefused, WorkTimesOut, WorkNotAsked,
         WorkConnected, WorkRequestQueue, WorkValueQueue, WorkMeasure
<1>8. \/ toTC' = toTC
      \/ client.state \in SendState /\ ~UNCHANGED <<client.state, client.work>>
      \/ client.state = "Connected" /\ client.work = "idle"
  <2>1. client.state \in SendState =>
          Request[client.state].next # client.state /\ Request[client.state].next # "idle"
    BY SendStates, RequestTable
  <2> QED BY <2>1, WorkerTraffic DEF WorkerKeeps, WorkerRequests, WorkerAnswers
<1>9. "WaitForStartUpDelay" \notin SendState
  BY SendStates
<1>10. ASSUME Phase' \in {"WaitForServerStatusMessage", "SendWorkingSetMaster"}
       PROVE  toTC' = <<>> /\ toECU' = <<>> /\ transfer' = 0 /\ ~server'.known
  <2>1. CASE SixSeconds /\ client.state = "WaitForStartUpDelay"
    BY <1>1, <1>7, <1>8, <1>9, <2>1 DEF SixSeconds
  <2>2. CASE Phase' = Phase /\ UNCHANGED <<client.state, client.work>>
    BY <1>1, <1>7, <1>8, <1>10, <2>2 DEF StartInv, Phase
  <2> QED BY <1>6, <1>10, <2>1, <2>2
<1>11. ASSUME toTC' # <<>>, Head(toTC').fn = "WorkingSetMaster"
       PROVE  /\ toECU' = <<>> /\ transfer' = 0 /\ ~server'.known
              /\ client'.state \in Early /\ client'.work \in Early \cup {"idle"}
  <2>1. CASE toTC # <<>> /\ Head(toTC).fn = "WorkingSetMaster"
    <3>1. /\ toECU = <<>> /\ transfer = 0 /\ ~server.known
          /\ client.state \in Early /\ client.work \in Early \cup {"idle"}
      BY <2>1 DEF StartInv
    <3>2. client.state # "BeginTransferDDOP"
      BY <3>1 DEF Early
    <3> QED BY <1>1, <1>5, <1>7, <2>1, <3>1, <3>2 DEF SixSeconds
  <2>2. CASE Phase = "SendWorkingSetMaster" /\ client.state = Phase
    <3>1. toECU = <<>> /\ transfer = 0 /\ ~server.known
      BY <2>2 DEF StartInv
    <3>2. client.work = "idle"
      BY <2>2 DEF Phase, WorkInv, Settable
    <3> QED BY <1>1, <1>5, <1>7, <2>2, <3>1, <3>2 DEF Early
  <2> QED BY <1>2, <1>11, <2>1, <2>2
<1> QED BY <1>2, <1>10, <1>11 DEF StartInv

\* What process_rx_message does to the state: an answer takes the client out of
\* the state that waits for it
ReadingMoves(s, t) ==
  \/ t = s
  \/ t = "Disconnected"
  \/ s = "WaitForRequestVersionResponse" /\ t = "WaitForRequestVersionFromServer"
       /\ Head(toECU).fn = "ParameterVersion"
  \/ s = "WaitForRequestVersionFromServer" /\ t = "SendRequestVersionResponse"
       /\ Head(toECU).fn = "RequestVersion"
  \/ s = "WaitForStructureLabelResponse" /\ Head(toECU).fn = "StructureLabel"
       /\ t = IF Answer = 0 THEN "SendRequestTransferObjectPool"
              ELSE IF client.label # 0 /\ Answer = Structure[client.label]
              THEN "RequestLocalizationLabel" ELSE "SendDeleteObjectPool"
  \/ s = "WaitForLocalizationLabelResponse" /\ Head(toECU).fn = "LocalizationLabel"
       /\ t = IF Answer = 0 THEN "SendRequestTransferObjectPool"
              ELSE IF client.label # 0 /\ Answer = Localization[client.label]
              THEN "SendObjectPoolActivate" ELSE "SendDeleteObjectPool"
  \/ s = "WaitForDeleteObjectPoolResponse" /\ t = "SendRequestTransferObjectPool"
       /\ Head(toECU).fn = "DeleteResponse"
  \/ s = "WaitForRequestTransferObjectPoolResponse" /\ t = "BeginTransferDDOP"
       /\ Head(toECU).fn = "RequestTransferResponse"
  \/ s = "WaitForObjectPoolTransferResponse" /\ t = "SendObjectPoolActivate"
       /\ Head(toECU).fn = "TransferResponse" /\ Answer = 0
  \/ s = "WaitForObjectPoolActivateResponse" /\ t = "Connected"
       /\ Head(toECU).fn = "ActivateResponse" /\ Answer = 0
  \/ s = "WaitForObjectPoolDeactivateResponse" /\ t = "SendDeleteObjectPool"
       /\ Head(toECU).fn = "ActivateResponse"

LEMMA ReadingMove ==
  ASSUME Typed, Reading
  PROVE  /\ toECU # <<>> /\ toECU' = Tail(toECU) /\ UNCHANGED <<config, toTC, transfer, faults, server, left, mishap>>
         /\ ReadingMoves(client.state, client'.state) /\ client'.work = client.work
         /\ client'.pool = client.pool /\ client'.label = client.label /\ client'.binary = client.binary
         /\ client'.alive => client.alive
         /\ ~client.alive => client'.state = client.state
<1>0. client \in ClientType
  BY Parts
<1>1. toECU # <<>> /\ toECU' = Tail(toECU) /\ UNCHANGED <<config, toTC, transfer, faults, server, left, mishap>>
  BY DEF Reading, Receive, ReceiveNack, ReceiveVersion, ReceiveStructureLabel,
         ReceiveLocalizationLabel, ReceiveDeleted, ReceiveMayTransfer, ReceiveTransferred,
         ReceiveActivated, ReceiveDeactivated, ReceiveCommand, ReceiveIgnored, In, Arrives, ReadKeeps
<1>2. /\ client'.work = client.work
      /\ client'.pool = client.pool /\ client'.label = client.label /\ client'.binary = client.binary
      /\ client'.alive => client.alive
      /\ ~client.alive => client'.state = client.state
  BY <1>0 DEF Reading, Receive, ReceiveNack, ReceiveVersion, ReceiveStructureLabel,
         ReceiveLocalizationLabel, ReceiveDeleted, ReceiveMayTransfer, ReceiveTransferred,
         ReceiveActivated, ReceiveDeactivated, ReceiveCommand, ReceiveIgnored, In, Arrives,
         Becomes, SetState, Terminated, ClientType
<1>3. ReadingMoves(client.state, client'.state)
  <2>1. CASE ReceiveNack \/ ReceiveVersion \/ ReceiveStructureLabel \/ ReceiveLocalizationLabel
    BY <1>0, <2>1 DEF ReceiveNack, ReceiveVersion, ReceiveStructureLabel, ReceiveLocalizationLabel,
       In, Becomes, SetState, ClientType, ReadingMoves
  <2>2. CASE ReceiveDeleted \/ ReceiveMayTransfer \/ ReceiveTransferred \/ ReceiveActivated \/ ReceiveDeactivated
    BY <1>0, <2>2 DEF ReceiveDeleted, ReceiveMayTransfer, ReceiveTransferred, ReceiveActivated, ReceiveDeactivated,
       In, Becomes, SetState, Terminated, ClientType, ReadingMoves
  <2>3. CASE ReceiveCommand \/ ReceiveIgnored
    BY <2>3 DEF ReceiveCommand, ReceiveIgnored, ReadingMoves
  <2> QED BY <2>1, <2>2, <2>3 DEF Reading, Receive
<1> QED BY <1>1, <1>2, <1>3

LEMMA StartReading ==
  ASSUME Typed, WorkInv, StartInv, Reading
  PROVE  StartInv'
<1>1. /\ toECU # <<>> /\ UNCHANGED <<toTC, transfer, server>>
      /\ ReadingMoves(client.state, client'.state) /\ client'.work = client.work
  BY ReadingMove
<1>2. Phase' \notin {"WaitForServerStatusMessage", "SendWorkingSetMaster"}
  BY <1>1 DEF ReadingMoves, Phase, StartInv
<1> QED BY <1>1, <1>2 DEF StartInv

LEMMA StartOthers ==
  ASSUME Typed, WorkInv, StartInv,
         \/ Serving \/ Forgetting \/ Status \/ StatusGrowsOld \/ Transfer \/ Commanding
         \/ Reuploading \/ Restarting \/ Lose \/ PoweredOn \/ UNCHANGED vars
  PROVE  StartInv'
<1>0. client \in ClientType /\ server \in ServerType /\ toTC \in Seq(ToTC) /\ transfer \in Pool \cup {0}
  BY Parts
<1>1. CASE Serving
  <2>1. UNCHANGED <<client, transfer>>
    BY <1>1, ServingParts DEF Serving, Undelivered
  <2>2. CASE Serve
    <3>1. toTC # <<>> /\ toTC' = Tail(toTC)
      BY <2>2, ServingParts
    <3>2. \A i \in DOMAIN toTC' : toTC'[i].fn # "WorkingSetMaster"
      BY <3>1, MasterServed DEF StartInv
    <3>3. toTC' # <<>> => Head(toTC').fn # "WorkingSetMaster"
      BY <3>1, MasterServed DEF StartInv
    <3>4. Phase' = Phase
      BY <2>1 DEF Phase
    <3> QED BY <3>1, <3>2, <3>3, <3>4 DEF StartInv
  <2>3. CASE Undelivered
    BY <2>1, <2>3 DEF Undelivered, StartInv, Phase
  <2> QED BY <1>1, <2>2, <2>3 DEF Serving
<1>2. CASE Forgetting \/ PoweredOn
  BY <1>0, <1>2 DEF Forgetting, ForgetClient, PoweredOn, PowerOn, Forgotten, ServerType, StartInv, Phase
<1>3. CASE Status
  BY <1>0, <1>3 DEF Status, ReceiveStatus, ClientType, StartInv, Phase, Early, WorkInv
<1>4. CASE StatusGrowsOld
  BY <1>0, <1>4 DEF StatusGrowsOld, ClientType, StartInv, Phase
<1>5. CASE Transfer
  <2>1. transfer # 0 /\ UNCHANGED <<toECU, server>>
    BY <1>5 DEF Transfer
  <2>2. toTC' = toTC \/ toTC' = Append(toTC, Msg("ObjectPoolTransfer", transfer))
    BY <1>5 DEF Transfer, TransferSucceeds, TransferFails
  <2>3. Msg("ObjectPoolTransfer", transfer) \in ToTC /\ Msg("ObjectPoolTransfer", transfer).fn # "WorkingSetMaster"
    BY <1>0, <2>1 DEF Msg, ToTC
  <2>4. /\ \A i \in DOMAIN toTC' : toTC'[i].fn = "WorkingSetMaster" => i = 1
        /\ toTC' # <<>> => Head(toTC').fn # "WorkingSetMaster"
    BY <2>1, <2>2, <2>3, MasterSent DEF StartInv
  <2>5. Phase' \in {Phase, "WaitForObjectPoolTransferResponse", "Disconnected"}
    BY <1>0, <1>5 DEF Transfer, TransferSucceeds, TransferFails, TransferReported, Becomes, SetState, ClientType, Phase
  <2> QED BY <2>1, <2>4, <2>5 DEF StartInv
<1>6. CASE Commanding
  BY <1>0, <1>6 DEF Commanding, SendCommand, ServerType, StartInv, Phase
<1>7. CASE Reuploading
  BY <1>0, <1>7 DEF Reuploading, Reupload, SetState, ClientType, StartInv, Phase, Early
<1>8. CASE Restarting
  BY <1>0, <1>8 DEF Restarting, Restart, Terminate, Initialize, Becomes, SetState, Terminated, ClientType,
     StartInv, Phase, Early
<1>9. CASE Lose
  <2>1. UNCHANGED <<client, transfer>>
    BY <1>9 DEF Lose, PowerOff
  <2>2. server'.known => server.known
    BY <1>0, <1>9 DEF Lose, PowerOff, Down, Forgotten, ServerType
  <2>3. CASE toTC # <<>> /\ toTC' = Tail(toTC) /\ toECU' = toECU
    <3>1. \A i \in DOMAIN toTC' : toTC'[i].fn # "WorkingSetMaster"
      BY <2>3, MasterServed DEF StartInv
    <3>2. toTC' # <<>> => Head(toTC').fn # "WorkingSetMaster"
      BY <2>3, MasterServed DEF StartInv
    <3> QED BY <2>1, <2>3, <3>1, <3>2 DEF StartInv, Phase
  <2>4. CASE toECU # <<>> /\ toTC' = toTC
    BY <2>1, <2>2, <2>4 DEF StartInv, Phase
  <2>5. CASE toTC' = <<>> /\ toECU' = toECU
    BY <2>1, <2>2, <2>5 DEF StartInv, Phase
  <2> QED BY <1>9, <2>3, <2>4, <2>5 DEF Lose, PowerOff
<1>10. CASE UNCHANGED vars
  BY <1>10 DEF vars, StartInv, Phase
<1> QED BY <1>1, <1>2, <1>3, <1>4, <1>5, <1>6, <1>7, <1>8, <1>9, <1>10

BaseInv == Typed /\ WorkInv /\ StartInv

LEMMA BaseStep ==
  ASSUME BaseInv, [Next]_vars
  PROVE  BaseInv'
BY TypedStep, WorkStep, StartWorker, StartReading, StartOthers DEF BaseInv, Next

LEMMA BaseInit ==
  ASSUME Init
  PROVE  BaseInv
<1>1. Typed
  BY TypedInit
<1>2. WorkInv /\ StartInv
  BY DEF Init, ClientInit, WorkInv, StartInv, Phase
<1> QED BY <1>1, <1>2 DEF BaseInv

THEOREM BaseHolds == Spec => []BaseInv
<1>1. Init => BaseInv
  BY BaseInit
<1>2. BaseInv /\ [Next]_vars => BaseInv'
  BY BaseStep
<1> QED BY <1>1, <1>2, PTL DEF Spec

\* TypeOK: the client, its queues and the task controller keep to their types.
THEOREM TypeCorrect == Spec => []TypeOK
<1>1. Init => mishap \in BOOLEAN
  BY DEF Init
<1>2. mishap \in BOOLEAN /\ [Next]_vars => (mishap \in BOOLEAN)'
  <2> SUFFICES ASSUME mishap \in BOOLEAN, [Next]_vars
               PROVE  mishap' \in BOOLEAN
    OBVIOUS
  <2>1. CASE UNCHANGED mishap
    BY <2>1
  <2>2. CASE Serving
    BY <2>2 DEF Serving
  <2>3. CASE Restarting
    BY <2>3 DEF Restarting
  <2>4. CASE Lose
    BY <2>4 DEF Lose
  <2>5. CASE PoweredOn
    BY <2>5 DEF PoweredOn
  <2> QED
    BY <2>1, <2>2, <2>3, <2>4, <2>5 DEF Next, vars, Worker, Refused, Measure, Reading, Forgetting,
       Status, StatusGrowsOld, Transfer, Commanding, Reuploading
<1>3. BaseInv /\ mishap \in BOOLEAN => TypeOK
  BY DEF BaseInv, Typed, TypeOK
<1> QED BY <1>1, <1>2, <1>3, BaseHolds, PTL DEF Spec

-----------------------------------------------------------------------------
(* The task controller knows who sends the version *)

\* The steps of a client that has announced itself and not yet been answered
Announcing == {"SendStatusMessage", "RequestVersion", "SendRequestVersionResponse"}

\* What is served now was sent after the announcement
Introduced == server.known \/ (toTC # <<>> /\ Head(toTC).fn = "WorkingSetMaster")

\* Nothing that counts on the announcement is on its way, or about to be sent,
\* unless the task controller that is on has it, or is about to read it; after an
\* accident there is nothing to say until it knows the client again
KnownInv ==
  server.up /\ ~mishap =>
    /\ \A i \in DOMAIN toTC : toTC[i].fn \in {"RequestVersion", "ParameterVersion"} => Introduced
    /\ \A i \in DOMAIN toECU : toECU[i].fn = "RequestVersion" => server.known
    /\ Runs /\ (client.state \in Announcing \/ client.work \in Announcing) => Introduced

LEMMA KnownWorker ==
  ASSUME BaseInv, KnownInv, Worker \/ Refused \/ Measure
  PROVE  KnownInv'
<1> USE DEF BaseInv
<1> SUFFICES ASSUME server.up, ~mishap
             PROVE  /\ \A i \in DOMAIN toTC' : toTC'[i].fn \in {"RequestVersion", "ParameterVersion"} => Introduced'
                    /\ Runs' /\ (client'.state \in Announcing \/ client'.work \in Announcing) => Introduced'
  BY WorkerMove DEF KnownInv
<1>1. /\ WorkerMoves(client.state, client.work, client'.state, client'.work)
      /\ UNCHANGED <<config, server>> /\ (Runs' => Runs)
  BY WorkerMove DEF Runs
<1>2. client.state \in SendState /\ Request[client.state].next \in Announcing =>
        client.state \in Announcing \cup {"SendWorkingSetMaster"}
  BY SendStates, RequestTable DEF Announcing
<1>3. CASE WorkerKeeps
  <2>1. Introduced' = Introduced
    BY <1>1, <1>3 DEF WorkerKeeps, Introduced
  <2>2. client'.state \in Announcing \/ client'.work \in Announcing =>
          client.state \in Announcing \/ client.work \in Announcing
    BY <1>1, <1>3 DEF WorkerKeeps, WorkerMoves, Announcing
  <2> QED BY <1>1, <1>3, <2>1, <2>2 DEF WorkerKeeps, KnownInv
<1>4. CASE WorkerRequests
  <2> DEFINE m == Msg(Request[client.state].fn, 0)
  <2>1. toTC \in Seq(ToTC) /\ m \in ToTC /\ toTC' = Append(toTC, m) /\ m.fn = Request[client.state].fn
        /\ client.state \in SendState /\ Runs
    BY <1>4, Parts DEF WorkerRequests, Msg
  <2>2. CASE client.state = "SendWorkingSetMaster"
    <3>1. m.fn = "WorkingSetMaster" /\ toTC = <<>>
      BY <1>4, <2>1, <2>2, RequestTable DEF StartInv, Phase, WorkerRequests
    <3>2. Introduced'
      BY <2>1, <3>1, AppendValues DEF Introduced
    <3> QED BY <3>2
  <2>3. CASE client.state # "SendWorkingSetMaster"
    <3>1. Introduced => Introduced'
      BY <1>1, <2>1, AppendValues DEF Introduced
    <3>2. client'.state \in Announcing \/ client'.work \in Announcing => client.state \in Announcing
      BY <1>2, <1>4, <2>3 DEF WorkerRequests, Announcing
    <3>3. m.fn \in {"RequestVersion", "ParameterVersion"} => client.state \in Announcing
      BY <2>1, SendStates, RequestTable DEF Announcing
    <3>4. ASSUME NEW i \in DOMAIN toTC', toTC'[i].fn \in {"RequestVersion", "ParameterVersion"}
          PROVE  Introduced'
      <4> HIDE DEF m
      <4>1. (i \in DOMAIN toTC /\ toTC[i] = toTC'[i]) \/ toTC'[i] = m
        BY <2>1, AppendValues
      <4> QED BY <2>1, <3>1, <3>3, <3>4, <4>1 DEF KnownInv
    <3> QED BY <2>1, <3>1, <3>2, <3>4 DEF KnownInv
  <2> QED BY <2>2, <2>3
<1>5. CASE WorkerAnswers
  <2>1. PICK m \in ToTC : m.fn \in {"Value", "Acknowledge"} /\ toTC' = Append(toTC, m)
    BY <1>5 DEF WorkerAnswers
  <2>2. toTC \in Seq(ToTC)
    BY Parts
  <2>3. Introduced => Introduced'
    BY <1>1, <2>1, <2>2, AppendValues DEF Introduced
  <2>4. \A i \in DOMAIN toTC' : (i \in DOMAIN toTC /\ toTC[i] = toTC'[i]) \/ toTC'[i] = m
    BY <2>1, <2>2, AppendValues
  <2> QED BY <1>1, <1>5, <2>1, <2>3, <2>4 DEF WorkerAnswers, KnownInv, Announcing
<1> QED BY <1>3, <1>4, <1>5, WorkerTraffic

LEMMA ConcatValues ==
  ASSUME NEW S, NEW q \in Seq(S), NEW m \in S, NEW n \in S
  PROVE  /\ q \o <<m>> = Append(q, m)
         /\ \A i \in DOMAIN (q \o <<m, n>>) :
              (i \in DOMAIN q /\ (q \o <<m, n>>)[i] = q[i]) \/ (q \o <<m, n>>)[i] \in {m, n}
OBVIOUS

\* What is new among the messages to the client
LEMMA AnswerFrom ==
  ASSUME Typed, Serve
  PROVE  \A i \in DOMAIN toECU' :
           \/ i \in DOMAIN toECU /\ toECU'[i] = toECU[i]
           \/ toECU'[i].fn = "RequestVersion" => Head(toTC).fn = "RequestVersion"
<1>0. toECU \in Seq(ToClient)
  BY Parts
<1>1. \A m \in ToClient : \A i \in DOMAIN (toECU \o <<m>>) :
        (i \in DOMAIN toECU /\ (toECU \o <<m>>)[i] = toECU[i]) \/ (toECU \o <<m>>)[i] = m
  BY <1>0, ConcatValues, AppendValues
<1>2. \A m, n \in ToClient : \A i \in DOMAIN (toECU \o <<m, n>>) :
        (i \in DOMAIN toECU /\ (toECU \o <<m, n>>)[i] = toECU[i]) \/ (toECU \o <<m, n>>)[i] \in {m, n}
  BY <1>0, ConcatValues
<1>3. CASE ServeRequestVersion
  BY <1>2, <1>3 DEF ServeRequestVersion, Arrived
<1>4. CASE \/ ServeWorkingSetMaster \/ ServeClientTask \/ ServeParameterVersion \/ ServeValue
  BY <1>4 DEF ServeWorkingSetMaster, ServeClientTask, ServeParameterVersion, ServeValue
<1>5. CASE \/ ServeStranger \/ ServeLabels \/ ServeRequestTransfer \/ ServeObjectPoolTransfer
           \/ ServeActivate \/ ServeDeactivate \/ ServeDelete
  <2>1. \E fn \in {"StructureLabel", "LocalizationLabel", "DeleteResponse", "RequestTransferResponse",
                   "TransferResponse", "ActivateResponse", "Nack"}, x \in Nat :
          toECU' = toECU \o <<Msg(fn, x)>>
    <3>1. Reports({"structure", "both"}, Structure) \in Nat /\ Reports({"both"}, Localization) \in Nat
      BY Parts, PoolAssumption DEF Reports, ServerType
    <3> QED BY <1>5, <3>1 DEF ServeStranger, ServeLabels, ServeRequestTransfer,
             ServeObjectPoolTransfer, ServeActivate, ServeDeactivate, ServeDelete, ToECU
  <2>2. PICK fn \in {"StructureLabel", "LocalizationLabel", "DeleteResponse", "RequestTransferResponse",
                   "TransferResponse", "ActivateResponse", "Nack"}, x \in Nat :
          toECU' = toECU \o <<Msg(fn, x)>>
    BY <2>1
  <2>3. Msg(fn, x) \in ToClient /\ Msg(fn, x).fn # "RequestVersion"
    BY DEF Msg, ToClient
  <2> QED BY <1>1, <2>2, <2>3
<1> QED BY <1>3, <1>4, <1>5 DEF Serve

LEMMA KnownServing ==
  ASSUME BaseInv, KnownInv, Serving
  PROVE  KnownInv'
<1> USE DEF BaseInv
<1>0. server \in ServerType
  BY Parts
<1>1. CASE server'.known
  BY <1>1 DEF KnownInv, Introduced
<1>2. CASE Serve /\ ~server'.known /\ ~mishap'
  <2>1. /\ server.up /\ toTC # <<>> /\ toTC' = Tail(toTC) /\ UNCHANGED <<config, client>>
        /\ ~mishap
    BY <1>2, ServingParts DEF Serving
  <2>2. 1 \in DOMAIN toTC /\ toTC[1] = Head(toTC)
    BY <2>1, HeadFirst
  <2>3. Head(toTC).fn = "ParameterVersion" => server.known
    BY <2>1, <2>2 DEF KnownInv, Introduced
  <2>4. server'.known = (server.known \/ Head(toTC).fn = "WorkingSetMaster")
    BY <1>0, <1>2, <2>3 DEF Serve, ServeWorkingSetMaster, ServeClientTask, ServeRequestVersion, ServeParameterVersion,
         ServeStranger, ServeLabels, ServeRequestTransfer, ServeObjectPoolTransfer, ServeActivate,
         ServeDeactivate, ServeDelete, ServeValue, Arrived, ServerType
  <2>5. Introduced => server'.known
    BY <2>4 DEF Introduced
  <2>6. \A i \in DOMAIN toTC' : i + 1 \in DOMAIN toTC /\ toTC'[i] = toTC[i + 1]
    BY <2>1, Parts, TailValues
  <2>7. Head(toTC).fn = "RequestVersion" => Introduced
    BY <2>1, <2>2 DEF KnownInv
  <2>8. \A i \in DOMAIN toECU' : toECU'[i].fn = "RequestVersion" => server'.known
    BY <1>2, <2>1, <2>4, <2>5, <2>7, AnswerFrom DEF KnownInv
  <2>9. server'.known => Introduced'
    BY DEF Introduced
  <2> QED BY <2>1, <2>4, <2>5, <2>6, <2>8, <2>9 DEF KnownInv, Runs
<1>3. CASE Undelivered
  BY <1>3 DEF Undelivered, KnownInv
<1> QED BY <1>1, <1>2, <1>3 DEF Serving, KnownInv

LEMMA KnownReading ==
  ASSUME BaseInv, KnownInv, Reading
  PROVE  KnownInv'
<1> USE DEF BaseInv
<1>1. /\ toECU # <<>> /\ toECU' = Tail(toECU) /\ UNCHANGED <<config, toTC, server, mishap>>
      /\ ReadingMoves(client.state, client'.state) /\ client'.work = client.work
      /\ client'.alive => client.alive
  BY ReadingMove
<1>2. /\ 1 \in DOMAIN toECU /\ toECU[1] = Head(toECU)
      /\ \A i \in DOMAIN toECU' : i + 1 \in DOMAIN toECU /\ toECU'[i] = toECU[i + 1]
  BY <1>1, Parts, TailValues
<1>3. server.up /\ ~mishap /\ client'.state \in Announcing => client.state \in Announcing \/ server.known
  BY <1>1, <1>2 DEF ReadingMoves, Announcing, KnownInv
<1>4. Introduced' = Introduced /\ (server.known => Introduced)
  BY <1>1 DEF Introduced
<1> QED BY <1>1, <1>2, <1>3, <1>4 DEF KnownInv, Runs

LEMMA KnownOthers ==
  ASSUME BaseInv, KnownInv,
         \/ Forgetting \/ Status \/ StatusGrowsOld \/ Transfer \/ Commanding
         \/ Reuploading \/ Restarting \/ Lose \/ PoweredOn \/ UNCHANGED vars
  PROVE  KnownInv'
<1> USE DEF BaseInv
<1>0. client \in ClientType /\ server \in ServerType /\ toTC \in Seq(ToTC) /\ transfer \in Pool \cup {0}
      /\ toECU \in Seq(ToClient) /\ left \in LeftType
  BY Parts
<1>1. CASE Forgetting
  <2>1. Silent /\ toTC = <<>> /\ toECU = <<>> /\ UNCHANGED <<client, config, toTC, toECU, mishap>>
    BY <1>0, <1>1 DEF Forgetting, ForgetClient, Forgotten, ServerType
  <2>2. ~(Runs' /\ (client'.state \in Announcing \/ client'.work \in Announcing))
    <3>1. CASE client.state = "WaitForStartUpDelay"
      <4>1. client.work = "idle"
        BY <3>1, SendStates DEF WorkInv
      <4> QED BY <2>1, <3>1, <4>1 DEF Announcing
    <3>2. CASE ~client.alive /\ config.threaded
      BY <2>1, <3>2 DEF Runs
    <3> QED BY <2>1, <3>1, <3>2 DEF Silent
  <2> QED BY <2>1, <2>2 DEF KnownInv
<1>2. CASE PoweredOn
  <2>1. toTC = <<>> /\ UNCHANGED <<client, config, toTC, toECU>>
        /\ mishap' = (mishap \/ ~(Noticed \/ Gone))
    BY <1>2 DEF PoweredOn, PowerOn
  <2>2. CASE Gone
    <3>1. toECU' = <<>> /\ toTC' = <<>> /\ ~Runs'
      BY <2>1, <2>2 DEF Gone, Runs
    <3> QED BY <3>1 DEF KnownInv
  <2>3. CASE Noticed
    <3>1. toECU' = <<>> /\ toTC' = <<>>
          /\ client'.state \notin Announcing /\ client'.work \notin Announcing
      BY <2>1, <2>3 DEF Noticed, Announcing
    <3> QED BY <3>1 DEF KnownInv
  <2>4. CASE mishap'
    BY <2>4 DEF KnownInv
  <2> QED BY <2>1, <2>2, <2>3, <2>4
<1>3. CASE Status
  BY <1>0, <1>3 DEF Status, ReceiveStatus, ClientType, KnownInv, Runs, Announcing, Introduced
<1>4. CASE StatusGrowsOld
  BY <1>0, <1>4 DEF StatusGrowsOld, ClientType, KnownInv, Runs, Announcing, Introduced
<1>5. CASE Transfer
  <2>1. UNCHANGED <<toECU, server, config, mishap>>
    BY <1>5 DEF Transfer
  <2>2. toTC' = toTC \/ toTC' = Append(toTC, Msg("ObjectPoolTransfer", transfer))
    BY <1>5 DEF Transfer, TransferSucceeds, TransferFails
  <2>3. Msg("ObjectPoolTransfer", transfer) \in ToTC /\ Msg("ObjectPoolTransfer", transfer).fn = "ObjectPoolTransfer"
    BY <1>0, <1>5 DEF Transfer, Msg, ToTC
  <2>4. /\ Introduced => Introduced'
        /\ \A i \in DOMAIN toTC' : (i \in DOMAIN toTC /\ toTC'[i] = toTC[i]) \/ toTC'[i].fn = "ObjectPoolTransfer"
    BY <1>0, <2>1, <2>2, <2>3, AppendValues DEF Introduced
  <2>5. /\ client'.state \in {client.state, "WaitForObjectPoolTransferResponse", "Disconnected"}
        /\ client'.work = client.work /\ client'.alive = client.alive
    BY <1>0, <1>5 DEF Transfer, TransferSucceeds, TransferFails, TransferReported, Becomes, SetState, ClientType
  <2> QED BY <2>1, <2>4, <2>5 DEF KnownInv, Runs, Announcing
<1>6. CASE Commanding
  <2>1. PICK c \in left.commands, fn \in Commands \ {"Nack"} : SendCommand(fn, c)
    BY <1>6 DEF Commanding
  <2>2. Msg(fn, c) \in ToClient /\ Msg(fn, c).fn # "RequestVersion"
    BY <1>0 DEF Commands, LeftType, Msg, ToClient
  <2>3. \A i \in DOMAIN toECU' : (i \in DOMAIN toECU /\ toECU'[i] = toECU[i]) \/ toECU'[i] = Msg(fn, c)
    BY <1>0, <2>1, <2>2, ConcatValues, AppendValues DEF SendCommand, ToECU
  <2>4. server'.known = server.known /\ server'.up = server.up
        /\ UNCHANGED <<toTC, client, config, mishap>>
    BY <1>0, <1>6, <2>1 DEF Commanding, SendCommand, ServerType
  <2> QED BY <2>2, <2>3, <2>4 DEF KnownInv, Runs, Introduced
<1>7. CASE Reuploading
  BY <1>0, <1>7 DEF Reuploading, Reupload, SetState, ClientType, KnownInv, Runs, Announcing, Introduced
<1>8. CASE Restarting
  <2>1. UNCHANGED <<toTC, toECU, server, config>>
    BY <1>8 DEF Restarting, Restart, Terminate, Initialize
  <2>2. CASE (Restart \/ Terminate) /\ UNCHANGED mishap
    BY <1>0, <2>1, <2>2 DEF Restart, Terminate, Becomes, SetState, Terminated, ClientType,
       KnownInv, Runs, Announcing, Introduced
  <2>3. CASE Initialize /\ mishap' = (mishap \/ (~server.known /\ client.state \in Announced))
    BY <1>0, <2>1, <2>3 DEF Initialize, ClientType, KnownInv, Runs, Announcing, Announced, Introduced
  <2> QED BY <1>8, <2>2, <2>3 DEF Restarting
<1>9. CASE Lose
  <2>1. UNCHANGED client
    BY <1>9 DEF Lose
  <2>2. CASE toTC # <<>> /\ toTC' = Tail(toTC) /\ UNCHANGED <<config, toECU, server>>
             /\ mishap' = (mishap \/ Head(toTC).fn = "WorkingSetMaster")
    <3>1. \A i \in DOMAIN toTC' : i + 1 \in DOMAIN toTC /\ toTC'[i] = toTC[i + 1]
      BY <1>0, <2>2, TailValues
    <3>2. ~mishap' /\ Introduced => Introduced'
      BY <2>2 DEF Introduced
    <3> QED BY <2>1, <2>2, <3>1, <3>2 DEF KnownInv, Runs
  <2>3. CASE toECU # <<>> /\ toECU' = Tail(toECU) /\ UNCHANGED <<config, toTC, server, mishap>>
    <3>1. \A i \in DOMAIN toECU' : i + 1 \in DOMAIN toECU /\ toECU'[i] = toECU[i + 1]
      BY <1>0, <2>3, TailValues
    <3> QED BY <2>1, <2>3, <3>1 DEF KnownInv, Runs, Introduced
  <2>4. CASE PowerOff
    BY <1>0, <2>4 DEF PowerOff, Down, Forgotten, ServerType, KnownInv
  <2> QED BY <1>9, <2>2, <2>3, <2>4 DEF Lose
<1>10. CASE UNCHANGED vars
  BY <1>10 DEF vars, KnownInv, Runs, Introduced
<1> QED BY <1>1, <1>2, <1>3, <1>4, <1>5, <1>6, <1>7, <1>8, <1>9, <1>10

LEMMA KnownStep ==
  ASSUME BaseInv, KnownInv, [Next]_vars
  PROVE  KnownInv'
BY KnownWorker, KnownReading, KnownServing, KnownOthers DEF Next

\* ClientIsKnown: the handler of the client's version looks for an ActiveClient
\* that does not exist only if, since the task controller last knew the client, it
\* came back unnoticed, an announcement was lost or the client was initialized as
\* if it had made one; never because connections are given up, other messages lost
\* or late, the power lost, the client terminated or its pool replaced.
THEOREM NoNullClient == Spec => []ClientIsKnown
<1>1. Init => KnownInv
  BY DEF Init, ClientInit, ServerInit, KnownInv, Announcing
<1>2. BaseInv /\ KnownInv /\ [Next]_vars => KnownInv'
  BY KnownStep
<1>3. BaseInv /\ KnownInv => ClientIsKnown
  <2> SUFFICES ASSUME BaseInv, KnownInv, server.up, toTC # <<>>,
                      Head(toTC).fn = "ParameterVersion", ~mishap
               PROVE  server.known
    BY DEF ClientIsKnown
  <2>1. 1 \in DOMAIN toTC /\ toTC[1] = Head(toTC)
    BY HeadFirst DEF BaseInv
  <2> QED BY <2>1 DEF KnownInv, Introduced
<1> QED BY <1>1, <1>2, <1>3, BaseHolds, PTL DEF Spec

-----------------------------------------------------------------------------
(* A connected client runs the pool it was given last (ActiveIsCurrent), for *)
(* every number of pools, commands, faults and reuploads and whatever        *)
(* accidents happen.  No message carries a number that ties an answer to its *)
(* request, so the argument is about the line: which kinds of requests and   *)
(* answers can be under way in a state of the client (LineInv), and what     *)
(* those that are say about the task controller (PoolInv).                   *)

Kinds == {"structure", "localization", "deletion", "memory", "pool", "activation"}

\* A request and its answer are of one kind
Kind(m) ==
  CASE m.fn \in {"RequestStructureLabel", "StructureLabel"} -> "structure"
    [] m.fn \in {"RequestLocalizationLabel", "LocalizationLabel"} -> "localization"
    [] m.fn \in {"Delete", "DeleteResponse"} -> "deletion"
    [] m.fn \in {"RequestTransfer", "RequestTransferResponse"} -> "memory"
    [] m.fn \in {"ObjectPoolTransfer", "TransferResponse"} -> "pool"
    [] m.fn \in {"Activate", "Deactivate", "ActivateResponse"} -> "activation"
    [] OTHER -> "other"

NoneOf(k, q) == \A i \in DOMAIN q : Kind(q[i]) # k
OneOf(k, q) == \A i, j \in DOMAIN q : Kind(q[i]) = k /\ Kind(q[j]) = k => i = j
Behind(k, l, q) == \A i, j \in DOMAIN q : Kind(q[i]) = k /\ Kind(q[j]) = l => j < i

Absent(k) == NoneOf(k, toTC) /\ NoneOf(k, toECU)
Once(k) == OneOf(k, toTC) /\ OneOf(k, toECU) /\ (NoneOf(k, toTC) \/ NoneOf(k, toECU))

\* What may be under way in a state.  A deactivation that timed out may come late
May(s, k) ==
  \/ k = "structure" /\ s = "WaitForStructureLabelResponse"
  \/ k = "localization" /\ s = "WaitForLocalizationLabelResponse"
  \/ k = "deletion" /\ s = "WaitForDeleteObjectPoolResponse"
  \/ k = "memory" /\ s = "WaitForRequestTransferObjectPoolResponse"
  \/ k = "pool" /\ s \in {"WaitForDDOPTransfer", "WaitForObjectPoolTransferResponse"}
  \/ k = "activation" /\ s \in {"ProcessDDOP", "RequestStructureLabel", "WaitForStructureLabelResponse",
                 "WaitForObjectPoolActivateResponse", "WaitForObjectPoolDeactivateResponse"}

\* Until the six seconds of silence are over anything may still be under way
Loose == {"Disconnected", "WaitForStartUpDelay"}

\* In a connection at most one message of a kind is under way, the request or its
\* answer, and only in the states that wait for it
Line(s) == \A k \in Kinds : Once(k) /\ (~May(s, k) => Absent(k))
\* An answer to a deactivation that is late is read before the structure label
Overtaken ==
  /\ Behind("structure", "activation", toTC) /\ Behind("structure", "activation", toECU)
  /\ NoneOf("activation", toTC) \/ NoneOf("structure", toECU)
LineInv ==
  Phase \notin Loose =>
    /\ Line(Phase)
    /\ Phase = "WaitForStructureLabelResponse" => Overtaken
    /\ Phase = "WaitForObjectPoolActivateResponse" =>
         \A i \in DOMAIN toTC : toTC[i].fn # "Deactivate"
    /\ transfer # 0 => Phase = "WaitForDDOPTransfer" /\ transfer = client.pool /\ Absent("pool")
    /\ \A i \in DOMAIN toTC : toTC[i].fn = "ObjectPoolTransfer" => toTC[i].x = client.pool

\* What the client and the messages to it say of the pool that is stored and active
DataInv == client.label \in {0, client.pool} /\ client.binary \in {0, client.pool}
ConnectedInv ==
  client.state = "Connected" =>
    /\ server.active /\ server.stored = client.pool
    /\ Absent("deletion") /\ Absent("pool") /\ Absent("activation") /\ transfer = 0
ActivationInv ==
  /\ Phase \in {"SendObjectPoolActivate", "WaitForObjectPoolActivateResponse"} =>
       server.stored = client.pool
  /\ Phase = "WaitForObjectPoolActivateResponse" =>
       \A i \in DOMAIN toECU : toECU[i].fn = "ActivateResponse" /\ toECU[i].x = 0 => server.active
StoredInv ==
  Phase \in {"WaitForObjectPoolTransferResponse", "WaitForDDOPTransfer"} =>
    \A i \in DOMAIN toECU :
      toECU[i].fn = "TransferResponse" /\ toECU[i].x = 0 => server.stored = client.pool
LabelInv ==
  /\ Phase = "WaitForStructureLabelResponse" =>
       \A i \in DOMAIN toECU : toECU[i].fn = "StructureLabel" /\ toECU[i].x # 0 =>
         server.stored # 0 /\ toECU[i].x = Structure[server.stored]
  /\ Phase \in {"RequestLocalizationLabel", "WaitForLocalizationLabelResponse"} =>
       client.label # 0 /\ server.stored # 0 /\ Structure[server.stored] = Structure[client.label]
  /\ Phase = "WaitForLocalizationLabelResponse" =>
       \A i \in DOMAIN toECU : toECU[i].fn = "LocalizationLabel" /\ toECU[i].x # 0 =>
         server.stored # 0 /\ toECU[i].x = Localization[server.stored]
PoolInv == DataInv /\ (server.known => ConnectedInv /\ ActivationInv /\ StoredInv /\ LabelInv)

-----------------------------------------------------------------------------
(* The line *)

LEMMA TailLine ==
  ASSUME NEW S, NEW q \in Seq(S), q # <<>>, NEW k, NEW l
  PROVE  /\ NoneOf(k, q) => NoneOf(k, Tail(q)) /\ Kind(Head(q)) # k
         /\ OneOf(k, q) => OneOf(k, Tail(q))
         /\ OneOf(k, q) /\ Kind(Head(q)) = k => NoneOf(k, Tail(q))
         /\ Behind(k, l, q) => Behind(k, l, Tail(q))
         /\ Behind(k, l, q) /\ Kind(Head(q)) = k => NoneOf(l, q)
BY TailValues DEF NoneOf, OneOf, Behind

LEMMA AppendLine ==
  ASSUME NEW S, NEW q \in Seq(S), NEW m \in S, NEW k, NEW l
  PROVE  /\ NoneOf(k, q) /\ Kind(m) # k => NoneOf(k, Append(q, m))
         /\ OneOf(k, q) /\ (Kind(m) # k \/ NoneOf(k, q)) => OneOf(k, Append(q, m))
         /\ Behind(k, l, q) /\ k # l /\ (Kind(m) # l \/ NoneOf(k, q)) => Behind(k, l, Append(q, m))
BY AppendValues DEF NoneOf, OneOf, Behind

LEMMA NoneIsOne ==
  ASSUME NEW q, NEW k, NEW l, NoneOf(k, q)
  PROVE  OneOf(k, q) /\ Behind(k, l, q) /\ Behind(l, k, q)
BY DEF NoneOf, OneOf, Behind

LEMMA EmptyLine ==
  ASSUME NEW k, NEW l
  PROVE  NoneOf(k, <<>>) /\ OneOf(k, <<>>) /\ Behind(k, l, <<>>)
BY DEF NoneOf, OneOf, Behind

\* A message of the client
LEMMA SentLine ==
  ASSUME Typed, NEW m \in ToTC, toTC' = Append(toTC, m), toECU' = toECU, NEW k
  PROVE  /\ Kind(m) # k => (Absent(k) => Absent(k)') /\ (Once(k) => Once(k)')
         /\ Kind(m) = k /\ Absent(k) => Once(k)'
<1>1. toTC \in Seq(ToTC)
  BY Parts
<1> QED BY <1>1, AppendLine, NoneIsOne DEF Absent, Once

\* A message that is lost, or reaches the client
LEMMA TakenLine ==
  ASSUME Typed, NEW k,
         \/ toTC # <<>> /\ toTC' = Tail(toTC) /\ toECU' = toECU
         \/ toECU # <<>> /\ toECU' = Tail(toECU) /\ toTC' = toTC
  PROVE  (Absent(k) => Absent(k)') /\ (Once(k) => Once(k)')
<1>1. toTC \in Seq(ToTC) /\ toECU \in Seq(ToClient)
  BY Parts
<1>2. CASE toTC # <<>> /\ toTC' = Tail(toTC) /\ toECU' = toECU
  BY <1>1, <1>2, TailLine DEF Absent, Once
<1>3. CASE toECU # <<>> /\ toECU' = Tail(toECU) /\ toTC' = toTC
  BY <1>1, <1>3, TailLine DEF Absent, Once
<1> QED BY <1>2, <1>3

LEMMA ReadLine ==
  ASSUME Typed, toECU # <<>>, toECU' = Tail(toECU), toTC' = toTC,
         NEW k, k = Kind(Head(toECU)), Once(k)
  PROVE  Absent(k)'
<1>1. toECU \in Seq(ToClient)
  BY Parts
<1>2. ~NoneOf(k, toECU)
  BY <1>1, TailLine
<1>3. NoneOf(k, toTC) /\ NoneOf(k, Tail(toECU))
  BY <1>1, <1>2, TailLine DEF Once
<1> QED BY <1>3 DEF Absent

LEMMA ClearedLine ==
  ASSUME toTC' = <<>>, toECU' = toECU, NEW k
  PROVE  (Absent(k) => Absent(k)') /\ (Once(k) => Once(k)')
BY EmptyLine DEF Absent, Once

-----------------------------------------------------------------------------
(* The worker *)

Pairs ==
  {<<"WaitForRequestVersionFromServer", "RequestLanguage">>,
   <<"RequestLanguage", "WaitForLanguageResponse">>, <<"WaitForLanguageResponse", "ProcessDDOP">>,
   <<"ProcessDDOP", "RequestStructureLabel">>,
   <<"WaitForObjectPoolDeactivateResponse", "ProcessDDOP">>,
   <<"BeginTransferDDOP", "WaitForDDOPTransfer">>}

LEMMA WorkerPhase ==
  ASSUME BaseInv, Worker \/ Refused \/ Measure
  PROVE  /\ \/ Phase' \in Loose \/ Phase' = Phase
            \/ client.state \in SendState /\ Phase = client.state /\ client.work = "idle"
                 /\ Phase' = Request[client.state].next
            \/ Phase' = "WaitForServerStatusMessage" /\ SixSeconds
                 /\ client.state = "WaitForStartUpDelay" /\ client.work = "idle"
            \/ <<Phase, Phase'>> \in Pairs /\ client.work = "idle"
         /\ client'.state = "Connected" => client.state = "Connected"
<1> USE DEF BaseInv
<1>1. WorkerMoves(client.state, client.work, client'.state, client'.work)
  BY WorkerMove
<1>2. client.state \in SendState => Request[client.state].next \notin {"idle", "Connected"}
  BY SendStates, RequestTable
<1>3. \A p \in Pairs : p[2] # "idle"
  BY DEF Pairs
<1>4. client.work # "Connected"
  BY DEF WorkInv, Settable
<1> QED BY <1>1, <1>2, <1>3, <1>4 DEF WorkerMoves, Phase, Loose, Pairs

\* What the worker does to the data of the client and to the transfer
LEMMA WorkerData ==
  ASSUME BaseInv, Worker \/ Refused \/ Measure
  PROVE  /\ client'.pool = client.pool
         /\ \/ client'.label = client.label /\ client'.binary = client.binary
            \/ /\ Phase' = "RequestStructureLabel"
               /\ client'.label \in {client.label, client.pool}
               /\ client'.binary \in {client.binary, client.pool}
         /\ \/ transfer' = transfer
            \/ /\ Phase = "BeginTransferDDOP" /\ Phase' = "WaitForDDOPTransfer" /\ toTC' = toTC
               /\ transfer' \in {client.binary, client.pool} \ {0}
<1>0. client \in ClientType /\ WorkInv
  BY Parts DEF BaseInv
<1>1. CASE WorkProcessDDOP
  BY <1>0, <1>1 DEF WorkProcessDDOP, Idle, Quiet, SetState, ClientType, Phase
<1>2. CASE WorkBeginTransfer
  <2>1. client.work = "idle" /\ client.state = "BeginTransferDDOP" /\ toTC' = toTC
        /\ transfer' \in {client.binary, client.pool} \ {0}
    BY <1>2 DEF WorkBeginTransfer, Idle, Data
  <2>2. client' = SetState(client, "WaitForDDOPTransfer") \/ client' = [client EXCEPT !.work = "WaitForDDOPTransfer"]
    BY <1>2 DEF WorkBeginTransfer, Becomes
  <2> QED BY <1>0, <2>1, <2>2 DEF SetState, ClientType, Phase
<1>3. CASE \/ WorkDisconnected \/ WorkStartUpDelay \/ WorkRequest \/ WorkSets \/ WorkLanguage
           \/ WorkConnected \/ WorkRequestQueue \/ WorkValueQueue \/ WorkTimesOut \/ WorkNotAsked
           \/ WorkRefused \/ WorkMeasure
  BY <1>0, <1>3 DEF Quiet, WorkDisconnected, WorkStartUpDelay, WorkRequest, WorkSets, WorkLanguage,
     WorkConnected, WorkRequestQueue, WorkValueQueue, WorkTimesOut, WorkNotAsked, WorkRefused,
     WorkMeasure, Becomes, SetState, Terminated, ClientType
<1> QED BY <1>1, <1>2, <1>3 DEF Worker, Refused, Measure

\* The request of a state: of which kind it is, and that nothing of it is under way
LEMMA RequestKinds ==
  ASSUME NEW s \in SendState
  PROVE  LET m == Msg(Request[s].fn, 0)
         IN  /\ Kind(m) # "other" => ~May(s, Kind(m)) /\ May(Request[s].next, Kind(m))
             /\ \A k \in Kinds : May(s, k) => May(Request[s].next, k)
             /\ Request[s].next = "WaitForStructureLabelResponse" => Kind(m) = "structure"
             /\ Request[s].next = "WaitForLocalizationLabelResponse" =>
                  Kind(m) = "localization" /\ s = "RequestLocalizationLabel"
             /\ Request[s].next = "WaitForObjectPoolActivateResponse" =>
                  m.fn = "Activate" /\ Kind(m) = "activation" /\ s = "SendObjectPoolActivate"
             /\ Request[s].next \notin {"WaitForDDOPTransfer", "WaitForObjectPoolTransferResponse",
                                        "SendObjectPoolActivate", "RequestLocalizationLabel"}
             /\ m.fn # "ObjectPoolTransfer"
BY SendStates, RequestTable DEF Msg, Kind, May, Kinds

LEMMA LineRequest ==
  ASSUME BaseInv, LineInv, WorkerRequests, UNCHANGED toECU, client'.pool = client.pool
  PROVE  LineInv'
<1> DEFINE s == client.state
           m == Msg(Request[s].fn, 0)
<1>0. /\ toTC \in Seq(ToTC) /\ toECU \in Seq(ToClient) /\ m \in ToTC /\ toTC' = Append(toTC, m)
      /\ s \in SendState /\ s = Phase /\ transfer' = transfer /\ Phase' = Request[s].next
  <2>1. s \in SendState => Request[s].next # "idle"
    BY SendStates, RequestTable
  <2> QED BY <2>1, Parts DEF BaseInv, WorkerRequests, Phase
<1>1. Typed
  BY DEF BaseInv
<1>2. s \notin Loose \cup {"WaitForDDOPTransfer"}
  BY <1>0, SendStates DEF Loose
<1>3. Line(s) /\ transfer = 0
  BY <1>0, <1>2 DEF LineInv
<1>4. /\ Kind(m) # "other" => ~May(s, Kind(m)) /\ May(Request[s].next, Kind(m))
      /\ \A k \in Kinds : May(s, k) => May(Request[s].next, k)
      /\ Request[s].next = "WaitForStructureLabelResponse" => Kind(m) = "structure"
      /\ Request[s].next = "WaitForObjectPoolActivateResponse" =>
           m.fn = "Activate" /\ s = "SendObjectPoolActivate"
      /\ m.fn # "ObjectPoolTransfer"
  BY <1>0, RequestKinds
<1> HIDE DEF m, s
<1>5. \A k \in Kinds : Kind(m) = k => Absent(k)
  BY <1>3, <1>4 DEF Line, Kinds
<1>6. ASSUME NEW k \in Kinds
      PROVE  Once(k)' /\ (~May(Request[s].next, k) => Absent(k)')
  <2>1. Once(k) /\ (~May(Request[s].next, k) => Absent(k) /\ Kind(m) # k)
    BY <1>3, <1>4, <1>5 DEF Line, Kinds
  <2> QED BY <1>0, <1>1, <1>5, <2>1, SentLine
<1>7. ASSUME Request[s].next = "WaitForStructureLabelResponse"
      PROVE  Overtaken'
  <2>1. Kind(m) = "structure" /\ Absent("structure")
    BY <1>4, <1>5, <1>7 DEF Kinds
  <2>2. Behind("structure", "activation", toTC) /\ Behind("structure", "activation", toECU)
    BY <2>1, NoneIsOne DEF Absent
  <2> QED BY <1>0, <2>1, <2>2, AppendLine DEF Overtaken, Absent
<1>8. ASSUME NEW i \in DOMAIN toTC'
      PROVE  (i \in DOMAIN toTC /\ toTC'[i] = toTC[i]) \/ toTC'[i] = m
  BY <1>0, AppendValues
<1>9. Request[s].next = "WaitForObjectPoolActivateResponse" =>
        \A i \in DOMAIN toTC' : toTC'[i].fn # "Deactivate"
  <2>1. s = "SendObjectPoolActivate" => Absent("activation")
    BY <1>3 DEF Line, Kinds, May
  <2>2. Absent("activation") => \A i \in DOMAIN toTC : toTC[i].fn # "Deactivate"
    BY DEF Absent, NoneOf, Kind
  <2> QED BY <1>4, <1>8, <2>1, <2>2
<1>10. \A i \in DOMAIN toTC' : toTC'[i].fn = "ObjectPoolTransfer" => toTC'[i].x = client.pool
  BY <1>0, <1>2, <1>4, <1>8 DEF LineInv
<1> QED BY <1>0, <1>3, <1>6, <1>7, <1>9, <1>10 DEF LineInv, Line

LEMMA LineWorker ==
  ASSUME BaseInv, LineInv, DataInv, Worker \/ Refused \/ Measure
  PROVE  LineInv'
<1>0. toECU' = toECU /\ client'.pool = client.pool
  BY WorkerMove, WorkerData DEF BaseInv
<1>1. CASE WorkerRequests
  BY <1>0, <1>1, LineRequest
<1>2. CASE WorkerAnswers
  <2>1. PICK m \in ToTC : m.fn \in {"Value", "Acknowledge"} /\ toTC' = Append(toTC, m)
    BY <1>2 DEF WorkerAnswers
  <2>2. Kind(m) = "other" /\ m.fn \notin {"Deactivate", "ObjectPoolTransfer"} /\ toTC \in Seq(ToTC)
    BY <2>1, Parts DEF Kind, BaseInv
  <2>3. \A k \in Kinds : (Absent(k) => Absent(k)') /\ (Once(k) => Once(k)')
    BY <1>0, <2>1, <2>2, SentLine DEF BaseInv, Kinds
  <2>4. Phase' = Phase /\ Phase = "Connected" /\ transfer' = transfer
    BY <1>2 DEF WorkerAnswers, Phase
  <2>5. \A i \in DOMAIN toTC' : (i \in DOMAIN toTC /\ toTC'[i] = toTC[i]) \/ toTC'[i] = m
    BY <2>1, <2>2, AppendValues
  <2> QED BY <1>0, <2>2, <2>3, <2>4, <2>5 DEF LineInv, Line, Loose
<1>3. CASE WorkerKeeps
  <2>1. toTC' = toTC
    BY <1>3 DEF WorkerKeeps
  <2>2. \A k : Absent(k)' = Absent(k) /\ Once(k)' = Once(k)
    BY <1>0, <2>1 DEF Absent, Once
  <2>3. CASE Phase' = Phase /\ transfer' = transfer
    BY <1>0, <2>1, <2>2, <2>3 DEF LineInv, Line, Overtaken
  <2>4. CASE Phase' = "WaitForServerStatusMessage" /\ SixSeconds
    <3>1. transfer' = 0
      BY <2>4, WorkerData DEF SixSeconds
    <3>2. \A k \in Kinds : Absent(k)' /\ Once(k)'
      BY <1>0, <2>1, <2>4, EmptyLine DEF SixSeconds, Absent, Once
    <3> QED BY <1>0, <2>1, <2>4, <3>1, <3>2 DEF LineInv, Line, SixSeconds
  <2>5. CASE <<Phase, Phase'>> \in Pairs
    <3>1. Phase \notin Loose \cup {"WaitForDDOPTransfer"}
      BY <2>5 DEF Pairs, Loose
    <3>2. Line(Phase) /\ transfer = 0
      BY <3>1 DEF LineInv
    <3>3. \A k \in Kinds : May(Phase, k) => May(Phase', k)
      BY <2>5 DEF Pairs, May
    <3>4. Line(Phase)'
      BY <2>2, <3>2, <3>3 DEF Line
    <3>5. transfer' # 0 => Phase' = "WaitForDDOPTransfer" /\ transfer' = client.pool /\ Absent("pool")'
      <4>1. Phase = "BeginTransferDDOP" => Absent("pool")
        BY <3>2 DEF Line, May, Kinds
      <4> QED BY <2>2, <3>2, <4>1, WorkerData DEF DataInv
    <3>6. Phase' \notin {"WaitForStructureLabelResponse", "WaitForObjectPoolActivateResponse"}
      BY <2>5 DEF Pairs
    <3> QED BY <1>0, <2>1, <3>1, <3>4, <3>5, <3>6 DEF LineInv
  <2>6. CASE Phase' \in Loose
    BY <2>6 DEF LineInv
  <2>7. ASSUME client.state \in SendState, client.work = "idle"
        PROVE  Phase' \in {Phase} \cup Loose
    BY <1>3, <2>7 DEF WorkerKeeps, Phase, Loose
  <2>8. Phase' = Phase => transfer' = transfer
    BY WorkerData
  <2> QED BY <2>3, <2>4, <2>5, <2>6, <2>7, <2>8, WorkerPhase
<1> QED BY <1>1, <1>2, <1>3, WorkerTraffic DEF BaseInv

LEMMA PoolWorker ==
  ASSUME BaseInv, LineInv, PoolInv, Worker \/ Refused \/ Measure
  PROVE  PoolInv'
<1>0. /\ UNCHANGED <<toECU, server>> /\ client'.pool = client.pool
      /\ client'.state = "Connected" => client.state = "Connected"
  BY WorkerMove, WorkerData, WorkerPhase DEF BaseInv
<1>1. DataInv'
  BY <1>0, WorkerData DEF PoolInv, DataInv
<1> SUFFICES ASSUME server.known
             PROVE  (ConnectedInv /\ ActivationInv /\ StoredInv /\ LabelInv)'
  BY <1>0, <1>1 DEF PoolInv
<1>2. ConnectedInv /\ ActivationInv /\ StoredInv /\ LabelInv
  BY DEF PoolInv
<1>3. ConnectedInv'
  <2> SUFFICES ASSUME client.state = "Connected"
               PROVE  /\ Absent("deletion")' /\ Absent("pool")' /\ Absent("activation")'
                      /\ transfer' = 0
    BY <1>0, <1>2 DEF ConnectedInv
  <2>1. transfer' = transfer
    <3>1. Phase # "BeginTransferDDOP"
      BY DEF Phase, BaseInv, WorkInv, Settable
    <3> QED BY <3>1, WorkerData
  <2>2. "Connected" \notin SendState
    BY SendStates
  <2>3. \/ toTC' = toTC
        \/ \E m \in ToTC : m.fn \in {"Value", "Acknowledge"} /\ toTC' = Append(toTC, m)
    BY <2>2, WorkerTraffic DEF WorkerKeeps, WorkerRequests, WorkerAnswers, BaseInv
  <2>4. \A k \in Kinds : Absent(k) => Absent(k)'
    <3>1. CASE toTC' = toTC
      BY <1>0, <3>1 DEF Absent
    <3>2. ASSUME NEW m \in ToTC, m.fn \in {"Value", "Acknowledge"}, toTC' = Append(toTC, m)
          PROVE  \A k \in Kinds : Absent(k) => Absent(k)'
      <4>1. Kind(m) = "other"
        BY <3>2 DEF Kind
      <4> QED BY <1>0, <3>2, <4>1, SentLine DEF BaseInv, Kinds
    <3> QED BY <2>3, <3>1, <3>2
  <2> QED BY <1>2, <2>1, <2>4 DEF ConnectedInv, Kinds
\* Where a wait begins, no answer is on its way that would count
<1>4. ASSUME client.state \in SendState, Phase = client.state
      PROVE  \A k \in Kinds : ~May(client.state, k) => Absent(k)
  <2>1. Phase \notin Loose
    BY <1>4, SendStates DEF Loose
  <2> QED BY <1>4, <2>1 DEF LineInv, Line
<1>5. client.state \in SendState =>
        /\ Request[client.state].next = "WaitForStructureLabelResponse" =>
             client.state = "RequestStructureLabel"
        /\ Request[client.state].next = "WaitForLocalizationLabelResponse" =>
             client.state = "RequestLocalizationLabel"
        /\ Request[client.state].next = "WaitForObjectPoolActivateResponse" =>
             client.state = "SendObjectPoolActivate"
        /\ Request[client.state].next \notin {"WaitForDDOPTransfer", "WaitForObjectPoolTransferResponse",
                                        "SendObjectPoolActivate", "RequestLocalizationLabel"}
  BY SendStates, RequestTable
<1>6. ActivationInv'
  <2>1. CASE Phase' = Phase
    BY <1>0, <1>2, <2>1 DEF ActivationInv
  <2>2. CASE Phase' # Phase
    <3>1. Phase' # "SendObjectPoolActivate"
      BY <1>5, <2>2, WorkerPhase DEF Pairs, Loose
    <3>2. ASSUME Phase' = "WaitForObjectPoolActivateResponse"
          PROVE  Phase = "SendObjectPoolActivate" /\ Absent("activation")
      BY <1>4, <1>5, <2>2, <3>2, WorkerPhase DEF Pairs, Loose, Kinds, May
    <3>3. Absent("activation") => \A i \in DOMAIN toECU : toECU[i].fn # "ActivateResponse"
      BY DEF Absent, NoneOf, Kind
    <3> QED BY <1>0, <1>2, <3>1, <3>2, <3>3 DEF ActivationInv
  <2> QED BY <2>1, <2>2
<1>7. StoredInv'
  <2>1. CASE Phase' = Phase
    BY <1>0, <1>2, <2>1 DEF StoredInv
  <2>2. CASE Phase' # Phase
    <3>1. Phase' # "WaitForObjectPoolTransferResponse"
      BY <1>5, <2>2, WorkerPhase DEF Pairs, Loose
    <3>2. ASSUME Phase' = "WaitForDDOPTransfer"
          PROVE  Absent("pool")
      <4>1. Phase = "BeginTransferDDOP"
        BY <1>5, <2>2, <3>2, WorkerPhase DEF Pairs, Loose
      <4> QED BY <4>1 DEF LineInv, Line, Loose, Kinds, May
    <3>3. Absent("pool") => \A i \in DOMAIN toECU : toECU[i].fn # "TransferResponse"
      BY DEF Absent, NoneOf, Kind
    <3> QED BY <1>0, <3>1, <3>2, <3>3 DEF StoredInv
  <2> QED BY <2>1, <2>2
<1>8. LabelInv'
  <2>1. Phase' # "RequestStructureLabel" => client'.label = client.label
    BY WorkerData
  <2>2. CASE Phase' = Phase
    BY <1>0, <1>2, <2>1, <2>2 DEF LabelInv
  <2>3. CASE Phase' # Phase
    <3>1. Phase' # "RequestLocalizationLabel"
      BY <1>5, <2>3, WorkerPhase DEF Pairs, Loose
    <3>2. ASSUME Phase' = "WaitForStructureLabelResponse"
          PROVE  Absent("structure")
      BY <1>4, <1>5, <2>3, <3>2, WorkerPhase DEF Pairs, Loose, Kinds, May
    <3>3. ASSUME Phase' = "WaitForLocalizationLabelResponse"
          PROVE  Phase = "RequestLocalizationLabel" /\ Absent("localization")
      BY <1>4, <1>5, <2>3, <3>3, WorkerPhase DEF Pairs, Loose, Kinds, May
    <3>4. /\ Absent("structure") => \A i \in DOMAIN toECU : toECU[i].fn # "StructureLabel"
          /\ Absent("localization") => \A i \in DOMAIN toECU : toECU[i].fn # "LocalizationLabel"
      BY DEF Absent, NoneOf, Kind
    <3> QED BY <1>0, <1>2, <2>1, <3>1, <3>2, <3>3, <3>4 DEF LabelInv
  <2> QED BY <2>2, <2>3
<1> QED BY <1>3, <1>6, <1>7, <1>8

-----------------------------------------------------------------------------
(* A message is read *)

LEMMA ReadingLine ==
  ASSUME BaseInv, Reading
  PROVE  /\ toECU \in Seq(ToClient) /\ toECU # <<>> /\ toECU' = Tail(toECU)
         /\ UNCHANGED <<toTC, transfer, server>>
         /\ client'.pool = client.pool /\ client'.label = client.label /\ client'.binary = client.binary
         /\ \A k : (Absent(k) => Absent(k)') /\ (Once(k) => Once(k)')
         /\ 1 \in DOMAIN toECU /\ Head(toECU) = toECU[1]
         /\ \A i \in DOMAIN toECU' : i + 1 \in DOMAIN toECU /\ toECU'[i] = toECU[i + 1]
         /\ \/ Phase' = Phase
            \/ client.work = "idle" /\ Phase = client.state /\ Phase' = client'.state
                 /\ ReadingMoves(client.state, client'.state)
         /\ client'.state = "Connected" /\ client.state # "Connected" =>
              /\ Phase = "WaitForObjectPoolActivateResponse" /\ client.work = "idle"
              /\ Head(toECU).fn = "ActivateResponse" /\ Answer = 0
<1> USE DEF BaseInv
<1>1. /\ toECU # <<>> /\ toECU' = Tail(toECU) /\ UNCHANGED <<toTC, transfer, server>>
      /\ ReadingMoves(client.state, client'.state) /\ client'.work = client.work
      /\ client'.pool = client.pool /\ client'.label = client.label /\ client'.binary = client.binary
  BY ReadingMove
<1>2. \A k : (Absent(k) => Absent(k)') /\ (Once(k) => Once(k)')
  BY <1>1, TakenLine
<1>3. toECU \in Seq(ToClient)
  BY Parts
<1>4. /\ 1 \in DOMAIN toECU /\ Head(toECU) = toECU[1]
      /\ \A i \in DOMAIN toECU' : i + 1 \in DOMAIN toECU /\ toECU'[i] = toECU[i + 1]
  BY <1>1, <1>3, TailValues
<1>5. client.work # "idle" => client.state # "WaitForObjectPoolActivateResponse"
  BY SendStates DEF WorkInv
<1>6. client'.state = "Connected" /\ client.state # "Connected" =>
              /\ Phase = "WaitForObjectPoolActivateResponse" /\ client.work = "idle"
              /\ Head(toECU).fn = "ActivateResponse" /\ Answer = 0
  BY <1>1, <1>5 DEF ReadingMoves, Phase
<1>7. \/ Phase' = Phase
      \/ client.work = "idle" /\ Phase = client.state /\ Phase' = client'.state
           /\ ReadingMoves(client.state, client'.state)
  BY <1>1 DEF Phase
<1> QED BY <1>1, <1>2, <1>3, <1>4, <1>6, <1>7

LEMMA LineReading ==
  ASSUME BaseInv, LineInv, Reading
  PROVE  LineInv'
<1> DEFINE k == Kind(Head(toECU))
<1> SUFFICES ASSUME Phase' \notin Loose PROVE LineInv'
  BY DEF LineInv
<1>1. CASE Phase' = Phase
  <2>1. Line(Phase)'
    BY <1>1, ReadingLine DEF LineInv, Line
  <2>2. Phase' = "WaitForStructureLabelResponse" => Overtaken'
    <3>1. /\ toECU \in Seq(ToClient) /\ toECU # <<>> /\ toECU' = Tail(toECU) /\ toTC' = toTC
      BY ReadingLine
    <3>2. /\ Behind("structure", "activation", toECU) => Behind("structure", "activation", Tail(toECU))
          /\ NoneOf("structure", toECU) => NoneOf("structure", Tail(toECU))
      BY <3>1, TailLine
    <3> QED BY <1>1, <3>1, <3>2 DEF LineInv, Overtaken
  <2> QED BY <1>1, <2>1, <2>2, ReadingLine DEF LineInv
<1>2. CASE Phase' # Phase
  <2>1. Phase = client.state /\ Phase' = client'.state /\ ReadingMoves(Phase, Phase') /\ Phase \notin Loose
    BY <1>2, ReadingLine DEF ReadingMoves, Loose
  <2>2. Line(Phase) /\ transfer = 0
    BY <1>2, <2>1 DEF LineInv, ReadingMoves, Loose
  <2>3. /\ May(Phase, "structure") => k = "structure"
        /\ May(Phase, "localization") => k = "localization"
        /\ May(Phase, "deletion") => k = "deletion"
        /\ May(Phase, "memory") => k = "memory"
        /\ May(Phase, "pool") => k = "pool"
        /\ May(Phase, "activation") => k \in {"activation", "structure"}
    BY <1>2, <2>1 DEF ReadingMoves, Kind, May, Loose
  <2>4. k = "structure" /\ May(Phase, "activation") => Absent("activation")
    <3>1. ASSUME k = "structure", May(Phase, "activation") PROVE Phase = "WaitForStructureLabelResponse"
      BY <1>2, <2>1, <3>1 DEF ReadingMoves, May, Kind, Loose
    <3> QED BY <2>1, <3>1, ReadingLine, TailLine DEF LineInv, Overtaken, Absent
  <2>5. ASSUME NEW l \in Kinds, l = k PROVE Absent(l)'
    BY <2>2, <2>5, ReadingLine, ReadLine DEF Line, BaseInv
  <2>6. \A l \in Kinds : Once(l)' /\ Absent(l)'
    BY <2>2, <2>3, <2>4, <2>5, ReadingLine DEF Line, Kinds
  <2>7. Phase' \notin {"WaitForStructureLabelResponse", "WaitForObjectPoolActivateResponse"}
    BY <1>2, <2>1 DEF ReadingMoves, Loose
  <2>8. \A i \in DOMAIN toTC' : toTC'[i].fn = "ObjectPoolTransfer" => toTC'[i].x = client'.pool
    BY <2>1, ReadingLine DEF LineInv
  <2> QED BY <2>2, <2>6, <2>7, <2>8, ReadingLine DEF LineInv, Line
<1> QED BY <1>1, <1>2

LEMMA PoolReading ==
  ASSUME BaseInv, LineInv, PoolInv, Reading
  PROVE  PoolInv'
<1>0. server' = server /\ client'.pool = client.pool /\ client'.label = client.label /\ DataInv'
  BY ReadingLine DEF PoolInv, DataInv
<1> SUFFICES ASSUME server.known
             PROVE  (ConnectedInv /\ ActivationInv /\ StoredInv /\ LabelInv)'
  BY <1>0 DEF PoolInv
<1>1. ConnectedInv /\ ActivationInv /\ StoredInv /\ LabelInv /\ DataInv
  BY DEF PoolInv
<1>2. ConnectedInv'
  <2>1. CASE client.state = "Connected"
    BY <1>0, <1>1, <2>1, ReadingLine DEF ConnectedInv
  <2>2. CASE client.state # "Connected" /\ client'.state = "Connected"
    <3>1. Phase = "WaitForObjectPoolActivateResponse" /\ Kind(Head(toECU)) = "activation"
          /\ Head(toECU) = toECU[1] /\ 1 \in DOMAIN toECU /\ toECU[1].fn = "ActivateResponse" /\ toECU[1].x = 0
      BY <2>2, ReadingLine DEF Kind, Answer
    <3>2. server.active /\ server.stored = client.pool
      BY <1>1, <3>1 DEF ActivationInv
    <3>3. Line(Phase) /\ transfer = 0
      BY <3>1 DEF LineInv, Loose
    <3>4. Absent("activation")'
      BY <3>1, <3>3, ReadingLine, ReadLine DEF Line, Kinds, BaseInv
    <3>5. Absent("deletion")' /\ Absent("pool")'
      BY <3>1, <3>3, ReadingLine DEF Line, Kinds, May
    <3> QED BY <1>0, <3>2, <3>3, <3>4, <3>5, ReadingLine DEF ConnectedInv
  <2> QED BY <2>1, <2>2 DEF ConnectedInv
<1>3. CASE Phase' = Phase
  <2>1. ActivationInv' /\ StoredInv' /\ LabelInv'
    BY <1>0, <1>1, <1>3, ReadingLine DEF ActivationInv, StoredInv, LabelInv
  <2> QED BY <1>2, <2>1
<1>4. CASE Phase' # Phase
  <2>1. /\ ReadingMoves(Phase, Phase')
        /\ Head(toECU) = toECU[1] /\ 1 \in DOMAIN toECU
    BY <1>4, ReadingLine
  <2>2. ActivationInv'
    <3>1. Phase' # "WaitForObjectPoolActivateResponse"
      BY <1>4, <2>1 DEF ReadingMoves
    <3>2. ASSUME Phase' = "SendObjectPoolActivate" PROVE server.stored = client.pool
      <4>1. CASE Phase = "WaitForObjectPoolTransferResponse"
        BY <1>1, <2>1, <3>2, <4>1 DEF ReadingMoves, StoredInv, Answer
      <4>2. CASE Phase = "WaitForLocalizationLabelResponse"
        <5>1. /\ Head(toECU).fn = "LocalizationLabel" /\ Answer # 0 /\ client.label # 0
              /\ Answer = Localization[client.label]
          BY <1>4, <2>1, <3>2, <4>2 DEF ReadingMoves
        <5>2. server.stored # 0 /\ Localization[server.stored] = Localization[client.label]
              /\ Structure[server.stored] = Structure[client.label]
          BY <1>1, <2>1, <4>2, <5>1 DEF LabelInv, Answer
        <5>3. server.stored \in Pool /\ client.label \in Pool
          BY <5>1, <5>2, Parts DEF BaseInv, ServerType, ClientType
        <5> QED BY <1>1, <5>1, <5>2, <5>3, PoolAssumption DEF DataInv
      <4> QED BY <1>4, <2>1, <3>2, <4>1, <4>2 DEF ReadingMoves
    <3> QED BY <1>0, <3>1, <3>2 DEF ActivationInv
  <2>3. StoredInv'
    BY <1>4, <2>1 DEF ReadingMoves, StoredInv
  <2>4. LabelInv'
    <3>1. Phase' \notin {"WaitForStructureLabelResponse", "WaitForLocalizationLabelResponse"}
      BY <1>4, <2>1 DEF ReadingMoves
    <3>2. ASSUME Phase' = "RequestLocalizationLabel"
          PROVE  client.label # 0 /\ server.stored # 0 /\ Structure[server.stored] = Structure[client.label]
      BY <1>1, <1>4, <2>1, <3>2 DEF ReadingMoves, LabelInv, Answer
    <3> QED BY <1>0, <3>1, <3>2 DEF LabelInv
  <2> QED BY <1>2, <2>2, <2>3, <2>4
<1> QED BY <1>3, <1>4

-----------------------------------------------------------------------------
(* A message is served *)

\* What a positive answer says of the task controller
Tells(m) ==
  /\ m.fn = "StructureLabel" /\ m.x # 0 => server.stored # 0 /\ m.x = Structure[server.stored]
  /\ m.fn = "LocalizationLabel" /\ m.x # 0 => server.stored # 0 /\ m.x = Localization[server.stored]
  /\ m.fn = "TransferResponse" /\ m.x = 0 =>
       Head(toTC).fn = "ObjectPoolTransfer" /\ server'.stored = Head(toTC).x
  /\ m.fn = "ActivateResponse" /\ m.x = 0 => server'.active \/ Head(toTC).fn = "Deactivate"

LEMMA ServedAnswer ==
  ASSUME Typed, Serve
  PROVE  \/ toECU' = toECU
         \/ \E m \in ToClient : toECU' = Append(toECU, m) /\ Kind(m) \in {Kind(Head(toTC)), "other"} /\ Tells(m)
         \/ \E m, n \in ToClient : /\ toECU' = Append(Append(toECU, m), n)
                                   /\ Kind(m) = "other" /\ Kind(n) = "other"
<1>0. server \in ServerType /\ toECU \in Seq(ToClient)
  BY Parts
<1>1. Reports({"structure", "both"}, Structure) \in Nat /\ Reports({"both"}, Localization) \in Nat
  BY <1>0, PoolAssumption DEF Reports, ServerType
<1>2. \A x \in Nat : \A fn \in {"ParameterVersion", "RequestVersion", "StructureLabel",
           "LocalizationLabel", "DeleteResponse", "RequestTransferResponse", "TransferResponse",
           "ActivateResponse", "Nack"} : Msg(fn, x) \in ToClient
  BY DEF Msg, ToClient
<1>3. CASE ServeWorkingSetMaster \/ ServeClientTask \/ ServeParameterVersion \/ ServeValue
  BY <1>3 DEF ServeWorkingSetMaster, ServeClientTask, ServeParameterVersion, ServeValue
<1>4. CASE ServeRequestVersion
  <2> DEFINE m == Msg("ParameterVersion", 0)
             n == Msg("RequestVersion", 0)
  <2>1. m \in ToClient /\ n \in ToClient /\ Kind(m) = "other" /\ Kind(n) = "other"
    BY <1>2 DEF Msg, Kind
  <2>2. toECU' = toECU \o <<m, n>>
    BY <1>4 DEF ServeRequestVersion, ToECU
  <2> HIDE DEF m, n
  <2>3. toECU \o <<m, n>> = Append(Append(toECU, m), n)
    BY <1>0, <2>1
  <2> QED BY <2>1, <2>2, <2>3
<1>5. CASE \/ ServeStranger \/ ServeLabels \/ ServeRequestTransfer \/ ServeObjectPoolTransfer
           \/ ServeActivate \/ ServeDeactivate \/ ServeDelete
  <2>1. \E m \in ToClient : toECU' = toECU \o <<m>> /\ Kind(m) \in {Kind(Head(toTC)), "other"} /\ Tells(m)
    <3>1. CASE ServeStranger
      <4>1. Msg("Nack", 0) \in ToClient /\ Kind(Msg("Nack", 0)) = "other" /\ Tells(Msg("Nack", 0))
        BY <1>2 DEF Msg, Kind, Tells
      <4> QED BY <3>1, <4>1 DEF ServeStranger, ToECU
    <3>2. CASE ServeLabels
      <4>1. /\ server.stored = 0 => Reports({"structure", "both"}, Structure) = 0
                                     /\ Reports({"both"}, Localization) = 0
            /\ Reports({"structure", "both"}, Structure) \in {0, Structure[server.stored]}
            /\ Reports({"both"}, Localization) \in {0, Localization[server.stored]}
        BY DEF Reports
      <4>2. \/ Head(toTC).fn = "RequestStructureLabel"
                 /\ toECU' = toECU \o <<Msg("StructureLabel", Reports({"structure", "both"}, Structure))>>
            \/ Head(toTC).fn = "RequestLocalizationLabel"
                 /\ toECU' = toECU \o <<Msg("LocalizationLabel", Reports({"both"}, Localization))>>
        BY <3>2 DEF ServeLabels, Arrived, ToECU
      <4>3. ASSUME NEW x \in Nat, NEW fn \in {"StructureLabel", "LocalizationLabel"},
                   fn = "StructureLabel" => Head(toTC).fn = "RequestStructureLabel"
                     /\ (x # 0 => server.stored # 0 /\ x = Structure[server.stored]),
                   fn = "LocalizationLabel" => Head(toTC).fn = "RequestLocalizationLabel"
                     /\ (x # 0 => server.stored # 0 /\ x = Localization[server.stored])
            PROVE  Msg(fn, x) \in ToClient /\ Kind(Msg(fn, x)) = Kind(Head(toTC)) /\ Tells(Msg(fn, x))
        BY <1>2, <4>3 DEF Msg, Kind, Tells
      <4> QED BY <1>1, <4>1, <4>2, <4>3
    <3>3. CASE ServeRequestTransfer \/ ServeDelete
      <4>1. \A fn \in {"RequestTransferResponse", "DeleteResponse"}, x \in {0, 1} :
              Msg(fn, x) \in ToClient /\ Tells(Msg(fn, x))
        BY <1>2 DEF Msg, Tells
      <4>2. \/ /\ Head(toTC).fn = "RequestTransfer"
               /\ \E x \in {0, 1} : toECU' = toECU \o <<Msg("RequestTransferResponse", x)>>
            \/ Head(toTC).fn = "Delete" /\ toECU' = toECU \o <<Msg("DeleteResponse", 0)>>
        BY <3>3 DEF ServeRequestTransfer, ServeDelete, Arrived, ToECU
      <4>3. /\ \A x : Kind(Msg("RequestTransferResponse", x)) = "memory"
            /\ \A x : Kind(Msg("DeleteResponse", x)) = "deletion"
            /\ Head(toTC).fn = "RequestTransfer" => Kind(Head(toTC)) = "memory"
            /\ Head(toTC).fn = "Delete" => Kind(Head(toTC)) = "deletion"
        BY DEF Msg, Kind
      <4> QED BY <4>1, <4>2, <4>3
    <3>4. CASE ServeObjectPoolTransfer
      <4>1. Head(toTC).fn = "ObjectPoolTransfer"
        BY <3>4 DEF ServeObjectPoolTransfer, Arrived
      <4>2. \E x \in {0, 2} : toECU' = toECU \o <<Msg("TransferResponse", x)>>
                               /\ (x = 0 => server'.stored = Head(toTC).x)
        <5>1. CASE UNCHANGED server /\ ToECU(<<Msg("TransferResponse", 2)>>)
          BY <5>1 DEF ToECU
        <5>2. CASE server' = [server EXCEPT !.stored = Head(toTC).x] /\ ToECU(<<Msg("TransferResponse", 0)>>)
          BY <1>0, <5>2 DEF ToECU, ServerType
        <5> QED BY <3>4, <5>1, <5>2 DEF ServeObjectPoolTransfer
      <4>3. \A x \in {0, 2} : (x = 0 => server'.stored = Head(toTC).x) =>
              /\ Msg("TransferResponse", x) \in ToClient
              /\ Kind(Msg("TransferResponse", x)) = Kind(Head(toTC)) /\ Tells(Msg("TransferResponse", x))
        BY <1>2, <4>1 DEF Msg, Kind, Tells
      <4> QED BY <4>2, <4>3
    <3>5. CASE ServeActivate \/ ServeDeactivate
      <4>1. Head(toTC).fn \in {"Activate", "Deactivate"}
        BY <3>5 DEF ServeActivate, ServeDeactivate, Arrived
      <4>2. \E x \in {0, 4} : toECU' = toECU \o <<Msg("ActivateResponse", x)>>
                               /\ (x = 0 => server'.active \/ Head(toTC).fn = "Deactivate")
        BY <1>0, <3>5 DEF ServeActivate, ServeDeactivate, Arrived, ToECU, ServerType
      <4>3. \A x \in {0, 4} : (x = 0 => server'.active \/ Head(toTC).fn = "Deactivate") =>
              /\ Msg("ActivateResponse", x) \in ToClient
              /\ Kind(Msg("ActivateResponse", x)) = Kind(Head(toTC)) /\ Tells(Msg("ActivateResponse", x))
        BY <1>2, <4>1 DEF Msg, Kind, Tells
      <4> QED BY <4>2, <4>3
    <3> QED BY <1>5, <3>1, <3>2, <3>3, <3>4, <3>5
  <2>2. PICK m \in ToClient : toECU' = toECU \o <<m>> /\ Kind(m) \in {Kind(Head(toTC)), "other"} /\ Tells(m)
    BY <2>1
  <2>3. toECU' = Append(toECU, m)
    BY <1>0, <2>2, ConcatValues
  <2> QED BY <2>2, <2>3
<1> QED BY <1>3, <1>4, <1>5 DEF Serve

LEMMA ServedLine ==
  ASSUME Typed, Serve, NEW k \in Kinds
  PROVE  (Absent(k) => Absent(k)') /\ (Once(k) => Once(k)')
<1>1. /\ toTC \in Seq(ToTC) /\ toECU \in Seq(ToClient) /\ toTC # <<>> /\ toTC' = Tail(toTC)
      /\ k # "other"
  BY Parts, ServingParts DEF Kinds
<1>2. CASE toECU' = toECU
  BY <1>1, <1>2, TailLine DEF Absent, Once
<1>3. ASSUME NEW m \in ToClient, toECU' = Append(toECU, m), Kind(m) \in {Kind(Head(toTC)), "other"}
      PROVE  (Absent(k) => Absent(k)') /\ (Once(k) => Once(k)')
  <2>1. CASE Kind(m) # k
    BY <1>1, <1>3, <2>1, TailLine, AppendLine DEF Absent, Once
  <2>2. CASE Kind(m) = k
    <3>1. Kind(Head(toTC)) = k /\ ~NoneOf(k, toTC)
      BY <1>1, <1>3, <2>2, TailLine
    <3>2. Once(k) => NoneOf(k, Tail(toTC)) /\ OneOf(k, Tail(toTC)) /\ NoneOf(k, toECU)
      BY <1>1, <3>1, TailLine DEF Once
    <3> QED BY <1>1, <1>3, <3>1, <3>2, AppendLine DEF Absent, Once
  <2> QED BY <2>1, <2>2
<1>4. ASSUME NEW m \in ToClient, NEW n \in ToClient, toECU' = Append(Append(toECU, m), n),
             Kind(m) = "other", Kind(n) = "other"
      PROVE  (Absent(k) => Absent(k)') /\ (Once(k) => Once(k)')
  <2>1. Append(toECU, m) \in Seq(ToClient)
    BY <1>1
  <2>2. /\ NoneOf(k, toECU) => NoneOf(k, toECU')
        /\ OneOf(k, toECU) => OneOf(k, toECU')
    BY <1>1, <1>4, <2>1, AppendLine
  <2> QED BY <1>1, <2>2, TailLine DEF Absent, Once
<1> QED BY <1>2, <1>3, <1>4, ServedAnswer

\* What serving a message changes in the task controller
LEMMA ServedServer ==
  ASSUME Typed, Serve
  PROVE  /\ server'.known => server.known \/ Head(toTC).fn = "WorkingSetMaster"
         /\ server.known /\ server'.known =>
              /\ \/ server'.stored = server.stored \/ Kind(Head(toTC)) = "deletion"
                 \/ Head(toTC).fn = "ObjectPoolTransfer" /\ server'.stored = Head(toTC).x
              /\ \/ server'.active = server.active
                 \/ Head(toTC).fn = "Activate" /\ server'.active
                 \/ Head(toTC).fn = "Deactivate"
<1>0. server \in ServerType
  BY Parts
<1>1. CASE \/ ServeWorkingSetMaster \/ ServeClientTask \/ ServeRequestVersion \/ ServeParameterVersion
           \/ ServeStranger \/ ServeLabels \/ ServeRequestTransfer \/ ServeValue
  BY <1>0, <1>1 DEF ServeWorkingSetMaster, ServeClientTask, ServeRequestVersion, ServeParameterVersion,
     ServeStranger, ServeLabels, ServeRequestTransfer, ServeValue, Arrived, Down, Forgotten, ServerType
<1>2. CASE ServeObjectPoolTransfer \/ ServeActivate \/ ServeDeactivate \/ ServeDelete
  BY <1>0, <1>2 DEF ServeObjectPoolTransfer, ServeActivate, ServeDeactivate, ServeDelete, Arrived,
     ServerType, Kind
<1> QED BY <1>1, <1>2 DEF Serve

\* What is new among the messages to the client
LEMMA ServedNew ==
  ASSUME Typed, Serve
  PROVE  \A i \in DOMAIN toECU' :
           \/ i \in DOMAIN toECU /\ toECU'[i] = toECU[i]
           \/ Kind(toECU'[i]) = "other"
           \/ Kind(toECU'[i]) = Kind(Head(toTC)) /\ Tells(toECU'[i])
<1>1. toECU \in Seq(ToClient)
  BY Parts
<1>2. CASE toECU' = toECU
  BY <1>2
<1>3. ASSUME NEW m \in ToClient, toECU' = Append(toECU, m),
             Kind(m) \in {Kind(Head(toTC)), "other"}, Tells(m),
             NEW i \in DOMAIN toECU'
      PROVE  \/ i \in DOMAIN toECU /\ toECU'[i] = toECU[i]
             \/ Kind(toECU'[i]) = "other"
             \/ Kind(toECU'[i]) = Kind(Head(toTC)) /\ Tells(toECU'[i])
  <2>1. (i \in DOMAIN toECU /\ toECU'[i] = toECU[i]) \/ toECU'[i] = m
    BY <1>1, <1>3, AppendValues
  <2>2. CASE toECU'[i] = m
    <3>1. Kind(toECU'[i]) = Kind(m) /\ (Tells(m) => Tells(toECU'[i]))
      BY <2>2 DEF Kind, Tells
    <3> QED BY <1>3, <3>1
  <2> QED BY <2>1, <2>2
<1>4. ASSUME NEW m \in ToClient, NEW n \in ToClient, toECU' = Append(Append(toECU, m), n),
             Kind(m) = "other", Kind(n) = "other",
             NEW i \in DOMAIN toECU'
      PROVE  (i \in DOMAIN toECU /\ toECU'[i] = toECU[i]) \/ Kind(toECU'[i]) = "other"
  <2> DEFINE q == Append(toECU, m)
  <2>1. q \in Seq(ToClient)
    BY <1>1
  <2>2. \A j \in DOMAIN q : (j \in DOMAIN toECU /\ q[j] = toECU[j]) \/ q[j] = m
    BY <1>1, AppendValues
  <2> HIDE DEF q
  <2>3. (i \in DOMAIN q /\ toECU'[i] = q[i]) \/ toECU'[i] = n
    <3>1. toECU' = Append(q, n)
      BY <1>4 DEF q
    <3>2. \A j \in DOMAIN Append(q, n) : (j \in DOMAIN q /\ Append(q, n)[j] = q[j]) \/ Append(q, n)[j] = n
      BY <2>1, AppendValues
    <3> QED BY <1>4, <3>1, <3>2
  <2>4. toECU'[i] \in {m, n} => Kind(toECU'[i]) = "other"
    BY <1>4
  <2> QED BY <2>2, <2>3, <2>4
<1> QED BY <1>2, <1>3, <1>4, ServedAnswer

LEMMA ServedOvertaken ==
  ASSUME Typed, Serve, Line("WaitForStructureLabelResponse"), Overtaken
  PROVE  Overtaken'
<1> DEFINE s == "structure"
           a == "activation"
<1>1. /\ toTC \in Seq(ToTC) /\ toECU \in Seq(ToClient) /\ toTC # <<>> /\ toTC' = Tail(toTC)
  BY Parts, ServingParts
<1>2. /\ Behind(s, a, toTC) /\ Behind(s, a, toECU) /\ (NoneOf(a, toTC) \/ NoneOf(s, toECU))
      /\ Once(s) /\ Once(a)
  BY DEF Overtaken, Line, Kinds
<1>3. Behind(s, a, Tail(toTC)) /\ (NoneOf(a, toTC) => NoneOf(a, Tail(toTC)))
  BY <1>1, <1>2, TailLine
<1>4. CASE toECU' = toECU
  BY <1>1, <1>2, <1>3, <1>4 DEF Overtaken
<1>5. ASSUME NEW m \in ToClient, toECU' = Append(toECU, m), Kind(m) \in {Kind(Head(toTC)), "other"}
      PROVE  Overtaken'
  <2>1. CASE Kind(m) = s
    <3>1. Kind(Head(toTC)) = s
      BY <1>5, <2>1
    <3>2. NoneOf(a, toTC)
      BY <1>1, <1>2, <3>1, TailLine
    <3>3. Behind(s, a, Append(toECU, m))
      BY <1>1, <1>2, <2>1, AppendLine
    <3> QED BY <1>1, <1>3, <1>5, <3>2, <3>3 DEF Overtaken
  <2>2. CASE Kind(m) = a
    <3>1. Kind(Head(toTC)) = a
      BY <1>5, <2>2
    <3>2. ~NoneOf(a, toTC) /\ NoneOf(a, Tail(toTC))
      BY <1>1, <1>2, <3>1, TailLine DEF Once
    <3>3. NoneOf(s, toECU)
      BY <1>2, <3>2
    <3>4. Behind(s, a, Append(toECU, m))
      BY <1>1, <1>2, <3>3, AppendLine
    <3> QED BY <1>1, <1>3, <1>5, <3>2, <3>4 DEF Overtaken
  <2>3. CASE Kind(m) \notin {s, a}
    <3>1. Behind(s, a, Append(toECU, m)) /\ (NoneOf(s, toECU) => NoneOf(s, Append(toECU, m)))
      BY <1>1, <1>2, <2>3, AppendLine
    <3> QED BY <1>1, <1>2, <1>3, <1>5, <3>1 DEF Overtaken
  <2> QED BY <2>1, <2>2, <2>3
<1>6. ASSUME NEW m \in ToClient, NEW n \in ToClient, toECU' = Append(Append(toECU, m), n),
             Kind(m) = "other", Kind(n) = "other"
      PROVE  Overtaken'
  <2>1. Append(toECU, m) \in Seq(ToClient)
    BY <1>1
  <2>2. Behind(s, a, Append(toECU, m)) /\ (NoneOf(s, toECU) => NoneOf(s, Append(toECU, m)))
    BY <1>1, <1>2, <1>6, AppendLine
  <2>3. Behind(s, a, toECU') /\ (NoneOf(s, toECU) => NoneOf(s, toECU'))
    BY <1>6, <2>1, <2>2, AppendLine
  <2> QED BY <1>1, <1>2, <1>3, <2>3 DEF Overtaken
<1> QED BY <1>4, <1>5, <1>6, ServedAnswer

LEMMA LineServing ==
  ASSUME BaseInv, LineInv, Serving
  PROVE  LineInv'
<1>0. Typed /\ UNCHANGED client
  BY DEF BaseInv, Serving
<1>1. Phase' = Phase
  BY <1>0 DEF Phase
<1>2. CASE Serve
  <2>1. toTC # <<>> /\ toTC' = Tail(toTC) /\ transfer' = transfer
    BY <1>0, <1>2, ServingParts
  <2>2. \A i \in DOMAIN toTC' : i + 1 \in DOMAIN toTC /\ toTC'[i] = toTC[i + 1]
    BY <1>0, <2>1, Parts, TailValues
  <2>3. \A k \in Kinds : (Absent(k) => Absent(k)') /\ (Once(k) => Once(k)')
    BY <1>0, <1>2, ServedLine
  <2>4. Phase \notin Loose => Line(Phase)'
    BY <1>1, <2>3 DEF LineInv, Line
  <2>5. Phase = "WaitForStructureLabelResponse" => Overtaken'
    BY <1>0, <1>2, ServedOvertaken DEF LineInv, Loose
  <2> QED BY <1>0, <1>1, <2>1, <2>2, <2>3, <2>4, <2>5 DEF LineInv, Kinds
<1>3. CASE Undelivered
  <2>1. toTC' = <<>> /\ UNCHANGED <<toECU, transfer>>
    BY <1>3 DEF Undelivered
  <2>2. \A k : (Absent(k) => Absent(k)') /\ (Once(k) => Once(k)')
    BY <2>1, ClearedLine
  <2>3. Overtaken => Overtaken'
    BY <2>1, EmptyLine DEF Overtaken
  <2>4. Phase \notin Loose => Line(Phase)'
    BY <1>1, <2>2 DEF LineInv, Line
  <2> QED BY <1>0, <1>1, <2>1, <2>2, <2>3, <2>4 DEF LineInv
<1> QED BY <1>2, <1>3 DEF Serving

LEMMA PoolServing ==
  ASSUME BaseInv, LineInv, PoolInv, Serving
  PROVE  PoolInv'
<1>0. Typed /\ UNCHANGED client /\ Phase' = Phase
  BY DEF BaseInv, Serving, Phase
<1>1. DataInv'
  BY <1>0 DEF PoolInv, DataInv
<1>2. CASE Undelivered
  <2>1. toTC' = <<>> /\ UNCHANGED <<toECU, transfer, server>>
    BY <1>2 DEF Undelivered
  <2>2. \A k : Absent(k) => Absent(k)'
    BY <2>1, ClearedLine
  <2> QED BY <1>0, <1>1, <2>1, <2>2 DEF PoolInv, ConnectedInv, ActivationInv, StoredInv, LabelInv
<1>3. CASE Serve /\ ~server.known /\ server'.known
  <2>1. toTC # <<>> /\ Head(toTC).fn = "WorkingSetMaster"
    BY <1>0, <1>3, ServedServer, ServingParts
  <2>2. client.state \in Early /\ Phase \in Early
    BY <2>1 DEF BaseInv, StartInv, Phase
  <2> QED BY <1>0, <1>1, <2>2 DEF Early, PoolInv, ConnectedInv, ActivationInv, StoredInv, LabelInv
<1>4. CASE Serve /\ server.known /\ server'.known
  <2>1. toTC # <<>> /\ toTC' = Tail(toTC) /\ transfer' = transfer /\ toTC \in Seq(ToTC)
    BY <1>0, <1>4, ServingParts, Parts
  <2>2. ConnectedInv /\ ActivationInv /\ StoredInv /\ LabelInv
    BY <1>4 DEF PoolInv
  <2> DEFINE h == Kind(Head(toTC))
  <2>3. \A k \in Kinds : Absent(k) => Absent(k)' /\ h # k
    BY <1>0, <1>4, <2>1, ServedLine, TailLine DEF Absent
  <2>4. /\ server'.stored = server.stored \/ h = "deletion"
             \/ (Head(toTC).fn = "ObjectPoolTransfer" /\ server'.stored = Head(toTC).x)
        /\ \/ server'.active = server.active
           \/ Head(toTC).fn = "Activate" /\ server'.active
           \/ Head(toTC).fn = "Deactivate"
    BY <1>0, <1>4, ServedServer
  <2>5. /\ Head(toTC).fn = "ObjectPoolTransfer" => h = "pool"
        /\ Head(toTC).fn \in {"Activate", "Deactivate"} => h = "activation"
    BY DEF Kind
  <2>6. \A i \in DOMAIN toECU' :
           \/ i \in DOMAIN toECU /\ toECU'[i] = toECU[i]
           \/ Kind(toECU'[i]) = "other"
           \/ Kind(toECU'[i]) = h /\ Tells(toECU'[i])
    BY <1>0, <1>4, ServedNew
  <2>7. \A m : /\ m.fn = "ActivateResponse" => Kind(m) = "activation"
               /\ m.fn = "TransferResponse" => Kind(m) = "pool"
               /\ m.fn = "StructureLabel" => Kind(m) = "structure"
               /\ m.fn = "LocalizationLabel" => Kind(m) = "localization"
    BY DEF Kind
  <2>8. \A k \in Kinds : Phase \notin Loose /\ ~May(Phase, k) => Absent(k)
    BY DEF LineInv, Line
  <2>9. 1 \in DOMAIN toTC /\ Head(toTC) = toTC[1]
    BY <2>1, TailValues
  <2> HIDE DEF h
  <2>10. Phase \notin Loose /\ ~May(Phase, "deletion") /\ ~May(Phase, "pool") =>
           server'.stored = server.stored
    BY <2>3, <2>4, <2>5, <2>8 DEF Kinds
  <2>11. ConnectedInv'
    BY <1>0, <2>1, <2>2, <2>3, <2>4, <2>5 DEF ConnectedInv, Kinds
  <2>12. ActivationInv'
    <3>1. Phase \in {"SendObjectPoolActivate", "WaitForObjectPoolActivateResponse"} =>
            server'.stored = client.pool
      BY <2>2, <2>10 DEF ActivationInv, Loose, May
    <3>2. ASSUME Phase = "WaitForObjectPoolActivateResponse", NEW i \in DOMAIN toECU',
                 toECU'[i].fn = "ActivateResponse", toECU'[i].x = 0
          PROVE  server'.active
      <4>1. Head(toTC).fn # "Deactivate"
        BY <2>9, <3>2 DEF LineInv, Loose
      <4>2. CASE i \in DOMAIN toECU /\ toECU'[i] = toECU[i]
        BY <2>2, <2>4, <3>2, <4>1, <4>2 DEF ActivationInv
      <4>3. CASE Tells(toECU'[i])
        BY <3>2, <4>1, <4>3 DEF Tells
      <4> QED BY <2>6, <2>7, <3>2, <4>2, <4>3
    <3> QED BY <1>0, <3>1, <3>2 DEF ActivationInv
  <2>13. StoredInv'
    <3>1. ASSUME Phase \in {"WaitForObjectPoolTransferResponse", "WaitForDDOPTransfer"}
          PROVE  /\ Head(toTC).fn = "ObjectPoolTransfer" => Head(toTC).x = client.pool
                 /\ h # "deletion"
      BY <2>3, <2>8, <2>9, <3>1 DEF LineInv, Loose, Kinds, May
    <3>2. ASSUME Phase \in {"WaitForObjectPoolTransferResponse", "WaitForDDOPTransfer"},
                 NEW i \in DOMAIN toECU',
                 toECU'[i].fn = "TransferResponse", toECU'[i].x = 0
          PROVE  server'.stored = client.pool
      <4>1. CASE i \in DOMAIN toECU /\ toECU'[i] = toECU[i]
        BY <2>2, <2>4, <3>1, <3>2, <4>1 DEF StoredInv
      <4>2. CASE Tells(toECU'[i])
        BY <3>1, <3>2, <4>2 DEF Tells
      <4> QED BY <2>6, <2>7, <3>2, <4>1, <4>2
    <3> QED BY <1>0, <3>2 DEF StoredInv
  <2>14. LabelInv'
    <3>1. ASSUME Phase = "WaitForStructureLabelResponse", NEW i \in DOMAIN toECU',
                 toECU'[i].fn = "StructureLabel", toECU'[i].x # 0
          PROVE  server'.stored # 0 /\ toECU'[i].x = Structure[server'.stored]
      <4>1. server'.stored = server.stored
        BY <2>10, <3>1 DEF Loose, May
      <4>2. CASE i \in DOMAIN toECU /\ toECU'[i] = toECU[i]
        BY <2>2, <3>1, <4>1, <4>2 DEF LabelInv
      <4>3. CASE Tells(toECU'[i])
        BY <3>1, <4>1, <4>3 DEF Tells
      <4> QED BY <2>6, <2>7, <3>1, <4>2, <4>3
    <3>2. ASSUME Phase = "WaitForLocalizationLabelResponse", NEW i \in DOMAIN toECU',
                 toECU'[i].fn = "LocalizationLabel", toECU'[i].x # 0
          PROVE  server'.stored # 0 /\ toECU'[i].x = Localization[server'.stored]
      <4>1. server'.stored = server.stored
        BY <2>10, <3>2 DEF Loose, May
      <4>2. CASE i \in DOMAIN toECU /\ toECU'[i] = toECU[i]
        BY <2>2, <3>2, <4>1, <4>2 DEF LabelInv
      <4>3. CASE Tells(toECU'[i])
        BY <3>2, <4>1, <4>3 DEF Tells
      <4> QED BY <2>6, <2>7, <3>2, <4>2, <4>3
    <3>3. Phase \in {"RequestLocalizationLabel", "WaitForLocalizationLabelResponse"} =>
            server'.stored = server.stored
      BY <2>10 DEF Loose, May
    <3> QED BY <1>0, <2>2, <3>1, <3>2, <3>3 DEF LabelInv
  <2> QED BY <1>1, <2>11, <2>12, <2>13, <2>14 DEF PoolInv
<1> QED BY <1>1, <1>2, <1>3, <1>4 DEF Serving, PoolInv

-----------------------------------------------------------------------------
(* The other steps *)

LEMMA TakenOvertaken ==
  ASSUME Typed, Overtaken,
         \/ toTC # <<>> /\ toTC' = Tail(toTC) /\ toECU' = toECU
         \/ toECU # <<>> /\ toECU' = Tail(toECU) /\ toTC' = toTC
         \/ toTC' = <<>> /\ toECU' = toECU
  PROVE  Overtaken'
<1> DEFINE s == "structure"
           a == "activation"
<1>1. toTC \in Seq(ToTC) /\ toECU \in Seq(ToClient)
  BY Parts
<1>2. /\ toTC # <<>> => /\ Behind(s, a, toTC) => Behind(s, a, Tail(toTC))
                        /\ NoneOf(a, toTC) => NoneOf(a, Tail(toTC))
      /\ toECU # <<>> => /\ Behind(s, a, toECU) => Behind(s, a, Tail(toECU))
                         /\ NoneOf(s, toECU) => NoneOf(s, Tail(toECU))
      /\ Behind(s, a, <<>>) /\ NoneOf(a, <<>>)
  BY <1>1, TailLine, EmptyLine
<1> QED BY <1>2 DEF Overtaken

\* Messages are lost, or nothing happens to them, and the client keeps its state or
\* gives up
LEMMA LineKept ==
  ASSUME Typed, LineInv,
         \/ toTC # <<>> /\ toTC' = Tail(toTC) /\ toECU' = toECU
         \/ toECU # <<>> /\ toECU' = Tail(toECU) /\ toTC' = toTC
         \/ toTC' = <<>> /\ toECU' = toECU
         \/ UNCHANGED <<toTC, toECU>>,
         transfer' = transfer, client'.pool = client.pool, Phase' \in {Phase} \cup Loose
  PROVE  LineInv'
<1>1. \A k : (Absent(k) => Absent(k)') /\ (Once(k) => Once(k)')
  <2>1. CASE UNCHANGED <<toTC, toECU>>
    BY <2>1 DEF Absent, Once
  <2> QED BY <2>1, TakenLine, ClearedLine
<1>2. Overtaken => Overtaken'
  <2>1. CASE UNCHANGED <<toTC, toECU>>
    BY <2>1 DEF Overtaken
  <2> QED BY <2>1, TakenOvertaken
<1>3. \A i \in DOMAIN toTC' : \E j \in DOMAIN toTC : toTC'[i] = toTC[j]
  <2>1. CASE toTC # <<>> /\ toTC' = Tail(toTC)
    BY <2>1, Parts, TailValues
  <2>2. CASE toTC' = toTC \/ toTC' = <<>>
    BY <2>2
  <2> QED BY <2>1, <2>2
<1> SUFFICES ASSUME Phase' = Phase, Phase \notin Loose PROVE LineInv'
  BY DEF LineInv
<1>4. Line(Phase)'
  BY <1>1 DEF LineInv, Line
<1> QED BY <1>1, <1>2, <1>3, <1>4 DEF LineInv

LEMMA TakenMessages ==
  ASSUME Typed,
         \/ toECU # <<>> /\ toECU' = Tail(toECU)
         \/ toECU' = toECU
  PROVE  \A i \in DOMAIN toECU' : \E j \in DOMAIN toECU : toECU'[i] = toECU[j]
<1>1. CASE toECU # <<>> /\ toECU' = Tail(toECU)
  BY <1>1, Parts, TailValues
<1>2. CASE toECU' = toECU
  BY <1>2
<1> QED BY <1>1, <1>2

\* ... and so does the task controller, unless it forgets the client
LEMMA PoolKept ==
  ASSUME Typed, PoolInv,
         \/ toTC # <<>> /\ toTC' = Tail(toTC) /\ toECU' = toECU
         \/ toECU # <<>> /\ toECU' = Tail(toECU) /\ toTC' = toTC
         \/ toTC' = <<>> /\ toECU' = toECU
         \/ UNCHANGED <<toTC, toECU>>,
         transfer' = transfer,
         UNCHANGED <<client.pool, client.label, client.binary>>,
         Phase' \in {Phase, "SendWorkingSetMaster"} \cup Loose,
         client'.state = "Connected" => client.state = "Connected",
         server'.known => server' = server \/ (UNCHANGED <<server.known, server.stored, server.active>>)
  PROVE  PoolInv'
<1>0. DataInv'
  BY DEF PoolInv, DataInv
<1>1. \A k : Absent(k) => Absent(k)'
  <2>1. CASE UNCHANGED <<toTC, toECU>>
    BY <2>1 DEF Absent
  <2> QED BY <2>1, TakenLine, ClearedLine
<1>2. \A i \in DOMAIN toECU' : \E j \in DOMAIN toECU : toECU'[i] = toECU[j]
  BY TakenMessages
<1> SUFFICES ASSUME server'.known PROVE (ConnectedInv /\ ActivationInv /\ StoredInv /\ LabelInv)'
  BY <1>0 DEF PoolInv
<1>3. /\ UNCHANGED <<server.known, server.stored, server.active>>
      /\ ConnectedInv /\ ActivationInv /\ StoredInv /\ LabelInv
  BY DEF PoolInv
<1>4. ConnectedInv'
  BY <1>1, <1>3 DEF ConnectedInv
<1>5. CASE Phase' = Phase
  BY <1>2, <1>3, <1>4, <1>5 DEF ActivationInv, StoredInv, LabelInv
<1>6. CASE Phase' \in {"SendWorkingSetMaster"} \cup Loose
  BY <1>4, <1>6 DEF ActivationInv, StoredInv, LabelInv, Loose
<1> QED BY <1>5, <1>6

LEMMA KeptOthers ==
  ASSUME BaseInv, LineInv, PoolInv,
         Forgetting \/ StatusGrowsOld \/ Restarting \/ Lose \/ PoweredOn \/ UNCHANGED vars
  PROVE  LineInv' /\ PoolInv'
<1>0. Typed /\ client \in ClientType /\ server \in ServerType
  BY Parts DEF BaseInv
<1>1. CASE Forgetting \/ PoweredOn
  <2>1. UNCHANGED <<client, toTC, toECU, transfer>>
    BY <1>1 DEF Forgetting, ForgetClient, PoweredOn, PowerOn
  <2>2. server'.known => UNCHANGED <<server.known, server.stored, server.active>>
    BY <1>0, <1>1 DEF Forgetting, ForgetClient, PoweredOn, PowerOn, Forgotten, ServerType
  <2> QED BY <1>0, <2>1, <2>2, LineKept, PoolKept DEF Phase
<1>2. CASE StatusGrowsOld
  BY <1>0, <1>2, LineKept, PoolKept DEF StatusGrowsOld, ClientType, Phase
<1>3. CASE Restarting
  <2>1. UNCHANGED <<toTC, toECU, transfer, server>>
    BY <1>3 DEF Restarting, Restart, Terminate, Initialize
  <2>2. /\ UNCHANGED <<client.pool, client.label, client.binary, client.work>>
        /\ client'.state \in {client.state, "Disconnected"}
    BY <1>0, <1>3 DEF Restarting, Restart, Terminate, Initialize, Becomes, SetState, Terminated, ClientType
  <2>3. Phase' \in {Phase} \cup Loose
    BY <2>2 DEF Phase, Loose
  <2> QED BY <1>0, <2>1, <2>2, <2>3, LineKept, PoolKept
<1>4. CASE Lose
  <2>1. UNCHANGED <<client, transfer>> /\ Phase' = Phase
    BY <1>4 DEF Lose, PowerOff, Phase
  <2>2. CASE toTC # <<>> /\ toTC' = Tail(toTC) /\ UNCHANGED <<toECU, server>>
    BY <1>0, <2>1, <2>2, LineKept, PoolKept
  <2>3. CASE toECU # <<>> /\ toECU' = Tail(toECU) /\ UNCHANGED <<toTC, server>>
    BY <1>0, <2>1, <2>3, LineKept, PoolKept
  <2>4. CASE PowerOff
    <3>1. ~server'.known /\ toTC' = <<>> /\ toECU' = toECU
      BY <1>0, <2>4 DEF PowerOff, Down, Forgotten, ServerType
    <3> QED BY <1>0, <2>1, <3>1, LineKept, PoolKept
  <2> QED BY <1>4, <2>2, <2>3, <2>4 DEF Lose
<1>5. CASE UNCHANGED vars
  BY <1>0, <1>5, LineKept, PoolKept DEF vars, Phase
<1> QED BY <1>1, <1>2, <1>3, <1>4, <1>5

LEMMA StatusStep ==
  ASSUME BaseInv, LineInv, PoolInv, Status
  PROVE  LineInv' /\ PoolInv'
<1>0. Typed /\ client \in ClientType /\ UNCHANGED <<toTC, toECU, transfer, server>>
  BY Parts DEF BaseInv, Status, ReceiveStatus
<1>1. /\ UNCHANGED <<client.pool, client.label, client.binary, client.work>>
      /\ client'.state = client.state \/ (client.state = "WaitForServerStatusMessage"
                                            /\ client'.state = "SendWorkingSetMaster")
  BY <1>0 DEF Status, ReceiveStatus, ClientType
<1>2. Phase' = Phase \/ (Phase = "WaitForServerStatusMessage" /\ Phase' = "SendWorkingSetMaster")
  BY <1>1 DEF Phase
<1>3. PoolInv'
  BY <1>0, <1>1, <1>2, PoolKept
<1>4. CASE Phase' = Phase
  BY <1>0, <1>1, <1>3, <1>4, LineKept
<1>5. CASE Phase = "WaitForServerStatusMessage" /\ Phase' = "SendWorkingSetMaster"
  <2>1. Line(Phase) /\ transfer = 0
    BY <1>5 DEF LineInv, Loose
  <2>2. \A k \in Kinds : Absent(k)' /\ Once(k)'
    BY <1>0, <1>5, <2>1 DEF Line, May, Absent, Once
  <2> QED BY <1>0, <1>1, <1>3, <1>5, <2>1, <2>2 DEF LineInv, Line, Loose
<1> QED BY <1>2, <1>4, <1>5

LEMMA TransferStep ==
  ASSUME BaseInv, LineInv, PoolInv, Transfer
  PROVE  LineInv' /\ PoolInv'
<1> DEFINE m == Msg("ObjectPoolTransfer", transfer)
<1>0. /\ Typed /\ client \in ClientType /\ toTC \in Seq(ToTC) /\ m \in ToTC /\ Kind(m) = "pool"
      /\ m.fn = "ObjectPoolTransfer" /\ m.x = transfer
      /\ transfer # 0 /\ transfer' = 0 /\ UNCHANGED <<toECU, server>>
  BY Parts DEF BaseInv, Transfer, Msg, Kind, ToTC
<1>1. toTC' = toTC \/ toTC' = Append(toTC, m)
  BY DEF Transfer, TransferSucceeds, TransferFails
<1> HIDE DEF m
<1>2. /\ UNCHANGED <<client.pool, client.label, client.binary, client.work>>
      /\ \/ client'.state = client.state
         \/ client.state = "WaitForDDOPTransfer"
              /\ client'.state \in {"WaitForObjectPoolTransferResponse", "Disconnected"}
  BY <1>0 DEF Transfer, TransferSucceeds, TransferFails, TransferReported, Becomes, SetState, ClientType
<1>3. \/ Phase' = Phase
      \/ Phase = "WaitForDDOPTransfer" /\ Phase' \in {"WaitForObjectPoolTransferResponse", "Disconnected"}
  BY <1>2 DEF Phase
<1>4. \A k \in Kinds \ {"pool"} : (Absent(k) => Absent(k)') /\ (Once(k) => Once(k)')
  <2>1. CASE toTC' = toTC
    BY <1>0, <2>1 DEF Absent, Once
  <2> QED BY <1>0, <1>1, <2>1, SentLine
<1>5. LineInv'
  <2> SUFFICES ASSUME Phase' \notin Loose PROVE LineInv'
    BY DEF LineInv
  <2>1. /\ Phase = "WaitForDDOPTransfer" /\ transfer = client.pool /\ Absent("pool") /\ Line(Phase)
        /\ Phase' \in {"WaitForDDOPTransfer", "WaitForObjectPoolTransferResponse"}
    BY <1>0, <1>3 DEF LineInv, Loose
  <2>2. Once("pool")'
    <3>1. CASE toTC' = toTC
      BY <1>0, <2>1, <3>1 DEF Line, Kinds, Once
    <3> QED BY <1>0, <1>1, <2>1, <3>1, SentLine
  <2>3. Line(Phase)'
    BY <1>4, <2>1, <2>2 DEF Line, May, Kinds
  <2>4. \A i \in DOMAIN toTC' : toTC'[i].fn = "ObjectPoolTransfer" => toTC'[i].x = client'.pool
    <3>1. \A i \in DOMAIN toTC' : (i \in DOMAIN toTC /\ toTC'[i] = toTC[i]) \/ toTC'[i] = m
      BY <1>0, <1>1, AppendValues
    <3> QED BY <1>0, <1>2, <2>1, <3>1 DEF LineInv, Loose
  <2> QED BY <1>0, <2>1, <2>3, <2>4 DEF LineInv
<1>6. PoolInv'
  BY <1>0, <1>2, <1>3 DEF PoolInv, DataInv, ConnectedInv, ActivationInv, StoredInv, LabelInv
<1> QED BY <1>5, <1>6

LEMMA CommandingStep ==
  ASSUME BaseInv, LineInv, PoolInv, Commanding
  PROVE  LineInv' /\ PoolInv'
<1>0. /\ Typed /\ server \in ServerType /\ toECU \in Seq(ToClient) /\ left \in LeftType
      /\ UNCHANGED <<client, toTC, transfer>> /\ Phase' = Phase
  BY Parts DEF BaseInv, Commanding, SendCommand, Phase
<1>1. PICK c \in left.commands, fn \in Commands \ {"Nack"} : SendCommand(fn, c)
  BY DEF Commanding
<1> DEFINE m == Msg(fn, c)
<1>2. m \in ToClient /\ Kind(m) = "other"
  BY <1>0 DEF Commands, LeftType, Msg, ToClient, Kind
<1>3. toECU' = Append(toECU, m) /\ UNCHANGED <<server.known, server.stored, server.active>>
  <2>1. toECU' = toECU \o <<m>>
    BY <1>1 DEF SendCommand, ToECU
  <2>2. UNCHANGED <<server.known, server.stored, server.active>>
    BY <1>0, <1>1 DEF SendCommand, ServerType
  <2> HIDE DEF m
  <2> QED BY <1>0, <1>2, <2>1, <2>2, ConcatValues
<1> HIDE DEF m
<1>4. \A k \in Kinds : (Absent(k) => Absent(k)') /\ (Once(k) => Once(k)')
  BY <1>0, <1>2, <1>3, AppendLine DEF Absent, Once, Kinds
<1>5. Overtaken => Overtaken'
  <2>1. /\ Behind("structure", "activation", toECU) => Behind("structure", "activation", Append(toECU, m))
        /\ NoneOf("structure", toECU) => NoneOf("structure", Append(toECU, m))
    BY <1>0, <1>2, AppendLine
  <2> QED BY <1>0, <1>3, <2>1 DEF Overtaken
<1>6. \A i \in DOMAIN toECU' :
        \/ i \in DOMAIN toECU /\ toECU'[i] = toECU[i]
        \/ toECU'[i].fn \notin {"ActivateResponse", "TransferResponse", "StructureLabel", "LocalizationLabel"}
  <2>1. m.fn \notin {"ActivateResponse", "TransferResponse", "StructureLabel", "LocalizationLabel"}
    BY <1>2 DEF Kind
  <2> QED BY <1>0, <1>2, <1>3, <2>1, AppendValues
<1>7. LineInv'
  <2>1. Phase \notin Loose => Line(Phase)'
    BY <1>0, <1>4 DEF LineInv, Line
  <2> QED BY <1>0, <1>4, <1>5, <2>1 DEF LineInv, Kinds
<1>8. PoolInv'
  <2>1. DataInv'
    BY <1>0 DEF PoolInv, DataInv
  <2>2. ConnectedInv => ConnectedInv'
    BY <1>0, <1>3, <1>4 DEF ConnectedInv, Kinds
  <2>3. (ActivationInv => ActivationInv') /\ (StoredInv => StoredInv') /\ (LabelInv => LabelInv')
    BY <1>0, <1>3, <1>6 DEF ActivationInv, StoredInv, LabelInv
  <2> QED BY <1>3, <2>1, <2>2, <2>3 DEF PoolInv
<1> QED BY <1>7, <1>8

LEMMA ReuploadingStep ==
  ASSUME BaseInv, LineInv, PoolInv, Reuploading
  PROVE  LineInv' /\ PoolInv'
<1>0. /\ client \in ClientType /\ UNCHANGED <<toTC, toECU, transfer, server>> /\ client.state = "Connected"
      /\ client'.state = "DeactivateObjectPool" /\ client'.work = client.work
      /\ client'.label = 0 /\ client'.binary = 0
  BY Parts DEF BaseInv, Reuploading, Reupload, SetState, ClientType
<1>1. client.work \in {"idle", "Disconnected"}
  BY <1>0, SendStates DEF BaseInv, WorkInv
<1>2. PoolInv'
  BY <1>0, <1>1 DEF PoolInv, DataInv, ConnectedInv, ActivationInv, StoredInv, LabelInv, Phase
<1>3. CASE client.work = "idle"
  <2>1. Phase = "Connected" /\ Phase' = "DeactivateObjectPool"
    BY <1>0, <1>3 DEF Phase
  <2>2. transfer = 0 /\ \A k \in Kinds : Absent(k) /\ Once(k)
    BY <2>1 DEF LineInv, Line, Loose, May, Kinds
  <2>3. \A k \in Kinds : Absent(k)' /\ Once(k)'
    BY <1>0, <2>2 DEF Absent, Once
  <2>4. \A i \in DOMAIN toTC : toTC[i].fn # "ObjectPoolTransfer"
    BY <2>2 DEF Absent, NoneOf, Kind, Kinds
  <2> QED BY <1>0, <1>2, <2>1, <2>2, <2>3, <2>4 DEF LineInv, Line
<1>4. CASE client.work = "Disconnected"
  BY <1>0, <1>2, <1>4 DEF LineInv, Phase, Loose
<1> QED BY <1>1, <1>3, <1>4

-----------------------------------------------------------------------------
LineAndPool == LineInv /\ PoolInv

LEMMA PoolStep ==
  ASSUME BaseInv, LineAndPool, [Next]_vars
  PROVE  LineAndPool'
BY LineWorker, PoolWorker, LineReading, PoolReading, LineServing, PoolServing, KeptOthers, StatusStep,
   TransferStep, CommandingStep, ReuploadingStep
   DEF LineAndPool, PoolInv, Next

LEMMA PoolInit ==
  ASSUME Init
  PROVE  LineAndPool
BY DEF Init, ClientInit, ServerInit, LineAndPool, LineInv, PoolInv, DataInv, Phase, Loose

\* A request and its answer are under way at most once in a connection, and no
\* answer is left from an earlier one, so that an answer tells what the task
\* controller has: for every order in which messages are late, lost or refused.
THEOREM AnswersAreCurrent == Spec => []LineAndPool
<1>1. Init => LineAndPool
  BY PoolInit
<1>2. BaseInv /\ LineAndPool /\ [Next]_vars => LineAndPool'
  BY PoolStep
<1> QED BY <1>1, <1>2, BaseHolds, PTL DEF Spec

\* ActiveIsCurrent: a client that is connected to a task controller that knows it
\* runs there, active, the pool that the application gave it last: found by its
\* labels, transferred, or replaced while the client ran, with every accident.
THEOREM CurrentPoolActive == Spec => []ActiveIsCurrent
<1>1. LineAndPool => ActiveIsCurrent
  BY DEF LineAndPool, PoolInv, ConnectedInv, ActiveIsCurrent
<1> QED BY <1>1, AnswersAreCurrent, PTL
=============================================================================
