------------------------------ MODULE TCClient ------------------------------
(***************************************************************************)
(* TaskControllerClient                                                    *)
(* (isobus/src/isobus_task_controller_client.cpp).  Three threads: the     *)
(* worker calls update() every 50 ms, the update thread calls              *)
(* process_rx_message and the transport protocol's callback, the           *)
(* application calls reupload_device_descriptor_object_pool, restart,      *)
(* terminate and initialize.  Only the queues and reupload have a lock.    *)
(***************************************************************************)
EXTENDS TCLink

VARIABLES
  client, \* state; work: the state the worker has yet to set after a send;
          \* heard: age of the last status message; status: enableStatusMessage;
          \* reupload: shouldReuploadAfterDDOPDeletion; pool: the pool given;
          \* binary: generatedBinaryDDOP; label: the pool whose labels are known;
          \* alive: it has not been terminated
  cmd     \* requests, values: the queues; measures: there are measurement
          \* commands; lost: history, commands of which nothing is left
          \* and that will not be answered

Request ==
  [SendWorkingSetMaster       |-> [fn |-> "WorkingSetMaster", next |-> "SendStatusMessage"],
   SendStatusMessage          |-> [fn |-> "ClientTask", next |-> "RequestVersion"],
   RequestVersion             |-> [fn |-> "RequestVersion", next |-> "WaitForRequestVersionResponse"],
   SendRequestVersionResponse |-> [fn |-> "ParameterVersion", next |-> "RequestLanguage"],
   RequestStructureLabel      |-> [fn |-> "RequestStructureLabel", next |-> "WaitForStructureLabelResponse"],
   RequestLocalizationLabel   |-> [fn |-> "RequestLocalizationLabel", next |-> "WaitForLocalizationLabelResponse"],
   SendDeleteObjectPool       |-> [fn |-> "Delete", next |-> "WaitForDeleteObjectPoolResponse"],
   SendRequestTransferObjectPool |-> [fn |-> "RequestTransfer", next |-> "WaitForRequestTransferObjectPoolResponse"],
   SendObjectPoolActivate     |-> [fn |-> "Activate", next |-> "WaitForObjectPoolActivateResponse"],
   DeactivateObjectPool       |-> [fn |-> "Deactivate", next |-> "WaitForObjectPoolDeactivateResponse"]]
SendState == DOMAIN Request
\* Left by an answer or after two seconds
WaitState ==
  {"WaitForRequestVersionResponse", "WaitForStructureLabelResponse",
   "WaitForLocalizationLabelResponse", "WaitForDeleteObjectPoolResponse",
   "WaitForRequestTransferObjectPoolResponse", "WaitForObjectPoolTransferResponse",
   "WaitForObjectPoolActivateResponse", "WaitForObjectPoolDeactivateResponse"}
State == SendState \cup WaitState \cup
  {"Disconnected", "WaitForStartUpDelay", "WaitForServerStatusMessage",
   "WaitForRequestVersionFromServer", "RequestLanguage", "WaitForLanguageResponse",
   "ProcessDDOP", "BeginTransferDDOP", "WaitForDDOPTransfer", "Connected"}

ClientInit ==
  /\ \E p \in Pool :
       client = [state |-> "Disconnected", work |-> "idle", heard |-> "stale", status |-> FALSE,
                 reupload |-> FALSE, pool |-> p, binary |-> 0, label |-> 0, alive |-> TRUE]
  /\ cmd = [requests |-> <<>>, values |-> <<>>, measures |-> FALSE, lost |-> {}]

SetState(c, s) == [c EXCEPT !.state = s]

Cleared ==
  [requests |-> <<>>, values |-> <<>>, measures |-> FALSE,
   lost |-> cmd.lost \cup Range(cmd.requests) \cup Range(cmd.values)]

\* set_state clears the queues when it changes the state to Disconnected
Becomes(c) ==
  /\ client' = c
  /\ cmd' = IF c.state = "Disconnected" /\ client.state # "Disconnected" THEN Cleared ELSE cmd

-----------------------------------------------------------------------------
(* update() of the worker.  A send that is refused is repeated 50 ms later: a
   delay, until its two seconds are over *)

Idle == client.work = "idle" /\ (client.alive \/ ~config.threaded)
Quiet == UNCHANGED <<config, toECU, transfer>>

WorkDisconnected ==
  /\ Idle /\ client.state = "Disconnected"
  /\ client' = [SetState(client, "WaitForStartUpDelay") EXCEPT !.status = FALSE, !.reupload = FALSE]
  /\ Quiet /\ UNCHANGED <<toTC, faults, cmd>>

WorkStartUpDelay ==
  /\ Idle /\ client.state = "WaitForStartUpDelay"
  /\ client' = SetState(client, "WaitForServerStatusMessage")
  /\ Quiet /\ UNCHANGED <<toTC, faults, cmd>>

\* Variant: the working set master message is sent only once
WorkRequestNoMaster ==
  /\ Idle /\ client.state \in SendState
  /\ toTC' = IF client.state = "SendWorkingSetMaster" /\ client.binary # 0 THEN toTC
             ELSE Append(toTC, Msg(Request[client.state].fn, 0))
  /\ Becomes([SetState(client, Request[client.state].next) EXCEPT
                !.status = @ \/ client.state = "SendStatusMessage"])
  /\ Quiet /\ UNCHANGED faults

(* A message goes out and the next state is set.  A worker that is interrupted
   between the two may find the answer already handled *)
WorkRequest ==
  /\ Idle /\ client.state \in SendState
  /\ toTC' = Append(toTC, Msg(Request[client.state].fn, 0))
  /\ LET c == [client EXCEPT !.status = @ \/ client.state = "SendStatusMessage"]
         next == Request[client.state].next
     IN  \/ Becomes(SetState(c, next)) /\ UNCHANGED faults
         \/ Fault /\ Becomes([c EXCEPT !.work = next])
  /\ Quiet

\* set_state after the send, whatever the state has become
WorkSets ==
  /\ client.work # "idle"
  /\ Becomes([SetState(client, client.work) EXCEPT !.work = "idle"])
  /\ Quiet /\ UNCHANGED <<toTC, faults>>

(* The language is asked for, of the task controller or of anybody, and the
   next state is set with or without an answer *)
WorkLanguage ==
  /\ Idle
  /\ \/ client.state = "RequestLanguage" /\ client' = SetState(client, "WaitForLanguageResponse")
     \/ client.state = "WaitForLanguageResponse" /\ client' = SetState(client, "ProcessDDOP")
  /\ Quiet /\ UNCHANGED <<toTC, faults, cmd>>

(* The binary is generated once and kept; the labels of a pool that is given
   as binary are looked for as long as there are none *)
WorkProcessDDOP ==
  /\ Idle /\ client.state = "ProcessDDOP"
  /\ client' = IF config.mode = "generated"
               THEN [SetState(client, "RequestStructureLabel") EXCEPT
                       !.binary = IF @ = 0 THEN client.pool ELSE @,
                       !.label = IF client.binary = 0 THEN client.pool ELSE @]
               ELSE [SetState(client, "RequestStructureLabel") EXCEPT
                       !.label = IF @ = 0 THEN client.pool ELSE @]
  /\ Quiet /\ UNCHANGED <<toTC, faults, cmd>>

\* What the callback of the transport protocol copies from
Data == IF config.mode = "generated" THEN client.binary ELSE client.pool

(* The transfer begins.  The state is set after send_can_message returns *)
WorkBeginTransfer ==
  /\ Idle /\ client.state = "BeginTransferDDOP" /\ Data # 0 /\ transfer = 0
  /\ transfer' = Data
  /\ \/ Becomes(SetState(client, "WaitForDDOPTransfer")) /\ UNCHANGED faults
     \/ Fault /\ Becomes([client EXCEPT !.work = "WaitForDDOPTransfer"])
  /\ UNCHANGED <<config, toTC, toECU>>

Terminated(c) == [c EXCEPT !.alive = FALSE]

(* A message was refused for two seconds, six for the language.  A pool of one
   byte, the command alone, is one that send_can_message always refuses *)
WorkRefused ==
  /\ Idle
  /\ \/ client.state \in SendState \cup {"RequestLanguage"} /\ Fault
     \/ /\ client.state = "BeginTransferDDOP"
        /\ IF Data = 0 THEN UNCHANGED faults ELSE Fault
  /\ LET c == SetState(client, "Disconnected")
     IN  Becomes(IF client.state = "DeactivateObjectPool" THEN Terminated(c) ELSE c)
  /\ Quiet /\ UNCHANGED toTC

\* Variant: the end of the pool transfer is waited for without a limit
WorkTimesOutButTransfer ==
  /\ Idle /\ client.state \in WaitState \ {"WaitForObjectPoolTransferResponse"}
  /\ Becomes(SetState(client, "Disconnected"))
  /\ Quiet /\ UNCHANGED toTC

\* The answer did not come within two seconds
WorkTimesOut ==
  /\ Idle /\ client.state \in WaitState
  /\ Becomes(IF client.state # "WaitForObjectPoolDeactivateResponse"
             THEN SetState(client, "Disconnected")
             ELSE IF client.reupload
             THEN [SetState(client, "ProcessDDOP") EXCEPT !.reupload = FALSE]
             ELSE Terminated(SetState(client, "Disconnected")))
  /\ Quiet /\ UNCHANGED toTC

\* The request of the version may not come at all
WorkNotAsked ==
  /\ Idle /\ client.state = "WaitForRequestVersionFromServer"
  /\ client' = SetState(client, "RequestLanguage")
  /\ Quiet /\ UNCHANGED <<toTC, cmd>>

\* The status is looked at first and the state set after, without the lock
WorkConnected ==
  /\ Idle /\ client.state = "Connected" /\ client.heard = "stale"
  /\ \/ Becomes(SetState(client, "Disconnected")) /\ UNCHANGED faults
     \/ Fault /\ Becomes([client EXCEPT !.work = "Disconnected"])
  /\ Quiet /\ UNCHANGED toTC

CanServe == Idle /\ client.state = "Connected" /\ client.heard = "recent"

(* process_queued_commands, under the lock: first the requests, then the
   values.  A request is erased whether its value was sent, refused, or none of
   the callbacks had one; once a send is refused the rest waits *)
WorkRequestQueue ==
  /\ CanServe /\ cmd.requests # <<>>
  /\ LET c == Head(cmd.requests)
         d == [cmd EXCEPT !.requests = Tail(@)]
         gone == [d EXCEPT !.lost = @ \cup {c}]
     IN  \/ toTC' = Append(toTC, Msg("Value", c)) /\ cmd' = d /\ UNCHANGED faults
         \/ cmd' = gone /\ UNCHANGED <<toTC, faults>>
         \/ Fault /\ cmd' = gone /\ UNCHANGED toTC
  /\ Quiet /\ UNCHANGED client

\* A value is erased first and asked after that whether it is to be
\* acknowledged: what is read may say no

WorkValueQueue ==
  /\ CanServe /\ cmd.requests = <<>> /\ cmd.values # <<>>
  /\ LET c == Head(cmd.values)
         d == [cmd EXCEPT !.values = Tail(@)]
         gone == [d EXCEPT !.lost = @ \cup {c}]
     IN  \/ toTC' = Append(toTC, Msg("Acknowledge", c)) /\ cmd' = d /\ UNCHANGED faults
         \/ cmd' = gone /\ UNCHANGED <<toTC, faults>>
         \/ Fault /\ cmd' = gone /\ UNCHANGED toTC
  /\ Quiet /\ UNCHANGED client

(* process_queued_threshold_commands: a value is due when its time has come or
   it has passed its threshold; one at a time is on its way, or its refusal *)
WorkMeasure ==
  /\ CanServe /\ cmd.measures
  /\ \A i \in DOMAIN toTC : toTC[i].fn # "Value"
  /\ \A i \in DOMAIN toECU : toECU[i].fn # "Nack"
  /\ toTC' = Append(toTC, Msg("Value", 0))
  /\ Quiet /\ UNCHANGED <<faults, client, cmd>>

-----------------------------------------------------------------------------
(* process_rx_message *)

\* The callbacks are registered until terminate()
Arrives == client.alive /\ toECU # <<>> /\ toECU' = Tail(toECU)
In(fn, state) == Arrives /\ Head(toECU).fn = fn /\ client.state = state
Answer == Head(toECU).x
ReadKeeps == UNCHANGED <<config, toTC, transfer, faults>>

ReceiveNack ==
  /\ Arrives /\ Head(toECU).fn = "Nack"
  /\ Becomes(SetState(client, "Disconnected"))
  /\ ReadKeeps

ReceiveVersion ==
  /\ \/ /\ In("ParameterVersion", "WaitForRequestVersionResponse")
        /\ client' = SetState(client, "WaitForRequestVersionFromServer")
     \/ /\ In("RequestVersion", "WaitForRequestVersionFromServer")
        /\ client' = SetState(client, "SendRequestVersionResponse")
  /\ ReadKeeps /\ UNCHANGED cmd

\* All bytes 0xFF: the task controller has no pool of ours
ReceiveStructureLabel ==
  /\ In("StructureLabel", "WaitForStructureLabelResponse")
  /\ client' = SetState(client,
       IF Answer = 0 THEN "SendRequestTransferObjectPool"
       ELSE IF client.label # 0 /\ Answer = Structure[client.label]
       THEN "RequestLocalizationLabel" ELSE "SendDeleteObjectPool")
  /\ ReadKeeps /\ UNCHANGED cmd

ReceiveLocalizationLabel ==
  /\ In("LocalizationLabel", "WaitForLocalizationLabelResponse")
  /\ client' = SetState(client,
       IF Answer = 0 THEN "SendRequestTransferObjectPool"
       ELSE IF client.label # 0 /\ Answer = Localization[client.label]
       THEN "SendObjectPoolActivate" ELSE "SendDeleteObjectPool")
  /\ ReadKeeps /\ UNCHANGED cmd

\* Whether it was deleted is not looked at
ReceiveDeleted ==
  /\ In("DeleteResponse", "WaitForDeleteObjectPoolResponse")
  /\ client' = SetState(client, "SendRequestTransferObjectPool")
  /\ ReadKeeps /\ UNCHANGED cmd

\* Without memory, or a place to store the pool, the client gives up in the
\* state it is in
ReceiveMayTransfer ==
  /\ In("RequestTransferResponse", "WaitForRequestTransferObjectPoolResponse")
  /\ client' = IF Answer = 0 THEN SetState(client, "BeginTransferDDOP") ELSE Terminated(client)
  /\ ReadKeeps /\ UNCHANGED cmd

ReceiveTransferred ==
  /\ In("TransferResponse", "WaitForObjectPoolTransferResponse")
  /\ client' = IF Answer = 0 THEN SetState(client, "SendObjectPoolActivate") ELSE Terminated(client)
  /\ ReadKeeps /\ UNCHANGED cmd

ReceiveActivated ==
  /\ In("ActivateResponse", "WaitForObjectPoolActivateResponse")
  /\ Becomes(IF Answer = 0 THEN SetState(client, "Connected")
             ELSE Terminated(SetState(client, "Disconnected")))
  /\ ReadKeeps

\* The same message answers a deactivation; an error is left to the timeout
ReceiveDeactivated ==
  /\ In("ActivateResponse", "WaitForObjectPoolDeactivateResponse")
  /\ client' = IF Answer = 0 /\ client.reupload
               THEN SetState(client, "SendDeleteObjectPool") ELSE client
  /\ ReadKeeps /\ UNCHANGED cmd

\* Variant: the acknowledgement is not asked for, as with a plain value
ReceiveCommandNoAck ==
  /\ Arrives /\ UNCHANGED client
  /\ \/ Head(toECU).fn = "RequestValue" /\ cmd' = [cmd EXCEPT !.requests = Append(@, Answer)]
     \/ Head(toECU).fn = "SetValueAndAcknowledge" /\ UNCHANGED cmd
     \/ Head(toECU).fn = "Measurement" /\ cmd' = [cmd EXCEPT !.measures = TRUE]
  /\ ReadKeeps

\* Commands are queued in every state
ReceiveCommand ==
  /\ Arrives /\ UNCHANGED client
  /\ \/ Head(toECU).fn = "RequestValue" /\ cmd' = [cmd EXCEPT !.requests = Append(@, Answer)]
     \/ /\ Head(toECU).fn = "SetValueAndAcknowledge"
        /\ cmd' = [cmd EXCEPT !.values = Append(@, Answer)]
     \/ Head(toECU).fn = "Measurement" /\ cmd' = [cmd EXCEPT !.measures = TRUE]
  /\ ReadKeeps

\* The state in which a message counts
Expected ==
  [ParameterVersion |-> {"WaitForRequestVersionResponse"},
   RequestVersion |-> {"WaitForRequestVersionFromServer"},
   StructureLabel |-> {"WaitForStructureLabelResponse"},
   LocalizationLabel |-> {"WaitForLocalizationLabelResponse"},
   DeleteResponse |-> {"WaitForDeleteObjectPoolResponse"},
   RequestTransferResponse |-> {"WaitForRequestTransferObjectPoolResponse"},
   TransferResponse |-> {"WaitForObjectPoolTransferResponse"},
   ActivateResponse |-> {"WaitForObjectPoolActivateResponse", "WaitForObjectPoolDeactivateResponse"},
   Nack |-> State, RequestValue |-> State, SetValueAndAcknowledge |-> State, Measurement |-> State]

\* A message at a strange time, or after terminate(), is dropped
ReceiveIgnored ==
  /\ toECU # <<>> /\ toECU' = Tail(toECU)
  /\ ~client.alive \/ client.state \notin Expected[Head(toECU).fn]
  /\ cmd' = IF Answer \in Command /\ Head(toECU).fn \in {"RequestValue", "SetValueAndAcknowledge"}
            THEN [cmd EXCEPT !.lost = @ \cup {Answer}] ELSE cmd
  /\ ReadKeeps /\ UNCHANGED client

Receive ==
  \/ ReceiveNack \/ ReceiveVersion \/ ReceiveStructureLabel \/ ReceiveLocalizationLabel
  \/ ReceiveDeleted \/ ReceiveMayTransfer \/ ReceiveTransferred \/ ReceiveActivated
  \/ ReceiveDeactivated \/ ReceiveCommand \/ ReceiveIgnored

\* The status message: every one starts a connection that waits for it
ReceiveStatus ==
  /\ client.alive
  /\ client' = [client EXCEPT !.heard = "recent",
                 !.state = IF @ = "WaitForServerStatusMessage" THEN "SendWorkingSetMaster" ELSE @]
  /\ UNCHANGED <<config, toTC, toECU, transfer, faults, cmd>>

(* process_tx_callback: counts in one state only *)
TransferReported(successful) ==
  IF client.state # "WaitForDDOPTransfer" THEN UNCHANGED <<client, cmd>>
  ELSE Becomes(SetState(client, IF successful THEN "WaitForObjectPoolTransferResponse"
                                ELSE "Disconnected"))

-----------------------------------------------------------------------------
(* The application *)

\* Variant: the pool is handed on after it was cleared
ReuploadClearsPool(p) ==
  /\ client.state = "Connected" /\ p # client.pool
  /\ client' = [SetState(client, "DeactivateObjectPool") EXCEPT
                  !.pool = 0, !.binary = 0, !.label = 0, !.reupload = TRUE]
  /\ cmd' = Cleared
  /\ UNCHANGED <<config, toTC, toECU, transfer, faults>>

\* Variant: the binary that was generated before is kept
ReuploadKeepsBinary(p) ==
  /\ client.state = "Connected" /\ p # client.pool
  /\ client' = [SetState(client, "DeactivateObjectPool") EXCEPT
                  !.pool = p, !.label = 0, !.reupload = TRUE]
  /\ cmd' = Cleared
  /\ UNCHANGED <<config, toTC, toECU, transfer, faults>>

(* reupload_device_descriptor_object_pool, under the lock *)
Reupload(p) ==
  /\ client.state = "Connected" /\ p # client.pool
  /\ client' = [SetState(client, "DeactivateObjectPool") EXCEPT
                  !.pool = p, !.binary = 0, !.label = 0, !.reupload = TRUE]
  /\ cmd' = Cleared
  /\ UNCHANGED <<config, toTC, toECU, transfer, faults>>

Restart ==
  /\ Becomes(SetState(client, "Disconnected"))
  /\ UNCHANGED <<config, toTC, toECU, transfer>>

Terminate ==
  /\ client.alive /\ client' = Terminated(client)
  /\ UNCHANGED <<config, toTC, toECU, transfer, cmd>>
\* terminate() has waited for the worker to end
Initialize ==
  /\ ~client.alive /\ client.work = "idle"
  /\ client' = [client EXCEPT !.alive = TRUE]
  /\ UNCHANGED <<config, toTC, toECU, transfer, faults, cmd>>
=============================================================================
