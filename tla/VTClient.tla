------------------------------ MODULE VTClient ------------------------------
(***************************************************************************)
(* VirtualTerminalClient (isobus/src/isobus_virtual_terminal_client.cpp)   *)
(* with the VirtualTerminalClientUpdateHelper the sprayer sets its values  *)
(* through.  Three threads: the worker calls update() every 50 ms, the     *)
(* update thread calls process_rx_message and the transport protocol's     *)
(* callbacks, the application calls set_numeric_value.  Only the queue of  *)
(* commands has a lock.                                                    *)
(***************************************************************************)
EXTENDS VTLink, Positions

VARIABLES
  client, \* state machine: state, upload, uploaded, heard (age of the last
          \* status message: none, recent, stale), maintain, running; work: the
          \* worker has sent a request and not yet set the state; stale:
          \* history, an upload began with the outcome of another
  cmd,    \* queue, awaiting; call: how far the application's call has come;
          \* last, owed: history, the last value asked for and not yet sent
  helper  \* value: numericValueStates; server: the terminal it listens to is known;
          \* told: history, the objects whose value it has taken over from there

NoCall == [pc |-> "none", obj |-> 0, val |-> 0]

\* Variant: a lost connection does not forget what was uploaded
SetStateKeepsUploaded(c, s) ==
  [c EXCEPT !.state = s, !.heard = IF s = "Disconnected" THEN "none" ELSE @]

(* The requests of the connection, in the order of the states *)
Request ==
  [SendGetMemory         |-> [fn |-> "GetMemory",      wait |-> "WaitForGetMemoryResponse"],
   SendGetNumberSoftkeys |-> [fn |-> "GetSoftKeys",    wait |-> "WaitForGetNumberSoftKeysResponse"],
   SendGetTextFontData   |-> [fn |-> "GetTextFont",    wait |-> "WaitForGetTextFontDataResponse"],
   SendGetHardware       |-> [fn |-> "GetHardware",    wait |-> "WaitForGetHardwareResponse"],
   SendGetVersions       |-> [fn |-> "GetVersions",    wait |-> "WaitForGetVersionsResponse"],
   SendLoadVersion       |-> [fn |-> "LoadVersion",    wait |-> "WaitForLoadVersionResponse"],
   SendStoreVersion      |-> [fn |-> "StoreVersion",   wait |-> "WaitForStoreVersionResponse"],
   SendEndOfObjectPool   |-> [fn |-> "EndOfObjectPool", wait |-> "WaitForEndOfObjectPoolResponse"]]
SendState == DOMAIN Request
WaitState == {Request[s].wait : s \in SendState}
\* These give up after VT_STATUS_TIMEOUT_MS if the request is not accepted
TimedSendState == {"SendGetVersions", "SendLoadVersion", "SendStoreVersion"}
State == SendState \cup WaitState \cup
  {"Disconnected", "WaitForPartnerVTStatusMessage", "SendWorkingSetMasterMessage",
   "ReadyForObjectPool", "UploadObjectPool", "Connected", "Failed"}

SetState(c, s) ==
  [c EXCEPT !.state = s,
            !.heard = IF s = "Disconnected" THEN "none" ELSE @,
            !.stale = @ \/ (s = "UploadObjectPool" /\ c.upload # "Uninitialized"),
            !.uploaded = IF s = "Disconnected" THEN [i \in Pool |-> FALSE] ELSE @]

ClientInit ==
  /\ client = [state |-> "Disconnected", upload |-> "Uninitialized",
               uploaded |-> [i \in Pool |-> FALSE], heard |-> "none",
               maintain |-> FALSE, running |-> TRUE, work |-> "idle", stale |-> FALSE]
  /\ cmd = [queue |-> <<>>, awaiting |-> FALSE, call |-> NoCall,
            last |-> [o \in Object |-> 0], owed |-> [o \in Object |-> FALSE]]
  /\ helper = [value |-> [o \in Object |-> 0], server |-> FALSE, told |-> {}]

-----------------------------------------------------------------------------
(* Commands *)

\* c sent: the last value asked for is owed no longer
Sent(d, o, v) == [d EXCEPT !.owed[o] = @ /\ d.last[o] # v]

(* process_command_queue with the awaiting flag as given: the first command
   that is accepted goes out, every command refused before it stays *)
ProcessCommandQueue(awaiting) ==
  LET q == cmd.queue
      d == [cmd EXCEPT !.awaiting = awaiting]
  IN  IF client.state # "Connected" \/ awaiting \/ q = <<>>
      THEN cmd' = d /\ UNCHANGED <<toVT, faults>>
      ELSE \/ \E i \in 1 .. Len(q) :
                /\ i - 1 <= faults /\ faults' = faults - (i - 1)
                /\ ToVT(<<q[i]>>)
                /\ cmd' = [Sent(d, q[i].obj, q[i].val) EXCEPT !.queue = Without(q, i),
                                                            !.awaiting = TRUE]
           \/ /\ Len(q) <= faults /\ faults' = faults - Len(q)
              /\ cmd' = d /\ UNCHANGED toVT

\* Variant: a command that has a similar one in the queue is taken as sent
QueuedFirst(q, m) == IF \E i \in DOMAIN q : q[i].obj = m.obj THEN q ELSE Append(q, m)

(* replace_command, and emplace_back if there is none to replace.  Two changes
   of one numeric value are similar *)
Queued(q, m) ==
  LET similar == {i \in DOMAIN q : q[i].obj = m.obj}
      first == CHOOSE i \in similar : \A j \in similar : i <= j
      kept == DOMAIN q \ (similar \ {first})
  IN  IF similar = {} THEN Append(q, m)
      ELSE [k \in 1 .. Cardinality(kept) |->
              IF Nth(k, kept) = first THEN m ELSE q[Nth(k, kept)]]

Command(c) == ValueMsg("ChangeNumericValue", c.obj, c.val)

\* set_numeric_value of a value that differs from the one the helper keeps
Call(o, v) ==
  /\ cmd.call = NoCall /\ helper.value[o] # v
  /\ cmd' = [cmd EXCEPT !.call = [pc |-> "check", obj |-> o, val |-> v],
                        !.last[o] = v, !.owed[o] = TRUE]
  /\ UNCHANGED <<config, toVT, toECU, transfer, faults, client, helper>>

\* queue_command asks send_command, which looks at the flag and the state ...
CallCheck ==
  /\ cmd.call.pc = "check"
  /\ cmd' = [cmd EXCEPT !.call.pc =
              IF client.state = "Connected" /\ ~cmd.awaiting THEN "send" ELSE "push"]
  /\ UNCHANGED <<config, toVT, toECU, transfer, faults, client, helper>>

\* ... sends ...
CallSend ==
  /\ cmd.call.pc = "send"
  /\ \/ /\ ToVT(<<Command(cmd.call)>>)
        /\ cmd' = [Sent(cmd, cmd.call.obj, cmd.call.val) EXCEPT !.call.pc = "mark"]
        /\ UNCHANGED faults
     \/ /\ Fault /\ cmd' = [cmd EXCEPT !.call.pc = "push"] /\ UNCHANGED toVT
  /\ UNCHANGED <<config, toECU, transfer, client, helper>>

\* ... and notes that an answer is awaited; the helper notes the value
CallMark ==
  /\ cmd.call.pc = "mark"
  /\ cmd' = [cmd EXCEPT !.awaiting = TRUE, !.call = NoCall]
  /\ helper' = [helper EXCEPT !.value[cmd.call.obj] = cmd.call.val]
  /\ UNCHANGED <<config, toVT, toECU, transfer, faults, client>>

\* Otherwise the command is queued under the lock
CallPush ==
  /\ cmd.call.pc = "push"
  /\ cmd' = [cmd EXCEPT !.queue = Queued(@, Command(cmd.call)), !.call = NoCall]
  /\ helper' = [helper EXCEPT !.value[cmd.call.obj] = cmd.call.val]
  /\ UNCHANGED <<config, toVT, toECU, transfer, faults, client>>

\* Variant: an answer is awaited for ever
CommandNeverTimesOut == FALSE /\ UNCHANGED <<config, toVT, toECU, transfer, client, cmd, helper>>

(* An answer is awaited for 1500 ms only: the next send_command forgets it *)
CommandTimesOut ==
  /\ cmd.awaiting
  /\ cmd' = [cmd EXCEPT !.awaiting = FALSE]
  /\ UNCHANGED <<config, toVT, toECU, transfer, client, helper>>

-----------------------------------------------------------------------------
(* update() of the worker.  A request that is refused leaves the state as it
   is and is repeated 50 ms later: a delay *)

Idle == client.running /\ client.work = "idle"
WorkerKeeps == UNCHANGED <<config, toECU, transfer, cmd, helper>>

WorkDisconnected ==
  /\ Idle /\ client.state = "Disconnected"
  /\ client' = [SetState(client, "WaitForPartnerVTStatusMessage") EXCEPT !.maintain = FALSE]
  /\ WorkerKeeps /\ UNCHANGED <<toVT, faults>>

WorkStatusHeard ==
  /\ Idle /\ client.state = "WaitForPartnerVTStatusMessage" /\ client.heard # "none"
  /\ client' = SetState(client, "SendWorkingSetMasterMessage")
  /\ WorkerKeeps /\ UNCHANGED <<toVT, faults>>

\* The working set master message is a broadcast the terminal does not handle
WorkMaster ==
  /\ Idle /\ client.state = "SendWorkingSetMasterMessage"
  /\ client' = SetState(client, "ReadyForObjectPool")
  /\ WorkerKeeps /\ UNCHANGED <<toVT, faults>>

(* A terminal that has timed out sets Disconnected, which the pools at once
   overwrite; the result of send_working_set_maintenance is not looked at *)
WorkReady ==
  /\ Idle /\ client.state = "ReadyForObjectPool"
  /\ LET c == IF client.heard = "recent" THEN client ELSE SetState(client, "Disconnected")
     IN  client' = [SetState(c, "SendGetMemory") EXCEPT !.maintain = TRUE]
  /\ \/ ToVT(<<Msg("MaintenanceInit")>>) /\ UNCHANGED faults
     \/ Fault /\ UNCHANGED toVT
  /\ WorkerKeeps

(* A request goes out and the next state is set.  A worker that is interrupted
   between the two may find the answer already handled *)
WorkRequest ==
  /\ Idle /\ client.state \in SendState
  /\ ToVT(<<Msg(Request[client.state].fn)>>)
  /\ LET wait == Request[client.state].wait
     IN  \/ client' = SetState(client, wait) /\ UNCHANGED faults
         \/ client' = [client EXCEPT !.work = wait] /\ Fault
  /\ WorkerKeeps

\* set_state after the send, whatever the state has become
WorkRequested ==
  /\ client.work \in WaitState
  /\ client' = [SetState(client, client.work) EXCEPT !.work = "idle"]
  /\ WorkerKeeps /\ UNCHANGED <<toVT, faults>>

WorkTimesOut ==
  /\ Idle /\ client.state \in WaitState \cup TimedSendState
  /\ client' = SetState(client, "Failed")
  /\ WorkerKeeps /\ UNCHANGED toVT

WorkRetry ==
  /\ Idle /\ client.state = "Failed"
  /\ client' = [SetState(client, "Disconnected") EXCEPT !.maintain = FALSE]
  /\ WorkerKeeps /\ UNCHANGED <<toVT, faults>>

WorkConnected ==
  /\ Idle /\ client.state = "Connected" /\ client.heard # "recent"
  /\ client' = SetState(client, "Disconnected")
  /\ WorkerKeeps /\ UNCHANGED <<toVT, faults>>

(* The maintenance message that is due every second: one under way at a time *)
WorkMaintain ==
  /\ Idle /\ client.maintain /\ toVT = <<>> /\ toECU = <<>>
  /\ ToVT(<<Msg("Maintenance")>>)
  /\ UNCHANGED client /\ WorkerKeeps /\ UNCHANGED faults

WorkQueue ==
  /\ Idle /\ cmd.queue # <<>> /\ client.state = "Connected" /\ ~cmd.awaiting
  /\ ProcessCommandQueue(cmd.awaiting)
  /\ UNCHANGED <<config, toECU, transfer, client, helper>>

-----------------------------------------------------------------------------
(* The upload: one pass of update() over the pools, pool by pool.  A pool that
   was given as a vector has neither of the pointers the loop looks at and
   counts as uploaded.  Iterations after a failure go on in the state
   Disconnected; the pass ends at the first pool that meets a transfer in
   progress *)

PassStart == [c |-> client, all |-> TRUE, sent |-> 0, over |-> FALSE]

PassPool(r, i) ==
  LET c == r.c
      all == r.all /\ c.uploaded[i]
  IN  CASE r.over -> r
        [] ~r.over /\ i \in ByVector -> [r EXCEPT !.c.uploaded[i] = TRUE]
        [] OTHER ->
             CASE c.upload = "InProgress" -> [r EXCEPT !.all = FALSE, !.over = TRUE]
               [] c.upload = "Failed" ->
                    [r EXCEPT !.c = SetState([c EXCEPT !.upload = "Uninitialized"],
                                              "Disconnected"),
                              !.all = all]
               [] c.upload = "Success" /\ ~c.uploaded[i] ->
                    [r EXCEPT !.c = [c EXCEPT !.uploaded[i] = TRUE, !.upload = "Uninitialized"],
                              !.all = FALSE]
               [] c.upload = "Uninitialized" /\ ~c.uploaded[i] /\ transfer = NoTransfer ->
                    [r EXCEPT !.c.upload = "InProgress", !.all = FALSE, !.sent = i]
               [] OTHER -> [r EXCEPT !.all = all]

UploadPass ==
  LET pass[i \in 0 .. NPools] == IF i = 0 THEN PassStart ELSE PassPool(pass[i - 1], i)
  IN  pass[NPools]

WorkUpload ==
  /\ Idle /\ client.state = "UploadObjectPool"
  /\ LET r == UploadPass
         c == IF r.all THEN SetState(r.c, "SendEndOfObjectPool") ELSE r.c
     IN  IF r.sent = 0
         THEN client' = c /\ UNCHANGED <<transfer, faults>>
         ELSE /\ transfer' = [NoTransfer EXCEPT !.pool = r.sent]
              /\ \/ client' = c /\ UNCHANGED faults
                 \/ client' = [c EXCEPT !.upload = "Uninitialized", !.work = "upload"] /\ Fault
  /\ UNCHANGED <<config, toVT, toECU, cmd, helper>>

\* Variant: the assignment takes the state machine for the upload
WorkUploadStartedState ==
  /\ client.work = "upload"
  /\ client' = [client EXCEPT !.state = "InProgress", !.work = "idle"]
  /\ WorkerKeeps /\ UNCHANGED <<toVT, faults>>

\* The assignment after send_can_message of a worker that was interrupted,
\* whatever was called back meanwhile
WorkUploadStarted ==
  /\ client.work = "upload"
  /\ client' = [client EXCEPT !.upload = "InProgress", !.work = "idle"]
  /\ WorkerKeeps /\ UNCHANGED <<toVT, faults>>

(* The transport protocol fetches a chunk: it is taken from the first pool that
   is not marked as uploaded.  If there is none the callback's refusal is not
   looked at and the buffer keeps what it held: chunk 0 *)
FetchChunk ==
  /\ transfer # NoTransfer /\ Len(transfer.chunks) < NChunks
  /\ LET open == {i \in Pool : ~client.uploaded[i]}
         i == IF open = {} THEN 0 ELSE CHOOSE j \in open : \A k \in open : j <= k
     IN  transfer' = [transfer EXCEPT !.chunks = Append(@, i)]
  /\ UNCHANGED <<config, toVT, toECU, faults, client, cmd, helper>>

\* process_callback: what a transfer came to counts in UploadObjectPool only
Reported(result) ==
  client' = [client EXCEPT !.upload = IF client.state = "UploadObjectPool" THEN result ELSE @]

TransferSucceeds ==
  /\ transfer # NoTransfer /\ ~transfer.broken /\ Len(transfer.chunks) = NChunks
  /\ ToVT(<<[fn |-> "ObjectPoolTransfer", pool |-> transfer.pool, chunks |-> transfer.chunks]>>)
  /\ transfer' = NoTransfer /\ Reported("Success")
  /\ UNCHANGED <<config, toECU, faults, cmd, helper>>

TransferFails ==
  /\ transfer # NoTransfer
  /\ transfer' = NoTransfer /\ Reported("Failed")
  /\ UNCHANGED <<config, toVT, toECU, cmd, helper>>

-----------------------------------------------------------------------------
(* process_rx_message of the update thread: the message at the head of toECU.
   The helper listens to every message of its terminal before the client does,
   and goes on when the client is terminated *)

Received(fn) == toECU # <<>> /\ Head(toECU).fn = fn
Reads == toECU' = Tail(toECU) /\ UNCHANGED <<config, transfer>>

\* A status message is a broadcast; its handler touches only what it sets here
ReceiveStatus(active) ==
  /\ client' = IF client.running THEN [client EXCEPT !.heard = "recent"] ELSE client
  /\ helper' = [helper EXCEPT !.server = @ \/ active]
  /\ <<client', helper'>> # <<client, helper>>
  /\ UNCHANGED <<config, toVT, toECU, transfer, faults, cmd>>

(* A negative acknowledgement.  The callback is the partner's: it is called
   for a message to this node, not for a broadcast *)
ReceiveAcknowledge ==
  /\ Received("Nack")
  /\ client' = IF client.running /\ ~Head(toECU).broadcast
               THEN SetState(client, "Disconnected") ELSE client
  /\ Reads /\ UNCHANGED <<toVT, faults, cmd, helper>>

(* An answer in the state that waits for it; anywhere else it is ignored *)
Answered(fn, wait, next) ==
  /\ Received(fn)
  /\ client' = IF client.running /\ client.state = wait THEN SetState(client, next) ELSE client
  /\ Reads /\ UNCHANGED <<toVT, faults, cmd, helper>>

ReceiveGetMemory ==
  Answered("GetMemory", "WaitForGetMemoryResponse",
           IF Head(toECU).ok THEN "SendGetNumberSoftkeys" ELSE "Failed")

ReceiveGetNumberOfSoftKeys ==
  Answered("GetSoftKeys", "WaitForGetNumberSoftKeysResponse", "SendGetTextFontData")

ReceiveGetTextFontData ==
  Answered("GetTextFont", "WaitForGetTextFontDataResponse", "SendGetHardware")

ReceiveGetHardware ==
  Answered("GetHardware", "WaitForGetHardwareResponse",
           IF config.labelled THEN "SendGetVersions" ELSE "UploadObjectPool")

\* Variant: the error code of the response is not looked at
ReceiveLoadVersionAnyhow == Answered("LoadVersion", "WaitForLoadVersionResponse", "Connected")

(* The labels the terminal has stored, own and others, in either order.  Those
   in front of the own one are deleted *)
ReceiveGetVersionsResponse ==
  /\ Received("GetVersions")
  /\ LET m == Head(toECU)
     IN  IF client.running /\ client.state = "WaitForGetVersionsResponse"
         THEN /\ client' = SetState(client, IF m.own THEN "SendLoadVersion" ELSE "UploadObjectPool")
              /\ ToVT(IF m.other THEN <<Msg("DeleteOtherVersion")>> ELSE <<>>)
         ELSE UNCHANGED <<client, toVT>>
  /\ Reads /\ UNCHANGED <<faults, cmd, helper>>

ReceiveLoadVersion ==
  Answered("LoadVersion", "WaitForLoadVersionResponse",
           IF Head(toECU).ok THEN "Connected" ELSE "UploadObjectPool")

\* A version that could not be stored leaves the client waiting
ReceiveStoreVersion ==
  Answered("StoreVersion", "WaitForStoreVersionResponse",
           IF Head(toECU).ok THEN "Connected" ELSE client.state)

ReceiveEndOfObjectPool ==
  Answered("EndOfObjectPool", "WaitForEndOfObjectPoolResponse",
           IF ~Head(toECU).ok THEN "Failed"
           ELSE IF config.labelled THEN "SendStoreVersion" ELSE "Connected")

TakenOver(m) == [helper EXCEPT !.value[m.obj] = m.val, !.told = @ \cup {m.obj}]

(* The response to a command: the next one may go.  The helper takes the value
   over unless the response has an error *)
ReceiveCommandResponse ==
  /\ toECU # <<>> /\ Head(toECU).fn \in {"ChangeNumericValue", "DeleteObjectPool"}
  /\ LET m == Head(toECU)
     IN  helper' = IF m.fn = "ChangeNumericValue" /\ m.ok /\ helper.server
                   THEN TakenOver(m) ELSE helper
  /\ IF client.running THEN ProcessCommandQueue(FALSE) ELSE UNCHANGED <<cmd, toVT, faults>>
  /\ Reads /\ UNCHANGED client

\* Variant: the helper does not hear what the operator does
ReceiveChangeNumericValueUnheard ==
  /\ Received("VTChangeNumericValue")
  /\ Reads /\ UNCHANGED <<toVT, faults, client, cmd, helper>>

(* The operator of the terminal has changed a value.  The helper has taken it
   over when the client's event reaches it, and does nothing more *)
ReceiveChangeNumericValue ==
  /\ Received("VTChangeNumericValue")
  /\ LET m == Head(toECU)
     IN  helper' = TakenOver(m)
  /\ Reads /\ UNCHANGED <<toVT, faults, client, cmd>>

\* A version of another label was deleted: logged
ReceiveDeleteVersion ==
  /\ Received("DeleteVersion")
  /\ Reads /\ UNCHANGED <<toVT, faults, client, cmd, helper>>

Receive ==
  \/ ReceiveAcknowledge \/ ReceiveGetMemory \/ ReceiveGetNumberOfSoftKeys
  \/ ReceiveGetTextFontData \/ ReceiveGetHardware \/ ReceiveGetVersionsResponse
  \/ ReceiveLoadVersion \/ ReceiveStoreVersion \/ ReceiveEndOfObjectPool
  \/ ReceiveCommandResponse \/ ReceiveChangeNumericValue \/ ReceiveDeleteVersion

-----------------------------------------------------------------------------
(* terminate(), once the worker is between two updates, and initialize() *)

Terminate ==
  /\ Idle
  /\ ToVT(IF client.state = "Connected" THEN <<Msg("DeleteObjectPool")>> ELSE <<>>)
  /\ client' = [SetState(client, "Disconnected") EXCEPT !.running = FALSE]
  /\ UNCHANGED <<config, toECU, transfer, cmd, helper>>

Initialize ==
  /\ ~client.running
  /\ client' = [client EXCEPT !.running = TRUE]
  /\ UNCHANGED <<config, toVT, toECU, transfer, faults, cmd, helper>>
=============================================================================
