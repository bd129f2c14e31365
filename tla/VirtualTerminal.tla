-------------------------- MODULE VirtualTerminal --------------------------
(***************************************************************************)
(* A client and its terminal: VTClient and VTServer on one bus, with the   *)
(* faults between them and what the application and the operator do.       *)
(***************************************************************************)
EXTENDS VTClient, VTServer

CONSTANTS
  Config,      \* the configurations looked at
  FastRestart, \* the terminal may be back before the client has noticed that it
               \* was off; else only one whose refusal the client hears
  MaxCalls     \* bound on the values the application and the operator set

ASSUME ConfigAssumption ==
  /\ Config \subseteq [labelled : BOOLEAN, threaded : BOOLEAN, broadcast : BOOLEAN]
  /\ MaxCalls \in Nat

VARIABLE left  \* calls still allowed; history: no message has been lost

vars == <<config, toVT, toECU, transfer, faults, client, cmd, helper, terminal, left>>

Init ==
  /\ config \in Config
  /\ toVT = <<>> /\ toECU = <<>> /\ transfer = NoTransfer /\ faults = MaxFaults
  /\ ClientInit /\ ServerInit
  /\ left = [calls |-> MaxCalls, lossless |-> TRUE]

\* Nothing is on its way that could be the answer to a request
Unasked == {"Maintenance", "MaintenanceInit", "Nack", "VTChangeNumericValue"}
NoAnswer ==
  /\ \A i \in DOMAIN toVT : toVT[i].fn \in Unasked
  /\ \A i \in DOMAIN toECU : toECU[i].fn \in Unasked
  /\ vol.parse \in {"None", "Joined"}
\* A timeout with nothing to wait for, or one that is early: an answer was late.
\* A request that is never accepted is a fault
Due == IF NoAnswer /\ client.state \notin SendState THEN UNCHANGED faults ELSE Fault

-----------------------------------------------------------------------------
Worker ==
  /\ \/ WorkDisconnected \/ WorkStatusHeard \/ WorkMaster \/ WorkReady \/ WorkRequest
     \/ WorkRequested \/ WorkRetry \/ WorkConnected \/ WorkUpload \/ WorkUploadStarted
     \/ WorkQueue \/ (Due /\ WorkTimesOut)
  /\ UNCHANGED <<terminal, left>>

Maintain == WorkMaintain /\ UNCHANGED <<terminal, left>>

Reading == Receive /\ UNCHANGED <<terminal, left>>
Serving == (Serve \/ Undelivered) /\ UNCHANGED <<client, cmd, helper, left>>
Updating == ServerUpdate /\ UNCHANGED <<client, cmd, helper, left>>
Parsing == ParseEnds /\ UNCHANGED <<client, cmd, helper, left>>

\* The status message the terminal broadcasts every second: the requests sent
\* before have been served and their refusals read
Status ==
  /\ terminal.up
  /\ \A i \in DOMAIN toVT : toVT[i].fn \in {"Maintenance", "ChangeNumericValue"}
  /\ \A i \in DOMAIN toECU : toECU[i].fn # "Nack"
  /\ ReceiveStatus(vol.active) /\ UNCHANGED <<terminal, left>>
\* It has not been heard for VT_STATUS_TIMEOUT_MS, in which all it had sent
\* before has been read
StatusGrowsOld ==
  /\ client.heard = "recent"
  /\ IF terminal.up \/ toECU # <<>> THEN Fault ELSE UNCHANGED faults
  /\ client' = [client EXCEPT !.heard = "stale"]
  /\ UNCHANGED <<config, toVT, toECU, transfer, cmd, helper, terminal, left>>

CommandExpires == Due /\ CommandTimesOut /\ UNCHANGED <<terminal, left>>

Transfer ==
  /\ \/ FetchChunk \/ TransferSucceeds
     \/ (IF transfer.broken THEN UNCHANGED faults ELSE Fault) /\ TransferFails
  /\ UNCHANGED <<terminal, left>>

(* The application sets a value.  A thread of its own may be anywhere in the
   call while the others run; a call from a callback of the update thread is
   over before anything else happens there *)
Asks ==
  /\ left.calls > 0 /\ left' = [left EXCEPT !.calls = @ - 1]
  /\ \E o \in Object, v \in Value : Call(o, v)
  /\ UNCHANGED terminal
Calling == (CallCheck \/ CallSend \/ CallMark \/ CallPush) /\ UNCHANGED <<terminal, left>>

Operator ==
  /\ left.calls > 0 /\ left' = [left EXCEPT !.calls = @ - 1]
  /\ helper.server
  /\ \E o \in Object, v \in Value : OperatorChanges(o, v)
  /\ UNCHANGED <<faults, client, cmd, helper>>

Restarting ==
  \/ Fault /\ Terminate /\ UNCHANGED <<terminal, left>>
  \/ Initialize /\ UNCHANGED <<terminal, left>>

\* One message is lost, or the terminal loses its power.  A pool arrives before
\* the transport protocol says so
Lose ==
  /\ Fault
  /\ \/ /\ toVT # <<>> /\ Head(toVT).fn # "ObjectPoolTransfer" /\ toVT' = Tail(toVT)
        /\ left' = [left EXCEPT !.lossless = FALSE] /\ UNCHANGED <<toECU, transfer, terminal>>
     \/ /\ toECU # <<>> /\ toECU' = Tail(toECU)
        /\ left' = [left EXCEPT !.lossless = FALSE] /\ UNCHANGED <<toVT, transfer, terminal>>
     \/ PowerOff /\ UNCHANGED left
  /\ UNCHANGED <<config, client, cmd, helper>>
PoweredOn ==
  /\ \/ FastRestart \/ ~config.broadcast
     \/ client.heard # "recent" /\ client.state # "Connected"
  /\ PowerOn /\ UNCHANGED <<client, cmd, helper, left>>

\* While a call from the update thread runs, the update thread does nothing else
UpdateThreadFree == config.threaded \/ cmd.call = NoCall

Next ==
  \/ Worker \/ Maintain \/ Calling \/ Serving \/ Updating \/ Parsing \/ Lose \/ PoweredOn \/ StatusGrowsOld
  \/ CommandExpires \/ Operator \/ Asks \/ Restarting
  \/ UpdateThreadFree /\ (Reading \/ Status \/ Transfer)

Spec == Init /\ [][Next]_vars

-----------------------------------------------------------------------------
\* Type correctness of the client, its queue, the helper and the terminal
TypeOK ==
  /\ config \in Config /\ faults \in 0 .. MaxFaults
  /\ transfer \in [pool : 0 .. NPools, chunks : Seq(0 .. NPools), broken : BOOLEAN]
  /\ client \in [state : State, upload : {"Uninitialized", "InProgress", "Success", "Failed"},
                 uploaded : [Pool -> BOOLEAN], heard : {"none", "recent", "stale"},
                 maintain : BOOLEAN, running : BOOLEAN, stale : BOOLEAN,
                 work : WaitState \cup {"idle", "upload"}]
  /\ cmd.queue \in Seq([fn : {"ChangeNumericValue"}, obj : Object, val : Value])
  /\ cmd.awaiting \in BOOLEAN
  /\ helper \in [value : [Object -> Value \cup {0}], server : BOOLEAN, told : SUBSET Object]
  /\ terminal.vol.parse \in {"None", "Running", "Success", "Fail", "Joined"}
  /\ left \in [calls : 0 .. MaxCalls, lossless : BOOLEAN]

(* A client that shows itself as connected to a terminal that manages it has
   there every pool, whole and parsed, whether they were uploaded now or loaded
   from a version stored before: across late answers, refused loads, restarts
   of either side and uploads that fail.  update() takes the outcome of the
   current upload for the first pool that is not marked; the one case in which
   this is wrong, an outcome that is left from an earlier connection
   (client.stale), is excepted here and described in the README *)
ConnectedHasPool ==
  client.state = "Connected" /\ vol.managed /\ ~client.stale =>
    vol.tree /\ Range(AllPools) \subseteq Range(vol.pools)

(* A value the application was told is accepted is not forgotten before it is
   sent: the last one asked for of each object is in the call, in the queue or
   has gone out.  queue_command, replace_command and process_command_queue
   hand it on between two threads, with a flag that is not under the lock *)
AcceptedIsKept ==
  \A o \in Object : cmd.owed[o] =>
    \/ cmd.call # NoCall /\ cmd.call.obj = o
    \/ ValueMsg("ChangeNumericValue", o, cmd.last[o]) \in Range(cmd.queue)

(* The helper answers set_numeric_value from its own copy of a value and sends
   nothing if it is the one asked for.  Once nothing is on its way the copy is
   what the terminal shows, whoever changed it last: the operator and the
   application race each other.  Only for values it has heard of since the pool
   was parsed, if no message was lost and the calls come from the update thread *)
HelperAgrees ==
  /\ toVT = <<>> /\ toECU = <<>> /\ cmd.queue = <<>> /\ cmd.call = NoCall
  /\ left.lossless /\ ~config.threaded
  => \A o \in helper.told \cap vol.set : helper.value[o] = vol.value[o]

-----------------------------------------------------------------------------
\* An upload is thought to be in progress and there is none: its end was
\* reported while it did not count, or before the worker's assignment
Orphaned ==
  client.upload = "InProgress" /\ transfer = NoTransfer /\ client.work # "upload"

Online == client.state = "Connected" /\ vol.managed /\ vol.tree

(* The threads run, messages are read and served, timeouts that are not early
   expire, a terminal that is off is switched on and a client that was
   terminated is initialized again; nothing forces a fault, a call or a restart *)
Fairness ==
  /\ WF_vars(Worker) /\ WF_vars(Maintain) /\ WF_vars(Calling) /\ WF_vars(Serving)
  /\ WF_vars(Updating) /\ WF_vars(Parsing) /\ WF_vars(PoweredOn)
  /\ WF_vars(~terminal.up /\ StatusGrowsOld) /\ WF_vars(NoAnswer /\ CommandExpires)
  /\ WF_vars(UpdateThreadFree /\ Reading) /\ WF_vars(UpdateThreadFree /\ Status)
  /\ WF_vars(UpdateThreadFree /\ Transfer)
  /\ WF_vars(Initialize /\ UNCHANGED <<terminal, left>>)
FairSpec == Spec /\ Fairness

(* After the last fault the client is connected for good, with its pools on the
   terminal: every state of the machine is left by an answer, a timeout or a
   lost connection.  The exception is an orphaned upload, which nothing ends *)
Reconnects == <>[]Online \/ <>[]Orphaned

(* Every value that was accepted goes out, or a later one of the same object
   does: the queue is processed again when an answer arrives, when it is late
   and when the client has connected *)
ValuesArrive == \A o \in Object : cmd.owed[o] ~> (~cmd.owed[o] \/ Orphaned)
=============================================================================
