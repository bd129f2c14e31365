--------------------------- MODULE TaskController ---------------------------
(***************************************************************************)
(* A client and its task controller: TCClient and TCServer on one bus,     *)
(* with the faults between them and what both applications do.             *)
(***************************************************************************)
EXTENDS TCClient, TCServer

CONSTANTS
  Config,      \* the configurations looked at
  MaxReuploads \* bound on the pools given while the client runs

ASSUME ConfigAssumption ==
  /\ Config \subseteq [mode : {"generated", "vector"}, threaded : BOOLEAN,
                       labels : {"none", "structure", "both"}]
  /\ MaxReuploads \in Nat

VARIABLES
  left,  \* commands and reuploads still to come
  mishap \* history: since the task controller last knew the client, it came
         \* back before the client had noticed, an announcement was lost, or the
         \* client was initialized in a state that relies on one

vars == <<config, toTC, toECU, transfer, faults, client, cmd, server, left, mishap>>

Init ==
  /\ config \in Config
  /\ toTC = <<>> /\ toECU = <<>> /\ transfer = 0 /\ faults = MaxFaults
  /\ ClientInit /\ ServerInit
  /\ left = [commands |-> Command, reuploads |-> MaxReuploads] /\ mishap = FALSE

Commands == {"RequestValue", "SetValueAndAcknowledge", "Measurement", "Nack"}
\* Nothing is on its way that could be the answer to a request
NoAnswer == toTC = <<>> /\ \A i \in DOMAIN toECU : toECU[i].fn \in Commands
\* A timeout while an answer is on its way is early: the answer is late
Due == IF NoAnswer THEN UNCHANGED faults ELSE Fault
\* Six seconds have passed since the client fell silent: what was on its way has
\* arrived, and the task controller has dropped the client
SixSeconds == toTC = <<>> /\ toECU = <<>> /\ transfer = 0 /\ ~server.known

-----------------------------------------------------------------------------
Worker ==
  /\ \/ WorkDisconnected \/ (SixSeconds /\ WorkStartUpDelay) \/ WorkRequest \/ WorkSets
     \/ WorkLanguage \/ WorkProcessDDOP \/ WorkBeginTransfer \/ WorkConnected
     \/ WorkRequestQueue \/ WorkValueQueue \/ (Due /\ WorkTimesOut) \/ (Due /\ WorkNotAsked)
     \/ (Data = 0 /\ WorkRefused)
  /\ UNCHANGED <<server, left, mishap>>
Refused == Data # 0 /\ WorkRefused /\ UNCHANGED <<server, left, mishap>>
Measure == WorkMeasure /\ UNCHANGED <<server, left, mishap>>

Reading == Receive /\ UNCHANGED <<server, left, mishap>>
Serving ==
  /\ Serve \/ Undelivered
  /\ mishap' = (mishap /\ ~server'.known)
  /\ UNCHANGED <<client, cmd, left>>

\* The client sends its status every two seconds from the announcement on until
\* it is disconnected; the task controller notes the time of both
Silent == client.state = "WaitForStartUpDelay" \/ (~client.alive /\ config.threaded /\ client.work = "idle")
Forgetting ==
  /\ Silent /\ toTC = <<>> /\ toECU = <<>> /\ ForgetClient
  /\ UNCHANGED <<client, cmd, left, mishap>>

\* The status message the task controller broadcasts every two seconds; what it
\* sent before has been read
Status == server.up /\ toECU = <<>> /\ ReceiveStatus /\ UNCHANGED <<server, left, mishap>>
\* It has not been heard for six seconds
StatusGrowsOld ==
  /\ client.heard = "recent"
  /\ IF server.up \/ toECU # <<>> THEN Fault ELSE UNCHANGED faults
  /\ client' = [client EXCEPT !.heard = "stale"]
  /\ UNCHANGED <<config, toTC, toECU, transfer, cmd, server, left, mishap>>

\* The pool arrives, and then the transport protocol reports it
TransferSucceeds ==
  /\ toTC' = Append(toTC, Msg("ObjectPoolTransfer", transfer))
  /\ TransferReported(TRUE) /\ UNCHANGED faults
TransferFails ==
  /\ IF server.up THEN Fault ELSE UNCHANGED faults
  /\ toTC' \in {toTC, Append(toTC, Msg("ObjectPoolTransfer", transfer))}
  /\ TransferReported(FALSE)
Transfer ==
  /\ transfer # 0 /\ transfer' = 0
  /\ SlowWorker \/ client.work = "idle"
  /\ (server.up /\ TransferSucceeds) \/ TransferFails
  /\ UNCHANGED <<config, toECU, server, left, mishap>>

Commanding ==
  /\ \E c \in left.commands, fn \in Commands \ {"Nack"} :
       SendCommand(fn, c) /\ left' = [left EXCEPT !.commands = @ \ {c}]
  /\ UNCHANGED <<client, cmd, mishap>>

Reuploading ==
  /\ left.reuploads > 0 /\ left' = [left EXCEPT !.reuploads = @ - 1]
  /\ \E p \in Pool : Reupload(p)
  /\ UNCHANGED <<server, mishap>>

\* The states in which the client has announced itself and relies on that
Announced == {"SendStatusMessage", "RequestVersion", "SendRequestVersionResponse", "Connected"}
Restarting ==
  /\ \/ Fault /\ (Restart \/ Terminate) /\ UNCHANGED mishap
     \/ Initialize /\ mishap' = (mishap \/ (~server.known /\ client.state \in Announced))
  /\ UNCHANGED <<server, left>>

(* A frame is lost, or the task controller loses its power *)
Lose ==
  /\ Fault
  /\ \/ /\ toTC # <<>> /\ toTC' = Tail(toTC)
        /\ Head(toTC).fn # "ObjectPoolTransfer"
        /\ mishap' = (mishap \/ Head(toTC).fn = "WorkingSetMaster")
        /\ cmd' = [cmd EXCEPT !.lost = @ \cup ({Head(toTC).x} \cap Command)]
        /\ UNCHANGED <<config, toECU, transfer, server>>
     \/ /\ toECU # <<>> /\ toECU' = Tail(toECU)
        /\ cmd' = IF Head(toECU).fn \in {"RequestValue", "SetValueAndAcknowledge"}
                  THEN [cmd EXCEPT !.lost = @ \cup {Head(toECU).x}] ELSE cmd
        /\ UNCHANGED <<config, toTC, transfer, server, mishap>>
     \/ PowerOff /\ UNCHANGED <<cmd, mishap>>
  /\ UNCHANGED <<client, left>>

\* Six seconds without it: what it had sent has been read and no connection has
\* got further than this
Noticed ==
  /\ client.heard = "stale" /\ client.work = "idle" /\ transfer = 0 /\ toECU = <<>>
  /\ client.state \in {"Disconnected", "WaitForStartUpDelay", "WaitForServerStatusMessage",
       "WaitForRequestVersionFromServer", "RequestLanguage", "WaitForLanguageResponse",
       "ProcessDDOP", "RequestStructureLabel", "WaitForStructureLabelResponse",
       "WaitForDDOPTransfer"}
\* ... or the client is not there any more
Gone == ~client.alive /\ config.threaded /\ client.heard = "stale" /\ toECU = <<>>
PoweredOn ==
  /\ PowerOn /\ mishap' = (mishap \/ ~(Noticed \/ Gone))
  /\ UNCHANGED <<client, cmd, left>>

Next ==
  \/ Worker \/ Refused \/ Measure \/ Reading \/ Serving \/ Forgetting \/ Status
  \/ StatusGrowsOld \/ Transfer \/ Commanding \/ Reuploading \/ Restarting \/ Lose \/ PoweredOn

Spec == Init /\ [][Next]_vars

-----------------------------------------------------------------------------
\* Type correctness of the client, its queues and the task controller
TypeOK ==
  /\ config \in Config /\ faults \in 0 .. MaxFaults /\ transfer \in Pool \cup {0}
  /\ client \in [state : State, work : State \cup {"idle"}, heard : {"recent", "stale"},
                 status : BOOLEAN, reupload : BOOLEAN, pool : Pool, binary : Pool \cup {0},
                 label : Pool \cup {0}, alive : BOOLEAN]
  /\ cmd \in [requests : Seq(Command), values : Seq(Command), measures : BOOLEAN,
              lost : SUBSET Command]
  /\ server \in [up : BOOLEAN, known : BOOLEAN, active : BOOLEAN, stored : Pool \cup {0},
                 waiting : SUBSET Command]
  /\ mishap \in BOOLEAN

(* A client that is connected to a task controller that knows it runs there the
   pool the application gave it last, and it is active: whether the pool was
   found by its labels or transferred, given at the start or while the client
   ran, over answers that are late, lost or left from the time before *)
ActiveIsCurrent ==
  client.state = "Connected" /\ server.known =>
    server.active /\ server.stored = client.pool

(* The handler of the client's version stores it in the ActiveClient without a
   look at whether there is one.  There is not only after an accident: when the
   version is next to be served, the task controller knows the client, or has
   not known it since it was back too early, the announcement was lost, or the
   client was initialized as if announced.  Refused sends, lost or late answers,
   timeouts, power losses and terminated clients do not lead there *)
ClientIsKnown ==
  server.up /\ toTC # <<>> /\ Head(toTC).fn = "ParameterVersion" =>
    server.known \/ mishap

-----------------------------------------------------------------------------
(* The threads run, messages are read and served, timeouts that are not early
   expire, and a task controller that is off is switched on; nothing forces a
   fault, a command, a reupload or a restart *)
Fairness ==
  /\ WF_vars(NoAnswer /\ Worker) /\ WF_vars(Worker /\ UNCHANGED faults)
  /\ WF_vars(Reading) /\ WF_vars(Serving /\ UNCHANGED faults) /\ WF_vars(Forgetting)
  /\ WF_vars(Status) /\ WF_vars(~server.up /\ StatusGrowsOld)
  /\ WF_vars(Transfer /\ UNCHANGED faults) /\ WF_vars(PoweredOn)
FairSpec == Spec /\ Fairness

\* The client believes in a connection of which the task controller knows nothing
Unheard == client.state = "Connected" /\ ~server.known /\ mishap

(* After the last fault and the last reupload the client is connected for good
   and its pool is active, unless it was terminated: by its application, or
   because the task controller refused its pool; or unless it never notices that
   the task controller has forgotten it, which takes an accident *)
Reconnects ==
  <>[](client.state = "Connected" /\ server.active /\ server.stored = client.pool)
    \/ <>[]~client.alive \/ <>[]Unheard

(* Every command of the task controller is answered, unless nothing is left of
   it: a connection was given up, a message lost or refused, none of the
   application's callbacks had the value, or the client, reading what it has
   erased, saw no acknowledgement asked for.  None waits in a queue for ever *)
CommandsAnswered ==
  \A c \in Command : c \in server.waiting ~> (c \notin server.waiting \/ c \in cmd.lost \/ ~client.alive)
=============================================================================
