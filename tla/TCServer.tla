------------------------------ MODULE TCServer ------------------------------
(***************************************************************************)
(* TaskControllerServer with one client                                    *)
(* (isobus/src/isobus_task_controller_server.cpp): process_rx_messages and *)
(* the time out of update(), on one thread.  The functions its application *)
(* implements (memory, storing and activating a pool) are as their         *)
(* declarations describe them; a pool is kept in non-volatile memory.      *)
(* The server of the repository reports no label, because the client asks  *)
(* for the one made of 0xFF bytes; others report what they have stored.    *)
(***************************************************************************)
EXTENDS TCLink

VARIABLE server \* up; known: there is an ActiveClient; active: isDDOPActive;
                \* stored: the pool it has; waiting: commands not yet answered

ServerInit ==
  \E p \in Pool \cup {0} :
    server = [up |-> TRUE, known |-> FALSE, active |-> FALSE, stored |-> p,
              waiting |-> {}]

Forgotten(s) == [s EXCEPT !.known = FALSE, !.active = FALSE, !.waiting = {}]
Down(s) == [Forgotten(s) EXCEPT !.up = FALSE]

Arrived(fn) ==
  /\ server.up /\ toTC # <<>> /\ Head(toTC).fn = fn /\ toTC' = Tail(toTC)
  /\ UNCHANGED <<config, transfer>>
ToECU(msgs) == toECU' = toECU \o msgs

\* A client is announced: once, as long as it is known
ServeWorkingSetMaster ==
  /\ Arrived("WorkingSetMaster")
  /\ server' = [server EXCEPT !.known = TRUE]
  /\ UNCHANGED <<toECU, faults>>

\* Its time is noted: see Forget
ServeClientTask == Arrived("ClientTask") /\ UNCHANGED <<toECU, faults, server>>

\* Answered for everybody, with a request of the same
ServeRequestVersion ==
  /\ Arrived("RequestVersion")
  /\ ToECU(<<Msg("ParameterVersion", 0), Msg("RequestVersion", 0)>>)
  /\ UNCHANGED <<faults, server>>

(* The version is stored in the ActiveClient, without a look at whether there
   is one: else the process ends *)
ServeParameterVersion ==
  /\ Arrived("ParameterVersion")
  /\ server' = IF server.known THEN server ELSE Down(server)
  /\ UNCHANGED <<toECU, faults>>

\* Everything else of a client that is not known is refused
ServeStranger ==
  /\ ~server.known
  /\ \E fn \in {"RequestStructureLabel", "RequestLocalizationLabel", "RequestTransfer",
                "ObjectPoolTransfer", "Activate", "Deactivate", "Delete", "Value",
                "Acknowledge"} : Arrived(fn)
  /\ ToECU(<<Msg("Nack", 0)>>)
  /\ UNCHANGED <<faults, server>>

Reports(labels, label) ==
  IF server.stored = 0 \/ config.labels \notin labels THEN 0 ELSE label[server.stored]

ServeLabels ==
  /\ server.known
  /\ \/ /\ Arrived("RequestStructureLabel")
        /\ ToECU(<<Msg("StructureLabel", Reports({"structure", "both"}, Structure))>>)
     \/ /\ Arrived("RequestLocalizationLabel")
        /\ ToECU(<<Msg("LocalizationLabel", Reports({"both"}, Localization))>>)
  /\ UNCHANGED <<faults, server>>

\* The application says whether there is memory enough
ServeRequestTransfer ==
  /\ server.known /\ Arrived("RequestTransfer")
  /\ \/ ToECU(<<Msg("RequestTransferResponse", 0)>>) /\ UNCHANGED faults
     \/ Fault /\ ToECU(<<Msg("RequestTransferResponse", 1)>>)
  /\ UNCHANGED server

\* ... and whether the pool could be stored, in the place of the one before
ServeObjectPoolTransfer ==
  /\ server.known /\ Arrived("ObjectPoolTransfer")
  /\ \/ /\ ToECU(<<Msg("TransferResponse", 0)>>) /\ UNCHANGED faults
        /\ server' = [server EXCEPT !.stored = Head(toTC).x]
     \/ Fault /\ ToECU(<<Msg("TransferResponse", 2)>>) /\ UNCHANGED server

ServeActivate ==
  /\ server.known /\ Arrived("Activate")
  /\ \/ /\ server.stored # 0 /\ server' = [server EXCEPT !.active = TRUE]
        /\ ToECU(<<Msg("ActivateResponse", 0)>>) /\ UNCHANGED faults
     \/ /\ IF server.stored = 0 THEN UNCHANGED faults ELSE Fault
        /\ ToECU(<<Msg("ActivateResponse", 4)>>) /\ UNCHANGED server

ServeDeactivate ==
  /\ server.known /\ Arrived("Deactivate")
  /\ \/ /\ server' = [server EXCEPT !.active = FALSE]
        /\ ToECU(<<Msg("ActivateResponse", 0)>>) /\ UNCHANGED faults
     \/ Fault /\ ToECU(<<Msg("ActivateResponse", 4)>>) /\ UNCHANGED server

\* Deleted or not, there is an answer
ServeDelete ==
  /\ server.known /\ Arrived("Delete")
  /\ ToECU(<<Msg("DeleteResponse", 0)>>)
  /\ \/ server' = [server EXCEPT !.stored = 0] /\ UNCHANGED faults
     \/ Fault /\ UNCHANGED server

\* A value or an acknowledgement, if the pool is active
ServeValue ==
  /\ server.known /\ (Arrived("Value") \/ Arrived("Acknowledge"))
  /\ server' = [server EXCEPT !.waiting = IF server.active THEN @ \ {Head(toTC).x} ELSE @]
  /\ UNCHANGED <<toECU, faults>>

Serve ==
  \/ ServeWorkingSetMaster \/ ServeClientTask \/ ServeRequestVersion \/ ServeParameterVersion
  \/ ServeStranger \/ ServeLabels \/ ServeRequestTransfer \/ ServeObjectPoolTransfer
  \/ ServeActivate \/ ServeDeactivate \/ ServeDelete \/ ServeValue

\* What is sent to a task controller that is off reaches nobody
Undelivered ==
  /\ ~server.up /\ toTC # <<>> /\ toTC' = <<>>
  /\ UNCHANGED <<config, toECU, transfer, faults, server>>

\* update(): the client has been silent for six seconds
ForgetClient ==
  /\ server.up /\ server.known
  /\ server' = Forgotten(server)
  /\ UNCHANGED <<config, toTC, toECU, transfer, faults>>

\* send_request_value and its kind, called by the application for an active pool
SendCommand(fn, c) ==
  /\ server.up /\ server.known /\ server.active
  /\ server' = IF fn = "Measurement" THEN server ELSE [server EXCEPT !.waiting = @ \cup {c}]
  /\ ToECU(<<Msg(fn, c)>>)
  /\ UNCHANGED <<config, toTC, transfer, faults>>

\* It loses its power and what it knows of the client; the pool may be lost too
PowerOff ==
  /\ server.up /\ toTC' = <<>>
  /\ \E p \in {server.stored, 0} : server' = [Down(server) EXCEPT !.stored = p]
  /\ UNCHANGED <<config, toECU, transfer>>
PowerOn ==
  /\ ~server.up /\ toTC = <<>> /\ server' = [server EXCEPT !.up = TRUE]
  /\ UNCHANGED <<config, toTC, toECU, transfer, faults>>
=============================================================================
