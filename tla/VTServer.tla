------------------------------ MODULE VTServer ------------------------------
(***************************************************************************)
(* VirtualTerminalServer with the working set of one client                *)
(* (isobus/src/isobus_virtual_terminal_server.cpp,                         *)
(* isobus_virtual_terminal_server_managed_working_set.cpp).  Its message   *)
(* handler and update() run on one thread, a pool is parsed on another.    *)
(* What the application of the terminal implements (memory, versions in    *)
(* non-volatile memory, deactivation of a pool) is as the declarations of  *)
(* the virtual functions describe it.                                      *)
(***************************************************************************)
EXTENDS VTLink

CONSTANT
  AnswersLoad \* the terminal's application answers a load command when the
              \* pool is parsed; update() does not

VARIABLE terminal \* managed, pools (iopFilesRawData), parse (processingState),
                  \* tree (there are objects), value, own and other (versions
                  \* stored), loaded (from non-volatile memory), active (it is
                  \* the active working set), up

NoPools == <<>>
Volatile == [managed |-> FALSE, pools |-> NoPools, parse |-> "None", tree |-> FALSE,
             value |-> [o \in Object |-> 0], loaded |-> FALSE, active |-> FALSE, set |-> {}]

AllPools == [i \in Pool |-> [k \in 1 .. NChunks |-> i]]

\* Versions of earlier sessions may be stored
ServerInit ==
  \E own \in {NoPools, AllPools}, other \in BOOLEAN :
    /\ config.labelled \/ (own = NoPools /\ ~other)
    /\ terminal = [up |-> TRUE, own |-> own, other |-> other, vol |-> Volatile]

Arrived(fn) ==
  /\ terminal.up /\ terminal.vol.managed
  /\ toVT # <<>> /\ Head(toVT).fn = fn /\ toVT' = Tail(toVT)
  /\ UNCHANGED <<config, transfer>>
Nack == [fn |-> "Nack", broadcast |-> config.broadcast]
vol == terminal.vol
\* start_parsing_thread: unless one is running or has not been joined
StartParsing(v) == IF v.parse \in {"None", "Joined"} THEN [v EXCEPT !.parse = "Running"] ELSE v

(* check_if_source_is_managed: the message that announces a client is the only
   one a stranger may send, and is not looked at further *)
CheckIfSourceIsManaged ==
  /\ terminal.up /\ ~vol.managed /\ toVT # <<>> /\ toVT' = Tail(toVT)
  /\ IF Head(toVT).fn = "MaintenanceInit"
     THEN terminal' = [terminal EXCEPT !.vol.managed = TRUE] /\ UNCHANGED toECU
     ELSE ToECU(<<Nack>>) /\ UNCHANGED terminal
  /\ UNCHANGED <<config, transfer, faults>>

ServeObjectPoolTransfer ==
  /\ Arrived("ObjectPoolTransfer")
  /\ terminal' = [terminal EXCEPT !.vol.pools = Append(@, Head(toVT).chunks)]
  /\ UNCHANGED <<toECU, faults>>

\* The application says whether there is memory enough
ServeGetMemory ==
  /\ Arrived("GetMemory")
  /\ \/ ToECU(<<Response("GetMemory", TRUE)>>) /\ UNCHANGED faults
     \/ Fault /\ ToECU(<<Response("GetMemory", FALSE)>>)
  /\ UNCHANGED terminal

\* The questions about soft keys, fonts and hardware
ServeCapabilities ==
  \E fn \in {"GetSoftKeys", "GetTextFont", "GetHardware"} :
    Arrived(fn) /\ ToECU(<<Msg(fn)>>) /\ UNCHANGED <<terminal, faults>>

ServeGetVersions ==
  /\ Arrived("GetVersions")
  /\ ToECU(<<[fn |-> "GetVersions", own |-> terminal.own # NoPools, other |-> terminal.other]>>)
  /\ UNCHANGED <<terminal, faults>>

\* What is loaded is added to the pools; an empty version is an error, and the
\* pools there are are parsed all the same.  No answer if it was found
ServeLoadVersion ==
  /\ Arrived("LoadVersion")
  /\ \E found \in {terminal.own, NoPools} :
       /\ IF found = terminal.own THEN UNCHANGED faults ELSE Fault
       /\ LET v == [vol EXCEPT !.pools = @ \o found]
          IN  terminal' = [terminal EXCEPT !.vol =
                IF v.pools = NoPools THEN v ELSE [StartParsing(v) EXCEPT !.loaded = TRUE]]
       /\ ToECU(IF found = NoPools THEN <<Response("LoadVersion", FALSE)>> ELSE <<>>)

ServeStoreVersion ==
  /\ Arrived("StoreVersion")
  /\ IF vol.pools = NoPools
     THEN ToECU(<<Nack>>) /\ UNCHANGED <<terminal, faults>>
     ELSE \/ /\ ToECU(<<Response("StoreVersion", TRUE)>>)
             /\ terminal' = [terminal EXCEPT !.own = vol.pools] /\ UNCHANGED faults
          \/ Fault /\ ToECU(<<Response("StoreVersion", FALSE)>>) /\ UNCHANGED terminal

ServeDeleteVersion ==
  /\ Arrived("DeleteOtherVersion")
  /\ ToECU(<<Msg("DeleteVersion")>>)
  /\ terminal' = [terminal EXCEPT !.other = FALSE]
  /\ UNCHANGED faults

\* Without a pool there is no answer
ServeEndOfObjectPool ==
  /\ Arrived("EndOfObjectPool")
  /\ terminal' = [terminal EXCEPT !.vol = IF @.pools = NoPools THEN @ ELSE StartParsing(@)]
  /\ UNCHANGED <<toECU, faults>>

ServeMaintenance ==
  /\ \E fn \in {"Maintenance", "MaintenanceInit"} : Arrived(fn)
  /\ UNCHANGED <<terminal, toECU, faults>>

ServeChangeNumericValue ==
  /\ Arrived("ChangeNumericValue")
  /\ LET m == Head(toVT)
     IN  /\ terminal' = IF vol.tree THEN [terminal EXCEPT !.vol.value[m.obj] = m.val,
                                                          !.vol.set = @ \cup {m.obj}] ELSE terminal
         /\ ToECU(<<[fn |-> "ChangeNumericValue", obj |-> m.obj, val |-> m.val, ok |-> vol.tree]>>)
  /\ UNCHANGED faults

\* The application treats it as a disconnection of the client
ServeDeleteObjectPool ==
  /\ Arrived("DeleteObjectPool")
  /\ terminal' = [terminal EXCEPT !.vol = Volatile]
  /\ ToECU(<<Response("DeleteObjectPool", TRUE)>>)
  /\ UNCHANGED faults

Serve ==
  \/ CheckIfSourceIsManaged \/ ServeObjectPoolTransfer \/ ServeGetMemory \/ ServeCapabilities
  \/ ServeGetVersions \/ ServeLoadVersion \/ ServeStoreVersion \/ ServeDeleteVersion
  \/ ServeEndOfObjectPool \/ ServeMaintenance \/ ServeChangeNumericValue \/ ServeDeleteObjectPool

-----------------------------------------------------------------------------
\* A pool is whole if its chunks are all of one pool
Whole(p) == p \in Range(AllPools)

(* The parsing thread comes to an end.  Every object is replaced by the one in
   the pool; a pool that is not whole may be taken for one *)
ParseEnds ==
  /\ vol.parse = "Running"
  /\ \E result \in IF \A i \in DOMAIN vol.pools : Whole(vol.pools[i])
                   THEN {"Success"} ELSE {"Success", "Fail"} :
       terminal' = [terminal EXCEPT !.vol.parse = result, !.vol.tree = TRUE,
                                    !.vol.value = [o \in Object |-> 0], !.vol.set = {}]
  /\ UNCHANGED <<config, toVT, toECU, transfer, faults>>

(* update() joins the thread and reports the pool as free of errors, whether
   it could be parsed or not *)
ServerUpdate ==
  /\ vol.parse \in {"Success", "Fail"}
  /\ terminal' = [terminal EXCEPT !.vol.parse = "Joined",
                                  !.vol.active = @ \/ vol.parse = "Success"]
  /\ ToECU((IF AnswersLoad /\ vol.loaded THEN <<Response("LoadVersion", TRUE)>> ELSE <<>>)
           \o <<Response("EndOfObjectPool", TRUE)>>)
  /\ UNCHANGED <<config, toVT, transfer, faults>>

\* The operator changes a value of the active working set
OperatorChanges(o, v) ==
  /\ terminal.up /\ vol.active /\ vol.tree /\ vol.value[o] # v
  /\ terminal' = [terminal EXCEPT !.vol.value[o] = v, !.vol.set = @ \cup {o}]
  /\ ToECU(<<ValueMsg("VTChangeNumericValue", o, v)>>)
  /\ UNCHANGED <<config, toVT, transfer, faults>>

\* Power is lost: what is not in non-volatile memory is gone
PowerOff ==
  /\ terminal.up /\ terminal' = [terminal EXCEPT !.up = FALSE, !.vol = Volatile]
  /\ toVT' = <<>>
  /\ transfer' = IF transfer = NoTransfer THEN NoTransfer ELSE [transfer EXCEPT !.broken = TRUE]
  /\ UNCHANGED <<config, toECU>>
\* What is sent to it meanwhile is lost
Undelivered ==
  /\ ~terminal.up /\ toVT # <<>> /\ toVT' = Tail(toVT)
  /\ UNCHANGED <<config, toECU, transfer, faults, terminal>>
PowerOn ==
  /\ ~terminal.up /\ terminal' = [terminal EXCEPT !.up = TRUE]
  /\ UNCHANGED <<config, toVT, toECU, transfer, faults>>
=============================================================================
