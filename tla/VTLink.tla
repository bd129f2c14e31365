------------------------------- MODULE VTLink -------------------------------
(***************************************************************************)
(* The messages between a virtual terminal client and its terminal: what   *)
(* VTClient and VTServer share.  Each direction is a FIFO from a           *)
(* successful send_can_message to the receiver's process_rx_message.       *)
(* An object pool is a multi packet message; the transport protocol is     *)
(* described by what TransportProtocol is shown to do: it fetches the data *)
(* from the client chunk by chunk, delivers all of it before it reports    *)
(* success, and reports every transfer once.                               *)
(***************************************************************************)
EXTENDS Integers, Sequences, FiniteSets, SequencesExt

CONSTANTS
  NPools,     \* number of object pools of the client
  ByVector,   \* pools that were given as a std::vector
  NChunks,    \* chunks the transport protocol fetches of one pool
  Object,     \* numeric values of the pool
  Value,      \* what they are set to; 0 is the value in the pool
  MaxFaults   \* bound on what goes wrong on the way and in the terminal

Pool == 1 .. NPools

ASSUME LinkAssumption ==
  /\ NPools \in Nat \ {0} /\ NChunks \in Nat \ {0} /\ MaxFaults \in Nat
  /\ ByVector \subseteq Pool /\ Value \subseteq Nat \ {0}

VARIABLES
  config,   \* chosen once: labelled, the pools carry a version label; threaded,
            \* the application has a thread of its own; broadcast, the terminal
            \* sends its negative acknowledgements to everybody, as VTServer does
  toVT,     \* messages to the terminal
  toECU,    \* messages to the client
  transfer, \* the pool under way, NoTransfer if none
  faults    \* faults that may still happen

NoTransfer == [pool |-> 0, chunks |-> <<>>, broken |-> FALSE]

Msg(fn) == [fn |-> fn]
ValueMsg(fn, o, v) == [fn |-> fn, obj |-> o, val |-> v]
\* A response with its error bits
Response(fn, ok) == [fn |-> fn, ok |-> ok]
ToVT(msgs) == toVT' = toVT \o msgs
ToECU(msgs) == toECU' = toECU \o msgs
Fault == faults > 0 /\ faults' = faults - 1
\* The sequence without its element i
Without(s, i) == SubSeq(s, 1, i - 1) \o SubSeq(s, i + 1, Len(s))
=============================================================================
