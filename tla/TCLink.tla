------------------------------- MODULE TCLink -------------------------------
(***************************************************************************)
(* The messages between a task controller client and its task controller:  *)
(* what TCClient and TCServer share.  Each direction is a FIFO from a      *)
(* successful send_can_message to the receiver's process_rx_message.  The  *)
(* object pool (DDOP) is a multi packet message, of which the transport    *)
(* protocol reports the end once and after the receiver has all of it, as  *)
(* TransportProtocol is shown to do.                                       *)
(***************************************************************************)
EXTENDS Integers, Sequences, FiniteSets, SequencesExt

CONSTANTS
  Pool,         \* the object pools, positive numbers; 0 stands for none
  Structure,    \* the structure label of each pool
  Localization, \* its localization label
  MaxCommands,  \* bound on the commands of the task controller
  MaxFaults,    \* bound on what goes wrong
  SlowWorker    \* a whole transfer may pass between two lines of the worker

\* "an update to an object pool must include an updated structure label" is
\* asked of the application, which may update the localization label as well
ASSUME PoolAssumption ==
  /\ Pool \subseteq Nat \ {0} /\ MaxCommands \in Nat /\ MaxFaults \in Nat
  /\ Structure \in [Pool -> Nat \ {0}] /\ Localization \in [Pool -> Nat \ {0}]
  /\ \A p, q \in Pool :
       Structure[p] = Structure[q] /\ Localization[p] = Localization[q] => p = q
  /\ SlowWorker \in BOOLEAN

Command == 1 .. MaxCommands

VARIABLES
  config,   \* chosen once: mode, how the application gives its pool; threaded,
            \* the client has a thread of its own; labels, which labels of the
            \* stored pool the task controller reports
  toTC,     \* messages to the task controller
  toECU,    \* messages to the client
  transfer, \* the pool under way, 0 if none
  faults    \* faults that may still happen

\* A message with a label, a pool, a command or an error code, 0 if it has none
Msg(fn, x) == [fn |-> fn, x |-> x]
Fault == faults > 0 /\ faults' = faults - 1
=============================================================================
