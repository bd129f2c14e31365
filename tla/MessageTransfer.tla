-------------------------- MODULE MessageTransfer --------------------------
(***************************************************************************)
(* What the transport layer promises the applications that call            *)
(* send_can_message(): a message is reported to its sender once, whole     *)
(* messages arrive or none, a message arrives at most once, and a message  *)
(* with a specific destination is reported as sent only after it arrived.  *)
(* A message reported as failed may still arrive.                          *)
(***************************************************************************)
EXTENDS Naturals, Sequences

CONSTANTS
  Node, Message,
  Broadcast(_),    \* the message has no specific destination
  Receivers(_),    \* the nodes a message is for
  Content(_)       \* what the receiver's application is given

VARIABLES
  outcome,         \* outcome[m]: idle, sending, success or failure
  delivered        \* delivered[n]: what node n was given, in order

vars == <<outcome, delivered>>

Arrived(m, n) == \E i \in 1 .. Len(delivered[n]) : delivered[n][i] = Content(m)

Init ==
  /\ outcome = [m \in Message |-> "idle"]
  /\ delivered = [n \in Node |-> <<>>]

Accept(m) ==
  /\ outcome[m] = "idle"
  /\ outcome' = [outcome EXCEPT ![m] = "sending"]
  /\ UNCHANGED delivered

Deliver(m, n) ==
  /\ outcome[m] # "idle"
  /\ n \in Receivers(m) /\ ~Arrived(m, n)
  /\ delivered' = [delivered EXCEPT ![n] = Append(@, Content(m))]
  /\ UNCHANGED outcome

Succeed(m) ==
  /\ outcome[m] = "sending"
  /\ Broadcast(m) \/ \A n \in Receivers(m) : Arrived(m, n)
  /\ outcome' = [outcome EXCEPT ![m] = "success"]
  /\ UNCHANGED delivered

Fail(m) ==
  /\ outcome[m] = "sending"
  /\ outcome' = [outcome EXCEPT ![m] = "failure"]
  /\ UNCHANGED delivered

Next ==
  \E m \in Message :
    \/ Accept(m)
    \/ \E n \in Node : Deliver(m, n)
    \/ Succeed(m)
    \/ Fail(m)

Safety == Init /\ [][Next]_vars
Spec == Safety /\ \A m \in Message : WF_vars(Succeed(m) \/ Fail(m))
=============================================================================
