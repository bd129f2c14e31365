---------------------------- MODULE BoundedFifo ----------------------------
(***************************************************************************)
(* What the stack expects of a frame queue: push() appends the frame and   *)
(* answers TRUE, or changes nothing and answers FALSE because the queue is *)
(* full; the consumer looks at the oldest frame, and takes it once it is   *)
(* handled.                                                                *)
(***************************************************************************)
EXTENDS Naturals, Sequences

CONSTANTS Producer, Frame, NoFrame, Limit

VARIABLES
  queue,    \* the frames, oldest first
  request,  \* request[p]: the frame p is pushing
  answer,   \* answer[p]: what the last push of p returned
  held      \* the frame the consumer is handling

vars == <<queue, request, answer, held>>

Init ==
  /\ queue = <<>>
  /\ request = [p \in Producer |-> NoFrame]
  /\ answer = [p \in Producer |-> TRUE]
  /\ held = NoFrame

Ask(p, f) ==
  /\ request[p] = NoFrame
  /\ request' = [request EXCEPT ![p] = f]
  /\ UNCHANGED <<queue, answer, held>>

Return(p, value) ==
  /\ request[p] # NoFrame
  /\ request' = [request EXCEPT ![p] = NoFrame]
  /\ answer' = [answer EXCEPT ![p] = value]
  /\ UNCHANGED held

Accept(p) ==
  /\ Len(queue) < Limit
  /\ Return(p, TRUE)
  /\ queue' = Append(queue, request[p])

Refuse(p) ==
  /\ Len(queue) = Limit
  /\ Return(p, FALSE)
  /\ UNCHANGED queue

Look ==
  /\ held = NoFrame /\ queue # <<>>
  /\ held' = Head(queue)
  /\ UNCHANGED <<queue, request, answer>>

Keep ==
  /\ held # NoFrame
  /\ held' = NoFrame
  /\ UNCHANGED <<queue, request, answer>>

Take ==
  /\ held # NoFrame
  /\ held' = NoFrame
  /\ queue' = Tail(queue)
  /\ UNCHANGED <<request, answer>>

Next ==
  \/ \E p \in Producer : (\E f \in Frame : Ask(p, f)) \/ Accept(p) \/ Refuse(p)
  \/ Look \/ Keep \/ Take

Safety == Init /\ [][Next]_vars
Spec == Safety /\ SF_vars(Take) /\ WF_vars(Look)
               /\ \A p \in Producer : WF_vars(Accept(p) \/ Refuse(p))
=============================================================================
