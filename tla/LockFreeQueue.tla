--------------------------- MODULE LockFreeQueue ---------------------------
(***************************************************************************)
(* The frame queues between the threads: LockFreeQueue of                  *)
(* utility/thread_synchronization.hpp, with the two ways                   *)
(* can_hardware_interface.cpp uses it.                                     *)
(*                                                                         *)
(* The receive queue of a channel is filled by the channel's receive       *)
(* thread, which asks is_full() before it reads a frame from the driver,   *)
(* and emptied by the update thread.  The transmit queue is filled by      *)
(* whoever calls transmit_can_frame(), and emptied by the update thread,   *)
(* which leaves a frame in the queue when the driver does not take it.     *)
(*                                                                         *)
(* One action is one access to a shared location.  The loads a thread      *)
(* makes of an index only it stores are merged with the step after them.   *)
(***************************************************************************)
EXTENDS Integers, Sequences

CONSTANTS
  Producer,  \* the threads that push
  Frame, NoFrame,
  Capacity,  \* the size the queue was constructed with
  Roles      \* the queues looked at: "transmit", "receive" or both

ASSUME QueueAssumption ==
  /\ Capacity \in Nat \ {0}
  /\ NoFrame \notin Frame
  /\ Roles \subseteq {"transmit", "receive"}

VARIABLES
  role,        \* which of the two queues this is
  buffer, readIndex, writeIndex,
  pc, item, mine, answer,  \* per producer: its place in push(), the frame, the
                           \* write index it loaded, what push() returned last
  cpc, place, held         \* the consumer: its place, the read index it loaded,
                           \* the frame it copied

vars == <<role, buffer, readIndex, writeIndex, pc, item, mine, answer, cpc, place, held>>

Index == 0 .. Capacity - 1
NextIndex(i) == (i + 1) % Capacity

Init ==
  /\ role \in Roles
  /\ buffer = [i \in Index |-> NoFrame]
  /\ readIndex = 0 /\ writeIndex = 0
  /\ pc = [p \in Producer |-> "ready"]
  /\ item = [p \in Producer |-> NoFrame]
  /\ mine = [p \in Producer |-> 0]
  /\ answer = [p \in Producer |-> TRUE]
  /\ cpc = "idle" /\ place = 0 /\ held = NoFrame

Goto(p, step) == pc' = [pc EXCEPT ![p] = step]

-----------------------------------------------------------------------------
(* The producers *)

\* Variant: the receive thread does not ask for room
AskUnguarded(p) ==
  /\ role = "receive" /\ pc[p] = "ready"
  /\ Goto(p, "read")
  /\ UNCHANGED <<role, buffer, readIndex, writeIndex, item, mine, answer, cpc, place, held>>
\* receive_can_frame(): a frame is read only when is_full() says there is room
AskIsFull(p) ==
  /\ role = "receive" /\ pc[p] = "ready"
  /\ NextIndex(writeIndex) # readIndex
  /\ Goto(p, "read")
  /\ UNCHANGED <<role, buffer, readIndex, writeIndex, item, mine, answer, cpc, place, held>>

\* push() is called, with a frame of the driver or one to be transmitted
Call(p, f) ==
  /\ \/ role = "receive" /\ pc[p] = "read"
     \/ role = "transmit" /\ pc[p] = "ready"
  /\ item' = [item EXCEPT ![p] = f]
  /\ Goto(p, "load")
  /\ UNCHANGED <<role, buffer, readIndex, writeIndex, mine, answer, cpc, place, held>>

LoadWriteIndex(p) ==
  /\ pc[p] = "load"
  /\ mine' = [mine EXCEPT ![p] = writeIndex]
  /\ Goto(p, "check")
  /\ UNCHANGED <<role, buffer, readIndex, writeIndex, item, answer, cpc, place, held>>

\* Variant: a push does not compare the indices
FullNever(i) == FALSE
FullAt(i) == NextIndex(i) = readIndex

\* push() returns FALSE: the buffer is full
Refuse(p) ==
  /\ pc[p] = "check" /\ FullAt(mine[p])
  /\ answer' = [answer EXCEPT ![p] = FALSE]
  /\ Goto(p, "ready")
  /\ UNCHANGED <<role, buffer, readIndex, writeIndex, item, mine, cpc, place, held>>

\* Variant: the index is stored before the slot is written
FindRoomPublished(p) ==
  /\ pc[p] = "check" /\ ~FullAt(mine[p])
  /\ writeIndex' = NextIndex(mine[p])
  /\ Goto(p, "write")
  /\ UNCHANGED <<role, buffer, readIndex, item, mine, answer, cpc, place, held>>
FindRoom(p) ==
  /\ pc[p] = "check" /\ ~FullAt(mine[p])
  /\ Goto(p, "write")
  /\ UNCHANGED <<role, buffer, readIndex, writeIndex, item, mine, answer, cpc, place, held>>

WriteSlot(p) ==
  /\ pc[p] = "write"
  /\ buffer' = [buffer EXCEPT ![mine[p]] = item[p]]
  /\ Goto(p, "publish")
  /\ UNCHANGED <<role, readIndex, writeIndex, item, mine, answer, cpc, place, held>>

Publish(p) ==
  /\ pc[p] = "publish"
  /\ writeIndex' = NextIndex(mine[p])
  /\ answer' = [answer EXCEPT ![p] = TRUE]
  /\ Goto(p, "ready")
  /\ UNCHANGED <<role, buffer, readIndex, item, mine, cpc, place, held>>

-----------------------------------------------------------------------------
(* The consumer: the loops over the two queues in update() *)

PeekIndex ==
  /\ cpc = "idle" /\ readIndex # writeIndex
  /\ place' = readIndex
  /\ cpc' = "copy"
  /\ UNCHANGED <<role, buffer, readIndex, writeIndex, pc, item, mine, answer, held>>

PeekCopy ==
  /\ cpc = "copy"
  /\ held' = buffer[place]
  /\ cpc' = "handle"
  /\ UNCHANGED <<role, buffer, readIndex, writeIndex, pc, item, mine, answer, place>>

\* The driver does not take the frame: the loop breaks
Keep ==
  /\ role = "transmit" /\ cpc = "handle"
  /\ held' = NoFrame
  /\ cpc' = "idle"
  /\ UNCHANGED <<role, buffer, readIndex, writeIndex, pc, item, mine, answer, place>>

\* The driver takes the frame, or the stack processes it
Handle ==
  /\ cpc = "handle"
  /\ cpc' = "pop"
  /\ UNCHANGED <<role, buffer, readIndex, writeIndex, pc, item, mine, answer, place, held>>

PopIndex ==
  /\ cpc = "pop"
  /\ place' = readIndex
  /\ cpc' = IF readIndex = writeIndex THEN "idle" ELSE "advance"
  /\ UNCHANGED <<role, buffer, readIndex, writeIndex, pc, item, mine, answer, held>>

PopAdvance ==
  /\ cpc = "advance"
  /\ readIndex' = NextIndex(place)
  /\ held' = NoFrame
  /\ cpc' = "idle"
  /\ UNCHANGED <<role, buffer, writeIndex, pc, item, mine, answer, place>>

-----------------------------------------------------------------------------
(* The specification *)

Push(p) == LoadWriteIndex(p) \/ Refuse(p) \/ FindRoom(p) \/ WriteSlot(p) \/ Publish(p)

Next ==
  \/ \E p \in Producer : AskIsFull(p) \/ (\E f \in Frame : Call(p, f)) \/ Push(p)
  \/ PeekIndex \/ PeekCopy \/ Keep \/ Handle \/ PopIndex \/ PopAdvance

Spec == Init /\ [][Next]_vars

\* A push that began is finished, the update thread runs again and again, and a
\* driver that is offered a frame again and again takes it at last.
Fairness ==
  /\ \A p \in Producer : WF_vars(Push(p))
  /\ WF_vars(PeekIndex) /\ WF_vars(PeekCopy) /\ WF_vars(PopIndex) /\ WF_vars(PopAdvance)
  /\ SF_vars(Handle)

FairSpec == Spec /\ Fairness

-----------------------------------------------------------------------------
(* Properties *)

\* The slots between the two indices, oldest first
Contents ==
  [i \in 1 .. (writeIndex - readIndex) % Capacity |-> buffer[(readIndex + i - 1) % Capacity]]

\* The buffer's slots are not atomic: no producer writes the slot the consumer
\* copies.
NoSlotRace ==
  \A p \in Producer : ~(pc[p] = "write" /\ cpc = "copy" /\ mine[p] = place)

\* receive_can_frame() does not look at what push() returns: the frame it has
\* read is never refused, because the room is_full() saw is still there.
ReceivedFrameFits == role = "receive" => \A p \in Producer : answer[p]

\* What the comment on push() says: it returns true if the item was pushed to
\* the queue.
PushedWhenTrue ==
  [][\A p \in Producer :
       Publish(p) => Contents' = Append(Contents, item[p])]_vars

-----------------------------------------------------------------------------
(* The abstract view: the queue is a FIFO of Capacity - 1 frames *)

Requested == [p \in Producer |->
                IF pc[p] \in {"load", "check", "write", "publish"} THEN item[p] ELSE NoFrame]

Fifo == INSTANCE BoundedFifo WITH
  Limit <- Capacity - 1, queue <- Contents, request <- Requested

\* push() and the consumer behave like a FIFO of the frames, every push
\* returns, and every frame that was accepted leaves the queue at its turn.
FifoSpec == Fifo!Spec
=============================================================================
