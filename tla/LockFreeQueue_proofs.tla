------------------------ MODULE LockFreeQueue_proofs ------------------------
(***************************************************************************)
(* What holds of a frame queue of every capacity, for every set of frames, *)
(* with the one producer LockFreeQueue is written for: NoSlotRace,         *)
(* ReceivedFrameFits and PushedWhenTrue, and that the indices over the     *)
(* ring implement the bounded FIFO of BoundedFifo, step by step.  Two      *)
(* producers break it: the run lfq_two shows how.                          *)
(*                                                                         *)
(* The inductive invariant IInv ties each thread's place in the code to    *)
(* the two indices, and says which slots of the ring hold frames.          *)
(***************************************************************************)
EXTENDS LockFreeQueue, TLAPS

\* The queue is for a single producer and a single consumer
SingleProducer == \A p, q \in Producer : p = q

Steps == {"ready", "read", "load", "check", "write", "publish"}

Shape ==
  /\ role \in Roles
  /\ buffer \in [Index -> Frame \cup {NoFrame}]
  /\ readIndex \in Index /\ writeIndex \in Index
  /\ pc \in [Producer -> Steps]
  /\ item \in [Producer -> Frame \cup {NoFrame}]
  /\ mine \in [Producer -> Index]
  /\ answer \in [Producer -> BOOLEAN]
  /\ cpc \in {"idle", "copy", "handle", "pop", "advance"}
  /\ place \in Index
  /\ held \in Frame \cup {NoFrame}

Pushing(p) == pc[p] \in {"load", "check", "write", "publish"}

\* The index a push loaded is still the write index, and the room it found is
\* still there
ProducerInv ==
  \A p \in Producer :
    /\ Pushing(p) => item[p] \in Frame
    /\ pc[p] \in {"check", "write", "publish"} => mine[p] = writeIndex
    /\ pc[p] \in {"write", "publish"} => NextIndex(writeIndex) # readIndex
    /\ pc[p] = "publish" => buffer[writeIndex] = item[p]

\* The room is_full() saw lasts until push() compares the indices
ReceiveInv ==
  role = "receive" =>
    \A p \in Producer :
      /\ answer[p]
      /\ pc[p] \in {"read", "load", "check"} => NextIndex(writeIndex) # readIndex

\* From peek() to pop() the oldest frame stays where it is
ConsumerInv ==
  /\ cpc # "idle" => readIndex # writeIndex /\ place = readIndex
  /\ cpc \in {"idle", "copy"} => held = NoFrame
  /\ cpc \in {"handle", "pop", "advance"} => held = buffer[readIndex]

SlotAt(r, i) == (r + i - 1) % Capacity
Gap(r, w) == (w - r) % Capacity

\* Every slot between the indices holds a frame
FilledInv == \A i \in 1 .. Gap(readIndex, writeIndex) : buffer[SlotAt(readIndex, i)] \in Frame

IInv == Shape /\ ProducerInv /\ ReceiveInv /\ ConsumerInv /\ FilledInv

-----------------------------------------------------------------------------
(* Arithmetic of the ring *)

LEMMA NextValue ==
  ASSUME NEW i \in Index
  PROVE  NextIndex(i) = IF i + 1 = Capacity THEN 0 ELSE i + 1
BY QueueAssumption DEF NextIndex, Index

LEMMA GapValue ==
  ASSUME NEW r \in Index, NEW w \in Index
  PROVE  Gap(r, w) = IF r <= w THEN w - r ELSE w - r + Capacity
BY QueueAssumption DEF Gap, Index

LEMMA SlotValue ==
  ASSUME NEW r \in Index, NEW i \in 1 .. Capacity
  PROVE  SlotAt(r, i) = IF r + i - 1 < Capacity THEN r + i - 1 ELSE r + i - 1 - Capacity
BY QueueAssumption DEF SlotAt, Index

\* What the two indices say of the number of frames
LEMMA GapBounds ==
  ASSUME NEW r \in Index, NEW w \in Index
  PROVE  /\ Gap(r, w) \in 0 .. Capacity - 1
         /\ Gap(r, w) = 0 <=> r = w
         /\ Gap(r, w) = Capacity - 1 <=> NextIndex(w) = r
         /\ NextIndex(w) \in Index
<1>1. Gap(r, w) = IF r <= w THEN w - r ELSE w - r + Capacity
  BY GapValue
<1>2. NextIndex(w) = IF w + 1 = Capacity THEN 0 ELSE w + 1
  BY NextValue
<1> QED BY <1>1, <1>2, QueueAssumption DEF Index

\* A slot between the indices is never the one to be written
LEMMA SlotInside ==
  ASSUME NEW r \in Index, NEW w \in Index, NEW i \in 1 .. Gap(r, w)
  PROVE  SlotAt(r, i) \in Index /\ SlotAt(r, i) # w
<1>1. Gap(r, w) = IF r <= w THEN w - r ELSE w - r + Capacity
  BY GapValue
<1>2. i \in 1 .. Capacity
  BY <1>1, QueueAssumption DEF Index
<1>3. SlotAt(r, i) = IF r + i - 1 < Capacity THEN r + i - 1 ELSE r + i - 1 - Capacity
  BY <1>2, SlotValue
<1> QED BY <1>1, <1>3, QueueAssumption DEF Index

\* Storing the write index adds the slot that was written
LEMMA GapGrows ==
  ASSUME NEW r \in Index, NEW w \in Index, NextIndex(w) # r
  PROVE  /\ Gap(r, NextIndex(w)) = Gap(r, w) + 1
         /\ SlotAt(r, Gap(r, w) + 1) = w
<1>1. Gap(r, w) = IF r <= w THEN w - r ELSE w - r + Capacity
  BY GapValue
<1>2. NextIndex(w) \in Index /\ Gap(r, w) + 1 \in 1 .. Capacity
  BY GapBounds, QueueAssumption
<1>3. NextIndex(w) = IF w + 1 = Capacity THEN 0 ELSE w + 1
  BY NextValue
<1>4. Gap(r, NextIndex(w)) = IF r <= NextIndex(w) THEN NextIndex(w) - r
                                                  ELSE NextIndex(w) - r + Capacity
  BY <1>2, GapValue
<1>5. SlotAt(r, Gap(r, w) + 1) =
        IF r + (Gap(r, w) + 1) - 1 < Capacity THEN r + (Gap(r, w) + 1) - 1
                                              ELSE r + (Gap(r, w) + 1) - 1 - Capacity
  BY <1>2, SlotValue
<1> QED BY <1>1, <1>3, <1>4, <1>5, QueueAssumption DEF Index

\* The indices step in the same order
LEMMA NextInjective ==
  ASSUME NEW i \in Index, NEW j \in Index, NextIndex(i) = NextIndex(j)
  PROVE  i = j
<1>1. NextIndex(i) = IF i + 1 = Capacity THEN 0 ELSE i + 1
  BY NextValue
<1>2. NextIndex(j) = IF j + 1 = Capacity THEN 0 ELSE j + 1
  BY NextValue
<1>3. i \in Int /\ j \in Int /\ 0 <= i /\ 0 <= j /\ Capacity \in Int
  BY QueueAssumption DEF Index
<1>4. (IF i + 1 = Capacity THEN 0 ELSE i + 1) = (IF j + 1 = Capacity THEN 0 ELSE j + 1)
  BY <1>1, <1>2
<1> QED BY <1>3, <1>4

\* Storing the read index removes the oldest slot
LEMMA GapShrinks ==
  ASSUME NEW r \in Index, NEW w \in Index, r # w
  PROVE  /\ Gap(NextIndex(r), w) = Gap(r, w) - 1
         /\ SlotAt(r, 1) = r
         /\ \A i \in 1 .. Gap(r, w) - 1 : SlotAt(NextIndex(r), i) = SlotAt(r, i + 1)
<1>1. NextIndex(r) \in Index
  BY GapBounds
<1>2. Gap(NextIndex(r), w) = Gap(r, w) - 1
  BY <1>1, GapValue, NextValue, QueueAssumption DEF Index
<1>3. SlotAt(r, 1) = r
  BY SlotValue, QueueAssumption DEF Index
<1>4. ASSUME NEW i \in 1 .. Gap(r, w) - 1
      PROVE  SlotAt(NextIndex(r), i) = SlotAt(r, i + 1)
  <2>1. i \in 1 .. Capacity /\ i + 1 \in 1 .. Capacity
    BY GapBounds, QueueAssumption DEF Index
  <2> QED BY <1>1, <2>1, SlotValue, NextValue, QueueAssumption DEF Index
<1> QED BY <1>2, <1>3, <1>4
-----------------------------------------------------------------------------
(* The inductive invariant *)

LEMMA IInvInit == Init => IInv
<1> SUFFICES ASSUME Init PROVE IInv
  OBVIOUS
<1>1. 0 \in Index
  BY QueueAssumption DEF Index
<1>2. Gap(readIndex, writeIndex) = 0
  BY <1>1, GapBounds DEF Init
<1>3. Shape
  BY <1>1 DEF Init, Shape, Steps
<1>4. ProducerInv /\ ConsumerInv
  BY DEF Init, ProducerInv, ConsumerInv, Pushing
<1>5. ReceiveInv
  BY DEF Init, ReceiveInv
<1>6. FilledInv
  BY <1>2 DEF FilledInv
<1> QED BY <1>3, <1>4, <1>5, <1>6 DEF IInv

\* The slots between the indices hold frames after every step
LEMMA FilledStep ==
  ASSUME IInv, [Next]_vars
  PROVE  FilledInv'
<1> USE DEF IInv
<1>1. ASSUME NEW p \in Producer, WriteSlot(p)
      PROVE  FilledInv'
  <2>1. mine[p] = writeIndex
    BY <1>1 DEF WriteSlot, ProducerInv
  <2>2. ASSUME NEW i \in 1 .. Gap(readIndex, writeIndex)
        PROVE  buffer'[SlotAt(readIndex, i)] = buffer[SlotAt(readIndex, i)]
    <3>1. SlotAt(readIndex, i) \in Index /\ SlotAt(readIndex, i) # writeIndex
      BY SlotInside DEF Shape
    <3> QED BY <1>1, <2>1, <3>1 DEF WriteSlot, Shape
  <2> QED BY <1>1, <2>2 DEF WriteSlot, FilledInv
<1>2. ASSUME NEW p \in Producer, Publish(p)
      PROVE  FilledInv'
  <2>1. /\ mine[p] = writeIndex /\ NextIndex(writeIndex) # readIndex
        /\ buffer[writeIndex] = item[p] /\ item[p] \in Frame
    BY <1>2 DEF Publish, ProducerInv, Pushing
  <2>2. /\ Gap(readIndex, NextIndex(writeIndex)) = Gap(readIndex, writeIndex) + 1
        /\ SlotAt(readIndex, Gap(readIndex, writeIndex) + 1) = writeIndex
    BY <2>1, GapGrows DEF Shape
  <2>3. Gap(readIndex, writeIndex) \in Nat
    BY GapBounds, QueueAssumption DEF Shape
  <2>4. \A i \in 1 .. Gap(readIndex, writeIndex) + 1 :
          i \in 1 .. Gap(readIndex, writeIndex) \/ i = Gap(readIndex, writeIndex) + 1
    BY <2>3
  <2>5. \A i \in 1 .. Gap(readIndex, writeIndex) + 1 : buffer[SlotAt(readIndex, i)] \in Frame
    BY <2>1, <2>2, <2>4 DEF FilledInv
  <2> QED BY <1>2, <2>1, <2>2, <2>5 DEF Publish, FilledInv
<1>3. ASSUME PopAdvance
      PROVE  FilledInv'
  <2>1. readIndex # writeIndex /\ place = readIndex
    BY <1>3 DEF PopAdvance, ConsumerInv
  <2>2. /\ Gap(NextIndex(readIndex), writeIndex) = Gap(readIndex, writeIndex) - 1
        /\ \A i \in 1 .. Gap(readIndex, writeIndex) - 1 :
             SlotAt(NextIndex(readIndex), i) = SlotAt(readIndex, i + 1)
    BY <2>1, GapShrinks DEF Shape
  <2>3. Gap(readIndex, writeIndex) \in Nat
    BY GapBounds, QueueAssumption DEF Shape
  <2>4. \A i \in 1 .. Gap(readIndex, writeIndex) - 1 : i + 1 \in 1 .. Gap(readIndex, writeIndex)
    BY <2>3
  <2> QED BY <1>3, <2>1, <2>2, <2>4 DEF PopAdvance, FilledInv
<1>4. ASSUME UNCHANGED <<buffer, readIndex, writeIndex>>
      PROVE  FilledInv'
  BY <1>4 DEF FilledInv
<1> QED BY <1>1, <1>2, <1>3, <1>4
        DEF Next, vars, Push, AskIsFull, Call, LoadWriteIndex, Refuse, FindRoom,
            PeekIndex, PeekCopy, Keep, Handle, PopIndex

\* Every location keeps to its values
LEMMA ShapeStep ==
  ASSUME IInv, [Next]_vars
  PROVE  Shape'
<1> USE DEF IInv, Shape
<1>1. ASSUME NEW p \in Producer, AskIsFull(p) \/ (\E f \in Frame : Call(p, f)) \/ Push(p)
      PROVE  Shape'
  <2>1. NextIndex(mine[p]) \in Index
    BY GapBounds
  <2> QED BY <1>1, <2>1
          DEF AskIsFull, Call, Push, LoadWriteIndex, Refuse, FindRoom, WriteSlot, Publish, Goto, Steps
<1>2. ASSUME PeekIndex \/ PeekCopy \/ Keep \/ Handle \/ PopIndex
      PROVE  Shape'
  BY <1>2 DEF PeekIndex, PeekCopy, Keep, Handle, PopIndex
<1>3. ASSUME PopAdvance
      PROVE  Shape'
  <2>1. NextIndex(place) \in Index
    BY GapBounds
  <2> QED BY <1>3, <2>1 DEF PopAdvance
<1>4. ASSUME UNCHANGED vars
      PROVE  Shape'
  BY <1>4 DEF vars
<1> QED BY <1>1, <1>2, <1>3, <1>4 DEF Next

\* A step of the producer
LEMMA ProducerStep ==
  ASSUME SingleProducer, IInv, NEW p \in Producer,
         AskIsFull(p) \/ (\E f \in Frame : Call(p, f)) \/ Push(p)
  PROVE  ProducerInv' /\ ReceiveInv' /\ ConsumerInv'
<1> USE DEF IInv, Shape
<1>1. \A q \in Producer : q = p
  BY DEF SingleProducer
<1>2. CASE AskIsFull(p)
  BY <1>1, <1>2 DEF AskIsFull, Goto, ProducerInv, ReceiveInv, ConsumerInv, Pushing, NextIndex
<1>3. ASSUME NEW f \in Frame, Call(p, f)
      PROVE  ProducerInv' /\ ReceiveInv' /\ ConsumerInv'
  BY <1>1, <1>3 DEF Call, Goto, ProducerInv, ReceiveInv, ConsumerInv, Pushing, NextIndex
<1>4. CASE LoadWriteIndex(p)
  BY <1>1, <1>4 DEF LoadWriteIndex, Goto, ProducerInv, ReceiveInv, ConsumerInv, Pushing, NextIndex
<1>5. CASE Refuse(p)
  BY <1>1, <1>5 DEF Refuse, FullAt, Goto, ProducerInv, ReceiveInv, ConsumerInv, Pushing, NextIndex
<1>6. CASE FindRoom(p)
  BY <1>1, <1>6 DEF FindRoom, FullAt, Goto, ProducerInv, ReceiveInv, ConsumerInv, Pushing, NextIndex
<1>7. CASE WriteSlot(p)
  BY <1>1, <1>7 DEF WriteSlot, Goto, ProducerInv, ReceiveInv, ConsumerInv, Pushing, NextIndex
<1>8. CASE Publish(p)
  BY <1>1, <1>8 DEF Publish, Goto, ProducerInv, ReceiveInv, ConsumerInv, Pushing, NextIndex
<1> QED BY <1>2, <1>3, <1>4, <1>5, <1>6, <1>7, <1>8 DEF Push

\* A step of the consumer
LEMMA ConsumerStep ==
  ASSUME IInv, PeekIndex \/ PeekCopy \/ Keep \/ Handle \/ PopIndex \/ PopAdvance
  PROVE  ProducerInv' /\ ReceiveInv' /\ ConsumerInv'
<1> USE DEF IInv, Shape
<1>1. CASE PeekIndex
  BY <1>1 DEF PeekIndex, ProducerInv, ReceiveInv, ConsumerInv, Pushing, NextIndex
<1>2. CASE PeekCopy
  BY <1>2 DEF PeekCopy, ProducerInv, ReceiveInv, ConsumerInv, Pushing, NextIndex
<1>3. CASE Keep
  BY <1>3 DEF Keep, ProducerInv, ReceiveInv, ConsumerInv, Pushing, NextIndex
<1>4. CASE Handle
  BY <1>4 DEF Handle, ProducerInv, ReceiveInv, ConsumerInv, Pushing, NextIndex
<1>5. CASE PopIndex
  BY <1>5 DEF PopIndex, ProducerInv, ReceiveInv, ConsumerInv, Pushing, NextIndex
<1>6. CASE PopAdvance
  <2>1. place = readIndex /\ readIndex # writeIndex
    BY <1>6 DEF PopAdvance, ConsumerInv
  <2>2. NextIndex(writeIndex) # readIndex'
    BY <1>6, <2>1, NextInjective DEF PopAdvance
  <2> QED BY <1>6, <2>2 DEF PopAdvance, ProducerInv, ReceiveInv, ConsumerInv, Pushing, NextIndex
<1> QED BY <1>1, <1>2, <1>3, <1>4, <1>5, <1>6

LEMMA IInvStep ==
  ASSUME SingleProducer, IInv, [Next]_vars
  PROVE  IInv'
<1>1. CASE UNCHANGED vars
  BY <1>1 DEF vars, IInv, ProducerInv, ReceiveInv, ConsumerInv, Pushing, NextIndex, Shape, FilledInv
<1>2. CASE Next
  BY <1>2, ShapeStep, FilledStep, ProducerStep, ConsumerStep DEF Next, IInv
<1> QED BY <1>1, <1>2

THEOREM Inductive == SingleProducer => (Spec => []IInv)
<1> SUFFICES ASSUME SingleProducer PROVE Spec => []IInv
  OBVIOUS
<1>1. Init => IInv
  BY IInvInit
<1>2. IInv /\ [Next]_vars => IInv'
  BY IInvStep
<1> QED BY <1>1, <1>2, PTL DEF Spec

\* NoSlotRace: a producer never writes the slot the consumer copies.
THEOREM SlotsNotShared == SingleProducer => (Spec => []NoSlotRace)
<1> SUFFICES ASSUME SingleProducer PROVE Spec => []NoSlotRace
  OBVIOUS
<1>1. IInv => NoSlotRace
  BY DEF IInv, ProducerInv, ConsumerInv, NoSlotRace
<1> QED BY <1>1, Inductive, PTL

\* ReceivedFrameFits: what the receive thread pushed after is_full() said there
\* was room is never refused.
THEOREM ReceivedNeverRefused == SingleProducer => (Spec => []ReceivedFrameFits)
<1> SUFFICES ASSUME SingleProducer PROVE Spec => []ReceivedFrameFits
  OBVIOUS
<1>1. IInv => ReceivedFrameFits
  BY DEF IInv, ReceiveInv, ReceivedFrameFits
<1> QED BY <1>1, Inductive, PTL

-----------------------------------------------------------------------------
(* The queue as a sequence *)

LEMMA ContentsValue ==
  ASSUME IInv
  PROVE  /\ Contents = [i \in 1 .. Gap(readIndex, writeIndex) |-> buffer[SlotAt(readIndex, i)]]
         /\ Gap(readIndex, writeIndex) \in Nat
         /\ Contents \in Seq(Frame)
         /\ Len(Contents) = Gap(readIndex, writeIndex)
<1>1. Contents = [i \in 1 .. Gap(readIndex, writeIndex) |-> buffer[SlotAt(readIndex, i)]]
  BY DEF Contents, Gap, SlotAt
<1>2. Gap(readIndex, writeIndex) \in Nat
  BY GapBounds, QueueAssumption DEF IInv, Shape
<1>3. Contents \in [1 .. Gap(readIndex, writeIndex) -> Frame]
  BY <1>1 DEF IInv, FilledInv
<1>4. Contents \in Seq(Frame)
  BY <1>2, <1>3
<1> QED BY <1>1, <1>2, <1>3, <1>4

\* WriteSlot changes a slot outside the sequence
LEMMA WriteKeepsContents ==
  ASSUME IInv, NEW p \in Producer, WriteSlot(p)
  PROVE  Contents' = Contents
<1>1. mine[p] = writeIndex
  BY DEF WriteSlot, IInv, ProducerInv
<1>2. ASSUME NEW i \in 1 .. Gap(readIndex, writeIndex)
      PROVE  buffer'[SlotAt(readIndex, i)] = buffer[SlotAt(readIndex, i)]
  <2>1. SlotAt(readIndex, i) \in Index /\ SlotAt(readIndex, i) # writeIndex
    BY SlotInside DEF IInv, Shape
  <2> QED BY <1>1, <2>1 DEF WriteSlot, IInv, Shape
<1> QED BY <1>2 DEF WriteSlot, Contents, Gap, SlotAt

\* Publish appends the frame
LEMMA PublishAppends ==
  ASSUME IInv, IInv', NEW p \in Producer, Publish(p)
  PROVE  Contents' = Append(Contents, item[p])
<1> DEFINE n == Gap(readIndex, writeIndex)
<1>1. /\ mine[p] = writeIndex /\ NextIndex(writeIndex) # readIndex
      /\ buffer[writeIndex] = item[p]
  BY DEF Publish, IInv, ProducerInv
<1>2. /\ readIndex' = readIndex /\ buffer' = buffer /\ writeIndex' = NextIndex(writeIndex)
  BY <1>1 DEF Publish
<1>3. Gap(readIndex', writeIndex') = n + 1 /\ SlotAt(readIndex, n + 1) = writeIndex
  BY <1>1, <1>2, GapGrows DEF IInv, Shape
<1>4. Contents' = [i \in 1 .. Gap(readIndex', writeIndex') |-> buffer'[SlotAt(readIndex', i)]]
  BY DEF Contents, Gap, SlotAt
<1>5. Contents' = [i \in 1 .. n + 1 |-> buffer[SlotAt(readIndex, i)]]
  BY <1>2, <1>3, <1>4
<1>6. n \in Nat /\ Len(Contents) = n /\ Contents \in Seq(Frame)
      /\ Contents = [i \in 1 .. n |-> buffer[SlotAt(readIndex, i)]]
  BY ContentsValue
<1> HIDE DEF n
<1>7. Append(Contents, item[p]) =
        [i \in 1 .. n + 1 |-> IF i = n + 1 THEN item[p] ELSE Contents[i]]
  BY <1>6 DEF Append
<1>8. ASSUME NEW i \in 1 .. n + 1
      PROVE  buffer[SlotAt(readIndex, i)] = IF i = n + 1 THEN item[p] ELSE Contents[i]
  <2>1. CASE i = n + 1
    BY <1>1, <1>3, <2>1
  <2>2. CASE i # n + 1
    <3>1. i \in 1 .. n
      BY <1>6, <2>2
    <3> QED BY <1>6, <2>2, <3>1
  <2> QED BY <2>1, <2>2
<1> QED BY <1>5, <1>7, <1>8

\* PopAdvance removes the oldest frame
LEMMA PopRemoves ==
  ASSUME IInv, PopAdvance
  PROVE  Contents # <<>> /\ Contents' = Tail(Contents)
<1> DEFINE n == Gap(readIndex, writeIndex)
<1>1. place = readIndex /\ readIndex # writeIndex
  BY DEF PopAdvance, IInv, ConsumerInv
<1>2. readIndex' = NextIndex(readIndex) /\ buffer' = buffer /\ writeIndex' = writeIndex
  BY <1>1 DEF PopAdvance
<1>3. /\ Gap(readIndex', writeIndex') = n - 1
      /\ \A i \in 1 .. n - 1 : SlotAt(readIndex', i) = SlotAt(readIndex, i + 1)
  BY <1>1, <1>2, GapShrinks DEF IInv, Shape
<1>4. Contents' = [i \in 1 .. Gap(readIndex', writeIndex') |-> buffer'[SlotAt(readIndex', i)]]
  BY DEF Contents, Gap, SlotAt
<1>5. Contents' = [i \in 1 .. n - 1 |-> buffer[SlotAt(readIndex, i + 1)]]
  BY <1>2, <1>3, <1>4
<1>6. n \in Nat /\ n # 0 /\ Len(Contents) = n /\ Contents \in Seq(Frame)
      /\ Contents = [i \in 1 .. n |-> buffer[SlotAt(readIndex, i)]]
  BY <1>1, ContentsValue, GapBounds DEF IInv, Shape
<1> HIDE DEF n
<1>7. Contents # <<>>
  BY <1>6
<1>8. Tail(Contents) = [i \in 1 .. n - 1 |-> Contents[i + 1]]
  BY <1>6, <1>7 DEF Tail
<1>9. ASSUME NEW i \in 1 .. n - 1
      PROVE  Contents[i + 1] = buffer[SlotAt(readIndex, i + 1)]
  <2>1. i + 1 \in 1 .. n
    BY <1>6
  <2> QED BY <1>6, <2>1
<1> QED BY <1>5, <1>7, <1>8, <1>9

\* PushedWhenTrue, with one producer: a push that returns TRUE has appended its
\* frame.
THEOREM PushAppends == SingleProducer => (Spec => PushedWhenTrue)
<1> SUFFICES ASSUME SingleProducer PROVE Spec => PushedWhenTrue
  OBVIOUS
<1> DEFINE Appends == \A p \in Producer : Publish(p) => Contents' = Append(Contents, item[p])
<1>1. PushedWhenTrue <=> [][Appends]_vars
  BY DEF PushedWhenTrue
<1>2. IInv /\ IInv' /\ [Next]_vars => [Appends]_vars
  BY PublishAppends
<1> HIDE DEF Appends
<1> QED BY <1>1, <1>2, Inductive, PTL DEF Spec

-----------------------------------------------------------------------------
(* The queue implements BoundedFifo *)

LEMMA FifoInit == Init => Fifo!Init
<1> SUFFICES ASSUME Init PROVE Fifo!Init
  OBVIOUS
<1>1. IInv
  BY IInvInit
<1>2. Gap(readIndex, writeIndex) = 0
  BY <1>1, GapBounds DEF Init, IInv, Shape
<1>3. Contents = <<>>
  BY <1>1, <1>2, ContentsValue
<1>4. Requested = [p \in Producer |-> NoFrame]
  BY DEF Init, Requested
<1> QED BY <1>3, <1>4 DEF Init, Fifo!Init

\* The steps that touch neither index nor a request are not seen
LEMMA FifoStutters ==
  ASSUME IInv,
         \/ \E p \in Producer : AskIsFull(p) \/ LoadWriteIndex(p) \/ FindRoom(p) \/ WriteSlot(p)
         \/ PeekIndex \/ Handle \/ PopIndex \/ UNCHANGED vars
  PROVE  UNCHANGED Fifo!vars
<1> USE DEF IInv, Shape, Fifo!vars
<1>1. ASSUME NEW p \in Producer,
             AskIsFull(p) \/ LoadWriteIndex(p) \/ FindRoom(p)
      PROVE  UNCHANGED Fifo!vars
  <2>1. Contents' = Contents
    BY <1>1 DEF AskIsFull, LoadWriteIndex, FindRoom, Contents
  <2>2. Requested' = Requested
    BY <1>1 DEF AskIsFull, LoadWriteIndex, FindRoom, Goto, Requested
  <2> QED BY <1>1, <2>1, <2>2 DEF AskIsFull, LoadWriteIndex, FindRoom
<1>2. ASSUME NEW p \in Producer, WriteSlot(p)
      PROVE  UNCHANGED Fifo!vars
  <2>1. Contents' = Contents
    BY <1>2, WriteKeepsContents
  <2>2. Requested' = Requested
    BY <1>2 DEF WriteSlot, Goto, Requested
  <2> QED BY <1>2, <2>1, <2>2 DEF WriteSlot
<1>3. CASE PeekIndex \/ Handle \/ PopIndex \/ UNCHANGED vars
  BY <1>3 DEF PeekIndex, Handle, PopIndex, vars, Contents, Requested
<1> QED BY <1>1, <1>2, <1>3

LEMMA FifoAsk ==
  ASSUME IInv, NEW p \in Producer, NEW f \in Frame, Call(p, f)
  PROVE  Fifo!Ask(p, f)
<1> USE DEF IInv, Shape
<1>1. Contents' = Contents
  BY DEF Call, Contents
<1>2. Requested[p] = NoFrame
  BY DEF Call, Requested
<1>3. Requested' = [Requested EXCEPT ![p] = f]
  BY DEF Call, Goto, Requested
<1> QED BY <1>1, <1>2, <1>3 DEF Call, Fifo!Ask

\* The end of a push, accepted or refused
LEMMA RequestEnds ==
  ASSUME IInv, NEW p \in Producer, Publish(p) \/ Refuse(p)
  PROVE  /\ Requested[p] = item[p] /\ item[p] # NoFrame
         /\ Requested' = [Requested EXCEPT ![p] = NoFrame]
<1> USE DEF IInv, Shape
<1>1. Requested[p] = item[p] /\ item[p] # NoFrame
  BY QueueAssumption DEF Publish, Refuse, Requested, ProducerInv, Pushing
<1>2. Requested' = [Requested EXCEPT ![p] = NoFrame]
  BY DEF Publish, Refuse, Goto, Requested
<1> QED BY <1>1, <1>2

LEMMA FifoAccept ==
  ASSUME IInv, IInv', NEW p \in Producer, Publish(p)
  PROVE  Fifo!Accept(p)
<1>1. Contents' = Append(Contents, item[p])
  BY PublishAppends
<1>2. Len(Contents) < Capacity - 1
  <2>1. NextIndex(writeIndex) # readIndex
    BY DEF Publish, IInv, ProducerInv
  <2>2. Gap(readIndex, writeIndex) # Capacity - 1 /\ Gap(readIndex, writeIndex) \in 0 .. Capacity - 1
    BY <2>1, GapBounds DEF IInv, Shape
  <2> QED BY <2>2, ContentsValue, QueueAssumption
<1>3. /\ Requested[p] = item[p] /\ item[p] # NoFrame
      /\ Requested' = [Requested EXCEPT ![p] = NoFrame]
  BY RequestEnds
<1> QED BY <1>1, <1>2, <1>3 DEF Publish, Fifo!Accept, Fifo!Return

LEMMA FifoRefuse ==
  ASSUME IInv, NEW p \in Producer, Refuse(p)
  PROVE  Fifo!Refuse(p)
<1>1. Contents' = Contents
  BY DEF Refuse, Contents
<1>2. Len(Contents) = Capacity - 1
  <2>1. NextIndex(writeIndex) = readIndex
    BY DEF Refuse, FullAt, IInv, ProducerInv
  <2> QED BY <2>1, GapBounds, ContentsValue DEF IInv, Shape
<1>3. /\ Requested[p] = item[p] /\ item[p] # NoFrame
      /\ Requested' = [Requested EXCEPT ![p] = NoFrame]
  BY RequestEnds
<1> QED BY <1>1, <1>2, <1>3 DEF Refuse, Fifo!Refuse, Fifo!Return

LEMMA FifoConsumer ==
  ASSUME IInv, PeekCopy \/ Keep \/ PopAdvance
  PROVE  Fifo!Look \/ Fifo!Keep \/ Fifo!Take
<1> USE DEF IInv
<1>1. Requested' = Requested
  BY DEF PeekCopy, Keep, PopAdvance, Requested
<1>2. cpc # "idle" => /\ Contents # <<>> /\ Head(Contents) = buffer[readIndex]
                      /\ buffer[readIndex] \in Frame
  <2> SUFFICES ASSUME cpc # "idle"
               PROVE  /\ Contents # <<>> /\ Head(Contents) = buffer[readIndex]
                      /\ buffer[readIndex] \in Frame
    OBVIOUS
  <2>1. readIndex # writeIndex
    BY DEF ConsumerInv
  <2>2. Gap(readIndex, writeIndex) # 0 /\ SlotAt(readIndex, 1) = readIndex
    BY <2>1, GapBounds, GapShrinks DEF Shape
  <2>3. 1 \in 1 .. Gap(readIndex, writeIndex)
    BY <2>2, ContentsValue
  <2>4. Contents # <<>> /\ Head(Contents) = Contents[1]
    BY <2>3, ContentsValue
  <2>5. Contents[1] = buffer[SlotAt(readIndex, 1)]
    BY <2>3, ContentsValue
  <2> QED BY <2>2, <2>3, <2>4, <2>5 DEF FilledInv
<1>3. CASE PeekCopy
  <2>1. Contents' = Contents
    BY <1>3 DEF PeekCopy, Contents
  <2>2. held = NoFrame /\ held' = Head(Contents) /\ Contents # <<>>
    BY <1>2, <1>3 DEF PeekCopy, ConsumerInv
  <2> QED BY <1>1, <1>3, <2>1, <2>2 DEF PeekCopy, Fifo!Look
<1>4. CASE Keep
  <2>1. Contents' = Contents
    BY <1>4 DEF Keep, Contents
  <2>2. held # NoFrame
    BY <1>2, <1>4, QueueAssumption DEF Keep, ConsumerInv
  <2> QED BY <1>1, <1>4, <2>1, <2>2 DEF Keep, Fifo!Keep
<1>5. CASE PopAdvance
  <2>1. Contents' = Tail(Contents)
    BY <1>5, PopRemoves DEF IInv
  <2>2. held # NoFrame
    BY <1>2, <1>5, QueueAssumption DEF PopAdvance, ConsumerInv
  <2> QED BY <1>1, <1>5, <2>1, <2>2 DEF PopAdvance, Fifo!Take
<1> QED BY <1>3, <1>4, <1>5

LEMMA FifoNext ==
  ASSUME IInv, IInv', [Next]_vars
  PROVE  [Fifo!Next]_(Fifo!vars)
<1>1. ASSUME NEW p \in Producer, NEW f \in Frame, Call(p, f)
      PROVE  [Fifo!Next]_(Fifo!vars)
  BY <1>1, FifoAsk DEF Fifo!Next
<1>2. ASSUME NEW p \in Producer, Publish(p)
      PROVE  [Fifo!Next]_(Fifo!vars)
  BY <1>2, FifoAccept DEF Fifo!Next
<1>3. ASSUME NEW p \in Producer, Refuse(p)
      PROVE  [Fifo!Next]_(Fifo!vars)
  BY <1>3, FifoRefuse DEF Fifo!Next
<1>4. CASE PeekCopy \/ Keep \/ PopAdvance
  BY <1>4, FifoConsumer DEF Fifo!Next
<1>5. ASSUME NEW p \in Producer,
             AskIsFull(p) \/ LoadWriteIndex(p) \/ FindRoom(p) \/ WriteSlot(p)
      PROVE  [Fifo!Next]_(Fifo!vars)
  BY <1>5, FifoStutters
<1>6. CASE PeekIndex \/ Handle \/ PopIndex \/ UNCHANGED vars
  BY <1>6, FifoStutters
<1> QED BY <1>1, <1>2, <1>3, <1>4, <1>5, <1>6 DEF Next, Push

\* Every step of the threads is a step of the FIFO of Capacity - 1 frames, or
\* is not seen: frames are taken in the order in which they were accepted, none
\* is lost, repeated or torn, and push() returns FALSE only when it is full.
THEOREM QueueIsFifo == SingleProducer => (Spec => Fifo!Safety)
<1> SUFFICES ASSUME SingleProducer PROVE Spec => Fifo!Safety
  OBVIOUS
<1>1. Init => Fifo!Init
  BY FifoInit
<1>2. IInv /\ IInv' /\ [Next]_vars => [Fifo!Next]_(Fifo!vars)
  BY FifoNext
<1> QED BY <1>1, <1>2, Inductive, PTL DEF Spec, Fifo!Safety
=============================================================================
