# A TLA+ model of the ISOBUS sprayer stack

This directory is the verification project of the repository: TLA+ modules
translated from the C++ sources, TLC configurations that check them on small
instances, and theorems checked by TLAPS. `PROJECT.json` holds the tables that
belong to it: components, runs, mutants, the map from definitions to source
lines, findings, hazards and theorems.

## 1. The system

The program is a sprayer implement (`examples/sprayer`) on top of an ISO 11783
stack (`isobus`), a hardware abstraction (`hardware_integration`) and a few
utilities (`utility`).

### Threads

| thread | what it runs | shares with others |
|---|---|---|
| main | `sprayer.cpp`: construction, then an update loop of the sprayer application | clients, object pools, transmit queue |
| receive thread (one per channel) | `CANHardware::receive_can_frame` | receive queue |
| update thread | `CANHardwareInterface::update`: empties the receive queues, runs `CANNetworkManager::update` (received messages, address claim, transport protocols), empties the transmit queues | everything |
| terminal worker | `VirtualTerminalClient::update` every 50 ms | client state, transmit queue |
| task controller worker | `TaskControllerClient::update` every 50 ms | client state, transmit queue |

`CANNetworkManager` serializes its own update with one mutex; the clients' state
machines are written by their worker and by the callbacks of the update thread
without one.

### Components

| component | state | operations | correct when |
|---|---|---|---|
| Transport protocol (`can_transport_protocol*`) | sessions by (source, destination): state, packets received or sent, last clear to send, age | transmit request; one handler per frame type; update: timeouts, retries, bursts | whole messages or none, once; every accepted message is reported once; sender stays inside the clear to send; sessions end |
| Frame queue (`LockFreeQueue`) | ring buffer, read index, write index | push, peek, pop, is_full, clear | first in first out, nothing lost or read half written |
| Hardware interface | channels, queues, three threads | start, stop, assign, transmit, update | frames in order; a frame the driver refuses stays at the head |
| Network manager | table address -> control function per channel, inactive list, partners, message queues, callbacks | update, frame received, frame transmitted, send message, add and remove callbacks | the table agrees with the addresses of the control functions; a control function is at one address |
| Internal control function | claim state, preferred address, address | update_address_claiming, handlers of claim requests and commanded address | two nodes never both hold an address once the bus is quiet; the lower NAME wins; a claim completes |
| Partnered control function | filters, NAME, address, callbacks | binding by the network manager, callbacks | a partner follows the control function that matches it |
| Extended transport protocol | as the transport protocol, with data packet offsets | as the transport protocol | as the transport protocol |
| Fast packet protocol | sessions under a mutex, sequence history | send, update, frame received | whole messages or none; no self deadlock |
| Parameter group requests | callback lists under a mutex | register, remove, message received | a callback may register and remove |
| Heartbeat | list of tracked senders with the last sequence number and time | update, message received, request received | a correct sender is never reported, a faulty one is |
| Task controller client | connection state, queues of commands, device descriptor pool | worker update, handlers of server messages, upload | it connects when the server answers; answers are not dropped; requests are answered |
| Task controller server | active clients with their pools | handlers, timeouts | a client's pool is active only while the client lives |
| Virtual terminal client | connection state, upload state, queue of commands | worker update, handlers, application calls | it connects; the last value set is the last one the terminal sees |
| Terminal state helpers | copies of numeric values, masks, attributes | set a value, take over what the terminal says | the copy is what the terminal shows |
| Virtual terminal server | working sets with their pools, parsing threads, active working set | one handler per message, update | a client that is told its pool is active has one |
| Event dispatcher, flags | listeners, pending changes; bits | add, remove, call; set, process | listeners are stable while they are called; no event is lost |
| Sprayer application | section switches, setpoints, rates | terminal and task controller callbacks | actual state follows switch or setpoint according to the mode |
| Others | object pools, diagnostics, guidance, speed, language, time, NMEA 2000 messages, drivers, tables | mostly encoders and decoders | see `PROJECT.json` |

### How they interact

A message of an application goes through `send_can_message`, which offers it to
the transport protocols and sends it as one frame if they refuse. Frames go to
the transmit queue, on the update thread to the driver and the bus, from the
receivers' drivers into their receive queues, and as messages into
`receivedMessageQueue`; `CANNetworkManager::update` hands them to the
protocols, which send answers in the same call. Completion is reported by
callbacks from inside the update. Loss happens at three places: a full transmit
queue (reported to the caller), the bus, a receiver's full queue.

### What is hard

Frames that are lost, refused or late against the timers of both ends; frames
of an earlier message that are taken for the current one; results of sends that
are ignored; uint8_t counters; callbacks that re-enter; one producer queues with
several producers; worker threads that set a state after the send whose answer
they wait for; the order of the two phases in which an address claim is
processed. `PROJECT.json` lists each at its line under `hazards`, with the
properties that would notice.

## 2. Plan

In this order; the core comes first.

1. `TransportProtocol` with the abstract `MessageTransfer`, and its proofs.
   **Done.**
2. `LockFreeQueue` with the abstract `BoundedFifo`, and its proofs. **Done.**
3. `AddressClaim`: the claim state machines of several nodes on one bus,
   each with its table; the lower NAME wins, a quiet bus has no shared address,
   a partner is bound. All its invariants but `NoStaleSlot` are proved. **Done.**
4. `VirtualTerminal`: `VTClient` and `VTServer` on `VTLink`; connection, upload
   and command queue of a client against a terminal that fails. All its
   invariants are proved. **Done.**
5. `TaskController`: `TCClient` and `TCServer` on `TCLink`; connection against
   answers between send and state change; upload, deactivation and upload
   again; commands. All its invariants are proved. **Done.**
6. Proofs of what was only model-checked: address claim at rest, and the pools of
   a connected client under the conditions they need. **Done.**
7. `Heartbeat`, `ExtendedTransportProtocol` (same `MessageTransfer`),
   `FastPacket`, `EventDispatcher`, `SectionControl`: not begun, see section 7.

Abstract specifications: `MessageTransfer` (transport protocols),
`BoundedFifo` (queue). Theorems worth proving: type invariants; the contents of
receive buffers; sessions and reports match; the session limit; the grants of a
connection; the refinement of both abstract specifications; the binding of
partners; the active pool.

## 3. The modules

| module | what it is |
|---|---|
| `TransportProtocol` | the transport protocol of several nodes on one bus |
| `MessageTransfer` | what it promises the application; `TransportProtocol` implements it (`TransferSpec`) |
| `MCTransportProtocol` | small instances for TLC |
| `TransportProtocol_proofs`, `TransportSessions_proofs` | type correctness; receive buffers, the session limit and the reports |
| `TransportTransfer_proofs` | the exchange of a message from its first frame to its confirmation: the sender stays within its grant, and the protocol implements `MessageTransfer` |
| `LockFreeQueue` | the frame queue, one step per shared access |
| `BoundedFifo` | what the stack expects of it; `LockFreeQueue` implements it with one producer (`FifoSpec`) |
| `MCLockFreeQueue` | small instances for TLC |
| `LockFreeQueue_proofs` | with one producer: no shared slot, no lost frame, first in first out, for every capacity |
| `AddressClaim` | address claim of several nodes on one bus, each with its address table |
| `MCAddressClaim` | small instances for TLC |
| `AddressClaim_proofs` | type correctness; the binding of partners; who has which address in the end |
| `Positions`, `Positions_proofs` | positions of a sequence that a loop removes or keeps; induction over numbers, the least and the k-th element of a set |
| `VTLink`, `TCLink` | the messages between a client and its terminal, or task controller |
| `VTClient`, `VTServer` | `VirtualTerminalClient` with the update helper; `VirtualTerminalServer` with one working set |
| `VirtualTerminal` | both on one bus with faults, the application and the operator; properties |
| `TCClient`, `TCServer` | `TaskControllerClient`; `TaskControllerServer` with one client |
| `TaskController` | both on one bus with faults and both applications; properties |
| `MCVirtualTerminal`, `MCTaskController` | small instances for TLC |
| `TaskController_proofs` | type correctness and the clients the server knows; the pool that is active |
| `VirtualTerminal_proofs` | type correctness; accepted values and the queue of commands; the helper's copy; the pools of a connected client |

### TransportProtocol

Every node outside `Foreign` runs one `TransportProtocolManager`.

* `sess[n]` is `activeSessions` of node `n`, keyed by the (source, destination)
  pair that `get_session` and `has_session` look for; the direction follows
  from the pair. A session record keeps the state, the counters (`last`
  = `lastSequenceNumber`, `ack` = `lastAcknowledgedPacketNumber`, `cts` =
  `clearToSendPacketCount`, `max` = `clearToSendPacketCountMax`), the buffer in
  packets of 7 bytes, and `age`, the time since `update_timestamp()` in clock
  ticks. Counters that are `uint8_t` in the code are computed modulo 256.
* `tx[n]` is everything between a successful `sendCANFrameCallback` of node `n`
  and the handlers of the others: transmit queue, bus, receive queues. It is
  one FIFO of `TxCapacity` frames; an entry names the nodes that have not yet
  processed the frame. A frame offered to a full path is refused, which is what
  `send_can_message_raw` reports.
* `outcome[m]` is what the transmit complete callback said about message `m`;
  `delivered[n]` is what `canMessageReceivedCallback` got.
* `known[n]` are the control functions whose address is valid to node `n`
  (`get_address_valid`); losing one is what address claim can do to a session.
* `left` bounds the events of the environment.

One action is one handler of one received frame (`ReceiveAnnounce` ...
`ReceiveDataTransfer`), one `protocol_transmit_message` (`Submit`), one
iteration of the loop in `update()` for one session (`UpdateSession`), or an
event of the environment (`Tick`, `Lose`, `SendOther`, `LoseAddress`,
`RegainAddress`, `ForeignSend`). The update loop is split into its iterations
because frames of other nodes may be sent between them; a handler sends all its
frames in one step because only its own node appends to `tx[n]`.

Abstracted: a payload is the pair (message, packet index), so a packet at the
wrong place or of another message shows. Sizes are in bytes, as the frames say
them; a buffer has as many packets as its size takes up (`Slots`), and the count
of packets is that number in a byte (`PacketCount`). Where in the last packet a
message ends is not kept.
Requests to transmit come from the update thread: the list of sessions has no
lock, and a request of an application thread in the middle of an update is
undefined behaviour that no step of the model stands for (hazard 595).

`Prompt = TRUE` lets time pass only when no frame waits and no update is due:
the timers are long compared with the processing. `Prompt = FALSE` lets it pass
at any moment.

### LockFreeQueue

`role` says which queue this is: the receive queue, whose producer asks
`is_full()` first and ignores what `push` returns, or the transmit queue, whose
consumer keeps the frame if the driver refuses it. A producer's `pc` walks
through `push` (load of the write index, comparison, slot, store of the index),
the consumer's `cpc` through `peek`, the handling and `pop`. Memory order:
release stores and acquire loads make the sequentially consistent interleaving
of these accesses exact for one producer; for two it is one of the outcomes.
`clear()` and construction with size 0 are not modelled.

### AddressClaim

Every node outside `Foreign` runs one `CANNetworkManager` with one internal
control function and at most one partner, on one channel. A node is its NAME,
and the lower NAME wins.

* `mgr[n]` is the memory of the manager: `state` and `preferred` of the
  internal control function, `table` = `controlFunctionTable`, `inactive` =
  `inactiveControlFunctions`, `address` and `flagged`
  (`claimedAddressSinceLastAddressClaimRequest`) of every control function,
  `requested` (`lastAddressClaimRequestTimestamp_ms` is not 0), and the partner:
  not created, created, looked at by `update_new_partners`, with the NAME it is
  `bound` to. A control function is an object in the code; here it is the NAME
  it was created for, or `Partner`.
* `inbox[n]` are frames on their way to the manager: the two phases of a claim
  are `ReceiveFrame` (`update_control_functions`, when the frame is read) and
  `ProcessMessage` (`update_address_table` and the claim handlers, when the
  next `update()` takes it from `receivedMessageQueue` = `msgs[n]`).
* `turn[n]` alternates between reading frames and one `update()`: `BeginUpdate`
  (new partners), all messages, then the step of the claim state machine
  (`StartClaim` ... `ReclaimAddress`) with what follows it: the move in the
  table, the pruning, and the frames on the bus.
* `heard[n]` and `missed[n]` are history variables: whose claims were processed
  since the last request, and whether `update_new_partners` left a control
  function that matches in the inactive list.

Abstracted: the delays of `WaitForClaim` and of the contention period expire at
any moment (`Rest` is the update before), as does the time after which control
functions are pruned; frames are not lost. No address that comes from the bus is compared with the
addresses there are: a frame's source and a commanded address are any byte
(`Slot`). An access to the table at 254 or 255 reaches the elements behind the
channel's array; they are kept as `table[Null]` and `table[Global]`, and in the
code they are the first two of the next channel, whose own use of them is not
modelled. A node that is commanded to 255 claims it (`ClaimPreferred`); a build
with assertions stops at `can_internal_control_function.cpp:319` instead. The
inactive list may hold a control function twice, and one that is in the table as
well, as in the code, which pushes without looking and takes nobody off the list
that comes back. A commanded address arrives as the message
the transport protocol puts together.

### VirtualTerminal

The worker calls `update()`, the update thread hands over messages and the
reports of the transport protocol, the application sets values. Only the queue
of commands has a lock, so everything else is one step per access that another
thread can come between.

* `client.state` is the state machine. A case of `update()` that sends and then
  calls `set_state` is one action (`WorkRequest`), or two if the worker is
  interrupted between them: the message is out, `client.work` holds the state
  still to be set, and `WorkRequested` sets it *whatever the state has become*.
  Such an interruption counts as a fault, because the answer takes at least a
  round trip. `WorkUpload` and `WorkUploadStarted` are the same for a pool.
* `UploadPass` is the loop of `UploadObjectPool` over the pools; `PassPool` is
  its body for one pool, with its early end; `client.upload` is `currentObjectPoolState`, which
  `set_state` does not reset, `client.uploaded` the flags it does.
* `transfer` is the session of the pool under way. The transport protocol
  fetches chunk by chunk (`FetchChunk`), each from the first pool that is not
  marked as uploaded *at that moment*; a pool therefore arrives as a sequence of
  chunks, and `Whole` tells whether they belong together.
* `cmd.call` is how far a call of `send_change_numeric_value` has come:
  `CallCheck` and `CallSend` are `send_command`, `CallPush` is the part of
  `queue_command` under the lock. With `config.threaded` false the call comes
  from a callback, and the update thread does nothing else meanwhile.
* `helper` is the update helper: it answers from its copy, listens to every
  message of the terminal before the client does, and keeps listening when the
  client is terminated.
* `terminal.vol` is what the terminal loses with its power (working set, pools,
  parsing thread, objects, values), `terminal.own` and `other` the versions in
  its non-volatile memory. What its application implements follows the
  declarations of the virtual functions.

Abstracted: a pool is its index and its chunks; commands are changes of one
numeric value (the others go through the same queue, `are_commands_similar`
tells them apart by more bytes); a request the transmit queue refuses is
repeated 50 ms later and is a delay; a timeout that expires while its answer
is on the way (`Due`) is a fault, one that expires for nothing is not.

Time. A status message is heard after what the terminal sent before
(`Status`); it grows old when the terminal is off or as a fault. A terminal that
is switched on again finds a client that has noticed (`PoweredOn`): with
broadcast refusals (`config.broadcast`, what `VirtualTerminalServer` does) a
client would otherwise never learn of it, see section 6.

### TaskController

The same three threads, and the same split between a send and the `set_state`
that follows it (`WorkRequest` and `WorkSets`; `Request` gives message and next
state of every state that sends).

* `client.pool` is the pool the application gave last; `client.binary` is
  `generatedBinaryDDOP` and `client.label` the pool whose labels were parsed
  (`ddopStructureLabel`, `ddopLocalizationLabel`): three copies that a
  `Reupload` has to reset together.
* `client.alive` is false after `terminate()`, which the client also calls
  itself where the task controller refuses its pool; the callbacks are gone, the
  state stays.
* `cmd` has the queues of requests and values and whether there is a measurement
  command; `Becomes` is `set_state`, which clears them when it enters
  `Disconnected`. `process_queued_commands` takes a command off the queue in any
  case; whether it is answered depends on a callback that has the value, on the
  element just erased still saying that an acknowledgement is asked for, and on
  the send. `cmd.lost` is a history variable: commands of which nothing is left.
* `server.known` is an `ActiveClient`, `server.stored` the pool in the memory of
  the task controller, `server.waiting` the commands it has not had an answer
  to. `mishap` is a history variable, see below. `config.labels` says which labels it reports: none is the server of the
  repository, which reports none because the client asks with a label of 0xFF
  bytes.

Time. The client sends its status every two seconds from `SendStatusMessage` on,
and the task controller forgets a client after six without one: `Forgetting`
happens only while the client is silent. The start up delay of six seconds
(`SixSeconds`) ends after that, and after what was under way has arrived. A task
controller that was off may come back at any time, before the client has noticed
(`Noticed`) or after; any message may be lost, the announcement among them
(for the pool: `TransferFails`); a client that was
terminated may be initialized again in whatever state it was left. The last
three may leave a client that counts on an announcement the task controller
knows nothing of: `mishap` remembers that one of them has happened, until the
task controller knows the client again. A whole transfer of the pool takes
longer than the worker needs for its next line; `SlowWorker` drops that
assumption, which the run keeps.

## 4. The runs

| run | instance | what it shows |
|---|---|---|
| `tp_prompt` | two nodes; a message of 3 packets and one of 2 against each other under one PGN, a broadcast; one lost frame, one frame of other traffic; path of 3; windows of 1 packet | types; buffers; a report for every session; sender inside its grant; whole messages once, success only after delivery; without a fault every message succeeds |
| `tp_delay` | two nodes, two messages under two PGNs, at most one session per manager, time passes at any moment, one address lost and claimed again | the protocol implements `MessageTransfer` with its liveness; every session ends |
| `tp_foreign` | one node of the stack, one of another make that sends any 3 of 20 frames, among them requests and announcements of 0, 9, 14 and 1799 bytes with right and wrong packet counts | buffers, reports and the limit on receive sessions hold whatever a partner sends, with the counters wrapping |
| `tp_grant` | the same with requests for packets already sent | finding: the packets left under the grant exceed the grant |
| `lfq_one` | one producer, capacity 3, two frames, both queues | the queue is a FIFO of capacity - 1; no torn slot; a frame read from the driver always fits |
| `lfq_two` | two producers on the transmit queue | finding: `push` returned true and nothing was added |
| `ac_two` | two nodes of the stack that prefer one address, the higher NAME arbitrary address capable; one refused send | the claims end; the nodes differ; no table keeps a node in a slot it has left; the lower NAME never gives up on the way to its address |
| `ac_bus` | one node, a lower and a higher NAME of other makes that send any 3 of 12 frames (claims, also of 254 and 255, requests, a commanded address, also 254 and 255, use of an address without a claim), one partner both of them match | types; a partner that was looked at is bound if a control function that matches is known |
| `vt` | one client with two pools of two chunks, with a version label and values set from callbacks, or without and from a thread; stored versions of earlier sessions; two calls of application or operator; one fault | types; a connected client has its pools on the terminal, whole and parsed; an accepted value is not forgotten and goes out; the helper's copy is the terminal's value; the client connects for good |
| `tc` | one client, three pools that share labels, a pool that is generated or a vector, three kinds of task controller; one command, one reupload; two faults | types; the active pool is the one given last; only an accident makes the task controller look for a client it does not know; the client connects for good, unless it never learns that it was forgotten; no command waits for ever |
| `ac_prune` | one node, another that asks for claims and claims itself, one partner | finding: the partner is pruned although it claimed |
| `ac_lost` | one node, a higher NAME that claims either address, four times at most | finding: the node is complete without an address |

Bounds. Three packets in windows of one packet make the receiver ask twice, so
a clear to send in the middle of a message, one after a loss and one that is
refused occur. A path of 3 fills up when a burst of two frames meets other
traffic. `T1 < T2T3` are one tick apart, which tells the two timeouts from each
other; `age` stops at `T2T3 + 1`, where every comparison is decided. Counters
reach 255 in `tp_foreign` through `next - 1` and through the wrapped
difference, and 1799 bytes (257 packets) wrap the packet count to 1. What the stack does not tell apart are two messages of one pair
under one PGN: with one loss a clear to send of the earlier can be taken for
the current one, and the sender then goes past the grant the receiver gave
(`WithinGrant`); with two, a receiver delivers the first packets of the longer
message as if they were the shorter one (`TransferSafety`). The
three messages of `tp_prompt` are of three pairs, and its one loss is there for
the length of the run; its safety holds with three losses too. The two messages
of `tp_delay` are of two pairs. Section 5 says which condition is enough in
general.

Two nodes of the stack and one contended address are what contention is about:
claims cross on the bus, in either queue and in either phase, before and after
each node has completed. The refused send puts one node back to the start after
the other has claimed. Three foreign frames are a claim by the lower NAME, one
by the higher, and a move, a request or a command after them; four were checked
once, in two minutes, with the same result.

In `vt` one fault is any one of: a message lost in either direction, the power
of the terminal lost at any point, a transfer that fails, a worker interrupted
between its send and the state it sets, an answer that is late, a send of a
command that is refused, a version that cannot be loaded or stored, a
`terminate()`. The invariants also hold with two faults, which is too long for
the run with liveness. Two pools are needed for an upload to go wrong between
them, two chunks for a pool to be mixed; two values and two calls let the
application and the operator overwrite each other. In `tc` two faults are
needed: a pool replaced on a connection that is lost while the answer to the
first is still under way. Pools 1 and 2 share the structure label and 2 and 3
the localization label, so each label alone can be taken for another pool's. With
two faults, two commands and two reuploads the invariants hold too.
`CHECK_DEADLOCK` is off in `tc`: a client that has terminated itself stays so.

Fairness. The update thread runs at least every `periodicUpdateInterval`, and
each run handles all received messages and all sessions: weak fairness of
`Receive` and `UpdateSession`. The driver empties the transmit path: contained
in the fairness of `Receive`, since a frame leaves the path when it has been
processed. Time goes on: weak fairness of `Tick`. Nothing is assumed of losses
and other events. In the queue the update thread's steps are weakly fair; a
driver that is offered a frame again and again takes it at last (strong
fairness of `Handle`), which a bus that is not off gives. In `AddressClaim` the
update loop is weakly fair; `ReceiveFrame` is strongly fair because the same
thread empties the driver's queue before each `update()`; the step of the claim
state machine that changes its state is strongly fair because its delay is
finite and the transmit queue has room again. In `VirtualTerminal` and
`TaskController` the worker, the update thread, the parsing thread and the
application's call are weakly fair: each runs on its own and its steps stay
possible. A timeout that is not early expires. What is off is switched on
again, and a client the run has terminated is initialized again (`vt`); nothing
forces a fault, a call, a command or a reupload.

`FaultlessSucceeds` says success or a fault was used: a full path alone, through
the clear to send that is never repeated (hazard 542), makes a transfer fail.
`TxCapacity = 3` with one frame of other traffic reaches that.

## 5. The proofs

### TransportProtocol

For every number of nodes, every set of messages, any limits and timeouts, any
behaviour of foreign nodes and any allowance of events, from
`ConfigurationAssumption`, `NodeAssumption` and `FrameAssumption`:

* `TypeCorrect`: `Spec => []TypeOK`. `TypeOK` is inductive: it says of a
  session more than a type, namely that its state is one of its direction and
  that what it transmits is a message of its own pair; without it the frames it
  sends could not be shown well formed. One lemma per handler.
* `BuffersInOrder`: `Spec => []BufferInOrder`. The invariant (`OrderInv`) is
  the property itself, inductive relative to `TypeOK`: the key step is that a
  packet is copied only if it is number `last + 1`, that the session is closed
  when that was the last one, and that `total` is the length of the buffer
  modulo 256: the counter of received packets meets it before it can wrap, or
  never if it is 0. The announced sizes range over all of uint16_t. Beyond 255
  packets the property says only what the code does, which section 6 lists.
* `ReceiveLimitHolds`: `Spec => []ReceiveSessionsWithinLimit`, by counting: a
  receive session is only stored where `Full` is false or where the pair had
  one before.
* `SendersHaveSessions`: `Spec => []SendingHasSession`, inductive relative to
  `TypeOK`: a close of a transmit session and its report are one step, and a
  session keeps its message.

Two more theorems (`TransportTransfer_proofs`) say what both ends do together,
for nodes that all run this stack (`Foreign = {}`): a partner of another make
may send anything, and then neither holds.

* `GrantsKept`: `Spec /\ [][Settled]_vars => []WithinGrant`.
* `TransferKept`: `Spec /\ [][Settled]_vars => TransferSafety`, the refinement of
  `MessageTransfer` step by step: `Submit` maps to `Accept`, the last packet a
  receiver takes to `Deliver`, the acknowledgement and the last packet of a
  broadcast to `Succeed`, every other close of a transmit session to `Fail`; all
  else stutters.
* `OneForEachKept`: both from `Spec` alone when no two messages have the same
  source and destination (`OneForEach`), which makes `Settled` true of every
  step. Runs `tp_prompt` and `tp_delay` are such instances.

`Settled` says that an application submits a message only when nothing is left
of an earlier one of the same pair: no session at either end, and no frame on a
transmit path or in a receive queue. The code does not see to it.
`protocol_transmit_message` asks for the sender's own session only, so after a
timeout the next message starts while the receiver still has a session and
packets of the last one are on their way; frames carry a PGN and a packet
number and nothing that tells two messages apart. Without `Settled` the theorems
are false: TLC finds `TransferSafety` violated with two messages of one pair and
PGN, of 3 and 2 packets, and two lost frames. Settled steps alone are no
small system: losses, refused frames, timeouts, aborts and lost addresses
happen in the middle of every exchange, and several pairs go on at once.

The inductive invariant (`ExchangeInv`) speaks of one pair at a time (`Sound`).
Either nothing of the pair is under way (`Quiet`), or everything that is
belongs to one message (`Exchange`): the sender's session carries it, a
receiver's session holds a prefix of its packets, and no receiver that has a
session or is still to get the opening frame has been given the message; the
packets on the sender's path are in order behind the frame that opens the
exchange; an acknowledgement on the receiver's path means that the message
arrived. `Grants` adds, for a connection, how the counters of both ends relate:
the sender's grant is never beyond the receiver's, no packet on its way is
beyond it either, and at most one clear to send is under way, only when no
packet is, and only for the packet the sender will send next. A step either
takes frames and sessions away from a pair (`Subsides`, which keeps `Sound`) or
is one of the handlers that add to it: one lemma for each of those. TLC checked
the invariant on the instances of `MCTransportProtocol` under `Settled` before
it was proved, one of them completely.

### LockFreeQueue

For every capacity of the ring, every set of frames and both roles of the queue,
from `QueueAssumption` and, in each theorem, `SingleProducer`. The class comment
asks for one producer; the receive queue has one, the thread of its driver. The
transmit queue has several, and there the theorems do not apply: run `lfq_two`
shows what happens (section 6).

* The inductive invariant `IInv` ties each thread's place in `push`, `peek` and
  `pop` to the indices. `ProducerInv`: the index a push has loaded is still the
  write index, and the room it found is still there, since only the consumer
  moves the other index and only away. `ConsumerInv`: from `peek` to `pop` the
  oldest frame stays in its slot. `ReceiveInv`: the room that `is_full()` saw
  lasts until `push` compares the indices. `FilledInv`: every slot between the
  indices holds a frame. What it rests on is arithmetic modulo the capacity
  (`SlotAt`, `Gap`), proved first.
* `SlotsNotShared`, `ReceivedNeverRefused`: `NoSlotRace` and `ReceivedFrameFits`
  follow from it.
* `PushAppends`: `Spec => PushedWhenTrue`; a push that returns true has appended
  its frame to the contents, and nothing else.
* `QueueIsFifo`: `Spec => Fifo!Safety`, the refinement of `BoundedFifo` step by
  step. `Publish` maps to `Accept`, a full comparison to `Refuse`, `PopAdvance`
  to `Take`; everything else is a stutter.

### AddressClaim

For every set of nodes, of the stack and of other makes, any addresses, filters
and frames of other makes, from `ClaimAssumption`; it asks of other makes that
they claim with their own NAME, since NAMEs are unique on a bus.

* `TypeCorrect`: `Spec => []TypeOK`, one lemma for each function of the network
  manager that the actions are built from. Frames of other makes may carry 254 and
  255 wherever there is an address; that the accesses they lead to stay in the
  table is not what it says, and is not true (see the elements behind it).
* `PartnersBound`: `Spec => []PartnerBound`. The property speaks of the table's
  addresses and the list; `PartnerInv` adds the elements behind the table, because
  a claim of 254 or 255 moves control functions from the list into them and back.
  It is inductive because a control function gets into the table or the list in
  four ways only: as a new one, and then `BindsPartner` was false, so the
  partner has a NAME or its filters do not match; from the table or the list; as
  the node's own; as the partner. What is left to show is that
  `update_new_partners` starts it: that the one it erases was the only one
  (`RemoveAtElements`), where `missed` does not say otherwise. That exception was
  found by this proof: an earlier form of the model kept the list without
  duplicates, and the property looked true.
* `AddressesDiffer`: `Spec => []QuietNodesDiffer`. Two nodes of the stack may hold
  one address for a while, because their claims cross. `CrossedClaims` says what
  is then under way: one of the two has the other's claim of that address still
  to handle. A node puts its claim into the queues of all others as it takes the
  address, nothing takes a claim out of a queue but its handling, and a node that
  handles such a claim leaves the address or claims it again, as a lower NAME
  does. The address tables need not be right for this: the contention compares
  the claim with the address the control function has itself.
* `LowestClaims`: `Spec => []LowestNameClaims`. The decision whether to claim is
  taken from the network manager's table, not from the claims. `LowestPrevails`
  says that the lowest NAME enters its own table with its first claim and not
  before (`Unlisted`), so that whoever it finds at the address it prefers when it
  decides is a higher NAME, and that afterwards a claim only makes it claim again.

### TaskController

For every number of pools with any labels, every set of commands and any number
of faults and reuploads, from `ConfigAssumption`; for both values of
`SlowWorker`, so also without the assumption about time the run keeps.

* `TypeCorrect`: `Spec => []TypeOK`, from `BaseInv`. It adds to the types what
  the messages carry, that the worker's pending `set_state` belongs to the state
  in which it sent unless the connection was given up in between (`WorkInv`),
  and that the working set master message is the first of its connection
  (`StartInv`).
* `NoNullClient`: `Spec => []ClientIsKnown`. The task controller looks up its
  `ActiveClient` without a test where it reads the client's version. The code does
  not see to it that there is one; the theorem says exactly what it takes that
  there is none. When a version is next to be served, the client is known, or
  since it was last known one of three things has happened (`mishap`): the task
  controller was back before the client noticed, an announcement was lost, the
  client was initialized in the middle of a connection. `tc` reaches each of the
  three and the server it ends (`Down`). No refused send, late or lost answer,
  timeout, power loss or reupload is enough. The invariant `KnownInv` says that
  without a mishap whatever leads there was sent after an announcement that the
  task controller that is on has read, or will read first.
* `CurrentPoolActive`: `Spec => []ActiveIsCurrent`. No message carries a number
  that ties an answer to its request, so an answer is believed because of the
  state in which it is read. The proof needs two invariants. `LineInv` says which
  kinds of messages can be under way in each state: at most one request or answer
  of a kind, only in the states that wait for it, and a late answer to a
  deactivation ahead of any label. `PoolInv` says what those that are under way
  tell about the pool that is stored now: a positive answer to a transfer means
  that the client's own pool is stored, a label is the label of the stored pool,
  a positive answer to an activation that it is active. `AnswersAreCurrent`
  states both; it is inductive relative to `BaseInv`. TLC confirmed `BaseInv`,
  `LineInv` and `PoolInv` with two pools, three faults and all accidents before
  they were proved.

### VirtualTerminal

For every number of pools (by pointer or vector) and chunks, every set of numeric
values, any number of calls and faults, with and without version labels, from
`LinkAssumption` and `ConfigAssumption`; for both values of `FastRestart` and
`AnswersLoad`.

* `TypeCorrect`: `Spec => []TypeOK`. The inductive form (`Typed`) adds what the
  messages carry. Two operators need an induction: the recursion over the pools
  (`UploadPass`) and the enumeration of what stays in the queue (`Nth`). The
  induction theorems of the library take an operator; `Induction`
  (`Positions_proofs`) takes a set of numbers
  and is proved from the cardinality of intervals.
* `AcceptedValuesKept`: `Spec => []AcceptedIsKept`. `KeptInv` adds that a call
  which has not yet sent holds the last value asked for of its object. The steps
  to look at are those that change the queue: `Queued` loses no other object's
  command and holds the new one, `ProcessCommandQueue` takes away the one it
  sends.
* `HelperCopyAgrees`: `Spec => []HelperAgrees`. `HelperAgrees` speaks of a moment
  at which nothing is on its way; `AgreeInv` says what holds in between: the last
  message to the client that tells a value tells the one the terminal shows, and
  when none is under way the copy is right or a change is still on its way to the
  terminal. With calls from a thread of its own, or with a lost message, this is
  false, and the property excepts them. TLC confirmed the invariant with four
  calls and two faults before it was proved.
* `ConnectedPools`: `ByVector = {} => (Spec /\ [][Undisturbed]_vars =>
  []ConnectedHasPool)`. An upload has no number: its outcome is taken for the
  first pool that is not marked, the answer to the end of the pool for the end
  that was sent last, and a session is begun again at any moment by either side.
  `PoolInv` says, of the client, the transfer, the terminal's memory and both
  lines, why this works out:
  - `Line`: a request to remove the pools is never in front of an announcement
    (it would remove what is sent next), and when the client has heard a status
    and begins, no request whose answer counts is left in the line;
  - `Uploads`: a transfer under way carries, in every chunk, the first pool that
    is not marked; a success that was reported stands for a pool that is on the
    terminal or in the line;
  - `Promises`: what is marked is on the terminal or ahead in the line; at the
    place of the end of the pool in the line this is so of all pools; from there
    on, and when the version is stored, all are parsed. All of this only of a
    terminal that manages the client or is about to (`Alive`): to one that has
    forgotten it nothing is owed;
  - `Keeps`: what is being parsed, was loaded or is stored is complete, and a good
    answer under way is about pools that are there.

  The lemmas follow the parts: one for a message that goes out (`SendSound`), one
  for the head of the line that is served, refused or lost (`RestSound`), one for
  each way the client moves on, gives up or begins; the loop over the pools is
  followed pool by pool (`UploadPassAt`). `Undisturbed` has two conditions, which
  the code does not establish and without which TLC finds the property violated.
  No outcome of an earlier session is on its way when the client announces itself
  to a terminal that does not manage it: answers have nothing that ties them to a
  session, and with enough timeouts that are early (eight faults, one pool) such
  an answer is taken for the one of the new session. And a load that finds no
  version does not count as done: the server then parses the pools it has, so after
  a part of an upload (two pools, a terminal back with an empty memory, four
  faults) a part is reported as loaded. `ByVector = {}` is needed because of the
  pools that are never sent (section 6). With the two conditions TLC finds no
  violation of `PoolInv`, and the states in which the client is connected, by an
  upload and by a load, are reached.

### Only model-checked

Liveness (`SessionsEnd`, `FaultlessSucceeds`, `Reconnects`, `CommandsAnswered` and
the other leads-to properties, the fairness of `TransferSpec` and `FifoSpec`),
since fairness and ENABLED are out of the prover's reach. Address
claim: `NoStaleSlot`. Its converse is not true and not stated: a node may hold an
address without being in the slot (section 6). `ConnectedHasPool`
is proved under the two conditions of `Undisturbed`; that few faults cannot break
them (`vt` checks the property without them) is model-checked only.

## 6. Findings

1. `tp_grant`: a clear to send for packets already sent moves the acknowledged
   number back but not the next packet to send. The uint8_t difference wraps
   and the sender believes it may send up to 255 packets.
2. `lfq_two`: the transmit queue is written by several threads without a lock;
   two pushes can return true for one slot.
3. `ac_prune`: a partner created after its control function has answered a
   request for claims is taken offline at the end of the round, because its own
   flag says it did not claim.

4. `ac_lost`: a node that has won against a higher NAME and has not yet claimed
   again loses its address to the next claim of that NAME, claims the null
   address and counts as complete. `ac_two` reaches the same state through a
   refused send; its `Holds` therefore asks for an address, and says nothing of
   a node that has none.

Seen in the model and not stated as a run. `update_new_partners` is to "Remove any
inactive CF that matches the partner's name" (`can_network_manager.cpp:875`); it
erases the first entry that matches and stops (line 883). A second one, or the
same control function listed twice, stays external, and when it claims again the
partner remains without a NAME (`PartnerBound` excepts this with `missed`;
without the exception TLC finds it in `ac_bus`).

No document speaks clearly enough of the following to be quoted against the code.
A request to send may announce more than 1785 bytes.
`process_request_to_send` compares the size with the number of packets alone
(`can_transport_protocol.cpp:237`), whose uint8_t wraps, and not with
`MAX_PROTOCOL_DATA_LENGTH` as an announcement's is (line 144): 1799 bytes in one
packet are accepted, and the message is delivered after one packet with the other
256 empty; sizes of 0 and of 1786 to 1792 bytes count as 0 packets, and their
session never completes (`BufferInOrder` names both). A node's own slot is
erased when a control function whose address it took moves on. A control function
that comes back from the inactive list after a request is pruned again unless it
is the first of the list.

The properties of `vt` and `tc` hold under assumptions the models name, and the
code relies on them without saying so. Each is a CONSTANT or an exception in
the property, and without it TLC shows the following.

Terminal:

* `FastRestart = TRUE`: a terminal that is back before the client has missed its
  status refuses every message of the client, but to everybody; the callback of
  the partner is not called for a broadcast and the client stays "connected".
* `ByVector`: a pool given as a `std::vector` has no pointer and no size, and
  counts as uploaded without having been sent (`ConnectedHasPool` fails).
* `AnswersLoad = FALSE`: the repository's server does not answer a load command
  that found its version; the client then times out on every connection, and
  the server's pools grow with each.
* `Orphaned`: an upload whose end is reported before the worker's assignment, or
  in another state, is "in progress" for ever (hazards 1607 and 3271).
* `client.stale`: an upload that ended with success just before the connection
  was lost counts for the first pool of the next one, which is then not sent.
* The last value an application sets need not be the last one the terminal gets,
  although `set_numeric_value` returned true for it. `queue_command` sends at once
  when no answer is awaited, although an older value of the same object is still
  queued, and that one follows it. And the helper takes the answer to an older
  command over as the current value: asked for that value again it returns true
  and sends nothing, while the newer one is on its way. `AcceptedIsKept` and
  `ValuesArrive` say that every accepted value goes out and `HelperAgrees` that
  the helper knows how it ended; that it ended with the last one does not hold.
* A pool that fails to parse is reported as free of errors. The helper's
  validation callback is never asked, because the helper's copy has the new
  value by then (it would be asked in the inverted sense).

Task controller:

* `mishap`: a client whose announcement was lost or forgotten, or that is
  initialized again in the state it was terminated in, sends its version; the
  server reads a client it does not have. And a client that is connected when
  the task controller is back too early, or that is initialized again when it
  has been forgotten, stays "connected" to a task controller that does not know
  it (`Unheard`): the task controller's status goes on, and nothing but an answer
  to something the client sends would tell it.
* `SlowWorker`: the report of a transfer comes before `WaitForDDOPTransfer` is
  set, and that state has no timeout (`Reconnects` fails).
* A request for a value that none of the application's callbacks has is taken off
  the queue and nothing is sent. Whether a value is to be acknowledged is read
  from the element that has just been erased, so the answer may be missing; and
  an answer that is refused is lost. `CommandsAnswered` excepts these: what it
  shows is that every other command is answered in the end.
* A pool that was generated and is given again leaves no binary: the transfer
  announces one byte, is refused for two seconds and the client disconnects.
  The pool becomes active, but after a whole new connection.
* A deactivation that is refused is left to its timeout, after which the pool is
  replaced while it is active. Commands read while the client is not connected
  stay queued for the connection they end in.

## 7. Not modelled

* Decoders and encoders of single messages, object pools and tables: no state to
  interleave, and mostly recursion over bytes. This is by far the largest part
  of the lines (terminal objects, working set parser, data dictionary).
* Drivers and their libraries: input and output.
* Extended transport protocol, fast packet protocol, parameter group requests,
  heartbeat, event dispatcher and the sprayer's section control: each would be a
  module of its own with its own run. Their hazards are in `PROJECT.json`
  without a property. The extended transport protocol has the state machine of
  `TransportProtocol` with one frame type more and 32 bit counters, so it comes
  first if the project grows.
* Of the terminal: commands other than the change of a numeric value, auxiliary
  inputs, macros, events of keys and pointers, scaling of pools, several
  clients. Of the task controller: a pool given by pointer (its upload copies
  from the empty generated binary), designators, peer control, the arithmetic of
  thresholds, several clients, and the lists of measurement commands, which the
  worker iterates over without the lock the update thread adds to them under.
