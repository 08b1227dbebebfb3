# LoRaPackConverter in TLA+

LoRaPackConverter is a Qt utility that lets applications exchange packages of up to
512 bytes with devices behind a LoRa network whose frames carry 46. It is a WebSocket
server for applications and a WebSocket client of the Net868 server. This directory
holds TLA+ modules translated from its sources, TLC configurations that check them on
small instances, and TLAPS proofs for every value of their parameters.

Paths of the sources below are relative to `src/src/` of the repository. "Utility
document" and "protocol specification" are the two PDF files beside the sources.

## 1. The system

| component | state it keeps | operations | talks to |
|---|---|---|---|
| `Converter` (converter.cpp) | buffers of both directions, `fileSizeCounter`, `errorCounter`, `lastLp`, `alreadySent`, two timers | `setDataPackage`, seven slots for frames, `answerTumeout`, `idleTimeout` | signals `sendLoraPack`, `sendAnswer`, `idleDisconnectTimeout` |
| `WebApiServer` (webapiserver.cpp) | `m_clients`, `converterList` (DevEUI to raw pointer) | connect, text message, disconnect, `idleDisconnectTimeout`, `printMsg` on `destroyed()` | owns the `Net868Client`; converters are children of the client's socket |
| `Net868Client` (net868client.cpp) | the websocket, `loraQue` | frames in, packets out, reconnect in a nested event loop, destruction | fills the parser's queues; repeats the parser's signals to every converter |
| `PackParser` (packparser.cpp) | `queryDataToSend`, `runFlag` | a thread polling two queues; decodes and dispatches frames | signals to `Net868Client`, queued to the main thread |
| `crc32_fsl` (crc32.c) | a table | CRC of a buffer | `Converter` |
| `Settings`, `CleanExit`, `main` | a file; none; none | read/write a setting; quit on a signal; start | everything else at construction |

Control runs on the main thread except for the parser's loop. What makes the code hard:

* **Lost, late and repeated frames.** Every packet is repeated until answered, answers
  name an offset but no session, and nothing numbers repetitions.
* **Two timers per converter** that are restarted by different events.
* **Deferred deletion.** A converter leaves `converterList` at once and dies by a later
  event; until then it hears frames.
* **Nested event loops**, in `webSocketClosed`, where deletions posted before wait, and in
  `~Net868Client`, where requests are still served while the parser is being deleted.
* **Two queues shared by two threads** without a lock.
* **Bytes put together by hand**: shifts, casts, headers, offsets, a CRC table.
* **Uninitialised state**: counters of a refused request, bytes of a resized `QByteArray`.

What makes each component correct:

* Converter: confirms only what the device has written, asks for the check only of
  complete data; repeats on a timeout only the packet it stands at, which goes on the air at most `RetryCount` times
  for each call of `sendCommand`; is never left without a timer; reports a silent device; as long as it stands in
  the list, tells the application one closing answer at most; comes to an end. (Once it has left the list it may answer
  again before it is destroyed: `server_twice`.)
* WebApiServer: list and objects agree, no pointer dangles, no object leaks, one request
  per device at a time.
* Net868Client and PackParser: no frame or packet is lost between the threads, stop ends
  the thread, nothing destroyed is used, frames are decoded as specified.
* crc32: the table algorithm is the CRC-32 of the protocol specification.

`PROJECT.json` lists every hazard at its line with the properties that watch it.

## 2. The modules

| module | models | proved about in |
|---|---|---|
| `Session` | abstract: what an application is promised about one device | |
| `Converter` | one `Converter` and its entry of `converterList` | `ConverterProofs` |
| `Transfer` | `Converter` composed with network and device | `TransferProofs`, `DeliveryProofs`, `ReplyProofs`, `QuietProofs` |
| `Lifetimes` | abstract: sessions that begin, end and are released, one at a time for a device | |
| `WebApiServer` | sockets, list, objects, deferred deletion, nested loop | `ServerProofs` |
| `Pipe` | abstract: what one direction between the two threads should be | |
| `ParserThread` | the parser thread, its two queues, start and shutdown | `ParserProofs` |
| `Crc32` | `crc32_fsl`, its table, and the CRC-32 it should be | `WireProofs` |
| `Wire` | `Converter` composed with encoding, decoding and a device of bytes | `WireProofs` |
| `MCConverter`, `MCTransfer`, `MCWebApiServer`, `MCWire` | instances for TLC | |

`Transfer` and `Wire` extend `Converter` and use its actions as they are. `Converter`,
`WebApiServer` and `ParserThread` instantiate `Session`, `Lifetimes` and `Pipe` with refinement
mappings. `WebApiServer` and `ParserThread` stand alone: they meet the others at their edges (a slot's effect on
timers and list; a queue that behaves as a FIFO).

Definitions whose comment begins with "Faulty variant" are not part of a specification:
each is a plausible mistake in the operator after it, and each has been seen to violate
the property it is listed with under `mutants`.

### Converter

One action per slot. `Init` is "no converter for this DevEUI"; `AcceptedRequest` and
`RefusedRequest` are `processTextMessage` creating one and running `setDataPackage`;
`BusyRequest` is the branch for a DevEUI that is in the list. `Dispatch` is
`PackParser::dataParser` choosing the slot by the command code. The signals are the
variables `sendLoraPack` and `sendAnswer`, holding what the last step emitted. Timers
count down in ticks (`Stopped` is -1); `Tick` waits until due timers have been served.

Data is abstracted to what the slots distinguish. The bytes of a request are a request and
a length; received bytes are kept one by one, because the properties are about where
they land; a CRC is the content it is computed from, so equal CRCs mean equal content
(`CrcOutcomes`), and bytes nobody wrote (`Junk`) may hold anything. The 16-bit offset is
`% U16`. A refused request's counters are any value of `Garbage`.

The end of a session is one step here: the slot that ends it, the removal from the list
and the destruction. In the code the destruction is a later event, and until it is served the object still hears
frames, sends acknowledgements and answers the application. `Converter`, `Transfer` and `Wire` do not have that object: what
they say is about the converter that stands in the list. The interval, and what it does to the list and to another request's
converter, is the subject of `WebApiServer`, where `ListedConverterAnswers` is found false.
`lastLp`, `waitTimer` and the idle restart that `sendCommand` performs for
`APP_FINISH_RECV_DATA_CMD` are left out, as the object is dropped in the same slot.
Two history variables: `attempts` counts transmissions of `lastLp` since it was last given to `sendCommand`, which may be
a packet that had been sent before (a block answered with an error); `prolonged` says that a repeated answer has restarted
the wait timer since then. The idle period of a request that is accepted starts with the packet, as the constructor, `setDataPackage`
and `sendCommand` restart the idle timer within one step.

### Transfer

Each path is one FIFO with loss (`Lose`) and bounded length; the parser's queue, the
socket and the server's queue are one after another and lose, delay and keep order
together. That the parser's queue is a FIFO is what `FollowsPipes` of `ParserThread`
shows, as long as no two operations on it overlap. The device follows the protocol specification: it answers every command,
writes at the named offset, checks the buffer on `0x8402` and releases it, and sends the
reply of the meter in one frame or with the roles exchanged, repeating a frame up to
`MaxRepeats` times. It may restart, which clears its buffer. Losing a session's client and
asking anew is `ClientLeaves` and `MakeRequest`.

### WebApiServer

The slot of a converter is reduced to its effect on its timers and the list: emit a
packet (or, of a converter that has confirmed what the frame says, only restart the wait), stop waiting, or answer and end. `posted` is the main thread's queue of frames posted
by the parser thread and of `DeferredDelete` events, each with the loop level it was
posted at; `nesting` is 1 while the loop of `webSocketClosed` runs, which passes over
deletions of level 0. A frame is delivered converter by converter (`dispatching`), in the
order of connection, to every object that exists, listed or not. `deleteLater` through a
null pointer may end the program (`crashed`) or not. Requests answered without change of
state are stuttering steps.

The refinement maps an object to a session that serves its device until its own or its socket's
deletion is posted (`Doomed`), then to one that has ended, until it is destroyed. `Lifetimes` lets a session
begin only for a device that no other serves, end once, alone or with all of its application, and be released
only after that.

### ParserThread

The thread is at one point of `startParser` at a time (`thread`), the main thread in one
phase of its life (`main`): before `a.exec()`, in it, in the loop of `~Net868Client`, after it.
Every enqueue of the main thread has a beginning (`OnTextMessageReceived`,
`AddDataToQuery`) and an end (`EnqueueEnds`); every dequeue of the thread likewise
(`SeesFrame`, `TakeFrame`; `SeesPacket`, `TakePacket`). When two of them overlap on one
queue the program has a data race, remembered in `raced`. Its outcomes: the appended
item is lost, the taken one stays, or the program ends (`RaceKills`).

`runFlag` is a plain `bool`, but the loop calls functions the compiler cannot see through in
every round, so that it is read anew. `started()` is connected to `startParser`, which therefore
runs before the thread's event loop and sets `runFlag` itself: a stop that comes earlier is
overwritten. `finished(int)` of the parser and `finished()` of the thread are events posted to the main
thread. The parser deletes itself in the thread's event loop or at the thread's end.

The refinement maps each direction to a `Pipe`: its contents are what is posted to the main
thread followed by what is in the queue, frames of the status "overdue" apart. The pipe is open until
a signal ends `a.exec()`, closing in the destructor's loop, closed after it, and broken by a race.

### Wire and Crc32

`Wire` runs the actions of `Converter` at the real sizes: blocks of 46, the limit of 512, fields of 16 bits.
`Encoded` is what `sendCommand` and the functions before it append to a `QByteArray`;
`DataParser` is the decoding by index in `PackParser::dataParser`, with `Outside` standing for a read
behind the end. Below them is a device that reads and writes bytes as the protocol
specification has them, and computes CRCs bit by bit. Nothing is lost and no timer is due: that is
the subject of `Transfer`. The port is a constant, as the device echoes what the converter sent it.
`ContentOf` translates a CRC back to the content that `Converter` compares: that of the buffer if
the CRCs are equal. `CrcField` is the four bytes it is read from. `frameSize` is the block size the device has chosen for its
reply. A port is read from one place in front of the last byte read, so that reading it needs no check of its own.

`Crc32` has the table of crc32.c entry by entry, in halves of 16 bits since TLC's integers have 32 with a sign,
and the bitwise definition. A word of 32 bits is the set of the places at which it has a one, so that `^`, `>>` and `~` are
set operations the provers reason about. TLC evaluates `TableIsCrc32` in the run `wire`: each of the 256 entries is
what eight bit steps make of its index.

`WireAssumption` says what the formats rest on: the bytes of requests and replies are bytes, and with its header of
three each of them fits the 16-bit fields (in the code a request has at most 512, and a reply's size comes in such a field).

## 3. The runs

| run | instance | shows |
|---|---|---|
| `converter` | any frame at any time; requests of 0, 2, 7, 9 bytes, blocks of 4, limit 8; 16-bit counter cut to 4 bits | types, `AttemptsBounded`, `RetransmissionIsCurrent`, `Watched`, `SilenceIsReported`, `SilentDeviceReleasesEntry`, and that the converter implements `Session` |
| `transfer` | one request of each kind, three blocks, lossy, one restart of the device | `ConfirmedIsWritten`, `FinishAfterAllData`, `AckedIsStored`, `QuietIdle`, `NeverBadCrc`, `AcceptedEnds` |
| `server` | two applications, two devices, frames all hear, one lost connection | `NoDanglingPointer`, `Accounted`, and that the objects implement `Lifetimes` |
| `server_live` | one application, one device | `UnlistedIsDestroyed` |
| `parser` | two messages, one of them overdue, two packets, from start to exit | `OrderlyExit`, `DestroyedUseIsLate`, `FollowsPipes`, `PipesDeliver`, `StopEndsWait` |
| `wire` | requests of 1, 46, 47, 89, 90, 253, 512 bytes, replies of 1 to 1024, device blocks of 37, 46 and 217 | `FramesAreAcknowledged`, `ReadsWithinFrame`, `RequestArrives`, `ReplyArrives`, `EveryRequestIsAnswered` |

Six more runs find a statement of a document, a log line or a message violated; section 6.

**Bounds.** Three blocks, the last one short, have a first, a middle and a last one, and an
end where offset, counter and size meet. Three attempts leave one between the first and
the last. In `transfer` the paths hold 12 items. Without a restart never more than 11
are on one of them (found by checking the length), so the bound loses nothing; a device that
restarts can put more on the air, and what exceeds the bound is then lost, which `Lose` could have done
as well. The runs that show a violation need short paths only.
`U16 = 16` in `converter` makes offsets wrap within the frames tried; in `transfer` offsets do
not come near the bound, as in the code, where data ends at 515. `MaxCounter` stops
frames once a refused request's counter has run away; the proofs do without it.
In `server` two objects suffice for the pairs that matter (a finished one and its
successor, two children of a socket, two devices hearing one frame). That run
uses the symmetry of applications and devices, and checks invariants and a refinement, no liveness.
In `parser` two packets let one be in the queue while the other is being put into it or is posted;
of two messages one is filtered. Once raced, an item that was taken may stay in its queue and come again,
as long as the events posted stay below `MaxFrames + MaxPackets`.
In `wire` the sizes are those at which a packet is filled, a package exactly fills
its blocks (89 + 3 = 2 · 46), one byte is left over, an offset passes 255, and the limit is reached;
contents with all bits set meet contents that run through the values of a byte, and
one reply contains "overdue". Of another reply one frame does, but only with blocks of 37, which put it at offset 111.

**Conditions.** In `transfer`, `ConfirmedIsWritten` and `FinishAfterAllData` are claimed until the device restarts,
because a restart clears its buffer and the converter cannot know; `AcceptedEnds` likewise, because a device
that lost its buffer can keep a session going for ever (`transfer_repeats`).
`AckedIsStored`, `QuietIdle` and `NeverBadCrc` hold across the restart. `FollowsPipes` says nothing
once two operations have overlapped: that is what `parser_race` shows. `EveryRequestIsAnswered` excepts an
exchange that stopped at a frame with the bytes of "overdue" (`TakenForStatus`), because the parser drops it: it is the only
way to stop.

`AttemptsBounded` counts from one call of `sendCommand` to the next. How often the same block goes on the air in all has no
bound: an error answer gives it to `sendCommand` again, which `transfer_repeats` shows.

`SilenceIsReported` needs an idle period longer than all attempts together, which the shipped settings have (180 s against
3 · 30 s), and excepts a packet whose wait a repeated answer has prolonged (`prolonged`). In `converter` both timers are short, with the
idle period above three answer periods.

`QuietIdle` needs the idle period to exceed
(RetryCount² + RetryCount − 1) · AnswerTimeout: a create request repeated RetryCount times is
answered as often, each answer puts the first block on the air, and each late block
answer restarts only the wait timer. `transfer` runs with 12 and three attempts,
one above the bound. Nothing in the code enforces it, and the shipped settings do not meet it: their ratio is 6, the bound 11.
The bound is exact: with one large request, nothing lost and an answer period of 2, TLC finds `QuietIdle` violated at an idle
period of 22 and not at 23. At the shipped ratio, 12 and 2, it finds the idle timer due with the wait running and attempts left. What holds at
that ratio is `SilenceIsReported`, which is proved of `Transfer` as well (`ConverterHolds`).

`AcceptedEnds` needs `MaxRepeats`, too: a device that repeated a frame of its reply for ever would restart both timers
each time, and the session would go on as long as the device does.

**Fairness.** `Tick` and the two timeouts in `Converter`, `Timer` in `Transfer`: time passes
and the event loop serves due timers. Network and device are asked for nothing. In
`WebApiServer` the event loop goes on serving posted events, and the inner loop of `webSocketClosed` ends
(strong fairness, because the main thread is busy again and again); timers and clients
owe nothing. In `ParserThread` both threads run: a step of the main thread that is
possible (`MainStep`: start, end of an enqueue, a posted event) and a step of the parser
(`ThreadStep`) come in the end; messages, packets, signals and the destructor's timer owe nothing.
`Wire` has safety properties only. Deadlock is not checked where requests are bounded and the
system may come to rest; in `converter`, where it never does, it is.

## 4. The proofs

### ConverterProofs

For all sizes, periods, retries and frames, from `ConstantsAssumption` alone (settings positive,
markers distinct, frames typed). The lemmas about steps speak of a converter to which any frame may come at any time
(`Step`), of which `Next` and the moves of `Transfer` are cases, so that both use them:

* `TypeCorrect`: `Spec => []TypeOK`, the induction every other proof rests on. Lemmas type
  what each operator builds (`DataBlockType` shows that no block has a negative
  length, `StoredType` that a growing buffer stays a byte array), then one step per action.
* `RetriesBounded`: from one call of `sendCommand` to the next. `AttemptsBounded` is not inductive, because `errorCounter` and
  `attempts` could drift apart. The strengthening `AttemptsCounted` says that in an accepted
  session `attempts` never exceeds `errorCounter + 1` and `errorCounter` stays
  below `RetryCount`; only `sendCommand` resets the one, and the other never falls
  without it.
* `RetransmitsCurrent`: strengthened by what a buffer under transfer looks like when the
  last packet is neither a block nor the check (`Current`).
* `EntriesWatched`: one step per slot; the slots that stop a timer keep the other.
* `SilenceReported`: `Spec => []SilenceIsReported`. The strengthening `WaitCounted` says that, unless prolonged, what has passed
  of the idle period with what is left of the wait is at most one answer period for each attempt; `AttemptsCounted` bounds
  those. This is the theorem about the two timers that applies to the shipped settings.
* `ImplementsSession`: `Spec => FollowsContract`, of the converter that stands in the list: its removal and its destruction
  are one step in `Converter`, so that the theorem says nothing about what an object answers after it was removed. The refinement maps the entry and
  `alreadySent` to `status` and the emitted signal to `answer`; each action maps to an action of
  `Session` or a stutter.

### TransferProofs

For any requests, sizes, lengths of the paths, restarts and sessions, from `ConstantsAssumption` and `TransferAssumption`:

* `TransferTypeCorrect`: `TransferSpec => []TransferTypeOK`. The types alone are not inductive: that the device's place in its
  reply stays within the reply depends on the acknowledgements under way, and those on the frames. `Typed` adds that an
  acknowledgement and a block of the reply lie within the reply (`Carries`, `Within`), that a packet with bytes names the request
  they are of (`Carries`), and that a device with a reply to send knows whose it is (`ReplyTyped`).
* `ConverterHolds`: `AttemptsBounded`, `RetransmissionIsCurrent`, `Watched` and `SilenceIsReported` hold of the composition, since
  every move of it is a `Step` of the converter or a stutter.

### DeliveryProofs

What the converter confirms, the device has written: `FirstSessionConfirms` is `TransferSpec => []ConfirmedIsWritten`, and
`FirstSessionChecks` is `TransferSpec => FinishAfterAllData`, for every size of request and block, every number of
repetitions, and whatever the network loses. Both assume `FirstSession`: one request is made, and no offset in it wraps around
(in the code 512 + 3 < 65536). The run `transfer` is an instance of it. With a second request
`FinishAfterAllData` does not hold, as `transfer_gap` shows, and after a restart of the device neither is claimed.

The invariant, `Delivery`, holds until the device restarts. Its parts say of every item that may still act what it may rely on:

* A block at offset `o`, on the path or in `lastLp`, stands at a multiple of the block size, has the length that belongs there, and
  is sent only when everything before it is written (`PacketsSound`). The check is sent only when everything is.
* An answer to a block names bytes that are written (`FramesSound`), so that counting them is sound. Because positions are multiples of the
  block size, a block repeated late overwrites bytes with the same bytes and never ends inside another (`PositionsApart`).
* A late `DEV_CREATE_BUFFER_CMD` would clear the buffer. None follows a block on a path (`BlocksLater`): the converter
  stops repeating it before the first block goes out, and the paths keep the order. Once a block counts, no such
  packet and no answer to one is under way (`Created`). This is where the proof needs FIFO paths.
* Once the buffer was handed over, `delivered` remembers it, and what happens to the buffer no longer matters (`Written`).

`Grows` names what a step may not undo, so that for each action only the items it changes need a proof. TLC has
checked `Delivery` on the instance of `transfer` and on one of five blocks and four attempts.

### ReplyProofs

The reply's direction: `AckedBytesAreStored` is `TransferSpec => []AckedIsStored` and `RepliesAreNeverBad` is
`TransferSpec => []NeverBadCrc`, for every size of reply and of the device's blocks, any losses and repetitions, and any
restarts of the device. Both assume `OneSession`: with two, TLC finds a reply with a bad CRC, as the finish frame of the earlier
session's reply reaches the converter of the later one.

The invariant, `ReplySound`, is `Delivery` with the roles exchanged, and without its condition about restarts:

* What the device counts as received, what an acknowledgement under way or in `lastLp` tells it (`AcksSound`) and
  what a frame of the reply takes for granted (`ReplyFramesSound`) are bytes that lie in `recvDataBuffer` (`Held`).
* A frame that creates the receive buffer clears it. None follows a frame with bytes of the reply on the path, so that
  the buffer is not cleared once bytes count.
* The device replies once: a request can be handed over to it again only by one of the packets a session begins
  with, and these precede all others on the path (`OpeningsFirst`). `DeviceReplySound` ties the phase of the device to it.

### QuietProofs

`IdlePeriodIsQuiet` is `TransferSpec => []QuietIdle`: the idle timer never ends a session whose packet still awaits its
answer. It assumes `FirstSession` and `LongIdle`, that the idle period exceeds (RetryCount² + RetryCount − 1) · AnswerTimeout;
`transfer` is an instance of both, one tick above the bound. It says which settings would be enough, not that the shipped ones are:
those do not meet `LongIdle` (180 s against more than 330 s), and of them `SilenceReported` holds instead. Restarts of the device are allowed. The idle
timer restarts only with a new packet, the wait timer with every late answer too, so the proof
has to count the answers that can still come. The strengthening, `Quiet`, has three parts:

* `Road`: everything under way is in its place. Answers and packets come in the order of the stages of a transfer, and each
  belongs to the block where the converter stands or to the one before (`Placed`). After a device lost its buffer all blocks fail.
* `Budget`: the answers at the present offset, those that create requests under way may still lead to, and the
  attempts left are RetryCount² at most together, so that no more than RetryCount² − 1 late ones remain when the converter moves on.
* `Patience`: the time since the last new packet, with what is left of the wait, is at most one answer period for every
  attempt made and every late answer heard (`Allowance`).

### ServerProofs

For any number of applications, devices, converters, frames and lost connections, from `ServerAssumption`:

* `TypeCorrect`: `Spec => []TypeOK`, which includes that a connected application's socket exists. That part is not
  inductive: the service of a deletion posted long ago must not destroy a socket that is a client's. `SocketsLeave`
  adds that a socket whose deletion is posted still exists and has left `m_clients`; `Base` is both.
* `PointersHold`: `Spec => []NoDanglingPointer`, inductive together with `Base`. Each slot either ends a session,
  whichever object stands under the DevEUI, or only sets timers (`SlotsEndOrSet`); a deletion takes the objects
  out of the list together with their sockets' children (`ServeDeleteRemoves`).
* `NothingForgotten`: `Spec => []Accounted`, inductive with the two above. What dooms an object is an event in
  the queue, so the lemmas are about queues: more events doom no fewer (`ExtendsDooms`), what leaves with a
  destroyed object or a served frame dooms no other (`LeaveDooms`), and `idleDisconnectTimeout` dooms the very
  object it takes out (`IdleDisconnectTimeoutTakes`), which `NoDanglingPointer` identifies by its DevEUI.

* `ImplementsLifetimes`: `Spec => FollowsLifetimes`, with one invariant more, `KnownDeletions`: a Converter's deletion
  is posted only after its birth, so that no new object is about to die. A request begins a session:
  a Converter of the device that is not doomed would be in the list (`Accounted`), under the very DevEUI that the request has not
  found there (`NoDanglingPointer`). Whatever is posted ends the sessions of exactly those it dooms (`SessionsEnd`): the one in
  the list at the end of a session, all the children when an application leaves. What is destroyed was doomed (`ServeDeleteRemoves`).

This includes the runs of `server_twice`, in which one converter ends another's session: even then no pointer
dangles, nothing is left behind, and a session that another's converter ends has ended.

### ParserProofs

For any number of messages and packets, from `ParserAssumption`, races included:

* `TypeCorrect`: `Spec => []TypeOK`. Strengthened by `AddsAnItem`: while an append is in progress there is
  an item for it to put. It includes that no overdue message is ever posted as a frame.
* `ThreadEndsFirst`: `Spec => []OrderlyExit`. The strengthening follows the chain of events from its start: a
  thread's `finished()` is posted only by a thread that has ended, and only that event lets the destructor go on
  without having been impatient.
* `DestroyedLate`: `Spec => []DestroyedUseIsLate`, the other side of `parser_shutdown`: what that run shows happens only while the
  destructor waits and the parser is deleted, or after a wait that was cut short. `StopsLate` says why: only the
  signal that ends `a.exec()` clears `runFlag`, only then the loop is left, and only then the parser can be deleted.
* `ImplementsPipes`: `Spec => FollowsPipes`. The mapping filters two queues (`OnlyIn`), so the
  first lemmas are about the filter: it exists and is unique as a function over the places of the sequence, and it
  commutes with an append and with taking the head. They are inductions over numbers, which the library's theorem cannot be
  used for here; `NumbersOneByOne` gives the induction for a set of numbers, from the library's fact that `<` is
  well-founded. `PipeInv` adds to the types that no append is unfinished when the main thread has left its loops. Each step of
  either thread then maps to a step of each pipe or to a stutter, and a step that races breaks both.

### WireProofs

For all requests, replies, block sizes and ports, from `WireAssumption`, `ConstantsAssumption` and `TableIsCrc32`:

* `CrcCorrect`: `crc32_fsl` is the CRC-32. One round of the loop over the table makes of any word what eight bit steps make of it
  (`CrcStepIsOctetStep`): bit steps are linear over exclusive or (`BitStepLinear`), eight of them only shift what stands above the
  lowest octet (`EightBitStepsShift`), and of an octet they make the table's entry (`TableIsCrc32`, the one fact the proof
  leaves to TLC's evaluation). Both loops therefore take the same steps, over bytes of any number.
* `WireInductive`: `WireSpec => []WireInv`. None of the properties is inductive: that the right bytes arrive depends on all
  that both sides did before. But as nothing is lost, one packet or one answer is on its way at any time, and `WireInv` says at which
  stage that is, with the bytes on the air and in both buffers: `SmallOnAir`, `CreateOnAir`, `CreateAnswered`, `BlockOnAir`,
  `BlockAnswered`, `CheckOnAir` while the request goes out (the device's buffer holds its first `pos` bytes, `Filled`), `FirstOnAir`,
  `FrameOnAir` and `AckOnAir` while the reply comes in (`recvDataBuffer` holds its blocks up to `k`, `Held`), and `Fresh`, `Told` and `Stalled`.
  One lemma per stage (`FreshStep` to `ToldStep`) shows that each step leads to the next one.
  They rest on lemmas that what one side writes the other reads: `ReadTwo` and `ReadFour` for the fields, `MessageRead` for packets and
  frames, `CommandRead` for the code and its mask, and for each kind of frame what `dataParser` makes of it (`CreateAnswerRead` to
  `FinishRead`). `BlocksCover` has the arithmetic of the reply's blocks, `HeldStored` and `HeldAll` that storing them restores it.
* `AlwaysAcknowledged`, `AlwaysReadsWithinFrame`, `AlwaysRequestArrives`, `AlwaysReplyArrives` and `AlwaysAnswered` follow from it: they are the
  five invariants of the run `wire`.

`AlwaysReadsWithinFrame` covers the two bytes of the code, the result, the third byte of a package, offsets and sizes, and the four
bytes of the CRC. The exception in the last of them is about the frame at which the exchange stopped, not about replies that contain "overdue": a reply without these bytes may stall too, as
the offset of a block stands before its data, and one whose "overdue" lies across two frames goes through.
TLC has checked `WireInv` on the instance of `wire`.

### Only model-checked

The liveness properties (fairness and ENABLED are beyond the prover): `AcceptedEnds`, `SilentDeviceReleasesEntry`,
`UnlistedIsDestroyed`, `PipesDeliver`, `StopEndsWait`. That the 256 entries of the table are those of the polynomial is
evaluated, not proved. Of `Transfer`, a second session of the same converter's device is proved about only as far as
types, attempts and timers go (`ConverterHolds`): what `DeliveryProofs`, `ReplyProofs` and `QuietProofs` show is about one session, and
in `DeliveryProofs` up to the device's restart.

## 5. Not modelled

* Settings files: I/O at construction. Their values are constants. A value of zero or less is excluded by assumption although
  converter.cpp:25-38 takes it unchecked; a `RetryCount` below 1 would act as 1, and a negative period would be one
  `QTimer` refuses, that is, no timer at all.
* SSL setup and `listen()`, logging, colours, the command line, resource files. `genCid` and `closeWebSocket` are never called.
* `qDeleteAll(m_clients)` in `~WebApiServer` (webapiserver.cpp:78): whether a deleted socket emits `disconnected` and so changes
  the list under the iteration is decided inside Qt.
* The handshake in `onConnected`, the error reports of the websocket. A packet written while the
  connection is down is lost (net868client.cpp:149), which `Lose` stands for.
* A signal before `a.exec()` is forgotten by Qt and changes nothing; `main = "start"` has no action for it.

## 6. Where code and documents disagree

Found by a run:

| run | property | in short |
|---|---|---|
| `transfer_timeout` | `TimeoutMeansAllAttempts` | "All attempts are exhausted" after one attempt: `errorCounter` is not reset for the receiving half |
| `transfer_gap` | `FinishAfterAllData` | a late answer of an abandoned session confirms a lost block of the next |
| `transfer_repeats` | `RepeatsWithinLimit` | error answers repeat a block without limit |
| `server_twice` | `ListedConverterAnswers` | a finished converter answers again and ends the wrong session or uses a null pointer |
| `parser_race` | `QueuedIsOnItsWay` | "Data sent to device..." of a packet that an unlocked queue has lost |
| `parser_shutdown` | `CleanlyExits` | the destructor's wait ends early, or serves a request after the parser's deletion: a destroyed object is used |

The counterexample of `transfer_gap` needs a second request for a device whose first client has left; within one session the
property holds, as `transfer` shows.

Visible in single lines, or met while modelling, without a run:

* Frames name no session (converter.cpp:132): the reply to an abandoned request answers the next one for the device.
* `finishSendPackAnswer` ignores the result code (converter.cpp:231): "Send package OK!" is logged whatever the device found.
* With the idle period six times the answer period, as the defaults have it, a session whose packet still awaits its answer
  may be dropped in silence, when late and repeated answers have prolonged the wait (converter.cpp:200).
* A refused request leaves its converter in the list (webapiserver.cpp:120, converter.cpp:90, 98), so that a valid request
  is answered "Data already sent." for the idle period although nothing was sent.
* `IdleTimeout`, documented as the time before an idle client is disconnected, disconnects nobody: the call of
  `closeWebSocket` is commented out (webapiserver.cpp:228).
* The answer 0xC405 (converter.cpp:291-300) has no result byte, which the protocol specification (page 2) puts into every answer.
* The interface number is sent as 0 whatever was asked for (converter.cpp:119, 380).
* Answers 0xC900 of the device reach no slot, so that a small request is repeated until the meter replies or the attempts are used up.
* A frame that contains the bytes of "overdue" is dropped as a status message (packparser.cpp:32). They may be in the reply, or come about by
  a block at offset 111, an "o", whose data begin with "verdue": the run `wire` has both.

## 7. Plan

Done: all modules above, and proofs of every safety property the passing runs check. What could follow:

1. Several sessions in `Transfer`: which of the three one-session results hold again once the paths have run empty between
   two requests.
2. Delivery after a restart of the device, as far as it goes: a device without a buffer answers every block with an error, so
   that `fileSizeCounter` stands still from the first of these answers on.
3. A map from `Transfer` to `Wire`: that the abstract frames of the one are the bytes of the other also when packets are lost or repeated.
