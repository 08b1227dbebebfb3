------------------------------- MODULE Transfer -------------------------------
(***************************************************************************)
(* A Converter at work: application requests on one side, the path through *)
(* the Net868 server and the LoRa network on the other, the device behind  *)
(* it.                                                                     *)
(*                                                                         *)
(* The path down is one FIFO: the queue of PackParser, the socket to the   *)
(* Net868 server and the server's own queue follow one another, and what   *)
(* is lost in any of them is lost from the whole.  The same goes for the   *)
(* path up.  The device is not part of the repository.  It is modelled as  *)
(* the protocol specification beside the sources describes it: it answers  *)
(* every command, writes blocks at the offset they name, hands a finished  *)
(* buffer to its serial port, and sends the reply of the meter back in one *)
(* frame or by the same protocol with the roles exchanged.                 *)
(***************************************************************************)
EXTENDS Converter, FiniteSets

CONSTANTS
    MaxSessions,    \* bound on the requests made, of those in Requests
    Replies,        \* how the meter may reply: "none", "small", "large"
    ReplySize,      \* bytes of a large reply
    ReplyBlock,     \* bytes the device puts into a frame
    DeviceCapacity, \* the largest buffer the device creates
    Lossy,          \* whether frames and packets may be lost
    MaxInFlight,    \* bound on each of the two paths; what exceeds it is lost
    MaxRepeats,     \* bound on the device's repetitions of one frame
    MaxReboots      \* bound on restarts of the device

VARIABLES
    requestsLeft,   \* requests not yet made
    current,        \* history: the request of the last session
    downlink,       \* packets on their way to the device
    uplink,         \* frames on their way to the converter
    devBuffer,      \* the device's receive buffer, <<>> where there is none
    devReply,       \* the reply the device is sending
    devSent,        \* how often it has sent the present frame of it
    reboots,        \* restarts of the device so far
    delivered,      \* history: requests handed to the serial port
    transmissions   \* history: how often in a row the same packet was sent

device == <<devBuffer, devReply, devSent, reboots, delivered>>

allVars == <<vars, requestsLeft, current, downlink, uplink, device, transmissions>>

ASSUME TransferAssumption ==
    /\ Words = Requests
    /\ Replies \subseteq {"none", "small", "large"}
    /\ {MaxSessions, ReplySize, ReplyBlock, DeviceCapacity, MaxInFlight}
           \subseteq Nat \ {0}
    /\ {MaxRepeats, MaxReboots} \subseteq Nat
    /\ Lossy \in BOOLEAN

Phases == {"idle", "small", "create", "data", "finish"}

Reply(phase, req, off) == [phase |-> phase, req |-> req, off |-> off]

NoReply == Reply("idle", NoRequest, 0)

TransferTypeOK ==
    /\ TypeOK
    /\ requestsLeft \subseteq Requests
    /\ current \in Requests \cup {NoRequest}
    /\ downlink \in Seq(Packs) /\ Len(downlink) <= MaxInFlight
    /\ uplink \in Seq(FrameType) /\ Len(uplink) <= MaxInFlight
    /\ devBuffer \in Seq(Requests \cup {Junk})
    /\ devReply \in [phase : Phases, req : Requests \cup {NoRequest},
                     off : 0 .. ReplySize]
    /\ devSent \in 0 .. MaxRepeats + 1
    /\ reboots \in 0 .. MaxReboots
    /\ delivered \subseteq Requests
    /\ transmissions \in 0 .. RetryCount + 2

TransferInit ==
    /\ Init
    /\ requestsLeft = Requests
    /\ current = NoRequest
    /\ downlink = <<>>
    /\ uplink = <<>>
    /\ devBuffer = <<>>
    /\ devReply = NoReply
    /\ devSent = 0
    /\ reboots = 0
    /\ delivered = {}
    /\ transmissions = 0

-----------------------------------------------------------------------------
(* The converter's side.                                                   *)

\* Put an item on a path, where there is room for it.
Sent(path, item) == IF Len(path) < MaxInFlight THEN Append(path, item) ELSE path

\* Net868Client::addDataToQuery takes whatever the step of the converter
\* emitted.  Equal packets in a row are counted up to the first excess.
Transmit ==
    IF sendLoraPack' = NoPack
    THEN UNCHANGED <<downlink, transmissions>>
    ELSE /\ downlink' = Sent(downlink, sendLoraPack')
         /\ transmissions' =
                IF sendLoraPack' # lastLp THEN 1
                ELSE IF transmissions > RetryCount + 1 THEN transmissions
                ELSE transmissions + 1

MakeRequest ==
    \E r \in requestsLeft :
        /\ Cardinality(Requests \ requestsLeft) < MaxSessions
        /\ AcceptedRequest(r) \/ RefusedRequest(r)
        /\ requestsLeft' = requestsLeft \ {r}
        /\ current' = r
        /\ Transmit
        /\ UNCHANGED <<uplink, device>>

ClientLeaves ==
    /\ ClientGone
    /\ Transmit
    /\ UNCHANGED <<requestsLeft, current, uplink, device>>

\* A frame that finds no converter in the list has nobody to go to.
ReceiveFrame ==
    /\ uplink # <<>>
    /\ uplink' = Tail(uplink)
    /\ \/ Dispatch(Head(uplink))
       \/ /\ ~alive
          /\ sendLoraPack' = NoPack
          /\ sendAnswer' = "none"
          /\ UNCHANGED object
    /\ Transmit
    /\ UNCHANGED <<requestsLeft, current, device>>

Timer ==
    /\ Tick \/ AnswerTumeout \/ IdleTimeoutFires
    /\ Transmit
    /\ UNCHANGED <<requestsLeft, current, uplink, device>>

-----------------------------------------------------------------------------
(* The network.                                                            *)

\* The converter and its two signals while something else happens.
ConverterIdle ==
    /\ sendLoraPack' = NoPack
    /\ sendAnswer' = "none"
    /\ UNCHANGED <<object, requestsLeft, current, transmissions>>

Lose ==
    /\ Lossy
    /\ ConverterIdle
    /\ UNCHANGED device
    /\ \/ downlink # <<>> /\ downlink' = Tail(downlink) /\ UNCHANGED uplink
       \/ uplink # <<>> /\ uplink' = Tail(uplink) /\ UNCHANGED downlink

-----------------------------------------------------------------------------
(* The device.                                                             *)

DeviceTakes(cmd) ==
    /\ downlink # <<>>
    /\ Head(downlink).cmd = cmd
    /\ downlink' = Tail(downlink)
    /\ ConverterIdle
    /\ UNCHANGED reboots

DeviceAnswers(cmd, rc, off, len) ==
    uplink' = Sent(uplink, Frame(cmd, rc, off, len, <<>>))

\* The request goes to the serial port.  The meter may reply, unless the
\* device is still busy with an earlier reply.
Deliver(r) ==
    /\ delivered' = delivered \cup {r}
    /\ \/ /\ "none" \in Replies \/ devReply # NoReply
          /\ UNCHANGED <<devReply, devSent>>
       \/ /\ devReply = NoReply
          /\ \E kind \in Replies \ {"none"} :
                 devReply' = Reply(IF kind = "small" THEN "small" ELSE "create", r, 0)
          /\ devSent' = 0

DeviceWritesPackage ==
    /\ DeviceTakes("SEND_PACKAGE_ANSWER_CMD")
    /\ Deliver(Head(downlink).req)
    /\ UNCHANGED <<uplink, devBuffer>>     \* 0xC900 answers reach no slot

DeviceCreatesBuffer ==
    LET pack == Head(downlink)
    IN  /\ DeviceTakes("DEV_CREATE_BUFFER_CMD")
        /\ IF pack.len <= DeviceCapacity
           THEN /\ devBuffer' = [i \in 1 .. pack.len |-> Junk]
                /\ DeviceAnswers("DEV_CREATE_BUFFER_CMD", 0, 0, pack.len)
           ELSE /\ DeviceAnswers("DEV_CREATE_BUFFER_CMD", 1, 0, pack.len)
                /\ UNCHANGED devBuffer
        /\ UNCHANGED <<devReply, devSent, delivered>>

\* Errors of the protocol: 5 without a buffer, 4 outside of it.
DeviceWritesBlock ==
    LET pack == Head(downlink)
        fits == pack.off + pack.len <= Len(devBuffer)
        rc   == IF devBuffer = <<>> THEN 5 ELSE IF fits THEN 0 ELSE 4
    IN  /\ DeviceTakes("SEND_DATA_BLOCK_CMD")
        /\ devBuffer' = IF rc # 0 THEN devBuffer
                        ELSE [i \in 1 .. Len(devBuffer) |->
                                 IF pack.off < i /\ i <= pack.off + pack.len
                                 THEN pack.req ELSE devBuffer[i]]
        /\ DeviceAnswers("SEND_DATA_BLOCK_CMD", rc, pack.off,
                         IF rc = 0 THEN pack.len ELSE 0)
        /\ UNCHANGED <<devReply, devSent, delivered>>

\* What the buffer holds once all of a request's bytes are in it.
Complete(buffer, r, size) == buffer = [i \in 1 .. size |-> r]

\* The buffer is checked against size and CRC, and released with the data.
DeviceFinishes ==
    LET pack == Head(downlink)
    IN  /\ DeviceTakes("FINISH_SEND_DATA_CMD")
        /\ IF devBuffer # <<>> /\ Complete(devBuffer, pack.req, pack.len)
           THEN /\ devBuffer' = <<>>
                /\ Deliver(pack.req)
                /\ DeviceAnswers("FINISH_SEND_DATA_CMD", 0, 0, 0)
           ELSE /\ DeviceAnswers("FINISH_SEND_DATA_CMD",
                                 IF devBuffer = <<>> THEN 5 ELSE 3, 0, 0)
                /\ UNCHANGED <<devBuffer, devReply, devSent, delivered>>

\* The reply of the meter, frame by frame; the present frame may be repeated.
ReplyBytes(n) == [i \in 1 .. n |-> devReply.req]

ReplyFrame ==
    LET left == ReplySize - devReply.off
        len  == IF left < ReplyBlock THEN left ELSE ReplyBlock
    IN  CASE devReply.phase = "small"  -> Frame("RECEIVE_PACKAGE_CMD", 0, 0, 0, ReplyBytes(1))
          [] devReply.phase = "create" -> Frame("DEV_CREATE_BUFFER", 0, 0, ReplySize, <<>>)
          [] devReply.phase = "data"   -> Frame("DEV_RECEIVE_DATA_BLOCK_CMD", 0,
                                                devReply.off, 0, ReplyBytes(len))
          [] devReply.phase = "finish" -> Frame("DEV_FINISH_RECV_DATA_CMD", 0, 0,
                                                ReplySize, ReplyBytes(ReplySize))

DeviceReplies ==
    /\ devReply # NoReply
    /\ devSent <= MaxRepeats
    /\ uplink' = Sent(uplink, ReplyFrame)
    /\ IF devReply.phase = "small"
       THEN devReply' = NoReply /\ devSent' = 0
       ELSE devSent' = devSent + 1 /\ UNCHANGED devReply
    /\ ConverterIdle
    /\ UNCHANGED <<downlink, devBuffer, reboots, delivered>>

\* The acknowledgement of the frame the device is waiting with moves it on;
\* any other one is ignored.
ReplyAfter(ack) ==
    CASE ack.cmd = "APP_CREATE_BUFFER" /\ devReply.phase = "create"
             -> Reply("data", devReply.req, 0)
      [] ack.cmd = "APP_RECEIVE_DATA_BLOCK_CMD" /\ devReply.phase = "data"
         /\ ack.off = devReply.off
             -> Reply(IF ack.off + ack.len = ReplySize THEN "finish" ELSE "data",
                      devReply.req, ack.off + ack.len)
      [] ack.cmd = "APP_FINISH_RECV_DATA_CMD" /\ devReply.phase = "finish"
             -> NoReply
      [] OTHER -> devReply

DeviceTakesAck ==
    /\ \E cmd \in {"APP_CREATE_BUFFER", "APP_RECEIVE_DATA_BLOCK_CMD",
                   "APP_FINISH_RECV_DATA_CMD"} : DeviceTakes(cmd)
    /\ devReply' = ReplyAfter(Head(downlink))
    /\ devSent' = IF devReply' = devReply THEN devSent ELSE 0
    /\ UNCHANGED <<uplink, devBuffer, delivered>>

DeviceReboots ==
    /\ reboots < MaxReboots
    /\ reboots' = reboots + 1
    /\ devBuffer' = <<>>
    /\ devReply' = NoReply
    /\ devSent' = 0
    /\ ConverterIdle
    /\ UNCHANGED <<downlink, uplink, delivered>>

-----------------------------------------------------------------------------
DeviceStep ==
    \/ DeviceWritesPackage
    \/ DeviceCreatesBuffer
    \/ DeviceWritesBlock
    \/ DeviceFinishes
    \/ DeviceReplies
    \/ DeviceTakesAck

TransferNext ==
    \/ MakeRequest
    \/ ClientLeaves
    \/ ReceiveFrame
    \/ Timer
    \/ Lose
    \/ DeviceStep
    \/ DeviceReboots

TransferSpec == TransferInit /\ [][TransferNext]_allVars

\* Time passes and the event loop serves due timers.  Nothing is asked of the
\* network and the device.
TransferFairness == WF_allVars(Timer)

FairTransferSpec == TransferSpec /\ TransferFairness

-----------------------------------------------------------------------------
(* Properties.                                                             *)

HoldsPrefix(buffer, r, n) ==
    n <= Len(buffer) /\ \A i \in 1 .. n : buffer[i] = r

\* fileSizeCounter never runs ahead of the device, whatever was lost, sent
\* twice or answered late: the bytes it counts are in the device's buffer,
\* or the device has handed the whole request over already.  A restart of the
\* device clears its buffer, and the converter has no way to know.
ConfirmedIsWritten ==
    LET r == sendDataBuffer.req
    IN  reboots = 0 /\ r # NoRequest =>
            r \in delivered \/ HoldsPrefix(devBuffer, r, fileSizeCounter)

\* The check of the buffer is asked for only when every byte of the request
\* is in it: no gap and no block of an earlier session.
FinishAfterAllData ==
    [][reboots = 0 /\ sendLoraPack'.cmd = "FINISH_SEND_DATA_CMD" =>
           LET r == sendLoraPack'.req
           IN  r \in delivered \/ Complete(devBuffer, r, sendLoraPack'.len)]_allVars

\* What the device counts as received by the converter is in recvDataBuffer,
\* so a reply is never reported with a bad CRC, however often the device
\* repeats a frame and the converter its acknowledgement.
AckedIsStored ==
    alive /\ devReply.phase \in {"data", "finish"} =>
        /\ Len(recvDataBuffer) = ReplySize
        /\ HoldsPrefix(recvDataBuffer, devReply.req, devReply.off)

\* The idle timer never closes a session while a packet awaits its answer:
\* silence of the device is reported to the application as a timeout.  Late
\* answers to repeated packets restart only the wait timer, and a create
\* request repeated RetryCount times can put RetryCount * RetryCount copies
\* of the first block on the air, so it takes
\* IdleTimeout > (RetryCount * RetryCount + RetryCount - 1) * AnswerTimeout.
\* Nothing in the code asks for that: with its default settings, three attempts
\* and six answer periods, the property does not hold.
QuietIdle == alreadySent /\ idleTimer = 0 => waitTimer = Stopped

\* No reply of the meter is ever reported with a bad CRC: neither repeated
\* frames nor a device that restarts in the middle of its reply can make the
\* converter close the buffer over a gap.
NeverBadCrc == [][sendAnswer' # "badCrc"]_allVars

\* Every accepted session comes to an end, and the device with it is free
\* for the next request; only a device that restarts can keep a session going
\* for ever, by answering every block with an error.
AcceptedEnds == alreadySent ~> (~alive \/ reboots > 0)

\* RetryCount is the number of repetitions of a request.
RepeatsWithinLimit == transmissions <= RetryCount + 1

=============================================================================
