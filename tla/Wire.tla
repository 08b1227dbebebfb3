--------------------------------- MODULE Wire ---------------------------------
(***************************************************************************)
(* The bytes.  A Converter, exactly as module Converter has it, whose      *)
(* packets are encoded as converter.cpp encodes them and whose frames are  *)
(* decoded as packparser.cpp decodes them; behind it a device that reads   *)
(* and writes bytes as the protocol specification beside the sources says, *)
(* with a CRC-32 of its own.  Both use the real block size, data limit and *)
(* 16-bit fields.                                                          *)
(*                                                                         *)
(* Loss, repetition and timeouts are the subject of Transfer: here nothing *)
(* is lost and every answer is there before a timer is due.                *)
(***************************************************************************)
EXTENDS Converter, Crc32

CONSTANTS
    RequestBytes,   \* the data bytes of each request
    ReplyBytes,     \* the replies the meter may give, as byte strings
    DeviceBlocks,   \* how many data bytes the device may put into a frame
    Port            \* the port of the requests, 4 in processTextMessage

VARIABLES
    request,        \* history: the request made
    downlink,       \* the packet on its way to the device, or <<>>
    uplink,         \* the frames on their way to the converter
    devBuffer,      \* the device's receive buffer
    delivered,      \* what the device has handed to its serial port
    reply,          \* the bytes the device is sending back, or <<>>
    frameSize,      \* how many bytes of it the device puts into a frame
    replyFrames,    \* the frames of it that are still to be sent
    told            \* what the application got

device == <<devBuffer, delivered, reply, frameSize, replyFrames>>

wireVars == <<vars, request, downlink, uplink, device, told>>

ASSUME WireAssumption ==
    /\ RequestBytes \in [Requests -> Seq(Byte)]
    /\ DataSize = [r \in Requests |-> Len(RequestBytes[r])]
    /\ ReplyBytes \subseteq Seq(Byte) \ {<<>>}
    /\ U16 = 65536
    /\ MaxData + HeaderSize < U16
    /\ \A r \in ReplyBytes : Len(r) + HeaderSize < U16
    /\ DeviceBlocks \subseteq Nat \ {0}
    /\ Port \in Byte

-----------------------------------------------------------------------------
(* Encoding, by the converter.                                             *)

\* append(n >> 8), append(n).
Two(n) == <<(n \div 256) % 256, n % 256>>

\* append(n >> 24), append(n >> 16), append(n >> 8), append(n).
Four(word) ==
    LET octet(n) == OctetOf(ShiftRight(word, n) \cap 0 .. 7)
    IN  <<octet(24), octet(16), octet(8), octet(0)>>

Code(cmd) ==
    CASE cmd = "SEND_DATA_BLOCK_CMD"        -> \h8400
      [] cmd = "DEV_CREATE_BUFFER_CMD"      -> \h8401
      [] cmd = "FINISH_SEND_DATA_CMD"       -> \h8402
      [] cmd = "SEND_PACKAGE_ANSWER_CMD"    -> \h8900
      [] cmd = "RECEIVE_PACKAGE_CMD"        -> \h8901
      [] cmd = "DEV_RECEIVE_DATA_BLOCK_CMD" -> \h8403
      [] cmd = "DEV_CREATE_BUFFER"          -> \h8404
      [] cmd = "DEV_FINISH_RECV_DATA_CMD"   -> \h8405
      [] cmd = "APP_RECEIVE_DATA_BLOCK_CMD" -> \hC403
      [] cmd = "APP_CREATE_BUFFER"          -> \hC404
      [] cmd = "APP_FINISH_RECV_DATA_CMD"   -> \hC405

\* Faulty variant: the interface number is appended after the data.
PackageZeroLast(r) == Two(Code("SEND_PACKAGE_ANSWER_CMD")) \o RequestBytes[r] \o <<0>>

\* setDataPackage: a large request goes behind a header of its own.
Package(r) == Two(Code("SEND_PACKAGE_ANSWER_CMD")) \o <<0>> \o RequestBytes[r]

\* Faulty variant: the size is cut to a byte before it is shifted.
CheckSumShort(bytes) ==
    <<0, Len(bytes) % 256>> \o Four(crc32_fsl({}, bytes))

\* getCheckBuffer and the end of finishReceivedPackAnswer: size and CRC.
CheckSum(bytes) == Two(Len(bytes)) \o Four(crc32_fsl({}, bytes))

Body(pack) ==
    CASE pack.cmd = "SEND_PACKAGE_ANSWER_CMD" -> <<0>> \o RequestBytes[pack.req]
      [] pack.cmd = "DEV_CREATE_BUFFER_CMD"   -> <<Port>> \o Two(pack.len)
      [] pack.cmd = "SEND_DATA_BLOCK_CMD"     ->
             <<Port>> \o Two(pack.off)
             \o SubSeq(Package(pack.req), pack.off + 1, pack.off + pack.len)
      [] pack.cmd = "FINISH_SEND_DATA_CMD"    -> <<Port>> \o CheckSum(Package(pack.req))
      [] pack.cmd = "APP_CREATE_BUFFER"       -> <<0, Port>> \o Two(pack.len)
      [] pack.cmd = "APP_RECEIVE_DATA_BLOCK_CMD" ->
             <<0, Port>> \o Two(pack.off) \o Two(pack.len)
      [] pack.cmd = "APP_FINISH_RECV_DATA_CMD"   -> <<Port>> \o CheckSum(recvDataBuffer)

Encoded(pack) == IF pack = NoPack THEN <<>> ELSE Two(Code(pack.cmd)) \o Body(pack)

-----------------------------------------------------------------------------
(* Decoding, by the parser.                                                *)

\* What stands for a byte behind the end of a frame: no field that contains
\* it is a number of the protocol.
Outside == -65536

At(data, i) == IF i < Len(data) THEN data[i + 1] ELSE Outside

TwoAt(data, i) == 256 * At(data, i) + At(data, i + 1)

\* The word in the four bytes from i on, and none where they are not all there.
FourAt(data, i) ==
    IF i + 4 > Len(data) THEN {Outside}
    ELSE {n \in 0 .. 31 : n % 8 \in Bits(data[i + 4 - n \div 8])}

\* Faulty variant: a field taken one byte late.
FieldLate(data, i) == TwoAt(data, i + 1)

\* quint8(data.at(i)) << 8 | quint8(data.at(i + 1)).
Field(data, i) == TwoAt(data, i)

\* QByteArray::right.
Right(data, n) == SubSeq(data, Len(data) - n + 1, Len(data))

\* The uplink port and the payload, as onTextMessageReceived queues them.
Queued(frame) == <<2>> \o frame

OverdueBytes == <<111, 118, 101, 114, 100, 117, 101>>

\* arr.contains("overdue")
IsOverdue(frame) ==
    \E i \in 1 .. Len(frame) - 6 : SubSeq(frame, i, i + 6) = OverdueBytes

\* MASK_ANSWER makes an answer's code that of its command.
Command(data) ==
    LET unmasked(b) == IF (b \div 64) % 2 = 1 THEN b - 64 ELSE b
    IN  256 * unmasked(At(data, 0)) + At(data, 1)

\* quint8(data.at(5)) << 24 | ... | quint8(data.at(8)).
CrcField(data) == FourAt(data, 5)

\* The content a CRC stands for in module Converter: that of recvDataBuffer if
\* the CRCs are equal, and another one if they are not.
ContentOf(crc) ==
    IF crc = crc32_fsl({}, recvDataBuffer) THEN recvDataBuffer
    ELSE Append(recvDataBuffer, 0)

\* dataParser; a command it does not know has no signal.
DataParser(data) ==
    LET cmd == Command(data)
    IN  CASE cmd = Code("SEND_DATA_BLOCK_CMD") ->
                 Frame("SEND_DATA_BLOCK_CMD", At(data, 2), Field(data, 4), Field(data, 6), <<>>)
          [] cmd = Code("DEV_CREATE_BUFFER_CMD") ->
                 Frame("DEV_CREATE_BUFFER_CMD", At(data, 2), 0, Field(data, 4), <<>>)
          [] cmd = Code("RECEIVE_PACKAGE_CMD") ->
                 Frame("RECEIVE_PACKAGE_CMD", At(data, 2), 0, 0, Right(data, Len(data) - 3))
          [] cmd = Code("FINISH_SEND_DATA_CMD") ->
                 Frame("FINISH_SEND_DATA_CMD", At(data, 2), 0, 0, <<>>)
          [] cmd = Code("DEV_CREATE_BUFFER") ->
                 Frame("DEV_CREATE_BUFFER", 0, 0, Field(data, 3), <<>>)
          [] cmd = Code("DEV_RECEIVE_DATA_BLOCK_CMD") ->
                 Frame("DEV_RECEIVE_DATA_BLOCK_CMD", 0, Field(data, 3), 0,
                       Right(data, Len(data) - 5))
          [] cmd = Code("DEV_FINISH_RECV_DATA_CMD") ->
                 Frame("DEV_FINISH_RECV_DATA_CMD", 0, 0, Field(data, 3),
                       ContentOf(CrcField(data)))

Known(data) == \E cmd \in FrameCommands : Command(data) = Code(cmd)

\* Faulty variant: the header of the meter's package is not taken off.
PackageDataWhole(buffer) == buffer

\* finishReceivedPackAnswer: what the application gets of the buffer.
PackageData(buffer) == Right(buffer, Len(buffer) - HeaderSize)

-----------------------------------------------------------------------------
(* The converter's steps.                                                  *)

WireInit ==
    /\ Init
    /\ request = NoRequest
    /\ downlink = <<>>
    /\ uplink = <<>>
    /\ devBuffer = <<>>
    /\ delivered = <<>>
    /\ reply = <<>>
    /\ frameSize = 0
    /\ replyFrames = <<>>
    /\ told = <<>>

WireRequest ==
    /\ request = NoRequest
    /\ \E r \in Requests : AcceptedRequest(r) /\ request' = r
    /\ downlink' = Encoded(sendLoraPack')
    /\ UNCHANGED <<uplink, device, told>>

\* A frame that is no status message, from the queue to the slot.
WireReceive ==
    LET data  == Head(uplink)
        frame == DataParser(data)
    IN  /\ uplink # <<>>
        /\ ~IsOverdue(Queued(data))
        /\ Known(data)
        /\ Dispatch(frame)
        /\ uplink' = Tail(uplink)
        /\ downlink' = Encoded(sendLoraPack')
        /\ told' = IF sendAnswer' # "ok" THEN told
                   ELSE IF frame.cmd = "RECEIVE_PACKAGE_CMD" THEN frame.data
                   ELSE PackageData(recvDataBuffer)
        /\ UNCHANGED <<request, device>>

\* What the parser takes for a status message, or does not know.
WireIgnore ==
    /\ uplink # <<>>
    /\ IsOverdue(Queued(Head(uplink))) \/ ~Known(Head(uplink))
    /\ uplink' = Tail(uplink)
    /\ UNCHANGED <<vars, request, downlink, device, told>>

-----------------------------------------------------------------------------
(* The device.                                                             *)

\* An answer has the code of its command and the bit of MASK_ANSWER.
AnswerTo(cmd) == Code(cmd) + 64 * 256

\* After the result comes the port of the command.
Answer(cmd, rc, fields) == Two(AnswerTo(cmd)) \o <<rc, At(downlink, 2)>> \o fields

DeviceTakes(cmd) ==
    /\ downlink # <<>>
    /\ TwoAt(downlink, 0) = Code(cmd)
    /\ downlink' = <<>>
    /\ UNCHANGED <<vars, request, told>>

ReplyHeader == Two(Code("RECEIVE_PACKAGE_CMD")) \o <<0>>

ReplyFrame(cmd, fields) == Two(Code(cmd)) \o <<Port>> \o fields

\* The frames of a reply that does not fit into one.
ReplyBlocks(bytes, block) ==
    LET count == (Len(bytes) + block - 1) \div block
        last(i) == IF i = count THEN Len(bytes) ELSE i * block
    IN  <<ReplyFrame("DEV_CREATE_BUFFER", Two(Len(bytes)))>>
        \o [i \in 1 .. count |->
               ReplyFrame("DEV_RECEIVE_DATA_BLOCK_CMD",
                          Two((i - 1) * block) \o SubSeq(bytes, (i - 1) * block + 1, last(i)))]
        \o <<ReplyFrame("DEV_FINISH_RECV_DATA_CMD", Two(Len(bytes)) \o Four(Crc32Of(bytes)))>>

FramesOf(r, block) == IF Len(r) <= block THEN <<ReplyHeader \o r>>
                      ELSE ReplyBlocks(ReplyHeader \o r, block)

\* The command is answered, the request written to the serial port, and the
\* first frame of the meter's reply sent.
Delivers(answer, bytes) ==
    /\ delivered' = bytes
    /\ \E r \in ReplyBytes, block \in DeviceBlocks :
           /\ reply' = r
           /\ frameSize' = block
           /\ uplink' = uplink \o <<answer, Head(FramesOf(r, block))>>
           /\ replyFrames' = Tail(FramesOf(r, block))

DeviceWritesPackage ==
    /\ DeviceTakes("SEND_PACKAGE_ANSWER_CMD")
    /\ Delivers(Two(AnswerTo("SEND_PACKAGE_ANSWER_CMD")) \o <<0, 0>>,
                Right(downlink, Len(downlink) - 3))
    /\ UNCHANGED devBuffer

DeviceCreatesBuffer ==
    /\ DeviceTakes("DEV_CREATE_BUFFER_CMD")
    /\ devBuffer' = [i \in 1 .. TwoAt(downlink, 3) |-> 0]
    /\ uplink' = Append(uplink, Answer("DEV_CREATE_BUFFER_CMD", 0, Two(TwoAt(downlink, 3))))
    /\ UNCHANGED <<delivered, reply, frameSize, replyFrames>>

DeviceWritesBlock ==
    LET offset == TwoAt(downlink, 3)
        data   == Right(downlink, Len(downlink) - 5)
        fits   == offset + Len(data) <= Len(devBuffer)
    IN  /\ DeviceTakes("SEND_DATA_BLOCK_CMD")
        /\ devBuffer' = IF ~fits THEN devBuffer
                        ELSE [i \in DOMAIN devBuffer |->
                                 IF offset < i /\ i <= offset + Len(data)
                                 THEN data[i - offset] ELSE devBuffer[i]]
        /\ uplink' = Append(uplink, Answer("SEND_DATA_BLOCK_CMD", IF fits THEN 0 ELSE 4,
                                           Two(offset) \o Two(IF fits THEN Len(data) ELSE 0)))
        /\ UNCHANGED <<delivered, reply, frameSize, replyFrames>>

DeviceFinishes ==
    LET good == /\ TwoAt(downlink, 3) = Len(devBuffer)
                /\ FourAt(downlink, 5) = Crc32Of(devBuffer)
        answer(rc) == Answer("FINISH_SEND_DATA_CMD", rc,
                             Two(Len(devBuffer)) \o Four(Crc32Of(devBuffer)))
    IN  /\ DeviceTakes("FINISH_SEND_DATA_CMD")
        /\ \/ good /\ Delivers(answer(0), Right(devBuffer, Len(devBuffer) - 3))
           \/ /\ ~good
              /\ uplink' = Append(uplink, answer(3))
              /\ UNCHANGED <<delivered, reply, frameSize, replyFrames>>
        /\ devBuffer' = <<>>

\* Each frame of the reply follows the acknowledgement of the one before.
DeviceTakesAck ==
    /\ \E cmd \in {"APP_CREATE_BUFFER", "APP_RECEIVE_DATA_BLOCK_CMD",
                   "APP_FINISH_RECV_DATA_CMD"} : DeviceTakes(cmd)
    /\ \/ /\ replyFrames # <<>>
          /\ uplink' = Append(uplink, Head(replyFrames))
          /\ replyFrames' = Tail(replyFrames)
       \/ /\ replyFrames = <<>>
          /\ UNCHANGED <<uplink, replyFrames>>
    /\ UNCHANGED <<devBuffer, delivered, reply, frameSize>>

-----------------------------------------------------------------------------
WireNext ==
    \/ WireRequest
    \/ WireReceive
    \/ WireIgnore
    \/ DeviceWritesPackage
    \/ DeviceCreatesBuffer
    \/ DeviceWritesBlock
    \/ DeviceFinishes
    \/ DeviceTakesAck

WireSpec == WireInit /\ [][WireNext]_wireVars

-----------------------------------------------------------------------------
(* Properties.                                                             *)

\* dataParser looks at no length, and yet reads none of its bytes behind the end
\* of a frame that is as the protocol has it: neither those of the code, nor the
\* result of an answer, the third byte of a package, an offset, a size, nor the
\* four of the CRC, at(8) the last.  (Every port lies in front of one of these.)
ReadsWithinFrame ==
    uplink # <<>> =>
        LET data  == Head(uplink)
            frame == DataParser(data)
        IN  /\ Len(data) >= 2
            /\ Known(data) => frame.rc >= 0 /\ frame.off >= 0 /\ frame.len >= 0
            /\ Command(data) = Code("DEV_FINISH_RECV_DATA_CMD") => CrcField(data) # {Outside}

\* The device hands the application's bytes, all of them and no others, to its
\* port: splitting, headers, offsets and both CRC computations agree.
RequestArrives == delivered # <<>> => delivered = RequestBytes[request]

\* And the application gets the bytes of the meter's reply.
ReplyArrives == told # <<>> => told = reply

\* The protocol's answer to a frame of a reply: its code with MASK_ANSWER, a
\* result, and the frame's port with its size, its offset and how many bytes
\* came with it, or its size and CRC (here the code sends no result).
Acknowledgement(frame) ==
    LET code == TwoAt(frame, 0)
        port == <<At(frame, 2)>>
    IN  CASE code = Code("DEV_CREATE_BUFFER") ->
                 Two(code + 64 * 256) \o (<<0>> \o (port \o Two(TwoAt(frame, 3))))
          [] code = Code("DEV_RECEIVE_DATA_BLOCK_CMD") ->
                 Two(code + 64 * 256)
                 \o (<<0>> \o (port \o (Two(TwoAt(frame, 3)) \o Two(Len(frame) - 5))))
          [] code = Code("DEV_FINISH_RECV_DATA_CMD") ->
                 Two(code + 64 * 256) \o (port \o Right(frame, Len(frame) - 3))

\* What the device gets while it replies is the acknowledgement of the frame it
\* has sent last, byte by byte: the size or offset it named, the length that
\* came, the CRC it computed have gone through dataParser, a slot and sendCommand
\* and come back the same, so that a device that compares them goes on.
FramesAreAcknowledged ==
    reply # <<>> /\ downlink # <<>> =>
        LET frames == FramesOf(reply, frameSize)
            k      == Len(frames) - Len(replyFrames)
        IN  /\ k \in 1 .. Len(frames)
            /\ downlink = Acknowledgement(frames[k])

\* The parser has taken the frame sent last for a status message.
TakenForStatus ==
    LET frames == FramesOf(reply, frameSize)
    IN  \E k \in 1 .. Len(frames) :
            /\ IsOverdue(Queued(frames[k]))
            /\ replyFrames = SubSeq(frames, k + 1, Len(frames))

\* When nothing is on its way any more the application has its reply, and not
\* "BAD CRC", unless the exchange stopped at a frame of the reply that contains
\* the bytes of "overdue".
EveryRequestIsAnswered ==
    request # NoRequest /\ downlink = <<>> /\ uplink = <<>> =>
        told # <<>> \/ TakenForStatus

=============================================================================
