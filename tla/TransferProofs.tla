---------------------------- MODULE TransferProofs ----------------------------
(***************************************************************************)
(* What holds of the composition of converter, network and device for all  *)
(* sizes, bounds and numbers of sessions, losses and restarts: the types   *)
(* of everything in flight, and what ConverterProofs shows of a converter  *)
(* alone.                                                                  *)
(***************************************************************************)
EXTENDS Transfer, ConverterProofs

-----------------------------------------------------------------------------
(* Paths.                                                                  *)

\* The bounds are numbers.
LEMMA Bounds ==
    /\ MaxInFlight \in Nat \ {0} /\ ReplySize \in Nat \ {0} /\ ReplyBlock \in Nat \ {0}
    /\ DeviceCapacity \in Nat \ {0} /\ MaxRepeats \in Nat /\ MaxReboots \in Nat
    /\ Words = Requests
  BY TransferAssumption

\* What is on a path after something was put on it was on it or is new.
LEMMA SentType ==
    ASSUME NEW S, NEW path \in Seq(S), Len(path) <= MaxInFlight, NEW item \in S
    PROVE  /\ Sent(path, item) \in Seq(S)
           /\ Len(Sent(path, item)) <= MaxInFlight
           /\ \A i \in DOMAIN Sent(path, item) :
                 \/ Sent(path, item)[i] = item
                 \/ \E j \in DOMAIN path : Sent(path, item)[i] = path[j]
  <1>1. CASE Len(path) < MaxInFlight
    <2>1. Sent(path, item) = Append(path, item)
      BY <1>1 DEF Sent
    <2>2. /\ Append(path, item) \in Seq(S)
          /\ Len(Append(path, item)) = Len(path) + 1
          /\ DOMAIN Append(path, item) = 1 .. Len(path) + 1
          /\ DOMAIN path = 1 .. Len(path)
          /\ Len(path) \in Nat
      OBVIOUS
    <2>3. \A i \in 1 .. Len(path) + 1 :
             Append(path, item)[i] = IF i <= Len(path) THEN path[i] ELSE item
      OBVIOUS
    <2>4. \A i \in 1 .. Len(path) + 1 :
             \/ Append(path, item)[i] = item
             \/ \E j \in 1 .. Len(path) : Append(path, item)[i] = path[j]
      BY <2>2, <2>3
    <2>5. Len(path) + 1 <= MaxInFlight
      BY <1>1, <2>2, Bounds
    <2> QED
      BY <2>1, <2>2, <2>4, <2>5
  <1>2. CASE ~(Len(path) < MaxInFlight)
    BY <1>2 DEF Sent
  <1> QED
    BY <1>1, <1>2

\* What is left on a path after its first item was taken was on it.
LEMMA TailType ==
    ASSUME NEW S, NEW path \in Seq(S), Len(path) <= MaxInFlight, path # <<>>
    PROVE  /\ Head(path) \in S
           /\ Head(path) = path[1] /\ 1 \in DOMAIN path
           /\ Tail(path) \in Seq(S)
           /\ Len(Tail(path)) <= MaxInFlight
           /\ \A i \in DOMAIN Tail(path) : \E j \in DOMAIN path : Tail(path)[i] = path[j]
  <1>1. Len(path) \in Nat /\ Len(path) > 0 /\ DOMAIN path = 1 .. Len(path)
    OBVIOUS
  <1>2. /\ Tail(path) \in Seq(S) /\ Len(Tail(path)) = Len(path) - 1
        /\ DOMAIN Tail(path) = 1 .. Len(path) - 1
        /\ \A i \in 1 .. Len(path) - 1 : Tail(path)[i] = path[i + 1]
    BY <1>1
  <1>3. \A i \in 1 .. Len(path) - 1 : i + 1 \in 1 .. Len(path)
    BY <1>1
  <1> QED
    BY <1>1, <1>2, <1>3, Bounds

-----------------------------------------------------------------------------
(* Types.                                                                  *)

\* A packet that holds bytes of a request names the request, and what it
\* acknowledges of a reply lies within the reply.
Carries(pack) ==
    /\ pack.cmd \in {"SEND_DATA_BLOCK_CMD", "FINISH_SEND_DATA_CMD"} /\ pack.len > 0
           => pack.req \in Requests
    /\ pack.cmd = "SEND_PACKAGE_ANSWER_CMD" => pack.req \in Requests
    /\ pack.cmd = "APP_RECEIVE_DATA_BLOCK_CMD" => pack.off + pack.len <= ReplySize

\* A block of a reply lies within the reply.
Within(fr) ==
    fr.cmd = "DEV_RECEIVE_DATA_BLOCK_CMD" => fr.off + Len(fr.data) <= ReplySize

\* The types alone are not inductive: that the device's counter stays within the
\* reply depends on the acknowledgements in flight, and those on the frames.
ConverterCarries ==
    /\ sendDataBuffer.size > 0 => sendDataBuffer.req \in Requests
    /\ Carries(lastLp)
    /\ Carries(sendLoraPack)

PathsCarry ==
    /\ \A i \in DOMAIN downlink : Carries(downlink[i])
    /\ \A i \in DOMAIN uplink : Within(uplink[i])

ReplyTyped ==
    \/ devReply = NoReply
    \/ devReply.phase # "idle" /\ devReply.req \in Requests

Typed == TransferTypeOK /\ ConverterCarries /\ PathsCarry /\ ReplyTyped

\* A step of the composition is a step of the converter.
LEMMA TransferStep ==
    ASSUME TransferTypeOK, TransferNext \/ UNCHANGED allVars
    PROVE  Step
  <1>1. CASE MakeRequest
    BY <1>1 DEF MakeRequest, TransferTypeOK, Step, Request
  <1>2. CASE ClientLeaves \/ Timer
    BY <1>2 DEF ClientLeaves, Timer, Step
  <1>3. CASE ReceiveFrame
    <2>1. Head(uplink) \in FrameType
      BY <1>3, TailType DEF ReceiveFrame, TransferTypeOK
    <2> QED
      BY <1>3, <2>1 DEF ReceiveFrame, Step, ReceiveAny, Rests
  <1>4. CASE Lose \/ DeviceStep \/ DeviceReboots
    <2>1. ConverterIdle
      BY <1>4 DEF Lose, DeviceStep, DeviceReboots, DeviceTakes, DeviceWritesPackage,
                  DeviceCreatesBuffer, DeviceWritesBlock, DeviceFinishes, DeviceReplies,
                  DeviceTakesAck
    <2> QED
      BY <2>1 DEF ConverterIdle, Step, Rests
  <1>5. CASE UNCHANGED allVars
    BY <1>5 DEF allVars, vars, Step, Rests
  <1> QED
    BY <1>1, <1>2, <1>3, <1>4, <1>5 DEF TransferNext

\* A block of the request's buffer, and its check, carry the request.
LEMMA BlocksCarry ==
    ASSUME TypeOK, sendDataBuffer.size > 0 => sendDataBuffer.req \in Requests
    PROVE  /\ \A pos \in Int : Carries(DataBlock(pos))
           /\ Carries(CheckBuffer)
           /\ \A rc, len : \A pos \in Int : Carries(FollowUp(rc, len, pos))
  <1>1. sendDataBuffer.size \in Nat /\ BlockSize \in Nat \ {0}
    BY Parameters DEF TypeOK
  <1>2. ASSUME NEW pos \in Int PROVE Carries(DataBlock(pos))
    <2>1. pos % U16 \in Nat
      BY ModInNat, Parameters
    <2>2. DataBlock(pos).len > 0 => sendDataBuffer.size > 0
      BY <1>1, <2>1 DEF DataBlock, Pack
    <2>3. DataBlock(pos).cmd = "SEND_DATA_BLOCK_CMD"
          /\ DataBlock(pos).req = sendDataBuffer.req
      BY DEF DataBlock, Pack
    <2> QED
      BY <2>2, <2>3 DEF Carries
  <1>3. Carries(CheckBuffer)
    BY DEF CheckBuffer, Pack, Carries
  <1> QED
    BY <1>2, <1>3 DEF FollowUp

\* No packet carries nothing.
LEMMA NoPackCarries == Carries(NoPack)
  BY DEF Carries, NoPack, Pack

\* After the end of a session there is nothing to carry.
LEMMA EndCarries ==
    ASSUME IdleDisconnect, Carries(sendLoraPack') PROVE ConverterCarries'
  BY NoPackCarries DEF IdleDisconnect, ConverterCarries, NoBuffer, Carries

\* The packet sent is the one that is remembered.
LEMMA SendCarries ==
    ASSUME NEW pack, Carries(pack), SendCommand(pack),
           sendDataBuffer'.size > 0 => sendDataBuffer'.req \in Requests
    PROVE  ConverterCarries'
  BY DEF SendCommand, ConverterCarries, Carries

\* A step that keeps the buffer and the packet and emits none.
LEMMA SameCarries ==
    ASSUME ConverterCarries, UNCHANGED <<sendDataBuffer, lastLp>>,
           sendLoraPack' \in {NoPack, lastLp, sendLoraPack}
    PROVE  ConverterCarries'
  BY NoPackCarries DEF ConverterCarries, Carries

\* The slots of the converter.
LEMMA SlotsCarry ==
    ASSUME TypeOK, ConverterCarries, NEW fr \in FrameType, Within(fr), Dispatch(fr)
    PROVE  ConverterCarries'
  <1>0. /\ fileSizeCounter \in Int /\ fr.len \in Nat /\ fr.off \in Nat
        /\ fr.data \in Seq(Words)
    BY DEF TypeOK, FrameType
  <1>a. sendDataBuffer.size > 0 => sendDataBuffer.req \in Requests
    BY DEF ConverterCarries
  <1>1. CASE CreateBufferAnswer(fr.rc)
    BY <1>1, <1>a, BlocksCarry, SendCarries, SameCarries DEF CreateBufferAnswer
  <1>2. CASE SendDataBlockAnswer(fr.rc, fr.off, fr.len)
    <2>1. UNCHANGED sendDataBuffer
      BY <1>2 DEF SendDataBlockAnswer
    <2>2. \/ UNCHANGED lastLp /\ sendLoraPack' = NoPack
          \/ SendCommand(FollowUp(fr.rc, fr.len, fileSizeCounter + fr.len))
          \/ SendCommand(FollowUp(fr.rc, fr.len, fileSizeCounter))
      BY <1>2 DEF SendDataBlockAnswer
    <2>3. Carries(FollowUp(fr.rc, fr.len, fileSizeCounter + fr.len))
          /\ Carries(FollowUp(fr.rc, fr.len, fileSizeCounter))
      BY <1>0, <1>a, BlocksCarry
    <2> QED
      BY <1>a, <2>1, <2>2, <2>3, SendCarries, SameCarries
  <1>3. CASE FinishSendPackAnswer
    BY <1>3, SameCarries DEF FinishSendPackAnswer
  <1>4. CASE ReceivePackage
    BY <1>4, EndCarries, NoPackCarries DEF ReceivePackage
  <1>5. CASE CreateBufferCmd(fr.len)
    <2>1. Carries(Pack("APP_CREATE_BUFFER", NoRequest, 0, fr.len))
      BY DEF Carries, Pack
    <2> QED
      BY <1>5, <1>a, <2>1, SendCarries DEF CreateBufferCmd
  <1>6. CASE fr.cmd = "DEV_RECEIVE_DATA_BLOCK_CMD" /\ ReceivedDataBlock(fr.off, fr.data)
    <2>1. Carries(Pack("APP_RECEIVE_DATA_BLOCK_CMD", NoRequest, fr.off, Len(fr.data)))
      BY <1>6 DEF Carries, Pack, Within
    <2> QED
      BY <1>6, <1>a, <2>1, SendCarries DEF ReceivedDataBlock
  <1>7. CASE FinishReceivedPackAnswer(fr.data)
    <2>1. Carries(sendLoraPack')
      BY <1>7 DEF FinishReceivedPackAnswer, Carries, Pack
    <2> QED
      BY <1>7, <2>1, EndCarries DEF FinishReceivedPackAnswer
  <1> QED
    BY <1>1, <1>2, <1>3, <1>4, <1>5, <1>6, <1>7 DEF Dispatch

\* The first packet of a request carries it.
LEMMA RequestCarries ==
    ASSUME TypeOK, ConverterCarries, NEW r \in Requests,
           AcceptedRequest(r) \/ RefusedRequest(r)
    PROVE  ConverterCarries'
  <1>1. CASE AcceptedRequest(r)
    <2> DEFINE pack == Pack(IF DataSize[r] <= BlockSize THEN "SEND_PACKAGE_ANSWER_CMD"
                            ELSE "DEV_CREATE_BUFFER_CMD", r, 0, DataSize[r] + HeaderSize)
    <2>1. Carries(pack)
      BY DEF Carries, Pack
    <2>2. SendCommand(pack)
      BY <1>1 DEF AcceptedRequest
    <2>3. sendDataBuffer'.size > 0 => sendDataBuffer'.req \in Requests
      BY <1>1 DEF AcceptedRequest, NoBuffer
    <2> HIDE DEF pack
    <2> QED
      BY <2>1, <2>2, <2>3, SendCarries
  <1>2. CASE RefusedRequest(r)
    BY <1>2, SameCarries DEF RefusedRequest
  <1> QED
    BY <1>1, <1>2

\* Time.
LEMMA TimerCarries ==
    ASSUME ConverterCarries, Tick \/ AnswerTumeout \/ IdleTimeoutFires
    PROVE  ConverterCarries'
  <1>1. CASE Tick
    BY <1>1, SameCarries DEF Tick
  <1>2. CASE AnswerTumeout
    <2>1. \/ UNCHANGED <<sendDataBuffer, lastLp>> /\ sendLoraPack' = lastLp
          \/ IdleDisconnect /\ sendLoraPack' = NoPack
      BY <1>2, Zenon DEF AnswerTumeout
    <2> QED
      BY <2>1, SameCarries, EndCarries, NoPackCarries
  <1>3. CASE IdleTimeoutFires
    BY <1>3, EndCarries, NoPackCarries DEF IdleTimeoutFires
  <1> QED
    BY <1>1, <1>2, <1>3

-----------------------------------------------------------------------------
(* The types, part by part.                                                *)

SideTyped ==
    /\ TypeOK
    /\ ConverterCarries
    /\ requestsLeft \subseteq Requests
    /\ current \in Requests \cup {NoRequest}
    /\ transmissions \in 0 .. RetryCount + 2

DownTyped ==
    /\ downlink \in Seq(Packs) /\ Len(downlink) <= MaxInFlight
    /\ \A i \in DOMAIN downlink : Carries(downlink[i])

UpTyped ==
    /\ uplink \in Seq(FrameType) /\ Len(uplink) <= MaxInFlight
    /\ \A i \in DOMAIN uplink : Within(uplink[i])

ReplyInRange ==
    /\ devReply \in [phase : Phases, req : Requests \cup {NoRequest}, off : 0 .. ReplySize]
    /\ ReplyTyped

DeviceTyped ==
    /\ devBuffer \in Seq(Requests \cup {Junk})
    /\ ReplyInRange
    /\ devSent \in 0 .. MaxRepeats + 1
    /\ reboots \in 0 .. MaxReboots
    /\ delivered \subseteq Requests

\* The parts make the whole.
LEMMA Parts == Typed <=> SideTyped /\ DownTyped /\ UpTyped /\ DeviceTyped
  BY DEF Typed, TransferTypeOK, SideTyped, DownTyped, UpTyped, DeviceTyped,
         ReplyInRange, PathsCarry

\* And so they do after a step.
LEMMA PartsAfter ==
    ASSUME SideTyped', DownTyped', UpTyped', DeviceTyped' PROVE Typed'
  BY DEF Typed, TransferTypeOK, SideTyped, DownTyped, UpTyped, DeviceTyped,
         ReplyInRange, PathsCarry

\* What the converter emits goes on the path down.
LEMMA TransmitTyped ==
    ASSUME SideTyped, DownTyped, TypeOK', ConverterCarries', Transmit
    PROVE  DownTyped' /\ transmissions' \in 0 .. RetryCount + 2
  <1>1. sendLoraPack' \in Packs /\ Carries(sendLoraPack')
    BY DEF TypeOK, ConverterCarries, Carries
  <1>2. transmissions' \in 0 .. RetryCount + 2
    BY Parameters DEF SideTyped, Transmit
  <1>3. downlink' = downlink \/ downlink' = Sent(downlink, sendLoraPack')
    BY DEF Transmit
  <1>4. CASE downlink' = downlink
    BY <1>2, <1>4 DEF DownTyped, Carries
  <1>5. CASE downlink' = Sent(downlink, sendLoraPack')
    <2>1. /\ downlink \in Seq(Packs) /\ Len(downlink) <= MaxInFlight
          /\ \A i \in DOMAIN downlink : Carries(downlink[i])
      BY DEF DownTyped
    <2>2. /\ downlink' \in Seq(Packs) /\ Len(downlink') <= MaxInFlight
          /\ \A i \in DOMAIN downlink' :
                \/ downlink'[i] = sendLoraPack'
                \/ \E j \in DOMAIN downlink : downlink'[i] = downlink[j]
      BY <1>1, <1>5, <2>1, SentType
    <2>3. \A i \in DOMAIN downlink' : Carries(downlink'[i])
      BY <1>1, <2>1, <2>2
    <2> QED
      BY <1>2, <2>2, <2>3 DEF DownTyped, Carries
  <1> QED
    BY <1>3, <1>4, <1>5

\* A packet taken off the path down.
LEMMA DownTaken ==
    ASSUME DownTyped, downlink # <<>>, downlink' = Tail(downlink)
    PROVE  /\ Head(downlink) \in Packs /\ Carries(Head(downlink))
           /\ DownTyped'
  <1>1. /\ downlink \in Seq(Packs) /\ Len(downlink) <= MaxInFlight
        /\ \A i \in DOMAIN downlink : Carries(downlink[i])
    BY DEF DownTyped
  <1>2. /\ Head(downlink) \in Packs
        /\ Head(downlink) = downlink[1] /\ 1 \in DOMAIN downlink
        /\ downlink' \in Seq(Packs) /\ Len(downlink') <= MaxInFlight
        /\ \A i \in DOMAIN downlink' : \E j \in DOMAIN downlink : downlink'[i] = downlink[j]
    BY <1>1, TailType
  <1>3. \A i \in DOMAIN downlink' : Carries(downlink'[i])
    BY <1>1, <1>2
  <1> QED
    BY <1>1, <1>2, <1>3 DEF DownTyped, Carries

\* A frame taken off the path up.
LEMMA UpTaken ==
    ASSUME UpTyped, uplink # <<>>, uplink' = Tail(uplink)
    PROVE  /\ Head(uplink) \in FrameType /\ Within(Head(uplink))
           /\ UpTyped'
  <1>1. /\ uplink \in Seq(FrameType) /\ Len(uplink) <= MaxInFlight
        /\ \A i \in DOMAIN uplink : Within(uplink[i])
    BY DEF UpTyped
  <1>2. /\ Head(uplink) \in FrameType
        /\ Head(uplink) = uplink[1] /\ 1 \in DOMAIN uplink
        /\ uplink' \in Seq(FrameType) /\ Len(uplink') <= MaxInFlight
        /\ \A i \in DOMAIN uplink' : \E j \in DOMAIN uplink : uplink'[i] = uplink[j]
    BY <1>1, TailType
  <1>3. \A i \in DOMAIN uplink' : Within(uplink'[i])
    BY <1>1, <1>2
  <1> QED
    BY <1>1, <1>2, <1>3 DEF UpTyped, Within

\* A frame put on the path up.
LEMMA UpSent ==
    ASSUME UpTyped, NEW fr \in FrameType, Within(fr), uplink' = Sent(uplink, fr)
    PROVE  UpTyped'
  <1>1. /\ uplink \in Seq(FrameType) /\ Len(uplink) <= MaxInFlight
        /\ \A i \in DOMAIN uplink : Within(uplink[i])
    BY DEF UpTyped
  <1>2. /\ uplink' \in Seq(FrameType) /\ Len(uplink') <= MaxInFlight
        /\ \A i \in DOMAIN uplink' :
              \/ uplink'[i] = fr
              \/ \E j \in DOMAIN uplink : uplink'[i] = uplink[j]
    BY <1>1, SentType
  <1>3. \A i \in DOMAIN uplink' : Within(uplink'[i])
    BY <1>1, <1>2
  <1> QED
    BY <1>2, <1>3 DEF UpTyped, Within

\* An answer of the device is a frame and no block.
LEMMA AnswerSent ==
    ASSUME UpTyped, NEW cmd \in FrameCommands, cmd # "DEV_RECEIVE_DATA_BLOCK_CMD",
           NEW rc \in Nat, NEW off \in Nat, NEW len \in Nat,
           DeviceAnswers(cmd, rc, off, len)
    PROVE  UpTyped'
  <1>1. <<>> \in Seq(Words)
    OBVIOUS
  <1>2. Frame(cmd, rc, off, len, <<>>) \in FrameType
    BY <1>1 DEF Frame, FrameType
  <1>3. Within(Frame(cmd, rc, off, len, <<>>))
    BY DEF Within, Frame
  <1> QED
    BY <1>2, <1>3, UpSent DEF DeviceAnswers

\* Whatever the network and the device do, the converter's side stays.
LEMMA IdleTyped ==
    ASSUME SideTyped, ConverterIdle PROVE SideTyped'
  <1>1. TypeOK'
    BY TypeStep DEF SideTyped, ConverterIdle, Step, Rests
  <1>2. ConverterCarries'
    BY SameCarries DEF SideTyped, ConverterIdle, object
  <1> QED
    BY <1>1, <1>2 DEF SideTyped, ConverterIdle

-----------------------------------------------------------------------------
(* The device.                                                             *)

\* A reply begins at its first byte and belongs to a request.
LEMMA DeliverTyped ==
    ASSUME DeviceTyped, NEW r \in Requests, Deliver(r)
    PROVE  /\ ReplyInRange'
           /\ devSent' \in 0 .. MaxRepeats + 1
           /\ delivered' \subseteq Requests
  <1>1. delivered' \subseteq Requests
    BY DEF Deliver, DeviceTyped
  <1>2. CASE UNCHANGED <<devReply, devSent>>
    BY <1>1, <1>2 DEF DeviceTyped, ReplyInRange, ReplyTyped
  <1>3. CASE /\ \E kind \in Replies \ {"none"} :
                   devReply' = Reply(IF kind = "small" THEN "small" ELSE "create", r, 0)
             /\ devSent' = 0
    <2>1. PICK phase \in {"small", "create"} : devReply' = Reply(phase, r, 0)
      BY <1>3
    <2>2. ReplyInRange'
      BY <2>1, Bounds DEF ReplyInRange, ReplyTyped, Reply, Phases
    <2> QED
      BY <1>1, <1>3, <2>2, Bounds
  <1> QED
    BY <1>2, <1>3 DEF Deliver

\* A request in one packet.
LEMMA WritesPackageTyped ==
    ASSUME Typed, DeviceWritesPackage PROVE Typed'
  <1>1. SideTyped /\ DownTyped /\ UpTyped /\ DeviceTyped
    BY Parts
  <1>2. /\ downlink # <<>> /\ downlink' = Tail(downlink)
        /\ Head(downlink).cmd = "SEND_PACKAGE_ANSWER_CMD"
        /\ ConverterIdle /\ Deliver(Head(downlink).req)
        /\ UNCHANGED <<reboots, uplink, devBuffer>>
    BY DEF DeviceWritesPackage, DeviceTakes
  <1>3. Head(downlink).req \in Requests /\ DownTyped'
    BY <1>1, <1>2, DownTaken DEF Carries
  <1>4. DeviceTyped'
    BY <1>1, <1>2, <1>3, DeliverTyped DEF DeviceTyped
  <1>5. UpTyped'
    BY <1>1, <1>2 DEF UpTyped
  <1> QED
    BY <1>1, <1>2, <1>3, <1>4, <1>5, IdleTyped, PartsAfter

\* A new buffer holds what it may.
LEMMA CreatesBufferTyped ==
    ASSUME Typed, DeviceCreatesBuffer PROVE Typed'
  <1>1. SideTyped /\ DownTyped /\ UpTyped /\ DeviceTyped
    BY Parts
  <1>2. /\ downlink # <<>> /\ downlink' = Tail(downlink)
        /\ ConverterIdle
        /\ UNCHANGED <<reboots, devReply, devSent, delivered>>
        /\ \/ devBuffer' = [i \in 1 .. Head(downlink).len |-> Junk]
           \/ UNCHANGED devBuffer
        /\ \E rc \in {0, 1} :
              DeviceAnswers("DEV_CREATE_BUFFER_CMD", rc, 0, Head(downlink).len)
    BY DEF DeviceCreatesBuffer, DeviceTakes
  <1>3. Head(downlink).len \in Nat /\ DownTyped'
    BY <1>1, <1>2, DownTaken DEF Packs
  <1>4. devBuffer' \in Seq(Requests \cup {Junk})
    BY <1>1, <1>2, <1>3 DEF DeviceTyped
  <1>5. DeviceTyped'
    BY <1>1, <1>2, <1>4 DEF DeviceTyped, ReplyInRange, ReplyTyped
  <1>6. UpTyped'
    BY <1>1, <1>2, <1>3, AnswerSent DEF FrameCommands
  <1> QED
    BY <1>1, <1>2, <1>3, <1>5, <1>6, IdleTyped, PartsAfter

\* A block writes bytes of a request, or none.
LEMMA WritesBlockTyped ==
    ASSUME Typed, DeviceWritesBlock PROVE Typed'
  <1> DEFINE pack == Head(downlink)
  <1>1. SideTyped /\ DownTyped /\ UpTyped /\ DeviceTyped
    BY Parts
  <1>2. /\ downlink # <<>> /\ downlink' = Tail(downlink)
        /\ pack.cmd = "SEND_DATA_BLOCK_CMD"
        /\ ConverterIdle
        /\ UNCHANGED <<reboots, devReply, devSent, delivered>>
        /\ \/ UNCHANGED devBuffer
           \/ devBuffer' = [i \in 1 .. Len(devBuffer) |->
                               IF pack.off < i /\ i <= pack.off + pack.len
                               THEN pack.req ELSE devBuffer[i]]
        /\ \E rc \in {0, 4, 5}, len \in {0, pack.len} :
              DeviceAnswers("SEND_DATA_BLOCK_CMD", rc, pack.off, len)
    BY DEF DeviceWritesBlock, DeviceTakes
  <1>3. /\ pack.off \in Nat /\ pack.len \in Nat /\ DownTyped'
        /\ pack.len > 0 => pack.req \in Requests
    BY <1>1, <1>2, DownTaken DEF Packs, Carries
  <1>4. devBuffer' \in Seq(Requests \cup {Junk})
    <2>1. devBuffer \in Seq(Requests \cup {Junk}) /\ Len(devBuffer) \in Nat
      BY <1>1 DEF DeviceTyped
    <2> HIDE DEF pack
    <2>2. ASSUME NEW i \in 1 .. Len(devBuffer)
          PROVE  (IF pack.off < i /\ i <= pack.off + pack.len
                  THEN pack.req ELSE devBuffer[i]) \in Requests \cup {Junk}
      BY <1>3, <2>1
    <2> QED
      BY <1>2, <2>1, <2>2
  <1>5. DeviceTyped'
    BY <1>1, <1>2, <1>4 DEF DeviceTyped, ReplyInRange, ReplyTyped
  <1> HIDE DEF pack
  <1>6. UpTyped'
    BY <1>1, <1>2, <1>3, AnswerSent DEF FrameCommands
  <1> QED
    BY <1>1, <1>2, <1>3, <1>5, <1>6, IdleTyped, PartsAfter

\* A buffer that is complete holds the bytes of a request.
LEMMA FinishesTyped ==
    ASSUME Typed, DeviceFinishes PROVE Typed'
  <1> DEFINE pack == Head(downlink)
  <1>1. SideTyped /\ DownTyped /\ UpTyped /\ DeviceTyped
    BY Parts
  <1>2. /\ downlink # <<>> /\ downlink' = Tail(downlink)
        /\ pack.cmd = "FINISH_SEND_DATA_CMD"
        /\ ConverterIdle
        /\ UNCHANGED reboots
        /\ \/ /\ devBuffer # <<>> /\ Complete(devBuffer, pack.req, pack.len)
              /\ devBuffer' = <<>>
              /\ Deliver(pack.req)
           \/ UNCHANGED <<devBuffer, devReply, devSent, delivered>>
        /\ \E rc \in {0, 3, 5} : DeviceAnswers("FINISH_SEND_DATA_CMD", rc, 0, 0)
    BY DEF DeviceFinishes, DeviceTakes
  <1>3. /\ pack.len \in Nat /\ DownTyped'
        /\ pack.len > 0 => pack.req \in Requests
    BY <1>1, <1>2, DownTaken DEF Packs, Carries
  <1> HIDE DEF pack
  <1>4. DeviceTyped'
    <2>1. CASE /\ devBuffer # <<>> /\ Complete(devBuffer, pack.req, pack.len)
               /\ devBuffer' = <<>>
               /\ Deliver(pack.req)
      <3>1. devBuffer \in Seq(Requests \cup {Junk}) /\ devBuffer # <<>>
        BY <1>1, <2>1 DEF DeviceTyped
      <3>2. Len(devBuffer) > 0 /\ DOMAIN devBuffer = 1 .. Len(devBuffer)
        BY <3>1
      <3>3. DOMAIN devBuffer = 1 .. pack.len
        BY <2>1 DEF Complete
      <3>4. pack.req \in Requests
        BY <1>3, <3>1, <3>2, <3>3
      <3>5. devBuffer' \in Seq(Requests \cup {Junk})
        BY <2>1
      <3> QED
        BY <1>1, <1>2, <2>1, <3>4, <3>5, DeliverTyped DEF DeviceTyped
    <2>2. CASE UNCHANGED <<devBuffer, devReply, devSent, delivered>>
      BY <1>1, <1>2, <2>2 DEF DeviceTyped, ReplyInRange, ReplyTyped
    <2> QED
      BY <1>2, <2>1, <2>2
  <1>5. UpTyped'
    BY <1>1, <1>2, AnswerSent DEF FrameCommands
  <1> QED
    BY <1>1, <1>2, <1>3, <1>4, <1>5, IdleTyped, PartsAfter

\* The n bytes of a reply are a byte string.
LEMMA ReplyBytesType ==
    ASSUME devReply.req \in Requests, NEW n \in Nat
    PROVE  ReplyBytes(n) \in Seq(Words) /\ Len(ReplyBytes(n)) = n
  <1>1. devReply.req \in Words
    BY Bounds
  <1> QED
    BY <1>1 DEF ReplyBytes

\* What the device sends of a reply is a frame, and a block lies in the reply.
LEMMA ReplyFrameTyped ==
    ASSUME ReplyInRange, devReply # NoReply
    PROVE  ReplyFrame \in FrameType /\ Within(ReplyFrame)
  <1> DEFINE left == ReplySize - devReply.off
             len == IF left < ReplyBlock THEN left ELSE ReplyBlock
  <1>1. /\ devReply.phase \in {"small", "create", "data", "finish"}
        /\ devReply.req \in Requests
        /\ devReply.off \in 0 .. ReplySize
    BY DEF ReplyInRange, ReplyTyped, Phases
  <1>2. ReplySize \in Nat /\ ReplyBlock \in Nat /\ devReply.off \in Nat
    BY <1>1, Bounds
  <1>3. len \in Nat /\ devReply.off + len <= ReplySize
    BY <1>1, <1>2
  <1> HIDE DEF len
  <1>4. CASE devReply.phase = "small"
    <2>1. ReplyFrame = Frame("RECEIVE_PACKAGE_CMD", 0, 0, 0, ReplyBytes(1))
      BY <1>4 DEF ReplyFrame
    <2> QED
      BY <1>1, <2>1, ReplyBytesType DEF Frame, FrameType, FrameCommands, Within
  <1>5. CASE devReply.phase = "create"
    <2>1. ReplyFrame = Frame("DEV_CREATE_BUFFER", 0, 0, ReplySize, <<>>)
      BY <1>5 DEF ReplyFrame
    <2>2. <<>> \in Seq(Words)
      OBVIOUS
    <2> QED
      BY <1>2, <2>1, <2>2 DEF Frame, FrameType, FrameCommands, Within
  <1>6. CASE devReply.phase = "data"
    <2>1. ReplyFrame = Frame("DEV_RECEIVE_DATA_BLOCK_CMD", 0, devReply.off, 0,
                             ReplyBytes(len))
      BY <1>6 DEF ReplyFrame, len
    <2>2. ReplyBytes(len) \in Seq(Words) /\ Len(ReplyBytes(len)) = len
      BY <1>1, <1>3, ReplyBytesType
    <2> QED
      BY <1>2, <1>3, <2>1, <2>2 DEF Frame, FrameType, FrameCommands, Within
  <1>7. CASE devReply.phase = "finish"
    <2>1. ReplyFrame = Frame("DEV_FINISH_RECV_DATA_CMD", 0, 0, ReplySize,
                             ReplyBytes(ReplySize))
      BY <1>7 DEF ReplyFrame
    <2>2. ReplyBytes(ReplySize) \in Seq(Words)
      BY <1>1, <1>2, ReplyBytesType
    <2> QED
      BY <1>2, <2>1, <2>2 DEF Frame, FrameType, FrameCommands, Within
  <1> QED
    BY <1>1, <1>4, <1>5, <1>6, <1>7

\* There is a reply that is none.
LEMMA NoReplyTyped == ASSUME devReply' = NoReply PROVE ReplyInRange'
  BY Bounds DEF NoReply, Reply, ReplyInRange, ReplyTyped, Phases

\* The device sends a frame of its reply.
LEMMA RepliesTyped ==
    ASSUME Typed, DeviceReplies PROVE Typed'
  <1>1. SideTyped /\ DownTyped /\ UpTyped /\ DeviceTyped
    BY Parts
  <1>2. ReplyInRange /\ devSent \in 0 .. MaxRepeats + 1
    BY <1>1 DEF DeviceTyped
  <1>3. SideTyped'
    BY <1>1, IdleTyped DEF DeviceReplies
  <1>4. DownTyped'
    BY <1>1 DEF DeviceReplies, DownTyped
  <1>5. UpTyped'
    BY <1>1, <1>2, ReplyFrameTyped, UpSent DEF DeviceReplies
  <1>6. devSent' \in 0 .. MaxRepeats + 1
    BY <1>2, Bounds DEF DeviceReplies
  <1>7. ReplyInRange'
    <2>1. CASE devReply' = NoReply
      BY <2>1, NoReplyTyped
    <2>2. CASE UNCHANGED devReply
      BY <1>2, <2>2 DEF ReplyInRange, ReplyTyped
    <2> QED
      BY <2>1, <2>2 DEF DeviceReplies
  <1>8. DeviceTyped'
    BY <1>1, <1>6, <1>7 DEF DeviceReplies, DeviceTyped
  <1> QED
    BY <1>3, <1>4, <1>5, <1>8, PartsAfter

\* An acknowledgement moves the reply on, within its size.
LEMMA ReplyAfterTyped ==
    ASSUME ReplyInRange, NEW ack \in Packs, Carries(ack), devReply' = ReplyAfter(ack)
    PROVE  ReplyInRange'
  <1>1. ack.off \in Nat /\ ack.len \in Nat /\ ReplySize \in Nat
    BY Bounds DEF Packs
  <1>2. CASE UNCHANGED devReply
    BY <1>2 DEF ReplyInRange, ReplyTyped
  <1>3. CASE devReply' = NoReply
    BY <1>3, NoReplyTyped
  <1>4. CASE devReply.phase = "create" /\ devReply' = Reply("data", devReply.req, 0)
    <2>1. devReply.req \in Requests
      BY <1>4 DEF ReplyInRange, ReplyTyped, NoReply, Reply
    <2> QED
      BY <1>1, <1>4, <2>1 DEF ReplyInRange, ReplyTyped, Reply, Phases
  <1>5. CASE /\ ack.cmd = "APP_RECEIVE_DATA_BLOCK_CMD" /\ devReply.phase = "data"
             /\ devReply' = Reply(IF ack.off + ack.len = ReplySize THEN "finish" ELSE "data",
                                  devReply.req, ack.off + ack.len)
    <2>1. devReply.req \in Requests
      BY <1>5 DEF ReplyInRange, ReplyTyped, NoReply, Reply
    <2>2. ack.off + ack.len \in 0 .. ReplySize
      BY <1>1, <1>5 DEF Carries
    <2> QED
      BY <1>5, <2>1, <2>2 DEF ReplyInRange, ReplyTyped, Reply, Phases
  <1> QED
    BY <1>2, <1>3, <1>4, <1>5 DEF ReplyAfter

\* The device takes an acknowledgement.
LEMMA TakesAckTyped ==
    ASSUME Typed, DeviceTakesAck PROVE Typed'
  <1>1. SideTyped /\ DownTyped /\ UpTyped /\ DeviceTyped
    BY Parts
  <1>2. /\ downlink # <<>> /\ downlink' = Tail(downlink)
        /\ ConverterIdle
        /\ devReply' = ReplyAfter(Head(downlink))
        /\ devSent' \in {devSent, 0}
        /\ UNCHANGED <<reboots, uplink, devBuffer, delivered>>
    BY DEF DeviceTakesAck, DeviceTakes
  <1>3. DownTyped' /\ Head(downlink) \in Packs /\ Carries(Head(downlink))
    BY <1>1, <1>2, DownTaken
  <1>4. ReplyInRange'
    BY <1>1, <1>2, <1>3, ReplyAfterTyped DEF DeviceTyped
  <1>5. devSent' \in 0 .. MaxRepeats + 1
    BY <1>1, <1>2, Bounds DEF DeviceTyped
  <1>6. DeviceTyped'
    BY <1>1, <1>2, <1>4, <1>5 DEF DeviceTyped
  <1>7. UpTyped'
    BY <1>1, <1>2 DEF UpTyped
  <1> QED
    BY <1>1, <1>2, <1>3, <1>6, <1>7, IdleTyped, PartsAfter

\* A restart leaves nothing of buffer and reply.
LEMMA RebootsTyped ==
    ASSUME Typed, DeviceReboots PROVE Typed'
  <1>1. SideTyped /\ DownTyped /\ UpTyped /\ DeviceTyped
    BY Parts
  <1>2. DownTyped' /\ UpTyped'
    BY <1>1 DEF DeviceReboots, DownTyped, UpTyped
  <1>3. reboots' \in 0 .. MaxReboots
    BY <1>1, Bounds DEF DeviceReboots, DeviceTyped
  <1>4. devBuffer' \in Seq(Requests \cup {Junk}) /\ devSent' \in 0 .. MaxRepeats + 1
    BY Bounds DEF DeviceReboots
  <1>5. ReplyInRange'
    BY NoReplyTyped DEF DeviceReboots
  <1>6. DeviceTyped'
    BY <1>1, <1>3, <1>4, <1>5 DEF DeviceReboots, DeviceTyped
  <1> QED
    BY <1>1, <1>2, <1>6, IdleTyped, PartsAfter DEF DeviceReboots

-----------------------------------------------------------------------------
(* The network and the converter.                                          *)

\* The device while something else happens.
LEMMA DeviceIdleTyped ==
    ASSUME DeviceTyped, UNCHANGED device PROVE DeviceTyped'
  BY DEF device, DeviceTyped, ReplyInRange, ReplyTyped

\* Losses.
LEMMA LoseTyped ==
    ASSUME Typed, Lose PROVE Typed'
  <1>1. SideTyped /\ DownTyped /\ UpTyped /\ DeviceTyped
    BY Parts
  <1>2. SideTyped' /\ DeviceTyped'
    BY <1>1, IdleTyped, DeviceIdleTyped DEF Lose
  <1>3. CASE downlink # <<>> /\ downlink' = Tail(downlink) /\ UNCHANGED uplink
    <2>1. DownTyped'
      BY <1>1, <1>3, DownTaken
    <2>2. UpTyped'
      BY <1>1, <1>3 DEF UpTyped
    <2> QED
      BY <1>2, <2>1, <2>2, PartsAfter
  <1>4. CASE uplink # <<>> /\ uplink' = Tail(uplink) /\ UNCHANGED downlink
    <2>1. UpTyped'
      BY <1>1, <1>4, UpTaken
    <2>2. DownTyped'
      BY <1>1, <1>4 DEF DownTyped
    <2> QED
      BY <1>2, <2>1, <2>2, PartsAfter
  <1> QED
    BY <1>3, <1>4 DEF Lose

\* A step of the converter that carries what it should.
LEMMA ConverterTyped ==
    ASSUME Typed, Step, ConverterCarries', Transmit, UpTyped', UNCHANGED device,
           requestsLeft' \subseteq Requests, current' \in Requests \cup {NoRequest}
    PROVE  Typed'
  <1>1. SideTyped /\ DownTyped /\ UpTyped /\ DeviceTyped
    BY Parts
  <1>2. TypeOK'
    BY <1>1, TypeStep DEF SideTyped
  <1>3. DownTyped' /\ transmissions' \in 0 .. RetryCount + 2
    BY <1>1, <1>2, TransmitTyped
  <1>4. SideTyped'
    BY <1>2, <1>3 DEF SideTyped
  <1> QED
    BY <1>1, <1>3, <1>4, DeviceIdleTyped, PartsAfter

\* Every step of the composition keeps the types.
LEMMA TypedStep ==
    ASSUME Typed, [TransferNext]_allVars PROVE Typed'
  <1>1. SideTyped /\ DownTyped /\ UpTyped /\ DeviceTyped
    BY Parts
  <1>2. TypeOK /\ ConverterCarries /\ requestsLeft \subseteq Requests
        /\ current \in Requests \cup {NoRequest}
    BY <1>1 DEF SideTyped
  <1>3. Step
    BY TransferStep DEF Typed
  <1>4. CASE MakeRequest
    <2>1. PICK r \in requestsLeft :
             /\ AcceptedRequest(r) \/ RefusedRequest(r)
             /\ requestsLeft' = requestsLeft \ {r}
             /\ current' = r
             /\ Transmit
             /\ UNCHANGED <<uplink, device>>
      BY <1>4 DEF MakeRequest
    <2>2. r \in Requests
      BY <1>2
    <2>3. ConverterCarries'
      BY <1>2, <2>1, <2>2, RequestCarries
    <2>4. UpTyped'
      BY <1>1, <2>1 DEF UpTyped
    <2> QED
      BY <1>2, <1>3, <2>1, <2>2, <2>3, <2>4, ConverterTyped
  <1>5. CASE ClientLeaves
    <2>1. ConverterCarries'
      BY <1>5, EndCarries, NoPackCarries DEF ClientLeaves, ClientGone
    <2>2. UpTyped'
      BY <1>1, <1>5 DEF ClientLeaves, UpTyped
    <2> QED
      BY <1>2, <1>3, <1>5, <2>1, <2>2, ConverterTyped DEF ClientLeaves
  <1>6. CASE ReceiveFrame
    <2>1. /\ Head(uplink) \in FrameType /\ Within(Head(uplink))
          /\ UpTyped'
      BY <1>1, <1>6, UpTaken DEF ReceiveFrame
    <2>2. ConverterCarries'
      <3>1. CASE Dispatch(Head(uplink))
        BY <1>2, <2>1, <3>1, SlotsCarry
      <3>2. CASE sendLoraPack' = NoPack /\ UNCHANGED object
        BY <1>2, <3>2, SameCarries DEF object
      <3> QED
        BY <1>6, <3>1, <3>2 DEF ReceiveFrame
    <2> QED
      BY <1>2, <1>3, <1>6, <2>1, <2>2, ConverterTyped DEF ReceiveFrame
  <1>7. CASE Timer
    <2>1. ConverterCarries'
      BY <1>2, <1>7, TimerCarries DEF Timer
    <2>2. UpTyped'
      BY <1>1, <1>7 DEF Timer, UpTyped
    <2> QED
      BY <1>2, <1>3, <1>7, <2>1, <2>2, ConverterTyped DEF Timer
  <1>8. CASE Lose \/ DeviceReboots
    BY <1>8, LoseTyped, RebootsTyped
  <1>9. CASE DeviceStep
    BY <1>9, WritesPackageTyped, CreatesBufferTyped, WritesBlockTyped, FinishesTyped,
       RepliesTyped, TakesAckTyped DEF DeviceStep
  <1>10. CASE UNCHANGED allVars
    <2>1. ConverterCarries' /\ SideTyped'
      BY <1>1, <1>3, <1>10, TypeStep, SameCarries
         DEF SideTyped, allVars, vars, object
    <2>2. DownTyped' /\ UpTyped'
      BY <1>1, <1>10 DEF allVars, DownTyped, UpTyped
    <2>3. DeviceTyped'
      BY <1>1, <1>10, DeviceIdleTyped DEF allVars
    <2> QED
      BY <2>1, <2>2, <2>3, PartsAfter
  <1> QED
    BY <1>4, <1>5, <1>6, <1>7, <1>8, <1>9, <1>10 DEF TransferNext

\* The program starts with nothing under way.
LEMMA TypedInit == ASSUME TransferInit PROVE Typed
  <1>1. TypeOK
    BY InitType DEF TransferInit
  <1>2. ConverterCarries
    BY NoPackCarries DEF TransferInit, Init, ConverterCarries, NoBuffer
  <1>3. SideTyped
    BY <1>1, <1>2, Parameters DEF TransferInit, SideTyped
  <1>4. DownTyped /\ UpTyped
    BY Bounds DEF TransferInit, DownTyped, UpTyped
  <1>5. DeviceTyped
    BY Bounds DEF TransferInit, DeviceTyped, ReplyInRange, ReplyTyped, NoReply, Reply, Phases
  <1> QED
    BY <1>3, <1>4, <1>5, Parts

\* Converter, paths and device keep their types: packets and frames are well
\* formed whatever was lost or repeated, neither path overflows, and the device
\* never counts more of a reply than there is.
THEOREM TransferTypeCorrect == TransferSpec => []TransferTypeOK
  <1>1. Typed => TransferTypeOK
    BY DEF Typed
  <1> QED
    BY <1>1, TypedInit, TypedStep, PTL DEF TransferSpec

\* What ConverterProofs shows of a converter alone holds of one in its network:
\* repetitions are bounded, a repeated packet is the current one, no entry of
\* converterList is left without a timer, and with an idle period longer than
\* all attempts a silent device is reported.
THEOREM ConverterHolds ==
    TransferSpec => [](/\ AttemptsBounded /\ RetransmissionIsCurrent
                       /\ Watched /\ SilenceIsReported)
  <1> DEFINE Sound == Typed /\ AttemptsCounted /\ Current /\ Watched /\ WaitCounted
  <1>1. TransferInit => Sound
    <2>1. TransferInit => Typed
      BY TypedInit
    <2>2. Init => AttemptsCounted /\ Watched /\ WaitCounted
      BY Zenon DEF Init, AttemptsCounted, Watched, WaitCounted
    <2>3. Init => Current
      BY DEF Init, Current, RetransmissionIsCurrent, NoPack, Pack
    <2> QED
      BY <2>1, <2>2, <2>3 DEF TransferInit
  <1>2. Sound /\ [TransferNext]_allVars => Sound'
    <2> SUFFICES ASSUME Sound, [TransferNext]_allVars PROVE Sound'
      OBVIOUS
    <2>1. Typed' /\ Step /\ TypeOK
      BY TypedStep, TransferStep DEF Typed, TransferTypeOK
    <2> QED
      BY <2>1, AttemptsStep, CurrentStep, WatchedStep, WaitStep
  <1>3. Sound => AttemptsBounded /\ RetransmissionIsCurrent /\ Watched
    BY Parameters DEF Typed, TransferTypeOK, TypeOK, AttemptsCounted, AttemptsBounded, Current
  <1>4. Sound => SilenceIsReported
    BY WaitReported DEF Typed, TransferTypeOK
  <1> HIDE DEF Sound
  <1> QED
    BY <1>1, <1>2, <1>3, <1>4, PTL DEF TransferSpec

=============================================================================
