--------------------------- MODULE ConverterProofs ---------------------------
(***************************************************************************)
(* What Converter guarantees for every size of a request, every number of  *)
(* retries, every pair of timeouts and every frame the device may send.    *)
(***************************************************************************)
EXTENDS Converter, TLAPS

-----------------------------------------------------------------------------
(* The operators the slots are built from.                                 *)

\* The settings and sizes, one by one.
LEMMA Parameters ==
    /\ BlockSize \in Nat \ {0} /\ MaxData \in Nat \ {0} /\ RetryCount \in Nat \ {0}
    /\ AnswerTimeout \in Nat \ {0} /\ IdleTimeout \in Nat \ {0} /\ U16 \in Nat \ {0}
    /\ Stopped = -1
  BY ConstantsAssumption DEF Stopped

\* A quint16 is a natural number.
LEMMA ModInNat ==
    ASSUME NEW a \in Int
    PROVE  a % U16 \in 0 .. U16 - 1
  BY ConstantsAssumption

\* sendDataBlock builds a packet of a known command, offset and length.
LEMMA DataBlockType ==
    ASSUME TypeOK, NEW pos \in Int
    PROVE  DataBlock(pos) \in Packs /\ DataBlock(pos).cmd = "SEND_DATA_BLOCK_CMD"
  <1>1. pos % U16 \in Nat
    BY ModInNat, ConstantsAssumption
  <1>2. /\ sendDataBuffer.size \in Nat
        /\ sendDataBuffer.req \in Requests \cup {NoRequest}
        /\ BlockSize \in Nat
    BY ConstantsAssumption DEF TypeOK
  <1> DEFINE off == pos % U16
             left == sendDataBuffer.size - off
             len == IF BlockSize <= left THEN BlockSize ELSE IF left > 0 THEN left ELSE 0
  <1>3. len \in Nat
    BY <1>1, <1>2
  <1>4. DataBlock(pos) = [cmd |-> "SEND_DATA_BLOCK_CMD", req |-> sendDataBuffer.req,
                          off |-> pos % U16, len |-> len]
    BY DEF DataBlock, Pack
  <1> HIDE DEF len
  <1> QED
    BY <1>1, <1>2, <1>3, <1>4 DEF Packs, Commands

\* So does getCheckBuffer.
LEMMA CheckBufferType ==
    ASSUME TypeOK
    PROVE  CheckBuffer \in Packs /\ CheckBuffer.cmd = "FINISH_SEND_DATA_CMD"
  BY DEF TypeOK, CheckBuffer, Pack, Packs, Commands

\* The packet that follows a block answer is one of the two.
LEMMA FollowUpType ==
    ASSUME TypeOK, NEW rc, NEW len, NEW pos \in Int
    PROVE  FollowUp(rc, len, pos) \in Packs
  BY DataBlockType, CheckBufferType DEF FollowUp

\* A block written into recvDataBuffer leaves a byte array, grown to hold it.
LEMMA StoredType ==
    ASSUME NEW buffer \in Seq(Words \cup {Junk}), NEW off \in Nat,
           NEW data \in Seq(Words)
    PROVE  Stored(buffer, off, data) \in Seq(Words \cup {Junk})
  <1> DEFINE end == off + Len(data)
             new == IF Len(buffer) > end THEN Len(buffer) ELSE end
             byte(i) == IF off < i /\ i <= end THEN data[i - off]
                        ELSE IF i <= Len(buffer) THEN buffer[i] ELSE Junk
  <1>1. new \in Nat /\ end \in Nat /\ Len(data) \in Nat
    OBVIOUS
  <1>2. \A i \in 1 .. new : byte(i) \in Words \cup {Junk}
    <2> SUFFICES ASSUME NEW i \in 1 .. new PROVE byte(i) \in Words \cup {Junk}
      OBVIOUS
    <2>1. CASE off < i /\ i <= end
      <3>1. i - off \in 1 .. Len(data)
        BY <2>1, <1>1
      <3> QED
        BY <2>1, <3>1
    <2>2. CASE ~(off < i /\ i <= end)
      BY <2>2, <1>1
    <2> QED
      BY <2>1, <2>2
  <1>3. [i \in 1 .. new |-> byte(i)] \in Seq(Words \cup {Junk})
    <2> HIDE DEF new, byte
    <2> QED
      BY <1>1, <1>2
  <1> QED
    BY <1>3 DEF Stored

-----------------------------------------------------------------------------
(* Type correctness.                                                       *)

\* What sendCommand leaves behind, whatever packet it is given.
LEMMA SendCommandType ==
    ASSUME NEW pack \in Packs, SendCommand(pack)
    PROVE  /\ lastLp' \in Packs
           /\ sendLoraPack' \in Packs
           /\ waitTimer' \in Stopped .. AnswerTimeout
           /\ idleTimer' \in Stopped .. IdleTimeout
           /\ attempts' \in Nat
           /\ prolonged' \in BOOLEAN
  <1>1. prolonged' \in BOOLEAN
    BY Zenon DEF SendCommand
  <1>2. /\ lastLp' \in Packs
        /\ sendLoraPack' \in Packs
        /\ waitTimer' \in Stopped .. AnswerTimeout
        /\ idleTimer' \in Stopped .. IdleTimeout
        /\ attempts' \in Nat
    BY ConstantsAssumption DEF SendCommand, Stopped
  <1> QED
    BY <1>1, <1>2

\* The place of lastLp where there is no packet is itself a packet.
LEMMA NoPackType == NoPack \in Packs
  BY DEF NoPack, Pack, Packs

\* What the end of a session leaves behind has its type.
LEMMA IdleDisconnectType ==
    ASSUME IdleDisconnect, sendLoraPack' \in Packs, sendAnswer' \in Answers
    PROVE  TypeOK'
  <1>1. NoBuffer \in [req : Requests \cup {NoRequest}, size : Nat]
    BY DEF NoBuffer
  <1>2. <<>> \in Seq(Words \cup {Junk})
    OBVIOUS
  <1>3. Stopped \in Stopped .. AnswerTimeout /\ Stopped \in Stopped .. IdleTimeout
    BY Parameters
  <1>4. alive' \in BOOLEAN /\ alreadySent' \in BOOLEAN /\ prolonged' \in BOOLEAN
    BY Zenon DEF IdleDisconnect
  <1>7. fileSizeCounter' \in Int /\ errorCounter' \in Int /\ attempts' \in Nat
    BY DEF IdleDisconnect
  <1>5. /\ sendDataBuffer' \in [req : Requests \cup {NoRequest}, size : Nat]
        /\ recvDataBuffer' \in Seq(Words \cup {Junk})
        /\ lastLp' \in Packs
    BY <1>1, <1>2, NoPackType DEF IdleDisconnect
  <1>6. waitTimer' \in Stopped .. AnswerTimeout /\ idleTimer' \in Stopped .. IdleTimeout
    BY <1>3 DEF IdleDisconnect
  <1> QED
    BY <1>4, <1>5, <1>6, <1>7 DEF TypeOK

\* Accepted and refused requests keep the types.
LEMMA RequestType ==
    ASSUME TypeOK, NEW r \in Requests, AcceptedRequest(r) \/ RefusedRequest(r)
    PROVE  TypeOK'
  <1>0. DataSize[r] \in Nat
    BY ConstantsAssumption
  <1>1. CASE AcceptedRequest(r)
    <2> DEFINE size == DataSize[r] + HeaderSize
               pack == Pack(IF DataSize[r] <= BlockSize THEN "SEND_PACKAGE_ANSWER_CMD"
                            ELSE "DEV_CREATE_BUFFER_CMD", r, 0, size)
    <2>1. size \in Nat
      BY <1>0 DEF HeaderSize
    <2>2. pack \in Packs
      BY <2>1 DEF Pack, Packs, Commands
    <2>3. SendCommand(pack)
      BY <1>1 DEF AcceptedRequest
    <2>4. sendDataBuffer' \in [req : Requests \cup {NoRequest}, size : Nat]
      BY <1>1, <2>1 DEF AcceptedRequest, NoBuffer
    <2> HIDE DEF size, pack
    <2>5. /\ lastLp' \in Packs /\ sendLoraPack' \in Packs
          /\ waitTimer' \in Stopped .. AnswerTimeout
          /\ idleTimer' \in Stopped .. IdleTimeout
          /\ attempts' \in Nat /\ prolonged' \in BOOLEAN
      BY <2>2, <2>3, SendCommandType
    <2>6. recvDataBuffer' = recvDataBuffer
      BY <1>1, Zenon DEF AcceptedRequest
    <2> QED
      BY <1>1, <2>4, <2>5, <2>6 DEF AcceptedRequest, TypeOK, Answers
  <1>2. CASE RefusedRequest(r)
    BY <1>2, NoPackType, Parameters, ConstantsAssumption
    DEF RefusedRequest, TypeOK, Answers
  <1> QED
    BY <1>1, <1>2

\* The slots for the device's answers keep the types.
LEMMA AnswerType ==
    ASSUME TypeOK, NEW fr \in FrameType,
           \/ CreateBufferAnswer(fr.rc)
           \/ SendDataBlockAnswer(fr.rc, fr.off, fr.len)
           \/ FinishSendPackAnswer
    PROVE  TypeOK'
  <1>0. fr.rc \in Nat /\ fr.off \in Nat /\ fr.len \in Nat
    BY DEF FrameType
  <1>1. CASE CreateBufferAnswer(fr.rc)
    <2>1. DataBlock(0) \in Packs
      BY DataBlockType
    <2> QED
      BY <1>1, <2>1, SendCommandType, NoPackType, Parameters
      DEF CreateBufferAnswer, TypeOK, Answers
  <1>2. CASE SendDataBlockAnswer(fr.rc, fr.off, fr.len)
    <2>1. fileSizeCounter \in Int /\ fileSizeCounter + fr.len \in Int
      BY <1>0 DEF TypeOK
    <2>2. /\ FollowUp(fr.rc, fr.len, fileSizeCounter) \in Packs
          /\ FollowUp(fr.rc, fr.len, fileSizeCounter + fr.len) \in Packs
      BY <2>1, FollowUpType
    <2>3. /\ sendAnswer' = "none"
          /\ UNCHANGED <<alive, alreadySent, sendDataBuffer, recvDataBuffer>>
      BY <1>2, Zenon DEF SendDataBlockAnswer
    <2>4. CASE Repeats(fr.rc, fr.off, fr.len)
      <3>1. /\ waitTimer' = AnswerTimeout /\ sendLoraPack' = NoPack /\ prolonged' = TRUE
            /\ UNCHANGED <<fileSizeCounter, errorCounter, idleTimer, lastLp, attempts>>
        BY <1>2, <2>4, Zenon DEF SendDataBlockAnswer, Confirms
      <3> QED
        BY <2>3, <3>1, NoPackType, Parameters DEF TypeOK, Answers
    <2>5. CASE ~Repeats(fr.rc, fr.off, fr.len)
      <3>1. /\ fileSizeCounter' \in Int /\ errorCounter' \in Int
            /\ \E pack \in Packs : SendCommand(pack)
        BY <1>2, <2>1, <2>2, <2>5 DEF SendDataBlockAnswer, TypeOK
      <3>2. /\ lastLp' \in Packs /\ sendLoraPack' \in Packs
            /\ waitTimer' \in Stopped .. AnswerTimeout
            /\ idleTimer' \in Stopped .. IdleTimeout
            /\ attempts' \in Nat /\ prolonged' \in BOOLEAN
        BY <3>1, SendCommandType
      <3> QED
        BY <2>3, <3>1, <3>2 DEF TypeOK, Answers
    <2> QED
      BY <2>4, <2>5
  <1>3. CASE FinishSendPackAnswer
    BY <1>3, NoPackType, Parameters DEF FinishSendPackAnswer, TypeOK, Answers
  <1> QED
    BY <1>1, <1>2, <1>3

\* The slots for the device's own packages keep the types.
LEMMA PackageType ==
    ASSUME TypeOK, NEW fr \in FrameType,
           \/ ReceivePackage
           \/ CreateBufferCmd(fr.len)
           \/ ReceivedDataBlock(fr.off, fr.data)
           \/ FinishReceivedPackAnswer(fr.data)
    PROVE  TypeOK'
  <1>0. fr.off \in Nat /\ fr.len \in Nat /\ fr.data \in Seq(Words)
    BY DEF FrameType
  <1>1. CASE ReceivePackage
    BY <1>1, IdleDisconnectType, NoPackType DEF ReceivePackage, Answers, Closings
  <1>2. CASE CreateBufferCmd(fr.len)
    <2>1. Pack("APP_CREATE_BUFFER", NoRequest, 0, fr.len) \in Packs
      BY <1>0 DEF Pack, Packs, Commands
    <2>2. recvDataBuffer' \in Seq(Words \cup {Junk})
      BY <1>0, <1>2 DEF CreateBufferCmd
    <2> QED
      BY <1>2, <2>1, <2>2, SendCommandType DEF CreateBufferCmd, TypeOK, Answers
  <1>3. CASE ReceivedDataBlock(fr.off, fr.data)
    <2>1. Len(fr.data) \in Nat
      BY <1>0
    <2>2. Pack("APP_RECEIVE_DATA_BLOCK_CMD", NoRequest, fr.off, Len(fr.data)) \in Packs
      BY <1>0, <2>1 DEF Pack, Packs, Commands
    <2>3. recvDataBuffer' \in Seq(Words \cup {Junk})
      BY <1>0, <1>3, StoredType DEF ReceivedDataBlock, TypeOK
    <2> QED
      BY <1>3, <2>2, <2>3, SendCommandType DEF ReceivedDataBlock, TypeOK, Answers
  <1>4. CASE FinishReceivedPackAnswer(fr.data)
    <2>1. Len(recvDataBuffer) \in Nat
      BY DEF TypeOK
    <2>2. sendLoraPack' \in Packs
      BY <1>4, <2>1 DEF FinishReceivedPackAnswer, Pack, Packs, Commands
    <2>3. sendAnswer' \in Answers
      BY <1>4 DEF FinishReceivedPackAnswer, Answers, Closings
    <2> QED
      BY <1>4, <2>2, <2>3, IdleDisconnectType DEF FinishReceivedPackAnswer
  <1> QED
    BY <1>1, <1>2, <1>3, <1>4

\* A step of a converter to which any frame may come, not only those of Frames,
\* or one of its surroundings, in which its signals are silent.
ReceiveAny == \E fr \in FrameType : Dispatch(fr)

Rests == /\ UNCHANGED object
         /\ sendLoraPack' \in {sendLoraPack, NoPack}
         /\ sendAnswer' \in {sendAnswer, "none"}

Step == \/ Request
        \/ BusyRequest
        \/ ClientGone
        \/ ReceiveAny
        \/ Tick
        \/ AnswerTumeout
        \/ IdleTimeoutFires
        \/ Rests

\* The converter's own specification allows no other steps.
LEMMA NextIsStep == [Next]_vars => Step
  BY ConstantsAssumption DEF Next, vars, Step, Receive, ReceiveAny, Rests

\* Every action of the converter keeps the types.
LEMMA TypeStep == TypeOK /\ Step => TypeOK'
  <1> SUFFICES ASSUME TypeOK, Step PROVE TypeOK'
    OBVIOUS
  <1>1. CASE Request
    BY <1>1, RequestType DEF Request
  <1>2. CASE BusyRequest
    BY <1>2, NoPackType DEF BusyRequest, object, TypeOK, Answers
  <1>3. CASE ClientGone
    BY <1>3, IdleDisconnectType, NoPackType DEF ClientGone, Answers
  <1>4. CASE ReceiveAny
    <2> PICK fr \in FrameType : Dispatch(fr)
      BY <1>4 DEF ReceiveAny
    <2> QED
      BY AnswerType, PackageType DEF Dispatch
  <1>5. CASE Tick
    BY <1>5, NoPackType, Parameters DEF Tick, Running, TypeOK, Answers
  <1>6. CASE AnswerTumeout
    <2>1. CASE AttemptLeft
      <3>1. /\ waitTimer' = AnswerTimeout
            /\ sendLoraPack' = lastLp
            /\ errorCounter' = errorCounter + 1
            /\ attempts' = attempts + 1
            /\ sendAnswer' = "none"
            /\ UNCHANGED <<alive, alreadySent, sendDataBuffer, fileSizeCounter,
                           idleTimer, lastLp, recvDataBuffer, prolonged>>
        BY <1>6, <2>1, Zenon DEF AnswerTumeout
      <3> QED
        BY <3>1, Parameters DEF TypeOK, Answers
    <2>2. CASE ~AttemptLeft
      BY <1>6, <2>2, IdleDisconnectType, NoPackType DEF AnswerTumeout, Answers, Closings
    <2> QED
      BY <2>1, <2>2
  <1>7. CASE IdleTimeoutFires
    BY <1>7, IdleDisconnectType, NoPackType DEF IdleTimeoutFires, Answers
  <1>8. CASE Rests
    BY <1>8, NoPackType DEF Rests, object, TypeOK, Answers
  <1> QED
    BY <1>1, <1>2, <1>3, <1>4, <1>5, <1>6, <1>7, <1>8 DEF Step

\* The program starts with every variable of its type.
LEMMA InitType == ASSUME Init PROVE TypeOK
  <1>1. NoBuffer \in [req : Requests \cup {NoRequest}, size : Nat]
    BY DEF NoBuffer
  <1>2. <<>> \in Seq(Words \cup {Junk})
    OBVIOUS
  <1>3. "none" \in Answers
    BY DEF Answers
  <1>4. /\ sendDataBuffer \in [req : Requests \cup {NoRequest}, size : Nat]
        /\ recvDataBuffer \in Seq(Words \cup {Junk})
        /\ lastLp \in Packs /\ sendLoraPack \in Packs /\ sendAnswer \in Answers
    BY <1>1, <1>2, <1>3, NoPackType DEF Init
  <1>5. waitTimer \in Stopped .. AnswerTimeout /\ idleTimer \in Stopped .. IdleTimeout
    BY Parameters DEF Init
  <1>6. alive \in BOOLEAN /\ alreadySent \in BOOLEAN /\ prolonged \in BOOLEAN
    BY Zenon DEF Init
  <1>7. fileSizeCounter \in Int /\ errorCounter \in Int /\ attempts \in Nat
    BY DEF Init
  <1> QED
    BY <1>4, <1>5, <1>6, <1>7 DEF TypeOK

\* Every variable keeps its type, among them recvDataBuffer, which grows
\* with whatever offset the device names, and the packets sent, whose offset
\* and length come out of a 16-bit counter.
THEOREM TypeCorrect == Spec => []TypeOK
  <1> QED
    BY InitType, TypeStep, NextIsStep, PTL DEF Spec

-----------------------------------------------------------------------------
(* The attempts at one packet.                                             *)

\* AttemptsBounded is not inductive: a retransmission adds to attempts, and
\* only its relation to errorCounter keeps the sum within RetryCount.
AttemptsCounted ==
    alreadySent => /\ alive
                   /\ errorCounter \in 0 .. RetryCount - 1
                   /\ attempts <= errorCounter + 1

\* Every action keeps attempts and errorCounter together.
LEMMA AttemptsStep ==
    ASSUME TypeOK, AttemptsCounted, Step
    PROVE  AttemptsCounted'
  <1> USE Parameters DEF AttemptsCounted
  <1>0. errorCounter \in Int /\ attempts \in Nat
    BY DEF TypeOK
  <1>a. ASSUME IdleDisconnect PROVE AttemptsCounted'
    BY <1>a, Zenon DEF IdleDisconnect
  <1>1. CASE Request
    <2> PICK r \in Requests : AcceptedRequest(r) \/ RefusedRequest(r)
      BY <1>1 DEF Request
    <2>1. CASE AcceptedRequest(r)
      BY <2>1 DEF AcceptedRequest, SendCommand
    <2>2. CASE RefusedRequest(r)
      <3>1. ~alreadySent
        BY <2>2, Zenon DEF RefusedRequest
      <3> QED
        BY <2>2, <3>1, Zenon DEF RefusedRequest
    <2> QED
      BY <2>1, <2>2
  <1>2. CASE BusyRequest
    BY <1>2 DEF BusyRequest, object
  <1>3. CASE ClientGone
    BY <1>3, <1>a DEF ClientGone
  <1>4. CASE ReceiveAny
    <2> PICK fr \in FrameType : Dispatch(fr)
      BY <1>4 DEF ReceiveAny
    <2>1. CASE CreateBufferAnswer(fr.rc)
      BY <1>0, <2>1 DEF CreateBufferAnswer, SendCommand
    <2>2. CASE SendDataBlockAnswer(fr.rc, fr.off, fr.len)
      BY <1>0, <2>2 DEF SendDataBlockAnswer, SendCommand
    <2>3. CASE FinishSendPackAnswer
      BY <2>3 DEF FinishSendPackAnswer
    <2>4. CASE ReceivePackage
      BY <2>4, <1>a DEF ReceivePackage
    <2>5. CASE CreateBufferCmd(fr.len)
      BY <1>0, <2>5 DEF CreateBufferCmd, SendCommand
    <2>6. CASE ReceivedDataBlock(fr.off, fr.data)
      BY <1>0, <2>6 DEF ReceivedDataBlock, SendCommand
    <2>7. CASE FinishReceivedPackAnswer(fr.data)
      BY <2>7, <1>a DEF FinishReceivedPackAnswer
    <2> QED
      BY <2>1, <2>2, <2>3, <2>4, <2>5, <2>6, <2>7 DEF Dispatch
  <1>5. CASE Tick
    BY <1>5 DEF Tick
  <1>6. CASE AnswerTumeout
    <2>1. CASE IdleDisconnect
      BY <2>1, <1>a
    <2>2. CASE ~IdleDisconnect
      <3>1. /\ errorCounter + 1 < RetryCount
            /\ errorCounter' = errorCounter + 1 /\ attempts' = attempts + 1
        BY <1>6, <2>2, Zenon DEF AnswerTumeout, AttemptLeft
      <3>2. UNCHANGED <<alive, alreadySent>>
        BY <1>6, <2>2, Zenon DEF AnswerTumeout
      <3> QED
        BY <1>0, <3>1, <3>2
    <2> QED
      BY <2>1, <2>2
  <1>7. CASE IdleTimeoutFires
    BY <1>7, <1>a DEF IdleTimeoutFires
  <1>8. CASE Rests
    BY <1>8 DEF Rests, object
  <1> QED
    BY <1>1, <1>2, <1>3, <1>4, <1>5, <1>6, <1>7, <1>8 DEF Step

\* In an accepted session no packet goes out more than RetryCount times from
\* one call of sendCommand to the next, whatever the device answers.
THEOREM RetriesBounded == Spec => []AttemptsBounded
  <1>1. Init => AttemptsCounted
    BY Zenon DEF Init, AttemptsCounted
  <1>2. TypeOK /\ AttemptsCounted => AttemptsBounded
    BY Parameters DEF TypeOK, AttemptsCounted, AttemptsBounded
  <1>3. TypeOK /\ AttemptsCounted /\ [Next]_vars => AttemptsCounted'
    BY AttemptsStep, NextIsStep
  <1> QED
    BY <1>1, <1>2, <1>3, TypeCorrect, PTL DEF Spec

-----------------------------------------------------------------------------
(* The packet a timeout would repeat.                                      *)

\* A dropped object has no packet, so that the counters of the next one, set
\* before its first packet, cannot contradict an old packet.
Current == RetransmissionIsCurrent /\ (~alive => lastLp = NoPack)

\* A new packet of neither kind that carries the counter makes Current true.
LEMMA OtherPacket ==
    ASSUME NEW pack, SendCommand(pack), alive',
           pack.cmd \notin {"SEND_DATA_BLOCK_CMD", "FINISH_SEND_DATA_CMD"}
    PROVE  Current'
  BY DEF SendCommand, Current, RetransmissionIsCurrent

\* So does a packet that stands for the new value of the counter.
LEMMA CurrentPacket ==
    ASSUME TypeOK, fileSizeCounter' \in Int, UNCHANGED sendDataBuffer, alive',
           \/ SendCommand(DataBlock(fileSizeCounter'))
           \/ fileSizeCounter' = sendDataBuffer.size /\ SendCommand(CheckBuffer)
    PROVE  Current'
  <1>1. /\ DataBlock(fileSizeCounter').cmd = "SEND_DATA_BLOCK_CMD"
        /\ CheckBuffer.cmd = "FINISH_SEND_DATA_CMD"
    BY DataBlockType, CheckBufferType
  <1>2. /\ DataBlock(fileSizeCounter)' = DataBlock(fileSizeCounter')
        /\ CheckBuffer' = CheckBuffer
    BY DEF DataBlock, CheckBuffer
  <1> QED
    BY <1>1, <1>2 DEF SendCommand, Current, RetransmissionIsCurrent

\* What touches neither the packet nor the counter keeps Current.
LEMMA SamePacket ==
    ASSUME Current, alive => alive', UNCHANGED <<lastLp, fileSizeCounter, sendDataBuffer>>
    PROVE  Current'
  <1>1. DataBlock(fileSizeCounter)' = DataBlock(fileSizeCounter) /\ CheckBuffer' = CheckBuffer
    BY DEF DataBlock, CheckBuffer
  <1> QED
    BY <1>1 DEF Current, RetransmissionIsCurrent

\* Every action keeps the packet to repeat at the counter.
LEMMA CurrentStep ==
    ASSUME TypeOK, Current, Step
    PROVE  Current'
  <1>a. ASSUME IdleDisconnect PROVE Current'
    BY <1>a DEF IdleDisconnect, Current, RetransmissionIsCurrent, NoPack, Pack
  <1>1. CASE Request
    <2> PICK r \in Requests : AcceptedRequest(r) \/ RefusedRequest(r)
      BY <1>1 DEF Request
    <2>1. CASE AcceptedRequest(r)
      BY <2>1, OtherPacket DEF AcceptedRequest, Pack
    <2>2. CASE RefusedRequest(r)
      BY <2>2 DEF RefusedRequest, Current, RetransmissionIsCurrent, NoPack, Pack
    <2> QED
      BY <2>1, <2>2
  <1>2. CASE BusyRequest
    BY <1>2, SamePacket DEF BusyRequest, object
  <1>3. CASE ClientGone
    BY <1>3, <1>a DEF ClientGone
  <1>4. CASE ReceiveAny
    <2> PICK fr \in FrameType : Dispatch(fr)
      BY <1>4 DEF ReceiveAny
    <2>0. fr.len \in Nat /\ fileSizeCounter \in Int
      BY DEF FrameType, TypeOK
    <2>1. CASE CreateBufferAnswer(fr.rc)
      BY <2>1, CurrentPacket, SamePacket DEF CreateBufferAnswer
    <2>2. CASE SendDataBlockAnswer(fr.rc, fr.off, fr.len)
      <3>1. CASE Repeats(fr.rc, fr.off, fr.len)
        BY <2>2, <3>1, SamePacket DEF SendDataBlockAnswer, Confirms
      <3>2. CASE ~Repeats(fr.rc, fr.off, fr.len)
        <4>1. /\ fileSizeCounter' \in Int
              /\ SendCommand(FollowUp(fr.rc, fr.len, fileSizeCounter'))
              /\ UNCHANGED <<alive, sendDataBuffer>> /\ alive
          BY <2>0, <2>2, <3>2 DEF SendDataBlockAnswer
        <4> QED
          BY <4>1, CurrentPacket DEF FollowUp
      <3> QED
        BY <3>1, <3>2
    <2>3. CASE FinishSendPackAnswer
      BY <2>3, SamePacket DEF FinishSendPackAnswer
    <2>4. CASE ReceivePackage
      BY <2>4, <1>a DEF ReceivePackage
    <2>5. CASE CreateBufferCmd(fr.len)
      BY <2>5, OtherPacket DEF CreateBufferCmd, Pack
    <2>6. CASE ReceivedDataBlock(fr.off, fr.data)
      BY <2>6, OtherPacket DEF ReceivedDataBlock, Pack
    <2>7. CASE FinishReceivedPackAnswer(fr.data)
      BY <2>7, <1>a DEF FinishReceivedPackAnswer
    <2> QED
      BY <2>1, <2>2, <2>3, <2>4, <2>5, <2>6, <2>7 DEF Dispatch
  <1>5. CASE Tick
    BY <1>5, SamePacket DEF Tick
  <1>6. CASE AnswerTumeout
    <2>1. CASE IdleDisconnect
      BY <2>1, <1>a
    <2>2. CASE ~IdleDisconnect
      BY <1>6, <2>2, SamePacket DEF AnswerTumeout
    <2> QED
      BY <2>1, <2>2
  <1>7. CASE IdleTimeoutFires
    BY <1>7, <1>a DEF IdleTimeoutFires
  <1>8. CASE Rests
    BY <1>8, SamePacket DEF Rests, object
  <1> QED
    BY <1>1, <1>2, <1>3, <1>4, <1>5, <1>6, <1>7, <1>8 DEF Step

\* A timeout repeats the packet the session stands at, for every order of
\* answers, repeated answers and restarted buffers.
THEOREM RetransmitsCurrent == Spec => []RetransmissionIsCurrent
  <1>1. Init => Current
    BY DEF Init, Current, RetransmissionIsCurrent, NoPack, Pack
  <1>2. Current => RetransmissionIsCurrent
    BY DEF Current
  <1>3. TypeOK /\ Current /\ [Next]_vars => Current'
    BY CurrentStep, NextIsStep
  <1> QED
    BY <1>1, <1>2, <1>3, TypeCorrect, PTL DEF Spec

-----------------------------------------------------------------------------
(* No device stays locked.                                                 *)

\* sendCommand starts both timers and remembers a packet.
LEMMA SendCommandWatches ==
    ASSUME NEW pack, pack.cmd # "none", SendCommand(pack), alive'
    PROVE  Watched'
  BY Parameters DEF SendCommand, Watched, NoPack, Pack

\* A step that leaves the idle timer, the packet and the two flags alone and
\* starts the wait timer only for an object in the list keeps Watched.
LEMMA SameWatch ==
    ASSUME Watched, UNCHANGED <<alive, alreadySent, idleTimer, lastLp>>,
           waitTimer' # Stopped => alive \/ waitTimer # Stopped
    PROVE  Watched'
  BY DEF Watched

\* Every slot, error path and timeout keeps the entry watched.
LEMMA WatchedStep ==
    ASSUME TypeOK, Watched, AttemptsCounted, Step
    PROVE  Watched'
  <1>a. ASSUME IdleDisconnect PROVE Watched'
    BY <1>a, Zenon DEF IdleDisconnect, Watched
  <1>1. CASE Request
    <2> PICK r \in Requests : AcceptedRequest(r) \/ RefusedRequest(r)
      BY <1>1 DEF Request
    <2>1. CASE AcceptedRequest(r)
      BY <2>1, SendCommandWatches DEF AcceptedRequest, Pack
    <2>2. CASE RefusedRequest(r)
      <3>1. ~alreadySent /\ ~alive
        BY <2>2, Zenon DEF RefusedRequest, AttemptsCounted
      <3> QED
        BY <2>2, <3>1, Parameters DEF RefusedRequest, Watched
    <2> QED
      BY <2>1, <2>2
  <1>2. CASE BusyRequest
    BY <1>2, SameWatch DEF BusyRequest, object
  <1>3. CASE ClientGone
    BY <1>3, <1>a DEF ClientGone
  <1>4. CASE ReceiveAny
    <2> PICK fr \in FrameType : Dispatch(fr)
      BY <1>4 DEF ReceiveAny
    <2>0. fr.len \in Nat /\ fileSizeCounter \in Int /\ fileSizeCounter + fr.len \in Int
      BY DEF FrameType, TypeOK
    <2>1. CASE CreateBufferAnswer(fr.rc)
      <3>1. DataBlock(0).cmd # "none"
        BY DataBlockType
      <3> QED
        BY <2>1, <3>1, SendCommandWatches, SameWatch DEF CreateBufferAnswer
    <2>2. CASE SendDataBlockAnswer(fr.rc, fr.off, fr.len)
      <3>1. \A pos \in Int : FollowUp(fr.rc, fr.len, pos).cmd # "none"
        BY DataBlockType, CheckBufferType DEF FollowUp
      <3> QED
        BY <2>0, <2>2, <3>1, SendCommandWatches, SameWatch DEF SendDataBlockAnswer
    <2>3. CASE FinishSendPackAnswer
      BY <2>3, SameWatch DEF FinishSendPackAnswer
    <2>4. CASE ReceivePackage
      BY <2>4, <1>a DEF ReceivePackage
    <2>5. CASE CreateBufferCmd(fr.len)
      BY <2>5, SendCommandWatches DEF CreateBufferCmd, Pack
    <2>6. CASE ReceivedDataBlock(fr.off, fr.data)
      BY <2>6, SendCommandWatches DEF ReceivedDataBlock, Pack
    <2>7. CASE FinishReceivedPackAnswer(fr.data)
      BY <2>7, <1>a DEF FinishReceivedPackAnswer
    <2> QED
      BY <2>1, <2>2, <2>3, <2>4, <2>5, <2>6, <2>7 DEF Dispatch
  <1>5. CASE Tick
    <2>1. idleTimer' # Stopped
      BY <1>5, Parameters DEF Tick, Running, Watched, TypeOK
    <2> QED
      BY <1>5, <2>1 DEF Tick, Watched
  <1>6. CASE AnswerTumeout
    <2>1. CASE IdleDisconnect
      BY <2>1, <1>a
    <2>2. CASE ~IdleDisconnect
      BY <1>6, <2>2, SameWatch DEF AnswerTumeout
    <2> QED
      BY <2>1, <2>2
  <1>7. CASE IdleTimeoutFires
    BY <1>7, <1>a DEF IdleTimeoutFires
  <1>8. CASE Rests
    BY <1>8 DEF Rests, object, Watched
  <1> QED
    BY <1>1, <1>2, <1>3, <1>4, <1>5, <1>6, <1>7, <1>8 DEF Step

\* Behind every entry of converterList runs an idle timer: no order of
\* requests, answers and timeouts leaves a device in the list for good.
THEOREM EntriesWatched == Spec => []Watched
  <1>1. Init => Watched /\ AttemptsCounted
    BY Zenon DEF Init, Watched, AttemptsCounted
  <1>2. TypeOK /\ AttemptsCounted /\ [Next]_vars => AttemptsCounted'
    BY AttemptsStep, NextIsStep
  <1>3. TypeOK /\ Watched /\ AttemptsCounted /\ [Next]_vars => Watched'
    BY WatchedStep, NextIsStep
  <1> QED
    BY <1>1, <1>2, <1>3, TypeCorrect, PTL DEF Spec

-----------------------------------------------------------------------------
(* Two timers.                                                             *)

\* SilenceIsReported is not inductive: what has passed of the idle period,
\* with what is left of the wait, is one answer period for every attempt.
WaitCounted ==
    alreadySent /\ waitTimer # Stopped /\ ~prolonged =>
        (IdleTimeout - idleTimer) + waitTimer <= attempts * AnswerTimeout

\* A new packet starts both timers and the count of its attempts.
LEMMA SendCommandCounts ==
    ASSUME NEW pack, SendCommand(pack)
    PROVE  WaitCounted'
  <1>1. idleTimer' = IdleTimeout /\ waitTimer' = AnswerTimeout /\ attempts' = 1
    BY DEF SendCommand
  <1> QED
    BY <1>1, Parameters DEF WaitCounted

\* A step that stops the wait timer or leaves both timers alone keeps the count.
LEMMA SameWait ==
    ASSUME WaitCounted, UNCHANGED <<alreadySent, idleTimer, attempts, prolonged>>,
           waitTimer' \in {waitTimer, Stopped}
    PROVE  WaitCounted'
  BY DEF WaitCounted

\* One attempt more is worth one answer period more.
LEMMA OneMore ==
    ASSUME NEW m \in Nat, NEW period \in Nat
    PROVE  /\ m * period \in Nat
           /\ (m + 1) * period = m * period + period
  OBVIOUS

\* No more attempts are worth no more answer periods.
LEMMA NoMore ==
    ASSUME NEW m \in Nat, NEW n \in Nat, NEW period \in Nat, m <= n
    PROVE  m * period <= n * period
  <1>1. PICK d \in Nat : n = m + d
    <2>1. n - m \in Nat /\ n = m + (n - m)
      OBVIOUS
    <2> QED
      BY <2>1
  <1>2. n * period = m * period + d * period
    BY <1>1
  <1>3. m * period \in Nat /\ d * period \in Nat
    OBVIOUS
  <1> QED
    BY <1>2, <1>3

\* Every action keeps the two timers together.
LEMMA WaitStep ==
    ASSUME TypeOK, Watched, AttemptsCounted, WaitCounted, Step
    PROVE  WaitCounted'
  <1> USE Parameters
  <1>0. /\ waitTimer \in Int /\ idleTimer \in Int /\ attempts \in Nat
        /\ waitTimer >= Stopped /\ idleTimer >= Stopped
    BY DEF TypeOK
  <1>a. ASSUME IdleDisconnect PROVE WaitCounted'
    BY <1>a, Zenon DEF IdleDisconnect, WaitCounted
  <1>1. CASE Request
    <2> PICK r \in Requests : AcceptedRequest(r) \/ RefusedRequest(r)
      BY <1>1 DEF Request
    <2>1. CASE AcceptedRequest(r)
      BY <2>1, SendCommandCounts DEF AcceptedRequest
    <2>2. CASE RefusedRequest(r)
      <3>1. ~alreadySent'
        BY <2>2, Zenon DEF RefusedRequest, AttemptsCounted
      <3> QED
        BY <3>1, Zenon DEF WaitCounted
    <2> QED
      BY <2>1, <2>2
  <1>2. CASE BusyRequest
    BY <1>2, SameWait DEF BusyRequest, object
  <1>3. CASE ClientGone
    BY <1>3, <1>a DEF ClientGone
  <1>4. CASE ReceiveAny
    <2> PICK fr \in FrameType : Dispatch(fr)
      BY <1>4 DEF ReceiveAny
    <2>1. CASE CreateBufferAnswer(fr.rc)
      BY <2>1, SendCommandCounts, SameWait DEF CreateBufferAnswer
    <2>2. CASE SendDataBlockAnswer(fr.rc, fr.off, fr.len)
      <3>1. CASE prolonged'
        BY <3>1, Zenon DEF WaitCounted
      <3>2. CASE ~prolonged'
        BY <2>2, <3>2, SendCommandCounts DEF SendDataBlockAnswer
      <3> QED
        BY <3>1, <3>2
    <2>3. CASE FinishSendPackAnswer
      BY <2>3, SameWait DEF FinishSendPackAnswer
    <2>4. CASE ReceivePackage
      BY <2>4, <1>a DEF ReceivePackage
    <2>5. CASE CreateBufferCmd(fr.len)
      BY <2>5, SendCommandCounts DEF CreateBufferCmd
    <2>6. CASE ReceivedDataBlock(fr.off, fr.data)
      BY <2>6, SendCommandCounts DEF ReceivedDataBlock
    <2>7. CASE FinishReceivedPackAnswer(fr.data)
      BY <2>7, <1>a DEF FinishReceivedPackAnswer
    <2> QED
      BY <2>1, <2>2, <2>3, <2>4, <2>5, <2>6, <2>7 DEF Dispatch
  <1>5. CASE Tick
    <2>1. /\ UNCHANGED <<alreadySent, attempts, prolonged>>
          /\ idleTimer # Stopped /\ idleTimer' = idleTimer - 1
          /\ waitTimer' = IF waitTimer = Stopped THEN Stopped ELSE waitTimer - 1
      BY <1>5 DEF Tick, Running, Watched
    <2> QED
      BY <1>0, <2>1, OneMore DEF WaitCounted
  <1>6. CASE AnswerTumeout
    <2>1. CASE IdleDisconnect
      BY <2>1, <1>a
    <2>2. CASE ~IdleDisconnect
      <3>1. /\ UNCHANGED <<alreadySent, idleTimer, prolonged>>
            /\ waitTimer = 0 /\ waitTimer' = AnswerTimeout
            /\ attempts' = attempts + 1
        BY <1>6, <2>2, Zenon DEF AnswerTumeout
      <3>2. attempts' * AnswerTimeout = attempts * AnswerTimeout + AnswerTimeout
        BY <1>0, <3>1, OneMore
      <3> QED
        BY <1>0, <3>1, <3>2, OneMore DEF WaitCounted
    <2> QED
      BY <2>1, <2>2
  <1>7. CASE IdleTimeoutFires
    BY <1>7, <1>a DEF IdleTimeoutFires
  <1>8. CASE Rests
    BY <1>8, SameWait DEF Rests, object
  <1> QED
    BY <1>1, <1>2, <1>3, <1>4, <1>5, <1>6, <1>7, <1>8 DEF Step

\* Within the attempts a packet has, an idle period that long does not run out.
LEMMA WaitReported ==
    ASSUME TypeOK, AttemptsCounted, WaitCounted
    PROVE  SilenceIsReported
  <1> SUFFICES ASSUME IdleTimeout > RetryCount * AnswerTimeout,
                      alreadySent, idleTimer = 0, waitTimer # Stopped, ~prolonged
               PROVE  FALSE
    BY Zenon DEF SilenceIsReported
  <1>1. attempts \in Nat /\ attempts <= RetryCount
    BY Parameters DEF TypeOK, AttemptsCounted
  <1>2. attempts * AnswerTimeout <= RetryCount * AnswerTimeout
    BY <1>1, Parameters, NoMore
  <1>3. waitTimer \in Nat
    BY Parameters DEF TypeOK
  <1>4. (IdleTimeout - idleTimer) + waitTimer <= attempts * AnswerTimeout
    BY Zenon DEF WaitCounted
  <1>5. /\ attempts * AnswerTimeout \in Nat /\ RetryCount * AnswerTimeout \in Nat
        /\ IdleTimeout \in Nat
    BY <1>1, Parameters, OneMore
  <1> QED
    BY <1>2, <1>3, <1>4, <1>5

\* With an idle period longer than all attempts together, whatever the three
\* settings are, a session in which a packet awaits its answer ends in silence
\* only after a repeated answer has prolonged the wait.
THEOREM SilenceReported == Spec => []SilenceIsReported
  <1>1. Init => Watched /\ AttemptsCounted /\ WaitCounted
    BY Zenon DEF Init, Watched, AttemptsCounted, WaitCounted
  <1>2. TypeOK /\ AttemptsCounted /\ [Next]_vars => AttemptsCounted'
    BY AttemptsStep, NextIsStep
  <1>3. TypeOK /\ Watched /\ AttemptsCounted /\ [Next]_vars => Watched'
    BY WatchedStep, NextIsStep
  <1>4. TypeOK /\ Watched /\ AttemptsCounted /\ WaitCounted /\ [Next]_vars
            => WaitCounted'
    BY WaitStep, NextIsStep
  <1>5. TypeOK /\ AttemptsCounted /\ WaitCounted => SilenceIsReported
    BY WaitReported
  <1> QED
    BY <1>1, <1>2, <1>3, <1>4, <1>5, TypeCorrect, PTL DEF Spec

-----------------------------------------------------------------------------
(* What the application sees.                                              *)

\* A step that goes on with the session is a step of the contract.
LEMMA SessionGoesOn ==
    ASSUME alive, UNCHANGED <<alive, alreadySent>>,
           sendAnswer' \in {"none", "busy", "createError"}
    PROVE  Contract!Next
  <1>1. SessionStatus # "none" /\ SessionStatus' = SessionStatus
    BY DEF SessionStatus
  <1> QED
    BY <1>1 DEF Contract!Next, Contract!Busy, Contract!Report, Contract!Work

\* So is a step that ends it.
LEMMA SessionEnds ==
    ASSUME alive, IdleDisconnect, sendAnswer' \in Closings \cup {"none"}
    PROVE  Contract!Next
  <1>1. SessionStatus # "none" /\ SessionStatus' = "none"
    BY DEF SessionStatus, IdleDisconnect
  <1> QED
    BY <1>1 DEF Contract!Next, Contract!Close, Contract!Abandon, Closings, Contract!Closings

\* Every action of the converter is a step of a Session or a stutter.
LEMMA ContractStep ==
    ASSUME AttemptsCounted, [Next]_vars
    PROVE  [Contract!Next]_<<SessionStatus, sendAnswer>>
  <1>1. CASE Request
    <2> PICK r \in Requests : AcceptedRequest(r) \/ RefusedRequest(r)
      BY <1>1 DEF Request
    <2>1. CASE AcceptedRequest(r)
      <3>1. SessionStatus = "none" /\ SessionStatus' = "open"
        BY <2>1 DEF AcceptedRequest, SessionStatus
      <3> QED
        BY <2>1, <3>1 DEF AcceptedRequest, Contract!Next, Contract!Accept
    <2>2. CASE RefusedRequest(r)
      <3>1. ~alive /\ alive' /\ ~alreadySent'
        BY <2>2, Zenon DEF RefusedRequest, AttemptsCounted
      <3>2. SessionStatus = "none" /\ SessionStatus' = "refused"
        BY <3>1 DEF SessionStatus
      <3>3. sendAnswer' \in Contract!Refusals
        BY <2>2 DEF RefusedRequest, Refusals, Contract!Refusals
      <3> QED
        BY <3>2, <3>3 DEF Contract!Next, Contract!Refuse
    <2> QED
      BY <2>1, <2>2
  <1>2. CASE BusyRequest
    BY <1>2, SessionGoesOn DEF BusyRequest, object
  <1>3. CASE ClientGone
    BY <1>3, SessionEnds DEF ClientGone
  <1>4. CASE Receive
    <2> PICK fr \in Frames : Dispatch(fr)
      BY <1>4 DEF Receive
    <2>1. CASE CreateBufferAnswer(fr.rc)
      BY <2>1, SessionGoesOn DEF CreateBufferAnswer
    <2>2. CASE SendDataBlockAnswer(fr.rc, fr.off, fr.len)
      BY <2>2, SessionGoesOn DEF SendDataBlockAnswer
    <2>3. CASE FinishSendPackAnswer
      BY <2>3, SessionGoesOn DEF FinishSendPackAnswer
    <2>4. CASE ReceivePackage
      BY <2>4, SessionEnds DEF ReceivePackage, Closings
    <2>5. CASE CreateBufferCmd(fr.len)
      BY <2>5, SessionGoesOn DEF CreateBufferCmd
    <2>6. CASE ReceivedDataBlock(fr.off, fr.data)
      BY <2>6, SessionGoesOn DEF ReceivedDataBlock
    <2>7. CASE FinishReceivedPackAnswer(fr.data)
      BY <2>7, SessionEnds DEF FinishReceivedPackAnswer, Closings
    <2> QED
      BY <2>1, <2>2, <2>3, <2>4, <2>5, <2>6, <2>7 DEF Dispatch
  <1>5. CASE Tick
    BY <1>5, SessionGoesOn DEF Tick
  <1>6. CASE AnswerTumeout
    BY <1>6, SessionEnds, SessionGoesOn DEF AnswerTumeout, Closings
  <1>7. CASE IdleTimeoutFires
    BY <1>7, SessionEnds DEF IdleTimeoutFires
  <1>8. CASE UNCHANGED vars
    BY <1>8 DEF vars, object, SessionStatus
  <1> QED
    BY <1>1, <1>2, <1>3, <1>4, <1>5, <1>6, <1>7, <1>8 DEF Next

\* The converter that stands in converterList implements Session: one
\* acceptance or refusal when its entry is made, requests turned away while it
\* is there, a closing answer only in the step that removes it.  What an
\* object still answers that has been removed is no step of Converter.
THEOREM ImplementsSession == Spec => FollowsContract
  <1>1. Init => Contract!Init /\ AttemptsCounted
    BY Zenon DEF Init, Contract!Init, SessionStatus, AttemptsCounted
  <1>2. TypeOK /\ AttemptsCounted /\ [Next]_vars => AttemptsCounted'
    BY AttemptsStep, NextIsStep
  <1>3. AttemptsCounted /\ [Next]_vars
            => [Contract!Next]_<<SessionStatus, sendAnswer>>
    BY ContractStep
  <1> QED
    BY <1>1, <1>2, <1>3, TypeCorrect, PTL DEF Spec, FollowsContract, Contract!Spec

=============================================================================
