------------------------------ MODULE Converter ------------------------------
(***************************************************************************)
(* One Converter (converter.h, converter.cpp): the object that carries one *)
(* application request to the device with one DevEUI, in pieces small      *)
(* enough for LoRa, and carries the device's answer back.  The module also *)
(* holds the entry the object has in WebApiServer's converterList, because *)
(* the entry decides whether the next request for the same device gets a   *)
(* new Converter or the answer "Data already sent.".                       *)
(*                                                                         *)
(* Every slot of the class is an action.  The two signals it emits are the *)
(* variables sendLoraPack and sendAnswer: what the last step emitted.  The *)
(* two QTimers count down in ticks, so that the order in which they expire *)
(* is the one their periods give.                                          *)
(*                                                                         *)
(* Frames are abstracted to the fields the slots look at, a byte string to *)
(* the request it belongs to and its length, a CRC to the content it is    *)
(* computed from.  The LoRa port and the serial interface number are       *)
(* echoed and never tested, and are left out.                              *)
(***************************************************************************)
EXTENDS Integers, Sequences

CONSTANTS
    Requests,       \* the requests applications make for this device
    DataSize,       \* the number of data bytes of each request
    NoRequest,      \* in the place of a request where there is none
    Words,          \* what a byte sent by the device may hold
    Junk,           \* a byte of recvDataBuffer nobody has written
    Frames,         \* the frames that may reach the converter
    Garbage,        \* what an uninitialised int member may hold
    BlockSize,      \* LORA_DATA_BLOCK_SIZE
    MaxData,        \* the 512 bytes of setDataPackage
    RetryCount,     \* setting Net868_Server/RetryCount
    AnswerTimeout,  \* setting Net868_Server/AnswerTimeout, in ticks
    IdleTimeout,    \* setting MainApp/IdleTimeout, in ticks
    U16,            \* the number of values of a quint16
    MaxCounter      \* bound on fileSizeCounter under arbitrary answers

VARIABLES
    alive,            \* converterList holds the converter
    alreadySent,      \* Converter::alreadySent
    sendDataBuffer,   \* whose data it holds, and how many bytes
    fileSizeCounter,  \* Converter::fileSizeCounter
    errorCounter,     \* Converter::errorCounter
    waitTimer,        \* ticks until answerTumeout, or Stopped
    idleTimer,        \* ticks until idleTimeout, or Stopped
    lastLp,           \* Converter::lastLp
    recvDataBuffer,   \* Converter::recvDataBuffer, byte by byte
    sendLoraPack,     \* the packet emitted by the last step, or NoPack
    sendAnswer,       \* the answer emitted by the last step, or "none"
    attempts,         \* history: how often lastLp has been emitted since it
                      \* was last given to sendCommand
    prolonged         \* history: a repeated answer has restarted waitTimer
                      \* since the last sendCommand

object == <<alive, alreadySent, sendDataBuffer, fileSizeCounter, errorCounter,
            waitTimer, idleTimer, lastLp, recvDataBuffer, attempts, prolonged>>

vars == <<object, sendLoraPack, sendAnswer>>

-----------------------------------------------------------------------------
(* Packets to the device, frames from it, answers to the application.      *)

Commands == {"SEND_PACKAGE_ANSWER_CMD", "DEV_CREATE_BUFFER_CMD",
             "SEND_DATA_BLOCK_CMD", "FINISH_SEND_DATA_CMD",
             "APP_CREATE_BUFFER", "APP_RECEIVE_DATA_BLOCK_CMD",
             "APP_FINISH_RECV_DATA_CMD"}

Packs == [cmd : Commands \cup {"none"}, req : Requests \cup {NoRequest},
          off : Nat, len : Nat]

Pack(cmd, req, off, len) == [cmd |-> cmd, req |-> req, off |-> off, len |-> len]

NoPack == Pack("none", NoRequest, 0, 0)

FrameCommands == {"SEND_DATA_BLOCK_CMD", "DEV_CREATE_BUFFER_CMD",
                  "RECEIVE_PACKAGE_CMD", "FINISH_SEND_DATA_CMD",
                  "DEV_CREATE_BUFFER", "DEV_RECEIVE_DATA_BLOCK_CMD",
                  "DEV_FINISH_RECV_DATA_CMD"}

FrameType == [cmd : FrameCommands, rc : Nat, off : Nat, len : Nat,
              data : Seq(Words)]

Frame(cmd, rc, off, len, data) ==
    [cmd |-> cmd, rc |-> rc, off |-> off, len |-> len, data |-> data]

Refusals == {"tooBig", "empty"}
Closings == {"ok", "badCrc", "timeout"}
Answers  == {"none", "accepted", "busy", "createError"} \cup Refusals \cup Closings

-----------------------------------------------------------------------------
ASSUME ConstantsAssumption ==
    /\ DataSize \in [Requests -> Nat]
    /\ NoRequest \notin Requests
    /\ Junk \notin Words
    /\ Frames \subseteq FrameType
    /\ Garbage \subseteq Int
    /\ {BlockSize, MaxData, RetryCount, AnswerTimeout, IdleTimeout, U16}
           \subseteq Nat \ {0}
    /\ MaxCounter \in Int

Stopped == -1

HeaderSize == 3     \* the 0x8900 header in front of a large request's data

NoBuffer == [req |-> NoRequest, size |-> 0]

TypeOK ==
    /\ alive \in BOOLEAN
    /\ alreadySent \in BOOLEAN
    /\ sendDataBuffer \in [req : Requests \cup {NoRequest}, size : Nat]
    /\ fileSizeCounter \in Int
    /\ errorCounter \in Int
    /\ waitTimer \in Stopped .. AnswerTimeout
    /\ idleTimer \in Stopped .. IdleTimeout
    /\ lastLp \in Packs
    /\ recvDataBuffer \in Seq(Words \cup {Junk})
    /\ sendLoraPack \in Packs
    /\ sendAnswer \in Answers
    /\ attempts \in Nat
    /\ prolonged \in BOOLEAN

-----------------------------------------------------------------------------
(* The object's life.                                                      *)

Init ==
    /\ alive = FALSE
    /\ alreadySent = FALSE
    /\ sendDataBuffer = NoBuffer
    /\ fileSizeCounter = 0
    /\ errorCounter = 0
    /\ waitTimer = Stopped
    /\ idleTimer = Stopped
    /\ lastLp = NoPack
    /\ recvDataBuffer = <<>>
    /\ attempts = 0
    /\ prolonged = FALSE
    /\ sendLoraPack = NoPack
    /\ sendAnswer = "none"

\* idleTimeout() -> WebApiServer::idleDisconnectTimeout takes the entry out of
\* converterList and posts the object's DeferredDelete.  The object goes with
\* its members and timers in the same step here: the slots that may still run
\* until the event is served are those of an object that no entry leads to any
\* more.  They are left out of this module and those that extend it, and are
\* the subject of WebApiServer.
IdleDisconnect ==
    /\ alive' = FALSE
    /\ alreadySent' = FALSE
    /\ sendDataBuffer' = NoBuffer
    /\ fileSizeCounter' = 0
    /\ errorCounter' = 0
    /\ waitTimer' = Stopped
    /\ idleTimer' = Stopped
    /\ lastLp' = NoPack
    /\ recvDataBuffer' = <<>>
    /\ attempts' = 0
    /\ prolonged' = FALSE

\* Faulty variant: the constructor scales the period of waitTimer twice.
SendCommandWaitsTwice(pack) ==
    /\ lastLp' = pack
    /\ sendLoraPack' = pack
    /\ idleTimer' = IdleTimeout
    /\ waitTimer' = 2 * AnswerTimeout
    /\ attempts' = 1
    /\ prolonged' = FALSE

\* Faulty variant: no new idle period but the one that the constructor and
\* setDataPackage start.
SendCommandNotIdle(pack) ==
    /\ lastLp' = pack
    /\ sendLoraPack' = pack
    /\ idleTimer' = IF alive THEN idleTimer ELSE IdleTimeout
    /\ waitTimer' = AnswerTimeout
    /\ attempts' = 1
    /\ prolonged' = FALSE

\* sendCommand: remember the packet, emit it, start both timers.  The packet
\* may be the one sent last: a block that was answered with an error is given
\* to sendCommand again, and its attempts count anew.  (The one command that
\* starts no wait timer, APP_FINISH_RECV_DATA_CMD, is only sent by a slot that
\* also drops the object.)
SendCommand(pack) ==
    /\ lastLp' = pack
    /\ sendLoraPack' = pack
    /\ idleTimer' = IdleTimeout
    /\ waitTimer' = AnswerTimeout
    /\ attempts' = 1
    /\ prolonged' = FALSE

-----------------------------------------------------------------------------
(* Requests: WebApiServer::processTextMessage and Converter::setDataPackage *)

\* Faulty variant: the request is passed on to the converter, whose
\* setDataPackage starts with a new idle period.
BusyRequestPassedOn ==
    /\ alive
    /\ idleTimer' = IdleTimeout
    /\ sendAnswer' = "busy"
    /\ sendLoraPack' = NoPack
    /\ UNCHANGED <<alive, alreadySent, sendDataBuffer, fileSizeCounter, errorCounter,
                   waitTimer, lastLp, recvDataBuffer, attempts, prolonged>>

\* converterList contains the DevEUI: whatever the converter is doing, the
\* request is turned away and the converter is not told.
BusyRequest ==
    /\ alive
    /\ sendAnswer' = "busy"
    /\ sendLoraPack' = NoPack
    /\ UNCHANGED object

Refusal(size) == IF size > MaxData THEN "tooBig"
                 ELSE IF size < 1 THEN "empty" ELSE "none"

\* A refused request leaves a converter behind: in the list, its idle timer
\* running, its two counters never initialised.
RefusedRequest(r) ==
    /\ ~alive
    /\ Refusal(DataSize[r]) \in Refusals
    /\ alive' = TRUE
    /\ idleTimer' = IdleTimeout
    /\ fileSizeCounter' \in Garbage
    /\ errorCounter' \in Garbage
    /\ sendAnswer' = Refusal(DataSize[r])
    /\ sendLoraPack' = NoPack
    /\ UNCHANGED <<alreadySent, sendDataBuffer, waitTimer, lastLp,
                   recvDataBuffer, attempts, prolonged>>

\* A request that fits into one packet is sent as it is; a larger one goes
\* into sendDataBuffer behind its header, and the device is first asked to
\* create a buffer.  (The idle period that sendCommand starts is at the same
\* instant started by the constructor and by setDataPackage.)
AcceptedRequest(r) ==
    LET size == DataSize[r] + HeaderSize
        small == DataSize[r] <= BlockSize
    IN  /\ ~alive
        /\ Refusal(DataSize[r]) = "none"
        /\ alive' = TRUE
        /\ alreadySent' = TRUE
        /\ fileSizeCounter' = 0
        /\ errorCounter' = 0
        /\ sendDataBuffer' = IF small THEN NoBuffer
                             ELSE [req |-> r, size |-> size]
        /\ SendCommand(Pack(IF small THEN "SEND_PACKAGE_ANSWER_CMD"
                            ELSE "DEV_CREATE_BUFFER_CMD", r, 0, size))
        /\ sendAnswer' = "accepted"
        /\ UNCHANGED recvDataBuffer

\* The client's socket disconnects: its converters are deleted, and printMsg
\* takes the entry out of the list.
ClientGone ==
    /\ alive
    /\ IdleDisconnect
    /\ sendLoraPack' = NoPack
    /\ sendAnswer' = "none"

-----------------------------------------------------------------------------
(* The packets of a large request.                                         *)

\* Faulty variant: nothing is cut off at the end of the buffer.
DataBlockUncut(pos) ==
    LET off == pos % U16
        left == sendDataBuffer.size - off
    IN  Pack("SEND_DATA_BLOCK_CMD", sendDataBuffer.req, off,
             IF BlockSize <= left THEN BlockSize ELSE left)

\* sendDataBlock: the argument is a quint16, and QByteArray::mid past the
\* end of the buffer is empty.
DataBlock(pos) ==
    LET off == pos % U16
        left == sendDataBuffer.size - off
    IN  Pack("SEND_DATA_BLOCK_CMD", sendDataBuffer.req, off,
             IF BlockSize <= left THEN BlockSize ELSE IF left > 0 THEN left ELSE 0)

\* getCheckBuffer: size and CRC of what was to be sent.
CheckBuffer ==
    Pack("FINISH_SEND_DATA_CMD", sendDataBuffer.req, 0, sendDataBuffer.size)

-----------------------------------------------------------------------------
(* The sending half: answers of the device to the packets sent to it.      *)

\* createBufferAnswer: from the first byte on, or an error for the client.
CreateBufferAnswer(rc) ==
    /\ alive
    /\ UNCHANGED <<alive, alreadySent, sendDataBuffer, recvDataBuffer>>
    /\ \/ /\ rc = 0
          /\ fileSizeCounter' = 0
          /\ errorCounter' = 0
          /\ SendCommand(DataBlock(0))
          /\ sendAnswer' = "none"
       \/ /\ rc # 0
          /\ waitTimer' = Stopped
          /\ sendAnswer' = "createError"
          /\ sendLoraPack' = NoPack
          /\ UNCHANGED <<fileSizeCounter, errorCounter, idleTimer, lastLp, attempts,
                         prolonged>>

\* sendDataBlockAnswer looks at an answer that wrote something or failed;
\* after it the device's counter stands at Reached, a quint16.
Counts(rc, len) == len > 0 \/ rc # 0

Reached(off, len) == (off + len) % U16

\* The answer is a repetition of the one that brought fileSizeCounter here.
Repeats(rc, off, len) ==
    /\ Counts(rc, len)
    /\ Reached(off, len) > 0
    /\ Reached(off, len) - fileSizeCounter < len
    /\ Reached(off, len) = fileSizeCounter

\* Faulty variant: any answer confirms.
ConfirmsAny(rc, off, len) == Counts(rc, len) /\ Reached(off, len) > 0

\* The answer confirms the block at fileSizeCounter, or ends the buffer.
Confirms(rc, off, len) ==
    /\ Counts(rc, len)
    /\ Reached(off, len) > 0
    /\ ~Repeats(rc, off, len)
    /\ \/ Reached(off, len) - fileSizeCounter = len
       \/ Reached(off, len) = sendDataBuffer.size

\* Faulty variants: the packet is chosen before the counter moves; the check
\* is asked for one block early.
FollowUpStale(rc, len, pos) ==
    IF Counts(rc, len) /\ fileSizeCounter = sendDataBuffer.size
    THEN CheckBuffer ELSE DataBlock(fileSizeCounter)

FollowUpEarly(rc, len, pos) ==
    IF Counts(rc, len) /\ pos + BlockSize >= sendDataBuffer.size
    THEN CheckBuffer ELSE DataBlock(pos)

\* After the answer, with the counter at pos: the check of the whole buffer
\* when all of it is confirmed, else the block at pos.
FollowUp(rc, len, pos) ==
    IF Counts(rc, len) /\ pos = sendDataBuffer.size THEN CheckBuffer
                                                    ELSE DataBlock(pos)

SendDataBlockAnswer(rc, off, len) ==
    /\ alive
    /\ sendAnswer' = "none"
    /\ UNCHANGED <<alive, alreadySent, sendDataBuffer, recvDataBuffer>>
    /\ \/ /\ Repeats(rc, off, len)
          /\ waitTimer' = AnswerTimeout
          /\ sendLoraPack' = NoPack
          /\ prolonged' = TRUE
          /\ UNCHANGED <<fileSizeCounter, errorCounter, idleTimer, lastLp, attempts>>
       \/ /\ Confirms(rc, off, len)
          /\ fileSizeCounter' = fileSizeCounter + len
          /\ errorCounter' = 0
          /\ SendCommand(FollowUp(rc, len, fileSizeCounter + len))
       \/ /\ ~Repeats(rc, off, len)
          /\ ~Confirms(rc, off, len)
          /\ SendCommand(FollowUp(rc, len, fileSizeCounter))
          /\ UNCHANGED <<fileSizeCounter, errorCounter>>

\* Faulty variant: both timers stop.
FinishSendPackAnswerStopsBoth ==
    /\ alive
    /\ waitTimer' = Stopped
    /\ idleTimer' = Stopped
    /\ sendLoraPack' = NoPack
    /\ sendAnswer' = "none"
    /\ UNCHANGED <<alive, alreadySent, sendDataBuffer, fileSizeCounter,
                   errorCounter, lastLp, recvDataBuffer, attempts, prolonged>>

\* finishSendPackAnswer: whatever the result code, wait for the device.
FinishSendPackAnswer ==
    /\ alive
    /\ waitTimer' = Stopped
    /\ sendLoraPack' = NoPack
    /\ sendAnswer' = "none"
    /\ UNCHANGED <<alive, alreadySent, sendDataBuffer, fileSizeCounter,
                   errorCounter, idleTimer, lastLp, recvDataBuffer, attempts, prolonged>>

-----------------------------------------------------------------------------
(* The receiving half: the device's own packages.                          *)

\* Faulty variant: the answer only restarts the idle timer, as the line
\* commented out in receivePackage did.
ReceivePackageGoesOn ==
    /\ alive
    /\ alreadySent' = FALSE
    /\ waitTimer' = Stopped
    /\ idleTimer' = IdleTimeout
    /\ sendLoraPack' = NoPack
    /\ sendAnswer' = "ok"
    /\ UNCHANGED <<alive, sendDataBuffer, fileSizeCounter, errorCounter,
                   lastLp, recvDataBuffer, attempts, prolonged>>

\* receivePackage: an answer small enough for one frame ends the session.
ReceivePackage ==
    /\ alive
    /\ IdleDisconnect
    /\ sendLoraPack' = NoPack
    /\ sendAnswer' = "ok"

\* createBufferCmd and appCreatedBuffer: QByteArray::resize leaves the bytes
\* of recvDataBuffer uninitialised.
CreateBufferCmd(size) ==
    /\ alive
    /\ recvDataBuffer' = [i \in 1 .. size |-> Junk]
    /\ SendCommand(Pack("APP_CREATE_BUFFER", NoRequest, 0, size))
    /\ sendAnswer' = "none"
    /\ UNCHANGED <<alive, alreadySent, sendDataBuffer, fileSizeCounter, errorCounter>>

\* Faulty variants: the offset is ignored; the last byte is forgotten.
StoredAppended(buffer, off, data) == buffer \o data

StoredShort(buffer, off, data) ==
    [i \in 1 .. (IF Len(buffer) > off + Len(data) THEN Len(buffer) ELSE off + Len(data)) |->
        IF off < i /\ i < off + Len(data) THEN data[i - off]
        ELSE IF i <= Len(buffer) THEN buffer[i] ELSE Junk]

\* Assigning to recvDataBuffer[i] beyond the end grows the array up to i; the
\* bytes between are uninitialised.
Stored(buffer, off, data) ==
    LET end == off + Len(data)
    IN  IF data = <<>> THEN buffer
        ELSE [i \in 1 .. (IF Len(buffer) > end THEN Len(buffer) ELSE end) |->
                 IF off < i /\ i <= end THEN data[i - off]
                 ELSE IF i <= Len(buffer) THEN buffer[i] ELSE Junk]

ReceivedDataBlock(off, data) ==
    /\ alive
    /\ recvDataBuffer' = Stored(recvDataBuffer, off, data)
    /\ SendCommand(Pack("APP_RECEIVE_DATA_BLOCK_CMD", NoRequest, off, Len(data)))
    /\ sendAnswer' = "none"
    /\ UNCHANGED <<alive, alreadySent, sendDataBuffer, fileSizeCounter, errorCounter>>

\* May the CRC of the buffer be that of data?  Uninitialised bytes may hold
\* anything, what they should hold included.
CrcOutcomes(data, buffer) ==
    IF data = buffer THEN {TRUE}
    ELSE IF Len(data) = Len(buffer)
            /\ \A i \in 1 .. Len(buffer) : buffer[i] \in {Junk, data[i]}
         THEN BOOLEAN ELSE {FALSE}

\* finishReceivedPackAnswer: both outcomes are acknowledged to the device,
\* reported to the client, and end the session.
FinishReceivedPackAnswer(data) ==
    /\ alive
    /\ sendLoraPack' = Pack("APP_FINISH_RECV_DATA_CMD", NoRequest, 0,
                            Len(recvDataBuffer))
    /\ \E match \in CrcOutcomes(data, recvDataBuffer) :
           sendAnswer' = IF match THEN "ok" ELSE "badCrc"
    /\ IdleDisconnect

\* PackParser::dataParser picks the signal, Net868Client passes it on, and
\* the slot of the converter runs.
Dispatch(fr) ==
    \/ fr.cmd = "DEV_CREATE_BUFFER_CMD" /\ CreateBufferAnswer(fr.rc)
    \/ fr.cmd = "SEND_DATA_BLOCK_CMD" /\ SendDataBlockAnswer(fr.rc, fr.off, fr.len)
    \/ fr.cmd = "FINISH_SEND_DATA_CMD" /\ FinishSendPackAnswer
    \/ fr.cmd = "RECEIVE_PACKAGE_CMD" /\ ReceivePackage
    \/ fr.cmd = "DEV_CREATE_BUFFER" /\ CreateBufferCmd(fr.len)
    \/ fr.cmd = "DEV_RECEIVE_DATA_BLOCK_CMD" /\ ReceivedDataBlock(fr.off, fr.data)
    \/ fr.cmd = "DEV_FINISH_RECV_DATA_CMD" /\ FinishReceivedPackAnswer(fr.data)

-----------------------------------------------------------------------------
(* Time.                                                                   *)

Running(timer) == IF timer = Stopped THEN Stopped ELSE timer - 1

\* A due timer is served before time goes on.
Tick ==
    /\ alive
    /\ waitTimer # 0
    /\ idleTimer # 0
    /\ waitTimer' = Running(waitTimer)
    /\ idleTimer' = Running(idleTimer)
    /\ sendLoraPack' = NoPack
    /\ sendAnswer' = "none"
    /\ UNCHANGED <<alive, alreadySent, sendDataBuffer, fileSizeCounter,
                   errorCounter, lastLp, recvDataBuffer, attempts, prolonged>>

\* Faulty variant: one attempt too many.
AttemptLeftTooMany == errorCounter + 1 <= RetryCount

\* errorCounter is incremented first and compared then.
AttemptLeft == errorCounter + 1 < RetryCount

\* answerTumeout: the last packet again, without a new idle period, or, when
\* errorCounter has come to RetryCount, the end of the session.
AnswerTumeout ==
    /\ alive
    /\ waitTimer = 0
    /\ \/ /\ AttemptLeft
          /\ errorCounter' = errorCounter + 1
          /\ sendLoraPack' = lastLp
          /\ waitTimer' = AnswerTimeout
          /\ attempts' = attempts + 1
          /\ sendAnswer' = "none"
          /\ UNCHANGED <<alive, alreadySent, sendDataBuffer, fileSizeCounter,
                         idleTimer, lastLp, recvDataBuffer, prolonged>>
       \/ /\ ~AttemptLeft
          /\ IdleDisconnect
          /\ sendLoraPack' = NoPack
          /\ sendAnswer' = "timeout"

\* idleTimeout: the session ends without a word to the client.
IdleTimeoutFires ==
    /\ alive
    /\ idleTimer = 0
    /\ IdleDisconnect
    /\ sendLoraPack' = NoPack
    /\ sendAnswer' = "none"

-----------------------------------------------------------------------------
Request == \E r \in Requests : AcceptedRequest(r) \/ RefusedRequest(r)

Receive == \E fr \in Frames : fileSizeCounter <= MaxCounter /\ Dispatch(fr)

Next == \/ Request
        \/ BusyRequest
        \/ ClientGone
        \/ Receive
        \/ Tick
        \/ AnswerTumeout
        \/ IdleTimeoutFires

Spec == Init /\ [][Next]_vars

\* Time passes and Qt serves due timers; nobody has to send anything.
Fairness == WF_vars(Tick) /\ WF_vars(AnswerTumeout) /\ WF_vars(IdleTimeoutFires)

FairSpec == Spec /\ Fairness

-----------------------------------------------------------------------------
(* Properties.                                                             *)

\* A packet given to sendCommand in an accepted session goes on the air at
\* most RetryCount times, the timeouts' repetitions included, until sendCommand
\* is called again: errorCounter counts on for all packets of a session and is
\* reset by two slots, and no order of answers makes it fall behind.  (What
\* calls sendCommand again may be an error answer to the very same packet; such
\* repetitions are without limit, see RepeatsWithinLimit of Transfer.)
AttemptsBounded == alreadySent => attempts <= RetryCount

\* What a timeout would send again is the packet the session stands at: the
\* block at fileSizeCounter, or the check of a buffer confirmed to its end.
\* It never falls behind the counter that answers, repeated answers and
\* restarts by createBufferAnswer move.
RetransmissionIsCurrent ==
    /\ lastLp.cmd = "SEND_DATA_BLOCK_CMD" => lastLp = DataBlock(fileSizeCounter)
    /\ lastLp.cmd = "FINISH_SEND_DATA_CMD" =>
           lastLp = CheckBuffer /\ fileSizeCounter = sendDataBuffer.size

\* An entry of converterList always has a running idle timer behind it, and
\* in an accepted session a running wait timer always has a packet to repeat:
\* no slot, error path or refused request leaves a device locked with nothing
\* to release it.  (A refused request's wait timer may have none: its counter
\* was never initialised and a stray block answer may happen to equal it.)
Watched ==
    /\ alive <=> idleTimer # Stopped
    /\ waitTimer # Stopped => alive
    /\ alreadySent => lastLp # NoPack

\* What an application sees of the converter that stands in converterList is
\* the life of a Session, whatever ends it: three slots, two timers, or the
\* client.  The step with the closing answer removes the entry, no other step
\* answers with a closing, and no slot answers before there is an entry.
\* (What an object may answer that has left the list is not among the steps
\* here: WebApiServer has it, and ListedConverterAnswers is false there.)
SessionStatus == IF ~alive THEN "none"
                 ELSE IF alreadySent THEN "open" ELSE "refused"

Contract == INSTANCE Session WITH status <- SessionStatus, answer <- sendAnswer

FollowsContract == Contract!Spec

\* A device that falls silent in the middle of a session is reported: when the
\* idle period is longer than all attempts together, as the default settings
\* have it, the idle timer ends a session in which a packet awaits its answer
\* only if a repeated answer prolonged the wait.  In all others "Answer timeout."
\* comes first.
SilenceIsReported ==
    /\ IdleTimeout > RetryCount * AnswerTimeout
    /\ alreadySent /\ idleTimer = 0 /\ waitTimer # Stopped
    => prolonged

\* Once the device falls silent the entry is released, no matter how often
\* applications keep asking for it: requests turned away as busy must not
\* feed the idle timer.
SilentDeviceReleasesEntry ==
    \/ []<>~alive
    \/ []<><<Receive>>_vars

\* What the log line of answerTumeout says: "answer timeout. All attempts
\* are exhausted.": the packet that got no answer was sent RetryCount times.
TimeoutMeansAllAttempts ==
    [][alreadySent /\ sendAnswer' = "timeout" => attempts = RetryCount]_vars

=============================================================================
