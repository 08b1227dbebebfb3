----------------------------- MODULE ReplyProofs -----------------------------
(***************************************************************************)
(* The bytes of a reply.  When the device believes that the converter has  *)
(* received a byte of the meter's reply, the converter has it, and so no   *)
(* reply of a session is ever reported with a bad CRC: for every size of   *)
(* reply and of block, every number of repetitions, whatever the network   *)
(* loses and however often the device restarts in the middle.              *)
(***************************************************************************)
EXTENDS DeliveryProofs

-----------------------------------------------------------------------------
(* The strengthening.                                                      *)

\* One request is made.
OneSession == MaxSessions = 1

\* The packets a session begins with.  They alone can make the device create
\* its buffer or hand over a request that fits into one packet.
Opening == {"SEND_PACKAGE_ANSWER_CMD", "DEV_CREATE_BUFFER_CMD"}

OpensIn(packs) == \E pack \in packs : pack.cmd \in Opening

\* The frames that carry bytes of a reply, and the one that clears the buffer.
Bearing == {"DEV_RECEIVE_DATA_BLOCK_CMD", "DEV_FINISH_RECV_DATA_CMD"}

Clearing == {"DEV_CREATE_BUFFER"}

ClearsIn(frames) == \E fr \in frames : fr.cmd \in Clearing

\* On the path nothing of the earlier kinds follows anything of the later ones.
Apart(path, earlier, later) ==
    \A i, j \in DOMAIN path :
        i < j /\ path[i].cmd \in later => path[j].cmd \notin earlier

\* The device cannot start a reply any more.
Decided == ~OpensIn(Sendable) /\ devBuffer = <<>>

\* Nor will the converter's buffer be cleared again.
Filling == Decided /\ devReply.phase # "create" /\ ~ClearsIn(Items(uplink))

\* The converter, if it is still there, has the first n bytes of the reply.
Held(n) ==
    alive => Len(recvDataBuffer) = ReplySize /\ HoldsPrefix(recvDataBuffer, current, n)

\* What is acknowledged is held, and a request is handed over for what it is.
AckSound(pack) ==
    /\ pack.cmd = "SEND_PACKAGE_ANSWER_CMD" =>
           pack.req = current /\ DataSize[current] <= BlockSize
    /\ pack.cmd = "DEV_CREATE_BUFFER_CMD" => DataSize[current] > BlockSize
    /\ pack.cmd = "FINISH_SEND_DATA_CMD" /\ pack.len > 0 => pack.req = current
    /\ pack.cmd = "APP_CREATE_BUFFER" => Held(0)
    /\ pack.cmd = "APP_RECEIVE_DATA_BLOCK_CMD" => Filling /\ Held(pack.off + pack.len)

\* A frame that bears bytes follows what the converter holds already.
BytesSound(fr) ==
    /\ fr.cmd = "DEV_CREATE_BUFFER" => fr.len = ReplySize
    /\ fr.cmd \in Bearing =>
           /\ Decided /\ devReply.phase # "create"
           /\ fr.data = [i \in 1 .. Len(fr.data) |-> current]
    /\ fr.cmd = "DEV_RECEIVE_DATA_BLOCK_CMD" =>
           Held(fr.off) /\ (fr.off > 0 => Filling)
    /\ fr.cmd = "DEV_FINISH_RECV_DATA_CMD" =>
           Held(ReplySize) /\ Filling /\ Len(fr.data) = ReplySize

AcksSound ==
    /\ \A pack \in Sendable : AckSound(pack)
    /\ Apart(downlink, Opening, Commands \ Opening)

ReplyFramesSound ==
    /\ \A fr \in Items(uplink) : BytesSound(fr)
    /\ Apart(uplink, Clearing, Bearing)

\* While an opening packet may be repeated, there is no other on the path.
OpeningsFirst ==
    lastLp.cmd \in Opening => \A pack \in Items(downlink) : pack.cmd \in Opening

\* The device replies to the request it was given, and counts what is held.
DeviceReplySound ==
    /\ devReply # NoReply =>
           /\ devReply.req = current
           /\ Decided \/ DataSize[current] <= BlockSize
    /\ devBuffer # <<>> => DataSize[current] > BlockSize
    /\ devReply.phase \in {"data", "finish"} =>
           /\ Decided /\ Held(devReply.off)
           /\ devReply.off > 0 => Filling
    /\ devReply.phase = "finish" => devReply.off = ReplySize

\* The bytes sent are those of the request.
SendBufferSound == sendDataBuffer.size > 0 => sendDataBuffer.req = current

ReplySound ==
    /\ Once
    /\ SendBufferSound
    /\ AcksSound
    /\ ReplyFramesSound
    /\ OpeningsFirst
    /\ DeviceReplySound

-----------------------------------------------------------------------------
(* Paths.                                                                  *)

\* An item of an earlier kind may be sent when none of a later kind is on the
\* path.
LEMMA SentApart ==
    ASSUME NEW S, NEW path \in Seq(S), NEW item \in S, NEW E, NEW L,
           Apart(path, E, L),
           item.cmd \in E => \A other \in Items(path) : other.cmd \notin L
    PROVE  Apart(Sent(path, item), E, L)
  <1>1. CASE Sent(path, item) = path
    BY <1>1
  <1>2. CASE Sent(path, item) = Append(path, item)
    <2> DEFINE new == Append(path, item)
    <2>1. /\ Len(path) \in Nat
          /\ DOMAIN path = 1 .. Len(path)
          /\ DOMAIN new = 1 .. Len(path) + 1
          /\ \A i \in 1 .. Len(path) : new[i] = path[i]
          /\ new[Len(path) + 1] = item
      OBVIOUS
    <2> HIDE DEF new
    <2>2. ASSUME NEW i \in DOMAIN new, NEW j \in DOMAIN new, i < j, new[i].cmd \in L
          PROVE  new[j].cmd \notin E
      <3>1. i \in 1 .. Len(path) /\ new[i] = path[i]
        BY <2>1, <2>2
      <3>2. CASE j \in 1 .. Len(path)
        BY <2>1, <2>2, <3>1, <3>2 DEF Apart
      <3>3. CASE j = Len(path) + 1
        <4>1. path[i] \in Items(path)
          BY <2>1, <3>1 DEF Items
        <4> QED
          BY <2>1, <2>2, <3>1, <3>3, <4>1
      <3> QED
        BY <2>1, <2>2, <3>2, <3>3
    <2>3. Apart(new, E, L)
      BY <2>2 DEF Apart
    <2> QED
      BY <1>2, <2>3 DEF new
  <1> QED
    BY <1>1, <1>2 DEF Sent

\* The kinds stay apart when the first item is taken, and behind one of a later
\* kind there is none of an earlier one.
LEMMA TailApart ==
    ASSUME NEW S, NEW path \in Seq(S), NEW E, NEW L, Apart(path, E, L), path # <<>>
    PROVE  /\ Apart(Tail(path), E, L)
           /\ Head(path).cmd \in L =>
                  \A other \in Items(Tail(path)) : other.cmd \notin E
  <1>1. /\ Len(path) \in Nat /\ Len(path) > 0
        /\ DOMAIN path = 1 .. Len(path)
        /\ Head(path) = path[1]
        /\ DOMAIN Tail(path) = 1 .. Len(path) - 1
        /\ \A i \in 1 .. Len(path) - 1 : Tail(path)[i] = path[i + 1]
    OBVIOUS
  <1>2. ASSUME NEW i \in DOMAIN Tail(path), NEW j \in DOMAIN Tail(path), i < j,
               Tail(path)[i].cmd \in L
        PROVE  Tail(path)[j].cmd \notin E
    <2>1. i + 1 \in DOMAIN path /\ j + 1 \in DOMAIN path /\ i + 1 < j + 1
      BY <1>1, <1>2
    <2>2. path[i + 1].cmd \in L
      BY <1>1, <1>2
    <2>3. path[j + 1].cmd \notin E
      BY <2>1, <2>2 DEF Apart
    <2> QED
      BY <1>1, <2>3
  <1>3. ASSUME Head(path).cmd \in L, NEW j \in DOMAIN Tail(path)
        PROVE  Tail(path)[j].cmd \notin E
    <2>1. 1 \in DOMAIN path /\ j + 1 \in DOMAIN path /\ 1 < j + 1
      BY <1>1
    <2>2. path[j + 1].cmd \notin E
      BY <1>1, <1>3, <2>1 DEF Apart
    <2> QED
      BY <1>1, <2>2
  <1> QED
    BY <1>2, <1>3 DEF Apart, Items

\* The rest of a path of commands.
LEMMA ApartAfter ==
    /\ Apart(downlink, Opening, Commands \ Opening)'
           = Apart(downlink', Opening, Commands \ Opening)
    /\ Apart(uplink, Clearing, Bearing)' = Apart(uplink', Clearing, Bearing)
  BY DEF Apart, Opening, Commands, Clearing, Bearing

-----------------------------------------------------------------------------
(* What a step must not undo.                                              *)

\* Once decided, a session stays decided, and what is held is held for good
\* unless the buffer may still be cleared.
Stays ==
    /\ UNCHANGED current
    /\ Decided => Decided'
    /\ Decided /\ devReply.phase # "create" => devReply'.phase # "create"
    /\ Filling => Filling'
    /\ \A n \in Nat : Held(n) /\ (n > 0 => Filling) => Held(n)'

\* A packet stays sound.
LEMMA AckKept ==
    ASSUME Stays, NEW pack \in Packs, AckSound(pack) PROVE AckSound(pack)'
  <1>1. pack.off \in Nat /\ pack.len \in Nat /\ pack.off + pack.len \in Nat /\ 0 \in Nat
    BY DEF Packs
  <1>2. /\ Held(0) => Held(0)'
        /\ Filling /\ Held(pack.off + pack.len) => Held(pack.off + pack.len)'
    BY <1>1 DEF Stays
  <1>3. Filling => Filling'
    BY DEF Stays
  <1>4. current' = current
    BY DEF Stays
  <1> QED
    BY <1>2, <1>3, <1>4 DEF AckSound

\* A frame stays sound.
LEMMA BytesKept ==
    ASSUME Stays, NEW fr \in FrameType, BytesSound(fr) PROVE BytesSound(fr)'
  <1>1. fr.off \in Nat /\ ReplySize \in Nat
    BY Bounds DEF FrameType
  <1>2. /\ Held(fr.off) /\ (fr.off > 0 => Filling) => Held(fr.off)'
        /\ Held(ReplySize) /\ Filling => Held(ReplySize)'
    BY <1>1 DEF Stays
  <1>3. /\ Filling => Filling'
        /\ Decided /\ devReply.phase # "create" => Decided' /\ devReply'.phase # "create"
        /\ current' = current
    BY DEF Stays
  <1> QED
    BY <1>2, <1>3 DEF BytesSound

\* So do all that remain.
LEMMA AcksKept ==
    ASSUME Typed, Stays, AcksSound,
           \A pack \in Sendable' : pack \in Sendable \/ AckSound(pack)',
           Apart(downlink', Opening, Commands \ Opening)
    PROVE  AcksSound'
  <1>1. \A pack \in Sendable : pack \in Packs /\ AckSound(pack)
    BY UnderWay DEF AcksSound
  <1>2. \A pack \in Sendable' : AckSound(pack)'
    BY <1>1, AckKept
  <1> QED
    BY <1>2, SetsAfter, ApartAfter DEF AcksSound

\* The same of the frames.
LEMMA ReplyFramesKept ==
    ASSUME Typed, Stays, ReplyFramesSound,
           \A fr \in Items(uplink') : fr \in Items(uplink) \/ BytesSound(fr)',
           Apart(uplink', Clearing, Bearing)
    PROVE  ReplyFramesSound'
  <1>1. \A fr \in Items(uplink) : fr \in FrameType /\ BytesSound(fr)
    BY UnderWay DEF ReplyFramesSound
  <1>2. \A fr \in Items(uplink') : BytesSound(fr)'
    BY <1>1, BytesKept
  <1> QED
    BY <1>2, SetsAfter, ApartAfter DEF ReplyFramesSound

\* And the device's view of its reply, while the device rests.
LEMMA DeviceReplyKept ==
    ASSUME Typed, Stays, DeviceReplySound, UNCHANGED devReply,
           devBuffer' # <<>> => devBuffer # <<>>
    PROVE  DeviceReplySound'
  <1>1. PICK n : n = devReply.off
    OBVIOUS
  <1>2. n \in Nat
    BY <1>1, Bounds, Parts DEF DeviceTyped, ReplyInRange
  <1>3. Held(n) /\ (n > 0 => Filling) => Held(n)'
    BY <1>2 DEF Stays
  <1>4. Held(n)' <=> Held(devReply.off)'
    BY <1>1 DEF Held
  <1>5. (Filling => Filling') /\ (Decided => Decided') /\ current' = current
    BY DEF Stays
  <1> QED
    BY <1>1, <1>3, <1>4, <1>5 DEF DeviceReplySound

\* What makes a step such a step.
LEMMA ReplyStays ==
    ASSUME UNCHANGED current,
           \A pack \in Sendable' : pack \in Sendable \/ pack.cmd \notin Opening,
           Decided => devBuffer' = <<>>,
           Decided /\ devReply.phase # "create" => devReply'.phase # "create",
           Filling => \A fr \in Items(uplink') :
                          fr \in Items(uplink) \/ fr.cmd \notin Clearing,
           \A n \in Nat : Held(n) /\ (n > 0 => Filling) => Held(n)'
    PROVE  Stays
  <1>1. Decided => Decided'
    BY DEF Decided, OpensIn
  <1>2. Filling => Filling'
    BY <1>1, SetsAfter DEF Filling, ClearsIn
  <1> QED
    BY <1>1, <1>2 DEF Stays

-----------------------------------------------------------------------------
(* The converter.                                                          *)

\* What a step of the converter in a session leaves alone.
ReplyMoves ==
    /\ Transmit
    /\ UNCHANGED <<requestsLeft, current, device>>
    /\ Items(uplink') \subseteq Items(uplink)
    /\ Apart(uplink', Clearing, Bearing)

\* A frame taken from the path, and what is behind it.
LEMMA FrameTaken ==
    ASSUME Typed, ReplyFramesSound, uplink # <<>>, uplink' = Tail(uplink)
    PROVE  /\ Items(uplink') \subseteq Items(uplink)
           /\ Apart(uplink', Clearing, Bearing)
           /\ Head(uplink) \in FrameType
           /\ BytesSound(Head(uplink)) /\ Within(Head(uplink))
           /\ Head(uplink) \in Items(uplink)
           /\ Head(uplink).cmd \in Bearing => ~ClearsIn(Items(uplink'))
  <1>1. /\ uplink \in Seq(FrameType) /\ Len(uplink) <= MaxInFlight
        /\ Apart(uplink, Clearing, Bearing)
        /\ \A fr \in Items(uplink) : BytesSound(fr)
    BY UnderWay DEF ReplyFramesSound
  <1>2. Items(Tail(uplink)) \subseteq Items(uplink) /\ Head(uplink) \in Items(uplink)
    BY <1>1, TailItems
  <1>3. Head(uplink) \in FrameType /\ Within(Head(uplink))
    BY UpTaken, Parts
  <1>4. /\ Apart(Tail(uplink), Clearing, Bearing)
        /\ Head(uplink).cmd \in Bearing =>
               \A other \in Items(Tail(uplink)) : other.cmd \notin Clearing
    BY <1>1, TailApart
  <1> QED
    BY <1>1, <1>2, <1>3, <1>4 DEF ClearsIn

\* A step of the converter that neither opens again nor forgets.
LEMMA ConverterStays ==
    ASSUME Typed, TypeOK', ReplyMoves,
           \A pack \in {lastLp', sendLoraPack'} : pack = lastLp \/ pack.cmd \notin Opening,
           \A n \in Nat : Held(n) /\ (n > 0 => Filling) => Held(n)'
    PROVE  Stays
  <1>1. UNCHANGED <<current, devBuffer, devReply>> /\ Transmit
        /\ Items(uplink') \subseteq Items(uplink)
    BY DEF ReplyMoves, device
  <1>2. Sendable' \subseteq Sendable \cup {lastLp', sendLoraPack'} /\ lastLp \in Sendable
    BY <1>1, Emitted DEF Sendable
  <1>3. \A pack \in Sendable' : pack \in Sendable \/ pack.cmd \notin Opening
    BY <1>2
  <1>4. Decided => devBuffer' = <<>>
    BY <1>1 DEF Decided
  <1> QED
    BY <1>1, <1>3, <1>4, ReplyStays

\* The whole after a step of the converter.
LEMMA ConverterKeepsReply ==
    ASSUME Typed, TypeOK', ReplySound, requestsLeft # Requests, ReplyMoves, Stays,
           SendBufferSound',
           \A pack \in {lastLp', sendLoraPack'} :
               \/ pack = lastLp
               \/ pack.cmd \notin Opening /\ AckSound(pack)',
           lastLp'.cmd \in Opening =>
               lastLp' = lastLp /\ sendLoraPack' \in {NoPack, lastLp}
    PROVE  ReplySound'
  <1>1. /\ UNCHANGED <<requestsLeft, current, devBuffer, devReply>> /\ Transmit
        /\ Items(uplink') \subseteq Items(uplink) /\ Apart(uplink', Clearing, Bearing)
    BY DEF ReplyMoves, device
  <1>2. /\ Once /\ AcksSound /\ ReplyFramesSound /\ OpeningsFirst /\ DeviceReplySound
    BY DEF ReplySound
  <1>3. /\ Sendable' \subseteq Sendable \cup {lastLp', sendLoraPack'}
        /\ Items(downlink') \subseteq Items(downlink) \cup {sendLoraPack'}
        /\ lastLp \in Sendable /\ lastLp' \in Sendable'
    BY <1>1, Emitted, SetsAfter DEF Sendable
  <1>4. Once'
    BY <1>1, <1>2 DEF Once
  <1>5. Apart(downlink', Opening, Commands \ Opening)
    <2>1. /\ downlink \in Seq(Packs) /\ Apart(downlink, Opening, Commands \ Opening)
          /\ sendLoraPack' \in Packs
      BY <1>2, UnderWay DEF AcksSound, TypeOK
    <2>2. sendLoraPack'.cmd \in Opening =>
              \A pack \in Items(downlink) : pack.cmd \notin Commands \ Opening
      BY <1>2 DEF OpeningsFirst
    <2>3. Apart(Sent(downlink, sendLoraPack'), Opening, Commands \ Opening)
      BY <2>1, <2>2, SentApart
    <2> QED
      BY <1>1, <2>1, <2>3 DEF Transmit
  <1>6. AcksSound'
    <2>1. \A pack \in Sendable' : pack \in Sendable \/ AckSound(pack)'
      BY <1>3
    <2> QED
      BY <1>2, <1>5, <2>1, AcksKept
  <1>7. ReplyFramesSound'
    BY <1>1, <1>2, ReplyFramesKept
  <1>8. OpeningsFirst'
    <2>1. SUFFICES ASSUME lastLp'.cmd \in Opening, NEW pack \in Items(downlink')
                   PROVE  pack.cmd \in Opening
      BY SetsAfter DEF OpeningsFirst, Opening
    <2>2. lastLp' = lastLp /\ sendLoraPack' \in {NoPack, lastLp}
      BY <2>1
    <2>3. CASE sendLoraPack' = NoPack
      <3>1. downlink' = downlink
        BY <1>1, <2>3 DEF Transmit
      <3> QED
        BY <1>2, <2>1, <2>2, <3>1 DEF OpeningsFirst
    <2>4. CASE sendLoraPack' = lastLp
      BY <1>2, <1>3, <2>1, <2>2, <2>4 DEF OpeningsFirst
    <2> QED
      BY <2>2, <2>3, <2>4
  <1>9. DeviceReplySound'
    BY <1>1, <1>2, DeviceReplyKept
  <1> QED
    BY <1>4, <1>6, <1>7, <1>8, <1>9 DEF ReplySound

\* The end of a session.
LEMMA EndKeepsReply ==
    ASSUME Typed, TypeOK', ReplySound, requestsLeft # Requests, ReplyMoves, IdleDisconnect,
           sendLoraPack' = NoPack \/ sendLoraPack'.cmd = "APP_FINISH_RECV_DATA_CMD"
    PROVE  ReplySound'
  <1>1. lastLp' = NoPack /\ ~alive' /\ sendDataBuffer' = NoBuffer /\ NoPack.cmd = "none"
    BY Zenon DEF IdleDisconnect, NoPack, Pack
  <1>2. \A n : Held(n)'
    BY <1>1 DEF Held
  <1>3. \A pack \in {lastLp', sendLoraPack'} :
           pack.cmd \notin Opening /\ AckSound(pack)'
    BY <1>1 DEF Opening, AckSound
  <1>4. Stays
    BY <1>2, <1>3, ConverterStays
  <1>5. SendBufferSound'
    BY <1>1 DEF SendBufferSound, NoBuffer
  <1>6. lastLp'.cmd \notin Opening
    BY <1>3
  <1> QED
    BY <1>3, <1>4, <1>5, <1>6, ConverterKeepsReply

\* A step that keeps the buffers, and repeats a packet or sends one of the
\* sending half that does not open.
LEMMA SteadyKeepsReply ==
    ASSUME Typed, TypeOK', ReplySound, requestsLeft # Requests, ReplyMoves,
           UNCHANGED <<alive, sendDataBuffer, recvDataBuffer>>,
           \/ UNCHANGED lastLp /\ sendLoraPack' \in {NoPack, lastLp}
           \/ /\ lastLp' = sendLoraPack'
              /\ lastLp'.cmd \in {"SEND_DATA_BLOCK_CMD", "FINISH_SEND_DATA_CMD"}
              /\ lastLp'.cmd = "FINISH_SEND_DATA_CMD" /\ lastLp'.len > 0 =>
                     lastLp'.req = current
    PROVE  ReplySound'
  <1>1. UNCHANGED current /\ NoPack.cmd = "none"
    BY Zenon DEF ReplyMoves, NoPack, Pack
  <1>2. \A n : Held(n) => Held(n)'
    BY <1>1 DEF Held, HoldsPrefix
  <1>3. SendBufferSound'
    BY <1>1 DEF ReplySound, SendBufferSound
  <1>4. AckSound(NoPack)'
    BY <1>1 DEF AckSound
  <1>5. ASSUME NEW pack,
               pack.cmd \in {"SEND_DATA_BLOCK_CMD", "FINISH_SEND_DATA_CMD"},
               pack.cmd = "FINISH_SEND_DATA_CMD" /\ pack.len > 0 => pack.req = current
        PROVE  AckSound(pack)'
    BY <1>1, <1>5 DEF AckSound
  <1>6. \A pack \in {lastLp', sendLoraPack'} :
           \/ pack = lastLp
           \/ pack.cmd \notin Opening /\ AckSound(pack)'
    BY <1>1, <1>4, <1>5 DEF Opening
  <1>7. lastLp'.cmd \in Opening => lastLp' = lastLp /\ sendLoraPack' \in {NoPack, lastLp}
    BY DEF Opening
  <1>8. Stays
    BY <1>2, <1>6, ConverterStays
  <1> QED
    BY <1>3, <1>6, <1>7, <1>8, ConverterKeepsReply

\* What the device announces clears the converter's buffer, which by then holds
\* nothing the device counts on.
LEMMA ClearKeepsReply ==
    ASSUME Typed, TypeOK', ReplySound, requestsLeft # Requests, ReplyMoves,
           ClearsIn(Items(uplink)), CreateBufferCmd(ReplySize)
    PROVE  ReplySound'
  <1>1. /\ UNCHANGED <<current, alive, sendDataBuffer>>
        /\ recvDataBuffer' = [i \in 1 .. ReplySize |-> Junk]
        /\ ReplySize \in Nat
    BY Bounds DEF ReplyMoves, CreateBufferCmd
  <1>2. ~Filling
    BY DEF Filling
  <1>3. Held(0)'
    <2>1. Len(recvDataBuffer') = ReplySize
      BY <1>1
    <2> QED
      BY <1>1, <2>1 DEF Held, HoldsPrefix
  <1>4. \A n \in Nat : Held(n) /\ (n > 0 => Filling) => Held(n)'
    <2>1. ASSUME NEW n \in Nat, n > 0 => Filling PROVE n = 0
      BY <1>2, <2>1
    <2> QED
      BY <1>3, <2>1 DEF Held
  <1>5. /\ lastLp'.cmd = "APP_CREATE_BUFFER" /\ sendLoraPack' = lastLp'
    BY DEF CreateBufferCmd, SendCommand, Pack
  <1>6. SendBufferSound'
    BY <1>1 DEF ReplySound, SendBufferSound
  <1>7. ASSUME NEW pack, pack.cmd = "APP_CREATE_BUFFER" PROVE AckSound(pack)'
    BY <1>3, <1>7 DEF AckSound
  <1>8. \A pack \in {lastLp', sendLoraPack'} : pack.cmd \notin Opening /\ AckSound(pack)'
    BY <1>5, <1>7 DEF Opening
  <1>9. Stays
    BY <1>4, <1>8, ConverterStays
  <1> QED
    BY <1>6, <1>8, <1>9, ConverterKeepsReply

\* A block within the buffer leaves the rest of it, and extends what is held.
LEMMA StoredHolds ==
    ASSUME NEW buffer \in Seq(Words \cup {Junk}), Len(buffer) = ReplySize,
           NEW off \in Nat, NEW data \in Seq(Words),
           data = [i \in 1 .. Len(data) |-> current], off + Len(data) <= ReplySize
    PROVE  /\ Len(Stored(buffer, off, data)) = ReplySize
           /\ \A n \in Nat : HoldsPrefix(buffer, current, n) =>
                  HoldsPrefix(Stored(buffer, off, data), current, n)
           /\ HoldsPrefix(buffer, current, off) =>
                  HoldsPrefix(Stored(buffer, off, data), current, off + Len(data))
  <1> DEFINE new == Stored(buffer, off, data)
             end == off + Len(data)
  <1>1. Len(data) \in Nat /\ Len(buffer) \in Nat /\ end \in Nat /\ DOMAIN data = 1 .. Len(data)
    OBVIOUS
  <1>2. CASE data = <<>>
    <2>1. new = buffer /\ end = off
      BY <1>1, <1>2 DEF Stored
    <2> QED
      BY <1>1, <2>1
  <1>3. CASE data # <<>>
    <2>1. new = [i \in 1 .. Len(buffer) |-> IF off < i /\ i <= end THEN data[i - off]
                                            ELSE buffer[i]]
      <3>1. (IF Len(buffer) > end THEN Len(buffer) ELSE end) = Len(buffer)
        BY <1>1
      <3>2. \A i \in 1 .. Len(buffer) : i <= Len(buffer)
        BY <1>1
      <3> QED
        BY <1>3, <3>1, <3>2 DEF Stored
    <2>2. Len(new) = Len(buffer)
      BY <1>1, <2>1
    <2>3. ASSUME NEW i \in 1 .. Len(buffer), off < i, i <= end PROVE new[i] = current
      <3>1. i - off \in 1 .. Len(data)
        BY <1>1, <2>3
      <3>2. data[i - off] = current
        BY <3>1
      <3> QED
        BY <2>1, <2>3, <3>2
    <2>4. ASSUME NEW i \in 1 .. Len(buffer), buffer[i] = current PROVE new[i] = current
      BY <2>1, <2>3, <2>4
    <2>5. ASSUME NEW n \in Nat, HoldsPrefix(buffer, current, n)
          PROVE  HoldsPrefix(new, current, n)
      BY <1>1, <2>2, <2>4, <2>5 DEF HoldsPrefix
    <2>6. ASSUME HoldsPrefix(buffer, current, off) PROVE HoldsPrefix(new, current, end)
      <3>1. ASSUME NEW i \in 1 .. end PROVE new[i] = current
        <4>1. i \in 1 .. Len(buffer)
          BY <1>1
        <4>2. CASE i <= off
          BY <1>1, <2>4, <2>6, <4>1, <4>2 DEF HoldsPrefix
        <4>3. CASE off < i
          BY <1>1, <2>3, <4>1, <4>3
        <4> QED
          BY <1>1, <4>2, <4>3
      <3> QED
        BY <1>1, <2>2, <3>1 DEF HoldsPrefix
    <2> QED
      BY <2>2, <2>5, <2>6
  <1> QED
    BY <1>2, <1>3

\* A block of the reply is stored and acknowledged.
LEMMA BlockKeepsReply ==
    ASSUME Typed, TypeOK', ReplySound, requestsLeft # Requests, ReplyMoves,
           NEW fr \in FrameType, fr.cmd = "DEV_RECEIVE_DATA_BLOCK_CMD",
           BytesSound(fr), Within(fr), ~ClearsIn(Items(uplink')),
           ReceivedDataBlock(fr.off, fr.data)
    PROVE  ReplySound'
  <1>1. /\ UNCHANGED <<current, alive, sendDataBuffer, devReply>> /\ alive
        /\ recvDataBuffer' = Stored(recvDataBuffer, fr.off, fr.data)
        /\ recvDataBuffer \in Seq(Words \cup {Junk})
        /\ fr.off \in Nat /\ fr.data \in Seq(Words)
    BY UnderWay DEF ReplyMoves, device, ReceivedDataBlock, TypeOK, FrameType
  <1>2. /\ Decided /\ devReply.phase # "create" /\ Held(fr.off)
        /\ fr.data = [i \in 1 .. Len(fr.data) |-> current]
        /\ fr.off + Len(fr.data) <= ReplySize
    BY DEF BytesSound, Within, Bearing
  <1>3. Len(recvDataBuffer) = ReplySize /\ HoldsPrefix(recvDataBuffer, current, fr.off)
    BY <1>1, <1>2 DEF Held
  <1>4. /\ Len(recvDataBuffer') = ReplySize
        /\ \A n \in Nat : HoldsPrefix(recvDataBuffer, current, n) =>
                              HoldsPrefix(recvDataBuffer', current, n)
        /\ HoldsPrefix(recvDataBuffer', current, fr.off + Len(fr.data))
    BY <1>1, <1>2, <1>3, StoredHolds
  <1>5. \A n \in Nat : Held(n) => Held(n)'
    BY <1>1, <1>4 DEF Held, HoldsPrefix
  <1>6. PICK pack : pack = Pack("APP_RECEIVE_DATA_BLOCK_CMD", NoRequest, fr.off, Len(fr.data))
    OBVIOUS
  <1>7. /\ pack.cmd = "APP_RECEIVE_DATA_BLOCK_CMD"
        /\ pack.off = fr.off /\ pack.len = Len(fr.data)
        /\ lastLp' = pack /\ sendLoraPack' = pack
    BY <1>6 DEF ReceivedDataBlock, SendCommand, Pack
  <1>8. SendBufferSound'
    BY <1>1 DEF ReplySound, SendBufferSound
  <1>9. Stays
    BY <1>5, <1>7, ConverterStays DEF Opening
  <1>10. AckSound(pack)'
    <2>1. Decided' /\ devReply'.phase # "create"
      BY <1>2, <1>9 DEF Stays
    <2>2. Filling'
      BY <2>1, SetsAfter DEF Filling, ClearsIn, Clearing
    <2>3. Held(pack.off + pack.len)'
      BY <1>1, <1>4, <1>7 DEF Held, HoldsPrefix
    <2> QED
      BY <1>7, <2>2, <2>3 DEF AckSound
  <1> QED
    BY <1>7, <1>8, <1>9, <1>10, ConverterKeepsReply DEF Opening

\* What follows an answer of the device names the request whose buffer it is.
LEMMA FollowUpNames ==
    ASSUME SendBufferSound, NEW pack,
           \/ \E pos : pack = DataBlock(pos)
           \/ \E rc, len, pos : pack = FollowUp(rc, len, pos)
    PROVE  /\ pack.cmd \in {"SEND_DATA_BLOCK_CMD", "FINISH_SEND_DATA_CMD"}
           /\ pack.cmd = "FINISH_SEND_DATA_CMD" /\ pack.len > 0 => pack.req = current
  <1>1. CASE pack = CheckBuffer
    BY <1>1 DEF CheckBuffer, Pack, SendBufferSound
  <1>2. CASE \E pos : pack = DataBlock(pos)
    BY <1>2 DEF DataBlock, Pack
  <1> QED
    BY <1>1, <1>2 DEF FollowUp

\* The slots.
LEMMA SlotsKeepReply ==
    ASSUME Typed, TypeOK', ReplySound, requestsLeft # Requests,
           Transmit, UNCHANGED <<requestsLeft, current, device>>,
           uplink # <<>>, uplink' = Tail(uplink), Dispatch(Head(uplink))
    PROVE  ReplySound'
  <1>1. PICK fr : fr = Head(uplink)
    OBVIOUS
  <1>2. /\ fr \in FrameType /\ BytesSound(fr) /\ Within(fr) /\ fr \in Items(uplink)
        /\ fr.cmd \in Bearing => ~ClearsIn(Items(uplink'))
        /\ Dispatch(fr) /\ ReplyMoves
    BY <1>1, FrameTaken DEF ReplySound, ReplyMoves
  <1>3. SendBufferSound
    BY DEF ReplySound
  <1>4. CASE CreateBufferAnswer(fr.rc)
    <2>1. UNCHANGED <<alive, sendDataBuffer, recvDataBuffer>>
      BY <1>4 DEF CreateBufferAnswer
    <2>2. CASE SendCommand(DataBlock(0))
      <3>1. PICK pack : pack = DataBlock(0)
        OBVIOUS
      <3>2. lastLp' = pack /\ sendLoraPack' = pack
        BY <2>2, <3>1 DEF SendCommand
      <3> QED
        BY <1>2, <1>3, <2>1, <3>1, <3>2, FollowUpNames, SteadyKeepsReply
    <2>3. CASE sendLoraPack' = NoPack /\ UNCHANGED lastLp
      BY <1>2, <2>1, <2>3, SteadyKeepsReply
    <2> QED
      BY <1>4, <2>2, <2>3 DEF CreateBufferAnswer
  <1>5. CASE SendDataBlockAnswer(fr.rc, fr.off, fr.len)
    <2>1. UNCHANGED <<alive, sendDataBuffer, recvDataBuffer>>
      BY <1>5 DEF SendDataBlockAnswer
    <2>2. CASE sendLoraPack' = NoPack /\ UNCHANGED lastLp
      BY <1>2, <2>1, <2>2, SteadyKeepsReply
    <2>3. CASE \E pos : SendCommand(FollowUp(fr.rc, fr.len, pos))
      <3>1. PICK pos : SendCommand(FollowUp(fr.rc, fr.len, pos))
        BY <2>3
      <3>2. PICK pack : pack = FollowUp(fr.rc, fr.len, pos)
        OBVIOUS
      <3>3. lastLp' = pack /\ sendLoraPack' = pack
        BY <3>1, <3>2 DEF SendCommand
      <3> QED
        BY <1>2, <1>3, <2>1, <3>2, <3>3, FollowUpNames, SteadyKeepsReply
    <2> QED
      BY <1>5, <2>2, <2>3 DEF SendDataBlockAnswer
  <1>6. CASE FinishSendPackAnswer
    BY <1>2, <1>6, SteadyKeepsReply DEF FinishSendPackAnswer
  <1>7. CASE ReceivePackage
    BY <1>2, <1>7, EndKeepsReply DEF ReceivePackage
  <1>8. CASE fr.cmd = "DEV_CREATE_BUFFER" /\ CreateBufferCmd(fr.len)
    <2>1. fr.len = ReplySize /\ ClearsIn(Items(uplink))
      BY <1>2, <1>8 DEF BytesSound, ClearsIn, Clearing
    <2> QED
      BY <1>2, <1>8, <2>1, ClearKeepsReply
  <1>9. CASE fr.cmd = "DEV_RECEIVE_DATA_BLOCK_CMD" /\ ReceivedDataBlock(fr.off, fr.data)
    BY <1>2, <1>9, BlockKeepsReply DEF Bearing
  <1>10. CASE FinishReceivedPackAnswer(fr.data)
    <2>1. IdleDisconnect /\ sendLoraPack'.cmd = "APP_FINISH_RECV_DATA_CMD"
      BY <1>10 DEF FinishReceivedPackAnswer, Pack
    <2> QED
      BY <1>2, <2>1, EndKeepsReply
  <1> QED
    BY <1>2, <1>4, <1>5, <1>6, <1>7, <1>8, <1>9, <1>10 DEF Dispatch

\* Time.
LEMMA TimerKeepsReply ==
    ASSUME Typed, TypeOK', ReplySound, requestsLeft # Requests, ReplyMoves,
           Tick \/ AnswerTumeout \/ IdleTimeoutFires
    PROVE  ReplySound'
  <1>1. CASE Tick
    BY <1>1, SteadyKeepsReply DEF Tick
  <1>2. CASE AnswerTumeout
    <2>1. \/ /\ UNCHANGED <<alive, sendDataBuffer, recvDataBuffer, lastLp>>
             /\ sendLoraPack' = lastLp
          \/ IdleDisconnect /\ sendLoraPack' = NoPack
      BY <1>2, Zenon DEF AnswerTumeout
    <2> QED
      BY <2>1, SteadyKeepsReply, EndKeepsReply
  <1>3. CASE IdleTimeoutFires
    BY <1>3, EndKeepsReply DEF IdleTimeoutFires
  <1> QED
    BY <1>1, <1>2, <1>3

-----------------------------------------------------------------------------
(* The network and the device.                                             *)

\* A packet taken from the path, and what is behind it.
LEMMA PacketTaken ==
    ASSUME Typed, AcksSound, OpeningsFirst, downlink # <<>>, downlink' = Tail(downlink),
           UNCHANGED lastLp
    PROVE  /\ Items(downlink') \subseteq Items(downlink) /\ Sendable' \subseteq Sendable
           /\ Apart(downlink', Opening, Commands \ Opening)
           /\ OpeningsFirst'
           /\ Head(downlink) \in Packs /\ Head(downlink) \in Sendable
           /\ AckSound(Head(downlink)) /\ Carries(Head(downlink))
           /\ Head(downlink).cmd \in Opening => ~Decided
           /\ Head(downlink).cmd \in Commands \ Opening => ~OpensIn(Sendable')
  <1>1. /\ downlink \in Seq(Packs) /\ Len(downlink) <= MaxInFlight
        /\ Sendable \subseteq Packs /\ Apart(downlink, Opening, Commands \ Opening)
        /\ \A pack \in Sendable : AckSound(pack)
    BY UnderWay DEF AcksSound
  <1>2. Items(Tail(downlink)) \subseteq Items(downlink) /\ Head(downlink) \in Items(downlink)
    BY <1>1, TailItems
  <1>3. /\ Apart(Tail(downlink), Opening, Commands \ Opening)
        /\ Head(downlink).cmd \in Commands \ Opening =>
               \A other \in Items(Tail(downlink)) : other.cmd \notin Opening
    BY <1>1, TailApart
  <1>4. Head(downlink) \in Sendable /\ Sendable' = {lastLp} \cup Items(Tail(downlink))
    BY <1>2, SetsAfter DEF Sendable
  <1>5. Sendable' \subseteq Sendable
    BY <1>2, <1>4 DEF Sendable
  <1>6. OpeningsFirst'
    BY <1>2, SetsAfter DEF OpeningsFirst, Opening
  <1>7. Head(downlink).cmd \in Commands \ Opening => ~OpensIn(Sendable')
    BY <1>2, <1>3, <1>4 DEF OpensIn, OpeningsFirst
  <1>8. Head(downlink).cmd \in Opening => ~Decided
    BY <1>4 DEF Decided, OpensIn
  <1>9. Carries(Head(downlink))
    BY DownTaken, Parts
  <1> QED
    BY <1>1, <1>2, <1>3, <1>4, <1>5, <1>6, <1>7, <1>8, <1>9

\* While the device works the converter keeps what it holds.
LEMMA DeviceStays ==
    ASSUME Typed, ConverterIdle, Sendable' \subseteq Sendable,
           Decided => devBuffer' = <<>>,
           Decided /\ devReply.phase # "create" => devReply'.phase # "create",
           Filling => \A fr \in Items(uplink') :
                          fr \in Items(uplink) \/ fr.cmd \notin Clearing
    PROVE  Stays
  <1>1. UNCHANGED <<current, alive, recvDataBuffer>>
    BY DEF ConverterIdle, object
  <1>2. \A n : Held(n) => Held(n)'
    BY <1>1 DEF Held, HoldsPrefix
  <1> QED
    BY <1>1, <1>2, ReplyStays

\* The whole after a step of the device or the network.
LEMMA DeviceKeepsReply ==
    ASSUME Typed, ReplySound, requestsLeft # Requests, ConverterIdle, Stays,
           Sendable' \subseteq Sendable, OpeningsFirst',
           Apart(downlink', Opening, Commands \ Opening),
           \A fr \in Items(uplink') : fr \in Items(uplink) \/ BytesSound(fr)',
           Apart(uplink', Clearing, Bearing),
           DeviceReplySound'
    PROVE  ReplySound'
  <1>1. UNCHANGED <<current, requestsLeft, sendDataBuffer>>
    BY DEF ConverterIdle, object
  <1>2. Once /\ SendBufferSound /\ AcksSound /\ ReplyFramesSound
    BY DEF ReplySound
  <1>3. Once' /\ SendBufferSound'
    BY <1>1, <1>2 DEF Once, SendBufferSound
  <1>4. AcksSound'
    BY <1>2, AcksKept
  <1>5. ReplyFramesSound'
    BY <1>2, ReplyFramesKept
  <1> QED
    BY <1>3, <1>4, <1>5 DEF ReplySound

\* A frame that neither clears nor bears bytes may be sent at any time.
LEMMA PlainFrame ==
    ASSUME Typed, ReplyFramesSound, NEW fr \in FrameType, uplink' = Sent(uplink, fr),
           fr.cmd \notin Clearing \cup Bearing
    PROVE  /\ \A other \in Items(uplink') :
                 \/ other \in Items(uplink)
                 \/ BytesSound(other)' /\ other.cmd \notin Clearing
           /\ Apart(uplink', Clearing, Bearing)
  <1>1. uplink \in Seq(FrameType) /\ Len(uplink) <= MaxInFlight
        /\ Apart(uplink, Clearing, Bearing)
    BY UnderWay DEF ReplyFramesSound
  <1>2. Items(uplink') \subseteq Items(uplink) \cup {fr}
    BY <1>1, SentItems
  <1>3. BytesSound(fr)'
    BY DEF BytesSound, Clearing, Bearing
  <1>4. Apart(uplink', Clearing, Bearing)
    BY <1>1, SentApart
  <1> QED
    BY <1>2, <1>3, <1>4

\* Losses.
LEMMA LoseKeepsReply ==
    ASSUME Typed, ReplySound, requestsLeft # Requests, Lose PROVE ReplySound'
  <1>1. /\ ConverterIdle /\ UNCHANGED <<lastLp, devBuffer, devReply>>
        /\ AcksSound /\ ReplyFramesSound /\ OpeningsFirst /\ DeviceReplySound
    BY DEF Lose, ConverterIdle, device, object, ReplySound
  <1>2. /\ Sendable' \subseteq Sendable /\ OpeningsFirst'
        /\ Apart(downlink', Opening, Commands \ Opening)
        /\ Items(uplink') \subseteq Items(uplink) /\ Apart(uplink', Clearing, Bearing)
    <2>1. CASE downlink # <<>> /\ downlink' = Tail(downlink) /\ UNCHANGED uplink
      BY <1>1, <2>1, PacketTaken DEF ReplyFramesSound
    <2>2. CASE uplink # <<>> /\ uplink' = Tail(uplink) /\ UNCHANGED downlink
      <3>1. OpeningsFirst' /\ Sendable' = Sendable
        BY <1>1, <2>2, SetsAfter DEF OpeningsFirst, Opening, Sendable
      <3> QED
        BY <1>1, <2>2, <3>1, FrameTaken DEF AcksSound
    <2> QED
      BY <2>1, <2>2 DEF Lose
  <1>3. Stays
    <2>1. Decided => devBuffer' = <<>>
      BY <1>1 DEF Decided
    <2> QED
      BY <1>1, <1>2, <2>1, DeviceStays
  <1>4. DeviceReplySound'
    BY <1>1, <1>3, DeviceReplyKept
  <1> QED
    BY <1>1, <1>2, <1>3, <1>4, DeviceKeepsReply

\* What the delivery of the request may start.
LEMMA DeliverStarts ==
    ASSUME Deliver(current)
    PROVE  \/ UNCHANGED devReply
           \/ /\ devReply'.req = current /\ devReply' # NoReply
              /\ devReply'.phase \in {"small", "create"}
  <1>1. NoReply.phase = "idle"
    BY DEF NoReply, Reply
  <1>2. CASE \E kind \in Replies \ {"none"} :
                devReply' = Reply(IF kind = "small" THEN "small" ELSE "create", current, 0)
    <2>1. PICK kind :
             devReply' = Reply(IF kind = "small" THEN "small" ELSE "create", current, 0)
      BY <1>2
    <2>2. devReply'.req = current /\ devReply'.phase \in {"small", "create"}
      BY <2>1 DEF Reply
    <2> QED
      BY <1>1, <2>2
  <1> QED
    BY <1>2 DEF Deliver

\* A request in one packet.
LEMMA WritesPackageKeepsReply ==
    ASSUME Typed, ReplySound, requestsLeft # Requests, DeviceWritesPackage
    PROVE  ReplySound'
  <1>1. /\ downlink # <<>> /\ downlink' = Tail(downlink)
        /\ Head(downlink).cmd = "SEND_PACKAGE_ANSWER_CMD"
        /\ ConverterIdle /\ UNCHANGED <<current, lastLp, uplink, devBuffer>>
        /\ Deliver(Head(downlink).req)
        /\ AcksSound /\ ReplyFramesSound /\ OpeningsFirst /\ DeviceReplySound
    BY DEF DeviceWritesPackage, DeviceTakes, ConverterIdle, object, ReplySound
  <1>2. /\ Sendable' \subseteq Sendable /\ OpeningsFirst'
        /\ Apart(downlink', Opening, Commands \ Opening)
        /\ ~Decided /\ Head(downlink).req = current /\ DataSize[current] <= BlockSize
    BY <1>1, PacketTaken DEF Opening, AckSound
  <1>3. Stays
    BY <1>1, <1>2, DeviceStays DEF Filling
  <1>4. Apart(uplink', Clearing, Bearing)
    BY <1>1 DEF ReplyFramesSound
  <1>5. DeviceReplySound'
    <2>1. CASE UNCHANGED devReply
      BY <1>1, <1>3, <2>1, DeviceReplyKept
    <2>2. CASE /\ devReply'.req = current
               /\ devReply'.phase \in {"small", "create"}
      BY <1>1, <1>2, <2>2 DEF DeviceReplySound
    <2> QED
      BY <1>1, <1>2, <2>1, <2>2, DeliverStarts
  <1> QED
    BY <1>1, <1>2, <1>3, <1>4, <1>5, DeviceKeepsReply

\* The device creates its buffer, or refuses to; it has no reply to send yet.
LEMMA CreatesBufferKeepsReply ==
    ASSUME Typed, ReplySound, requestsLeft # Requests, DeviceCreatesBuffer
    PROVE  ReplySound'
  <1> DEFINE pack == Head(downlink)
  <1>1. /\ downlink # <<>> /\ downlink' = Tail(downlink)
        /\ pack.cmd = "DEV_CREATE_BUFFER_CMD"
        /\ ConverterIdle /\ UNCHANGED <<current, lastLp, devReply>>
        /\ \E rc \in {0, 1} :
              uplink' = Sent(uplink, Frame("DEV_CREATE_BUFFER_CMD", rc, 0, pack.len, <<>>))
        /\ AcksSound /\ ReplyFramesSound /\ OpeningsFirst /\ DeviceReplySound
        /\ current \in Requests
    BY DEF DeviceCreatesBuffer, DeviceTakes, DeviceAnswers, ConverterIdle, object,
           ReplySound, Once
  <1>2. /\ Sendable' \subseteq Sendable /\ OpeningsFirst'
        /\ Apart(downlink', Opening, Commands \ Opening)
        /\ ~Decided /\ DataSize[current] > BlockSize /\ pack \in Packs
    BY <1>1, PacketTaken DEF Opening, AckSound
  <1>3. Stays
    BY <1>1, <1>2, DeviceStays DEF Filling
  <1>4. PICK fr \in FrameType : fr.cmd = "DEV_CREATE_BUFFER_CMD" /\ uplink' = Sent(uplink, fr)
    <2>1. PICK rc \in {0, 1} :
             uplink' = Sent(uplink, Frame("DEV_CREATE_BUFFER_CMD", rc, 0, pack.len, <<>>))
      BY <1>1
    <2>2. pack.len \in Nat /\ <<>> \in Seq(Words)
      BY <1>2 DEF Packs
    <2>3. Frame("DEV_CREATE_BUFFER_CMD", rc, 0, pack.len, <<>>) \in FrameType
      BY <2>2 DEF Frame, FrameType, FrameCommands
    <2> QED
      BY <2>1, <2>3 DEF Frame
  <1>5. /\ \A other \in Items(uplink') : other \in Items(uplink) \/ BytesSound(other)'
        /\ Apart(uplink', Clearing, Bearing)
    BY <1>1, <1>4, PlainFrame DEF Clearing, Bearing
  <1>6. DeviceReplySound'
    <2>1. DataSize[current] \in Nat /\ BlockSize \in Nat
      BY <1>1, ConstantsAssumption
    <2>2. devReply = NoReply
      BY <1>1, <1>2, <2>1 DEF DeviceReplySound
    <2>3. devReply' = NoReply /\ NoReply.phase = "idle"
      BY <1>1, <2>2 DEF NoReply, Reply
    <2> QED
      BY <1>1, <1>2, <2>3 DEF DeviceReplySound
  <1> QED
    BY <1>1, <1>2, <1>3, <1>5, <1>6, DeviceKeepsReply

\* A block written, or refused.
LEMMA WritesBlockKeepsReply ==
    ASSUME Typed, ReplySound, requestsLeft # Requests, DeviceWritesBlock
    PROVE  ReplySound'
  <1> DEFINE pack == Head(downlink)
  <1>1. /\ downlink # <<>> /\ downlink' = Tail(downlink)
        /\ pack.cmd = "SEND_DATA_BLOCK_CMD"
        /\ ConverterIdle /\ UNCHANGED <<current, lastLp, devReply>>
        /\ devBuffer' # <<>> => devBuffer # <<>>
        /\ \E rc \in {0, 4, 5}, len \in {0, pack.len} :
              uplink' = Sent(uplink, Frame("SEND_DATA_BLOCK_CMD", rc, pack.off, len, <<>>))
        /\ AcksSound /\ ReplyFramesSound /\ OpeningsFirst /\ DeviceReplySound
    BY DEF DeviceWritesBlock, DeviceTakes, DeviceAnswers, ConverterIdle, object,
           ReplySound
  <1>2. /\ Sendable' \subseteq Sendable /\ OpeningsFirst'
        /\ Apart(downlink', Opening, Commands \ Opening)
        /\ pack \in Packs
    BY <1>1, PacketTaken
  <1>3. PICK fr \in FrameType : fr.cmd = "SEND_DATA_BLOCK_CMD" /\ uplink' = Sent(uplink, fr)
    <2>1. PICK rc \in {0, 4, 5}, len \in {0, pack.len} :
             uplink' = Sent(uplink, Frame("SEND_DATA_BLOCK_CMD", rc, pack.off, len, <<>>))
      BY <1>1
    <2>2. pack.off \in Nat /\ len \in Nat /\ <<>> \in Seq(Words)
      BY <1>2 DEF Packs
    <2>3. Frame("SEND_DATA_BLOCK_CMD", rc, pack.off, len, <<>>) \in FrameType
      BY <2>2 DEF Frame, FrameType, FrameCommands
    <2> QED
      BY <2>1, <2>3 DEF Frame
  <1>4. /\ \A other \in Items(uplink') :
              \/ other \in Items(uplink)
              \/ BytesSound(other)' /\ other.cmd \notin Clearing
        /\ Apart(uplink', Clearing, Bearing)
    BY <1>1, <1>3, PlainFrame DEF Clearing, Bearing
  <1>5. Stays
    <2>1. Decided => devBuffer' = <<>>
      BY <1>1 DEF Decided
    <2> QED
      BY <1>1, <1>2, <1>4, <2>1, DeviceStays
  <1>6. DeviceReplySound'
    BY <1>1, <1>5, DeviceReplyKept
  <1> QED
    BY <1>1, <1>2, <1>4, <1>5, <1>6, DeviceKeepsReply

\* The request handed over, or the check failed.  The first decides the session.
LEMMA FinishesKeepsReply ==
    ASSUME Typed, ReplySound, requestsLeft # Requests, DeviceFinishes
    PROVE  ReplySound'
  <1> DEFINE pack == Head(downlink)
  <1>1. /\ downlink # <<>> /\ downlink' = Tail(downlink)
        /\ pack.cmd = "FINISH_SEND_DATA_CMD"
        /\ ConverterIdle /\ UNCHANGED <<current, lastLp>>
        /\ \/ /\ devBuffer # <<>> /\ Complete(devBuffer, pack.req, pack.len)
              /\ devBuffer' = <<>> /\ Deliver(pack.req)
           \/ UNCHANGED <<devBuffer, devReply>>
        /\ \E rc \in {0, 3, 5} :
              uplink' = Sent(uplink, Frame("FINISH_SEND_DATA_CMD", rc, 0, 0, <<>>))
        /\ AcksSound /\ ReplyFramesSound /\ OpeningsFirst /\ DeviceReplySound
    BY DEF DeviceFinishes, DeviceTakes, DeviceAnswers, ConverterIdle, object, ReplySound
  <1>2. /\ Sendable' \subseteq Sendable /\ OpeningsFirst'
        /\ Apart(downlink', Opening, Commands \ Opening)
        /\ AckSound(pack) /\ ~OpensIn(Sendable') /\ pack \in Packs
    BY <1>1, PacketTaken DEF Opening, Commands
  <1>3. PICK fr \in FrameType : fr.cmd = "FINISH_SEND_DATA_CMD" /\ uplink' = Sent(uplink, fr)
    <2>1. PICK rc \in {0, 3, 5} :
             uplink' = Sent(uplink, Frame("FINISH_SEND_DATA_CMD", rc, 0, 0, <<>>))
      BY <1>1
    <2>2. <<>> \in Seq(Words)
      OBVIOUS
    <2>3. Frame("FINISH_SEND_DATA_CMD", rc, 0, 0, <<>>) \in FrameType
      BY <2>2 DEF Frame, FrameType, FrameCommands
    <2> QED
      BY <2>1, <2>3 DEF Frame
  <1>4. /\ \A other \in Items(uplink') :
              \/ other \in Items(uplink)
              \/ BytesSound(other)' /\ other.cmd \notin Clearing
        /\ Apart(uplink', Clearing, Bearing)
    BY <1>1, <1>3, PlainFrame DEF Clearing, Bearing
  <1>5. CASE UNCHANGED <<devBuffer, devReply>>
    <2>1. Stays
      <3>1. Decided => devBuffer' = <<>>
        BY <1>5 DEF Decided
      <3> QED
        BY <1>1, <1>2, <1>4, <1>5, <3>1, DeviceStays
    <2>2. DeviceReplySound'
      BY <1>1, <1>5, <2>1, DeviceReplyKept
    <2> QED
      BY <1>1, <1>2, <1>4, <2>1, <2>2, DeviceKeepsReply
  <1>6. CASE /\ devBuffer # <<>> /\ Complete(devBuffer, pack.req, pack.len)
             /\ devBuffer' = <<>> /\ Deliver(pack.req)
    <2>1. ~Decided
      BY <1>6 DEF Decided
    <2>2. Stays
      BY <1>1, <1>2, <2>1, DeviceStays DEF Filling
    <2>3. pack.req = current
      <3>1. pack.len \in Nat
        BY <1>2 DEF Packs
      <3>2. pack.len # 0
        BY <1>6 DEF Complete
      <3> QED
        BY <1>1, <1>2, <3>1, <3>2 DEF AckSound
    <2>4. Decided'
      BY <1>2, <1>6 DEF Decided, OpensIn
    <2>5. DeviceReplySound'
      <3>1. CASE UNCHANGED devReply
        BY <1>1, <1>6, <2>2, <3>1, DeviceReplyKept
      <3>2. CASE /\ devReply'.req = current
                 /\ devReply'.phase \in {"small", "create"}
        BY <1>1, <1>6, <2>4, <3>2 DEF DeviceReplySound
      <3> QED
        BY <1>6, <2>3, <3>1, <3>2, DeliverStarts
    <2> QED
      BY <1>1, <1>2, <1>4, <2>2, <2>5, DeviceKeepsReply
  <1> QED
    BY <1>1, <1>5, <1>6

\* What the device sends of its reply is sound, and clears the converter's buffer
\* only while nothing of the reply is under way.
LEMMA ReplyFrameSound ==
    ASSUME Typed, DeviceReplySound, devReply # NoReply, devReply.phase # "small"
    PROVE  /\ BytesSound(ReplyFrame)
           /\ ReplyFrame.cmd \in Clearing => devReply.phase = "create"
  <1> DEFINE left == ReplySize - devReply.off
             len == IF left < ReplyBlock THEN left ELSE ReplyBlock
  <1>1. /\ devReply.phase \in {"create", "data", "finish"}
        /\ devReply.off \in 0 .. ReplySize /\ ReplySize \in Nat \ {0}
        /\ ReplyBlock \in Nat \ {0} /\ devReply.req = current
    BY Parts, Bounds DEF DeviceTyped, ReplyInRange, ReplyTyped, Phases, DeviceReplySound
  <1>2. \A n \in Nat : /\ ReplyBytes(n) = [i \in 1 .. n |-> current]
                       /\ Len(ReplyBytes(n)) = n
    BY <1>1 DEF ReplyBytes
  <1>3. CASE devReply.phase = "create"
    <2>1. ReplyFrame = Frame("DEV_CREATE_BUFFER", 0, 0, ReplySize, <<>>)
      BY <1>3 DEF ReplyFrame
    <2>2. ReplyFrame.cmd = "DEV_CREATE_BUFFER" /\ ReplyFrame.len = ReplySize
      BY <2>1 DEF Frame
    <2> QED
      BY <1>3, <2>2 DEF BytesSound, Bearing
  <1>4. CASE devReply.phase = "data"
    <2>1. ReplyFrame = Frame("DEV_RECEIVE_DATA_BLOCK_CMD", 0, devReply.off, 0,
                             ReplyBytes(len))
      BY <1>4 DEF ReplyFrame
    <2>2. /\ ReplyFrame.cmd = "DEV_RECEIVE_DATA_BLOCK_CMD"
          /\ ReplyFrame.off = devReply.off /\ ReplyFrame.data = ReplyBytes(len)
      BY <2>1 DEF Frame
    <2>3. len \in Nat
      BY <1>1
    <2>4. ReplyFrame.data = [i \in 1 .. Len(ReplyFrame.data) |-> current]
      BY <1>2, <2>2, <2>3
    <2>5. Decided /\ Held(devReply.off) /\ (devReply.off > 0 => Filling)
      BY <1>4 DEF DeviceReplySound
    <2> QED
      BY <1>4, <2>2, <2>4, <2>5 DEF BytesSound, Bearing, Clearing
  <1>5. CASE devReply.phase = "finish"
    <2>1. ReplyFrame = Frame("DEV_FINISH_RECV_DATA_CMD", 0, 0, ReplySize,
                             ReplyBytes(ReplySize))
      BY <1>5 DEF ReplyFrame
    <2>2. /\ ReplyFrame.cmd = "DEV_FINISH_RECV_DATA_CMD"
          /\ ReplyFrame.data = ReplyBytes(ReplySize)
      BY <2>1 DEF Frame
    <2>3. /\ ReplyFrame.data = [i \in 1 .. Len(ReplyFrame.data) |-> current]
          /\ Len(ReplyFrame.data) = ReplySize
      BY <1>1, <1>2, <2>2
    <2>4. Decided /\ Held(ReplySize) /\ Filling
      BY <1>1, <1>5 DEF DeviceReplySound
    <2> QED
      BY <1>5, <2>2, <2>3, <2>4 DEF BytesSound, Bearing, Clearing
  <1> QED
    BY <1>1, <1>3, <1>4, <1>5

\* A frame of the reply.
LEMMA RepliesKeepReply ==
    ASSUME Typed, ReplySound, requestsLeft # Requests, DeviceReplies
    PROVE  ReplySound'
  <1>1. /\ devReply # NoReply /\ uplink' = Sent(uplink, ReplyFrame)
        /\ ConverterIdle /\ UNCHANGED <<current, lastLp, downlink, devBuffer>>
        /\ devReply' = IF devReply.phase = "small" THEN NoReply ELSE devReply
        /\ AcksSound /\ ReplyFramesSound /\ OpeningsFirst /\ DeviceReplySound
    BY DEF DeviceReplies, ConverterIdle, object, ReplySound
  <1>2. PICK fr \in FrameType : fr = ReplyFrame
    BY <1>1, Parts, ReplyFrameTyped DEF DeviceTyped
  <1>3. /\ Sendable' = Sendable /\ OpeningsFirst'
        /\ Apart(downlink', Opening, Commands \ Opening)
    BY <1>1, SetsAfter DEF Sendable, OpeningsFirst, Opening, AcksSound
  <1>4. NoReply.phase = "idle" /\ (Decided => devBuffer' = <<>>)
    BY <1>1 DEF NoReply, Reply, Decided
  <1>5. CASE devReply.phase = "small"
    <2>1. fr.cmd = "RECEIVE_PACKAGE_CMD"
      BY <1>2, <1>5 DEF ReplyFrame, Frame
    <2>2. /\ \A other \in Items(uplink') :
                \/ other \in Items(uplink)
                \/ BytesSound(other)' /\ other.cmd \notin Clearing
          /\ Apart(uplink', Clearing, Bearing)
      BY <1>1, <1>2, <2>1, PlainFrame DEF Clearing, Bearing
    <2>3. Stays
      BY <1>1, <1>3, <1>4, <1>5, <2>2, DeviceStays
    <2>4. DeviceReplySound'
      BY <1>1, <1>3, <1>4, <1>5 DEF DeviceReplySound
    <2> QED
      BY <1>1, <1>3, <2>2, <2>3, <2>4, DeviceKeepsReply
  <1>6. CASE devReply.phase # "small"
    <2>1. /\ uplink \in Seq(FrameType) /\ Len(uplink) <= MaxInFlight
          /\ Apart(uplink, Clearing, Bearing)
          /\ \A other \in Items(uplink) : BytesSound(other)
      BY <1>1, UnderWay DEF ReplyFramesSound
    <2>2. BytesSound(fr) /\ (fr.cmd \in Clearing => devReply.phase = "create")
      BY <1>1, <1>2, <1>6, ReplyFrameSound
    <2>3. Items(uplink') \subseteq Items(uplink) \cup {fr}
      BY <1>1, <1>2, <2>1, SentItems
    <2>4. Apart(uplink', Clearing, Bearing)
      <3>1. fr.cmd \in Clearing => \A other \in Items(uplink) : other.cmd \notin Bearing
        BY <2>1, <2>2 DEF BytesSound
      <3> QED
        BY <1>1, <1>2, <2>1, <3>1, SentApart
    <2>5. Stays
      <3>1. Filling => \A other \in Items(uplink') :
                           other \in Items(uplink) \/ other.cmd \notin Clearing
        BY <2>2, <2>3 DEF Filling
      <3>2. Decided /\ devReply.phase # "create" => devReply'.phase # "create"
        BY <1>1, <1>6
      <3> QED
        BY <1>1, <1>3, <1>4, <3>1, <3>2, DeviceStays
    <2>6. BytesSound(fr)'
      BY <1>2, <2>2, <2>5, BytesKept
    <2>7. DeviceReplySound'
      BY <1>1, <1>6, <2>5, DeviceReplyKept
    <2> QED
      BY <1>1, <1>3, <2>3, <2>4, <2>5, <2>6, <2>7, DeviceKeepsReply
  <1> QED
    BY <1>5, <1>6

\* An acknowledgement moves the device on to what the converter holds.
LEMMA TakesAckKeepsReply ==
    ASSUME Typed, ReplySound, requestsLeft # Requests, DeviceTakesAck
    PROVE  ReplySound'
  <1>1. PICK ack : ack = Head(downlink)
    OBVIOUS
  <1>2. /\ downlink # <<>> /\ downlink' = Tail(downlink)
        /\ ack.cmd \in {"APP_CREATE_BUFFER", "APP_RECEIVE_DATA_BLOCK_CMD",
                        "APP_FINISH_RECV_DATA_CMD"}
        /\ ConverterIdle /\ UNCHANGED <<current, lastLp, uplink, devBuffer>>
        /\ devReply' = ReplyAfter(ack)
        /\ AcksSound /\ ReplyFramesSound /\ OpeningsFirst /\ DeviceReplySound
        /\ current \in Requests
    BY <1>1 DEF DeviceTakesAck, DeviceTakes, ConverterIdle, object, ReplySound, Once
  <1>3. /\ Sendable' \subseteq Sendable /\ OpeningsFirst'
        /\ Apart(downlink', Opening, Commands \ Opening)
        /\ ack \in Packs /\ AckSound(ack) /\ ~OpensIn(Sendable')
    BY <1>1, <1>2, PacketTaken DEF Opening, Commands
  <1>4. /\ Apart(uplink', Clearing, Bearing) /\ Items(uplink') = Items(uplink)
        /\ NoReply.phase = "idle"
        /\ Decided => devBuffer' = <<>>
    BY <1>2 DEF ReplyFramesSound, NoReply, Reply, Decided
  <1>5. ack.off \in Nat /\ ack.len \in Nat /\ ack.off + ack.len \in Nat /\ 0 \in Nat
    BY <1>3 DEF Packs
  <1>6. CASE UNCHANGED devReply
    <2>1. Stays
      BY <1>2, <1>3, <1>4, <1>6, DeviceStays
    <2>2. DeviceReplySound'
      BY <1>2, <1>6, <2>1, DeviceReplyKept
    <2> QED
      BY <1>2, <1>3, <1>4, <2>1, <2>2, DeviceKeepsReply
  <1>7. CASE devReply' = NoReply
    <2>1. Stays
      BY <1>2, <1>3, <1>4, <1>7, DeviceStays
    <2>2. DeviceReplySound'
      BY <1>2, <1>4, <1>7 DEF DeviceReplySound
    <2> QED
      BY <1>2, <1>3, <1>4, <2>1, <2>2, DeviceKeepsReply
  <1>8. CASE /\ ack.cmd = "APP_CREATE_BUFFER" /\ devReply.phase = "create"
             /\ devReply' = Reply("data", devReply.req, 0)
    <2>1. devReply # NoReply /\ devReply.req = current
      BY <1>2, <1>4, <1>8 DEF DeviceReplySound
    <2>2. devReply'.phase = "data" /\ devReply'.req = current /\ devReply'.off = 0
      BY <1>8, <2>1 DEF Reply
    <2>3. devBuffer = <<>>
      <3>1. DataSize[current] \in Nat /\ BlockSize \in Nat
        BY <1>2, ConstantsAssumption
      <3> QED
        BY <1>2, <2>1, <3>1 DEF DeviceReplySound, Decided
    <2>4. Decided'
      BY <1>2, <1>3, <2>3 DEF Decided, OpensIn
    <2>5. Stays
      BY <1>2, <1>3, <1>4, <2>2, DeviceStays
    <2>6. Held(0)'
      BY <1>3, <1>5, <1>8, <2>5 DEF AckSound, Stays
    <2>7. Held(devReply.off)'
      BY <2>2, <2>6 DEF Held
    <2>8. DeviceReplySound'
      BY <1>2, <2>2, <2>3, <2>4, <2>7 DEF DeviceReplySound
    <2> QED
      BY <1>2, <1>3, <1>4, <2>5, <2>8, DeviceKeepsReply
  <1>9. CASE /\ ack.cmd = "APP_RECEIVE_DATA_BLOCK_CMD" /\ devReply.phase = "data"
             /\ devReply' = Reply(IF ack.off + ack.len = ReplySize THEN "finish" ELSE "data",
                                  devReply.req, ack.off + ack.len)
    <2>1. devReply # NoReply /\ devReply.req = current /\ Decided
      BY <1>2, <1>4, <1>9 DEF DeviceReplySound
    <2>2. PICK n \in Nat : n = ack.off + ack.len
      BY <1>5
    <2>3. /\ devReply'.phase \in {"data", "finish"} /\ devReply'.req = current
          /\ devReply'.off = n /\ (devReply'.phase = "finish" => n = ReplySize)
      BY <1>9, <2>1, <2>2 DEF Reply
    <2>4. Filling /\ Held(n)
      BY <1>3, <1>9, <2>2 DEF AckSound
    <2>5. Stays
      BY <1>2, <1>3, <1>4, <2>3, DeviceStays
    <2>6. Decided' /\ Filling' /\ Held(n)'
      BY <2>1, <2>4, <2>5 DEF Stays
    <2>7. Held(devReply.off)'
      BY <2>3, <2>6 DEF Held
    <2>8. devBuffer' = <<>>
      BY <2>6 DEF Decided
    <2>9. DeviceReplySound'
      BY <1>2, <2>3, <2>6, <2>7, <2>8 DEF DeviceReplySound
    <2> QED
      BY <1>2, <1>3, <1>4, <2>5, <2>9, DeviceKeepsReply
  <1> QED
    BY <1>2, <1>6, <1>7, <1>8, <1>9 DEF ReplyAfter

\* A restart takes nothing from the converter.
LEMMA RebootsKeepReply ==
    ASSUME Typed, ReplySound, DeviceReboots
    PROVE  ReplySound'
  <1>1. /\ ConverterIdle /\ UNCHANGED <<current, requestsLeft, lastLp, downlink, uplink>>
        /\ devBuffer' = <<>> /\ devReply' = NoReply /\ NoReply.phase = "idle"
        /\ AcksSound /\ ReplyFramesSound /\ OpeningsFirst
    BY Zenon DEF DeviceReboots, ConverterIdle, object, ReplySound, NoReply, Reply
  <1>2. /\ Sendable' = Sendable /\ OpeningsFirst' /\ Items(uplink') = Items(uplink)
        /\ Apart(downlink', Opening, Commands \ Opening)
        /\ Apart(uplink', Clearing, Bearing)
    BY <1>1, SetsAfter DEF Sendable, OpeningsFirst, Opening, AcksSound, ReplyFramesSound
  <1>3. Stays
    BY <1>1, <1>2, DeviceStays
  <1>4. DeviceReplySound'
    BY <1>1 DEF DeviceReplySound
  <1>5. CASE requestsLeft # Requests
    BY <1>1, <1>2, <1>3, <1>4, <1>5, DeviceKeepsReply
  <1>6. CASE requestsLeft = Requests
    <2>1. UNCHANGED <<alive, sendDataBuffer>> /\ Fresh /\ SendBufferSound
      BY <1>1, <1>6 DEF ReplySound, Once, ConverterIdle, object
    <2>2. Fresh'
      BY <1>1, <2>1 DEF Fresh
    <2>3. Once' /\ SendBufferSound'
      BY <1>1, <1>6, <2>1, <2>2 DEF Once, SendBufferSound
    <2>4. AcksSound'
      BY <1>1, <1>2, <1>3, AcksKept
    <2>5. ReplyFramesSound'
      BY <1>1, <1>2, <1>3, ReplyFramesKept
    <2> QED
      BY <1>2, <1>4, <2>3, <2>4, <2>5 DEF ReplySound
  <1> QED
    BY <1>5, <1>6

-----------------------------------------------------------------------------
(* The request, and all steps together.                                    *)

\* Nothing but the request, or a restart, happens before the request.
LEMMA NothingEarlier ==
    ASSUME Once, requestsLeft = Requests, TransferNext
    PROVE  MakeRequest \/ DeviceReboots
  <1>1. /\ ~alive /\ downlink = <<>> /\ uplink = <<>> /\ devReply = NoReply
    BY DEF Once, Fresh
  <1>2. ~ClientLeaves /\ ~Timer
    BY <1>1 DEF ClientLeaves, ClientGone, Timer, Tick, AnswerTumeout, IdleTimeoutFires
  <1>3. ~ReceiveFrame /\ ~Lose
    BY <1>1 DEF ReceiveFrame, Lose
  <1>4. ~DeviceStep
    BY <1>1 DEF DeviceStep, DeviceTakes, DeviceWritesPackage, DeviceCreatesBuffer,
                DeviceWritesBlock, DeviceFinishes, DeviceReplies, DeviceTakesAck
  <1> QED
    BY <1>2, <1>3, <1>4 DEF TransferNext

\* There is no second request.
LEMMA NoSecondRequest ==
    ASSUME OneSession, Once, MakeRequest PROVE requestsLeft = Requests
  <1>1. SUFFICES ASSUME requestsLeft # Requests PROVE FALSE
    OBVIOUS
  <1>2. Requests \ requestsLeft = {current}
    BY <1>1 DEF Once
  <1>3. Cardinality({current}) = 1
    BY FS_Singleton
  <1>4. Cardinality(Requests \ requestsLeft) < 1
    BY DEF MakeRequest, OneSession
  <1> QED
    BY <1>2, <1>3, <1>4

\* It starts with nothing under way but its first packet.
LEMMA RequestKeepsReply ==
    ASSUME OneSession, Typed, TypeOK', ReplySound, MakeRequest
    PROVE  ReplySound'
  <1>1. requestsLeft = Requests
    BY NoSecondRequest DEF ReplySound
  <1>2. /\ ~alive /\ lastLp = NoPack /\ sendDataBuffer = NoBuffer
        /\ downlink = <<>> /\ uplink = <<>> /\ devBuffer = <<>> /\ devReply = NoReply
    BY <1>1 DEF ReplySound, Once, Fresh
  <1>3. PICK r \in Requests :
           /\ AcceptedRequest(r) \/ RefusedRequest(r)
           /\ requestsLeft' = Requests \ {r}
           /\ current' = r
           /\ Transmit
           /\ UNCHANGED <<uplink, device>>
    BY <1>1 DEF MakeRequest
  <1>4. /\ uplink' = <<>> /\ devBuffer' = <<>> /\ devReply' = NoReply
        /\ NoReply.phase = "idle" /\ NoPack.cmd = "none"
    BY <1>2, <1>3, Zenon DEF device, NoReply, Reply, NoPack, Pack
  <1>5. Once'
    <2>1. Requests \ requestsLeft' = {r} /\ requestsLeft' # Requests
      BY <1>3
    <2> QED
      BY <1>3, <2>1 DEF Once
  <1>6. DeviceReplySound'
    BY <1>4 DEF DeviceReplySound
  <1>7. Items(uplink') = {} /\ Items(downlink) = {} /\ DOMAIN uplink' = {}
    BY <1>2, <1>4 DEF Items
  <1>8. ReplyFramesSound'
    <2>1. Apart(uplink', Clearing, Bearing)
      BY <1>7 DEF Apart
    <2> QED
      BY <1>7, <2>1, SetsAfter, ApartAfter DEF ReplyFramesSound
  <1>9. /\ Sendable' \subseteq {lastLp, lastLp', sendLoraPack'}
        /\ Items(downlink') \subseteq {sendLoraPack'}
    BY <1>3, <1>7, Emitted DEF Sendable
  <1>10. Apart(downlink', Opening, Commands \ Opening)
    <2>1. /\ downlink \in Seq(Packs) /\ sendLoraPack' \in Packs
          /\ Apart(downlink, Opening, Commands \ Opening)
      BY UnderWay DEF ReplySound, AcksSound, TypeOK
    <2>2. Apart(Sent(downlink, sendLoraPack'), Opening, Commands \ Opening)
      BY <1>7, <2>1, SentApart
    <2> QED
      BY <1>3, <2>1, <2>2 DEF Transmit
  <1>11. AckSound(NoPack)'
    BY <1>4 DEF AckSound
  <1>12. CASE RefusedRequest(r)
    <2>1. lastLp' = NoPack /\ sendLoraPack' = NoPack /\ sendDataBuffer' = NoBuffer
      BY <1>2, <1>12 DEF RefusedRequest
    <2>2. SendBufferSound'
      BY <2>1 DEF SendBufferSound, NoBuffer
    <2>3. \A pack \in Sendable' : AckSound(pack)'
      BY <1>2, <1>9, <1>11, <2>1 DEF AckSound
    <2>4. AcksSound' /\ OpeningsFirst'
      BY <1>4, <1>10, <2>1, <2>3, ApartAfter, SetsAfter DEF AcksSound, OpeningsFirst, Opening
    <2> QED
      BY <1>5, <1>6, <1>8, <2>2, <2>4 DEF ReplySound
  <1>13. CASE AcceptedRequest(r)
    <2> DEFINE small == DataSize[r] <= BlockSize
               size  == DataSize[r] + HeaderSize
    <2>1. PICK pack : pack = Pack(IF small THEN "SEND_PACKAGE_ANSWER_CMD"
                                  ELSE "DEV_CREATE_BUFFER_CMD", r, 0, size)
      OBVIOUS
    <2>2. /\ lastLp' = pack /\ sendLoraPack' = pack
          /\ sendDataBuffer' = IF small THEN NoBuffer ELSE [req |-> r, size |-> size]
          /\ pack.cmd = IF small THEN "SEND_PACKAGE_ANSWER_CMD" ELSE "DEV_CREATE_BUFFER_CMD"
          /\ pack.req = r
      BY <1>13, <2>1 DEF AcceptedRequest, SendCommand, Pack
    <2>3. SendBufferSound'
      BY <1>3, <2>2 DEF SendBufferSound, NoBuffer
    <2>4. DataSize[r] \in Nat /\ BlockSize \in Nat
      BY ConstantsAssumption
    <2>5. AckSound(pack)'
      BY <1>3, <2>2, <2>4 DEF AckSound
    <2>6. \A other \in Sendable' : other = pack \/ other = NoPack
      BY <1>2, <1>9, <2>2
    <2>7. \A other \in Sendable' : AckSound(other)'
      BY <1>4, <2>5, <2>6 DEF AckSound
    <2>8. AcksSound'
      BY <1>10, <2>7, ApartAfter DEF AcksSound
    <2>9. OpeningsFirst'
      BY <1>9, <2>2, SetsAfter DEF OpeningsFirst, Opening
    <2> QED
      BY <1>5, <1>6, <1>8, <2>3, <2>8, <2>9 DEF ReplySound
  <1> QED
    BY <1>3, <1>12, <1>13

\* Every step of the program, the network and the device.
LEMMA ReplyNext ==
    ASSUME OneSession, Typed, TypeOK', ReplySound, TransferNext
    PROVE  ReplySound'
  <1>1. CASE MakeRequest
    BY <1>1, RequestKeepsReply
  <1>2. CASE DeviceReboots
    BY <1>2, RebootsKeepReply
  <1>3. CASE ~MakeRequest /\ ~DeviceReboots
    <2>1. requestsLeft # Requests
      BY <1>3, NothingEarlier DEF ReplySound
    <2>2. CASE ClientLeaves \/ Timer
      <3>1. ReplyMoves
        <4>1. UNCHANGED <<requestsLeft, current, uplink, device>> /\ Transmit
          BY <2>2 DEF ClientLeaves, Timer
        <4>2. Apart(uplink, Clearing, Bearing)
          BY DEF ReplySound, ReplyFramesSound
        <4> QED
          BY <4>1, <4>2 DEF ReplyMoves
      <3>2. CASE ClientLeaves
        BY <2>1, <3>1, <3>2, EndKeepsReply DEF ClientLeaves, ClientGone
      <3>3. CASE Timer
        BY <2>1, <3>1, <3>3, TimerKeepsReply DEF Timer
      <3> QED
        BY <2>2, <3>2, <3>3
    <2>3. CASE ReceiveFrame
      <3>1. /\ uplink # <<>> /\ uplink' = Tail(uplink) /\ Transmit
            /\ UNCHANGED <<requestsLeft, current, device>>
        BY <2>3 DEF ReceiveFrame
      <3>2. CASE Dispatch(Head(uplink))
        BY <2>1, <3>1, <3>2, SlotsKeepReply
      <3>3. CASE sendLoraPack' = NoPack /\ UNCHANGED object
        <4>1. ReplyMoves
          BY <3>1, FrameTaken DEF ReplySound, ReplyMoves
        <4> QED
          BY <2>1, <3>3, <4>1, SteadyKeepsReply DEF object
      <3> QED
        BY <2>3, <3>2, <3>3 DEF ReceiveFrame
    <2>4. CASE Lose
      BY <2>1, <2>4, LoseKeepsReply
    <2>5. CASE DeviceStep
      BY <2>1, <2>5, WritesPackageKeepsReply, CreatesBufferKeepsReply,
         WritesBlockKeepsReply, FinishesKeepsReply, RepliesKeepReply, TakesAckKeepsReply
         DEF DeviceStep
    <2> QED
      BY <1>3, <2>2, <2>3, <2>4, <2>5 DEF TransferNext
  <1> QED
    BY <1>1, <1>2, <1>3

\* A step in which nothing happens.
LEMMA ReplyStutters ==
    ASSUME Typed, ReplySound, UNCHANGED allVars PROVE ReplySound'
  <1>1. UNCHANGED <<alive, sendDataBuffer, recvDataBuffer, lastLp, requestsLeft, current,
                    downlink, uplink, devBuffer, devReply>>
    BY DEF allVars, vars, object, device
  <1>2. /\ Once /\ SendBufferSound /\ AcksSound /\ ReplyFramesSound /\ OpeningsFirst
        /\ DeviceReplySound
    BY DEF ReplySound
  <1>3. Sendable' = Sendable /\ Items(uplink') = Items(uplink)
    BY <1>1, SetsAfter DEF Sendable
  <1>4. Stays
    <2>1. \A n : Held(n) => Held(n)'
      BY <1>1 DEF Held, HoldsPrefix
    <2>2. Decided => devBuffer' = <<>>
      BY <1>1 DEF Decided
    <2> QED
      BY <1>1, <1>3, <2>1, <2>2, ReplyStays
  <1>5. Once'
    BY <1>1, <1>2 DEF Once, Fresh
  <1>6. SendBufferSound' /\ OpeningsFirst'
    BY <1>1, <1>2, SetsAfter DEF SendBufferSound, OpeningsFirst, Opening
  <1>7. AcksSound' /\ ReplyFramesSound'
    BY <1>1, <1>2, <1>3, <1>4, AcksKept, ReplyFramesKept DEF AcksSound, ReplyFramesSound
  <1>8. DeviceReplySound'
    BY <1>1, <1>2, <1>4, DeviceReplyKept
  <1> QED
    BY <1>5, <1>6, <1>7, <1>8 DEF ReplySound

-----------------------------------------------------------------------------
(* The theorems.                                                           *)

\* Types and strengthening are inductive together.
LEMMA ReplyStep ==
    ASSUME OneSession, Typed, ReplySound, [TransferNext]_allVars
    PROVE  Typed' /\ ReplySound'
  <1>1. Typed' /\ TypeOK'
    BY TypedStep DEF Typed, TransferTypeOK
  <1> QED
    BY <1>1, ReplyNext, ReplyStutters

\* The program starts with no reply.
LEMMA ReplyInit == ASSUME TransferInit PROVE Typed /\ ReplySound
  <1>1. /\ requestsLeft = Requests /\ downlink = <<>> /\ uplink = <<>>
        /\ devBuffer = <<>> /\ devReply = NoReply
        /\ ~alive /\ lastLp = NoPack /\ sendDataBuffer = NoBuffer
        /\ NoReply.phase = "idle" /\ NoPack.cmd = "none"
    BY Zenon DEF TransferInit, Init, NoReply, Reply, NoPack, Pack
  <1>2. Once /\ SendBufferSound /\ DeviceReplySound
    BY <1>1 DEF Once, Fresh, SendBufferSound, NoBuffer, DeviceReplySound
  <1>3. /\ Items(downlink) = {} /\ Items(uplink) = {}
        /\ Apart(downlink, Opening, Commands \ Opening) /\ Apart(uplink, Clearing, Bearing)
    BY <1>1 DEF Items, Apart
  <1>4. AcksSound /\ ReplyFramesSound /\ OpeningsFirst
    BY <1>1, <1>3 DEF AcksSound, ReplyFramesSound, OpeningsFirst, Sendable, AckSound, Opening
  <1> QED
    BY <1>2, <1>4, TypedInit DEF ReplySound

\* A frame that finishes the reply finds the whole reply in the buffer.
LEMMA NoBadCrcStep ==
    ASSUME Typed, ReplySound, TransferNext PROVE sendAnswer' # "badCrc"
  <1>1. CASE MakeRequest \/ ClientLeaves \/ Timer
    BY <1>1 DEF MakeRequest, AcceptedRequest, RefusedRequest, Refusal, Refusals,
                ClientLeaves, ClientGone, Timer, Tick, AnswerTumeout, IdleTimeoutFires
  <1>2. CASE Lose \/ DeviceStep \/ DeviceReboots
    BY <1>2 DEF Lose, DeviceStep, DeviceReboots, DeviceTakes, DeviceWritesPackage,
         DeviceCreatesBuffer, DeviceWritesBlock, DeviceFinishes, DeviceReplies,
         DeviceTakesAck, ConverterIdle
  <1>3. CASE ReceiveFrame
    <2>1. PICK fr : fr = Head(uplink)
      OBVIOUS
    <2>2. fr \in FrameType /\ BytesSound(fr)
      BY <1>3, <2>1, FrameTaken DEF ReceiveFrame, ReplySound
    <2>3. CASE /\ fr.cmd = "DEV_FINISH_RECV_DATA_CMD" /\ FinishReceivedPackAnswer(fr.data)
      <3>1. /\ fr.data = [i \in 1 .. Len(fr.data) |-> current] /\ Len(fr.data) = ReplySize
            /\ Held(ReplySize) /\ alive
        BY <2>2, <2>3 DEF BytesSound, Bearing, FinishReceivedPackAnswer
      <3>2. /\ Len(recvDataBuffer) = ReplySize
            /\ \A i \in 1 .. ReplySize : recvDataBuffer[i] = current
            /\ recvDataBuffer \in Seq(Words \cup {Junk})
        BY <3>1, UnderWay DEF Held, HoldsPrefix, TypeOK
      <3>3. fr.data = recvDataBuffer
        BY <3>1, <3>2
      <3>4. CrcOutcomes(fr.data, recvDataBuffer) = {TRUE}
        BY <3>3 DEF CrcOutcomes
      <3> QED
        BY <2>3, <3>4 DEF FinishReceivedPackAnswer
    <2>4. CASE \/ CreateBufferAnswer(fr.rc) \/ SendDataBlockAnswer(fr.rc, fr.off, fr.len)
               \/ FinishSendPackAnswer \/ ReceivePackage \/ CreateBufferCmd(fr.len)
               \/ ReceivedDataBlock(fr.off, fr.data)
      BY <2>4 DEF CreateBufferAnswer, SendDataBlockAnswer, FinishSendPackAnswer,
                  ReceivePackage, CreateBufferCmd, ReceivedDataBlock
    <2> QED
      BY <1>3, <2>1, <2>3, <2>4 DEF ReceiveFrame, Dispatch
  <1> QED
    BY <1>1, <1>2, <1>3 DEF TransferNext

\* What the device counts as received by the converter is in recvDataBuffer, for
\* every size of the reply and of its blocks, every number of repetitions, and
\* whatever is lost: receivedDataBlock stores before it acknowledges, and the
\* buffer of a session is never cleared again behind an acknowledgement.
THEOREM AckedBytesAreStored ==
    ASSUME OneSession
    PROVE  TransferSpec => []AckedIsStored
  <1>1. TransferInit => Typed /\ ReplySound
    BY ReplyInit
  <1>2. Typed /\ ReplySound /\ [TransferNext]_allVars => Typed' /\ ReplySound'
    BY ReplyStep
  <1>3. ReplySound => AckedIsStored
    <2>1. SUFFICES ASSUME ReplySound, alive, devReply.phase \in {"data", "finish"}
                   PROVE  /\ Len(recvDataBuffer) = ReplySize
                          /\ HoldsPrefix(recvDataBuffer, devReply.req, devReply.off)
      BY DEF AckedIsStored
    <2>2. devReply # NoReply
      BY <2>1 DEF NoReply, Reply
    <2>3. Held(devReply.off) /\ devReply.req = current
      BY <2>1, <2>2 DEF ReplySound, DeviceReplySound
    <2> QED
      BY <2>1, <2>3 DEF Held
  <1> QED
    BY <1>1, <1>2, <1>3, PTL DEF TransferSpec

\* So finishReceivedPackAnswer finds the whole reply, and the application is
\* never told of a bad CRC, however often the device restarts.
THEOREM RepliesAreNeverBad ==
    ASSUME OneSession
    PROVE  TransferSpec => NeverBadCrc
  <1>1. TransferInit => Typed /\ ReplySound
    BY ReplyInit
  <1>2. Typed /\ ReplySound /\ [TransferNext]_allVars => Typed' /\ ReplySound'
    BY ReplyStep
  <1>3. Typed /\ ReplySound /\ [TransferNext]_allVars => [sendAnswer' # "badCrc"]_allVars
    BY NoBadCrcStep
  <1> QED
    BY <1>1, <1>2, <1>3, PTL DEF TransferSpec, NeverBadCrc

=============================================================================
