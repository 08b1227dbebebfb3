---------------------------- MODULE DeliveryProofs ----------------------------
(***************************************************************************)
(* The bytes of a request.  In its first session a converter never counts  *)
(* a byte as confirmed that the device has not written, and never asks for *)
(* the check of a buffer that has a gap, for every size of request and of  *)
(* block, every number of repetitions, and whatever the network loses.     *)
(***************************************************************************)
EXTENDS TransferProofs, FiniteSetTheorems

-----------------------------------------------------------------------------
(* The strengthening.                                                      *)

\* One request is made, and no offset in it wraps around in a quint16.
FirstSession == MaxSessions = 1 /\ MaxData + HeaderSize < U16

Size == DataSize[current] + HeaderSize

\* Where a block may begin, and how many bytes it has there.
Position(o) ==
    o \in 0 .. Size /\ (o = Size \/ \E k \in 0 .. o : o = k * BlockSize)

Length(o) == IF BlockSize <= Size - o THEN BlockSize ELSE Size - o

\* What is on a path, and that no create follows a block there.
Items(path) == {path[i] : i \in DOMAIN path}

Ordered(path) ==
    \A i, j \in DOMAIN path :
        i < j /\ path[i].cmd = "SEND_DATA_BLOCK_CMD"
            => path[j].cmd # "DEV_CREATE_BUFFER_CMD"

\* What is on its way to the device or may be sent to it again.
Sendable == {lastLp} \cup Items(downlink)

\* The device will not create its buffer anew; nor will the converter hear
\* once more that it did.
Settled == \A pack \in Sendable : pack.cmd # "DEV_CREATE_BUFFER_CMD"

Created ==
    Settled /\ \A fr \in Items(uplink) : fr.cmd # "DEV_CREATE_BUFFER_CMD"

\* The first n bytes are in the device's buffer, or all were handed over.
Written(n) == current \in delivered \/ HoldsPrefix(devBuffer, current, n)

\* The converter has a buffer to send, and has come to position o in it.
Sending(o) ==
    alive => sendDataBuffer.req # NoRequest /\ o <= fileSizeCounter

\* A packet of the sending half comes after what it builds upon.
PackSound(pack) ==
    /\ pack.cmd = "DEV_CREATE_BUFFER_CMD" =>
           Sending(0) /\ pack.req = current /\ pack.len = Size
    /\ pack.cmd = "SEND_DATA_BLOCK_CMD" =>
           /\ Sending(pack.off) /\ pack.req = current
           /\ Position(pack.off) /\ pack.len = Length(pack.off)
           /\ pack.off > 0 => Created /\ Written(pack.off)
    /\ pack.cmd = "FINISH_SEND_DATA_CMD" =>
           /\ pack.req = current /\ pack.len = Size
           /\ Created /\ Written(Size)

\* What an answer to such a packet confirms is written.
FrameSound(fr) ==
    /\ fr.cmd = "DEV_CREATE_BUFFER_CMD" => Sending(0)
    /\ fr.cmd = "SEND_DATA_BLOCK_CMD" =>
           /\ Sending(0) /\ Settled
           /\ fr.len > 0 =>
                  /\ Sending(fr.off)
                  /\ Position(fr.off) /\ fr.len = Length(fr.off)
                  /\ fr.off > 0 => Created
                  /\ Written(fr.off + fr.len)

CounterSound ==
    sendDataBuffer.req # NoRequest =>
        /\ sendDataBuffer = [req |-> current, size |-> Size]
        /\ Size < U16
        /\ Position(fileSizeCounter)
        /\ fileSizeCounter > 0 => Created /\ Written(fileSizeCounter)

PacketsSound ==
    /\ \A pack \in Sendable : PackSound(pack)
    /\ Ordered(downlink)

FramesSound ==
    /\ \A fr \in Items(uplink) : FrameSound(fr)
    /\ Ordered(uplink)

\* While the create request may be repeated, no block was sent.
NoBlocks ==
    \A item \in Items(downlink) \cup Items(uplink) : item.cmd # "SEND_DATA_BLOCK_CMD"

BlocksLater == lastLp.cmd = "DEV_CREATE_BUFFER_CMD" => NoBlocks

BufferSound == devBuffer = <<>> \/ Len(devBuffer) = Size

\* Before the request nothing is under way; after it there is no other.
Fresh ==
    /\ ~alive /\ lastLp = NoPack /\ sendDataBuffer = NoBuffer
    /\ downlink = <<>> /\ uplink = <<>> /\ devBuffer = <<>> /\ devReply = NoReply

Once ==
    IF requestsLeft = Requests THEN Fresh
    ELSE current \in Requests /\ Requests \ requestsLeft = {current}

\* Together they are inductive, until the device restarts and its buffer is
\* lost without the converter's knowledge.
Sound ==
    /\ Once
    /\ CounterSound
    /\ PacketsSound
    /\ FramesSound
    /\ BlocksLater
    /\ BufferSound

Delivery == reboots = 0 => Sound

-----------------------------------------------------------------------------
(* Paths.                                                                  *)

\* The items of a path are of its type.
LEMMA ItemsType ==
    ASSUME NEW S, NEW path \in Seq(S) PROVE Items(path) \subseteq S
  <1>1. \A i \in DOMAIN path : path[i] \in S
    OBVIOUS
  <1> QED
    BY <1>1 DEF Items

\* Sending adds one item, at the end.
LEMMA SentItems ==
    ASSUME NEW S, NEW path \in Seq(S), Len(path) <= MaxInFlight, NEW item \in S
    PROVE  Items(Sent(path, item)) \subseteq Items(path) \cup {item}
  BY SentType DEF Items

\* Taking the first item leaves the others.
LEMMA TailItems ==
    ASSUME NEW S, NEW path \in Seq(S), Len(path) <= MaxInFlight, path # <<>>
    PROVE  Items(Tail(path)) \subseteq Items(path) /\ Head(path) \in Items(path)
  BY TailType DEF Items

\* A create may be sent when no block is on the path.
LEMMA SentOrdered ==
    ASSUME NEW S, NEW path \in Seq(S), NEW item \in S, Ordered(path),
           item.cmd = "DEV_CREATE_BUFFER_CMD" =>
               \A other \in Items(path) : other.cmd # "SEND_DATA_BLOCK_CMD"
    PROVE  Ordered(Sent(path, item))
  <1>1. CASE Sent(path, item) = path
    BY <1>1
  <1>2. CASE Sent(path, item) = Append(path, item)
    <2> DEFINE new == Append(path, item)
    <2>1. /\ Len(path) \in Nat
          /\ DOMAIN path = 1 .. Len(path)
          /\ DOMAIN new = 1 .. Len(path) + 1
          /\ \A i \in 1 .. Len(path) : new[i] = path[i]
          /\ new[Len(path) + 1] = item
      OBVIOUS
    <2> HIDE DEF new
    <2>2. ASSUME NEW i \in DOMAIN new, NEW j \in DOMAIN new, i < j,
                 new[i].cmd = "SEND_DATA_BLOCK_CMD"
          PROVE  new[j].cmd # "DEV_CREATE_BUFFER_CMD"
      <3>1. i \in 1 .. Len(path) /\ new[i] = path[i]
        BY <2>1, <2>2
      <3>2. CASE j \in 1 .. Len(path)
        BY <2>1, <2>2, <3>1, <3>2 DEF Ordered
      <3>3. CASE j = Len(path) + 1
        <4>1. path[i] \in Items(path)
          BY <2>1, <3>1 DEF Items
        <4> QED
          BY <2>1, <2>2, <3>1, <3>3, <4>1
      <3> QED
        BY <2>1, <2>2, <3>2, <3>3
    <2>3. Ordered(new)
      BY <2>2 DEF Ordered
    <2> QED
      BY <1>2, <2>3 DEF new
  <1> QED
    BY <1>1, <1>2 DEF Sent

\* The order stays when the first item is taken, and behind a block there is
\* no create.
LEMMA TailOrdered ==
    ASSUME NEW S, NEW path \in Seq(S), Ordered(path), path # <<>>
    PROVE  /\ Ordered(Tail(path))
           /\ Head(path).cmd = "SEND_DATA_BLOCK_CMD" =>
                  \A other \in Items(path) : other.cmd # "DEV_CREATE_BUFFER_CMD"
  <1>1. /\ Len(path) \in Nat /\ Len(path) > 0
        /\ DOMAIN path = 1 .. Len(path)
        /\ Head(path) = path[1]
        /\ DOMAIN Tail(path) = 1 .. Len(path) - 1
        /\ \A i \in 1 .. Len(path) - 1 : Tail(path)[i] = path[i + 1]
    OBVIOUS
  <1>2. ASSUME NEW i \in DOMAIN Tail(path), NEW j \in DOMAIN Tail(path), i < j,
               Tail(path)[i].cmd = "SEND_DATA_BLOCK_CMD"
        PROVE  Tail(path)[j].cmd # "DEV_CREATE_BUFFER_CMD"
    <2>1. i + 1 \in DOMAIN path /\ j + 1 \in DOMAIN path /\ i + 1 < j + 1
      BY <1>1, <1>2
    <2>2. path[i + 1].cmd = "SEND_DATA_BLOCK_CMD"
      BY <1>1, <1>2
    <2>3. path[j + 1].cmd # "DEV_CREATE_BUFFER_CMD"
      BY <2>1, <2>2 DEF Ordered
    <2> QED
      BY <1>1, <2>3
  <1>3. ASSUME Head(path).cmd = "SEND_DATA_BLOCK_CMD", NEW j \in DOMAIN path
        PROVE  path[j].cmd # "DEV_CREATE_BUFFER_CMD"
    <2>1. CASE j = 1
      BY <1>1, <1>3, <2>1
    <2>2. CASE j > 1
      BY <1>1, <1>3, <2>2 DEF Ordered
    <2> QED
      BY <1>1, <2>1, <2>2
  <1> QED
    BY <1>2, <1>3 DEF Ordered, Items

-----------------------------------------------------------------------------
(* Positions.                                                              *)

\* A session has a size.
LEMMA SizeIsNat == ASSUME current \in Requests PROVE Size \in Nat /\ Size > 0
  BY ConstantsAssumption DEF Size, HeaderSize

\* The first block begins at the start.
LEMMA FirstPosition == ASSUME current \in Requests PROVE Position(0)
  <1>1. 0 = 0 * BlockSize /\ 0 \in 0 .. 0 /\ 0 \in 0 .. Size
    BY SizeIsNat, Parameters
  <1> QED
    BY <1>1 DEF Position

\* A block follows where one ends.
LEMMA NextPosition ==
    ASSUME current \in Requests, NEW o, Position(o), Length(o) > 0
    PROVE  Position(o + Length(o))
  <1>0. Size \in Nat /\ BlockSize \in Nat \ {0} /\ o \in 0 .. Size
    BY SizeIsNat, Parameters DEF Position
  <1>1. o # Size
    BY <1>0 DEF Length
  <1>2. PICK k \in 0 .. o : o = k * BlockSize
    BY <1>1 DEF Position
  <1>3. CASE BlockSize <= Size - o
    <2>1. Length(o) = BlockSize
      BY <1>3 DEF Length
    <2>2. o + BlockSize = (k + 1) * BlockSize
      BY <1>0, <1>2
    <2>3. k + 1 \in 0 .. o + BlockSize /\ o + BlockSize \in 0 .. Size
      BY <1>0, <1>3
    <2> QED
      BY <2>1, <2>2, <2>3 DEF Position
  <1>4. CASE ~(BlockSize <= Size - o)
    <2>1. o + Length(o) = Size
      BY <1>0, <1>4 DEF Length
    <2> QED
      BY <1>0, <2>1 DEF Position
  <1> QED
    BY <1>3, <1>4

\* A position is a number, its length too.
LEMMA PositionType ==
    ASSUME current \in Requests, NEW o, Position(o)
    PROVE  o \in Nat /\ Length(o) \in Nat /\ o + Length(o) <= Size /\ o <= Size
  BY SizeIsNat, Parameters DEF Position, Length

\* No remainder is left of a number below U16.
LEMMA NoWrap == ASSUME NEW n \in Nat, n < U16 PROVE n % U16 = n
  <1>1. U16 \in Nat \ {0}
    BY Parameters
  <1> QED
    BY <1>1

\* The block a converter in transfer sends.
LEMMA BlockThere ==
    ASSUME TypeOK, CounterSound, sendDataBuffer.req # NoRequest, current \in Requests,
           NEW pos, Position(pos)
    PROVE  DataBlock(pos) = Pack("SEND_DATA_BLOCK_CMD", current, pos, Length(pos))
  <1>1. sendDataBuffer.size = Size /\ sendDataBuffer.req = current /\ Size < U16
    BY DEF CounterSound
  <1>2. pos \in Nat /\ pos <= Size /\ Size \in Nat /\ BlockSize \in Nat \ {0}
        /\ U16 \in Nat
    BY SizeIsNat, PositionType, Parameters
  <1>3. pos % U16 = pos
    BY <1>1, <1>2, NoWrap
  <1>4. (IF BlockSize <= Size - pos THEN BlockSize
         ELSE IF Size - pos > 0 THEN Size - pos ELSE 0) = Length(pos)
    BY <1>2 DEF Length
  <1> QED
    BY <1>1, <1>3, <1>4 DEF DataBlock

-----------------------------------------------------------------------------
(* What a step must not undo.                                              *)

\* A session goes forward: the counter grows, a create once past stays past,
\* and what is written stays written unless the buffer is created anew.
Grows ==
    /\ UNCHANGED current
    /\ alive' => /\ alive
                 /\ sendDataBuffer' = sendDataBuffer
                 /\ fileSizeCounter <= fileSizeCounter'
    /\ Settled => Settled'
    /\ Created => Created'
    /\ Settled => \A n \in Nat : Written(n) => Written(n)'

\* The types of what is under way.
LEMMA UnderWay ==
    ASSUME Typed
    PROVE  /\ TypeOK
           /\ Sendable \subseteq Packs
           /\ Items(uplink) \subseteq FrameType
           /\ downlink \in Seq(Packs) /\ Len(downlink) <= MaxInFlight
           /\ uplink \in Seq(FrameType) /\ Len(uplink) <= MaxInFlight
           /\ devBuffer \in Seq(Requests \cup {Junk})
  <1>1. /\ TypeOK
        /\ downlink \in Seq(Packs) /\ Len(downlink) <= MaxInFlight
        /\ uplink \in Seq(FrameType) /\ Len(uplink) <= MaxInFlight
        /\ devBuffer \in Seq(Requests \cup {Junk})
    BY DEF Typed, TransferTypeOK
  <1>2. lastLp \in Packs
    BY <1>1 DEF TypeOK
  <1> QED
    BY <1>1, <1>2, ItemsType DEF Sendable

\* The three sets after a step.
LEMMA SetsAfter ==
    /\ Sendable' = {lastLp'} \cup Items(downlink')
    /\ Items(downlink)' = Items(downlink')
    /\ Items(uplink)' = Items(uplink')
    /\ Ordered(downlink)' = Ordered(downlink')
    /\ Ordered(uplink)' = Ordered(uplink')
  BY DEF Sendable, Items, Ordered

\* Nothing changes the size within a session.
LEMMA SizeKept ==
    ASSUME UNCHANGED current
    PROVE  /\ Size' = Size
           /\ \A o : Position(o) => Position(o)'
           /\ \A o : Length(o)' = Length(o)
  BY DEF Size, Position, Length

\* A position that was reached stays reached.
LEMMA SendingKept ==
    ASSUME TypeOK, TypeOK', Grows, NEW o \in Nat, Sending(o)
    PROVE  Sending(o)'
  <1>1. fileSizeCounter \in Int /\ fileSizeCounter' \in Int
    BY DEF TypeOK
  <1> QED
    BY <1>1 DEF Grows, Sending

\* A packet stays sound.
LEMMA PackKept ==
    ASSUME TypeOK, TypeOK', current \in Requests, Grows, NEW pack \in Packs, PackSound(pack)
    PROVE  PackSound(pack)'
  <1>1. pack.off \in Nat /\ 0 \in Nat /\ Size \in Nat
    BY SizeIsNat DEF Packs
  <1>2. /\ Sending(0) => Sending(0)'
        /\ Sending(pack.off) => Sending(pack.off)'
    BY <1>1, SendingKept
  <1>3. /\ Created /\ Written(pack.off) => Created' /\ Written(pack.off)'
        /\ Created /\ Written(Size) => Created' /\ Written(Size)'
    <2>1. Size' = Size
      BY SizeKept DEF Grows
    <2>2. ASSUME NEW n \in Nat, Created, Written(n) PROVE Created' /\ Written(n)'
      BY <2>2 DEF Grows, Created
    <2>3. ASSUME Created, Written(Size) PROVE Written(Size)'
      <3>1. PICK n \in Nat : n = Size
        BY <1>1
      <3>2. Written(n)'
        BY <2>2, <2>3, <3>1
      <3> QED
        BY <2>1, <3>1, <3>2 DEF Written
    <2> QED
      BY <1>1, <2>2, <2>3
  <1>4. /\ current' = current /\ Size' = Size
        /\ Position(pack.off) => Position(pack.off)'
        /\ Length(pack.off)' = Length(pack.off)
    BY SizeKept DEF Grows
  <1> QED
    BY <1>2, <1>3, <1>4 DEF PackSound

\* An answer stays sound.
LEMMA FrameKept ==
    ASSUME TypeOK, TypeOK', current \in Requests, Grows, NEW fr \in FrameType,
           FrameSound(fr)
    PROVE  FrameSound(fr)'
  <1>1. fr.off \in Nat /\ fr.len \in Nat /\ 0 \in Nat /\ fr.off + fr.len \in Nat
    BY DEF FrameType
  <1>2. /\ Sending(0) => Sending(0)'
        /\ Sending(fr.off) => Sending(fr.off)'
    BY <1>1, SendingKept
  <1>3. /\ Settled => Settled' /\ (Written(fr.off + fr.len) => Written(fr.off + fr.len)')
        /\ Created => Created'
    BY <1>1 DEF Grows
  <1>4. /\ Position(fr.off) => Position(fr.off)'
        /\ Length(fr.off)' = Length(fr.off)
    BY SizeKept DEF Grows
  <1> QED
    BY <1>2, <1>3, <1>4 DEF FrameSound

\* So do all that remain, and new ones may come in the right order.
LEMMA PacketsKept ==
    ASSUME Typed, TypeOK', current \in Requests, Grows, PacketsSound,
           \A pack \in Sendable' : pack \in Sendable \/ PackSound(pack)',
           Ordered(downlink')
    PROVE  PacketsSound'
  <1>1. \A pack \in Sendable : pack \in Packs /\ PackSound(pack)
    BY UnderWay DEF PacketsSound
  <1>2. \A pack \in Sendable' : PackSound(pack)'
    BY <1>1, UnderWay, PackKept
  <1> QED
    BY <1>2, SetsAfter DEF PacketsSound

\* The same of the answers.
LEMMA FramesKept ==
    ASSUME Typed, TypeOK', current \in Requests, Grows, FramesSound,
           \A fr \in Items(uplink') : fr \in Items(uplink) \/ FrameSound(fr)',
           Ordered(uplink')
    PROVE  FramesSound'
  <1>1. \A fr \in Items(uplink) : fr \in FrameType /\ FrameSound(fr)
    BY UnderWay DEF FramesSound
  <1>2. \A fr \in Items(uplink') : FrameSound(fr)'
    BY <1>1, UnderWay, FrameKept
  <1> QED
    BY <1>2, SetsAfter DEF FramesSound

\* A counter that stays where it is.
LEMMA CounterKept ==
    ASSUME current \in Requests, Grows, CounterSound,
           UNCHANGED <<sendDataBuffer, fileSizeCounter>> \/ sendDataBuffer' = NoBuffer
    PROVE  CounterSound'
  <1>1. CASE sendDataBuffer' = NoBuffer
    BY <1>1 DEF NoBuffer, CounterSound
  <1>2. CASE UNCHANGED <<sendDataBuffer, fileSizeCounter>> /\ sendDataBuffer.req # NoRequest
    <2>1. /\ sendDataBuffer = [req |-> current, size |-> Size]
          /\ Size < U16 /\ Position(fileSizeCounter)
          /\ fileSizeCounter > 0 => Created /\ Written(fileSizeCounter)
      BY <1>2 DEF CounterSound
    <2>2. PICK n : n = fileSizeCounter
      OBVIOUS
    <2>3. n \in Nat /\ Position(n)
      BY <2>1, <2>2, PositionType
    <2>4. /\ Size' = Size /\ current' = current /\ Position(n)'
          /\ n > 0 => Created' /\ Written(n)'
      BY <2>1, <2>2, <2>3, SizeKept DEF Grows, Created
    <2>5. /\ Position(fileSizeCounter)'
          /\ fileSizeCounter' > 0 => Created' /\ Written(fileSizeCounter)'
      BY <1>2, <2>2, <2>4 DEF Position, Written
    <2> QED
      BY <1>2, <2>1, <2>4, <2>5 DEF CounterSound
  <1>3. CASE UNCHANGED <<sendDataBuffer, fileSizeCounter>> /\ sendDataBuffer.req = NoRequest
    BY <1>3 DEF CounterSound
  <1> QED
    BY <1>1, <1>2, <1>3
-----------------------------------------------------------------------------
(* The network and the device.                                             *)

\* The last step of every case: the device goes on, or the network does.
LEMMA DeviceGrows ==
    ASSUME Typed, ConverterIdle,
           Items(downlink') \subseteq Items(downlink),
           \A fr \in Items(uplink') :
               \/ fr \in Items(uplink)
               \/ fr.cmd = "DEV_CREATE_BUFFER_CMD" => ~Settled,
           Settled => \A n \in Nat : Written(n) => Written(n)'
    PROVE  Grows
  <1>1. /\ UNCHANGED <<current, alive, sendDataBuffer, fileSizeCounter, lastLp>>
        /\ fileSizeCounter \in Int
    BY UnderWay DEF ConverterIdle, object, TypeOK
  <1>2. Settled => Settled'
    <2>1. Sendable' \subseteq Sendable
      BY <1>1, SetsAfter DEF Sendable
    <2> QED
      BY <2>1 DEF Settled
  <1>3. Created => Created'
    BY <1>2, SetsAfter DEF Created
  <1> QED
    BY <1>1, <1>2, <1>3 DEF Grows

\* What remains is sound, and so is what is new.
LEMMA DeviceKeeps ==
    ASSUME Typed, TypeOK', Sound, requestsLeft # Requests, ConverterIdle, Grows,
           Items(downlink') \subseteq Items(downlink), Ordered(downlink'),
           \A fr \in Items(uplink') :
               \/ fr \in Items(uplink)
               \/ /\ FrameSound(fr)'
                  /\ fr.cmd = "SEND_DATA_BLOCK_CMD" => Settled,
           Ordered(uplink'), BufferSound'
    PROVE  Sound'
  <1>1. UNCHANGED <<current, requestsLeft, alive, sendDataBuffer, fileSizeCounter, lastLp>>
    BY DEF ConverterIdle, object
  <1>2. /\ Once /\ CounterSound /\ PacketsSound /\ FramesSound /\ BlocksLater
        /\ current \in Requests
    BY DEF Sound, Once
  <1>3. Once'
    BY <1>1, <1>2 DEF Once
  <1>4. CounterSound'
    BY <1>1, <1>2, CounterKept
  <1>5. PacketsSound'
    <2>1. Sendable' \subseteq Sendable
      BY <1>1, SetsAfter DEF Sendable
    <2> QED
      BY <1>2, <2>1, PacketsKept
  <1>6. FramesSound'
    BY <1>2, FramesKept
  <1>7. BlocksLater'
    <2>1. CASE lastLp.cmd = "DEV_CREATE_BUFFER_CMD"
      <3>1. NoBlocks /\ ~Settled
        BY <1>2, <2>1 DEF BlocksLater, Settled, Sendable
      <3>2. \A item \in Items(downlink') \cup Items(uplink') :
               item.cmd # "SEND_DATA_BLOCK_CMD"
        BY <3>1 DEF NoBlocks
      <3> QED
        BY <3>2, SetsAfter DEF BlocksLater, NoBlocks
    <2>2. CASE lastLp.cmd # "DEV_CREATE_BUFFER_CMD"
      BY <1>1, <2>2 DEF BlocksLater
    <2> QED
      BY <2>1, <2>2
  <1> QED
    BY <1>3, <1>4, <1>5, <1>6, <1>7 DEF Sound

\* A path whose first item was taken, or from which nothing was taken.
LEMMA DownLess ==
    ASSUME Typed, PacketsSound, downlink # <<>>, downlink' = Tail(downlink)
    PROVE  /\ Items(downlink') \subseteq Items(downlink) /\ Ordered(downlink')
           /\ Head(downlink) \in Packs /\ PackSound(Head(downlink))
           /\ Head(downlink) \in Sendable
           /\ Head(downlink).cmd = "SEND_DATA_BLOCK_CMD" =>
                  \A pack \in Items(downlink) : pack.cmd # "DEV_CREATE_BUFFER_CMD"
  <1>1. /\ downlink \in Seq(Packs) /\ Len(downlink) <= MaxInFlight
        /\ Sendable \subseteq Packs /\ Ordered(downlink)
        /\ \A pack \in Sendable : PackSound(pack)
    BY UnderWay DEF PacketsSound
  <1>2. Items(Tail(downlink)) \subseteq Items(downlink) /\ Head(downlink) \in Items(downlink)
    BY <1>1, TailItems
  <1>3. /\ Ordered(Tail(downlink))
        /\ Head(downlink).cmd = "SEND_DATA_BLOCK_CMD" =>
               \A pack \in Items(downlink) : pack.cmd # "DEV_CREATE_BUFFER_CMD"
    BY <1>1, TailOrdered
  <1>4. Head(downlink) \in Sendable
    BY <1>2 DEF Sendable
  <1> QED
    BY <1>1, <1>2, <1>3, <1>4

\* The same for the path up.
LEMMA UpLess ==
    ASSUME Typed, FramesSound, uplink # <<>>, uplink' = Tail(uplink)
    PROVE  /\ Items(uplink') \subseteq Items(uplink) /\ Ordered(uplink')
           /\ Head(uplink) \in FrameType /\ FrameSound(Head(uplink))
           /\ Head(uplink) \in Items(uplink)
           /\ Head(uplink).cmd = "SEND_DATA_BLOCK_CMD" =>
                  \A fr \in Items(uplink) : fr.cmd # "DEV_CREATE_BUFFER_CMD"
  <1>1. /\ uplink \in Seq(FrameType) /\ Len(uplink) <= MaxInFlight
        /\ Items(uplink) \subseteq FrameType /\ Ordered(uplink)
        /\ \A fr \in Items(uplink) : FrameSound(fr)
    BY UnderWay DEF FramesSound
  <1>2. Items(Tail(uplink)) \subseteq Items(uplink) /\ Head(uplink) \in Items(uplink)
    BY <1>1, TailItems
  <1>3. /\ Ordered(Tail(uplink))
        /\ Head(uplink).cmd = "SEND_DATA_BLOCK_CMD" =>
               \A fr \in Items(uplink) : fr.cmd # "DEV_CREATE_BUFFER_CMD"
    BY <1>1, TailOrdered
  <1> QED
    BY <1>1, <1>2, <1>3

\* A frame that joins the path up.
LEMMA UpMore ==
    ASSUME Typed, Ordered(uplink), NEW fr \in FrameType, uplink' = Sent(uplink, fr),
           fr.cmd = "DEV_CREATE_BUFFER_CMD" =>
               \A other \in Items(uplink) : other.cmd # "SEND_DATA_BLOCK_CMD"
    PROVE  Items(uplink') \subseteq Items(uplink) \cup {fr} /\ Ordered(uplink')
  <1>1. uplink \in Seq(FrameType) /\ Len(uplink) <= MaxInFlight
    BY UnderWay
  <1>2. Items(Sent(uplink, fr)) \subseteq Items(uplink) \cup {fr}
    BY <1>1, SentItems
  <1>3. Ordered(Sent(uplink, fr))
    BY <1>1, SentOrdered
  <1> QED
    BY <1>2, <1>3

\* The device hands over a request: what was written, it keeps.
LEMMA HandedOver ==
    ASSUME delivered' = delivered \cup {current}, UNCHANGED current
    PROVE  \A n : Written(n)'
  BY DEF Written

\* Nothing written, nothing lost.
LEMMA SameWritten ==
    ASSUME delivered \subseteq delivered', UNCHANGED <<current, devBuffer>>
    PROVE  /\ \A n : Written(n) => Written(n)'
           /\ BufferSound => BufferSound'
  BY DEF Written, HoldsPrefix, BufferSound, Size

\* Losses.
LEMMA LoseSound ==
    ASSUME Typed, TypeOK', Sound, requestsLeft # Requests, Lose PROVE Sound'
  <1>1. /\ ConverterIdle /\ UNCHANGED <<current, devBuffer, delivered>>
        /\ PacketsSound /\ FramesSound /\ BufferSound
    BY DEF Lose, ConverterIdle, device, Sound
  <1>2. Settled => \A n \in Nat : Written(n) => Written(n)'
    BY <1>1, SameWritten
  <1>3. BufferSound'
    BY <1>1, SameWritten
  <1>4. /\ Items(downlink') \subseteq Items(downlink) /\ Ordered(downlink')
        /\ Items(uplink') \subseteq Items(uplink) /\ Ordered(uplink')
    <2>1. CASE downlink # <<>> /\ downlink' = Tail(downlink) /\ UNCHANGED uplink
      BY <1>1, <2>1, DownLess DEF FramesSound
    <2>2. CASE uplink # <<>> /\ uplink' = Tail(uplink) /\ UNCHANGED downlink
      BY <1>1, <2>2, UpLess DEF PacketsSound
    <2> QED
      BY <2>1, <2>2 DEF Lose
  <1>5. Grows
    BY <1>1, <1>2, <1>4, DeviceGrows
  <1> QED
    BY <1>1, <1>3, <1>4, <1>5, DeviceKeeps

\* A request in one packet writes nothing into the buffer.
LEMMA WritesPackageSound ==
    ASSUME Typed, TypeOK', Sound, requestsLeft # Requests, DeviceWritesPackage
    PROVE  Sound'
  <1>1. /\ downlink # <<>> /\ downlink' = Tail(downlink)
        /\ ConverterIdle /\ UNCHANGED <<current, uplink, devBuffer>>
        /\ delivered \subseteq delivered'
        /\ PacketsSound /\ FramesSound /\ BufferSound
    BY DEF DeviceWritesPackage, DeviceTakes, Deliver, ConverterIdle, Sound
  <1>2. (\A n : Written(n) => Written(n)') /\ BufferSound'
    BY <1>1, SameWritten
  <1>3. Items(downlink') \subseteq Items(downlink) /\ Ordered(downlink')
    BY <1>1, DownLess
  <1>4. Ordered(uplink')
    BY <1>1 DEF FramesSound
  <1>5. Grows
    BY <1>1, <1>2, <1>3, DeviceGrows
  <1> QED
    BY <1>1, <1>2, <1>3, <1>4, <1>5, DeviceKeeps

\* Neither does an acknowledgement.
LEMMA TakesAckSound ==
    ASSUME Typed, TypeOK', Sound, requestsLeft # Requests, DeviceTakesAck
    PROVE  Sound'
  <1>1. /\ downlink # <<>> /\ downlink' = Tail(downlink)
        /\ ConverterIdle /\ UNCHANGED <<current, uplink, devBuffer, delivered>>
        /\ PacketsSound /\ FramesSound /\ BufferSound
    BY DEF DeviceTakesAck, DeviceTakes, ConverterIdle, Sound
  <1>2. (\A n : Written(n) => Written(n)') /\ BufferSound'
    BY <1>1, SameWritten
  <1>3. Items(downlink') \subseteq Items(downlink) /\ Ordered(downlink')
    BY <1>1, DownLess
  <1>4. Ordered(uplink')
    BY <1>1 DEF FramesSound
  <1>5. Grows
    BY <1>1, <1>2, <1>3, DeviceGrows
  <1> QED
    BY <1>1, <1>2, <1>3, <1>4, <1>5, DeviceKeeps

\* The frames of a reply answer nothing.
LEMMA ReplyAnswersNothing ==
    ASSUME ReplyInRange, devReply # NoReply
    PROVE  ReplyFrame.cmd \notin {"DEV_CREATE_BUFFER_CMD", "SEND_DATA_BLOCK_CMD"}
  <1>1. devReply.phase \in {"small", "create", "data", "finish"}
    BY DEF ReplyInRange, ReplyTyped, Phases
  <1> DEFINE left == ReplySize - devReply.off
             len == IF left < ReplyBlock THEN left ELSE ReplyBlock
  <1>2. \/ ReplyFrame = Frame("RECEIVE_PACKAGE_CMD", 0, 0, 0, ReplyBytes(1))
        \/ ReplyFrame = Frame("DEV_CREATE_BUFFER", 0, 0, ReplySize, <<>>)
        \/ ReplyFrame = Frame("DEV_RECEIVE_DATA_BLOCK_CMD", 0, devReply.off, 0,
                              ReplyBytes(len))
        \/ ReplyFrame = Frame("DEV_FINISH_RECV_DATA_CMD", 0, 0, ReplySize,
                              ReplyBytes(ReplySize))
    <2>1. CASE devReply.phase = "small"
      BY <2>1 DEF ReplyFrame
    <2>2. CASE devReply.phase = "create"
      BY <2>2 DEF ReplyFrame
    <2>3. CASE devReply.phase = "data"
      BY <2>3 DEF ReplyFrame
    <2>4. CASE devReply.phase = "finish"
      BY <2>4 DEF ReplyFrame
    <2> QED
      BY <1>1, <2>1, <2>2, <2>3, <2>4
  <1> HIDE DEF len
  <1> QED
    BY <1>2 DEF Frame

\* A reply confirms nothing.
LEMMA RepliesSound ==
    ASSUME Typed, TypeOK', Sound, requestsLeft # Requests, DeviceReplies
    PROVE  Sound'
  <1>1. /\ devReply # NoReply /\ uplink' = Sent(uplink, ReplyFrame)
        /\ ConverterIdle /\ UNCHANGED <<current, downlink, devBuffer, delivered>>
        /\ PacketsSound /\ FramesSound /\ BufferSound
    BY DEF DeviceReplies, ConverterIdle, Sound
  <1>2. (\A n : Written(n) => Written(n)') /\ BufferSound'
    BY <1>1, SameWritten
  <1>3. Items(downlink') \subseteq Items(downlink) /\ Ordered(downlink')
    BY <1>1 DEF PacketsSound
  <1>4. PICK fr : fr = ReplyFrame
    OBVIOUS
  <1>5. fr \in FrameType /\ fr.cmd \notin {"DEV_CREATE_BUFFER_CMD", "SEND_DATA_BLOCK_CMD"}
    BY <1>1, <1>4, Parts, ReplyFrameTyped, ReplyAnswersNothing DEF DeviceTyped
  <1>6. Items(uplink') \subseteq Items(uplink) \cup {fr} /\ Ordered(uplink')
    BY <1>1, <1>4, <1>5, UpMore DEF FramesSound
  <1>7. Grows
    BY <1>1, <1>2, <1>3, <1>5, <1>6, DeviceGrows
  <1>8. FrameSound(fr)'
    BY <1>5 DEF FrameSound
  <1> QED
    BY <1>1, <1>2, <1>3, <1>5, <1>6, <1>7, <1>8, DeviceKeeps

\* A buffer is created while nothing is written that counts.
LEMMA CreatesBufferSound ==
    ASSUME Typed, TypeOK', Sound, requestsLeft # Requests, DeviceCreatesBuffer
    PROVE  Sound'
  <1> DEFINE pack == Head(downlink)
  <1>1. /\ downlink # <<>> /\ downlink' = Tail(downlink)
        /\ pack.cmd = "DEV_CREATE_BUFFER_CMD"
        /\ ConverterIdle /\ UNCHANGED current
        /\ \/ devBuffer' = [i \in 1 .. pack.len |-> Junk]
           \/ UNCHANGED devBuffer
        /\ \E rc \in {0, 1} :
              uplink' = Sent(uplink, Frame("DEV_CREATE_BUFFER_CMD", rc, 0, pack.len, <<>>))
        /\ PacketsSound /\ FramesSound /\ BufferSound /\ current \in Requests
    BY DEF DeviceCreatesBuffer, DeviceTakes, DeviceAnswers, ConverterIdle, Sound, Once
  <1>2. /\ Items(downlink') \subseteq Items(downlink) /\ Ordered(downlink')
        /\ pack \in Packs /\ PackSound(pack) /\ pack \in Sendable
    BY <1>1, DownLess
  <1>3. ~Settled /\ Sending(0) /\ pack.len = Size /\ pack.len \in Nat
    BY <1>1, <1>2 DEF PackSound, Settled, Packs
  <1>4. BufferSound'
    <2>1. CASE devBuffer' = [i \in 1 .. pack.len |-> Junk]
      <3>1. Len(devBuffer') = pack.len
        BY <1>3, <2>1
      <3> QED
        BY <1>1, <1>3, <3>1, SizeKept DEF BufferSound
    <2>2. CASE UNCHANGED devBuffer
      BY <1>1, <2>2, SizeKept DEF BufferSound
    <2> QED
      BY <1>1, <2>1, <2>2
  <1>5. PICK rc \in {0, 1} :
           \E fr :
             /\ fr = Frame("DEV_CREATE_BUFFER_CMD", rc, 0, pack.len, <<>>)
             /\ uplink' = Sent(uplink, fr)
    BY <1>1
  <1>6. PICK fr :
           /\ fr = Frame("DEV_CREATE_BUFFER_CMD", rc, 0, pack.len, <<>>)
           /\ uplink' = Sent(uplink, fr)
    BY <1>5
  <1>7. fr \in FrameType /\ fr.cmd = "DEV_CREATE_BUFFER_CMD"
    <2>1. <<>> \in Seq(Words)
      OBVIOUS
    <2> QED
      BY <1>3, <1>6, <2>1 DEF Frame, FrameType, FrameCommands
  <1>8. \A other \in Items(uplink) : other.cmd # "SEND_DATA_BLOCK_CMD"
    BY <1>1, <1>3 DEF FramesSound, FrameSound
  <1>9. Items(uplink') \subseteq Items(uplink) \cup {fr} /\ Ordered(uplink')
    BY <1>1, <1>6, <1>7, <1>8, UpMore DEF FramesSound
  <1>10. Grows
    BY <1>1, <1>2, <1>3, <1>7, <1>9, DeviceGrows
  <1>11. FrameSound(fr)'
    <2>1. Sending(0)'
      BY <1>3, <1>10, SendingKept, UnderWay
    <2> QED
      BY <1>7, <2>1 DEF FrameSound
  <1> QED
    BY <1>1, <1>2, <1>4, <1>7, <1>9, <1>10, <1>11, DeviceKeeps

\* A finished buffer was handed over.
LEMMA FinishesSound ==
    ASSUME Typed, TypeOK', Sound, requestsLeft # Requests, DeviceFinishes
    PROVE  Sound'
  <1> DEFINE pack == Head(downlink)
  <1>1. /\ downlink # <<>> /\ downlink' = Tail(downlink)
        /\ pack.cmd = "FINISH_SEND_DATA_CMD"
        /\ ConverterIdle /\ UNCHANGED current
        /\ \/ devBuffer' = <<>> /\ delivered' = delivered \cup {pack.req}
           \/ UNCHANGED <<devBuffer, delivered>>
        /\ \E rc \in {0, 3, 5} :
              uplink' = Sent(uplink, Frame("FINISH_SEND_DATA_CMD", rc, 0, 0, <<>>))
        /\ PacketsSound /\ FramesSound /\ BufferSound
    BY DEF DeviceFinishes, DeviceTakes, DeviceAnswers, Deliver, ConverterIdle, Sound
  <1>2. /\ Items(downlink') \subseteq Items(downlink) /\ Ordered(downlink')
        /\ PackSound(pack)
    BY <1>1, DownLess
  <1>3. (\A n : Written(n) => Written(n)') /\ BufferSound'
    <2>1. CASE devBuffer' = <<>> /\ delivered' = delivered \cup {pack.req}
      <3>1. pack.req = current
        BY <1>1, <1>2 DEF PackSound
      <3> QED
        BY <1>1, <2>1, <3>1, HandedOver DEF BufferSound
    <2>2. CASE UNCHANGED <<devBuffer, delivered>>
      BY <1>1, <2>2, SameWritten
    <2> QED
      BY <1>1, <2>1, <2>2
  <1>4. PICK rc \in {0, 3, 5} :
           \E fr :
             /\ fr = Frame("FINISH_SEND_DATA_CMD", rc, 0, 0, <<>>)
             /\ uplink' = Sent(uplink, fr)
    BY <1>1
  <1>5. PICK fr :
           /\ fr = Frame("FINISH_SEND_DATA_CMD", rc, 0, 0, <<>>)
           /\ uplink' = Sent(uplink, fr)
    BY <1>4
  <1>6. fr \in FrameType /\ fr.cmd = "FINISH_SEND_DATA_CMD"
    <2>1. <<>> \in Seq(Words)
      OBVIOUS
    <2> QED
      BY <1>5, <2>1 DEF Frame, FrameType, FrameCommands
  <1>7. Items(uplink') \subseteq Items(uplink) \cup {fr} /\ Ordered(uplink')
    BY <1>1, <1>5, <1>6, UpMore DEF FramesSound
  <1>8. Grows
    BY <1>1, <1>2, <1>3, <1>6, <1>7, DeviceGrows
  <1>9. FrameSound(fr)'
    BY <1>6 DEF FrameSound
  <1> QED
    BY <1>1, <1>2, <1>3, <1>6, <1>7, <1>8, <1>9, DeviceKeeps

\* A block keeps what was written before it and adds its own bytes.
LEMMA BlockWritten ==
    ASSUME NEW n \in Nat, NEW off \in Nat, NEW len \in Nat,
           devBuffer \in Seq(Requests \cup {Junk}), UNCHANGED <<current, delivered>>,
           devBuffer' = [i \in 1 .. Len(devBuffer) |->
                            IF off < i /\ i <= off + len THEN current ELSE devBuffer[i]]
    PROVE  /\ Written(n) => Written(n)'
           /\ off + len <= Len(devBuffer) /\ (off = 0 \/ Written(off)) =>
                  Written(off + len)'
           /\ Len(devBuffer') = Len(devBuffer)
  <1>1. Len(devBuffer) \in Nat /\ Len(devBuffer') = Len(devBuffer)
    OBVIOUS
  <1>2. \A i \in 1 .. Len(devBuffer) :
           devBuffer'[i] = IF off < i /\ i <= off + len THEN current ELSE devBuffer[i]
    OBVIOUS
  <1>3. CASE current \in delivered
    BY <1>1, <1>3 DEF Written
  <1>4. CASE current \notin delivered
    <2>1. \A m : Written(m) <=> HoldsPrefix(devBuffer, current, m)
      BY <1>4 DEF Written
    <2>2. \A m : Written(m)' <=> HoldsPrefix(devBuffer', current, m)
      BY <1>4 DEF Written, HoldsPrefix
    <2>3. ASSUME HoldsPrefix(devBuffer, current, n) PROVE HoldsPrefix(devBuffer', current, n)
      BY <1>1, <1>2, <2>3 DEF HoldsPrefix
    <2>4. ASSUME off + len <= Len(devBuffer),
                 off = 0 \/ HoldsPrefix(devBuffer, current, off)
          PROVE  HoldsPrefix(devBuffer', current, off + len)
      <3>1. ASSUME NEW i \in 1 .. off + len PROVE devBuffer'[i] = current
        <4>1. i \in 1 .. Len(devBuffer)
          BY <1>1, <2>4
        <4>2. CASE off < i
          BY <1>2, <4>1, <4>2
        <4>3. CASE i <= off
          BY <1>2, <2>4, <4>1, <4>3 DEF HoldsPrefix
        <4> QED
          BY <4>2, <4>3
      <3> QED
        BY <1>1, <2>4, <3>1 DEF HoldsPrefix
    <2> QED
      BY <1>1, <2>1, <2>2, <2>3, <2>4
  <1> QED
    BY <1>3, <1>4

\* A block that fits is written before it is confirmed.
LEMMA WritesBlockSound ==
    ASSUME Typed, TypeOK', Sound, requestsLeft # Requests, DeviceWritesBlock
    PROVE  Sound'
  <1> DEFINE pack == Head(downlink)
  <1>1. /\ downlink # <<>> /\ downlink' = Tail(downlink)
        /\ pack.cmd = "SEND_DATA_BLOCK_CMD"
        /\ ConverterIdle /\ UNCHANGED <<current, delivered>>
        /\ \E rc \in {0, 4, 5}, len \in {0, pack.len} :
              /\ uplink' = Sent(uplink, Frame("SEND_DATA_BLOCK_CMD", rc, pack.off, len, <<>>))
              /\ \/ len = 0 /\ UNCHANGED devBuffer
                 \/ /\ len = pack.len /\ pack.off + len <= Len(devBuffer)
                    /\ devBuffer' = [i \in 1 .. Len(devBuffer) |->
                                        IF pack.off < i /\ i <= pack.off + pack.len
                                        THEN pack.req ELSE devBuffer[i]]
        /\ PacketsSound /\ FramesSound /\ BufferSound /\ BlocksLater
        /\ current \in Requests
    BY DEF DeviceWritesBlock, DeviceTakes, DeviceAnswers, ConverterIdle, Sound, Once
  <1>2. /\ Items(downlink') \subseteq Items(downlink) /\ Ordered(downlink')
        /\ pack \in Packs /\ PackSound(pack)
        /\ \A other \in Items(downlink) : other.cmd # "DEV_CREATE_BUFFER_CMD"
        /\ pack \in Items(downlink)
    BY <1>1, DownLess, TailItems, UnderWay
  <1>3. /\ Sending(pack.off) /\ pack.req = current
        /\ Position(pack.off) /\ pack.len = Length(pack.off)
        /\ pack.off > 0 => Created /\ Written(pack.off)
        /\ pack.off \in Nat /\ pack.len \in Nat
    BY <1>1, <1>2 DEF PackSound, Packs
  <1>4. Settled
    BY <1>1, <1>2 DEF BlocksLater, NoBlocks, Settled, Sendable
  <1>5. PICK rc \in {0, 4, 5}, len \in {0, pack.len} :
           \E fr :
             /\ fr = Frame("SEND_DATA_BLOCK_CMD", rc, pack.off, len, <<>>)
             /\ uplink' = Sent(uplink, fr)
             /\ \/ len = 0 /\ UNCHANGED devBuffer
                \/ /\ len = pack.len /\ pack.off + len <= Len(devBuffer)
                   /\ devBuffer' = [i \in 1 .. Len(devBuffer) |->
                                       IF pack.off < i /\ i <= pack.off + pack.len
                                       THEN pack.req ELSE devBuffer[i]]
    BY <1>1
  <1>6. PICK fr :
           /\ fr = Frame("SEND_DATA_BLOCK_CMD", rc, pack.off, len, <<>>)
           /\ uplink' = Sent(uplink, fr)
           /\ \/ len = 0 /\ UNCHANGED devBuffer
              \/ /\ len = pack.len /\ pack.off + len <= Len(devBuffer)
                 /\ devBuffer' = [i \in 1 .. Len(devBuffer) |->
                                     IF pack.off < i /\ i <= pack.off + pack.len
                                     THEN pack.req ELSE devBuffer[i]]
    BY <1>5
  <1>7. PICK off \in Nat : off = pack.off
    BY <1>3
  <1>8. /\ fr \in FrameType /\ fr.cmd = "SEND_DATA_BLOCK_CMD"
        /\ fr.off = off /\ fr.len = len /\ len \in Nat
    <2>1. <<>> \in Seq(Words) /\ len \in Nat
      BY <1>3
    <2> QED
      BY <1>3, <1>6, <1>7, <2>1 DEF Frame, FrameType, FrameCommands
  <1>9. Items(uplink') \subseteq Items(uplink) \cup {fr} /\ Ordered(uplink')
    BY <1>1, <1>6, <1>8, UpMore DEF FramesSound
  <1> HIDE DEF pack
  <1>10. /\ \A n \in Nat : Written(n) => Written(n)'
         /\ len > 0 => Written(off + len)'
         /\ BufferSound'
    <2>1. CASE len = 0 /\ UNCHANGED devBuffer
      <3>1. (\A n : Written(n) => Written(n)') /\ BufferSound'
        BY <1>1, <2>1, SameWritten
      <3> QED
        BY <2>1, <3>1
    <2>2. CASE /\ len = pack.len /\ off + len <= Len(devBuffer)
               /\ devBuffer' = [i \in 1 .. Len(devBuffer) |->
                                   IF off < i /\ i <= off + len
                                   THEN current ELSE devBuffer[i]]
      <3>1. devBuffer \in Seq(Requests \cup {Junk})
        BY UnderWay
      <3>2. \A n \in Nat : Written(n) => Written(n)'
        BY <1>1, <1>8, <2>2, <3>1, BlockWritten
      <3>3. Written(off + len)' /\ Len(devBuffer') = Len(devBuffer)
        <4>1. off = 0 \/ Written(off)
          BY <1>3, <1>7 DEF Written
        <4> QED
          BY <1>1, <1>8, <2>2, <3>1, <4>1, BlockWritten
      <3>4. BufferSound'
        <4>1. Len(devBuffer) \in Nat /\ (devBuffer = <<>> => devBuffer' = <<>>)
          BY <2>2, <3>1
        <4> QED
          BY <1>1, <3>3, <4>1, SizeKept DEF BufferSound
      <3> QED
        BY <3>2, <3>3, <3>4
    <2> QED
      BY <1>3, <1>6, <1>7, <2>1, <2>2
  <1>11. Grows
    BY <1>1, <1>2, <1>8, <1>9, <1>10, DeviceGrows
  <1>12. FrameSound(fr)'
    <2>1. Sending(0) /\ Sending(off)
      <3>1. Sending(off) /\ off \in Nat
        BY <1>3, <1>7
      <3>2. fileSizeCounter \in Int
        BY UnderWay DEF TypeOK
      <3> QED
        BY <3>1, <3>2 DEF Sending
    <2>2. Sending(0)' /\ Sending(off)'
      BY <1>11, <2>1, SendingKept, UnderWay
    <2>3. Settled' /\ (off > 0 => Created')
      BY <1>3, <1>4, <1>7, <1>11 DEF Grows
    <2>4. Position(off)' /\ (len > 0 => len = Length(off)')
      <3>1. Position(off) /\ (len > 0 => len = Length(off))
        BY <1>3, <1>6, <1>7
      <3> QED
        BY <1>1, <3>1, SizeKept
    <2> QED
      BY <1>8, <1>10, <2>2, <2>3, <2>4 DEF FrameSound
  <1> QED
    BY <1>1, <1>2, <1>4, <1>8, <1>9, <1>10, <1>11, <1>12, DeviceKeeps
-----------------------------------------------------------------------------
(* The converter.                                                          *)

\* What a step of the converter in a session leaves alone.
ConverterMoves ==
    /\ Transmit
    /\ UNCHANGED <<requestsLeft, current, device>>
    /\ Items(uplink') \subseteq Items(uplink)
    /\ Ordered(uplink')

\* What can be sent after it could be sent before or is new.
LEMMA Emitted ==
    ASSUME Typed, TypeOK', Transmit
    PROVE  /\ Items(downlink') \subseteq Items(downlink) \cup {sendLoraPack'}
           /\ Sendable' \subseteq Sendable \cup {lastLp', sendLoraPack'}
  <1>1. sendLoraPack' \in Packs /\ downlink \in Seq(Packs) /\ Len(downlink) <= MaxInFlight
    BY UnderWay DEF TypeOK
  <1>2. downlink' = downlink \/ downlink' = Sent(downlink, sendLoraPack')
    BY DEF Transmit
  <1>3. Items(downlink') \subseteq Items(downlink) \cup {sendLoraPack'}
    BY <1>1, <1>2, SentItems
  <1> QED
    BY <1>3, SetsAfter DEF Sendable

\* A converter that repeats a create or none goes forward.
LEMMA ConverterGrows ==
    ASSUME Typed, TypeOK', ConverterMoves,
           alive' => /\ alive
                     /\ sendDataBuffer' = sendDataBuffer
                     /\ fileSizeCounter <= fileSizeCounter',
           \A pack \in {lastLp', sendLoraPack'} :
               pack = lastLp \/ pack.cmd # "DEV_CREATE_BUFFER_CMD"
    PROVE  Grows
  <1>1. UNCHANGED <<current, delivered, devBuffer>>
    BY DEF ConverterMoves, device
  <1>2. \A n \in Nat : Written(n) => Written(n)'
    BY <1>1, SameWritten
  <1>3. Settled => Settled'
    BY Emitted DEF ConverterMoves, Settled, Sendable
  <1>4. Created => Created'
    BY <1>3, SetsAfter DEF ConverterMoves, Created
  <1> QED
    BY <1>1, <1>2, <1>3, <1>4 DEF Grows

\* What it emits is sound and in order.
LEMMA ConverterKeeps ==
    ASSUME Typed, TypeOK', Sound, requestsLeft # Requests, ConverterMoves, Grows,
           CounterSound',
           \A pack \in {lastLp', sendLoraPack'} :
               \/ pack = lastLp
               \/ pack.cmd # "DEV_CREATE_BUFFER_CMD" /\ PackSound(pack)',
           sendLoraPack'.cmd = "SEND_DATA_BLOCK_CMD" =>
               lastLp'.cmd # "DEV_CREATE_BUFFER_CMD"
    PROVE  Sound'
  <1>1. /\ UNCHANGED <<requestsLeft, current, devBuffer, delivered>> /\ Transmit
        /\ Items(uplink') \subseteq Items(uplink) /\ Ordered(uplink')
    BY DEF ConverterMoves, device
  <1>2. /\ Once /\ PacketsSound /\ FramesSound /\ BlocksLater /\ BufferSound
        /\ current \in Requests
    BY DEF Sound, Once
  <1>3. Once'
    BY <1>1, <1>2 DEF Once
  <1>4. lastLp = lastLp' \/ lastLp'.cmd # "DEV_CREATE_BUFFER_CMD"
    OBVIOUS
  <1>5. PacketsSound'
    <2>1. \A pack \in Sendable' : pack \in Sendable \/ PackSound(pack)'
      BY <1>1, Emitted DEF Sendable
    <2>2. Ordered(downlink')
      <3>1. downlink' = downlink \/ downlink' = Sent(downlink, sendLoraPack')
        BY <1>1 DEF Transmit
      <3>2. sendLoraPack'.cmd = "DEV_CREATE_BUFFER_CMD" =>
               \A other \in Items(downlink) : other.cmd # "SEND_DATA_BLOCK_CMD"
        BY <1>2 DEF BlocksLater, NoBlocks
      <3>3. sendLoraPack' \in Packs /\ downlink \in Seq(Packs) /\ Ordered(downlink)
        BY <1>2, UnderWay DEF TypeOK, PacketsSound
      <3>4. Ordered(Sent(downlink, sendLoraPack'))
        BY <3>2, <3>3, SentOrdered
      <3> QED
        BY <3>1, <3>3, <3>4
    <2> QED
      BY <1>2, <2>1, <2>2, PacketsKept
  <1>6. FramesSound'
    BY <1>1, <1>2, FramesKept
  <1>7. BlocksLater'
    <2>1. CASE lastLp'.cmd = "DEV_CREATE_BUFFER_CMD"
      <3>1. NoBlocks /\ sendLoraPack'.cmd # "SEND_DATA_BLOCK_CMD"
        BY <1>2, <1>4, <2>1 DEF BlocksLater
      <3>2. \A item \in Items(downlink') \cup Items(uplink') :
               item.cmd # "SEND_DATA_BLOCK_CMD"
        BY <1>1, <3>1, Emitted DEF NoBlocks
      <3> QED
        BY <3>2, SetsAfter DEF BlocksLater, NoBlocks
    <2>2. CASE lastLp'.cmd # "DEV_CREATE_BUFFER_CMD"
      BY <2>2 DEF BlocksLater
    <2> QED
      BY <2>1, <2>2
  <1>8. BufferSound'
    BY <1>1, <1>2, SameWritten
  <1> QED
    BY <1>2, <1>3, <1>5, <1>6, <1>7, <1>8 DEF Sound

\* A packet of another kind claims nothing.
LEMMA OtherPackSound ==
    ASSUME NEW pack, pack.cmd \notin {"DEV_CREATE_BUFFER_CMD", "SEND_DATA_BLOCK_CMD",
                                      "FINISH_SEND_DATA_CMD"}
    PROVE  PackSound(pack)'
  BY DEF PackSound

\* The end of a session.
LEMMA EndSound ==
    ASSUME Typed, TypeOK', Sound, requestsLeft # Requests, ConverterMoves, IdleDisconnect,
           sendLoraPack' = NoPack \/ sendLoraPack'.cmd = "APP_FINISH_RECV_DATA_CMD"
    PROVE  Sound'
  <1>1. lastLp' = NoPack /\ ~alive' /\ sendDataBuffer' = NoBuffer
        /\ NoPack.cmd = "none"
    BY Zenon DEF IdleDisconnect, NoPack, Pack
  <1>2. Grows
    BY <1>1, ConverterGrows
  <1>3. CounterSound'
    BY <1>2, CounterKept, <1>1 DEF Sound, Once
  <1>4. \A pack \in {lastLp', sendLoraPack'} :
           pack.cmd # "DEV_CREATE_BUFFER_CMD" /\ PackSound(pack)'
    BY <1>1, OtherPackSound
  <1> QED
    BY <1>1, <1>2, <1>3, <1>4, ConverterKeeps

\* The last packet again, or none.
LEMMA SameSound ==
    ASSUME Typed, TypeOK', Sound, requestsLeft # Requests, ConverterMoves,
           UNCHANGED <<alive, sendDataBuffer, fileSizeCounter, lastLp>>,
           sendLoraPack' \in {NoPack, lastLp}
    PROVE  Sound'
  <1>1. NoPack.cmd = "none" /\ fileSizeCounter \in Int
    BY UnderWay DEF NoPack, Pack, TypeOK
  <1>2. Grows
    BY <1>1, ConverterGrows
  <1>3. CounterSound'
    BY <1>2, CounterKept DEF Sound, Once
  <1>4. \A pack \in {lastLp', sendLoraPack'} :
           \/ pack = lastLp
           \/ pack.cmd # "DEV_CREATE_BUFFER_CMD" /\ PackSound(pack)'
    BY <1>1, OtherPackSound
  <1> QED
    BY <1>1, <1>2, <1>3, <1>4, ConverterKeeps

\* A packet of the receiving half.
LEMMA OtherSound ==
    ASSUME Typed, TypeOK', Sound, requestsLeft # Requests, ConverterMoves,
           UNCHANGED <<alive, sendDataBuffer, fileSizeCounter>>,
           NEW pack, SendCommand(pack),
           pack.cmd \in {"APP_CREATE_BUFFER", "APP_RECEIVE_DATA_BLOCK_CMD"}
    PROVE  Sound'
  <1>1. lastLp' = pack /\ sendLoraPack' = pack /\ fileSizeCounter \in Int
    BY UnderWay DEF SendCommand, TypeOK
  <1>2. Grows
    BY <1>1, ConverterGrows
  <1>3. CounterSound'
    BY <1>2, CounterKept DEF Sound, Once
  <1>4. PackSound(pack)'
    BY OtherPackSound
  <1> QED
    BY <1>1, <1>2, <1>3, <1>4, ConverterKeeps

\* The packet at a position that was reached.
LEMMA AdvanceSound ==
    ASSUME Typed, TypeOK', Sound, requestsLeft # Requests, ConverterMoves,
           UNCHANGED <<alive, sendDataBuffer>>, sendDataBuffer.req # NoRequest,
           NEW pos, fileSizeCounter' = pos, Position(pos), fileSizeCounter <= pos,
           pos > 0 => Created /\ Written(pos),
           \/ SendCommand(DataBlock(pos))
           \/ pos = Size /\ SendCommand(CheckBuffer)
    PROVE  Sound'
  <1>1. /\ current \in Requests /\ TypeOK
        /\ sendDataBuffer = [req |-> current, size |-> Size] /\ Size < U16
        /\ CounterSound
    BY UnderWay DEF Sound, Once, CounterSound
  <1>2. pos \in Nat /\ Size \in Nat /\ Size > 0
    BY <1>1, PositionType, SizeIsNat
  <1>3. PICK pack : pack = lastLp'
    OBVIOUS
  <1>4. /\ sendLoraPack' = pack
        /\ \/ pack = Pack("SEND_DATA_BLOCK_CMD", current, pos, Length(pos))
           \/ pos = Size /\ pack = Pack("FINISH_SEND_DATA_CMD", current, 0, Size)
    <2>1. CASE SendCommand(DataBlock(pos))
      <3>1. DataBlock(pos) = Pack("SEND_DATA_BLOCK_CMD", current, pos, Length(pos))
        BY <1>1, BlockThere
      <3> QED
        BY <1>3, <2>1, <3>1 DEF SendCommand
    <2>2. CASE pos = Size /\ SendCommand(CheckBuffer)
      BY <1>1, <1>3, <2>2 DEF SendCommand, CheckBuffer
    <2> QED
      BY <2>1, <2>2
  <1>5. pack.cmd # "DEV_CREATE_BUFFER_CMD"
    BY <1>4 DEF Pack
  <1>6. Grows
    BY <1>3, <1>4, <1>5, ConverterGrows
  <1>7. /\ current' = current /\ Size' = Size
        /\ Position(pos)' /\ Length(pos)' = Length(pos)
        /\ pos > 0 => Created' /\ Written(pos)'
    BY <1>2, <1>6, SizeKept DEF Grows, Created
  <1>8. CounterSound'
    <2>1. Position(fileSizeCounter)' /\ (pos > 0 => Written(fileSizeCounter)')
      BY <1>7 DEF Position, Written
    <2> QED
      BY <1>1, <1>7, <2>1 DEF CounterSound
  <1>9. PackSound(pack)'
    <2>1. Sending(pos)'
      BY <1>2 DEF Sending
    <2>2. CASE pack = Pack("SEND_DATA_BLOCK_CMD", current, pos, Length(pos))
      <3>1. /\ pack.cmd = "SEND_DATA_BLOCK_CMD" /\ pack.req = current
            /\ pack.off = pos /\ pack.len = Length(pos)
        BY <2>2 DEF Pack
      <3> QED
        BY <1>7, <2>1, <3>1 DEF PackSound
    <2>3. CASE pos = Size /\ pack = Pack("FINISH_SEND_DATA_CMD", current, 0, Size)
      <3>1. /\ pack.cmd = "FINISH_SEND_DATA_CMD" /\ pack.req = current
            /\ pack.len = Size
        BY <2>3 DEF Pack
      <3>2. Created' /\ Written(Size)'
        BY <1>2, <1>7, <2>3 DEF Written
      <3> QED
        BY <1>7, <3>1, <3>2 DEF PackSound
    <2> QED
      BY <1>4, <2>2, <2>3
  <1> QED
    BY <1>3, <1>4, <1>5, <1>6, <1>8, <1>9, ConverterKeeps

\* Positions are a block apart.
LEMMA PositionsApart ==
    ASSUME current \in Requests, NEW a, NEW b, Position(a), Position(b), a < b, b # Size
    PROVE  a + BlockSize <= b
  <1>1. a \in Nat /\ b \in Nat /\ b < Size /\ a # Size /\ BlockSize \in Nat \ {0}
        /\ Size \in Nat
    BY PositionType, SizeIsNat, Parameters
  <1>2. PICK m \in Nat : a = m * BlockSize
    BY <1>1 DEF Position
  <1>3. PICK k \in Nat : b = k * BlockSize
    BY <1>1 DEF Position
  <1>4. m < k
    BY <1>1, <1>2, <1>3
  <1>5. (m + 1) * BlockSize <= k * BlockSize /\ (m + 1) * BlockSize = m * BlockSize + BlockSize
    BY <1>1, <1>4
  <1> QED
    BY <1>1, <1>2, <1>3, <1>5

\* An answer that confirms a block confirms the one the counter stands at.
LEMMA ConfirmsCurrent ==
    ASSUME Typed, Sound, requestsLeft # Requests, alive,
           NEW fr \in FrameType, FrameSound(fr), fr.cmd = "SEND_DATA_BLOCK_CMD",
           Confirms(fr.rc, fr.off, fr.len)
    PROVE  /\ Position(fileSizeCounter + fr.len)
           /\ fileSizeCounter <= fileSizeCounter + fr.len
           /\ fileSizeCounter + fr.len > 0 => Written(fileSizeCounter + fr.len)
  <1> DEFINE len == fr.len
             off == fr.off
  <1>1. /\ sendDataBuffer.req # NoRequest /\ current \in Requests
        /\ Size < U16 /\ Position(fileSizeCounter) /\ sendDataBuffer.size = Size
        /\ fileSizeCounter > 0 => Written(fileSizeCounter)
        /\ len > 0 => /\ off <= fileSizeCounter
                      /\ Position(off) /\ len = Length(off)
                      /\ Written(off + len)
    BY DEF Sound, Once, CounterSound, FrameSound, Sending
  <1>2. len \in Nat /\ off \in Nat /\ fileSizeCounter \in Nat /\ Size \in Nat
        /\ BlockSize \in Nat \ {0} /\ U16 \in Nat
    BY <1>1, PositionType, SizeIsNat, Parameters DEF FrameType
  <1>3. CASE len = 0
    <2>1. fileSizeCounter + len = fileSizeCounter
      BY <1>2, <1>3
    <2> QED
      BY <1>1, <1>2, <2>1
  <1>4. CASE len > 0
    <2>1. off + len <= Size /\ off + len < U16 /\ off + len \in Nat
      BY <1>1, <1>2, <1>4, PositionType
    <2>2. Reached(off, len) = off + len
      BY <2>1, NoWrap DEF Reached
    <2>3. fileSizeCounter # Size \/ off + len # Size
      BY <1>2, <1>4, <2>1, <2>2 DEF Confirms, Repeats
    <2>4. fileSizeCounter = off
      <3>1. CASE Reached(off, len) - fileSizeCounter = len
        BY <1>2, <2>2, <3>1
      <3>2. CASE Reached(off, len) = sendDataBuffer.size
        <4>1. off + len = Size /\ fileSizeCounter # Size
          BY <1>1, <2>2, <2>3, <3>2
        <4>2. CASE off < fileSizeCounter
          <5>1. off + BlockSize <= fileSizeCounter /\ fileSizeCounter < Size
            BY <1>1, <1>2, <1>4, <4>1, <4>2, PositionsApart, PositionType
          <5>2. len <= BlockSize
            BY <1>1, <1>2, <1>4 DEF Length
          <5> QED
            BY <1>2, <4>1, <5>1, <5>2
        <4> QED
          BY <1>1, <1>2, <1>4, <4>2
      <3> QED
        BY <3>1, <3>2 DEF Confirms
    <2>5. Position(off + len)
      BY <1>1, <1>4, NextPosition
    <2> QED
      BY <1>1, <1>2, <1>4, <2>4, <2>5
  <1> QED
    BY <1>2, <1>3, <1>4

\* The slots of the converter.
LEMMA SlotsSound ==
    ASSUME Typed, TypeOK', Sound, requestsLeft # Requests, ConverterMoves,
           uplink # <<>>, uplink' = Tail(uplink), Dispatch(Head(uplink))
    PROVE  Sound'
  <1>1. PICK fr : fr = Head(uplink)
    OBVIOUS
  <1>2. /\ fr \in FrameType /\ FrameSound(fr) /\ fr \in Items(uplink)
        /\ fr.cmd = "SEND_DATA_BLOCK_CMD" =>
               \A other \in Items(uplink) : other.cmd # "DEV_CREATE_BUFFER_CMD"
        /\ Dispatch(fr)
    BY <1>1, UpLess DEF Sound
  <1>3. /\ current \in Requests /\ TypeOK
        /\ sendDataBuffer.req # NoRequest =>
               /\ sendDataBuffer.size = Size /\ Position(fileSizeCounter)
               /\ fileSizeCounter > 0 => Created /\ Written(fileSizeCounter)
    BY UnderWay DEF Sound, Once, CounterSound
  <1>4. CASE fr.cmd = "DEV_CREATE_BUFFER_CMD" /\ CreateBufferAnswer(fr.rc)
    <2>1. sendDataBuffer.req # NoRequest /\ ~Created
      BY <1>2, <1>4 DEF CreateBufferAnswer, FrameSound, Sending, Created
    <2>2. fileSizeCounter = 0 /\ Position(0)
      BY <1>3, <2>1, PositionType, FirstPosition
    <2>3. CASE fileSizeCounter' = 0 /\ SendCommand(DataBlock(0))
      BY <1>3, <1>4, <2>1, <2>2, <2>3, AdvanceSound DEF CreateBufferAnswer
    <2>4. CASE sendLoraPack' = NoPack /\ UNCHANGED <<fileSizeCounter, lastLp>>
      BY <1>4, <2>4, SameSound DEF CreateBufferAnswer
    <2> QED
      BY <1>4, <2>3, <2>4 DEF CreateBufferAnswer
  <1>5. CASE /\ fr.cmd = "SEND_DATA_BLOCK_CMD"
             /\ SendDataBlockAnswer(fr.rc, fr.off, fr.len)
    <2>1. alive /\ UNCHANGED <<alive, sendDataBuffer>>
      BY <1>5 DEF SendDataBlockAnswer
    <2>2. sendDataBuffer.req # NoRequest /\ Created
      BY <1>2, <1>5, <2>1 DEF FrameSound, Sending, Created
    <2>3. ASSUME NEW pos, SendCommand(FollowUp(fr.rc, fr.len, pos))
          PROVE  \/ SendCommand(DataBlock(pos))
                 \/ pos = Size /\ SendCommand(CheckBuffer)
      BY <1>3, <2>2, <2>3 DEF FollowUp
    <2>4. CASE sendLoraPack' = NoPack /\ UNCHANGED <<fileSizeCounter, lastLp>>
      BY <2>1, <2>4, SameSound
    <2>5. CASE /\ Confirms(fr.rc, fr.off, fr.len)
               /\ fileSizeCounter' = fileSizeCounter + fr.len
               /\ SendCommand(FollowUp(fr.rc, fr.len, fileSizeCounter + fr.len))
      <3>1. PICK pos : pos = fileSizeCounter + fr.len
        OBVIOUS
      <3>2. /\ Position(pos) /\ fileSizeCounter <= pos
            /\ pos > 0 => Written(pos)
        BY <1>2, <1>5, <2>1, <2>5, <3>1, ConfirmsCurrent DEF Written
      <3>3. SendCommand(FollowUp(fr.rc, fr.len, pos))
        BY <2>5, <3>1
      <3> QED
        BY <2>1, <2>2, <2>3, <2>5, <3>1, <3>2, <3>3, AdvanceSound
    <2>6. CASE /\ SendCommand(FollowUp(fr.rc, fr.len, fileSizeCounter))
               /\ UNCHANGED fileSizeCounter
      <3>1. PICK pos : pos = fileSizeCounter
        OBVIOUS
      <3>2. /\ Position(pos) /\ fileSizeCounter <= pos
            /\ pos > 0 => Written(pos)
        BY <1>3, <2>2, <3>1, PositionType DEF Written
      <3>3. SendCommand(FollowUp(fr.rc, fr.len, pos))
        BY <2>6, <3>1
      <3> QED
        BY <2>1, <2>2, <2>3, <2>6, <3>1, <3>2, <3>3, AdvanceSound
    <2> QED
      BY <1>5, <2>4, <2>5, <2>6 DEF SendDataBlockAnswer
  <1>6. CASE FinishSendPackAnswer
    BY <1>6, SameSound DEF FinishSendPackAnswer
  <1>7. CASE ReceivePackage
    BY <1>7, EndSound DEF ReceivePackage
  <1>8. CASE CreateBufferCmd(fr.len)
    <2>1. PICK pack : pack = Pack("APP_CREATE_BUFFER", NoRequest, 0, fr.len)
      OBVIOUS
    <2>2. pack.cmd = "APP_CREATE_BUFFER"
      BY <2>1 DEF Pack
    <2> QED
      BY <1>8, <2>1, <2>2, OtherSound DEF CreateBufferCmd
  <1>9. CASE ReceivedDataBlock(fr.off, fr.data)
    <2>1. PICK pack : pack = Pack("APP_RECEIVE_DATA_BLOCK_CMD", NoRequest, fr.off,
                                  Len(fr.data))
      OBVIOUS
    <2>2. pack.cmd = "APP_RECEIVE_DATA_BLOCK_CMD"
      BY <2>1 DEF Pack
    <2> QED
      BY <1>9, <2>1, <2>2, OtherSound DEF ReceivedDataBlock
  <1>10. CASE FinishReceivedPackAnswer(fr.data)
    <2>1. IdleDisconnect /\ sendLoraPack'.cmd = "APP_FINISH_RECV_DATA_CMD"
      BY <1>10 DEF FinishReceivedPackAnswer, Pack
    <2> QED
      BY <2>1, EndSound
  <1> QED
    BY <1>2, <1>4, <1>5, <1>6, <1>7, <1>8, <1>9, <1>10 DEF Dispatch

\* Time.
LEMMA TimerSound ==
    ASSUME Typed, TypeOK', Sound, requestsLeft # Requests, ConverterMoves,
           Tick \/ AnswerTumeout \/ IdleTimeoutFires
    PROVE  Sound'
  <1>1. CASE Tick
    BY <1>1, SameSound DEF Tick
  <1>2. CASE AnswerTumeout
    <2>1. \/ /\ UNCHANGED <<alive, sendDataBuffer, fileSizeCounter, lastLp>>
             /\ sendLoraPack' = lastLp
          \/ IdleDisconnect /\ sendLoraPack' = NoPack
      BY <1>2, Zenon DEF AnswerTumeout
    <2> QED
      BY <2>1, SameSound, EndSound
  <1>3. CASE IdleTimeoutFires
    BY <1>3, EndSound DEF IdleTimeoutFires
  <1> QED
    BY <1>1, <1>2, <1>3
-----------------------------------------------------------------------------
(* The request, and all steps together.                                    *)

\* Nothing but the request happens before the request.
LEMMA OnlyRequest ==
    ASSUME Typed, Sound, requestsLeft = Requests, TransferNext
    PROVE  MakeRequest \/ DeviceReboots
  <1>1. /\ ~alive /\ downlink = <<>> /\ uplink = <<>> /\ devReply = NoReply
    BY DEF Sound, Once, Fresh
  <1>2. ~ClientLeaves /\ ~Timer
    BY <1>1 DEF ClientLeaves, ClientGone, Timer, Tick, AnswerTumeout, IdleTimeoutFires
  <1>3. ~ReceiveFrame /\ ~Lose
    BY <1>1 DEF ReceiveFrame, Lose
  <1>4. ~DeviceStep
    BY <1>1 DEF DeviceStep, DeviceTakes, DeviceWritesPackage, DeviceCreatesBuffer,
                DeviceWritesBlock, DeviceFinishes, DeviceReplies, DeviceTakesAck
  <1> QED
    BY <1>2, <1>3, <1>4 DEF TransferNext

\* There is one request.
LEMMA OneRequest ==
    ASSUME FirstSession, Sound, MakeRequest PROVE requestsLeft = Requests
  <1>1. SUFFICES ASSUME requestsLeft # Requests PROVE FALSE
    OBVIOUS
  <1>2. Requests \ requestsLeft = {current}
    BY <1>1 DEF Sound, Once
  <1>3. Cardinality({current}) = 1
    BY FS_Singleton
  <1>4. Cardinality(Requests \ requestsLeft) < 1
    BY DEF MakeRequest, FirstSession
  <1> QED
    BY <1>2, <1>3, <1>4

\* It starts with nothing under way but its first packet.
LEMMA RequestSound ==
    ASSUME FirstSession, Typed, TypeOK', Sound, MakeRequest
    PROVE  Sound'
  <1>1. requestsLeft = Requests
    BY OneRequest
  <1>2. /\ ~alive /\ lastLp = NoPack /\ sendDataBuffer = NoBuffer
        /\ downlink = <<>> /\ uplink = <<>> /\ devBuffer = <<>>
    BY <1>1 DEF Sound, Once, Fresh
  <1>3. PICK r \in Requests :
           /\ AcceptedRequest(r) \/ RefusedRequest(r)
           /\ requestsLeft' = Requests \ {r}
           /\ current' = r
           /\ Transmit
           /\ UNCHANGED <<uplink, device>>
    BY <1>1 DEF MakeRequest
  <1>4. UNCHANGED <<uplink, devBuffer, delivered>>
    BY <1>3 DEF device
  <1>5. Once'
    <2>1. Requests \ requestsLeft' = {r} /\ requestsLeft' # Requests
      BY <1>3
    <2> QED
      BY <1>3, <2>1 DEF Once
  <1>6. BufferSound'
    BY <1>2, <1>4 DEF BufferSound
  <1>7. /\ Items(uplink') = {} /\ Items(downlink) = {}
        /\ DOMAIN uplink' = {}
    BY <1>2, <1>4 DEF Items
  <1>8. FramesSound'
    <2>1. Ordered(uplink')
      BY <1>7 DEF Ordered
    <2> QED
      BY <1>7, <2>1, SetsAfter DEF FramesSound
  <1>9. /\ Sendable' \subseteq {lastLp, lastLp', sendLoraPack'}
        /\ Items(downlink') \subseteq {sendLoraPack'}
    BY <1>3, <1>7, Emitted DEF Sendable
  <1>10. Ordered(downlink')
    <2>1. downlink \in Seq(Packs) /\ Ordered(downlink) /\ sendLoraPack' \in Packs
      BY <1>2, UnderWay DEF Sound, PacketsSound, TypeOK
    <2>2. Ordered(Sent(downlink, sendLoraPack'))
      BY <1>7, <2>1, SentOrdered
    <2> QED
      BY <1>3, <2>1, <2>2 DEF Transmit
  <1>11. current' \in Requests /\ Size' = DataSize[r] + HeaderSize
    BY <1>3 DEF Size
  <1>12. NoPack.cmd = "none"
    BY DEF NoPack, Pack
  <1>13. CASE RefusedRequest(r)
    <2>1. lastLp' = lastLp /\ sendLoraPack' = NoPack /\ sendDataBuffer' = NoBuffer
      BY <1>2, <1>13 DEF RefusedRequest
    <2>2. CounterSound'
      BY <2>1 DEF CounterSound, NoBuffer
    <2>3. \A pack \in Sendable' : PackSound(pack)'
      BY <1>2, <1>9, <1>12, <2>1, OtherPackSound
    <2>4. PacketsSound' /\ BlocksLater'
      BY <1>2, <1>10, <1>12, <2>1, <2>3, SetsAfter DEF PacketsSound, BlocksLater
    <2> QED
      BY <1>5, <1>6, <1>8, <2>2, <2>4 DEF Sound
  <1>14. CASE AcceptedRequest(r) /\ DataSize[r] <= BlockSize
    <2>1. PICK pack :
             pack = Pack("SEND_PACKAGE_ANSWER_CMD", r, 0, DataSize[r] + HeaderSize)
      OBVIOUS
    <2>2. /\ lastLp' = pack /\ sendLoraPack' = pack /\ sendDataBuffer' = NoBuffer
          /\ pack.cmd = "SEND_PACKAGE_ANSWER_CMD"
      BY <1>14, <2>1 DEF AcceptedRequest, SendCommand, Pack
    <2>3. CounterSound'
      BY <2>2 DEF CounterSound, NoBuffer
    <2>4. \A other \in Sendable' : PackSound(other)'
      BY <1>2, <1>9, <1>12, <2>2, OtherPackSound
    <2>5. PacketsSound' /\ BlocksLater'
      BY <1>10, <2>2, <2>4, SetsAfter DEF PacketsSound, BlocksLater
    <2> QED
      BY <1>5, <1>6, <1>8, <2>3, <2>5 DEF Sound
  <1>15. CASE AcceptedRequest(r) /\ ~(DataSize[r] <= BlockSize)
    <2>1. PICK pack :
             pack = Pack("DEV_CREATE_BUFFER_CMD", r, 0, DataSize[r] + HeaderSize)
      OBVIOUS
    <2>2. /\ lastLp' = pack /\ sendLoraPack' = pack
          /\ pack.cmd = "DEV_CREATE_BUFFER_CMD" /\ pack.req = r
          /\ pack.len = DataSize[r] + HeaderSize
          /\ sendDataBuffer' = [req |-> r, size |-> DataSize[r] + HeaderSize]
          /\ fileSizeCounter' = 0
      BY <1>15, <2>1 DEF AcceptedRequest, SendCommand, Pack
    <2>3. Size' < U16
      <3>1. Refusal(DataSize[r]) = "none"
        BY <1>15 DEF AcceptedRequest
      <3>2. DataSize[r] \in Nat /\ MaxData \in Nat /\ U16 \in Nat
        BY Parameters, ConstantsAssumption
      <3>3. DataSize[r] <= MaxData
        BY <3>1, <3>2 DEF Refusal
      <3> QED
        BY <1>11, <3>2, <3>3 DEF FirstSession, HeaderSize
    <2>4. Position(fileSizeCounter)'
      <3>1. Size' \in Nat
        BY <1>11, ConstantsAssumption DEF HeaderSize
      <3>2. 0 = 0 * BlockSize /\ 0 \in 0 .. 0 /\ 0 \in 0 .. Size'
        BY <3>1, Parameters
      <3> QED
        BY <2>2, <3>2 DEF Position
    <2>5. CounterSound'
      BY <1>3, <1>11, <2>2, <2>3, <2>4 DEF CounterSound
    <2>6. PackSound(pack)'
      <3>1. Sending(0)'
        <4>1. r # NoRequest
          BY ConstantsAssumption
        <4> QED
          BY <2>2, <4>1 DEF Sending
      <3> QED
        BY <1>3, <1>11, <2>2, <3>1 DEF PackSound
    <2>7. \A other \in Sendable' : PackSound(other)'
      BY <1>2, <1>9, <1>12, <2>2, <2>6, OtherPackSound
    <2>8. PacketsSound'
      BY <1>10, <2>7, SetsAfter DEF PacketsSound
    <2>9. BlocksLater'
      <3>1. \A item \in Items(downlink') \cup Items(uplink') :
               item.cmd # "SEND_DATA_BLOCK_CMD"
        BY <1>7, <1>9, <2>2
      <3> QED
        BY <3>1, SetsAfter DEF BlocksLater, NoBlocks
    <2> QED
      BY <1>5, <1>6, <1>8, <2>5, <2>8, <2>9 DEF Sound
  <1> QED
    BY <1>3, <1>13, <1>14, <1>15

\* Every step until the device restarts.
LEMMA SoundStep ==
    ASSUME FirstSession, Typed, TypeOK', Sound, TransferNext, ~DeviceReboots
    PROVE  Sound'
  <1>1. CASE MakeRequest
    BY <1>1, RequestSound
  <1>2. CASE ~MakeRequest
    <2>1. requestsLeft # Requests
      BY <1>2, OnlyRequest
    <2>2. CASE ClientLeaves \/ Timer
      <3>1. ConverterMoves
        <4>1. UNCHANGED <<requestsLeft, current, uplink, device>> /\ Transmit
          BY <2>2 DEF ClientLeaves, Timer
        <4>2. Ordered(uplink)
          BY DEF Sound, FramesSound
        <4> QED
          BY <4>1, <4>2 DEF ConverterMoves
      <3>2. CASE ClientLeaves
        BY <2>1, <3>1, <3>2, EndSound DEF ClientLeaves, ClientGone
      <3>3. CASE Timer
        BY <2>1, <3>1, <3>3, TimerSound DEF Timer
      <3> QED
        BY <2>2, <3>2, <3>3
    <2>3. CASE ReceiveFrame
      <3>1. /\ uplink # <<>> /\ uplink' = Tail(uplink) /\ Transmit
            /\ UNCHANGED <<requestsLeft, current, device>>
        BY <2>3 DEF ReceiveFrame
      <3>2. ConverterMoves
        BY <3>1, UpLess DEF Sound, ConverterMoves
      <3>3. CASE Dispatch(Head(uplink))
        BY <2>1, <3>1, <3>2, <3>3, SlotsSound
      <3>4. CASE sendLoraPack' = NoPack /\ UNCHANGED object
        BY <2>1, <3>2, <3>4, SameSound DEF object
      <3> QED
        BY <2>3, <3>3, <3>4 DEF ReceiveFrame
    <2>4. CASE Lose
      BY <2>1, <2>4, LoseSound
    <2>5. CASE DeviceStep
      BY <2>1, <2>5, WritesPackageSound, CreatesBufferSound, WritesBlockSound,
         FinishesSound, RepliesSound, TakesAckSound DEF DeviceStep
    <2> QED
      BY <1>2, <2>2, <2>3, <2>4, <2>5 DEF TransferNext
  <1> QED
    BY <1>1, <1>2

\* Only a restart counts restarts.
LEMMA RebootsCounted ==
    ASSUME Typed, TransferNext, reboots' = 0 PROVE reboots = 0 /\ ~DeviceReboots
  <1>1. reboots \in Nat
    BY Bounds DEF Typed, TransferTypeOK
  <1>2. ~DeviceReboots
    BY <1>1 DEF DeviceReboots
  <1>3. UNCHANGED reboots
    BY <1>2 DEF TransferNext, MakeRequest, ClientLeaves, ReceiveFrame, Timer, Lose,
                DeviceStep, DeviceWritesPackage, DeviceCreatesBuffer, DeviceWritesBlock,
                DeviceFinishes, DeviceReplies, DeviceTakesAck, DeviceTakes, device
  <1> QED
    BY <1>2, <1>3

\* A step in which nothing happens.
LEMMA SoundStutters ==
    ASSUME Sound, UNCHANGED allVars PROVE Sound'
  <1> USE DEF allVars, vars, object, device
  <1>1. /\ Sendable' = Sendable /\ Items(downlink)' = Items(downlink)
        /\ Items(uplink)' = Items(uplink) /\ Size' = Size
        /\ Ordered(downlink)' = Ordered(downlink) /\ Ordered(uplink)' = Ordered(uplink)
    BY DEF Sendable, Items, Size, Ordered
  <1>2. /\ Settled' = Settled /\ Created' = Created
        /\ \A n : Written(n)' = Written(n) /\ Sending(n)' = Sending(n)
                  /\ Position(n)' = Position(n) /\ Length(n)' = Length(n)
    BY <1>1 DEF Settled, Created, Written, HoldsPrefix, Sending, Position, Length
  <1>3. Once' /\ BlocksLater' /\ BufferSound'
    BY <1>1 DEF Sound, Once, Fresh, BlocksLater, NoBlocks, BufferSound
  <1>4. CounterSound'
    BY <1>1, <1>2 DEF Sound, CounterSound, Position, Written, HoldsPrefix
  <1>5. PacketsSound'
    <2>1. ASSUME NEW pack, PackSound(pack) PROVE PackSound(pack)'
      BY <1>1, <1>2, <2>1 DEF PackSound, Written, HoldsPrefix
    <2> QED
      BY <1>1, <2>1 DEF Sound, PacketsSound
  <1>6. FramesSound'
    <2>1. ASSUME NEW fr, FrameSound(fr) PROVE FrameSound(fr)'
      BY <1>1, <1>2, <2>1 DEF FrameSound
    <2> QED
      BY <1>1, <2>1 DEF Sound, FramesSound
  <1> QED
    BY <1>3, <1>4, <1>5, <1>6 DEF Sound
-----------------------------------------------------------------------------
(* The theorems.                                                           *)

\* Types and strengthening are inductive together.
LEMMA DeliveryStep ==
    ASSUME FirstSession, Typed, Delivery, [TransferNext]_allVars
    PROVE  Typed' /\ Delivery'
  <1>1. Typed' /\ TypeOK'
    BY TypedStep DEF Typed, TransferTypeOK
  <1>2. CASE TransferNext /\ reboots' = 0
    BY <1>1, <1>2, RebootsCounted, SoundStep DEF Delivery
  <1>3. CASE UNCHANGED allVars
    BY <1>1, <1>3, SoundStutters DEF Delivery, allVars, device
  <1>4. CASE reboots' # 0
    BY <1>1, <1>4 DEF Delivery
  <1> QED
    BY <1>1, <1>2, <1>3, <1>4

\* The program starts with nothing to confirm.
LEMMA DeliveryInit == ASSUME TransferInit PROVE Typed /\ Delivery
  <1>1. /\ requestsLeft = Requests /\ downlink = <<>> /\ uplink = <<>>
        /\ devBuffer = <<>> /\ devReply = NoReply
        /\ ~alive /\ lastLp = NoPack /\ sendDataBuffer = NoBuffer
    BY DEF TransferInit, Init
  <1>2. Once /\ CounterSound /\ BufferSound
    BY <1>1 DEF Once, Fresh, CounterSound, NoBuffer, BufferSound
  <1>3. Items(downlink) = {} /\ Items(uplink) = {} /\ Ordered(downlink) /\ Ordered(uplink)
    BY <1>1 DEF Items, Ordered
  <1>4. PacketsSound /\ FramesSound /\ BlocksLater
    BY <1>1, <1>3 DEF PacketsSound, FramesSound, BlocksLater, NoBlocks, Sendable,
                      PackSound, NoPack, Pack
  <1> QED
    BY <1>2, <1>4, TypedInit DEF Delivery, Sound

\* What the counter confirms is written.
LEMMA SoundIsWritten ==
    ASSUME Typed, Delivery PROVE ConfirmedIsWritten
  <1>1. SUFFICES ASSUME reboots = 0, sendDataBuffer.req # NoRequest
                 PROVE  \/ sendDataBuffer.req \in delivered
                        \/ HoldsPrefix(devBuffer, sendDataBuffer.req, fileSizeCounter)
    BY DEF ConfirmedIsWritten
  <1>2. /\ requestsLeft # Requests /\ current \in Requests
        /\ sendDataBuffer.req = current /\ Position(fileSizeCounter)
        /\ fileSizeCounter > 0 => Written(fileSizeCounter)
    BY <1>1 DEF Delivery, Sound, Once, Fresh, NoBuffer, CounterSound
  <1>3. CASE fileSizeCounter > 0
    BY <1>2, <1>3 DEF Written
  <1>4. CASE fileSizeCounter = 0
    <2>1. Len(devBuffer) \in Nat
      BY UnderWay
    <2> QED
      BY <1>4, <2>1 DEF HoldsPrefix
  <1> QED
    BY <1>2, <1>3, <1>4, PositionType

\* A converter that asks for the check emits the packet it remembers.
LEMMA CheckIsLast ==
    ASSUME Typed, TransferNext, sendLoraPack'.cmd = "FINISH_SEND_DATA_CMD"
    PROVE  /\ sendLoraPack' = lastLp' /\ UNCHANGED <<current, device>>
  <1>0. NoPack.cmd = "none"
    BY DEF NoPack, Pack
  <1>1. CASE MakeRequest
    <2>1. PICK r \in Requests : AcceptedRequest(r) \/ RefusedRequest(r)
      BY <1>1 DEF MakeRequest, Typed, TransferTypeOK
    <2>2. CASE AcceptedRequest(r)
      BY <2>2 DEF AcceptedRequest, SendCommand, Pack
    <2>3. CASE RefusedRequest(r)
      BY <1>0, <2>3 DEF RefusedRequest
    <2> QED
      BY <2>1, <2>2, <2>3
  <1>2. CASE ClientLeaves
    BY <1>0, <1>2 DEF ClientLeaves, ClientGone
  <1>3. CASE ReceiveFrame
    <2>1. CASE Dispatch(Head(uplink))
      <3>1. UNCHANGED <<current, device>>
        BY <1>3 DEF ReceiveFrame
      <3>2. sendLoraPack' = lastLp'
        BY <1>0, <2>1 DEF Dispatch, CreateBufferAnswer, SendDataBlockAnswer,
             FinishSendPackAnswer, ReceivePackage, CreateBufferCmd, ReceivedDataBlock,
             FinishReceivedPackAnswer, SendCommand, Pack
      <3> QED
        BY <3>1, <3>2
    <2>2. CASE sendLoraPack' = NoPack
      BY <1>0, <2>2
    <2> QED
      BY <1>3, <2>1, <2>2 DEF ReceiveFrame
  <1>4. CASE Timer
    <2>1. CASE AnswerTumeout
      <3>1. \/ sendLoraPack' = lastLp /\ UNCHANGED lastLp
            \/ sendLoraPack' = NoPack
        BY <2>1, Zenon DEF AnswerTumeout
      <3> QED
        BY <1>0, <1>4, <3>1 DEF Timer
    <2>2. CASE Tick \/ IdleTimeoutFires
      BY <1>0, <2>2 DEF Tick, IdleTimeoutFires
    <2> QED
      BY <1>4, <2>1, <2>2 DEF Timer
  <1>5. CASE Lose \/ DeviceStep \/ DeviceReboots
    BY <1>0, <1>5 DEF Lose, DeviceStep, DeviceReboots, DeviceTakes, DeviceWritesPackage,
         DeviceCreatesBuffer, DeviceWritesBlock, DeviceFinishes, DeviceReplies,
         DeviceTakesAck, ConverterIdle
  <1> QED
    BY <1>1, <1>2, <1>3, <1>4, <1>5 DEF TransferNext

\* The check is asked for when all is written.
LEMMA CheckAfterAll ==
    ASSUME FirstSession, Typed, Delivery, TransferNext, reboots = 0,
           sendLoraPack'.cmd = "FINISH_SEND_DATA_CMD"
    PROVE  \/ sendLoraPack'.req \in delivered
           \/ Complete(devBuffer, sendLoraPack'.req, sendLoraPack'.len)
  <1>1. sendLoraPack' = lastLp' /\ UNCHANGED <<current, delivered, devBuffer, reboots>>
    BY CheckIsLast DEF device
  <1>2. Sound'
    BY <1>1, DeliveryStep DEF Delivery
  <1>3. PICK pack : pack = lastLp'
    OBVIOUS
  <1>4. PackSound(pack)'
    BY <1>2, <1>3, SetsAfter DEF Sound, PacketsSound
  <1>5. pack.req = current /\ pack.len = Size /\ Written(Size)'
    BY <1>1, <1>3, <1>4, SizeKept DEF PackSound
  <1>6. Written(Size)
    BY <1>1, <1>5, SizeKept DEF Written, HoldsPrefix
  <1>7. current \in Requests
    BY <1>1, <1>2, <1>3, <1>5 DEF Sound, Once, Fresh, NoPack, Pack
  <1>8. CASE HoldsPrefix(devBuffer, current, Size)
    <2>1. /\ devBuffer \in Seq(Requests \cup {Junk}) /\ Size \in Nat /\ Size > 0
          /\ BufferSound
      BY <1>7, UnderWay, SizeIsNat DEF Delivery, Sound
    <2>2. Len(devBuffer) = Size
      BY <1>8, <2>1 DEF BufferSound, HoldsPrefix
    <2>3. devBuffer = [i \in 1 .. Size |-> current]
      BY <1>8, <2>1, <2>2 DEF HoldsPrefix
    <2> QED
      BY <1>1, <1>3, <1>5, <2>3 DEF Complete
  <1> QED
    BY <1>1, <1>3, <1>5, <1>6, <1>8 DEF Written

\* In its first session the converter's counter never runs ahead of the device:
\* every byte fileSizeCounter counts is in the device's buffer or was handed
\* over, for every size of request and block and any number of losses and
\* repetitions, as long as the device is not restarted.
THEOREM FirstSessionConfirms ==
    ASSUME FirstSession
    PROVE  TransferSpec => []ConfirmedIsWritten
  <1>1. TransferInit => Typed /\ Delivery
    BY DeliveryInit
  <1>2. Typed /\ Delivery /\ [TransferNext]_allVars => Typed' /\ Delivery'
    BY DeliveryStep
  <1>3. Typed /\ Delivery => ConfirmedIsWritten
    BY SoundIsWritten
  <1> QED
    BY <1>1, <1>2, <1>3, PTL DEF TransferSpec

\* Nor is the device ever asked in that session to check a buffer with a gap in
\* it: getCheckBuffer goes out when every byte of the request is written.  A
\* second session can break this, as the run with two requests shows.
THEOREM FirstSessionChecks ==
    ASSUME FirstSession
    PROVE  TransferSpec => FinishAfterAllData
  <1>1. TransferInit => Typed /\ Delivery
    BY DeliveryInit
  <1>2. Typed /\ Delivery /\ [TransferNext]_allVars => Typed' /\ Delivery'
    BY DeliveryStep
  <1>3. Typed /\ Delivery /\ [TransferNext]_allVars =>
            [reboots = 0 /\ sendLoraPack'.cmd = "FINISH_SEND_DATA_CMD" =>
                LET r == sendLoraPack'.req
                IN  r \in delivered \/ Complete(devBuffer, r, sendLoraPack'.len)]_allVars
    BY CheckAfterAll
  <1> QED
    BY <1>1, <1>2, <1>3, PTL DEF TransferSpec, FinishAfterAllData

=============================================================================
