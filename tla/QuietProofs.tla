----------------------------- MODULE QuietProofs -----------------------------
(***************************************************************************)
(* How long the idle period would have to be.  When it is long enough for  *)
(* every late answer that can come, no session of an accepted request is   *)
(* closed while a packet awaits its answer: for every size of request and  *)
(* block, every number of repetitions, whatever the network loses and      *)
(* however often the device restarts.  The default settings of converter.h *)
(* (three attempts, an idle period of six answer periods) fall short of    *)
(* that; what they do guarantee is SilenceReported of ConverterProofs.     *)
(***************************************************************************)
EXTENDS ReplyProofs

-----------------------------------------------------------------------------
(* The strengthening: where everything under way belongs.                  *)

\* The packets of the sending half, and the answers to them, in stages.
Staged == {"DEV_CREATE_BUFFER_CMD", "SEND_DATA_BLOCK_CMD", "FINISH_SEND_DATA_CMD"}

Stage(item) == IF item.cmd = "DEV_CREATE_BUFFER_CMD" THEN 0
               ELSE IF item.cmd = "SEND_DATA_BLOCK_CMD" THEN item.off + 1
               ELSE Size + 2

NotBehind(item, other) ==
    item.cmd \in Staged /\ other.cmd \in Staged => Stage(item) <= Stage(other)

\* A block, and one of no bytes: the answer of a device that has lost its buffer.
Block(item) == item.cmd = "SEND_DATA_BLOCK_CMD"

Void(item) == Block(item) /\ item.len = 0

\* Stages never fall along a path, and after a lost buffer all blocks fail.
InOrder(path) ==
    \A i, j \in DOMAIN path : i < j =>
        /\ NotBehind(path[i], path[j])
        /\ Void(path[i]) /\ Block(path[j]) => Void(path[j])

\* An item of the sending half belongs to where the converter stands, or to
\* the block before.
Placed(item) ==
    /\ item.cmd \in Staged => sendDataBuffer.req # NoRequest
    /\ item.cmd = "DEV_CREATE_BUFFER_CMD" => fileSizeCounter = 0
    /\ Block(item) =>
           /\ Position(item.off) /\ item.off < Size /\ Size <= DeviceCapacity
           /\ item.len \in {0, Length(item.off)}
           /\ fileSizeCounter \in {item.off, item.off + Length(item.off)}
    /\ item.cmd = "FINISH_SEND_DATA_CMD" => fileSizeCounter = Size

PackPlaced(pack) ==
    /\ Placed(pack) /\ ~Void(pack)
    /\ pack.cmd = "DEV_CREATE_BUFFER_CMD" => pack.len = Size

FramePlaced(fr) ==
    /\ Placed(fr)
    /\ Void(fr) => devBuffer = <<>>
    /\ Block(fr) => (fr.rc = 0 <=> fr.len > 0)
    /\ fr.cmd = "DEV_CREATE_BUFFER_CMD" => (fr.rc = 0 <=> Size <= DeviceCapacity)

CounterPlaced ==
    /\ sendDataBuffer.req # NoRequest =>
           /\ sendDataBuffer = [req |-> current, size |-> Size]
           /\ Size < U16 /\ Position(fileSizeCounter)
    /\ Block(lastLp) => lastLp.off = fileSizeCounter

\* The answers come before the packets, and these before the one that may be
\* sent again.
Along(up, down, last) ==
    /\ InOrder(up) /\ InOrder(down)
    /\ \A fr \in Items(up), pack \in Items(down) : NotBehind(fr, pack)
    /\ \A item \in Items(up) \cup Items(down) : NotBehind(item, last)

Road ==
    /\ CounterPlaced
    /\ \A pack \in Sendable : PackPlaced(pack)
    /\ \A fr \in Items(uplink) : FramePlaced(fr)
    /\ Along(uplink, downlink, lastLp)
    /\ BufferSound

-----------------------------------------------------------------------------
(* The strengthening: how many of them there are.                          *)

\* How many items of a path are in a set.
Count(path, S) == Cardinality({i \in DOMAIN path : path[i] \in S})

\* The blocks at an offset, and the answers that confirm one; and those before.
BlocksAt(P) ==
    {item \in Packs \cup FrameType : Block(item) /\ item.len > 0 /\ item.off \in P}

CreateItems == {item \in Packs \cup FrameType : item.cmd = "DEV_CREATE_BUFFER_CMD"}

\* The device has a buffer for the blocks on their way, or will have.
Live == devBuffer # <<>> \/ ~(Items(downlink) \cap CreateItems = {})

\* What may come up as an answer: it is one already, or will be.
Air(up, down, live, S) == Count(up, S) + (IF live THEN Count(down, S) ELSE 0)

OnAir(P) == Air(uplink, downlink, Live, BlocksAt(P))

Present == OnAir({fileSizeCounter})

Late == OnAir(0 .. fileSizeCounter - 1)

Creates == Air(uplink, downlink, TRUE, CreateItems)

\* The blocks one session can have put on the air at one offset.
MostBlocks == RetryCount * RetryCount

\* The blocks that the create requests still to be answered may put there.
Promised == RetryCount * Creates

\* Every create request that may still be answered can put RetryCount blocks
\* on the air, and the attempts that are left one each.
Budget ==
    /\ Present + Promised + (RetryCount - 1 - errorCounter) <= MostBlocks
    /\ lastLp.cmd = "DEV_CREATE_BUFFER_CMD" => Creates <= errorCounter + 1
    /\ Late <= MostBlocks - 1

\* How long the converter may have waited since its last new packet: an answer
\* period for every attempt made and every late answer heard.
Allowance == AnswerTimeout * (MostBlocks + errorCounter - Late)

\* And when nothing is awaited, no block can come.
Patience ==
    /\ waitTimer # Stopped => (IdleTimeout - idleTimer) + waitTimer <= Allowance
    /\ waitTimer = Stopped =>
           \A item \in Items(uplink) \cup Items(downlink) : ~Block(item)

Quiet == alreadySent => Road /\ Budget /\ Patience

-----------------------------------------------------------------------------
(* Counting.                                                               *)

\* The places counted are finite in number.
LEMMA PlacesFinite ==
    ASSUME NEW T, NEW path \in Seq(T), NEW S
    PROVE  IsFiniteSet({i \in DOMAIN path : path[i] \in S})
  <1>1. DOMAIN path = 1 .. Len(path) /\ Len(path) \in Nat
    OBVIOUS
  <1>2. IsFiniteSet(DOMAIN path)
    BY <1>1, FS_Interval
  <1> QED
    BY <1>2, FS_Subset

\* A count is a number.
LEMMA CountType ==
    ASSUME NEW T, NEW path \in Seq(T), NEW S PROVE Count(path, S) \in Nat
  BY PlacesFinite, FS_CardinalityType DEF Count

\* What is in the one set is in the other.
LEMMA CountMore ==
    ASSUME NEW T, NEW path \in Seq(T), NEW S, NEW U,
           \A item \in Items(path) : item \in S => item \in U
    PROVE  Count(path, S) <= Count(path, U)
  <1>1. {i \in DOMAIN path : path[i] \in S} \subseteq {i \in DOMAIN path : path[i] \in U}
    BY DEF Items
  <1> QED
    BY <1>1, PlacesFinite, FS_Subset DEF Count

\* Nothing is counted where nothing is.
LEMMA CountNone ==
    ASSUME NEW path, NEW S, \A item \in Items(path) : item \notin S
    PROVE  Count(path, S) = 0
  <1>1. {i \in DOMAIN path : path[i] \in S} = {}
    BY DEF Items
  <1> QED
    BY <1>1, FS_EmptySet DEF Count

\* Taking the first item.
LEMMA CountTail ==
    ASSUME NEW T, NEW path \in Seq(T), path # <<>>, NEW S
    PROVE  Count(path, S) = Count(Tail(path), S) + (IF Head(path) \in S THEN 1 ELSE 0)
  <1> DEFINE I == {i \in DOMAIN path : path[i] \in S}
             J == {i \in DOMAIN Tail(path) : Tail(path)[i] \in S}
  <1>1. /\ Len(path) \in Nat \ {0} /\ DOMAIN path = 1 .. Len(path)
        /\ Head(path) = path[1] /\ Tail(path) \in Seq(T)
        /\ DOMAIN Tail(path) = 1 .. Len(path) - 1
        /\ \A i \in 1 .. Len(path) - 1 : Tail(path)[i] = path[i + 1]
    OBVIOUS
  <1>2. IsFiniteSet(I) /\ IsFiniteSet(J)
    BY <1>1, PlacesFinite
  <1>3. ExistsBijection(J, I \ {1})
    <2> DEFINE f == [i \in J |-> i + 1]
    <2>1. \A i \in J : i + 1 \in I \ {1}
      BY <1>1
    <2>2. \A k \in I \ {1} : k - 1 \in J /\ (k - 1) + 1 = k
      BY <1>1
    <2>3. \A i, j \in J : i + 1 = j + 1 => i = j
      BY <1>1
    <2> HIDE DEF I, J
    <2>4. f \in [J -> I \ {1}]
      BY <2>1
    <2>5. f \in Injection(J, I \ {1})
      BY <2>3, <2>4 DEF Injection, IsInjective
    <2>6. f \in Surjection(J, I \ {1})
      BY <2>2, <2>4 DEF Surjection
    <2> QED
      BY <2>5, <2>6 DEF ExistsBijection, Bijection
  <1>4. Cardinality(J) = Cardinality(I \ {1})
    BY <1>2, <1>3, FS_Bijection
  <1>5. Cardinality(I \ {1}) = IF 1 \in I THEN Cardinality(I) - 1 ELSE Cardinality(I)
    BY <1>2, FS_RemoveElement
  <1>6. 1 \in I <=> Head(path) \in S
    BY <1>1
  <1>7. Cardinality(I) \in Nat
    BY <1>2, FS_CardinalityType
  <1> HIDE DEF I, J
  <1>8. Cardinality(I) = Cardinality(J) + (IF Head(path) \in S THEN 1 ELSE 0)
    BY <1>4, <1>5, <1>6, <1>7
  <1> QED
    BY <1>8 DEF I, J, Count

\* Putting an item at the end adds one at most, and one of the set only.
LEMMA CountSent ==
    ASSUME NEW T, NEW path \in Seq(T), NEW item \in T, NEW S
    PROVE  Count(Sent(path, item), S) <= Count(path, S) + (IF item \in S THEN 1 ELSE 0)
  <1> DEFINE I == {i \in DOMAIN path : path[i] \in S}
             new == Append(path, item)
             J == {i \in DOMAIN new : new[i] \in S}
             n == Len(path) + 1
  <1>0. Count(path, S) \in Nat
    BY CountType
  <1>1. CASE Sent(path, item) = path
    BY <1>0, <1>1
  <1>2. CASE Sent(path, item) = new
    <2>1. /\ Len(path) \in Nat /\ DOMAIN path = 1 .. Len(path)
          /\ DOMAIN new = 1 .. n
          /\ \A i \in 1 .. Len(path) : new[i] = path[i]
          /\ new[n] = item /\ new \in Seq(T)
      OBVIOUS
    <2>2. IsFiniteSet(I) /\ IsFiniteSet(J) /\ Cardinality(I) \in Nat
      BY <2>1, PlacesFinite, FS_CardinalityType
    <2>3. Count(path, S) = Cardinality(I) /\ Count(Sent(path, item), S) = Cardinality(J)
      BY <1>2 DEF Count
    <2>4. CASE item \in S
      <3>1. J = I \cup {n} /\ n \notin I
        BY <2>1, <2>4
      <3> HIDE DEF I, J
      <3>2. Cardinality(J) = Cardinality(I) + 1
        BY <2>2, <3>1, FS_AddElement
      <3> QED
        BY <2>2, <2>3, <2>4, <3>2
    <2>5. CASE item \notin S
      <3>1. J = I
        BY <2>1, <2>5
      <3> HIDE DEF I, J
      <3> QED
        BY <2>2, <2>3, <2>5, <3>1
    <2> QED
      BY <2>4, <2>5
  <1> QED
    BY <1>1, <1>2 DEF Sent

-----------------------------------------------------------------------------
(* The order along the road.                                               *)

\* An item may be put behind those it is not before.
LEMMA SentInOrder ==
    ASSUME NEW S, NEW path \in Seq(S), NEW item \in S, InOrder(path),
           \A other \in Items(path) :
              NotBehind(other, item) /\ (Void(other) /\ Block(item) => Void(item))
    PROVE  InOrder(Sent(path, item))
  <1>1. CASE Sent(path, item) = path
    BY <1>1
  <1>2. CASE Sent(path, item) = Append(path, item)
    <2> DEFINE new == Append(path, item)
    <2>1. /\ Len(path) \in Nat
          /\ DOMAIN path = 1 .. Len(path)
          /\ DOMAIN new = 1 .. Len(path) + 1
          /\ \A i \in 1 .. Len(path) : new[i] = path[i]
          /\ new[Len(path) + 1] = item
      OBVIOUS
    <2> HIDE DEF new
    <2>2. ASSUME NEW i \in DOMAIN new, NEW j \in DOMAIN new, i < j
          PROVE  /\ NotBehind(new[i], new[j])
                 /\ Void(new[i]) /\ Block(new[j]) => Void(new[j])
      <3>1. i \in 1 .. Len(path) /\ new[i] = path[i]
        BY <2>1, <2>2
      <3>2. CASE j \in 1 .. Len(path)
        <4>1. new[j] = path[j] /\ i \in DOMAIN path /\ j \in DOMAIN path
          BY <2>1, <3>1, <3>2
        <4> QED
          BY <2>2, <3>1, <4>1, Zenon DEF InOrder
      <3>3. CASE j = Len(path) + 1
        <4>1. path[i] \in Items(path) /\ new[j] = item
          BY <2>1, <3>1, <3>3 DEF Items
        <4> QED
          BY <3>1, <4>1, Zenon
      <3> QED
        BY <2>1, <2>2, <3>2, <3>3
    <2>3. InOrder(new)
      BY <2>2, Zenon DEF InOrder
    <2> QED
      BY <1>2, <2>3 DEF new
  <1> QED
    BY <1>1, <1>2 DEF Sent

\* The first item is before the others, and these are in order.
LEMMA TailInOrder ==
    ASSUME NEW S, NEW path \in Seq(S), InOrder(path), path # <<>>
    PROVE  /\ InOrder(Tail(path))
           /\ \A other \in Items(Tail(path)) :
                 /\ NotBehind(Head(path), other)
                 /\ Void(Head(path)) /\ Block(other) => Void(other)
  <1>1. /\ Len(path) \in Nat /\ Len(path) > 0
        /\ DOMAIN path = 1 .. Len(path)
        /\ Head(path) = path[1]
        /\ DOMAIN Tail(path) = 1 .. Len(path) - 1
        /\ \A i \in 1 .. Len(path) - 1 : Tail(path)[i] = path[i + 1]
    OBVIOUS
  <1>2. ASSUME NEW i \in DOMAIN Tail(path), NEW j \in DOMAIN Tail(path), i < j
        PROVE  /\ NotBehind(Tail(path)[i], Tail(path)[j])
               /\ Void(Tail(path)[i]) /\ Block(Tail(path)[j]) => Void(Tail(path)[j])
    <2>1. /\ i + 1 \in DOMAIN path /\ j + 1 \in DOMAIN path /\ i + 1 < j + 1
          /\ Tail(path)[i] = path[i + 1] /\ Tail(path)[j] = path[j + 1]
      BY <1>1, <1>2
    <2> QED
      BY <2>1, Zenon DEF InOrder
  <1>3. ASSUME NEW j \in DOMAIN Tail(path)
        PROVE  /\ NotBehind(Head(path), Tail(path)[j])
               /\ Void(Head(path)) /\ Block(Tail(path)[j]) => Void(Tail(path)[j])
    <2>1. /\ 1 \in DOMAIN path /\ j + 1 \in DOMAIN path /\ 1 < j + 1
          /\ Tail(path)[j] = path[j + 1] /\ Head(path) = path[1]
      BY <1>1
    <2> QED
      BY <2>1, Zenon DEF InOrder
  <1>4. InOrder(Tail(path))
    BY <1>2, Zenon DEF InOrder
  <1> QED
    BY <1>3, <1>4 DEF Items

\* Whoever takes or loses the first answer leaves the order.
LEMMA AlongUp ==
    ASSUME NEW up \in Seq(FrameType), Len(up) <= MaxInFlight, up # <<>>,
           NEW down, NEW last, Along(up, down, last)
    PROVE  Along(Tail(up), down, last)
  <1>1. InOrder(Tail(up)) /\ Items(Tail(up)) \subseteq Items(up)
    BY TailInOrder, TailItems DEF Along
  <1> QED
    BY <1>1 DEF Along

\* And so does who takes or loses the first packet.
LEMMA AlongDown ==
    ASSUME NEW down \in Seq(Packs), Len(down) <= MaxInFlight, down # <<>>,
           NEW up, NEW last, Along(up, down, last)
    PROVE  Along(up, Tail(down), last)
  <1>1. InOrder(Tail(down)) /\ Items(Tail(down)) \subseteq Items(down)
    BY TailInOrder, TailItems DEF Along
  <1> QED
    BY <1>1 DEF Along

\* The device may answer the packet it has taken.
LEMMA AlongAnswered ==
    ASSUME NEW up \in Seq(FrameType), Len(up) <= MaxInFlight,
           NEW down \in Seq(Packs), Len(down) <= MaxInFlight, down # <<>>,
           NEW last, Along(up, down, last), NEW fr \in FrameType,
           fr.cmd \in Staged => fr.cmd = Head(down).cmd /\ Stage(fr) = Stage(Head(down)),
           Block(fr) /\ ~Void(fr) => \A other \in Items(up) : ~Void(other)
    PROVE  Along(Sent(up, fr), Tail(down), last)
  <1>1. /\ Items(Tail(down)) \subseteq Items(down) /\ Head(down) \in Items(down)
        /\ InOrder(Tail(down))
        /\ \A other \in Items(Tail(down)) : NotBehind(Head(down), other)
    BY TailItems, TailInOrder DEF Along
  <1>2. \A other : NotBehind(Head(down), other) => NotBehind(fr, other)
    BY DEF NotBehind
  <1>3. \A other : NotBehind(other, Head(down)) => NotBehind(other, fr)
    BY DEF NotBehind
  <1>4. \A other \in Items(up) :
           NotBehind(other, fr) /\ (Void(other) /\ Block(fr) => Void(fr))
    BY <1>1, <1>3 DEF Along
  <1>5. InOrder(Sent(up, fr)) /\ Items(Sent(up, fr)) \subseteq Items(up) \cup {fr}
    BY <1>4, SentInOrder, SentItems DEF Along
  <1>6. \A x \in Items(Sent(up, fr)), pack \in Items(Tail(down)) : NotBehind(x, pack)
    BY <1>1, <1>2, <1>5 DEF Along
  <1>7. \A item \in Items(Sent(up, fr)) \cup Items(Tail(down)) : NotBehind(item, last)
    BY <1>1, <1>2, <1>5 DEF Along
  <1> QED
    BY <1>1, <1>5, <1>6, <1>7 DEF Along

\* A frame of the receiving half is in nobody's way.
LEMMA AlongOther ==
    ASSUME NEW up \in Seq(FrameType), Len(up) <= MaxInFlight, NEW down, NEW last,
           Along(up, down, last), NEW fr \in FrameType, fr.cmd \notin Staged
    PROVE  Along(Sent(up, fr), down, last)
  <1>1. \A other : NotBehind(fr, other) /\ NotBehind(other, fr) /\ ~Block(fr)
    BY DEF NotBehind, Block, Staged
  <1>2. InOrder(Sent(up, fr)) /\ Items(Sent(up, fr)) \subseteq Items(up) \cup {fr}
    BY <1>1, SentInOrder, SentItems DEF Along
  <1> QED
    BY <1>1, <1>2 DEF Along

\* The converter may send what nothing under way is ahead of.
LEMMA AlongSent ==
    ASSUME current \in Requests, NEW up,
           NEW down \in Seq(Packs), Len(down) <= MaxInFlight, NEW last,
           Along(up, down, last), NEW pack \in Packs,
           \A item \in Items(up) \cup Items(down) : NotBehind(item, pack),
           \A other \in Items(down) : ~Void(other)
    PROVE  Along(up, Sent(down, pack), pack)
  <1>1. InOrder(Sent(down, pack)) /\ Items(Sent(down, pack)) \subseteq Items(down) \cup {pack}
    BY SentInOrder, SentItems DEF Along
  <1>2. NotBehind(pack, pack)
    <2>1. pack.cmd \in Staged => Stage(pack) \in Int
      BY SizeIsNat DEF Staged, Stage, Packs
    <2> QED
      BY <2>1 DEF NotBehind
  <1> QED
    BY <1>1, <1>2 DEF Along

\* The order is one of the state after a step if the request is the same.
LEMMA AlongAfter ==
    ASSUME UNCHANGED current
    PROVE  Along(uplink, downlink, lastLp)' <=> Along(uplink', downlink', lastLp')
  BY DEF Along, InOrder, NotBehind, Stage, Size, Items, Void, Block

-----------------------------------------------------------------------------
(* The counts.                                                             *)

\* It is a number.
LEMMA AirType ==
    ASSUME NEW up \in Seq(FrameType), NEW down \in Seq(Packs), NEW live \in BOOLEAN, NEW S
    PROVE  /\ Air(up, down, live, S) \in Nat
           /\ Count(up, S) \in Nat /\ Count(down, S) \in Nat
           /\ Count(up, S) <= Air(up, down, live, S)
  BY CountType DEF Air

\* What the network and the device do with the two paths.
Passes(up, down, live, up2, down2, live2, S) ==
    /\ live2 => live
    /\ down2 = down \/ (down # <<>> /\ down2 = Tail(down))
    /\ \/ up2 = up
       \/ up # <<>> /\ up2 = Tail(up)
       \/ \E fr \in FrameType :
             /\ up2 = Sent(up, fr)
             /\ fr \in S => /\ live /\ down # <<>> /\ down2 = Tail(down)
                            /\ Head(down) \in S

\* It never makes more of what is on the air.
LEMMA AirPasses ==
    ASSUME NEW up \in Seq(FrameType), NEW down \in Seq(Packs), NEW live \in BOOLEAN,
           NEW up2 \in Seq(FrameType), NEW down2 \in Seq(Packs), NEW live2 \in BOOLEAN,
           NEW S, Passes(up, down, live, up2, down2, live2, S)
    PROVE  Air(up2, down2, live2, S) <= Air(up, down, live, S)
  <1>1. /\ Count(up, S) \in Nat /\ Count(down, S) \in Nat
        /\ Count(up2, S) \in Nat /\ Count(down2, S) \in Nat
    BY CountType
  <1>2. /\ down2 = down \/ (down # <<>> /\ down2 = Tail(down))
        /\ Count(down2, S) <= Count(down, S)
    <2>1. CASE down2 = down
      BY <1>1, <2>1
    <2>2. CASE down # <<>> /\ down2 = Tail(down)
      <3>1. Count(down, S) = Count(down2, S) + (IF Head(down) \in S THEN 1 ELSE 0)
        BY <2>2, CountTail
      <3> QED
        BY <1>1, <2>2, <3>1
    <2> QED
      BY <2>1, <2>2 DEF Passes
  <1>3. CASE Count(up2, S) <= Count(up, S)
    BY <1>1, <1>2, <1>3 DEF Passes, Air
  <1>4. CASE Count(up2, S) > Count(up, S)
    <2>1. up2 # up /\ ~(up # <<>> /\ up2 = Tail(up))
      <3>1. CASE up2 = up
        BY <1>1, <1>4, <3>1
      <3>2. CASE up # <<>> /\ up2 = Tail(up)
        <4>1. Count(up, S) = Count(up2, S) + (IF Head(up) \in S THEN 1 ELSE 0)
          BY <3>2, CountTail
        <4> QED
          BY <1>1, <1>4, <4>1
      <3> QED
        BY <3>1, <3>2
    <2>2. PICK fr \in FrameType :
             /\ up2 = Sent(up, fr)
             /\ fr \in S => /\ live /\ down # <<>> /\ down2 = Tail(down)
                            /\ Head(down) \in S
      BY <2>1 DEF Passes
    <2>3. Count(up2, S) <= Count(up, S) + (IF fr \in S THEN 1 ELSE 0)
      BY <2>2, CountSent
    <2>4. fr \in S /\ Count(up2, S) <= Count(up, S) + 1
      BY <1>1, <1>4, <2>3
    <2>5. Count(down, S) = Count(down2, S) + 1
      BY <2>2, <2>4, CountTail
    <2> QED
      BY <1>1, <2>2, <2>4, <2>5 DEF Air
  <1> QED
    BY <1>1, <1>3, <1>4

-----------------------------------------------------------------------------
(* The network and the device.                                             *)

\* A frame of the device answers the packet it has taken, or is of the
\* receiving half.
Answering(fr) ==
    /\ fr.cmd \in Staged =>
           /\ downlink # <<>> /\ downlink' = Tail(downlink)
           /\ fr.cmd = Head(downlink).cmd
           /\ Stage(fr) = Stage(Head(downlink))
           /\ Block(fr) => fr.off = Head(downlink).off
    /\ Block(fr) /\ ~Void(fr) => devBuffer # <<>>

\* What the network and the device do, seen from the converter.
DeviceMoves ==
    /\ UNCHANGED <<object, current>>
    /\ downlink' = downlink \/ (downlink # <<>> /\ downlink' = Tail(downlink))
    /\ \/ uplink' = uplink
       \/ uplink # <<>> /\ uplink' = Tail(uplink)
       \/ \E fr \in FrameType :
             uplink' = Sent(uplink, fr) /\ Answering(fr) /\ FramePlaced(fr)'
    /\ BufferSound'
    /\ devBuffer = <<>> /\ devBuffer' # <<>> =>
           /\ downlink # <<>> /\ downlink' = Tail(downlink)
           /\ Head(downlink).cmd = "DEV_CREATE_BUFFER_CMD"

\* An item keeps its place while the converter keeps its own.
LEMMA PlaceKept ==
    ASSUME UNCHANGED <<sendDataBuffer, fileSizeCounter, current>>, NEW item
    PROVE  /\ Placed(item)' <=> Placed(item)
           /\ PackPlaced(item)' <=> PackPlaced(item)
           /\ FramePlaced(item) /\ (Void(item) => devBuffer' = <<>>) => FramePlaced(item)'
  <1>1. Size' = Size /\ (\A o : Position(o)' <=> Position(o)) /\ (\A o : Length(o)' = Length(o))
    BY DEF Size, Position, Length
  <1>2. Placed(item)' <=> Placed(item)
    BY <1>1 DEF Placed, Block
  <1> QED
    BY <1>1, <1>2 DEF PackPlaced, FramePlaced, Void, Block

\* What the road is made of.
LEMMA RoadTypes ==
    ASSUME Typed
    PROVE  /\ uplink \in Seq(FrameType) /\ Len(uplink) <= MaxInFlight
           /\ downlink \in Seq(Packs) /\ Len(downlink) <= MaxInFlight
           /\ Items(uplink) \subseteq FrameType /\ Items(downlink) \subseteq Packs
           /\ Items(downlink) \subseteq Sendable /\ lastLp \in Sendable
           /\ Sendable \subseteq Packs
           /\ Live \in BOOLEAN
  BY UnderWay DEF Sendable, Live

\* After an answer to a block of no bytes comes no create.
LEMMA NoCreateBehindVoid ==
    ASSUME Typed, NEW last, Along(uplink, downlink, last), NEW fr \in Items(uplink), Block(fr),
           NEW pack \in Items(downlink) \cup {last}
    PROVE  pack.cmd # "DEV_CREATE_BUFFER_CMD"
  <1>1. SUFFICES ASSUME pack.cmd = "DEV_CREATE_BUFFER_CMD" PROVE FALSE
    OBVIOUS
  <1>2. NotBehind(fr, pack) /\ fr.cmd = "SEND_DATA_BLOCK_CMD"
    BY DEF Along, Block
  <1>3. Stage(fr) = fr.off + 1 /\ Stage(pack) = 0
    BY <1>1, <1>2 DEF Stage
  <1>4. fr.off \in Nat
    BY RoadTypes DEF FrameType
  <1> QED
    BY <1>1, <1>2, <1>3, <1>4 DEF NotBehind, Staged

\* What they do leaves everything on the road in its place.
LEMMA DeviceKeepsRoad ==
    ASSUME Typed, Road, DeviceMoves PROVE Road'
  <1>1. /\ uplink \in Seq(FrameType) /\ Len(uplink) <= MaxInFlight
        /\ downlink \in Seq(Packs) /\ Len(downlink) <= MaxInFlight
        /\ Along(uplink, downlink, lastLp)
        /\ Items(downlink) \subseteq Sendable
    BY RoadTypes DEF Road
  <1>2. UNCHANGED <<current, sendDataBuffer, fileSizeCounter, lastLp>>
    BY DEF DeviceMoves, object
  <1>3. CounterPlaced'
    BY <1>2 DEF Road, CounterPlaced, Size, Position, Block
  <1>4. /\ downlink' = downlink \/ (downlink # <<>> /\ downlink' = Tail(downlink))
        /\ Items(downlink') \subseteq Items(downlink)
        /\ Sendable' \subseteq Sendable
    BY <1>1, <1>2, TailItems, SetsAfter DEF DeviceMoves, Sendable
  <1>5. \A pack \in Sendable' : PackPlaced(pack)'
    BY <1>2, <1>4, PlaceKept DEF Road
  <1>6. \A fr \in Items(uplink) : FramePlaced(fr)'
    <2>1. SUFFICES ASSUME NEW fr \in Items(uplink), Void(fr) PROVE devBuffer' = <<>>
      BY <1>2, PlaceKept DEF Road
    <2>2. SUFFICES ASSUME devBuffer' # <<>> PROVE FALSE
      OBVIOUS
    <2>3. /\ devBuffer = <<>> /\ Block(fr) /\ downlink # <<>>
          /\ Head(downlink).cmd = "DEV_CREATE_BUFFER_CMD"
      BY <2>1, <2>2 DEF Road, FramePlaced, Void, DeviceMoves
    <2>4. Head(downlink) \in Items(downlink)
      BY <1>1, <2>3, TailItems
    <2> QED
      BY <1>1, <2>3, <2>4, NoCreateBehindVoid
  <1>7. /\ Along(uplink', downlink', lastLp)
        /\ \A fr \in Items(uplink') : FramePlaced(fr)'
    <2>0. Along(uplink, downlink', lastLp)
      BY <1>1, <1>4, AlongDown
    <2>1. CASE uplink' = uplink
      BY <1>6, <2>0, <2>1
    <2>2. CASE uplink # <<>> /\ uplink' = Tail(uplink)
      BY <1>1, <1>6, <2>0, <2>2, AlongUp, TailItems
    <2>3. CASE \E fr \in FrameType :
                  uplink' = Sent(uplink, fr) /\ Answering(fr) /\ FramePlaced(fr)'
      <3>1. PICK fr \in FrameType :
                    uplink' = Sent(uplink, fr) /\ Answering(fr) /\ FramePlaced(fr)'
        BY <2>3
      <3>2. Items(uplink') \subseteq Items(uplink) \cup {fr}
        BY <1>1, <3>1, SentItems
      <3>3. CASE fr.cmd \in Staged
        <4>1. Block(fr) /\ ~Void(fr) => \A other \in Items(uplink) : ~Void(other)
          BY <3>1 DEF Road, Answering, FramePlaced
        <4> QED
          BY <1>1, <1>6, <3>1, <3>2, <3>3, <4>1, AlongAnswered DEF Answering
      <3>4. CASE fr.cmd \notin Staged
        <4>1. Along(uplink', downlink', lastLp)
          BY <1>1, <2>0, <3>1, <3>4, AlongOther
        <4> QED
          BY <1>6, <3>1, <3>2, <4>1
      <3> QED
        BY <3>3, <3>4
    <2> QED
      BY <2>1, <2>2, <2>3 DEF DeviceMoves
  <1>8. Along(uplink, downlink, lastLp)'
    BY <1>2, <1>7, AlongAfter
  <1>9. \A fr \in Items(uplink)' : FramePlaced(fr)'
    BY <1>7, SetsAfter
  <1> QED
    BY <1>3, <1>5, <1>8, <1>9 DEF Road, DeviceMoves

\* Factors that are not negative keep an order.
LEMMA Multiplied ==
    ASSUME NEW k \in Nat, NEW m \in Int, NEW n \in Int
    PROVE  /\ k * m \in Int /\ k * n \in Int
           /\ m <= n => k * m <= k * n
           /\ m + 1 <= n => k * m + k <= k * n
  <1>1. ASSUME NEW d \in Nat PROVE k * d \in Nat
    OBVIOUS
  <1>2. k * m \in Int /\ k * n \in Int
    OBVIOUS
  <1>3. k * n = k * m + k * (n - m)
    OBVIOUS
  <1>4. k * n = k * m + k + k * (n - m - 1)
    OBVIOUS
  <1>5. ASSUME m <= n PROVE k * m <= k * n
    <2>1. k * (n - m) \in Nat
      BY <1>1, <1>5
    <2> QED
      BY <1>2, <1>3, <2>1
  <1>6. ASSUME m + 1 <= n PROVE k * m + k <= k * n
    <2>1. k * (n - m - 1) \in Nat
      BY <1>1, <1>6
    <2> QED
      BY <1>2, <1>4, <2>1
  <1> QED
    BY <1>2, <1>5, <1>6

\* The numbers of the strengthening.
LEMMA Numbers ==
    ASSUME Typed
    PROVE  /\ Present \in Nat /\ Late \in Nat /\ Creates \in Nat
           /\ RetryCount \in Nat \ {0} /\ AnswerTimeout \in Nat \ {0}
           /\ IdleTimeout \in Nat \ {0}
           /\ MostBlocks \in Nat /\ Promised \in Nat /\ Allowance \in Int
           /\ errorCounter \in Int /\ fileSizeCounter \in Int
           /\ waitTimer \in Int /\ idleTimer \in Int
  <1>1. /\ RetryCount \in Nat \ {0} /\ AnswerTimeout \in Nat \ {0}
        /\ IdleTimeout \in Nat \ {0}
    BY Parameters
  <1>2. MostBlocks \in Nat
    BY <1>1 DEF MostBlocks
  <1>3. /\ errorCounter \in Int /\ fileSizeCounter \in Int
        /\ waitTimer \in Int /\ idleTimer \in Int
    BY <1>1, UnderWay DEF TypeOK, Stopped
  <1>4. Present \in Nat /\ Late \in Nat /\ Creates \in Nat
    BY RoadTypes, AirType DEF Present, Late, Creates, OnAir
  <1>5. Promised \in Nat
    BY <1>1, <1>4 DEF Promised
  <1>6. Allowance \in Int
    <2>1. MostBlocks + errorCounter - Late \in Int
      BY <1>2, <1>3, <1>4
    <2> QED
      BY <1>1, <2>1, Multiplied DEF Allowance
  <1> QED
    BY <1>1, <1>2, <1>3, <1>4, <1>5, <1>6

\* And after a step.
LEMMA NumbersAfter ==
    ASSUME Typed'
    PROVE  /\ Present' \in Nat /\ Late' \in Nat /\ Creates' \in Nat
           /\ Promised' \in Nat /\ Allowance' \in Int
           /\ MostBlocks' = MostBlocks
           /\ errorCounter' \in Int /\ fileSizeCounter' \in Int
           /\ waitTimer' \in Int /\ idleTimer' \in Int
           /\ uplink' \in Seq(FrameType) /\ downlink' \in Seq(Packs)
           /\ Live' \in BOOLEAN
  <1>1. /\ uplink' \in Seq(FrameType) /\ downlink' \in Seq(Packs) /\ TypeOK'
    BY DEF Typed, TransferTypeOK
  <1>2. Live' \in BOOLEAN
    BY DEF Live
  <1>3. Present' \in Nat /\ Late' \in Nat /\ Creates' \in Nat
    BY <1>1, <1>2, AirType DEF Present, Late, Creates, OnAir
  <1>4. /\ errorCounter' \in Int /\ fileSizeCounter' \in Int
        /\ waitTimer' \in Int /\ idleTimer' \in Int
    BY <1>1, Parameters DEF TypeOK, Stopped
  <1>5. MostBlocks' = MostBlocks /\ MostBlocks \in Nat
    BY Parameters DEF MostBlocks
  <1>6. Promised' \in Nat
    <2>1. PICK c \in Nat : c = Creates'
      BY <1>3
    <2>2. RetryCount * c \in Nat
      BY Parameters
    <2> QED
      BY <2>1, <2>2 DEF Promised
  <1>7. Allowance' \in Int
    <2>1. MostBlocks + errorCounter' - Late' \in Int
      BY <1>3, <1>4, <1>5
    <2> QED
      BY <1>5, <2>1, Multiplied, Parameters DEF Allowance
  <1> QED
    BY <1>1, <1>2, <1>3, <1>4, <1>5, <1>6, <1>7

\* An allowance, in numbers.
LEMMA Worth ==
    ASSUME NEW k \in Nat, NEW m \in Int, NEW e \in Int, NEW l \in Int, NEW f \in Int, NEW g \in Int
    PROVE  /\ k * (m + e - l) \in Int
           /\ e - l <= f - g => k * (m + e - l) <= k * (m + f - g)
           /\ e - l + 1 <= f - g => k * (m + e - l) + k <= k * (m + f - g)
           /\ f >= 0 /\ g <= m - 1 => k <= k * (m + f - g)
  <1>1. m + e - l \in Int /\ m + f - g \in Int
    OBVIOUS
  <1>2. ASSUME e - l <= f - g PROVE m + e - l <= m + f - g
    BY <1>2
  <1>3. ASSUME e - l + 1 <= f - g PROVE (m + e - l) + 1 <= m + f - g
    BY <1>3
  <1>4. ASSUME f >= 0, g <= m - 1 PROVE 0 + 1 <= m + f - g
    BY <1>4
  <1>5. PICK a \in Int, b \in Int : a = m + e - l /\ b = m + f - g
    BY <1>1
  <1>6. /\ k * a \in Int
        /\ a <= b => k * a <= k * b
        /\ a + 1 <= b => k * a + k <= k * b
        /\ 0 + 1 <= b => k * 0 + k <= k * b
    BY Multiplied
  <1>7. k * 0 + k = k
    OBVIOUS
  <1> QED
    BY <1>2, <1>3, <1>4, <1>5, <1>6, <1>7

\* Fewer create requests promise fewer blocks.
LEMMA PromisedLess ==
    ASSUME Typed, Typed'
    PROVE  /\ Creates' <= Creates => Promised' <= Promised
           /\ Creates' + 1 <= Creates => Promised' + RetryCount <= Promised
  <1>1. PICK c \in Int, d \in Int, k \in Nat : c = Creates /\ d = Creates' /\ k = RetryCount
    BY Numbers, NumbersAfter
  <1>2. Promised = k * c /\ Promised' = k * d
    BY <1>1 DEF Promised
  <1>3. /\ d <= c => k * d <= k * c
        /\ d + 1 <= c => k * d + k <= k * c
    BY Multiplied
  <1> QED
    BY <1>1, <1>2, <1>3, Zenon

\* A late answer heard, or an attempt made, is worth an answer period.
LEMMA AllowanceAfter ==
    ASSUME Typed, Typed'
    PROVE  /\ errorCounter - Late <= errorCounter' - Late' => Allowance <= Allowance'
           /\ errorCounter - Late + 1 <= errorCounter' - Late' =>
                  Allowance + AnswerTimeout <= Allowance'
           /\ errorCounter' >= 0 /\ Late' <= MostBlocks - 1 => AnswerTimeout <= Allowance'
  <1>1. PICK e \in Int, l \in Int, f \in Int, g \in Int, m \in Int, k \in Nat :
           /\ e = errorCounter /\ l = Late /\ f = errorCounter' /\ g = Late'
           /\ m = MostBlocks /\ k = AnswerTimeout
    <2>1. /\ errorCounter \in Int /\ Late \in Int /\ MostBlocks \in Int /\ AnswerTimeout \in Nat
      BY Numbers
    <2>2. errorCounter' \in Int /\ Late' \in Int
      BY NumbersAfter
    <2> QED
      BY <2>1, <2>2, Zenon
  <1>2. Allowance = k * (m + e - l) /\ Allowance' = k * (m + f - g)
    BY <1>1, NumbersAfter DEF Allowance
  <1>3. /\ e - l <= f - g => k * (m + e - l) <= k * (m + f - g)
        /\ e - l + 1 <= f - g => k * (m + e - l) + k <= k * (m + f - g)
        /\ f >= 0 /\ g <= m - 1 => k <= k * (m + f - g)
    BY Worth
  <1> QED
    BY <1>1, <1>2, <1>3, Zenon

\* The buffer is there after a step only if it or its create was before.
LEMMA LiveKept ==
    ASSUME Typed, DeviceMoves PROVE Live' => Live
  <1>1. Items(downlink') \subseteq Items(downlink)
    BY RoadTypes, TailItems DEF DeviceMoves
  <1>2. ASSUME Live', ~Live PROVE FALSE
    <2>1. devBuffer = <<>> /\ Items(downlink) \cap CreateItems = {}
      BY <1>2 DEF Live
    <2>2. Items(downlink)' = Items(downlink')
      BY SetsAfter
    <2>3. devBuffer' # <<>>
      BY <1>1, <1>2, <2>1, <2>2 DEF Live
    <2>4. /\ downlink # <<>> /\ Head(downlink).cmd = "DEV_CREATE_BUFFER_CMD"
          /\ Head(downlink) \in Items(downlink) /\ Head(downlink) \in Packs
      BY <2>1, <2>3, RoadTypes, TailItems DEF DeviceMoves
    <2> QED
      BY <2>1, <2>4 DEF CreateItems
  <1> QED
    BY <1>2

\* The device adds nothing to what is on the air.
LEMMA DeviceAddsNothing ==
    ASSUME Typed, Typed', Road, DeviceMoves
    PROVE  Present' <= Present /\ Late' <= Late /\ Creates' <= Creates
  <1>1. /\ uplink \in Seq(FrameType) /\ downlink \in Seq(Packs) /\ Live \in BOOLEAN
        /\ uplink' \in Seq(FrameType) /\ downlink' \in Seq(Packs) /\ Live' \in BOOLEAN
        /\ Len(downlink) <= MaxInFlight
    BY RoadTypes, NumbersAfter
  <1>2. downlink' = downlink \/ (downlink # <<>> /\ downlink' = Tail(downlink))
    BY DEF DeviceMoves
  <1>3. \/ uplink' = uplink
        \/ uplink # <<>> /\ uplink' = Tail(uplink)
        \/ \E fr \in FrameType : uplink' = Sent(uplink, fr) /\ Answering(fr)
    BY DEF DeviceMoves
  <1>4. downlink # <<>> => /\ Head(downlink) \in Packs
                           /\ PackPlaced(Head(downlink))
    BY <1>1, TailItems, RoadTypes DEF Road
  <1>5. ASSUME NEW P PROVE OnAir(P)' <= OnAir(P)
    <2>1. ASSUME NEW fr \in FrameType, Answering(fr), fr \in BlocksAt(P)
          PROVE  /\ Live /\ downlink # <<>> /\ downlink' = Tail(downlink)
                 /\ Head(downlink) \in BlocksAt(P)
      <3>1. /\ Block(fr) /\ fr.len > 0 /\ fr.off \in P /\ ~Void(fr)
        BY <2>1 DEF BlocksAt, Void, FrameType
      <3>2. /\ downlink # <<>> /\ downlink' = Tail(downlink) /\ devBuffer # <<>>
            /\ Block(Head(downlink)) /\ Head(downlink).off \in P
        BY <2>1, <3>1 DEF Answering, Block, Staged
      <3>3. Head(downlink).len \in Nat /\ Head(downlink).len > 0
        BY <1>4, <3>2 DEF Packs, PackPlaced, Void
      <3> QED
        BY <1>4, <3>2, <3>3 DEF BlocksAt, Live
    <2>2. Passes(uplink, downlink, Live, uplink', downlink', Live', BlocksAt(P))
      <3>1. CASE uplink' = uplink \/ (uplink # <<>> /\ uplink' = Tail(uplink))
        BY <1>2, <3>1, LiveKept DEF Passes
      <3>2. CASE \E fr \in FrameType : uplink' = Sent(uplink, fr) /\ Answering(fr)
        BY <1>2, <2>1, <3>2, LiveKept DEF Passes
      <3> QED
        BY <1>3, <3>1, <3>2
    <2> QED
      BY <1>1, <2>2, AirPasses DEF OnAir
  <1>6. UNCHANGED fileSizeCounter
    BY DEF DeviceMoves, object
  <1>7. Present' <= Present
    BY <1>5, <1>6 DEF Present, OnAir
  <1>8. Late' <= Late
    BY <1>5, <1>6 DEF Late, OnAir
  <1>9. Creates' <= Creates
    <2>1. ASSUME NEW fr \in FrameType, Answering(fr), fr \in CreateItems
          PROVE  /\ downlink # <<>> /\ downlink' = Tail(downlink)
                 /\ Head(downlink) \in CreateItems
      BY <1>4, <2>1 DEF Answering, Staged, CreateItems
    <2>2. Passes(uplink, downlink, TRUE, uplink', downlink', TRUE, CreateItems)
      <3>1. CASE uplink' = uplink \/ (uplink # <<>> /\ uplink' = Tail(uplink))
        BY <1>2, <3>1 DEF Passes
      <3>2. CASE \E fr \in FrameType : uplink' = Sent(uplink, fr) /\ Answering(fr)
        BY <1>2, <2>1, <3>2 DEF Passes
      <3> QED
        BY <1>3, <3>1, <3>2
    <2> QED
      BY <1>1, <2>2, AirPasses DEF Creates
  <1> QED
    BY <1>7, <1>8, <1>9

\* Fewer late answers with the same errors.
LEMMA LessLate ==
    ASSUME Typed, Typed', Late' <= Late, errorCounter' = errorCounter
    PROVE  errorCounter - Late <= errorCounter' - Late'
  <1>1. errorCounter \in Int /\ Late \in Int
    BY Numbers
  <1>2. Late' \in Int
    BY NumbersAfter
  <1>3. PICK e \in Int, l \in Int, g \in Int : e = errorCounter /\ l = Late /\ g = Late'
    BY <1>1, <1>2, Zenon
  <1>4. e - l <= e - g
    <2>1. g <= l
      BY <1>3, Zenon
    <2> QED
      BY <2>1
  <1> QED
    BY <1>3, <1>4, Zenon

\* The budget holds for less.
LEMMA BudgetLess ==
    ASSUME Typed, Typed', Budget, Present' <= Present, Late' <= Late, Creates' <= Creates,
           Promised' <= Promised, errorCounter' = errorCounter,
           lastLp'.cmd = "DEV_CREATE_BUFFER_CMD" => lastLp.cmd = "DEV_CREATE_BUFFER_CMD"
    PROVE  Budget'
  <1>1. /\ Present \in Int /\ Late \in Int /\ Creates \in Int /\ Promised \in Int
        /\ MostBlocks \in Int /\ RetryCount \in Int /\ errorCounter \in Int
    BY Numbers
  <1>2. /\ Present' \in Int /\ Late' \in Int /\ Creates' \in Int /\ Promised' \in Int
        /\ MostBlocks' = MostBlocks
    BY NumbersAfter
  <1>3. PICK p \in Int, l \in Int, c \in Int, q \in Int :
           p = Present /\ l = Late /\ c = Creates /\ q = Promised
    BY <1>1
  <1>4. PICK p2 \in Int, l2 \in Int, c2 \in Int, q2 \in Int :
           p2 = Present' /\ l2 = Late' /\ c2 = Creates' /\ q2 = Promised'
    BY <1>2
  <1>5. /\ p2 <= p /\ l2 <= l /\ c2 <= c /\ q2 <= q
        /\ p + q + (RetryCount - 1 - errorCounter) <= MostBlocks
        /\ lastLp.cmd = "DEV_CREATE_BUFFER_CMD" => c <= errorCounter + 1
        /\ l <= MostBlocks - 1
    BY <1>3, <1>4 DEF Budget
  <1>6. /\ p2 + q2 + (RetryCount - 1 - errorCounter) <= MostBlocks
        /\ lastLp.cmd = "DEV_CREATE_BUFFER_CMD" => c2 <= errorCounter + 1
        /\ l2 <= MostBlocks - 1
    BY <1>1, <1>5
  <1> QED
    BY <1>2, <1>4, <1>6 DEF Budget

\* So it costs the converter no patience.
LEMMA DeviceKeepsQuiet ==
    ASSUME Typed, Typed', Quiet, DeviceMoves PROVE Quiet'
  <1>1. SUFFICES ASSUME alreadySent' PROVE Road' /\ Budget' /\ Patience'
    BY DEF Quiet
  <1>2. UNCHANGED <<alreadySent, errorCounter, idleTimer, waitTimer, lastLp>>
    BY DEF DeviceMoves, object
  <1>3. Road /\ Budget /\ Patience
    BY <1>1, <1>2 DEF Quiet
  <1>4. Road'
    BY <1>3, DeviceKeepsRoad
  <1>5. /\ Present' <= Present /\ Late' <= Late /\ Creates' <= Creates
        /\ Promised' <= Promised
    BY <1>3, DeviceAddsNothing, PromisedLess
  <1>6. Budget'
    <2>1. MostBlocks' = MostBlocks /\ errorCounter' = errorCounter /\ lastLp' = lastLp
      BY <1>2, NumbersAfter
    <2> QED
      BY <1>3, <1>5, <2>1, BudgetLess
  <1>7. waitTimer' # Stopped => (IdleTimeout - idleTimer') + waitTimer' <= Allowance'
    <2>1. Allowance <= Allowance'
      BY <1>2, <1>5, AllowanceAfter, LessLate
    <2>2. waitTimer # Stopped => (IdleTimeout - idleTimer) + waitTimer <= Allowance
      BY <1>3 DEF Patience
    <2>3. PICK a \in Int, b \in Int, c \in Int :
             /\ a = (IdleTimeout - idleTimer) + waitTimer
             /\ b = Allowance /\ c = Allowance'
      <3>1. (IdleTimeout - idleTimer) + waitTimer \in Int /\ Allowance \in Int
        BY Numbers
      <3>2. Allowance' \in Int
        BY NumbersAfter
      <3> QED
        BY <3>1, <3>2, Zenon
    <2> QED
      BY <1>2, <2>1, <2>2, <2>3
  <1>8. waitTimer' = Stopped =>
           \A item \in Items(uplink') \cup Items(downlink') : ~Block(item)
    <2>1. SUFFICES ASSUME waitTimer = Stopped,
                          NEW item \in Items(uplink') \cup Items(downlink')
                   PROVE  ~Block(item)
      BY <1>2
    <2>2. \A other \in Items(uplink) \cup Items(downlink) : ~Block(other)
      BY <1>3, <2>1 DEF Patience
    <2>3. downlink # <<>> => Head(downlink) \in Items(downlink)
      BY RoadTypes, TailItems
    <2>4. Items(downlink') \subseteq Items(downlink)
      BY RoadTypes, TailItems DEF DeviceMoves
    <2>5. \/ Items(uplink') \subseteq Items(uplink)
          \/ \E fr \in FrameType : /\ Items(uplink') \subseteq Items(uplink) \cup {fr}
                                   /\ Answering(fr)
      BY RoadTypes, TailItems, SentItems DEF DeviceMoves
    <2>6. \A fr \in FrameType : Answering(fr) => ~Block(fr)
      BY <2>2, <2>3 DEF Answering, Block, Staged
    <2> QED
      BY <2>2, <2>4, <2>5, <2>6
  <1>9. Patience'
    BY <1>7, <1>8, SetsAfter DEF Patience
  <1> QED
    BY <1>4, <1>6, <1>9

\* The converter does not notice what happens elsewhere.
LEMMA ElsewhereMoves ==
    ASSUME Typed, Road, ConverterIdle, UNCHANGED devBuffer,
           \/ UNCHANGED uplink
           \/ uplink # <<>> /\ uplink' = Tail(uplink),
           \/ UNCHANGED downlink
           \/ downlink # <<>> /\ downlink' = Tail(downlink)
    PROVE  DeviceMoves
  <1>1. UNCHANGED <<object, current>>
    BY DEF ConverterIdle
  <1>2. BufferSound'
    BY <1>1, SizeKept DEF Road, BufferSound
  <1> QED
    BY <1>1, <1>2 DEF DeviceMoves

\* Nor does it notice a restart of the device.
LEMMA RebootMoves ==
    ASSUME Typed, DeviceReboots PROVE DeviceMoves
  <1>1. UNCHANGED <<object, current, uplink, downlink>> /\ devBuffer' = <<>>
    BY DEF DeviceReboots, ConverterIdle
  <1> QED
    BY <1>1 DEF DeviceMoves, BufferSound

\* A frame of the device's own reply.
LEMMA OwnReplyMoves ==
    ASSUME Typed, Road, DeviceReplies PROVE DeviceMoves
  <1>1. /\ UNCHANGED <<object, current, downlink, devBuffer>>
        /\ devReply # NoReply /\ uplink' = Sent(uplink, ReplyFrame)
    BY DEF DeviceReplies, ConverterIdle
  <1>2. ReplyInRange
    BY Parts DEF DeviceTyped
  <1>3. ReplyFrame \in FrameType
    BY <1>1, <1>2, ReplyFrameTyped
  <1>4. ReplyFrame.cmd \notin Staged
    <2>1. devReply.phase \in {"small", "create", "data", "finish"}
      BY <1>1, <1>2 DEF ReplyInRange, ReplyTyped, Phases
    <2>2. CASE devReply.phase = "small"
      BY <2>2 DEF ReplyFrame, Frame, Staged
    <2>3. CASE devReply.phase = "create"
      BY <2>3 DEF ReplyFrame, Frame, Staged
    <2>4. CASE devReply.phase = "data"
      BY <2>4 DEF ReplyFrame, Frame, Staged
    <2>5. CASE devReply.phase = "finish"
      BY <2>5 DEF ReplyFrame, Frame, Staged
    <2> QED
      BY <2>1, <2>2, <2>3, <2>4, <2>5
  <1>5. PICK fr \in FrameType : fr = ReplyFrame
    BY <1>3
  <1>6. fr.cmd \notin Staged /\ uplink' = Sent(uplink, fr)
    BY <1>1, <1>4, <1>5
  <1>7. Answering(fr) /\ FramePlaced(fr)'
    BY <1>6 DEF Answering, Block, Staged, FramePlaced, Placed, Void
  <1>8. BufferSound'
    BY <1>1, SizeKept DEF Road, BufferSound
  <1> QED
    BY <1>1, <1>6, <1>7, <1>8 DEF DeviceMoves

\* What an answer of the device is.
LEMMA AnswerFrame ==
    ASSUME NEW cmd \in FrameCommands, NEW rc \in Nat, NEW off \in Nat, NEW len \in Nat,
           DeviceAnswers(cmd, rc, off, len)
    PROVE  \E fr \in FrameType :
              /\ uplink' = Sent(uplink, fr)
              /\ fr.cmd = cmd /\ fr.rc = rc /\ fr.off = off /\ fr.len = len
  <1>1. <<>> \in Seq(Words)
    OBVIOUS
  <1>2. Frame(cmd, rc, off, len, <<>>) \in FrameType
    BY <1>1 DEF Frame, FrameType
  <1> QED
    BY <1>2 DEF Frame, DeviceAnswers

\* The packet the device takes is in its place.
LEMMA Taken ==
    ASSUME Typed, Road, NEW cmd, DeviceTakes(cmd)
    PROVE  /\ UNCHANGED <<object, current>>
           /\ downlink # <<>> /\ downlink' = Tail(downlink)
           /\ Head(downlink).cmd = cmd /\ Head(downlink) \in Packs
           /\ PackPlaced(Head(downlink))
  <1>1. /\ UNCHANGED <<object, current>>
        /\ downlink # <<>> /\ downlink' = Tail(downlink)
        /\ Head(downlink).cmd = cmd
    BY DEF DeviceTakes, ConverterIdle
  <1> QED
    BY <1>1, RoadTypes, TailItems DEF Road

\* The device creates its buffer where the request fits.
LEMMA CreateMoves ==
    ASSUME Typed, Road, current \in Requests, DeviceCreatesBuffer PROVE DeviceMoves
  <1>1. PICK pack : pack = Head(downlink)
    OBVIOUS
  <1>2. /\ UNCHANGED <<object, current>>
        /\ downlink # <<>> /\ downlink' = Tail(downlink)
        /\ pack.cmd = "DEV_CREATE_BUFFER_CMD" /\ pack \in Packs
        /\ PackPlaced(pack)
    BY <1>1, Taken DEF DeviceCreatesBuffer
  <1>3. /\ pack.len = Size /\ Size \in Nat /\ Size > 0 /\ fileSizeCounter = 0
        /\ sendDataBuffer.req # NoRequest /\ DeviceCapacity \in Nat
    BY <1>2, SizeIsNat, Bounds DEF PackPlaced, Placed, Staged
  <1>4. PICK rc \in {0, 1} :
           /\ rc = 0 <=> Size <= DeviceCapacity
           /\ DeviceAnswers("DEV_CREATE_BUFFER_CMD", rc, 0, Size)
           /\ devBuffer' = devBuffer \/ devBuffer' = [i \in 1 .. Size |-> Junk]
    BY <1>1, <1>3 DEF DeviceCreatesBuffer
  <1>5. PICK fr \in FrameType :
           /\ uplink' = Sent(uplink, fr)
           /\ fr.cmd = "DEV_CREATE_BUFFER_CMD" /\ fr.rc = rc /\ fr.off = 0 /\ fr.len = Size
    BY <1>3, <1>4, AnswerFrame DEF FrameCommands
  <1>6. Size' = Size /\ UNCHANGED <<fileSizeCounter, sendDataBuffer>>
    BY <1>2, SizeKept DEF object
  <1>7. BufferSound'
    <2>1. CASE devBuffer' = devBuffer
      BY <1>6, <2>1 DEF Road, BufferSound
    <2>2. CASE devBuffer' = [i \in 1 .. Size |-> Junk]
      <3>1. Len(devBuffer') = Size
        BY <1>3, <2>2
      <3> QED
        BY <1>6, <3>1 DEF BufferSound
    <2> QED
      BY <1>4, <2>1, <2>2
  <1>8. ~Block(fr) /\ ~Void(fr) /\ Stage(fr) = 0 /\ Stage(pack) = 0
    BY <1>2, <1>5 DEF Block, Void, Stage
  <1>9. Answering(fr)
    BY <1>1, <1>2, <1>5, <1>8 DEF Answering
  <1>10. FramePlaced(fr)'
    BY <1>3, <1>4, <1>5, <1>6 DEF FramePlaced, Placed, Staged, Void, Block
  <1> QED
    BY <1>1, <1>2, <1>5, <1>7, <1>9, <1>10 DEF DeviceMoves

\* The device writes a block: one that is in its place fits into the buffer.
LEMMA BlockMoves ==
    ASSUME Typed, Road, current \in Requests, DeviceWritesBlock PROVE DeviceMoves
  <1>1. PICK pack : pack = Head(downlink)
    OBVIOUS
  <1>2. /\ UNCHANGED <<object, current>>
        /\ downlink # <<>> /\ downlink' = Tail(downlink)
        /\ pack.cmd = "SEND_DATA_BLOCK_CMD" /\ pack \in Packs
        /\ PackPlaced(pack)
    BY <1>1, Taken DEF DeviceWritesBlock
  <1>3. /\ Block(pack) /\ Placed(pack) /\ pack.len > 0 /\ pack.len \in Nat
        /\ pack.off \in Nat /\ pack.len = Length(pack.off) /\ Position(pack.off)
        /\ pack.off < Size /\ Size <= DeviceCapacity
        /\ fileSizeCounter \in {pack.off, pack.off + Length(pack.off)}
        /\ sendDataBuffer.req # NoRequest
    BY <1>2 DEF PackPlaced, Placed, Block, Void, Packs, Staged
  <1>4. pack.off + pack.len <= Size
    BY <1>3, PositionType
  <1>5. devBuffer = <<>> \/ Len(devBuffer) = Size
    BY DEF Road, BufferSound
  <1>6. PICK rc \in {0, 4, 5} :
           /\ rc = 0 => devBuffer # <<>>
           /\ rc # 0 => devBuffer' = devBuffer /\ (rc = 4 => devBuffer # <<>>)
           /\ rc = 4 => ~(pack.off + pack.len <= Len(devBuffer))
           /\ rc = 5 => devBuffer = <<>>
           /\ rc = 0 => devBuffer' = [i \in 1 .. Len(devBuffer) |->
                                 IF pack.off < i /\ i <= pack.off + pack.len
                                 THEN pack.req ELSE devBuffer[i]]
           /\ DeviceAnswers("SEND_DATA_BLOCK_CMD", rc, pack.off,
                            IF rc = 0 THEN pack.len ELSE 0)
    BY <1>1 DEF DeviceWritesBlock
  <1>7. rc # 4
    BY <1>4, <1>5, <1>6
  <1>8. PICK fr \in FrameType :
           /\ uplink' = Sent(uplink, fr)
           /\ fr.cmd = "SEND_DATA_BLOCK_CMD" /\ fr.rc = rc /\ fr.off = pack.off
           /\ fr.len = IF rc = 0 THEN pack.len ELSE 0
    <2>1. PICK len \in Nat : len = IF rc = 0 THEN pack.len ELSE 0
      BY <1>3
    <2>2. rc \in Nat /\ DeviceAnswers("SEND_DATA_BLOCK_CMD", rc, pack.off, len)
      BY <1>6, <2>1
    <2>3. \E fr \in FrameType :
             /\ uplink' = Sent(uplink, fr)
             /\ fr.cmd = "SEND_DATA_BLOCK_CMD" /\ fr.rc = rc /\ fr.off = pack.off
             /\ fr.len = len
      BY <1>3, <2>1, <2>2, AnswerFrame DEF FrameCommands
    <2> QED
      BY <2>1, <2>3
  <1>9. /\ Size' = Size /\ UNCHANGED <<fileSizeCounter, sendDataBuffer>>
        /\ Position(pack.off)' /\ Length(pack.off)' = Length(pack.off)
    BY <1>2, <1>3, SizeKept DEF object
  <1>10. BufferSound'
    <2>1. CASE rc # 0
      BY <1>6, <1>9, <2>1 DEF Road, BufferSound
    <2>2. CASE rc = 0
      <3>1. Len(devBuffer) = Size /\ Size \in Nat
        BY <1>5, <1>6, <2>2, SizeIsNat
      <3>2. devBuffer' = [i \in 1 .. Size |->
                              IF pack.off < i /\ i <= pack.off + pack.len
                              THEN pack.req ELSE devBuffer[i]]
        BY <1>6, <2>2, <3>1
      <3>3. Len(devBuffer') = Size
        BY <3>1, <3>2
      <3> QED
        BY <1>9, <3>3 DEF BufferSound
    <2> QED
      BY <2>1, <2>2
  <1>11. devBuffer = <<>> => devBuffer' = devBuffer
    BY <1>6, <1>7
  <1>12. Answering(fr)
    <2>1. Stage(fr) = Stage(pack)
      BY <1>2, <1>8 DEF Stage
    <2>2. ~Void(fr) => devBuffer # <<>>
      BY <1>6, <1>7, <1>8 DEF Void, Block
    <2> QED
      BY <1>1, <1>2, <1>8, <2>1, <2>2 DEF Answering
  <1>13. FramePlaced(fr)'
    <2>1. fr.len \in {0, Length(pack.off)} /\ (fr.rc = 0 <=> fr.len > 0)
      BY <1>3, <1>6, <1>7, <1>8
    <2>2. Placed(fr)'
      BY <1>3, <1>8, <1>9, <2>1 DEF Placed, Staged, Block
    <2>3. Void(fr) => devBuffer' = <<>>
      BY <1>3, <1>6, <1>7, <1>8 DEF Void
    <2> QED
      BY <1>8, <2>1, <2>2, <2>3 DEF FramePlaced, Void, Block
  <1> QED
    BY <1>1, <1>2, <1>8, <1>10, <1>11, <1>12, <1>13 DEF DeviceMoves

\* The device checks its buffer.
LEMMA FinishMoves ==
    ASSUME Typed, Road, current \in Requests, DeviceFinishes PROVE DeviceMoves
  <1>1. PICK pack : pack = Head(downlink)
    OBVIOUS
  <1>2. /\ UNCHANGED <<object, current>>
        /\ downlink # <<>> /\ downlink' = Tail(downlink)
        /\ pack.cmd = "FINISH_SEND_DATA_CMD" /\ pack \in Packs
        /\ PackPlaced(pack)
    BY <1>1, Taken DEF DeviceFinishes
  <1>3. sendDataBuffer.req # NoRequest /\ fileSizeCounter = Size
    BY <1>2 DEF PackPlaced, Placed, Staged
  <1>4. PICK rc \in {0, 3, 5} :
           /\ DeviceAnswers("FINISH_SEND_DATA_CMD", rc, 0, 0)
           /\ devBuffer' \in {devBuffer, <<>>}
    BY DEF DeviceFinishes
  <1>5. PICK fr \in FrameType :
           uplink' = Sent(uplink, fr) /\ fr.cmd = "FINISH_SEND_DATA_CMD"
    BY <1>4, AnswerFrame DEF FrameCommands
  <1>6. Size' = Size /\ UNCHANGED <<fileSizeCounter, sendDataBuffer>>
    BY <1>2, SizeKept DEF object
  <1>7. BufferSound'
    BY <1>4, <1>6 DEF Road, BufferSound
  <1>8. Stage(fr) = Stage(pack)
    BY <1>2, <1>5 DEF Stage
  <1>9. Answering(fr)
    BY <1>1, <1>2, <1>5, <1>8 DEF Answering, Block
  <1>10. FramePlaced(fr)'
    BY <1>3, <1>5, <1>6 DEF FramePlaced, Placed, Staged, Void, Block
  <1> QED
    BY <1>1, <1>2, <1>4, <1>5, <1>7, <1>9, <1>10 DEF DeviceMoves

\* Whatever happens outside of the converter keeps the strengthening.
LEMMA OutsideKeepsQuiet ==
    ASSUME Typed, Typed', Quiet, alreadySent => current \in Requests,
           Lose \/ DeviceStep \/ DeviceReboots
    PROVE  Quiet'
  <1>1. UNCHANGED object
    BY DEF Lose, DeviceStep, DeviceReboots, DeviceWritesPackage, DeviceCreatesBuffer,
           DeviceWritesBlock, DeviceFinishes, DeviceReplies, DeviceTakesAck, DeviceTakes,
           ConverterIdle
  <1>2. SUFFICES ASSUME alreadySent PROVE Quiet'
    BY <1>1 DEF Quiet, object
  <1>3. Road /\ current \in Requests
    BY <1>2 DEF Quiet
  <1>4. DeviceMoves
    <2>1. CASE Lose
      BY <1>3, <2>1, ElsewhereMoves DEF Lose, device
    <2>2. CASE DeviceWritesPackage
      BY <1>3, <2>2, ElsewhereMoves DEF DeviceWritesPackage, DeviceTakes
    <2>3. CASE DeviceTakesAck
      BY <1>3, <2>3, ElsewhereMoves DEF DeviceTakesAck, DeviceTakes
    <2> QED
      BY <1>3, <2>1, <2>2, <2>3, CreateMoves, BlockMoves, FinishMoves, OwnReplyMoves,
         RebootMoves DEF DeviceStep
  <1> QED
    BY <1>4, DeviceKeepsQuiet

-----------------------------------------------------------------------------
(* The converter: what it leaves on the road.                              *)

\* A step of the converter within a session.
Working ==
    /\ Transmit
    /\ UNCHANGED <<current, device, sendDataBuffer>>
    /\ uplink' = uplink \/ (uplink # <<>> /\ uplink' = Tail(uplink))

\* What such a step finds.
InSession ==
    /\ alive /\ current \in Requests
    /\ errorCounter \in 0 .. RetryCount - 1
    /\ idleTimer # Stopped
    /\ Road /\ Budget /\ Patience

\* The paths after a step of the converter.
LEMMA WorkingPaths ==
    ASSUME Typed, Typed', Working
    PROVE  /\ sendLoraPack' \in Packs
           /\ downlink' = downlink \/ downlink' = Sent(downlink, sendLoraPack')
           /\ sendLoraPack' = NoPack => downlink' = downlink
           /\ Items(downlink') \subseteq Items(downlink) \cup {sendLoraPack'}
           /\ Items(uplink') \subseteq Items(uplink)
           /\ UNCHANGED <<current, devBuffer, sendDataBuffer>>
           /\ Size' = Size
  <1>1. sendLoraPack' \in Packs /\ TypeOK'
    BY DEF Typed, TransferTypeOK, TypeOK
  <1>2. /\ downlink' = downlink \/ downlink' = Sent(downlink, sendLoraPack')
        /\ sendLoraPack' = NoPack => downlink' = downlink
        /\ UNCHANGED <<current, devBuffer, sendDataBuffer>>
    BY DEF Working, Transmit, device
  <1>3. Items(downlink') \subseteq Items(downlink) \cup {sendLoraPack'}
    BY <1>1, Emitted DEF Working
  <1>4. Items(uplink') \subseteq Items(uplink)
    BY RoadTypes, TailItems DEF Working
  <1> QED
    BY <1>1, <1>2, <1>3, <1>4, SizeKept

\* The order after a step in which a packet may be sent.
LEMMA WorkingAlong ==
    ASSUME Typed, Typed', Working, Road, current \in Requests,
           \/ lastLp' = sendLoraPack'
              /\ \A item \in Items(uplink') \cup Items(downlink) :
                    NotBehind(item, sendLoraPack')
           \/ lastLp' = lastLp /\ sendLoraPack' \in {NoPack, lastLp}
    PROVE  Along(uplink, downlink, lastLp)'
  <1>1. /\ downlink \in Seq(Packs) /\ Len(downlink) <= MaxInFlight
        /\ uplink \in Seq(FrameType) /\ Len(uplink) <= MaxInFlight
        /\ Items(downlink) \subseteq Sendable
    BY RoadTypes
  <1>2. Along(uplink', downlink, lastLp)
    BY <1>1, AlongUp DEF Working, Road
  <1>3. \A other \in Items(downlink) : ~Void(other)
    BY <1>1 DEF Road, PackPlaced
  <1>4. CASE lastLp' = lastLp /\ downlink' = downlink
    BY <1>2, <1>4, AlongAfter, WorkingPaths
  <1>5. CASE lastLp' = sendLoraPack' /\ downlink' = downlink
             /\ \A item \in Items(uplink') \cup Items(downlink) :
                    NotBehind(item, sendLoraPack')
    <2>1. Along(uplink', downlink, sendLoraPack')
      BY <1>2, <1>5 DEF Along
    <2> QED
      BY <1>5, <2>1, AlongAfter, WorkingPaths
  <1>6. CASE lastLp' = sendLoraPack' /\ downlink' = Sent(downlink, sendLoraPack')
             /\ \A item \in Items(uplink') \cup Items(downlink) :
                    NotBehind(item, sendLoraPack')
    <2>1. PICK pack \in Packs : pack = sendLoraPack'
      BY WorkingPaths
    <2>2. Along(uplink', Sent(downlink, pack), pack)
      BY <1>1, <1>2, <1>3, <1>6, <2>1, AlongSent
    <2> QED
      BY <1>6, <2>1, <2>2, AlongAfter, WorkingPaths
  <1>7. CASE lastLp' = lastLp /\ sendLoraPack' = lastLp
             /\ downlink' = Sent(downlink, sendLoraPack')
    <2>1. lastLp \in Packs /\ \A item \in Items(uplink') \cup Items(downlink) :
                                   NotBehind(item, lastLp)
      BY <1>2, RoadTypes DEF Along
    <2>2. Along(uplink', Sent(downlink, lastLp), lastLp)
      BY <1>1, <1>2, <1>3, <2>1, AlongSent
    <2> QED
      BY <1>7, <2>2, AlongAfter, WorkingPaths
  <1> QED
    BY <1>4, <1>5, <1>6, <1>7, WorkingPaths

\* The counter stays where it is, and nothing new of the sending half is sent.
LEMMA RoadSame ==
    ASSUME Typed, Typed', Working, Road, current \in Requests, UNCHANGED fileSizeCounter,
           \/ lastLp' = lastLp /\ sendLoraPack' \in {NoPack, lastLp}
           \/ lastLp' = sendLoraPack' /\ sendLoraPack'.cmd \notin Staged
    PROVE  Road'
  <1>1. /\ sendLoraPack' \in Packs
        /\ Items(downlink') \subseteq Items(downlink) \cup {sendLoraPack'}
        /\ Items(uplink') \subseteq Items(uplink)
        /\ UNCHANGED <<current, devBuffer, sendDataBuffer>>
        /\ Size' = Size
    BY WorkingPaths
  <1>2. sendLoraPack'.cmd \notin Staged => PackPlaced(sendLoraPack')
    BY DEF PackPlaced, Placed, Void, Block, Staged
  <1>3. NoPack.cmd \notin Staged
    BY DEF NoPack, Pack, Staged
  <1>4. \A pack \in Sendable' : PackPlaced(pack)
    <2>1. PackPlaced(lastLp) /\ \A pack \in Items(downlink) : PackPlaced(pack)
      BY RoadTypes DEF Road
    <2>2. PackPlaced(sendLoraPack') /\ PackPlaced(lastLp')
      BY <1>2, <1>3, <2>1
    <2> QED
      BY <1>1, <2>1, <2>2, SetsAfter
  <1>5. \A pack \in Sendable' : PackPlaced(pack)'
    BY <1>1, <1>4, PlaceKept
  <1>6. \A fr \in Items(uplink)' : FramePlaced(fr)'
    <2>1. \A fr \in Items(uplink') : FramePlaced(fr) /\ (Void(fr) => devBuffer' = <<>>)
      BY <1>1 DEF Road, FramePlaced
    <2> QED
      BY <1>1, <2>1, PlaceKept, SetsAfter
  <1>7. sendLoraPack'.cmd \notin Staged =>
           /\ ~Block(sendLoraPack')
           /\ \A item : NotBehind(item, sendLoraPack')
    BY DEF Block, Staged, NotBehind
  <1>8. CounterPlaced'
    <2>1. Block(lastLp') => lastLp'.off = fileSizeCounter
      BY <1>7 DEF Road, CounterPlaced
    <2>2. \A o : Position(o)' <=> Position(o)
      BY <1>1 DEF Position
    <2> QED
      BY <1>1, <2>1, <2>2 DEF Road, CounterPlaced, Block
  <1>9. Along(uplink, downlink, lastLp)'
    BY <1>7, WorkingAlong
  <1>10. BufferSound'
    BY <1>1 DEF Road, BufferSound
  <1> QED
    BY <1>5, <1>6, <1>8, <1>9, <1>10 DEF Road

\* What is in its place comes before the packet a session stands at.
LEMMA BehindAll ==
    ASSUME current \in Requests, NEW item, NEW pack, NEW pos,
           item.cmd = "DEV_CREATE_BUFFER_CMD" => pos = 0,
           Block(item) => /\ Position(item.off) /\ item.off < Size
                          /\ pos \in {item.off, item.off + Length(item.off)},
           item.cmd = "FINISH_SEND_DATA_CMD" => pos = Size,
           \/ Block(pack) /\ pack.off = pos /\ pos \in Nat /\ pos < Size
           \/ pack.cmd = "FINISH_SEND_DATA_CMD" /\ pos = Size
    PROVE  NotBehind(item, pack)
  <1>1. Size \in Nat /\ Size > 0 /\ pos \in Nat
    BY SizeIsNat
  <1>2. Stage(pack) = IF Block(pack) THEN pos + 1 ELSE Size + 2
    BY DEF Stage, Block
  <1>3. CASE item.cmd = "DEV_CREATE_BUFFER_CMD"
    <2>1. Stage(item) = 0 /\ pos = 0
      BY <1>3 DEF Stage
    <2> QED
      BY <1>1, <1>2, <2>1 DEF NotBehind
  <1>4. CASE Block(item)
    <2>1. /\ Stage(item) = item.off + 1 /\ item.off \in Nat /\ Length(item.off) \in Nat
          /\ pos \in {item.off, item.off + Length(item.off)}
          /\ item.off < Size
      BY <1>4, PositionType DEF Stage, Block
    <2> QED
      BY <1>1, <1>2, <2>1 DEF NotBehind
  <1>5. CASE item.cmd = "FINISH_SEND_DATA_CMD"
    <2>1. Stage(item) = Size + 2 /\ pos = Size
      BY <1>5 DEF Stage
    <2> QED
      BY <1>1, <1>2, <2>1 DEF NotBehind, Block
  <1> QED
    BY <1>3, <1>4, <1>5 DEF NotBehind, Staged, Block

\* The session goes to a position and sends what belongs there.
Forward(pos) ==
    /\ sendDataBuffer.req # NoRequest /\ Size <= DeviceCapacity
    /\ Position(pos) /\ fileSizeCounter' = pos
    /\ lastLp' = sendLoraPack'
    /\ \/ /\ pos < Size
          /\ sendLoraPack' = Pack("SEND_DATA_BLOCK_CMD", current, pos, Length(pos))
       \/ pos = Size /\ sendLoraPack'.cmd = "FINISH_SEND_DATA_CMD"

\* So it does with the place of everything else still right.
LEMMA RoadOn ==
    ASSUME Typed, Typed', Working, Road, current \in Requests, NEW pos, Forward(pos),
           \A item \in Items(uplink') \cup Items(downlink) : Placed(item)'
    PROVE  Road'
  <1>1. /\ sendLoraPack' \in Packs
        /\ Items(downlink') \subseteq Items(downlink) \cup {sendLoraPack'}
        /\ Items(uplink') \subseteq Items(uplink)
        /\ UNCHANGED <<current, devBuffer, sendDataBuffer>>
        /\ Size' = Size
    BY WorkingPaths
  <1>2. /\ \A o : Position(o)' <=> Position(o)
        /\ \A o : Length(o)' = Length(o)
    BY <1>1 DEF Position, Length
  <1>3. /\ Size \in Nat /\ pos \in Nat /\ Length(pos) \in Nat
        /\ pos < Size => Length(pos) > 0
    <2>1. Size \in Nat /\ pos \in Nat /\ Length(pos) \in Nat
      BY SizeIsNat, PositionType DEF Forward
    <2>2. pos < Size => Length(pos) > 0
      BY <2>1, Parameters DEF Length
    <2> QED
      BY <2>1, <2>2
  <1>13. PICK pack \in Packs : pack = sendLoraPack'
    BY <1>1
  <1>4. \/ /\ pos < Size /\ Block(pack)
           /\ pack.off = pos /\ pack.len = Length(pos)
        \/ pos = Size /\ pack.cmd = "FINISH_SEND_DATA_CMD"
    BY <1>13 DEF Forward, Block, Pack
  <1>5. PackPlaced(pack)'
    <2>1. Placed(pack)'
      <3>1. CASE pos < Size /\ Block(pack)
                 /\ pack.off = pos /\ pack.len = Length(pos)
        BY <1>1, <1>2, <3>1 DEF Placed, Block, Forward
      <3>2. CASE pos = Size /\ pack.cmd = "FINISH_SEND_DATA_CMD"
        BY <1>1, <3>2 DEF Placed, Block, Forward
      <3> QED
        BY <1>4, <3>1, <3>2
    <2>2. ~Void(pack) /\ pack.cmd # "DEV_CREATE_BUFFER_CMD"
      BY <1>3, <1>4 DEF Void, Block
    <2> QED
      BY <2>1, <2>2 DEF PackPlaced, Void, Block
  <1>6. \A other \in Items(downlink) : PackPlaced(other)'
    <2>1. \A other \in Items(downlink) : PackPlaced(other)
      BY RoadTypes DEF Road
    <2> QED
      BY <1>1, <2>1 DEF PackPlaced, Void, Block
  <1>7. \A other \in Sendable' : PackPlaced(other)'
    <2>1. Sendable' \subseteq Items(downlink) \cup {pack}
      BY <1>1, <1>13, SetsAfter DEF Forward
    <2> QED
      BY <1>5, <1>6, <2>1
  <1>8. \A fr \in Items(uplink)' : FramePlaced(fr)'
    <2>1. \A fr \in Items(uplink') : FramePlaced(fr)
      BY <1>1 DEF Road
    <2> QED
      BY <1>1, <2>1, SetsAfter DEF FramePlaced, Void, Block
  <1>9. CounterPlaced'
    <2>1. Block(lastLp)' => lastLp'.off = fileSizeCounter'
      BY <1>4, <1>13 DEF Forward, Block
    <2> QED
      BY <1>1, <1>2, <2>1 DEF Road, CounterPlaced, Forward, Block
  <1>10. \A item \in Items(uplink') \cup Items(downlink) : NotBehind(item, pack)
    <2>1. SUFFICES ASSUME NEW item \in Items(uplink') \cup Items(downlink)
                   PROVE  NotBehind(item, pack)
      OBVIOUS
    <2>2. Placed(item)'
      OBVIOUS
    <2>3. /\ item.cmd = "DEV_CREATE_BUFFER_CMD" => pos = 0
          /\ Block(item) => /\ Position(item.off) /\ item.off < Size
                            /\ pos \in {item.off, item.off + Length(item.off)}
          /\ item.cmd = "FINISH_SEND_DATA_CMD" => pos = Size
      BY <1>1, <1>2, <2>2 DEF Placed, Block, Forward
    <2>4. \/ Block(pack) /\ pack.off = pos /\ pos \in Nat /\ pos < Size
          \/ pack.cmd = "FINISH_SEND_DATA_CMD" /\ pos = Size
      BY <1>3, <1>4
    <2> QED
      BY <2>3, <2>4, BehindAll
  <1>11. Along(uplink, downlink, lastLp)'
    BY <1>10, <1>13, WorkingAlong DEF Forward
  <1>12. BufferSound'
    BY <1>1 DEF Road, BufferSound
  <1> QED
    BY <1>7, <1>8, <1>9, <1>11, <1>12 DEF Road

\* The packet of a position.
LEMMA FollowsUp ==
    ASSUME Typed, Road, current \in Requests, sendDataBuffer.req # NoRequest,
           NEW pos, Position(pos), NEW rc, NEW len, Counts(rc, len)
    PROVE  /\ pos < Size => DataBlock(pos) =
                  Pack("SEND_DATA_BLOCK_CMD", current, pos, Length(pos))
           /\ pos < Size => FollowUp(rc, len, pos) = DataBlock(pos)
           /\ pos = Size => FollowUp(rc, len, pos).cmd = "FINISH_SEND_DATA_CMD"
  <1>1. sendDataBuffer.size = Size /\ sendDataBuffer.req = current /\ Size < U16
    BY DEF Road, CounterPlaced
  <1>2. pos \in Nat /\ pos <= Size /\ Size \in Nat /\ BlockSize \in Nat \ {0}
        /\ U16 \in Nat
    BY SizeIsNat, PositionType, Parameters
  <1>3. pos % U16 = pos
    BY <1>1, <1>2, NoWrap
  <1>4. (IF BlockSize <= Size - pos THEN BlockSize
         ELSE IF Size - pos > 0 THEN Size - pos ELSE 0) = Length(pos)
    BY <1>2 DEF Length
  <1>5. DataBlock(pos) = Pack("SEND_DATA_BLOCK_CMD", current, pos, Length(pos))
    BY <1>1, <1>3, <1>4 DEF DataBlock
  <1>6. pos < Size => pos # sendDataBuffer.size
    BY <1>1, <1>2
  <1> QED
    BY <1>1, <1>5, <1>6 DEF FollowUp, CheckBuffer, Pack

\* What an answer to a block in its place does.
LEMMA AnswerKinds ==
    ASSUME Typed, Road, current \in Requests, NEW fr \in FrameType, Block(fr), FramePlaced(fr)
    PROVE  /\ Counts(fr.rc, fr.len)
           /\ fileSizeCounter \in Nat /\ fr.off \in Nat /\ fr.off < Size
           /\ sendDataBuffer.req # NoRequest /\ Size <= DeviceCapacity
           /\ Position(fileSizeCounter)
           /\ fr.len > 0 => /\ fr.len = Length(fr.off)
                            /\ Position(fr.off) /\ Position(fr.off + fr.len)
           /\ fr.len > 0 /\ Repeats(fr.rc, fr.off, fr.len) =>
                  fileSizeCounter = fr.off + fr.len
           /\ fr.len > 0 /\ ~Repeats(fr.rc, fr.off, fr.len) =>
                  /\ Confirms(fr.rc, fr.off, fr.len) /\ fileSizeCounter = fr.off
           /\ fr.len = 0 => ~Repeats(fr.rc, fr.off, fr.len)
  <1>1. /\ Placed(fr) /\ (fr.rc = 0 <=> fr.len > 0)
        /\ fr.len \in Nat /\ fr.off \in Nat /\ fr.rc \in Nat
    BY DEF FramePlaced, FrameType
  <1>2. /\ sendDataBuffer.req # NoRequest /\ Size <= DeviceCapacity
        /\ Position(fr.off) /\ fr.off < Size /\ fr.len \in {0, Length(fr.off)}
        /\ fileSizeCounter \in {fr.off, fr.off + Length(fr.off)}
    BY <1>1 DEF Placed, Staged, Block
  <1>3. sendDataBuffer.size = Size /\ Size < U16 /\ Position(fileSizeCounter)
    BY <1>2 DEF Road, CounterPlaced
  <1>4. Size \in Nat /\ Length(fr.off) \in Nat /\ fr.off + Length(fr.off) <= Size
        /\ fileSizeCounter \in Nat /\ U16 \in Nat
    BY <1>2, <1>3, SizeIsNat, PositionType, Parameters
  <1>5. Counts(fr.rc, fr.len)
    BY <1>1 DEF Counts
  <1>6. Reached(fr.off, fr.len) = fr.off + fr.len
    <2>1. fr.off + fr.len \in Nat /\ fr.off + fr.len < U16
      BY <1>1, <1>2, <1>3, <1>4
    <2> QED
      BY <2>1, NoWrap DEF Reached
  <1>7. ASSUME fr.len > 0
        PROVE  /\ fr.len = Length(fr.off) /\ Position(fr.off + fr.len)
               /\ Repeats(fr.rc, fr.off, fr.len) => fileSizeCounter = fr.off + fr.len
               /\ ~Repeats(fr.rc, fr.off, fr.len) =>
                     /\ Confirms(fr.rc, fr.off, fr.len) /\ fileSizeCounter = fr.off
    <2>1. fr.len = Length(fr.off) /\ Position(fr.off + fr.len)
      BY <1>1, <1>2, <1>7, NextPosition
    <2>2. Repeats(fr.rc, fr.off, fr.len) <=> fileSizeCounter = fr.off + fr.len
      BY <1>1, <1>2, <1>4, <1>5, <1>6, <1>7, <2>1 DEF Repeats
    <2>3. fileSizeCounter = fr.off + fr.len \/ fileSizeCounter = fr.off
      BY <1>2, <2>1
    <2>4. fileSizeCounter = fr.off => Confirms(fr.rc, fr.off, fr.len)
      BY <1>1, <1>4, <1>5, <1>6, <1>7, <2>2 DEF Confirms
    <2> QED
      BY <2>1, <2>2, <2>3, <2>4
  <1>8. fr.len = 0 => ~Repeats(fr.rc, fr.off, fr.len)
    BY <1>1, <1>4, <1>6 DEF Repeats
  <1> QED
    BY <1>1, <1>2, <1>3, <1>4, <1>5, <1>7, <1>8

-----------------------------------------------------------------------------
(* The converter: what it puts on the air.                                 *)

\* One packet more at most, and one item less if it was heard.
LEMMA AirSent ==
    ASSUME NEW up \in Seq(FrameType), NEW down \in Seq(Packs), NEW live \in BOOLEAN,
           NEW up2 \in Seq(FrameType), NEW down2 \in Seq(Packs), NEW live2 \in BOOLEAN,
           NEW pack \in Packs, NEW S, live2 => live,
           down2 = down \/ down2 = Sent(down, pack),
           up2 = up \/ (up # <<>> /\ up2 = Tail(up))
    PROVE  /\ Air(up2, down2, live2, S) <= Air(up, down, live, S) + 1
           /\ pack \notin S => Air(up2, down2, live2, S) <= Air(up, down, live, S)
           /\ pack \notin S /\ up # <<>> /\ up2 = Tail(up) /\ Head(up) \in S =>
                  Air(up2, down2, live2, S) + 1 <= Air(up, down, live, S)
  <1>1. PICK a \in Nat, b \in Nat, c \in Nat, d \in Nat :
           /\ a = Count(up, S) /\ b = Count(down, S)
           /\ c = Count(up2, S) /\ d = Count(down2, S)
    BY CountType
  <1>2. d <= b + 1 /\ (pack \notin S => d <= b)
    <2>1. CASE down2 = down
      BY <1>1, <2>1
    <2>2. CASE down2 = Sent(down, pack)
      <3>1. d <= b + (IF pack \in S THEN 1 ELSE 0)
        BY <1>1, <2>2, CountSent
      <3> QED
        BY <3>1
    <2> QED
      BY <2>1, <2>2
  <1>3. c <= a /\ (up # <<>> /\ up2 = Tail(up) /\ Head(up) \in S => c + 1 = a)
    <2>1. up # <<>> /\ up2 = Tail(up) => a = c + (IF Head(up) \in S THEN 1 ELSE 0)
      BY <1>1, CountTail
    <2>2. CASE up # <<>> /\ up2 = Tail(up)
      BY <2>1, <2>2
    <2>3. CASE ~(up # <<>> /\ up2 = Tail(up))
      BY <1>1, <2>3
    <2> QED
      BY <2>2, <2>3
  <1>4. /\ Air(up, down, live, S) = a + (IF live THEN b ELSE 0)
        /\ Air(up2, down2, live2, S) = c + (IF live2 THEN d ELSE 0)
    BY <1>1 DEF Air
  <1> QED
    BY <1>2, <1>3, <1>4

\* Nothing is on the air.
LEMMA AirNone ==
    ASSUME NEW up, NEW down, NEW live \in BOOLEAN, NEW S,
           \A item \in Items(up) : item \notin S,
           live => \A item \in Items(down) : item \notin S
    PROVE  Air(up, down, live, S) = 0
  <1>1. Count(up, S) = 0 /\ (live => Count(down, S) = 0)
    BY CountNone
  <1> QED
    BY <1>1 DEF Air

\* What counts here counts there.
LEMMA AirMore ==
    ASSUME NEW up \in Seq(FrameType), NEW down \in Seq(Packs), NEW live \in BOOLEAN,
           NEW S, NEW U,
           \A item \in Items(up) \cup Items(down) : item \in S => item \in U
    PROVE  Air(up, down, live, S) <= Air(up, down, live, U)
  <1>1. PICK a \in Nat, b \in Nat, c \in Nat, d \in Nat :
           /\ a = Count(up, S) /\ b = Count(down, S)
           /\ c = Count(up, U) /\ d = Count(down, U)
    BY CountType
  <1>2. a <= c /\ b <= d
    BY <1>1, CountMore
  <1> QED
    BY <1>1, <1>2 DEF Air

\* Unless a create is sent, the buffer is there only if it was to be.
LEMMA LiveSent ==
    ASSUME Typed, Typed', Working, sendLoraPack'.cmd # "DEV_CREATE_BUFFER_CMD"
    PROVE  Live' => Live
  <1>1. /\ Items(downlink') \subseteq Items(downlink) \cup {sendLoraPack'}
        /\ UNCHANGED devBuffer
    BY WorkingPaths
  <1>2. Items(downlink)' = Items(downlink')
    BY SetsAfter
  <1>3. sendLoraPack' \notin CreateItems
    BY DEF CreateItems
  <1> QED
    BY <1>1, <1>2, <1>3 DEF Live

\* A step of the converter in these terms.
LEMMA WorkingAir ==
    ASSUME Typed, Typed', Working, sendLoraPack'.cmd # "DEV_CREATE_BUFFER_CMD", NEW S
    PROVE  /\ Air(uplink', downlink', Live', S) <= Air(uplink, downlink, Live, S) + 1
           /\ sendLoraPack' \notin S =>
                  Air(uplink', downlink', Live', S) <= Air(uplink, downlink, Live, S)
           /\ sendLoraPack' \notin S /\ uplink # <<>> /\ uplink' = Tail(uplink)
                  /\ Head(uplink) \in S =>
                  Air(uplink', downlink', Live', S) + 1 <= Air(uplink, downlink, Live, S)
  <1>1. /\ uplink \in Seq(FrameType) /\ downlink \in Seq(Packs) /\ Live \in BOOLEAN
        /\ uplink' \in Seq(FrameType) /\ downlink' \in Seq(Packs) /\ Live' \in BOOLEAN
    BY RoadTypes, NumbersAfter
  <1>2. /\ sendLoraPack' \in Packs
        /\ downlink' = downlink \/ downlink' = Sent(downlink, sendLoraPack')
        /\ Live' => Live
        /\ uplink' = uplink \/ (uplink # <<>> /\ uplink' = Tail(uplink))
    BY WorkingPaths, LiveSent DEF Working
  <1>3. PICK up2, down2, live2, pack :
           up2 = uplink' /\ down2 = downlink' /\ live2 = Live' /\ pack = sendLoraPack'
    OBVIOUS
  <1>4. /\ up2 \in Seq(FrameType) /\ down2 \in Seq(Packs) /\ live2 \in BOOLEAN
        /\ pack \in Packs /\ (live2 => Live)
        /\ down2 = downlink \/ down2 = Sent(downlink, pack)
        /\ up2 = uplink \/ (uplink # <<>> /\ up2 = Tail(uplink))
    BY <1>1, <1>2, <1>3, Zenon
  <1>5. /\ Air(up2, down2, live2, S) <= Air(uplink, downlink, Live, S) + 1
        /\ pack \notin S => Air(up2, down2, live2, S) <= Air(uplink, downlink, Live, S)
        /\ pack \notin S /\ uplink # <<>> /\ up2 = Tail(uplink) /\ Head(uplink) \in S =>
               Air(up2, down2, live2, S) + 1 <= Air(uplink, downlink, Live, S)
    BY <1>1, <1>4, AirSent, Zenon
  <1> QED
    BY <1>3, <1>5, Zenon

\* And so for the create requests.
LEMMA WorkingCreates ==
    ASSUME Typed, Typed', Working
    PROVE  /\ Creates' <= Creates + 1
           /\ sendLoraPack' \notin CreateItems => Creates' <= Creates
           /\ sendLoraPack' \notin CreateItems /\ uplink # <<>> /\ uplink' = Tail(uplink)
                  /\ Head(uplink) \in CreateItems => Creates' + 1 <= Creates
  <1>1. /\ uplink \in Seq(FrameType) /\ downlink \in Seq(Packs)
        /\ uplink' \in Seq(FrameType) /\ downlink' \in Seq(Packs)
    BY RoadTypes, NumbersAfter
  <1>2. /\ sendLoraPack' \in Packs
        /\ downlink' = downlink \/ downlink' = Sent(downlink, sendLoraPack')
        /\ uplink' = uplink \/ (uplink # <<>> /\ uplink' = Tail(uplink))
    BY WorkingPaths DEF Working
  <1>3. PICK up2, down2, pack :
           up2 = uplink' /\ down2 = downlink' /\ pack = sendLoraPack'
    OBVIOUS
  <1>4. /\ up2 \in Seq(FrameType) /\ down2 \in Seq(Packs) /\ pack \in Packs
        /\ down2 = downlink \/ down2 = Sent(downlink, pack)
        /\ up2 = uplink \/ (uplink # <<>> /\ up2 = Tail(uplink))
    BY <1>1, <1>2, <1>3, Zenon
  <1>5. /\ Air(up2, down2, TRUE, CreateItems) <= Air(uplink, downlink, TRUE, CreateItems) + 1
        /\ pack \notin CreateItems =>
               Air(up2, down2, TRUE, CreateItems) <= Air(uplink, downlink, TRUE, CreateItems)
        /\ pack \notin CreateItems /\ uplink # <<>> /\ up2 = Tail(uplink)
               /\ Head(uplink) \in CreateItems =>
               Air(up2, down2, TRUE, CreateItems) + 1 <=
                   Air(uplink, downlink, TRUE, CreateItems)
    BY <1>1, <1>4, AirSent
  <1>6. Creates' = Air(up2, down2, TRUE, CreateItems)
    BY <1>3 DEF Creates
  <1> QED
    BY <1>3, <1>5, <1>6 DEF Creates

\* The strengthening in numbers, before a step.
LEMMA Figures ==
    ASSUME Typed
    PROVE  \E p \in Nat, l \in Nat, c \in Nat, q \in Nat, e \in Int, m \in Nat :
              /\ p = Present /\ l = Late /\ c = Creates /\ q = Promised
              /\ e = errorCounter /\ m = MostBlocks
  <1>1. /\ Present \in Nat /\ Late \in Nat /\ Creates \in Nat /\ Promised \in Nat
        /\ errorCounter \in Int /\ MostBlocks \in Nat
    BY Numbers
  <1> QED
    BY <1>1, Zenon

\* And after it.
LEMMA FiguresAfter ==
    ASSUME Typed'
    PROVE  \E p \in Nat, l \in Nat, c \in Nat, q \in Nat, e \in Int :
              /\ p = Present' /\ l = Late' /\ c = Creates' /\ q = Promised'
              /\ e = errorCounter'
  <1>1. /\ Present' \in Nat /\ Late' \in Nat /\ Creates' \in Nat /\ Promised' \in Nat
        /\ errorCounter' \in Int
    BY NumbersAfter
  <1> QED
    BY <1>1, Zenon

\* The budget of the next state.
LEMMA BudgetAfter ==
    ASSUME Typed', NEW p \in Nat, NEW l \in Nat, NEW c \in Nat, NEW q \in Nat, NEW e \in Int,
           NEW m \in Nat, m = MostBlocks,
           p = Present', l = Late', c = Creates', q = Promised', e = errorCounter',
           p + q + (RetryCount - 1 - e) <= m,
           lastLp'.cmd = "DEV_CREATE_BUFFER_CMD" => c <= e + 1,
           l <= m - 1
    PROVE  Budget'
  <1>1. MostBlocks' = m
    BY NumbersAfter
  <1> QED
    BY <1>1 DEF Budget

\* A new packet starts both timers, which is never too early.
LEMMA Renewed ==
    ASSUME Typed, Typed', Budget', errorCounter' >= 0,
           waitTimer' = AnswerTimeout, idleTimer' = IdleTimeout
    PROVE  Patience'
  <1>1. Late' <= MostBlocks - 1
    <2>1. MostBlocks' = MostBlocks
      BY NumbersAfter
    <2> QED
      BY <2>1 DEF Budget
  <1>2. AnswerTimeout <= Allowance'
    BY <1>1, AllowanceAfter
  <1>3. waitTimer' # Stopped
    BY Parameters
  <1>4. (IdleTimeout - idleTimer') + waitTimer' = AnswerTimeout
    BY Parameters
  <1> QED
    BY <1>2, <1>3, <1>4 DEF Patience

-----------------------------------------------------------------------------
(* The converter: its steps.                                               *)

\* Where no packet of the first two stages is sent, nothing is added.
LEMMA NothingAdded ==
    ASSUME Typed, Typed', Working, UNCHANGED fileSizeCounter,
           sendLoraPack'.cmd \notin {"DEV_CREATE_BUFFER_CMD", "SEND_DATA_BLOCK_CMD"}
    PROVE  /\ Present' <= Present /\ Late' <= Late /\ Creates' <= Creates
           /\ Promised' <= Promised
           /\ uplink # <<>> /\ uplink' = Tail(uplink)
                  /\ Head(uplink) \in BlocksAt(0 .. fileSizeCounter - 1) => Late' + 1 <= Late
  <1>1. /\ \A P : sendLoraPack' \notin BlocksAt(P)
        /\ sendLoraPack' \notin CreateItems
    BY DEF BlocksAt, Block, CreateItems
  <1>2. Creates' <= Creates
    BY <1>1, WorkingCreates
  <1>3. Promised' <= Promised
    BY <1>2, PromisedLess
  <1>4. Present' <= Present
    <2>1. Air(uplink', downlink', Live', BlocksAt({fileSizeCounter})) <=
          Air(uplink, downlink, Live, BlocksAt({fileSizeCounter}))
      BY <1>1, WorkingAir
    <2> QED
      BY <2>1 DEF Present, OnAir
  <1>5. /\ Late' <= Late
        /\ uplink # <<>> /\ uplink' = Tail(uplink)
              /\ Head(uplink) \in BlocksAt(0 .. fileSizeCounter - 1) => Late' + 1 <= Late
    <2> DEFINE S == BlocksAt(0 .. fileSizeCounter - 1)
    <2>1. /\ Air(uplink', downlink', Live', S) <= Air(uplink, downlink, Live, S)
          /\ uplink # <<>> /\ uplink' = Tail(uplink) /\ Head(uplink) \in S =>
                Air(uplink', downlink', Live', S) + 1 <= Air(uplink, downlink, Live, S)
      BY <1>1, WorkingAir
    <2>2. /\ Late = Air(uplink, downlink, Live, S)
          /\ Late' = Air(uplink', downlink', Live', S)
      BY DEF Late, OnAir
    <2> QED
      BY <2>1, <2>2
  <1> QED
    BY <1>2, <1>3, <1>4, <1>5

\* No block is on its way once the check is answered, or the buffer refused.
LEMMA NoneBehind ==
    ASSUME Typed, Road, current \in Requests, uplink # <<>>, uplink' = Tail(uplink),
           NEW fr, fr = Head(uplink),
           \/ fr.cmd = "FINISH_SEND_DATA_CMD"
           \/ fr.cmd = "DEV_CREATE_BUFFER_CMD" /\ fr.rc # 0
    PROVE  \A item \in Items(uplink') \cup Items(downlink) : ~Block(item)
  <1>1. /\ Items(uplink') \subseteq Items(uplink) /\ fr \in Items(uplink)
        /\ \A other \in Items(uplink') : NotBehind(fr, other)
        /\ \A other \in Items(downlink) : NotBehind(fr, other)
    BY RoadTypes, TailItems, TailInOrder DEF Road, Along
  <1>2. \A item \in Items(uplink') \cup Items(downlink) : Placed(item)
    BY <1>1, RoadTypes DEF Road, FramePlaced, PackPlaced
  <1>3. FramePlaced(fr)
    BY <1>1 DEF Road
  <1>4. SUFFICES ASSUME NEW item \in Items(uplink') \cup Items(downlink), Block(item)
                 PROVE  FALSE
    OBVIOUS
  <1>5. /\ Position(item.off) /\ item.off < Size /\ Size <= DeviceCapacity
    BY <1>2, <1>4 DEF Placed
  <1>6. item.off \in Nat /\ Size \in Nat
    BY <1>5, PositionType, SizeIsNat
  <1>7. CASE fr.cmd = "FINISH_SEND_DATA_CMD"
    <2>1. Stage(fr) = Size + 2 /\ Stage(item) = item.off + 1
      BY <1>4, <1>7 DEF Stage, Block
    <2>2. Stage(fr) <= Stage(item)
      BY <1>1, <1>4, <1>7 DEF NotBehind, Staged, Block
    <2> QED
      BY <1>5, <1>6, <2>1, <2>2
  <1>8. CASE fr.cmd = "DEV_CREATE_BUFFER_CMD" /\ fr.rc # 0
    BY <1>3, <1>5, <1>8 DEF FramePlaced
  <1> QED
    BY <1>7, <1>8

\* A step that sends nothing and keeps what the timers look at.
LEMMA SilentQuiet ==
    ASSUME Typed, Typed', InSession, Working, sendLoraPack' = NoPack,
           UNCHANGED <<fileSizeCounter, errorCounter, lastLp>>
    PROVE  /\ Road' /\ Budget'
           /\ Items(uplink') \subseteq Items(uplink) /\ Items(downlink') = Items(downlink)
           /\ errorCounter - Late <= errorCounter' - Late'
           /\ Allowance <= Allowance'
  <1>1. NoPack.cmd = "none"
    BY DEF NoPack, Pack
  <1>2. /\ Present' <= Present /\ Late' <= Late /\ Creates' <= Creates
        /\ Promised' <= Promised
    BY <1>1, NothingAdded
  <1>3. Road'
    BY RoadSame DEF InSession
  <1>4. Budget'
    BY <1>2, BudgetLess DEF InSession
  <1>5. errorCounter - Late <= errorCounter' - Late'
    BY <1>2, LessLate
  <1>6. Allowance <= Allowance'
    BY <1>5, AllowanceAfter
  <1> QED
    BY <1>3, <1>4, <1>5, <1>6, WorkingPaths

\* The refusal of a buffer, and the answer to the check: nothing is awaited.
LEMMA RestsQuiet ==
    ASSUME Typed, Typed', InSession, Working, uplink # <<>>, uplink' = Tail(uplink),
           NEW fr, fr = Head(uplink),
           \/ fr.cmd = "FINISH_SEND_DATA_CMD"
           \/ fr.cmd = "DEV_CREATE_BUFFER_CMD" /\ fr.rc # 0,
           sendLoraPack' = NoPack, waitTimer' = Stopped,
           UNCHANGED <<fileSizeCounter, errorCounter, lastLp>>
    PROVE  Road' /\ Budget' /\ Patience'
  <1>1. Road' /\ Budget' /\ Items(downlink') = Items(downlink)
    BY SilentQuiet
  <1>2. \A item \in Items(uplink') \cup Items(downlink') : ~Block(item)
    BY <1>1, NoneBehind DEF InSession
  <1>3. Patience'
    BY <1>2, SetsAfter DEF Patience
  <1> QED
    BY <1>1, <1>3

\* Time passes.
LEMMA TickQuiet ==
    ASSUME Typed, Typed', InSession, Working, UNCHANGED uplink, Tick
    PROVE  Road' /\ Budget' /\ Patience'
  <1>1. /\ sendLoraPack' = NoPack /\ UNCHANGED <<fileSizeCounter, errorCounter, lastLp>>
        /\ waitTimer # 0 /\ idleTimer # 0 /\ idleTimer # Stopped
        /\ waitTimer' = Running(waitTimer) /\ idleTimer' = Running(idleTimer)
    BY DEF Tick, InSession
  <1>2. /\ Road' /\ Budget' /\ Allowance <= Allowance'
        /\ Items(uplink') = Items(uplink) /\ Items(downlink') = Items(downlink)
    BY <1>1, SilentQuiet
  <1>3. CASE waitTimer = Stopped
    <2>1. waitTimer' = Stopped
      BY <1>1, <1>3 DEF Running
    <2>2. \A item \in Items(uplink') \cup Items(downlink') : ~Block(item)
      BY <1>2, <1>3 DEF InSession, Patience
    <2>3. Patience'
      BY <2>1, <2>2, SetsAfter DEF Patience
    <2> QED
      BY <1>2, <2>3
  <1>4. CASE waitTimer # Stopped
    <2>1. waitTimer' = waitTimer - 1 /\ idleTimer' = idleTimer - 1
      BY <1>1, <1>4 DEF Running
    <2>2. /\ waitTimer \in Int /\ waitTimer > 0 /\ idleTimer \in Int /\ idleTimer > 0
          /\ IdleTimeout \in Int /\ Stopped = -1
      <3>1. waitTimer \in -1 .. AnswerTimeout /\ idleTimer \in -1 .. IdleTimeout
        BY UnderWay, Parameters DEF TypeOK
      <3> QED
        BY <1>1, <1>4, <3>1, Parameters
    <2>3. (IdleTimeout - idleTimer') + waitTimer' = (IdleTimeout - idleTimer) + waitTimer
      BY <2>1, <2>2
    <2>4. (IdleTimeout - idleTimer) + waitTimer <= Allowance
      BY <1>4 DEF InSession, Patience
    <2>5. (IdleTimeout - idleTimer') + waitTimer' <= Allowance'
      <3>1. PICK a \in Int, b \in Int, c \in Int :
               /\ a = (IdleTimeout - idleTimer) + waitTimer
               /\ b = Allowance /\ c = Allowance'
        <4>1. (IdleTimeout - idleTimer) + waitTimer \in Int /\ Allowance \in Int
          BY Numbers
        <4>2. Allowance' \in Int
          BY NumbersAfter
        <4> QED
          BY <4>1, <4>2, Zenon
      <3>2. a <= b /\ b <= c
        BY <1>2, <2>4, <3>1, Zenon
      <3>3. a <= c
        BY <3>2
      <3> QED
        BY <2>3, <3>1, <3>3, Zenon
    <2>6. waitTimer' # Stopped
      BY <2>1, <2>2
    <2>7. Patience'
      BY <2>5, <2>6 DEF Patience
    <2> QED
      BY <1>2, <2>7
  <1> QED
    BY <1>3, <1>4

\* A repeated answer: another answer period, and one late answer less.
LEMMA RepeatQuiet ==
    ASSUME Typed, Typed', InSession, Working, uplink # <<>>, uplink' = Tail(uplink),
           NEW fr \in FrameType, fr = Head(uplink), Block(fr), fr.len > 0,
           fileSizeCounter = fr.off + fr.len,
           sendLoraPack' = NoPack, waitTimer' = AnswerTimeout,
           UNCHANGED <<fileSizeCounter, errorCounter, lastLp, idleTimer>>
    PROVE  Road' /\ Budget' /\ Patience'
  <1>1. Road' /\ Budget'
    BY SilentQuiet
  <1>2. fr.off \in Nat /\ fr.len \in Nat
    BY DEF FrameType
  <1>3. fr \in BlocksAt(0 .. fileSizeCounter - 1)
    BY <1>2 DEF BlocksAt
  <1>4. Late' + 1 <= Late
    BY <1>3, NothingAdded DEF NoPack, Pack
  <1>5. errorCounter - Late + 1 <= errorCounter' - Late'
    <2>1. PICK p \in Nat, l \in Nat, c \in Nat, q \in Nat, e \in Int, m \in Nat :
              /\ p = Present /\ l = Late /\ c = Creates /\ q = Promised
              /\ e = errorCounter /\ m = MostBlocks
      BY Figures
    <2>2. PICK p2 \in Nat, l2 \in Nat, c2 \in Nat, q2 \in Nat, e2 \in Int :
              /\ p2 = Present' /\ l2 = Late' /\ c2 = Creates' /\ q2 = Promised'
              /\ e2 = errorCounter'
      BY FiguresAfter
    <2>3. l2 + 1 <= l /\ e2 = e
      BY <1>4, <2>1, <2>2, Zenon
    <2>4. e - l + 1 <= e2 - l2
      BY <2>3
    <2> QED
      BY <2>1, <2>2, <2>4, Zenon
  <1>6. Allowance + AnswerTimeout <= Allowance'
    BY <1>5, AllowanceAfter
  <1>7. waitTimer # Stopped /\ waitTimer >= 0
    <2>1. fr \in Items(uplink)
      BY RoadTypes, TailItems
    <2>2. waitTimer # Stopped
      BY <2>1 DEF InSession, Patience
    <2>3. waitTimer \in -1 .. AnswerTimeout /\ Stopped = -1
      BY UnderWay, Parameters DEF TypeOK
    <2> QED
      BY <2>2, <2>3
  <1>8. (IdleTimeout - idleTimer) + waitTimer <= Allowance
    BY <1>7 DEF InSession, Patience
  <1>9. (IdleTimeout - idleTimer') + waitTimer' <= Allowance'
    <2>1. PICK i \in Int, w \in Int, a \in Int, k \in Int, c \in Int :
             /\ i = IdleTimeout - idleTimer /\ w = waitTimer
             /\ a = Allowance /\ k = AnswerTimeout /\ c = Allowance'
      <3>1. /\ IdleTimeout - idleTimer \in Int /\ waitTimer \in Int
            /\ Allowance \in Int /\ AnswerTimeout \in Int
        BY Numbers
      <3>2. Allowance' \in Int
        BY NumbersAfter
      <3> QED
        BY <3>1, <3>2, Zenon
    <2>2. w >= 0 /\ i + w <= a /\ a + k <= c
      BY <1>6, <1>7, <1>8, <2>1, Zenon
    <2>3. i + k <= c
      BY <2>2
    <2> QED
      BY <2>1, <2>3, Zenon
  <1>10. waitTimer' # Stopped
    BY Parameters
  <1>11. Patience'
    BY <1>9, <1>10 DEF Patience
  <1> QED
    BY <1>1, <1>11

\* RetryCount attempts of RetryCount packets each.
LEMMA Squared ==
    ASSUME NEW k \in Nat, NEW c \in Nat, NEW e \in 0 .. k - 1, c <= e + 1
    PROVE  k * c + (k - 1 - e) <= k * k
  <1>1. k * c <= k * (e + 1)
    BY Multiplied
  <1>2. PICK d \in Nat : d = k - 1 - e
    OBVIOUS
  <1>3. k * k = k * (e + 1) + k * d
    BY <1>2
  <1>4. d * 1 <= d * k
    BY Multiplied
  <1>5. PICK x \in Int, y \in Int, z \in Int :
           x = k * c /\ y = k * (e + 1) /\ z = k * d
    OBVIOUS
  <1>6. d * 1 = d /\ d * k = k * d
    BY <1>2
  <1>7. x <= y /\ d <= z
    BY <1>1, <1>4, <1>5, <1>6
  <1>8. x + d <= y + z
    BY <1>2, <1>5, <1>7
  <1> QED
    BY <1>2, <1>3, <1>5, <1>8

\* What the budget is at most.
LEMMA Most ==
    /\ MostBlocks \in Nat /\ RetryCount \in Nat /\ RetryCount - 1 <= MostBlocks
    /\ RetryCount <= MostBlocks /\ 0 <= MostBlocks - 1
    /\ \A c \in Nat, e \in 0 .. RetryCount - 1 :
          c <= e + 1 => RetryCount * c + (RetryCount - 1 - e) <= MostBlocks
  <1>1. RetryCount \in Nat /\ RetryCount > 0
    BY Parameters
  <1>2. \A c \in Nat, e \in 0 .. RetryCount - 1 :
           c <= e + 1 => RetryCount * c + (RetryCount - 1 - e) <= RetryCount * RetryCount
    BY <1>1, Squared
  <1>3. RetryCount * 1 + (RetryCount - 1 - 0) <= RetryCount * RetryCount
    BY <1>1, <1>2
  <1>4. RetryCount * 1 = RetryCount /\ RetryCount * RetryCount \in Nat
    BY <1>1
  <1>5. PICK m \in Nat : m = RetryCount * RetryCount
    BY <1>4
  <1>6. RetryCount - 1 <= m /\ RetryCount <= m /\ 0 <= m - 1
    BY <1>1, <1>3, <1>4, <1>5
  <1> QED
    BY <1>1, <1>2, <1>5, <1>6 DEF MostBlocks

\* The steps that start both timers with a packet of the receiving half.
LEMMA OtherQuiet ==
    ASSUME Typed, Typed', InSession, Working, NEW pack, SendCommand(pack),
           pack.cmd \notin Staged, UNCHANGED <<fileSizeCounter, errorCounter>>
    PROVE  Road' /\ Budget' /\ Patience'
  <1>1. /\ lastLp' = pack /\ sendLoraPack' = pack
        /\ waitTimer' = AnswerTimeout /\ idleTimer' = IdleTimeout
    BY DEF SendCommand
  <1>2. sendLoraPack'.cmd \notin {"DEV_CREATE_BUFFER_CMD", "SEND_DATA_BLOCK_CMD"}
    BY <1>1 DEF Staged
  <1>3. /\ Present' <= Present /\ Late' <= Late /\ Creates' <= Creates
        /\ Promised' <= Promised
    BY <1>2, NothingAdded
  <1>4. Road'
    BY <1>1, RoadSame DEF InSession
  <1>5. Budget'
    BY <1>1, <1>2, <1>3, BudgetLess DEF InSession
  <1>6. errorCounter' >= 0
    BY Parameters DEF InSession
  <1>7. Patience'
    BY <1>1, <1>5, <1>6, Renewed
  <1> QED
    BY <1>4, <1>5, <1>7

\* The buffer is created: the first block.
LEMMA CreatedQuiet ==
    ASSUME Typed, Typed', InSession, Working, uplink # <<>>, uplink' = Tail(uplink),
           NEW fr \in FrameType, fr = Head(uplink), fr.cmd = "DEV_CREATE_BUFFER_CMD",
           fr.rc = 0, fileSizeCounter' = 0, errorCounter' = 0, SendCommand(DataBlock(0))
    PROVE  Road' /\ Budget' /\ Patience'
  <1>1. fr \in Items(uplink) /\ Road /\ current \in Requests
    BY RoadTypes, TailItems DEF InSession
  <1>2. /\ sendDataBuffer.req # NoRequest /\ Size <= DeviceCapacity
        /\ fileSizeCounter = 0 /\ Size \in Nat /\ Size > 0 /\ Position(0)
    BY <1>1, SizeIsNat, FirstPosition DEF Road, FramePlaced, Placed, Staged
  <1>3. DataBlock(0) = Pack("SEND_DATA_BLOCK_CMD", current, 0, Length(0))
    BY <1>1, <1>2, FollowsUp DEF Counts
  <1>4. /\ lastLp' = sendLoraPack' /\ sendLoraPack' = DataBlock(0)
        /\ waitTimer' = AnswerTimeout /\ idleTimer' = IdleTimeout
    BY DEF SendCommand
  <1>5. Forward(0)
    BY <1>2, <1>3, <1>4 DEF Forward
  <1>6. Road'
    <2>1. \A item \in Items(uplink') \cup Items(downlink) : Placed(item)
      BY <1>1, WorkingPaths, RoadTypes DEF Road, FramePlaced, PackPlaced
    <2>2. UNCHANGED <<sendDataBuffer, fileSizeCounter, current>>
      BY <1>2, WorkingPaths
    <2>3. \A item \in Items(uplink') \cup Items(downlink) : Placed(item)'
      BY <2>1, <2>2, PlaceKept
    <2> QED
      BY <1>1, <1>5, <2>3, RoadOn
  <1>7. sendLoraPack'.cmd = "SEND_DATA_BLOCK_CMD" /\ sendLoraPack'.off = 0
    BY <1>3, <1>4 DEF Pack
  <1>8. Creates' + 1 <= Creates
    <2>1. sendLoraPack' \notin CreateItems /\ Head(uplink) \in CreateItems
      BY <1>7 DEF CreateItems
    <2> QED
      BY <2>1, WorkingCreates
  <1>9. Promised' + RetryCount <= Promised
    BY <1>8, PromisedLess
  <1>10. Present' <= Present + 1
    <2>1. Air(uplink', downlink', Live', BlocksAt({fileSizeCounter})) <=
          Air(uplink, downlink, Live, BlocksAt({fileSizeCounter})) + 1
      BY <1>7, WorkingAir
    <2>2. fileSizeCounter' = fileSizeCounter
      BY <1>2
    <2>3. /\ Present = Air(uplink, downlink, Live, BlocksAt({fileSizeCounter}))
          /\ Present' = Air(uplink', downlink', Live', BlocksAt({fileSizeCounter}))
      BY <2>2 DEF Present, OnAir
    <2> QED
      BY <2>1, <2>3
  <1>11. Late' <= Late
    <2> DEFINE S == BlocksAt(0 .. fileSizeCounter - 1)
    <2>0. sendLoraPack' \notin S
      BY <1>2 DEF BlocksAt
    <2>1. Air(uplink', downlink', Live', S) <= Air(uplink, downlink, Live, S)
      BY <1>7, <2>0, WorkingAir
    <2>2. fileSizeCounter' = fileSizeCounter
      BY <1>2
    <2>3. Late = Air(uplink, downlink, Live, S) /\ Late' = Air(uplink', downlink', Live', S)
      BY <2>2 DEF Late, OnAir
    <2> QED
      BY <2>1, <2>3
  <1>12. Budget'
    <2>1. PICK p \in Nat, l \in Nat, c \in Nat, q \in Nat, e \in Int, m \in Nat :
              /\ p = Present /\ l = Late /\ c = Creates /\ q = Promised
              /\ e = errorCounter /\ m = MostBlocks
      BY Figures
    <2>2. PICK p2 \in Nat, l2 \in Nat, c2 \in Nat, q2 \in Nat, e2 \in Int :
              /\ p2 = Present' /\ l2 = Late' /\ c2 = Creates' /\ q2 = Promised'
              /\ e2 = errorCounter'
      BY FiguresAfter
    <2>3. /\ p2 <= p + 1 /\ q2 + RetryCount <= q /\ l2 <= l /\ e2 = 0
      BY <1>9, <1>10, <1>11, <2>1, <2>2, Zenon
    <2>4. /\ p + q + (RetryCount - 1 - e) <= m /\ l <= m - 1
      BY <2>1 DEF InSession, Budget
    <2>5. e \in 0 .. RetryCount - 1 /\ RetryCount \in Nat
      BY <2>1, Parameters DEF InSession
    <2>6. p2 + q2 + (RetryCount - 1 - e2) <= m /\ l2 <= m - 1
      BY <2>3, <2>4, <2>5
    <2> QED
      BY <1>4, <1>7, <2>1, <2>2, <2>6, BudgetAfter
  <1>13. Patience'
    BY <1>4, <1>12, Renewed
  <1> QED
    BY <1>6, <1>12, <1>13

\* No create request is left to answer.
LEMMA NoCreates ==
    ASSUME Typed', \A item \in Items(uplink') \cup Items(downlink') : item \notin CreateItems
    PROVE  Creates' = 0 /\ Promised' = 0
  <1>1. PICK up2, down2 : up2 = uplink' /\ down2 = downlink'
    OBVIOUS
  <1>2. Air(up2, down2, TRUE, CreateItems) = 0
    BY <1>1, AirNone
  <1>3. Creates' = 0
    BY <1>1, <1>2 DEF Creates
  <1>4. RetryCount * 0 = 0
    BY Parameters
  <1> QED
    BY <1>3, <1>4 DEF Promised

\* A block is confirmed: the next one, or the check.
LEMMA ConfirmQuiet ==
    ASSUME Typed, Typed', InSession, Working, uplink # <<>>, uplink' = Tail(uplink),
           NEW fr \in FrameType, fr = Head(uplink), Block(fr), fr.len > 0,
           fileSizeCounter = fr.off, fileSizeCounter' = fr.off + fr.len, errorCounter' = 0,
           SendCommand(FollowUp(fr.rc, fr.len, fr.off + fr.len))
    PROVE  Road' /\ Budget' /\ Patience'
  <1>1. /\ fr \in Items(uplink) /\ Road /\ current \in Requests
        /\ FramePlaced(fr) /\ Placed(fr)
    BY RoadTypes, TailItems DEF InSession, Road, FramePlaced
  <1>2. PICK pos : pos = fr.off + fr.len
    OBVIOUS
  <1>3. /\ Counts(fr.rc, fr.len) /\ fr.off \in Nat /\ fr.off < Size
        /\ sendDataBuffer.req # NoRequest /\ Size <= DeviceCapacity
        /\ fr.len = Length(fr.off) /\ Position(pos)
    BY <1>1, <1>2, AnswerKinds
  <1>4. /\ pos \in Nat /\ Size \in Nat /\ pos <= Size /\ pos > fr.off /\ fr.len \in Nat
    BY <1>1, <1>2, <1>3, PositionType, SizeIsNat DEF FrameType
  <1>5. PICK pack : pack = FollowUp(fr.rc, fr.len, pos)
    OBVIOUS
  <1>6. \/ pos < Size /\ pack = Pack("SEND_DATA_BLOCK_CMD", current, pos, Length(pos))
        \/ pos = Size /\ pack.cmd = "FINISH_SEND_DATA_CMD"
    BY <1>1, <1>3, <1>4, <1>5, FollowsUp
  <1>7. /\ lastLp' = pack /\ sendLoraPack' = pack
        /\ waitTimer' = AnswerTimeout /\ idleTimer' = IdleTimeout
    BY <1>2, <1>5 DEF SendCommand
  <1>8. Forward(pos)
    BY <1>2, <1>3, <1>6, <1>7 DEF Forward
  <1>9. \/ pack.cmd = "FINISH_SEND_DATA_CMD"
        \/ pack.cmd = "SEND_DATA_BLOCK_CMD" /\ pack.off = pos
    BY <1>6 DEF Pack
  <1>10. /\ Items(downlink') \subseteq Items(downlink) \cup {pack}
         /\ Items(uplink') \subseteq Items(uplink)
         /\ Items(uplink) \subseteq Items(uplink') \cup {fr}
         /\ Size' = Size /\ UNCHANGED <<current, sendDataBuffer>>
    <2>1. Items(uplink) \subseteq Items(Tail(uplink)) \cup {fr}
      <3>1. uplink \in Seq(FrameType)
        BY RoadTypes
      <3>2. /\ \A i \in DOMAIN uplink : i = 1 \/ (i - 1 \in DOMAIN Tail(uplink)
                                                  /\ uplink[i] = Tail(uplink)[i - 1])
            /\ Head(uplink) = uplink[1]
        BY <3>1
      <3> QED
        BY <3>2 DEF Items
    <2> QED
      BY <1>7, <2>1, WorkingPaths
  <1>11. ASSUME NEW item \in Items(uplink') \cup Items(downlink)
         PROVE  /\ item.cmd # "DEV_CREATE_BUFFER_CMD" /\ item.cmd # "FINISH_SEND_DATA_CMD"
                /\ Block(item) => item.off = fr.off
                /\ Placed(item)
    <2>1. NotBehind(fr, item)
      BY <1>1, RoadTypes, TailInOrder DEF Road, Along
    <2>2. Placed(item)
      BY <1>1, <1>10, RoadTypes DEF Road, FramePlaced, PackPlaced
    <2>3. Stage(fr) = fr.off + 1 /\ fr.cmd \in Staged
      BY DEF Stage, Block, Staged
    <2>4. item.cmd # "DEV_CREATE_BUFFER_CMD"
      <3>1. SUFFICES ASSUME item.cmd = "DEV_CREATE_BUFFER_CMD" PROVE FALSE
        OBVIOUS
      <3>2. Stage(item) = 0 /\ Stage(fr) <= Stage(item)
        BY <2>1, <2>3, <3>1 DEF NotBehind, Stage, Staged
      <3> QED
        BY <1>3, <2>3, <3>2
    <2>5. item.cmd # "FINISH_SEND_DATA_CMD"
      BY <1>3, <2>2 DEF Placed
    <2>6. Block(item) => item.off = fr.off
      <3>1. SUFFICES ASSUME Block(item) PROVE item.off = fr.off
        OBVIOUS
      <3>2. Stage(item) = item.off + 1 /\ Stage(fr) <= Stage(item)
        BY <2>1, <2>3, <3>1 DEF NotBehind, Stage, Staged, Block
      <3>3. /\ Position(item.off) /\ item.off < Size
            /\ fr.off \in {item.off, item.off + Length(item.off)}
        BY <2>2, <3>1 DEF Placed
      <3>4. item.off \in Nat /\ Length(item.off) \in Nat
        BY <1>1, <3>3, PositionType
      <3> QED
        BY <1>3, <2>3, <3>2, <3>3, <3>4
    <2> QED
      BY <2>2, <2>4, <2>5, <2>6
  <1>12. Road'
    <2>1. ASSUME NEW item \in Items(uplink') \cup Items(downlink) PROVE Placed(item)'
      <3>1. /\ \A o : Position(o)' <=> Position(o)
            /\ \A o : Length(o)' = Length(o)
        BY <1>10 DEF Position, Length
      <3>2. /\ item.cmd # "DEV_CREATE_BUFFER_CMD" /\ item.cmd # "FINISH_SEND_DATA_CMD"
            /\ Block(item) => item.off = fr.off
            /\ Placed(item)
        BY <1>11
      <3> QED
        BY <1>2, <1>3, <1>10, <3>1, <3>2 DEF Placed, Block
    <2> QED
      BY <1>1, <1>8, <2>1, RoadOn
  <1>13. /\ uplink' \in Seq(FrameType) /\ downlink' \in Seq(Packs) /\ Live' \in BOOLEAN
         /\ uplink \in Seq(FrameType) /\ downlink \in Seq(Packs) /\ Live \in BOOLEAN
    BY RoadTypes, NumbersAfter
  <1>14. sendLoraPack'.cmd # "DEV_CREATE_BUFFER_CMD"
    BY <1>7, <1>9
  <1>15. Late' + 1 <= Present
    <2> DEFINE S == BlocksAt(0 .. pos - 1)
               U == BlocksAt({fr.off})
    <2>1. pack \notin S /\ pack \notin U /\ fr \in U
      BY <1>4, <1>9 DEF BlocksAt, Block
    <2>2. \A item \in Items(uplink') \cup Items(downlink') : item \in S => item \in U
      BY <1>10, <1>11, <2>1 DEF BlocksAt
    <2>3. PICK up2, down2, live2 : up2 = uplink' /\ down2 = downlink' /\ live2 = Live'
      OBVIOUS
    <2> HIDE DEF S, U
    <2>4. Air(up2, down2, live2, S) <= Air(up2, down2, live2, U)
      BY <1>13, <2>2, <2>3, AirMore
    <2>5. Air(uplink', downlink', Live', U) + 1 <= Air(uplink, downlink, Live, U)
      BY <1>7, <1>14, <2>1, WorkingAir
    <2>6. /\ Late' = Air(up2, down2, live2, S)
          /\ Present = Air(uplink, downlink, Live, U)
      BY <1>2, <2>3 DEF Late, Present, OnAir, S, U
    <2>7. PICK a \in Nat, b \in Nat, d \in Nat :
             /\ a = Air(up2, down2, live2, S) /\ b = Air(up2, down2, live2, U)
             /\ d = Air(uplink, downlink, Live, U)
      BY <1>13, <2>3, AirType
    <2>8. a <= b /\ b + 1 <= d
      BY <2>3, <2>4, <2>5, <2>7, Zenon
    <2>9. a + 1 <= d
      BY <2>8
    <2> QED
      BY <2>6, <2>7, <2>9, Zenon
  <1>16. Present' <= 1
    <2> DEFINE W == BlocksAt({pos})
    <2>1. \A item \in Items(uplink) \cup Items(downlink) : item \notin W
      <3>1. pos # fr.off
        BY <1>4
      <3> QED
        BY <1>10, <1>11, <3>1 DEF BlocksAt
    <2> HIDE DEF W
    <2>2. Air(uplink, downlink, Live, W) = 0
      BY <1>13, <2>1, AirNone
    <2>3. Air(uplink', downlink', Live', W) <= Air(uplink, downlink, Live, W) + 1
      BY <1>14, WorkingAir
    <2>4. Present' = Air(uplink', downlink', Live', W)
      BY <1>2 DEF Present, OnAir, W
    <2> QED
      BY <2>2, <2>3, <2>4
  <1>17. Creates' = 0 /\ Promised' = 0
    BY <1>9, <1>10, <1>11, NoCreates DEF CreateItems
  <1>18. Budget'
    <2>1. PICK p \in Nat, l \in Nat, c \in Nat, q \in Nat, e \in Int, m \in Nat :
              /\ p = Present /\ l = Late /\ c = Creates /\ q = Promised
              /\ e = errorCounter /\ m = MostBlocks
      BY Figures
    <2>2. PICK p2 \in Nat, l2 \in Nat, c2 \in Nat, q2 \in Nat, e2 \in Int :
              /\ p2 = Present' /\ l2 = Late' /\ c2 = Creates' /\ q2 = Promised'
              /\ e2 = errorCounter'
      BY FiguresAfter
    <2>3. /\ p2 <= 1 /\ c2 = 0 /\ q2 = 0 /\ l2 + 1 <= p /\ e2 = 0
      BY <1>15, <1>16, <1>17, <2>1, <2>2, Zenon
    <2>4. p + q + (RetryCount - 1 - e) <= m
      BY <2>1 DEF InSession, Budget
    <2>5. e \in 0 .. RetryCount - 1 /\ RetryCount \in Nat /\ RetryCount <= m
      BY <2>1, Most DEF InSession
    <2>6. p2 + q2 + (RetryCount - 1 - e2) <= m /\ l2 <= m - 1 /\ c2 <= e2 + 1
      BY <2>3, <2>4, <2>5
    <2> QED
      BY <2>1, <2>2, <2>6, BudgetAfter
  <1>19. Patience'
    BY <1>7, <1>18, Renewed
  <1> QED
    BY <1>12, <1>18, <1>19

\* The device has lost its buffer: nothing more can come of what was sent.
LEMMA VoidQuiet ==
    ASSUME Typed, Typed', InSession, Working, uplink # <<>>, uplink' = Tail(uplink),
           NEW fr \in FrameType, fr = Head(uplink), Void(fr),
           fileSizeCounter' = fileSizeCounter, errorCounter' \in {0, errorCounter},
           SendCommand(FollowUp(fr.rc, fr.len, fileSizeCounter))
    PROVE  Road' /\ Budget' /\ Patience'
  <1>1. /\ fr \in Items(uplink) /\ Road /\ current \in Requests
        /\ FramePlaced(fr) /\ Placed(fr) /\ Block(fr) /\ devBuffer = <<>>
    BY RoadTypes, TailItems DEF InSession, Road, FramePlaced, Void
  <1>2. PICK pos, pack : pos = fileSizeCounter /\ pack = FollowUp(fr.rc, fr.len, pos)
    OBVIOUS
  <1>3. /\ Counts(fr.rc, fr.len) /\ fr.off \in Nat
        /\ sendDataBuffer.req # NoRequest /\ Size <= DeviceCapacity
        /\ Position(pos) /\ pos \in Nat
    BY <1>1, <1>2, AnswerKinds
  <1>4. Size \in Nat /\ pos <= Size
    BY <1>1, <1>3, PositionType, SizeIsNat
  <1>5. \/ pos < Size /\ pack = Pack("SEND_DATA_BLOCK_CMD", current, pos, Length(pos))
        \/ pos = Size /\ pack.cmd = "FINISH_SEND_DATA_CMD"
    BY <1>1, <1>2, <1>3, <1>4, FollowsUp
  <1>6. /\ lastLp' = pack /\ sendLoraPack' = pack
        /\ waitTimer' = AnswerTimeout /\ idleTimer' = IdleTimeout
    BY <1>2 DEF SendCommand
  <1>7. Forward(pos) /\ pack.cmd # "DEV_CREATE_BUFFER_CMD"
    BY <1>2, <1>3, <1>5, <1>6 DEF Forward, Pack
  <1>8. /\ Items(downlink') \subseteq Items(downlink) \cup {pack}
        /\ Items(uplink') \subseteq Items(uplink)
        /\ UNCHANGED <<current, sendDataBuffer, devBuffer>>
    BY <1>6, WorkingPaths
  <1>9. Road'
    <2>1. \A item \in Items(uplink') \cup Items(downlink) : Placed(item)
      BY <1>1, <1>8, RoadTypes DEF Road, FramePlaced, PackPlaced
    <2>2. \A item \in Items(uplink') \cup Items(downlink) : Placed(item)'
      BY <1>8, <2>1, PlaceKept
    <2> QED
      BY <1>1, <1>7, <2>2, RoadOn
  <1>10. /\ \A item \in Items(uplink') : Block(item) => Void(item)
         /\ \A item \in Items(uplink') \cup Items(downlink') : item \notin CreateItems
    <2>1. \A item \in Items(uplink') : Block(item) => Void(item)
      BY <1>1, RoadTypes, TailInOrder DEF Road, Along
    <2>2. \A item \in Items(downlink) : item.cmd # "DEV_CREATE_BUFFER_CMD"
      BY <1>1, NoCreateBehindVoid DEF Road
    <2>3. \A item \in Items(uplink') : item.cmd # "DEV_CREATE_BUFFER_CMD"
      <3>1. SUFFICES ASSUME NEW item \in Items(uplink'),
                            item.cmd = "DEV_CREATE_BUFFER_CMD"
                     PROVE  FALSE
        OBVIOUS
      <3>2. NotBehind(fr, item)
        BY <1>1, RoadTypes, TailInOrder DEF Road, Along
      <3>3. Stage(fr) = fr.off + 1 /\ Stage(item) = 0 /\ fr.cmd = "SEND_DATA_BLOCK_CMD"
        BY <1>1, <3>1 DEF Stage, Block
      <3> QED
        BY <1>3, <3>1, <3>2, <3>3 DEF NotBehind, Staged
    <2> QED
      BY <1>7, <1>8, <2>1, <2>2, <2>3 DEF CreateItems
  <1>11. Live' = FALSE
    <2>1. Items(downlink)' \cap CreateItems = {}
      BY <1>10, SetsAfter
    <2> QED
      BY <1>1, <1>8, <2>1 DEF Live
  <1>12. ASSUME NEW P PROVE Air(uplink', downlink', Live', BlocksAt(P)) = 0
    <2>1. PICK up2, down2, live2 : up2 = uplink' /\ down2 = downlink' /\ live2 = Live'
      OBVIOUS
    <2>2. \A item \in Items(up2) : item \notin BlocksAt(P)
      BY <1>10, <2>1 DEF BlocksAt, Void
    <2>3. Air(up2, down2, live2, BlocksAt(P)) = 0
      BY <1>11, <2>1, <2>2, AirNone
    <2> QED
      BY <2>1, <2>3
  <1>13. Present' = 0 /\ Late' = 0
    BY <1>12 DEF Present, Late, OnAir
  <1>14. Creates' = 0 /\ Promised' = 0
    BY <1>10, NoCreates
  <1>15. errorCounter' \in 0 .. RetryCount - 1 /\ RetryCount \in Nat
    BY Parameters DEF InSession
  <1>16. Budget'
    <2>1. PICK p2 \in Nat, l2 \in Nat, c2 \in Nat, q2 \in Nat, e2 \in Int :
              /\ p2 = Present' /\ l2 = Late' /\ c2 = Creates' /\ q2 = Promised'
              /\ e2 = errorCounter'
      BY FiguresAfter
    <2>2. PICK m \in Nat : m = MostBlocks
      BY Most
    <2>3. /\ p2 = 0 /\ c2 = 0 /\ q2 = 0 /\ l2 = 0 /\ e2 \in 0 .. RetryCount - 1
          /\ RetryCount - 1 <= m /\ 0 <= m - 1
      BY <1>13, <1>14, <1>15, <2>1, <2>2, Most, Zenon
    <2>4. p2 + q2 + (RetryCount - 1 - e2) <= m /\ l2 <= m - 1 /\ c2 <= e2 + 1
      BY <1>15, <2>3
    <2> QED
      BY <2>1, <2>2, <2>4, BudgetAfter
  <1>17. Patience'
    BY <1>6, <1>15, <1>16, Renewed
  <1> QED
    BY <1>9, <1>16, <1>17

\* No answer: the last packet again, for one attempt more.
LEMMA ResendQuiet ==
    ASSUME Typed, Typed', InSession, Working, UNCHANGED uplink, sendLoraPack' = lastLp,
           waitTimer = 0, waitTimer' = AnswerTimeout,
           errorCounter' = errorCounter + 1, errorCounter' < RetryCount,
           UNCHANGED <<fileSizeCounter, lastLp, idleTimer>>
    PROVE  Road' /\ Budget' /\ Patience'
  <1>1. Road /\ current \in Requests /\ lastLp \in Packs
    BY RoadTypes DEF InSession
  <1>2. Road'
    BY <1>1, RoadSame
  <1>3. /\ Items(downlink') \subseteq Items(downlink) \cup {lastLp}
        /\ Items(uplink') = Items(uplink)
    BY WorkingPaths
  <1>4. /\ Late' <= Late
        /\ \/ /\ lastLp.cmd = "DEV_CREATE_BUFFER_CMD"
              /\ Present' = 0 /\ Late' = 0 /\ Creates' <= Creates + 1
           \/ /\ lastLp.cmd # "DEV_CREATE_BUFFER_CMD"
              /\ Present' <= Present + 1 /\ Promised' <= Promised
    <2>1. CASE lastLp.cmd = "DEV_CREATE_BUFFER_CMD"
      <3>1. ASSUME NEW item \in Items(uplink') \cup Items(downlink') PROVE ~Block(item)
        <4>1. SUFFICES ASSUME Block(item), item \in Items(uplink) \cup Items(downlink)
                       PROVE  FALSE
          BY <1>3, <2>1, <3>1 DEF Block
        <4>2. NotBehind(item, lastLp)
          BY <1>1, <4>1 DEF Road, Along
        <4>3. /\ Stage(item) = item.off + 1 /\ Stage(lastLp) = 0
              /\ item.cmd = "SEND_DATA_BLOCK_CMD"
          BY <2>1, <4>1 DEF Stage, Block
        <4>4. item.off \in Nat
          BY <4>1, RoadTypes DEF FrameType, Packs
        <4> QED
          BY <2>1, <4>2, <4>3, <4>4 DEF NotBehind, Staged
      <3>2. ASSUME NEW P PROVE Air(uplink', downlink', Live', BlocksAt(P)) = 0
        <4>1. PICK up2, down2, live2 : up2 = uplink' /\ down2 = downlink' /\ live2 = Live'
          OBVIOUS
        <4>2. \A item \in Items(up2) \cup Items(down2) : item \notin BlocksAt(P)
          BY <3>1, <4>1 DEF BlocksAt
        <4>3. live2 \in BOOLEAN
          BY <4>1, NumbersAfter
        <4>4. Air(up2, down2, live2, BlocksAt(P)) = 0
          BY <4>2, <4>3, AirNone
        <4> QED
          BY <4>1, <4>4
      <3>3. Present' = 0 /\ Late' = 0
        BY <3>2 DEF Present, Late, OnAir
      <3>4. Creates' <= Creates + 1
        BY WorkingCreates
      <3>5. Late \in Nat
        BY Numbers
      <3>6. Late' <= Late
        BY <3>3, <3>5
      <3> QED
        BY <2>1, <3>3, <3>4, <3>6
    <2>2. CASE lastLp.cmd # "DEV_CREATE_BUFFER_CMD"
      <3>1. sendLoraPack'.cmd # "DEV_CREATE_BUFFER_CMD"
        BY <2>2
      <3>2. Present' <= Present + 1
        <4>1. Air(uplink', downlink', Live', BlocksAt({fileSizeCounter})) <=
              Air(uplink, downlink, Live, BlocksAt({fileSizeCounter})) + 1
          BY <3>1, WorkingAir
        <4> QED
          BY <4>1 DEF Present, OnAir
      <3>3. Late' <= Late
        <4> DEFINE S == BlocksAt(0 .. fileSizeCounter - 1)
        <4>1. sendLoraPack' \notin S
          <5>1. Block(lastLp) => lastLp.off = fileSizeCounter
            BY <1>1 DEF Road, CounterPlaced
          <5>2. fileSizeCounter \in Int
            BY Numbers
          <5> QED
            BY <5>1, <5>2 DEF BlocksAt
        <4>2. Air(uplink', downlink', Live', S) <= Air(uplink, downlink, Live, S)
          BY <3>1, <4>1, WorkingAir
        <4>3. Late = Air(uplink, downlink, Live, S) /\ Late' = Air(uplink', downlink', Live', S)
          BY DEF Late, OnAir
        <4> QED
          BY <4>2, <4>3
      <3>4. Creates' <= Creates
        BY <3>1, WorkingCreates DEF CreateItems
      <3>5. Promised' <= Promised
        BY <3>4, PromisedLess
      <3> QED
        BY <2>2, <3>2, <3>3, <3>5
    <2> QED
      BY <2>1, <2>2
  <1>5. PICK p \in Nat, l \in Nat, c \in Nat, q \in Nat, e \in Int, m \in Nat :
            /\ p = Present /\ l = Late /\ c = Creates /\ q = Promised
            /\ e = errorCounter /\ m = MostBlocks
    BY Figures
  <1>6. PICK p2 \in Nat, l2 \in Nat, c2 \in Nat, q2 \in Nat, e2 \in Int :
            /\ p2 = Present' /\ l2 = Late' /\ c2 = Creates' /\ q2 = Promised'
            /\ e2 = errorCounter'
    BY FiguresAfter
  <1>7. /\ p + q + (RetryCount - 1 - e) <= m /\ l <= m - 1
        /\ lastLp.cmd = "DEV_CREATE_BUFFER_CMD" => c <= e + 1
        /\ e \in 0 .. RetryCount - 1 /\ e2 = e + 1 /\ e2 < RetryCount
        /\ RetryCount \in Nat
    BY <1>5, <1>6, Parameters DEF InSession, Budget
  <1>8. l2 <= l /\ e2 \in 0 .. RetryCount - 1
    <2>1. l2 <= l
      BY <1>4, <1>5, <1>6, Zenon
    <2> QED
      BY <1>7, <2>1
  <1>9. Budget'
    <2>1. CASE /\ lastLp.cmd = "DEV_CREATE_BUFFER_CMD"
               /\ Present' = 0 /\ Late' = 0 /\ Creates' <= Creates + 1
      <3>1. p2 = 0 /\ l2 = 0 /\ c2 <= c + 1
        BY <1>5, <1>6, <2>1, Zenon
      <3>2. c2 <= e2 + 1
        BY <1>7, <2>1, <3>1
      <3>3. RetryCount * c2 + (RetryCount - 1 - e2) <= m /\ 0 <= m - 1
        BY <1>5, <1>8, <3>2, Most
      <3>4. q2 = RetryCount * c2
        BY <1>6 DEF Promised
      <3>5. q2 + (RetryCount - 1 - e2) <= m
        BY <3>3, <3>4
      <3>6. p2 + q2 + (RetryCount - 1 - e2) <= m /\ l2 <= m - 1
        BY <1>7, <3>1, <3>3, <3>5
      <3> QED
        BY <1>5, <1>6, <3>2, <3>6, BudgetAfter
    <2>2. CASE /\ lastLp.cmd # "DEV_CREATE_BUFFER_CMD"
               /\ Present' <= Present + 1 /\ Promised' <= Promised
      <3>1. p2 <= p + 1 /\ q2 <= q
        BY <1>5, <1>6, <2>2, Zenon
      <3>2. p2 + q2 + (RetryCount - 1 - e2) <= m /\ l2 <= m - 1
        BY <1>7, <1>8, <3>1
      <3> QED
        BY <1>5, <1>6, <2>2, <3>2, BudgetAfter
    <2> QED
      BY <1>4, <2>1, <2>2
  <1>10. Patience'
    <2>1. errorCounter - Late + 1 <= errorCounter' - Late'
      <3>1. e - l + 1 <= e2 - l2
        BY <1>7, <1>8
      <3> QED
        BY <1>5, <1>6, <3>1, Zenon
    <2>2. Allowance + AnswerTimeout <= Allowance'
      BY <2>1, AllowanceAfter
    <2>3. (IdleTimeout - idleTimer) + waitTimer <= Allowance
      BY Parameters DEF InSession, Patience
    <2>4. PICK i \in Int, a \in Int, k \in Int, d \in Int :
             /\ i = IdleTimeout - idleTimer
             /\ a = Allowance /\ k = AnswerTimeout /\ d = Allowance'
      <3>1. /\ IdleTimeout - idleTimer \in Int /\ Allowance \in Int /\ AnswerTimeout \in Int
        BY Numbers
      <3>2. Allowance' \in Int
        BY NumbersAfter
      <3> QED
        BY <3>1, <3>2, Zenon
    <2>5. i + 0 <= a /\ a + k <= d
      BY <2>2, <2>3, <2>4, Zenon
    <2>6. i + k <= d
      BY <2>5
    <2>7. (IdleTimeout - idleTimer') + waitTimer' <= Allowance'
      BY <2>4, <2>6, Zenon
    <2>8. waitTimer' # Stopped
      BY Parameters
    <2> QED
      BY <2>7, <2>8 DEF Patience
  <1> QED
    BY <1>2, <1>9, <1>10

-----------------------------------------------------------------------------
(* All steps together.                                                     *)

\* The answers to a block: a repetition, a confirmation, or a lost buffer.
LEMMA BlockAnswerQuiet ==
    ASSUME Typed, Typed', InSession, Working, uplink # <<>>, uplink' = Tail(uplink),
           NEW fr \in FrameType, fr = Head(uplink), Block(fr),
           SendDataBlockAnswer(fr.rc, fr.off, fr.len)
    PROVE  Road' /\ Budget' /\ Patience'
  <1>1. /\ Road /\ current \in Requests /\ FramePlaced(fr)
        /\ fr.len \in Nat /\ fileSizeCounter \in Int
    <2>1. fr \in Items(uplink)
      BY TailItems, UnderWay
    <2> QED
      BY <2>1 DEF InSession, Road, FrameType, Typed, TransferTypeOK, TypeOK
  <1>2. /\ fr.len > 0 /\ Repeats(fr.rc, fr.off, fr.len) =>
               fileSizeCounter = fr.off + fr.len
        /\ fr.len > 0 /\ ~Repeats(fr.rc, fr.off, fr.len) =>
               Confirms(fr.rc, fr.off, fr.len) /\ fileSizeCounter = fr.off
        /\ fr.len = 0 => ~Repeats(fr.rc, fr.off, fr.len)
    BY <1>1, AnswerKinds
  <1>3. CASE fr.len > 0 /\ Repeats(fr.rc, fr.off, fr.len)
    <2>1. ~Confirms(fr.rc, fr.off, fr.len)
      BY <1>3 DEF Confirms
    <2>2. /\ waitTimer' = AnswerTimeout /\ sendLoraPack' = NoPack
          /\ UNCHANGED <<fileSizeCounter, errorCounter, lastLp, idleTimer>>
      BY <1>3, <2>1 DEF SendDataBlockAnswer
    <2> QED
      BY <1>2, <1>3, <2>2, RepeatQuiet
  <1>4. CASE fr.len > 0 /\ ~Repeats(fr.rc, fr.off, fr.len)
    <2>1. Confirms(fr.rc, fr.off, fr.len) /\ fileSizeCounter = fr.off
      BY <1>2, <1>4
    <2>2. /\ fileSizeCounter' = fileSizeCounter + fr.len /\ errorCounter' = 0
          /\ SendCommand(FollowUp(fr.rc, fr.len, fileSizeCounter + fr.len))
      BY <1>4, <2>1 DEF SendDataBlockAnswer
    <2>3. /\ fileSizeCounter' = fr.off + fr.len
          /\ SendCommand(FollowUp(fr.rc, fr.len, fr.off + fr.len))
      BY <2>1, <2>2
    <2> QED
      BY <1>4, <2>1, <2>2, <2>3, ConfirmQuiet
  <1>5. CASE fr.len = 0
    <2>1. ~Repeats(fr.rc, fr.off, fr.len) /\ Void(fr)
      BY <1>2, <1>5 DEF Void
    <2>2. /\ fileSizeCounter' = fileSizeCounter /\ errorCounter' \in {0, errorCounter}
          /\ SendCommand(FollowUp(fr.rc, fr.len, fileSizeCounter))
      <3>1. CASE Confirms(fr.rc, fr.off, fr.len)
        <4>1. fileSizeCounter + fr.len = fileSizeCounter
          BY <1>1, <1>5
        <4> QED
          BY <2>1, <3>1, <4>1 DEF SendDataBlockAnswer
      <3>2. CASE ~Confirms(fr.rc, fr.off, fr.len)
        BY <2>1, <3>2 DEF SendDataBlockAnswer
      <3> QED
        BY <3>1, <3>2
    <2> QED
      BY <2>1, <2>2, VoidQuiet
  <1> QED
    BY <1>1, <1>3, <1>4, <1>5

\* The slots, one by one; the end of a session leaves nothing to show.
LEMMA SlotsQuiet ==
    ASSUME Typed, Typed', InSession, ReceiveFrame PROVE Quiet'
  <1>1. PICK fr \in FrameType : fr = Head(uplink)
    <2>1. uplink \in Seq(FrameType) /\ uplink # <<>>
      BY UnderWay DEF ReceiveFrame
    <2> QED
      BY <2>1, TailType
  <1>2. /\ uplink # <<>> /\ uplink' = Tail(uplink) /\ Dispatch(fr)
        /\ Transmit /\ UNCHANGED <<current, device>>
    BY <1>1 DEF ReceiveFrame, InSession
  <1>3. UNCHANGED sendDataBuffer => Working
    BY <1>2 DEF Working
  <1>4. IdleDisconnect => Quiet'
    BY DEF IdleDisconnect, Quiet
  <1>5. CASE fr.cmd = "DEV_CREATE_BUFFER_CMD" /\ CreateBufferAnswer(fr.rc)
    <2>1. Working
      BY <1>3, <1>5 DEF CreateBufferAnswer
    <2>2. CASE fr.rc = 0
      <3>1. fileSizeCounter' = 0 /\ errorCounter' = 0 /\ SendCommand(DataBlock(0))
        BY <1>5, <2>2 DEF CreateBufferAnswer
      <3> QED
        BY <1>1, <1>2, <1>5, <2>1, <2>2, <3>1, CreatedQuiet DEF Quiet
    <2>3. CASE fr.rc # 0
      <3>1. /\ sendLoraPack' = NoPack /\ waitTimer' = Stopped
            /\ UNCHANGED <<fileSizeCounter, errorCounter, lastLp>>
        BY <1>5, <2>3 DEF CreateBufferAnswer
      <3> QED
        BY <1>1, <1>2, <1>5, <2>1, <2>3, <3>1, RestsQuiet DEF Quiet
    <2> QED
      BY <2>2, <2>3
  <1>6. CASE fr.cmd = "SEND_DATA_BLOCK_CMD" /\ SendDataBlockAnswer(fr.rc, fr.off, fr.len)
    <2>1. Working /\ Block(fr)
      BY <1>3, <1>6 DEF SendDataBlockAnswer, Block
    <2> QED
      BY <1>1, <1>2, <1>6, <2>1, BlockAnswerQuiet DEF Quiet
  <1>7. CASE fr.cmd = "FINISH_SEND_DATA_CMD" /\ FinishSendPackAnswer
    <2>1. /\ Working /\ sendLoraPack' = NoPack /\ waitTimer' = Stopped
          /\ UNCHANGED <<fileSizeCounter, errorCounter, lastLp>>
      BY <1>3, <1>7 DEF FinishSendPackAnswer
    <2> QED
      BY <1>1, <1>2, <1>7, <2>1, RestsQuiet DEF Quiet
  <1>8. CASE ReceivePackage \/ FinishReceivedPackAnswer(fr.data)
    BY <1>4, <1>8 DEF ReceivePackage, FinishReceivedPackAnswer
  <1>9. CASE CreateBufferCmd(fr.len) \/ ReceivedDataBlock(fr.off, fr.data)
    <2>1. Working /\ UNCHANGED <<fileSizeCounter, errorCounter>>
      BY <1>3, <1>9 DEF CreateBufferCmd, ReceivedDataBlock
    <2>2. PICK pack : SendCommand(pack) /\ pack.cmd \notin Staged
      <3>1. /\ Pack("APP_CREATE_BUFFER", NoRequest, 0, fr.len).cmd \notin Staged
            /\ Pack("APP_RECEIVE_DATA_BLOCK_CMD", NoRequest, fr.off, Len(fr.data)).cmd
                   \notin Staged
        BY DEF Pack, Staged
      <3> QED
        BY <1>9, <3>1 DEF CreateBufferCmd, ReceivedDataBlock
    <2> QED
      BY <2>1, <2>2, OtherQuiet DEF Quiet
  <1> QED
    BY <1>2, <1>5, <1>6, <1>7, <1>8, <1>9 DEF Dispatch

\* The timers, and the client.
LEMMA TimersQuiet ==
    ASSUME Typed, Typed', InSession, Timer \/ ClientLeaves PROVE Quiet'
  <1>1. Transmit /\ UNCHANGED <<current, uplink, device>>
    BY DEF Timer, ClientLeaves
  <1>2. UNCHANGED sendDataBuffer => Working
    BY <1>1 DEF Working
  <1>3. IdleDisconnect => Quiet'
    BY DEF IdleDisconnect, Quiet
  <1>4. CASE Tick
    <2>1. Working
      BY <1>2, <1>4 DEF Tick
    <2> QED
      BY <1>1, <1>4, <2>1, TickQuiet DEF Quiet
  <1>5. CASE AnswerTumeout /\ ~IdleDisconnect
    <2>1. /\ sendLoraPack' = lastLp /\ waitTimer = 0 /\ waitTimer' = AnswerTimeout
          /\ errorCounter' = errorCounter + 1 /\ errorCounter' < RetryCount
          /\ UNCHANGED <<fileSizeCounter, lastLp, idleTimer, sendDataBuffer>>
      BY <1>5 DEF AnswerTumeout, AttemptLeft
    <2> QED
      BY <1>1, <1>2, <2>1, ResendQuiet DEF Quiet
  <1> QED
    BY <1>3, <1>4, <1>5 DEF Timer, ClientLeaves, ClientGone, IdleTimeoutFires

\* The first packet of a request is all there is on the road.
LEMMA RequestRoad ==
    ASSUME FirstSession, Typed, Typed', NEW r \in Requests, AcceptedRequest(r),
           current' = r, uplink' = <<>>, devBuffer' = <<>>,
           Items(downlink') \subseteq {lastLp'}, Sendable' \subseteq {lastLp'}
    PROVE  Road'
  <1> DEFINE small == DataSize[r] <= BlockSize
             size  == DataSize[r] + HeaderSize
  <1>1. PICK pack : pack = Pack(IF small THEN "SEND_PACKAGE_ANSWER_CMD"
                                ELSE "DEV_CREATE_BUFFER_CMD", r, 0, size)
    OBVIOUS
  <1>2. /\ lastLp' = pack /\ fileSizeCounter' = 0
        /\ sendDataBuffer' = IF small THEN NoBuffer ELSE [req |-> r, size |-> size]
        /\ pack.cmd = IF small THEN "SEND_PACKAGE_ANSWER_CMD" ELSE "DEV_CREATE_BUFFER_CMD"
        /\ pack.len = size
    BY <1>1 DEF AcceptedRequest, SendCommand, Pack
  <1>3. /\ ~Block(pack) /\ ~Void(pack)
        /\ pack.cmd \in Staged => pack.cmd = "DEV_CREATE_BUFFER_CMD" /\ ~small
        /\ pack.cmd # "FINISH_SEND_DATA_CMD"
        /\ pack.cmd = "DEV_CREATE_BUFFER_CMD" => ~small
    BY <1>2 DEF Block, Void, Staged
  <1>4. Size' = size /\ size \in Nat /\ size < U16
    <2>1. DataSize[r] \in Nat /\ DataSize[r] <= MaxData /\ HeaderSize \in Nat
      BY ConstantsAssumption DEF AcceptedRequest, Refusal, HeaderSize
    <2>2. MaxData + HeaderSize < U16 /\ MaxData \in Nat /\ U16 \in Nat
      BY Parameters DEF FirstSession
    <2> QED
      BY <2>1, <2>2 DEF Size
  <1>5. Position(0)'
    <2>1. 0 \in 0 .. size /\ 0 = 0 * BlockSize /\ 0 \in 0 .. 0
      BY <1>4, Parameters
    <2> QED
      BY <1>4, <2>1 DEF Position
  <1>6. CounterPlaced'
    <2>1. CASE small
      BY <1>2, <1>3, <2>1 DEF CounterPlaced, NoBuffer, Block
    <2>2. CASE ~small
      BY <1>2, <1>3, <1>4, <1>5, <2>2 DEF CounterPlaced, Block
    <2> QED
      BY <2>1, <2>2
  <1>7. PackPlaced(pack)'
    <2>1. ~small => sendDataBuffer'.req # NoRequest
      BY <1>2, ConstantsAssumption
    <2> QED
      BY <1>2, <1>3, <1>4, <2>1 DEF PackPlaced, Placed, Block, Void
  <1>8. Items(uplink') = {} /\ DOMAIN uplink' = {} /\ DOMAIN <<>> = {}
    BY DEF Items
  <1>9. NotBehind(pack, pack)'
    BY <1>3 DEF NotBehind, Stage
  <1>10. InOrder(downlink)'
    <2>1. \A i \in DOMAIN downlink' : downlink'[i] = pack
      BY <1>2 DEF Items
    <2>2. ~Void(pack)'
      BY <1>3 DEF Void, Block
    <2> QED
      BY <1>9, <2>1, <2>2, Zenon DEF InOrder
  <1>11. Along(uplink, downlink, lastLp)'
    <2>1. InOrder(uplink)'
      BY <1>8 DEF InOrder
    <2>2. Items(uplink)' = {} /\ Items(downlink)' \subseteq {pack}
      BY <1>2, <1>8, SetsAfter
    <2> QED
      BY <1>2, <1>9, <1>10, <2>1, <2>2 DEF Along
  <1>12. \A fr \in Items(uplink)' : FramePlaced(fr)'
    BY <1>8, SetsAfter
  <1>13. \A other \in Sendable' : PackPlaced(other)'
    <2>1. \A other \in Sendable' : other = pack
      BY <1>2
    <2> QED
      BY <1>7, <2>1 DEF PackPlaced, Placed, Void, Block
  <1> QED
    BY <1>6, <1>11, <1>12, <1>13 DEF Road, BufferSound

\* And it is one at most.
LEMMA RequestBudget ==
    ASSUME Typed, Typed', uplink = <<>>, downlink = <<>>, uplink' = <<>>,
           errorCounter' = 0, ~Block(lastLp'), lastLp' = sendLoraPack', Transmit,
           Items(downlink') \subseteq {lastLp'}
    PROVE  Budget'
  <1>1. PICK up2, down2, live2 : up2 = uplink' /\ down2 = downlink' /\ live2 = Live'
    OBVIOUS
  <1>2. /\ up2 \in Seq(FrameType) /\ down2 \in Seq(Packs) /\ live2 \in BOOLEAN
        /\ <<>> \in Seq(FrameType) /\ <<>> \in Seq(Packs)
    BY <1>1, NumbersAfter
  <1>3. Items(up2) = {} /\ \A item \in Items(down2) : ~Block(item)
    BY <1>1 DEF Items
  <1>4. \A P : Air(up2, down2, live2, BlocksAt(P)) = 0
    <2>1. SUFFICES ASSUME NEW P PROVE Air(up2, down2, live2, BlocksAt(P)) = 0
      OBVIOUS
    <2>2. /\ \A item \in Items(up2) : item \notin BlocksAt(P)
          /\ \A item \in Items(down2) : item \notin BlocksAt(P)
      BY <1>3 DEF BlocksAt
    <2> QED
      BY <1>2, <2>2, AirNone
  <1>5. Present' = 0 /\ Late' = 0
    BY <1>1, <1>4 DEF Present, Late, OnAir
  <1>6. Creates' <= 1
    <2>1. Air(<<>>, <<>>, TRUE, CreateItems) = 0
      <3>1. Items(<<>>) = {}
        BY DEF Items
      <3> QED
        BY <3>1, AirNone
    <2>2. PICK pack \in Packs : pack = sendLoraPack'
      BY DEF Typed, TransferTypeOK, TypeOK
    <2>3. down2 = <<>> \/ down2 = Sent(<<>>, pack)
      BY <1>1, <2>2 DEF Transmit
    <2>4. Air(up2, down2, TRUE, CreateItems) <= Air(<<>>, <<>>, TRUE, CreateItems) + 1
      BY <1>1, <1>2, <2>3, AirSent
    <2>5. Air(up2, down2, TRUE, CreateItems) <= 1
      <3>1. 0 + 1 = 1
        OBVIOUS
      <3> QED
        BY <2>1, <2>4, <3>1, Zenon
    <2> QED
      BY <1>1, <2>5 DEF Creates
  <1>7. PICK m \in Nat : m = MostBlocks
    BY Most
  <1>8. PICK p \in Nat, l \in Nat, c \in Nat, q \in Nat, e \in Int :
              /\ p = Present' /\ l = Late' /\ c = Creates' /\ q = Promised'
              /\ e = errorCounter'
    BY FiguresAfter
  <1>9. p = 0 /\ l = 0 /\ c <= 1 /\ e = 0 /\ q = RetryCount * c
    <2>1. c <= 1
      BY <1>6, <1>8, Zenon
    <2>2. q = RetryCount * c
      BY <1>8 DEF Promised
    <2> QED
      BY <1>5, <1>8, <2>1, <2>2, Zenon
  <1>10. RetryCount * c + (RetryCount - 1 - e) <= m /\ 0 <= m - 1
    <2>1. c <= e + 1 /\ e \in 0 .. RetryCount - 1
      BY <1>9, Parameters
    <2> QED
      BY <1>7, <2>1, Most
  <1>11. p + q + (RetryCount - 1 - e) <= m /\ l <= m - 1 /\ c <= e + 1
    <2>1. q + (RetryCount - 1 - e) <= m
      BY <1>9, <1>10
    <2> QED
      BY <1>9, <1>10, <2>1, Parameters
  <1> QED
    BY <1>7, <1>8, <1>11, BudgetAfter

\* So a session starts well.
LEMMA RequestQuiet ==
    ASSUME FirstSession, Typed, Typed', Once, AttemptsCounted, MakeRequest PROVE Quiet'
  <1>1. requestsLeft = Requests
    BY NoSecondRequest DEF FirstSession, OneSession
  <1>2. /\ ~alive /\ lastLp = NoPack
        /\ downlink = <<>> /\ uplink = <<>> /\ devBuffer = <<>>
    BY <1>1 DEF Once, Fresh
  <1>3. PICK r \in Requests :
           /\ AcceptedRequest(r) \/ RefusedRequest(r)
           /\ current' = r /\ Transmit /\ UNCHANGED <<uplink, device>>
    BY <1>1 DEF MakeRequest
  <1>4. uplink' = <<>> /\ devBuffer' = <<>>
    BY <1>2, <1>3 DEF device
  <1>5. CASE RefusedRequest(r)
    BY <1>2, <1>5 DEF RefusedRequest, AttemptsCounted, Quiet
  <1>6. CASE AcceptedRequest(r)
    <2>1. /\ lastLp' = sendLoraPack' /\ errorCounter' = 0 /\ ~Block(lastLp')
          /\ waitTimer' = AnswerTimeout /\ idleTimer' = IdleTimeout
      BY <1>6 DEF AcceptedRequest, SendCommand, Block, Pack
    <2>2. Items(downlink') \subseteq {lastLp'} /\ Sendable' \subseteq {lastLp'}
      <3>1. Items(downlink) = {}
        BY <1>2 DEF Items
      <3>2. Items(downlink') \subseteq {sendLoraPack'}
        BY <1>3, <3>1, Emitted DEF Typed, TransferTypeOK
      <3> QED
        BY <2>1, <3>2, SetsAfter
    <2>3. Road'
      BY <1>3, <1>4, <1>6, <2>2, RequestRoad
    <2>4. Budget'
      BY <1>2, <1>3, <1>4, <2>1, <2>2, RequestBudget
    <2>5. Patience'
      BY <2>1, <2>4, Renewed
    <2> QED
      BY <2>3, <2>4, <2>5 DEF Quiet
  <1> QED
    BY <1>3, <1>5, <1>6

\* Nothing but a request begins a session.
LEMMA NotBegun ==
    ASSUME ~alreadySent, TransferNext, ~MakeRequest PROVE ~alreadySent'
  <1>1. IdleDisconnect => ~alreadySent'
    BY DEF IdleDisconnect
  <1>2. CASE ClientLeaves \/ Timer
    BY <1>1, <1>2 DEF ClientLeaves, ClientGone, Timer, Tick, AnswerTumeout, IdleTimeoutFires
  <1>3. CASE ReceiveFrame
    <2>1. CASE Dispatch(Head(uplink))
      BY <1>1, <2>1 DEF Dispatch, CreateBufferAnswer, SendDataBlockAnswer,
         FinishSendPackAnswer, ReceivePackage, CreateBufferCmd, ReceivedDataBlock,
         FinishReceivedPackAnswer
    <2> QED
      BY <1>3, <2>1 DEF ReceiveFrame, object
  <1>4. CASE Lose \/ DeviceStep \/ DeviceReboots
    BY <1>4 DEF Lose, DeviceStep, DeviceReboots, DeviceWritesPackage, DeviceCreatesBuffer,
           DeviceWritesBlock, DeviceFinishes, DeviceReplies, DeviceTakesAck, DeviceTakes,
           ConverterIdle, object
  <1> QED
    BY <1>2, <1>3, <1>4 DEF TransferNext

\* A step in which nothing happens.
LEMMA QuietStutters ==
    ASSUME Typed, Typed', Quiet, UNCHANGED allVars PROVE Quiet'
  <1>1. UNCHANGED <<object, current, downlink, uplink, devBuffer, alreadySent>>
    BY DEF allVars, vars, object, device
  <1>2. SUFFICES ASSUME alreadySent PROVE Quiet'
    BY <1>1 DEF Quiet
  <1>3. BufferSound'
    BY <1>1, <1>2 DEF Quiet, Road, BufferSound, Size
  <1>4. DeviceMoves
    BY <1>1, <1>3 DEF DeviceMoves
  <1> QED
    BY <1>4, DeviceKeepsQuiet

\* What is known of every state, the strengthening included.
Steady == ReplySound /\ AttemptsCounted /\ Watched /\ Quiet

\* All of it is inductive.
LEMMA QuietStep ==
    ASSUME FirstSession, Typed, Steady, [TransferNext]_allVars PROVE Typed' /\ Steady'
  <1>1. Typed' /\ ReplySound'
    BY ReplyStep DEF FirstSession, OneSession, Steady
  <1>2. AttemptsCounted' /\ Watched'
    <2>1. Step /\ TypeOK
      BY TransferStep DEF Typed, TransferTypeOK
    <2> QED
      BY <2>1, AttemptsStep, WatchedStep DEF Steady
  <1>3. alreadySent => alive /\ current \in Requests
    BY DEF Steady, AttemptsCounted, ReplySound, Once, Fresh
  <1>4. alreadySent => InSession
    BY <1>3 DEF Steady, AttemptsCounted, Watched, Quiet, InSession
  <1>5. Quiet'
    <2>1. CASE MakeRequest
      BY <1>1, <2>1, RequestQuiet DEF Steady, ReplySound
    <2>2. CASE TransferNext /\ ~MakeRequest /\ ~alreadySent
      BY <2>2, NotBegun DEF Quiet
    <2>3. CASE TransferNext /\ ~MakeRequest /\ alreadySent
      <3>1. CASE ReceiveFrame
        BY <1>1, <1>4, <2>3, <3>1, SlotsQuiet
      <3>2. CASE Timer \/ ClientLeaves
        BY <1>1, <1>4, <2>3, <3>2, TimersQuiet
      <3>3. CASE Lose \/ DeviceStep \/ DeviceReboots
        BY <1>1, <1>3, <2>3, <3>3, OutsideKeepsQuiet DEF Steady
      <3> QED
        BY <2>3, <3>1, <3>2, <3>3 DEF TransferNext
    <2>4. CASE UNCHANGED allVars
      BY <1>1, <2>4, QuietStutters DEF Steady
    <2> QED
      BY <2>1, <2>2, <2>3, <2>4
  <1> QED
    BY <1>1, <1>2, <1>5 DEF Steady

-----------------------------------------------------------------------------
(* The theorem.                                                            *)

\* The idle period is longer than all attempts of a packet and all late answers
\* that can come before it together.  A condition on the settings that the code
\* does not check: more than 330 s with the default RetryCount of 3 and
\* AnswerTimeout of 30 s, while the default IdleTimeout is 180 s.
LongIdle ==
    IdleTimeout > (RetryCount * RetryCount + RetryCount - 1) * AnswerTimeout

\* An allowance cannot come to an idle period.
LEMMA PatienceEnds ==
    ASSUME LongIdle, Typed, AttemptsCounted, Quiet, alreadySent, idleTimer = 0,
           waitTimer # Stopped
    PROVE  FALSE
  <1>1. PICK k \in Nat, m \in Int, e \in Int, l \in Int, n \in Int :
           /\ k = AnswerTimeout /\ m = MostBlocks /\ e = errorCounter /\ l = Late
           /\ n = RetryCount - 1
    <2>1. /\ AnswerTimeout \in Nat /\ MostBlocks \in Int /\ errorCounter \in Int
          /\ Late \in Int /\ RetryCount - 1 \in Int
      BY Numbers
    <2> QED
      BY <2>1, Zenon
  <1>2. e - l <= n - 0
    <2>1. errorCounter \in 0 .. RetryCount - 1 /\ Late \in Nat
      BY Numbers DEF AttemptsCounted
    <2>2. e <= n /\ l >= 0
      BY <1>1, <2>1
    <2> QED
      BY <2>2
  <1>3. k * (m + e - l) <= k * (m + n - 0)
    BY <1>2, Worth
  <1>4. PICK a \in Int, b \in Int : a = k * (m + e - l) /\ b = k * (m + n - 0)
    BY Worth
  <1>5. Allowance = a
    BY <1>1, <1>4 DEF Allowance
  <1>6. IdleTimeout > b
    <2>1. PICK s \in Int : s = RetryCount * RetryCount /\ s = m
      BY <1>1 DEF MostBlocks
    <2>2. (RetryCount * RetryCount + RetryCount - 1) = m + n - 0
      <3>1. s + RetryCount - 1 = s + n - 0
        BY <1>1, Parameters
      <3> QED
        BY <2>1, <3>1
    <2>3. IdleTimeout > (m + n - 0) * k
      BY <1>1, <2>2 DEF LongIdle
    <2>4. (m + n - 0) * k = k * (m + n - 0)
      OBVIOUS
    <2> QED
      BY <1>4, <2>3, <2>4
  <1>7. (IdleTimeout - idleTimer) + waitTimer <= a
    BY <1>5 DEF Quiet, Patience
  <1>8. waitTimer \in Nat
    BY Parameters DEF Typed, TransferTypeOK, TypeOK, Stopped
  <1> QED
    BY <1>3, <1>4, <1>6, <1>7, <1>8, Parameters

\* With such settings the idle timer never closes a session of which a packet
\* awaits its answer: idleTimer is left alone by answerTumeout and by repeated
\* answers, but only so many of either can come between two new packets.
THEOREM IdlePeriodIsQuiet ==
    ASSUME FirstSession, LongIdle
    PROVE  TransferSpec => []QuietIdle
  <1>1. TransferInit => Typed /\ Steady
    <2>1. TransferInit => Typed /\ ReplySound
      BY ReplyInit
    <2>2. Init => AttemptsCounted /\ Watched /\ Quiet
      BY Zenon DEF Init, AttemptsCounted, Watched, Quiet
    <2> QED
      BY <2>1, <2>2 DEF TransferInit, Steady
  <1>2. Typed /\ Steady /\ [TransferNext]_allVars => Typed' /\ Steady'
    BY QuietStep
  <1>3. Typed /\ Steady => QuietIdle
    BY PatienceEnds DEF Steady, QuietIdle
  <1> QED
    BY <1>1, <1>2, <1>3, PTL DEF TransferSpec

=============================================================================
