------------------------------ MODULE WireProofs ------------------------------
(***************************************************************************)
(* What Crc32 and Wire guarantee for all requests, replies and block sizes *)
(* whose sizes fit into a field of 16 bits: the CRC of the code is CRC-32, *)
(* and the bytes the two sides put together and take apart agree.          *)
(***************************************************************************)
EXTENDS Wire, SequenceTheorems, TLAPS

-----------------------------------------------------------------------------
(* The CRC.                                                                *)

\* A step of one bit gives a word.
LEMMA BitStepType ==
    ASSUME NEW w \in Word
    PROVE  BitStep(w) \in Word
  BY DEF BitStep, Word, Xor, ShiftRight, Polynomial

\* Xor of words is a word.
LEMMA XorType ==
    ASSUME NEW v \in Word, NEW w \in Word
    PROVE  Xor(v, w) \in Word
  BY DEF Word, Xor

\* A shifted word is a word.
LEMMA ShiftType ==
    ASSUME NEW w, NEW n \in Nat
    PROVE  ShiftRight(w, n) \in Word
  BY DEF Word, ShiftRight

\* Where a step of one bit leaves a one.
LEMMA BitStepPlaces ==
    ASSUME NEW w \in Word, NEW j
    PROVE  j \in BitStep(w) <=>
               ~ ((j \in ShiftRight(w, 1)) <=> (0 \in w /\ j \in Polynomial))
  <1>1. CASE 0 \in w
    BY <1>1 DEF BitStep, Xor
  <1>2. CASE 0 \notin w
    BY <1>2 DEF BitStep
  <1> QED
    BY <1>1, <1>2

\* A step of one bit is linear: that of a sum is the sum of those of its parts.
LEMMA BitStepLinear ==
    ASSUME NEW v \in Word, NEW w \in Word
    PROVE  BitStep(Xor(v, w)) = Xor(BitStep(v), BitStep(w))
  <1>0. Xor(v, w) \in Word
    BY XorType
  <1>1. \A j : j \in ShiftRight(Xor(v, w), 1) <=>
                   ~ (j \in ShiftRight(v, 1) <=> j \in ShiftRight(w, 1))
    BY DEF ShiftRight, Xor
  <1>2. 0 \in Xor(v, w) <=> ~ (0 \in v <=> 0 \in w)
    BY DEF Xor
  <1>3. ASSUME NEW j
        PROVE  j \in BitStep(Xor(v, w)) <=> ~ (j \in BitStep(v) <=> j \in BitStep(w))
    BY <1>0, <1>1, <1>2, BitStepPlaces
  <1>4. \A j : j \in Xor(BitStep(v), BitStep(w)) <=>
                   ~ (j \in BitStep(v) <=> j \in BitStep(w))
    BY DEF Xor
  <1> QED
    BY <1>3, <1>4

\* And so are two of them.
LEMMA TwoBitStepsLinear ==
    ASSUME NEW v \in Word, NEW w \in Word
    PROVE  /\ TwoBitSteps(Xor(v, w)) = Xor(TwoBitSteps(v), TwoBitSteps(w))
           /\ TwoBitSteps(v) \in Word
  BY BitStepLinear, BitStepType DEF TwoBitSteps

\* And four.
LEMMA FourBitStepsLinear ==
    ASSUME NEW v \in Word, NEW w \in Word
    PROVE  /\ FourBitSteps(Xor(v, w)) = Xor(FourBitSteps(v), FourBitSteps(w))
           /\ FourBitSteps(v) \in Word
  BY TwoBitStepsLinear DEF FourBitSteps

\* Shifts add up.
LEMMA ShiftShift ==
    ASSUME NEW w \in Word, NEW m \in Nat, NEW n \in Nat
    PROVE  ShiftRight(ShiftRight(w, m), n) = ShiftRight(w, m + n)
  BY DEF ShiftRight, Word

\* Two steps shift a word that has no ones at the last two places.
LEMMA TwoBitStepsShift ==
    ASSUME NEW w \in Word, 0 \notin w, 1 \notin w
    PROVE  TwoBitSteps(w) = ShiftRight(w, 2)
  <1>1. BitStep(w) = ShiftRight(w, 1)
    BY DEF BitStep
  <1>2. 0 \notin ShiftRight(w, 1)
    BY DEF ShiftRight
  <1>3. BitStep(ShiftRight(w, 1)) = ShiftRight(ShiftRight(w, 1), 1)
    BY <1>2 DEF BitStep
  <1> QED
    BY <1>1, <1>3, ShiftShift DEF TwoBitSteps

\* And eight one that has none at the last eight.
LEMMA EightBitStepsShift ==
    ASSUME NEW w \in Word, \A i \in 0 .. 7 : i \notin w
    PROVE  FourBitSteps(FourBitSteps(w)) = ShiftRight(w, 8)
  <1>1. FourBitSteps(w) = ShiftRight(w, 4)
    <2>1. TwoBitSteps(w) = ShiftRight(w, 2)
      BY TwoBitStepsShift
    <2>2. ShiftRight(w, 2) \in Word /\ 0 \notin ShiftRight(w, 2) /\ 1 \notin ShiftRight(w, 2)
      BY DEF ShiftRight, Word
    <2>3. TwoBitSteps(ShiftRight(w, 2)) = ShiftRight(ShiftRight(w, 2), 2)
      BY <2>2, TwoBitStepsShift
    <2> QED
      BY <2>1, <2>3, ShiftShift DEF FourBitSteps
  <1>2. ShiftRight(w, 4) \in Word
    BY ShiftType
  <1>3. \A i \in 0 .. 3 : i \notin ShiftRight(w, 4)
    BY DEF ShiftRight
  <1>4. FourBitSteps(ShiftRight(w, 4)) = ShiftRight(ShiftRight(w, 4), 4)
    <2>1. TwoBitSteps(ShiftRight(w, 4)) = ShiftRight(ShiftRight(w, 4), 2)
      BY <1>2, <1>3, TwoBitStepsShift
    <2>2. ShiftRight(ShiftRight(w, 4), 2) = ShiftRight(w, 6)
      BY ShiftShift
    <2>3. ShiftRight(w, 6) \in Word /\ 0 \notin ShiftRight(w, 6) /\ 1 \notin ShiftRight(w, 6)
      BY DEF ShiftRight, Word
    <2>4. TwoBitSteps(ShiftRight(w, 6)) = ShiftRight(ShiftRight(w, 6), 2)
      BY <2>3, TwoBitStepsShift
    <2>5. /\ ShiftRight(ShiftRight(w, 6), 2) = ShiftRight(w, 8)
          /\ ShiftRight(ShiftRight(w, 4), 4) = ShiftRight(w, 8)
      BY ShiftShift
    <2> QED
      BY <2>1, <2>2, <2>4, <2>5 DEF FourBitSteps
  <1> QED
    BY <1>1, <1>4, ShiftShift

\* Taking a sum of different powers of two apart.
LEMMA PowersOfTwo ==
    ASSUME NEW n \in Nat, NEW b0 \in 0 .. 1, NEW b1 \in 0 .. 1, NEW b2 \in 0 .. 1,
           NEW b3 \in 0 .. 1, NEW b4 \in 0 .. 1, NEW b5 \in 0 .. 1, NEW b6 \in 0 .. 1,
           NEW b7 \in 0 .. 1,
           n = b0 + 2 * b1 + 4 * b2 + 8 * b3 + 16 * b4 + 32 * b5 + 64 * b6 + 128 * b7
    PROVE  /\ n \in Byte
           /\ (n \div 1) % 2 = b0
           /\ (n \div 2) % 2 = b1
           /\ (n \div 4) % 2 = b2
           /\ (n \div 8) % 2 = b3
           /\ (n \div 16) % 2 = b4
           /\ (n \div 32) % 2 = b5
           /\ (n \div 64) % 2 = b6
           /\ (n \div 128) % 2 = b7
  BY DEF Byte

\* A set of places below 8 is that of the ones of a byte.
LEMMA BitsOfOctet ==
    ASSUME NEW s \in SUBSET (0 .. 7)
    PROVE  OctetOf(s) \in Byte /\ Bits(OctetOf(s)) = s
  <1> DEFINE b(i) == IF i \in s THEN 1 ELSE 0
  <1>1. /\ \E x \in 0 .. 1 : x = b(0)
        /\ \E x \in 0 .. 1 : x = b(1)
        /\ \E x \in 0 .. 1 : x = b(2)
        /\ \E x \in 0 .. 1 : x = b(3)
        /\ \E x \in 0 .. 1 : x = b(4)
        /\ \E x \in 0 .. 1 : x = b(5)
        /\ \E x \in 0 .. 1 : x = b(6)
        /\ \E x \in 0 .. 1 : x = b(7)
    OBVIOUS
  <1>2. PICK b0 \in 0 .. 1 : b0 = b(0)
    BY <1>1
  <1>3. PICK b1 \in 0 .. 1 : b1 = b(1)
    BY <1>1
  <1>4. PICK b2 \in 0 .. 1 : b2 = b(2)
    BY <1>1
  <1>5. PICK b3 \in 0 .. 1 : b3 = b(3)
    BY <1>1
  <1>6. PICK b4 \in 0 .. 1 : b4 = b(4)
    BY <1>1
  <1>7. PICK b5 \in 0 .. 1 : b5 = b(5)
    BY <1>1
  <1>8. PICK b6 \in 0 .. 1 : b6 = b(6)
    BY <1>1
  <1>9. PICK b7 \in 0 .. 1 : b7 = b(7)
    BY <1>1
  <1> DEFINE n == b0 + 2 * b1 + 4 * b2 + 8 * b3 + 16 * b4 + 32 * b5 + 64 * b6 + 128 * b7
  <1>10. OctetOf(s) = n
    BY <1>2, <1>3, <1>4, <1>5, <1>6, <1>7, <1>8, <1>9 DEF OctetOf, Weight
  <1>11. n \in Nat
    OBVIOUS
  <1>12. /\ n \in Byte
         /\ (n \div 1) % 2 = b0
         /\ (n \div 2) % 2 = b1
         /\ (n \div 4) % 2 = b2
         /\ (n \div 8) % 2 = b3
         /\ (n \div 16) % 2 = b4
         /\ (n \div 32) % 2 = b5
         /\ (n \div 64) % 2 = b6
         /\ (n \div 128) % 2 = b7
    BY <1>11, PowersOfTwo
  <1> HIDE DEF n
  <1>13. Bits(n) \subseteq 0 .. 7
    BY DEF Bits, Places
  <1>14. ASSUME NEW i \in 0 .. 7
         PROVE  i \in Bits(n) <=> i \in s
    <2>1. i \in Bits(n) <=> (n \div Weight[i + 1]) % 2 = 1
      BY DEF Bits, Places
    <2>2. i = 0 \/ i = 1 \/ i = 2 \/ i = 3 \/ i = 4 \/ i = 5 \/ i = 6 \/ i = 7
      OBVIOUS
    <2> QED
      BY <2>1, <2>2, <1>2, <1>3, <1>4, <1>5, <1>6, <1>7, <1>8, <1>9, <1>12 DEF Weight
  <1> QED
    BY <1>10, <1>12, <1>13, <1>14

\* One round of the code's loop is eight steps of one bit.
LEMMA CrcStepIsOctetStep ==
    ASSUME NEW octet \in Byte, NEW w \in Word
    PROVE  CrcStep(octet, w) = OctetStep(octet, w)
  <1> DEFINE high == w \ 0 .. 7
             index == Xor(w \cap 0 .. 7, Bits(octet))
             Eight(v) == FourBitSteps(FourBitSteps(v))
  <1>1. high \in Word
    BY DEF Word
  <1>2. Bits(octet) \in SUBSET (0 .. 7)
    BY DEF Bits, Places
  <1>3. index \in SUBSET (0 .. 7)
    BY <1>2 DEF Xor
  <1>4. index \in Word
    BY <1>3 DEF Word
  <1>5. Xor(w, Bits(octet)) = Xor(high, index)
    BY <1>2 DEF Xor
  <1> HIDE DEF index
  <1>6. Eight(Xor(high, index)) = Xor(Eight(high), Eight(index))
    <2> HIDE DEF high
    <2> QED BY <1>1, <1>4, FourBitStepsLinear
  <1>7. Eight(high) = ShiftRight(w, 8)
    <2>1. Eight(high) = ShiftRight(high, 8)
      BY <1>1, EightBitStepsShift
    <2>2. ShiftRight(high, 8) = ShiftRight(w, 8)
      BY DEF ShiftRight
    <2> QED BY <2>1, <2>2
  <1>8. Eight(index) = CrcTable(OctetOf(index))
    <2>1. OctetOf(index) \in Byte /\ Bits(OctetOf(index)) = index
      BY <1>3, BitsOfOctet
    <2>2. CrcTable(OctetOf(index)) = OctetStep(OctetOf(index), {})
      BY <2>1, TableIsCrc32
    <2>3. Xor({}, index) = index
      BY DEF Xor
    <2> QED
      BY <2>1, <2>2, <2>3 DEF OctetStep
  <1> QED
    BY <1>5, <1>6, <1>7, <1>8 DEF CrcStep, OctetStep, index

\* crc32_fsl of a buffer is its CRC-32.
THEOREM CrcCorrect ==
    ASSUME NEW buf \in Seq(Byte)
    PROVE  crc32_fsl({}, buf) = Crc32Of(buf)
  <1>1. [p \in Byte \X Word |-> CrcStep(p[1], p[2])]
        = [p \in Byte \X Word |-> OctetStep(p[1], p[2])]
    BY CrcStepIsOctetStep
  <1>2. Complement({}) = 0 .. 31
    BY DEF Complement
  <1> QED
    BY <1>1, <1>2, Zenon DEF crc32_fsl, Crc32Of

-----------------------------------------------------------------------------
(* Putting together and taking apart.                                      *)

\* Two bytes are two bytes.
LEMMA TwoType ==
    ASSUME NEW n \in Int
    PROVE  /\ Two(n) \in Seq(Byte)
           /\ Len(Two(n)) = 2
           /\ Two(n)[1] = (n \div 256) % 256
           /\ Two(n)[2] = n % 256
  <1>1. (n \div 256) % 256 \in Byte /\ n % 256 \in Byte
    BY DEF Byte
  <1> QED
    BY <1>1 DEF Two

\* A message with a head is as long as both its parts.
LEMMA CatType ==
    ASSUME NEW h \in Seq(Byte), NEW d \in Seq(Byte)
    PROVE  h \o d \in Seq(Byte) /\ Len(h \o d) = Len(h) + Len(d)
  OBVIOUS

\* The head of a message is read at its first places.
LEMMA AtHead ==
    ASSUME NEW h \in Seq(Byte), NEW d \in Seq(Byte), NEW i \in Nat, i < Len(h)
    PROVE  At(h \o d, i) = h[i + 1]
  BY CatType DEF At

\* The part behind it is read at the places that begin behind the head.
LEMMA AtBehind ==
    ASSUME NEW h \in Seq(Byte), NEW d \in Seq(Byte), NEW i \in Nat
    PROVE  At(h \o d, Len(h) + i) = At(d, i)
  BY CatType DEF At

\* So are its numbers.
LEMMA TwoAtBehind ==
    ASSUME NEW h \in Seq(Byte), NEW d \in Seq(Byte), NEW i \in Nat
    PROVE  TwoAt(h \o d, Len(h) + i) = TwoAt(d, i)
  <1>1. At(h \o d, Len(h) + i) = At(d, i)
    BY AtBehind
  <1>2. i + 1 \in Nat /\ Len(h) \in Nat
    OBVIOUS
  <1>3. At(h \o d, Len(h) + (i + 1)) = At(d, i + 1)
    BY <1>2, AtBehind, Zenon
  <1>4. (Len(h) + i) + 1 = Len(h) + (i + 1)
    BY <1>2
  <1> QED
    BY <1>1, <1>3, <1>4, Zenon DEF TwoAt

\* What right() leaves when the head is taken off.
LEMMA RightOfHead ==
    ASSUME NEW h \in Seq(Byte), NEW d \in Seq(Byte)
    PROVE  Right(h \o d, Len(h \o d) - Len(h)) = d
  <1> DEFINE s == h \o d
  <1>1. s \in Seq(Byte) /\ Len(s) = Len(h) + Len(d)
    OBVIOUS
  <1>2. Right(s, Len(s) - Len(h)) = SubSeq(s, Len(h) + 1, Len(h) + Len(d))
    BY <1>1 DEF Right
  <1>3. SubSeq(s, Len(h) + 1, Len(h) + Len(d)) = d
    BY SubSeqOfConcat2
  <1> QED
    BY <1>2, <1>3

\* The numbers that fit into a field of 16 bits.
Short == {n \in Nat : n < 65536}

\* The two bytes of a number of 16 bits make it up.
LEMMA TwoValue ==
    ASSUME NEW n \in Short
    PROVE  256 * ((n \div 256) % 256) + (n % 256) = n
  <1>0. n \in Nat /\ n < 65536
    BY DEF Short
  <1>1. (n \div 256) % 256 = n \div 256
    BY <1>0
  <1>2. 256 * (n \div 256) + (n % 256) = n
    BY <1>0
  <1> QED
    BY <1>1, <1>2

\* A number is read from its two bytes.
LEMMA TwoAtHead ==
    ASSUME NEW n \in Nat, NEW d \in Seq(Byte)
    PROVE  /\ At(Two(n) \o d, 0) = (n \div 256) % 256
           /\ At(Two(n) \o d, 1) = n % 256
  <1>0. n \in Int
    OBVIOUS
  <1>1. Two(n) \in Seq(Byte) /\ Len(Two(n)) = 2
    BY <1>0, TwoType, Zenon
  <1>2. 0 < Len(Two(n)) /\ 1 < Len(Two(n)) /\ 0 + 1 = 1 /\ 1 + 1 = 2
    BY <1>1
  <1>3. At(Two(n) \o d, 0) = Two(n)[0 + 1] /\ At(Two(n) \o d, 1) = Two(n)[1 + 1]
    BY <1>1, <1>2, AtHead
  <1>4. Two(n)[0 + 1] = (n \div 256) % 256 /\ Two(n)[1 + 1] = n % 256
    <2>1. Two(n)[1] = (n \div 256) % 256 /\ Two(n)[2] = n % 256
      BY <1>0, TwoType
    <2>2. 0 + 1 = 1 /\ 1 + 1 = 2
      OBVIOUS
    <2> QED
      BY <2>1, <2>2
  <1> QED
    BY <1>3, <1>4

\* A number of 16 bits is read as it was written.
LEMMA ReadTwo ==
    ASSUME NEW n \in Short, NEW d \in Seq(Byte)
    PROVE  TwoAt(Two(n) \o d, 0) = n
  <1>0. n \in Nat
    BY DEF Short
  <1>1. TwoAt(Two(n) \o d, 0) = 256 * At(Two(n) \o d, 0) + At(Two(n) \o d, 1)
    BY DEF TwoAt
  <1>2. TwoAt(Two(n) \o d, 0) = 256 * ((n \div 256) % 256) + (n % 256)
    <2>1. At(Two(n) \o d, 0) = (n \div 256) % 256 /\ At(Two(n) \o d, 1) = n % 256
      BY <1>0, TwoAtHead, Zenon
    <2> QED
      BY <1>1, <2>1, Zenon
  <1> QED
    BY <1>2, TwoValue

\* And at the end of a message.
LEMMA ReadLastTwo ==
    ASSUME NEW n \in Short
    PROVE  TwoAt(Two(n), 0) = n
  <1>1. Two(n) \o <<>> = Two(n)
    BY DEF Two
  <1>2. <<>> \in Seq(Byte)
    OBVIOUS
  <1>3. TwoAt(Two(n) \o <<>>, 0) = n
    BY <1>2, ReadTwo, Zenon
  <1> QED
    BY <1>1, <1>3, Zenon

\* Four bytes are four bytes.
LEMMA FourType ==
    ASSUME NEW w \in Word
    PROVE  /\ Four(w) \in Seq(Byte)
           /\ Len(Four(w)) = 4
           /\ Bits(Four(w)[1]) = ShiftRight(w, 24) \cap 0 .. 7
           /\ Bits(Four(w)[2]) = ShiftRight(w, 16) \cap 0 .. 7
           /\ Bits(Four(w)[3]) = ShiftRight(w, 8) \cap 0 .. 7
           /\ Bits(Four(w)[4]) = ShiftRight(w, 0) \cap 0 .. 7
  <1> DEFINE places(n) == ShiftRight(w, n) \cap 0 .. 7
  <1>1. \A n \in Nat : places(n) \in SUBSET (0 .. 7)
    OBVIOUS
  <1>2. \A n \in Nat : OctetOf(places(n)) \in Byte /\ Bits(OctetOf(places(n))) = places(n)
    BY <1>1, BitsOfOctet
  <1>3. Four(w) = <<OctetOf(places(24)), OctetOf(places(16)), OctetOf(places(8)),
                    OctetOf(places(0))>>
    BY DEF Four
  <1> HIDE DEF places
  <1>4. /\ Four(w) \in Seq(Byte)
        /\ Len(Four(w)) = 4
        /\ Bits(Four(w)[1]) = places(24)
        /\ Bits(Four(w)[2]) = places(16)
        /\ Bits(Four(w)[3]) = places(8)
        /\ Bits(Four(w)[4]) = places(0)
    BY <1>2, <1>3
  <1> QED
    BY <1>4 DEF places

\* A number of 32 bits is read as it was written.
LEMMA ReadFour ==
    ASSUME NEW h \in Seq(Byte), NEW w \in Word
    PROVE  FourAt(h \o Four(w), Len(h)) = w
  <1>0. PICK f \in Seq(Byte) : f = Four(w)
    BY FourType
  <1>1. PICK s \in Seq(Byte) : s = h \o f
    <2>1. h \o f \in Seq(Byte)
      BY <1>0
    <2> QED
      BY <2>1
  <1>2. Len(f) = 4 /\ Len(s) = Len(h) + 4
    <2>1. Len(f) = 4
      BY <1>0, FourType, Zenon
    <2>2. Len(h \o f) = Len(h) + Len(f)
      BY <1>0, CatType, Zenon
    <2> QED
      BY <1>1, <2>1, <2>2, Zenon
  <1>9. \A k \in 1 .. 4 : s[Len(h) + k] = Four(w)[k]
    BY <1>0, <1>1, <1>2
  <1>3. FourAt(s, Len(h)) = {n \in 0 .. 31 : n % 8 \in Bits(s[Len(h) + 4 - n \div 8])}
    BY <1>2 DEF FourAt
  <1>4. ASSUME NEW n \in 0 .. 31
        PROVE  n % 8 \in Bits(s[Len(h) + 4 - n \div 8]) <=> n \in w
    <2>1. n \div 8 = 0 \/ n \div 8 = 1 \/ n \div 8 = 2 \/ n \div 8 = 3
      OBVIOUS
    <2>2. CASE n \div 8 = 0
      <3>1. s[Len(h) + 4 - n \div 8] = Four(w)[4]
        BY <1>9, <2>2
      <3>2. n % 8 = n /\ n \in 0 .. 7
        BY <2>2
      <3>3. n \in ShiftRight(w, 0) \cap 0 .. 7 <=> n \in w
        BY <3>2 DEF ShiftRight
      <3> QED
        BY <3>1, <3>2, <3>3, FourType
    <2>3. CASE n \div 8 = 1
      <3>1. s[Len(h) + 4 - n \div 8] = Four(w)[3]
        BY <1>9, <2>3
      <3>2. (n % 8) + 8 = n /\ n % 8 \in 0 .. 7
        BY <2>3
      <3>3. n % 8 \in ShiftRight(w, 8) \cap 0 .. 7 <=> n \in w
        BY <3>2 DEF ShiftRight
      <3> QED
        BY <3>1, <3>2, <3>3, FourType
    <2>4. CASE n \div 8 = 2
      <3>1. s[Len(h) + 4 - n \div 8] = Four(w)[2]
        BY <1>9, <2>4
      <3>2. (n % 8) + 16 = n /\ n % 8 \in 0 .. 7
        BY <2>4
      <3>3. n % 8 \in ShiftRight(w, 16) \cap 0 .. 7 <=> n \in w
        BY <3>2 DEF ShiftRight
      <3> QED
        BY <3>1, <3>2, <3>3, FourType
    <2>5. CASE n \div 8 = 3
      <3>1. s[Len(h) + 4 - n \div 8] = Four(w)[1]
        BY <1>9, <2>5
      <3>2. (n % 8) + 24 = n /\ n % 8 \in 0 .. 7
        BY <2>5
      <3>3. n % 8 \in ShiftRight(w, 24) \cap 0 .. 7 <=> n \in w
        BY <3>2 DEF ShiftRight
      <3> QED
        BY <3>1, <3>2, <3>3, FourType
    <2> QED
      BY <2>1, <2>2, <2>3, <2>4, <2>5
  <1>5. w \subseteq 0 .. 31
    BY DEF Word
  <1> QED
    BY <1>0, <1>1, <1>3, <1>4, <1>5

\* A CRC is a word.
LEMMA CrcType ==
    ASSUME NEW buf
    PROVE  Crc32Of(buf) \in Word
  BY DEF Crc32Of, Complement, Word

\* What packets and frames have in common: a code, a byte, and the rest.
Message(code, b, rest) == Two(code) \o (<<b>> \o rest)

\* A byte is a message.
LEMMA OneByte ==
    ASSUME NEW b \in Byte
    PROVE  <<b>> \in Seq(Byte) /\ Len(<<b>>) = 1 /\ At(<<b>>, 0) = b
  BY DEF At

\* A message is bytes.
LEMMA MessageType ==
    ASSUME NEW code \in Short, NEW b \in Byte, NEW rest \in Seq(Byte)
    PROVE  /\ Message(code, b, rest) \in Seq(Byte)
           /\ Message(code, b, rest) # <<>>
           /\ Len(Message(code, b, rest)) = 3 + Len(rest)
  <1>0. code \in Int
    BY DEF Short
  <1>1. PICK h \in Seq(Byte) : h = Two(code)
    BY <1>0, TwoType, Zenon
  <1>2. Len(h) = 2
    BY <1>0, <1>1, TwoType, Zenon
  <1>3. <<b>> \o rest \in Seq(Byte) /\ Len(<<b>> \o rest) = Len(<<b>>) + Len(rest)
    BY OneByte, CatType, Zenon
  <1>4. PICK t \in Seq(Byte) : t = <<b>> \o rest
    BY <1>3, Zenon
  <1>5. Len(t) = 1 + Len(rest)
    BY <1>3, <1>4, OneByte, Zenon
  <1>6. h \o t \in Seq(Byte) /\ Len(h \o t) = Len(h) + Len(t)
    BY <1>1, <1>4, CatType, Zenon
  <1>7. PICK s \in Seq(Byte) : s = h \o t
    BY <1>6, Zenon
  <1>8. Len(s) = 3 + Len(rest)
    <2>1. Len(s) = Len(h) + Len(t)
      BY <1>6, <1>7, Zenon
    <2> QED
      BY <1>2, <1>5, <2>1
  <1>9. s # <<>>
    BY <1>7, <1>8
  <1> QED
    BY <1>1, <1>4, <1>7, <1>8, <1>9, Zenon DEF Message

\* The parts of a message are read as they were written.
LEMMA MessageRead ==
    ASSUME NEW code \in Short, NEW b \in Byte, NEW rest \in Seq(Byte)
    PROVE  /\ TwoAt(Message(code, b, rest), 0) = code
           /\ At(Message(code, b, rest), 2) = b
           /\ \A i \in Nat : At(Message(code, b, rest), 3 + i) = At(rest, i)
           /\ \A i \in Nat : TwoAt(Message(code, b, rest), 3 + i) = TwoAt(rest, i)
           /\ Right(Message(code, b, rest), Len(Message(code, b, rest)) - 3) = rest
  <1>0. code \in Int
    BY DEF Short
  <1>1. PICK h \in Seq(Byte) : h = Two(code)
    BY <1>0, TwoType, Zenon
  <1>2. Len(h) = 2
    BY <1>0, <1>1, TwoType, Zenon
  <1>3. PICK x \in Seq(Byte) : x = <<b>>
    BY OneByte, Zenon
  <1>4. Len(x) = 1 /\ At(x, 0) = b
    BY <1>3, OneByte, Zenon
  <1>5. PICK t \in Seq(Byte) : t = x \o rest
    BY <1>3, CatType, Zenon
  <1>6. PICK g \in Seq(Byte) : g = h \o x
    BY <1>1, <1>3, CatType, Zenon
  <1>7. Len(g) = 3
    <2>1. Len(g) = Len(h) + Len(x)
      BY <1>1, <1>3, <1>6, CatType, Zenon
    <2> QED
      BY <1>2, <1>4, <2>1
  <1>8. PICK s \in Seq(Byte) : s = h \o t
    BY <1>1, <1>5, CatType, Zenon
  <1>9. s = g \o rest
    <2>1. (h \o x) \o rest = h \o (x \o rest)
      BY <1>1, <1>3, ConcatAssociative
    <2> QED
      BY <1>5, <1>6, <1>8, <2>1, Zenon
  <1>10. s = Message(code, b, rest)
    BY <1>1, <1>3, <1>5, <1>8, Zenon DEF Message
  <1>11. TwoAt(s, 0) = code
    BY <1>1, <1>5, <1>8, ReadTwo, Zenon
  <1>12. At(s, 2) = b
    <2>0. 0 \in Nat /\ 0 < Len(x) /\ x[0 + 1] = x[1]
      BY <1>4
    <2>1. At(h \o t, Len(h) + 0) = At(t, 0)
      BY <1>1, <1>5, <2>0, AtBehind, Zenon
    <2>2. At(x \o rest, 0) = x[0 + 1]
      BY <1>3, <2>0, AtHead, Zenon
    <2>3. At(t, 0) = x[1]
      BY <1>5, <2>0, <2>2, Zenon
    <2>4. x[1] = b
      BY <1>3
    <2>5. Len(h) + 0 = 2
      BY <1>2
    <2> QED
      BY <1>8, <2>1, <2>3, <2>4, <2>5, Zenon
  <1>13. ASSUME NEW i \in Nat
         PROVE  At(s, 3 + i) = At(rest, i) /\ TwoAt(s, 3 + i) = TwoAt(rest, i)
    <2>1. At(g \o rest, Len(g) + i) = At(rest, i)
      BY <1>6, AtBehind, Zenon
    <2>2. TwoAt(g \o rest, Len(g) + i) = TwoAt(rest, i)
      BY <1>6, TwoAtBehind, Zenon
    <2> QED
      BY <1>7, <1>9, <2>1, <2>2, Zenon
  <1>14. Right(s, Len(s) - 3) = rest
    <2>1. Right(g \o rest, Len(g \o rest) - Len(g)) = rest
      BY <1>6, RightOfHead, Zenon
    <2> QED
      BY <1>7, <1>9, <2>1, Zenon
  <1> QED
    BY <1>10, <1>11, <1>12, <1>13, <1>14, Zenon

\* So are a number and what follows it.
LEMMA NumberRead ==
    ASSUME NEW n \in Short, NEW rest \in Seq(Byte)
    PROVE  /\ Two(n) \o rest \in Seq(Byte)
           /\ Len(Two(n) \o rest) = 2 + Len(rest)
           /\ TwoAt(Two(n) \o rest, 0) = n
           /\ \A i \in Nat : At(Two(n) \o rest, 2 + i) = At(rest, i)
           /\ \A i \in Nat : TwoAt(Two(n) \o rest, 2 + i) = TwoAt(rest, i)
           /\ Right(Two(n) \o rest, Len(Two(n) \o rest) - 2) = rest
  <1>0. n \in Int
    BY DEF Short
  <1>1. PICK h \in Seq(Byte) : h = Two(n)
    BY <1>0, TwoType, Zenon
  <1>2. Len(h) = 2
    BY <1>0, <1>1, TwoType, Zenon
  <1>3. h \o rest \in Seq(Byte) /\ Len(h \o rest) = Len(h) + Len(rest)
    BY <1>1, CatType, Zenon
  <1>4. ASSUME NEW i \in Nat
        PROVE  At(h \o rest, 2 + i) = At(rest, i) /\ TwoAt(h \o rest, 2 + i) = TwoAt(rest, i)
    <2>1. At(h \o rest, Len(h) + i) = At(rest, i)
      BY <1>1, AtBehind, Zenon
    <2>2. TwoAt(h \o rest, Len(h) + i) = TwoAt(rest, i)
      BY <1>1, TwoAtBehind, Zenon
    <2> QED
      BY <1>2, <2>1, <2>2, Zenon
  <1>5. Right(h \o rest, Len(h \o rest) - 2) = rest
    BY <1>1, <1>2, RightOfHead, Zenon
  <1>6. TwoAt(Two(n) \o rest, 0) = n
    BY ReadTwo, Zenon
  <1> QED
    BY <1>1, <1>2, <1>3, <1>4, <1>5, <1>6, Zenon

\* The codes are numbers of 16 bits, each of one command.
LEMMA CodeValues ==
    /\ Code("SEND_DATA_BLOCK_CMD") = 33792
    /\ Code("DEV_CREATE_BUFFER_CMD") = 33793
    /\ Code("FINISH_SEND_DATA_CMD") = 33794
    /\ Code("SEND_PACKAGE_ANSWER_CMD") = 35072
    /\ Code("RECEIVE_PACKAGE_CMD") = 35073
    /\ Code("DEV_RECEIVE_DATA_BLOCK_CMD") = 33795
    /\ Code("DEV_CREATE_BUFFER") = 33796
    /\ Code("DEV_FINISH_RECV_DATA_CMD") = 33797
    /\ Code("APP_RECEIVE_DATA_BLOCK_CMD") = 50179
    /\ Code("APP_CREATE_BUFFER") = 50180
    /\ Code("APP_FINISH_RECV_DATA_CMD") = 50181
  BY DEF Code

\* A code fits into a field of 16 bits.
LEMMA CodeType ==
    ASSUME NEW cmd \in Commands \cup FrameCommands
    PROVE  Code(cmd) \in Short
  <1>1. Code(cmd) \in {33792, 33793, 33794, 35072, 35073, 33795, 33796, 33797,
                      50179, 50180, 50181}
    BY CodeValues DEF Commands, FrameCommands
  <1>2. PICK n \in Nat : n = Code(cmd)
    BY <1>1
  <1>3. n < 65536
    BY <1>1, <1>2
  <1>4. n \in Short
    BY <1>2, <1>3 DEF Short
  <1> QED
    BY <1>2, <1>4, Zenon

\* So are those of the answers.
LEMMA AnswerType ==
    ASSUME NEW cmd \in {"SEND_PACKAGE_ANSWER_CMD", "DEV_CREATE_BUFFER_CMD",
                        "SEND_DATA_BLOCK_CMD", "FINISH_SEND_DATA_CMD"}
    PROVE  AnswerTo(cmd) \in Short
  <1>1. Code(cmd) \in {33792, 33793, 33794, 35072}
    BY CodeValues
  <1>2. PICK n \in Nat : n = Code(cmd)
    BY <1>1
  <1>3. n + 64 * 256 < 65536
    BY <1>1, <1>2
  <1>4. n + 64 * 256 \in Short
    BY <1>2, <1>3 DEF Short
  <1> QED
    BY <1>2, <1>4, Zenon DEF AnswerTo

\* No two commands have the same.
LEMMA CodesDiffer ==
    ASSUME NEW c \in Commands \cup FrameCommands, NEW d \in Commands \cup FrameCommands,
           Code(c) = Code(d)
    PROVE  c = d
  BY CodeValues DEF Commands, FrameCommands

\* The two bytes the parser takes the command of a message from.
LEMMA CodeRead ==
    ASSUME NEW n \in Short, NEW b \in Byte, NEW rest \in Seq(Byte)
    PROVE  /\ At(Message(n, b, rest), 0) = (n \div 256) % 256
           /\ At(Message(n, b, rest), 1) = n % 256
  <1>0. n \in Nat
    BY DEF Short
  <1>1. PICK t \in Seq(Byte) : t = <<b>> \o rest
    BY OneByte, CatType, Zenon
  <1>2. At(Two(n) \o t, 0) = (n \div 256) % 256 /\ At(Two(n) \o t, 1) = n % 256
    <2>1. t \in Seq(Byte)
      BY <1>1
    <2> QED
      BY <1>0, <2>1, TwoAtHead
  <1>3. Message(n, b, rest) = Two(n) \o t
    BY <1>1, Zenon DEF Message
  <1> QED
    BY <1>2, <1>3

\* And what it makes of them.
LEMMA CommandRead ==
    ASSUME NEW n \in Short, NEW b \in Byte, NEW rest \in Seq(Byte), NEW a, NEW l,
           a = (n \div 256) % 256, l = n % 256
    PROVE  Command(Message(n, b, rest)) = 256 * (IF (a \div 64) % 2 = 1 THEN a - 64 ELSE a) + l
  BY CodeRead DEF Command

\* Frames of the device's own have the code of their command.
LEMMA CommandOfFrame ==
    ASSUME NEW cmd \in {"RECEIVE_PACKAGE_CMD", "DEV_CREATE_BUFFER",
                        "DEV_RECEIVE_DATA_BLOCK_CMD", "DEV_FINISH_RECV_DATA_CMD"},
           NEW b \in Byte, NEW rest \in Seq(Byte)
    PROVE  Command(Message(Code(cmd), b, rest)) = Code(cmd)
  <1>1. PICK n \in Short : n = Code(cmd)
    BY CodeType DEF FrameCommands
  <1>2. n \in {35073, 33795, 33796, 33797}
    BY <1>1, CodeValues
  <1>3. PICK a \in Nat : a = (n \div 256) % 256
    BY <1>2
  <1>4. PICK l \in Nat : l = n % 256
    BY <1>2
  <1>5. Command(Message(n, b, rest)) = 256 * (IF (a \div 64) % 2 = 1 THEN a - 64 ELSE a) + l
    BY <1>1, <1>3, <1>4, CommandRead
  <1>6. 256 * (IF (a \div 64) % 2 = 1 THEN a - 64 ELSE a) + l = n
    BY <1>2, <1>3, <1>4
  <1> QED
    BY <1>1, <1>5, <1>6

\* MASK_ANSWER takes the answers' bit away.
LEMMA CommandOfAnswer ==
    ASSUME NEW cmd \in {"SEND_PACKAGE_ANSWER_CMD", "DEV_CREATE_BUFFER_CMD",
                        "SEND_DATA_BLOCK_CMD", "FINISH_SEND_DATA_CMD"},
           NEW b \in Byte, NEW rest \in Seq(Byte)
    PROVE  Command(Message(AnswerTo(cmd), b, rest)) = Code(cmd)
  <1>1. PICK n \in Short : n = AnswerTo(cmd)
    BY AnswerType
  <1>2. n \in {35072 + 16384, 33792 + 16384, 33793 + 16384, 33794 + 16384} /\ Code(cmd) = n - 16384
    BY <1>1, CodeValues DEF AnswerTo
  <1>3. PICK a \in Nat : a = (n \div 256) % 256
    BY <1>2
  <1>4. PICK l \in Nat : l = n % 256
    BY <1>2
  <1>5. Command(Message(n, b, rest)) = 256 * (IF (a \div 64) % 2 = 1 THEN a - 64 ELSE a) + l
    BY <1>1, <1>3, <1>4, CommandRead
  <1>6. 256 * (IF (a \div 64) % 2 = 1 THEN a - 64 ELSE a) + l = n - 16384
    BY <1>2, <1>3, <1>4
  <1> QED
    BY <1>1, <1>2, <1>5, <1>6

-----------------------------------------------------------------------------
(* Packets and frames as messages.                                         *)

\* Putting three parts together, in either order.
LEMMA ThreeParts ==
    ASSUME NEW a \in Seq(Byte), NEW b \in Seq(Byte), NEW c \in Seq(Byte)
    PROVE  (a \o b) \o c = a \o (b \o c)
  BY ConcatAssociative

\* A code with a byte and the rest behind it.
LEMMA LeftMessage ==
    ASSUME NEW n \in Short, NEW b \in Byte, NEW rest \in Seq(Byte)
    PROVE  (Two(n) \o <<b>>) \o rest = Message(n, b, rest)
  <1>0. n \in Int
    BY DEF Short
  <1>1. Two(n) \in Seq(Byte) /\ <<b>> \in Seq(Byte)
    BY <1>0, TwoType, OneByte, Zenon
  <1> QED
    BY <1>1, ThreeParts, Zenon DEF Message

\* Two bytes are one behind another.
LEMMA TwoBytes ==
    ASSUME NEW b \in Byte, NEW c \in Byte
    PROVE  <<b, c>> = <<b>> \o <<c>> /\ <<b, c>> \in Seq(Byte)
  <1>1. <<b>> \in Seq(Byte) /\ <<c>> \in Seq(Byte)
    BY OneByte, Zenon
  <1>2. PICK x \in Seq(Byte) : x = <<b>>
    BY <1>1
  <1>3. PICK y \in Seq(Byte) : y = <<c>>
    BY <1>1
  <1>4. PICK z : z = <<b, c>>
    OBVIOUS
  <1>5. Len(x) = 1 /\ Len(y) = 1 /\ x[1] = b /\ y[1] = c
    BY <1>2, <1>3
  <1>6. z \in Seq(Byte) /\ Len(z) = 2 /\ z[1] = b /\ z[2] = c
    BY <1>4
  <1>7. x \o y \in Seq(Byte) /\ Len(x \o y) = 2 /\ (x \o y)[1] = b /\ (x \o y)[2] = c
    BY <1>2, <1>3, <1>5
  <1>8. x \o y = z
    BY <1>6, <1>7, SeqEqual
  <1> QED
    BY <1>2, <1>3, <1>4, <1>6, <1>8, Zenon

\* A code with two bytes and the rest behind it.
LEMMA LeftMessageTwo ==
    ASSUME NEW n \in Short, NEW b \in Byte, NEW c \in Byte, NEW rest \in Seq(Byte)
    PROVE  (Two(n) \o <<b, c>>) \o rest = Message(n, b, <<c>> \o rest)
  <1>0. n \in Int
    BY DEF Short
  <1>1. Two(n) \in Seq(Byte) /\ <<b>> \in Seq(Byte) /\ <<c>> \in Seq(Byte)
    BY <1>0, TwoType, OneByte, Zenon
  <1>2. <<b, c>> = <<b>> \o <<c>> /\ <<b, c>> \in Seq(Byte)
    BY TwoBytes, Zenon
  <1>3. (<<b>> \o <<c>>) \o rest = <<b>> \o (<<c>> \o rest)
    BY <1>1, ThreeParts, Zenon
  <1>4. (Two(n) \o <<b, c>>) \o rest = Two(n) \o (<<b, c>> \o rest)
    BY <1>1, <1>2, ThreeParts, Zenon
  <1>5. <<b, c>> \o rest = <<b>> \o (<<c>> \o rest)
    BY <1>2, <1>3, Zenon
  <1> QED
    BY <1>4, <1>5, Zenon DEF Message

\* The bytes of a large request, and those in the block at pos.
Size(r) == Len(RequestBytes[r]) + HeaderSize

Cut(r, pos) == IF BlockSize <= Size(r) - pos THEN BlockSize ELSE Size(r) - pos

\* A request, its size and the package it is sent in.
LEMMA RequestSize ==
    ASSUME NEW r \in Requests, DataSize[r] <= MaxData
    PROVE  /\ RequestBytes[r] \in Seq(Byte)
           /\ DataSize[r] = Len(RequestBytes[r])
           /\ Size(r) = DataSize[r] + HeaderSize
           /\ Size(r) \in Short
           /\ 0 < Size(r)
  <1>1. RequestBytes[r] \in Seq(Byte) /\ DataSize[r] = Len(RequestBytes[r])
    BY WireAssumption
  <1>2. Size(r) = DataSize[r] + HeaderSize
    BY <1>1 DEF Size
  <1>3. PICK d \in Nat : d = DataSize[r]
    BY <1>1
  <1>4. PICK m \in Nat : m = MaxData
    BY ConstantsAssumption
  <1>5. d + 3 < 65536 /\ 0 < d + 3
    BY <1>3, <1>4, WireAssumption DEF HeaderSize
  <1>6. Size(r) = d + 3
    BY <1>2, <1>3 DEF HeaderSize
  <1> QED
    BY <1>1, <1>2, <1>5, <1>6 DEF Short

\* The package of a request is a message, and as long as it says.
LEMMA PackageForm ==
    ASSUME NEW r \in Requests, DataSize[r] <= MaxData
    PROVE  /\ Package(r) = Message(Code("SEND_PACKAGE_ANSWER_CMD"), 0, RequestBytes[r])
           /\ Package(r) \in Seq(Byte)
           /\ Len(Package(r)) = Size(r)
           /\ Right(Package(r), Len(Package(r)) - 3) = RequestBytes[r]
  <1>1. PICK n \in Short : n = Code("SEND_PACKAGE_ANSWER_CMD")
    BY CodeType DEF Commands
  <1>2. 0 \in Byte
    BY DEF Byte
  <1>3. PICK d \in Seq(Byte) : d = RequestBytes[r] /\ Size(r) = Len(d) + HeaderSize
    BY RequestSize
  <1>4. (Two(n) \o <<0>>) \o d = Message(n, 0, d)
    BY <1>2, LeftMessage, Zenon
  <1>5. Package(r) = Message(n, 0, d)
    BY <1>1, <1>3, <1>4, Zenon DEF Package
  <1>6. Message(n, 0, d) \in Seq(Byte) /\ Len(Message(n, 0, d)) = 3 + Len(d)
    BY <1>2, MessageType, Zenon
  <1>7. Right(Message(n, 0, d), Len(Message(n, 0, d)) - 3) = d
    BY <1>2, MessageRead, Zenon
  <1>8. 3 + Len(d) = Size(r)
    BY <1>3 DEF HeaderSize
  <1> QED
    BY <1>1, <1>3, <1>5, <1>6, <1>7, <1>8, Zenon

-----------------------------------------------------------------------------
(* What the parser makes of the frames.                                    *)

\* A frame with the code of a command the converter has a slot for is known.
LEMMA KnownFrame ==
    ASSUME NEW data, NEW cmd \in FrameCommands, Command(data) = Code(cmd)
    PROVE  Known(data)
  BY DEF Known

\* The answer to a package in one piece is not.
LEMMA UnknownAnswer ==
    ASSUME NEW data, Command(data) = Code("SEND_PACKAGE_ANSWER_CMD")
    PROVE  ~ Known(data)
  <1>1. "SEND_PACKAGE_ANSWER_CMD" \in Commands
    BY DEF Commands
  <1>2. "SEND_PACKAGE_ANSWER_CMD" \notin FrameCommands
    BY DEF FrameCommands
  <1> QED
    BY <1>1, <1>2, CodesDiffer, Zenon DEF Known

\* The branches of the parser exclude one another.
LEMMA ParserBranches ==
    ASSUME NEW data
    PROVE  /\ Command(data) = Code("SEND_DATA_BLOCK_CMD") =>
                  DataParser(data) = Frame("SEND_DATA_BLOCK_CMD", At(data, 2),
                                           Field(data, 4), Field(data, 6), <<>>)
           /\ Command(data) = Code("DEV_CREATE_BUFFER_CMD") =>
                  DataParser(data) = Frame("DEV_CREATE_BUFFER_CMD", At(data, 2), 0,
                                           Field(data, 4), <<>>)
           /\ Command(data) = Code("RECEIVE_PACKAGE_CMD") =>
                  DataParser(data) = Frame("RECEIVE_PACKAGE_CMD", At(data, 2), 0, 0,
                                           Right(data, Len(data) - 3))
           /\ Command(data) = Code("FINISH_SEND_DATA_CMD") =>
                  DataParser(data) = Frame("FINISH_SEND_DATA_CMD", At(data, 2), 0, 0, <<>>)
           /\ Command(data) = Code("DEV_CREATE_BUFFER") =>
                  DataParser(data) = Frame("DEV_CREATE_BUFFER", 0, 0, Field(data, 3), <<>>)
           /\ Command(data) = Code("DEV_RECEIVE_DATA_BLOCK_CMD") =>
                  DataParser(data) = Frame("DEV_RECEIVE_DATA_BLOCK_CMD", 0, Field(data, 3), 0,
                                           Right(data, Len(data) - 5))
           /\ Command(data) = Code("DEV_FINISH_RECV_DATA_CMD") =>
                  DataParser(data) = Frame("DEV_FINISH_RECV_DATA_CMD", 0, 0, Field(data, 3),
                                           ContentOf(CrcField(data)))
  BY CodeValues DEF DataParser

\* A short frame whose third byte is 0 contains no "overdue".
LEMMA ShortNotOverdue ==
    ASSUME NEW f \in Seq(Byte), Len(f) <= 8, Len(f) >= 3, At(f, 2) = 0
    PROVE  ~ IsOverdue(Queued(f))
  <1>0. 2 \in Byte
    BY DEF Byte
  <1>1. PICK h \in Seq(Byte) : h = <<2>>
    BY <1>0, OneByte, Zenon
  <1>2. Len(h) = 1
    BY <1>1
  <1>3. PICK q \in Seq(Byte) : q = h \o f
    BY CatType, Zenon
  <1>4. Len(q) = 1 + Len(f) /\ q[4] = f[3]
    BY <1>1, <1>2, <1>3
  <1>5. f[3] = 0
    BY DEF At
  <1>6. q = Queued(f)
    BY <1>1, <1>3, Zenon DEF Queued
  <1>7. ASSUME NEW i \in 1 .. Len(q) - 6
        PROVE  SubSeq(q, i, i + 6) # OverdueBytes
    <2>1. i \in 1 .. 3 /\ i + 6 <= Len(q)
      BY <1>4
    <2>2. SubSeq(q, i, i + 6)[5 - i] = q[4]
      BY <2>1
    <2>3. OverdueBytes[5 - i] # 0
      BY <2>1 DEF OverdueBytes
    <2> QED
      BY <1>4, <1>5, <2>2, <2>3
  <1> QED
    BY <1>6, <1>7, Zenon DEF IsOverdue

\* A number behind the head of a message belongs to the head.
LEMMA MessageNumber ==
    ASSUME NEW code \in Short, NEW b \in Byte, NEW n \in Short, NEW d \in Seq(Byte)
    PROVE  /\ Message(code, b, Two(n)) \in Seq(Byte)
           /\ Len(Message(code, b, Two(n))) = 5
           /\ Message(code, b, Two(n) \o d) = Message(code, b, Two(n)) \o d
  <1>0. code \in Int /\ n \in Int
    BY DEF Short
  <1>1. PICK h \in Seq(Byte) : h = Two(code)
    BY <1>0, TwoType, Zenon
  <1>2. PICK t \in Seq(Byte) : t = Two(n) /\ Len(t) = 2
    BY <1>0, TwoType, Zenon
  <1>3. PICK x \in Seq(Byte) : x = <<b>>
    BY OneByte, Zenon
  <1>4. Message(code, b, t) \in Seq(Byte) /\ Len(Message(code, b, t)) = 3 + Len(t)
    BY <1>2, MessageType, Zenon
  <1>5. 3 + Len(t) = 5
    BY <1>2
  <1>6. PICK s \in Seq(Byte) : s = x \o t
    BY <1>2, <1>3, CatType, Zenon
  <1>7. x \o (t \o d) = s \o d
    <2>1. x \in Seq(Byte) /\ t \in Seq(Byte)
      BY <1>2, <1>3
    <2>2. (x \o t) \o d = x \o (t \o d)
      BY <2>1, ThreeParts, Zenon
    <2> QED
      BY <1>6, <2>2, Zenon
  <1>8. h \o (s \o d) = (h \o s) \o d
    <2>1. h \in Seq(Byte) /\ s \in Seq(Byte)
      BY <1>1, <1>6
    <2> QED
      BY <2>1, ThreeParts, Zenon
  <1> QED
    BY <1>1, <1>2, <1>3, <1>4, <1>5, <1>6, <1>7, <1>8, Zenon DEF Message

\* What the parser sees of an answer.
LEMMA AnswerSeen ==
    ASSUME NEW cmd \in {"SEND_PACKAGE_ANSWER_CMD", "DEV_CREATE_BUFFER_CMD",
                        "SEND_DATA_BLOCK_CMD", "FINISH_SEND_DATA_CMD"},
           NEW b \in Byte, NEW rest \in Seq(Byte)
    PROVE  LET f == Message(AnswerTo(cmd), b, rest)
           IN  /\ f \in Seq(Byte)
               /\ Len(f) = 3 + Len(rest)
               /\ Command(f) = Code(cmd)
               /\ At(f, 2) = b
               /\ \A i \in Nat : TwoAt(f, 3 + i) = TwoAt(rest, i)
  <1>1. AnswerTo(cmd) \in Short
    BY AnswerType
  <1>2. /\ Message(AnswerTo(cmd), b, rest) \in Seq(Byte)
        /\ Len(Message(AnswerTo(cmd), b, rest)) = 3 + Len(rest)
    BY <1>1, MessageType, Zenon
  <1>3. /\ At(Message(AnswerTo(cmd), b, rest), 2) = b
        /\ \A i \in Nat : TwoAt(Message(AnswerTo(cmd), b, rest), 3 + i) = TwoAt(rest, i)
    BY <1>1, MessageRead, Zenon
  <1>4. Command(Message(AnswerTo(cmd), b, rest)) = Code(cmd)
    BY CommandOfAnswer
  <1> QED
    BY <1>2, <1>3, <1>4, Zenon

\* What it sees of a frame the device sends unasked.
LEMMA FrameSeen ==
    ASSUME NEW cmd \in {"RECEIVE_PACKAGE_CMD", "DEV_CREATE_BUFFER",
                        "DEV_RECEIVE_DATA_BLOCK_CMD", "DEV_FINISH_RECV_DATA_CMD"},
           NEW b \in Byte, NEW rest \in Seq(Byte)
    PROVE  LET f == Message(Code(cmd), b, rest)
           IN  /\ f \in Seq(Byte)
               /\ Len(f) >= 2
               /\ Known(f)
               /\ Command(f) = Code(cmd)
               /\ At(f, 2) = b
               /\ \A i \in Nat : TwoAt(f, 3 + i) = TwoAt(rest, i)
               /\ Right(f, Len(f) - 3) = rest
  <1>1. Code(cmd) \in Short /\ cmd \in FrameCommands
    BY CodeType DEF FrameCommands
  <1>2. /\ Message(Code(cmd), b, rest) \in Seq(Byte)
        /\ Len(Message(Code(cmd), b, rest)) = 3 + Len(rest)
    BY <1>1, MessageType, Zenon
  <1>3. 3 + Len(rest) >= 2
    OBVIOUS
  <1>4. Len(Message(Code(cmd), b, rest)) >= 2
    BY <1>2, <1>3, Zenon
  <1>5. /\ At(Message(Code(cmd), b, rest), 2) = b
        /\ \A i \in Nat : TwoAt(Message(Code(cmd), b, rest), 3 + i) = TwoAt(rest, i)
        /\ Right(Message(Code(cmd), b, rest), Len(Message(Code(cmd), b, rest)) - 3) = rest
    BY <1>1, MessageRead, Zenon
  <1>6. Command(Message(Code(cmd), b, rest)) = Code(cmd)
    BY CommandOfFrame
  <1>7. Known(Message(Code(cmd), b, rest))
    BY <1>1, <1>6, KnownFrame, Zenon
  <1> QED
    BY <1>2, <1>4, <1>5, <1>6, <1>7, Zenon

\* The port of an answer and what is behind it.
LEMMA BehindPort ==
    ASSUME NEW p \in Byte, NEW t \in Seq(Byte)
    PROVE  /\ <<p>> \o t \in Seq(Byte)
           /\ Len(<<p>> \o t) = 1 + Len(t)
           /\ \A i \in Nat : TwoAt(<<p>> \o t, 1 + i) = TwoAt(t, i)
  <1>1. PICK x \in Seq(Byte) : x = <<p>> /\ Len(x) = 1
    BY OneByte, Zenon
  <1>2. x \in Seq(Byte)
    BY <1>1
  <1>3. x \o t \in Seq(Byte) /\ Len(x \o t) = Len(x) + Len(t)
    BY <1>2, CatType, Zenon
  <1>4. \A i \in Nat : TwoAt(x \o t, Len(x) + i) = TwoAt(t, i)
    BY <1>2, TwoAtBehind, Zenon
  <1> QED
    BY <1>1, <1>3, <1>4, Zenon

\* What the converter reads in the answer to DEV_CREATE_BUFFER_CMD.
LEMMA CreateAnswerRead ==
    ASSUME NEW f, NEW p \in Byte, NEW n \in Short,
           f = Message(AnswerTo("DEV_CREATE_BUFFER_CMD"), 0, <<p>> \o Two(n))
    PROVE  /\ f \in Seq(Byte)
           /\ Len(f) >= 2
           /\ Known(f)
           /\ ~ IsOverdue(Queued(f))
           /\ DataParser(f) = Frame("DEV_CREATE_BUFFER_CMD", 0, 0, n, <<>>)
  <1>0. 0 \in Byte /\ n \in Int /\ 0 \in Nat
    BY DEF Byte, Short
  <1>1. Two(n) \in Seq(Byte) /\ Len(Two(n)) = 2 /\ TwoAt(Two(n), 0) = n
    BY <1>0, TwoType, ReadLastTwo, Zenon
  <1>2. PICK s \in Seq(Byte) : s = <<p>> \o Two(n)
    BY <1>1, BehindPort, Zenon
  <1>3. Len(s) = 1 + 2 /\ TwoAt(s, 1 + 0) = n
    BY <1>0, <1>1, <1>2, BehindPort, Zenon
  <1>4. f = Message(AnswerTo("DEV_CREATE_BUFFER_CMD"), 0, s)
    BY <1>2, Zenon
  <1>5. /\ f \in Seq(Byte)
        /\ Len(f) = 3 + Len(s)
        /\ Command(f) = Code("DEV_CREATE_BUFFER_CMD")
        /\ At(f, 2) = 0
        /\ \A i \in Nat : TwoAt(f, 3 + i) = TwoAt(s, i)
    <2>1. s \in Seq(Byte)
      BY <1>2
    <2>2. "DEV_CREATE_BUFFER_CMD" \in {"SEND_PACKAGE_ANSWER_CMD", "DEV_CREATE_BUFFER_CMD",
                        "SEND_DATA_BLOCK_CMD", "FINISH_SEND_DATA_CMD"}
      OBVIOUS
    <2>3. LET g == Message(AnswerTo("DEV_CREATE_BUFFER_CMD"), 0, s)
          IN  /\ g \in Seq(Byte)
              /\ Len(g) = 3 + Len(s)
              /\ Command(g) = Code("DEV_CREATE_BUFFER_CMD")
              /\ At(g, 2) = 0
              /\ \A i \in Nat : TwoAt(g, 3 + i) = TwoAt(s, i)
      BY <1>0, <2>1, <2>2, AnswerSeen, Zenon
    <2> QED
      BY <1>4, <2>3, Zenon
  <1>6. Len(f) <= 8 /\ Len(f) >= 3 /\ Len(f) >= 2 /\ 3 + (1 + 0) = 4 /\ 1 + 0 \in Nat
    <2>1. Len(f) = 3 + (1 + 2)
      BY <1>3, <1>5, Zenon
    <2>2. 3 + (1 + 2) <= 8 /\ 3 + (1 + 2) >= 3 /\ 3 + (1 + 2) >= 2 /\ 3 + (1 + 0) = 4 /\ 1 + 0 \in Nat
      OBVIOUS
    <2> QED
      BY <2>1, <2>2, Zenon
  <1>7. Field(f, 4) = n
    BY <1>3, <1>5, <1>6, Zenon DEF Field
  <1>8. Known(f)
    BY <1>5, KnownFrame, Zenon DEF FrameCommands
  <1> QED
    BY <1>5, <1>6, <1>7, <1>8, ShortNotOverdue, ParserBranches, Zenon

\* What it reads in the answer to SEND_DATA_BLOCK_CMD.
LEMMA BlockAnswerRead ==
    ASSUME NEW f, NEW p \in Byte, NEW off \in Short, NEW n \in Short,
           f = Message(AnswerTo("SEND_DATA_BLOCK_CMD"), 0, <<p>> \o (Two(off) \o Two(n)))
    PROVE  /\ f \in Seq(Byte)
           /\ Len(f) >= 2
           /\ Known(f)
           /\ ~ IsOverdue(Queued(f))
           /\ DataParser(f) = Frame("SEND_DATA_BLOCK_CMD", 0, off, n, <<>>)
  <1>0. 0 \in Byte /\ n \in Int /\ 0 \in Nat
    BY DEF Byte, Short
  <1>1. Two(n) \in Seq(Byte) /\ Len(Two(n)) = 2 /\ TwoAt(Two(n), 0) = n
    BY <1>0, TwoType, ReadLastTwo, Zenon
  <1>2. PICK t \in Seq(Byte) : t = Two(off) \o Two(n)
    BY <1>1, NumberRead, Zenon
  <1>3. Len(t) = 2 + 2 /\ TwoAt(t, 0) = off /\ TwoAt(t, 2 + 0) = n
    <2>1. /\ Len(Two(off) \o Two(n)) = 2 + Len(Two(n))
          /\ TwoAt(Two(off) \o Two(n), 0) = off
          /\ \A i \in Nat : TwoAt(Two(off) \o Two(n), 2 + i) = TwoAt(Two(n), i)
      BY <1>1, NumberRead, Zenon
    <2> QED
      BY <1>0, <1>1, <1>2, <2>1, Zenon
  <1>4. PICK s \in Seq(Byte) : s = <<p>> \o t
    BY <1>2, BehindPort, Zenon
  <1>5. Len(s) = 1 + Len(t) /\ \A i \in Nat : TwoAt(s, 1 + i) = TwoAt(t, i)
    BY <1>2, <1>4, BehindPort, Zenon
  <1>6. f = Message(AnswerTo("SEND_DATA_BLOCK_CMD"), 0, s)
    BY <1>2, <1>4, Zenon
  <1>7. /\ f \in Seq(Byte)
        /\ Len(f) = 3 + Len(s)
        /\ Command(f) = Code("SEND_DATA_BLOCK_CMD")
        /\ At(f, 2) = 0
        /\ \A i \in Nat : TwoAt(f, 3 + i) = TwoAt(s, i)
    <2>1. s \in Seq(Byte)
      BY <1>4
    <2>2. "SEND_DATA_BLOCK_CMD" \in {"SEND_PACKAGE_ANSWER_CMD", "DEV_CREATE_BUFFER_CMD",
                        "SEND_DATA_BLOCK_CMD", "FINISH_SEND_DATA_CMD"}
      OBVIOUS
    <2>3. LET g == Message(AnswerTo("SEND_DATA_BLOCK_CMD"), 0, s)
          IN  /\ g \in Seq(Byte)
              /\ Len(g) = 3 + Len(s)
              /\ Command(g) = Code("SEND_DATA_BLOCK_CMD")
              /\ At(g, 2) = 0
              /\ \A i \in Nat : TwoAt(g, 3 + i) = TwoAt(s, i)
      BY <1>0, <2>1, <2>2, AnswerSeen, Zenon
    <2> QED
      BY <1>6, <2>3, Zenon
  <1>8. /\ Len(f) <= 8 /\ Len(f) >= 3 /\ Len(f) >= 2
        /\ 3 + (1 + 0) = 4 /\ 3 + (1 + (2 + 0)) = 6 /\ 1 + 0 \in Nat /\ 2 + 0 \in Nat
        /\ 1 + (2 + 0) \in Nat
    <2>1. Len(f) = 3 + (1 + (2 + 2))
      BY <1>3, <1>5, <1>7, Zenon
    <2>2. /\ 3 + (1 + (2 + 2)) <= 8 /\ 3 + (1 + (2 + 2)) >= 3 /\ 3 + (1 + (2 + 2)) >= 2
          /\ 3 + (1 + 0) = 4 /\ 3 + (1 + (2 + 0)) = 6 /\ 1 + 0 \in Nat /\ 2 + 0 \in Nat
          /\ 1 + (2 + 0) \in Nat
      OBVIOUS
    <2> QED
      BY <2>1, <2>2, Zenon
  <1>9. Field(f, 4) = off /\ Field(f, 6) = n
    BY <1>0, <1>3, <1>5, <1>7, <1>8, Zenon DEF Field
  <1>10. Known(f)
    BY <1>7, KnownFrame, Zenon DEF FrameCommands
  <1> QED
    BY <1>7, <1>8, <1>9, <1>10, ShortNotOverdue, ParserBranches, Zenon

\* And in the answers that end a request.
LEMMA LastAnswerRead ==
    ASSUME NEW cmd \in {"SEND_PACKAGE_ANSWER_CMD", "FINISH_SEND_DATA_CMD"},
           NEW rest \in Seq(Byte), NEW f, f = Message(AnswerTo(cmd), 0, rest)
    PROVE  /\ f \in Seq(Byte)
           /\ Len(f) >= 2
           /\ Known(f) => DataParser(f) = Frame("FINISH_SEND_DATA_CMD", 0, 0, 0, <<>>)
  <1>0. 0 \in Byte
    BY DEF Byte
  <1>1. /\ f \in Seq(Byte)
        /\ Len(f) >= 2
        /\ Command(f) = Code(cmd)
        /\ At(f, 2) = 0
    <2>1. /\ f \in Seq(Byte)
          /\ Len(f) = 3 + Len(rest)
          /\ Command(f) = Code(cmd)
          /\ At(f, 2) = 0
      <3>1. cmd \in {"SEND_PACKAGE_ANSWER_CMD", "DEV_CREATE_BUFFER_CMD",
                     "SEND_DATA_BLOCK_CMD", "FINISH_SEND_DATA_CMD"}
        OBVIOUS
      <3>2. LET g == Message(AnswerTo(cmd), 0, rest)
            IN  /\ g \in Seq(Byte)
                /\ Len(g) = 3 + Len(rest)
                /\ Command(g) = Code(cmd)
                /\ At(g, 2) = 0
        BY <1>0, <3>1, AnswerSeen, Zenon
      <3> QED
        BY <3>2, Zenon
    <2>2. 3 + Len(rest) >= 2
      OBVIOUS
    <2> QED
      BY <2>1, <2>2, Zenon
  <1>2. CASE cmd = "SEND_PACKAGE_ANSWER_CMD"
    BY <1>1, <1>2, UnknownAnswer
  <1>3. CASE cmd = "FINISH_SEND_DATA_CMD"
    BY <1>1, <1>3, ParserBranches, Zenon
  <1> QED
    BY <1>1, <1>2, <1>3

\* What the converter reads in a reply of one frame.
LEMMA SmallReplyRead ==
    ASSUME NEW m \in Seq(Byte), NEW f, f = Message(Code("RECEIVE_PACKAGE_CMD"), 0, m)
    PROVE  /\ f \in Seq(Byte)
           /\ Len(f) >= 2
           /\ Known(f)
           /\ DataParser(f) = Frame("RECEIVE_PACKAGE_CMD", 0, 0, 0, m)
  <1>0. 0 \in Byte
    BY DEF Byte
  <1>1. LET g == Message(Code("RECEIVE_PACKAGE_CMD"), 0, m)
        IN  /\ g \in Seq(Byte)
            /\ Len(g) >= 2
            /\ Known(g)
            /\ Command(g) = Code("RECEIVE_PACKAGE_CMD")
            /\ At(g, 2) = 0
            /\ Right(g, Len(g) - 3) = m
    BY <1>0, FrameSeen, Zenon
  <1> QED
    BY <1>1, ParserBranches, Zenon

\* What it reads in the command that announces a longer one.
LEMMA CreateRead ==
    ASSUME NEW p \in Byte, NEW n \in Short, NEW f,
           f = Message(Code("DEV_CREATE_BUFFER"), p, Two(n))
    PROVE  /\ f \in Seq(Byte)
           /\ Len(f) >= 2
           /\ Known(f)
           /\ DataParser(f) = Frame("DEV_CREATE_BUFFER", 0, 0, n, <<>>)
  <1>0. n \in Int /\ 0 \in Nat /\ 3 + 0 = 3
    BY DEF Short
  <1>1. Two(n) \in Seq(Byte) /\ TwoAt(Two(n), 0) = n
    BY <1>0, TwoType, ReadLastTwo, Zenon
  <1>2. LET g == Message(Code("DEV_CREATE_BUFFER"), p, Two(n))
        IN  /\ g \in Seq(Byte)
            /\ Len(g) >= 2
            /\ Known(g)
            /\ Command(g) = Code("DEV_CREATE_BUFFER")
            /\ \A i \in Nat : TwoAt(g, 3 + i) = TwoAt(Two(n), i)
    BY <1>1, FrameSeen, Zenon
  <1>3. Field(f, 3) = n
    BY <1>0, <1>1, <1>2, Zenon DEF Field
  <1> QED
    BY <1>2, <1>3, ParserBranches, Zenon

\* What it reads in a block of it.
LEMMA BlockRead ==
    ASSUME NEW p \in Byte, NEW off \in Short, NEW d \in Seq(Byte), NEW f,
           f = Message(Code("DEV_RECEIVE_DATA_BLOCK_CMD"), p, Two(off) \o d)
    PROVE  /\ f \in Seq(Byte)
           /\ Len(f) >= 2
           /\ Known(f)
           /\ DataParser(f) = Frame("DEV_RECEIVE_DATA_BLOCK_CMD", 0, off, 0, d)
  <1>0. 0 \in Nat /\ 3 + 0 = 3
    OBVIOUS
  <1>1. Two(off) \o d \in Seq(Byte) /\ TwoAt(Two(off) \o d, 0) = off
    BY NumberRead, Zenon
  <1>2. LET g == Message(Code("DEV_RECEIVE_DATA_BLOCK_CMD"), p, Two(off) \o d)
        IN  /\ g \in Seq(Byte)
            /\ Len(g) >= 2
            /\ Known(g)
            /\ Command(g) = Code("DEV_RECEIVE_DATA_BLOCK_CMD")
            /\ \A i \in Nat : TwoAt(g, 3 + i) = TwoAt(Two(off) \o d, i)
    BY <1>1, FrameSeen, Zenon
  <1>3. Field(f, 3) = off
    BY <1>0, <1>1, <1>2, Zenon DEF Field
  <1>4. Right(f, Len(f) - 5) = d
    <2>1. Code("DEV_RECEIVE_DATA_BLOCK_CMD") \in Short
      BY CodeType DEF FrameCommands
    <2>2. PICK h \in Seq(Byte) :
              /\ h = Message(Code("DEV_RECEIVE_DATA_BLOCK_CMD"), p, Two(off))
              /\ Len(h) = 5
              /\ Message(Code("DEV_RECEIVE_DATA_BLOCK_CMD"), p, Two(off) \o d) = h \o d
      BY <2>1, MessageNumber, Zenon
    <2>3. Right(h \o d, Len(h \o d) - Len(h)) = d
      <3>1. h \in Seq(Byte)
        BY <2>2
      <3> QED
        BY <3>1, RightOfHead, Zenon
    <2> QED
      BY <2>2, <2>3, Zenon
  <1> QED
    BY <1>2, <1>3, <1>4, ParserBranches, Zenon

\* And what it reads in the frame at its end.
LEMMA FinishRead ==
    ASSUME NEW p \in Byte, NEW n \in Short, NEW w \in Word, NEW f,
           f = Message(Code("DEV_FINISH_RECV_DATA_CMD"), p, Two(n) \o Four(w))
    PROVE  /\ f \in Seq(Byte)
           /\ Len(f) >= 2
           /\ Known(f)
           /\ DataParser(f) = Frame("DEV_FINISH_RECV_DATA_CMD", 0, 0, n, ContentOf(w))
           /\ CrcField(f) = w
  <1>0. 0 \in Nat /\ 3 + 0 = 3
    OBVIOUS
  <1>1. PICK d \in Seq(Byte) : d = Four(w)
    BY FourType, Zenon
  <1>2. Two(n) \o d \in Seq(Byte) /\ TwoAt(Two(n) \o d, 0) = n
    <2>1. d \in Seq(Byte)
      BY <1>1
    <2> QED
      BY <2>1, NumberRead, Zenon
  <1>3. LET g == Message(Code("DEV_FINISH_RECV_DATA_CMD"), p, Two(n) \o d)
        IN  /\ g \in Seq(Byte)
            /\ Len(g) >= 2
            /\ Known(g)
            /\ Command(g) = Code("DEV_FINISH_RECV_DATA_CMD")
            /\ \A i \in Nat : TwoAt(g, 3 + i) = TwoAt(Two(n) \o d, i)
    BY <1>2, FrameSeen, Zenon
  <1>4. f = Message(Code("DEV_FINISH_RECV_DATA_CMD"), p, Two(n) \o d)
    BY <1>1, Zenon
  <1>5. Field(f, 3) = n
    BY <1>0, <1>2, <1>3, <1>4, Zenon DEF Field
  <1>6. CrcField(f) = w
    <2>1. Code("DEV_FINISH_RECV_DATA_CMD") \in Short
      BY CodeType DEF FrameCommands
    <2>2. PICK h \in Seq(Byte) :
              /\ h = Message(Code("DEV_FINISH_RECV_DATA_CMD"), p, Two(n))
              /\ Len(h) = 5
              /\ Message(Code("DEV_FINISH_RECV_DATA_CMD"), p, Two(n) \o d) = h \o d
      <3>1. d \in Seq(Byte)
        BY <1>1
      <3> QED
        BY <2>1, <3>1, MessageNumber, Zenon
    <2>3. FourAt(h \o Four(w), Len(h)) = w
      <3>1. h \in Seq(Byte)
        BY <2>2
      <3> QED
        BY <3>1, ReadFour, Zenon
    <2> QED
      BY <1>1, <1>4, <2>2, <2>3, Zenon DEF CrcField
  <1> QED
    BY <1>3, <1>4, <1>5, <1>6, ParserBranches, Zenon

-----------------------------------------------------------------------------
(* The converter's packets as bytes, and what the device reads in them.    *)

\* The commands that acknowledge a frame of a reply.
Acknowledgements ==
    {"APP_CREATE_BUFFER", "APP_RECEIVE_DATA_BLOCK_CMD", "APP_FINISH_RECV_DATA_CMD"}

IsAck(p) ==
    \E cmd \in Acknowledgements, b \in Byte, rest \in Seq(Byte) : p = Message(Code(cmd), b, rest)

\* A request in one packet, and the announcement of a larger one.
LEMMA EncodedFirst ==
    ASSUME NEW r, NEW n
    PROVE  /\ Encoded(Pack("SEND_PACKAGE_ANSWER_CMD", r, 0, n))
                  = Message(Code("SEND_PACKAGE_ANSWER_CMD"), 0, RequestBytes[r])
           /\ Encoded(Pack("DEV_CREATE_BUFFER_CMD", r, 0, n))
                  = Message(Code("DEV_CREATE_BUFFER_CMD"), Port, Two(n))
  <1>1. Encoded(Pack("SEND_PACKAGE_ANSWER_CMD", r, 0, n))
            = Two(Code("SEND_PACKAGE_ANSWER_CMD")) \o (<<0>> \o RequestBytes[r])
    BY DEF Encoded, Body, Pack, NoPack
  <1>2. Encoded(Pack("DEV_CREATE_BUFFER_CMD", r, 0, n))
            = Two(Code("DEV_CREATE_BUFFER_CMD")) \o (<<Port>> \o Two(n))
    BY DEF Encoded, Body, Pack, NoPack
  <1> QED
    BY <1>1, <1>2, Zenon DEF Message

\* A block of a larger request.
LEMMA EncodedBlock ==
    ASSUME NEW r, NEW off \in Short, NEW n,
           SubSeq(Package(r), off + 1, off + n) \in Seq(Byte)
    PROVE  Encoded(Pack("SEND_DATA_BLOCK_CMD", r, off, n))
             = Message(Code("SEND_DATA_BLOCK_CMD"), Port,
                       Two(off) \o SubSeq(Package(r), off + 1, off + n))
  <1>0. off \in Int /\ Port \in Byte
    BY WireAssumption DEF Short
  <1>1. PICK d \in Seq(Byte) : d = SubSeq(Package(r), off + 1, off + n)
    OBVIOUS
  <1>2. <<Port>> \in Seq(Byte) /\ Two(off) \in Seq(Byte) /\ d \in Seq(Byte)
    BY <1>0, <1>1, OneByte, TwoType, Zenon
  <1>3. (<<Port>> \o Two(off)) \o d = <<Port>> \o (Two(off) \o d)
    BY <1>2, ThreeParts, Zenon
  <1>4. Encoded(Pack("SEND_DATA_BLOCK_CMD", r, off, n))
            = Two(Code("SEND_DATA_BLOCK_CMD"))
              \o ((<<Port>> \o Two(off)) \o SubSeq(Package(r), off + 1, off + n))
    BY DEF Encoded, Body, Pack, NoPack
  <1> QED
    BY <1>1, <1>3, <1>4, Zenon DEF Message

\* The check at the end of a larger request: its size and its CRC-32.
LEMMA EncodedCheck ==
    ASSUME NEW r \in Requests, DataSize[r] <= MaxData, NEW off, NEW n
    PROVE  Encoded(Pack("FINISH_SEND_DATA_CMD", r, off, n))
             = Message(Code("FINISH_SEND_DATA_CMD"), Port,
                       Two(Size(r)) \o Four(Crc32Of(Package(r))))
  <1>1. Package(r) \in Seq(Byte) /\ Len(Package(r)) = Size(r)
    BY PackageForm, Zenon
  <1>2. CheckSum(Package(r)) = Two(Size(r)) \o Four(Crc32Of(Package(r)))
    BY <1>1, CrcCorrect, Zenon DEF CheckSum
  <1>3. Encoded(Pack("FINISH_SEND_DATA_CMD", r, off, n))
            = Two(Code("FINISH_SEND_DATA_CMD")) \o (<<Port>> \o CheckSum(Package(r)))
    BY DEF Encoded, Body, Pack, NoPack
  <1> QED
    BY <1>2, <1>3, Zenon DEF Message

\* The packets that acknowledge the frames of a reply.
LEMMA EncodedAck ==
    ASSUME NEW cmd \in Acknowledgements, NEW off \in Int, NEW n \in Int,
           Len(recvDataBuffer) \in Int
    PROVE  /\ IsAck(Encoded(Pack(cmd, NoRequest, off, n)))
           /\ cmd = "APP_CREATE_BUFFER" =>
                  Encoded(Pack(cmd, NoRequest, off, n))
                      = Message(Code(cmd), 0, <<Port>> \o Two(n))
           /\ cmd = "APP_RECEIVE_DATA_BLOCK_CMD" =>
                  Encoded(Pack(cmd, NoRequest, off, n))
                      = Message(Code(cmd), 0, <<Port>> \o (Two(off) \o Two(n)))
           /\ cmd = "APP_FINISH_RECV_DATA_CMD" =>
                  Encoded(Pack(cmd, NoRequest, off, n))
                      = Message(Code(cmd), Port, CheckSum(recvDataBuffer))
  <1>0. 0 \in Byte /\ Port \in Byte
    BY WireAssumption DEF Byte
  <1>1. PICK t \in Seq(Byte) : t = Two(n)
    BY TwoType, Zenon
  <1>2. PICK u \in Seq(Byte) : u = Two(off)
    BY TwoType, Zenon
  <1>3. PICK x \in Seq(Byte) : x = <<0>>
    BY <1>0, OneByte, Zenon
  <1>4. PICK y \in Seq(Byte) : y = <<Port>>
    BY <1>0, OneByte, Zenon
  <1>5. <<0, Port>> = x \o y
    BY <1>0, <1>3, <1>4, TwoBytes, Zenon
  <1>6. x \in Seq(Byte) /\ y \in Seq(Byte) /\ t \in Seq(Byte) /\ u \in Seq(Byte)
    BY <1>1, <1>2, <1>3, <1>4
  <1>7. CASE cmd = "APP_CREATE_BUFFER"
    <2>1. Encoded(Pack("APP_CREATE_BUFFER", NoRequest, off, n))
             = Two(Code("APP_CREATE_BUFFER")) \o (<<0, Port>> \o Two(n))
      BY DEF Encoded, Body, Pack, NoPack
    <2>2. (x \o y) \o t = x \o (y \o t)
      BY <1>6, ThreeParts, Zenon
    <2>3. y \o t \in Seq(Byte)
      BY <1>6, CatType, Zenon
    <2>4. Encoded(Pack(cmd, NoRequest, off, n)) = Message(Code(cmd), 0, y \o t)
      BY <1>1, <1>3, <1>5, <1>7, <2>1, <2>2, Zenon DEF Message
    <2>5. IsAck(Encoded(Pack(cmd, NoRequest, off, n)))
      BY <1>0, <2>3, <2>4, Zenon DEF IsAck
    <2>6. Encoded(Pack(cmd, NoRequest, off, n)) = Message(Code(cmd), 0, <<Port>> \o Two(n))
      BY <1>1, <1>4, <2>4, Zenon
    <2>7. cmd # "APP_RECEIVE_DATA_BLOCK_CMD" /\ cmd # "APP_FINISH_RECV_DATA_CMD"
      BY <1>7
    <2> QED
      BY <2>5, <2>6, <2>7, Zenon
  <1>8. CASE cmd = "APP_RECEIVE_DATA_BLOCK_CMD"
    <2>1. Encoded(Pack("APP_RECEIVE_DATA_BLOCK_CMD", NoRequest, off, n))
             = Two(Code("APP_RECEIVE_DATA_BLOCK_CMD")) \o ((<<0, Port>> \o Two(off)) \o Two(n))
      BY DEF Encoded, Body, Pack, NoPack
    <2>2. (x \o y) \o u = x \o (y \o u)
      BY <1>6, ThreeParts, Zenon
    <2>3. PICK v \in Seq(Byte) : v = y \o u
      BY <1>6, CatType, Zenon
    <2>4. v \in Seq(Byte)
      BY <2>3
    <2>5. (x \o v) \o t = x \o (v \o t)
      BY <1>6, <2>4, ThreeParts, Zenon
    <2>6. v \o t \in Seq(Byte)
      BY <1>6, <2>4, CatType, Zenon
    <2>7. (<<0, Port>> \o Two(off)) \o Two(n) = <<0>> \o (v \o t)
      BY <1>1, <1>2, <1>3, <1>5, <2>2, <2>3, <2>5, Zenon
    <2>8. Encoded(Pack(cmd, NoRequest, off, n)) = Message(Code(cmd), 0, v \o t)
      BY <1>8, <2>1, <2>7, Zenon DEF Message
    <2>9. IsAck(Encoded(Pack(cmd, NoRequest, off, n)))
      BY <1>0, <2>6, <2>8, Zenon DEF IsAck
    <2>10. v \o t = <<Port>> \o (Two(off) \o Two(n))
      <3>1. (y \o u) \o t = y \o (u \o t)
        BY <1>6, ThreeParts, Zenon
      <3> QED
        BY <1>1, <1>2, <1>4, <2>3, <3>1, Zenon
    <2>11. cmd # "APP_CREATE_BUFFER" /\ cmd # "APP_FINISH_RECV_DATA_CMD"
      BY <1>8
    <2> QED
      BY <2>8, <2>9, <2>10, <2>11, Zenon
  <1>9. CASE cmd = "APP_FINISH_RECV_DATA_CMD"
    <2>1. CheckSum(recvDataBuffer) \in Seq(Byte)
      <3>1. crc32_fsl({}, recvDataBuffer) \in Word
        BY DEF crc32_fsl, Complement, Word
      <3>2. Four(crc32_fsl({}, recvDataBuffer)) \in Seq(Byte)
        BY <3>1, FourType, Zenon
      <3>3. Two(Len(recvDataBuffer)) \in Seq(Byte)
        BY TwoType, Zenon
      <3> QED
        BY <3>2, <3>3, CatType, Zenon DEF CheckSum
    <2>2. Encoded(Pack("APP_FINISH_RECV_DATA_CMD", NoRequest, off, n))
             = Two(Code("APP_FINISH_RECV_DATA_CMD")) \o (<<Port>> \o CheckSum(recvDataBuffer))
      BY DEF Encoded, Body, Pack, NoPack
    <2>3. Encoded(Pack(cmd, NoRequest, off, n))
             = Message(Code(cmd), Port, CheckSum(recvDataBuffer))
      BY <1>9, <2>2, Zenon DEF Message
    <2>4. IsAck(Encoded(Pack(cmd, NoRequest, off, n)))
      BY <1>0, <2>1, <2>3, Zenon DEF IsAck
    <2>5. cmd # "APP_CREATE_BUFFER" /\ cmd # "APP_RECEIVE_DATA_BLOCK_CMD"
      BY <1>9
    <2> QED
      BY <2>3, <2>4, <2>5, Zenon
  <1>10. \/ cmd = "APP_CREATE_BUFFER"
         \/ cmd = "APP_RECEIVE_DATA_BLOCK_CMD"
         \/ cmd = "APP_FINISH_RECV_DATA_CMD"
    BY DEF Acknowledgements
  <1> QED
    BY <1>7, <1>8, <1>9, <1>10, Zenon

\* The protocol's answers to the frames of a reply, as messages: to a frame of
\* one command, of the one that answers it.
LEMMA AcknowledgementForm ==
    ASSUME NEW b \in Byte, NEW rest \in Seq(Byte), NEW f
    PROVE  /\ f = Message(Code("DEV_CREATE_BUFFER"), b, rest) =>
                  Acknowledgement(f)
                      = Message(Code("APP_CREATE_BUFFER"), 0, <<b>> \o Two(TwoAt(rest, 0)))
           /\ f = Message(Code("DEV_RECEIVE_DATA_BLOCK_CMD"), b, rest) =>
                  Acknowledgement(f)
                      = Message(Code("APP_RECEIVE_DATA_BLOCK_CMD"), 0,
                                <<b>> \o (Two(TwoAt(rest, 0)) \o Two(Len(rest) - 2)))
           /\ f = Message(Code("DEV_FINISH_RECV_DATA_CMD"), b, rest) =>
                  Acknowledgement(f) = Message(Code("APP_FINISH_RECV_DATA_CMD"), b, rest)
  <1> DEFINE M(cmd) == Message(Code(cmd), b, rest)
  <1>1. ASSUME NEW cmd \in {"DEV_CREATE_BUFFER", "DEV_RECEIVE_DATA_BLOCK_CMD",
                            "DEV_FINISH_RECV_DATA_CMD"}
        PROVE  /\ TwoAt(M(cmd), 0) = Code(cmd)
               /\ At(M(cmd), 2) = b
               /\ TwoAt(M(cmd), 3) = TwoAt(rest, 0)
               /\ Len(M(cmd)) - 5 = Len(rest) - 2
               /\ Right(M(cmd), Len(M(cmd)) - 3) = rest
    <2>1. PICK n \in Short : n = Code(cmd)
      BY CodeType DEF FrameCommands
    <2>2. Len(Message(n, b, rest)) = 3 + Len(rest)
      BY MessageType, Zenon
    <2>3. /\ TwoAt(Message(n, b, rest), 0) = n
          /\ At(Message(n, b, rest), 2) = b
          /\ \A i \in Nat : TwoAt(Message(n, b, rest), 3 + i) = TwoAt(rest, i)
          /\ Right(Message(n, b, rest), Len(Message(n, b, rest)) - 3) = rest
      BY MessageRead, Zenon
    <2>4. 0 \in Nat /\ 3 + 0 = 3
      OBVIOUS
    <2>5. TwoAt(Message(n, b, rest), 3) = TwoAt(rest, 0)
      BY <2>3, <2>4, Zenon
    <2>6. (3 + Len(rest)) - 5 = Len(rest) - 2
      OBVIOUS
    <2>7. Len(Message(n, b, rest)) - 5 = Len(rest) - 2
      BY <2>2, <2>6, Zenon
    <2> QED
      BY <2>1, <2>3, <2>5, <2>7, Zenon
  <1>2. /\ Code("DEV_CREATE_BUFFER") + 64 * 256 = Code("APP_CREATE_BUFFER")
        /\ Code("DEV_RECEIVE_DATA_BLOCK_CMD") + 64 * 256 = Code("APP_RECEIVE_DATA_BLOCK_CMD")
        /\ Code("DEV_FINISH_RECV_DATA_CMD") + 64 * 256 = Code("APP_FINISH_RECV_DATA_CMD")
        /\ Code("DEV_CREATE_BUFFER") # Code("DEV_RECEIVE_DATA_BLOCK_CMD")
        /\ Code("DEV_CREATE_BUFFER") # Code("DEV_FINISH_RECV_DATA_CMD")
        /\ Code("DEV_RECEIVE_DATA_BLOCK_CMD") # Code("DEV_FINISH_RECV_DATA_CMD")
    BY CodeValues
  <1> HIDE DEF M
  <1>3. Acknowledgement(M("DEV_CREATE_BUFFER"))
            = Message(Code("APP_CREATE_BUFFER"), 0, <<b>> \o Two(TwoAt(rest, 0)))
    <2>1. /\ TwoAt(M("DEV_CREATE_BUFFER"), 0) = Code("DEV_CREATE_BUFFER")
          /\ At(M("DEV_CREATE_BUFFER"), 2) = b
          /\ TwoAt(M("DEV_CREATE_BUFFER"), 3) = TwoAt(rest, 0)
      BY <1>1
    <2> QED
      BY <1>2, <2>1, Zenon DEF Acknowledgement, Message
  <1>4. Acknowledgement(M("DEV_RECEIVE_DATA_BLOCK_CMD"))
            = Message(Code("APP_RECEIVE_DATA_BLOCK_CMD"), 0,
                      <<b>> \o (Two(TwoAt(rest, 0)) \o Two(Len(rest) - 2)))
    <2>1. /\ TwoAt(M("DEV_RECEIVE_DATA_BLOCK_CMD"), 0) = Code("DEV_RECEIVE_DATA_BLOCK_CMD")
          /\ At(M("DEV_RECEIVE_DATA_BLOCK_CMD"), 2) = b
          /\ TwoAt(M("DEV_RECEIVE_DATA_BLOCK_CMD"), 3) = TwoAt(rest, 0)
          /\ Len(M("DEV_RECEIVE_DATA_BLOCK_CMD")) - 5 = Len(rest) - 2
      BY <1>1
    <2> QED
      BY <1>2, <2>1, Zenon DEF Acknowledgement, Message
  <1>5. Acknowledgement(M("DEV_FINISH_RECV_DATA_CMD"))
            = Message(Code("APP_FINISH_RECV_DATA_CMD"), b, rest)
    <2>1. /\ TwoAt(M("DEV_FINISH_RECV_DATA_CMD"), 0) = Code("DEV_FINISH_RECV_DATA_CMD")
          /\ At(M("DEV_FINISH_RECV_DATA_CMD"), 2) = b
          /\ Right(M("DEV_FINISH_RECV_DATA_CMD"), Len(M("DEV_FINISH_RECV_DATA_CMD")) - 3) = rest
      BY <1>1
    <2> QED
      BY <1>2, <2>1, Zenon DEF Acknowledgement, Message
  <1> QED
    BY <1>3, <1>4, <1>5, Zenon DEF M

\* The device finds the command of a packet, its port and what is behind it.
LEMMA PacketRead ==
    ASSUME NEW cmd \in Commands, NEW b \in Byte, NEW rest \in Seq(Byte), NEW p,
           p = Message(Code(cmd), b, rest)
    PROVE  /\ p \in Seq(Byte)
           /\ p # <<>>
           /\ \A c \in Commands : TwoAt(p, 0) = Code(c) => c = cmd
           /\ At(p, 2) = b
           /\ \A i \in Nat : TwoAt(p, 3 + i) = TwoAt(rest, i)
           /\ Right(p, Len(p) - 3) = rest
  <1>1. Code(cmd) \in Short
    BY CodeType
  <1>2. Message(Code(cmd), b, rest) \in Seq(Byte) /\ Message(Code(cmd), b, rest) # <<>>
    BY <1>1, MessageType, Zenon
  <1>3. /\ TwoAt(Message(Code(cmd), b, rest), 0) = Code(cmd)
        /\ At(Message(Code(cmd), b, rest), 2) = b
        /\ \A i \in Nat : TwoAt(Message(Code(cmd), b, rest), 3 + i) = TwoAt(rest, i)
        /\ Right(Message(Code(cmd), b, rest), Len(Message(Code(cmd), b, rest)) - 3) = rest
    BY <1>1, MessageRead, Zenon
  <1>4. \A c \in Commands : Code(cmd) = Code(c) => c = cmd
    BY CodesDiffer
  <1> QED
    BY <1>2, <1>3, <1>4, Zenon

-----------------------------------------------------------------------------
(* The frames of a reply.                                                  *)

\* The larger of two factors gives the larger product.
LEMMA Product ==
    ASSUME NEW a \in Nat, NEW b \in Nat, NEW c \in Nat, a <= b
    PROVE  a * c <= b * c /\ a * c \in Nat /\ b * c \in Nat
  OBVIOUS

\* So many blocks of size b hold n bytes, and no fewer.
LEMMA CountBounds ==
    ASSUME NEW n \in Nat, NEW b \in Nat, b > 0, n > 0
    PROVE  LET c == (n + b - 1) \div b
           IN  /\ c \in Nat
               /\ c > 0
               /\ (c - 1) * b < n
               /\ n <= c * b
  <1>1. PICK x \in Nat : x = n + b - 1
    OBVIOUS
  <1>2. PICK c \in Int : c = x \div b
    OBVIOUS
  <1>3. c * b <= x /\ x < c * b + b
    BY <1>1, <1>2
  <1>4. c > 0
    BY <1>1, <1>3
  <1>5. (c - 1) * b = c * b - b
    BY <1>2
  <1> QED
    BY <1>1, <1>2, <1>3, <1>4, <1>5

\* The package of a reply, the number of its blocks, and the last byte of one.
Whole(m) == ReplyHeader \o m

Count(m, block) == (Len(Whole(m)) + block - 1) \div block

End(m, block, i) == IF i = Count(m, block) THEN Len(Whole(m)) ELSE i * block

Part(m, block, i) == SubSeq(Whole(m), (i - 1) * block + 1, End(m, block, i))

\* The package of a reply is a message.
LEMMA WholeForm ==
    ASSUME NEW m \in ReplyBytes
    PROVE  /\ m \in Seq(Byte)
           /\ m # <<>>
           /\ Whole(m) = Message(Code("RECEIVE_PACKAGE_CMD"), 0, m)
           /\ Whole(m) \in Seq(Byte)
           /\ Len(Whole(m)) = 3 + Len(m)
           /\ Len(Whole(m)) \in Short
           /\ Right(Whole(m), Len(Whole(m)) - HeaderSize) = m
  <1>1. m \in Seq(Byte) /\ m # <<>>
    BY WireAssumption
  <1>2. 0 \in Byte /\ Code("RECEIVE_PACKAGE_CMD") \in Short
    BY CodeType DEF Byte, FrameCommands
  <1>3. Whole(m) = Message(Code("RECEIVE_PACKAGE_CMD"), 0, m)
    BY <1>1, <1>2, LeftMessage, Zenon DEF Whole, ReplyHeader
  <1>4. Whole(m) \in Seq(Byte) /\ Len(Whole(m)) = 3 + Len(m)
    <2>1. LET w == Message(Code("RECEIVE_PACKAGE_CMD"), 0, m)
          IN  w \in Seq(Byte) /\ Len(w) = 3 + Len(m)
      BY <1>1, <1>2, MessageType, Zenon
    <2> QED
      BY <1>3, <2>1, Zenon
  <1>5. Len(Whole(m)) \in Short
    <2>1. PICK n \in Nat : n = Len(m)
      BY <1>1
    <2>2. 3 + n < 65536
      BY <2>1, WireAssumption DEF HeaderSize
    <2>3. 3 + n \in Short
      BY <2>1, <2>2 DEF Short
    <2> QED
      BY <1>4, <2>1, <2>3, Zenon
  <1>6. Right(Whole(m), Len(Whole(m)) - HeaderSize) = m
    <2>1. LET w == Message(Code("RECEIVE_PACKAGE_CMD"), 0, m)
          IN  Right(w, Len(w) - 3) = m
      BY <1>1, <1>2, MessageRead, Zenon
    <2> QED
      BY <1>3, <2>1, Zenon DEF HeaderSize
  <1> QED
    BY <1>1, <1>3, <1>4, <1>5, <1>6, Zenon

\* Its blocks are bytes of it, and cover it.
LEMMA BlocksCover ==
    ASSUME NEW m \in ReplyBytes, NEW block \in DeviceBlocks
    PROVE  /\ Count(m, block) \in Nat
           /\ Count(m, block) > 0
           /\ Len(Whole(m)) <= Count(m, block) * block
           /\ \A i \in 1 .. Count(m, block) :
                  /\ (i - 1) * block \in Nat
                  /\ (i - 1) * block < Len(Whole(m))
                  /\ (i - 1) * block \in Short
                  /\ End(m, block, i) \in Nat
                  /\ (i - 1) * block < End(m, block, i)
                  /\ End(m, block, i) <= Len(Whole(m))
                  /\ End(m, block, i) <= i * block
                  /\ Part(m, block, i) \in Seq(Byte)
                  /\ Len(Part(m, block, i)) = End(m, block, i) - (i - 1) * block
                  /\ \A j \in 1 .. Len(Part(m, block, i)) :
                         Part(m, block, i)[j] = Whole(m)[(i - 1) * block + j]
  <1>1. PICK w \in Seq(Byte) : w = Whole(m)
    BY WholeForm, Zenon
  <1>2. PICK n \in Nat : n = Len(w)
    BY <1>1
  <1>3. n > 0 /\ n \in Short
    <2>1. m \in Seq(Byte) /\ Len(w) = 3 + Len(m) /\ Len(w) \in Short
      BY <1>1, WholeForm, Zenon
    <2> QED
      BY <1>2, <2>1
  <1>4. block \in Nat /\ block > 0
    BY WireAssumption
  <1>5. PICK c \in Nat : c = (n + block - 1) \div block
    BY <1>3, <1>4, CountBounds
  <1>6. c > 0 /\ (c - 1) * block < n /\ n <= c * block
    BY <1>3, <1>4, <1>5, CountBounds
  <1>7. Count(m, block) = c
    BY <1>1, <1>2, <1>5, Zenon DEF Count
  <1>8. ASSUME NEW i \in 1 .. c
        PROVE  /\ (i - 1) * block \in Nat
               /\ (i - 1) * block < n
               /\ (i - 1) * block \in Short
               /\ End(m, block, i) \in Nat
               /\ (i - 1) * block < End(m, block, i)
               /\ End(m, block, i) <= n
               /\ End(m, block, i) <= i * block
               /\ Part(m, block, i) \in Seq(Byte)
               /\ Len(Part(m, block, i)) = End(m, block, i) - (i - 1) * block
               /\ \A j \in 1 .. Len(Part(m, block, i)) :
                      Part(m, block, i)[j] = w[(i - 1) * block + j]
    <2>1. PICK p \in Nat : p = (i - 1) * block /\ p <= (c - 1) * block
      <3>1. i - 1 \in Nat /\ c - 1 \in Nat /\ i - 1 <= c - 1
        BY <1>6
      <3> QED
        BY <1>4, <3>1, Product
    <2>2. p < n
      BY <1>2, <1>4, <1>5, <1>6, <2>1
    <2>3. i * block = p + block
      BY <1>4, <2>1
    <2>4. PICK e \in Nat : e = (IF i = c THEN n ELSE i * block)
      BY <1>4, <2>3
    <2>5. p < e /\ e <= n /\ e <= i * block
      <3>1. CASE i = c
        BY <1>6, <2>2, <2>4, <3>1
      <3>2. CASE i # c
        <4>1. i \in Nat /\ c - 1 \in Nat /\ i <= c - 1
          BY <1>6, <3>2
        <4>2. i * block <= (c - 1) * block
          BY <1>4, <4>1, Product
        <4>3. (c - 1) * block \in Int
          BY <1>4, <4>1
        <4> QED
          BY <1>2, <1>4, <1>6, <2>3, <2>4, <3>2, <4>2, <4>3
      <3> QED
        BY <3>1, <3>2
    <2>6. End(m, block, i) = e
      BY <1>1, <1>2, <1>7, <2>4, Zenon DEF End
    <2>7. Part(m, block, i) = SubSeq(w, p + 1, e)
      BY <1>1, <2>1, <2>6, Zenon DEF Part
    <2>8. PICK s \in Seq(Byte) : /\ s = SubSeq(w, p + 1, e)
                                 /\ Len(s) = e - p
                                 /\ \A j \in 1 .. e - p : s[j] = w[p + j]
      <3>1. PICK a \in Nat : a = p + 1
        OBVIOUS
      <3>2. \A k \in a .. e : w[k] \in Byte
        BY <1>2, <2>1, <2>5, <3>1
      <3>3. /\ SubSeq(w, a, e) \in Seq(Byte)
            /\ Len(SubSeq(w, a, e)) = IF a <= e THEN e - a + 1 ELSE 0
            /\ \A j \in 1 .. e - a + 1 : SubSeq(w, a, e)[j] = w[a + j - 1]
        <4>1. a \in Int /\ e \in Int
          OBVIOUS
        <4> QED
          BY <3>2, <4>1, SubSeqProperties
      <3>4. PICK s \in Seq(Byte) : s = SubSeq(w, a, e)
        BY <3>3
      <3>5. Len(s) = e - p
        BY <2>5, <3>1, <3>3, <3>4
      <3>6. \A j \in 1 .. e - p : s[j] = w[p + j]
        <4>1. \A j \in 1 .. e - p : j \in 1 .. e - a + 1 /\ a + j - 1 = p + j
          BY <3>1
        <4> QED
          BY <3>3, <3>4, <4>1, Zenon
      <3>7. s = SubSeq(w, p + 1, e)
        BY <3>1, <3>4, Zenon
      <3> QED
        BY <3>4, <3>5, <3>6, <3>7, Zenon
    <2>9. p \in Short
      BY <1>3, <2>1, <2>2 DEF Short
    <2>10. s = Part(m, block, i)
      BY <2>7, <2>8, Zenon
    <2>11. /\ (i - 1) * block \in Nat
           /\ (i - 1) * block < n
           /\ (i - 1) * block \in Short
      BY <2>1, <2>2, <2>9, Zenon
    <2>12. /\ End(m, block, i) \in Nat
           /\ (i - 1) * block < End(m, block, i)
           /\ End(m, block, i) <= n
           /\ End(m, block, i) <= i * block
      BY <2>1, <2>4, <2>5, <2>6, Zenon
    <2>13. s \in Seq(Byte) /\ Len(s) = End(m, block, i) - (i - 1) * block
      BY <2>1, <2>6, <2>8, Zenon
    <2>14. \A j \in 1 .. Len(s) : s[j] = w[(i - 1) * block + j]
      BY <2>1, <2>8, Zenon
    <2> QED
      BY <2>10, <2>11, <2>12, <2>13, <2>14, Zenon
  <1>9. Len(Whole(m)) = n
    BY <1>1, <1>2, Zenon
  <1>10. Count(m, block) \in Nat /\ Count(m, block) > 0 /\ n <= Count(m, block) * block
    BY <1>5, <1>6, <1>7, Zenon
  <1> HIDE <1>5
  <1> QED
    BY <1>1, <1>7, <1>8, <1>9, <1>10, Zenon

\* A frame of a reply is a message.
LEMMA ReplyFrameForm ==
    ASSUME NEW cmd \in {"DEV_CREATE_BUFFER", "DEV_RECEIVE_DATA_BLOCK_CMD",
                        "DEV_FINISH_RECV_DATA_CMD"},
           NEW rest \in Seq(Byte)
    PROVE  /\ ReplyFrame(cmd, rest) = Message(Code(cmd), Port, rest)
           /\ ReplyFrame(cmd, rest) \in Seq(Byte)
  <1>1. Code(cmd) \in Short /\ Port \in Byte
    BY CodeType, WireAssumption DEF FrameCommands
  <1>2. ReplyFrame(cmd, rest) = Message(Code(cmd), Port, rest)
    BY <1>1, LeftMessage, Zenon DEF ReplyFrame
  <1>3. Message(Code(cmd), Port, rest) \in Seq(Byte)
    BY <1>1, MessageType, Zenon
  <1> QED
    BY <1>2, <1>3, Zenon

\* A sequence between two elements.
LEMMA Framed ==
    ASSUME NEW x \in Seq(Byte), NEW f \in Seq(Seq(Byte)), NEW z \in Seq(Byte),
           NEW s, s = (<<x>> \o f) \o <<z>>
    PROVE  /\ s \in Seq(Seq(Byte))
           /\ Len(s) = Len(f) + 2
           /\ s[1] = x
           /\ \A i \in 1 .. Len(f) : s[i + 1] = f[i]
           /\ s[Len(f) + 2] = z
  <1>0. <<x>> \in Seq(Seq(Byte)) /\ <<z>> \in Seq(Seq(Byte))
    OBVIOUS
  <1>1. PICK a \in Seq(Seq(Byte)) : a = <<x>>
    BY <1>0, Zenon
  <1>2. PICK b \in Seq(Seq(Byte)) : b = <<z>>
    BY <1>0, Zenon
  <1>3. Len(a) = 1 /\ a[1] = x /\ Len(b) = 1 /\ b[1] = z
    BY <1>1, <1>2
  <1>4. PICK g \in Seq(Seq(Byte)) : g = a \o f
    <2>1. a \o f \in Seq(Seq(Byte))
      BY <1>1
    <2> QED
      BY <2>1, Zenon
  <1>5. Len(g) = 1 + Len(f) /\ g[1] = x /\ \A i \in 1 .. Len(f) : g[i + 1] = f[i]
    BY <1>1, <1>3, <1>4
  <1>6. PICK h \in Seq(Seq(Byte)) : h = g \o b
    <2>1. g \o b \in Seq(Seq(Byte))
      BY <1>2, <1>4
    <2> QED
      BY <2>1, Zenon
  <1>7. /\ Len(h) = Len(f) + 2
        /\ h[1] = x
        /\ \A i \in 1 .. Len(f) : h[i + 1] = f[i]
        /\ h[Len(f) + 2] = z
    BY <1>2, <1>3, <1>4, <1>5, <1>6
  <1>8. s = h
    BY <1>1, <1>2, <1>4, <1>6, Zenon
  <1> QED
    BY <1>6, <1>7, <1>8, Zenon

\* The frames of a longer reply.
LEMMA FramesShape ==
    ASSUME NEW m \in ReplyBytes, NEW block \in DeviceBlocks, ~ (Len(m) <= block)
    PROVE  LET frames == FramesOf(m, block)
               count  == Count(m, block)
           IN  /\ frames \in Seq(Seq(Byte))
               /\ Len(frames) = count + 2
               /\ frames[1] = Message(Code("DEV_CREATE_BUFFER"), Port, Two(Len(Whole(m))))
               /\ \A i \in 1 .. count :
                      frames[i + 1] = Message(Code("DEV_RECEIVE_DATA_BLOCK_CMD"), Port,
                                              Two((i - 1) * block) \o Part(m, block, i))
               /\ frames[count + 2]
                      = Message(Code("DEV_FINISH_RECV_DATA_CMD"), Port,
                                Two(Len(Whole(m))) \o Four(Crc32Of(Whole(m))))
  <1>1. PICK t \in Seq(Byte) : t = Two(Len(Whole(m)))
    <2>1. Len(Whole(m)) \in Int
      BY WholeForm DEF Short
    <2> QED
      BY <2>1, TwoType, Zenon
  <1>2. PICK u \in Seq(Byte) : u = Two(Len(Whole(m))) \o Four(Crc32Of(Whole(m)))
    <2>1. Four(Crc32Of(Whole(m))) \in Seq(Byte)
      BY CrcType, FourType, Zenon
    <2> QED
      BY <1>1, <2>1, CatType, Zenon
  <1>3. PICK c \in Nat : c = Count(m, block)
    BY BlocksCover, Zenon
  <1>4. ASSUME NEW i \in 1 .. c
        PROVE  Two((i - 1) * block) \o Part(m, block, i) \in Seq(Byte)
    <2>1. Part(m, block, i) \in Seq(Byte) /\ (i - 1) * block \in Short
      BY <1>3, BlocksCover, Zenon
    <2> QED
      BY <2>1, NumberRead, Zenon
  <1> DEFINE B(i) == ReplyFrame("DEV_RECEIVE_DATA_BLOCK_CMD",
                                Two((i - 1) * block) \o Part(m, block, i))
  <1>5. \A i \in 1 .. c :
            /\ B(i) \in Seq(Byte)
            /\ B(i) = Message(Code("DEV_RECEIVE_DATA_BLOCK_CMD"), Port,
                              Two((i - 1) * block) \o Part(m, block, i))
    BY <1>4, ReplyFrameForm
  <1>6. PICK f : f = [i \in 1 .. c |-> B(i)]
    OBVIOUS
  <1>7. f \in Seq(Seq(Byte)) /\ Len(f) = c /\ \A i \in 1 .. c : f[i] = B(i)
    <2> HIDE DEF B
    <2> QED
      BY <1>5, <1>6
  <1>8. PICK x \in Seq(Byte) : /\ x = ReplyFrame("DEV_CREATE_BUFFER", t)
                               /\ x = Message(Code("DEV_CREATE_BUFFER"), Port, t)
    BY <1>1, ReplyFrameForm
  <1>9. PICK z \in Seq(Byte) : /\ z = ReplyFrame("DEV_FINISH_RECV_DATA_CMD", u)
                               /\ z = Message(Code("DEV_FINISH_RECV_DATA_CMD"), Port, u)
    BY <1>2, ReplyFrameForm
  <1>10. FramesOf(m, block) = (<<x>> \o f) \o <<z>>
    <2>1. FramesOf(m, block) = ReplyBlocks(Whole(m), block)
      BY Zenon DEF FramesOf, Whole
    <2> QED
      BY <1>1, <1>2, <1>3, <1>6, <1>8, <1>9, <2>1, Zenon DEF ReplyBlocks, Count, End, Part
  <1>11. PICK s : s = (<<x>> \o f) \o <<z>>
    OBVIOUS
  <1>12. /\ s \in Seq(Seq(Byte))
         /\ Len(s) = Len(f) + 2
         /\ s[1] = x
         /\ \A i \in 1 .. Len(f) : s[i + 1] = f[i]
         /\ s[Len(f) + 2] = z
    <2>1. x \in Seq(Byte) /\ f \in Seq(Seq(Byte)) /\ z \in Seq(Byte)
      BY <1>7, <1>8, <1>9
    <2> QED
      BY <1>11, <2>1, Framed
  <1>13. s = FramesOf(m, block)
    BY <1>10, <1>11, Zenon
  <1> QED
    BY <1>1, <1>2, <1>3, <1>5, <1>7, <1>8, <1>9, <1>12, <1>13, Zenon

\* The only frame of a short one.
LEMMA OneFrame ==
    ASSUME NEW m \in ReplyBytes, NEW block \in DeviceBlocks, Len(m) <= block
    PROVE  /\ FramesOf(m, block) \in Seq(Seq(Byte))
           /\ Len(FramesOf(m, block)) = 1
           /\ FramesOf(m, block)[1] = Message(Code("RECEIVE_PACKAGE_CMD"), 0, m)
  <1>1. PICK w \in Seq(Byte) : w = Whole(m) /\ w = Message(Code("RECEIVE_PACKAGE_CMD"), 0, m)
    BY WholeForm, Zenon
  <1>2. FramesOf(m, block) = <<w>>
    BY <1>1, Zenon DEF FramesOf, Whole
  <1>3. <<w>> \in Seq(Seq(Byte)) /\ Len(<<w>>) = 1 /\ <<w>>[1] = w
    BY <1>1
  <1> QED
    BY <1>1, <1>2, <1>3, Zenon

\* There is at least one, and they are bytes.
LEMMA FramesType ==
    ASSUME NEW m \in ReplyBytes, NEW block \in DeviceBlocks
    PROVE  FramesOf(m, block) \in Seq(Seq(Byte)) /\ Len(FramesOf(m, block)) > 0
  <1>1. CASE Len(m) <= block
    BY <1>1, OneFrame
  <1>2. CASE ~ (Len(m) <= block)
    <2>1. PICK c \in Nat : c = Count(m, block)
      BY BlocksCover, Zenon
    <2>2. FramesOf(m, block) \in Seq(Seq(Byte)) /\ Len(FramesOf(m, block)) = c + 2
      BY <1>2, <2>1, FramesShape, Zenon
    <2> QED
      BY <2>2
  <1> QED
    BY <1>1, <1>2

-----------------------------------------------------------------------------
(* The stages of an exchange.  Nothing is lost, so that at any time either *)
(* one packet or one answer is on its way, and the state of both sides     *)
(* follows from it.                                                        *)

\* No request has been made.
Fresh ==
    /\ request = NoRequest
    /\ downlink = <<>>
    /\ uplink = <<>>
    /\ recvDataBuffer = <<>>
    /\ delivered = <<>>
    /\ reply = <<>>
    /\ replyFrames = <<>>
    /\ told = <<>>

\* Request r is on its way to the device.
Asks(r) ==
    /\ r \in Requests
    /\ request = r
    /\ DataSize[r] <= MaxData
    /\ recvDataBuffer = <<>>
    /\ delivered = <<>>
    /\ reply = <<>>
    /\ replyFrames = <<>>
    /\ told = <<>>

\* It goes in one packet.
SmallOnAir(r) ==
    /\ Asks(r)
    /\ uplink = <<>>
    /\ downlink = Message(Code("SEND_PACKAGE_ANSWER_CMD"), 0, RequestBytes[r])

\* It goes in blocks.
AsksLarge(r) ==
    /\ Asks(r)
    /\ sendDataBuffer = [req |-> r, size |-> Size(r)]

\* The device is to create a buffer for it.
CreateOnAir(r) ==
    /\ AsksLarge(r)
    /\ uplink = <<>>
    /\ downlink = Message(Code("DEV_CREATE_BUFFER_CMD"), Port, Two(Size(r)))

\* The first n bytes of the request are in the device's buffer.
Filled(r, n) ==
    /\ devBuffer \in Seq(Byte)
    /\ Len(devBuffer) = Size(r)
    /\ \A i \in 1 .. n : devBuffer[i] = Package(r)[i]

\* The device has created it.
CreateAnswered(r) ==
    /\ AsksLarge(r)
    /\ downlink = <<>>
    /\ Filled(r, 0)
    /\ uplink = <<Message(AnswerTo("DEV_CREATE_BUFFER_CMD"), 0, <<Port>> \o Two(Size(r)))>>

\* The bytes before pos are in it.
Blocks(r, pos) ==
    /\ AsksLarge(r)
    /\ pos \in Nat
    /\ pos < Size(r)
    /\ fileSizeCounter = pos

\* The block at pos is on its way.
BlockOnAir(r, pos) ==
    /\ Blocks(r, pos)
    /\ Filled(r, pos)
    /\ uplink = <<>>
    /\ downlink = Message(Code("SEND_DATA_BLOCK_CMD"), Port,
                          Two(pos) \o SubSeq(Package(r), pos + 1, pos + Cut(r, pos)))

\* It is in the buffer too.
BlockAnswered(r, pos) ==
    /\ Blocks(r, pos)
    /\ Filled(r, pos + Cut(r, pos))
    /\ downlink = <<>>
    /\ uplink = <<Message(AnswerTo("SEND_DATA_BLOCK_CMD"), 0,
                          <<Port>> \o (Two(pos) \o Two(Cut(r, pos))))>>

\* All of it is, and the check is on its way.
CheckOnAir(r) ==
    /\ AsksLarge(r)
    /\ devBuffer = Package(r)
    /\ uplink = <<>>
    /\ downlink = Message(Code("FINISH_SEND_DATA_CMD"), Port,
                          Two(Size(r)) \o Four(Crc32Of(Package(r))))

\* The request is delivered and reply m on its way, in blocks of this size.
Replies(m, block) ==
    /\ request \in Requests
    /\ delivered = RequestBytes[request]
    /\ m \in ReplyBytes
    /\ reply = m
    /\ block \in DeviceBlocks
    /\ frameSize = block
    /\ told = <<>>

\* The answer to the last packet of the request is before the first frame.
FirstOnAir(m, block) ==
    /\ Replies(m, block)
    /\ recvDataBuffer = <<>>
    /\ downlink = <<>>
    /\ replyFrames = Tail(FramesOf(m, block))
    /\ \E cmd \in {"SEND_PACKAGE_ANSWER_CMD", "FINISH_SEND_DATA_CMD"}, rest \in Seq(Byte) :
           uplink = <<Message(AnswerTo(cmd), 0, rest), Head(FramesOf(m, block))>>

\* What recvDataBuffer holds after k frames of a reply in several.
Held(m, block, k) ==
    IF k = 0 THEN <<>>
    ELSE [i \in 1 .. Len(Whole(m)) |-> IF i <= (k - 1) * block THEN Whole(m)[i] ELSE Junk]

\* Its k-th frame is on its way.
FrameOnAir(m, block, k) ==
    /\ Replies(m, block)
    /\ k \in 1 .. Len(FramesOf(m, block))
    /\ downlink = <<>>
    /\ uplink = <<FramesOf(m, block)[k]>>
    /\ replyFrames = SubSeq(FramesOf(m, block), k + 1, Len(FramesOf(m, block)))
    /\ recvDataBuffer = Held(m, block, k - 1)

\* Its k-th frame has been stored, and there are more.
AckOnAir(m, block, k) ==
    /\ Replies(m, block)
    /\ k \in 1 .. Len(FramesOf(m, block)) - 1
    /\ uplink = <<>>
    /\ IsAck(downlink)
    /\ downlink = Acknowledgement(FramesOf(m, block)[k])
    /\ replyFrames = SubSeq(FramesOf(m, block), k + 1, Len(FramesOf(m, block)))
    /\ recvDataBuffer = Held(m, block, k)

\* It has done so, and nothing goes on.
Stalled ==
    /\ request \in Requests
    /\ delivered = RequestBytes[request]
    /\ reply \in ReplyBytes
    /\ frameSize \in DeviceBlocks
    /\ TakenForStatus
    /\ told = <<>>
    /\ downlink = <<>>
    /\ uplink = <<>>

\* The last frame of the reply is acknowledged.
LastAck ==
    /\ IsAck(downlink)
    /\ downlink = Acknowledgement(FramesOf(reply, frameSize)[Len(FramesOf(reply, frameSize))])

\* The application has the reply.
Told ==
    /\ request \in Requests
    /\ delivered = RequestBytes[request]
    /\ reply \in ReplyBytes
    /\ frameSize \in DeviceBlocks
    /\ told = reply
    /\ downlink = <<>> \/ LastAck
    /\ uplink = <<>>
    /\ replyFrames = <<>>
    /\ recvDataBuffer = <<>>

\* The stages up to the delivery of the request.
Asking ==
    \/ Fresh
    \/ \E r \in Requests :
           \/ SmallOnAir(r)
           \/ CreateOnAir(r)
           \/ CreateAnswered(r)
           \/ \E pos \in Nat : BlockOnAir(r, pos) \/ BlockAnswered(r, pos)
           \/ CheckOnAir(r)

\* And those after it.
Answering ==
    \/ \E m \in ReplyBytes, block \in DeviceBlocks :
           \/ FirstOnAir(m, block)
           \/ \E k \in Nat : FrameOnAir(m, block, k) \/ AckOnAir(m, block, k)
    \/ Stalled
    \/ Told

\* The inductive invariant: the exchange is at one of them.
WireInv == Asking \/ Answering

\* The initial states are fresh.
LEMMA WireInitInv == WireInit => WireInv
  BY DEF WireInit, Init, WireInv, Asking, Fresh

\* A step that changes nothing leaves the exchange at its stage.
LEMMA Stutters ==
    ASSUME WireInv, UNCHANGED wireVars
    PROVE  WireInv'
  BY DEF WireInv, Asking, Answering, Fresh, SmallOnAir, CreateOnAir, CreateAnswered,
         BlockOnAir, BlockAnswered, CheckOnAir, Asks, AsksLarge, Filled, Blocks, Replies,
         FirstOnAir, FrameOnAir, AckOnAir, Stalled, TakenForStatus, Told, LastAck, wireVars,
         vars, object, device

\* With a frame on its way only the parser has a step.
LEMMA OnlyReceive ==
    ASSUME request \in Requests, downlink = <<>>, uplink # <<>>, [WireNext]_wireVars
    PROVE  UNCHANGED wireVars \/ WireReceive \/ WireIgnore
  <1>1. request # NoRequest
    BY ConstantsAssumption
  <1> QED
    BY <1>1 DEF WireNext, WireRequest, DeviceWritesPackage, DeviceCreatesBuffer,
                DeviceWritesBlock, DeviceFinishes, DeviceTakesAck, DeviceTakes

\* With a packet on its way only the device has one, that for its command.
LEMMA OnlyDevice ==
    ASSUME request \in Requests, uplink = <<>>, NEW cmd \in Commands, NEW b \in Byte,
           NEW rest \in Seq(Byte), downlink = Message(Code(cmd), b, rest),
           [WireNext]_wireVars
    PROVE  \/ UNCHANGED wireVars
           \/ cmd = "SEND_PACKAGE_ANSWER_CMD" /\ DeviceWritesPackage
           \/ cmd = "DEV_CREATE_BUFFER_CMD" /\ DeviceCreatesBuffer
           \/ cmd = "SEND_DATA_BLOCK_CMD" /\ DeviceWritesBlock
           \/ cmd = "FINISH_SEND_DATA_CMD" /\ DeviceFinishes
           \/ cmd \in Acknowledgements /\ DeviceTakesAck
  <1>1. request # NoRequest
    BY ConstantsAssumption
  <1>2. \A c \in Commands : DeviceTakes(c) => c = cmd
    BY PacketRead DEF DeviceTakes
  <1> QED
    BY <1>1, <1>2 DEF WireNext, WireRequest, WireReceive, WireIgnore, DeviceWritesPackage,
                      DeviceCreatesBuffer, DeviceWritesBlock, DeviceFinishes, DeviceTakesAck,
                      Acknowledgements, Commands

-----------------------------------------------------------------------------
(* Each stage is left for another one: the request.                        *)

\* A request is made.
LEMMA FreshStep ==
    ASSUME Fresh, [WireNext]_wireVars
    PROVE  WireInv'
  <1>1. CASE UNCHANGED wireVars
    BY <1>1, Stutters DEF WireInv, Asking
  <1>2. CASE WireRequest
    <2>1. PICK r \in Requests : AcceptedRequest(r) /\ request' = r
      BY <1>2 DEF WireRequest
    <2>2. DataSize[r] <= MaxData
      <3>1. PICK d \in Nat : d = DataSize[r]
        BY ConstantsAssumption
      <3>2. MaxData \in Nat
        BY ConstantsAssumption
      <3> QED
        BY <2>1, <3>1, <3>2 DEF AcceptedRequest, Refusal
    <2>3. Asks(r)'
      BY <1>2, <2>1, <2>2 DEF Asks, Fresh, WireRequest, AcceptedRequest, device
    <2>4. uplink' = <<>> /\ downlink' = Encoded(sendLoraPack')
      BY <1>2 DEF WireRequest, Fresh
    <2>5. CASE DataSize[r] <= BlockSize
      <3>1. sendLoraPack' = Pack("SEND_PACKAGE_ANSWER_CMD", r, 0, DataSize[r] + HeaderSize)
        BY <2>1, <2>5 DEF AcceptedRequest, SendCommand
      <3>2. downlink' = Message(Code("SEND_PACKAGE_ANSWER_CMD"), 0, RequestBytes[r])
        BY <2>4, <3>1, EncodedFirst, Zenon
      <3>3. SmallOnAir(r)'
        BY <2>3, <2>4, <3>2 DEF SmallOnAir
      <3> QED
        BY <3>3 DEF WireInv, Asking
    <2>6. CASE ~ (DataSize[r] <= BlockSize)
      <3>1. sendLoraPack' = Pack("DEV_CREATE_BUFFER_CMD", r, 0, DataSize[r] + HeaderSize)
        BY <2>1, <2>6 DEF AcceptedRequest, SendCommand
      <3>2. Size(r) = DataSize[r] + HeaderSize
        BY <2>2, RequestSize, Zenon
      <3>3. downlink' = Message(Code("DEV_CREATE_BUFFER_CMD"), Port, Two(Size(r)))
        BY <2>4, <3>1, <3>2, EncodedFirst, Zenon
      <3>4. sendDataBuffer' = [req |-> r, size |-> Size(r)]
        BY <2>1, <2>6, <3>2 DEF AcceptedRequest
      <3>5. CreateOnAir(r)'
        BY <2>3, <2>4, <3>3, <3>4 DEF CreateOnAir, AsksLarge
      <3> QED
        BY <3>5 DEF WireInv, Asking
    <2> QED
      BY <2>5, <2>6
  <1> QED
    BY <1>1, <1>2 DEF Fresh, WireNext, WireReceive, WireIgnore, DeviceWritesPackage,
                      DeviceCreatesBuffer, DeviceWritesBlock, DeviceFinishes,
                      DeviceTakesAck, DeviceTakes

\* The device's answer to a command, as a message.
LEMMA AnswerForm ==
    ASSUME NEW cmd \in {"DEV_CREATE_BUFFER_CMD", "SEND_DATA_BLOCK_CMD",
                        "FINISH_SEND_DATA_CMD"},
           NEW rc \in Byte, NEW fields \in Seq(Byte), At(downlink, 2) = Port
    PROVE  /\ Answer(cmd, rc, fields) = Message(AnswerTo(cmd), rc, <<Port>> \o fields)
           /\ <<Port>> \o fields \in Seq(Byte)
  <1>1. Port \in Byte /\ AnswerTo(cmd) \in Short
    BY WireAssumption, AnswerType
  <1>2. (Two(AnswerTo(cmd)) \o <<rc, Port>>) \o fields
            = Message(AnswerTo(cmd), rc, <<Port>> \o fields)
    BY <1>1, LeftMessageTwo, Zenon
  <1>3. <<Port>> \o fields \in Seq(Byte)
    BY <1>1, BehindPort, Zenon
  <1> QED
    BY <1>2, <1>3, Zenon DEF Answer

\* The device delivers a request and begins with the reply.
LEMMA DeliversStep ==
    ASSUME NEW r \in Requests, Asks(r), uplink = <<>>,
           NEW cmd \in {"SEND_PACKAGE_ANSWER_CMD", "FINISH_SEND_DATA_CMD"},
           NEW rest \in Seq(Byte), NEW c \in Commands, DeviceTakes(c),
           Delivers(Message(AnswerTo(cmd), 0, rest), RequestBytes[r])
    PROVE  WireInv'
  <1>1. PICK m \in ReplyBytes, block \in DeviceBlocks :
            /\ reply' = m
            /\ frameSize' = block
            /\ uplink' = uplink \o <<Message(AnswerTo(cmd), 0, rest), Head(FramesOf(m, block))>>
            /\ replyFrames' = Tail(FramesOf(m, block))
    BY DEF Delivers
  <1>2. uplink' = <<Message(AnswerTo(cmd), 0, rest), Head(FramesOf(m, block))>>
    <2>1. PICK x : x = <<Message(AnswerTo(cmd), 0, rest), Head(FramesOf(m, block))>>
      OBVIOUS
    <2>2. <<>> \o x = x
      BY <2>1
    <2> QED
      BY <1>1, <2>1, <2>2, Zenon
  <1>3. delivered' = RequestBytes[r]
    BY DEF Delivers
  <1>4. /\ request' = r
        /\ recvDataBuffer' = <<>>
        /\ downlink' = <<>>
        /\ told' = <<>>
    BY DEF Asks, DeviceTakes, vars, object
  <1>5. FirstOnAir(m, block)'
    BY <1>1, <1>2, <1>3, <1>4, Zenon DEF FirstOnAir, Replies
  <1> QED
    BY <1>5, Zenon DEF WireInv, Answering

\* The device takes a request in one packet.
LEMMA SmallStep ==
    ASSUME NEW r \in Requests, SmallOnAir(r), [WireNext]_wireVars
    PROVE  WireInv'
  <1>1. RequestBytes[r] \in Seq(Byte) /\ 0 \in Byte
    BY RequestSize DEF SmallOnAir, Asks, Byte
  <1>2. "SEND_PACKAGE_ANSWER_CMD" \in Commands
        /\ "SEND_PACKAGE_ANSWER_CMD" \notin Acknowledgements
    BY DEF Commands, Acknowledgements
  <1>3. UNCHANGED wireVars \/ DeviceWritesPackage
    BY <1>1, <1>2, OnlyDevice DEF SmallOnAir, Asks
  <1>4. CASE UNCHANGED wireVars
    BY <1>4, Stutters DEF WireInv, Asking
  <1>5. CASE DeviceWritesPackage
    <2>1. Right(downlink, Len(downlink) - 3) = RequestBytes[r]
      <3>1. downlink = Message(Code("SEND_PACKAGE_ANSWER_CMD"), 0, RequestBytes[r])
        BY DEF SmallOnAir
      <3> QED
        BY <1>1, <1>2, <3>1, PacketRead
    <2>2. <<0>> \in Seq(Byte) /\ <<0, 0>> = <<0>> \o <<0>>
      BY <1>1, OneByte, TwoBytes, Zenon
    <2>3. Two(AnswerTo("SEND_PACKAGE_ANSWER_CMD")) \o <<0, 0>>
             = Message(AnswerTo("SEND_PACKAGE_ANSWER_CMD"), 0, <<0>>)
      BY <2>2, Zenon DEF Message
    <2>4. /\ DeviceTakes("SEND_PACKAGE_ANSWER_CMD")
          /\ Delivers(Message(AnswerTo("SEND_PACKAGE_ANSWER_CMD"), 0, <<0>>), RequestBytes[r])
      BY <1>5, <2>1, <2>3, Zenon DEF DeviceWritesPackage
    <2>5. Asks(r) /\ uplink = <<>>
      BY DEF SmallOnAir
    <2> QED
      BY <1>2, <2>2, <2>4, <2>5, DeliversStep
  <1> QED
    BY <1>3, <1>4, <1>5

\* The number in a packet and what is behind it.
LEMMA PacketData ==
    ASSUME NEW cmd \in Commands, NEW b \in Byte, NEW n \in Short, NEW d \in Seq(Byte),
           NEW p, p = Message(Code(cmd), b, Two(n) \o d)
    PROVE  /\ At(p, 2) = b
           /\ TwoAt(p, 3) = n
           /\ Right(p, Len(p) - 5) = d
           /\ \A w \in Word : d = Four(w) => FourAt(p, 5) = w
  <1>0. Code(cmd) \in Short /\ 0 \in Nat /\ 3 + 0 = 3
    BY CodeType
  <1>1. Two(n) \o d \in Seq(Byte) /\ TwoAt(Two(n) \o d, 0) = n
    BY NumberRead, Zenon
  <1>2. At(p, 2) = b /\ \A i \in Nat : TwoAt(p, 3 + i) = TwoAt(Two(n) \o d, i)
    <2>1. PICK s \in Seq(Byte) : s = Two(n) \o d
      BY <1>1
    <2>2. p = Message(Code(cmd), b, s) /\ s \in Seq(Byte)
      BY <2>1
    <2>3. At(p, 2) = b /\ \A i \in Nat : TwoAt(p, 3 + i) = TwoAt(s, i)
      BY <2>2, PacketRead
    <2> QED
      BY <2>1, <2>3, Zenon
  <1>3. TwoAt(p, 3) = n
    BY <1>0, <1>1, <1>2, Zenon
  <1>4. PICK h \in Seq(Byte) : /\ h = Message(Code(cmd), b, Two(n))
                               /\ Len(h) = 5
                               /\ Message(Code(cmd), b, Two(n) \o d) = h \o d
    BY <1>0, MessageNumber, Zenon
  <1>5. h \in Seq(Byte) /\ p = h \o d
    BY <1>4
  <1>6. Right(h \o d, Len(h \o d) - Len(h)) = d
    BY <1>5, RightOfHead, Zenon
  <1>7. Right(p, Len(p) - 5) = d
    BY <1>4, <1>5, <1>6, Zenon
  <1>8. ASSUME NEW w \in Word, d = Four(w)
        PROVE  FourAt(p, 5) = w
    <2>1. FourAt(h \o Four(w), Len(h)) = w
      BY <1>5, ReadFour, Zenon
    <2> QED
      BY <1>4, <1>5, <1>8, <2>1, Zenon
  <1> QED
    BY <1>2, <1>3, <1>7, <1>8, Zenon

\* The device creates a buffer for a request.
LEMMA CreateStep ==
    ASSUME NEW r \in Requests, CreateOnAir(r), [WireNext]_wireVars
    PROVE  WireInv'
  <1>1. Size(r) \in Short /\ Size(r) \in Nat /\ Port \in Byte
    BY RequestSize, WireAssumption DEF CreateOnAir, AsksLarge, Asks, Short
  <1>2. Two(Size(r)) \in Seq(Byte) /\ TwoAt(Two(Size(r)), 0) = Size(r)
    <2>1. Size(r) \in Int
      BY <1>1
    <2> QED
      BY <1>1, <2>1, TwoType, ReadLastTwo, Zenon
  <1>3. "DEV_CREATE_BUFFER_CMD" \in Commands /\ "DEV_CREATE_BUFFER_CMD" \notin Acknowledgements
    BY DEF Commands, Acknowledgements
  <1>4. downlink = Message(Code("DEV_CREATE_BUFFER_CMD"), Port, Two(Size(r)))
    BY DEF CreateOnAir
  <1>5. UNCHANGED wireVars \/ DeviceCreatesBuffer
    BY <1>1, <1>2, <1>3, <1>4, OnlyDevice DEF CreateOnAir, AsksLarge, Asks
  <1>6. CASE UNCHANGED wireVars
    BY <1>6, Stutters DEF WireInv, Asking
  <1>7. CASE DeviceCreatesBuffer
    <2>1. At(downlink, 2) = Port /\ \A i \in Nat : TwoAt(downlink, 3 + i) = TwoAt(Two(Size(r)), i)
      BY <1>1, <1>2, <1>3, <1>4, PacketRead
    <2>2. TwoAt(downlink, 3) = Size(r)
      <3>1. 0 \in Nat /\ 3 + 0 = 3
        OBVIOUS
      <3> QED
        BY <1>2, <2>1, <3>1, Zenon
    <2>3. Answer("DEV_CREATE_BUFFER_CMD", 0, Two(Size(r)))
             = Message(AnswerTo("DEV_CREATE_BUFFER_CMD"), 0, <<Port>> \o Two(Size(r)))
      <3>1. 0 \in Byte
        BY DEF Byte
      <3> QED
        BY <1>2, <2>1, <3>1, AnswerForm
    <2>4. uplink' = <<Message(AnswerTo("DEV_CREATE_BUFFER_CMD"), 0, <<Port>> \o Two(Size(r)))>>
      <3>1. uplink' = Append(<<>>, Answer("DEV_CREATE_BUFFER_CMD", 0, Two(Size(r))))
        BY <1>7, <2>2, Zenon DEF DeviceCreatesBuffer, CreateOnAir
      <3>2. PICK x : x = Answer("DEV_CREATE_BUFFER_CMD", 0, Two(Size(r)))
        OBVIOUS
      <3>3. Append(<<>>, x) = <<x>>
        OBVIOUS
      <3> QED
        BY <2>3, <3>1, <3>2, <3>3, Zenon
    <2>5. PICK buffer : buffer = devBuffer'
      OBVIOUS
    <2>6. buffer \in Seq(Byte) /\ Len(buffer) = Size(r)
      <3>1. PICK n \in Nat : n = Size(r)
        BY <1>1
      <3>2. buffer = [i \in 1 .. n |-> 0]
        BY <1>7, <2>2, <2>5, <3>1, Zenon DEF DeviceCreatesBuffer
      <3>3. 0 \in Byte
        BY DEF Byte
      <3> QED
        BY <3>1, <3>2, <3>3
    <2>7. Filled(r, 0)'
      BY <2>5, <2>6 DEF Filled
    <2>8. AsksLarge(r)' /\ downlink' = <<>>
      BY <1>7 DEF DeviceCreatesBuffer, DeviceTakes, CreateOnAir, AsksLarge, Asks, vars, object
    <2>9. CreateAnswered(r)'
      BY <2>4, <2>7, <2>8, Zenon DEF CreateAnswered
    <2> QED
      BY <2>9, Zenon DEF WireInv, Asking
  <1> QED
    BY <1>5, <1>6, <1>7

\* The block the converter sends from pos on.
LEMMA BlockForm ==
    ASSUME NEW r \in Requests, AsksLarge(r), NEW pos \in Nat, pos < Size(r)
    PROVE  /\ pos \in Short
           /\ Cut(r, pos) \in Nat
           /\ Cut(r, pos) \in Short
           /\ Cut(r, pos) > 0
           /\ pos + Cut(r, pos) <= Size(r)
           /\ Size(r) < U16
           /\ DataBlock(pos) = Pack("SEND_DATA_BLOCK_CMD", r, pos, Cut(r, pos))
           /\ SubSeq(Package(r), pos + 1, pos + Cut(r, pos)) \in Seq(Byte)
           /\ Len(SubSeq(Package(r), pos + 1, pos + Cut(r, pos))) = Cut(r, pos)
           /\ \A i \in 1 .. Cut(r, pos) :
                  SubSeq(Package(r), pos + 1, pos + Cut(r, pos))[i] = Package(r)[pos + i]
           /\ Encoded(DataBlock(pos))
                  = Message(Code("SEND_DATA_BLOCK_CMD"), Port,
                            Two(pos) \o SubSeq(Package(r), pos + 1, pos + Cut(r, pos)))
  <1>1. DataSize[r] <= MaxData
    BY DEF AsksLarge, Asks
  <1>2. PICK n \in Nat : n = Size(r)
    BY <1>1, RequestSize DEF Short
  <1>3. n < U16 /\ U16 \in Nat
    <2>1. n < 65536
      BY <1>1, <1>2, RequestSize DEF Short
    <2> QED
      BY <2>1, WireAssumption
  <1>4. PICK b \in Nat : b = BlockSize /\ b > 0
    BY ConstantsAssumption
  <1>5. PICK k \in Nat : k = (IF b <= n - pos THEN b ELSE n - pos)
    BY <1>2
  <1>6. k > 0 /\ pos + k <= n
    BY <1>2, <1>4, <1>5
  <1>7. Cut(r, pos) = k
    BY <1>2, <1>4, <1>5, Zenon DEF Cut
  <1>8. pos \in Short /\ k \in Short
    <2>1. pos < 65536 /\ k < 65536
      BY <1>2, <1>3, <1>6, WireAssumption
    <2> QED
      BY <2>1 DEF Short
  <1>9. DataBlock(pos) = Pack("SEND_DATA_BLOCK_CMD", r, pos, k)
    <2>1. sendDataBuffer.req = r /\ sendDataBuffer.size = n
      BY <1>2 DEF AsksLarge
    <2>2. pos % U16 = pos
      BY <1>2, <1>3
    <2>3. k = (IF b <= n - pos THEN b ELSE IF n - pos > 0 THEN n - pos ELSE 0)
      BY <1>2, <1>5
    <2> QED
      BY <1>4, <2>1, <2>2, <2>3, Zenon DEF DataBlock
  <1>10. PICK p \in Seq(Byte) : p = Package(r) /\ Len(p) = n
    BY <1>1, <1>2, PackageForm, Zenon
  <1>11. PICK s : s = SubSeq(p, pos + 1, pos + k)
    OBVIOUS
  <1>12. s \in Seq(Byte) /\ Len(s) = k /\ \A i \in 1 .. k : s[i] = p[pos + i]
    BY <1>6, <1>10, <1>11
  <1>13. SubSeq(Package(r), pos + 1, pos + k) = s
    BY <1>10, <1>11, Zenon
  <1>14. Encoded(Pack("SEND_DATA_BLOCK_CMD", r, pos, k))
             = Message(Code("SEND_DATA_BLOCK_CMD"), Port,
                       Two(pos) \o SubSeq(Package(r), pos + 1, pos + k))
    <2>1. SubSeq(Package(r), pos + 1, pos + k) \in Seq(Byte)
      BY <1>12, <1>13, Zenon
    <2> QED
      BY <1>8, <2>1, EncodedBlock, Zenon
  <1>15. pos + k <= Size(r) /\ Size(r) < U16
    BY <1>2, <1>3, <1>6
  <1>16. DataBlock(pos) = Pack("SEND_DATA_BLOCK_CMD", r, pos, Cut(r, pos))
    BY <1>7, <1>9, Zenon
  <1>17. Encoded(DataBlock(pos))
             = Message(Code("SEND_DATA_BLOCK_CMD"), Port,
                       Two(pos) \o SubSeq(Package(r), pos + 1, pos + k))
    BY <1>9, <1>14, Zenon
  <1>18. \A i \in 1 .. k : s[i] = Package(r)[pos + i]
    BY <1>10, <1>12, Zenon
  <1>19. k \in Nat /\ k > 0
    BY <1>6
  <1> QED
    BY <1>7, <1>8, <1>12, <1>13, <1>15, <1>16, <1>17, <1>18, <1>19, Zenon

\* Without an answer to it the application has nothing new.
LEMMA NotTold ==
    ASSUME WireReceive, sendAnswer' = "none"
    PROVE  told' = told
  <1>1. sendAnswer' # "ok"
    OBVIOUS
  <1> QED
    BY <1>1, Zenon DEF WireReceive

\* The device has created it, and the converter sends the first block.
LEMMA CreateAnsweredStep ==
    ASSUME NEW r \in Requests, CreateAnswered(r), [WireNext]_wireVars
    PROVE  WireInv'
  <1>1. AsksLarge(r) /\ Asks(r)
    BY DEF CreateAnswered, AsksLarge
  <1>2. Size(r) \in Short /\ 0 < Size(r) /\ Port \in Byte
    BY <1>1, RequestSize, WireAssumption DEF Asks
  <1>3. PICK f : f = Message(AnswerTo("DEV_CREATE_BUFFER_CMD"), 0, <<Port>> \o Two(Size(r)))
    OBVIOUS
  <1>4. /\ f \in Seq(Byte)
        /\ Known(f)
        /\ ~ IsOverdue(Queued(f))
        /\ DataParser(f) = Frame("DEV_CREATE_BUFFER_CMD", 0, 0, Size(r), <<>>)
    BY <1>2, <1>3, CreateAnswerRead
  <1>5. uplink = <<f>>
    BY <1>3, Zenon DEF CreateAnswered
  <1>6. uplink # <<>> /\ Head(uplink) = f /\ Tail(uplink) = <<>>
    BY <1>5
  <1>7. UNCHANGED wireVars \/ WireReceive
    <2>1. UNCHANGED wireVars \/ WireReceive \/ WireIgnore
      BY <1>1, <1>6, OnlyReceive DEF CreateAnswered, Asks
    <2>2. ~ WireIgnore
      BY <1>4, <1>6, Zenon DEF WireIgnore
    <2> QED
      BY <2>1, <2>2, Zenon
  <1>8. CASE UNCHANGED wireVars
    BY <1>8, Stutters DEF WireInv, Asking
  <1>9. CASE WireReceive
    <2>1. /\ Dispatch(Frame("DEV_CREATE_BUFFER_CMD", 0, 0, Size(r), <<>>))
          /\ uplink' = <<>>
          /\ downlink' = Encoded(sendLoraPack')
          /\ UNCHANGED <<request, device>>
      BY <1>4, <1>6, <1>9, Zenon DEF WireReceive
    <2>2. CreateBufferAnswer(0)
      BY <2>1 DEF Dispatch, Frame
    <2>3. /\ fileSizeCounter' = 0
          /\ sendLoraPack' = DataBlock(0)
          /\ sendAnswer' = "none"
          /\ sendDataBuffer' = sendDataBuffer
          /\ recvDataBuffer' = recvDataBuffer
      BY <2>2 DEF CreateBufferAnswer, SendCommand
    <2>4. told' = told
      BY <1>9, <2>3, NotTold
    <2>5. 0 \in Nat
      OBVIOUS
    <2>6. downlink' = Message(Code("SEND_DATA_BLOCK_CMD"), Port,
                              Two(0) \o SubSeq(Package(r), 0 + 1, 0 + Cut(r, 0)))
      BY <1>1, <1>2, <2>1, <2>3, <2>5, BlockForm, Zenon
    <2>7. AsksLarge(r)'
      BY <1>1, <2>1, <2>3, <2>4 DEF AsksLarge, Asks, device
    <2>8. Filled(r, 0)'
      BY <2>1 DEF device, CreateAnswered, Filled
    <2>9. Blocks(r, 0)'
      BY <1>2, <2>3, <2>5, <2>7, Zenon DEF Blocks
    <2>10. BlockOnAir(r, 0)'
      BY <2>1, <2>6, <2>8, <2>9, Zenon DEF BlockOnAir
    <2> QED
      BY <2>5, <2>10, Zenon DEF WireInv, Asking
  <1> QED
    BY <1>7, <1>8, <1>9

\* The device stores a block.
LEMMA BlockStep ==
    ASSUME NEW r \in Requests, NEW pos \in Nat, BlockOnAir(r, pos), [WireNext]_wireVars
    PROVE  WireInv'
  <1>1. AsksLarge(r) /\ Asks(r) /\ pos < Size(r)
    BY DEF BlockOnAir, Blocks, AsksLarge
  <1>2. PICK n \in Nat : n = Size(r)
    BY <1>1, RequestSize DEF Short, Asks
  <1>3. PICK k \in Nat : k = Cut(r, pos)
    BY <1>1, BlockForm
  <1>4. PICK d \in Seq(Byte) : d = SubSeq(Package(r), pos + 1, pos + Cut(r, pos))
    BY <1>1, BlockForm
  <1>5. /\ pos \in Short
        /\ k \in Short
        /\ k > 0
        /\ pos + k <= n
        /\ Len(d) = k
        /\ \A i \in 1 .. k : d[i] = Package(r)[pos + i]
    BY <1>1, <1>2, <1>3, <1>4, BlockForm, Zenon
  <1>6. "SEND_DATA_BLOCK_CMD" \in Commands /\ "SEND_DATA_BLOCK_CMD" \notin Acknowledgements
    BY DEF Commands, Acknowledgements
  <1>7. downlink = Message(Code("SEND_DATA_BLOCK_CMD"), Port, Two(pos) \o d)
    BY <1>4, Zenon DEF BlockOnAir
  <1>8. Port \in Byte /\ Two(pos) \o d \in Seq(Byte)
    <2>1. d \in Seq(Byte) /\ pos \in Short
      BY <1>4, <1>5
    <2>2. Two(pos) \o d \in Seq(Byte)
      BY <2>1, NumberRead, Zenon
    <2> QED
      BY <2>2, WireAssumption
  <1>9. UNCHANGED wireVars \/ DeviceWritesBlock
    BY <1>1, <1>6, <1>7, <1>8, OnlyDevice DEF BlockOnAir, Asks
  <1>10. CASE UNCHANGED wireVars
    BY <1>10, Stutters DEF WireInv, Asking
  <1>11. CASE DeviceWritesBlock
    <2>1. /\ At(downlink, 2) = Port
          /\ TwoAt(downlink, 3) = pos
          /\ Right(downlink, Len(downlink) - 5) = d
      <3>1. d \in Seq(Byte) /\ pos \in Short /\ Port \in Byte
        BY <1>4, <1>5, <1>8
      <3> QED
        BY <1>6, <1>7, <3>1, PacketData
    <2>2. PICK old \in Seq(Byte) : old = devBuffer /\ Len(old) = n
      BY <1>2 DEF BlockOnAir, Filled
    <2>3. pos + Len(d) <= Len(devBuffer)
      BY <1>5, <2>2
    <2>4. /\ DeviceTakes("SEND_DATA_BLOCK_CMD")
          /\ devBuffer' = [i \in DOMAIN devBuffer |->
                               IF pos < i /\ i <= pos + Len(d) THEN d[i - pos]
                               ELSE devBuffer[i]]
          /\ uplink' = Append(uplink, Answer("SEND_DATA_BLOCK_CMD", 0,
                                             Two(pos) \o Two(Len(d))))
          /\ UNCHANGED <<delivered, reply, replyFrames>>
      BY <1>11, <2>1, <2>3, Zenon DEF DeviceWritesBlock
    <2>5. PICK new : new = devBuffer'
      OBVIOUS
    <2>6. new = [i \in 1 .. n |-> IF pos < i /\ i <= pos + k THEN d[i - pos] ELSE old[i]]
      <3>1. DOMAIN old = 1 .. n
        BY <2>2
      <3> QED
        BY <1>5, <2>2, <2>4, <2>5, <3>1, Zenon
    <2>7. new \in Seq(Byte) /\ Len(new) = n
      <3>1. \A i \in 1 .. n : (IF pos < i /\ i <= pos + k THEN d[i - pos] ELSE old[i]) \in Byte
        BY <1>4, <1>5, <2>2
      <3> QED
        BY <2>6, <3>1
    <2>8. \A i \in 1 .. pos : old[i] = Package(r)[i]
      BY <2>2, Zenon DEF BlockOnAir, Filled
    <2>9. \A i \in 1 .. pos + k : new[i] = Package(r)[i]
      <3>1. PICK p : p = Package(r)
        OBVIOUS
      <3>2. /\ \A i \in 1 .. pos : old[i] = p[i]
            /\ \A i \in 1 .. k : d[i] = p[pos + i]
        BY <1>5, <2>8, <3>1, Zenon
      <3>3. ASSUME NEW i \in 1 .. pos + k
            PROVE  new[i] = p[i]
        <4>1. i \in 1 .. n
          BY <1>5
        <4>2. CASE pos < i
          <5>1. i - pos \in 1 .. k /\ pos + (i - pos) = i
            BY <4>2
          <5>2. d[i - pos] = p[i]
            BY <3>2, <5>1
          <5>3. new[i] = d[i - pos]
            BY <2>6, <4>1, <4>2
          <5> QED
            BY <5>2, <5>3, Zenon
        <4>3. CASE ~ (pos < i)
          <5>1. i \in 1 .. pos
            BY <4>3
          <5>2. new[i] = old[i]
            BY <2>6, <4>1, <4>3
          <5> QED
            BY <3>2, <5>1, <5>2, Zenon
        <4> QED
          BY <4>2, <4>3
      <3> QED
        BY <3>1, <3>3, Zenon
    <2>10. Filled(r, pos + Cut(r, pos))'
      BY <1>2, <1>3, <2>5, <2>7, <2>9, Zenon DEF Filled
    <2>11. uplink' = <<Message(AnswerTo("SEND_DATA_BLOCK_CMD"), 0,
                               <<Port>> \o (Two(pos) \o Two(Cut(r, pos))))>>
      <3>1. Two(pos) \o Two(k) \in Seq(Byte) /\ 0 \in Byte
        <4>1. k \in Int /\ 0 \in Byte
          BY DEF Byte
        <4> QED
          BY <1>5, <4>1, TwoType, NumberRead, Zenon
      <3>2. Answer("SEND_DATA_BLOCK_CMD", 0, Two(pos) \o Two(k))
               = Message(AnswerTo("SEND_DATA_BLOCK_CMD"), 0, <<Port>> \o (Two(pos) \o Two(k)))
        BY <2>1, <3>1, AnswerForm
      <3>3. PICK x : x = Answer("SEND_DATA_BLOCK_CMD", 0, Two(pos) \o Two(k))
        OBVIOUS
      <3>4. uplink' = Append(<<>>, x)
        BY <1>5, <2>4, <3>3, Zenon DEF BlockOnAir
      <3>5. Append(<<>>, x) = <<x>>
        OBVIOUS
      <3> QED
        BY <1>3, <3>2, <3>3, <3>4, <3>5, Zenon
    <2>12. Blocks(r, pos)' /\ downlink' = <<>>
      BY <2>4 DEF DeviceTakes, BlockOnAir, Blocks, AsksLarge, Asks, vars, object
    <2>13. BlockAnswered(r, pos)'
      BY <2>10, <2>11, <2>12, Zenon DEF BlockAnswered
    <2> QED
      BY <2>13, Zenon DEF WireInv, Asking
  <1> QED
    BY <1>9, <1>10, <1>11

\* A confirmed block is followed by the next one, and the last one by the check.
LEMMA BlockConfirmed ==
    ASSUME NEW r \in Requests, NEW pos \in Nat, AsksLarge(r), pos < Size(r),
           fileSizeCounter = pos, SendDataBlockAnswer(0, pos, Cut(r, pos))
    PROVE  /\ fileSizeCounter' = pos + Cut(r, pos)
           /\ sendLoraPack' = IF pos + Cut(r, pos) = Size(r) THEN CheckBuffer
                              ELSE DataBlock(pos + Cut(r, pos))
           /\ sendAnswer' = "none"
           /\ UNCHANGED <<sendDataBuffer, recvDataBuffer>>
  <1>1. PICK k \in Nat : k = Cut(r, pos) /\ k > 0
    BY BlockForm
  <1>2. PICK n \in Nat : n = Size(r)
    BY RequestSize DEF Short, AsksLarge, Asks
  <1>3. PICK u \in Nat : u = U16
    BY ConstantsAssumption
  <1>4. pos + k <= n /\ n < u
    BY <1>1, <1>2, <1>3, BlockForm, Zenon
  <1>5. PICK e \in Nat : e = (pos + k) % u
    BY <1>4
  <1>6. e = pos + k /\ e > 0 /\ e - pos = k
    BY <1>1, <1>4, <1>5
  <1>7. Reached(pos, k) = e
    BY <1>3, <1>5, Zenon DEF Reached
  <1>8. ~ (k < k) /\ 0 = 0
    OBVIOUS
  <1>9. ~ Repeats(0, pos, k)
    BY <1>6, <1>7, <1>8, Zenon DEF Repeats
  <1>10. Counts(0, k)
    BY <1>1, Zenon DEF Counts
  <1>11. Confirms(0, pos, k)
    BY <1>6, <1>7, <1>9, <1>10, Zenon DEF Confirms
  <1>12. /\ sendAnswer' = "none"
         /\ UNCHANGED <<sendDataBuffer, recvDataBuffer>>
         /\ fileSizeCounter' = pos + k
         /\ SendCommand(FollowUp(0, k, pos + k))
    BY <1>1, <1>9, <1>11, Zenon DEF SendDataBlockAnswer
  <1>13. sendDataBuffer.size = Size(r)
    BY DEF AsksLarge
  <1>14. FollowUp(0, k, pos + k) = IF pos + k = Size(r) THEN CheckBuffer ELSE DataBlock(pos + k)
    BY <1>10, <1>13, Zenon DEF FollowUp
  <1>15. sendLoraPack' = FollowUp(0, k, pos + k)
    BY <1>12, Zenon DEF SendCommand
  <1> QED
    BY <1>1, <1>12, <1>14, <1>15, Zenon

\* The device has stored a block.
LEMMA BlockAnsweredStep ==
    ASSUME NEW r \in Requests, NEW pos \in Nat, BlockAnswered(r, pos), [WireNext]_wireVars
    PROVE  WireInv'
  <1>1. AsksLarge(r) /\ Asks(r) /\ pos < Size(r) /\ fileSizeCounter = pos
    BY DEF BlockAnswered, Blocks, AsksLarge
  <1>2. PICK k \in Nat : k = Cut(r, pos) /\ k > 0
    BY <1>1, BlockForm
  <1>3. PICK n \in Nat : n = Size(r)
    BY <1>1, RequestSize DEF Short, Asks
  <1>4. pos \in Short /\ Cut(r, pos) \in Short /\ pos + k <= n
    BY <1>1, <1>2, <1>3, BlockForm, Zenon
  <1>5. PICK f : f = Message(AnswerTo("SEND_DATA_BLOCK_CMD"), 0,
                             <<Port>> \o (Two(pos) \o Two(Cut(r, pos))))
    OBVIOUS
  <1>6. /\ f \in Seq(Byte)
        /\ Known(f)
        /\ ~ IsOverdue(Queued(f))
        /\ DataParser(f) = Frame("SEND_DATA_BLOCK_CMD", 0, pos, Cut(r, pos), <<>>)
    <2>1. Port \in Byte
      BY WireAssumption
    <2> QED
      BY <1>4, <1>5, <2>1, BlockAnswerRead
  <1>7. uplink = <<f>>
    BY <1>5, Zenon DEF BlockAnswered
  <1>8. uplink # <<>> /\ Head(uplink) = f /\ Tail(uplink) = <<>>
    BY <1>7
  <1>9. UNCHANGED wireVars \/ WireReceive
    <2>1. UNCHANGED wireVars \/ WireReceive \/ WireIgnore
      BY <1>1, <1>8, OnlyReceive DEF BlockAnswered, Asks
    <2>2. ~ WireIgnore
      BY <1>6, <1>8, Zenon DEF WireIgnore
    <2> QED
      BY <2>1, <2>2, Zenon
  <1>10. CASE UNCHANGED wireVars
    BY <1>10, Stutters DEF WireInv, Asking
  <1>11. CASE WireReceive
    <2>1. /\ Dispatch(Frame("SEND_DATA_BLOCK_CMD", 0, pos, Cut(r, pos), <<>>))
          /\ uplink' = <<>>
          /\ downlink' = Encoded(sendLoraPack')
          /\ UNCHANGED <<request, device>>
      BY <1>6, <1>8, <1>11, Zenon DEF WireReceive
    <2>2. SendDataBlockAnswer(0, pos, Cut(r, pos))
      BY <2>1 DEF Dispatch, Frame
    <2>3. /\ fileSizeCounter' = pos + Cut(r, pos)
          /\ sendLoraPack' = IF pos + Cut(r, pos) = Size(r) THEN CheckBuffer
                             ELSE DataBlock(pos + Cut(r, pos))
          /\ sendAnswer' = "none"
          /\ UNCHANGED <<sendDataBuffer, recvDataBuffer>>
      BY <1>1, <2>2, BlockConfirmed
    <2>4. told' = told
      BY <1>11, <2>3, NotTold
    <2>5. AsksLarge(r)'
      BY <1>1, <2>1, <2>3, <2>4 DEF AsksLarge, Asks, device
    <2>6. Filled(r, pos + Cut(r, pos)) /\ devBuffer' = devBuffer
      BY <2>1 DEF device, BlockAnswered
    <2>7. PICK e \in Nat : e = pos + k
      OBVIOUS
    <2>8. e = pos + Cut(r, pos) /\ e <= n
      BY <1>2, <1>4, <2>7, Zenon
    <2>9. CASE e = n
      <3>1. sendLoraPack' = Pack("FINISH_SEND_DATA_CMD", r, 0, Size(r))
        <4>1. sendDataBuffer.req = r /\ sendDataBuffer.size = Size(r)
          BY <1>1 DEF AsksLarge
        <4> QED
          BY <1>3, <2>3, <2>8, <2>9, <4>1, Zenon DEF CheckBuffer
      <3>2. downlink' = Message(Code("FINISH_SEND_DATA_CMD"), Port,
                                Two(Size(r)) \o Four(Crc32Of(Package(r))))
        <4>1. DataSize[r] <= MaxData
          BY <1>1 DEF Asks
        <4> QED
          BY <2>1, <3>1, <4>1, EncodedCheck, Zenon
      <3>3. devBuffer = Package(r)
        <4>1. DataSize[r] <= MaxData
          BY <1>1 DEF Asks
        <4>2. PICK p \in Seq(Byte) : p = Package(r) /\ Len(p) = n
          BY <1>3, <4>1, PackageForm, Zenon
        <4>3. PICK v \in Seq(Byte) : v = devBuffer /\ Len(v) = n
          BY <1>3, <2>6 DEF Filled
        <4>4. \A i \in 1 .. n : v[i] = p[i]
          BY <2>6, <2>8, <2>9, <4>2, <4>3, Zenon DEF Filled
        <4>5. v = p
          BY <4>2, <4>3, <4>4, SeqEqual
        <4> QED
          BY <4>2, <4>3, <4>5, Zenon
      <3>4. CheckOnAir(r)'
        BY <2>1, <2>5, <2>6, <3>2, <3>3, Zenon DEF CheckOnAir
      <3> QED
        BY <3>4, Zenon DEF WireInv, Asking
    <2>10. CASE e # n
      <3>1. e < n /\ n = Size(r)
        BY <1>3, <2>8, <2>10
      <3>2. e < Size(r)
        BY <3>1, Zenon
      <3>3. sendLoraPack' = DataBlock(e)
        BY <1>3, <2>3, <2>8, <2>10, Zenon
      <3>4. downlink' = Message(Code("SEND_DATA_BLOCK_CMD"), Port,
                                Two(e) \o SubSeq(Package(r), e + 1, e + Cut(r, e)))
        BY <1>1, <2>1, <3>2, <3>3, BlockForm, Zenon
      <3>5. Filled(r, e)'
        BY <2>6, <2>8, Zenon DEF Filled
      <3>6. Blocks(r, e)'
        BY <2>3, <2>5, <2>7, <2>8, <3>2, Zenon DEF Blocks
      <3>7. BlockOnAir(r, e)'
        BY <2>1, <3>4, <3>5, <3>6, Zenon DEF BlockOnAir
      <3> QED
        BY <2>7, <3>7, Zenon DEF WireInv, Asking
    <2> QED
      BY <2>9, <2>10
  <1> QED
    BY <1>9, <1>10, <1>11

\* The device checks the request and delivers it.
LEMMA CheckStep ==
    ASSUME NEW r \in Requests, CheckOnAir(r), [WireNext]_wireVars
    PROVE  WireInv'
  <1>1. Asks(r) /\ DataSize[r] <= MaxData /\ uplink = <<>>
    BY DEF CheckOnAir, AsksLarge, Asks
  <1>2. PICK t \in Seq(Byte) : t = Four(Crc32Of(Package(r)))
    BY CrcType, FourType, Zenon
  <1>3. Size(r) \in Short /\ Port \in Byte
    BY <1>1, RequestSize, WireAssumption
  <1>4. t \in Seq(Byte)
    BY <1>2
  <1>5. Two(Size(r)) \o t \in Seq(Byte)
    BY <1>3, <1>4, NumberRead, Zenon
  <1>6. "FINISH_SEND_DATA_CMD" \in Commands /\ "FINISH_SEND_DATA_CMD" \notin Acknowledgements
    BY DEF Commands, Acknowledgements
  <1>7. downlink = Message(Code("FINISH_SEND_DATA_CMD"), Port, Two(Size(r)) \o t)
    BY <1>2, Zenon DEF CheckOnAir
  <1>8. UNCHANGED wireVars \/ DeviceFinishes
    BY <1>1, <1>3, <1>5, <1>6, <1>7, OnlyDevice DEF Asks
  <1>9. CASE UNCHANGED wireVars
    BY <1>9, Stutters DEF WireInv, Asking
  <1>10. CASE DeviceFinishes
    <2>1. /\ At(downlink, 2) = Port
          /\ TwoAt(downlink, 3) = Size(r)
          /\ \A w \in Word : t = Four(w) => FourAt(downlink, 5) = w
      BY <1>3, <1>4, <1>6, <1>7, PacketData
    <2>2. devBuffer = Package(r) /\ Len(devBuffer) = Size(r)
             /\ Right(devBuffer, Len(devBuffer) - 3) = RequestBytes[r]
      BY <1>1, PackageForm, Zenon DEF CheckOnAir
    <2>3. FourAt(downlink, 5) = Crc32Of(devBuffer)
      BY <1>2, <2>1, <2>2, CrcType, Zenon
    <2>4. PICK fields \in Seq(Byte) : fields = Two(Len(devBuffer)) \o Four(Crc32Of(devBuffer))
      BY <1>2, <1>5, <2>2, Zenon
    <2>5. /\ DeviceTakes("FINISH_SEND_DATA_CMD")
          /\ Delivers(Answer("FINISH_SEND_DATA_CMD", 0, fields), RequestBytes[r])
      BY <1>10, <2>1, <2>2, <2>3, <2>4, Zenon DEF DeviceFinishes
    <2>6. PICK rest \in Seq(Byte) :
              Answer("FINISH_SEND_DATA_CMD", 0, fields)
                  = Message(AnswerTo("FINISH_SEND_DATA_CMD"), 0, rest)
      <3>1. 0 \in Byte /\ fields \in Seq(Byte)
        BY <2>4 DEF Byte
      <3> QED
        BY <2>1, <3>1, AnswerForm
    <2>7. rest \in Seq(Byte)
      BY <2>6
    <2>8. Delivers(Message(AnswerTo("FINISH_SEND_DATA_CMD"), 0, rest), RequestBytes[r])
      BY <2>5, <2>6, Zenon
    <2> QED
      BY <1>1, <1>6, <2>5, <2>7, <2>8, DeliversStep
  <1> QED
    BY <1>8, <1>9, <1>10

-----------------------------------------------------------------------------
(* Each stage is left for another one: the reply.                          *)

\* What recvDataBuffer holds is as long as the package once it is created.
LEMMA HeldType ==
    ASSUME NEW m \in ReplyBytes, NEW block \in DeviceBlocks, NEW k \in Nat
    PROVE  Held(m, block, k) \in Seq(Byte \cup {Junk})
  <1>1. PICK w \in Seq(Byte) : w = Whole(m)
    BY WholeForm, Zenon
  <1>2. PICK n \in Nat : n = Len(w)
    BY <1>1
  <1>3. CASE k = 0
    BY <1>3 DEF Held
  <1>4. CASE k # 0
    <2>1. PICK p : p = (k - 1) * block
      OBVIOUS
    <2>2. Held(m, block, k) = [i \in 1 .. n |-> IF i <= p THEN w[i] ELSE Junk]
      BY <1>1, <1>2, <1>4, <2>1, Zenon DEF Held
    <2>3. PICK S : S = Byte \cup {Junk}
      OBVIOUS
    <2>4. \A i \in 1 .. n : (IF i <= p THEN w[i] ELSE Junk) \in S
      BY <1>1, <1>2, <2>3
    <2>5. [i \in 1 .. n |-> IF i <= p THEN w[i] ELSE Junk] \in Seq(S)
      BY <1>2, <2>4
    <2> QED
      BY <2>2, <2>3, <2>5, Zenon
  <1> QED
    BY <1>3, <1>4

\* The buffer is created empty.
LEMMA HeldCreated ==
    ASSUME NEW m \in ReplyBytes, NEW block \in DeviceBlocks
    PROVE  Held(m, block, 1) = [i \in 1 .. Len(Whole(m)) |-> Junk]
  <1>1. PICK n \in Nat : n = Len(Whole(m))
    BY WholeForm DEF Short
  <1>2. (1 - 1) * block = 0 /\ 1 # 0
    BY WireAssumption
  <1>3. PICK w : w = Whole(m)
    OBVIOUS
  <1>4. Held(m, block, 1) = [i \in 1 .. n |-> IF i <= 0 THEN w[i] ELSE Junk]
    BY <1>1, <1>2, <1>3, Zenon DEF Held
  <1>5. [i \in 1 .. n |-> IF i <= 0 THEN w[i] ELSE Junk] = [i \in 1 .. n |-> Junk]
    OBVIOUS
  <1> QED
    BY <1>1, <1>4, <1>5, Zenon

\* A block goes behind those before it.
LEMMA HeldStored ==
    ASSUME NEW m \in ReplyBytes, NEW block \in DeviceBlocks, NEW j \in 1 .. Count(m, block)
    PROVE  Stored(Held(m, block, j), (j - 1) * block, Part(m, block, j))
             = Held(m, block, j + 1)
  <1>1. PICK w \in Seq(Byte) : w = Whole(m)
    BY WholeForm, Zenon
  <1>2. PICK n \in Nat : n = Len(w)
    BY <1>1
  <1>3. PICK c \in Nat : c = Count(m, block) /\ n <= c * block
    BY <1>1, <1>2, BlocksCover, Zenon
  <1>4. block \in Nat /\ j \in Nat /\ j > 0 /\ j <= c
    BY <1>3, WireAssumption
  <1>5. PICK p \in Nat : p = (j - 1) * block
    BY BlocksCover
  <1>6. PICK e \in Nat : e = End(m, block, j)
    BY BlocksCover
  <1>7. PICK q \in Nat : q = j * block
    BY <1>4
  <1>8. PICK d \in Seq(Byte) : d = Part(m, block, j)
    BY BlocksCover
  <1>9. p < n /\ p < e /\ e <= n /\ e <= q
    <2>1. /\ (j - 1) * block < Len(Whole(m))
          /\ (j - 1) * block < End(m, block, j)
          /\ End(m, block, j) <= Len(Whole(m))
          /\ End(m, block, j) <= j * block
      BY BlocksCover, Zenon
    <2> QED
      BY <1>1, <1>2, <1>5, <1>6, <1>7, <2>1, Zenon
  <1>10. Len(d) = e - p /\ \A i \in 1 .. Len(d) : d[i] = w[p + i]
    <2>1. /\ Len(Part(m, block, j)) = End(m, block, j) - (j - 1) * block
          /\ \A i \in 1 .. Len(Part(m, block, j)) :
                 Part(m, block, j)[i] = Whole(m)[(j - 1) * block + i]
      BY BlocksCover, Zenon
    <2> QED
      BY <1>1, <1>5, <1>6, <1>8, <2>1, Zenon
  <1>11. e = q \/ (e = n /\ n <= q)
    <2>1. CASE j = c
      BY <1>1, <1>2, <1>3, <1>6, <1>7, <2>1, Zenon DEF End
    <2>2. CASE j # c
      BY <1>3, <1>6, <1>7, <2>2, Zenon DEF End
    <2> QED
      BY <2>1, <2>2
  <1>12. PICK old : old = [i \in 1 .. n |-> IF i <= p THEN w[i] ELSE Junk]
    OBVIOUS
  <1>13. PICK new : new = [i \in 1 .. n |-> IF i <= q THEN w[i] ELSE Junk]
    OBVIOUS
  <1>14. Held(m, block, j) = old
    <2>1. j # 0
      BY <1>4
    <2> QED
      BY <1>1, <1>2, <1>5, <1>12, <2>1, Zenon DEF Held
  <1>15. Held(m, block, j + 1) = new
    <2>1. j + 1 # 0 /\ (j + 1) - 1 = j
      BY <1>4
    <2> QED
      BY <1>1, <1>2, <1>7, <1>13, <2>1, Zenon DEF Held
  <1>16. Len(old) = n
    BY <1>12
  <1>17. p + Len(d) = e /\ d # <<>> /\ (IF n > e THEN n ELSE e) = n
    BY <1>9, <1>10
  <1>18. Stored(old, p, d)
             = [i \in 1 .. n |-> IF p < i /\ i <= e THEN d[i - p]
                                 ELSE IF i <= n THEN old[i] ELSE Junk]
    BY <1>16, <1>17, Zenon DEF Stored
  <1>19. ASSUME NEW i \in 1 .. n
         PROVE  (IF p < i /\ i <= e THEN d[i - p] ELSE IF i <= n THEN old[i] ELSE Junk) = new[i]
    <2>1. CASE p < i /\ i <= e
      <3>1. i - p \in 1 .. Len(d) /\ p + (i - p) = i
        BY <1>10, <2>1
      <3>2. d[i - p] = w[i]
        BY <1>10, <3>1, Zenon
      <3>3. new[i] = w[i]
        BY <1>9, <1>13, <2>1
      <3> QED
        BY <2>1, <3>2, <3>3, Zenon
    <2>2. CASE ~ (p < i)
      <3>1. i <= p /\ i <= q
        BY <1>9, <2>2
      <3>2. old[i] = w[i] /\ new[i] = w[i]
        BY <1>12, <1>13, <3>1
      <3> QED
        BY <2>2, <3>2
    <2>3. CASE p < i /\ ~ (i <= e)
      <3>1. e = q
        BY <1>11, <2>3
      <3>2. ~ (i <= p) /\ ~ (i <= q)
        BY <2>3, <3>1
      <3>3. old[i] = Junk /\ new[i] = Junk
        BY <1>12, <1>13, <3>2
      <3> QED
        BY <2>3, <3>3
    <2> QED
      BY <2>1, <2>2, <2>3, Zenon
  <1>20. Stored(old, p, d) = new
    BY <1>13, <1>18, <1>19
  <1> QED
    BY <1>5, <1>8, <1>14, <1>15, <1>20, Zenon

\* With the last one it is the package.
LEMMA HeldAll ==
    ASSUME NEW m \in ReplyBytes, NEW block \in DeviceBlocks
    PROVE  Held(m, block, Count(m, block) + 1) = Whole(m)
  <1>1. PICK w \in Seq(Byte) : w = Whole(m)
    BY WholeForm, Zenon
  <1>2. PICK n \in Nat : n = Len(w)
    BY <1>1
  <1>3. PICK c \in Nat : c = Count(m, block)
    BY BlocksCover, Zenon
  <1>4. PICK q \in Nat : q = c * block
    BY <1>3, WireAssumption
  <1>5. n <= q
    BY <1>1, <1>2, <1>3, <1>4, BlocksCover, Zenon
  <1>6. c + 1 # 0 /\ (c + 1) - 1 = c
    BY <1>3
  <1>7. Held(m, block, c + 1) = [i \in 1 .. n |-> IF i <= q THEN w[i] ELSE Junk]
    BY <1>1, <1>2, <1>4, <1>6, Zenon DEF Held
  <1>8. PICK s : s = [i \in 1 .. n |-> IF i <= q THEN w[i] ELSE Junk]
    OBVIOUS
  <1>9. s \in Seq(Byte) /\ Len(s) = n /\ \A i \in 1 .. n : s[i] = w[i]
    <2>1. \A i \in 1 .. n : (IF i <= q THEN w[i] ELSE Junk) = w[i] /\ w[i] \in Byte
      BY <1>1, <1>2, <1>5
    <2>2. s = [i \in 1 .. n |-> w[i]]
      BY <1>8, <2>1
    <2> QED
      BY <1>2, <2>1, <2>2
  <1>10. s = w
    BY <1>1, <1>2, <1>9, SeqEqual
  <1> QED
    BY <1>1, <1>3, <1>7, <1>8, <1>10, Zenon

\* The last answer to the request is read, or passed over.
LEMMA FirstStep ==
    ASSUME NEW m \in ReplyBytes, NEW block \in DeviceBlocks, FirstOnAir(m, block),
           [WireNext]_wireVars
    PROVE  WireInv'
  <1>1. PICK frames \in Seq(Seq(Byte)) : frames = FramesOf(m, block) /\ Len(frames) > 0
    BY FramesType, Zenon
  <1>2. /\ frames # <<>>
        /\ Head(frames) = frames[1]
        /\ Tail(frames) = SubSeq(frames, 1 + 1, Len(frames))
        /\ 1 \in 1 .. Len(frames)
        /\ 1 - 1 = 0
    BY <1>1
  <1>3. PICK cmd \in {"SEND_PACKAGE_ANSWER_CMD", "FINISH_SEND_DATA_CMD"}, rest \in Seq(Byte) :
            uplink = <<Message(AnswerTo(cmd), 0, rest), Head(frames)>>
    BY <1>1, Zenon DEF FirstOnAir
  <1>4. PICK a : a = Message(AnswerTo(cmd), 0, rest)
    OBVIOUS
  <1>5. /\ a \in Seq(Byte)
        /\ Known(a) => DataParser(a) = Frame("FINISH_SEND_DATA_CMD", 0, 0, 0, <<>>)
    <2>1. cmd \in {"SEND_PACKAGE_ANSWER_CMD", "FINISH_SEND_DATA_CMD"} /\ rest \in Seq(Byte)
      BY <1>3
    <2> QED
      BY <1>4, <2>1, LastAnswerRead
  <1>6. uplink # <<>> /\ Head(uplink) = a /\ Tail(uplink) = <<frames[1]>>
    <2>1. PICK h : h = Head(frames)
      OBVIOUS
    <2>2. uplink = <<a, h>>
      BY <1>3, <1>4, <2>1, Zenon
    <2>3. uplink # <<>> /\ Head(uplink) = a /\ Tail(uplink) = <<h>>
      BY <2>2
    <2> QED
      BY <1>2, <2>1, <2>3, Zenon
  <1>7. UNCHANGED wireVars \/ WireReceive \/ WireIgnore
    BY <1>6, OnlyReceive DEF FirstOnAir, Replies
  <1>8. CASE UNCHANGED wireVars
    BY <1>8, Stutters DEF WireInv, Answering
  <1>9. SUFFICES ASSUME /\ uplink' = <<frames[1]>>
                        /\ downlink' = <<>>
                        /\ recvDataBuffer' = <<>>
                        /\ told' = <<>>
                        /\ UNCHANGED <<request, device>>
                 PROVE  WireInv'
    <2>1. CASE WireReceive
      <3>1. /\ Dispatch(Frame("FINISH_SEND_DATA_CMD", 0, 0, 0, <<>>))
            /\ uplink' = <<frames[1]>>
            /\ downlink' = Encoded(sendLoraPack')
            /\ UNCHANGED <<request, device>>
        BY <1>5, <1>6, <2>1, Zenon DEF WireReceive
      <3>2. FinishSendPackAnswer
        BY <3>1 DEF Dispatch, Frame
      <3>3. sendLoraPack' = NoPack /\ sendAnswer' = "none" /\ recvDataBuffer' = recvDataBuffer
        BY <3>2 DEF FinishSendPackAnswer
      <3>4. downlink' = <<>>
        BY <3>1, <3>3, Zenon DEF Encoded
      <3>5. told' = told
        BY <2>1, <3>3, NotTold
      <3> QED
        BY <1>9, <3>1, <3>3, <3>4, <3>5, Zenon DEF FirstOnAir, Replies
    <2>2. CASE WireIgnore
      <3>1. /\ uplink' = <<frames[1]>>
            /\ UNCHANGED <<vars, request, downlink, device, told>>
        BY <1>6, <2>2, Zenon DEF WireIgnore
      <3>2. recvDataBuffer' = recvDataBuffer /\ downlink' = downlink /\ told' = told
        BY <3>1 DEF vars, object
      <3>3. UNCHANGED <<request, device>>
        BY <3>1
      <3> QED
        BY <1>9, <3>1, <3>2, <3>3, Zenon DEF FirstOnAir, Replies
    <2> QED
      BY <1>7, <1>8, <2>1, <2>2
  <1>10. Replies(m, block)'
    BY <1>9 DEF FirstOnAir, Replies, device
  <1>11. replyFrames' = SubSeq(frames, 1 + 1, Len(frames))
    BY <1>1, <1>2, <1>9 DEF FirstOnAir, device
  <1>12. recvDataBuffer' = Held(m, block, 1 - 1)
    BY <1>2, <1>9, Zenon DEF Held
  <1>13. FrameOnAir(m, block, 1)'
    BY <1>1, <1>2, <1>9, <1>10, <1>11, <1>12, Zenon DEF FrameOnAir
  <1>14. 1 \in Nat
    OBVIOUS
  <1> QED
    BY <1>13, <1>14, Zenon DEF WireInv, Answering

\* The device goes on with the next frame.
LEMMA AckStep ==
    ASSUME NEW m \in ReplyBytes, NEW block \in DeviceBlocks, NEW k \in Nat,
           AckOnAir(m, block, k), [WireNext]_wireVars
    PROVE  WireInv'
  <1>1. PICK frames \in Seq(Seq(Byte)) : frames = FramesOf(m, block)
    BY FramesType, Zenon
  <1>2. PICK n \in Nat : n = Len(frames)
    BY <1>1
  <1>3. k \in 1 .. n - 1 /\ replyFrames = SubSeq(frames, k + 1, n)
    BY <1>1, <1>2, Zenon DEF AckOnAir
  <1>4. PICK cmd \in Acknowledgements, b \in Byte, rest \in Seq(Byte) :
            downlink = Message(Code(cmd), b, rest)
    BY Zenon DEF AckOnAir, IsAck
  <1>5. cmd \in Commands /\ cmd # "SEND_PACKAGE_ANSWER_CMD" /\ cmd # "DEV_CREATE_BUFFER_CMD"
        /\ cmd # "SEND_DATA_BLOCK_CMD" /\ cmd # "FINISH_SEND_DATA_CMD"
    BY <1>4 DEF Acknowledgements, Commands
  <1>6. UNCHANGED wireVars \/ DeviceTakesAck
    BY <1>4, <1>5, OnlyDevice DEF AckOnAir, Replies
  <1>7. CASE UNCHANGED wireVars
    BY <1>7, Stutters DEF WireInv, Answering
  <1>8. CASE DeviceTakesAck
    <2>1. /\ replyFrames # <<>>
          /\ Head(replyFrames) = frames[k + 1]
          /\ Tail(replyFrames) = SubSeq(frames, (k + 1) + 1, n)
      <3>1. k + 1 \in 1 .. Len(frames) /\ n \in k + 1 .. Len(frames)
        BY <1>2, <1>3
      <3>2. SubSeq(frames, k + 1, n) # <<>>
        <4>1. PICK a \in 1 .. Len(frames) : a = k + 1 /\ n \in a .. Len(frames)
          BY <3>1
        <4>2. Len(SubSeq(frames, a, n)) = n - a + 1
          BY <1>1, <4>1, SubSeqProperties
        <4>3. PICK s : s = SubSeq(frames, a, n)
          OBVIOUS
        <4>4. Len(s) = n - a + 1 /\ n - a + 1 > 0 /\ n - a + 1 \in Nat
          BY <1>2, <4>1, <4>2, <4>3
        <4>5. s # <<>>
          BY <4>4
        <4> QED
          BY <4>1, <4>3, <4>5, Zenon
      <3> QED
        BY <1>1, <1>3, <3>1, <3>2, HeadTailOfSubSeq
    <2>2. /\ uplink' = Append(uplink, frames[k + 1])
          /\ replyFrames' = SubSeq(frames, (k + 1) + 1, n)
          /\ UNCHANGED <<devBuffer, delivered, reply, frameSize>>
      BY <1>8, <2>1, Zenon DEF DeviceTakesAck
    <2>3. uplink' = <<frames[k + 1]>>
      <3>1. PICK x : x = frames[k + 1]
        OBVIOUS
      <3>2. Append(<<>>, x) = <<x>>
        OBVIOUS
      <3> QED
        BY <2>2, <3>1, <3>2, Zenon DEF AckOnAir
    <2>4. downlink' = <<>> /\ UNCHANGED <<vars, request, told>>
      BY <1>8 DEF DeviceTakesAck, DeviceTakes
    <2>5. Replies(m, block)'
      BY <2>2, <2>4 DEF AckOnAir, Replies
    <2>6. k + 1 \in 1 .. n /\ (k + 1) - 1 = k /\ k + 1 \in Nat
      BY <1>3
    <2>7. recvDataBuffer' = Held(m, block, (k + 1) - 1)
      <3>1. recvDataBuffer' = recvDataBuffer
        BY <2>4 DEF vars, object
      <3> QED
        BY <2>6, <3>1, Zenon DEF AckOnAir
    <2>8. FrameOnAir(m, block, k + 1)'
      BY <1>1, <1>2, <2>2, <2>3, <2>4, <2>5, <2>6, <2>7, Zenon DEF FrameOnAir
    <2> QED
      BY <2>6, <2>8, Zenon DEF WireInv, Answering
  <1> QED
    BY <1>6, <1>7, <1>8

\* Nothing goes on behind a frame the parser passed over.
LEMMA StalledStep ==
    ASSUME Stalled, [WireNext]_wireVars
    PROVE  WireInv'
  <1>1. request # NoRequest
    BY ConstantsAssumption DEF Stalled
  <1>2. UNCHANGED wireVars
    BY <1>1 DEF Stalled, WireNext, WireRequest, WireReceive, WireIgnore, DeviceWritesPackage,
                DeviceCreatesBuffer, DeviceWritesBlock, DeviceFinishes, DeviceTakesAck,
                DeviceTakes
  <1> QED
    BY <1>2, Stutters DEF WireInv, Answering

\* The device takes the last acknowledgement, and all is done.
LEMMA ToldStep ==
    ASSUME Told, [WireNext]_wireVars
    PROVE  WireInv'
  <1>1. request # NoRequest
    BY ConstantsAssumption DEF Told
  <1>2. CASE UNCHANGED wireVars
    BY <1>2, Stutters DEF WireInv, Answering
  <1>3. CASE downlink = <<>>
    <2>1. UNCHANGED wireVars
      BY <1>1, <1>3 DEF Told, WireNext, WireRequest, WireReceive, WireIgnore,
                        DeviceWritesPackage, DeviceCreatesBuffer, DeviceWritesBlock,
                        DeviceFinishes, DeviceTakesAck, DeviceTakes
    <2> QED
      BY <1>2, <2>1
  <1>4. CASE LastAck
    <2>1. PICK cmd \in Acknowledgements, b \in Byte, rest \in Seq(Byte) :
              downlink = Message(Code(cmd), b, rest)
      BY <1>4, Zenon DEF LastAck, IsAck
    <2>2. cmd \in Commands /\ cmd # "SEND_PACKAGE_ANSWER_CMD" /\ cmd # "DEV_CREATE_BUFFER_CMD"
          /\ cmd # "SEND_DATA_BLOCK_CMD" /\ cmd # "FINISH_SEND_DATA_CMD"
      BY <2>1 DEF Acknowledgements, Commands
    <2>3. UNCHANGED wireVars \/ DeviceTakesAck
      BY <2>1, <2>2, OnlyDevice DEF Told
    <2>4. CASE DeviceTakesAck
      <3>1. downlink' = <<>> /\ UNCHANGED <<vars, request, told, uplink, replyFrames,
                                            delivered, reply, frameSize>>
        BY <2>4 DEF DeviceTakesAck, DeviceTakes, Told
      <3>2. Told'
        BY <3>1 DEF Told, vars, object
      <3> QED
        BY <3>2 DEF WireInv, Answering
    <2> QED
      BY <1>2, <2>3, <2>4
  <1> QED
    BY <1>3, <1>4 DEF Told

-----------------------------------------------------------------------------
(* The frames of a reply are read.                                         *)

\* Every frame of a reply is one the parser knows, and what it reads in it.
LEMMA FrameRead ==
    ASSUME NEW m \in ReplyBytes, NEW block \in DeviceBlocks,
           NEW k \in 1 .. Len(FramesOf(m, block)), NEW f, f = FramesOf(m, block)[k]
    PROVE  /\ f \in Seq(Byte)
           /\ Len(f) >= 2
           /\ Known(f)
           /\ \/ /\ k = Len(FramesOf(m, block))
                 /\ DataParser(f) = Frame("RECEIVE_PACKAGE_CMD", 0, 0, 0, m)
              \/ /\ k = 1
                 /\ k < Len(FramesOf(m, block))
                 /\ DataParser(f) = Frame("DEV_CREATE_BUFFER", 0, 0, Len(Whole(m)), <<>>)
                 /\ Acknowledgement(f) = Message(Code("APP_CREATE_BUFFER"), 0,
                                                 <<Port>> \o Two(Len(Whole(m))))
              \/ /\ k < Len(FramesOf(m, block))
                 /\ \E j \in 1 .. Count(m, block) :
                        /\ k = j + 1
                        /\ DataParser(f) = Frame("DEV_RECEIVE_DATA_BLOCK_CMD", 0,
                                                 (j - 1) * block, 0, Part(m, block, j))
                        /\ Acknowledgement(f)
                               = Message(Code("APP_RECEIVE_DATA_BLOCK_CMD"), 0,
                                         <<Port>> \o (Two((j - 1) * block)
                                                      \o Two(Len(Part(m, block, j)))))
              \/ /\ k = Len(FramesOf(m, block))
                 /\ k = Count(m, block) + 2
                 /\ DataParser(f) = Frame("DEV_FINISH_RECV_DATA_CMD", 0, 0, Len(Whole(m)),
                                          ContentOf(Crc32Of(Whole(m))))
                 /\ CrcField(f) = Crc32Of(Whole(m))
                 /\ Acknowledgement(f)
                        = Message(Code("APP_FINISH_RECV_DATA_CMD"), Port,
                                  Two(Len(Whole(m))) \o Four(Crc32Of(Whole(m))))
  <1>0. Port \in Byte
    BY WireAssumption
  <1>1. CASE Len(m) <= block
    <2>1. /\ Len(FramesOf(m, block)) = 1
          /\ FramesOf(m, block)[1] = Message(Code("RECEIVE_PACKAGE_CMD"), 0, m)
      BY <1>1, OneFrame, Zenon
    <2>2. k = 1
      BY <2>1
    <2>3. f = Message(Code("RECEIVE_PACKAGE_CMD"), 0, m)
      BY <2>1, <2>2, Zenon
    <2>4. m \in Seq(Byte)
      BY WireAssumption
    <2>5. /\ f \in Seq(Byte)
          /\ Len(f) >= 2
          /\ Known(f)
          /\ DataParser(f) = Frame("RECEIVE_PACKAGE_CMD", 0, 0, 0, m)
      BY <2>3, <2>4, SmallReplyRead
    <2> QED
      BY <2>1, <2>2, <2>5, Zenon
  <1>2. CASE ~ (Len(m) <= block)
    <2>1. PICK c \in Nat : c = Count(m, block)
      BY BlocksCover, Zenon
    <2>2. PICK s \in Seq(Seq(Byte)) : s = FramesOf(m, block)
      BY FramesType, Zenon
    <2>3. /\ Len(s) = c + 2
          /\ s[1] = Message(Code("DEV_CREATE_BUFFER"), Port, Two(Len(Whole(m))))
          /\ \A i \in 1 .. c :
                 s[i + 1] = Message(Code("DEV_RECEIVE_DATA_BLOCK_CMD"), Port,
                                    Two((i - 1) * block) \o Part(m, block, i))
          /\ s[c + 2] = Message(Code("DEV_FINISH_RECV_DATA_CMD"), Port,
                                Two(Len(Whole(m))) \o Four(Crc32Of(Whole(m))))
      BY <1>2, <2>1, <2>2, FramesShape, Zenon
    <2>4. k \in 1 .. c + 2
      BY <2>2, <2>3, Zenon
    <2>5. Len(Whole(m)) \in Short
      BY WholeForm, Zenon
    <2>6. CASE k = 1
      <3>1. k < c + 2
        BY <2>1, <2>6
      <3>2. f = Message(Code("DEV_CREATE_BUFFER"), Port, Two(Len(Whole(m))))
        BY <2>2, <2>3, <2>6, Zenon
      <3>3. /\ f \in Seq(Byte)
            /\ Len(f) >= 2
            /\ Known(f)
            /\ DataParser(f) = Frame("DEV_CREATE_BUFFER", 0, 0, Len(Whole(m)), <<>>)
        BY <1>0, <2>5, <3>2, CreateRead
      <3>4. Acknowledgement(f) = Message(Code("APP_CREATE_BUFFER"), 0,
                                         <<Port>> \o Two(Len(Whole(m))))
        <4>1. PICK n \in Short : n = Len(Whole(m))
          BY <2>5
        <4>2. PICK t \in Seq(Byte) : t = Two(n)
          BY TwoType DEF Short
        <4>3. TwoAt(t, 0) = n
          BY <4>2, ReadLastTwo
        <4>4. f = Message(Code("DEV_CREATE_BUFFER"), Port, t)
          BY <3>2, <4>1, <4>2, Zenon
        <4>5. Acknowledgement(f) = Message(Code("APP_CREATE_BUFFER"), 0,
                                           <<Port>> \o Two(TwoAt(t, 0)))
          BY <1>0, <4>4, AcknowledgementForm, Zenon
        <4> QED
          BY <4>1, <4>3, <4>5, Zenon
      <3> QED
        BY <2>2, <2>3, <2>6, <3>1, <3>3, <3>4, Zenon
    <2>7. CASE k = c + 2
      <3>1. f = Message(Code("DEV_FINISH_RECV_DATA_CMD"), Port,
                        Two(Len(Whole(m))) \o Four(Crc32Of(Whole(m))))
        BY <2>2, <2>3, <2>7, Zenon
      <3>2. Crc32Of(Whole(m)) \in Word
        BY CrcType, Zenon
      <3>3. /\ f \in Seq(Byte)
            /\ Len(f) >= 2
            /\ Known(f)
            /\ DataParser(f) = Frame("DEV_FINISH_RECV_DATA_CMD", 0, 0, Len(Whole(m)),
                                     ContentOf(Crc32Of(Whole(m))))
            /\ CrcField(f) = Crc32Of(Whole(m))
        BY <1>0, <2>5, <3>1, <3>2, FinishRead
      <3>4. Acknowledgement(f) = Message(Code("APP_FINISH_RECV_DATA_CMD"), Port,
                                         Two(Len(Whole(m))) \o Four(Crc32Of(Whole(m))))
        <4>1. PICK d \in Seq(Byte) : d = Four(Crc32Of(Whole(m)))
          BY <3>2, FourType, Zenon
        <4>2. d \in Seq(Byte)
          BY <4>1
        <4>3. PICK u \in Seq(Byte) : u = Two(Len(Whole(m))) \o d
          BY <2>5, <4>2, NumberRead, Zenon
        <4>4. f = Message(Code("DEV_FINISH_RECV_DATA_CMD"), Port, u)
          BY <3>1, <4>1, <4>3, Zenon
        <4>5. Acknowledgement(f) = Message(Code("APP_FINISH_RECV_DATA_CMD"), Port, u)
          BY <1>0, <4>4, AcknowledgementForm, Zenon
        <4> QED
          BY <4>1, <4>3, <4>5, Zenon
      <3> QED
        BY <2>1, <2>2, <2>3, <2>7, <3>3, <3>4, Zenon
    <2>8. CASE k # 1 /\ k # c + 2
      <3>1. PICK j \in 1 .. c : k = j + 1 /\ k < c + 2
        <4>1. k - 1 \in 1 .. c /\ k = (k - 1) + 1 /\ k < c + 2
          BY <2>1, <2>4, <2>8
        <4> QED
          BY <4>1, Zenon
      <3>2. f = Message(Code("DEV_RECEIVE_DATA_BLOCK_CMD"), Port,
                        Two((j - 1) * block) \o Part(m, block, j))
        BY <2>2, <2>3, <3>1, Zenon
      <3>3. (j - 1) * block \in Short /\ Part(m, block, j) \in Seq(Byte)
        BY <2>1, BlocksCover, Zenon
      <3>4. /\ f \in Seq(Byte)
            /\ Len(f) >= 2
            /\ Known(f)
            /\ DataParser(f) = Frame("DEV_RECEIVE_DATA_BLOCK_CMD", 0,
                                     (j - 1) * block, 0, Part(m, block, j))
        BY <1>0, <3>2, <3>3, BlockRead
      <3>5. Acknowledgement(f)
                = Message(Code("APP_RECEIVE_DATA_BLOCK_CMD"), 0,
                          <<Port>> \o (Two((j - 1) * block) \o Two(Len(Part(m, block, j)))))
        <4>1. PICK off \in Short : off = (j - 1) * block
          BY <3>3
        <4>2. PICK d \in Seq(Byte) : d = Part(m, block, j)
          BY <3>3
        <4>3. d \in Seq(Byte)
          BY <4>2
        <4>4. PICK u \in Seq(Byte) : u = Two(off) \o d
          BY <4>3, NumberRead, Zenon
        <4>5. Len(u) = 2 + Len(d) /\ TwoAt(u, 0) = off
          BY <4>3, <4>4, NumberRead, Zenon
        <4>6. Len(u) - 2 = Len(d)
          BY <4>5
        <4>7. f = Message(Code("DEV_RECEIVE_DATA_BLOCK_CMD"), Port, u)
          BY <3>2, <4>1, <4>2, <4>4, Zenon
        <4>8. Acknowledgement(f)
                  = Message(Code("APP_RECEIVE_DATA_BLOCK_CMD"), 0,
                            <<Port>> \o (Two(TwoAt(u, 0)) \o Two(Len(u) - 2)))
          BY <1>0, <4>7, AcknowledgementForm, Zenon
        <4> QED
          BY <4>1, <4>2, <4>5, <4>6, <4>8, Zenon
      <3> QED
        BY <2>1, <2>2, <2>3, <3>1, <3>4, <3>5, Zenon
    <2> QED
      BY <2>6, <2>7, <2>8
  <1> QED
    BY <1>1, <1>2

\* The parser passes over a frame of a reply only because of the bytes in it.
LEMMA PassedOver ==
    ASSUME NEW m \in ReplyBytes, NEW block \in DeviceBlocks, NEW k \in Nat,
           FrameOnAir(m, block, k), WireIgnore
    PROVE  Stalled'
  <1>1. PICK f : f = FramesOf(m, block)[k] /\ k \in 1 .. Len(FramesOf(m, block))
    BY Zenon DEF FrameOnAir
  <1>2. Known(f)
    BY <1>1, FrameRead
  <1>3. uplink = <<f>>
    BY <1>1, Zenon DEF FrameOnAir
  <1>4. Head(uplink) = f /\ Tail(uplink) = <<>>
    BY <1>3
  <1>5. IsOverdue(Queued(f)) /\ uplink' = <<>>
    BY <1>2, <1>4, Zenon DEF WireIgnore
  <1>6. /\ frameSize \in DeviceBlocks
        /\ \E j \in 1 .. Len(FramesOf(reply, frameSize)) :
               /\ IsOverdue(Queued(FramesOf(reply, frameSize)[j]))
               /\ replyFrames = SubSeq(FramesOf(reply, frameSize), j + 1,
                                       Len(FramesOf(reply, frameSize)))
    <2>1. reply = m /\ frameSize = block
      BY Zenon DEF FrameOnAir, Replies
    <2>2. replyFrames = SubSeq(FramesOf(m, block), k + 1, Len(FramesOf(m, block)))
      BY Zenon DEF FrameOnAir
    <2> QED
      BY <1>1, <1>5, <2>1, <2>2, Zenon
  <1>7. UNCHANGED <<vars, request, downlink, device, told>>
    BY Zenon DEF WireIgnore
  <1>8. UNCHANGED <<request, downlink, delivered, reply, frameSize, replyFrames, told>>
    BY <1>7 DEF device
  <1>9. /\ request \in Requests
         /\ delivered = RequestBytes[request]
         /\ reply = m
         /\ told = <<>>
         /\ downlink = <<>>
    BY Zenon DEF FrameOnAir, Replies
  <1>10. /\ request' = request
         /\ downlink' = downlink
         /\ delivered' = delivered
         /\ reply' = reply
         /\ frameSize' = frameSize
         /\ replyFrames' = replyFrames
         /\ told' = told
    BY <1>8
  <1>11. /\ request' \in Requests
         /\ delivered' = RequestBytes[request']
         /\ reply' \in ReplyBytes
         /\ frameSize' \in DeviceBlocks
         /\ told' = <<>>
         /\ downlink' = <<>>
    BY <1>6, <1>9, <1>10, Zenon
  <1>12. TakenForStatus'
    BY <1>6, <1>10, Zenon DEF TakenForStatus
  <1> QED
    BY <1>5, <1>11, <1>12, Zenon DEF Stalled

\* A frame of a reply is dispatched, and what that does to the queues.
LEMMA FrameTaken ==
    ASSUME NEW m \in ReplyBytes, NEW block \in DeviceBlocks, NEW k \in Nat,
           FrameOnAir(m, block, k), WireReceive
    PROVE  LET frame == DataParser(FramesOf(m, block)[k])
           IN  /\ Dispatch(frame)
               /\ uplink' = <<>>
               /\ downlink' = Encoded(sendLoraPack')
               /\ told' = IF sendAnswer' # "ok" THEN told
                          ELSE IF frame.cmd = "RECEIVE_PACKAGE_CMD" THEN frame.data
                          ELSE PackageData(recvDataBuffer)
               /\ UNCHANGED <<request, device>>
  <1>1. PICK f : f = FramesOf(m, block)[k]
    OBVIOUS
  <1>2. uplink = <<f>>
    BY <1>1, Zenon DEF FrameOnAir
  <1>3. Head(uplink) = f /\ Tail(uplink) = <<>>
    BY <1>2
  <1> QED
    BY <1>1, <1>3, Zenon DEF WireReceive

\* With the last frame the application has the reply.
LEMMA LastFrameDone ==
    ASSUME NEW m \in ReplyBytes, NEW block \in DeviceBlocks, NEW k \in Nat,
           FrameOnAir(m, block, k), k = Len(FramesOf(m, block)),
           UNCHANGED <<request, device>>, uplink' = <<>>, told' = m,
           \/ downlink' = <<>>
           \/ IsAck(downlink') /\ downlink' = Acknowledgement(FramesOf(m, block)[k]),
           recvDataBuffer' = <<>>
    PROVE  Told'
  <1>1. PICK s \in Seq(Seq(Byte)) : s = FramesOf(m, block)
    BY FramesType, Zenon
  <1>2. PICK n \in Nat : n = Len(s)
    BY <1>1
  <1>3. SubSeq(s, n + 1, n) = <<>>
    BY <1>1, <1>2
  <1>4. replyFrames = <<>>
    BY <1>1, <1>2, <1>3, Zenon DEF FrameOnAir
  <1>5. UNCHANGED <<request, delivered, reply, frameSize, replyFrames>>
    BY DEF device
  <1>6. /\ request \in Requests
        /\ delivered = RequestBytes[request]
        /\ reply = m
        /\ frameSize = block
    BY Zenon DEF FrameOnAir, Replies
  <1>7. /\ request' = request
        /\ delivered' = delivered
        /\ reply' = reply
        /\ frameSize' = frameSize
        /\ replyFrames' = replyFrames
    BY <1>5
  <1>8. /\ request' \in Requests
        /\ delivered' = RequestBytes[request']
        /\ reply' \in ReplyBytes
        /\ frameSize' \in DeviceBlocks
        /\ told' = reply'
        /\ replyFrames' = <<>>
    BY <1>4, <1>6, <1>7, Zenon
  <1>9. downlink' = <<>> \/ LastAck'
    BY <1>6, <1>7, Zenon DEF LastAck
  <1> QED
    BY <1>8, <1>9, Zenon DEF Told

\* Every other one is stored and acknowledged.
LEMMA FrameDone ==
    ASSUME NEW m \in ReplyBytes, NEW block \in DeviceBlocks, NEW k \in Nat,
           FrameOnAir(m, block, k), k < Len(FramesOf(m, block)),
           UNCHANGED <<request, device>>, uplink' = <<>>, told' = told,
           IsAck(downlink'), downlink' = Acknowledgement(FramesOf(m, block)[k]),
           recvDataBuffer' = Held(m, block, k)
    PROVE  AckOnAir(m, block, k)'
  <1>1. PICK n \in Nat : n = Len(FramesOf(m, block))
    BY FramesType
  <1>2. k \in 1 .. n - 1
    <2>1. k \in 1 .. n /\ k < n
      BY <1>1, Zenon DEF FrameOnAir
    <2> QED
      BY <2>1
  <1>3. Replies(m, block)'
    BY DEF FrameOnAir, Replies, device
  <1>4. replyFrames' = SubSeq(FramesOf(m, block), k + 1, n)
    <2>1. replyFrames' = replyFrames
      BY DEF device
    <2> QED
      BY <1>1, <2>1, Zenon DEF FrameOnAir
  <1> QED
    BY <1>1, <1>2, <1>3, <1>4, Zenon DEF AckOnAir

\* A small reply is handed over as it is.
LEMMA SmallReplyStep ==
    ASSUME NEW m \in ReplyBytes, NEW block \in DeviceBlocks, NEW k \in Nat,
           FrameOnAir(m, block, k), WireReceive, k = Len(FramesOf(m, block)),
           DataParser(FramesOf(m, block)[k]) = Frame("RECEIVE_PACKAGE_CMD", 0, 0, 0, m)
    PROVE  Told'
  <1>1. PICK fr : fr = Frame("RECEIVE_PACKAGE_CMD", 0, 0, 0, m)
    OBVIOUS
  <1>2. fr.cmd = "RECEIVE_PACKAGE_CMD" /\ fr.data = m
    BY <1>1 DEF Frame
  <1>3. /\ Dispatch(fr)
        /\ uplink' = <<>>
        /\ downlink' = Encoded(sendLoraPack')
        /\ told' = IF sendAnswer' # "ok" THEN told
                   ELSE IF fr.cmd = "RECEIVE_PACKAGE_CMD" THEN fr.data
                   ELSE PackageData(recvDataBuffer)
        /\ UNCHANGED <<request, device>>
    BY <1>1, FrameTaken, Zenon
  <1>4. ReceivePackage
    BY <1>2, <1>3 DEF Dispatch
  <1>5. sendAnswer' = "ok" /\ sendLoraPack' = NoPack /\ recvDataBuffer' = <<>>
    BY <1>4 DEF ReceivePackage, IdleDisconnect
  <1>6. told' = m
    BY <1>2, <1>3, <1>5, Zenon
  <1>7. downlink' = <<>>
    BY <1>3, <1>5, Zenon DEF Encoded
  <1> QED
    BY <1>3, <1>5, <1>6, <1>7, LastFrameDone

\* The buffer of a longer one is created.
LEMMA CreateBufferStep ==
    ASSUME NEW m \in ReplyBytes, NEW block \in DeviceBlocks,
           FrameOnAir(m, block, 1), WireReceive, 1 < Len(FramesOf(m, block)),
           DataParser(FramesOf(m, block)[1])
               = Frame("DEV_CREATE_BUFFER", 0, 0, Len(Whole(m)), <<>>),
           Acknowledgement(FramesOf(m, block)[1])
               = Message(Code("APP_CREATE_BUFFER"), 0, <<Port>> \o Two(Len(Whole(m))))
    PROVE  AckOnAir(m, block, 1)'
  <1>1. PICK n : n = Len(Whole(m)) /\ n \in Short
    BY WholeForm, Zenon
  <1>2. PICK fr : fr = Frame("DEV_CREATE_BUFFER", 0, 0, n, <<>>)
    OBVIOUS
  <1>3. fr.cmd = "DEV_CREATE_BUFFER" /\ fr.len = n
    BY <1>2 DEF Frame
  <1>4. /\ Dispatch(fr)
        /\ uplink' = <<>>
        /\ downlink' = Encoded(sendLoraPack')
        /\ UNCHANGED <<request, device>>
    <2>1. 1 \in Nat
      OBVIOUS
    <2> QED
      BY <1>1, <1>2, <2>1, FrameTaken, Zenon
  <1>5. CreateBufferCmd(n)
    BY <1>3, <1>4 DEF Dispatch
  <1>6. /\ sendAnswer' = "none"
        /\ sendLoraPack' = Pack("APP_CREATE_BUFFER", NoRequest, 0, n)
        /\ recvDataBuffer' = [i \in 1 .. n |-> Junk]
    BY <1>5 DEF CreateBufferCmd, SendCommand
  <1>7. told' = told
    BY <1>6, NotTold
  <1>8. recvDataBuffer = <<>>
    <2>1. 1 - 1 = 0
      OBVIOUS
    <2> QED
      BY <2>1, Zenon DEF FrameOnAir, Held
  <1>9. IsAck(downlink') /\ downlink' = Acknowledgement(FramesOf(m, block)[1])
    <2>1. "APP_CREATE_BUFFER" \in Acknowledgements /\ 0 \in Int /\ n \in Int
      BY <1>1 DEF Acknowledgements, Short
    <2>2. Len(recvDataBuffer) \in Int
      BY <1>8
    <2>3. /\ IsAck(Encoded(Pack("APP_CREATE_BUFFER", NoRequest, 0, n)))
          /\ Encoded(Pack("APP_CREATE_BUFFER", NoRequest, 0, n))
                 = Message(Code("APP_CREATE_BUFFER"), 0, <<Port>> \o Two(n))
      BY <2>1, <2>2, EncodedAck, Zenon
    <2> QED
      BY <1>1, <1>4, <1>6, <2>3, Zenon
  <1>10. recvDataBuffer' = Held(m, block, 1)
    BY <1>1, <1>6, HeldCreated, Zenon
  <1> QED
    BY <1>4, <1>7, <1>9, <1>10, FrameDone

\* A block of it is stored.
LEMMA StoreStep ==
    ASSUME NEW m \in ReplyBytes, NEW block \in DeviceBlocks, NEW k \in Nat,
           NEW j \in 1 .. Count(m, block), k = j + 1,
           FrameOnAir(m, block, k), WireReceive, k < Len(FramesOf(m, block)),
           DataParser(FramesOf(m, block)[k])
               = Frame("DEV_RECEIVE_DATA_BLOCK_CMD", 0, (j - 1) * block, 0, Part(m, block, j)),
           Acknowledgement(FramesOf(m, block)[k])
               = Message(Code("APP_RECEIVE_DATA_BLOCK_CMD"), 0,
                         <<Port>> \o (Two((j - 1) * block) \o Two(Len(Part(m, block, j)))))
    PROVE  AckOnAir(m, block, k)'
  <1>1. PICK d \in Seq(Byte) : d = Part(m, block, j)
    BY BlocksCover, Zenon
  <1>2. PICK off \in Nat : off = (j - 1) * block
    BY BlocksCover, Zenon
  <1>3. PICK fr : fr = Frame("DEV_RECEIVE_DATA_BLOCK_CMD", 0, off, 0, d)
    OBVIOUS
  <1>4. fr.cmd = "DEV_RECEIVE_DATA_BLOCK_CMD" /\ fr.off = off /\ fr.data = d
    BY <1>3 DEF Frame
  <1>5. /\ Dispatch(fr)
        /\ uplink' = <<>>
        /\ downlink' = Encoded(sendLoraPack')
        /\ UNCHANGED <<request, device>>
    BY <1>1, <1>2, <1>3, FrameTaken, Zenon
  <1>6. ReceivedDataBlock(off, d)
    BY <1>4, <1>5 DEF Dispatch
  <1>7. /\ sendAnswer' = "none"
        /\ sendLoraPack' = Pack("APP_RECEIVE_DATA_BLOCK_CMD", NoRequest, off, Len(d))
        /\ recvDataBuffer' = Stored(recvDataBuffer, off, d)
    BY <1>6, Zenon DEF ReceivedDataBlock, SendCommand
  <1>8. told' = told
    BY <1>7, NotTold
  <1>9. j \in Nat /\ k - 1 = j
    <2>1. Count(m, block) \in Nat
      BY BlocksCover, Zenon
    <2> QED
      BY <2>1
  <1>10. recvDataBuffer = Held(m, block, j)
    BY <1>9, Zenon DEF FrameOnAir
  <1>11. IsAck(downlink') /\ downlink' = Acknowledgement(FramesOf(m, block)[k])
    <2>1. "APP_RECEIVE_DATA_BLOCK_CMD" \in Acknowledgements
      BY DEF Acknowledgements
    <2>2. off \in Int /\ Len(d) \in Int
      BY <1>1, <1>2
    <2>3. recvDataBuffer \in Seq(Byte \cup {Junk})
      BY <1>9, <1>10, HeldType, Zenon
    <2>4. Len(recvDataBuffer) \in Int
      BY <2>3
    <2>5. /\ IsAck(Encoded(Pack("APP_RECEIVE_DATA_BLOCK_CMD", NoRequest, off, Len(d))))
          /\ Encoded(Pack("APP_RECEIVE_DATA_BLOCK_CMD", NoRequest, off, Len(d)))
                 = Message(Code("APP_RECEIVE_DATA_BLOCK_CMD"), 0,
                           <<Port>> \o (Two(off) \o Two(Len(d))))
      BY <2>1, <2>2, <2>4, EncodedAck, Zenon
    <2> QED
      BY <1>1, <1>2, <1>5, <1>7, <2>5, Zenon
  <1>12. recvDataBuffer' = Held(m, block, k)
    <2>1. Stored(Held(m, block, j), (j - 1) * block, Part(m, block, j)) = Held(m, block, j + 1)
      BY HeldStored, Zenon
    <2> QED
      BY <1>1, <1>2, <1>7, <1>10, <2>1, Zenon
  <1> QED
    BY <1>5, <1>8, <1>11, <1>12, FrameDone

\* At the end the CRC agrees, and the data behind the header are the reply.
LEMMA FinishStep ==
    ASSUME NEW m \in ReplyBytes, NEW block \in DeviceBlocks, NEW k \in Nat,
           FrameOnAir(m, block, k), WireReceive, k = Len(FramesOf(m, block)),
           k = Count(m, block) + 2,
           DataParser(FramesOf(m, block)[k])
               = Frame("DEV_FINISH_RECV_DATA_CMD", 0, 0, Len(Whole(m)),
                       ContentOf(Crc32Of(Whole(m)))),
           Acknowledgement(FramesOf(m, block)[k])
               = Message(Code("APP_FINISH_RECV_DATA_CMD"), Port,
                         Two(Len(Whole(m))) \o Four(Crc32Of(Whole(m))))
    PROVE  Told'
  <1>1. PICK w \in Seq(Byte) : w = Whole(m)
    BY WholeForm, Zenon
  <1>2. recvDataBuffer = w
    <2>1. PICK c \in Nat : c = Count(m, block)
      BY BlocksCover, Zenon
    <2>2. k - 1 = c + 1
      BY <2>1
    <2>3. Held(m, block, c + 1) = w
      BY <1>1, <2>1, HeldAll, Zenon
    <2> QED
      BY <2>2, <2>3, Zenon DEF FrameOnAir
  <1>3. ContentOf(Crc32Of(Whole(m))) = w
    <2>1. crc32_fsl({}, w) = Crc32Of(w)
      BY CrcCorrect, Zenon
    <2> QED
      BY <1>1, <1>2, <2>1, Zenon DEF ContentOf
  <1>4. PICK fr : fr = Frame("DEV_FINISH_RECV_DATA_CMD", 0, 0, Len(w), w)
    OBVIOUS
  <1>5. fr.cmd = "DEV_FINISH_RECV_DATA_CMD" /\ fr.cmd # "RECEIVE_PACKAGE_CMD" /\ fr.data = w
    BY <1>4 DEF Frame
  <1>6. /\ Dispatch(fr)
        /\ uplink' = <<>>
        /\ downlink' = Encoded(sendLoraPack')
        /\ told' = IF sendAnswer' # "ok" THEN told
                   ELSE IF fr.cmd = "RECEIVE_PACKAGE_CMD" THEN fr.data
                   ELSE PackageData(recvDataBuffer)
        /\ UNCHANGED <<request, device>>
    BY <1>1, <1>3, <1>4, FrameTaken, Zenon
  <1>7. FinishReceivedPackAnswer(w)
    BY <1>5, <1>6 DEF Dispatch
  <1>8. CrcOutcomes(w, recvDataBuffer) = {TRUE}
    BY <1>2, Zenon DEF CrcOutcomes
  <1>9. sendAnswer' = "ok"
    BY <1>7, <1>8, Zenon DEF FinishReceivedPackAnswer
  <1>10. /\ sendLoraPack' = Pack("APP_FINISH_RECV_DATA_CMD", NoRequest, 0, Len(w))
         /\ recvDataBuffer' = <<>>
    BY <1>2, <1>7, Zenon DEF FinishReceivedPackAnswer, IdleDisconnect
  <1>11. told' = m
    <2>1. Right(w, Len(w) - HeaderSize) = m
      BY <1>1, WholeForm, Zenon
    <2> QED
      BY <1>2, <1>5, <1>6, <1>9, <2>1, Zenon DEF PackageData
  <1>12. IsAck(downlink') /\ downlink' = Acknowledgement(FramesOf(m, block)[k])
    <2>1. "APP_FINISH_RECV_DATA_CMD" \in Acknowledgements
      BY DEF Acknowledgements
    <2>2. 0 \in Int /\ Len(w) \in Int
      BY <1>1
    <2>3. Len(recvDataBuffer) \in Int
      BY <1>2, <2>2
    <2>4. /\ IsAck(Encoded(Pack("APP_FINISH_RECV_DATA_CMD", NoRequest, 0, Len(w))))
          /\ Encoded(Pack("APP_FINISH_RECV_DATA_CMD", NoRequest, 0, Len(w)))
                 = Message(Code("APP_FINISH_RECV_DATA_CMD"), Port, CheckSum(recvDataBuffer))
      BY <2>1, <2>2, <2>3, EncodedAck, Zenon
    <2>5. CheckSum(recvDataBuffer) = Two(Len(w)) \o Four(Crc32Of(w))
      <3>1. crc32_fsl({}, w) = Crc32Of(w)
        BY CrcCorrect, Zenon
      <3> QED
        BY <1>2, <3>1, Zenon DEF CheckSum
    <2> QED
      BY <1>1, <1>6, <1>10, <2>4, <2>5, Zenon
  <1> QED
    BY <1>6, <1>10, <1>11, <1>12, LastFrameDone

\* So every frame of a reply is taken, or passed over.
LEMMA FrameStep ==
    ASSUME NEW m \in ReplyBytes, NEW block \in DeviceBlocks, NEW k \in Nat,
           FrameOnAir(m, block, k), [WireNext]_wireVars
    PROVE  WireInv'
  <1>1. k \in 1 .. Len(FramesOf(m, block))
    BY Zenon DEF FrameOnAir
  <1>2. UNCHANGED wireVars \/ WireReceive \/ WireIgnore
    <2>1. PICK f : f = FramesOf(m, block)[k]
      OBVIOUS
    <2>2. uplink = <<f>>
      BY <2>1, Zenon DEF FrameOnAir
    <2>3. uplink # <<>>
      BY <2>2
    <2> QED
      BY <2>3, OnlyReceive DEF FrameOnAir, Replies
  <1>3. CASE UNCHANGED wireVars
    BY <1>3, Stutters DEF WireInv, Answering
  <1>4. CASE WireIgnore
    <2>1. Stalled'
      BY <1>4, PassedOver
    <2> QED
      BY <2>1, Zenon DEF WireInv, Answering
  <1>5. CASE WireReceive
    <2>1. (\E j \in Nat : AckOnAir(m, block, j)') \/ Told'
      <3>1. CASE /\ k = Len(FramesOf(m, block))
                 /\ DataParser(FramesOf(m, block)[k]) = Frame("RECEIVE_PACKAGE_CMD", 0, 0, 0, m)
        BY <1>5, <3>1, SmallReplyStep
      <3>2. CASE /\ k = 1
                 /\ k < Len(FramesOf(m, block))
                 /\ DataParser(FramesOf(m, block)[k])
                        = Frame("DEV_CREATE_BUFFER", 0, 0, Len(Whole(m)), <<>>)
                 /\ Acknowledgement(FramesOf(m, block)[k])
                        = Message(Code("APP_CREATE_BUFFER"), 0,
                                  <<Port>> \o Two(Len(Whole(m))))
        BY <1>5, <3>2, CreateBufferStep
      <3>3. ASSUME /\ k < Len(FramesOf(m, block))
                   /\ \E j \in 1 .. Count(m, block) :
                          /\ k = j + 1
                          /\ DataParser(FramesOf(m, block)[k])
                                 = Frame("DEV_RECEIVE_DATA_BLOCK_CMD", 0,
                                         (j - 1) * block, 0, Part(m, block, j))
                          /\ Acknowledgement(FramesOf(m, block)[k])
                                 = Message(Code("APP_RECEIVE_DATA_BLOCK_CMD"), 0,
                                           <<Port>> \o (Two((j - 1) * block)
                                                        \o Two(Len(Part(m, block, j)))))
            PROVE  AckOnAir(m, block, k)'
        BY <1>5, <3>3, StoreStep
      <3>4. CASE /\ k = Len(FramesOf(m, block))
                 /\ k = Count(m, block) + 2
                 /\ DataParser(FramesOf(m, block)[k])
                        = Frame("DEV_FINISH_RECV_DATA_CMD", 0, 0, Len(Whole(m)),
                                ContentOf(Crc32Of(Whole(m))))
                 /\ Acknowledgement(FramesOf(m, block)[k])
                        = Message(Code("APP_FINISH_RECV_DATA_CMD"), Port,
                                  Two(Len(Whole(m))) \o Four(Crc32Of(Whole(m))))
        BY <1>5, <3>4, FinishStep
      <3>5. PICK f : f = FramesOf(m, block)[k]
        OBVIOUS
      <3> QED
        BY <1>1, <3>1, <3>2, <3>3, <3>4, <3>5, FrameRead
    <2> QED
      BY <2>1, Zenon DEF WireInv, Answering
  <1> QED
    BY <1>2, <1>3, <1>4, <1>5

-----------------------------------------------------------------------------
(* The invariant holds, and with it what the runs check of the bytes.      *)

\* Every step leads from a stage to a stage.
LEMMA WireStepInv ==
    ASSUME WireInv, [WireNext]_wireVars
    PROVE  WireInv'
  <1>1. CASE Asking
    <2>1. CASE Fresh
      BY <2>1, FreshStep
    <2>2. ASSUME NEW r \in Requests, SmallOnAir(r)
          PROVE  WireInv'
      BY <2>2, SmallStep
    <2>3. ASSUME NEW r \in Requests, CreateOnAir(r)
          PROVE  WireInv'
      BY <2>3, CreateStep
    <2>4. ASSUME NEW r \in Requests, CreateAnswered(r)
          PROVE  WireInv'
      BY <2>4, CreateAnsweredStep
    <2>5. ASSUME NEW r \in Requests, NEW pos \in Nat, BlockOnAir(r, pos)
          PROVE  WireInv'
      BY <2>5, BlockStep
    <2>6. ASSUME NEW r \in Requests, NEW pos \in Nat, BlockAnswered(r, pos)
          PROVE  WireInv'
      BY <2>6, BlockAnsweredStep
    <2>7. ASSUME NEW r \in Requests, CheckOnAir(r)
          PROVE  WireInv'
      BY <2>7, CheckStep
    <2> QED
      BY <1>1, <2>1, <2>2, <2>3, <2>4, <2>5, <2>6, <2>7, Zenon DEF Asking
  <1>2. CASE Answering
    <2>1. ASSUME NEW m \in ReplyBytes, NEW block \in DeviceBlocks, FirstOnAir(m, block)
          PROVE  WireInv'
      BY <2>1, FirstStep
    <2>2. ASSUME NEW m \in ReplyBytes, NEW block \in DeviceBlocks, NEW k \in Nat,
                 FrameOnAir(m, block, k)
          PROVE  WireInv'
      BY <2>2, FrameStep
    <2>3. ASSUME NEW m \in ReplyBytes, NEW block \in DeviceBlocks, NEW k \in Nat,
                 AckOnAir(m, block, k)
          PROVE  WireInv'
      BY <2>3, AckStep
    <2>4. CASE Stalled
      BY <2>4, StalledStep
    <2>5. CASE Told
      BY <2>5, ToldStep
    <2> QED
      BY <1>2, <2>1, <2>2, <2>3, <2>4, <2>5, Zenon DEF Answering
  <1> QED
    BY <1>1, <1>2, Zenon DEF WireInv

\* The exchange is at one of its stages at any time: the packet or the answer on
\* its way fits what both sides have.
THEOREM WireInductive == WireSpec => []WireInv
  <1>1. WireInit => WireInv
    BY WireInitInv
  <1>2. WireInv /\ [WireNext]_wireVars => WireInv'
    BY WireStepInv
  <1> QED
    BY <1>1, <1>2, PTL DEF WireSpec

\* Bytes, of which the parser reads none behind the last.
Legible(f) ==
    /\ f \in Seq(Byte)
    /\ Len(f) >= 2
    /\ Known(f) => /\ DataParser(f).rc >= 0
                   /\ DataParser(f).off >= 0
                   /\ DataParser(f).len >= 0
    /\ Command(f) = Code("DEV_FINISH_RECV_DATA_CMD") => CrcField(f) # {Outside}

\* What is on its way is bytes.
OnAirTyped ==
    /\ downlink \in Seq(Byte)
    /\ \/ uplink = <<>>
       \/ \E f : Legible(f) /\ uplink = <<f>>
       \/ \E f, g : Legible(f) /\ Legible(g) /\ uplink = <<f, g>>

\* Something is.
Moving == downlink # <<>> \/ uplink # <<>>

\* The frames before the reply, and those of it.
LEMMA AnswersLegible ==
    /\ \A p \in Byte, n \in Short :
           Legible(Message(AnswerTo("DEV_CREATE_BUFFER_CMD"), 0, <<p>> \o Two(n)))
    /\ \A p \in Byte, off \in Short, n \in Short :
           Legible(Message(AnswerTo("SEND_DATA_BLOCK_CMD"), 0, <<p>> \o (Two(off) \o Two(n))))
    /\ \A cmd \in {"SEND_PACKAGE_ANSWER_CMD", "FINISH_SEND_DATA_CMD"}, rest \in Seq(Byte) :
           Legible(Message(AnswerTo(cmd), 0, rest))
    /\ \A m \in ReplyBytes, block \in DeviceBlocks :
           \A k \in 1 .. Len(FramesOf(m, block)) : Legible(FramesOf(m, block)[k])
  <1>0. ASSUME NEW f, NEW cmd, NEW off, NEW n, NEW d, off >= 0, n >= 0, f \in Seq(Byte),
               Len(f) >= 2,
               Known(f) => DataParser(f) = Frame(cmd, 0, off, n, d),
               cmd # "DEV_FINISH_RECV_DATA_CMD" \/ CrcField(f) \in Word
        PROVE  Legible(f)
    <2>1. Known(f) => /\ DataParser(f).rc >= 0
                      /\ DataParser(f).off >= 0
                      /\ DataParser(f).len >= 0
      BY <1>0 DEF Frame
    <2>2. ASSUME Command(f) = Code("DEV_FINISH_RECV_DATA_CMD")
          PROVE  CrcField(f) \in Word
      <3>1. Known(f)
        BY <2>2, KnownFrame, Zenon DEF FrameCommands
      <3>2. DataParser(f) = Frame("DEV_FINISH_RECV_DATA_CMD", 0, 0, Field(f, 3),
                                  ContentOf(CrcField(f)))
        BY <2>2, ParserBranches, Zenon
      <3>3. DataParser(f) = Frame(cmd, 0, off, n, d)
        BY <1>0, <3>1
      <3>4. cmd = "DEV_FINISH_RECV_DATA_CMD"
        BY <3>2, <3>3 DEF Frame
      <3> QED
        BY <1>0, <3>4
    <2>3. {Outside} \notin Word
      BY DEF Outside, Word
    <2> QED
      BY <1>0, <2>1, <2>2, <2>3, Zenon DEF Legible
  <1>1. \A n \in Short : n \in Nat /\ n >= 0
    BY DEF Short
  <1>2. 0 >= 0
    OBVIOUS
  <1>3. ASSUME NEW p \in Byte, NEW n \in Short
        PROVE  Legible(Message(AnswerTo("DEV_CREATE_BUFFER_CMD"), 0, <<p>> \o Two(n)))
    <2>1. PICK f : f = Message(AnswerTo("DEV_CREATE_BUFFER_CMD"), 0, <<p>> \o Two(n))
      OBVIOUS
    <2>2. /\ f \in Seq(Byte)
          /\ Len(f) >= 2
          /\ DataParser(f) = Frame("DEV_CREATE_BUFFER_CMD", 0, 0, n, <<>>)
      BY <2>1, CreateAnswerRead
    <2>3. "DEV_CREATE_BUFFER_CMD" # "DEV_FINISH_RECV_DATA_CMD"
      OBVIOUS
    <2> QED
      BY <1>0, <1>1, <1>2, <2>1, <2>2, <2>3, Zenon
  <1>4. ASSUME NEW p \in Byte, NEW off \in Short, NEW n \in Short
        PROVE  Legible(Message(AnswerTo("SEND_DATA_BLOCK_CMD"), 0,
                               <<p>> \o (Two(off) \o Two(n))))
    <2>1. PICK f : f = Message(AnswerTo("SEND_DATA_BLOCK_CMD"), 0,
                               <<p>> \o (Two(off) \o Two(n)))
      OBVIOUS
    <2>2. /\ f \in Seq(Byte)
          /\ Len(f) >= 2
          /\ DataParser(f) = Frame("SEND_DATA_BLOCK_CMD", 0, off, n, <<>>)
      BY <2>1, BlockAnswerRead
    <2>3. "SEND_DATA_BLOCK_CMD" # "DEV_FINISH_RECV_DATA_CMD"
      OBVIOUS
    <2> QED
      BY <1>0, <1>1, <2>1, <2>2, <2>3, Zenon
  <1>5. ASSUME NEW cmd \in {"SEND_PACKAGE_ANSWER_CMD", "FINISH_SEND_DATA_CMD"},
               NEW rest \in Seq(Byte)
        PROVE  Legible(Message(AnswerTo(cmd), 0, rest))
    <2>1. PICK f : f = Message(AnswerTo(cmd), 0, rest)
      OBVIOUS
    <2>2. /\ f \in Seq(Byte)
          /\ Len(f) >= 2
          /\ Known(f) => DataParser(f) = Frame("FINISH_SEND_DATA_CMD", 0, 0, 0, <<>>)
      BY <2>1, LastAnswerRead
    <2>3. CASE Known(f)
      <3>1. DataParser(f) = Frame("FINISH_SEND_DATA_CMD", 0, 0, 0, <<>>)
        BY <2>2, <2>3, Zenon
      <3>2. DataParser(f).rc >= 0 /\ DataParser(f).off >= 0 /\ DataParser(f).len >= 0
        BY <3>1 DEF Frame
      <3>3. ASSUME Command(f) = Code("DEV_FINISH_RECV_DATA_CMD")
            PROVE  FALSE
        <4>1. DataParser(f) = Frame("DEV_FINISH_RECV_DATA_CMD", 0, 0, Field(f, 3),
                                    ContentOf(CrcField(f)))
          BY <3>3, ParserBranches, Zenon
        <4> QED
          BY <3>1, <4>1 DEF Frame
      <3> QED
        BY <2>1, <2>2, <3>2, <3>3, Zenon DEF Legible
    <2>4. CASE ~ Known(f)
      <3>1. Command(f) # Code("DEV_FINISH_RECV_DATA_CMD")
        BY <2>4, KnownFrame, Zenon DEF FrameCommands
      <3> QED
        BY <2>1, <2>2, <2>4, <3>1, Zenon DEF Legible
    <2> QED
      BY <2>3, <2>4, Zenon
  <1>6. ASSUME NEW m \in ReplyBytes, NEW block \in DeviceBlocks,
               NEW k \in 1 .. Len(FramesOf(m, block))
        PROVE  Legible(FramesOf(m, block)[k])
    <2>1. PICK f : f = FramesOf(m, block)[k]
      OBVIOUS
    <2>2. \E cmd, d : \E off \in Short, n \in Short :
              /\ f \in Seq(Byte)
              /\ Len(f) >= 2
              /\ DataParser(f) = Frame(cmd, 0, off, n, d)
              /\ cmd # "DEV_FINISH_RECV_DATA_CMD" \/ CrcField(f) \in Word
      <3>1. 0 \in Short /\ Len(Whole(m)) \in Short
        BY WholeForm DEF Short
      <3>2. \A j \in 1 .. Count(m, block) : (j - 1) * block \in Short
        BY BlocksCover, Zenon
      <3>3. Crc32Of(Whole(m)) \in Word
        BY CrcType, Zenon
      <3> QED
        BY <2>1, <3>1, <3>2, <3>3, FrameRead
    <2> QED
      BY <1>0, <1>1, <2>1, <2>2, Zenon
  <1> QED
    BY <1>3, <1>4, <1>5, <1>6, Zenon

\* That is so at every stage, and at all but three something is on its way.
LEMMA StagesTyped ==
    ASSUME WireInv
    PROVE  /\ OnAirTyped
           /\ Fresh \/ Stalled \/ Told \/ Moving
  <1>0. 0 \in Byte /\ Port \in Byte /\ <<>> \in Seq(Byte)
    BY WireAssumption DEF Byte
  <1>1. \A c \in Commands, b \in Byte, rest \in Seq(Byte) :
            Message(Code(c), b, rest) \in Seq(Byte) /\ Message(Code(c), b, rest) # <<>>
    BY PacketRead, Zenon
  <1>2. \A p : IsAck(p) => p \in Seq(Byte) /\ p # <<>>
    <2>1. Acknowledgements \subseteq Commands
      BY DEF Acknowledgements, Commands
    <2> QED
      BY <1>1, <2>1, Zenon DEF IsAck
  <1>3. (\A f : <<f>> # <<>>) /\ \A f, g : <<f, g>> # <<>>
    OBVIOUS
  <1>4. ASSUME NEW r \in Requests, Asks(r)
        PROVE  Size(r) \in Short
    BY <1>4, RequestSize DEF Asks
  <1>5. ASSUME NEW r \in Requests, SmallOnAir(r)
        PROVE  OnAirTyped /\ Moving
    <2>1. RequestBytes[r] \in Seq(Byte)
      BY WireAssumption
    <2>2. "SEND_PACKAGE_ANSWER_CMD" \in Commands
      BY DEF Commands
    <2>3. downlink \in Seq(Byte) /\ downlink # <<>>
      BY <1>0, <1>1, <1>5, <2>1, <2>2, Zenon DEF SmallOnAir
    <2> QED
      BY <1>5, <2>3, Zenon DEF SmallOnAir, OnAirTyped, Moving
  <1>6. ASSUME NEW r \in Requests, CreateOnAir(r)
        PROVE  OnAirTyped /\ Moving
    <2>1. Size(r) \in Short
      BY <1>4, <1>6 DEF CreateOnAir, AsksLarge
    <2>2. Two(Size(r)) \in Seq(Byte)
      <3>1. Size(r) \in Int
        BY <2>1 DEF Short
      <3> QED
        BY <3>1, TwoType, Zenon
    <2>3. "DEV_CREATE_BUFFER_CMD" \in Commands
      BY DEF Commands
    <2>4. downlink \in Seq(Byte) /\ downlink # <<>>
      BY <1>0, <1>1, <1>6, <2>2, <2>3, Zenon DEF CreateOnAir
    <2> QED
      BY <1>6, <2>4, Zenon DEF CreateOnAir, OnAirTyped, Moving
  <1>7. ASSUME NEW r \in Requests, CreateAnswered(r)
        PROVE  OnAirTyped /\ Moving
    <2>1. Size(r) \in Short
      BY <1>4, <1>7 DEF CreateAnswered, AsksLarge
    <2>2. Legible(Message(AnswerTo("DEV_CREATE_BUFFER_CMD"), 0, <<Port>> \o Two(Size(r))))
      BY <1>0, <2>1, AnswersLegible, Zenon
    <2> QED
      BY <1>0, <1>3, <1>7, <2>2, Zenon DEF CreateAnswered, OnAirTyped, Moving
  <1>8. ASSUME NEW r \in Requests, NEW pos \in Nat, BlockOnAir(r, pos)
        PROVE  OnAirTyped /\ Moving
    <2>1. AsksLarge(r) /\ Asks(r) /\ pos < Size(r)
      BY <1>8 DEF BlockOnAir, Blocks, AsksLarge
    <2>2. PICK d \in Seq(Byte) : d = SubSeq(Package(r), pos + 1, pos + Cut(r, pos))
      BY <2>1, BlockForm
    <2>3. pos \in Short
      BY <2>1, BlockForm
    <2>4. Two(pos) \o d \in Seq(Byte)
      <3>1. d \in Seq(Byte)
        BY <2>2
      <3> QED
        BY <2>3, <3>1, NumberRead, Zenon
    <2>5. "SEND_DATA_BLOCK_CMD" \in Commands
      BY DEF Commands
    <2>6. downlink \in Seq(Byte) /\ downlink # <<>>
      BY <1>0, <1>1, <1>8, <2>2, <2>4, <2>5, Zenon DEF BlockOnAir
    <2> QED
      BY <1>8, <2>6, Zenon DEF BlockOnAir, OnAirTyped, Moving
  <1>9. ASSUME NEW r \in Requests, NEW pos \in Nat, BlockAnswered(r, pos)
        PROVE  OnAirTyped /\ Moving
    <2>1. AsksLarge(r) /\ Asks(r) /\ pos < Size(r)
      BY <1>9 DEF BlockAnswered, Blocks, AsksLarge
    <2>2. pos \in Short /\ Cut(r, pos) \in Short
      BY <2>1, BlockForm
    <2>3. Legible(Message(AnswerTo("SEND_DATA_BLOCK_CMD"), 0,
                          <<Port>> \o (Two(pos) \o Two(Cut(r, pos)))))
      BY <1>0, <2>2, AnswersLegible, Zenon
    <2> QED
      BY <1>0, <1>3, <1>9, <2>3, Zenon DEF BlockAnswered, OnAirTyped, Moving
  <1>10. ASSUME NEW r \in Requests, CheckOnAir(r)
         PROVE  OnAirTyped /\ Moving
    <2>1. PICK t \in Seq(Byte) : t = Four(Crc32Of(Package(r)))
      BY CrcType, FourType, Zenon
    <2>2. Size(r) \in Short
      BY <1>4, <1>10 DEF CheckOnAir, AsksLarge
    <2>3. t \in Seq(Byte)
      BY <2>1
    <2>4. Two(Size(r)) \o t \in Seq(Byte)
      BY <2>2, <2>3, NumberRead, Zenon
    <2>5. "FINISH_SEND_DATA_CMD" \in Commands
      BY DEF Commands
    <2>6. downlink \in Seq(Byte) /\ downlink # <<>>
      BY <1>0, <1>1, <1>10, <2>1, <2>4, <2>5, Zenon DEF CheckOnAir
    <2> QED
      BY <1>10, <2>6, Zenon DEF CheckOnAir, OnAirTyped, Moving
  <1>11. ASSUME NEW m \in ReplyBytes, NEW block \in DeviceBlocks, FirstOnAir(m, block)
         PROVE  OnAirTyped /\ Moving
    <2>1. PICK frames \in Seq(Seq(Byte)) : frames = FramesOf(m, block) /\ Len(frames) > 0
      BY FramesType, Zenon
    <2>2. PICK g : g = Head(frames)
      OBVIOUS
    <2>3. 1 \in 1 .. Len(frames) /\ g = frames[1]
      BY <2>1, <2>2
    <2>4. Legible(g)
      BY <2>1, <2>3, AnswersLegible, Zenon
    <2>5. PICK cmd \in {"SEND_PACKAGE_ANSWER_CMD", "FINISH_SEND_DATA_CMD"},
               rest \in Seq(Byte) : uplink = <<Message(AnswerTo(cmd), 0, rest), g>>
      BY <1>11, <2>1, <2>2, Zenon DEF FirstOnAir
    <2>6. Legible(Message(AnswerTo(cmd), 0, rest))
      BY <2>5, AnswersLegible, Zenon
    <2> QED
      BY <1>0, <1>3, <1>11, <2>4, <2>5, <2>6, Zenon DEF FirstOnAir, OnAirTyped, Moving
  <1>12. ASSUME NEW m \in ReplyBytes, NEW block \in DeviceBlocks, NEW k \in Nat,
                FrameOnAir(m, block, k)
         PROVE  OnAirTyped /\ Moving
    <2>1. Legible(FramesOf(m, block)[k])
      BY <1>12, AnswersLegible, Zenon DEF FrameOnAir
    <2> QED
      BY <1>0, <1>3, <1>12, <2>1, Zenon DEF FrameOnAir, OnAirTyped, Moving
  <1>13. ASSUME NEW m \in ReplyBytes, NEW block \in DeviceBlocks, NEW k \in Nat,
                AckOnAir(m, block, k)
         PROVE  OnAirTyped /\ Moving
    BY <1>2, <1>13, Zenon DEF AckOnAir, OnAirTyped, Moving
  <1>14. Stalled => OnAirTyped
    BY <1>0, Zenon DEF Stalled, OnAirTyped
  <1>15. Told => OnAirTyped
    BY <1>0, <1>2, Zenon DEF Told, LastAck, OnAirTyped
  <1>16. CASE Asking
    <2>1. Fresh => OnAirTyped
      BY <1>0, Zenon DEF Fresh, OnAirTyped
    <2> QED
      BY <1>5, <1>6, <1>7, <1>8, <1>9, <1>10, <1>16, <2>1, Zenon DEF Asking
  <1>17. CASE Answering
    BY <1>11, <1>12, <1>13, <1>14, <1>15, <1>17, Zenon DEF Answering
  <1> QED
    BY <1>16, <1>17, Zenon DEF WireInv

\* What the device gets while it replies is the acknowledgement of the frame it
\* has sent last, for every reply, of any length, in frames of any size: what the
\* parser read in the frame has come back in the packet.
THEOREM AlwaysAcknowledged == WireSpec => []FramesAreAcknowledged
  <1>1. ASSUME NEW m \in ReplyBytes, NEW block \in DeviceBlocks, NEW k \in Nat,
               AckOnAir(m, block, k)
        PROVE  FramesAreAcknowledged
    <2>1. PICK s \in Seq(Seq(Byte)) : s = FramesOf(m, block)
      BY FramesType, Zenon
    <2>2. PICK n \in Nat : n = Len(s)
      BY <2>1
    <2>3. k \in 1 .. n - 1 /\ replyFrames = SubSeq(s, k + 1, n)
      BY <1>1, <2>1, <2>2, Zenon DEF AckOnAir
    <2>4. Len(replyFrames) = n - k
      <3>1. PICK a \in Nat : a = k + 1 /\ a \in 1 .. n
        BY <2>3
      <3>2. PICK t : t = SubSeq(s, a, n)
        OBVIOUS
      <3>3. Len(t) = n - a + 1
        BY <2>1, <2>2, <3>1, <3>2, SubSeqProperties
      <3>4. replyFrames = t
        BY <2>3, <3>1, <3>2, Zenon
      <3>5. n - a + 1 = n - k
        BY <3>1
      <3> QED
        BY <3>3, <3>4, <3>5, Zenon
    <2>5. n - (n - k) = k /\ k \in 1 .. n
      BY <2>3
    <2>6. reply = m /\ frameSize = block
      BY <1>1, Zenon DEF AckOnAir, Replies
    <2>7. downlink = Acknowledgement(s[k])
      BY <1>1, <2>1, Zenon DEF AckOnAir
    <2> QED
      BY <2>1, <2>2, <2>4, <2>5, <2>6, <2>7, Zenon DEF FramesAreAcknowledged
  <1>2. ASSUME Told
        PROVE  FramesAreAcknowledged
    <2>1. reply \in ReplyBytes /\ frameSize \in DeviceBlocks /\ replyFrames = <<>>
      BY <1>2, Zenon DEF Told
    <2>2. PICK s \in Seq(Seq(Byte)) : s = FramesOf(reply, frameSize) /\ Len(s) > 0
      BY <2>1, FramesType, Zenon
    <2>3. PICK n \in Nat : n = Len(s) /\ n > 0
      BY <2>2
    <2>4. PICK e \in Nat : e = Len(<<>>) /\ e = 0
      OBVIOUS
    <2>5. n - e = n /\ n \in 1 .. n
      BY <2>3, <2>4
    <2>6. downlink = <<>> \/ downlink = Acknowledgement(s[n])
      BY <1>2, <2>2, <2>3, Zenon DEF Told, LastAck
    <2> QED
      BY <2>1, <2>2, <2>3, <2>4, <2>5, <2>6, Zenon DEF FramesAreAcknowledged
  <1>3. ASSUME Asking
        PROVE  reply = <<>>
    BY <1>3 DEF Asking, Fresh, SmallOnAir, CreateOnAir, CreateAnswered, BlockOnAir,
                BlockAnswered, CheckOnAir, Blocks, AsksLarge, Asks
  <1>4. ASSUME NEW m \in ReplyBytes, NEW block \in DeviceBlocks, NEW k \in Nat,
               FirstOnAir(m, block) \/ FrameOnAir(m, block, k)
        PROVE  downlink = <<>>
    BY <1>4, Zenon DEF FirstOnAir, FrameOnAir
  <1>5. Stalled => downlink = <<>>
    BY Zenon DEF Stalled
  <1>6. reply = <<>> \/ downlink = <<>> => FramesAreAcknowledged
    BY Zenon DEF FramesAreAcknowledged
  <1>7. 0 \in Nat
    OBVIOUS
  <1>8. WireInv => FramesAreAcknowledged
    BY <1>1, <1>2, <1>3, <1>4, <1>5, <1>6, <1>7, Zenon DEF WireInv, Answering
  <1> QED
    BY <1>8, WireInductive, PTL

\* dataParser looks at no length, and reads none of its bytes behind the end of a
\* frame of the protocol: the code, the result or third byte, the fields, the CRC.
THEOREM AlwaysReadsWithinFrame == WireSpec => []ReadsWithinFrame
  <1>1. ASSUME NEW s, NEW f, s = <<f>>
        PROVE  Head(s) = f
    BY <1>1
  <1>2. ASSUME NEW s, NEW f, NEW g, s = <<f, g>>
        PROVE  Head(s) = f
    BY <1>2
  <1>3. OnAirTyped /\ uplink # <<>> => Legible(Head(uplink))
    BY <1>1, <1>2, Zenon DEF OnAirTyped
  <1>4. WireInv => ReadsWithinFrame
    BY <1>3, StagesTyped, Zenon DEF Legible, ReadsWithinFrame
  <1> QED
    BY <1>4, WireInductive, PTL

\* What the stages say of the two sides.
LEMMA StagesDeliver ==
    ASSUME WireInv
    PROVE  /\ delivered = <<>> \/ delivered = RequestBytes[request]
           /\ told = <<>> \/ told = reply
  BY DEF WireInv, Asking, Answering, Fresh, SmallOnAir, CreateOnAir, CreateAnswered,
         BlockOnAir, BlockAnswered, CheckOnAir, Asks, AsksLarge, Blocks, FirstOnAir,
         FrameOnAir, AckOnAir, Replies, Stalled, Told

\* The device's port gets the application's bytes.
THEOREM AlwaysRequestArrives == WireSpec => []RequestArrives
  <1>1. WireInv => RequestArrives
    BY StagesDeliver, Zenon DEF RequestArrives
  <1> QED
    BY <1>1, WireInductive, PTL

\* The application gets the meter's bytes.
THEOREM AlwaysReplyArrives == WireSpec => []ReplyArrives
  <1>1. WireInv => ReplyArrives
    BY StagesDeliver, Zenon DEF ReplyArrives
  <1> QED
    BY <1>1, WireInductive, PTL

\* An exchange that has come to its end has come to a reply, or to a frame the
\* parser took for something else.
THEOREM AlwaysAnswered == WireSpec => []EveryRequestIsAnswered
  <1>1. \A r \in ReplyBytes : r # <<>>
    BY WholeForm, Zenon
  <1>2. WireInv => EveryRequestIsAnswered
    BY <1>1, StagesTyped, Zenon DEF Fresh, Stalled, Told, Moving, EveryRequestIsAnswered
  <1> QED
    BY <1>2, WireInductive, PTL

=============================================================================
