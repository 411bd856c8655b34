-------------------------- MODULE WireFormatsProofs --------------------------
(***************************************************************************)
(* Requests and numbers that wrap around, for every size of the number     *)
(* space, every batch and every two numbers, and the headers of FEC        *)
(* packets, for every mask.                                                *)
(***************************************************************************)
EXTENDS WireFormats, NackPackProofs

\* The masks of FEC packets: 16 bits, or 48.
ShortMask == [0 .. 15 -> {0, 1}]
LongMask == [0 .. 47 -> {0, 1}]

\* The inputs that are taken.
SampleTyped ==
  /\ sample.kind = "batch" => sample.batch \in SUBSET Numbers
  /\ sample.kind = "numbers" => sample.last \in Nat /\ sample.value \in 0 .. NumberSpace - 1
  /\ sample.kind = "header" => sample.mask \in ShortMask \cup LongMask

\* The inputs are well typed.
LEMMA SamplesTyped == SampleSpec => []SampleTyped
<1>1. sample = NoSample => SampleTyped
  BY DEF NoSample, SampleTyped
<1>2. SampleTyped /\ [Sampling]_sample => SampleTyped'
  <2> SUFFICES ASSUME SampleTyped, [Sampling]_sample PROVE SampleTyped'
    OBVIOUS
  <2>1. CASE UNCHANGED sample
    BY <2>1 DEF SampleTyped
  <2>2. CASE SampleNumbers
    <3>1. PICK last \in 0 .. 3 * NumberSpace - 1, value \in 0 .. NumberSpace - 1 :
            sample' = [kind |-> "numbers", last |-> last, value |-> value]
      BY <2>2 DEF SampleNumbers
    <3>2. last \in Nat
      BY FormatsAssumption
    <3> QED
      BY <3>1, <3>2 DEF SampleTyped
  <2>3. CASE SampleBatch
    BY <2>3 DEF SampleBatch, SampleTyped, Numbers
  <2>4. CASE SampleMask
    BY <2>4 DEF SampleMask, SampleTyped
  <2>5. CASE SampleGaps
    BY <2>5 DEF SampleGaps, SampleTyped
  <2>6. CASE SampleHeader
    <3>0. ASSUME NEW bytes PROVE RunMasks(bytes) \subseteq [0 .. 8 * bytes - 1 -> {0, 1}]
      BY DEF RunMasks
    <3>1. RunMasks(2) \subseteq ShortMask
      <4>1. 8 * 2 - 1 = 15
        OBVIOUS
      <4>2. RunMasks(2) \subseteq [0 .. 8 * 2 - 1 -> {0, 1}]
        BY <3>0
      <4> QED
        BY <4>1, <4>2 DEF ShortMask
    <3>2. RunMasks(6) \subseteq LongMask
      <4>1. 8 * 6 - 1 = 47
        OBVIOUS
      <4>2. RunMasks(6) \subseteq [0 .. 8 * 6 - 1 -> {0, 1}]
        BY <3>0
      <4> QED
        BY <4>1, <4>2 DEF LongMask
    <3>3. PICK bytes \in {2, 6}, base \in {0, 65535} :
            \E mask \in RunMasks(bytes) :
              sample' = [kind |-> "header", base |-> base, mask |-> mask]
      BY <2>6 DEF SampleHeader
    <3> PICK mask \in RunMasks(bytes) :
          sample' = [kind |-> "header", base |-> base, mask |-> mask]
      BY <3>3
    <3>4. mask \in ShortMask \cup LongMask
      BY <3>1, <3>2
    <3> QED
      BY <3>4 DEF SampleTyped
  <2>7. CASE SampleExtension
    BY <2>7 DEF SampleExtension, SampleTyped
  <2>8. CASE SampleBytes
    BY <2>8 DEF SampleBytes, SampleTyped
  <2> QED
    BY <2>1, <2>2, <2>3, <2>4, <2>5, <2>6, <2>7, <2>8 DEF Sampling
<1> QED
  BY <1>1, <1>2, PTL DEF SampleSpec

\* What Pack::packing_nack makes of a batch, Pack::unpacking_nack gives back:
\* nothing else, the lowest numbers if the message is full, in as few items as
\* possible.
THEOREM RequestsAreExact == SampleSpec => []RequestsExact
<1>1. SampleTyped => RequestsExact
  BY PackingExact DEF SampleTyped, RequestsExact
<1> QED
  BY <1>1, SamplesTyped, PTL

-----------------------------------------------------------------------------
(* Numbers that wrap around.                                               *)

\* IsNewer, from the difference of two numbers.
LEMMA NewerIs ==
  ASSUME NEW M \in Nat \ {0}, M % 2 = 0, NEW a \in 0 .. M - 1, NEW b \in 0 .. M - 1
  PROVE  IsNewer(a, b, M) <=> \/ a > b /\ a - b <= M \div 2
                              \/ a < b /\ b - a > M \div 2
<1> DEFINE d == a - b
<1>1. d \in Int /\ -M <= d /\ d < M + M /\ d < M
  OBVIOUS
<1>2. d % M = IF d < 0 THEN d + M ELSE IF d < M THEN d ELSE d - M
  <2> HIDE DEF d
  <2> QED
    BY <1>1, NearRemainder
<1>3. (a - b) % M = IF a - b < 0 THEN a - b + M ELSE a - b
  BY <1>1, <1>2
<1> QED
  BY <1>3 DEF IsNewer

\* The distances on the circle.
LEMMA CircleDistances ==
  ASSUME NEW M \in Nat \ {0}, NEW a \in 0 .. M - 1, NEW b \in 0 .. M - 1
  PROVE  /\ ModAdd(a, ForwardDiff(a, b, M), M) = b
         /\ ModSubtract(a, ReverseDiff(a, b, M), M) = b
<1> DEFINE f == ForwardDiff(a, b, M)
           g == ReverseDiff(a, b, M)
<1>1. f \in 0 .. M - 1 /\ f = (IF a <= b THEN b - a ELSE M - (a - b))
  BY DEF ForwardDiff
<1>2. g \in 0 .. M - 1 /\ g = (IF b <= a THEN a - b ELSE M - (b - a))
  BY DEF ReverseDiff
<1> HIDE DEF f, g
<1>3. f % M = f /\ g % M = g
  <2>1. /\ f \in Int /\ -M <= f /\ f < M + M /\ ~(f < 0) /\ f < M
        /\ g \in Int /\ -M <= g /\ g < M + M /\ ~(g < 0) /\ g < M
    BY <1>1, <1>2
  <2> QED
    BY <2>1, NearRemainder
<1>4. ModAdd(a, f, M) = b
  BY <1>1, <1>3 DEF ModAdd
<1>5. ModSubtract(a, g, M) = b
  BY <1>2, <1>3 DEF ModSubtract
<1> QED
  BY <1>4, <1>5 DEF f, g

\* A sum that goes around the circle any number of times.
LEMMA CircleSum ==
  ASSUME NEW M \in Nat \ {0}, NEW q \in Int, NEW a \in 0 .. M - 1,
         NEW last \in Int, last = M * q + a
  PROVE  ModAdd(a, last, M) = (a + last) % M
<1>1. last % M = a
  BY RemainderUnique
<1>2. (a + last) % M = (a + a) % M
  <2>1. a + last = (a + a) + M * q /\ a + last \in Int /\ a + a \in Int
    OBVIOUS
  <2> QED
    BY <2>1, SameRemainder
<1>3. (a + a) % M = IF a + a < M THEN a + a ELSE a + a - M
  <2> DEFINE d == a + a
  <2>1. d \in Int /\ -M <= d /\ d < M + M /\ ~(d < 0)
    OBVIOUS
  <2> HIDE DEF d
  <2>2. d % M = IF d < M THEN d ELSE d - M
    BY <2>1, NearRemainder
  <2> QED
    BY <2>2 DEF d
<1>4. ModAdd(a, last, M) = IF M - a > a THEN a - (M - a) + M ELSE a - (M - a)
  BY <1>1 DEF ModAdd
<1> QED
  BY <1>2, <1>3, <1>4

\* The unwrapped number.
LEMMA UnwrapIs ==
  ASSUME NEW M \in Nat \ {0}, M % 2 = 0, NEW last \in Nat, NEW b \in 0 .. M - 1,
         NEW u, u = Unwrap(last, b, M)
  PROVE  /\ u >= 0 /\ u % M = b
         /\ u >= M => u - M <= last - (u - last)
         /\ u <= last => last - u <= u + M - last
<1>1. PICK q \in Int, a \in 0 .. M - 1 : last = M * q + a /\ last % M = a
  <2>1. last \in Int
    OBVIOUS
  <2> QED
    BY <2>1, Remainder
<1>2. IsNewer(b, a, M) <=> \/ b > a /\ b - a <= M \div 2
                           \/ b < a /\ a - b > M \div 2
  BY NewerIs
<1> DEFINE delta == b - a
<1>3. u = last + (IF IsNewer(b, a, M)
                    THEN IF delta < 0 THEN delta + M ELSE delta
                    ELSE IF delta > 0 /\ last + delta - M >= 0 THEN delta - M ELSE delta)
  BY <1>1 DEF Unwrap
<1>4. q >= 0
  <2> SUFFICES ASSUME q <= -1 PROVE FALSE
    OBVIOUS
  <2>1. M * (-q - 1) >= 0 /\ M * (-q - 1) = -(M * q) - M
    OBVIOUS
  <2> QED
    BY <1>1, <2>1
<1>5. M * q >= 0 /\ M * q \in Int
  BY <1>4
<1>6. u \in Int /\ u >= 0
  BY <1>1, <1>2, <1>3, <1>5
<1>7. \E k \in {-1, 0, 1} : u = last + delta + k * M
  BY <1>3
<1>8. u % M = b
  <2>1. PICK k \in {-1, 0, 1} : u = last + delta + k * M
    BY <1>7
  <2>2. u = b + M * (q + k) /\ q + k \in Int
    BY <1>1, <2>1
  <2>3. u % M = b % M
    <3>1. b \in Int
      OBVIOUS
    <3> QED
      BY <1>6, <2>2, <3>1, SameRemainder
  <2>4. b % M = b
    <3>1. b \in Int /\ -M <= b /\ b < M + M /\ ~(b < 0) /\ b < M
      OBVIOUS
    <3> QED
      BY <3>1, NearRemainder
  <2> QED
    BY <2>3, <2>4
<1>9. u >= M => u - M <= last - (u - last)
  BY <1>1, <1>2, <1>3, <1>5
<1>10. u <= last => last - u <= u + M - last
  BY <1>1, <1>2, <1>3, <1>5
<1> QED
  BY <1>6, <1>8, <1>9, <1>10

\* The comparison of numbers is total, the distances on the circle agree with
\* the sums, and Unwrapper finds the nearest number for a value.
THEOREM NumbersAreOrdered == SampleSpec => []NumbersWrap
<1>1. SampleTyped => NumbersWrap
  <2> SUFFICES ASSUME sample.last \in Nat, sample.value \in 0 .. NumberSpace - 1
               PROVE  NumbersWrap
    BY DEF SampleTyped, NumbersWrap
  <2> DEFINE M == NumberSpace
             last == sample.last
             a == last % M
             b == sample.value
             u == Unwrap(last, b, M)
  <2>1. M \in Nat \ {0} /\ M % 2 = 0
    BY FormatsAssumption
  <2>2. PICK l, c, v, w : l = last /\ c = a /\ v = b /\ w = u
    OBVIOUS
  <2>0. l \in Nat /\ v \in 0 .. M - 1
    BY <2>2
  <2> HIDE DEF M, last, a, b, u
  <2>3. /\ c \in 0 .. M - 1
        /\ ModAdd(c, ForwardDiff(c, v, M), M) = v
        /\ ModSubtract(c, ReverseDiff(c, v, M), M) = v
        /\ ModAdd(c, l, M) = (c + l) % M
    <3>1. PICK q \in Int, r \in 0 .. M - 1 : l = M * q + r /\ l % M = r
      <4>1. l \in Int
        BY <2>0
      <4> QED
        BY <2>1, <4>1, Remainder
    <3>2. c = r
      BY <2>2, <3>1 DEF a
    <3>3. ModAdd(r, l, M) = (r + l) % M
      <4>1. PICK N : N = M
        OBVIOUS
      <4>2. N \in Nat \ {0} /\ l \in Int /\ l = N * q + r /\ r \in 0 .. N - 1
        BY <2>0, <2>1, <3>1, <4>1
      <4>3. ModAdd(r, l, N) = (r + l) % N
        BY <4>2, CircleSum, Zenon
      <4> QED
        BY <4>1, <4>3
    <3> QED
      BY <2>0, <2>1, <3>2, <3>3, CircleDistances
  <2>4. /\ w >= 0 /\ w % M = v
        /\ w >= M => w - M <= l - (w - l)
        /\ w <= l => l - w <= w + M - l
    BY <2>0, <2>1, <2>2, UnwrapIs DEF u
  <2>5. /\ IsNewer(c, v, M) <=> \/ c > v /\ c - v <= M \div 2
                                \/ c < v /\ v - c > M \div 2
        /\ IsNewer(v, c, M) <=> \/ v > c /\ v - c <= M \div 2
                                \/ v < c /\ c - v > M \div 2
    BY <2>0, <2>1, <2>3, NewerIs
  <2>6. c # v => IsNewer(c, v, M) # IsNewer(v, c, M)
    BY <2>0, <2>1, <2>3, <2>5
  <2>7. IsNewer(c, v, M) => LatestSequenceNumber(c, v, M) = c
    BY DEF LatestSequenceNumber
  <2>8. IsNewer(c, v, M) => LatestSequenceNumber(v, c, M) = c
    <3>1. IsNewer(c, v, M) => ~IsNewer(v, c, M)
      BY <2>0, <2>1, <2>3, <2>5
    <3> QED
      BY <3>1 DEF LatestSequenceNumber
  <2>9. IsNewer(v, c, M) => MinDiff(c, v, M) = ForwardDiff(c, v, M)
    BY <2>0, <2>1, <2>3, <2>5 DEF MinDiff, ForwardDiff, ReverseDiff
  <2> QED
    BY <2>2, <2>3, <2>4, <2>6, <2>7, <2>8, <2>9 DEF NumbersWrap, M, last, a, b, u
<1> QED
  BY <1>1, SamplesTyped, PTL

-----------------------------------------------------------------------------
(* FEC headers.                                                            *)

\* A packet as GenerateFecPayloads leaves it.
Blank(length, area) ==
  [length |-> length, r |-> 1, f |-> 1, ssrcCount |-> 0, ssrc |-> 0, base |-> 0,
   e |-> 1, l |-> 0, at2 |-> -1, at8 |-> 0, at10 |-> 0, area |-> area]

\* What a FlexFEC header with one, two and three parts has on the wire.
OnePart(mask) ==
  [bit \in 0 .. 111 |-> IF bit = 0 THEN 1 ELSE IF bit <= 15 THEN mask[bit - 1] ELSE Payload]
TwoParts(mask) ==
  [bit \in 0 .. 111 |->
     IF bit = 0 THEN 0 ELSE IF bit <= 15 THEN mask[bit - 1]
     ELSE IF bit = 16 THEN 1 ELSE IF bit = 17 THEN mask[15]
     ELSE IF bit <= 47 THEN (IF mask \in LongMask THEN mask[bit - 2] ELSE 0)
     ELSE Payload]
ThreeParts(mask) ==
  [bit \in 0 .. 111 |->
     IF bit \in {0, 16} THEN 0 ELSE IF bit <= 15 THEN mask[bit - 1]
     ELSE IF bit <= 47 THEN mask[bit - 2]
     ELSE IF bit = 48 THEN 1 ELSE IF bit <= 50 THEN mask[bit - 3] ELSE 0]
WrittenParts(mask) ==
  CASE MinPacketMaskSize(mask) = 2 -> OnePart(mask)
    [] MinPacketMaskSize(mask) = 6 -> TwoParts(mask)
    [] MinPacketMaskSize(mask) = 14 -> ThreeParts(mask)

\* The sizes of masks.
LEMMA MaskWidths ==
  /\ \A mask \in ShortMask : DOMAIN mask = 0 .. 15 /\ Cardinality(DOMAIN mask) = 16
  /\ \A mask \in LongMask : DOMAIN mask = 0 .. 47 /\ Cardinality(DOMAIN mask) = 48
<1>1. Cardinality(0 .. 15) = 16
  <2>1. 0 \in Int /\ 15 \in Int /\ ~(0 > 15) /\ 15 - 0 + 1 = 16
    OBVIOUS
  <2> QED
    BY <2>1, FS_Interval
<1>2. Cardinality(0 .. 47) = 48
  <2>1. 0 \in Int /\ 47 \in Int /\ ~(0 > 47) /\ 47 - 0 + 1 = 48
    OBVIOUS
  <2> QED
    BY <2>1, FS_Interval
<1> QED
  BY <1>1, <1>2 DEF ShortMask, LongMask

\* MinPacketMaskSize, for either width.
LEMMA MinSizes ==
  /\ \A mask \in ShortMask : MinPacketMaskSize(mask) = IF mask[15] = 0 THEN 2 ELSE 6
  /\ \A mask \in LongMask :
       MinPacketMaskSize(mask) = IF mask[46] = 0 /\ mask[47] = 0 THEN 6 ELSE 14
BY MaskWidths DEF MinPacketMaskSize

\* No mask is of both widths.
LEMMA WidthsDiffer == \A mask \in ShortMask : mask \notin LongMask
<1>1. ASSUME NEW mask \in ShortMask, mask \in LongMask PROVE FALSE
  BY <1>1, MaskWidths
<1> QED
  BY <1>1

\* The bits that FlexfecHeaderWriter::FinalizeFecHeader writes.
LEMMA FlexfecBits ==
  ASSUME NEW mask \in ShortMask \cup LongMask, NEW base, NEW length,
         NEW area, area = BlankArea(MinPacketMaskSize(mask)),
         NEW wire, wire = FlexfecFinalizeFecHeader(7, base, mask, Blank(length, area))
  PROVE  /\ wire.area = WrittenParts(mask)
         /\ wire.length = length /\ wire.r = 0 /\ wire.f = 0 /\ wire.ssrcCount = 1
         /\ wire.ssrc = 7 /\ wire.base = base
<1> DEFINE shifted == Shifted(mask)
           three == [bit \in 0 .. 111 |->
                       IF bit <= 47 THEN shifted[bit] ELSE IF bit = 48 THEN 1
                       ELSE IF bit \in {49, 50} THEN mask[bit - 3] ELSE 0]
           short == Cardinality(DOMAIN mask) = 16
           packet == Blank(length, area)
           bits == IF short /\ mask[15] = 0
                     THEN Overwritten(packet.area, 0, 15, [shifted EXCEPT ![0] = 1])
                   ELSE IF short \/ (mask[46] = 0 /\ mask[47] = 0)
                     THEN Overwritten(packet.area, 0, 47, [shifted EXCEPT ![16] = 1])
                     ELSE Overwritten(packet.area, 0, 111, three)
<1>1. wire = [packet EXCEPT !.r = 0, !.f = 0, !.ssrcCount = 1, !.ssrc = 7,
                            !.base = base, !.area = bits]
  BY DEF FlexfecFinalizeFecHeader
<1>2. packet.area = area
  BY DEF Blank
<1>3. /\ wire.area = bits
      /\ wire.length = length /\ wire.r = 0 /\ wire.f = 0 /\ wire.ssrcCount = 1
      /\ wire.ssrc = 7 /\ wire.base = base
  <2> HIDE DEF bits
  <2> QED
    BY ONLY <1>1 DEF Blank
<1>4. shifted = [bit \in 0 .. 47 |->
        IF bit \in 1 .. 15 THEN mask[bit - 1]
        ELSE IF bit = 17 THEN mask[15]
        ELSE IF bit \in 18 .. 47 /\ mask \in LongMask THEN mask[bit - 2]
        ELSE 0]
  BY MaskWidths DEF Shifted
<1> HIDE DEF shifted
<1>5. CASE mask \in ShortMask /\ mask[15] = 0
  <2>1. MinPacketMaskSize(mask) = 2 /\ short
    BY <1>5, MinSizes, MaskWidths
  <2>2. area = [bit \in 0 .. 111 |-> IF bit < 16 THEN 0 ELSE Payload]
    BY <2>1 DEF BlankArea
  <2>3. bits = Overwritten(area, 0, 15, [shifted EXCEPT ![0] = 1])
    BY <1>2, <1>5, <2>1
  <2>4. bits = [bit \in 0 .. 111 |-> IF bit \in 0 .. 15 THEN [shifted EXCEPT ![0] = 1][bit] ELSE area[bit]]
    BY <2>2, <2>3 DEF Overwritten
  <2>5. \A bit \in 0 .. 111 : bits[bit] = OnePart(mask)[bit]
    <3>1. DOMAIN shifted = 0 .. 47
      BY <1>4
    <3>2. \A bit \in 0 .. 47 : [shifted EXCEPT ![0] = 1][bit] = IF bit = 0 THEN 1 ELSE shifted[bit]
      BY <3>1
    <3>3. \A bit \in 0 .. 111 : bits[bit] = IF bit <= 15 THEN IF bit = 0 THEN 1 ELSE shifted[bit] ELSE area[bit]
      <4> HIDE DEF bits
      <4> QED
        BY <2>4, <3>2
    <3> HIDE DEF bits
    <3> QED
      BY <1>4, <2>2, <3>3 DEF OnePart
  <2>6. bits = OnePart(mask)
    <3> HIDE DEF bits
    <3> QED
      BY <2>4, <2>5 DEF OnePart
  <2>7. WrittenParts(mask) = OnePart(mask)
    BY <2>1 DEF WrittenParts
  <2> QED
    BY <1>3, <2>6, <2>7
<1>6. CASE (mask \in ShortMask /\ mask[15] # 0) \/ (mask \in LongMask /\ mask[46] = 0 /\ mask[47] = 0)
  <2>1. MinPacketMaskSize(mask) = 6 /\ (short <=> mask \in ShortMask)
    BY <1>6, MinSizes, MaskWidths
  <2>2. area = [bit \in 0 .. 111 |-> IF bit < 48 THEN 0 ELSE Payload]
    BY <2>1 DEF BlankArea
  <2>3. bits = Overwritten(area, 0, 47, [shifted EXCEPT ![16] = 1])
    BY <1>2, <1>6, <2>1, WidthsDiffer
  <2>4. bits = [bit \in 0 .. 111 |-> IF bit \in 0 .. 47 THEN [shifted EXCEPT ![16] = 1][bit] ELSE area[bit]]
    BY <2>2, <2>3 DEF Overwritten
  <2>5. \A bit \in 0 .. 111 : bits[bit] = TwoParts(mask)[bit]
    <3>1. DOMAIN shifted = 0 .. 47
      BY <1>4
    <3>2. \A bit \in 0 .. 47 : [shifted EXCEPT ![16] = 1][bit] = IF bit = 16 THEN 1 ELSE shifted[bit]
      BY <3>1
    <3>3. \A bit \in 0 .. 111 : bits[bit] = IF bit <= 47 THEN IF bit = 16 THEN 1 ELSE shifted[bit] ELSE area[bit]
      <4> HIDE DEF bits
      <4> QED
        BY <2>4, <3>2
    <3> HIDE DEF bits
    <3> QED
      BY <1>4, <2>2, <3>3 DEF TwoParts
  <2>6. bits = TwoParts(mask)
    <3> HIDE DEF bits
    <3> QED
      BY <2>4, <2>5 DEF TwoParts
  <2>7. WrittenParts(mask) = TwoParts(mask)
    BY <2>1 DEF WrittenParts
  <2> QED
    BY <1>3, <2>6, <2>7
<1>7. CASE mask \in LongMask /\ ~(mask[46] = 0 /\ mask[47] = 0)
  <2>1. MinPacketMaskSize(mask) = 14 /\ ~short
    BY <1>7, MinSizes, MaskWidths
  <2>2. area = [bit \in 0 .. 111 |-> 0]
    <3>1. area = [bit \in 0 .. 111 |-> IF bit < 112 THEN 0 ELSE Payload]
      BY <2>1 DEF BlankArea
    <3> QED
      BY <3>1
  <2>3. bits = Overwritten(area, 0, 111, three)
    BY <1>2, <1>7, <2>1
  <2>4. bits = [bit \in 0 .. 111 |-> IF bit \in 0 .. 111 THEN three[bit] ELSE area[bit]]
    BY <2>2, <2>3 DEF Overwritten
  <2>5. \A bit \in 0 .. 111 : bits[bit] = ThreeParts(mask)[bit]
    BY <1>4, <1>7, <2>4 DEF ThreeParts
  <2>6. bits = ThreeParts(mask)
    <3> HIDE DEF bits
    <3> QED
      BY <2>4, <2>5 DEF ThreeParts
  <2>7. WrittenParts(mask) = ThreeParts(mask)
    BY <2>1 DEF WrittenParts
  <2> QED
    BY <1>3, <2>6, <2>7
<1> QED
  BY <1>5, <1>6, <1>7

\* The bits of a header that are the payload's.
LEMMA FlexfecPayload ==
  ASSUME NEW mask \in ShortMask \cup LongMask
  PROVE  {bit \in DOMAIN WrittenParts(mask) : WrittenParts(mask)[bit] = Payload}
           = 8 * MinPacketMaskSize(mask) .. 111
<1>1. \A bit \in DOMAIN mask : mask[bit] \in {0, 1}
  BY DEF ShortMask, LongMask
<1>2. CASE mask \in ShortMask /\ mask[15] = 0
  <2>1. MinPacketMaskSize(mask) = 2 /\ DOMAIN mask = 0 .. 15
    BY <1>2, MinSizes, MaskWidths
  <2>2. WrittenParts(mask) = OnePart(mask)
    BY <2>1 DEF WrittenParts
  <2> QED
    BY <1>1, <2>1, <2>2, PayloadAssumption DEF OnePart
<1>3. CASE (mask \in ShortMask /\ mask[15] # 0) \/ (mask \in LongMask /\ mask[46] = 0 /\ mask[47] = 0)
  <2>1. /\ MinPacketMaskSize(mask) = 6 /\ 0 .. 15 \subseteq DOMAIN mask
        /\ mask \in LongMask => DOMAIN mask = 0 .. 47
    BY <1>3, MinSizes, MaskWidths
  <2>2. WrittenParts(mask) = TwoParts(mask)
    BY <2>1 DEF WrittenParts
  <2>3. \A bit \in 0 .. 47 : TwoParts(mask)[bit] \in {0, 1}
    BY <1>1, <2>1 DEF TwoParts
  <2>4. \A bit \in 48 .. 111 : TwoParts(mask)[bit] = Payload
    BY DEF TwoParts
  <2>5. DOMAIN TwoParts(mask) = 0 .. 111
    BY DEF TwoParts
  <2> QED
    BY <2>1, <2>2, <2>3, <2>4, <2>5, PayloadAssumption
<1>4. CASE mask \in LongMask /\ ~(mask[46] = 0 /\ mask[47] = 0)
  <2>1. MinPacketMaskSize(mask) = 14 /\ DOMAIN mask = 0 .. 47
    BY <1>4, MinSizes, MaskWidths
  <2>2. WrittenParts(mask) = ThreeParts(mask)
    BY <2>1 DEF WrittenParts
  <2>3. \A bit \in 0 .. 111 : ThreeParts(mask)[bit] \in {0, 1}
    BY <1>1, <2>1 DEF ThreeParts
  <2>4. DOMAIN ThreeParts(mask) = 0 .. 111
    BY DEF ThreeParts
  <2> QED
    BY <2>1, <2>2, <2>3, <2>4, PayloadAssumption
<1> QED
  BY <1>2, <1>3, <1>4

\* What FlexfecHeaderReader::ReadFecHeader finds in such a header, and that it
\* refuses one that is cut short.
LEMMA FlexfecReads ==
  ASSUME NEW mask \in ShortMask \cup LongMask, NEW packet, NEW length \in Int,
         packet.area = WrittenParts(mask), packet.length = length, packet.r = 0,
         packet.f = 0, packet.ssrcCount = 1,
         NEW header, header = FlexfecReadFecHeader(packet)
  PROVE  /\ length = FlexfecHeaderSize(MinPacketMaskSize(mask)) + 4 =>
              /\ header.ok /\ header.base = packet.base /\ header.ssrc = packet.ssrc
              /\ header.protectionLength = 4
              /\ \A bit \in DOMAIN header.mask : header.mask[bit] # Payload
              /\ Protected(header.mask) = Protected(mask)
         /\ length = FlexfecHeaderSize(MinPacketMaskSize(mask)) - 1 => ~header.ok
<1> DEFINE w      == packet.area
           size   == IF w[0] = 1 THEN 2 ELSE IF w[16] = 1 THEN 6 ELSE 14
           part0  == [bit \in 0 .. 15 |-> IF bit <= 14 THEN w[bit + 1] ELSE 0]
           part1  == [bit \in 0 .. 47 |->
                        IF bit <= 14 THEN w[bit + 1] ELSE IF bit = 15 THEN w[17]
                        ELSE IF bit <= 45 THEN w[bit + 2] ELSE 0]
           part2  == [bit \in 0 .. 111 |->
                        IF bit <= 45 THEN part1[bit] ELSE IF bit <= 108 THEN w[bit + 3] ELSE 0]
           found  == CASE size = 2 -> part0 [] size = 6 -> part1 [] size = 14 -> part2
           bad    == \/ packet.length <= kBaseHeaderSize + kStreamSpecificHeaderSize
                     \/ packet.r = 1 \/ packet.f = 1 \/ packet.ssrcCount # 1
                     \/ packet.length < FlexfecHeaderSize(2)
                     \/ w[0] = 0 /\ packet.length < FlexfecHeaderSize(6)
                     \/ w[0] = 0 /\ w[16] = 0 /\ (packet.length < FlexfecHeaderSize(14) \/ w[48] = 0)
           good   == [ok |-> TRUE, headerSize |-> FlexfecHeaderSize(size), ssrc |-> packet.ssrc,
                      base |-> packet.base, mask |-> found,
                      protectionLength |-> packet.length - FlexfecHeaderSize(size)]
<1>1. header = IF bad THEN Malformed ELSE good
  BY DEF FlexfecReadFecHeader
<1>2. ~Malformed.ok
  BY DEF Malformed
<1>3. /\ good.ok /\ good.base = packet.base /\ good.ssrc = packet.ssrc /\ good.mask = found
      /\ good.protectionLength = packet.length - FlexfecHeaderSize(size)
  <2> HIDE DEF found, size
  <2> QED
    OBVIOUS
<1>4. FlexfecHeaderSize(2) = 20 /\ FlexfecHeaderSize(6) = 24 /\ FlexfecHeaderSize(14) = 32
  BY DEF FlexfecHeaderSize, kBaseHeaderSize, kStreamSpecificHeaderSize
<1>5. \A bit \in DOMAIN mask : mask[bit] \in {0, 1}
  BY DEF ShortMask, LongMask
<1>6. kBaseHeaderSize + kStreamSpecificHeaderSize = 18
  BY DEF kBaseHeaderSize, kStreamSpecificHeaderSize
<1> DEFINE Same(bits) == /\ \A bit \in DOMAIN bits : bits[bit] # Payload
                         /\ Protected(bits) = Protected(mask)
<1>7. SUFFICES /\ size = MinPacketMaskSize(mask) /\ Same(found)
               /\ length = FlexfecHeaderSize(MinPacketMaskSize(mask)) + 4 => ~bad
               /\ length = FlexfecHeaderSize(MinPacketMaskSize(mask)) - 1 => bad
               /\ FlexfecHeaderSize(MinPacketMaskSize(mask)) \in Int
  <2> HIDE DEF good, bad, size, found
  <2>1. CASE length = FlexfecHeaderSize(MinPacketMaskSize(mask)) + 4
    <3>1. header = good /\ length - FlexfecHeaderSize(size) = 4
      BY <1>1, <1>7, <2>1
    <3>2. length # FlexfecHeaderSize(MinPacketMaskSize(mask)) - 1
      BY <1>7, <2>1
    <3> QED
      BY <1>3, <1>7, <3>1, <3>2
  <2>2. CASE length = FlexfecHeaderSize(MinPacketMaskSize(mask)) - 1
    <3>1. header = Malformed
      BY <1>1, <1>7, <2>2
    <3>2. length # FlexfecHeaderSize(MinPacketMaskSize(mask)) + 4
      BY <1>7, <2>2
    <3> QED
      BY <1>2, <3>1, <3>2
  <2> QED
    BY <2>1, <2>2
<1>8. CASE mask \in ShortMask /\ mask[15] = 0
  <2>1. MinPacketMaskSize(mask) = 2 /\ DOMAIN mask = 0 .. 15
    BY <1>8, MinSizes, MaskWidths
  <2>2. w = OnePart(mask)
    BY <2>1 DEF WrittenParts
  <2>3. w[0] = 1 /\ \A bit \in 1 .. 15 : w[bit] = mask[bit - 1]
    BY <2>2 DEF OnePart
  <2>4. size = 2 /\ found = part0
    BY <2>3
  <2>5. \A bit \in 0 .. 15 : part0[bit] = mask[bit]
    BY <1>8, <2>3
  <2>6. Same(part0)
    BY <1>5, <2>1, <2>5, PayloadAssumption DEF Protected
  <2>7. Same(found)
    BY <2>4, <2>6
  <2> QED
    BY <1>4, <1>6, <2>1, <2>3, <2>4, <2>7
<1>9. CASE (mask \in ShortMask /\ mask[15] # 0) \/ (mask \in LongMask /\ mask[46] = 0 /\ mask[47] = 0)
  <2>1. /\ MinPacketMaskSize(mask) = 6
        /\ DOMAIN mask = (IF mask \in LongMask THEN 0 .. 47 ELSE 0 .. 15)
    BY <1>9, MinSizes, MaskWidths, WidthsDiffer
  <2>2. w = TwoParts(mask)
    BY <2>1 DEF WrittenParts
  <2>3. /\ w[0] = 0 /\ w[16] = 1 /\ w[17] = mask[15]
        /\ \A bit \in 1 .. 15 : w[bit] = mask[bit - 1]
        /\ \A bit \in 18 .. 47 : w[bit] = IF mask \in LongMask THEN mask[bit - 2] ELSE 0
    BY <2>2 DEF TwoParts
  <2>4. size = 6 /\ found = part1
    BY <2>3
  <2>5. \A bit \in 0 .. 47 : part1[bit] = IF bit \in DOMAIN mask THEN mask[bit] ELSE 0
    <3>1. CASE mask \in LongMask
      BY <1>9, <2>1, <2>3, <3>1, WidthsDiffer
    <3>2. CASE mask \notin LongMask
      BY <2>1, <2>3, <3>2
    <3> QED
      BY <3>1, <3>2
  <2>6. Same(part1)
    <3>1. DOMAIN part1 = 0 .. 47 /\ DOMAIN mask \subseteq 0 .. 47
      BY <2>1
    <3> HIDE DEF part1
    <3> QED
      BY <1>5, <2>5, <3>1, PayloadAssumption DEF Protected
  <2>7. Same(found)
    BY <2>4, <2>6
  <2> QED
    BY <1>4, <1>6, <2>1, <2>3, <2>4, <2>7
<1>10. CASE mask \in LongMask /\ ~(mask[46] = 0 /\ mask[47] = 0)
  <2>1. MinPacketMaskSize(mask) = 14 /\ DOMAIN mask = 0 .. 47
    BY <1>10, MinSizes, MaskWidths
  <2>2. w = ThreeParts(mask)
    BY <2>1 DEF WrittenParts
  <2>3. /\ w[0] = 0 /\ w[16] = 0 /\ w[48] = 1 /\ w[17] = mask[15]
        /\ w[49] = mask[46] /\ w[50] = mask[47]
        /\ \A bit \in 1 .. 15 : w[bit] = mask[bit - 1]
        /\ \A bit \in 17 .. 47 : w[bit] = mask[bit - 2]
        /\ \A bit \in 51 .. 111 : w[bit] = 0
    BY <2>2 DEF ThreeParts
  <2>4. size = 14 /\ found = part2
    BY <2>3
  <2>5. \A bit \in 0 .. 45 : part1[bit] = mask[bit]
    BY <2>3
  <2>6. \A bit \in 0 .. 111 : part2[bit] = IF bit \in DOMAIN mask THEN mask[bit] ELSE 0
    <3>1. \A bit \in 0 .. 111 : part2[bit] =
            IF bit <= 45 THEN part1[bit] ELSE IF bit <= 108 THEN w[bit + 3] ELSE 0
      OBVIOUS
    <3> HIDE DEF part1, part2
    <3> QED
      BY <2>1, <2>3, <2>5, <3>1
  <2>7. Same(part2)
    <3>1. DOMAIN part2 = 0 .. 111 /\ DOMAIN mask \subseteq 0 .. 111
      BY <2>1
    <3> HIDE DEF part2
    <3> QED
      BY <1>5, <2>6, <3>1, PayloadAssumption DEF Protected
  <2>8. Same(found)
    BY <2>4, <2>7
  <2> QED
    BY <1>4, <1>6, <2>1, <2>3, <2>4, <2>8
<1> QED
  BY <1>8, <1>9, <1>10

\* ULPFEC: the mask, the base and the lengths come back, and the payload is
\* left alone.
LEMMA UlpfecRoundTrip ==
  ASSUME NEW mask \in ShortMask \cup LongMask, NEW base,
         NEW bytes, bytes = UlpfecHeaderSize(Cardinality(DOMAIN mask) \div 8),
         NEW wire, wire = UlpfecFinalizeFecHeader(base, mask, Blank(bytes + 4, BlankArea(bytes - 12))),
         NEW level, level = UlpfecReadFecHeader(wire, 7)
  PROVE  /\ level.ok /\ level.base = base /\ level.protectionLength = 4
         /\ level.lengthRecovery = -1 /\ level.mask = mask
         /\ {bit \in DOMAIN wire.area : wire.area[bit] = Payload} = Cardinality(DOMAIN mask) .. 111
         /\ ~(wire.length < 10 + 2)
<1> DEFINE width == Cardinality(DOMAIN mask)
           packet == Blank(bytes + 4, BlankArea(bytes - 12))
           bits == Overwritten(packet.area, 0, width - 1, mask)
<1>1. /\ width \in {16, 48} /\ DOMAIN mask = 0 .. width - 1
      /\ bytes = (IF width = 16 THEN 14 ELSE 18) /\ 8 * (bytes - 12) = width
  <2>1. CASE mask \in ShortMask
    <3>1. width = 16 /\ DOMAIN mask = 0 .. 15
      BY <2>1, MaskWidths
    <3> QED
      BY <3>1 DEF UlpfecHeaderSize
  <2>2. CASE mask \in LongMask
    <3>1. width = 48 /\ DOMAIN mask = 0 .. 47
      BY <2>2, MaskWidths
    <3> QED
      BY <3>1 DEF UlpfecHeaderSize
  <2> QED
    BY <2>1, <2>2
<1>2. wire = [packet EXCEPT !.e = 0, !.l = IF width = 48 THEN 1 ELSE 0,
                !.at8 = packet.at2, !.at2 = base, !.at10 = packet.length - bytes, !.area = bits]
  BY DEF UlpfecFinalizeFecHeader, Blank
<1>3. packet.at2 = -1 /\ packet.length = bytes + 4 /\ packet.area = BlankArea(bytes - 12)
  BY DEF Blank
<1>4. /\ wire.l = (IF width = 48 THEN 1 ELSE 0) /\ wire.at8 = -1 /\ wire.at2 = base
      /\ wire.at10 = bytes + 4 - bytes /\ wire.area = bits /\ wire.length = bytes + 4
  <2>1. PICK large, old, rest, b : /\ large = (IF width = 48 THEN 1 ELSE 0) /\ old = packet.at2
                                   /\ rest = packet.length - bytes /\ b = bits
    OBVIOUS
  <2>2. wire = [packet EXCEPT !.e = 0, !.l = large, !.at8 = old, !.at2 = base, !.at10 = rest,
                              !.area = b]
    BY <1>2, <2>1, Zenon
  <2>3. /\ wire.l = large /\ wire.at8 = old /\ wire.at2 = base
        /\ wire.at10 = rest /\ wire.area = b /\ wire.length = packet.length
    BY ONLY <2>2 DEF Blank
  <2>7. bytes \in Int
    BY <1>1
  <2>4. rest = bytes + 4 - bytes
    <3>1. PICK long : long = packet.length
      OBVIOUS
    <3>2. long = bytes + 4 /\ rest = long - bytes
      BY ONLY <1>3, <2>1, <3>1
    <3> QED
      BY ONLY <2>7, <3>2
  <2>5. wire.length = bytes + 4
    BY ONLY <1>3, <2>3
  <2>6. wire.at8 = -1 /\ wire.at10 = bytes + 4 - bytes
    BY ONLY <1>3, <2>1, <2>3, <2>4
  <2> HIDE DEF packet, bits, width
  <2> QED
    BY ONLY <2>1, <2>3, <2>5, <2>6
<1>5. /\ DOMAIN bits = 0 .. 111
      /\ \A bit \in 0 .. 111 : bits[bit] = IF bit < width THEN mask[bit] ELSE Payload
  <2> HIDE DEF width
  <2>1. packet.area = [bit \in 0 .. 111 |-> IF bit < width THEN 0 ELSE Payload]
    BY <1>1, <1>3 DEF BlankArea
  <2> HIDE DEF packet
  <2>2. bits = [bit \in 0 .. 111 |-> IF bit \in 0 .. width - 1 THEN mask[bit] ELSE packet.area[bit]]
    BY <2>1 DEF Overwritten
  <2> HIDE DEF bits
  <2>3. PICK n \in {16, 48} : n = width
    BY <1>1
  <2>4. \A bit \in 0 .. 111 : (bit \in 0 .. n - 1) <=> bit < n
    OBVIOUS
  <2>5. \A bit \in 0 .. 111 :
          bits[bit] = IF bit \in 0 .. n - 1 THEN mask[bit] ELSE IF bit < n THEN 0 ELSE Payload
    BY ONLY <2>1, <2>2, <2>3
  <2>6. DOMAIN bits = 0 .. 111
    BY ONLY <2>2
  <2>7. \A bit \in 0 .. 111 : bits[bit] = IF bit < n THEN mask[bit] ELSE Payload
    BY ONLY <2>4, <2>5
  <2> QED
    BY <2>3, <2>6, <2>7
<1>6. \A bit \in DOMAIN mask : mask[bit] \in {0, 1}
  BY DEF ShortMask, LongMask
<1>7. mask = [bit \in DOMAIN mask |-> mask[bit]]
  BY DEF ShortMask, LongMask
<1> HIDE DEF bits, width, packet
<1>8. {bit \in DOMAIN wire.area : wire.area[bit] = Payload} = width .. 111
  <2>1. PICK n \in {16, 48} : n = width
    BY <1>1
  <2>2. \A bit \in 0 .. 111 : bits[bit] = IF bit < n THEN mask[bit] ELSE Payload
    BY <1>5, <2>1
  <2>3. \A bit \in 0 .. n - 1 : mask[bit] # Payload
    BY <1>1, <1>6, <2>1, PayloadAssumption
  <2>4. \A bit \in 0 .. 111 : bits[bit] = Payload <=> bit \in n .. 111
    BY ONLY <2>2, <2>3, n \in {16, 48}
  <2>5. {bit \in DOMAIN bits : bits[bit] = Payload} = n .. 111
    BY <1>5, <2>4
  <2> QED
    BY <1>4, <2>1, <2>5
<1> DEFINE size == IF wire.l = 1 THEN 6 ELSE 2
           read == [bit \in 0 .. 8 * size - 1 |-> wire.area[bit]]
<1>9. 8 * size = width
  BY <1>1, <1>4
<1>10. read = mask
  <2>1. read = [bit \in 0 .. width - 1 |-> wire.area[bit]]
    BY <1>9
  <2>2. \A bit \in 0 .. width - 1 : wire.area[bit] = mask[bit]
    <3>1. PICK n \in {16, 48} : n = width
      BY <1>1
    <3>2. \A bit \in 0 .. n - 1 : bit \in 0 .. 111 /\ bit < n
      OBVIOUS
    <3>3. \A bit \in 0 .. n - 1 : bits[bit] = mask[bit]
      BY <1>5, <3>1, <3>2
    <3> QED
      BY <1>4, <3>1, <3>3
  <2> HIDE DEF read
  <2> QED
    BY <1>1, <1>7, <2>1, <2>2
<1>11. level = [ok |-> TRUE, headerSize |-> UlpfecHeaderSize(size), ssrc |-> 7, base |-> wire.at2,
                mask |-> read, protectionLength |-> wire.at10, lengthRecovery |-> wire.at8]
  BY DEF UlpfecReadFecHeader
<1>12. /\ level.ok /\ level.base = wire.at2 /\ level.mask = read
       /\ level.protectionLength = wire.at10 /\ level.lengthRecovery = wire.at8
  <2> HIDE DEF read, size
  <2> QED
    BY ONLY <1>11
<1>13. bytes + 4 - bytes = 4 /\ ~(bytes + 4 < 10 + 2)
  BY <1>1
<1> HIDE DEF read
<1> QED
  BY <1>4, <1>8, <1>10, <1>12, <1>13 DEF width

\* The FEC header of every mask of 16 or 48 bits, whichever bits are set: what
\* FinalizeFecHeader writes, ReadFecHeader of either release finds, for FlexFEC
\* with the K-bits taken out again, and the payload is neither read nor written.
THEOREM HeadersReadBack == SampleSpec => []HeaderRoundTrip
<1>1. SampleTyped => HeaderRoundTrip
  <2> SUFFICES ASSUME SampleTyped, sample.kind = "header",
                      NEW writes85 \in BOOLEAN, NEW reads85 \in BOOLEAN
               PROVE
      LET flex   == Finalized(TRUE, writes85, 4)
          size   == MinPacketMaskSize(sample.mask)
          Read(packet) == IF reads85 THEN FlexfecReadFecHeader85(packet) ELSE FlexfecReadFecHeader(packet)
          header == Read(flex)
          ulp    == Finalized(FALSE, writes85, 4)
          level  == IF reads85 THEN UlpfecReadFecHeader85(ulp, 7) ELSE UlpfecReadFecHeader(ulp, 7)
          PayloadOf(wire) == {bit \in DOMAIN wire.area : wire.area[bit] = Payload}
      IN  /\ header.ok /\ header.base = sample.base /\ header.ssrc = 7
          /\ header.protectionLength = 4
          /\ \A bit \in DOMAIN header.mask : header.mask[bit] # Payload
          /\ Protected(header.mask) = Protected(sample.mask)
          /\ PayloadOf(flex) = 8 * size .. 111
          /\ ~Read([flex EXCEPT !.length = @ - 5]).ok
          /\ level.ok /\ level.base = sample.base /\ level.protectionLength = 4
          /\ level.lengthRecovery = -1
          /\ level.mask = sample.mask
          /\ PayloadOf(ulp) = Cardinality(DOMAIN sample.mask) .. 111
    BY Zenon DEF HeaderRoundTrip
  <2> DEFINE mask == sample.mask
             base == sample.base
             size == MinPacketMaskSize(mask)
             bytes == FlexfecHeaderSize(size)
             area == BlankArea(bytes - 18)
             flex == FlexfecFinalizeFecHeader(7, base, mask, Blank(bytes + 4, area))
             cut == [flex EXCEPT !.length = @ - 5]
             ulpBytes == UlpfecHeaderSize(Cardinality(DOMAIN mask) \div 8)
             ulp == UlpfecFinalizeFecHeader(base, mask, Blank(ulpBytes + 4, BlankArea(ulpBytes - 12)))
             header == FlexfecReadFecHeader(flex)
             level == UlpfecReadFecHeader(ulp, 7)
  <2>1. mask \in ShortMask \cup LongMask
    BY DEF SampleTyped
  <2>2. Finalized(TRUE, writes85, 4) = flex
    BY DEF Finalized, FlexfecFinalizeFecHeader85, MinPacketMaskSize85, Blank
  <2>3. Finalized(FALSE, writes85, 4) = ulp
    BY DEF Finalized, UlpfecFinalizeFecHeader85, Blank
  <2>4. size \in {2, 6, 14} /\ bytes = 18 + size /\ bytes \in Int /\ bytes - 18 = size
    <3>1. size \in {2, 6, 14}
      BY <2>1, MinSizes
    <3> HIDE DEF size
    <3> QED
      BY <3>1 DEF FlexfecHeaderSize, kBaseHeaderSize, kStreamSpecificHeaderSize
  <2>5. area = BlankArea(size)
    BY <2>4
  <2>6. /\ flex.area = WrittenParts(mask) /\ flex.length = bytes + 4 /\ flex.r = 0 /\ flex.f = 0
        /\ flex.ssrcCount = 1 /\ flex.ssrc = 7 /\ flex.base = base
    <3> HIDE DEF mask, base, bytes, area, flex
    <3>1. flex = FlexfecFinalizeFecHeader(7, base, mask, Blank(bytes + 4, area))
      BY DEF flex
    <3> QED
      BY <2>1, <2>5, <3>1, FlexfecBits
  <2>7. /\ cut.area = WrittenParts(mask) /\ cut.length = bytes - 1 /\ cut.r = 0 /\ cut.f = 0
        /\ cut.ssrcCount = 1
    <3>1. "length" \in DOMAIN flex
      BY DEF FlexfecFinalizeFecHeader, Blank
    <3>2. cut.length = flex.length - 5 /\ bytes + 4 - 5 = bytes - 1
      <4> HIDE DEF flex, bytes
      <4> QED
        BY <2>4, <3>1
    <3>3. /\ cut.area = flex.area /\ cut.r = flex.r /\ cut.f = flex.f
          /\ cut.ssrcCount = flex.ssrcCount
      <4>1. "area" \in DOMAIN flex /\ "r" \in DOMAIN flex /\ "f" \in DOMAIN flex
            /\ "ssrcCount" \in DOMAIN flex
        BY DEF FlexfecFinalizeFecHeader, Blank
      <4> HIDE DEF flex
      <4> QED
        BY <4>1
    <3>4. flex.length - 5 = bytes - 1
      <4>1. flex.length = bytes + 4
        BY <2>6
      <4> HIDE DEF flex, bytes
      <4> QED
        BY ONLY <2>4, <4>1
    <3> HIDE DEF cut, flex, bytes
    <3> QED
      BY ONLY <2>6, <3>2, <3>3, <3>4
  <2>8. /\ header.ok /\ header.base = base /\ header.ssrc = 7
        /\ header.protectionLength = 4
        /\ \A bit \in DOMAIN header.mask : header.mask[bit] # Payload
        /\ Protected(header.mask) = Protected(mask)
    <3>1. PICK length \in Int : length = bytes + 4
      BY <2>4
    <3> HIDE DEF mask, base, flex, bytes
    <3> QED
      BY <2>1, <2>6, <3>1, FlexfecReads DEF bytes
  <2>9. ~FlexfecReadFecHeader(cut).ok
    <3>1. PICK length \in Int : length = bytes - 1
      BY <2>4
    <3> HIDE DEF mask, base, cut, bytes
    <3> QED
      BY <2>1, <2>7, <3>1, FlexfecReads DEF bytes
  <2>10. {bit \in DOMAIN flex.area : flex.area[bit] = Payload} = 8 * size .. 111
    <3> HIDE DEF mask, flex
    <3> QED
      BY <2>1, <2>6, FlexfecPayload
  <2>11. /\ level.ok /\ level.base = base /\ level.protectionLength = 4
         /\ level.lengthRecovery = -1 /\ level.mask = mask
         /\ {bit \in DOMAIN ulp.area : ulp.area[bit] = Payload} = Cardinality(DOMAIN mask) .. 111
         /\ ~(ulp.length < 10 + 2)
    <3> HIDE DEF mask, base
    <3>1. PICK wire : wire = ulp
      OBVIOUS
    <3> QED
      BY <2>1, UlpfecRoundTrip
  <2>12. UlpfecReadFecHeader85(ulp, 7) = level
    <3> HIDE DEF ulp
    <3> QED
      BY <2>11 DEF UlpfecReadFecHeader85
  <2> HIDE DEF flex, ulp, header, level, cut
  <2> QED
    BY <2>2, <2>3, <2>8, <2>9, <2>10, <2>11, <2>12 DEF FlexfecReadFecHeader85, header, level, cut
<1> QED
  BY <1>1, SamplesTyped, PTL
=============================================================================
