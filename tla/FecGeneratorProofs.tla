------------------------- MODULE FecGeneratorProofs -------------------------
(***************************************************************************)
(* What FECGenerator delivers, for every FecK and FecN and any number of   *)
(* groups and faults; and that the transport of fec-test accounts for what *)
(* it was sent.                                                            *)
(***************************************************************************)
EXTENDS FecTransport, NumberFacts, SequenceTheorems, FunctionTheorems

-----------------------------------------------------------------------------
(* The decoder, as a function of its state and of the block that arrives.  *)

BlockType == [group : Nat, index : Indices]
DecoderType == [group : Nat, marks : SUBSET Indices, count : Nat, raw : Nat,
                input : [Indices -> BlockType \cup {Garbage}]]

\* The counters and the buffers are those of the blocks with a mark.
Sound(d) ==
  /\ d.count = Cardinality(d.marks)
  /\ d.raw = Cardinality(d.marks \cap RawIndices)
  /\ \A j \in d.marks : d.input[j] = Block(d.group, j)

\* There are FecK raw blocks: so many are missing, so many redundant ones here.
LEMMA MarksCounted ==
  ASSUME NEW d \in DecoderType
  PROVE  /\ IsFiniteSet(d.marks) /\ Cardinality(d.marks) \in Nat
         /\ Cardinality(d.marks \cap RawIndices) \in Nat
         /\ Cardinality(d.marks \cap RawIndices) <= FecK
         /\ Cardinality(d.marks \cap RawIndices) = FecK => RawIndices \subseteq d.marks
         /\ Len(Missing(d)) = FecK - Cardinality(d.marks \cap RawIndices)
         /\ Len(Redundant(d)) = Cardinality(d.marks) - Cardinality(d.marks \cap RawIndices)
         /\ Missing(d) \in [1 .. Len(Missing(d)) -> RawIndices \ d.marks]
         /\ Redundant(d) \in [1 .. Len(Redundant(d)) -> d.marks \ RawIndices]
         /\ \A i, j \in 1 .. Len(Missing(d)) : Missing(d)[i] = Missing(d)[j] => i = j
         /\ \A n \in RawIndices \ d.marks : \E i \in 1 .. Len(Missing(d)) : Missing(d)[i] = n
         /\ Len(Missing(d)) \in Nat /\ Len(Redundant(d)) \in Nat
<1> DEFINE known == d.marks \cap RawIndices
           lost == RawIndices \ d.marks
           extra == d.marks \ RawIndices
<1>1. d.marks \in SUBSET Indices /\ known \in SUBSET RawIndices /\ FecK \in Nat /\ FecN \in Nat
  BY FecAssumption DEF DecoderType
<1>2. IsFiniteSet(Indices) /\ IsFiniteSet(RawIndices) /\ Cardinality(RawIndices) = FecK
  BY <1>1, FS_Interval, FecAssumption DEF Indices, RawIndices
<1>3. IsFiniteSet(d.marks) /\ Cardinality(d.marks) \in Nat
  BY <1>1, <1>2, FS_Subset, FS_CardinalityType
<1>4. /\ IsFiniteSet(known) /\ Cardinality(known) \in Nat /\ Cardinality(known) <= FecK
      /\ Cardinality(known) = FecK => known = RawIndices
  BY <1>1, <1>2, FS_Subset, FS_CardinalityType
<1>5. IsFiniteSet(lost) /\ Cardinality(lost) = FecK - Cardinality(RawIndices \cap d.marks)
  BY <1>2, FS_Difference
<1>6. IsFiniteSet(extra) /\ Cardinality(extra) = Cardinality(d.marks) - Cardinality(known)
  BY <1>3, FS_Difference
<1>7. RawIndices \cap d.marks = known
  OBVIOUS
<1>8. lost \in SUBSET Nat /\ extra \in SUBSET Nat
  BY <1>1 DEF Indices, RawIndices
<1>9. Missing(d) = Ascending(lost) /\ Redundant(d) = Ascending(extra)
  BY DEF Missing, Redundant
<1>10. RawIndices \subseteq d.marks <=> known = RawIndices
  OBVIOUS
<1> HIDE DEF known, lost, extra
<1>11. /\ Cardinality(lost) \in Nat
       /\ Ascending(lost) \in [1 .. Cardinality(lost) -> lost]
       /\ Len(Ascending(lost)) = Cardinality(lost)
       /\ \A i, j \in 1 .. Cardinality(lost) : Ascending(lost)[i] = Ascending(lost)[j] => i = j
       /\ \A n \in lost : \E i \in 1 .. Cardinality(lost) : Ascending(lost)[i] = n
  BY <1>5, <1>8, AscendingIs
<1>12. /\ Cardinality(extra) \in Nat
       /\ Ascending(extra) \in [1 .. Cardinality(extra) -> extra]
       /\ Len(Ascending(extra)) = Cardinality(extra)
  BY <1>6, <1>8, AscendingIs
<1>13. Len(Missing(d)) = FecK - Cardinality(known) /\ Len(Redundant(d)) = Cardinality(d.marks) - Cardinality(known)
  BY <1>5, <1>6, <1>7, <1>9, <1>11, <1>12
<1>14. /\ Missing(d) \in [1 .. Len(Missing(d)) -> lost] /\ Redundant(d) \in [1 .. Len(Redundant(d)) -> extra]
       /\ \A i, j \in 1 .. Len(Missing(d)) : Missing(d)[i] = Missing(d)[j] => i = j
       /\ \A n \in lost : \E i \in 1 .. Len(Missing(d)) : Missing(d)[i] = n
       /\ Len(Missing(d)) \in Nat /\ Len(Redundant(d)) \in Nat
  BY <1>9, <1>11, <1>12
<1>15. Cardinality(known) = FecK => RawIndices \subseteq d.marks
  BY <1>4, <1>10
<1> QED
  BY <1>3, <1>4, <1>13, <1>14, <1>15 DEF known, lost, extra

\* With sound counters the recovery is tried, and goes through, exactly if FecK
\* blocks are there and not all of the raw ones.
LEMMA SoundRecoverable ==
  ASSUME NEW d \in DecoderType, Sound(d)
  PROVE  /\ Recoverable(d) <=> Cardinality(d.marks) >= FecK /\ d.raw # FecK
         /\ Recoverable(d) => d.marks \ RawIndices # {} /\ d.raw + Len(Missing(d)) = FecK
         /\ SlotsTrue(d) \/ ~Recoverable(d)
         /\ d.raw = FecK => RawIndices \subseteq d.marks
<1>1. /\ d.count = Cardinality(d.marks) /\ d.raw = Cardinality(d.marks \cap RawIndices)
      /\ d.count \in Nat /\ d.raw \in Nat /\ d.raw <= FecK /\ FecK \in Nat
      /\ Len(Missing(d)) = FecK - d.raw /\ Len(Redundant(d)) = d.count - d.raw
  BY MarksCounted, FecAssumption DEF Sound
<1>2. Recoverable(d) <=> Cardinality(d.marks) >= FecK /\ d.raw # FecK
  BY <1>1 DEF Recoverable
<1>3. ASSUME Recoverable(d)
      PROVE  d.marks \ RawIndices # {} /\ d.raw + Len(Missing(d)) = FecK /\ SlotsTrue(d)
  <2>1. Len(Missing(d)) <= Len(Redundant(d)) /\ Len(Redundant(d)) \in Nat /\ Len(Missing(d)) \in Nat
        /\ Len(Redundant(d)) >= 1
    BY <1>1, <1>3, MarksCounted DEF Recoverable
  <2>2. \A i \in 1 .. Len(Missing(d)) : i \in 1 .. Len(Redundant(d))
    BY <2>1
  <2>3. Redundant(d) \in [1 .. Len(Redundant(d)) -> d.marks \ RawIndices]
    BY MarksCounted
  <2>4. SlotsRead(d) \subseteq d.marks
    BY <2>2, <2>3 DEF SlotsRead
  <2>5. Redundant(d)[1] \in d.marks \ RawIndices
    BY <2>1, <2>3
  <2> QED
    BY <1>1, <2>4, <2>5 DEF SlotsTrue, Sound
<1> QED
  BY <1>1, <1>2, <1>3, MarksCounted
\* A block of another group: the decoder starts over.
LEMMA SwitchedIs ==
  ASSUME NEW d \in DecoderType, NEW group \in Nat
  PROVE  /\ Switched(d, group) \in DecoderType
         /\ Switched(d, group).group = group
         /\ group = d.group => Switched(d, group) = d
         /\ group # d.group => Switched(d, group).marks = {} /\ Sound(Switched(d, group))
<1>1. CASE group = d.group
  BY <1>1 DEF Switched
<1>2. CASE group # d.group
  <2> DEFINE s == Switched(d, group)
  <2>1. s = [group |-> group, marks |-> {}, count |-> 0, raw |-> 0, input |-> d.input]
    BY <1>2 DEF Switched, DecoderType
  <2>2. s \in DecoderType
    BY <2>1 DEF DecoderType
  <2>3. Cardinality({}) = 0
    BY FS_EmptySet
  <2>4. {} \cap RawIndices = {}
    OBVIOUS
  <2> QED
    BY <1>2, <2>1, <2>2, <2>3, <2>4 DEF Sound
<1> QED
  BY <1>1, <1>2

\* A block is stored if it is the first of its index.
LEMMA StoredIs ==
  ASSUME NEW d \in DecoderType, NEW b \in BlockType, b.group = d.group
  PROVE  /\ Stored(d, b) \in DecoderType
         /\ Stored(d, b).group = d.group
         /\ Stored(d, b).marks = d.marks \cup {b.index}
         /\ ~Fresh(d, b) => Stored(d, b) = d
         /\ b.index \notin RawIndices => Stored(d, b).raw = d.raw
         /\ Sound(d) => Sound(Stored(d, b))
<1>1. CASE ~Fresh(d, b)
  BY <1>1 DEF Stored, Fresh, DecoderType
<1>2. CASE Fresh(d, b)
  <2> DEFINE s == Stored(d, b)
             raw == IF b.index \in RawIndices THEN d.raw + 1 ELSE d.raw
  <2>1. s = [group |-> d.group, marks |-> d.marks \cup {b.index}, count |-> d.count + 1,
             raw |-> raw, input |-> [d.input EXCEPT ![b.index] = b]]
    BY <1>2 DEF Stored, DecoderType
  <2>2. raw \in Nat /\ d.count + 1 \in Nat /\ b.index \in Indices
    BY DEF DecoderType, BlockType
  <2>3. [d.input EXCEPT ![b.index] = b] \in [Indices -> BlockType \cup {Garbage}]
    BY DEF DecoderType
  <2>4. d.marks \cup {b.index} \in SUBSET Indices /\ d.group \in Nat
    BY <2>2 DEF DecoderType
  <2> HIDE DEF raw
  <2>5. s \in DecoderType
    BY <2>1, <2>2, <2>3, <2>4 DEF DecoderType
  <2>6. ASSUME Sound(d)
        PROVE  Sound(s)
    <3>1. /\ IsFiniteSet(d.marks) /\ IsFiniteSet(d.marks \cap RawIndices)
          /\ b.index \notin d.marks
      BY <1>2, MarksCounted, FS_Intersection DEF Fresh
    <3>2. Cardinality(d.marks \cup {b.index}) = d.count + 1
      BY <2>6, <3>1, FS_AddElement DEF Sound
    <3>3. Cardinality((d.marks \cup {b.index}) \cap RawIndices) = raw
      <4>1. CASE b.index \in RawIndices
        <5>1. (d.marks \cup {b.index}) \cap RawIndices = (d.marks \cap RawIndices) \cup {b.index}
          BY <4>1
        <5>2. Cardinality((d.marks \cap RawIndices) \cup {b.index}) = Cardinality(d.marks \cap RawIndices) + 1
          BY <3>1, FS_AddElement
        <5> QED
          BY <2>6, <4>1, <5>1, <5>2 DEF Sound, raw
      <4>2. CASE b.index \notin RawIndices
        <5>1. (d.marks \cup {b.index}) \cap RawIndices = d.marks \cap RawIndices
          BY <4>2
        <5> QED
          BY <2>6, <4>2, <5>1 DEF Sound, raw
      <4> QED
        BY <4>1, <4>2
    <3>4. b = Block(d.group, b.index)
      BY DEF Block, BlockType
    <3>5. ASSUME NEW j \in d.marks \cup {b.index}
          PROVE  s.input[j] = Block(d.group, j)
      <4>1. d.input \in [Indices -> BlockType \cup {Garbage}] /\ d.marks \subseteq Indices
        BY DEF DecoderType
      <4>2. s.input = [d.input EXCEPT ![b.index] = b]
        BY <2>1
      <4>3. CASE j = b.index
        BY <2>2, <3>4, <4>1, <4>2, <4>3
      <4>4. CASE j # b.index
        BY <2>6, <3>5, <4>1, <4>2, <4>4 DEF Sound
      <4> QED
        BY <4>3, <4>4
    <3>6. s.group = d.group /\ s.marks = d.marks \cup {b.index} /\ s.count = d.count + 1 /\ s.raw = raw
      BY <2>1
    <3> QED
      BY <3>2, <3>3, <3>5, <3>6 DEF Sound
  <2>7. s.group = d.group /\ s.marks = d.marks \cup {b.index} /\ s.raw = raw
    BY <2>1
  <2>8. b.index \notin RawIndices => raw = d.raw
    BY DEF raw
  <2> QED
    BY <1>2, <2>5, <2>6, <2>7, <2>8
<1> QED
  BY <1>1, <1>2

\* A recovery counts the blocks it made.
LEMMA RecoveredIs ==
  ASSUME NEW d \in DecoderType
  PROVE  /\ Recovered(d) \in DecoderType
         /\ Recovered(d).group = d.group
         /\ Recovered(d).marks = d.marks
         /\ Recovered(d).raw = d.raw + Len(Missing(d))
<1> DEFINE n == Len(Missing(d))
           slot(j) == CHOOSE i \in 1 .. n : Redundant(d)[i] = j
           inputs == [j \in Indices |-> IF \E i \in 1 .. n : Redundant(d)[i] = j
                                          THEN Decoded(d, Missing(d)[slot(j)]) ELSE d.input[j]]
<1>1. Recovered(d) = [group |-> d.group, marks |-> d.marks, count |-> d.count + n,
                      raw |-> d.raw + n, input |-> inputs]
  <2>1. Recovered(d) = [d EXCEPT !.count = @ + n, !.raw = @ + n, !.input = inputs]
    BY Zenon DEF Recovered
  <2> HIDE DEF inputs, n
  <2> QED
    BY <2>1 DEF DecoderType
<1>2. n \in Nat /\ d.count + n \in Nat /\ d.raw + n \in Nat
  BY MarksCounted DEF DecoderType
<1>3. ASSUME NEW j \in Indices
      PROVE  inputs[j] \in BlockType \cup {Garbage}
  <2>1. CASE \E i \in 1 .. n : Redundant(d)[i] = j
    <3>1. slot(j) \in 1 .. n
      BY <2>1
    <3>2. Missing(d)[slot(j)] \in RawIndices
      BY <3>1, MarksCounted
    <3>3. Missing(d)[slot(j)] \in Indices
      BY <3>2, FecAssumption DEF Indices, RawIndices
    <3>4. inputs[j] = Decoded(d, Missing(d)[slot(j)])
      BY <2>1
    <3> HIDE DEF slot, inputs
    <3> QED
      BY <3>3, <3>4 DEF Decoded, Block, BlockType, DecoderType
  <2>2. CASE ~\E i \in 1 .. n : Redundant(d)[i] = j
    BY <2>2 DEF DecoderType
  <2> QED
    BY <2>1, <2>2
<1>4. inputs \in [Indices -> BlockType \cup {Garbage}]
  <2>1. inputs = [j \in Indices |-> inputs[j]]
    OBVIOUS
  <2> HIDE DEF inputs
  <2> QED
    BY <1>3, <2>1
<1> HIDE DEF inputs, n
<1> QED
  BY <1>1, <1>2, <1>4 DEF DecoderType, n
DeliveryType == [group : Nat, index : RawIndices, contents : BlockType \cup {Garbage}]

\* What a block makes the decoder deliver: itself, if it is a raw one that comes
\* for the first time, and what is recovered, all of different indices.
LEMMA DeliveriesAre ==
  ASSUME NEW d \in DecoderType, NEW b \in BlockType
  PROVE  LET switched == Switched(d, b.group)
             stored == Stored(switched, b)
             out == Deliveries(d, b)
         IN  /\ out \in Seq(DeliveryType)
             /\ \A i, j \in DOMAIN out : out[i] = out[j] => i = j
             /\ \A p : p \in ToSet(out) <=>
                  \/ /\ Fresh(switched, b) /\ b.index \in RawIndices
                     /\ p = Delivery(b.group, b.index, b)
                  \/ /\ Recoverable(stored)
                     /\ \E i \in RawIndices \ stored.marks : p = Delivery(b.group, i, Decoded(stored, i))
<1> DEFINE switched == Switched(d, b.group)
           stored == Stored(switched, b)
           out == Deliveries(d, b)
           missing == Missing(stored)
           raw == Fresh(switched, b) /\ b.index \in RawIndices
           own == IF raw THEN <<Delivery(b.group, b.index, b)>> ELSE <<>>
           made == IF Recoverable(stored)
                     THEN [i \in DOMAIN missing |-> Delivery(b.group, missing[i], Decoded(stored, missing[i]))]
                     ELSE <<>>
<1>1. out = own \o made
  BY DEF Deliveries
<1>2. b.group \in Nat /\ switched \in DecoderType /\ switched.group = b.group
  BY SwitchedIs DEF BlockType
<1>3. stored \in DecoderType /\ stored.group = b.group /\ b.index \in stored.marks
  <2> HIDE DEF switched
  <2> QED
    BY <1>2, StoredIs
<1> HIDE DEF switched, stored
<1>4. ASSUME NEW i \in RawIndices
      PROVE  Delivery(b.group, i, Decoded(stored, i)) \in DeliveryType
  <2>1. i \in Indices
    BY FecAssumption DEF Indices, RawIndices
  <2> QED
    BY <1>2, <1>3, <2>1 DEF Delivery, Decoded, DeliveryType, Block, BlockType
<1>5. /\ own \in Seq(DeliveryType) /\ Len(own) = IF raw THEN 1 ELSE 0
      /\ raw => own[1] = Delivery(b.group, b.index, b)
  <2>1. raw => Delivery(b.group, b.index, b) \in DeliveryType
    BY <1>2 DEF Delivery, DeliveryType
  <2> HIDE DEF raw
  <2>2. CASE raw
    BY <2>1, <2>2
  <2>3. CASE ~raw
    BY <2>3
  <2> QED
    BY <2>2, <2>3
<1>6. /\ missing \in [1 .. Len(missing) -> RawIndices \ stored.marks] /\ Len(missing) \in Nat
      /\ \A i, j \in 1 .. Len(missing) : missing[i] = missing[j] => i = j
      /\ \A n \in RawIndices \ stored.marks : \E i \in 1 .. Len(missing) : missing[i] = n
  BY <1>3, MarksCounted
<1> DEFINE m == IF Recoverable(stored) THEN Len(missing) ELSE 0
<1>7. /\ made \in Seq(DeliveryType) /\ Len(made) = m /\ m \in Nat
      /\ \A i \in 1 .. m : /\ i \in 1 .. Len(missing)
                           /\ made[i] = Delivery(b.group, missing[i], Decoded(stored, missing[i]))
  <2> HIDE DEF missing
  <2>1. CASE Recoverable(stored)
    <3>1. DOMAIN missing = 1 .. Len(missing)
      BY <1>6
    <3>2. \A i \in 1 .. Len(missing) : Delivery(b.group, missing[i], Decoded(stored, missing[i])) \in DeliveryType
      BY <1>4, <1>6
    <3> QED
      BY <1>6, <2>1, <3>1, <3>2
  <2>2. CASE ~Recoverable(stored)
    BY <2>2
  <2> QED
    BY <2>1, <2>2
<1> HIDE DEF own, made, missing, m, raw, out
<1>8. /\ out \in Seq(DeliveryType) /\ Len(out) = Len(own) + Len(made)
      /\ \A i \in 1 .. Len(own) + Len(made) : out[i] = IF i <= Len(own) THEN own[i] ELSE made[i - Len(own)]
  BY <1>1, <1>5, <1>7, ConcatProperties
<1> DEFINE o == Len(own)
<1>9. o \in {0, 1} /\ (o = 1 <=> raw) /\ DOMAIN out = 1 .. o + m
  BY <1>5, <1>7, <1>8
<1>10. \A i \in 1 .. o + m : IF i <= o THEN i = 1 /\ raw /\ out[i] = Delivery(b.group, b.index, b)
                             ELSE i - o \in 1 .. m /\ out[i] = made[i - o]
  BY <1>5, <1>7, <1>8, <1>9
<1>11. ASSUME NEW i \in 1 .. m
       PROVE  /\ o + i \in 1 .. o + m /\ out[o + i] = made[i]
  BY <1>7, <1>8, <1>9, <1>11
<1> HIDE DEF o
<1>12. \A i \in 1 .. m : /\ made[i] = Delivery(b.group, missing[i], Decoded(stored, missing[i]))
                         /\ made[i].index = missing[i] /\ missing[i] \in RawIndices \ stored.marks
  <2>1. \A g, i, c : Delivery(g, i, c).index = i
    BY DEF Delivery
  <2>2. \A i \in 1 .. m : i \in 1 .. Len(missing) /\ missing[i] \in RawIndices \ stored.marks
    BY <1>6, <1>7
  <2> QED
    BY <1>7, <2>1, <2>2
<1>13. \A i, j \in DOMAIN out : out[i] = out[j] => i = j
  <2> SUFFICES ASSUME NEW i \in 1 .. o + m, NEW j \in 1 .. o + m, out[i] = out[j]
               PROVE  i = j
    BY <1>9
  <2>1. ASSUME NEW x \in 1 .. o + m, x <= o
        PROVE  out[x].index \in stored.marks /\ x = 1
    BY <1>3, <1>10, <2>1 DEF Delivery
  <2>2. ASSUME NEW x \in 1 .. o + m, ~(x <= o)
        PROVE  out[x].index \notin stored.marks /\ x - o \in 1 .. m /\ out[x].index = missing[x - o]
    BY <1>10, <1>12, <2>2
  <2>3. CASE i <= o
    BY <2>1, <2>2, <2>3
  <2>4. CASE ~(i <= o)
    <3>1. ~(j <= o)
      BY <2>1, <2>2, <2>4
    <3>2. missing[i - o] = missing[j - o] /\ i - o \in 1 .. Len(missing) /\ j - o \in 1 .. Len(missing)
      BY <1>7, <2>2, <2>4, <3>1
    <3>3. i - o = j - o
      BY <1>6, <3>2
    <3> QED
      BY <1>7, <1>9, <3>3
  <2> QED
    BY <2>3, <2>4
<1>14. ASSUME NEW p
       PROVE  p \in ToSet(out) <=>
                \/ raw /\ p = Delivery(b.group, b.index, b)
                \/ Recoverable(stored) /\ \E i \in RawIndices \ stored.marks : p = Delivery(b.group, i, Decoded(stored, i))
  <2>1. p \in ToSet(out) <=> \E i \in 1 .. o + m : p = out[i]
    BY <1>9 DEF ToSet
  <2>2. ASSUME NEW i \in 1 .. o + m, p = out[i]
        PROVE  \/ raw /\ p = Delivery(b.group, b.index, b)
               \/ Recoverable(stored) /\ \E k \in RawIndices \ stored.marks : p = Delivery(b.group, k, Decoded(stored, k))
    <3>1. CASE i <= o
      BY <1>10, <2>2, <3>1
    <3>2. CASE ~(i <= o)
      <4>1. i - o \in 1 .. m /\ p = made[i - o]
        BY <1>10, <2>2, <3>2
      <4>2. Recoverable(stored)
        BY <4>1 DEF m
      <4> QED
        BY <1>12, <4>1, <4>2
    <3> QED
      BY <3>1, <3>2
  <2>3. ASSUME raw
        PROVE  \E i \in 1 .. o + m : Delivery(b.group, b.index, b) = out[i]
    <3>1. o = 1 /\ 1 \in 1 .. o + m /\ 1 <= o
      BY <1>7, <1>9, <2>3
    <3> QED
      BY <1>10, <3>1
  <2>4. ASSUME Recoverable(stored), NEW k \in RawIndices \ stored.marks
        PROVE  \E i \in 1 .. o + m : Delivery(b.group, k, Decoded(stored, k)) = out[i]
    <3>1. PICK i \in 1 .. Len(missing) : missing[i] = k
      BY <1>6
    <3>2. i \in 1 .. m
      BY <2>4 DEF m
    <3> QED
      BY <1>11, <1>12, <3>1, <3>2
  <2> QED
    BY <2>1, <2>2, <2>3, <2>4
<1> QED
  BY <1>8, <1>13, <1>14 DEF raw, stored, switched, out

\* How often everything has been delivered.
LEMMA BagAfterIs ==
  ASSUME NEW bag, bag \in [DOMAIN bag -> Nat \ {0}], NEW out \in Seq(DeliveryType),
         \A i, j \in DOMAIN out : out[i] = out[j] => i = j
  PROVE  /\ DOMAIN BagAfter(bag, out) = DOMAIN bag \cup ToSet(out)
         /\ BagAfter(bag, out) \in [DOMAIN BagAfter(bag, out) -> Nat \ {0}]
         /\ \A p \in DOMAIN bag \ ToSet(out) : BagAfter(bag, out)[p] = bag[p]
         /\ \A p \in DOMAIN bag \cap ToSet(out) : BagAfter(bag, out)[p] = bag[p] + 1
         /\ \A p \in ToSet(out) \ DOMAIN bag : BagAfter(bag, out)[p] = 1
<1> DEFINE after == BagAfter(bag, out)
           D == DOMAIN bag \cup ToSet(out)
           times(p) == Cardinality({i \in DOMAIN out : out[i] = p})
<1>1. after = [p \in D |-> (IF p \in DOMAIN bag THEN bag[p] ELSE 0) + times(p)]
  BY DEF BagAfter, BagIn, BagToSet
<1>2. ASSUME NEW p
      PROVE  times(p) = IF p \in ToSet(out) THEN 1 ELSE 0
  <2>1. CASE p \in ToSet(out)
    <3>1. PICK i \in DOMAIN out : p = out[i]
      BY <2>1 DEF ToSet
    <3>2. {j \in DOMAIN out : out[j] = p} = {i}
      BY <3>1
    <3> QED
      BY <2>1, <3>2, FS_Singleton
  <2>2. CASE p \notin ToSet(out)
    <3>1. {j \in DOMAIN out : out[j] = p} = {}
      BY <2>2 DEF ToSet
    <3> QED
      BY <2>2, <3>1, FS_EmptySet
  <2> QED
    BY <2>1, <2>2
<1> HIDE DEF times, after
<1>3. DOMAIN after = D /\ \A p \in D : after[p] = (IF p \in DOMAIN bag THEN bag[p] ELSE 0) + times(p)
  BY <1>1
<1>4. \A p \in DOMAIN bag : bag[p] \in Nat \ {0}
  OBVIOUS
<1>5. \A p \in D : after[p] = (IF p \in DOMAIN bag THEN bag[p] ELSE 0) + (IF p \in ToSet(out) THEN 1 ELSE 0)
  BY <1>2, <1>3
<1>6. \A p \in D : after[p] \in Nat \ {0}
  BY <1>4, <1>5
<1>7. after \in [DOMAIN after -> Nat \ {0}]
  <2>1. after = [p \in DOMAIN after |-> after[p]]
    BY <1>1
  <2> QED
    BY <1>3, <1>6, <2>1
<1> QED
  BY <1>3, <1>4, <1>5, <1>7 DEF after
-----------------------------------------------------------------------------
(* The invariant.                                                          *)

\* Types of the encoder, the decoder, the network and what was delivered.
FecTypeOK ==
  /\ enc \in [group : Nat, count : RawIndices]
  /\ dec \in DecoderType
  /\ net \in Seq(BlockType)
  /\ delivered \in [DOMAIN delivered -> Nat \ {0}]
  /\ DOMAIN delivered \subseteq DeliveryType
  /\ inOrder \in BOOLEAN

\* Raw block i of the decoder's group was delivered with its own contents.
Given(i) == BagIn(Delivery(dec.group, i, Block(dec.group, i)), delivered)
AllGiven == \A i \in RawIndices : Given(i)

\* Nothing of the decoder's group was recovered since its first block.
Untouched ==
  /\ Sound(dec)
  /\ Cardinality(dec.marks) >= FecK => dec.raw = FecK
  /\ \A i \in dec.marks \cap RawIndices : Given(i)

\* A group that was recovered is complete.
GroupComplete == Untouched \/ (AllGiven /\ Cardinality(dec.marks) >= FecK)

\* While nothing was delivered twice, the counter of the raw blocks that a
\* recovery leaves behind keeps Decode from another one over the same buffers.
OneRecovery ==
  DeliveredOnce => DeliveredTrue /\ (Untouched \/ (AllGiven /\ dec.raw = FecK))

NotAfter(a, b) == a.group < b.group \/ (a.group = b.group /\ a.index <= b.index)

\* The network has blocks in the order of the encoder, which is ahead of them.
NetOrdered ==
  /\ \A i, j \in 1 .. Len(net) : i < j => NotAfter(net[i], net[j])
  /\ \A i \in 1 .. Len(net) :
       \/ net[i].group < enc.group
       \/ net[i].group = enc.group /\ net[i].index < enc.count

\* In order, nothing comes that is older than what the decoder has, and what the
\* decoder delivered for its group has a mark unless it was recovered, after
\* which only redundant blocks are still to come.
InOrder ==
  inOrder =>
    /\ DeliveredOnce
    /\ \A p \in BagToSet(delivered) : p.group <= dec.group
    /\ \/ Untouched /\ \A p \in BagToSet(delivered) : p.group = dec.group => p.index \in dec.marks
       \/ dec.raw = FecK /\ dec.marks \ RawIndices # {}
    /\ \A i \in 1 .. Len(net), j \in dec.marks : NotAfter(Block(dec.group, j), net[i])
    /\ \A i \in 1 .. Len(net) : dec.group <= net[i].group
    /\ \/ dec.group < enc.group
       \/ dec.group = enc.group /\ \A j \in dec.marks : j < enc.count

FecIInv == FecTypeOK /\ GroupComplete /\ OneRecovery /\ NetOrdered /\ InOrder

\* The decoder before and after a block, in a group that was not recovered: what
\* is delivered is true and was not delivered since the group began.
LEMMA UntouchedStep ==
  ASSUME FecTypeOK, NEW b \in BlockType, Decode(b), Untouched \/ b.group # dec.group
  PROVE  /\ \/ Untouched'
            \/ (AllGiven /\ Cardinality(dec.marks) >= FecK /\ dec.raw = FecK /\ dec.marks \ RawIndices # {})'
         /\ dec'.group = b.group
         /\ dec'.marks = (IF b.group = dec.group THEN dec.marks ELSE {}) \cup {b.index}
         /\ \A p \in ToSet(Deliveries(dec, b)) :
              /\ p.group = b.group /\ p.contents = Block(p.group, p.index) /\ p.index \in RawIndices
              /\ b.group = dec.group => p.index \notin dec.marks
              /\ Untouched' => p.index \in dec'.marks
<1> DEFINE switched == Switched(dec, b.group)
           stored == Stored(switched, b)
           out == Deliveries(dec, b)
<1>1. /\ b.group \in Nat /\ dec \in DecoderType /\ b = Block(b.group, b.index)
      /\ delivered \in [DOMAIN delivered -> Nat \ {0}]
  BY DEF FecTypeOK, BlockType, Block
<1>2. /\ switched \in DecoderType /\ switched.group = b.group /\ Sound(switched)
      /\ switched.marks = (IF b.group = dec.group THEN dec.marks ELSE {})
      /\ b.group = dec.group => switched = dec
  BY <1>1, SwitchedIs DEF Untouched
<1>3. \A i \in switched.marks \cap RawIndices : BagIn(Delivery(b.group, i, Block(b.group, i)), delivered)
  BY <1>2 DEF Untouched, Given
<1> HIDE DEF switched
<1>4. /\ stored \in DecoderType /\ stored.group = b.group /\ Sound(stored)
      /\ stored.marks = switched.marks \cup {b.index}
  BY <1>2, StoredIs
<1>5. /\ out \in Seq(DeliveryType)
      /\ \A i, j \in DOMAIN out : out[i] = out[j] => i = j
      /\ \A p : p \in ToSet(out) <=>
           \/ Fresh(switched, b) /\ b.index \in RawIndices /\ p = Delivery(b.group, b.index, b)
           \/ /\ Recoverable(stored)
              /\ \E i \in RawIndices \ stored.marks : p = Delivery(b.group, i, Decoded(stored, i))
  BY <1>1, DeliveriesAre DEF switched
<1>6. dec' = IF Recoverable(stored) THEN Recovered(stored) ELSE stored
  BY DEF Decode, DecoderAfter, switched
<1>7. DOMAIN delivered' = DOMAIN delivered \cup ToSet(out)
  BY <1>1, <1>5, BagAfterIs DEF Decode
<1> HIDE DEF stored, out
<1>8. /\ Recoverable(stored) <=> Cardinality(stored.marks) >= FecK /\ stored.raw # FecK
      /\ Recoverable(stored) => /\ stored.marks \ RawIndices # {}
                                /\ stored.raw + Len(Missing(stored)) = FecK
                                /\ SlotsTrue(stored)
  BY <1>4, SoundRecoverable
<1>9. ASSUME NEW i
      PROVE  /\ Delivery(b.group, i, Block(b.group, i)).group = b.group
             /\ Delivery(b.group, i, Block(b.group, i)).index = i
             /\ Delivery(b.group, i, Block(b.group, i)).contents = Block(b.group, i)
  BY DEF Delivery
<1>10. Recoverable(stored) => \A i : Decoded(stored, i) = Block(b.group, i)
  BY <1>4, <1>8 DEF Decoded
<1>11. ASSUME NEW p \in ToSet(out)
       PROVE  \E i \in RawIndices :
                /\ p = Delivery(b.group, i, Block(b.group, i)) /\ i \notin switched.marks
                /\ ~Recoverable(stored) => i = b.index
  BY <1>1, <1>4, <1>5, <1>10 DEF Fresh
<1>12. \A i \in stored.marks \cap RawIndices : BagIn(Delivery(b.group, i, Block(b.group, i)), delivered')
  <2> SUFFICES ASSUME NEW i \in stored.marks \cap RawIndices
               PROVE  Delivery(b.group, i, Block(b.group, i)) \in DOMAIN delivered'
    BY DEF BagIn, BagToSet
  <2>1. CASE i \in switched.marks
    BY <1>3, <1>7, <2>1 DEF BagIn, BagToSet
  <2>2. CASE i \notin switched.marks
    <3>1. i = b.index /\ Fresh(switched, b)
      BY <1>4, <2>2 DEF Fresh
    <3> QED
      BY <1>1, <1>5, <1>7, <3>1
  <2> QED
    BY <2>1, <2>2
<1>13. CASE ~Recoverable(stored)
  <2>1. dec' = stored
    BY <1>6, <1>13
  <2>2. Untouched'
    BY <1>4, <1>8, <1>12, <1>13, <2>1 DEF Untouched, Given, Sound
  <2> QED
    BY <1>2, <1>4, <1>9, <1>11, <1>13, <2>1, <2>2 DEF out
<1>14. CASE Recoverable(stored)
  <2>1. dec' = Recovered(stored) /\ dec'.group = b.group /\ dec'.marks = stored.marks /\ dec'.raw = FecK
    BY <1>4, <1>6, <1>8, <1>14, RecoveredIs
  <2>2. ASSUME NEW i \in RawIndices
        PROVE  BagIn(Delivery(b.group, i, Block(b.group, i)), delivered')
    <3>1. CASE i \in stored.marks
      BY <1>12, <3>1
    <3>2. CASE i \notin stored.marks
      BY <1>5, <1>7, <1>10, <1>14, <3>2 DEF BagIn, BagToSet
    <3> QED
      BY <3>1, <3>2
  <2>3. AllGiven'
    BY <2>1, <2>2 DEF AllGiven, Given
  <2>4. Untouched' => RawIndices \subseteq dec'.marks
    <3>1. dec' \in DecoderType
      BY <1>4, <2>1, RecoveredIs
    <3>2. Sound(dec') => RawIndices \subseteq dec'.marks
      BY <2>1, <3>1, SoundRecoverable
    <3> QED
      BY <3>2 DEF Untouched, Sound
  <2> QED
    BY <1>2, <1>4, <1>8, <1>9, <1>11, <1>14, <2>1, <2>3, <2>4 DEF out
<1> QED
  BY <1>13, <1>14
\* Any block: types, marks, and how often things have been delivered.
LEMMA DecodeIs ==
  ASSUME FecTypeOK, NEW b \in BlockType, Decode(b)
  PROVE  /\ dec' \in DecoderType /\ dec'.group = b.group
         /\ dec'.marks = (IF b.group = dec.group THEN dec.marks ELSE {}) \cup {b.index}
         /\ delivered' \in [DOMAIN delivered' -> Nat \ {0}]
         /\ DOMAIN delivered' = DOMAIN delivered \cup ToSet(Deliveries(dec, b))
         /\ DOMAIN delivered' \subseteq DeliveryType
         /\ \A p \in DOMAIN delivered : delivered[p] \in Nat \ {0}
         /\ \A p \in DOMAIN delivered \ ToSet(Deliveries(dec, b)) : delivered'[p] = delivered[p]
         /\ \A p \in DOMAIN delivered \cap ToSet(Deliveries(dec, b)) : delivered'[p] = delivered[p] + 1
         /\ \A p \in ToSet(Deliveries(dec, b)) \ DOMAIN delivered : delivered'[p] = 1
<1> DEFINE switched == Switched(dec, b.group)
           stored == Stored(switched, b)
           out == Deliveries(dec, b)
<1>1. /\ b.group \in Nat /\ dec \in DecoderType /\ delivered \in [DOMAIN delivered -> Nat \ {0}]
      /\ DOMAIN delivered \subseteq DeliveryType
  BY DEF FecTypeOK, BlockType
<1>2. /\ switched \in DecoderType /\ switched.group = b.group
      /\ switched.marks = (IF b.group = dec.group THEN dec.marks ELSE {})
  <2>1. CASE b.group = dec.group
    BY <1>1, <2>1, SwitchedIs
  <2>2. CASE b.group # dec.group
    BY <1>1, <2>2, SwitchedIs
  <2> QED
    BY <2>1, <2>2
<1> HIDE DEF switched
<1>3. stored \in DecoderType /\ stored.group = b.group /\ stored.marks = switched.marks \cup {b.index}
  BY <1>2, StoredIs
<1>4. dec' = IF Recoverable(stored) THEN Recovered(stored) ELSE stored
  BY DEF Decode, DecoderAfter, switched
<1> HIDE DEF stored
<1>5. dec' \in DecoderType /\ dec'.group = b.group /\ dec'.marks = stored.marks
  BY <1>3, <1>4, RecoveredIs
<1>6. out \in Seq(DeliveryType) /\ \A i, j \in DOMAIN out : out[i] = out[j] => i = j
  BY <1>1, DeliveriesAre
<1>7. delivered' = BagAfter(delivered, out)
  BY DEF Decode
<1> HIDE DEF out
<1>8. /\ DOMAIN delivered' = DOMAIN delivered \cup ToSet(out)
      /\ delivered' \in [DOMAIN delivered' -> Nat \ {0}]
      /\ \A p \in DOMAIN delivered \ ToSet(out) : delivered'[p] = delivered[p]
      /\ \A p \in DOMAIN delivered \cap ToSet(out) : delivered'[p] = delivered[p] + 1
      /\ \A p \in ToSet(out) \ DOMAIN delivered : delivered'[p] = 1
  <2>1. PICK bag : bag = delivered
    OBVIOUS
  <2>2. /\ DOMAIN BagAfter(bag, out) = DOMAIN bag \cup ToSet(out)
        /\ BagAfter(bag, out) \in [DOMAIN BagAfter(bag, out) -> Nat \ {0}]
        /\ \A p \in DOMAIN bag \ ToSet(out) : BagAfter(bag, out)[p] = bag[p]
        /\ \A p \in DOMAIN bag \cap ToSet(out) : BagAfter(bag, out)[p] = bag[p] + 1
        /\ \A p \in ToSet(out) \ DOMAIN bag : BagAfter(bag, out)[p] = 1
    <3>1. bag \in [DOMAIN bag -> Nat \ {0}]
      BY <1>1, <2>1
    <3> QED
      BY <1>6, <3>1, BagAfterIs, Zenon
  <2> QED
    BY <1>7, <2>1, <2>2
<1>9. ToSet(out) \subseteq DeliveryType
  BY <1>6 DEF ToSet
<1>10. \A p \in DOMAIN delivered : delivered[p] \in Nat \ {0}
  BY <1>1
<1> QED
  BY <1>1, <1>2, <1>3, <1>5, <1>8, <1>9, <1>10 DEF out

\* Once the raw blocks are counted as complete, a block that is no new raw one
\* delivers nothing.
LEMMA QuietStep ==
  ASSUME FecTypeOK, NEW b \in BlockType, Decode(b), b.group = dec.group, dec.raw = FecK,
         ~(Fresh(dec, b) /\ b.index \in RawIndices)
  PROVE  ToSet(Deliveries(dec, b)) = {} /\ dec'.raw = FecK
<1>1. b.group \in Nat /\ dec \in DecoderType
  BY DEF FecTypeOK, BlockType
<1>2. Switched(dec, b.group) = dec
  BY DEF Switched
<1>3. Stored(dec, b).raw = FecK
  BY <1>1, StoredIs
<1>4. ~Recoverable(Stored(dec, b))
  BY <1>3 DEF Recoverable
<1>5. dec' = Stored(dec, b)
  BY <1>2, <1>4 DEF Decode, DecoderAfter
<1>6. \A p : p \notin ToSet(Deliveries(dec, b))
  BY <1>1, <1>2, <1>4, DeliveriesAre
<1> QED
  BY <1>3, <1>5, <1>6

\* What was delivered stays delivered: nothing delivered twice makes up for it.
LEMMA OnceBefore ==
  ASSUME FecTypeOK, NEW b \in BlockType, Decode(b), DeliveredOnce'
  PROVE  DeliveredOnce /\ DOMAIN delivered \cap ToSet(Deliveries(dec, b)) = {}
<1> DEFINE out == ToSet(Deliveries(dec, b))
<1>1. /\ DOMAIN delivered' = DOMAIN delivered \cup out
      /\ \A p \in DOMAIN delivered : delivered[p] \in Nat \ {0}
      /\ \A p \in DOMAIN delivered \ out : delivered'[p] = delivered[p]
      /\ \A p \in DOMAIN delivered \cap out : delivered'[p] = delivered[p] + 1
  BY DecodeIs
<1> HIDE DEF out
<1>2. \A p \in DOMAIN delivered : delivered'[p] = 1
  BY <1>1 DEF DeliveredOnce, BagToSet
<1>3. ASSUME NEW p \in DOMAIN delivered \cap out
      PROVE  FALSE
  <2>1. delivered'[p] = delivered[p] + 1 /\ delivered'[p] = 1 /\ delivered[p] \in Nat \ {0}
    BY <1>1, <1>2
  <2> QED
    BY <2>1
<1>4. \A p \in DOMAIN delivered : delivered[p] = 1
  BY <1>1, <1>2, <1>3
<1>5. DeliveredOnce
  BY <1>1, <1>4 DEF DeliveredOnce, BagToSet
<1> QED
  BY <1>3, <1>5 DEF out

\* What Decode keeps of the invariant, whatever block arrives.
LEMMA DecodeKeeps ==
  ASSUME FecTypeOK, GroupComplete, OneRecovery, NEW b \in BlockType, Decode(b)
  PROVE  GroupComplete' /\ OneRecovery'
<1> DEFINE out == ToSet(Deliveries(dec, b))
<1>1. /\ dec' \in DecoderType /\ dec'.group = b.group /\ dec \in DecoderType
      /\ dec'.marks = (IF b.group = dec.group THEN dec.marks ELSE {}) \cup {b.index}
      /\ DOMAIN delivered' = DOMAIN delivered \cup out
  BY DecodeIs DEF FecTypeOK
<1>2. \A p \in out : \E i \in RawIndices : p.index = i
  <2>1. \A p \in out : p \in DeliveryType
    BY DecodeIs
  <2> QED
    BY <2>1 DEF DeliveryType
<1>3. CASE Untouched \/ b.group # dec.group
  <2>1. /\ \/ Untouched'
           \/ (AllGiven /\ Cardinality(dec.marks) >= FecK /\ dec.raw = FecK /\ dec.marks \ RawIndices # {})'
        /\ \A p \in out : p.contents = Block(p.group, p.index)
    BY <1>3, UntouchedStep
  <2> HIDE DEF out
  <2>2. GroupComplete'
    BY <2>1 DEF GroupComplete
  <2>3. ASSUME DeliveredOnce'
        PROVE  DeliveredTrue'
    <3>1. DeliveredTrue
      BY <2>3, OnceBefore DEF OneRecovery
    <3> QED
      BY <1>1, <2>1, <3>1 DEF DeliveredTrue, BagToSet
  <2> QED
    BY <2>1, <2>2, <2>3 DEF OneRecovery
<1>4. CASE ~Untouched /\ b.group = dec.group
  <2>1. AllGiven /\ Cardinality(dec.marks) >= FecK
    BY <1>4 DEF GroupComplete
  <2>2. AllGiven'
    BY <1>1, <1>4, <2>1 DEF AllGiven, Given, BagIn, BagToSet
  <2>3. Cardinality(dec'.marks) >= FecK
    <3>1. dec.marks \in SUBSET dec'.marks /\ IsFiniteSet(dec'.marks)
      BY <1>1, <1>4, MarksCounted
    <3>2. Cardinality(dec.marks) <= Cardinality(dec'.marks)
      BY <3>1, FS_Subset
    <3>3. Cardinality(dec.marks) \in Nat /\ Cardinality(dec'.marks) \in Nat /\ FecK \in Nat
      BY <1>1, MarksCounted, FecAssumption
    <3> QED
      BY <2>1, <3>2, <3>3
  <2>4. GroupComplete'
    BY <2>2, <2>3 DEF GroupComplete
  <2>5. ASSUME DeliveredOnce'
        PROVE  DeliveredTrue' /\ dec'.raw = FecK
    <3>1. DeliveredOnce /\ DOMAIN delivered \cap out = {}
      BY <2>5, OnceBefore
    <3>2. DeliveredTrue /\ dec.raw = FecK
      BY <1>4, <3>1 DEF OneRecovery
    <3>3. ~(Fresh(dec, b) /\ b.index \in RawIndices)
      <4> SUFFICES ASSUME Fresh(dec, b), b.index \in RawIndices
                   PROVE  FALSE
        OBVIOUS
      <4>1. b = Block(dec.group, b.index)
        BY <1>4 DEF Block, BlockType
      <4>2. Delivery(dec.group, b.index, Block(dec.group, b.index)) \in DOMAIN delivered
        BY <2>1 DEF AllGiven, Given, BagIn, BagToSet
      <4>3. Switched(dec, b.group) = dec
        BY <1>4 DEF Switched
      <4>4. Delivery(b.group, b.index, b) \in out
        BY <1>1, <4>3, DeliveriesAre
      <4> QED
        BY <1>4, <3>1, <4>1, <4>2, <4>4
    <3>4. out = {} /\ dec'.raw = FecK
      BY <1>4, <3>2, <3>3, QuietStep
    <3> HIDE DEF out
    <3> QED
      BY <1>1, <3>2, <3>4 DEF DeliveredTrue, BagToSet
  <2> QED
    BY <2>2, <2>4, <2>5 DEF OneRecovery
<1> QED
  BY <1>3, <1>4

\* What Decode keeps on a network that keeps the order.
LEMMA DecodeInOrder ==
  ASSUME FecTypeOK, InOrder, inOrder, NEW b \in BlockType, Decode(b),
         dec.group <= b.group, \A j \in dec.marks : NotAfter(Block(dec.group, j), b)
  PROVE  /\ DeliveredOnce'
         /\ \A p \in BagToSet(delivered') : p.group <= dec'.group
         /\ \/ Untouched' /\ \A p \in BagToSet(delivered') : p.group = dec'.group => p.index \in dec'.marks
            \/ dec'.raw = FecK /\ dec'.marks \ RawIndices # {}
<1> DEFINE out == ToSet(Deliveries(dec, b))
<1>1. /\ dec' \in DecoderType /\ dec'.group = b.group /\ dec \in DecoderType
      /\ dec'.marks = (IF b.group = dec.group THEN dec.marks ELSE {}) \cup {b.index}
      /\ DOMAIN delivered' = DOMAIN delivered \cup out
      /\ \A p \in DOMAIN delivered \ out : delivered'[p] = delivered[p]
      /\ \A p \in out \ DOMAIN delivered : delivered'[p] = 1
  BY DecodeIs DEF FecTypeOK
<1>2. /\ DeliveredOnce
      /\ \A p \in DOMAIN delivered : p.group <= dec.group
      /\ \/ Untouched /\ \A p \in DOMAIN delivered : p.group = dec.group => p.index \in dec.marks
         \/ dec.raw = FecK /\ dec.marks \ RawIndices # {}
  BY DEF InOrder, BagToSet
<1>3. dec.group \in Nat /\ b.group \in Nat /\ \A p \in DOMAIN delivered' : p.group \in Nat
  BY <1>1, DecodeIs DEF DecoderType, BlockType, DeliveryType
<1>4. \A i, j \in DOMAIN Deliveries(dec, b) : Deliveries(dec, b)[i] = Deliveries(dec, b)[j] => i = j
  BY <1>1, DeliveriesAre
<1>5. CASE b.group # dec.group \/ (Untouched /\ \A p \in DOMAIN delivered : p.group = dec.group => p.index \in dec.marks)
  <2>1. /\ \/ Untouched'
           \/ (AllGiven /\ Cardinality(dec.marks) >= FecK /\ dec.raw = FecK /\ dec.marks \ RawIndices # {})'
        /\ \A p \in out :
             /\ p.group = b.group /\ p.contents = Block(p.group, p.index)
             /\ b.group = dec.group => p.index \notin dec.marks
             /\ Untouched' => p.index \in dec'.marks
    BY <1>5, UntouchedStep
  <2> HIDE DEF out
  <2>2. ASSUME NEW p \in out, NEW q \in DOMAIN delivered
        PROVE  ~(p.group = q.group /\ p.index = q.index)
    <3>1. CASE b.group = dec.group
      BY <1>5, <2>1, <3>1
    <3>2. CASE b.group # dec.group
      <4>1. q.group <= dec.group /\ q.group \in Nat /\ dec.group < b.group /\ p.group = b.group
        BY <1>1, <1>2, <1>3, <2>1, <3>2
      <4> QED
        BY <1>3, <4>1
    <3> QED
      BY <3>1, <3>2
  <2>3. \A p \in DOMAIN delivered' : delivered'[p] = 1
    BY <1>1, <1>2, <2>2 DEF DeliveredOnce, BagToSet
  <2>4. ASSUME NEW p \in out, NEW q \in out, p.index = q.index
        PROVE  p = q
    <3>1. p.group = q.group /\ p.contents = q.contents
      BY <2>1, <2>4
    <3>2. p \in DeliveryType /\ q \in DeliveryType
      BY DecodeIs DEF out
    <3> QED
      BY <2>4, <3>1, <3>2 DEF DeliveryType
  <2>5. \A p, q \in DOMAIN delivered' : p.group = q.group /\ p.index = q.index => p = q
    BY <1>1, <1>2, <2>2, <2>4 DEF DeliveredOnce, BagToSet
  <2>6. \A p \in DOMAIN delivered' : p.group <= b.group
    <3>1. \A p \in DOMAIN delivered : p.group <= dec.group /\ p.group \in Nat
      BY <1>1, <1>2, <1>3
    <3>2. \A p \in DOMAIN delivered : p.group <= b.group
      BY <1>3, <3>1
    <3>3. \A p \in out : p.group <= b.group
      BY <1>3, <2>1
    <3> QED
      BY <1>1, <3>2, <3>3
  <2>7. ASSUME Untouched', NEW p \in DOMAIN delivered', p.group = b.group
        PROVE  p.index \in dec'.marks
    <3>1. CASE p \in out
      BY <2>1, <2>7, <3>1
    <3>2. CASE p \in DOMAIN delivered
      <4>1. p.group <= dec.group
        BY <1>2, <3>2
      <4>2. b.group = dec.group
        BY <1>3, <2>7, <4>1
      <4> QED
        BY <1>1, <1>5, <2>7, <3>2, <4>2
    <3> QED
      BY <1>1, <2>7, <3>1, <3>2
  <2> QED
    BY <1>1, <2>1, <2>3, <2>5, <2>6, <2>7 DEF DeliveredOnce, BagToSet
<1>6. CASE b.group = dec.group /\ dec.raw = FecK /\ dec.marks \ RawIndices # {}
  <2>1. b.index \notin RawIndices
    <3>1. PICK j \in dec.marks : j \notin RawIndices
      BY <1>6
    <3>2. j <= b.index
      <4>1. NotAfter(Block(dec.group, j), b)
        OBVIOUS
      <4> QED
        BY <1>3, <1>6, <4>1 DEF NotAfter, Block
    <3>3. j \in Indices /\ b.index \in Indices
      BY <1>1 DEF DecoderType, BlockType
    <3> QED
      BY <3>1, <3>2, <3>3, FecAssumption DEF Indices, RawIndices
  <2>2. out = {} /\ dec'.raw = FecK
    BY <1>6, <2>1, QuietStep
  <2> HIDE DEF out
  <2>3. DOMAIN delivered' = DOMAIN delivered /\ \A p \in DOMAIN delivered : delivered'[p] = delivered[p]
    BY <1>1, <2>2
  <2> QED
    BY <1>1, <1>2, <1>6, <2>2, <2>3 DEF DeliveredOnce, BagToSet
<1> QED
  BY <1>2, <1>5, <1>6
-----------------------------------------------------------------------------
(* The network.                                                            *)

\* What Encode hands over: the blocks that follow the last one, in order.
LEMMA EncodedIs ==
  ASSUME NEW e \in [group : Nat, count : RawIndices]
  PROVE  /\ Encoded(e) \in Seq(BlockType)
         /\ Counted(e) \in [group : Nat, count : RawIndices]
         /\ e.group <= Counted(e).group
         /\ e.group = Counted(e).group => e.count < Counted(e).count
         /\ \A i \in 1 .. Len(Encoded(e)) :
              /\ Encoded(e)[i].group = e.group /\ Encoded(e)[i].index = e.count + i - 1
              /\ \/ e.group < Counted(e).group
                 \/ e.group = Counted(e).group /\ Encoded(e)[i].index < Counted(e).count
<1> DEFINE first == <<Block(e.group, e.count)>>
           rest == IF e.count + 1 = FecK THEN [i \in 1 .. FecN - FecK |-> Block(e.group, FecK + i - 1)] ELSE <<>>
           n == IF e.count + 1 = FecK THEN FecN - FecK ELSE 0
           out == Encoded(e)
<1>1. e.group \in Nat /\ e.count \in Nat /\ e.count < FecK /\ FecK \in Nat \ {0} /\ FecN \in Nat /\ FecK <= FecN
  BY FecAssumption DEF RawIndices
<1>2. n \in Nat /\ \A i \in 1 .. n : e.count + 1 = FecK /\ FecK + i - 1 \in Indices
  BY <1>1 DEF Indices
<1>3. Block(e.group, e.count) \in BlockType
  BY <1>1 DEF Block, BlockType, Indices
<1>4. first \in Seq(BlockType) /\ Len(first) = 1 /\ first[1] = Block(e.group, e.count)
  BY <1>3
<1>5. rest \in Seq(BlockType) /\ Len(rest) = n /\ \A i \in 1 .. n : rest[i] = Block(e.group, FecK + i - 1)
  <2>1. CASE e.count + 1 = FecK
    <3>1. rest = [i \in 1 .. n |-> Block(e.group, FecK + i - 1)]
      BY <2>1
    <3>2. \A i \in 1 .. n : Block(e.group, FecK + i - 1) \in BlockType
      BY <1>1, <1>2 DEF Block, BlockType
    <3> HIDE DEF n, rest
    <3> QED
      BY <1>2, <3>1, <3>2
  <2>2. CASE e.count + 1 # FecK
    BY <2>2
  <2> QED
    BY <2>1, <2>2
<1>6. out = first \o rest
  BY DEF Encoded
<1> HIDE DEF first, rest, n, out
<1>7. /\ out \in Seq(BlockType) /\ Len(out) = Len(first) + Len(rest)
      /\ \A i \in 1 .. Len(first) + Len(rest) : out[i] = IF i <= Len(first) THEN first[i] ELSE rest[i - Len(first)]
  BY <1>4, <1>5, <1>6, ConcatProperties
<1>8. ASSUME NEW i \in 1 .. Len(out)
      PROVE  /\ out[i] = Block(e.group, e.count + i - 1)
             /\ i # 1 => e.count + 1 = FecK
  <2>1. i \in 1 .. n + 1 /\ out[i] = IF i <= 1 THEN first[i] ELSE rest[i - 1]
    <3>1. Len(first) = 1 /\ Len(rest) = n
      BY <1>4, <1>5
    <3>2. Len(out) = 1 + n /\ n \in Nat
      BY <1>2, <1>7, <3>1
    <3>3. i \in 1 .. n + 1 /\ i \in 1 .. 1 + n
      BY ONLY <3>2, i \in 1 .. Len(out)
    <3>4. out[i] = IF i <= 1 THEN first[i] ELSE rest[i - 1]
      BY ONLY <1>7, <3>1, <3>3
    <3> QED
      BY <3>3, <3>4
  <2>2. CASE i = 1
    BY <1>1, <1>4, <2>1, <2>2
  <2>3. CASE i # 1
    <3>1. i - 1 \in 1 .. n /\ ~(i <= 1)
      BY <1>2, <2>1, <2>3
    <3>2. out[i] = Block(e.group, FecK + (i - 1) - 1) /\ e.count + 1 = FecK
      BY <1>2, <1>5, <2>1, <3>1
    <3>3. FecK + (i - 1) - 1 = e.count + i - 1
      BY <1>1, <1>2, <2>1, <3>2
    <3> QED
      BY <3>2, <3>3
  <2> QED
    BY <2>2, <2>3
<1>9. /\ Counted(e) \in [group : Nat, count : RawIndices]
      /\ e.count + 1 = FecK => Counted(e).group = e.group + 1
      /\ e.count + 1 # FecK => Counted(e).group = e.group /\ Counted(e).count = e.count + 1
  <2>1. CASE e.count + 1 = FecK
    BY <1>1, <2>1 DEF Counted, RawIndices
  <2>2. CASE e.count + 1 # FecK
    <3>1. Counted(e) = [group |-> e.group, count |-> e.count + 1]
      BY <2>2 DEF Counted
    <3> QED
      BY <1>1, <2>2, <3>1 DEF RawIndices
  <2> QED
    BY <2>1, <2>2
<1>10. ASSUME NEW i \in 1 .. Len(out)
       PROVE  /\ out[i].group = e.group /\ out[i].index = e.count + i - 1
              /\ \/ e.group < Counted(e).group
                 \/ e.group = Counted(e).group /\ out[i].index < Counted(e).count
  <2>1. out[i].group = e.group /\ out[i].index = e.count + i - 1
    <3>1. \A g, k : Block(g, k).group = g /\ Block(g, k).index = k
      BY DEF Block
    <3> QED
      BY <1>8, <3>1
  <2>2. CASE e.count + 1 = FecK
    BY <1>1, <1>9, <2>1, <2>2
  <2>3. CASE e.count + 1 # FecK
    BY <1>1, <1>8, <1>9, <2>1, <2>3
  <2> QED
    BY <2>2, <2>3
<1>11. e.group <= Counted(e).group /\ (e.group = Counted(e).group => e.count < Counted(e).count)
  BY <1>1, <1>9
<1> QED
  BY <1>7, <1>9, <1>10, <1>11 DEF out

\* A step of the encoder keeps the network in order.
LEMMA EncodeKeeps ==
  ASSUME FecIInv, Encode
  PROVE  FecIInv'
<1> USE DEF FecIInv
<1> DEFINE out == Encoded(enc)
<1>1. /\ enc \in [group : Nat, count : RawIndices] /\ net \in Seq(BlockType)
      /\ enc.group \in Nat /\ enc.count \in Nat /\ Len(net) \in Nat
  BY DEF FecTypeOK, RawIndices
<1>2. enc' = Counted(enc) /\ UNCHANGED <<dec, delivered, inOrder>>
  BY DEF Encode
<1>3. /\ out \in Seq(BlockType)
      /\ enc' \in [group : Nat, count : RawIndices]
      /\ enc.group <= enc'.group
      /\ enc.group = enc'.group => enc.count < enc'.count
      /\ \A i \in 1 .. Len(out) :
           /\ out[i].group = enc.group /\ out[i].index = enc.count + i - 1
           /\ enc.group < enc'.group \/ (enc.group = enc'.group /\ out[i].index < enc'.count)
  BY <1>1, <1>2, EncodedIs
<1>4. PICK lost \in SUBSET (1 .. Len(out)) :
        LET kept == (1 .. Len(out)) \ lost
        IN  net' = net \o [i \in 1 .. Cardinality(kept) |-> out[Ascending(kept)[i]]]
  BY DEF Encode, Transmit
<1> HIDE DEF out
<1> DEFINE kept == (1 .. Len(out)) \ lost
           c == Cardinality(kept)
           a == Ascending(kept)
           new == [i \in 1 .. c |-> out[a[i]]]
<1>5. kept \in SUBSET Nat /\ IsFiniteSet(kept) /\ kept \subseteq 1 .. Len(out)
  <2>1. PICK last \in Nat : last = Len(out)
    BY <1>3
  <2>2. IsFiniteSet(1 .. last)
    <3>1. 1 \in Int /\ last \in Int
      OBVIOUS
    <3> QED
      BY ONLY <3>1, FS_Interval
  <2>3. IsFiniteSet(1 .. Len(out)) /\ kept \in SUBSET (1 .. Len(out)) /\ 1 .. last \subseteq Nat
    BY <2>1, <2>2
  <2> QED
    BY <2>1, <2>3, FS_Subset
<1>6. c \in Nat /\ a \in [1 .. c -> kept] /\ \A i, j \in 1 .. c : i < j => a[i] < a[j]
  <2> HIDE DEF kept
  <2> QED
    BY <1>5, AscendingIs
<1>7. net' = net \o new
  BY <1>4
<1> HIDE DEF kept, c, a
<1>8. \A i \in 1 .. c : a[i] \in 1 .. Len(out) /\ new[i] = out[a[i]] /\ new[i] \in BlockType
  <2>1. \A i \in 1 .. c : a[i] \in 1 .. Len(out) /\ new[i] = out[a[i]]
    BY <1>5, <1>6
  <2>2. \A i \in 1 .. Len(out) : out[i] \in BlockType
    BY <1>3
  <2> QED
    BY <2>1, <2>2
<1>9. new \in Seq(BlockType) /\ Len(new) = c
  BY <1>6, <1>8
<1> HIDE DEF new
<1>10. /\ net' \in Seq(BlockType) /\ Len(net') = Len(net) + Len(new)
       /\ \A i \in 1 .. Len(net) + Len(new) : net'[i] = IF i <= Len(net) THEN net[i] ELSE new[i - Len(net)]
  BY <1>1, <1>7, <1>9, ConcatProperties
<1> DEFINE n == Len(net)
<1>11. ASSUME NEW i \in 1 .. Len(net')
       PROVE  \/ i \in 1 .. n /\ net'[i] = net[i]
              \/ /\ i > n /\ i - n \in 1 .. c /\ net'[i] = out[a[i - n]]
                 /\ a[i - n] \in 1 .. Len(out)
  BY <1>1, <1>6, <1>8, <1>9, <1>10
<1>12. /\ \A i \in 1 .. n : \/ net[i].group < enc.group
                            \/ net[i].group = enc.group /\ net[i].index < enc.count
       /\ \A i, j \in 1 .. n : i < j => NotAfter(net[i], net[j])
       /\ \A i \in 1 .. n : net[i].group \in Nat /\ net[i].index \in Nat
  <2>1. \A i \in 1 .. n : net[i] \in BlockType
    BY <1>1
  <2>2. \A b \in BlockType : b.group \in Nat /\ b.index \in Nat
    BY DEF BlockType, Indices
  <2> QED
    BY <2>1, <2>2 DEF NetOrdered
<1>13. ASSUME NEW i \in 1 .. Len(net')
       PROVE  net'[i].group < enc'.group \/ (net'[i].group = enc'.group /\ net'[i].index < enc'.count)
  <2>1. CASE i \in 1 .. n /\ net'[i] = net[i]
    <3>1. /\ net[i].group < enc.group \/ (net[i].group = enc.group /\ net[i].index < enc.count)
          /\ net[i].group \in Nat /\ net[i].index \in Nat
      BY <1>12, <2>1
    <3>2. enc'.group \in Nat /\ enc'.count \in Nat
      BY <1>3 DEF RawIndices
    <3> QED
      BY <1>1, <1>3, <2>1, <3>1, <3>2
  <2>2. CASE i - n \in 1 .. c /\ net'[i] = out[a[i - n]] /\ a[i - n] \in 1 .. Len(out)
    BY <1>3, <2>2
  <2> QED
    BY <1>11, <2>1, <2>2
<1>14. ASSUME NEW i \in 1 .. Len(net'), NEW j \in 1 .. Len(net'), i < j
       PROVE  NotAfter(net'[i], net'[j])
  <2>1. CASE j \in 1 .. n /\ net'[j] = net[j]
    <3>1. i \in 1 .. n /\ net'[i] = net[i]
      BY <1>1, <1>10, <1>14, <2>1
    <3> QED
      BY <1>12, <1>14, <2>1, <3>1
  <2>2. CASE j > n /\ j - n \in 1 .. c /\ net'[j] = out[a[j - n]] /\ a[j - n] \in 1 .. Len(out)
    <3>1. net'[j].group = enc.group /\ net'[j].index = enc.count + a[j - n] - 1 /\ a[j - n] \in Nat \ {0}
      BY <1>3, <2>2
    <3>2. CASE i \in 1 .. n /\ net'[i] = net[i]
      <4>1. net[i].group < enc.group \/ (net[i].group = enc.group /\ net[i].index < enc.count)
        BY <1>12, <3>2
      <4>2. net[i].index \in Nat
        BY <1>12, <3>2
      <4> QED
        BY <1>1, <3>1, <3>2, <4>1, <4>2 DEF NotAfter
    <3>3. CASE i > n /\ i - n \in 1 .. c /\ net'[i] = out[a[i - n]] /\ a[i - n] \in 1 .. Len(out)
      <4>1. net'[i].group = enc.group /\ net'[i].index = enc.count + a[i - n] - 1 /\ a[i - n] \in Nat \ {0}
        <5>1. PICK k \in 1 .. Len(out) : k = a[i - n]
          BY <3>3
        <5>2. out[k].group = enc.group /\ out[k].index = enc.count + k - 1 /\ k \in Nat \ {0}
          BY <1>3
        <5> QED
          BY <3>3, <5>1, <5>2
      <4>2. i - n < j - n
        BY <1>1, <1>14
      <4>3. a[i - n] < a[j - n]
        BY <1>6, <2>2, <3>3, <4>2
      <4> QED
        BY <1>1, <3>1, <4>1, <4>3 DEF NotAfter
    <3> QED
      BY <1>11, <3>2, <3>3
  <2> QED
    BY <1>11, <2>1, <2>2
<1>15. NetOrdered'
  BY <1>13, <1>14 DEF NetOrdered
<1>16. FecTypeOK'
  BY <1>2, <1>3, <1>10 DEF FecTypeOK
<1>17. (DeliveredOnce <=> DeliveredOnce') /\ (DeliveredTrue <=> DeliveredTrue')
  BY <1>2 DEF DeliveredOnce, DeliveredTrue, BagToSet
<1>18. (Untouched <=> Untouched') /\ (AllGiven <=> AllGiven')
  BY <1>2 DEF Untouched, AllGiven, Given, BagIn, BagToSet, Sound
<1>19. GroupComplete' /\ OneRecovery'
  BY <1>2, <1>17, <1>18 DEF GroupComplete, OneRecovery
<1>20. InOrder'
  <2> SUFFICES ASSUME inOrder
               PROVE  InOrder'
    BY <1>2 DEF InOrder
  <2>1. /\ DeliveredOnce
        /\ \A p \in BagToSet(delivered) : p.group <= dec.group
        /\ \/ Untouched /\ \A p \in BagToSet(delivered) : p.group = dec.group => p.index \in dec.marks
           \/ dec.raw = FecK /\ dec.marks \ RawIndices # {}
        /\ \A i \in 1 .. n, j \in dec.marks : NotAfter(Block(dec.group, j), net[i])
        /\ \A i \in 1 .. n : dec.group <= net[i].group
        /\ dec.group < enc.group \/ (dec.group = enc.group /\ \A j \in dec.marks : j < enc.count)
    BY DEF InOrder
  <2>2. dec.group \in Nat /\ \A j \in dec.marks : j \in Nat
    BY DEF FecTypeOK, DecoderType, Indices
  <2>3. ASSUME NEW i \in 1 .. Len(net')
        PROVE  dec.group <= net'[i].group /\ \A j \in dec.marks : NotAfter(Block(dec.group, j), net'[i])
    <3>1. CASE i \in 1 .. n /\ net'[i] = net[i]
      BY <2>1, <3>1
    <3>2. CASE i - n \in 1 .. c /\ net'[i] = out[a[i - n]] /\ a[i - n] \in 1 .. Len(out)
      <4>1. net'[i].group = enc.group /\ net'[i].index = enc.count + a[i - n] - 1 /\ a[i - n] \in Nat \ {0}
        BY <1>3, <3>2
      <4> QED
        BY <1>1, <2>1, <2>2, <4>1 DEF NotAfter, Block
    <3> QED
      BY <1>11, <3>1, <3>2
  <2>4. dec.group < enc'.group \/ (dec.group = enc'.group /\ \A j \in dec.marks : j < enc'.count)
    BY <1>1, <1>3, <2>1, <2>2 DEF RawIndices
  <2>5. BagToSet(delivered') = BagToSet(delivered) /\ dec' = dec
    BY <1>2
  <2> QED
    BY <1>17, <1>18, <2>1, <2>3, <2>4, <2>5 DEF InOrder
<1> QED
  BY <1>15, <1>16, <1>19, <1>20
\* Taking a block out of the network keeps the others in their order.
LEMMA RemoveAtIs ==
  ASSUME NEW s \in Seq(BlockType), NEW k \in 1 .. Len(s)
  PROVE  /\ RemoveAt(s, k) \in Seq(BlockType)
         /\ Len(RemoveAt(s, k)) = Len(s) - 1
         /\ \A i \in 1 .. Len(s) - 1 : RemoveAt(s, k)[i] = IF i < k THEN s[i] ELSE s[i + 1]
<1> DEFINE t == RemoveAt(s, k)
<1>1. t = SubSeq(s, 1, k - 1) \o SubSeq(s, k + 1, Len(s))
  BY DEF RemoveAt
<1> HIDE DEF t
<1>2. /\ t \in Seq(BlockType) /\ Len(t) = Len(s) - 1
      /\ \A i \in 1 .. Len(s) - 1 : t[i] = IF i < k THEN s[i] ELSE s[i + 1]
  BY <1>1, CutOutIs
<1> QED
  BY <1>2 DEF t

\* A block that arrives.
LEMMA ReceiveKeeps ==
  ASSUME FecIInv, Receive
  PROVE  FecIInv'
<1> USE DEF FecIInv
<1>1. PICK k \in 1 .. Len(net), copy \in BOOLEAN :
        /\ inOrder => k = 1
        /\ Decode(net[k])
        /\ net' = IF copy THEN net ELSE RemoveAt(net, k)
        /\ UNCHANGED <<enc, inOrder>>
  BY DEF Receive
<1>2. net \in Seq(BlockType) /\ Len(net) \in Nat /\ enc \in [group : Nat, count : RawIndices]
  BY DEF FecTypeOK
<1>3. PICK b \in BlockType : b = net[k]
  BY <1>2
<1>4. Decode(b)
  BY <1>1, <1>3
<1>5. GroupComplete' /\ OneRecovery'
  BY <1>4, DecodeKeeps
<1>6. /\ dec' \in DecoderType /\ dec'.group = b.group
      /\ dec'.marks = (IF b.group = dec.group THEN dec.marks ELSE {}) \cup {b.index}
      /\ delivered' \in [DOMAIN delivered' -> Nat \ {0}]
      /\ DOMAIN delivered' \subseteq DeliveryType
  BY <1>4, DecodeIs
<1>7. \A i \in 1 .. Len(net) : net[i] \in BlockType /\ net[i].group \in Nat /\ net[i].index \in Nat
  <2>1. \A i \in 1 .. Len(net) : net[i] \in BlockType
    BY <1>2
  <2>2. \A x \in BlockType : x.group \in Nat /\ x.index \in Nat
    BY DEF BlockType, Indices
  <2> QED
    BY <2>1, <2>2
<1>8. /\ net' \in Seq(BlockType)
      /\ \E f \in [1 .. Len(net') -> 1 .. Len(net)] :
           /\ \A i \in 1 .. Len(net') : net'[i] = net[f[i]]
           /\ \A i, j \in 1 .. Len(net') : i < j => f[i] < f[j]
  <2>1. CASE copy
    <3>1. net' = net
      BY <1>1, <2>1
    <3> DEFINE f == [i \in 1 .. Len(net) |-> i]
    <3>2. f \in [1 .. Len(net') -> 1 .. Len(net)]
      BY <3>1
    <3> QED
      BY <1>2, <3>1, <3>2
  <2>2. CASE ~copy
    <3>1. net' = RemoveAt(net, k)
      BY <1>1, <2>2
    <3>2. /\ net' \in Seq(BlockType) /\ Len(net') = Len(net) - 1
          /\ \A i \in 1 .. Len(net) - 1 : net'[i] = IF i < k THEN net[i] ELSE net[i + 1]
      BY <1>2, <3>1, RemoveAtIs
    <3> DEFINE f == [i \in 1 .. Len(net) - 1 |-> IF i < k THEN i ELSE i + 1]
    <3>3. \A i \in 1 .. Len(net) - 1 : f[i] \in 1 .. Len(net) /\ net'[i] = net[f[i]]
      BY <1>2, <3>2
    <3>4. \A i, j \in 1 .. Len(net) - 1 : i < j => f[i] < f[j]
      BY <1>2
    <3>5. f \in [1 .. Len(net') -> 1 .. Len(net)]
      BY <3>2, <3>3
    <3> HIDE DEF f
    <3> QED
      BY <3>2, <3>3, <3>4, <3>5
  <2> QED
    BY <2>1, <2>2
<1>9. PICK f \in [1 .. Len(net') -> 1 .. Len(net)] :
        /\ \A i \in 1 .. Len(net') : net'[i] = net[f[i]]
        /\ \A i, j \in 1 .. Len(net') : i < j => f[i] < f[j]
  BY <1>8
<1>10. NetOrdered'
  <2>1. \A i, j \in 1 .. Len(net) : i < j => NotAfter(net[i], net[j])
    BY DEF NetOrdered
  <2>2. \A i, j \in 1 .. Len(net') : i < j => NotAfter(net'[i], net'[j])
    BY <1>9, <2>1
  <2>3. \A i \in 1 .. Len(net') :
          \/ net'[i].group < enc'.group
          \/ net'[i].group = enc'.group /\ net'[i].index < enc'.count
    <3>1. \A i \in 1 .. Len(net) :
            \/ net[i].group < enc.group
            \/ net[i].group = enc.group /\ net[i].index < enc.count
      BY DEF NetOrdered
    <3>2. enc' = enc
      BY <1>1
    <3>3. ASSUME NEW i \in 1 .. Len(net')
          PROVE  \/ net'[i].group < enc.group
                 \/ net'[i].group = enc.group /\ net'[i].index < enc.count
      <4>1. f[i] \in 1 .. Len(net) /\ net'[i] = net[f[i]]
        BY <1>9
      <4> QED
        BY <3>1, <4>1
    <3> QED
      BY <3>2, <3>3
  <2> QED
    BY <2>2, <2>3 DEF NetOrdered
<1>11. FecTypeOK'
  BY <1>1, <1>6, <1>8 DEF FecTypeOK
<1>12. InOrder'
  <2> SUFFICES ASSUME inOrder
               PROVE  InOrder'
    BY <1>1 DEF InOrder
  <2>1. k = 1 /\ b = net[1] /\ 1 \in 1 .. Len(net)
    BY <1>1, <1>3
  <2>2. /\ \A j \in dec.marks : NotAfter(Block(dec.group, j), b)
        /\ dec.group <= b.group
        /\ dec.group < enc.group \/ (dec.group = enc.group /\ \A j \in dec.marks : j < enc.count)
    BY <2>1 DEF InOrder
  <2>3. /\ DeliveredOnce'
        /\ \A p \in BagToSet(delivered') : p.group <= dec'.group
        /\ \/ Untouched' /\ \A p \in BagToSet(delivered') : p.group = dec'.group => p.index \in dec'.marks
           \/ dec'.raw = FecK /\ dec'.marks \ RawIndices # {}
    BY <1>4, <2>2, DecodeInOrder
  <2>4. ASSUME NEW i \in 1 .. Len(net)
        PROVE  NotAfter(b, net[i])
    <3>1. CASE i = 1
      BY <1>7, <2>1, <3>1 DEF NotAfter
    <3>2. CASE i # 1
      <4>1. 1 < i
        BY <1>2, <3>2
      <4> QED
        BY <2>1, <4>1 DEF NetOrdered
    <3> QED
      BY <3>1, <3>2
  <2>5. b.group \in Nat /\ b.index \in Nat /\ dec.group \in Nat /\ \A j \in dec.marks : j \in Nat
    BY <1>7, <2>1 DEF FecTypeOK, DecoderType, Indices
  <2>6. ASSUME NEW i \in 1 .. Len(net)
        PROVE  b.group <= net[i].group /\ \A j \in dec'.marks : NotAfter(Block(b.group, j), net[i])
    <3>1. NotAfter(b, net[i]) /\ net[i].group \in Nat /\ net[i].index \in Nat
      BY <1>7, <2>4
    <3>2. b.group <= net[i].group
      BY <2>5, <3>1 DEF NotAfter
    <3>3. ASSUME NEW j \in dec'.marks
          PROVE  NotAfter(Block(b.group, j), net[i])
      <4>1. CASE j = b.index
        BY <3>1, <4>1 DEF NotAfter, Block
      <4>2. CASE j # b.index
        <5>1. b.group = dec.group /\ j \in dec.marks
          BY <1>6, <3>3, <4>2
        <5>2. NotAfter(Block(dec.group, j), b) /\ j \in Nat
          BY <2>2, <2>5, <5>1
        <5>3. j <= b.index
          BY <2>5, <5>1, <5>2 DEF NotAfter, Block
        <5> QED
          BY <2>5, <3>1, <5>1, <5>2, <5>3 DEF NotAfter, Block
      <4> QED
        BY <4>1, <4>2
    <3> QED
      BY <3>2, <3>3
  <2>7. \A i \in 1 .. Len(net') : /\ b.group <= net'[i].group
                                  /\ \A j \in dec'.marks : NotAfter(Block(b.group, j), net'[i])
    BY <1>9, <2>6
  <2>8. b.group < enc.group \/ (b.group = enc.group /\ \A j \in dec'.marks : j < enc.count)
    <3>1. b.group < enc.group \/ (b.group = enc.group /\ b.index < enc.count)
      BY <2>1 DEF NetOrdered
    <3>2. CASE b.group # dec.group
      BY <1>6, <3>1, <3>2
    <3>3. CASE b.group = dec.group
      <4>1. enc.group \in Nat
        BY <1>2
      <4> QED
        BY <1>6, <2>2, <2>5, <3>1, <3>3, <4>1
    <3> QED
      BY <3>2, <3>3
  <2> QED
    BY <1>1, <1>6, <2>3, <2>7, <2>8 DEF InOrder
<1> QED
  BY <1>5, <1>10, <1>11, <1>12

-----------------------------------------------------------------------------
(* What follows.                                                           *)

\* Nothing was sent or delivered at first.
LEMMA FecInitIInv == Init => FecIInv
<1> SUFFICES ASSUME Init
             PROVE  FecIInv
  OBVIOUS
<1>1. /\ dec = [group |-> 0, marks |-> {}, count |-> 0, raw |-> 0, input |-> [j \in Indices |-> Garbage]]
      /\ enc = [group |-> 0, count |-> 0] /\ net = <<>> /\ inOrder \in BOOLEAN
      /\ delivered = [e \in {} |-> 1]
  BY DEF Init, EmptyBag, SetToBag
<1>2. 0 \in RawIndices /\ FecK \in Nat \ {0}
  BY FecAssumption DEF RawIndices
<1>3. dec \in DecoderType
  BY <1>1 DEF DecoderType
<1>4. DOMAIN delivered = {} /\ delivered \in [{} -> Nat \ {0}]
  BY <1>1
<1>5. enc \in [group : Nat, count : RawIndices] /\ net \in Seq(BlockType)
  BY <1>1, <1>2
<1>6. FecTypeOK
  BY <1>1, <1>3, <1>4, <1>5 DEF FecTypeOK
<1>7. Untouched
  <2>1. dec.marks = {} /\ dec.count = 0 /\ dec.raw = 0 /\ {} \cap RawIndices = {}
    BY <1>1
  <2>2. Cardinality({}) = 0
    BY FS_EmptySet
  <2> QED
    BY <1>2, <2>1, <2>2 DEF Untouched, Sound
<1>8. DeliveredOnce /\ DeliveredTrue
  BY <1>4 DEF DeliveredOnce, DeliveredTrue, BagToSet
<1>9. Len(net) = 0 /\ \A i \in 1 .. Len(net) : FALSE
  BY <1>1
<1>10. NetOrdered
  BY <1>9 DEF NetOrdered
<1>11. dec.group = enc.group /\ dec.marks = {}
  BY <1>1
<1>12. InOrder
  BY <1>4, <1>7, <1>8, <1>9, <1>11 DEF InOrder, BagToSet
<1> QED
  BY <1>6, <1>7, <1>8, <1>10, <1>12 DEF FecIInv, GroupComplete, OneRecovery

\* The encoder and the network keep the invariant.
LEMMA FecStepIInv == FecIInv /\ [Next]_vars => FecIInv'
<1> SUFFICES ASSUME FecIInv, [Next]_vars
             PROVE  FecIInv'
  OBVIOUS
<1>1. CASE Encode
  BY <1>1, EncodeKeeps
<1>2. CASE Receive
  BY <1>2, ReceiveKeeps
<1>3. CASE UNCHANGED vars
  <2>1. /\ enc' = enc /\ dec' = dec /\ delivered' = delivered /\ net' = net /\ inOrder' = inOrder
    BY <1>3 DEF vars
  <2>2. FecTypeOK' /\ NetOrdered'
    BY <2>1 DEF FecIInv, FecTypeOK, NetOrdered
  <2>3. (DeliveredOnce <=> DeliveredOnce') /\ (DeliveredTrue <=> DeliveredTrue')
    BY <2>1 DEF DeliveredOnce, DeliveredTrue, BagToSet
  <2>4. (Untouched <=> Untouched') /\ (AllGiven <=> AllGiven')
    BY <2>1 DEF Untouched, AllGiven, Given, BagIn, BagToSet, Sound
  <2>5. GroupComplete' /\ OneRecovery'
    BY <2>1, <2>3, <2>4 DEF FecIInv, GroupComplete, OneRecovery
  <2>6. InOrder'
    BY <2>1, <2>3, <2>4 DEF FecIInv, InOrder, BagToSet
  <2> QED
    BY <2>2, <2>5, <2>6 DEF FecIInv
<1> QED
  BY <1>1, <1>2, <1>3 DEF Next

\* The invariant of FECGenerator between two ends.
LEMMA FecInvariant == Spec => []FecIInv
  BY FecInitIInv, FecStepIInv, PTL DEF Spec

\* Any FecK blocks of a group suffice: Decode has then delivered each of its raw
\* blocks with the contents that Encode was given, on any network.
THEOREM GroupsRecovered == Spec => []AnyKSuffice
<1>1. FecIInv => AnyKSuffice
  <2> SUFFICES ASSUME FecIInv, Cardinality(dec.marks) >= FecK, NEW i \in RawIndices
               PROVE  BagIn(Delivery(dec.group, i, Block(dec.group, i)), delivered)
    BY DEF AnyKSuffice
  <2>1. CASE AllGiven
    BY <2>1 DEF AllGiven, Given
  <2>2. CASE Untouched
    <3>1. dec \in DecoderType /\ Sound(dec) /\ dec.raw = FecK
      BY <2>2 DEF FecIInv, FecTypeOK, Untouched
    <3>2. i \in dec.marks \cap RawIndices
      BY <3>1, SoundRecoverable
    <3> QED
      BY <2>2, <3>2 DEF Untouched, Given
  <2> QED
    BY <2>1, <2>2 DEF FecIInv, GroupComplete
<1> QED
  BY <1>1, FecInvariant, PTL

\* Without reordering the upper layer is given each packet once: what comes
\* twice, or was recovered, is not delivered again.
THEOREM NoRepeatsInOrder == Spec => []OnceInOrder
<1>1. FecIInv => OnceInOrder
  BY DEF FecIInv, InOrder, OnceInOrder
<1> QED
  BY <1>1, FecInvariant, PTL

\* Decode delivers wrong contents only after it delivered something twice.
THEOREM WrongOnlyWhenLate == Spec => []TrueUnlessLate
<1>1. FecIInv => TrueUnlessLate
  BY DEF FecIInv, OneRecovery, TrueUnlessLate
<1> QED
  BY <1>1, FecInvariant, PTL

-----------------------------------------------------------------------------
(* The transport: where the encoder stands in the stream, and the numbers. *)

\* Packets before a group, and before the next packet.
Before(group) == group * FecK
Position(e) == Before(e.group) + e.count

\* The encoder is in one of the groups it may encode.
EncoderOK ==
  /\ firstGroup \in FirstGroups
  /\ enc \in [group : Nat, count : RawIndices]
  /\ firstGroup <= enc.group /\ enc.group <= firstGroup + MaxGroups
  /\ enc.group = firstGroup + MaxGroups => enc.count = 0

\* The receiver's view of the numbers first + 1 to pos, of which it was given
\* those in got and gave up those in lost.
Lists == UNION {[D -> Nat] : D \in SUBSET Numbers}
Gens == [started : BOOLEAN, lastSeq : Numbers, list : Lists]
ViewOK(gen, got, lost, first, pos) ==
  /\ gen \in Gens
  /\ ~gen.started => first = 0 /\ got = {} /\ gen.lastSeq = 0 /\ DOMAIN gen.list = {}
  /\ first <= gen.lastSeq /\ gen.lastSeq <= pos
  /\ got \subseteq first + 1 .. gen.lastSeq
  /\ DOMAIN gen.list \subseteq first + 1 .. gen.lastSeq
  /\ got \cap DOMAIN gen.list = {}
  /\ first >= MaxPacketAge => first + 1 .. gen.lastSeq \subseteq got \cup DOMAIN gen.list \cup lost

\* Groups follow each other.
LEMMA GroupsFollow ==
  ASSUME NEW g \in Nat
  PROVE  /\ Before(g) \in Nat /\ Before(g + 1) = Before(g) + FecK
         /\ \A h \in Nat : g < h => Before(g) + FecK <= Before(h)
<1>1. FecK \in Nat /\ FecK >= 1
  BY FecAssumption
<1>2. \A a, b \in Nat : a * b \in Nat
  OBVIOUS
<1>3. Before(g) \in Nat
  BY <1>1, <1>2 DEF Before
<1>4. Before(g + 1) = Before(g) + FecK
  BY <1>1 DEF Before
<1>5. ASSUME NEW h \in Nat, g < h
      PROVE  Before(g) + FecK <= Before(h)
  <2>1. PICK n \in Nat : h = (g + 1) + n
    <3>1. h - (g + 1) \in Nat /\ h = (g + 1) + (h - (g + 1))
      BY <1>5
    <3> QED
      BY <3>1
  <2>2. h * FecK = (g + 1) * FecK + n * FecK
    BY <1>1, <2>1
  <2>3. n * FecK \in Nat
    BY <1>1, <1>2
  <2>4. h * FecK >= (g + 1) * FecK
    BY <1>1, <1>2, <2>2, <2>3
  <2>5. Before(h) >= Before(g + 1)
    BY <2>4 DEF Before
  <2> QED
    BY <1>1, <1>3, <1>4, <2>5
<1> QED
  BY <1>3, <1>4, <1>5

\* A remainder of what is in the range already.
LEMMA InRange ==
  ASSUME NEW M \in Nat \ {0}, NEW x \in Int, 0 <= x, x < M
  PROVE  x % M = x
BY NearRemainder

\* Where the encoder stands.
LEMMA PositionIs ==
  ASSUME ShortStreams, EncoderOK,
         NEW first, first = Before(firstGroup), NEW pos, pos = Position(enc),
         NEW span, span = MaxGroups * FecK
  PROVE  /\ first \in Nat /\ pos \in Nat /\ span \in Nat
         /\ first <= pos /\ pos <= first + span /\ pos < SeqSpace
         /\ enc.group < firstGroup + MaxGroups => pos + 1 <= first + span /\ pos + 1 < SeqSpace
<1>1. /\ firstGroup \in Nat /\ MaxGroups \in Nat /\ FecK \in Nat \ {0} /\ SeqSpace \in Nat
      /\ enc.group \in Nat /\ enc.count \in Nat /\ enc.count < FecK
  BY FecAssumption, FecTransportAssumption DEF EncoderOK, RawIndices
<1>2. span \in Nat /\ first \in Nat
  <2>1. \A a, b \in Nat : a * b \in Nat
    OBVIOUS
  <2> QED
    BY <1>1, <2>1, GroupsFollow
<1> DEFINE last == firstGroup + MaxGroups
<1>3. last \in Nat /\ Before(last) \in Nat /\ Before(last) = first + span /\ Before(last) < SeqSpace
  <2>1. last \in Nat /\ Before(last) \in Nat
    <3>1. last \in Nat
      BY <1>1
    <3> HIDE DEF last
    <3> QED
      BY <3>1, GroupsFollow
  <2>2. (firstGroup + MaxGroups) * FecK = firstGroup * FecK + MaxGroups * FecK
    BY <1>1
  <2>3. (firstGroup + MaxGroups) * FecK < SeqSpace
    BY DEF ShortStreams, EncoderOK
  <2> QED
    BY <2>1, <2>2, <2>3 DEF Before
<1> HIDE DEF last
<1>4. Before(enc.group) \in Nat /\ Before(enc.group) >= first
  <2>1. CASE firstGroup = enc.group
    BY <1>2, <2>1
  <2>2. CASE firstGroup < enc.group
    <3>1. first + FecK <= Before(enc.group) /\ Before(enc.group) \in Nat
      BY <1>1, <2>2, GroupsFollow
    <3> QED
      BY <1>1, <1>2, <3>1
  <2> QED
    BY <1>1, <2>1, <2>2 DEF EncoderOK
<1>5. pos = Before(enc.group) + enc.count
  BY DEF Position
<1>6. CASE enc.group = last
  <2>1. enc.count = 0
    BY <1>6 DEF EncoderOK, last
  <2> QED
    BY <1>1, <1>2, <1>3, <1>4, <1>5, <1>6, <2>1 DEF last
<1>7. CASE enc.group < last
  <2>1. Before(enc.group) + FecK <= Before(last)
    BY <1>1, <1>3, <1>7, GroupsFollow
  <2> QED
    BY <1>1, <1>2, <1>3, <1>4, <1>5, <2>1
<1>8. enc.group <= last
  BY DEF EncoderOK, last
<1> QED
  BY <1>1, <1>3, <1>6, <1>7, <1>8

\* The number of a packet that was sent.
LEMMA NumberIs ==
  ASSUME ShortStreams, EncoderOK, NEW group \in Nat, NEW i \in RawIndices,
         Before(group) + i < Position(enc)
  PROVE  SeqAt(group, i) = Before(group) + i + 1
<1>1. Before(group) \in Nat /\ i \in Nat /\ SeqSpace \in Nat \ {0}
  BY GroupsFollow, FecTransportAssumption DEF RawIndices
<1>2. Position(enc) \in Nat /\ Position(enc) < SeqSpace
  BY PositionIs
<1>3. SeqAt(group, i) = (Before(group) + i + 1) % SeqSpace
  BY DEF SeqAt, Before
<1> DEFINE x == Before(group) + i + 1
<1>4. x \in Int /\ 0 <= x /\ x < SeqSpace
  BY <1>1, <1>2
<1>5. x % SeqSpace = x
  <2> HIDE DEF x
  <2> QED
    BY <1>1, <1>4, InRange
<1> QED
  BY <1>3, <1>5

\* The packets that a request finds are those that were sent.
LEMMA StockIs ==
  ASSUME ShortStreams, EncoderOK
  PROVE  Stocked = 1 .. Position(enc)
<1> DEFINE pos == Position(enc)
<1>1. pos \in Nat /\ pos < SeqSpace /\ SeqSpace \in Nat \ {0} /\ FecK \in Nat
  BY PositionIs, FecAssumption, FecTransportAssumption
<1>2. pos = enc.group * FecK + enc.count
  BY DEF Position, Before
<1> HIDE DEF pos
<1>3. ASSUME NEW i \in 0 .. pos - 1
      PROVE  SeqAt(0, i) = i + 1
  <2>1. 0 * FecK + i + 1 = i + 1 /\ i + 1 \in Int /\ 0 <= i + 1 /\ i + 1 < SeqSpace
    BY <1>1
  <2> QED
    BY <1>1, <2>1, InRange DEF SeqAt
<1>4. Stocked = {SeqAt(0, i) : i \in 0 .. pos - 1}
  <2>1. PICK range : range = 0 .. enc.group * FecK + enc.count - 1
    OBVIOUS
  <2>2. range = 0 .. pos - 1
    <3>1. enc.count \in Int /\ Before(enc.group) \in Int
      BY GroupsFollow DEF EncoderOK, RawIndices
    <3>2. range = 0 .. Before(enc.group) + enc.count - 1
      BY <2>1 DEF Before
    <3>3. pos = Before(enc.group) + enc.count
      BY DEF pos, Position
    <3> QED
      BY ONLY <3>1, <3>2, <3>3
  <2>3. Stocked = {SeqAt(0, i) : i \in range}
    BY <2>1 DEF Stocked
  <2> QED
    BY ONLY <2>2, <2>3
<1>5. Stocked = {i + 1 : i \in 0 .. pos - 1}
  BY <1>3, <1>4
<1>6. {i + 1 : i \in 0 .. pos - 1} = 1 .. pos
  <2>1. ASSUME NEW n \in 1 .. pos PROVE \E i \in 0 .. pos - 1 : n = i + 1
    <3>1. n - 1 \in 0 .. pos - 1 /\ n = n - 1 + 1
      BY <1>1
    <3> QED
      BY <3>1
  <2>2. \A i \in 0 .. pos - 1 : i + 1 \in 1 .. pos
    BY <1>1
  <2> QED
    BY <2>1, <2>2
<1> QED
  BY <1>5, <1>6 DEF pos

\* Of the numbers of a short stretch, the lower one is the older.
LEMMA LowerThanIs ==
  ASSUME NEW a \in Nat, NEW b \in Nat, NEW span \in Nat, 2 * span < SeqSpace,
         a - b <= span, b - a <= span
  PROVE  SeqLowerThan(a, b) <=> a < b
<1>1. SeqSpace \in Nat /\ SeqSpace >= 1 /\ SeqSpace % 2 = 0
  BY FecTransportAssumption
<1> DEFINE half == (SeqSpace - 1) \div 2
<1>2. half \in Int /\ span <= half
  BY <1>1
<1> HIDE DEF half
<1>3. SeqLowerThan(a, b) <=> \/ b > a /\ b - a <= half
                             \/ a > b /\ a - b > half
  BY DEF SeqLowerThan, half
<1> QED
  BY <1>2, <1>3

\* A list of missing numbers is a function.
LEMMA ListIs ==
  /\ \A list \in Lists : /\ list \in [DOMAIN list -> Nat] /\ DOMAIN list \subseteq Numbers
  /\ \A D \in SUBSET Numbers : \A list \in [D -> Nat] : list \in Lists
  /\ <<>> \in Lists /\ DOMAIN <<>> = {}
<1>1. /\ \A list \in Lists : list \in [DOMAIN list -> Nat] /\ DOMAIN list \subseteq Numbers
      /\ \A D \in SUBSET Numbers : \A list \in [D -> Nat] : list \in Lists
  BY DEF Lists
<1>2. DOMAIN <<>> = {} /\ <<>> \in [{} -> Nat]
  OBVIOUS
<1> QED
  BY <1>1, <1>2

\* What AddPacketsToNackList makes of the list when the stream goes on.
LEMMA ListGrows ==
  ASSUME NEW list \in Lists, NEW last \in Numbers, NEW seq \in Numbers, last < seq
  PROVE  LET grown == AddPacketsToNackList(list, (last + 1) % SeqSpace, seq)
         IN  /\ grown \in Lists
             /\ DOMAIN grown \subseteq DOMAIN list \cup last + 1 .. seq - 1
             /\ \A first, span \in Nat :
                  /\ DOMAIN list \subseteq first + 1 .. last /\ first <= last /\ seq <= first + span
                  /\ span <= MaxPacketAge /\ span <= MaxNackPackets /\ first >= MaxPacketAge
                  => DOMAIN grown = DOMAIN list \cup last + 1 .. seq - 1
<1> DEFINE grown == AddPacketsToNackList(list, (last + 1) % SeqSpace, seq)
<1>1. /\ SeqSpace \in Nat \ {0} /\ MaxPacketAge \in Nat /\ MaxNackPackets \in Nat
      /\ last \in Nat /\ seq \in Nat /\ seq < SeqSpace /\ last + 1 <= seq
  BY FecTransportAssumption DEF Numbers
<1> DEFINE start == (last + 1) % SeqSpace
           old   == {s \in DOMAIN list : s < (seq - MaxPacketAge) % SeqSpace}
           count == (seq - start) % SeqSpace
           new   == {(start + i) % SeqSpace : i \in 0 .. count - 1}
           kept  == Restrict(list, DOMAIN list \ old)
           all   == [s \in DOMAIN kept \cup new |-> IF s \in DOMAIN kept THEN kept[s] ELSE 0]
<1>2. start = last + 1
  BY <1>1, InRange
<1>3. count = seq - start /\ count \in Nat
  <2> DEFINE n == seq - start
  <2>1. n \in Int /\ 0 <= n /\ n < SeqSpace
    BY <1>1, <1>2
  <2> HIDE DEF n
  <2>2. n % SeqSpace = n
    BY <1>1, <2>1, InRange
  <2> QED
    BY <2>1, <2>2 DEF n
<1> HIDE DEF start, count
<1>4. new = last + 1 .. seq - 1
  <2>1. ASSUME NEW i \in 0 .. count - 1
        PROVE  (start + i) % SeqSpace = start + i /\ start + i \in last + 1 .. seq - 1
    <3> DEFINE n == start + i
    <3>1. n \in Int /\ 0 <= n /\ n < SeqSpace /\ n \in last + 1 .. seq - 1
      BY <1>1, <1>2, <1>3
    <3> HIDE DEF n
    <3>2. n % SeqSpace = n
      BY <1>1, <3>1, InRange
    <3> QED
      BY <3>1, <3>2 DEF n
  <2>2. ASSUME NEW s \in last + 1 .. seq - 1
        PROVE  s - start \in 0 .. count - 1 /\ s = start + (s - start)
    BY <1>1, <1>2, <1>3
  <2>3. \A s : s \in new => s \in last + 1 .. seq - 1
    BY <2>1
  <2>4. \A s \in last + 1 .. seq - 1 : s \in new
    BY <2>1, <2>2
  <2> HIDE DEF new
  <2> QED
    BY <2>3, <2>4
<1>5. /\ kept = [s \in DOMAIN list \ old |-> list[s]] /\ DOMAIN kept = DOMAIN list \ old
  BY DEF Restrict
<1>6. grown = IF Cardinality(DOMAIN kept) + count > MaxNackPackets THEN <<>> ELSE all
  BY DEF AddPacketsToNackList, start, count
<1>7. list \in [DOMAIN list -> Nat] /\ DOMAIN list \subseteq Numbers
  BY ListIs
<1>8. new \subseteq Numbers
  BY <1>1, <1>4 DEF Numbers
<1> HIDE DEF new, old
<1>9. all \in Lists /\ DOMAIN all = (DOMAIN list \ old) \cup new
  <2>1. all \in [DOMAIN kept \cup new -> Nat]
    BY <1>5, <1>7
  <2>2. DOMAIN kept \cup new \in SUBSET Numbers
    BY <1>5, <1>7, <1>8
  <2> HIDE DEF kept
  <2>3. DOMAIN all = DOMAIN kept \cup new
    OBVIOUS
  <2> HIDE DEF all
  <2> QED
    BY <1>5, <2>1, <2>2, <2>3, ListIs
<1> HIDE DEF kept, all, grown
<1>10. grown \in Lists
  BY <1>6, <1>9, ListIs
<1>11. DOMAIN grown \subseteq DOMAIN list \cup last + 1 .. seq - 1
  BY <1>4, <1>6, <1>9, ListIs
<1>12. ASSUME NEW first \in Nat, NEW span \in Nat, DOMAIN list \subseteq first + 1 .. last,
              first <= last, seq <= first + span, span <= MaxPacketAge,
              span <= MaxNackPackets, first >= MaxPacketAge
       PROVE  DOMAIN grown = DOMAIN list \cup last + 1 .. seq - 1
  <2>1. old = {}
    <3> DEFINE n == seq - MaxPacketAge
    <3>1. n \in Int /\ 0 <= n /\ n < SeqSpace /\ n <= first
      BY <1>1, <1>12
    <3> HIDE DEF n
    <3>2. n % SeqSpace = n
      BY <1>1, <3>1, InRange
    <3>3. \A s \in DOMAIN list : s \in Int /\ s > first
      BY <1>12
    <3>4. old = {s \in DOMAIN list : s < n}
      BY <3>2 DEF old, n
    <3> QED
      BY <1>12, <3>1, <3>3, <3>4
  <2>2. DOMAIN kept \subseteq first + 1 .. last
    BY <1>5, <1>12
  <2>3. Cardinality(DOMAIN kept) \in Nat /\ Cardinality(DOMAIN kept) <= last - first
    <3>1. IsFiniteSet(first + 1 .. last) /\ Cardinality(first + 1 .. last) = last - first
      <4> DEFINE low == first + 1
      <4>1. low \in Int /\ last \in Int
        BY <1>1
      <4> HIDE DEF low
      <4>2. IsFiniteSet(low .. last) /\ Cardinality(low .. last) = IF low > last THEN 0 ELSE last - low + 1
        BY <4>1, FS_Interval
      <4> QED
        BY <1>1, <1>12, <4>2 DEF low
    <3> QED
      BY <2>2, <3>1, FS_Subset, FS_CardinalityType
  <2>4. ~(Cardinality(DOMAIN kept) + count > MaxNackPackets)
    BY <1>1, <1>2, <1>3, <1>12, <2>3
  <2> QED
    BY <1>4, <1>6, <1>9, <2>1, <2>4
<1> QED
  BY <1>10, <1>11, <1>12 DEF grown

\* Whatever the numbers, AddPacketsToNackList makes a list.
LEMMA GrownTyped ==
  ASSUME NEW list \in Lists, NEW start \in Numbers, NEW seq \in Numbers
  PROVE  AddPacketsToNackList(list, start, seq) \in Lists
<1>1. SeqSpace \in Nat \ {0} /\ start \in Int /\ seq \in Int
  BY FecTransportAssumption DEF Numbers
<1> DEFINE old   == {s \in DOMAIN list : s < (seq - MaxPacketAge) % SeqSpace}
           count == (seq - start) % SeqSpace
           new   == {(start + i) % SeqSpace : i \in 0 .. count - 1}
           kept  == Restrict(list, DOMAIN list \ old)
           all   == [s \in DOMAIN kept \cup new |-> IF s \in DOMAIN kept THEN kept[s] ELSE 0]
<1>2. AddPacketsToNackList(list, start, seq) =
        IF Cardinality(DOMAIN kept) + count > MaxNackPackets THEN <<>> ELSE all
  BY DEF AddPacketsToNackList
<1>3. new \subseteq Numbers
  <2> SUFFICES ASSUME NEW i \in 0 .. count - 1
               PROVE  (start + i) % SeqSpace \in Numbers
    OBVIOUS
  <2>1. count \in Int
    BY <1>1
  <2>2. start + i \in Int
    BY <1>1, <2>1
  <2> QED
    BY <1>1, <2>2 DEF Numbers
<1>4. kept = [s \in DOMAIN list \ old |-> list[s]] /\ DOMAIN kept = DOMAIN list \ old
  BY DEF Restrict
<1>5. list \in [DOMAIN list -> Nat] /\ DOMAIN list \subseteq Numbers
  BY ListIs
<1> HIDE DEF new, old, count
<1>6. all \in [DOMAIN kept \cup new -> Nat] /\ DOMAIN kept \cup new \in SUBSET Numbers
  BY <1>3, <1>4, <1>5
<1> HIDE DEF kept, all
<1>7. all \in Lists
  BY <1>6, ListIs
<1> QED
  BY <1>2, <1>7, ListIs

\* A list without some of its numbers.
LEMMA ListShrinks ==
  ASSUME NEW list \in Lists, NEW gone
  PROVE  /\ Restrict(list, DOMAIN list \ gone) \in Lists
         /\ DOMAIN Restrict(list, DOMAIN list \ gone) = DOMAIN list \ gone
<1> DEFINE D == DOMAIN list \ gone
           rest == Restrict(list, D)
<1>1. rest = [s \in D |-> list[s]]
  BY DEF Restrict
<1>2. D \in SUBSET Numbers /\ rest \in [D -> Nat] /\ DOMAIN rest = D
  BY <1>1, ListIs
<1> HIDE DEF D, rest
<1>3. rest \in Lists
  BY <1>2, ListIs
<1> QED
  BY <1>2, <1>3 DEF D, rest

\* NackGenerator keeps the types of its state.
LEMMA ReceiveTyped ==
  ASSUME NEW gen \in Gens, NEW seq \in Numbers
  PROVE  /\ ReceivePacket(gen, seq) \in Gens
         /\ ~gen.started =>
              ReceivePacket(gen, seq) = [started |-> TRUE, lastSeq |-> seq, list |-> gen.list]
         /\ gen.started /\ (seq = gen.lastSeq \/ SeqLowerThan(seq, gen.lastSeq)) =>
              ReceivePacket(gen, seq) =
                [started |-> TRUE, lastSeq |-> gen.lastSeq, list |-> Restrict(gen.list, DOMAIN gen.list \ {seq})]
         /\ gen.started /\ ~(seq = gen.lastSeq \/ SeqLowerThan(seq, gen.lastSeq)) =>
              ReceivePacket(gen, seq) =
                [started |-> TRUE, lastSeq |-> seq,
                 list |-> AddPacketsToNackList(gen.list, (gen.lastSeq + 1) % SeqSpace, seq)]
<1>1. /\ gen.list \in Lists /\ gen.started \in BOOLEAN /\ gen.lastSeq \in Numbers
      /\ gen = [started |-> gen.started, lastSeq |-> gen.lastSeq, list |-> gen.list]
  <2> HIDE DEF Lists
  <2> QED
    BY DEF Gens
<1> DEFINE older == seq = gen.lastSeq \/ SeqLowerThan(seq, gen.lastSeq)
           shorter == Restrict(gen.list, DOMAIN gen.list \ {seq})
           longer == AddPacketsToNackList(gen.list, (gen.lastSeq + 1) % SeqSpace, seq)
<1>2. ReceivePacket(gen, seq) =
        CASE ~gen.started -> [gen EXCEPT !.started = TRUE, !.lastSeq = seq]
          [] gen.started /\ older -> [gen EXCEPT !.list = shorter]
          [] OTHER -> [gen EXCEPT !.list = longer, !.lastSeq = seq]
  BY DEF ReceivePacket
<1>3. shorter \in Lists
  BY <1>1, ListShrinks
<1>4. gen.started /\ ~older => longer \in Lists
  <2>1. SeqSpace \in Nat \ {0} /\ gen.lastSeq + 1 \in Int
    BY <1>1, FecTransportAssumption DEF Numbers
  <2>2. (gen.lastSeq + 1) % SeqSpace \in Numbers
    BY <2>1 DEF Numbers
  <2> QED
    BY <1>1, <2>2, GrownTyped
<1> HIDE DEF older, shorter, longer
<1>5. CASE ~gen.started
  <2>1. ReceivePacket(gen, seq) = [started |-> TRUE, lastSeq |-> seq, list |-> gen.list]
    <3>1. ReceivePacket(gen, seq) = [gen EXCEPT !.started = TRUE, !.lastSeq = seq]
      BY <1>2, <1>5
    <3> QED
      BY <1>1, <3>1
  <2> QED
    BY <1>1, <1>5, <2>1 DEF Gens
<1>6. CASE gen.started /\ older
  <2>1. ReceivePacket(gen, seq) = [started |-> TRUE, lastSeq |-> gen.lastSeq, list |-> shorter]
    <3>1. ReceivePacket(gen, seq) = [gen EXCEPT !.list = shorter]
      BY <1>2, <1>6
    <3> QED
      BY <1>1, <1>6, <3>1
  <2> QED
    BY <1>1, <1>3, <1>6, <2>1 DEF Gens, older, shorter
<1>7. CASE gen.started /\ ~older
  <2>1. ReceivePacket(gen, seq) = [started |-> TRUE, lastSeq |-> seq, list |-> longer]
    <3>1. ReceivePacket(gen, seq) = [gen EXCEPT !.list = longer, !.lastSeq = seq]
      BY <1>2, <1>7
    <3> QED
      BY <1>1, <1>7, <3>1
  <2> QED
    BY <1>1, <1>4, <1>7, <2>1 DEF Gens, older, longer
<1> QED
  BY <1>1, <1>5, <1>6, <1>7

\* A packet that was sent and reaches NackGenerator, late or not: it counts as
\* given, and what was skipped for it is listed.
LEMMA ViewKeeps ==
  ASSUME NEW first \in Nat, NEW pos \in Nat, NEW span \in Nat, pos <= first + span,
         pos < SeqSpace, 2 * span < SeqSpace, span <= MaxPacketAge, span <= MaxNackPackets,
         MaxPacketAge > 0,
         NEW gen, NEW got, NEW lost, ViewOK(gen, got, lost, first, pos), NEW seq \in first + 1 .. pos
  PROVE  ViewOK(ReceivePacket(gen, seq), got \cup {seq}, lost, first, pos)
<1> DEFINE next == ReceivePacket(gen, seq)
<1>0. PICK last, list : last = gen.lastSeq /\ list = gen.list
  OBVIOUS
<1>1. /\ gen \in Gens /\ seq \in Numbers /\ seq \in Nat /\ last \in Numbers /\ last \in Nat
      /\ list \in Lists /\ SeqSpace \in Nat
  BY <1>0, FecTransportAssumption DEF ViewOK, Gens, Numbers
<1>2. SeqLowerThan(seq, last) <=> seq < last
  <2>1. seq - last <= span /\ last - seq <= span
    BY <1>0, <1>1 DEF ViewOK
  <2> QED
    BY <1>1, <2>1, LowerThanIs
<1>3. next \in Gens
  BY <1>1, ReceiveTyped
<1>4. CASE ~gen.started
  <2>1. next = [started |-> TRUE, lastSeq |-> seq, list |-> list]
    BY <1>0, <1>1, <1>4, ReceiveTyped
  <2>2. next.started /\ next.lastSeq = seq /\ next.list = list
    BY <2>1
  <2>3. first = 0 /\ got = {} /\ DOMAIN list = {} /\ ~(first >= MaxPacketAge)
    BY <1>0, <1>4, FecTransportAssumption DEF ViewOK
  <2> HIDE DEF next
  <2> QED
    BY <1>0, <1>1, <1>3, <2>2, <2>3 DEF ViewOK, next
<1>5. CASE gen.started /\ ~(last < seq)
  <2>1. next = [started |-> TRUE, lastSeq |-> last, list |-> Restrict(list, DOMAIN list \ {seq})]
    <3>1. seq = gen.lastSeq \/ SeqLowerThan(seq, gen.lastSeq)
      BY <1>0, <1>1, <1>2, <1>5
    <3>2. next = [started |-> TRUE, lastSeq |-> gen.lastSeq, list |-> Restrict(gen.list, DOMAIN gen.list \ {seq})]
      <4> HIDE DEF next
      <4> QED
        BY <1>1, <1>5, <3>1, ReceiveTyped DEF next
    <3> QED
      BY ONLY <1>0, <3>2
  <2>2. next.started /\ next.lastSeq = last /\ DOMAIN next.list = DOMAIN list \ {seq}
    <3>1. DOMAIN Restrict(list, DOMAIN list \ {seq}) = DOMAIN list \ {seq}
      BY <1>1, ListShrinks
    <3> HIDE DEF next
    <3> QED
      BY ONLY <2>1, <3>1
  <2> HIDE DEF next
  <2> QED
    BY <1>0, <1>1, <1>3, <1>5, <2>2 DEF ViewOK, next
<1>6. CASE gen.started /\ last < seq
  <2> DEFINE grown == AddPacketsToNackList(list, (last + 1) % SeqSpace, seq)
  <2>1. next = [started |-> TRUE, lastSeq |-> seq, list |-> grown]
    <3>1. ~(seq = gen.lastSeq \/ SeqLowerThan(seq, gen.lastSeq))
      BY <1>0, <1>1, <1>2, <1>6
    <3>2. next = [started |-> TRUE, lastSeq |-> seq,
                  list |-> AddPacketsToNackList(gen.list, (gen.lastSeq + 1) % SeqSpace, seq)]
      <4> HIDE DEF next
      <4> QED
        BY <1>1, <1>6, <3>1, ReceiveTyped DEF next
    <3> QED
      BY ONLY <1>0, <3>2
  <2>2. next.started /\ next.lastSeq = seq /\ next.list = grown
    BY <2>1
  <2>3. DOMAIN grown \subseteq DOMAIN list \cup last + 1 .. seq - 1
    <3>1. list \in Lists /\ last \in Numbers /\ seq \in Numbers /\ last < seq
      BY <1>1, <1>6
    <3> QED
      BY ONLY <3>1, ListGrows, Zenon
  <2>4. first >= MaxPacketAge => DOMAIN grown = DOMAIN list \cup last + 1 .. seq - 1
    <3>1. DOMAIN list \subseteq first + 1 .. last /\ first <= last /\ seq <= first + span
      BY <1>0, <1>1 DEF ViewOK
    <3>2. list \in Lists /\ last \in Numbers /\ seq \in Numbers /\ last < seq
      BY <1>1, <1>6
    <3>3. \A f, s \in Nat : /\ DOMAIN list \subseteq f + 1 .. last /\ f <= last /\ seq <= f + s
                          /\ s <= MaxPacketAge /\ s <= MaxNackPackets /\ f >= MaxPacketAge
                          => DOMAIN grown = DOMAIN list \cup last + 1 .. seq - 1
      BY ONLY <3>2, ListGrows, Zenon
    <3> HIDE DEF grown
    <3> QED
      BY <3>1, <3>3
  <2> HIDE DEF next, grown
  <2>5. /\ got \subseteq first + 1 .. last /\ DOMAIN list \subseteq first + 1 .. last
        /\ got \cap DOMAIN list = {} /\ first <= last /\ last <= pos
        /\ first >= MaxPacketAge => first + 1 .. last \subseteq got \cup DOMAIN list \cup lost
    BY <1>0 DEF ViewOK
  <2>6. got \cup {seq} \subseteq first + 1 .. seq /\ DOMAIN grown \subseteq first + 1 .. seq
    BY <1>1, <1>6, <2>3, <2>5
  <2>7. (got \cup {seq}) \cap DOMAIN grown = {}
    <3>1. \A s \in DOMAIN grown : s \notin got
      BY <1>1, <2>3, <2>5
    <3>2. seq \notin DOMAIN grown
      BY <1>1, <1>6, <2>3, <2>5
    <3> QED
      BY <3>1, <3>2
  <2>8. first >= MaxPacketAge => first + 1 .. seq \subseteq (got \cup {seq}) \cup DOMAIN grown \cup lost
    <3> SUFFICES ASSUME first >= MaxPacketAge, NEW s \in first + 1 .. seq
                 PROVE  s \in (got \cup {seq}) \cup DOMAIN grown \cup lost
      OBVIOUS
    <3>1. \/ s \in first + 1 .. last \/ s \in last + 1 .. seq - 1 \/ s = seq
      BY <1>1
    <3> QED
      BY <2>4, <2>5, <3>1
  <2>9. first <= seq /\ seq <= pos
    BY <1>1
  <2> QED
    BY <1>3, <2>2, <2>6, <2>7, <2>8, <2>9 DEF ViewOK, next
<1> QED
  BY <1>1, <1>4, <1>5, <1>6 DEF Gens

\* The loop over what was decoded can be run.
LEMMA ReceivedIs ==
  ASSUME NEW gen \in Gens, NEW seqs, Len(seqs) \in Nat,
         \A n \in 1 .. Len(seqs) : seqs[n] \in Numbers
  PROVE  \E f : /\ f[0] = gen /\ \A n \in 1 .. Len(seqs) : f[n] = ReceivePacket(f[n - 1], seqs[n])
                /\ ReceivedAll(gen, seqs) = f[Len(seqs)]
<1>0. PICK N \in Nat : N = Len(seqs)
  OBVIOUS
<1> DEFINE step == [n \in 1 .. N |-> [g \in Gens |-> ReceivePacket(g, seqs[n])]]
           after == CHOOSE f : f = [n \in 0 .. Len(seqs) |->
                                      IF n = 0 THEN gen ELSE ReceivePacket(f[n - 1], seqs[n])]
<1>1. step \in [1 .. N -> [Gens -> Gens]]
  BY <1>0, ReceiveTyped
<1>2. PICK f \in [0 .. N -> Gens] : f[0] = gen /\ \A n \in 1 .. N : f[n] = step[n][f[n - 1]]
  <2>1. IsLoop(Gens, N, gen, step)
    BY <1>1 DEF IsLoop
  <2> HIDE DEF step
  <2>2. PICK f : IsRun(f, Gens, N, gen, step)
    BY <2>1, IterationExists
  <2> QED
    BY <2>2 DEF IsRun
<1>3. \A n \in 1 .. N : f[n] = ReceivePacket(f[n - 1], seqs[n])
  <2> SUFFICES ASSUME NEW n \in 1 .. N
               PROVE  f[n] = ReceivePacket(f[n - 1], seqs[n])
    OBVIOUS
  <2>1. n - 1 \in 0 .. N
    OBVIOUS
  <2>2. f[n - 1] \in Gens
    BY <1>2, <2>1
  <2>3. step[n][f[n - 1]] = ReceivePacket(f[n - 1], seqs[n])
    BY <2>2
  <2> QED
    BY <1>2, <2>3
<1>4. f = [n \in 0 .. N |-> f[n]]
  BY <1>2
<1>5. \A n \in 0 .. N : f[n] = IF n = 0 THEN gen ELSE ReceivePacket(f[n - 1], seqs[n])
  <2>1. \A n \in 0 .. N : n # 0 => n \in 1 .. N
    OBVIOUS
  <2> QED
    BY <1>2, <1>3, <2>1
<1>6. f = [n \in 0 .. Len(seqs) |-> IF n = 0 THEN gen ELSE ReceivePacket(f[n - 1], seqs[n])]
  BY <1>0, <1>4, <1>5
<1>7. after = [n \in 0 .. Len(seqs) |-> IF n = 0 THEN gen ELSE ReceivePacket(after[n - 1], seqs[n])]
  BY <1>6, Zenon
<1>8. ReceivedAll(gen, seqs) = after[N]
  BY <1>0 DEF ReceivedAll
<1> HIDE DEF after
<1>9. \A n \in 0 .. N : after[n] = IF n = 0 THEN gen ELSE ReceivePacket(after[n - 1], seqs[n])
  <2>1. after = [n \in 0 .. N |-> IF n = 0 THEN gen ELSE ReceivePacket(after[n - 1], seqs[n])]
    BY <1>0, <1>7
  <2> QED
    BY <2>1
<1>10. after[0] = gen
  BY <1>9
<1>11. \A n \in 1 .. N : after[n] = ReceivePacket(after[n - 1], seqs[n])
  <2>1. \A n \in 1 .. N : n \in 0 .. N /\ n # 0
    OBVIOUS
  <2> QED
    BY <1>9, <2>1
<1> QED
  BY <1>0, <1>8, <1>10, <1>11

\* Packets that come out of the decoder count like those that come themselves.
LEMMA ViewKeepsAll ==
  ASSUME NEW first \in Nat, NEW pos \in Nat, NEW span \in Nat, pos <= first + span,
         pos < SeqSpace, 2 * span < SeqSpace, span <= MaxPacketAge, span <= MaxNackPackets,
         MaxPacketAge > 0,
         NEW gen, NEW got, NEW lost, ViewOK(gen, got, lost, first, pos),
         NEW seqs, Len(seqs) \in Nat, DOMAIN seqs = 1 .. Len(seqs),
         \A n \in 1 .. Len(seqs) : seqs[n] \in first + 1 .. pos
  PROVE  ViewOK(ReceivedAll(gen, seqs), got \cup ToSet(seqs), lost, first, pos)
<1>1. PICK N \in Nat : N = Len(seqs)
  OBVIOUS
<1>2. \A n \in 1 .. N : seqs[n] \in Numbers
  BY <1>1, FecTransportAssumption DEF Numbers
<1>3. PICK f : /\ f[0] = gen /\ \A n \in 1 .. N : f[n] = ReceivePacket(f[n - 1], seqs[n])
               /\ ReceivedAll(gen, seqs) = f[N]
  <2>1. gen \in Gens
    BY DEF ViewOK
  <2> QED
    <3>1. \A n \in 1 .. Len(seqs) : seqs[n] \in Numbers
      BY <1>1, <1>2
    <3>2. \E f : /\ f[0] = gen /\ \A n \in 1 .. Len(seqs) : f[n] = ReceivePacket(f[n - 1], seqs[n])
                 /\ ReceivedAll(gen, seqs) = f[Len(seqs)]
      BY <2>1, <3>1, ReceivedIs
    <3> QED
      BY <1>1, <3>2
<1> DEFINE upto(n) == got \cup {seqs[i] : i \in 1 .. n}
           bad == {n \in 0 .. N : ~ViewOK(f[n], upto(n), lost, first, pos)}
<1>4. upto(0) = got
  OBVIOUS
<1>5. \A n \in 1 .. N : upto(n) = upto(n - 1) \cup {seqs[n]}
  <2> SUFFICES ASSUME NEW n \in 1 .. N PROVE upto(n) = upto(n - 1) \cup {seqs[n]}
    OBVIOUS
  <2>1. 1 .. n = (1 .. n - 1) \cup {n}
    OBVIOUS
  <2> QED
    BY <2>1
<1> HIDE DEF upto
<1>6. bad = {}
  <2> SUFFICES ASSUME bad # {} PROVE FALSE
    OBVIOUS
  <2>1. PICK n \in bad : \A m \in bad : n <= m
    <3>1. bad \in SUBSET Nat
      OBVIOUS
    <3> HIDE DEF bad
    <3> QED
      BY <3>1, NatMin
  <2>2. n \in 0 .. N /\ ~ViewOK(f[n], upto(n), lost, first, pos)
    BY <2>1
  <2>3. n # 0
    BY <1>3, <1>4, <2>2
  <2>4. n \in 1 .. N /\ n - 1 \in 0 .. N /\ ~(n <= n - 1)
    BY <2>2, <2>3
  <2>5. n - 1 \notin bad
    BY <2>1, <2>4
  <2>6. ViewOK(f[n - 1], upto(n - 1), lost, first, pos)
    BY <2>4, <2>5
  <2>7. seqs[n] \in first + 1 .. pos
    BY <1>1, <2>4
  <2>8. ViewOK(ReceivePacket(f[n - 1], seqs[n]), upto(n - 1) \cup {seqs[n]}, lost, first, pos)
    BY <2>6, <2>7, ViewKeeps
  <2>9. ViewOK(f[n], upto(n), lost, first, pos)
    BY <1>3, <1>5, <2>4, <2>8
  <2> QED
    BY <2>2, <2>9
<1>7. ViewOK(f[N], upto(N), lost, first, pos)
  BY <1>6
<1>8. upto(N) = got \cup ToSet(seqs)
  BY <1>1 DEF upto, ToSet
<1> QED
  BY <1>3, <1>7, <1>8

-----------------------------------------------------------------------------
(* The decoder of the receiver, and what is on its way.                    *)

\* A block of the stream that fec_encode_callback let out.
SentBlock(b) ==
  /\ b \in BlockType /\ firstGroup <= b.group /\ fec_encode_callback(b)
  /\ IF b.index \in RawIndices THEN Before(b.group) + b.index < Position(enc) ELSE b.group < enc.group

\* A group that was not recovered: the counters are right, and the raw blocks
\* that came were given.
Pending(d, got) ==
  /\ Sound(d)
  /\ Cardinality(d.marks) >= FecK => d.raw = FecK
  /\ \A i \in d.marks \cap RawIndices : SeqAt(d.group, i) \in got

\* A group that was recovered: no raw block can come that makes Decode recover
\* others, because the sender sends no raw blocks of the group or one redundant.
Complete(d, got) ==
  /\ \A i \in RawIndices : SeqAt(d.group, i) \in got
  /\ \/ RawIndices \subseteq d.marks
     \/ /\ d.raw = FecK
        /\ \A j \in RawIndices \ d.marks :
             fec_encode_callback(Block(d.group, j)) => RawIndices \subseteq d.marks \cup {j}

DecoderOK(d, got) ==
  /\ d \in DecoderType
  /\ d.group >= firstGroup =>
       /\ \A j \in d.marks : SentBlock(Block(d.group, j))
       /\ Pending(d, got) \/ Complete(d, got)

WireOK ==
  \A msg \in wire :
    \/ msg.type \in {"data", "nack"} /\ msg.seq \in Before(firstGroup) + 1 .. Position(enc)
    \/ msg.type = "fec" /\ SentBlock(msg.block)

TransportInv ==
  /\ EncoderOK /\ WireOK
  /\ ViewOK(nack, given, abandoned, Before(firstGroup), Position(enc))
  /\ DecoderOK(decoder, given)

\* Of a group of which the sender sends raw blocks there is one redundant block:
\* with FecK blocks at most one raw block is missing.
LEMMA OneIsMissing ==
  ASSUME NEW group \in Nat, NEW marks \in SUBSET Indices,
         \A j \in marks : fec_encode_callback(Block(group, j)),
         Cardinality(marks) >= FecK,
         NEW i \in RawIndices \ marks, fec_encode_callback(Block(group, i))
  PROVE  RawIndices \subseteq marks \cup {i}
<1>1. FecK \in Nat /\ FecN \in Nat /\ i \in Nat /\ i < FecK
  BY FecAssumption DEF RawIndices
<1>2. \A j : Block(group, j).group = group /\ Block(group, j).index = j
  BY DEF Block
<1>3. group % 2 # 0
  BY <1>1, <1>2 DEF fec_encode_callback
<1>4. marks \cup {i} \subseteq 0 .. FecK
  <2>1. \A j \in marks : j <= FecK /\ j \in Nat
    BY <1>2, <1>3 DEF fec_encode_callback, Indices
  <2> QED
    BY <1>1, <2>1
<1>5. IsFiniteSet(0 .. FecK) /\ Cardinality(0 .. FecK) = FecK + 1
  BY <1>1, FS_Interval
<1>6. IsFiniteSet(marks) /\ Cardinality(marks) \in Nat
  BY <1>4, <1>5, FS_Subset, FS_CardinalityType
<1>7. Cardinality(marks \cup {i}) = Cardinality(marks) + 1
  BY <1>6, FS_AddElement
<1>8. Cardinality(marks \cup {i}) <= FecK + 1
  BY <1>4, <1>5, FS_Subset
<1>9. Cardinality(marks \cup {i}) = Cardinality(0 .. FecK)
  BY <1>1, <1>5, <1>6, <1>7, <1>8
<1>10. marks \cup {i} = 0 .. FecK
  BY <1>4, <1>5, <1>9, FS_Subset
<1>11. RawIndices \subseteq 0 .. FecK
  BY <1>1 DEF RawIndices
<1> QED
  BY <1>10, <1>11

\* What the decoder delivers, and its state, after a block of the stream.
Brings(d, b, got) ==
  /\ \A p \in ToSet(Deliveries(d, b)) :
       /\ p.contents = Block(b.group, p.index) /\ p.index \in RawIndices
       /\ Before(b.group) + p.index < Position(enc)
  /\ (\A p \in ToSet(Deliveries(d, b)) : SeqAt(b.group, p.index) \in got) => DecoderOK(DecoderAfter(d, b), got)

\* The group begins, or was not recovered before.
LEMMA BlockPending ==
  ASSUME EncoderOK, NEW b, SentBlock(b), NEW d \in DecoderType, NEW got,
         \/ d.group # b.group
         \/ Pending(d, got) /\ \A j \in d.marks : SentBlock(Block(d.group, j))
  PROVE  Brings(d, b, got)
<1> DEFINE switched == Switched(d, b.group)
           stored == Stored(switched, b)
           out == Deliveries(d, b)
           after == DecoderAfter(d, b)
           g == b.group
<1>1. b \in BlockType /\ g \in Nat /\ b.index \in Indices /\ b = Block(g, b.index) /\ FecK \in Nat
  BY FecAssumption DEF SentBlock, BlockType, Block
<1>2. /\ switched \in DecoderType /\ switched.group = g /\ Sound(switched)
      /\ \A j \in switched.marks : SentBlock(Block(g, j))
      /\ \A i \in switched.marks \cap RawIndices : SeqAt(g, i) \in got
  <2>1. CASE d.group # g
    BY <1>1, <2>1, SwitchedIs
  <2>2. CASE d.group = g
    BY <1>1, <2>2, SwitchedIs DEF Pending
  <2> QED
    BY <2>1, <2>2
<1> HIDE DEF switched
<1>3. /\ stored \in DecoderType /\ stored.group = g /\ Sound(stored)
      /\ stored.marks = switched.marks \cup {b.index}
  BY <1>1, <1>2, StoredIs
<1>4. \A p : p \in ToSet(out) <=>
           \/ Fresh(switched, b) /\ b.index \in RawIndices /\ p = Delivery(g, b.index, b)
           \/ /\ Recoverable(stored)
              /\ \E i \in RawIndices \ stored.marks : p = Delivery(g, i, Decoded(stored, i))
  BY <1>1, DeliveriesAre DEF switched
<1>5. after = IF Recoverable(stored) THEN Recovered(stored) ELSE stored
  BY DEF DecoderAfter, switched
<1> HIDE DEF stored, out, after
<1>6. /\ Recoverable(stored) <=> Cardinality(stored.marks) >= FecK /\ stored.raw # FecK
      /\ Recoverable(stored) => /\ stored.marks \ RawIndices # {}
                                /\ stored.raw + Len(Missing(stored)) = FecK
                                /\ SlotsTrue(stored)
  BY <1>3, SoundRecoverable
<1>7. \A j \in stored.marks : SentBlock(Block(g, j))
  BY <1>1, <1>2, <1>3
<1>8. \A i, c : Delivery(g, i, c).index = i /\ Delivery(g, i, c).contents = c
  BY DEF Delivery
<1>9. \A j : Block(g, j).group = g /\ Block(g, j).index = j
  BY DEF Block
<1>10. Recoverable(stored) => \A i : Decoded(stored, i) = Block(g, i)
  BY <1>3, <1>6 DEF Decoded
<1>11. Recoverable(stored) => g < enc.group
  <2> SUFFICES ASSUME Recoverable(stored) PROVE g < enc.group
    OBVIOUS
  <2>1. PICK j \in stored.marks : j \notin RawIndices
    BY <1>6
  <2>2. SentBlock(Block(g, j))
    BY <1>7
  <2> QED
    BY <1>9, <2>1, <2>2 DEF SentBlock
<1>12. ASSUME NEW p \in ToSet(out)
       PROVE  /\ p.contents = Block(g, p.index) /\ p.index \in RawIndices
              /\ Before(g) + p.index < Position(enc)
  <2>1. CASE p = Delivery(g, b.index, b) /\ b.index \in RawIndices
    BY <1>1, <1>8, <2>1 DEF SentBlock
  <2>2. CASE Recoverable(stored) /\ \E i \in RawIndices \ stored.marks : p = Delivery(g, i, Decoded(stored, i))
    <3>1. p.contents = Block(g, p.index) /\ p.index \in RawIndices
      BY <1>8, <1>10, <2>2
    <3>2. Before(g) + FecK <= Before(enc.group) /\ Before(g) \in Nat /\ Before(enc.group) \in Nat /\ enc.count \in Nat
      <4>1. enc.group \in Nat /\ enc.count \in Nat /\ g < enc.group
        BY <1>11, <2>2 DEF EncoderOK, RawIndices
      <4> QED
        BY <1>1, <4>1, GroupsFollow
    <3>3. p.index < FecK /\ p.index \in Nat
      BY <1>1, <3>1 DEF RawIndices
    <3> QED
      BY <1>1, <3>1, <3>2, <3>3 DEF Position
  <2> QED
    BY <1>4, <2>1, <2>2
<1>13. ASSUME \A p \in ToSet(out) : SeqAt(g, p.index) \in got
       PROVE  DecoderOK(after, got)
  <2>1. \A i \in stored.marks \cap RawIndices : SeqAt(g, i) \in got
    <3> SUFFICES ASSUME NEW i \in stored.marks \cap RawIndices PROVE SeqAt(g, i) \in got
      OBVIOUS
    <3>1. CASE i \in switched.marks
      BY <1>2, <3>1
    <3>2. CASE i \notin switched.marks
      <4>1. i = b.index /\ Fresh(switched, b)
        BY <1>3, <3>2 DEF Fresh
      <4> QED
        BY <1>4, <1>8, <1>13, <4>1
    <3> QED
      BY <3>1, <3>2
  <2>2. CASE ~Recoverable(stored)
    <3>1. after = stored
      BY <1>5, <2>2
    <3>2. Pending(stored, got)
      BY <1>3, <1>6, <2>1, <2>2 DEF Pending
    <3> QED
      BY <1>3, <1>7, <3>1, <3>2 DEF DecoderOK
  <2>3. CASE Recoverable(stored)
    <3>1. /\ after \in DecoderType /\ after.group = g /\ after.marks = stored.marks /\ after.raw = FecK
      BY <1>3, <1>5, <1>6, <2>3, RecoveredIs
    <3>2. \A i \in RawIndices : SeqAt(g, i) \in got
      <4> SUFFICES ASSUME NEW i \in RawIndices PROVE SeqAt(g, i) \in got
        OBVIOUS
      <4>1. CASE i \in stored.marks
        BY <2>1, <4>1
      <4>2. CASE i \notin stored.marks
        BY <1>4, <1>8, <1>13, <2>3, <4>2
      <4> QED
        BY <4>1, <4>2
    <3>3. \A j \in RawIndices \ stored.marks :
            fec_encode_callback(Block(g, j)) => RawIndices \subseteq stored.marks \cup {j}
      <4>1. stored.marks \in SUBSET Indices /\ Cardinality(stored.marks) >= FecK
        BY <1>3, <1>6, <2>3 DEF DecoderType
      <4>2. \A j \in stored.marks : fec_encode_callback(Block(g, j))
        BY <1>7 DEF SentBlock
      <4> QED
        BY <1>1, <4>1, <4>2, OneIsMissing
    <3>4. Complete(after, got)
      BY <3>1, <3>2, <3>3 DEF Complete
    <3> QED
      BY <1>7, <3>1, <3>4 DEF DecoderOK
  <2> QED
    BY <2>2, <2>3
<1> QED
  BY <1>12, <1>13 DEF Brings, out, after

\* The group was recovered, or all its raw blocks came: nothing is decoded again.
LEMMA BlockComplete ==
  ASSUME NEW b, SentBlock(b), NEW d \in DecoderType, NEW got,
         d.group = b.group, Complete(d, got), \A j \in d.marks : SentBlock(Block(d.group, j))
  PROVE  Brings(d, b, got)
<1> DEFINE stored == Stored(d, b)
           out == Deliveries(d, b)
           after == DecoderAfter(d, b)
           g == b.group
<1>1. b \in BlockType /\ g \in Nat /\ b.index \in Indices /\ b = Block(g, b.index)
  BY DEF SentBlock, BlockType, Block
<1>2. Switched(d, g) = d
  BY DEF Switched
<1>3. /\ stored \in DecoderType /\ stored.group = g /\ stored.marks = d.marks \cup {b.index}
      /\ b.index \notin RawIndices \/ ~Fresh(d, b) => stored.raw = d.raw
  BY <1>1, StoredIs
<1>4. \A p : p \in ToSet(out) <=>
           \/ Fresh(d, b) /\ b.index \in RawIndices /\ p = Delivery(g, b.index, b)
           \/ /\ Recoverable(stored)
              /\ \E i \in RawIndices \ stored.marks : p = Delivery(g, i, Decoded(stored, i))
  BY <1>1, <1>2, DeliveriesAre
<1>5. after = IF Recoverable(stored) THEN Recovered(stored) ELSE stored
  BY <1>2 DEF DecoderAfter
<1> HIDE DEF stored, out, after
<1>6. after \in DecoderType /\ after.group = g /\ after.marks = stored.marks
  BY <1>3, <1>5, RecoveredIs
<1>7. \A j \in stored.marks : SentBlock(Block(g, j))
  BY <1>1, <1>3
<1>8. \A i \in RawIndices : SeqAt(g, i) \in got
  BY DEF Complete
<1>9. \A i, c : Delivery(g, i, c).index = i /\ Delivery(g, i, c).contents = c
  BY DEF Delivery
<1>10. CASE RawIndices \subseteq stored.marks
  <2>1. \A p \in ToSet(out) : p = Delivery(g, b.index, b) /\ b.index \in RawIndices
    BY <1>4, <1>10
  <2>2. Complete(after, got)
    BY <1>6, <1>8, <1>10 DEF Complete
  <2>3. DecoderOK(after, got)
    BY <1>6, <1>7, <2>2 DEF DecoderOK
  <2>4. \A p \in ToSet(out) : /\ p.contents = Block(g, p.index) /\ p.index \in RawIndices
                              /\ Before(g) + p.index < Position(enc)
    BY <1>1, <1>9, <2>1 DEF SentBlock
  <2> QED
    BY <2>3, <2>4 DEF Brings, out, after
<1>11. CASE ~(RawIndices \subseteq stored.marks)
  <2>1. /\ d.raw = FecK
        /\ \A j \in RawIndices \ d.marks :
             fec_encode_callback(Block(g, j)) => RawIndices \subseteq d.marks \cup {j}
    BY <1>3, <1>11 DEF Complete
  <2>2. ~(Fresh(d, b) /\ b.index \in RawIndices)
    <3>1. b.index \in RawIndices \ d.marks => RawIndices \subseteq stored.marks
      BY <1>1, <1>3, <2>1 DEF SentBlock
    <3> QED
      BY <1>11, <3>1 DEF Fresh
  <2>3. stored.raw = FecK /\ ~Recoverable(stored)
    BY <1>3, <2>1, <2>2 DEF Recoverable
  <2>4. after = stored /\ \A p : p \notin ToSet(out)
    BY <1>4, <1>5, <2>2, <2>3
  <2>5. Complete(stored, got)
    BY <1>3, <1>8, <2>1, <2>3 DEF Complete
  <2>6. DecoderOK(stored, got)
    BY <1>3, <1>7, <2>5 DEF DecoderOK
  <2> QED
    BY <2>4, <2>6 DEF Brings, out, after
<1> QED
  BY <1>10, <1>11

\* Any block of the stream.
LEMMA BlockBrings ==
  ASSUME EncoderOK, NEW b, SentBlock(b), NEW d, NEW got, DecoderOK(d, got),
         NEW more, got \subseteq more
  PROVE  Brings(d, b, more)
<1>1. d \in DecoderType
  BY DEF DecoderOK
<1>2. CASE d.group # b.group
  BY <1>1, <1>2, BlockPending
<1>3. CASE d.group = b.group
  <2>1. /\ \A j \in d.marks : SentBlock(Block(d.group, j))
        /\ Pending(d, got) \/ Complete(d, got)
    BY <1>3 DEF DecoderOK, SentBlock
  <2>2. CASE Pending(d, got)
    <3>1. Pending(d, more)
      BY <2>2 DEF Pending
    <3> QED
      BY <1>1, <2>1, <3>1, BlockPending
  <2>3. CASE Complete(d, got)
    <3>1. Complete(d, more)
      BY <2>3 DEF Complete
    <3> QED
      BY <1>1, <1>3, <2>1, <3>1, BlockComplete
  <2> QED
    BY <2>1, <2>2, <2>3
<1> QED
  BY <1>2, <1>3

\* The decoder after the blocks of a group: it is in that group, or still where
\* it was.
LEMMA FedIs ==
  ASSUME NEW d \in DecoderType, NEW group \in Nat, d.group <= group
  PROVE  Fed(d, group) \in DecoderType /\ Fed(d, group).group <= group
<1> DEFINE S == {e \in DecoderType : e.group <= group}
           step == [n \in 1 .. FecN |-> [e \in S |->
                      IF fec_encode_callback(Block(group, n - 1)) THEN DecoderAfter(e, Block(group, n - 1)) ELSE e]]
           after == CHOOSE f : f = [n \in 0 .. FecN |->
                      IF n = 0 THEN d
                      ELSE IF fec_encode_callback(Block(group, n - 1)) THEN DecoderAfter(f[n - 1], Block(group, n - 1))
                      ELSE f[n - 1]]
<1>1. FecN \in Nat /\ d \in S
  BY FecAssumption
<1>2. ASSUME NEW n \in 1 .. FecN, NEW e \in S
      PROVE  DecoderAfter(e, Block(group, n - 1)) \in S
  <2>1. PICK b : b = Block(group, n - 1)
    OBVIOUS
  <2>2. b \in BlockType /\ b.group = group
    BY <1>1, <2>1 DEF Block, BlockType, Indices
  <2>3. PICK s : s = Switched(e, group)
    OBVIOUS
  <2>4. s \in DecoderType /\ s.group = group
    BY <2>3, SwitchedIs
  <2>5. PICK t : t = Stored(s, b)
    OBVIOUS
  <2>6. t \in DecoderType /\ t.group = group
    BY <2>2, <2>4, <2>5, StoredIs
  <2>7. DecoderAfter(e, b) = IF Recoverable(t) THEN Recovered(t) ELSE t
    BY <2>2, <2>3, <2>5 DEF DecoderAfter
  <2>8. DecoderAfter(e, b) \in DecoderType /\ DecoderAfter(e, b).group = group
    BY <2>6, <2>7, RecoveredIs
  <2> QED
    BY <2>1, <2>8
<1>3. IsLoop(S, FecN, d, step)
  BY <1>1, <1>2 DEF IsLoop
<1>4. PICK f : IsRun(f, S, FecN, d, step)
  <2> HIDE DEF S, step
  <2> QED
    BY <1>3, IterationExists
<1>5. /\ f \in [0 .. FecN -> S] /\ f[0] = d
      /\ \A n \in 1 .. FecN : f[n] = step[n][f[n - 1]]
  BY <1>4 DEF IsRun
<1>6. ASSUME NEW n \in 0 .. FecN
      PROVE  f[n] = IF n = 0 THEN d
                    ELSE IF fec_encode_callback(Block(group, n - 1)) THEN DecoderAfter(f[n - 1], Block(group, n - 1))
                    ELSE f[n - 1]
  <2>1. CASE n = 0
    BY <1>5, <2>1
  <2>2. CASE n # 0
    <3>1. n \in 1 .. FecN /\ n - 1 \in 0 .. FecN
      BY <1>1, <2>2
    <3>2. f[n - 1] \in S
      BY <1>5, <3>1
    <3> HIDE DEF S
    <3> QED
      BY <1>5, <2>2, <3>1, <3>2
  <2> QED
    BY <2>1, <2>2
<1>7. f = [n \in 0 .. FecN |->
             IF n = 0 THEN d
             ELSE IF fec_encode_callback(Block(group, n - 1)) THEN DecoderAfter(f[n - 1], Block(group, n - 1))
             ELSE f[n - 1]]
  <2> HIDE DEF S, step
  <2> QED
    BY <1>5, <1>6
<1>8. after = [n \in 0 .. FecN |->
                 IF n = 0 THEN d
                 ELSE IF fec_encode_callback(Block(group, n - 1)) THEN DecoderAfter(after[n - 1], Block(group, n - 1))
                 ELSE after[n - 1]]
  BY <1>7, Zenon
<1>9. Fed(d, group) = after[FecN]
  BY DEF Fed
<1> HIDE DEF after
<1>10. after[0] \in S
  <2>1. 0 \in 0 .. FecN
    BY <1>1
  <2>2. after[0] = d
    BY <1>8, <2>1
  <2> QED
    BY <1>1, <2>2
<1>11. ASSUME NEW n \in 1 .. FecN, after[n - 1] \in S
       PROVE  after[n] \in S
  <2>1. n \in 0 .. FecN /\ n # 0
    BY <1>1
  <2>2. after[n] = IF fec_encode_callback(Block(group, n - 1)) THEN DecoderAfter(after[n - 1], Block(group, n - 1))
                   ELSE after[n - 1]
    BY <1>8, <2>1
  <2>3. DecoderAfter(after[n - 1], Block(group, n - 1)) \in S
    BY <1>2, <1>11
  <2> QED
    BY <1>11, <2>2, <2>3
<1>12. after[FecN] \in S
  <2>1. FecN \in 0 .. FecN
    BY <1>1
  <2> HIDE DEF S
  <2> QED
    BY <1>1, <1>10, <1>11, <2>1, IterationStays
<1> QED
  BY <1>9, <1>12

\* The stream begins after a group that the receiver has.
LEMMA StreamBegins == ASSUME ShortStreams, TransportInit PROVE TransportInv
<1> DEFINE first == Before(firstGroup)
           fresh == [group |-> 0, marks |-> {}, count |-> 0, raw |-> 0, input |-> [j \in Indices |-> Garbage]]
<1>1. /\ firstGroup \in Nat /\ firstGroup \in FirstGroups /\ MaxGroups \in Nat /\ FecK \in Nat \ {0}
      /\ SeqSpace \in Nat \ {0}
  BY FecAssumption, FecTransportAssumption DEF TransportInit
<1>2. EncoderOK
  <2>1. enc = [group |-> firstGroup, count |-> 0] /\ 0 \in RawIndices
    BY <1>1 DEF TransportInit, RawIndices
  <2> QED
    BY <1>1, <2>1 DEF EncoderOK
<1>3. first \in Nat /\ Position(enc) = first /\ first < SeqSpace
  <2>1. first \in Nat /\ Position(enc) \in Nat /\ Position(enc) < SeqSpace
    BY <1>2, PositionIs
  <2>2. Position(enc) = first + 0
    BY DEF TransportInit, Position
  <2> QED
    BY <2>1, <2>2
<1>4. WireOK
  BY DEF TransportInit, WireOK
<1>5. ViewOK(nack, given, abandoned, first, Position(enc))
  <2>1. nack.lastSeq = first
    <3>1. CASE firstGroup = 0
      <4>1. 0 * FecK = 0
        BY <1>1
      <4> QED
        BY <3>1, <4>1 DEF TransportInit, Before
    <3>2. CASE firstGroup # 0
      <4>1. nack.lastSeq = (first + (-1) + 1) % SeqSpace
        BY <3>2 DEF TransportInit, SeqAt, Before
      <4>2. first + (-1) + 1 = first
        BY <1>3
      <4>3. first % SeqSpace = first
        <5> HIDE DEF first
        <5> QED
          BY <1>1, <1>3, InRange
      <4> QED
        BY <4>1, <4>2, <4>3
    <3> QED
      BY <3>1, <3>2
  <2>2. /\ nack = [started |-> firstGroup > 0, lastSeq |-> nack.lastSeq, list |-> <<>>]
        /\ given = {}
    BY DEF TransportInit
  <2>3. first \in Numbers /\ <<>> \in Lists /\ DOMAIN <<>> = {}
    BY <1>1, <1>3, ListIs DEF Numbers
  <2>4. firstGroup = 0 => first = 0
    BY <1>1 DEF Before
  <2> HIDE DEF first
  <2>5. nack \in Gens /\ nack.list = <<>> /\ (nack.started <=> firstGroup > 0)
    <3>1. PICK started \in BOOLEAN : started <=> firstGroup > 0
      BY Zenon
    <3>2. nack = [started |-> started, lastSeq |-> first, list |-> <<>>]
      BY <2>1, <2>2, <3>1
    <3> QED
      BY <2>3, <3>1, <3>2 DEF Gens
  <2>6. first + 1 .. first = {}
    BY <1>3
  <2> QED
    BY <1>1, <1>3, <2>1, <2>2, <2>3, <2>4, <2>5, <2>6 DEF ViewOK
<1>6. DecoderOK(decoder, given)
  <2>1. fresh \in DecoderType
    BY DEF DecoderType
  <2>2. CASE firstGroup = 0
    <3>1. decoder = fresh
      BY <2>2 DEF TransportInit
    <3>2. Sound(fresh)
      <4>1. Cardinality({}) = 0 /\ {} \cap RawIndices = {}
        BY FS_EmptySet
      <4> QED
        BY <4>1 DEF Sound
    <3>3. Pending(fresh, given)
      <4>1. Cardinality(fresh.marks) = 0
        BY FS_EmptySet
      <4> QED
        BY <1>1, <3>2, <4>1 DEF Pending
    <3> QED
      BY <2>1, <3>1, <3>3 DEF DecoderOK
  <2>3. CASE firstGroup # 0
    <3>1. decoder = Fed(fresh, firstGroup - 1) /\ firstGroup - 1 \in Nat
      BY <1>1, <2>3 DEF TransportInit
    <3>2. fresh.group <= firstGroup - 1
      BY <3>1
    <3>3. decoder \in DecoderType /\ decoder.group <= firstGroup - 1
      <4> HIDE DEF fresh
      <4> QED
        BY <2>1, <3>1, <3>2, FedIs
    <3>4. ~(decoder.group >= firstGroup)
      BY <1>1, <3>3 DEF DecoderType
    <3> QED
      BY <3>3, <3>4 DEF DecoderOK
  <2> QED
    BY <2>2, <2>3
<1> QED
  BY <1>2, <1>4, <1>5, <1>6 DEF TransportInv

-----------------------------------------------------------------------------
(* The steps of the transport.                                             *)

\* What was sent stays sent when the encoder goes on.
LEMMA SentStays ==
  ASSUME ShortStreams, EncoderOK, sender_test
  PROVE  /\ EncoderOK' /\ Position(enc)' = Position(enc) + 1
         /\ \A b : SentBlock(b) => SentBlock(b)'
         /\ \A b \in ToSet(Encoded(enc)) : fec_encode_callback(b) => SentBlock(b)'
<1>1. /\ enc \in [group : Nat, count : RawIndices] /\ enc.group \in Nat /\ enc.count \in Nat
      /\ enc.count < FecK /\ FecK \in Nat \ {0} /\ MaxGroups \in Nat /\ firstGroup \in Nat
  BY FecAssumption, FecTransportAssumption DEF EncoderOK, RawIndices
<1>2. enc' = Counted(enc) /\ firstGroup' = firstGroup /\ enc.group < firstGroup + MaxGroups
  BY DEF sender_test
<1>3. /\ Encoded(enc) \in Seq(BlockType) /\ enc' \in [group : Nat, count : RawIndices]
      /\ enc.group <= enc'.group
      /\ \A i \in 1 .. Len(Encoded(enc)) :
           /\ Encoded(enc)[i].group = enc.group /\ Encoded(enc)[i].index = enc.count + i - 1
           /\ \/ enc.group < enc'.group
              \/ enc.group = enc'.group /\ Encoded(enc)[i].index < enc'.count
  BY <1>1, <1>2, EncodedIs
<1>4. \/ enc.count + 1 = FecK /\ enc'.group = enc.group + 1 /\ enc'.count = 0
      \/ enc.count + 1 # FecK /\ enc'.group = enc.group /\ enc'.count = enc.count + 1
  BY <1>1, <1>2 DEF Counted
<1>5. Before(enc.group) \in Nat /\ Before(enc.group + 1) = Before(enc.group) + FecK
  BY <1>1, GroupsFollow
<1>6. Position(enc)' = Position(enc) + 1
  <2>1. Position(enc)' = Before(enc'.group) + enc'.count /\ Position(enc) = Before(enc.group) + enc.count
    BY DEF Position, Before
  <2> QED
    BY <1>1, <1>4, <1>5, <2>1
<1>7. EncoderOK'
  BY <1>1, <1>2, <1>3, <1>4 DEF EncoderOK
<1>8. enc'.group \in Nat /\ enc'.count \in Nat /\ Position(enc) \in Nat
  BY <1>3, <1>7, PositionIs DEF RawIndices
<1>9. ASSUME NEW b, SentBlock(b)
      PROVE  SentBlock(b)'
  <2>1. b \in BlockType /\ firstGroup <= b.group /\ fec_encode_callback(b) /\ b.group \in Nat
    BY <1>9 DEF SentBlock, BlockType
  <2>2. CASE b.index \in RawIndices
    <3>1. Before(b.group) + b.index < Position(enc) /\ Before(b.group) + b.index \in Int
      <4>1. Before(b.group) \in Nat /\ b.index \in Int
        BY <2>1, <2>2, GroupsFollow DEF RawIndices
      <4> QED
        BY <1>9, <2>2, <4>1 DEF SentBlock
    <3>2. Before(b.group) + b.index < Position(enc) + 1
      BY <1>8, <3>1
    <3>3. Before(b.group) + b.index < Position(enc)'
      BY <1>6, <3>2
    <3> QED
      BY <1>2, <2>1, <2>2, <3>3 DEF SentBlock
  <2>3. CASE b.index \notin RawIndices
    <3>1. b.group < enc.group
      BY <1>9, <2>3 DEF SentBlock
    <3>2. b.group < enc'.group
      BY <1>1, <1>3, <1>8, <2>1, <3>1
    <3> QED
      BY <1>2, <2>1, <2>3, <3>2 DEF SentBlock
  <2> QED
    BY <2>2, <2>3
<1>10. ASSUME NEW b \in ToSet(Encoded(enc)), fec_encode_callback(b)
       PROVE  SentBlock(b)'
  <2>1. PICK i \in 1 .. Len(Encoded(enc)) : b = Encoded(enc)[i]
    BY <1>3 DEF ToSet
  <2>2. b \in BlockType /\ b.group = enc.group /\ b.index = enc.count + i - 1 /\ b.index \in Nat
    <3>1. b \in BlockType
      BY <1>3, <2>1
    <3>2. b.index \in Nat
      BY <3>1 DEF BlockType, Indices
    <3> QED
      BY <1>3, <2>1, <3>1, <3>2
  <2>3. firstGroup' <= b.group
    BY <1>2, <2>2 DEF EncoderOK
  <2>4. CASE b.index \in RawIndices
    <3>1. b.index < FecK /\ Before(b.group) = Before(enc.group) /\ Before(b.group) \in Nat
      BY <1>1, <1>5, <2>2, <2>4 DEF RawIndices
    <3>2. Position(enc)' = Before(enc'.group) + enc'.count
      BY DEF Position, Before
    <3>3. CASE enc.group < enc'.group
      <4>1. Before(enc'.group) = Before(enc.group) + FecK /\ enc'.count = 0
        BY <1>1, <1>4, <1>5, <3>3
      <4>2. Before(b.group) + b.index < Position(enc)'
        BY <1>1, <1>5, <2>2, <3>1, <3>2, <4>1
      <4> QED
        BY <1>10, <2>2, <2>3, <2>4, <4>2 DEF SentBlock
    <3>4. CASE enc.group = enc'.group /\ b.index < enc'.count
      <4>1. Before(b.group) + b.index < Position(enc)'
        BY <1>5, <1>8, <2>2, <3>1, <3>2, <3>4
      <4> QED
        BY <1>10, <2>2, <2>3, <2>4, <4>1 DEF SentBlock
    <3> QED
      BY <1>3, <2>1, <3>3, <3>4
  <2>5. CASE b.index \notin RawIndices
    <3>1. ~(b.index < enc'.count)
      <4>1. enc'.count < FecK
        BY <1>1, <1>3 DEF RawIndices
      <4> QED
        BY <1>1, <1>8, <2>2, <2>5, <4>1 DEF RawIndices
    <3>2. b.group < enc'.group
      BY <1>3, <2>1, <2>2, <3>1
    <3> QED
      BY <1>10, <2>2, <2>3, <2>5, <3>2 DEF SentBlock
  <2> QED
    BY <2>4, <2>5
<1> QED
  BY <1>6, <1>7, <1>9, <1>10

\* The sender counts the packet, encodes it and sends it.
LEMMA SendKeeps == ASSUME ShortStreams, TransportInv, sender_test PROVE TransportInv'
<1> DEFINE first == Before(firstGroup)
           pos == Position(enc)
<1>1. EncoderOK /\ WireOK /\ ViewOK(nack, given, abandoned, first, pos) /\ DecoderOK(decoder, given)
  BY DEF TransportInv
<1>2. /\ EncoderOK' /\ pos' = pos + 1
      /\ \A b : SentBlock(b) => SentBlock(b)'
      /\ \A b \in ToSet(Encoded(enc)) : fec_encode_callback(b) => SentBlock(b)'
  BY <1>1, SentStays
<1>3. /\ firstGroup' = firstGroup /\ decoder' = decoder /\ nack' = nack /\ given' = given
      /\ abandoned' = abandoned /\ enc.group < firstGroup + MaxGroups
  BY DEF sender_test
<1>4. first' = first /\ first \in Nat /\ pos \in Nat /\ first <= pos /\ pos + 1 < SeqSpace /\ SeqSpace \in Nat \ {0}
  <2>1. first \in Nat /\ pos \in Nat /\ first <= pos /\ pos + 1 < SeqSpace
    BY <1>1, <1>3, PositionIs
  <2> QED
    BY <1>3, <2>1, FecTransportAssumption DEF Before
<1>5. SeqAt(enc.group, enc.count) = pos + 1
  <2>1. SeqAt(enc.group, enc.count) = (pos + 1) % SeqSpace
    BY DEF SeqAt, Position, Before
  <2> HIDE DEF pos
  <2> QED
    BY <1>4, <2>1, InRange
<1> HIDE DEF first, pos
<1>6. WireOK'
  <2> SUFFICES ASSUME NEW msg \in wire'
               PROVE  \/ msg.type \in {"data", "nack"} /\ msg.seq \in first' + 1 .. pos'
                      \/ msg.type = "fec" /\ SentBlock(msg.block)'
    BY DEF WireOK, first, pos
  <2>1. \/ msg \in wire
        \/ msg \in {[type |-> "fec", block |-> b] : b \in {b \in ToSet(Encoded(enc)) : fec_encode_callback(b)}}
        \/ msg = [type |-> "data", seq |-> pos + 1]
    BY <1>5 DEF sender_test, send_packet
  <2>2. CASE msg \in wire
    <3>1. first + 1 .. pos \subseteq first' + 1 .. pos'
      BY <1>2, <1>4
    <3> QED
      BY <1>1, <1>2, <2>2, <3>1 DEF WireOK, first, pos
  <2>3. CASE msg \in {[type |-> "fec", block |-> b] : b \in {b \in ToSet(Encoded(enc)) : fec_encode_callback(b)}}
    BY <1>2, <2>3
  <2>4. CASE msg = [type |-> "data", seq |-> pos + 1]
    <3>1. pos + 1 \in first' + 1 .. pos'
      BY <1>2, <1>4
    <3> QED
      BY <2>4, <3>1
  <2> QED
    BY <2>1, <2>2, <2>3, <2>4
<1>7. ViewOK(nack', given', abandoned', first', pos')
  <2>1. nack.lastSeq \in Nat
    BY <1>1, FecTransportAssumption DEF ViewOK, Gens, Numbers
  <2>2. nack.lastSeq <= pos'
    BY <1>1, <1>2, <1>4, <2>1 DEF ViewOK
  <2> QED
    BY <1>1, <1>3, <1>4, <2>2 DEF ViewOK
<1>8. DecoderOK(decoder, given)'
  BY <1>1, <1>2, <1>3 DEF DecoderOK
<1> QED
  BY <1>2, <1>6, <1>7, <1>8 DEF TransportInv, first, pos

\* What an arrival leaves: the stream, and what was sent.
LEMMA SentSame ==
  ASSUME enc' = enc, firstGroup' = firstGroup
  PROVE  /\ EncoderOK' <=> EncoderOK
         /\ Before(firstGroup)' = Before(firstGroup) /\ Position(enc)' = Position(enc)
         /\ \A b : SentBlock(b)' <=> SentBlock(b)
         /\ wire' = wire /\ WireOK => WireOK'
         /\ decoder' = decoder /\ given' = given /\ DecoderOK(decoder, given) => DecoderOK(decoder, given)'
<1>1. EncoderOK' <=> EncoderOK
  BY DEF EncoderOK
<1>2. Before(firstGroup)' = Before(firstGroup) /\ Position(enc)' = Position(enc)
  BY DEF Before, Position
<1>3. \A b : SentBlock(b)' <=> SentBlock(b)
  BY <1>2 DEF SentBlock
<1>4. wire' = wire /\ WireOK => WireOK'
  BY <1>2, <1>3 DEF WireOK
<1>5. decoder' = decoder /\ given' = given /\ DecoderOK(decoder, given) => DecoderOK(decoder, given)'
  BY <1>3 DEF DecoderOK
<1> QED
  BY <1>1, <1>2, <1>3, <1>4, <1>5

\* A request is answered with the packet, which was sent before.
LEMMA AnswerKeeps == ASSUME ShortStreams, TransportInv, AnswerNack PROVE TransportInv'
<1>1. PICK msg \in wire : msg.type = "nack" /\ send_packet(msg.seq, {})
  BY DEF AnswerNack
<1>2. /\ enc' = enc /\ firstGroup' = firstGroup /\ decoder' = decoder /\ nack' = nack
      /\ given' = given /\ abandoned' = abandoned
  BY DEF AnswerNack
<1>3. \A m \in wire' : m \in wire \/ m = [type |-> "data", seq |-> msg.seq]
  BY <1>1 DEF send_packet
<1>4. msg.seq \in Before(firstGroup) + 1 .. Position(enc)
  BY <1>1 DEF TransportInv, WireOK
<1>5. /\ EncoderOK' /\ Before(firstGroup)' = Before(firstGroup) /\ Position(enc)' = Position(enc)
      /\ \A b : SentBlock(b)' <=> SentBlock(b)
      /\ DecoderOK(decoder, given)'
  BY <1>2, SentSame DEF TransportInv
<1>6. WireOK'
  BY <1>3, <1>4, <1>5 DEF TransportInv, WireOK
<1>7. ViewOK(nack, given, abandoned, Before(firstGroup), Position(enc))'
  BY <1>2, <1>5 DEF TransportInv, ViewOK
<1> QED
  BY <1>5, <1>6, <1>7 DEF TransportInv

\* How far the stream is: the facts about numbers that the steps need.
LEMMA StreamBounds ==
  ASSUME ShortStreams, EncoderOK
  PROVE  LET first == Before(firstGroup)
             pos == Position(enc)
             span == MaxGroups * FecK
         IN  /\ first \in Nat /\ pos \in Nat /\ span \in Nat /\ pos <= first + span /\ pos < SeqSpace
             /\ 2 * span < SeqSpace /\ span <= MaxPacketAge /\ span <= MaxNackPackets /\ MaxPacketAge > 0
BY PositionIs DEF ShortStreams

\* A packet arrives.
LEMMA DataKeeps == ASSUME ShortStreams, TransportInv, ReceiveData PROVE TransportInv'
<1> DEFINE first == Before(firstGroup)
           pos == Position(enc)
<1>1. PICK msg \in wire : /\ msg.type = "data" /\ nack' = ReceivePacket(nack, msg.seq)
                          /\ given' = given \cup {msg.seq}
  BY DEF ReceiveData
<1>2. /\ enc' = enc /\ firstGroup' = firstGroup /\ decoder' = decoder /\ wire' = wire
      /\ abandoned' = abandoned
  BY DEF ReceiveData
<1>3. EncoderOK' /\ WireOK' /\ first' = first /\ pos' = pos /\ \A b : SentBlock(b)' <=> SentBlock(b)
  BY <1>2, SentSame DEF TransportInv
<1>4. msg.seq \in first + 1 .. pos
  BY <1>1 DEF TransportInv, WireOK
<1>5. EncoderOK /\ ViewOK(nack, given, abandoned, first, pos)
  BY DEF TransportInv
<1>6. ViewOK(ReceivePacket(nack, msg.seq), given \cup {msg.seq}, abandoned, first, pos)
  <2>1. PICK span : span = MaxGroups * FecK
    OBVIOUS
  <2>2. /\ first \in Nat /\ pos \in Nat /\ span \in Nat /\ pos <= first + span /\ pos < SeqSpace
        /\ 2 * span < SeqSpace /\ span <= MaxPacketAge /\ span <= MaxNackPackets /\ MaxPacketAge > 0
    BY <1>5, <2>1, StreamBounds
  <2> HIDE DEF first, pos
  <2> QED
    BY <1>4, <1>5, <2>2, ViewKeeps
<1> HIDE DEF first, pos
<1>7. ViewOK(nack', given', abandoned', first', pos')
  BY <1>1, <1>2, <1>3, <1>6
<1>8. DecoderOK(decoder, given)'
  <2>1. DecoderOK(decoder, given) /\ given \subseteq given'
    BY <1>1 DEF TransportInv
  <2>2. Pending(decoder, given) => Pending(decoder, given')
    BY <2>1 DEF Pending
  <2>3. Complete(decoder, given) => Complete(decoder, given')
    BY <2>1 DEF Complete
  <2>4. Pending(decoder, given)' = Pending(decoder, given') /\ Complete(decoder, given)' = Complete(decoder, given')
    BY <1>2 DEF Pending, Complete, Sound
  <2> QED
    BY <1>2, <1>3, <2>1, <2>2, <2>3, <2>4 DEF DecoderOK
<1> QED
  BY <1>3, <1>7, <1>8 DEF TransportInv, first, pos

\* A block arrives: what is decoded has the numbers of packets that were sent.
LEMMA BlockKeeps == ASSUME ShortStreams, TransportInv, ReceiveBlock PROVE TransportInv'
<1> DEFINE first == Before(firstGroup)
           pos == Position(enc)
<1>1. PICK msg \in wire :
        /\ msg.type = "fec" /\ decoder' = DecoderAfter(decoder, msg.block)
        /\ LET out == Deliveries(decoder, msg.block)
           IN  \E noise \in [{i \in DOMAIN out : out[i].contents = Garbage} -> Numbers] :
                 fec_dencode_callback(
                   [i \in DOMAIN out |-> IF out[i].contents = Garbage THEN noise[i]
                                         ELSE SeqAt(out[i].contents.group, out[i].contents.index)])
  BY DEF ReceiveBlock
<1>2. /\ enc' = enc /\ firstGroup' = firstGroup /\ wire' = wire /\ abandoned' = abandoned
  BY DEF ReceiveBlock
<1>3. EncoderOK' /\ WireOK' /\ first' = first /\ pos' = pos /\ \A x : SentBlock(x)' <=> SentBlock(x)
  BY <1>2, SentSame DEF TransportInv
<1>4. PICK b, out : b = msg.block /\ out = Deliveries(decoder, b)
  OBVIOUS
<1>5. PICK noise : fec_dencode_callback(
                     [i \in DOMAIN out |-> IF out[i].contents = Garbage THEN noise[i]
                                           ELSE SeqAt(out[i].contents.group, out[i].contents.index)])
  BY <1>1, <1>4
<1>6. SentBlock(b) /\ b \in BlockType /\ b.group \in Nat /\ firstGroup <= b.group
  <2>1. SentBlock(b)
    BY <1>1, <1>4 DEF TransportInv, WireOK
  <2> QED
    BY <2>1 DEF SentBlock, BlockType
<1>7. EncoderOK /\ DecoderOK(decoder, given) /\ decoder \in DecoderType /\ ViewOK(nack, given, abandoned, first, pos)
  BY DEF TransportInv, DecoderOK
<1>8. /\ out \in Seq(DeliveryType) /\ Len(out) \in Nat /\ DOMAIN out = 1 .. Len(out)
      /\ \A i \in DOMAIN out : out[i] \in ToSet(out)
  <2>1. out \in Seq(DeliveryType)
    BY <1>4, <1>6, <1>7, DeliveriesAre
  <2> QED
    BY <2>1 DEF ToSet
<1>9. \A p \in ToSet(out) :
        /\ p.contents = Block(b.group, p.index) /\ p.index \in RawIndices
        /\ Before(b.group) + p.index < pos
  <2>1. Brings(decoder, b, given)
    BY <1>6, <1>7, BlockBrings
  <2> QED
    BY <1>4, <2>1 DEF Brings
<1> DEFINE number(i) == SeqAt(b.group, out[i].index)
<1>10. ASSUME NEW i \in DOMAIN out
       PROVE  /\ out[i].contents # Garbage
              /\ SeqAt(out[i].contents.group, out[i].contents.index) = number(i)
  <2>1. out[i].contents = Block(b.group, out[i].index) /\ out[i].index \in RawIndices
    BY <1>8, <1>9
  <2>2. out[i].index \in Indices
    BY <2>1, FecAssumption DEF RawIndices, Indices
  <2>3. Block(b.group, out[i].index) \in [group : Nat, index : Indices]
    BY <1>6, <2>2 DEF Block
  <2> QED
    BY <2>1, <2>3, GarbageAssumption DEF Block
<1>11. ASSUME NEW i \in DOMAIN out
       PROVE  number(i) \in first + 1 .. pos
  <2>1. out[i].index \in RawIndices /\ Before(b.group) + out[i].index < pos
    BY <1>8, <1>9
  <2>2. number(i) = Before(b.group) + out[i].index + 1
    BY <1>6, <1>7, <2>1, NumberIs
  <2>3. Before(b.group) \in Nat /\ first <= Before(b.group) /\ first \in Nat /\ pos \in Nat
    <3>1. first \in Nat /\ pos \in Nat /\ firstGroup \in Nat
      BY <1>7, StreamBounds, FecTransportAssumption DEF EncoderOK
    <3>2. CASE firstGroup = b.group
      BY <3>1, <3>2
    <3>3. CASE firstGroup < b.group
      <4>1. first + FecK <= Before(b.group) /\ Before(b.group) \in Nat
        BY <1>6, <3>1, <3>3, GroupsFollow
      <4> QED
        BY <3>1, <4>1, FecAssumption
    <3> QED
      BY <1>6, <3>1, <3>2, <3>3
  <2>4. out[i].index \in Nat
    BY <2>1 DEF RawIndices
  <2> HIDE DEF number, first, pos
  <2> QED
    BY <2>1, <2>2, <2>3, <2>4
<1>12. PICK seqs : seqs = [i \in DOMAIN out |-> number(i)]
  OBVIOUS
<1>13. nack' = ReceivedAll(nack, seqs) /\ given' = given \cup ToSet(seqs)
  <2>1. [i \in DOMAIN out |-> IF out[i].contents = Garbage THEN noise[i]
                              ELSE SeqAt(out[i].contents.group, out[i].contents.index)] = seqs
    <3> HIDE DEF number
    <3> QED
      BY <1>10, <1>12
  <2> QED
    BY <1>5, <2>1 DEF fec_dencode_callback
<1> HIDE DEF number
<1>14. /\ DOMAIN seqs = DOMAIN out /\ Len(seqs) = Len(out)
       /\ \A i \in DOMAIN out : seqs[i] = number(i) /\ seqs[i] \in ToSet(seqs)
  BY <1>8, <1>12 DEF ToSet
<1>15. ViewOK(ReceivedAll(nack, seqs), given \cup ToSet(seqs), abandoned, first, pos)
  <2>1. PICK span : span = MaxGroups * FecK
    OBVIOUS
  <2>2. /\ first \in Nat /\ pos \in Nat /\ span \in Nat /\ pos <= first + span /\ pos < SeqSpace
        /\ 2 * span < SeqSpace /\ span <= MaxPacketAge /\ span <= MaxNackPackets /\ MaxPacketAge > 0
    BY <1>7, <2>1, StreamBounds
  <2>3. /\ Len(seqs) \in Nat /\ DOMAIN seqs = 1 .. Len(seqs)
        /\ \A n \in 1 .. Len(seqs) : seqs[n] \in first + 1 .. pos
    BY <1>8, <1>11, <1>14
  <2> HIDE DEF first, pos
  <2> QED
    BY <1>7, <2>2, <2>3, ViewKeepsAll
<1> HIDE DEF first, pos
<1>16. ViewOK(nack', given', abandoned', first', pos')
  BY <1>2, <1>3, <1>13, <1>15
<1>17. DecoderOK(decoder, given)'
  <2>1. Brings(decoder, b, given')
    BY <1>6, <1>7, <1>13, BlockBrings
  <2>2. \A p \in ToSet(out) : SeqAt(b.group, p.index) \in given'
    BY <1>8, <1>13, <1>14 DEF ToSet, number
  <2>3. DecoderOK(DecoderAfter(decoder, b), given')
    BY <1>4, <2>1, <2>2 DEF Brings
  <2>4. DecoderOK(decoder', given')
    BY <1>1, <1>4, <2>3
  <2>5. Pending(decoder, given)' = Pending(decoder', given') /\ Complete(decoder, given)' = Complete(decoder', given')
    BY DEF Pending, Complete, Sound
  <2> QED
    BY <1>2, <1>3, <2>4, <2>5 DEF DecoderOK
<1> QED
  BY <1>3, <1>16, <1>17 DEF TransportInv, first, pos

\* The timer asks for missing packets, and gives up those at their limit.
LEMMA TimerKeeps == ASSUME ShortStreams, TransportInv, handle_crude_timer PROVE TransportInv'
<1> DEFINE first == Before(firstGroup)
           pos == Position(enc)
<1>1. PICK due \in SUBSET DOMAIN nack.list :
        /\ wire' = wire \cup {[type |-> "nack", seq |-> s] : s \in due}
        /\ nack' = GetNackBatch(nack, due)
        /\ abandoned' = abandoned \cup (DOMAIN nack.list \ DOMAIN nack'.list)
  BY DEF handle_crude_timer
<1>2. enc' = enc /\ firstGroup' = firstGroup /\ decoder' = decoder /\ given' = given
  BY DEF handle_crude_timer
<1>3. /\ EncoderOK' /\ first' = first /\ pos' = pos /\ \A x : SentBlock(x)' <=> SentBlock(x)
      /\ DecoderOK(decoder, given)'
  BY <1>2, SentSame DEF TransportInv
<1>4. EncoderOK /\ WireOK /\ ViewOK(nack, given, abandoned, first, pos)
  BY DEF TransportInv
<1>5. first \in Nat /\ pos \in Nat
  BY <1>4, StreamBounds
<1> HIDE DEF first, pos
<1>6. PICK started, last, list : started = nack.started /\ last = nack.lastSeq /\ list = nack.list
  OBVIOUS
<1>7. /\ nack = [started |-> started, lastSeq |-> last, list |-> list]
      /\ started \in BOOLEAN /\ last \in Numbers /\ list \in Lists /\ last \in Nat
  <2>1. nack \in Gens
    BY <1>4 DEF ViewOK
  <2> QED
    BY <1>6, <2>1, FecTransportAssumption DEF Gens, Numbers
<1>8. list \in [DOMAIN list -> Nat] /\ DOMAIN list \subseteq Numbers
  BY <1>7, ListIs
<1>9. PICK kept, after : /\ kept = DOMAIN list \ {s \in due : list[s] + 1 >= MaxNackRetries}
                         /\ after = [s \in kept |-> IF s \in due THEN list[s] + 1 ELSE list[s]]
  OBVIOUS
<1>10. nack' = [started |-> started, lastSeq |-> last, list |-> after]
  BY <1>1, <1>6, <1>7, <1>9 DEF GetNackBatch
<1>11. after \in Lists /\ DOMAIN after = kept /\ kept \subseteq DOMAIN list
  <2>1. \A s \in kept : (IF s \in due THEN list[s] + 1 ELSE list[s]) \in Nat
    BY <1>8, <1>9
  <2>2. after \in [kept -> Nat] /\ kept \in SUBSET Numbers
    BY <1>8, <1>9, <2>1
  <2> QED
    BY <1>9, <2>2, ListIs
<1>12. ViewOK(nack', given', abandoned', first', pos')
  <2>1. nack' \in Gens
    BY <1>7, <1>10, <1>11 DEF Gens
  <2>2. nack'.started = started /\ nack'.lastSeq = last /\ nack'.list = after
    BY <1>10
  <2>3. abandoned' = abandoned \cup (DOMAIN list \ kept)
    BY <1>1, <1>6, <1>11, <2>2
  <2> QED
    BY <1>2, <1>3, <1>4, <1>6, <1>11, <2>1, <2>2, <2>3 DEF ViewOK
<1>13. WireOK'
  <2> SUFFICES ASSUME NEW msg \in wire'
               PROVE  \/ msg.type \in {"data", "nack"} /\ msg.seq \in first' + 1 .. pos'
                      \/ msg.type = "fec" /\ SentBlock(msg.block)'
    BY DEF WireOK, first, pos
  <2>1. CASE msg \in wire
    BY <1>3, <1>4, <2>1 DEF WireOK, first, pos
  <2>2. CASE msg \notin wire
    <3>1. PICK s \in due : msg = [type |-> "nack", seq |-> s]
      BY <1>1, <2>2
    <3>2. s \in first + 1 .. last /\ last <= pos
      BY <1>4, <1>6 DEF ViewOK
    <3>3. s \in first + 1 .. pos
      BY <1>5, <1>7, <3>2
    <3> QED
      BY <1>3, <3>1, <3>3
  <2> QED
    BY <2>1, <2>2
<1> QED
  BY <1>3, <1>12, <1>13 DEF TransportInv, first, pos

LEMMA TransportInvariant == ASSUME ShortStreams PROVE TransportSpec => []TransportInv
<1>1. TransportInit => TransportInv
  BY StreamBegins
<1>2. TransportInv /\ [TransportNext]_<<enc, transportVars>> => TransportInv'
  <2> SUFFICES ASSUME TransportInv, [TransportNext]_<<enc, transportVars>>
               PROVE  TransportInv'
    OBVIOUS
  <2>1. CASE sender_test
    BY <2>1, SendKeeps
  <2>2. CASE AnswerNack
    BY <2>2, AnswerKeeps
  <2>3. CASE ReceiveData
    BY <2>3, DataKeeps
  <2>4. CASE ReceiveBlock
    BY <2>4, BlockKeeps
  <2>5. CASE handle_crude_timer
    BY <2>5, TimerKeeps
  <2>6. CASE UNCHANGED <<enc, transportVars>>
    <3>1. /\ enc' = enc /\ firstGroup' = firstGroup /\ decoder' = decoder /\ nack' = nack
          /\ wire' = wire /\ given' = given /\ abandoned' = abandoned
      BY <2>6 DEF transportVars
    <3>2. EncoderOK' /\ WireOK' /\ DecoderOK(decoder, given)'
      BY <3>1, SentSame DEF TransportInv
    <3>3. ViewOK(nack, given, abandoned, Before(firstGroup), Position(enc))'
      BY <3>1, SentSame DEF TransportInv, ViewOK
    <3> QED
      BY <3>2, <3>3 DEF TransportInv
  <2> QED
    BY <2>1, <2>2, <2>3, <2>4, <2>5, <2>6 DEF TransportNext
<1> QED
  BY <1>1, <1>2, PTL DEF TransportSpec

\* Of a stream that is short enough for its numbers, in whatever order, how often
\* and by whichever path its packets arrive: NackGenerator asks for nothing that
\* ReceivePacket was called with, a group of which FecK blocks arrived has given
\* all its packets, fec_dencode_callback makes up no number, and past MaxPacketAge
\* what was skipped is listed until it is given or given up.
THEOREM StreamIsAccounted == ASSUME ShortStreams PROVE TransportSpec => []StreamAccounted
<1>1. TransportInv => StreamAccounted
  <2> SUFFICES ASSUME TransportInv PROVE StreamAccounted
    OBVIOUS
  <2> DEFINE first == Before(firstGroup)
             pos == Position(enc)
             newest == nack.lastSeq - SeqAt(firstGroup, 0)
  <2>1. EncoderOK /\ ViewOK(nack, given, abandoned, first, pos) /\ DecoderOK(decoder, given)
    BY DEF TransportInv
  <2>2. /\ first \in Nat /\ pos \in Nat /\ pos < SeqSpace /\ nack.lastSeq \in Nat
        /\ first <= nack.lastSeq /\ nack.lastSeq <= pos
    <3>1. nack.lastSeq \in Nat
      BY <2>1, FecTransportAssumption DEF ViewOK, Gens, Numbers
    <3> QED
      BY <2>1, <3>1, StreamBounds DEF ViewOK
  <2>3. given \cap DOMAIN nack.list = {}
    BY <2>1 DEF ViewOK
  <2>4. ASSUME decoder.group >= firstGroup, Cardinality(decoder.marks) >= FecK
        PROVE  \A i \in RawIndices : SeqAt(decoder.group, i) \in given
    <3>1. CASE Pending(decoder, given)
      <4>1. decoder \in DecoderType /\ Sound(decoder) /\ decoder.raw = FecK
        BY <2>1, <2>4, <3>1 DEF DecoderOK, Pending
      <4>2. RawIndices \subseteq decoder.marks
        BY <4>1, SoundRecoverable
      <4> QED
        BY <3>1, <4>2 DEF Pending
    <3>2. CASE Complete(decoder, given)
      BY <3>2 DEF Complete
    <3> QED
      BY <2>1, <2>4, <3>1, <3>2 DEF DecoderOK
  <2>5. given \subseteq Stocked
    <3>1. Stocked = 1 .. pos
      BY <2>1, StockIs
    <3>2. given \subseteq first + 1 .. nack.lastSeq
      BY <2>1 DEF ViewOK
    <3> HIDE DEF first, pos
    <3> QED
      BY <2>2, <3>1, <3>2
  <2>6. ASSUME first >= MaxPacketAge
        PROVE  {SeqAt(firstGroup, i) : i \in 0 .. newest} \subseteq given \cup DOMAIN nack.list \cup abandoned
    <3>1. first + 1 .. nack.lastSeq \subseteq given \cup DOMAIN nack.list \cup abandoned
      BY <2>1, <2>6 DEF ViewOK
    <3>2. ASSUME NEW i \in Nat, first + i + 1 < SeqSpace
          PROVE  SeqAt(firstGroup, i) = first + i + 1
      <4>1. SeqAt(firstGroup, i) = (first + i + 1) % SeqSpace
        BY DEF SeqAt, Before
      <4> HIDE DEF first
      <4> QED
        BY <2>2, <3>2, <4>1, InRange, FecTransportAssumption
    <3>3. first + 0 + 1 < SeqSpace
      <4>1. first + MaxGroups * FecK < SeqSpace
        <5>1. (firstGroup + MaxGroups) * FecK < SeqSpace
          BY <2>1 DEF ShortStreams, EncoderOK
        <5>2. firstGroup \in Nat /\ MaxGroups \in Nat /\ FecK \in Nat
          BY <2>1, FecAssumption, FecTransportAssumption DEF EncoderOK
        <5>3. (firstGroup + MaxGroups) * FecK = firstGroup * FecK + MaxGroups * FecK
          BY <5>2
        <5> QED
          BY <5>1, <5>3 DEF Before
      <4>2. MaxGroups * FecK >= 1
        <5>1. MaxGroups \in Nat /\ MaxGroups >= 1 /\ FecK \in Nat /\ FecK >= 1
          BY FecAssumption DEF ShortStreams
        <5>2. PICK m \in Nat : MaxGroups = m + 1
          <6>1. MaxGroups - 1 \in Nat /\ MaxGroups = (MaxGroups - 1) + 1
            BY <5>1
          <6> QED
            BY <6>1
        <5>3. MaxGroups * FecK = m * FecK + FecK /\ m * FecK \in Nat
          BY <5>1, <5>2
        <5> QED
          BY <5>1, <5>3
      <4> HIDE DEF first
      <4>3. MaxGroups * FecK \in Nat /\ SeqSpace \in Nat
        BY <2>1, StreamBounds, FecTransportAssumption
      <4> QED
        BY <2>2, <4>1, <4>2, <4>3
    <3>4. newest = nack.lastSeq - (first + 1)
      <4>1. SeqAt(firstGroup, 0) = first + 0 + 1
        BY <3>2, <3>3
      <4>2. first + 0 + 1 = first + 1
        BY <2>2
      <4> QED
        BY <4>1, <4>2
    <3> HIDE DEF newest
    <3>5. ASSUME NEW i \in 0 .. newest
          PROVE  SeqAt(firstGroup, i) \in first + 1 .. nack.lastSeq
      <4> HIDE DEF first, pos
      <4>1. i \in Nat /\ first + i + 1 \in first + 1 .. nack.lastSeq /\ first + i + 1 < SeqSpace
        BY <2>2, <3>4, FecTransportAssumption
      <4> QED
        BY <3>2, <4>1
    <3> HIDE DEF first
    <3> QED
      BY <3>1, <3>5
  <2>7. firstGroup * FecK = first
    BY DEF Before
  <2> QED
    BY <2>3, <2>4, <2>5, <2>6, <2>7 DEF StreamAccounted
<1>2. TransportSpec => []TransportInv
  BY TransportInvariant
<1> QED
  BY <1>1, <1>2, PTL
=============================================================================
