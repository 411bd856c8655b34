------------------------------ MODULE PacketMask ------------------------------
(***************************************************************************)
(* Which media packets a FEC packet protects:                              *)
(* forward_error_correction_internal.cc of WebRTC, and the adaptation of a *)
(* mask to missing sequence numbers, InsertZerosInPacketMasks of           *)
(* forward_error_correction.cc.                                            *)
(*                                                                         *)
(* A packet mask has a row for each FEC packet.  A row is a function from  *)
(* the bits of its bytes, 0 being the most significant bit of the first    *)
(* byte, to 0 or 1.  UnequalProtectionMask always picks kModeOverlap, so   *)
(* the two other protection modes, and ShiftFitSubMask, are never reached  *)
(* and are left out.                                                       *)
(***************************************************************************)
EXTENDS Integers, Sequences, FiniteSets, SequencesExt, PacketMaskTables

\* kUlpfecMaxMediaPackets, and the sizes of a mask in bytes.
kMaxMediaPackets == 48
PacketMaskSize(numSequenceNumbers) == IF numSequenceNumbers > 16 THEN 6 ELSE 2

ZeroRow(bytes) == [bit \in 0 .. 8 * bytes - 1 |-> 0]

\* The media packets that a row protects.
Protected(row) == {bit \in DOMAIN row : row[bit] = 1}

-----------------------------------------------------------------------------
(* The masks of a table.                                                   *)

\* A table as the array it is: its size, and for each number of media packets
\* the number of masks and the masks, each row two bytes.
Flat(table) ==
  LET Rows(n, m) == FlattenSeq([row \in 1 .. m |-> <<table[n][m][row] \div 256, table[n][m][row] % 256>>])
  IN  <<Len(table)>> \o FlattenSeq([n \in DOMAIN table |->
                            <<Len(table[n])>> \o FlattenSeq([m \in DOMAIN table[n] |-> Rows(n, m)])])
FlatRandomTbl == Flat(kPacketMaskRandomTbl)
FlatBurstyTbl == Flat(kPacketMaskBurstyTbl)

\* Mutant: the bursty table is not used for groups as large as itself.
MutantNoBursty(maskType, numMedia) ==
  IF maskType # "random" /\ numMedia < FlatBurstyTbl[1] THEN FlatBurstyTbl ELSE FlatRandomTbl

PickTable(maskType, numMedia) ==
  IF maskType # "random" /\ numMedia <= FlatBurstyTbl[1] THEN FlatBurstyTbl ELSE FlatRandomTbl

\* LookUpInFecTable: hops over the entries before, one more row in each mask,
\* to the one for mediaIndex + 1 media packets and fecIndex + 1 FEC packets.
\* Groups with wider masks are not looked up.
LookUpInFecTable(flat, mediaIndex, fecIndex) ==
  LET entry[i \in 0 .. mediaIndex] ==
        IF i = 0 THEN 2
        ELSE LET prev  == entry[i - 1]
                 count == flat[prev]
             IN  prev + 1 + count * (count + 1)
      at == entry[mediaIndex] + 1 + fecIndex * (fecIndex + 1)
  IN  SubSeq(flat, at, at + 2 * (fecIndex + 1) - 1)

\* Mutant: the packets that do not fill a turn of the rows are dropped.
MutantWholeTurns(table, numMedia, numFec) ==
  IF numMedia <= 12
    THEN LET data == LookUpInFecTable(table, numMedia - 1, numFec - 1)
         IN  [row \in 1 .. numFec |->
                [bit \in 0 .. 15 |-> (data[2 * row - 1 + (bit \div 8)] \div 2^(7 - (bit % 8))) % 2]]
    ELSE [row \in 1 .. numFec |->
            [bit \in 0 .. 8 * PacketMaskSize(numMedia) - 1 |->
               IF bit % numFec = row - 1 /\ bit < (numMedia \div numFec) * numFec
                 THEN 1 ELSE 0]]

\* PacketMaskTable::LookUp: a row of the table up to 12 media packets, and
\* beyond every numFec-th packet for each row.
LookUp(table, numMedia, numFec) ==
  IF numMedia <= 12
    THEN LET data == LookUpInFecTable(table, numMedia - 1, numFec - 1)
         IN  [row \in 1 .. numFec |->
                [bit \in 0 .. 15 |-> (data[2 * row - 1 + (bit \div 8)] \div 2^(7 - (bit % 8))) % 2]]
    ELSE [row \in 1 .. numFec |->
            [bit \in 0 .. 8 * PacketMaskSize(numMedia) - 1 |->
               IF bit % numFec = row - 1 /\ bit < numMedia THEN 1 ELSE 0]]

\* What the tables of the source have in common: no row has a bit for a packet
\* that is not there.
ASSUME MaskTablesAssumption ==
  \A table \in {FlatRandomTbl, FlatBurstyTbl}, numMedia \in 1 .. 12 :
    \A numFec \in 1 .. numMedia : \A row \in 1 .. numFec :
      Protected(LookUp(table, numMedia, numFec)[row]) \subseteq 0 .. numMedia - 1

\* FEC packets for the important packets: at most half of all.
SetProtectionAllocation(numMedia, numFec, numImp) ==
  IF numFec = 1 /\ numMedia > 2 * numImp THEN 0
  ELSE IF numImp < numFec \div 2 THEN numImp ELSE numFec \div 2

\* FitSubMask: a row of the sub mask in a row of bytes bytes.
FitSubMask(bytes, subRow) ==
  [bit \in 0 .. 8 * bytes - 1 |-> IF bit \in DOMAIN subRow THEN subRow[bit] ELSE 0]

\* The first rows protect the important packets, the others all packets.
UnequalProtectionMask(table, numMedia, numFec, numImp) ==
  LET forImp    == SetProtectionAllocation(numMedia, numFec, numImp)
      important == LookUp(table, numImp, forImp)
      remaining == LookUp(table, numMedia, numFec - forImp)
  IN  [row \in 1 .. numFec |->
         IF row <= forImp
           THEN FitSubMask(PacketMaskSize(numMedia), important[row])
           ELSE remaining[row - forImp]]

GeneratePacketMasks(numMedia, numFec, numImp, unequal, table) ==
  IF ~unequal \/ numImp = 0
    THEN LookUp(table, numMedia, numFec)
    ELSE UnequalProtectionMask(table, numMedia, numFec, numImp)

-----------------------------------------------------------------------------
(* Zeros for the sequence numbers that are missing between media packets.  *)

\* The byte of a row that holds this bit, shifted to the left.
ShiftByte(row, bitIndex, shifts) ==
  LET byte == bitIndex \div 8
  IN  [bit \in DOMAIN row |->
         IF bit \div 8 # byte THEN row[bit]
         ELSE IF bit + shifts < 8 * (byte + 1) THEN row[bit + shifts] ELSE 0]

\* Mutant: the shift may reach past the last bit of the byte.
MutantAllZeros(numZeros, newRow, newBit) == ShiftByte(newRow, newBit, numZeros)

\* InsertZeroColumns, for one row.
InsertZeroColumns(numZeros, newRow, newBit) ==
  LET maxShifts == 7 - (newBit % 8)
  IN  ShiftByte(newRow, newBit, IF numZeros < maxShifts THEN numZeros ELSE maxShifts)

\* CopyColumn, for one row: the leftmost bit of the old byte becomes the
\* rightmost one of the new byte, which makes room for the next.
CopyColumn(newRow, oldRow, newBit, oldBit) ==
  LET last   == 8 * (newBit \div 8) + 7
      copied == [newRow EXCEPT ![last] = IF oldRow[8 * (oldBit \div 8)] = 1 THEN 1 ELSE @]
  IN  IF newBit % 8 = 7 THEN copied ELSE ShiftByte(copied, newBit, 1)

\* One row of the mask, spread over the sequence numbers of the media packets.
\* dist is how far each one is from the first, in uint16_t arithmetic.
SpreadRow(row, dist) ==
  LET bytes  == PacketMaskSize(Last(dist) + 1)
      Step(s, i) ==
        LET zeros == dist[i] - dist[i - 1] - 1
            new   == IF zeros > 0 THEN InsertZeroColumns(zeros, s.new, s.newBit) ELSE s.new
            bit   == s.newBit + zeros
        IN  IF s.newBit = kMaxMediaPackets THEN s
            ELSE [new |-> CopyColumn(new, s.old, bit, i - 1),
                  old |-> ShiftByte(s.old, i - 1, 1),
                  newBit |-> bit + 1]
      first == [new |-> CopyColumn(ZeroRow(bytes), row, 0, 0),
                old |-> ShiftByte(row, 0, 1), newBit |-> 1]
      end   == FoldLeft(Step, first, [i \in 1 .. Len(dist) - 1 |-> i + 1])
  IN  IF end.newBit % 8 = 0 THEN end.new
      ELSE ShiftByte(end.new, end.newBit, 7 - (end.newBit % 8))

\* InsertZerosInPacketMasks: can the media packets be protected together, and
\* the masks when they can.
FitsMask(dist) == Last(dist) < kMaxMediaPackets
InsertZerosInPacketMasks(masks, dist) ==
  IF Last(dist) = Len(dist) - 1 THEN masks
  ELSE [row \in DOMAIN masks |-> SpreadRow(masks[row], dist)]

-----------------------------------------------------------------------------
\* ForwardErrorCorrection::NumFecPackets: a share of protectionFactor / 256,
\* rounded, and at least one packet if any is wanted.
NumFecPackets(numMedia, protectionFactor) ==
  LET rounded == (numMedia * protectionFactor + 128) \div 256
  IN  IF protectionFactor > 0 /\ rounded = 0 THEN 1 ELSE rounded

\* The mask part of EncodeFec: a row for each FEC packet, or none at all when
\* there are too many packets or the gaps between them are too wide.
EncodeMasks(dist, protectionFactor, numImp, unequal, maskType) ==
  LET numFec == NumFecPackets(Len(dist), protectionFactor)
      masks  == GeneratePacketMasks(Len(dist), numFec, numImp, unequal,
                                    PickTable(maskType, Len(dist)))
  IN  IF numFec = 0 \/ Len(dist) > kMaxMediaPackets \/ ~FitsMask(dist) THEN <<>>
      ELSE InsertZerosInPacketMasks(masks, dist)
=============================================================================
