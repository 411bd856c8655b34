------------------------------ MODULE FecHeader ------------------------------
(***************************************************************************)
(* The headers of FEC packets on the wire:                                 *)
(* flexfec_header_reader_writer.cc and ulpfec_header_reader_writer.cc.     *)
(*                                                                         *)
(* A FEC packet is a record of its header's fields; area holds the bits    *)
(* from the packet mask on, the last of which belong to the payload and    *)
(* are the value Payload, so that a header written over its payload shows. *)
(* A FlexFEC mask is cut into parts of 15, 31 and 63 bits, each after a    *)
(* K-bit that tells whether it is the last.                                *)
(***************************************************************************)
EXTENDS PacketMask, TLC

CONSTANT Payload   \* a bit of the payload

\* It is told from the bits of a header.
ASSUME PayloadAssumption == Payload \notin {0, 1}

kBaseHeaderSize == 12
kStreamSpecificHeaderSize == 6

\* FlexfecHeaderSize.
FlexfecHeaderSize(maskSize) ==
  kBaseHeaderSize + kStreamSpecificHeaderSize
    + (IF maskSize <= 2 THEN 2 ELSE IF maskSize <= 6 THEN 6 ELSE 14)

\* MinPacketMaskSize: the FlexFEC mask size that holds a mask of 16 or 48 bits.
MinPacketMaskSize(mask) ==
  IF Cardinality(DOMAIN mask) = 16
    THEN IF mask[15] = 0 THEN 2 ELSE 6
    ELSE IF mask[46] = 0 /\ mask[47] = 0 THEN 6 ELSE 14

\* The packet as GenerateFecPayloads leaves it: its header zeroed, the payload
\* after it.
BlankArea(headerBytes) ==
  [bit \in 0 .. 111 |-> IF bit < 8 * headerBytes THEN 0 ELSE Payload]

\* The bits lo to hi of area, each from its own source.
Overwritten(area, lo, hi, bits) ==
  [bit \in DOMAIN area |-> IF bit \in lo .. hi THEN bits[bit] ELSE area[bit]]

\* Mutant: bit 15 does not make it into the second part.
MutantLosesBit15(mask) ==
  [bit \in 0 .. 47 |->
     IF bit \in 1 .. 15 THEN mask[bit - 1]
     ELSE IF bit \in 18 .. 47 /\ Cardinality(DOMAIN mask) = 48 THEN mask[bit - 2]
     ELSE 0]

\* The first two parts of a mask, shifted to the right of their K-bits.
Shifted(mask) ==
  [bit \in 0 .. 47 |->
     IF bit \in 1 .. 15 THEN mask[bit - 1]
     ELSE IF bit = 17 THEN mask[15]
     ELSE IF bit \in 18 .. 47 /\ Cardinality(DOMAIN mask) = 48 THEN mask[bit - 2]
     ELSE 0]

\* FlexfecHeaderWriter::FinalizeFecHeader: the K-bit of the last part is set,
\* and trailing zeros are added when bits 15, 46 or 47 need a part of their own.
FlexfecFinalizeFecHeader(ssrc, base, mask, packet) ==
  LET shifted == Shifted(mask)
      three   == [bit \in 0 .. 111 |->
                    IF bit <= 47 THEN shifted[bit] ELSE IF bit = 48 THEN 1
                    ELSE IF bit \in {49, 50} THEN mask[bit - 3] ELSE 0]
      short   == Cardinality(DOMAIN mask) = 16
      area    == IF short /\ mask[15] = 0
                   THEN Overwritten(packet.area, 0, 15, [shifted EXCEPT ![0] = 1])
                 ELSE IF short \/ (mask[46] = 0 /\ mask[47] = 0)
                   THEN Overwritten(packet.area, 0, 47, [shifted EXCEPT ![16] = 1])
                   ELSE Overwritten(packet.area, 0, 111, three)
  IN  [packet EXCEPT !.r = 0, !.f = 0, !.ssrcCount = 1, !.ssrc = ssrc,
                     !.base = base, !.area = area]

Malformed == [ok |-> FALSE]

\* FlexfecHeaderReader::ReadFecHeader: the K-bits are taken out, each part
\* being shifted to the left over them, in the packet itself.
FlexfecReadFecHeader(packet) ==
  LET w      == packet.area
      size   == IF w[0] = 1 THEN 2 ELSE IF w[16] = 1 THEN 6 ELSE 14
      part0  == [bit \in 0 .. 15 |-> IF bit <= 14 THEN w[bit + 1] ELSE 0]
      part1  == [bit \in 0 .. 47 |->
                   IF bit <= 14 THEN w[bit + 1] ELSE IF bit = 15 THEN w[17]
                   ELSE IF bit <= 45 THEN w[bit + 2] ELSE 0]
      part2  == [bit \in 0 .. 111 |->
                   IF bit <= 45 THEN part1[bit] ELSE IF bit <= 108 THEN w[bit + 3] ELSE 0]
      mask   == CASE size = 2 -> part0 [] size = 6 -> part1 [] size = 14 -> part2
  IN  IF \/ packet.length <= kBaseHeaderSize + kStreamSpecificHeaderSize
         \/ packet.r = 1 \/ packet.f = 1 \/ packet.ssrcCount # 1
         \/ packet.length < FlexfecHeaderSize(2)
         \/ w[0] = 0 /\ packet.length < FlexfecHeaderSize(6)
         \/ w[0] = 0 /\ w[16] = 0 /\ (packet.length < FlexfecHeaderSize(14) \/ w[48] = 0)
        THEN Malformed
        ELSE [ok |-> TRUE, headerSize |-> FlexfecHeaderSize(size), ssrc |-> packet.ssrc,
              base |-> packet.base, mask |-> mask,
              protectionLength |-> packet.length - FlexfecHeaderSize(size)]

-----------------------------------------------------------------------------
(* ULPFEC: the mask is copied as it is, its size told by the L bit.  Until *)
(* the header is finalized, and again after it is read, the field at2      *)
(* holds the length recovery field, that travels as at8.                   *)

UlpfecHeaderSize(maskSize) == 10 + 2 + (IF maskSize <= 2 THEN 2 ELSE 6)

UlpfecFinalizeFecHeader(base, mask, packet) ==
  [packet EXCEPT
     !.e = 0, !.l = IF Cardinality(DOMAIN mask) = 48 THEN 1 ELSE 0,
     !.at8 = packet.at2, !.at2 = base,
     !.at10 = packet.length - UlpfecHeaderSize(Cardinality(DOMAIN mask) \div 8),
     !.area = Overwritten(@, 0, Cardinality(DOMAIN mask) - 1, mask)]

\* UlpfecHeaderReader::ReadFecHeader, and the length recovery field as the
\* decoder finds it.
UlpfecReadFecHeader(packet, ssrc) ==
  LET size == IF packet.l = 1 THEN 6 ELSE 2
  IN  [ok |-> TRUE, headerSize |-> UlpfecHeaderSize(size), ssrc |-> ssrc,
       base |-> packet.at2, mask |-> [bit \in 0 .. 8 * size - 1 |-> packet.area[bit]],
       protectionLength |-> packet.at10, lengthRecovery |-> packet.at8]

-----------------------------------------------------------------------------
(* Release 85: FlexFEC has not changed; ULPFEC refuses a packet that ends  *)
(* before its mask.                                                        *)

MinPacketMaskSize85(mask) == MinPacketMaskSize(mask)
FlexfecFinalizeFecHeader85(ssrc, base, mask, packet) ==
  FlexfecFinalizeFecHeader(ssrc, base, mask, packet)
FlexfecReadFecHeader85(packet) == FlexfecReadFecHeader(packet)

UlpfecFinalizeFecHeader85(base, mask, packet) == UlpfecFinalizeFecHeader(base, mask, packet)
UlpfecReadFecHeader85(packet, ssrc) ==
  IF packet.length < 10 + 2 THEN Malformed ELSE UlpfecReadFecHeader(packet, ssrc)
=============================================================================
