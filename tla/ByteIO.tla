-------------------------------- MODULE ByteIO --------------------------------
(***************************************************************************)
(* Integers as bytes: byte_io.h of WebRTC.  A value of B bytes is the      *)
(* sequence of its bytes; a negative one is in two's complement.           *)
(***************************************************************************)
EXTENDS Integers, Sequences

\* Is the bit with this weight set?
HasBit(byte, bit) == (byte \div bit) % 2 = 1

\* ByteWriter::WriteBigEndian and WriteLittleEndian, of the low B bytes.
WriteBigEndian(val, B) == [i \in 1 .. B |-> (val \div 256^(B - i)) % 256]
WriteLittleEndian(val, B) == [i \in 1 .. B |-> (val \div 256^(i - 1)) % 256]

\* ByteReader of an unsigned type.
ReadBigEndian(data) ==
  LET val[i \in 0 .. Len(data)] == IF i = 0 THEN 0 ELSE 256 * val[i - 1] + data[i]
  IN  val[Len(data)]
ReadLittleEndian(data) == ReadBigEndian([i \in DOMAIN data |-> data[Len(data) + 1 - i]])

\* Mutant: the sign is not extended.
MutantNoSign(val, B) == val

\* SignExtend and ReinterpretAsSigned: the value of B bytes whose highest bit
\* is set is negative.
SignExtend(val, B) == IF (val \div 256^(B - 1)) \div 128 = 1 THEN val - 256^B ELSE val

\* ByteReader of a signed type.
ReadSigned(data) == SignExtend(ReadBigEndian(data), Len(data))
=============================================================================
