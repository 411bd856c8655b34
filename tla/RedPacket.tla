------------------------------ MODULE RedPacket ------------------------------
(***************************************************************************)
(* FEC packets of ULPFEC in RED packets (RFC 2198): the header of the last *)
(* media packet, a byte with the payload type of what follows, and that.   *)
(***************************************************************************)
EXTENDS Rtp85

SetType(data, type) == WriteAt(data, 1, <<(At(data, 1) \div 128) * 128 + type>>)

CreateHeader(header, redType, type) == Append(SetType(header, redType), type)
SetSeqNum(data, seq) == WriteAt(data, 2, WriteBigEndian(seq, 2))

\* Mutant: the marker of the media packet stays.
MutantMarkerKept(data) == data

ClearMarkerBit(data) == WriteAt(data, 1, <<ClearBit(At(data, 1), 128)>>)
AssignPayload(data, payload) == data \o payload

\* One packet of GetUlpfecPacketsAsRed.
UlpfecPacketAsRed(header, redType, type, seq, payload) ==
  AssignPayload(ClearMarkerBit(SetSeqNum(CreateHeader(header, redType, type), seq)), payload)

\* In M85 it is a copy of the last media packet, without payload, whose number
\* is set later.
RedPacket85(p, redType, type, payload) ==
  SetPayload85(SetMarker85(SetPayloadType85(SetPayload85(p, <<>>), redType), FALSE),
               <<type>> \o payload)

\* What AddReceivedRedPacket makes of a packet whose header has this length: the
\* FEC packet, or the media packet with its own payload type.
RemoveRedHeader(data, length, ulpfecType) ==
  LET red  == At(data, length)
      type == red % 128
      rest == SubSeq(data, length + 2, Len(data))
  IN  [ok |-> ~HasBit(red, 128), isFec |-> type = ulpfecType,
       data |-> IF type = ulpfecType THEN rest
                ELSE SetType(SubSeq(data, 1, length), type) \o rest]
=============================================================================
