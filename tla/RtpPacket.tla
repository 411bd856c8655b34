------------------------------ MODULE RtpPacket ------------------------------
(***************************************************************************)
(* An RTP packet that is built and read in place: rtp_packet.cc of WebRTC. *)
(*                                                                         *)
(* A packet is the fields of class RtpPacket and the bytes buf of its      *)
(* buffer, up to its size; byte o of the code is buf[o + 1].  The bytes    *)
(* that the code leaves to its caller (the values of extensions, the       *)
(* payload) are written in the same step, by SetExtension and its like.    *)
(* Bytes past the end of the buffer that become part of it unwritten are   *)
(* taken as 0.                                                             *)
(*                                                                         *)
(* gapsPromoted is not in the code: it is set when extensions that do not  *)
(* lie side by side are rewritten with two-byte headers.  stalePadding is  *)
(* set by CopyHeaderFrom of a packet with padding.                         *)
(***************************************************************************)
EXTENDS ByteIO, RtpExtensionMap, SequencesExt

CONSTANT Capacity   \* bytes that the buffer of a packet may have

\* The buffer grows in words of four bytes when extensions are added, with a
\* capacity that is not a multiple of four past its end.
ASSUME CapacityAssumption == Capacity \in Nat /\ Capacity >= 12 /\ Capacity % 4 = 0

kFixedHeaderSize == 12
kOneByteExtensionProfileId == 48862   \* 0xBEDE
kTwoByteExtensionProfileId == 4096    \* 0x1000
kOneByteHeaderExtensionMaxId == 14
kOneByteHeaderExtensionMaxValueSize == 16

kPaddingBit == 32
kExtensionBit == 16

SetBit(byte, bit) == IF HasBit(byte, bit) THEN byte ELSE byte + bit
ClearBit(byte, bit) == IF HasBit(byte, bit) THEN byte - bit ELSE byte

\* WriteAt and ReadAt.
At(buf, offset) == buf[offset + 1]
ReadAt(buf, offset, length) == SubSeq(buf, offset + 1, offset + length)
WriteAt(buf, offset, bytes) ==
  [i \in 1 .. (IF Len(buf) < offset + Len(bytes) THEN offset + Len(bytes) ELSE Len(buf)) |->
     IF i \in offset + 1 .. offset + Len(bytes) THEN bytes[i - offset]
     ELSE IF i <= Len(buf) THEN buf[i] ELSE 0]
SetSize(buf, size) ==
  [i \in 1 .. size |-> IF i <= Len(buf) THEN buf[i] ELSE 0]

NumCsrc(buf) == At(buf, 0) % 16
Csrcs(buf) ==
  [i \in 1 .. NumCsrc(buf) |-> ReadBigEndian(ReadAt(buf, kFixedHeaderSize + 4 * (i - 1), 4))]

\* Clear, on a packet with this map of extensions.
Cleared(extensions) ==
  [marker |-> FALSE, pt |-> 0, seq |-> 0, timestamp |-> 0, ssrc |-> 0,
   payloadOffset |-> kFixedHeaderSize, payloadSize |-> 0, paddingSize |-> 0,
   extensionsSize |-> 0, entries |-> <<>>, extensions |-> extensions,
   buf |-> <<128>> \o [i \in 1 .. kFixedHeaderSize - 1 |-> 0],
   gapsPromoted |-> FALSE, stalePadding |-> FALSE]
Clear(p) == Cleared(p.extensions)

HeadersSize(p) == p.payloadOffset

-----------------------------------------------------------------------------
(* The fixed header.                                                       *)

SetMarker(p, marker) ==
  LET byte == At(p.buf, 1)
  IN  [p EXCEPT !.marker = marker,
                !.buf = WriteAt(@, 1, <<IF marker THEN SetBit(byte, 128) ELSE ClearBit(byte, 128)>>)]

SetPayloadType(p, pt) ==
  [p EXCEPT !.pt = pt, !.buf = WriteAt(@, 1, <<(At(@, 1) \div 128) * 128 + pt>>)]
SetSequenceNumber(p, seq) ==
  [p EXCEPT !.seq = seq, !.buf = WriteAt(@, 2, WriteBigEndian(seq, 2))]
SetTimestamp(p, timestamp) ==
  [p EXCEPT !.timestamp = timestamp, !.buf = WriteAt(@, 4, WriteBigEndian(timestamp, 4))]
SetSsrc(p, ssrc) ==
  [p EXCEPT !.ssrc = ssrc, !.buf = WriteAt(@, 8, WriteBigEndian(ssrc, 4))]

\* SetCsrcs, for a packet without extensions, payload and padding.
SetCsrcs(p, csrcs) ==
  LET offset == kFixedHeaderSize + 4 * Len(csrcs)
      flags  == (At(p.buf, 0) \div 16) * 16 + Len(csrcs)
  IN  [p EXCEPT !.payloadOffset = offset,
                !.buf = SetSize(WriteAt(WriteAt(@, 0, <<flags>>), kFixedHeaderSize,
                          FlattenSeq([i \in DOMAIN csrcs |-> WriteBigEndian(csrcs[i], 4)])),
                          offset)]

-----------------------------------------------------------------------------
(* Header extensions.                                                      *)

\* FindExtensionInfo: the index of the entry with this id, 0 without.
FindExtensionInfo(entries, id) ==
  IF \E i \in DOMAIN entries : entries[i].id = id
    THEN CHOOSE i \in DOMAIN entries : entries[i].id = id /\ \A j \in 1 .. i - 1 : entries[j].id # id
    ELSE 0

ExtensionsOffset(buf) == kFixedHeaderSize + 4 * NumCsrc(buf) + 4
Profile(buf) == ReadBigEndian(ReadAt(buf, ExtensionsOffset(buf) - 4, 2))

\* SetExtensionLengthMaybeAddZeroPadding, and the size it leads to.
SetExtensionLengthMaybeAddZeroPadding(p) ==
  LET offset == ExtensionsOffset(p.buf)
      words  == (p.extensionsSize + 3) \div 4
      zeros  == [i \in 1 .. 4 * words - p.extensionsSize |-> 0]
  IN  [p EXCEPT !.payloadOffset = offset + 4 * words,
                !.buf = SetSize(WriteAt(WriteAt(@, offset - 2, WriteBigEndian(words, 2)),
                                        offset + p.extensionsSize, zeros),
                                offset + 4 * words)]

\* The extensions lie one behind the other, from the first byte on.
Dense(p, headerSize) ==
  /\ \A i \in DOMAIN p.entries :
       p.entries[i].offset =
         headerSize + (IF i = 1 THEN ExtensionsOffset(p.buf)
                       ELSE p.entries[i - 1].offset + p.entries[i - 1].length)
  /\ p.entries # <<>> =>
       Last(p.entries).offset + Last(p.entries).length = ExtensionsOffset(p.buf) + p.extensionsSize

\* Mutant: the extensions are rewritten from the first to the last.
MutantForwards(p) ==
  LET n == Len(p.entries)
      Rewrite(q, entry) ==
        LET write == entry.offset + FindExtensionInfo(p.entries, entry.id)
        IN  WriteAt(q, write - 2, <<entry.id, entry.length>> \o ReadAt(q, entry.offset, entry.length))
      buf == FoldLeft(Rewrite, p.buf, p.entries)
  IN  SetExtensionLengthMaybeAddZeroPadding(
        [p EXCEPT !.entries = [i \in 1 .. n |-> [p.entries[i] EXCEPT !.offset = @ + i]],
                  !.extensionsSize = @ + n,
                  !.buf = WriteAt(buf, ExtensionsOffset(buf) - 4,
                                  WriteBigEndian(kTwoByteExtensionProfileId, 2))])

\* PromoteToTwoByteHeaderExtension: from the last entry to the first, each is
\* moved behind the headers that grow before it.
PromoteToTwoByteHeaderExtension(p) ==
  LET n == Len(p.entries)
      Rewrite(q, i) ==
        LET entry == p.entries[i]
            write == entry.offset + i
        IN  WriteAt(q, write - 2, <<entry.id, entry.length>> \o ReadAt(q, entry.offset, entry.length))
      buf == FoldLeft(Rewrite, p.buf, [i \in 1 .. n |-> n + 1 - i])
  IN  SetExtensionLengthMaybeAddZeroPadding(
        [p EXCEPT !.entries = [i \in 1 .. n |-> [p.entries[i] EXCEPT !.offset = @ + i]],
                  !.extensionsSize = @ + n,
                  !.gapsPromoted = @ \/ ~Dense(p, 1),
                  !.buf = WriteAt(buf, ExtensionsOffset(buf) - 4,
                                  WriteBigEndian(kTwoByteExtensionProfileId, 2))])

TwoByteHeaderRequired(id, length) ==
  id > kOneByteHeaderExtensionMaxId \/ length > kOneByteHeaderExtensionMaxValueSize \/ length = 0

\* AllocateRawExtension for a new id: the headers, the entry and the room for
\* its value, which the caller fills with bytes.
AddExtension(p, id, bytes) ==
  LET twoByte == IF p.extensionsSize > 0 THEN Profile(p.buf) = kTwoByteExtensionProfileId
                 ELSE TwoByteHeaderRequired(id, Len(bytes))
      offset  == ExtensionsOffset(p.buf)
      header  == IF twoByte THEN <<id, Len(bytes)>> ELSE <<16 * id + Len(bytes) - 1>>
      begun   == IF p.extensionsSize > 0 THEN p.buf
                 ELSE WriteAt(WriteAt(p.buf, 0, <<SetBit(At(p.buf, 0), kExtensionBit)>>), offset - 4,
                        WriteBigEndian(IF twoByte THEN kTwoByteExtensionProfileId
                                       ELSE kOneByteExtensionProfileId, 2) \o <<0, 0>>)
      added   == [p EXCEPT !.entries = Append(@, [id |-> id, length |-> Len(bytes),
                                                  offset |-> offset + p.extensionsSize + Len(header)]),
                           !.extensionsSize = @ + Len(header) + Len(bytes),
                           !.buf = WriteAt(begun, offset + p.extensionsSize, header \o bytes)]
  IN  IF offset + added.extensionsSize > Capacity THEN p
      ELSE SetExtensionLengthMaybeAddZeroPadding(added)

\* AllocateRawExtension, and the value written to what it returns: nothing
\* changes when it fails, except that the headers may have been promoted.
AllocateRawExtension(p, id, bytes) ==
  LET found    == FindExtensionInfo(p.entries, id)
      promotes == /\ p.extensionsSize > 0 /\ Profile(p.buf) = kOneByteExtensionProfileId
                  /\ TwoByteHeaderRequired(id, Len(bytes))
  IN  IF found # 0
        THEN IF p.entries[found].length = Len(bytes)
               THEN [p EXCEPT !.buf = WriteAt(@, p.entries[found].offset, bytes)]
               ELSE p
      ELSE IF p.payloadSize > 0 \/ p.paddingSize > 0 THEN p
      ELSE IF ~promotes THEN AddExtension(p, id, bytes)
      ELSE IF ExtensionsOffset(p.buf) + p.extensionsSize + Len(p.entries) + 2 + Len(bytes) > Capacity
        THEN p
        ELSE AddExtension(PromoteToTwoByteHeaderExtension(p), id, bytes)

\* AllocateExtension: what is not registered, empty or too long is refused.
\* SetExtension writes a value to the room, ReserveExtension zeros.
Refused(p, type, bytes) ==
  LET id == GetId(p.extensions, type)
  IN  \/ bytes = <<>> \/ Len(bytes) > 255 \/ id = kInvalidId
      \/ ~p.extensions.mixed /\ TwoByteHeaderRequired(id, Len(bytes))
SetExtension(p, type, bytes) ==
  IF Refused(p, type, bytes) THEN p
  ELSE AllocateRawExtension(p, GetId(p.extensions, type), bytes)

\* FindExtension, as the bytes of the value.
FindExtension(p, type) ==
  LET id == GetId(p.extensions, type)
      i  == FindExtensionInfo(p.entries, id)
  IN  IF id = kInvalidId \/ i = 0 THEN <<>>
      ELSE ReadAt(p.buf, p.entries[i].offset, p.entries[i].length)

-----------------------------------------------------------------------------
(* Payload and padding.                                                    *)

\* AllocatePayload or SetPayloadSize without padding, and the payload written.
SetPayload(p, bytes) ==
  IF p.payloadOffset + Len(bytes) > Capacity THEN p
  ELSE [p EXCEPT !.payloadSize = Len(bytes), !.buf = SetSize(@, p.payloadOffset) \o bytes]

\* Mutant: the padding bit is not cleared.
MutantBitKept(p, size) ==
  IF p.payloadOffset + p.payloadSize + size > Capacity THEN p
  ELSE [p EXCEPT !.paddingSize = size,
                 !.buf = LET body == SetSize(@, p.payloadOffset + p.payloadSize)
                         IN  IF size = 0 THEN body
                             ELSE WriteAt(body, 0, <<SetBit(At(@, 0), kPaddingBit)>>)
                                    \o [i \in 1 .. size |-> IF i = size THEN size ELSE 0]]

SetPadding(p, size) ==
  IF p.payloadOffset + p.payloadSize + size > Capacity THEN p
  ELSE [p EXCEPT
          !.paddingSize = size, !.stalePadding = FALSE,
          !.buf = LET body == SetSize(@, p.payloadOffset + p.payloadSize)
                  IN  IF size = 0 THEN WriteAt(body, 0, <<ClearBit(At(@, 0), kPaddingBit)>>)
                      ELSE WriteAt(body, 0, <<SetBit(At(@, 0), kPaddingBit)>>)
                             \o [i \in 1 .. size |-> IF i = size THEN size ELSE 0]]

\* CopyHeaderFrom: the padding bit comes along with the first byte.
CopyHeaderFrom(packet) ==
  [packet EXCEPT !.buf = SetSize(@, HeadersSize(packet)), !.payloadSize = 0, !.paddingSize = 0,
                 !.stalePadding = HasBit(At(packet.buf, 0), kPaddingBit)]

\* Would RTC_CHECK in AllocateRawExtension end the program in RemoveExtension?
RemovalAborts(p, type) ==
  /\ ~p.extensions.mixed /\ GetId(p.extensions, type) # kInvalidId
  /\ \E i \in DOMAIN p.entries :
       /\ p.entries[i].id # GetId(p.extensions, type)
       /\ TwoByteHeaderRequired(p.entries[i].id, p.entries[i].length)

\* RemoveExtension: a new packet with all but one extension, the payload and
\* the padding.  It has no CSRCs.
RemoveExtension(p, type) ==
  LET id == GetId(p.extensions, type)
      Copy(q, entry) == AllocateRawExtension(q, entry.id, ReadAt(p.buf, entry.offset, entry.length))
      fixed == SetSsrc(SetTimestamp(SetSequenceNumber(SetPayloadType(SetMarker(
                 Clear(p), p.marker), p.pt), p.seq), p.timestamp), p.ssrc)
      kept  == FoldLeft(Copy, fixed, SelectSeq(p.entries, LAMBDA entry : entry.id # id))
  IN  IF id = kInvalidId \/ FindExtensionInfo(p.entries, id) = 0 THEN p
      ELSE SetPadding(SetPayload(kept, ReadAt(p.buf, p.payloadOffset, p.payloadSize)), p.paddingSize)

-----------------------------------------------------------------------------
(* Reading a buffer.                                                       *)

Rejected == [ok |-> FALSE]

\* The loop of ParseBuffer over the extensions, of which capacity bytes follow
\* offset.
ParseExtensions(buf, offset, capacity, profile) ==
  LET header == IF profile = kOneByteExtensionProfileId THEN 1 ELSE 2
      Step(s, n) ==
        LET byte   == At(buf, offset + s.size)
            id     == IF header = 1 THEN byte \div 16 ELSE byte
            length == IF header = 1 THEN 1 + (byte % 16) ELSE At(buf, offset + s.size + 1)
            info   == [id |-> id, length |-> length, offset |-> offset + s.size + header]
            found  == FindExtensionInfo(s.entries, id)
        IN  IF s.done \/ s.size + header >= capacity THEN s
            ELSE IF byte = 0 THEN [s EXCEPT !.size = @ + 1]
            ELSE IF \/ header = 1 /\ (id = 15 \/ (id = 0 /\ length # 1))
                    \/ s.size + header + length > capacity
              THEN [s EXCEPT !.done = TRUE]
              ELSE [s EXCEPT !.size = @ + header + length,
                             !.entries = IF found = 0 THEN Append(@, info)
                                         ELSE [@ EXCEPT ![found] = info]]
  IN  FoldLeft(Step, [size |-> 0, entries |-> <<>>, done |-> FALSE], [n \in 1 .. capacity |-> n])

\* ParseBuffer.
ParseBuffer(buf, extensions) ==
  LET size     == Len(buf)
      csrcEnd  == kFixedHeaderSize + 4 * NumCsrc(buf)
      padding  == IF HasBit(At(buf, 0), kPaddingBit) THEN At(buf, size - 1) ELSE 0
      has      == HasBit(At(buf, 0), kExtensionBit)
      profile  == ReadBigEndian(ReadAt(buf, csrcEnd, 2))
      capacity == 4 * ReadBigEndian(ReadAt(buf, csrcEnd + 2, 2))
      known    == has /\ profile \in {kOneByteExtensionProfileId, kTwoByteExtensionProfileId}
      parsed   == IF known THEN ParseExtensions(buf, csrcEnd + 4, capacity, profile)
                  ELSE [size |-> 0, entries |-> <<>>]
      offset   == IF has THEN csrcEnd + 4 + capacity ELSE csrcEnd
  IN  IF size < kFixedHeaderSize THEN Rejected
      ELSE IF \/ At(buf, 0) \div 64 # 2 \/ size < csrcEnd
              \/ HasBit(At(buf, 0), kPaddingBit) /\ padding = 0
        THEN Rejected
      ELSE IF has /\ csrcEnd + 4 > size THEN Rejected
      ELSE IF offset > size \/ offset + padding > size THEN Rejected
      ELSE [ok |-> TRUE,
            packet |->
              [marker |-> HasBit(At(buf, 1), 128), pt |-> At(buf, 1) % 128,
               seq |-> ReadBigEndian(ReadAt(buf, 2, 2)),
               timestamp |-> ReadBigEndian(ReadAt(buf, 4, 4)),
               ssrc |-> ReadBigEndian(ReadAt(buf, 8, 4)),
               payloadOffset |-> offset, payloadSize |-> size - offset - padding,
               paddingSize |-> padding, extensionsSize |-> parsed.size,
               entries |-> parsed.entries, extensions |-> extensions, buf |-> buf,
               gapsPromoted |-> FALSE, stalePadding |-> FALSE]]

\* Parse: a packet that cannot be parsed is cleared.
Parse(p, buf) ==
  LET parsed == ParseBuffer(buf, p.extensions) IN IF parsed.ok THEN parsed.packet ELSE Clear(p)
=============================================================================
