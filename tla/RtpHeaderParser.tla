---------------------------- MODULE RtpHeaderParser ----------------------------
(***************************************************************************)
(* Two readers of the header of a packet: RtpPacketReceived::GetHeader on  *)
(* top of RtpPacket (rtp_packet_received.cc), and the older class          *)
(* RtpHeaderParser (rtp_utility.cc), which reads the bytes itself.  Also   *)
(* the size of the extensions before they are written                      *)
(* (rtp_header_extension_size.cc), and what the FEC encoder leaves out of  *)
(* a packet (CopyAndZeroMutableExtensions).                                *)
(*                                                                         *)
(* A header is a record; its part extension maps each type to what was     *)
(* read, Invalid for an extension that is not there.                       *)
(***************************************************************************)
EXTENDS RtpPacket, RtpHeaderExtensions

\* GetExtension<Extension>.
GetExtension(p, type) == ParseExtension(type, FindExtension(p, type))

\* GetHeader.
GetHeader(p) ==
  [marker |-> p.marker, pt |-> p.pt, seq |-> p.seq, timestamp |-> p.timestamp, ssrc |-> p.ssrc,
   csrcs |-> Csrcs(p.buf), paddingLength |-> p.paddingSize, headerLength |-> HeadersSize(p),
   extension |-> [type \in Types |-> GetExtension(p, type)]]

-----------------------------------------------------------------------------
(* RtpHeaderParser.                                                        *)

Word32Align(size) == IF size % 4 # 0 THEN size + 4 - (size % 4) ELSE size

\* Does the packet look like RTCP?
RTCP(buf) ==
  /\ Len(buf) >= 4 /\ At(buf, 0) \div 64 = 2
  /\ At(buf, 1) \in {192, 195} \cup 200 .. 207

ParseRtcp(buf) ==
  IF Len(buf) < 8 \/ At(buf, 0) \div 64 # 2 THEN Invalid
  ELSE Valid([pt |-> At(buf, 1), ssrc |-> ReadBigEndian(ReadAt(buf, 4, 4)),
              headerLength |-> 4 + 4 * ReadBigEndian(ReadAt(buf, 2, 2))])

kMidRsidMaxSize == 16

\* Mutant: the longest names are refused.
MutantShorter(name) == Len(name) < kMidRsidMaxSize /\ Len(name) > 0

IsLegalMidName(name) == Len(name) <= kMidRsidMaxSize /\ Len(name) > 0
IsLegalRsidName(name) == Len(name) <= kMidRsidMaxSize /\ Len(name) > 0

\* What ParseOneByteExtensionHeader makes of a value: the value, nothing, or
\* the end of its loop.
Stops == [ok |-> FALSE, stops |-> TRUE]
OneByteExtension(type, data) ==
  LET n == Len(data)
      Checked(length) == IF n # length THEN Stops ELSE ParseExtension(type, data)
      Stopping(parsed) == IF parsed.ok THEN parsed ELSE Stops
  IN  CASE type = "TransmissionTimeOffset"  -> Checked(3)
        [] type = "AudioLevel"              -> Checked(1)
        [] type = "AbsoluteSendTime"        -> Checked(3)
        [] type = "AbsoluteCaptureTime"     -> Stopping(AbsoluteCaptureTimeParse(data))
        [] type = "VideoRotation"           -> Checked(1)
        [] type = "TransportSequenceNumber" -> Checked(2)
        [] type = "PlayoutDelay" ->
             IF n # 3 THEN Stops
             ELSE Valid([min |-> kGranularityMs * (16 * data[1] + data[2] \div 16),
                         max |-> kGranularityMs * (256 * (data[2] % 16) + data[3])])
        [] type = "VideoContentType"        -> Checked(1)
        [] type = "VideoTiming"             -> Checked(13)
        [] type = "FrameMarking"            -> Stopping(FrameMarkingParse(data))
        [] type \in {"RtpStreamId", "RepairedRtpStreamId"} ->
             IF IsLegalRsidName(data) THEN Valid(data) ELSE Invalid
        [] type = "Mid"                     -> IF IsLegalMidName(data) THEN Valid(data) ELSE Invalid
        [] OTHER                            -> Invalid

\* ParseOneByteExtensionHeader: padding is skipped, unknown extensions too; a
\* value of the wrong length ends the loop.
ParseOneByteExtensionHeader(buf, offset, end, map) ==
  LET Step(s, n) ==
        LET id     == At(buf, s.at) \div 16
            length == 1 + (At(buf, s.at) % 16)
            type   == GetType(map, id)
            parsed == OneByteExtension(type, ReadAt(buf, s.at + 1, length))
            next   == [s EXCEPT !.at = @ + 1 + length]
        IN  IF s.done \/ s.at >= end THEN s
            ELSE IF id = 0 THEN [s EXCEPT !.at = @ + 1]
            ELSE IF id = 15 \/ end - s.at - 1 < length THEN [s EXCEPT !.done = TRUE]
            ELSE IF type = kInvalidType THEN next
            ELSE IF parsed = Stops THEN [s EXCEPT !.done = TRUE]
            ELSE IF parsed.ok THEN [next EXCEPT !.found[type] = parsed] ELSE next
  IN  FoldLeft(Step, [at |-> offset, done |-> FALSE, found |-> [type \in Types |-> Invalid]],
               [n \in 1 .. end - offset |-> n]).found

\* RtpHeaderParser::Parse of a whole packet (header_only is false).
ParseHeader(buf, map) ==
  LET size    == Len(buf)
      csrcEnd == kFixedHeaderSize + 4 * NumCsrc(buf)
      has     == HasBit(At(buf, 0), kExtensionBit)
      padded  == HasBit(At(buf, 0), kPaddingBit)
      length  == 4 * ReadBigEndian(ReadAt(buf, csrcEnd + 2, 2))
      header  == IF has THEN csrcEnd + 4 + length ELSE csrcEnd
      padding == IF padded THEN At(buf, size - 1) ELSE 0
  IN  IF size < kFixedHeaderSize THEN Invalid
      ELSE IF \/ At(buf, 0) \div 64 # 2 \/ csrcEnd > size
              \/ has /\ csrcEnd + 4 > size
        THEN Invalid
      ELSE IF header > size \/ (padded /\ header = size) \/ header + padding > size THEN Invalid
      ELSE Valid([marker |-> HasBit(At(buf, 1), 128), pt |-> At(buf, 1) % 128,
                  seq |-> ReadBigEndian(ReadAt(buf, 2, 2)),
                  timestamp |-> ReadBigEndian(ReadAt(buf, 4, 4)),
                  ssrc |-> ReadBigEndian(ReadAt(buf, 8, 4)), csrcs |-> Csrcs(buf),
                  paddingLength |-> padding, headerLength |-> header,
                  extension |->
                    IF has /\ ReadBigEndian(ReadAt(buf, csrcEnd, 2)) = kOneByteExtensionProfileId
                      THEN ParseOneByteExtensionHeader(buf, csrcEnd + 4, csrcEnd + 4 + length, map)
                      ELSE [type \in Types |-> Invalid]])

-----------------------------------------------------------------------------

\* Mutant: the header of the block is forgotten.
MutantNoBlock(sizes, map) ==
  LET used == {type \in DOMAIN sizes : GetId(map, type) # kInvalidId}
      sum  == SumFunctionOnSet(sizes, used)
  IN  IF sum = 0 THEN 0 ELSE Word32Align(sum + Cardinality(used))

\* RtpHeaderExtensionSize, of extensions with values of these sizes.
RtpHeaderExtensionSize(sizes, map) ==
  LET used == {type \in DOMAIN sizes : GetId(map, type) # kInvalidId}
      two  == \E type \in used : \/ GetId(map, type) > kOneByteHeaderExtensionMaxId
                                 \/ sizes[type] > kOneByteHeaderExtensionMaxValueSize
      sum  == SumFunctionOnSet(sizes, used)
      size == 4 + (IF two THEN 2 ELSE 1) * Cardinality(used) + sum
  IN  IF sum = 0 THEN 0 ELSE size + 3 - ((size + 3) % 4)

\* Types that are filled in after FEC was made, as a whole.
MutableTypes == {"TransportSequenceNumber", "TransportSequenceNumber02",
                 "TransmissionTimeOffset", "AbsoluteSendTime"}

\* Mutant: nothing is zeroed.
MutantCopyOnly(p) == p.buf

\* CopyAndZeroMutableExtensions: of the timing, six bytes from the delta of the
\* pacer on are zeroed, whatever the length of the extension.
CopyAndZeroMutableExtensions(p) ==
  LET Zero(buf, entry) ==
        LET type == GetType(p.extensions, entry.id)
        IN  IF type = "VideoTiming"
              THEN WriteAt(buf, entry.offset + kPacerExitDeltaOffset, [i \in 1 .. 6 |-> 0])
            ELSE IF type \in MutableTypes
              THEN WriteAt(buf, entry.offset, [i \in 1 .. entry.length |-> 0])
            ELSE buf
  IN  FoldLeft(Zero, p.buf, p.entries)

\* ZeroMutableExtensions of release 85: not past the end of the timing.
ZeroMutableExtensions(p) ==
  LET Zero(buf, entry) ==
        LET type == GetType(p.extensions, entry.id)
            from == IF type = "VideoTiming" THEN kPacerExitDeltaOffset ELSE 0
        IN  IF type \in MutableTypes \cup {"VideoTiming"} /\ from < entry.length
              THEN WriteAt(buf, entry.offset + from, [i \in 1 .. entry.length - from |-> 0])
              ELSE buf
  IN  FoldLeft(Zero, p.buf, p.entries)
=============================================================================
