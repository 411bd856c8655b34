-------------------------- MODULE RtpHeaderExtensions --------------------------
(***************************************************************************)
(* The values of RTP header extensions as bytes: rtp_header_extensions.cc, *)
(* with the classes whose values they are, and the generic frame           *)
(* descriptor.                                                             *)
(*                                                                         *)
(* Each Parse gives Invalid or the value read.  The bytes of Write are as  *)
(* many as ValueSize says, which callers allocate before.  A number of 64  *)
(* bits is its four words; the floats of HDR metadata are the integers     *)
(* that are sent, value times denominator.                                 *)
(***************************************************************************)
EXTENDS ByteIO, FiniteSets

CONSTANT None   \* absl::nullopt

Invalid == [ok |-> FALSE]
Valid(value) == [ok |-> TRUE, value |-> value]

\* What a Write gives in place of bytes that a failing RTC_CHECK ends.
Aborted == None

Flag(set, bit) == IF set THEN bit ELSE 0
Word(data, offset) == ReadBigEndian(SubSeq(data, offset + 1, offset + 2))
Words(data, offset) == [i \in 1 .. 4 |-> Word(data, offset + 2 * (i - 1))]
WriteWords(words) == [i \in 1 .. 8 |-> WriteBigEndian(words[(i + 1) \div 2], 2)[2 - (i % 2)]]

-----------------------------------------------------------------------------
(* Times and numbers.                                                      *)

AbsoluteSendTimeParse(data) == IF Len(data) # 3 THEN Invalid ELSE Valid(ReadBigEndian(data))
AbsoluteSendTimeWrite(time) == WriteBigEndian(time, 3)

AbsoluteCaptureTimeParse(data) ==
  IF Len(data) \notin {8, 16} THEN Invalid
  ELSE Valid([timestamp |-> Words(data, 0),
              offset |-> IF Len(data) # 8 THEN Words(data, 8) ELSE None])
AbsoluteCaptureTimeSize(value) == IF value.offset # None THEN 16 ELSE 8
AbsoluteCaptureTimeWrite(value) ==
  WriteWords(value.timestamp) \o (IF AbsoluteCaptureTimeSize(value) # 8 THEN WriteWords(value.offset) ELSE <<>>)

AudioLevelParse(data) ==
  IF Len(data) # 1 THEN Invalid
  ELSE Valid([voice |-> HasBit(data[1], 128), level |-> data[1] % 128])
AudioLevelWrite(value) ==
  IF value.level > 127 THEN Aborted ELSE <<Flag(value.voice, 128) + value.level>>

TransmissionOffsetParse(data) == IF Len(data) # 3 THEN Invalid ELSE Valid(ReadSigned(data))
TransmissionOffsetWrite(time) == WriteBigEndian(time, 3)

TransportSequenceNumberParse(data) == IF Len(data) # 2 THEN Invalid ELSE Valid(ReadBigEndian(data))
TransportSequenceNumberWrite(number) == WriteBigEndian(number, 2)

kIncludeTimestampsBit == 32768

\* A request for feedback about no packets is no request.
TransportSequenceNumberV2Parse(data) ==
  IF Len(data) \notin {2, 4} THEN Invalid
  ELSE LET raw == IF Len(data) = 4 THEN Word(data, 2) ELSE 0
       IN  Valid([number |-> Word(data, 0),
                  request |-> IF raw % kIncludeTimestampsBit = 0 THEN None
                              ELSE [timestamps |-> HasBit(raw, kIncludeTimestampsBit),
                                    count |-> raw % kIncludeTimestampsBit]])
TransportSequenceNumberV2Write(value) ==
  WriteBigEndian(value.number, 2) \o
    (IF value.request = None THEN <<>>
     ELSE WriteBigEndian(value.request.count + Flag(value.request.timestamps, kIncludeTimestampsBit), 2))

kGranularityMs == 10

\* Mutant: an upper limit below the lower one is accepted.
MutantAnyLimits(data) ==
  IF Len(data) # 3 THEN Invalid
  ELSE LET raw == ReadBigEndian(data)
       IN  Valid([min |-> kGranularityMs * (raw \div 4096), max |-> kGranularityMs * (raw % 4096)])

PlayoutDelayLimitsParse(data) ==
  IF Len(data) # 3 THEN Invalid
  ELSE LET raw == ReadBigEndian(data)
       IN  IF raw \div 4096 > raw % 4096 THEN Invalid
           ELSE Valid([min |-> kGranularityMs * (raw \div 4096), max |-> kGranularityMs * (raw % 4096)])
PlayoutDelayLimitsWrite(value) ==
  WriteBigEndian(4096 * (value.min \div kGranularityMs) + value.max \div kGranularityMs, 3)

-----------------------------------------------------------------------------
(* Video.                                                                  *)

ConvertVideoRotationToCVOByte(rotation) == rotation \div 90
ConvertCVOByteToVideoRotation(byte) == 90 * (byte % 4)

VideoOrientationParse(data) ==
  IF Len(data) # 1 THEN Invalid ELSE Valid(ConvertCVOByteToVideoRotation(data[1]))
VideoOrientationWrite(rotation) == <<ConvertVideoRotationToCVOByte(rotation)>>

\* A content type: bit 0 is a screenshare, bits 1 and 2 the simulcast stream,
\* bits 3 to 5 the experiment.
IsValidContentType(value) == value < 64
IsScreenshare(type) == type % 2 > 0
GetSimulcastId(type) == (type \div 2) % 4
GetExperimentId(type) == (type \div 8) % 8

SetSimulcastId(type, id) == IF id >= 4 THEN type ELSE type - 2 * GetSimulcastId(type) + 2 * id
SetExperimentId(type, id) == IF id >= 8 THEN type ELSE type - 8 * GetExperimentId(type) + 8 * id

VideoContentTypeParse(data) ==
  IF Len(data) = 1 /\ IsValidContentType(data[1]) THEN Valid(data[1]) ELSE Invalid
VideoContentTypeWrite(type) == <<type>>

kPacerExitDeltaOffset == 7

\* GetDeltaCappedMs: saturated_cast<uint16_t>.
GetDeltaCappedMs(base, time) ==
  IF time < base THEN 0 ELSE IF time - base > 65535 THEN 65535 ELSE time - base

\* The six deltas are in the order of their offsets; the old format has no
\* flags.
VideoTimingParse(data) ==
  IF Len(data) \notin {12, 13} THEN Invalid
  ELSE LET off == 13 - Len(data)
       IN  Valid([flags |-> IF off = 1 THEN 0 ELSE data[1],
                  deltas |-> [i \in 1 .. 6 |-> Word(data, 2 * i - 1 - off)]])
VideoTimingWrite(value) ==
  [i \in 1 .. 13 |-> IF i = 1 THEN value.flags
                     ELSE WriteBigEndian(value.deltas[i \div 2], 2)[1 + (i % 2)]]

\* Write of one delta into a value that is there (SetExtension of
\* VideoTimingExtension with an offset).
VideoTimingWriteAt(data, delta, offset) ==
  [i \in DOMAIN data |-> IF i \in {offset + 1, offset + 2} THEN WriteBigEndian(delta, 2)[i - offset]
                         ELSE data[i]]

kNoTemporalIdx == 255
kNoSpatialIdx == 255

IsScalable(marking) == marking.temporal # kNoTemporalIdx \/ marking.layer # kNoSpatialIdx

FrameMarkingParse(data) ==
  IF Len(data) \notin {1, 3} THEN Invalid
  ELSE LET scalable == Len(data) = 3
       IN  Valid([start |-> HasBit(data[1], 128), end |-> HasBit(data[1], 64),
                  independent |-> HasBit(data[1], 32), discardable |-> HasBit(data[1], 16),
                  sync |-> scalable /\ HasBit(data[1], 8),
                  temporal |-> IF scalable THEN data[1] % 8 ELSE kNoTemporalIdx,
                  layer |-> IF scalable THEN data[2] ELSE kNoSpatialIdx,
                  tl0 |-> IF scalable THEN data[3] ELSE 0])
FrameMarkingSize(marking) == IF IsScalable(marking) THEN 3 ELSE 1

\* RTC_CHECK_LE ends the program for a temporal id above 7, which kNoTemporalIdx
\* is, before the form is chosen: markings of one byte are never written.
FrameMarkingAborts(marking) == marking.temporal > 7
FrameMarkingWrite(marking) ==
  LET flags == Flag(marking.start, 128) + Flag(marking.end, 64)
                 + Flag(marking.independent, 32) + Flag(marking.discardable, 16)
  IN  IF FrameMarkingAborts(marking) THEN Aborted
      ELSE IF FrameMarkingSize(marking) = 1 THEN <<flags>>
      ELSE <<flags + Flag(marking.sync, 8) + (marking.temporal % 8), marking.layer, marking.tl0>>

-----------------------------------------------------------------------------
(* Color space.                                                            *)

PrimaryIds == {1, 2, 4, 5, 6, 7, 8, 9, 10, 11, 12, 22}
TransferIds == {1, 2} \cup 4 .. 18
MatrixIds == 0 .. 14 \ {3}
RangeIds == 0 .. 3
ChromaSitings == 0 .. 2

\* HdrMetadata::Validate, of what was scaled by the denominators 1 for
\* luminance_max, 10000 for luminance_min and 50000 for chromaticities.
ValidHdr(hdr) ==
  /\ hdr.lumMax <= 20000 /\ hdr.lumMin <= 50000
  /\ \A i \in 1 .. 8 : hdr.points[i] <= 50000
  /\ hdr.maxLight <= 20000 /\ hdr.averageLight <= 20000

\* points are the coordinates of red, green, blue and white.
ParseHdrMetadata(data) ==
  [lumMax |-> Word(data, 0), lumMin |-> Word(data, 2),
   points |-> [i \in 1 .. 8 |-> Word(data, 2 + 2 * i)],
   maxLight |-> Word(data, 20), averageLight |-> Word(data, 22)]
WriteHdrMetadata(hdr) ==
  LET words == <<hdr.lumMax, hdr.lumMin>> \o hdr.points \o <<hdr.maxLight, hdr.averageLight>>
  IN  [i \in 1 .. 24 |-> WriteBigEndian(words[(i + 1) \div 2], 2)[2 - (i % 2)]]

CombineRangeAndChromaSiting(range, horizontal, vertical) == 16 * range + 4 * horizontal + vertical

ColorSpaceParse(data) ==
  IF Len(data) \notin {4, 28} THEN Invalid
  ELSE LET space == [primaries |-> data[1], transfer |-> data[2], matrix |-> data[3],
                     range |-> (data[4] \div 16) % 4, horizontal |-> (data[4] \div 4) % 4,
                     vertical |-> data[4] % 4,
                     hdr |-> IF Len(data) = 4 THEN None ELSE ParseHdrMetadata(SubSeq(data, 5, 28))]
       IN  IF /\ space.primaries \in PrimaryIds /\ space.transfer \in TransferIds
              /\ space.matrix \in MatrixIds /\ space.range \in RangeIds
              /\ {space.horizontal, space.vertical} \subseteq ChromaSitings
              /\ Len(data) = 4 \/ ValidHdr(space.hdr)
             THEN Valid(space) ELSE Invalid
ColorSpaceWrite(space) ==
  <<space.primaries, space.transfer, space.matrix,
    CombineRangeAndChromaSiting(space.range, space.horizontal, space.vertical)>>
    \o (IF space.hdr = None THEN <<>> ELSE WriteHdrMetadata(space.hdr))

-----------------------------------------------------------------------------
(* Strings: RtpStreamId, RepairedRtpStreamId and RtpMid.                   *)

StringParse(data) ==
  IF data = <<>> \/ data[1] = 0 THEN Invalid
  ELSE Valid(SubSeq(data, 1, CHOOSE n \in 1 .. Len(data) :
                               /\ \A i \in 1 .. n : data[i] # 0
                               /\ n = Len(data) \/ data[n + 1] = 0))

\* A string that is too long is not written to the room allocated for it.
kMaxValueSizeBytes == 16
StringWrite(str) ==
  IF Len(str) > kMaxValueSizeBytes THEN [i \in DOMAIN str |-> 0] ELSE str

-----------------------------------------------------------------------------
(* The generic frame descriptor, in the versions 00 and 01.                *)

kMaxNumFrameDependencies == 8

EmptyDescriptor ==
  [first |-> FALSE, last |-> FALSE, discardable |-> None, id |-> 0, spatial |-> 1, temporal |-> 0,
   diffs |-> <<>>, width |-> 0, height |-> 0]

\* SpatialLayer: the lowest one in the bitmask.
SpatialLayer(descriptor) ==
  IF descriptor.spatial = 0 THEN 0
  ELSE CHOOSE layer \in 0 .. 7 : /\ HasBit(descriptor.spatial, 2^layer)
                                 /\ \A l \in 0 .. layer - 1 : ~HasBit(descriptor.spatial, 2^l)

\* AddFrameDependencyDiff: could it be added?
AddsFrameDependency(diffs, fdiff) == Len(diffs) # kMaxNumFrameDependencies /\ fdiff # 0

ExtendedDiff(first, second) == first \div 4 + 64 * second

\* The dependencies from offset on: each may say that another one follows.
ParseDependencies(data, offset) ==
  LET after[n \in 0 .. Len(data)] ==
        IF n = 0 THEN [ok |-> TRUE, more |-> TRUE, offset |-> offset, diffs |-> <<>>]
        ELSE LET s        == after[n - 1]
                 byte     == data[s.offset + 1]
                 extended == HasBit(byte, 2)
                 fdiff    == IF extended THEN ExtendedDiff(byte, data[s.offset + 2]) ELSE byte \div 4
             IN  IF ~s.ok \/ ~s.more THEN s
                 ELSE IF \/ s.offset + 1 > Len(data)
                         \/ extended /\ s.offset + 2 > Len(data)
                         \/ ~AddsFrameDependency(s.diffs, fdiff)
                   THEN [s EXCEPT !.ok = FALSE]
                   ELSE [s EXCEPT !.more = HasBit(byte, 1), !.diffs = Append(@, fdiff),
                                  !.offset = @ + (IF extended THEN 2 ELSE 1)]
  IN  after[Len(data)]

GenericFrameDescriptorParse(version, data) ==
  IF data = <<>> THEN Invalid
  ELSE LET first  == HasBit(data[1], 128)
           flags  == [EmptyDescriptor EXCEPT
                        !.first = first, !.last = HasBit(data[1], 64),
                        !.discardable = IF version >= 1 THEN HasBit(data[1], 16) ELSE None]
           depends  == HasBit(data[1], 8)
           sized    == ~depends /\ Len(data) >= 8
           parsed   == ParseDependencies(data, 4)
       IN  IF ~first THEN IF Len(data) = 1 THEN Valid(flags) ELSE Invalid
           ELSE IF Len(data) < 4 \/ (depends /\ ~parsed.ok) THEN Invalid
           ELSE Valid([flags EXCEPT !.temporal = data[1] % 8, !.spatial = data[2],
                                    !.id = ReadLittleEndian(SubSeq(data, 3, 4)),
                                    !.diffs = IF depends THEN parsed.diffs ELSE <<>>,
                                    !.width = IF sized THEN Word(data, 4) ELSE 0,
                                    !.height = IF sized THEN Word(data, 6) ELSE 0])

WritesResolution(descriptor) ==
  descriptor.diffs = <<>> /\ descriptor.width > 0 /\ descriptor.height > 0

GenericFrameDescriptorSize(descriptor) ==
  IF ~descriptor.first THEN 1
  ELSE 4 + Len(descriptor.diffs) + Cardinality({i \in DOMAIN descriptor.diffs : descriptor.diffs[i] >= 64})
         + (IF WritesResolution(descriptor) THEN 4 ELSE 0)

GenericFrameDescriptorWrite(version, descriptor) ==
  LET n      == Len(descriptor.diffs)
      base   == Flag(descriptor.first, 128) + Flag(descriptor.last, 64)
                  + (IF version = 0 THEN 48 ELSE Flag(descriptor.discardable = TRUE, 16))
      Diff(i) == LET fdiff == descriptor.diffs[i]
                     low   == 4 * (fdiff % 64) + Flag(i < n, 1)
                 IN  IF fdiff >= 64 THEN <<low + 2, fdiff \div 64>> ELSE <<low>>
      bytes[i \in 0 .. n] == IF i = 0 THEN <<>> ELSE bytes[i - 1] \o Diff(i)
  IN  IF ~descriptor.first THEN <<base>>
      ELSE <<base + Flag(n > 0, 8) + descriptor.temporal, descriptor.spatial>>
             \o WriteLittleEndian(descriptor.id, 2)
             \o (IF WritesResolution(descriptor)
                   THEN WriteBigEndian(descriptor.width, 2) \o WriteBigEndian(descriptor.height, 2)
                   ELSE <<>>)
             \o bytes[n]

\* SetByteRepresentation: the flag of the last packet is not authenticated.
SetByteRepresentation(data) == [data EXCEPT ![1] = IF HasBit(@, 64) THEN @ - 64 ELSE @]

-----------------------------------------------------------------------------
(* The extension of a type: GetExtension and SetExtension of RtpPacket.    *)

StringTypes == {"RtpStreamId", "RepairedRtpStreamId", "Mid"}

ParseExtension(type, data) ==
  CASE type = "TransmissionTimeOffset"    -> TransmissionOffsetParse(data)
    [] type = "AudioLevel"                -> AudioLevelParse(data)
    [] type = "AbsoluteSendTime"          -> AbsoluteSendTimeParse(data)
    [] type = "AbsoluteCaptureTime"       -> AbsoluteCaptureTimeParse(data)
    [] type = "VideoRotation"             -> VideoOrientationParse(data)
    [] type = "TransportSequenceNumber"   -> TransportSequenceNumberParse(data)
    [] type = "TransportSequenceNumber02" -> TransportSequenceNumberV2Parse(data)
    [] type = "PlayoutDelay"              -> PlayoutDelayLimitsParse(data)
    [] type = "VideoContentType"          -> VideoContentTypeParse(data)
    [] type = "VideoTiming"               -> VideoTimingParse(data)
    [] type = "FrameMarking"              -> FrameMarkingParse(data)
    [] type \in StringTypes               -> StringParse(data)
    [] type = "GenericFrameDescriptor00"  -> GenericFrameDescriptorParse(0, data)
    [] type = "GenericFrameDescriptor01"  -> GenericFrameDescriptorParse(1, data)
    [] type = "ColorSpace"                -> ColorSpaceParse(data)

WriteExtension(type, value) ==
  CASE type = "TransmissionTimeOffset"    -> TransmissionOffsetWrite(value)
    [] type = "AudioLevel"                -> AudioLevelWrite(value)
    [] type = "AbsoluteSendTime"          -> AbsoluteSendTimeWrite(value)
    [] type = "AbsoluteCaptureTime"       -> AbsoluteCaptureTimeWrite(value)
    [] type = "VideoRotation"             -> VideoOrientationWrite(value)
    [] type = "TransportSequenceNumber"   -> TransportSequenceNumberWrite(value)
    [] type = "TransportSequenceNumber02" -> TransportSequenceNumberV2Write(value)
    [] type = "PlayoutDelay"              -> PlayoutDelayLimitsWrite(value)
    [] type = "VideoContentType"          -> VideoContentTypeWrite(value)
    [] type = "VideoTiming"               -> VideoTimingWrite(value)
    [] type = "FrameMarking"              -> FrameMarkingWrite(value)
    [] type \in StringTypes               -> StringWrite(value)
    [] type = "GenericFrameDescriptor00"  -> GenericFrameDescriptorWrite(0, value)
    [] type = "GenericFrameDescriptor01"  -> GenericFrameDescriptorWrite(1, value)
    [] type = "ColorSpace"                -> ColorSpaceWrite(value)
=============================================================================
