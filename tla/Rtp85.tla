-------------------------------- MODULE Rtp85 --------------------------------
(***************************************************************************)
(* RTP packets of release 85: rtp_packet_85.cc, rtp_packet_received_85.cc  *)
(* and rtp_header_extensions_85.cc, a second copy of the same classes in   *)
(* the namespace webrtc85.  A definition that refers to its namesake says  *)
(* that the code of the two releases does the same.  The differences: the  *)
(* header of a packet is copied by taking a slice of its buffer, mutable   *)
(* extensions are zeroed in place (ZeroMutableExtensions), and there is no *)
(* FrameMarking and no descriptor of version 01.                           *)
(***************************************************************************)
EXTENDS RtpHeaderParser

Csrcs85(buf) == Csrcs(buf)
SetMarker85(p, marker) == SetMarker(p, marker)
SetPayloadType85(p, pt) == SetPayloadType(p, pt)
SetSequenceNumber85(p, seq) == SetSequenceNumber(p, seq)
SetTimestamp85(p, timestamp) == SetTimestamp(p, timestamp)
SetSsrc85(p, ssrc) == SetSsrc(p, ssrc)
SetCsrcs85(p, csrcs) == SetCsrcs(p, csrcs)
Clear85(p) == Clear(p)
ParseBuffer85(buf, extensions) == ParseBuffer(buf, extensions)
Parse85(p, buf) ==
  LET parsed == ParseBuffer85(buf, p.extensions) IN IF parsed.ok THEN parsed.packet ELSE Clear85(p)
AllocateRawExtension85(p, id, bytes) == AllocateRawExtension(p, id, bytes)
SetExtension85(p, type, bytes) ==
  IF Refused(p, type, bytes) THEN p
  ELSE AllocateRawExtension85(p, GetId(p.extensions, type), bytes)
FindExtension85(p, type) == FindExtension(p, type)
SetPayload85(p, bytes) == SetPayload(p, bytes)
SetPadding85(p, size) == SetPadding(p, size)

\* CopyHeaderFrom: the slice is the whole buffer, but size() ends with the
\* header; the padding bit is copied, too.
CopyHeaderFrom85(packet) ==
  [packet EXCEPT !.buf = SubSeq(@, 1, HeadersSize(packet)), !.payloadSize = 0, !.paddingSize = 0,
                 !.stalePadding = HasBit(At(packet.buf, 0), kPaddingBit)]

\* RemoveExtension.
RemoveExtension85(p, type) ==
  LET id == GetId(p.extensions, type)
      Copy(q, entry) == AllocateRawExtension85(q, entry.id, ReadAt(p.buf, entry.offset, entry.length))
      fixed == SetSsrc85(SetTimestamp85(SetSequenceNumber85(SetPayloadType85(SetMarker85(
                 Clear85(p), p.marker), p.pt), p.seq), p.timestamp), p.ssrc)
      kept  == FoldLeft(Copy, fixed, SelectSeq(p.entries, LAMBDA entry : entry.id # id))
  IN  IF id = kInvalidId \/ FindExtensionInfo(p.entries, id) = 0 THEN p
      ELSE SetPadding85(SetPayload85(kept, ReadAt(p.buf, p.payloadOffset, p.payloadSize)), p.paddingSize)

-----------------------------------------------------------------------------
(* Header extensions.                                                      *)

AbsoluteSendTimeParse85(data) == AbsoluteSendTimeParse(data)
AbsoluteSendTimeWrite85(time) == AbsoluteSendTimeWrite(time)
AbsoluteCaptureTimeParse85(data) == AbsoluteCaptureTimeParse(data)
AbsoluteCaptureTimeWrite85(value) == AbsoluteCaptureTimeWrite(value)
AudioLevelParse85(data) == AudioLevelParse(data)
AudioLevelWrite85(value) == AudioLevelWrite(value)
TransmissionOffsetParse85(data) == TransmissionOffsetParse(data)
TransmissionOffsetWrite85(time) == TransmissionOffsetWrite(time)
TransportSequenceNumberParse85(data) == TransportSequenceNumberParse(data)
TransportSequenceNumberWrite85(number) == TransportSequenceNumberWrite(number)
TransportSequenceNumberV2Parse85(data) == TransportSequenceNumberV2Parse(data)
TransportSequenceNumberV2Write85(value) == TransportSequenceNumberV2Write(value)
VideoOrientationParse85(data) == VideoOrientationParse(data)
VideoOrientationWrite85(rotation) == VideoOrientationWrite(rotation)
PlayoutDelayLimitsParse85(data) == PlayoutDelayLimitsParse(data)
PlayoutDelayLimitsWrite85(value) == PlayoutDelayLimitsWrite(value)
VideoContentTypeParse85(data) == VideoContentTypeParse(data)
VideoContentTypeWrite85(type) == VideoContentTypeWrite(type)
VideoTimingParse85(data) == VideoTimingParse(data)
VideoTimingWrite85(value) == VideoTimingWrite(value)
VideoTimingWriteAt85(data, delta, offset) == VideoTimingWriteAt(data, delta, offset)
ColorSpaceParse85(data) == ColorSpaceParse(data)
ColorSpaceWrite85(space) == ColorSpaceWrite(space)
StringParse85(data) == StringParse(data)
StringWrite85(str) == StringWrite(str)

Types85 == StringTypes \cup
  {"TransmissionTimeOffset", "AudioLevel", "AbsoluteSendTime", "AbsoluteCaptureTime", "VideoRotation",
   "TransportSequenceNumber", "TransportSequenceNumber02", "PlayoutDelay", "VideoContentType",
   "VideoTiming", "ColorSpace"}

ParseExtension85(type, data) ==
  CASE type = "TransmissionTimeOffset"    -> TransmissionOffsetParse85(data)
    [] type = "AudioLevel"                -> AudioLevelParse85(data)
    [] type = "AbsoluteSendTime"          -> AbsoluteSendTimeParse85(data)
    [] type = "AbsoluteCaptureTime"       -> AbsoluteCaptureTimeParse85(data)
    [] type = "VideoRotation"             -> VideoOrientationParse85(data)
    [] type = "TransportSequenceNumber"   -> TransportSequenceNumberParse85(data)
    [] type = "TransportSequenceNumber02" -> TransportSequenceNumberV2Parse85(data)
    [] type = "PlayoutDelay"              -> PlayoutDelayLimitsParse85(data)
    [] type = "VideoContentType"          -> VideoContentTypeParse85(data)
    [] type = "VideoTiming"               -> VideoTimingParse85(data)
    [] type \in StringTypes               -> StringParse85(data)
    [] type = "ColorSpace"                -> ColorSpaceParse85(data)

WriteExtension85(type, value) ==
  CASE type = "TransmissionTimeOffset"    -> TransmissionOffsetWrite85(value)
    [] type = "AudioLevel"                -> AudioLevelWrite85(value)
    [] type = "AbsoluteSendTime"          -> AbsoluteSendTimeWrite85(value)
    [] type = "AbsoluteCaptureTime"       -> AbsoluteCaptureTimeWrite85(value)
    [] type = "VideoRotation"             -> VideoOrientationWrite85(value)
    [] type = "TransportSequenceNumber"   -> TransportSequenceNumberWrite85(value)
    [] type = "TransportSequenceNumber02" -> TransportSequenceNumberV2Write85(value)
    [] type = "PlayoutDelay"              -> PlayoutDelayLimitsWrite85(value)
    [] type = "VideoContentType"          -> VideoContentTypeWrite85(value)
    [] type = "VideoTiming"               -> VideoTimingWrite85(value)
    [] type \in StringTypes               -> StringWrite85(value)
    [] type = "ColorSpace"                -> ColorSpaceWrite85(value)

\* RtpPacketReceived::GetHeader.
GetHeader85(p) ==
  [marker |-> p.marker, pt |-> p.pt, seq |-> p.seq, timestamp |-> p.timestamp, ssrc |-> p.ssrc,
   csrcs |-> Csrcs85(p.buf), paddingLength |-> p.paddingSize, headerLength |-> HeadersSize(p),
   extension |-> [type \in Types \cap Types85 |-> ParseExtension85(type, FindExtension85(p, type))]]
=============================================================================
