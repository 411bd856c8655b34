---------------------------- MODULE WireFormats ----------------------------
(***************************************************************************)
(* The pure algorithms that decide what is on the wire, over bounded       *)
(* inputs: a step takes one input into sample, and the invariants compare  *)
(* what the code computes from it with a reference.                        *)
(***************************************************************************)
EXTENDS FecHeader, WrapNumbers, NackPack, Rtp85

CONSTANTS
  Media,         \* numbers of media packets in a FEC group
  Important,     \* numbers of important packets
  Gaps,          \* bound: sequence numbers missing between two media packets
  Gapped,        \* those of a group with gaps
  NumberSpace    \* bound: size of a space of numbers that wrap around

ASSUME FormatsAssumption ==
  /\ Media \subseteq 1 .. kMaxMediaPackets /\ Gapped \subseteq Media
  /\ Important \subseteq Nat /\ Gaps \subseteq Nat
  /\ NumberSpace \in Nat \ {0} /\ NumberSpace % 2 = 0

VARIABLE sample   \* the input, with its kind

NoSample == [kind |-> "none"]

\* A mask for every number of media and FEC packets.
SampleMask ==
  \E type \in {"random", "bursty"}, media \in Media, imp \in Important :
    \E fec \in 1 .. media :
      imp <= media /\ sample' = [kind |-> "mask", type |-> type, media |-> media,
                                 fec |-> fec, imp |-> imp]

\* Groups with sequence numbers missing in one or two places.
SampleGaps ==
  \E media \in Gapped, rate \in {128, 255}, unequal \in BOOLEAN :
    \E i \in 2 .. media, a, b \in Gaps :
      \E j \in i .. media :
       sample' = [kind |-> "gaps", rate |-> rate, unequal |-> unequal,
                  dist |-> [p \in 1 .. media |-> p - 1 + (IF p >= i THEN a ELSE 0)
                                                       + (IF p >= j THEN b ELSE 0)]]

\* Masks that protect one or two packets, or a run of them.
RunMasks(bytes) ==
  {[bit \in 0 .. 8 * bytes - 1 |->
      IF bit \in {lo, hi} \/ (fill /\ bit \in lo .. hi) THEN 1 ELSE 0] :
     lo, hi \in 0 .. 8 * bytes - 1, fill \in BOOLEAN}

SampleHeader ==
  \E bytes \in {2, 6}, base \in {0, 65535} :
    \E mask \in RunMasks(bytes) :
      sample' = [kind |-> "header", base |-> base, mask |-> mask]

SampleNumbers ==
  \E last \in 0 .. 3 * NumberSpace - 1, value \in 0 .. NumberSpace - 1 :
    sample' = [kind |-> "numbers", last |-> last, value |-> value]

SampleBatch ==
  \E batch \in SUBSET (0 .. PidSpace - 1) : sample' = [kind |-> "batch", batch |-> batch]

\* Values of header extensions, at the ends of their ranges.
ExtensionValues ==
  LET words == {<<0, 0, 0, 1>>, <<65535, 256, 1, 65535>>}
      diffs == {<<>>, [i \in 1 .. 8 |-> 2^i]} \cup {1, 63, 64, 16383} \X {1, 65}
      hdr   == {[lumMax |-> a, lumMin |-> b, points |-> [i \in 1 .. 8 |-> b - i],
                 maxLight |-> a, averageLight |-> 20000 - a] : a \in {0, 20000}, b \in {8, 50000}}
  IN  [TransmissionTimeOffset |-> {-8388608, -1, 0, 1, 8388607},
       AudioLevel |-> [voice : BOOLEAN, level : {0, 127}],
       AbsoluteSendTime |-> {0, 66051, 16777215},
       AbsoluteCaptureTime |-> [timestamp : words, offset : words \cup {None}],
       VideoRotation |-> {0, 90, 180, 270},
       TransportSequenceNumber |-> {0, 258, 65535},
       TransportSequenceNumber02 |->
         [number : {0, 65535}, request : {None} \cup [timestamps : BOOLEAN, count : {0, 1, 32767}]],
       PlayoutDelay |-> {d \in [min : {0, 15, 40950}, max : {0, 15, 40950}] : d.min <= d.max},
       VideoContentType |-> 0 .. 63,
       VideoTiming |-> [flags : {0, 1, 255}, deltas : {[i \in 1 .. 6 |-> 256 * i + 7], [i \in 1 .. 6 |-> 65535]}],
       FrameMarking |-> [start : BOOLEAN, end : BOOLEAN, independent : BOOLEAN, discardable : BOOLEAN,
                         sync : BOOLEAN, temporal : {0, 7}, layer : {0, 255}, tl0 : {0, 255}],
       RtpStreamId |-> {<<97>>, [i \in 1 .. 16 |-> 97]}, RepairedRtpStreamId |-> {<<97>>},
       Mid |-> {<<97, 98>>},
       GenericFrameDescriptor00 |->
         [first : BOOLEAN, last : BOOLEAN, discardable : {None}, id : {0, 65281}, spatial : {6, 255},
          temporal : {0, 7}, diffs : diffs, width : {0, 640}, height : {0, 360}],
       GenericFrameDescriptor01 |->
         [first : BOOLEAN, last : BOOLEAN, discardable : BOOLEAN, id : {513}, spatial : {1},
          temporal : {7}, diffs : diffs, width : {640}, height : {360}],
       ColorSpace |->
         [primaries : {1, 22}, transfer : {18}, matrix : {0, 14}, range : {0, 3}, horizontal : 0 .. 2,
          vertical : 0 .. 2, hdr : {None} \cup hdr]]

SampleExtension ==
  \E type \in DOMAIN ExtensionValues : \E value \in ExtensionValues[type] :
    sample' = [kind |-> "value", type |-> type, value |-> value]

\* Bytes that come from elsewhere.
SampleBytes ==
  \E type \in DOMAIN ExtensionValues, n \in 0 .. 3, dependent \in BOOLEAN :
    \E bytes \in [1 .. n -> {0, 2, 7, 64, 128, 255}] :
      sample' = [kind |-> "bytes", type |-> type,
                 data |-> IF dependent THEN <<136, 1, 0, 2>> \o bytes ELSE bytes]

Sampling ==
  /\ sample = NoSample
  /\ \/ SampleMask \/ SampleGaps \/ SampleHeader \/ SampleNumbers \/ SampleBatch
     \/ SampleExtension \/ SampleBytes

SampleSpec == sample = NoSample /\ [][Sampling]_sample

-----------------------------------------------------------------------------
(* Packet masks.                                                           *)

Masks == GeneratePacketMasks(sample.media, sample.fec, sample.imp, sample.imp > 0,
                             PickTable(sample.type, sample.media))

\* What a set of lost packets comes down to when rows that miss one packet
\* give it back, as AttemptRecovery does.
Peel(rows, lost) ==
  LET last == Cardinality(lost)
      after[n \in 0 .. last] ==
        IF n = 0 THEN lost
        ELSE LET now == after[n - 1]
             IN  now \ UNION {row \cap now : row \in {r \in rows : Cardinality(r \cap now) = 1}}
  IN  after[last]

\* fec_private_tables_bursty.h:18: all consecutive losses of at most as many
\* packets as there are FEC packets, among the media packets and the FEC
\* packets after them, are recovered with the masks of the bursty table.
BurstsRecoverable ==
  (sample.kind = "mask" /\ sample.type = "bursty" /\ sample.media <= 12 /\ sample.imp = 0) =>
    \A first \in 0 .. sample.media + sample.fec - 1 :
      LET lost == first .. first + sample.fec - 1
      IN  Peel({Protected(Masks[row]) : row \in {r \in DOMAIN Masks : sample.media + r - 1 \notin lost}},
               lost \cap 0 .. sample.media - 1) = {}

\* Whatever the numbers of packets and the protection asked for, every media
\* packet is protected by some FEC packet, and no FEC packet is without media
\* packets (GenerateFecPayloads, forward_error_correction.cc:262, checks it in
\* debug builds only) or refers to a packet after the last.  The masks of a
\* group with missing sequence numbers protect the same packets as those of a
\* group without, each at its distance from the first; a group that spans more
\* than kMaxMediaPackets numbers has none.
EveryPacketProtected ==
  /\ sample.kind = "mask" =>
       LET rows == {Protected(Masks[row]) : row \in DOMAIN Masks}
       IN  rows # {} /\ {} \notin rows /\ UNION rows = 0 .. sample.media - 1
  /\ sample.kind = "gaps" =>
       LET dist  == sample.dist
           fec   == NumFecPackets(Len(dist), sample.rate)
           plain == GeneratePacketMasks(Len(dist), fec, 1, sample.unequal,
                                        PickTable("random", Len(dist)))
           masks == EncodeMasks(dist, sample.rate, 1, sample.unequal, "random")
       IN  IF Last(dist) >= kMaxMediaPackets THEN masks = <<>>
           ELSE /\ Len(masks) = fec
                /\ \A row \in 1 .. fec :
                     Protected(masks[row]) = {dist[bit + 1] : bit \in Protected(plain[row])}

-----------------------------------------------------------------------------
(* Headers.                                                                *)

\* A packet of either release with this many bytes of payload after its header.
Finalized(flex, rtc85, bytes) ==
  LET maskBytes == Cardinality(DOMAIN sample.mask) \div 8
      header == IF ~flex THEN UlpfecHeaderSize(maskBytes)
                ELSE FlexfecHeaderSize(IF rtc85 THEN MinPacketMaskSize85(sample.mask)
                                       ELSE MinPacketMaskSize(sample.mask))
      blank  == [length |-> header + bytes, r |-> 1, f |-> 1, ssrcCount |-> 0, ssrc |-> 0,
                 base |-> 0, e |-> 1, l |-> 0, at2 |-> -1, at8 |-> 0, at10 |-> 0,
                 area |-> BlankArea(IF flex THEN header - 18 ELSE header - 12)]
  IN  CASE flex /\ rtc85   -> FlexfecFinalizeFecHeader85(7, sample.base, sample.mask, blank)
        [] flex /\ ~rtc85  -> FlexfecFinalizeFecHeader(7, sample.base, sample.mask, blank)
        [] ~flex /\ rtc85  -> UlpfecFinalizeFecHeader85(sample.base, sample.mask, blank)
        [] ~flex /\ ~rtc85 -> UlpfecFinalizeFecHeader(sample.base, sample.mask, blank)

\* The reader of a header finds the packets that the writer protected, in
\* FlexFEC although bits 15, 46 and 47 move to parts of their own, and no bit of
\* the payload is taken for the mask or overwritten by it; a FlexFEC header cut
\* short is refused, and ULPFEC gets its length recovery field back, which the
\* writer moves.  Writer and reader may be of different releases.
HeaderRoundTrip ==
  sample.kind = "header" =>
    \A writes85, reads85 \in BOOLEAN :
      LET flex   == Finalized(TRUE, writes85, 4)
          size   == MinPacketMaskSize(sample.mask)
          Read(packet) == IF reads85 THEN FlexfecReadFecHeader85(packet) ELSE FlexfecReadFecHeader(packet)
          header == Read(flex)
          ulp    == Finalized(FALSE, writes85, 4)
          level  == IF reads85 THEN UlpfecReadFecHeader85(ulp, 7) ELSE UlpfecReadFecHeader(ulp, 7)
          PayloadOf(wire) == {bit \in DOMAIN wire.area : wire.area[bit] = Payload}
      IN  /\ header.ok /\ header.base = sample.base /\ header.ssrc = 7
          /\ header.protectionLength = 4
          /\ \A bit \in DOMAIN header.mask : header.mask[bit] # Payload
          /\ Protected(header.mask) = Protected(sample.mask)
          /\ PayloadOf(flex) = 8 * size .. 111
          /\ ~Read([flex EXCEPT !.length = @ - 5]).ok
          /\ level.ok /\ level.base = sample.base /\ level.protectionLength = 4
          /\ level.lengthRecovery = -1
          /\ level.mask = sample.mask
          /\ PayloadOf(ulp) = Cardinality(DOMAIN sample.mask) .. 111

-----------------------------------------------------------------------------
(* Numbers that wrap around.                                               *)

\* Of two different numbers exactly one is the newer, also half the space
\* apart, and the distances on the circle agree with sums and differences.  The
\* unwrapped number stands for the value, is never negative, and no other such
\* number is nearer to the last one.
NumbersWrap ==
  sample.kind = "numbers" =>
    LET M == NumberSpace
        a == sample.last % M
        b == sample.value
        u == Unwrap(sample.last, sample.value, M)
    IN  /\ a # b => IsNewer(a, b, M) # IsNewer(b, a, M)
        /\ IsNewer(a, b, M) => LatestSequenceNumber(a, b, M) = a
        /\ IsNewer(a, b, M) => LatestSequenceNumber(b, a, M) = a
        /\ IsNewer(b, a, M) => MinDiff(a, b, M) = ForwardDiff(a, b, M)
        /\ ModAdd(a, ForwardDiff(a, b, M), M) = b
        /\ ModSubtract(a, ReverseDiff(a, b, M), M) = b
        /\ ModAdd(a, sample.last, M) = (a + sample.last) % M
        /\ u >= 0 /\ u % M = sample.value
        /\ u >= M => u - M <= sample.last - (u - sample.last)
        /\ u <= sample.last => sample.last - u <= u + M - sample.last

-----------------------------------------------------------------------------
(* Header extensions.                                                      *)

\* What of a value is sent.
Sent(type, value) ==
  CASE type = "PlayoutDelay" ->
         [min |-> value.min - (value.min % kGranularityMs), max |-> value.max - (value.max % kGranularityMs)]
    [] type = "TransportSequenceNumber02" /\ value.request # None ->
         IF value.request.count = 0 THEN [value EXCEPT !.request = None] ELSE value
    [] type \in {"GenericFrameDescriptor00", "GenericFrameDescriptor01"} ->
         IF ~value.first
           THEN [EmptyDescriptor EXCEPT !.last = value.last, !.discardable = value.discardable]
         ELSE IF value.diffs # <<>> \/ 0 \in {value.width, value.height}
           THEN [value EXCEPT !.width = 0, !.height = 0]
         ELSE value
    [] OTHER -> value

\* The bytes that Write makes of a value are as many as ValueSize promised, and
\* Parse reads the value from them: signs, values split over bytes, the forms
\* of different lengths and, in descriptors, lists that end by themselves.  A
\* program of either release reads what one of the other wrote.
\* A value that Parse accepts, of whatever bytes, keeps the limits of its type,
\* and written again it is read as the same value: no check of Write ends the
\* program, except on the marking of a stream that is not scalable, which is
\* read from one byte and cannot be written (FrameMarkingAborts).  The parts of
\* a content type are set one without the others.
ExtensionRoundTrip ==
  /\ sample.kind = "value" =>
       LET type == sample.type
           data == WriteExtension(type, sample.value)
       IN  /\ ParseExtension(type, data) = Valid(Sent(type, sample.value))
           /\ type \in Types85 => /\ ParseExtension85(type, data) = Valid(Sent(type, sample.value))
                                 /\ WriteExtension85(type, sample.value) = data
           /\ type = "FrameMarking" => Len(data) = FrameMarkingSize(sample.value)
           /\ type \in {"GenericFrameDescriptor00", "GenericFrameDescriptor01"}
                => Len(data) = GenericFrameDescriptorSize(sample.value)
  /\ sample.kind = "bytes" =>
       LET type   == sample.type
           parsed == ParseExtension(type, sample.data)
           value  == parsed.value
           Parts(v) == <<IsScreenshare(v), GetSimulcastId(v), GetExperimentId(v)>>
       IN  parsed.ok =>
             /\ ~(type = "FrameMarking" /\ Len(sample.data) = 1) =>
                  /\ WriteExtension(type, value) # Aborted
                  /\ ParseExtension(type, WriteExtension(type, value)) = parsed
             /\ type \in Types85 => ParseExtension85(type, WriteExtension85(type, value)) = parsed
             /\ type = "PlayoutDelay" => value.min <= value.max
             /\ type = "GenericFrameDescriptor01" => \A i \in DOMAIN value.diffs : value.diffs[i] # 0
             /\ (type = "GenericFrameDescriptor01" /\ value.spatial # 0) => HasBit(value.spatial, 2^SpatialLayer(value))
             /\ type = "VideoContentType" =>
                  \A id \in 0 .. 9 :
                    /\ Parts(SetSimulcastId(value, id)) =
                         IF id < 4 THEN [Parts(value) EXCEPT ![2] = id] ELSE Parts(value)
                    /\ Parts(SetExperimentId(value, id)) =
                         IF id < 8 THEN [Parts(value) EXCEPT ![3] = id] ELSE Parts(value)

-----------------------------------------------------------------------------
(* Requests for retransmission.                                            *)

\* The sender unpacks numbers of the batch only, the lowest ones, and all of
\* them unless the message is full: the numbers dropped at MAX_NACK_ITEM_NUM
\* (pack.cpp:71) are the highest, that is not always the newest.  The items are
\* the fewest that cover the batch, if it fits the message at all, and no two of
\* them ask for the same number.
RequestsExact ==
  sample.kind = "batch" =>
    LET msg  == packing_nack(sample.batch)
        seqs == unpacking_nack(msg)
    IN  /\ seqs \subseteq sample.batch
        /\ \A lost \in sample.batch \ seqs, s \in seqs : s < lost
        /\ seqs # sample.batch => Len(msg) = MaxNackItems
        /\ \A i, j \in DOMAIN msg : i # j => ItemSeqs(msg[i]) \cap ItemSeqs(msg[j]) = {}
        /\ \A pids \in SUBSET sample.batch :
             (\A s \in sample.batch : \E pid \in pids : s - pid \in 0 .. BlpBits)
               => Cardinality(pids) >= Len(msg)
=============================================================================
