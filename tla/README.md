# TLA+ models of transport-demo

transport-demo is a set of small programs about recovering lost packets on UDP:
retransmission on request (`nack-test`), retransmission together with an erasure
code (`fec-test`), and imported code with drivers: WebRTC's FEC and RTP packets
(`flexfec_test`), `feclib-0.90` and `rscode-1.3`; besides a bandwidth simulator
(`linux-tc-simulator`). This directory models the parts that carry the logic,
checks them with TLC, and proves the retransmission protocol, the groups of
blocks, the shared buffers and the monitor with TLAPS. Paths below
are relative to the repository's root (`src/`); those of WebRTC to
`flexfec_test/libwebrtc/libwebrtc/`, and without a directory to
`modules/rtp_rtcp/source/` there.

## The system

| component | state | operations | interacts with |
|---|---|---|---|
| `NackGenerator` (`nack-test/receiver/Transport/nack_gen.*`) | list of missing numbers with time and count of requests, `lastSeq`, `started`, `rtt` | `ReceivePacket`, `AddPacketsToNackList`, `UpdateRtt`, `GetNackBatch`, `Reset` | called by the receiver's handlers |
| packing (`pack.cpp`) | none | `packing_packet`, `packing_nack`, `unpacking_nack`, `rtt_packing` | receiver packs requests, sender unpacks them |
| sender (`nack-test/sender`) | `seq_`, `pkt_map_` of every packet sent | timer: send the next packet; requests: send again; probes: answer | UDP to the receiver |
| receiver (`nack-test/receiver`) | a `NackGenerator`, `rtt_`, probes without an answer | data, answers to probes; timer: probe, update `rtt`, request | UDP to the sender |
| `FECGenerator` (`fec-test/*/Transport/FEC/fec_gen.*`) | group, counters, marks and buffers | `Encode`, `Decode`, `Clear` | calls the codec; callbacks into the sender and the receiver |
| Vandermonde codec (`fec-test/*/Transport/FEC/fec.c`) | tables of the field, encoding matrix | `fec_new`, `fec_encode`, `fec_decode` | used by `FECGenerator` |
| fec-test transport | as nack-test, with a `FECGenerator` on either side | timer, requests, packets, blocks, callbacks of `Encode` and `Decode` | UDP; packets and decoded blocks reach one `NackGenerator` |
| `ForwardErrorCorrection` | lists of media packets and FEC packets | `EncodeFec`, `DecodeFec` | masks, FEC headers; used by the senders and receivers |
| `UlpfecGenerator`, `FlexfecSender` | media packets of the group, frames, parameters, sequence number | add a packet, get FEC packets, set parameters, replace the sender | the driver `mytest/test.cpp`; the network |
| `FlexfecReceiver`, `UlpfecReceiverImpl` | a decoder, the queue of RED packets | a packet arrives, process the queue | hand on recovered packets by a callback |
| `RtpPacket`, extensions and maps, `RtpHeaderParser` | fields and buffer of a packet | set fields, extensions, payload, padding; parse | senders write, receivers read |
| `CopyOnWriteBuffer` | handles on reference counted blocks | construct, copy, move, write, append, resize, clear, slice | every packet is in one |
| `RateStatistics` | ring of buckets of a moving window | `Update`, `Rate`, `Reset` | the M85 senders |
| feclib (`feclib-0.90`) | group, redundant packets, matrix, missing packets | `FecEncode`, `FecDecode`, `FlushFecDecoder` | its own sender and receiver |
| rscode (`rscode-1.3`) | codeword, locator polynomial | `encode_data`, `decode_data`, `correct_errors_erasures` | its own example |
| bandwidth monitor (`linux-tc-simulator/SinBandwidth`) | counter, lock, window, picture | `NetCat`, `Monitor`, the loop of `main` | a goroutine and main share the counter |

What is hard here:

* **Wrap-around.** Sequence numbers are `uint16_t`. In the demos "older" is
  decided modulo 2^16 in one place (`SeqLowerThan`) and by plain numeric order in
  another (the `std::map` that `AddPacketsToNackList` purges); WebRTC sorts its
  lists modulo 2^16 and discards from the front.
* **An unreliable network.** Data, requests, answers, probes and FEC packets are
  lost, repeated and reordered; a retry races the answer to the request before
  it. Numbers of packets and of probes are used again.
* **Two paths to one list.** In fec-test a packet may come raw, decoded and by
  retransmission, in any order.
* **Counters against marks.** `FECGenerator` and feclib decide by counters and
  lists what their buffers should tell them, and recovery overwrites the buffers.
* **In-place algorithms.** `shuffle`, `invert_mat`, the Berlekamp-Massey loop and
  the growth of extension headers rearrange their input as they go.
* **Shared bytes.** Packets share buffers until one is written.
* **Two copies.** WebRTC's sources are there twice; the repository patched one
  copy and not the other (`*_85.*`, namespace `webrtc85`, chosen by `USE_RTC85`).

Each demo runs one `io_service` on one thread, so handlers do not interleave
within a program; the interleavings are those of two programs and a network.
The monitor is the one component with two threads.

What makes each component correct: the generator lists exactly the recent
packets that are missing, within its bounds, and asks for each a bounded number
of times; a request names what was in the batch; the sender answers with the
packet meant; a group is delivered from any `fec_k` blocks, once and unchanged;
the codecs invert what they encoded; a packet that WebRTC recovers is the packet
that was sent, and everything that can be recovered is; what a packet says of
itself is what a reader makes of its bytes; a buffer behaves as if it were not
shared; every captured packet is in one mark.

## Modules

| module | models |
|---|---|
| `NackGenerator` | class `NackGenerator` alone: any packet, round trip time and timer tick at any moment |
| `NackPack` | `packing_nack`, `unpacking_nack`; a mask is the set of its bits |
| `StreamDelivery` | abstract specification: what becomes of each packet of the stream |
| `NackTransport` | both `UDPSender` classes of nack-test, the clock and the network; extends `NackGenerator`, uses `NackPack`, implements `StreamDelivery` |
| `FecGenerator` | class `FECGenerator` as encoder and as decoder, and a network between them; the codec is the ideal code |
| `FecTransport` | the fec-test programs: `FECGenerator` and `NackGenerator` behind one socket; extends `FecGenerator` |
| `GaloisField` | the tables of `fec.c`; an element is the set of its bits, exclusive or the symmetric difference |
| `VandermondeCodec` | `fec_new`, `fec_encode`, `fec_decode`, one step per pass of a decoder's loop; justifies the ideal code of `FecGenerator` |
| `ReedSolomon` | rscode: encoder, syndromes, locator, roots, magnitudes; one step per pass of Modified_Berlekamp_Massey |
| `FecLib` | feclib: encoder, decoder, elimination and back substitution, and a network |
| `WrapNumbers` | `mod_ops.h`, `IsNewer`, `Unwrapper` |
| `PacketMaskTables`, `PacketMask` | the tables of packet masks and `forward_error_correction_internal.cc`, with `InsertZerosInPacketMasks` |
| `FecHeader` | FlexFEC and ULPFEC headers, read and written |
| `ForwardErrorCorrection`, `ForwardErrorCorrection85` | `EncodeFec` and `DecodeFec` with the lists of the decoder and the recovery loop, in the patched source and in that of M85 |
| `FlexfecTransport` | senders and receivers of FlexFEC and ULPFEC and a network, in both releases; extends `ForwardErrorCorrection85` |
| `CopyOnWriteBuffer`, `RateStatistics` | `rtc_base/copy_on_write_buffer.*` with `buffer.h` and reference counting; `rtc_base/rate_statistics.cc` |
| `ByteIO`, `RtpExtensionMap`, `RtpPacket` | integers as bytes, ids of extensions, the packet with its buffer |
| `RtpHeaderExtensions`, `RtpHeaderParser`, `Rtp85`, `RedPacket` | values of extensions, the two readers of headers, the classes of M85, RED packets |
| `RtpPackets` | the life of a packet: calls in any order |
| `WireFormats` | pure algorithms against reference definitions, one input per state |
| `BandwidthMonitor` | `SinBandwidth.go` and `netCat.go` |
| `SortedSets` | the elements of a set of numbers in ascending order |
| `NackPackProofs`, `NackTransportProofs`, `FecGeneratorProofs`, `FlexfecTransportProofs`, `BandwidthMonitorProofs`, `WireFormatsProofs` | theorems of the modules they are named after; those of `NackGenerator` are in `NackTransportProofs`, those of `FecTransport` in `FecGeneratorProofs` |
| `RtcBaseProofs` | theorems of `CopyOnWriteBuffer` and `RateStatistics` |
| `NumberFacts` | lemmas: least elements, ascending sequences, remainders, loops |
| `MC*` | instances for TLC; `MCFecTransport`, `MCCodec`, `MCFlexfecTransport` and `MCWire` check several modules, one in each behaviour |

Definitions carry the names of the functions they model, with `85` appended for
those of M85; one that only refers to its namesake says that the code of both
releases does the same. Those named `Mutant...` are changes of the definition
after them, used to see that the properties notice.

**NackGenerator.** `nackList` is a function from the listed numbers to
`[age, retries]`. The code keeps the instant of the last request and only uses
`now - sentAtMs >= limit`, so the model keeps that difference, saturated at the
largest limit; a new entry has `sentAtMs = 0` and is due at once. `sendAtSeq`
and the `SEQ` filter are dead code. `GetNackBatch` is one action: it collects
what is due, counts the requests and removes what it gives up.
`AddPacketsToNackList` keeps the conversion of the purge bound to `uint16_t` and
the numeric order of the map. Nothing in the repository calls `Reset`; it is a
public operation and an action.

**NackTransport.** The unit of time is the timer period (20 ms in both
programs); ages, `rtt` and `rtt_` count periods. asio's timers expire at
absolute instants, so in each period both timer handlers run once, in either
order (`expired`), and deliveries happen at any moment between. Packet `n` of
the stream carries number `n % SeqMod`; the code never sees `n`. `net` is a bag of
datagrams with the periods each has left; a datagram is lost when sent or when
its time is over, repeated when it is delivered; `faults` counts all three. `FirstPacket` lets a run start
near the wrap-around with the `pkt_map_` that the sender has by then: it stands
for a receiver started later than the sender. The receiver's first probes go to
the endpoint of its constructor until a packet came: they count as lost.

**FecGenerator, FecTransport.** A buffer holds the block it was filled with or
garbage. A recovery is right if every slot it reads holds the block it is
labelled with. Packet sizes are left out. The network of `FecGenerator` keeps the
order or not (`inOrder`, chosen at the start). In `FecTransport` what was sent
stays in `wire` and arrives any number of times or never. The callback of
`Encode` is modelled as the code has it: blocks of even groups and blocks with an
index above `FEC_K` are not sent, and that alone keeps `Decode` from reading
buffers it has overwritten. The demo's `FEC_K = FEC_N = 8` has no redundant blocks.

**Codecs.** A packet is one symbol, because `addmul` and `MAC` treat the symbols
alike. All three codes work over GF(8) here. `Call` of `VandermondeCodec` also
allows a repeated block, which `FECGenerator` never passes. The branch
`ipiv > 1` of `invert_mat` cannot be taken: a pivot's column is never chosen again.
When the blocks differ every pivot is found on the diagonal (all minors of the
redundant rows are regular), so the exchange of rows and its undoing on the columns
are reached only by vectors that `invert_mat` then refuses.

**ForwardErrorCorrection, FlexfecTransport.** The bytes of a packet, its length
included, are the set of the media packets whose XOR they are; a packet that is
too long to be rebuilt has its number in `BigIds`. A decoder is the record of its two
lists, in the order of the code. `mode` chooses FlexFEC or ULPFEC over RED, one
SSRC or two, the release, whether `GetFecPackets` is called after every packet,
and, in M85, whether the decoder gets what its receivers give it (`whole`) or the
payload itself (see finding 5). A `FlexfecSender` may be replaced by another that
is given its RTP state. Parameters are set at any moment.

**RtpPacket.** A packet is its fields and the bytes of its buffer. The bytes that
the code leaves to its caller are written in the same step. Two auxiliary fields
mark what the code does to itself: `gapsPromoted` (extensions that do not lie side
by side are rewritten with two-byte headers, and old bytes stay between them) and
`stalePadding` (`CopyHeaderFrom` copies the padding bit without the padding,
against its comment "Reset payload and padding."; nothing calls it).

**CopyOnWriteBuffer.** The heap has a block for each handle; a write goes to the
block itself if the handle is the only one, else to a copy. `Slice` is a copy: the
fields it sets are read by no other call.

**BandwidthMonitor.** `upStreamDataSize += ...` is a read and a write, `Monitor` marks
and resets in two steps, so that the lock matters. As history a mark has the range of
captured packets it should hold and the bits captured before them.

## Runs

| run | bounds | shows |
|---|---|---|
| `nack_generator` | 8 numbers, window 3, 2 entries, 4 requests; probes: 4 numbers, 3 faults | `TypeOK`, `ListBounded`, `ListWindow`, `RetriesNeverReset`, `LossesSettle`; of the probes `MeasurementSound` |
| `nack_purge` | the same, 2 requests | **violation** of `OnlyOldRemoved` |
| `transport_wrap` | 28 numbers, packets 25 to 30, 2 faults, delays up to 2 periods | `LastSeqIsNewest`, `NackedIsMissing`, `RequestHitsLost`, `ImplementsStreamDelivery` |
| `transport_recovery` | 12 numbers, packets 5 to 9, 3 faults, 5 requests, messages of one item | `GapsRecovered` |
| `fec_groups` | 2 raw and 2 redundant blocks, 2 groups, 2 faults; monitor: 5 columns, 3 packets | `AnyKSuffice`, `OnceInOrder`, `TrueUnlessLate`; of the transport `StreamAccounted`; of the monitor `MonitorExact` |
| `fec_late` | the same, 3 faults | **violation** of `DeliveredTrue` |
| `codec` | GF(8); fec.c: k up to 3, n = 2 and n = 8; rscode: up to 7 symbols; feclib: two groups | `FieldTables`, `DecodeRecovers`, `DecodeReturns`, `ErrorsCorrected`, `PayloadDelivered` |
| `feclib_late` | feclib with late payloads | **violation** of `PayloadCheck` |
| `flexfec` | 32 numbers about the wrap-around, 2 to 5 media packets, lists of 3 and 2, 1 repeat up to 4 packets; buffers: 2 handles, 4 calls; rates: window 3, 3 samples | `RecoveredTrue`, `AllRecovered`, `RecoveredOnce`, `ListsSorted`, `ForgetsForRoom`, `FramesBounded`, `BuffersIndependent`, `RateExact` |
| `flexfec_driver` | the calls of `test.cpp` | **violation** of `FramesBounded` |
| `flexfec_slice` | the receiver of M85, 4 media packets | **violation** of `PayloadInserted` |
| `wire` | all masks for 1 to 13, 16, 17, 24, 47, 48 media packets; packets of 48 bytes and 3 calls; 4 types of extensions in the packet, all types alone | `EveryPacketProtected`, `BurstsRecoverable`, `HeaderRoundTrip`, `NumbersWrap`, `RequestsExact`, `ExtensionRoundTrip`, `WireAgrees`, `SizePredicted`, `ReadersAgree`, `ExtensionsKept`, `ProtectionStable` |

Why the bounds are enough to be of interest:

* The generator's constants keep the order of the code's,
  `MaxNackPackets < MaxPacketAge < SeqMod / 2`, and eight numbers are enough for
  gaps that overflow the list, a purge below and above `MaxPacketAge`, and every
  distance of two numbers, half the space included. Four requests reach the last
  branch of `CalculateRttLimit2SendNack`. The probes come round after four, so that a
  lost one is overwritten by its successor; in the code that takes 65536. Only the
  upper bound of a measurement is stated: an answer whose number came round while it
  was on its way would be measured too short.
* The packets of `transport_wrap` straddle the wrap-around (25, 26, 27, 0, 1,
  2), and two faults suffice for a lost packet with a lost, late or repeated
  retransmission. 28 is the least number space for which the hypothesis of the
  theorems (`TimelyNetwork`) holds with these bounds. The run stays within half the number space, as the code's
  comparison needs: after an outage of more than half of it (32768 packets, 11
  minutes at 20 ms) `SeqLowerThan` takes the new packets for old ones.
* In `transport_recovery` a request holds one item, so that two losses that are not
  neighbours do not fit: `GetNackBatch` has counted a request for the second one, which
  `packing_nack` leaves out. With five requests every loss is recovered all the
  same; with four TLC finds one that is given up without having been asked for often
  enough. In the code it is 20 requests and
  messages of 347 items. `RequestsExact` only says which numbers are left out.
* Two raw and two redundant blocks are the smallest code in which a recovery
  can use two redundant buffers, which `fec_late` needs.
* In `codec`, n = GF_SIZE + 1 is the longest code that `fec_new` accepts; every
  vector of indices, with repeats and in every order, is decoded. Every combination
  of errors and erasures within the parity is given to rscode.
* In `flexfec` the lists of the decoder are shorter than the stream, so that packets are
  discarded from both, one packet is too long to be rebuilt, and the numbers wrap
  around within a group. `AllRecovered` compares the decoder with the closure of the XOR
  equations while its lists have room.
* In `wire` three calls are enough to write an extension, grow the headers to two bytes
  and set padding or remove the extension again; the buffers taken from the network have gaps,
  repeated ids, an unknown profile, two-byte headers and padding of no length.

**Fairness.** `FairSpec` of the generator: time passes and the receiver's timer
fires, which it does because every run of `handle_crude_timer` ends in
`do_timer`. `TransportFairSpec` adds the sender's timer, for the same reason,
and that the network delivers what it does not lose, within `MaxFaults` losses.
In `codec` a loop in progress is continued. No fairness is assumed of losses, of
new packets or of calls.

`CHECK_DEADLOCK FALSE` is set where a bounded stream, a message or a budget of calls
is used up (`fec_groups`, `fec_late`, the `codec`, `flexfec` and `wire` models); the
runs of nack-test check deadlock.

## Findings

1. `nack_gen.cpp:81` "Remove old packets." The bound `seqEnd - MaxPacketAge` is
   a `uint16_t` compared in numeric order. While `seqEnd` is below 10000, that
   is from the start of the stream and after each wrap-around, it is near the
   top of the number space, and the next newer packet, in order or not, erases all
   the losses listed before, however recent (`nack_purge`). `ListWindow` states what does hold. The copy
   of fec-test does the same.
2. `fec_gen.cpp:106` "the raw data are not lost, no recovery needed": the test is
   `raw_packet_count == fec_k`, and a raw block that arrives after it was
   recovered makes the counter `fec_k + 1`. `Decode` then recovers again, reading
   redundant buffers that hold the results of the first recovery, and gives
   wrong contents to its callback (`fec_late`). It takes reordering and two
   redundant blocks; the demo's setting `FEC_K = FEC_N` has none.
3. `feclib-0.90/fec.c:326` drops missing redundant packets by writing them over the
   last entry of the list instead of moving that into their place. A late payload
   leaves such a packet before a payload, and recovery writes to the wrong place
   (`feclib_late`).
4. `include/flexfec_sender.h:46` "max frames sent before FEC packets are sent":
   `GetFecPackets` throws the group away whether there are FEC packets or not, and
   `mytest/test.cpp:124` calls it after every packet, so that a group that does not end
   with its first packet is never protected (`flexfec_driver`).
5. `flexfec_receiver_85.cc:109` "Insert packet payload into erasure code.":
   `CopyOnWriteBuffer::Slice` sets fields that nothing reads, and the code gets the whole
   packet. Its header reader takes the version bits for the retransmission bit and
   refuses every FEC packet (`flexfec_slice`). `ulpfec_receiver_impl_85.cc:126` is worse
   off: the sequence number is read as base and the RED header as mask; only the
   length, read from the SSRC, mostly saves it from handing on made-up packets.
   The runs take that length as too large (0 in `BigIds`).

Seen while reading, without a run:

* `README.md:3` and `nack-test/README.md:60` give the range of numbers as 1 to
  65535; `seq_++` also produces 0.
* `fec.c:172` gives the inverse of the power i as the power `GF_SIZE - i - 1`, the
  code computes `GF_SIZE - i` (`FieldTables` shows that the code is right).
* `Encode` of `FECGenerator` copies up to 1308 bytes into buffers of 1300;
  `Pack::fec_packing`, which the fec-test sender calls, is not defined.
* `feclib-0.90/fec.h:43` "payload only" of the decoder's counters: a decoder that
  begins after the first group adds the index of its group, which counts redundant
  packets too, to `lostPackets` (`fec.c:224`). `PayloadDelivered` states the sum for
  decoders that were there from the first group on.
* `rtp_header_extensions.cc:520` "For non-scalable streams": `FrameMarkingExtension`
  parses a marking of one byte and gives it the temporal id 255, for none; `Write` runs
  `RTC_CHECK_LE(temporal_id, 0x07)` (line 578) before it looks whether there is one, and
  the program ends. `FrameMarkingWrite` gives `Aborted` for it, `WriteExtensions` of
  `RtpPackets` makes no such call, and `ExtensionRoundTrip` leaves these markings out.
* feclib: redundant packets are not reset between groups, and `poly[g]` is primitive
  only for g up to 7.
* `rtp_packet.cc:350`: promotion to two-byte headers leaves stale bytes between
  extensions with gaps; `RemoveExtension` drops the CSRCs and aborts (`RTC_CHECK`) on
  two-byte extensions when the map is not mixed, though `rtp_packet.h:96` says that
  others are preserved as they are; `SetCsrcs` after an unknown profile misplaces it.
* `CopyAndZeroMutableExtensions` zeroes six bytes of a timing whatever its length.
* `RtpHeaderParser` sees no two-byte extensions and nothing behind a value of the wrong
  length.
* M85: `keyframe_in_process_` is set after the minimum was chosen from it
  (`ulpfec_generator_85.cc:116`), and the decoder is not patched for one SSRC: any FEC
  packet far from the media numbers resets it.
* `AppendData` of nothing to a buffer without a block makes a block of capacity 0,
  against `rtc_base/copy_on_write_buffer.h:250`; `operator==` takes a buffer without a
  block and one with an empty block for different.
* `test.cpp:115` copies its line into a temporary; `SetPayloadSize(1000)` on a capacity
  of 1000 fails, so the packets of the driver have no payload.
* `netCat.go:147` says "every second"; the window is more than four seconds, and a mark
  outside the picture is not seen. If the device cannot be opened the program ends
  before the picture is saved.

## Proofs

All theorems hold for every value of the constants that satisfies the named
assumptions of the modules: number spaces, windows, groups, streams, delays and
budgets of faults of any size.

**NackGenerator** (an even number space, `MaxNackPackets < MaxPacketAge < SeqMod / 2`,
at least one request). `GeneratorTypes`, `GeneratorListBounded`, `GeneratorListWindow` and
`GeneratorRetriesNeverReset` are the safety properties of `nack_generator`;
`SeqLowerThanTotal`: of two different numbers exactly one is before the other.
The inductive invariant `IInv` is `TypeOK /\ ListBounded /\ ListWindow /\
EmptyUntilStarted`. The bound needs the types (to count a gap), the window needs
the bound (the gap that was just listed is no longer than `MaxNackPackets`), and
`EmptyUntilStarted` is needed because the first packet sets `lastSeq` to
anything. Steps that only shrink the list share `ShrinkingList`; `ReceiveNewer`
rests on `AddPacketsTyped`, `GapCardinality` (a gap has no more members than its
length, by a surjection from an interval) and `GapPosition`. `RetriesNeverReset`
follows from the window: an entry that the purge removes is never one that the gap
puts back (`RelistedSurvives`), which is where `MaxPacketAge < SeqMod / 2` is used.

**NackTransport.** `TransportTypes` and `MeasurementsSound` need no hypothesis: an
answer on its way, and a probe that will be answered, can measure no more than what
is left of the longest round trip, because a number that comes round is measured
afresh (`ProbesTimed`).

The other results, `NewestIsFollowed`, `ListedAreMissing`, `RequestsHitLost` and
the refinement `StreamDelivered`, assume `TimelyNetwork`: data are carried, and
`MaxFaults + MaxDelay + 1 + MaxNackRetries * (MaxRtt + 1) + 2 * MaxDelay < SeqMod / 2`.
In words: until the last copy of a packet that was asked for as often as allowed
is gone, fewer than half the numbers have been used since. Without such a hypothesis
the properties are false, since after half a turn `SeqLowerThan` takes old for new.
With the code's numbers half the space is 32768 periods; 20 requests, a round trip
of 10 s and delays of 10 s leave room for more than 20000 losses. `MaxFaults` counts
the losses of the whole run, so the theorems speak of runs with so many; the run
`transport_wrap` satisfies the hypothesis, so it is not empty.

The inductive invariant `StreamInv` bounds ages in packets, since the sender sends
one in each period (`Ahead` is the last one of this period):

* `KeptNewest`: `pkt_map_` holds each of the last `SeqMod` packets;
* `LostCounted`: packets neither received nor on their way are no more than
  the faults, so that the receiver is at most `MaxBehind` packets behind the sender
  (lemma `Behind`);
* `DataTimely`: data on their way were asked for and are of bounded age, or were sent
  for the first time, and then are no older than their time on the way;
* `NacksTimely`: a number in a request is that of an overtaken packet of bounded age;
* `ListTimely`: an entry of the list stands for a missing packet whose age is at most
  `MaxBehind` and what its retries and its own age account for (`Waited`), because an
  entry is due after at most `MaxRtt` periods;
* `LastSeqIsNewest`, and the types.

These need each other: the age of a retransmission comes from the request, that of a
request from the list, that of an entry from how far the receiver is behind, and
that from the data on their way. `HandlerStep` says once what a handler may do to the
network; `ReceivedIs` turns the wrapped comparison of numbers into one of packets
(`LowerIs`, `DistIs`, `GapIs`). For the refinement `StatusFacts` restates the status of a
packet by `sent`, `got` and `Listed`, and each action is shown to be one of
`StreamDelivery` or a stutter: a packet of the past takes nothing but itself off the
list (`ListedBelow`), a newer one lists only packets behind it and ahead of the last
newest (`ListedAbove`), so that what was dropped stays so.

**NackPack, WireFormats.** `RequestsAreExact`: a request stands for numbers of the batch
only, the lowest ones, all of them unless the message is full, in items that do not
overlap, and no choice of items is shorter. `ItemPids` describes the starts of the
items without recursion, by what the loop ensures: a number starts an item unless the
mask of an earlier start takes it. That there is exactly one such set, and that each of
its members is matched by one of any other cover, is proved from least counterexamples.
`NumbersAreOrdered`: `IsNewer` and the other comparisons and `Unwrapper` agree for every even number
space. `HeadersReadBack`: the mask, the sizes and the fields of a FEC header are read back as
they were written, for every mask of 2 or 6 bytes and every kind of header, and nothing of the
payload behind it (`PayloadAssumption`: a payload is no bit). FlexFEC puts bits of its own between those of the
mask (`FlexfecBits`), so that a reader that takes one of them for the mask, or stops too early,
would be found in `FlexfecReads` and `FlexfecPayload`. All three are about `SampleSpec`: one input of
the kind in each state.

**FecGenerator.** `GroupsRecovered`, `NoRepeatsInOrder`, `WrongOnlyWhenLate`. The invariant
`FecIInv` separates the two lives of a group: before a recovery every marked slot holds its own block
(`Sound`) and every marked raw block was delivered (`Untouched`); after one all raw blocks were, and the
slots are not spoken of. `OneRecovery` says that a second recovery comes with a
repeated delivery, and `NetOrdered` with `InOrder` that on an ordered network the blocks still to
come are not before those that have.

**FecTransport.** `StreamIsAccounted`, where `ShortStreams` holds: a stream fits the window
of NackGenerator and less than half the numbers, and does not wrap around (`StreamAccounted` compares
numbers as they are; streams that wrap around are the subject of `NackTransport`). The code's
numbers allow 1000 packets from anywhere in the first turn; `MCFecTransport` assumes
`ShortStreams`, so that TLC finds it true of the run. The invariant `TransportInv` has four parts.
`EncoderOK` and `WireOK`: what is on its way is a packet or a block that was sent (`SentBlock`), or a
request for such a number. `ViewOK`: what was given and what is listed are disjoint numbers up to
`lastSeq`, which together with the abandoned ones leave out none. `DecoderOK`: the group of the
decoder is `Pending`, and then its counters are right and what is marked was given, or
`Complete`. A complete group whose recovery raised the counter of the raw blocks to `FecK` must
not be recovered again, over buffers that were overwritten. That this does not happen although blocks
come late and twice is due to what `fec_encode_callback` lets out: of an even
group no raw block, and of an odd one a single redundant block, so that at most one raw
block is still to come (`OneIsMissing`). Hence nothing is garbage, and each decoded packet
reaches `NackGenerator` under a number of the stream (`BlockBrings`, `ViewKeepsAll`).

**FlexfecTransport** (an even number space, at most 255 for a rate, and
`MaskTablesAssumption`: every row of a mask table has bits for the packets of its group
only, which TLC evaluates on the tables of the code). All four results assume
`ShortStreams`: a stream and its FEC packets use less than half the numbers, since
`IsNewer` orders no more than that; and where the receiver of M85 takes the RED header
of a FEC packet for its mask, what it reads there is too long to be rebuilt.

* `RecoveredPacketsTrue`: whatever is handed on is the packet that was sent under its
  number.
* `DecoderListsSorted`: the order and the bounds of the decoder's lists.
* `FramesProtected`, where `GroupsProtected` holds: a group is no longer than the largest
  mask, every setting has a rate and a number of frames above zero, and FEC packets
  are not taken after every media packet, unless by M85. The last is what the run
  `flexfec_driver` shows to be needed: taking them resets the generator of the
  patched source.
* `ForgetsOnlyForRoom`, where `OwnNumbers` holds: in M85 the FEC packets have their own
  SSRC or the stream fits in the list.

The run `flexfec` satisfies the hypotheses of all four. The invariant `TransportInv` is
relative to the stream so far (`Stream`: the numbers sent, the next numbers, and `age`,
how far back packets go). `age` is twice the packets sent less those of the open group:
a group makes at most one FEC packet for each of its packets (`NumFecIs`), and those of
the open group are still owed. `SenderOK` says that the packets of the open group follow
each other (`GroupOK`, `GroupEnds`), because a FEC packet names the packets it protects by
their distance from the first (`DistancesAre`, `PayloadIs`). `ReceiverOK` says of every
packet on its way, in the queue or in the decoder that it is a packet of the stream, and of
a FEC packet that its data are the exclusive or of the packets whose numbers its mask
names (`Protects`), or those of a misread packet. `DecSound` adds that a FEC packet knows
every packet that it protects and that the decoder has; without it the
recovery could insert a packet twice. Then what is left of a FEC packet when all but
one are taken out is that one (`RecoverIs`), and each turn of `AttemptRecovery` keeps the
order, by the position at which `Sorted` inserts (`SortedIs`, `SortedKeeps`). `Kept` says
what a step of the decoder may forget; loops over the list and the queue are run by
`IterationExists` and `IterationStays`. `FramesCounted` (the generator counts the
frames without FEC packets) and `Arrivals` (media packets in the queue have
arrived) strengthen the invariant for the last two results.

**CopyOnWriteBuffer.** `SharingIsNotSeen`: what each handle shows is what it would show
if nothing was shared. `BufferIInv` adds to the property that the reference count of a
block is the number of handles on it, which is what makes writing in place right.

**RateStatistics** (a window of at least one millisecond, counts and times from 0 on).
`RatesAreExact`: the ring, its sum and its number of samples are those of the samples in
the window, and `EraseOld` before a call changes nothing about the rate the call returns, if
the clock does not go back between them. The invariant `RingOK` adds that no sample is newer than
the ring has buckets for. Without it `EraseOld`, which stops when nothing is counted any
more and then sets the time, could leave a sample in a bucket that later stands for
another time (`DropKeeps`, `ShiftEmpty`, `EraseKeeps`), and `Update` could put one into
the bucket of another time (`AddKeeps`). It also gives the second half: a rate depends on the
beginning of the window and the samples in it only (`SameRate`). That sums over a
sequence split and grow as one expects is proved from a function that adds
them up (`SumIs`, `SumAppended`, `SumSplit`), which `IterationExists` provides.

**BandwidthMonitor.** `MonitorCountsExactly`. `MonitorIInv` says what the counter is at each
pair of program positions: mutual exclusion, and which part of the sum is still in
the registers of the goroutine.

**How.** Facts of data that need induction (least elements, ascending sequences,
remainders) are in `NumberFacts`, each reduced to a least counterexample
in `Nat` or among finite sets. A bag, a map or a message is described by its members,
never by the order it was built in.

Only model-checked: liveness (`LossesSettle`, `GapsRecovered`, `DecodeReturns`), which
needs fairness; the codecs, tables, masks and readers, which are recursive or
computations over fixed tables;
`AllRecovered` and `RecoveredOnce` of FlexFEC, which compare the decoder with a closure
(`Peeled`) computed by recursion; the packets of RTP.

## Not modelled

* the error code of the asio handlers, endpoints, and the byte order of the demos;
* `collect_packet` and `decode_fec_group` of the fec-test receiver (the call is
  commented out);
* `ShiftFitSubMask` (a mode that nothing chooses) and the dependency descriptor (its
  reader and writer are not in the repository);
* the lock that `UlpfecReceiverImpl` gives up during callbacks: one thread calls it;
* the clock of feclib's `SendWithDelay`, headers that change its parameters, and
  `crcgen.c` of rscode;
* `TotalFlowByDevice` of the simulator, whose result is not used, and its calls of `tc`,
  commented out but for the last;
* asio, abseil and the rest of WebRTC's base: third-party code without a part in these
  properties.

## Plan

1. Done: nack-test with proofs of its generator; fec-test with its codec; WebRTC's FEC,
   RTP packets and buffers; feclib, rscode and the bandwidth monitor.
2. Done: proofs of nack-test with the refinement of `StreamDelivery`, of the packing,
   of `FECGenerator`, of the shared buffers and of the monitor.
3. Done: proofs of what WebRTC's FEC hands on and forgets, of the order of its lists and
   of the frames without protection; of the transport of fec-test; of the FEC headers;
   of the ring of `RateStatistics`.
4. Proofs to add: what the decoder of FlexFEC recovers (`RecoveredOnce`, `AllRecovered`).
