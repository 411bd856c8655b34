-------------------------- MODULE FlexfecTransport --------------------------
(***************************************************************************)
(* FEC from end to end: UlpfecGenerator and FlexfecSender protect a media  *)
(* stream, the network loses, reorders and duplicates packets, and         *)
(* FlexfecReceiver, or UlpfecReceiverImpl when red is true, hands on what  *)
(* ForwardErrorCorrection recovers.                                        *)
(*                                                                         *)
(* With FlexFEC the FEC packets have sequence numbers of their own and the *)
(* media packets reach the application without the receiver.  With ULPFEC  *)
(* both are wrapped in RED packets of one sequence, and the receiver hands *)
(* on the media packets too.  mode tells these apart, and also             *)
(*   oneSsrc: media and FEC packets share an SSRC, as in test.cpp;         *)
(*   rtc85: the sources named _85 are built (USE_RTC85), that came with    *)
(*     WebRTC M85, take parameters for key frames and delta frames, and do *)
(*     not have the repository's changes for one SSRC;                     *)
(*   eager: GetFecPackets is called after every media packet, as test.cpp  *)
(*     does; other callers ask FecAvailable first;                         *)
(*   whole: the decoder of M85 gets what its receivers give it.  They ask  *)
(*     for a slice of the packet, but CopyOnWriteBuffer::Slice sets two    *)
(*     fields that nothing reads, and the slice is the whole packet.  When *)
(*     it is false the decoder is given the payload itself.                *)
(*                                                                         *)
(* A media packet may also come by retransmission, with recovered() set.   *)
(***************************************************************************)
EXTENDS ForwardErrorCorrection85, SortedSets

CONSTANTS
  MinMediaPackets,   \* kMinMediaPackets, 4
  Params,            \* settings: records of rate, frames and maskType
  MaxQueue,          \* bound: packets that wait for ProcessReceivedFec
  Starts,            \* first sequence numbers: records of media and fec
  RedBits,           \* what the RED header looks like to those who take it for a mask
  Modes              \* records of red, oneSsrc, rtc85, eager, whole, and of the bounds
                     \* maxIds on the media packets sent and maxCopies on those that
                     \* are duplicated, and of anew, the number of media packets
                     \* after which the FlexfecSender may be replaced

ASSUME FlexfecAssumption ==
  /\ MinMediaPackets \in Nat
  /\ \A p \in Params : p.rate \in 0 .. 255 /\ p.frames \in Nat
  /\ MaxQueue \in Nat /\ RedBits \subseteq Nat
  /\ Starts \subseteq [media : 0 .. SeqSpace - 1, fec : 0 .. SeqSpace - 1]
  /\ Modes \subseteq [red : BOOLEAN, oneSsrc : BOOLEAN, rtc85 : BOOLEAN, eager : BOOLEAN,
                      whole : BOOLEAN, maxIds : Nat, maxCopies : Nat, anew : Nat]

VARIABLES
  mode,        \* constant
  gen,         \* UlpfecGenerator: media_packets_, num_protected_frames_,
               \* params_, min_num_media_packets_, generated_fec_packets_,
               \* new, the parameters for delta and key frames that were set,
               \* and in M85 pending, whether they are still to be applied,
               \* current and key, keyframe_in_process_
  nextSeqs,        \* next sequence numbers of media and of FEC packets
  sent,        \* history: the sequence numbers of the media packets sent
  unprotected, \* frames sent since the last FEC packets
  net,         \* packets on their way; a lost one never arrives
  copies,      \* packets duplicated so far
  queue,       \* received_packets_ of UlpfecReceiverImpl
  dec,         \* the decoder of the receiver
  out,         \* what the receiver handed on, in order
  arrived      \* history: packets that reached the decoder

sendVars == <<gen, nextSeqs, sent, unprotected>>
recvVars == <<queue, dec, out, arrived>>
vars == <<mode, gen, nextSeqs, sent, unprotected, net, copies, queue, dec, out, arrived>>

-----------------------------------------------------------------------------
(* The generator.                                                          *)

MinFor(rate) == IF rate > 80 THEN MinMediaPackets ELSE 1

\* SetFecParameters: applied when the next group of packets begins.
SetFecParameters(p) ==
  /\ ~mode.rtc85
  /\ gen' = [gen EXCEPT !.new = [delta |-> p, key |-> p], !.min = MinFor(p.rate)]

\* SetProtectionParameters of M85.
SetProtectionParameters(delta, key) ==
  /\ mode.rtc85
  /\ gen' = [gen EXCEPT !.new = [delta |-> delta, key |-> key], !.pending = TRUE]

SetParameters ==
  /\ \E p, q \in Params : SetFecParameters(p) \/ SetProtectionParameters(p, q)
  /\ gen' # gen /\ Len(sent) < mode.maxIds
  /\ UNCHANGED <<mode, nextSeqs, sent, unprotected, net, copies, recvVars>>

\* A generator, to which its owner gives parameters before the first packet.
NewGenerator(p) ==
  LET both == [delta |-> p, key |-> p]
  IN  [media |-> <<>>, frames |-> 0, params |-> p, min |-> MinFor(p.rate),
       generated |-> <<>>, new |-> both, pending |-> FALSE, current |-> both, key |-> FALSE]
NewGenerator85(p) == [NewGenerator(p) EXCEPT !.pending = TRUE]

\* Overhead, in Q8; ExcessOverheadBelowMax; MinimumMediaPacketsReached.
Overhead(g) == (NumFecPackets(Len(g.media), g.params.rate) * 256) \div Len(g.media)
ExcessOverheadBelowMax(g) == Overhead(g) - g.params.rate < 50
MinimumMediaPacketsReached(g) ==
  Len(g.media) >= IF Len(g.media) < 2 * g.frames THEN g.min ELSE g.min + 1

\* ResetState of the generator.
ResetGenerator(g) == [g EXCEPT !.media = <<>>, !.frames = 0, !.generated = <<>>]

\* A group begins: the parameters that were set last apply.
Begun(g) == IF g.media = <<>> THEN [g EXCEPT !.params = g.new.delta] ELSE g

\* In M85 the minimum is chosen before keyframe_in_process_ is, for the kind of
\* frame that the last group had, and only if parameters were set.
CurrentParams(g) == IF g.key THEN g.current.key ELSE g.current.delta
Begun85(g, isKey) ==
  LET applied == IF g.pending THEN [g EXCEPT !.current = g.new, !.pending = FALSE] ELSE g
      minimum == IF g.pending
                   THEN [applied EXCEPT !.min = MinFor(CurrentParams(applied).rate)]
                   ELSE applied
      keyed   == [minimum EXCEPT !.key = isKey]
  IN  IF g.media = <<>> THEN [keyed EXCEPT !.params = CurrentParams(keyed)] ELSE g

Overhead85(g) ==
  (NumFecPackets85(Len(g.media), CurrentParams(g).rate) * 256) \div Len(g.media)
ExcessOverheadBelowMax85(g) == Overhead85(g) - CurrentParams(g).rate < 50
MinimumMediaPacketsReached85(g) == MinimumMediaPacketsReached(g)
ResetGenerator85(g) == [g EXCEPT !.media = <<>>, !.frames = 0, !.generated = <<>>]

\* The packet is stored while there is room, and a frame ends at the marker.
Stored(g, seq, id) ==
  IF Len(g.media) < MaxMediaPackets
    THEN [g EXCEPT !.media = Append(@, [seq |-> seq, id |-> id])] ELSE g

\* Mutant: the frames are not counted.
MutantFramesKept(g, marker) == IF marker THEN [g EXCEPT !.frames = 1] ELSE g
Framed(g, marker) == IF marker THEN [g EXCEPT !.frames = @ + 1] ELSE g

\* FEC packets are generated when a frame is complete, after so many frames or
\* as soon as they are worth it.
Generated(g, marker) ==
  LET due == /\ marker
             /\ \/ g.frames = g.params.frames
                \/ ExcessOverheadBelowMax(g) /\ MinimumMediaPacketsReached(g)
      fec == EncodeFec(g.media, g.params.rate, g.params.maskType)
  IN  IF ~due THEN g
      ELSE IF fec = <<>> THEN ResetGenerator(g)
      ELSE [g EXCEPT !.generated = fec]

Generated85(g, marker) ==
  LET now == CurrentParams(g)
      due == /\ marker
             /\ \/ g.frames = now.frames
                \/ ExcessOverheadBelowMax85(g) /\ MinimumMediaPacketsReached85(g)
      fec == EncodeFec85(g.media, now.rate, now.maskType)
  IN  IF ~due THEN g
      ELSE IF fec = <<>> THEN ResetGenerator85(g)
      ELSE [g EXCEPT !.generated = fec]

AddRtpPacketAndGenerateFec(g, seq, id, marker) ==
  Generated(Framed(Stored(Begun(g), seq, id), marker), marker)
AddPacketAndGenerateFec(g, seq, id, marker, isKey) ==
  Generated85(Framed(Stored(Begun85(g, isKey), seq, id), marker), marker)

\* The FEC packets, numbered from firstSeq on.
FecPackets(g, firstSeq) ==
  {[isFec |-> TRUE, ssrc |-> IF mode.oneSsrc \/ mode.red THEN "media" ELSE "fec",
    seq |-> (firstSeq + i - 1) % SeqSpace, base |-> g.generated[i].base,
    mask |-> g.generated[i].mask, data |-> g.generated[i].data] :
     i \in 1 .. Len(g.generated)}

\* GetFecPackets and GetUlpfecPacketsAsRed start over, whether there were FEC
\* packets or not; in M85 only when there were any, for FlexFEC as for ULPFEC.
GetFecPackets(g) == ResetGenerator(g)
GetUlpfecPacketsAsRed(g) == ResetGenerator(g)
GetFecPackets85(g) == IF g.generated = <<>> THEN g ELSE ResetGenerator85(g)
GetUlpfecPackets85(g) == IF g.generated = <<>> THEN g ELSE ResetGenerator85(g)

\* The generator after its FEC packets were taken.
Taken(g) ==
  CASE mode.red /\ mode.rtc85 -> GetUlpfecPackets85(g)
    [] mode.red /\ ~mode.rtc85 -> GetUlpfecPacketsAsRed(g)
    [] ~mode.red /\ mode.rtc85 -> GetFecPackets85(g)
    [] ~mode.red /\ ~mode.rtc85 -> GetFecPackets(g)

\* A media packet goes out, with the FEC packets that it completes.  The packets
\* of a group are all of key frames or all of delta frames.
SendMedia(marker, isKey) ==
  LET id      == Len(sent) + 1
      media   == [isFec |-> FALSE, ssrc |-> "media", seq |-> nextSeqs.media, data |-> {id}]
      added   == IF mode.rtc85
                   THEN AddPacketAndGenerateFec(gen, nextSeqs.media, id, marker, isKey)
                   ELSE AddRtpPacketAndGenerateFec(gen, nextSeqs.media, id, marker)
      taken   == mode.eager \/ added.generated # <<>>
      nextSeq == (nextSeqs.media + 1) % SeqSpace
      n       == Len(added.generated)
      fecs    == FecPackets(added, IF mode.red THEN nextSeq ELSE nextSeqs.fec)
  IN  /\ Len(sent) < mode.maxIds
      /\ isKey => mode.rtc85 /\ (gen.media = <<>> \/ gen.key)
      /\ ~isKey => gen.media = <<>> \/ ~gen.key
      /\ sent' = Append(sent, nextSeqs.media)
      /\ gen' = IF taken THEN Taken(added) ELSE added
      /\ nextSeqs' = IF mode.red THEN [nextSeqs EXCEPT !.media = (nextSeq + n) % SeqSpace]
                 ELSE [media |-> nextSeq, fec |-> (nextSeqs.fec + n) % SeqSpace]
      /\ unprotected' = IF n > 0 THEN 0 ELSE IF marker THEN unprotected + 1 ELSE unprotected
      /\ net' = net \cup fecs \cup {media}
      /\ UNCHANGED <<mode, copies, recvVars>>

\* The state that a FlexfecSender leaves to the one that takes its place.
GetRtpState == nextSeqs.fec
GetRtpState85 == nextSeqs.fec

\* The constructor of FlexfecSender: its FEC packets go on from that number, and
\* the packets of an unfinished group are forgotten.
FlexfecSender(p, rtpState) ==
  ~mode.rtc85 /\ gen' = NewGenerator(p) /\ nextSeqs' = [nextSeqs EXCEPT !.fec = rtpState]
FlexfecSender85(p, rtpState) ==
  mode.rtc85 /\ gen' = NewGenerator85(p) /\ nextSeqs' = [nextSeqs EXCEPT !.fec = rtpState]

RecreateSender ==
  /\ ~mode.red /\ Len(sent) = mode.anew
  /\ \E p \in Params : FlexfecSender(p, GetRtpState) \/ FlexfecSender85(p, GetRtpState85)
  /\ unprotected' = 0
  /\ UNCHANGED <<mode, sent, net, copies, recvVars>>

-----------------------------------------------------------------------------
(* The receivers.                                                          *)

\* The recovered packets that are handed on now, in the order of the list, and
\* the decoder that remembers it.
NotReturned(d) ==
  LET new == Ascending({i \in 1 .. Len(d.recovered) : ~d.recovered[i].returned})
  IN  [i \in DOMAIN new |-> d.recovered[new[i]]]

\* Mutant: the flag is not set.
MutantNotReturned(d) == d

AllReturned(d) ==
  [d EXCEPT !.recovered = [i \in DOMAIN @ |-> [@[i] EXCEPT !.returned = TRUE]]]

Handed(p, how) == [seq |-> p.seq, data |-> p.data, how |-> how]
HandedOn(d) ==
  LET new == NotReturned(d)
  IN  [i \in DOMAIN new |-> Handed(new[i], "recovered")]

\* FlexfecReceiver::OnRtpPacket: the packet is decoded, and what it recovers is
\* handed on.  A packet that came by retransmission is left to the application.
Processed(decoded) ==
  /\ dec' = AllReturned(decoded)
  /\ out' = out \o HandedOn(decoded)
  /\ UNCHANGED queue

OnRtpPacket(p, recovered) ==
  /\ ~mode.red /\ ~mode.rtc85
  /\ IF recovered THEN UNCHANGED <<queue, dec, out>> ELSE Processed(DecodeFec(dec, p))

\* What the header reader of M85 makes of a FEC packet that comes with its RTP
\* header.  The first bit of that is set, which FlexFEC refuses, as it refuses a
\* mask without a bit.  ULPFEC takes the sequence number of the packet for the
\* base and the RED header for the mask.
NoPacket == {0}
Sliced(p) ==
  IF ~p.isFec \/ ~mode.whole THEN p
  ELSE IF mode.red THEN [p EXCEPT !.base = p.seq, !.mask = RedBits, !.data = NoPacket]
  ELSE [p EXCEPT !.mask = {}]

OnRtpPacket85(p, recovered) ==
  /\ ~mode.red /\ mode.rtc85
  /\ IF recovered THEN UNCHANGED <<queue, dec, out>> ELSE Processed(DecodeFec85(dec, Sliced(p)))

\* AddReceivedRedPacket: the packet waits for ProcessReceivedFec, in M85 with
\* its flag.
Queued(p, recovered) ==
  /\ Len(queue) < MaxQueue
  /\ queue' = Append(queue, [packet |-> p, recovered |-> recovered])
  /\ UNCHANGED <<dec, out>>

AddReceivedRedPacket(p) == mode.red /\ ~mode.rtc85 /\ Queued(p, FALSE)
AddReceivedRedPacket85(p, recovered) ==
  mode.red /\ mode.rtc85 /\ Queued(Sliced(p), recovered)

\* UlpfecReceiverImpl::ProcessReceivedFec: every media packet in the queue is
\* handed on before Decode gets it, the recovered ones after the last.
Processing(Decode(_, _)) ==
  LET after[n \in 0 .. Len(queue)] ==
        IF n = 0 THEN [d |-> dec, out |-> out]
        ELSE LET before == after[n - 1]
                 q      == queue[n]
             IN  [d |-> Decode(before.d, q),
                  out |-> IF q.packet.isFec THEN before.out
                          ELSE Append(before.out, Handed(q.packet, "received"))]
      end == after[Len(queue)]
  IN  /\ queue # <<>>
      /\ queue' = <<>>
      /\ dec' = AllReturned(end.d)
      /\ out' = end.out \o HandedOn(end.d)
      /\ UNCHANGED <<mode, sendVars, net, copies, arrived>>

ProcessReceivedFec ==
  /\ ~mode.rtc85
  /\ LET Decode(d, q) == DecodeFec(d, q.packet) IN Processing(Decode)

\* In M85 a packet that came by retransmission is handed on and not decoded.
ProcessReceivedFec85 ==
  /\ mode.rtc85
  /\ LET Decode(d, q) == IF q.recovered THEN d ELSE DecodeFec85(d, q.packet)
     IN  Processing(Decode)

\* A packet reaches the receiver; the network may keep a copy, and a copy of a
\* media packet may come by retransmission, where the receiver looks at that.
Receive(p, copy, recovered) ==
  /\ recovered => copy /\ ~p.isFec /\ (mode.rtc85 \/ ~mode.red)
  /\ \/ OnRtpPacket(p, recovered) \/ OnRtpPacket85(p, recovered)
     \/ AddReceivedRedPacket(p) \/ AddReceivedRedPacket85(p, recovered)
  /\ net' = IF copy THEN net ELSE net \ {p}
  /\ copies' = IF copy THEN copies + 1 ELSE copies
  /\ copies' <= mode.maxCopies
  /\ arrived' = IF recovered THEN arrived ELSE arrived \cup {p}
  /\ UNCHANGED <<mode, sendVars>>

-----------------------------------------------------------------------------
Init ==
  /\ mode \in Modes
  /\ \E p \in Params : gen = IF mode.rtc85 THEN NewGenerator85(p) ELSE NewGenerator(p)
  /\ nextSeqs \in Starts
  /\ sent = <<>> /\ unprotected = 0
  /\ net = {} /\ copies = 0
  /\ queue = <<>> /\ dec = EmptyDecoder /\ out = <<>> /\ arrived = {}

Next ==
  \/ SetParameters
  \/ RecreateSender
  \/ \E marker, isKey \in BOOLEAN : SendMedia(marker, isKey)
  \/ \E p \in net, copy, recovered \in BOOLEAN : Receive(p, copy, recovered)
  \/ ProcessReceivedFec
  \/ ProcessReceivedFec85

Spec == Init /\ [][Next]_vars

-----------------------------------------------------------------------------
(* Properties.                                                             *)

Media(packets) == {p \in packets : ~p.isFec}
Fecs(packets) == packets \ Media(packets)

\* Whatever was lost, repeated or reordered, a packet that the receivers hand on
\* as recovered is the media packet that was sent under its number, and none of
\* the packets that are too long to be rebuilt (RecoverPacket,
\* forward_error_correction.cc:628).
RecoveredTrue ==
  \A i \in DOMAIN out :
    \E id \in DOMAIN sent :
      /\ out[i].data = {id} /\ out[i].seq = sent[id]
      /\ out[i].how = "recovered" => id \notin BigIds

\* The packets that the XOR equations of the FEC packets give away one at a
\* time, starting from the media packets that arrived.
Peeled(packets) ==
  LET media == UNION {p.data : p \in Media(packets)}
      more[n \in 0 .. mode.maxIds] ==
        IF n = 0 THEN media
        ELSE LET known == more[n - 1]
             IN  known \cup UNION {f.data \ known :
                                     f \in {g \in Fecs(packets) : Cardinality(g.data \ known) = 1}}
  IN  more[mode.maxIds]

\* The media packets that the decoder has or computes fit in its list, and none
\* is far enough from another to reset it.
HasRoom(packets) ==
  LET peeled == Peeled(packets)
  IN  /\ Cardinality(peeled) <= MaxMediaPackets
      /\ \A x, y \in peeled : MinDiff(sent[x], sent[y], SeqSpace) <= MaxMediaPackets

\* As long as the two lists of the decoder have room, every packet that can be
\* computed has been handed on or has arrived, in whatever order the media and
\* the FEC packets came, and the FEC packets that are kept still miss two
\* packets.
Recovery ==
  LET peeled == Peeled(arrived)
      had    == UNION {p.data : p \in Media(arrived)} \cup UNION {out[i].data : i \in DOMAIN out}
      room   == HasRoom(arrived) /\ Cardinality(Fecs(arrived)) <= MaxFecPackets
  IN  queue = <<>> /\ peeled \cap BigIds = {} /\ room
      => /\ peeled \subseteq had
         /\ \A i \in DOMAIN dec.fecs : Cardinality(CoveredMissing(dec.fecs[i])) > 1

\* The decoder recovers everything it can (AttemptRecovery,
\* forward_error_correction.cc:649), in M85 if it is given the payload.
AllRecovered == mode.whole \/ Recovery

\* "Insert packet payload into erasure code", flexfec_receiver_85.cc:109: the
\* receivers of M85 recover what the payload of the FEC packets gives away.
PayloadInserted == mode.rtc85 => Recovery

\* Both lists of the decoder stay in the order of the sequence numbers, also
\* across the wrap-around, without repeats: discarding from the front discards
\* the oldest (forward_error_correction.cc:383, :461, :679), and neither is
\* longer than its bound; the generator keeps no more media packets either.
ListsSorted ==
  /\ Len(dec.recovered) <= MaxMediaPackets /\ Len(dec.fecs) <= MaxFecPackets
  /\ Len(gen.media) <= MaxMediaPackets
  /\ \A i, j \in DOMAIN dec.recovered :
       i < j => LessThan(dec.recovered[i], dec.recovered[j])
  /\ \A i, j \in DOMAIN dec.fecs : i < j => LessThan(dec.fecs[i], dec.fecs[j])

\* The decoder forgets media packets when its list is full, or when a media
\* packet comes from far away; a FEC packet, that has a sequence number of its
\* own, never makes it start over (forward_error_correction.cc:748).
ForgetsForRoom ==
  [][Seqs(dec.recovered) \subseteq Seqs(dec'.recovered)
     \/ Len(dec'.recovered) = MaxMediaPackets
     \/ (\E p \in Media(arrived') :
           \E id \in DOMAIN sent : MinDiff(p.seq, sent[id], SeqSpace) > MaxMediaPackets)]_vars

\* FlexfecReceiver hands on as recovered only what neither arrived nor was
\* recovered before, while the decoder has room to remember it
\* (flexfec_receiver.cc:157).
RecoveredOnce ==
  [][\A i \in Len(out) + 1 .. Len(out') :
       ~mode.red /\ HasRoom(arrived') =>
         /\ out'[i].data \notin {p.data : p \in Media(arrived)}
         /\ \A j \in 1 .. i - 1 : out'[j].seq # out'[i].seq]_vars

\* FEC packets follow once max_fec_frames frames have been sent
\* (ulpfec_generator.cc:162), whatever parameters are set meanwhile.
FramesBounded == unprotected < gen.params.frames
=============================================================================
