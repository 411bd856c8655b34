----------------------- MODULE ForwardErrorCorrection -----------------------
(***************************************************************************)
(* The erasure code of WebRTC: class ForwardErrorCorrection of             *)
(* forward_error_correction.cc, as the repository patched it for media and *)
(* FEC packets of one SSRC.                                                *)
(*                                                                         *)
(* The bytes of a packet, its length included, are abstracted to the set   *)
(* of the media packets whose XOR they are: {id} for a media packet, the   *)
(* symmetric difference of the protected packets for a FEC packet.  A      *)
(* packet with a number in BigIds is longer than IP_PACKET_SIZE less a     *)
(* header, and FinishPacketRecovery refuses to recover it.                 *)
(*                                                                         *)
(* A decoder is a record: recovered, the list recovered_packets of media   *)
(* packets received or recovered, and fecs, the list received_fec_packets_ *)
(* where known maps the protected packets that are there to their data.    *)
(* Both lists are sorted by sequence number.                               *)
(***************************************************************************)
EXTENDS PacketMask, WrapNumbers

CONSTANTS
  SeqSpace,          \* sequence numbers, 65536
  MaxMediaPackets,   \* MaxMediaPackets() of the header reader, 48
  MaxFecPackets,     \* MaxFecPackets() of the header reader, 48
  BigIds             \* media packets too long to be recovered; 0 among them if the
                     \* length that NoPacket is read with is too large as well

ASSUME FecCodeAssumption ==
  /\ SeqSpace \in Nat \ {0} /\ SeqSpace % 4 = 0
  /\ MaxMediaPackets \in Nat \ {0} /\ MaxFecPackets \in Nat \ {0}

LessThan(p, q) == IsNewer(q.seq, p.seq, SeqSpace)

\* Mutant: no sort.
MutantUnsorted(list, p) == Append(list, p)

\* push_back and sort: the packet at i is the one that i - 1 others are before.
Sorted(list, p) ==
  LET all == Append(list, p)
      n   == Len(all)
  IN  [i \in 1 .. n |->
         CHOOSE q \in {all[k] : k \in 1 .. n} :
           Cardinality({m \in 1 .. n : LessThan(all[m], q)}) = i - 1]

\* The XOR of the data of S.
Xor(data, S) ==
  {id \in UNION {data[s] : s \in S} :
     Cardinality({s \in S : id \in data[s]}) % 2 = 1}

-----------------------------------------------------------------------------
(* Encoding.  A media packet of the encoder is [seq, id].                  *)

\* How far each media packet is from the first.
Distances(media) ==
  [i \in 1 .. Len(media) |-> ForwardDiff(media[1].seq, media[i].seq, SeqSpace)]

\* GenerateFecPayloads and FinalizeFecHeaders: for each row of the mask a FEC
\* packet that protects the packets whose bits are set.
GenerateFecPayloads(media, masks) ==
  LET dist == Distances(media)
      inRow(row) == {i \in 1 .. Len(media) : masks[row][dist[i]] = 1}
  IN  [row \in DOMAIN masks |->
         [base |-> media[1].seq, mask |-> Protected(masks[row]),
          data |-> Xor([i \in 1 .. Len(media) |-> {media[i].id}], inRow(row))]]

EncodeFec(media, rate, maskType) ==
  GenerateFecPayloads(media, EncodeMasks(Distances(media), rate, 0, FALSE, maskType))

-----------------------------------------------------------------------------
(* Decoding.  A received packet is [isFec, ssrc, seq, data], and a FEC     *)
(* packet has a base and a mask besides.  The SSRC is "media", also for FEC *)
(* packets that share the SSRC of the media, or "fec".                     *)

EmptyDecoder == [recovered |-> <<>>, fecs |-> <<>>]
ResetState(d) == EmptyDecoder

Seqs(list) == {list[i].seq : i \in 1 .. Len(list)}

\* UpdateCoveringFecPackets.
UpdateCoveringFecPackets(fecs, p) ==
  [i \in DOMAIN fecs |->
     IF p.seq \in fecs[i].protects
       THEN [fecs[i] EXCEPT !.known = [s \in DOMAIN @ \cup {p.seq} |-> IF s = p.seq THEN p.data ELSE @[s]]]
       ELSE fecs[i]]

\* DiscardOldRecoveredPackets.
DiscardOldRecoveredPackets(list) ==
  SubSeq(list, 1 + (IF Len(list) > MaxMediaPackets THEN Len(list) - MaxMediaPackets ELSE 0),
         Len(list))

\* InsertMediaPacket: a packet that is already there is dropped.
InsertMediaPacket(d, p) ==
  IF p.seq \in Seqs(d.recovered) THEN d
  ELSE LET new == [seq |-> p.seq, data |-> p.data, returned |-> TRUE]
       IN  [recovered |-> Sorted(d.recovered, new),
            fecs |-> UpdateCoveringFecPackets(d.fecs, new)]

\* AssignRecoveredPackets: the protected packets that are there already.
AssignRecoveredPackets(recovered, protects) ==
  LET there == {i \in 1 .. Len(recovered) : recovered[i].seq \in protects}
  IN  [s \in {recovered[i].seq : i \in there} |->
         recovered[CHOOSE i \in there : recovered[i].seq = s].data]

\* InsertFecPacket: a duplicate or an all-zero mask is dropped, and the oldest
\* one makes room.
InsertFecPacket(d, p) ==
  LET protects == {(p.base + bit) % SeqSpace : bit \in p.mask}
      new      == [seq |-> p.seq, ssrc |-> p.ssrc, data |-> p.data, protects |-> protects,
                   known |-> AssignRecoveredPackets(d.recovered, protects)]
      fecs     == Sorted(d.fecs, new)
  IN  IF p.seq \in Seqs(d.fecs) \/ protects = {} THEN d
      ELSE [d EXCEPT !.fecs = IF Len(fecs) > MaxFecPackets THEN Tail(fecs) ELSE fecs]

\* The old FEC packets that InsertPacket erases, from the front of the list on.
Outdated(fecs, seq) ==
  LET far(i) == MinDiff(seq, fecs[i].seq, SeqSpace) > SeqSpace \div 4 - 1
  IN  {i \in 1 .. Len(fecs) : \A j \in 1 .. i : far(j)}

\* InsertPacket, where clears tells whether old FEC packets are erased first.
Inserted(d, p, clears) ==
  LET old     == IF clears THEN Outdated(d.fecs, p.seq) ELSE {}
      cleared == [d EXCEPT !.fecs = SubSeq(@, 1 + Cardinality(old), Len(@))]
      new     == IF p.isFec THEN InsertFecPacket(cleared, p)
                 ELSE InsertMediaPacket(cleared, p)
  IN  [new EXCEPT !.recovered = DiscardOldRecoveredPackets(@)]

\* Only a packet of the FEC packets' own SSRC clears, and, as the repository
\* patched it, only a FEC packet.
InsertPacket(d, p) ==
  Inserted(d, p, d.fecs # <<>> /\ p.ssrc = d.fecs[1].ssrc /\ p.isFec)

-----------------------------------------------------------------------------
(* Recovery.                                                               *)

\* The protected packets that are not there (NumCoveredPacketsMissing counts
\* them up to two).
CoveredMissing(fec) == fec.protects \ DOMAIN fec.known

\* Mutant: the XOR leaves the last packet out.
MutantRecoverPacket(fec) ==
  LET seq   == CHOOSE s \in CoveredMissing(fec) : TRUE
      data  == [s \in {seq} \cup DOMAIN fec.known |-> IF s = seq THEN fec.data ELSE fec.known[s]]
  IN  [seq |-> seq, data |-> Xor(data, {s \in DOMAIN data : s # (seq + 1) % SeqSpace}),
       returned |-> FALSE]

\* RecoverPacket: the XOR of the FEC packet with the protected packets.
RecoverPacket(fec) ==
  LET seq   == CHOOSE s \in CoveredMissing(fec) : TRUE
      data  == [s \in {seq} \cup DOMAIN fec.known |-> IF s = seq THEN fec.data ELSE fec.known[s]]
  IN  [seq |-> seq, data |-> Xor(data, DOMAIN data), returned |-> FALSE]

\* FinishPacketRecovery.
Recovers(p) == p.data \cap BigIds = {}

\* Mutant: the search goes on after a recovery instead of starting over.
MutantNoRestart(i) == i

\* Where the search goes on after a recovery at position i.
Restart(i) == 1

\* One turn of the loop in AttemptRecovery, for the FEC packet at position i: a
\* packet that recovers one is erased and the search starts over.
AttemptAt(Recovered(_), s) ==
  IF s.i > Len(s.d.fecs) THEN s
  ELSE
  LET fec     == s.d.fecs[s.i]
      p       == Recovered(fec)
      erased  == RemoveAt(s.d.fecs, s.i)
      covered == RemoveAt(UpdateCoveringFecPackets(s.d.fecs, p), s.i)
      missing == Cardinality(CoveredMissing(fec))
  IN  CASE missing = 1 /\ Recovers(p) ->
             [d |-> [recovered |-> DiscardOldRecoveredPackets(Sorted(s.d.recovered, p)),
                     fecs |-> covered],
              i |-> Restart(s.i)]
        [] missing = 0 \/ (missing = 1 /\ ~Recovers(p)) -> [s EXCEPT !.d.fecs = erased]
        [] missing > 1 -> [s EXCEPT !.i = @ + 1]

\* AttemptRecovery: every turn erases a FEC packet or goes on to the next one,
\* so that (n + 1)^2 turns are enough for n of them.
Attempts(Recovered(_), d) ==
  LET turns == (Len(d.fecs) + 1) * (Len(d.fecs) + 1)
      after[n \in 0 .. turns] ==
        IF n = 0 THEN [d |-> d, i |-> 1]
        ELSE LET before == after[n - 1] IN AttemptAt(Recovered, before)
  IN  after[turns].d

AttemptRecovery(d) == Attempts(RecoverPacket, d)

\* A big gap to the newest of a full list of media packets.
BigGap(d, p) ==
  /\ Len(d.recovered) = MaxMediaPackets /\ p.ssrc = "media"
  /\ MinDiff(p.seq, Last(d.recovered).seq, SeqSpace) > MaxMediaPackets

\* Mutant: a FEC packet far from the last media packet resets the decoder too.
MutantFecResets(d, p) ==
  AttemptRecovery(InsertPacket(IF BigGap(d, p) THEN ResetState(d) ELSE d, p))

\* DecodeFec: a media packet far from the last one makes what was kept useless.
DecodeFec(d, p) ==
  AttemptRecovery(InsertPacket(IF BigGap(d, p) /\ ~p.isFec THEN ResetState(d) ELSE d, p))
=============================================================================
