---------------------- MODULE ForwardErrorCorrection85 ----------------------
(***************************************************************************)
(* The erasure code as the M85 sources have it                             *)
(* (forward_error_correction_85.cc, built with USE_RTC85), on the same     *)
(* packets and decoders.  The repository patched the other source for      *)
(* media and FEC packets of one SSRC; this one it left alone: any packet   *)
(* of the SSRC, media or FEC, clears old FEC packets and may reset the     *)
(* decoder.  It also refuses FEC packets that are cut short, which do not  *)
(* occur here.  The rest reads alike and is defined by what it shares.     *)
(***************************************************************************)
EXTENDS ForwardErrorCorrection

InsertZeros85(masks, dist) == InsertZerosInPacketMasks(masks, dist)
NumFecPackets85(numMedia, rate) == NumFecPackets(numMedia, rate)

\* EncodeFec: the masks, and the packets that they make.
EncodeMasks85(dist, rate, maskType) ==
  LET numFec == NumFecPackets85(Len(dist), rate)
      table  == PickTable(maskType, Len(dist))
  IN  IF numFec = 0 \/ Len(dist) > kMaxMediaPackets \/ ~FitsMask(dist) THEN <<>>
      ELSE InsertZeros85(GeneratePacketMasks(Len(dist), numFec, 0, FALSE, table), dist)

GenerateFecPayloads85(media, masks) == GenerateFecPayloads(media, masks)

EncodeFec85(media, rate, maskType) ==
  GenerateFecPayloads85(media, EncodeMasks85(Distances(media), rate, maskType))

-----------------------------------------------------------------------------
ResetState85(d) == ResetState(d)
InsertMediaPacket85(d, p) == InsertMediaPacket(d, p)
InsertFecPacket85(d, p) == InsertFecPacket(d, p)
AssignRecoveredPackets85(recovered, protects) == AssignRecoveredPackets(recovered, protects)

\* A packet of the FEC packets' SSRC clears the old ones, whatever its kind.
InsertPacket85(d, p) ==
  LET old     == IF d.fecs # <<>> /\ p.ssrc = d.fecs[1].ssrc
                   THEN Outdated(d.fecs, p.seq) ELSE {}
      cleared == [d EXCEPT !.fecs = SubSeq(@, 1 + Cardinality(old), Len(@))]
      new     == IF p.isFec THEN InsertFecPacket85(cleared, p)
                 ELSE InsertMediaPacket85(cleared, p)
  IN  [new EXCEPT !.recovered = DiscardOldRecoveredPackets(@)]

RecoverPacket85(fec) == RecoverPacket(fec)
AttemptRecovery85(d) == Attempts(RecoverPacket85, d)

\* A packet far from the last media packet resets the decoder, whatever its kind.
DecodeFec85(d, p) ==
  AttemptRecovery85(InsertPacket85(IF BigGap(d, p) THEN ResetState85(d) ELSE d, p))
=============================================================================
