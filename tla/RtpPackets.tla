------------------------------ MODULE RtpPackets ------------------------------
(***************************************************************************)
(* The life of an RTP packet: built by calls of RtpPacket in any order, or *)
(* taken from the network, parsed, changed and parsed again.  It is of one *)
(* release of the code until it is sent to a program of the other.         *)
(***************************************************************************)
EXTENDS RedPacket

CONSTANTS
  Maps,        \* maps of extensions that a packet may be given
  Wires,       \* packets from other programs
  Values,      \* Values[type]: values that are set
  MaxCalls     \* bound: calls on a packet

VARIABLES packet, calls,
  rtc85        \* the packet is an object of release 85

packetVars == <<packet, calls, rtc85>>

PacketInit ==
  /\ calls = 0 /\ rtc85 \in BOOLEAN
  /\ \E map \in Maps :
       packet \in {Cleared(map)} \cup
                 {IF rtc85 THEN Parse85(Cleared(map), wire) ELSE Parse(Cleared(map), wire) : wire \in Wires}

\* One call that leaves a new packet, of either release.
CallAt(release, p) ==
  calls < MaxCalls /\ calls' = calls + 1 /\ rtc85 = release /\ packet' = p /\ UNCHANGED rtc85
Call(p) == CallAt(FALSE, p)
Call85(p) == CallAt(TRUE, p)

SetFixedHeader ==
  \/ \E marker \in BOOLEAN : Call(SetMarker(packet, marker)) \/ Call85(SetMarker85(packet, marker))
  \/ Call(SetPayloadType(packet, 96)) \/ Call85(SetPayloadType85(packet, 96))
  \/ Call(SetSsrc(SetTimestamp(SetSequenceNumber(packet, 65535), 258), 7))
  \/ Call85(SetSsrc85(SetTimestamp85(SetSequenceNumber85(packet, 65535), 258), 7))

\* rtp_packet.h:102: before extensions, payload and padding.
SetContributors ==
  /\ ~HasBit(At(packet.buf, 0), kExtensionBit) /\ packet.payloadSize = 0 /\ packet.paddingSize = 0
  /\ \E csrcs \in {<<>>, <<9, 10>>} : Call(SetCsrcs(packet, csrcs)) \/ Call85(SetCsrcs85(packet, csrcs))

\* Register and Deregister on a packet's own map, IdentifyExtensions with
\* another: the map is the same class in both releases.
ChangeMap ==
  \/ \E type \in Types, id \in {1, 15} :
       /\ ~IsRegistered(packet.extensions, type)
       /\ CallAt(rtc85, [packet EXCEPT !.extensions = Register(packet.extensions, id, type)])
  \/ \E type \in Types : CallAt(rtc85, [packet EXCEPT !.extensions = Deregister(packet.extensions, type)])
  \/ \E map \in Maps : CallAt(rtc85, [packet EXCEPT !.extensions = map])

WriteExtensions ==
  \/ \E type \in Types : \E value \in Values[type] :
       /\ WriteExtension(type, value) # Aborted
       /\ \/ Call(SetExtension(packet, type, WriteExtension(type, value)))
          \/ Call85(SetExtension85(packet, type, WriteExtension85(type, value)))
  \/ LET timing == FindExtension(packet, "VideoTiming")
     IN  /\ "VideoTiming" \in Types /\ timing # <<>>
         /\ \/ Call(SetExtension(packet, "VideoTiming",
                       VideoTimingWriteAt(timing, 513, kPacerExitDeltaOffset)))
            \/ Call85(SetExtension85(packet, "VideoTiming",
                         VideoTimingWriteAt85(timing, 513, kPacerExitDeltaOffset)))

DropExtension ==
  \E type \in Types :
    /\ ~RemovalAborts(packet, type)
    /\ Call(RemoveExtension(packet, type)) \/ Call85(RemoveExtension85(packet, type))

SetContents ==
  \/ /\ packet.paddingSize = 0
     /\ \E size \in {0, 3} : LET bytes == [i \in 1 .. size |-> 200 + i]
                             IN  Call(SetPayload(packet, bytes)) \/ Call85(SetPayload85(packet, bytes))
  \/ \E size \in {0, 4} : Call(SetPadding(packet, size)) \/ Call85(SetPadding85(packet, size))

Restart ==
  \/ Call(Clear(packet)) \/ Call(CopyHeaderFrom(packet))
  \/ Call85(Clear85(packet)) \/ Call85(CopyHeaderFrom85(packet))

\* The packet is sent, and parsed where it arrives.
Reparse ==
  /\ ~packet.gapsPromoted /\ ~packet.stalePadding
  /\ calls < MaxCalls /\ calls' = calls + 1
  /\ \/ rtc85' = FALSE /\ packet' = Parse(packet, packet.buf)
     \/ rtc85' = TRUE /\ packet' = Parse85(packet, packet.buf)

PacketNext ==
  SetFixedHeader \/ SetContributors \/ ChangeMap \/ WriteExtensions \/ DropExtension
    \/ SetContents \/ Restart \/ Reparse

-----------------------------------------------------------------------------

\* What of a packet can be read from its bytes.
Readable(p) ==
  <<p.marker, p.pt, p.seq, p.timestamp, p.ssrc, p.payloadOffset, p.payloadSize, p.paddingSize, p.entries>>

\* The fields that RtpPacket keeps next to its buffer are those that ParseBuffer
\* reads from the buffer, in either release, after any calls: promotion to two-byte headers,
\* removal of an extension, padding set and taken back, contributors added;
\* and the packet never outgrows its capacity.
\* Not so in two cases: PromoteToTwoByteHeaderExtension (rtp_packet.cc:350)
\* leaves old bytes between extensions that do not lie side by side, and
\* CopyHeaderFrom (rtp_packet.cc:124) copies the padding bit.
WireAgrees ==
  /\ Len(packet.buf) <= Capacity
  /\ packet.gapsPromoted \/ packet.stalePadding \/
       LET parsed == ParseBuffer(packet.buf, packet.extensions)
       IN  /\ parsed.ok /\ Readable(parsed.packet) = Readable(packet)
           /\ ParseBuffer85(packet.buf, packet.extensions) = parsed

\* The values of the extensions of a packet, by id.
Extensions(p) ==
  [id \in {p.entries[i].id : i \in DOMAIN p.entries} |->
     LET entry == p.entries[FindExtensionInfo(p.entries, id)]
     IN  ReadAt(p.buf, entry.offset, entry.length)]
Contents(p) == ReadAt(p.buf, p.payloadOffset, p.payloadSize + p.paddingSize)

\* A call changes the value of one extension at most, or adds or removes one
\* and leaves the others with the payload and padding as they were, though it
\* moves them all when headers grow to two bytes (AllocateRawExtension) or the
\* packet is rebuilt (RemoveExtension); headers are promoted for a new
\* extension only.
ExtensionsKept ==
  [][LET old     == Extensions(packet)
         new     == Extensions(packet')
         both    == DOMAIN old \cap DOMAIN new
         changed == {id \in both : old[id] # new[id]}
     IN  packet'.gapsPromoted \/ packet' = Clear(packet) \/
           /\ Cardinality(changed) <= 1
           /\ DOMAIN old # DOMAIN new =>
                /\ changed = {}
                /\ Cardinality((DOMAIN old \cup DOMAIN new) \ both) = 1
                /\ Contents(packet') = Contents(packet)
           /\ DOMAIN old = DOMAIN new /\ both # {} => Profile(packet.buf) = Profile(packet'.buf)]_packetVars

\* RtpHeaderExtensionSize, which senders use to decide how much payload fits a
\* packet, gives the size that the extensions really take.
SizePredicted ==
  LET sizes == [type \in {t \in Types : FindExtension(packet, t) # <<>>} |-> Len(FindExtension(packet, type))]
      two   == packet.extensionsSize > 0 /\ Profile(packet.buf) = kTwoByteExtensionProfileId
  IN  (/\ Cardinality(DOMAIN sizes) = Len(packet.entries)
       /\ packet.entries # <<>> /\ Dense(packet, IF two THEN 2 ELSE 1)
       /\ two => \E i \in DOMAIN packet.entries :
                   TwoByteHeaderRequired(packet.entries[i].id, packet.entries[i].length))
        => HeadersSize(packet) = kFixedHeaderSize + 4 * NumCsrc(packet.buf)
                                   + RtpHeaderExtensionSize(sizes, packet.extensions)

\* A FEC packet that takes the header of this packet, a media packet and so with
\* a payload, comes out of its RED packet
\* as it went in, a media packet with its own type again, and a reader finds in
\* the RED packet the extensions of this one, the new number and no marker.
\* Both releases make the same RED packet.
RedTransparent ==
  (/\ ~packet.gapsPromoted /\ ~packet.stalePadding
   /\ packet.paddingSize = 0 /\ packet.payloadSize > 0) =>
    LET length == HeadersSize(packet)
        header == SubSeq(packet.buf, 1, length)
        Red(type, payload) == UlpfecPacketAsRed(header, 100, type, 65535, payload)
        fec    == Red(99, <<1, 2>>)
        media  == SetMarker(SetPayloadType(SetSequenceNumber(packet, 65535), 96), FALSE)
        parsed == ParseBuffer(fec, packet.extensions)
    IN  length + 3 <= Capacity =>
        /\ RemoveRedHeader(fec, length, 99) = [ok |-> TRUE, isFec |-> TRUE, data |-> <<1, 2>>]
        /\ RemoveRedHeader(Red(96, SubSeq(packet.buf, length + 1, Len(packet.buf))), length, 99) =
             [ok |-> TRUE, isFec |-> FALSE, data |-> media.buf]
        /\ parsed.ok /\ parsed.packet.entries = packet.entries
        /\ HeadersSize(parsed.packet) = length /\ parsed.packet.seq = 65535 /\ ~parsed.packet.marker
        /\ RedPacket85(SetSequenceNumber(packet, 65535), 100, 99, <<1, 2>>).buf = fec

\* The two readers of headers agree about a packet with one-byte extensions
\* whose values are valid.  (About others they differ: two-byte extensions,
\* and everything behind a value of the wrong length, are not seen by
\* RtpHeaderParser.)  And the reader of RED packets finds what was put into one.
ReadersAgree ==
  /\ RedTransparent
  /\ (/\ ~packet.gapsPromoted /\ ~packet.stalePadding
      /\ packet.entries # <<>> => Profile(packet.buf) = kOneByteExtensionProfileId
      /\ \A type \in Types : FindExtension(packet, type) # <<>> => GetExtension(packet, type).ok)
       => ParseHeader(packet.buf, packet.extensions) =
            Valid(IF rtc85 THEN GetHeader85(packet) ELSE GetHeader(packet))

\* FEC is made of packets without what the pacer fills in later: setting the
\* mutable extensions of a packet in place does not change what is protected,
\* in either release, and both protect the same, unless a timing is shorter than
\* the six bytes that the older one zeroes.
ProtectionStable ==
  [][LET old     == Extensions(packet)
         new     == Extensions(packet')
         changed == {id \in DOMAIN old \cap DOMAIN new : old[id] # new[id]}
     IN  (/\ DOMAIN old = DOMAIN new /\ changed # {}
          /\ \A id \in changed :
               LET type == GetType(packet.extensions, id)
               IN  \/ type \in MutableTypes
                   \/ type = "VideoTiming" /\ \A i \in 1 .. kPacerExitDeltaOffset : old[id][i] = new[id][i])
           => /\ CopyAndZeroMutableExtensions(packet) = CopyAndZeroMutableExtensions(packet')
              /\ \/ ZeroMutableExtensions(packet) = CopyAndZeroMutableExtensions(packet)
                 \/ \E i \in DOMAIN packet.entries :
                      /\ GetType(packet.extensions, packet.entries[i].id) = "VideoTiming"
                      /\ packet.entries[i].length < 13]_packetVars
=============================================================================
