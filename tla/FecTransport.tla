---------------------------- MODULE FecTransport ----------------------------
(***************************************************************************)
(* fec-test: the sender gives every packet to FECGenerator and sends the   *)
(* blocks that come out next to the packet itself; the receiver gives      *)
(* packets and decoded blocks to one NackGenerator and asks for what is    *)
(* missing (boost-asio/udp_sender.cpp on both sides, nack_gen.cpp of the   *)
(* receiver).                                                              *)
(*                                                                         *)
(* What is sent arrives any number of times, in any order, or never; a     *)
(* packet may also be lost for good, and then needs a request.  A request  *)
(* is on its way as its numbers, which are answered and lost one by one    *)
(* (NackPack has the packing).  Probes only change rtt_, which only        *)
(* decides which numbers are due: any of them may be.  A packet is its     *)
(* sequence number.                                                        *)
(***************************************************************************)
EXTENDS FecGenerator, Functions

CONSTANTS
  SeqSpace,                     \* numbers of packets, 65536 in the code
  MaxPacketAge, MaxNackPackets, MaxNackRetries,   \* 10000, 1000 and 20
  FirstGroups                   \* where the sender may stand: groups before it
                                \* have reached the receiver as they were sent

ASSUME FecTransportAssumption ==
  /\ SeqSpace \in Nat \ {0} /\ SeqSpace % 2 = 0
  /\ MaxPacketAge \in Nat /\ MaxNackPackets \in Nat /\ MaxNackRetries \in Nat \ {0}
  /\ FirstGroups \subseteq Nat

VARIABLES
  firstGroup,   \* the one of FirstGroups
  decoder,      \* the FECGenerator of the receiver
  nack,         \* the NackGenerator of the receiver: started, lastSeq and list,
                \* which has the requests for each missing number
  wire,         \* what was sent and not lost for good
  given,        \* numbers that ReceivePacket was called with
  abandoned     \* numbers that were asked for as often as allowed

transportVars == <<firstGroup, decoder, nack, wire, given, abandoned>>

Numbers == 0 .. SeqSpace - 1
SeqAt(group, index) == (group * FecK + index + 1) % SeqSpace

-----------------------------------------------------------------------------
(* The receiver's NackGenerator, as functions of its state.                *)

SeqLowerThan(lhs, rhs) ==
  \/ rhs > lhs /\ rhs - lhs <= (SeqSpace - 1) \div 2
  \/ lhs > rhs /\ lhs - rhs > (SeqSpace - 1) \div 2

AddPacketsToNackList(list, seqStart, seqEnd) ==
  LET old   == {s \in DOMAIN list : s < (seqEnd - MaxPacketAge) % SeqSpace}
      count == (seqEnd - seqStart) % SeqSpace
      new   == {(seqStart + i) % SeqSpace : i \in 0 .. count - 1}
      kept  == Restrict(list, DOMAIN list \ old)
  IN  IF Cardinality(DOMAIN kept) + count > MaxNackPackets THEN <<>>
      ELSE [s \in DOMAIN kept \cup new |-> IF s \in DOMAIN kept THEN kept[s] ELSE 0]

ReceivePacket(gen, seq) ==
  CASE ~gen.started       -> [gen EXCEPT !.started = TRUE, !.lastSeq = seq]
    [] gen.started /\ (seq = gen.lastSeq \/ SeqLowerThan(seq, gen.lastSeq)) ->
         [gen EXCEPT !.list = Restrict(@, DOMAIN @ \ {seq})]
    [] OTHER              ->
         [gen EXCEPT !.list = AddPacketsToNackList(@, (gen.lastSeq + 1) % SeqSpace, seq), !.lastSeq = seq]

\* Packets received one after the other.
ReceivedAll(gen, seqs) ==
  LET after[n \in 0 .. Len(seqs)] ==
        IF n = 0 THEN gen ELSE ReceivePacket(after[n - 1], seqs[n])
  IN  after[Len(seqs)]

\* The entries in due are asked for, the last time those at their limit.
GetNackBatch(gen, due) ==
  LET last == {s \in due : gen.list[s] + 1 >= MaxNackRetries}
  IN  [gen EXCEPT !.list = [s \in DOMAIN @ \ last |-> IF s \in due THEN @[s] + 1 ELSE @[s]]]

-----------------------------------------------------------------------------
(* The sender.                                                             *)

\* Mutant: the callback sends every block.
MutantSendAll(block) == TRUE

\* Which blocks fec_encode_callback sends: of every second group none of the raw
\* ones, of the others only the first redundant one.
fec_encode_callback(block) ==
  IF block.group % 2 = 0 THEN block.index >= FecK ELSE block.index <= FecK

\* A packet goes out, and is lost or not.
send_packet(seq, others) ==
  \E lost \in BOOLEAN :
    wire' = wire \cup others \cup IF lost THEN {} ELSE {[type |-> "data", seq |-> seq]}

\* The timer: the blocks, and after them the packet itself.
sender_test ==
  /\ enc.group < firstGroup + MaxGroups
  /\ send_packet(SeqAt(enc.group, enc.count),
                 {[type |-> "fec", block |-> b] : b \in {b \in ToSet(Encoded(enc)) : fec_encode_callback(b)}})
  /\ enc' = Counted(enc)
  /\ UNCHANGED <<firstGroup, decoder, nack, given, abandoned>>

\* pkt_map_: the packets under the number of each.
Stocked == {SeqAt(0, i) : i \in 0 .. enc.group * FecK + enc.count - 1}

\* A request is answered if the packet is there.
AnswerNack ==
  \E msg \in wire :
    /\ msg.type = "nack" /\ msg.seq \in Stocked
    /\ send_packet(msg.seq, {})
    /\ UNCHANGED <<enc, firstGroup, decoder, nack, given, abandoned>>

-----------------------------------------------------------------------------
(* The receiver.                                                           *)

ReceiveData ==
  \E msg \in wire :
    /\ msg.type = "data"
    /\ nack' = ReceivePacket(nack, msg.seq)
    /\ given' = given \cup {msg.seq}
    /\ UNCHANGED <<enc, firstGroup, decoder, wire, abandoned>>

\* fec_dencode_callback: the header of what was decoded has the number.
fec_dencode_callback(seqs) ==
  /\ nack' = ReceivedAll(nack, seqs)
  /\ given' = given \cup ToSet(seqs)

\* Garbage has any number.
ReceiveBlock ==
  \E msg \in wire :
    /\ msg.type = "fec"
    /\ LET out == Deliveries(decoder, msg.block)
       IN  \E noise \in [{i \in DOMAIN out : out[i].contents = Garbage} -> Numbers] :
             fec_dencode_callback(
               [i \in DOMAIN out |-> IF out[i].contents = Garbage THEN noise[i]
                                     ELSE SeqAt(out[i].contents.group, out[i].contents.index)])
    /\ decoder' = DecoderAfter(decoder, msg.block)
    /\ UNCHANGED <<enc, firstGroup, wire, abandoned>>

handle_crude_timer ==
  \E due \in SUBSET DOMAIN nack.list :
    /\ due # {}
    /\ wire' = wire \cup {[type |-> "nack", seq |-> s] : s \in due}
    /\ nack' = GetNackBatch(nack, due)
    /\ abandoned' = abandoned \cup (DOMAIN nack.list \ DOMAIN nack'.list)
    /\ UNCHANGED <<enc, firstGroup, decoder, given>>

-----------------------------------------------------------------------------
\* The decoder after the blocks of a group, as they were sent.
Fed(d, group) ==
  LET after[n \in 0 .. FecN] ==
        IF n = 0 THEN d
        ELSE IF fec_encode_callback(Block(group, n - 1)) THEN DecoderAfter(after[n - 1], Block(group, n - 1))
        ELSE after[n - 1]
  IN  after[FecN]

\* The decoder has the blocks of the last group, and the receiver its packets.
TransportInit ==
  /\ firstGroup \in FirstGroups
  /\ enc = [group |-> firstGroup, count |-> 0]
  /\ LET fresh == [group |-> 0, marks |-> {}, count |-> 0, raw |-> 0, input |-> [j \in Indices |-> Garbage]]
     IN  decoder = IF firstGroup = 0 THEN fresh ELSE Fed(fresh, firstGroup - 1)
  /\ nack = [started |-> firstGroup > 0, lastSeq |-> IF firstGroup = 0 THEN 0 ELSE SeqAt(firstGroup, -1),
             list |-> <<>>]
  /\ wire = {} /\ given = {} /\ abandoned = {}

TransportNext ==
  sender_test \/ AnswerNack \/ ReceiveData \/ ReceiveBlock \/ handle_crude_timer

TransportSpec == TransportInit /\ [][TransportNext]_<<enc, transportVars>>

-----------------------------------------------------------------------------
\* A stream that is short enough for its numbers: they are compared as those of
\* one stretch, do not wrap around, and fit the window of NackGenerator.
ShortStreams ==
  /\ \A g \in FirstGroups : (g + MaxGroups) * FecK < SeqSpace
  /\ 2 * (MaxGroups * FecK) < SeqSpace
  /\ MaxPacketAge > 0 /\ MaxGroups > 0
  /\ MaxGroups * FecK <= MaxPacketAge /\ MaxGroups * FecK <= MaxNackPackets

\* Packets that come as blocks count like those that come themselves.  While the
\* blocks of groups overtake each other, are lost and repeated: nothing is asked
\* for that was given by either path, a group of which FecK blocks arrived needs
\* no request, decoding never makes up a number that was not sent, and once the
\* stream is past MaxPacketAge every number that was skipped is listed until it
\* is given or was asked for as often as allowed.
StreamAccounted ==
  LET newest == nack.lastSeq - SeqAt(firstGroup, 0)
  IN  /\ given \cap DOMAIN nack.list = {}
      /\ (decoder.group >= firstGroup /\ Cardinality(decoder.marks) >= FecK) =>
           {SeqAt(decoder.group, i) : i \in RawIndices} \subseteq given
      /\ given \subseteq Stocked
      /\ firstGroup * FecK >= MaxPacketAge =>
           {SeqAt(firstGroup, i) : i \in 0 .. newest} \subseteq given \cup DOMAIN nack.list \cup abandoned
=============================================================================
