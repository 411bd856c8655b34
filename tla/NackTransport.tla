---------------------------- MODULE NackTransport ----------------------------
(***************************************************************************)
(* The NACK demo end to end: class UDPSender of nack-test/sender (streams  *)
(* numbered packets, answers requests), class UDPSender of                 *)
(* nack-test/receiver (feeds the NackGenerator, asks for what is missing,  *)
(* measures the round trip time) and the UDP network between them.         *)
(*                                                                         *)
(* Each program runs one io_service on one thread, so a handler is one     *)
(* step.  Both timers have the same period and expire at absolute          *)
(* instants, so in every period each timer handler runs once, in either    *)
(* order: Elapse starts a period.  The period is the unit of time of this  *)
(* module.                                                                 *)
(*                                                                         *)
(* The network loses, duplicates and reorders.  A datagram is lost when it *)
(* is sent or because it is still on its way after MaxDelay periods.       *)
(*                                                                         *)
(* Packet number n of the stream carries sequence number n % SeqMod; n is  *)
(* the packet's identity (its contents) and is never read by the code.     *)
(***************************************************************************)
EXTENDS NackGenerator, FiniteSetsExt, Bags

CONSTANTS
  BlpBits, MaxNackItems,    \* see NackPack
  ProbeEvery, UpdateEvery,  \* periods between probes and between updates of
                            \* the generator's rtt: 80/20 and 400/20
  ProbeMod,                 \* probe numbers, 65536 in the code
  FirstPacket,              \* number of the first packet sent while the
                            \* receiver runs; 1 if both start together
  LastPacket,               \* bound: the sender stops after this packet
  MaxDelay,                 \* bound: periods a datagram may be on its way
  MaxFaults,                \* bound: datagrams lost or duplicated in a run
  MaxInFlight,              \* bound: datagrams on their way
  Carried                   \* kinds of datagram the network carries at all

Kinds == {"data", "nack", "probe", "echo"}

ASSUME TransportAssumption ==
  /\ BlpBits \in Nat /\ MaxNackItems \in Nat \ {0}
  /\ ProbeEvery \in Nat \ {0} /\ UpdateEvery \in Nat \ {0}
  /\ UpdateEvery % ProbeEvery = 0
  /\ ProbeMod \in Nat \ {0} /\ MaxRtt >= 1
  /\ FirstPacket \in Nat \ {0} /\ LastPacket \in Nat /\ FirstPacket <= LastPacket
  /\ MaxDelay \in Nat /\ MaxFaults \in Nat /\ MaxInFlight \in Nat
  /\ Carried \subseteq Kinds

VARIABLES
  \* sender
  sent,             \* number of the last packet sent; its seq_ is sent + 1
  pkt_map_,         \* sequence number -> number of the packet kept for it
  \* receiver, besides the variables of NackGenerator
  count_timer,      \* count_timer_ms_ / 20, modulo UpdateEvery
  rtt_count_num_,   \* number of the next probe
  rtt_count_map_,   \* probe number -> periods since it was sent
  rtt_,             \* the estimate
  \* environment
  net,              \* bag of the datagrams on their way, each with the
                    \* periods it has left
  faults,           \* datagrams lost or duplicated so far
  expired,          \* timers that have to fire in this period
  got               \* numbers of the packets that reached the receiver

senderVars == <<sent, pkt_map_>>
probeVars == <<rtt_count_num_, rtt_count_map_, rtt_>>
vars == <<genVars, senderVars, probeVars, count_timer, net, faults, expired, got>>

Pack == INSTANCE NackPack WITH PidSpace <- SeqMod
Packets == FirstPacket .. LastPacket

Data(n) == [kind |-> "data", body |-> n, left |-> MaxDelay]
Nack(seqs) == [kind |-> "nack", body |-> Pack!packing_nack(seqs), left |-> MaxDelay]
Probe(num) == [kind |-> "probe", body |-> num, left |-> MaxDelay]
Echo(num) == [kind |-> "echo", body |-> num, left |-> MaxDelay]

-----------------------------------------------------------------------------
\* The network brings the datagram m to a handler that sends those in out.
\* It may keep a copy of m, and it may lose any of the others; what it does not
\* carry at all is lost without being counted.
Exchange(m, out) ==
  \E copies \in SUBSET m, through \in SUBSET {o \in out : o.kind \in Carried} :
    /\ net' = (net (-) SetToBag(m)) (+) SetToBag(copies) (+) SetToBag(through)
    /\ BagCardinality(net') <= MaxInFlight
    /\ faults' = faults + Cardinality(copies)
                   + Cardinality({o \in out \ through : o.kind \in Carried})
    /\ faults' <= MaxFaults

-----------------------------------------------------------------------------
(* The sender.                                                             *)

\* Mutant: a packet is kept only if no packet with its number is.
MutantKeepFirst ==
  /\ "sender" \in expired
  /\ expired' = expired \ {"sender"}
  /\ LET n == sent + 1
         seq == n % SeqMod
     IN  /\ sent' = n
         /\ pkt_map_' = [s \in DOMAIN pkt_map_ \cup {seq} |->
                           IF s \in DOMAIN pkt_map_ THEN pkt_map_[s] ELSE n]
         /\ Exchange({}, {Data(n)})
  /\ UNCHANGED <<genVars, probeVars, count_timer, got>>

\* sender_test(seq_); seq_++
SenderTimer ==
  /\ "sender" \in expired
  /\ expired' = expired \ {"sender"}
  /\ LET n == sent + 1
         seq == n % SeqMod
     IN  /\ sent' = n
         /\ pkt_map_' = [s \in DOMAIN pkt_map_ \cup {seq} |->
                           IF s = seq THEN n ELSE pkt_map_[s]]
         /\ Exchange({}, {Data(n)})
  /\ UNCHANGED <<genVars, probeVars, count_timer, got>>

\* handle_receive_from, a request: every packet kept for a number of it is
\* sent again.
SenderOnNack(m) ==
  /\ m.kind = "nack"
  /\ Exchange({m}, {Data(pkt_map_[s]) :
                      s \in Pack!unpacking_nack(m.body) \cap DOMAIN pkt_map_})
  /\ UNCHANGED <<genVars, senderVars, probeVars, count_timer, expired, got>>

\* handle_receive_from, a probe: its number is sent back.
SenderOnProbe(m) ==
  /\ m.kind = "probe"
  /\ Exchange({m}, {Echo(m.body)})
  /\ UNCHANGED <<genVars, senderVars, probeVars, count_timer, expired, got>>

-----------------------------------------------------------------------------
(* The receiver.                                                           *)

ReceiverOnData(m) ==
  /\ m.kind = "data"
  /\ Exchange({m}, {})
  /\ ReceivePacket(m.body % SeqMod)
  /\ got' = got \cup {m.body}
  /\ UNCHANGED <<senderVars, probeVars, count_timer, expired>>

\* The estimate moves half way to the new measurement; the probe is answered.
ReceiverOnEcho(m) ==
  /\ m.kind = "echo"
  /\ Exchange({m}, {})
  /\ IF m.body \in DOMAIN rtt_count_map_
       THEN /\ rtt_' = (rtt_count_map_[m.body] + rtt_) \div 2
            /\ rtt_count_map_' = Keep(rtt_count_map_, DOMAIN rtt_count_map_ \ {m.body})
       ELSE UNCHANGED <<rtt_, rtt_count_map_>>
  /\ UNCHANGED <<genVars, senderVars, rtt_count_num_, count_timer, expired, got>>

\* Mutant: a number in use keeps its old instant (emplace instead of []=).
MutantKeepOldProbe ==
  /\ rtt_count_map_' = [num \in DOMAIN rtt_count_map_ \cup {rtt_count_num_} |->
                          IF num \in DOMAIN rtt_count_map_
                            THEN rtt_count_map_[num] ELSE 0]
  /\ rtt_count_num_' = (rtt_count_num_ + 1) % ProbeMod

\* Start a new measurement under the next probe number.
StartProbe ==
  /\ rtt_count_map_' = [num \in DOMAIN rtt_count_map_ \cup {rtt_count_num_} |->
                          IF num = rtt_count_num_ THEN 0 ELSE rtt_count_map_[num]]
  /\ rtt_count_num_' = (rtt_count_num_ + 1) % ProbeMod

\* handle_crude_timer: probe, update the generator's rtt, collect the batch,
\* pack it and send it.
ReceiverTimer ==
  LET probing == count_timer % ProbeEvery = 0
      curRtt  == IF count_timer % UpdateEvery = 0 THEN rtt_ ELSE rtt
      probes  == IF probing THEN {Probe(rtt_count_num_)} ELSE {}
  IN  /\ "receiver" \in expired
      /\ expired' = expired \ {"receiver"}
      /\ IF probing THEN StartProbe ELSE UNCHANGED <<rtt_count_map_, rtt_count_num_>>
      /\ UpdateRtt(curRtt)
      /\ GetNackBatch(curRtt)
      /\ Exchange({}, probes \cup IF nackBatch' = {} THEN {} ELSE {Nack(nackBatch')})
      /\ count_timer' = (count_timer + 1) % UpdateEvery
      /\ UNCHANGED <<senderVars, rtt_, got>>

-----------------------------------------------------------------------------
\* A period passes.  Whatever was on its way for MaxDelay periods is lost, with
\* all its copies.
Elapsing ==
  LET late == {m \in BagToSet(net) : m.left = 0}
      lost == UNION {{m} \X (1 .. net[m]) : m \in late}
      older(m) == [m EXCEPT !.left = @ + 1]
  IN  /\ expired = {}
      /\ expired' = {"receiver"} \cup IF sent < LastPacket THEN {"sender"} ELSE {}
      /\ nackList' = Aged(nackList)
      /\ rtt_count_map_' = [num \in DOMAIN rtt_count_map_ |->
                              Min({rtt_count_map_[num] + 1, MaxRtt})]
      /\ net' = [m \in {[o EXCEPT !.left = @ - 1] : o \in BagToSet(net) \ late} |->
                   net[older(m)]]
      /\ faults' = faults + Cardinality(lost)
      /\ faults' <= MaxFaults
      /\ UNCHANGED <<started, lastSeq, rtt, nackBatch, senderVars, rtt_count_num_,
                     rtt_, count_timer, got>>

\* What sender_test has left in pkt_map_ after n packets.
KeptAfter(n) ==
  [s \in {i % SeqMod : i \in 1 .. n} |-> Max({i \in 1 .. n : i % SeqMod = s})]

TransportInit ==
  /\ Init
  /\ sent = FirstPacket - 1
  /\ pkt_map_ = KeptAfter(FirstPacket - 1)
  /\ count_timer = 0
  /\ rtt_count_num_ = 1 % ProbeMod
  /\ rtt_count_map_ = [num \in {} |-> 0]
  /\ rtt_ = 1
  /\ net = EmptyBag
  /\ faults = 0
  /\ expired = {}
  /\ got = {}

Receive == \E m \in BagToSet(net) : \/ SenderOnNack(m) \/ SenderOnProbe(m)
                                   \/ ReceiverOnData(m) \/ ReceiverOnEcho(m)

TransportNext == SenderTimer \/ ReceiverTimer \/ Elapsing \/ Receive

TransportSpec == TransportInit /\ [][TransportNext]_vars

-----------------------------------------------------------------------------
\* The newest packet received, and the packet that sequence number s stands
\* for in the receiver's list.
Newest == Max(got)
PacketOf(s) == Newest - Dist(s, lastSeq)

\* lastSeq follows the newest packet of the stream through reordering,
\* duplicates, retransmissions and the wrap-around of the numbers.
LastSeqIsNewest == started => lastSeq = Newest % SeqMod

\* The receiver never waits for a packet it has: every entry of nackList
\* stands for a packet that has not arrived, whatever was delivered twice,
\* late or again.
NackedIsMissing == \A s \in DOMAIN nackList : PacketOf(s) \notin got

\* What the receiver asks for is what the sender will answer with: for every
\* number listed, or on its way in a request, pkt_map_ holds a packet that the
\* stream has passed, and for those listed exactly the missing one, although
\* numbers are used again after the wrap-around.
RequestHitsLost ==
  /\ \A s \in DOMAIN nackList :
       s \in DOMAIN pkt_map_ /\ pkt_map_[s] = PacketOf(s)
  /\ \A m \in BagToSet(net) : m.kind = "nack" =>
       \A s \in Pack!unpacking_nack(m.body) :
         s \in DOMAIN pkt_map_ /\ pkt_map_[s] < Newest

\* An answer is matched with the probe it answers or a later one, never with
\* a lost one of the same number: whatever is measured when it arrives is at
\* most the longest round trip.
MeasurementSound ==
  \A m \in BagToSet(net) : m.kind = "echo" /\ m.body \in DOMAIN rtt_count_map_ =>
    rtt_count_map_[m.body] + m.left <= 2 * MaxDelay

\* The packets listed, and the status of each packet of the stream.
Listed == {PacketOf(s) : s \in DOMAIN nackList}
StatusOf(n) ==
  CASE n > sent                    -> "unsent"
    [] n <= sent /\ n \in Listed   -> "missing"
    [] n \in got \ Listed          -> "got"
    [] n <= sent /\ n \notin Listed \cup got
                                   -> IF \E b \in got : n < b THEN "dropped" ELSE "sent"

\* The protocol implements StreamDelivery: no packet is received, dropped or
\* missing twice, across retransmissions, duplicates and the wrap-around.
Stream == INSTANCE StreamDelivery WITH
            status <- [n \in Packets |-> StatusOf(n)]
ImplementsStreamDelivery == Stream!Spec

-----------------------------------------------------------------------------
\* Both timers keep firing, time passes, and the network delivers what it
\* does not lose.
TransportFairSpec ==
  /\ TransportSpec
  /\ WF_vars(SenderTimer) /\ WF_vars(ReceiverTimer)
  /\ WF_vars(Elapsing) /\ WF_vars(Receive)

\* As long as a loss gets more requests than datagrams are lost and than it is
\* left out of full messages (GetNackBatch counts a request before packing_nack
\* drops it), and no more packets are missing at a time than MaxNackPackets,
\* every packet that a later one overtook arrives in the end.  (Checked from a first packet above
\* MaxPacketAge and without wrap-around: see OnlyOldRemoved.)
GapsRecovered ==
  \A n \in Packets :
    (\E a, b \in got : a < n /\ n < b) ~> n \in got
=============================================================================
