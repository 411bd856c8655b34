---------------------------- MODULE NackGenerator ----------------------------
(***************************************************************************)
(* The receiver's loss detector: class NackGenerator of                    *)
(* nack-test/receiver/Transport/nack_gen.{h,cpp} (fec-test/receiver has a  *)
(* copy with the same logic).  It remembers the sequence numbers that the  *)
(* stream skipped (nackList), and on every timer tick says which of them   *)
(* are due to be requested (GetNackBatch).                                 *)
(*                                                                         *)
(* Sequence numbers are uint16_t in the code: all arithmetic on them is    *)
(* modulo SeqMod (65536 there, small here).  The map nackList is ordered   *)
(* by the plain numeric order of its keys, which is not the order of the   *)
(* stream once the numbers wrap; the model keeps that difference.          *)
(*                                                                         *)
(* Time.  The code stores the instant of the last request (sentAtMs, 0     *)
(* when there was none) and only ever uses now - sentAtMs >= limit.  The   *)
(* model stores the difference instead (age), saturated at MaxRtt, which   *)
(* no limit exceeds; "never requested" is the saturated age, because       *)
(* now - 0 is the time since 1970.                                         *)
(***************************************************************************)
EXTENDS Integers, FiniteSets

CONSTANTS
  SeqMod,          \* size of the sequence number space, 65536 in the code
  MaxPacketAge,    \* 10000
  MaxNackPackets,  \* 1000
  MaxNackRetries,  \* 20
  DefaultRtt,      \* 100
  MaxRtt           \* bound on the round trip time UpdateRtt can be given

ASSUME SeqModAssumption == SeqMod \in Nat \ {0} /\ SeqMod % 2 = 0
ASSUME WindowAssumption ==
  /\ MaxPacketAge \in Nat
  /\ MaxNackPackets \in Nat
  /\ MaxNackPackets < MaxPacketAge
  /\ MaxPacketAge < SeqMod \div 2
ASSUME RetryAssumption == MaxNackRetries \in Nat \ {0}
ASSUME RttAssumption == MaxRtt \in Nat /\ DefaultRtt \in 0 .. MaxRtt

VARIABLES
  nackList,   \* function: missing sequence number -> [age, retries]
  started,    \* a first packet was received
  lastSeq,    \* the newest sequence number received
  rtt,        \* round trip time last given to UpdateRtt
  nackBatch   \* what the last call of GetNackBatch returned (a set: the
              \* vector holds it in ascending order)

genVars == <<nackList, started, lastSeq, rtt, nackBatch>>

SeqNum == 0 .. SeqMod - 1
MaxValue == SeqMod - 1
NackInfo == [age : 0 .. MaxRtt, retries : 0 .. MaxNackRetries - 1]
FreshNack == [age |-> MaxRtt, retries |-> 0]

\* Distance from a forward to b, and the map restricted to the keys in S.
Dist(a, b) == (b - a) % SeqMod
Keep(list, S) == [s \in S |-> list[s]]

-----------------------------------------------------------------------------
\* Mutant: numbers are compared without regard to the wrap-around.
MutantPlainOrder(lhs, rhs) == lhs < rhs

\* Is lhs before rhs in the wrapped order?
SeqLowerThan(lhs, rhs) ==
  \/ rhs > lhs /\ rhs - lhs <= MaxValue \div 2
  \/ lhs > rhs /\ lhs - rhs > MaxValue \div 2

\* The sequence numbers seqStart, seqStart + 1, ... up to but not seqEnd.
Gap(seqStart, seqEnd) ==
  {(seqStart + i) % SeqMod : i \in 0 .. Dist(seqStart, seqEnd) - 1}

\* Mutant: old packets are never removed.
MutantNoPurge(list, seqEnd) == DOMAIN list

\* The keys that "Remove old packets" leaves: lower_bound in numeric order.
SurvivingPurge(list, seqEnd) ==
  {s \in DOMAIN list : s >= (seqEnd - MaxPacketAge) % SeqMod}

\* Mutant: the room left by the losses already listed is not looked at.
MutantSizeIgnored(list, seqStart, seqEnd) ==
  LET kept == SurvivingPurge(list, seqEnd)
  IN  IF Dist(seqStart, seqEnd) > MaxNackPackets
        THEN Keep(list, {})
        ELSE [s \in kept \cup Gap(seqStart, seqEnd) |->
                IF s \in kept THEN list[s] ELSE FreshNack]

\* Mutant: the new losses overwrite what is listed (no find before emplace).
MutantOverwrite(list, seqStart, seqEnd) ==
  LET kept == SurvivingPurge(list, seqEnd)
  IN  IF Cardinality(kept) + Dist(seqStart, seqEnd) > MaxNackPackets
        THEN Keep(list, {})
        ELSE [s \in kept \cup Gap(seqStart, seqEnd) |->
                IF s \in Gap(seqStart, seqEnd) THEN FreshNack ELSE list[s]]

\* The list once the packets from seqStart to just before seqEnd are known to
\* be missing: purge, clear on overflow, otherwise add those not yet listed.
AddPacketsToNackList(list, seqStart, seqEnd) ==
  LET kept == SurvivingPurge(list, seqEnd)
      numNewNacks == Dist(seqStart, seqEnd)
  IN  IF Cardinality(kept) + numNewNacks > MaxNackPackets
        THEN Keep(list, {})
        ELSE [s \in kept \cup Gap(seqStart, seqEnd) |->
                IF s \in kept THEN list[s] ELSE FreshNack]

\* Time to wait before request number tryTimes + 1, in whole milliseconds:
\* rtt / (1 + 0.4 * tryTimes) for the first three, then rtt / 2.
CalculateRttLimit2SendNack(curRtt, tryTimes) ==
  IF tryTimes < 3 THEN (5 * curRtt) \div (5 + 2 * tryTimes) ELSE curRtt \div 2

-----------------------------------------------------------------------------
Init ==
  /\ nackList = [s \in {} |-> FreshNack]
  /\ started = FALSE
  /\ lastSeq = 0
  /\ rtt = DefaultRtt
  /\ nackBatch = {}

ReceiveFirst(seq) ==
  /\ ~started
  /\ started' = TRUE
  /\ lastSeq' = seq
  /\ UNCHANGED nackList

\* Mutant: an older packet stays on the list.
MutantNotErased(seq) ==
  /\ started
  /\ seq = lastSeq \/ SeqLowerThan(seq, lastSeq)
  /\ UNCHANGED <<nackList, started, lastSeq>>

\* seq = lastSeq is ignored; an older packet is taken off the list.
ReceiveOld(seq) ==
  /\ started
  /\ seq = lastSeq \/ SeqLowerThan(seq, lastSeq)
  /\ nackList' = IF seq = lastSeq THEN nackList
                                  ELSE Keep(nackList, DOMAIN nackList \ {seq})
  /\ UNCHANGED <<started, lastSeq>>

\* Mutant: the gap is taken to begin with lastSeq itself.
MutantGapFromLast(seq) ==
  /\ started
  /\ seq # lastSeq
  /\ ~SeqLowerThan(seq, lastSeq)
  /\ nackList' = AddPacketsToNackList(nackList, lastSeq, seq)
  /\ lastSeq' = seq
  /\ UNCHANGED started

ReceiveNewer(seq) ==
  /\ started
  /\ seq # lastSeq
  /\ ~SeqLowerThan(seq, lastSeq)
  /\ nackList' = AddPacketsToNackList(nackList, (lastSeq + 1) % SeqMod, seq)
  /\ lastSeq' = seq
  /\ UNCHANGED started

ReceivePacket(seq) ==
  /\ ReceiveFirst(seq) \/ ReceiveOld(seq) \/ ReceiveNewer(seq)
  /\ UNCHANGED <<rtt, nackBatch>>

UpdateRtt(newRtt) == rtt' = newRtt

\* The listed packets whose waiting time is over, and those among them whose
\* request now is the last one.
Due(curRtt) ==
  {s \in DOMAIN nackList :
     nackList[s].age >= CalculateRttLimit2SendNack(curRtt, nackList[s].retries)}

\* Mutant: one request too few before giving up.
MutantGiveUpEarly(curRtt) ==
  {s \in Due(curRtt) : nackList[s].retries + 2 >= MaxNackRetries}

\* Mutant: one request too many before giving up.
MutantGiveUpLate(curRtt) ==
  {s \in Due(curRtt) : nackList[s].retries + 1 > MaxNackRetries}

Exhausted(curRtt) ==
  {s \in Due(curRtt) : nackList[s].retries + 1 >= MaxNackRetries}

\* Mutant: the request is sent but not counted.
MutantUncounted(curRtt) ==
  /\ nackBatch' = Due(curRtt)
  /\ nackList' = [s \in DOMAIN nackList |->
                    IF s \in Due(curRtt) THEN [nackList[s] EXCEPT !.age = 0]
                                 ELSE nackList[s]]
  /\ UNCHANGED <<started, lastSeq>>

GetNackBatch(curRtt) ==
  /\ nackBatch' = Due(curRtt)
  /\ nackList' = [s \in DOMAIN nackList \ Exhausted(curRtt) |->
                    IF s \in Due(curRtt)
                      THEN [age |-> 0, retries |-> nackList[s].retries + 1]
                      ELSE nackList[s]]
  /\ UNCHANGED <<started, lastSeq>>

\* Public, but nothing in the repository calls it.
Reset ==
  /\ nackList' = Keep(nackList, {})
  /\ started' = FALSE
  /\ lastSeq' = 0
  /\ UNCHANGED <<rtt, nackBatch>>

\* The system clock: one unit of time passes.
Aged(list) ==
  [s \in DOMAIN list |->
     [list[s] EXCEPT !.age = IF @ < MaxRtt THEN @ + 1 ELSE @]]
Elapse ==
  /\ nackList' = Aged(nackList)
  /\ UNCHANGED <<started, lastSeq, rtt, nackBatch>>

-----------------------------------------------------------------------------
\* The generator alone: any packet, any round trip time, at any moment.
Next ==
  \/ \E seq \in SeqNum : ReceivePacket(seq)
  \/ \E r \in 0 .. MaxRtt :
       UpdateRtt(r) /\ UNCHANGED <<nackList, started, lastSeq, nackBatch>>
  \/ GetNackBatch(rtt) /\ UNCHANGED rtt
  \/ Reset
  \/ Elapse

Spec == Init /\ [][Next]_genVars

\* The receiver's timer fires again and again, and time passes.
FairSpec == Spec /\ WF_genVars(Elapse)
                 /\ WF_genVars(GetNackBatch(rtt) /\ UNCHANGED rtt)

-----------------------------------------------------------------------------
\* Types of the state of the generator.  The age of a request and its number
\* of retries are those of an entry that GetNackBatch has not given up.
TypeOK ==
  /\ DOMAIN nackList \subseteq SeqNum
  /\ nackList \in [DOMAIN nackList -> NackInfo]
  /\ started \in BOOLEAN
  /\ lastSeq \in SeqNum
  /\ rtt \in 0 .. MaxRtt
  /\ nackBatch \subseteq SeqNum

\* The list never holds more than MaxNackPackets losses, whatever gaps and
\* reordering the stream shows: AddPacketsToNackList compares the size before
\* it inserts, with the number of new losses computed modulo 2^16.
ListBounded == Cardinality(DOMAIN nackList) <= MaxNackPackets

\* Every listed packet lies, in numeric order, at most MaxPacketAge below the
\* newest one, or belongs to the last MaxNackPackets numbers of the stream.
\* The second case is what happens below MaxPacketAge, where the purge bound
\* wraps around to the top of the number space.
ListWindow ==
  \A s \in DOMAIN nackList :
    \/ s >= (lastSeq - MaxPacketAge) % SeqMod
    \/ Dist(s, lastSeq) \in 1 .. MaxNackPackets

\* The work done for a loss is never forgotten while it stays listed: a step
\* that keeps an entry keeps or raises its retries (AddPacketsToNackList
\* inserts only what is not listed yet), so no loss gets more than
\* MaxNackRetries requests.
RetriesNeverReset ==
  [][\A s \in DOMAIN nackList \cap DOMAIN nackList' :
       nackList'[s].retries >= nackList[s].retries]_genVars

\* Every listed loss leaves the list: received, purged, or requested
\* MaxNackRetries times and given up by GetNackBatch.
LossesSettle ==
  \A s \in SeqNum : s \in DOMAIN nackList ~> s \notin DOMAIN nackList

\* nack_gen.cpp:81 calls it "Remove old packets.": an entry dropped because a
\* newer packet came (and not for lack of room) is more than MaxPacketAge
\* behind that packet in the order of the stream.
OnlyOldRemoved ==
  [][ started /\ started' /\ lastSeq' # lastSeq
      /\ Cardinality(DOMAIN nackList) + Dist(lastSeq, lastSeq') - 1
           <= MaxNackPackets
      => \A s \in DOMAIN nackList \ DOMAIN nackList' :
           Dist(s, lastSeq') > MaxPacketAge ]_genVars
=============================================================================
