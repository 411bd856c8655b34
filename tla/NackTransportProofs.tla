------------------------- MODULE NackTransportProofs -------------------------
(***************************************************************************)
(* The NACK demo, for streams, number spaces and windows of any size and   *)
(* any number of retries: first NackGenerator by itself, then the demo end *)
(* to end.                                                                 *)
(***************************************************************************)
EXTENDS NackTransport, NumberFacts

\* Nothing is listed before the first packet (nor after Reset).
EmptyUntilStarted == ~started => DOMAIN nackList = {}

\* The inductive invariant: types, the bound on the list and its window.
IInv == TypeOK /\ ListBounded /\ ListWindow /\ EmptyUntilStarted

-----------------------------------------------------------------------------
(* Arithmetic on sequence numbers.                                         *)

\* A remainder is a sequence number.
LEMMA ModRange ==
  ASSUME NEW x \in Int
  PROVE  x % SeqMod \in SeqNum
  BY SeqModAssumption DEF SeqNum

\* What uint16_t arithmetic does to a value at most one turn off.
LEMMA ModCases ==
  ASSUME NEW x \in Int, -SeqMod <= x, x < SeqMod + SeqMod
  PROVE  x % SeqMod = IF x < 0 THEN x + SeqMod
                      ELSE IF x < SeqMod THEN x ELSE x - SeqMod
<1>1. CASE x < 0
  BY <1>1, SeqModAssumption
<1>2. CASE x >= 0 /\ x < SeqMod
  BY <1>2, SeqModAssumption
<1>3. CASE x >= SeqMod
  BY <1>3, SeqModAssumption
<1> QED
  BY <1>1, <1>2, <1>3, SeqModAssumption

\* SeqLowerThan is a strict, total comparison of two distinct numbers, also at
\* the distance of exactly half the number space.
THEOREM SeqLowerThanTotal ==
  ASSUME NEW a \in SeqNum, NEW b \in SeqNum, a # b
  PROVE  SeqLowerThan(a, b) <=> ~SeqLowerThan(b, a)
  BY SeqModAssumption DEF SeqLowerThan, SeqNum, MaxValue

\* A gap holds sequence numbers, and no more than its length.
LEMMA GapCardinality ==
  ASSUME NEW a \in Int, NEW b \in Int
  PROVE  /\ Gap(a, b) \subseteq SeqNum
         /\ IsFiniteSet(Gap(a, b))
         /\ Cardinality(Gap(a, b)) <= Dist(a, b)
<1> DEFINE n == Dist(a, b)
           I == 0 .. n - 1
           f == [i \in I |-> (a + i) % SeqMod]
<1>1. n \in Nat
  BY ModRange DEF Dist, SeqNum
<1>2. IsFiniteSet(I) /\ Cardinality(I) = n
  <2> HIDE DEF n
  <2>1. n - 1 \in Int /\ (0 > n - 1 => n = 0)
    BY <1>1
  <2> QED
    BY <2>1, <1>1, FS_Interval
<1>3. f \in Surjection(I, Gap(a, b))
  BY DEF Surjection, Gap
<1>4. Gap(a, b) \subseteq SeqNum
  BY <1>1, ModRange DEF Gap
<1> QED
  BY <1>2, <1>3, <1>4, FS_Surjection

\* The number space, and with it any part of it, is finite.
LEMMA SeqNumFinite ==
  ASSUME NEW S \in SUBSET SeqNum
  PROVE  IsFiniteSet(S) /\ Cardinality(S) \in Nat
<1>1. IsFiniteSet(SeqNum)
  BY FS_Interval, SeqModAssumption DEF SeqNum
<1> QED
  BY <1>1, FS_Subset, FS_CardinalityType

\* A number of the gap lies behind its end, by at most the gap's length, and
\* not behind its start.
LEMMA GapPosition ==
  ASSUME NEW a \in SeqNum, NEW e \in SeqNum, NEW s \in Gap(a, e)
  PROVE  /\ s \in SeqNum
         /\ Dist(s, e) \in 1 .. Dist(a, e)
         /\ Dist(a, s) < Dist(a, e)
<1>1. PICK i \in 0 .. Dist(a, e) - 1 : s = (a + i) % SeqMod
  BY DEF Gap
<1>2. Dist(a, e) = IF e < a THEN e - a + SeqMod ELSE e - a
  BY ModCases, SeqModAssumption DEF Dist, SeqNum
<1>3. i \in Nat /\ i < Dist(a, e)
  BY <1>1, <1>2, SeqModAssumption DEF SeqNum
<1>4. s = IF a + i < SeqMod THEN a + i ELSE a + i - SeqMod
  BY <1>1, <1>2, <1>3, ModCases, SeqModAssumption DEF SeqNum
<1>5. s \in SeqNum
  BY <1>2, <1>3, <1>4, SeqModAssumption DEF SeqNum
<1>6. Dist(s, e) = IF e < s THEN e - s + SeqMod ELSE e - s
  BY <1>5, ModCases, SeqModAssumption DEF Dist, SeqNum
<1>7. Dist(a, s) = IF s < a THEN s - a + SeqMod ELSE s - a
  BY <1>5, ModCases, SeqModAssumption DEF Dist, SeqNum
<1> QED
  BY <1>2, <1>3, <1>4, <1>5, <1>6, <1>7, SeqModAssumption DEF SeqNum

-----------------------------------------------------------------------------
(* What AddPacketsToNackList returns.                                      *)

\* What AddPacketsToNackList returns is a list of sequence numbers with well
\* typed entries, and no longer than MaxNackPackets.
LEMMA AddPacketsTyped ==
  ASSUME NEW list, DOMAIN list \subseteq SeqNum,
         list \in [DOMAIN list -> NackInfo],
         NEW a \in SeqNum, NEW e \in SeqNum,
         NEW new, new = AddPacketsToNackList(list, a, e)
  PROVE  /\ DOMAIN new \subseteq SeqNum
         /\ new \in [DOMAIN new -> NackInfo]
         /\ Cardinality(DOMAIN new) <= MaxNackPackets
         /\ DOMAIN new # {} => Dist(a, e) <= MaxNackPackets
         /\ \A s \in DOMAIN new :
              \/ s \in SurvivingPurge(list, e) /\ new[s] = list[s]
              \/ s \in Gap(a, e)
<1> DEFINE kept == SurvivingPurge(list, e)
<1>1. kept \subseteq DOMAIN list /\ kept \subseteq SeqNum
  BY DEF SurvivingPurge
<1>2. IsFiniteSet(kept) /\ Cardinality(kept) \in Nat
  BY <1>1, SeqNumFinite
<1>3. Gap(a, e) \subseteq SeqNum /\ IsFiniteSet(Gap(a, e))
      /\ Cardinality(Gap(a, e)) <= Dist(a, e)
  BY GapCardinality DEF SeqNum
<1>4. Dist(a, e) \in Nat
  BY ModRange DEF Dist, SeqNum
<1>5. FreshNack \in NackInfo
  BY RttAssumption, RetryAssumption DEF FreshNack, NackInfo
<1>6. CASE Cardinality(kept) + Dist(a, e) > MaxNackPackets
  <2>1. new = Keep(list, {})
    BY <1>6 DEF AddPacketsToNackList
  <2>2. DOMAIN new = {}
    BY <2>1 DEF Keep
  <2> QED
    BY <2>1, <2>2, FS_EmptySet, WindowAssumption DEF Keep
<1>7. CASE ~(Cardinality(kept) + Dist(a, e) > MaxNackPackets)
  <2>1. new = [s \in kept \cup Gap(a, e) |->
                 IF s \in kept THEN list[s] ELSE FreshNack]
    BY <1>7 DEF AddPacketsToNackList
  <2>2. DOMAIN new = kept \cup Gap(a, e)
    BY <2>1
  <2>3. Dist(a, e) <= MaxNackPackets
    BY <1>2, <1>4, <1>7, WindowAssumption
  <2>4. Cardinality(kept \cup Gap(a, e)) <= MaxNackPackets
    <3>1. IsFiniteSet(kept \cap Gap(a, e))
          /\ Cardinality(kept \cap Gap(a, e)) \in Nat
      BY <1>1, SeqNumFinite
    <3>2. Cardinality(Gap(a, e)) \in Nat
      BY <1>3, FS_CardinalityType
    <3>3. Cardinality(kept \cup Gap(a, e))
            = Cardinality(kept) + Cardinality(Gap(a, e))
                - Cardinality(kept \cap Gap(a, e))
      BY <1>2, <1>3, FS_Union
    <3> HIDE DEF kept
    <3> QED
      BY <1>2, <1>3, <1>4, <1>7, <3>1, <3>2, <3>3, WindowAssumption
  <2>5. \A s \in DOMAIN new : new[s] \in NackInfo
    <3> HIDE DEF kept
    <3> QED
      BY <1>1, <1>5, <2>1, <2>2
  <2>6. new \in [DOMAIN new -> NackInfo]
    BY <2>1, <2>5
  <2> HIDE DEF kept
  <2>7. \A s \in DOMAIN new : (s \in kept /\ new[s] = list[s]) \/ s \in Gap(a, e)
    BY <2>1, <2>2
  <2> QED
    BY <1>1, <1>3, <2>2, <2>3, <2>4, <2>6, <2>7 DEF kept
<1> QED
  BY <1>6, <1>7

-----------------------------------------------------------------------------
(* The steps of the generator.                                             *)

\* A new NackGenerator satisfies the inductive invariant.
LEMMA InitIInv == Init => IInv
<1> SUFFICES ASSUME Init PROVE IInv
  OBVIOUS
<1>1. DOMAIN nackList = {} /\ nackList \in [{} -> NackInfo]
  BY DEF Init
<1>2. TypeOK
  <2>1. lastSeq = 0 /\ rtt = DefaultRtt /\ nackBatch = {}
    BY DEF Init
  <2>2. lastSeq \in SeqNum /\ rtt \in 0 .. MaxRtt /\ nackBatch \subseteq SeqNum
    BY <2>1, SeqModAssumption, RttAssumption DEF SeqNum
  <2>3. started \in BOOLEAN
    BY DEF Init
  <2> QED
    BY <1>1, <2>2, <2>3 DEF TypeOK
<1>3. ListBounded
  BY <1>1, FS_EmptySet, WindowAssumption DEF ListBounded
<1>4. ListWindow
  BY <1>1 DEF ListWindow
<1> QED
  BY <1>1, <1>2, <1>3, <1>4 DEF IInv, EmptyUntilStarted

\* A step that leaves lastSeq alone and lists nothing new keeps the invariant,
\* provided the entries keep their type.
LEMMA ShrinkingList ==
  ASSUME IInv, UNCHANGED lastSeq, DOMAIN nackList' \subseteq DOMAIN nackList
  PROVE  ListBounded' /\ ListWindow'
<1>1. IsFiniteSet(DOMAIN nackList) /\ Cardinality(DOMAIN nackList) \in Nat
  BY SeqNumFinite DEF IInv, TypeOK
<1>2. IsFiniteSet(DOMAIN nackList') /\ Cardinality(DOMAIN nackList') \in Nat
      /\ Cardinality(DOMAIN nackList') <= Cardinality(DOMAIN nackList)
  BY <1>1, FS_Subset, FS_CardinalityType
<1>3. ListBounded'
  BY <1>1, <1>2, WindowAssumption DEF IInv, ListBounded
<1>4. ListWindow'
  BY DEF IInv, ListWindow
<1> QED
  BY <1>3, <1>4

\* A packet newer than lastSeq, with the gap it opens, keeps the invariant.
LEMMA ReceiveNewerIInv ==
  ASSUME IInv, NEW seq \in SeqNum, ReceiveNewer(seq), UNCHANGED <<rtt, nackBatch>>
  PROVE  IInv'
<1> DEFINE a == (lastSeq + 1) % SeqMod
<1>1. a \in SeqNum /\ lastSeq \in SeqNum
  BY ModRange DEF IInv, TypeOK, SeqNum
<1>2. nackList' = AddPacketsToNackList(nackList, a, seq) /\ lastSeq' = seq
      /\ started' = started
  BY DEF ReceiveNewer
<1> HIDE DEF a
<1>3. /\ DOMAIN nackList' \subseteq SeqNum
      /\ nackList' \in [DOMAIN nackList' -> NackInfo]
      /\ Cardinality(DOMAIN nackList') <= MaxNackPackets
      /\ DOMAIN nackList' # {} => Dist(a, seq) <= MaxNackPackets
      /\ \A s \in DOMAIN nackList' :
           \/ s \in SurvivingPurge(nackList, seq) /\ nackList'[s] = nackList[s]
           \/ s \in Gap(a, seq)
  BY <1>1, <1>2, AddPacketsTyped DEF IInv, TypeOK
<1>4. TypeOK'
  BY <1>2, <1>3 DEF IInv, TypeOK
<1>5. ListBounded'
  BY <1>3 DEF ListBounded
<1>6. ListWindow'
  <2> SUFFICES ASSUME NEW s \in DOMAIN nackList'
               PROVE  \/ s >= (seq - MaxPacketAge) % SeqMod
                      \/ Dist(s, seq) \in 1 .. MaxNackPackets
    BY <1>2 DEF ListWindow, Dist
  <2>1. CASE s \in SurvivingPurge(nackList, seq)
    BY <2>1 DEF SurvivingPurge
  <2>2. CASE s \in Gap(a, seq)
    <3>1. Dist(s, seq) \in 1 .. Dist(a, seq) /\ Dist(a, seq) <= MaxNackPackets
      BY <1>1, <1>3, <2>2, GapPosition
    <3>2. Dist(a, seq) \in Int
      BY <1>1, ModRange DEF Dist, SeqNum
    <3> QED
      BY <3>1, <3>2, WindowAssumption
  <2> QED
    BY <1>3, <2>1, <2>2
<1>7. EmptyUntilStarted'
  BY <1>2 DEF ReceiveNewer, EmptyUntilStarted
<1> QED
  BY <1>4, <1>5, <1>6, <1>7 DEF IInv

\* A timer tick keeps the invariant: what it requests once more without giving
\* it up has a number of retries below MaxNackRetries.
LEMMA GetNackBatchIInv ==
  ASSUME IInv, NEW r \in 0 .. MaxRtt, GetNackBatch(r), rtt' = r
  PROVE  IInv'
<1>1. DOMAIN nackList' = DOMAIN nackList \ Exhausted(r)
  BY DEF GetNackBatch
<1>2. ASSUME NEW s \in DOMAIN nackList'
      PROVE  nackList'[s] \in NackInfo
  <2>1. nackList[s] \in NackInfo
    BY <1>1, <1>2 DEF IInv, TypeOK
  <2>2. CASE s \in Due(r)
    <3>1. nackList'[s] = [age |-> 0, retries |-> nackList[s].retries + 1]
      BY <1>1, <2>2 DEF GetNackBatch
    <3>2. nackList[s].retries + 1 < MaxNackRetries
      BY <1>1, <2>1, <2>2, RetryAssumption DEF Exhausted, NackInfo
    <3> QED
      BY <2>1, <3>1, <3>2, RttAssumption, RetryAssumption DEF NackInfo
  <2>3. CASE s \notin Due(r)
    BY <1>1, <2>1, <2>3 DEF GetNackBatch
  <2> QED
    BY <2>2, <2>3
<1>3. nackList' \in [DOMAIN nackList' -> NackInfo]
  BY <1>2 DEF GetNackBatch
<1>4. TypeOK'
  BY <1>1, <1>3 DEF IInv, TypeOK, GetNackBatch, Due
<1> QED
  BY <1>1, <1>4, ShrinkingList DEF IInv, EmptyUntilStarted, GetNackBatch

\* The passing of time keeps the invariant: the age saturates.
LEMMA ElapseIInv ==
  ASSUME IInv, Elapse
  PROVE  IInv'
<1>1. DOMAIN nackList' = DOMAIN nackList
  BY DEF Elapse, Aged
<1>2. ASSUME NEW s \in DOMAIN nackList
      PROVE  nackList'[s] \in NackInfo
  <2>1. nackList[s] \in NackInfo
    BY DEF IInv, TypeOK
  <2>2. nackList'[s] = [nackList[s] EXCEPT !.age = IF @ < MaxRtt THEN @ + 1 ELSE @]
    BY DEF Elapse, Aged
  <2> QED
    BY <2>1, <2>2, RttAssumption, RetryAssumption DEF NackInfo
<1>3. nackList' \in [DOMAIN nackList' -> NackInfo]
  BY <1>1, <1>2 DEF Elapse, Aged
<1>4. TypeOK'
  BY <1>1, <1>3 DEF IInv, TypeOK, Elapse
<1> QED
  BY <1>1, <1>4, ShrinkingList DEF IInv, EmptyUntilStarted, Elapse

\* Forgetting entries or starting over keeps the invariant.
LEMMA ReceiveFirstOrOldIInv ==
  ASSUME IInv, NEW seq \in SeqNum, ReceiveFirst(seq) \/ ReceiveOld(seq),
         UNCHANGED <<rtt, nackBatch>>
  PROVE  IInv'
<1>1. CASE ReceiveFirst(seq)
  <2>1. DOMAIN nackList = {} /\ nackList' = nackList
    BY <1>1 DEF ReceiveFirst, IInv, EmptyUntilStarted
  <2>2. TypeOK'
    BY <1>1, <2>1 DEF ReceiveFirst, IInv, TypeOK
  <2> QED
    BY <1>1, <2>1, <2>2
    DEF ReceiveFirst, IInv, ListBounded, ListWindow, EmptyUntilStarted
<1>2. CASE ReceiveOld(seq)
  <2>1. DOMAIN nackList' \subseteq DOMAIN nackList
    BY <1>2 DEF ReceiveOld, Keep
  <2>2. nackList' \in [DOMAIN nackList' -> NackInfo]
    BY <1>2 DEF ReceiveOld, Keep, IInv, TypeOK
  <2>3. TypeOK'
    BY <1>2, <2>1, <2>2 DEF ReceiveOld, IInv, TypeOK
  <2> QED
    BY <1>2, <2>1, <2>3, ShrinkingList DEF ReceiveOld, IInv, EmptyUntilStarted
<1> QED
  BY <1>1, <1>2

\* Reset keeps the invariant: it leaves an empty list.
LEMMA ResetIInv ==
  ASSUME IInv, Reset
  PROVE  IInv'
<1>1. DOMAIN nackList' = {} /\ nackList' \in [{} -> NackInfo]
  BY DEF Reset, Keep
<1>2. TypeOK'
  <2>1. lastSeq' = 0 /\ started' \in BOOLEAN
    BY DEF Reset
  <2>2. lastSeq' \in SeqNum
    BY <2>1, SeqModAssumption DEF SeqNum
  <2> QED
    BY <1>1, <2>1, <2>2 DEF Reset, IInv, TypeOK
<1> QED
  BY <1>1, <1>2, FS_EmptySet, WindowAssumption
  DEF IInv, ListBounded, ListWindow, EmptyUntilStarted

\* Every step of the generator keeps the inductive invariant.
LEMMA StepIInv == IInv /\ [Next]_genVars => IInv'
<1> SUFFICES ASSUME IInv, [Next]_genVars PROVE IInv'
  OBVIOUS
<1>1. ASSUME NEW seq \in SeqNum, ReceivePacket(seq)
      PROVE  IInv'
  BY <1>1, ReceiveFirstOrOldIInv, ReceiveNewerIInv DEF ReceivePacket
<1>2. ASSUME NEW r \in 0 .. MaxRtt, UpdateRtt(r),
             UNCHANGED <<nackList, started, lastSeq, nackBatch>>
      PROVE  IInv'
  BY <1>2 DEF UpdateRtt, IInv, TypeOK, ListBounded, ListWindow, EmptyUntilStarted
<1>3. CASE GetNackBatch(rtt) /\ UNCHANGED rtt
  BY <1>3, GetNackBatchIInv DEF IInv, TypeOK
<1>4. CASE Reset
  BY <1>4, ResetIInv
<1>5. CASE Elapse
  BY <1>5, ElapseIInv
<1>6. CASE UNCHANGED genVars
  BY <1>6 DEF genVars, IInv, TypeOK, ListBounded, ListWindow, EmptyUntilStarted
<1> QED
  BY <1>1, <1>2, <1>3, <1>4, <1>5, <1>6 DEF Next

-----------------------------------------------------------------------------
(* The theorems.                                                           *)

\* The inductive invariant holds in every reachable state of the generator.
THEOREM GeneratorInvariant == Spec => []IInv
  BY InitIInv, StepIInv, PTL DEF Spec

\* Every reachable state of NackGenerator has the types of its fields; in
\* particular GetNackBatch keeps no entry with MaxNackRetries requests.
THEOREM GeneratorTypes == Spec => []TypeOK
<1>1. IInv => TypeOK
  BY DEF IInv
<1> QED
  BY <1>1, GeneratorInvariant, PTL

\* AddPacketsToNackList never lets the list outgrow MaxNackPackets.
THEOREM GeneratorListBounded == Spec => []ListBounded
<1>1. IInv => ListBounded
  BY DEF IInv
<1> QED
  BY <1>1, GeneratorInvariant, PTL

\* What is listed lies in the window below lastSeq that the purge of
\* AddPacketsToNackList leaves, wrap-around of the purge bound included.
THEOREM GeneratorListWindow == Spec => []ListWindow
<1>1. IInv => ListWindow
  BY DEF IInv
<1> QED
  BY <1>1, GeneratorInvariant, PTL

\* An entry inside the window of lastSeq is not in the gap that a newer packet
\* opens ahead of lastSeq, unless it survives the purge for that packet.
LEMMA RelistedSurvives ==
  ASSUME NEW L \in SeqNum, NEW e \in SeqNum, L # e, NEW s \in SeqNum,
         \/ s >= (L - MaxPacketAge) % SeqMod
         \/ Dist(s, L) \in 1 .. MaxNackPackets,
         s \in Gap((L + 1) % SeqMod, e),
         Dist((L + 1) % SeqMod, e) <= MaxNackPackets
  PROVE  s >= (e - MaxPacketAge) % SeqMod
<1> DEFINE a == (L + 1) % SeqMod
<1>1. a = (IF L + 1 < SeqMod THEN L + 1 ELSE 0) /\ a \in SeqNum
  BY ModCases, SeqModAssumption DEF SeqNum
<1> HIDE DEF a
<1>2. Dist(s, e) \in 1 .. Dist(a, e) /\ Dist(a, s) < Dist(a, e)
      /\ Dist(a, e) <= MaxNackPackets
  BY <1>1, GapPosition DEF a
<1>3. ASSUME NEW x \in SeqNum, NEW y \in SeqNum
      PROVE  Dist(x, y) = IF y < x THEN y - x + SeqMod ELSE y - x
  BY ModCases, SeqModAssumption DEF Dist, SeqNum
<1>4. ASSUME NEW x \in SeqNum
      PROVE  (x - MaxPacketAge) % SeqMod
               = IF x < MaxPacketAge THEN x - MaxPacketAge + SeqMod
                                     ELSE x - MaxPacketAge
  BY ModCases, SeqModAssumption, WindowAssumption DEF SeqNum
<1>5. /\ Dist(s, e) = IF e < s THEN e - s + SeqMod ELSE e - s
      /\ Dist(a, e) = IF e < a THEN e - a + SeqMod ELSE e - a
      /\ Dist(a, s) = IF s < a THEN s - a + SeqMod ELSE s - a
      /\ Dist(s, L) = IF L < s THEN L - s + SeqMod ELSE L - s
  BY <1>1, <1>3
<1>6. 2 * MaxPacketAge < SeqMod
  BY SeqModAssumption, WindowAssumption
<1> QED
  BY <1>1, <1>2, <1>4, <1>5, <1>6, SeqModAssumption, WindowAssumption DEF SeqNum

\* No step takes back a retry of an entry it keeps: AddPacketsToNackList never
\* replaces an entry by a fresh one.  It needs the window: an entry that the
\* purge removes is not one the gap puts back.
THEOREM GeneratorRetriesNeverReset == Spec => RetriesNeverReset
<1> DEFINE Kept == \A s \in DOMAIN nackList \cap DOMAIN nackList' :
                     nackList'[s].retries >= nackList[s].retries
<1>1. ASSUME IInv, [Next]_genVars
      PROVE  [Kept]_genVars
  <2> SUFFICES ASSUME NEW s \in DOMAIN nackList, s \in DOMAIN nackList',
                      UNCHANGED genVars \/ Next
               PROVE  nackList'[s].retries >= nackList[s].retries
    BY <1>1
  <2>1. nackList[s] \in NackInfo /\ nackList[s].retries \in Nat /\ s \in SeqNum
    BY <1>1, RetryAssumption DEF IInv, TypeOK, NackInfo
  <2>2. CASE nackList'[s] = nackList[s]
    BY <2>1, <2>2
  <2>3. ASSUME NEW seq \in SeqNum, ReceivePacket(seq)
        PROVE  nackList'[s] = nackList[s]
    <3>1. CASE ReceiveFirst(seq) \/ ReceiveOld(seq)
      BY <3>1 DEF ReceiveFirst, ReceiveOld, Keep
    <3>2. CASE ReceiveNewer(seq)
      <4> DEFINE a == (lastSeq + 1) % SeqMod
      <4>1. a \in SeqNum /\ lastSeq \in SeqNum /\ seq # lastSeq
        BY <1>1, <3>2, ModRange DEF IInv, TypeOK, SeqNum, ReceiveNewer
      <4>2. nackList' = AddPacketsToNackList(nackList, a, seq)
        BY <3>2 DEF ReceiveNewer
      <4> HIDE DEF a
      <4>3. Dist(a, seq) <= MaxNackPackets
            /\ \/ s \in SurvivingPurge(nackList, seq) /\ nackList'[s] = nackList[s]
               \/ s \in Gap(a, seq)
        BY <1>1, <4>1, <4>2, AddPacketsTyped DEF IInv, TypeOK
      <4>4. \/ s >= (lastSeq - MaxPacketAge) % SeqMod
            \/ Dist(s, lastSeq) \in 1 .. MaxNackPackets
        BY <1>1 DEF IInv, ListWindow
      <4>5. s \in SurvivingPurge(nackList, seq)
        BY <2>1, <4>1, <4>3, <4>4, RelistedSurvives DEF SurvivingPurge, a
      <4> QED
        BY <4>2, <4>5 DEF AddPacketsToNackList, Keep
    <3> QED
      BY <2>3, <3>1, <3>2 DEF ReceivePacket
  <2>4. CASE GetNackBatch(rtt)
    <3>1. nackList'[s] = nackList[s] \/ nackList'[s].retries = nackList[s].retries + 1
      BY <2>4 DEF GetNackBatch
    <3> QED
      BY <2>1, <3>1
  <2>5. CASE Reset
    BY <2>5 DEF Reset, Keep
  <2>6. CASE Elapse
    <3>1. nackList'[s].retries = nackList[s].retries
      BY <2>1, <2>6 DEF Elapse, Aged, NackInfo
    <3> QED
      BY <2>1, <3>1
  <2> QED
    BY <2>2, <2>3, <2>4, <2>5, <2>6 DEF Next, genVars
<1> QED
  BY <1>1, GeneratorInvariant, PTL DEF Spec, RetriesNeverReset

-----------------------------------------------------------------------------
(* The demo: its inductive invariant.                                      *)

Datagram(m) ==
  /\ m = [kind |-> m.kind, body |-> m.body, left |-> m.left]
  /\ m.kind \in Kinds /\ m.left \in 0 .. MaxDelay

\* Types, and what the types of the variables have to do with each other.
TransportTypeOK ==
  /\ IInv
  /\ sent \in FirstPacket - 1 .. LastPacket
  /\ DOMAIN pkt_map_ \subseteq SeqNum /\ pkt_map_ \in [DOMAIN pkt_map_ -> 1 .. sent]
  /\ rtt_count_map_ \in [DOMAIN rtt_count_map_ -> 0 .. MaxRtt]
  /\ rtt_ \in 0 .. MaxRtt
  /\ IsABag(net) /\ IsFiniteSet(BagToSet(net))
  /\ \A m \in BagToSet(net) : Datagram(m) /\ (m.kind = "data" => m.body \in 1 .. sent)
  /\ faults \in 0 .. MaxFaults
  /\ expired \subseteq {"sender", "receiver"} /\ ("sender" \in expired => sent < LastPacket)
  /\ got \subseteq 1 .. sent
  /\ started <=> got # {}

\* What an answer can still measure.
ProbesTimed ==
  \A m \in BagToSet(net) :
    /\ m.kind = "probe" /\ m.body \in DOMAIN rtt_count_map_ =>
         rtt_count_map_[m.body] + m.left <= MaxDelay
    /\ m.kind = "echo" /\ m.body \in DOMAIN rtt_count_map_ =>
         rtt_count_map_[m.body] + m.left <= 2 * MaxDelay

\* The number of the last packet of this period.
Ahead == sent + IF "sender" \in expired THEN 1 ELSE 0

\* How far the receiver can be behind the sender: packets lost, and packets on
\* their way.  How old a packet can be that is asked for.
MaxBehind == MaxFaults + MaxDelay + 1
MaxAsked == MaxBehind + MaxNackRetries * (MaxRtt + 1)

\* Half the number space is longer than a packet can be on its way after it was
\* asked for until the last request for it.  With the numbers of the code, half
\* the space is 32768 periods of 20 ms.
TimelyNetwork ==
  /\ "data" \in Carried
  /\ MaxAsked + 2 * MaxDelay < SeqMod \div 2

\* pkt_map_ holds the newest packet of each number.
KeptNewest ==
  \A p \in 1 .. sent : sent - p < SeqMod =>
    p % SeqMod \in DOMAIN pkt_map_ /\ pkt_map_[p % SeqMod] = p

Overtaken(n) == \E b \in got : n < b

\* Packets that are neither received nor on their way have been lost.
Lost == {n \in FirstPacket .. sent :
           n \notin got /\ ~\E m \in BagToSet(net) : m.kind = "data" /\ m.body = n}
LostCounted == Cardinality(Lost) <= faults

\* A packet on its way has been asked for, or sent for the first time; the ones
\* that no later packet overtook are of the second kind.
DataTimely ==
  \A m \in BagToSet(net) : m.kind = "data" =>
    /\ m.body \in FirstPacket .. sent
    /\ Ahead - m.body <= MaxAsked + 2 * MaxDelay - m.left
    /\ ~Overtaken(m.body) => m.body \in got \/ Ahead - m.body <= MaxDelay - m.left

\* A number in a request is that of a packet that was overtaken.
NacksTimely ==
  \A m \in BagToSet(net) : m.kind = "nack" =>
    \A s \in Pack!unpacking_nack(m.body) :
      \E p \in FirstPacket .. sent :
        p % SeqMod = s /\ Overtaken(p) /\ Ahead - p <= MaxAsked + MaxDelay - m.left

\* A listed number is that of a packet that is missing, and how long it has been
\* so is known from the requests for it.
Waited(info) ==
  info.retries * (MaxRtt + 1) + info.age
    + IF "receiver" \in expired /\ info.age = MaxRtt THEN 1 ELSE 0
ListTimely ==
  \A s \in DOMAIN nackList :
    \E p \in FirstPacket .. sent :
      /\ p % SeqMod = s /\ p \notin got /\ Overtaken(p)
      /\ Ahead - p <= MaxBehind + Waited(nackList[s])

GotStreamed == got \subseteq FirstPacket .. sent

StreamInv == TransportTypeOK /\ GotStreamed /\ KeptNewest /\ LostCounted /\ DataTimely /\ NacksTimely
             /\ ListTimely /\ LastSeqIsNewest

-----------------------------------------------------------------------------
(* Sequence numbers of packets.                                            *)

\* The number space is not empty and has two halves.
LEMMA SeqModPositive == SeqMod \in Nat \ {0} /\ 2 * (SeqMod \div 2) = SeqMod
  BY SeqModAssumption

\* The sequence number of a packet.
LEMMA SeqOf ==
  ASSUME NEW n \in Int
  PROVE  n % SeqMod \in SeqNum
  BY ModRange

\* The distance of the sequence numbers of two packets is that of the packets.
LEMMA DistIs ==
  ASSUME NEW x \in Int, NEW y \in Int, x <= y, y - x < SeqMod
  PROVE  Dist(x % SeqMod, y % SeqMod) = y - x
<1>1. ((y % SeqMod) - (x % SeqMod)) % SeqMod = (y - x) % SeqMod
  BY SeqModPositive, RemainderOfDifference
<1> DEFINE d == y - x
<1>2. d \in Int /\ -SeqMod <= d /\ d < SeqMod + SeqMod /\ ~(d < 0) /\ d < SeqMod
  BY SeqModPositive
<1>3. d % SeqMod = d
  <2> HIDE DEF d
  <2> QED
    BY <1>2, SeqModPositive, NearRemainder
<1> QED
  BY <1>1, <1>3 DEF Dist

\* Less than half the number space apart, the wrapped order is that of the
\* packets.
LEMMA LowerIs ==
  ASSUME NEW x \in Int, NEW y \in Int, x < y, y - x < SeqMod \div 2
  PROVE  /\ SeqLowerThan(x % SeqMod, y % SeqMod)
         /\ ~SeqLowerThan(y % SeqMod, x % SeqMod)
         /\ x % SeqMod # y % SeqMod
<1>1. y - x < SeqMod
  BY SeqModPositive
<1>2. Dist(x % SeqMod, y % SeqMod) = y - x
  BY <1>1, DistIs
<1>3. PICK a \in SeqNum, b \in SeqNum : a = x % SeqMod /\ b = y % SeqMod
  BY SeqOf
<1>4. b - a \in Int /\ -SeqMod <= b - a /\ b - a < SeqMod + SeqMod /\ b - a < SeqMod
  BY SeqModPositive DEF SeqNum
<1>5. (b - a) % SeqMod = IF b - a < 0 THEN b - a + SeqMod ELSE b - a
  BY <1>4, SeqModPositive, NearRemainder
<1>6. y - x = IF b - a < 0 THEN b - a + SeqMod ELSE b - a
  BY <1>2, <1>3, <1>5 DEF Dist
<1>7. SeqLowerThan(a, b) /\ ~SeqLowerThan(b, a) /\ a # b
  BY <1>6, SeqModPositive DEF SeqLowerThan, MaxValue, SeqNum
<1> QED
  BY <1>3, <1>7

\* The gap between two packets holds the numbers of the packets between them.
LEMMA GapIs ==
  ASSUME NEW x \in Int, NEW y \in Int, x < y, y - x < SeqMod,
         NEW s \in Gap(((x % SeqMod) + 1) % SeqMod, y % SeqMod)
  PROVE  \E p \in x + 1 .. y - 1 : p % SeqMod = s
<1>1. \A z \in Int, k \in Int : ((z % SeqMod) + k) % SeqMod = (z + k) % SeqMod
  <2> SUFFICES ASSUME NEW z \in Int, NEW k \in Int
               PROVE  ((z % SeqMod) + k) % SeqMod = (z + k) % SeqMod
    OBVIOUS
  <2>1. PICK q \in Int, r \in 0 .. SeqMod - 1 : z = SeqMod * q + r /\ z % SeqMod = r
    BY SeqModPositive, Remainder
  <2>2. z + k = (r + k) + SeqMod * q /\ z + k \in Int /\ r + k \in Int
    BY <2>1, SeqModPositive
  <2>3. (z + k) % SeqMod = (r + k) % SeqMod
    BY <2>2, SeqModPositive, SameRemainder
  <2> QED
    BY <2>1, <2>3
<1>2. ((x % SeqMod) + 1) % SeqMod = (x + 1) % SeqMod
  BY <1>1
<1>3. Dist((x + 1) % SeqMod, y % SeqMod) = y - (x + 1)
  <2> DEFINE z == x + 1
  <2>1. z \in Int /\ z <= y /\ y - z < SeqMod
    BY SeqModPositive
  <2> HIDE DEF z
  <2>2. Dist(z % SeqMod, y % SeqMod) = y - z
    BY <2>1, DistIs
  <2> QED
    BY <2>2 DEF z
<1>4. PICK i \in 0 .. (y - (x + 1)) - 1 : s = (((x + 1) % SeqMod) + i) % SeqMod
  BY <1>2, <1>3 DEF Gap
<1>5. s = (x + 1 + i) % SeqMod
  BY <1>1, <1>4
<1>6. x + 1 + i \in x + 1 .. y - 1
  BY <1>4
<1> QED
  BY <1>5, <1>6

-----------------------------------------------------------------------------
(* The network.                                                            *)

\* What Exchange does with the datagrams M that arrive and those in out.
LEMMA ExchangeIs ==
  ASSUME TransportTypeOK, NEW M \in SUBSET BagToSet(net), IsFiniteSet(M),
         NEW out, IsFiniteSet(out), Exchange(M, out)
  PROVE  \E through \in SUBSET out :
           /\ IsABag(net') /\ IsFiniteSet(BagToSet(net'))
           /\ BagToSet(net') \subseteq BagToSet(net) \cup through
           /\ BagToSet(net) \ M \subseteq BagToSet(net')
           /\ through \subseteq BagToSet(net')
           /\ faults' \in 0 .. MaxFaults /\ faults <= faults'
           /\ \A o \in out \ through : o.kind \in Carried => faults + 1 <= faults'
<1>1. PICK copies \in SUBSET M, through \in SUBSET {o \in out : o.kind \in Carried} :
        /\ net' = (net (-) SetToBag(M)) (+) SetToBag(copies) (+) SetToBag(through)
        /\ faults' = faults + Cardinality(copies)
                       + Cardinality({o \in out \ through : o.kind \in Carried})
        /\ faults' <= MaxFaults
  BY DEF Exchange
<1> DEFINE D == BagToSet(net)
           rest == net (-) SetToBag(M)
           more == rest (+) SetToBag(copies)
           unsent == {o \in out \ through : o.kind \in Carried}
<1>2. net \in [D -> {k \in Nat : k > 0}] /\ IsFiniteSet(D) /\ faults \in 0 .. MaxFaults
  BY DEF TransportTypeOK, IsABag, BagToSet
<1>3. /\ DOMAIN rest \subseteq D /\ D \ M \subseteq DOMAIN rest
      /\ \A e \in DOMAIN rest : rest[e] \in Nat /\ rest[e] > 0
  <2> DEFINE B == [e \in DOMAIN net |-> IF e \in DOMAIN SetToBag(M) THEN net[e] - SetToBag(M)[e]
                                                                   ELSE net[e]]
  <2>1. rest = [e \in {d \in DOMAIN B : B[d] > 0} |-> B[e]]
    BY DEF (-)
  <2>2. \A e \in D : B[e] = IF e \in M THEN net[e] - 1 ELSE net[e]
    BY DEF SetToBag, BagToSet
  <2>3. DOMAIN B = D
    BY DEF BagToSet
  <2> HIDE DEF B
  <2>4. \A e \in D : B[e] \in Int /\ (e \notin M => B[e] > 0)
    BY <1>2, <2>2
  <2> QED
    BY <2>1, <2>3, <2>4
<1> HIDE DEF rest
<1>4. /\ DOMAIN more = DOMAIN rest \cup copies
      /\ \A e \in DOMAIN more : more[e] \in Nat /\ more[e] > 0
  BY <1>3 DEF (+), SetToBag
<1> HIDE DEF more
<1>5. /\ DOMAIN net' = DOMAIN more \cup through
      /\ \A e \in DOMAIN net' : net'[e] \in Nat /\ net'[e] > 0
      /\ net' = [e \in DOMAIN net' |-> net'[e]]
  <2>1. net' = more (+) SetToBag(through)
    BY <1>1 DEF more, rest
  <2> QED
    BY <1>4, <2>1 DEF (+), SetToBag
<1>6. IsABag(net')
  BY <1>5 DEF IsABag
<1>7. /\ BagToSet(net') \subseteq D \cup through
      /\ D \ M \subseteq BagToSet(net') /\ through \subseteq BagToSet(net')
  BY <1>3, <1>4, <1>5 DEF BagToSet
<1>8. IsFiniteSet(BagToSet(net'))
  <2>1. IsFiniteSet(through)
    BY FS_Subset
  <2>2. IsFiniteSet(D \cup through)
    BY <1>2, <2>1, FS_Union
  <2> QED
    BY <1>7, <2>2, FS_Subset
<1>9. Cardinality(copies) \in Nat /\ Cardinality(unsent) \in Nat /\ IsFiniteSet(unsent)
  <2>1. copies \in SUBSET M /\ unsent \in SUBSET out
    OBVIOUS
  <2> HIDE DEF unsent
  <2> QED
    BY <2>1, FS_Subset, FS_CardinalityType
<1>10. faults' \in 0 .. MaxFaults /\ faults <= faults'
  <2> HIDE DEF unsent
  <2>1. faults' = faults + Cardinality(copies) + Cardinality(unsent)
    BY <1>1 DEF unsent
  <2> QED
    BY <1>1, <1>2, <1>9, <2>1, TransportAssumption
<1>11. ASSUME NEW o \in out \ through, o.kind \in Carried
       PROVE  faults + 1 <= faults'
  <2>1. Cardinality(unsent) # 0
    BY <1>9, <1>11, FS_EmptySet
  <2> HIDE DEF unsent
  <2>2. faults' = faults + Cardinality(copies) + Cardinality(unsent)
    BY <1>1 DEF unsent
  <2> QED
    BY <1>2, <1>9, <2>1, <2>2
<1> QED
  BY <1>6, <1>7, <1>8, <1>10, <1>11

\* The network keeps its types, whatever is sent.
LEMMA ExchangeTyped ==
  ASSUME TransportTypeOK, NEW M \in SUBSET BagToSet(net), IsFiniteSet(M),
         NEW out, IsFiniteSet(out), Exchange(M, out),
         \A o \in out : Datagram(o) /\ (o.kind = "data" => o.body \in 1 .. sent'),
         sent' \in Nat, sent <= sent'
  PROVE  /\ IsABag(net') /\ IsFiniteSet(BagToSet(net'))
         /\ \A m \in BagToSet(net') : Datagram(m) /\ (m.kind = "data" => m.body \in 1 .. sent')
         /\ faults' \in 0 .. MaxFaults
<1>1. PICK through \in SUBSET out :
        /\ IsABag(net') /\ IsFiniteSet(BagToSet(net'))
        /\ BagToSet(net') \subseteq BagToSet(net) \cup through
        /\ faults' \in 0 .. MaxFaults
  BY ExchangeIs
<1>2. 1 .. sent \subseteq 1 .. sent'
  BY TransportAssumption DEF TransportTypeOK
<1>3. \A m \in BagToSet(net) : Datagram(m) /\ (m.kind = "data" => m.body \in 1 .. sent')
  BY <1>2 DEF TransportTypeOK
<1> QED
  BY <1>1, <1>3

\* What the programs send are datagrams.
LEMMA SentTyped ==
  /\ \A n : Datagram(Data(n)) /\ Datagram(Probe(n)) /\ Datagram(Echo(n)) /\ Datagram(Nack(n))
  /\ \A n : IsFiniteSet({Data(n)}) /\ IsFiniteSet({Echo(n)})
<1>1. MaxDelay \in 0 .. MaxDelay
  BY TransportAssumption
<1>2. ASSUME NEW n PROVE Datagram(Data(n))
  BY <1>1 DEF Datagram, Data, Kinds
<1>3. ASSUME NEW n PROVE Datagram(Probe(n))
  BY <1>1 DEF Datagram, Probe, Kinds
<1>4. ASSUME NEW n PROVE Datagram(Echo(n))
  BY <1>1 DEF Datagram, Echo, Kinds
<1>5. ASSUME NEW n PROVE Datagram(Nack(n))
  <2>1. PICK b : b = Pack!packing_nack(n)
    OBVIOUS
  <2>2. Nack(n) = [kind |-> "nack", body |-> b, left |-> MaxDelay]
    BY <2>1 DEF Nack
  <2> QED
    BY <1>1, <2>2 DEF Datagram, Kinds
<1> QED
  BY <1>2, <1>3, <1>4, <1>5, FS_Singleton

\* The fields of what the programs send.
LEMMA SentFields ==
  ASSUME NEW n
  PROVE  /\ Data(n).kind = "data" /\ Data(n).body = n /\ Data(n).left = MaxDelay
         /\ Nack(n).kind = "nack" /\ Nack(n).body = Pack!packing_nack(n) /\ Nack(n).left = MaxDelay
         /\ Probe(n).kind = "probe" /\ Probe(n).body = n /\ Probe(n).left = MaxDelay
         /\ Echo(n).kind = "echo" /\ Echo(n).body = n /\ Echo(n).left = MaxDelay
  BY DEF Data, Nack, Probe, Echo

\* The answer to a request is finite.
LEMMA AnswerFinite ==
  ASSUME NEW S, DOMAIN pkt_map_ \subseteq SeqNum
  PROVE  IsFiniteSet({Data(pkt_map_[s]) : s \in S \cap DOMAIN pkt_map_})
<1> DEFINE X == S \cap DOMAIN pkt_map_
           Y == {Data(pkt_map_[s]) : s \in X}
           f == [s \in X |-> Data(pkt_map_[s])]
<1>1. IsFiniteSet(X)
  BY SeqNumFinite
<1>2. f \in Surjection(X, Y)
  BY DEF Surjection
<1> HIDE DEF X, Y, f
<1>3. IsFiniteSet(Y)
  BY <1>1, <1>2, FS_Surjection
<1> QED
  BY <1>3 DEF X, Y

\* The limits on the round trip time are kept.
LEMMA RttLimit ==
  ASSUME NEW r \in 0 .. MaxRtt, NEW k \in Nat
  PROVE  CalculateRttLimit2SendNack(r, k) <= MaxRtt
<1>1. r \in Nat /\ r <= MaxRtt /\ MaxRtt \in Nat
  BY RttAssumption
<1>2. CASE k = 0
  BY <1>1, <1>2 DEF CalculateRttLimit2SendNack
<1>3. CASE k = 1
  BY <1>1, <1>3 DEF CalculateRttLimit2SendNack
<1>4. CASE k = 2
  BY <1>1, <1>4 DEF CalculateRttLimit2SendNack
<1>5. CASE k >= 3
  BY <1>1, <1>5 DEF CalculateRttLimit2SendNack
<1> QED
  BY <1>2, <1>3, <1>4, <1>5

\* A bounded set of numbers has a greatest element.
LEMMA LastOf ==
  ASSUME NEW n \in Nat, NEW I, I # {}, I \subseteq 1 .. n
  PROVE  \E x \in I : \A y \in I : x >= y
<1> DEFINE J == {n - i : i \in I}
<1>1. J \in SUBSET Nat /\ J # {}
  <2>1. \A i \in I : i \in Int /\ n - i \in Nat
    OBVIOUS
  <2> QED
    BY <2>1
<1>2. PICK j \in J : \A k \in J : j <= k
  <2> HIDE DEF J
  <2> QED
    BY <1>1, NatMin
<1>3. PICK x \in I : j = n - x
  BY <1>2
<1>4. \A y \in I : n - x <= n - y
  BY <1>2, <1>3
<1>5. \A y \in I : x >= y
  BY <1>4
<1> QED
  BY <1>5

\* The smaller of two numbers.
LEMMA CappedIs ==
  ASSUME NEW a \in Nat, NEW b \in Nat
  PROVE  Min({a, b}) = IF a <= b THEN a ELSE b
<1> DEFINE m == IF a <= b THEN a ELSE b
<1>1. m \in {a, b} /\ \A y \in {a, b} : m <= y
  OBVIOUS
<1>2. \A x \in {a, b} : (\A y \in {a, b} : x <= y) => x = m
  OBVIOUS
<1> QED
  BY <1>1, <1>2 DEF Min

\* How the datagrams of the next period correspond to those of this one.
LEMMA ElapsingNet ==
  ASSUME TransportTypeOK, Elapsing
  PROVE  /\ IsABag(net') /\ IsFiniteSet(BagToSet(net'))
         /\ \A m \in BagToSet(net') :
              /\ Datagram(m)
              /\ \E o \in BagToSet(net) :
                   o.kind = m.kind /\ o.body = m.body /\ o.left = m.left + 1
         /\ \A o \in BagToSet(net) : o.left # 0 =>
              \E m \in BagToSet(net') : m.kind = o.kind /\ m.body = o.body
         /\ IsFiniteSet({o \in BagToSet(net) : o.left = 0})
         /\ faults' >= faults + Cardinality({o \in BagToSet(net) : o.left = 0})
         /\ faults' \in 0 .. MaxFaults
<1> DEFINE D == BagToSet(net)
           late == {m \in D : m.left = 0}
           Next1(o) == [o EXCEPT !.left = @ - 1]
           Older(m) == [m EXCEPT !.left = @ + 1]
           E == {Next1(o) : o \in D \ late}
           f == [o \in D \ late |-> Next1(o)]
           lost == UNION {{m} \X (1 .. net[m]) : m \in late}
<1>1. /\ net' = [m \in E |-> net[Older(m)]]
      /\ faults' = faults + Cardinality(lost) /\ faults' <= MaxFaults
  BY DEF Elapsing
<1>2. /\ IsFiniteSet(D) /\ (\A m \in D : Datagram(m)) /\ faults \in 0 .. MaxFaults
      /\ \A o \in D : net[o] \in {k \in Nat : k > 0}
  BY DEF TransportTypeOK, IsABag, BagToSet
<1>3. IsFiniteSet(late) /\ IsFiniteSet(D \ late) /\ Cardinality(late) \in Nat
  BY <1>2, FS_Subset, FS_CardinalityType
<1>4. ASSUME NEW o \in D \ late
      PROVE  /\ Next1(o) = [kind |-> o.kind, body |-> o.body, left |-> o.left - 1]
             /\ Older(Next1(o)) = o
             /\ Datagram(Next1(o))
             /\ Next1(o).kind = o.kind /\ Next1(o).body = o.body
             /\ o.left = Next1(o).left + 1
  <2>1. /\ o = [kind |-> o.kind, body |-> o.body, left |-> o.left]
        /\ o.kind \in Kinds /\ o.left \in 0 .. MaxDelay /\ o.left # 0
    BY <1>2 DEF Datagram
  <2>2. PICK k, b, l : k = o.kind /\ b = o.body /\ l = o.left
    OBVIOUS
  <2>3. o = [kind |-> k, body |-> b, left |-> l]
    BY <2>1, <2>2
  <2>4. l \in 0 .. MaxDelay /\ l # 0 /\ k \in Kinds
    BY <2>1, <2>2
  <2>5. Next1(o) = [kind |-> k, body |-> b, left |-> l - 1]
    BY <2>3
  <2>6. l - 1 \in 0 .. MaxDelay /\ l - 1 + 1 = l
    BY <2>4, TransportAssumption
  <2>7. Older(Next1(o)) = [kind |-> k, body |-> b, left |-> (l - 1) + 1]
    <3>1. \A j : Older([kind |-> k, body |-> b, left |-> j])
                   = [kind |-> k, body |-> b, left |-> j + 1]
      OBVIOUS
    <3> HIDE DEF Next1, Older
    <3> QED
      BY <2>5, <3>1
  <2> HIDE DEF Next1, Older
  <2> QED
    BY <2>2, <2>3, <2>4, <2>5, <2>6, <2>7 DEF Datagram
<1> HIDE DEF Next1, Older
<1>5. f \in Surjection(D \ late, E)
  BY DEF Surjection
<1>6. IsFiniteSet(E)
  <2> HIDE DEF f, E
  <2> QED
    BY <1>3, <1>5, FS_Surjection
<1>7. BagToSet(net') = E
  BY <1>1 DEF BagToSet
<1>8. ASSUME NEW m \in E
      PROVE  \E o \in D \ late : m = Next1(o) /\ net'[m] = net[o]
  BY <1>1, <1>4, <1>8
<1>9. IsABag(net')
  <2>1. \A m \in E : net'[m] \in {k \in Nat : k > 0}
    BY <1>2, <1>8
  <2>2. net' = [m \in E |-> net'[m]] /\ DOMAIN net' = E
    BY <1>1
  <2> HIDE DEF E
  <2> QED
    BY <2>1, <2>2 DEF IsABag
<1>10. faults' \in 0 .. MaxFaults /\ faults' >= faults + Cardinality(late)
  <2>1. IsFiniteSet(lost)
    <3> DEFINE copies == [m \in late |-> {m} \X (1 .. net[m])]
               C == {{m} \X (1 .. net[m]) : m \in late}
    <3>1. copies \in Surjection(late, C)
      BY DEF Surjection
    <3>2. ASSUME NEW m \in late PROVE IsFiniteSet({m} \X (1 .. net[m]))
      <4>1. net[m] \in Int /\ 1 \in Int
        BY <1>2
      <4>2. IsFiniteSet(1 .. net[m]) /\ IsFiniteSet({m})
        BY <4>1, FS_Interval, FS_Singleton
      <4> QED
        BY <4>2, FS_Product
    <3>3. \A T \in C : IsFiniteSet(T)
      BY <3>2
    <3> HIDE DEF copies, C, late
    <3>4. IsFiniteSet(C)
      BY <1>3, <3>1, FS_Surjection
    <3>5. IsFiniteSet(UNION C)
      BY <3>3, <3>4, FS_UNION
    <3> QED
      BY <3>5 DEF C
  <2> DEFINE g == [c \in lost |-> c[1]]
  <2>2. g \in Surjection(lost, late)
    <3>1. ASSUME NEW c \in lost PROVE c[1] \in late
      OBVIOUS
    <3>2. ASSUME NEW m \in late PROVE \E c \in lost : g[c] = m
      <4>1. 1 \in 1 .. net[m]
        BY <1>2
      <4>2. <<m, 1>> \in lost
        BY <4>1
      <4> QED
        BY <4>2
    <3> QED
      BY <3>1, <3>2 DEF Surjection
  <2> HIDE DEF late, lost, g
  <2>3. Cardinality(late) <= Cardinality(lost) /\ Cardinality(lost) \in Nat
    BY <2>1, <2>2, FS_Surjection, FS_CardinalityType
  <2> QED
    BY <1>1, <1>2, <1>3, <2>3, TransportAssumption
<1>11. \A o \in D : o.left # 0 =>
         \E m \in E : m.kind = o.kind /\ m.body = o.body
  BY <1>4
<1>12. \A m \in E : Datagram(m) /\ \E o \in D :
                      o.kind = m.kind /\ o.body = m.body /\ o.left = m.left + 1
  BY <1>4, <1>8
<1> QED
  BY <1>1, <1>3, <1>6, <1>7, <1>9, <1>10, <1>11, <1>12

-----------------------------------------------------------------------------
(* Types.                                                                  *)

\* The initial states have the types; pkt_map_ holds packets sent before.
LEMMA TypesInit == TransportInit => TransportTypeOK /\ ProbesTimed
<1> SUFFICES ASSUME TransportInit PROVE TransportTypeOK /\ ProbesTimed
  OBVIOUS
<1>1. IInv /\ ~started
  BY InitIInv DEF TransportInit, Init
<1>2. BagToSet(net) = {} /\ IsABag(net) /\ IsFiniteSet(BagToSet(net))
  BY FS_EmptySet DEF TransportInit, EmptyBag, SetToBag, BagToSet, IsABag
<1>3. sent = FirstPacket - 1 /\ sent \in FirstPacket - 1 .. LastPacket /\ sent \in Nat
  BY TransportAssumption DEF TransportInit
<1>4. DOMAIN pkt_map_ \subseteq SeqNum /\ pkt_map_ \in [DOMAIN pkt_map_ -> 1 .. sent]
  <2> DEFINE K == {i % SeqMod : i \in 1 .. sent}
  <2>1. pkt_map_ = [s \in K |-> Max({i \in 1 .. sent : i % SeqMod = s})]
    BY <1>3 DEF TransportInit, KeptAfter
  <2>2. K \subseteq SeqNum
    BY <1>3, SeqOf
  <2>3. ASSUME NEW s \in K PROVE Max({i \in 1 .. sent : i % SeqMod = s}) \in 1 .. sent
    <3> DEFINE I == {i \in 1 .. sent : i % SeqMod = s}
    <3>1. I # {} /\ I \subseteq 1 .. sent
      BY <2>3
    <3>2. \E x \in I : \A y \in I : x >= y
      BY <1>3, <3>1, LastOf
    <3>3. Max(I) \in I
      BY <3>2 DEF Max
    <3> QED
      BY <3>1, <3>3
  <2> HIDE DEF K
  <2> QED
    BY <2>1, <2>2, <2>3
<1>5. rtt_ \in 0 .. MaxRtt /\ rtt_count_map_ \in [DOMAIN rtt_count_map_ -> 0 .. MaxRtt]
  <2>1. rtt_ = 1 /\ rtt_count_map_ = [num \in {} |-> 0]
    BY DEF TransportInit
  <2> QED
    BY <2>1, RttAssumption, TransportAssumption
<1>6. faults \in 0 .. MaxFaults /\ expired = {} /\ got = {}
  BY TransportAssumption DEF TransportInit
<1> QED
  BY <1>1, <1>2, <1>3, <1>4, <1>5, <1>6 DEF TransportTypeOK, ProbesTimed

\* A step that leaves the generator alone keeps its invariant.
LEMMA UnchangedGen ==
  ASSUME IInv, UNCHANGED genVars
  PROVE  IInv' /\ started' = started
  BY StepIInv DEF genVars

\* The sender's timer: the packet sent is one of the stream.
LEMMA TypesSenderTimer ==
  ASSUME TransportTypeOK, SenderTimer
  PROVE  TransportTypeOK'
<1> DEFINE n == sent + 1
<1>1. /\ sent' = n /\ expired' = expired \ {"sender"} /\ "sender" \in expired
      /\ pkt_map_' = [s \in DOMAIN pkt_map_ \cup {n % SeqMod} |->
                        IF s = n % SeqMod THEN n ELSE pkt_map_[s]]
      /\ Exchange({}, {Data(n)})
      /\ UNCHANGED <<genVars, probeVars, count_timer, got>>
  BY DEF SenderTimer
<1>2. sent \in Nat /\ sent < LastPacket /\ n \in FirstPacket - 1 .. LastPacket /\ n \in 1 .. n
      /\ n \in Nat
  BY <1>1, TransportAssumption DEF TransportTypeOK
<1>3. 1 .. sent \subseteq 1 .. n /\ sent <= n
  BY <1>2
<1> HIDE DEF n
<1>4. IsFiniteSet({}) /\ {} \subseteq BagToSet(net)
  BY FS_EmptySet
<1>5. Data(n).kind = "data" /\ Data(n).body = n
  BY DEF Data
<1>6. /\ IsABag(net') /\ IsFiniteSet(BagToSet(net'))
      /\ \A m \in BagToSet(net') : Datagram(m) /\ (m.kind = "data" => m.body \in 1 .. sent')
      /\ faults' \in 0 .. MaxFaults
  <2>1. IsFiniteSet({Data(n)}) /\ Datagram(Data(n))
    BY SentTyped
  <2>2. \A o \in {Data(n)} : Datagram(o) /\ (o.kind = "data" => o.body \in 1 .. sent')
    BY <1>1, <1>2, <1>5, <2>1
  <2>3. Exchange({}, {Data(n)}) /\ sent' \in Nat /\ sent <= sent' /\ {} \in SUBSET BagToSet(net)
    BY <1>1, <1>2, <1>3
  <2> QED
    BY <1>4, <2>1, <2>2, <2>3, ExchangeTyped
<1>7. n % SeqMod \in SeqNum
  BY <1>2, SeqOf
<1>8. DOMAIN pkt_map_' \subseteq SeqNum /\ pkt_map_' \in [DOMAIN pkt_map_' -> 1 .. sent']
  BY <1>1, <1>2, <1>3, <1>7 DEF TransportTypeOK
<1>9. IInv' /\ started' = started
  BY <1>1, UnchangedGen DEF TransportTypeOK
<1> QED
  BY <1>1, <1>2, <1>3, <1>6, <1>8, <1>9 DEF TransportTypeOK, probeVars

\* The answer to a request consists of packets kept.
LEMMA TypesSenderOnNack ==
  ASSUME TransportTypeOK, NEW m \in BagToSet(net), SenderOnNack(m)
  PROVE  TransportTypeOK'
<1> DEFINE out == {Data(pkt_map_[s]) : s \in Pack!unpacking_nack(m.body) \cap DOMAIN pkt_map_}
<1>1. /\ Exchange({m}, out)
      /\ UNCHANGED <<genVars, senderVars, probeVars, count_timer, expired, got>>
  BY DEF SenderOnNack
<1>2. sent' = sent /\ sent \in Nat
  BY <1>1, TransportAssumption DEF TransportTypeOK, senderVars
<1>3. IsFiniteSet(out)
  BY AnswerFinite DEF TransportTypeOK
<1>4. \A o \in out : Datagram(o) /\ (o.kind = "data" => o.body \in 1 .. sent')
  BY <1>2, SentTyped DEF TransportTypeOK, Data
<1> HIDE DEF out
<1>5. IsFiniteSet({m}) /\ {m} \subseteq BagToSet(net) /\ sent <= sent
  BY <1>2, FS_Singleton
<1>6. /\ IsABag(net') /\ IsFiniteSet(BagToSet(net'))
      /\ \A k \in BagToSet(net') : Datagram(k) /\ (k.kind = "data" => k.body \in 1 .. sent')
      /\ faults' \in 0 .. MaxFaults
  BY <1>1, <1>2, <1>3, <1>4, <1>5, ExchangeTyped
<1>7. IInv' /\ started' = started
  BY <1>1, UnchangedGen DEF TransportTypeOK
<1> QED
  BY <1>1, <1>6, <1>7 DEF TransportTypeOK, probeVars, senderVars

\* The answer to a probe.
LEMMA TypesSenderOnProbe ==
  ASSUME TransportTypeOK, NEW m \in BagToSet(net), SenderOnProbe(m)
  PROVE  TransportTypeOK'
<1>1. /\ Exchange({m}, {Echo(m.body)})
      /\ UNCHANGED <<genVars, senderVars, probeVars, count_timer, expired, got>>
  BY DEF SenderOnProbe
<1>2. sent' = sent /\ sent \in Nat
  BY <1>1, TransportAssumption DEF TransportTypeOK, senderVars
<1>3. IsFiniteSet({Echo(m.body)}) /\ Datagram(Echo(m.body)) /\ Echo(m.body).kind = "echo"
  BY SentTyped DEF Echo
<1>5. IsFiniteSet({m}) /\ {m} \subseteq BagToSet(net) /\ sent <= sent
  BY <1>2, FS_Singleton
<1>6. /\ IsABag(net') /\ IsFiniteSet(BagToSet(net'))
      /\ \A k \in BagToSet(net') : Datagram(k) /\ (k.kind = "data" => k.body \in 1 .. sent')
      /\ faults' \in 0 .. MaxFaults
  BY <1>1, <1>2, <1>3, <1>5, ExchangeTyped
<1>7. IInv' /\ started' = started
  BY <1>1, UnchangedGen DEF TransportTypeOK
<1> QED
  BY <1>1, <1>6, <1>7 DEF TransportTypeOK, probeVars, senderVars

\* A packet received is one sent, and starts the generator if it is the first.
LEMMA TypesReceiverOnData ==
  ASSUME TransportTypeOK, NEW m \in BagToSet(net), ReceiverOnData(m)
  PROVE  TransportTypeOK'
<1>1. /\ m.kind = "data" /\ Exchange({m}, {}) /\ ReceivePacket(m.body % SeqMod)
      /\ got' = got \cup {m.body}
      /\ UNCHANGED <<senderVars, probeVars, count_timer, expired>>
  BY DEF ReceiverOnData
<1>2. sent' = sent /\ sent \in Nat /\ m.body \in 1 .. sent /\ m.body \in Int
  BY <1>1, TransportAssumption DEF TransportTypeOK, senderVars
<1>5. IsFiniteSet({m}) /\ {m} \subseteq BagToSet(net) /\ sent <= sent /\ IsFiniteSet({})
  <2>1. IsFiniteSet({}) /\ sent <= sent
    BY <1>2, FS_EmptySet
  <2>2. IsFiniteSet({m})
    BY FS_Singleton
  <2> QED
    BY <2>1, <2>2
<1>6. /\ IsABag(net') /\ IsFiniteSet(BagToSet(net'))
      /\ \A k \in BagToSet(net') : Datagram(k) /\ (k.kind = "data" => k.body \in 1 .. sent')
      /\ faults' \in 0 .. MaxFaults
  BY <1>1, <1>2, <1>5, ExchangeTyped
<1>7. IInv'
  BY <1>1, <1>2, SeqOf, StepIInv DEF TransportTypeOK, Next
<1>8. started' = TRUE
  BY <1>1 DEF ReceivePacket, ReceiveFirst, ReceiveOld, ReceiveNewer, TransportTypeOK, IInv, TypeOK
<1> QED
  BY <1>1, <1>2, <1>6, <1>7, <1>8 DEF TransportTypeOK, probeVars, senderVars

\* The estimate stays below the bound on the round trip time.
LEMMA TypesReceiverOnEcho ==
  ASSUME TransportTypeOK, NEW m \in BagToSet(net), ReceiverOnEcho(m)
  PROVE  TransportTypeOK'
<1>1. /\ Exchange({m}, {})
      /\ IF m.body \in DOMAIN rtt_count_map_
           THEN /\ rtt_' = (rtt_count_map_[m.body] + rtt_) \div 2
                /\ rtt_count_map_' = Keep(rtt_count_map_, DOMAIN rtt_count_map_ \ {m.body})
           ELSE UNCHANGED <<rtt_, rtt_count_map_>>
      /\ UNCHANGED <<genVars, senderVars, rtt_count_num_, count_timer, expired, got>>
  BY DEF ReceiverOnEcho
<1>2. sent' = sent /\ sent \in Nat
  BY <1>1, TransportAssumption DEF TransportTypeOK, senderVars
<1>5. IsFiniteSet({m}) /\ {m} \subseteq BagToSet(net) /\ sent <= sent /\ IsFiniteSet({})
  <2>1. IsFiniteSet({}) /\ sent <= sent
    BY <1>2, FS_EmptySet
  <2>2. IsFiniteSet({m})
    BY FS_Singleton
  <2> QED
    BY <2>1, <2>2
<1>6. /\ IsABag(net') /\ IsFiniteSet(BagToSet(net'))
      /\ \A k \in BagToSet(net') : Datagram(k) /\ (k.kind = "data" => k.body \in 1 .. sent')
      /\ faults' \in 0 .. MaxFaults
  BY <1>1, <1>2, <1>5, ExchangeTyped
<1>7. IInv' /\ started' = started
  BY <1>1, UnchangedGen DEF TransportTypeOK
<1>8. rtt_' \in 0 .. MaxRtt
  <2>1. CASE m.body \in DOMAIN rtt_count_map_
    <3>1. PICK a \in 0 .. MaxRtt : a = rtt_count_map_[m.body]
      BY <2>1 DEF TransportTypeOK
    <3>2. rtt_' = (a + rtt_) \div 2 /\ rtt_ \in 0 .. MaxRtt
      BY <1>1, <2>1, <3>1 DEF TransportTypeOK
    <3> QED
      BY <3>2, RttAssumption
  <2>2. CASE m.body \notin DOMAIN rtt_count_map_
    BY <1>1, <2>2 DEF TransportTypeOK
  <2> QED
    BY <2>1, <2>2
<1>9. rtt_count_map_' \in [DOMAIN rtt_count_map_' -> 0 .. MaxRtt]
  BY <1>1 DEF TransportTypeOK, Keep
<1> QED
  BY <1>1, <1>6, <1>7, <1>8, <1>9 DEF TransportTypeOK, senderVars

\* The receiver's timer: the generator, the probe and the request.
LEMMA TypesReceiverTimer ==
  ASSUME TransportTypeOK, ReceiverTimer
  PROVE  TransportTypeOK'
<1> DEFINE curRtt == IF count_timer % UpdateEvery = 0 THEN rtt_ ELSE rtt
           probing == count_timer % ProbeEvery = 0
           out == (IF probing THEN {Probe(rtt_count_num_)} ELSE {})
                    \cup IF nackBatch' = {} THEN {} ELSE {Nack(nackBatch')}
<1>1. /\ "receiver" \in expired /\ expired' = expired \ {"receiver"}
      /\ IF probing THEN StartProbe ELSE UNCHANGED <<rtt_count_map_, rtt_count_num_>>
      /\ UpdateRtt(curRtt) /\ GetNackBatch(curRtt)
      /\ Exchange({}, out)
      /\ UNCHANGED <<senderVars, rtt_, got>>
  BY DEF ReceiverTimer
<1>2. sent' = sent /\ sent \in Nat /\ sent <= sent
  BY <1>1, TransportAssumption DEF TransportTypeOK, senderVars
<1>3. curRtt \in 0 .. MaxRtt
  BY DEF TransportTypeOK, IInv, TypeOK
<1>4. IInv' /\ started' = started
  <2>1. rtt' = curRtt
    BY <1>1 DEF UpdateRtt
  <2> HIDE DEF curRtt
  <2> QED
    BY <1>1, <1>3, <2>1, GetNackBatchIInv DEF TransportTypeOK, GetNackBatch
<1>5. IsFiniteSet(out)
  BY FS_EmptySet, FS_Singleton, FS_Union
<1>6. \A o \in out : Datagram(o) /\ (o.kind = "data" => o.body \in 1 .. sent')
  <2>1. ASSUME NEW o \in out PROVE Datagram(o) /\ o.kind # "data"
    <3>1. CASE o = Probe(rtt_count_num_)
      BY <3>1, SentTyped, SentFields
    <3>2. CASE o = Nack(nackBatch')
      BY <3>2, SentTyped, SentFields
    <3> QED
      BY <2>1, <3>1, <3>2
  <2> QED
    BY <2>1
<1> HIDE DEF out
<1>7. /\ IsABag(net') /\ IsFiniteSet(BagToSet(net'))
      /\ \A k \in BagToSet(net') : Datagram(k) /\ (k.kind = "data" => k.body \in 1 .. sent')
      /\ faults' \in 0 .. MaxFaults
  BY <1>1, <1>2, <1>5, <1>6, FS_EmptySet, ExchangeTyped
<1>8. rtt_count_map_' \in [DOMAIN rtt_count_map_' -> 0 .. MaxRtt]
  <2>1. CASE probing
    BY <1>1, <2>1, RttAssumption DEF StartProbe, TransportTypeOK
  <2>2. CASE ~probing
    BY <1>1, <2>2 DEF TransportTypeOK
  <2> QED
    BY <2>1, <2>2
<1> QED
  BY <1>1, <1>2, <1>4, <1>7, <1>8 DEF TransportTypeOK, senderVars

\* A period passes: ages and remaining delays stay in their ranges.
LEMMA TypesElapsing ==
  ASSUME TransportTypeOK, Elapsing
  PROVE  TransportTypeOK'
<1>1. /\ expired' = {"receiver"} \cup IF sent < LastPacket THEN {"sender"} ELSE {}
      /\ nackList' = Aged(nackList)
      /\ rtt_count_map_' = [num \in DOMAIN rtt_count_map_ |->
                              Min({rtt_count_map_[num] + 1, MaxRtt})]
      /\ UNCHANGED <<started, lastSeq, rtt, nackBatch, senderVars, rtt_count_num_,
                     rtt_, count_timer, got>>
  BY DEF Elapsing
<1>2. sent' = sent
  BY <1>1 DEF senderVars
<1>3. IInv'
  <2>1. Elapse
    BY <1>1 DEF Elapse
  <2> QED
    BY <2>1, ElapseIInv DEF TransportTypeOK
<1>4. /\ IsABag(net') /\ IsFiniteSet(BagToSet(net'))
      /\ \A m \in BagToSet(net') : Datagram(m) /\ (m.kind = "data" => m.body \in 1 .. sent')
      /\ faults' \in 0 .. MaxFaults
  BY <1>2, ElapsingNet DEF TransportTypeOK
<1>5. rtt_count_map_' \in [DOMAIN rtt_count_map_' -> 0 .. MaxRtt]
  <2>1. ASSUME NEW num \in DOMAIN rtt_count_map_
        PROVE  Min({rtt_count_map_[num] + 1, MaxRtt}) \in 0 .. MaxRtt
    <3>1. rtt_count_map_[num] \in 0 .. MaxRtt
      BY <2>1 DEF TransportTypeOK
    <3>2. rtt_count_map_[num] + 1 \in Nat /\ MaxRtt \in Nat
      BY <3>1, RttAssumption
    <3>3. Min({rtt_count_map_[num] + 1, MaxRtt})
            = IF rtt_count_map_[num] + 1 <= MaxRtt THEN rtt_count_map_[num] + 1 ELSE MaxRtt
      BY <3>2, CappedIs
    <3> QED
      BY <3>2, <3>3
  <2> QED
    BY <1>1, <2>1
<1> QED
  BY <1>1, <1>2, <1>3, <1>4, <1>5 DEF TransportTypeOK, senderVars

-----------------------------------------------------------------------------
(* Round trip times.                                                       *)

\* Datagrams that are no probes and no answers do not matter to the round trip
\* times, as long as the probes keep their instants.
LEMMA ProbesUntouched ==
  ASSUME TransportTypeOK, ProbesTimed,
         NEW M \in SUBSET BagToSet(net), IsFiniteSet(M),
         NEW out, IsFiniteSet(out), \A o \in out : o.kind \notin {"probe", "echo"}, Exchange(M, out),
         DOMAIN rtt_count_map_' \subseteq DOMAIN rtt_count_map_,
         \A num \in DOMAIN rtt_count_map_' : rtt_count_map_'[num] = rtt_count_map_[num]
  PROVE  ProbesTimed'
<1>1. PICK through \in SUBSET out : BagToSet(net') \subseteq BagToSet(net) \cup through
  BY ExchangeIs
<1> QED
  BY <1>1 DEF ProbesTimed

\* Every step keeps what an answer can still measure: a probe number that is
\* used again starts a new measurement.
LEMMA ProbesStep ==
  ASSUME TransportTypeOK, ProbesTimed, [TransportNext]_vars
  PROVE  ProbesTimed'
<1>0. IsFiniteSet({}) /\ {} \subseteq BagToSet(net)
  BY FS_EmptySet
<1>1. CASE SenderTimer
  <2>1. Exchange({}, {Data(sent + 1)}) /\ rtt_count_map_' = rtt_count_map_
    BY <1>1 DEF SenderTimer, probeVars
  <2>2. \A o \in {Data(sent + 1)} : o.kind \notin {"probe", "echo"}
    BY SentFields
  <2> QED
    BY <1>0, <2>1, <2>2, SentTyped, ProbesUntouched
<1>2. ASSUME NEW m \in BagToSet(net), SenderOnNack(m) PROVE ProbesTimed'
  <2> DEFINE out == {Data(pkt_map_[s]) : s \in Pack!unpacking_nack(m.body) \cap DOMAIN pkt_map_}
  <2>1. Exchange({m}, out) /\ rtt_count_map_' = rtt_count_map_
    BY <1>2 DEF SenderOnNack, probeVars
  <2>2. \A o \in out : o.kind \notin {"probe", "echo"}
    BY SentFields
  <2>3. IsFiniteSet(out)
    BY AnswerFinite DEF TransportTypeOK
  <2> HIDE DEF out
  <2>4. {m} \in SUBSET BagToSet(net) /\ IsFiniteSet({m})
    BY FS_Singleton
  <2> QED
    BY <2>1, <2>2, <2>3, <2>4, ProbesUntouched
<1>3. ASSUME NEW m \in BagToSet(net), SenderOnProbe(m) PROVE ProbesTimed'
  <2>1. m.kind = "probe" /\ Exchange({m}, {Echo(m.body)}) /\ rtt_count_map_' = rtt_count_map_
    BY <1>3 DEF SenderOnProbe, probeVars
  <2>2. {m} \in SUBSET BagToSet(net) /\ IsFiniteSet({m}) /\ IsFiniteSet({Echo(m.body)})
    BY FS_Singleton
  <2>3. PICK through \in SUBSET {Echo(m.body)} :
          BagToSet(net') \subseteq BagToSet(net) \cup through
    BY <2>1, <2>2, ExchangeIs
  <2> SUFFICES ASSUME NEW k \in BagToSet(net')
               PROVE  /\ k.kind = "probe" /\ k.body \in DOMAIN rtt_count_map_ =>
                           rtt_count_map_[k.body] + k.left <= MaxDelay
                      /\ k.kind = "echo" /\ k.body \in DOMAIN rtt_count_map_ =>
                           rtt_count_map_[k.body] + k.left <= 2 * MaxDelay
    BY <2>1 DEF ProbesTimed
  <2>4. CASE k \in BagToSet(net)
    BY <2>4 DEF ProbesTimed
  <2>5. CASE k = Echo(m.body)
    <3>1. k.kind = "echo" /\ k.body = m.body /\ k.left = MaxDelay
      BY <2>5, SentFields
    <3>2. ASSUME m.body \in DOMAIN rtt_count_map_
          PROVE  rtt_count_map_[m.body] + MaxDelay <= 2 * MaxDelay
      <4>1. rtt_count_map_[m.body] + m.left <= MaxDelay
        BY <2>1, <3>2 DEF ProbesTimed
      <4>2. rtt_count_map_[m.body] \in 0 .. MaxRtt /\ m.left \in 0 .. MaxDelay
        BY <3>2 DEF TransportTypeOK, Datagram
      <4> QED
        BY <4>1, <4>2, RttAssumption, TransportAssumption
    <3> QED
      BY <3>1, <3>2
  <2> QED
    BY <2>3, <2>4, <2>5
<1>4. ASSUME NEW m \in BagToSet(net), ReceiverOnData(m) PROVE ProbesTimed'
  <2>1. Exchange({m}, {}) /\ rtt_count_map_' = rtt_count_map_
    BY <1>4 DEF ReceiverOnData, probeVars
  <2>2. {m} \in SUBSET BagToSet(net) /\ IsFiniteSet({m})
    BY FS_Singleton
  <2> QED
    BY <1>0, <2>1, <2>2, ProbesUntouched
<1>5. ASSUME NEW m \in BagToSet(net), ReceiverOnEcho(m) PROVE ProbesTimed'
  <2>1. Exchange({m}, {})
    BY <1>5 DEF ReceiverOnEcho
  <2>2. /\ DOMAIN rtt_count_map_' \subseteq DOMAIN rtt_count_map_
        /\ \A num \in DOMAIN rtt_count_map_' : rtt_count_map_'[num] = rtt_count_map_[num]
    BY <1>5 DEF ReceiverOnEcho, Keep
  <2>3. {m} \in SUBSET BagToSet(net) /\ IsFiniteSet({m})
    BY FS_Singleton
  <2> QED
    BY <1>0, <2>1, <2>2, <2>3, ProbesUntouched
<1>6. CASE ReceiverTimer
  <2> DEFINE probing == count_timer % ProbeEvery = 0
             probes == IF probing THEN {Probe(rtt_count_num_)} ELSE {}
             nacks == IF nackBatch' = {} THEN {} ELSE {Nack(nackBatch')}
  <2>1. /\ Exchange({}, probes \cup nacks)
        /\ IF probing THEN StartProbe ELSE UNCHANGED <<rtt_count_map_, rtt_count_num_>>
    BY <1>6 DEF ReceiverTimer
  <2>2. IsFiniteSet(probes \cup nacks)
    BY FS_EmptySet, FS_Singleton, FS_Union
  <2>3. /\ \A o \in probes : probing /\ o.kind = "probe" /\ o.body = rtt_count_num_ /\ o.left = MaxDelay
        /\ \A o \in nacks : o.kind = "nack"
    BY SentFields
  <2> HIDE DEF probes, nacks
  <2>4. PICK through \in SUBSET (probes \cup nacks) :
          BagToSet(net') \subseteq BagToSet(net) \cup through
    BY <1>0, <2>1, <2>2, ExchangeIs
  <2> SUFFICES ASSUME NEW k \in BagToSet(net'), k.body \in DOMAIN rtt_count_map_'
               PROVE  /\ k.kind = "probe" => rtt_count_map_'[k.body] + k.left <= MaxDelay
                      /\ k.kind = "echo" => rtt_count_map_'[k.body] + k.left <= 2 * MaxDelay
    BY DEF ProbesTimed
  <2>5. CASE k \in BagToSet(net)
    <3>1. k.left \in 0 .. MaxDelay
      BY <2>5 DEF TransportTypeOK, Datagram
    <3>2. CASE probing /\ k.body = rtt_count_num_
      <4>1. rtt_count_map_'[k.body] = 0
        BY <2>1, <3>2 DEF StartProbe
      <4> QED
        BY <3>1, <4>1, TransportAssumption
    <3>3. CASE ~(probing /\ k.body = rtt_count_num_)
      <4>1. k.body \in DOMAIN rtt_count_map_ /\ rtt_count_map_'[k.body] = rtt_count_map_[k.body]
        BY <2>1, <3>3 DEF StartProbe
      <4> QED
        BY <2>5, <4>1 DEF ProbesTimed
    <3> QED
      BY <3>2, <3>3
  <2>6. CASE k \in nacks
    BY <2>3, <2>6
  <2>7. CASE k \in probes
    <3>1. k.kind = "probe" /\ k.left = MaxDelay /\ rtt_count_map_'[k.body] = 0
      BY <2>1, <2>3, <2>7 DEF StartProbe
    <3> QED
      BY <3>1, TransportAssumption
  <2> QED
    BY <2>4, <2>5, <2>6, <2>7
<1>7. CASE Elapsing
  <2> SUFFICES ASSUME NEW k \in BagToSet(net'), k.body \in DOMAIN rtt_count_map_'
               PROVE  /\ k.kind = "probe" => rtt_count_map_'[k.body] + k.left <= MaxDelay
                      /\ k.kind = "echo" => rtt_count_map_'[k.body] + k.left <= 2 * MaxDelay
    BY DEF ProbesTimed
  <2>1. k.body \in DOMAIN rtt_count_map_
        /\ rtt_count_map_'[k.body] = Min({rtt_count_map_[k.body] + 1, MaxRtt})
    BY <1>7 DEF Elapsing
  <2>2. PICK o \in BagToSet(net) : o.kind = k.kind /\ o.body = k.body /\ o.left = k.left + 1
    BY <1>7, ElapsingNet
  <2>3. k.left \in 0 .. MaxDelay /\ rtt_count_map_[k.body] \in 0 .. MaxRtt
    BY <1>7, <2>1, ElapsingNet DEF TransportTypeOK, Datagram
  <2>4. rtt_count_map_[k.body] + 1 \in Nat /\ MaxRtt \in Nat
    BY <2>3, RttAssumption
  <2>5. rtt_count_map_'[k.body] \in Nat /\ rtt_count_map_'[k.body] <= rtt_count_map_[k.body] + 1
    <3>1. PICK a \in Nat : a = rtt_count_map_[k.body] + 1
      BY <2>4
    <3>2. rtt_count_map_'[k.body] = IF a <= MaxRtt THEN a ELSE MaxRtt
      BY <2>1, <2>4, <3>1, CappedIs
    <3> QED
      BY <2>4, <3>1, <3>2
  <2>6. /\ k.kind = "probe" => rtt_count_map_[k.body] + (k.left + 1) <= MaxDelay
        /\ k.kind = "echo" => rtt_count_map_[k.body] + (k.left + 1) <= 2 * MaxDelay
    BY <2>1, <2>2 DEF ProbesTimed
  <2> QED
    BY <2>3, <2>4, <2>5, <2>6, TransportAssumption
<1>8. CASE UNCHANGED vars
  BY <1>8 DEF vars, probeVars, ProbesTimed
<1> QED
  BY <1>1, <1>2, <1>3, <1>4, <1>5, <1>6, <1>7, <1>8 DEF TransportNext, Receive

\* Every step keeps the types.
LEMMA TypesStep ==
  ASSUME TransportTypeOK, [TransportNext]_vars
  PROVE  TransportTypeOK'
<1>1. CASE UNCHANGED vars
  <2>1. IInv' /\ started' = started
    BY <1>1, UnchangedGen DEF TransportTypeOK, vars
  <2> QED
    BY <1>1, <2>1 DEF TransportTypeOK, vars, senderVars, probeVars
<1> QED
  BY <1>1, TypesSenderTimer, TypesReceiverTimer, TypesElapsing, TypesSenderOnNack,
     TypesSenderOnProbe, TypesReceiverOnData, TypesReceiverOnEcho DEF TransportNext, Receive

\* The variables of both programs and of the network keep their types.
THEOREM TransportTypes == TransportSpec => [](TransportTypeOK /\ ProbesTimed)
<1>1. TransportTypeOK /\ ProbesTimed /\ [TransportNext]_vars => (TransportTypeOK /\ ProbesTimed)'
  BY TypesStep, ProbesStep
<1> QED
  BY <1>1, TypesInit, PTL DEF TransportSpec

\* handle_receive_from never matches an answer with an earlier probe of the same
\* number: what it measures is at most the longest round trip, whatever is lost
\* or duplicated and however often the probe numbers wrap around.
THEOREM MeasurementsSound == TransportSpec => []MeasurementSound
<1>1. TransportTypeOK /\ ProbesTimed => MeasurementSound
  BY DEF ProbesTimed, MeasurementSound
<1> QED
  BY <1>1, TransportTypes, PTL

-----------------------------------------------------------------------------
(* What the invariant says of a state.                                     *)

Packing == INSTANCE NackPackProofs WITH PidSpace <- SeqMod

\* A request asks for numbers of its batch only.
LEMMA UnpackedIsPacked ==
  ASSUME NEW batch \in SUBSET SeqNum
  PROVE  Pack!unpacking_nack(Pack!packing_nack(batch)) \subseteq batch
<1>1. batch \in SUBSET Packing!Numbers
  BY DEF Packing!Numbers, SeqNum
<1>2. Packing!unpacking_nack(Packing!packing_nack(batch)) \subseteq batch
  BY <1>1, Packing!PackingExact, SeqModAssumption, TransportAssumption
<1>3. Pack!packing_nack(batch) = Packing!packing_nack(batch)
  BY DEF Pack!packing_nack, Packing!packing_nack, Pack!ItemPids, Packing!ItemPids,
         Pack!ItemFrom, Packing!ItemFrom, Pack!Ascending, Packing!Ascending,
         Pack!Min, Packing!Min, Pack!Cardinality, Packing!Cardinality
<1>4. \A msg : Pack!unpacking_nack(msg) = Packing!unpacking_nack(msg)
  BY DEF Pack!unpacking_nack, Packing!unpacking_nack, Pack!ItemSeqs, Packing!ItemSeqs
<1> QED
  BY <1>2, <1>3, <1>4

\* The bounds on the age of what is on its way.
LEMMA Bounds ==
  ASSUME TimelyNetwork
  PROVE  /\ MaxBehind \in Nat /\ MaxAsked \in Nat /\ MaxDelay \in Nat /\ MaxBehind <= MaxAsked
         /\ MaxAsked = MaxBehind + MaxNackRetries * (MaxRtt + 1)
         /\ MaxFaults \in Nat /\ MaxBehind = MaxFaults + MaxDelay + 1
         /\ MaxAsked + 2 * MaxDelay < SeqMod \div 2
         /\ SeqMod \in Nat \ {0} /\ 2 * (SeqMod \div 2) = SeqMod /\ SeqMod \div 2 \in Nat
         /\ FirstPacket \in Nat \ {0} /\ LastPacket \in Nat
<1>1. MaxDelay \in Nat /\ MaxFaults \in Nat /\ FirstPacket \in Nat \ {0} /\ LastPacket \in Nat
  BY TransportAssumption
<1>2. MaxNackRetries \in Nat /\ MaxRtt + 1 \in Nat
  BY RetryAssumption, RttAssumption
<1>3. PICK w : w = MaxNackRetries * (MaxRtt + 1)
  OBVIOUS
<1>4. w \in Nat
  BY <1>2, <1>3
<1>5. MaxBehind = MaxFaults + MaxDelay + 1 /\ MaxAsked = MaxBehind + w
  BY <1>3 DEF MaxBehind, MaxAsked
<1> QED
  BY <1>1, <1>3, <1>4, <1>5, SeqModAssumption DEF TimelyNetwork

\* What an entry of the list has waited, from its retries and its age.
LEMMA WaitedIs ==
  ASSUME NEW info \in NackInfo
  PROVE  /\ Waited(info) \in Nat /\ Waited(info) <= MaxNackRetries * (MaxRtt + 1)
         /\ info.retries * (MaxRtt + 1) \in Nat
         /\ (info.retries + 1) * (MaxRtt + 1) = info.retries * (MaxRtt + 1) + MaxRtt + 1
         /\ (info.retries + 1) * (MaxRtt + 1) <= MaxNackRetries * (MaxRtt + 1)
<1>1. PICK r \in 0 .. MaxNackRetries - 1, a \in 0 .. MaxRtt : r = info.retries /\ a = info.age
  BY DEF NackInfo
<1>2. MaxNackRetries \in Nat /\ MaxRtt \in Nat /\ r \in Nat /\ a \in Nat /\ r + 1 <= MaxNackRetries
      /\ a <= MaxRtt
  BY <1>1, RetryAssumption, RttAssumption
<1> DEFINE M == MaxRtt + 1
<1>3. M \in Nat /\ M = MaxRtt + 1
  BY <1>2
<1> HIDE DEF M
<1>4. r * M \in Nat /\ (r + 1) * M = r * M + M
  BY <1>2, <1>3
<1>5. (r + 1) * M <= MaxNackRetries * M
  <2>1. (MaxNackRetries - (r + 1)) * M >= 0
    BY <1>2, <1>3
  <2>2. (MaxNackRetries - (r + 1)) * M = MaxNackRetries * M - (r + 1) * M
    BY <1>2, <1>3
  <2>3. MaxNackRetries * M \in Int /\ (r + 1) * M \in Int
    BY <1>2, <1>3
  <2> QED
    BY <2>1, <2>2, <2>3
<1>6. PICK x, y, z : x = r * M /\ y = (r + 1) * M /\ z = MaxNackRetries * M
  OBVIOUS
<1>7. x \in Nat /\ y = x + MaxRtt + 1 /\ y <= z /\ z \in Int
  BY <1>2, <1>3, <1>4, <1>5, <1>6
<1>8. Waited(info) = x + a + IF "receiver" \in expired /\ a = MaxRtt THEN 1 ELSE 0
  BY <1>1, <1>6 DEF Waited, M
<1>9. Waited(info) \in Nat /\ Waited(info) <= z
  BY <1>2, <1>7, <1>8
<1> QED
  BY <1>1, <1>6, <1>7, <1>9 DEF M

\* The newest packet is one received.
LEMMA NewestIs ==
  ASSUME TransportTypeOK, got # {}
  PROVE  Newest \in got /\ (\A b \in got : b <= Newest) /\ Newest \in 1 .. sent
         /\ sent \in Nat /\ \A n \in Int : Overtaken(n) <=> n < Newest
<1>1. sent \in Nat /\ got \subseteq 1 .. sent
  BY TransportAssumption DEF TransportTypeOK
<1>2. \E x \in got : \A y \in got : x >= y
  BY <1>1, LastOf
<1>3. Newest \in got /\ \A y \in got : Newest >= y
  BY <1>2 DEF Newest, Max
<1>4. PICK b : b = Newest
  OBVIOUS
<1>5. b \in got /\ (\A y \in got : y <= b)
  BY <1>1, <1>3, <1>4
<1>6. \A n \in Int : Overtaken(n) <=> n < b
  BY <1>1, <1>5 DEF Overtaken
<1> QED
  BY <1>1, <1>4, <1>5, <1>6

\* The receiver is never far behind: of the packets after the newest one, those
\* that are not on their way have been lost.
LEMMA Behind ==
  ASSUME StreamInv, TimelyNetwork, got # {}
  PROVE  Ahead - Newest <= MaxBehind /\ Newest \in FirstPacket .. sent /\ Newest <= Ahead
         /\ Ahead \in Nat /\ sent <= Ahead /\ Ahead <= sent + 1
<1>1. PICK b : b = Newest
  OBVIOUS
<1>2. b \in got /\ b \in 1 .. sent /\ sent \in Nat /\ (\A n \in Int : Overtaken(n) <=> n < b)
      /\ \A c \in got : c <= b
  BY <1>1, NewestIs DEF StreamInv
<1>3. Ahead \in Nat /\ sent <= Ahead /\ Ahead <= sent + 1
  BY <1>2 DEF Ahead
<1>4. b \in FirstPacket .. sent
  BY <1>2 DEF StreamInv, GotStreamed
<1> DEFINE last == Ahead - MaxDelay - 1
           I == b + 1 .. last
<1>5. MaxDelay \in Nat /\ last \in Int /\ last <= sent /\ FirstPacket \in Nat
  BY <1>3, <1>2, Bounds
<1>6. ASSUME NEW n \in I PROVE n \in Lost
  <2>1. n \in FirstPacket .. sent /\ n \in Int /\ b < n /\ Ahead - n > MaxDelay
    BY <1>2, <1>3, <1>4, <1>5
  <2>2. n \notin got /\ ~Overtaken(n)
    BY <1>2, <2>1
  <2>3. ASSUME NEW m \in BagToSet(net), m.kind = "data", m.body = n PROVE FALSE
    <3>1. Ahead - n <= MaxDelay - m.left
      BY <2>2, <2>3 DEF StreamInv, DataTimely
    <3>2. m.left \in 0 .. MaxDelay
      BY DEF StreamInv, TransportTypeOK, Datagram
    <3> QED
      BY <1>3, <1>5, <2>1, <3>1, <3>2
  <2> QED
    BY <2>1, <2>2, <2>3 DEF Lost
<1>7. IsFiniteSet(Lost)
  <2>1. IsFiniteSet(FirstPacket .. sent)
    BY <1>2, <1>5, FS_Interval
  <2> QED
    BY <2>1, FS_Subset DEF Lost
<1>8. Cardinality(I) <= Cardinality(Lost) /\ Cardinality(I) \in Nat /\ Cardinality(Lost) \in Nat
  <2>1. I \subseteq Lost
    BY <1>6
  <2> HIDE DEF I
  <2> QED
    BY <1>7, <2>1, FS_Subset, FS_CardinalityType
<1>9. Cardinality(I) = IF b + 1 > last THEN 0 ELSE last - (b + 1) + 1
  <2>1. PICK l, c : l = last /\ c = b + 1
    OBVIOUS
  <2>2. l \in Int /\ c \in Int
    BY <1>2, <1>5, <2>1
  <2>3. Cardinality(c .. l) = IF c > l THEN 0 ELSE l - c + 1
    BY <2>2, FS_Interval
  <2> QED
    BY <2>1, <2>3
<1>10. Cardinality(Lost) <= MaxFaults /\ MaxFaults \in Nat
  BY <1>8, Bounds DEF StreamInv, LostCounted, TransportTypeOK
<1> HIDE DEF I
<1>11. Ahead - b <= MaxFaults + MaxDelay + 1
  BY <1>2, <1>3, <1>5, <1>8, <1>9, <1>10
<1> QED
  BY <1>1, <1>2, <1>3, <1>4, <1>11, Bounds

\* What the list stands for: PacketOf finds the packet.
LEMMA ListedPacket ==
  ASSUME StreamInv, TimelyNetwork, NEW s \in DOMAIN nackList
  PROVE  /\ got # {} /\ PacketOf(s) \in FirstPacket .. sent /\ PacketOf(s) % SeqMod = s
         /\ PacketOf(s) \notin got /\ PacketOf(s) < Newest
         /\ Ahead - PacketOf(s) <= MaxBehind + Waited(nackList[s])
         /\ Ahead - PacketOf(s) <= MaxAsked
         /\ nackList[s] \in NackInfo
<1>1. PICK p \in FirstPacket .. sent :
        /\ p % SeqMod = s /\ p \notin got /\ Overtaken(p)
        /\ Ahead - p <= MaxBehind + Waited(nackList[s])
  BY DEF StreamInv, ListTimely
<1>2. got # {}
  BY <1>1 DEF Overtaken
<1>3. PICK b : b = Newest
  OBVIOUS
<1>4. /\ b \in Int /\ p \in Int /\ p < b /\ b <= Ahead /\ Ahead \in Nat
  BY <1>1, <1>2, <1>3, NewestIs, Behind, Bounds DEF StreamInv
<1>5. nackList[s] \in NackInfo
  BY DEF StreamInv, TransportTypeOK, IInv, TypeOK
<1>6. PICK w \in Nat : w = Waited(nackList[s])
  BY <1>5, WaitedIs
<1>7. PICK z : z = MaxNackRetries * (MaxRtt + 1)
  OBVIOUS
<1>8. w <= z /\ z \in Nat /\ MaxAsked = MaxBehind + z
  BY <1>5, <1>6, <1>7, WaitedIs, Bounds, RetryAssumption, RttAssumption
<1>9. Ahead - p <= MaxAsked
  BY <1>1, <1>4, <1>6, <1>8, Bounds
<1>10. b - p < SeqMod /\ p <= b
  BY <1>4, <1>9, Bounds
<1>11. lastSeq = b % SeqMod
  BY <1>2, <1>3 DEF StreamInv, LastSeqIsNewest, TransportTypeOK
<1>12. Dist(s, lastSeq) = b - p
  BY <1>1, <1>4, <1>10, <1>11, DistIs
<1>13. PacketOf(s) = p
  BY <1>3, <1>4, <1>12 DEF PacketOf
<1> QED
  BY <1>1, <1>2, <1>3, <1>4, <1>5, <1>9, <1>13

-----------------------------------------------------------------------------
(* The invariant is kept.                                                  *)

\* Packets less than a turn apart have different numbers.
LEMMA SamePacket ==
  ASSUME NEW x \in Int, NEW y \in Int, x <= y, y - x < SeqMod, x % SeqMod = y % SeqMod
  PROVE  x = y
<1>1. x - y < SeqMod
  BY SeqModPositive
<1> QED
  BY <1>1, RemainderInjective, SeqModPositive

\* The initial states satisfy the invariant: what the sender has kept of the
\* packets before FirstPacket is the newest of each number.
LEMMA StreamInit == TransportInit => StreamInv
<1> SUFFICES ASSUME TransportInit PROVE StreamInv
  OBVIOUS
<1>1. TransportTypeOK
  BY TypesInit
<1>2. /\ sent = FirstPacket - 1 /\ pkt_map_ = KeptAfter(sent) /\ net = EmptyBag /\ got = {}
      /\ ~started /\ nackList = [s \in {} |-> FreshNack] /\ faults = 0
  BY TransportAssumption DEF TransportInit, Init
<1>3. BagToSet(net) = {} /\ DOMAIN nackList = {} /\ sent \in Nat /\ FirstPacket \in Nat
  BY <1>2, TransportAssumption DEF EmptyBag, SetToBag, BagToSet
<1>4. KeptNewest
  <2> SUFFICES ASSUME NEW p \in 1 .. sent, sent - p < SeqMod
               PROVE  p % SeqMod \in DOMAIN pkt_map_ /\ pkt_map_[p % SeqMod] = p
    BY DEF KeptNewest
  <2> DEFINE I == {i \in 1 .. sent : i % SeqMod = p % SeqMod}
  <2>1. p % SeqMod \in DOMAIN pkt_map_ /\ pkt_map_[p % SeqMod] = Max(I)
    BY <1>2 DEF KeptAfter
  <2>2. ASSUME NEW i \in I PROVE i <= p
    <3>1. i \in Int /\ p \in Int /\ i % SeqMod = p % SeqMod /\ i <= sent
      OBVIOUS
    <3>2. CASE i >= p
      <4>1. p <= i /\ i - p < SeqMod
        BY <1>3, <3>1, <3>2, SeqModPositive
      <4>2. p = i
        BY <3>1, <4>1, SamePacket
      <4> QED
        BY <3>1, <4>2
    <3> QED
      BY <3>1, <3>2
  <2>3. p \in I
    OBVIOUS
  <2>4. \A x \in I : (\A y \in I : x >= y) => x = p
    BY <2>2, <2>3
  <2>5. \A y \in I : p >= y
    BY <2>2
  <2> HIDE DEF I
  <2>6. Max(I) = p
    BY <2>3, <2>4, <2>5 DEF Max
  <2> QED
    BY <2>1, <2>6
<1>5. Lost = {}
  BY <1>2, <1>3 DEF Lost
<1>6. LostCounted
  BY <1>2, <1>5, FS_EmptySet DEF LostCounted
<1> QED
  BY <1>1, <1>2, <1>3, <1>4, <1>6
  DEF StreamInv, GotStreamed, DataTimely, NacksTimely, ListTimely, LastSeqIsNewest

\* If nothing is lost that was not lost before, the faults still account for it.
LEMMA NoMoreLost ==
  ASSUME StreamInv, Lost' \subseteq Lost, faults \in Nat, faults' \in Nat, faults <= faults'
  PROVE  LostCounted'
<1>1. IsFiniteSet(FirstPacket .. sent)
  BY TransportAssumption, FS_Interval DEF StreamInv, TransportTypeOK
<1>2. IsFiniteSet(Lost)
  BY <1>1, FS_Subset DEF Lost
<1>3. IsFiniteSet(Lost') /\ Cardinality(Lost') <= Cardinality(Lost)
  BY <1>2, FS_Subset
<1>4. Cardinality(Lost) \in Nat /\ Cardinality(Lost') \in Nat
  BY <1>2, <1>3, FS_CardinalityType
<1> QED
  BY <1>3, <1>4 DEF StreamInv, LostCounted

\* What a handler may do to the network without disturbing the invariant:
\* deliver data to the receiver, send again what was overtaken, and ask for what
\* was overtaken.
LEMMA HandlerStep ==
  ASSUME StreamInv, TimelyNetwork,
         NEW M \in SUBSET BagToSet(net), IsFiniteSet(M), NEW out, IsFiniteSet(out),
         Exchange(M, out), UNCHANGED <<sent, pkt_map_>>, Ahead' = Ahead,
         got \subseteq got', got' \subseteq FirstPacket .. sent,
         \A m \in M : m.kind = "data" => m.body \in got',
         \A o \in out : o.kind = "data" =>
           /\ o.body \in FirstPacket .. sent /\ Overtaken(o.body)
           /\ Ahead - o.body <= MaxAsked + 2 * MaxDelay - o.left,
         \A o \in out : o.kind = "nack" =>
           \A s \in Pack!unpacking_nack(o.body) :
             \E p \in FirstPacket .. sent :
               p % SeqMod = s /\ Overtaken(p) /\ Ahead - p <= MaxAsked + MaxDelay - o.left
  PROVE  GotStreamed' /\ KeptNewest' /\ LostCounted' /\ DataTimely' /\ NacksTimely'
<1>1. TransportTypeOK
  BY DEF StreamInv
<1>2. PICK through \in SUBSET out :
        /\ BagToSet(net') \subseteq BagToSet(net) \cup through
        /\ BagToSet(net) \ M \subseteq BagToSet(net')
        /\ faults' \in 0 .. MaxFaults /\ faults <= faults'
  BY <1>1, ExchangeIs
<1>3. GotStreamed' /\ KeptNewest'
  BY DEF StreamInv, GotStreamed, KeptNewest
<1>4. \A n : Overtaken(n) => Overtaken(n)'
  BY DEF Overtaken
<1>5. Lost' \subseteq Lost
  BY <1>2 DEF Lost
<1>6. LostCounted'
  BY <1>1, <1>2, <1>5, NoMoreLost, TransportAssumption DEF TransportTypeOK
<1>7. DataTimely'
  <2> SUFFICES ASSUME NEW m \in BagToSet(net'), m.kind = "data"
               PROVE  /\ m.body \in FirstPacket .. sent
                      /\ Ahead - m.body <= MaxAsked + 2 * MaxDelay - m.left
                      /\ ~Overtaken(m.body)' =>
                           m.body \in got' \/ Ahead - m.body <= MaxDelay - m.left
    BY DEF DataTimely
  <2>1. CASE m \in BagToSet(net)
    BY <1>4, <2>1 DEF StreamInv, DataTimely
  <2>2. CASE m \in out
    BY <1>4, <2>2
  <2> QED
    BY <1>2, <2>1, <2>2
<1>8. NacksTimely'
  <2> SUFFICES ASSUME NEW m \in BagToSet(net'), m.kind = "nack",
                      NEW s \in Pack!unpacking_nack(m.body)
               PROVE  \E p \in FirstPacket .. sent :
                        /\ p % SeqMod = s /\ Overtaken(p)'
                        /\ Ahead - p <= MaxAsked + MaxDelay - m.left
    BY DEF NacksTimely
  <2>1. CASE m \in BagToSet(net)
    BY <1>4, <2>1 DEF StreamInv, NacksTimely
  <2>2. CASE m \in out
    BY <1>4, <2>2
  <2> QED
    BY <1>2, <2>1, <2>2
<1> QED
  BY <1>3, <1>6, <1>7, <1>8

\* The handlers that leave the stream and the list alone.
LEMMA ListUntouched ==
  ASSUME StreamInv, UNCHANGED <<nackList, started, lastSeq, sent, expired, got>>
  PROVE  Ahead' = Ahead /\ ListTimely' /\ LastSeqIsNewest'
<1>1. Ahead' = Ahead
  BY DEF Ahead
<1>2. LastSeqIsNewest'
  BY DEF StreamInv, LastSeqIsNewest, Newest
<1>3. ListTimely'
  BY <1>1 DEF StreamInv, ListTimely, Overtaken, Waited
<1> QED
  BY <1>1, <1>2, <1>3

\* The sender answers a request with packets that were overtaken: pkt_map_ still
\* holds the packet that was asked for.
LEMMA StreamSenderOnNack ==
  ASSUME StreamInv, TimelyNetwork, NEW m \in BagToSet(net), SenderOnNack(m)
  PROVE  StreamInv'
<1> DEFINE seqs == Pack!unpacking_nack(m.body)
           out == {Data(pkt_map_[s]) : s \in seqs \cap DOMAIN pkt_map_}
<1>1. /\ m.kind = "nack" /\ Exchange({m}, out)
      /\ UNCHANGED <<genVars, senderVars, probeVars, count_timer, expired, got>>
  BY DEF SenderOnNack
<1>2. TransportTypeOK'
  BY TypesSenderOnNack DEF StreamInv
<1>3. Ahead' = Ahead /\ ListTimely' /\ LastSeqIsNewest'
  BY <1>1, ListUntouched DEF genVars, senderVars
<1>4. IsFiniteSet(out)
  BY AnswerFinite DEF StreamInv, TransportTypeOK
<1>5. m.left \in 0 .. MaxDelay /\ sent \in Nat /\ Ahead \in Int /\ sent <= Ahead
  <2>1. m.left \in 0 .. MaxDelay
    BY DEF StreamInv, TransportTypeOK, Datagram
  <2>2. sent \in Nat
    BY TransportAssumption DEF StreamInv, TransportTypeOK
  <2> QED
    BY <2>1, <2>2 DEF Ahead
<1>6. ASSUME NEW s \in seqs \cap DOMAIN pkt_map_
      PROVE  /\ Data(pkt_map_[s]).kind = "data" /\ Data(pkt_map_[s]).left = MaxDelay
             /\ Data(pkt_map_[s]).body \in FirstPacket .. sent
             /\ Overtaken(Data(pkt_map_[s]).body)
             /\ Ahead - Data(pkt_map_[s]).body <= MaxAsked + 2 * MaxDelay - MaxDelay
  <2>1. PICK p \in FirstPacket .. sent :
          p % SeqMod = s /\ Overtaken(p) /\ Ahead - p <= MaxAsked + MaxDelay - m.left
    BY <1>1, <1>6 DEF StreamInv, NacksTimely
  <2>2. p \in 1 .. sent /\ sent - p < SeqMod /\ p \in Int
    BY <1>5, <2>1, Bounds
  <2>3. pkt_map_[s] = p
    BY <2>1, <2>2 DEF StreamInv, KeptNewest
  <2>4. Ahead - p <= MaxAsked + 2 * MaxDelay - MaxDelay
    BY <1>5, <2>1, <2>2, Bounds
  <2> QED
    BY <2>1, <2>3, <2>4, SentFields
<1>7. \A o \in out : /\ o.kind = "data" /\ o.left = MaxDelay
                     /\ o.body \in FirstPacket .. sent /\ Overtaken(o.body)
                     /\ Ahead - o.body <= MaxAsked + 2 * MaxDelay - MaxDelay
  BY <1>6
<1> HIDE DEF out
<1>8. {m} \subseteq BagToSet(net) /\ IsFiniteSet({m}) /\ \A k \in {m} : k.kind # "data"
  BY <1>1, FS_Singleton
<1>9. got' = got /\ got \subseteq FirstPacket .. sent /\ UNCHANGED <<sent, pkt_map_>>
  BY <1>1 DEF StreamInv, GotStreamed, senderVars
<1>10. GotStreamed' /\ KeptNewest' /\ LostCounted' /\ DataTimely' /\ NacksTimely'
  BY <1>1, <1>3, <1>4, <1>7, <1>8, <1>9, HandlerStep
<1> QED
  BY <1>2, <1>3, <1>10 DEF StreamInv

\* Probes and their answers.
LEMMA StreamProbes ==
  ASSUME StreamInv, TimelyNetwork, NEW m \in BagToSet(net), SenderOnProbe(m) \/ ReceiverOnEcho(m)
  PROVE  StreamInv'
<1>1. PICK out : /\ Exchange({m}, out) /\ IsFiniteSet(out) /\ \A o \in out : o.kind = "echo"
                 /\ UNCHANGED <<genVars, senderVars, expired, got>> /\ m.kind # "data"
  <2>1. CASE SenderOnProbe(m)
    <3>1. IsFiniteSet({Echo(m.body)}) /\ Echo(m.body).kind = "echo"
      BY SentTyped, SentFields
    <3> QED
      BY <2>1, <3>1 DEF SenderOnProbe
  <2>2. CASE ReceiverOnEcho(m)
    BY <2>2, FS_EmptySet DEF ReceiverOnEcho
  <2> QED
    BY <2>1, <2>2
<1>2. TransportTypeOK'
  BY TypesSenderOnProbe, TypesReceiverOnEcho DEF StreamInv
<1>3. Ahead' = Ahead /\ ListTimely' /\ LastSeqIsNewest'
  BY <1>1, ListUntouched DEF genVars, senderVars
<1>4. {m} \subseteq BagToSet(net) /\ IsFiniteSet({m}) /\ \A k \in {m} : k.kind # "data"
  BY <1>1, FS_Singleton
<1>5. got' = got /\ got \subseteq FirstPacket .. sent /\ UNCHANGED <<sent, pkt_map_>>
  BY <1>1 DEF StreamInv, GotStreamed, senderVars
<1>6. GotStreamed' /\ KeptNewest' /\ LostCounted' /\ DataTimely' /\ NacksTimely'
  BY <1>1, <1>3, <1>4, <1>5, HandlerStep
<1> QED
  BY <1>2, <1>3, <1>6 DEF StreamInv

\* A request asks for packets on the list only, and an entry is asked for again
\* before it has waited longer than its retries account for.
LEMMA StreamReceiverTimer ==
  ASSUME StreamInv, TimelyNetwork, ReceiverTimer
  PROVE  StreamInv'
<1> DEFINE curRtt == IF count_timer % UpdateEvery = 0 THEN rtt_ ELSE rtt
           probes == IF count_timer % ProbeEvery = 0 THEN {Probe(rtt_count_num_)} ELSE {}
           nacks == IF nackBatch' = {} THEN {} ELSE {Nack(nackBatch')}
           out == probes \cup nacks
<1>1. PICK r : r = curRtt
  OBVIOUS
<1>2. /\ "receiver" \in expired /\ expired' = expired \ {"receiver"}
      /\ GetNackBatch(r) /\ Exchange({}, out) /\ UNCHANGED <<senderVars, got>>
  BY <1>1 DEF ReceiverTimer
<1>3. r \in 0 .. MaxRtt
  BY <1>1 DEF StreamInv, TransportTypeOK, IInv, TypeOK
<1> HIDE DEF curRtt
<1>4. Ahead' = Ahead /\ sent' = sent /\ got' = got /\ pkt_map_' = pkt_map_
  BY <1>2 DEF Ahead, senderVars
<1>5. nackBatch' \subseteq DOMAIN nackList /\ DOMAIN nackList \subseteq SeqNum
      /\ started' = started /\ lastSeq' = lastSeq
  BY <1>2 DEF GetNackBatch, Due, StreamInv, TransportTypeOK, IInv, TypeOK
<1>6. TransportTypeOK'
  BY TypesReceiverTimer DEF StreamInv
<1>7. LastSeqIsNewest'
  BY <1>4, <1>5 DEF StreamInv, LastSeqIsNewest, Newest
<1>8. ListTimely'
  <2> SUFFICES ASSUME NEW s \in DOMAIN nackList'
               PROVE  \E p \in FirstPacket .. sent :
                        /\ p % SeqMod = s /\ p \notin got /\ Overtaken(p)'
                        /\ Ahead - p <= MaxBehind + Waited(nackList[s])'
    BY <1>4 DEF ListTimely
  <2>1. s \in DOMAIN nackList
    BY <1>2 DEF GetNackBatch
  <2>2. PICK p \in FirstPacket .. sent :
          /\ p % SeqMod = s /\ p \notin got /\ Overtaken(p)
          /\ Ahead - p <= MaxBehind + Waited(nackList[s])
    BY <2>1 DEF StreamInv, ListTimely
  <2>3. Overtaken(p)'
    BY <1>4, <2>2 DEF Overtaken
  <2>4. PICK info \in NackInfo : info = nackList[s]
    BY <2>1 DEF StreamInv, TransportTypeOK, IInv, TypeOK
  <2>5. PICK x, y : x = info.retries * (MaxRtt + 1) /\ y = (info.retries + 1) * (MaxRtt + 1)
    OBVIOUS
  <2>6. x \in Nat /\ y = x + MaxRtt + 1 /\ MaxRtt \in Nat /\ info.age \in 0 .. MaxRtt
    BY <2>5, WaitedIs, RttAssumption DEF NackInfo
  <2>7. Waited(info) = x + info.age + IF info.age = MaxRtt THEN 1 ELSE 0
    BY <1>2, <2>5 DEF Waited
  <2>8. CASE s \in Due(r)
    <3>1. nackList'[s] = [age |-> 0, retries |-> info.retries + 1]
      BY <1>2, <2>4, <2>8 DEF GetNackBatch
    <3>2. nackList'[s].age = 0 /\ nackList'[s].retries = info.retries + 1
      BY <3>1
    <3>3. Waited(nackList[s])' = y + 0 + 0
      BY <1>2, <2>5, <3>2 DEF Waited
    <3>4. Waited(info) <= Waited(nackList[s])' /\ Waited(info) \in Int /\ Waited(nackList[s])' \in Int
      BY <2>6, <2>7, <3>3
    <3> QED
      BY <2>2, <2>3, <2>4, <3>4, Bounds, TransportAssumption DEF StreamInv, TransportTypeOK, Ahead
  <2>9. CASE s \notin Due(r)
    <3>1. nackList'[s] = info
      BY <1>2, <2>4, <2>9 DEF GetNackBatch
    <3>2. PICK l : l = CalculateRttLimit2SendNack(r, info.retries)
      OBVIOUS
    <3>3. ~(info.age >= l)
      BY <2>1, <2>4, <2>9, <3>2 DEF Due
    <3>4. l <= MaxRtt /\ l \in Int
      <4>1. info.retries \in Nat
        BY RetryAssumption DEF NackInfo
      <4>2. l <= MaxRtt
        BY <1>3, <3>2, <4>1, RttLimit
      <4>3. l \in Int
        BY <1>3, <3>2, <4>1, RttAssumption DEF CalculateRttLimit2SendNack
      <4> QED
        BY <4>2, <4>3
    <3>5. info.age # MaxRtt
      BY <2>6, <3>3, <3>4
    <3>6. Waited(nackList[s])' = x + info.age + 0
      BY <1>2, <2>5, <3>1 DEF Waited
    <3>7. Waited(nackList[s])' = Waited(info)
      BY <2>6, <2>7, <3>5, <3>6
    <3> QED
      BY <2>2, <2>3, <2>4, <3>7
  <2> QED
    BY <2>8, <2>9
<1>9. IsFiniteSet(out)
  BY FS_EmptySet, FS_Singleton, FS_Union
<1>10. ASSUME NEW o \in out
       PROVE  /\ o.kind # "data"
              /\ o.kind = "nack" => \A s \in Pack!unpacking_nack(o.body) :
                   \E p \in FirstPacket .. sent :
                     p % SeqMod = s /\ Overtaken(p) /\ Ahead - p <= MaxAsked + MaxDelay - o.left
  <2>1. CASE o = Probe(rtt_count_num_)
    BY <2>1, SentFields
  <2>2. CASE o = Nack(nackBatch')
    <3>1. o.kind = "nack" /\ o.body = Pack!packing_nack(nackBatch') /\ o.left = MaxDelay
      BY <2>2, SentFields
    <3> SUFFICES ASSUME NEW s \in Pack!unpacking_nack(o.body)
                 PROVE  \E p \in FirstPacket .. sent :
                          p % SeqMod = s /\ Overtaken(p) /\ Ahead - p <= MaxAsked + MaxDelay - o.left
      BY <3>1
    <3>2. PICK batch : batch = nackBatch'
      OBVIOUS
    <3>3. s \in Pack!unpacking_nack(Pack!packing_nack(batch)) /\ batch \in SUBSET SeqNum
      BY <1>5, <3>1, <3>2
    <3>4. s \in DOMAIN nackList
      BY <1>5, <3>2, <3>3, UnpackedIsPacked
    <3>5. PICK p : p = PacketOf(s)
      OBVIOUS
    <3>6. p \in FirstPacket .. sent /\ p % SeqMod = s /\ p < Newest /\ Ahead - p <= MaxAsked /\ got # {}
      BY <3>4, <3>5, ListedPacket
    <3>7. Overtaken(p)
      BY <3>6, NewestIs, Bounds DEF StreamInv
    <3>8. MaxAsked + MaxDelay - o.left = MaxAsked
      BY <3>1, Bounds
    <3> QED
      BY <3>6, <3>7, <3>8
  <2> QED
    BY <1>10, <2>1, <2>2
<1> HIDE DEF out
<1>11. {} \subseteq BagToSet(net) /\ IsFiniteSet({}) /\ got \subseteq FirstPacket .. sent
  BY FS_EmptySet DEF StreamInv, GotStreamed
<1>12. GotStreamed' /\ KeptNewest' /\ LostCounted' /\ DataTimely' /\ NacksTimely'
  BY <1>2, <1>4, <1>9, <1>10, <1>11, HandlerStep
<1> QED
  BY <1>6, <1>7, <1>8, <1>12 DEF StreamInv

\* The next packet of the stream: the one kept for its number before is a whole
\* turn older.
LEMMA StreamSenderTimer ==
  ASSUME StreamInv, TimelyNetwork, SenderTimer
  PROVE  StreamInv'
<1>1. PICK n : n = sent + 1
  OBVIOUS
<1>2. /\ "sender" \in expired /\ expired' = expired \ {"sender"} /\ sent' = n
      /\ pkt_map_' = [s \in DOMAIN pkt_map_ \cup {n % SeqMod} |->
                        IF s = n % SeqMod THEN n ELSE pkt_map_[s]]
      /\ Exchange({}, {Data(n)})
      /\ UNCHANGED <<genVars, got>>
  BY <1>1 DEF SenderTimer
<1>3. sent \in Nat /\ n \in Nat /\ FirstPacket \in Nat \ {0} /\ n \in FirstPacket .. n
      /\ FirstPacket .. n = (FirstPacket .. sent) \cup {n} /\ 1 .. n = (1 .. sent) \cup {n}
      /\ n \notin FirstPacket .. sent
  BY <1>1, TransportAssumption DEF StreamInv, TransportTypeOK
<1>4. Ahead = n /\ Ahead' = n
  BY <1>1, <1>2, <1>3 DEF Ahead
<1>5. TransportTypeOK'
  BY TypesSenderTimer DEF StreamInv
<1>6. GotStreamed' /\ LastSeqIsNewest' /\ \A p : Overtaken(p)' = Overtaken(p)
  BY <1>2, <1>3 DEF StreamInv, GotStreamed, LastSeqIsNewest, Newest, genVars, Overtaken
<1>7. KeptNewest'
  <2> SUFFICES ASSUME NEW p \in 1 .. n, n - p < SeqMod
               PROVE  p % SeqMod \in DOMAIN pkt_map_' /\ pkt_map_'[p % SeqMod] = p
    BY <1>2 DEF KeptNewest
  <2>1. CASE p = n
    BY <1>2, <2>1
  <2>2. CASE p # n
    <3>1. p \in 1 .. sent /\ sent - p < SeqMod /\ p \in Int /\ p <= n /\ n \in Int
      BY <1>1, <1>3, <2>2, SeqModPositive
    <3>2. p % SeqMod # n % SeqMod
      BY <2>2, <3>1, SamePacket
    <3>3. p % SeqMod \in DOMAIN pkt_map_ /\ pkt_map_[p % SeqMod] = p
      BY <3>1 DEF StreamInv, KeptNewest
    <3> QED
      BY <1>2, <3>2, <3>3
  <2> QED
    BY <2>1, <2>2
<1>8. Data(n).kind = "data" /\ Data(n).body = n /\ Data(n).left = MaxDelay
  BY SentFields
<1>9. PICK through \in SUBSET {Data(n)} :
        /\ BagToSet(net') \subseteq BagToSet(net) \cup through
        /\ BagToSet(net) \subseteq BagToSet(net')
        /\ through \subseteq BagToSet(net')
        /\ faults' \in 0 .. MaxFaults /\ faults <= faults'
        /\ \A o \in {Data(n)} \ through : o.kind \in Carried => faults + 1 <= faults'
  <2>1. PICK M, out : M = {} /\ out = {Data(n)}
    OBVIOUS
  <2>2. M \in SUBSET BagToSet(net) /\ IsFiniteSet(M) /\ IsFiniteSet(out) /\ Exchange(M, out)
    BY <1>2, <2>1, FS_EmptySet, FS_Singleton
  <2>3. PICK through \in SUBSET out :
          /\ BagToSet(net') \subseteq BagToSet(net) \cup through
          /\ BagToSet(net) \ M \subseteq BagToSet(net')
          /\ through \subseteq BagToSet(net')
          /\ faults' \in 0 .. MaxFaults /\ faults <= faults'
          /\ \A o \in out \ through : o.kind \in Carried => faults + 1 <= faults'
    BY <2>2, ExchangeIs DEF StreamInv
  <2> QED
    BY <2>1, <2>3
<1>10. faults \in Nat /\ faults' \in Nat
  BY <1>9, TransportAssumption DEF StreamInv, TransportTypeOK
<1>11. LostCounted'
  <2>1. Lost' \subseteq Lost \cup {n}
    BY <1>2, <1>3, <1>9 DEF Lost
  <2>2. CASE Data(n) \in through
    <3>1. n \notin Lost'
      BY <1>8, <1>9, <2>2 DEF Lost
    <3>2. Lost' \subseteq Lost
      BY <2>1, <3>1
    <3> QED
      BY <1>9, <1>10, <3>2, NoMoreLost
  <2>3. CASE Data(n) \notin through
    <3>1. faults + 1 <= faults'
      BY <1>8, <1>9, <2>3 DEF TimelyNetwork
    <3>2. IsFiniteSet(FirstPacket .. sent)
      BY <1>3, FS_Interval
    <3>3. IsFiniteSet(Lost)
      BY <3>2, FS_Subset DEF Lost
    <3>4. Cardinality(Lost) \in Nat
      BY <3>3, FS_CardinalityType
    <3>5. IsFiniteSet(Lost \cup {n}) /\ Cardinality(Lost \cup {n}) <= Cardinality(Lost) + 1
      <4>1. IsFiniteSet(Lost \cup {n})
            /\ Cardinality(Lost \cup {n}) = IF n \in Lost THEN Cardinality(Lost) ELSE Cardinality(Lost) + 1
        BY <3>3, FS_AddElement
      <4> QED
        BY <3>4, <4>1
    <3>6. Cardinality(Lost') <= Cardinality(Lost \cup {n}) /\ IsFiniteSet(Lost')
      BY <2>1, <3>5, FS_Subset
    <3>7. Cardinality(Lost') \in Nat /\ Cardinality(Lost \cup {n}) \in Nat
      BY <3>5, <3>6, FS_CardinalityType
    <3>8. Cardinality(Lost) <= faults
      BY DEF StreamInv, LostCounted
    <3> QED
      BY <1>10, <3>1, <3>4, <3>5, <3>6, <3>7, <3>8 DEF LostCounted
  <2> QED
    BY <2>2, <2>3
<1>12. DataTimely'
  <2> SUFFICES ASSUME NEW m \in BagToSet(net'), m.kind = "data"
               PROVE  /\ m.body \in FirstPacket .. n
                      /\ n - m.body <= MaxAsked + 2 * MaxDelay - m.left
                      /\ ~Overtaken(m.body) => m.body \in got \/ n - m.body <= MaxDelay - m.left
    BY <1>2, <1>4, <1>6 DEF DataTimely
  <2>1. CASE m \in BagToSet(net)
    BY <1>3, <1>4, <2>1 DEF StreamInv, DataTimely
  <2>2. CASE m = Data(n)
    BY <1>3, <1>8, <2>2, Bounds
  <2> QED
    BY <1>9, <2>1, <2>2
<1>13. NacksTimely'
  <2> SUFFICES ASSUME NEW m \in BagToSet(net'), m.kind = "nack",
                      NEW s \in Pack!unpacking_nack(m.body)
               PROVE  \E p \in FirstPacket .. n :
                        p % SeqMod = s /\ Overtaken(p) /\ n - p <= MaxAsked + MaxDelay - m.left
    BY <1>2, <1>4, <1>6 DEF NacksTimely
  <2>1. m \in BagToSet(net)
    BY <1>8, <1>9
  <2> QED
    BY <1>3, <1>4, <2>1 DEF StreamInv, NacksTimely
<1>14. ListTimely'
  <2>1. nackList' = nackList /\ got' = got /\ \A info : Waited(info)' = Waited(info)
    BY <1>2 DEF genVars, Waited
  <2> SUFFICES ASSUME NEW s \in DOMAIN nackList
               PROVE  \E p \in FirstPacket .. n :
                        /\ p % SeqMod = s /\ p \notin got /\ Overtaken(p)
                        /\ n - p <= MaxBehind + Waited(nackList[s])
    BY <1>2, <1>4, <1>6, <2>1 DEF ListTimely
  <2> QED
    BY <1>3, <1>4 DEF StreamInv, ListTimely
<1> QED
  BY <1>5, <1>6, <1>7, <1>11, <1>12, <1>13, <1>14 DEF StreamInv

\* A period passes: everything on its way and on the list gets older by one.
LEMMA StreamElapsing ==
  ASSUME StreamInv, TimelyNetwork, Elapsing
  PROVE  StreamInv'
<1>1. /\ expired = {} /\ "receiver" \in expired' /\ nackList' = Aged(nackList)
      /\ UNCHANGED <<sent, pkt_map_, got, started, lastSeq>>
  BY DEF Elapsing, senderVars
<1>2. sent \in Nat /\ Ahead = sent /\ Ahead \in Nat /\ Ahead' \in Nat /\ Ahead' <= Ahead + 1
  <2>1. sent \in Nat
    BY TransportAssumption DEF StreamInv, TransportTypeOK
  <2> QED
    BY <1>1, <2>1 DEF Ahead
<1>3. TransportTypeOK'
  BY TypesElapsing DEF StreamInv
<1>4. GotStreamed' /\ KeptNewest' /\ LastSeqIsNewest' /\ \A p : Overtaken(p)' = Overtaken(p)
  BY <1>1 DEF StreamInv, GotStreamed, KeptNewest, LastSeqIsNewest, Newest, Overtaken
<1> DEFINE late == {o \in BagToSet(net) : o.left = 0}
<1>5. /\ \A m \in BagToSet(net') :
           /\ Datagram(m)
           /\ \E o \in BagToSet(net) : o.kind = m.kind /\ o.body = m.body /\ o.left = m.left + 1
      /\ \A o \in BagToSet(net) : o.left # 0 =>
           \E m \in BagToSet(net') : m.kind = o.kind /\ m.body = o.body
      /\ IsFiniteSet(late) /\ faults' >= faults + Cardinality(late) /\ faults' \in 0 .. MaxFaults
  BY ElapsingNet DEF StreamInv
<1>6. LostCounted'
  <2> DEFINE B == {o.body : o \in late}
             f == [o \in late |-> o.body]
  <2>1. Lost' \subseteq Lost \cup B
    BY <1>1, <1>5 DEF Lost
  <2>2. f \in Surjection(late, B)
    BY DEF Surjection
  <2> HIDE DEF f, B, late
  <2>3. IsFiniteSet(B) /\ Cardinality(B) <= Cardinality(late)
    BY <1>5, <2>2, FS_Surjection
  <2>4. IsFiniteSet(FirstPacket .. sent)
    BY <1>2, TransportAssumption, FS_Interval
  <2>5. IsFiniteSet(Lost)
    BY <2>4, FS_Subset DEF Lost
  <2>6. IsFiniteSet(Lost \cup B)
        /\ Cardinality(Lost \cup B) = Cardinality(Lost) + Cardinality(B) - Cardinality(Lost \cap B)
    BY <2>3, <2>5, FS_Union
  <2>7. IsFiniteSet(Lost') /\ Cardinality(Lost') <= Cardinality(Lost \cup B)
    BY <2>1, <2>6, FS_Subset
  <2>8. IsFiniteSet(Lost \cap B)
    BY <2>5, FS_Subset
  <2>9. /\ Cardinality(Lost') \in Nat /\ Cardinality(Lost) \in Nat /\ Cardinality(B) \in Nat
        /\ Cardinality(Lost \cap B) \in Nat /\ Cardinality(late) \in Nat
        /\ Cardinality(Lost \cup B) \in Nat
    BY <1>5, <2>3, <2>5, <2>6, <2>7, <2>8, FS_CardinalityType
  <2>10. Cardinality(Lost) <= faults /\ faults \in Nat
    BY TransportAssumption DEF StreamInv, LostCounted, TransportTypeOK
  <2> QED
    BY <1>5, <2>3, <2>6, <2>7, <2>9, <2>10 DEF LostCounted
<1> HIDE DEF late
<1>7. DataTimely'
  <2> SUFFICES ASSUME NEW m \in BagToSet(net'), m.kind = "data"
               PROVE  /\ m.body \in FirstPacket .. sent
                      /\ Ahead' - m.body <= MaxAsked + 2 * MaxDelay - m.left
                      /\ ~Overtaken(m.body) => m.body \in got \/ Ahead' - m.body <= MaxDelay - m.left
    BY <1>1, <1>4 DEF DataTimely
  <2>1. PICK o \in BagToSet(net) : o.kind = "data" /\ o.body = m.body /\ o.left = m.left + 1
    BY <1>5
  <2>2. /\ m.body \in FirstPacket .. sent
        /\ Ahead - m.body <= MaxAsked + 2 * MaxDelay - (m.left + 1)
        /\ ~Overtaken(m.body) => m.body \in got \/ Ahead - m.body <= MaxDelay - (m.left + 1)
    BY <2>1 DEF StreamInv, DataTimely
  <2>3. m.left \in 0 .. MaxDelay /\ m.body \in Int
    BY <1>5, <2>2, Bounds DEF Datagram
  <2> QED
    BY <1>2, <2>2, <2>3, Bounds
<1>8. NacksTimely'
  <2> SUFFICES ASSUME NEW m \in BagToSet(net'), m.kind = "nack",
                      NEW s \in Pack!unpacking_nack(m.body)
               PROVE  \E p \in FirstPacket .. sent :
                        p % SeqMod = s /\ Overtaken(p) /\ Ahead' - p <= MaxAsked + MaxDelay - m.left
    BY <1>1, <1>4 DEF NacksTimely
  <2>1. PICK o \in BagToSet(net) : o.kind = "nack" /\ o.body = m.body /\ o.left = m.left + 1
    BY <1>5
  <2>2. PICK p \in FirstPacket .. sent :
          p % SeqMod = s /\ Overtaken(p) /\ Ahead - p <= MaxAsked + MaxDelay - (m.left + 1)
    BY <2>1 DEF StreamInv, NacksTimely
  <2>3. m.left \in 0 .. MaxDelay /\ p \in Int
    BY <1>5, <2>2, Bounds DEF Datagram
  <2>4. Ahead' - p <= MaxAsked + MaxDelay - m.left
    BY <1>2, <2>2, <2>3, Bounds
  <2> QED
    BY <2>2, <2>4
<1>9. ListTimely'
  <2> SUFFICES ASSUME NEW s \in DOMAIN nackList'
               PROVE  \E p \in FirstPacket .. sent :
                        /\ p % SeqMod = s /\ p \notin got /\ Overtaken(p)
                        /\ Ahead' - p <= MaxBehind + Waited(nackList[s])'
    BY <1>1, <1>4 DEF ListTimely
  <2>1. s \in DOMAIN nackList
        /\ nackList'[s] = [nackList[s] EXCEPT !.age = IF @ < MaxRtt THEN @ + 1 ELSE @]
    BY <1>1 DEF Aged
  <2>2. PICK p \in FirstPacket .. sent :
          /\ p % SeqMod = s /\ p \notin got /\ Overtaken(p)
          /\ Ahead - p <= MaxBehind + Waited(nackList[s])
    BY <2>1 DEF StreamInv, ListTimely
  <2>3. PICK info \in NackInfo : info = nackList[s]
    BY <2>1 DEF StreamInv, TransportTypeOK, IInv, TypeOK
  <2>4. /\ nackList'[s].retries = info.retries
        /\ nackList'[s].age = IF info.age < MaxRtt THEN info.age + 1 ELSE info.age
    BY <2>1, <2>3 DEF NackInfo
  <2>5. PICK x : x = info.retries * (MaxRtt + 1)
    OBVIOUS
  <2>6. x \in Nat /\ MaxRtt \in Nat /\ info.age \in 0 .. MaxRtt
    BY <2>5, WaitedIs, RttAssumption DEF NackInfo
  <2>7. Waited(info) = x + info.age + 0
    BY <1>1, <2>5 DEF Waited
  <2>8. PICK a : a = nackList'[s].age
    OBVIOUS
  <2>9. Waited(nackList[s])' = x + a + IF a = MaxRtt THEN 1 ELSE 0
    BY <1>1, <2>4, <2>5, <2>8 DEF Waited
  <2>10. Waited(info) + 1 <= Waited(nackList[s])' /\ Waited(info) \in Int /\ Waited(nackList[s])' \in Int
    BY <2>4, <2>6, <2>7, <2>8, <2>9
  <2>11. p \in Int
    BY <2>2, Bounds
  <2>12. Ahead' - p <= MaxBehind + Waited(nackList[s])'
    BY <1>2, <2>2, <2>3, <2>10, <2>11, Bounds
  <2> QED
    BY <2>2, <2>12
<1> QED
  BY <1>3, <1>4, <1>6, <1>7, <1>8, <1>9 DEF StreamInv

\* The greatest element, when it is known.
LEMMA GreatestIs ==
  ASSUME NEW S \in SUBSET Int, NEW b \in S, \A y \in S : y <= b
  PROVE  Max(S) = b
<1>1. \A y \in S : b >= y
  OBVIOUS
<1>2. \A x \in S : (\A y \in S : x >= y) => x = b
  <2> SUFFICES ASSUME NEW x \in S, \A y \in S : x >= y PROVE x = b
    OBVIOUS
  <2>1. x >= b /\ x <= b /\ x \in Int /\ b \in Int
    OBVIOUS
  <2> QED
    BY <2>1
<1> QED
  BY <1>1, <1>2 DEF Max

\* What the receiver does with packet n, in terms of packets: the wrapped
\* comparison of the numbers decides as a comparison of the packets would.
LEMMA ReceivedIs ==
  ASSUME StreamInv, TimelyNetwork, NEW m \in BagToSet(net), ReceiverOnData(m)
  PROVE  /\ m.body \in FirstPacket .. sent /\ got' = got \cup {m.body}
         /\ got = {} => /\ lastSeq' = m.body % SeqMod /\ nackList' = nackList
                        /\ Newest' = m.body
         /\ got # {} /\ m.body = Newest =>
              lastSeq' = lastSeq /\ nackList' = nackList /\ Newest' = Newest
         /\ got # {} /\ m.body < Newest =>
              /\ lastSeq' = lastSeq /\ Newest' = Newest
              /\ nackList' = Keep(nackList, DOMAIN nackList \ {m.body % SeqMod})
         /\ got # {} /\ m.body > Newest =>
              /\ lastSeq' = m.body % SeqMod /\ Newest' = m.body
              /\ nackList' = AddPacketsToNackList(nackList, (lastSeq + 1) % SeqMod, m.body % SeqMod)
              /\ m.body - Newest < SeqMod \div 2
<1>1. PICK n : n = m.body
  OBVIOUS
<1>2. /\ m.kind = "data" /\ ReceivePacket(n % SeqMod) /\ got' = got \cup {n}
  BY <1>1 DEF ReceiverOnData
<1>3. /\ n \in FirstPacket .. sent /\ Ahead - n <= MaxAsked + 2 * MaxDelay - m.left
      /\ m.left \in 0 .. MaxDelay
  BY <1>1, <1>2 DEF StreamInv, DataTimely, TransportTypeOK, Datagram
<1>4. got \subseteq 1 .. sent /\ sent \in Nat /\ (started <=> got # {}) /\ n \in 1 .. sent /\ n \in Int
  BY <1>3, TransportAssumption DEF StreamInv, TransportTypeOK
<1>5. ReceiveFirst(n % SeqMod) \/ ReceiveOld(n % SeqMod) \/ ReceiveNewer(n % SeqMod)
  BY <1>2 DEF ReceivePacket
<1>6. CASE got = {}
  <2>1. ReceiveFirst(n % SeqMod)
    BY <1>4, <1>5, <1>6 DEF ReceiveOld, ReceiveNewer
  <2>2. got' = {n} /\ {n} \in SUBSET Int /\ \A y \in {n} : y <= n
    BY <1>2, <1>4, <1>6
  <2>3. Newest' = n
    BY <2>2, GreatestIs DEF Newest
  <2> QED
    BY <1>1, <1>2, <1>3, <1>6, <2>1, <2>3 DEF ReceiveFirst
<1>7. CASE got # {}
  <2>1. PICK b : b = Newest
    OBVIOUS
  <2>2. b \in got /\ (\A c \in got : c <= b) /\ b \in 1 .. sent /\ b \in Int
    BY <1>7, <2>1, NewestIs DEF StreamInv
  <2>3. Ahead - b <= MaxBehind /\ b <= Ahead /\ Ahead \in Nat /\ sent <= Ahead
    BY <1>7, <2>1, Behind
  <2>4. started /\ lastSeq = b % SeqMod
    BY <1>4, <1>7, <2>1 DEF StreamInv, LastSeqIsNewest
  <2>5. ~ReceiveFirst(n % SeqMod)
    BY <2>4 DEF ReceiveFirst
  <2>6. CASE n = b
    <3>1. ReceiveOld(n % SeqMod) /\ n % SeqMod = lastSeq
      BY <1>5, <2>4, <2>5, <2>6 DEF ReceiveNewer
    <3>2. got' = got
      BY <1>2, <2>2, <2>6
    <3>3. lastSeq' = lastSeq /\ nackList' = nackList /\ Newest' = Newest
      BY <3>1, <3>2 DEF ReceiveOld, Newest
    <3> QED
      BY <1>1, <1>2, <1>3, <1>7, <2>1, <2>2, <2>6, <3>3
  <2>7. CASE n < b
    <3>1. b - n < SeqMod \div 2
      BY <1>3, <1>4, <2>2, <2>3, Bounds
    <3>2. SeqLowerThan(n % SeqMod, lastSeq) /\ n % SeqMod # lastSeq
      BY <1>4, <2>2, <2>4, <2>7, <3>1, LowerIs
    <3>3. ReceiveOld(n % SeqMod)
      BY <1>5, <2>5, <3>2 DEF ReceiveNewer
    <3>4. got' \in SUBSET Int /\ b \in got' /\ \A y \in got' : y <= b
      BY <1>2, <1>4, <2>2, <2>7
    <3>5. Newest' = b
      BY <3>4, GreatestIs DEF Newest
    <3>6. lastSeq' = lastSeq /\ nackList' = Keep(nackList, DOMAIN nackList \ {n % SeqMod})
      BY <3>2, <3>3 DEF ReceiveOld
    <3>7. ~(n > b) /\ n # b
      BY <1>4, <2>2, <2>7
    <3> QED
      BY <1>1, <1>2, <1>3, <1>7, <2>1, <3>5, <3>6, <3>7
  <2>8. CASE n > b
    <3>1. n - b < SeqMod \div 2 /\ b < n
      BY <1>4, <2>2, <2>3, <2>8, Bounds
    <3>2. ~SeqLowerThan(n % SeqMod, lastSeq) /\ n % SeqMod # lastSeq
      BY <1>4, <2>2, <2>4, <3>1, LowerIs
    <3>3. ReceiveNewer(n % SeqMod)
      BY <1>5, <2>5, <3>2 DEF ReceiveOld
    <3>4. got' \in SUBSET Int /\ n \in got' /\ \A y \in got' : y <= n
      BY <1>2, <1>4, <2>2, <3>1
    <3>5. Newest' = n
      BY <3>4, GreatestIs DEF Newest
    <3>6. lastSeq' = n % SeqMod
          /\ nackList' = AddPacketsToNackList(nackList, (lastSeq + 1) % SeqMod, n % SeqMod)
      BY <3>3 DEF ReceiveNewer
    <3>7. ~(n < b) /\ n # b
      BY <1>4, <2>2, <3>1
    <3> QED
      BY <1>1, <1>2, <1>3, <1>7, <2>1, <3>1, <3>5, <3>6, <3>7
  <2> QED
    BY <1>4, <2>2, <2>6, <2>7, <2>8
<1> QED
  BY <1>6, <1>7

\* A packet reaches the receiver.
LEMMA StreamReceiverOnData ==
  ASSUME StreamInv, TimelyNetwork, NEW m \in BagToSet(net), ReceiverOnData(m)
  PROVE  StreamInv'
<1>1. PICK n : n = m.body
  OBVIOUS
<1>2. /\ m.kind = "data" /\ Exchange({m}, {}) /\ got' = got \cup {n}
      /\ UNCHANGED <<senderVars, expired>>
  BY <1>1 DEF ReceiverOnData
<1>3. Ahead' = Ahead /\ sent' = sent /\ pkt_map_' = pkt_map_ /\ \A info : Waited(info)' = Waited(info)
  BY <1>2 DEF Ahead, senderVars, Waited
<1>4. n \in FirstPacket .. sent /\ got \subseteq FirstPacket .. sent /\ FirstPacket \in Nat \ {0}
      /\ sent \in Nat /\ n \in Int
  <2>1. n \in FirstPacket .. sent
    BY <1>1, ReceivedIs
  <2>2. sent \in Nat /\ FirstPacket \in Nat \ {0}
    BY TransportAssumption DEF StreamInv, TransportTypeOK
  <2> QED
    BY <2>1, <2>2 DEF StreamInv, GotStreamed
<1>5. TransportTypeOK'
  BY TypesReceiverOnData DEF StreamInv
<1>6. GotStreamed' /\ KeptNewest' /\ LostCounted' /\ DataTimely' /\ NacksTimely'
  <2>1. PICK M, out : M = {m} /\ out = {}
    OBVIOUS
  <2>2. M \in SUBSET BagToSet(net) /\ IsFiniteSet(M) /\ IsFiniteSet(out) /\ Exchange(M, out)
        /\ (\A k \in M : k.kind = "data" => k.body \in got')
        /\ got \subseteq got' /\ got' \subseteq FirstPacket .. sent
    BY <1>1, <1>2, <1>4, <2>1, FS_EmptySet, FS_Singleton
  <2> QED
    BY <1>3, <2>1, <2>2, HandlerStep
<1>7. CASE got = {}
  <2>1. DOMAIN nackList = {}
    BY <1>7 DEF StreamInv, ListTimely, Overtaken
  <2>2. lastSeq' = n % SeqMod /\ nackList' = nackList /\ Newest' = n
    BY <1>1, <1>7, ReceivedIs
  <2> QED
    BY <1>5, <1>6, <2>1, <2>2 DEF StreamInv, ListTimely, LastSeqIsNewest
<1>8. CASE got # {}
  <2>1. PICK b : b = Newest
    OBVIOUS
  <2>2. b \in got /\ (\A c \in got : c <= b) /\ b \in Int /\ \A p \in Int : Overtaken(p) <=> p < b
    BY <1>4, <1>8, <2>1, NewestIs DEF StreamInv
  <2>3. Ahead - b <= MaxBehind /\ b \in FirstPacket .. sent /\ Ahead \in Nat
    BY <1>8, <2>1, Behind
  <2>4. lastSeq = b % SeqMod
    BY <1>8, <2>1 DEF StreamInv, LastSeqIsNewest, TransportTypeOK
  <2>5. \A p : Overtaken(p) => Overtaken(p)'
    BY <1>2 DEF Overtaken
  <2>6. ASSUME NEW s \in DOMAIN nackList
        PROVE  \E p \in FirstPacket .. sent :
                 /\ p % SeqMod = s /\ p \notin got /\ Overtaken(p)' /\ p < b
                 /\ Ahead - p <= MaxBehind + Waited(nackList[s])
    <3>1. PICK p \in FirstPacket .. sent :
            /\ p % SeqMod = s /\ p \notin got /\ Overtaken(p)
            /\ Ahead - p <= MaxBehind + Waited(nackList[s])
      BY DEF StreamInv, ListTimely
    <3>2. p < b
      BY <1>4, <2>2, <3>1
    <3> QED
      BY <2>5, <3>1, <3>2
  <2>7. CASE n = b
    <3>1. got' = got
      BY <1>2, <2>2, <2>7
    <3>2. lastSeq' = lastSeq /\ nackList' = nackList /\ Newest' = Newest
      BY <1>1, <1>8, <2>1, <2>7, ReceivedIs
    <3>3. ListTimely'
      BY <1>3, <2>6, <3>1, <3>2 DEF ListTimely
    <3>4. LastSeqIsNewest'
      BY <2>1, <2>4, <3>2 DEF LastSeqIsNewest
    <3> QED
      BY <1>5, <1>6, <3>3, <3>4 DEF StreamInv
  <2>8. CASE n < b
    <3>1. lastSeq' = lastSeq /\ Newest' = Newest
          /\ nackList' = Keep(nackList, DOMAIN nackList \ {n % SeqMod})
      BY <1>1, <1>8, <2>1, <2>8, ReceivedIs
    <3>2. LastSeqIsNewest'
      BY <2>1, <2>4, <3>1 DEF LastSeqIsNewest
    <3>3. ListTimely'
      <4> SUFFICES ASSUME NEW s \in DOMAIN nackList'
                   PROVE  \E p \in FirstPacket .. sent :
                            /\ p % SeqMod = s /\ p \notin got' /\ Overtaken(p)'
                            /\ Ahead - p <= MaxBehind + Waited(nackList'[s])
        BY <1>3 DEF ListTimely
      <4>1. s \in DOMAIN nackList /\ s # n % SeqMod /\ nackList'[s] = nackList[s]
        BY <3>1 DEF Keep
      <4> QED
        BY <1>2, <2>6, <4>1
    <3> QED
      BY <1>5, <1>6, <3>2, <3>3 DEF StreamInv
  <2>9. CASE n > b
    <3> DEFINE a == (lastSeq + 1) % SeqMod
               e == n % SeqMod
    <3>1. /\ lastSeq' = e /\ Newest' = n /\ nackList' = AddPacketsToNackList(nackList, a, e)
          /\ n - b < SeqMod \div 2
      BY <1>1, <1>8, <2>1, <2>9, ReceivedIs
    <3>2. LastSeqIsNewest'
      BY <3>1 DEF LastSeqIsNewest
    <3>3. DOMAIN nackList \subseteq SeqNum /\ nackList \in [DOMAIN nackList -> NackInfo]
          /\ lastSeq \in SeqNum
      BY DEF StreamInv, TransportTypeOK, IInv, TypeOK
    <3>4. a \in SeqNum /\ e \in SeqNum
      <4>1. lastSeq + 1 \in Int
        BY <3>3 DEF SeqNum
      <4> QED
        BY <1>4, <4>1, SeqOf
    <3>5. a = ((b % SeqMod) + 1) % SeqMod
      BY <2>4
    <3> HIDE DEF a, e
    <3>6. /\ nackList' \in [DOMAIN nackList' -> NackInfo]
          /\ \A s \in DOMAIN nackList' :
               \/ s \in SurvivingPurge(nackList, e) /\ nackList'[s] = nackList[s]
               \/ s \in Gap(a, e)
      <4>1. PICK list, new : list = nackList /\ new = nackList'
        OBVIOUS
      <4>2. new = AddPacketsToNackList(list, a, e) /\ DOMAIN list \subseteq SeqNum
            /\ list \in [DOMAIN list -> NackInfo]
        BY <3>1, <3>3, <4>1
      <4>3. /\ new \in [DOMAIN new -> NackInfo]
            /\ \A s \in DOMAIN new :
                 \/ s \in SurvivingPurge(list, e) /\ new[s] = list[s]
                 \/ s \in Gap(a, e)
        BY <3>4, <4>2, AddPacketsTyped
      <4> QED
        BY <4>1, <4>3
    <3>7. ListTimely'
      <4> SUFFICES ASSUME NEW s \in DOMAIN nackList'
                   PROVE  \E p \in FirstPacket .. sent :
                            /\ p % SeqMod = s /\ p \notin got' /\ Overtaken(p)'
                            /\ Ahead - p <= MaxBehind + Waited(nackList'[s])
        BY <1>3 DEF ListTimely
      <4>1. CASE s \in SurvivingPurge(nackList, e) /\ nackList'[s] = nackList[s]
        <5>1. s \in DOMAIN nackList
          BY <4>1 DEF SurvivingPurge
        <5>2. PICK p \in FirstPacket .. sent :
                /\ p % SeqMod = s /\ p \notin got /\ Overtaken(p)' /\ p < b
                /\ Ahead - p <= MaxBehind + Waited(nackList[s])
          BY <2>6, <5>1
        <5>3. p # n
          BY <1>4, <2>2, <2>9, <5>2
        <5> QED
          BY <1>2, <4>1, <5>2, <5>3
      <4>2. CASE s \in Gap(a, e)
        <5>1. b < n /\ n - b < SeqMod
          BY <1>4, <2>2, <2>9, <3>1, SeqModPositive
        <5>2. PICK p \in b + 1 .. n - 1 : p % SeqMod = s
          BY <1>4, <2>2, <3>5, <4>2, <5>1, GapIs DEF e
        <5>3. p \in FirstPacket .. sent /\ p \in Int /\ b < p /\ p < n
          BY <1>4, <2>2, <2>3, <5>2
        <5>4. p \notin got'
          BY <1>2, <1>4, <2>2, <5>3
        <5>5. Overtaken(p)'
          BY <1>2, <5>3 DEF Overtaken
        <5>6. Waited(nackList'[s]) \in Nat
          <6>1. PICK info \in NackInfo : info = nackList'[s]
            BY <3>6
          <6> QED
            BY <6>1, WaitedIs
        <5>7. Ahead - p <= MaxBehind + Waited(nackList'[s])
          BY <2>2, <2>3, <5>3, <5>6, Bounds
        <5> QED
          BY <5>2, <5>3, <5>4, <5>5, <5>7
      <4> QED
        BY <3>6, <4>1, <4>2
    <3> QED
      BY <1>5, <1>6, <3>2, <3>7 DEF StreamInv
  <2> QED
    BY <1>4, <2>2, <2>7, <2>8, <2>9
<1> QED
  BY <1>7, <1>8

\* Every step keeps the invariant.
LEMMA StreamStep ==
  ASSUME StreamInv, TimelyNetwork, [TransportNext]_vars
  PROVE  StreamInv'
<1>1. CASE UNCHANGED vars
  <2>1. TransportTypeOK'
    BY <1>1, TypesStep DEF StreamInv
  <2>2. UNCHANGED <<nackList, started, lastSeq, sent, expired, got, net, faults, pkt_map_>>
    BY <1>1 DEF vars, genVars, senderVars
  <2>3. Ahead' = Ahead /\ ListTimely' /\ LastSeqIsNewest'
    BY <2>2, ListUntouched
  <2>4. Lost' = Lost /\ \A p : Overtaken(p)' = Overtaken(p)
    BY <2>2 DEF Lost, Overtaken
  <2> QED
    BY <2>1, <2>2, <2>3, <2>4
    DEF StreamInv, GotStreamed, KeptNewest, LostCounted, DataTimely, NacksTimely
<1> QED
  BY <1>1, StreamSenderTimer, StreamReceiverTimer, StreamElapsing, StreamSenderOnNack,
     StreamProbes, StreamReceiverOnData DEF TransportNext, Receive

\* Nothing that is on its way or asked for is older than half the number space,
\* for any stream, any window and any number of retries.
THEOREM StreamTimely ==
  ASSUME TimelyNetwork
  PROVE  TransportSpec => []StreamInv
<1>1. StreamInv /\ [TransportNext]_vars => StreamInv'
  BY StreamStep
<1> QED
  BY <1>1, StreamInit, PTL DEF TransportSpec

\* NackGenerator's lastSeq is the number of the newest packet received, across
\* reordering, duplicates, retransmissions and the wrap-around.
THEOREM NewestIsFollowed ==
  ASSUME TimelyNetwork
  PROVE  TransportSpec => []LastSeqIsNewest
<1>1. StreamInv => LastSeqIsNewest
  BY DEF StreamInv
<1> QED
  BY <1>1, StreamTimely, PTL

\* The receiver's nackList never holds the number of a packet that has arrived.
THEOREM ListedAreMissing ==
  ASSUME TimelyNetwork
  PROVE  TransportSpec => []NackedIsMissing
<1>1. StreamInv => NackedIsMissing
  BY ListedPacket DEF NackedIsMissing
<1> QED
  BY <1>1, StreamTimely, PTL

\* For every number that the receiver lists or has asked for, the sender's
\* pkt_map_ still holds the packet meant, although the numbers wrap around.
THEOREM RequestsHitLost ==
  ASSUME TimelyNetwork
  PROVE  TransportSpec => []RequestHitsLost
<1>1. ASSUME StreamInv PROVE RequestHitsLost
  <2>1. sent \in Nat /\ FirstPacket \in Nat \ {0} /\ Ahead \in Nat /\ sent <= Ahead
    <3>1. sent \in Nat /\ FirstPacket \in Nat \ {0}
      BY <1>1, TransportAssumption DEF StreamInv, TransportTypeOK
    <3> QED
      BY <3>1 DEF Ahead
  <2>2. ASSUME NEW p \in FirstPacket .. sent, Ahead - p <= MaxAsked + MaxDelay
        PROVE  p % SeqMod \in DOMAIN pkt_map_ /\ pkt_map_[p % SeqMod] = p
    <3>1. p \in 1 .. sent /\ sent - p < SeqMod
      BY <2>1, <2>2, Bounds
    <3> QED
      BY <1>1, <3>1 DEF StreamInv, KeptNewest
  <2>3. ASSUME NEW s \in DOMAIN nackList
        PROVE  s \in DOMAIN pkt_map_ /\ pkt_map_[s] = PacketOf(s)
    <3>1. PICK p : p = PacketOf(s)
      OBVIOUS
    <3>2. p \in FirstPacket .. sent /\ p % SeqMod = s /\ Ahead - p <= MaxAsked
      BY <1>1, <3>1, ListedPacket
    <3>3. Ahead - p <= MaxAsked + MaxDelay
      BY <2>1, <3>2, Bounds
    <3> QED
      BY <2>2, <3>1, <3>2, <3>3
  <2>4. ASSUME NEW m \in BagToSet(net), m.kind = "nack", NEW s \in Pack!unpacking_nack(m.body)
        PROVE  s \in DOMAIN pkt_map_ /\ pkt_map_[s] < Newest
    <3>1. PICK p \in FirstPacket .. sent :
            p % SeqMod = s /\ Overtaken(p) /\ Ahead - p <= MaxAsked + MaxDelay - m.left
      BY <1>1, <2>4 DEF StreamInv, NacksTimely
    <3>2. m.left \in 0 .. MaxDelay /\ p \in Int
      BY <1>1, <2>1, <3>1 DEF StreamInv, TransportTypeOK, Datagram
    <3>3. Ahead - p <= MaxAsked + MaxDelay
      BY <2>1, <3>1, <3>2, Bounds
    <3>4. got # {}
      BY <3>1 DEF Overtaken
    <3>5. p < Newest
      BY <1>1, <3>1, <3>2, <3>4, NewestIs DEF StreamInv
    <3> QED
      BY <2>2, <3>1, <3>3, <3>5
  <2> QED
    BY <2>3, <2>4 DEF RequestHitsLost
<1>2. StreamInv => RequestHitsLost
  BY <1>1
<1> QED
  BY <1>2, StreamTimely, PTL

-----------------------------------------------------------------------------
(* The refinement.                                                         *)

\* The status of the packets, its cases in order, and what it rests on.
StatusMap == [n \in Packets |-> StatusOf(n)]
StatusFacts ==
  /\ sent \in FirstPacket - 1 .. LastPacket /\ got \subseteq FirstPacket .. sent
  /\ Listed \subseteq FirstPacket .. sent
  /\ \A p \in Listed : p \notin got /\ Overtaken(p)
  /\ \A n \in Packets :
       StatusMap[n] = IF n > sent THEN "unsent"
                      ELSE IF n \in Listed THEN "missing"
                      ELSE IF n \in got THEN "got"
                      ELSE IF Overtaken(n) THEN "dropped" ELSE "sent"

\* The cases of StatusOf exclude each other.
LEMMA StatusIs ==
  ASSUME StreamInv, TimelyNetwork
  PROVE  StatusFacts
<1>1. sent \in FirstPacket - 1 .. LastPacket /\ got \subseteq FirstPacket .. sent
      /\ FirstPacket \in Nat /\ sent \in Nat /\ LastPacket \in Nat
  BY TransportAssumption DEF StreamInv, TransportTypeOK, GotStreamed
<1>2. ASSUME NEW p \in Listed PROVE p \in FirstPacket .. sent /\ p \notin got /\ Overtaken(p)
  <2>1. PICK s \in DOMAIN nackList : p = PacketOf(s)
    BY <1>2 DEF Listed
  <2>2. p \in FirstPacket .. sent /\ p \notin got /\ p < Newest /\ got # {}
    BY <2>1, ListedPacket
  <2>3. p \in Int
    BY <1>1, <2>2
  <2>4. Overtaken(p)
    BY <2>2, <2>3, NewestIs DEF StreamInv
  <2> QED
    BY <2>2, <2>4
<1>3. ASSUME NEW n \in Packets
      PROVE  StatusMap[n] = IF n > sent THEN "unsent"
                            ELSE IF n \in Listed THEN "missing"
                            ELSE IF n \in got THEN "got"
                            ELSE IF Overtaken(n) THEN "dropped" ELSE "sent"
  <2>1. StatusMap[n] = StatusOf(n) /\ n \in Int
    BY <1>1 DEF StatusMap, Packets
  <2>2. PICK L : L = Listed
    OBVIOUS
  <2>3. L \subseteq FirstPacket .. sent /\ got \subseteq FirstPacket .. sent /\ L \cap got = {}
    BY <1>1, <1>2, <2>2
  <2>4. StatusOf(n) = CASE n > sent                  -> "unsent"
                        [] n <= sent /\ n \in L      -> "missing"
                        [] n \in got \ L             -> "got"
                        [] n <= sent /\ n \notin L \cup got
                                                     -> IF Overtaken(n) THEN "dropped" ELSE "sent"
    BY <2>2 DEF StatusOf, Overtaken
  <2>5. CASE n > sent
    <3>1. ~(n <= sent) /\ n \notin got
      BY <1>1, <2>1, <2>3, <2>5
    <3> QED
      BY <2>1, <2>2, <2>4, <2>5, <3>1
  <2>6. CASE ~(n > sent)
    <3>1. n <= sent
      BY <1>1, <2>1, <2>6
    <3>2. CASE n \in L
      BY <2>1, <2>2, <2>3, <2>4, <2>6, <3>1, <3>2
    <3>3. CASE n \notin L /\ n \in got
      BY <2>1, <2>2, <2>3, <2>4, <2>6, <3>1, <3>3
    <3>4. CASE n \notin L /\ n \notin got
      BY <2>1, <2>2, <2>3, <2>4, <2>6, <3>1, <3>4
    <3> QED
      BY <3>2, <3>3, <3>4
  <2> QED
    BY <2>5, <2>6
<1> QED
  BY <1>1, <1>2, <1>3 DEF StatusFacts

\* The steps of StreamDelivery, in terms of StatusMap: a packet is sent.
LEMMA SendStep ==
  ASSUME NEW n \in Packets, StatusMap[n] = "unsent",
         \A k \in Packets : k < n => StatusMap[k] # "unsent",
         \A k \in Packets : StatusMap'[k] = IF k = n THEN "sent" ELSE StatusMap[k]
  PROVE  Stream!Next
<1>1. StatusMap' = [StatusMap EXCEPT ![n] = "sent"]
  BY DEF StatusMap
<1>2. Stream!Send(n)
  BY <1>1 DEF Stream!Send, StatusMap
<1> QED
  BY <1>2 DEF Stream!Next

\* The arrival of a packet that was missing or dropped.
LEMMA ArriveOldStep ==
  ASSUME NEW n \in Packets, StatusMap[n] \in {"missing", "dropped"},
         \A k \in Packets : StatusMap'[k] = IF k = n THEN "got" ELSE StatusMap[k]
  PROVE  Stream!Next
<1>1. StatusMap' = [StatusMap EXCEPT ![n] = "got"]
  BY DEF StatusMap
<1>2. Stream!ArriveOld(n)
  BY <1>1 DEF Stream!ArriveOld, StatusMap
<1> QED
  BY <1>2 DEF Stream!Next

\* The arrival of a packet newer than all received.
LEMMA ArriveNewStep ==
  ASSUME StatusFacts', NEW n \in Packets, StatusMap[n] = "sent", StatusMap'[n] = "got",
         \A k \in Packets \ {n} :
           IF k < n /\ StatusMap[k] \in {"sent", "missing"}
             THEN StatusMap'[k] \in {"missing", "dropped"}
             ELSE StatusMap'[k] = StatusMap[k]
  PROVE  Stream!Next
<1>1. StatusMap' \in [Packets -> Stream!Statuses]
  <2>1. \A k \in Packets : StatusMap'[k] \in Stream!Statuses
    BY DEF StatusFacts, Stream!Statuses
  <2>2. StatusMap' = [k \in Packets |-> StatusMap'[k]]
    BY DEF StatusMap
  <2> QED
    BY <2>1, <2>2
<1>2. Stream!ArriveNew(n)
  BY <1>1 DEF Stream!ArriveNew, StatusMap
<1> QED
  BY <1>2 DEF Stream!Next

\* Packets are given up.
LEMMA GiveUpStep ==
  ASSUME StatusFacts',
         \A k \in Packets : \/ StatusMap'[k] = StatusMap[k]
                            \/ StatusMap[k] = "missing" /\ StatusMap'[k] = "dropped"
  PROVE  Stream!Next
<1>1. StatusMap' \in [Packets -> Stream!Statuses]
  <2>1. \A k \in Packets : StatusMap'[k] \in Stream!Statuses
    BY DEF StatusFacts, Stream!Statuses
  <2>2. StatusMap' = [k \in Packets |-> StatusMap'[k]]
    BY DEF StatusMap
  <2> QED
    BY <2>1, <2>2
<1>2. Stream!GiveUp
  BY <1>1 DEF Stream!GiveUp, StatusMap
<1> QED
  BY <1>2 DEF Stream!Next

\* A packet of those received already takes nothing but itself off the list.
LEMMA ListedBelow ==
  ASSUME StreamInv, TimelyNetwork, NEW m \in BagToSet(net), ReceiverOnData(m), got # {},
         m.body <= Newest
  PROVE  Listed' \subseteq Listed /\ Listed \ {m.body} \subseteq Listed'
<1>1. PICK n, b : n = m.body /\ b = Newest
  OBVIOUS
<1>2. n \in FirstPacket .. sent /\ b \in FirstPacket .. sent /\ b <= Ahead /\ Ahead \in Nat
      /\ sent <= Ahead /\ FirstPacket \in Nat /\ n \in Int /\ b \in Int
  <2>1. n \in FirstPacket .. sent
    BY <1>1, ReceivedIs
  <2>2. b \in FirstPacket .. sent /\ b <= Ahead /\ Ahead \in Nat /\ sent <= Ahead
    BY <1>1, Behind
  <2> QED
    BY <2>1, <2>2, Bounds
<1>3. CASE n = b
  BY <1>1, <1>3, ReceivedIs DEF Listed, PacketOf
<1>4. CASE n < b
  <2>1. /\ lastSeq' = lastSeq /\ Newest' = Newest
        /\ nackList' = Keep(nackList, DOMAIN nackList \ {n % SeqMod})
    BY <1>1, <1>4, ReceivedIs
  <2>2. DOMAIN nackList' = DOMAIN nackList \ {n % SeqMod} /\ \A s : PacketOf(s)' = PacketOf(s)
    BY <2>1 DEF Keep, PacketOf
  <2>3. Listed' \subseteq Listed
    BY <2>2 DEF Listed
  <2>4. ASSUME NEW p \in Listed, p # n PROVE p \in Listed'
    <3>1. PICK s \in DOMAIN nackList : p = PacketOf(s)
      BY <2>4 DEF Listed
    <3>2. p \in FirstPacket .. sent /\ p % SeqMod = s /\ Ahead - p <= MaxAsked
      BY <3>1, ListedPacket
    <3>3. Ahead - n <= MaxAsked + 2 * MaxDelay
      <4>1. m.kind = "data"
        BY DEF ReceiverOnData
      <4>2. Ahead - n <= MaxAsked + 2 * MaxDelay - m.left /\ m.left \in 0 .. MaxDelay
        BY <1>1, <4>1 DEF StreamInv, DataTimely, TransportTypeOK, Datagram
      <4> QED
        BY <1>2, <4>2, Bounds
    <3>4. p \in Int /\ n - p < SeqMod /\ p - n < SeqMod
      <4>1. sent \in Int /\ p \in Int
        BY <3>2, TransportAssumption DEF StreamInv, TransportTypeOK
      <4>2. p <= Ahead /\ n <= Ahead /\ Ahead \in Int
        BY <1>2, <3>2, <4>1
      <4> QED
        BY <1>2, <3>2, <3>3, <4>1, <4>2, Bounds
    <3>5. s # n % SeqMod
      <4> SUFFICES ASSUME p % SeqMod = n % SeqMod PROVE FALSE
        BY <3>2
      <4>1. CASE p <= n
        BY <1>2, <2>4, <3>4, <4>1, SamePacket
      <4>2. CASE n <= p
        BY <1>2, <2>4, <3>4, <4>2, SamePacket
      <4> QED
        BY <1>2, <3>4, <4>1, <4>2
    <3> QED
      BY <2>2, <3>1, <3>5 DEF Listed
  <2> QED
    BY <1>1, <2>3, <2>4
<1> QED
  BY <1>1, <1>2, <1>3, <1>4

\* A newer packet puts on the list only packets between the newest one and it.
LEMMA ListedAbove ==
  ASSUME StreamInv, TimelyNetwork, NEW m \in BagToSet(net), ReceiverOnData(m), got # {},
         m.body > Newest
  PROVE  \A p \in Listed' : p \in Listed \/ p > Newest
<1>1. PICK n, b : n = m.body /\ b = Newest
  OBVIOUS
<1>2. n \in FirstPacket .. sent /\ b \in FirstPacket .. sent /\ b <= Ahead /\ Ahead \in Nat
      /\ sent <= Ahead /\ n \in Int /\ b \in Int /\ b < n /\ n <= Ahead
  <2>1. n \in FirstPacket .. sent
    BY <1>1, ReceivedIs
  <2>2. b \in FirstPacket .. sent /\ b <= Ahead /\ Ahead \in Nat /\ sent <= Ahead
    BY <1>1, Behind
  <2>3. sent \in Int
    BY TransportAssumption DEF StreamInv, TransportTypeOK
  <2> QED
    BY <1>1, <2>1, <2>2, <2>3, Bounds
<1> DEFINE a == (lastSeq + 1) % SeqMod
           e == n % SeqMod
<1>3. /\ lastSeq' = e /\ Newest' = n /\ nackList' = AddPacketsToNackList(nackList, a, e)
      /\ n - b < SeqMod \div 2
  BY <1>1, ReceivedIs
<1>4. lastSeq = b % SeqMod
  BY <1>1 DEF StreamInv, LastSeqIsNewest, TransportTypeOK
<1>5. DOMAIN nackList \subseteq SeqNum /\ nackList \in [DOMAIN nackList -> NackInfo]
      /\ lastSeq \in SeqNum
  BY DEF StreamInv, TransportTypeOK, IInv, TypeOK
<1>6. a \in SeqNum /\ e \in SeqNum
  <2>1. lastSeq + 1 \in Int
    BY <1>5 DEF SeqNum
  <2> QED
    BY <1>2, <2>1, SeqOf
<1>7. a = ((b % SeqMod) + 1) % SeqMod
  BY <1>4
<1> HIDE DEF a, e
<1>8. ASSUME NEW s \in DOMAIN nackList' PROVE s \in DOMAIN nackList \/ s \in Gap(a, e)
  <2>1. PICK list, new : list = nackList /\ new = nackList'
    OBVIOUS
  <2>2. new = AddPacketsToNackList(list, a, e) /\ DOMAIN list \subseteq SeqNum
        /\ list \in [DOMAIN list -> NackInfo]
    BY <1>3, <1>5, <2>1
  <2>3. \A t \in DOMAIN new : \/ t \in SurvivingPurge(list, e) /\ new[t] = list[t]
                              \/ t \in Gap(a, e)
    BY <1>6, <2>2, AddPacketsTyped
  <2> QED
    BY <2>1, <2>3 DEF SurvivingPurge
<1> SUFFICES ASSUME NEW s \in DOMAIN nackList'
             PROVE  PacketOf(s)' \in Listed \/ PacketOf(s)' > b
  BY <1>1 DEF Listed
<1>9. PacketOf(s)' = n - Dist(s, e)
  BY <1>3 DEF PacketOf
<1>10. CASE s \in DOMAIN nackList
  <2>1. PICK p : p = PacketOf(s)
    OBVIOUS
  <2>2. p \in FirstPacket .. sent /\ p % SeqMod = s /\ Ahead - p <= MaxAsked /\ p < b
    BY <1>1, <1>10, <2>1, ListedPacket
  <2>3. p \in Int /\ p <= n /\ n - p < SeqMod
    BY <1>2, <2>2, Bounds
  <2>4. Dist(s, e) = n - p
    BY <1>2, <2>2, <2>3, DistIs DEF e
  <2>5. PacketOf(s)' = p
    BY <1>2, <1>9, <2>3, <2>4
  <2> QED
    BY <1>10, <2>1, <2>5 DEF Listed
<1>11. CASE s \in Gap(a, e)
  <2>1. n - b < SeqMod
    BY <1>2, <1>3, SeqModPositive
  <2>2. PICK p \in b + 1 .. n - 1 : p % SeqMod = s
    BY <1>2, <1>7, <1>11, <2>1, GapIs DEF e
  <2>3. p \in Int /\ p <= n /\ n - p < SeqMod /\ p > b
    BY <1>2, <2>1, <2>2, SeqModPositive
  <2>4. Dist(s, e) = n - p
    BY <1>2, <2>2, <2>3, DistIs DEF e
  <2>5. PacketOf(s)' = p
    BY <1>2, <1>9, <2>3, <2>4
  <2> QED
    BY <2>3, <2>5
<1> QED
  BY <1>8, <1>10, <1>11

\* Steps that leave sent, got and the packets listed alone are not seen.
LEMMA StatusUntouched ==
  ASSUME UNCHANGED <<sent, got, lastSeq>>, DOMAIN nackList' = DOMAIN nackList
  PROVE  StatusMap' = StatusMap
<1>1. Listed' = Listed
  BY DEF Listed, PacketOf, Newest
<1>2. \A n : StatusOf(n)' = StatusOf(n)
  BY <1>1 DEF StatusOf
<1> QED
  BY <1>2 DEF StatusMap

\* A packet is sent.
LEMMA RefineSenderTimer ==
  ASSUME StreamInv, TimelyNetwork, StatusFacts, StatusFacts', SenderTimer
  PROVE  Stream!Next
<1>1. PICK n : n = sent + 1
  OBVIOUS
<1>2. sent' = n /\ got' = got /\ lastSeq' = lastSeq /\ nackList' = nackList /\ "sender" \in expired
  BY <1>1 DEF SenderTimer, genVars
<1>3. sent \in Nat /\ n \in Packets /\ FirstPacket \in Nat /\ LastPacket \in Nat
  BY <1>1, <1>2, TransportAssumption DEF StreamInv, TransportTypeOK, Packets
<1>4. Listed' = Listed /\ \A k : Overtaken(k)' = Overtaken(k)
  BY <1>2 DEF Listed, PacketOf, Newest, Overtaken
<1>5. n \in Int /\ n > sent /\ n \notin Listed /\ n \notin got /\ ~Overtaken(n)
  BY <1>1, <1>3 DEF StatusFacts, Overtaken
<1>6. StatusMap[n] = "unsent" /\ StatusMap'[n] = "sent"
  BY <1>2, <1>3, <1>4, <1>5 DEF StatusFacts
<1>7. ASSUME NEW k \in Packets, k < n PROVE StatusMap[k] # "unsent"
  <2>1. ~(k > sent)
    BY <1>1, <1>3, <1>7 DEF Packets
  <2> QED
    BY <2>1 DEF StatusFacts
<1>8. ASSUME NEW k \in Packets, k # n PROVE StatusMap'[k] = StatusMap[k]
  <2>1. (k > sent) <=> (k > n)
    BY <1>1, <1>3, <1>8 DEF Packets
  <2> QED
    BY <1>2, <1>4, <2>1 DEF StatusFacts
<1> QED
  BY <1>3, <1>6, <1>7, <1>8, SendStep

\* Packets leave the list: given up, or taken off it once more.
LEMMA RefineShrinking ==
  ASSUME StatusFacts, StatusFacts', UNCHANGED <<sent, got>>, Listed' \subseteq Listed
  PROVE  Stream!Next
<1>1. \A k : Overtaken(k)' = Overtaken(k)
  BY DEF Overtaken
<1>2. ASSUME NEW k \in Packets
      PROVE  \/ StatusMap'[k] = StatusMap[k]
             \/ StatusMap[k] = "missing" /\ StatusMap'[k] = "dropped"
  <2>1. CASE k \in Listed /\ k \notin Listed'
    <3>1. k \notin got /\ Overtaken(k) /\ ~(k > sent)
      BY <2>1, TransportAssumption DEF StatusFacts
    <3> QED
      BY <1>1, <2>1, <3>1 DEF StatusFacts
  <2>2. CASE ~(k \in Listed /\ k \notin Listed')
    BY <1>1, <2>2 DEF StatusFacts
  <2> QED
    BY <2>1, <2>2
<1> QED
  BY <1>2, GiveUpStep

\* The receiver's timer: some packets are given up.
LEMMA RefineReceiverTimer ==
  ASSUME StatusFacts, StatusFacts', ReceiverTimer
  PROVE  Stream!Next
<1>1. /\ sent' = sent /\ got' = got /\ lastSeq' = lastSeq
      /\ DOMAIN nackList' \subseteq DOMAIN nackList
  BY DEF ReceiverTimer, GetNackBatch, senderVars
<1>2. Listed' \subseteq Listed
  BY <1>1 DEF Listed, PacketOf, Newest
<1> QED
  BY <1>1, <1>2, RefineShrinking

\* A packet arrives, once more, late, or as the newest.
LEMMA RefineReceiverOnData ==
  ASSUME StreamInv, TimelyNetwork, StatusFacts, StatusFacts',
         NEW m \in BagToSet(net), ReceiverOnData(m)
  PROVE  Stream!Next
<1>1. PICK n : n = m.body
  OBVIOUS
<1>2. n \in FirstPacket .. sent /\ got' = got \cup {n} /\ sent' = sent
  BY <1>1, ReceivedIs DEF ReceiverOnData, senderVars
<1>3. sent \in Nat /\ n \in Packets /\ n \in Int /\ ~(n > sent) /\ FirstPacket \in Nat
      /\ LastPacket \in Nat
  BY <1>2, TransportAssumption DEF StatusFacts, Packets
<1>4. Packets \subseteq Int /\ got \subseteq Int
  BY <1>3 DEF Packets, StatusFacts
<1>5. n \notin Listed' /\ StatusMap'[n] = "got"
  BY <1>2, <1>3 DEF StatusFacts
<1>6. \A k : Overtaken(k)' <=> Overtaken(k) \/ k < n
  BY <1>2 DEF Overtaken
<1>7. CASE got = {}
  <2>1. Listed = {} /\ Listed' = {} /\ \A k : ~Overtaken(k)
    <3>1. Listed = {} /\ \A k : ~Overtaken(k)
      BY <1>7 DEF StatusFacts, Overtaken
    <3>2. nackList' = nackList
      BY <1>7, ReceivedIs
    <3> QED
      BY <3>1, <3>2 DEF Listed
  <2>2. StatusMap[n] = "sent"
    BY <1>3, <1>7, <2>1 DEF StatusFacts
  <2>3. ASSUME NEW k \in Packets \ {n}
        PROVE  IF k < n /\ StatusMap[k] \in {"sent", "missing"}
                 THEN StatusMap'[k] \in {"missing", "dropped"}
                 ELSE StatusMap'[k] = StatusMap[k]
    <3>1. k \notin got' /\ (k < n => ~(k > sent))
      BY <1>2, <1>3, <1>4, <1>7
    <3>2. CASE k < n
      <4>1. StatusMap'[k] = "dropped" /\ StatusMap[k] = "sent"
        BY <1>2, <1>6, <1>7, <2>1, <3>1, <3>2 DEF StatusFacts
      <4> QED
        BY <3>2, <4>1
    <3>3. CASE ~(k < n)
      <4>1. StatusMap'[k] = StatusMap[k]
        BY <1>2, <1>6, <1>7, <2>1, <3>1, <3>3 DEF StatusFacts
      <4> QED
        BY <3>3, <4>1
    <3> QED
      BY <3>2, <3>3
  <2> QED
    BY <1>3, <1>5, <2>2, <2>3, ArriveNewStep
<1>8. CASE got # {}
  <2>1. PICK b : b = Newest
    OBVIOUS
  <2>2. b \in Int /\ b \in got /\ (\A c \in got : c <= b) /\ \A k \in Int : Overtaken(k) <=> k < b
    BY <1>4, <1>8, <2>1, NewestIs DEF StreamInv
  <2>3. CASE n \in got
    <3>1. n <= b
      BY <2>2, <2>3
    <3>2. Listed' \subseteq Listed /\ got' = got
      BY <1>1, <1>2, <1>8, <2>1, <2>3, <3>1, ListedBelow
    <3> QED
      BY <1>2, <3>2, RefineShrinking
  <2>4. CASE n \notin got /\ n <= b
    <3>1. n < b
      BY <1>3, <2>2, <2>4
    <3>2. Listed' \subseteq Listed /\ Listed \ {n} \subseteq Listed'
      BY <1>1, <1>8, <2>1, <2>4, ListedBelow
    <3>3. StatusMap[n] \in {"missing", "dropped"}
      BY <1>3, <2>2, <2>4, <3>1 DEF StatusFacts
    <3>4. ASSUME NEW k \in Packets, k # n PROVE StatusMap'[k] = StatusMap[k]
      <4>1. Overtaken(k)' <=> Overtaken(k)
        BY <1>3, <1>4, <1>6, <2>2, <3>1
      <4>2. (k \in Listed' <=> k \in Listed) /\ (k \in got' <=> k \in got)
        BY <1>2, <3>2, <3>4
      <4> QED
        BY <1>2, <4>1, <4>2 DEF StatusFacts
    <3> QED
      BY <1>3, <1>5, <3>3, <3>4, ArriveOldStep
  <2>5. CASE n > b
    <3>1. n \notin got /\ ~Overtaken(n) /\ n \notin Listed
      BY <1>3, <2>2, <2>5 DEF StatusFacts
    <3>2. \A p \in Listed' : p \in Listed \/ p > b
      BY <1>1, <1>8, <2>1, <2>5, ListedAbove
    <3>3. StatusMap[n] = "sent"
      BY <1>3, <3>1 DEF StatusFacts
    <3>4. ASSUME NEW k \in Packets \ {n}
          PROVE  IF k < n /\ StatusMap[k] \in {"sent", "missing"}
                   THEN StatusMap'[k] \in {"missing", "dropped"}
                   ELSE StatusMap'[k] = StatusMap[k]
      <4>1. k \in Int /\ (k \in got' <=> k \in got) /\ k # n
        BY <1>2, <1>4
      <4>2. CASE k < n
        <5>1. Overtaken(k)' /\ ~(k > sent)
          BY <1>2, <1>3, <1>6, <4>1, <4>2
        <5>2. CASE k \in got
          <6>1. StatusMap[k] = "got" /\ StatusMap'[k] = "got"
            BY <1>2, <4>1, <5>1, <5>2 DEF StatusFacts
          <6> QED
            BY <6>1
        <5>3. CASE k \notin got
          <6>1. StatusMap'[k] \in {"missing", "dropped"}
            BY <1>2, <4>1, <5>1, <5>3 DEF StatusFacts
          <6>2. CASE StatusMap[k] \in {"sent", "missing"}
            BY <4>2, <6>1, <6>2
          <6>3. CASE StatusMap[k] \notin {"sent", "missing"}
            <7>1. k \notin Listed /\ Overtaken(k) /\ StatusMap[k] = "dropped"
              BY <5>1, <5>3, <6>3 DEF StatusFacts
            <7>2. ~(k > b)
              BY <2>2, <4>1, <7>1
            <7>3. k \notin Listed'
              BY <3>2, <7>1, <7>2
            <7>4. StatusMap'[k] = "dropped"
              BY <1>2, <4>1, <5>1, <5>3, <7>3 DEF StatusFacts
            <7> QED
              BY <6>3, <7>1, <7>4
          <6> QED
            BY <6>2, <6>3
        <5> QED
          BY <5>2, <5>3
      <4>3. CASE ~(k < n)
        <5>1. ~Overtaken(k) /\ ~Overtaken(k)' /\ k \notin got
          BY <1>3, <1>6, <2>2, <2>5, <4>1, <4>3
        <5>2. k \notin Listed /\ k \notin Listed'
          BY <5>1 DEF StatusFacts
        <5>3. StatusMap'[k] = StatusMap[k]
          BY <1>2, <4>1, <5>1, <5>2 DEF StatusFacts
        <5> QED
          BY <4>3, <5>3
      <4> QED
        BY <4>2, <4>3
    <3> QED
      BY <1>3, <1>5, <3>3, <3>4, ArriveNewStep
  <2> QED
    BY <1>3, <2>2, <2>3, <2>4, <2>5
<1> QED
  BY <1>7, <1>8

\* Initially nothing has been sent.
LEMMA RefineInit ==
  ASSUME TransportInit, TimelyNetwork
  PROVE  Stream!Init
<1>1. StatusFacts
  BY StreamInit, StatusIs
<1>2. sent = FirstPacket - 1 /\ FirstPacket \in Nat /\ LastPacket \in Nat
  BY TransportAssumption DEF TransportInit
<1>3. \A n \in Packets : StatusMap[n] = "unsent"
  BY <1>1, <1>2 DEF StatusFacts, Packets
<1>4. StatusMap = [n \in Packets |-> "unsent"]
  BY <1>3 DEF StatusMap
<1> QED
  BY <1>4 DEF Stream!Init, StatusMap

\* Every step of the protocol is a step of StreamDelivery or is not seen there.
LEMMA RefineStep ==
  ASSUME StreamInv, TimelyNetwork, StatusFacts, StatusFacts', [TransportNext]_vars
  PROVE  Stream!Next \/ StatusMap' = StatusMap
<1>1. CASE UNCHANGED vars
  BY <1>1, StatusUntouched DEF vars, genVars, senderVars
<1>2. CASE Elapsing
  BY <1>2, StatusUntouched DEF Elapsing, senderVars, Aged
<1>3. ASSUME NEW m \in BagToSet(net), SenderOnNack(m) \/ SenderOnProbe(m) \/ ReceiverOnEcho(m)
      PROVE  StatusMap' = StatusMap
  BY <1>3, StatusUntouched DEF SenderOnNack, SenderOnProbe, ReceiverOnEcho, senderVars, genVars
<1> QED
  BY <1>1, <1>2, <1>3, RefineSenderTimer, RefineReceiverTimer, RefineReceiverOnData
  DEF TransportNext, Receive

\* The NACK demo implements StreamDelivery: across retransmissions, duplicates
\* and the wrap-around no packet is missing again once it was received, none is
\* looked for again once it was dropped, and only a newer packet makes a packet
\* missing.
THEOREM StreamDelivered ==
  ASSUME TimelyNetwork
  PROVE  TransportSpec => ImplementsStreamDelivery
<1>1. TransportInit => Stream!Init
  BY RefineInit
<1>2. StreamInv => StatusFacts
  BY StatusIs
<1>3. StreamInv /\ StatusFacts /\ StatusFacts' /\ [TransportNext]_vars =>
        [Stream!Next]_[n \in Packets |-> StatusOf(n)]
  BY RefineStep DEF StatusMap
<1> QED
  BY <1>1, <1>2, <1>3, StreamTimely, PTL
  DEF TransportSpec, ImplementsStreamDelivery, Stream!Spec
=============================================================================
