----------------------- MODULE FlexfecTransportProofs -----------------------
(***************************************************************************)
(* What FEC recovers, the order of the decoder's lists and the frames      *)
(* without protection, for every size of the lists, of the groups and of   *)
(* the stream.                                                             *)
(***************************************************************************)
EXTENDS FlexfecTransport, NumberFacts

Numbers == 0 .. SeqSpace - 1
Half == SeqSpace \div 2

\* How far s is behind next.
Behind(next, s) == (next - s) % SeqSpace

-----------------------------------------------------------------------------
(* The order of sequence numbers that lie in one half of the space, and    *)
(* the lists that are sorted by them.                                      *)

\* The constants of the code, as numbers.
LEMMA SpaceIs ==
  /\ SeqSpace \in Nat \ {0} /\ Half \in Nat /\ SeqSpace = 2 * Half /\ Half >= 2
  /\ Numbers \subseteq Nat /\ MaxMediaPackets \in Nat \ {0} /\ MaxFecPackets \in Nat \ {0}
<1>1. SeqSpace \in Nat \ {0} /\ SeqSpace % 4 = 0
  BY FecCodeAssumption
<1>2. SeqSpace >= 4 /\ SeqSpace = 2 * (SeqSpace \div 2)
  BY <1>1, SMT
<1>3. Half \in Nat /\ SeqSpace = 2 * Half /\ Half >= 2
  BY <1>1, <1>2 DEF Half
<1> QED
  BY <1>1, <1>3, FecCodeAssumption DEF Numbers

\* Behind, without a remainder.
LEMMA BehindIs ==
  ASSUME NEW next \in Numbers, NEW s \in Numbers
  PROVE  /\ Behind(next, s) \in Numbers
         /\ Behind(next, s) = IF s <= next THEN next - s ELSE next - s + SeqSpace
<1>1. SeqSpace \in Nat \ {0} /\ next - s \in Int /\ -SeqSpace <= next - s /\ next - s < SeqSpace
  BY SpaceIs DEF Numbers
<1>2. (next - s) % SeqSpace = IF next - s < 0 THEN next - s + SeqSpace
                              ELSE IF next - s < SeqSpace THEN next - s ELSE next - s - SeqSpace
  BY <1>1, NearRemainder
<1> QED
  BY <1>1, <1>2 DEF Behind, Numbers

\* Within half the space a number is newer if it is less far behind.
LEMMA NewerIs ==
  ASSUME NEW next \in Numbers, NEW a \in Numbers, NEW b \in Numbers,
         Behind(next, a) < Half, Behind(next, b) < Half
  PROVE  /\ IsNewer(b, a, SeqSpace) <=> Behind(next, b) < Behind(next, a)
         /\ Behind(next, a) = Behind(next, b) <=> a = b
<1>1. /\ a \in Nat /\ b \in Nat /\ next \in Nat /\ a < SeqSpace /\ b < SeqSpace /\ next < SeqSpace
      /\ SeqSpace \in Nat \ {0} /\ Half \in Nat /\ SeqSpace = 2 * Half /\ Half >= 2
  BY SpaceIs DEF Numbers
<1>2. (b - a) % SeqSpace = IF b - a < 0 THEN b - a + SeqSpace
                           ELSE IF b - a < SeqSpace THEN b - a ELSE b - a - SeqSpace
  <2>1. b - a \in Int /\ -SeqSpace <= b - a /\ b - a < SeqSpace + SeqSpace
    BY <1>1
  <2> QED
    BY <1>1, <2>1, NearRemainder
<1>3. /\ Behind(next, a) = IF a <= next THEN next - a ELSE next - a + SeqSpace
      /\ Behind(next, b) = IF b <= next THEN next - b ELSE next - b + SeqSpace
  BY BehindIs
<1>4. IsNewer(b, a, SeqSpace) <=> IF b - a = Half THEN b > a ELSE b # a /\ (b - a) % SeqSpace < Half
  BY DEF IsNewer, Half
<1> HIDE DEF Half
<1> QED
  BY <1>1, <1>2, <1>3, <1>4

\* Records whose numbers lie within half the space behind next.
Windowed(E, next) == next \in Numbers /\ \A e \in E : e.seq \in Numbers /\ Behind(next, e.seq) < Half

\* A list in the order of the numbers.
Ordered(list) == \A i, j \in 1 .. Len(list) : i < j => LessThan(list[i], list[j])

\* The order is that of the distances.
LEMMA LessThanIs ==
  ASSUME NEW E, NEW next, Windowed(E, next), NEW p \in E, NEW q \in E
  PROVE  /\ LessThan(p, q) <=> Behind(next, q.seq) < Behind(next, p.seq)
         /\ Behind(next, p.seq) = Behind(next, q.seq) <=> p.seq = q.seq
         /\ Behind(next, p.seq) \in Nat
<1>1. next \in Numbers /\ p.seq \in Numbers /\ q.seq \in Numbers
      /\ Behind(next, p.seq) < Half /\ Behind(next, q.seq) < Half
  BY DEF Windowed
<1>2. Behind(next, p.seq) \in Nat
  BY <1>1, BehindIs, SpaceIs
<1> QED
  BY <1>1, <1>2, NewerIs DEF LessThan

\* A set of positions without gaps is an interval.
LEMMA PrefixIs ==
  ASSUME NEW n \in Nat, NEW K \in SUBSET (1 .. n),
         \A i \in K : \A j \in 1 .. i : j \in K
  PROVE  \E c \in 0 .. n : K = 1 .. c
<1> DEFINE gaps == {i \in 1 .. n + 1 : i \notin K}
<1>1. n + 1 \in gaps /\ gaps \in SUBSET Nat
  OBVIOUS
<1>2. PICK m \in gaps : \A k \in gaps : m <= k
  <2> HIDE DEF gaps
  <2> QED
    BY <1>1, NatMin
<1>3. m - 1 \in 0 .. n
  BY <1>2
<1>4. K = 1 .. m - 1
  <2>1. ASSUME NEW i \in K
        PROVE  i \in 1 .. m - 1
    <3>1. CASE m <= i
      <4>1. m \in 1 .. i /\ m \notin K
        BY <1>2, <3>1
      <4> QED
        BY <4>1
    <3> QED
      BY <1>3, <3>1
  <2>2. ASSUME NEW i \in 1 .. m - 1
        PROVE  i \in K
    BY <1>2, <1>3
  <2> QED
    BY <2>1, <2>2
<1> QED
  BY <1>3, <1>4

\* An interval and one number more.
LEMMA IntervalAnd ==
  ASSUME NEW c \in Nat, NEW n \in Nat, c < n
  PROVE  /\ Cardinality(1 .. c) = c
         /\ Cardinality((1 .. c) \cup {n}) = c + 1
<1>1. IsFiniteSet(1 .. c) /\ Cardinality(1 .. c) = c
  BY FS_Interval
<1>2. n \notin 1 .. c
  OBVIOUS
<1> QED
  BY <1>1, <1>2, FS_AddElement

\* Where the packets of the list and the new one go: c packets are before it.
LEMMA SortedIs ==
  ASSUME NEW E, NEW next, Windowed(E, next), NEW list \in Seq(E), Ordered(list),
         NEW p \in E, p.seq \notin Seqs(list)
  PROVE  \E c \in 0 .. Len(list) :
           /\ Sorted(list, p) = [i \in 1 .. Len(list) + 1 |->
                IF i <= c THEN list[i] ELSE IF i = c + 1 THEN p ELSE list[i - 1]]
           /\ \A i \in 1 .. Len(list) : LessThan(list[i], p) <=> i <= c
           /\ \A i \in 1 .. Len(list) : LessThan(p, list[i]) <=> i > c
<1> DEFINE n == Len(list)
           all == Append(list, p)
           K == {i \in 1 .. n : LessThan(list[i], p)}
           B(q) == Behind(next, q.seq)
           before(q) == {m \in 1 .. n + 1 : LessThan(all[m], q)}
<1>1. /\ n \in Nat /\ \A i \in 1 .. n : list[i] \in E /\ list[i].seq # p.seq
      /\ Len(all) = n + 1 /\ all[n + 1] = p /\ \A i \in 1 .. n : all[i] = list[i]
  BY DEF Seqs
<1>2. \A q, r \in E : LessThan(q, r) <=> B(r) < B(q)
  BY LessThanIs
<1>3. \A q \in E : B(q) \in Nat
  BY LessThanIs
<1>4. \A q, r \in E : B(q) = B(r) <=> q.seq = r.seq
  BY LessThanIs
<1>5. \A i, j \in 1 .. n : i < j <=> B(list[j]) < B(list[i])
  <2>1. \A i, j \in 1 .. n : i < j => B(list[j]) < B(list[i])
    BY <1>1, <1>2 DEF Ordered
  <2>2. \A i \in 1 .. n : B(list[i]) \in Nat
    BY <1>1, <1>3
  <2> HIDE DEF B, n
  <2> QED
    BY <1>1, <2>1, <2>2
<1>6. \A i \in 1 .. n : i \in K <=> B(p) < B(list[i])
  BY <1>1, <1>2
<1>7. \A i \in 1 .. n : B(list[i]) # B(p) /\ B(list[i]) \in Nat /\ B(p) \in Nat
  BY <1>1, <1>3, <1>4
<1>8. \A i \in K : \A j \in 1 .. i : j \in K
  <2> HIDE DEF K, B
  <2> SUFFICES ASSUME NEW i \in K, NEW j \in 1 .. i
               PROVE  j \in K
    OBVIOUS
  <2>1. i \in 1 .. n /\ j \in 1 .. n
    BY <1>1 DEF K
  <2> QED
    BY <1>5, <1>6, <1>7, <2>1
<1>9. PICK c \in 0 .. n : K = 1 .. c
  <2>1. K \in SUBSET (1 .. n)
    OBVIOUS
  <2> HIDE DEF K
  <2> QED
    BY <1>1, <1>8, <2>1, PrefixIs
<1>10. \A i \in 1 .. n : (LessThan(list[i], p) <=> i <= c) /\ (LessThan(p, list[i]) <=> i > c)
  <2>1. \A i \in 1 .. n : (LessThan(list[i], p) <=> i \in K) /\ (LessThan(p, list[i]) <=> B(list[i]) < B(p))
    BY <1>1, <1>2
  <2> HIDE DEF K, B
  <2> QED
    BY <1>1, <1>6, <1>7, <1>9, <2>1
<1>11. ~LessThan(p, p)
  BY <1>2, <1>3
<1>12. ASSUME NEW i \in 1 .. n
       PROVE  before(list[i]) = IF i <= c THEN 1 .. i - 1 ELSE (1 .. i - 1) \cup {n + 1}
  <2>1. \A m \in 1 .. n : LessThan(all[m], list[i]) <=> m < i
    BY <1>1, <1>2, <1>5
  <2>2. LessThan(all[n + 1], list[i]) <=> ~(i <= c)
    BY <1>1, <1>10
  <2>3. \A m \in 1 .. n + 1 : m \in 1 .. n \/ m = n + 1
    BY <1>1
  <2>4. 1 .. i - 1 = {m \in 1 .. n : m < i} /\ n + 1 \in 1 .. n + 1 /\ n + 1 \notin 1 .. i - 1
    BY <1>1
  <2> HIDE DEF n, all
  <2>5. \A m \in 1 .. n : m \in 1 .. n + 1
    BY <1>1
  <2> QED
    BY <2>1, <2>2, <2>3, <2>4, <2>5
<1>13. before(p) = 1 .. c
  <2>1. \A m \in 1 .. n : LessThan(all[m], p) <=> m \in 1 .. c
    BY <1>1, <1>10
  <2>2. ~LessThan(all[n + 1], p)
    BY <1>1, <1>11
  <2>3. \A m \in 1 .. n + 1 : m \in 1 .. n \/ m = n + 1
    BY <1>1
  <2>4. \A m \in 1 .. c : m \in 1 .. n /\ m \in 1 .. n + 1
    BY <1>1
  <2> HIDE DEF n, all
  <2> QED
    BY <2>1, <2>2, <2>3, <2>4
<1>14. \A i \in 1 .. n : Cardinality(before(list[i])) = IF i <= c THEN i - 1 ELSE i
  <2> SUFFICES ASSUME NEW i \in 1 .. n
               PROVE  Cardinality(before(list[i])) = IF i <= c THEN i - 1 ELSE i
    OBVIOUS
  <2>1. i - 1 \in Nat /\ n + 1 \in Nat /\ i - 1 < n + 1
    BY <1>1
  <2>2. Cardinality(1 .. i - 1) = i - 1 /\ Cardinality((1 .. i - 1) \cup {n + 1}) = i - 1 + 1
    BY <2>1, IntervalAnd
  <2>3. i - 1 + 1 = i
    BY <1>1
  <2> HIDE DEF before, n
  <2> QED
    BY <1>12, <2>2, <2>3
<1>15. Cardinality(before(p)) = c
  <2>1. Cardinality(1 .. c) = c
    BY <1>1, FS_Interval
  <2> HIDE DEF before
  <2> QED
    BY <1>13, <2>1
<1> DEFINE at(i) == IF i <= c THEN list[i] ELSE IF i = c + 1 THEN p ELSE list[i - 1]
           elems == {all[k] : k \in 1 .. n + 1}
<1>16. Sorted(list, p) = [i \in 1 .. n + 1 |-> CHOOSE q \in elems : Cardinality(before(q)) = i - 1]
  BY <1>1 DEF Sorted
<1>17. elems = {list[k] : k \in 1 .. n} \cup {p}
  <2>1. 1 .. n + 1 = (1 .. n) \cup {n + 1}
    BY <1>1
  <2> HIDE DEF all, n
  <2> QED
    BY <1>1, <2>1
<1>18. ASSUME NEW i \in 1 .. n + 1
       PROVE  (CHOOSE q \in elems : Cardinality(before(q)) = i - 1) = at(i)
  <2> HIDE DEF before, elems, n
  <2>1. at(i) \in elems /\ Cardinality(before(at(i))) = i - 1
    <3>1. CASE i <= c
      BY <1>1, <1>14, <1>17, <3>1
    <3>2. CASE i = c + 1
      BY <1>1, <1>15, <1>17, <3>2
    <3>3. CASE i > c + 1
      <4>1. i - 1 \in 1 .. n /\ ~(i - 1 <= c) /\ ~(i <= c) /\ i # c + 1
        BY <1>1, <3>3
      <4> QED
        BY <1>14, <1>17, <4>1
    <3> QED
      BY <1>1, <3>1, <3>2, <3>3
  <2>2. ASSUME NEW q \in elems, Cardinality(before(q)) = i - 1
        PROVE  q = at(i)
    <3>1. CASE q = p
      <4>1. i = c + 1 /\ ~(i <= c)
        BY <1>1, <1>15, <2>2, <3>1
      <4> QED
        BY <3>1, <4>1
    <3>2. ASSUME NEW k \in 1 .. n, q = list[k]
          PROVE  q = at(i)
      <4>1. i - 1 = IF k <= c THEN k - 1 ELSE k
        BY <1>14, <2>2, <3>2
      <4>2. CASE k <= c
        <5>1. i = k
          BY <1>1, <4>1, <4>2
        <5> QED
          BY <3>2, <4>2, <5>1
      <4>3. CASE ~(k <= c)
        <5>1. i - 1 = k /\ ~(i <= c) /\ i # c + 1
          BY <1>1, <4>1, <4>3
        <5> QED
          BY <3>2, <5>1
      <4> QED
        BY <4>2, <4>3
    <3> QED
      BY <1>17, <3>1, <3>2
  <2> HIDE DEF at
  <2> QED
    BY <2>1, <2>2
<1>19. Sorted(list, p) = [i \in 1 .. n + 1 |-> at(i)]
  <2> HIDE DEF before, elems, at
  <2> QED
    BY <1>16, <1>18
<1> QED
  BY <1>9, <1>10, <1>19

\* A packet that is sorted in keeps the order and adds its number.
LEMMA SortedKeeps ==
  ASSUME NEW E, NEW next, Windowed(E, next), NEW list \in Seq(E), Ordered(list),
         NEW p \in E, p.seq \notin Seqs(list)
  PROVE  /\ Sorted(list, p) \in Seq(E)
         /\ Len(Sorted(list, p)) = Len(list) + 1
         /\ Ordered(Sorted(list, p))
         /\ Seqs(Sorted(list, p)) = Seqs(list) \cup {p.seq}
<1> DEFINE n == Len(list)
           t == Sorted(list, p)
<1>1. PICK c \in 0 .. n :
        /\ t = [i \in 1 .. n + 1 |-> IF i <= c THEN list[i] ELSE IF i = c + 1 THEN p ELSE list[i - 1]]
        /\ \A i \in 1 .. n : LessThan(list[i], p) <=> i <= c
        /\ \A i \in 1 .. n : LessThan(p, list[i]) <=> i > c
  BY SortedIs
<1>2. n \in Nat /\ \A i \in 1 .. n : list[i] \in E
  OBVIOUS
<1>3. \A i, j \in 1 .. n : i < j => LessThan(list[i], list[j])
  BY DEF Ordered
<1> HIDE DEF t
<1>4. \A i \in 1 .. n + 1 :
        \/ i <= c /\ i \in 1 .. n /\ t[i] = list[i]
        \/ i = c + 1 /\ t[i] = p
        \/ i > c + 1 /\ i - 1 \in 1 .. n /\ t[i] = list[i - 1]
  <2> HIDE DEF n
  <2> QED
    BY <1>1, <1>2
<1>5. t \in Seq(E) /\ Len(t) = n + 1
  <2>1. t \in [1 .. n + 1 -> E]
    <3>1. \A i \in 1 .. n + 1 : t[i] \in E
      BY <1>2, <1>4
    <3> HIDE DEF n
    <3> QED
      BY <1>1, <3>1
  <2> HIDE DEF n
  <2>2. t \in Seq(E)
    BY <1>2, <2>1
  <2> QED
    BY <1>2, <2>1, <2>2
<1>6. Ordered(t)
  <2> SUFFICES ASSUME NEW i \in 1 .. n + 1, NEW j \in 1 .. n + 1, i < j
               PROVE  LessThan(t[i], t[j])
    BY <1>5 DEF Ordered
  <2> HIDE DEF n
  <2>1. CASE i <= c /\ j <= c
    BY <1>3, <1>4, <2>1, <1>2
  <2>2. CASE i <= c /\ j = c + 1
    BY <1>1, <1>4, <2>2, <1>2
  <2>3. CASE i <= c /\ j > c + 1
    <3>1. i \in 1 .. n /\ t[i] = list[i] /\ j - 1 \in 1 .. n /\ t[j] = list[j - 1] /\ i < j - 1
      BY <1>4, <2>3, <1>2
    <3> QED
      BY <1>3, <3>1
  <2>4. CASE i = c + 1
    <3>1. t[i] = p /\ j > c + 1 /\ j - 1 \in 1 .. n /\ t[j] = list[j - 1] /\ j - 1 > c
      BY <1>4, <2>4, <1>2
    <3> QED
      BY <1>1, <3>1
  <2>5. CASE i > c + 1
    <3>1. i - 1 \in 1 .. n /\ t[i] = list[i - 1] /\ j - 1 \in 1 .. n /\ t[j] = list[j - 1] /\ i - 1 < j - 1
      BY <1>4, <2>5, <1>2
    <3> QED
      BY <1>3, <3>1
  <2> QED
    BY <1>2, <2>1, <2>2, <2>3, <2>4, <2>5
<1>7. Seqs(t) = {t[i].seq : i \in 1 .. n + 1} /\ Seqs(list) = {list[i].seq : i \in 1 .. n}
  BY <1>5 DEF Seqs
<1>8. \A i \in 1 .. n : \E j \in 1 .. n + 1 : t[j] = list[i]
  <2> HIDE DEF n
  <2> SUFFICES ASSUME NEW i \in 1 .. n
               PROVE  \E j \in 1 .. n + 1 : t[j] = list[i]
    OBVIOUS
  <2>1. CASE i <= c
    BY <1>2, <1>4, <2>1
  <2>2. CASE i > c
    <3>1. i + 1 \in 1 .. n + 1 /\ i + 1 > c + 1 /\ (i + 1) - 1 = i
      BY <1>2, <2>2
    <3>2. t[i + 1] = list[i]
      BY <1>1, <1>2, <1>4, <3>1
    <3> QED
      BY <3>1, <3>2
  <2> QED
    BY <1>2, <2>1, <2>2
<1>9. \E j \in 1 .. n + 1 : t[j] = p
  <2> HIDE DEF n
  <2>1. c + 1 \in 1 .. n + 1 /\ ~(c + 1 <= c) /\ ~(c + 1 > c + 1)
    BY <1>2
  <2> QED
    BY <1>4, <2>1
<1>10. \A i \in 1 .. n + 1 : t[i] = p \/ \E j \in 1 .. n : t[i] = list[j]
  BY <1>4
<1>11. Seqs(t) = Seqs(list) \cup {p.seq}
  <2> HIDE DEF n
  <2>1. Seqs(t) \subseteq Seqs(list) \cup {p.seq}
    BY <1>7, <1>10
  <2>2. p.seq \in Seqs(t)
    BY <1>7, <1>9
  <2>3. Seqs(list) \subseteq Seqs(t)
    BY <1>7, <1>8
  <2> QED
    BY <2>1, <2>2, <2>3
<1> QED
  BY <1>5, <1>6, <1>11 DEF t

\* Discarding from the front keeps the order.
LEMMA SuffixKeeps ==
  ASSUME NEW E, NEW list \in Seq(E), Ordered(list), NEW k \in 1 .. Len(list) + 1
  PROVE  /\ SubSeq(list, k, Len(list)) \in Seq(E)
         /\ Len(SubSeq(list, k, Len(list))) = Len(list) + 1 - k
         /\ Ordered(SubSeq(list, k, Len(list)))
         /\ Seqs(SubSeq(list, k, Len(list))) \subseteq Seqs(list)
         /\ \A i \in 1 .. Len(list) + 1 - k :
              \E j \in 1 .. Len(list) : SubSeq(list, k, Len(list))[i] = list[j]
         /\ k = 1 => SubSeq(list, k, Len(list)) = list
<1> DEFINE t == SubSeq(list, k, Len(list))
           n == Len(list)
<1>1. /\ t \in Seq(E) /\ Len(t) = n + 1 - k /\ n \in Nat
      /\ \A i \in 1 .. n + 1 - k : t[i] = list[k + i - 1]
  BY SuffixIs
<1> HIDE DEF t
<1>2. \A i \in 1 .. n + 1 - k : k + i - 1 \in 1 .. n
  BY <1>1
<1>3. Ordered(t)
  <2> SUFFICES ASSUME NEW i \in 1 .. n + 1 - k, NEW j \in 1 .. n + 1 - k, i < j
               PROVE  LessThan(t[i], t[j])
    BY <1>1 DEF Ordered
  <2>1. k + i - 1 \in 1 .. n /\ k + j - 1 \in 1 .. n /\ k + i - 1 < k + j - 1
    BY <1>1, <1>2
  <2> QED
    BY <1>1, <2>1 DEF Ordered
<1>4. \A i \in 1 .. n + 1 - k : \E j \in 1 .. n : t[i] = list[j]
  BY <1>1, <1>2
<1>5. Seqs(t) \subseteq Seqs(list)
  BY <1>1, <1>4 DEF Seqs
<1>6. k = 1 => t = list
  BY DEF t
<1> QED
  BY <1>1, <1>3, <1>4, <1>5, <1>6 DEF t

\* The list without its first packet.
LEMMA TailKeeps ==
  ASSUME NEW E, NEW list \in Seq(E), Ordered(list), list # <<>>
  PROVE  /\ Tail(list) \in Seq(E) /\ Len(Tail(list)) = Len(list) - 1 /\ Ordered(Tail(list))
         /\ \A i \in 1 .. Len(list) - 1 : \E j \in 1 .. Len(list) : Tail(list)[i] = list[j]
<1> DEFINE t == Tail(list)
           n == Len(list)
<1>1. t \in Seq(E) /\ Len(t) = n - 1 /\ n \in Nat \ {0} /\ \A i \in 1 .. n - 1 : t[i] = list[i + 1]
  OBVIOUS
<1> HIDE DEF t, n
<1>2. \A i \in 1 .. n - 1 : i + 1 \in 1 .. n
  BY <1>1
<1>3. Ordered(t)
  <2> SUFFICES ASSUME NEW i \in 1 .. n - 1, NEW j \in 1 .. n - 1, i < j
               PROVE  LessThan(t[i], t[j])
    BY <1>1 DEF Ordered
  <2>1. i + 1 \in 1 .. n /\ j + 1 \in 1 .. n /\ i + 1 < j + 1
    BY <1>1, <1>2
  <2> QED
    BY <1>1, <2>1 DEF Ordered, n
<1> QED
  BY <1>1, <1>2, <1>3 DEF t, n

\* The list without the packet at k.
LEMMA CutKeeps ==
  ASSUME NEW E, NEW list \in Seq(E), Ordered(list), NEW k \in 1 .. Len(list)
  PROVE  /\ RemoveAt(list, k) \in Seq(E) /\ Len(RemoveAt(list, k)) = Len(list) - 1
         /\ Ordered(RemoveAt(list, k))
         /\ \A i \in 1 .. Len(list) - 1 : \E j \in 1 .. Len(list) : RemoveAt(list, k)[i] = list[j]
<1> DEFINE t == RemoveAt(list, k)
           n == Len(list)
<1>1. /\ t \in Seq(E) /\ Len(t) = n - 1 /\ n \in Nat
      /\ \A i \in 1 .. n - 1 : t[i] = IF i < k THEN list[i] ELSE list[i + 1]
  <2>1. t = SubSeq(list, 1, k - 1) \o SubSeq(list, k + 1, Len(list))
    BY DEF RemoveAt
  <2> HIDE DEF t, n
  <2>2. /\ t \in Seq(E) /\ Len(t) = Len(list) - 1
        /\ \A i \in 1 .. Len(list) - 1 : t[i] = IF i < k THEN list[i] ELSE list[i + 1]
    BY <2>1, CutOutIs
  <2> QED
    BY <2>2 DEF n
<1> HIDE DEF t
<1>2. \A i \in 1 .. n - 1 : i \in 1 .. n /\ i + 1 \in 1 .. n
  BY <1>1
<1>3. Ordered(t)
  <2> SUFFICES ASSUME NEW i \in 1 .. n - 1, NEW j \in 1 .. n - 1, i < j
               PROVE  LessThan(t[i], t[j])
    BY <1>1 DEF Ordered
  <2> DEFINE x == IF i < k THEN i ELSE i + 1
             y == IF j < k THEN j ELSE j + 1
  <2>1. x \in 1 .. n /\ y \in 1 .. n /\ x < y
    BY <1>1, <1>2
  <2>2. t[i] = list[x] /\ t[j] = list[y]
    BY <1>1
  <2> QED
    BY <2>1, <2>2 DEF Ordered
<1> QED
  BY <1>1, <1>2, <1>3 DEF t

\* Changing packets, but not their numbers.
LEMMA SameNumbersKeep ==
  ASSUME NEW E, NEW list \in Seq(E), Ordered(list), NEW t \in Seq(E), Len(t) = Len(list),
         \A i \in 1 .. Len(list) : t[i].seq = list[i].seq
  PROVE  Ordered(t) /\ Seqs(t) = Seqs(list)
  BY DEF Ordered, Seqs, LessThan

-----------------------------------------------------------------------------
(* What the network and the decoder may hold, given the stream c: sent,    *)
(* the numbers of the media packets sent, the next numbers of media and of *)
(* FEC packets, and age, how far the oldest numbers may be behind them.    *)

StreamOK(c) ==
  /\ c.sent \in Seq(Numbers) /\ c.media \in Numbers /\ c.fec \in Numbers
  /\ c.age \in 0 .. Half - 1
  /\ \A i \in 1 .. Len(c.sent) : Behind(c.media, c.sent[i]) \in 1 .. c.age
  /\ \A i, j \in 1 .. Len(c.sent) : i < j => Behind(c.media, c.sent[j]) < Behind(c.media, c.sent[i])

\* The data of the packet with this number.
IsSent(c, seq, data) == \E id \in 1 .. Len(c.sent) : seq = c.sent[id] /\ data = {id}

\* Media packets in the decoder; those still to be handed on can be rebuilt.
MediaOf(c) ==
  {p \in [seq : Numbers, data : SUBSET Nat, returned : BOOLEAN] :
     IsSent(c, p.seq, p.data) /\ (~p.returned => p.data \cap BigIds = {})}

\* The data of a FEC packet are the XOR of the packets that it protects.  A FEC
\* packet that the decoder misreads has data that no recovery makes sense of.
Protects(c, data, protects) ==
  \/ data \subseteq 1 .. Len(c.sent) /\ protects = {c.sent[id] : id \in data}
  \/ data = {0} /\ 0 \in BigIds

\* Functions from some numbers to data.
KnownType == UNION {[S -> SUBSET Nat] : S \in SUBSET Numbers}

FecOf(c) ==
  {f \in [seq : Numbers, ssrc : {"media", "fec"}, data : SUBSET Nat, protects : SUBSET Numbers,
          known : KnownType] :
     /\ Behind(c.fec, f.seq) <= c.age
     /\ DOMAIN f.known \subseteq f.protects
     /\ \A s \in DOMAIN f.known : IsSent(c, s, f.known[s])
     /\ Protects(c, f.data, f.protects)}

\* The decoder between two calls, and the same without the bounds.
DecSound(d, c) ==
  /\ d \in [recovered : Seq(MediaOf(c)), fecs : Seq(FecOf(c))]
  /\ Ordered(d.recovered) /\ Ordered(d.fecs)
  /\ \A i \in 1 .. Len(d.fecs) : d.fecs[i].protects \cap Seqs(d.recovered) \subseteq DOMAIN d.fecs[i].known
DecOK(d, c) ==
  DecSound(d, c) /\ Len(d.recovered) <= MaxMediaPackets /\ Len(d.fecs) <= MaxFecPackets

\* What a step of the decoder may forget.
Kept(old, new) ==
  /\ Len(old.recovered) <= Len(new.recovered)
  /\ Seqs(old.recovered) \subseteq Seqs(new.recovered) \/ Len(new.recovered) = MaxMediaPackets

\* The lists of the decoder lie within half the space.
LEMMA ListsWindowed ==
  ASSUME NEW c, StreamOK(c)
  PROVE  Windowed(MediaOf(c), c.media) /\ Windowed(FecOf(c), c.fec)
<1>1. ASSUME NEW p \in MediaOf(c)
      PROVE  p.seq \in Numbers /\ Behind(c.media, p.seq) < Half
  <2>1. PICK id \in 1 .. Len(c.sent) : p.seq = c.sent[id]
    BY DEF MediaOf, IsSent
  <2>2. Behind(c.media, c.sent[id]) \in 1 .. c.age /\ c.age \in 0 .. Half - 1
    BY DEF StreamOK
  <2>3. Half \in Nat
    BY SpaceIs
  <2> QED
    BY <2>1, <2>2, <2>3 DEF MediaOf
<1>2. ASSUME NEW f \in FecOf(c)
      PROVE  f.seq \in Numbers /\ Behind(c.fec, f.seq) < Half
  <2>1. f.seq \in Numbers /\ Behind(c.fec, f.seq) <= c.age /\ c.age \in 0 .. Half - 1 /\ c.fec \in Numbers
    BY DEF FecOf, StreamOK
  <2>2. Half \in Nat /\ Behind(c.fec, f.seq) \in Nat
    BY <2>1, SpaceIs, BehindIs
  <2> QED
    BY <2>1, <2>2
<1> QED
  BY <1>1, <1>2 DEF Windowed, StreamOK

\* A number was given to one media packet only.
LEMMA SentOnce ==
  ASSUME NEW c, StreamOK(c), NEW i \in 1 .. Len(c.sent), NEW j \in 1 .. Len(c.sent),
         c.sent[i] = c.sent[j]
  PROVE  i = j
<1>1. \A k, m \in 1 .. Len(c.sent) : k < m => Behind(c.media, c.sent[m]) < Behind(c.media, c.sent[k])
  BY DEF StreamOK
<1>2. Behind(c.media, c.sent[i]) \in Nat /\ Len(c.sent) \in Nat
  BY SpaceIs DEF StreamOK
<1>3. ~(i < j) /\ ~(j < i)
  BY <1>1, <1>2
<1> QED
  BY <1>2, <1>3

\* Numbers of a protected set can be counted.
LEMMA MissingCounted ==
  ASSUME NEW c, NEW f \in FecOf(c)
  PROVE  /\ CoveredMissing(f) \subseteq Numbers
         /\ Cardinality(CoveredMissing(f)) \in Nat
         /\ Cardinality(CoveredMissing(f)) = 1 => \E s \in Numbers : CoveredMissing(f) = {s}
<1>1. CoveredMissing(f) \subseteq Numbers
  BY DEF CoveredMissing, FecOf
<1>2. IsFiniteSet(Numbers)
  BY SpaceIs, FS_Interval DEF Numbers
<1>3. IsFiniteSet(CoveredMissing(f)) /\ Cardinality(CoveredMissing(f)) \in Nat
  BY <1>1, <1>2, FS_Subset, FS_CardinalityType
<1>4. ASSUME Cardinality(CoveredMissing(f)) = 1
      PROVE  \E s \in Numbers : CoveredMissing(f) = {s}
  <2>1. \E s : CoveredMissing(f) = {s}
    BY <1>3, <1>4, FS_Singleton
  <2> QED
    BY <1>1, <2>1
<1> QED
  BY <1>1, <1>3, <1>4

\* What is left of the XOR when all packets but one are taken out of it.
LEMMA RecoverIs ==
  ASSUME NEW c, StreamOK(c), NEW f \in FecOf(c), NEW s, CoveredMissing(f) = {s}
  PROVE  /\ RecoverPacket(f).seq = s
         /\ Recovers(RecoverPacket(f)) => RecoverPacket(f) \in MediaOf(c)
<1> DEFINE data == [t \in {s} \cup DOMAIN f.known |-> IF t = s THEN f.data ELSE f.known[t]]
           p == [seq |-> s, data |-> Xor(data, DOMAIN data), returned |-> FALSE]
           who(id) == {t \in DOMAIN data : id \in data[t]}
           all == UNION {data[t] : t \in DOMAIN data}
<1>1. s \in f.protects /\ s \notin DOMAIN f.known /\ f.protects = {s} \cup DOMAIN f.known /\ s \in Numbers
  BY DEF CoveredMissing, FecOf
<1>2. (CHOOSE t \in CoveredMissing(f) : TRUE) = s
  <2>1. (CHOOSE t \in {s} : TRUE) = s
    OBVIOUS
  <2> QED
    BY <2>1
<1>3. RecoverPacket(f) = p
  BY <1>2 DEF RecoverPacket
<1>4. Xor(data, DOMAIN data) = {id \in all : Cardinality(who(id)) % 2 = 1}
  BY DEF Xor
<1>5. DOMAIN data = {s} \cup DOMAIN f.known /\ data[s] = f.data /\ \A t \in DOMAIN f.known : data[t] = f.known[t]
  BY <1>1
<1> HIDE DEF data
<1>6. CASE f.data = {0} /\ 0 \in BigIds
  <2>1. \A t \in DOMAIN f.known : 0 \notin f.known[t]
    BY DEF FecOf, IsSent
  <2>2. who(0) = {s} /\ 0 \in all
    BY <1>5, <1>6, <2>1
  <2>3. Cardinality({s}) = 1
    BY FS_Singleton
  <2>4. 0 \in Xor(data, DOMAIN data)
    BY <1>4, <2>2, <2>3
  <2>5. ~Recovers(p)
    BY <1>6, <2>4 DEF Recovers
  <2> QED
    BY <1>3, <2>5
<1>7. CASE f.data \subseteq 1 .. Len(c.sent) /\ f.protects = {c.sent[id] : id \in f.data}
  <2>1. PICK x \in f.data : s = c.sent[x]
    BY <1>1, <1>7
  <2>2. \A t \in DOMAIN f.known : \E id \in f.data : t = c.sent[id] /\ f.known[t] = {id} /\ id # x
    <3> SUFFICES ASSUME NEW t \in DOMAIN f.known
                 PROVE  \E id \in f.data : t = c.sent[id] /\ f.known[t] = {id} /\ id # x
      OBVIOUS
    <3>1. PICK id \in 1 .. Len(c.sent) : t = c.sent[id] /\ f.known[t] = {id}
      BY DEF FecOf, IsSent
    <3>2. PICK j \in f.data : t = c.sent[j]
      BY <1>1, <1>7
    <3>3. id = j
      BY <1>7, <3>1, <3>2, SentOnce
    <3>4. id # x
      BY <1>1, <2>1, <3>1
    <3> QED
      BY <3>1, <3>2, <3>3, <3>4
  <2>3. all = f.data
    BY <1>5, <2>2
  <2>4. who(x) = {s}
    BY <1>5, <2>1, <2>2
  <2>5. ASSUME NEW id \in f.data, id # x
        PROVE  who(id) = {s, c.sent[id]} /\ s # c.sent[id]
    <3>1. c.sent[id] # s
      BY <1>7, <2>1, <2>5, SentOnce
    <3>2. c.sent[id] \in DOMAIN f.known
      BY <1>1, <1>7, <3>1
    <3>3. f.known[c.sent[id]] = {id}
      <4>1. PICK j \in f.data : c.sent[id] = c.sent[j] /\ f.known[c.sent[id]] = {j}
        BY <2>2, <3>2
      <4>2. id = j
        BY <1>7, <4>1, SentOnce
      <4> QED
        BY <4>1, <4>2
    <3>4. ASSUME NEW t \in DOMAIN f.known, id \in f.known[t]
          PROVE  t = c.sent[id]
      BY <2>2, <3>4
    <3> QED
      BY <1>5, <3>1, <3>2, <3>3, <3>4
  <2>6. Cardinality({s}) = 1
    BY FS_Singleton
  <2>7. \A id \in f.data : id # x => Cardinality(who(id)) = 2
    <3> SUFFICES ASSUME NEW id \in f.data, id # x
                 PROVE  Cardinality(who(id)) = 2
      OBVIOUS
    <3>1. Cardinality({s} \cup {c.sent[id]}) = 1 + 1
      <4>1. IsFiniteSet({s}) /\ c.sent[id] \notin {s}
        BY <2>5, FS_Singleton
      <4> QED
        BY <2>6, <4>1, FS_AddElement
    <3>2. who(id) = {s} \cup {c.sent[id]}
      BY <2>5
    <3> HIDE DEF who
    <3> QED
      BY <3>1, <3>2
  <2> HIDE DEF who, all
  <2>8. Xor(data, DOMAIN data) = {x}
    BY <1>4, <2>3, <2>4, <2>6, <2>7
  <2>9. x \in 1 .. Len(c.sent) /\ x \in Nat
    BY <1>7, <2>1
  <2>10. IsSent(c, s, {x})
    BY <2>1, <2>9 DEF IsSent
  <2>11. Recovers(p) => p \in MediaOf(c)
    BY <1>1, <2>8, <2>9, <2>10 DEF Recovers, MediaOf
  <2> QED
    BY <1>3, <2>11
<1> QED
  BY <1>6, <1>7 DEF FecOf, Protects

-----------------------------------------------------------------------------
(* The decoder.                                                            *)

\* Another packet that the FEC packets of the list protect is there.
LEMMA CoveringKeeps ==
  ASSUME NEW c, NEW fecs \in Seq(FecOf(c)), NEW p \in MediaOf(c)
  PROVE  /\ UpdateCoveringFecPackets(fecs, p) \in Seq(FecOf(c))
         /\ Len(UpdateCoveringFecPackets(fecs, p)) = Len(fecs)
         /\ \A i \in 1 .. Len(fecs) :
              /\ UpdateCoveringFecPackets(fecs, p)[i].seq = fecs[i].seq
              /\ UpdateCoveringFecPackets(fecs, p)[i].protects = fecs[i].protects
              /\ DOMAIN UpdateCoveringFecPackets(fecs, p)[i].known
                   = DOMAIN fecs[i].known \cup ({p.seq} \cap fecs[i].protects)
<1> DEFINE n == Len(fecs)
           more(f) == [s \in DOMAIN f.known \cup {p.seq} |-> IF s = p.seq THEN p.data ELSE f.known[s]]
           upd(f) == IF p.seq \in f.protects THEN [f EXCEPT !.known = more(f)] ELSE f
           t == [i \in 1 .. n |-> upd(fecs[i])]
<1>1. n \in Nat /\ DOMAIN fecs = 1 .. n /\ \A i \in 1 .. n : fecs[i] \in FecOf(c)
  OBVIOUS
<1>2. UpdateCoveringFecPackets(fecs, p) = t
  BY <1>1 DEF UpdateCoveringFecPackets
<1>3. ASSUME NEW f \in FecOf(c)
      PROVE  /\ upd(f) \in FecOf(c) /\ upd(f).seq = f.seq /\ upd(f).protects = f.protects
             /\ DOMAIN upd(f).known = DOMAIN f.known \cup ({p.seq} \cap f.protects)
  <2>1. CASE p.seq \notin f.protects
    BY <2>1
  <2>2. CASE p.seq \in f.protects
    <3>1. /\ f \in [seq : Numbers, ssrc : {"media", "fec"}, data : SUBSET Nat, protects : SUBSET Numbers,
                    known : KnownType]
          /\ Behind(c.fec, f.seq) <= c.age
          /\ DOMAIN f.known \subseteq f.protects
          /\ \A s \in DOMAIN f.known : IsSent(c, s, f.known[s])
          /\ Protects(c, f.data, f.protects)
      BY DEF FecOf
    <3>2. p.seq \in Numbers /\ p.data \in SUBSET Nat /\ IsSent(c, p.seq, p.data)
      BY DEF MediaOf
    <3>3. more(f) \in KnownType
      <4>1. PICK S \in SUBSET Numbers : f.known \in [S -> SUBSET Nat]
        BY <3>1 DEF KnownType
      <4>2. more(f) \in [S \cup {p.seq} -> SUBSET Nat] /\ S \cup {p.seq} \in SUBSET Numbers
        BY <3>2, <4>1
      <4> QED
        BY <4>2 DEF KnownType
    <3>4. \A s \in DOMAIN more(f) : IsSent(c, s, more(f)[s])
      BY <3>1, <3>2
    <3>5. DOMAIN more(f) = DOMAIN f.known \cup {p.seq}
      OBVIOUS
    <3> HIDE DEF more
    <3>6. upd(f) = [seq |-> f.seq, ssrc |-> f.ssrc, data |-> f.data, protects |-> f.protects, known |-> more(f)]
      BY <2>2, <3>1
    <3> HIDE DEF upd
    <3>7. upd(f) \in [seq : Numbers, ssrc : {"media", "fec"}, data : SUBSET Nat, protects : SUBSET Numbers,
                      known : KnownType]
      BY <3>1, <3>3, <3>6
    <3>8. upd(f) \in FecOf(c)
      BY <2>2, <3>1, <3>4, <3>5, <3>6, <3>7 DEF FecOf
    <3> QED
      BY <2>2, <3>5, <3>6, <3>8
  <2> QED
    BY <2>1, <2>2
<1> HIDE DEF upd
<1>4. t \in Seq(FecOf(c)) /\ Len(t) = n /\ \A i \in 1 .. n : t[i] = upd(fecs[i])
  <2>1. \A i \in 1 .. n : upd(fecs[i]) \in FecOf(c)
    BY <1>1, <1>3
  <2> HIDE DEF n
  <2>2. t \in [1 .. n -> FecOf(c)]
    BY <2>1
  <2> QED
    BY <1>1, <2>2
<1> HIDE DEF t
<1> QED
  BY <1>1, <1>2, <1>3, <1>4

\* A media packet that came is inserted.
LEMMA InsertMediaKeeps ==
  ASSUME NEW c, StreamOK(c), NEW d, DecSound(d, c),
         NEW p, p.seq \in Numbers, p.data \in SUBSET Nat, IsSent(c, p.seq, p.data)
  PROVE  /\ DecSound(InsertMediaPacket(d, p), c)
         /\ Len(InsertMediaPacket(d, p).fecs) = Len(d.fecs)
         /\ Len(InsertMediaPacket(d, p).recovered) >= Len(d.recovered)
         /\ Seqs(d.recovered) \subseteq Seqs(InsertMediaPacket(d, p).recovered)
<1> DEFINE new == [seq |-> p.seq, data |-> p.data, returned |-> TRUE]
           r == Sorted(d.recovered, new)
           f == UpdateCoveringFecPackets(d.fecs, new)
<1>1. CASE p.seq \in Seqs(d.recovered)
  <2>1. InsertMediaPacket(d, p) = d
    BY <1>1 DEF InsertMediaPacket
  <2>2. Len(d.recovered) \in Nat
    BY DEF DecSound
  <2> QED
    BY <2>1, <2>2
<1>2. CASE p.seq \notin Seqs(d.recovered)
  <2>1. InsertMediaPacket(d, p) = [recovered |-> r, fecs |-> f]
    BY <1>2 DEF InsertMediaPacket
  <2>2. new \in MediaOf(c) /\ new.seq = p.seq
    BY DEF MediaOf
  <2>3. /\ d.recovered \in Seq(MediaOf(c)) /\ d.fecs \in Seq(FecOf(c))
        /\ Ordered(d.recovered) /\ Ordered(d.fecs)
        /\ \A i \in 1 .. Len(d.fecs) : d.fecs[i].protects \cap Seqs(d.recovered) \subseteq DOMAIN d.fecs[i].known
    BY DEF DecSound
  <2>4. Windowed(MediaOf(c), c.media)
    BY ListsWindowed
  <2> HIDE DEF new
  <2>5. /\ r \in Seq(MediaOf(c)) /\ Len(r) = Len(d.recovered) + 1 /\ Ordered(r)
        /\ Seqs(r) = Seqs(d.recovered) \cup {p.seq}
    BY <1>2, <2>2, <2>3, <2>4, SortedKeeps
  <2>6. /\ f \in Seq(FecOf(c)) /\ Len(f) = Len(d.fecs)
        /\ \A i \in 1 .. Len(d.fecs) :
             /\ f[i].seq = d.fecs[i].seq /\ f[i].protects = d.fecs[i].protects
             /\ DOMAIN f[i].known = DOMAIN d.fecs[i].known \cup ({p.seq} \cap d.fecs[i].protects)
    <3>0. d.fecs \in Seq(FecOf(c)) /\ new \in MediaOf(c)
      BY <2>2, <2>3
    <3>1. /\ f \in Seq(FecOf(c))
          /\ Len(f) = Len(d.fecs)
          /\ \A i \in 1 .. Len(d.fecs) :
               /\ f[i].seq = d.fecs[i].seq
               /\ f[i].protects = d.fecs[i].protects
               /\ DOMAIN f[i].known = DOMAIN d.fecs[i].known \cup ({new.seq} \cap d.fecs[i].protects)
      BY ONLY <3>0, CoveringKeeps
    <3> HIDE DEF f
    <3> QED
      BY <2>2, <3>1
  <2> HIDE DEF r, f
  <2>7. Ordered(f)
    BY <2>3, <2>6, SameNumbersKeep
  <2>8. \A i \in 1 .. Len(f) : f[i].protects \cap Seqs(r) \subseteq DOMAIN f[i].known
    BY <2>3, <2>5, <2>6
  <2>9. DecSound([recovered |-> r, fecs |-> f], c)
    BY <2>5, <2>6, <2>7, <2>8 DEF DecSound
  <2>10. Len(r) >= Len(d.recovered)
    BY <2>3, <2>5
  <2> QED
    BY <2>1, <2>5, <2>6, <2>9, <2>10
<1> QED
  BY <1>1, <1>2

\* The numbers that a FEC packet as it came protects.
Covers(p) == {(p.base + bit) % SeqSpace : bit \in p.mask}

\* What a FEC packet knows at first.
LEMMA AssignIs ==
  ASSUME NEW c, NEW list \in Seq(MediaOf(c)), NEW protects \in SUBSET Numbers
  PROVE  /\ AssignRecoveredPackets(list, protects) \in KnownType
         /\ DOMAIN AssignRecoveredPackets(list, protects) = protects \cap Seqs(list)
         /\ \A s \in DOMAIN AssignRecoveredPackets(list, protects) :
              IsSent(c, s, AssignRecoveredPackets(list, protects)[s])
<1> DEFINE there == {i \in 1 .. Len(list) : list[i].seq \in protects}
           S == {list[i].seq : i \in there}
           at(s) == CHOOSE i \in there : list[i].seq = s
           a == [s \in S |-> list[at(s)].data]
<1>1. AssignRecoveredPackets(list, protects) = a
  BY DEF AssignRecoveredPackets
<1>2. S = protects \cap Seqs(list)
  BY DEF Seqs
<1>3. \A s \in S : at(s) \in there /\ list[at(s)].seq = s
  OBVIOUS
<1>4. \A i \in there : list[i].data \in SUBSET Nat /\ IsSent(c, list[i].seq, list[i].data)
  BY DEF MediaOf
<1> HIDE DEF at, there
<1>5. a \in [S -> SUBSET Nat] /\ \A s \in S : a[s] = list[at(s)].data
  BY <1>3, <1>4
<1>6. \A s \in S : IsSent(c, s, a[s])
  BY <1>3, <1>4, <1>5
<1>7. S \in SUBSET Numbers
  BY <1>2
<1> HIDE DEF a, S
<1>8. a \in KnownType /\ DOMAIN a = S
  BY <1>5, <1>7 DEF KnownType
<1> QED
  BY <1>1, <1>2, <1>6, <1>8

\* A FEC packet that came is inserted.
LEMMA InsertFecKeeps ==
  ASSUME NEW c, StreamOK(c), NEW d, DecSound(d, c), Len(d.fecs) <= MaxFecPackets,
         NEW p, p.seq \in Numbers, p.ssrc \in {"media", "fec"}, p.data \in SUBSET Nat,
         p.base \in Numbers, p.mask \in SUBSET Nat, Behind(c.fec, p.seq) <= c.age,
         p.mask = {} \/ Protects(c, p.data, Covers(p))
  PROVE  /\ DecSound(InsertFecPacket(d, p), c)
         /\ Len(InsertFecPacket(d, p).fecs) <= MaxFecPackets
         /\ InsertFecPacket(d, p).recovered = d.recovered
<1> DEFINE new == [seq |-> p.seq, ssrc |-> p.ssrc, data |-> p.data, protects |-> Covers(p),
                   known |-> AssignRecoveredPackets(d.recovered, Covers(p))]
           f == Sorted(d.fecs, new)
           g == IF Len(f) > MaxFecPackets THEN Tail(f) ELSE f
<1>0. MaxFecPackets \in Nat \ {0}
  BY SpaceIs
<1>1. CASE p.seq \in Seqs(d.fecs) \/ Covers(p) = {}
  <2>1. InsertFecPacket(d, p) = d
    BY <1>1 DEF InsertFecPacket, Covers
  <2> QED
    BY <2>1
<1>2. CASE ~(p.seq \in Seqs(d.fecs) \/ Covers(p) = {})
  <2>1. InsertFecPacket(d, p) = [d EXCEPT !.fecs = g]
    BY <1>2 DEF InsertFecPacket, Covers
  <2>2. /\ d \in [recovered : Seq(MediaOf(c)), fecs : Seq(FecOf(c))]
        /\ Ordered(d.recovered) /\ Ordered(d.fecs)
        /\ \A i \in 1 .. Len(d.fecs) : d.fecs[i].protects \cap Seqs(d.recovered) \subseteq DOMAIN d.fecs[i].known
    BY DEF DecSound
  <2>3. Covers(p) \in SUBSET Numbers
    <3>1. \A bit \in p.mask : (p.base + bit) % SeqSpace \in Numbers
      <4> SUFFICES ASSUME NEW bit \in p.mask
                   PROVE  (p.base + bit) % SeqSpace \in Numbers
        OBVIOUS
      <4>1. p.base + bit \in Int /\ SeqSpace \in Nat \ {0}
        BY SpaceIs DEF Numbers
      <4>2. PICK q \in Int, r \in 0 .. SeqSpace - 1 : (p.base + bit) % SeqSpace = r
        BY <4>1, Remainder
      <4> QED
        BY <4>2 DEF Numbers
    <3> QED
      BY <3>1 DEF Covers
  <2> DEFINE known == AssignRecoveredPackets(d.recovered, Covers(p))
  <2>4. /\ known \in KnownType /\ DOMAIN known = Covers(p) \cap Seqs(d.recovered)
        /\ \A s \in DOMAIN known : IsSent(c, s, known[s])
    BY <2>2, <2>3, AssignIs
  <2>5. p.mask # {}
    BY <1>2 DEF Covers
  <2> HIDE DEF known
  <2>6. /\ new \in FecOf(c) /\ new.seq = p.seq /\ new.protects = Covers(p)
        /\ DOMAIN new.known = Covers(p) \cap Seqs(d.recovered)
    BY <2>3, <2>4, <2>5 DEF FecOf, known
  <2> HIDE DEF new
  <2>7. Windowed(FecOf(c), c.fec)
    BY ListsWindowed
  <2>8. f \in Seq(FecOf(c)) /\ Len(f) = Len(d.fecs) + 1 /\ Ordered(f)
    BY <1>2, <2>2, <2>6, <2>7, SortedKeeps
  <2>9. \A i \in 1 .. Len(f) : f[i].protects \cap Seqs(d.recovered) \subseteq DOMAIN f[i].known
    <3>1. PICK k \in 0 .. Len(d.fecs) :
            f = [i \in 1 .. Len(d.fecs) + 1 |->
                   IF i <= k THEN d.fecs[i] ELSE IF i = k + 1 THEN new ELSE d.fecs[i - 1]]
      BY <1>2, <2>2, <2>6, <2>7, SortedIs
    <3> DEFINE n == Len(d.fecs)
    <3>2. n \in Nat
      BY <2>2
    <3> HIDE DEF n, f
    <3>3. \A i \in 1 .. n + 1 : f[i] = new \/ \E j \in 1 .. n : f[i] = d.fecs[j]
      BY <3>1, <3>2 DEF n
    <3>4. Len(f) = n + 1
      BY <2>8 DEF n
    <3> QED
      BY <2>2, <2>6, <3>3, <3>4 DEF n
  <2> HIDE DEF f
  <2>10. /\ g \in Seq(FecOf(c)) /\ Len(g) <= MaxFecPackets /\ Ordered(g)
         /\ \A i \in 1 .. Len(g) : \E j \in 1 .. Len(f) : g[i] = f[j]
    <3>1. Len(d.fecs) \in Nat
      BY <2>2
    <3>2. CASE Len(f) > MaxFecPackets
      <4>1. f # <<>> /\ g = Tail(f)
        BY <1>0, <2>8, <3>1, <3>2
      <4>2. /\ Tail(f) \in Seq(FecOf(c)) /\ Len(Tail(f)) = Len(f) - 1 /\ Ordered(Tail(f))
            /\ \A i \in 1 .. Len(f) - 1 : \E j \in 1 .. Len(f) : Tail(f)[i] = f[j]
        BY <2>8, <4>1, TailKeeps
      <4>3. Len(f) - 1 <= MaxFecPackets
        BY <1>0, <2>8, <3>1
      <4> QED
        BY <4>1, <4>2, <4>3
    <3>3. CASE ~(Len(f) > MaxFecPackets)
      <4>1. g = f
        BY <3>3
      <4>2. Len(f) <= MaxFecPackets
        BY <1>0, <2>8, <3>1, <3>3
      <4> QED
        BY <2>8, <4>1, <4>2
    <3> QED
      BY <3>2, <3>3
  <2> HIDE DEF g
  <2>11. \A i \in 1 .. Len(g) : g[i].protects \cap Seqs(d.recovered) \subseteq DOMAIN g[i].known
    BY <2>9, <2>10
  <2>12. [d EXCEPT !.fecs = g] = [recovered |-> d.recovered, fecs |-> g]
    BY <2>2
  <2>13. DecSound([recovered |-> d.recovered, fecs |-> g], c)
    BY <2>2, <2>10, <2>11 DEF DecSound
  <2> QED
    BY <2>1, <2>10, <2>12, <2>13
<1> QED
  BY <1>1, <1>2

\* The oldest media packets are discarded.
LEMMA DiscardKeeps ==
  ASSUME NEW c, NEW list \in Seq(MediaOf(c)), Ordered(list)
  PROVE  /\ DiscardOldRecoveredPackets(list) \in Seq(MediaOf(c))
         /\ Ordered(DiscardOldRecoveredPackets(list))
         /\ Len(DiscardOldRecoveredPackets(list))
              = IF Len(list) > MaxMediaPackets THEN MaxMediaPackets ELSE Len(list)
         /\ Seqs(DiscardOldRecoveredPackets(list)) \subseteq Seqs(list)
         /\ Len(list) <= MaxMediaPackets => DiscardOldRecoveredPackets(list) = list
<1> DEFINE k == 1 + (IF Len(list) > MaxMediaPackets THEN Len(list) - MaxMediaPackets ELSE 0)
<1>1. Len(list) \in Nat /\ MaxMediaPackets \in Nat \ {0}
  BY SpaceIs
<1>2. DiscardOldRecoveredPackets(list) = SubSeq(list, k, Len(list))
  BY DEF DiscardOldRecoveredPackets
<1>3. /\ k \in 1 .. Len(list) + 1 /\ (Len(list) <= MaxMediaPackets => k = 1)
      /\ Len(list) + 1 - k = IF Len(list) > MaxMediaPackets THEN MaxMediaPackets ELSE Len(list)
  BY <1>1
<1> HIDE DEF k
<1> QED
  BY <1>2, <1>3, SuffixKeeps

\* The packets that may come: media packets as they were sent, and FEC packets.
MediaPacketOf(c) ==
  {p \in [isFec : {FALSE}, ssrc : {"media"}, seq : Numbers, data : SUBSET Nat] : IsSent(c, p.seq, p.data)}
FecPacketOf(c) ==
  {p \in [isFec : {TRUE}, ssrc : {"media", "fec"}, seq : Numbers, base : Numbers,
          mask : SUBSET Nat, data : SUBSET Nat] :
     /\ Behind(c.fec, p.seq) <= c.age
     /\ p.mask = {} \/ Protects(c, p.data, Covers(p))}
PacketOf(c) == MediaPacketOf(c) \cup FecPacketOf(c)

\* What came earlier may be forgotten in one step after the other.
LEMMA KeptTwice ==
  ASSUME NEW c, NEW d, NEW e, NEW g, DecOK(d, c), DecOK(e, c), DecOK(g, c), Kept(d, e), Kept(e, g)
  PROVE  Kept(d, g)
<1>1. /\ Len(d.recovered) \in Nat /\ Len(e.recovered) \in Nat /\ Len(g.recovered) \in Nat
      /\ Len(g.recovered) <= MaxMediaPackets /\ MaxMediaPackets \in Nat
  BY SpaceIs DEF DecOK, DecSound
<1> QED
  BY <1>1 DEF Kept

\* A packet is inserted, after old FEC packets were erased.
LEMMA InsertedKeeps ==
  ASSUME NEW c, StreamOK(c), NEW d, DecOK(d, c), NEW p \in PacketOf(c), NEW clears
  PROVE  DecOK(Inserted(d, p, clears), c) /\ Kept(d, Inserted(d, p, clears))
<1> DEFINE old == IF clears THEN Outdated(d.fecs, p.seq) ELSE {}
           e == [d EXCEPT !.fecs = SubSeq(@, 1 + Cardinality(old), Len(@))]
           new == IF p.isFec THEN InsertFecPacket(e, p) ELSE InsertMediaPacket(e, p)
           r == DiscardOldRecoveredPackets(new.recovered)
<1>1. Inserted(d, p, clears) = [new EXCEPT !.recovered = r]
  BY DEF Inserted
<1>2. /\ d \in [recovered : Seq(MediaOf(c)), fecs : Seq(FecOf(c))]
      /\ Ordered(d.recovered) /\ Ordered(d.fecs)
      /\ \A i \in 1 .. Len(d.fecs) : d.fecs[i].protects \cap Seqs(d.recovered) \subseteq DOMAIN d.fecs[i].known
      /\ Len(d.recovered) \in Nat /\ Len(d.fecs) \in Nat
      /\ Len(d.recovered) <= MaxMediaPackets /\ Len(d.fecs) <= MaxFecPackets
      /\ MaxMediaPackets \in Nat \ {0} /\ MaxFecPackets \in Nat \ {0}
  BY SpaceIs DEF DecOK, DecSound
<1>3. 1 + Cardinality(old) \in 1 .. Len(d.fecs) + 1
  <2>1. old \subseteq 1 .. Len(d.fecs)
    BY DEF Outdated
  <2>2. IsFiniteSet(1 .. Len(d.fecs)) /\ Cardinality(1 .. Len(d.fecs)) = Len(d.fecs)
    <3>1. Len(d.fecs) \in Nat
      BY <1>2
    <3> QED
      BY ONLY <3>1, FS_Interval
  <2> HIDE DEF old
  <2>3. IsFiniteSet(old) /\ Cardinality(old) <= Len(d.fecs)
    BY <2>1, <2>2, FS_Subset
  <2>4. Cardinality(old) \in Nat
    BY <2>3, FS_CardinalityType
  <2> QED
    BY <1>2, <2>3, <2>4
<1> DEFINE k == 1 + Cardinality(old)
           rest == SubSeq(d.fecs, k, Len(d.fecs))
<1>4. e = [recovered |-> d.recovered, fecs |-> rest]
  <2> HIDE DEF old
  <2>1. d \in [recovered : Seq(MediaOf(c)), fecs : Seq(FecOf(c))]
    BY <1>2
  <2>2. ASSUME NEW x
        PROVE  [d EXCEPT !.fecs = x] = [recovered |-> d.recovered, fecs |-> x]
    BY <2>1
  <2>3. e = [d EXCEPT !.fecs = rest]
    OBVIOUS
  <2> HIDE DEF e, rest
  <2> QED
    BY <2>2, <2>3
<1> HIDE DEF k
<1>5. /\ rest \in Seq(FecOf(c)) /\ Len(rest) = Len(d.fecs) + 1 - k /\ Ordered(rest)
      /\ \A i \in 1 .. Len(d.fecs) + 1 - k : \E j \in 1 .. Len(d.fecs) : rest[i] = d.fecs[j]
  BY <1>2, <1>3, SuffixKeeps DEF k
<1> HIDE DEF rest, e
<1>6. DecSound(e, c) /\ Len(e.fecs) <= MaxFecPackets /\ e.recovered = d.recovered
  <2>1. \A i \in 1 .. Len(rest) : rest[i].protects \cap Seqs(d.recovered) \subseteq DOMAIN rest[i].known
    BY <1>2, <1>5
  <2>2. Len(rest) <= MaxFecPackets
    BY <1>2, <1>3, <1>5 DEF k
  <2> QED
    BY <1>2, <1>4, <1>5, <2>1, <2>2 DEF DecSound
<1>7. /\ DecSound(new, c) /\ Len(new.fecs) <= MaxFecPackets
      /\ Len(new.recovered) >= Len(d.recovered) /\ Seqs(d.recovered) \subseteq Seqs(new.recovered)
  <2>1. CASE p \in MediaPacketOf(c)
    <3>1. new = InsertMediaPacket(e, p) /\ p.seq \in Numbers /\ p.data \in SUBSET Nat /\ IsSent(c, p.seq, p.data)
      BY <2>1 DEF MediaPacketOf
    <3>2. /\ DecSound(new, c) /\ Len(new.fecs) = Len(e.fecs)
          /\ Len(new.recovered) >= Len(e.recovered) /\ Seqs(e.recovered) \subseteq Seqs(new.recovered)
      BY <1>6, <3>1, InsertMediaKeeps
    <3> QED
      BY <1>6, <3>2
  <2>2. CASE p \in FecPacketOf(c)
    <3>1. /\ p.isFec = TRUE /\ p.seq \in Numbers /\ p.ssrc \in {"media", "fec"} /\ p.data \in SUBSET Nat
          /\ p.base \in Numbers /\ p.mask \in SUBSET Nat /\ Behind(c.fec, p.seq) <= c.age
          /\ p.mask = {} \/ Protects(c, p.data, Covers(p))
      BY <2>2 DEF FecPacketOf
    <3>2. /\ DecSound(InsertFecPacket(e, p), c) /\ Len(InsertFecPacket(e, p).fecs) <= MaxFecPackets
          /\ InsertFecPacket(e, p).recovered = e.recovered
      BY <1>6, <3>1, InsertFecKeeps
    <3>3. new = InsertFecPacket(e, p)
      BY <3>1
    <3> HIDE DEF new
    <3> QED
      BY <1>2, <1>6, <3>2, <3>3
  <2> QED
    BY <2>1, <2>2 DEF PacketOf
<1> HIDE DEF new
<1>8. /\ new \in [recovered : Seq(MediaOf(c)), fecs : Seq(FecOf(c))]
      /\ Ordered(new.recovered) /\ Ordered(new.fecs)
      /\ \A i \in 1 .. Len(new.fecs) : new.fecs[i].protects \cap Seqs(new.recovered) \subseteq DOMAIN new.fecs[i].known
      /\ Len(new.recovered) \in Nat
  BY <1>7 DEF DecSound
<1>9. /\ r \in Seq(MediaOf(c)) /\ Ordered(r)
      /\ Len(r) = IF Len(new.recovered) > MaxMediaPackets THEN MaxMediaPackets ELSE Len(new.recovered)
      /\ Seqs(r) \subseteq Seqs(new.recovered)
      /\ Len(new.recovered) <= MaxMediaPackets => r = new.recovered
  BY <1>8, DiscardKeeps
<1> HIDE DEF r
<1>10. Inserted(d, p, clears) = [recovered |-> r, fecs |-> new.fecs]
  BY <1>1, <1>8
<1>11. DecSound([recovered |-> r, fecs |-> new.fecs], c)
  BY <1>8, <1>9 DEF DecSound
<1>12. Len(r) <= MaxMediaPackets /\ Len(d.recovered) <= Len(r)
  BY <1>2, <1>7, <1>8, <1>9
<1>13. Seqs(d.recovered) \subseteq Seqs(r) \/ Len(r) = MaxMediaPackets
  BY <1>2, <1>7, <1>8, <1>9
<1> QED
  BY <1>7, <1>10, <1>11, <1>12, <1>13 DEF DecOK, Kept

\* The states of the search for packets that can be recovered, from d on.
Searching(c, d) ==
  {s \in [d : [recovered : Seq(MediaOf(c)), fecs : Seq(FecOf(c))], i : Nat \ {0}] :
     DecOK(s.d, c) /\ Kept(d, s.d)}

\* A turn of the search.
LEMMA AttemptKeeps ==
  ASSUME NEW c, StreamOK(c), NEW d, DecOK(d, c), NEW s \in Searching(c, d)
  PROVE  AttemptAt(RecoverPacket, s) \in Searching(c, d)
<1>1. /\ s \in [d : [recovered : Seq(MediaOf(c)), fecs : Seq(FecOf(c))], i : Nat \ {0}]
      /\ DecOK(s.d, c) /\ Kept(d, s.d)
  BY DEF Searching
<1>2. /\ s.d.recovered \in Seq(MediaOf(c)) /\ s.d.fecs \in Seq(FecOf(c)) /\ s.i \in Nat \ {0}
      /\ Ordered(s.d.recovered) /\ Ordered(s.d.fecs)
      /\ \A i \in 1 .. Len(s.d.fecs) :
           s.d.fecs[i].protects \cap Seqs(s.d.recovered) \subseteq DOMAIN s.d.fecs[i].known
      /\ Len(s.d.recovered) \in Nat /\ Len(s.d.fecs) \in Nat
      /\ Len(s.d.recovered) <= MaxMediaPackets /\ Len(s.d.fecs) <= MaxFecPackets
      /\ MaxMediaPackets \in Nat \ {0} /\ MaxFecPackets \in Nat \ {0}
  BY <1>1, SpaceIs DEF DecOK, DecSound
<1> DEFINE n == Len(s.d.fecs)
           fec == s.d.fecs[s.i]
           p == RecoverPacket(fec)
           erased == RemoveAt(s.d.fecs, s.i)
           updated == UpdateCoveringFecPackets(s.d.fecs, p)
           covered == RemoveAt(updated, s.i)
           missing == Cardinality(CoveredMissing(fec))
           r == DiscardOldRecoveredPackets(Sorted(s.d.recovered, p))
           nextS == AttemptAt(RecoverPacket, s)
<1>3. CASE s.i > n
  <2>1. nextS = s
    BY <1>3 DEF AttemptAt
  <2> QED
    BY <2>1
<1>4. CASE ~(s.i > n)
  <2>1. s.i \in 1 .. n /\ fec \in FecOf(c)
    BY <1>2, <1>4
  <2>2. /\ missing \in Nat /\ (missing = 1 => \E q \in Numbers : CoveredMissing(fec) = {q})
    BY <2>1, MissingCounted
  <2>3. nextS = CASE missing = 1 /\ Recovers(p) -> [d |-> [recovered |-> r, fecs |-> covered], i |-> Restart(s.i)]
                  [] missing = 0 \/ (missing = 1 /\ ~Recovers(p)) -> [s EXCEPT !.d.fecs = erased]
                  [] missing > 1 -> [s EXCEPT !.i = @ + 1]
    BY <1>4 DEF AttemptAt
  <2> HIDE DEF nextS, missing, fec
  <2>4. CASE missing = 1 /\ Recovers(p)
    <3>1. nextS = [d |-> [recovered |-> r, fecs |-> covered], i |-> 1]
      BY <2>3, <2>4 DEF Restart
    <3>2. PICK q \in Numbers : CoveredMissing(fec) = {q}
      BY <2>2, <2>4
    <3>3. p \in MediaOf(c) /\ p.seq = q
      BY <2>1, <2>4, <3>2, RecoverIs
    <3>4. p.seq \notin Seqs(s.d.recovered)
      <4>1. q \in fec.protects /\ q \notin DOMAIN fec.known
        BY <3>2 DEF CoveredMissing
      <4> QED
        BY <1>2, <2>1, <3>3, <4>1 DEF fec
    <3> HIDE DEF p
    <3> DEFINE sorted == Sorted(s.d.recovered, p)
    <3>5. Windowed(MediaOf(c), c.media)
      BY ListsWindowed
    <3>6. /\ sorted \in Seq(MediaOf(c)) /\ Len(sorted) = Len(s.d.recovered) + 1
          /\ Ordered(sorted) /\ Seqs(sorted) = Seqs(s.d.recovered) \cup {p.seq}
      BY <1>2, <3>3, <3>4, <3>5, SortedKeeps
    <3> HIDE DEF sorted
    <3>7. /\ r \in Seq(MediaOf(c)) /\ Ordered(r)
          /\ Len(r) = IF Len(sorted) > MaxMediaPackets THEN MaxMediaPackets ELSE Len(sorted)
          /\ Seqs(r) \subseteq Seqs(sorted)
          /\ Len(sorted) <= MaxMediaPackets => r = sorted
      BY <3>6, DiscardKeeps DEF sorted
    <3>8. /\ updated \in Seq(FecOf(c)) /\ Len(updated) = n
          /\ \A i \in 1 .. n :
               /\ updated[i].seq = s.d.fecs[i].seq
               /\ updated[i].protects = s.d.fecs[i].protects
               /\ DOMAIN updated[i].known = DOMAIN s.d.fecs[i].known \cup ({p.seq} \cap s.d.fecs[i].protects)
      <4>1. s.d.fecs \in Seq(FecOf(c)) /\ p \in MediaOf(c)
        BY <1>2, <3>3
      <4> QED
        BY ONLY <4>1, CoveringKeeps
    <3> HIDE DEF updated, r
    <3>9. Ordered(updated)
      BY <1>2, <3>8, SameNumbersKeep
    <3>10. /\ covered \in Seq(FecOf(c)) /\ Len(covered) = n - 1 /\ Ordered(covered)
           /\ \A i \in 1 .. n - 1 : \E j \in 1 .. n : covered[i] = updated[j]
      <4>1. updated \in Seq(FecOf(c)) /\ Ordered(updated) /\ s.i \in 1 .. Len(updated)
        BY <2>1, <3>8, <3>9
      <4>2. /\ covered \in Seq(FecOf(c)) /\ Len(covered) = Len(updated) - 1 /\ Ordered(covered)
            /\ \A i \in 1 .. Len(updated) - 1 : \E j \in 1 .. Len(updated) : covered[i] = updated[j]
        <5>1. \A list \in Seq(FecOf(c)) : Ordered(list) => \A k \in 1 .. Len(list) :
                /\ RemoveAt(list, k) \in Seq(FecOf(c)) /\ Len(RemoveAt(list, k)) = Len(list) - 1
                /\ Ordered(RemoveAt(list, k))
                /\ \A i \in 1 .. Len(list) - 1 : \E j \in 1 .. Len(list) : RemoveAt(list, k)[i] = list[j]
          BY CutKeeps
        <5> HIDE DEF updated
        <5> QED
          BY <4>1, <5>1
      <4> HIDE DEF covered
      <4> QED
        BY <3>8, <4>2
    <3> HIDE DEF covered
    <3>11. \A i \in 1 .. Len(covered) : covered[i].protects \cap Seqs(r) \subseteq DOMAIN covered[i].known
      <4>1. \A i \in 1 .. n : updated[i].protects \cap Seqs(sorted) \subseteq DOMAIN updated[i].known
        BY <1>2, <3>6, <3>8
      <4> QED
        BY <3>7, <3>10, <4>1
    <3>12. DecSound([recovered |-> r, fecs |-> covered], c)
      BY <3>7, <3>10, <3>11 DEF DecSound
    <3>13. /\ Len(r) <= MaxMediaPackets /\ Len(covered) <= MaxFecPackets /\ Len(s.d.recovered) <= Len(r)
           /\ Seqs(s.d.recovered) \subseteq Seqs(r) \/ Len(r) = MaxMediaPackets
      BY <1>2, <3>6, <3>7, <3>10
    <3> DEFINE e == [recovered |-> r, fecs |-> covered]
    <3>14. DecOK(e, c) /\ Kept(s.d, e) /\ e \in [recovered : Seq(MediaOf(c)), fecs : Seq(FecOf(c))]
      BY <3>7, <3>10, <3>12, <3>13 DEF DecOK, Kept
    <3> HIDE DEF e
    <3>15. Kept(d, e)
      BY <1>1, <3>14, KeptTwice
    <3>16. nextS = [d |-> e, i |-> 1]
      BY <3>1 DEF e
    <3> QED
      BY <3>14, <3>15, <3>16 DEF Searching, nextS
  <2>5. CASE missing = 0 \/ (missing = 1 /\ ~Recovers(p))
    <3>1. nextS = [s EXCEPT !.d.fecs = erased]
      BY <2>3, <2>5
    <3>2. /\ erased \in Seq(FecOf(c)) /\ Len(erased) = n - 1 /\ Ordered(erased)
          /\ \A i \in 1 .. n - 1 : \E j \in 1 .. n : erased[i] = s.d.fecs[j]
      <4>1. s.d.fecs \in Seq(FecOf(c)) /\ Ordered(s.d.fecs) /\ s.i \in 1 .. Len(s.d.fecs)
        BY <1>2, <2>1
      <4> QED
        BY ONLY <4>1, CutKeeps
    <3> HIDE DEF erased
    <3> DEFINE e == [recovered |-> s.d.recovered, fecs |-> erased]
    <3>3. nextS = [d |-> e, i |-> s.i]
      BY <1>1, <3>1
    <3>4. \A i \in 1 .. Len(erased) : erased[i].protects \cap Seqs(s.d.recovered) \subseteq DOMAIN erased[i].known
      BY <1>2, <3>2
    <3>5. DecSound(e, c)
      BY <1>2, <3>2, <3>4 DEF DecSound
    <3>6. Len(erased) <= MaxFecPackets /\ Len(s.d.recovered) <= MaxMediaPackets
      BY <1>2, <3>2
    <3>7. DecOK(e, c) /\ Kept(d, e) /\ e \in [recovered : Seq(MediaOf(c)), fecs : Seq(FecOf(c))]
      BY <1>1, <1>2, <3>2, <3>5, <3>6 DEF DecOK, Kept
    <3> HIDE DEF e
    <3> QED
      BY <1>2, <3>3, <3>7 DEF Searching, nextS
  <2>6. CASE missing > 1
    <3>1. nextS = [s EXCEPT !.i = @ + 1]
      BY <2>2, <2>3, <2>6
    <3>2. nextS = [d |-> s.d, i |-> s.i + 1] /\ s.i + 1 \in Nat \ {0}
      BY <1>1, <3>1
    <3> QED
      BY <1>1, <3>2 DEF Searching, nextS
  <2>7. missing = 0 \/ missing = 1 \/ missing > 1
    BY <2>2
  <2> QED
    BY <2>4, <2>5, <2>6, <2>7
<1> QED
  BY <1>3, <1>4

\* The whole search.
LEMMA RecoveryKeeps ==
  ASSUME NEW c, StreamOK(c), NEW d, DecOK(d, c)
  PROVE  DecOK(AttemptRecovery(d), c) /\ Kept(d, AttemptRecovery(d))
<1> DEFINE turns == (Len(d.fecs) + 1) * (Len(d.fecs) + 1)
           x == [d |-> d, i |-> 1]
           after == CHOOSE f : f = [n \in 0 .. turns |-> IF n = 0 THEN x ELSE AttemptAt(RecoverPacket, f[n - 1])]
           S == Searching(c, d)
           step == [n \in 1 .. turns |-> [s \in S |-> AttemptAt(RecoverPacket, s)]]
<1>1. AttemptRecovery(d) = after[turns].d
  BY DEF AttemptRecovery, Attempts
<1>2. turns \in Nat
  <2>1. Len(d.fecs) \in Nat
    BY DEF DecOK, DecSound
  <2> QED
    BY <2>1
<1>3. x \in S
  <2>1. d \in [recovered : Seq(MediaOf(c)), fecs : Seq(FecOf(c))] /\ Len(d.recovered) \in Nat
    BY DEF DecOK, DecSound
  <2>2. Kept(d, d)
    BY <2>1 DEF Kept
  <2> QED
    BY <2>1, <2>2 DEF Searching
<1>4. \A s \in S : AttemptAt(RecoverPacket, s) \in S
  BY AttemptKeeps
<1> HIDE DEF x, S, turns
<1>5. step \in [1 .. turns -> [S -> S]]
  BY <1>4
<1>6. PICK f \in [0 .. turns -> S] : f[0] = x /\ \A n \in 1 .. turns : f[n] = step[n][f[n - 1]]
  <2>1. IsLoop(S, turns, x, step)
    BY <1>2, <1>3, <1>5 DEF IsLoop
  <2> HIDE DEF step
  <2>2. PICK f : IsRun(f, S, turns, x, step)
    BY <2>1, IterationExists
  <2> QED
    BY <2>2 DEF IsRun
<1>7. \A n \in 0 .. turns : n # 0 => n \in 1 .. turns /\ n - 1 \in 0 .. turns
  BY <1>2
<1>8. \A n \in 0 .. turns : f[n] = IF n = 0 THEN x ELSE AttemptAt(RecoverPacket, f[n - 1])
  <2> SUFFICES ASSUME NEW n \in 0 .. turns, n # 0
               PROVE  f[n] = AttemptAt(RecoverPacket, f[n - 1])
    BY <1>6
  <2>1. n \in 1 .. turns /\ f[n - 1] \in S
    BY <1>6, <1>7
  <2>2. f[n] = step[n][f[n - 1]]
    BY <1>6, <2>1
  <2>3. step[n][f[n - 1]] = AttemptAt(RecoverPacket, f[n - 1])
    BY <2>1
  <2> QED
    BY <2>2, <2>3
<1>9. f = [n \in 0 .. turns |-> IF n = 0 THEN x ELSE AttemptAt(RecoverPacket, f[n - 1])]
  BY <1>6, <1>8
<1>10. after = [n \in 0 .. turns |-> IF n = 0 THEN x ELSE AttemptAt(RecoverPacket, after[n - 1])]
  BY <1>9, Zenon
<1> HIDE DEF after
<1>11. after[0] \in S
  BY <1>2, <1>3, <1>10
<1>12. \A n \in 1 .. turns : after[n - 1] \in S => after[n] \in S
  <2> SUFFICES ASSUME NEW n \in 1 .. turns, after[n - 1] \in S
               PROVE  after[n] \in S
    OBVIOUS
  <2>1. n \in 0 .. turns /\ n # 0
    BY <1>2
  <2>2. after[n] = AttemptAt(RecoverPacket, after[n - 1])
    BY <1>10, <2>1
  <2> QED
    BY <1>4, <2>2
<1>13. after[turns] \in S
  <2>1. \A n \in 0 .. turns : after[n] \in S
    BY <1>2, <1>11, <1>12, IterationStays
  <2>2. turns \in 0 .. turns
    BY <1>2
  <2> QED
    BY <2>1, <2>2
<1> QED
  BY <1>1, <1>13 DEF S, Searching

\* Both sources search in the same way.
LEMMA SameRecovery ==
  ASSUME NEW d
  PROVE  AttemptRecovery85(d) = AttemptRecovery(d)
  BY DEF AttemptRecovery85, AttemptRecovery, Attempts, AttemptAt, RecoverPacket85

\* A decoder that starts over is one.
LEMMA EmptyOK ==
  ASSUME NEW c
  PROVE  DecOK(EmptyDecoder, c)
<1>1. EmptyDecoder = [recovered |-> <<>>, fecs |-> <<>>]
  BY DEF EmptyDecoder
<1>2. EmptyDecoder \in [recovered : Seq(MediaOf(c)), fecs : Seq(FecOf(c))]
  BY <1>1
<1>3. Len(EmptyDecoder.recovered) = 0 /\ Len(EmptyDecoder.fecs) = 0
  BY <1>1
<1> QED
  BY <1>2, <1>3, SpaceIs DEF DecOK, DecSound, Ordered

\* A packet far from one that was sent is there.
FarFrom(c, p) == \E id \in 1 .. Len(c.sent) : MinDiff(p.seq, c.sent[id], SeqSpace) > MaxMediaPackets

\* A gap is one to a packet that was sent.
LEMMA GapIs ==
  ASSUME NEW c, NEW d, DecOK(d, c), NEW p, BigGap(d, p)
  PROVE  FarFrom(c, p)
<1>1. /\ d.recovered \in Seq(MediaOf(c)) /\ Len(d.recovered) = MaxMediaPackets /\ MaxMediaPackets \in Nat \ {0}
      /\ MinDiff(p.seq, Last(d.recovered).seq, SeqSpace) > MaxMediaPackets
  BY SpaceIs DEF BigGap, DecOK, DecSound
<1>2. Last(d.recovered) = d.recovered[Len(d.recovered)]
  BY DEF Last
<1>3. Len(d.recovered) \in 1 .. Len(d.recovered)
  BY <1>1
<1>4. Last(d.recovered) \in MediaOf(c)
  BY <1>1, <1>2, <1>3
<1>5. PICK id \in 1 .. Len(c.sent) : Last(d.recovered).seq = c.sent[id]
  BY <1>4 DEF MediaOf, IsSent
<1> QED
  BY <1>1, <1>5 DEF FarFrom

\* A packet is decoded.  Only one far from another makes the decoder forget more
\* than it must, and in the repository's source only a media packet does.
LEMMA DecodeKeeps ==
  ASSUME NEW c, StreamOK(c), NEW d, DecOK(d, c), NEW p \in PacketOf(c)
  PROVE  /\ DecOK(DecodeFec(d, p), c)
         /\ Kept(d, DecodeFec(d, p)) \/ (FarFrom(c, p) /\ ~p.isFec)
         /\ DecOK(DecodeFec85(d, p), c)
         /\ \/ Kept(d, DecodeFec85(d, p))
            \/ FarFrom(c, p) /\ p.ssrc = "media" /\ Len(d.recovered) = MaxMediaPackets
<1>1. ASSUME NEW e, DecOK(e, c), NEW clears
      PROVE  /\ DecOK(AttemptRecovery(Inserted(e, p, clears)), c)
             /\ Kept(e, AttemptRecovery(Inserted(e, p, clears)))
  <2>1. DecOK(Inserted(e, p, clears), c) /\ Kept(e, Inserted(e, p, clears))
    BY <1>1, InsertedKeeps
  <2>2. /\ DecOK(AttemptRecovery(Inserted(e, p, clears)), c)
        /\ Kept(Inserted(e, p, clears), AttemptRecovery(Inserted(e, p, clears)))
    BY <2>1, RecoveryKeeps
  <2> QED
    BY <1>1, <2>1, <2>2, KeptTwice
<1>2. DecOK(EmptyDecoder, c)
  BY EmptyOK
<1>3. BigGap(d, p) => FarFrom(c, p) /\ p.ssrc = "media" /\ Len(d.recovered) = MaxMediaPackets
  BY GapIs DEF BigGap
<1> DEFINE e == IF BigGap(d, p) /\ ~p.isFec THEN EmptyDecoder ELSE d
           e85 == IF BigGap(d, p) THEN EmptyDecoder ELSE d
<1>4. \E clears : DecodeFec(d, p) = AttemptRecovery(Inserted(e, p, clears))
  BY DEF DecodeFec, InsertPacket, ResetState
<1>5. \E clears : DecodeFec85(d, p) = AttemptRecovery(Inserted(e85, p, clears))
  <2> DEFINE clears == e85.fecs # <<>> /\ p.ssrc = e85.fecs[1].ssrc
  <2>1. DecodeFec85(d, p) = AttemptRecovery(InsertPacket85(e85, p))
    BY SameRecovery DEF DecodeFec85, ResetState85, ResetState
  <2>2. InsertPacket85(e85, p) = Inserted(e85, p, clears)
    BY DEF InsertPacket85, Inserted, InsertFecPacket85, InsertMediaPacket85
  <2> QED
    BY <2>1, <2>2
<1>6. DecOK(e, c) /\ (e = d \/ (FarFrom(c, p) /\ ~p.isFec))
  BY <1>2, <1>3
<1>7. DecOK(e85, c) /\ (e85 = d \/ (FarFrom(c, p) /\ p.ssrc = "media" /\ Len(d.recovered) = MaxMediaPackets))
  BY <1>2, <1>3
<1> HIDE DEF e, e85
<1> QED
  BY <1>1, <1>4, <1>5, <1>6, <1>7

-----------------------------------------------------------------------------
(* The encoder.                                                            *)

\* Groups of media packets.
GroupSeq == Seq([seq : Numbers, id : Nat])

\* The packets of a group follow each other, in the stream and in their numbers.
GroupOK(media, c) ==
  /\ media \in GroupSeq /\ Len(media) < SeqSpace
  /\ \A k \in 1 .. Len(media) :
       /\ media[k].id \in 1 .. Len(c.sent) /\ media[k].id = media[1].id + k - 1
       /\ media[k].seq = c.sent[media[k].id]
       /\ media[k].seq = (media[1].seq + k - 1) % SeqSpace

\* The packets of a group, one by one.
LEMMA GroupIs ==
  ASSUME NEW c, NEW media, GroupOK(media, c), NEW k \in 1 .. Len(media)
  PROVE  /\ media[k].seq \in Numbers /\ media[k].seq \in Nat /\ media[k].id \in Nat
         /\ media[1].seq \in Numbers /\ media[1].seq \in Nat /\ media[1].id \in Nat
         /\ Len(media) \in Nat /\ k \in Nat
<1>1. media \in GroupSeq /\ GroupSeq = Seq([seq : Numbers, id : Nat]) /\ Numbers \subseteq Nat
  BY SpaceIs DEF GroupOK, GroupSeq
<1>2. Len(media) \in Nat /\ k \in Nat /\ 1 \in 1 .. Len(media)
  BY <1>1
<1>3. media[k] \in [seq : Numbers, id : Nat] /\ media[1] \in [seq : Numbers, id : Nat]
  <2>1. \A T : media \in Seq(T) => \A i \in 1 .. Len(media) : media[i] \in T
    OBVIOUS
  <2> QED
    BY <1>1, <1>2, <2>1
<1> QED
  BY <1>1, <1>2, <1>3

\* There are at most as many FEC packets as media packets, and at least one if
\* any is wanted.
LEMMA NumFecIs ==
  ASSUME NEW n \in Nat \ {0}, NEW rate \in 0 .. 255
  PROVE  NumFecPackets(n, rate) \in 0 .. n /\ (rate > 0 => NumFecPackets(n, rate) > 0)
<1> DEFINE x == n * rate
<1>1. x \in Nat /\ x <= n * 255
  <2>1. n * rate <= n * 255
    <3>1. n * (255 - rate) >= 0 /\ n * (255 - rate) = n * 255 - n * rate
      OBVIOUS
    <3> QED
      BY <3>1
  <2> QED
    BY <2>1
<1> HIDE DEF x
<1>2. (x + 128) \div 256 \in 0 .. n
  BY <1>1
<1>3. NumFecPackets(n, rate) = IF rate > 0 /\ (x + 128) \div 256 = 0 THEN 1 ELSE (x + 128) \div 256
  BY DEF NumFecPackets, x
<1> QED
  BY <1>2, <1>3

\* The rows of a mask: one for each FEC packet, with bits for the media packets
\* of the group only.
LEMMA LookUpIs ==
  ASSUME NEW table \in {FlatRandomTbl, FlatBurstyTbl}, NEW n \in 1 .. 48, NEW m \in 1 .. n
  PROVE  /\ DOMAIN LookUp(table, n, m) = 1 .. m
         /\ \A row \in 1 .. m : /\ 0 .. n - 1 \subseteq DOMAIN LookUp(table, n, m)[row]
                                /\ Protected(LookUp(table, n, m)[row]) \subseteq 0 .. n - 1
<1> DEFINE t == LookUp(table, n, m)
<1>1. CASE n <= 12
  <2> DEFINE data == LookUpInFecTable(table, n - 1, m - 1)
  <2>1. t = [row \in 1 .. m |->
               [bit \in 0 .. 15 |-> (data[2 * row - 1 + (bit \div 8)] \div 2^(7 - (bit % 8))) % 2]]
    BY <1>1 DEF LookUp
  <2> HIDE DEF t, data
  <2>2. DOMAIN t = 1 .. m /\ \A row \in 1 .. m : DOMAIN t[row] = 0 .. 15
    BY <2>1
  <2>3. 0 .. n - 1 \subseteq 0 .. 15 /\ n \in 1 .. 12
    BY <1>1
  <2>4. \A row \in 1 .. m : Protected(t[row]) \subseteq 0 .. n - 1
    BY <2>3, MaskTablesAssumption DEF t
  <2> QED
    BY <2>2, <2>3, <2>4 DEF t
<1>2. CASE ~(n <= 12)
  <2> DEFINE size == 8 * PacketMaskSize(n)
  <2>1. t = [row \in 1 .. m |->
               [bit \in 0 .. size - 1 |-> IF bit % m = row - 1 /\ bit < n THEN 1 ELSE 0]]
    BY <1>2 DEF LookUp
  <2>2. size \in Nat /\ n <= size
    BY DEF PacketMaskSize
  <2> HIDE DEF t, size
  <2>3. DOMAIN t = 1 .. m
    BY <2>1
  <2>4. ASSUME NEW row \in 1 .. m
        PROVE  0 .. n - 1 \subseteq DOMAIN t[row] /\ Protected(t[row]) \subseteq 0 .. n - 1
    <3>1. t[row] = [bit \in 0 .. size - 1 |-> IF bit % m = row - 1 /\ bit < n THEN 1 ELSE 0]
      BY <2>1
    <3>2. DOMAIN t[row] = 0 .. size - 1
      BY <3>1
    <3>3. ASSUME NEW bit \in 0 .. size - 1, t[row][bit] = 1
          PROVE  bit < n
      BY <3>1, <3>3
    <3> HIDE DEF t
    <3>4. Protected(t[row]) \subseteq 0 .. n - 1
      BY <2>2, <3>2, <3>3 DEF Protected
    <3> QED
      BY <2>2, <3>2, <3>4
  <2> QED
    BY <2>3, <2>4 DEF t
<1> QED
  BY <1>1, <1>2

\* The packets of a group are as far from the first as they are in the group.
LEMMA DistancesAre ==
  ASSUME NEW c, NEW media, GroupOK(media, c), media # <<>>
  PROVE  /\ Len(media) \in Nat \ {0}
         /\ Distances(media) = [i \in 1 .. Len(media) |-> i - 1]
         /\ Len(Distances(media)) = Len(media)
         /\ Last(Distances(media)) = Len(media) - 1
<1> DEFINE n == Len(media)
<1>1. n \in Nat \ {0} /\ n < SeqSpace /\ SeqSpace \in Nat \ {0} /\ Numbers = 0 .. SeqSpace - 1
  BY SpaceIs DEF GroupOK, Numbers
<1>2. \A i \in 1 .. n : media[i].seq \in Numbers /\ media[i].seq = (media[1].seq + i - 1) % SeqSpace
  BY GroupIs DEF GroupOK
<1>3. ASSUME NEW i \in 1 .. n
      PROVE  ForwardDiff(media[1].seq, media[i].seq, SeqSpace) = i - 1
  <2> DEFINE a == media[1].seq
             b == media[i].seq
  <2>1. a \in Nat /\ a < SeqSpace
    <3>1. 1 \in 1 .. n
      BY <1>1
    <3> QED
      BY <1>1, <1>2, <3>1
  <2>2. b = (a + i - 1) % SeqSpace
    BY <1>2
  <2> HIDE DEF a, b, n
  <2> DEFINE y == a + i - 1
  <2>3. y \in Int /\ -SeqSpace <= y /\ y < SeqSpace + SeqSpace /\ y = a + i - 1 /\ b = y % SeqSpace
    BY <1>1, <2>1, <2>2
  <2> HIDE DEF y
  <2>4. b = IF y < 0 THEN y + SeqSpace ELSE IF y < SeqSpace THEN y ELSE y - SeqSpace
    BY <1>1, <2>3, NearRemainder
  <2>5. ForwardDiff(a, b, SeqSpace) = i - 1
    BY <1>1, <2>1, <2>3, <2>4 DEF ForwardDiff
  <2> QED
    BY <2>5 DEF a, b
<1>4. Distances(media) = [i \in 1 .. n |-> i - 1]
  BY <1>3 DEF Distances
<1>5. Distances(media) \in Seq(Int) /\ Len(Distances(media)) = n /\ Distances(media)[n] = n - 1
  <2> HIDE DEF n
  <2>1. Distances(media) \in [1 .. n -> Int]
    BY <1>1, <1>4
  <2> QED
    BY <1>1, <1>4, <2>1
<1>6. Last(Distances(media)) = n - 1
  BY <1>5 DEF Last
<1> QED
  BY <1>1, <1>4, <1>5, <1>6

\* The data that a row of the mask makes of a group, and the numbers it names.
RowData(media, row) == Xor([i \in 1 .. Len(media) |-> {media[i].id}], {i \in 1 .. Len(media) : row[i - 1] = 1})
RowSeqs(media, row) == {(media[1].seq + bit) % SeqSpace : bit \in Protected(row)}

\* A FEC packet is the XOR of the packets that its mask names.
LEMMA PayloadIs ==
  ASSUME NEW c, NEW media, GroupOK(media, c), NEW row,
         0 .. Len(media) - 1 \subseteq DOMAIN row, Protected(row) \subseteq 0 .. Len(media) - 1
  PROVE  /\ RowData(media, row) \subseteq 1 .. Len(c.sent)
         /\ RowSeqs(media, row) = {c.sent[id] : id \in RowData(media, row)}
<1> USE DEF RowSeqs
<1> DEFINE n == Len(media)
           R == {i \in 1 .. n : row[i - 1] = 1}
           v == [i \in 1 .. n |-> {media[i].id}]
           data == RowData(media, row)
           who(id) == {s \in R : id \in v[s]}
<1>1. n \in Nat /\ \A i \in 1 .. n : media[i].id \in 1 .. Len(c.sent) /\ media[i].id = media[1].id + i - 1
  BY DEF GroupOK
<1>2. \A i \in 1 .. n : media[i].seq = c.sent[media[i].id] /\ media[i].seq = (media[1].seq + i - 1) % SeqSpace
  BY DEF GroupOK
<1>3. \A i, j \in 1 .. n : media[i].id = media[j].id => i = j
  <2> SUFFICES ASSUME NEW i \in 1 .. n, NEW j \in 1 .. n, media[i].id = media[j].id
               PROVE  i = j
    OBVIOUS
  <2>1. media[i].id = media[1].id + i - 1 /\ media[j].id = media[1].id + j - 1
    BY <1>1
  <2> DEFINE first == media[1].id
  <2>2. first \in Nat /\ i \in Nat /\ j \in Nat
    BY GroupIs
  <2>3. first + i - 1 = first + j - 1
    BY <2>1
  <2> HIDE DEF first
  <2> QED
    BY <2>2, <2>3
<1>4. data = {id \in UNION {v[s] : s \in R} : Cardinality(who(id)) % 2 = 1}
  BY DEF Xor, RowData
<1> HIDE DEF data
<1>5. \A i \in 1 .. n : v[i] = {media[i].id}
  OBVIOUS
<1> HIDE DEF v
<1>6. UNION {v[s] : s \in R} = {media[i].id : i \in R}
  BY <1>5
<1>7. \A i \in R : who(media[i].id) = {i}
  BY <1>3, <1>5
<1>8. \A i \in R : Cardinality(who(media[i].id)) = 1
  <2> HIDE DEF who, R
  <2> QED
    BY <1>7, FS_Singleton
<1>9. data = {media[i].id : i \in R}
  <2> HIDE DEF who, R
  <2>1. \A id \in {media[i].id : i \in R} : Cardinality(who(id)) % 2 = 1
    BY <1>8
  <2> QED
    BY <1>4, <1>6, <2>1
<1>10. data \subseteq 1 .. Len(c.sent)
  BY <1>1, <1>9
<1>11. \A i \in R : i - 1 \in Protected(row)
  <2> SUFFICES ASSUME NEW i \in 1 .. n, row[i - 1] = 1
               PROVE  i - 1 \in Protected(row)
    OBVIOUS
  <2>1. i - 1 \in 0 .. n - 1
    BY <1>1
  <2> QED
    BY <2>1 DEF Protected
<1>12. \A bit \in Protected(row) : bit + 1 \in R
  <2> SUFFICES ASSUME NEW bit \in Protected(row)
               PROVE  bit + 1 \in R
    OBVIOUS
  <2>1. row[bit] = 1 /\ bit \in 0 .. n - 1
    BY DEF Protected
  <2>2. bit + 1 \in 1 .. n /\ (bit + 1) - 1 = bit
    BY <1>1, <2>1
  <2> QED
    BY <2>1, <2>2
<1> DEFINE covers == {(media[1].seq + bit) % SeqSpace : bit \in Protected(row)}
<1>13. ASSUME NEW i \in R
       PROVE  media[1].seq + (i - 1) = media[1].seq + i - 1
  <2>1. i \in 1 .. n /\ 1 \in 1 .. n
    BY <1>1
  <2>2. media[1].seq \in Nat
    BY <2>1, GroupIs
  <2> QED
    BY <2>1, <2>2
<1>14. \A i \in R : c.sent[media[i].id] = (media[1].seq + (i - 1)) % SeqSpace
  BY <1>2, <1>13
<1>15. covers \subseteq {c.sent[id] : id \in data}
  <2> SUFFICES ASSUME NEW bit \in Protected(row)
               PROVE  (media[1].seq + bit) % SeqSpace \in {c.sent[id] : id \in data}
    OBVIOUS
  <2>1. bit + 1 \in R /\ (bit + 1) - 1 = bit
    BY <1>1, <1>12
  <2>2. c.sent[media[bit + 1].id] = (media[1].seq + bit) % SeqSpace
    BY <1>14, <2>1
  <2> QED
    BY <1>9, <2>1, <2>2
<1>16. {c.sent[id] : id \in data} \subseteq covers
  BY <1>9, <1>11, <1>14
<1> QED
  BY <1>10, <1>15, <1>16 DEF data

\* The FEC packets of a group.
LEMMA EncodeIs ==
  ASSUME NEW c, NEW media, GroupOK(media, c), media # <<>>, NEW rate \in 0 .. 255, NEW maskType,
         NEW fec, fec = EncodeFec(media, rate, maskType)
  PROVE  /\ fec \in Seq([base : Numbers, mask : SUBSET Nat, data : SUBSET Nat])
         /\ Len(fec) <= Len(media)
         /\ rate > 0 /\ Len(media) <= kMaxMediaPackets => Len(fec) > 0
         /\ \A i \in 1 .. Len(fec) : Protects(c, fec[i].data, Covers(fec[i]))
<1> DEFINE n == Len(media)
           m == NumFecPackets(n, rate)
           table == PickTable(maskType, n)
           dist == Distances(media)
           masks == EncodeMasks(dist, rate, 0, FALSE, maskType)
           R(row) == {i \in 1 .. n : masks[row][dist[i]] = 1}
           pay(row) == [base |-> media[1].seq, mask |-> Protected(masks[row]),
                        data |-> Xor([i \in 1 .. n |-> {media[i].id}], R(row))]
<1>1. n \in Nat \ {0} /\ dist = [i \in 1 .. n |-> i - 1] /\ Len(dist) = n /\ Last(dist) = n - 1
  BY DistancesAre
<1>2. m \in 0 .. n /\ (rate > 0 => m > 0)
  BY <1>1, NumFecIs
<1>3. masks = IF m = 0 \/ n > 48 THEN <<>> ELSE LookUp(table, n, m)
  <2>1. (~FitsMask(dist)) <=> n > 48
    BY <1>1 DEF FitsMask, kMaxMediaPackets
  <2>2. GeneratePacketMasks(n, m, 0, FALSE, table) = LookUp(table, n, m)
    BY DEF GeneratePacketMasks
  <2>3. InsertZerosInPacketMasks(LookUp(table, n, m), dist) = LookUp(table, n, m)
    BY <1>1 DEF InsertZerosInPacketMasks
  <2>4. masks = IF NumFecPackets(Len(dist), rate) = 0 \/ Len(dist) > kMaxMediaPackets \/ ~FitsMask(dist) THEN <<>>
                ELSE InsertZerosInPacketMasks(
                       GeneratePacketMasks(Len(dist), NumFecPackets(Len(dist), rate), 0, FALSE,
                                           PickTable(maskType, Len(dist))), dist)
    BY DEF EncodeMasks
  <2> HIDE DEF dist, masks, table, n
  <2> QED
    BY <1>1, <2>1, <2>2, <2>3, <2>4 DEF kMaxMediaPackets, table
<1>4. fec = [row \in DOMAIN masks |-> pay(row)]
  BY DEF EncodeFec, GenerateFecPayloads
<1>5. CASE m = 0 \/ n > 48
  <2>1. masks = <<>>
    BY <1>3, <1>5
  <2> HIDE DEF masks, pay
  <2>2. fec = <<>>
    BY <1>4, <2>1
  <2> QED
    BY <1>1, <1>2, <1>5, <2>2 DEF kMaxMediaPackets
<1>6. CASE ~(m = 0 \/ n > 48)
  <2>1. masks = LookUp(table, n, m) /\ n \in 1 .. 48 /\ m \in 1 .. n
    <3> HIDE DEF masks, table, m, dist, n
    <3> QED
      BY <1>1, <1>2, <1>3, <1>6
  <2>2. table \in {FlatRandomTbl, FlatBurstyTbl}
    BY DEF PickTable
  <2> HIDE DEF masks, table, m, dist, n
  <2>3. /\ DOMAIN masks = 1 .. m
        /\ \A row \in 1 .. m : 0 .. n - 1 \subseteq DOMAIN masks[row] /\ Protected(masks[row]) \subseteq 0 .. n - 1
    BY <2>1, <2>2, LookUpIs
  <2>4. ASSUME NEW row \in 1 .. m
        PROVE  /\ pay(row) \in [base : Numbers, mask : SUBSET Nat, data : SUBSET Nat]
               /\ Protects(c, pay(row).data, Covers(pay(row)))
    <3> DEFINE data == RowData(media, masks[row])
    <3>1. R(row) = {i \in 1 .. n : masks[row][i - 1] = 1}
      BY <1>1
    <3>2. pay(row) = [base |-> media[1].seq, mask |-> Protected(masks[row]), data |-> data]
      BY <3>1 DEF RowData, n
    <3>3. 0 .. Len(media) - 1 \subseteq DOMAIN masks[row] /\ Protected(masks[row]) \subseteq 0 .. Len(media) - 1
      BY <2>3 DEF n
    <3>5. data \subseteq 1 .. Len(c.sent) /\ RowSeqs(media, masks[row]) = {c.sent[id] : id \in data}
      BY <3>3, PayloadIs
    <3> HIDE DEF pay, data
    <3>6. media[1].seq \in Numbers
      <4>1. 1 \in 1 .. Len(media)
        BY <1>1 DEF n
      <4> QED
        BY <4>1, GroupIs
    <3>7. Protects(c, data, Covers(pay(row)))
      <4>1. Covers(pay(row)) = RowSeqs(media, masks[row])
        BY <3>2 DEF Covers, RowSeqs
      <4> QED
        BY <3>5, <4>1 DEF Protects
    <3>8. data \in SUBSET Nat /\ Protected(masks[row]) \in SUBSET Nat
      BY <3>3, <3>5
    <3> QED
      BY <3>2, <3>6, <3>7, <3>8
  <2> HIDE DEF pay
  <2>5. fec \in [1 .. m -> [base : Numbers, mask : SUBSET Nat, data : SUBSET Nat]]
    BY <1>4, <2>3, <2>4
  <2>6. m \in Nat /\ m <= n /\ m > 0
    BY <1>1, <2>1
  <2>7. fec \in Seq([base : Numbers, mask : SUBSET Nat, data : SUBSET Nat]) /\ Len(fec) = m
    <3> DEFINE T == [base : Numbers, mask : SUBSET Nat, data : SUBSET Nat]
    <3>1. fec \in [1 .. m -> T] /\ m \in Nat
      BY <2>5, <2>6
    <3> HIDE DEF T
    <3>2. fec \in Seq(T) /\ Len(fec) = m
      BY ONLY <3>1
    <3> QED
      BY <3>2 DEF T
  <2>8. \A i \in 1 .. m : Protects(c, fec[i].data, Covers(fec[i]))
    BY <1>4, <2>3, <2>4
  <2> QED
    BY <2>6, <2>7, <2>8 DEF n
<1> QED
  BY <1>5, <1>6

\* Both sources encode in the same way.
LEMMA SameEncoding ==
  ASSUME NEW media, NEW rate, NEW maskType
  PROVE  EncodeFec85(media, rate, maskType) = EncodeFec(media, rate, maskType)
<1>1. \A dist : EncodeMasks85(dist, rate, maskType) = EncodeMasks(dist, rate, 0, FALSE, maskType)
  BY DEF EncodeMasks85, EncodeMasks, InsertZeros85, NumFecPackets85
<1> QED
  BY <1>1 DEF EncodeFec85, EncodeFec, GenerateFecPayloads85

-----------------------------------------------------------------------------
(* The generator.                                                          *)

\* Generators whose FEC packets are in F.
GenOf(F) ==
  [media : GroupSeq, frames : Nat, params : Params, min : Nat, generated : F,
   new : [delta : Params, key : Params], pending : BOOLEAN,
   current : [delta : Params, key : Params], key : BOOLEAN]

\* The group with the next packet, if there is room for it, and its frames.
Grown(g, seq, id) ==
  IF Len(g.media) < MaxMediaPackets THEN Append(g.media, [seq |-> seq, id |-> id]) ELSE g.media
Counted(g, marker) == IF marker THEN g.frames + 1 ELSE g.frames
FecOfGroup(g, p) == EncodeFec(g, p.rate, p.maskType)

\* What adding a packet makes of g: nothing yet, nothing at all, or FEC packets.
AddsTo(g, a, seq, id, marker) ==
  LET m   == Grown(g, seq, id)
      fec == FecOfGroup(m, a.params)
  IN  /\ a \in GenOf({<<>>, fec})
      /\ g.media # <<>> => a.params = g.params
      /\ \/ a.generated = <<>> /\ a.media = m /\ a.frames = Counted(g, marker)
            /\ (marker => a.frames # a.params.frames)
         \/ a.generated = <<>> /\ fec = <<>> /\ a.media = <<>> /\ a.frames = 0
         \/ a.generated = fec /\ fec # <<>> /\ a.media = m

\* The settings, as the assumption has them.
LEMMA ParamsAre ==
  ASSUME NEW p \in Params
  PROVE  p.rate \in 0 .. 255 /\ p.frames \in Nat
  BY FlexfecAssumption

\* The generator g with another group, other frames and other FEC packets.
With(g, m, f, x) ==
  [media |-> m, frames |-> f, params |-> g.params, min |-> g.min, generated |-> x, new |-> g.new,
   pending |-> g.pending, current |-> g.current, key |-> g.key]

\* Its fields, one by one.
LEMMA WithIs ==
  ASSUME NEW F, NEW g \in GenOf(F)
  PROVE  /\ g = With(g, g.media, g.frames, g.generated)
         /\ \A m, f, x, y : [With(g, m, f, x) EXCEPT !.media = y] = With(g, y, f, x)
         /\ \A m, f, x, y : [With(g, m, f, x) EXCEPT !.frames = y] = With(g, m, y, x)
         /\ \A m, f, x, y : [With(g, m, f, x) EXCEPT !.generated = y] = With(g, m, f, y)
         /\ \A m, f, x : With(g, m, f, x).frames = f
         /\ g.media \in GroupSeq /\ g.frames \in Nat /\ g.params \in Params
<1>1. g = With(g, g.media, g.frames, g.generated)
  BY DEF With, GenOf
<1>2. \A m, f, x, y : [With(g, m, f, x) EXCEPT !.media = y] = With(g, y, f, x)
  BY DEF With
<1>3. \A m, f, x, y : [With(g, m, f, x) EXCEPT !.frames = y] = With(g, m, y, x)
  BY DEF With
<1>4. \A m, f, x, y : [With(g, m, f, x) EXCEPT !.generated = y] = With(g, m, f, y)
  BY DEF With
<1>5. \A m, f, x : With(g, m, f, x).frames = f
  BY DEF With
<1>6. g.media \in GroupSeq /\ g.frames \in Nat /\ g.params \in Params
  BY DEF GenOf
<1> QED
  BY <1>1, <1>2, <1>3, <1>4, <1>5, <1>6

\* It is a generator again.
LEMMA WithType ==
  ASSUME NEW F, NEW g \in GenOf(F), NEW m \in GroupSeq, NEW f \in Nat, NEW x
  PROVE  /\ \A H : x \in H => With(g, m, f, x) \in GenOf(H)
         /\ With(g, m, f, x).media = m /\ With(g, m, f, x).frames = f /\ With(g, m, f, x).generated = x
         /\ With(g, m, f, x).params = g.params /\ With(g, m, f, x).min = g.min
         /\ With(g, m, f, x).new = g.new /\ With(g, m, f, x).pending = g.pending
         /\ With(g, m, f, x).current = g.current /\ With(g, m, f, x).key = g.key
  BY DEF With, GenOf

\* A packet is stored and its frame counted.
LEMMA StoredIs ==
  ASSUME NEW g \in GenOf({<<>>}), NEW seq, NEW id, NEW marker \in BOOLEAN
  PROVE  Framed(Stored(g, seq, id), marker) = With(g, Grown(g, seq, id), Counted(g, marker), <<>>)
<1>1. g = With(g, g.media, g.frames, g.generated) /\ g.generated = <<>>
  <2>1. g.generated = <<>>
    BY DEF GenOf
  <2> QED
    BY <2>1, WithIs
<1>2. Stored(g, seq, id) = With(g, Grown(g, seq, id), g.frames, <<>>)
  <2>1. CASE Len(g.media) < MaxMediaPackets
    <3>1. Stored(g, seq, id) = [g EXCEPT !.media = Grown(g, seq, id)]
      BY <2>1 DEF Stored, Grown
    <3>2. [With(g, g.media, g.frames, <<>>) EXCEPT !.media = Grown(g, seq, id)] = With(g, Grown(g, seq, id), g.frames, <<>>)
      BY WithIs
    <3> QED
      BY <1>1, <3>1, <3>2
  <2>2. CASE ~(Len(g.media) < MaxMediaPackets)
    BY <1>1, <2>2 DEF Stored, Grown
  <2> QED
    BY <2>1, <2>2
<1> DEFINE h == With(g, Grown(g, seq, id), g.frames, <<>>)
<1>3. h.frames = g.frames /\ [h EXCEPT !.frames = g.frames + 1] = With(g, Grown(g, seq, id), g.frames + 1, <<>>)
  BY WithIs
<1> HIDE DEF h
<1>4. Framed(h, marker) = IF marker THEN [h EXCEPT !.frames = g.frames + 1] ELSE h
  BY <1>3 DEF Framed
<1>5. CASE marker
  BY <1>2, <1>3, <1>4, <1>5 DEF Counted, h
<1>6. CASE ~marker
  BY <1>2, <1>4, <1>6 DEF Counted, h
<1> QED
  BY <1>5, <1>6

\* Starting over.
LEMMA ResetIs ==
  ASSUME NEW F, NEW g \in GenOf(F)
  PROVE  ResetGenerator(g) = With(g, <<>>, 0, <<>>) /\ ResetGenerator85(g) = With(g, <<>>, 0, <<>>)
<1>1. g = With(g, g.media, g.frames, g.generated)
  BY WithIs
<1>2. [[[g EXCEPT !.media = <<>>] EXCEPT !.frames = 0] EXCEPT !.generated = <<>>] = With(g, <<>>, 0, <<>>)
  <2>1. [g EXCEPT !.media = <<>>] = With(g, <<>>, g.frames, g.generated)
    BY <1>1, WithIs
  <2>2. [With(g, <<>>, g.frames, g.generated) EXCEPT !.frames = 0] = With(g, <<>>, 0, g.generated)
    BY WithIs
  <2>3. [With(g, <<>>, 0, g.generated) EXCEPT !.generated = <<>>] = With(g, <<>>, 0, <<>>)
    BY WithIs
  <2> QED
    BY <2>1, <2>2, <2>3
<1>3. ResetGenerator(g) = [[[g EXCEPT !.media = <<>>] EXCEPT !.frames = 0] EXCEPT !.generated = <<>>]
  BY DEF ResetGenerator
<1>4. ResetGenerator85(g) = ResetGenerator(g)
  BY DEF ResetGenerator, ResetGenerator85
<1> QED
  BY <1>2, <1>3, <1>4

\* The group that grows is one of packets.
LEMMA GrownIs ==
  ASSUME NEW g, g.media \in GroupSeq, NEW seq \in Numbers, NEW id \in Nat
  PROVE  /\ Grown(g, seq, id) \in GroupSeq /\ Grown(g, seq, id) # <<>>
         /\ Len(g.media) <= MaxMediaPackets => Len(Grown(g, seq, id)) <= MaxMediaPackets
         /\ Len(Grown(g, seq, id)) \in {Len(g.media), Len(g.media) + 1}
<1> DEFINE T == [seq : Numbers, id : Nat]
           e == [seq |-> seq, id |-> id]
<1>1. /\ e \in T /\ g.media \in Seq(T) /\ GroupSeq = Seq(T)
      /\ MaxMediaPackets \in Nat \ {0} /\ Len(g.media) \in Nat
  BY SpaceIs DEF GroupSeq
<1>2. Grown(g, seq, id) = IF Len(g.media) < MaxMediaPackets THEN Append(g.media, e) ELSE g.media
  BY DEF Grown
<1> HIDE DEF T, e
<1>3. CASE Len(g.media) < MaxMediaPackets
  <2>1. Grown(g, seq, id) = Append(g.media, e)
    BY <1>2, <1>3
  <2>2. Append(g.media, e) \in Seq(T) /\ Len(Append(g.media, e)) = Len(g.media) + 1
    BY ONLY <1>1
  <2>3. Len(<<>>) = 0 /\ Len(g.media) + 1 # 0
    BY <1>1
  <2> QED
    BY <1>1, <1>3, <2>1, <2>2, <2>3 DEF T
<1>4. CASE ~(Len(g.media) < MaxMediaPackets)
  <2>1. Grown(g, seq, id) = g.media
    BY <1>2, <1>4
  <2>2. g.media # <<>>
    BY <1>1, <1>4
  <2> QED
    BY <1>1, <2>1, <2>2 DEF T
<1> QED
  BY <1>3, <1>4


\* What is made of a generator h after the packet was stored.
LEMMA MadeIs ==
  ASSUME NEW g, NEW h \in GenOf({<<>>}), NEW seq, NEW id, NEW marker \in BOOLEAN, NEW due \in BOOLEAN,
         NEW fec, fec = FecOfGroup(h.media, h.params),
         h.media = Grown(g, seq, id), h.frames = Counted(g, marker), g.media # <<>> => h.params = g.params,
         marker /\ ~due => h.frames # h.params.frames,
         NEW a, a = IF ~due THEN h ELSE IF fec = <<>> THEN With(h, <<>>, 0, <<>>)
                    ELSE With(h, h.media, h.frames, fec)
  PROVE  AddsTo(g, a, seq, id, marker) /\ a.current = h.current /\ a.key = h.key /\ a.params = h.params
<1>1. AddsTo(g, a, seq, id, marker) <=>
        /\ a \in GenOf({<<>>, FecOfGroup(h.media, a.params)})
        /\ g.media # <<>> => a.params = g.params
        /\ \/ a.generated = <<>> /\ a.media = h.media /\ a.frames = h.frames
              /\ (marker => a.frames # a.params.frames)
           \/ a.generated = <<>> /\ FecOfGroup(h.media, a.params) = <<>> /\ a.media = <<>> /\ a.frames = 0
           \/ a.generated = FecOfGroup(h.media, a.params) /\ FecOfGroup(h.media, a.params) # <<>> /\ a.media = h.media
  BY DEF AddsTo
<1>2. h.media \in GroupSeq /\ h.frames \in Nat
  BY WithIs
<1>3. GenOf({<<>>}) \subseteq GenOf({<<>>, fec}) /\ h.generated = <<>>
  BY DEF GenOf
<1>4. CASE ~due
  <2>1. a = h
    BY <1>4
  <2> QED
    BY <1>1, <1>3, <1>4, <2>1
<1>5. CASE due /\ fec = <<>>
  <2>1. a = With(h, <<>>, 0, <<>>)
    BY <1>5
  <2>2. <<>> \in GroupSeq /\ 0 \in Nat /\ <<>> \in {<<>>}
    BY DEF GroupSeq
  <2>3. /\ a \in GenOf({<<>>}) /\ a.media = <<>> /\ a.frames = 0 /\ a.generated = <<>>
        /\ a.params = h.params /\ a.current = h.current /\ a.key = h.key
    BY <2>1, <2>2, WithType
  <2> QED
    BY <1>1, <1>3, <1>5, <2>3
<1>6. CASE due /\ fec # <<>>
  <2>1. a = With(h, h.media, h.frames, fec)
    BY <1>6
  <2>2. fec \in {<<>>, fec}
    OBVIOUS
  <2>3. /\ a \in GenOf({<<>>, fec}) /\ a.media = h.media /\ a.generated = fec
        /\ a.params = h.params /\ a.current = h.current /\ a.key = h.key
    BY <1>2, <2>1, <2>2, WithType
  <2> QED
    BY <1>1, <1>6, <2>3
<1> QED
  BY <1>4, <1>5, <1>6

\* A packet is added, in the repository's source.
LEMMA AddIs ==
  ASSUME NEW g \in GenOf({<<>>}), NEW seq \in Numbers, NEW id \in Nat, NEW marker \in BOOLEAN
  PROVE  AddsTo(g, AddRtpPacketAndGenerateFec(g, seq, id, marker), seq, id, marker)
<1> DEFINE b == Begun(g)
           m == Grown(g, seq, id)
           h == With(b, m, Counted(g, marker), <<>>)
           a == AddRtpPacketAndGenerateFec(g, seq, id, marker)
           fec == FecOfGroup(h.media, h.params)
           due == /\ marker
                  /\ \/ h.frames = h.params.frames
                     \/ ExcessOverheadBelowMax(h) /\ MinimumMediaPacketsReached(h)
<1>1. b \in GenOf({<<>>}) /\ b.media = g.media /\ b.frames = g.frames /\ (g.media # <<>> => b.params = g.params)
  BY DEF Begun, GenOf
<1> HIDE DEF b
<1>2. Framed(Stored(b, seq, id), marker) = h
  <2>1. Grown(b, seq, id) = m /\ Counted(b, marker) = Counted(g, marker)
    BY <1>1 DEF Grown, Counted
  <2> QED
    BY <1>1, <2>1, StoredIs
<1>3. m \in GroupSeq /\ Counted(g, marker) \in Nat /\ <<>> \in {<<>>}
  <2>1. g.media \in GroupSeq /\ g.frames \in Nat
    BY WithIs
  <2> QED
    BY <2>1, GrownIs DEF Counted
<1>4. /\ h \in GenOf({<<>>}) /\ h.media = m /\ h.frames = Counted(g, marker) /\ h.params = b.params
      /\ h.generated = <<>>
  <2> HIDE DEF m
  <2> QED
    BY <1>1, <1>3, WithType
<1> HIDE DEF h
<1>5. a = IF ~due THEN h ELSE IF fec = <<>> THEN ResetGenerator(h) ELSE [h EXCEPT !.generated = fec]
  <2>1. a = Generated(h, marker)
    BY <1>2 DEF AddRtpPacketAndGenerateFec, b
  <2> QED
    BY <2>1 DEF Generated, FecOfGroup
<1>6. ResetGenerator(h) = With(h, <<>>, 0, <<>>)
  BY <1>4, ResetIs
<1>7. [h EXCEPT !.generated = fec] = With(h, h.media, h.frames, fec)
  <2>1. h = With(h, h.media, h.frames, h.generated)
    BY <1>4, WithIs
  <2>2. [With(h, h.media, h.frames, h.generated) EXCEPT !.generated = fec] = With(h, h.media, h.frames, fec)
    BY <1>4, WithIs
  <2> QED
    BY <2>1, <2>2
<1>8. marker /\ ~due => h.frames # h.params.frames
  OBVIOUS
<1>9. due \in BOOLEAN
  OBVIOUS
<1>10. g.media # <<>> => h.params = g.params
  BY <1>1, <1>4
<1> HIDE DEF due, a
<1>11. a = IF ~due THEN h ELSE IF fec = <<>> THEN With(h, <<>>, 0, <<>>) ELSE With(h, h.media, h.frames, fec)
  BY <1>5, <1>6, <1>7
<1> QED
  BY <1>4, <1>8, <1>9, <1>10, <1>11, MadeIs DEF a, m

\* The settings in force in M85.
LEMMA CurrentIs ==
  ASSUME NEW F, NEW g \in GenOf(F)
  PROVE  CurrentParams(g) \in Params
<1>1. g.current \in [delta : Params, key : Params]
  BY DEF GenOf
<1> QED
  BY <1>1 DEF CurrentParams

\* A packet is added, in the source of M85.
LEMMA Add85Is ==
  ASSUME NEW g \in GenOf({<<>>}), NEW seq \in Numbers, NEW id \in Nat, NEW marker \in BOOLEAN,
         NEW isKey \in BOOLEAN, g.media # <<>> => g.params = CurrentParams(g)
  PROVE  /\ AddsTo(g, AddPacketAndGenerateFec(g, seq, id, marker, isKey), seq, id, marker)
         /\ LET a == AddPacketAndGenerateFec(g, seq, id, marker, isKey) IN a.params = CurrentParams(a)
<1> DEFINE b == Begun85(g, isKey)
           m == Grown(g, seq, id)
           h == With(b, m, Counted(g, marker), <<>>)
           a == AddPacketAndGenerateFec(g, seq, id, marker, isKey)
           now == CurrentParams(h)
           due == /\ marker
                  /\ \/ h.frames = now.frames
                     \/ ExcessOverheadBelowMax85(h) /\ MinimumMediaPacketsReached85(h)
           fec == FecOfGroup(h.media, h.params)
<1>1. /\ b \in GenOf({<<>>}) /\ b.media = g.media /\ b.frames = g.frames
      /\ (g.media # <<>> => b.params = g.params) /\ b.params = CurrentParams(b)
  <2>1. CASE g.media # <<>>
    <3>1. b = g
      BY <2>1 DEF Begun85
    <3> QED
      BY <2>1, <3>1
  <2>2. CASE g.media = <<>>
    <3> DEFINE applied == IF g.pending THEN [[g EXCEPT !.current = g.new] EXCEPT !.pending = FALSE] ELSE g
               minimum == IF g.pending THEN [applied EXCEPT !.min = MinFor(CurrentParams(applied).rate)]
                          ELSE applied
               keyed == [minimum EXCEPT !.key = isKey]
    <3>1. b = [keyed EXCEPT !.params = CurrentParams(keyed)]
      BY <2>2 DEF Begun85
    <3>2. applied \in GenOf({<<>>}) /\ applied.media = g.media /\ applied.frames = g.frames
      <4>1. [g EXCEPT !.current = g.new] \in GenOf({<<>>}) /\ [g EXCEPT !.current = g.new].media = g.media
            /\ [g EXCEPT !.current = g.new].frames = g.frames
        BY DEF GenOf
      <4> DEFINE e == [g EXCEPT !.current = g.new]
      <4> HIDE DEF e
      <4>2. e \in GenOf({<<>>}) /\ e.media = g.media /\ e.frames = g.frames
        BY <4>1 DEF e
      <4>3. [e EXCEPT !.pending = FALSE] \in GenOf({<<>>}) /\ [e EXCEPT !.pending = FALSE].media = e.media
            /\ [e EXCEPT !.pending = FALSE].frames = e.frames
        BY <4>2 DEF GenOf
      <4> QED
        BY <4>2, <4>3 DEF e
    <3> HIDE DEF applied
    <3>3. minimum \in GenOf({<<>>}) /\ minimum.media = g.media /\ minimum.frames = g.frames
      <4>1. MinFor(CurrentParams(applied).rate) \in Nat
        BY FlexfecAssumption DEF MinFor
      <4> QED
        BY <3>2, <4>1 DEF GenOf
    <3> HIDE DEF minimum
    <3>4. keyed \in GenOf({<<>>}) /\ keyed.media = g.media /\ keyed.frames = g.frames
      BY <3>3 DEF GenOf
    <3> HIDE DEF keyed
    <3>5. CurrentParams(keyed) \in Params
      BY <3>4, CurrentIs
    <3> DEFINE e == [keyed EXCEPT !.params = CurrentParams(keyed)]
    <3>6. e \in GenOf({<<>>}) /\ e.media = g.media /\ e.frames = g.frames /\ e.params = CurrentParams(keyed)
          /\ e.current = keyed.current /\ e.key = keyed.key
      BY <3>4, <3>5 DEF GenOf
    <3> HIDE DEF e
    <3>7. CurrentParams(e) = CurrentParams(keyed)
      BY <3>6 DEF CurrentParams
    <3>8. b = e
      BY <3>1 DEF e
    <3> QED
      BY <2>2, <3>6, <3>7, <3>8
  <2> QED
    BY <2>1, <2>2
<1> HIDE DEF b
<1>2. Framed(Stored(b, seq, id), marker) = h
  <2>1. Grown(b, seq, id) = m /\ Counted(b, marker) = Counted(g, marker)
    BY <1>1 DEF Grown, Counted
  <2> QED
    BY <1>1, <2>1, StoredIs
<1>3. m \in GroupSeq /\ Counted(g, marker) \in Nat /\ <<>> \in {<<>>}
  <2>1. g.media \in GroupSeq /\ g.frames \in Nat
    BY WithIs
  <2> QED
    BY <2>1, GrownIs DEF Counted
<1>4. /\ h \in GenOf({<<>>}) /\ h.media = m /\ h.frames = Counted(g, marker) /\ h.params = b.params
      /\ h.generated = <<>> /\ h.current = b.current /\ h.key = b.key
  <2> HIDE DEF m
  <2> QED
    BY <1>1, <1>3, WithType
<1> HIDE DEF h
<1>5. now = h.params
  BY <1>1, <1>4 DEF CurrentParams
<1>6. a = IF ~due THEN h ELSE IF fec = <<>> THEN ResetGenerator85(h) ELSE [h EXCEPT !.generated = fec]
  <2>1. a = Generated85(h, marker)
    BY <1>2 DEF AddPacketAndGenerateFec, b
  <2>2. EncodeFec85(h.media, now.rate, now.maskType) = fec
    BY <1>5, SameEncoding DEF FecOfGroup
  <2> HIDE DEF fec, now
  <2> QED
    BY <2>1, <2>2 DEF Generated85, now
<1>7. ResetGenerator85(h) = With(h, <<>>, 0, <<>>)
  BY <1>4, ResetIs
<1>8. [h EXCEPT !.generated = fec] = With(h, h.media, h.frames, fec)
  <2>1. h = With(h, h.media, h.frames, h.generated)
    BY <1>4, WithIs
  <2>2. [With(h, h.media, h.frames, h.generated) EXCEPT !.generated = fec] = With(h, h.media, h.frames, fec)
    BY <1>4, WithIs
  <2> QED
    BY <2>1, <2>2
<1>9. marker /\ ~due => h.frames # h.params.frames
  BY <1>5
<1>10. due \in BOOLEAN
  OBVIOUS
<1>11. g.media # <<>> => h.params = g.params
  BY <1>1, <1>4
<1> HIDE DEF due, a, now
<1>12. a = IF ~due THEN h ELSE IF fec = <<>> THEN With(h, <<>>, 0, <<>>) ELSE With(h, h.media, h.frames, fec)
  BY <1>6, <1>7, <1>8
<1>13. AddsTo(g, a, seq, id, marker) /\ a.current = h.current /\ a.key = h.key /\ a.params = h.params
  BY <1>4, <1>9, <1>10, <1>11, <1>12, MadeIs DEF m
<1>14. CurrentParams(a) = CurrentParams(h)
  BY <1>13 DEF CurrentParams
<1> QED
  BY <1>5, <1>13, <1>14 DEF a, now

-----------------------------------------------------------------------------
(* The stream grows.                                                       *)

\* The next number moves on by k.
LEMMA Advance ==
  ASSUME NEW next \in Numbers, NEW s \in Numbers, NEW k \in Nat, Behind(next, s) + k < SeqSpace
  PROVE  /\ (next + k) % SeqSpace \in Numbers
         /\ Behind((next + k) % SeqSpace, s) = Behind(next, s) + k
<1>1. /\ next \in Nat /\ next < SeqSpace /\ s \in Nat /\ s < SeqSpace /\ SeqSpace \in Nat \ {0}
      /\ Numbers = 0 .. SeqSpace - 1
  BY SpaceIs DEF Numbers
<1>2. Behind(next, s) = (IF s <= next THEN next - s ELSE next - s + SeqSpace) /\ Behind(next, s) \in Nat
  BY <1>1, BehindIs
<1> DEFINE x == next + k
           y == x % SeqSpace
<1>3. x \in Int /\ -SeqSpace <= x /\ x < SeqSpace + SeqSpace /\ x = next + k
  BY <1>1, <1>2
<1> HIDE DEF x
<1>4. y = IF x < 0 THEN x + SeqSpace ELSE IF x < SeqSpace THEN x ELSE x - SeqSpace
  BY <1>1, <1>3, NearRemainder
<1> HIDE DEF y
<1>5. y \in Numbers
  BY <1>1, <1>3, <1>4
<1>6. Behind(y, s) = IF s <= y THEN y - s ELSE y - s + SeqSpace
  BY <1>5, BehindIs
<1>7. Behind(y, s) = Behind(next, s) + k
  BY <1>1, <1>2, <1>3, <1>4, <1>6
<1> QED
  BY <1>5, <1>7 DEF x, y

\* The number after a number in the sequence.
LEMMA NextNumber ==
  ASSUME NEW x \in Nat
  PROVE  /\ x % SeqSpace \in Numbers
         /\ (x + 1) % SeqSpace = ((x % SeqSpace) + 1) % SeqSpace
<1>1. SeqSpace \in Nat \ {0} /\ x \in Int
  BY SpaceIs
<1>2. PICK q \in Int, r \in 0 .. SeqSpace - 1 : x = SeqSpace * q + r /\ x % SeqSpace = r
  BY <1>1, Remainder
<1>3. x + 1 = (r + 1) + SeqSpace * q /\ x + 1 \in Int /\ r + 1 \in Int
  BY <1>1, <1>2
<1>4. (x + 1) % SeqSpace = (r + 1) % SeqSpace
  BY <1>1, <1>3, SameRemainder
<1> QED
  BY <1>2, <1>4 DEF Numbers

\* How far the numbers of the FEC packets of a group are behind.
LEMMA FecBehind ==
  ASSUME NEW first \in Numbers, NEW n \in Nat, NEW i \in 1 .. n, n < SeqSpace
  PROVE  /\ (first + i - 1) % SeqSpace \in Numbers
         /\ Behind((first + n) % SeqSpace, (first + i - 1) % SeqSpace) = n - i + 1
<1> DEFINE a == first + n
           b == first + i - 1
           x == n - i + 1
<1>1. SeqSpace \in Nat \ {0} /\ a \in Int /\ b \in Int /\ a - b = x /\ x \in Int /\ 0 <= x /\ x < SeqSpace
  BY SpaceIs DEF Numbers
<1> HIDE DEF a, b, x
<1>2. PICK q \in Int, r \in 0 .. SeqSpace - 1 : b % SeqSpace = r
  BY <1>1, Remainder
<1>3. ((a % SeqSpace) - (b % SeqSpace)) % SeqSpace = (a - b) % SeqSpace
  BY <1>1, RemainderOfDifference
<1>4. x % SeqSpace = x
  BY <1>1, NearRemainder
<1>5. b % SeqSpace \in Numbers /\ Behind(a % SeqSpace, b % SeqSpace) = x
  BY <1>1, <1>2, <1>3, <1>4 DEF Behind, Numbers
<1> QED
  BY <1>5 DEF a, b, x

\* The stream e continues the stream c.
Continues(c, e) ==
  /\ StreamOK(c) /\ StreamOK(e)
  /\ Len(c.sent) <= Len(e.sent) /\ \A id \in 1 .. Len(c.sent) : e.sent[id] = c.sent[id]
  /\ \A s \in Numbers : Behind(c.fec, s) <= c.age => Behind(e.fec, s) <= e.age

\* What the receiver hands on.
HandedOf(c) ==
  {h \in [seq : Numbers, data : SUBSET Nat, how : {"received", "recovered"}] :
     IsSent(c, h.seq, h.data) /\ (h.how = "recovered" => h.data \cap BigIds = {})}

\* What was true of the stream stays so.
LEMMA StreamGrows ==
  ASSUME NEW c, NEW e, Continues(c, e)
  PROVE  /\ \A seq, data : IsSent(c, seq, data) => IsSent(e, seq, data)
         /\ MediaOf(c) \subseteq MediaOf(e) /\ FecOf(c) \subseteq FecOf(e)
         /\ PacketOf(c) \subseteq PacketOf(e) /\ HandedOf(c) \subseteq HandedOf(e)
         /\ \A d : DecOK(d, c) => DecOK(d, e)
         /\ \A media : GroupOK(media, c) => GroupOK(media, e)
<1>1. /\ Len(c.sent) \in Nat /\ Len(e.sent) \in Nat /\ Len(c.sent) <= Len(e.sent)
      /\ \A id \in 1 .. Len(c.sent) : e.sent[id] = c.sent[id]
      /\ \A s \in Numbers : Behind(c.fec, s) <= c.age => Behind(e.fec, s) <= e.age
  BY DEF Continues, StreamOK
<1>2. 1 .. Len(c.sent) \subseteq 1 .. Len(e.sent)
  BY <1>1
<1>3. \A seq, data : IsSent(c, seq, data) => IsSent(e, seq, data)
  BY <1>1, <1>2 DEF IsSent
<1>4. \A data, protects : Protects(c, data, protects) => Protects(e, data, protects)
  <2> SUFFICES ASSUME NEW data, data \subseteq 1 .. Len(c.sent)
               PROVE  data \subseteq 1 .. Len(e.sent) /\ {c.sent[id] : id \in data} = {e.sent[id] : id \in data}
    BY DEF Protects
  <2> QED
    BY <1>1, <1>2
<1>5. MediaOf(c) \subseteq MediaOf(e)
  BY <1>3 DEF MediaOf
<1>6. FecOf(c) \subseteq FecOf(e)
  BY <1>1, <1>3, <1>4 DEF FecOf
<1>7. PacketOf(c) \subseteq PacketOf(e)
  BY <1>1, <1>3, <1>4 DEF PacketOf, MediaPacketOf, FecPacketOf
<1>8. HandedOf(c) \subseteq HandedOf(e)
  BY <1>3 DEF HandedOf
<1>9. ASSUME NEW d, DecOK(d, c)
      PROVE  DecOK(d, e)
  <2>1. d \in [recovered : Seq(MediaOf(c)), fecs : Seq(FecOf(c))]
    BY <1>9 DEF DecOK, DecSound
  <2>2. d \in [recovered : Seq(MediaOf(e)), fecs : Seq(FecOf(e))]
    BY <1>5, <1>6, <2>1
  <2> QED
    BY <1>9, <2>2 DEF DecOK, DecSound
<1>10. \A media : GroupOK(media, c) => GroupOK(media, e)
  BY <1>1, <1>2 DEF GroupOK
<1> QED
  BY <1>3, <1>5, <1>6, <1>7, <1>8, <1>9, <1>10

-----------------------------------------------------------------------------
(* The invariant, and the steps of the sender.                             *)

\* The stream so far.  A group sends at most one FEC packet for each of its
\* packets, so that the packets of the open group are still owed as many numbers.
Stream ==
  [sent |-> sent, media |-> nextSeqs.media,
   fec |-> IF mode.red THEN nextSeqs.media ELSE nextSeqs.fec,
   age |-> 2 * Len(sent) - Len(gen.media)]

\* A group that has room ends with the packet sent last.
GroupEnds ==
  gen.media # <<>> /\ Len(gen.media) < MaxMediaPackets =>
    /\ gen.media[1].id + Len(gen.media) = Len(sent) + 1
    /\ (gen.media[1].seq + Len(gen.media)) % SeqSpace = nextSeqs.media

SenderOK ==
  /\ mode \in Modes /\ gen \in GenOf({<<>>})
  /\ nextSeqs \in [media : Numbers, fec : Numbers]
  /\ Len(sent) <= mode.maxIds /\ Len(gen.media) <= MaxMediaPackets
  /\ mode.rtc85 /\ gen.media # <<>> => gen.params = CurrentParams(gen)
  /\ StreamOK(Stream) /\ GroupOK(gen.media, Stream) /\ GroupEnds
ReceiverOK ==
  /\ net \subseteq PacketOf(Stream)
  /\ queue \in Seq([packet : PacketOf(Stream), recovered : BOOLEAN])
  /\ DecOK(dec, Stream)
  /\ out \in Seq(HandedOf(Stream))
TransportInv == SenderOK /\ ReceiverOK

\* Where the theorems apply: no stream is so long that its numbers and those of
\* its FEC packets span half the space, and where the receiver of M85 takes the
\* RED header for a mask, what it reads is too long to be a packet.
ShortStreams ==
  /\ \A m \in Modes : 2 * m.maxIds < Half
  /\ (\E m \in Modes : m.red /\ m.rtc85 /\ m.whole) => 0 \in BigIds

\* The fields of a mode.
LEMMA ModeIs ==
  ASSUME NEW m \in Modes
  PROVE  /\ m.red \in BOOLEAN /\ m.oneSsrc \in BOOLEAN /\ m.rtc85 \in BOOLEAN /\ m.eager \in BOOLEAN
         /\ m.whole \in BOOLEAN /\ m.maxIds \in Nat /\ m.maxCopies \in Nat /\ m.anew \in Nat
<1>1. m \in [red : BOOLEAN, oneSsrc : BOOLEAN, rtc85 : BOOLEAN, eager : BOOLEAN,
             whole : BOOLEAN, maxIds : Nat, maxCopies : Nat, anew : Nat]
  BY FlexfecAssumption
<1> QED
  BY <1>1

\* FEC packets are taken from the generator.
LEMMA TakenIs ==
  ASSUME mode \in Modes, NEW F, NEW a \in GenOf(F)
  PROVE  \/ Taken(a) = With(a, <<>>, 0, <<>>)
         \/ Taken(a) = a /\ a.generated = <<>> /\ mode.rtc85
<1>1. mode.red \in BOOLEAN /\ mode.rtc85 \in BOOLEAN
  BY ModeIs
<1>2. ResetGenerator(a) = With(a, <<>>, 0, <<>>) /\ ResetGenerator85(a) = With(a, <<>>, 0, <<>>)
  BY ResetIs
<1>3. CASE mode.rtc85
  <2>1. Taken(a) = IF a.generated = <<>> THEN a ELSE ResetGenerator85(a)
    BY <1>1, <1>3 DEF Taken, GetUlpfecPackets85, GetFecPackets85
  <2> QED
    BY <1>2, <1>3, <2>1
<1>4. CASE ~mode.rtc85
  <2>1. Taken(a) = ResetGenerator(a)
    BY <1>1, <1>4 DEF Taken, GetUlpfecPacketsAsRed, GetFecPackets
  <2> QED
    BY <1>2, <2>1
<1> QED
  BY <1>1, <1>3, <1>4

\* The group with the next packet is a group of the longer stream.
LEMMA GroupGrows ==
  ASSUME SenderOK, NEW e, e.sent = Append(sent, nextSeqs.media), Len(sent) + 1 < SeqSpace,
         NEW m, m = Grown(gen, nextSeqs.media, Len(sent) + 1)
  PROVE  /\ GroupOK(m, e) /\ m # <<>>
         /\ Len(gen.media) <= Len(sent)
         /\ Len(m) < MaxMediaPackets =>
              /\ m[1].id + Len(m) = Len(sent) + 2
              /\ (m[1].seq + Len(m)) % SeqSpace = (nextSeqs.media + 1) % SeqSpace
<1> DEFINE g == gen.media
           L == Len(sent)
           n == Len(g)
           next == nextSeqs.media
           x == [seq |-> next, id |-> L + 1]
<1>1. /\ g \in GroupSeq /\ next \in Numbers /\ next \in Nat /\ sent \in Seq(Numbers) /\ L \in Nat
      /\ SeqSpace \in Nat \ {0} /\ MaxMediaPackets \in Nat \ {0} /\ n \in Nat /\ n <= MaxMediaPackets
  <2>1. g \in GroupSeq /\ next \in Numbers /\ n <= MaxMediaPackets
    BY DEF SenderOK, GenOf
  <2>2. sent \in Seq(Numbers)
    BY DEF SenderOK, StreamOK, Stream
  <2>3. n \in Nat
    BY <2>1 DEF GroupSeq
  <2>4. L \in Nat
    BY <2>2
  <2> HIDE DEF g, L, n, next
  <2> QED
    BY <2>1, <2>2, <2>3, <2>4, SpaceIs
<1>2. Len(e.sent) = L + 1 /\ e.sent[L + 1] = next /\ \A id \in 1 .. L : e.sent[id] = sent[id]
  BY <1>1
<1>3. \A k \in 1 .. n : /\ g[k].id \in 1 .. L /\ g[k].id = g[1].id + k - 1
                        /\ g[k].seq = sent[g[k].id] /\ g[k].seq = (g[1].seq + k - 1) % SeqSpace
  BY DEF SenderOK, GroupOK, Stream
<1>4. n < SeqSpace
  BY DEF SenderOK, GroupOK
<1>5. \A k \in 1 .. n : g[k].seq \in Numbers /\ g[k].id \in Nat /\ g[1].seq \in Nat /\ g[1].id \in Nat
  BY GroupIs DEF SenderOK
<1>6. n <= L
  <2>1. CASE n = 0
    BY <1>1, <2>1
  <2>2. CASE n # 0
    <3>1. n \in 1 .. n /\ 1 \in 1 .. n
      BY <1>1, <2>2
    <3>2. g[n].id \in 1 .. L /\ g[n].id = g[1].id + n - 1 /\ g[1].id \in 1 .. L
      BY <1>3, <3>1
    <3> HIDE DEF g, L, n
    <3> QED
      BY <1>1, <3>2
  <2> QED
    BY <2>1, <2>2
<1> HIDE DEF g, L, n, next
<1>7. CASE ~(n < MaxMediaPackets)
  <2>1. m = g /\ g # <<>> /\ ~(Len(m) < MaxMediaPackets)
    BY <1>1, <1>7 DEF Grown, g, n
  <2>2. GroupOK(g, e)
    <3>1. \A k \in 1 .. n : g[k].id \in 1 .. Len(e.sent) /\ e.sent[g[k].id] = sent[g[k].id]
      BY <1>1, <1>2, <1>3
    <3> QED
      BY <1>1, <1>3, <1>4, <3>1 DEF GroupOK, n
  <2> QED
    BY <1>6, <2>1, <2>2 DEF g, n, L
<1>8. CASE n < MaxMediaPackets
  <2>1. m = Append(g, x)
    BY <1>8 DEF Grown, g, n, next, L
  <2>2. x \in [seq : Numbers, id : Nat] /\ x.seq = next /\ x.id = L + 1
    BY <1>1
  <2> HIDE DEF x
  <2>3. /\ m \in GroupSeq /\ Len(m) = n + 1 /\ m[n + 1] = x /\ \A k \in 1 .. n : m[k] = g[k]
    <3> DEFINE T == [seq : Numbers, id : Nat]
    <3>1. g \in Seq(T) /\ x \in T /\ n = Len(g)
      BY <1>1, <2>2 DEF GroupSeq, n
    <3> HIDE DEF T
    <3>2. m \in Seq(T) /\ Len(m) = n + 1 /\ m[n + 1] = x /\ \A k \in 1 .. n : m[k] = g[k]
      BY ONLY <2>1, <3>1
    <3> QED
      BY <3>2 DEF T, GroupSeq
  <2> DEFINE first == m[1]
  <2>4. first.seq \in Nat /\ first.id \in Nat /\ first.id + n = L + 1 /\ (first.seq + n) % SeqSpace = next
    <3>1. CASE n = 0
      <4>1. first = x
        BY <2>3, <3>1
      <4>2. next % SeqSpace = next
        <5>1. next \in Int /\ -SeqSpace <= next /\ next < SeqSpace + SeqSpace /\ 0 <= next /\ next < SeqSpace
          BY <1>1 DEF Numbers
        <5> QED
          BY <1>1, <5>1, NearRemainder
      <4>3. next + 0 = next /\ L + 1 + 0 = L + 1
        BY <1>1
      <4> QED
        BY <1>1, <2>2, <3>1, <4>1, <4>2, <4>3
    <3>2. CASE n # 0
      <4>1. 1 \in 1 .. n /\ g # <<>>
        BY <1>1, <3>2 DEF n
      <4>2. first = g[1] /\ first.seq \in Nat /\ first.id \in Nat
        BY <1>5, <2>3, <4>1
      <4> QED
        BY <1>8, <4>1, <4>2 DEF SenderOK, GroupEnds, g, n, L, next
    <3> QED
      BY <3>1, <3>2
  <2> DEFINE a == first.seq
             b == first.id
  <2>40. a \in Nat /\ b \in Nat /\ b + n = L + 1 /\ (a + n) % SeqSpace = next
    BY <2>4
  <2> HIDE DEF a, b
  <2>5. ASSUME NEW k \in 1 .. n + 1
        PROVE  /\ m[k].id \in 1 .. L + 1 /\ m[k].id = b + k - 1
               /\ m[k].seq = e.sent[m[k].id] /\ m[k].seq = (a + k - 1) % SeqSpace
    <3>1. CASE k = n + 1
      <4>1. m[k].id = L + 1 /\ m[k].seq = next
        BY <2>2, <2>3, <3>1
      <4>2. L + 1 = b + k - 1 /\ a + k - 1 = a + n /\ L + 1 \in 1 .. L + 1
        BY <1>1, <2>40, <3>1
      <4> QED
        BY <1>2, <2>40, <4>1, <4>2
    <3>2. CASE k # n + 1
      <4>1. k \in 1 .. n /\ 1 \in 1 .. n
        BY <1>1, <3>2
      <4>2. m[k] = g[k] /\ a = g[1].seq /\ b = g[1].id
        BY <2>3, <4>1 DEF a, b
      <4>3. /\ g[k].id \in 1 .. L /\ g[k].id = g[1].id + k - 1
            /\ g[k].seq = sent[g[k].id] /\ g[k].seq = (g[1].seq + k - 1) % SeqSpace
        BY <1>3, <4>1
      <4>4. e.sent[g[k].id] = sent[g[k].id] /\ g[k].id \in 1 .. L + 1
        <5> DEFINE id == g[k].id
        <5>1. id \in 1 .. L
          BY <4>3
        <5> HIDE DEF id
        <5>2. id \in 1 .. L + 1 /\ e.sent[id] = sent[id]
          BY <1>1, <1>2, <5>1
        <5> QED
          BY <5>2 DEF id
      <4> QED
        BY <4>2, <4>3, <4>4
    <3> QED
      BY <3>1, <3>2
  <2>6. Len(m) < SeqSpace
    BY <1>1, <1>6, <2>3 DEF L
  <2>7. GroupOK(m, e)
    BY <1>2, <2>3, <2>5, <2>6 DEF GroupOK, a, b
  <2>8. m[1].id + Len(m) = L + 2
    <3>1. b + (n + 1) = L + 2
      BY <1>1, <2>40
    <3> QED
      BY <2>3, <3>1 DEF b
  <2>9. (m[1].seq + Len(m)) % SeqSpace = (next + 1) % SeqSpace
    <3> DEFINE y == a + n
    <3>1. y \in Nat /\ y % SeqSpace = next /\ a + (n + 1) = y + 1
      BY <1>1, <2>40
    <3> HIDE DEF y
    <3>2. (y + 1) % SeqSpace = (next + 1) % SeqSpace
      BY <3>1, NextNumber
    <3> QED
      BY <2>3, <3>1, <3>2 DEF a
  <2>10. m # <<>>
    BY <1>1, <2>3
  <2> QED
    BY <1>6, <2>7, <2>8, <2>9, <2>10 DEF g, n, L, next
<1> QED
  BY <1>7, <1>8

\* The generator after a media packet was added.
Added(marker, isKey) ==
  IF mode.rtc85 THEN AddPacketAndGenerateFec(gen, nextSeqs.media, Len(sent) + 1, marker, isKey)
  ELSE AddRtpPacketAndGenerateFec(gen, nextSeqs.media, Len(sent) + 1, marker)
NextGroup == Grown(gen, nextSeqs.media, Len(sent) + 1)

\* A media packet is sent: the generator.
LEMMA SendIs ==
  ASSUME SenderOK, ShortStreams, NEW marker \in BOOLEAN, NEW isKey \in BOOLEAN, SendMedia(marker, isKey),
         NEW a, a = Added(marker, isKey)
  PROVE  /\ sent' = Append(sent, nextSeqs.media) /\ Len(sent') = Len(sent) + 1 /\ Len(sent) \in Nat
         /\ 2 * Len(sent') < Half /\ Len(sent') <= mode.maxIds /\ mode' = mode
         /\ GroupOK(NextGroup, Stream') /\ NextGroup # <<>> /\ Len(NextGroup) \in Nat /\ Len(gen.media) \in Nat
         /\ Len(gen.media) <= Len(sent)
         /\ Len(NextGroup) <= Len(gen.media) + 1 /\ Len(NextGroup) <= MaxMediaPackets
         /\ Len(NextGroup) < MaxMediaPackets =>
              /\ NextGroup[1].id + Len(NextGroup) = Len(sent') + 1
              /\ (NextGroup[1].seq + Len(NextGroup)) % SeqSpace = (nextSeqs.media + 1) % SeqSpace
         /\ AddsTo(gen, a, nextSeqs.media, Len(sent) + 1, marker)
         /\ a.generated \in Seq([base : Numbers, mask : SUBSET Nat, data : SUBSET Nat])
         /\ Len(a.generated) <= Len(NextGroup)
         /\ \A i \in 1 .. Len(a.generated) : Protects(Stream', a.generated[i].data, Covers(a.generated[i]))
         /\ gen' \in GenOf({<<>>}) /\ gen'.params = a.params
         /\ mode.rtc85 => gen'.params = CurrentParams(gen')
         /\ \/ gen'.media = <<>>
            \/ gen' = a /\ gen'.media = NextGroup /\ a.generated = <<>>
<1>1. /\ mode \in Modes /\ gen \in GenOf({<<>>}) /\ nextSeqs \in [media : Numbers, fec : Numbers]
      /\ Len(gen.media) <= MaxMediaPackets
      /\ mode.rtc85 /\ gen.media # <<>> => gen.params = CurrentParams(gen)
  BY DEF SenderOK
<1>2. sent \in Seq(Numbers) /\ Len(sent) \in Nat
  <2>1. sent \in Seq(Numbers)
    BY DEF SenderOK, StreamOK, Stream
  <2> QED
    BY <2>1
<1>3. /\ sent' = Append(sent, nextSeqs.media) /\ Len(sent) < mode.maxIds /\ mode' = mode
      /\ gen' = IF mode.eager \/ a.generated # <<>> THEN Taken(a) ELSE a
  BY DEF SendMedia, Added
<1>4. /\ Len(sent') = Len(sent) + 1 /\ 2 * Len(sent') < Half /\ Len(sent') <= mode.maxIds
      /\ Len(sent) + 1 < SeqSpace
  <2>1. nextSeqs.media \in Numbers
    BY <1>1
  <2>2. Len(sent') = Len(sent) + 1
    BY <1>2, <1>3, <2>1
  <2>3. mode.maxIds \in Nat /\ 2 * mode.maxIds < Half
    BY <1>1, ModeIs DEF ShortStreams
  <2> QED
    BY <1>2, <1>3, <2>2, <2>3, SpaceIs
<1>5. Stream'.sent = Append(sent, nextSeqs.media)
  BY <1>3 DEF Stream
<1> DEFINE m == NextGroup
           id == Len(sent) + 1
           next == nextSeqs.media
           fec == FecOfGroup(m, a.params)
<1>6. /\ GroupOK(m, Stream') /\ m # <<>> /\ Len(gen.media) <= Len(sent)
      /\ Len(m) < MaxMediaPackets =>
           /\ m[1].id + Len(m) = Len(sent) + 2
           /\ (m[1].seq + Len(m)) % SeqSpace = (nextSeqs.media + 1) % SeqSpace
  BY <1>4, <1>5, GroupGrows DEF NextGroup
<1>7. /\ m \in GroupSeq /\ Len(m) <= MaxMediaPackets /\ Len(m) \in {Len(gen.media), Len(gen.media) + 1}
      /\ Len(m) \in Nat /\ Len(gen.media) \in Nat
  <2>1. next \in Numbers /\ id \in Nat /\ gen.media \in GroupSeq
    BY <1>1, <1>2, WithIs
  <2>2. /\ m \in GroupSeq /\ Len(m) <= MaxMediaPackets /\ Len(m) \in {Len(gen.media), Len(gen.media) + 1}
    BY <1>1, <2>1, GrownIs DEF NextGroup
  <2> QED
    BY <2>1, <2>2 DEF GroupSeq
<1>8. AddsTo(gen, a, next, id, marker) /\ (mode.rtc85 => a.params = CurrentParams(a))
  <2>1. next \in Numbers /\ id \in Nat
    BY <1>1, <1>2
  <2> HIDE DEF next, id
  <2>2. CASE mode.rtc85
    <3>1. a = AddPacketAndGenerateFec(gen, next, id, marker, isKey)
      BY <2>2 DEF Added, next, id
    <3> QED
      BY <1>1, <2>1, <2>2, <3>1, Add85Is
  <2>3. CASE ~mode.rtc85
    <3>1. a = AddRtpPacketAndGenerateFec(gen, next, id, marker)
      BY <2>3 DEF Added, next, id
    <3> QED
      BY <1>1, <2>1, <2>3, <3>1, AddIs
  <2> QED
    BY <2>2, <2>3
<1>9. /\ a \in GenOf({<<>>, fec})
      /\ \/ a.generated = <<>> /\ a.media = m
         \/ a.generated = <<>> /\ a.media = <<>>
         \/ a.generated = fec /\ a.media = m
  BY <1>8 DEF AddsTo, NextGroup
<1> HIDE DEF m, id, next
<1>10. /\ fec \in Seq([base : Numbers, mask : SUBSET Nat, data : SUBSET Nat]) /\ Len(fec) <= Len(m)
       /\ \A i \in 1 .. Len(fec) : Protects(Stream', fec[i].data, Covers(fec[i]))
  <2>1. a.params \in Params
    BY <1>9, WithIs
  <2>2. a.params.rate \in 0 .. 255
    BY <2>1, ParamsAre
  <2> DEFINE e == Stream'
  <2>3. GroupOK(m, e)
    BY <1>6
  <2> HIDE DEF e
  <2>4. /\ fec \in Seq([base : Numbers, mask : SUBSET Nat, data : SUBSET Nat]) /\ Len(fec) <= Len(m)
        /\ \A i \in 1 .. Len(fec) : Protects(e, fec[i].data, Covers(fec[i]))
    BY <1>6, <2>2, <2>3, EncodeIs DEF FecOfGroup
  <2> QED
    BY <2>4 DEF e
<1> HIDE DEF fec
<1>11. /\ a.generated \in Seq([base : Numbers, mask : SUBSET Nat, data : SUBSET Nat])
       /\ Len(a.generated) <= Len(m)
       /\ \A i \in 1 .. Len(a.generated) : Protects(Stream', a.generated[i].data, Covers(a.generated[i]))
  <2>1. CASE a.generated = fec
    BY <1>10, <2>1
  <2>2. CASE a.generated = <<>>
    <3>1. Len(a.generated) = 0 /\ a.generated \in Seq([base : Numbers, mask : SUBSET Nat, data : SUBSET Nat])
      BY <2>2
    <3> QED
      BY <1>7, <3>1
  <2> QED
    BY <1>9, <2>1, <2>2
<1>12. CASE gen' = With(a, <<>>, 0, <<>>)
  <2>1. <<>> \in GroupSeq /\ 0 \in Nat /\ <<>> \in {<<>>}
    BY DEF GroupSeq
  <2>2. /\ gen' \in GenOf({<<>>}) /\ gen'.media = <<>> /\ gen'.params = a.params
        /\ gen'.current = a.current /\ gen'.key = a.key
    BY <1>9, <1>12, <2>1, WithType
  <2>3. CurrentParams(a) = CurrentParams(gen')
    BY <2>2 DEF CurrentParams
  <2> QED
    BY <1>2, <1>3, <1>4, <1>6, <1>7, <1>8, <1>11, <2>2, <2>3 DEF m, next, id
<1>13. CASE gen' = a /\ a.generated = <<>>
  <2>1. a = With(a, a.media, a.frames, <<>>) /\ a.media \in GroupSeq /\ a.frames \in Nat
    BY <1>9, <1>13, WithIs
  <2>2. a \in GenOf({<<>>})
    <3>1. <<>> \in {<<>>}
      OBVIOUS
    <3> QED
      BY <1>9, <2>1, <3>1, WithType
  <2>3. CurrentParams(a) = CurrentParams(gen')
    BY <1>13
  <2>4. a.media = m \/ a.media = <<>>
    BY <1>9
  <2> QED
    BY <1>2, <1>3, <1>4, <1>6, <1>7, <1>8, <1>11, <1>13, <2>2, <2>3, <2>4 DEF m, next, id
<1> QED
  BY <1>1, <1>3, <1>9, <1>12, <1>13, TakenIs

\* A media packet is sent: the stream goes on.
LEMMA SendContinues ==
  ASSUME SenderOK, ShortStreams, NEW marker \in BOOLEAN, NEW isKey \in BOOLEAN, SendMedia(marker, isKey)
  PROVE  /\ Continues(Stream, Stream') /\ nextSeqs' \in [media : Numbers, fec : Numbers]
         /\ Len(Added(marker, isKey).generated) = 0 => nextSeqs'.media = (nextSeqs.media + 1) % SeqSpace
         /\ Len(Added(marker, isKey).generated) <= Stream'.age
         /\ LET first == IF mode.red THEN (nextSeqs.media + 1) % SeqSpace ELSE nextSeqs.fec
            IN  /\ Stream'.fec = (first + Len(Added(marker, isKey).generated)) % SeqSpace
                /\ first \in Numbers
<1> DEFINE a == Added(marker, isKey)
           n == Len(a.generated)
           L == Len(sent)
           M == nextSeqs.media
           next == (M + 1) % SeqSpace
           c == Stream
           e == Stream'
           first == IF mode.red THEN next ELSE nextSeqs.fec
           k == Len(NextGroup)
           j == Len(gen.media)
           jj == Len(gen'.media)
<1>1. /\ sent' = Append(sent, M) /\ Len(sent') = L + 1 /\ L \in Nat /\ 2 * (L + 1) < Half /\ mode' = mode
      /\ k \in Nat /\ j \in Nat /\ k <= j + 1 /\ n <= k /\ j <= L
  BY SendIs
<1>2. n \in Nat
  BY SendIs
<1>3. jj = 0 \/ (jj = k /\ n = 0)
  BY SendIs
<1>4. nextSeqs' = IF mode.red THEN [nextSeqs EXCEPT !.media = (next + n) % SeqSpace]
                  ELSE [media |-> next, fec |-> (nextSeqs.fec + n) % SeqSpace]
  BY DEF SendMedia, Added
<1>5. /\ nextSeqs \in [media : Numbers, fec : Numbers] /\ StreamOK(c) /\ mode.red \in BOOLEAN
      /\ M \in Numbers /\ nextSeqs.fec \in Numbers
  BY ModeIs DEF SenderOK
<1>6. /\ c.sent = sent /\ c.media = M /\ c.fec = (IF mode.red THEN M ELSE nextSeqs.fec) /\ c.age = 2 * L - j
      /\ e.sent = sent' /\ e.media = nextSeqs'.media /\ e.age = 2 * Len(sent') - jj
      /\ e.fec = IF mode.red THEN nextSeqs'.media ELSE nextSeqs'.fec
  BY <1>1 DEF Stream
<1>7. sent \in Seq(Numbers)
  BY <1>5, <1>6 DEF StreamOK
<1>8. /\ SeqSpace \in Nat \ {0} /\ Half \in Nat /\ SeqSpace = 2 * Half
  BY SpaceIs
<1> HIDE DEF a, n, L, M, c, e, k, j, jj
<1>9. c.age \in Nat /\ e.age \in 0 .. Half - 1 /\ c.age + 1 + n <= e.age
  <2>1. c.age = 2 * L - j /\ e.age = 2 * (L + 1) - jj
    BY <1>1, <1>6
  <2>2. k <= L + 1 /\ n <= L + 1
    BY <1>1, <1>2
  <2>3. CASE jj = 0
    BY <1>1, <1>2, <1>8, <2>1, <2>2, <2>3
  <2>4. CASE jj = k /\ n = 0
    BY <1>1, <1>2, <1>8, <2>1, <2>2, <2>4
  <2> QED
    BY <1>3, <2>3, <2>4
<1>10. \A x, y \in Numbers, i \in Nat :
         Behind(x, y) + i < SeqSpace => /\ (x + i) % SeqSpace \in Numbers
                                        /\ Behind((x + i) % SeqSpace, y) = Behind(x, y) + i
  BY Advance
<1>11. \A x, y \in Numbers : Behind(x, y) \in Nat
  BY BehindIs, SpaceIs
<1>12. Behind(M, M) = 0 /\ Behind(nextSeqs.fec, nextSeqs.fec) = 0
  <2>1. \A x \in Numbers : Behind(x, x) = 0
    BY BehindIs, SpaceIs
  <2> QED
    BY <1>5, <2>1
<1>13. /\ next \in Numbers
       /\ \A y \in Numbers : Behind(M, y) <= c.age => Behind(next, y) = Behind(M, y) + 1
  <2>1. 0 + 1 < SeqSpace /\ 1 \in Nat
    BY <1>8, <1>9
  <2>2. next \in Numbers
    BY <1>5, <1>10, <1>12, <2>1
  <2>3. ASSUME NEW y \in Numbers, Behind(M, y) <= c.age
        PROVE  Behind(next, y) = Behind(M, y) + 1
    <3>1. Behind(M, y) \in Nat /\ Behind(M, y) + 1 < SeqSpace
      BY <1>2, <1>5, <1>8, <1>9, <1>11, <2>3
    <3> QED
      BY <1>5, <1>10, <2>1, <3>1
  <2> QED
    BY <2>2, <2>3
<1> HIDE DEF next
<1>14. ASSUME NEW x \in Numbers
       PROVE  /\ (x + n) % SeqSpace \in Numbers
              /\ \A y \in Numbers : Behind(x, y) <= c.age + 1 => Behind((x + n) % SeqSpace, y) = Behind(x, y) + n
  <2>1. \A y \in Numbers : Behind(x, y) <= c.age + 1 =>
          (x + n) % SeqSpace \in Numbers /\ Behind((x + n) % SeqSpace, y) = Behind(x, y) + n
    <3> SUFFICES ASSUME NEW y \in Numbers, Behind(x, y) <= c.age + 1
                 PROVE  (x + n) % SeqSpace \in Numbers /\ Behind((x + n) % SeqSpace, y) = Behind(x, y) + n
      OBVIOUS
    <3>1. Behind(x, y) \in Nat /\ Behind(x, y) + n < SeqSpace
      <4>1. Behind(x, y) \in Nat
        BY <1>11
      <4> QED
        BY <1>2, <1>8, <1>9, <4>1
    <3> QED
      BY <1>2, <1>10, <3>1
  <2>2. Behind(x, x) = 0
    BY BehindIs, SpaceIs
  <2> QED
    BY <1>9, <2>1, <2>2
<1>15. /\ nextSeqs' \in [media : Numbers, fec : Numbers] /\ first \in Numbers
       /\ e.fec = (first + n) % SeqSpace
       /\ e.media = IF mode.red THEN (next + n) % SeqSpace ELSE next
  <2>1. CASE mode.red
    <3>1. nextSeqs' = [media |-> (next + n) % SeqSpace, fec |-> nextSeqs.fec]
      BY <1>4, <1>5, <2>1
    <3>2. (next + n) % SeqSpace \in Numbers
      BY <1>13, <1>14
    <3> QED
      BY <1>5, <1>6, <1>13, <2>1, <3>1, <3>2
  <2>2. CASE ~mode.red
    <3>1. nextSeqs' = [media |-> next, fec |-> (nextSeqs.fec + n) % SeqSpace]
      BY <1>4, <2>2
    <3>2. (nextSeqs.fec + n) % SeqSpace \in Numbers
      BY <1>5, <1>14
    <3> QED
      BY <1>5, <1>6, <1>13, <2>2, <3>1, <3>2
  <2> QED
    BY <2>1, <2>2
<1>16. \E d \in 1 .. n + 1 : \A y \in Numbers : Behind(M, y) <= c.age => Behind(e.media, y) = Behind(M, y) + d
  <2>1. CASE mode.red
    <3>1. e.media = (next + n) % SeqSpace
      BY <1>15, <2>1
    <3>2. ASSUME NEW y \in Numbers, Behind(M, y) <= c.age
          PROVE  Behind(e.media, y) = Behind(M, y) + (n + 1)
      <4>1. Behind(M, y) \in Nat /\ Behind(next, y) = Behind(M, y) + 1
        BY <1>5, <1>11, <1>13, <3>2
      <4>2. Behind(next, y) <= c.age + 1
        BY <1>9, <3>2, <4>1
      <4>3. Behind(e.media, y) = Behind(next, y) + n
        BY <1>13, <1>14, <3>1, <4>2
      <4> QED
        BY <1>2, <4>1, <4>3
    <3>3. n + 1 \in 1 .. n + 1
      BY <1>2
    <3> QED
      BY <3>2, <3>3
  <2>2. CASE ~mode.red
    <3>1. e.media = next /\ 1 \in 1 .. n + 1
      BY <1>2, <1>15, <2>2
    <3> QED
      BY <1>13, <3>1
  <2> QED
    BY <2>1, <2>2
<1>17. PICK d \in 1 .. n + 1 : \A y \in Numbers : Behind(M, y) <= c.age => Behind(e.media, y) = Behind(M, y) + d
  BY <1>16
<1>18. Len(e.sent) = L + 1 /\ e.sent[L + 1] = M /\ (\A i \in 1 .. L : e.sent[i] = sent[i]) /\ e.sent \in Seq(Numbers)
  <2>1. /\ e.sent = Append(sent, M) /\ L = Len(sent)
    BY <1>1, <1>6 DEF L
  <2> QED
    BY <1>5, <1>7, <2>1
<1>19. \A i \in 1 .. L : sent[i] \in Numbers /\ Behind(M, sent[i]) \in 1 .. c.age
  BY <1>5, <1>6, <1>7 DEF StreamOK, L
<1>20. \A i, q \in 1 .. L : i < q => Behind(M, sent[q]) < Behind(M, sent[i])
  BY <1>5, <1>6 DEF StreamOK, L
<1> DEFINE B(i) == IF i = L + 1 THEN 0 ELSE Behind(M, sent[i])
<1>21. \A i \in 1 .. L + 1 : /\ Behind(e.media, e.sent[i]) = B(i) + d
                             /\ B(i) \in 0 .. c.age /\ (i # L + 1 => B(i) > 0)
  <2> SUFFICES ASSUME NEW i \in 1 .. L + 1
               PROVE  Behind(e.media, e.sent[i]) = B(i) + d /\ B(i) \in 0 .. c.age /\ (i # L + 1 => B(i) > 0)
    OBVIOUS
  <2>1. CASE i = L + 1
    <3>1. Behind(e.media, M) = Behind(M, M) + d
      BY <1>5, <1>9, <1>12, <1>17
    <3> QED
      BY <1>9, <1>12, <1>18, <2>1, <3>1
  <2>2. CASE i # L + 1
    <3>1. i \in 1 .. L
      BY <1>1, <2>2
    <3>2. sent[i] \in Numbers /\ Behind(M, sent[i]) \in 1 .. c.age /\ e.sent[i] = sent[i]
      BY <1>18, <1>19, <3>1
    <3>3. Behind(e.media, sent[i]) = Behind(M, sent[i]) + d
      BY <1>9, <1>17, <3>2
    <3> QED
      BY <1>9, <2>2, <3>2, <3>3
  <2> QED
    BY <2>1, <2>2
<1>22. \A i, q \in 1 .. L + 1 : i < q => B(q) < B(i)
  <2> SUFFICES ASSUME NEW i \in 1 .. L + 1, NEW q \in 1 .. L + 1, i < q
               PROVE  B(q) < B(i)
    OBVIOUS
  <2>1. i # L + 1 /\ i \in 1 .. L
    BY <1>1
  <2>2. CASE q = L + 1
    BY <1>21, <2>1, <2>2
  <2>3. CASE q # L + 1
    <3>1. q \in 1 .. L
      BY <1>1, <2>3
    <3> QED
      BY <1>20, <2>1, <2>3, <3>1
  <2> QED
    BY <2>2, <2>3
<1> HIDE DEF B
<1>23. StreamOK(e)
  <2>1. \A i \in 1 .. Len(e.sent) : Behind(e.media, e.sent[i]) \in 1 .. e.age
    <3> SUFFICES ASSUME NEW i \in 1 .. L + 1
                 PROVE  Behind(e.media, e.sent[i]) \in 1 .. e.age
      BY <1>18
    <3>1. Behind(e.media, e.sent[i]) = B(i) + d /\ B(i) \in 0 .. c.age
      BY <1>21
    <3> QED
      BY <1>2, <1>9, <3>1
  <2>2. \A i, q \in 1 .. Len(e.sent) : i < q => Behind(e.media, e.sent[q]) < Behind(e.media, e.sent[i])
    <3> SUFFICES ASSUME NEW i \in 1 .. L + 1, NEW q \in 1 .. L + 1, i < q
                 PROVE  Behind(e.media, e.sent[q]) < Behind(e.media, e.sent[i])
      BY <1>18
    <3>1. /\ Behind(e.media, e.sent[i]) = B(i) + d /\ Behind(e.media, e.sent[q]) = B(q) + d
          /\ B(i) \in 0 .. c.age /\ B(q) \in 0 .. c.age /\ B(q) < B(i)
      BY <1>21, <1>22
    <3> QED
      BY <1>2, <1>9, <3>1
  <2>3. e.media \in Numbers /\ e.fec \in Numbers
    BY <1>6, <1>15
  <2> QED
    BY <1>9, <1>18, <2>1, <2>2, <2>3 DEF StreamOK
<1>24. ASSUME NEW s \in Numbers, Behind(c.fec, s) <= c.age
       PROVE  Behind(e.fec, s) <= e.age
  <2>1. CASE mode.red
    <3>1. c.fec = M /\ e.fec = e.media
      BY <1>6, <2>1
    <3>2. Behind(e.fec, s) = Behind(M, s) + d /\ Behind(M, s) \in Nat
      BY <1>5, <1>11, <1>17, <1>24, <3>1
    <3> QED
      BY <1>2, <1>9, <1>24, <3>1, <3>2
  <2>2. CASE ~mode.red
    <3>1. c.fec = nextSeqs.fec /\ e.fec = (nextSeqs.fec + n) % SeqSpace
      BY <1>6, <1>15, <2>2
    <3>2. Behind(nextSeqs.fec, s) \in Nat /\ Behind(nextSeqs.fec, s) <= c.age + 1
      BY <1>5, <1>9, <1>11, <1>24, <3>1
    <3>3. Behind(e.fec, s) = Behind(nextSeqs.fec, s) + n
      BY <1>5, <1>14, <3>1, <3>2
    <3> QED
      BY <1>2, <1>9, <1>24, <3>1, <3>2, <3>3
  <2> QED
    BY <2>1, <2>2
<1>25. Continues(c, e)
  <2>1. Len(c.sent) = L /\ L <= L + 1 /\ \A i \in 1 .. L : e.sent[i] = c.sent[i]
    BY <1>1, <1>6, <1>18 DEF L
  <2> QED
    BY <1>5, <1>18, <1>23, <1>24, <2>1 DEF Continues
<1>26. n = 0 => nextSeqs'.media = next
  <2>1. n = 0 => (next + n) % SeqSpace = next
    <3>1. next \in Int /\ 0 <= next /\ next < SeqSpace /\ next + 0 = next
      BY <1>8, <1>13 DEF Numbers
    <3>2. next % SeqSpace = next
      BY <1>8, <3>1, NearRemainder
    <3> QED
      BY <3>1, <3>2
  <2> QED
    BY <1>6, <1>15, <2>1
<1>27. n <= e.age
  BY <1>2, <1>9
<1> QED
  BY <1>15, <1>25, <1>26, <1>27 DEF a, n, M, c, e, next

\* An open group without packets is a group of any stream.
LEMMA EmptyGroup ==
  ASSUME NEW c
  PROVE  GroupOK(<<>>, c)
<1>1. <<>> \in GroupSeq /\ Len(<<>>) = 0
  BY DEF GroupSeq
<1> QED
  BY <1>1, SpaceIs DEF GroupOK

\* A media packet is sent: the sender.
LEMMA SenderSends ==
  ASSUME SenderOK, ShortStreams, NEW marker \in BOOLEAN, NEW isKey \in BOOLEAN, SendMedia(marker, isKey)
  PROVE  SenderOK'
<1> DEFINE a == Added(marker, isKey)
<1>1. /\ mode' \in Modes /\ gen' \in GenOf({<<>>}) /\ nextSeqs' \in [media : Numbers, fec : Numbers]
      /\ Len(sent') <= mode'.maxIds /\ (mode'.rtc85 => gen'.params = CurrentParams(gen'))
      /\ StreamOK(Stream')
  <2>1. /\ mode' = mode /\ gen' \in GenOf({<<>>}) /\ Len(sent') <= mode.maxIds
        /\ (mode.rtc85 => gen'.params = CurrentParams(gen'))
    BY SendIs
  <2>2. nextSeqs' \in [media : Numbers, fec : Numbers] /\ Continues(Stream, Stream')
    BY SendContinues
  <2>3. mode \in Modes
    BY DEF SenderOK
  <2> QED
    BY <2>1, <2>2, <2>3 DEF Continues
<1>2. CASE gen'.media = <<>>
  <2>1. Len(gen'.media) <= MaxMediaPackets
    BY <1>2, SpaceIs
  <2>2. GroupOK(gen'.media, Stream')
    BY <1>2, EmptyGroup
  <2>3. GroupEnds'
    BY <1>2 DEF GroupEnds
  <2> QED
    BY <1>1, <2>1, <2>2, <2>3 DEF SenderOK
<1>3. CASE gen' = a /\ gen'.media = NextGroup /\ a.generated = <<>>
  <2>1. /\ GroupOK(NextGroup, Stream') /\ Len(NextGroup) <= MaxMediaPackets
        /\ Len(NextGroup) < MaxMediaPackets =>
              /\ NextGroup[1].id + Len(NextGroup) = Len(sent') + 1
              /\ (NextGroup[1].seq + Len(NextGroup)) % SeqSpace = (nextSeqs.media + 1) % SeqSpace
    BY SendIs
  <2>2. nextSeqs'.media = (nextSeqs.media + 1) % SeqSpace
    <3>1. Len(a.generated) = 0
      BY <1>3
    <3> QED
      BY <3>1, SendContinues
  <2>3. GroupEnds'
    BY <1>3, <2>1, <2>2 DEF GroupEnds
  <2> QED
    BY <1>1, <1>3, <2>1, <2>3 DEF SenderOK
<1> QED
  BY <1>2, <1>3, SendIs

\* A media packet is sent: the packets on their way.
LEMMA SentPackets ==
  ASSUME SenderOK, ShortStreams, NEW marker \in BOOLEAN, NEW isKey \in BOOLEAN, SendMedia(marker, isKey),
         NEW p \in net' \ net
  PROVE  p \in PacketOf(Stream') /\ (p.isFec /\ ~mode.oneSsrc /\ ~mode.red => p.ssrc = "fec")
<1> DEFINE a == Added(marker, isKey)
           n == Len(a.generated)
           e == Stream'
           first == IF mode.red THEN (nextSeqs.media + 1) % SeqSpace ELSE nextSeqs.fec
           media == [isFec |-> FALSE, ssrc |-> "media", seq |-> nextSeqs.media, data |-> {Len(sent) + 1}]
<1>1. p \in FecPackets(a, first) \/ p = media
  <2>1. net' = net \cup FecPackets(a, first) \cup {media}
    BY DEF SendMedia, Added
  <2> QED
    BY <2>1
<1>2. CASE p = media
  <2>1. sent' = Append(sent, nextSeqs.media) /\ Len(sent') = Len(sent) + 1 /\ Len(sent) \in Nat
    BY SendIs
  <2>2. nextSeqs.media \in Numbers /\ sent \in Seq(Numbers)
    BY DEF SenderOK, StreamOK, Stream
  <2>3. e.sent = sent'
    BY DEF Stream
  <2>4. sent'[Len(sent) + 1] = nextSeqs.media /\ Len(sent) + 1 \in 1 .. Len(sent')
    BY <2>1, <2>2
  <2>5. IsSent(e, nextSeqs.media, {Len(sent) + 1})
    BY <2>3, <2>4 DEF IsSent
  <2>6. {Len(sent) + 1} \in SUBSET Nat
    BY <2>1
  <2> HIDE DEF e
  <2>7. media \in MediaPacketOf(e)
    BY <2>2, <2>5, <2>6 DEF MediaPacketOf
  <2> QED
    BY <1>2, <2>7 DEF PacketOf, e
<1>3. CASE p \in FecPackets(a, first)
  <2>1. PICK i \in 1 .. n : p = [isFec |-> TRUE, ssrc |-> IF mode.oneSsrc \/ mode.red THEN "media" ELSE "fec",
           seq |-> (first + i - 1) % SeqSpace, base |-> a.generated[i].base,
           mask |-> a.generated[i].mask, data |-> a.generated[i].data]
    BY <1>3 DEF FecPackets
  <2>2. /\ a.generated \in Seq([base : Numbers, mask : SUBSET Nat, data : SUBSET Nat])
        /\ \A j \in 1 .. n : Protects(e, a.generated[j].data, Covers(a.generated[j]))
    BY SendIs
  <2>3. e.fec = (first + n) % SeqSpace /\ first \in Numbers /\ n <= e.age /\ StreamOK(e)
    BY SendContinues DEF Continues
  <2> HIDE DEF e, first
  <2>4. n \in Nat /\ e.age \in 0 .. Half - 1
    BY <2>2, <2>3 DEF StreamOK
  <2>5. n < SeqSpace
    BY <2>3, <2>4, SpaceIs
  <2>6. (first + i - 1) % SeqSpace \in Numbers /\ Behind(e.fec, (first + i - 1) % SeqSpace) = n - i + 1
    BY <2>3, <2>4, <2>5, FecBehind
  <2>7. Behind(e.fec, (first + i - 1) % SeqSpace) <= e.age
    BY <2>3, <2>4, <2>6
  <2> DEFINE x == a.generated[i]
             s == (first + i - 1) % SeqSpace
             t == IF mode.oneSsrc \/ mode.red THEN "media" ELSE "fec"
  <2>8. x.base \in Numbers /\ x.mask \in SUBSET Nat /\ x.data \in SUBSET Nat /\ Protects(e, x.data, Covers(x))
    <3> DEFINE T == [base : Numbers, mask : SUBSET Nat, data : SUBSET Nat]
    <3>1. x \in T
      <4>1. a.generated \in Seq(T) /\ i \in 1 .. Len(a.generated)
        BY <2>2
      <4> HIDE DEF T, a
      <4> QED
        BY <4>1
    <3>2. Protects(e, x.data, Covers(x))
      BY <2>2
    <3> QED
      BY <3>1, <3>2
  <2>9. s \in Numbers /\ Behind(e.fec, s) <= e.age /\ t \in {"media", "fec"}
    BY <2>6, <2>7
  <2>10. p = [isFec |-> TRUE, ssrc |-> t, seq |-> s, base |-> x.base, mask |-> x.mask, data |-> x.data]
    BY <2>1
  <2>11. ~mode.oneSsrc /\ ~mode.red => t = "fec"
    OBVIOUS
  <2> HIDE DEF x, s, t, a, n
  <2>12. Covers(p) = Covers(x)
    BY <2>10 DEF Covers
  <2>13. p \in FecPacketOf(e)
    <3>1. p \in [isFec : {TRUE}, ssrc : {"media", "fec"}, seq : Numbers, base : Numbers, mask : SUBSET Nat,
                 data : SUBSET Nat]
      BY <2>8, <2>9, <2>10
    <3>2. p.seq = s /\ p.data = x.data
      BY <2>10
    <3> QED
      BY <2>8, <2>9, <2>12, <3>1, <3>2 DEF FecPacketOf
  <2>14. p.ssrc = t
    BY <2>10
  <2> QED
    BY <2>11, <2>13, <2>14 DEF PacketOf, e
<1> QED
  BY <1>1, <1>2, <1>3

\* What the receiver has stays right while the stream goes on.
LEMMA ReceiverStays ==
  ASSUME ReceiverOK, Continues(Stream, Stream'), UNCHANGED <<queue, dec, out>>,
         \A p \in net' \ net : p \in PacketOf(Stream')
  PROVE  ReceiverOK'
<1> DEFINE c == Stream
           e == Stream'
<1>1. /\ net \subseteq PacketOf(c) /\ queue \in Seq([packet : PacketOf(c), recovered : BOOLEAN])
      /\ DecOK(dec, c) /\ out \in Seq(HandedOf(c))
  BY DEF ReceiverOK
<1>2. Continues(c, e)
  OBVIOUS
<1>3. \A p \in net' \ net : p \in PacketOf(e)
  OBVIOUS
<1> HIDE DEF c, e
<1>4. PacketOf(c) \subseteq PacketOf(e) /\ HandedOf(c) \subseteq HandedOf(e) /\ DecOK(dec, e)
  BY <1>1, <1>2, StreamGrows
<1>5. net' \subseteq PacketOf(e)
  BY <1>1, <1>3, <1>4
<1>6. queue' \in Seq([packet : PacketOf(e), recovered : BOOLEAN])
  <2> DEFINE S == [packet : PacketOf(c), recovered : BOOLEAN]
             T == [packet : PacketOf(e), recovered : BOOLEAN]
  <2>1. S \subseteq T
    BY <1>4
  <2>2. queue \in Seq(S) /\ queue' = queue
    BY <1>1
  <2> HIDE DEF S, T
  <2>3. queue' \in Seq(T)
    BY <2>1, <2>2
  <2> QED
    BY <2>3 DEF T
<1>7. out' \in Seq(HandedOf(e)) /\ DecOK(dec', e)
  BY <1>1, <1>4
<1> QED
  BY <1>5, <1>6, <1>7 DEF ReceiverOK, e

\* A stream that only gets older goes on.
LEMMA StreamAges ==
  ASSUME NEW c, StreamOK(c), NEW e, e.sent = c.sent, e.media = c.media, e.fec = c.fec,
         e.age \in 0 .. Half - 1, c.age <= e.age
  PROVE  Continues(c, e)
<1>1. c.age \in Nat /\ e.age \in Nat /\ c.sent \in Seq(Numbers) /\ Len(c.sent) \in Nat /\ c.fec \in Numbers
  BY SpaceIs DEF StreamOK
<1>2. \A i \in 1 .. Len(c.sent) : Behind(c.media, c.sent[i]) \in 1 .. e.age
  BY <1>1 DEF StreamOK
<1>3. \A s \in Numbers : Behind(c.fec, s) \in Nat
  BY <1>1, BehindIs, SpaceIs
<1>4. StreamOK(e)
  BY <1>2 DEF StreamOK
<1>5. \A s \in Numbers : Behind(c.fec, s) <= c.age => Behind(e.fec, s) <= e.age
  BY <1>1, <1>3
<1> QED
  BY <1>1, <1>4, <1>5 DEF Continues

\* New settings.
LEMMA SettingsKeep ==
  ASSUME TransportInv, SetParameters
  PROVE  TransportInv'
<1>1. mode \in Modes /\ gen \in GenOf({<<>>}) /\ StreamOK(Stream)
  BY DEF TransportInv, SenderOK
<1>2. /\ gen' \in GenOf({<<>>}) /\ gen'.media = gen.media /\ gen'.params = gen.params
      /\ gen'.current = gen.current /\ gen'.key = gen.key
  <2>1. PICK p, q \in Params : SetFecParameters(p) \/ SetProtectionParameters(p, q)
    BY DEF SetParameters
  <2>2. MinFor(p.rate) \in Nat
    BY FlexfecAssumption DEF MinFor
  <2>3. CASE SetFecParameters(p)
    <3> DEFINE n == [delta |-> p, key |-> p]
               k == MinFor(p.rate)
    <3>1. n \in [delta : Params, key : Params] /\ k \in Nat
      BY <2>2
    <3>2. gen' = [gen EXCEPT !.new = n, !.min = k]
      BY <2>3 DEF SetFecParameters
    <3> HIDE DEF n, k
    <3>3. gen' \in GenOf({<<>>})
      BY <1>1, <3>1, <3>2 DEF GenOf
    <3> QED
      BY <1>1, <3>2, <3>3 DEF GenOf
  <2>4. CASE SetProtectionParameters(p, q)
    <3> DEFINE n == [delta |-> p, key |-> q]
    <3>1. n \in [delta : Params, key : Params]
      OBVIOUS
    <3>2. gen' = [gen EXCEPT !.new = n, !.pending = TRUE]
      BY <2>4 DEF SetProtectionParameters
    <3> HIDE DEF n
    <3>3. gen' \in GenOf({<<>>})
      BY <1>1, <3>1, <3>2 DEF GenOf
    <3> QED
      BY <1>1, <3>2, <3>3 DEF GenOf
  <2> QED
    BY <2>1, <2>3, <2>4
<1>3. /\ mode' = mode /\ nextSeqs' = nextSeqs /\ sent' = sent /\ net' = net
      /\ UNCHANGED <<queue, dec, out>>
  BY DEF SetParameters, recvVars
<1>4. Stream' = Stream
  BY <1>2, <1>3 DEF Stream
<1>5. CurrentParams(gen') = CurrentParams(gen)
  BY <1>2 DEF CurrentParams
<1>6. SenderOK'
  <2>1. GroupEnds'
    BY <1>2, <1>3 DEF TransportInv, SenderOK, GroupEnds
  <2>2. StreamOK(Stream') /\ GroupOK(gen'.media, Stream')
    BY <1>2, <1>4 DEF TransportInv, SenderOK
  <2> QED
    BY <1>2, <1>3, <1>5, <2>1, <2>2 DEF TransportInv, SenderOK
<1>7. Continues(Stream, Stream')
  <2>1. Stream.age \in 0 .. Half - 1 /\ Stream.age <= Stream.age
    BY <1>1, SpaceIs DEF StreamOK
  <2> QED
    BY <1>1, <1>4, <2>1, StreamAges
<1>8. ReceiverOK'
  BY <1>3, <1>7, ReceiverStays DEF TransportInv
<1> QED
  BY <1>6, <1>8 DEF TransportInv

\* A generator that is new.
LEMMA NewIs ==
  ASSUME NEW p \in Params
  PROVE  /\ NewGenerator(p) \in GenOf({<<>>}) /\ NewGenerator85(p) \in GenOf({<<>>})
         /\ NewGenerator(p).media = <<>> /\ NewGenerator85(p).media = <<>>
         /\ NewGenerator(p).frames = 0 /\ NewGenerator85(p).frames = 0
<1>1. MinFor(p.rate) \in Nat /\ <<>> \in GroupSeq
  BY FlexfecAssumption DEF MinFor, GroupSeq
<1>2. NewGenerator(p) \in GenOf({<<>>}) /\ NewGenerator(p).media = <<>> /\ NewGenerator(p).frames = 0
  BY <1>1 DEF GenOf, NewGenerator
<1> HIDE DEF NewGenerator
<1>3. /\ NewGenerator85(p) \in GenOf({<<>>}) /\ NewGenerator85(p).media = <<>>
      /\ NewGenerator85(p).frames = 0
  BY <1>2 DEF GenOf, NewGenerator85
<1> QED
  BY <1>2, <1>3

\* Another FlexfecSender.
LEMMA RecreateKeeps ==
  ASSUME TransportInv, ShortStreams, RecreateSender
  PROVE  TransportInv'
<1>1. /\ mode \in Modes /\ gen \in GenOf({<<>>}) /\ StreamOK(Stream) /\ Len(sent) <= mode.maxIds
      /\ nextSeqs \in [media : Numbers, fec : Numbers]
  BY DEF TransportInv, SenderOK
<1>2. gen' \in GenOf({<<>>}) /\ gen'.media = <<>> /\ nextSeqs' = nextSeqs
  <2>1. PICK p \in Params : FlexfecSender(p, GetRtpState) \/ FlexfecSender85(p, GetRtpState85)
    BY DEF RecreateSender
  <2>2. gen' = NewGenerator(p) \/ gen' = NewGenerator85(p)
    BY <2>1 DEF FlexfecSender, FlexfecSender85
  <2>3. nextSeqs' = [nextSeqs EXCEPT !.fec = nextSeqs.fec]
    BY <2>1 DEF FlexfecSender, FlexfecSender85, GetRtpState, GetRtpState85
  <2>4. nextSeqs' = nextSeqs
    BY <1>1, <2>3
  <2> QED
    BY <2>2, <2>4, NewIs
<1>3. mode' = mode /\ sent' = sent /\ net' = net /\ UNCHANGED <<queue, dec, out>>
  BY DEF RecreateSender, recvVars
<1> DEFINE c == Stream
           e == Stream'
           L == Len(sent)
           j == Len(gen.media)
<1>4. L \in Nat /\ j \in Nat /\ L < Half /\ 2 * L < Half
  <2>1. sent \in Seq(Numbers)
    BY <1>1 DEF StreamOK, Stream
  <2>2. gen.media \in GroupSeq
    BY <1>1 DEF GenOf
  <2>3. mode.maxIds \in Nat /\ 2 * mode.maxIds < Half
    BY <1>1, ModeIs DEF ShortStreams
  <2>4. L \in Nat /\ j \in Nat
    BY <2>1, <2>2 DEF GroupSeq
  <2> HIDE DEF L, j
  <2>5. L <= mode.maxIds
    BY <1>1 DEF L
  <2> QED
    BY <2>3, <2>4, <2>5, SpaceIs
<1>5. /\ e.sent = c.sent /\ e.media = c.media /\ e.fec = c.fec
      /\ c.age = 2 * L - j /\ e.age = 2 * L - Len(gen'.media)
  BY <1>2, <1>3 DEF Stream
<1>6. e.age \in 0 .. Half - 1 /\ c.age <= e.age
  <2>1. Len(gen'.media) = 0
    BY <1>2
  <2> HIDE DEF c, e, L, j
  <2> QED
    BY <1>4, <1>5, <2>1, SpaceIs
<1>7. Continues(c, e)
  <2>1. StreamOK(c)
    BY <1>1
  <2> HIDE DEF c, e
  <2> QED
    BY <1>5, <1>6, <2>1, StreamAges
<1>8. SenderOK'
  <2>1. GroupEnds'
    BY <1>2 DEF GroupEnds
  <2>2. GroupOK(gen'.media, Stream') /\ Len(gen'.media) <= MaxMediaPackets
    BY <1>2, EmptyGroup, SpaceIs
  <2> QED
    BY <1>1, <1>2, <1>3, <1>7, <2>1, <2>2 DEF SenderOK, Continues
<1>9. ReceiverOK'
  BY <1>3, <1>7, ReceiverStays DEF TransportInv
<1> QED
  BY <1>8, <1>9 DEF TransportInv

\* The beginning.
LEMMA InitKeeps ==
  ASSUME Init
  PROVE  TransportInv
<1>1. mode \in Modes /\ gen \in GenOf({<<>>}) /\ gen.media = <<>>
  BY NewIs DEF Init
<1>2. nextSeqs \in [media : Numbers, fec : Numbers] /\ sent = <<>> /\ mode.maxIds \in Nat
  BY FlexfecAssumption, ModeIs DEF Init, Numbers
<1>3. /\ Stream.sent = <<>> /\ Stream.media \in Numbers /\ Stream.fec \in Numbers /\ Stream.age = 0
  BY <1>1, <1>2 DEF Stream
<1>4. StreamOK(Stream)
  <2>1. Stream.sent \in Seq(Numbers) /\ Len(Stream.sent) = 0 /\ 0 \in 0 .. Half - 1
    BY <1>3, SpaceIs
  <2> QED
    BY <1>3, <2>1 DEF StreamOK
<1>5. SenderOK
  <2>1. Len(sent) <= mode.maxIds /\ Len(gen.media) <= MaxMediaPackets /\ GroupEnds
    BY <1>1, <1>2, SpaceIs DEF GroupEnds
  <2> QED
    BY <1>1, <1>2, <1>4, <2>1, EmptyGroup DEF SenderOK
<1>6. net = {} /\ queue = <<>> /\ dec = EmptyDecoder /\ out = <<>>
  BY DEF Init
<1>7. queue \in Seq([packet : PacketOf(Stream), recovered : BOOLEAN]) /\ out \in Seq(HandedOf(Stream))
  BY <1>6
<1>8. DecOK(dec, Stream)
  BY <1>6, EmptyOK
<1> QED
  BY <1>5, <1>6, <1>7, <1>8 DEF TransportInv, ReceiverOK

-----------------------------------------------------------------------------
(* The receivers.                                                          *)

\* The decoder has no more media packets than were sent.
LEMMA FewRecovered ==
  ASSUME NEW c, StreamOK(c), NEW d, DecOK(d, c)
  PROVE  Len(d.recovered) <= Len(c.sent)
<1> DEFINE r == d.recovered
           n == Len(r)
           m == Len(c.sent)
           f == [i \in 1 .. n |-> CHOOSE id \in 1 .. m : r[i].seq = c.sent[id]]
<1>1. r \in Seq(MediaOf(c)) /\ Ordered(r) /\ n \in Nat
  BY DEF DecOK, DecSound
<1>2. m \in Nat
  BY DEF StreamOK
<1>3. \A i \in 1 .. n : r[i] \in MediaOf(c)
  BY <1>1
<1>4. \A i \in 1 .. n : f[i] \in 1 .. m /\ r[i].seq = c.sent[f[i]]
  <2> SUFFICES ASSUME NEW i \in 1 .. n
               PROVE  f[i] \in 1 .. m /\ r[i].seq = c.sent[f[i]]
    OBVIOUS
  <2>1. \E id \in 1 .. m : r[i].seq = c.sent[id]
    BY <1>3 DEF MediaOf, IsSent
  <2> QED
    BY <2>1
<1>5. f \in [1 .. n -> 1 .. m]
  BY <1>4
<1>6. \A i, j \in 1 .. n : i < j => r[i].seq # r[j].seq
  <2> SUFFICES ASSUME NEW i \in 1 .. n, NEW j \in 1 .. n, i < j
               PROVE  r[i].seq # r[j].seq
    OBVIOUS
  <2>1. LessThan(r[i], r[j])
    BY <1>1 DEF Ordered
  <2>2. Windowed(MediaOf(c), c.media)
    BY ListsWindowed
  <2>3. r[i] \in MediaOf(c) /\ r[j] \in MediaOf(c)
    BY <1>3
  <2> HIDE DEF r
  <2>4. /\ Behind(c.media, r[j].seq) < Behind(c.media, r[i].seq)
        /\ Behind(c.media, r[i].seq) \in Nat /\ Behind(c.media, r[j].seq) \in Nat
    BY <2>1, <2>2, <2>3, LessThanIs
  <2> QED
    BY <2>4
<1> HIDE DEF f, r, n, m
<1>7. \A i, j \in 1 .. n : i # j => f[i] # f[j]
  <2>1. \A i, j \in 1 .. n : i # j => i < j \/ j < i
    BY <1>1
  <2> QED
    BY <1>4, <1>6, <2>1
<1>8. CASE m < n
  <2>1. IsFiniteSet(1 .. n) /\ Cardinality(1 .. n) = n /\ IsFiniteSet(1 .. m) /\ Cardinality(1 .. m) = m
    BY <1>1, <1>2, FS_Interval
  <2>2. \E i, j \in 1 .. n : i # j /\ f[i] = f[j]
    <3>1. Cardinality(1 .. m) < Cardinality(1 .. n)
      BY <1>8, <2>1
    <3> QED
      BY <1>5, <2>1, <3>1, FS_PigeonHole
  <2> QED
    BY <1>7, <2>2
<1> QED
  BY <1>1, <1>2, <1>8 DEF n, m, r

\* The receiver of M85 cuts the packet, or does not.
LEMMA SlicedIs ==
  ASSUME ShortStreams, mode \in Modes, mode.rtc85, NEW c, NEW p \in PacketOf(c)
  PROVE  /\ Sliced(p) \in PacketOf(c)
         /\ Sliced(p).isFec = p.isFec /\ Sliced(p).ssrc = p.ssrc
         /\ ~p.isFec => Sliced(p) = p
<1>1. CASE ~p.isFec \/ ~mode.whole
  BY <1>1 DEF Sliced
<1>2. CASE p.isFec /\ mode.whole
  <2>1. p \in FecPacketOf(c)
    BY <1>2 DEF PacketOf, MediaPacketOf
  <2>2. p \in [isFec : {TRUE}, ssrc : {"media", "fec"}, seq : Numbers, base : Numbers,
               mask : SUBSET Nat, data : SUBSET Nat] /\ Behind(c.fec, p.seq) <= c.age
    BY <2>1 DEF FecPacketOf
  <2>3. CASE mode.red
    <3>1. Sliced(p) = [p EXCEPT !.base = p.seq, !.mask = RedBits, !.data = {0}]
      BY <1>2, <2>3 DEF Sliced, NoPacket
    <3>2. Sliced(p) = [isFec |-> p.isFec, ssrc |-> p.ssrc, seq |-> p.seq, base |-> p.seq, mask |-> RedBits,
                       data |-> {0}]
      BY <2>2, <3>1
    <3>3. 0 \in BigIds /\ RedBits \in SUBSET Nat
      BY <1>2, <2>3, FlexfecAssumption DEF ShortStreams
    <3>4. Protects(c, Sliced(p).data, Covers(Sliced(p)))
      BY <3>2, <3>3 DEF Protects
    <3>5. Sliced(p) \in FecPacketOf(c)
      <4> DEFINE x == Sliced(p)
      <4>1. x \in [isFec : {TRUE}, ssrc : {"media", "fec"}, seq : Numbers, base : Numbers,
                   mask : SUBSET Nat, data : SUBSET Nat]
        <5> DEFINE none == {0}
        <5>0. none \in SUBSET Nat
          OBVIOUS
        <5>1. p.isFec \in {TRUE} /\ p.ssrc \in {"media", "fec"} /\ p.seq \in Numbers
          BY <2>2
        <5>2. x = [isFec |-> p.isFec, ssrc |-> p.ssrc, seq |-> p.seq, base |-> p.seq, mask |-> RedBits,
                   data |-> none]
          BY <3>2
        <5> HIDE DEF none, x
        <5> QED
          BY ONLY <3>3, <5>0, <5>1, <5>2
      <4>2. Behind(c.fec, x.seq) <= c.age /\ Protects(c, x.data, Covers(x))
        BY <2>2, <3>2, <3>4
      <4> HIDE DEF x
      <4>3. x \in FecPacketOf(c)
        BY <4>1, <4>2 DEF FecPacketOf
      <4> QED
        BY <4>3 DEF x
    <3> QED
      BY <1>2, <3>2, <3>5 DEF PacketOf
  <2>4. CASE ~mode.red
    <3>1. Sliced(p) = [p EXCEPT !.mask = {}]
      BY <1>2, <2>4 DEF Sliced
    <3>2. Sliced(p) \in FecPacketOf(c)
      BY <2>2, <3>1 DEF FecPacketOf
    <3> QED
      BY <1>2, <2>2, <3>1, <3>2 DEF PacketOf
  <2> QED
    BY <2>3, <2>4
<1> QED
  BY <1>1, <1>2

\* What the decoder has recovered is handed on.
LEMMA HandingIs ==
  ASSUME NEW c, NEW d, DecOK(d, c)
  PROVE  /\ HandedOn(d) \in Seq(HandedOf(c))
         /\ DecOK(AllReturned(d), c)
         /\ Seqs(AllReturned(d).recovered) = Seqs(d.recovered)
         /\ Len(AllReturned(d).recovered) = Len(d.recovered)
<1> DEFINE r == d.recovered
           n == Len(r)
           t == [i \in 1 .. n |-> [r[i] EXCEPT !.returned = TRUE]]
           new == {i \in 1 .. n : ~r[i].returned}
<1>1. /\ d \in [recovered : Seq(MediaOf(c)), fecs : Seq(FecOf(c))] /\ r \in Seq(MediaOf(c)) /\ n \in Nat
      /\ Ordered(r) /\ DOMAIN r = 1 .. n /\ d.fecs \in Seq(FecOf(c))
  <2>1. d \in [recovered : Seq(MediaOf(c)), fecs : Seq(FecOf(c))] /\ Ordered(r)
    BY DEF DecOK, DecSound
  <2>2. r \in Seq(MediaOf(c)) /\ d.fecs \in Seq(FecOf(c))
    BY <2>1
  <2> HIDE DEF r
  <2> QED
    BY <2>1, <2>2
<1>2. AllReturned(d) = [recovered |-> t, fecs |-> d.fecs]
  <2>1. AllReturned(d) = [d EXCEPT !.recovered = [i \in DOMAIN r |-> [r[i] EXCEPT !.returned = TRUE]]]
    BY DEF AllReturned
  <2>2. AllReturned(d) = [d EXCEPT !.recovered = t]
    BY <1>1, <2>1
  <2> HIDE DEF t
  <2> QED
    BY <1>1, <2>2
<1>3. \A i \in 1 .. n : r[i] \in MediaOf(c)
  BY <1>1
<1>4. \A i \in 1 .. n : t[i] \in MediaOf(c) /\ t[i].seq = r[i].seq
  BY <1>3 DEF MediaOf
<1> HIDE DEF r
<1>5. t \in Seq(MediaOf(c)) /\ Len(t) = n
  BY <1>1, <1>4
<1> HIDE DEF t
<1>6. Ordered(t) /\ Seqs(t) = Seqs(r)
  BY <1>1, <1>4, <1>5, SameNumbersKeep
<1>7. DecOK(AllReturned(d), c)
  <2> DEFINE x == AllReturned(d)
  <2>1. x.recovered = t /\ x.fecs = d.fecs
    BY <1>2
  <2>2. x \in [recovered : Seq(MediaOf(c)), fecs : Seq(FecOf(c))]
    BY <1>1, <1>2, <1>5
  <2> HIDE DEF x
  <2> QED
    BY <1>5, <1>6, <2>1, <2>2 DEF DecOK, DecSound, r, n, x
<1>8. new \in SUBSET Nat /\ IsFiniteSet(new)
  <2>1. IsFiniteSet(1 .. n) /\ new \subseteq 1 .. n
    BY <1>1, FS_Interval
  <2> QED
    BY <1>1, <2>1, FS_Subset
<1> DEFINE k == Cardinality(new)
           a == Ascending(new)
           h == [i \in 1 .. k |-> [seq |-> r[a[i]].seq, data |-> r[a[i]].data, how |-> "recovered"]]
<1>9. k \in Nat /\ a \in [1 .. k -> new] /\ DOMAIN a = 1 .. k
  BY <1>8, AscendingIs
<1>10. HandedOn(d) = h
  <2>1. NotReturned(d) = [i \in 1 .. k |-> r[a[i]]]
    BY <1>9 DEF NotReturned, r, n
  <2> QED
    BY <2>1 DEF HandedOn, Handed
<1>11. \A i \in 1 .. k : h[i] \in HandedOf(c)
  <2> SUFFICES ASSUME NEW i \in 1 .. k
               PROVE  h[i] \in HandedOf(c)
    OBVIOUS
  <2>1. a[i] \in new
    BY <1>9
  <2>2. r[a[i]] \in MediaOf(c) /\ ~r[a[i]].returned
    BY <1>3, <2>1 DEF r
  <2> HIDE DEF a, k
  <2>3. h[i] = [seq |-> r[a[i]].seq, data |-> r[a[i]].data, how |-> "recovered"]
    OBVIOUS
  <2> QED
    BY <2>2, <2>3 DEF MediaOf, HandedOf
<1>12. h \in Seq(HandedOf(c))
  <2> HIDE DEF k, a
  <2>1. h \in [1 .. k -> HandedOf(c)]
    BY <1>11
  <2> QED
    BY <1>9, <2>1
<1>13. AllReturned(d).recovered = t
  BY <1>2
<1> HIDE DEF h
<1> QED
  BY <1>5, <1>6, <1>7, <1>10, <1>12, <1>13 DEF r, n

\* The states of the loop that goes through the queue; old is the decoder before
\* it, and far tells that a media packet came from far away.
Handling(c, old, far) ==
  {s \in [d : [recovered : Seq(MediaOf(c)), fecs : Seq(FecOf(c))], out : Seq(HandedOf(c))] :
     DecOK(s.d, c) /\ (Kept(old, s.d) \/ far)}

\* A turn of it.
Decoded(d, q) ==
  IF mode.rtc85 THEN IF q.recovered THEN d ELSE DecodeFec85(d, q.packet) ELSE DecodeFec(d, q.packet)
Turned(s, q) ==
  [d |-> Decoded(s.d, q),
   out |-> IF q.packet.isFec THEN s.out ELSE Append(s.out, Handed(q.packet, "received"))]

\* When the packet q comes from far away, far is true; a FEC packet is read as a
\* media packet far away only in M85, and not while the list has room.
Excused(c, q, far) ==
  /\ ~q.packet.isFec /\ (mode.rtc85 => ~q.recovered) /\ FarFrom(c, q.packet) => far
  /\ mode.rtc85 /\ q.packet.isFec /\ q.packet.ssrc = "media" => far \/ Len(c.sent) < MaxMediaPackets

\* A packet of the queue is decoded.
LEMMA DecodedKeeps ==
  ASSUME NEW c, StreamOK(c), NEW d, DecOK(d, c), NEW far \in BOOLEAN, NEW q, q.packet \in PacketOf(c),
         Excused(c, q, far)
  PROVE  DecOK(Decoded(d, q), c) /\ (Kept(d, Decoded(d, q)) \/ far)
<1> DEFINE p == q.packet
<1>1. p.isFec \in BOOLEAN
  BY DEF PacketOf, MediaPacketOf, FecPacketOf
<1>2. CASE ~mode.rtc85
  <2>1. Decoded(d, q) = DecodeFec(d, p)
    BY <1>2 DEF Decoded
  <2>2. DecOK(DecodeFec(d, p), c) /\ (Kept(d, DecodeFec(d, p)) \/ (FarFrom(c, p) /\ ~p.isFec))
    BY DecodeKeeps
  <2> QED
    BY <1>2, <2>1, <2>2 DEF Excused
<1>3. CASE mode.rtc85 /\ q.recovered
  <2>1. Decoded(d, q) = d
    BY <1>3 DEF Decoded
  <2>2. Kept(d, d)
    <3>1. Len(d.recovered) \in Nat
      BY DEF DecOK, DecSound
    <3> QED
      BY <3>1 DEF Kept
  <2> QED
    BY <2>1, <2>2
<1>4. CASE mode.rtc85 /\ ~q.recovered
  <2>1. Decoded(d, q) = DecodeFec85(d, p)
    BY <1>4 DEF Decoded
  <2>2. /\ DecOK(DecodeFec85(d, p), c)
        /\ \/ Kept(d, DecodeFec85(d, p))
           \/ FarFrom(c, p) /\ p.ssrc = "media" /\ Len(d.recovered) = MaxMediaPackets
    BY DecodeKeeps
  <2>3. Len(d.recovered) <= Len(c.sent)
    BY FewRecovered
  <2>4. Len(d.recovered) \in Nat /\ Len(c.sent) \in Nat
    BY DEF DecOK, DecSound, StreamOK
  <2>5. Len(d.recovered) = MaxMediaPackets => ~(Len(c.sent) < MaxMediaPackets)
    BY <2>3, <2>4
  <2> QED
    BY <1>1, <1>4, <2>1, <2>2, <2>5 DEF Excused
<1> QED
  BY <1>2, <1>3, <1>4

\* A turn of the loop.
LEMMA TurnKeeps ==
  ASSUME NEW c, StreamOK(c), NEW old, DecOK(old, c), NEW far \in BOOLEAN, NEW s \in Handling(c, old, far),
         NEW q, q.packet \in PacketOf(c), Excused(c, q, far)
  PROVE  Turned(s, q) \in Handling(c, old, far)
<1> DEFINE e == Decoded(s.d, q)
           o == IF q.packet.isFec THEN s.out ELSE Append(s.out, Handed(q.packet, "received"))
<1>1. DecOK(s.d, c) /\ (Kept(old, s.d) \/ far) /\ s.out \in Seq(HandedOf(c))
  BY DEF Handling
<1>2. DecOK(e, c) /\ (Kept(s.d, e) \/ far)
  BY <1>1, DecodedKeeps
<1> HIDE DEF e
<1>3. Kept(old, e) \/ far
  BY <1>1, <1>2, KeptTwice
<1>4. o \in Seq(HandedOf(c))
  <2>1. CASE q.packet.isFec
    BY <1>1, <2>1
  <2>2. CASE ~q.packet.isFec
    <3> DEFINE h == Handed(q.packet, "received")
    <3>1. q.packet \in MediaPacketOf(c)
      BY <2>2 DEF PacketOf, FecPacketOf
    <3>2. h \in HandedOf(c)
      BY <3>1 DEF MediaPacketOf, HandedOf, Handed
    <3>3. o = Append(s.out, h)
      BY <2>2
    <3> HIDE DEF h, o
    <3> QED
      BY <1>1, <3>2, <3>3
  <2> QED
    BY <2>1, <2>2
<1> HIDE DEF o
<1>5. Turned(s, q) = [d |-> e, out |-> o]
  BY DEF Turned, e, o
<1>6. e \in [recovered : Seq(MediaOf(c)), fecs : Seq(FecOf(c))]
  BY <1>2 DEF DecOK, DecSound
<1> QED
  BY <1>2, <1>3, <1>4, <1>5, <1>6 DEF Handling

\* The loop as it is run, whichever source it is in.
Loops(f, x) ==
  f[0] = x /\ \A n \in 1 .. Len(queue) : f[n] = Turned(f[n - 1], queue[n])

\* It can be run, and stays within the states above.
LEMMA LoopKeeps ==
  ASSUME NEW c, StreamOK(c), NEW old, DecOK(old, c), NEW far \in BOOLEAN, NEW x \in Handling(c, old, far),
         Len(queue) \in Nat, \A n \in 1 .. Len(queue) : queue[n].packet \in PacketOf(c) /\ Excused(c, queue[n], far)
  PROVE  /\ \E f : f = [n \in 0 .. Len(queue) |-> f[n]] /\ Loops(f, x)
         /\ \A f : Loops(f, x) => f[Len(queue)] \in Handling(c, old, far)
<1> DEFINE N == Len(queue)
           S == Handling(c, old, far)
           step == [n \in 1 .. N |-> [s \in S |-> Turned(s, queue[n])]]
<1>1. \A n \in 1 .. N : \A s \in S : Turned(s, queue[n]) \in S
  BY TurnKeeps
<1>2. x \in S /\ N \in Nat
  OBVIOUS
<1> HIDE DEF S, N
<1>3. step \in [1 .. N -> [S -> S]]
  BY <1>1
<1>4. PICK f \in [0 .. N -> S] : f[0] = x /\ \A n \in 1 .. N : f[n] = step[n][f[n - 1]]
  <2>1. IsLoop(S, N, x, step)
    BY <1>2, <1>3 DEF IsLoop
  <2> HIDE DEF step
  <2>2. PICK f : IsRun(f, S, N, x, step)
    BY <2>1, IterationExists
  <2> QED
    BY <2>2 DEF IsRun
<1>5. \A n \in 1 .. N : f[n] = Turned(f[n - 1], queue[n])
  <2> SUFFICES ASSUME NEW n \in 1 .. N
               PROVE  f[n] = Turned(f[n - 1], queue[n])
    OBVIOUS
  <2>1. n - 1 \in 0 .. N
    BY <1>2
  <2>2. f[n - 1] \in S
    BY <1>4, <2>1
  <2>3. step[n][f[n - 1]] = Turned(f[n - 1], queue[n])
    BY <2>2
  <2> QED
    BY <1>4, <2>3
<1>6. f = [n \in 0 .. N |-> f[n]]
  BY <1>4
<1>7. ASSUME NEW g, Loops(g, x)
      PROVE  g[N] \in S
  <2>1. g[0] \in S
    BY <1>2, <1>7 DEF Loops
  <2>2. \A n \in 1 .. N : g[n - 1] \in S => g[n] \in S
    BY <1>1, <1>7 DEF Loops, N
  <2>3. \A n \in 0 .. N : g[n] \in S
    BY <1>2, <2>1, <2>2, IterationStays
  <2> QED
    BY <1>2, <2>3
<1> QED
  BY <1>4, <1>5, <1>6, <1>7 DEF Loops, S, N

\* The queue is emptied, in the repository's source.
LEMMA ProcessEnds ==
  ASSUME NEW c, StreamOK(c), DecOK(dec, c), out \in Seq(HandedOf(c)), NEW far \in BOOLEAN, Len(queue) \in Nat,
         \A n \in 1 .. Len(queue) : queue[n].packet \in PacketOf(c) /\ Excused(c, queue[n], far),
         ProcessReceivedFec
  PROVE  \E end \in Handling(c, dec, far) :
           /\ queue' = <<>> /\ dec' = AllReturned(end.d) /\ out' = end.out \o HandedOn(end.d)
           /\ UNCHANGED <<mode, sendVars, net, copies, arrived>>
<1> DEFINE N == Len(queue)
           x == [d |-> dec, out |-> out]
           Turn(s, q) == [d |-> DecodeFec(s.d, q.packet),
                          out |-> IF q.packet.isFec THEN s.out
                                  ELSE Append(s.out, Handed(q.packet, "received"))]
           after == CHOOSE f : f = [n \in 0 .. N |-> IF n = 0 THEN x ELSE Turn(f[n - 1], queue[n])]
<1>1. /\ queue' = <<>> /\ dec' = AllReturned(after[N].d) /\ out' = after[N].out \o HandedOn(after[N].d)
      /\ UNCHANGED <<mode, sendVars, net, copies, arrived>>
  BY DEF ProcessReceivedFec, Processing
<1>2. ~mode.rtc85
  BY DEF ProcessReceivedFec
<1>3. \A s, q : Turn(s, q) = Turned(s, q)
  BY <1>2 DEF Turned, Decoded
<1>4. x \in Handling(c, dec, far)
  <2>1. dec \in [recovered : Seq(MediaOf(c)), fecs : Seq(FecOf(c))] /\ Len(dec.recovered) \in Nat
    BY DEF DecOK, DecSound
  <2>2. Kept(dec, dec)
    BY <2>1 DEF Kept
  <2> QED
    BY <2>1, <2>2 DEF Handling
<1> HIDE DEF x, Turn
<1>5. /\ \E f : f = [n \in 0 .. N |-> f[n]] /\ Loops(f, x)
      /\ \A f : Loops(f, x) => f[N] \in Handling(c, dec, far)
  BY <1>4, LoopKeeps
<1>6. PICK f : f = [n \in 0 .. N |-> f[n]] /\ Loops(f, x)
  BY <1>5
<1>7. \A n \in 0 .. N : n # 0 => n \in 1 .. N
  OBVIOUS
<1>8. \A n \in 0 .. N : f[n] = IF n = 0 THEN x ELSE Turn(f[n - 1], queue[n])
  BY <1>3, <1>6, <1>7 DEF Loops
<1>9. f = [n \in 0 .. N |-> IF n = 0 THEN x ELSE Turn(f[n - 1], queue[n])]
  BY <1>6, <1>8
<1>10. after = [n \in 0 .. N |-> IF n = 0 THEN x ELSE Turn(after[n - 1], queue[n])]
  BY <1>9, Zenon
<1> HIDE DEF after
<1>11. Loops(after, x)
  <2>1. after[0] = x
    BY <1>10
  <2>2. ASSUME NEW n \in 1 .. N
        PROVE  after[n] = Turned(after[n - 1], queue[n])
    <3>1. n \in 0 .. N /\ n # 0
      OBVIOUS
    <3> QED
      BY <1>3, <1>10, <3>1
  <2> QED
    BY <2>1, <2>2 DEF Loops
<1> QED
  BY <1>1, <1>5, <1>11

\* The queue is emptied, in the source of M85.
LEMMA Process85Ends ==
  ASSUME NEW c, StreamOK(c), DecOK(dec, c), out \in Seq(HandedOf(c)), NEW far \in BOOLEAN, Len(queue) \in Nat,
         \A n \in 1 .. Len(queue) : queue[n].packet \in PacketOf(c) /\ Excused(c, queue[n], far),
         ProcessReceivedFec85
  PROVE  \E end \in Handling(c, dec, far) :
           /\ queue' = <<>> /\ dec' = AllReturned(end.d) /\ out' = end.out \o HandedOn(end.d)
           /\ UNCHANGED <<mode, sendVars, net, copies, arrived>>
<1> DEFINE N == Len(queue)
           x == [d |-> dec, out |-> out]
           Turn(s, q) == [d |-> IF q.recovered THEN s.d ELSE DecodeFec85(s.d, q.packet),
                          out |-> IF q.packet.isFec THEN s.out
                                  ELSE Append(s.out, Handed(q.packet, "received"))]
           after == CHOOSE f : f = [n \in 0 .. N |-> IF n = 0 THEN x ELSE Turn(f[n - 1], queue[n])]
<1>1. /\ queue' = <<>> /\ dec' = AllReturned(after[N].d) /\ out' = after[N].out \o HandedOn(after[N].d)
      /\ UNCHANGED <<mode, sendVars, net, copies, arrived>>
  BY DEF ProcessReceivedFec85, Processing
<1>2. mode.rtc85
  BY DEF ProcessReceivedFec85
<1>3. \A s, q : Turn(s, q) = Turned(s, q)
  BY <1>2 DEF Turned, Decoded
<1>4. x \in Handling(c, dec, far)
  <2>1. dec \in [recovered : Seq(MediaOf(c)), fecs : Seq(FecOf(c))] /\ Len(dec.recovered) \in Nat
    BY DEF DecOK, DecSound
  <2>2. Kept(dec, dec)
    BY <2>1 DEF Kept
  <2> QED
    BY <2>1, <2>2 DEF Handling
<1> HIDE DEF x, Turn
<1>5. /\ \E f : f = [n \in 0 .. N |-> f[n]] /\ Loops(f, x)
      /\ \A f : Loops(f, x) => f[N] \in Handling(c, dec, far)
  BY <1>4, LoopKeeps
<1>6. PICK f : f = [n \in 0 .. N |-> f[n]] /\ Loops(f, x)
  BY <1>5
<1>7. \A n \in 0 .. N : n # 0 => n \in 1 .. N
  OBVIOUS
<1>8. \A n \in 0 .. N : f[n] = IF n = 0 THEN x ELSE Turn(f[n - 1], queue[n])
  BY <1>3, <1>6, <1>7 DEF Loops
<1>9. f = [n \in 0 .. N |-> IF n = 0 THEN x ELSE Turn(f[n - 1], queue[n])]
  BY <1>6, <1>8
<1>10. after = [n \in 0 .. N |-> IF n = 0 THEN x ELSE Turn(after[n - 1], queue[n])]
  BY <1>9, Zenon
<1> HIDE DEF after
<1>11. Loops(after, x)
  <2>1. after[0] = x
    BY <1>10
  <2>2. ASSUME NEW n \in 1 .. N
        PROVE  after[n] = Turned(after[n - 1], queue[n])
    <3>1. n \in 0 .. N /\ n # 0
      OBVIOUS
    <3> QED
      BY <1>3, <1>10, <3>1
  <2> QED
    BY <2>1, <2>2 DEF Loops
<1> QED
  BY <1>1, <1>5, <1>11

\* The decoder and what was handed on, after a decoder d that is right.
LEMMA ProcessedKeeps ==
  ASSUME NEW c, NEW d, DecOK(d, c), NEW o \in Seq(HandedOf(c)), dec' = AllReturned(d), out' = o \o HandedOn(d)
  PROVE  DecOK(dec', c) /\ out' \in Seq(HandedOf(c))
<1>1. HandedOn(d) \in Seq(HandedOf(c)) /\ DecOK(AllReturned(d), c)
  BY HandingIs
<1> QED
  BY <1>1

\* What becomes of the packet p: the entry q of the queue, or what is decoded.
ComesFrom(q, p) ==
  /\ q.packet \in PacketOf(Stream) /\ q.recovered \in BOOLEAN
  /\ q = [packet |-> q.packet, recovered |-> q.recovered]
  /\ q.packet.isFec = p.isFec /\ q.packet.ssrc = p.ssrc /\ (~p.isFec => q.packet = p)

\* A packet reaches the receiver.
LEMMA ReceiveIs ==
  ASSUME TransportInv, ShortStreams, NEW p \in net, NEW copy \in BOOLEAN, NEW recovered \in BOOLEAN,
         Receive(p, copy, recovered)
  PROVE  /\ Stream' = Stream /\ net' \subseteq net /\ UNCHANGED <<mode, sendVars>>
         /\ arrived' = IF recovered THEN arrived ELSE arrived \cup {p}
         /\ \E q : /\ ComesFrom(q, p) /\ (mode.rtc85 => q.recovered = recovered)
                   /\ mode.red /\ ~mode.rtc85 => ~recovered
                   /\ \/ recovered /\ UNCHANGED <<queue, dec, out>>
                      \/ /\ ~recovered /\ ~mode.red /\ Processed(Decoded(dec, q))
                      \/ /\ mode.red /\ queue' = Append(queue, q) /\ UNCHANGED <<dec, out>>
<1>1. mode \in Modes /\ p \in PacketOf(Stream)
  BY DEF TransportInv, SenderOK, ReceiverOK
<1>2. UNCHANGED <<mode, sendVars>> /\ arrived' = IF recovered THEN arrived ELSE arrived \cup {p}
  BY DEF Receive
<1>3. Stream' = Stream
  BY <1>2 DEF sendVars, Stream
<1>4. net' \subseteq net
  BY DEF Receive
<1>5. mode.red /\ ~mode.rtc85 => ~recovered
  BY DEF Receive
<1>6. mode.red \in BOOLEAN /\ mode.rtc85 \in BOOLEAN
  BY <1>1, ModeIs
<1> DEFINE q == [packet |-> p, recovered |-> recovered]
           q85 == [packet |-> Sliced(p), recovered |-> recovered]
<1>7. ComesFrom(q, p)
  BY <1>1 DEF ComesFrom
<1>8. mode.rtc85 => ComesFrom(q85, p)
  BY <1>1, SlicedIs DEF ComesFrom
<1>9. CASE OnRtpPacket(p, recovered)
  <2>1. CASE recovered
    BY <1>2, <1>3, <1>4, <1>5, <1>7, <1>9, <2>1 DEF OnRtpPacket
  <2>2. CASE ~recovered
    <3>1. Decoded(dec, q) = DecodeFec(dec, p) /\ ~mode.red /\ ~mode.rtc85
      BY <1>9 DEF Decoded, OnRtpPacket
    <3>2. Processed(Decoded(dec, q))
      BY <1>9, <2>2, <3>1 DEF OnRtpPacket
    <3> QED
      BY <1>2, <1>3, <1>4, <1>5, <1>7, <2>2, <3>1, <3>2
  <2> QED
    BY <2>1, <2>2
<1>10. CASE OnRtpPacket85(p, recovered)
  <2>0. mode.rtc85
    BY <1>10 DEF OnRtpPacket85
  <2>1. CASE recovered
    BY <1>2, <1>3, <1>4, <1>5, <1>7, <1>10, <2>1 DEF OnRtpPacket85
  <2>2. CASE ~recovered
    <3>1. Decoded(dec, q85) = DecodeFec85(dec, Sliced(p)) /\ ~mode.red
      BY <1>10, <2>2 DEF Decoded, OnRtpPacket85
    <3>2. Processed(Decoded(dec, q85))
      BY <1>10, <2>2, <3>1 DEF OnRtpPacket85
    <3> QED
      BY <1>2, <1>3, <1>4, <1>5, <1>8, <2>0, <2>2, <3>1, <3>2
  <2> QED
    BY <2>1, <2>2
<1>11. CASE AddReceivedRedPacket(p)
  <2>1. mode.red /\ ~mode.rtc85 /\ ~recovered
    BY <1>5, <1>11 DEF AddReceivedRedPacket
  <2>2. q = [packet |-> p, recovered |-> FALSE]
    BY <2>1
  <2>3. queue' = Append(queue, q) /\ UNCHANGED <<dec, out>>
    BY <1>11, <2>2 DEF AddReceivedRedPacket, Queued
  <2> QED
    BY <1>2, <1>3, <1>4, <1>7, <2>1, <2>3
<1>12. CASE AddReceivedRedPacket85(p, recovered)
  <2>1. mode.red /\ mode.rtc85
    BY <1>12 DEF AddReceivedRedPacket85
  <2>2. queue' = Append(queue, q85) /\ UNCHANGED <<dec, out>>
    BY <1>12 DEF AddReceivedRedPacket85, Queued
  <2> QED
    BY <1>2, <1>3, <1>4, <1>5, <1>8, <2>1, <2>2
<1> QED
  BY <1>9, <1>10, <1>11, <1>12 DEF Receive

\* A sender that does nothing stays as it is.
LEMMA SenderStays ==
  ASSUME SenderOK, UNCHANGED <<mode, sendVars>>
  PROVE  SenderOK' /\ Stream' = Stream
<1>1. mode' = mode /\ gen' = gen /\ nextSeqs' = nextSeqs /\ sent' = sent
  BY DEF sendVars
<1>2. Stream' = Stream
  BY <1>1 DEF Stream
<1>3. GroupEnds' <=> GroupEnds
  BY <1>1 DEF GroupEnds
<1> QED
  BY <1>1, <1>2, <1>3 DEF SenderOK

\* A packet reaches the receiver: what is right stays so.
LEMMA ReceiveKeeps ==
  ASSUME TransportInv, ShortStreams, NEW p \in net, NEW copy \in BOOLEAN, NEW recovered \in BOOLEAN,
         Receive(p, copy, recovered)
  PROVE  TransportInv'
<1>1. SenderOK' /\ Stream' = Stream /\ net' \subseteq net
  BY ReceiveIs, SenderStays DEF TransportInv
<1> DEFINE c == Stream
<1>2. /\ StreamOK(c) /\ net \subseteq PacketOf(c) /\ queue \in Seq([packet : PacketOf(c), recovered : BOOLEAN])
      /\ DecOK(dec, c) /\ out \in Seq(HandedOf(c))
  BY DEF TransportInv, SenderOK, ReceiverOK
<1>3. PICK q : /\ ComesFrom(q, p)
               /\ \/ recovered /\ UNCHANGED <<queue, dec, out>>
                  \/ /\ ~recovered /\ ~mode.red /\ Processed(Decoded(dec, q))
                  \/ /\ mode.red /\ queue' = Append(queue, q) /\ UNCHANGED <<dec, out>>
                     /\ q = [packet |-> q.packet, recovered |-> q.recovered]
  BY ReceiveIs DEF ComesFrom
<1>4. q.packet \in PacketOf(c) /\ q.recovered \in BOOLEAN
  BY <1>3 DEF ComesFrom
<1> HIDE DEF c
<1>5. queue' \in Seq([packet : PacketOf(c), recovered : BOOLEAN]) /\ DecOK(dec', c) /\ out' \in Seq(HandedOf(c))
  <2>1. CASE UNCHANGED <<queue, dec, out>>
    BY <1>2, <2>1
  <2>2. CASE Processed(Decoded(dec, q))
    <3>1. Excused(c, q, TRUE)
      BY DEF Excused
    <3>2. DecOK(Decoded(dec, q), c)
      BY <1>2, <1>4, <3>1, DecodedKeeps
    <3>3. dec' = AllReturned(Decoded(dec, q)) /\ out' = out \o HandedOn(Decoded(dec, q)) /\ queue' = queue
      BY <2>2 DEF Processed
    <3> QED
      BY <1>2, <3>2, <3>3, ProcessedKeeps
  <2>3. CASE queue' = Append(queue, q) /\ UNCHANGED <<dec, out>> /\ q = [packet |-> q.packet, recovered |-> q.recovered]
    <3> DEFINE T == [packet : PacketOf(c), recovered : BOOLEAN]
    <3>1. q \in T
      BY <1>4, <2>3
    <3>2. queue \in Seq(T)
      BY <1>2
    <3> HIDE DEF T
    <3>3. queue' \in Seq(T)
      BY <2>3, <3>1, <3>2
    <3> QED
      BY <1>2, <2>3, <3>3 DEF T
  <2> QED
    BY <1>3, <2>1, <2>2, <2>3
<1> QED
  BY <1>1, <1>2, <1>5 DEF TransportInv, ReceiverOK, c

\* The queue is emptied: what is right stays so.
LEMMA ProcessKeeps ==
  ASSUME TransportInv, ProcessReceivedFec \/ ProcessReceivedFec85
  PROVE  TransportInv'
<1> DEFINE c == Stream
<1>1. /\ StreamOK(c) /\ net \subseteq PacketOf(c) /\ queue \in Seq([packet : PacketOf(c), recovered : BOOLEAN])
      /\ DecOK(dec, c) /\ out \in Seq(HandedOf(c)) /\ SenderOK
  BY DEF TransportInv, SenderOK, ReceiverOK
<1> HIDE DEF c
<1>2. Len(queue) \in Nat /\ \A n \in 1 .. Len(queue) : queue[n].packet \in PacketOf(c) /\ Excused(c, queue[n], TRUE)
  <2> DEFINE T == [packet : PacketOf(c), recovered : BOOLEAN]
  <2>1. \A q \in T : q.packet \in PacketOf(c)
    OBVIOUS
  <2>2. queue \in Seq(T)
    BY <1>1
  <2> HIDE DEF T
  <2>3. Len(queue) \in Nat /\ \A n \in 1 .. Len(queue) : queue[n] \in T
    BY <2>2
  <2> QED
    BY <2>1, <2>3 DEF Excused
<1>3. PICK end \in Handling(c, dec, TRUE) :
           /\ queue' = <<>> /\ dec' = AllReturned(end.d) /\ out' = end.out \o HandedOn(end.d)
           /\ UNCHANGED <<mode, sendVars, net, copies, arrived>>
  BY <1>1, <1>2, ProcessEnds, Process85Ends
<1>4. DecOK(end.d, c) /\ end.out \in Seq(HandedOf(c))
  BY DEF Handling
<1>5. DecOK(dec', c) /\ out' \in Seq(HandedOf(c))
  BY <1>3, <1>4, ProcessedKeeps
<1>6. SenderOK' /\ Stream' = Stream
  BY <1>1, <1>3, SenderStays
<1>7. queue' \in Seq([packet : PacketOf(c), recovered : BOOLEAN]) /\ net' = net
  BY <1>3
<1> QED
  BY <1>1, <1>5, <1>6, <1>7 DEF TransportInv, ReceiverOK, c

-----------------------------------------------------------------------------
(* The theorems.                                                           *)

\* Every step keeps what is right.
LEMMA NextKeeps ==
  ASSUME TransportInv, ShortStreams, [Next]_vars
  PROVE  TransportInv'
<1>1. CASE SetParameters
  BY <1>1, SettingsKeep
<1>2. CASE RecreateSender
  BY <1>2, RecreateKeeps
<1>3. ASSUME NEW marker \in BOOLEAN, NEW isKey \in BOOLEAN, SendMedia(marker, isKey)
      PROVE  TransportInv'
  <2>1. SenderOK /\ ReceiverOK
    BY DEF TransportInv
  <2>2. SenderOK'
    BY <1>3, <2>1, SenderSends
  <2>3. Continues(Stream, Stream') /\ \A p \in net' \ net : p \in PacketOf(Stream')
    BY <1>3, <2>1, SendContinues, SentPackets
  <2>4. UNCHANGED <<queue, dec, out>>
    BY <1>3 DEF SendMedia, recvVars
  <2> QED
    BY <2>1, <2>2, <2>3, <2>4, ReceiverStays DEF TransportInv
<1>4. ASSUME NEW p \in net, NEW copy \in BOOLEAN, NEW recovered \in BOOLEAN, Receive(p, copy, recovered)
      PROVE  TransportInv'
  BY <1>4, ReceiveKeeps
<1>5. CASE ProcessReceivedFec \/ ProcessReceivedFec85
  BY <1>5, ProcessKeeps
<1>6. CASE UNCHANGED vars
  <2>1. UNCHANGED <<mode, sendVars>> /\ UNCHANGED <<net, queue, dec, out>>
    BY <1>6 DEF vars, sendVars
  <2>2. SenderOK' /\ Stream' = Stream
    BY <2>1, SenderStays DEF TransportInv
  <2> QED
    BY <2>1, <2>2 DEF TransportInv, ReceiverOK
<1> QED
  BY <1>1, <1>2, <1>3, <1>4, <1>5, <1>6 DEF Next

\* What is right means that the packets that were handed on are.
LEMMA HandedTrue ==
  ASSUME TransportInv
  PROVE  RecoveredTrue
<1>1. out \in Seq(HandedOf(Stream)) /\ sent \in Seq(Numbers) /\ Stream.sent = sent
  BY DEF TransportInv, ReceiverOK, SenderOK, StreamOK, Stream
<1>2. DOMAIN sent = 1 .. Len(sent)
  BY <1>1
<1> SUFFICES ASSUME NEW i \in DOMAIN out
             PROVE  \E id \in DOMAIN sent :
                      /\ out[i].data = {id} /\ out[i].seq = sent[id]
                      /\ out[i].how = "recovered" => id \notin BigIds
  BY DEF RecoveredTrue
<1>3. out[i] \in HandedOf(Stream)
  BY <1>1
<1>4. /\ IsSent(Stream, out[i].seq, out[i].data)
      /\ out[i].how = "recovered" => out[i].data \cap BigIds = {}
  BY <1>3 DEF HandedOf
<1>5. PICK id \in 1 .. Len(sent) : out[i].seq = sent[id] /\ out[i].data = {id}
  BY <1>1, <1>4 DEF IsSent
<1> QED
  BY <1>2, <1>4, <1>5

\* What is right means that the lists of the decoder are sorted and bounded.
LEMMA DecoderSorted ==
  ASSUME TransportInv
  PROVE  ListsSorted
<1>1. /\ dec.recovered \in Seq(MediaOf(Stream)) /\ dec.fecs \in Seq(FecOf(Stream))
      /\ Ordered(dec.recovered) /\ Ordered(dec.fecs)
      /\ Len(dec.recovered) <= MaxMediaPackets /\ Len(dec.fecs) <= MaxFecPackets
  BY DEF TransportInv, ReceiverOK, DecOK, DecSound
<1>2. DOMAIN dec.recovered = 1 .. Len(dec.recovered) /\ DOMAIN dec.fecs = 1 .. Len(dec.fecs)
  BY <1>1
<1>3. Len(gen.media) <= MaxMediaPackets
  BY DEF TransportInv, SenderOK
<1> QED
  BY <1>1, <1>2, <1>3 DEF ListsSorted, Ordered

\* For every size of the lists and the groups, every setting, loss, order and
\* repetition of packets: what the receivers hand on is a packet that was sent,
\* under its own number (RecoverPacket, forward_error_correction.cc:628).
THEOREM RecoveredPacketsTrue == ShortStreams => (Spec => []RecoveredTrue)
<1> SUFFICES ASSUME ShortStreams PROVE Spec => []RecoveredTrue
  OBVIOUS
<1>1. Init => TransportInv
  BY InitKeeps
<1>2. TransportInv /\ [Next]_vars => TransportInv'
  BY NextKeeps
<1>3. TransportInv => RecoveredTrue
  BY HandedTrue
<1> QED
  BY <1>1, <1>2, <1>3, PTL DEF Spec

\* The same for the order and the bounds of the decoder's lists
\* (forward_error_correction.cc:383, :461, :679).
THEOREM DecoderListsSorted == ShortStreams => (Spec => []ListsSorted)
<1> SUFFICES ASSUME ShortStreams PROVE Spec => []ListsSorted
  OBVIOUS
<1>1. Init => TransportInv
  BY InitKeeps
<1>2. TransportInv /\ [Next]_vars => TransportInv'
  BY NextKeeps
<1>3. TransportInv => ListsSorted
  BY DecoderSorted
<1> QED
  BY <1>1, <1>2, <1>3, PTL DEF Spec

-----------------------------------------------------------------------------
(* Frames without protection.                                              *)

\* Where the bound on the frames applies: the code can protect every group, every
\* setting asks for it, and the FEC packets are not taken before there are any.
GroupsProtected ==
  /\ MaxMediaPackets <= kMaxMediaPackets
  /\ \A p \in Params : p.rate > 0 /\ p.frames > 0
  /\ \A m \in Modes : m.eager => m.rtc85

\* The frames that the generator counts are those without FEC packets.
FramesCounted ==
  /\ unprotected = gen.frames
  /\ gen.frames < gen.params.frames
  /\ gen.media = <<>> => gen.frames = 0

\* What sending a media packet leaves of the generator, if every group can be
\* protected: its FEC packets are all taken, or it waits for more.
LEMMA SentFrames ==
  ASSUME SenderOK, ShortStreams, GroupsProtected, NEW marker \in BOOLEAN, NEW isKey \in BOOLEAN,
         SendMedia(marker, isKey), NEW a, a = Added(marker, isKey)
  PROVE  \/ a.generated # <<>> /\ gen' = With(a, <<>>, 0, <<>>)
         \/ /\ a.generated = <<>> /\ gen' = a /\ a.media # <<>> /\ a.frames = Counted(gen, marker)
            /\ (marker => a.frames # a.params.frames)
            /\ (gen.media # <<>> => a.params = gen.params)
<1> DEFINE m == NextGroup
           fec == FecOfGroup(m, a.params)
<1>1. /\ GroupOK(m, Stream') /\ m # <<>> /\ Len(m) <= MaxMediaPackets /\ Len(m) \in Nat
      /\ AddsTo(gen, a, nextSeqs.media, Len(sent) + 1, marker)
  BY SendIs
<1>2. /\ a \in GenOf({<<>>, fec})
      /\ gen.media # <<>> => a.params = gen.params
      /\ \/ a.generated = <<>> /\ a.media = m /\ a.frames = Counted(gen, marker)
            /\ (marker => a.frames # a.params.frames)
         \/ a.generated = <<>> /\ fec = <<>> /\ a.media = <<>> /\ a.frames = 0
         \/ a.generated = fec /\ fec # <<>> /\ a.media = m
  BY <1>1 DEF AddsTo, NextGroup
<1> HIDE DEF m
<1>3. fec # <<>>
  <2>1. a.params \in Params
    BY <1>2, WithIs
  <2>2. a.params.rate \in 0 .. 255 /\ a.params.rate > 0
    BY <2>1, ParamsAre DEF GroupsProtected
  <2>3. Len(m) <= kMaxMediaPackets
    <3>1. MaxMediaPackets <= kMaxMediaPackets /\ kMaxMediaPackets \in Nat /\ MaxMediaPackets \in Nat
      BY SpaceIs DEF GroupsProtected, kMaxMediaPackets
    <3> QED
      BY <1>1, <3>1
  <2> DEFINE e == Stream'
  <2>4. GroupOK(m, e)
    BY <1>1
  <2> HIDE DEF e
  <2> DEFINE r == a.params.rate
             t == a.params.maskType
  <2>40. r \in 0 .. 255 /\ r > 0 /\ m # <<>> /\ fec = EncodeFec(m, r, t)
    BY <1>1, <2>2 DEF FecOfGroup
  <2> HIDE DEF r, t, fec
  <2>5. Len(fec) > 0
    BY <2>3, <2>4, <2>40, EncodeIs
  <2> QED
    BY <2>5
<1>4. mode \in Modes /\ mode.rtc85 \in BOOLEAN /\ mode.eager \in BOOLEAN /\ mode.red \in BOOLEAN
  BY ModeIs DEF SenderOK
<1>5. gen' = IF mode.eager \/ a.generated # <<>> THEN Taken(a) ELSE a
  BY DEF SendMedia, Added
<1>6. CASE a.generated # <<>>
  BY <1>2, <1>4, <1>5, <1>6, TakenIs
<1>7. CASE a.generated = <<>>
  <2>1. gen' = a
    <3>1. CASE mode.eager
      <4>1. mode.rtc85
        BY <1>4, <3>1 DEF GroupsProtected
      <4>2. Taken(a) = a
        BY <1>4, <1>7, <4>1 DEF Taken, GetUlpfecPackets85, GetFecPackets85
      <4> QED
        BY <1>5, <3>1, <4>2
    <3> QED
      BY <1>5, <1>7, <3>1
  <2> QED
    BY <1>1, <1>2, <1>3, <1>7, <2>1
<1> QED
  BY <1>6, <1>7

\* Every step counts the frames.
LEMMA FramesKeep ==
  ASSUME TransportInv, ShortStreams, GroupsProtected, FramesCounted, [Next]_vars
  PROVE  FramesCounted'
<1>1. mode \in Modes /\ gen \in GenOf({<<>>})
  BY DEF TransportInv, SenderOK
<1>2. gen.frames \in Nat /\ gen.params.frames \in Nat
  BY <1>1, WithIs, ParamsAre
<1>3. CASE UNCHANGED <<mode, sendVars>>
  BY <1>3 DEF FramesCounted, sendVars
<1>4. CASE SetParameters
  <2>1. PICK p, q \in Params : SetFecParameters(p) \/ SetProtectionParameters(p, q)
    BY <1>4 DEF SetParameters
  <2>2. \/ gen' = [gen EXCEPT !.new = [delta |-> p, key |-> p], !.min = MinFor(p.rate)]
        \/ gen' = [gen EXCEPT !.new = [delta |-> p, key |-> q], !.pending = TRUE]
    BY <2>1 DEF SetFecParameters, SetProtectionParameters
  <2>3. gen'.frames = gen.frames /\ gen'.params = gen.params /\ gen'.media = gen.media
    BY <1>1, <2>2 DEF GenOf
  <2>4. unprotected' = unprotected
    BY <1>4 DEF SetParameters
  <2> QED
    BY <2>3, <2>4 DEF FramesCounted
<1>5. CASE RecreateSender
  <2>1. PICK p \in Params : FlexfecSender(p, GetRtpState) \/ FlexfecSender85(p, GetRtpState85)
    BY <1>5 DEF RecreateSender
  <2>2. gen' = NewGenerator(p) \/ gen' = NewGenerator85(p)
    BY <2>1 DEF FlexfecSender, FlexfecSender85
  <2>3. gen'.frames = 0 /\ gen'.params \in Params
    BY <2>2, NewIs, WithIs
  <2>4. gen'.params.frames > 0 /\ unprotected' = 0
    BY <1>5, <2>3 DEF GroupsProtected, RecreateSender
  <2> QED
    BY <2>3, <2>4 DEF FramesCounted
<1>6. ASSUME NEW marker \in BOOLEAN, NEW isKey \in BOOLEAN, SendMedia(marker, isKey)
      PROVE  FramesCounted'
  <2> DEFINE a == Added(marker, isKey)
             n == Len(a.generated)
  <2>1. SenderOK /\ a.generated \in Seq([base : Numbers, mask : SUBSET Nat, data : SUBSET Nat])
    BY <1>6, SendIs DEF TransportInv
  <2>2. unprotected' = IF n > 0 THEN 0 ELSE IF marker THEN unprotected + 1 ELSE unprotected
    BY <1>6 DEF SendMedia, Added
  <2>3. gen' \in GenOf({<<>>})
    BY <1>6, <2>1, SendIs
  <2>4. gen'.params \in Params
    BY <2>3, WithIs
  <2>5. gen'.params.frames \in Nat /\ gen'.params.frames > 0
    BY <2>4, ParamsAre DEF GroupsProtected
  <2>6. \/ a.generated # <<>> /\ gen' = With(a, <<>>, 0, <<>>)
        \/ /\ a.generated = <<>> /\ gen' = a /\ a.media # <<>> /\ a.frames = Counted(gen, marker)
           /\ (marker => a.frames # a.params.frames)
           /\ (gen.media # <<>> => a.params = gen.params)
    BY <1>6, <2>1, SentFrames
  <2>7. CASE a.generated # <<>> /\ gen' = With(a, <<>>, 0, <<>>)
    <3>1. n > 0
      <4> DEFINE T == [base : Numbers, mask : SUBSET Nat, data : SUBSET Nat]
      <4>1. a.generated \in Seq(T) /\ a.generated # <<>>
        BY <2>1, <2>7
      <4> HIDE DEF T, a
      <4> QED
        BY <4>1
    <3>2. gen'.frames = 0
      BY <2>7 DEF With
    <3> QED
      BY <2>2, <2>5, <3>1, <3>2 DEF FramesCounted
  <2>8. CASE /\ a.generated = <<>> /\ gen' = a /\ a.media # <<>> /\ a.frames = Counted(gen, marker)
             /\ (marker => a.frames # a.params.frames)
             /\ (gen.media # <<>> => a.params = gen.params)
    <3> DEFINE f == gen.frames
               F == gen'.params.frames
    <3>1. ~(n > 0)
      BY <2>8
    <3>2. unprotected' = gen'.frames
      BY <2>2, <2>8, <3>1 DEF FramesCounted, Counted
    <3>3. gen'.frames = (IF marker THEN f + 1 ELSE f) /\ (marker => gen'.frames # F) /\ gen'.media # <<>>
      BY <2>8 DEF Counted
    <3>4. f < F
      <4>1. CASE gen.media # <<>>
        BY <2>8, <4>1 DEF FramesCounted
      <4>2. CASE gen.media = <<>>
        BY <2>5, <4>2 DEF FramesCounted
      <4> QED
        BY <4>1, <4>2
    <3>5. f \in Nat /\ F \in Nat
      BY <1>2, <2>5
    <3>6. gen'.frames < F
      <4> HIDE DEF f, F
      <4> QED
        BY <3>3, <3>4, <3>5
    <3> QED
      BY <3>2, <3>3, <3>6 DEF FramesCounted
  <2> QED
    BY <2>6, <2>7, <2>8
<1>7. ASSUME NEW p \in net, NEW copy \in BOOLEAN, NEW recovered \in BOOLEAN, Receive(p, copy, recovered)
      PROVE  UNCHANGED <<mode, sendVars>>
  BY <1>7 DEF Receive
<1>8. CASE ProcessReceivedFec \/ ProcessReceivedFec85
  <2>1. UNCHANGED <<mode, sendVars>>
    BY <1>8 DEF ProcessReceivedFec, ProcessReceivedFec85, Processing
  <2> QED
    BY <1>3, <2>1
<1>9. CASE UNCHANGED vars
  <2>1. UNCHANGED <<mode, sendVars>>
    BY <1>9 DEF vars, sendVars
  <2> QED
    BY <1>3, <2>1
<1> QED
  BY <1>3, <1>4, <1>5, <1>6, <1>7, <1>8, <1>9 DEF Next

\* FEC packets follow after as many frames as the settings say
\* (ulpfec_generator.cc:162), for every setting and whatever is set meanwhile.
THEOREM FramesProtected == ShortStreams /\ GroupsProtected => (Spec => []FramesBounded)
<1> SUFFICES ASSUME ShortStreams, GroupsProtected PROVE Spec => []FramesBounded
  OBVIOUS
<1> DEFINE Inv == TransportInv /\ FramesCounted
<1>1. Init => Inv
  <2> SUFFICES ASSUME Init PROVE FramesCounted
    BY InitKeeps
  <2>1. PICK p \in Params : gen = NewGenerator85(p) \/ gen = NewGenerator(p)
    BY DEF Init
  <2>2. gen.frames = 0 /\ gen.params \in Params
    BY <2>1, NewIs, WithIs
  <2>3. gen.params.frames > 0 /\ unprotected = 0
    BY <2>2 DEF GroupsProtected, Init
  <2> QED
    BY <2>2, <2>3 DEF FramesCounted
<1>2. Inv /\ [Next]_vars => Inv'
  BY NextKeeps, FramesKeep
<1>3. Inv => FramesBounded
  BY DEF FramesCounted, FramesBounded
<1> QED
  BY <1>1, <1>2, <1>3, PTL DEF Spec

-----------------------------------------------------------------------------
(* What the decoder forgets.                                               *)

\* Where the rule applies to the source of M85, that takes a FEC packet of the
\* media packets' SSRC for one of them: the FEC packets have an SSRC of their own,
\* or the stream fits in the list.
OwnNumbers == \A m \in Modes : m.rtc85 => (~m.red /\ ~m.oneSsrc) \/ m.maxIds < MaxMediaPackets

\* Media packets that wait to be decoded have arrived, and FEC packets have the
\* SSRC that they were sent with.
Arrivals ==
  /\ mode.red \/ queue = <<>>
  /\ \A p \in net : p.isFec /\ ~mode.oneSsrc /\ ~mode.red => p.ssrc = "fec"
  /\ \A n \in 1 .. Len(queue) :
       ~queue[n].packet.isFec /\ (mode.rtc85 => ~queue[n].recovered) => queue[n].packet \in arrived


\* Every step keeps the record of what arrived.
LEMMA ArrivalsKeep ==
  ASSUME TransportInv, ShortStreams, Arrivals, [Next]_vars
  PROVE  Arrivals'
<1>1. CASE /\ mode' = mode /\ queue' = queue /\ arrived' = arrived
           /\ \A p \in net' \ net : p.isFec /\ ~mode.oneSsrc /\ ~mode.red => p.ssrc = "fec"
  <2>1. \A p \in net' : p.isFec /\ ~mode'.oneSsrc /\ ~mode'.red => p.ssrc = "fec"
    BY <1>1 DEF Arrivals
  <2> QED
    BY <1>1, <2>1 DEF Arrivals
<1>2. CASE SetParameters \/ RecreateSender \/ UNCHANGED vars
  <2>1. mode' = mode /\ queue' = queue /\ arrived' = arrived /\ net' = net
    BY <1>2 DEF SetParameters, RecreateSender, vars, recvVars
  <2> QED
    BY <1>1, <2>1
<1>3. ASSUME NEW marker \in BOOLEAN, NEW isKey \in BOOLEAN, SendMedia(marker, isKey)
      PROVE  Arrivals'
  <2>1. mode' = mode /\ queue' = queue /\ arrived' = arrived
    BY <1>3 DEF SendMedia, recvVars
  <2>2. \A p \in net' \ net : p.isFec /\ ~mode.oneSsrc /\ ~mode.red => p.ssrc = "fec"
    BY <1>3, SentPackets DEF TransportInv
  <2> QED
    BY <1>1, <2>1, <2>2
<1>4. ASSUME NEW p \in net, NEW copy \in BOOLEAN, NEW recovered \in BOOLEAN, Receive(p, copy, recovered)
      PROVE  Arrivals'
  <2>1. /\ mode' = mode /\ net' \subseteq net
        /\ arrived' = IF recovered THEN arrived ELSE arrived \cup {p}
    BY <1>4, ReceiveIs
  <2>2. PICK q : /\ ComesFrom(q, p) /\ (mode.rtc85 => q.recovered = recovered)
                 /\ mode.red /\ ~mode.rtc85 => ~recovered
                 /\ \/ recovered /\ UNCHANGED <<queue, dec, out>>
                    \/ /\ ~recovered /\ ~mode.red /\ Processed(Decoded(dec, q))
                    \/ /\ mode.red /\ queue' = Append(queue, q) /\ UNCHANGED <<dec, out>>
    BY <1>4, ReceiveIs
  <2>3. arrived \subseteq arrived' /\ (~recovered => p \in arrived')
    BY <2>1
  <2>4. CASE queue' = queue
    <3>1. \A x \in net' : x.isFec /\ ~mode'.oneSsrc /\ ~mode'.red => x.ssrc = "fec"
      BY <2>1 DEF Arrivals
    <3>2. \A n \in 1 .. Len(queue') :
            ~queue'[n].packet.isFec /\ (mode'.rtc85 => ~queue'[n].recovered) => queue'[n].packet \in arrived'
      BY <2>1, <2>3, <2>4 DEF Arrivals
    <3> QED
      BY <2>1, <2>4, <3>1, <3>2 DEF Arrivals
  <2>5. CASE mode.red /\ queue' = Append(queue, q)
    <3> DEFINE Q == queue'
               N == Len(queue)
    <3>1. N \in Nat /\ Len(Q) = N + 1 /\ Q[N + 1] = q /\ \A n \in 1 .. N : Q[n] = queue[n]
      <4> DEFINE T == [packet : PacketOf(Stream), recovered : BOOLEAN]
      <4>1. queue \in Seq(T)
        BY DEF TransportInv, ReceiverOK
      <4>2. q \in T
        BY <2>2 DEF ComesFrom
      <4> HIDE DEF T
      <4> QED
        BY <2>5, <4>1, <4>2
    <3>2. ASSUME NEW n \in 1 .. N + 1, ~Q[n].packet.isFec, mode.rtc85 => ~Q[n].recovered
          PROVE  Q[n].packet \in arrived'
      <4>1. CASE n = N + 1
        <5>1. Q[n] = q
          BY <3>1, <4>1
        <5>2. q.packet = p
          BY <2>2, <3>2, <5>1 DEF ComesFrom
        <5>3. ~recovered
          BY <2>2, <2>5, <3>2, <5>1
        <5> QED
          BY <2>3, <5>1, <5>2, <5>3
      <4>2. CASE n # N + 1
        <5>1. n \in 1 .. N
          BY <3>1, <4>2
        <5>2. Q[n] = queue[n]
          BY <3>1, <5>1
        <5>3. queue[n].packet \in arrived
          BY <3>2, <5>1, <5>2 DEF Arrivals
        <5> QED
          BY <2>3, <5>2, <5>3
      <4> QED
        BY <4>1, <4>2
    <3>3. \A x \in net' : x.isFec /\ ~mode'.oneSsrc /\ ~mode'.red => x.ssrc = "fec"
      BY <2>1 DEF Arrivals
    <3>4. \A n \in 1 .. Len(queue') :
            ~queue'[n].packet.isFec /\ (mode'.rtc85 => ~queue'[n].recovered) => queue'[n].packet \in arrived'
      BY <2>1, <3>1, <3>2
    <3> QED
      BY <2>1, <2>5, <3>3, <3>4 DEF Arrivals
  <2> QED
    BY <2>2, <2>4, <2>5 DEF Processed
<1>5. CASE ProcessReceivedFec \/ ProcessReceivedFec85
  <2>1. mode' = mode /\ net' = net /\ queue' = <<>>
    BY <1>5 DEF ProcessReceivedFec, ProcessReceivedFec85, Processing
  <2> QED
    BY <2>1 DEF Arrivals
<1> QED
  BY <1>2, <1>3, <1>4, <1>5 DEF Next

\* What the decoder may forget in a step.
Forgets ==
  \/ Seqs(dec.recovered) \subseteq Seqs(dec'.recovered)
  \/ Len(dec'.recovered) = MaxMediaPackets
  \/ \E p \in Media(arrived') : FarFrom(Stream, p)

\* A decoder d that was reached in a step, and is kept with the flags set.
LEMMA ForgetsIs ==
  ASSUME NEW c, NEW d, DecOK(d, c), dec' = AllReturned(d),
         Kept(dec, d) \/ (\E p \in Media(arrived') : FarFrom(Stream, p))
  PROVE  Forgets
<1>1. Seqs(dec'.recovered) = Seqs(d.recovered) /\ Len(dec'.recovered) = Len(d.recovered)
  BY HandingIs
<1> QED
  BY <1>1 DEF Forgets, Kept

\* FEC packets that could be taken for media packets come only in short streams.
LEMMA ShortOrOwn ==
  ASSUME TransportInv, OwnNumbers, mode.rtc85
  PROVE  (~mode.red /\ ~mode.oneSsrc) \/ Len(Stream.sent) < MaxMediaPackets
<1>1. mode \in Modes /\ Len(sent) <= mode.maxIds /\ sent \in Seq(Numbers) /\ Stream.sent = sent
  BY DEF TransportInv, SenderOK, StreamOK, Stream
<1>2. mode.maxIds \in Nat /\ Len(sent) \in Nat /\ MaxMediaPackets \in Nat
  BY <1>1, ModeIs, SpaceIs
<1>3. mode.maxIds < MaxMediaPackets => Len(Stream.sent) < MaxMediaPackets
  BY <1>1, <1>2
<1> QED
  BY <1>1, <1>3 DEF OwnNumbers

\* Every step forgets only for room, or because of a media packet.
LEMMA StepForgets ==
  ASSUME TransportInv, ShortStreams, OwnNumbers, Arrivals, [Next]_vars
  PROVE  Forgets
<1> DEFINE c == Stream
           far == \E p \in Media(arrived') : FarFrom(c, p)
<1>1. StreamOK(c) /\ DecOK(dec, c) /\ far \in BOOLEAN /\ out \in Seq(HandedOf(c))
  BY DEF TransportInv, SenderOK, ReceiverOK
<1>2. CASE dec' = dec
  BY <1>2 DEF Forgets
<1>3. CASE SetParameters \/ RecreateSender \/ UNCHANGED vars
  BY <1>2, <1>3 DEF SetParameters, RecreateSender, vars, recvVars
<1>4. ASSUME NEW marker \in BOOLEAN, NEW isKey \in BOOLEAN, SendMedia(marker, isKey)
      PROVE  Forgets
  BY <1>2, <1>4 DEF SendMedia, recvVars
<1>5. ASSUME NEW p \in net, NEW copy \in BOOLEAN, NEW recovered \in BOOLEAN, Receive(p, copy, recovered)
      PROVE  Forgets
  <2>1. PICK q : /\ ComesFrom(q, p) /\ (mode.rtc85 => q.recovered = recovered)
                 /\ mode.red /\ ~mode.rtc85 => ~recovered
                 /\ \/ recovered /\ UNCHANGED <<queue, dec, out>>
                    \/ /\ ~recovered /\ ~mode.red /\ Processed(Decoded(dec, q))
                    \/ /\ mode.red /\ queue' = Append(queue, q) /\ UNCHANGED <<dec, out>>
    BY <1>5, ReceiveIs
  <2>2. CASE ~recovered /\ ~mode.red /\ Processed(Decoded(dec, q))
    <3>1. arrived' = arrived \cup {p}
      BY <1>5, <2>2, ReceiveIs
    <3>2. /\ q.packet \in PacketOf(c) /\ q.packet.isFec = p.isFec /\ q.packet.ssrc = p.ssrc
          /\ (~p.isFec => q.packet = p)
      BY <2>1 DEF ComesFrom
    <3>3. ~p.isFec => p \in Media(arrived')
      BY <3>1 DEF Media
    <3>4. ~q.packet.isFec /\ FarFrom(c, q.packet) => far
      BY <3>2, <3>3
    <3>5. mode.rtc85 /\ q.packet.isFec /\ q.packet.ssrc = "media" => Len(c.sent) < MaxMediaPackets
      BY <2>2, <3>2, ShortOrOwn DEF Arrivals
    <3>6. Excused(c, q, far)
      BY <3>4, <3>5 DEF Excused
    <3> HIDE DEF far
    <3>7. DecOK(Decoded(dec, q), c) /\ (Kept(dec, Decoded(dec, q)) \/ far)
      BY <1>1, <3>2, <3>6, DecodedKeeps
    <3>8. dec' = AllReturned(Decoded(dec, q))
      BY <2>2 DEF Processed
    <3> QED
      BY <3>7, <3>8, ForgetsIs DEF far
  <2> QED
    BY <1>2, <2>1, <2>2
<1>6. CASE ProcessReceivedFec \/ ProcessReceivedFec85
  <2>1. arrived' = arrived /\ queue # <<>>
    BY <1>6 DEF ProcessReceivedFec, ProcessReceivedFec85, Processing
  <2>2. mode.red
    BY <2>1 DEF Arrivals
  <2>3. Len(queue) \in Nat /\ \A n \in 1 .. Len(queue) : queue[n].packet \in PacketOf(c)
    <3> DEFINE T == [packet : PacketOf(c), recovered : BOOLEAN]
    <3>1. \A q \in T : q.packet \in PacketOf(c)
      OBVIOUS
    <3>2. queue \in Seq(T)
      BY DEF TransportInv, ReceiverOK
    <3> HIDE DEF T
    <3>3. Len(queue) \in Nat /\ \A n \in 1 .. Len(queue) : queue[n] \in T
      BY <3>2
    <3> QED
      BY <3>1, <3>3
  <2>4. mode.rtc85 => Len(c.sent) < MaxMediaPackets
    BY <2>2, ShortOrOwn
  <2>5. \A n \in 1 .. Len(queue) : Excused(c, queue[n], far)
    <3> SUFFICES ASSUME NEW n \in 1 .. Len(queue)
                 PROVE  Excused(c, queue[n], far)
      OBVIOUS
    <3> DEFINE q == queue[n]
    <3>1. ASSUME ~q.packet.isFec, mode.rtc85 => ~q.recovered, FarFrom(c, q.packet)
          PROVE  far
      <4>1. q.packet \in arrived'
        BY <2>1, <3>1 DEF Arrivals
      <4>2. q.packet \in Media(arrived')
        BY <3>1, <4>1 DEF Media
      <4> QED
        BY <3>1, <4>2
    <3> HIDE DEF far, c
    <3> QED
      BY <2>4, <3>1 DEF Excused
  <2> HIDE DEF c, far
  <2>6. PICK end \in Handling(c, dec, far) :
           /\ queue' = <<>> /\ dec' = AllReturned(end.d) /\ out' = end.out \o HandedOn(end.d)
           /\ UNCHANGED <<mode, sendVars, net, copies, arrived>>
    BY <1>1, <1>6, <2>3, <2>5, ProcessEnds, Process85Ends
  <2>7. DecOK(end.d, c) /\ (Kept(dec, end.d) \/ far)
    BY DEF Handling
  <2> QED
    BY <2>6, <2>7, ForgetsIs DEF far, c
<1> QED
  BY <1>3, <1>4, <1>5, <1>6 DEF Next

\* The decoder forgets media packets only when its list is full or when a media
\* packet comes from far away; no FEC packet makes it start over
\* (forward_error_correction.cc:748).
THEOREM ForgetsOnlyForRoom == ShortStreams /\ OwnNumbers => (Spec => ForgetsForRoom)
<1> SUFFICES ASSUME ShortStreams, OwnNumbers PROVE Spec => ForgetsForRoom
  OBVIOUS
<1> DEFINE Inv == TransportInv /\ Arrivals
<1>1. Init => Inv
  <2> SUFFICES ASSUME Init PROVE Arrivals
    BY InitKeeps
  <2>1. net = {} /\ queue = <<>>
    BY DEF Init
  <2> QED
    BY <2>1 DEF Arrivals
<1>2. Inv /\ [Next]_vars => Inv'
  BY NextKeeps, ArrivalsKeep
<1> DEFINE Rule == Seqs(dec.recovered) \subseteq Seqs(dec'.recovered)
                     \/ Len(dec'.recovered) = MaxMediaPackets
                     \/ (\E p \in Media(arrived') :
                           \E id \in DOMAIN sent : MinDiff(p.seq, sent[id], SeqSpace) > MaxMediaPackets)
<1>3. Inv /\ [Next]_vars => [Rule]_vars
  <2> SUFFICES ASSUME Inv, [Next]_vars PROVE Rule
    OBVIOUS
  <2>1. Forgets
    BY StepForgets
  <2>2. Stream.sent = sent /\ DOMAIN sent = 1 .. Len(sent)
    BY DEF TransportInv, SenderOK, StreamOK, Stream
  <2>3. \A p : FarFrom(Stream, p) => \E id \in DOMAIN sent : MinDiff(p.seq, sent[id], SeqSpace) > MaxMediaPackets
    BY <2>2 DEF FarFrom
  <2> QED
    BY <2>1, <2>3 DEF Forgets
<1> QED
  BY <1>1, <1>2, <1>3, PTL DEF Spec, ForgetsForRoom
=============================================================================
