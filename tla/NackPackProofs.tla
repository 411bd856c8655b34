--------------------------- MODULE NackPackProofs ---------------------------
(***************************************************************************)
(* What a request carries, for every batch, every width of the mask and    *)
(* every limit on the number of items.                                     *)
(***************************************************************************)
EXTENDS NackPack, NumberFacts

Numbers == 0 .. PidSpace - 1

\* The starts of the items of a batch.
Greedy(batch, pids) ==
  /\ pids \subseteq batch
  /\ \A s \in batch : s \in pids <=> ~\E pid \in pids : s - pid \in 1 .. BlpBits

\* A batch is finite.
LEMMA BatchFinite ==
  ASSUME NEW S \in SUBSET Numbers
  PROVE  IsFiniteSet(S) /\ Cardinality(S) \in Nat /\ S \in SUBSET Nat
<1>1. IsFiniteSet(Numbers)
  BY FS_Interval, PackAssumption DEF Numbers
<1>2. S \in SUBSET Nat
  BY PackAssumption DEF Numbers
<1> QED
  BY <1>1, <1>2, FS_Subset, FS_CardinalityType

\* Going through a batch in order finds starts for all of it: the part of the
\* batch below n has them, for every n.
LEMMA GreedyExists ==
  ASSUME NEW batch \in SUBSET Numbers
  PROVE  \E pids : Greedy(batch, pids)
<1> DEFINE Below(n) == {s \in batch : s < n}
           Bad == {n \in Nat : ~\E pids : Greedy(Below(n), pids)}
<1>1. CASE Bad = {}
  <2>1. \A s \in batch : s < PidSpace
    BY PackAssumption DEF Numbers
  <2>2. Below(PidSpace) = batch /\ PidSpace \in Nat
    BY <2>1, PackAssumption
  <2> QED
    BY <1>1, <2>2
<1>2. CASE Bad # {}
  <2>1. PICK n \in Bad : \A m \in Bad : n <= m
    <3>1. Bad \in SUBSET Nat
      OBVIOUS
    <3> HIDE DEF Bad
    <3> QED
      BY <1>2, <3>1, NatMin
  <2>2. n \in Nat /\ ~\E pids : Greedy(Below(n), pids)
    BY <2>1
  <2>3. CASE n = 0
    <3>1. \A s \in batch : ~(s < 0)
      BY PackAssumption DEF Numbers
    <3>2. Below(n) = {}
      BY <2>3, <3>1
    <3>3. Greedy(Below(n), {})
      BY <3>2 DEF Greedy
    <3> QED
      BY <2>2, <3>3
  <2>4. CASE n # 0
    <3> DEFINE k == n - 1
    <3>1. k \in Nat /\ n = k + 1 /\ k \notin Bad
      <4>1. k \in Nat /\ n = k + 1 /\ ~(n <= k)
        BY <2>2, <2>4
      <4> HIDE DEF k, Bad
      <4> QED
        BY <2>1, <4>1
    <3>2. PICK pids : Greedy(Below(k), pids)
      BY <3>1
    <3>3. batch \subseteq Nat /\ pids \subseteq batch /\ (\A s \in pids : s < k)
      BY <3>2, PackAssumption DEF Numbers, Greedy
    <3> HIDE DEF k
    <3>4. Below(n) = Below(k) \cup (batch \cap {k})
      <4>1. \A s \in batch : s < n <=> s < k \/ s = k
        BY <3>1, <3>3
      <4> QED
        BY <4>1
    <3>5. CASE k \in batch /\ ~\E pid \in pids : k - pid \in 1 .. BlpBits
      <4>1. ASSUME NEW s \in Below(n)
            PROVE  s \in pids \cup {k} <=> ~\E pid \in pids \cup {k} : s - pid \in 1 .. BlpBits
        <5>1. CASE s = k
          BY <3>1, <3>3, <3>5, <5>1, PackAssumption
        <5>2. CASE s # k
          <6>1. s \in Below(k) /\ s < k /\ s \in Nat
            BY <3>3, <3>4, <4>1, <5>2
          <6>2. ~(s - k \in 1 .. BlpBits)
            BY <3>1, <6>1, PackAssumption
          <6> QED
            BY <3>2, <5>2, <6>1, <6>2 DEF Greedy
        <5> QED
          BY <5>1, <5>2
      <4>2. Greedy(Below(n), pids \cup {k})
        BY <3>3, <3>4, <3>5, <4>1, <3>2 DEF Greedy
      <4> QED
        BY <2>2, <4>2
    <3>6. CASE ~(k \in batch /\ ~\E pid \in pids : k - pid \in 1 .. BlpBits)
      <4>1. Greedy(Below(n), pids)
        BY <3>2, <3>3, <3>4, <3>6 DEF Greedy
      <4> QED
        BY <2>2, <4>1
    <3> QED
      BY <3>5, <3>6
  <2> QED
    BY <2>3, <2>4
<1> QED
  BY <1>1, <1>2

\* The starts are numbers of the batch, more than the width of the mask apart,
\* and the rest of the batch is within the mask of one of them.
LEMMA PidsOf ==
  ASSUME NEW batch \in SUBSET Numbers
  PROVE  /\ ItemPids(batch) \subseteq batch
         /\ \A s \in batch : \E pid \in ItemPids(batch) : s - pid \in 0 .. BlpBits
         /\ \A p, q \in ItemPids(batch) : p < q => q - p > BlpBits
<1> DEFINE pids == ItemPids(batch)
<1>1. \E P \in SUBSET batch :
        \A s \in batch : s \in P <=> ~\E pid \in P : s - pid \in 1 .. BlpBits
  BY GreedyExists DEF Greedy
<1>2. /\ pids \in SUBSET batch
      /\ \A s \in batch : s \in pids <=> ~\E pid \in pids : s - pid \in 1 .. BlpBits
  BY <1>1 DEF ItemPids
<1> HIDE DEF pids
<1>3. batch \subseteq Nat
  BY PackAssumption DEF Numbers
<1>4. \A s \in batch : \E pid \in pids : s - pid \in 0 .. BlpBits
  <2> SUFFICES ASSUME NEW s \in batch PROVE \E pid \in pids : s - pid \in 0 .. BlpBits
    OBVIOUS
  <2>1. CASE s \in pids
    BY <1>3, <2>1, PackAssumption
  <2>2. CASE s \notin pids
    BY <1>2, <1>3, <2>2, PackAssumption
  <2> QED
    BY <2>1, <2>2
<1>5. \A p, q \in pids : p < q => q - p > BlpBits
  <2> SUFFICES ASSUME NEW p \in pids, NEW q \in pids, p < q PROVE q - p > BlpBits
    OBVIOUS
  <2>1. p \in Nat /\ q \in Nat /\ ~(q - p \in 1 .. BlpBits)
    BY <1>2, <1>3
  <2> QED
    BY <2>1, PackAssumption
<1> QED
  BY <1>2, <1>4, <1>5 DEF pids

\* An item stands for the numbers of the batch from its start to the end of its
\* mask: packing and unpacking agree on the meaning of the bits.
LEMMA ItemStandsFor ==
  ASSUME NEW batch \in SUBSET Numbers, NEW pid \in batch
  PROVE  ItemSeqs(ItemFrom(batch, pid)) = {s \in batch : s - pid \in 0 .. BlpBits}
<1> DEFINE item == ItemFrom(batch, pid)
           Covered == {s \in batch : s - pid \in 0 .. BlpBits}
<1>1. item.pid = pid
      /\ item.blp = {s - pid - 1 : s \in {t \in batch : t - pid - 1 \in 0 .. BlpBits - 1}}
  BY DEF ItemFrom
<1>2. ASSUME NEW s \in batch
      PROVE  /\ s \in Nat /\ pid \in Nat /\ s < PidSpace /\ s % PidSpace = s
             /\ (pid + 1 + (s - pid - 1)) = s
  BY PackAssumption DEF Numbers
<1>5. pid \in Covered /\ (\A x \in Int : x \in 0 .. BlpBits - 1 => x + 1 \in 0 .. BlpBits)
      /\ (\A x \in Int : x \in 0 .. BlpBits /\ x # 0 => x - 1 \in 0 .. BlpBits - 1)
  <2>1. pid \in Int /\ BlpBits \in Nat
    BY <1>2, PackAssumption
  <2>2. pid - pid \in 0 .. BlpBits
    BY <2>1
  <2> QED
    BY <2>1, <2>2
<1>3. ASSUME NEW s \in ItemSeqs(item) PROVE s \in Covered
  <2>1. CASE s = pid
    BY <1>5, <2>1
  <2>2. CASE s # pid
    <3>1. PICK bit \in item.blp : s = (pid + 1 + bit) % PidSpace
      BY <1>1, <1>3, <2>2 DEF ItemSeqs
    <3>2. PICK t \in batch : t - pid - 1 \in 0 .. BlpBits - 1 /\ bit = t - pid - 1
      BY <1>1
    <3>3. s = t
      BY <1>2, <3>1, <3>2
    <3>4. t - pid \in 0 .. BlpBits
      <4>1. t - pid - 1 \in Int /\ (t - pid - 1) + 1 = t - pid
        BY <1>2
      <4> QED
        BY <1>5, <3>2, <4>1
    <3> QED
      BY <3>3, <3>4
  <2> QED
    BY <2>1, <2>2
<1>4. ASSUME NEW s \in Covered PROVE s \in ItemSeqs(item)
  <2>1. CASE s = pid
    BY <1>1, <2>1 DEF ItemSeqs
  <2>2. CASE s # pid
    <3>1. s \in batch /\ s - pid - 1 \in 0 .. BlpBits - 1
      <4>1. s - pid \in Int /\ s - pid # 0 /\ s - pid \in 0 .. BlpBits
        BY <1>2, <2>2
      <4> QED
        BY <1>5, <4>1
    <3>2. s - pid - 1 \in item.blp
      BY <1>1, <3>1
    <3>3. s = (pid + 1 + (s - pid - 1)) % PidSpace
      BY <1>2, <3>1
    <3> HIDE DEF item
    <3>4. s \in {(item.pid + 1 + bit) % PidSpace : bit \in item.blp}
      BY <1>1, <3>2, <3>3
    <3> QED
      BY <3>4 DEF ItemSeqs
  <2> QED
    BY <2>1, <2>2
<1> QED
  BY <1>3, <1>4

\* The length of a message: that of the list of starts, or the limit.
LEMMA SmallerOf ==
  ASSUME NEW a \in Nat, NEW b \in Nat
  PROVE  Min({a, b}) = IF a <= b THEN a ELSE b
<1> DEFINE m == IF a <= b THEN a ELSE b
<1>1. m \in {a, b} /\ \A y \in {a, b} : m <= y
  OBVIOUS
<1>2. \A x \in {a, b} : (\A y \in {a, b} : x <= y) => x = m
  OBVIOUS
<1> QED
  BY <1>1, <1>2 DEF Min

\* What a message is: the items of the first starts, in order.
LEMMA MessageOf ==
  ASSUME NEW batch \in SUBSET Numbers
  PROVE  LET pids == ItemPids(batch)
             a == Ascending(pids)
             msg == packing_nack(batch)
             L == IF Cardinality(pids) <= MaxNackItems THEN Cardinality(pids) ELSE MaxNackItems
         IN  /\ Cardinality(pids) \in Nat /\ L \in Nat /\ L <= Cardinality(pids)
             /\ DOMAIN msg = 1 .. L /\ Len(msg) = L
             /\ \A i \in 1 .. L :
                  /\ a[i] \in pids
                  /\ ItemSeqs(msg[i]) = {s \in batch : s - a[i] \in 0 .. BlpBits}
             /\ \A i, j \in 1 .. Cardinality(pids) : i < j => a[i] < a[j]
             /\ \A p \in pids : \E i \in 1 .. Cardinality(pids) : a[i] = p
<1> DEFINE pids == ItemPids(batch)
           a == Ascending(pids)
           c == Cardinality(pids)
           msg == packing_nack(batch)
           L == IF c <= MaxNackItems THEN c ELSE MaxNackItems
<1>1. pids \subseteq batch /\ pids \in SUBSET Numbers
  BY PidsOf
<1>2. IsFiniteSet(pids) /\ pids \in SUBSET Nat /\ c \in Nat
  BY <1>1, BatchFinite
<1>3. /\ a \in [1 .. c -> pids] /\ Len(a) = c
      /\ \A i, j \in 1 .. c : i < j => a[i] < a[j]
      /\ \A p \in pids : \E i \in 1 .. c : a[i] = p
  BY <1>2, AscendingIs
<1> HIDE DEF pids, a, c
<1>4. MaxNackItems \in Nat /\ Min({c, MaxNackItems}) = L
  BY <1>2, SmallerOf, PackAssumption
<1>5. L \in Nat /\ L <= c
  BY <1>2, <1>4
<1>6. msg = [i \in 1 .. L |-> ItemFrom(batch, a[i])]
  BY <1>3, <1>4 DEF packing_nack, pids, a
<1> HIDE DEF L, msg
<1>7. DOMAIN msg = 1 .. L /\ Len(msg) = L
  <2>1. DOMAIN msg = 1 .. L /\ msg \in Seq({ItemFrom(batch, a[i]) : i \in 1 .. L})
    BY <1>5, <1>6
  <2> QED
    BY <1>5, <2>1
<1>8. ASSUME NEW i \in 1 .. L
      PROVE  a[i] \in pids /\ ItemSeqs(msg[i]) = {s \in batch : s - a[i] \in 0 .. BlpBits}
  <2>1. i \in 1 .. c
    BY <1>2, <1>5
  <2>2. a[i] \in pids /\ a[i] \in batch
    BY <1>1, <1>3, <2>1
  <2>3. msg[i] = ItemFrom(batch, a[i])
    BY <1>6
  <2> QED
    BY <2>2, <2>3, ItemStandsFor
<1> QED
  BY <1>2, <1>3, <1>5, <1>7, <1>8 DEF pids, a, c, msg, L

\* A request asks for numbers of the batch only, the lowest ones, and for all
\* of them unless the message is full; no two items ask for the same number,
\* and no choice of starts in the batch covers it with fewer items.
LEMMA PackingExact ==
  ASSUME NEW batch \in SUBSET Numbers
  PROVE  LET msg  == packing_nack(batch)
             seqs == unpacking_nack(msg)
         IN  /\ seqs \subseteq batch
             /\ \A lost \in batch \ seqs, s \in seqs : s < lost
             /\ seqs # batch => Len(msg) = MaxNackItems
             /\ \A i, j \in DOMAIN msg : i # j => ItemSeqs(msg[i]) \cap ItemSeqs(msg[j]) = {}
             /\ \A pids \in SUBSET batch :
                  (\A s \in batch : \E pid \in pids : s - pid \in 0 .. BlpBits)
                    => Cardinality(pids) >= Len(msg)
<1> DEFINE pids == ItemPids(batch)
           a == Ascending(pids)
           c == Cardinality(pids)
           msg == packing_nack(batch)
           seqs == unpacking_nack(msg)
           L == IF c <= MaxNackItems THEN c ELSE MaxNackItems
<1>1. /\ pids \subseteq batch
      /\ \A s \in batch : \E pid \in pids : s - pid \in 0 .. BlpBits
      /\ \A p, q \in pids : p < q => q - p > BlpBits
  BY PidsOf
<1>2. /\ c \in Nat /\ L \in Nat /\ L <= c
      /\ DOMAIN msg = 1 .. L /\ Len(msg) = L
      /\ \A i \in 1 .. L :
           /\ a[i] \in pids
           /\ ItemSeqs(msg[i]) = {s \in batch : s - a[i] \in 0 .. BlpBits}
      /\ \A i, j \in 1 .. c : i < j => a[i] < a[j]
      /\ \A p \in pids : \E i \in 1 .. c : a[i] = p
  BY MessageOf
<1>3. batch \in SUBSET Nat /\ IsFiniteSet(batch) /\ BlpBits \in Nat /\ MaxNackItems \in Nat
  BY BatchFinite, PackAssumption
<1>4. L = MaxNackItems \/ L = c
  OBVIOUS
<1>5. seqs = UNION {ItemSeqs(msg[i]) : i \in 1 .. L}
  BY <1>2 DEF unpacking_nack
<1> HIDE DEF pids, a, c, msg, seqs, L
<1>6. \A s : s \in seqs <=> s \in batch /\ \E i \in 1 .. L : s - a[i] \in 0 .. BlpBits
  BY <1>2, <1>5
<1>7. ASSUME NEW lost \in batch \ seqs, NEW s \in seqs
      PROVE  s < lost
  <2>1. PICK i \in 1 .. L : s - a[i] \in 0 .. BlpBits
    BY <1>6
  <2>2. PICK p \in pids : lost - p \in 0 .. BlpBits
    BY <1>1
  <2>3. PICK k \in 1 .. c : a[k] = p
    BY <1>2
  <2>4. k \notin 1 .. L /\ i \in 1 .. c /\ i < k
    BY <1>2, <1>6, <2>2, <2>3
  <2>5. a[i] \in pids /\ a[i] < p
    BY <1>2, <2>3, <2>4
  <2>6. p - a[i] > BlpBits
    BY <1>1, <2>5
  <2>7. s \in Nat /\ lost \in Nat /\ p \in Nat /\ a[i] \in Nat
    BY <1>1, <1>3, <1>6, <2>5
  <2>8. s - a[i] <= BlpBits /\ lost - p >= 0
    BY <1>3, <2>1, <2>2, <2>7
  <2> QED
    BY <1>3, <2>6, <2>7, <2>8
<1>8. ASSUME seqs # batch PROVE Len(msg) = MaxNackItems
  <2>1. PICK s \in batch : s \notin seqs
    BY <1>6, <1>8
  <2>2. PICK p \in pids : s - p \in 0 .. BlpBits
    BY <1>1
  <2>3. PICK k \in 1 .. c : a[k] = p
    BY <1>2
  <2>4. k \notin 1 .. L
    BY <1>6, <2>1, <2>2, <2>3
  <2> QED
    BY <1>2, <1>4, <2>4
<1>9. ASSUME NEW i \in 1 .. L, NEW j \in 1 .. L, i < j, NEW s \in ItemSeqs(msg[i]) \cap ItemSeqs(msg[j])
      PROVE  FALSE
  <2>1. i \in 1 .. c /\ j \in 1 .. c
    BY <1>2
  <2>2. s \in batch /\ s - a[i] \in 0 .. BlpBits /\ s - a[j] \in 0 .. BlpBits
        /\ a[i] \in pids /\ a[j] \in pids /\ a[i] < a[j]
    BY <1>2, <1>9, <2>1
  <2>3. a[j] - a[i] > BlpBits /\ s \in Nat /\ a[i] \in Nat /\ a[j] \in Nat
    BY <1>1, <1>3, <2>2
  <2> QED
    BY <1>3, <2>2, <2>3
<1>10. \A i, j \in DOMAIN msg : i # j => ItemSeqs(msg[i]) \cap ItemSeqs(msg[j]) = {}
  <2> SUFFICES ASSUME NEW i \in 1 .. L, NEW j \in 1 .. L, i # j,
                      NEW s \in ItemSeqs(msg[i]) \cap ItemSeqs(msg[j])
               PROVE  FALSE
    BY <1>2
  <2>1. i < j \/ j < i
    BY <1>2
  <2> QED
    BY <1>9, <2>1
<1>11. ASSUME NEW R \in SUBSET batch, \A s \in batch : \E pid \in R : s - pid \in 0 .. BlpBits
       PROVE  Cardinality(R) >= Len(msg)
  <2> DEFINE f == [p \in pids |-> CHOOSE r \in R : p - r \in 0 .. BlpBits]
  <2>1. ASSUME NEW p \in pids PROVE f[p] \in R /\ p - f[p] \in 0 .. BlpBits
    BY <1>1, <1>11
  <2>2. f \in [pids -> R]
    BY <2>1
  <2> HIDE DEF f
  <2>3. ASSUME NEW p \in pids, NEW q \in pids, f[p] = f[q] PROVE p = q
    <3>1. p \in Nat /\ q \in Nat /\ f[p] \in Nat
      BY <1>1, <1>3, <2>1
    <3>2. p - f[p] \in 0 .. BlpBits /\ q - f[p] \in 0 .. BlpBits
      BY <2>1, <2>3
    <3>3. ~(p < q) /\ ~(q < p)
      BY <1>1, <1>3, <3>1, <3>2
    <3> QED
      BY <3>1, <3>3
  <2>4. f \in Injection(pids, R)
    BY <2>2, <2>3 DEF Injection, IsInjective
  <2>5. IsFiniteSet(R) /\ Cardinality(R) \in Nat
    BY <1>3, FS_Subset, FS_CardinalityType
  <2>6. c <= Cardinality(R)
    BY <2>4, <2>5, FS_Injection DEF c
  <2> QED
    BY <1>2, <2>5, <2>6
<1>12. seqs \subseteq batch
  BY <1>6
<1> QED
  BY <1>7, <1>8, <1>10, <1>11, <1>12 DEF msg, seqs
=============================================================================
