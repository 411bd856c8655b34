---------------------------- MODULE NumberFacts ----------------------------
(***************************************************************************)
(* Facts that the proofs share.  Induction, as the existence of a least    *)
(* counterexample among natural numbers or among the subsets of a finite   *)
(* set; the order of a finite set of numbers; remainders, for a modulus    *)
(* that is not known.                                                      *)
(***************************************************************************)
EXTENDS SortedSets, Sequences, SequenceTheorems, FiniteSetTheorems, FunctionTheorems, TLAPS

\* A set of natural numbers has a least element.
LEMMA NatMin ==
  ASSUME NEW S \in SUBSET Nat, S # {}
  PROVE  \E n \in S : \A m \in S : n <= m
<1> DEFINE R == OpToRel(<, Nat)
<1>1. PICK x \in S : \A y \in S : ~(<<y, x>> \in R)
  BY NatLessThanWellFounded, WFMin
<1>2. \A y \in Nat : y < x => <<y, x>> \in R
  BY DEF OpToRel
<1> HIDE DEF R
<1>3. \A y \in S : ~(y < x)
  BY <1>1, <1>2
<1> QED
  BY <1>3

\* A set of subsets of a finite set has one without another one inside it.
LEMMA FsMin ==
  ASSUME NEW S, IsFiniteSet(S), NEW C, \A T \in C : T \subseteq S, C # {}
  PROVE  \E T \in C : \A U \in C : U \subseteq T => U = T
<1>1. IsWellFoundedOn(StrictSubsetOrdering(S), FiniteSubsetsOf(S))
  BY FS_StrictSubsetOrderingWellFounded
<1>2. C \subseteq FiniteSubsetsOf(S)
  BY FS_FiniteSubsetsOfFinite DEF FiniteSubsetsOf
<1>3. PICK x \in C : \A y \in C : ~(<<y, x>> \in StrictSubsetOrdering(S))
  BY <1>1, <1>2, WFMin
<1> QED
  BY <1>3 DEF StrictSubsetOrdering

IsAscending(s, S) ==
  /\ s \in [1 .. Cardinality(S) -> S]
  /\ \A i, j \in 1 .. Cardinality(S) : i < j => s[i] < s[j]

\* A finite set of numbers can be put in order.
LEMMA AscendingExists ==
  ASSUME NEW S \in SUBSET Nat, IsFiniteSet(S)
  PROVE  \E s : IsAscending(s, S)
<1> DEFINE C == {T \in SUBSET S : ~\E s : IsAscending(s, T)}
<1>1. CASE C = {}
  BY <1>1
<1>2. CASE C # {}
  <2>1. PICK T \in C : \A U \in C : U \subseteq T => U = T
    <3>1. (\A T \in C : T \subseteq S) /\ C # {}
      BY <1>2
    <3> HIDE DEF C
    <3> QED
      BY <3>1, FsMin
  <2>2. T \in SUBSET S /\ IsFiniteSet(T) /\ Cardinality(T) \in Nat /\ ~\E s : IsAscending(s, T)
    BY <2>1, FS_Subset, FS_CardinalityType
  <2>3. CASE T = {}
    <3>1. Cardinality(T) = 0
      BY <2>3, FS_EmptySet
    <3>2. IsAscending([i \in 1 .. 0 |-> 0], T)
      BY <3>1 DEF IsAscending
    <3> QED
      BY <2>2, <3>2
  <2>4. CASE T # {}
    <3>1. PICK m \in T : \A n \in T : m <= n
      BY <2>2, <2>4, NatMin
    <3>2. T \ {m} \in SUBSET S /\ T \ {m} \subseteq T /\ T \ {m} # T
      BY <2>2
    <3>3. PICK s : IsAscending(s, T \ {m})
      BY <2>1, <3>2
    <3>4. Cardinality(T \ {m}) = Cardinality(T) - 1 /\ Cardinality(T) - 1 \in Nat
      <4>1. Cardinality(T \ {m}) = Cardinality(T) - 1
        BY <2>2, FS_RemoveElement
      <4>2. Cardinality(T \ {m}) \in Nat
        BY <2>2, FS_RemoveElement, FS_CardinalityType
      <4> QED
        BY <4>1, <4>2
    <3> DEFINE n == Cardinality(T)
               t == [i \in 1 .. n |-> IF i = 1 THEN m ELSE s[i - 1]]
    <3>5. /\ s \in [1 .. n - 1 -> T \ {m}]
          /\ \A i, j \in 1 .. n - 1 : i < j => s[i] < s[j]
      BY <3>3, <3>4 DEF IsAscending
    <3>6. n \in Nat
      BY <2>2
    <3> HIDE DEF n
    <3>7. \A i \in 1 .. n : i # 1 => i - 1 \in 1 .. n - 1 /\ t[i] = s[i - 1] /\ t[i] \in T \ {m}
      BY <3>5, <3>6
    <3>8. t \in [1 .. n -> T]
      BY <3>7
    <3>9. ASSUME NEW i \in 1 .. n, NEW j \in 1 .. n, i < j
          PROVE  t[i] < t[j]
      <4>1. j # 1 /\ j - 1 \in 1 .. n - 1 /\ t[j] = s[j - 1] /\ t[j] \in T \ {m}
        BY <3>6, <3>7, <3>9
      <4>2. CASE i = 1
        <5>1. t[i] = m /\ m <= t[j] /\ m # t[j] /\ m \in Nat /\ t[j] \in Nat
          BY <2>2, <3>1, <4>1, <4>2
        <5> QED
          BY <5>1
      <4>3. CASE i # 1
        BY <3>5, <3>6, <3>7, <3>9, <4>1, <4>3
      <4> QED
        BY <4>2, <4>3
    <3>10. IsAscending(t, T)
      BY <3>8, <3>9 DEF IsAscending, n
    <3> QED
      BY <2>2, <3>10
  <2> QED
    BY <2>3, <2>4
<1> QED
  BY <1>1, <1>2

\* What putting a set in order gives: each of its numbers, once.
LEMMA AscendingIs ==
  ASSUME NEW S \in SUBSET Nat, IsFiniteSet(S)
  PROVE  /\ Cardinality(S) \in Nat
         /\ Ascending(S) \in [1 .. Cardinality(S) -> S]
         /\ Len(Ascending(S)) = Cardinality(S)
         /\ \A i, j \in 1 .. Cardinality(S) : i < j => Ascending(S)[i] < Ascending(S)[j]
         /\ \A i, j \in 1 .. Cardinality(S) : Ascending(S)[i] = Ascending(S)[j] => i = j
         /\ \A n \in S : \E i \in 1 .. Cardinality(S) : Ascending(S)[i] = n
<1> DEFINE c == Cardinality(S)
           a == Ascending(S)
<1>1. c \in Nat
  BY FS_CardinalityType
<1>2. \E s \in [1 .. c -> S] : \A i, j \in 1 .. c : i < j => s[i] < s[j]
  BY AscendingExists DEF IsAscending
<1>3. a \in [1 .. c -> S] /\ \A i, j \in 1 .. c : i < j => a[i] < a[j]
  BY <1>2 DEF Ascending
<1> HIDE DEF c, a
<1>4. Len(a) = c
  <2>1. a \in Seq(S)
    BY <1>1, <1>3
  <2> QED
    BY <1>1, <1>3, <2>1
<1>5. \A i, j \in 1 .. c : a[i] = a[j] => i = j
  <2> SUFFICES ASSUME NEW i \in 1 .. c, NEW j \in 1 .. c, a[i] = a[j]
               PROVE  i = j
    OBVIOUS
  <2>1. a[i] \in Nat /\ a[j] \in Nat
    BY <1>3
  <2>3. ~(a[i] < a[j]) /\ ~(a[j] < a[i])
    BY <2>1
  <2>2. ~(i < j) /\ ~(j < i)
    BY <1>3, <2>3
  <2> QED
    BY <1>1, <2>2
<1>6. \A n \in S : \E i \in 1 .. c : a[i] = n
  <2>1. a \in Injection(1 .. c, S)
    BY <1>3, <1>5 DEF Injection, IsInjective
  <2>2. IsFiniteSet(1 .. c) /\ Cardinality(1 .. c) = c
    BY <1>1, FS_Interval
  <2>3. a \in Surjection(1 .. c, S)
    BY <2>1, <2>2, FS_Injection DEF c
  <2> QED
    BY <2>3 DEF Surjection
<1> QED
  BY <1>1, <1>3, <1>4, <1>5, <1>6 DEF a, c

-----------------------------------------------------------------------------
\* A multiple of M that is nearer to 0 than M is 0.
LEMMA SmallMultiple ==
  ASSUME NEW M \in Nat \ {0}, NEW d \in Int, NEW r \in Int, -M < r, r < M, M * d = r
  PROVE  d = 0 /\ r = 0
<1>1. CASE d >= 1
  <2>1. M * (d - 1) >= 0
    BY <1>1
  <2>2. M * (d - 1) = M * d - M
    OBVIOUS
  <2> QED
    BY <2>1, <2>2
<1>2. CASE d <= -1
  <2>1. M * (-d - 1) >= 0
    BY <1>2
  <2>2. M * (-d - 1) = -(M * d) - M
    OBVIOUS
  <2> QED
    BY <2>1, <2>2
<1>3. CASE d = 0
  BY <1>3
<1> QED
  BY <1>1, <1>2, <1>3

\* A number is a multiple of M and its remainder.
LEMMA Division ==
  ASSUME NEW M \in Int, M > 0, NEW x \in Int
  PROVE  \E q \in Int : x = M * q + (x % M)
  BY SMT

\* The same, with a name for the remainder and its range.
LEMMA Remainder ==
  ASSUME NEW M \in Nat \ {0}, NEW x \in Int
  PROVE  \E q \in Int, r \in 0 .. M - 1 : x = M * q + r /\ x % M = r
<1>1. x % M \in 0 .. M - 1 /\ M \in Int /\ M > 0
  OBVIOUS
<1> QED
  BY <1>1, Division

\* There is only one way to write it so.
LEMMA RemainderUnique ==
  ASSUME NEW M \in Nat \ {0}, NEW q \in Int, NEW r \in 0 .. M - 1
  PROVE  (M * q + r) % M = r
<1> DEFINE x == M * q + r
<1>1. x \in Int
  OBVIOUS
<1> HIDE DEF x
<1>2. PICK p \in Int, t \in 0 .. M - 1 : x = M * p + t /\ x % M = t
  BY <1>1, Remainder
<1>3. M * (p - q) = M * p - M * q /\ p - q \in Int /\ M * p \in Int /\ M * q \in Int
  OBVIOUS
<1>4. M * p + t = M * q + r
  BY <1>2 DEF x
<1>5. M * (p - q) = r - t
  BY <1>3, <1>4
<1>6. r - t \in Int /\ -M < r - t /\ r - t < M
  OBVIOUS
<1>7. r - t = 0
  BY <1>3, <1>5, <1>6, SmallMultiple
<1> QED
  BY <1>2, <1>7 DEF x

\* A number that differs from x by a multiple of M has the remainder of x.
LEMMA SameRemainder ==
  ASSUME NEW M \in Nat \ {0}, NEW x \in Int, NEW y \in Int, NEW k \in Int, y = x + M * k
  PROVE  y % M = x % M
<1>1. PICK q \in Int, r \in 0 .. M - 1 : x = M * q + r /\ x % M = r
  BY Remainder
<1>2. M * (q + k) = M * q + M * k /\ q + k \in Int /\ M * q \in Int /\ M * k \in Int
  OBVIOUS
<1>3. y = M * (q + k) + r
  BY <1>1, <1>2
<1> QED
  BY <1>1, <1>2, <1>3, RemainderUnique

\* Numbers less than M apart with the same remainder are the same.
LEMMA RemainderInjective ==
  ASSUME NEW M \in Nat \ {0}, NEW x \in Int, NEW y \in Int,
         x - y < M, y - x < M, x % M = y % M
  PROVE  x = y
<1>1. PICK p \in Int, r \in 0 .. M - 1 : x = M * p + r /\ x % M = r
  BY Remainder
<1>2. PICK q \in Int, t \in 0 .. M - 1 : y = M * q + t /\ y % M = t
  BY Remainder
<1>3. M * (p - q) = M * p - M * q /\ p - q \in Int /\ M * p \in Int /\ M * q \in Int
  OBVIOUS
<1>4. M * (p - q) = x - y
  BY <1>1, <1>2, <1>3
<1>5. x - y = 0
  BY <1>3, <1>4, SmallMultiple
<1> QED
  BY <1>5

\* The remainder of a difference, from the remainders.
LEMMA RemainderOfDifference ==
  ASSUME NEW M \in Nat \ {0}, NEW x \in Int, NEW y \in Int
  PROVE  ((x % M) - (y % M)) % M = (x - y) % M
<1>1. PICK p \in Int, r \in 0 .. M - 1 : x = M * p + r /\ x % M = r
  BY Remainder
<1>2. PICK q \in Int, t \in 0 .. M - 1 : y = M * q + t /\ y % M = t
  BY Remainder
<1>3. M * (p - q) = M * p - M * q /\ p - q \in Int /\ M * p \in Int /\ M * q \in Int
  OBVIOUS
<1>4. x - y = (r - t) + M * (p - q) /\ r - t \in Int /\ x - y \in Int
  BY <1>1, <1>2, <1>3
<1>5. (x - y) % M = (r - t) % M
  BY <1>3, <1>4, SameRemainder
<1> QED
  BY <1>1, <1>2, <1>5

\* The remainder of a number at most one turn off.
LEMMA NearRemainder ==
  ASSUME NEW M \in Nat \ {0}, NEW x \in Int, -M <= x, x < M + M
  PROVE  x % M = IF x < 0 THEN x + M ELSE IF x < M THEN x ELSE x - M
<1>1. CASE x < 0
  <2>1. (M * (-1) + (x + M)) % M = x + M
    <3>1. CASE x + M < M
      BY <1>1, <3>1, RemainderUnique
    <3> QED
      BY <1>1, <3>1
  <2>2. M * (-1) + (x + M) = x
    OBVIOUS
  <2> QED
    BY <1>1, <2>1, <2>2
<1>2. CASE x >= 0 /\ x < M
  <2>1. (M * 0 + x) % M = x
    BY <1>2, RemainderUnique
  <2>2. M * 0 + x = x
    OBVIOUS
  <2> QED
    BY <1>2, <2>1, <2>2
<1>3. CASE x >= M
  <2>1. (M * 1 + (x - M)) % M = x - M
    <3>1. x - M \in 0 .. M - 1
      BY <1>3
    <3> QED
      BY <3>1, RemainderUnique
  <2>2. M * 1 + (x - M) = x
    OBVIOUS
  <2> QED
    BY <1>3, <2>1, <2>2
<1> QED
  BY <1>1, <1>2, <1>3

-----------------------------------------------------------------------------
(* Loops and sequences.                                                    *)

\* A loop of N turns from x, each of which leads from S to S, and what it does.
IsLoop(S, N, x, step) == N \in Nat /\ x \in S /\ step \in [1 .. N -> [S -> S]]
IsRun(f, S, N, x, step) == f \in [0 .. N -> S] /\ f[0] = x /\ \A n \in 1 .. N : f[n] = step[n][f[n - 1]]

\* Every loop can be run.
LEMMA IterationExists ==
  ASSUME NEW S, NEW N, NEW x, NEW step, IsLoop(S, N, x, step)
  PROVE  \E f : IsRun(f, S, N, x, step)
<1> USE DEF IsLoop, IsRun
<1> DEFINE Run(f, m) == f \in [0 .. m -> S] /\ f[0] = x /\ \A n \in 1 .. m : f[n] = step[n][f[n - 1]]
           bad == {m \in 0 .. N : ~\E f : Run(f, m)}
<1>1. CASE bad = {}
  <2>1. N \in 0 .. N
    OBVIOUS
  <2>2. PICK f : Run(f, N)
    BY <1>1, <2>1
  <2> QED
    BY <2>2
<1>2. CASE bad # {}
  <2>1. PICK m \in bad : \A k \in bad : m <= k
    <3>1. bad \in SUBSET Nat /\ bad # {}
      BY <1>2
    <3> HIDE DEF bad
    <3> QED
      BY <3>1, NatMin
  <2>2. CASE m = 0
    <3>1. Run([i \in 0 .. 0 |-> x], 0)
      OBVIOUS
    <3> QED
      BY <2>1, <2>2, <3>1
  <2>3. CASE m # 0
    <3>1. m - 1 \in 0 .. N /\ m \in 1 .. N /\ ~(m <= m - 1) /\ m - 1 \in 0 .. m - 1
      BY <2>1, <2>3
    <3>2. PICK f : Run(f, m - 1)
      BY <2>1, <3>1
    <3> DEFINE g == [i \in 0 .. m |-> IF i = m THEN step[m][f[m - 1]] ELSE f[i]]
    <3>3. step[m][f[m - 1]] \in S
      BY <3>1, <3>2
    <3>4. \A i \in 0 .. m : i # m => i \in 0 .. m - 1
      BY <3>1
    <3>5. g \in [0 .. m -> S]
      BY <3>2, <3>3, <3>4
    <3>6. g[0] = x
      BY <3>1, <3>2, <3>4
    <3>7. ASSUME NEW n \in 1 .. m
          PROVE  g[n] = step[n][g[n - 1]]
      <4>1. n \in 0 .. m /\ n - 1 \in 0 .. m /\ n - 1 # m
        BY <3>1
      <4>2. g[n - 1] = f[n - 1]
        BY <4>1
      <4>3. CASE n = m
        BY <4>1, <4>2, <4>3
      <4>4. CASE n # m
        <5>1. n \in 1 .. m - 1
          BY <3>1, <4>4
        <5> QED
          BY <3>2, <4>1, <4>2, <4>4, <5>1
      <4> QED
        BY <4>3, <4>4
    <3> HIDE DEF g
    <3>8. Run(g, m)
      BY <3>5, <3>6, <3>7
    <3> QED
      BY <2>1, <3>8
  <2> QED
    BY <2>2, <2>3
<1> QED
  BY <1>1, <1>2

\* Steps that lead from S to S never leave it.
LEMMA IterationStays ==
  ASSUME NEW S, NEW N \in Nat, NEW f, f[0] \in S,
         \A n \in 1 .. N : f[n - 1] \in S => f[n] \in S
  PROVE  \A n \in 0 .. N : f[n] \in S
<1> DEFINE bad == {m \in 0 .. N : f[m] \notin S}
<1>1. CASE bad = {}
  BY <1>1
<1>2. CASE bad # {}
  <2>1. PICK m \in bad : \A k \in bad : m <= k
    <3>1. bad \in SUBSET Nat /\ bad # {}
      BY <1>2
    <3> HIDE DEF bad
    <3> QED
      BY <3>1, NatMin
  <2>2. m # 0 /\ m \in 1 .. N /\ m - 1 \in 0 .. N /\ ~(m <= m - 1)
    BY <2>1
  <2>3. f[m - 1] \in S
    BY <2>1, <2>2
  <2> QED
    BY <2>1, <2>2, <2>3
<1> QED
  BY <1>1, <1>2

\* The rest of a sequence, from k on.
LEMMA SuffixIs ==
  ASSUME NEW T, NEW s \in Seq(T), NEW k \in 1 .. Len(s) + 1
  PROVE  /\ SubSeq(s, k, Len(s)) \in Seq(T)
         /\ Len(SubSeq(s, k, Len(s))) = Len(s) + 1 - k
         /\ \A i \in 1 .. Len(s) + 1 - k : SubSeq(s, k, Len(s))[i] = s[k + i - 1]
<1> DEFINE t == SubSeq(s, k, Len(s))
<1>1. Len(s) \in Nat /\ \A i \in k .. Len(s) : s[i] \in T
  OBVIOUS
<1>2. /\ t \in Seq(T) /\ Len(t) = IF k <= Len(s) THEN Len(s) - k + 1 ELSE 0
      /\ \A i \in 1 .. Len(s) - k + 1 : t[i] = s[k + i - 1]
  BY <1>1, SubSeqProperties
<1>3. Len(s) + 1 - k = IF k <= Len(s) THEN Len(s) - k + 1 ELSE 0
  BY <1>1
<1> HIDE DEF t
<1>4. Len(s) - k + 1 = Len(s) + 1 - k
  BY <1>1
<1>5. t \in Seq(T) /\ Len(t) = Len(s) + 1 - k /\ \A i \in 1 .. Len(s) + 1 - k : t[i] = s[k + i - 1]
  BY <1>1, <1>2, <1>3, <1>4
<1> QED
  BY <1>5 DEF t

\* Taking an element out of a sequence keeps the others in their order.
LEMMA CutOutIs ==
  ASSUME NEW T, NEW s \in Seq(T), NEW k \in 1 .. Len(s),
         NEW cut, cut = SubSeq(s, 1, k - 1) \o SubSeq(s, k + 1, Len(s))
  PROVE  /\ cut \in Seq(T)
         /\ Len(cut) = Len(s) - 1
         /\ \A i \in 1 .. Len(s) - 1 : cut[i] = IF i < k THEN s[i] ELSE s[i + 1]
<1> DEFINE front == SubSeq(s, 1, k - 1)
           back == SubSeq(s, k + 1, Len(s))
<1>1. Len(s) \in Nat /\ k \in Nat /\ 1 <= k /\ k <= Len(s)
  OBVIOUS
<1>2. /\ front \in Seq(T) /\ Len(front) = k - 1 /\ \A i \in 1 .. k - 1 : front[i] = s[i]
  <2>1. \A i \in 1 .. k - 1 : s[i] \in T
    BY <1>1
  <2>2. /\ front \in Seq(T) /\ Len(front) = IF 1 <= k - 1 THEN (k - 1) - 1 + 1 ELSE 0
        /\ \A i \in 1 .. (k - 1) - 1 + 1 : front[i] = s[1 + i - 1]
    BY <1>1, <2>1, SubSeqProperties
  <2>3. /\ k - 1 = IF 1 <= k - 1 THEN (k - 1) - 1 + 1 ELSE 0
        /\ \A i \in 1 .. k - 1 : i \in 1 .. (k - 1) - 1 + 1 /\ 1 + i - 1 = i
    BY <1>1
  <2> HIDE DEF front
  <2> QED
    BY <2>2, <2>3
<1>3. /\ back \in Seq(T) /\ Len(back) = Len(s) - k /\ \A i \in 1 .. Len(s) - k : back[i] = s[k + i]
  <2>1. \A i \in k + 1 .. Len(s) : s[i] \in T
    BY <1>1
  <2>2. /\ back \in Seq(T) /\ Len(back) = IF k + 1 <= Len(s) THEN Len(s) - (k + 1) + 1 ELSE 0
        /\ \A i \in 1 .. Len(s) - (k + 1) + 1 : back[i] = s[k + 1 + i - 1]
    BY <1>1, <2>1, SubSeqProperties
  <2>3. /\ Len(s) - k = IF k + 1 <= Len(s) THEN Len(s) - (k + 1) + 1 ELSE 0
        /\ \A i \in 1 .. Len(s) - k : i \in 1 .. Len(s) - (k + 1) + 1 /\ k + 1 + i - 1 = k + i
    BY <1>1
  <2> HIDE DEF back
  <2> QED
    BY <2>2, <2>3
<1> HIDE DEF front, back
<1> DEFINE t == front \o back
<1>5. /\ t \in Seq(T) /\ Len(t) = Len(front) + Len(back)
      /\ \A i \in 1 .. Len(front) + Len(back) : t[i] = IF i <= Len(front) THEN front[i] ELSE back[i - Len(front)]
  BY <1>2, <1>3, ConcatProperties
<1> HIDE DEF t
<1>6. Len(t) = Len(s) - 1
  BY <1>1, <1>2, <1>3, <1>5
<1>7. ASSUME NEW i \in 1 .. Len(s) - 1
      PROVE  t[i] = IF i < k THEN s[i] ELSE s[i + 1]
  <2>1. t[i] = IF i <= k - 1 THEN front[i] ELSE back[i - (k - 1)]
    BY <1>1, <1>2, <1>3, <1>5
  <2>2. CASE i < k
    <3>1. i \in 1 .. k - 1 /\ i <= k - 1
      BY <1>1, <2>2
    <3> QED
      BY <1>2, <2>1, <2>2, <3>1
  <2>3. CASE ~(i < k)
    <3>1. i - (k - 1) \in 1 .. Len(s) - k /\ ~(i <= k - 1) /\ k + (i - (k - 1)) = i + 1
      BY <1>1, <2>3
    <3>2. back[i - (k - 1)] = s[k + (i - (k - 1))]
      BY <1>3, <3>1
    <3> QED
      BY <2>1, <2>3, <3>1, <3>2
  <2> QED
    BY <2>2, <2>3
<1> QED
  BY <1>5, <1>6, <1>7 DEF t, front, back
=============================================================================
