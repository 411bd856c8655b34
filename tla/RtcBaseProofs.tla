---------------------------- MODULE RtcBaseProofs ----------------------------
(***************************************************************************)
(* Two classes of rtc_base: handles of CopyOnWriteBuffer behave as if each *)
(* had bytes of its own, for every number of handles and every size of     *)
(* buffers; and RateStatistics counts what falls into its window, for      *)
(* every window, clock and sequence of calls.                              *)
(***************************************************************************)
EXTENDS CopyOnWriteBuffer, RateStatistics, NumberFacts

Byte == {Junk} \cup UNION {Range(chunk) : chunk \in Chunks}

\* A block: what counts lies within its data.
BlockRec == [refs : Nat, size : Nat, data : Seq(Byte)]
GoodBlock == {block \in BlockRec : block.size <= Len(block.data)}

Users(b) == {g \in Handles : buffer[g] = b}

\* Types of the heap, the handles and what they should have.
BufferTypeOK ==
  /\ heap \in [Blocks -> GoodBlock]
  /\ buffer \in [Handles -> Blocks \cup {Null}]
  /\ meant \in [Handles -> Seq(Byte)]

\* The count of a block is the number of its handles.
RefsExact == \A b \in Blocks : heap[b].refs = Cardinality(Users(b))

BufferIInv == BufferTypeOK /\ RefsExact /\ \A h \in Handles : Agrees(Bytes(h), meant[h])

-----------------------------------------------------------------------------
(* BufferT: what the operations on a block do to its bytes.                *)

\* Max and Min of two numbers.
LEMMA MaxMinOfTwo ==
  ASSUME NEW a \in Int, NEW b \in Int
  PROVE  /\ Max({a, b}) = IF a >= b THEN a ELSE b
         /\ Min({a, b}) = IF a <= b THEN a ELSE b
  BY DEF Max, Min

\* A chunk is a sequence of bytes.
LEMMA ChunkBytes ==
  ASSUME NEW chunk \in Chunks
  PROVE  chunk \in Seq(Byte)
<1>1. chunk \in Seq(Range(chunk)) /\ Range(chunk) \subseteq Byte
  BY BufferAssumption DEF Byte
<1> QED
  BY <1>1

\* Bytes that nothing wrote.
LEMMA JunkIsBytes ==
  ASSUME NEW n \in Nat
  PROVE  JunkBytes(n) \in Seq(Byte) /\ Len(JunkBytes(n)) = n
  BY DEF JunkBytes, Byte

\* The bytes of a block are the first size of its data.
LEMMA BytesOfBlock ==
  ASSUME NEW block \in GoodBlock
  PROVE  /\ BufferBytes(block) \in Seq(Byte)
         /\ Len(BufferBytes(block)) = block.size
         /\ \A i \in 1 .. block.size : BufferBytes(block)[i] = block.data[i]
  BY DEF GoodBlock, BlockRec, BufferBytes

\* A new block has the bytes it is given and the room it is asked for.
LEMMA NewBufferBytes ==
  ASSUME NEW bytes \in Seq(Byte), NEW capacity \in Nat
  PROVE  /\ NewBuffer(bytes, capacity) \in GoodBlock
         /\ NewBuffer(bytes, capacity).refs = 0
         /\ NewBuffer(bytes, capacity).size = Len(bytes)
         /\ BufferBytes(NewBuffer(bytes, capacity)) = bytes
         /\ Capacity(NewBuffer(bytes, capacity)) >= capacity
         /\ Capacity(NewBuffer(bytes, capacity)) >= Len(bytes)
<1> DEFINE m == Max({0, capacity - Len(bytes)})
           new == NewBuffer(bytes, capacity)
<1>1. m \in Nat /\ m >= capacity - Len(bytes)
  BY MaxMinOfTwo
<1> HIDE DEF m
<1>2. /\ bytes \o JunkBytes(m) \in Seq(Byte)
      /\ Len(bytes \o JunkBytes(m)) = Len(bytes) + m
      /\ \A i \in 1 .. Len(bytes) : (bytes \o JunkBytes(m))[i] = bytes[i]
  <2>1. JunkBytes(m) \in Seq(Byte) /\ Len(JunkBytes(m)) = m
    BY <1>1, JunkIsBytes
  <2>2. Len(bytes) \in Nat
    OBVIOUS
  <2> HIDE DEF new
  <2>3. /\ bytes \o JunkBytes(m) \in Seq(Byte)
        /\ Len(bytes \o JunkBytes(m)) = Len(bytes) + m
        /\ \A i \in 1 .. Len(bytes) + m :
             (bytes \o JunkBytes(m))[i] = IF i <= Len(bytes) THEN bytes[i]
                                          ELSE JunkBytes(m)[i - Len(bytes)]
    BY <2>1, ConcatProperties
  <2> QED
    BY <1>1, <2>2, <2>3
<1>3. new = [refs |-> 0, size |-> Len(bytes), data |-> bytes \o JunkBytes(m)]
  BY DEF NewBuffer, m
<1>4. new \in GoodBlock
  BY <1>1, <1>2, <1>3 DEF GoodBlock, BlockRec
<1>5. BufferBytes(new) = bytes
  <2>1. BufferBytes(new) \in Seq(Byte) /\ Len(BufferBytes(new)) = Len(bytes)
        /\ \A i \in 1 .. Len(bytes) : BufferBytes(new)[i] = bytes[i]
    <3>1. new.size = Len(bytes) /\ new.data = bytes \o JunkBytes(m)
      BY <1>3
    <3> QED
      BY <1>2, <1>4, <3>1, BytesOfBlock
  <2> QED
    BY <2>1, SeqEqual
<1> QED
  BY <1>1, <1>2, <1>3, <1>4, <1>5 DEF Capacity

\* More room changes nothing else.
LEMMA EnsureCapacityBytes ==
  ASSUME NEW block \in GoodBlock, NEW capacity \in Nat, NEW extra \in BOOLEAN
  PROVE  LET new == EnsureCapacityWithHeadroom(block, capacity, extra)
         IN  /\ new \in GoodBlock
             /\ new.refs = block.refs /\ new.size = block.size
             /\ BufferBytes(new) = BufferBytes(block)
             /\ Capacity(new) >= capacity
<1> DEFINE new == EnsureCapacityWithHeadroom(block, capacity, extra)
           old == Capacity(block)
           room == IF extra THEN Max({capacity, old + old \div 2}) ELSE capacity
           bytes == BufferBytes(block)
<1>1. old \in Nat /\ block.size <= old /\ block.size \in Nat /\ block.refs \in Nat
  BY DEF GoodBlock, BlockRec, Capacity
<1>2. CASE capacity <= old
  BY <1>1, <1>2 DEF EnsureCapacityWithHeadroom
<1>3. CASE ~(capacity <= old)
  <2>1. old + old \div 2 \in Nat
    BY <1>1
  <2>2. room \in Nat /\ room >= capacity
    BY <2>1, MaxMinOfTwo
  <2> HIDE DEF room
  <2>3. new = [block EXCEPT !.data = NewBuffer(bytes, room).data]
    BY <1>3 DEF EnsureCapacityWithHeadroom, room
  <2>4. bytes \in Seq(Byte) /\ Len(bytes) = block.size
    BY BytesOfBlock
  <2> DEFINE fresh == NewBuffer(bytes, room)
  <2>5. /\ fresh \in GoodBlock /\ fresh.size = block.size /\ BufferBytes(fresh) = bytes
        /\ Capacity(fresh) >= room
    BY <2>2, <2>4, NewBufferBytes
  <2> HIDE DEF fresh
  <2>6. new = [refs |-> block.refs, size |-> block.size, data |-> fresh.data]
    BY <2>3 DEF GoodBlock, BlockRec, fresh
  <2>7. new \in GoodBlock
    BY <1>1, <2>5, <2>6 DEF GoodBlock, BlockRec
  <2>8. Capacity(new) >= capacity
    BY <2>2, <2>5, <2>6 DEF Capacity, GoodBlock, BlockRec
  <2>9. BufferBytes(new) = bytes
    <3>1. new.size = fresh.size /\ new.data = fresh.data
      BY <2>5, <2>6
    <3> QED
      BY <2>5, <3>1 DEF BufferBytes
  <2> QED
    BY <2>6, <2>7, <2>8, <2>9
<1> QED
  BY <1>2, <1>3

\* BufferAppendData puts the bytes after those of the block.
LEMMA AppendDataBytes ==
  ASSUME NEW block \in GoodBlock, NEW bytes \in Seq(Byte)
  PROVE  LET new == BufferAppendData(block, bytes)
         IN  /\ new \in GoodBlock /\ new.refs = block.refs
             /\ BufferBytes(new) = BufferBytes(block) \o bytes
<1> DEFINE n == Len(bytes)
           size == block.size + n
           room == EnsureCapacityWithHeadroom(block, size, TRUE)
           data == [i \in DOMAIN room.data |->
                      IF i \in block.size + 1 .. size THEN bytes[i - block.size] ELSE room.data[i]]
           new == BufferAppendData(block, bytes)
<1>1. block.size \in Nat /\ n \in Nat /\ size \in Nat /\ block.refs \in Nat
  BY DEF GoodBlock, BlockRec
<1>2. /\ room \in GoodBlock /\ room.refs = block.refs /\ room.size = block.size
      /\ BufferBytes(room) = BufferBytes(block) /\ Len(room.data) >= size
  <2> HIDE DEF size
  <2> QED
    BY <1>1, EnsureCapacityBytes DEF Capacity
<1>3. room.data \in Seq(Byte) /\ DOMAIN room.data = 1 .. Len(room.data) /\ Len(room.data) \in Nat
      /\ room = [refs |-> block.refs, size |-> block.size, data |-> room.data]
  <2> HIDE DEF room
  <2>1. room \in BlockRec
    BY <1>2 DEF GoodBlock
  <2>2. room = [refs |-> room.refs, size |-> room.size, data |-> room.data]
    BY <2>1 DEF BlockRec
  <2>3. room.data \in Seq(Byte)
    BY <2>1 DEF BlockRec
  <2> QED
    BY <1>2, <2>2, <2>3
<1>4. new = [room EXCEPT !.size = size, !.data = data]
  BY DEF BufferAppendData
<1> HIDE DEF room, new
<1>5. data \in Seq(Byte) /\ Len(data) = Len(room.data)
      /\ \A i \in 1 .. Len(room.data) :
           data[i] = IF i \in block.size + 1 .. size THEN bytes[i - block.size] ELSE room.data[i]
  <2>1. ASSUME NEW i \in 1 .. Len(room.data)
        PROVE  (IF i \in block.size + 1 .. size THEN bytes[i - block.size] ELSE room.data[i]) \in Byte
    <3>1. CASE i \in block.size + 1 .. size
      <4>1. i - block.size \in 1 .. n
        BY <1>1, <3>1
      <4> HIDE DEF size
      <4> QED
        BY <3>1, <4>1
    <3>2. CASE i \notin block.size + 1 .. size
      BY <1>3, <3>2
    <3> QED
      BY <3>1, <3>2
  <2>2. data \in [1 .. Len(room.data) -> Byte]
    BY <1>3, <2>1
  <2> QED
    BY <1>3, <2>2
<1> HIDE DEF data
<1>6. new = [refs |-> block.refs, size |-> size, data |-> data]
  <2>1. new = [[refs |-> block.refs, size |-> block.size, data |-> room.data]
                 EXCEPT !.size = size, !.data = data]
    BY <1>3, <1>4
  <2> QED
    BY <2>1
<1>7. new \in GoodBlock
  BY <1>1, <1>2, <1>3, <1>5, <1>6 DEF GoodBlock, BlockRec
<1>8. BufferBytes(block) \in Seq(Byte) /\ Len(BufferBytes(block)) = block.size
      /\ \A i \in 1 .. block.size : BufferBytes(block)[i] = room.data[i]
  BY <1>2, BytesOfBlock
<1>9. BufferBytes(new) = BufferBytes(block) \o bytes
  <2>1. /\ BufferBytes(new) \in Seq(Byte) /\ Len(BufferBytes(new)) = size
        /\ \A i \in 1 .. size : BufferBytes(new)[i] = data[i]
    BY <1>6, <1>7, BytesOfBlock
  <2>2. /\ BufferBytes(block) \o bytes \in Seq(Byte) /\ Len(BufferBytes(block) \o bytes) = size
        /\ \A i \in 1 .. size :
             (BufferBytes(block) \o bytes)[i] =
               IF i <= block.size THEN BufferBytes(block)[i] ELSE bytes[i - block.size]
    <3> DEFINE front == BufferBytes(block)
    <3>1. front \in Seq(Byte) /\ Len(front) = block.size
      BY <1>8
    <3> HIDE DEF front, size, n
    <3>2. /\ front \o bytes \in Seq(Byte) /\ Len(front \o bytes) = Len(front) + Len(bytes)
          /\ \A i \in 1 .. Len(front) + Len(bytes) :
               (front \o bytes)[i] = IF i <= Len(front) THEN front[i] ELSE bytes[i - Len(front)]
      <4>1. front \in Seq(Byte)
        BY <3>1
      <4> QED
        BY <4>1, ConcatProperties
    <3> QED
      BY <3>1, <3>2 DEF front, size, n
  <2>3. ASSUME NEW i \in 1 .. size
        PROVE  BufferBytes(new)[i] = (BufferBytes(block) \o bytes)[i]
    <3>1. i \in 1 .. Len(room.data) /\ (i <= block.size => i \in 1 .. block.size)
          /\ (i \in block.size + 1 .. size <=> ~(i <= block.size))
      BY <1>1, <1>2, <1>3
    <3> HIDE DEF size
    <3> QED
      BY <1>5, <1>8, <2>1, <2>2, <3>1
  <2> HIDE DEF size
  <2> QED
    BY <2>1, <2>2, <2>3, SeqEqual
<1> QED
  BY <1>6, <1>7, <1>9 DEF new

\* BufferSetData replaces the bytes.
LEMMA SetDataBytes ==
  ASSUME NEW block \in GoodBlock, NEW bytes \in Seq(Byte)
  PROVE  LET new == BufferSetData(block, bytes)
         IN  new \in GoodBlock /\ new.refs = block.refs /\ BufferBytes(new) = bytes
<1> DEFINE empty == [block EXCEPT !.size = 0]
<1>1. /\ empty \in GoodBlock /\ empty.refs = block.refs
      /\ empty.size = 0
  BY DEF GoodBlock, BlockRec
<1> HIDE DEF empty
<1>2. BufferBytes(empty) = <<>>
  <2>1. BufferBytes(empty) \in Seq(Byte) /\ Len(BufferBytes(empty)) = 0
    BY <1>1, BytesOfBlock
  <2> QED
    BY <2>1, EmptySeq
<1>3. <<>> \o bytes = bytes
  BY ConcatEmptySeq
<1> QED
  BY <1>1, <1>2, <1>3, AppendDataBytes DEF BufferSetData, empty

\* BufferSetSize keeps the bytes that stay.
LEMMA SetSizeBytes ==
  ASSUME NEW block \in GoodBlock, NEW size \in Nat
  PROVE  LET new == BufferSetSize(block, size)
         IN  /\ new \in GoodBlock /\ new.refs = block.refs
             /\ Len(BufferBytes(new)) = size
             /\ \A i \in 1 .. size :
                  i <= block.size => BufferBytes(new)[i] = BufferBytes(block)[i]
<1> DEFINE room == EnsureCapacityWithHeadroom(block, size, TRUE)
           new == BufferSetSize(block, size)
<1>1. /\ room \in GoodBlock /\ room.refs = block.refs /\ room.size = block.size
      /\ BufferBytes(room) = BufferBytes(block) /\ Len(room.data) >= size
  BY EnsureCapacityBytes DEF Capacity
<1>2. new = [room EXCEPT !.size = size]
  BY DEF BufferSetSize
<1> HIDE DEF room, new
<1>3. new \in GoodBlock /\ new.refs = block.refs /\ new.size = size /\ new.data = room.data
  BY <1>1, <1>2 DEF GoodBlock, BlockRec
<1>4. /\ Len(BufferBytes(new)) = size
      /\ \A i \in 1 .. size : BufferBytes(new)[i] = room.data[i]
  BY <1>3, BytesOfBlock
<1>5. \A i \in 1 .. block.size : BufferBytes(block)[i] = room.data[i]
  BY <1>1, BytesOfBlock
<1>6. block.size \in Nat
  BY DEF GoodBlock, BlockRec
<1>7. ASSUME NEW i \in 1 .. size, i <= block.size
      PROVE  BufferBytes(new)[i] = BufferBytes(block)[i]
  <2>1. i \in 1 .. block.size
    BY <1>6, <1>7
  <2> QED
    BY <1>4, <1>5, <2>1
<1> QED
  BY <1>3, <1>4, <1>7 DEF new

-----------------------------------------------------------------------------
(* Pointers: who has which block.                                          *)

\* The step gives handle h these bytes, leaves the others theirs, and the
\* counts are right.
Gets(h, bytes) ==
  /\ heap' \in [Blocks -> GoodBlock]
  /\ buffer' \in [Handles -> Blocks \cup {Null}]
  /\ RefsExact'
  /\ Bytes(h)' = bytes
  /\ \A g \in Handles \ {h} : Bytes(g)' = Bytes(g)

\* The counts are those of finite sets of handles.
LEMMA UsersFinite ==
  \A b : IsFiniteSet(Users(b)) /\ Cardinality(Users(b)) \in Nat
<1> SUFFICES ASSUME NEW b
             PROVE  IsFiniteSet(Users(b)) /\ Cardinality(Users(b)) \in Nat
  OBVIOUS
<1>1. IsFiniteSet(Handles) /\ Users(b) \in SUBSET Handles
  BY BufferAssumption DEF Users
<1> QED
  BY <1>1, FS_Subset, FS_CardinalityType

\* Null is no block.
LEMMA NullIsNoBlock == Null \notin Blocks
  BY DEF Null, Blocks

\* There are more blocks than handles, so that Allocate finds one.
LEMMA FreeBlock ==
  ASSUME BufferTypeOK, RefsExact
  PROVE  \E b \in Blocks : heap[b].refs = 0
<1> SUFFICES ASSUME \A b \in Blocks : heap[b].refs # 0
             PROVE  FALSE
  OBVIOUS
<1> DEFINE Having == {g \in Handles : buffer[g] \in Blocks}
           f == [g \in Having |-> buffer[g]]
<1>1. IsFiniteSet(Handles) /\ Cardinality(Handles) \in Nat
  BY BufferAssumption, FS_CardinalityType
<1>2. IsFiniteSet(Having) /\ Cardinality(Having) <= Cardinality(Handles) /\ Cardinality(Having) \in Nat
  BY <1>1, FS_Subset, FS_CardinalityType
<1>3. \A b \in Blocks : Users(b) # {}
  BY FS_EmptySet DEF RefsExact
<1>4. f \in Surjection(Having, Blocks)
  BY <1>3 DEF Surjection, Users
<1>5. Cardinality(Blocks) <= Cardinality(Having)
  BY <1>2, <1>4, FS_Surjection
<1>6. Cardinality(Blocks) = Cardinality(Handles) + 1
  <2> DEFINE n == Cardinality(Handles) + 1
  <2>1. n \in Int /\ n >= 1
    BY <1>1
  <2> HIDE DEF n
  <2>2. Cardinality(1 .. n) = n
    BY <2>1, FS_Interval
  <2> QED
    BY <2>2 DEF n, Blocks
<1> QED
  BY <1>1, <1>2, <1>5, <1>6

\* Another count is all that changes.
LEMMA WithRefs ==
  ASSUME NEW block \in GoodBlock, NEW n \in Nat
  PROVE  LET new == [block EXCEPT !.refs = n]
         IN  /\ new \in GoodBlock /\ new.refs = n
             /\ new.size = block.size /\ new.data = block.data
  BY DEF GoodBlock, BlockRec

\* operator= of a pointer, from a heap whose counts are right for the pointers
\* as they are and in which the blocks in use are untouched.
LEMMA PointToGets ==
  ASSUME BufferTypeOK, RefsExact, NEW h \in Handles, NEW b \in Blocks \cup {Null},
         NEW blocks \in [Blocks -> GoodBlock],
         \A c \in Blocks : blocks[c].refs = Cardinality(Users(c)),
         \A c \in Blocks : Users(c) # {} => blocks[c] = heap[c],
         PointTo(h, b, blocks)
  PROVE  Gets(h, IF b = Null THEN <<>> ELSE BufferBytes(blocks[b]))
<1> DEFINE old == buffer[h]
           taken == AddRef(blocks, b)
<1>1. old \in Blocks \cup {Null}
  BY DEF BufferTypeOK
<1>2. heap' = Release(taken, old) /\ buffer' = [buffer EXCEPT ![h] = b]
  BY DEF PointTo
<1>3. /\ \A g \in Handles : buffer'[g] = IF g = h THEN b ELSE buffer[g]
      /\ buffer' \in [Handles -> Blocks \cup {Null}]
  BY <1>2 DEF BufferTypeOK
<1>4. ASSUME NEW c \in Blocks
      PROVE  /\ taken[c].refs = Cardinality(Users(c)) + (IF c = b THEN 1 ELSE 0)
             /\ taken[c].size = blocks[c].size /\ taken[c].data = blocks[c].data
             /\ taken[c] \in GoodBlock
  <2>1. blocks[c] \in GoodBlock /\ blocks[c].refs = Cardinality(Users(c)) /\ Cardinality(Users(c)) \in Nat
    BY UsersFinite
  <2>2. CASE c = b
    <3>1. taken[c] = [blocks[c] EXCEPT !.refs = blocks[c].refs + 1]
      BY <2>2, NullIsNoBlock DEF AddRef
    <3>2. blocks[c].refs + 1 \in Nat
      BY <2>1
    <3> QED
      BY <2>1, <2>2, <3>1, <3>2, WithRefs
  <2>3. CASE c # b
    <3>1. taken[c] = blocks[c]
      BY <2>3 DEF AddRef
    <3> QED
      BY <2>1, <2>3, <3>1
  <2> QED
    BY <2>2, <2>3
<1>5. taken \in [Blocks -> GoodBlock]
  <2>1. DOMAIN taken = Blocks /\ taken = [c \in Blocks |-> taken[c]]
    BY DEF AddRef
  <2> QED
    BY <1>4, <2>1
<1> HIDE DEF taken
<1>6. ASSUME NEW c \in Blocks
      PROVE  /\ heap'[c] \in GoodBlock
             /\ heap'[c].refs = Cardinality(Users(c)')
             /\ Users(c)' # {} => heap'[c].size = blocks[c].size /\ heap'[c].data = blocks[c].data
  <2>1. /\ IsFiniteSet(Users(c)) /\ Cardinality(Users(c)) \in Nat
        /\ (h \in Users(c) <=> c = old) /\ (h \in Users(c) => Cardinality(Users(c)) # 0)
    BY UsersFinite, FS_EmptySet DEF Users
  <2>2. Users(c)' = IF c = b THEN Users(c) \cup {h} ELSE Users(c) \ {h}
    BY <1>3 DEF Users
  <2>3. Cardinality(Users(c)') = IF c = b THEN (IF c = old THEN Cardinality(Users(c)) ELSE Cardinality(Users(c)) + 1)
                                 ELSE (IF c = old THEN Cardinality(Users(c)) - 1 ELSE Cardinality(Users(c)))
    <3>1. CASE c = b
      <4>1. Cardinality(Users(c) \cup {h})
              = IF h \in Users(c) THEN Cardinality(Users(c)) ELSE Cardinality(Users(c)) + 1
        BY <2>1, FS_AddElement
      <4> QED
        BY <2>1, <2>2, <3>1, <4>1
    <3>2. CASE c # b
      BY <2>1, <2>2, <3>2, FS_RemoveElement
    <3> QED
      BY <3>1, <3>2
  <2>4. IsFiniteSet(Users(c)') /\ Cardinality(Users(c)') \in Nat
    BY <2>1, <2>2, FS_AddElement, FS_RemoveElement, FS_CardinalityType
  <2>5. CASE c # old
    <3>1. heap'[c] = taken[c]
      BY <1>2, <1>5, <2>5 DEF Release
    <3> QED
      BY <1>4, <2>1, <2>3, <2>5, <3>1
  <2>6. CASE c = old /\ taken[c].refs = 1
    <3>1. heap'[c] = Freed
      BY <1>2, <1>5, <2>6, NullIsNoBlock DEF Release
    <3>2. Cardinality(Users(c)') = 0
      BY <1>4, <2>1, <2>3, <2>6
    <3>3. Users(c)' = {}
      BY <2>4, <3>2, FS_EmptySet
    <3>4. Freed \in GoodBlock /\ Freed.refs = 0
      BY DEF Freed, GoodBlock, BlockRec
    <3> QED
      BY <3>1, <3>2, <3>3, <3>4
  <2>7. CASE c = old /\ taken[c].refs # 1
    <3>1. heap'[c] = [taken[c] EXCEPT !.refs = taken[c].refs - 1]
      <4>1. heap' = [taken EXCEPT ![old] =
                       IF taken[old].refs = 1 THEN Freed
                       ELSE [taken[old] EXCEPT !.refs = taken[old].refs - 1]]
        BY <1>2, <2>7, NullIsNoBlock DEF Release
      <4> QED
        BY <1>5, <2>7, <4>1
    <3>2. taken[c].refs - 1 = Cardinality(Users(c)')
      BY <1>4, <2>1, <2>3, <2>7
    <3> QED
      BY <1>4, <2>4, <3>1, <3>2, WithRefs
  <2> QED
    BY <2>5, <2>6, <2>7
<1>7. heap' \in [Blocks -> GoodBlock]
  <2>1. heap' = [c \in Blocks |-> heap'[c]]
    BY <1>2, <1>5 DEF Release
  <2> QED
    BY <1>6, <2>1
<1>8. RefsExact'
  BY <1>6 DEF RefsExact
<1>9. Bytes(h)' = IF b = Null THEN <<>> ELSE BufferBytes(blocks[b])
  <2>1. CASE b = Null
    BY <1>3, <2>1 DEF Bytes
  <2>2. CASE b # Null
    <3>1. b \in Blocks /\ h \in Users(b)' /\ buffer'[h] = b
      BY <1>3, <2>2 DEF Users
    <3> QED
      BY <1>6, <2>2, <3>1 DEF Bytes, Block, BufferBytes
  <2> QED
    BY <2>1, <2>2
<1>10. ASSUME NEW g \in Handles \ {h}
       PROVE  Bytes(g)' = Bytes(g)
  <2>1. buffer'[g] = buffer[g] /\ buffer[g] \in Blocks \cup {Null}
    BY <1>3 DEF BufferTypeOK
  <2>2. CASE buffer[g] = Null
    BY <2>1, <2>2 DEF Bytes
  <2>3. CASE buffer[g] # Null
    <3>1. PICK c \in Blocks : c = buffer[g]
      BY <2>1, <2>3
    <3>2. g \in Users(c)' /\ g \in Users(c)
      BY <2>1, <3>1 DEF Users
    <3>3. heap'[c].size = heap[c].size /\ heap'[c].data = heap[c].data
      BY <1>6, <3>2
    <3> QED
      BY <2>1, <2>3, <3>1, <3>3 DEF Bytes, Block, BufferBytes
  <2> QED
    BY <2>2, <2>3
<1> QED
  BY <1>3, <1>7, <1>8, <1>9, <1>10 DEF Gets

\* buffer_ = new RefCountedObject<Buffer>(...)
LEMMA AllocateGets ==
  ASSUME BufferTypeOK, RefsExact, NEW h \in Handles,
         NEW block \in GoodBlock, block.refs = 0, Allocate(h, block)
  PROVE  Gets(h, BufferBytes(block))
<1> DEFINE fresh == CHOOSE free \in Blocks : heap[free].refs = 0
<1>1. PICK b : b = fresh
  OBVIOUS
<1>2. b \in Blocks /\ heap[b].refs = 0
  BY <1>1, FreeBlock
<1>3. PointTo(h, b, [heap EXCEPT ![b] = block])
  BY <1>1 DEF Allocate
<1> HIDE DEF fresh
<1>4. PICK blocks : blocks = [heap EXCEPT ![b] = block]
  OBVIOUS
<1>5. blocks \in [Blocks -> GoodBlock] /\ blocks[b] = block
  BY <1>2, <1>4 DEF BufferTypeOK
<1>6. Users(b) = {}
  BY <1>2, UsersFinite, FS_EmptySet DEF RefsExact
<1>7. \A c \in Blocks : blocks[c].refs = Cardinality(Users(c))
  BY <1>2, <1>4, <1>5 DEF RefsExact, BufferTypeOK
<1>8. \A c \in Blocks : Users(c) # {} => blocks[c] = heap[c]
  BY <1>4, <1>6 DEF BufferTypeOK
<1>9. b # Null
  BY <1>2, NullIsNoBlock
<1> QED
  BY <1>2, <1>3, <1>4, <1>5, <1>7, <1>8, <1>9, PointToGets

\* A pointer to nothing, and to what another handle has.
LEMMA SharingGets ==
  ASSUME BufferTypeOK, RefsExact, NEW h \in Handles
  PROVE  /\ PointTo(h, Null, heap) => Gets(h, <<>>)
         /\ \A g \in Handles : PointTo(h, buffer[g], heap) => Gets(h, Bytes(g))
<1>1. PICK blocks : blocks = heap
  OBVIOUS
<1>2. /\ blocks \in [Blocks -> GoodBlock]
      /\ \A c \in Blocks : blocks[c].refs = Cardinality(Users(c))
      /\ \A c \in Blocks : Users(c) # {} => blocks[c] = heap[c]
  BY <1>1 DEF BufferTypeOK, RefsExact
<1>3. ASSUME PointTo(h, Null, heap)
      PROVE  Gets(h, <<>>)
  BY <1>1, <1>2, <1>3, PointToGets
<1>4. ASSUME NEW g \in Handles, PointTo(h, buffer[g], heap)
      PROVE  Gets(h, Bytes(g))
  <2>1. PICK b \in Blocks \cup {Null} : b = buffer[g]
    BY DEF BufferTypeOK
  <2>2. PointTo(h, b, blocks)
    BY <1>1, <1>4, <2>1
  <2>3. Gets(h, IF b = Null THEN <<>> ELSE BufferBytes(blocks[b]))
    BY <1>2, <2>2, PointToGets
  <2>4. Bytes(g) = IF b = Null THEN <<>> ELSE BufferBytes(blocks[b])
    BY <1>1, <2>1 DEF Bytes, Block
  <2> QED
    BY <2>3, <2>4
<1> QED
  BY <1>3, <1>4

\* A block that only one handle has is changed in place.
LEMMA WriteGets ==
  ASSUME BufferTypeOK, RefsExact, NEW h \in Handles, buffer[h] # Null, HasOneRef(buffer[h]),
         NEW block \in GoodBlock, block.refs = 1, WriteBlock(h, block)
  PROVE  Gets(h, BufferBytes(block))
<1>1. PICK b \in Blocks : b = buffer[h]
  BY DEF BufferTypeOK
<1>2. heap' = [heap EXCEPT ![b] = block] /\ buffer' = buffer
  BY <1>1 DEF WriteBlock
<1>3. heap' \in [Blocks -> GoodBlock] /\ heap'[b] = block /\ \A c \in Blocks \ {b} : heap'[c] = heap[c]
  BY <1>1, <1>2 DEF BufferTypeOK
<1>4. buffer' \in [Handles -> Blocks \cup {Null}]
  BY <1>2 DEF BufferTypeOK
<1>5. heap[b].refs = 1 /\ Cardinality(Users(b)) = 1
  BY <1>1 DEF HasOneRef, RefsExact
<1>6. \A c \in Blocks : Users(c)' = Users(c)
  BY <1>2 DEF Users
<1>7. RefsExact'
  BY <1>3, <1>5, <1>6 DEF RefsExact
<1>8. Users(b) = {h}
  <2>1. PICK x : Users(b) = {x}
    BY <1>5, UsersFinite, FS_Singleton
  <2>2. h \in Users(b)
    BY <1>1 DEF Users
  <2> QED
    BY <2>1, <2>2
<1>9. Bytes(h)' = BufferBytes(block)
  BY <1>1, <1>2, <1>3, NullIsNoBlock DEF Bytes, Block
<1>10. ASSUME NEW g \in Handles \ {h}
       PROVE  Bytes(g)' = Bytes(g)
  <2>1. buffer'[g] = buffer[g] /\ buffer[g] # b /\ buffer[g] \in Blocks \cup {Null}
    BY <1>2, <1>8 DEF Users, BufferTypeOK
  <2> QED
    BY <1>3, <2>1 DEF Bytes, Block
<1> QED
  BY <1>3, <1>4, <1>7, <1>9, <1>10 DEF Gets

\* The block itself if no other handle has it, or a copy.
LEMMA OwnedGets ==
  ASSUME BufferTypeOK, RefsExact, NEW h \in Handles, buffer[h] # Null,
         NEW block \in GoodBlock,
         block.refs = IF HasOneRef(buffer[h]) THEN 1 ELSE 0, Owned(h, block)
  PROVE  Gets(h, BufferBytes(block))
  BY AllocateGets, WriteGets DEF Owned

\* What data() and the others work on has the bytes of the handle.
LEMMA CloneBytes ==
  ASSUME BufferTypeOK, NEW h \in Handles, buffer[h] # Null, NEW capacity \in Nat
  PROVE  LET own == CloneDataIfReferenced(h, capacity)
         IN  /\ own \in GoodBlock /\ own.refs = IF HasOneRef(buffer[h]) THEN 1 ELSE 0
             /\ BufferBytes(own) = Bytes(h)
             /\ own.size = Block(h).size
<1>1. Block(h) \in GoodBlock /\ Bytes(h) = BufferBytes(Block(h))
  BY DEF BufferTypeOK, Block, Bytes
<1>2. CASE HasOneRef(buffer[h])
  BY <1>1, <1>2 DEF CloneDataIfReferenced, HasOneRef, Block
<1>3. CASE ~HasOneRef(buffer[h])
  <2>1. BufferBytes(Block(h)) \in Seq(Byte) /\ Len(BufferBytes(Block(h))) = Block(h).size
    BY <1>1, BytesOfBlock
  <2> QED
    BY <1>1, <1>3, <2>1, NewBufferBytes DEF CloneDataIfReferenced
<1> QED
  BY <1>2, <1>3

\* A call that does nothing leaves every handle its bytes.
LEMMA IdleGets ==
  ASSUME BufferTypeOK, RefsExact, NEW h \in Handles, UNCHANGED <<heap, buffer>>
  PROVE  Gets(h, Bytes(h))
<1>1. heap' \in [Blocks -> GoodBlock] /\ buffer' \in [Handles -> Blocks \cup {Null}]
  BY DEF BufferTypeOK
<1>2. RefsExact'
  BY DEF RefsExact, Users
<1>3. \A g \in Handles : Bytes(g)' = Bytes(g)
  BY DEF Bytes, Block
<1> QED
  BY <1>1, <1>2, <1>3 DEF Gets

-----------------------------------------------------------------------------
(* The operations: the bytes that each leaves its handle.                  *)

\* The bytes of a handle.
LEMMA BytesType ==
  ASSUME BufferTypeOK, NEW h \in Handles
  PROVE  /\ Bytes(h) \in Seq(Byte)
         /\ buffer[h] = Null => Bytes(h) = <<>>
         /\ buffer[h] # Null => /\ Block(h) \in GoodBlock
                                /\ Capacity(Block(h)) \in Nat /\ Block(h).size \in Nat
                                /\ Bytes(h) = BufferBytes(Block(h))
                                /\ Len(Bytes(h)) = Block(h).size
<1>1. CASE buffer[h] = Null
  BY <1>1 DEF Bytes
<1>2. CASE buffer[h] # Null
  <2>1. Block(h) \in GoodBlock /\ Bytes(h) = BufferBytes(Block(h))
    BY <1>2 DEF BufferTypeOK, Block, Bytes
  <2>2. Capacity(Block(h)) \in Nat /\ Block(h).size \in Nat
    BY <2>1 DEF GoodBlock, BlockRec, Capacity
  <2> QED
    BY <1>2, <2>1, <2>2, BytesOfBlock
<1> QED
  BY <1>1, <1>2

\* The constructors.
LEMMA ConstructGets ==
  ASSUME BufferTypeOK, RefsExact, NEW h \in Handles, NEW bytes \in Seq(Byte),
         NEW capacity \in Nat, Construct(h, bytes, capacity)
  PROVE  Gets(h, bytes)
<1>1. CASE bytes = <<>> /\ capacity = 0
  BY <1>1, SharingGets DEF Construct
<1>2. CASE ~(bytes = <<>> /\ capacity = 0)
  BY <1>2, NewBufferBytes, AllocateGets DEF Construct
<1> QED
  BY <1>1, <1>2

\* SetData.
LEMMA SetDataGets ==
  ASSUME BufferTypeOK, RefsExact, NEW h \in Handles, NEW bytes \in Seq(Byte), SetData(h, bytes)
  PROVE  Gets(h, bytes)
<1>1. CASE buffer[h] = Null /\ bytes = <<>>
  <2>1. UNCHANGED <<heap, buffer>> /\ Bytes(h) = bytes
    BY <1>1, BytesType DEF SetData
  <2> QED
    BY <2>1, IdleGets
<1>2. CASE buffer[h] = Null /\ bytes # <<>>
  BY <1>2, NewBufferBytes, AllocateGets DEF SetData
<1>3. CASE buffer[h] # Null /\ HasOneRef(buffer[h])
  <2>1. WriteBlock(h, BufferSetData(Block(h), bytes)) /\ Block(h) \in GoodBlock /\ Block(h).refs = 1
    BY <1>3, BytesType DEF SetData, HasOneRef, Block
  <2> QED
    BY <1>3, <2>1, SetDataBytes, WriteGets
<1>4. CASE buffer[h] # Null /\ ~HasOneRef(buffer[h])
  <2>1. Allocate(h, NewBuffer(bytes, Capacity(Block(h)))) /\ Capacity(Block(h)) \in Nat
    BY <1>4, BytesType DEF SetData
  <2> QED
    BY <2>1, NewBufferBytes, AllocateGets
<1> QED
  BY <1>1, <1>2, <1>3, <1>4

\* AppendData.
LEMMA AppendDataGets ==
  ASSUME BufferTypeOK, RefsExact, NEW h \in Handles, NEW bytes \in Seq(Byte), AppendData(h, bytes)
  PROVE  Gets(h, Bytes(h) \o bytes)
<1>1. CASE buffer[h] = Null
  <2>1. Bytes(h) \o bytes = bytes
    BY <1>1, BytesType, ConcatEmptySeq
  <2>2. Allocate(h, NewBuffer(bytes, 0))
    BY <1>1 DEF AppendData
  <2> QED
    BY <2>1, <2>2, NewBufferBytes, AllocateGets
<1>2. CASE buffer[h] # Null
  <2> DEFINE capacity == Max({Capacity(Block(h)), Block(h).size + Len(bytes)})
             own == CloneDataIfReferenced(h, capacity)
  <2>1. capacity \in Nat
    <3>1. Capacity(Block(h)) \in Nat /\ Block(h).size + Len(bytes) \in Nat
      BY <1>2, BytesType
    <3> QED
      BY <3>1, MaxMinOfTwo
  <2>2. Owned(h, BufferAppendData(own, bytes))
    BY <1>2 DEF AppendData
  <2> HIDE DEF capacity
  <2>3. own \in GoodBlock /\ own.refs = (IF HasOneRef(buffer[h]) THEN 1 ELSE 0) /\ BufferBytes(own) = Bytes(h)
    BY <1>2, <2>1, CloneBytes
  <2> HIDE DEF own
  <2>4. /\ BufferAppendData(own, bytes) \in GoodBlock
        /\ BufferAppendData(own, bytes).refs = (IF HasOneRef(buffer[h]) THEN 1 ELSE 0)
        /\ BufferBytes(BufferAppendData(own, bytes)) = Bytes(h) \o bytes
    BY <2>3, AppendDataBytes
  <2>5. Gets(h, BufferBytes(BufferAppendData(own, bytes)))
    BY <1>2, <2>2, <2>4, OwnedGets
  <2> QED
    BY <2>4, <2>5
<1> QED
  BY <1>1, <1>2

\* SetSize: the bytes that stay are kept.
LEMMA SetSizeGets ==
  ASSUME BufferTypeOK, RefsExact, NEW h \in Handles, NEW size \in Nat, SetSize(h, size)
  PROVE  \E bytes : /\ Gets(h, bytes) /\ Len(bytes) = size /\ DOMAIN bytes = 1 .. size
                    /\ \A i \in 1 .. size : i <= Len(Bytes(h)) => bytes[i] = Bytes(h)[i]
<1>1. CASE buffer[h] = Null /\ size = 0
  <2>1. UNCHANGED <<heap, buffer>> /\ Bytes(h) = <<>>
    BY <1>1, BytesType DEF SetSize
  <2> QED
    BY <1>1, <2>1, IdleGets
<1>2. CASE buffer[h] = Null /\ size # 0
  <2>1. Allocate(h, NewBuffer(JunkBytes(size), size)) /\ Len(Bytes(h)) = 0
    BY <1>2, BytesType DEF SetSize
  <2>2. JunkBytes(size) \in Seq(Byte) /\ Len(JunkBytes(size)) = size
    BY JunkIsBytes
  <2>3. Gets(h, JunkBytes(size))
    BY <2>1, <2>2, NewBufferBytes, AllocateGets
  <2> QED
    BY <2>1, <2>2, <2>3
<1>3. CASE buffer[h] # Null
  <2> DEFINE block == Block(h)
             kept == SubSeq(block.data, 1, Min({block.size, size}))
             own == IF HasOneRef(buffer[h]) THEN block
                    ELSE NewBuffer(kept, Max({Capacity(block), size}))
             new == BufferSetSize(own, size)
  <2>1. /\ block \in GoodBlock /\ Capacity(block) \in Nat /\ block.size \in Nat
        /\ Bytes(h) = BufferBytes(block) /\ Len(Bytes(h)) = block.size
    BY <1>3, BytesType
  <2>2. Owned(h, new)
    BY <1>3 DEF SetSize
  <2>3. /\ own \in GoodBlock /\ own.refs = (IF HasOneRef(buffer[h]) THEN 1 ELSE 0)
        /\ own.size = IF HasOneRef(buffer[h]) \/ block.size <= size THEN block.size ELSE size
        /\ \A i \in 1 .. own.size : i <= block.size => BufferBytes(own)[i] = Bytes(h)[i]
    <3>1. CASE HasOneRef(buffer[h])
      BY <2>1, <3>1 DEF HasOneRef, Block
    <3>2. CASE ~HasOneRef(buffer[h])
      <4> DEFINE len == Min({block.size, size})
                 room == Max({Capacity(block), size})
      <4> HIDE DEF block
      <4>1. len = (IF block.size <= size THEN block.size ELSE size) /\ len \in Nat /\ room \in Nat
        <5>1. block.size \in Int /\ size \in Int /\ Capacity(block) \in Int
          BY <2>1
        <5>2. len = (IF block.size <= size THEN block.size ELSE size)
          BY <5>1, MaxMinOfTwo
        <5>3. room = (IF Capacity(block) >= size THEN Capacity(block) ELSE size)
          BY <5>1, MaxMinOfTwo
        <5> QED
          BY <2>1, <5>2, <5>3
      <4> HIDE DEF len, room
      <4>2. block.data \in Seq(Byte) /\ len <= Len(block.data)
        BY <2>1, <4>1 DEF GoodBlock, BlockRec
      <4>3. kept \in Seq(Byte) /\ Len(kept) = len /\ \A i \in 1 .. len : kept[i] = block.data[i]
        <5>1. \A i \in 1 .. len : block.data[i] \in Byte
          BY <4>1, <4>2
        <5>2. kept = SubSeq(block.data, 1, len)
          BY DEF len
        <5>3. /\ SubSeq(block.data, 1, len) \in Seq(Byte)
              /\ Len(SubSeq(block.data, 1, len)) = IF 1 <= len THEN len - 1 + 1 ELSE 0
              /\ \A i \in 1 .. len - 1 + 1 : SubSeq(block.data, 1, len)[i] = block.data[1 + i - 1]
          BY <4>1, <5>1, SubSeqProperties
        <5>4. /\ len = IF 1 <= len THEN len - 1 + 1 ELSE 0
              /\ \A i \in 1 .. len : i \in 1 .. len - 1 + 1 /\ 1 + i - 1 = i
          BY <4>1
        <5> HIDE DEF kept
        <5> QED
          BY <5>2, <5>3, <5>4
      <4> HIDE DEF kept
      <4>4. own = NewBuffer(kept, room)
        BY <3>2 DEF room
      <4>5. own \in GoodBlock /\ own.refs = 0 /\ own.size = len /\ BufferBytes(own) = kept
        BY <4>1, <4>3, <4>4, NewBufferBytes
      <4>6. \A i \in 1 .. block.size : Bytes(h)[i] = block.data[i]
        BY <2>1, BytesOfBlock
      <4>7. \A i \in 1 .. len : i \in 1 .. block.size
        BY <2>1, <4>1
      <4> HIDE DEF own
      <4> QED
        BY <3>2, <4>1, <4>3, <4>5, <4>6, <4>7
    <3> QED
      BY <3>1, <3>2
  <2> HIDE DEF own, block
  <2>4. /\ new \in GoodBlock /\ new.refs = own.refs /\ Len(BufferBytes(new)) = size
        /\ \A i \in 1 .. size : i <= own.size => BufferBytes(new)[i] = BufferBytes(own)[i]
    BY <2>3, SetSizeBytes
  <2> HIDE DEF new
  <2>5. Gets(h, BufferBytes(new))
    BY <1>3, <2>2, <2>3, <2>4, OwnedGets
  <2>6. \A i \in 1 .. size : i <= Len(Bytes(h)) => BufferBytes(new)[i] = Bytes(h)[i]
    <3> SUFFICES ASSUME NEW i \in 1 .. size, i <= block.size
                 PROVE  BufferBytes(new)[i] = Bytes(h)[i]
      BY <2>1
    <3>1. i <= own.size /\ i \in 1 .. own.size
      BY <2>1, <2>3
    <3> QED
      BY <2>3, <2>4, <3>1
  <2>7. BufferBytes(new) \in Seq(Byte)
    BY <2>4, BytesOfBlock
  <2> QED
    BY <2>4, <2>5, <2>6, <2>7
<1> QED
  BY <1>1, <1>2, <1>3

\* EnsureCapacity changes no bytes.
LEMMA EnsureCapacityGets ==
  ASSUME BufferTypeOK, RefsExact, NEW h \in Handles, NEW capacity \in Nat, EnsureCapacity(h, capacity)
  PROVE  Gets(h, Bytes(h))
<1>1. CASE UNCHANGED <<heap, buffer>>
  BY <1>1, IdleGets
<1>2. CASE buffer[h] = Null /\ capacity # 0
  <2>1. Allocate(h, NewBuffer(<<>>, capacity)) /\ Bytes(h) = <<>>
    BY <1>2, BytesType DEF EnsureCapacity
  <2>2. <<>> \in Seq(Byte)
    OBVIOUS
  <2> QED
    BY <2>1, <2>2, NewBufferBytes, AllocateGets
<1>3. CASE buffer[h] # Null /\ ~(capacity <= Capacity(Block(h)))
  <2> DEFINE own == CloneDataIfReferenced(h, capacity)
             new == EnsureCapacityWithHeadroom(own, capacity, FALSE)
  <2>1. Owned(h, new)
    BY <1>3 DEF EnsureCapacity
  <2>2. own \in GoodBlock /\ own.refs = (IF HasOneRef(buffer[h]) THEN 1 ELSE 0) /\ BufferBytes(own) = Bytes(h)
    BY <1>3, CloneBytes
  <2> HIDE DEF own
  <2>3. new \in GoodBlock /\ new.refs = own.refs /\ BufferBytes(new) = Bytes(h)
    BY <2>2, EnsureCapacityBytes
  <2> HIDE DEF new
  <2> QED
    BY <1>3, <2>1, <2>2, <2>3, OwnedGets
<1> QED
  BY <1>1, <1>2, <1>3 DEF EnsureCapacity

\* Clear.
LEMMA ClearGets ==
  ASSUME BufferTypeOK, RefsExact, NEW h \in Handles, Clear(h)
  PROVE  Gets(h, <<>>)
<1>1. CASE buffer[h] = Null
  <2>1. UNCHANGED <<heap, buffer>> /\ Bytes(h) = <<>>
    BY <1>1, BytesType DEF Clear
  <2> QED
    BY <2>1, IdleGets
<1>2. CASE buffer[h] # Null /\ HasOneRef(buffer[h])
  <2> DEFINE new == BufferClear(Block(h))
  <2>1. WriteBlock(h, new) /\ Block(h) \in GoodBlock /\ Block(h).refs = 1
    BY <1>2, BytesType DEF Clear, HasOneRef, Block
  <2>2. new \in GoodBlock /\ new.refs = 1 /\ new.size = 0
    BY <2>1 DEF BufferClear, GoodBlock, BlockRec
  <2> HIDE DEF new
  <2>3. BufferBytes(new) = <<>>
    BY <2>2, BytesOfBlock, EmptySeq
  <2> QED
    BY <1>2, <2>1, <2>2, <2>3, WriteGets
<1>3. CASE buffer[h] # Null /\ ~HasOneRef(buffer[h])
  <2>1. Allocate(h, NewBuffer(<<>>, Capacity(Block(h)))) /\ Capacity(Block(h)) \in Nat
    BY <1>3, BytesType DEF Clear
  <2>2. <<>> \in Seq(Byte)
    OBVIOUS
  <2> QED
    BY <2>1, <2>2, NewBufferBytes, AllocateGets
<1> QED
  BY <1>1, <1>2, <1>3

\* A byte written through data().
LEMMA WriteByteGets ==
  ASSUME BufferTypeOK, RefsExact, NEW h \in Handles, NEW i \in DOMAIN Bytes(h), NEW byte \in Byte,
         WriteByte(h, i, byte)
  PROVE  Gets(h, [Bytes(h) EXCEPT ![i] = byte])
<1>1. buffer[h] # Null
  BY BytesType
<1>2. Capacity(Block(h)) \in Nat /\ i \in 1 .. Block(h).size /\ Bytes(h) \in Seq(Byte)
      /\ Len(Bytes(h)) = Block(h).size
  BY <1>1, BytesType
<1> DEFINE own == CloneDataIfReferenced(h, Capacity(Block(h)))
           new == [own EXCEPT !.data[i] = byte]
<1>3. Owned(h, new)
  BY DEF WriteByte
<1>4. /\ own \in GoodBlock /\ own.refs = (IF HasOneRef(buffer[h]) THEN 1 ELSE 0)
      /\ BufferBytes(own) = Bytes(h) /\ own.size = Block(h).size
  BY <1>1, <1>2, CloneBytes
<1> HIDE DEF own
<1>5. own.data \in Seq(Byte) /\ own.size \in Nat /\ own.size <= Len(own.data) /\ own.refs \in Nat
  BY <1>4 DEF GoodBlock, BlockRec
<1>6. i \in 1 .. Len(own.data)
  BY <1>2, <1>4, <1>5
<1>7. /\ [own.data EXCEPT ![i] = byte] \in Seq(Byte)
      /\ Len([own.data EXCEPT ![i] = byte]) = Len(own.data)
      /\ \A j \in 1 .. Len(own.data) : [own.data EXCEPT ![i] = byte][j] = IF j = i THEN byte ELSE own.data[j]
  BY <1>5, <1>6, ExceptSeq
<1>8. new.data = [own.data EXCEPT ![i] = byte] /\ new.size = own.size /\ new.refs = own.refs
  BY <1>4 DEF GoodBlock, BlockRec
<1>9. new \in GoodBlock
  <2>1. new = [refs |-> own.refs, size |-> own.size, data |-> [own.data EXCEPT ![i] = byte]]
    BY <1>4 DEF GoodBlock, BlockRec
  <2> QED
    BY <1>5, <1>7, <2>1 DEF GoodBlock, BlockRec
<1> HIDE DEF new
<1>10. BufferBytes(new) = [Bytes(h) EXCEPT ![i] = byte]
  <2>1. /\ BufferBytes(new) \in Seq(Byte) /\ Len(BufferBytes(new)) = Block(h).size
        /\ \A j \in 1 .. Block(h).size : BufferBytes(new)[j] = new.data[j]
    BY <1>4, <1>8, <1>9, BytesOfBlock
  <2>2. \A j \in 1 .. Block(h).size : Bytes(h)[j] = own.data[j]
    BY <1>4, BytesOfBlock
  <2>3. /\ [Bytes(h) EXCEPT ![i] = byte] \in Seq(Byte)
        /\ Len([Bytes(h) EXCEPT ![i] = byte]) = Block(h).size
        /\ \A j \in 1 .. Block(h).size : [Bytes(h) EXCEPT ![i] = byte][j] = IF j = i THEN byte ELSE Bytes(h)[j]
    BY <1>2, ExceptSeq
  <2>4. \A j \in 1 .. Block(h).size : j \in 1 .. Len(own.data)
    BY <1>4, <1>5
  <2>5. \A j \in 1 .. Block(h).size : BufferBytes(new)[j] = [Bytes(h) EXCEPT ![i] = byte][j]
    BY <1>7, <1>8, <2>1, <2>2, <2>3, <2>4
  <2> QED
    BY <2>1, <2>3, <2>5, SeqEqual
<1>11. Gets(h, BufferBytes(new))
  BY <1>1, <1>3, <1>4, <1>8, <1>9, OwnedGets
<1> QED
  BY <1>10, <1>11

-----------------------------------------------------------------------------
(* The steps.                                                              *)

\* A handle that gets what it should have, while the others keep what they
\* have, keeps the invariant.
LEMMA GetsWhatItShould ==
  ASSUME BufferIInv, NEW h \in Handles, NEW bytes, Gets(h, bytes),
         NEW wanted \in Seq(Byte), Agrees(bytes, wanted), meant' = [meant EXCEPT ![h] = wanted]
  PROVE  BufferIInv'
<1>1. /\ meant' \in [Handles -> Seq(Byte)] /\ meant'[h] = wanted
      /\ \A g \in Handles \ {h} : meant'[g] = meant[g]
  BY DEF BufferIInv, BufferTypeOK
<1>2. BufferTypeOK' /\ RefsExact'
  BY <1>1 DEF Gets, BufferTypeOK
<1>3. \A g \in Handles : Agrees(Bytes(g)', meant'[g])
  BY <1>1 DEF Gets, BufferIInv
<1>4. (\A g \in Handles : Agrees(Bytes(g), meant[g]))'
  BY <1>3 DEF Agrees
<1> QED
  BY <1>2, <1>4 DEF BufferIInv

\* Bytes agree with themselves, and parts that agree make a whole that does.
LEMMA AgreesWith ==
  /\ \A s \in Seq(Byte) : Agrees(s, s)
  /\ \A s, t, u, v \in Seq(Byte) : Agrees(s, t) /\ Agrees(u, v) => Agrees(s \o u, t \o v)
<1>1. ASSUME NEW s \in Seq(Byte)
      PROVE  Agrees(s, s)
  BY DEF Agrees
<1>2. ASSUME NEW s \in Seq(Byte), NEW t \in Seq(Byte), NEW u \in Seq(Byte), NEW v \in Seq(Byte),
             Agrees(s, t), Agrees(u, v)
      PROVE  Agrees(s \o u, t \o v)
  <2>1. Len(s) = Len(t) /\ Len(u) = Len(v) /\ Len(s) \in Nat /\ Len(u) \in Nat
    BY <1>2 DEF Agrees
  <2>2. /\ s \o u \in Seq(Byte) /\ Len(s \o u) = Len(s) + Len(u)
        /\ \A i \in 1 .. Len(s) + Len(u) : (s \o u)[i] = IF i <= Len(s) THEN s[i] ELSE u[i - Len(s)]
    BY ConcatProperties
  <2>3. /\ t \o v \in Seq(Byte) /\ Len(t \o v) = Len(t) + Len(v)
        /\ \A i \in 1 .. Len(t) + Len(v) : (t \o v)[i] = IF i <= Len(t) THEN t[i] ELSE v[i - Len(t)]
    BY ConcatProperties
  <2>4. ASSUME NEW i \in 1 .. Len(s) + Len(u)
        PROVE  (t \o v)[i] \in {(s \o u)[i], Junk}
    <3>1. CASE i <= Len(s)
      <4>1. i \in DOMAIN s
        BY <2>1, <3>1
      <4> QED
        BY <1>2, <2>1, <2>2, <2>3, <3>1, <4>1 DEF Agrees
    <3>2. CASE ~(i <= Len(s))
      <4>1. i - Len(s) \in DOMAIN u
        BY <2>1, <3>2
      <4> QED
        BY <1>2, <2>1, <2>2, <2>3, <3>2, <4>1 DEF Agrees
    <3> QED
      BY <3>1, <3>2
  <2>5. DOMAIN (s \o u) = 1 .. Len(s) + Len(u)
    BY <2>2
  <2> QED
    BY <2>1, <2>2, <2>3, <2>4, <2>5 DEF Agrees
<1> QED
  BY <1>1, <1>2

\* Moving a pointer to another handle.
LEMMA MoveKeeps ==
  ASSUME BufferIInv, NEW h \in Handles, NEW g \in Handles, Move(h, g),
         meant' = [[meant EXCEPT ![g] = <<>>] EXCEPT ![h] = meant[g]]
  PROVE  BufferIInv'
<1> USE DEF BufferIInv
<1>1. CASE g = h
  <2>1. heap' = heap /\ buffer' = buffer /\ meant' = meant
    BY <1>1 DEF Move, MovePointer, BufferTypeOK
  <2>2. BufferTypeOK' /\ RefsExact'
    BY <2>1 DEF BufferTypeOK, RefsExact, Users
  <2>3. \A k \in Handles : Bytes(k)' = Bytes(k)
    BY <2>1 DEF Bytes, Block
  <2>4. \A k \in Handles : Agrees(Bytes(k)', meant'[k])
    BY <2>1, <2>3
  <2>5. (\A k \in Handles : Agrees(Bytes(k), meant[k]))'
    BY <2>4 DEF Agrees
  <2> QED
    BY <2>2, <2>5
<1>2. CASE g # h
  <2> DEFINE old == buffer[h]
  <2>1. heap' = Release(heap, old) /\ \A k \in Handles :
          /\ buffer'[k] = IF k = h THEN buffer[g] ELSE IF k = g THEN Null ELSE buffer[k]
          /\ meant'[k] = IF k = h THEN meant[g] ELSE IF k = g THEN <<>> ELSE meant[k]
    BY <1>2 DEF Move, MovePointer, BufferTypeOK
  <2>2. buffer' \in [Handles -> Blocks \cup {Null}] /\ meant' \in [Handles -> Seq(Byte)]
    <3>1. buffer' \in [Handles -> Blocks \cup {Null}]
      BY DEF Move, MovePointer, BufferTypeOK
    <3>2. <<>> \in Seq(Byte) /\ meant[g] \in Seq(Byte)
      BY DEF BufferTypeOK
    <3>3. meant' \in [Handles -> Seq(Byte)]
      BY <3>2 DEF BufferTypeOK
    <3> QED
      BY <3>1, <3>3
  <2>3. ASSUME NEW c \in Blocks
        PROVE  /\ heap'[c] \in GoodBlock /\ heap'[c].refs = Cardinality(Users(c)')
               /\ Users(c)' # {} => heap'[c].size = heap[c].size /\ heap'[c].data = heap[c].data
    <3>1. /\ IsFiniteSet(Users(c)) /\ Cardinality(Users(c)) \in Nat /\ heap[c] \in GoodBlock
          /\ heap[c].refs = Cardinality(Users(c))
      BY UsersFinite DEF BufferTypeOK, RefsExact
    <3> DEFINE rest == (Users(c) \ {g}) \ {h}
    <3>2. Users(c)' = IF c = buffer[g] THEN rest \cup {h} ELSE rest
      BY <1>2, <2>1, NullIsNoBlock DEF Users
    <3>3. IsFiniteSet(Users(c) \ {g}) /\ Cardinality(Users(c) \ {g})
            = IF c = buffer[g] THEN Cardinality(Users(c)) - 1 ELSE Cardinality(Users(c))
      BY <3>1, FS_RemoveElement DEF Users
    <3>4. IsFiniteSet(rest) /\ Cardinality(rest)
            = IF c = old THEN Cardinality(Users(c) \ {g}) - 1 ELSE Cardinality(Users(c) \ {g})
      BY <1>2, <3>3, FS_RemoveElement DEF Users
    <3>5. IsFiniteSet(rest \cup {h}) /\ Cardinality(rest \cup {h}) = Cardinality(rest) + 1
      BY <3>4, FS_AddElement
    <3>6. Cardinality(Users(c)') = IF c = old THEN Cardinality(Users(c)) - 1 ELSE Cardinality(Users(c))
      <4>1. CASE c = buffer[g]
        BY <3>1, <3>2, <3>3, <3>4, <3>5, <4>1
      <4>2. CASE c # buffer[g]
        BY <3>1, <3>2, <3>3, <3>4, <4>2
      <4> QED
        BY <4>1, <4>2
    <3>7. IsFiniteSet(Users(c)') /\ Cardinality(Users(c)') \in Nat
      <4>1. IsFiniteSet(Users(c)')
        BY <3>2, <3>4, <3>5
      <4> QED
        BY <4>1, FS_CardinalityType
    <3>8. CASE c # old
      <4>1. heap'[c] = heap[c]
        BY <2>1, <3>8 DEF Release, BufferTypeOK
      <4> QED
        BY <3>1, <3>6, <3>8, <4>1
    <3>9. CASE c = old /\ heap[c].refs = 1
      <4>1. heap'[c] = Freed
        BY <2>1, <3>9, NullIsNoBlock DEF Release, BufferTypeOK
      <4>2. Cardinality(Users(c)') = 0
        BY <3>1, <3>6, <3>9
      <4>3. Users(c)' = {}
        BY <3>7, <4>2, FS_EmptySet
      <4> QED
        BY <4>1, <4>2, <4>3 DEF Freed, GoodBlock, BlockRec
    <3>10. CASE c = old /\ heap[c].refs # 1
      <4>1. heap'[c] = [heap[c] EXCEPT !.refs = heap[c].refs - 1]
        BY <2>1, <3>10, NullIsNoBlock DEF Release, BufferTypeOK
      <4>2. heap[c].refs - 1 = Cardinality(Users(c)')
        BY <3>1, <3>6, <3>10
      <4> QED
        BY <3>1, <3>7, <4>1, <4>2, WithRefs
    <3> QED
      BY <3>8, <3>9, <3>10
  <2>4. heap' \in [Blocks -> GoodBlock]
    <3>1. heap' = [c \in Blocks |-> heap'[c]]
      BY <2>1 DEF Release, BufferTypeOK
    <3> QED
      BY <2>3, <3>1
  <2>5. RefsExact'
    BY <2>3 DEF RefsExact
  <2>6. ASSUME NEW k \in Handles, NEW j \in Handles, buffer'[k] = buffer[j]
        PROVE  Bytes(k)' = Bytes(j)
    <3>1. CASE buffer[j] = Null
      BY <2>6, <3>1 DEF Bytes
    <3>2. CASE buffer[j] # Null
      <4>1. PICK c \in Blocks : c = buffer[j]
        BY <3>2 DEF BufferTypeOK
      <4>2. k \in Users(c)'
        BY <2>6, <4>1 DEF Users
      <4>3. heap'[c].size = heap[c].size /\ heap'[c].data = heap[c].data
        BY <2>3, <4>2
      <4> QED
        BY <2>6, <3>2, <4>1, <4>3 DEF Bytes, Block, BufferBytes
    <3> QED
      BY <3>1, <3>2
  <2>7. ASSUME NEW k \in Handles
        PROVE  Agrees(Bytes(k)', meant'[k])
    <3>1. CASE k = h
      BY <2>1, <2>6, <3>1
    <3>2. CASE k = g
      <4>1. Bytes(k)' = <<>> /\ meant'[k] = <<>>
        BY <1>2, <2>1, <3>2 DEF Bytes
      <4> QED
        BY <4>1 DEF Agrees
    <3>3. CASE k # h /\ k # g
      BY <2>1, <2>6, <3>3
    <3> QED
      BY <3>1, <3>2, <3>3
  <2>8. (\A k \in Handles : Agrees(Bytes(k), meant[k]))'
    BY <2>7 DEF Agrees
  <2> QED
    BY <2>2, <2>4, <2>5, <2>8 DEF BufferTypeOK
<1> QED
  BY <1>1, <1>2

\* Two handles that change their pointers.
LEMMA SwapKeeps ==
  ASSUME BufferIInv, NEW h \in Handles, NEW g \in Handles, Swap(h, g),
         meant' = [meant EXCEPT ![h] = meant[g], ![g] = meant[h]]
  PROVE  BufferIInv'
<1> DEFINE other(k) == IF k = h THEN g ELSE IF k = g THEN h ELSE k
<1>1. \A k \in Handles : /\ other(k) \in Handles /\ buffer'[k] = buffer[other(k)]
                         /\ meant'[k] = meant[other(k)]
  BY DEF Swap, BufferIInv, BufferTypeOK
<1>2. heap' = heap
  BY DEF Swap
<1>3. buffer[h] \in Blocks \cup {Null} /\ buffer[g] \in Blocks \cup {Null}
  BY DEF BufferIInv, BufferTypeOK
<1>4. buffer' \in [Handles -> Blocks \cup {Null}]
  BY <1>3 DEF Swap, BufferIInv, BufferTypeOK
<1>5. meant' \in [Handles -> Seq(Byte)]
  BY DEF BufferIInv, BufferTypeOK
<1>6. ASSUME NEW c \in Blocks
      PROVE  heap'[c].refs = Cardinality(Users(c)')
  <2>1. heap[c].refs = Cardinality(Users(c)) /\ IsFiniteSet(Users(c)) /\ Cardinality(Users(c)) \in Nat
    BY UsersFinite DEF BufferIInv, RefsExact
  <2>2. CASE (h \in Users(c)) = (g \in Users(c))
    <3>1. Users(c)' = Users(c)
      BY <1>1, <2>2 DEF Users
    <3> QED
      BY <1>2, <2>1, <3>1
  <2>3. ASSUME NEW x \in Handles, NEW y \in Handles, x \in Users(c), y \notin Users(c),
               {x, y} = {g, h}
        PROVE  Cardinality(Users(c)') = Cardinality(Users(c))
    <3>1. Users(c)' = (Users(c) \ {x}) \cup {y}
      BY <1>1, <2>3 DEF Users
    <3>2. IsFiniteSet(Users(c) \ {x}) /\ Cardinality(Users(c) \ {x}) = Cardinality(Users(c)) - 1
      BY <2>1, <2>3, FS_RemoveElement
    <3>3. Cardinality((Users(c) \ {x}) \cup {y}) = Cardinality(Users(c) \ {x}) + 1
      BY <2>3, <3>2, FS_AddElement
    <3> QED
      BY <2>1, <3>1, <3>2, <3>3
  <2> QED
    BY <1>2, <2>1, <2>2, <2>3
<1>7. RefsExact'
  BY <1>6 DEF RefsExact
<1>8. \A k \in Handles : Bytes(k)' = Bytes(other(k))
  BY <1>1, <1>2 DEF Bytes, Block
<1>9. \A k \in Handles : Agrees(Bytes(k)', meant'[k])
  BY <1>1, <1>8 DEF BufferIInv
<1>10. (\A k \in Handles : Agrees(Bytes(k), meant[k]))'
  BY <1>9 DEF Agrees
<1> QED
  BY <1>2, <1>4, <1>5, <1>7, <1>10 DEF BufferIInv, BufferTypeOK

-----------------------------------------------------------------------------
(* The invariant.                                                          *)

\* Nothing is allocated at first.
LEMMA BufferInitIInv == BufferInit => BufferIInv
<1> SUFFICES ASSUME BufferInit
             PROVE  BufferIInv
  OBVIOUS
<1>1. <<>> \in Seq(Byte) /\ Freed \in GoodBlock
  BY DEF Freed, GoodBlock, BlockRec
<1>2. BufferTypeOK
  BY <1>1 DEF BufferInit, BufferTypeOK
<1>3. RefsExact
  <2>1. ASSUME NEW b \in Blocks
        PROVE  heap[b].refs = 0 /\ Users(b) = {}
    BY NullIsNoBlock DEF BufferInit, Freed, Users
  <2> QED
    BY <2>1, FS_EmptySet DEF RefsExact
<1>4. \A h \in Handles : Bytes(h) = <<>> /\ meant[h] = <<>>
  BY DEF BufferInit, Bytes
<1>5. \A h \in Handles : Agrees(Bytes(h), meant[h])
  BY <1>4 DEF Agrees
<1> QED
  BY <1>2, <1>3, <1>5 DEF BufferIInv

\* Every call keeps the invariant.
LEMMA BufferStepIInv == BufferIInv /\ [BufferNext]_bufferVars => BufferIInv'
<1> SUFFICES ASSUME BufferIInv, [BufferNext]_bufferVars
             PROVE  BufferIInv'
  OBVIOUS
<1> USE DEF Means
<1>1. BufferTypeOK /\ RefsExact /\ MaxSize \in Nat
  BY BufferAssumption DEF BufferIInv
<1>2. ASSUME NEW k \in Handles
      PROVE  Bytes(k) \in Seq(Byte) /\ meant[k] \in Seq(Byte) /\ Agrees(Bytes(k), meant[k])
  BY <1>1, BytesType DEF BufferIInv, BufferTypeOK
<1>3. CASE UNCHANGED bufferVars
  <2>1. heap' = heap /\ buffer' = buffer /\ meant' = meant
    BY <1>3 DEF bufferVars
  <2>2. BufferTypeOK' /\ RefsExact'
    BY <1>1, <2>1 DEF BufferTypeOK, RefsExact, Users
  <2>3. \A k \in Handles : Bytes(k)' = Bytes(k)
    BY <2>1 DEF Bytes, Block
  <2>4. \A k \in Handles : Agrees(Bytes(k)', meant'[k])
    BY <1>2, <2>1, <2>3
  <2>5. (\A k \in Handles : Agrees(Bytes(k), meant[k]))'
    BY <2>4 DEF Agrees
  <2> QED
    BY <2>2, <2>5 DEF BufferIInv
<1>4. ASSUME NEW h \in Handles, NEW capacity \in {0, MaxSize}, NEW bytes \in Chunks,
             Construct(h, bytes, capacity), Means(h, bytes)
      PROVE  BufferIInv'
  <2>1. bytes \in Seq(Byte) /\ capacity \in Nat
    BY <1>1, ChunkBytes
  <2> QED
    BY <1>1, <1>4, <2>1, ConstructGets, AgreesWith, GetsWhatItShould
<1>5. ASSUME NEW h \in Handles, NEW capacity \in {0, MaxSize},
             Sized(h, 1, capacity), Means(h, JunkBytes(1))
      PROVE  BufferIInv'
  <2>1. JunkBytes(1) \in Seq(Byte) /\ capacity \in Nat
    BY <1>1, JunkIsBytes
  <2>2. Construct(h, JunkBytes(1), capacity)
    BY <1>5 DEF Sized
  <2> QED
    BY <1>1, <1>5, <2>1, <2>2, ConstructGets, AgreesWith, GetsWhatItShould
<1>6. ASSUME NEW h \in Handles, NEW bytes \in Chunks, SetData(h, bytes), Means(h, bytes)
      PROVE  BufferIInv'
  <2>1. bytes \in Seq(Byte)
    BY ChunkBytes
  <2> QED
    BY <1>1, <1>6, <2>1, SetDataGets, AgreesWith, GetsWhatItShould
<1>7. ASSUME NEW h \in Handles, NEW bytes \in Seq(Byte), NEW wanted \in Seq(Byte),
             Agrees(bytes, wanted), AppendData(h, bytes), Means(h, meant[h] \o wanted)
      PROVE  BufferIInv'
  <2>1. Gets(h, Bytes(h) \o bytes)
    BY <1>1, <1>7, AppendDataGets
  <2>2. Agrees(Bytes(h) \o bytes, meant[h] \o wanted) /\ meant[h] \o wanted \in Seq(Byte)
    BY <1>2, <1>7, AgreesWith
  <2> QED
    BY <1>7, <2>1, <2>2, GetsWhatItShould
<1>8. ASSUME NEW h \in Handles, NEW bytes \in Chunks, AppendData(h, bytes),
             Means(h, meant[h] \o bytes)
      PROVE  BufferIInv'
  BY <1>7, <1>8, ChunkBytes, AgreesWith
<1>9. ASSUME NEW h \in Handles, NEW g \in Handles, AppendBuffer(h, g),
             Means(h, meant[h] \o meant[g])
      PROVE  BufferIInv'
  BY <1>2, <1>7, <1>9 DEF AppendBuffer
<1>10. ASSUME NEW h \in Handles, NEW size \in 0 .. MaxSize, SetSize(h, size),
              Means(h, SubSeq(meant[h] \o JunkBytes(MaxSize), 1, size))
       PROVE  BufferIInv'
  <2> DEFINE padded == meant[h] \o JunkBytes(MaxSize)
             wanted == SubSeq(padded, 1, size)
  <2>1. size \in Nat /\ size <= MaxSize
    BY <1>1
  <2>2. PICK bytes : /\ Gets(h, bytes) /\ Len(bytes) = size /\ DOMAIN bytes = 1 .. size
                     /\ \A i \in 1 .. size : i <= Len(Bytes(h)) => bytes[i] = Bytes(h)[i]
    BY <1>1, <1>10, <2>1, SetSizeGets
  <2>3. /\ JunkBytes(MaxSize) \in Seq(Byte) /\ Len(JunkBytes(MaxSize)) = MaxSize
        /\ \A i \in 1 .. MaxSize : JunkBytes(MaxSize)[i] = Junk
    <3>1. \A i \in 1 .. MaxSize : JunkBytes(MaxSize)[i] = Junk
      BY DEF JunkBytes
    <3> QED
      BY <1>1, <3>1, JunkIsBytes
  <2>4. /\ padded \in Seq(Byte) /\ Len(padded) = Len(meant[h]) + MaxSize
        /\ \A i \in 1 .. Len(meant[h]) + MaxSize :
             padded[i] = IF i <= Len(meant[h]) THEN meant[h][i]
                         ELSE JunkBytes(MaxSize)[i - Len(meant[h])]
    <3>1. /\ padded \in Seq(Byte) /\ Len(padded) = Len(meant[h]) + Len(JunkBytes(MaxSize))
          /\ \A i \in 1 .. Len(meant[h]) + Len(JunkBytes(MaxSize)) :
               padded[i] = IF i <= Len(meant[h]) THEN meant[h][i]
                           ELSE JunkBytes(MaxSize)[i - Len(meant[h])]
      BY <1>2, <2>3, ConcatProperties
    <3> HIDE DEF padded
    <3> QED
      BY <2>3, <3>1
  <2> HIDE DEF padded
  <2>5. /\ wanted \in Seq(Byte) /\ Len(wanted) = size
        /\ \A i \in 1 .. size : wanted[i] = padded[i]
    <3>1. Len(meant[h]) \in Nat
      BY <1>2
    <3>2. \A i \in 1 .. size : padded[i] \in Byte
      BY <1>1, <2>1, <2>4, <3>1
    <3>3. /\ wanted \in Seq(Byte) /\ Len(wanted) = IF 1 <= size THEN size - 1 + 1 ELSE 0
          /\ \A i \in 1 .. size - 1 + 1 : wanted[i] = padded[1 + i - 1]
      BY <2>1, <3>2, SubSeqProperties
    <3>4. /\ size = IF 1 <= size THEN size - 1 + 1 ELSE 0
          /\ \A i \in 1 .. size : i \in 1 .. size - 1 + 1 /\ 1 + i - 1 = i
      BY <2>1
    <3> HIDE DEF wanted
    <3> QED
      BY <3>3, <3>4
  <2> HIDE DEF wanted
  <2>6. ASSUME NEW i \in 1 .. size
        PROVE  wanted[i] \in {bytes[i], Junk}
    <3>1. /\ Len(Bytes(h)) = Len(meant[h]) /\ Len(meant[h]) \in Nat
          /\ \A j \in DOMAIN Bytes(h) : meant[h][j] \in {Bytes(h)[j], Junk}
      BY <1>2 DEF Agrees
    <3>2. CASE i <= Len(meant[h])
      <4>1. i \in DOMAIN Bytes(h) /\ i \in 1 .. Len(meant[h]) + MaxSize
        BY <1>1, <1>2, <2>1, <3>1, <3>2
      <4> QED
        BY <2>2, <2>4, <2>5, <3>1, <3>2, <4>1
    <3>3. CASE ~(i <= Len(meant[h]))
      <4>1. i - Len(meant[h]) \in 1 .. MaxSize /\ i \in 1 .. Len(meant[h]) + MaxSize
        BY <1>1, <2>1, <3>1, <3>3
      <4> QED
        BY <2>3, <2>4, <2>5, <3>3, <4>1
    <3> QED
      BY <3>2, <3>3
  <2>7. Agrees(bytes, wanted)
    BY <2>2, <2>5, <2>6 DEF Agrees
  <2>8. meant' = [meant EXCEPT ![h] = wanted]
    BY <1>10 DEF wanted, padded
  <2> QED
    BY <2>2, <2>5, <2>7, <2>8, GetsWhatItShould
<1>11. ASSUME NEW h \in Handles, NEW size \in 0 .. MaxSize, EnsureCapacity(h, size), UNCHANGED meant
       PROVE  BufferIInv'
  <2>1. Gets(h, Bytes(h))
    BY <1>1, <1>11, EnsureCapacityGets
  <2>2. meant' = [meant EXCEPT ![h] = meant[h]]
    BY <1>1, <1>11 DEF BufferTypeOK
  <2> QED
    BY <1>2, <2>1, <2>2, GetsWhatItShould
<1>12. ASSUME NEW h \in Handles, Clear(h), Means(h, <<>>)
       PROVE  BufferIInv'
  <2>1. <<>> \in Seq(Byte)
    OBVIOUS
  <2> QED
    BY <1>1, <1>12, <2>1, ClearGets, AgreesWith, GetsWhatItShould
<1>13. ASSUME NEW h \in Handles, NEW i \in DOMAIN Bytes(h),
              NEW byte \in UNION {Range(chunk) : chunk \in Chunks},
              WriteAtIndex(h, i - 1, byte), Means(h, [meant[h] EXCEPT ![i] = byte])
       PROVE  BufferIInv'
  <2>1. byte \in Byte /\ i \in Nat /\ i - 1 + 1 = i
    BY <1>2 DEF Byte
  <2>2. WriteByte(h, i, byte)
    BY <1>13, <2>1 DEF WriteAtIndex
  <2>3. Gets(h, [Bytes(h) EXCEPT ![i] = byte])
    BY <1>1, <2>1, <2>2, WriteByteGets
  <2>4. /\ Len(Bytes(h)) = Len(meant[h])
        /\ \A j \in DOMAIN Bytes(h) : meant[h][j] \in {Bytes(h)[j], Junk}
    BY <1>2 DEF Agrees
  <2>5. i \in 1 .. Len(Bytes(h)) /\ i \in 1 .. Len(meant[h])
    BY <1>2, <2>4
  <2>6. /\ [meant[h] EXCEPT ![i] = byte] \in Seq(Byte)
        /\ Len([meant[h] EXCEPT ![i] = byte]) = Len(meant[h])
        /\ \A j \in 1 .. Len(meant[h]) :
             [meant[h] EXCEPT ![i] = byte][j] = IF j = i THEN byte ELSE meant[h][j]
    BY <1>2, <2>1, <2>5, ExceptSeq
  <2>7. /\ [Bytes(h) EXCEPT ![i] = byte] \in Seq(Byte)
        /\ Len([Bytes(h) EXCEPT ![i] = byte]) = Len(Bytes(h))
        /\ \A j \in 1 .. Len(Bytes(h)) :
             [Bytes(h) EXCEPT ![i] = byte][j] = IF j = i THEN byte ELSE Bytes(h)[j]
    BY <1>2, <2>1, <2>5, ExceptSeq
  <2>8. DOMAIN [Bytes(h) EXCEPT ![i] = byte] = 1 .. Len(Bytes(h)) /\ DOMAIN Bytes(h) = 1 .. Len(Bytes(h))
    BY <1>2, <2>7
  <2>9. Agrees([Bytes(h) EXCEPT ![i] = byte], [meant[h] EXCEPT ![i] = byte])
    BY <2>4, <2>6, <2>7, <2>8 DEF Agrees
  <2> QED
    BY <1>13, <2>3, <2>6, <2>9, GetsWhatItShould
<1>14. ASSUME NEW h \in Handles, NEW g \in Handles, Copy(h, g) \/ CopyData(h, g) \/ Slice(h, g),
              Means(h, meant[g])
       PROVE  BufferIInv'
  <2>1. Gets(h, Bytes(g))
    BY <1>1, <1>14, SharingGets, IdleGets DEF Copy, CopyData, Slice
  <2> QED
    BY <1>2, <1>14, <2>1, GetsWhatItShould
<1>15. ASSUME NEW h \in Handles, NEW g \in Handles, Move(h, g),
              meant' = [[meant EXCEPT ![g] = <<>>] EXCEPT ![h] = meant[g]]
       PROVE  BufferIInv'
  BY <1>15, MoveKeeps
<1>16. ASSUME NEW h \in Handles, NEW g \in Handles, Swap(h, g),
              meant' = [meant EXCEPT ![h] = meant[g], ![g] = meant[h]]
       PROVE  BufferIInv'
  BY <1>16, SwapKeeps
<1> QED
  BY <1>3, <1>4, <1>5, <1>6, <1>8, <1>9, <1>10, <1>11, <1>12, <1>13, <1>14, <1>15, <1>16
  DEF BufferNext

\* Handles that share a block are never seen to: each has the bytes that its
\* own calls gave it, operator== tells bytes apart, and a block lives exactly
\* as long as a handle has it (CopyOnWriteBuffer, scoped_refptr).
THEOREM SharingIsNotSeen == BufferSpec => []BuffersIndependent
<1>1. BufferIInv => BuffersIndependent
  <2> SUFFICES ASSUME BufferIInv
               PROVE  BuffersIndependent
    OBVIOUS
  <2>1. ASSUME NEW g \in Handles, NEW h \in Handles
        PROVE  /\ Equals(g, h) => Bytes(g) = Bytes(h)
               /\ Bytes(g) = Bytes(h) => Equals(g, h) \/ Bytes(g) = <<>>
    BY DEF Equals, BufferEquals, Bytes, Block
  <2> QED
    BY <2>1 DEF BufferIInv, BuffersIndependent, RefsExact, Users
<1> QED
  BY <1>1, BufferInitIInv, BufferStepIInv, PTL DEF BufferSpec

-----------------------------------------------------------------------------
(* RateStatistics: sums of samples.                                        *)

Sample == [count : Nat, time : 0 .. MaxTime]
Weight(list, times, n) == IF list[n].time \in times THEN list[n].count ELSE 0

\* A function that adds up the samples from the first to the last.
IsSum(f, list, times) ==
  f[0] = 0 /\ \A n \in 1 .. Len(list) : f[n] = f[n - 1] + Weight(list, times, n)

\* The sum is that of any such function.
LEMMA SumIs ==
  ASSUME NEW list \in Seq(Sample), NEW times, NEW f, IsSum(f, list, times)
  PROVE  SumOf(list, times) = f[Len(list)]
<1> DEFINE N == Len(list)
           sum == CHOOSE g : g = [n \in 0 .. Len(list) |->
                                    IF n = 0 THEN 0
                                    ELSE g[n - 1] + IF list[n].time \in times THEN list[n].count ELSE 0]
           h == [n \in 0 .. N |-> f[n]]
<1>1. N \in Nat
  OBVIOUS
<1>2. \A n \in 0 .. N : h[n] = IF n = 0 THEN 0 ELSE h[n - 1] + IF list[n].time \in times THEN list[n].count ELSE 0
  <2> SUFFICES ASSUME NEW n \in 0 .. N
               PROVE  h[n] = IF n = 0 THEN 0 ELSE h[n - 1] + IF list[n].time \in times THEN list[n].count ELSE 0
    OBVIOUS
  <2>1. CASE n = 0
    BY <2>1 DEF IsSum
  <2>2. CASE n # 0
    <3>1. n \in 1 .. N /\ n - 1 \in 0 .. N
      BY <1>1, <2>2
    <3> QED
      BY <2>2, <3>1 DEF IsSum, Weight
  <2> QED
    BY <2>1, <2>2
<1>3. h = [n \in 0 .. Len(list) |->
             IF n = 0 THEN 0 ELSE h[n - 1] + IF list[n].time \in times THEN list[n].count ELSE 0]
  <2>1. h = [n \in 0 .. N |-> h[n]]
    OBVIOUS
  <2> HIDE DEF h
  <2> QED
    BY <1>2, <2>1
<1> HIDE DEF h
<1>4. sum = [n \in 0 .. Len(list) |->
               IF n = 0 THEN 0 ELSE sum[n - 1] + IF list[n].time \in times THEN list[n].count ELSE 0]
  BY <1>3, Zenon
<1>5. SumOf(list, times) = sum[N]
  BY DEF SumOf
<1> HIDE DEF sum
<1>6. \A n \in 0 .. N : sum[n] = IF n = 0 THEN 0 ELSE sum[n - 1] + IF list[n].time \in times THEN list[n].count ELSE 0
  <2>1. sum = [n \in 0 .. N |->
                 IF n = 0 THEN 0 ELSE sum[n - 1] + IF list[n].time \in times THEN list[n].count ELSE 0]
    BY <1>4
  <2> HIDE DEF N
  <2> QED
    BY <2>1
<1> DEFINE bad == {n \in 0 .. N : sum[n] # h[n]}
<1>7. bad = {}
  <2> SUFFICES ASSUME bad # {} PROVE FALSE
    OBVIOUS
  <2>1. PICK n \in bad : \A m \in bad : n <= m
    <3>1. bad \in SUBSET Nat
      OBVIOUS
    <3> HIDE DEF bad
    <3> QED
      BY <3>1, NatMin
  <2>2. n \in 0 .. N /\ sum[n] # h[n]
    BY <2>1
  <2>3. n # 0
    BY <1>2, <1>6, <2>2
  <2>4. n - 1 \in 0 .. N /\ ~(n <= n - 1)
    BY <2>2, <2>3
  <2>5. sum[n - 1] = h[n - 1]
    BY <2>1, <2>4
  <2> QED
    BY <1>2, <1>6, <2>2, <2>3, <2>5
<1>8. N \in 0 .. N
  BY <1>1
<1>9. sum[N] = h[N]
  BY <1>7, <1>8
<1>10. h[N] = f[N]
  BY <1>8 DEF h
<1> QED
  BY <1>5, <1>9, <1>10

LEMMA SumExists ==
  ASSUME NEW list \in Seq(Sample), NEW times
  PROVE  \E f \in [0 .. Len(list) -> Nat] : IsSum(f, list, times)
<1>0. PICK N \in Nat : N = Len(list)
  OBVIOUS
<1> DEFINE step == [n \in 1 .. N |-> [x \in Nat |-> x + Weight(list, times, n)]]
<1>1. \A n \in 1 .. N : Weight(list, times, n) \in Nat
  <2>1. \A n \in 1 .. N : list[n] \in Sample
    BY <1>0
  <2> QED
    BY <2>1 DEF Weight, Sample
<1>2. IsLoop(Nat, N, 0, step)
  BY <1>1 DEF IsLoop
<1>3. PICK f : IsRun(f, Nat, N, 0, step)
  <2> HIDE DEF step
  <2> QED
    BY <1>2, IterationExists
<1>4. f \in [0 .. N -> Nat] /\ f[0] = 0 /\ \A n \in 1 .. N : f[n] = step[n][f[n - 1]]
  BY <1>3 DEF IsRun
<1>5. ASSUME NEW n \in 1 .. N
      PROVE  f[n] = f[n - 1] + Weight(list, times, n)
  <2>1. n - 1 \in 0 .. N
    OBVIOUS
  <2>2. f[n - 1] \in Nat
    BY <1>4, <2>1
  <2>3. step[n][f[n - 1]] = f[n - 1] + Weight(list, times, n)
    BY <2>2
  <2> HIDE DEF step
  <2> QED
    BY <1>4, <2>3
<1> QED
  BY <1>0, <1>4, <1>5 DEF IsSum

\* What is counted, and when: one sample more, other times, no samples at all,
\* and times that are split.
LEMMA SumAppended ==
  ASSUME NEW list \in Seq(Sample), NEW x \in Sample, NEW times
  PROVE  SumOf(Append(list, x), times) = SumOf(list, times) + IF x.time \in times THEN x.count ELSE 0
<1> DEFINE longer == Append(list, x)
           N == Len(list)
<1>1. /\ longer \in Seq(Sample) /\ Len(longer) = N + 1 /\ longer[N + 1] = x /\ N \in Nat
      /\ \A n \in 1 .. N : longer[n] = list[n]
  BY AppendProperties
<1> HIDE DEF longer
<1>2. PICK f : IsSum(f, longer, times)
  BY <1>1, SumExists
<1>3. SumOf(longer, times) = f[N + 1]
  BY <1>1, <1>2, SumIs
<1>4. IsSum(f, list, times)
  <2>1. \A n \in 1 .. N : n \in 1 .. N + 1 /\ longer[n] = list[n]
    BY <1>1
  <2> QED
    BY <1>1, <1>2, <2>1 DEF IsSum, Weight
<1>5. SumOf(list, times) = f[N]
  BY <1>4, SumIs
<1>6. f[N + 1] = f[N] + Weight(longer, times, N + 1)
  <2>1. N + 1 \in 1 .. N + 1 /\ N + 1 - 1 = N
    BY <1>1
  <2> QED
    BY <1>1, <1>2, <2>1 DEF IsSum
<1> QED
  BY <1>1, <1>3, <1>5, <1>6 DEF Weight, longer

LEMMA SumSame ==
  ASSUME NEW list \in Seq(Sample), NEW some, NEW other,
         \A n \in 1 .. Len(list) : list[n].time \in some <=> list[n].time \in other
  PROVE  SumOf(list, some) = SumOf(list, other) /\ SampledAt(list, some) = SampledAt(list, other)
<1>1. PICK f : IsSum(f, list, some)
  BY SumExists
<1>2. IsSum(f, list, other)
  BY <1>1 DEF IsSum, Weight
<1>3. SumOf(list, some) = SumOf(list, other)
  BY <1>1, <1>2, SumIs
<1>4. DOMAIN list = 1 .. Len(list)
  OBVIOUS
<1> QED
  BY <1>3, <1>4 DEF SampledAt

LEMMA SumNone ==
  ASSUME NEW list \in Seq(Sample), NEW times,
         \A n \in 1 .. Len(list) : list[n].time \notin times
  PROVE  SumOf(list, times) = 0 /\ SampledAt(list, times) = {}
<1> DEFINE f == [n \in 0 .. Len(list) |-> 0]
<1>1. IsSum(f, list, times)
  <2>1. Len(list) \in Nat
    OBVIOUS
  <2>2. \A n \in 1 .. Len(list) : n \in 0 .. Len(list) /\ n - 1 \in 0 .. Len(list) /\ Weight(list, times, n) = 0
    BY <2>1 DEF Weight
  <2>3. 0 \in 0 .. Len(list)
    BY <2>1
  <2> QED
    BY <2>2, <2>3 DEF IsSum
<1>2. f[Len(list)] = 0
  <2>1. Len(list) \in 0 .. Len(list)
    OBVIOUS
  <2> QED
    BY <2>1
<1> HIDE DEF f
<1>3. SumOf(list, times) = 0
  BY <1>1, <1>2, SumIs
<1>4. DOMAIN list = 1 .. Len(list)
  OBVIOUS
<1> QED
  BY <1>3, <1>4 DEF SampledAt

Splits(list, some, other) ==
  /\ SumOf(list, some \cup other) = SumOf(list, some) + SumOf(list, other)
  /\ SampledAt(list, some \cup other) = SampledAt(list, some) \cup SampledAt(list, other)
  /\ SampledAt(list, some) \cap SampledAt(list, other) = {}
  /\ SumOf(list, some) \in Nat

LEMMA SumSplit ==
  ASSUME NEW list \in Seq(Sample), NEW some, NEW other, some \cap other = {}
  PROVE  Splits(list, some, other)
<1>1. PICK f \in [0 .. Len(list) -> Nat] : IsSum(f, list, some)
  BY SumExists
<1>2. PICK g \in [0 .. Len(list) -> Nat] : IsSum(g, list, other)
  BY SumExists
<1> DEFINE h == [n \in 0 .. Len(list) |-> f[n] + g[n]]
<1>3. Len(list) \in Nat /\ Len(list) \in 0 .. Len(list) /\ 0 \in 0 .. Len(list)
  OBVIOUS
<1>4. \A n \in 1 .. Len(list) : n \in 0 .. Len(list) /\ n - 1 \in 0 .. Len(list)
  BY <1>3
<1>5. ASSUME NEW n \in 1 .. Len(list)
      PROVE  /\ Weight(list, some \cup other, n) = Weight(list, some, n) + Weight(list, other, n)
             /\ Weight(list, some, n) \in Nat /\ Weight(list, other, n) \in Nat
  <2>1. list[n] \in Sample
    OBVIOUS
  <2>2. list[n].count \in Nat
    BY <2>1 DEF Sample
  <2> QED
    BY <2>2 DEF Weight
<1>6. IsSum(h, list, some \cup other)
  <2>1. h[0] = 0
    BY <1>1, <1>2, <1>3 DEF IsSum
  <2>2. ASSUME NEW n \in 1 .. Len(list)
        PROVE  h[n] = h[n - 1] + Weight(list, some \cup other, n)
    <3>1. h[n] = f[n] + g[n] /\ h[n - 1] = f[n - 1] + g[n - 1]
      BY <1>4
    <3>2. f[n] = f[n - 1] + Weight(list, some, n) /\ g[n] = g[n - 1] + Weight(list, other, n)
      BY <1>1, <1>2 DEF IsSum
    <3>3. f[n - 1] \in Nat /\ g[n - 1] \in Nat
      BY <1>4
    <3>4. PICK a \in Nat, b \in Nat, v \in Nat, w \in Nat :
            a = f[n - 1] /\ b = g[n - 1] /\ v = Weight(list, some, n) /\ w = Weight(list, other, n)
      BY <1>5, <3>3
    <3>5. h[n] = (a + v) + (b + w) /\ h[n - 1] = a + b /\ Weight(list, some \cup other, n) = v + w
      BY <1>5, <3>1, <3>2, <3>4
    <3> HIDE DEF h
    <3> QED
      BY <3>5
  <2> HIDE DEF h
  <2> QED
    BY <2>1, <2>2 DEF IsSum
<1>7. h[Len(list)] = f[Len(list)] + g[Len(list)] /\ f[Len(list)] \in Nat /\ g[Len(list)] \in Nat
  BY <1>3
<1> HIDE DEF h
<1>8. /\ SumOf(list, some \cup other) = h[Len(list)]
      /\ SumOf(list, some) = f[Len(list)] /\ SumOf(list, other) = g[Len(list)]
  BY <1>1, <1>2, <1>6, SumIs
<1> QED
  BY <1>7, <1>8 DEF SampledAt, Splits

-----------------------------------------------------------------------------
(* The ring of buckets.                                                    *)

Slots == 0 .. MaxWindow - 1
BucketType == [sum : Int, samples : Int]
StatsType == [buckets : [Slots -> BucketType], accumulated : Int, num : Int,
              oldestTime : Nat \cup {-MaxWindow}, oldestIndex : Slots, window : 1 .. MaxWindow]

\* What a bucket for some times has.
Content(list, times) == [sum |-> SumOf(list, times), samples |-> Cardinality(SampledAt(list, times))]
At(s, d) == s.buckets[(s.oldestIndex + d) % MaxWindow]
Since(s) == s.oldestTime .. MaxTime

\* The object has the samples of its window, and none is newer than the ring.
RingOK(s, list) ==
  /\ s \in StatsType /\ list \in Seq(Sample)
  /\ [sum |-> s.accumulated, samples |-> s.num] = Content(list, Since(s))
  /\ \A d \in Slots : At(s, d) = Content(list, {s.oldestTime + d})
  /\ \A n \in 1 .. Len(list) : list[n].time < s.oldestTime + MaxWindow

LEMMA Ring ==
  /\ MaxWindow \in Nat \ {0} /\ MaxTime \in Nat
  /\ \A i, d \in Slots : /\ (i + d) % MaxWindow = IF i + d >= MaxWindow THEN i + d - MaxWindow ELSE i + d
                         /\ (i + d) % MaxWindow \in Slots
  /\ \A i, d, e \in Slots : (i + d) % MaxWindow = (i + e) % MaxWindow => d = e
<1>1. MaxWindow \in Nat \ {0} /\ MaxTime \in Nat
  BY RateAssumption
<1>2. ASSUME NEW i \in Slots, NEW d \in Slots
      PROVE  /\ (i + d) % MaxWindow = IF i + d >= MaxWindow THEN i + d - MaxWindow ELSE i + d
             /\ (i + d) % MaxWindow \in Slots
  <2>1. PICK x \in Int : x = i + d /\ 0 <= x /\ x < MaxWindow + MaxWindow
    BY <1>1 DEF Slots
  <2>2. x % MaxWindow = IF x < 0 THEN x + MaxWindow ELSE IF x < MaxWindow THEN x ELSE x - MaxWindow
    BY <1>1, <2>1, NearRemainder
  <2>3. x % MaxWindow = IF x >= MaxWindow THEN x - MaxWindow ELSE x
    BY <1>1, <2>1, <2>2
  <2>4. (IF x >= MaxWindow THEN x - MaxWindow ELSE x) \in Slots
    BY <1>1, <2>1 DEF Slots
  <2>5. i \in Int /\ d \in Int /\ MaxWindow \in Int
    BY <1>1 DEF Slots
  <2> QED
    BY <2>1, <2>3, <2>4, <2>5
<1>3. ASSUME NEW i \in Slots, NEW d \in Slots, NEW e \in Slots, (i + d) % MaxWindow = (i + e) % MaxWindow
      PROVE  d = e
  <2>1. PICK x \in Int, y \in Int : x = i + d /\ y = i + e /\ x - y < MaxWindow /\ y - x < MaxWindow
    BY <1>1 DEF Slots
  <2>2. x = y
    BY <1>1, <1>3, <2>1, RemainderInjective
  <2> QED
    BY <1>1, <2>1, <2>2 DEF Slots
<1> QED
  BY <1>1, <1>2, <1>3

\* Samples are counted, and their times are those of the clock.
LEMMA SamplesAre ==
  ASSUME NEW list \in Seq(Sample)
  PROVE  /\ Len(list) \in Nat /\ DOMAIN list = 1 .. Len(list)
         /\ \A n \in 1 .. Len(list) : list[n].time \in 0 .. MaxTime /\ list[n].count \in Nat
         /\ \A times : /\ IsFiniteSet(SampledAt(list, times)) /\ Cardinality(SampledAt(list, times)) \in Nat
                       /\ SumOf(list, times) \in Nat
         /\ \A times : Content(list, times) \in BucketType
<1>1. \A n \in 1 .. Len(list) : list[n] \in Sample
  OBVIOUS
<1>2. Len(list) \in Nat /\ DOMAIN list = 1 .. Len(list)
  OBVIOUS
<1>3. ASSUME NEW times
      PROVE  IsFiniteSet(SampledAt(list, times)) /\ Cardinality(SampledAt(list, times)) \in Nat
  <2>1. IsFiniteSet(1 .. Len(list))
    BY <1>2, FS_Interval
  <2>2. SampledAt(list, times) \subseteq 1 .. Len(list)
    BY <1>2 DEF SampledAt
  <2> QED
    BY <2>1, <2>2, FS_Subset, FS_CardinalityType
<1>4. ASSUME NEW times
      PROVE  SumOf(list, times) \in Nat
  <2>1. times \cap {} = {}
    OBVIOUS
  <2> QED
    BY <2>1, SumSplit DEF Splits
<1> QED
  BY <1>1, <1>2, <1>3, <1>4 DEF Sample, Content, BucketType

\* The oldest bucket leaves the ring, and the window moves on by one.
LEMMA DropKeeps ==
  ASSUME NEW s, NEW list, RingOK(s, list), s.oldestTime # -MaxWindow
  PROVE  /\ RingOK(DropOldest(s), list)
         /\ DropOldest(s).oldestTime = s.oldestTime + 1 /\ DropOldest(s).window = s.window
<1> DEFINE dropped == DropOldest(s)
           M == MaxWindow
<1>1. PICK i, t, b : i = s.oldestIndex /\ t = s.oldestTime /\ b = s.buckets
  OBVIOUS
<1>2. /\ s \in StatsType /\ list \in Seq(Sample)
      /\ i \in Slots /\ t \in Nat /\ b \in [Slots -> BucketType] /\ s.accumulated \in Int /\ s.num \in Int
  BY <1>1 DEF RingOK, StatsType
<1>3. PICK j : j = IF i + 1 >= M THEN 0 ELSE i + 1
  OBVIOUS
<1>4. M \in Nat \ {0} /\ j \in Slots
  BY <1>2, <1>3, Ring DEF Slots
<1>5. dropped = [buckets |-> [b EXCEPT ![i] = EmptyBucket], accumulated |-> s.accumulated - b[i].sum,
                 num |-> s.num - b[i].samples, oldestTime |-> t + 1, oldestIndex |-> j, window |-> s.window]
  <2>1. PICK a, n, w : s = [buckets |-> b, accumulated |-> a, num |-> n, oldestTime |-> t, oldestIndex |-> i, window |-> w]
    BY <1>1, <1>2 DEF StatsType
  <2>2. PICK u, v : u = a - b[i].sum /\ v = n - b[i].samples
    OBVIOUS
  <2>3. dropped = [s EXCEPT !.accumulated = u, !.num = v, !.buckets[i] = EmptyBucket,
                            !.oldestIndex = j, !.oldestTime = t + 1]
    BY <1>3, <2>1, <2>2 DEF DropOldest
  <2> QED
    BY <2>1, <2>2, <2>3
<1>6. EmptyBucket \in BucketType /\ b[i] \in BucketType
  BY <1>2 DEF EmptyBucket, BucketType
<1>7. dropped \in StatsType
  <2>1. [b EXCEPT ![i] = EmptyBucket] \in [Slots -> BucketType]
    BY <1>2, <1>6
  <2>2. s.accumulated - b[i].sum \in Int /\ s.num - b[i].samples \in Int
    BY <1>2, <1>6 DEF BucketType
  <2>3. t + 1 \in Nat \cup {-MaxWindow} /\ s.window \in 1 .. MaxWindow
    BY <1>2 DEF StatsType
  <2> QED
    BY <1>4, <1>5, <2>1, <2>2, <2>3 DEF StatsType
<1>8. \A d \in Slots : b[(i + d) % M] = Content(list, {t + d})
  BY <1>1 DEF RingOK, At
<1>9. ASSUME NEW d \in Slots
      PROVE  At(dropped, d) = Content(list, {t + 1 + d})
  <2>1. At(dropped, d) = [b EXCEPT ![i] = EmptyBucket][(j + d) % M]
    BY <1>5 DEF At
  <2>2. CASE d = M - 1
    <3>1. (j + d) % M = i
      <4>1. (j + d) % M = IF j + d >= M THEN j + d - M ELSE j + d
        BY <1>4, Ring
      <4> QED
        BY <1>2, <1>3, <1>4, <2>2, <4>1 DEF Slots
    <3>2. At(dropped, d) = EmptyBucket
      BY <1>2, <2>1, <3>1
    <3>3. \A n \in 1 .. Len(list) : list[n].time \notin {t + 1 + d}
      <4>1. \A n \in 1 .. Len(list) : list[n].time < t + M /\ list[n].time \in Nat
        BY <1>1, <1>2, SamplesAre DEF RingOK
      <4> QED
        BY <1>2, <1>4, <2>2, <4>1
    <3>4. SumOf(list, {t + 1 + d}) = 0 /\ SampledAt(list, {t + 1 + d}) = {}
      BY <1>2, <3>3, SumNone
    <3> QED
      BY <3>2, <3>4, FS_EmptySet DEF EmptyBucket, Content
  <2>3. CASE d # M - 1
    <3>1. d + 1 \in Slots /\ 0 \in Slots
      BY <1>4, <2>3 DEF Slots
    <3>2. (j + d) % M = (i + (d + 1)) % M
      <4>1. /\ (j + d) % M = IF j + d >= M THEN j + d - M ELSE j + d
            /\ (i + (d + 1)) % M = IF i + (d + 1) >= M THEN i + (d + 1) - M ELSE i + (d + 1)
        BY <1>2, <1>4, <3>1, Ring
      <4> QED
        BY <1>2, <1>3, <1>4, <3>1, <4>1 DEF Slots
    <3>3. (i + (d + 1)) % M # i /\ (i + (d + 1)) % M \in Slots
      <4>1. (i + 0) % M = i
        <5>1. (i + 0) % M = IF i + 0 >= M THEN i + 0 - M ELSE i + 0
          BY <1>2, <3>1, Ring
        <5> QED
          BY <1>2, <1>4, <5>1 DEF Slots
      <4>2. d + 1 # 0
        BY DEF Slots
      <4> QED
        BY <1>2, <3>1, <4>1, <4>2, Ring
    <3>4. At(dropped, d) = Content(list, {t + (d + 1)})
      BY <1>2, <1>8, <2>1, <3>1, <3>2, <3>3
    <3>5. t + (d + 1) = t + 1 + d
      BY <1>2 DEF Slots
    <3> QED
      BY <3>4, <3>5
  <2> QED
    BY <2>2, <2>3
<1>10. [sum |-> dropped.accumulated, samples |-> dropped.num] = Content(list, t + 1 .. MaxTime)
  <2>1. b[i] = Content(list, {t})
    <3>1. (i + 0) % M = i /\ 0 \in Slots
      <4>1. 0 \in Slots
        BY <1>4 DEF Slots
      <4>2. (i + 0) % M = IF i + 0 >= M THEN i + 0 - M ELSE i + 0
        BY <1>2, <4>1, Ring
      <4> QED
        BY <1>2, <1>4, <4>1, <4>2 DEF Slots
    <3>2. t + 0 = t
      BY <1>2
    <3> QED
      BY <1>8, <3>1, <3>2
  <2>2. {t} \cap (t + 1 .. MaxTime) = {}
    BY <1>2
  <2>3. PICK later : later = t + 1 .. MaxTime
    OBVIOUS
  <2>4. /\ SumOf(list, {t} \cup later) = SumOf(list, {t}) + SumOf(list, later)
        /\ SampledAt(list, {t} \cup later) = SampledAt(list, {t}) \cup SampledAt(list, later)
        /\ SampledAt(list, {t}) \cap SampledAt(list, later) = {}
    <3>1. PICK now : now = {t}
      OBVIOUS
    <3>2. now \cap later = {}
      BY <2>2, <2>3, <3>1
    <3>3. Splits(list, now, later)
      BY <1>2, <3>2, SumSplit
    <3> QED
      BY <3>1, <3>3, Zenon DEF Splits
  <2>5. Cardinality(SampledAt(list, {t} \cup later))
          = Cardinality(SampledAt(list, {t})) + Cardinality(SampledAt(list, later))
    <3>1. IsFiniteSet(SampledAt(list, {t})) /\ IsFiniteSet(SampledAt(list, later))
      BY <1>2, SamplesAre
    <3>2. PICK A, B : A = SampledAt(list, {t}) /\ B = SampledAt(list, later)
      OBVIOUS
    <3>3. Cardinality(A \cup B) = Cardinality(A) + Cardinality(B) - Cardinality(A \cap B)
      BY <3>1, <3>2, FS_Union
    <3>4. Cardinality(A \cap B) = 0 /\ Cardinality(A) \in Nat /\ Cardinality(B) \in Nat
      BY <2>4, <3>1, <3>2, FS_EmptySet, FS_CardinalityType
    <3>5. \A x, y \in Nat : x + y - 0 = x + y
      OBVIOUS
    <3>6. Cardinality(A \cup B) = Cardinality(A) + Cardinality(B)
      BY <3>3, <3>4, <3>5
    <3> QED
      BY <2>4, <3>2, <3>6
  <2>6. SumOf(list, t .. MaxTime) = SumOf(list, {t} \cup later) /\ SampledAt(list, t .. MaxTime) = SampledAt(list, {t} \cup later)
    <3>1. \A n \in 1 .. Len(list) : list[n].time \in t .. MaxTime <=> list[n].time \in {t} \cup later
      <4>1. \A n \in 1 .. Len(list) : list[n].time \in 0 .. MaxTime
        BY <1>2, SamplesAre
      <4> QED
        BY <1>2, <2>3, <4>1, Ring
    <3> QED
      BY <1>2, <3>1, SumSame
  <2>7. s.accumulated = SumOf(list, t .. MaxTime) /\ s.num = Cardinality(SampledAt(list, t .. MaxTime))
    BY <1>1 DEF RingOK, Content, Since
  <2>8. b[i].sum = SumOf(list, {t}) /\ b[i].samples = Cardinality(SampledAt(list, {t}))
    BY <2>1 DEF Content
  <2>9. /\ SumOf(list, {t}) \in Nat /\ SumOf(list, later) \in Nat
        /\ Cardinality(SampledAt(list, {t})) \in Nat /\ Cardinality(SampledAt(list, later)) \in Nat
    BY <1>2, SamplesAre
  <2>10. /\ dropped.accumulated = SumOf(list, later)
         /\ dropped.num = Cardinality(SampledAt(list, later))
    <3>1. dropped.accumulated = s.accumulated - b[i].sum /\ dropped.num = s.num - b[i].samples
      BY <1>5
    <3>2. s.accumulated = SumOf(list, {t}) + SumOf(list, later)
      BY <2>4, <2>6, <2>7
    <3>3. s.num = Cardinality(SampledAt(list, {t})) + Cardinality(SampledAt(list, later))
      BY <2>5, <2>6, <2>7
    <3>4. \A x, y \in Nat : x + y - x = y
      OBVIOUS
    <3> QED
      BY <2>8, <2>9, <3>1, <3>2, <3>3, <3>4
  <2> QED
    BY <2>3, <2>10 DEF Content
<1>11. ASSUME NEW n \in 1 .. Len(list)
       PROVE  list[n].time < t + 1 + MaxWindow
  <2>1. list[n].time < t + MaxWindow /\ list[n].time \in Nat
    BY <1>1, <1>2, SamplesAre DEF RingOK
  <2> QED
    BY <1>2, <1>4, <2>1
<1>12. dropped.oldestTime = t + 1 /\ dropped.window = s.window
  BY <1>5
<1> HIDE DEF dropped
<1>13. RingOK(dropped, list)
  BY <1>2, <1>7, <1>9, <1>10, <1>11, <1>12 DEF RingOK, Since
<1> QED
  BY <1>1, <1>12, <1>13 DEF dropped

\* A window without samples may begin later: the ring has empty buckets for it.
LEMMA ShiftEmpty ==
  ASSUME NEW s, NEW list, RingOK(s, list), NEW o \in Nat, o >= s.oldestTime, s.num = 0 \/ s.oldestTime = o
  PROVE  /\ RingOK([s EXCEPT !.oldestTime = o], list)
         /\ [s EXCEPT !.oldestTime = o].oldestTime = o /\ [s EXCEPT !.oldestTime = o].window = s.window
<1> DEFINE moved == [s EXCEPT !.oldestTime = o]
<1>1. s \in StatsType /\ list \in Seq(Sample) /\ MaxWindow \in Nat \ {0} /\ MaxTime \in Nat
  BY Ring DEF RingOK
<1>2. PICK b, a, m, t, i, w : s = [buckets |-> b, accumulated |-> a, num |-> m, oldestTime |-> t, oldestIndex |-> i, window |-> w]
  BY <1>1 DEF StatsType
<1>3. moved = [buckets |-> b, accumulated |-> a, num |-> m, oldestTime |-> o, oldestIndex |-> i, window |-> w]
  BY <1>2
<1> HIDE DEF moved
<1>4. /\ moved.buckets = s.buckets /\ moved.accumulated = s.accumulated /\ moved.num = s.num
      /\ moved.oldestIndex = s.oldestIndex /\ moved.window = s.window /\ moved.oldestTime = o
      /\ s.oldestTime = t
  BY <1>2, <1>3
<1>5. moved \in StatsType /\ t \in Int /\ i \in Slots
  BY <1>1, <1>2, <1>3 DEF StatsType
<1>6. CASE t = o
  <2>1. moved = s
    BY <1>2, <1>3, <1>6
  <2> QED
    BY <1>4, <2>1 DEF moved
<1>7. CASE t # o
  <2>1. Cardinality(SampledAt(list, Since(s))) = 0
    BY <1>4, <1>7 DEF RingOK, Content
  <2>2. SampledAt(list, Since(s)) = {}
    BY <1>1, <2>1, SamplesAre, FS_EmptySet
  <2>3. ASSUME NEW n \in 1 .. Len(list)
        PROVE  list[n].time \in Int /\ list[n].time < t /\ list[n].time < o /\ list[n].time <= MaxTime
    <3>1. list[n].time \in 0 .. MaxTime /\ n \in DOMAIN list
      BY <1>1, SamplesAre
    <3>2. list[n].time \notin t .. MaxTime
      BY <1>4, <2>2, <3>1 DEF SampledAt, Since
    <3> QED
      BY <1>1, <1>4, <1>5, <3>1, <3>2
  <2>4. Content(list, Since(s)) = Content(list, Since(moved))
    <3>1. \A n \in 1 .. Len(list) : list[n].time \in Since(s) <=> list[n].time \in Since(moved)
      BY <1>4, <1>5, <2>3 DEF Since
    <3> QED
      BY <1>1, <3>1, SumSame DEF Content
  <2>5. ASSUME NEW d \in Slots
        PROVE  At(moved, d) = Content(list, {o + d})
    <3>1. At(moved, d) = At(s, d) /\ At(s, d) = Content(list, {t + d})
      BY <1>4 DEF At, RingOK
    <3>2. \A n \in 1 .. Len(list) : list[n].time \in {t + d} <=> list[n].time \in {o + d}
      BY <1>1, <1>5, <2>3 DEF Slots
    <3>3. Content(list, {t + d}) = Content(list, {o + d})
      BY <1>1, <3>2, SumSame DEF Content
    <3> QED
      BY <3>1, <3>3
  <2>6. \A n \in 1 .. Len(list) : list[n].time < o + MaxWindow
    BY <1>1, <2>3
  <2>7. [sum |-> moved.accumulated, samples |-> moved.num] = Content(list, Since(moved))
    BY <1>4, <2>4 DEF RingOK
  <2>8. RingOK(moved, list)
    BY <1>1, <1>4, <1>5, <2>5, <2>6, <2>7 DEF RingOK
  <2> QED
    BY <1>4, <2>8 DEF moved
<1> QED
  BY <1>6, <1>7

\* Where the window of a time begins, once EraseOld was called.
Begins(s, now) ==
  IF IsInitialized(s) /\ now - s.window + 1 > s.oldestTime THEN now - s.window + 1 ELSE s.oldestTime

\* EraseOld moves the window to its time, and the ring with it.
LEMMA EraseKeeps ==
  ASSUME NEW s, NEW list, RingOK(s, list), NEW now \in Nat
  PROVE  /\ RingOK(EraseOld(s, now), list)
         /\ EraseOld(s, now).oldestTime = Begins(s, now) /\ EraseOld(s, now).window = s.window
<1>1. /\ s \in StatsType /\ list \in Seq(Sample) /\ MaxWindow \in Nat \ {0} /\ MaxTime \in Nat
      /\ s.window \in 1 .. MaxWindow
  BY Ring DEF RingOK, StatsType
<1>2. PICK oldest, t : oldest = now - s.window + 1 /\ t = s.oldestTime
  OBVIOUS
<1>3. oldest \in Int /\ t \in Nat \cup {-MaxWindow}
  BY <1>1, <1>2 DEF StatsType
<1>4. CASE ~IsInitialized(s) \/ oldest <= t
  <2>1. EraseOld(s, now) = s
    BY <1>2, <1>4 DEF EraseOld
  <2>2. Begins(s, now) = s.oldestTime
    <3>1. ~(oldest > t) \/ ~IsInitialized(s)
      BY <1>1, <1>3, <1>4
    <3> QED
      BY <1>2, <3>1 DEF Begins
  <2> QED
    BY <2>1, <2>2
<1>5. CASE ~(~IsInitialized(s) \/ oldest <= t)
  <2> DEFINE M == MaxWindow
             S == {e \in StatsType : /\ RingOK(e, list) /\ e.window = s.window
                                     /\ t <= e.oldestTime /\ e.oldestTime <= oldest}
             Next(e) == IF e.num > 0 /\ e.oldestTime < oldest THEN DropOldest(e) ELSE e
             step == [n \in 1 .. M |-> [e \in S |-> Next(e)]]
             after == CHOOSE f : f = [n \in 0 .. M |->
                        IF n = 0 THEN s
                        ELSE LET last == f[n - 1]
                             IN  IF last.num > 0 /\ last.oldestTime < oldest THEN DropOldest(last) ELSE last]
  <2>1. t \in Nat /\ t < oldest /\ oldest \in Nat /\ s.oldestTime # -MaxWindow
    BY <1>1, <1>2, <1>3, <1>5 DEF IsInitialized
  <2>2. s \in S
    BY <1>1, <1>2, <2>1
  <2>3. ASSUME NEW e \in S
        PROVE  /\ Next(e) \in S
               /\ \/ Next(e).oldestTime = e.oldestTime + 1
                  \/ Next(e) = e /\ (e.num = 0 \/ e.oldestTime = oldest)
    <3>1. e \in StatsType /\ RingOK(e, list) /\ e.window = s.window /\ t <= e.oldestTime /\ e.oldestTime <= oldest
      OBVIOUS
    <3>2. e.oldestTime \in Nat /\ e.oldestTime # -MaxWindow
      BY <1>1, <2>1, <3>1 DEF StatsType
    <3>3. e.num \in Nat
      BY <1>1, <3>1, SamplesAre DEF RingOK, Content
    <3>4. CASE e.num > 0 /\ e.oldestTime < oldest
      <4>1. Next(e) = DropOldest(e)
        BY <3>4
      <4>2. /\ RingOK(DropOldest(e), list) /\ DropOldest(e).oldestTime = e.oldestTime + 1
            /\ DropOldest(e).window = e.window
        BY <3>1, <3>2, DropKeeps
      <4>3. DropOldest(e) \in StatsType
        BY <4>2 DEF RingOK
      <4>4. t <= e.oldestTime + 1 /\ e.oldestTime + 1 <= oldest
        BY <2>1, <3>1, <3>2, <3>4
      <4>5. DropOldest(e) \in S
        BY <3>1, <4>2, <4>3, <4>4
      <4> QED
        BY <4>1, <4>2, <4>5
    <3>5. CASE ~(e.num > 0 /\ e.oldestTime < oldest)
      <4>1. e.num = 0 \/ e.oldestTime = oldest
        BY <2>1, <3>1, <3>2, <3>3, <3>5
      <4> QED
        BY <3>5, <4>1
    <3> QED
      BY <3>4, <3>5
  <2>4. IsLoop(S, M, s, step)
    BY <1>1, <2>2, <2>3 DEF IsLoop
  <2>5. PICK f : IsRun(f, S, M, s, step)
    <3> HIDE DEF S, step
    <3> QED
      BY <2>4, IterationExists
  <2>6. f \in [0 .. M -> S] /\ f[0] = s /\ \A n \in 1 .. M : f[n] = step[n][f[n - 1]]
    BY <2>5 DEF IsRun
  <2>7. ASSUME NEW n \in 1 .. M
        PROVE  n - 1 \in 0 .. M /\ n \in 0 .. M /\ f[n - 1] \in S /\ f[n] = Next(f[n - 1])
    <3>1. n - 1 \in 0 .. M /\ n \in 0 .. M
      BY <1>1
    <3> HIDE DEF S, Next
    <3>2. f[n - 1] \in S
      BY <2>6, <3>1
    <3> QED
      BY <2>6, <3>1, <3>2
  <2>8. f = [n \in 0 .. M |->
               IF n = 0 THEN s
               ELSE LET last == f[n - 1]
                    IN  IF last.num > 0 /\ last.oldestTime < oldest THEN DropOldest(last) ELSE last]
    <3>1. ASSUME NEW n \in 0 .. M
          PROVE  f[n] = IF n = 0 THEN s ELSE Next(f[n - 1])
      <4>1. n = 0 \/ n \in 1 .. M
        BY <1>1
      <4> HIDE DEF Next, S, step
      <4> QED
        BY <2>6, <2>7, <4>1
    <3> HIDE DEF S, step
    <3> QED
      BY <2>6, <3>1
  <2>9. after = [n \in 0 .. M |->
                   IF n = 0 THEN s
                   ELSE LET last == after[n - 1]
                        IN  IF last.num > 0 /\ last.oldestTime < oldest THEN DropOldest(last) ELSE last]
    BY <2>8, Zenon
  <2>10. EraseOld(s, now) = [after[M] EXCEPT !.oldestTime = oldest]
    BY <1>2, <1>5 DEF EraseOld
  <2> HIDE DEF after
  <2>11. /\ 0 \in 0 .. M /\ M \in 0 .. M /\ after[0] = s
         /\ \A n \in 1 .. M : after[n] = Next(after[n - 1])
    <3>1. 0 \in 0 .. M /\ M \in 0 .. M
      BY <1>1
    <3>2. ASSUME NEW n \in 1 .. M
          PROVE  after[n] = Next(after[n - 1])
      <4>1. n \in 0 .. M /\ n # 0
        BY <1>1
      <4> QED
        BY <2>9, <4>1
    <3>3. after[0] = s
      BY <2>9, <3>1
    <3> QED
      BY <3>1, <3>2, <3>3
  <2> HIDE DEF Next, S
  <2> DEFINE T == {p \in Nat \X S : p[2].num = 0 \/ p[2].oldestTime = oldest \/ p[2].oldestTime >= t + p[1]}
             g == [n \in 0 .. M |-> <<n, after[n]>>]
  <2>12. g[0] \in T
    <3>1. g[0] = <<0, s>> /\ s.oldestTime >= t + 0
      BY <1>2, <2>1, <2>11
    <3> QED
      BY <2>2, <3>1
  <2>13. ASSUME NEW n \in 1 .. M, g[n - 1] \in T
         PROVE  g[n] \in T
    <3>1. PICK e : e = after[n - 1]
      OBVIOUS
    <3>2. n - 1 \in 0 .. M /\ n \in 0 .. M /\ n \in Nat /\ n - 1 \in Nat
      BY <1>1
    <3>3. g[n - 1] = <<n - 1, e>> /\ g[n] = <<n, Next(e)>>
      BY <2>11, <3>1, <3>2
    <3>4. e \in S /\ (e.num = 0 \/ e.oldestTime = oldest \/ e.oldestTime >= t + (n - 1))
      BY <2>13, <3>3
    <3>5. Next(e) \in S
      BY <2>3, <3>4
    <3>6. e.oldestTime \in Int
      <4>1. e \in StatsType
        BY <3>4 DEF S
      <4> QED
        BY <1>1, <4>1 DEF StatsType
    <3>7. Next(e).num = 0 \/ Next(e).oldestTime = oldest \/ Next(e).oldestTime >= t + n
      <4>1. CASE Next(e) = e /\ (e.num = 0 \/ e.oldestTime = oldest)
        BY <4>1
      <4>2. CASE Next(e).oldestTime = e.oldestTime + 1 /\ ~(e.num = 0 \/ e.oldestTime = oldest)
        BY <2>1, <3>2, <3>4, <3>6, <4>2
      <4>3. CASE Next(e).oldestTime = e.oldestTime + 1 /\ (e.num = 0 \/ e.oldestTime = oldest)
        <5>1. Next(e) = e
          BY <1>1, <2>1, <3>6, <4>3 DEF Next
        <5> QED
          BY <4>3, <5>1
      <4> QED
        BY <2>3, <3>4, <4>1, <4>2, <4>3
    <3> QED
      BY <3>2, <3>3, <3>5, <3>7
  <2>14. g[M] \in T
    <3> HIDE DEF g, T
    <3>1. \A n \in 0 .. M : g[n] \in T
      BY <1>1, <2>12, <2>13, IterationStays
    <3> QED
      BY <2>11, <3>1
  <2>15. PICK e : e = after[M]
    OBVIOUS
  <2>16. e \in S /\ (e.num = 0 \/ e.oldestTime = oldest \/ e.oldestTime >= t + M)
    BY <2>11, <2>14, <2>15
  <2>17. /\ e \in StatsType /\ RingOK(e, list) /\ e.window = s.window
         /\ t <= e.oldestTime /\ e.oldestTime <= oldest /\ e.oldestTime \in Int
    <3>1. e \in StatsType /\ RingOK(e, list) /\ e.window = s.window /\ t <= e.oldestTime /\ e.oldestTime <= oldest
      BY <2>16 DEF S
    <3> QED
      BY <1>1, <3>1 DEF StatsType
  <2>18. e.num = 0 \/ e.oldestTime = oldest
    <3>1. SUFFICES ASSUME e.oldestTime >= t + M
                   PROVE  e.num = 0
      BY <2>16
    <3>2. \A n \in 1 .. Len(list) : list[n].time \notin Since(e)
      <4>1. ASSUME NEW n \in 1 .. Len(list)
            PROVE  list[n].time < t + M /\ list[n].time \in Nat
        BY <1>1, <1>2, SamplesAre DEF RingOK
      <4> QED
        BY <1>1, <2>1, <2>17, <3>1, <4>1 DEF Since
    <3>3. SampledAt(list, Since(e)) = {}
      BY <1>1, <3>2, SumNone
    <3> QED
      BY <2>17, <3>3, FS_EmptySet DEF RingOK, Content
  <2>19. /\ RingOK([e EXCEPT !.oldestTime = oldest], list)
         /\ [e EXCEPT !.oldestTime = oldest].oldestTime = oldest /\ [e EXCEPT !.oldestTime = oldest].window = e.window
    <3>1. oldest >= e.oldestTime
      BY <2>1, <2>17
    <3> QED
      BY <2>1, <2>17, <2>18, <3>1, ShiftEmpty
  <2>20. Begins(s, now) = oldest
    BY <1>2, <1>5, <2>1 DEF Begins
  <2> QED
    BY <2>10, <2>15, <2>17, <2>19, <2>20
<1> QED
  BY <1>4, <1>5

\* A sample is added to what the times it falls into have.
LEMMA ContentAppended ==
  ASSUME NEW list \in Seq(Sample), NEW x \in Sample, NEW times
  PROVE  Content(Append(list, x), times)
           = IF x.time \in times THEN [sum |-> Content(list, times).sum + x.count,
                                       samples |-> Content(list, times).samples + 1]
             ELSE Content(list, times)
<1>1. PICK longer : longer = Append(list, x)
  OBVIOUS
<1>2. PICK N \in Nat : N = Len(list)
  OBVIOUS
<1>3. /\ longer \in Seq(Sample) /\ Len(longer) = N + 1 /\ longer[N + 1] = x
      /\ \A n \in 1 .. N : longer[n] = list[n]
  BY <1>1, <1>2, AppendProperties
<1>4. DOMAIN longer = 1 .. N + 1 /\ DOMAIN list = 1 .. N
  BY <1>2, <1>3
<1>5. \A n \in 1 .. N + 1 : n \in 1 .. N \/ n = N + 1
  BY <1>2
<1>6. 1 .. N \subseteq 1 .. N + 1 /\ N + 1 \in 1 .. N + 1 /\ N + 1 \notin 1 .. N
  BY <1>2
<1>7. SampledAt(longer, times) = SampledAt(list, times) \cup IF x.time \in times THEN {N + 1} ELSE {}
  <2>1. ASSUME NEW n \in 1 .. N + 1
        PROVE  longer[n].time \in times
                 <=> n \in SampledAt(list, times) \cup IF x.time \in times THEN {N + 1} ELSE {}
    <3>1. CASE n \in 1 .. N
      <4>1. longer[n] = list[n] /\ n # N + 1
        BY <1>3, <1>6, <3>1
      <4> QED
        BY <1>4, <3>1, <4>1 DEF SampledAt
    <3>2. CASE n = N + 1
      <4>1. n \notin SampledAt(list, times)
        BY <1>4, <1>6, <3>2 DEF SampledAt
      <4> QED
        BY <1>3, <3>2, <4>1
    <3> QED
      BY <1>5, <3>1, <3>2
  <2>2. SampledAt(list, times) \subseteq 1 .. N + 1
    BY <1>4, <1>6 DEF SampledAt
  <2>3. SampledAt(longer, times) = {n \in 1 .. N + 1 : longer[n].time \in times}
    BY <1>4 DEF SampledAt
  <2> QED
    BY <1>6, <2>1, <2>2, <2>3
<1>8. SumOf(longer, times) = SumOf(list, times) + IF x.time \in times THEN x.count ELSE 0
  BY <1>1, SumAppended
<1>9. CASE x.time \in times
  <2>1. N + 1 \notin SampledAt(list, times)
    BY <1>4, <1>6 DEF SampledAt
  <2>2. IsFiniteSet(SampledAt(list, times))
    BY SamplesAre
  <2>3. Cardinality(SampledAt(longer, times)) = Cardinality(SampledAt(list, times)) + 1
    BY <1>7, <1>9, <2>1, <2>2, FS_AddElement
  <2> QED
    BY <1>1, <1>8, <1>9, <2>3 DEF Content
<1>10. CASE x.time \notin times
  <2>1. SumOf(list, times) \in Nat
    BY SamplesAre
  <2>2. SumOf(longer, times) = SumOf(list, times)
    BY <1>8, <1>10, <2>1
  <2>3. SampledAt(longer, times) = SampledAt(list, times)
    BY <1>7, <1>10
  <2> QED
    BY <1>1, <1>10, <2>2, <2>3 DEF Content
<1> QED
  BY <1>9, <1>10

\* A sample that is put into its bucket.
Added(s, index, count) ==
  [s EXCEPT !.buckets[index] = [sum |-> @.sum + count, samples |-> @.samples + 1],
            !.accumulated = @ + count, !.num = @ + 1]

\* The ring has one sample more.
LEMMA AddKeeps ==
  ASSUME NEW s, NEW list, RingOK(s, list), NEW count \in Nat, NEW now \in 0 .. MaxTime, NEW index,
         s.oldestTime \in Nat, s.oldestTime <= now, now < s.oldestTime + MaxWindow,
         index = (s.oldestIndex + (now - s.oldestTime)) % MaxWindow
  PROVE  RingOK(Added(s, index, count), Append(list, [count |-> count, time |-> now]))
<1>1. PICK x : x = [count |-> count, time |-> now]
  OBVIOUS
<1>2. PICK new, longer : new = Added(s, index, count) /\ longer = Append(list, x)
  OBVIOUS
<1>3. /\ s \in StatsType /\ list \in Seq(Sample) /\ MaxWindow \in Nat \ {0} /\ MaxTime \in Nat
      /\ now \in Nat /\ x \in Sample
  BY <1>1, Ring DEF RingOK, Sample
<1>4. PICK b, a, m, t, i, w : s = [buckets |-> b, accumulated |-> a, num |-> m, oldestTime |-> t, oldestIndex |-> i, window |-> w]
  BY <1>3 DEF StatsType
<1>5. /\ s.buckets = b /\ s.accumulated = a /\ s.num = m /\ s.oldestTime = t /\ s.oldestIndex = i
      /\ b \in [Slots -> BucketType] /\ a \in Int /\ m \in Int /\ t \in Nat /\ i \in Slots /\ w \in 1 .. MaxWindow
  BY <1>3, <1>4 DEF StatsType
<1>6. PICK place : place = now - t
  OBVIOUS
<1>7. place \in Slots /\ t + place = now
  <2>1. t <= now /\ now < t + MaxWindow
    BY <1>5
  <2> QED
    BY <1>3, <1>5, <1>6, <2>1 DEF Slots
<1>8. index = (i + place) % MaxWindow /\ index \in Slots
  BY <1>5, <1>6, <1>7, Ring
<1>9. PICK filled : filled = [sum |-> b[index].sum + count, samples |-> b[index].samples + 1]
  OBVIOUS
<1>10. new = [buckets |-> [b EXCEPT ![index] = filled], accumulated |-> a + count, num |-> m + 1,
              oldestTime |-> t, oldestIndex |-> i, window |-> w]
  BY <1>2, <1>4, <1>9 DEF Added
<1>11. /\ new.buckets = [b EXCEPT ![index] = filled] /\ new.accumulated = a + count /\ new.num = m + 1
       /\ new.oldestTime = t /\ new.oldestIndex = i
  BY <1>10
<1>12. new \in StatsType
  <2>1. filled \in BucketType
    BY <1>5, <1>8, <1>9 DEF BucketType
  <2>2. [b EXCEPT ![index] = filled] \in [Slots -> BucketType]
    BY <1>5, <2>1
  <2>3. a + count \in Int /\ m + 1 \in Int
    BY <1>5
  <2> QED
    BY <1>5, <1>10, <2>2, <2>3 DEF StatsType
<1>13. x.time = now /\ x.count = count
  BY <1>1
<1>14. [sum |-> new.accumulated, samples |-> new.num] = Content(longer, Since(new))
  <2>1. now \in Since(new) /\ Since(new) = Since(s)
    BY <1>3, <1>5, <1>11 DEF Since
  <2>2. [sum |-> a, samples |-> m] = Content(list, Since(s))
    BY <1>5 DEF RingOK
  <2>3. Content(list, Since(s)).sum = a /\ Content(list, Since(s)).samples = m
    <3> HIDE DEF Content
    <3>1. PICK c : c = [sum |-> a, samples |-> m]
      OBVIOUS
    <3> QED
      BY <2>2, <3>1
  <2>4. Content(longer, Since(s)) = [sum |-> Content(list, Since(s)).sum + count,
                                     samples |-> Content(list, Since(s)).samples + 1]
    BY <1>2, <1>3, <1>13, <2>1, ContentAppended
  <2> QED
    BY <1>11, <2>1, <2>3, <2>4
<1>15. ASSUME NEW d \in Slots
       PROVE  At(new, d) = Content(longer, {t + d})
  <2>1. b[(i + d) % MaxWindow] = Content(list, {t + d}) /\ (i + d) % MaxWindow \in Slots
    <3>1. At(s, d) = Content(list, {t + d})
      BY <1>5 DEF RingOK
    <3> QED
      BY <1>5, <3>1, Ring DEF At
  <2>2. At(new, d) = [b EXCEPT ![index] = filled][(i + d) % MaxWindow]
    BY <1>11 DEF At
  <2>3. CASE d = place
    <3>1. At(new, d) = filled
      BY <1>5, <1>8, <2>2, <2>3
    <3>2. b[index] = Content(list, {now})
      BY <1>7, <1>8, <2>1, <2>3
    <3>3. Content(longer, {now}) = [sum |-> Content(list, {now}).sum + count,
                                    samples |-> Content(list, {now}).samples + 1]
      BY <1>2, <1>3, <1>13, ContentAppended
    <3> QED
      BY <1>7, <1>9, <2>3, <3>1, <3>2, <3>3
  <2>4. CASE d # place
    <3>1. (i + d) % MaxWindow # index
      <4>1. \A j, e, f \in Slots : (j + e) % MaxWindow = (j + f) % MaxWindow => e = f
        BY Ring
      <4>2. i \in Slots /\ place \in Slots
        BY <1>5, <1>7
      <4>3. (i + d) % MaxWindow = (i + place) % MaxWindow => d = place
        BY ONLY d \in Slots, <4>1, <4>2
      <4> QED
        BY <1>8, <2>4, <4>3
    <3>2. At(new, d) = Content(list, {t + d})
      BY <1>5, <2>1, <2>2, <3>1
    <3>3. now \notin {t + d}
      BY <1>3, <1>5, <1>7, <2>4 DEF Slots
    <3>4. Content(longer, {t + d}) = Content(list, {t + d})
      BY <1>2, <1>3, <1>13, <3>3, ContentAppended
    <3> QED
      BY <3>2, <3>4
  <2> QED
    BY <2>3, <2>4
<1>16. longer \in Seq(Sample) /\ \A n \in 1 .. Len(longer) : longer[n].time < t + MaxWindow
  <2>1. PICK N \in Nat : N = Len(list)
    BY <1>3
  <2>2. /\ longer \in Seq(Sample) /\ Len(longer) = N + 1 /\ longer[N + 1] = x
        /\ \A n \in 1 .. N : longer[n] = list[n]
    BY <1>2, <1>3, <2>1, AppendProperties
  <2>3. \A n \in 1 .. N : list[n].time < t + MaxWindow
    BY <1>5, <2>1 DEF RingOK
  <2>4. \A n \in 1 .. N + 1 : n \in 1 .. N \/ n = N + 1
    BY <2>1
  <2> QED
    BY <1>5, <1>13, <2>2, <2>3, <2>4
<1>17. RingOK(new, longer)
  BY <1>11, <1>12, <1>14, <1>15, <1>16 DEF RingOK
<1> QED
  BY <1>1, <1>2, <1>17

\* Update counts a sample, if its time is not older than the window.
LEMMA UpdateKeeps ==
  ASSUME NEW s, NEW list, RingOK(s, list), NEW count \in Nat, NEW now \in 0 .. MaxTime
  PROVE  RingOK(Update(s, count, now),
                IF now < s.oldestTime THEN list ELSE Append(list, [count |-> count, time |-> now]))
<1>1. CASE now < s.oldestTime
  <2>1. Update(s, count, now) = s
    BY <1>1 DEF Update
  <2> QED
    BY <1>1, <2>1
<1>2. CASE ~(now < s.oldestTime)
  <2>1. PICK culled : culled = EraseOld(s, now)
    OBVIOUS
  <2>2. PICK begun : begun = IF IsInitialized(culled) THEN culled ELSE [culled EXCEPT !.oldestTime = now]
    OBVIOUS
  <2>3. /\ s \in StatsType /\ list \in Seq(Sample) /\ MaxWindow \in Nat \ {0} /\ MaxTime \in Nat
        /\ s.window \in 1 .. MaxWindow /\ s.oldestTime \in Nat \cup {-MaxWindow} /\ now \in Nat
    BY Ring DEF RingOK, StatsType
  <2>4. RingOK(culled, list) /\ culled.oldestTime = Begins(s, now)
    BY <2>1, <2>3, EraseKeeps
  <2>5. culled.oldestTime \in Nat \cup {-MaxWindow}
    BY <2>4 DEF RingOK, StatsType
  <2>6. /\ RingOK(begun, list) /\ begun.oldestTime \in Nat
        /\ begun.oldestTime <= now /\ now < begun.oldestTime + MaxWindow
    <3>1. CASE IsInitialized(culled)
      <4>1. begun = culled /\ culled.oldestTime \in Nat
        BY <2>2, <2>5, <3>1 DEF IsInitialized
      <4>2. s.oldestTime \in Nat /\ IsInitialized(s)
        BY <2>3, <2>4, <3>1 DEF IsInitialized, Begins
      <4>3. s.oldestTime <= now
        BY <1>2, <2>3, <4>2
      <4>4. \/ culled.oldestTime = now - s.window + 1
            \/ culled.oldestTime = s.oldestTime /\ ~(now - s.window + 1 > s.oldestTime)
        BY <2>4, <4>2 DEF Begins
      <4> QED
        BY <2>3, <2>4, <4>1, <4>2, <4>3, <4>4
    <3>2. CASE ~IsInitialized(culled)
      <4>1. culled.oldestTime = -MaxWindow
        BY <3>2 DEF IsInitialized
      <4>2. 1 .. Len(list) = {}
        <5>1. ASSUME NEW n \in 1 .. Len(list)
              PROVE  FALSE
          <6>1. list[n].time < -MaxWindow + MaxWindow
            BY <2>4, <4>1 DEF RingOK
          <6>2. list[n].time \in Nat
            BY <2>3, SamplesAre
          <6> QED
            BY <2>3, <6>1, <6>2
        <5> QED
          BY <5>1
      <4>3. SampledAt(list, Since(culled)) = {}
        BY <2>3, <4>2, SamplesAre DEF SampledAt
      <4>4. culled.num = 0
        BY <2>4, <4>3, FS_EmptySet DEF RingOK, Content
      <4>5. begun = [culled EXCEPT !.oldestTime = now] /\ now >= culled.oldestTime
        BY <2>2, <2>3, <3>2, <4>1
      <4>6. RingOK(begun, list) /\ begun.oldestTime = now
        BY <2>3, <2>4, <4>4, <4>5, ShiftEmpty
      <4> QED
        BY <2>3, <4>6
    <3> QED
      BY <3>1, <3>2
  <2>7. PICK offset : offset = begun.oldestIndex + (now - begun.oldestTime)
    OBVIOUS
  <2>8. PICK index : index = IF offset >= MaxWindow THEN offset - MaxWindow ELSE offset
    OBVIOUS
  <2>9. index = offset % MaxWindow
    <3>1. begun.oldestIndex \in Slots
      BY <2>6 DEF RingOK, StatsType
    <3>2. now - begun.oldestTime \in Slots
      BY <2>3, <2>6 DEF Slots
    <3>3. PICK i \in Slots, d \in Slots : i = begun.oldestIndex /\ d = now - begun.oldestTime
      BY <3>1, <3>2
    <3>4. (i + d) % MaxWindow = IF i + d >= MaxWindow THEN i + d - MaxWindow ELSE i + d
      BY Ring
    <3>5. offset = i + d
      BY <2>7, <3>3
    <3> QED
      BY <2>3, <2>8, <3>4, <3>5 DEF Slots
  <2>10. Update(s, count, now) = Added(begun, index, count)
    BY <1>2, <2>1, <2>2, <2>7, <2>8 DEF Update, Added
  <2>11. RingOK(Added(begun, index, count), Append(list, [count |-> count, time |-> now]))
    BY <2>6, <2>7, <2>9, AddKeeps
  <2> QED
    BY <1>2, <2>10, <2>11
<1> QED
  BY <1>1, <1>2

\* An object that was just reset has counted nothing.
LEMMA ResetIs == RingOK(Reset, <<>>)
<1>1. MaxWindow \in Nat \ {0} /\ MaxTime \in Nat /\ <<>> \in Seq(Sample) /\ Len(<<>>) = 0
  BY Ring
<1>2. ASSUME NEW times
      PROVE  Content(<<>>, times) = EmptyBucket
  <2>1. \A n \in 1 .. Len(<<>>) : <<>>[n].time \notin times
    BY <1>1
  <2>2. SumOf(<<>>, times) = 0 /\ SampledAt(<<>>, times) = {}
    BY <1>1, <2>1, SumNone
  <2> QED
    BY <2>2, FS_EmptySet DEF Content, EmptyBucket
<1>3. PICK none : none = EmptyBucket
  OBVIOUS
<1>4. none \in BucketType /\ none = [sum |-> 0, samples |-> 0]
  BY <1>3 DEF EmptyBucket, BucketType
<1>5. PICK b : b = [i \in Slots |-> none]
  OBVIOUS
<1>6. Reset = [buckets |-> b, accumulated |-> 0, num |-> 0,
               oldestTime |-> -MaxWindow, oldestIndex |-> 0, window |-> MaxWindow]
  BY <1>3, <1>5 DEF Reset, Slots
<1>7. Reset \in StatsType
  <2>1. b \in [Slots -> BucketType] /\ 0 \in Slots /\ MaxWindow \in 1 .. MaxWindow /\ -MaxWindow \in {-MaxWindow}
    BY <1>1, <1>4, <1>5 DEF Slots
  <2> QED
    BY <1>6, <2>1 DEF StatsType
<1>8. \A d \in Slots : At(Reset, d) = none
  <2>1. ASSUME NEW d \in Slots
        PROVE  At(Reset, d) = none
    <3>1. At(Reset, d) = b[(0 + d) % MaxWindow]
      BY <1>6 DEF At
    <3>2. 0 \in Slots
      BY <1>1 DEF Slots
    <3>3. (0 + d) % MaxWindow \in Slots
      BY <3>2, Ring
    <3> QED
      BY <1>5, <3>1, <3>3
  <2> QED
    BY <2>1
<1>9. [sum |-> Reset.accumulated, samples |-> Reset.num] = none
  BY <1>4, <1>6
<1> HIDE DEF Reset
<1> QED
  BY <1>1, <1>2, <1>3, <1>7, <1>8, <1>9 DEF RingOK, Reset

\* The window may shrink and grow.
LEMMA SetWindowKeeps ==
  ASSUME NEW s, NEW list, RingOK(s, list), NEW now \in Nat, NEW size \in Int
  PROVE  RingOK(SetWindowSize(s, size, now), list)
<1>1. CASE size <= 0 \/ size > MaxWindow
  <2>1. SetWindowSize(s, size, now) = s
    BY <1>1 DEF SetWindowSize
  <2> QED
    BY <2>1
<1>2. CASE ~(size <= 0 \/ size > MaxWindow)
  <2> DEFINE sized == [s EXCEPT !.window = size]
  <2>1. s \in StatsType /\ MaxWindow \in Nat
    BY Ring DEF RingOK
  <2>2. PICK b, a, m, t, i, w : s = [buckets |-> b, accumulated |-> a, num |-> m, oldestTime |-> t, oldestIndex |-> i, window |-> w]
    BY <2>1 DEF StatsType
  <2>3. sized = [buckets |-> b, accumulated |-> a, num |-> m, oldestTime |-> t, oldestIndex |-> i, window |-> size]
    BY <2>2
  <2>4. size \in 1 .. MaxWindow
    BY <1>2, <2>1
  <2>5. sized \in StatsType
    BY <2>1, <2>2, <2>3, <2>4 DEF StatsType
  <2> HIDE DEF sized
  <2>6. /\ sized.buckets = s.buckets /\ sized.accumulated = s.accumulated /\ sized.num = s.num
        /\ sized.oldestTime = s.oldestTime /\ sized.oldestIndex = s.oldestIndex
    BY <2>2, <2>3
  <2>7. (\A d \in Slots : At(sized, d) = At(s, d)) /\ Since(sized) = Since(s)
    BY <2>6 DEF At, Since
  <2>8. RingOK(sized, list)
    BY <2>5, <2>6, <2>7 DEF RingOK
  <2>9. RingOK(EraseOld(sized, now), list)
    BY <2>8, EraseKeeps
  <2> QED
    BY <1>2, <2>9 DEF SetWindowSize, sized
<1> QED
  BY <1>1, <1>2

\* Asking for the rate before changes nothing about what a later call says.
LEMMA SameRate ==
  ASSUME NEW s, NEW list, RingOK(s, list), NEW late \in 0 .. MaxTime, NEW now \in 0 .. late
  PROVE  CurrentFecRate(EraseOld(s, now), late) = CurrentFecRate(s, late)
<1>1. PICK e, x, y : e = EraseOld(s, now) /\ x = EraseOld(e, late) /\ y = EraseOld(s, late)
  OBVIOUS
<1>2. /\ MaxWindow \in Nat \ {0} /\ MaxTime \in Nat /\ now \in Nat /\ late \in Nat /\ now <= late
      /\ s.window \in 1 .. MaxWindow /\ s.oldestTime \in Nat \cup {-MaxWindow}
  BY Ring DEF RingOK, StatsType
<1>3. RingOK(e, list) /\ e.oldestTime = Begins(s, now) /\ e.window = s.window
  BY <1>1, <1>2, EraseKeeps
<1>4. RingOK(x, list) /\ x.oldestTime = Begins(e, late) /\ x.window = s.window
  BY <1>1, <1>2, <1>3, EraseKeeps
<1>5. RingOK(y, list) /\ y.oldestTime = Begins(s, late) /\ y.window = s.window
  BY <1>1, <1>2, EraseKeeps
<1>6. Begins(e, late) = Begins(s, late)
  <2>1. CASE IsInitialized(s)
    <3>1. s.oldestTime \in Nat
      BY <1>2, <2>1 DEF IsInitialized
    <3>2. PICK t, w, u : t = s.oldestTime /\ w = s.window /\ u = e.oldestTime
      OBVIOUS
    <3>3. u = IF now - w + 1 > t THEN now - w + 1 ELSE t
      BY <1>3, <2>1, <3>2 DEF Begins
    <3>4. t \in Nat /\ w \in Int
      BY <1>2, <3>1, <3>2
    <3>5. u \in Nat /\ u >= t
      BY <1>2, <3>3, <3>4
    <3>6. IsInitialized(e)
      BY <1>2, <3>2, <3>5 DEF IsInitialized
    <3>7. /\ Begins(e, late) = IF late - w + 1 > u THEN late - w + 1 ELSE u
          /\ Begins(s, late) = IF late - w + 1 > t THEN late - w + 1 ELSE t
      BY <1>3, <2>1, <3>2, <3>6 DEF Begins
    <3> QED
      BY <1>2, <3>3, <3>4, <3>5, <3>7
  <2>2. CASE ~IsInitialized(s)
    <3>1. e.oldestTime = s.oldestTime
      BY <1>3, <2>2 DEF Begins
    <3>2. ~IsInitialized(e)
      BY <2>2, <3>1 DEF IsInitialized
    <3> QED
      BY <2>2, <3>1, <3>2 DEF Begins
  <2> QED
    BY <2>1, <2>2
<1>7. x.oldestTime = y.oldestTime /\ x.window = y.window
  BY <1>4, <1>5, <1>6
<1>8. x.accumulated = y.accumulated /\ x.num = y.num
  <2>1. /\ x.accumulated = SumOf(list, Since(x)) /\ x.num = Cardinality(SampledAt(list, Since(x)))
        /\ y.accumulated = SumOf(list, Since(y)) /\ y.num = Cardinality(SampledAt(list, Since(y)))
    BY <1>4, <1>5 DEF RingOK, Content
  <2>2. Since(x) = Since(y)
    BY <1>7 DEF Since
  <2> QED
    BY <2>1, <2>2
<1>9. RateOf(x, late) = RateOf(y, late)
  BY <1>7, <1>8, Zenon DEF RateOf
<1> QED
  BY <1>1, <1>9, Zenon DEF CurrentFecRate, Rate

-----------------------------------------------------------------------------
(* The theorem.                                                            *)

LEMMA RateStepKeeps == RingOK(stats, samples) /\ [RateNext]_rateVars => RingOK(stats, samples)'
<1> SUFFICES ASSUME RingOK(stats, samples), [RateNext]_rateVars
             PROVE  RingOK(stats', samples')
  BY DEF RingOK, At, Since, Content, SumOf, SampledAt
<1>1. MaxWindow \in Nat /\ MaxTime \in Nat /\ Counts \subseteq Nat
  BY RateAssumption
<1>2. CASE UNCHANGED rateVars
  BY <1>2 DEF rateVars
<1>3. ASSUME NEW now \in 0 .. MaxTime, NEW count \in Counts, stats' = Update(stats, count, now),
             samples' = IF now < stats.oldestTime THEN samples ELSE Append(samples, [count |-> count, time |-> now])
      PROVE  RingOK(stats', samples')
  BY <1>1, <1>3, UpdateKeeps
<1>4. ASSUME NEW now \in 0 .. MaxTime, stats' = EraseOld(stats, now), samples' = samples
      PROVE  RingOK(stats', samples')
  BY <1>1, <1>4, EraseKeeps
<1>5. ASSUME NEW now \in 0 .. MaxTime, NEW size \in {0, 1, MaxWindow - 1, MaxWindow, MaxWindow + 1},
             stats' = SetWindowSize(stats, size, now), samples' = samples
      PROVE  RingOK(stats', samples')
  <2>1. size \in Int /\ now \in Nat
    BY <1>1
  <2> QED
    BY <1>5, <2>1, SetWindowKeeps
<1>6. ASSUME stats' = Reset, samples' = <<>>
      PROVE  RingOK(stats', samples')
  BY <1>6, ResetIs
<1> QED
  BY <1>2, <1>3, <1>4, <1>5, <1>6 DEF RateNext

\* RateStatistics::Update, Rate, SetWindowSize and Reset: what the ring of
\* buckets, its sum and its number of samples say is what was counted in the
\* window, for every size of the window, every clock and every sequence of
\* calls; and EraseOld, which Rate calls on a copy and Update on the object,
\* is not seen by the calls after it.
THEOREM RatesAreExact == RateSpec => []RateExact
<1>1. RateInit => RingOK(stats, samples)
  BY ResetIs DEF RateInit
<1>2. RingOK(stats, samples) /\ [RateNext]_rateVars => RingOK(stats, samples)'
  BY RateStepKeeps
<1>3. RingOK(stats, samples) => RateExact
  <2> SUFFICES ASSUME RingOK(stats, samples)
               PROVE  RateExact
    OBVIOUS
  <2>1. [sum |-> stats.accumulated, samples |-> stats.num]
          = [sum |-> SumOf(samples, stats.oldestTime .. MaxTime),
             samples |-> Cardinality(SampledAt(samples, stats.oldestTime .. MaxTime))]
    BY DEF RingOK, Content, Since
  <2>2. \A d \in 0 .. MaxWindow - 1 :
          stats.buckets[(stats.oldestIndex + d) % MaxWindow]
            = [sum |-> SumOf(samples, {stats.oldestTime + d}),
               samples |-> Cardinality(SampledAt(samples, {stats.oldestTime + d}))]
    BY DEF RingOK, Content, At, Slots
  <2>3. \A late \in 0 .. MaxTime : \A now \in 0 .. late :
          CurrentFecRate(EraseOld(stats, now), late) = CurrentFecRate(stats, late)
    BY SameRate
  <2> QED
    BY <2>1, <2>2, <2>3, Zenon DEF RateExact
<1> QED
  BY <1>1, <1>2, <1>3, PTL DEF RateSpec
=============================================================================
