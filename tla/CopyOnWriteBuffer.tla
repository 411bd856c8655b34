------------------------- MODULE CopyOnWriteBuffer -------------------------
(***************************************************************************)
(* rtc::CopyOnWriteBuffer, in which packets keep their bytes: handles that *)
(* share reference counted blocks until one of them writes.  A block is an *)
(* rtc::Buffer (BufferT of buffer.h): data of capacity_ bytes, of which    *)
(* the first size_ count.  Bytes that nothing wrote are Junk.              *)
(***************************************************************************)
EXTENDS Integers, FiniteSetsExt, SequencesExt

CONSTANTS
  Handles,     \* objects of class CopyOnWriteBuffer
  Chunks,      \* sequences of bytes that callers put into them
  Junk,        \* a byte that is not initialised
  MaxSize,     \* bound: bytes in a buffer
  MaxUses      \* bound: calls

ASSUME BufferAssumption ==
  /\ IsFiniteSet(Handles) /\ MaxSize \in Nat /\ MaxUses \in Nat
  /\ \A chunk \in Chunks :
       chunk \in Seq(Range(chunk)) /\ Len(chunk) <= MaxSize /\ Junk \notin Range(chunk)

\* A new block is taken before the old one of the same handle is released.
Blocks == 1 .. Cardinality(Handles) + 1
Null == 0
Freed == [refs |-> 0, size |-> 0, data |-> <<>>]

VARIABLES
  heap,      \* the blocks, with their ref_count_
  buffer,    \* buffer_ of each handle
  meant,     \* the bytes of each handle, if it shared nothing
  uses       \* calls so far
bufferVars == <<heap, buffer, meant, uses>>

Capacity(block) == Len(block.data)
JunkBytes(n) == [i \in 1 .. n |-> Junk]

-----------------------------------------------------------------------------
(* BufferT.                                                                *)

\* BufferT(data, size, capacity); with Junk for data, BufferT(size, capacity).
NewBuffer(bytes, capacity) ==
  [refs |-> 0, size |-> Len(bytes),
   data |-> bytes \o JunkBytes(Max({0, capacity - Len(bytes)}))]

BufferBytes(block) == SubSeq(block.data, 1, block.size)

\* Moves the bytes that count to a larger array, half as large again at least
\* if the caller wants headroom.
EnsureCapacityWithHeadroom(block, capacity, extra) ==
  LET old == Capacity(block)
      new == IF extra THEN Max({capacity, old + old \div 2}) ELSE capacity
  IN  IF capacity <= old THEN block
      ELSE [block EXCEPT !.data = NewBuffer(BufferBytes(block), new).data]

BufferAppendData(block, bytes) ==
  LET size == block.size + Len(bytes)
      room == EnsureCapacityWithHeadroom(block, size, TRUE)
  IN  [room EXCEPT !.size = size,
                   !.data = [i \in DOMAIN @ |-> IF i \in block.size + 1 .. size
                                                  THEN bytes[i - block.size] ELSE @[i]]]

BufferSetData(block, bytes) == BufferAppendData([block EXCEPT !.size = 0], bytes)

BufferSetSize(block, size) ==
  [EnsureCapacityWithHeadroom(block, size, TRUE) EXCEPT !.size = size]

BufferClear(block) == [block EXCEPT !.size = 0]

BufferEquals(a, b) == BufferBytes(a) = BufferBytes(b)

-----------------------------------------------------------------------------
(* scoped_refptr and RefCountedObject.                                     *)

AddRef(blocks, b) == IF b = Null THEN blocks ELSE [blocks EXCEPT ![b].refs = @ + 1]

\* The last reference deletes the block.
Release(blocks, b) ==
  IF b = Null THEN blocks
  ELSE [blocks EXCEPT ![b] = IF blocks[b].refs = 1 THEN Freed
                             ELSE [blocks[b] EXCEPT !.refs = @ - 1]]

HasOneRef(b) == heap[b].refs = 1

\* operator= of a pointer: AddRef comes first, for assignments to oneself.
PointTo(h, b, blocks) ==
  /\ heap' = Release(AddRef(blocks, b), buffer[h])
  /\ buffer' = [buffer EXCEPT ![h] = b]

\* operator= of a pointer that is moved: a temporary takes that of g, changes it
\* for that of h, and releases the latter.
MovePointer(h, g) ==
  /\ heap' = IF g = h THEN heap ELSE Release(heap, buffer[h])
  /\ buffer' = [[buffer EXCEPT ![g] = Null] EXCEPT ![h] = buffer[g]]

\* buffer_ = new RefCountedObject<Buffer>(...)
Allocate(h, block) ==
  LET b == CHOOSE free \in Blocks : heap[free].refs = 0
  IN  PointTo(h, b, [heap EXCEPT ![b] = block])

\* A change of a block that only this handle has.
WriteBlock(h, block) ==
  heap' = [heap EXCEPT ![buffer[h]] = block] /\ UNCHANGED buffer

-----------------------------------------------------------------------------
(* CopyOnWriteBuffer.                                                      *)

Block(h) == heap[buffer[h]]
Bytes(h) == IF buffer[h] = Null THEN <<>> ELSE BufferBytes(Block(h))

\* What data() and the others work on: the block itself, or a copy of it.
CloneDataIfReferenced(h, capacity) ==
  IF HasOneRef(buffer[h]) THEN Block(h) ELSE NewBuffer(BufferBytes(Block(h)), capacity)
Owned(h, block) ==
  IF HasOneRef(buffer[h]) THEN WriteBlock(h, block) ELSE Allocate(h, block)

Equals(g, h) ==
  \/ buffer[g] = buffer[h]
  \/ buffer[g] # Null /\ buffer[h] # Null /\ BufferEquals(Block(g), Block(h))

\* The constructors, that put a new object in the place of an old one.
Construct(h, bytes, capacity) ==
  IF bytes = <<>> /\ capacity = 0 THEN PointTo(h, Null, heap)
  ELSE Allocate(h, NewBuffer(bytes, capacity))
Sized(h, size, capacity) == Construct(h, JunkBytes(size), capacity)

\* operator= and SetData of another buffer.
Copy(h, g) == IF g = h THEN UNCHANGED <<heap, buffer>> ELSE PointTo(h, buffer[g], heap)
CopyData(h, g) == IF g = h THEN UNCHANGED <<heap, buffer>> ELSE PointTo(h, buffer[g], heap)
Move(h, g) == MovePointer(h, g)

\* Slice: a copy, whose offset_ and size_ no other call looks at.
Slice(h, g) == PointTo(h, buffer[g], heap)

Swap(h, g) == buffer' = [buffer EXCEPT ![h] = buffer[g], ![g] = buffer[h]] /\ UNCHANGED heap

SetData(h, bytes) ==
  IF buffer[h] = Null
    THEN IF bytes = <<>> THEN UNCHANGED <<heap, buffer>>
         ELSE Allocate(h, NewBuffer(bytes, 0))
  ELSE IF HasOneRef(buffer[h]) THEN WriteBlock(h, BufferSetData(Block(h), bytes))
  ELSE Allocate(h, NewBuffer(bytes, Capacity(Block(h))))

AppendData(h, bytes) ==
  IF buffer[h] = Null THEN Allocate(h, NewBuffer(bytes, 0))
  ELSE LET block == Block(h)
           own   == CloneDataIfReferenced(h, Max({Capacity(block), block.size + Len(bytes)}))
       IN  Owned(h, BufferAppendData(own, bytes))

AppendBuffer(h, g) == AppendData(h, Bytes(g))

SetSize(h, size) ==
  IF buffer[h] = Null
    THEN IF size = 0 THEN UNCHANGED <<heap, buffer>>
         ELSE Allocate(h, NewBuffer(JunkBytes(size), size))
  ELSE LET block == Block(h)
           kept  == SubSeq(block.data, 1, Min({block.size, size}))
           own   == IF HasOneRef(buffer[h]) THEN block
                    ELSE NewBuffer(kept, Max({Capacity(block), size}))
       IN  Owned(h, BufferSetSize(own, size))

\* A block that is large enough stays as it is, also when it is shared.
EnsureCapacity(h, capacity) ==
  IF buffer[h] = Null
    THEN IF capacity = 0 THEN UNCHANGED <<heap, buffer>>
         ELSE Allocate(h, NewBuffer(<<>>, capacity))
  ELSE IF capacity <= Capacity(Block(h)) THEN UNCHANGED <<heap, buffer>>
  ELSE Owned(h, EnsureCapacityWithHeadroom(CloneDataIfReferenced(h, capacity), capacity, FALSE))

\* Mutant: Clear does not look whether the block is shared.
MutantClearInPlace(h) ==
  IF buffer[h] = Null THEN UNCHANGED <<heap, buffer>>
  ELSE WriteBlock(h, BufferClear(Block(h)))
Clear(h) ==
  IF buffer[h] = Null THEN UNCHANGED <<heap, buffer>>
  ELSE IF HasOneRef(buffer[h]) THEN WriteBlock(h, BufferClear(Block(h)))
  ELSE Allocate(h, NewBuffer(<<>>, Capacity(Block(h))))

\* A byte written through data() and operator[].
WriteByte(h, i, byte) ==
  LET own == CloneDataIfReferenced(h, Capacity(Block(h)))
  IN  Owned(h, [own EXCEPT !.data[i] = byte])

WriteAtIndex(h, index, byte) == WriteByte(h, index + 1, byte)

-----------------------------------------------------------------------------
BufferInit ==
  /\ heap = [b \in Blocks |-> Freed] /\ buffer = [h \in Handles |-> Null]
  /\ meant = [h \in Handles |-> <<>>] /\ uses = 0

Means(h, bytes) == meant' = [meant EXCEPT ![h] = bytes]

\* No caller appends a buffer to itself.
BufferNext ==
  /\ uses < MaxUses /\ uses' = uses + 1
  /\ \E h \in Handles :
       \/ \E capacity \in {0, MaxSize} :
            \/ \E bytes \in Chunks : Construct(h, bytes, capacity) /\ Means(h, bytes)
            \/ Sized(h, 1, capacity) /\ Means(h, JunkBytes(1))
       \/ \E bytes \in Chunks :
            \/ SetData(h, bytes) /\ Means(h, bytes)
            \/ Len(Bytes(h) \o bytes) <= MaxSize /\ AppendData(h, bytes) /\ Means(h, meant[h] \o bytes)
       \/ \E size \in 0 .. MaxSize :
            \/ /\ SetSize(h, size)
               /\ Means(h, SubSeq(meant[h] \o JunkBytes(MaxSize), 1, size))
            \/ EnsureCapacity(h, size) /\ UNCHANGED meant
       \/ Clear(h) /\ Means(h, <<>>)
       \/ \E i \in DOMAIN Bytes(h), byte \in UNION {Range(chunk) : chunk \in Chunks} :
            WriteAtIndex(h, i - 1, byte) /\ Means(h, [meant[h] EXCEPT ![i] = byte])
       \/ \E g \in Handles :
            \/ (Copy(h, g) \/ CopyData(h, g) \/ Slice(h, g)) /\ Means(h, meant[g])
            \/ Move(h, g) /\ meant' = [[meant EXCEPT ![g] = <<>>] EXCEPT ![h] = meant[g]]
            \/ Swap(h, g) /\ meant' = [meant EXCEPT ![h] = meant[g], ![g] = meant[h]]
            \/ /\ g # h /\ Len(Bytes(h) \o Bytes(g)) <= MaxSize
               /\ AppendBuffer(h, g) /\ Means(h, meant[h] \o meant[g])

BufferSpec == BufferInit /\ [][BufferNext]_bufferVars

-----------------------------------------------------------------------------
Agrees(seen, wanted) ==
  /\ Len(seen) = Len(wanted)
  /\ \A i \in DOMAIN seen : wanted[i] \in {seen[i], Junk}

\* Sharing is not seen: whatever the calls on the others, a handle has the
\* bytes that it would have alone (copy_on_write_buffer.h:81).  Two that are
\* equal by operator== have the same bytes; of two with the same bytes it
\* takes one without a block and one with an empty block for different.  The
\* count of a block is the number of its handles, so that it is deleted with
\* the last and never before.
BuffersIndependent ==
  /\ \A h \in Handles : Agrees(Bytes(h), meant[h])
  /\ \A g, h \in Handles :
       /\ Equals(g, h) => Bytes(g) = Bytes(h)
       /\ Bytes(g) = Bytes(h) => Equals(g, h) \/ Bytes(g) = <<>>
  /\ \A b \in Blocks : heap[b].refs = Cardinality({h \in Handles : buffer[h] = b})
=============================================================================
