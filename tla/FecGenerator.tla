----------------------------- MODULE FecGenerator -----------------------------
(***************************************************************************)
(* Groups of packets protected by a block code: class FECGenerator of      *)
(* fec-test/sender/Transport/FEC/fec_gen.{h,cpp} (the receiver's copy has  *)
(* the same logic).  One instance encodes in the sender, one decodes in    *)
(* the receiver, and the network between them loses blocks, brings them    *)
(* twice and, unless inOrder, in any order.                                *)
(*                                                                         *)
(* The contents of a buffer is the block it holds, [group, index], or      *)
(* Garbage.  The codec of fec.c is taken as the ideal code it implements:  *)
(* from K blocks of a group, each in a slot labelled with its own index,   *)
(* it computes the missing raw blocks, and from anything else nothing of   *)
(* use.  fec_decode works in place: a recovered block replaces the         *)
(* redundant block it was computed into.                                   *)
(***************************************************************************)
EXTENDS Integers, FiniteSets, Sequences, SequencesExt, Bags, SortedSets

CONSTANTS
  FecK, FecN,   \* fec_k and fec_n
  MaxGroups,    \* bound: groups the sender encodes
  MaxFaults,    \* bound: blocks lost or duplicated in a run
  Garbage       \* contents that is no block

ASSUME FecAssumption ==
  /\ FecK \in Nat \ {0} /\ FecN \in Nat /\ FecK <= FecN
  /\ MaxGroups \in Nat /\ MaxFaults \in Nat

VARIABLES
  enc,         \* encoder: last_group_id and packet_count
  dec,         \* decoder: last_group_id, used_marks, packet_count,
               \* raw_packet_count and input_data
  delivered,   \* bag of what Decode gave to its callback
  net,         \* blocks on their way, in the order they were sent
  faults,      \* blocks lost or duplicated so far
  inOrder      \* the network keeps the order

vars == <<enc, dec, delivered, net, faults, inOrder>>

Indices == 0 .. FecN - 1
RawIndices == 0 .. FecK - 1
Block(group, index) == [group |-> group, index |-> index]

ASSUME GarbageAssumption == Garbage \notin [group : Nat, index : Indices]

-----------------------------------------------------------------------------
(* The encoder.                                                            *)

\* The network takes the blocks out, losing some.
Transmit(out) ==
  \E lost \in SUBSET (1 .. Len(out)) :
    /\ LET kept == (1 .. Len(out)) \ lost
       IN  net' = net \o [i \in 1 .. Cardinality(kept) |-> out[Ascending(kept)[i]]]
    /\ faults' = faults + Cardinality(lost)
    /\ faults' <= MaxFaults

\* The blocks that Encode hands to its callback: the packet as the next raw
\* block of the group, and after the last one the redundant blocks.
Encoded(e) ==
  <<Block(e.group, e.count)>> \o
    IF e.count + 1 = FecK THEN [i \in 1 .. FecN - FecK |-> Block(e.group, FecK + i - 1)] ELSE <<>>

\* A group that is complete makes room for the next one.
Counted(e) ==
  IF e.count + 1 = FecK THEN [group |-> e.group + 1, count |-> 0] ELSE [e EXCEPT !.count = @ + 1]

Encode ==
  /\ enc.group < MaxGroups
  /\ enc' = Counted(enc)
  /\ Transmit(Encoded(enc))
  /\ UNCHANGED <<dec, delivered, inOrder>>

-----------------------------------------------------------------------------
(* The decoder.                                                            *)

\* Mutant: Clear keeps the marks.
MutantMarksKept(d, group) ==
  IF group = d.group THEN d ELSE [d EXCEPT !.group = group, !.count = 0, !.raw = 0]

\* A block of another group than the last one makes the decoder start over.
Switched(d, group) ==
  IF group = d.group THEN d
  ELSE [d EXCEPT !.group = group, !.marks = {}, !.count = 0, !.raw = 0]

\* Mutant: used_marks is not looked at.
MutantAlwaysFresh(d, b) == TRUE

\* Is it the first time that the block arrives?
Fresh(d, b) == b.index \notin d.marks

\* A fresh block is stored and counted.
Stored(d, b) ==
  IF ~Fresh(d, b) THEN d
  ELSE [d EXCEPT !.input[b.index] = b, !.marks = @ \cup {b.index},
                 !.count = @ + 1,
                 !.raw = IF b.index \in RawIndices THEN @ + 1 ELSE @]

\* The raw blocks without a mark, and the redundant blocks with one, in order.
Missing(d) == Ascending(RawIndices \ d.marks)
Redundant(d) == Ascending(d.marks \ RawIndices)

\* Mutant: recovery waits for all the blocks of the group.
MutantAllNeeded(d) ==
  /\ d.count >= FecN
  /\ d.raw # FecK
  /\ Len(Missing(d)) <= Len(Redundant(d))

\* Recovery is tried when FecK blocks are there but not all raw ones, and goes
\* through when every missing raw block finds a redundant one.
Recoverable(d) ==
  /\ d.count >= FecK
  /\ d.raw # FecK
  /\ Len(Missing(d)) <= Len(Redundant(d))

\* The slots that fec_decode reads, and whether each holds what its label says.
SlotsRead(d) == (RawIndices \cap d.marks)
                \cup {Redundant(d)[i] : i \in 1 .. Len(Missing(d))}
SlotsTrue(d) == \A j \in SlotsRead(d) : d.input[j] = Block(d.group, j)

\* What fec_decode computes for the missing raw block i.
Decoded(d, i) == IF SlotsTrue(d) THEN Block(d.group, i) ELSE Garbage

\* The decoder after a recovery: the redundant buffers used are overwritten.
Recovered(d) ==
  LET missing == Missing(d)
      used    == Redundant(d)
  IN  [d EXCEPT
         !.count = @ + Len(missing),
         !.raw = @ + Len(missing),
         !.input = [j \in Indices |->
                      IF \E i \in 1 .. Len(missing) : used[i] = j
                        THEN Decoded(d, missing[CHOOSE i \in 1 .. Len(missing) : used[i] = j])
                        ELSE @[j]]]

\* What reaches the callback: slot index of group, with these contents.
Delivery(group, index, contents) ==
  [group |-> group, index |-> index, contents |-> contents]

\* The decoder after a block, and what it gave to the callback, in order.
DecoderAfter(d, b) ==
  LET stored == Stored(Switched(d, b.group), b)
  IN  IF Recoverable(stored) THEN Recovered(stored) ELSE stored

Deliveries(d, b) ==
  LET switched == Switched(d, b.group)
      stored   == Stored(switched, b)
      missing  == Missing(stored)
  IN  (IF Fresh(switched, b) /\ b.index \in RawIndices THEN <<Delivery(b.group, b.index, b)>> ELSE <<>>)
      \o (IF Recoverable(stored)
            THEN [i \in DOMAIN missing |-> Delivery(b.group, missing[i], Decoded(stored, missing[i]))]
            ELSE <<>>)

\* The bag with what comes out, too.
BagAfter(bag, out) ==
  [p \in DOMAIN bag \cup ToSet(out) |-> (IF BagIn(p, bag) THEN bag[p] ELSE 0) + Cardinality({i \in DOMAIN out : out[i] = p})]

Decode(b) ==
  /\ dec' = DecoderAfter(dec, b)
  /\ delivered' = BagAfter(delivered, Deliveries(dec, b))

\* A block arrives: the oldest one, or any, and the network may keep a copy.
Receive ==
  \E i \in 1 .. Len(net), copy \in BOOLEAN :
    /\ inOrder => i = 1
    /\ Decode(net[i])
    /\ net' = IF copy THEN net ELSE RemoveAt(net, i)
    /\ faults' = IF copy THEN faults + 1 ELSE faults
    /\ faults' <= MaxFaults
    /\ UNCHANGED <<enc, inOrder>>

-----------------------------------------------------------------------------
Init ==
  /\ enc = [group |-> 0, count |-> 0]
  /\ dec = [group |-> 0, marks |-> {}, count |-> 0, raw |-> 0,
            input |-> [j \in Indices |-> Garbage]]
  /\ delivered = EmptyBag
  /\ net = <<>>
  /\ faults = 0
  /\ inOrder \in BOOLEAN

Next == Encode \/ Receive

Spec == Init /\ [][Next]_vars

-----------------------------------------------------------------------------
\* What the code is for: once any FecK blocks of the decoder's group have
\* arrived, each of its raw blocks has been delivered with its own contents,
\* whatever was lost, reordered or duplicated, and although a block of another
\* group makes Decode start over.
AnyKSuffice ==
  Cardinality(dec.marks) >= FecK =>
    \A i \in RawIndices :
      BagIn(Delivery(dec.group, i, Block(dec.group, i)), delivered)

\* On a network that keeps the order the upper layer is given each packet once:
\* neither a duplicate nor the recovery delivers a block delivered before.
DeliveredOnce ==
  /\ \A p \in BagToSet(delivered) : delivered[p] = 1
  /\ \A p, q \in BagToSet(delivered) :
       p.group = q.group /\ p.index = q.index => p = q
OnceInOrder == inOrder => DeliveredOnce

\* What is delivered for a raw block is what Encode was given for it.
\* fec_gen.cpp:106 has Decode stop before the recovery when the raw data are
\* complete, and fec.c:820 says of fec_decode that it "produces the correct
\* vector as output".
DeliveredTrue ==
  \A p \in BagToSet(delivered) : p.contents = Block(p.group, p.index)

\* As far as it holds: contents are wrong only once a raw block came after it
\* had been recovered, and so was delivered twice.
TrueUnlessLate == DeliveredOnce => DeliveredTrue
=============================================================================
