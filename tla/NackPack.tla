------------------------------- MODULE NackPack -------------------------------
(***************************************************************************)
(* How a batch of sequence numbers travels: Pack::packing_nack and         *)
(* Pack::unpacking_nack of nack-test/sender/Transport/pack.cpp (the four   *)
(* copies in the repository agree).  A NACK message is a sequence of items *)
(* (struct FCI): a first sequence number pid and a mask blp of the         *)
(* BlpBits numbers after it, here the set of the bits that are set.  A     *)
(* batch is the set of its numbers; the vector the code packs holds them   *)
(* in ascending order, as GetNackBatch produced them.                      *)
(***************************************************************************)
EXTENDS Integers, Sequences, FiniteSetsExt, SortedSets

CONSTANTS
  PidSpace,      \* size of the sequence number space, 65536 in the code
  BlpBits,       \* width of the mask, 16
  MaxNackItems   \* MAX_NACK_ITEM_NUM, 347

ASSUME PackAssumption ==
  PidSpace \in Nat \ {0} /\ BlpBits \in Nat /\ MaxNackItems \in Nat \ {0}

\* The numbers an item stands for, as the inner loop of unpacking_nack lists
\* them: pid, and pid + 1 + bit in uint16_t arithmetic.
ItemSeqs(fci) == {fci.pid} \cup {(fci.pid + 1 + bit) % PidSpace : bit \in fci.blp}

\* Mutant: bit 0 stands for pid itself.
MutantShifted(batch, pid) ==
  [pid |-> pid, blp |-> {s - pid : s \in {t \in batch : t - pid \in 0 .. BlpBits - 1}}]

\* The item that starts with pid: whatever of the batch lies within the mask
\* after it.
ItemFrom(batch, pid) ==
  [pid |-> pid,
   blp |-> {s - pid - 1 : s \in {t \in batch : t - pid - 1 \in 0 .. BlpBits - 1}}]

\* The numbers that start an item, going through the batch in order: those that
\* the mask of no earlier start has taken.
ItemPids(batch) ==
  CHOOSE pids \in SUBSET batch :
    \A s \in batch : s \in pids <=> ~\E pid \in pids : s - pid \in 1 .. BlpBits

\* Items are packed until the batch is used up or the message is full: what
\* is left of the batch then is not packed anywhere.
packing_nack(batch) ==
  LET pids == Ascending(ItemPids(batch))
  IN  [i \in 1 .. Min({Len(pids), MaxNackItems}) |-> ItemFrom(batch, pids[i])]

unpacking_nack(msg) == UNION {ItemSeqs(msg[i]) : i \in 1 .. Len(msg)}
=============================================================================
