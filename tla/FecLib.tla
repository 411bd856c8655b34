-------------------------------- MODULE FecLib --------------------------------
(***************************************************************************)
(* feclib-0.90: an erasure code with a band matrix.  The encoder adds each *)
(* payload to up to 2w of k redundant packets, which it sends after n      *)
(* payloads; the decoder takes what it receives out of them again, and     *)
(* solves for what is missing at the end of a group.                       *)
(*                                                                         *)
(* Packets cross a network that loses, delays and repeats them.  A payload *)
(* is one element of GF(2^g): MAC treats each bit position of the g parts  *)
(* of a packet alike.  The times of SendWithDelay are left out.            *)
(***************************************************************************)
EXTENDS GaloisField, SequencesExt

CONSTANTS
  GroupSize, Redundant, Band,   \* n, k and w
  WordBits,                     \* bits of the word coef, 32 in the code
  Factor,                       \* what it is multiplied with, 1763689789
  Payloads                      \* what the client encodes, in its order

PacketsOfGroup == GroupSize + Redundant
Null == [null |-> TRUE]
PositionOf(i) == (i \div PacketsOfGroup) * GroupSize + (i % PacketsOfGroup)

\* One step of GFexp; poly[g] is Pp with x^g.
TimesX(x) == IF GfBits - 1 \in x THEN Add(Shifted(x \ {GfBits - 1}), Pp) ELSE Shifted(x)

GFexp[i \in 0 .. 2 * GF_SIZE - 1] == IF i = 0 THEN One ELSE TimesX(GFexp[i - 1])

\* The logarithms need a poly[g] of which x generates the field: those of
\* g = 2 to 7 do, those of g = 1, 8 and 9 do not and leave entries unset.
ASSUME FecLibAssumption ==
  /\ GroupSize \in Nat \ {0} /\ Redundant \in Nat \ {0} /\ Band \in Nat \ {0}
  /\ WordBits \in Nat /\ GfBits < WordBits /\ Factor \in Nat
  /\ Payloads \in Seq(GF) /\ Len(Payloads) % GroupSize = 0
  /\ GF \ {Zero} = {GFexp[i] : i \in 0 .. GF_SIZE - 1}

GFlog == [x \in GF \ {Zero} |-> CHOOSE i \in 0 .. GF_SIZE - 1 : GFexp[i] = x]

VARIABLES
  sender,     \* the encoder: i, and the redundant packets
  network,    \* packets on their way, with the number of their header
  decoder,    \* f->e, missed and the counters
  output      \* what userReceive was called with

libVars == <<sender, network, decoder, output>>

\* Product[m][s]: part j of the source is multiplied by m * x^j.
Product ==
  [m \in GF |-> LET power[j \in 0 .. GfBits - 1] == IF j = 0 THEN m ELSE TimesX(power[j - 1])
                IN  [s \in GF |-> Total([j \in s |-> power[j]])]]
MAC(multiplier, source, dest) == Add(dest, Product[multiplier][source])

-----------------------------------------------------------------------------
(* The matrix.                                                             *)

Middle(i) == (i * Band) % Redundant
LowRow(i) == Max({0, Min({Middle(i), Redundant - Band}) - Band})
HighRow(i) == Min({Redundant, Max({Middle(i), Band}) + Band}) - 1

\* The top bits of a word that is multiplied for every row of the band.
Coefficient(i, row) ==
  LET word[r \in LowRow(i) - 1 .. row] ==
        IF r = LowRow(i) - 1 THEN (i + 1) % 2 ^ WordBits
        ELSE (word[r - 1] * (Factor % 2 ^ WordBits)) % 2 ^ WordBits
      top == word[row] \div 2 ^ (WordBits - GfBits)
  IN  IF row \in LowRow(i) .. HighRow(i) THEN {bit \in 0 .. GfBits - 1 : (top \div 2 ^ bit) % 2 = 1}
      ELSE Zero

AddToRedundant(red, buf, i) ==
  [row \in 0 .. Redundant - 1 |-> MAC(Coefficient(i, row), buf, red[row])]

\* The order in which redundant packets are sent.
i2redundant(i) ==
  IF i + (Redundant % Band) >= Redundant THEN (i % Band) + (Redundant \div Band) * Band
  ELSE (i % Band) * (Redundant \div Band) + (i \div Band)

NoRedundant == [row \in 0 .. Redundant - 1 |-> Zero]

-----------------------------------------------------------------------------
(* The encoder.                                                            *)

\* The payload, and after the last of a group the redundant packets, which are
\* not reset for the next group.
FecEncode ==
  LET number == PositionOf(sender.i)
      red    == AddToRedundant(sender.red, Payloads[number + 1], sender.i)
      last   == (sender.i + 1) % PacketsOfGroup = GroupSize
  IN  /\ number < Len(Payloads)
      /\ network' = network \cup {[i |-> sender.i, data |-> Payloads[number + 1]]} \cup
           IF last THEN {[i |-> sender.i + 1 + i, data |-> red[i2redundant(i)]] : i \in 0 .. Redundant - 1}
           ELSE {}
      /\ sender' = [i |-> sender.i + 1 + (IF last THEN Redundant ELSE 0), red |-> red]
      /\ UNCHANGED <<decoder, output>>

-----------------------------------------------------------------------------
(* The decoder.  Its operators work on the record state, which is decoder  *)
(* with the field out added for output.                                    *)

IsRedundant(i) == i % PacketsOfGroup >= GroupSize

\* Redundant packets that are missing leave the list, from its end: the last
\* entry is overwritten, which is right only if it is redundant, too.
DropRedundant(missed) ==
  LET Drop(acc, i) ==
        IF ~IsRedundant(acc.missed[i]) THEN acc
        ELSE [missed |-> [acc.missed EXCEPT ![acc.n] = acc.missed[i]], n |-> acc.n - 1,
              rows |-> acc.rows \cup {i2redundant((acc.missed[i] % PacketsOfGroup) - GroupSize)}]
  IN  FoldLeft(Drop, [missed |-> missed, n |-> Len(missed), rows |-> {}],
               [i \in DOMAIN missed |-> Len(missed) + 1 - i])

\* factor times one row of the matrix, added to another.
AddRow(factor, source, dest) ==
  [dest EXCEPT !.coef = [c \in DOMAIN @ |-> MAC(factor, source.coef[c], @[c])],
               !.red  = MAC(factor, source.red, @)]

Leader(row) == Min({c \in DOMAIN row.coef : row.coef[c] # Zero} \cup {Len(row.coef) + 1})

\* The row that becomes the pivot of column i: the first whose leader is i, or
\* else the last with an earlier leader.
BestRow(system, i) ==
  LET rows == {r \in i - 1 .. Redundant - 1 : system[r] # Null}
      now  == {r \in rows : Leader(system[r]) = i}
      past == {r \in rows : Leader(system[r]) < i}
  IN  IF now # {} THEN {Min(now)} ELSE IF past # {} THEN {Max(past)} ELSE {}

Quotient(x, y) == GFexp[GFlog[x] + GF_SIZE - GFlog[y]]

\* Mutant: columns before the pivot are not eliminated.
MutantKeepColumns(system, row, i) == row

\* Columns before i are eliminated with the pivots of rows 0 to i - 2.
Eliminate(system, row, i) ==
  FoldLeft(LAMBDA best, j : IF best.coef[j] = Zero THEN best
                            ELSE AddRow(Quotient(best.coef[j], system[j - 1].coef[j]), system[j - 1], best),
           row, [j \in 1 .. i - 1 |-> j])

\* The system with pivots for columns i to n, or as far as there are any.
RECURSIVE Pivots(_, _, _)
Pivots(system, i, n) ==
  LET best == BestRow(system, i)
      at   == CHOOSE r \in best : TRUE
      row  == Eliminate(system, system[at], i)
      next == [system EXCEPT ![at] = system[i - 1], ![i - 1] = row]
  IN  IF i > n \/ best = {} THEN [system |-> system, found |-> i > n]
      ELSE Pivots(next, IF row.coef[i] # Zero THEN i + 1 ELSE i, n)

\* Back substitution from the last column: what is known is also added to the
\* rows above.
BackSubstitute(system, n) ==
  LET final[i \in 1 .. n] ==
        MAC(Quotient(One, system[i - 1].coef[i]),
            Total([c \in i .. n |-> IF c = i THEN system[i - 1].red
                                    ELSE Product[system[i - 1].coef[c]][final[c]]]), Zero)
  IN  final

\* The redundant packets as the rows leave them.
Buffers(state, system) ==
  [b \in 0 .. Redundant - 1 |->
     LET at == {r \in 0 .. Redundant - 1 : system[r] # Null /\ system[r].at = b}
     IN  IF at = {} THEN state.red[b] ELSE system[CHOOSE r \in at : TRUE].red]

\* The slow part of FlushFecDecoder.
Solve(state) ==
  LET dropped == DropRedundant(state.missed)
      n       == dropped.n
      columns == SortSeq(SubSeq(dropped.missed, 1, n), LAMBDA a, b : Middle(a) < Middle(b))
      system  == [row \in 0 .. Redundant - 1 |->
                    IF row \in dropped.rows THEN Null
                    ELSE [at |-> row, coef |-> [c \in 1 .. n |-> Coefficient(columns[c], row)],
                          red |-> state.red[row]]]
      reduced == Pivots(system, 1, n)
      final   == BackSubstitute(reduced.system, n)
      solved  == [r \in 0 .. Redundant - 1 |->
                    IF r >= n THEN reduced.system[r]
                    ELSE [reduced.system[r] EXCEPT !.red = Product[reduced.system[r].coef[r + 1]][final[r + 1]]]]
      done    == [state EXCEPT !.missed = <<>>,
                    !.tangled = @ \/ \E i, j \in DOMAIN state.missed :
                                       i < j /\ IsRedundant(state.missed[i]) /\ ~IsRedundant(state.missed[j])]
  IN  IF ~reduced.found THEN [done EXCEPT !.lost = @ + n, !.red = Buffers(state, reduced.system)]
      ELSE [done EXCEPT !.corrected = @ + n, !.red = Buffers(state, solved),
                        !.out = @ \cup {[position |-> PositionOf(columns[c]), data |-> final[c],
                                         recovered |-> TRUE] : c \in 1 .. n}]

\* Mutant: redundant packets that are missing are taken for lost payload.
MutantFlush(state) ==
  LET end    == ((state.i + PacketsOfGroup - 1) \div PacketsOfGroup) * PacketsOfGroup
      all    == state.missed \o [x \in 1 .. end - state.i |-> state.i + x - 1]
      closed == [state EXCEPT !.i = end, !.missed = all]
  IN  IF all = <<>> THEN closed
      ELSE IF Len(all) > Redundant THEN [closed EXCEPT !.missed = <<>>, !.lost = @ + Len(all)]
      ELSE Solve(closed)

\* The rest of the group is missing.  With more missing than redundant packets
\* nothing is recovered.
FlushFecDecoder(state) ==
  LET end    == ((state.i + PacketsOfGroup - 1) \div PacketsOfGroup) * PacketsOfGroup
      all    == state.missed \o [x \in 1 .. end - state.i |-> state.i + x - 1]
      closed == [state EXCEPT !.i = end, !.missed = all]
  IN  IF all = <<>> THEN closed
      ELSE IF Len(all) > Redundant
        THEN [closed EXCEPT !.missed = <<>>,
                            !.lost = @ + Cardinality({x \in ToSet(all) : ~IsRedundant(x)})]
      ELSE Solve(closed)

\* Packets from the one expected to hi: each is missing but the last, and a
\* group that is over is flushed when the next one begins.
Advance(state, hi) ==
  LET Pass(acc, i) ==
        LET flushed == IF i % PacketsOfGroup = 0 THEN FlushFecDecoder(acc) ELSE acc
        IN  [flushed EXCEPT !.missed = IF i < hi THEN Append(@, i) ELSE @, !.i = i + 1]
  IN  FoldLeft(Pass, state, [x \in 1 .. hi + 1 - state.i |-> state.i + x - 1])

\* A packet that was missing: the last of the list takes its place.
ShowedUp(missed, hi) ==
  Front([i \in DOMAIN missed |-> IF missed[i] = hi THEN Last(missed) ELSE missed[i]])

\* What arrives for the first time is taken out of the redundant packets.
Accepted(state, packet) ==
  LET group == packet.i \div PacketsOfGroup
      i     == (packet.i % PacketsOfGroup) - GroupSize
  IN  IF i < 0
        THEN [state EXCEPT !.red = AddToRedundant(@, packet.data, packet.i), !.received = @ + 1,
                           !.out = @ \cup {[position |-> group * GroupSize + i + GroupSize,
                                            data |-> packet.data, recovered |-> FALSE]}]
        ELSE [state EXCEPT !.red[i2redundant(i)] = MAC(One, packet.data, @)]

\* The first packet tells where to begin; the groups before it count as lost.
Begin(state, hi) ==
  LET first == (hi \div PacketsOfGroup) * PacketsOfGroup
  IN  IF state.started THEN state
      ELSE [state EXCEPT !.started = TRUE, !.i = first, !.first = first, !.lost = @ + first,
                         !.red = NoRedundant]

Store(state) ==
  /\ decoder' = [field \in DOMAIN decoder |-> state[field]]
  /\ output' = state.out
  /\ UNCHANGED <<sender, network>>

State == [out |-> output] @@ decoder

FecDecode ==
  \E packet \in network :
    LET state == Begin(State, packet.i)
    IN  \/ /\ state.i <= packet.i
           /\ Store(Accepted(Advance(state, packet.i), packet))
        \/ /\ packet.i \in ToSet(state.missed)
           /\ Store(Accepted([state EXCEPT !.missed = ShowedUp(@, packet.i)], packet))

\* The client gives up waiting (fecrecv.c, fectest.c).
Flush ==
  /\ decoder.started /\ (decoder.missed # <<>> \/ decoder.i % PacketsOfGroup # 0)
  /\ Store(FlushFecDecoder(State))

\* NewFecEncoder and NewFecDecoder.
LibInit ==
  /\ sender = [i |-> 0, red |-> NoRedundant] /\ network = {}
  /\ decoder = [started |-> FALSE, i |-> 0, red |-> NoRedundant, missed |-> <<>>, first |-> 0,
                received |-> 0, corrected |-> 0, lost |-> 0, tangled |-> FALSE]
  /\ output = {}

LibNext == FecEncode \/ FecDecode \/ Flush

-----------------------------------------------------------------------------
\* What the client is handed is right, each payload once, and a decoder that was
\* there from the first group on counts every payload as received, corrected or
\* lost and nothing else (fec.h:43, "payload only"), however packets are lost,
\* late or repeated.  One that begins later adds what it never saw with its
\* redundant packets (fec.c:224).  What is recovered is right only in the first
\* group, because neither side resets its redundant packets, and only if no late
\* payload moved a missing redundant packet before a missing payload (tangled).
PayloadDelivered ==
  LET sound == {out \in output : ~out.recovered \/ (out.position < GroupSize /\ ~decoder.tangled)}
  IN  /\ \A out \in sound : out.data = Payloads[out.position + 1]
      /\ \A a, b \in sound : a.position = b.position => a = b
      /\ decoder.tangled \/ decoder.received + decoder.corrected = Cardinality(output)
      /\ (decoder.first = 0 /\ decoder.missed = <<>> /\ decoder.i % PacketsOfGroup = 0) =>
           decoder.received + decoder.corrected + decoder.lost =
             GroupSize * (decoder.i \div PacketsOfGroup)

\* fectest.c:6, "*** Bug in FEC code ! ***": every payload that userReceive is
\* called with is the one that belongs to its position.
PayloadCheck ==
  \A out \in output : out.position < Len(Payloads) /\ out.data = Payloads[out.position + 1]
=============================================================================
