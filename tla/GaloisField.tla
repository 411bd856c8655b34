----------------------------- MODULE GaloisField -----------------------------
(***************************************************************************)
(* The field that the erasure code computes in: the tables gf_exp, gf_log, *)
(* inverse and gf_mul_table of fec-test/.../FEC/fec.c.  An element of      *)
(* GF(2^GfBits) is a polynomial over two elements, here the set of its     *)
(* exponents (the set bits of the code's unsigned char), so that exclusive *)
(* or is the symmetric difference.                                         *)
(***************************************************************************)
EXTENDS Integers, FiniteSetsExt, Functions

CONSTANTS
  GfBits,   \* GF_BITS, 8 in the code
  Pp        \* the exponents of allPp[GF_BITS] below GfBits

ASSUME FieldAssumption == GfBits \in Nat /\ GfBits >= 2 /\ Pp \subseteq 0 .. GfBits - 1

GF_SIZE == 2 ^ GfBits - 1
GF == SUBSET (0 .. GfBits - 1)
Zero == {}
One == {0}

Add(x, y) == (x \ y) \cup (y \ x)
Shifted(x) == {bit + 1 : bit \in x}
Total(f) == FoldFunction(Add, Zero, f)

\* The remainder by GF_SIZE, without a division.
modnn(x) ==
  LET fold[y \in 0 .. x] ==
        IF y < GF_SIZE THEN y
        ELSE fold[((y - GF_SIZE) \div 2 ^ GfBits) + ((y - GF_SIZE) % 2 ^ GfBits)]
  IN  fold[x]

\* The powers of the polynomial x.  (The code repeats the table once more, for
\* products it does not reduce; with at most 8 bits nothing reads that half.)
gf_exp[i \in 0 .. GF_SIZE - 1] ==
  CASE i < GfBits -> {i}
    [] i = GfBits -> Pp
    [] i > GfBits -> LET prev == gf_exp[i - 1]
                     IN  IF GfBits - 1 \in prev
                           THEN Add(Pp, Shifted(prev \ {GfBits - 1}))
                           ELSE Shifted(prev)

\* Entry gf_exp[i] is given the value i, in the order of the exponents.
gf_log ==
  [x \in GF |-> IF x = Zero THEN GF_SIZE
                ELSE Max({0} \cup {i \in 0 .. GF_SIZE - 1 : gf_exp[i] = x})]

inverse ==
  [x \in GF |-> CASE x = Zero -> Zero
                  [] x = One  -> One
                  [] OTHER    -> gf_exp[GF_SIZE - gf_log[x]]]

\* Mutant: the row and the column of zero are left as computed.
MutantMulTable ==
  [x \in GF |-> [y \in GF |-> gf_exp[modnn(gf_log[x] + gf_log[y])]]]

gf_mul_table ==
  [x \in GF |-> [y \in GF |-> IF x = Zero \/ y = Zero THEN Zero
                              ELSE gf_exp[modnn(gf_log[x] + gf_log[y])]]]
gf_mul(x, y) == gf_mul_table[x][y]
=============================================================================
