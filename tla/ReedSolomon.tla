----------------------------- MODULE ReedSolomon -----------------------------
(***************************************************************************)
(* rscode-1.3: a Reed-Solomon code that also finds where a codeword is     *)
(* wrong.  encode_data divides by the generator polynomial; decode_data    *)
(* computes syndromes; correct_errors_erasures finds the locator           *)
(* polynomial from them (Modified_Berlekamp_Massey), its roots, and the    *)
(* magnitudes of the errors.  Each pass of its loop is a step.             *)
(*                                                                         *)
(* The code works in GF(256); here the field is a parameter, and bytes are *)
(* its elements.  A polynomial is the function of its coefficients, an     *)
(* array of MAXDEG entries.                                                *)
(***************************************************************************)
EXTENDS GaloisField, SequencesExt

CONSTANTS
  Npar,         \* NPAR, 4 in the code
  Messages,     \* what is encoded
  Damage,       \* what is added to a byte on the way
  MaxDamage     \* bound: parity bytes that the damage would take

ASSUME ReedSolomonAssumption ==
  /\ Npar \in Nat \ {0} /\ Damage \subseteq GF /\ MaxDamage \in Nat
  /\ \A msg \in Messages : msg \in Seq(GF) /\ Len(msg) + Npar <= GF_SIZE

VARIABLE codeword   \* the codeword of the client, with what became of it

MAXDEG == 2 * Npar
Degrees == 0 .. MAXDEG - 1

-----------------------------------------------------------------------------
(* galois.c: tables of this library's own.                                 *)

\* init_exp_table: a shift register; the second half repeats the first.
gexp[i \in 0 .. 2 * GF_SIZE] ==
  CASE i = 0                -> One
    [] i > GF_SIZE          -> gexp[i - GF_SIZE]
    [] i \in 1 .. GF_SIZE   -> LET prev == gexp[i - 1]
                               IN  IF GfBits - 1 \in prev
                                     THEN Add(Shifted(prev \ {GfBits - 1}), Pp) ELSE Shifted(prev)

glog == [x \in GF |-> IF x = Zero THEN 0 ELSE Min({z \in 0 .. GF_SIZE : gexp[z] = x})]

gmult(a, b) == IF a = Zero \/ b = Zero THEN Zero ELSE gexp[glog[a] + glog[b]]
ginv(elt) == gexp[GF_SIZE - glog[elt]]

-----------------------------------------------------------------------------
(* Polynomials.                                                            *)

UnitPoly == [i \in Degrees |-> IF i = 0 THEN One ELSE Zero]
add_polys(dst, poly) == [i \in Degrees |-> Add(dst[i], poly[i])]
scale_poly(k, poly) == [i \in Degrees |-> gmult(k, poly[i])]
mul_z_poly(poly) == [i \in Degrees |-> IF i = 0 THEN Zero ELSE poly[i - 1]]
mult_polys(p1, p2) ==
  [d \in 0 .. 2 * MAXDEG - 1 |->
     Total([i \in {j \in Degrees : d - j \in Degrees} |-> gmult(p1[i], p2[d - i])])]

-----------------------------------------------------------------------------
(* rs.c.                                                                   *)

\* The product of (x + a^i), i from 1 to NPAR.
compute_genpoly ==
  LET product[i \in 0 .. Npar] ==
        IF i = 0 THEN UnitPoly
        ELSE LET factor == [d \in Degrees |-> CASE d = 0 -> gexp[i] [] d = 1 -> One [] OTHER -> Zero]
                 next   == mult_polys(factor, product[i - 1])
             IN  [d \in Degrees |-> next[d]]
  IN  product[Npar]

\* One byte through the register with feedback.
Feedback(lfsr, byte) ==
  LET dbyte == Add(byte, lfsr[Npar - 1])
  IN  [j \in 0 .. Npar - 1 |->
         IF j = 0 THEN gmult(compute_genpoly[0], dbyte)
         ELSE Add(lfsr[j - 1], gmult(compute_genpoly[j], dbyte))]

\* Parity follows the message, highest coefficient first.
build_codeword(msg, pBytes) == msg \o [i \in 1 .. Npar |-> pBytes[Npar - i]]
encode_data(msg) ==
  build_codeword(msg, FoldLeft(Feedback, [j \in 0 .. Npar - 1 |-> Zero], msg))

\* The value of the codeword at the powers 1 to NPAR of x.  The rest of
\* synBytes is never written.
decode_data(data) ==
  [j \in Degrees |->
     IF j < Npar THEN FoldLeft(LAMBDA sum, byte : Add(byte, gmult(gexp[j + 1], sum)), Zero, data)
     ELSE Zero]
check_syndrome(synBytes) == \E j \in Degrees : synBytes[j] # Zero

-----------------------------------------------------------------------------
(* berlekamp.c.                                                            *)

\* The product of (1 - z * a^loc) for the known locations.
init_gamma(locs) ==
  FoldLeft(LAMBDA gamma, loc : add_polys(gamma, mul_z_poly(scale_poly(gexp[loc], gamma))), UnitPoly, locs)

compute_discrepancy(lambda, synBytes, L, n) ==
  Total([i \in 0 .. L |-> gmult(lambda[i], synBytes[n - i])])

compute_modified_omega(lambda, synBytes) ==
  LET product == mult_polys(lambda, synBytes)
  IN  [i \in Degrees |-> IF i < Npar THEN product[i] ELSE Zero]

\* The locations, counted from the end of the codeword, at which it is wrong.
Find_Roots(lambda) ==
  {GF_SIZE - r : r \in {r \in 1 .. GF_SIZE :
     Total([k \in 0 .. Npar |-> gmult(gexp[(k * r) % GF_SIZE], lambda[k])]) = Zero}}

\* The evaluator over the derivative of the locator at a root: of the
\* derivative the odd powers are left.
Magnitude(lambda, omega, loc) ==
  LET At(power) == gexp[((GF_SIZE - loc) * power) % GF_SIZE]
      num   == Total([j \in Degrees |-> gmult(omega[j], At(j))])
      denom == Total([j \in {i \in Degrees : i % 2 = 1} |-> gmult(lambda[j], At(j - 1))])
  IN  gmult(num, ginv(denom))

\* Too many roots, none, or one that is not in the codeword: nothing is changed.
Corrected(data, lambda, synBytes) ==
  LET csize == Len(data)
      omega == compute_modified_omega(lambda, synBytes)
      roots == Find_Roots(lambda)
  IN  IF Cardinality(roots) \in 1 .. Npar /\ \A loc \in roots : loc < csize
        THEN [i \in 1 .. csize |-> IF csize - i \in roots
                                     THEN Add(data[i], Magnitude(lambda, omega, csize - i)) ELSE data[i]]
        ELSE data

-----------------------------------------------------------------------------
(* The client of example.c.                                                *)

NoCodeword == [step |-> "idle"]

\* rs.c and main: the message becomes a codeword and is sent.
EncodeMessage ==
  /\ codeword = NoCodeword
  /\ \E msg \in Messages :
       codeword' = [step |-> "sent", sent |-> encode_data(msg), data |-> encode_data(msg),
                    errors |-> {}, erasures |-> {}, synBytes |-> <<>>,
                    psi |-> <<>>, D |-> <<>>, k |-> 0, L |-> 0, n |-> 0]

\* byte_err: a byte is changed; of an erasure the receiver knows the place.
DamageByte ==
  /\ codeword.step = "sent"
  /\ \E loc \in DOMAIN codeword.data \ (codeword.errors \cup codeword.erasures), add \in Damage :
       \/ /\ add # Zero
          /\ 2 * Cardinality(codeword.errors) + 2 + Cardinality(codeword.erasures) <= MaxDamage
          /\ codeword' = [codeword EXCEPT !.data[loc] = Add(@, add), !.errors = @ \cup {loc}]
       \/ /\ 2 * Cardinality(codeword.errors) + Cardinality(codeword.erasures) + 1 <= MaxDamage
          /\ codeword' = [codeword EXCEPT !.data[loc] = Add(@, add), !.erasures = @ \cup {loc}]

DecodeData ==
  /\ codeword.step = "sent"
  /\ codeword' = [codeword EXCEPT !.step = "checked", !.synBytes = decode_data(codeword.data)]

\* Without a syndrome there is nothing to do.  The places of the erasures are
\* counted from the end of the codeword, and given in any order.
CheckSyndrome ==
  /\ codeword.step = "checked"
  /\ LET locs  == {Len(codeword.data) - loc : loc \in codeword.erasures}
         gamma == init_gamma(SetToSeq(locs))
     IN  codeword' = IF check_syndrome(codeword.synBytes)
                       THEN [codeword EXCEPT !.step = "locate", !.psi = gamma, !.D = mul_z_poly(gamma),
                                             !.k = -1, !.L = Cardinality(locs), !.n = Cardinality(locs)]
                       ELSE [codeword EXCEPT !.step = "done"]

\* Mutant: where the locator last grew is forgotten.
MutantKStays ==
  /\ codeword.step = "locate" /\ codeword.n < Npar
  /\ LET d    == compute_discrepancy(codeword.psi, codeword.synBytes, codeword.L, codeword.n)
         grow == d # Zero /\ codeword.L < codeword.n - codeword.k
     IN  codeword' = [codeword EXCEPT
           !.n = @ + 1, !.psi = add_polys(@, scale_poly(d, codeword.D)),
           !.D = mul_z_poly(IF grow THEN scale_poly(ginv(d), codeword.psi) ELSE @),
           !.L = IF grow THEN codeword.n - codeword.k ELSE @]

\* One pass of the loop: the locator psi is corrected by the discrepancy.
Modified_Berlekamp_Massey ==
  /\ codeword.step = "locate" /\ codeword.n < Npar
  /\ LET d    == compute_discrepancy(codeword.psi, codeword.synBytes, codeword.L, codeword.n)
         grow == d # Zero /\ codeword.L < codeword.n - codeword.k
     IN  codeword' = [codeword EXCEPT
           !.n = @ + 1, !.psi = add_polys(@, scale_poly(d, codeword.D)),
           !.D = mul_z_poly(IF grow THEN scale_poly(ginv(d), codeword.psi) ELSE @),
           !.k = IF grow THEN codeword.n - codeword.L ELSE @,
           !.L = IF grow THEN codeword.n - codeword.k ELSE @]

\* The rest of correct_errors_erasures.
CorrectErrors ==
  /\ codeword.step = "locate" /\ codeword.n >= Npar
  /\ codeword' = [codeword EXCEPT !.step = "done",
                                  !.data = Corrected(@, codeword.psi, codeword.synBytes)]

NextMessage == codeword.step = "done" /\ codeword' = NoCodeword

ReedSolomonNext ==
  EncodeMessage \/ DamageByte \/ DecodeData \/ CheckSyndrome \/ Modified_Berlekamp_Massey
    \/ CorrectErrors \/ NextMessage

-----------------------------------------------------------------------------
\* example.c:33: with E errors and K erasures, 2E + K bytes of parity are enough
\* to get the message back, wherever the errors are, in a codeword of full
\* length or a shortened one, in the parity bytes as well, and also when an
\* erased byte happens to be right; damage is never missed.
ErrorsCorrected ==
  (codeword.step = "done" /\ 2 * Cardinality(codeword.errors) + Cardinality(codeword.erasures) <= Npar)
    => codeword.data = codeword.sent
=============================================================================
