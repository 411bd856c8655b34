--------------------------- MODULE VandermondeCodec ---------------------------
(***************************************************************************)
(* The erasure code of fec-test/.../FEC/fec.c: fec_new builds a systematic *)
(* encoding matrix from a Vandermonde matrix, fec_encode computes the      *)
(* blocks, and fec_decode finds the raw blocks again from k blocks in any  *)
(* order: it shuffles the raw ones to their places, inverts the rows of    *)
(* the others and multiplies.  Each pass of a loop of the decoder is a     *)
(* step, so that its termination can be stated.                            *)
(*                                                                         *)
(* addmul treats the symbols of a packet one by one and alike: a packet    *)
(* here is one symbol.  A matrix is a function of functions from 0.        *)
(***************************************************************************)
EXTENDS GaloisField, Sequences

CONSTANTS
  Ks, Ns,   \* the values of k and n that fec_new is called with
  Symbols   \* the contents of a raw packet

ASSUME CodecAssumption ==
  Ks \subseteq Nat \ {0} /\ Ns \subseteq Nat /\ Symbols \subseteq GF

VARIABLES
  code,     \* the descriptor: k, n and enc_matrix
  src,      \* the raw packets of the encoder
  index,    \* index[] of fec_decode
  pkt,      \* pkt[] of fec_decode
  phase,    \* which loop of the decoder runs, or its result
  pos,      \* the counter of that loop
  matrix,   \* the matrix that invert_mat works on, in place
  pivots    \* for every column done the pair <<indxr, indxc>>

codecVars == <<code, src, index, pkt, phase, pos, matrix, pivots>>
decoderVars == <<index, pkt, pos, matrix, pivots>>

UpTo(m) == 0 .. m - 1
Unit(m, i) == [j \in UpTo(m) |-> IF i = j THEN One ELSE Zero]
matmul(a, b, rows, inner, cols) ==
  [r \in rows |-> [c \in cols |-> Total([i \in inner |-> gf_mul(a[r][i], b[i][c])])]]

-----------------------------------------------------------------------------
(* The encoder.                                                            *)

\* The inverse of the Vandermonde matrix m of size k, from its second column.
invert_vdm(m, k) ==
  LET p == [i \in UpTo(k) |-> m[i][1]]
      \* coefficients of the product of (x - p[j]), j up to i
      coeffs[i \in UpTo(k)] ==
        IF i = 0 THEN [j \in UpTo(k) |-> IF j = k - 1 THEN p[0] ELSE Zero]
        ELSE LET prev == coeffs[i - 1]
             IN  [j \in UpTo(k) |->
                    CASE j = k - 1             -> Add(prev[j], p[i])
                      [] j \in k - i .. k - 2  -> Add(prev[j], gf_mul(p[i], prev[j + 1]))
                      [] j < k - i             -> prev[j]]
      c == coeffs[k - 1]
      \* synthetic division by (x - p[row]), and its value at p[row]
      b[row \in UpTo(k), i \in UpTo(k)] ==
        IF i = k - 1 THEN One ELSE Add(c[i + 1], gf_mul(p[row], b[row, i + 1]))
      t[row \in UpTo(k), i \in UpTo(k)] ==
        IF i = k - 1 THEN One ELSE Add(gf_mul(p[row], t[row, i + 1]), b[row, i])
  IN  IF k = 1 THEN [i \in {0} |-> [j \in {0} |-> m[0][0]]]
      ELSE [col \in UpTo(k) |->
              [row \in UpTo(k) |-> gf_mul(inverse[t[row, 0]], b[row, col])]]

\* Mutant: the powers of a row are added up instead of multiplied.
MutantNotPowers(k, n) ==
  [r \in UpTo(n) |-> IF r = 0 THEN Unit(k, 0)
                     ELSE [c \in UpTo(k) |-> gf_exp[modnn(r - 1 + c)]]]

\* Row 0 holds the powers of zero, row r those of the power r - 1 of x.
Vandermonde(k, n) ==
  [r \in UpTo(n) |-> IF r = 0 THEN Unit(k, 0)
                     ELSE [c \in UpTo(k) |-> gf_exp[modnn((r - 1) * c)]]]

\* fec_new returns no descriptor for other parameters.
ValidCode(k, n) == k <= GF_SIZE + 1 /\ n <= GF_SIZE + 1 /\ k <= n

\* The rows below k times the inverse of the top, under the identity.
EncMatrix(k, n) ==
  LET vdm    == Vandermonde(k, n)
      bottom == matmul(vdm, invert_vdm(vdm, k), k .. n - 1, UpTo(k), UpTo(k))
  IN  [r \in UpTo(n) |-> IF r < k THEN Unit(k, r) ELSE bottom[r]]

fec_new(k, n) ==
  /\ phase = "none"
  /\ ValidCode(k, n)
  /\ code' = [k |-> k, n |-> n, enc_matrix |-> EncMatrix(k, n)]
  /\ phase' = "ready"
  /\ UNCHANGED <<src, decoderVars>>

\* The block of that number.
fec_encode(raw, number) ==
  IF number < code.k THEN raw[number]
  ELSE Total([i \in UpTo(code.k) |-> gf_mul(code.enc_matrix[number][i], raw[i])])

-----------------------------------------------------------------------------
(* The decoder.                                                            *)

Rows == UpTo(code.k)

\* fec_decode is called with blocks of some group, whatever their order.  A
\* block may be there twice: the codec does not rely on its caller.
Call(raw, numbers) ==
  /\ phase = "ready"
  /\ src' = raw
  /\ index' = numbers
  /\ pkt' = [i \in Rows |-> fec_encode(raw, numbers[i])]
  /\ phase' = "shuffle"
  /\ pos' = 0
  /\ UNCHANGED <<code, matrix, pivots>>

\* f with its values at i and j exchanged.
Swapped(f, i, j) == [f EXCEPT ![i] = f[j], ![j] = f[i]]

\* Mutant: the conflict is not looked for.
MutantNoConflict ==
  /\ phase = "shuffle" /\ pos < code.k
  /\ IF index[pos] >= code.k \/ index[pos] = pos
       THEN pos' = pos + 1 /\ UNCHANGED <<index, pkt, phase>>
       ELSE /\ index' = Swapped(index, pos, index[pos])
            /\ pkt' = Swapped(pkt, pos, index[pos])
            /\ UNCHANGED <<pos, phase>>
  /\ UNCHANGED <<code, src, matrix, pivots>>

\* One pass of shuffle: a raw block that is not in its place is exchanged with
\* what is there, unless that is the same block.
Shuffle ==
  /\ phase = "shuffle" /\ pos < code.k
  /\ LET c == index[pos]
     IN  \/ /\ c >= code.k \/ c = pos
            /\ pos' = pos + 1
            /\ UNCHANGED <<index, pkt, phase>>
         \/ /\ c < code.k /\ c # pos /\ index[c] = c
            /\ phase' = "failed"
            /\ UNCHANGED <<index, pkt, pos>>
         \/ /\ c < code.k /\ c # pos /\ index[c] # c
            /\ index' = Swapped(index, pos, c)
            /\ pkt' = Swapped(pkt, pos, c)
            /\ UNCHANGED <<pos, phase>>
  /\ UNCHANGED <<code, src, matrix, pivots>>

\* build_decode_matrix: the encoding row of every block that is there.
BuildMatrix ==
  /\ phase = "shuffle" /\ pos = code.k
  /\ matrix' = [i \in Rows |-> IF index[i] < code.k THEN Unit(code.k, i)
                               ELSE code.enc_matrix[index[i]]]
  /\ pivots' = <<>>
  /\ phase' = "invert"
  /\ pos' = 0
  /\ UNCHANGED <<code, src, index, pkt>>

\* Columns that were pivots, and the candidates for the next: the diagonal if
\* possible, otherwise the first entry in row order.
Used == {pivots[i][2] : i \in 1 .. Len(pivots)}
Candidates == {e \in (Rows \ Used) \X (Rows \ Used) : matrix[e[1]][e[2]] # Zero}

Pivot ==
  IF <<pos, pos>> \in Candidates THEN {<<pos, pos>>}
  ELSE {e \in Candidates : \A d \in Candidates :
          e[1] < d[1] \/ (e[1] = d[1] /\ e[2] <= d[2])}

\* The row of the pivot divided by it, its own entry replaced by One first, and
\* the matrix after multiples of that row are removed from the others.
Scaled(row, col) == [j \in Rows |-> gf_mul(inverse[row[col]],
                                          IF j = col THEN One ELSE row[j])]
Eliminated(m, col) ==
  LET pivot == Scaled(m[col], col)
  IN  [i \in Rows |-> IF i = col THEN pivot
                      ELSE [j \in Rows |-> Add(IF j = col THEN Zero ELSE m[i][j],
                                               gf_mul(m[i][col], pivot[j]))]]

\* One column of invert_mat; without a pivot the matrix is singular.
InvertColumn ==
  /\ phase = "invert"
  /\ \/ \E e \in Pivot :
          /\ matrix' = Eliminated(Swapped(matrix, e[1], e[2]), e[2])
          /\ pivots' = Append(pivots, e)
          /\ pos' = pos + 1
          /\ phase' = IF pos' = code.k THEN "unscramble" ELSE phase
     \/ /\ Pivot = {}
        /\ phase' = "failed"
        /\ UNCHANGED <<matrix, pivots, pos>>
  /\ UNCHANGED <<code, src, index, pkt>>

\* The exchanges of rows are undone on the columns, from the last to the first.
Unscramble ==
  /\ phase = "unscramble"
  /\ pos > 0
  /\ LET e == pivots[pos]
     IN  matrix' = [i \in Rows |-> Swapped(matrix[i], e[1], e[2])]
  /\ pos' = pos - 1
  /\ UNCHANGED <<code, src, index, pkt, phase, pivots>>

\* Mutant: without new_pkt, a row reads what the rows before it have written.
MutantNoCopy ==
  LET out[i \in Rows] ==
        IF index[i] < code.k THEN pkt[i]
        ELSE Total([j \in Rows |-> gf_mul(matrix[i][j], IF j < i THEN out[j] ELSE pkt[j])])
  IN  out

\* The missing raw packets, all computed before any is written.
NewPkt ==
  [i \in Rows |-> IF index[i] < code.k THEN pkt[i]
                  ELSE Total([j \in Rows |-> gf_mul(matrix[i][j], pkt[j])])]

Output ==
  /\ phase = "unscramble" /\ pos = 0
  /\ pkt' = NewPkt
  /\ phase' = "done"
  /\ UNCHANGED <<code, src, index, pos, matrix, pivots>>

\* fec_decode returns; the descriptor serves the next call.
Return ==
  /\ phase \in {"done", "failed"}
  /\ phase' = "ready"
  /\ src' = <<>> /\ index' = <<>> /\ pkt' = <<>> /\ matrix' = <<>>
  /\ pivots' = <<>> /\ pos' = 0
  /\ UNCHANGED code

Init ==
  /\ code = [k |-> 0, n |-> 0, enc_matrix |-> <<>>]
  /\ src = <<>> /\ index = <<>> /\ pkt = <<>> /\ matrix = <<>> /\ pivots = <<>>
  /\ phase = "none" /\ pos = 0

Decoding == Shuffle \/ BuildMatrix \/ InvertColumn \/ Unscramble \/ Output

Next ==
  \/ \E k \in Ks, n \in Ns : fec_new(k, n)
  \/ \E raw \in [Rows -> Symbols], numbers \in [Rows -> UpTo(code.n)] :
       Call(raw, numbers)
  \/ Decoding
  \/ Return

Spec == Init /\ [][Next]_codecVars
FairSpec == Spec /\ WF_codecVars(Decoding)

-----------------------------------------------------------------------------
\* The product that init_fec tabulates from logarithms and powers is
\* multiplication of polynomials modulo the one in allPp: it is associative,
\* commutative, distributes over exclusive or, has One as its unit, and
\* multiplying by the polynomial x is a shift followed by a reduction.  Every
\* element but zero has the inverse that its table gives, and modnn is the
\* remainder for every exponent that fec_new computes, far above one turn.
FieldTables ==
  phase = "ready" =>
    /\ \A x, y \in GF :
         /\ gf_mul(x, y) = gf_mul(y, x)
         /\ \A z \in GF : /\ gf_mul(x, gf_mul(y, z)) = gf_mul(gf_mul(x, y), z)
                          /\ gf_mul(x, Add(y, z)) = Add(gf_mul(x, y), gf_mul(x, z))
         /\ gf_mul(x, One) = x
         /\ gf_mul(x, {1}) = IF GfBits - 1 \in x
                               THEN Add(Shifted(x \ {GfBits - 1}), Pp) ELSE Shifted(x)
    /\ \A x \in GF \ {Zero} : gf_mul(x, inverse[x]) = One
    /\ \A r \in UpTo(code.n), c \in UpTo(code.k) : modnn(r * c) = (r * c) % GF_SIZE

\* fec.c:820: fec_decode produces the correct vector: when it returns 0, pkt
\* holds the raw packets in their order, whichever blocks it was called with.
\* Any k different blocks are enough: it fails only when a block is there
\* twice, and then it always fails (shuffle finds a raw block twice, invert_mat
\* a redundant one) instead of computing something.
DecodeRecovers ==
  /\ phase = "done" => pkt = src /\ IsInjective(index)
  /\ phase = "failed" => ~IsInjective(index)

\* Every call of fec_decode returns: in particular the loop of shuffle, which
\* does not advance when it exchanges two blocks, ends.
DecodeReturns == phase = "shuffle" ~> phase \in {"done", "failed"}
=============================================================================
