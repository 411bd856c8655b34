----------------------------- MODULE WrapNumbers -----------------------------
(***************************************************************************)
(* Numbers that wrap around at M: mod_ops.h, and IsNewer and Unwrapper of  *)
(* module_common_types_public.h, where M is 2^16 or 2^32.                  *)
(***************************************************************************)
EXTENDS Integers

\* Add<M> and Subtract<M>, in unsigned arithmetic that never goes below zero.
ModAdd(a, b, M) ==
  LET t == M - (b % M) IN IF t > a THEN a - t + M ELSE a - t
ModSubtract(a, b, M) ==
  LET sub == b % M IN IF a < sub THEN M - (sub - a) ELSE a - sub

\* How far b is ahead of a, how far it is behind, and the shorter of the two.
ForwardDiff(a, b, M) == IF a <= b THEN b - a ELSE M - (a - b)
ReverseDiff(a, b, M) == IF b <= a THEN a - b ELSE M - (b - a)
MinDiff(a, b, M) ==
  IF ForwardDiff(a, b, M) < ReverseDiff(a, b, M)
    THEN ForwardDiff(a, b, M) ELSE ReverseDiff(a, b, M)

\* Mutant: the half-way mark counts as newer in both directions.
MutantIsNewer(value, prev, M) ==
  value # prev /\ (value - prev) % M <= M \div 2

\* IsNewer: of two numbers half the space apart, the larger one is the newer.
IsNewer(value, prev, M) ==
  IF value - prev = M \div 2 THEN value > prev
  ELSE value # prev /\ (value - prev) % M < M \div 2

LatestSequenceNumber(a, b, M) == IF IsNewer(a, b, M) THEN a ELSE b

\* Unwrapper::UnwrapWithoutUpdate, once there is a last value: not backwards
\* past zero.
Unwrap(last, value, M) ==
  LET cropped == last % M
      delta   == value - cropped
  IN  last + (IF IsNewer(value, cropped, M)
                THEN IF delta < 0 THEN delta + M ELSE delta
                ELSE IF delta > 0 /\ last + delta - M >= 0 THEN delta - M ELSE delta)
=============================================================================
