--------------------------- MODULE RateStatistics ---------------------------
(***************************************************************************)
(* webrtc::RateStatistics, with which the M85 FlexfecSender and            *)
(* UlpfecGenerator measure how many bits of FEC they send: a ring with a   *)
(* bucket for each millisecond of a window that moves with the time.       *)
(***************************************************************************)
EXTENDS Integers, FiniteSetsExt, SequencesExt

CONSTANTS
  MaxWindow,    \* max_window_size_ms_, 1000 for the rate of FEC
  Counts,       \* sizes that are counted
  MaxTime,      \* bound: the clock
  MaxSamples    \* bound: calls of Update that are not ignored

ASSUME RateAssumption ==
  MaxWindow \in Nat \ {0} /\ Counts \subseteq Nat /\ MaxTime \in Nat /\ MaxSamples \in Nat

kBpsScale == 8000

VARIABLES
  stats,      \* the object: buckets, accumulated, num, oldestTime, oldestIndex, window
  samples     \* history: what Update did not ignore
rateVars == <<stats, samples>>

EmptyBucket == [sum |-> 0, samples |-> 0]

\* The constructor and Reset.
Reset ==
  [buckets |-> [i \in 0 .. MaxWindow - 1 |-> EmptyBucket], accumulated |-> 0, num |-> 0,
   oldestTime |-> -MaxWindow, oldestIndex |-> 0, window |-> MaxWindow]

IsInitialized(s) == s.oldestTime # -MaxWindow

\* Mutant: the bucket is not emptied.
MutantBucketKept(s) ==
  LET bucket == s.buckets[s.oldestIndex]
  IN  [s EXCEPT !.accumulated = @ - bucket.sum, !.num = @ - bucket.samples,
                !.oldestIndex = IF @ + 1 >= MaxWindow THEN 0 ELSE @ + 1,
                !.oldestTime = @ + 1]

\* The oldest bucket leaves the window.
DropOldest(s) ==
  LET bucket == s.buckets[s.oldestIndex]
  IN  [s EXCEPT !.accumulated = @ - bucket.sum, !.num = @ - bucket.samples,
                !.buckets[s.oldestIndex] = EmptyBucket,
                !.oldestIndex = IF @ + 1 >= MaxWindow THEN 0 ELSE @ + 1,
                !.oldestTime = @ + 1]

EraseOld(s, now) ==
  LET oldest == now - s.window + 1
      after[n \in 0 .. MaxWindow] ==
        IF n = 0 THEN s
        ELSE LET last == after[n - 1]
             IN  IF last.num > 0 /\ last.oldestTime < oldest THEN DropOldest(last) ELSE last
  IN  IF ~IsInitialized(s) \/ oldest <= s.oldestTime THEN s
      ELSE [after[MaxWindow] EXCEPT !.oldestTime = oldest]

\* What is older than the window is ignored; the first sample begins it.
Update(s, count, now) ==
  LET culled == EraseOld(s, now)
      begun  == IF IsInitialized(culled) THEN culled ELSE [culled EXCEPT !.oldestTime = now]
      offset == begun.oldestIndex + (now - begun.oldestTime)
      index  == IF offset >= MaxWindow THEN offset - MaxWindow ELSE offset
  IN  IF now < s.oldestTime THEN s
      ELSE [begun EXCEPT !.buckets[index] = [sum |-> @.sum + count, samples |-> @.samples + 1],
                         !.accumulated = @ + count, !.num = @ + 1]

\* Rate, once EraseOld was called: the rounded number of bits per second, or
\* none (nullopt).  The code computes it with floats.
RateOf(s, now) ==
  LET active == now - s.oldestTime + 1
  IN  IF s.num = 0 \/ active <= 1 \/ (s.num <= 1 /\ active < s.window) THEN {}
      ELSE {(2 * s.accumulated * kBpsScale + active) \div (2 * active)}
Rate(s, now) == RateOf(EraseOld(s, now), now)

\* CurrentFecRate of FlexfecSender: no rate is a rate of 0.
CurrentFecRate(s, now) == Max(Rate(s, now) \cup {0})

SetWindowSize(s, size, now) ==
  IF size <= 0 \/ size > MaxWindow THEN s
  ELSE EraseOld([s EXCEPT !.window = size], now)

-----------------------------------------------------------------------------
RateInit == stats = Reset /\ samples = <<>>

\* Times come from callers that read the clock before they come here, and may
\* be late.
RateNext ==
  \E now \in 0 .. MaxTime :
    \/ /\ Len(samples) < MaxSamples
       /\ \E count \in Counts :
            /\ stats' = Update(stats, count, now)
            /\ samples' = IF now < stats.oldestTime THEN samples
                          ELSE Append(samples, [count |-> count, time |-> now])
    \/ stats' = EraseOld(stats, now) /\ UNCHANGED samples
    \/ \E size \in {0, 1, MaxWindow - 1, MaxWindow, MaxWindow + 1} :
         stats' = SetWindowSize(stats, size, now) /\ UNCHANGED samples
    \/ stats' = Reset /\ samples' = <<>>

RateSpec == RateInit /\ [][RateNext]_rateVars

-----------------------------------------------------------------------------
\* The samples of some times, and their sum.
SampledAt(list, times) == {i \in DOMAIN list : list[i].time \in times}
SumOf(list, times) ==
  LET sum[n \in 0 .. Len(list)] ==
        IF n = 0 THEN 0 ELSE sum[n - 1] + IF list[n].time \in times THEN list[n].count ELSE 0
  IN  sum[Len(list)]

\* The ring, its sum and its number of samples are those of the samples that
\* fall into the window, wherever the ring begins, however long nothing was
\* counted, and when the window shrinks and grows; and calling Rate is not seen
\* by later calls, if the clock does not go back (rate_statistics.h:49).
RateExact ==
  LET Bucket(times) == [sum |-> SumOf(samples, times), samples |-> Cardinality(SampledAt(samples, times))]
  IN  /\ [sum |-> stats.accumulated, samples |-> stats.num] = Bucket(stats.oldestTime .. MaxTime)
      /\ \A d \in 0 .. MaxWindow - 1 :
           stats.buckets[(stats.oldestIndex + d) % MaxWindow] = Bucket({stats.oldestTime + d})
      /\ \A late \in 0 .. MaxTime : \A now \in 0 .. late :
           CurrentFecRate(EraseOld(stats, now), late) = CurrentFecRate(stats, late)
=============================================================================
