---------------------------- MODULE LatencyHistogram ----------------------------
(***************************************************************************)
(* The two histograms: perf::LatencyHistogram of latency_tracker.hpp, one  *)
(* counter for each number of cycles below NUM_BUCKETS - 1, and            *)
(* marketdata::LatencyHistogram of latency_histogram.hpp, which keeps the  *)
(* samples.  A percentile is given as a fraction <<n, d>> of 1.  Sums and  *)
(* averages are left out, and the second histogram's percents.             *)
(***************************************************************************)
EXTENDS Integers, FiniteSetsExt, Functions

CONSTANT NUM_BUCKETS   \* 1024 in the code

Buckets == 0 .. NUM_BUCKETS - 1
NoSamples == [buckets |-> [b \in Buckets |-> 0], count |-> 0, min |-> -1, max |-> 0]

\* Faulty variant of Bucket: one past the end of buckets_ is brought back late.
BucketLate(cycles) == IF cycles <= NUM_BUCKETS THEN cycles % NUM_BUCKETS ELSE NUM_BUCKETS - 1

Bucket(cycles) == IF cycles < NUM_BUCKETS THEN cycles ELSE NUM_BUCKETS - 1

\* record(); min_ is UINT64_MAX, here -1, until then.
Recorded(hist, cycles) ==
  [buckets |-> [hist.buckets EXCEPT ![Bucket(cycles)] = @ + 1],
   count |-> hist.count + 1,
   min |-> IF hist.min = -1 \/ cycles < hist.min THEN cycles ELSE hist.min,
   max |-> IF cycles > hist.max THEN cycles ELSE hist.max]

\* percentile(): the first bucket at which the sum reaches the target.
Percentile(hist, p) ==
  LET target == (hist.count * p[1]) \div p[2]
      reached(b) == MapThenSumSet(LAMBDA c : hist.buckets[c], 0 .. b) >= target
  IN  IF hist.count = 0 THEN 0
      ELSE Min({b \in Buckets : reached(b)} \cup {NUM_BUCKETS - 1})

\* The samples by how many there are of each, and the one at an index of the
\* sorted vector.
Number(samples, values) == MapThenSumSet(LAMBDA v : samples[v], values)
Sorted(samples, i) ==
  Min({v \in DOMAIN samples : Number(samples, {w \in DOMAIN samples : w <= v}) > i})

\* percentile() of the histogram that keeps the samples.
SampledPercentile(samples, p) ==
  LET n == Number(samples, DOMAIN samples)
  IN  IF n = 0 THEN 0 ELSE Sorted(samples, ((n - 1) * p[1]) \div p[2])
================================================================================
