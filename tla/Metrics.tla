------------------------------- MODULE Metrics ------------------------------
(***************************************************************************)
(* The latency histogram of the workers (src/src/lib/metrics.ts): each     *)
(* operation is one atomic step of the Redis store (MULTI; MGET) as of the *)
(* memory store, and a scrape renders a snapshot.  A bucket counts the     *)
(* observations up to its bound and above the one before; rendering makes  *)
(* them cumulative.  The plain counters are numbers nobody reads back.     *)
(***************************************************************************)
EXTENDS Integers, Sequences, FiniteSetsExt

CONSTANTS
    Durations       \* the latencies that are observed, numbers of milliseconds

VARIABLES
    buckets,        \* [the buckets -> the value of their keys]
    sum, count,     \* the other two keys of the histogram
    observed        \* [Durations -> how often it was observed] (history)

metricsVars == <<buckets, sum, count, observed>>

JOB_LATENCY_BUCKETS_MS == <<100, 500, 1000, 5000, 15000, 60000>>
Buckets == DOMAIN JOB_LATENCY_BUCKETS_MS

TypeOK ==
    /\ buckets \in [Buckets -> Nat]
    /\ sum \in Nat /\ count \in Nat
    /\ observed \in [Durations -> Nat]

Init ==
    /\ buckets = [b \in Buckets |-> 0]
    /\ sum = 0 /\ count = 0
    /\ observed = [d \in Durations |-> 0]

\* The first bucket that holds the value is incremented, none for a value
\* beyond the last one.  (Mutant: every bucket that holds it is.)
BucketsOfAll(value) == {b \in Buckets : value <= JOB_LATENCY_BUCKETS_MS[b]}
BucketsOf(value) ==
    {b \in Buckets : /\ value <= JOB_LATENCY_BUCKETS_MS[b]
                     /\ \A a \in 1 .. b - 1 : value > JOB_LATENCY_BUCKETS_MS[a]}

ObserveHistogram(value) ==
    /\ sum' = sum + value
    /\ count' = count + 1
    /\ buckets' = [b \in Buckets |-> IF b \in BucketsOf(value) THEN buckets[b] + 1 ELSE buckets[b]]
    /\ observed' = [observed EXCEPT ![value] = @ + 1]

\* The keys are gone with the data of Redis.
Reset ==
    /\ buckets' = [b \in Buckets |-> 0]
    /\ sum' = 0 /\ count' = 0
    /\ observed' = [d \in Durations |-> 0]

\* renderHistogram: cumulativeCount after each turn of its loop.
Rendered[b \in 0 .. Len(JOB_LATENCY_BUCKETS_MS)] ==
    IF b = 0 THEN 0 ELSE Rendered[b - 1] + buckets[b]

-----------------------------------------------------------------------------
(* Properties.                                                             *)

\* How many latencies of D were observed.
Times(D) == MapThenSumSet(LAMBDA d : observed[d], D)

\* The sum of the latencies that were observed.
Total == MapThenSumSet(LAMBDA d : d * observed[d], Durations)

\* Whenever a scrape takes its snapshot, each le-line of the histogram tells
\* how many observations did not exceed the bound, the lines do not decrease up
\* to the +Inf line (the count), and the sum is the sum of what was observed.
HistogramAgrees ==
    /\ \A b \in Buckets :
          Rendered[b] = Times({d \in Durations : d <= JOB_LATENCY_BUCKETS_MS[b]})
    /\ Rendered[Len(JOB_LATENCY_BUCKETS_MS)] <= count
    /\ count = Times(Durations)
    /\ sum = Total

=============================================================================
