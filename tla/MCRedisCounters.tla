--------------------------- MODULE MCRedisCounters --------------------------
(* RedisCounters with few requests and observations for TLC.               *)
EXTENDS RedisCounters, TLC

Everything == EventKinds

\* A latency on the bound of the first bucket, one just above it and one
\* beyond the last bucket.
Latencies == {100, 101, 60001}

Symmetry == Permutations(Requests)

=============================================================================
