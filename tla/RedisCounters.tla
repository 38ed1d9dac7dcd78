---------------------------- MODULE RedisCounters ---------------------------
(***************************************************************************)
(* The parts of the application that use one Redis only to count: the      *)
(* rate limiter and the metrics, in the handlers of POST upload/presign    *)
(* (src/src/app/api/upload/presign/route.ts), which asks the one before    *)
(* it does anything and tells the other before it answers, and in the      *)
(* workers, which observe latencies without waiting.                       *)
(*                                                                         *)
(* Both connections are configured with maxRetriesPerRequest: null         *)
(* (src/src/lib/redis.ts, src/src/lib/metrics.ts): while Redis is away,    *)
(* ioredis keeps their commands in its offline queue.                      *)
(***************************************************************************)
EXTENDS RateLimit

CONSTANTS
    Durations,      \* of Metrics
    Observations    \* bound of the observations

ASSUME DurationsAssumption == Durations \subseteq Nat /\ IsFiniteSet(Durations)

VARIABLES
    buckets, sum, count, observed,    \* of Metrics
    up,             \* whether Redis can be reached
    handler         \* [Requests -> the step of the presign handler]

Metrics == INSTANCE Metrics

metricsVars == <<buckets, sum, count, observed>>
vars == <<now, counter, call, told, flushes,
          buckets, sum, count, observed, up, handler>>

HandlerSteps == {"idle", "limiter", "count", "answered"}

TypeOK ==
    /\ LimiterTypeOK /\ Metrics!TypeOK
    /\ up \in BOOLEAN
    /\ handler \in [Requests -> HandlerSteps]
    /\ \A r \in Requests :
          /\ handler[r] = "idle" <=> call[r].state = "idle"
          /\ handler[r] = "limiter" => call[r].state \in {"waiting", "resent"}
          /\ handler[r] = "count" => call[r].state \in {"admitted", "open"}

Init ==
    /\ LimiterInit /\ Metrics!Init
    /\ up = TRUE
    /\ handler = [r \in Requests |-> "idle"]

-----------------------------------------------------------------------------

GoTo(r, step) == handler' = [handler EXCEPT ![r] = step]

Receive(r, k) ==
    /\ Arrive(r, k)
    /\ GoTo(r, "limiter")
    /\ UNCHANGED <<metricsVars, up>>

\* assertUploadPresignAllowed, and what follows without Redis: a refusal and
\* an error are answered, otherwise the row is created and the URL signed, or
\* the request is refused after all.
Limited(r) ==
    /\ up
    /\ CallStep(r)
    /\ CASE call'[r].state = "resent" -> GoTo(r, "limiter")
         [] call'[r].state \in {"admitted", "open"} -> GoTo(r, "count") \/ GoTo(r, "answered")
         [] OTHER -> GoTo(r, "answered")
    /\ UNCHANGED <<metricsVars, up>>

\* incrementUploadPresignCount, whose INCRBY is executed or rejected, and the
\* answer with the URL.
Count(r) ==
    /\ handler[r] = "count" /\ up
    /\ GoTo(r, "answered")
    /\ UNCHANGED <<limiterVars, metricsVars, up>>

HandlerStep(r) == Limited(r) \/ Count(r)

\* A worker observes the latency of a job, or its MULTI is sent again.
Observe(d) ==
    /\ up /\ count < Observations
    /\ Metrics!ObserveHistogram(d)
    /\ UNCHANGED <<limiterVars, up, handler>>

\* Redis goes away and comes back, with its data or without.
Leave ==
    /\ up
    /\ up' = FALSE
    /\ UNCHANGED <<limiterVars, metricsVars, handler>>

Return ==
    /\ ~up
    /\ up' = TRUE
    /\ UNCHANGED <<limiterVars, metricsVars, handler>>

LoseData ==
    /\ ~up
    /\ Flush
    /\ Metrics!Reset
    /\ UNCHANGED <<up, handler>>

Tick == LimiterTick /\ UNCHANGED <<metricsVars, up, handler>>

Next ==
    \/ Tick \/ Leave \/ Return \/ LoseData
    \/ \E r \in Requests, k \in Keys : Receive(r, k)
    \/ \E r \in Requests : HandlerStep(r)
    \/ \E d \in Durations : Observe(d)

Spec == Init /\ [][Next]_vars

\* Whenever Redis comes back, ioredis sends what waits in its queue, so a
\* handler goes on if Redis comes back again and again.  Redis need not.
Fairness == \A r \in Requests : SF_vars(HandlerStep(r))

FairSpec == Spec /\ Fairness

-----------------------------------------------------------------------------
(* Properties.                                                             *)

\* What Metrics promises (as RateLimit's BurstIsBounded and RetryAfterSuffices),
\* for the observations that reach the one Redis, whenever it goes away, comes
\* back or loses its data.
HistogramAgrees == Metrics!HistogramAgrees

\* "Metrics backend failures fail open so uploads and job processing continue
\* normally" (docs/metrics.md): an upload whose URL is signed gets it, whatever
\* becomes of Redis.
MetricsFailOpen == \A r \in Requests : handler[r] = "count" ~> handler[r] = "answered"

=============================================================================
