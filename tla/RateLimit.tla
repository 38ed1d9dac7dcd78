------------------------------ MODULE RateLimit -----------------------------
(***************************************************************************)
(* The fixed-window rate limiter (assertRateLimitAllowed,                  *)
(* src/src/server/rateLimit.ts): one Redis transaction per request counts  *)
(* it (INCR), starts the window if there is none (EXPIRE NX) and reads     *)
(* what is left of it (PTTL).  Time is a clock of half seconds, so that    *)
(* rounding to whole seconds matters.                                      *)
(*                                                                         *)
(* Redis is external.  A key is gone once the clock has passed its expiry  *)
(* (at the very instant it is still there, with a PTTL of 0).  ioredis     *)
(* sends a transaction again when the connection broke before any reply,   *)
(* and rejects it when part of the replies had come.                       *)
(***************************************************************************)
EXTENDS Integers, FiniteSets

CONSTANTS
    Keys,           \* what buildRateLimitKey makes of an action and a caller
    Requests,
    Limit,          \* policy.limit
    WindowSeconds,  \* policy.windowSeconds
    EndOfTime,      \* bound of the clock
    Flushes,        \* bound of the times Redis loses its data
    Envelope        \* the outside events admitted

EventKinds ==
    {"resend",          \* the connection breaks before the replies (once per call)
     "halfReply",       \* the connection breaks within the replies
     "commandError"}    \* Redis refuses a command of the transaction

ASSUME PolicyAssumption == Limit \in Nat \ {0} /\ WindowSeconds \in Nat \ {0}
ASSUME RequestsAssumption == IsFiniteSet(Requests)
ASSUME BoundsAssumption == EndOfTime \in Nat /\ Flushes \in Nat
ASSUME EnvelopeAssumption == Envelope \subseteq EventKinds

TicksPerSecond == 2
Window == WindowSeconds * TicksPerSecond

VARIABLES
    now,
    counter,        \* [Keys -> count and expiry of the Redis key, and the
                    \*          number of the window (history)]
    call,           \* [Requests -> the limiter's call: its state, its key, and
                    \*              when and in which window it was counted]
    told,           \* [Requests -> retryAfterSeconds of a refusal]
    flushes         \* how often Redis has lost its data (history)

limiterVars == <<now, counter, call, told, flushes>>

NoKey == "none"
Outcomes == {"idle", "waiting", "resent", "admitted", "open", "refused", "failed"}
Calls == [state : Outcomes, key : Keys \cup {NoKey}, at : 0 .. EndOfTime, window : Nat]

LimiterTypeOK ==
    /\ now \in 0 .. EndOfTime
    /\ counter \in [Keys -> [count : Nat, expiresAt : Int, window : Nat]]
    /\ call \in [Requests -> Calls]
    /\ \A r \in Requests : call[r].state # "idle" => call[r].key \in Keys
    /\ told \in [Requests -> 0 .. WindowSeconds]
    /\ \A r \in Requests : call[r].state = "refused" <=> told[r] > 0
    /\ flushes \in 0 .. Flushes

LimiterInit ==
    /\ now = 0
    /\ counter = [k \in Keys |-> [count |-> 0, expiresAt |-> -1, window |-> 0]]
    /\ call = [r \in Requests |-> [state |-> "idle", key |-> NoKey, at |-> 0, window |-> 0]]
    /\ told = [r \in Requests |-> 0]
    /\ flushes = 0

-----------------------------------------------------------------------------
(* Redis.                                                                  *)

Live(k) == counter[k].count > 0

Gone(k) == [count |-> 0, expiresAt |-> -1, window |-> counter[k].window]

\* INCR and EXPIRE NX: a new key starts a window, another one keeps its expiry.
Counted(k) ==
    IF Live(k) THEN [counter[k] EXCEPT !.count = @ + 1]
               ELSE [count |-> 1, expiresAt |-> now + Window, window |-> counter[k].window + 1]

\* Redis restarts without what it had not persisted.
Flush ==
    /\ flushes < Flushes
    /\ flushes' = flushes + 1
    /\ counter' = [k \in Keys |-> Gone(k)]
    /\ UNCHANGED <<now, call, told>>

\* Time passes; a key whose expiry is over is gone.
LimiterTick ==
    /\ now < EndOfTime
    /\ now' = now + 1
    /\ counter' = [k \in Keys |-> IF counter[k].expiresAt < now' THEN Gone(k) ELSE counter[k]]
    /\ UNCHANGED <<call, told, flushes>>

-----------------------------------------------------------------------------
(* assertRateLimitAllowed.                                                 *)

Waiting(r) == call[r].state \in {"waiting", "resent"}

\* The call sends its transaction, or queues it until Redis is connected.
Arrive(r, k) ==
    /\ call[r].state = "idle"
    /\ call' = [call EXCEPT ![r] = [@ EXCEPT !.state = "waiting", !.key = k]]
    /\ UNCHANGED <<now, counter, told, flushes>>

\* (Mutant: one request too many.)
ExceedsOffByOne(count) == count > Limit + 1
Exceeds(count) == count > Limit

\* What is left of the window, in whole seconds.  (Mutants: rounded down; a key
\* whose time is just over.)
RetryAfterFloor(ttl) ==
    IF ttl <= 0 THEN WindowSeconds
    ELSE IF ttl < TicksPerSecond THEN 1 ELSE ttl \div TicksPerSecond

RetryAfterRaw(ttl) == (ttl + TicksPerSecond - 1) \div TicksPerSecond

RetryAfter(ttl) ==
    IF ttl > 0 THEN (ttl + TicksPerSecond - 1) \div TicksPerSecond ELSE WindowSeconds

\* The transaction is executed and its replies arrive.
Decide(r) ==
    LET k == call[r].key
        c == Counted(k)
    IN  /\ Waiting(r)
        /\ counter' = [counter EXCEPT ![k] = c]
        /\ call' = [call EXCEPT ![r] =
                        [@ EXCEPT !.state = IF Exceeds(c.count) THEN "refused" ELSE "admitted",
                                  !.at = now,
                                  !.window = c.window]]
        /\ told' = [told EXCEPT ![r] = IF Exceeds(c.count) THEN RetryAfter(c.expiresAt - now) ELSE 0]
        /\ UNCHANGED <<now, flushes>>

\* It is executed, no reply arrives, and ioredis will send it again.
Resend(r) ==
    LET k == call[r].key
    IN  /\ "resend" \in Envelope
        /\ call[r].state = "waiting"
        /\ counter' = [counter EXCEPT ![k] = Counted(k)]
        /\ call' = [call EXCEPT ![r].state = "resent"]
        /\ UNCHANGED <<now, told, flushes>>

\* ioredis rejects it with a connection error, executed or not: the limiter
\* lets the request pass.
FailOpen(r) ==
    LET k == call[r].key
    IN  /\ "halfReply" \in Envelope
        /\ Waiting(r)
        /\ counter' \in {counter, [counter EXCEPT ![k] = Counted(k)]}
        /\ call' = [call EXCEPT ![r].state = "open"]
        /\ UNCHANGED <<now, told, flushes>>

\* Any other error goes to the caller, which answers 500.
Fail(r) ==
    /\ "commandError" \in Envelope
    /\ Waiting(r)
    /\ call' = [call EXCEPT ![r].state = "failed"]
    /\ UNCHANGED <<now, counter, told, flushes>>

CallStep(r) == Decide(r) \/ Resend(r) \/ FailOpen(r) \/ Fail(r)

LimiterNext ==
    \/ LimiterTick
    \/ Flush
    \/ \E r \in Requests, k \in Keys : Arrive(r, k)
    \/ \E r \in Requests : CallStep(r)

LimiterSpec == LimiterInit /\ [][LimiterNext]_limiterVars

-----------------------------------------------------------------------------
(* Properties.                                                             *)

\* A fixed window lets through at most twice the limit in any span as long as
\* the window, wherever the span begins and however many calls are counted
\* twice or fail; each loss of Redis' data allows the limit once more.
BurstIsBounded ==
    \A k \in Keys, end \in 0 .. EndOfTime :
        Cardinality({r \in Requests : /\ call[r].state = "admitted" /\ call[r].key = k
                                      /\ call[r].at <= end /\ end < call[r].at + Window})
            <= Limit * (2 + flushes)

\* Who was told to wait meets another window when the time is over, however
\* many others have called meanwhile and wherever in the window the call fell
\* (at the very instant of the expiry the key may still be there).
RetryAfterSuffices ==
    \A r \in Requests :
        LET k == call[r].key
        IN  call[r].state = "refused" /\ now > call[r].at + told[r] * TicksPerSecond
                => ~(Live(k) /\ counter[k].window = call[r].window)

=============================================================================
