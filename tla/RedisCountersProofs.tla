------------------------ MODULE RedisCountersProofs -------------------------
(***************************************************************************)
(* Theorems about RedisCounters, proved for every set of callers,          *)
(* requests and latencies and every bound: inside the handlers of the      *)
(* presign route, next to the metrics, and with a Redis that goes away     *)
(* and comes back, the rate limiter is still the one of RateLimit, so what *)
(* RateLimitProofs proves about that one holds here; and every scrape      *)
(* shows a histogram that agrees with what was observed.                   *)
(***************************************************************************)
EXTENDS RedisCounters, RateLimitProofs, Sequences

\* The handlers act on the limiter only through its own actions, which this
\* composition is built from, so what is proved of the limiter holds here.
LEMMA HandlersUseTheLimiter == Spec => LimiterSpec
<1>1. Init => LimiterInit
  BY DEF Init
<1>2. [Next]_vars => [LimiterNext]_limiterVars
  <2> SUFFICES ASSUME [Next]_vars PROVE [LimiterNext]_limiterVars
    OBVIOUS
  <2>1. CASE Tick \/ LoseData
    BY <2>1 DEF Tick, LoseData, LimiterNext
  <2>2. CASE Leave \/ Return
    BY <2>2 DEF Leave, Return
  <2>3. ASSUME NEW r \in Requests, NEW k \in Keys, Receive(r, k)
        PROVE  [LimiterNext]_limiterVars
    BY <2>3 DEF Receive, LimiterNext
  <2>4. ASSUME NEW r \in Requests, Limited(r)
        PROVE  [LimiterNext]_limiterVars
    BY <2>4 DEF Limited, LimiterNext
  <2>5. ASSUME NEW r \in Requests, Count(r)
        PROVE  [LimiterNext]_limiterVars
    BY <2>5 DEF Count
  <2>6. ASSUME NEW d \in Durations, Observe(d)
        PROVE  [LimiterNext]_limiterVars
    BY <2>6 DEF Observe
  <2>7. CASE UNCHANGED vars
    BY <2>7 DEF vars, limiterVars
  <2> QED BY <2>1, <2>2, <2>3, <2>4, <2>5, <2>6, <2>7 DEF Next, HandlerStep
<1> QED BY <1>1, <1>2, PTL DEF Spec, LimiterSpec

\* Nobody who asks for presigned URLs gets more of them in a burst than twice
\* the limit, however Redis comes and goes, but for the times it loses its data.
THEOREM PresignBurstsAreBounded == Spec => []BurstIsBounded
BY HandlersUseTheLimiter, BurstsAreBounded, PTL

\* Whoever waits as long as a 429 of the presign route says meets another
\* window.
THEOREM PresignWaitingSuffices == Spec => []RetryAfterSuffices
BY HandlersUseTheLimiter, WaitingSuffices, PTL

-----------------------------------------------------------------------------

\* Where a handler stands agrees with where its call of the limiter stands.
StepsFit ==
    /\ up \in BOOLEAN
    /\ handler \in [Requests -> HandlerSteps]
    /\ \A r \in Requests :
          /\ handler[r] = "idle" <=> call[r].state = "idle"
          /\ handler[r] = "limiter" => call[r].state \in {"waiting", "resent"}
          /\ handler[r] = "count" => call[r].state \in {"admitted", "open"}

\* A call of the limiter changes the state of its own request only.
LEMMA OneCallAtATime ==
    ASSUME LimiterTypeOK, NEW r \in Requests,
           CallStep(r) \/ \E k \in Keys : Arrive(r, k)
    PROVE  /\ call'[r].state \in Outcomes \ {"idle"}
           /\ \A q \in Requests \ {r} : call'[q] = call[q]
<1>1. call \in [Requests -> Calls] /\ call[r] \in Calls
  BY DEF LimiterTypeOK
<1>2. CASE Decide(r)
  BY <1>1, <1>2 DEF Decide, Calls, Outcomes
<1>3. CASE Resend(r) \/ FailOpen(r) \/ Fail(r)
  BY <1>1, <1>3 DEF Resend, FailOpen, Fail, Calls, Outcomes
<1>4. CASE \E k \in Keys : Arrive(r, k)
  <2>1. call' = [call EXCEPT ![r] = call'[r]] /\ call'[r].state = "waiting"
    BY <1>1, <1>4 DEF Arrive, Calls
  <2> QED BY <1>1, <2>1 DEF Outcomes
<1> QED BY <1>2, <1>3, <1>4 DEF CallStep

\* Every step keeps the handlers in step with the limiter.
LEMMA StepsKeepFitting == LimiterTypeOK /\ StepsFit /\ [Next]_vars => StepsFit'
<1> SUFFICES ASSUME LimiterTypeOK, StepsFit, [Next]_vars PROVE StepsFit'
  OBVIOUS
<1>1. CASE UNCHANGED vars
  BY <1>1 DEF StepsFit, vars
<1>2. CASE Tick \/ LoseData
  BY <1>2 DEF StepsFit, Tick, LoseData, LimiterTick, Flush
<1>3. CASE Leave \/ Return
  BY <1>3 DEF StepsFit, Leave, Return, limiterVars
<1>4. ASSUME NEW r \in Requests, NEW k \in Keys, Receive(r, k) PROVE StepsFit'
  <2>1. call'[r].state = "waiting"
    BY <1>4, ArrivedCall DEF Receive
  <2>2. \A q \in Requests \ {r} : call'[q] = call[q]
    BY <1>4, OneCallAtATime, Zenon DEF Receive
  <2> QED BY <1>4, <2>1, <2>2 DEF StepsFit, HandlerSteps, Receive, GoTo
<1>5. ASSUME NEW r \in Requests, Limited(r) PROVE StepsFit'
  <2>1. call'[r].state \in Outcomes \ {"idle"} /\ \A q \in Requests \ {r} : call'[q] = call[q]
    BY <1>5, OneCallAtATime DEF Limited
  <2>2. \/ call'[r].state = "resent" /\ GoTo(r, "limiter")
        \/ call'[r].state \in {"admitted", "open"} /\ GoTo(r, "count")
        \/ GoTo(r, "answered")
    BY <1>5, Zenon DEF Limited
  <2>3. up' = up
    BY <1>5 DEF Limited
  <2> QED BY <2>1, <2>2, <2>3 DEF StepsFit, HandlerSteps, GoTo
<1>6. ASSUME NEW r \in Requests, Count(r) PROVE StepsFit'
  BY <1>6 DEF StepsFit, HandlerSteps, Count, GoTo, limiterVars
<1>7. ASSUME NEW d \in Durations, Observe(d) PROVE StepsFit'
  BY <1>7 DEF StepsFit, Observe, limiterVars
<1> QED BY <1>1, <1>2, <1>3, <1>4, <1>5, <1>6, <1>7 DEF Next, HandlerStep

\* The keys of the histogram hold numbers.
LEMMA NumbersKeep == Metrics!TypeOK /\ [Next]_vars => Metrics!TypeOK'
<1> SUFFICES ASSUME Metrics!TypeOK, [Next]_vars PROVE Metrics!TypeOK'
  OBVIOUS
<1>1. CASE UNCHANGED metricsVars
  BY <1>1 DEF metricsVars, Metrics!TypeOK
<1>2. CASE LoseData
  BY <1>2 DEF LoseData, Metrics!Reset, Metrics!TypeOK
<1>3. ASSUME NEW d \in Durations, Observe(d) PROVE Metrics!TypeOK'
  BY <1>3, DurationsAssumption DEF Observe, Metrics!ObserveHistogram, Metrics!TypeOK
<1> QED
  BY <1>1, <1>2, <1>3
     DEF Next, HandlerStep, Tick, Leave, Return, Receive, Limited, Count, vars, metricsVars

\* Every state is well typed, and a handler counts an upload only when the
\* limiter has let it pass.
THEOREM CountersTypeCorrect == Spec => []TypeOK
<1>1. Init => StepsFit /\ Metrics!TypeOK
  BY DEF Init, LimiterInit, StepsFit, HandlerSteps, Metrics!Init, Metrics!TypeOK
<1>2. Spec => [](StepsFit /\ Metrics!TypeOK)
  <2>1. Spec => []LimiterTypeOK
    BY HandlersUseTheLimiter, TypeCorrect, PTL
  <2>2. LimiterTypeOK /\ (StepsFit /\ Metrics!TypeOK) /\ [Next]_vars
            => (StepsFit /\ Metrics!TypeOK)'
    BY StepsKeepFitting, NumbersKeep
  <2> QED BY <1>1, <2>1, <2>2, PTL DEF Spec
<1>3. LimiterTypeOK /\ StepsFit /\ Metrics!TypeOK => TypeOK
  BY DEF TypeOK, StepsFit
<1> QED BY <1>2, <1>3, HandlersUseTheLimiter, TypeCorrect, PTL

-----------------------------------------------------------------------------
(* Sums over finite sets.  A sum is unfolded one chosen element at a time; *)
(* what holds of every sum is proved by the smallest set of which it would *)
(* not hold.                                                               *)

Chosen(s) == CHOOSE x \in s : TRUE

\* The function by which a sum of f over the subsets of S is computed.
IsSum(it, f, S) ==
    it = [s \in SUBSET S |-> IF s = {} THEN 0 ELSE f[Chosen(s)] + it[s \ {Chosen(s)}]]

\* A family of subsets of a finite set has a smallest member.
LEMMA SmallestSubset ==
    ASSUME NEW S, IsFiniteSet(S), NEW Bad, Bad \subseteq SUBSET S, Bad # {}
    PROVE  \E T \in Bad : \A U \in SUBSET T : U # T => U \notin Bad
<1>1. IsWellFoundedOn(StrictSubsetOrdering(S), SUBSET S)
  BY FS_FiniteSubsetsOfFinite, FS_StrictSubsetOrderingWellFounded
<1>2. PICK T \in Bad : \A U \in Bad : <<U, T>> \notin StrictSubsetOrdering(S)
  BY <1>1, WFMin
<1>3. \A U \in SUBSET T : U # T => U \notin Bad
  BY <1>2 DEF StrictSubsetOrdering
<1> QED BY <1>3

LEMMA ChosenIsIn ==
    ASSUME NEW s, s # {}
    PROVE  Chosen(s) \in s /\ s \ {Chosen(s)} \in SUBSET s /\ s \ {Chosen(s)} # s
BY DEF Chosen

\* One step of a sum, and its end.
LEMMA SumStep ==
    ASSUME NEW S, NEW T \in SUBSET S, T # {}, NEW f, NEW it, IsSum(it, f, S)
    PROVE  it[T] = f[Chosen(T)] + it[T \ {Chosen(T)}]
BY DEF IsSum

LEMMA SumEnd ==
    ASSUME NEW S, NEW f, NEW it, IsSum(it, f, S)
    PROVE  it[{}] = 0
BY DEF IsSum

\* The sums over two sets agree where both are defined.
LEMMA SumsAgree ==
    ASSUME NEW S, IsFiniteSet(S), NEW R, NEW f, NEW i, NEW j,
           IsSum(i, f, S), IsSum(j, f, R), NEW T \in SUBSET S, T \in SUBSET R
    PROVE  i[T] = j[T]
<1> DEFINE Bad == {U \in SUBSET S : U \in SUBSET R /\ i[U] # j[U]}
<1> SUFFICES ASSUME Bad # {} PROVE FALSE
  OBVIOUS
<1>1. PICK U \in Bad : U \in SUBSET S /\ U \in SUBSET R /\ \A V \in SUBSET U : V # U => V \notin Bad
  BY SmallestSubset
<1>2. CASE U = {}
  BY <1>1, <1>2, SumEnd
<1>3. CASE U # {}
  <2>1. i[U \ {Chosen(U)}] = j[U \ {Chosen(U)}]
    BY <1>1, <1>3, ChosenIsIn
  <2>2. i[U] = f[Chosen(U)] + i[U \ {Chosen(U)}]
    BY <1>1, <1>3, SumStep
  <2>3. j[U] = f[Chosen(U)] + j[U \ {Chosen(U)}]
    <3>1. IsSum(j, f, R) /\ U \in SUBSET R /\ U # {}
      BY <1>1, <1>3
    <3> HIDE DEF Bad
    <3> QED BY <3>1, SumStep
  <2> QED BY <1>1, <2>1, <2>2, <2>3
<1> QED BY <1>2, <1>3

\* A sum of numbers is a number.
LEMMA SumIsNat ==
    ASSUME NEW S, IsFiniteSet(S), NEW f, \A d \in S : f[d] \in Nat,
           NEW i, IsSum(i, f, S), NEW T \in SUBSET S
    PROVE  i[T] \in Nat
<1> DEFINE Bad == {U \in SUBSET S : i[U] \notin Nat}
<1> SUFFICES ASSUME Bad # {} PROVE FALSE
  OBVIOUS
<1>1. PICK U \in Bad : U \in SUBSET S /\ \A V \in SUBSET U : V # U => V \notin Bad
  BY SmallestSubset
<1>2. CASE U = {}
  BY <1>1, <1>2, SumEnd
<1>3. CASE U # {}
  <2>1. i[U \ {Chosen(U)}] \in Nat /\ f[Chosen(U)] \in Nat
    BY <1>1, <1>3, ChosenIsIn
  <2>2. i[U] = f[Chosen(U)] + i[U \ {Chosen(U)}]
    BY <1>1, <1>3, SumStep
  <2> QED BY <1>1, <2>1, <2>2
<1> QED BY <1>2, <1>3

\* A sum over a finite set exists.
LEMMA SumExists ==
    ASSUME NEW S, IsFiniteSet(S), NEW f
    PROVE  \E it : IsSum(it, f, S)
<1> DEFINE Bad == {U \in SUBSET S : ~\E it : IsSum(it, f, U)}
<1> SUFFICES ASSUME Bad # {} PROVE FALSE
  OBVIOUS
<1>0. Bad \subseteq SUBSET S
  OBVIOUS
<1>1. PICK T \in Bad : \A U \in SUBSET T : U # T => U \notin Bad
  <2> HIDE DEF Bad
  <2> QED BY <1>0, SmallestSubset
<1> DEFINE sumOf(U) == CHOOSE it : IsSum(it, f, U)
           x == Chosen(T)
           whole == [s \in SUBSET T |->
                       IF s = T
                       THEN IF T = {} THEN 0 ELSE f[x] + sumOf(T \ {x})[T \ {x}]
                       ELSE sumOf(s)[s]]
<1>2. \A U \in SUBSET T : U # T => IsSum(sumOf(U), f, U)
  BY <1>1
<1>3. ASSUME NEW s \in SUBSET T
      PROVE  whole[s] = IF s = {} THEN 0 ELSE f[Chosen(s)] + whole[s \ {Chosen(s)}]
  <2>1. CASE s = T
    BY <2>1, ChosenIsIn
  <2>2. CASE s # T /\ s = {}
    BY <1>2, <2>2, SumEnd
  <2>3. CASE s # T /\ s # {}
    <3> DEFINE y == Chosen(s)
    <3>1. s \ {y} \in SUBSET s /\ s \ {y} # s /\ s \ {y} # T /\ s \ {y} \in SUBSET T
      BY <2>3, ChosenIsIn
    <3>2. IsSum(sumOf(s), f, s) /\ IsSum(sumOf(s \ {y}), f, s \ {y}) /\ IsFiniteSet(s)
      BY <1>1, <1>2, <2>3, <3>1, FS_Subset
    <3>3. sumOf(s)[s] = f[y] + sumOf(s)[s \ {y}]
      <4>1. s \in SUBSET s /\ s # {} /\ IsSum(sumOf(s), f, s)
        BY <2>3, <3>2
      <4> HIDE DEF sumOf
      <4> QED BY <4>1, SumStep
    <3>4. sumOf(s)[s \ {y}] = sumOf(s \ {y})[s \ {y}]
      BY <3>1, <3>2, SumsAgree
    <3>5. whole[s] = sumOf(s)[s] /\ whole[s \ {y}] = sumOf(s \ {y})[s \ {y}]
      BY <2>3, <3>1
    <3> QED BY <2>3, <3>3, <3>4, <3>5
  <2> QED BY <2>1, <2>2, <2>3
<1>4. IsSum(whole, f, T)
  <2>1. whole = [s \in SUBSET T |-> whole[s]]
    OBVIOUS
  <2> HIDE DEF whole
  <2> QED BY <1>3, <2>1 DEF IsSum
<1> QED BY <1>1, <1>4

\* To add k to one term adds k to every sum that has the term.
LEMMA SumUpdated ==
    ASSUME NEW S, IsFiniteSet(S), NEW f, NEW g, NEW v, NEW k \in Nat,
           \A d \in S : f[d] \in Nat /\ g[d] = f[d] + (IF d = v THEN k ELSE 0),
           NEW i, NEW j, IsSum(i, f, S), IsSum(j, g, S), NEW T \in SUBSET S
    PROVE  j[T] = i[T] + (IF v \in T THEN k ELSE 0)
<1> DEFINE Bad == {U \in SUBSET S : j[U] # i[U] + (IF v \in U THEN k ELSE 0)}
<1> SUFFICES ASSUME Bad # {} PROVE FALSE
  OBVIOUS
<1>1. PICK U \in Bad : U \in SUBSET S /\ \A V \in SUBSET U : V # U => V \notin Bad
  BY SmallestSubset
<1>2. CASE U = {}
  BY <1>1, <1>2, SumEnd
<1>3. CASE U # {}
  <2> DEFINE x == Chosen(U)
             rest == U \ {x}
  <2>1. x \in S /\ x \in U /\ rest \in SUBSET U /\ rest # U /\ rest \in SUBSET S
    BY <1>1, <1>3, ChosenIsIn
  <2>2. j[rest] = i[rest] + (IF v \in rest THEN k ELSE 0)
    BY <1>1, <2>1
  <2>3. i[U] = f[x] + i[rest] /\ j[U] = g[x] + j[rest]
    BY <1>1, <1>3, SumStep
  <2>4. i[rest] \in Nat /\ f[x] \in Nat /\ g[x] = f[x] + (IF x = v THEN k ELSE 0)
    BY <2>1, SumIsNat
  <2>5. v \in U <=> v \in rest \/ v = x
    BY <2>1
  <2>6. v = x => v \notin rest
    OBVIOUS
  <2> HIDE DEF x, rest
  <2>7. j[U] = i[U] + (IF v \in U THEN k ELSE 0)
    BY <2>2, <2>3, <2>4, <2>5, <2>6
  <2> QED BY <1>1, <2>7
<1> QED BY <1>2, <1>3

\* A sum of zeros is zero.
LEMMA SumOfZeros ==
    ASSUME NEW S, IsFiniteSet(S), NEW f, \A d \in S : f[d] = 0,
           NEW i, IsSum(i, f, S), NEW T \in SUBSET S
    PROVE  i[T] = 0
<1> DEFINE Bad == {U \in SUBSET S : i[U] # 0}
<1> SUFFICES ASSUME Bad # {} PROVE FALSE
  OBVIOUS
<1>1. PICK U \in Bad : U \in SUBSET S /\ \A V \in SUBSET U : V # U => V \notin Bad
  BY SmallestSubset
<1>2. CASE U = {}
  BY <1>1, <1>2, SumEnd
<1>3. CASE U # {}
  <2>1. i[U \ {Chosen(U)}] = 0 /\ f[Chosen(U)] = 0
    BY <1>1, <1>3, ChosenIsIn
  <2>2. i[U] = f[Chosen(U)] + i[U \ {Chosen(U)}]
    BY <1>1, <1>3, SumStep
  <2> QED BY <1>1, <2>1, <2>2
<1> QED BY <1>2, <1>3

-----------------------------------------------------------------------------
(* The histogram.                                                          *)

\* The sum of f over D.
SumOver(f, D) == (CHOOSE it : IsSum(it, f, D))[D]

LEMMA SumOverIsSum ==
    ASSUME NEW D, IsFiniteSet(D), NEW f
    PROVE  \E it : IsSum(it, f, D) /\ SumOver(f, D) = it[D]
BY SumExists DEF SumOver

\* g is f but for k more at v.
MoreAt(v, k, f, g, D) ==
    \A d \in D : f[d] \in Nat /\ g[d] = f[d] + (IF d = v THEN k ELSE 0)

\* What was added to one term is added to the sums that have the term.
LEMMA SumOverUpdated ==
    ASSUME NEW D, IsFiniteSet(D), NEW f, NEW g, NEW v, NEW k \in Nat, MoreAt(v, k, f, g, D)
    PROVE  SumOver(g, D) = SumOver(f, D) + (IF v \in D THEN k ELSE 0)
<1>1. PICK i : IsSum(i, f, D) /\ SumOver(f, D) = i[D]
  BY SumOverIsSum
<1>2. PICK j : IsSum(j, g, D) /\ SumOver(g, D) = j[D]
  BY SumOverIsSum
<1>3. D \in SUBSET D
  OBVIOUS
<1>4. j[D] = i[D] + (IF v \in D THEN k ELSE 0)
  BY <1>1, <1>2, <1>3, SumUpdated DEF MoreAt
<1> QED BY <1>1, <1>2, <1>4

LEMMA SumOverZeros ==
    ASSUME NEW D, IsFiniteSet(D), NEW f, \A d \in D : f[d] = 0
    PROVE  SumOver(f, D) = 0
<1>1. PICK i : IsSum(i, f, D) /\ SumOver(f, D) = i[D]
  BY SumOverIsSum
<1>2. D \in SUBSET D
  OBVIOUS
<1> QED BY <1>1, <1>2, SumOfZeros

LEMMA SumOverNat ==
    ASSUME NEW D, IsFiniteSet(D), NEW f, \A d \in D : f[d] \in Nat
    PROVE  SumOver(f, D) \in Nat
<1>1. PICK i : IsSum(i, f, D) /\ SumOver(f, D) = i[D]
  BY SumOverIsSum
<1>2. D \in SUBSET D
  OBVIOUS
<1> QED BY <1>1, <1>2, SumIsNat

\* The operators of Metrics are such sums.
LEMMA TimesIsSum ==
    ASSUME NEW D
    PROVE  /\ Metrics!Times(D) = SumOver(observed, D)
           /\ Metrics!Times(D)' = SumOver(observed', D)
BY DEF Metrics!Times, Metrics!MapThenSumSet, Metrics!MapThenFoldSet, IsSum, SumOver, Chosen

Weighted(o) == [d \in Durations |-> d * o[d]]

LEMMA TotalIsSum ==
    /\ Metrics!Total = SumOver(Weighted(observed), Durations)
    /\ Metrics!Total' = SumOver(Weighted(observed'), Durations)
<1> DEFINE Plain(it, o) ==
             it = [s \in SUBSET Durations |->
                     IF s = {} THEN 0 ELSE Chosen(s) * o[Chosen(s)] + it[s \ {Chosen(s)}]]
<1>1. ASSUME NEW it, NEW o PROVE IsSum(it, Weighted(o), Durations) <=> Plain(it, o)
  <2>1. ASSUME NEW s \in SUBSET Durations, s # {}
        PROVE  Weighted(o)[Chosen(s)] = Chosen(s) * o[Chosen(s)]
    BY <2>1, ChosenIsIn DEF Weighted
  <2>2. [s \in SUBSET Durations |->
           IF s = {} THEN 0 ELSE Chosen(s) * o[Chosen(s)] + it[s \ {Chosen(s)}]]
        = [s \in SUBSET Durations |->
             IF s = {} THEN 0 ELSE Weighted(o)[Chosen(s)] + it[s \ {Chosen(s)}]]
    BY <2>1
  <2> QED BY <2>2 DEF IsSum
<1>2. Metrics!Total = (CHOOSE it : Plain(it, observed))[Durations]
  BY DEF Metrics!Total, Metrics!MapThenSumSet, Metrics!MapThenFoldSet, Chosen
<1>3. Metrics!Total' = (CHOOSE it : Plain(it, observed'))[Durations]
  BY DEF Metrics!Total, Metrics!MapThenSumSet, Metrics!MapThenFoldSet, Chosen
<1> HIDE DEF Plain
<1> QED BY <1>1, <1>2, <1>3 DEF SumOver

\* The rendered lines are the partial sums of the buckets.
LinesOf(g, bs) == g = [b \in 0 .. 6 |-> IF b = 0 THEN 0 ELSE g[b - 1] + bs[b]]

\* What a loop that adds up the buckets has after each turn.
PartialSums(g, bs) == g[0] = 0 /\ \A b \in 1 .. 6 : g[b] = g[b - 1] + bs[b]

LEMMA LinesExist ==
    ASSUME NEW bs \in [1 .. 6 -> Nat]
    PROVE  \E g : LinesOf(g, bs)
<1> DEFINE g == [b \in 0 .. 6 |->
                   CASE b = 0 -> 0
                     [] b = 1 -> bs[1]
                     [] b = 2 -> bs[1] + bs[2]
                     [] b = 3 -> bs[1] + bs[2] + bs[3]
                     [] b = 4 -> bs[1] + bs[2] + bs[3] + bs[4]
                     [] b = 5 -> bs[1] + bs[2] + bs[3] + bs[4] + bs[5]
                     [] b = 6 -> bs[1] + bs[2] + bs[3] + bs[4] + bs[5] + bs[6]]
<1>1. ASSUME NEW b \in 0 .. 6 PROVE g[b] = IF b = 0 THEN 0 ELSE g[b - 1] + bs[b]
  <2>1. b = 0 \/ b = 1 \/ b = 2 \/ b = 3 \/ b = 4 \/ b = 5 \/ b = 6
    OBVIOUS
  <2> QED BY <2>1
<1>2. g = [b \in 0 .. 6 |-> g[b]]
  OBVIOUS
<1> HIDE DEF g
<1> QED BY <1>1, <1>2 DEF LinesOf

Bound == Metrics!JOB_LATENCY_BUCKETS_MS

LEMMA BoundsAre ==
    /\ Metrics!Buckets = 1 .. 6 /\ Len(Bound) = 6
    /\ Bound[1] = 100 /\ Bound[2] = 500 /\ Bound[3] = 1000
    /\ Bound[4] = 5000 /\ Bound[5] = 15000 /\ Bound[6] = 60000
BY DEF Metrics!Buckets, Metrics!JOB_LATENCY_BUCKETS_MS, Bound

LEMMA RenderedStep ==
    ASSUME buckets \in [1 .. 6 -> Nat]
    PROVE  PartialSums(Metrics!Rendered, buckets)
<1>1. Metrics!Rendered = CHOOSE g : LinesOf(g, buckets)
  BY BoundsAre DEF Metrics!Rendered, LinesOf, Bound
<1>2. LinesOf(Metrics!Rendered, buckets)
  BY <1>1, LinesExist
<1> HIDE DEF Metrics!Rendered
<1> QED BY <1>2 DEF LinesOf, PartialSums

LEMMA RenderedStepNext ==
    ASSUME buckets' \in [1 .. 6 -> Nat]
    PROVE  PartialSums(Metrics!Rendered', buckets')
<1>1. Metrics!Rendered' = CHOOSE g : LinesOf(g, buckets')
  BY BoundsAre DEF Metrics!Rendered, LinesOf, Bound
<1>2. LinesOf(Metrics!Rendered', buckets')
  BY <1>1, LinesExist
<1> QED BY <1>2 DEF LinesOf, PartialSums

Incremented(bs, cs, v) ==
    \A b \in 1 .. 6 : cs[b] = IF b \in Metrics!BucketsOf(v) THEN bs[b] + 1 ELSE bs[b]

\* An observation raises the lines whose bound it does not exceed, by one.
LEMMA LinesRaised ==
    ASSUME NEW bs \in [1 .. 6 -> Nat], NEW cs, NEW g, NEW h, NEW v \in Nat,
           PartialSums(g, bs), PartialSums(h, cs), Incremented(bs, cs, v)
    PROVE  \A b \in 1 .. 6 : g[b] \in Nat /\ h[b] = g[b] + (IF v <= Bound[b] THEN 1 ELSE 0)
<1> USE DEF PartialSums, Incremented
<1> DEFINE In(b) == IF v <= Bound[b] THEN 1 ELSE 0
<1>1. \A b \in 1 .. 6 : b \in Metrics!BucketsOf(v)
                          <=> v <= Bound[b] /\ \A a \in 1 .. b - 1 : v > Bound[a]
  BY BoundsAre DEF Metrics!BucketsOf, Bound
<1>2. g[1] \in Nat /\ h[1] = g[1] + In(1)
  <2>1. g[1] = g[0] + bs[1] /\ h[1] = h[0] + cs[1] /\ bs[1] \in Nat
    <3>1. 1 \in 1 .. 6 /\ 1 - 1 = 0
      OBVIOUS
    <3> QED BY <3>1
  <2>2. 1 \in Metrics!BucketsOf(v) <=> v <= Bound[1]
    BY <1>1
  <2>3. cs[1] = bs[1] + In(1)
    BY <2>1, <2>2
  <2> QED BY <2>1, <2>3
<1>3. ASSUME NEW b \in 2 .. 6, g[b - 1] \in Nat, h[b - 1] = g[b - 1] + In(b - 1)
      PROVE  g[b] \in Nat /\ h[b] = g[b] + In(b)
  <2>1. g[b] = g[b - 1] + bs[b] /\ h[b] = h[b - 1] + cs[b] /\ bs[b] \in Nat
    OBVIOUS
  <2>2. \A a \in 1 .. b - 1 : Bound[a] <= Bound[b - 1]
    <3>1. b = 2 \/ b = 3 \/ b = 4 \/ b = 5 \/ b = 6
      OBVIOUS
    <3>2. \A a \in 1 .. b - 1 : a = 1 \/ a = 2 \/ a = 3 \/ a = 4 \/ a = 5
      OBVIOUS
    <3> QED BY <3>1, <3>2, BoundsAre
  <2>3. Bound[b - 1] \in Nat /\ Bound[b] \in Nat /\ Bound[b - 1] < Bound[b]
    <3>1. b = 2 \/ b = 3 \/ b = 4 \/ b = 5 \/ b = 6
      OBVIOUS
    <3> QED BY <3>1, BoundsAre
  <2>4. \A a \in 1 .. b - 1 : Bound[a] \in Nat
    <3>1. \A a \in 1 .. b - 1 : a = 1 \/ a = 2 \/ a = 3 \/ a = 4 \/ a = 5
      OBVIOUS
    <3> QED BY <3>1, BoundsAre
  <2>5. b \in Metrics!BucketsOf(v) <=> v <= Bound[b] /\ v > Bound[b - 1]
    BY <1>1, <2>2, <2>3, <2>4
  <2>6. In(b - 1) + (IF b \in Metrics!BucketsOf(v) THEN 1 ELSE 0) = In(b)
    BY <2>3, <2>5
  <2>7. cs[b] = bs[b] + (IF b \in Metrics!BucketsOf(v) THEN 1 ELSE 0)
    BY <2>1
  <2>8. In(b - 1) \in Nat
    OBVIOUS
  <2> HIDE DEF In
  <2> QED BY <1>3, <2>1, <2>6, <2>7, <2>8
<1> HIDE DEF In
<1>4. g[2] \in Nat /\ h[2] = g[2] + In(2)
  BY <1>2, <1>3, 2 - 1 = 1
<1>5. g[3] \in Nat /\ h[3] = g[3] + In(3)
  BY <1>4, <1>3, 3 - 1 = 2
<1>6. g[4] \in Nat /\ h[4] = g[4] + In(4)
  BY <1>5, <1>3, 4 - 1 = 3
<1>7. g[5] \in Nat /\ h[5] = g[5] + In(5)
  BY <1>6, <1>3, 5 - 1 = 4
<1>8. g[6] \in Nat /\ h[6] = g[6] + In(6)
  BY <1>7, <1>3, 6 - 1 = 5
<1>9. \A b \in 1 .. 6 : b = 1 \/ b = 2 \/ b = 3 \/ b = 4 \/ b = 5 \/ b = 6
  OBVIOUS
<1> QED BY <1>2, <1>4, <1>5, <1>6, <1>7, <1>8, <1>9 DEF In

\* Lines over buckets without observations.
LEMMA LinesOfNothing ==
    ASSUME NEW bs, NEW g, \A b \in 1 .. 6 : bs[b] = 0, PartialSums(g, bs)
    PROVE  \A b \in 1 .. 6 : g[b] = 0
<1> USE DEF PartialSums
<1>1. g[1] = 0
  BY 1 - 1 = 0
<1>2. g[2] = 0
  BY <1>1, 2 - 1 = 1
<1>3. g[3] = 0
  BY <1>2, 3 - 1 = 2
<1>4. g[4] = 0
  BY <1>3, 4 - 1 = 3
<1>5. g[5] = 0
  BY <1>4, 5 - 1 = 4
<1>6. g[6] = 0
  BY <1>5, 6 - 1 = 5
<1>7. \A b \in 1 .. 6 : b = 1 \/ b = 2 \/ b = 3 \/ b = 4 \/ b = 5 \/ b = 6
  OBVIOUS
<1> QED BY <1>1, <1>2, <1>3, <1>4, <1>5, <1>6, <1>7

\* What HistogramAgrees says, for any lines, observations, count and sum.
UpTo(b) == {d \in Durations : d <= Bound[b]}

Agrees(g, o, c, s) ==
    /\ \A b \in 1 .. 6 : g[b] = SumOver(o, UpTo(b))
    /\ g[6] <= c
    /\ c = SumOver(o, Durations)
    /\ s = SumOver(Weighted(o), Durations)

LEMMA HistogramIs ==
    /\ HistogramAgrees <=> Agrees(Metrics!Rendered, observed, count, sum)
    /\ HistogramAgrees' <=> Agrees(Metrics!Rendered', observed', count', sum')
<1>1. HistogramAgrees <=> Agrees(Metrics!Rendered, observed, count, sum)
  BY BoundsAre, TimesIsSum, TotalIsSum
     DEF HistogramAgrees, Metrics!HistogramAgrees, Agrees, UpTo, Bound
<1>2. HistogramAgrees' <=> Agrees(Metrics!Rendered', observed', count', sum')
  BY BoundsAre, TimesIsSum, TotalIsSum
     DEF HistogramAgrees, Metrics!HistogramAgrees, Agrees, UpTo, Bound
<1> QED BY <1>1, <1>2

\* An observation adds itself to the lines, the count and the sum.
LEMMA ObservationAgrees ==
    ASSUME Metrics!TypeOK, HistogramAgrees, NEW v \in Durations, Metrics!ObserveHistogram(v)
    PROVE  HistogramAgrees'
<1> DEFINE g == Metrics!Rendered
           h == Metrics!Rendered'
<1>1. /\ buckets \in [1 .. 6 -> Nat] /\ observed \in [Durations -> Nat]
      /\ count \in Nat /\ sum \in Nat /\ v \in Nat
  BY DurationsAssumption, BoundsAre DEF Metrics!TypeOK
<1>2. /\ buckets' \in [1 .. 6 -> Nat]
      /\ Incremented(buckets, buckets', v)
  BY <1>1, BoundsAre DEF Metrics!ObserveHistogram, Incremented
<1>3. \A d \in Durations : /\ observed[d] \in Nat
                           /\ observed'[d] = observed[d] + (IF d = v THEN 1 ELSE 0)
  BY <1>1 DEF Metrics!ObserveHistogram
<1>4. count' = count + 1 /\ sum' = sum + v
  BY DEF Metrics!ObserveHistogram
<1>5. \A b \in 1 .. 6 : g[b] \in Nat /\ h[b] = g[b] + (IF v <= Bound[b] THEN 1 ELSE 0)
  <2>1. PartialSums(g, buckets)
    BY <1>1, RenderedStep
  <2>2. PartialSums(h, buckets')
    BY <1>2, RenderedStepNext
  <2> HIDE DEF g, h
  <2> QED BY <1>1, <1>2, <2>1, <2>2, LinesRaised
<1>6. Agrees(g, observed, count, sum)
  BY HistogramIs
<1>7. ASSUME NEW D \in SUBSET Durations
      PROVE  SumOver(observed', D) = SumOver(observed, D) + (IF v \in D THEN 1 ELSE 0)
  <2>1. IsFiniteSet(D)
    BY DurationsAssumption, FS_Subset
  <2>2. MoreAt(v, 1, observed, observed', D)
    BY <1>3 DEF MoreAt
  <2> QED BY <2>1, <2>2, SumOverUpdated
<1>8. SumOver(Weighted(observed'), Durations) = SumOver(Weighted(observed), Durations) + v
  <2>1. MoreAt(v, v, Weighted(observed), Weighted(observed'), Durations)
    <3> SUFFICES ASSUME NEW d \in Durations
                 PROVE  /\ d * observed[d] \in Nat
                        /\ d * observed'[d] = d * observed[d] + (IF d = v THEN v ELSE 0)
      BY DEF Weighted, MoreAt
    <3>1. d \in Nat /\ observed[d] \in Nat
      BY <1>3, DurationsAssumption
    <3>2. CASE d = v
      BY <1>3, <3>1, <3>2
    <3>3. CASE d # v
      BY <1>3, <3>1, <3>3
    <3> QED BY <3>2, <3>3
  <2>2. v \in Nat /\ v \in Durations /\ IsFiniteSet(Durations)
    BY <1>1, DurationsAssumption
  <2>3. SumOver(Weighted(observed'), Durations)
          = SumOver(Weighted(observed), Durations) + (IF v \in Durations THEN v ELSE 0)
    BY <2>1, <2>2, SumOverUpdated
  <2> QED BY <2>2, <2>3
<1>9. \A b \in 1 .. 6 : h[b] = SumOver(observed', UpTo(b))
  <2> SUFFICES ASSUME NEW b \in 1 .. 6 PROVE h[b] = SumOver(observed', UpTo(b))
    OBVIOUS
  <2>1. UpTo(b) \in SUBSET Durations /\ (v \in UpTo(b) <=> v <= Bound[b])
    BY DEF UpTo
  <2>2. g[b] = SumOver(observed, UpTo(b))
    BY <1>6 DEF Agrees
  <2> HIDE DEF g, h
  <2> QED BY <1>5, <1>7, <2>1, <2>2
<1>10. h[6] <= count'
  <2>1. g[6] <= count
    BY <1>6 DEF Agrees
  <2> HIDE DEF g, h
  <2> QED BY <1>1, <1>4, <1>5, <2>1
<1>11. count' = SumOver(observed', Durations) /\ sum' = SumOver(Weighted(observed'), Durations)
  <2>1. count = SumOver(observed, Durations) /\ sum = SumOver(Weighted(observed), Durations)
    BY <1>6 DEF Agrees
  <2>2. Durations \in SUBSET Durations
    OBVIOUS
  <2> QED BY <1>4, <1>7, <1>8, <2>1, <2>2
<1> QED BY <1>9, <1>10, <1>11, HistogramIs DEF Agrees

\* Without observations there is nothing to add up.
LEMMA NothingAgrees ==
    ASSUME NEW bs, NEW g, NEW o, \A b \in 1 .. 6 : bs[b] = 0, PartialSums(g, bs),
           \A d \in Durations : o[d] = 0
    PROVE  Agrees(g, o, 0, 0)
<1>1. \A b \in 1 .. 6 : g[b] = 0
  BY LinesOfNothing
<1>2. \A D \in SUBSET Durations : SumOver(o, D) = 0
  BY DurationsAssumption, FS_Subset, SumOverZeros
<1>3. \A b \in 1 .. 6 : UpTo(b) \in SUBSET Durations
  BY DEF UpTo
<1>4. SumOver(Weighted(o), Durations) = 0
  <2>1. \A d \in Durations : Weighted(o)[d] = 0
    BY DurationsAssumption DEF Weighted
  <2> QED BY <2>1, DurationsAssumption, SumOverZeros
<1>5. Durations \in SUBSET Durations
  OBVIOUS
<1> QED BY <1>1, <1>2, <1>3, <1>4, <1>5 DEF Agrees

\* Every step of the handlers, of the workers and of Redis leaves the histogram
\* alone, adds an observation to it, or empties it.
LEMMA AgreementKeeps ==
    Metrics!TypeOK /\ HistogramAgrees /\ [Next]_vars => HistogramAgrees'
<1> SUFFICES ASSUME Metrics!TypeOK, HistogramAgrees, [Next]_vars PROVE HistogramAgrees'
  OBVIOUS
<1>1. CASE UNCHANGED metricsVars
  <2>1. Metrics!Rendered' = Metrics!Rendered
    BY <1>1 DEF metricsVars, Metrics!Rendered
  <2> QED BY <1>1, <2>1, HistogramIs DEF metricsVars
<1>2. CASE LoseData
  <2>1. /\ buckets' \in [1 .. 6 -> Nat] /\ \A b \in 1 .. 6 : buckets'[b] = 0
        /\ \A d \in Durations : observed'[d] = 0
        /\ count' = 0 /\ sum' = 0
    BY <1>2, BoundsAre DEF LoseData, Metrics!Reset
  <2>2. Agrees(Metrics!Rendered', observed', 0, 0)
    BY <2>1, RenderedStepNext, NothingAgrees
  <2> QED BY <2>1, <2>2, HistogramIs
<1>3. ASSUME NEW d \in Durations, Observe(d) PROVE HistogramAgrees'
  BY <1>3, ObservationAgrees DEF Observe
<1> QED
  BY <1>1, <1>2, <1>3
     DEF Next, HandlerStep, Tick, Leave, Return, Receive, Limited, Count, vars, metricsVars

\* Whenever a scrape takes its snapshot, each line of the histogram tells how
\* many of the observations since Redis last lost its data did not exceed its
\* bound, and the count and the sum are theirs: for all latencies, however many
\* are observed and however often Redis goes away.
THEOREM HistogramAlwaysAgrees == Spec => []HistogramAgrees
<1>1. Init => Metrics!TypeOK /\ HistogramAgrees
  <2> SUFFICES ASSUME Init PROVE Metrics!TypeOK /\ HistogramAgrees
    OBVIOUS
  <2>1. /\ buckets \in [1 .. 6 -> Nat] /\ \A b \in 1 .. 6 : buckets[b] = 0
        /\ \A d \in Durations : observed[d] = 0
        /\ count = 0 /\ sum = 0
    BY BoundsAre DEF Init, Metrics!Init
  <2>2. Agrees(Metrics!Rendered, observed, 0, 0)
    BY <2>1, RenderedStep, NothingAgrees
  <2>3. HistogramAgrees
    BY <2>1, <2>2, HistogramIs
  <2>4. Metrics!TypeOK
    BY DEF Init, Metrics!Init, Metrics!TypeOK
  <2> QED BY <2>3, <2>4
<1>2. Metrics!TypeOK /\ HistogramAgrees /\ [Next]_vars
          => Metrics!TypeOK' /\ HistogramAgrees'
  BY NumbersKeep, AgreementKeeps
<1> QED BY <1>1, <1>2, PTL DEF Spec

=============================================================================
