--------------------------- MODULE RateLimitProofs --------------------------
(***************************************************************************)
(* Proofs about RateLimit, for any keys, requests, limit and window, any   *)
(* bound of the clock and of the flushes, and any envelope.                *)
(***************************************************************************)
EXTENDS RateLimit, FiniteSetTheorems, FunctionTheorems, WellFoundedInduction, TLAPS

USE PolicyAssumption, RequestsAssumption, BoundsAssumption

(* Arithmetic of windows.                                                  *)

\* b comes more than d windows after a.
Apart(a, b, d) == b > a + d * Window

LEMMA WindowIsNat == Window \in Nat \ {0} /\ Window = 2 * WindowSeconds
BY DEF Window, TicksPerSecond

LEMMA ApartShrinks ==
    ASSUME NEW a \in Int, NEW b \in Int, NEW c \in Int, NEW d \in Int, NEW e \in Int,
           Apart(a, b, d), c >= b, e <= d
    PROVE  Apart(a, c, e)
<1>1. PICK x \in Nat : d = e + x
  OBVIOUS
<1>2. d * Window = e * Window + x * Window /\ x * Window >= 0
  BY <1>1, WindowIsNat
<1> QED BY <1>2, WindowIsNat DEF Apart

LEMMA ApartGrows ==
    ASSUME NEW a \in Int, NEW b \in Int, NEW c \in Int, NEW d \in Int,
           Apart(a, b, d), c >= b + Window
    PROVE  Apart(a, c, d + 1)
<1>1. (d + 1) * Window = d * Window + Window
  BY WindowIsNat
<1> QED BY <1>1, WindowIsNat DEF Apart

LEMMA ApartByOrder ==
    ASSUME NEW a \in Int, NEW b \in Int, NEW d \in Int,
           (d <= 0 /\ b > a) \/ (d < 0 /\ b >= a)
    PROVE  Apart(a, b, d)
<1>1. Apart(a, b, IF b > a THEN 0 ELSE -1)
  BY WindowIsNat DEF Apart
<1> QED BY <1>1, ApartShrinks

\* What a refused caller is told covers what is left of the window.
LEMMA RetryAfterCovers ==
    ASSUME NEW ttl \in 0 .. Window
    PROVE  RetryAfter(ttl) \in 1 .. WindowSeconds /\ RetryAfter(ttl) * TicksPerSecond >= ttl
BY WindowIsNat DEF RetryAfter, TicksPerSecond

-----------------------------------------------------------------------------
(* The inductive invariant.                                                *)

\* The limiter has read the counter for this call.
Counting(r) == call[r].state \in {"admitted", "refused"}

SameKey(r, q) == call[r].key = call[q].key

\* A key that is there has a counter, within its window.
CounterInv ==
    \A k \in Keys : Live(k) => now <= counter[k].expiresAt /\ counter[k].expiresAt <= now + Window

\* A call was counted in the window of its key or in an earlier one, and the
\* more windows lie between, the longer ago, except that each flush may have
\* cut one window short.
Placed(r) ==
    LET k == call[r].key
        since == counter[k].window - call[r].window
    IN  /\ call[r].at <= now
        /\ since >= 0
        /\ Live(k) /\ since = 0 => counter[k].expiresAt - Window <= call[r].at
        /\ Live(k) /\ since > 0 =>
                Apart(call[r].at, counter[k].expiresAt - Window, since - 1 - flushes)
        /\ ~Live(k) => Apart(call[r].at, now, since - flushes)

WindowInv == \A r \in Requests : Counting(r) => Placed(r)

\* So the windows of two calls tell how far apart they are.
PairInv ==
    \A r, q \in Requests :
        Counting(r) /\ Counting(q) /\ SameKey(r, q) /\ call[r].window < call[q].window
            => Apart(call[r].at, call[q].at, call[q].window - call[r].window - 1 - flushes)

\* A refused caller was told to wait until its window is over.
RefusalInv ==
    \A r \in Requests :
        LET k == call[r].key
        IN  call[r].state = "refused" /\ Live(k) /\ counter[k].window = call[r].window
                => counter[k].expiresAt <= call[r].at + told[r] * TicksPerSecond

\* The admitted calls of a window can be numbered from 1 to the limit, and no
\* further than the counter has come.
Numbers(nth) ==
    /\ \A r \in Requests : call[r].state = "admitted" =>
          LET k == call[r].key
          IN  Live(k) /\ counter[k].window = call[r].window => nth[r] <= counter[k].count
    /\ \A r, q \in Requests :
          /\ call[r].state = "admitted" /\ call[q].state = "admitted" /\ SameKey(r, q)
          /\ call[r].window = call[q].window /\ nth[r] = nth[q]
          => r = q

NumberInv == \E nth \in [Requests -> 1 .. Limit] : Numbers(nth)

TimeInv == LimiterTypeOK /\ CounterInv /\ WindowInv /\ PairInv /\ RefusalInv

LimitInv == TimeInv /\ NumberInv

\* Every call starts uncounted.
LEMMA InitLimit == LimiterInit => LimitInv
<1> SUFFICES ASSUME LimiterInit PROVE LimitInv
  OBVIOUS
<1>1. LimiterTypeOK
  BY DEF LimiterInit, LimiterTypeOK, Calls, Outcomes
<1>2. \A r \in Requests : ~Counting(r) /\ call[r].state = "idle"
  BY DEF LimiterInit, Counting
<1>3. \A k \in Keys : ~Live(k)
  BY DEF LimiterInit, Live
<1>4. CounterInv /\ WindowInv /\ PairInv /\ RefusalInv
  BY <1>2, <1>3 DEF CounterInv, WindowInv, PairInv, RefusalInv
<1>5. [r \in Requests |-> 1] \in [Requests -> 1 .. Limit]
  OBVIOUS
<1>6. Numbers([r \in Requests |-> 1])
  BY <1>2 DEF Numbers
<1> QED BY <1>1, <1>4, <1>5, <1>6 DEF LimitInv, TimeInv, NumberInv

LEMMA Typing ==
    ASSUME LimiterTypeOK
    PROVE  /\ now \in Nat /\ flushes \in Nat /\ Window \in Nat \ {0}
           /\ \A k \in Keys : /\ counter[k].count \in Nat /\ counter[k].expiresAt \in Int
                              /\ counter[k].window \in Nat
           /\ \A r \in Requests : /\ call[r].at \in Nat /\ call[r].window \in Nat
                                  /\ told[r] \in Nat
                                  /\ Counting(r) \/ Waiting(r) => call[r].key \in Keys
BY WindowIsNat DEF LimiterTypeOK, Calls, Counting, Waiting, Outcomes

\* A key that is gone keeps the number of its last window.
LEMMA GoneKeeps ==
    ASSUME LimiterTypeOK, NEW k \in Keys
    PROVE  /\ Gone(k) \in [count : Nat, expiresAt : Int, window : Nat]
           /\ Gone(k).count = 0 /\ Gone(k).window = counter[k].window
<1>1. counter[k] \in [count : Nat, expiresAt : Int, window : Nat]
  BY DEF LimiterTypeOK, Calls
<1> QED BY <1>1 DEF Gone

\* The passing of time may end a window.
LEMMA TickKeeps == TimeInv /\ LimiterTick => TimeInv'
<1> SUFFICES ASSUME TimeInv, LimiterTick PROVE TimeInv'
  OBVIOUS
<1> DEFINE ends(k) == counter[k].expiresAt < now + 1
<1>2. /\ now' = now + 1 /\ UNCHANGED <<call, told, flushes>>
      /\ counter' = [k \in Keys |-> IF ends(k) THEN Gone(k) ELSE counter[k]]
      /\ now < EndOfTime
  BY DEF LimiterTick
<1>3. \A k \in Keys : /\ Live(k)' <=> Live(k) /\ ~ends(k)
                      /\ counter'[k].window = counter[k].window
                      /\ Live(k)' => counter'[k] = counter[k]
  <2> TAKE k \in Keys
  <2>1. CASE ends(k)
    BY <1>2, <2>1, GoneKeeps DEF TimeInv, Live
  <2>2. CASE ~ends(k)
    BY <1>2, <2>2 DEF Live
  <2> QED BY <2>1, <2>2
<1>1. LimiterTypeOK'
  <2>1. counter' \in [Keys -> [count : Nat, expiresAt : Int, window : Nat]]
    BY <1>2, GoneKeeps DEF TimeInv, LimiterTypeOK, Calls
  <2> QED BY <1>2, <2>1 DEF TimeInv, LimiterTypeOK, Calls
<1>4. CounterInv'
  BY <1>2, <1>3, Typing DEF TimeInv, CounterInv
<1>5. ASSUME NEW r \in Requests, Counting(r) PROVE Placed(r)'
  <2>1. PICK k \in Keys : k = call[r].key
    BY <1>5, Typing DEF TimeInv
  <2> DEFINE since == counter[k].window - call[r].window
  <2>2. /\ call[r].at \in Nat /\ since \in Nat /\ flushes \in Nat /\ now \in Nat
        /\ counter[k].expiresAt \in Int /\ Window \in Nat
        /\ Placed(r) /\ call[r].at <= now
    BY <1>5, <2>1, Typing DEF TimeInv, WindowInv, Placed
  <2>3. CASE Live(k)'
    BY <1>2, <1>3, <2>1, <2>2, <2>3 DEF Placed
  <2>4. CASE ~Live(k)'
    <3>1. SUFFICES Apart(call[r].at, now + 1, since - flushes)
      BY <1>2, <1>3, <2>1, <2>2, <2>4 DEF Placed
    <3>2. CASE ~Live(k)
      <4> DEFINE d == since - flushes
      <4>1. Apart(call[r].at, now, d) /\ d \in Int /\ d <= d /\ now + 1 >= now
        BY <2>1, <2>2, <3>2 DEF Placed
      <4> HIDE DEF d
      <4>2. Apart(call[r].at, now + 1, d)
        BY <4>1, <2>2 DEF Apart
      <4> QED BY <4>2 DEF d
    <3>3. CASE Live(k) /\ since = 0
      BY <2>2, <3>3, ApartByOrder
    <3>4. CASE Live(k) /\ since > 0
      <4> DEFINE d == since - 1 - flushes
                 b == counter[k].expiresAt - Window
      <4>1. Apart(call[r].at, b, d)
        BY <2>1, <2>2, <3>4 DEF Placed
      <4>2. d \in Int /\ b \in Int /\ now + 1 >= b + Window /\ d + 1 = since - flushes
        BY <1>3, <2>2, <2>4, <3>4
      <4> HIDE DEF d, b
      <4>3. Apart(call[r].at, now + 1, d + 1)
        BY <2>2, <4>1, <4>2, ApartGrows
      <4> QED BY <4>2, <4>3
    <3> QED BY <2>2, <3>2, <3>3, <3>4
  <2> QED BY <2>3, <2>4
<1>6. WindowInv' /\ PairInv'
  BY <1>2, <1>5 DEF TimeInv, WindowInv, PairInv, Counting, SameKey
<1>7. RefusalInv'
  BY <1>2, <1>3, Typing DEF TimeInv, RefusalInv, Counting
<1> QED BY <1>1, <1>4, <1>6, <1>7 DEF TimeInv

\* A flush ends every window, and is counted.
LEMMA FlushKeeps == TimeInv /\ Flush => TimeInv'
<1> SUFFICES ASSUME TimeInv, Flush PROVE TimeInv'
  OBVIOUS
<1>1. /\ flushes < Flushes /\ flushes' = flushes + 1 /\ UNCHANGED <<now, call, told>>
      /\ counter' = [k \in Keys |-> Gone(k)]
  BY DEF Flush
<1>2. \A k \in Keys : ~Live(k)' /\ counter'[k].window = counter[k].window
  BY <1>1, GoneKeeps DEF TimeInv, Live
<1>3. LimiterTypeOK'
  <2>1. counter' \in [Keys -> [count : Nat, expiresAt : Int, window : Nat]]
    BY <1>1, GoneKeeps DEF TimeInv, LimiterTypeOK, Calls
  <2> QED BY <1>1, <2>1 DEF TimeInv, LimiterTypeOK, Calls
<1>4. ASSUME NEW r \in Requests, Counting(r) PROVE Placed(r)'
  <2>1. PICK k \in Keys : k = call[r].key
    BY <1>4, Typing DEF TimeInv
  <2> DEFINE since == counter[k].window - call[r].window
  <2>2. /\ call[r].at \in Nat /\ since \in Nat /\ flushes \in Nat /\ now \in Nat
        /\ counter[k].expiresAt \in Int /\ Window \in Nat
        /\ Placed(r) /\ call[r].at <= now
    BY <1>4, <2>1, Typing DEF TimeInv, WindowInv, Placed
  <2>3. SUFFICES Apart(call[r].at, now, since - (flushes + 1))
    BY <1>1, <1>2, <2>1, <2>2 DEF Placed
  <2> DEFINE d == since - flushes
  <2>4. d \in Int /\ since - (flushes + 1) = d - 1 /\ since - 1 - flushes = d - 1
    BY <2>2
  <2>5. CASE ~Live(k)
    <3>1. Apart(call[r].at, now, d)
      BY <2>1, <2>2, <2>5 DEF Placed
    <3> HIDE DEF d
    <3>2. (d - 1) * Window = d * Window - Window
      BY <2>2, <2>4
    <3>3. Apart(call[r].at, now, d - 1)
      BY <2>2, <2>4, <3>1, <3>2 DEF Apart
    <3> QED BY <2>4, <3>3
  <2>6. CASE Live(k) /\ since = 0
    BY <2>2, <2>6, ApartByOrder
  <2>7. CASE Live(k) /\ since > 0
    <3>1. Apart(call[r].at, counter[k].expiresAt - Window, d - 1)
      BY <2>1, <2>2, <2>4, <2>7 DEF Placed
    <3>2. counter[k].expiresAt - Window <= now
      BY <2>1, <2>2, <2>7 DEF TimeInv, CounterInv
    <3> HIDE DEF d
    <3>3. Apart(call[r].at, now, d - 1)
      BY <2>2, <2>4, <3>1, <3>2 DEF Apart
    <3> QED BY <2>4, <3>3
  <2> QED BY <2>2, <2>5, <2>6, <2>7
<1>5. ASSUME NEW r \in Requests, NEW q \in Requests,
             Counting(r), Counting(q), SameKey(r, q), call[r].window < call[q].window
      PROVE  Apart(call[r].at, call[q].at, call[q].window - call[r].window - 1 - (flushes + 1))
  <2> DEFINE d == call[q].window - call[r].window - 1 - flushes
  <2>1. Apart(call[r].at, call[q].at, d)
    BY <1>5 DEF TimeInv, PairInv
  <2>2. /\ call[r].at \in Nat /\ call[q].at \in Nat /\ d \in Int /\ Window \in Nat
        /\ call[q].window - call[r].window - 1 - (flushes + 1) = d - 1
    BY Typing DEF TimeInv
  <2> HIDE DEF d
  <2>3. (d - 1) * Window = d * Window - Window
    BY <2>2
  <2>4. Apart(call[r].at, call[q].at, d - 1)
    BY <2>1, <2>2, <2>3 DEF Apart
  <2> QED BY <2>2, <2>4
<1>6. CounterInv' /\ RefusalInv'
  BY <1>1, <1>2, Typing DEF TimeInv, LimiterTypeOK, Calls, CounterInv, RefusalInv
<1>7. WindowInv'
  BY <1>1, <1>4 DEF WindowInv, Counting
<1>8. PairInv'
  BY <1>1, <1>5 DEF PairInv, Counting, SameKey
<1> QED BY <1>3, <1>6, <1>7, <1>8 DEF TimeInv

\* What counting a call makes of a counter.
LEMMA CountedFacts ==
    ASSUME TimeInv, NEW k \in Keys
    PROVE  /\ Counted(k) \in [count : Nat, expiresAt : Int, window : Nat]
           /\ Counted(k).count > 0
           /\ now <= Counted(k).expiresAt /\ Counted(k).expiresAt <= now + Window
           /\ Live(k) => /\ Counted(k).count = counter[k].count + 1
                         /\ Counted(k).expiresAt = counter[k].expiresAt
                         /\ Counted(k).window = counter[k].window
           /\ ~Live(k) => /\ Counted(k).count = 1
                          /\ Counted(k).expiresAt = now + Window
                          /\ Counted(k).window = counter[k].window + 1
<1>1. /\ counter[k] \in [count : Nat, expiresAt : Int, window : Nat]
      /\ now \in Nat /\ Window \in Nat \ {0}
      /\ Live(k) => now <= counter[k].expiresAt /\ counter[k].expiresAt <= now + Window
  BY Typing DEF TimeInv, LimiterTypeOK, Calls, CounterInv
<1>2. CASE Live(k)
  BY <1>1, <1>2 DEF Counted
<1>3. CASE ~Live(k)
  BY <1>1, <1>3 DEF Counted
<1> QED BY <1>2, <1>3

\* The counter of one key may count once more; the other calls keep their places.
LEMMA PlacedKeeps ==
    ASSUME TimeInv, NEW q \in Requests, Counting(q), call'[q] = call[q],
           NEW k \in Keys, UNCHANGED <<now, flushes>>,
           counter' = counter \/ counter' = [counter EXCEPT ![k] = Counted(k)]
    PROVE  Placed(q)'
<1>1. PICK j \in Keys : j = call[q].key
  BY Typing DEF TimeInv
<1>2. /\ call[q].at \in Nat /\ call[q].window \in Nat /\ flushes \in Nat /\ now \in Nat
      /\ counter[j].expiresAt \in Int /\ counter[j].window \in Nat /\ Window \in Nat
      /\ Placed(q) /\ call[q].at <= now /\ counter[j].window - call[q].window >= 0
  BY <1>1, Typing DEF TimeInv, WindowInv, Placed
<1>3. CASE counter'[j] = counter[j]
  BY <1>1, <1>2, <1>3 DEF Placed, Live
<1>4. CASE counter'[j] = Counted(j) /\ Live(j)
  <2>1. /\ counter'[j].expiresAt = counter[j].expiresAt
        /\ counter'[j].window = counter[j].window /\ Live(j)'
    BY <1>4, CountedFacts DEF Live
  <2> QED BY <1>1, <1>2, <1>4, <2>1 DEF Placed
<1>5. CASE counter'[j] = Counted(j) /\ ~Live(j)
  <2>1. /\ counter'[j].expiresAt - Window = now
        /\ counter'[j].window = counter[j].window + 1 /\ Live(j)'
    BY <1>2, <1>5, CountedFacts DEF Live
  <2>2. Apart(call[q].at, now, counter[j].window - call[q].window - flushes)
    BY <1>1, <1>2, <1>5 DEF Placed
  <2>3. /\ counter'[j].window - call[q].window > 0
        /\ counter'[j].window - call[q].window - 1 - flushes
             = counter[j].window - call[q].window - flushes
    BY <1>2, <2>1
  <2> QED BY <1>1, <1>2, <2>1, <2>2, <2>3 DEF Placed
<1>6. counter'[j] = counter[j] \/ (j = k /\ counter'[j] = Counted(j))
  BY DEF TimeInv, LimiterTypeOK, Calls
<1> QED BY <1>3, <1>4, <1>5, <1>6

LEMMA CallKeeps ==
    ASSUME TimeInv, LimiterTypeOK', NEW r \in Requests, NEW k \in Keys,
           UNCHANGED <<now, flushes>>,
           counter' = counter \/ counter' = [counter EXCEPT ![k] = Counted(k)],
           \A q \in Requests \ {r} : call'[q] = call[q] /\ told'[q] = told[q],
           Counting(r)' => /\ counter' = [counter EXCEPT ![k] = Counted(k)]
                           /\ call'[r].key = k
                           /\ call'[r].at = now
                           /\ call'[r].window = Counted(k).window
                           /\ call'[r].state = "refused" =>
                                  told'[r] = RetryAfter(Counted(k).expiresAt - now)
    PROVE  TimeInv'
<1>1. \A j \in Keys : counter'[j] = counter[j] \/ (j = k /\ counter'[j] = Counted(j))
  BY DEF TimeInv, LimiterTypeOK, Calls
<1>2. CounterInv'
  <2> SUFFICES ASSUME NEW j \in Keys, Live(j)'
               PROVE  now <= counter'[j].expiresAt /\ counter'[j].expiresAt <= now + Window
    BY DEF CounterInv
  <2> QED BY <1>1, CountedFacts DEF TimeInv, CounterInv, Live
<1>3. ASSUME NEW q \in Requests \ {r}, Counting(q)' PROVE Counting(q) /\ Placed(q)'
  <2>1. Counting(q) /\ call'[q] = call[q]
    BY <1>3 DEF Counting
  <2> QED BY <2>1, PlacedKeeps
<1>4. ASSUME Counting(r)' PROVE Placed(r)'
  <2>1. /\ counter'[k] = Counted(k) /\ call'[r].key = k /\ call'[r].at = now
        /\ call'[r].window = Counted(k).window
    BY <1>1, <1>4 DEF TimeInv, LimiterTypeOK, Calls
  <2>2. Live(k)' /\ counter'[k].window - call'[r].window = 0
    BY <2>1, CountedFacts DEF Live
  <2>3. now \in Nat /\ Window \in Nat /\ counter'[k].expiresAt - Window <= now
    BY <2>1, CountedFacts, Typing DEF TimeInv
  <2> QED BY <2>1, <2>2, <2>3 DEF Placed
<1>5. WindowInv'
  BY <1>3, <1>4 DEF WindowInv
<1>6. PairInv'
  <2> SUFFICES ASSUME NEW p \in Requests, NEW q \in Requests, Counting(p)', Counting(q)',
                      SameKey(p, q)', call'[p].window < call'[q].window
               PROVE  Apart(call'[p].at, call'[q].at, call'[q].window - call'[p].window - 1 - flushes)
    BY DEF PairInv
  <2>1. CASE p # r /\ q # r
    <3>1. call'[p] = call[p] /\ call'[q] = call[q]
      BY <2>1
    <3> QED BY <3>1 DEF TimeInv, PairInv, Counting, SameKey
  <2>2. CASE p = r
    <3>1. Placed(q)' /\ call'[q].key = k /\ call'[p].window = Counted(k).window
      BY <1>5, <2>2 DEF WindowInv, SameKey
    <3>2. counter'[k] = Counted(k) /\ call'[q].window \in Nat /\ Counted(k).window \in Nat
      BY <1>1, <2>2, CountedFacts DEF TimeInv, LimiterTypeOK, Calls
    <3>3. call'[q].window <= Counted(k).window
      BY <3>1, <3>2 DEF Placed
    <3> QED BY <3>1, <3>2, <3>3
  <2>3. CASE q = r /\ p # r
    <3>1. /\ Placed(p)' /\ call'[p].key = k /\ call'[q].window = Counted(k).window
          /\ call'[q].at = now /\ counter'[k] = Counted(k) /\ Live(k)'
      BY <1>1, <1>5, <2>3, CountedFacts DEF WindowInv, SameKey, TimeInv, LimiterTypeOK, Calls, Live
    <3>2. /\ call'[p].window \in Nat /\ call'[p].at \in Nat /\ now \in Nat
          /\ flushes \in Nat /\ Window \in Nat
          /\ Counted(k).window \in Nat /\ Counted(k).expiresAt \in Int
          /\ Counted(k).expiresAt - Window <= now
      BY CountedFacts, Typing DEF TimeInv, LimiterTypeOK, Calls
    <3> DEFINE d == Counted(k).window - call'[p].window - 1 - flushes
               b == Counted(k).expiresAt - Window
    <3>3. Apart(call'[p].at, b, d)
      BY <2>3, <3>1, <3>2 DEF Placed
    <3>4. b \in Int /\ d \in Int /\ b <= now
      BY <3>2
    <3> HIDE DEF b, d
    <3>5. Apart(call'[p].at, now, d)
      BY <3>2, <3>3, <3>4 DEF Apart
    <3> QED BY <2>3, <3>1, <3>5 DEF d
  <2> QED BY <2>1, <2>2, <2>3
<1>7. RefusalInv'
  <2> SUFFICES ASSUME NEW q \in Requests, NEW j \in Keys, j = call'[q].key,
                      call'[q].state = "refused",
                      Live(j)', counter'[j].window = call'[q].window
               PROVE  counter'[j].expiresAt <= call'[q].at + told'[q] * TicksPerSecond
    BY Typing DEF RefusalInv, TimeInv, LimiterTypeOK, Calls, Outcomes
  <2>1. CASE q # r
    <3>1. call'[q] = call[q] /\ told'[q] = told[q] /\ Counting(q) /\ Placed(q)
      BY <2>1 DEF TimeInv, WindowInv, Counting
    <3>2. /\ counter[j].window \in Nat /\ call[q].window \in Nat
          /\ counter[j].window - call[q].window >= 0
      BY <3>1, Typing DEF TimeInv, Placed
    <3>3. CASE Live(j) \/ counter'[j] = counter[j]
      <4>1. /\ Live(j) /\ counter'[j].window = counter[j].window
            /\ counter'[j].expiresAt = counter[j].expiresAt
        BY <1>1, <3>3, CountedFacts DEF Live
      <4> QED BY <3>1, <4>1 DEF TimeInv, RefusalInv
    <3>4. CASE ~Live(j) /\ counter'[j] = Counted(j)
      BY <3>1, <3>2, <3>4, CountedFacts
    <3> QED BY <1>1, <3>3, <3>4
  <2>2. CASE q = r
    <3>1. /\ j = k /\ counter'[j] = Counted(k) /\ call'[q].at = now
          /\ told'[q] = RetryAfter(Counted(k).expiresAt - now)
      BY <1>1, <2>2 DEF Counting, TimeInv, LimiterTypeOK, Calls
    <3>2. /\ Counted(k).expiresAt - now \in 0 .. Window
          /\ Counted(k).expiresAt \in Int /\ now \in Nat
      BY CountedFacts, Typing DEF TimeInv
    <3>3. /\ told'[q] \in Nat
          /\ told'[q] * TicksPerSecond >= Counted(k).expiresAt - now
      BY <3>1, <3>2, RetryAfterCovers
    <3> QED BY <3>1, <3>2, <3>3 DEF TicksPerSecond
  <2> QED BY <2>1, <2>2
<1> QED BY <1>2, <1>5, <1>6, <1>7 DEF TimeInv

\* An admitted call is numbered by the counter it was given.
LEMMA NumbersGrow ==
    ASSUME TimeInv, NumberInv, NEW r \in Requests, NEW k \in Keys,
           counter' = counter \/ counter' = [counter EXCEPT ![k] = Counted(k)],
           \A q \in Requests \ {r} : call'[q] = call[q],
           call'[r].state = "admitted" => /\ counter' = [counter EXCEPT ![k] = Counted(k)]
                                          /\ Counted(k).count <= Limit
                                          /\ call'[r].key = k
                                          /\ call'[r].window = Counted(k).window
    PROVE  NumberInv'
<1>1. \A j \in Keys : counter'[j] = counter[j] \/ (j = k /\ counter'[j] = Counted(j))
  BY DEF TimeInv, LimiterTypeOK, Calls
<1>2. PICK nth \in [Requests -> 1 .. Limit] : Numbers(nth)
  BY DEF NumberInv
\* The other calls keep their numbers.
<1>3. ASSUME NEW q \in Requests \ {r}, call[q].state = "admitted",
             NEW j \in Keys, j = call[q].key, Live(j)', counter'[j].window = call[q].window
      PROVE  nth[q] <= counter'[j].count /\ (counter'[j] = Counted(j) => nth[q] < counter'[j].count)
  <2>1. Placed(q) /\ counter[j].window - call[q].window >= 0
    BY <1>3 DEF TimeInv, WindowInv, Counting, Placed
  <2>2. /\ counter[j].window \in Nat /\ call[q].window \in Nat /\ counter[j].count \in Nat
        /\ nth[q] \in Nat
    BY Typing DEF TimeInv
  <2>3. CASE Live(j)
    <3>1. nth[q] <= counter[j].count
      <4>1. counter[j].window = call[q].window
        BY <1>1, <1>3, <2>3, CountedFacts
      <4> QED BY <1>2, <1>3, <2>3, <4>1 DEF Numbers
    <3> QED BY <1>1, <2>2, <2>3, <3>1, CountedFacts
  <2>4. CASE ~Live(j)
    <3>1. counter'[j].window = counter[j].window + 1
      BY <1>1, <1>3, <2>4, CountedFacts DEF Live
    <3> QED BY <1>3, <2>1, <2>2, <3>1
  <2> QED BY <2>3, <2>4
<1>4. CASE call'[r].state # "admitted"
  <2>1. Numbers(nth)'
    <3>1. ASSUME NEW q \in Requests, call'[q].state = "admitted"
          PROVE  q \in Requests \ {r} /\ call'[q] = call[q] /\ call[q].key \in Keys
      BY <1>4, <3>1, Typing DEF TimeInv, Counting
    <3> QED BY <1>2, <1>3, <3>1 DEF Numbers, SameKey
  <2> QED BY <2>1 DEF NumberInv
<1>5. CASE call'[r].state = "admitted"
  <2>1. Counted(k).count \in 1 .. Limit /\ counter'[k] = Counted(k)
    BY <1>5, CountedFacts DEF TimeInv, LimiterTypeOK, Calls
  <2>2. PICK mth \in [Requests -> 1 .. Limit] :
            /\ mth[r] = Counted(k).count
            /\ \A q \in Requests \ {r} : mth[q] = nth[q]
    <3>1. [nth EXCEPT ![r] = Counted(k).count] \in [Requests -> 1 .. Limit]
      BY <2>1
    <3> QED BY <3>1
  <2>3. ASSUME NEW q \in Requests \ {r}, call'[q].state = "admitted"
        PROVE  /\ call'[q] = call[q] /\ call[q].key \in Keys
               /\ call[q].key = k /\ call[q].window = Counted(k).window => mth[q] < mth[r]
    <3>1. call'[q] = call[q] /\ call[q].key \in Keys
      BY <2>3, Typing DEF TimeInv, Counting
    <3>2. Live(k)'
      BY <2>1 DEF Live
    <3> QED BY <1>3, <2>1, <2>2, <2>3, <3>1, <3>2
  <2>4. ASSUME NEW q \in Requests, call'[q].state = "admitted",
               Live(call[q].key)', counter'[call'[q].key].window = call'[q].window
        PROVE  mth[q] <= counter'[call'[q].key].count
    <3>1. CASE q = r
      BY <1>5, <2>1, <2>2, <3>1
    <3>2. CASE q # r
      BY <1>3, <2>2, <2>3, <2>4, <3>2
    <3> QED BY <3>1, <3>2
  <2>5. ASSUME NEW p \in Requests, NEW q \in Requests,
               call'[p].state = "admitted", call'[q].state = "admitted", SameKey(p, q)',
               call'[p].window = call'[q].window, mth[p] = mth[q]
        PROVE  p = q
    <3>1. CASE p # r /\ q # r
      BY <1>2, <2>2, <2>3, <2>5, <3>1 DEF Numbers, SameKey
    <3>2. CASE p = r \/ q = r
      <4>1. \A x \in Requests : mth[x] \in Nat
        BY <2>2
      <4> QED BY <1>5, <2>1, <2>3, <2>5, <3>2, <4>1 DEF SameKey
    <3> QED BY <3>1, <3>2
  <2>6. Numbers(mth)'
    BY <2>4, <2>5 DEF Numbers
  <2> QED BY <2>2, <2>6 DEF NumberInv
<1> QED BY <1>4, <1>5

LEMMA SameTime == TimeInv /\ UNCHANGED limiterVars => TimeInv'
<1> SUFFICES ASSUME TimeInv, UNCHANGED limiterVars PROVE TimeInv'
  OBVIOUS
<1> QED
  BY DEF limiterVars, TimeInv, LimiterTypeOK, Calls, CounterInv, WindowInv, Placed, PairInv, RefusalInv,
         Counting, SameKey, Live

\* A step that changes no call leaves the numbers as they are.
LEMMA NumbersStay ==
    ASSUME TimeInv, NumberInv, UNCHANGED call,
           \A k \in Keys : /\ counter'[k].window = counter[k].window
                           /\ Live(k)' => counter'[k].count = counter[k].count
    PROVE  NumberInv'
<1>1. PICK nth \in [Requests -> 1 .. Limit] : Numbers(nth)
  BY DEF NumberInv
<1>2. \A r \in Requests : call[r].state = "admitted" => call[r].key \in Keys
  BY Typing DEF TimeInv, Counting
<1>3. Numbers(nth)'
  BY <1>1, <1>2 DEF Numbers, SameKey, Live
<1> QED BY <1>3 DEF NumberInv

\* The record of a call that arrives.
LEMMA ArrivedCall ==
    ASSUME LimiterTypeOK, NEW r \in Requests, NEW k \in Keys, Arrive(r, k)
    PROVE  /\ call' \in [Requests -> Calls]
           /\ call'[r].state = "waiting" /\ call'[r].key = k
           /\ call'[r].at = call[r].at /\ call'[r].window = call[r].window
<1>1. PICK c \in Calls : c = call[r]
  BY DEF LimiterTypeOK, Calls
<1> DEFINE d == [c EXCEPT !.state = "waiting", !.key = k]
<1>2. /\ d \in Calls /\ d.state = "waiting" /\ d.key = k
      /\ d.at = c.at /\ d.window = c.window
  BY DEF Calls, Outcomes
<1>3. call' = [call EXCEPT ![r] = d]
  BY <1>1 DEF Arrive
<1> HIDE DEF d
<1> QED BY <1>1, <1>2, <1>3 DEF LimiterTypeOK, Calls

\* A call is made, or ends.
LEMMA CallStepKeeps ==
    ASSUME LimitInv, NEW r \in Requests, CallStep(r) \/ \E k \in Keys : Arrive(r, k)
    PROVE  LimitInv'
<1>1. PICK k \in Keys : Arrive(r, k) \/ (CallStep(r) /\ k = call[r].key)
  BY Typing DEF LimitInv, TimeInv, CallStep, Decide, Resend, FailOpen, Fail, Waiting
<1>2. /\ UNCHANGED <<now, flushes>>
      /\ counter' = counter \/ counter' = [counter EXCEPT ![k] = Counted(k)]
  BY <1>1 DEF Arrive, CallStep, Decide, Resend, FailOpen, Fail
<1>3. \A q \in Requests \ {r} : call'[q] = call[q] /\ told'[q] = told[q]
  BY <1>1 DEF Arrive, CallStep, Decide, Resend, FailOpen, Fail, LimitInv, TimeInv, LimiterTypeOK, Calls
<1>4. call'[r].key = k
  <2>0. call \in [Requests -> Calls]
    BY DEF LimitInv, TimeInv, LimiterTypeOK, Calls
  <2>1. CASE Arrive(r, k)
    BY <2>1, ArrivedCall DEF LimitInv, TimeInv
  <2>2. CASE CallStep(r) /\ k = call[r].key
    <3>1. CASE Decide(r)
      BY <2>0, <2>2, <3>1 DEF Decide
    <3>2. CASE Resend(r) \/ FailOpen(r) \/ Fail(r)
      BY <2>0, <2>2, <3>2 DEF Resend, FailOpen, Fail, Calls
    <3> QED BY <2>2, <3>1, <3>2 DEF CallStep
  <2> QED BY <1>1, <2>1, <2>2
<1>5. CASE Decide(r) /\ k = call[r].key
  <2> DEFINE c == Counted(k)
             refused == Exceeds(c.count)
  <2>1. /\ c \in [count : Nat, expiresAt : Int, window : Nat]
        /\ c.expiresAt - now \in 0 .. Window
        /\ now \in Nat
    BY CountedFacts, Typing DEF LimitInv, TimeInv
  <2>2. /\ counter' = [counter EXCEPT ![k] = c]
        /\ call'[r].state = IF refused THEN "refused" ELSE "admitted"
        /\ call'[r].at = now /\ call'[r].window = c.window
        /\ told'[r] = IF refused THEN RetryAfter(c.expiresAt - now) ELSE 0
    BY <1>5 DEF Decide, LimitInv, TimeInv, LimiterTypeOK, Calls
  <2>3. refused <=> c.count > Limit
    BY DEF Exceeds
  <2> HIDE DEF c, refused
  <2>4. LimiterTypeOK'
    <3>1. told' \in [Requests -> 0 .. WindowSeconds]
      <4>1. told'[r] \in 0 .. WindowSeconds /\ DOMAIN told' = Requests
        BY <1>5, <2>1, <2>2, RetryAfterCovers DEF Decide, LimitInv, TimeInv, LimiterTypeOK, Calls
      <4>2. \A q \in Requests : told'[q] \in 0 .. WindowSeconds
        BY <1>3, <4>1 DEF LimitInv, TimeInv, LimiterTypeOK, Calls
      <4> QED BY <1>5, <4>2 DEF Decide, LimitInv, TimeInv, LimiterTypeOK, Calls
    <3>2. told'[r] > 0 <=> refused
      BY <2>1, <2>2, RetryAfterCovers
    <3>4. counter' \in [Keys -> [count : Nat, expiresAt : Int, window : Nat]]
      BY <2>1, <2>2 DEF LimitInv, TimeInv, LimiterTypeOK, Calls
    <3>5. now \in 0 .. EndOfTime /\ now' = now /\ flushes' = flushes /\ flushes \in 0 .. Flushes
      BY <1>2 DEF LimitInv, TimeInv, LimiterTypeOK, Calls
    <3>6. /\ call'[r] \in Calls
          /\ call'[r].state = "refused" <=> told'[r] > 0
      <4>1. call[r] \in Calls
        BY DEF LimitInv, TimeInv, LimiterTypeOK, Calls
      <4>2. "admitted" \in Outcomes /\ "refused" \in Outcomes /\ c.window \in Nat
        BY <2>1 DEF Outcomes
      <4> QED BY <1>5, <2>2, <3>2, <3>5, <4>1, <4>2 DEF Decide, LimitInv, TimeInv, LimiterTypeOK, Calls, c, refused
    <3>7. call' \in [Requests -> Calls]
      BY <1>3, <1>5, <3>6 DEF Decide, LimitInv, TimeInv, LimiterTypeOK, Calls
    <3>8. \A q \in Requests \ {r} :
            /\ call'[q].state # "idle" => call'[q].key \in Keys
            /\ call'[q].state = "refused" <=> told'[q] > 0
      BY <1>3 DEF LimitInv, TimeInv, LimiterTypeOK, Calls
    <3> QED BY <1>4, <2>2, <3>1, <3>4, <3>5, <3>6, <3>7, <3>8 DEF LimiterTypeOK, Calls
  <2>5. TimeInv'
    BY <1>2, <1>3, <1>4, <2>2, <2>4, CallKeeps DEF LimitInv, c
  <2>6. call'[r].state = "admitted" => c.count <= Limit
    BY <2>1, <2>2, <2>3
  <2>7. NumberInv'
    BY <1>2, <1>3, <1>4, <2>2, <2>6, NumbersGrow DEF LimitInv, c
  <2> QED BY <2>5, <2>7 DEF LimitInv
<1>6. CASE Arrive(r, k) \/ (k = call[r].key /\ (Resend(r) \/ FailOpen(r) \/ Fail(r)))
  <2>1. /\ call'[r].state \in {"waiting", "resent", "open", "failed"}
        /\ call'[r].at = call[r].at /\ call'[r].window = call[r].window
        /\ told' = told /\ call[r].state # "refused"
    <3>0. call \in [Requests -> Calls]
      BY DEF LimitInv, TimeInv, LimiterTypeOK, Calls
    <3>1. CASE Arrive(r, k)
      BY <3>1, ArrivedCall DEF Arrive, LimitInv, TimeInv
    <3>2. CASE Resend(r) \/ FailOpen(r) \/ Fail(r)
      BY <3>0, <3>2 DEF Resend, FailOpen, Fail, Waiting, Calls
    <3> QED BY <1>6, <3>1, <3>2
  <2>2. LimiterTypeOK'
    <3>1. counter' \in [Keys -> [count : Nat, expiresAt : Int, window : Nat]]
      BY <1>2, CountedFacts DEF LimitInv, TimeInv, LimiterTypeOK, Calls
    <3>2. call' \in [Requests -> Calls]
      <4>1. CASE Arrive(r, k)
        BY <4>1, ArrivedCall DEF LimitInv, TimeInv
      <4>2. CASE Resend(r) \/ FailOpen(r) \/ Fail(r)
        BY <4>2 DEF Resend, FailOpen, Fail, Outcomes, LimitInv, TimeInv, LimiterTypeOK, Calls
      <4> QED BY <1>6, <4>1, <4>2
    <3>3. /\ call'[r].key \in Keys
          /\ call'[r].state = "refused" <=> told'[r] > 0
      BY <1>4, <2>1 DEF LimitInv, TimeInv, LimiterTypeOK, Calls
    <3>4. \A q \in Requests \ {r} :
            /\ call'[q].state # "idle" => call'[q].key \in Keys
            /\ call'[q].state = "refused" <=> told'[q] > 0
      BY <1>3 DEF LimitInv, TimeInv, LimiterTypeOK, Calls
    <3> QED BY <1>2, <2>1, <3>1, <3>2, <3>3, <3>4 DEF LimitInv, TimeInv, LimiterTypeOK, Calls
  <2>3. ~Counting(r)' /\ call'[r].state # "admitted"
    BY <2>1 DEF Counting
  <2>4. TimeInv'
    BY <1>2, <1>3, <2>2, <2>3, CallKeeps DEF LimitInv
  <2>5. NumberInv'
    BY <1>2, <1>3, <2>3, NumbersGrow DEF LimitInv
  <2> QED BY <2>4, <2>5 DEF LimitInv
<1> QED BY <1>1, <1>5, <1>6 DEF CallStep

\* The strengthened invariant is an invariant.
THEOREM Invariant == LimiterSpec => []LimitInv
<1>1. ASSUME LimitInv, LimiterTick PROVE LimitInv'
  <2>1. TimeInv'
    BY <1>1, TickKeeps DEF LimitInv
  <2>2. \A k \in Keys : /\ counter'[k].window = counter[k].window
                        /\ Live(k)' => counter'[k].count = counter[k].count
    BY <1>1, GoneKeeps DEF LimiterTick, LimitInv, TimeInv, Live
  <2> QED BY <1>1, <2>1, <2>2, NumbersStay DEF LimiterTick, LimitInv
<1>2. ASSUME LimitInv, Flush PROVE LimitInv'
  <2>1. TimeInv'
    BY <1>2, FlushKeeps DEF LimitInv
  <2>2. \A k \in Keys : counter'[k].window = counter[k].window /\ ~Live(k)'
    BY <1>2, GoneKeeps DEF Flush, LimitInv, TimeInv, Live
  <2> QED BY <1>2, <2>1, <2>2, NumbersStay DEF Flush, LimitInv
<1>3. ASSUME LimitInv, UNCHANGED limiterVars PROVE LimitInv'
  BY <1>3, SameTime, NumbersStay DEF LimitInv, limiterVars, Live
<1>4. LimitInv /\ [LimiterNext]_limiterVars => LimitInv'
  BY <1>1, <1>2, <1>3, CallStepKeeps DEF LimiterNext
<1> QED BY <1>4, InitLimit, PTL DEF LimiterSpec

-----------------------------------------------------------------------------
(* The theorems.                                                           *)

\* Every state is well typed; no caller is told to wait longer than a window.
THEOREM TypeCorrect == LimiterSpec => []LimiterTypeOK
<1>1. LimitInv => LimiterTypeOK
  BY DEF LimitInv, TimeInv
<1> QED BY <1>1, Invariant, PTL

\* Who waits as long as told never meets the window that refused it.
THEOREM WaitingSuffices == LimiterSpec => []RetryAfterSuffices
<1>1. LimitInv => RetryAfterSuffices
  <2> SUFFICES ASSUME LimitInv, NEW r \in Requests, NEW k \in Keys, k = call[r].key,
                      call[r].state = "refused", now > call[r].at + told[r] * TicksPerSecond,
                      Live(k), counter[k].window = call[r].window
               PROVE  FALSE
    BY Typing DEF RetryAfterSuffices, LimitInv, TimeInv, Counting
  <2>1. /\ counter[k].expiresAt <= call[r].at + told[r] * TicksPerSecond
        /\ now <= counter[k].expiresAt
    BY DEF LimitInv, TimeInv, RefusalInv, CounterInv
  <2>2. now \in Nat /\ counter[k].expiresAt \in Int /\ call[r].at \in Nat /\ told[r] \in Nat
    BY Typing DEF LimitInv, TimeInv
  <2> QED BY <2>1, <2>2 DEF TicksPerSecond
<1> QED BY <1>1, Invariant, PTL

\* The least-number principle, for a set.
LEMMA HasLeast ==
    ASSUME NEW T, T \subseteq Nat, T # {}
    PROVE  \E x \in T : \A y \in T : x <= y
<1> DEFINE R == {ss \in Nat \X Nat : ss[1] < ss[2]}
<1>1. IsWellFoundedOn(R, Nat)
  BY NatLessThanWellFounded DEF OpToRel
<1> HIDE DEF R
<1>2. PICK x \in T : \A y \in T : <<y, x>> \notin R
  BY <1>1, WFMin
<1>3. \A y \in T : ~(y < x)
  BY <1>2 DEF R
<1> QED BY <1>3

\* Calls of one key within a window's length lie in as many windows as there
\* were flushes, and two.
LEMMA WindowsAreNear ==
    ASSUME TimeInv, NEW r \in Requests, NEW q \in Requests,
           Counting(r), Counting(q), SameKey(r, q),
           call[q].at < call[r].at + Window
    PROVE  call[q].window <= call[r].window + 1 + flushes
<1>1. /\ call[q].window \in Nat /\ call[r].window \in Nat /\ flushes \in Nat
      /\ call[q].at \in Nat /\ call[r].at \in Nat /\ Window \in Nat \ {0}
  BY Typing DEF TimeInv
<1> SUFFICES ASSUME call[q].window > call[r].window + 1 + flushes PROVE FALSE
  BY <1>1
<1> DEFINE d == call[q].window - call[r].window - 1 - flushes
<1>2. d \in Nat /\ d >= 1 /\ call[r].window < call[q].window
  BY <1>1
<1>3. Apart(call[r].at, call[q].at, d)
  BY <1>2 DEF TimeInv, PairInv
<1> HIDE DEF d
<1>4. Apart(call[r].at, call[q].at, 1)
  <2>1. /\ 1 \in Int /\ d \in Int /\ 1 <= d /\ call[r].at \in Int /\ call[q].at \in Int
        /\ call[q].at >= call[q].at
    BY <1>1, <1>2
  <2> QED BY <1>3, <2>1, ApartShrinks
<1> QED BY <1>1, <1>4 DEF Apart

\* Within a window's length at most twice the limit is admitted, and the limit
\* once more for each time Redis lost its data: the windows that can be
\* touched, times the numbers each can give.
THEOREM BurstsAreBounded == LimiterSpec => []BurstIsBounded
<1>1. ASSUME LimitInv PROVE BurstIsBounded
  <2> SUFFICES ASSUME NEW k \in Keys, NEW end \in 0 .. EndOfTime
               PROVE  LET B == {r \in Requests : /\ call[r].state = "admitted" /\ call[r].key = k
                                                /\ call[r].at <= end /\ end < call[r].at + Window}
                      IN  Cardinality(B) <= Limit * (2 + flushes)
    BY DEF BurstIsBounded
  <2> DEFINE B == {r \in Requests : /\ call[r].state = "admitted" /\ call[r].key = k
                                   /\ call[r].at <= end /\ end < call[r].at + Window}
             T == {call[r].window : r \in B}
  <2>1. PICK nth \in [Requests -> 1 .. Limit] : Numbers(nth)
    BY <1>1 DEF LimitInv, NumberInv
  <2>2. /\ flushes \in Nat /\ Window \in Nat /\ T \subseteq Nat
        /\ \A r \in B : r \in Requests /\ Counting(r) /\ call[r].at \in Nat /\ call[r].window \in Nat
    BY <1>1, Typing DEF LimitInv, TimeInv, Counting
  <2>3. CASE B = {}
    <3>1. Cardinality(B) = 0
      BY <2>3, FS_EmptySet
    <3> QED BY <2>2, <3>1
  <2>4. CASE B # {}
    <3>1. PICK first \in B : \A r \in B : call[first].window <= call[r].window
      <4>1. T # {} /\ T \subseteq Nat
        BY <2>2, <2>4
      <4>2. \A r \in B : call[r].window \in T
        OBVIOUS
      <4>3. \A w \in T : \E r \in B : w = call[r].window
        OBVIOUS
      <4> HIDE DEF T, B
      <4>4. PICK w \in T : \A v \in T : w <= v
        BY <4>1, HasLeast
      <4> QED BY <4>2, <4>3, <4>4
    <3> DEFINE lo == call[first].window
               hi == call[first].window + 1 + flushes
               S == (lo .. hi) \X (1 .. Limit)
               f == [r \in B |-> <<call[r].window, nth[r]>>]
    <3>2. \A r \in B : call[r].window \in lo .. hi
      <4> SUFFICES ASSUME NEW r \in B PROVE call[r].window \in lo .. hi
        OBVIOUS
      <4>1. SameKey(first, r) /\ call[r].at < call[first].at + Window
        BY <2>2 DEF SameKey
      <4>2. call[r].window <= hi
        BY <1>1, <2>2, <4>1, WindowsAreNear DEF LimitInv
      <4> QED BY <2>2, <3>1, <4>2
    <3>3. f \in Injection(B, S)
      <4>1. f \in [B -> S]
        BY <2>1, <3>2
      <4>2. \A r, q \in B : f[r] = f[q] => r = q
        BY <2>1 DEF Numbers, SameKey
      <4> HIDE DEF f, S, B
      <4> QED BY <4>1, <4>2, Fun_IsInj
    <3>4. IsFiniteSet(S) /\ Cardinality(S) = (2 + flushes) * Limit
      <4>1. lo \in Int /\ hi \in Int /\ lo <= hi /\ hi - lo + 1 = 2 + flushes
        BY <2>2
      <4> HIDE DEF lo, hi
      <4>2. IsFiniteSet(lo .. hi) /\ Cardinality(lo .. hi) = 2 + flushes
        <5>1. ~(lo > hi)
          BY <4>1
        <5> QED BY <4>1, <5>1, FS_Interval
      <4>3. IsFiniteSet(1 .. Limit) /\ Cardinality(1 .. Limit) = Limit
        <5>1. 1 \in Int /\ Limit \in Int /\ ~(1 > Limit) /\ Limit - 1 + 1 = Limit
          OBVIOUS
        <5> QED BY <5>1, FS_Interval
      <4> QED BY <4>2, <4>3, FS_Product
    <3> HIDE DEF f, S
    <3>5. Cardinality(B) <= Cardinality(S)
      BY <3>3, <3>4, FS_Injection
    <3> QED BY <2>2, <3>4, <3>5
  <2> QED BY <2>3, <2>4
<1> QED BY <1>1, Invariant, PTL

=============================================================================
