-------------------------- MODULE RateLimiterProofs --------------------------
(***************************************************************************)
(* What the rate limiter admits, proved for every limit, window and set of *)
(* keys: an attempt a counter admits is one it has counted, its count is   *)
(* then at most the limit, and a stretch of one window meets two counters. *)
(***************************************************************************)
EXTENDS RateLimiter, AttemptCounterProofs

USE LimitAssumption DEF Over, Spanned, Ages

\* Nothing has been admitted before the first counter exists.
LEMMA InitAccount == Init => Account
BY DEF Init, Account, TypeOK, Accounted

\* What admitting an attempt does to the tallies.
LEMMA AdmitTypes ==
  ASSUME TypeOK, NEW k \in Keys, Admit(k)
  PROVE  /\ life' \in [Keys -> 0 .. Spanned]
         /\ recent' \in [Keys -> [Ages -> 0 .. Spanned]]
         /\ \A j \in Keys \ {k} : life'[j] = life[j]
         /\ life'[k] <= IF counter[k] = NoCounter THEN 1 ELSE life[k] + 1
<1> DEFINE sum == IF counter[k] = NoCounter THEN 1 ELSE life[k] + 1
<1>1. sum \in Nat /\ Spanned \in Nat
  BY DEF TypeOK
<1>2. Capped(sum, Spanned) \in 0 .. Spanned /\ Capped(sum, Spanned) <= sum
  BY <1>1, CappedBound
<1>3. life' = [life EXCEPT ![k] = Capped(sum, Spanned)]
  BY DEF Admit
<1>4. /\ life' \in [Keys -> 0 .. Spanned]
      /\ \A j \in Keys \ {k} : life'[j] = life[j]
      /\ life'[k] <= sum
  BY <1>2, <1>3 DEF TypeOK
<1>5. recent' \in [Keys -> [Ages -> 0 .. Spanned]]
  <2>1. ASSUME NEW a \in Ages PROVE Capped(recent[k][a] + 1, Spanned) \in 0 .. Spanned
    <3>1. recent[k][a] + 1 \in Nat
      BY DEF TypeOK
    <3>2. QED
      BY <1>1, <3>1, CappedBound
  <2>2. [a \in Ages |-> Capped(recent[k][a] + 1, Spanned)] \in [Ages -> 0 .. Spanned]
    BY <2>1
  <2>3. QED
    BY <2>2 DEF Admit, TypeOK
<1>6. QED
  BY <1>4, <1>5

\* An attempt Redis counted.
LEMMA CountedAttemptAccount ==
  ASSUME Account, NEW k \in Keys, CountedAttempt(k)
  PROVE  Account'
<1> DEFINE new == Counted(counter[k])
<1>1. TypeOK /\ counter[k] \in Counter \cup {NoCounter}
  BY DEF Account, TypeOK
<1>2. /\ new \in Counter
      /\ counter[k] = NoCounter => new.n = 1
      /\ counter[k] # NoCounter /\ new.n <= Limit => new.n = counter[k].n + 1
      /\ counter[k] # NoCounter => new.n >= counter[k].n
  BY <1>1, CountedIsCounter
<1>3. /\ counter' = [counter EXCEPT ![k] = new]
      /\ counter' \in [Keys -> Counter \cup {NoCounter}]
      /\ counter'[k] = new /\ counter'[k] # NoCounter
      /\ \A j \in Keys \ {k} : counter'[j] = counter[j]
  BY <1>1, <1>2, CounterIsNotNone DEF CountedAttempt, Count, TypeOK
<1>4. new.n \in Nat /\ (counter[k] # NoCounter => counter[k].n \in Nat)
  BY <1>1, <1>2 DEF Counter
<1>5. CASE Refused(new.n)
  <2>1. UNCHANGED <<life, recent>>
    BY <1>5 DEF CountedAttempt
  <2>2. TypeOK'
    BY <1>1, <1>3, <2>1 DEF TypeOK
  <2>3. ASSUME NEW j \in Keys PROVE Accounted(j)'
    <3>1. Accounted(j)
      BY <2>3 DEF Account
    <3>2. CASE j # k
      BY <1>3, <2>1, <3>1, <3>2 DEF Accounted
    <3>3. CASE j = k
      <4>1. life[k] \in Nat
        BY <1>1 DEF TypeOK
      <4>2. life[k] <= new.n /\ life[k] <= Limit
        BY <1>2, <1>4, <3>1, <3>3, <4>1 DEF Accounted
      <4>3. QED
        BY <1>3, <2>1, <3>3, <4>2 DEF Accounted
    <3>4. QED
      BY <3>2, <3>3
  <2>4. QED
    BY <2>2, <2>3 DEF Account
<1>6. CASE ~Refused(new.n)
  <2>1. Admit(k) /\ new.n <= Limit
    BY <1>4, <1>6 DEF CountedAttempt, Refused
  <2>2. /\ TypeOK'
        /\ \A j \in Keys \ {k} : life'[j] = life[j]
        /\ life'[k] <= IF counter[k] = NoCounter THEN 1 ELSE life[k] + 1
    BY <1>1, <1>3, <2>1, AdmitTypes DEF TypeOK
  <2>3. ASSUME NEW j \in Keys PROVE Accounted(j)'
    <3>1. Accounted(j)
      BY <2>3 DEF Account
    <3>2. CASE j # k
      BY <1>3, <2>2, <3>1, <3>2 DEF Accounted
    <3>3. CASE j = k
      <4>1. life[k] \in Nat /\ life'[k] \in Nat
        BY <1>1, <2>2 DEF TypeOK
      <4>2. life'[k] <= new.n
        BY <1>2, <1>4, <2>1, <2>2, <3>1, <3>3, <4>1 DEF Accounted
      <4>3. QED
        BY <1>3, <1>4, <2>1, <3>3, <4>1, <4>2 DEF Accounted
    <3>4. QED
      BY <3>2, <3>3
  <2>4. QED
    BY <2>2, <2>3 DEF Account
<1>7. QED
  BY <1>5, <1>6

\* An attempt Redis failed to count: if anything, the counter moved up.
LEMMA UncountedAttemptAccount ==
  ASSUME Account, NEW k \in Keys, UncountedAttempt(k)
  PROVE  Account'
<1> DEFINE new == Counted(counter[k])
<1>1. TypeOK /\ UNCHANGED <<life, recent>> /\ counter[k] \in Counter \cup {NoCounter}
  BY DEF Account, UncountedAttempt, TypeOK
<1>2. new \in Counter /\ (counter[k] # NoCounter => new.n >= counter[k].n)
  BY <1>1, CountedIsCounter
<1>3. CASE UNCHANGED counter
  BY <1>1, <1>3 DEF Account, TypeOK, Accounted
<1>4. CASE Count(k)
  <2>1. /\ counter' = [counter EXCEPT ![k] = new]
        /\ counter' \in [Keys -> Counter \cup {NoCounter}]
        /\ counter'[k] = new /\ new # NoCounter
        /\ \A j \in Keys \ {k} : counter'[j] = counter[j]
    BY <1>1, <1>2, <1>4, CounterIsNotNone DEF Count, TypeOK
  <2>2. life[k] \in Nat /\ new.n \in Nat \ {0} /\ (counter[k] # NoCounter => counter[k].n \in Nat)
    BY <1>1, <1>2 DEF TypeOK, Counter
  <2>3. Accounted(k)'
    BY <1>1, <1>2, <2>1, <2>2 DEF Account, Accounted
  <2>4. ASSUME NEW j \in Keys \ {k} PROVE Accounted(j)'
    BY <1>1, <2>1, <2>4 DEF Account, Accounted
  <2>5. TypeOK'
    BY <1>1, <2>1 DEF TypeOK
  <2>6. QED
    BY <2>3, <2>4, <2>5 DEF Account
<1>5. QED
  BY <1>3, <1>4 DEF UncountedAttempt

\* A tick.
LEMMA TickAccount == Account /\ Tick => Account'
<1> SUFFICES ASSUME Account, Tick PROVE Account'
  OBVIOUS
<1>1. TypeOK
  BY DEF Account
<1>2. ASSUME NEW k \in Keys
      PROVE  /\ counter'[k] = Older(counter[k])
             /\ Older(counter[k]) \in Counter \cup {NoCounter}
             /\ Older(counter[k]) # NoCounter =>
                  counter[k] # NoCounter /\ Older(counter[k]).n = counter[k].n
             /\ life'[k] = IF Older(counter[k]) = NoCounter THEN 0 ELSE life[k]
  <2>1. counter[k] \in Counter \cup {NoCounter}
    BY <1>1 DEF TypeOK
  <2>2. QED
    BY <2>1, OlderIsCounter DEF Tick
<1>3. counter' \in [Keys -> Counter \cup {NoCounter}]
  BY <1>2 DEF Tick
<1>4. life' \in [Keys -> 0 .. Spanned]
  BY <1>1 DEF Tick, TypeOK
<1>5. recent' \in [Keys -> [Ages -> 0 .. Spanned]]
  <2>1. \A k \in Keys, a \in Ages : a # 0 => a - 1 \in Ages
    OBVIOUS
  <2>2. QED
    BY <1>1, <2>1 DEF Tick, TypeOK
<1>6. ASSUME NEW k \in Keys PROVE Accounted(k)'
  <2>1. Accounted(k)
    BY <1>6 DEF Account
  <2>2. QED
    BY <1>2, <2>1 DEF Accounted
<1>7. QED
  BY <1>3, <1>4, <1>5, <1>6 DEF Account, TypeOK

-----------------------------------------------------------------------------
(* How the counters follow each other. *)

\* A tally that is at most twice the limit is not saturated by one more.
LEMMA TalliesAreSmall ==
  ASSUME IInv, NEW k \in Keys
  PROVE  /\ LastWindow(k) <= 2 * Limit
         /\ \A a \in Ages : recent[k][a] \in Nat /\ recent[k][a] <= 2 * Limit
<1>1. TypeOK /\ Accounted(k) /\ Meets(k)
  BY DEF IInv, Account
<1>2. Window - 1 \in Ages /\ \A a \in Ages : recent[k][a] \in Nat
  BY <1>1 DEF TypeOK
<1>3. LastWindow(k) <= 2 * Limit
  <2>1. CASE counter[k] = NoCounter
    BY <1>1, <1>2, <2>1 DEF Meets, LastWindow
  <2>2. CASE counter[k] # NoCounter
    <3>1. counter[k] \in Counter
      BY <1>1, <2>2 DEF TypeOK
    <3>2. Began(k) \in Ages
      BY <3>1 DEF Began, Counter
    <3>3. life[k] \in Nat /\ life[k] <= Limit
      BY <1>1, <2>2 DEF TypeOK, Accounted
    <3>4. recent[k][Began(k)] <= life[k] /\ LastWindow(k) <= recent[k][Began(k)] + Limit
      BY <1>1, <2>2 DEF Meets
    <3>5. QED
      BY <1>2, <3>2, <3>3, <3>4 DEF LastWindow
  <2>3. QED
    BY <2>1, <2>2
<1>4. ASSUME NEW a \in Ages PROVE recent[k][a] <= 2 * Limit
  <2>1. recent[k][a] <= recent[k][Window - 1]
    BY <1>1, <1>2 DEF Meets
  <2>2. QED
    BY <1>2, <1>3, <2>1 DEF LastWindow
<1>5. QED
  BY <1>2, <1>3, <1>4

\* Without any admission yet, there is nothing to meet.
LEMMA InitMeets == ASSUME Init, NEW k \in Keys PROVE Meets(k)
BY DEF Init, Meets, LastWindow

\* A key nothing happened to.
LEMMA UntouchedMeets ==
  ASSUME NEW k \in Keys, Meets(k),
         counter'[k] = counter[k], life'[k] = life[k], recent'[k] = recent[k]
  PROVE  Meets(k)'
BY DEF Meets, Began, LastWindow

\* An increment that admits nothing: a new counter has begun in this tick, which
\* has no admission yet, and what the window holds is the old one's.
LEMMA CountMeets ==
  ASSUME TypeOK, NEW k \in Keys, Meets(k), Count(k),
         UNCHANGED <<life, recent>>
  PROVE  Meets(k)'
<1>1. counter[k] \in Counter \cup {NoCounter} /\ counter'[k] = Counted(counter[k])
  BY DEF TypeOK, Count
<1>2. CASE counter[k] = NoCounter
  <2>1. counter'[k] # NoCounter /\ Began(k)' = 0
    BY <1>1, <1>2, NoCounterIsApart, CountedIsCounter, CounterIsNotNone DEF Counted, Began
  <2>2. recent[k][0] = 0 /\ LastWindow(k) <= Limit /\ life[k] \in Nat
    BY <1>2 DEF Meets, TypeOK
  <2>3. QED
    BY <2>1, <2>2 DEF Meets, LastWindow
<1>3. CASE counter[k] # NoCounter
  <2>1. counter'[k] # NoCounter /\ Began(k)' = Began(k)
    BY <1>1, <1>3, CountedIsCounter, CounterIsNotNone DEF Counted, Counter, Began
  <2>2. QED
    BY <1>3, <2>1 DEF Meets, LastWindow
<1>4. QED
  BY <1>2, <1>3

\* An admission moves every tally of the key up by one, as it does its life.
LEMMA AdmitMeets ==
  ASSUME IInv, NEW k \in Keys, Count(k), Admit(k), ~Refused(Counted(counter[k]).n)
  PROVE  Meets(k)'
<1>1. TypeOK /\ Accounted(k) /\ Meets(k)
  BY DEF IInv, Account
<1>2. counter[k] \in Counter \cup {NoCounter} /\ counter'[k] = Counted(counter[k])
  BY <1>1 DEF TypeOK, Count
<1>3. \A a \in Ages : recent[k][a] \in Nat /\ recent'[k][a] = recent[k][a] + 1
  <2>1. TAKE a \in Ages
  <2>2. recent'[k][a] = Capped(recent[k][a] + 1, Spanned)
    BY <1>1 DEF Admit, TypeOK
  <2>3. recent[k][a] + 1 <= Spanned /\ recent[k][a] \in Nat
    BY TalliesAreSmall
  <2>4. QED
    BY <2>2, <2>3, CappedBound
<1>4. 0 \in Ages /\ Window - 1 \in Ages
  OBVIOUS
<1>5. \A a, b \in Ages : a <= b => recent'[k][a] <= recent'[k][b]
  BY <1>1, <1>3 DEF Meets
<1>6. LastWindow(k)' = LastWindow(k) + 1 /\ LastWindow(k) \in Nat
  BY <1>3, <1>4 DEF LastWindow
<1>7. CASE counter[k] = NoCounter
  <2>1. counter'[k] # NoCounter /\ Began(k)' = 0
    BY <1>2, <1>7, NoCounterIsApart, CountedIsCounter, CounterIsNotNone DEF Counted, Began
  <2>2. recent[k][0] = 0 /\ LastWindow(k) <= Limit
    BY <1>1, <1>7 DEF Meets
  <2>3. life'[k] = 1
    <3>1. life'[k] = Capped(1, Spanned)
      BY <1>1, <1>7 DEF Admit, TypeOK
    <3>2. QED
      BY <3>1 DEF Capped
  <2>4. recent'[k][0] = 1
    BY <1>3, <1>4, <2>2
  <2>5. QED
    BY <1>5, <1>6, <2>1, <2>2, <2>3, <2>4 DEF Meets
<1>8. CASE counter[k] # NoCounter
  <2> DEFINE a == Began(k)
  <2>1. counter'[k] # NoCounter /\ Began(k)' = a /\ a \in Ages
    BY <1>2, <1>8, CountedIsCounter, CounterIsNotNone DEF Counted, Counter, Began
  <2>2. recent[k][a] <= life[k] /\ LastWindow(k) <= recent[k][a] + Limit /\ life[k] \in Nat
    BY <1>1, <1>8 DEF Meets, TypeOK
  <2>3. life'[k] = life[k] + 1
    <3>1. life'[k] = Capped(life[k] + 1, Spanned)
      BY <1>1, <1>8 DEF Admit, TypeOK
    <3>2. life[k] + 1 <= Spanned /\ life[k] + 1 \in Nat /\ Spanned \in Nat
      BY <1>1, <1>8, <2>2 DEF Accounted
    <3>3. QED
      BY <3>1, <3>2, CappedBound
  <2> HIDE DEF a
  <2>4. recent'[k][a] = recent[k][a] + 1 /\ recent[k][a] \in Nat
    BY <1>3, <2>1
  <2>5. recent'[k][a] <= life'[k] /\ LastWindow(k)' <= recent'[k][a] + Limit
    BY <1>6, <2>2, <2>3, <2>4
  <2>6. QED
    BY <1>5, <2>1, <2>5 DEF Meets
<1>9. QED
  BY <1>7, <1>8

\* A tick moves every tally one tick into the past, and a counter begins one
\* tick earlier or has run out, when all of the window was its own.
LEMMA TickMeets ==
  ASSUME IInv, Tick, NEW k \in Keys
  PROVE  Meets(k)'
<1>1. TypeOK /\ Accounted(k) /\ Meets(k)
  BY DEF IInv, Account
<1>2. /\ counter[k] \in Counter \cup {NoCounter} /\ counter'[k] = Older(counter[k])
      /\ life'[k] = IF Older(counter[k]) = NoCounter THEN 0 ELSE life[k]
  BY <1>1 DEF TypeOK, Tick
<1>3. \A a \in Ages : recent[k][a] \in Nat /\ recent'[k][a] = IF a = 0 THEN 0 ELSE recent[k][a - 1]
  BY <1>1 DEF TypeOK, Tick
<1>4. Window - 1 \in Ages /\ 0 \in Ages /\ \A a \in Ages : a # 0 => a - 1 \in Ages
  OBVIOUS
<1>5. \A a, b \in Ages : a <= b => recent'[k][a] <= recent'[k][b]
  <2>1. TAKE a \in Ages, b \in Ages
  <2>2. HAVE a <= b
  <2>3. CASE a = 0
    BY <1>3, <1>4, <2>3
  <2>4. CASE a # 0
    <3>1. b # 0 /\ a - 1 \in Ages /\ b - 1 \in Ages /\ a - 1 <= b - 1
      BY <2>2, <2>4
    <3>2. QED
      BY <1>1, <1>3, <2>4, <3>1 DEF Meets
  <2>5. QED
    BY <2>3, <2>4
<1>6. recent'[k][0] = 0 /\ LastWindow(k)' <= LastWindow(k) /\ LastWindow(k) \in Nat /\ LastWindow(k)' \in Nat
  <2>1. recent'[k][0] = 0
    BY <1>3, <1>4
  <2>2. CASE Window = 1
    BY <1>3, <1>4, <2>2 DEF LastWindow
  <2>3. CASE Window # 1
    <3>1. recent'[k][Window - 1] = recent[k][Window - 2] /\ Window - 2 \in Ages
      BY <1>3, <1>4, <2>3
    <3>2. recent[k][Window - 2] <= recent[k][Window - 1]
      BY <1>1, <1>4, <3>1 DEF Meets
    <3>3. QED
      BY <1>3, <1>4, <2>1, <3>1, <3>2 DEF LastWindow
  <2>4. QED
    BY <2>1, <2>2, <2>3
<1>7. CASE counter[k] = NoCounter
  <2>1. counter'[k] = NoCounter /\ LastWindow(k) <= Limit
    BY <1>1, <1>2, <1>7 DEF Older, Meets
  <2>2. QED
    BY <1>5, <1>6, <2>1 DEF Meets
<1>8. CASE counter[k] # NoCounter
  <2> DEFINE a == Began(k)
  <2>1. counter[k] \in Counter /\ a \in Ages
    BY <1>2, <1>8 DEF Counter, Began
  <2>2. recent[k][a] <= life[k] /\ LastWindow(k) <= recent[k][a] + Limit
    BY <1>1, <1>8 DEF Meets
  <2>3. life[k] \in Nat /\ life[k] <= Limit
    BY <1>1, <1>8 DEF TypeOK, Accounted
  <2>4. CASE counter[k].ttl = 1
    <3>1. counter'[k] = NoCounter /\ a = Window - 1
      BY <1>2, <2>4 DEF Older, Began
    <3>2. LastWindow(k) <= Limit
      BY <1>6, <2>2, <2>3, <3>1 DEF LastWindow
    <3>3. QED
      BY <1>5, <1>6, <3>1, <3>2 DEF Meets
  <2>5. CASE counter[k].ttl # 1
    <3>1. counter'[k] = [counter[k] EXCEPT !.ttl = counter[k].ttl - 1]
      BY <1>2, <1>8, <2>5 DEF Older
    <3>2. counter'[k] \in Counter /\ counter'[k].ttl = counter[k].ttl - 1
      BY <2>1, <2>5, <3>1 DEF Counter
    <3>3. counter'[k] # NoCounter /\ Began(k)' = a + 1 /\ a + 1 \in Ages
      BY <2>1, <3>2, CounterIsNotNone DEF Counter, Began
    <3>4. life'[k] = life[k]
      BY <1>2, <3>3
    <3> HIDE DEF a
    <3>5. recent'[k][a + 1] = recent[k][a] /\ recent[k][a] \in Nat
      BY <1>3, <2>1, <3>3
    <3>6. recent'[k][a + 1] <= life'[k] /\ LastWindow(k)' <= recent'[k][a + 1] + Limit
      BY <1>6, <2>2, <3>4, <3>5
    <3>7. QED
      BY <1>5, <3>3, <3>6 DEF Meets
  <2>6. QED
    BY <2>4, <2>5
<1>9. QED
  BY <1>7, <1>8

\* Every attempt keeps the way the counters meet, for its key and the others.
LEMMA AttemptMeets ==
  ASSUME IInv, NEW k \in Keys, Attempt(k), NEW j \in Keys
  PROVE  Meets(j)'
<1>1. TypeOK /\ Meets(j) /\ Meets(k)
  BY DEF IInv, Account
<1>2. CASE j = k
  <2>1. CASE CountedAttempt(k)
    <3>1. CASE Refused(Counted(counter[k]).n)
      BY <1>1, <1>2, <2>1, <3>1, CountMeets DEF CountedAttempt
    <3>2. CASE ~Refused(Counted(counter[k]).n)
      BY <1>2, <2>1, <3>2, AdmitMeets DEF CountedAttempt
    <3>3. QED
      BY <3>1, <3>2
  <2>2. CASE UncountedAttempt(k)
    BY <1>1, <1>2, <2>2, CountMeets, UntouchedMeets DEF UncountedAttempt
  <2>3. QED
    BY <2>1, <2>2 DEF Attempt
<1>3. CASE j # k
  <2>1. counter'[j] = counter[j] /\ life'[j] = life[j] /\ recent'[j] = recent[j]
    BY <1>1, <1>3 DEF Attempt, CountedAttempt, UncountedAttempt, Count, Admit, TypeOK
  <2>2. QED
    BY <1>1, <2>1, UntouchedMeets
<1>4. QED
  BY <1>2, <1>3

-----------------------------------------------------------------------------
(* The limiter. *)

\* The account is kept for ever: every counter has counted what it admitted, and
\* follows the one before it by no less than a window, whatever the requests and
\* the clock do.
THEOREM Inductive == Spec => []IInv
<1>1. Init => IInv
  BY InitAccount, InitMeets DEF IInv
<1>2. IInv /\ [Next]_vars => IInv'
  <2> SUFFICES ASSUME IInv, [Next]_vars PROVE IInv'
    OBVIOUS
  <2>1. Account
    BY DEF IInv
  <2>2. ASSUME NEW k \in Keys, Attempt(k) PROVE IInv'
    <3>1. Account'
      BY <2>1, <2>2, CountedAttemptAccount, UncountedAttemptAccount DEF Attempt
    <3>2. QED
      BY <2>2, <3>1, AttemptMeets DEF IInv
  <2>3. CASE Tick
    BY <2>1, <2>3, TickAccount, TickMeets DEF IInv
  <2>4. CASE UNCHANGED vars
    <3>1. Account'
      BY <2>1, <2>4 DEF vars, Account, TypeOK, Accounted
    <3>2. \A k \in Keys : Meets(k)'
      BY <2>4, UntouchedMeets DEF vars, IInv
    <3>3. QED
      BY <3>1, <3>2 DEF IInv
  <2>5. QED
    BY <2>2, <2>3, <2>4 DEF Next
<1>3. QED
  BY <1>1, <1>2, PTL DEF Spec

\* A counter admits at most API_RATE_LIMIT attempts in its life, for every limit,
\* window and interleaving, whether Redis answers or not.
THEOREM LimitHolds == Spec => []LimitPerCounter
<1>1. IInv => LimitPerCounter
  BY DEF IInv, Account, TypeOK, Accounted, LimitPerCounter
<1>2. QED
  BY <1>1, Inductive, PTL

\* No stretch of one window, wherever it begins, sees counters admit more than
\* twice API_RATE_LIMIT attempts: it meets two counters of a key at most.
THEOREM SpanHolds == Spec => []TwiceLimitPerSpan
<1>1. IInv => TwiceLimitPerSpan
  BY TalliesAreSmall DEF TwiceLimitPerSpan
<1>2. QED
  BY <1>1, Inductive, PTL
=============================================================================
