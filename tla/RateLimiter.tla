----------------------------- MODULE RateLimiter -----------------------------
(***************************************************************************)
(* The limit on login and registration attempts: one Redis counter per     *)
(* endpoint and email, incremented by the Lua script of incr_with_ttl,     *)
(* which starts the time-to-live when the counter is created.  Time passes *)
(* in ticks; a counter lives for Window of them.  A request whose count is *)
(* above Limit is refused; a request Redis cannot count is let through.    *)
(***************************************************************************)
EXTENDS AttemptCounter

CONSTANTS
  Keys,        \* rate_limit:<endpoint>:<email>
  CacheFaults  \* whether a call to Redis may fail

ASSUME FaultAssumption == CacheFaults \in BOOLEAN

VARIABLES
  counter,    \* Redis
  life,       \* how many attempts the present counter has admitted
  recent      \* recent[k][a]: how many were, by counters, in this tick and the a before it

vars == <<counter, life, recent>>

\* Bound: sums above twice Limit are all alike.
Spanned == 2 * Limit + 1

Ages == 0 .. Window - 1

TypeOK ==
  /\ counter \in [Keys -> Counter \cup {NoCounter}]
  /\ life \in [Keys -> 0 .. Spanned]
  /\ recent \in [Keys -> [Ages -> 0 .. Spanned]]

Init ==
  /\ counter = [k \in Keys |-> NoCounter]
  /\ life = [k \in Keys |-> 0]
  /\ recent = [k \in Keys |-> [a \in Ages |-> 0]]

Count(k) == counter' = [counter EXCEPT ![k] = Counted(@)]

\* A counter admits an attempt to the service.
Admit(k) ==
  /\ life' = [life EXCEPT ![k] = Capped(IF counter[k] = NoCounter THEN 1 ELSE @ + 1, Spanned)]
  /\ recent' = [recent EXCEPT ![k] = [a \in Ages |-> Capped(@[a] + 1, Spanned)]]

\* The script ran and its answer arrived.
CountedAttempt(k) ==
  /\ Count(k)
  /\ IF Refused(Counted(counter[k]).n) THEN UNCHANGED <<life, recent>> ELSE Admit(k)

\* Redis failed, before or after the script ran: "if let Ok(count)" lets the
\* attempt through, and no counter is answerable for it.
UncountedAttempt(k) ==
  /\ CacheFaults
  /\ Count(k) \/ UNCHANGED counter
  /\ UNCHANGED <<life, recent>>

Attempt(k) == CountedAttempt(k) \/ UncountedAttempt(k)

Tick ==
  /\ counter' = [k \in Keys |-> Older(counter[k])]
  /\ life' = [k \in Keys |-> IF Older(counter[k]) = NoCounter THEN 0 ELSE life[k]]
  /\ recent' = [k \in Keys |-> [a \in Ages |-> IF a = 0 THEN 0 ELSE recent[k][a - 1]]]

Next == (\E k \in Keys : Attempt(k)) \/ Tick

Spec == Init /\ [][Next]_vars

\* Time passes, however many attempts are made.
FairSpec == Spec /\ WF_vars(Tick)

-----------------------------------------------------------------------------

\* Attempts counters admitted during the last Window ticks.
LastWindow(k) == recent[k][Window - 1]

\* One counter admits at most Limit attempts, however they interleave and
\* whatever increments went uncounted.
LimitPerCounter == \A k \in Keys : life[k] <= Limit

\* What a counter admitted it has counted, and none of it once the count passed
\* Limit.
Accounted(k) ==
  IF counter[k] = NoCounter THEN life[k] = 0
                            ELSE life[k] <= counter[k].n /\ life[k] <= Limit
Account == TypeOK /\ \A k \in Keys : Accounted(k)

\* How the window meets the counters: what was admitted since the present one
\* began is its own, and what the window holds from before is at most one other
\* counter's.  Between two counters nothing has been admitted in this tick yet.
Began(k) == Window - counter[k].ttl
Meets(k) ==
  /\ \A a, b \in Ages : a <= b => recent[k][a] <= recent[k][b]
  /\ counter[k] = NoCounter => recent[k][0] = 0 /\ LastWindow(k) <= Limit
  /\ counter[k] # NoCounter => /\ recent[k][Began(k)] <= life[k]
                               /\ LastWindow(k) <= recent[k][Began(k)] + Limit

\* The inductive invariant of the limiter.
IInv == Account /\ \A k \in Keys : Meets(k)

\* What that amounts to for the last Window ticks, wherever they start: two
\* counters can be met, hence never more than twice the limit.
TwiceLimitPerSpan == \A k \in Keys : LastWindow(k) <= 2 * Limit

\* What the controllers' comments say: "API_RATE_LIMIT requests per 60 seconds".
LimitPerSpan == \A k \in Keys : LastWindow(k) <= Limit

\* Nobody is shut out for good: refusals stop when the counter that caused them
\* runs out, even if the attempts never do.
Locked(k) == counter[k] # NoCounter /\ Refused(counter[k].n)
LocksEnd == \A k \in Keys : Locked(k) ~> ~Locked(k)
=============================================================================
