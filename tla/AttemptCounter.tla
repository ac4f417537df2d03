--------------------------- MODULE AttemptCounter ---------------------------
(***************************************************************************)
(* One counter of login or registration attempts, as incr_with_ttl keeps   *)
(* it in Redis: the Lua script increments it and starts its time-to-live   *)
(* when it is created.  Time is counted in ticks, Window of them being the *)
(* 60 seconds the controllers pass.                                        *)
(***************************************************************************)
EXTENDS Naturals

CONSTANTS
  NoCounter,   \* the key does not exist
  Limit,       \* API_RATE_LIMIT
  Window       \* the 60 seconds, in ticks

ASSUME LimitAssumption  == Limit \in Nat \ {0} /\ Window \in Nat \ {0}
ASSUME NoCounterIsApart == NoCounter \notin [n : Nat, ttl : Nat]

\* Bound: counts above Limit are all alike.
Over == Limit + 1
Capped(n, top) == IF n > top THEN top ELSE n

Counter == [n : 1 .. Over, ttl : 1 .. Window]

\* Faulty variant: EXPIRE on every increment.
CountedAndExtended(c) ==
  [n |-> IF c = NoCounter THEN 1 ELSE Capped(c.n + 1, Over), ttl |-> Window]

\* Faulty variant: the time-to-live in the wrong unit.
CountedForATick(c) ==
  IF c = NoCounter THEN [n |-> 1, ttl |-> 1]
                   ELSE [c EXCEPT !.n = Capped(c.n + 1, Over)]

\* Faulty variant: INCR only where the key is created.
CountedOnCreation(c) == IF c = NoCounter THEN [n |-> 1, ttl |-> Window] ELSE c

\* INCR, and EXPIRE if that created the key.
Counted(c) ==
  IF c = NoCounter THEN [n |-> 1, ttl |-> Window]
                   ELSE [c EXCEPT !.n = Capped(c.n + 1, Over)]

\* Faulty variant: one attempt too many.
RefusedLate(n) == n > Limit + 1

Refused(n) == n > Limit

\* The counter a tick later.
Older(c) == IF c = NoCounter \/ c.ttl = 1 THEN NoCounter ELSE [c EXCEPT !.ttl = c.ttl - 1]
=============================================================================
