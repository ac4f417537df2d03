------------------------- MODULE AttemptCounterProofs -------------------------
(***************************************************************************)
(* What increments and ticks make of a counter of attempts, for every      *)
(* limit and window.                                                       *)
(***************************************************************************)
EXTENDS AttemptCounter, TLAPS

USE LimitAssumption, NoCounterIsApart DEF Over

\* A saturated number is in range, and below what it saturates.
LEMMA CappedBound ==
  ASSUME NEW n \in Nat, NEW top \in Nat
  PROVE  Capped(n, top) \in 0 .. top /\ Capped(n, top) <= n
                                      /\ (n <= top => Capped(n, top) = n)
BY DEF Capped

\* A counter is not the absence of one.
LEMMA CounterIsNotNone == ASSUME NEW c \in Counter PROVE c # NoCounter
BY DEF Counter

\* An increment yields a counter, of 1 when there was none, otherwise of one
\* more unless that is above Limit.
LEMMA CountedIsCounter ==
  ASSUME NEW c \in Counter \cup {NoCounter}
  PROVE  /\ Counted(c) \in Counter
         /\ c = NoCounter => Counted(c).n = 1
         /\ c # NoCounter /\ Counted(c).n <= Limit => Counted(c).n = c.n + 1
         /\ c # NoCounter => Counted(c).n >= c.n
<1>1. CASE c = NoCounter
  BY <1>1 DEF Counted, Counter
<1>2. CASE c # NoCounter
  <2>1. c \in Counter
    BY <1>2
  <2>2. Counted(c) = [c EXCEPT !.n = Capped(c.n + 1, Over)]
    BY <1>2 DEF Counted
  <2>3. QED
    BY <1>2, <2>1, <2>2 DEF Counter, Capped
<1>3. QED
  BY <1>1, <1>2

\* A tick leaves a counter as it was but for its time-to-live, or removes it.
LEMMA OlderIsCounter ==
  ASSUME NEW c \in Counter \cup {NoCounter}
  PROVE  /\ Older(c) \in Counter \cup {NoCounter}
         /\ Older(c) # NoCounter => c # NoCounter /\ Older(c).n = c.n
<1>1. CASE c = NoCounter \/ c.ttl = 1
  BY <1>1 DEF Older
<1>2. CASE ~(c = NoCounter \/ c.ttl = 1)
  BY <1>2 DEF Older, Counter
<1>3. QED
  BY <1>1, <1>2
=============================================================================
