--------------------------- MODULE UserIndexProofs ---------------------------
(***************************************************************************)
(* Theorems about the index of the users: which queries share a key, which *)
(* rows LIMIT and OFFSET put on a page, that the float arithmetic counts   *)
(* the pages right, and that a cached page is the one its query asks for.  *)
(***************************************************************************)
EXTENDS UserServiceProofs, WellFoundedInduction

-----------------------------------------------------------------------------
(* Keys. *)

\* A filter that is not ambiguous takes one segment of the key, and no other
\* value of that filter takes the same.
LEMMA OneSegment ==
  ASSUME NEW q \in Queries, ~Ambiguous(q), NEW f \in Filters
  PROVE  /\ Spelled(q.where[f]) = <<Spelled(q.where[f])[1]>>
         /\ q.where[f] \in Words \cup {None}
         /\ q.where[f] # None => Spelled(q.where[f])[1] # "all" /\ q.where[f] = Spelled(q.where[f])
<1>1. q.where[f] \in Words \cup {None}
  BY QueriesAssumption DEF IndexQuery
<1>2. CASE q.where[f] = None
  BY <1>1, <1>2 DEF Spelled
<1>3. CASE q.where[f] # None
  <2>1. Len(q.where[f]) = 1 /\ q.where[f] # <<"all">> /\ q.where[f] \in Seq(STRING)
    BY <1>1, <1>3, QueriesAssumption DEF Ambiguous
  <2>2. q.where[f] = <<q.where[f][1]>>
    BY <2>1
  <2>3. QED
    BY <1>1, <1>3, <2>1, <2>2 DEF Spelled
<1>4. QED
  BY <1>2, <1>3

\* k is s followed by t.
Appends(k, s, t) == k = s \o t

\* s has n elements.
Sized(S, s, n) == s \in Seq(S) /\ Len(s) = n

\* Two sequences put together: how long they are.
LEMMA Long ==
  ASSUME NEW S, NEW s, NEW t, NEW k, NEW m \in Nat, NEW n \in Nat,
         Sized(S, s, m), Sized(S, t, n), Appends(k, s, t)
  PROVE  Sized(S, k, m + n)
BY DEF Appends, Sized

\* What comes first keeps its place.
LEMMA Before ==
  ASSUME NEW S, NEW s, NEW t, NEW k, NEW m \in Nat, NEW n \in Nat,
         Sized(S, s, m), Sized(S, t, n), Appends(k, s, t), NEW i \in 1 .. m
  PROVE  k[i] = s[i]
BY DEF Appends, Sized

\* What follows is moved by the length of what comes first.
LEMMA After ==
  ASSUME NEW S, NEW s, NEW t, NEW k, NEW m \in Nat, NEW n \in Nat,
         Sized(S, s, m), Sized(S, t, n), Appends(k, s, t), NEW i \in 1 .. n
  PROVE  k[m + i] = t[i]
<1> DEFINE j == m + i
<1>1. j \in 1 .. m + n /\ ~(j <= m) /\ j - m = i
  OBVIOUS
<1> HIDE DEF j
<1>2. k[j] = IF j <= m THEN s[j] ELSE t[j - m]
  BY <1>1 DEF Appends, Sized
<1>3. k[j] = t[i]
  BY <1>1, <1>2, Zenon
<1>4. QED
  BY <1>3 DEF j

\* A sequence put together in two ways, of first or of second parts equally long,
\* has the same parts.
LEMMA Apart ==
  ASSUME NEW S, NEW a, NEW b, NEW c, NEW d, NEW k, a \in Seq(S), b \in Seq(S), c \in Seq(S), d \in Seq(S),
         Appends(k, a, b), Appends(k, c, d), Len(a) = Len(c) \/ Len(b) = Len(d)
  PROVE  a = c /\ b = d
<1> DEFINE m == Len(a)
           n == Len(b)
<1>1. m \in Nat /\ n \in Nat /\ Len(c) \in Nat /\ Len(d) \in Nat
  OBVIOUS
<1>2. Sized(S, a, m) /\ Sized(S, b, n) /\ Sized(S, c, Len(c)) /\ Sized(S, d, Len(d))
  BY DEF Sized
<1>3. Sized(S, k, m + n) /\ Sized(S, k, Len(c) + Len(d))
  <2> HIDE DEF m, n
  <2> QED BY <1>1, <1>2, Long
<1>4. Len(c) = m /\ Len(d) = n
  <2> HIDE DEF m, n
  <2>1. m + n = Len(c) + Len(d)
    BY <1>3 DEF Sized
  <2> QED BY <1>1, <2>1 DEF m, n
<1>5. Sized(S, c, m) /\ Sized(S, d, n)
  BY <1>2, <1>4
<1> HIDE DEF m, n
<1>6. \A i \in 1 .. m : a[i] = k[i] /\ c[i] = k[i]
  BY <1>1, <1>2, <1>5, Before
<1>7. \A i \in 1 .. n : b[i] = k[m + i] /\ d[i] = k[m + i]
  BY <1>1, <1>2, <1>5, After
<1>8. \A x, y \in Seq(S) : Len(x) = Len(y) /\ (\A i \in 1 .. Len(x) : x[i] = y[i]) => x = y
  <2>1. TAKE x, y \in Seq(S)
  <2>2. x = [i \in 1 .. Len(x) |-> x[i]] /\ y = [i \in 1 .. Len(y) |-> y[i]]
    OBVIOUS
  <2> QED BY <2>2
<1> QED BY <1>2, <1>5, <1>6, <1>7, <1>8 DEF Sized

\* The numbers of a page and the size of one.
LEMMA PageNumbers ==
  ASSUME NEW q \in Queries
  PROVE  GetPage(q) \in Nat \ {0} /\ GetPerPage(q) \in Nat \ {0}
BY QueriesAssumption DEF IndexQuery, GetPage, GetPerPage

\* What the segments of a key are.
Segments == STRING \cup {"all", "desc", "true", "false"} \cup Nat
Text(q) == IF q.deleted THEN "true" ELSE "false"

\* The parts of a key are sequences of segments.
LEMMA Parts ==
  ASSUME NEW q \in Queries
  PROVE  /\ \A f \in Filters : Spelled(q.where[f]) \in Seq(Segments)
         /\ Where(q) \in Seq(Segments) /\ Order(q) \in Seq(Segments)
         /\ <<Text(q)>> \in Seq(Segments) /\ <<GetPage(q), GetPerPage(q)>> \in Seq(Segments)
         /\ Key(q) = Where(q) \o <<Text(q)>> \o Order(q) \o <<GetPage(q), GetPerPage(q)>>
<1>1. \A w \in Words : w \in Seq(Segments)
  <2>1. \A w \in Seq(STRING) : w \in Seq(Segments)
    BY DEF Segments
  <2> QED BY <2>1, QueriesAssumption
<1>2. /\ "all" \in Segments /\ "desc" \in Segments /\ Text(q) \in Segments
      /\ GetPage(q) \in Segments /\ GetPerPage(q) \in Segments
  <2>1. GetPage(q) \in Nat /\ GetPerPage(q) \in Nat
    BY PageNumbers
  <2>2. Text(q) = "true" \/ Text(q) = "false"
    BY DEF Text
  <2> QED BY <2>1, <2>2 DEF Segments
<1>3. \A x, y \in Segments : <<x>> \in Seq(Segments) /\ <<x, y>> \in Seq(Segments)
  OBVIOUS
<1>4. \A f \in Filters : Spelled(q.where[f]) \in Seq(Segments)
  BY <1>1, <1>2, <1>3, QueriesAssumption DEF Spelled, IndexQuery
<1>5. Order(q) \in Seq(Segments)
  BY <1>1, <1>2, <1>3, QueriesAssumption DEF Order, IndexQuery
<1>6. {"email", "role", "status", "uuid"} \subseteq Filters
  BY DEF Filters
<1>7. \A s, t \in Seq(Segments) : s \o t \in Seq(Segments)
  OBVIOUS
<1>8. Where(q) \in Seq(Segments)
  BY <1>4, <1>6, <1>7 DEF Where
<1> QED BY <1>2, <1>3, <1>4, <1>5, <1>8 DEF Key, Text

\* Two queries of one key, of which the filters or the orders are equally long,
\* agree in all the parts of it.
LEMMA SameParts ==
  ASSUME NEW q \in Queries, NEW r \in Queries, Key(q) = Key(r),
         Len(Where(q)) = Len(Where(r)) \/ Len(Order(q)) = Len(Order(r))
  PROVE  /\ Where(q) = Where(r) /\ q.deleted = r.deleted /\ Order(q) = Order(r)
         /\ GetPage(q) = GetPage(r) /\ GetPerPage(q) = GetPerPage(r)
<1> DEFINE front(s) == Where(s) \o <<Text(s)>>
           most(s) == front(s) \o Order(s)
           last(s) == <<GetPage(s), GetPerPage(s)>>
<1>1. ASSUME NEW s \in Queries
      PROVE  /\ front(s) \in Seq(Segments) /\ Len(front(s)) = Len(Where(s)) + 1
             /\ most(s) \in Seq(Segments) /\ last(s) \in Seq(Segments) /\ Order(s) \in Seq(Segments)
             /\ Where(s) \in Seq(Segments) /\ <<Text(s)>> \in Seq(Segments)
             /\ Len(<<Text(s)>>) = 1 /\ Len(last(s)) = 2
             /\ Appends(front(s), Where(s), <<Text(s)>>) /\ Appends(most(s), front(s), Order(s))
             /\ Appends(Key(s), most(s), last(s))
  <2>1. /\ Where(s) \in Seq(Segments) /\ <<Text(s)>> \in Seq(Segments) /\ Order(s) \in Seq(Segments)
        /\ last(s) \in Seq(Segments) /\ Key(s) = most(s) \o last(s)
    BY Parts
  <2>2. Len(<<Text(s)>>) = 1 /\ Len(last(s)) = 2
    OBVIOUS
  <2>3. \A x, y \in Seq(Segments) : x \o y \in Seq(Segments) /\ Len(x \o y) = Len(x) + Len(y)
    OBVIOUS
  <2>4. front(s) \in Seq(Segments) /\ Len(front(s)) = Len(Where(s)) + 1
    BY <2>1, <2>2, <2>3
  <2>5. most(s) \in Seq(Segments)
    BY <2>1, <2>3, <2>4
  <2> QED BY <2>1, <2>2, <2>4, <2>5 DEF Appends
<1> HIDE DEF front, most, last
<1> DEFINE k == Key(q)
<1>2. most(q) = most(r) /\ last(q) = last(r)
  <2>1. /\ most(q) \in Seq(Segments) /\ last(q) \in Seq(Segments) /\ Appends(k, most(q), last(q))
        /\ most(r) \in Seq(Segments) /\ last(r) \in Seq(Segments) /\ Appends(k, most(r), last(r))
        /\ Len(last(q)) = Len(last(r))
    BY <1>1
  <2> HIDE DEF k
  <2> QED BY <2>1, Apart
<1> HIDE DEF k
<1>3. front(q) = front(r) /\ Order(q) = Order(r)
  <2> DEFINE l == most(q)
  <2>1. /\ front(q) \in Seq(Segments) /\ Order(q) \in Seq(Segments) /\ Appends(l, front(q), Order(q))
        /\ front(r) \in Seq(Segments) /\ Order(r) \in Seq(Segments) /\ Appends(l, front(r), Order(r))
        /\ Len(front(q)) = Len(front(r)) \/ Len(Order(q)) = Len(Order(r))
    BY <1>1, <1>2
  <2> HIDE DEF l
  <2> QED BY <2>1, Apart
<1>4. Where(q) = Where(r) /\ <<Text(q)>> = <<Text(r)>>
  <2> DEFINE f == front(q)
             a == <<Text(q)>>
             b == <<Text(r)>>
  <2>1. /\ Where(q) \in Seq(Segments) /\ a \in Seq(Segments) /\ Appends(f, Where(q), a)
        /\ Where(r) \in Seq(Segments) /\ b \in Seq(Segments) /\ Appends(f, Where(r), b)
        /\ Len(a) = Len(b)
    BY <1>1, <1>3
  <2> HIDE DEF f, a, b
  <2>2. Where(q) = Where(r) /\ a = b
    BY <2>1, Apart
  <2> QED BY <2>2 DEF a, b
<1>5. Text(q) = Text(r)
  BY <1>4
<1>6. q.deleted = r.deleted
  BY <1>5, QueriesAssumption DEF Text, IndexQuery
<1>7. GetPage(q) = GetPage(r) /\ GetPerPage(q) = GetPerPage(r)
  BY <1>2 DEF last
<1> QED BY <1>3, <1>4, <1>6, <1>7

\* Two queries whose words have no '/' in them, and whose filters are not "all",
\* share a key only if they are the same to get_users_paginated: the cache never
\* answers one with the page of the other.
THEOREM KeyTellsApart ==
  ASSUME NEW q \in Queries, NEW r \in Queries, ~Ambiguous(q), ~Ambiguous(r), Key(q) = Key(r)
  PROVE  /\ q.where = r.where /\ q.deleted = r.deleted /\ Order(q) = Order(r)
         /\ GetPage(q) = GetPage(r) /\ GetPerPage(q) = GetPerPage(r)
<1>1. Len(Order(q)) = 1 /\ Len(Order(r)) = 1
  BY DEF Ambiguous
<1>2. /\ Where(q) = Where(r) /\ q.deleted = r.deleted /\ Order(q) = Order(r)
      /\ GetPage(q) = GetPage(r) /\ GetPerPage(q) = GetPerPage(r)
  BY <1>1, SameParts
<1> DEFINE Part(s, f) == Spelled(s.where[f])
           two(s) == Part(s, "email") \o Part(s, "role")
           three(s) == two(s) \o Part(s, "status")
<1>3. ASSUME NEW s \in Queries, ~Ambiguous(s)
      PROVE  /\ \A f \in Filters : Part(s, f) \in Seq(Segments) /\ Len(Part(s, f)) = 1
             /\ two(s) \in Seq(Segments) /\ three(s) \in Seq(Segments)
             /\ Appends(two(s), Part(s, "email"), Part(s, "role"))
             /\ Appends(three(s), two(s), Part(s, "status"))
             /\ Appends(Where(s), three(s), Part(s, "uuid"))
  <2>1. \A f \in Filters : Part(s, f) \in Seq(Segments)
    BY Parts
  <2>2. ASSUME NEW f \in Filters PROVE Len(Part(s, f)) = 1
    <3>1. Part(s, f) = <<Part(s, f)[1]>>
      BY <1>3, OneSegment
    <3> QED BY <3>1
  <2>3. {"email", "role", "status", "uuid"} \subseteq Filters
    BY DEF Filters
  <2> HIDE DEF Part
  <2>4. \A x, y \in Seq(Segments) : x \o y \in Seq(Segments)
    OBVIOUS
  <2>5. two(s) \in Seq(Segments)
    BY <2>1, <2>3, <2>4
  <2>6. three(s) \in Seq(Segments)
    BY <2>1, <2>3, <2>4, <2>5
  <2>7. Where(s) = three(s) \o Part(s, "uuid")
    BY DEF Where, Part
  <2> QED BY <2>1, <2>2, <2>5, <2>6, <2>7 DEF Appends
<1> HIDE DEF Part, two, three
<1>4. {"email", "role", "status", "uuid"} \subseteq Filters
  BY DEF Filters
<1>5. three(q) = three(r) /\ Part(q, "uuid") = Part(r, "uuid")
  BY <1>2, <1>3, <1>4, Apart
<1>6. two(q) = two(r) /\ Part(q, "status") = Part(r, "status")
  BY <1>3, <1>4, <1>5, Apart
<1>7. Part(q, "email") = Part(r, "email") /\ Part(q, "role") = Part(r, "role")
  BY <1>3, <1>4, <1>6, Apart
<1>8. ASSUME NEW f \in Filters PROVE q.where[f] = r.where[f]
  <2>1. Part(q, f) = Part(r, f)
    BY <1>5, <1>6, <1>7 DEF Filters
  <2>2. CASE q.where[f] = None
    <3>1. Part(q, f)[1] = "all"
      BY <2>2 DEF Spelled, Part
    <3>2. r.where[f] = None
      BY <2>1, <3>1, OneSegment DEF Part
    <3> QED BY <2>2, <3>2
  <2>3. CASE q.where[f] # None
    <3>1. Part(r, f)[1] # "all"
      BY <2>1, <2>3, OneSegment DEF Part
    <3>2. r.where[f] # None
      BY <3>1 DEF Spelled, Part
    <3> QED BY <2>1, <2>3, <3>2, OneSegment DEF Part
  <2> QED BY <2>2, <2>3
<1>9. q.where = r.where
  BY <1>8, QueriesAssumption DEF IndexQuery
<1> QED BY <1>2, <1>9

\* Two queries with the same filters and the same key ask the same.
LEMMA SameFiltersSameKey ==
  ASSUME NEW q \in Queries, NEW r \in Queries, q.where = r.where, Key(q) = Key(r)
  PROVE  /\ q.deleted = r.deleted /\ Order(q) = Order(r)
         /\ GetPage(q) = GetPage(r) /\ GetPerPage(q) = GetPerPage(r)
<1>1. Where(q) = Where(r)
  BY DEF Where
<1> QED BY <1>1, SameParts

-----------------------------------------------------------------------------
(* Natural numbers: induction over sets of them. *)

\* A set of natural numbers that is not empty has a least element.
LEMMA LeastElement ==
  ASSUME NEW T \in SUBSET Nat, T # {}
  PROVE  \E x \in T : \A y \in T : x <= y
<1>1. PICK x \in T : \A y \in T : ~(<<y, x>> \in OpToRel(<, Nat))
  BY NatLessThanWellFounded, WFMin
<1>2. ASSUME NEW y \in T PROVE <<y, x>> \in OpToRel(<, Nat) <=> y < x
  BY DEF OpToRel
<1>3. \A y \in T : ~(y < x)
  BY <1>1, <1>2, Zenon
<1>4. ASSUME NEW y \in T PROVE x <= y
  <2>1. x \in Nat /\ y \in Nat
    OBVIOUS
  <2>2. ~(y < x)
    BY <1>3, Zenon
  <2> QED BY <2>1, <2>2
<1> QED BY <1>4

\* A set that has 0, and with each number the next, has them all.
LEMMA CountingUp ==
  ASSUME NEW S, 0 \in S, \A n \in Nat : n \in S => n + 1 \in S
  PROVE  Nat \subseteq S
<1> SUFFICES ASSUME Nat \ S # {} PROVE FALSE
  OBVIOUS
<1>1. PICK x \in Nat \ S : \A y \in Nat \ S : x <= y
  BY LeastElement
<1>2. x # 0 /\ x - 1 \in Nat
  BY <1>1
<1>3. x - 1 \in S
  BY <1>1, <1>2
<1>4. (x - 1) + 1 \in S
  BY <1>2, <1>3
<1> QED BY <1>1, <1>4

\* A set of numbers up to w that has, with each number, the smaller ones down to
\* 1 is an interval.
LEMMA DownClosed ==
  ASSUME NEW w \in Nat, NEW T, T \subseteq 1 .. w,
         \A x \in T, y \in 1 .. w : y <= x => y \in T
  PROVE  Cardinality(T) \in 0 .. w /\ T = 1 .. Cardinality(T)
<1> DEFINE B == {b \in Nat : \A x \in T : x <= b}
<1>1. w \in B
  OBVIOUS
<1>2. PICK m \in B : \A b \in B : m <= b
  BY <1>1, LeastElement
<1>3. m \in Nat /\ m <= w /\ \A x \in T : x <= m
  BY <1>1, <1>2
<1>4. T = 1 .. m
  <2>1. CASE m = 0
    <3>1. T = {}
      BY <1>3, <2>1
    <3>2. 1 .. m = {}
      BY <2>1
    <3> QED BY <3>1, <3>2
  <2>2. CASE m # 0
    <3>1. m - 1 \in Nat /\ ~(m <= m - 1)
      BY <1>3, <2>2
    <3>2. m - 1 \notin B
      BY <1>2, <3>1
    <3>3. PICK x \in T : ~(x <= m - 1)
      BY <3>1, <3>2
    <3>4. m \in T
      BY <1>3, <3>3
    <3>5. ASSUME NEW y \in 1 .. m PROVE y \in T
      BY <1>3, <3>4
    <3>6. ASSUME NEW y \in T PROVE y \in 1 .. m
      BY <1>3
    <3> QED BY <3>5, <3>6
  <2> QED BY <2>1, <2>2
<1>5. Cardinality(1 .. m) = m
  BY <1>3, FS_Interval
<1> QED BY <1>3, <1>4, <1>5

-----------------------------------------------------------------------------
(* Powers of two.  2^n counts the subsets of n things. *)

\* The subsets of 1 .. n.
LEMMA PowerCounts ==
  ASSUME NEW n \in Nat
  PROVE  IsFiniteSet(SUBSET (1 .. n)) /\ Cardinality(SUBSET (1 .. n)) = 2^n
<1>1. IsFiniteSet(1 .. n) /\ Cardinality(1 .. n) = n
  BY FS_Interval
<1> QED BY <1>1, FS_SUBSET

\* A power of two is a number, and not 0.
LEMMA PowerIsPositive == ASSUME NEW n \in Nat PROVE 2^n \in Nat \ {0}
<1>1. IsFiniteSet(SUBSET (1 .. n)) /\ Cardinality(SUBSET (1 .. n)) = 2^n
  BY PowerCounts
<1>2. SUBSET (1 .. n) # {}
  OBVIOUS
<1>3. Cardinality(SUBSET (1 .. n)) \in Nat /\ Cardinality(SUBSET (1 .. n)) # 0
  BY <1>1, <1>2, FS_CardinalityType, FS_EmptySet
<1> QED BY <1>1, <1>3

\* One more thing doubles the subsets.
LEMMA PowerDoubles == ASSUME NEW n \in Nat PROVE 2^(n + 1) = 2 * 2^n
<1> DEFINE A == SUBSET (1 .. n)
           B == {X \cup {n + 1} : X \in A}
           f == [X \in A |-> X \cup {n + 1}]
<1>1. IsFiniteSet(A) /\ Cardinality(A) = 2^n
  BY PowerCounts
<1>2. Cardinality(SUBSET (1 .. n + 1)) = 2^(n + 1)
  BY PowerCounts
<1>3. SUBSET (1 .. n + 1) = A \cup B
  <2>1. ASSUME NEW Y \in SUBSET (1 .. n + 1) PROVE Y \in A \cup B
    <3>1. CASE n + 1 \in Y
      <4>1. Y \ {n + 1} \in A
        OBVIOUS
      <4>2. Y = (Y \ {n + 1}) \cup {n + 1}
        BY <3>1
      <4> QED BY <4>1, <4>2
    <3>2. CASE n + 1 \notin Y
      BY <3>2
    <3> QED BY <3>1, <3>2
  <2>2. ASSUME NEW Y \in A \cup B PROVE Y \in SUBSET (1 .. n + 1)
    <3>1. n + 1 \in 1 .. n + 1 /\ 1 .. n \subseteq 1 .. n + 1
      OBVIOUS
    <3> QED BY <3>1
  <2> QED BY <2>1, <2>2
<1>4. A \cap B = {}
  OBVIOUS
<1>5. f \in Bijection(A, B)
  <2>1. ASSUME NEW X \in A, NEW Y \in A, f[X] = f[Y] PROVE X = Y
    <3>1. X \cup {n + 1} = Y \cup {n + 1} /\ n + 1 \notin X /\ n + 1 \notin Y
      BY <2>1
    <3> QED BY <3>1
  <2>2. f \in [A -> B]
    OBVIOUS
  <2>3. \A b \in B : \E a \in A : f[a] = b
    OBVIOUS
  <2> HIDE DEF f, A, B
  <2> QED BY <2>1, <2>2, <2>3 DEF Bijection, Injection, Surjection, IsInjective
<1> HIDE DEF A, B, f
<1>6. IsFiniteSet(B) /\ Cardinality(B) = Cardinality(A)
  BY <1>1, <1>5, FS_Bijection DEF ExistsBijection
<1>7. Cardinality(A \cup B) = Cardinality(A) + Cardinality(B) - Cardinality({})
  BY <1>1, <1>4, <1>6, FS_Union
<1>8. Cardinality({}) = 0 /\ 2^n \in Nat
  BY FS_EmptySet, PowerIsPositive
<1>9. Cardinality(SUBSET (1 .. n + 1)) = 2 * Cardinality(A)
  <2>1. Cardinality(A) \in Nat
    BY <1>1, FS_CardinalityType
  <2>2. Cardinality(SUBSET (1 .. n + 1)) = Cardinality(A \cup B)
    BY <1>3, Zenon
  <2>3. Cardinality(A \cup B) = 2 * Cardinality(A)
    BY <1>6, <1>7, <1>8, <2>1
  <2> QED BY <2>2, <2>3, Zenon
<1> QED BY <1>1, <1>2, <1>9, Zenon

\* A smaller power divides a larger one.
LEMMA PowerDivides ==
  ASSUME NEW e \in Nat, NEW n \in Nat
  PROVE  \E x \in Nat \ {0} : 2^(e + n) = x * 2^e
<1> DEFINE S == {m \in Nat : \E x \in Nat \ {0} : 2^(e + m) = x * 2^e}
<1>1. 0 \in S
  BY PowerIsPositive
<1>2. ASSUME NEW m \in Nat, m \in S PROVE m + 1 \in S
  <2>1. PICK x \in Nat \ {0} : 2^(e + m) = x * 2^e
    BY <1>2
  <2>2. e + m \in Nat /\ e + (m + 1) = (e + m) + 1
    OBVIOUS
  <2>3. 2^(e + (m + 1)) = 2 * 2^(e + m)
    BY <2>2, PowerDoubles
  <2>4. 2^e \in Nat /\ 2 * x \in Nat \ {0}
    BY PowerIsPositive
  <2>5. 2^(e + (m + 1)) = (2 * x) * 2^e
    BY <2>1, <2>3, <2>4
  <2>6. \E y \in Nat \ {0} : 2^(e + (m + 1)) = y * 2^e
    BY <2>4, <2>5
  <2>7. m + 1 \in Nat
    OBVIOUS
  <2> QED BY <2>6, <2>7, Zenon DEF S
<1> HIDE DEF S
<1>3. Nat \subseteq S
  BY <1>1, <1>2, CountingUp
<1> QED BY <1>3 DEF S

-----------------------------------------------------------------------------
(* Quotients and how they are rounded. *)

\* Quotient and remainder.
LEMMA Quotient ==
  ASSUME NEW n \in Nat, NEW d \in Nat \ {0}
  PROVE  n \div d \in Nat /\ n % d \in 0 .. d - 1 /\ n = d * (n \div d) + (n % d)
OBVIOUS

\* A larger factor, a larger product.
LEMMA Times ==
  ASSUME NEW d \in Nat, NEW m \in Nat, NEW n \in Nat, m < n
  PROVE  d * m \in Nat /\ d * m + d <= d * n
<1>1. n = m + 1 + (n - m - 1) /\ n - m - 1 \in Nat
  OBVIOUS
<1>2. d * n = d * m + d + d * (n - m - 1) /\ d * (n - m - 1) >= 0 /\ d * m \in Nat
  BY <1>1
<1> QED BY <1>2

\* The quotient is the one number of whole ds in x.
LEMMA QuotientIs ==
  ASSUME NEW x \in Nat, NEW d \in Nat \ {0}, NEW k \in Nat
  PROVE  k * d <= x /\ x < k * d + d <=> x \div d = k
<1>1. x \div d \in Nat /\ x % d \in 0 .. d - 1 /\ x = d * (x \div d) + (x % d)
  BY Quotient
<1>2. k * d = d * k /\ d * k \in Nat
  OBVIOUS
<1>3. CASE x \div d < k
  <2>1. d * (x \div d) + d <= d * k
    BY <1>1, <1>3, Times
  <2> QED BY <1>1, <1>2, <1>3, <2>1
<1>4. CASE k < x \div d
  <2>1. d * k + d <= d * (x \div d)
    BY <1>1, <1>4, Times
  <2> QED BY <1>1, <1>2, <1>4, <2>1
<1>5. CASE x \div d = k
  BY <1>1, <1>2, <1>5
<1> QED BY <1>1, <1>3, <1>4, <1>5

\* What lies between multiples of d is rounded to a number between theirs, and a
\* multiple to its own.
LEMMA NearestBetween ==
  ASSUME NEW x \in Nat, NEW d \in Nat \ {0}, NEW m \in Nat
  PROVE  /\ Nearest(x, d) \in Nat
         /\ m * d <= x => m <= Nearest(x, d)
         /\ x <= m * d => Nearest(x, d) <= m
<1>1. x \div d \in Nat /\ x % d \in 0 .. d - 1 /\ x = d * (x \div d) + (x % d)
  BY Quotient
<1>2. m * d = d * m /\ d * m \in Nat
  OBVIOUS
<1>3. Nearest(x, d) \in {x \div d, x \div d + 1} /\ (x % d = 0 => Nearest(x, d) = x \div d)
  BY <1>1 DEF Nearest
<1>4. ASSUME m * d <= x PROVE m <= x \div d
  <2>1. CASE x \div d < m
    <3>1. d * (x \div d) + d <= d * m
      BY <1>1, <2>1, Times
    <3> QED BY <1>1, <1>2, <1>4, <3>1
  <2> QED BY <1>1, <2>1
<1>5. ASSUME x <= m * d PROVE x \div d < m \/ (x \div d = m /\ x % d = 0)
  <2>1. CASE m < x \div d
    <3>1. d * m + d <= d * (x \div d)
      BY <1>1, <2>1, Times
    <3> QED BY <1>1, <1>2, <1>5, <3>1
  <2>2. CASE x \div d = m
    <3>1. d * (x \div d) = d * m
      BY <2>2
    <3> QED BY <1>1, <1>2, <1>5, <2>2, <3>1
  <2> QED BY <1>1, <2>1, <2>2
<1> QED BY <1>1, <1>3, <1>4, <1>5

\* Rounding is off by no more than a half.
LEMMA NearestIsNear ==
  ASSUME NEW x \in Nat, NEW d \in Nat \ {0}
  PROVE  2 * x <= 2 * (d * Nearest(x, d)) + d
<1> DEFINE f == x \div d
           r == x % d
           N == Nearest(x, d)
<1>1. f \in Nat /\ r \in 0 .. d - 1 /\ x = d * f + r
  BY Quotient
<1>2. (N = f /\ 2 * r <= d) \/ N = f + 1
  BY <1>1 DEF Nearest
<1>3. d * (f + 1) = d * f + d /\ d * f \in Nat
  BY <1>1
<1> HIDE DEF f, r, N
<1>4. CASE N = f /\ 2 * r <= d
  <2>1. d * N = d * f
    BY <1>4
  <2> QED BY <1>1, <1>3, <1>4, <2>1 DEF N
<1>5. CASE N = f + 1
  <2>1. d * N = d * f + d
    BY <1>3, <1>5
  <2> QED BY <1>1, <1>3, <2>1 DEF N
<1> QED BY <1>2, <1>4, <1>5

\* A float has as many bits as its significand, one of them a half of the rest.
LEMMA OneIsHalf == One \in Nat \ {0} /\ 2^Significand = 2 * One
<1>1. Significand - 1 \in Nat /\ (Significand - 1) + 1 = Significand
  BY WidthAssumption
<1>2. 2^((Significand - 1) + 1) = 2 * 2^(Significand - 1)
  BY <1>1, PowerDoubles
<1> QED BY <1>1, <1>2, PowerIsPositive DEF One

\* The exponent of a quotient of at least one: its power of two is not larger,
\* and divides One if it is smaller than twice One.
LEMMA ExponentFits ==
  ASSUME NEW n \in Nat, NEW d \in Nat \ {0}, d <= n
  PROVE  \E p \in Nat \ {0} :
           /\ p = 2^Exponent(n, d)
           /\ p * d <= n
           /\ p < 2 * One => (\E x \in Nat \ {0} : One = x * p)
<1> DEFINE T == {e \in 1 .. Width : 2^e * d <= n}
           E == Exponent(n, d)
<1>1. E = Cardinality(T)
  BY DEF Exponent
<1>2. ASSUME NEW x \in T, NEW y \in 1 .. Width, y <= x PROVE y \in T
  <2>1. x - y \in Nat /\ y + (x - y) = x /\ y \in Nat /\ x \in Nat
    BY <1>2
  <2>2. PICK z \in Nat \ {0} : 2^x = z * 2^y
    BY <2>1, PowerDivides
  <2>3. 2^y \in Nat /\ 2^x \in Nat /\ 2^x * d <= n
    BY <1>2, <2>1, PowerIsPositive
  <2>4. 2^y <= 2^x
    BY <2>2, <2>3
  <2>5. 2^y * d <= 2^x * d
    BY <2>3, <2>4
  <2> QED BY <2>3, <2>5
<1>3. E \in 0 .. Width /\ T = 1 .. E
  <2> HIDE DEF T
  <2>1. T \subseteq 1 .. Width
    BY DEF T
  <2> QED BY <1>1, <1>2, <2>1, WidthAssumption, DownClosed
<1>4. E \in Nat /\ 2^E \in Nat \ {0}
  BY <1>3, WidthAssumption, PowerIsPositive
<1>5. 2^E * d <= n
  <2>1. CASE E = 0
    <3>1. 2^E = 1
      BY <2>1
    <3> QED BY <3>1
  <2>2. CASE E # 0
    <3>1. E \in T
      BY <1>3, <1>4, <2>2
    <3> QED BY <3>1
  <2> QED BY <2>1, <2>2
<1>6. ASSUME 2^E < 2 * One PROVE \E x \in Nat \ {0} : One = x * 2^E
  <2>1. CASE E >= Significand
    <3>1. E - Significand \in Nat /\ Significand + (E - Significand) = E /\ Significand \in Nat
      BY <1>4, <2>1, WidthAssumption
    <3>2. PICK x \in Nat \ {0} : 2^E = x * 2^Significand
      BY <3>1, PowerDivides
    <3>3. 2^Significand = 2 * One /\ One \in Nat
      BY OneIsHalf
    <3>4. 2^Significand <= 2^E
      BY <3>2, <3>3
    <3> QED BY <1>4, <1>6, <3>3, <3>4
  <2>2. CASE E < Significand
    <3>1. (Significand - 1) - E \in Nat /\ E + ((Significand - 1) - E) = Significand - 1
      BY <1>4, <2>2, WidthAssumption
    <3> QED BY <1>4, <3>1, PowerDivides DEF One
  <2> QED BY <1>4, <2>1, <2>2, WidthAssumption
<1> HIDE DEF E, T
<1> QED BY <1>4, <1>5, <1>6 DEF E

\* A product of natural numbers is one, and grows with its factors.
LEMMA Products ==
  ASSUME NEW a \in Nat, NEW b \in Nat, NEW c \in Nat, a <= b
  PROVE  a * c \in Nat /\ b * c \in Nat /\ a * c <= b * c
<1>1. b = a + (b - a) /\ b - a \in Nat
  OBVIOUS
<1>2. b * c = a * c + (b - a) * c /\ (b - a) * c >= 0 /\ a * c \in Nat
  BY <1>1
<1> QED BY <1>2

\* The quotient of whole numbers up to 2^Significand, rounded up after it was
\* rounded to a float, is the quotient rounded up: the pages are counted right.
LEMMA CeilingIsExact ==
  ASSUME NEW n \in Nat, NEW b \in Nat \ {0}, b <= n, n <= 2 * One
  PROVE  (Rounded(n, b) + One - 1) \div One = (n + b - 1) \div b
<1> DEFINE c == (n + b - 1) \div b
           H == One
<1>1. H \in Nat \ {0}
  BY OneIsHalf
<1>2. PICK P \in Nat \ {0} :
             /\ P = 2^Exponent(n, b) /\ P * b <= n
             /\ P < 2 * H => (\E x \in Nat \ {0} : H = x * P)
  BY ExponentFits
<1> DEFINE D == b * P
           N == Nearest(n * H, D)
           R == N * P
<1>3. Rounded(n, b) = R
  BY <1>2, Zenon DEF Rounded
<1>4. c \in Nat /\ b * c <= n + b - 1 /\ n <= b * c /\ c # 0
  <2>1. /\ c \in Nat /\ (n + b - 1) % b \in 0 .. b - 1
        /\ n + b - 1 = b * c + ((n + b - 1) % b)
    <3>1. n + b - 1 \in Nat
      OBVIOUS
    <3> QED BY <3>1, Quotient
  <2> HIDE DEF c
  <2>2. b * c \in Nat /\ b * 0 = 0
    BY <2>1
  <2> QED BY <2>1, <2>2
<1>5. D \in Nat \ {0} /\ D <= n /\ P <= D /\ n * H \in Nat
  <2>1. D = P * b /\ D \in Nat
    BY <1>2
  <2>2. 1 * P <= b * P /\ 1 * P = P
    BY <1>2, Products
  <2>3. n * H \in Nat
    BY <1>1
  <2> HIDE DEF D, H
  <2> QED BY <1>2, <2>1, <2>2, <2>3 DEF D
<1> HIDE DEF c, H
<1>6. N \in Nat /\ R \in Nat
  <2> HIDE DEF D
  <2>1. N \in Nat
    BY <1>5, NearestBetween
  <2> HIDE DEF N
  <2> QED BY <1>2, <2>1
<1>7. (c - 1) * H < R /\ R <= c * H
  <2>1. CASE D = 2 * H
    <3>1. n = D /\ n = P * b
      BY <1>5, <2>1 DEF H
    <3>2. n * H = H * D /\ n * H <= H * D /\ H * D <= n * H
      BY <1>1, <1>5, <3>1
    <3>3. N = H
      <4> HIDE DEF D
      <4>1. H <= N /\ N <= H
        BY <1>1, <1>5, <3>2, NearestBetween
      <4> QED BY <1>1, <1>6, <4>1
    <3>4. c = P
      <4>1. CASE c < P
        <5>1. b * c + b <= b * P
          BY <1>2, <1>4, <4>1, Times
        <5> QED BY <1>4, <3>1, <5>1
      <4>2. CASE P < c
        <5>1. b * P + b <= b * c
          BY <1>2, <1>4, <4>2, Times
        <5> QED BY <1>4, <3>1, <5>1
      <4> QED BY <1>2, <1>4, <4>1, <4>2
    <3>5. R = c * H
      BY <1>1, <1>2, <3>3, <3>4
    <3>6. (c - 1) * H = c * H - H /\ c * H \in Nat
      BY <1>1, <1>4
    <3> QED BY <1>1, <3>5, <3>6
  <2>2. CASE D < 2 * H
    <3>1. P < 2 * H
      <4> HIDE DEF D
      <4> QED BY <1>1, <1>2, <1>5, <2>2
    <3>2. PICK x \in Nat \ {0} : H = x * P
      BY <1>2, <3>1, Zenon
    <3>3. R <= c * H
      <4>1. c * x \in Nat /\ (c * x) * D = (b * c) * H
        BY <1>1, <1>2, <1>4, <3>2
      <4>2. n * H <= (b * c) * H
        <5>1. b * c \in Nat
          BY <1>4
        <5> HIDE DEF H
        <5> QED BY <1>1, <1>4, <5>1, Products
      <4>3. n * H <= (c * x) * D
        BY <4>1, <4>2
      <4>4. N <= c * x
        <5> HIDE DEF D
        <5> QED BY <1>5, <4>1, <4>3, NearestBetween
      <4>5. R <= (c * x) * P
        <5> HIDE DEF N
        <5> QED BY <1>2, <1>6, <4>1, <4>4, Products
      <4>6. (c * x) * P = c * H
        BY <1>2, <1>4, <3>2
      <4> QED BY <4>5, <4>6
    <3>4. (c - 1) * H < R
      <4>1. 2 * (n * H) <= 2 * (D * N) + D
        <5> HIDE DEF D
        <5> QED BY <1>5, NearestIsNear
      <4>2. D * N = b * R
        <5> HIDE DEF N
        <5> QED BY <1>2, <1>6
      <4>3. c - 1 \in Nat /\ b * (c - 1) + 1 <= n /\ b * (c - 1) \in Nat
        <5>1. b * (c - 1) = b * c - b
          BY <1>4
        <5> QED BY <1>4, <5>1
      <4>4. (b * (c - 1) + 1) * H <= n * H
        BY <1>1, <4>3, Products
      <4>5. (b * (c - 1) + 1) * H = b * ((c - 1) * H) + H
        BY <1>1, <4>3
      <4>6. (c - 1) * H \in Nat /\ b * ((c - 1) * H) \in Nat /\ b * R \in Nat
        <5> HIDE DEF R
        <5> QED BY <1>1, <1>6, <4>3
      <4>7. b * ((c - 1) * H) < b * R
        <5> HIDE DEF D, N, R
        <5> QED BY <1>1, <1>5, <2>2, <4>1, <4>2, <4>4, <4>5, <4>6
      <4>8. CASE R <= (c - 1) * H
        <5>1. R * b <= ((c - 1) * H) * b
          <6> HIDE DEF R
          <6> QED BY <1>6, <4>6, <4>8, Products
        <5>2. R * b = b * R /\ ((c - 1) * H) * b = b * ((c - 1) * H)
          <6> HIDE DEF R
          <6> QED BY <1>6, <4>6
        <5> QED BY <4>6, <4>7, <5>1, <5>2
      <4> QED BY <1>6, <4>6, <4>8
    <3> QED BY <3>3, <3>4
  <2> QED BY <1>1, <1>5, <2>1, <2>2 DEF H
<1>8. c * H <= R + H - 1 /\ R + H - 1 < c * H + H /\ R + H - 1 \in Nat
  <2>1. (c - 1) * H = c * H - H /\ c * H \in Nat
    BY <1>1, <1>4
  <2> HIDE DEF R
  <2> QED BY <1>1, <1>6, <1>7, <2>1
<1>9. (R + H - 1) \div H = c
  <2> HIDE DEF R
  <2> QED BY <1>1, <1>4, <1>8, QuotientIs
<1> QED BY <1>3, <1>9 DEF c, H

-----------------------------------------------------------------------------
(* What one page answers. *)

\* While the offset does not wrap, LIMIT and OFFSET put a row on the page whose
\* number its rank stands for, so on one page only.
THEOREM PageIsIdeal ==
  ASSUME NEW q \in Queries, NEW rows, IsFiniteSet(rows),
         Offset(q) = (GetPage(q) - 1) * GetPerPage(q)
  PROVE  OnPage(rows, q) = {u \in rows : Rank(rows, q, u) \div GetPerPage(q) = GetPage(q) - 1}
<1>1. GetPage(q) - 1 \in Nat /\ GetPerPage(q) \in Nat \ {0}
  BY PageNumbers
<1>2. ASSUME NEW u \in rows PROVE Rank(rows, q, u) \in Nat
  BY FS_Subset, FS_CardinalityType DEF Rank
<1>3. ASSUME NEW u \in rows
      PROVE  Offset(q) <= Rank(rows, q, u) /\ Rank(rows, q, u) < Offset(q) + GetPerPage(q)
               <=> Rank(rows, q, u) \div GetPerPage(q) = GetPage(q) - 1
  BY <1>1, <1>2, QuotientIs
<1> QED BY <1>3 DEF OnPage

\* An integer of up to twice One is a float.
LEMMA SmallIsExact == ASSUME NEW n \in Nat \ {0}, n <= 2 * One PROVE AsFloat(n) = n
<1> DEFINE H == One
<1>1. H \in Nat \ {0} /\ 1 <= n
  BY OneIsHalf
<1>2. PICK P \in Nat \ {0} :
        /\ P = 2^Exponent(n, 1) /\ P * 1 <= n
        /\ P < 2 * H => (\E x \in Nat \ {0} : H = x * P)
  <2>1. n \in Nat /\ 1 \in Nat \ {0} /\ 1 <= n
    BY <1>1
  <2> QED BY <2>1, ExponentFits, Zenon
<1> HIDE DEF H
<1>3. Rounded(n, 1) = Nearest(n * H, 1 * P) * P
  BY <1>2, Zenon DEF Rounded, H
<1>4. 1 * P = P /\ P <= n /\ n * H \in Nat
  BY <1>1, <1>2
<1>5. Rounded(n, 1) = n * H
  <2>1. CASE P < 2 * H
    <3>1. PICK x \in Nat \ {0} : H = x * P
      BY <1>2, <2>1, Zenon
    <3>2. n * x \in Nat /\ n * H = (n * x) * P
      BY <1>2, <3>1
    <3>3. (n * x) * P <= n * H /\ n * H <= (n * x) * P
      BY <1>4, <3>2
    <3>4. n * x <= Nearest(n * H, P) /\ Nearest(n * H, P) <= n * x /\ Nearest(n * H, P) \in Nat
      BY <1>2, <1>4, <3>2, <3>3, NearestBetween
    <3>5. Nearest(n * H, P) = n * x
      BY <3>2, <3>4
    <3> QED BY <1>3, <1>4, <3>2, <3>5
  <2>2. CASE ~(P < 2 * H)
    <3>1. n = P
      BY <1>1, <1>2, <1>4, <2>2 DEF H
    <3>2. H * P <= n * H /\ n * H <= H * P
      BY <1>1, <1>2, <3>1
    <3>3. H <= Nearest(n * H, P) /\ Nearest(n * H, P) <= H /\ Nearest(n * H, P) \in Nat
      BY <1>1, <1>2, <1>4, <3>2, NearestBetween
    <3>4. Nearest(n * H, P) = H
      BY <1>1, <3>3
    <3> QED BY <1>1, <1>2, <1>3, <1>4, <3>1, <3>4
  <2> QED BY <2>1, <2>2
<1>6. n * H <= n * H /\ n * H < n * H + H
  BY <1>1, <1>4
<1>7. (n * H) \div H = n
  BY <1>1, <1>4, <1>6, QuotientIs
<1> QED BY <1>5, <1>7 DEF AsFloat, H

\* A larger one is not rounded below that.
LEMMA LargeStaysLarge == ASSUME NEW n \in Nat, 2 * One < n PROVE AsFloat(n) \in Nat /\ 2 * One <= AsFloat(n)
<1> DEFINE H == One
<1>1. H \in Nat \ {0} /\ 1 <= n /\ 2 * H < n /\ 2 * H \in Nat
  BY OneIsHalf
<1>2. PICK P \in Nat \ {0} :
        /\ P = 2^Exponent(n, 1) /\ P * 1 <= n
        /\ P < 2 * H => (\E x \in Nat \ {0} : H = x * P)
  <2>1. n \in Nat /\ 1 \in Nat \ {0} /\ 1 <= n
    BY <1>1
  <2> QED BY <2>1, ExponentFits, Zenon
<1> HIDE DEF H
<1> DEFINE N == Nearest(n * H, P)
           T == 2 * H
<1>3. P <= n /\ n * H \in Nat /\ 1 * P = P
  BY <1>1, <1>2
<1>4. Rounded(n, 1) = N * P
  <2>1. Rounded(n, 1) = Nearest(n * H, 1 * P) * P
    BY <1>2, Zenon DEF Rounded, H
  <2> QED BY <1>3, <2>1
<1>5. N \in Nat /\ N * P \in Nat
  <2>1. N \in Nat
    BY <1>2, <1>3, NearestBetween
  <2> HIDE DEF N
  <2> QED BY <1>2, <2>1
<1>6. T * H <= N * P
  <2>1. CASE P < T
    <3>1. PICK x \in Nat \ {0} : H = x * P
      BY <1>2, <2>1, Zenon
    <3>2. T * x \in Nat /\ T * H = (T * x) * P /\ T * H \in Nat
      BY <1>1, <1>2, <3>1
    <3>3. T * H <= n * H
      BY <1>1, Products
    <3>4. T * x <= N
      BY <1>2, <1>3, <3>2, <3>3, NearestBetween
    <3>5. (T * x) * P <= N * P
      <4> HIDE DEF N, T
      <4> QED BY <1>2, <1>5, <3>2, <3>4, Products
    <3> QED BY <3>2, <3>5
  <2>2. CASE ~(P < T)
    <3>1. T <= P
      BY <1>1, <1>2, <2>2
    <3>2. P * H <= n * H /\ P * H = H * P
      BY <1>1, <1>2, <1>3, Products
    <3>3. H <= N
      BY <1>1, <1>2, <1>3, <3>2, NearestBetween
    <3>4. H * P <= N * P
      <4> HIDE DEF N, T
      <4> QED BY <1>1, <1>2, <1>5, <3>3, Products
    <3>5. T * H <= P * H /\ T * H \in Nat /\ P * H \in Nat
      <4>1. T \in Nat /\ P \in Nat
        BY <1>1
      <4> HIDE DEF T
      <4> QED BY <1>1, <3>1, <4>1, Products
    <3> HIDE DEF N, T
    <3> QED BY <1>5, <3>2, <3>4, <3>5
  <2> QED BY <2>1, <2>2
<1>7. (N * P) \div H \in Nat /\ T <= (N * P) \div H
  <2> DEFINE y == N * P
             k == y \div H
  <2>1. y \in Nat /\ T * H <= y
    BY <1>5, <1>6
  <2> HIDE DEF N
  <2>2. k \in Nat /\ y % H \in 0 .. H - 1 /\ y = H * k + (y % H)
    <3> HIDE DEF y
    <3> QED BY <1>1, <2>1, Quotient
  <2>3. T \in Nat /\ T * H = H * T /\ H * T \in Nat
    BY <1>1
  <2> HIDE DEF y, k, T
  <2>4. CASE k < T
    <3>1. H * k + H <= H * T /\ H * k \in Nat
      BY <1>1, <2>2, <2>3, <2>4, Times
    <3> QED BY <1>1, <2>1, <2>2, <2>3, <3>1
  <2> QED BY <2>2, <2>3, <2>4 DEF k, y
<1> QED BY <1>4, <1>7 DEF AsFloat, H

\* total_pages, computed with floats, is the number of pages the rows fill, one
\* at least, as long as their number is one a float holds.
THEOREM TotalPagesIsExact ==
  ASSUME NEW q \in Queries, NEW n \in Nat, n <= 2^Significand
  PROVE  TotalPages(n, q) = IF n = 0 THEN 1 ELSE (n + GetPerPage(q) - 1) \div GetPerPage(q)
<1> DEFINE b == GetPerPage(q)
<1>1. b \in Nat \ {0} /\ n <= 2 * One /\ One \in Nat
  BY PageNumbers, OneIsHalf
<1> HIDE DEF b
<1>2. TotalPages(n, q) = IF n = 0 \/ AsFloat(n) <= AsFloat(b) THEN 1
                         ELSE (Rounded(AsFloat(n), AsFloat(b)) + One - 1) \div One
  BY DEF TotalPages, b
<1>3. CASE n = 0
  BY <1>2, <1>3
<1>4. CASE n # 0
  <2>1. AsFloat(n) = n
    BY <1>1, <1>4, SmallIsExact
  <2>2. CASE n <= b
    <3>1. n <= AsFloat(b)
      <4>1. CASE b <= 2 * One
        BY <1>1, <2>2, <4>1, SmallIsExact
      <4>2. CASE 2 * One < b
        <5>1. AsFloat(b) \in Nat /\ 2 * One <= AsFloat(b)
          BY <1>1, <4>2, LargeStaysLarge
        <5> QED BY <1>1, <5>1
      <4> QED BY <1>1, <4>1, <4>2
    <3>2. TotalPages(n, q) = 1
      BY <1>2, <2>1, <3>1
    <3>3. (n + b - 1) \div b = 1
      <4>1. n + b - 1 \in Nat /\ 1 * b <= n + b - 1 /\ n + b - 1 < 1 * b + b
        BY <1>1, <1>4, <2>2
      <4> QED BY <1>1, <4>1, QuotientIs
    <3> QED BY <1>4, <3>2, <3>3 DEF b
  <2>3. CASE ~(n <= b)
    <3>1. AsFloat(b) = b
      BY <1>1, <2>3, SmallIsExact
    <3>2. TotalPages(n, q) = (Rounded(n, b) + One - 1) \div One
      BY <1>2, <1>4, <2>1, <2>3, <3>1
    <3>3. (Rounded(n, b) + One - 1) \div One = (n + b - 1) \div b
      BY <1>1, <2>3, CeilingIsExact
    <3> QED BY <1>4, <3>2, <3>3 DEF b
  <2> QED BY <2>2, <2>3
<1> QED BY <1>3, <1>4

\* next_page names a page exactly if rows are left for it.
LEMMA NextPageIsExact ==
  ASSUME NEW q \in Queries, NEW n \in Nat, n <= 2^Significand
  PROVE  NextPage(n, q) = IF n > GetPage(q) * GetPerPage(q) THEN GetPage(q) + 1 ELSE None
<1> DEFINE b == GetPerPage(q)
           g == GetPage(q)
           c == (n + b - 1) \div b
<1>1. b \in Nat \ {0} /\ g \in Nat \ {0}
  BY PageNumbers
<1>2. NextPage(n, q) = IF g < TotalPages(n, q) THEN g + 1 ELSE None
  BY DEF NextPage
<1>3. TotalPages(n, q) = IF n = 0 THEN 1 ELSE c
  BY TotalPagesIsExact
<1> HIDE DEF b, g
<1>4. n # 0 => (g < c <=> g * b < n)
  <2>1. /\ c \in Nat /\ (n + b - 1) % b \in 0 .. b - 1
        /\ n + b - 1 = b * c + ((n + b - 1) % b)
    <3>1. n + b - 1 \in Nat
      BY <1>1
    <3> QED BY <1>1, <3>1, Quotient
  <2> HIDE DEF c
  <2>2. b * c \in Nat /\ g * b = b * g /\ b * g \in Nat
    BY <1>1, <2>1
  <2>3. CASE g < c
    <3>1. b * g + b <= b * c
      BY <1>1, <2>1, <2>3, Times
    <3> QED BY <1>1, <2>1, <2>2, <2>3, <3>1
  <2>4. CASE c <= g
    <3>1. c * b <= g * b /\ c * b = b * c
      BY <1>1, <2>1, <2>4, Products
    <3> QED BY <1>1, <2>1, <2>2, <2>4, <3>1
  <2> QED BY <1>1, <2>1, <2>3, <2>4
<1>5. g * b \in Nat
  BY <1>1
<1> HIDE DEF c
<1> QED BY <1>1, <1>2, <1>3, <1>4, <1>5 DEF g, b

\* What is below the width is not wrapped.
LEMMA SmallRemainder ==
  ASSUME NEW w \in Nat \ {0}, NEW x \in Nat, x < w
  PROVE  x % w = x
<1>1. x \div w = 0 /\ x = w * (x \div w) + (x % w) /\ x % w \in 0 .. w - 1
  <2>1. 0 * w <= x /\ x < 0 * w + w
    OBVIOUS
  <2> QED BY <2>1, QuotientIs, Quotient
<1>2. w * 0 = 0
  OBVIOUS
<1> QED BY <1>1, <1>2

\* While offset and row count are within the arithmetic of the code, the answer
\* built from the rows as they are is the one the query asks for.
LEMMA AnswerIsIdeal ==
  ASSUME NEW q \in Queries, NEW t, IsFiniteSet(Matching(t, q)),
         Exact(Cardinality(Matching(t, q)), q)
  PROVE  Body(Cardinality(Matching(t, q)), Shown(t, OnPage(Matching(t, q), q)), q) = Ideal(t, q)
<1> DEFINE rows == Matching(t, q)
           n == Cardinality(rows)
<1>1. n \in Nat /\ n <= 2^Significand
  BY FS_CardinalityType DEF Exact
<1>2. Offset(q) = (GetPage(q) - 1) * GetPerPage(q)
  <2> DEFINE x == (GetPage(q) - 1) * GetPerPage(q)
             w == 2^Width
  <2>1. x \in Nat
    <3>1. GetPage(q) - 1 \in Nat /\ GetPerPage(q) \in Nat
      BY PageNumbers
    <3> QED BY <3>1
  <2>2. w \in Nat \ {0} /\ x < w
    BY WidthAssumption, PowerIsPositive DEF Exact
  <2>3. Offset(q) = x % w
    BY DEF Offset
  <2> HIDE DEF x, w
  <2>4. x % w = x
    BY <2>1, <2>2, SmallRemainder
  <2> QED BY <2>3, <2>4 DEF x
<1>3. OnPage(rows, q) = {u \in rows : Rank(rows, q, u) \div GetPerPage(q) = GetPage(q) - 1}
  BY <1>2, PageIsIdeal
<1>4. TotalPages(n, q) = IF n = 0 THEN 1 ELSE (n + GetPerPage(q) - 1) \div GetPerPage(q)
  BY <1>1, TotalPagesIsExact
<1>5. NextPage(n, q) = IF n > GetPage(q) * GetPerPage(q) THEN GetPage(q) + 1 ELSE None
  BY <1>1, NextPageIsExact
<1>6. TotalCount(n) = n
  <2> DEFINE w == 2^Width
  <2>1. w \in Nat \ {0} /\ n < w
    BY WidthAssumption, PowerIsPositive DEF Exact
  <2> HIDE DEF w, n
  <2>2. n % w = n
    BY <1>1, <2>1, SmallRemainder
  <2> QED BY <2>2 DEF TotalCount, w
<1> HIDE DEF rows, n
<1> QED BY <1>3, <1>4, <1>5, <1>6 DEF Body, Ideal, rows, n

-----------------------------------------------------------------------------
(* Cached pages. *)

USE DEF Creates, ByUser
USE NoneIsNoProc

\* What a page at version v says is beside the point: v is not what readers get,
\* or a writer still has to announce its commit, or two took the same second.
Excused(v) == v # version \/ SameSecond \/ \E p \in Procs : Announcing(p)

\* The versions readers have been given so far.
Used(v) == v = 0 \/ \E p \in Procs : pc[p] = "done" /\ Stamped(p) /\ stamp[p] = v

\* The page shows what the rows are, and counts them.
Right(page, q) ==
  /\ page.counted = Cardinality(Matching(db, q))
  /\ page.rows = Shown(db, OnPage(Matching(db, q), q))

\* A writer has a stamp once it took one, a reader one that was announced; what
\* a reader has assembled is right or excused.
Own(p) ==
  /\ pc[p] = "bump" => stamp[p] # 0
  /\ stamp[p] # 0 => pc[p] \in {"bump", "done"} \/ (pc[p] # "idle" /\ Op(p) = "index")
  /\ pc[p] \in {"page", "count", "select", "fillpage"} => Used(stamp[p])
  /\ pc[p] = "select" =>
       list[p].counted = Cardinality(Matching(db, call[p].query)) \/ Excused(stamp[p])
  /\ pc[p] = "fillpage" => Right(list[p], call[p].query) \/ Excused(stamp[p])

PagesRight ==
  \A q \in Queries, v \in Versions :
    pages[<<Key(q), v>>] # None /\ ~Confused(q) => Right(pages[<<Key(q), v>>], q) \/ Excused(v)

Fresh ==
  /\ Used(version)
  /\ \A k \in PageKeys : pages[k] # None => Used(k[2])
  /\ PagesRight
  /\ \A p \in Procs : Own(p)

\* Nothing was asked and nothing is cached at first.
LEMMA FreshInit == Init => Fresh
<1> SUFFICES ASSUME Init PROVE Fresh
  OBVIOUS
<1>1. Used(version)
  BY DEF Init, Used
<1>2. \A k \in PageKeys : pages[k] = None
  BY DEF Init
<1>3. ASSUME NEW q \in Queries, NEW v \in Versions PROVE pages[<<Key(q), v>>] = None
  <2>1. <<Key(q), v>> \in PageKeys
    BY DEF PageKeys
  <2> QED BY <1>2, <2>1
<1>4. \A p \in Procs : Own(p)
  BY DEF Init, Own
<1> QED BY <1>1, <1>2, <1>3, <1>4 DEF Fresh, PagesRight

\* A step of p neither moves the version nor undoes what p has announced.
Calm(p) ==
  /\ Alone(p) /\ version' = version /\ pc[p] # "done"
  /\ Stamped(p) => Stamped(p)' /\ stamp'[p] = stamp[p]
  /\ Announcing(p) => Announcing(p)'

\* Such a step leaves used what was used, and excused what was excused.
LEMMA CalmKeeps ==
  ASSUME NEW p \in Procs, Calm(p), NEW v
  PROVE  /\ Used(v) => Used(v)'
         /\ Excused(v) => Excused(v)'
<1>1. ASSUME NEW q \in Procs \ {p} PROVE Stamped(q)' = Stamped(q) /\ Announcing(q)' = Announcing(q)
  BY DEF Calm, Alone, OthersStay, Stamped, Announcing, Op
<1>2. ASSUME NEW q \in Procs, Stamped(q) PROVE Stamped(q)' /\ stamp'[q] = stamp[q]
  BY <1>1, <1>2 DEF Calm, Alone
<1>3. ASSUME NEW q \in Procs, Announcing(q) PROVE Announcing(q)'
  BY <1>1, <1>3 DEF Calm
<1>4. ASSUME NEW q \in Procs, pc[q] = "done" PROVE pc'[q] = "done"
  BY <1>4 DEF Calm, Alone, OthersStay
<1>5. Used(v) => Used(v)'
  BY <1>2, <1>4 DEF Used
<1>6. SameSecond => SameSecond'
  BY <1>2 DEF SameSecond
<1>7. Excused(v) => Excused(v)'
  BY <1>3, <1>6 DEF Excused, Calm
<1> QED BY <1>5, <1>7

\* Where neither the table nor the pages change, only the request that made the
\* step may have new obligations.
LEMMA CalmStep ==
  ASSUME Fresh, NEW p \in Procs, Calm(p), db' = db, pages' = pages, Own(p)'
  PROVE  Fresh'
<1>1. ASSUME NEW v PROVE (Used(v) => Used(v)') /\ (Excused(v) => Excused(v)')
  BY CalmKeeps
<1>2. ASSUME NEW page, NEW q PROVE Right(page, q)' = Right(page, q)
  BY DEF Right, Matching, Shown
<1>3. ASSUME NEW q \in Procs PROVE Own(q)'
  <2>1. CASE q = p
    BY <2>1
  <2>2. CASE q # p
    <3>1. /\ pc'[q] = pc[q] /\ stamp'[q] = stamp[q] /\ list'[q] = list[q]
          /\ call'[q] = call[q] /\ Op(q)' = Op(q)
      BY <2>2 DEF Calm, Alone, OthersStay, Op
    <3>2. Own(q)
      BY DEF Fresh
    <3>3. Cardinality(Matching(db, call[q].query))' = Cardinality(Matching(db, call[q].query))
      BY <3>1 DEF Matching
    <3>4. Right(list[q], call[q].query)' = Right(list[q], call[q].query)
      BY <3>1 DEF Right, Matching, Shown
    <3> QED BY <1>1, <3>1, <3>2, <3>3, <3>4 DEF Own
  <2> QED BY <2>1, <2>2
<1>4. Used(version)'
  <2>1. Used(version) /\ version' = version
    BY DEF Fresh, Calm
  <2> QED BY <1>1, <2>1 DEF Used
<1>5. ASSUME NEW k \in PageKeys, pages'[k] # None PROVE Used(k[2])'
  BY <1>1, <1>5 DEF Fresh
<1>6. PagesRight'
  BY <1>1, <1>2 DEF Fresh, PagesRight
<1> QED BY <1>3, <1>4, <1>5, <1>6 DEF Fresh

\* Every step of a request but the store of a version is calm, as long as no
\* handler is cut short.
LEMMA StepIsCalm ==
  ASSUME IInv, Fresh, ~CacheFaults, ~Aborts,
         NEW p \in Procs, Arrive(p) \/ Handle(p), ~Bump(p)
  PROVE  /\ Calm(p)
         /\ pc[p] \notin {"idle", "version", "page", "count", "select", "fillpage"} => stamp[p] = 0
<1>1. TypeOK /\ OnPath /\ Alone(p) /\ Own(p)
  BY StepsAlone DEF IInv, Fresh
<1>2. pc[p] # "done" /\ pc[p] # "bump"
  BY ActionAt DEF Abort
<1>3. version' = version
  BY DEF Handle, Writing, Getting, Indexing, Arrive, Start, ValidateCall, Begin, LockRow,
     Insert, UpdateRow, RestoreRow, DeleteRow, Commit, DropProfile, Stamp, Lookup, Read, Fill,
     ReadVersion, LookupPage, CountRows, SelectRows, FillPage, cache
<1>4. ~Stamped(p)
  BY <1>1, <1>2 DEF Own, Stamped
<1>5. Announcing(p) => Announcing(p)'
  <2>1. CASE pc[p] = "drop"
    BY <1>1, <2>1, ActionAt, LeadsTo DEF Abort, Announcing
  <2>2. CASE pc[p] = "stamp"
    BY <1>1, <2>2, ActionAt, LeadsTo DEF Abort, Announcing
  <2> QED BY <1>2, <2>1, <2>2 DEF Announcing
<1>6. pc[p] \notin {"idle", "version", "page", "count", "select", "fillpage"} => stamp[p] = 0
  <2> SUFFICES ASSUME pc[p] \notin {"idle", "version", "page", "count", "select", "fillpage"}
               PROVE  Op(p) # "index"
    BY <1>1, <1>2 DEF Own
  <2>1. pc[p] \in {"validate", "begin", "lock", "write", "commit", "drop", "stamp", "lookup", "read", "fill"}
    BY <1>1, <1>2 DEF TypeOK, Steps
  <2> QED BY <1>1, <2>1 DEF OnPath
<1> QED BY <1>1, <1>2, <1>3, <1>4, <1>5, <1>6 DEF Calm

\* What is asked of a request that holds no stamp and reads no page: nothing.
LEMMA OwnsNothing ==
  ASSUME NEW p \in Procs, stamp'[p] = 0,
         pc'[p] \notin {"bump", "page", "count", "select", "fillpage"}
  PROVE  Own(p)'
BY DEF Own

\* The steps of requests that look at no page.
LEMMA FreshElsewhere ==
  ASSUME IInv, Fresh, ~CacheFaults, ~Aborts, NEW p \in Procs,
         \/ Arrive(p) \/ ValidateCall(p) \/ Begin(p) \/ LockRow(p) \/ Insert(p) \/ UpdateRow(p)
         \/ RestoreRow(p) \/ DeleteRow(p) \/ DropProfile(p) \/ Getting(p)
  PROVE  Fresh'
<1>1. TypeOK /\ OnPath /\ Own(p)
  BY DEF IInv, Fresh
<1>2. (Arrive(p) \/ Handle(p)) /\ ~Bump(p)
  BY DEF Handle, Writing, Getting, Arrive, Start, ValidateCall, Begin, LockRow, Insert, UpdateRow,
     RestoreRow, DeleteRow, DropProfile, Lookup, Read, Fill, Bump
<1>3. Calm(p)
  BY <1>2, StepIsCalm
<1>4. db' = db /\ pages' = pages /\ stamp' = stamp
  BY DEF Getting, Arrive, Start, ValidateCall, Begin, LockRow, Insert, UpdateRow,
     RestoreRow, DeleteRow, DropProfile, Lookup, Read, Fill, store, cache, locals
<1>5. stamp[p] = 0
  <2>1. pc[p] \notin {"version", "page", "count", "select", "fillpage"}
    BY DEF Getting, Arrive, Start, ValidateCall, Begin, LockRow, Insert, UpdateRow,
       RestoreRow, DeleteRow, DropProfile, Lookup, Read, Fill
  <2>2. pc[p] = "idle" => stamp[p] = 0
    BY <1>1 DEF Own
  <2> QED BY <1>2, <2>1, <2>2, StepIsCalm
<1>6. pc'[p] \notin {"bump", "page", "count", "select", "fillpage"}
  BY <1>1, LeadsTo DEF Getting
<1> QED BY <1>3, <1>4, <1>5, <1>6, OwnsNothing, CalmStep

\* A writer that took its second has not announced it yet.
LEMMA FreshStamp ==
  ASSUME IInv, Fresh, ~CacheFaults, ~Aborts, NEW p \in Procs, Stamp(p)
  PROVE  Fresh'
<1>1. TypeOK /\ OnPath
  BY DEF IInv
<1>2. Handle(p) /\ ~Bump(p)
  BY DEF Handle, Writing, Stamp, Bump
<1>3. Calm(p) /\ db' = db /\ pages' = pages
  BY <1>2, StepIsCalm DEF Stamp, store, cache
<1>4. pc'[p] = "bump" /\ stamp'[p] # 0
  BY <1>1 DEF Stamp, Goto, TypeOK
<1>5. Own(p)'
  BY <1>4 DEF Own
<1> QED BY <1>3, <1>5, CalmStep

\* A reader is given the version as it is.
LEMMA FreshReadVersion ==
  ASSUME IInv, Fresh, ~CacheFaults, ~Aborts, NEW p \in Procs, ReadVersion(p)
  PROVE  Fresh'
<1>1. TypeOK /\ OnPath
  BY DEF IInv
<1>2. Handle(p) /\ ~Bump(p)
  BY DEF Handle, Indexing, ReadVersion, Bump
<1>3. Calm(p) /\ db' = db /\ pages' = pages /\ call' = call
  BY <1>2, StepIsCalm DEF ReadVersion, store, cache
<1>4. pc'[p] = "page" /\ stamp'[p] = version /\ Op(p)' = "index"
  BY <1>1, <1>3 DEF ReadVersion, Goto, TypeOK, OnPath, Op
<1>5. Used(version) => Used(version)'
  <2>1. version' = version
    BY <1>3 DEF Calm
  <2>2. ASSUME NEW v PROVE Used(v) => Used(v)'
    BY <1>3, CalmKeeps
  <2> QED BY <2>1, <2>2 DEF Used
<1>6. Used(stamp[p])'
  <2>1. Used(version)' /\ stamp'[p] = version'
    BY <1>3, <1>4, <1>5 DEF Fresh, Calm
  <2> QED BY <2>1 DEF Used
<1>7. Own(p)'
  BY <1>4, <1>6 DEF Own
<1> QED BY <1>3, <1>7, CalmStep

\* It answers with the page of that version, or counts.
LEMMA FreshLookupPage ==
  ASSUME IInv, Fresh, ~CacheFaults, ~Aborts, NEW p \in Procs, LookupPage(p)
  PROVE  Fresh'
<1>1. TypeOK /\ OnPath /\ Own(p)
  BY DEF IInv, Fresh
<1>2. Handle(p) /\ ~Bump(p)
  BY DEF Handle, Indexing, LookupPage, Bump
<1>3. Calm(p) /\ db' = db /\ pages' = pages /\ call' = call /\ stamp' = stamp /\ pc[p] = "page"
  BY <1>2, StepIsCalm DEF LookupPage, store, cache
<1>4. pc'[p] \in {"count", "done"} /\ Op(p)' = "index"
  BY <1>1, <1>3, LeadsTo DEF OnPath, Op
<1>5. Used(stamp[p])'
  <2>1. Used(stamp[p])
    BY <1>1, <1>3 DEF Own
  <2>2. ASSUME NEW v PROVE Used(v) => Used(v)'
    BY <1>3, CalmKeeps
  <2> QED BY <1>3, <2>1, <2>2 DEF Used
<1>6. Own(p)'
  BY <1>4, <1>5 DEF Own
<1> QED BY <1>3, <1>6, CalmStep

\* COUNT(*) is right when it is made.
LEMMA FreshCountRows ==
  ASSUME IInv, Fresh, ~CacheFaults, ~Aborts, NEW p \in Procs, CountRows(p)
  PROVE  Fresh'
<1>1. TypeOK /\ OnPath /\ Own(p)
  BY DEF IInv, Fresh
<1>2. Handle(p) /\ ~Bump(p)
  BY DEF Handle, Indexing, CountRows, Bump
<1>3. Calm(p) /\ db' = db /\ pages' = pages /\ call' = call /\ stamp' = stamp /\ pc[p] = "count"
  BY <1>2, StepIsCalm DEF CountRows, store, cache
<1>4. pc'[p] = "select" /\ Op(p)' = "index"
  BY <1>1, <1>3, LeadsTo DEF OnPath, Op
<1>5. Used(stamp[p])'
  <2>1. Used(stamp[p])
    BY <1>1, <1>3 DEF Own
  <2>2. ASSUME NEW v PROVE Used(v) => Used(v)'
    BY <1>3, CalmKeeps
  <2> QED BY <1>3, <2>1, <2>2 DEF Used
<1>6. list'[p].counted = Cardinality(Matching(db, call[p].query))'
  <2>1. list'[p].counted = Cardinality(Matching(db, call[p].query))
    BY <1>1 DEF CountRows, TypeOK
  <2> QED BY <1>3, <2>1 DEF Matching
<1>7. Own(p)'
  BY <1>4, <1>5, <1>6 DEF Own
<1> QED BY <1>3, <1>7, CalmStep

\* The rows are right when they are read; whether the count still is was decided
\* by what was committed in between.
LEMMA FreshSelectRows ==
  ASSUME IInv, Fresh, ~CacheFaults, ~Aborts, NEW p \in Procs, SelectRows(p)
  PROVE  Fresh'
<1>1. TypeOK /\ OnPath /\ Own(p)
  BY DEF IInv, Fresh
<1>2. Handle(p) /\ ~Bump(p)
  BY DEF Handle, Indexing, SelectRows, Bump
<1>3. Calm(p) /\ db' = db /\ pages' = pages /\ call' = call /\ stamp' = stamp /\ pc[p] = "select"
  BY <1>2, StepIsCalm DEF SelectRows, store, cache
<1>4. pc'[p] = "fillpage" /\ Op(p)' = "index"
  BY <1>1, <1>3, LeadsTo DEF OnPath, Op
<1>5. ASSUME NEW v PROVE (Used(v) => Used(v)') /\ (Excused(v) => Excused(v)')
  BY <1>3, CalmKeeps
<1>6. Used(stamp[p])'
  <2>1. Used(stamp[p])
    BY <1>1, <1>3 DEF Own
  <2> QED BY <1>3, <1>5, <2>1 DEF Used
<1> DEFINE q == call[p].query
<1>7. list'[p].rows = Shown(db, OnPage(Matching(db, q), q)) /\ list'[p].counted = list[p].counted
  <2>1. list[p] \in Page
    BY <1>1, <1>3 DEF TypeOK, OnPath
  <2> DEFINE s == Shown(db, OnPage(Matching(db, q), q))
  <2>2. list'[p] = [list[p] EXCEPT !.rows = s]
    BY <1>1 DEF SelectRows, TypeOK
  <2> HIDE DEF s
  <2> QED BY <2>1, <2>2 DEF Page, s
<1>8. Right(list[p], call[p].query)' \/ Excused(stamp[p])'
  <2>1. CASE list[p].counted = Cardinality(Matching(db, q))
    <3>1. Right(list'[p], q)
      BY <1>7, <2>1 DEF Right
    <3> QED BY <1>3, <3>1 DEF Right, Matching, Shown
  <2>2. CASE Excused(stamp[p])
    BY <1>3, <1>5, <2>2 DEF Excused
  <2> QED BY <1>1, <1>3, <2>1, <2>2 DEF Own
<1>9. Own(p)'
  BY <1>4, <1>6, <1>8 DEF Own
<1> QED BY <1>3, <1>9, CalmStep

\* From its commit until it stored its version, a writer excuses every page.
LEMMA FreshCommit ==
  ASSUME IInv, Fresh, ~CacheFaults, ~Aborts, NEW p \in Procs, Commit(p)
  PROVE  Fresh'
<1>1. TypeOK /\ OnPath
  BY DEF IInv
<1>2. Handle(p) /\ ~Bump(p) /\ pc[p] = "commit"
  BY DEF Handle, Writing, Commit, Bump
<1>3. Calm(p) /\ stamp[p] = 0 /\ pages' = pages /\ stamp' = stamp
  BY <1>2, StepIsCalm DEF Commit, cache, locals
<1>4. pc'[p] \in {"drop", "stamp"}
  BY <1>1, LeadsTo DEF AfterCommit
<1>5. ASSUME NEW v PROVE Excused(v)' /\ (Used(v) => Used(v)')
  BY <1>3, <1>4, CalmKeeps DEF Excused, Announcing
<1>6. ASSUME NEW q \in Procs PROVE Own(q)'
  <2>1. CASE q = p
    BY <1>3, <1>4, <2>1, OwnsNothing
  <2>2. CASE q # p
    <3>1. pc'[q] = pc[q] /\ stamp'[q] = stamp[q] /\ Op(q)' = Op(q)
      BY <1>3, <2>2 DEF Calm, Alone, OthersStay, Op
    <3>2. Own(q)
      BY DEF Fresh
    <3>3. Excused(stamp[q])' /\ (Used(stamp[q]) => Used(stamp[q])')
      BY <1>3, <1>5 DEF Excused, Used
    <3> QED BY <3>1, <3>2, <3>3 DEF Own
  <2> QED BY <2>1, <2>2
<1>7. Used(version)'
  <2>1. Used(version) /\ version' = version
    BY <1>3 DEF Fresh, Calm
  <2> QED BY <1>5, <2>1 DEF Used
<1>8. ASSUME NEW k \in PageKeys, pages'[k] # None PROVE Used(k[2])'
  BY <1>3, <1>5, <1>8 DEF Fresh
<1>9. PagesRight'
  BY <1>5 DEF PagesRight
<1> QED BY <1>6, <1>7, <1>8, <1>9 DEF Fresh

\* When a version is stored, readers move to pages nobody has filled yet, unless
\* another writer has stored the same second.
LEMMA FreshBump ==
  ASSUME IInv, Fresh, ~CacheFaults, ~Aborts, NEW p \in Procs, Bump(p)
  PROVE  Fresh'
<1>1. TypeOK /\ OnPath /\ Alone(p) /\ Own(p)
  BY StepsAlone DEF IInv, Fresh, Handle, Writing
<1>2. /\ pc[p] = "bump" /\ version' = stamp[p] /\ db' = db /\ pages' = pages
      /\ stamp' = stamp /\ call' = call /\ list' = list
  BY DEF Bump, store
<1>3. pc'[p] = "done"
  BY <1>1, LeadsTo
<1>4. stamp[p] # 0 /\ Op(p) # "index" /\ Op(p)' = Op(p)
  BY <1>1, <1>2 DEF Own, OnPath, Op
<1>5. Stamped(p) /\ Stamped(p)'
  BY <1>2, <1>3, <1>4 DEF Stamped
<1>6. ASSUME NEW q \in Procs, Stamped(q) PROVE Stamped(q)' /\ stamp'[q] = stamp[q]
  BY <1>1, <1>2, <1>5, <1>6 DEF Stamped, Alone, OthersStay, Op
<1>7. ASSUME NEW v, Used(v) PROVE Used(v)' /\ Excused(v)'
  <2>1. Used(v)'
    <3>1. ASSUME NEW q \in Procs, pc[q] = "done" PROVE pc'[q] = "done"
      BY <1>1, <1>3, <3>1 DEF Alone, OthersStay
    <3> QED BY <1>6, <1>7, <3>1 DEF Used
  <2>2. CASE v = stamp[p]
    <3>1. PICK q \in Procs : pc[q] = "done" /\ Stamped(q) /\ stamp[q] = stamp[p]
      BY <1>4, <1>7, <2>2 DEF Used
    <3>2. q # p
      BY <1>2, <3>1
    <3>3. SameSecond'
      BY <1>2, <1>5, <1>6, <3>1, <3>2 DEF SameSecond
    <3> QED BY <2>1, <3>3 DEF Excused
  <2>3. CASE v # stamp[p]
    BY <1>2, <2>1, <2>3 DEF Excused
  <2> QED BY <2>2, <2>3
<1>8. Used(version)'
  <2>1. pc'[p] = "done" /\ Stamped(p)' /\ stamp'[p] = version'
    BY <1>2, <1>3, <1>5
  <2> QED BY <2>1 DEF Used
<1>9. ASSUME NEW q \in Procs PROVE Own(q)'
  <2>1. CASE q = p
    BY <1>3, <1>4, <2>1 DEF Own
  <2>2. CASE q # p
    <3>1. pc'[q] = pc[q] /\ Op(q)' = Op(q)
      BY <1>1, <2>2 DEF Alone, OthersStay, Op
    <3>2. Own(q)
      BY DEF Fresh
    <3>3. Used(stamp[q]) => Used(stamp[q])' /\ Excused(stamp[q])'
      BY <1>2, <1>7 DEF Excused, Used
    <3> QED BY <1>2, <3>1, <3>2, <3>3 DEF Own
  <2> QED BY <2>1, <2>2
<1>10. ASSUME NEW k \in PageKeys, pages'[k] # None PROVE Used(k[2])'
  BY <1>2, <1>7, <1>10 DEF Fresh
<1>11. PagesRight'
  <2> SUFFICES ASSUME NEW q \in Queries, NEW v \in Versions, pages'[<<Key(q), v>>] # None
               PROVE  Excused(v)'
    BY DEF PagesRight
  <2>1. <<Key(q), v>> \in PageKeys
    BY DEF PageKeys
  <2>2. Used(v)
    BY <1>2, <2>1 DEF Fresh
  <2> QED BY <1>7, <2>2
<1> QED BY <1>8, <1>9, <1>10, <1>11 DEF Fresh

\* Two queries that share a key without being confused match the same rows and
\* show the same of them.
LEMMA SharedPage ==
  ASSUME NEW q \in Queries, NEW r \in Queries, Key(q) = Key(r), ~Confused(q), NEW page, Right(page, r)
  PROVE  Right(page, q)
<1>1. q.where = r.where \/ (~Ambiguous(q) /\ ~Ambiguous(r))
  BY DEF Confused
<1>2. /\ q.where = r.where /\ q.deleted = r.deleted /\ Order(q) = Order(r)
      /\ GetPage(q) = GetPage(r) /\ GetPerPage(q) = GetPerPage(r)
  <2>1. CASE q.where = r.where
    BY <2>1, SameFiltersSameKey
  <2>2. CASE ~Ambiguous(q) /\ ~Ambiguous(r)
    BY <2>2, KeyTellsApart
  <2> QED BY <1>1, <2>1, <2>2
<1>3. Matching(db, q) = Matching(db, r)
  BY <1>2 DEF Matching
<1>4. Offset(q) = Offset(r)
  BY <1>2 DEF Offset
<1>5. ASSUME NEW rows, NEW u PROVE Rank(rows, q, u) = Rank(rows, r, u)
  BY <1>2 DEF Rank
<1>6. ASSUME NEW rows PROVE OnPage(rows, q) = OnPage(rows, r)
  BY <1>2, <1>4, <1>5 DEF OnPage
<1> QED BY <1>3, <1>6, Zenon DEF Right

\* A page is stored as right, or as excused, as its reader had it.
LEMMA FreshFillPage ==
  ASSUME IInv, Fresh, ~CacheFaults, ~Aborts, NEW p \in Procs, FillPage(p)
  PROVE  Fresh'
<1>1. TypeOK /\ OnPath /\ Alone(p) /\ Own(p)
  BY StepsAlone DEF IInv, Fresh, Handle, Indexing
<1>2. Handle(p) /\ ~Bump(p) /\ pc[p] = "fillpage"
  BY DEF Handle, Indexing, FillPage, Bump
<1>3. /\ Calm(p) /\ db' = db /\ stamp' = stamp /\ call' = call /\ list' = list
      /\ pages' = [pages EXCEPT ![PageKey(p, stamp[p])] = list[p]]
  BY <1>2, StepIsCalm DEF FillPage, store
<1> DEFINE r == call[p].query
           new == <<Key(r), stamp[p]>>
<1>4. new \in PageKeys /\ r \in Queries /\ PageKey(p, stamp[p]) = new /\ Op(p) = "index"
  <2>1. Op(p) = "index" /\ call[p] \in Calls /\ stamp[p] \in Versions
    BY <1>1, <1>2 DEF OnPath, TypeOK
  <2>2. r \in Queries
    BY <2>1, CallsAssumption DEF Op, Call
  <2> QED BY <2>1, <2>2 DEF PageKey, PageKeys
<1>5. ASSUME NEW v PROVE (Used(v) => Used(v)') /\ (Excused(v) => Excused(v)')
  BY <1>3, CalmKeeps
<1>6. ASSUME NEW page, NEW q PROVE Right(page, q)' = Right(page, q)
  BY <1>3 DEF Right, Matching, Shown
<1>7. ASSUME NEW k \in PageKeys PROVE pages'[k] = IF k = new THEN list[p] ELSE pages[k]
  BY <1>1, <1>3, <1>4 DEF TypeOK
<1>8. ASSUME NEW k \in PageKeys, pages'[k] # None PROVE Used(k[2])'
  <2>1. CASE k = new
    <3>1. Used(stamp[p]) /\ k[2] = stamp[p]
      BY <1>1, <1>2, <2>1 DEF Own
    <3>2. Used(k[2])
      BY <3>1 DEF Used
    <3> QED BY <1>5, <3>2
  <2>2. CASE k # new
    BY <1>5, <1>7, <1>8, <2>2 DEF Fresh
  <2> QED BY <2>1, <2>2
<1>9. ASSUME NEW q \in Queries, NEW v \in Versions, pages'[<<Key(q), v>>] # None, ~Confused(q)
      PROVE  Right(pages[<<Key(q), v>>], q)' \/ Excused(v)'
  <2> DEFINE k == <<Key(q), v>>
  <2>1. k \in PageKeys
    BY DEF PageKeys
  <2>2. CASE k = new
    <3>1. Key(q) = Key(r) /\ v = stamp[p] /\ pages'[k] = list[p]
      BY <1>7, <2>1, <2>2
    <3>2. CASE Right(list[p], r)
      <4>1. Right(list[p], q)
        BY <1>4, <1>9, <3>1, <3>2, SharedPage
      <4> QED BY <1>3, <3>1, <4>1 DEF Right, Matching, Shown
    <3>3. CASE Excused(stamp[p])
      <4>1. Excused(v)
        BY <3>1, <3>3
      <4> QED BY <1>5, <4>1
    <3> QED BY <1>1, <1>2, <3>2, <3>3 DEF Own
  <2>3. CASE k # new
    <3>1. pages'[k] = pages[k]
      BY <1>7, <2>1, <2>3
    <3>2. Right(pages[k], q) \/ Excused(v)
      BY <1>9, <3>1 DEF Fresh, PagesRight
    <3> QED BY <1>3, <1>5, <3>1, <3>2 DEF Right, Matching, Shown
  <2> QED BY <2>2, <2>3
<1>10. ASSUME NEW q \in Procs PROVE Own(q)'
  <2>1. CASE q = p
    <3>1. pc'[p] = "done" /\ Op(p)' = "index"
      BY <1>1, <1>3, <1>4, LeadsTo DEF Op
    <3> QED BY <2>1, <3>1 DEF Own
  <2>2. CASE q # p
    <3>1. pc'[q] = pc[q] /\ Op(q)' = Op(q)
      BY <1>3, <2>2 DEF Calm, Alone, OthersStay, Op
    <3>2. Own(q)
      BY DEF Fresh
    <3>3. (Used(stamp[q]) => Used(stamp[q])') /\ (Excused(stamp[q]) => Excused(stamp[q])')
      BY <1>3, <1>5 DEF Excused, Used
    <3>4. Right(list[q], call[q].query)' = Right(list[q], call[q].query)
      BY <1>3 DEF Right, Matching, Shown
    <3>5. Cardinality(Matching(db, call[q].query))' = Cardinality(Matching(db, call[q].query))
      BY <1>3 DEF Matching
    <3> QED BY <1>3, <3>1, <3>2, <3>3, <3>4, <3>5 DEF Own
  <2> QED BY <2>1, <2>2
<1>11. Used(version)'
  <2>1. Used(version) /\ version' = version
    BY <1>3 DEF Fresh, Calm
  <2> QED BY <1>5, <2>1 DEF Used
<1> QED BY <1>8, <1>9, <1>10, <1>11 DEF Fresh, PagesRight

\* The clock and the time-to-live only take pages away.
LEMMA FreshEnvironment ==
  ASSUME IInv, Fresh, Expiry \/ Tick \/ UNCHANGED vars
  PROVE  Fresh'
<1>1. UNCHANGED <<db, version, pc, call, stamp, list>>
  BY DEF Expiry, ExpireProfile, ExpirePage, Tick, vars, store, cache, locals
<1>2. ASSUME NEW k \in PageKeys, pages'[k] # None PROVE pages'[k] = pages[k]
  <2>1. CASE \E u \in Users : ExpireProfile(u)
    BY <2>1 DEF ExpireProfile
  <2>2. CASE \E j \in PageKeys : ExpirePage(j)
    BY <1>2, <2>2 DEF ExpirePage, IInv, TypeOK
  <2>3. CASE Tick \/ UNCHANGED vars
    BY <2>3 DEF Tick, vars, cache
  <2> QED BY <2>1, <2>2, <2>3 DEF Expiry
<1>3. ASSUME NEW v PROVE Used(v)' = Used(v) /\ Excused(v)' = Excused(v)
  BY <1>1 DEF Used, Excused, SameSecond, Stamped, Announcing, Op
<1>4. ASSUME NEW page, NEW q PROVE Right(page, q)' = Right(page, q)
  BY <1>1 DEF Right, Matching, Shown
<1>5. ASSUME NEW p \in Procs PROVE Own(p)'
  <2>1. Own(p) /\ Op(p)' = Op(p)
    BY <1>1 DEF Fresh, Op
  <2>2. Used(stamp[p])' = Used(stamp[p]) /\ Excused(stamp[p])' = Excused(stamp[p])
    BY <1>1, <1>3 DEF Used, Excused
  <2>3. Cardinality(Matching(db, call[p].query))' = Cardinality(Matching(db, call[p].query))
    BY <1>1 DEF Matching
  <2>4. Right(list[p], call[p].query)' = Right(list[p], call[p].query)
    BY <1>1 DEF Right, Matching, Shown
  <2> QED BY <1>1, <2>1, <2>2, <2>3, <2>4 DEF Own
<1>6. Used(version)'
  BY <1>1 DEF Fresh, Used, Stamped, Op
<1>7. \A k \in PageKeys : pages'[k] # None => Used(k[2])'
  BY <1>2, <1>3 DEF Fresh
<1>8. ASSUME NEW q \in Queries, NEW v \in Versions, pages'[<<Key(q), v>>] # None, ~Confused(q)
      PROVE  Right(pages[<<Key(q), v>>], q)' \/ Excused(v)'
  <2>1. <<Key(q), v>> \in PageKeys
    BY DEF PageKeys
  <2>2. pages'[<<Key(q), v>>] = pages[<<Key(q), v>>]
    BY <1>2, <1>8, <2>1
  <2>3. Right(pages[<<Key(q), v>>], q) \/ Excused(v)
    BY <1>8, <2>2 DEF Fresh, PagesRight
  <2> QED BY <1>1, <1>3, <2>2, <2>3 DEF Right, Matching, Shown
<1> QED BY <1>5, <1>6, <1>7, <1>8 DEF Fresh, PagesRight

\* While Redis answers and no handler is cut short, Fresh is inductive beside IInv.
LEMMA FreshNext == ~CacheFaults /\ ~Aborts /\ IInv /\ Fresh /\ [Next]_vars => Fresh'
<1> SUFFICES ASSUME ~CacheFaults, ~Aborts, IInv, Fresh, [Next]_vars PROVE Fresh'
  OBVIOUS
<1>1. ASSUME NEW p \in Procs, Arrive(p) \/ Handle(p) PROVE Fresh'
  BY <1>1, FreshElsewhere, FreshCommit, FreshStamp, FreshBump, FreshReadVersion, FreshLookupPage,
     FreshCountRows, FreshSelectRows, FreshFillPage DEF Handle, Writing, Indexing
<1>2. ASSUME NEW p \in Procs PROVE ~Abort(p)
  BY DEF Abort
<1>3. CASE Expiry \/ Tick \/ UNCHANGED vars
  BY <1>3, FreshEnvironment
<1> QED BY <1>1, <1>2, <1>3 DEF Next

\* What the version leads to is right, so its answer is the ideal one.
LEMMA FreshIsIdeal == ~CacheFaults /\ ~Aborts /\ IInv /\ Fresh => IndexFresh
<1> SUFFICES ASSUME ~CacheFaults, ~Aborts, IInv, Fresh, NEW q \in Queries,
                    pages[<<Key(q), version>>] # None, ~Confused(q),
                    Exact(Cardinality(Matching(db, q)), q),
                    ~(SameSecond \/ \E p \in Procs : Announcing(p))
             PROVE  Body(pages[<<Key(q), version>>].counted, pages[<<Key(q), version>>].rows, q)
                      = Ideal(db, q)
  BY Zenon DEF IndexFresh
<1> DEFINE page == pages[<<Key(q), version>>]
<1>1. version \in Versions /\ ~Excused(version)
  BY DEF IInv, TypeOK, Excused
<1>2. Right(page, q)
  <2>1. \A v \in Versions : pages[<<Key(q), v>>] # None => Right(pages[<<Key(q), v>>], q) \/ Excused(v)
    BY Zenon DEF Fresh, PagesRight
  <2> QED BY <1>1, <2>1, Zenon
<1>3. IsFiniteSet(Matching(db, q))
  BY UsersAssumption, FS_Subset DEF Matching
<1>4. Body(Cardinality(Matching(db, q)), Shown(db, OnPage(Matching(db, q), q)), q) = Ideal(db, q)
  BY <1>3, AnswerIsIdeal
<1> QED BY <1>2, <1>4, Zenon DEF Right

\* The cached page of the current version is what its query asks of the table as
\* it is, once every writer has announced its commit, no two in one second.
THEOREM IndexIsFresh == Spec => []IndexFresh
<1>1. CASE ~CacheFaults /\ ~Aborts
  <2>1. IInv /\ Fresh /\ [Next]_vars => Fresh'
    BY <1>1, FreshNext
  <2>2. IInv /\ Fresh => IndexFresh
    BY <1>1, FreshIsIdeal
  <2> QED BY <2>1, <2>2, FreshInit, Inductive, PTL DEF Spec
<1>2. CASE ~(~CacheFaults /\ ~Aborts)
  <2>1. IndexFresh
    BY <1>2 DEF IndexFresh
  <2> QED BY <2>1, PTL
<1> QED BY <1>1, <1>2
=============================================================================
