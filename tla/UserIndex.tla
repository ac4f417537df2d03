------------------------------ MODULE UserIndex ------------------------------
(***************************************************************************)
(* What one query of the user index asks for, get_users_paginated: which   *)
(* rows it matches, which of them are on its page, what numbers the page   *)
(* carries, and under which key the cache keeps it.                        *)
(***************************************************************************)
EXTENDS UserRows, Sequences, FiniteSets

CONSTANTS
  Queries,     \* the queries of a behaviour
  Words,       \* the values of filters and of `order`, each the sequence of what '/'
               \* separates in it
  Like,        \* Like[f][w]: the values of column f that the filter word w matches
  Born,        \* Born[u]: when the row u is created, if it ever is
  Width,       \* bits of an integer: u32
  Significand  \* bits a float holds: 24 of an f32

Filters == {"email", "role", "status", "uuid"}

\* The query strings UserQueryParams and PaginationParams are parsed from.
IndexQuery == [where   : [Filters -> Words \cup {None}],
               deleted : BOOLEAN,
               order   : Words \cup {None},
               page    : Nat \cup {None},
               per     : Nat \cup {None}]

ASSUME QueriesAssumption == Queries \subseteq IndexQuery /\ Words \subseteq Seq(STRING)
ASSUME NoneIsNoWord == None \notin Words
ASSUME BornAssumption ==
  /\ \A u \in Users : Born[u] \in Nat
  /\ \A u, v \in Users : u # v => Born[u] # Born[v]
ASSUME WidthAssumption == Width \in Nat \ {0} /\ Significand \in Nat \ {0}

GetPage(q) == IF q.page \in {None, 0} THEN 1 ELSE q.page
GetPerPage(q) == IF q.per = None THEN 10 ELSE IF q.per = 0 THEN 1 ELSE q.per

\* pagination.validate()
TooMany(q) == q.per # None /\ q.per > 100

-----------------------------------------------------------------------------
(* The key. *)

Spelled(w) == IF w = None THEN <<"all">> ELSE w
Where(q) == Spelled(q.where["email"]) \o Spelled(q.where["role"])
              \o Spelled(q.where["status"]) \o Spelled(q.where["uuid"])
Order(q) == IF q.order = None THEN <<"desc">> ELSE q.order

\* users_index/<email>/<role>/<status>/<uuid>/<deleted>/<order>/<page>/<per_page>;
\* the words go in as they came.
Key(q) == Where(q) \o <<IF q.deleted THEN "true" ELSE "false">> \o Order(q)
            \o <<GetPage(q), GetPerPage(q)>>

-----------------------------------------------------------------------------
(* The rows. *)

Column(t, u, f) == IF f = "uuid" THEN u ELSE t[u][f]

\* WHERE 1=1 AND ..
Matching(t, q) ==
  {u \in Users :
     /\ t[u] # None /\ (t[u].deleted <=> q.deleted)
     /\ \A f \in Filters : q.where[f] = None \/ Column(t, u, f) \in Like[f][q.where[f]]}

\* ORDER BY created_at: how many of the rows come before u.
Rank(rows, q, u) ==
  Cardinality({v \in rows : IF Order(q) = <<"asc">> THEN Born[v] < Born[u] ELSE Born[v] > Born[u]})

\* Multiplied in u32, which wraps in a release build.
Offset(q) == ((GetPage(q) - 1) * GetPerPage(q)) % 2^Width

\* LIMIT per_page OFFSET offset
OnPage(rows, q) ==
  {u \in rows : Offset(q) <= Rank(rows, q, u) /\ Rank(rows, q, u) < Offset(q) + GetPerPage(q)}

\* The rows a page shows, as they are in t.
Shown(t, rows) == [u \in Users |-> IF u \in rows THEN t[u] ELSE None]

-----------------------------------------------------------------------------
(* The numbers. *)

\* The integer nearest to n / d, the even one of two.
Nearest(n, d) ==
  LET f == n \div d
      twice == 2 * (n % d)
  IN IF twice > d \/ (twice = d /\ f % 2 = 1) THEN f + 1 ELSE f

\* n / d >= 1 as a float, in units of One.
One == 2^(Significand - 1)
Exponent(n, d) == Cardinality({e \in 1 .. Width : 2^e * d <= n})
Rounded(n, d) == Nearest(n * One, d * 2^Exponent(n, d)) * 2^Exponent(n, d)
AsFloat(n) == Rounded(n, 1) \div One

\* (n as f32 / per as f32).ceil() as u32
TotalPages(n, q) ==
  LET a == AsFloat(n)
      b == AsFloat(GetPerPage(q))
  IN IF n = 0 \/ a <= b THEN 1 ELSE (Rounded(a, b) + One - 1) \div One

NextPage(n, q) == IF GetPage(q) < TotalPages(n, q) THEN GetPage(q) + 1 ELSE None

\* total_count as u32
TotalCount(n) == n % 2^Width

\* The body of the answer, but for what repeats the query.
Body(n, data, q) ==
  LET total == TotalCount(n) IN
  [total_count |-> total, total_pages |-> TotalPages(total, q),
   next_page |-> NextPage(total, q), data |-> data]

-----------------------------------------------------------------------------
(* What a page should be, in arithmetic without bounds. *)

Ideal(t, q) ==
  LET rows == Matching(t, q)
      n == Cardinality(rows)
      per == GetPerPage(q)
  IN [total_count |-> n,
      total_pages |-> IF n = 0 THEN 1 ELSE (n + per - 1) \div per,
      next_page   |-> IF n > GetPage(q) * per THEN GetPage(q) + 1 ELSE None,
      data        |-> Shown(t, {u \in rows : Rank(rows, q, u) \div per = GetPage(q) - 1})]

\* Where the arithmetic of the code is that arithmetic.
Exact(n, q) ==
  /\ (GetPage(q) - 1) * GetPerPage(q) < 2^Width
  /\ n < 2^Width /\ n <= 2^Significand

\* A word that is spelled like an absent filter, or like several words.
Ambiguous(q) ==
  \/ \E f \in Filters : q.where[f] # None /\ (q.where[f] = <<"all">> \/ Len(q.where[f]) # 1)
  \/ Len(Order(q)) # 1

\* Two queries with different answers that share a key because of such a word.
Confused(q) == \E r \in Queries : /\ r.where # q.where /\ Key(r) = Key(q)
                                  /\ Ambiguous(q) \/ Ambiguous(r)
=============================================================================
