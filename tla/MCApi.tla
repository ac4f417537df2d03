-------------------------------- MODULE MCApi --------------------------------
(***************************************************************************)
(* Small instances of Api for TLC: an admin, a standard account, and an id *)
(* for one more.                                                           *)
(***************************************************************************)
EXTENDS Api, TLC

CONSTANTS u1, u2, u3, ann, bob, cid, r1, r2, r3

Plain(op, u) == [op |-> op, user |-> u, email |-> None, role |-> None,
                 status |-> None, deleted |-> "absent", strong |-> TRUE, query |-> None]
Browse(q) == [Plain("index", None) EXCEPT !.query = q]
With(op, e) == [Plain(op, None) EXCEPT !.email = e]
Account(e, q) == [email |-> e, role |-> q, status |-> 1, deleted |-> FALSE]
TokenOf(u, q) == [user |-> u, role |-> q, status |-> 1, exp |-> 1]

AdminAndUser == (u1 :> Account(ann, 0)) @@ (u2 :> Account(bob, 1)) @@ (u3 :> None)
TwoAdmins == (u1 :> Account(ann, 0)) @@ (u2 :> Account(bob, 0))
TrimNothing == (ann :> ann) @@ (bob :> bob) @@ (cid :> cid)

\* All of the table on one page, and more than a page may hold.
Everybody == [where |-> [f \in Filters |-> None], deleted |-> FALSE, order |-> None,
              page |-> None, per |-> None]
Browsing == {Everybody, [Everybody EXCEPT !.per = 101]}
ByAge == (u1 :> 1) @@ (u2 :> 2) @@ (u3 :> 3)

AdminToken == {TokenOf(u1, 0)}
BothTokens == {TokenOf(u1, 0), TokenOf(u2, 1)}
AdminTokens == {TokenOf(u1, 0), TokenOf(u2, 0)}

\* Everybody tries everything on everybody, with every field set.
Grabs == {[Plain("update", u2) EXCEPT !.role = 0, !.status = 0, !.deleted = "date"],
          [Plain("update_me", None) EXCEPT !.email = cid, !.role = 0, !.deleted = "null"],
          [With("create", cid) EXCEPT !.role = 0], With("register", cid),
          Plain("delete", u1), Plain("delete", u2), Plain("restore", u2),
          Plain("get", u2), Plain("me", None)} \cup {Browse(q) : q \in Queries}

\* Suspensions and deletions of the standard account; the first, sent with its
\* own token, is what it does meanwhile, without the status.
Suspensions == {[Plain("update", u2) EXCEPT !.status = 0], Plain("delete", u2)}

Deletions == {Plain("delete", u2), Plain("me", None)}

\* Logins, and updates of one account that want the email a registration is
\* after: they wait for each other's row, email and connection.
Sessions == {With("login", cid), With("register", cid), [Plain("update", u2) EXCEPT !.email = cid]}

Demotion == {[Plain("update", u1) EXCEPT !.role = 1], Plain("delete", u2)}

Symmetry == Permutations(Requests)

\* As long as the rows are no more than a float can count, their number of pages
\* is that of plain arithmetic, rounding included, for every size of a page.
ASSUME PagesAreExact ==
  \A n \in 0 .. 2^Significand, size \in 1 .. 2^Significand :
    TotalPages(n, [Everybody EXCEPT !.per = size]) = IF n = 0 THEN 1 ELSE (n + size - 1) \div size
=============================================================================
