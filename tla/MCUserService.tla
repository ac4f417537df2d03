---------------------------- MODULE MCUserService ----------------------------
(***************************************************************************)
(* Small instances of UserService for TLC.                                 *)
(***************************************************************************)
EXTENDS UserService, TLC

CONSTANTS p1, p2, p3, p4, u1, u2, u3, amy, ben, cid, amyPadded

Ask(op, u) == [op |-> op, user |-> u, email |-> None, role |-> None,
               status |-> None, deleted |-> "absent", strong |-> TRUE, query |-> None]
Browse(q) == [Ask("index", None) EXCEPT !.query = q]
Add(op, e) == [Ask(op, None) EXCEPT !.email = e]
Account(e) == [email |-> e, role |-> 1, status |-> 1, deleted |-> FALSE]

OnlyAccount == u1 :> Account(amy)
\* One live account, an unused id.
OneLive == (u1 :> Account(amy)) @@ (u2 :> None)
\* Two live accounts, an unused id.
TwoLive == (u1 :> Account(amy)) @@ (u2 :> Account(ben)) @@ (u3 :> None)
\* A live and a deleted account, an unused id.
LiveAndDeleted ==
  (u1 :> Account(amy)) @@ (u2 :> Removed(Account(ben))) @@ (u3 :> None)

TrimPadded == (amy :> amy) @@ (ben :> ben) @@ (amyPadded :> amy)
TrimNothing == (amy :> amy) @@ (ben :> ben)
TrimNone == TrimNothing @@ (cid :> cid)

\* Every kind of write, and updates that meet each branch of the handler.
Writes == {Add("register", ben), [Add("create", amy) EXCEPT !.strong = FALSE],
           [Add("create", amyPadded) EXCEPT !.role = 0],
           [Ask("update", u1) EXCEPT !.email = ben],
           [Ask("update", u1) EXCEPT !.role = 0, !.deleted = "date"],
           [Ask("update", u1) EXCEPT !.deleted = "null", !.status = 0],
           [Ask("update", u2) EXCEPT !.deleted = "null", !.email = amy],
           [Ask("update", u3) EXCEPT !.strong = FALSE],
           Ask("restore", u1), Ask("restore", u2),
           Ask("delete", u1), Ask("delete", u2)}

\* Readers of the index and writers that change it.
IndexCalls == {Browse(q) : q \in Queries}
                \cup {Ask("delete", u1), Ask("restore", u1), Add("register", cid)}

Anything == [f \in Filters |-> None]
Default == [where |-> Anything, deleted |-> FALSE, order |-> None, page |-> None, per |-> None]
Paged(n, size) == [Default EXCEPT !.order = <<"asc">>, !.page = n, !.per = size]
Standard == [Default EXCEPT !.where["role"] = <<"user">>]
Deleted == [Default EXCEPT !.deleted = TRUE, !.per = 0]
\* No id is spelled "all/false" and no order "false/desc", but the key of the one
\* query is that of the other, and one finds nobody and the other everybody.
Nobody == [Default EXCEPT !.where["uuid"] = <<"all", "false">>]
Everybody == [Default EXCEPT !.order = <<"false", "desc">>]

\* Second pages of both sizes, and a page beyond the width.
AnyQuery == {Everybody, Standard, Nobody, Deleted, Paged(2, 1), Paged(2, 2), Paged(3, 2)}

Spellings == {<<"user">>, <<"asc">>, <<"all", "false">>, <<"false", "desc">>}
Meanings == [f \in Filters |-> [w \in Spellings |-> IF f = "role" /\ w = <<"user">> THEN {1} ELSE {}]]
ByAge == (u1 :> 2) @@ (u2 :> 1) @@ (u3 :> 3)

\* Readers and writers of one account's profile, which contend for the pool, for
\* its row and for one email.
ProfileCalls == {Ask("get", u1), Ask("delete", u1), Ask("restore", u1),
                 [Ask("update", u1) EXCEPT !.email = ben], Add("register", ben)}

DuplicateCalls == {Add("register", ben)}

Symmetry == Permutations(Procs)
=============================================================================
