------------------------------ MODULE UserTable ------------------------------
(***************************************************************************)
(* What the user service promises of the requests that write the table     *)
(* "users", with every request a single step between its arrival and its   *)
(* answer.  A request that is answered with success took effect, once, as  *)
(* exactly what it asked of the row as it was at that moment; one that is  *)
(* refused never did, and was refused for what the table or its own fields *)
(* said; one that failed did or did not.  Accounts are never removed, and  *)
(* no two of them, deleted or not, share an email.                         *)
(***************************************************************************)
EXTENDS UserRows

CONSTANTS
  Seed,      \* the table when the service starts
  Procs,     \* the requests
  Calls      \* what a request can ask for

VARIABLES
  db,        \* the committed content of the table
  asked,     \* what each request asked for, None before it arrives
  fate       \* what became of it

Fates == {"none",      \* not there yet
          "open",      \* not decided
          "applied",   \* in the table, and answered with success or still to be
          "absent",    \* refused: no such account (404)
          "invalid",   \* refused: not acceptable (422)
          "unsure"}    \* answered with a failure, or not at all (500)

vars == <<db, asked, fate>>

EmailsDiffer(t) ==
  \A u, v \in Users :
    u # v /\ t[u] # None /\ t[v] # None => t[u].email # t[v].email

Init == /\ db = Seed
        /\ asked = [p \in Procs |-> None]
        /\ fate = [p \in Procs |-> "none"]

Ask(p) ==
  /\ fate[p] = "none"
  /\ \E c \in Calls : asked' = [asked EXCEPT ![p] = c]
  /\ fate' = [fate EXCEPT ![p] = "open"]
  /\ UNCHANGED db

Decide(p, outcome) ==
  /\ fate[p] = "open"
  /\ fate' = [fate EXCEPT ![p] = outcome]
  /\ UNCHANGED asked

Store(u, r) == /\ db' = [db EXCEPT ![u] = r]
               /\ EmailsDiffer(db')

Insert(p) ==
  /\ Decide(p, "applied")
  /\ asked[p].op \in Creates
  /\ \E u \in Users : db[u] = None /\ Store(u, NewRow(asked[p]))

Update(p) ==
  LET u == asked[p].user IN
  /\ Decide(p, "applied")
  /\ asked[p].op = "update"
  /\ db[u] # None /\ AcceptsUpdate(db[u], asked[p])
  /\ Store(u, Updated(db[u], asked[p]))

Restore(p) ==
  LET u == asked[p].user IN
  /\ Decide(p, "applied")
  /\ asked[p].op = "restore"
  /\ db[u] # None /\ db[u].deleted
  /\ Store(u, Restored(db[u]))

SoftDelete(p) ==
  LET u == asked[p].user IN
  /\ Decide(p, "applied")
  /\ asked[p].op = "delete"
  /\ IsLive(db[u])
  /\ Store(u, Removed(db[u]))

\* Not Found is what the table says when it is said.
NotFound(p) ==
  LET c == asked[p] IN
  /\ Decide(p, "absent")
  /\ c.op \in {"update", "restore", "delete"}
  /\ db[c.user] = None \/ (c.op = "update" /\ ~AcceptsUpdate(db[c.user], c))
                       \/ (c.op = "delete" /\ db[c.user].deleted)
  /\ UNCHANGED db

\* A creation or an update is refused for its password or its email only, a
\* restore for an account that is not deleted.
Refuse(p) ==
  LET c == asked[p] IN
  /\ Decide(p, "invalid")
  /\ \/ c.op \in Creates \cup {"update"} /\ (~c.strong \/ c.email # None)
     \/ c.op = "restore" /\ IsLive(db[c.user])
  /\ UNCHANGED db

\* The answer is lost, or an error: before the request took effect or after.
Fail(p) ==
  /\ fate[p] \in {"open", "applied"}
  /\ fate' = [fate EXCEPT ![p] = "unsure"]
  /\ UNCHANGED <<db, asked>>

Next == \E p \in Procs :
  \/ Ask(p) \/ Insert(p) \/ Update(p) \/ Restore(p) \/ SoftDelete(p)
  \/ NotFound(p) \/ Refuse(p) \/ Fail(p)

Spec == Init /\ [][Next]_vars
=============================================================================
