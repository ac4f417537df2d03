------------------------------ MODULE UserRows ------------------------------
(***************************************************************************)
(* The rows of the table "users" and what the SQL of services/user.rs does *)
(* to one of them.  A row is reduced to the columns decisions depend on;   *)
(* name and password_digest are carried along by the same statements and   *)
(* never read back by this service, so they are left out.                  *)
(***************************************************************************)
EXTENDS Naturals

CONSTANTS
  Users,      \* the primary keys (UUIDs) that can occur
  Emails,     \* the spellings of an email address a request can carry
  None        \* Rust's None, SQL's "no such row", a free lock, a cache miss

Roles    == {0, 1}     \* 0 admin, 1 standard
Statuses == {0, 1}     \* 0 inactive, 1 active

Row == [email : Emails, role : Roles, status : Statuses, deleted : BOOLEAN]

\* The nullable timestamp of an update request is an Option<Option<..>>:
\* not in the body, an explicit null, or a date.
DeletedAt == {"absent", "null", "date"}

ASSUME NoneIsNoValue ==
  None \notin Users \cup Emails \cup Row \cup Nat

Coalesce(new, old) == IF new = None THEN old ELSE new

\* The requests that write, by what they ask for.
Creates == {"register", "create"}
Writers == Creates \cup {"update", "restore", "delete"}

\* INSERT INTO users: what a request c makes.  register() fixes role and status,
\* create_user() defaults them to 1.
NewRow(c) ==
  [email   |-> c.email,
   role    |-> IF c.op = "register" THEN 1 ELSE Coalesce(c.role, 1),
   status  |-> IF c.op = "register" THEN 1 ELSE Coalesce(c.status, 1),
   deleted |-> FALSE]

\* UPDATE users SET .. = COALESCE(..), deleted_at = CASE WHEN .. : what the
\* fields of a request body c make of the row r.
Updated(r, c) ==
  [email   |-> Coalesce(c.email, r.email),
   role    |-> Coalesce(c.role, r.role),
   status  |-> Coalesce(c.status, r.status),
   deleted |-> IF c.deleted = "absent" THEN r.deleted ELSE c.deleted = "date"]

Restored(r) == [r EXCEPT !.deleted = FALSE]
Removed(r)  == [r EXCEPT !.deleted = TRUE]

\* A soft-deleted row only accepts an update that undeletes it.
AcceptsUpdate(r, c) == r.deleted => c.deleted = "null"

\* The condition "WHERE id = .. AND deleted_at IS NULL" on what is stored.
IsLive(r) == r # None /\ ~r.deleted
=============================================================================
