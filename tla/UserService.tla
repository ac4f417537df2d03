----------------------------- MODULE UserService -----------------------------
(***************************************************************************)
(* The user service, services/user.rs, as it runs: every process is one    *)
(* request whose handler awaits the connection pool, PostgreSQL and Redis, *)
(* so that requests interleave at every await.  A step is the code between *)
(* two awaits.  Beside the table the state holds the two caches the        *)
(* service keeps in Redis:                                                 *)
(*   - profile: one entry per account, filled by get_user, deleted by      *)
(*     every writer of the account after its commit;                       *)
(*   - pages: the answers of the user index, under the key of the query    *)
(*     and a version; writers move the version to the current second.      *)
(***************************************************************************)
EXTENDS UserIndex

CONSTANTS
  Procs,        \* the requests of a behaviour, one process each
  Calls,        \* what a request can ask for
  Seed,         \* the table when the service starts
  Trim,         \* Trim[e]: the email as the validations see it
  WellFormed,   \* the trimmed emails is_valid_email accepts
  PoolSize,     \* max_connections of the PostgreSQL pool
  CacheFaults,  \* whether a call to Redis may fail
  Aborts,       \* whether a handler may be cut short
  MaxNow        \* bound: the last second of a behaviour

Ops == {"register", "create", "update", "restore", "delete", "get", "index"}

Call == [op      : Ops,
         user    : Users \cup {None},     \* None unless the path names one
         email   : Emails \cup {None},
         role    : Roles \cup {None},
         status  : Statuses \cup {None},
         deleted : DeletedAt,
         strong  : BOOLEAN,               \* the password is absent or accepted
         query   : Queries \cup {None}]   \* of the index

Versions == 0 .. MaxNow
Listing == [Users -> Row \cup {None}]
Page == [counted : Nat, rows : Listing]
PageKeys == {Key(q) : q \in Queries} \X Versions

ByUser == {"update", "restore", "delete", "get"}

ASSUME UsersAssumption == IsFiniteSet(Users)
ASSUME NoneIsNoPage  == None \notin Page
ASSUME CallsAssumption ==
  /\ Calls \subseteq Call
  /\ \A c \in Calls : /\ c.op \in ByUser => c.user # None
                      /\ c.op \in Creates => c.email # None
                      /\ c.op = "index" => c.query # None
ASSUME SeedIsTable ==
  /\ Seed \in [Users -> Row \cup {None}]
  /\ \A u, v \in Users :
       u # v /\ Seed[u] # None /\ Seed[v] # None => Seed[u].email # Seed[v].email
ASSUME TrimAssumption == Trim \in [Emails -> Emails]
ASSUME NoneIsNoProc   == None \notin Procs
ASSUME BoundAssumption == MaxNow \in Nat \ {0} /\ PoolSize \in Nat \ {0}
ASSUME FlagAssumption == CacheFaults \in BOOLEAN /\ Aborts \in BOOLEAN

VARIABLES
  db,        \* the committed rows
  lock,      \* who holds the row lock (or the id of a row being inserted)
  profile,   \* Redis: user:profile:<id>
  version,   \* Redis: users_index_version, 0 while the key is absent
  pages,     \* Redis: users_index/<query>/<version>
  now,       \* Utc::now().timestamp()
  pc,        \* where the handler of each request stands
  call,      \* what it was asked
  row,       \* the row it read, or is about to commit
  stamp,     \* the version it computed (writers) or read (index)
  list,      \* the page it is assembling
  resp       \* the status it answered

store == <<db, lock>>
cache == <<profile, version, pages>>
locals == <<call, row, stamp, list, resp>>
vars == <<db, lock, profile, version, pages, now, pc, call, row, stamp, list, resp>>

Init ==
  /\ db = Seed
  /\ lock = [u \in Users |-> None]
  /\ profile = [u \in Users |-> None]
  /\ version = 0
  /\ pages = [k \in PageKeys |-> None]
  /\ now = 1
  /\ pc = [p \in Procs |-> "idle"]
  /\ call = [p \in Procs |-> None]
  /\ row = [p \in Procs |-> None]
  /\ stamp = [p \in Procs |-> 0]
  /\ list = [p \in Procs |-> None]
  /\ resp = [p \in Procs |-> None]

-----------------------------------------------------------------------------
(* What PostgreSQL and the pool decide. *)

Op(p) == call[p].op
Target(p) == call[p].user

\* A transaction keeps its connection from begin() to commit() or drop.
InTransaction == {p \in Procs : pc[p] \in {"lock", "write", "commit"}}
ConnectionFree == Cardinality(InTransaction) < PoolSize

\* EXISTS(SELECT 1 FROM users WHERE email = .. AND deleted_at IS NULL AND ..)
TakenByLive(e, self) == \E v \in Users \ {self} : IsLive(db[v]) /\ db[v].email = e

\* Faulty variant: a partial index, WHERE deleted_at IS NULL.
EmailUsedByLive(e, self) == TakenByLive(e, self)

\* The unique index spans deleted rows too.  A statement that meets a key some
\* open transaction writes or overwrites waits for that transaction to end.
EmailUsed(e, self) == \E v \in Users \ {self} : db[v] # None /\ db[v].email = e
EmailBusy(e, p) ==
  \E q \in Procs \ {p}, v \in Users :
    /\ pc[q] = "commit" /\ lock[v] = q
    /\ row[q].email = e \/ (db[v] # None /\ db[v].email = e)

LiveRow(u) == IF IsLive(db[u]) THEN db[u] ELSE None

-----------------------------------------------------------------------------
(* Control of one request. *)

Goto(p, l) == pc' = [pc EXCEPT ![p] = l]
Answer(p, code) == Goto(p, "done") /\ resp' = [resp EXCEPT ![p] = code]

FirstStep(op) == CASE op \in Creates \cup {"update"} -> "validate"
                   [] op \in {"restore", "delete"}   -> "begin"
                   [] op = "get"                     -> "lookup"
                   [] op = "index"                   -> "version"

\* A controller calls the service.
Start(p, c) ==
  /\ pc[p] = "idle"
  /\ call' = [call EXCEPT ![p] = c]
  /\ Goto(p, FirstStep(c.op))
  /\ UNCHANGED <<store, cache, now, row, stamp, list, resp>>

Arrive(p) == \E c \in Calls : Start(p, c)

\* validate_password and validate_user_create / validate_user_update.  A update
\* without an email asks the database nothing and checks its password later.
ValidateCall(p) ==
  LET c == call[p]
      self == IF c.op = "update" THEN c.user ELSE None
  IN
  /\ pc[p] = "validate"
  /\ \/ /\ c.op \in Creates /\ ~c.strong
        /\ Answer(p, 422)
     \/ /\ c.op \in Creates => c.strong
        /\ c.email # None /\ Trim[c.email] \notin WellFormed
        /\ Answer(p, 422)
     \/ /\ c.op \in Creates => c.strong
        /\ c.email # None /\ Trim[c.email] \in WellFormed
        /\ ConnectionFree
        /\ IF TakenByLive(Trim[c.email], self)
             THEN Answer(p, 422)
             ELSE Goto(p, "begin") /\ UNCHANGED resp
     \/ /\ c.email = None
        /\ Goto(p, "begin") /\ UNCHANGED resp
  /\ UNCHANGED <<store, cache, now, call, row, stamp, list>>

\* self.db.begin(): waits for a connection of the pool.
Begin(p) ==
  /\ pc[p] = "begin"
  /\ ConnectionFree
  /\ Goto(p, IF Op(p) \in {"update", "restore"} THEN "lock" ELSE "write")
  /\ UNCHANGED <<store, cache, now, locals>>

\* The status the checks on the locked row refuse with, None if they pass.
Refusal(r, c) ==
  IF c.op = "restore" THEN (IF r.deleted THEN None ELSE 422)
  ELSE IF ~AcceptsUpdate(r, c) THEN 404
  ELSE IF ~c.strong THEN 422
  ELSE None

\* Faulty variant: SELECT without FOR UPDATE.
PlainSelect(p, u) == UNCHANGED lock

ForUpdate(p, u) == lock[u] = None /\ lock' = [lock EXCEPT ![u] = p]

\* SELECT .. FOR UPDATE, then the checks on the row that was read.  An early
\* return drops the transaction, which rolls back and releases the row.
LockRow(p) ==
  LET u == Target(p)
      Refuse(code) == Answer(p, code) /\ UNCHANGED <<lock, row>>
  IN
  /\ pc[p] = "lock"
  /\ \/ db[u] = None /\ Refuse(404)
     \/ /\ db[u] # None /\ lock[u] = None
        /\ Refusal(db[u], call[p]) # None
        /\ Refuse(Refusal(db[u], call[p]))
     \/ /\ db[u] # None
        /\ Refusal(db[u], call[p]) = None
        /\ ForUpdate(p, u)
        /\ row' = [row EXCEPT ![p] = db[u]]
        /\ Goto(p, "write")
        /\ UNCHANGED resp
  /\ UNCHANGED <<db, cache, now, call, stamp, list>>

\* Faulty variant: runs the statement on the pool, not on the open transaction.
WrittenOnPool(p, u, r) ==
  /\ ConnectionFree
  /\ lock[u] \in {None, p}
  /\ lock' = [lock EXCEPT ![u] = p]
  /\ row' = [row EXCEPT ![p] = r]
  /\ Goto(p, "commit")
  /\ UNCHANGED resp

\* The statement got its row and succeeded: the commit will make r visible.
Written(p, u, r) ==
  /\ lock[u] \in {None, p}
  /\ lock' = [lock EXCEPT ![u] = p]
  /\ row' = [row EXCEPT ![p] = r]
  /\ Goto(p, "commit")
  /\ UNCHANGED resp

\* The end of a transaction, whatever its outcome.
Release(p) == lock' = [u \in Users |-> IF lock[u] = p THEN None ELSE lock[u]]

\* INSERT INTO users .. RETURNING ..
Insert(p) ==
  /\ pc[p] = "write" /\ Op(p) \in Creates
  /\ ~EmailBusy(call[p].email, p)
  /\ IF EmailUsed(call[p].email, None)
       THEN Answer(p, 500) /\ Release(p) /\ UNCHANGED row
       ELSE \E u \in Users : db[u] = None /\ Written(p, u, NewRow(call[p]))
  /\ UNCHANGED <<db, cache, now, call, stamp, list>>

\* Faulty variant: binds dto.role.unwrap_or(1), as create_user does.
UpdateDefaultingRole(p) ==
  LET u == Target(p)
      new == Updated(db[u], [call[p] EXCEPT !.role = Coalesce(@, 1)])
  IN
  /\ pc[p] = "write" /\ Op(p) = "update"
  /\ ~EmailBusy(new.email, p)
  /\ IF EmailUsed(new.email, u)
       THEN Answer(p, 500) /\ Release(p) /\ UNCHANGED row
       ELSE Written(p, u, new)
  /\ UNCHANGED <<db, cache, now, call, stamp, list>>

\* UPDATE users SET .. = COALESCE(..) .. RETURNING ..
UpdateRow(p) ==
  LET u == Target(p)
      new == Updated(db[u], call[p])
  IN
  /\ pc[p] = "write" /\ Op(p) = "update"
  /\ ~EmailBusy(new.email, p)
  /\ IF EmailUsed(new.email, u)
       THEN Answer(p, 500) /\ Release(p) /\ UNCHANGED row
       ELSE Written(p, u, new)
  /\ UNCHANGED <<db, cache, now, call, stamp, list>>

\* UPDATE users SET deleted_at = NULL ..
RestoreRow(p) ==
  /\ pc[p] = "write" /\ Op(p) = "restore"
  /\ Written(p, Target(p), Restored(db[Target(p)]))
  /\ UNCHANGED <<db, cache, now, call, stamp, list>>

\* Faulty variant: no "AND deleted_at IS NULL".
DeleteAnyRow(p) ==
  LET u == Target(p) IN
  /\ pc[p] = "write" /\ Op(p) = "delete"
  /\ \/ db[u] = None /\ Answer(p, 404) /\ UNCHANGED <<lock, row>>
     \/ db[u] # None /\ Written(p, u, Removed(db[u]))
  /\ UNCHANGED <<db, cache, now, call, stamp, list>>

\* UPDATE users SET deleted_at = NOW() WHERE .. AND deleted_at IS NULL, which
\* locks the row itself and counts no row unless it is live once locked.
DeleteRow(p) ==
  LET u == Target(p) IN
  /\ pc[p] = "write" /\ Op(p) = "delete"
  /\ \/ ~IsLive(db[u]) /\ Answer(p, 404) /\ UNCHANGED <<lock, row>>
     \/ IsLive(db[u]) /\ Written(p, u, Removed(db[u]))
  /\ UNCHANGED <<db, cache, now, call, stamp, list>>

\* Faulty variant: soft_delete_user leaves the profile in the cache.
AfterCommitKeepingDeleted(op) ==
  IF op \in Creates \cup {"delete"} THEN "stamp" ELSE "drop"

AfterCommit(op) == IF op \in Creates THEN "stamp" ELSE "drop"

\* tx.commit()
MakeVisible(p) == \E u \in Users : lock[u] = p /\ db' = [db EXCEPT ![u] = row[p]]

Commit(p) ==
  /\ pc[p] = "commit"
  /\ MakeVisible(p)
  /\ Release(p)
  /\ Goto(p, AfterCommit(Op(p)))
  /\ UNCHANGED <<cache, now, locals>>

-----------------------------------------------------------------------------
(* Invalidation, after the commit.  Errors of Redis are ignored. *)

\* cache.delete("user:profile:..")
DropProfile(p) ==
  /\ pc[p] = "drop"
  /\ \/ profile' = [profile EXCEPT ![Target(p)] = None]
     \/ CacheFaults /\ UNCHANGED profile
  /\ Goto(p, "stamp")
  /\ UNCHANGED <<store, version, pages, now, locals>>

\* Faulty variant: timestamp_millis().
StampMillis(p) ==
  /\ pc[p] = "stamp"
  /\ stamp' = [stamp EXCEPT ![p] = 1000 * now]
  /\ Goto(p, "bump")
  /\ UNCHANGED <<store, cache, now, call, row, list, resp>>

\* Utc::now().timestamp(), the argument of the next call
Stamp(p) ==
  /\ pc[p] = "stamp"
  /\ stamp' = [stamp EXCEPT ![p] = now]
  /\ Goto(p, "bump")
  /\ UNCHANGED <<store, cache, now, call, row, list, resp>>

\* cache.set("users_index_version", ..)
Bump(p) ==
  /\ pc[p] = "bump"
  /\ \/ version' = stamp[p]
     \/ CacheFaults /\ UNCHANGED version
  /\ Answer(p, 200)
  /\ UNCHANGED <<store, profile, pages, now, call, row, stamp, list>>

-----------------------------------------------------------------------------
(* get_user: lookup, read, fill. *)

Lookup(p) ==
  LET hit == profile[Target(p)] IN
  /\ pc[p] = "lookup"
  /\ \/ /\ hit # None
        /\ row' = [row EXCEPT ![p] = hit]
        /\ Answer(p, 200)
     \/ /\ hit = None \/ CacheFaults
        /\ Goto(p, "read")
        /\ UNCHANGED <<row, resp>>
  /\ UNCHANGED <<store, cache, now, call, stamp, list>>

Read(p) ==
  /\ pc[p] = "read"
  /\ ConnectionFree
  /\ IF IsLive(db[Target(p)])
       THEN /\ row' = [row EXCEPT ![p] = db[Target(p)]]
            /\ Goto(p, "fill")
            /\ UNCHANGED resp
       ELSE Answer(p, 404) /\ UNCHANGED row
  /\ UNCHANGED <<store, cache, now, call, stamp, list>>

Fill(p) ==
  /\ pc[p] = "fill"
  /\ \/ profile' = [profile EXCEPT ![Target(p)] = row[p]]
     \/ CacheFaults /\ UNCHANGED profile
  /\ Answer(p, 200)
  /\ UNCHANGED <<store, version, pages, now, call, row, stamp, list>>

-----------------------------------------------------------------------------
(* get_users_paginated: version, lookup, count, select, fill. *)

PageKey(p, v) == <<Key(call[p].query), v>>

\* An error reads as "no version", and no version reads as "0".
ReadVersion(p) ==
  /\ pc[p] = "version"
  /\ \/ stamp' = [stamp EXCEPT ![p] = version]
     \/ CacheFaults /\ stamp' = [stamp EXCEPT ![p] = 0]
  /\ Goto(p, "page")
  /\ UNCHANGED <<store, cache, now, call, row, list, resp>>

LookupPage(p) ==
  LET hit == pages[PageKey(p, stamp[p])] IN
  /\ pc[p] = "page"
  /\ \/ /\ hit # None
        /\ list' = [list EXCEPT ![p] = hit]
        /\ Answer(p, 200)
     \/ /\ hit = None \/ CacheFaults
        /\ Goto(p, "count")
        /\ UNCHANGED <<list, resp>>
  /\ UNCHANGED <<store, cache, now, call, row, stamp>>

\* SELECT COUNT(*) and SELECT .. LIMIT .. are two statements, two snapshots.
CountRows(p) ==
  /\ pc[p] = "count"
  /\ ConnectionFree
  /\ list' = [list EXCEPT ![p] = [counted |-> Cardinality(Matching(db, call[p].query)),
                                  rows |-> Shown(db, {})]]
  /\ Goto(p, "select")
  /\ UNCHANGED <<store, cache, now, call, row, stamp, resp>>

SelectRows(p) ==
  LET q == call[p].query IN
  /\ pc[p] = "select"
  /\ ConnectionFree
  /\ list' = [list EXCEPT ![p].rows = Shown(db, OnPage(Matching(db, q), q))]
  /\ Goto(p, "fillpage")
  /\ UNCHANGED <<store, cache, now, call, row, stamp, resp>>

\* Faulty variant: the key is built again, with the version of the moment.
FillCurrentPage(p) ==
  /\ pc[p] = "fillpage"
  /\ \/ pages' = [pages EXCEPT ![PageKey(p, version)] = list[p]]
     \/ CacheFaults /\ UNCHANGED pages
  /\ Answer(p, 200)
  /\ UNCHANGED <<store, profile, version, now, call, row, stamp, list>>

FillPage(p) ==
  /\ pc[p] = "fillpage"
  /\ \/ pages' = [pages EXCEPT ![PageKey(p, stamp[p])] = list[p]]
     \/ CacheFaults /\ UNCHANGED pages
  /\ Answer(p, 200)
  /\ UNCHANGED <<store, profile, version, now, call, row, stamp, list>>

-----------------------------------------------------------------------------
(* The environment. *)

\* A statement fails (pool timeout, deadlock victim, lost connection), or the
\* client goes away and the handler's future is dropped at an await, or the
\* process is killed: an open transaction is rolled back and what was still to
\* do is not done.  A call that took effect although its caller was cut off is
\* that call's own step followed by this one.
Abort(p) ==
  /\ Aborts
  /\ pc[p] \notin {"idle", "done"}
  /\ Release(p)
  /\ Answer(p, 500)
  /\ UNCHANGED <<db, cache, now, call, row, stamp, list>>

\* Faulty variant: SET instead of SETEX.
NeverExpires(u) == FALSE

\* Entries carry API_CACHE_TTL and go away by themselves.
ExpireProfile(u) ==
  /\ profile[u] # None
  /\ profile' = [profile EXCEPT ![u] = None]
  /\ UNCHANGED <<store, version, pages, now, pc, locals>>

ExpirePage(k) ==
  /\ pages[k] # None
  /\ pages' = [pages EXCEPT ![k] = None]
  /\ UNCHANGED <<store, profile, version, now, pc, locals>>

Tick ==
  /\ now < MaxNow
  /\ now' = now + 1
  /\ UNCHANGED <<store, cache, pc, locals>>

-----------------------------------------------------------------------------

Writing(p)  == \/ Begin(p) \/ LockRow(p) \/ Insert(p) \/ UpdateRow(p)
               \/ RestoreRow(p) \/ DeleteRow(p) \/ Commit(p)
               \/ DropProfile(p) \/ Stamp(p) \/ Bump(p)
Getting(p)  == Lookup(p) \/ Read(p) \/ Fill(p)
Indexing(p) == \/ ReadVersion(p) \/ LookupPage(p)
               \/ CountRows(p) \/ SelectRows(p) \/ FillPage(p)

Handle(p) == ValidateCall(p) \/ Writing(p) \/ Getting(p) \/ Indexing(p)

Expiry == (\E u \in Users : ExpireProfile(u)) \/ (\E k \in PageKeys : ExpirePage(k))

Next == \/ \E p \in Procs : Arrive(p) \/ Handle(p) \/ Abort(p)
        \/ Expiry
        \/ Tick

Spec == Init /\ [][Next]_vars

\* The executor polls every future that can make progress, PostgreSQL grants
\* locks and connections that are free, Redis drops entries past their TTL.
Fairness ==
  /\ \A p \in Procs : WF_vars(Handle(p))
  /\ \A u \in Users : WF_vars(ExpireProfile(u))
  /\ \A k \in PageKeys : WF_vars(ExpirePage(k))

FairSpec == Spec /\ Fairness

-----------------------------------------------------------------------------
(* Correctness. *)

Steps == {"idle", "validate", "begin", "lock", "write", "commit", "drop",
          "stamp", "bump", "lookup", "read", "fill", "version", "page",
          "count", "select", "fillpage", "done"}
Answers == {None, 200, 404, 422, 500}

\* Every variable holds what its comment says.
TypeOK ==
  /\ db \in [Users -> Row \cup {None}]
  /\ lock \in [Users -> Procs \cup {None}]
  /\ profile \in [Users -> Row \cup {None}]
  /\ version \in Versions
  /\ pages \in [PageKeys -> Page \cup {None}]
  /\ now \in 1 .. MaxNow
  /\ pc \in [Procs -> Steps]
  /\ call \in [Procs -> Calls \cup {None}]
  /\ row \in [Procs -> Row \cup {None}]
  /\ stamp \in [Procs -> Versions]
  /\ list \in [Procs -> Page \cup {None}]
  /\ resp \in [Procs -> Answers]

\* The unique constraint: at no time do two committed rows, deleted or not,
\* hold the same email, whatever the requests in flight validated or wrote.
UniqueEmails ==
  \A u, v \in Users : u # v /\ db[u] # None /\ db[v] # None => db[u].email # db[v].email

\* The strengthening of TypeOK and UniqueEmails that every step preserves.
\* Each step belongs to its kinds of request, and has what it uses.
OnPath ==
  \A p \in Procs :
    /\ pc[p] # "idle" => call[p] \in Calls
    /\ pc[p] = "validate" => Op(p) \in Creates \cup {"update"}
    /\ pc[p] = "lock" => Op(p) \in {"update", "restore"}
    /\ pc[p] = "drop" => Op(p) \in {"update", "restore", "delete"}
    /\ pc[p] \in {"begin", "write", "commit", "stamp", "bump"} =>
         Op(p) \in Creates \cup {"update", "restore", "delete"}
    /\ pc[p] \in {"lookup", "read", "fill"} => Op(p) = "get"
    /\ pc[p] = "fill" => row[p] # None
    /\ pc[p] \in {"version", "page", "count", "select", "fillpage"} => Op(p) = "index"
    /\ pc[p] \in {"select", "fillpage"} => list[p] # None

\* A transaction holds one row at most, and holds it from FOR UPDATE on.
LockDiscipline ==
  /\ \A u, v \in Users : lock[u] # None /\ lock[u] = lock[v] => u = v
  /\ \A u \in Users, p \in Procs : lock[u] = p =>
       \/ pc[p] = "commit"
       \/ pc[p] = "write" /\ Op(p) \in {"update", "restore"} /\ Target(p) = u
  /\ \A p \in Procs : pc[p] = "write" /\ Op(p) \in {"update", "restore"} =>
       lock[Target(p)] = p

\* The checks made under the lock still hold when the statement runs.
LockedRowFits ==
  \A p \in Procs : pc[p] = "write" =>
    /\ Op(p) \in {"update", "restore"} => db[Target(p)] # None
    /\ Op(p) = "update" => AcceptsUpdate(db[Target(p)], call[p])
    /\ Op(p) = "restore" => db[Target(p)].deleted

\* What is about to be committed on u is the request applied to u as it is.
IsResult(p, u) ==
  /\ Op(p) \in Creates => db[u] = None /\ row[p] = NewRow(call[p])
  /\ Op(p) \notin Creates => db[u] # None /\ u = Target(p)
  /\ Op(p) = "update" => AcceptsUpdate(db[u], call[p]) /\ row[p] = Updated(db[u], call[p])
  /\ Op(p) = "restore" => db[u].deleted /\ row[p] = Restored(db[u])
  /\ Op(p) = "delete" => ~db[u].deleted /\ row[p] = Removed(db[u])

PendingFits ==
  \A p \in Procs, u \in Users : pc[p] = "commit" /\ lock[u] = p =>
    row[p] \in Row /\ IsResult(p, u)

\* No two open transactions, and no open transaction and another row, are
\* heading for the same email.
PendingEmailsDiffer ==
  \A p \in Procs, u \in Users : pc[p] = "commit" /\ lock[u] = p =>
    \A v \in Users \ {u} :
      /\ db[v] # None => db[v].email # row[p].email
      /\ \A q \in Procs \ {p} : pc[q] = "commit" /\ lock[v] = q => row[q].email # row[p].email

\* The inductive invariant: what open transactions hold and are about to write
\* cannot clash with the table nor with each other.
Isolation == /\ LockDiscipline /\ LockedRowFits
             /\ PendingFits /\ PendingEmailsDiffer
             /\ UniqueEmails
IInv == TypeOK /\ OnPath /\ Isolation

MayWrite(p) == pc[p] # "idle" /\ Op(p) \in Writers
Announcing(p) == pc[p] \in {"drop", "stamp", "bump"}

\* What UserTable calls the point a writing request has reached.
Verdict(code) == CASE code = 200 -> "applied" [] code = 404 -> "absent"
                   [] code = 422 -> "invalid" [] OTHER -> "unsure"
Fate(p) == IF ~MayWrite(p) THEN "none"
           ELSE IF pc[p] = "done" THEN Verdict(resp[p])
           ELSE IF Announcing(p) THEN "applied" ELSE "open"

WriteAsked == [p \in Procs |-> IF MayWrite(p) THEN call[p] ELSE None]
WriteFate  == [p \in Procs |-> Fate(p)]

Table == INSTANCE UserTable WITH
  Calls <- {c \in Calls : c.op \in Writers}, asked <- WriteAsked, fate <- WriteFate

\* The service implements UserTable: a request answered with success took
\* effect once, at its commit, as what it asked made of the row as it was then,
\* whatever other requests committed between its validation, its SELECT .. FOR
\* UPDATE, its statement and its commit: an update keeps what it does not name
\* as others left it, and a deleted row is touched by what undeletes it only.
\* A request that was refused changed nothing, and a 404 was true when decided.
ImplementsTable == Table!Spec

Committed(p) == pc[p] \in {"drop", "stamp", "bump"} \/ resp[p] = 200

\* A deletion is acknowledged (204) once: an account has at most one
\* acknowledged deletion more than requests that may have brought it back, which
\* are restores and updates with an explicit null, those included whose answer
\* was lost.
Deletions(u) == {p \in Procs : /\ pc[p] # "idle" /\ Op(p) = "delete"
                               /\ Target(p) = u /\ Committed(p)}
Revivals(u) == {p \in Procs : /\ pc[p] # "idle" /\ Op(p) \in {"restore", "update"}
                              /\ Target(p) = u /\ (Committed(p) \/ resp[p] = 500)
                              /\ Op(p) = "update" => call[p].deleted = "null"}
DeletedOnce ==
  \A u \in Users : Cardinality(Deletions(u)) <= Cardinality(Revivals(u)) + 1

\* A cached profile is stale when the database no longer says what it says.
StaleProfile(u) == profile[u] # None /\ profile[u] # LiveRow(u)
DropPending(u) == \E p \in Procs : pc[p] = "drop" /\ Target(p) = u

\* Nothing but two races lets a stale profile stand with no deletion of it
\* underway: a get_user that read the row before the commit and fills the entry
\* after the deletion, and a deletion that failed or was never sent.
LateFill(u) == \E p \in Procs : pc[p] = "fill" /\ Target(p) = u /\ row[p] # LiveRow(u)
LostDrop(u) == DropPending(u) /\ profile[u] # None
ProfileStaleOnlyByRace ==
  [][\A u \in Users :
       /\ ~(StaleProfile(u) /\ ~DropPending(u))
       /\ (StaleProfile(u) /\ ~DropPending(u))'
       => LateFill(u) \/ ((CacheFaults \/ Aborts) /\ LostDrop(u))]_vars

\* A stale profile never outlives its TTL: once the writers are done, every
\* account is read from a fresh entry or from the database, for good.
ProfileHeals == <>[](\A u \in Users : ~StaleProfile(u))

Stamped(p) == pc[p] # "idle" /\ Op(p) # "index" /\ stamp[p] # 0
SameSecond == \E p, q \in Procs : p # q /\ Stamped(p) /\ Stamped(q) /\ stamp[p] = stamp[q]

\* While Redis answers and no handler is cut short, the page the current
\* version leads to is, for every query, the one its rows, their order, its page
\* number and size ask of the table as it is, with the numbers that go with it.
\* The exceptions: a writer is still about to announce its commit, or two
\* announced theirs within the same second; a filter is spelled so that its key
\* is another query's; the numbers are beyond the integers and floats used.
IndexFresh ==
  ~CacheFaults /\ ~Aborts =>
    \A q \in Queries :
      LET page == pages[<<Key(q), version>>] IN
      /\ page # None /\ ~Confused(q) /\ Exact(Cardinality(Matching(db, q)), q)
      /\ Body(page.counted, page.rows, q) # Ideal(db, q)
      => SameSecond \/ \E p \in Procs : Announcing(p)

\* Whatever waits for a connection, for a row lock or for another transaction's
\* email gets it: every request that arrived is answered.
AllAnswered == \A p \in Procs : (pc[p] # "idle") ~> (pc[p] = "done")

\* What the error catalogue of the validations says of an email already in use
\* ("has already been taken"): the answer is a 422, never a 500.
DuplicateEmailIs422 == \A p \in Procs : call[p] # None /\ Op(p) \in Creates => resp[p] # 500

=============================================================================
