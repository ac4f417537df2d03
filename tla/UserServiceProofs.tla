-------------------------- MODULE UserServiceProofs --------------------------
(***************************************************************************)
(* Theorems about UserService, for every value of its constants: type      *)
(* correctness, the inductive invariant behind the unique emails, that the *)
(* service implements UserTable, by which races a profile can be stale,    *)
(* and that a deletion is acknowledged once.                               *)
(***************************************************************************)
EXTENDS UserService, TLAPS, FiniteSetTheorems

USE DEF Creates, ByUser

(* What the SQL statements return are rows. *)

\* What the assumptions on Calls say of one call.
LEMMA CallFields ==
  ASSUME NEW c \in Calls
  PROVE  /\ c \in Call
         /\ c.op \in Ops
         /\ c.op \in ByUser => c.user \in Users
         /\ c.op \in Creates => c.email \in Emails
BY CallsAssumption, NoneIsNoValue DEF Call, Ops

\* UPDATE .. RETURNING returns a row.
LEMMA UpdatedIsRow ==
  ASSUME NEW r \in Row, NEW c \in Call
  PROVE  Updated(r, c) \in Row
BY DEF Row, Call, Updated, Coalesce, DeletedAt, Roles, Statuses

\* So do restore and soft delete, and no row is None.
LEMMA OtherRows ==
  ASSUME NEW r \in Row
  PROVE  Restored(r) \in Row /\ Removed(r) \in Row /\ r # None
BY NoneIsNoValue DEF Row, Restored, Removed

\* INSERT .. RETURNING returns a row.
LEMMA NewRowIsRow ==
  ASSUME NEW c \in Calls, c.op \in Creates
  PROVE  NewRow(c) \in Row
BY CallFields DEF Row, Call, NewRow, Coalesce, Roles, Statuses

\* COUNT(*) of finitely many rows is a number.
LEMMA CountIsNat == ASSUME NEW q PROVE Cardinality(Matching(db, q)) \in Nat
<1>1. IsFiniteSet(Matching(db, q))
  BY UsersAssumption, FS_Subset DEF Matching
<1> QED BY <1>1, FS_CardinalityType

\* What a page shows is rows of the table.
LEMMA ShownIsAListing ==
  ASSUME TypeOK, NEW S
  PROVE  Shown(db, S) \in Listing
BY DEF TypeOK, Shown, Listing

\* A request for the index has a query, and every version a place for its page.
LEMMA PageKeyFits ==
  ASSUME NEW p \in Procs, call[p] \in Calls, Op(p) = "index", NEW v \in Versions
  PROVE  PageKey(p, v) \in PageKeys
<1>1. call[p].query \in Queries
  BY CallsAssumption DEF Op, Call
<1>2. Key(call[p].query) \in {Key(q) : q \in Queries}
  BY <1>1
<1> QED BY <1>2 DEF PageKey, PageKeys

-----------------------------------------------------------------------------
(* Type correctness, with the step each request may be at. *)

\* The table starts with the rows of Seed, and no request is under way.
LEMMA TypesInit == Init => TypeOK /\ OnPath
<1> SUFFICES ASSUME Init PROVE TypeOK /\ OnPath
  OBVIOUS
<1>1. Seed \in [Users -> Row \cup {None}]
  BY SeedIsTable DEF Init
<1>2. 1 \in 1 .. MaxNow /\ 0 \in Versions
  BY BoundAssumption DEF Versions
<1>3. TypeOK
  BY <1>1, <1>2 DEF Init, TypeOK, Steps, Answers
<1>4. OnPath
  BY DEF Init, OnPath
<1> QED BY <1>3, <1>4

\* Each step keeps the types, and leaves its request at a step of its kind.
LEMMA TypesArrive ==
  ASSUME TypeOK, OnPath, NEW p \in Procs, Arrive(p)
  PROVE  TypeOK' /\ OnPath'
BY CallFields, NoneIsNoValue DEF TypeOK, OnPath, Arrive, Start, Goto, Answer, Op, Target, store, cache, locals, Steps, Answers, FirstStep, Ops

\* A validation decides where its request goes on, and nothing else.
LEMMA TypesValidateCall ==
  ASSUME TypeOK, OnPath, NEW p \in Procs, ValidateCall(p)
  PROVE  TypeOK' /\ OnPath'
BY CallFields, NoneIsNoValue DEF TypeOK, OnPath, ValidateCall, Goto, Answer, Op, Target, store, cache, locals, Steps, Answers

\* BEGIN occupies a connection.
LEMMA TypesBegin ==
  ASSUME TypeOK, OnPath, NEW p \in Procs, Begin(p)
  PROVE  TypeOK' /\ OnPath'
BY NoneIsNoValue DEF TypeOK, OnPath, Begin, Goto, Answer, Op, Target, store, cache, locals, Steps, Answers

\* SELECT .. FOR UPDATE keeps the row it returned.
LEMMA TypesLockRow ==
  ASSUME TypeOK, OnPath, NEW p \in Procs, LockRow(p)
  PROVE  TypeOK' /\ OnPath'
BY CallFields, NoneIsNoValue DEF TypeOK, OnPath, LockRow, Refusal, ForUpdate, Goto, Answer, Op, Target, store, cache, locals, Steps, Answers

\* INSERT claims an id and keeps the new row.
LEMMA TypesInsert ==
  ASSUME TypeOK, OnPath, NEW p \in Procs, Insert(p)
  PROVE  TypeOK' /\ OnPath'
BY NewRowIsRow, NoneIsNoValue DEF TypeOK, OnPath, Insert, Goto, Answer, Op, Target, store, cache, locals, Steps, Answers, Written, Release

\* UPDATE keeps what it made of the row.
LEMMA TypesUpdateRow ==
  ASSUME TypeOK, OnPath, LockedRowFits, NEW p \in Procs, UpdateRow(p)
  PROVE  TypeOK' /\ OnPath'
<1>1. call[p] \in Call /\ Target(p) \in Users
  BY CallFields DEF OnPath, UpdateRow, Op, Target
<1>2. db[Target(p)] \in Row
  BY <1>1 DEF TypeOK, LockedRowFits, UpdateRow
<1>3. Updated(db[Target(p)], call[p]) \in Row
  BY <1>1, <1>2, UpdatedIsRow
<1>4. TypeOK'
  BY <1>1, <1>3 DEF TypeOK, UpdateRow, Written, Release, Goto, Answer, Op, Target, store, cache, locals, Steps, Answers
<1>5. OnPath'
  BY DEF TypeOK, OnPath, UpdateRow, Written, Goto, Answer, Op, Target, store, cache, locals
<1> QED BY <1>4, <1>5

\* The UPDATE of restore_user keeps the row it brought back.
LEMMA TypesRestoreRow ==
  ASSUME TypeOK, OnPath, LockedRowFits, NEW p \in Procs, RestoreRow(p)
  PROVE  TypeOK' /\ OnPath'
<1>1. call[p] \in Call /\ Target(p) \in Users
  BY CallFields DEF OnPath, RestoreRow, Op, Target
<1>2. db[Target(p)] \in Row
  BY <1>1 DEF TypeOK, LockedRowFits, RestoreRow
<1>3. Restored(db[Target(p)]) \in Row
  BY <1>1, <1>2, OtherRows
<1>4. TypeOK'
  BY <1>1, <1>3 DEF TypeOK, RestoreRow, Written, Release, Goto, Answer, Op, Target, store, cache, locals, Steps, Answers
<1>5. OnPath'
  BY DEF TypeOK, OnPath, RestoreRow, Written, Goto, Answer, Op, Target, store, cache, locals
<1> QED BY <1>4, <1>5

\* The UPDATE of soft_delete_user keeps the row it removed.
LEMMA TypesDeleteRow ==
  ASSUME TypeOK, OnPath, NEW p \in Procs, DeleteRow(p)
  PROVE  TypeOK' /\ OnPath'
BY OtherRows, CallFields, NoneIsNoValue DEF TypeOK, OnPath, DeleteRow, Goto, Answer, Op, Target, store, cache, locals, Steps, Answers, Written, IsLive

\* A commit puts the row kept by its request into the table.
LEMMA TypesCommit ==
  ASSUME TypeOK, OnPath, NEW p \in Procs, Commit(p)
  PROVE  TypeOK' /\ OnPath'
BY NoneIsNoValue DEF TypeOK, OnPath, Commit, Goto, Answer, Op, Target, store, cache, locals, Steps, Answers, MakeVisible, Release, AfterCommit

\* The deletion of a cached profile leaves none or what was there.
LEMMA TypesDropProfile ==
  ASSUME TypeOK, OnPath, NEW p \in Procs, DropProfile(p)
  PROVE  TypeOK' /\ OnPath'
BY CallFields, NoneIsNoValue DEF TypeOK, OnPath, DropProfile, Goto, Answer, Op, Target, store, cache, locals, Steps, Answers

\* A writer takes the second of the clock.
LEMMA TypesStamp ==
  ASSUME TypeOK, OnPath, NEW p \in Procs, Stamp(p)
  PROVE  TypeOK' /\ OnPath'
BY BoundAssumption, NoneIsNoValue DEF TypeOK, OnPath, Stamp, Goto, Answer, Op, Target, store, cache, locals, Steps, Answers, Versions

\* It stores that second as the version, or fails to.
LEMMA TypesBump ==
  ASSUME TypeOK, OnPath, NEW p \in Procs, Bump(p)
  PROVE  TypeOK' /\ OnPath'
BY NoneIsNoValue DEF TypeOK, OnPath, Bump, Goto, Answer, Op, Target, store, cache, locals, Steps, Answers

\* get_user answers with the cached row or goes on to the table.
LEMMA TypesLookup ==
  ASSUME TypeOK, OnPath, NEW p \in Procs, Lookup(p)
  PROVE  TypeOK' /\ OnPath'
BY CallFields, NoneIsNoValue DEF TypeOK, OnPath, Lookup, Goto, Answer, Op, Target, store, cache, locals, Steps, Answers

\* get_user keeps the row it read.
LEMMA TypesRead ==
  ASSUME TypeOK, OnPath, NEW p \in Procs, Read(p)
  PROVE  TypeOK' /\ OnPath'
BY CallFields, NoneIsNoValue DEF TypeOK, OnPath, Read, Goto, Answer, Op, Target, store, cache, locals, Steps, Answers, IsLive

\* The fill of a profile stores the row its request read.
LEMMA TypesFill ==
  ASSUME TypeOK, OnPath, NEW p \in Procs, Fill(p)
  PROVE  TypeOK' /\ OnPath'
BY CallFields, NoneIsNoValue DEF TypeOK, OnPath, Fill, Goto, Answer, Op, Target, store, cache, locals, Steps, Answers

\* A query of the index keeps the version it read.
LEMMA TypesReadVersion ==
  ASSUME TypeOK, OnPath, NEW p \in Procs, ReadVersion(p)
  PROVE  TypeOK' /\ OnPath'
<1>1. 0 \in Versions
  BY BoundAssumption DEF Versions
<1>2. stamp' \in [Procs -> Versions]
  BY <1>1 DEF TypeOK, ReadVersion
<1>3. TypeOK'
  BY <1>2 DEF TypeOK, ReadVersion, Goto, Answer, Op, Target, store, cache, locals, Steps
<1>4. OnPath'
  BY DEF TypeOK, OnPath, ReadVersion, Goto, Answer, Op, Target, store, cache, locals
<1> QED BY <1>3, <1>4

\* It answers with a cached page or goes on to count.
LEMMA TypesLookupPage ==
  ASSUME TypeOK, OnPath, NEW p \in Procs, LookupPage(p)
  PROVE  TypeOK' /\ OnPath'
<1>1. PageKey(p, stamp[p]) \in PageKeys
  BY PageKeyFits DEF TypeOK, OnPath, LookupPage
<1>2. TypeOK'
  BY <1>1, NoneIsNoValue DEF TypeOK, LookupPage, Goto, Answer, store, cache, locals, Steps, Answers
<1>3. OnPath'
  BY NoneIsNoValue DEF TypeOK, OnPath, LookupPage, Goto, Answer, Op, Target, store, cache, locals, Steps, Answers
<1> QED BY <1>2, <1>3

\* It keeps the count beside the version.
LEMMA TypesCountRows ==
  ASSUME TypeOK, OnPath, NEW p \in Procs, CountRows(p)
  PROVE  TypeOK' /\ OnPath'
<1> DEFINE new == [counted |-> Cardinality(Matching(db, call[p].query)), rows |-> Shown(db, {})]
<1>1. new \in Page
  BY CountIsNat, ShownIsAListing DEF Page
<1>2. list' = [list EXCEPT ![p] = new]
  BY DEF CountRows
<1> HIDE DEF new
<1>3. TypeOK'
  BY <1>1, <1>2 DEF TypeOK, CountRows, Goto, Answer, Op, Target, store, cache, locals, Steps
<1>4. OnPath'
  BY <1>1, <1>2, NoneIsNoPage DEF TypeOK, OnPath, CountRows, Goto, Answer, Op, Target, store, cache, locals
<1> QED BY <1>3, <1>4

\* It builds the body of its answer.
LEMMA TypesSelectRows ==
  ASSUME TypeOK, OnPath, NEW p \in Procs, SelectRows(p)
  PROVE  TypeOK' /\ OnPath'
<1> DEFINE q == call[p].query
           shown == Shown(db, OnPage(Matching(db, q), q))
           new == [list[p] EXCEPT !.rows = shown]
<1>1. list[p] \in Page
  BY DEF TypeOK, OnPath, SelectRows
<1>2. shown \in Listing
  BY ShownIsAListing
<1>3. list' = [list EXCEPT ![p] = new]
  BY DEF SelectRows
<1> HIDE DEF shown
<1>4. new \in Page
  BY <1>1, <1>2 DEF Page
<1> HIDE DEF new
<1>5. TypeOK'
  BY <1>3, <1>4 DEF TypeOK, SelectRows, Goto, Answer, Op, Target, store, cache, locals, Steps
<1>6. OnPath'
  BY <1>3, <1>4, NoneIsNoPage DEF TypeOK, OnPath, SelectRows, Goto, Answer, Op, Target, store, cache, locals
<1> QED BY <1>5, <1>6

\* The fill of a page stores that body.
LEMMA TypesFillPage ==
  ASSUME TypeOK, OnPath, NEW p \in Procs, FillPage(p)
  PROVE  TypeOK' /\ OnPath'
BY NoneIsNoValue DEF TypeOK, OnPath, FillPage, Goto, Answer, Op, Target, store, cache, locals, Steps, Answers

\* An abort gives up locks and connection.
LEMMA TypesAbort ==
  ASSUME TypeOK, OnPath, NEW p \in Procs, Abort(p)
  PROVE  TypeOK' /\ OnPath'
BY NoneIsNoValue DEF TypeOK, OnPath, Abort, Goto, Answer, Op, Target, store, cache, locals, Steps, Answers, Release

-----------------------------------------------------------------------------
(* Isolation: locks, pending rows and emails. *)

USE NoneIsNoProc

\* The requests other than p are where they were.
OthersStay(p) ==
  \A q \in Procs \ {p} : pc'[q] = pc[q] /\ call'[q] = call[q] /\ row'[q] = row[q]

\* A request that holds nothing disturbs nothing, unless it steps into a
\* transaction's statement without the lock the statement relies on.
LEMMA QuietStep ==
  ASSUME Isolation, NEW p \in Procs, OthersStay(p),
         \A u \in Users : lock[u] # p,
         UNCHANGED <<db, lock>>,
         pc'[p] = "write" => call'[p].op \notin {"update", "restore"}
  PROVE  Isolation'
<1>1. LockDiscipline'
  BY DEF Isolation, LockDiscipline, OthersStay, Op, Target
<1>2. LockedRowFits'
  BY DEF Isolation, LockedRowFits, OthersStay, Op, Target
<1>3. PendingFits'
  BY DEF Isolation, PendingFits, IsResult, OthersStay, Op, Target
<1>4. PendingEmailsDiffer'
  BY DEF Isolation, PendingEmailsDiffer, OthersStay
<1>5. UniqueEmails'
  BY DEF Isolation, UniqueEmails
<1> QED BY <1>1, <1>2, <1>3, <1>4, <1>5 DEF Isolation

\* A request by id names an account.
LEMMA TargetIsUser ==
  ASSUME OnPath, NEW p \in Procs, pc[p] # "idle", Op(p) \in ByUser
  PROVE  Target(p) \in Users
BY CallFields DEF OnPath, Op, Target

\* Rolling back, in whatever state, gives up the lock and the pending row.
LEMMA ReleaseStep ==
  ASSUME OnPath, Isolation, NEW p \in Procs, OthersStay(p),
         db' = db, Release(p), pc'[p] = "done"
  PROVE  Isolation'
<1>0. \A u \in Users : lock'[u] # p /\ (lock'[u] # None => lock'[u] = lock[u])
  BY DEF Release
<1>1. LockDiscipline'
  <2>1. \A u, v \in Users : lock'[u] # None /\ lock'[u] = lock'[v] => u = v
    BY <1>0 DEF Isolation, LockDiscipline
  <2>2. \A u \in Users, q \in Procs : lock'[u] = q =>
          \/ pc'[q] = "commit"
          \/ pc'[q] = "write" /\ Op(q)' \in {"update", "restore"} /\ Target(q)' = u
    BY <1>0 DEF Isolation, LockDiscipline, OthersStay, Op, Target
  <2>3. ASSUME NEW q \in Procs, pc'[q] = "write", Op(q)' \in {"update", "restore"}
        PROVE  lock'[Target(q)'] = q
    <3>1. q # p /\ pc[q] = "write" /\ Op(q)' = Op(q) /\ Target(q)' = Target(q)
      BY <2>3 DEF OthersStay, Op, Target
    <3>2. Target(q) \in Users /\ lock[Target(q)] = q
      BY <2>3, <3>1, TargetIsUser DEF Isolation, LockDiscipline
    <3> QED BY <3>1, <3>2 DEF Release
  <2> QED BY <2>1, <2>2, <2>3 DEF LockDiscipline
<1>2. LockedRowFits'
  BY DEF Isolation, LockedRowFits, OthersStay, Op, Target
<1>3. PendingFits'
  BY <1>0 DEF Isolation, PendingFits, IsResult, OthersStay, Op, Target
<1>4. PendingEmailsDiffer'
  BY <1>0 DEF Isolation, PendingEmailsDiffer, OthersStay
<1>5. UniqueEmails'
  BY DEF Isolation, UniqueEmails
<1> QED BY <1>1, <1>2, <1>3, <1>4, <1>5 DEF Isolation

\* A statement that writes a row fit for commit, with an email nobody else has
\* or is heading for.
NobodyElse(e, p, u) ==
  \A v \in Users \ {u} :
    /\ db[v] # None => db[v].email # e
    /\ \A q \in Procs \ {p} : pc[q] = "commit" /\ lock[v] = q => row[q].email # e

\* A statement that writes keeps the isolation if its row fits the table and the
\* other open transactions when it is written.
LEMMA WriteStep ==
  ASSUME IInv, NEW p \in Procs, NEW u \in Users, NEW r \in Row,
         pc[p] = "write", OthersStay(p), UNCHANGED <<db, call>>,
         Written(p, u, r),
         Op(p) \in {"update", "restore"} => u = Target(p),
         IsResult(p, u)', NobodyElse(r.email, p, u)
  PROVE  Isolation'
<1> USE DEF IInv
<1>1. /\ lock' = [lock EXCEPT ![u] = p] /\ lock[u] \in {None, p}
      /\ row'[p] = r /\ pc'[p] = "commit"
      /\ Op(p)' = Op(p)
  BY DEF Written, Goto, TypeOK, Op
<1>2. \A v \in Users : (lock[v] = p => v = u) /\ (v # u => lock'[v] = lock[v]) /\ lock'[u] = p
  BY <1>1 DEF TypeOK, Isolation, LockDiscipline
<1>3. LockDiscipline'
  <2>1. \A v, w \in Users : lock'[v] # None /\ lock'[v] = lock'[w] => v = w
    BY <1>2 DEF Isolation, LockDiscipline
  <2>2. \A v \in Users, q \in Procs : lock'[v] = q =>
          \/ pc'[q] = "commit"
          \/ pc'[q] = "write" /\ Op(q)' \in {"update", "restore"} /\ Target(q)' = v
    BY <1>1, <1>2 DEF Isolation, LockDiscipline, OthersStay, Op, Target
  <2>3. ASSUME NEW q \in Procs, pc'[q] = "write", Op(q)' \in {"update", "restore"}
        PROVE  lock'[Target(q)'] = q
    <3>1. q # p /\ pc[q] = "write" /\ Op(q)' = Op(q) /\ Target(q)' = Target(q)
      BY <1>1, <2>3 DEF OthersStay, Op, Target
    <3>2. Target(q) \in Users /\ lock[Target(q)] = q
      BY <2>3, <3>1, TargetIsUser DEF Isolation, LockDiscipline
    <3>3. Target(q) # u
      BY <1>1, <3>1, <3>2
    <3> QED BY <1>2, <3>1, <3>2, <3>3
  <2> QED BY <2>1, <2>2, <2>3 DEF LockDiscipline
<1>4. LockedRowFits'
  BY <1>1 DEF Isolation, LockedRowFits, OthersStay, Op, Target
<1>5. PendingFits'
  <2> SUFFICES ASSUME NEW q \in Procs, NEW v \in Users, pc'[q] = "commit", lock'[v] = q
               PROVE  row'[q] \in Row /\ IsResult(q, v)'
    BY DEF PendingFits
  <2>1. CASE q = p
    BY <1>1, <1>2, <2>1
  <2>2. CASE q # p
    <3>1. v # u /\ lock[v] = q /\ pc[q] = "commit"
      BY <1>2, <2>2 DEF OthersStay
    <3> QED BY <2>2, <3>1 DEF Isolation, PendingFits, IsResult, OthersStay, Op, Target
  <2> QED BY <2>1, <2>2
<1>6. PendingEmailsDiffer'
  <2> SUFFICES ASSUME NEW q \in Procs, NEW v \in Users, pc'[q] = "commit", lock'[v] = q,
                      NEW w \in Users \ {v}
               PROVE  /\ db[w] # None => db[w].email # row'[q].email
                      /\ \A o \in Procs \ {q} :
                           pc'[o] = "commit" /\ lock'[w] = o => row'[o].email # row'[q].email
    BY DEF PendingEmailsDiffer
  <2>1. CASE q = p
    BY <1>1, <1>2, <2>1 DEF NobodyElse, OthersStay
  <2>2. CASE q # p
    <3>1. v # u /\ lock[v] = q /\ pc[q] = "commit" /\ row'[q] = row[q]
      BY <1>2, <2>2 DEF OthersStay
    <3>2. CASE w = u
      BY <1>1, <1>2, <2>2, <3>1, <3>2 DEF Isolation, PendingEmailsDiffer, NobodyElse
    <3>3. CASE w # u
      BY <1>2, <2>2, <3>1, <3>3 DEF Isolation, PendingEmailsDiffer, OthersStay
    <3> QED BY <3>2, <3>3
  <2> QED BY <2>1, <2>2
<1>7. UniqueEmails'
  BY DEF Isolation, UniqueEmails
<1> QED BY <1>3, <1>4, <1>5, <1>6, <1>7 DEF Isolation

\* The commit publishes a row whose email nobody else has or will get.
LEMMA CommitStep ==
  ASSUME IInv, NEW p \in Procs, Commit(p)
  PROVE  Isolation'
<1> USE DEF IInv
<1>1. PICK u \in Users : lock[u] = p /\ db' = [db EXCEPT ![u] = row[p]]
  BY DEF Commit, MakeVisible
<1>2. /\ pc[p] = "commit" /\ pc'[p] \in {"stamp", "drop"}
      /\ OthersStay(p) /\ UNCHANGED <<row, call>>
  BY DEF Commit, AfterCommit, Goto, locals, OthersStay, TypeOK
<1>3. \A v \in Users : lock'[v] # p /\ (lock'[v] # None => v # u /\ lock'[v] = lock[v])
  BY <1>1 DEF Commit, Release
<1>4. row[p] \in Row /\ row[p] # None
  BY <1>1, <1>2, OtherRows DEF Isolation, PendingFits
<1>5. \A v \in Users \ {u} : db'[v] = db[v]
  BY <1>1 DEF TypeOK
<1>6. db'[u] = row[p]
  BY <1>1 DEF TypeOK
<1>7. LockDiscipline'
  <2>1. \A v, w \in Users : lock'[v] # None /\ lock'[v] = lock'[w] => v = w
    BY <1>3 DEF Isolation, LockDiscipline
  <2>2. \A v \in Users, q \in Procs : lock'[v] = q =>
          \/ pc'[q] = "commit"
          \/ pc'[q] = "write" /\ Op(q)' \in {"update", "restore"} /\ Target(q)' = v
    BY <1>2, <1>3 DEF Isolation, LockDiscipline, OthersStay, Op, Target
  <2>3. ASSUME NEW q \in Procs, pc'[q] = "write", Op(q)' \in {"update", "restore"}
        PROVE  lock'[Target(q)'] = q
    <3>1. q # p /\ pc[q] = "write" /\ Op(q)' = Op(q) /\ Target(q)' = Target(q)
      BY <1>2, <2>3 DEF OthersStay, Op, Target
    <3>2. Target(q) \in Users /\ lock[Target(q)] = q
      BY <2>3, <3>1, TargetIsUser DEF Isolation, LockDiscipline
    <3> QED BY <3>1, <3>2 DEF Commit, Release
  <2> QED BY <2>1, <2>2, <2>3 DEF LockDiscipline
<1>8. LockedRowFits'
  <2> SUFFICES ASSUME NEW q \in Procs, pc'[q] = "write", Op(q)' \in {"update", "restore"}
               PROVE  /\ db'[Target(q)] # None
                      /\ Op(q) = "update" => AcceptsUpdate(db'[Target(q)], call[q])
                      /\ Op(q) = "restore" => db'[Target(q)].deleted
    BY <1>2 DEF LockedRowFits, Op, Target
  <2>1. q # p /\ pc[q] = "write" /\ Op(q)' = Op(q) /\ Target(q)' = Target(q)
    BY <1>2 DEF OthersStay, Op, Target
  <2>2. Target(q) \in Users /\ lock[Target(q)] = q
    BY <2>1, TargetIsUser DEF Isolation, LockDiscipline
  <2>3. Target(q) # u
    BY <1>1, <2>1, <2>2
  <2> QED BY <1>5, <2>1, <2>2, <2>3 DEF Isolation, LockedRowFits
<1>9. PendingFits'
  <2> SUFFICES ASSUME NEW q \in Procs, NEW v \in Users, pc'[q] = "commit", lock'[v] = q
               PROVE  row'[q] \in Row /\ IsResult(q, v)'
    BY DEF PendingFits
  <2>1. q # p /\ v # u /\ lock[v] = q /\ pc[q] = "commit"
    BY <1>2, <1>3 DEF OthersStay
  <2>2. row[q] \in Row /\ IsResult(q, v)
    BY <2>1 DEF Isolation, PendingFits
  <2> QED BY <1>2, <1>5, <2>1, <2>2 DEF IsResult, Op, Target
<1>10. PendingEmailsDiffer'
  <2> SUFFICES ASSUME NEW q \in Procs, NEW v \in Users, pc'[q] = "commit", lock'[v] = q,
                      NEW w \in Users \ {v}
               PROVE  /\ db'[w] # None => db'[w].email # row'[q].email
                      /\ \A o \in Procs \ {q} :
                           pc'[o] = "commit" /\ lock'[w] = o => row'[o].email # row'[q].email
    BY DEF PendingEmailsDiffer
  <2>1. q # p /\ v # u /\ lock[v] = q /\ pc[q] = "commit" /\ row' = row
    BY <1>2, <1>3 DEF OthersStay
  <2>2. \A o \in Procs : pc'[o] = "commit" /\ lock'[w] = o =>
          pc[o] = "commit" /\ lock[w] = o
    BY <1>2, <1>3 DEF OthersStay
  <2>3. \A o \in Procs \ {q} :
           pc'[o] = "commit" /\ lock'[w] = o => row'[o].email # row'[q].email
    BY <2>1, <2>2 DEF Isolation, PendingEmailsDiffer
  <2>4. CASE w = u
    <3>1. row[p].email # row[q].email
      BY <1>1, <1>2, <2>1, <2>4 DEF Isolation, PendingEmailsDiffer
    <3> QED BY <1>6, <2>1, <2>3, <2>4, <3>1
  <2>5. CASE w # u
    BY <1>5, <2>1, <2>3, <2>5 DEF Isolation, PendingEmailsDiffer
  <2> QED BY <2>4, <2>5
<1>11. UniqueEmails'
  <2>1. \A v \in Users \ {u} : db[v] # None => db[v].email # row[p].email
    BY <1>1, <1>2 DEF Isolation, PendingEmailsDiffer
  <2> QED BY <1>5, <1>6, <2>1 DEF Isolation, UniqueEmails
<1> QED BY <1>7, <1>8, <1>9, <1>10, <1>11 DEF Isolation

-----------------------------------------------------------------------------
(* The steps of a request, one by one. *)

\* Outside a transaction, and before the first lock in one, nothing is held.
LEMMA HoldsNothing ==
  ASSUME Isolation, NEW p \in Procs, pc[p] # "commit",
         pc[p] = "write" => Op(p) \notin {"update", "restore"}
  PROVE  \A u \in Users : lock[u] # p
BY DEF Isolation, LockDiscipline

\* The steps that hold nothing and write nothing.
LEMMA QuietSteps ==
  ASSUME IInv, NEW p \in Procs,
         \/ Arrive(p) \/ ValidateCall(p) \/ Begin(p) \/ DropProfile(p) \/ Stamp(p)
         \/ Bump(p) \/ Getting(p) \/ Indexing(p)
  PROVE  Isolation'
<1> USE DEF IInv
<1>1. /\ pc[p] \notin {"write", "commit"}
      /\ UNCHANGED <<db, lock>>
      /\ OthersStay(p)
      /\ pc'[p] = "write" => call'[p].op \notin {"update", "restore"}
  <2>1. CASE Arrive(p)
    BY <2>1, CallFields DEF Arrive, Start, TypeOK, OthersStay, Goto, Answer, Op, store, cache, locals, FirstStep, Ops
  <2>2. CASE ValidateCall(p)
    BY <2>2 DEF ValidateCall, TypeOK, OthersStay, Goto, Answer, Op, store, cache, locals
  <2>3. CASE Begin(p)
    BY <2>3 DEF Begin, TypeOK, OthersStay, Goto, Answer, Op, store, cache, locals
  <2>4. CASE DropProfile(p)
    BY <2>4 DEF DropProfile, TypeOK, OthersStay, Goto, Answer, Op, store, cache, locals
  <2>5. CASE Stamp(p)
    BY <2>5 DEF Stamp, TypeOK, OthersStay, Goto, Answer, Op, store, cache, locals
  <2>6. CASE Bump(p)
    BY <2>6 DEF Bump, TypeOK, OthersStay, Goto, Answer, Op, store, cache, locals
  <2>7. CASE Lookup(p)
    BY <2>7 DEF Lookup, TypeOK, OthersStay, Goto, Answer, Op, store, cache, locals
  <2>8. CASE Read(p)
    BY <2>8 DEF Read, TypeOK, OthersStay, Goto, Answer, Op, store, cache, locals
  <2>9. CASE Fill(p)
    BY <2>9 DEF Fill, TypeOK, OthersStay, Goto, Answer, Op, store, cache, locals
  <2>10. CASE ReadVersion(p)
    BY <2>10 DEF ReadVersion, TypeOK, OthersStay, Goto, Answer, Op, store, cache, locals
  <2>11. CASE LookupPage(p)
    BY <2>11 DEF LookupPage, TypeOK, OthersStay, Goto, Answer, Op, store, cache, locals
  <2>12. CASE CountRows(p)
    BY <2>12 DEF CountRows, TypeOK, OthersStay, Goto, Answer, Op, store, cache, locals
  <2>13. CASE SelectRows(p)
    BY <2>13 DEF SelectRows, TypeOK, OthersStay, Goto, Answer, Op, store, cache, locals
  <2>14. CASE FillPage(p)
    BY <2>14 DEF FillPage, TypeOK, OthersStay, Goto, Answer, Op, store, cache, locals
  <2> QED BY <2>1, <2>2, <2>3, <2>4, <2>5, <2>6, <2>7, <2>8, <2>9, <2>10, <2>11, <2>12, <2>13, <2>14 DEF Getting, Indexing
<1> QED BY <1>1, HoldsNothing, QuietStep

\* FOR UPDATE waits for a free row and returns it as committed.
LEMMA LockRowStep ==
  ASSUME IInv, NEW p \in Procs, LockRow(p)
  PROVE  Isolation'
<1> USE DEF IInv
<1> DEFINE u == Target(p)
<1>1. /\ pc[p] = "lock" /\ Op(p) \in {"update", "restore"} /\ u \in Users
      /\ UNCHANGED <<db, call>>
      /\ \A q \in Procs \ {p} : pc'[q] = pc[q] /\ row'[q] = row[q]
  BY TargetIsUser DEF LockRow, OnPath, Goto, Answer, TypeOK
<1>2. \A v \in Users : lock[v] # p
  BY <1>1, HoldsNothing
<1>3. CASE pc'[p] = "done" /\ lock' = lock
  BY <1>1, <1>2, <1>3, QuietStep DEF OthersStay
<1>4. CASE /\ pc'[p] = "write" /\ lock[u] = None /\ lock' = [lock EXCEPT ![u] = p]
           /\ db[u] # None
           /\ Op(p) = "update" => AcceptsUpdate(db[u], call[p])
           /\ Op(p) = "restore" => db[u].deleted
  <2>1. \A v \in Users : (v # u => lock'[v] = lock[v]) /\ lock'[u] = p
    BY <1>1, <1>4 DEF TypeOK
  <2>2. LockDiscipline'
    <3>1. \A v, w \in Users : lock'[v] # None /\ lock'[v] = lock'[w] => v = w
      BY <1>2, <2>1 DEF Isolation, LockDiscipline
    <3>2. \A v \in Users, q \in Procs : lock'[v] = q =>
            \/ pc'[q] = "commit"
            \/ pc'[q] = "write" /\ Op(q)' \in {"update", "restore"} /\ Target(q)' = v
      BY <1>1, <1>2, <1>4, <2>1 DEF Isolation, LockDiscipline, Op, Target
    <3>3. ASSUME NEW q \in Procs, q # p, pc'[q] = "write", Op(q) \in {"update", "restore"}
          PROVE  lock'[Target(q)] = q
      <4>1. Target(q) \in Users /\ lock[Target(q)] = q
        BY <1>1, <3>3, TargetIsUser DEF Isolation, LockDiscipline
      <4> QED BY <1>4, <2>1, <4>1
    <3> QED BY <1>1, <2>1, <3>1, <3>2, <3>3 DEF LockDiscipline, Op, Target
  <2>3. LockedRowFits'
    BY <1>1, <1>4 DEF Isolation, LockedRowFits, Op, Target
  <2>4. PendingFits'
    BY <1>1, <1>4, <2>1 DEF Isolation, PendingFits, IsResult, Op, Target
  <2>5. PendingEmailsDiffer'
    BY <1>1, <1>4, <2>1 DEF Isolation, PendingEmailsDiffer
  <2>6. UniqueEmails'
    BY <1>1 DEF Isolation, UniqueEmails
  <2> QED BY <2>2, <2>3, <2>4, <2>5, <2>6 DEF Isolation
<1>5. \/ pc'[p] = "done" /\ lock' = lock
      \/ /\ pc'[p] = "write" /\ lock[u] = None /\ lock' = [lock EXCEPT ![u] = p]
         /\ db[u] # None
         /\ Op(p) = "update" => AcceptsUpdate(db[u], call[p])
         /\ Op(p) = "restore" => db[u].deleted
  BY <1>1, NoneIsNoValue DEF LockRow, Refusal, ForUpdate, Goto, Answer, TypeOK, Op
<1> QED BY <1>3, <1>4, <1>5

\* Not busy and not used is nobody else's.
LEMMA FreeEmail ==
  ASSUME NEW e, NEW p \in Procs, NEW u \in Users,
         ~EmailBusy(e, p), \A v \in Users \ {u} : db[v] # None => db[v].email # e
  PROVE  NobodyElse(e, p, u)
BY DEF EmailBusy, NobodyElse

\* Nor is the email of a row that is in the table.
LEMMA OwnEmail ==
  ASSUME Isolation, NEW p \in Procs, NEW u \in Users, db[u] # None
  PROVE  NobodyElse(db[u].email, p, u)
BY DEF Isolation, UniqueEmails, PendingEmailsDiffer, NobodyElse

\* INSERT gets past the unique index only with an email nobody else holds.
LEMMA InsertStep ==
  ASSUME IInv, NEW p \in Procs, Insert(p)
  PROVE  Isolation'
<1> USE DEF IInv
<1>1. /\ pc[p] = "write" /\ Op(p) \in Creates /\ OthersStay(p) /\ UNCHANGED <<db, call>>
  BY DEF Insert, Written, Goto, Answer, OthersStay, TypeOK
<1>2. CASE EmailUsed(call[p].email, None)
  BY <1>1, <1>2, ReleaseStep DEF Insert, Answer, Goto, TypeOK
<1>3. CASE ~EmailUsed(call[p].email, None)
  <2>1. PICK u \in Users : db[u] = None /\ Written(p, u, NewRow(call[p]))
    BY <1>3 DEF Insert
  <2>2. NewRow(call[p]) \in Row /\ NewRow(call[p]).email = call[p].email
    BY <1>1, NewRowIsRow DEF OnPath, Op, NewRow
  <2>3. NobodyElse(NewRow(call[p]).email, p, u)
    BY <1>3, <2>2, FreeEmail, NoneIsNoValue DEF Insert, EmailUsed
  <2>4. row'[p] = NewRow(call[p])
    BY <2>1 DEF Written, TypeOK
  <2>5. IsResult(p, u)'
    BY <1>1, <2>1, <2>4 DEF IsResult, Op
  <2> QED BY <1>1, <2>1, <2>2, <2>3, <2>5, WriteStep DEF Op
<1> QED BY <1>2, <1>3

\* UPDATE too, for the row its transaction has locked.
LEMMA UpdateRowStep ==
  ASSUME IInv, NEW p \in Procs, UpdateRow(p)
  PROVE  Isolation'
<1> USE DEF IInv
<1>0. PICK u \in Users : u = Target(p)
  BY TargetIsUser DEF UpdateRow
<1> DEFINE new == Updated(db[u], call[p])
<1>1. /\ pc[p] = "write" /\ Op(p) = "update" /\ u = Target(p)
      /\ OthersStay(p) /\ UNCHANGED <<db, call>>
      /\ ~EmailBusy(new.email, p)
  BY <1>0 DEF UpdateRow, Written, Goto, Answer, OthersStay, TypeOK
<1>2. /\ db[u] \in Row /\ db[u] # None
      /\ AcceptsUpdate(db[u], call[p])
      /\ call[p] \in Call
  BY <1>1, CallFields DEF Isolation, LockedRowFits, TypeOK, OnPath
<1>3. new \in Row
  BY <1>2, UpdatedIsRow
<1>4. CASE EmailUsed(new.email, u)
  BY <1>1, <1>4, ReleaseStep DEF UpdateRow, Answer, Goto, TypeOK
<1>5. CASE ~EmailUsed(new.email, u)
  <2>1. Written(p, u, new) /\ row'[p] = new
    BY <1>1, <1>5 DEF UpdateRow, Written, TypeOK, Target
  <2>2. NobodyElse(new.email, p, u)
    BY <1>1, <1>5, FreeEmail DEF EmailUsed
  <2>3. IsResult(p, u)'
    BY <1>1, <1>2, <2>1 DEF IsResult, Op, Target
  <2> QED BY <1>1, <1>3, <2>1, <2>2, <2>3, WriteStep
<1> QED BY <1>4, <1>5

\* restore_user brings the row back under the email it has.
LEMMA RestoreRowStep ==
  ASSUME IInv, NEW p \in Procs, RestoreRow(p)
  PROVE  Isolation'
<1> USE DEF IInv
<1>0. PICK u \in Users : u = Target(p)
  BY TargetIsUser DEF RestoreRow
<1>1. /\ pc[p] = "write" /\ Op(p) = "restore" /\ u = Target(p)
      /\ OthersStay(p) /\ UNCHANGED <<db, call>>
  BY <1>0 DEF RestoreRow, Written, Goto, OthersStay, TypeOK
<1>2. db[u] \in Row /\ db[u] # None /\ db[u].deleted
  BY <1>1 DEF Isolation, LockedRowFits, TypeOK
<1>3. Restored(db[u]) \in Row /\ Restored(db[u]).email = db[u].email
  BY <1>2, OtherRows DEF Restored, Row
<1>4. Written(p, u, Restored(db[u])) /\ row'[p] = Restored(db[u])
  BY <1>1 DEF RestoreRow, Written, TypeOK, Target
<1>5. IsResult(p, u)'
  BY <1>1, <1>2, <1>4 DEF IsResult, Op, Target
<1>6. NobodyElse(Restored(db[u]).email, p, u)
  BY <1>1, <1>2, <1>3, OwnEmail
<1> QED BY <1>1, <1>3, <1>4, <1>5, <1>6, WriteStep

\* soft_delete_user locks the row and changes no email.
LEMMA DeleteRowStep ==
  ASSUME IInv, NEW p \in Procs, DeleteRow(p)
  PROVE  Isolation'
<1> USE DEF IInv
<1>0. PICK u \in Users : u = Target(p)
  BY TargetIsUser DEF DeleteRow
<1>1. /\ pc[p] = "write" /\ Op(p) = "delete" /\ u = Target(p)
      /\ OthersStay(p) /\ UNCHANGED <<db, call>>
  BY <1>0 DEF DeleteRow, Written, Goto, Answer, OthersStay, TypeOK
<1>2. CASE ~IsLive(db[u])
  <2>1. UNCHANGED lock /\ pc'[p] = "done"
    BY <1>1, <1>2 DEF DeleteRow, Answer, Goto, TypeOK
  <2> QED BY <1>1, <2>1, HoldsNothing, QuietStep
<1>3. CASE IsLive(db[u])
  <2>1. db[u] \in Row /\ db[u] # None /\ ~db[u].deleted
    BY <1>1, <1>3 DEF IsLive, TypeOK
  <2>2. Removed(db[u]) \in Row /\ Removed(db[u]).email = db[u].email
    BY <2>1, OtherRows DEF Removed, Row
  <2>3. Written(p, u, Removed(db[u])) /\ row'[p] = Removed(db[u])
    BY <1>1, <1>3 DEF DeleteRow, Written, TypeOK, Target
  <2>4. IsResult(p, u)'
    BY <1>1, <2>1, <2>3 DEF IsResult, Op, Target
  <2>5. NobodyElse(Removed(db[u]).email, p, u)
    BY <1>1, <2>1, <2>2, OwnEmail
  <2> QED BY <1>1, <2>2, <2>3, <2>4, <2>5, WriteStep
<1> QED BY <1>2, <1>3

\* What a failed transaction had written was never in the table.
LEMMA AbortStep ==
  ASSUME IInv, NEW p \in Procs, Abort(p)
  PROVE  Isolation'
<1>1. OthersStay(p) /\ db' = db /\ Release(p) /\ pc'[p] = "done"
  BY DEF IInv, Abort, Answer, Goto, OthersStay, TypeOK
<1> QED BY <1>1, ReleaseStep DEF IInv

-----------------------------------------------------------------------------
(* The inductive invariant. *)

\* The clock and the time-to-live of Redis touch no transaction.
LEMMA EnvironmentStep ==
  ASSUME IInv, Expiry \/ Tick \/ UNCHANGED vars
  PROVE  IInv'
<1> USE DEF IInv
<1>1. UNCHANGED <<db, lock, pc, call, row, list>>
  BY DEF Expiry, ExpireProfile, ExpirePage, Tick, vars, store, locals
<1>2. OnPath' /\ Isolation'
  BY <1>1 DEF OnPath, Isolation, LockDiscipline, LockedRowFits, PendingFits, IsResult,
     PendingEmailsDiffer, UniqueEmails, Op, Target
<1>3. TypeOK'
  <2>1. CASE \E u \in Users : ExpireProfile(u)
    BY <2>1 DEF ExpireProfile, TypeOK, store, locals
  <2>2. CASE \E k \in PageKeys : ExpirePage(k)
    BY <2>2 DEF ExpirePage, TypeOK, store, locals
  <2>3. CASE Tick
    BY <2>3, BoundAssumption DEF Tick, TypeOK, store, cache, locals
  <2>4. CASE UNCHANGED vars
    BY <2>4 DEF vars, TypeOK
  <2> QED BY <2>1, <2>2, <2>3, <2>4 DEF Expiry
<1> QED BY <1>2, <1>3

\* Every step of a request keeps the invariant.
LEMMA RequestStep ==
  ASSUME IInv, NEW p \in Procs, Arrive(p) \/ Handle(p) \/ Abort(p)
  PROVE  IInv'
<1> USE DEF IInv
<1>1. TypeOK' /\ OnPath'
  BY TypesArrive, TypesValidateCall, TypesBegin, TypesLockRow, TypesInsert, TypesUpdateRow,
     TypesRestoreRow, TypesDeleteRow, TypesCommit, TypesDropProfile, TypesStamp, TypesBump,
     TypesLookup, TypesRead, TypesFill, TypesReadVersion, TypesLookupPage, TypesCountRows,
     TypesSelectRows, TypesFillPage, TypesAbort
     DEF Handle, Writing, Getting, Indexing, Isolation
<1>2. Isolation'
  BY QuietSteps, LockRowStep, InsertStep, UpdateRowStep, RestoreRowStep, DeleteRowStep,
     CommitStep, AbortStep DEF Handle, Writing
<1> QED BY <1>1, <1>2

\* The invariant holds before the first request.
LEMMA IInvInit == Init => IInv
<1> SUFFICES ASSUME Init PROVE IInv
  OBVIOUS
<1>1. Isolation
  BY SeedIsTable DEF Init, Isolation, LockDiscipline, LockedRowFits, PendingFits,
     PendingEmailsDiffer, UniqueEmails
<1> QED BY <1>1, TypesInit DEF IInv

\* Every step keeps it.
LEMMA IInvNext == IInv /\ [Next]_vars => IInv'
BY RequestStep, EnvironmentStep DEF Next

\* IInv is inductive: it holds in every reachable state of the service, for any
\* number of accounts and requests and whatever fails.
THEOREM Inductive == Spec => []IInv
<1> QED BY IInvInit, IInvNext, PTL DEF Spec

\* Every variable of the service keeps its type.
THEOREM TypeCorrect == Spec => []TypeOK
<1>1. IInv => TypeOK
  BY DEF IInv
<1> QED BY <1>1, Inductive, PTL

\* No two committed rows ever share an email: a request that validated an email
\* and lost the race for it cannot commit it.
THEOREM EmailsStayUnique == Spec => []UniqueEmails
<1>1. IInv => UniqueEmails
  BY DEF IInv, Isolation
<1> QED BY <1>1, Inductive, PTL

-----------------------------------------------------------------------------
(* What a request does to the variables it shares and to those of its own. *)

\* The requests other than p keep all they hold.
Alone(p) ==
  /\ OthersStay(p)
  /\ \A q \in Procs \ {p} : stamp'[q] = stamp[q] /\ list'[q] = list[q] /\ resp'[q] = resp[q]

\* A step of a request is that request's only.
LEMMA StepsAlone ==
  ASSUME TypeOK, NEW p \in Procs, Arrive(p) \/ Handle(p) \/ Abort(p)
  PROVE  Alone(p)
<1> USE DEF TypeOK, Alone, OthersStay, Goto, Answer, locals
<1>1. CASE Arrive(p) \/ Abort(p) \/ ValidateCall(p) \/ Begin(p) \/ Commit(p)
  BY <1>1 DEF Arrive, Start, Abort, ValidateCall, Begin, Commit
<1>2. CASE LockRow(p)
  BY <1>2 DEF LockRow
<1>3. CASE Insert(p) \/ UpdateRow(p) \/ RestoreRow(p) \/ DeleteRow(p)
  BY <1>3 DEF Insert, UpdateRow, RestoreRow, DeleteRow, Written
<1>4. CASE DropProfile(p) \/ Stamp(p) \/ Bump(p)
  BY <1>4 DEF DropProfile, Stamp, Bump
<1>5. CASE Getting(p)
  BY <1>5 DEF Getting, Lookup, Read, Fill
<1>6. CASE Indexing(p)
  BY <1>6 DEF Indexing, ReadVersion, LookupPage, CountRows, SelectRows, FillPage
<1> QED BY <1>1, <1>2, <1>3, <1>4, <1>5, <1>6 DEF Handle, Writing

\* The step a request is at decides which action takes it on.
LEMMA ActionAt ==
  ASSUME NEW p \in Procs, Arrive(p) \/ Handle(p) \/ Abort(p)
  PROVE  /\ pc[p] # "done"
         /\ Arrive(p) => pc[p] = "idle"
         /\ pc[p] = "idle" => Arrive(p)
         /\ pc[p] = "commit" => Commit(p) \/ Abort(p)
         /\ pc[p] = "drop" => DropProfile(p) \/ Abort(p)
         /\ pc[p] = "stamp" => Stamp(p) \/ Abort(p)
         /\ pc[p] = "bump" => Bump(p) \/ Abort(p)
         /\ pc[p] = "fill" => Fill(p) \/ Abort(p)
         /\ pc[p] = "version" => ReadVersion(p) \/ Abort(p)
         /\ pc[p] = "page" => LookupPage(p) \/ Abort(p)
         /\ pc[p] = "count" => CountRows(p) \/ Abort(p)
         /\ pc[p] = "select" => SelectRows(p) \/ Abort(p)
         /\ pc[p] = "fillpage" => FillPage(p) \/ Abort(p)
BY DEF Handle, Writing, Getting, Indexing, Arrive, Start, ValidateCall, Begin, LockRow,
   Insert, UpdateRow, RestoreRow, DeleteRow, Commit, DropProfile, Stamp, Bump, Lookup, Read, Fill,
   ReadVersion, LookupPage, CountRows, SelectRows, FillPage, Abort

\* Where each action leaves its request.
LEMMA LeadsTo ==
  ASSUME TypeOK, NEW p \in Procs
  PROVE  /\ Arrive(p) => pc'[p] \in {"validate", "begin", "lookup", "version"}
         /\ ValidateCall(p) => pc'[p] \in {"begin", "done"}
         /\ Begin(p) => pc'[p] \in {"lock", "write"}
         /\ LockRow(p) => pc'[p] \in {"write", "done"}
         /\ Insert(p) \/ UpdateRow(p) \/ RestoreRow(p) \/ DeleteRow(p) => pc'[p] \in {"commit", "done"}
         /\ Commit(p) => pc'[p] = AfterCommit(Op(p))
         /\ DropProfile(p) => pc'[p] = "stamp"
         /\ Stamp(p) => pc'[p] = "bump"
         /\ Lookup(p) => pc'[p] \in {"read", "done"}
         /\ Read(p) => pc'[p] \in {"fill", "done"}
         /\ ReadVersion(p) => pc'[p] = "page"
         /\ LookupPage(p) => pc'[p] \in {"count", "done"}
         /\ CountRows(p) => pc'[p] = "select"
         /\ SelectRows(p) => pc'[p] = "fillpage"
         /\ Bump(p) \/ Fill(p) \/ FillPage(p) \/ Abort(p) => pc'[p] = "done"
<1> USE DEF TypeOK, Goto, Answer
<1>1. Arrive(p) => pc'[p] \in {"validate", "begin", "lookup", "version"}
  BY CallFields DEF Arrive, Start, FirstStep, Ops
<1>2. /\ ValidateCall(p) => pc'[p] \in {"begin", "done"}
      /\ Begin(p) => pc'[p] \in {"lock", "write"}
      /\ LockRow(p) => pc'[p] \in {"write", "done"}
  BY DEF ValidateCall, Begin, LockRow
<1>3. Insert(p) \/ UpdateRow(p) \/ RestoreRow(p) \/ DeleteRow(p) => pc'[p] \in {"commit", "done"}
  BY DEF Insert, UpdateRow, RestoreRow, DeleteRow, Written
<1>4. /\ Commit(p) => pc'[p] = AfterCommit(Op(p))
      /\ DropProfile(p) => pc'[p] = "stamp"
      /\ Stamp(p) => pc'[p] = "bump"
  BY DEF Commit, DropProfile, Stamp
<1>5. /\ Lookup(p) => pc'[p] \in {"read", "done"}
      /\ Read(p) => pc'[p] \in {"fill", "done"}
  BY DEF Lookup, Read
<1>6. /\ ReadVersion(p) => pc'[p] = "page"
      /\ LookupPage(p) => pc'[p] \in {"count", "done"}
      /\ CountRows(p) => pc'[p] = "select"
      /\ SelectRows(p) => pc'[p] = "fillpage"
  BY DEF ReadVersion, LookupPage, CountRows, SelectRows
<1>7. Bump(p) \/ Fill(p) \/ FillPage(p) \/ Abort(p) => pc'[p] = "done"
  BY DEF Bump, Fill, FillPage, Abort
<1> QED BY <1>1, <1>2, <1>3, <1>4, <1>5, <1>6, <1>7

\* Only its arrival gives a request its call.
LEMMA CallsStay ==
  ASSUME NEW p \in Procs, Handle(p) \/ Abort(p)
  PROVE  call' = call
BY DEF Handle, Writing, Getting, Indexing, ValidateCall, Begin, LockRow,
   Insert, UpdateRow, RestoreRow, DeleteRow, Commit, DropProfile, Stamp, Bump, Lookup, Read, Fill,
   ReadVersion, LookupPage, CountRows, SelectRows, FillPage, Abort, locals

\* Nothing but a commit changes the table.
LEMMA OnlyCommitsChangeTheTable ==
  ASSUME Next, \A p \in Procs : ~Commit(p)
  PROVE  db' = db
BY DEF Next, Handle, Writing, Getting, Indexing, Expiry, Arrive, Start, ValidateCall, Begin, LockRow,
   Insert, UpdateRow, RestoreRow, DeleteRow, DropProfile, Stamp, Bump, Lookup, Read, Fill,
   ReadVersion, LookupPage, CountRows, SelectRows, FillPage, Abort, ExpireProfile, ExpirePage,
   Tick, store

\* A row that was inserted stays: rows are deleted by their column only.
LEMMA RowsStay ==
  ASSUME IInv, [Next]_vars, NEW u \in Users, db[u] # None
  PROVE  db'[u] # None
<1>1. CASE \E p \in Procs : Commit(p)
  <2>1. PICK p \in Procs : Commit(p)
    BY <1>1
  <2>2. PICK v \in Users : lock[v] = p /\ db' = [db EXCEPT ![v] = row[p]]
    BY <2>1 DEF Commit, MakeVisible
  <2>3. row[p] # None
    BY <2>1, <2>2, OtherRows DEF IInv, Isolation, PendingFits, Commit
  <2> QED BY <2>2, <2>3 DEF IInv, TypeOK
<1>2. CASE ~ \E p \in Procs : Commit(p)
  <2>1. db' = db
    BY <1>2, OnlyCommitsChangeTheTable DEF vars
  <2> QED BY <2>1
<1> QED BY <1>1, <1>2

-----------------------------------------------------------------------------
(* The service implements UserTable. *)

USE DEF Writers

\* A step of a writing request between its arrival and its answer moves that
\* request's fate and no other, and asks for nothing new.
LEMMA OneFateMoves ==
  ASSUME IInv, NEW p \in Procs, Handle(p) \/ Abort(p), MayWrite(p), pc'[p] # "idle"
  PROVE  /\ WriteAsked' = WriteAsked /\ WriteAsked[p] = call[p]
         /\ WriteFate' = [WriteFate EXCEPT ![p] = Fate(p)']
         /\ WriteFate[p] = IF Announcing(p) THEN "applied" ELSE "open"
         /\ \A q \in Procs \ {p} : Fate(q)' = Fate(q)
         /\ MayWrite(p)'
<1>1. Alone(p) /\ call' = call /\ pc[p] # "done"
  BY StepsAlone, CallsStay, ActionAt DEF IInv
<1>2. \A q \in Procs \ {p} : MayWrite(q)' = MayWrite(q) /\ Fate(q)' = Fate(q)
  BY <1>1 DEF Alone, OthersStay, MayWrite, Op, Fate, Announcing
<1>3. MayWrite(p)'
  BY <1>1 DEF MayWrite, Op
<1>4. WriteAsked' = WriteAsked
  BY <1>1, <1>2, <1>3 DEF WriteAsked
<1>5. WriteFate' = [WriteFate EXCEPT ![p] = Fate(p)']
  BY <1>2 DEF WriteFate
<1> QED BY <1>1, <1>2, <1>3, <1>4, <1>5 DEF WriteAsked, WriteFate, Fate

\* A step that leaves the fate of its request and the table is a stutter.
LEMMA SameFate ==
  ASSUME IInv, NEW p \in Procs, Handle(p) \/ Abort(p), MayWrite(p), db' = db,
         \/ pc'[p] \notin {"idle", "done", "drop", "stamp", "bump"} /\ ~Announcing(p)
         \/ pc'[p] \in {"drop", "stamp", "bump"} /\ Announcing(p)
         \/ pc'[p] = "done" /\ resp'[p] = 200 /\ Announcing(p)
  PROVE  UNCHANGED Table!vars
<1>1. WriteAsked' = WriteAsked /\ MayWrite(p)' /\ \A q \in Procs \ {p} : Fate(q)' = Fate(q)
  BY OneFateMoves
<1>2. Fate(p)' = Fate(p)
  BY <1>1, ActionAt DEF Fate, Announcing, Verdict
<1>3. \A q \in Procs : Fate(q)' = Fate(q)
  BY <1>1, <1>2
<1>4. WriteFate' = WriteFate
  BY <1>3 DEF WriteFate
<1> QED BY <1>1, <1>4 DEF Table!vars

\* A refusal or a failure, each with what it may be given for.
LEMMA RefusalIsTableStep ==
  ASSUME IInv, NEW p \in Procs, Handle(p) \/ Abort(p), MayWrite(p), db' = db, pc'[p] = "done",
         \/ /\ resp'[p] = 404 /\ ~Announcing(p) /\ Op(p) \in {"update", "restore", "delete"}
            /\ \/ db[Target(p)] = None
               \/ Op(p) = "update" /\ ~AcceptsUpdate(db[Target(p)], call[p])
               \/ Op(p) = "delete" /\ db[Target(p)].deleted
         \/ /\ resp'[p] = 422 /\ ~Announcing(p)
            /\ \/ Op(p) \in Creates \cup {"update"} /\ (~call[p].strong \/ call[p].email # None)
               \/ Op(p) = "restore" /\ IsLive(db[Target(p)])
         \/ resp'[p] = 500
  PROVE  Table!Next
<1>1. /\ WriteAsked' = WriteAsked /\ WriteAsked[p] = call[p]
      /\ WriteFate[p] = IF Announcing(p) THEN "applied" ELSE "open"
      /\ WriteFate' = [WriteFate EXCEPT ![p] = Verdict(resp'[p])]
  BY OneFateMoves DEF Fate
<1>2. CASE resp'[p] = 404
  <2>1. Table!NotFound(p)
    BY <1>1, <1>2 DEF Table!NotFound, Table!Decide, Verdict, Op, Target,
       AcceptsUpdate, Table!AcceptsUpdate
  <2> QED BY <2>1 DEF Table!Next
<1>3. CASE resp'[p] = 422
  <2>1. Table!Refuse(p)
    BY <1>1, <1>3 DEF Table!Refuse, Table!Decide, Verdict, Op, Target,
       IsLive, Table!IsLive, Table!Creates
  <2> QED BY <2>1 DEF Table!Next
<1>4. CASE resp'[p] = 500
  <2>1. Table!Fail(p)
    BY <1>1, <1>4 DEF Table!Fail, Verdict
  <2> QED BY <2>1 DEF Table!Next
<1> QED BY <1>2, <1>3, <1>4

\* A request that arrives is asked of the table if it writes.
LEMMA ArrivalIsTableStep ==
  ASSUME IInv, NEW p \in Procs, Arrive(p)
  PROVE  Table!Next \/ UNCHANGED Table!vars
<1>1. PICK c \in Calls : Start(p, c)
  BY DEF Arrive
<1>2. Alone(p) /\ pc[p] = "idle" /\ call'[p] = c /\ db' = db
  BY <1>1, StepsAlone DEF IInv, TypeOK, Start, store
<1>3. pc'[p] \in {"validate", "begin", "lookup", "version"}
  BY LeadsTo DEF IInv
<1>4. \A q \in Procs \ {p} : MayWrite(q)' = MayWrite(q) /\ Fate(q)' = Fate(q) /\ call'[q] = call[q]
  BY <1>2 DEF Alone, OthersStay, MayWrite, Op, Fate, Announcing
<1>5. ~MayWrite(p) /\ Fate(p) = "none"
  BY <1>2 DEF MayWrite, Fate
<1>6. CASE c.op \in Writers
  <2>1. MayWrite(p)' /\ Fate(p)' = "open"
    BY <1>2, <1>3, <1>6 DEF MayWrite, Op, Fate, Announcing
  <2>2. WriteAsked' = [WriteAsked EXCEPT ![p] = c]
    BY <1>2, <1>4, <2>1 DEF WriteAsked
  <2>3. WriteFate' = [WriteFate EXCEPT ![p] = "open"] /\ WriteFate[p] = "none"
    BY <1>4, <1>5, <2>1 DEF WriteFate
  <2>4. Table!Ask(p)
    BY <1>2, <1>6, <2>2, <2>3 DEF Table!Ask
  <2> QED BY <2>4 DEF Table!Next
<1>7. CASE c.op \notin Writers
  <2>1. ~MayWrite(p)' /\ Fate(p)' = "none"
    BY <1>2, <1>7 DEF MayWrite, Op, Fate
  <2>2. WriteAsked' = WriteAsked /\ WriteFate' = WriteFate
    BY <1>4, <1>5, <2>1 DEF WriteAsked, WriteFate
  <2> QED BY <1>2, <2>2 DEF Table!vars
<1> QED BY <1>6, <1>7

\* A request that does not write is not seen by the table.
LEMMA ReadsAreStutters ==
  ASSUME IInv, NEW p \in Procs, Handle(p) \/ Abort(p), ~MayWrite(p)
  PROVE  UNCHANGED Table!vars
<1>1. Alone(p) /\ call' = call
  BY StepsAlone, CallsStay DEF IInv
<1>2. pc[p] # "idle" /\ Op(p) \notin Writers
  BY ActionAt DEF MayWrite, Handle, Writing, Getting, Indexing, ValidateCall, Begin, LockRow,
     Insert, UpdateRow, RestoreRow, DeleteRow, Commit, DropProfile, Stamp, Bump, Lookup, Read,
     Fill, ReadVersion, LookupPage, CountRows, SelectRows, FillPage, Abort
<1>3. pc[p] # "commit"
  BY <1>2 DEF IInv, OnPath
<1>4. db' = db
  BY <1>3 DEF Handle, Writing, Getting, Indexing, ValidateCall, Begin, LockRow,
     Insert, UpdateRow, RestoreRow, DeleteRow, Commit, DropProfile, Stamp, Bump, Lookup, Read,
     Fill, ReadVersion, LookupPage, CountRows, SelectRows, FillPage, Abort, store
<1>5. \A q \in Procs : MayWrite(q)' = MayWrite(q) /\ Fate(q)' = Fate(q)
  BY <1>1, <1>2 DEF Alone, OthersStay, MayWrite, Op, Fate, Announcing
<1>6. WriteAsked' = WriteAsked /\ WriteFate' = WriteFate
  BY <1>1, <1>5 DEF WriteAsked, WriteFate
<1> QED BY <1>4, <1>6 DEF Table!vars

\* A commit is what its request asked, done to the row as it is then.
LEMMA CommitIsTableStep ==
  ASSUME IInv, IInv', NEW p \in Procs, Commit(p)
  PROVE  Table!Next
<1> USE DEF IInv
<1>1. PICK u \in Users : lock[u] = p /\ db' = [db EXCEPT ![u] = row[p]]
  BY DEF Commit, MakeVisible
<1>2. row[p] \in Row /\ IsResult(p, u)
  BY <1>1 DEF Commit, Isolation, PendingFits
<1>3. Op(p) \in Writers /\ MayWrite(p) /\ Handle(p)
  BY DEF Commit, OnPath, MayWrite, Handle, Writing
<1>4. Table!Store(u, row[p])
  BY <1>1 DEF Isolation, UniqueEmails, Table!Store, Table!EmailsDiffer
<1>5. pc[p] = "commit" /\ pc'[p] \in {"drop", "stamp"}
  BY LeadsTo DEF Commit, AfterCommit
<1>6. WriteAsked[p] = call[p] /\ Table!Decide(p, "applied")
  <2>1. Fate(p)' = "applied"
    BY <1>3, <1>5, OneFateMoves DEF Fate, Announcing
  <2> QED BY <1>3, <1>5, <2>1, OneFateMoves DEF Announcing, Table!Decide
<1>7. CASE Op(p) \in Creates
  <2>1. db[u] = None /\ row[p] = Table!NewRow(call[p])
    BY <1>2, <1>7 DEF IsResult, NewRow, Table!NewRow, Coalesce, Table!Coalesce
  <2>2. Table!Insert(p)
    BY <1>4, <1>6, <1>7, <2>1 DEF Table!Insert, Table!Creates, Op
  <2> QED BY <2>2 DEF Table!Next
<1>8. CASE Op(p) = "update"
  <2>1. /\ u = call[p].user /\ db[u] # None /\ Table!AcceptsUpdate(db[u], call[p])
        /\ row[p] = Table!Updated(db[u], call[p])
    BY <1>2, <1>8 DEF IsResult, Target, AcceptsUpdate, Table!AcceptsUpdate,
       Updated, Table!Updated, Coalesce, Table!Coalesce
  <2>2. Table!Update(p)
    BY <1>4, <1>6, <1>8, <2>1 DEF Table!Update, Op
  <2> QED BY <2>2 DEF Table!Next
<1>9. CASE Op(p) = "restore"
  <2>1. u = call[p].user /\ db[u] # None /\ db[u].deleted /\ row[p] = Table!Restored(db[u])
    BY <1>2, <1>9 DEF IsResult, Target, Restored, Table!Restored
  <2>2. Table!Restore(p)
    BY <1>4, <1>6, <1>9, <2>1 DEF Table!Restore, Op
  <2> QED BY <2>2 DEF Table!Next
<1>10. CASE Op(p) = "delete"
  <2>1. u = call[p].user /\ Table!IsLive(db[u]) /\ row[p] = Table!Removed(db[u])
    BY <1>2, <1>10 DEF IsResult, Target, Removed, Table!Removed, Table!IsLive
  <2>2. Table!SoftDelete(p)
    BY <1>4, <1>6, <1>10, <2>1 DEF Table!SoftDelete, Op
  <2> QED BY <2>2 DEF Table!Next
<1> QED BY <1>3, <1>7, <1>8, <1>9, <1>10

\* A validation refuses for the password or the email only.
LEMMA ValidationIsTableStep ==
  ASSUME IInv, NEW p \in Procs, ValidateCall(p)
  PROVE  Table!Next \/ UNCHANGED Table!vars
<1>1. /\ pc[p] = "validate" /\ Op(p) \in Creates \cup {"update"} /\ db' = db
      /\ call[p] \in Calls
  BY DEF IInv, OnPath, ValidateCall, store
<1>2. MayWrite(p) /\ Handle(p) /\ ~Announcing(p)
  BY <1>1 DEF MayWrite, Handle, Announcing
<1>3. CASE pc'[p] = "begin"
  BY <1>1, <1>2, <1>3, SameFate
<1>4. CASE pc'[p] = "done" /\ resp'[p] = 422
  <2>1. ~call[p].strong \/ call[p].email # None
    BY <1>4 DEF IInv, TypeOK, ValidateCall, Goto
  <2> QED BY <1>1, <1>2, <1>4, <2>1, RefusalIsTableStep
<1>5. pc'[p] = "begin" \/ (pc'[p] = "done" /\ resp'[p] = 422)
  BY DEF IInv, TypeOK, ValidateCall, Goto, Answer
<1> QED BY <1>3, <1>4, <1>5

\* The checks on the locked row refuse for what the row says then.
LEMMA LockIsTableStep ==
  ASSUME IInv, NEW p \in Procs, LockRow(p)
  PROVE  Table!Next \/ UNCHANGED Table!vars
<1>1. pc[p] = "lock" /\ Op(p) \in {"update", "restore"} /\ db' = db
  BY DEF IInv, OnPath, LockRow
<1>2. MayWrite(p) /\ Handle(p) /\ ~Announcing(p)
  BY <1>1 DEF MayWrite, Handle, Writing, Announcing
<1>3. CASE pc'[p] = "write"
  BY <1>1, <1>2, <1>3, SameFate
<1>4. CASE pc'[p] = "done" /\ db[Target(p)] = None /\ resp'[p] = 404
  BY <1>1, <1>2, <1>4, RefusalIsTableStep
<1>5. CASE /\ pc'[p] = "done" /\ db[Target(p)] # None
           /\ resp'[p] = Refusal(db[Target(p)], call[p])
           /\ Refusal(db[Target(p)], call[p]) # None
  <2>1. CASE Op(p) = "restore"
    <3>1. resp'[p] = 422 /\ IsLive(db[Target(p)])
      BY <1>5, <2>1 DEF Refusal, Op, IsLive
    <3> QED BY <1>1, <1>2, <1>5, <2>1, <3>1, RefusalIsTableStep
  <2>2. CASE Op(p) = "update" /\ ~AcceptsUpdate(db[Target(p)], call[p])
    <3>1. resp'[p] = 404
      BY <1>5, <2>2 DEF Refusal, Op
    <3> QED BY <1>1, <1>2, <1>5, <2>2, <3>1, RefusalIsTableStep
  <2>3. CASE Op(p) = "update" /\ AcceptsUpdate(db[Target(p)], call[p])
    <3>1. resp'[p] = 422 /\ ~call[p].strong
      BY <1>5, <2>3 DEF Refusal, Op
    <3> QED BY <1>1, <1>2, <1>5, <2>3, <3>1, RefusalIsTableStep
  <2> QED BY <1>1, <2>1, <2>2, <2>3
<1>6. \/ pc'[p] = "write"
      \/ pc'[p] = "done" /\ db[Target(p)] = None /\ resp'[p] = 404
      \/ /\ pc'[p] = "done" /\ db[Target(p)] # None
         /\ resp'[p] = Refusal(db[Target(p)], call[p])
         /\ Refusal(db[Target(p)], call[p]) # None
  BY DEF IInv, TypeOK, LockRow, Goto, Answer
<1> QED BY <1>3, <1>4, <1>5, <1>6

\* The statements of a transaction touch nothing others see.
LEMMA StatementIsTableStep ==
  ASSUME IInv, NEW p \in Procs, Insert(p) \/ UpdateRow(p) \/ RestoreRow(p) \/ DeleteRow(p)
  PROVE  Table!Next \/ UNCHANGED Table!vars
<1>1. pc[p] = "write" /\ Op(p) \in Writers /\ db' = db
  BY DEF IInv, OnPath, Insert, UpdateRow, RestoreRow, DeleteRow
<1>2. MayWrite(p) /\ Handle(p) /\ ~Announcing(p)
  BY <1>1 DEF MayWrite, Handle, Writing, Announcing
<1>3. CASE pc'[p] = "commit"
  BY <1>1, <1>2, <1>3, SameFate
<1>4. CASE pc'[p] = "done" /\ resp'[p] = 500
  BY <1>1, <1>2, <1>4, RefusalIsTableStep
<1>5. CASE pc'[p] = "done" /\ resp'[p] = 404 /\ Op(p) = "delete" /\ ~IsLive(db[Target(p)])
  BY <1>1, <1>2, <1>5, RefusalIsTableStep DEF IsLive
<1>6. \/ pc'[p] = "commit"
      \/ pc'[p] = "done" /\ resp'[p] = 500
      \/ pc'[p] = "done" /\ resp'[p] = 404 /\ Op(p) = "delete" /\ ~IsLive(db[Target(p)])
  BY DEF IInv, TypeOK, Insert, UpdateRow, RestoreRow, DeleteRow, Written, Goto, Answer
<1> QED BY <1>3, <1>4, <1>5, <1>6

\* What follows a commit is decided already.
LEMMA AnnouncementIsStutter ==
  ASSUME IInv, NEW p \in Procs, DropProfile(p) \/ Stamp(p) \/ Bump(p)
  PROVE  UNCHANGED Table!vars
<1>1. Announcing(p) /\ MayWrite(p) /\ Handle(p) /\ db' = db
  BY DEF IInv, OnPath, DropProfile, Stamp, Bump, Announcing, MayWrite, Handle, Writing, store
<1>2. pc'[p] \in {"stamp", "bump"} \/ (pc'[p] = "done" /\ resp'[p] = 200)
  BY DEF IInv, TypeOK, DropProfile, Stamp, Bump, Goto, Answer
<1> QED BY <1>1, <1>2, SameFate

\* A writing request is at a step of a writer.
LEMMA WriterStep ==
  ASSUME IInv, NEW p \in Procs, Handle(p), MayWrite(p)
  PROVE  ValidateCall(p) \/ Writing(p)
BY DEF IInv, OnPath, MayWrite, Handle, Getting, Indexing, Lookup, Read, Fill, ReadVersion,
   LookupPage, CountRows, SelectRows, FillPage

\* Every step of a request is a step of UserTable or a stutter.
LEMMA RequestIsTableStep ==
  ASSUME IInv, IInv', NEW p \in Procs, Arrive(p) \/ Handle(p) \/ Abort(p)
  PROVE  Table!Next \/ UNCHANGED Table!vars
<1>1. CASE Arrive(p)
  BY <1>1, ArrivalIsTableStep
<1>2. CASE (Handle(p) \/ Abort(p)) /\ ~MayWrite(p)
  BY <1>2, ReadsAreStutters
<1>3. CASE Abort(p) /\ MayWrite(p)
  <2>1. db' = db /\ pc'[p] = "done" /\ resp'[p] = 500
    BY <1>3 DEF Abort, Goto, Answer, IInv, TypeOK
  <2> QED BY <1>3, <2>1, RefusalIsTableStep
<1>4. CASE Handle(p) /\ MayWrite(p)
  <2>1. CASE Begin(p)
    <3>1. /\ pc[p] = "begin" /\ pc'[p] \in {"lock", "write"} /\ db' = db
      BY <2>1, LeadsTo DEF IInv, Begin, store
    <3> QED BY <1>4, <3>1, SameFate DEF Announcing
  <2> QED BY <1>4, <2>1, WriterStep, ValidationIsTableStep, LockIsTableStep,
        StatementIsTableStep, CommitIsTableStep, AnnouncementIsStutter DEF Writing
<1> QED BY <1>1, <1>2, <1>3, <1>4

\* The environment decides nothing.
LEMMA EnvironmentIsStutter ==
  ASSUME Expiry \/ Tick \/ UNCHANGED vars
  PROVE  UNCHANGED Table!vars
<1>1. UNCHANGED <<db, pc, call, resp>>
  BY DEF Expiry, ExpireProfile, ExpirePage, Tick, vars, store, locals
<1>2. WriteAsked' = WriteAsked /\ WriteFate' = WriteFate
  BY <1>1 DEF WriteAsked, WriteFate, MayWrite, Op, Fate, Announcing
<1> QED BY <1>1, <1>2 DEF Table!vars

\* The service implements UserTable for any number of accounts and requests and
\* whatever fails: a request answered with success was applied once, at its
\* commit, to the row as it was then, so that it neither undoes what another
\* request wrote nor acts on a row another one deleted; a request that was
\* refused changed nothing; and no two accounts share an email.
THEOREM ServiceImplementsTable == Spec => ImplementsTable
<1>1. Init => Table!Init
  BY DEF Init, Table!Init, WriteAsked, WriteFate, MayWrite, Fate
<1>2. IInv /\ IInv' /\ [Next]_vars => [Table!Next]_(Table!vars)
  <2> SUFFICES ASSUME IInv, IInv', [Next]_vars
               PROVE  Table!Next \/ UNCHANGED Table!vars
    OBVIOUS
  <2> QED BY RequestIsTableStep, EnvironmentIsStutter DEF Next
<1> QED BY <1>1, <1>2, Inductive, PTL DEF Spec, ImplementsTable, Table!Spec

-----------------------------------------------------------------------------
(* Profiles. *)

\* What the cache holds of an account, or is about to get, is of an account that
\* has a row: no entry waits for an id that is still to be given out.
Known ==
  /\ \A u \in Users : profile[u] # None => db[u] # None
  /\ \A p \in Procs : pc[p] = "fill" => db[Target(p)] # None

\* A request is about to fill an entry only after it read a live row.
LEMMA FillFollowsRead ==
  ASSUME IInv, NEW p \in Procs, Arrive(p) \/ Handle(p) \/ Abort(p), pc'[p] = "fill"
  PROVE  Read(p) /\ db[Target(p)] # None
<1>1. Read(p)
  BY LeadsTo DEF IInv, Handle, Writing, Getting, Indexing, AfterCommit
<1> QED BY <1>1 DEF Read, IsLive, IInv, TypeOK, Answer, Goto

\* Known is inductive beside IInv.
LEMMA KnownInit == Init => Known
BY DEF Init, Known

\* The steps of requests keep it.
LEMMA KnownStep ==
  ASSUME IInv, Known, NEW p \in Procs, Arrive(p) \/ Handle(p) \/ Abort(p)
  PROVE  Known'
<1>1. Next /\ TypeOK /\ OnPath /\ Alone(p)
  BY StepsAlone DEF Next, IInv
<1>2. ASSUME NEW q \in Procs, pc'[q] = "fill" PROVE db'[Target(q)'] # None
  <2>1. db[Target(q)] # None /\ Target(q)' = Target(q) /\ Target(q) \in Users
    <3>1. CASE q = p
      <4>1. Read(p) /\ db[Target(p)] # None
        BY <1>2, <3>1, FillFollowsRead
      <4>2. call' = call /\ pc[p] = "read" /\ Op(p) = "get"
        BY <1>1, <4>1 DEF Read, OnPath
      <4> QED BY <1>1, <3>1, <4>1, <4>2, TargetIsUser DEF Target
    <3>2. CASE q # p
      <4>1. pc[q] = "fill" /\ call'[q] = call[q]
        BY <1>1, <1>2, <3>2 DEF Alone, OthersStay
      <4>2. Op(q) = "get"
        BY <1>1, <4>1 DEF OnPath
      <4> QED BY <1>1, <4>1, <4>2, TargetIsUser DEF Known, Target
    <3> QED BY <3>1, <3>2
  <2> QED BY <1>1, <2>1, RowsStay
<1>3. ASSUME NEW u \in Users, profile'[u] # None PROVE db'[u] # None
  <2>1. profile[u] # None \/ (pc[p] = "fill" /\ Target(p) = u)
    <3>1. CASE Fill(p)
      BY <1>1, <1>3, <3>1 DEF Fill, TypeOK
    <3>2. CASE DropProfile(p)
      BY <1>1, <1>3, <3>2 DEF DropProfile, TypeOK
    <3>3. CASE ~Fill(p) /\ ~DropProfile(p)
      <4>1. profile' = profile
        BY <3>3 DEF Handle, Writing, Getting, Indexing, Arrive, Start, ValidateCall, Begin, LockRow,
           Insert, UpdateRow, RestoreRow, DeleteRow, Commit, Stamp, Bump, Lookup, Read, 
           ReadVersion, LookupPage, CountRows, SelectRows, FillPage, Abort, cache
      <4> QED BY <1>3, <4>1
    <3> QED BY <3>1, <3>2, <3>3
  <2>2. db[u] # None
    BY <2>1 DEF Known
  <2> QED BY <1>1, <2>2, RowsStay
<1> QED BY <1>2, <1>3 DEF Known

\* So do the clock and the time-to-live.
LEMMA KnownNext == IInv /\ Known /\ [Next]_vars => Known'
<1> SUFFICES ASSUME IInv, Known, [Next]_vars PROVE Known'
  OBVIOUS
<1>1. CASE \E p \in Procs : Arrive(p) \/ Handle(p) \/ Abort(p)
  BY <1>1, KnownStep
<1>2. CASE \E u \in Users : ExpireProfile(u)
  BY <1>2 DEF ExpireProfile, Known, IInv, TypeOK, store, locals, Target
<1>3. CASE (\E k \in PageKeys : ExpirePage(k)) \/ Tick \/ UNCHANGED vars
  BY <1>3 DEF ExpirePage, Tick, vars, Known, store, cache, locals, Target
<1> QED BY <1>1, <1>2, <1>3 DEF Next, Expiry

\* A step of a request that makes a profile stale with no deletion of it underway
\* is a late fill or a lost deletion.
LEMMA StepLeavesFresh ==
  ASSUME IInv, Known, NEW p \in Procs, Arrive(p) \/ Handle(p) \/ Abort(p),
         NEW u \in Users,
         ~(StaleProfile(u) /\ ~DropPending(u)),
         (StaleProfile(u) /\ ~DropPending(u))'
  PROVE  LateFill(u) \/ ((CacheFaults \/ Aborts) /\ LostDrop(u))
<1>1. TypeOK /\ OnPath /\ Alone(p)
  BY StepsAlone DEF IInv
<1>2. profile'[u] # None /\ profile'[u] # LiveRow(u)' /\ ~DropPending(u)'
  BY DEF StaleProfile
<1>3. CASE Fill(p)
  <2>1. pc[p] = "fill" /\ db' = db
    BY <1>3 DEF Fill, store
  <2>2. CASE profile' = [profile EXCEPT ![Target(p)] = row[p]] /\ Target(p) = u
    <3>1. row[p] # LiveRow(u)
      BY <1>1, <1>2, <2>1, <2>2 DEF TypeOK, LiveRow
    <3> QED BY <2>1, <2>2, <3>1 DEF LateFill
  <2>3. CASE ~(profile' = [profile EXCEPT ![Target(p)] = row[p]] /\ Target(p) = u)
    <3>1. profile'[u] = profile[u]
      BY <1>1, <1>3, <2>3 DEF Fill, TypeOK
    <3>2. StaleProfile(u)
      BY <1>2, <2>1, <3>1 DEF StaleProfile, LiveRow
    <3>3. DropPending(u)'
      <4>1. PICK q \in Procs : pc[q] = "drop" /\ Target(q) = u
        BY <3>2 DEF DropPending
      <4>2. q # p
        BY <2>1, <4>1
      <4> QED BY <1>1, <4>1, <4>2 DEF DropPending, Alone, OthersStay, Target
    <3> QED BY <1>2, <3>3
  <2> QED BY <2>2, <2>3
<1>4. CASE Commit(p)
  <2>1. PICK v \in Users : lock[v] = p /\ db' = [db EXCEPT ![v] = row[p]]
    BY <1>4 DEF Commit, MakeVisible
  <2>2. pc[p] = "commit" /\ profile' = profile /\ call' = call
    BY <1>4 DEF Commit, cache, locals
  <2>3. IsResult(p, v)
    BY <2>1, <2>2 DEF IInv, Isolation, PendingFits
  <2>4. CASE v = u
    <3>1. Op(p) \notin Creates /\ Target(p) = u
      <4>1. db[u] # None
        BY <1>2, <2>2 DEF Known
      <4> QED BY <2>3, <2>4, <4>1 DEF IsResult
    <3>2. pc'[p] = "drop"
      BY <1>1, <1>4, <3>1, LeadsTo DEF AfterCommit
    <3>3. DropPending(u)'
      BY <2>2, <3>1, <3>2 DEF DropPending, Target
    <3> QED BY <1>2, <3>3
  <2>5. CASE v # u
    <3>1. LiveRow(u)' = LiveRow(u)
      BY <1>1, <2>1, <2>5 DEF LiveRow, TypeOK
    <3>2. StaleProfile(u)
      BY <1>2, <2>2, <3>1 DEF StaleProfile
    <3>3. PICK q \in Procs : pc[q] = "drop" /\ Target(q) = u
      BY <3>2 DEF DropPending
    <3>4. q # p
      BY <2>2, <3>3
    <3>5. DropPending(u)'
      BY <1>1, <3>3, <3>4 DEF DropPending, Alone, OthersStay, Target
    <3> QED BY <1>2, <3>5
  <2> QED BY <2>4, <2>5
<1>5. CASE ~Fill(p) /\ ~Commit(p)
  <2>1. db' = db /\ (DropProfile(p) \/ profile' = profile)
    BY <1>5 DEF Handle, Writing, Getting, Indexing, Arrive, Start, ValidateCall, Begin, LockRow,
       Insert, UpdateRow, RestoreRow, DeleteRow, DropProfile, Stamp, Bump, Lookup, Read,
       ReadVersion, LookupPage, CountRows, SelectRows, FillPage, Abort, cache, store
  <2>2. profile'[u] = profile[u]
    BY <1>1, <1>2, <2>1 DEF DropProfile, TypeOK
  <2>3. StaleProfile(u)
    BY <1>2, <2>1, <2>2 DEF StaleProfile, LiveRow
  <2>4. PICK q \in Procs : pc[q] = "drop" /\ Target(q) = u
    BY <2>3 DEF DropPending
  <2>5. CASE q # p
    <3>1. DropPending(u)'
      BY <1>1, <2>4, <2>5 DEF DropPending, Alone, OthersStay, Target
    <3> QED BY <1>2, <3>1
  <2>6. CASE q = p
    <3>1. LostDrop(u)
      BY <1>2, <2>2, <2>4 DEF LostDrop, DropPending
    <3>2. DropProfile(p) \/ Abort(p)
      BY <2>4, <2>6, ActionAt
    <3>3. CacheFaults \/ Aborts
      <4>1. CASE Abort(p)
        BY <4>1 DEF Abort
      <4>2. CASE DropProfile(p)
        BY <1>1, <1>2, <2>4, <2>6, <4>2 DEF DropProfile, TypeOK
      <4> QED BY <3>2, <4>1, <4>2
    <3> QED BY <3>1, <3>3
  <2> QED BY <2>5, <2>6
<1> QED BY <1>3, <1>4, <1>5

\* The time-to-live only removes entries, and the clock touches none.
LEMMA EnvironmentLeavesFresh ==
  ASSUME IInv, Expiry \/ Tick \/ UNCHANGED vars, NEW u \in Users,
         (StaleProfile(u) /\ ~DropPending(u))'
  PROVE  StaleProfile(u) /\ ~DropPending(u)
<1>1. UNCHANGED <<db, pc, call>> /\ (profile'[u] = profile[u] \/ profile'[u] = None)
  BY DEF Expiry, ExpireProfile, ExpirePage, Tick, vars, store, cache, locals, IInv, TypeOK
<1> QED BY <1>1 DEF StaleProfile, DropPending, LiveRow, Target

\* A profile comes to be stale with no deletion of it underway by two races only:
\* a get_user that fills the entry with what it read before the commit, and a
\* deletion of the entry that Redis or an abort swallowed.
THEOREM StaleOnlyByRace == Spec => ProfileStaleOnlyByRace
<1>1. IInv /\ Known /\ [Next]_vars =>
        [\A u \in Users :
           /\ ~(StaleProfile(u) /\ ~DropPending(u))
           /\ (StaleProfile(u) /\ ~DropPending(u))'
           => LateFill(u) \/ ((CacheFaults \/ Aborts) /\ LostDrop(u))]_vars
  BY StepLeavesFresh, EnvironmentLeavesFresh DEF Next
<1>2. Spec => []Known
  BY KnownInit, KnownNext, Inductive, PTL DEF Spec
<1> QED BY <1>1, <1>2, Inductive, PTL DEF Spec, ProfileStaleOnlyByRace

-----------------------------------------------------------------------------
(* Deletions and what brings accounts back. *)

\* A status is answered once, at the end.
AnsweredAtTheEnd == \A p \in Procs : resp[p] # None => pc[p] = "done"

\* An account has had as many deletions committed as events that brought it back,
\* but for one more while it is deleted.
Balanced(u) ==
  /\ IsFiniteSet(Deletions(u)) /\ IsFiniteSet(Revivals(u))
  /\ Cardinality(Deletions(u)) <=
       Cardinality(Revivals(u)) + (IF db[u] # None /\ db[u].deleted THEN 1 ELSE 0)

\* The inductive invariant, beside IInv.
Ledger == AnsweredAtTheEnd /\ \A u \in Users : Balanced(u)

\* What a finite set gains and loses with one element.
LEMMA OneMore ==
  ASSUME NEW S, NEW T, NEW p, IsFiniteSet(S), T \subseteq S \cup {p}
  PROVE  /\ IsFiniteSet(T) /\ Cardinality(S) \in Nat /\ Cardinality(T) \in Nat
         /\ Cardinality(T) <= Cardinality(S) + 1
         /\ p \notin T => Cardinality(T) <= Cardinality(S)
<1>1. IsFiniteSet(S \cup {p}) /\ Cardinality(S \cup {p}) <= Cardinality(S) + 1
  <2>1. Cardinality(S) \in Nat
    BY FS_CardinalityType
  <2>2. /\ IsFiniteSet(S \cup {p})
        /\ Cardinality(S \cup {p}) = IF p \in S THEN Cardinality(S) ELSE Cardinality(S) + 1
    BY FS_AddElement
  <2> QED BY <2>1, <2>2
<1>2. IsFiniteSet(T) /\ Cardinality(T) <= Cardinality(S \cup {p})
  BY <1>1, FS_Subset
<1>3. Cardinality(S) \in Nat /\ Cardinality(T) \in Nat /\ Cardinality(S \cup {p}) \in Nat
  BY <1>1, <1>2, FS_CardinalityType
<1>4. p \notin T => Cardinality(T) <= Cardinality(S)
  BY FS_Subset
<1> QED BY <1>1, <1>2, <1>3, <1>4

\* One element comes to a finite set that had it not.
LEMMA OneComes ==
  ASSUME NEW S, NEW T, NEW p, IsFiniteSet(S), S \cup {p} \subseteq T, p \notin S, IsFiniteSet(T)
  PROVE  Cardinality(S) + 1 <= Cardinality(T)
<1>1. Cardinality(S \cup {p}) = Cardinality(S) + 1
  BY FS_AddElement
<1>2. Cardinality(S \cup {p}) <= Cardinality(T)
  BY FS_Subset
<1> QED BY <1>1, <1>2

\* A request answers when it is done, and not before.
LEMMA AnswerStep ==
  ASSUME IInv, AnsweredAtTheEnd, NEW p \in Procs, Arrive(p) \/ Handle(p) \/ Abort(p)
  PROVE  AnsweredAtTheEnd' /\ resp[p] = None /\ (pc'[p] # "done" => resp'[p] = None)
<1>1. pc[p] # "done" /\ resp[p] = None /\ TypeOK
  BY ActionAt DEF AnsweredAtTheEnd, IInv
<1>2. resp'[p] # None => pc'[p] = "done"
  <2> USE DEF TypeOK, Goto, Answer, locals
  <2>1. CASE Arrive(p) \/ Abort(p) \/ ValidateCall(p) \/ Begin(p) \/ Commit(p) \/ LockRow(p)
    BY <1>1, <2>1 DEF Arrive, Start, Abort, ValidateCall, Begin, Commit, LockRow
  <2>2. CASE Insert(p) \/ UpdateRow(p) \/ RestoreRow(p) \/ DeleteRow(p)
    BY <1>1, <2>2 DEF Insert, UpdateRow, RestoreRow, DeleteRow, Written
  <2>3. CASE DropProfile(p) \/ Stamp(p) \/ Bump(p)
    BY <1>1, <2>3 DEF DropProfile, Stamp, Bump
  <2>4. CASE Getting(p) \/ Indexing(p)
    BY <1>1, <2>4 DEF Getting, Lookup, Read, Fill, Indexing, ReadVersion, LookupPage, CountRows, SelectRows, FillPage
  <2> QED BY <2>1, <2>2, <2>3, <2>4 DEF Handle, Writing
<1>3. AnsweredAtTheEnd'
  BY <1>1, <1>2, StepsAlone DEF AnsweredAtTheEnd, Alone, OthersStay
<1> QED BY <1>1, <1>2, <1>3

\* The other requests stay in the accounts.
LEMMA OthersCount ==
  ASSUME IInv, NEW p \in Procs, Arrive(p) \/ Handle(p) \/ Abort(p), NEW u \in Users
  PROVE  \A q \in Procs \ {p} : /\ q \in Deletions(u)' <=> q \in Deletions(u)
                                /\ q \in Revivals(u)' <=> q \in Revivals(u)
<1>1. Alone(p)
  BY StepsAlone DEF IInv
<1> QED BY <1>1 DEF Alone, OthersStay, Deletions, Revivals, Committed, Op, Target

\* Only a commit is a new deletion, and nothing takes an event back that brought
\* an account back.
LEMMA OnlyCommitsCount ==
  ASSUME IInv, AnsweredAtTheEnd, NEW p \in Procs, Arrive(p) \/ Handle(p) \/ Abort(p), ~Commit(p),
         NEW u \in Users
  PROVE  /\ p \in Deletions(u)' => p \in Deletions(u)
         /\ p \in Revivals(u) => p \in Revivals(u)'
<1>1. TypeOK /\ OnPath /\ resp[p] = None /\ pc[p] # "done"
  BY AnswerStep, ActionAt DEF IInv
<1>2. CASE Arrive(p)
  <2>1. pc'[p] \in {"validate", "begin", "lookup", "version"} /\ resp'[p] = None /\ pc[p] = "idle"
    BY <1>1, <1>2, LeadsTo DEF Arrive, Start
  <2>2. ~Committed(p) /\ ~Committed(p)' /\ resp[p] # 500
    BY <1>1, <2>1, NoneIsNoValue DEF Committed
  <2> QED BY <2>2 DEF Deletions, Revivals
<1>3. CASE ~Arrive(p)
  <2>1. call' = call
    BY <1>3, CallsStay
  <2>2. ASSUME Committed(p)', Op(p) \in {"delete", "update", "restore"} PROVE Committed(p)
    <3>1. CASE pc'[p] \in {"drop", "stamp", "bump"}
      <4>1. DropProfile(p) \/ Stamp(p)
        BY <1>1, <1>3, <3>1, LeadsTo DEF Handle, Writing, Getting, Indexing
      <4> QED BY <4>1 DEF DropProfile, Stamp, Committed
    <3>2. CASE resp'[p] = 200
      <4>1. CASE Getting(p) \/ Indexing(p)
        BY <1>1, <2>2, <4>1 DEF Getting, Indexing, OnPath, Lookup, Read, Fill, ReadVersion, LookupPage, CountRows, SelectRows, FillPage
      <4>2. CASE Bump(p)
        BY <4>2 DEF Bump, Committed
      <4>3. CASE ValidateCall(p) \/ Begin(p) \/ LockRow(p) \/ Abort(p)
        BY <1>1, <3>2, <4>3, NoneIsNoValue DEF ValidateCall, Begin, LockRow, Abort, Refusal, Answer, locals, TypeOK
      <4>4. CASE Insert(p) \/ UpdateRow(p) \/ RestoreRow(p) \/ DeleteRow(p) \/ DropProfile(p) \/ Stamp(p)
        BY <1>1, <3>2, <4>4, NoneIsNoValue DEF Insert, UpdateRow, RestoreRow, DeleteRow, Written, DropProfile, Stamp, Answer, locals, TypeOK
      <4> QED BY <1>3, <4>1, <4>2, <4>3, <4>4 DEF Handle, Writing
    <3> QED BY <2>2, <3>1, <3>2 DEF Committed
  <2>3. ASSUME Committed(p) PROVE Committed(p)' \/ resp'[p] = 500
    <3>1. pc[p] \in {"drop", "stamp", "bump"}
      BY <1>1, <2>3, NoneIsNoValue DEF Committed
    <3>2. DropProfile(p) \/ Stamp(p) \/ Bump(p) \/ Abort(p)
      BY <3>1, ActionAt
    <3>3. CASE DropProfile(p) \/ Stamp(p)
      BY <1>1, <3>3, LeadsTo DEF Committed
    <3>4. CASE Bump(p) \/ Abort(p)
      BY <1>1, <3>4 DEF Bump, Abort, Answer, Committed, TypeOK
    <3> QED BY <3>2, <3>3, <3>4
  <2>4. resp[p] # 500
    BY <1>1, NoneIsNoValue
  <2>5. pc[p] # "idle" /\ pc'[p] # "idle"
    BY <1>1, <1>3, ActionAt, LeadsTo DEF Handle, Writing, Getting, Indexing, AfterCommit
  <2> QED BY <2>1, <2>2, <2>3, <2>4, <2>5 DEF Deletions, Revivals, Op, Target
<1> QED BY <1>2, <1>3

\* A step that commits nothing keeps the balance.
LEMMA QuietBalance ==
  ASSUME IInv, Ledger, NEW p \in Procs, Arrive(p) \/ Handle(p) \/ Abort(p), ~Commit(p),
         NEW u \in Users
  PROVE  Balanced(u)'
<1>1. db' = db
  BY DEF Handle, Writing, Getting, Indexing, Arrive, Start, ValidateCall, Begin, LockRow,
     Insert, UpdateRow, RestoreRow, DeleteRow, DropProfile, Stamp, Bump, Lookup, Read, Fill,
     ReadVersion, LookupPage, CountRows, SelectRows, FillPage, Abort, store
<1>2. Deletions(u)' \subseteq Procs /\ Revivals(u) \subseteq Procs /\ Revivals(u)' \subseteq Procs
  BY DEF Deletions, Revivals
<1>3. /\ Deletions(u)' \subseteq Deletions(u)
      /\ Revivals(u) \subseteq Revivals(u)'
      /\ Revivals(u)' \subseteq Revivals(u) \cup {p}
  <2> HIDE DEF Deletions, Revivals
  <2> QED BY <1>2, OnlyCommitsCount, OthersCount DEF Ledger
<1>4. IsFiniteSet(Deletions(u)) /\ IsFiniteSet(Revivals(u))
  BY DEF Ledger, Balanced
<1>5. IsFiniteSet(Deletions(u)') /\ Cardinality(Deletions(u)') <= Cardinality(Deletions(u))
  BY <1>3, <1>4, FS_Subset
<1>6. IsFiniteSet(Revivals(u)') /\ Cardinality(Revivals(u)) <= Cardinality(Revivals(u)')
  BY <1>3, <1>4, OneMore, FS_Subset
<1>7. /\ Cardinality(Deletions(u)) \in Nat /\ Cardinality(Deletions(u)') \in Nat
      /\ Cardinality(Revivals(u)) \in Nat /\ Cardinality(Revivals(u)') \in Nat
  BY <1>4, <1>5, <1>6, FS_CardinalityType
<1>8. Cardinality(Deletions(u)) <=
        Cardinality(Revivals(u)) + (IF db[u] # None /\ db[u].deleted THEN 1 ELSE 0)
  BY DEF Ledger, Balanced
<1>9. Cardinality(Deletions(u)') <=
        Cardinality(Revivals(u)') + (IF db'[u] # None /\ db'[u].deleted THEN 1 ELSE 0)
  BY <1>1, <1>5, <1>6, <1>7, <1>8
<1> QED BY <1>5, <1>6, <1>9 DEF Balanced

\* A commit enters the account of its row only, on the side of what it does to it.
LEMMA CommitCounts ==
  ASSUME IInv, AnsweredAtTheEnd, NEW p \in Procs, Commit(p), NEW u \in Users
  PROVE  /\ p \notin Deletions(u) /\ p \notin Revivals(u)
         /\ p \in Deletions(u)' <=> Op(p) = "delete" /\ Target(p) = u
         /\ p \in Revivals(u)' <=> /\ Op(p) \in {"restore", "update"} /\ Target(p) = u
                                   /\ Op(p) = "update" => call[p].deleted = "null"
<1>1. TypeOK /\ pc[p] = "commit" /\ resp[p] = None /\ call' = call /\ resp' = resp /\ call[p] \in Calls
  BY AnswerStep DEF IInv, Commit, locals, Handle, Writing, OnPath
<1>2. ~Committed(p) /\ resp[p] # 500
  BY <1>1, NoneIsNoValue DEF Committed
<1>3. Committed(p)'
  BY <1>1, LeadsTo DEF AfterCommit, Committed
<1>4. pc[p] # "idle" /\ pc'[p] # "idle"
  BY <1>1, LeadsTo DEF AfterCommit
<1> QED BY <1>1, <1>2, <1>3, <1>4 DEF Deletions, Revivals, Op, Target

\* What a commit does to a deleted row is in the account.
LEMMA CommitBalance ==
  ASSUME IInv, Ledger, NEW p \in Procs, Commit(p), NEW u \in Users
  PROVE  Balanced(u)'
<1> DEFINE gone  == db[u] # None /\ db[u].deleted
           gone2 == db'[u] # None /\ db'[u].deleted
           D == Deletions(u)
           D2 == Deletions(u)'
           R == Revivals(u)
           R2 == Revivals(u)'
<1>1. IsFiniteSet(D) /\ IsFiniteSet(R) /\ Cardinality(D) <= Cardinality(R) + (IF gone THEN 1 ELSE 0)
  BY DEF Ledger, Balanced
<1>2. /\ p \notin D /\ p \notin R
      /\ p \in D2 <=> Op(p) = "delete" /\ Target(p) = u
      /\ p \in R2 <=> /\ Op(p) \in {"restore", "update"} /\ Target(p) = u
                      /\ Op(p) = "update" => call[p].deleted = "null"
  BY CommitCounts DEF Ledger
<1>3. \A q \in Procs \ {p} : (q \in D2 <=> q \in D) /\ (q \in R2 <=> q \in R)
  BY OthersCount DEF Handle, Writing
<1>4. D \subseteq Procs /\ D2 \subseteq Procs /\ R \subseteq Procs /\ R2 \subseteq Procs
  BY DEF Deletions, Revivals
<1>5. PICK v \in Users : lock[v] = p /\ db' = [db EXCEPT ![v] = row[p]]
  BY DEF Commit, MakeVisible
<1>6. IsResult(p, v) /\ row[p] \in Row /\ row[p] # None /\ OnPath /\ TypeOK
  BY <1>5, OtherRows DEF IInv, Isolation, PendingFits, Commit
<1> HIDE DEF D, D2, R, R2
<1>7. D2 \subseteq D \cup {p} /\ R \subseteq R2 /\ R2 \subseteq R \cup {p}
  BY <1>2, <1>3, <1>4
<1>8. /\ IsFiniteSet(D2) /\ Cardinality(D) \in Nat /\ Cardinality(D2) \in Nat
      /\ Cardinality(D2) <= Cardinality(D) + 1
      /\ p \notin D2 => Cardinality(D2) <= Cardinality(D)
  BY <1>1, <1>7, OneMore
<1>9. IsFiniteSet(R2) /\ Cardinality(R) \in Nat /\ Cardinality(R2) \in Nat
  BY <1>1, <1>7, OneMore
<1>10. Cardinality(R) <= Cardinality(R2)
  BY <1>7, <1>9, FS_Subset
<1>11. p \in R2 => Cardinality(R) + 1 <= Cardinality(R2)
  BY <1>1, <1>2, <1>7, <1>9, OneComes
<1>12. \/ p \in D2 /\ ~gone /\ gone2
       \/ p \notin D2 /\ p \in R2
       \/ p \notin D2 /\ (gone => gone2)
  <2>1. CASE v # u
    <3>1. db'[u] = db[u]
      BY <1>5, <1>6, <2>1 DEF TypeOK
    <3>2. p \notin D2
      BY <1>2, <1>6, <2>1 DEF IsResult
    <3> QED BY <3>1, <3>2
  <2>2. CASE v = u
    <3>1. db'[u] = row[p]
      BY <1>5, <1>6, <2>2 DEF TypeOK
    <3>2. CASE Op(p) \in Creates
      BY <1>2, <1>6, <2>2, <3>2 DEF IsResult
    <3>3. CASE Op(p) = "delete"
      BY <1>2, <1>6, <2>2, <3>1, <3>3 DEF IsResult, Removed, TypeOK, Row
    <3>4. CASE Op(p) = "restore"
      BY <1>2, <1>6, <2>2, <3>4 DEF IsResult
    <3>5. CASE Op(p) = "update"
      <4>1. CASE call[p].deleted = "null"
        BY <1>2, <1>6, <2>2, <3>5, <4>1 DEF IsResult
      <4>2. CASE call[p].deleted # "null"
        BY <1>2, <1>6, <2>2, <3>5, <4>2 DEF IsResult, AcceptsUpdate
      <4> QED BY <4>1, <4>2
    <3>6. Op(p) \in Creates \cup {"update", "restore", "delete"}
      BY <1>6 DEF OnPath, Commit
    <3> QED BY <3>2, <3>3, <3>4, <3>5, <3>6
  <2> QED BY <2>1, <2>2
<1> HIDE DEF gone, gone2
<1>13. Cardinality(D2) <= Cardinality(R2) + (IF gone2 THEN 1 ELSE 0)
  <2>1. CASE p \in D2 /\ ~gone /\ gone2
    BY <1>1, <1>8, <1>9, <1>10, <2>1
  <2>2. CASE p \notin D2 /\ p \in R2
    BY <1>1, <1>8, <1>9, <1>11, <2>2
  <2>3. CASE p \notin D2 /\ (gone => gone2)
    BY <1>1, <1>8, <1>9, <1>10, <2>3
  <2> QED BY <1>12, <2>1, <2>2, <2>3
<1> QED BY <1>8, <1>9, <1>13 DEF Balanced, D2, R2, gone2

\* Nothing has been asked yet.
LEMMA LedgerInit == Init => Ledger
<1> SUFFICES ASSUME Init PROVE Ledger
  OBVIOUS
<1>1. AnsweredAtTheEnd
  BY DEF Init, AnsweredAtTheEnd
<1>2. ASSUME NEW u \in Users PROVE Balanced(u)
  <2>1. Deletions(u) = {} /\ Revivals(u) = {}
    BY DEF Init, Deletions, Revivals
  <2>2. IsFiniteSet({}) /\ Cardinality({}) = 0
    BY FS_EmptySet
  <2> QED BY <2>1, <2>2 DEF Balanced
<1> QED BY <1>1, <1>2 DEF Ledger

\* Every step keeps the ledger.
LEMMA LedgerNext == IInv /\ Ledger /\ [Next]_vars => Ledger'
<1> SUFFICES ASSUME IInv, Ledger, [Next]_vars PROVE Ledger'
  OBVIOUS
<1>1. ASSUME NEW p \in Procs, Arrive(p) \/ Handle(p) \/ Abort(p) PROVE Ledger'
  <2>1. AnsweredAtTheEnd'
    BY <1>1, AnswerStep DEF Ledger
  <2>2. ASSUME NEW u \in Users PROVE Balanced(u)'
    BY <1>1, <2>2, QuietBalance, CommitBalance
  <2> QED BY <2>1, <2>2 DEF Ledger
<1>2. CASE Expiry \/ Tick \/ UNCHANGED vars
  <2>1. UNCHANGED <<db, pc, call, resp>>
    BY <1>2 DEF Expiry, ExpireProfile, ExpirePage, Tick, vars, store, locals
  <2>2. \A u \in Users : Deletions(u)' = Deletions(u) /\ Revivals(u)' = Revivals(u)
    BY <2>1 DEF Deletions, Revivals, Committed, Op, Target
  <2>3. \A u \in Users : Balanced(u)'
    BY <2>1, <2>2 DEF Ledger, Balanced
  <2> QED BY <2>1, <2>3 DEF Ledger, AnsweredAtTheEnd
<1> QED BY <1>1, <1>2 DEF Next

\* A deletion is acknowledged once: of two acknowledged deletions of an account,
\* something was committed in between that brought it back.
THEOREM DeletionsAreOnce == Spec => []DeletedOnce
<1>1. Ledger => DeletedOnce
  <2> SUFFICES ASSUME Ledger, NEW u \in Users
               PROVE  Cardinality(Deletions(u)) <= Cardinality(Revivals(u)) + 1
    BY DEF DeletedOnce
  <2>1. Balanced(u)
    BY DEF Ledger
  <2>2. Cardinality(Deletions(u)) \in Nat /\ Cardinality(Revivals(u)) \in Nat
    BY <2>1, FS_CardinalityType DEF Balanced
  <2> QED BY <2>1, <2>2 DEF Balanced
<1>2. Spec => []Ledger
  BY LedgerInit, LedgerNext, Inductive, PTL DEF Spec
<1> QED BY <1>1, <1>2, PTL

=============================================================================
