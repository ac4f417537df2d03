------------------------------ MODULE ApiProofs ------------------------------
(***************************************************************************)
(* The API only ever drives the user service through its own operations,   *)
(* proved for every set of requests, asks and accounts; so what is proved  *)
(* of the service holds behind the API.  On top of that: who is admitted,  *)
(* what an answer is worth, and who changes accounts.                      *)
(***************************************************************************)
EXTENDS Api, AttemptCounterProofs

(* The calls a request makes. *)

\* They meet what the service's own theorems assume of its calls.
THEOREM CallsAreCalls ==
  /\ Calls \subseteq Service!Call
  /\ \A c \in Calls : /\ c.op \in Service!ByUser => c.user # None
                      /\ c.op \in Service!Creates => c.email # None
                      /\ c.op = "index" => c.query # None
<1> DEFINE Accepted(c) == /\ c \in Service!Call
                          /\ c.op \in Service!ByUser => c.user # None
                          /\ c.op \in Service!Creates => c.email # None
                          /\ c.op = "index" => c.query # None
<1> USE DEF Service!Call, Service!Ops, Service!ByUser, Service!Creates, Service!DeletedAt,
           Service!Roles, Service!Statuses, DeletedAt, Roles, Statuses
<1>1. ASSUME NEW u \in Users PROVE Accepted(GetOf(u))
  BY <1>1, NoneIsNoValue DEF GetOf
<1>2. ASSUME NEW a \in Asks, a.op = "register" PROVE Accepted(a)
  BY <1>2, AsksAssumption DEF Ask
<1>3. ASSUME NEW a \in Asks, a.op \notin Public, NEW t \in [user : Users, role : Roles]
      PROVE Accepted(CallOf(a, t))
  <2>1. a \in Ask /\ a.op \notin {"login", "register"} /\ t.user # None
    BY <1>3, AsksAssumption, NoneIsNoValue DEF Public
  <2>2. CASE a.op = "me"
    BY <2>1, <2>2, <1>1 DEF CallOf, GetOf
  <2>3. CASE a.op = "update_me"
    BY <2>1, <2>3 DEF CallOf, Stripped, Ask
  <2>4. CASE a.op = "update"
    BY <2>1, <2>4, AsksAssumption DEF CallOf, Stripped, Ask
  <2>5. CASE a.op \notin {"me", "update_me", "update"}
    <3>1. CallOf(a, t) = a
      BY <2>5 DEF CallOf
    <3>2. QED
      BY <2>1, <2>5, <3>1, AsksAssumption DEF Ask
  <2>6. QED
    BY <2>2, <2>3, <2>4, <2>5
<1>4. ASSUME NEW c \in Calls PROVE Accepted(c)
  <2> HIDE DEF Accepted
  <2>1. QED
    BY <1>1, <1>2, <1>3, <1>4 DEF Calls
<1>5. QED
  BY <1>4

\* The controller's call is one the service can be called with.
LEMMA CallIsAccepted ==
  ASSUME NEW a \in Asks, a.op \notin Public, NEW t, t.user \in Users
  PROVE  CallOf(a, t) \in Calls
<1> DEFINE s == [user |-> t.user, role |-> IF t.role = 0 THEN 0 ELSE 1]
<1>1. s \in [user : Users, role : Roles]
  BY DEF Roles
<1>2. CallOf(a, t) = CallOf(a, s)
  BY DEF CallOf, Stripped, GetOf
<1>3. QED
  BY <1>1, <1>2 DEF Calls

-----------------------------------------------------------------------------
(* Every step of the API is a step of the service, or leaves it alone. *)

\* The service starts as its own specification says.
LEMMA InitRefines == Init => Service!Init
BY DEF Init

\* A call that begins is an arrival at the service.
LEMMA StartRefines ==
  ASSUME NEW p \in Slots, NEW c \in Calls, Service!Start(p, c)
  PROVE  Service!Next
BY DEF Service!Next, Service!Arrive

\* So is the fetch of an account; all else a request does on arrival is its own.
LEMMA ReceiveRefines ==
  ASSUME Poised, NEW r \in Requests, Receive(r)
  PROVE  Service!Next \/ UNCHANGED service
<1>1. PICK a \in Asks : TurnAway(r, a) \/ ReceivePublic(r, a) \/ Authenticate(r, a)
  BY DEF Receive
<1>5. CASE TurnAway(r, a)
  BY <1>5 DEF TurnAway
<1>2. CASE ReceivePublic(r, a)
  BY <1>2 DEF ReceivePublic
<1>3. CASE Authenticate(r, a)
  <2>1. UNCHANGED service \/ \E t \in issued : Service!Start(Auth(r), GetOf(t.user))
    BY <1>3 DEF Authenticate
  <2>2. ASSUME NEW t \in issued, Service!Start(Auth(r), GetOf(t.user)) PROVE Service!Next
    <3>1. GetOf(t.user) \in Calls
      BY DEF Poised, Calls
    <3>2. Auth(r) \in Slots
      BY DEF Auth, Slots
    <3>3. QED
      BY <2>2, <3>1, <3>2, StartRefines
  <2>3. QED
    BY <2>1, <2>2
<1>4. QED
  BY <1>1, <1>2, <1>3, <1>5

\* A registration that is let through calls the service as it was asked to.
LEMMA LimitedRefines ==
  ASSUME Poised, NEW r \in Requests, Limited(r)
  PROVE  Service!Next \/ UNCHANGED service
<1>1. at[r] = "limit" /\ ask[r] \in Asks /\ ask[r].op \in Public
  BY DEF Poised, Limited
<1>2. UNCHANGED service \/ (ask[r].op # "login" /\ Service!Start(Act(r), ask[r]))
  BY DEF Limited
<1>3. ask[r].op # "login" => ask[r] \in Calls
  BY <1>1 DEF Public, Calls
<1>4. Act(r) \in Slots
  BY DEF Act, Slots
<1>5. QED
  BY <1>2, <1>3, <1>4, StartRefines

\* A handler behind the extractor calls the service as its controller does.
LEMMA AuthenticatedRefines ==
  ASSUME Poised, NEW r \in Requests, Authenticated(r)
  PROVE  Service!Next \/ UNCHANGED service
<1>1. ask[r] \in Asks /\ ask[r].op \notin Public /\ token[r].user \in Users
  BY DEF Poised, Authenticated
<1>2. UNCHANGED service \/ Service!Start(Act(r), CallOf(ask[r], token[r]))
  BY DEF Authenticated
<1>3. CallOf(ask[r], token[r]) \in Calls
  BY <1>1, CallIsAccepted
<1>4. Act(r) \in Slots
  BY DEF Act, Slots
<1>5. QED
  BY <1>2, <1>3, <1>4, StartRefines

\* All steps together.
LEMMA NextRefines == Poised /\ [Next]_vars => [Service!Next]_(Service!vars)
<1> SUFFICES ASSUME Poised, [Next]_vars PROVE Service!Next \/ UNCHANGED service
  BY DEF service, Service!vars
<1>1. CASE UNCHANGED vars
  BY <1>1 DEF vars, service
<1>2. CASE \E r \in Requests : Receive(r) \/ Handler(r) \/ GiveUp(r)
  BY <1>2, ReceiveRefines, LimitedRefines, AuthenticatedRefines
     DEF Handler, Query, Verify, Finish, GiveUp
<1>3. CASE \E p \in Slots : Serve(p) \/ Cut(p)
  BY <1>3 DEF Serve, Cut, Service!Next
<1>4. CASE Expiry \/ Tick
  BY <1>4 DEF Expiry, Tick, Service!Next
<1>5. QED
  BY <1>1, <1>2, <1>3, <1>4 DEF Next

-----------------------------------------------------------------------------
(* What the calls need is kept, whatever the service does. *)

\* The tokens given out before name accounts.
LEMMA PoisedInit == Init => Poised
BY TokensAssumption DEF Init, Poised, Claims, Stages

\* However it is encrypted, an answer ends the request.
LEMMA ReplyEnds ==
  ASSUME NEW r \in Requests, NEW code, Reply(r, code)
  PROVE  at' = [at EXCEPT ![r] = "replied"]
BY DEF Reply, Send

\* A request keeps what it asked and which token it showed.
LEMMA ReceivePoised ==
  ASSUME Poised, NEW r \in Requests, Receive(r)
  PROVE  Poised'
<1>1. PICK a \in Asks : TurnAway(r, a) \/ ReceivePublic(r, a) \/ Authenticate(r, a)
  BY DEF Receive
<1>2. UNCHANGED <<issued, found>> /\ ask' = [ask EXCEPT ![r] = a]
  BY <1>1 DEF Receive, TurnAway, ReceivePublic, Authenticate
<1>6. CASE TurnAway(r, a)
  BY <1>2, <1>6, ReplyEnds DEF TurnAway, Garbled, KeyRefused, Poised, Stages, Send
<1>3. CASE ReceivePublic(r, a)
  BY <1>2, <1>3, ReplyEnds DEF ReceivePublic, Goto, Poised, Stages, Public
<1>4. CASE Authenticate(r, a)
  <2>1. CASE Reply(r, 401) /\ UNCHANGED token
    BY <1>2, <1>4, <2>1, ReplyEnds DEF Authenticate, Poised, Stages
  <2>2. CASE \E t \in issued : token' = [token EXCEPT ![r] = t] /\ (Reply(r, 401) \/ Goto(r, "auth"))
    BY <1>2, <1>4, <2>2, ReplyEnds DEF Authenticate, Goto, Poised, Stages
  <2>3. QED
    BY <1>4, <2>1, <2>2 DEF Authenticate
<1>5. QED
  BY <1>1, <1>3, <1>4, <1>6

\* A login finds accounts only.
LEMMA QueryPoised ==
  ASSUME Poised, NEW r \in Requests, Query(r)
  PROVE  Poised'
BY DEF Query, Goto, Poised, Stages

\* A token is issued for the account that was found.
LEMMA VerifyPoised ==
  ASSUME Poised, NEW r \in Requests, Verify(r)
  PROVE  Poised'
BY ReplyEnds DEF Verify, Poised, Stages

\* The other steps of a request only move it on.
LEMMA HandlerPoised ==
  ASSUME Poised, NEW r \in Requests,
         Limited(r) \/ Authenticated(r) \/ Finish(r) \/ GiveUp(r)
  PROVE  Poised'
<1>1. UNCHANGED <<issued, ask, token, found>>
  BY DEF Limited, Authenticated, Finish, GiveUp
<1>2. \E l \in Stages \ {"idle", "limit", "auth"} :
        at' = [at EXCEPT ![r] = l] /\ (l = "query" => at[r] = "limit") /\ l # "verify"
  BY ReplyEnds DEF Limited, Authenticated, Finish, GiveUp, Goto, Send, Stages
<1>3. at[r] # "idle"
  BY DEF Limited, Authenticated, Finish, GiveUp
<1>4. QED
  BY <1>1, <1>2, <1>3 DEF Poised

\* Nobody else touches any of it.
LEMMA EnvironmentPoised ==
  ASSUME Poised, UNCHANGED <<issued, request>>
  PROVE  Poised'
BY DEF request, Poised

\* Requests keep what their calls need, in every reachable state.
THEOREM StaysPoised == Spec => []Poised
<1>1. Poised /\ [Next]_vars => Poised'
  <2> SUFFICES ASSUME Poised, [Next]_vars PROVE Poised'
    OBVIOUS
  <2>1. CASE UNCHANGED vars
    BY <2>1, EnvironmentPoised DEF vars, request
  <2>2. CASE \E r \in Requests : Receive(r) \/ Handler(r) \/ GiveUp(r)
    BY <2>2, ReceivePoised, QueryPoised, VerifyPoised, HandlerPoised DEF Handler
  <2>3. CASE Expiry \/ Tick \/ \E p \in Slots : Serve(p) \/ Cut(p)
    BY <2>3, EnvironmentPoised DEF Serve, Cut, Expiry, Tick
  <2>4. QED
    BY <2>1, <2>2, <2>3 DEF Next
<1>2. QED
  BY <1>1, PoisedInit, PTL DEF Spec

\* The API implements the user service's specification: whatever the requests,
\* tokens and policies, behind it the service takes its own steps only, called
\* with calls it accepts.  All that holds of the service holds behind the API.
THEOREM ApiImplementsService == Spec => ImplementsService
<1>1. QED
  BY InitRefines, NextRefines, StaysPoised, PTL DEF Spec, ImplementsService, Service!Spec

-----------------------------------------------------------------------------
(* What was proved of the service holds behind the API. *)

Proved == INSTANCE UserIndexProofs WITH Procs <- Slots

\* The service that was proved about is the one behind the API: in what it reads,
LEMMA SameReads ==
  /\ \A p : Service!Op(p) = Proved!Op(p) /\ Service!Target(p) = Proved!Target(p)
  /\ Service!ConnectionFree <=> Proved!ConnectionFree
  /\ \A e, x : Service!TakenByLive(e, x) <=> Proved!TakenByLive(e, x)
  /\ \A e, x : Service!EmailUsed(e, x) <=> Proved!EmailUsed(e, x)
  /\ \A e, p : Service!EmailBusy(e, p) <=> Proved!EmailBusy(e, p)
  /\ \A q : Service!Key(q) = Proved!Key(q)
  /\ \A t, q : Service!Matching(t, q) = Proved!Matching(t, q)
  /\ \A x, q : Service!OnPage(x, q) = Proved!OnPage(x, q)
  /\ \A t, x : Service!Shown(t, x) = Proved!Shown(t, x)
  /\ \A x : Service!Cardinality(x) = Proved!Cardinality(x)
<1>1. \A p : Service!Op(p) = Proved!Op(p) /\ Service!Target(p) = Proved!Target(p)
  BY DEF Service!Op, Proved!Op, Service!Target, Proved!Target
<1>2. Service!ConnectionFree <=> Proved!ConnectionFree
  BY DEF Service!ConnectionFree, Proved!ConnectionFree, Service!InTransaction,
       Proved!InTransaction, Service!Cardinality, Proved!Cardinality, Service!IsFiniteSet,
       Proved!IsFiniteSet
<1>3. \A e, x : Service!TakenByLive(e, x) <=> Proved!TakenByLive(e, x)
  BY DEF Service!TakenByLive, Proved!TakenByLive, Service!IsLive, Proved!IsLive
<1>4. \A e, x : Service!EmailUsed(e, x) <=> Proved!EmailUsed(e, x)
  BY DEF Service!EmailUsed, Proved!EmailUsed
<1>5. \A e, p : Service!EmailBusy(e, p) <=> Proved!EmailBusy(e, p)
  BY DEF Service!EmailBusy, Proved!EmailBusy
<1>6. \A q : Service!Key(q) = Proved!Key(q)
  BY DEF Service!Key, Proved!Key, Service!Spelled, Proved!Spelled, Service!Where,
       Proved!Where, Service!Order, Proved!Order, Service!GetPage,
       Proved!GetPage, Service!GetPerPage, Proved!GetPerPage
<1>7. \A t, q : Service!Matching(t, q) = Proved!Matching(t, q)
  BY DEF Service!Matching, Proved!Matching, Service!Column, Proved!Column, Service!Filters,
       Proved!Filters
<1>8. \A x, q : Service!OnPage(x, q) = Proved!OnPage(x, q)
  BY DEF Service!OnPage, Proved!OnPage, Service!Offset, Proved!Offset, Service!Rank, Proved!Rank,
       Service!Order, Proved!Order, Service!GetPage, Proved!GetPage, Service!GetPerPage, Proved!GetPerPage,
       Service!Cardinality, Proved!Cardinality, Service!IsFiniteSet, Proved!IsFiniteSet
<1>9. \A t, x : Service!Shown(t, x) = Proved!Shown(t, x)
  BY DEF Service!Shown, Proved!Shown
<1>10. \A x : Service!Cardinality(x) = Proved!Cardinality(x)
  BY DEF Service!Cardinality, Proved!Cardinality, Service!IsFiniteSet, Proved!IsFiniteSet
<1>11. QED
  BY <1>1, <1>2, <1>3, <1>4, <1>5, <1>6, <1>7, <1>8, <1>9, <1>10

\* in the steps of its writers,
LEMMA SameWrites ==
  /\ \A p : Service!Begin(p) <=> Proved!Begin(p)
  /\ \A p : Service!LockRow(p) <=> Proved!LockRow(p)
  /\ \A p : Service!Insert(p) <=> Proved!Insert(p)
  /\ \A p : Service!UpdateRow(p) <=> Proved!UpdateRow(p)
  /\ \A p : Service!RestoreRow(p) <=> Proved!RestoreRow(p)
  /\ \A p : Service!DeleteRow(p) <=> Proved!DeleteRow(p)
  /\ \A p : Service!Commit(p) <=> Proved!Commit(p)
  /\ \A p : Service!DropProfile(p) <=> Proved!DropProfile(p)
  /\ \A p : Service!Stamp(p) <=> Proved!Stamp(p)
  /\ \A p : Service!Bump(p) <=> Proved!Bump(p)
<1>1. \A p : Service!Begin(p) <=> Proved!Begin(p)
  BY SameReads DEF Service!Begin, Proved!Begin, Service!Goto, Proved!Goto, Service!Answer,
       Proved!Answer, Service!Op, Proved!Op, Service!store, Proved!store, Service!cache,
       Proved!cache, Service!locals, Proved!locals
<1>2. \A p : Service!LockRow(p) <=> Proved!LockRow(p)
  BY SameReads DEF Service!LockRow, Proved!LockRow, Service!Goto, Proved!Goto, Service!Answer,
       Proved!Answer, Service!store, Proved!store, Service!cache, Proved!cache, Service!locals,
       Proved!locals, Service!Op, Proved!Op, Service!Target, Proved!Target, Service!Refusal,
       Proved!Refusal, Service!AcceptsUpdate, Proved!AcceptsUpdate, Service!ForUpdate,
       Proved!ForUpdate
<1>3. \A p : Service!Insert(p) <=> Proved!Insert(p)
  BY SameReads DEF Service!Insert, Proved!Insert, Service!Goto, Proved!Goto, Service!Answer,
       Proved!Answer, Service!store, Proved!store, Service!cache, Proved!cache, Service!locals,
       Proved!locals, Service!Op, Proved!Op, Service!Written, Proved!Written, Service!Release,
       Proved!Release, Service!Creates, Proved!Creates, Service!NewRow, Proved!NewRow,
       Service!Coalesce, Proved!Coalesce
<1>4. \A p : Service!UpdateRow(p) <=> Proved!UpdateRow(p)
  BY SameReads DEF Service!UpdateRow, Proved!UpdateRow, Service!Goto, Proved!Goto, Service!Answer,
       Proved!Answer, Service!store, Proved!store, Service!cache, Proved!cache, Service!locals,
       Proved!locals, Service!Op, Proved!Op, Service!Target, Proved!Target, Service!Written,
       Proved!Written, Service!Release, Proved!Release, Service!Updated, Proved!Updated,
       Service!Coalesce, Proved!Coalesce
<1>5. \A p : Service!RestoreRow(p) <=> Proved!RestoreRow(p)
  BY SameReads DEF Service!RestoreRow, Proved!RestoreRow, Service!Goto, Proved!Goto,
       Service!Answer, Proved!Answer, Service!store, Proved!store, Service!cache, Proved!cache,
       Service!locals, Proved!locals, Service!Op, Proved!Op, Service!Target, Proved!Target,
       Service!Written, Proved!Written, Service!Restored, Proved!Restored
<1>6. \A p : Service!DeleteRow(p) <=> Proved!DeleteRow(p)
  BY SameReads DEF Service!DeleteRow, Proved!DeleteRow, Service!Goto, Proved!Goto, Service!Answer,
       Proved!Answer, Service!store, Proved!store, Service!cache, Proved!cache, Service!locals,
       Proved!locals, Service!Op, Proved!Op, Service!Target, Proved!Target, Service!Written,
       Proved!Written, Service!IsLive, Proved!IsLive, Service!Removed, Proved!Removed
<1>7. \A p : Service!Commit(p) <=> Proved!Commit(p)
  BY SameReads DEF Service!Commit, Proved!Commit, Service!Goto, Proved!Goto, Service!Answer,
       Proved!Answer, Service!store, Proved!store, Service!cache, Proved!cache, Service!locals,
       Proved!locals, Service!Op, Proved!Op, Service!MakeVisible, Proved!MakeVisible,
       Service!Release, Proved!Release, Service!AfterCommit, Proved!AfterCommit, Service!Creates,
       Proved!Creates
<1>8. \A p : Service!DropProfile(p) <=> Proved!DropProfile(p)
  BY SameReads DEF Service!DropProfile, Proved!DropProfile, Service!Goto, Proved!Goto,
       Service!Answer, Proved!Answer, Service!store, Proved!store, Service!cache, Proved!cache,
       Service!locals, Proved!locals, Service!Target, Proved!Target
<1>9. \A p : Service!Stamp(p) <=> Proved!Stamp(p)
  BY DEF Service!Stamp, Proved!Stamp, Service!Goto, Proved!Goto, Service!Answer, Proved!Answer,
       Service!store, Proved!store, Service!cache, Proved!cache, Service!locals, Proved!locals
<1>10. \A p : Service!Bump(p) <=> Proved!Bump(p)
  BY DEF Service!Bump, Proved!Bump, Service!Goto, Proved!Goto, Service!Answer, Proved!Answer,
       Service!store, Proved!store, Service!cache, Proved!cache, Service!locals, Proved!locals
<1>11. QED
  BY <1>1, <1>2, <1>3, <1>4, <1>5, <1>6, <1>7, <1>8, <1>9, <1>10

\* in the other steps of its requests,
LEMMA SameCalls ==
  /\ \A p : Service!ValidateCall(p) <=> Proved!ValidateCall(p)
  /\ \A p : Service!Lookup(p) <=> Proved!Lookup(p)
  /\ \A p : Service!Read(p) <=> Proved!Read(p)
  /\ \A p : Service!Fill(p) <=> Proved!Fill(p)
  /\ \A p : Service!ReadVersion(p) <=> Proved!ReadVersion(p)
  /\ \A p : Service!LookupPage(p) <=> Proved!LookupPage(p)
  /\ \A p : Service!CountRows(p) <=> Proved!CountRows(p)
  /\ \A p : Service!SelectRows(p) <=> Proved!SelectRows(p)
  /\ \A p : Service!FillPage(p) <=> Proved!FillPage(p)
  /\ \A p : Service!Abort(p) <=> Proved!Abort(p)
<1>1. \A p : Service!ValidateCall(p) <=> Proved!ValidateCall(p)
  BY SameReads DEF Service!ValidateCall, Proved!ValidateCall, Service!Goto, Proved!Goto,
       Service!Answer, Proved!Answer, Service!Creates, Proved!Creates, Service!store,
       Proved!store, Service!cache, Proved!cache, Service!locals, Proved!locals
<1>2. \A p : Service!Lookup(p) <=> Proved!Lookup(p)
  BY SameReads DEF Service!Lookup, Proved!Lookup, Service!Goto, Proved!Goto, Service!Answer,
       Proved!Answer, Service!Target, Proved!Target, Service!store, Proved!store, Service!cache,
       Proved!cache, Service!locals, Proved!locals
<1>3. \A p : Service!Read(p) <=> Proved!Read(p)
  BY SameReads DEF Service!Read, Proved!Read, Service!Goto, Proved!Goto, Service!Answer,
       Proved!Answer, Service!Target, Proved!Target, Service!IsLive, Proved!IsLive, Service!store,
       Proved!store, Service!cache, Proved!cache, Service!locals, Proved!locals
<1>4. \A p : Service!Fill(p) <=> Proved!Fill(p)
  BY SameReads DEF Service!Fill, Proved!Fill, Service!Goto, Proved!Goto, Service!Answer,
       Proved!Answer, Service!Target, Proved!Target, Service!store, Proved!store, Service!cache,
       Proved!cache, Service!locals, Proved!locals
<1>5. \A p : Service!ReadVersion(p) <=> Proved!ReadVersion(p)
  BY DEF Service!ReadVersion, Proved!ReadVersion, Service!Goto, Proved!Goto, Service!Answer,
       Proved!Answer, Service!store, Proved!store, Service!cache, Proved!cache, Service!locals,
       Proved!locals
<1>6. \A p : Service!LookupPage(p) <=> Proved!LookupPage(p)
  BY SameReads DEF Service!LookupPage, Proved!LookupPage, Service!Goto, Proved!Goto,
       Service!Answer, Proved!Answer, Service!PageKey, Proved!PageKey, Service!store,
       Proved!store, Service!cache, Proved!cache, Service!locals, Proved!locals
<1>7. \A p : Service!CountRows(p) <=> Proved!CountRows(p)
  BY SameReads DEF Service!CountRows, Proved!CountRows, Service!Goto, Proved!Goto, Service!Answer,
       Proved!Answer, Service!store, Proved!store, Service!cache, Proved!cache, Service!locals,
       Proved!locals
<1>8. \A p : Service!SelectRows(p) <=> Proved!SelectRows(p)
  BY SameReads DEF Service!SelectRows, Proved!SelectRows, Service!Goto, Proved!Goto,
       Service!Answer, Proved!Answer, Service!store, Proved!store, Service!cache, Proved!cache,
       Service!locals, Proved!locals
<1>9. \A p : Service!FillPage(p) <=> Proved!FillPage(p)
  BY SameReads DEF Service!FillPage, Proved!FillPage, Service!Goto, Proved!Goto, Service!Answer,
       Proved!Answer, Service!PageKey, Proved!PageKey, Service!store, Proved!store, Service!cache,
       Proved!cache, Service!locals, Proved!locals
<1>10. \A p : Service!Abort(p) <=> Proved!Abort(p)
  BY DEF Service!Abort, Proved!Abort, Service!Goto, Proved!Goto, Service!Answer, Proved!Answer,
       Service!Release, Proved!Release, Service!store, Proved!store, Service!cache, Proved!cache,
       Service!locals, Proved!locals
<1>11. QED
  BY <1>1, <1>2, <1>3, <1>4, <1>5, <1>6, <1>7, <1>8, <1>9, <1>10

\* and in all it does.
LEMMA SameService ==
  /\ Service!Init <=> Proved!Init
  /\ [Service!Next]_(Service!vars) <=> [Proved!Next]_(Proved!vars)
<1>1. Service!Init <=> Proved!Init
  BY SameReads DEF Service!Init, Proved!Init, Service!PageKeys, Proved!PageKeys, Service!Versions,
       Proved!Versions
<1>2. \A p : Service!Arrive(p) <=> Proved!Arrive(p)
  BY DEF Service!Arrive, Proved!Arrive, Service!Start, Proved!Start, Service!FirstStep,
       Proved!FirstStep, Service!Creates, Proved!Creates, Service!Goto, Proved!Goto,
       Service!Answer, Proved!Answer, Service!store, Proved!store, Service!cache, Proved!cache,
       Service!locals, Proved!locals
<1>3. Service!Expiry <=> Proved!Expiry
  BY SameReads DEF Service!Expiry, Proved!Expiry, Service!ExpireProfile, Proved!ExpireProfile,
       Service!ExpirePage, Proved!ExpirePage, Service!PageKeys, Proved!PageKeys, Service!Versions,
       Proved!Versions, Service!store, Proved!store, Service!cache, Proved!cache, Service!locals,
       Proved!locals
<1>4. Service!Tick <=> Proved!Tick
  BY DEF Service!Tick, Proved!Tick, Service!store, Proved!store, Service!cache, Proved!cache,
       Service!locals, Proved!locals
<1>5. \A p : Service!Handle(p) <=> Proved!Handle(p)
  BY SameWrites, SameCalls DEF Service!Handle, Proved!Handle, Service!Writing, Proved!Writing,
       Service!Getting, Proved!Getting, Service!Indexing, Proved!Indexing
<1>6. Service!Next <=> Proved!Next
  BY <1>2, <1>3, <1>4, <1>5, SameCalls DEF Service!Next, Proved!Next
<1>7. UNCHANGED Service!vars <=> UNCHANGED Proved!vars
  BY DEF Service!vars, Proved!vars
<1>8. QED
  BY <1>1, <1>6, <1>7

\* It is what the proofs assume of it, and its calls are calls of theirs.
LEMMA ServiceAssumed ==
  /\ Proved!NoneIsNoValue /\ Proved!UsersAssumption /\ Proved!SeedIsTable /\ Proved!TrimAssumption
  /\ Proved!NoneIsNoProc /\ Proved!BoundAssumption /\ Proved!FlagAssumption /\ Proved!NoneIsNoPage
  /\ Proved!QueriesAssumption /\ Proved!NoneIsNoWord /\ Proved!BornAssumption /\ Proved!WidthAssumption
  /\ Proved!CallsAssumption
<1>1. /\ Proved!Row = Row /\ Proved!Roles = Roles
      /\ Proved!Statuses = Statuses /\ Proved!DeletedAt = DeletedAt
  BY DEF Proved!Row, Row, Proved!Roles, Roles, Proved!Statuses, Statuses, Proved!DeletedAt, DeletedAt
<1>2. Proved!Page = Service!Page
  BY DEF Proved!Page, Service!Page, Proved!Listing, Service!Listing, Proved!Row, Service!Row,
         Proved!Roles, Service!Roles, Proved!Statuses, Service!Statuses
<1>3. Proved!Call = Service!Call /\ Proved!ByUser = Service!ByUser /\ Proved!Creates = Service!Creates
  BY DEF Proved!Call, Service!Call, Proved!Ops, Service!Ops, Proved!ByUser, Service!ByUser,
         Proved!Creates, Service!Creates, Proved!Roles, Service!Roles, Proved!Statuses,
         Service!Statuses, Proved!DeletedAt, Service!DeletedAt
<1>4. Proved!IndexQuery = IndexQuery
  BY DEF Proved!IndexQuery, IndexQuery, Proved!Filters, Filters
<1>5. Proved!UsersAssumption
  BY ServiceAssumption DEF Proved!UsersAssumption, IsFiniteSet, Proved!IsFiniteSet
<1>6. Proved!CallsAssumption
  BY <1>3, CallsAreCalls DEF Proved!CallsAssumption
<1>7. Proved!SeedIsTable /\ Proved!TrimAssumption /\ Proved!NoneIsNoProc /\ Proved!BoundAssumption
      /\ Proved!FlagAssumption /\ Proved!NoneIsNoPage /\ Proved!NoneIsNoValue
  BY <1>1, <1>2, ServiceAssumption, NoneIsNoValue
     DEF Proved!SeedIsTable, Proved!TrimAssumption, Proved!NoneIsNoProc, Proved!BoundAssumption,
         Proved!FlagAssumption, Proved!NoneIsNoPage, Proved!NoneIsNoValue
<1>8. Proved!QueriesAssumption /\ Proved!NoneIsNoWord /\ Proved!BornAssumption /\ Proved!WidthAssumption
  BY <1>4, QueriesAssumption, NoneIsNoWord, BornAssumption, WidthAssumption
     DEF Proved!QueriesAssumption, Proved!NoneIsNoWord, Proved!BornAssumption, Proved!WidthAssumption
<1>9. QED
  BY <1>5, <1>6, <1>7, <1>8

\* The invariant means the same in both.
LEMMA SameInvariant == Proved!IInv => Service!IInv
<1>1. Proved!TypeOK => Service!TypeOK
  <2>1. Proved!Row = Service!Row /\ Proved!Versions = Service!Versions
    BY DEF Proved!Row, Service!Row, Proved!Roles, Service!Roles, Proved!Statuses, Service!Statuses,
           Proved!Versions, Service!Versions
  <2>2. Proved!Page = Service!Page
    BY <2>1 DEF Proved!Page, Service!Page, Proved!Listing, Service!Listing
  <2>3. Proved!PageKeys = Service!PageKeys
    BY <2>1, SameReads DEF Proved!PageKeys, Service!PageKeys
  <2>4. Proved!Steps = Service!Steps /\ Proved!Answers = Service!Answers
    BY DEF Proved!Steps, Service!Steps, Proved!Answers, Service!Answers
  <2>5. QED
    BY <2>1, <2>2, <2>3, <2>4 DEF Proved!TypeOK, Service!TypeOK
<1>2. Proved!OnPath => Service!OnPath
  BY DEF Proved!OnPath, Service!OnPath, Proved!Op, Service!Op, Proved!Creates, Service!Creates
<1>3. Proved!Isolation => Service!Isolation
  BY DEF Proved!Isolation, Service!Isolation, Proved!LockDiscipline, Service!LockDiscipline,
         Proved!LockedRowFits, Service!LockedRowFits, Proved!PendingFits, Service!PendingFits,
         Proved!PendingEmailsDiffer, Service!PendingEmailsDiffer, Proved!UniqueEmails,
         Service!UniqueEmails, Proved!IsResult, Service!IsResult, Proved!Op, Service!Op,
         Proved!Target, Service!Target, Proved!Creates, Service!Creates, Proved!AcceptsUpdate,
         Service!AcceptsUpdate, Proved!NewRow, Service!NewRow, Proved!Updated, Service!Updated,
         Proved!Coalesce, Service!Coalesce, Proved!Restored, Service!Restored, Proved!Removed,
         Service!Removed, Proved!Row, Service!Row, Proved!Roles, Service!Roles, Proved!Statuses,
         Service!Statuses
<1>4. QED
  BY <1>1, <1>2, <1>3 DEF Proved!IInv, Service!IInv

\* So do what was proved of deletions, of profiles and of pages.
LEMMA SameClaims ==
  /\ Proved!DeletedOnce => Service!DeletedOnce
  /\ Proved!IndexFresh => Service!IndexFresh
<1>1. Proved!DeletedOnce => Service!DeletedOnce
  <2>1. \A p : Service!Committed(p) <=> Proved!Committed(p)
    BY DEF Service!Committed, Proved!Committed
  <2>2. \A u : Service!Deletions(u) = Proved!Deletions(u) /\ Service!Revivals(u) = Proved!Revivals(u)
    BY <2>1, SameReads DEF Service!Deletions, Proved!Deletions, Service!Revivals, Proved!Revivals
  <2>3. QED
    BY <2>2, SameReads DEF Service!DeletedOnce, Proved!DeletedOnce
<1>2. Proved!IndexFresh => Service!IndexFresh
  <2>1. \A q : Service!Confused(q) <=> Proved!Confused(q)
    BY SameReads DEF Service!Confused, Proved!Confused, Service!Ambiguous, Proved!Ambiguous,
       Service!Order, Proved!Order, Service!Filters, Proved!Filters
  <2>2. \A n, q : Service!Exact(n, q) <=> Proved!Exact(n, q)
    BY DEF Service!Exact, Proved!Exact, Service!GetPage, Proved!GetPage, Service!GetPerPage,
       Proved!GetPerPage
  <2>3. \A n, d : Service!Exponent(n, d) = Proved!Exponent(n, d)
    BY SameReads DEF Service!Exponent, Proved!Exponent
  <2>4. \A n, d : Service!Rounded(n, d) = Proved!Rounded(n, d)
    BY <2>3 DEF Service!Rounded, Proved!Rounded, Service!Nearest, Proved!Nearest, Service!One, Proved!One
  <2>5. \A n, q : Service!TotalPages(n, q) = Proved!TotalPages(n, q)
    BY <2>4 DEF Service!TotalPages, Proved!TotalPages, Service!AsFloat, Proved!AsFloat,
       Service!One, Proved!One, Service!GetPerPage, Proved!GetPerPage
  <2>6. \A n, d, q : Service!Body(n, d, q) = Proved!Body(n, d, q)
    BY <2>5 DEF Service!Body, Proved!Body, Service!TotalCount, Proved!TotalCount, Service!NextPage, Proved!NextPage,
       Service!GetPage, Proved!GetPage
  <2>7. \A x, q, u : Service!Rank(x, q, u) = Proved!Rank(x, q, u)
    BY SameReads DEF Service!Rank, Proved!Rank, Service!Order, Proved!Order
  <2>8. \A t, q : Service!Ideal(t, q) = Proved!Ideal(t, q)
    <3>1. \A q : Service!GetPage(q) = Proved!GetPage(q) /\ Service!GetPerPage(q) = Proved!GetPerPage(q)
      BY DEF Service!GetPage, Proved!GetPage, Service!GetPerPage, Proved!GetPerPage
    <3>2. TAKE t, q
    <3> DEFINE G == Service!GetPage(q)
               P == Service!GetPerPage(q)
               M == Service!Matching(t, q)
    <3>3. G = Proved!GetPage(q) /\ P = Proved!GetPerPage(q) /\ M = Proved!Matching(t, q)
      BY <3>1, SameReads
    <3> HIDE DEF G, P, M
    <3>4. {u \in M : Service!Rank(M, q, u) \div P = G - 1} = {u \in M : Proved!Rank(M, q, u) \div P = G - 1}
      BY <2>7
    <3>5. /\ Service!Cardinality(M) = Proved!Cardinality(M)
          /\ \A x : Service!Shown(t, x) = Proved!Shown(t, x)
      BY SameReads
    <3>6. QED
      BY <3>3, <3>4, <3>5, Zenon DEF Service!Ideal, Proved!Ideal, G, P, M
  <2>9. Service!SameSecond <=> Proved!SameSecond
    BY SameReads DEF Service!SameSecond, Proved!SameSecond, Service!Stamped, Proved!Stamped
  <2>10. \A p : Service!Announcing(p) <=> Proved!Announcing(p)
    BY DEF Service!Announcing, Proved!Announcing
  <2>11. QED
    BY <2>1, <2>2, <2>6, <2>8, <2>9, <2>10, SameReads, Zenon DEF Service!IndexFresh, Proved!IndexFresh
<1>3. QED
  BY <1>1, <1>2

\* A profile is stale, or left stale by a step, in both alike.
LEMMA SameRaces == Proved!ProfileStaleOnlyByRace => Service!ProfileStaleOnlyByRace
<1> USE DEF Service!StaleProfile, Proved!StaleProfile, Service!DropPending, Proved!DropPending,
       Service!LiveRow, Proved!LiveRow, Service!IsLive, Proved!IsLive, Service!Target, Proved!Target
<1>1. ASSUME NEW u
      PROVE  /\ Service!StaleProfile(u) /\ ~Service!DropPending(u)
                  <=> Proved!StaleProfile(u) /\ ~Proved!DropPending(u)
             /\ (Service!StaleProfile(u) /\ ~Service!DropPending(u))'
                  <=> (Proved!StaleProfile(u) /\ ~Proved!DropPending(u))'
  OBVIOUS
<1>2. ASSUME NEW u
      PROVE  /\ Service!LateFill(u) <=> Proved!LateFill(u)
             /\ Service!LostDrop(u) <=> Proved!LostDrop(u)
  BY DEF Service!LateFill, Proved!LateFill, Service!LostDrop, Proved!LostDrop
<1> DEFINE S(u) == /\ ~(Service!StaleProfile(u) /\ ~Service!DropPending(u))
                   /\ (Service!StaleProfile(u) /\ ~Service!DropPending(u))'
                   => Service!LateFill(u) \/ ((CacheFaults \/ Aborts) /\ Service!LostDrop(u))
           P(u) == /\ ~(Proved!StaleProfile(u) /\ ~Proved!DropPending(u))
                   /\ (Proved!StaleProfile(u) /\ ~Proved!DropPending(u))'
                   => Proved!LateFill(u) \/ ((CacheFaults \/ Aborts) /\ Proved!LostDrop(u))
<1>3. ASSUME NEW u PROVE P(u) <=> S(u)
  BY <1>1, <1>2
<1>4. UNCHANGED Service!vars <=> UNCHANGED Proved!vars
  BY DEF Service!vars, Proved!vars
<1> HIDE DEF S, P
<1>5. [\A u \in Users : P(u)]_(Proved!vars) => [\A u \in Users : S(u)]_(Service!vars)
  BY <1>3, <1>4
<1>6. QED
  BY <1>5, PTL DEF Service!ProfileStaleOnlyByRace, Proved!ProfileStaleOnlyByRace, S, P

\* Behind the API, too, what open transactions hold and are about to write clashes
\* neither with the table nor with each other, whatever is asked with whatever token.
THEOREM IsolatedBehindApi == Spec => []Service!IInv
<1>1. QED
  BY ApiImplementsService, SameService, ServiceAssumed, SameInvariant, Proved!Inductive, PTL
     DEF ImplementsService, Service!Spec, Proved!Spec

\* Behind the API a deletion is acknowledged once, cached pages are those the
\* table asks for, and profiles are stale by the two races only.
THEOREM CachesBehindApi ==
  Spec => []Service!DeletedOnce /\ []Service!IndexFresh /\ Service!ProfileStaleOnlyByRace
<1>1. Proved!Spec => []Proved!DeletedOnce /\ []Proved!IndexFresh /\ Proved!ProfileStaleOnlyByRace
  BY ServiceAssumed, Proved!DeletionsAreOnce, Proved!IndexIsFresh, Proved!StaleOnlyByRace, PTL
<1>2. QED
  BY <1>1, ApiImplementsService, SameService, SameClaims, SameRaces, PTL
     DEF ImplementsService, Service!Spec, Proved!Spec

-----------------------------------------------------------------------------
(* What one step of the service leaves of the calls of all requests. *)

\* The calls of one request are two, and no other's.
LEMMA SlotsApart ==
  ASSUME NEW r \in Requests
  PROVE  /\ Auth(r) \in Slots /\ Act(r) \in Slots
         /\ \A s \in Requests : Auth(r) # Act(s)
         /\ \A s \in Requests : s # r => Auth(s) # Auth(r) /\ Act(s) # Act(r)
BY DEF Auth, Act, Slots

\* What one call or request does is nothing to the others.
SameCall(p) == pc'[p] = pc[p] /\ call'[p] = call[p] /\ row'[p] = row[p] /\ resp'[p] = resp[p]
OthersStay(p) == \A q \in Slots \ {p} : SameCall(q)

\* A call is past its commit, or answered 200, only from its commit on, unless it
\* only reads; from there it ends with a 200 or a 500.
Announcing == {"drop", "stamp", "bump"}
Moves(p) ==
  /\ pc[p] \in Announcing =>
       pc'[p] \in Announcing \/ (pc'[p] = "done" /\ resp'[p] \in {200, 500})
  /\ pc[p] = "commit" => pc'[p] \in Announcing \/ (pc'[p] = "done" /\ resp'[p] = 500)
  /\ pc[p] \notin Announcing \cup {"commit"} =>
       /\ pc'[p] \notin Announcing
       /\ pc'[p] = "done" /\ resp'[p] = 200 => call[p].op \in {"get", "index"}

Step(p) ==
  /\ pc[p] \notin {"idle", "done"} /\ pc'[p] # "idle"
  /\ call' = call
  /\ OthersStay(p)
  /\ Moves(p)

\* That is all a handler of the service does, or its abortion.
LEMMA ServiceStep ==
  ASSUME Service!TypeOK, Service!OnPath, NEW p \in Slots,
         Service!Handle(p) \/ Service!Abort(p)
  PROVE  Step(p)
<1> USE DEF Step, SameCall, OthersStay, Moves, Announcing, Service!Goto, Service!Answer,
            Service!TypeOK, Service!store, Service!cache, Service!locals
<1>1. CASE Service!ValidateCall(p)
  BY <1>1 DEF Service!ValidateCall
<1>2. CASE Service!Begin(p)
  BY <1>2 DEF Service!Begin
<1>3. CASE Service!LockRow(p)
  BY <1>3 DEF Service!LockRow, Service!Refusal
<1>4. CASE Service!Insert(p)
  BY <1>4 DEF Service!Insert, Service!Written
<1>5. CASE Service!UpdateRow(p)
  BY <1>5 DEF Service!UpdateRow, Service!Written
<1>6. CASE Service!RestoreRow(p)
  BY <1>6 DEF Service!RestoreRow, Service!Written
<1>7. CASE Service!DeleteRow(p)
  BY <1>7 DEF Service!DeleteRow, Service!Written
<1>8. CASE Service!Commit(p)
  BY <1>8 DEF Service!Commit, Service!AfterCommit
<1>9. CASE Service!DropProfile(p) \/ Service!Stamp(p) \/ Service!Bump(p)
  BY <1>9 DEF Service!DropProfile, Service!Stamp, Service!Bump
<1>10. CASE Service!Getting(p)
  BY <1>10 DEF Service!Getting, Service!Lookup, Service!Read, Service!Fill, Service!OnPath, Service!Op
<1>11. CASE Service!Indexing(p)
  BY <1>11 DEF Service!Indexing, Service!ReadVersion, Service!LookupPage, Service!CountRows,
               Service!SelectRows, Service!FillPage, Service!OnPath, Service!Op
<1>12. CASE Service!Abort(p)
  BY <1>12 DEF Service!Abort
<1>13. QED
  BY <1>1, <1>2, <1>3, <1>4, <1>5, <1>6, <1>7, <1>8, <1>9, <1>10, <1>11, <1>12
     DEF Service!Handle, Service!Writing

\* A call begins at its first step; nothing else of the service changes.
LEMMA StartStep ==
  ASSUME Service!TypeOK, NEW p \in Slots, NEW c \in Calls, Service!Start(p, c)
  PROVE  /\ pc[p] = "idle" /\ call'[p] = c
         /\ OthersStay(p)
         /\ pc'[p] \in {"validate", "begin", "lookup", "version"}
         /\ c.op = "get" => pc'[p] = "lookup"
         /\ UNCHANGED <<db, profile, row, resp>>
<1>1. c.op \in {"register", "create", "update", "restore", "delete", "get", "index"}
  BY CallsAreCalls DEF Service!Call, Service!Ops
<1>2. QED
  BY <1>1 DEF OthersStay, SameCall, Service!TypeOK, Service!Start, Service!Goto, Service!FirstStep,
              Service!Creates, Service!store, Service!cache

-----------------------------------------------------------------------------
(* The calls of a request stay those of its ask and its token. *)

\* The request stays where it is, and so do its calls.
SameRequest(r) ==
  at'[r] = at[r] /\ ask'[r] = ask[r] /\ token'[r] = token[r] /\ reply'[r] = reply[r]

\* What CallsFit says holds as long as nothing it is about changes.
LEMMA FitUnchanged ==
  ASSUME NEW r \in Requests, CallsFit(r), SameRequest(r), SameCall(Auth(r)), SameCall(Act(r))
  PROVE  CallsFit(r)'
BY DEF CallsFit, SameRequest, SameCall

\* A step of the service moves a call on and leaves what was asked.
LEMMA FitServiceStep ==
  ASSUME NEW p \in Slots, Step(p), NEW r \in Requests, CallsFit(r), SameRequest(r)
  PROVE  CallsFit(r)'
BY SlotsApart DEF CallsFit, SameRequest, Step, OthersStay, SameCall

\* A request stays the only one its steps are about.
OthersWait(r) ==
  \A s \in Requests \ {r} : SameRequest(s) /\ SameCall(Auth(s)) /\ SameCall(Act(s))

\* The steps of a request either leave the service as it is or begin a call of it,
Begins(r) ==
  \/ UNCHANGED service
  \/ \E p \in {Auth(r), Act(r)}, c \in Calls : Service!Start(p, c)

\* and write what is kept of the request only.
Alone(r) ==
  /\ \E l : at' = [at EXCEPT ![r] = l]
  /\ \E a : ask' = [ask EXCEPT ![r] = a]
  /\ \E t : token' = [token EXCEPT ![r] = t]
  /\ \E c : reply' = [reply EXCEPT ![r] = c]

\* The other requests and their calls are where they were, and so is the table.
LEMMA AlikeElsewhere ==
  ASSUME TypeOK, NEW r \in Requests, Begins(r), Alone(r)
  PROVE  OthersWait(r) /\ db' = db
<1>1. \A s \in Requests \ {r} : SameRequest(s)
  BY DEF TypeOK, Typed, SameRequest, Alone
<1>2. CASE UNCHANGED service
  BY <1>1, <1>2 DEF service, OthersWait, SameCall
<1>3. ASSUME NEW p \in {Auth(r), Act(r)}, NEW c \in Calls, Service!Start(p, c)
      PROVE OthersWait(r) /\ db' = db
  <2>1. p \in Slots
    BY SlotsApart
  <2>2. OthersStay(p) /\ db' = db
    BY <1>3, <2>1, StartStep DEF TypeOK
  <2>3. QED
    BY <1>1, <2>2, SlotsApart DEF OthersWait, OthersStay
<1>4. QED
  BY <1>2, <1>3 DEF Begins

-----------------------------------------------------------------------------
(* Types. *)

\* The records of what happened only grow, and name what is true.
LEMMA WatchedStep ==
  ASSUME WatchTyped, Watched
  PROVE  /\ WatchTyped'
         /\ \A r \in Requests :
              /\ watch[r] \subseteq watch'[r]
              /\ "wrote" \in watch'[r] <=> "wrote" \in watch[r] \/ Wrote(r)
              /\ at'[r] = "auth" => Truths(token[r].user)' \subseteq watch'[r]
<1>1. \A u : Truths(u)' \subseteq {"active", "admin", "changing", "stale"}
  BY DEF Truths
<1>2. ASSUME NEW r \in Requests
      PROVE  /\ watch'[r] \subseteq {"active", "admin", "changing", "stale", "wrote"}
             /\ watch[r] \subseteq watch'[r]
             /\ "wrote" \in watch'[r] <=> "wrote" \in watch[r] \/ Wrote(r)
             /\ at'[r] = "auth" => Truths(token[r].user)' \subseteq watch'[r]
  <2> DEFINE T == Truths(token[r].user)'
  <2>1. watch'[r] = watch[r] \cup (IF "auth" \in {at[r], at'[r]} THEN T ELSE {})
                             \cup (IF Wrote(r) THEN {"wrote"} ELSE {})
    BY DEF Watched
  <2>2. T \subseteq {"active", "admin", "changing", "stale"}
    BY <1>1
  <2>3. watch[r] \subseteq {"active", "admin", "changing", "stale", "wrote"}
    BY DEF WatchTyped
  <2>4. QED
    <3> HIDE DEF T
    <3>1. /\ watch'[r] \subseteq {"active", "admin", "changing", "stale", "wrote"}
          /\ watch[r] \subseteq watch'[r]
          /\ "wrote" \in watch'[r] <=> "wrote" \in watch[r] \/ Wrote(r)
          /\ at'[r] = "auth" => T \subseteq watch'[r]
      BY <2>1, <2>2, <2>3
    <3>2. QED
      BY <3>1 DEF T
<1>3. WatchTyped'
  BY <1>2 DEF WatchTyped, Watched
<1>4. QED
  BY <1>2, <1>3

\* The types hold at the start.
LEMMA TypesInit == Init => Typed
BY TokensAssumption DEF Init, Typed, Stages

\* An answer has one of the codes.
LEMMA ReplyTypes ==
  ASSUME Typed, NEW r \in Requests, NEW c \in {200, 400, 401, 403, 404, 422, 500, None},
         Send(r, c) \/ Reply(r, c)
  PROVE  /\ at' \in [Requests -> Stages]
         /\ reply' \in [Requests -> {None, 200, 400, 401, 403, 404, 422, 500}]
BY DEF Typed, Reply, Send, Stages

\* A request arrives with its ask and perhaps a token.
LEMMA ReceiveTypes ==
  ASSUME Typed, NEW r \in Requests, Receive(r)
  PROVE  Typed'
<1>1. PICK a \in Asks : TurnAway(r, a) \/ ReceivePublic(r, a) \/ Authenticate(r, a)
  BY DEF Receive
<1>2. UNCHANGED <<counter, sealing, issued, found>> /\ ask' \in [Requests -> Asks \cup {None}]
  BY <1>1 DEF Receive, TurnAway, ReceivePublic, Authenticate, Typed
<1>3. token' \in [Requests -> Claims \cup {None}]
  BY <1>1 DEF TurnAway, ReceivePublic, Authenticate, Typed
<1>4. \/ at' \in [Requests -> Stages] /\ UNCHANGED reply
      \/ \E c \in {400, 401, 403, 422} : Send(r, c) \/ Reply(r, c)
  BY <1>1 DEF TurnAway, ReceivePublic, Authenticate, Typed, Goto, Stages, Garbled, KeyRefused
<1>5. QED
  BY <1>2, <1>3, <1>4, ReplyTypes DEF Typed

\* Counters are counted up, logins find rows, tokens carry what was found.
LEMMA HandlerTypes ==
  ASSUME Typed, Service!TypeOK, Poised, NEW r \in Requests, Handler(r) \/ GiveUp(r)
  PROVE  Typed'
<1>1. CASE Limited(r)
  <2>1. <<ask[r].op, ask[r].email>> \in Endpoints
    BY <1>1, AsksAssumption DEF Limited, Poised, Endpoints, Ask, Public
  <2>2. counter' \in [Endpoints -> Counter \cup {NoCounter}]
    <3>1. counter' = counter \/ counter' = [counter EXCEPT ![<<ask[r].op, ask[r].email>>] = Counted(@)]
      BY <1>1 DEF Limited
    <3>2. Counted(counter[<<ask[r].op, ask[r].email>>]) \in Counter
      BY <2>1, CountedIsCounter DEF Typed
    <3>3. QED
      BY <3>1, <3>2 DEF Typed
  <2>3. (at' \in [Requests -> Stages] /\ UNCHANGED reply) \/ Reply(r, 403)
    BY <1>1 DEF Limited, Typed, Goto, Stages
  <2>4. UNCHANGED <<sealing, issued, ask, token, found>>
    BY <1>1 DEF Limited
  <2>5. QED
    BY <2>2, <2>3, <2>4, ReplyTypes DEF Typed
<1>2. CASE Query(r)
  <2>1. \A u \in Users : IsLive(db[u]) => db[u].role \in Roles /\ db[u].status \in Statuses
    BY DEF Service!TypeOK, IsLive, Service!Row, Service!Roles, Service!Statuses, Roles, Statuses
  <2>2. found' \in [Requests -> [user : Users, role : Roles, status : Statuses] \cup {None}]
    BY <1>2, <2>1 DEF Query, Typed
  <2>3. at' \in [Requests -> Stages] /\ UNCHANGED <<counter, sealing, issued, ask, token, reply>>
    BY <1>2 DEF Query, Goto, Typed, Stages
  <2>4. QED
    BY <2>2, <2>3 DEF Typed
<1>3. CASE Verify(r)
  <2>1. issued' \subseteq Claims
    <3>1. now + TokenLife \in Nat
      BY TokensAssumption, ServiceAssumption DEF Service!TypeOK
    <3>2. CASE UNCHANGED issued
      BY <3>2 DEF Typed
    <3>3. CASE ~UNCHANGED issued
      <4>1. found[r] \in [user : Users, role : Roles, status : Statuses]
        BY <1>3, <3>3 DEF Verify, Typed
      <4>2. issued' = issued \cup {[user |-> found[r].user, role |-> found[r].role,
                                     status |-> found[r].status, exp |-> now + TokenLife]}
        BY <1>3, <3>3 DEF Verify
      <4>3. QED
        BY <3>1, <4>1, <4>2 DEF Typed, Claims
    <3>4. QED
      BY <3>2, <3>3
  <2>2. Reply(r, 200) \/ Reply(r, 401)
    BY <1>3 DEF Verify
  <2>3. UNCHANGED <<counter, sealing, ask, token, found>>
    BY <1>3 DEF Verify
  <2>4. QED
    BY <2>1, <2>2, <2>3, ReplyTypes DEF Typed
<1>4. CASE Authenticated(r) \/ Finish(r) \/ GiveUp(r)
  <2>1. resp[Act(r)] \in {None, 200, 404, 422, 500}
    BY SlotsApart DEF Service!TypeOK, Service!Answers
  <2>2. (at' \in [Requests -> Stages] /\ UNCHANGED reply)
        \/ \E c \in {200, 400, 401, 403, 404, 422, 500, None} : Send(r, c) \/ Reply(r, c)
    BY <1>4, <2>1 DEF Authenticated, Finish, GiveUp, Goto, Stages, Typed
  <2>3. UNCHANGED <<counter, sealing, issued, ask, token, found>>
    BY <1>4 DEF Authenticated, Finish, GiveUp
  <2>4. QED
    BY <2>2, <2>3, ReplyTypes DEF Typed
<1>5. QED
  BY <1>1, <1>2, <1>3, <1>4 DEF Handler

\* Counters grow older.
LEMMA EnvironmentTypes ==
  ASSUME Typed, Expiry \/ Tick \/ \E p \in Slots : Serve(p) \/ Cut(p)
  PROVE  Typed'
<1>1. counter' \in [Endpoints -> Counter \cup {NoCounter}]
  BY OlderIsCounter DEF Typed, Expiry, Tick, Serve, Cut
<1>2. UNCHANGED <<sealing, issued, request>>
  BY DEF Expiry, Tick, Serve, Cut
<1>3. QED
  BY <1>1, <1>2 DEF Typed, request

-----------------------------------------------------------------------------
(* A step of the service. *)

\* What stands still keeps everything but what others make come true.
LEMMA KeptUnchanged ==
  ASSUME NEW r \in Requests, Kept(r), SameRequest(r), SameCall(Auth(r)), SameCall(Act(r)),
         WatchTyped, Watched
  PROVE  Kept(r)'
<1>1. CallsFit(r)'
  BY FitUnchanged DEF Kept
<1>2. watch[r] \subseteq watch'[r] /\ ("wrote" \in watch'[r] <=> "wrote" \in watch[r])
  BY WatchedStep DEF Wrote, SameCall
<1>3. Grounds(r)'
  BY <1>2 DEF Kept, Grounds, Fetched, Acting, SameRequest, SameCall
<1>4. Ledger(r)' /\ AnswerHolds(r)'
  BY <1>2 DEF Kept, Ledger, Past, AnswerHolds, SameRequest, SameCall
<1>5. QED
  BY <1>1, <1>3, <1>4 DEF Kept

\* A commit that creates, deletes or restores changes the table.
LEMMA CommitWrites ==
  ASSUME Service!IInv, NEW p \in Slots, Service!Commit(p),
         call[p].op \in {"register", "create", "delete", "restore"}
  PROVE  db' # db
<1>1. PICK u \in Users : lock[u] = p /\ db' = [db EXCEPT ![u] = row[p]]
  BY DEF Service!Commit, Service!MakeVisible
<1>2. row[p] \in Row /\ Service!IsResult(p, u)
  BY <1>1 DEF Service!IInv, Service!Isolation, Service!PendingFits, Service!Commit, Service!Row, Row,
              Service!Roles, Roles, Service!Statuses, Statuses
<1>3. row[p] # db[u]
  <2>1. row[p] # None
    BY <1>2, NoneIsNoValue
  <2>2. CASE call[p].op \in {"register", "create"}
    BY <1>2, <2>1, <2>2 DEF Service!IsResult, Service!Op, Service!Creates
  <2>3. CASE call[p].op \in {"delete", "restore"}
    <3>1. db[u] \in Row
      BY <1>2, <2>3 DEF Service!IsResult, Service!Op, Service!Creates, Service!IInv, Service!TypeOK,
                        Service!Row, Row, Service!Roles, Roles, Service!Statuses, Statuses
    <3>2. CASE call[p].op = "delete"
      <4>1. ~db[u].deleted /\ row[p].deleted
        BY <1>2, <3>1, <3>2 DEF Service!IsResult, Service!Op, Service!Removed, Row
      <4>2. QED
        BY <4>1
    <3>3. CASE call[p].op = "restore"
      <4>1. db[u].deleted /\ ~row[p].deleted
        BY <1>2, <3>1, <3>3 DEF Service!IsResult, Service!Op, Service!Restored, Row
      <4>2. QED
        BY <4>1
    <3>4. QED
      BY <2>3, <3>2, <3>3
  <2>4. QED
    BY <2>2, <2>3
<1>4. QED
  BY <1>1, <1>3 DEF Service!IInv, Service!TypeOK

\* From the commit a call only gets past it by the commit.
LEMMA PastByCommit ==
  ASSUME Service!TypeOK, NEW p \in Slots, Service!Handle(p) \/ Service!Abort(p),
         pc[p] = "commit", pc'[p] # "done"
  PROVE  Service!Commit(p)
<1>1. ~Service!Abort(p)
  BY DEF Service!Abort, Service!Answer, Service!Goto, Service!TypeOK
<1>2. Service!Handle(p)
  BY <1>1
<1>3. QED
  BY <1>2 DEF Service!Handle, Service!Writing, Service!Getting, Service!Indexing,
       Service!ValidateCall, Service!Begin, Service!LockRow, Service!Insert, Service!UpdateRow,
       Service!RestoreRow, Service!DeleteRow, Service!DropProfile, Service!Stamp, Service!Bump,
       Service!Lookup, Service!Read, Service!Fill, Service!ReadVersion, Service!LookupPage,
       Service!CountRows, Service!SelectRows, Service!FillPage

\* An active account that is fetched is active in the table, or its profile was
\* stale at the moment it was taken from the cache.
LEMMA FetchStep ==
  ASSUME Service!IInv, NEW p \in Slots, Service!Handle(p) \/ Service!Abort(p),
         call[p].op = "get",
         pc'[p] = "fill" \/ (pc'[p] = "done" /\ resp'[p] = 200),
         row'[p].status = 1, ~row'[p].deleted
  PROVE  \/ pc[p] = "fill" /\ row'[p] = row[p]
         \/ Active(call[p].user)'
         \/ Service!StaleProfile(call[p].user)'
<1> DEFINE u == call[p].user
<1> USE DEF Service!IInv, Service!TypeOK, Service!OnPath, Service!Goto, Service!Answer,
            Service!Op, Service!Target, Service!Creates
<1>1. CASE Service!Lookup(p)
  BY <1>1 DEF Service!Lookup, Service!StaleProfile, Service!LiveRow, Active, IsLive, Service!IsLive,
              Service!store, Service!cache
<1>2. CASE Service!Read(p)
  BY <1>2 DEF Service!Read, Active, IsLive, Service!IsLive, Service!store
<1>3. CASE Service!Fill(p)
  BY <1>3 DEF Service!Fill
<1>4. CASE Service!Abort(p)
  BY <1>4 DEF Service!Abort
<1>5. CASE ~(Service!Lookup(p) \/ Service!Read(p) \/ Service!Fill(p) \/ Service!Abort(p))
  <2>1. pc[p] \in {"lookup", "read", "fill"}
    <3>1. pc[p] \notin {"idle", "done"} /\ pc[p] \in Service!Steps
      BY ServiceStep DEF Step
    <3>2. QED
      BY <3>1 DEF Service!Steps
  <2>2. QED
    BY <1>5, <2>1
      DEF Service!Handle, Service!Writing, Service!Getting, Service!Indexing,
       Service!ValidateCall, Service!Begin, Service!LockRow, Service!Insert, Service!UpdateRow,
       Service!RestoreRow, Service!DeleteRow, Service!Commit, Service!DropProfile, Service!Stamp,
       Service!Bump, Service!ReadVersion, Service!LookupPage,
       Service!CountRows, Service!SelectRows, Service!FillPage
<1>6. QED
  BY <1>1, <1>2, <1>3, <1>4, <1>5

\* What is fetched is grounds to admit, and stays it.
LEMMA GroundsServiceStep ==
  ASSUME IInv, NEW p \in Slots, Serve(p) \/ Cut(p), NEW r \in Requests
  PROVE  Grounds(r)'
<1> USE DEF IInv
<1>1. /\ Service!Handle(p) \/ Service!Abort(p)
      /\ UNCHANGED <<at, ask, token, reply>> /\ Watched
  BY DEF Serve, Cut, request
<1>2. Step(p)
  BY <1>1, ServiceStep DEF Service!IInv
<1>3. watch[r] \subseteq watch'[r] /\ (at'[r] = "auth" => Truths(token[r].user)' \subseteq watch'[r])
  BY <1>1, WatchedStep DEF TypeOK
<1>4. CASE Acting(r)
  BY <1>1, <1>3, <1>4 DEF Kept, Grounds, Acting
<1>5. CASE at[r] = "auth" /\ Fetched(r)' /\ row'[Auth(r)].status = 1 /\ ~row'[Auth(r)].deleted
  <2>1. CASE p = Auth(r)
    <3>1. call[p] = GetOf(token[r].user)
      BY <1>2, <2>1 DEF Kept, CallsFit, Step
    <3>2. call[p].op = "get" /\ call[p].user = token[r].user
      BY <3>1 DEF GetOf
    <3>3. \/ pc[p] = "fill" /\ row'[p] = row[p]
          \/ Active(token[r].user)'
          \/ Service!StaleProfile(token[r].user)'
      <4>1. \/ pc[p] = "fill" /\ row'[p] = row[p]
            \/ Active(call[p].user)'
            \/ Service!StaleProfile(call[p].user)'
        BY <1>1, <1>5, <2>1, <3>2, FetchStep DEF Fetched
      <4>2. call'[p].user = token'[r].user
        BY <1>1, <1>2, <3>2 DEF Step
      <4>3. QED
        BY <3>2, <4>1, <4>2, <1>1
    <3>4. CASE pc[p] = "fill" /\ row'[p] = row[p]
      BY <1>1, <1>3, <1>5, <2>1, <3>4 DEF Kept, Grounds, Fetched
    <3>5. CASE Active(token[r].user)' \/ Service!StaleProfile(token[r].user)'
      <4>1. "active" \in Truths(token[r].user)' \/ "stale" \in Truths(token[r].user)'
        BY <3>5 DEF Truths
      <4>2. QED
        BY <1>1, <1>3, <1>5, <4>1 DEF Grounds
    <3>6. QED
      BY <3>3, <3>4, <3>5
  <2>2. CASE p # Auth(r)
    <3>1. SameCall(Auth(r))
      BY <1>2, <2>2, SlotsApart DEF Step, OthersStay
    <3>2. QED
      BY <1>1, <1>3, <1>5, <3>1 DEF Kept, Grounds, Fetched, SameCall
  <2>3. QED
    BY <2>1, <2>2
<1>6. QED
  BY <1>1, <1>4, <1>5 DEF Grounds, Acting

\* The ledger of what a request wrote follows its call.
LEMMA LedgerServiceStep ==
  ASSUME IInv, NEW p \in Slots, Serve(p) \/ Cut(p), NEW r \in Requests
  PROVE  Ledger(r)' /\ AnswerHolds(r)'
<1> USE DEF IInv
<1>1. /\ Service!Handle(p) \/ Service!Abort(p)
      /\ UNCHANGED <<at, ask, token, reply>> /\ Watched
  BY DEF Serve, Cut, request
<1>2. Step(p)
  BY <1>1, ServiceStep DEF Service!IInv
<1>3. "wrote" \in watch'[r] <=> "wrote" \in watch[r] \/ Wrote(r)
  BY <1>1, WatchedStep DEF TypeOK
<1>4. CASE p # Act(r)
  <2>1. SameCall(Act(r)) /\ ~Wrote(r)
    BY <1>2, <1>4, SlotsApart DEF Step, OthersStay, SameCall, Wrote
  <2>2. QED
    BY <1>1, <1>3, <2>1 DEF Kept, Ledger, Past, AnswerHolds, SameCall
<1>5. CASE p = Act(r)
  <2>1. AnswerHolds(r)'
    BY <1>1, <1>2, <1>5 DEF Kept, CallsFit, Step, AnswerHolds
  <2>2. ASSUME "wrote" \in watch'[r]
        PROVE  (Past(r) \/ (pc[p] = "done" /\ resp[p] = 500))'
    <3>1. CASE Wrote(r)
      BY <1>2, <1>5, <3>1 DEF Wrote, Step, Moves, Announcing, Past
    <3>2. CASE "wrote" \in watch[r]
      BY <1>2, <1>5, <3>2 DEF Kept, Ledger, Past, Step, Moves, Announcing
    <3>3. QED
      BY <1>3, <2>2, <3>1, <3>2
  <2>3. ASSUME Past(r)', ask[r].op \in {"register", "create", "delete", "restore"}
        PROVE  "wrote" \in watch'[r]
    <3>1. call[p].op = ask[r].op
      <4>1. pc[p] # "idle"
        BY <1>2 DEF Step
      <4>2. call[p] = ask[r] \/ call[p] = CallOf(ask[r], token[r])
        BY <1>5, <4>1 DEF Kept, CallsFit
      <4>3. CallOf(ask[r], token[r]) = ask[r]
        BY <2>3 DEF CallOf
      <4>4. QED
        BY <4>2, <4>3
    <3>2. CASE pc[p] \in Announcing
      BY <1>3, <1>5, <2>3, <3>2 DEF Kept, Ledger, Past, Announcing
    <3>3. CASE pc[p] = "commit"
      <4>1. pc'[p] \in Announcing
        BY <1>2, <1>5, <2>3, <3>3 DEF Past, Step, Moves, Announcing
      <4>2. Service!Commit(p)
        BY <1>1, <3>3, <4>1, PastByCommit DEF Announcing, Service!IInv
      <4>3. db' # db
        BY <2>3, <3>1, <4>2, CommitWrites
      <4>4. QED
        BY <1>3, <1>5, <3>3, <4>1, <4>3 DEF Wrote, Announcing
    <3>4. CASE pc[p] \notin Announcing \cup {"commit"}
      BY <1>2, <1>5, <2>3, <3>1, <3>4 DEF Past, Step, Moves, Announcing
    <3>5. QED
      BY <3>2, <3>3, <3>4
  <2>4. QED
    BY <1>1, <1>5, <2>1, <2>2, <2>3 DEF Ledger
<1>6. QED
  BY <1>4, <1>5

\* A step of one call keeps the invariant of every request.
LEMMA KeptByService ==
  ASSUME IInv, NEW p \in Slots, Serve(p) \/ Cut(p), NEW r \in Requests
  PROVE  Kept(r)'
<1>1. Service!Handle(p) \/ Service!Abort(p)
  BY DEF Serve, Cut
<1>2. Step(p)
  BY <1>1, ServiceStep DEF IInv, Service!IInv
<1>3. SameRequest(r)
  BY DEF Serve, Cut, request, SameRequest
<1>4. CallsFit(r)'
  BY <1>2, <1>3, FitServiceStep DEF IInv, Kept
<1>5. QED
  BY <1>4, GroundsServiceStep, LedgerServiceStep DEF Kept

\* So do expiry and the passing of time.
LEMMA KeptByEnvironment ==
  ASSUME IInv, Expiry \/ Tick, NEW r \in Requests
  PROVE  Kept(r)'
<1>1. UNCHANGED <<pc, call, row, resp, request>> /\ Watched
  BY DEF Expiry, Tick, Service!Expiry, Service!ExpireProfile, Service!ExpirePage, Service!Tick,
         Service!locals, request
<1>2. SameRequest(r) /\ SameCall(Auth(r)) /\ SameCall(Act(r))
  BY <1>1 DEF request, SameRequest, SameCall
<1>3. QED
  BY <1>1, <1>2, KeptUnchanged DEF IInv, TypeOK

-----------------------------------------------------------------------------
(* A step of a request. *)

\* Until its handler proper begins a request has written nothing.
LEMMA NothingWritten ==
  ASSUME IInv, NEW r \in Requests, at[r] \notin {"act", "replied"}, Watched, db' = db
  PROVE  pc[Act(r)] = "idle" /\ "wrote" \notin watch'[r]
<1>1. pc[Act(r)] = "idle"
  BY DEF IInv, Kept, CallsFit
<1>2. QED
  BY <1>1, WatchedStep DEF IInv, TypeOK, Kept, Ledger, Past, Wrote

\* It may be turned away before that,
LEMMA TurnedAway ==
  ASSUME IInv, NEW r \in Requests, Watched, db' = db,
         at[r] \notin {"act", "replied"}, at'[r] = "replied",
         reply'[r] = 200 => ask'[r].op = "login",
         token'[r] = token[r] \/ pc[Auth(r)] = "idle",
         SameCall(Auth(r)), SameCall(Act(r))
  PROVE  Kept(r)'
<1>1. pc[Act(r)] = "idle" /\ "wrote" \notin watch'[r]
  BY NothingWritten
<1>2. CallsFit(r)'
  BY <1>1 DEF IInv, Kept, CallsFit, SameCall
<1>3. Grounds(r)' /\ Ledger(r)' /\ AnswerHolds(r)'
  BY <1>1 DEF Grounds, Acting, Ledger, Past, AnswerHolds, SameCall
<1>4. QED
  BY <1>2, <1>3 DEF Kept

\* or go on without a call, on a public route,
LEMMA GoesOn ==
  ASSUME IInv, NEW r \in Requests, Watched, db' = db,
         at[r] \in {"idle", "limit", "query"}, at'[r] \in {"limit", "query", "verify"},
         at'[r] # "limit" => ask'[r].op = "login",
         token'[r] = token[r], SameCall(Auth(r)), SameCall(Act(r))
  PROVE  Kept(r)'
<1>1. pc[Act(r)] = "idle" /\ "wrote" \notin watch'[r]
  BY NothingWritten
<1>2. CallsFit(r)'
  BY <1>1 DEF IInv, Kept, CallsFit, SameCall
<1>3. Grounds(r)' /\ Ledger(r)' /\ AnswerHolds(r)'
  BY <1>1 DEF Grounds, Acting, Ledger, Past, AnswerHolds, SameCall
<1>4. QED
  BY <1>2, <1>3 DEF Kept

\* or begin the call it is there for.
LEMMA ActBegins ==
  ASSUME IInv, NEW r \in Requests, Watched,
         at[r] \notin {"act", "replied"}, at'[r] = "act",
         ask'[r] = ask[r], token'[r] = token[r],
         NEW c \in Calls, Service!Start(Act(r), c),
         token[r] = None => ask[r].op = "register" /\ c = ask[r],
         token[r] # None => /\ ask[r].op \notin Public /\ Permitted(ask[r], token[r])
                            /\ c = CallOf(ask[r], token[r])
                            /\ {"active", "stale"} \cap watch[r] # {}
  PROVE  Kept(r)'
<1>1. /\ call'[Act(r)] = c /\ SameCall(Auth(r)) /\ db' = db
      /\ pc'[Act(r)] \in {"validate", "begin", "lookup", "version"}
  BY StartStep, SlotsApart DEF IInv, TypeOK, OthersStay
<1>2. "wrote" \notin watch'[r] /\ watch[r] \subseteq watch'[r]
  BY <1>1, NothingWritten, WatchedStep DEF IInv, TypeOK
<1>3. CallsFit(r)'
  BY <1>1 DEF IInv, Kept, CallsFit, SameCall
<1>4. Grounds(r)' /\ Ledger(r)' /\ AnswerHolds(r)'
  BY <1>1, <1>2 DEF Grounds, Acting, Ledger, Past, AnswerHolds
<1>5. QED
  BY <1>3, <1>4 DEF Kept

\* Behind the extractor it first begins the fetch of its account.
LEMMA AuthBegins ==
  ASSUME IInv, NEW r \in Requests, Watched, at[r] = "idle", at'[r] = "auth",
         NEW t, t.user \in Users, t # None, token'[r] = t, Service!Start(Auth(r), GetOf(t.user))
  PROVE  Kept(r)'
<1>1. GetOf(t.user) \in Calls
  BY DEF Calls
<1>2. /\ call'[Auth(r)] = GetOf(t.user) /\ pc'[Auth(r)] = "lookup"
      /\ SameCall(Act(r)) /\ db' = db
  BY <1>1, StartStep, SlotsApart DEF IInv, TypeOK, OthersStay, GetOf
<1>3. pc[Act(r)] = "idle" /\ "wrote" \notin watch'[r]
  BY <1>2, NothingWritten
<1>4. CallsFit(r)'
  BY <1>2, <1>3 DEF CallsFit, SameCall
<1>5. Grounds(r)' /\ Ledger(r)' /\ AnswerHolds(r)'
  BY <1>2, <1>3 DEF Grounds, Fetched, Acting, Ledger, Past, AnswerHolds, SameCall
<1>6. QED
  BY <1>4, <1>5 DEF Kept

\* Its answer says what became of its call.
LEMMA Ends ==
  ASSUME IInv, NEW r \in Requests, Finish(r)
  PROVE  Kept(r)'
<1>1. /\ at[r] = "act" /\ pc[Act(r)] = "done" /\ Watched
      /\ UNCHANGED <<service, ask, token>>
      /\ at'[r] = "replied" /\ reply'[r] \in {500, resp[Act(r)]}
      /\ reply'[r] \in 400 .. 499 => resp[Act(r)] # 200
      /\ UNCHANGED <<service, ask, token>>
  BY DEF Finish, Reply, Send, IInv, TypeOK, Typed
<1>2. SameCall(Auth(r)) /\ SameCall(Act(r)) /\ ("wrote" \in watch'[r] <=> "wrote" \in watch[r])
  BY <1>1, WatchedStep DEF IInv, TypeOK, service, SameCall, Wrote
<1>3. resp[Act(r)] \in {None, 200, 404, 422, 500}
  BY SlotsApart DEF IInv, TypeOK, Service!TypeOK, Service!Answers
<1>4. CallsFit(r)'
  BY <1>1, <1>2 DEF IInv, Kept, CallsFit, SameCall
<1>5. Grounds(r)' /\ Ledger(r)'
  BY <1>1, <1>2 DEF IInv, Kept, Grounds, Acting, Ledger, Past, SameCall
<1>6. AnswerHolds(r)'
  BY <1>1, <1>2, <1>3, NoneIsNoValue DEF IInv, Kept, Ledger, Past, AnswerHolds
<1>7. QED
  BY <1>4, <1>5, <1>6 DEF Kept

\* Which of these it is, handler by handler.
LEMMA RequestAlone ==
  ASSUME TypeOK, Poised, NEW r \in Requests, Receive(r) \/ Handler(r) \/ GiveUp(r)
  PROVE  Alone(r) /\ Begins(r) /\ Watched
<1>1. /\ at = [at EXCEPT ![r] = at[r]] /\ token = [token EXCEPT ![r] = token[r]]
      /\ reply = [reply EXCEPT ![r] = reply[r]] /\ ask = [ask EXCEPT ![r] = ask[r]]
  BY DEF TypeOK, Typed
<1>2. /\ \A l : Goto(r, l) =>
           (\E m : at' = [at EXCEPT ![r] = m]) /\ (\E c : reply' = [reply EXCEPT ![r] = c])
      /\ \A c : Send(r, c) \/ Reply(r, c) =>
           (\E m : at' = [at EXCEPT ![r] = m]) /\ (\E d : reply' = [reply EXCEPT ![r] = d])
  BY <1>1 DEF Goto, Send, Reply
<1>3. /\ UNCHANGED token => \E t : token' = [token EXCEPT ![r] = t]
      /\ UNCHANGED ask => \E a : ask' = [ask EXCEPT ![r] = a]
  BY <1>1
<1>4. CASE Receive(r)
  <2>1. PICK a \in Asks : TurnAway(r, a) \/ ReceivePublic(r, a) \/ Authenticate(r, a)
    BY <1>4 DEF Receive
  <2>2. \A t \in issued : GetOf(t.user) \in Calls
    BY DEF TypeOK, Typed, Claims, Calls
  <2>3. /\ (\E c : Send(r, c) \/ Reply(r, c)) \/ (\E l : Goto(r, l))
        /\ UNCHANGED token \/ \E t : token' = [token EXCEPT ![r] = t]
        /\ ask' = [ask EXCEPT ![r] = a]
    BY <2>1 DEF TurnAway, Garbled, KeyRefused, ReceivePublic, Authenticate
  <2>4. Alone(r)
    BY <1>2, <1>3, <2>3 DEF Alone
  <2>5. Begins(r)
    <3>1. CASE TurnAway(r, a) \/ ReceivePublic(r, a)
      BY <3>1 DEF TurnAway, ReceivePublic, Begins
    <3>2. CASE Authenticate(r, a)
      BY <2>2, <3>2 DEF Authenticate, Begins
    <3>3. QED
      BY <2>1, <3>1, <3>2
  <2>6. Watched
    BY <1>4 DEF Receive
  <2>7. QED
    BY <2>4, <2>5, <2>6
<1>5. CASE Handler(r) \/ GiveUp(r)
  <2>1. /\ UNCHANGED <<ask, token>> /\ Watched
        /\ (\E l : Goto(r, l)) \/ (\E c : Send(r, c) \/ Reply(r, c))
    BY <1>5 DEF Handler, Limited, Query, Verify, Authenticated, Finish, GiveUp
  <2>2. Alone(r) /\ Watched
    BY <1>2, <1>3, <2>1 DEF Alone
  <2>3. CASE Limited(r)
    BY <2>2, <2>3 DEF Limited, Poised, Public, Calls, Begins
  <2>4. CASE Authenticated(r)
    BY <2>2, <2>4, CallIsAccepted DEF Authenticated, Poised, Begins
  <2>5. CASE Query(r) \/ Verify(r) \/ Finish(r) \/ GiveUp(r)
    BY <2>2, <2>5 DEF Query, Verify, Finish, GiveUp, Begins
  <2>6. QED
    BY <1>5, <2>3, <2>4, <2>5 DEF Handler
<1>6. QED
  BY <1>4, <1>5

\* The arrival of a request keeps its own invariant,
LEMMA ReceiveKeeps ==
  ASSUME IInv, NEW r \in Requests, Receive(r)
  PROVE  Kept(r)'
<1> USE DEF IInv, TypeOK, Typed
<1>1. PICK a \in Asks : TurnAway(r, a) \/ ReceivePublic(r, a) \/ Authenticate(r, a)
  BY DEF Receive
<1>2. at[r] = "idle" /\ pc[Auth(r)] = "idle" /\ pc[Act(r)] = "idle" /\ Watched
  BY DEF Receive, Kept, CallsFit
<1>3. CASE UNCHANGED service /\ \E c \in {400, 401, 403, 422, 500} : Send(r, c)
  <2>1. db' = db /\ SameCall(Auth(r)) /\ SameCall(Act(r))
    BY <1>3 DEF service, SameCall
  <2>2. at'[r] = "replied" /\ reply'[r] # 200
    BY <1>3 DEF Send
  <2>3. QED
    BY <1>2, <2>1, <2>2, TurnedAway
<1>4. CASE Goto(r, "limit") /\ UNCHANGED <<service, token>>
  <2>1. db' = db /\ SameCall(Auth(r)) /\ SameCall(Act(r)) /\ at'[r] = "limit"
    BY <1>4 DEF Goto, service, SameCall
  <2>2. QED
    BY <1>2, <1>4, <2>1, GoesOn
<1>5. ASSUME NEW t \in issued, token' = [token EXCEPT ![r] = t], Goto(r, "auth"),
             Service!Start(Auth(r), GetOf(t.user))
      PROVE  Kept(r)'
  <2>1. t.user \in Users /\ t # None
    BY TokensAssumption DEF Claims
  <2>2. at'[r] = "auth" /\ token'[r] = t
    BY <1>5 DEF Goto
  <2>3. QED
    BY <1>2, <1>5, <2>1, <2>2, AuthBegins
<1>6. QED
  <2>1. CASE TurnAway(r, a)
    BY <1>3, <2>1 DEF TurnAway, Garbled, KeyRefused, Reply
  <2>2. CASE ReceivePublic(r, a)
    BY <1>3, <1>4, <2>2 DEF ReceivePublic, Reply
  <2>3. CASE Authenticate(r, a)
    BY <1>3, <1>5, <2>3 DEF Authenticate, Reply
  <2>4. QED
    BY <1>1, <2>1, <2>2, <2>3

\* its handler too,
LEMMA HandlerKeeps ==
  ASSUME IInv, NEW r \in Requests, Handler(r) \/ GiveUp(r)
  PROVE  Kept(r)'
<1> USE DEF IInv, TypeOK, Typed
<1>1. UNCHANGED token /\ (ask' = ask) /\ Watched
  BY DEF Handler, Limited, Query, Verify, Authenticated, Finish, GiveUp
<1>2. CASE UNCHANGED service /\ at[r] \notin {"act", "replied"}
           /\ \E c \in {200, 401, 403, 422, 500} :
                Send(r, c) /\ (c = 200 => at[r] = "verify")
  <2>1. db' = db /\ SameCall(Auth(r)) /\ SameCall(Act(r))
    BY <1>2 DEF service, SameCall
  <2>2. at'[r] = "replied" /\ (reply'[r] = 200 => ask[r].op = "login")
    BY <1>2 DEF Send, Kept, CallsFit
  <2>3. QED
    BY <1>1, <1>2, <2>1, <2>2, TurnedAway
<1>3. CASE /\ UNCHANGED service
           /\ \/ at[r] = "limit" /\ ask[r].op = "login" /\ Goto(r, "query")
              \/ at[r] = "query" /\ Goto(r, "verify")
  <2>1. db' = db /\ SameCall(Auth(r)) /\ SameCall(Act(r))
    BY <1>3 DEF service, SameCall
  <2>2. at'[r] \in {"query", "verify"} /\ ask[r].op = "login"
    BY <1>3 DEF Goto, Kept, CallsFit
  <2>3. QED
    BY <1>1, <1>3, <2>1, <2>2, GoesOn
<1>4. CASE at[r] = "limit" /\ ask[r].op # "login" /\ Goto(r, "act") /\ Service!Start(Act(r), ask[r])
  <2>1. ask[r] \in Calls /\ ask[r].op = "register" /\ token[r] = None
    BY <1>4 DEF Poised, Public, Calls, Kept, CallsFit
  <2>2. at'[r] = "act"
    BY <1>4 DEF Goto
  <2>3. QED
    BY <1>1, <1>4, <2>1, <2>2, ActBegins
<1>5. CASE /\ at[r] = "auth" /\ pc[Auth(r)] = "done" /\ Admitted(r) /\ Permitted(ask[r], token[r])
           /\ Goto(r, "act") /\ Service!Start(Act(r), CallOf(ask[r], token[r]))
  <2>1. CallOf(ask[r], token[r]) \in Calls /\ ask[r].op \notin Public /\ token[r] # None
    BY <1>5, CallIsAccepted DEF Poised, Kept, CallsFit
  <2>2. {"active", "stale"} \cap watch[r] # {}
    BY <1>5 DEF Kept, Grounds, Fetched, Admitted
  <2>3. at'[r] = "act"
    BY <1>5 DEF Goto
  <2>4. QED
    BY <1>1, <1>5, <2>1, <2>2, <2>3, ActBegins
<1>6. QED
  <2>1. CASE Limited(r)
    BY <1>2, <1>3, <1>4, <2>1 DEF Limited, Reply
  <2>2. CASE Query(r) \/ Verify(r) \/ GiveUp(r)
    BY <1>2, <1>3, <2>2 DEF Query, Verify, GiveUp, Reply
  <2>3. CASE Authenticated(r)
    BY <1>2, <1>5, <2>3 DEF Authenticated, Reply
  <2>4. CASE Finish(r)
    BY <2>4, Ends
  <2>5. QED
    BY <2>1, <2>2, <2>3, <2>4 DEF Handler

\* and neither touches another request's.
LEMMA KeptByRequest ==
  ASSUME IInv, NEW r \in Requests, Receive(r) \/ Handler(r) \/ GiveUp(r), NEW s \in Requests
  PROVE  Kept(s)'
<1>1. Kept(r)'
  BY ReceiveKeeps, HandlerKeeps
<1>2. OthersWait(r) /\ Watched
  BY RequestAlone, AlikeElsewhere DEF IInv
<1>3. s # r => Kept(s)'
  BY <1>2, KeptUnchanged DEF OthersWait, IInv, TypeOK
<1>4. QED
  BY <1>1, <1>3

-----------------------------------------------------------------------------
(* The invariant. *)

\* It holds at the start
LEMMA IInvInit == Init /\ Service!IInv /\ Poised => IInv
<1> SUFFICES ASSUME Init, Service!IInv, Poised PROVE IInv
  OBVIOUS
<1>1. TypeOK
  BY TypesInit DEF Init, TypeOK, WatchTyped, Service!IInv
<1>2. ASSUME NEW r \in Requests PROVE Kept(r)
  <2>1. /\ pc[Auth(r)] = "idle" /\ pc[Act(r)] = "idle"
        /\ at[r] = "idle" /\ token[r] = None /\ watch[r] = {}
    BY SlotsApart DEF Init, Service!Init
  <2>2. QED
    BY <2>1 DEF Kept, CallsFit, Grounds, Acting, Ledger, Past, AnswerHolds
<1>3. QED
  BY <1>1, <1>2 DEF IInv

\* and every step keeps it.
LEMMA IInvNext ==
  ASSUME IInv, [Next]_vars, Service!IInv', Poised'
  PROVE  IInv'
<1>1. CASE UNCHANGED vars
  <2>1. UNCHANGED <<pc, call, row, resp, request, watch, counter, sealing, issued>>
    BY <1>1 DEF vars, request
  <2>2. \A r \in Requests : SameRequest(r) /\ SameCall(Auth(r)) /\ SameCall(Act(r))
    BY <2>1 DEF request, SameRequest, SameCall
  <2>3. \A r \in Requests : Kept(r)'
    BY <2>1, <2>2, FitUnchanged
       DEF IInv, Kept, Grounds, Fetched, Acting, Ledger, Past, AnswerHolds, request, SameRequest,
           SameCall
  <2>4. QED
    BY <2>1, <2>3 DEF IInv, TypeOK, Typed, WatchTyped, Service!IInv, request
<1>2. CASE Next
  <2>1. Watched
    BY <1>2, RequestAlone DEF Next, Serve, Cut, Expiry, Tick, IInv
  <2>2. Typed'
    BY <1>2, ReceiveTypes, HandlerTypes, EnvironmentTypes DEF Next, IInv, TypeOK
  <2>3. TypeOK'
    BY <2>1, <2>2, WatchedStep DEF TypeOK, IInv, Service!IInv
  <2>4. \A s \in Requests : Kept(s)'
    BY <1>2, KeptByRequest, KeptByService, KeptByEnvironment DEF Next
  <2>5. QED
    BY <2>3, <2>4 DEF IInv
<1>3. QED
  BY <1>1, <1>2

\* Every reachable state fits the invariant, whatever is asked with whatever token,
\* however Redis, connections and clients fail.
THEOREM ApiInductive == Spec => []IInv
<1>1. IInv /\ Service!IInv' /\ Poised' /\ [Next]_vars => IInv'
  BY IInvNext
<1>2. QED
  BY <1>1, IInvInit, IsolatedBehindApi, StaysPoised, PTL DEF Spec

\* Every variable of the API holds what its comment says.
THEOREM ApiTypeCorrect == Spec => []TypeOK
<1>1. IInv => TypeOK
  BY DEF IInv
<1>2. QED
  BY <1>1, ApiInductive, PTL

\* Whoever is admitted had an active account at some moment since the request
\* arrived, or one whose cached profile was stale.
THEOREM GroundsToAdmit == Spec => []AdmittedOnGrounds
<1>1. IInv => AdmittedOnGrounds
  BY DEF IInv, Kept, Grounds, AdmittedOnGrounds
<1>2. QED
  BY <1>1, ApiInductive, PTL

\* Whatever is answered below 500 is true of the table.
THEOREM AnswersAreTrue == Spec => []AnswersHold
<1>1. IInv => AnswersHold
  BY DEF IInv, Kept, AnswersHold
<1>2. QED
  BY <1>1, ApiInductive, PTL

-----------------------------------------------------------------------------
(* Who changes accounts. *)

\* Only a commit changes the table.
LEMMA OnlyCommitsWrite ==
  ASSUME NEW p \in Slots, Service!Handle(p), db' # db
  PROVE  Service!Commit(p)
BY DEF Service!Handle, Service!Writing, Service!Getting, Service!Indexing,
       Service!ValidateCall, Service!Begin, Service!LockRow, Service!Insert, Service!UpdateRow,
       Service!RestoreRow, Service!DeleteRow, Service!DropProfile, Service!Stamp, Service!Bump,
       Service!Lookup, Service!Read, Service!Fill, Service!ReadVersion, Service!LookupPage,
       Service!CountRows, Service!SelectRows, Service!FillPage, Service!store

\* What a commit makes of an account is what its call asks of the account as it is.
LEMMA CommitStep ==
  ASSUME Service!IInv, NEW p \in Slots, Service!Commit(p), NEW u \in Users, db'[u] # db[u]
  PROVE  /\ pc[p] = "commit" /\ pc'[p] # "commit"
         /\ call[p].op \in {"register", "create", "update", "restore", "delete"}
         /\ call[p].op = "register" => db[u] = None /\ db'[u] = Service!NewRow(call[p])
         /\ call[p].op = "update" => /\ u = call[p].user /\ db[u] \in Row
                                     /\ Service!AcceptsUpdate(db[u], call[p])
                                     /\ db'[u] = Service!Updated(db[u], call[p])
<1> USE DEF Service!IInv, Service!TypeOK, Service!OnPath, Service!Op, Service!Creates
<1>1. lock[u] = p /\ db'[u] = row[p]
  BY DEF Service!Commit, Service!MakeVisible
<1>2. Service!IsResult(p, u)
  BY <1>1 DEF Service!Isolation, Service!PendingFits, Service!Commit
<1>3. pc[p] = "commit" /\ pc'[p] # "commit"
  BY DEF Service!Commit, Service!Goto, Service!AfterCommit
<1>4. call[p].op = "update" => db[u] \in Row
  BY <1>2 DEF Service!IsResult, Service!Row, Row, Service!Roles, Roles, Service!Statuses, Statuses
<1>5. QED
  BY <1>1, <1>2, <1>3, <1>4 DEF Service!IsResult, Service!Target

\* An update under a standard token is stripped of all but the email.
LEMMA StrippedUpdate ==
  ASSUME NEW r \in Row, NEW a, NEW t, t.role # 0, a \in Ask, t \in Claims,
         NEW c, c = CallOf(a, t), c.op = "update", Permitted(a, t), Service!AcceptsUpdate(r, c)
  PROVE  /\ c.user = t.user /\ ~r.deleted
         /\ Service!Updated(r, c) = [r EXCEPT !.email = Service!Updated(r, c).email]
<1>1. c.role = None /\ c.status = None /\ c.deleted = "absent" /\ c.user = t.user
  BY DEF CallOf, Stripped, Permitted, Ask, GetOf
<1>2. ~r.deleted
  BY <1>1 DEF Service!AcceptsUpdate
<1>3. QED
  BY <1>1, <1>2 DEF Service!Updated, Service!Coalesce, Row

\* Whoever's commit changes an account had the right to change it so.
LEMMA WritesByRight ==
  ASSUME IInv, [Next]_vars, NEW u \in Users, db'[u] # db[u]
  PROVE  \E r \in Requests : ByRight(r, u)
<1> USE DEF IInv, TypeOK, Typed
<1>1. PICK p \in Slots : Service!Commit(p)
  <2>1. ~\E r \in Requests : Receive(r) \/ Handler(r) \/ GiveUp(r)
    BY RequestAlone, AlikeElsewhere
  <2>2. ~(UNCHANGED vars \/ Expiry \/ Tick \/ \E p \in Slots : Cut(p))
    BY DEF vars, Expiry, Tick, Cut, Service!Expiry, Service!ExpireProfile, Service!ExpirePage,
           Service!Tick, Service!Abort, Service!store
  <2>3. \E p \in Slots : Serve(p)
    BY <2>1, <2>2 DEF Next
  <2>4. QED
    BY <2>3, OnlyCommitsWrite DEF Serve
<1>2. PICK r \in Requests : p \in {Auth(r), Act(r)}
  BY DEF Slots, Auth, Act
<1>3. /\ pc[p] = "commit" /\ pc'[p] # "commit"
      /\ call[p].op \in {"register", "create", "update", "restore", "delete"}
      /\ call[p].op = "register" => db[u] = None /\ db'[u] = Service!NewRow(call[p])
      /\ call[p].op = "update" => /\ u = call[p].user /\ db[u] \in Row
                                  /\ Service!AcceptsUpdate(db[u], call[p])
                                  /\ db'[u] = Service!Updated(db[u], call[p])
  BY <1>1, CommitStep
<1>4. p = Act(r)
  <2>1. CASE p = Auth(r)
    <3>1. call[p] = GetOf(token[r].user)
      BY <1>3, <2>1 DEF Kept, CallsFit
    <3>2. call[p].op = "get"
      BY <3>1 DEF GetOf
    <3>3. QED
      BY <1>3, <3>2
  <2>2. QED
    BY <1>2, <2>1
<1>5. at[r] = "act" /\ ask[r] \in Asks
  BY <1>3, <1>4 DEF Kept, CallsFit, Poised
<1>6. CASE token[r] = None
  <2>1. call[p].op = "register"
    BY <1>3, <1>4, <1>6 DEF Kept, CallsFit
  <2>2. db'[u].role = 1 /\ db'[u].status = 1 /\ ~db'[u].deleted
    BY <1>3, <2>1 DEF Service!NewRow
  <2>3. QED
    BY <1>3, <1>4, <1>5, <1>6, <2>1, <2>2 DEF ByRight
<1>7. CASE token[r] # None /\ token[r].role = 0
  BY <1>3, <1>4, <1>5, <1>7 DEF ByRight
<1>8. CASE token[r] # None /\ token[r].role # 0
  <2>1. /\ call[p] = CallOf(ask[r], token[r]) /\ Permitted(ask[r], token[r])
        /\ token[r] \in Claims /\ ask[r] \in Ask /\ ask[r].op \notin Public
    BY <1>3, <1>4, <1>5, <1>8, AsksAssumption DEF Kept, CallsFit
  <2>2. call[p].op = "update"
    <3>1. ask[r].op \in {"me", "update_me", "get", "update"}
      BY <1>8, <2>1 DEF Permitted
    <3>2. CASE ask[r].op \in {"me", "get"}
      <4>1. CallOf(ask[r], token[r]).op = "get"
        BY <3>2 DEF CallOf, GetOf
      <4>2. QED
        BY <1>3, <2>1, <4>1
    <3>3. CASE ask[r].op \in {"update_me", "update"}
      BY <2>1, <3>3 DEF CallOf, Stripped, Ask
    <3>4. QED
      BY <3>1, <3>2, <3>3
  <2>3. /\ u = token[r].user /\ ~db[u].deleted
        /\ db'[u] = [db[u] EXCEPT !.email = db'[u].email]
    BY <1>3, <1>8, <2>1, <2>2, StrippedUpdate
  <2>4. IsLive(db[u])
    BY <1>3, <2>2, <2>3, NoneIsNoValue DEF IsLive
  <2>5. QED
    BY <1>3, <1>4, <1>5, <1>8, <2>3, <2>4 DEF ByRight
<1>9. QED
  BY <1>6, <1>7, <1>8

\* Accounts only change by right: an admin's, the owner's over the email of a live
\* account, or a registration's of a new one.
THEOREM RightsHold == Spec => OnlyByRight
<1>1. IInv /\ [Next]_vars =>
        [\A u \in Users : db'[u] # db[u] => \E r \in Requests : ByRight(r, u)]_vars
  BY WritesByRight
<1>2. QED
  BY <1>1, ApiInductive, PTL DEF Spec, OnlyByRight

=============================================================================
