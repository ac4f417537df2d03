--------------------------------- MODULE Api ---------------------------------
(***************************************************************************)
(* The HTTP API over the user service: login, registration, and the seven  *)
(* routes behind AuthenticatedUser.  A request calls the service up to     *)
(* twice, once to fetch the account of its token and once to act, so each  *)
(* has two processes of UserService.  The token keeps the role the account *)
(* had when it logged in; policies look at the token, never at the fetched *)
(* account.  Around every route lie two layers, the encryption of payloads *)
(* and inside it the test of the gateway key.                              *)
(***************************************************************************)
EXTENDS UserIndex, AttemptCounter

CONSTANTS
  Requests,     \* the HTTP requests of a behaviour
  Asks,         \* what they can ask
  Tokens,       \* the claims of the tokens given out before
  TokenLife,    \* jwt_expiration_seconds
  Leeway,       \* what jsonwebtoken adds to an expiry
  Gateway,      \* API_GATEWAY_KEY: given, or not and needed or not
  Sealings,     \* what encryption may be configured as
  Seed, Trim, WellFormed, PoolSize, CacheFaults, Aborts, MaxNow

Ask == [op      : {"login", "register", "create", "update", "restore", "delete",
                   "get", "index", "me", "update_me"},
        user    : Users \cup {None},     \* None unless the path names one
        email   : Emails \cup {None},
        role    : Roles \cup {None},
        status  : Statuses \cup {None},
        deleted : DeletedAt,
        strong  : BOOLEAN,               \* the password is right, absent or accepted
        query   : Queries \cup {None}]   \* of the index

Claims == [user : Users, role : Roles, status : Statuses, exp : Nat]

ASSUME AsksAssumption ==
  /\ Asks \subseteq Ask
  /\ \A a \in Asks :
       /\ a.op \in {"get", "update", "restore", "delete"} => a.user # None
       /\ a.op \in {"login", "register", "create"} => a.email # None
       /\ a.op = "index" => a.query # None
ASSUME TokensAssumption ==
  /\ TokenLife \in Nat /\ Leeway \in Nat
  /\ Tokens \subseteq Claims /\ None \notin Claims
  /\ \A t \in Tokens : /\ IsLive(Seed[t.user]) /\ Seed[t.user].status = 1
                       /\ t.role = Seed[t.user].role

\* API_PAYLOAD_ENCRYPTION_ENABLED, and whether API_ENCRYPTION_KEY is a key.
Sealing == {"off", "on", "broken"}
\* Without a key, production lets nobody in and any other environment everybody.
Gateways == {"keyed", "shut", "open"}

ASSUME LayersAssumption == Sealings \subseteq Sealing /\ Gateway \in Gateways

VARIABLES
  db, lock, profile, version, pages, now, pc, call, row, stamp, list, resp,
  counter,   \* Redis: rate_limit:<endpoint>:<email>
  sealing,   \* how encryption is configured
  issued,    \* the claims of the tokens given out
  at,        \* where each request stands
  ask,       \* what it asks
  token,     \* the claims it presents, None for a public route
  found,     \* login: the row it read
  reply,     \* the status it was answered with
  watch      \* what was true of its account, and of the table, while it was handled

service == <<db, lock, profile, version, pages, now, pc, call, row, stamp, list, resp>>
request == <<at, ask, token, found, reply>>
vars == <<db, lock, profile, version, pages, now, pc, call, row, stamp, list, resp,
          counter, sealing, issued, at, ask, token, found, reply, watch>>

Auth(r) == <<r, "auth">>
Act(r)  == <<r, "act">>
Slots == Requests \X {"auth", "act"}

\* PATCH bodies lose these fields unless the token is an admin's.
Stripped(c, t) ==
  IF t.role = 0 THEN c ELSE [c EXCEPT !.role = None, !.status = None, !.deleted = "absent"]

GetOf(u) == [op |-> "get", user |-> u, email |-> None, role |-> None,
             status |-> None, deleted |-> "absent", strong |-> TRUE, query |-> None]

\* Faulty variant: update_me passes the body on as it came.
CallAsSent(a, t) ==
  CASE a.op = "me"        -> GetOf(t.user)
    [] a.op = "update_me" -> [a EXCEPT !.op = "update", !.user = t.user]
    [] a.op = "update"    -> Stripped(a, t)
    [] OTHER              -> a

\* The call of the service a controller makes for the ask a under the token t.
CallOf(a, t) ==
  CASE a.op = "me"        -> GetOf(t.user)
    [] a.op = "update_me" -> Stripped([a EXCEPT !.op = "update", !.user = t.user], t)
    [] a.op = "update"    -> Stripped(a, t)
    [] OTHER              -> a

Public == {"login", "register"}
AdminOnly == {"index", "create", "delete", "restore"}

\* What the service can be called with.
Calls == {GetOf(u) : u \in Users} \cup {a \in Asks : a.op = "register"}
         \cup {CallOf(a, t) : a \in {x \in Asks : x.op \notin Public},
                              t \in [user : Users, role : Roles]}

Service == INSTANCE UserService WITH Procs <- Slots

ASSUME ServiceAssumption ==
  /\ IsFiniteSet(Users) /\ None \notin Service!Page /\ None \notin Slots
  /\ Seed \in [Users -> Row \cup {None}]
  /\ \A u, v \in Users :
       u # v /\ Seed[u] # None /\ Seed[v] # None => Seed[u].email # Seed[v].email
  /\ Trim \in [Emails -> Emails]
  /\ MaxNow \in Nat \ {0} /\ PoolSize \in Nat \ {0}
  /\ CacheFaults \in BOOLEAN /\ Aborts \in BOOLEAN

\* UserPolicy, and the role tests of create and restore.
Permitted(a, t) ==
  \/ t.role = 0
  \/ a.op \in {"me", "update_me"}
  \/ a.op \in {"get", "update"} /\ a.user = t.user

Expired(t) == t.exp + Leeway < now

Endpoints == Public \X Emails

Init ==
  /\ Service!Init
  /\ counter = [k \in Endpoints |-> NoCounter]
  /\ sealing \in Sealings
  /\ issued = Tokens
  /\ at = [r \in Requests |-> "idle"]
  /\ ask = [r \in Requests |-> None]
  /\ token = [r \in Requests |-> None]
  /\ found = [r \in Requests |-> None]
  /\ reply = [r \in Requests |-> None]
  /\ watch = [r \in Requests |-> {}]

-----------------------------------------------------------------------------
(* What the requests could have seen of their account. *)

Active(u) == IsLive(db[u]) /\ db[u].status = 1
Admin(u)  == IsLive(db[u]) /\ db[u].role = 0

\* A writer of the account has committed and not answered yet.
Changing(u) == \E p \in Slots : /\ pc[p] \in {"drop", "stamp", "bump"}
                               /\ call[p].user = u

Truths(u) == {x \in {"active", "admin", "changing", "stale"} :
                CASE x = "active"   -> Active(u)
                  [] x = "admin"    -> Admin(u)
                  [] x = "changing" -> Changing(u)
                  [] x = "stale"    -> Service!StaleProfile(u)}

\* The table changed, by the request's commit.
Wrote(r) == db' # db /\ pc[Act(r)] = "commit" /\ pc'[Act(r)] # "commit"

\* Its account from its arrival until it is admitted or turned away, and whether
\* it changed the table.
Watched ==
  watch' = [r \in Requests |->
              watch[r] \cup (IF "auth" \in {at[r], at'[r]} THEN Truths(token[r].user)' ELSE {})
                       \cup (IF Wrote(r) THEN {"wrote"} ELSE {})]

-----------------------------------------------------------------------------
(* One request. *)

Goto(r, l) == at' = [at EXCEPT ![r] = l] /\ UNCHANGED reply
Send(r, code) == at' = [at EXCEPT ![r] = "replied"] /\ reply' = [reply EXCEPT ![r] = code]

\* Faulty variant: a body that cannot be encrypted is answered like one that
\* cannot be decrypted.
ReplyAsGarbled(r, code) == Send(r, IF sealing = "broken" THEN 400 ELSE code)

\* A JSON body, an error's included, is encrypted on its way out.
Reply(r, code) == Send(r, IF sealing = "broken" THEN 500 ELSE code)

\* payload_encryption: a body that says it is encrypted and does not decrypt.
Garbled(r, a) ==
  /\ sealing # "off"
  /\ a.op \notin {"get", "index", "me"}
  /\ Send(r, 400)

\* verify_api_gateway_key: the key that came is wrong, or none is right.
KeyRefused(r) == Gateway # "open" /\ Reply(r, 403)

\* What the layers answer before any route is looked up.
TurnAway(r, a) ==
  /\ Garbled(r, a) \/ KeyRefused(r)
  /\ ask' = [ask EXCEPT ![r] = a]
  /\ UNCHANGED <<service, token>>

\* POST /sessions or /registration: a blank field ends it here.
ReceivePublic(r, a) ==
  /\ a.op \in Public /\ Gateway # "shut"
  /\ ask' = [ask EXCEPT ![r] = a]
  /\ Goto(r, "limit") \/ Reply(r, 422)
  /\ UNCHANGED <<service, token>>

\* AuthenticatedUser: no token or one that was never given out, an expired one,
\* or one whose account is now fetched.
Authenticate(r, a) ==
  /\ a.op \notin Public /\ Gateway # "shut"
  /\ ask' = [ask EXCEPT ![r] = a]
  /\ \/ Reply(r, 401) /\ UNCHANGED <<service, token>>
     \/ \E t \in issued :
          /\ token' = [token EXCEPT ![r] = t]
          /\ IF Expired(t)
               THEN Reply(r, 401) /\ UNCHANGED service
               ELSE Goto(r, "auth") /\ Service!Start(Auth(r), GetOf(t.user))

Receive(r) ==
  /\ at[r] = "idle"
  /\ \E a \in Asks : TurnAway(r, a) \/ ReceivePublic(r, a) \/ Authenticate(r, a)
  /\ UNCHANGED <<counter, sealing, issued, found>>
  /\ Watched

\* incr_with_ttl, and what follows if the attempt is let through.
Limited(r) ==
  LET k == <<ask[r].op, ask[r].email>>
      Count == counter' = [counter EXCEPT ![k] = Counted(@)]
      Proceed == IF ask[r].op = "login"
                   THEN Goto(r, "query") /\ UNCHANGED service
                   ELSE Goto(r, "act") /\ Service!Start(Act(r), ask[r])
  IN
  /\ at[r] = "limit"
  /\ \/ /\ Count
        /\ IF Refused(Counted(counter[k]).n)
             THEN Reply(r, 403) /\ UNCHANGED service
             ELSE Proceed
     \/ /\ CacheFaults
        /\ Count \/ UNCHANGED counter
        /\ Proceed
  /\ UNCHANGED <<sealing, issued, ask, token, found>>
  /\ Watched

\* login: SELECT .. WHERE email = .. AND deleted_at IS NULL
Query(r) ==
  /\ at[r] = "query"
  /\ Service!ConnectionFree
  /\ \/ \E u \in Users :
          /\ IsLive(db[u]) /\ db[u].email = ask[r].email
          /\ found' = [found EXCEPT ![r] = [user |-> u, role |-> db[u].role, status |-> db[u].status]]
     \/ /\ \A u \in Users : IsLive(db[u]) => db[u].email # ask[r].email
        /\ UNCHANGED found
  /\ Goto(r, "verify")
  /\ UNCHANGED <<service, counter, sealing, issued, ask, token>>
  /\ Watched

\* Faulty variant: the dummy hash of an unknown email is taken for an account's.
VerifyDummy(r) ==
  LET f == IF found[r] = None THEN [user |-> None, role |-> 1, status |-> 1] ELSE found[r] IN
  /\ at[r] = "verify"
  /\ IF ask[r].strong /\ f.status = 1
       THEN /\ issued' = issued \cup
                 {[user |-> f.user, role |-> f.role, status |-> f.status, exp |-> now + TokenLife]}
            /\ Reply(r, 200)
       ELSE Reply(r, 401) /\ UNCHANGED issued
  /\ UNCHANGED <<service, counter, sealing, ask, token, found>>
  /\ Watched

\* The password, the status, and the token.
Verify(r) ==
  LET f == found[r] IN
  /\ at[r] = "verify"
  /\ IF f # None /\ ask[r].strong /\ f.status = 1
       THEN /\ issued' = issued \cup
                 {[user |-> f.user, role |-> f.role, status |-> f.status, exp |-> now + TokenLife]}
            /\ Reply(r, 200)
       ELSE Reply(r, 401) /\ UNCHANGED issued
  /\ UNCHANGED <<service, counter, sealing, ask, token, found>>
  /\ Watched

\* Faulty variant: the status of the account is not looked at.
AdmittedIfFound(r) == resp[Auth(r)] = 200

\* get_user answered with an active account; every other outcome is a 401.
Admitted(r) ==
  /\ resp[Auth(r)] = 200
  /\ row[Auth(r)].status = 1 /\ ~row[Auth(r)].deleted

\* The extractor returns the claims, and the handler proper begins.
Authenticated(r) ==
  LET a == ask[r]
      t == token[r]
  IN
  /\ at[r] = "auth" /\ pc[Auth(r)] = "done"
  /\ \/ ~Admitted(r) /\ Reply(r, 401) /\ UNCHANGED service
     \/ Admitted(r) /\ ~Permitted(a, t) /\ Reply(r, 403) /\ UNCHANGED service
     \/ /\ Admitted(r) /\ Permitted(a, t)
        /\ IF a.op = "index" /\ TooMany(a.query)
             THEN Reply(r, 422) /\ UNCHANGED service
             ELSE Goto(r, "act") /\ Service!Start(Act(r), CallOf(a, t))
  /\ UNCHANGED <<counter, sealing, issued, ask, token, found>>
  /\ Watched

\* Faulty variant: the limit is tested once the service has answered, with the
\* attempts counted by then.
FinishIfAllowed(r) ==
  LET k == <<ask[r].op, ask[r].email>> IN
  /\ at[r] = "act" /\ pc[Act(r)] = "done"
  /\ IF ask[r].op = "register" /\ counter[k] # NoCounter /\ Refused(counter[k].n)
       THEN Reply(r, 403)
       ELSE Reply(r, resp[Act(r)])
  /\ UNCHANGED <<service, counter, sealing, issued, ask, token, found>>
  /\ Watched

\* 204 has no body, every other answer has.
Finish(r) ==
  /\ at[r] = "act" /\ pc[Act(r)] = "done"
  /\ IF ask[r].op = "delete" /\ resp[Act(r)] = 200
       THEN Send(r, 200)
       ELSE Reply(r, resp[Act(r)])
  /\ UNCHANGED <<service, counter, sealing, issued, ask, token, found>>
  /\ Watched

\* A query of login fails, or the client of a public route goes away.
GiveUp(r) ==
  /\ Aborts
  /\ at[r] \in {"limit", "query", "verify"}
  /\ Reply(r, 500)
  /\ UNCHANGED <<service, counter, sealing, issued, ask, token, found>>
  /\ Watched

-----------------------------------------------------------------------------

Serve(p) ==
  /\ Service!Handle(p)
  /\ UNCHANGED <<counter, sealing, issued, request>>
  /\ Watched

\* The call is cut short; if its client is still there it gets an error.
Cut(p) ==
  /\ Service!Abort(p)
  /\ UNCHANGED <<counter, sealing, issued, request>>
  /\ Watched

Expiry ==
  /\ Service!Expiry
  /\ UNCHANGED <<counter, sealing, issued, request>>
  /\ Watched

Tick ==
  /\ Service!Tick
  /\ counter' = [k \in Endpoints |-> Older(counter[k])]
  /\ UNCHANGED <<sealing, issued, request>>
  /\ Watched

Handler(r) == Limited(r) \/ Query(r) \/ Verify(r) \/ Authenticated(r) \/ Finish(r)

Next == \/ \E r \in Requests : Receive(r) \/ Handler(r) \/ GiveUp(r)
        \/ \E p \in Slots : Serve(p) \/ Cut(p)
        \/ Expiry
        \/ Tick

Spec == Init /\ [][Next]_vars

\* A request is one future, its calls of the service included; as for the
\* service, every future that can make progress is polled.
Future(r) == Handler(r) \/ Serve(Auth(r)) \/ Serve(Act(r))
FairSpec == Spec /\ \A r \in Requests : WF_vars(Future(r))

-----------------------------------------------------------------------------
(* Correctness. *)

Stages == {"idle", "limit", "query", "verify", "auth", "act", "replied"}

\* Every variable holds what its comment says.
Typed ==
  /\ counter \in [Endpoints -> Counter \cup {NoCounter}]
  /\ sealing \in Sealings
  /\ issued \subseteq Claims
  /\ at \in [Requests -> Stages]
  /\ ask \in [Requests -> Asks \cup {None}]
  /\ token \in [Requests -> Claims \cup {None}]
  /\ found \in [Requests -> [user : Users, role : Roles, status : Statuses] \cup {None}]
  /\ reply \in [Requests -> {None, 200, 400, 401, 403, 404, 422, 500}]
WatchTyped == watch \in [Requests -> SUBSET {"active", "admin", "changing", "stale", "wrote"}]
TypeOK == Service!TypeOK /\ Typed /\ WatchTyped

\* What makes every call of a request one the service accepts, whatever the
\* service does: asks stay what they were, tokens and logins name accounts.
Poised ==
  /\ at \in [Requests -> Stages] /\ ask \in [Requests -> Asks \cup {None}]
  /\ DOMAIN token = Requests /\ DOMAIN found = Requests
  /\ \A t \in issued : t.user \in Users
  /\ \A r \in Requests :
       /\ at[r] # "idle" => ask[r] \in Asks
       /\ at[r] \in {"limit", "query", "verify"} => ask[r].op \in Public
       /\ at[r] = "auth" => ask[r].op \notin Public /\ token[r].user \in Users
       /\ found[r] # None => found[r].user \in Users

\* The requests drive the service as its own specification allows: the two
\* calls of one request, and those of any number of requests, are just calls.
ImplementsService == Service!Spec

\* Who a request acts for, once its handler has begun.
Acting(r) == at[r] = "act" /\ token[r] # None

\* Accounts only change by right.  Whatever interleaves between the fetch of
\* the account, the validations and the commit, a commit belongs to a request
\* with an admin's token, or leaves all but the email of its own account as it
\* is, or registers a standard, active account.
ByRight(r, u) ==
  /\ at[r] = "act"
  /\ pc[Act(r)] = "commit" /\ pc'[Act(r)] # "commit"
  /\ \/ token[r] # None /\ token[r].role = 0
     \/ /\ token[r] # None /\ token[r].user = u
        /\ IsLive(db[u]) /\ db'[u] = [db[u] EXCEPT !.email = db'[u].email]
     \/ /\ token[r] = None /\ db[u] = None
        /\ db'[u].role = 1 /\ db'[u].status = 1 /\ ~db'[u].deleted
OnlyByRight ==
  [][\A u \in Users : db'[u] # db[u] => \E r \in Requests : ByRight(r, u)]_vars

\* A request is admitted only if its account was active in the database at some
\* moment since it arrived, or the cached profile was stale at some moment
\* since: a suspension reaches every request that arrives after the profile is
\* gone from the cache, for whatever token.
AdmittedOnGrounds == \A r \in Requests : Acting(r) => {"active", "stale"} \cap watch[r] # {}

\* What the extractor's comments and the tests say: the account is verified
\* against the database.  Were it so, nobody would be admitted whose account
\* was inactive or deleted all along, once the writer that made it so answered.
AdmittedAgainstDatabase ==
  \A r \in Requests : Acting(r) => {"active", "changing"} \cap watch[r] # {}

\* What the documentation of the routes says, "Forbidden (Admin only)": nobody
\* gets through them who was no admin all along, once the writer that changed
\* the role answered.
AdminOnlyRoutes ==
  \A r \in Requests : Acting(r) /\ ask[r].op \in AdminOnly =>
    {"admin", "changing"} \cap watch[r] # {}

\* An answer below 500 can be relied on: a client that was refused changed
\* nothing, and one whose account was created, deleted or brought back changed
\* the table.  Whatever commits although its handler is cut off, its caches fail
\* or its answer cannot be encrypted is answered 500.
AnswerHolds(r) ==
  at[r] = "replied" =>
    /\ reply[r] \in 400 .. 499 => "wrote" \notin watch[r]
    /\ reply[r] = 200 /\ ask[r].op \in {"register", "create", "delete", "restore"} => "wrote" \in watch[r]
AnswersHold == \A r \in Requests : AnswerHolds(r)

\* The strengthening of TypeOK, AdmittedOnGrounds and AnswersHold that every
\* step preserves, request by request.  Its calls are those its ask and its token
\* make, and the second is only made for what the token permits.
CallsFit(r) ==
  /\ at[r] \in {"idle", "limit", "query", "verify"} => token[r] = None
  /\ at[r] \in {"query", "verify"} => ask[r].op = "login"
  /\ at[r] = "auth" => pc[Auth(r)] # "idle"
  /\ at[r] = "act" => pc[Act(r)] # "idle"
  /\ at[r] = "replied" => pc[Act(r)] \in {"idle", "done"}
  /\ pc[Auth(r)] # "idle" =>
       at[r] # "idle" /\ token[r] # None /\ call[Auth(r)] = GetOf(token[r].user)
  /\ pc[Act(r)] # "idle" =>
       /\ at[r] \in {"act", "replied"}
       /\ token[r] = None => ask[r].op = "register" /\ call[Act(r)] = ask[r]
       /\ token[r] # None => /\ ask[r].op \notin Public /\ Permitted(ask[r], token[r])
                             /\ call[Act(r)] = CallOf(ask[r], token[r])

\* A fetched account that will be admitted was active, or its profile stale.
Fetched(r) == pc[Auth(r)] = "fill" \/ (pc[Auth(r)] = "done" /\ resp[Auth(r)] = 200)
Grounds(r) ==
  \/ at[r] = "auth" /\ Fetched(r) /\ row[Auth(r)].status = 1 /\ ~row[Auth(r)].deleted
  \/ Acting(r)
  => {"active", "stale"} \cap watch[r] # {}

\* Whether its commit changed the table, and what its call can then answer.
Past(r) == pc[Act(r)] \in {"drop", "stamp", "bump"} \/ (pc[Act(r)] = "done" /\ resp[Act(r)] = 200)
Ledger(r) ==
  /\ "wrote" \in watch[r] => Past(r) \/ (pc[Act(r)] = "done" /\ resp[Act(r)] = 500)
  /\ Past(r) /\ ask[r].op \in {"register", "create", "delete", "restore"} => "wrote" \in watch[r]

Kept(r) == CallsFit(r) /\ Grounds(r) /\ Ledger(r) /\ AnswerHolds(r)
IInv == Service!IInv /\ TypeOK /\ Poised /\ \A r \in Requests : Kept(r)

\* Whoever is received is replied to: both calls of a request come to an end, its
\* waits for a connection, for a row another request holds and for an email
\* another one is about to take included.
AllReplied == \A r \in Requests : (at[r] # "idle") ~> (at[r] = "replied")

=============================================================================
