# Verification of the Rustom API

Rustom is an HTTP API in Rust (Axum, SQLx, Redis, RabbitMQ) that keeps user
accounts: registration, login, and the management of accounts by their owners
and by admins. This directory holds TLA+ models of it, the TLC runs that check
them on small instances, and TLAPS proofs of what holds for all instances.
Paths below are relative to the repository; `PROJECT.json` maps every
definition that models code to its lines.

## 1. The system

### Components, their state, their operations

| component | state | operations | where |
|---|---|---|---|
| user service | table `users` (PostgreSQL); cached profiles and index pages (Redis) | register, create, update, restore, soft delete, get, index, login | `src/services/user.rs` |
| validations | none; queries the table | presence, length, syntax and uniqueness of the email | `src/validations/` |
| cache service | Redis keys with a time-to-live | get, set, delete, incr_with_ttl (Lua) | `src/services/cache.rs` |
| rate limit | one counter per endpoint and email | count an attempt, refuse above API_RATE_LIMIT | `sessions_controller.rs`, `registration_controller.rs` |
| extractor | none; the token carries id, role, status, expiry | decode the token, fetch the account, test its status | `src/middleware/auth.rs` |
| controllers, policies | none | ten routes; permission by the token's role | `src/controllers/api/v1/`, `src/policies/` |
| pagination | none | page, offset, validate | `src/utils/pagination.rs` |
| job queue | a durable RabbitMQ queue | publish with confirmation; consume, do, ack or reject | `src/services/queue.rs` |
| outer layers | none | payload encryption, then the gateway key | `src/middleware/` |
| start-up | table `users` | migrate, seed an empty table, connect, bind | `src/main.rs`, `src/infrastructure/` |
| RabbitMQ connection | one channel per process | connect, declare the queue, confirm mode | `src/infrastructure/rabbitmq.rs` |
| the rest | none | configuration, errors, JSON extraction, Slack messages, docs, CORS | |

### How they interact

A request to `/api` passes the encryption layer and the gateway key, and then

- a *public* route counts the attempt in Redis and calls the service (`login`,
  `register`);
- any other route runs the extractor, which itself calls the service
  (`get_user`, through the cached profile), then the policy on the token's
  claims, then the service again.

The service reads and writes PostgreSQL through a pool of ten connections. Its
writers commit first; then they delete the cached profile and store the present
second as the version of the index. Its readers fill both caches after reading
the table. All of this is asynchronous: at every `await` other requests run,
and a client that goes away has its handler dropped at an `await`.

Each process opens one RabbitMQ channel at its start and hands it to two users:
the consumer, a task of its own that is spawned before the port is bound, and
the publisher in the state of the router. No route publishes a job yet.

### What is hard in it

- *Interleaving.* Check-then-act on emails across two connections; writers
  that read, lock and write the same row; fills that race with deletions of the
  same cache entry; versions of one second.
- *Partial failure.* What follows a commit (invalidation) may fail or never
  run, and its errors are dropped on purpose; a commit may take effect although
  its caller was told otherwise.
- *Stale knowledge.* Cached profiles decide who is admitted; tokens keep the
  role of the login.
- *Bounded resources and time.* Ten connections under waits for row locks and
  emails; rate-limit windows; time-to-live and token expiry.
- *Redelivery and loss.* A job is acknowledged after its work; its channel may
  close, its process end, the broker forget it, at any point between.
- *Starting together.* Instances count, seed and serve one table, and statements
  that fail on the way are passed over.
- *Numbers.* Offsets are `u32`, page counts go through `f32`; cache keys are
  joined from what users send.

`PROJECT.json` lists these hazards at their lines, with the properties that
answer to them or the reason none does.

## 2. The modules

| module | models |
|---|---|
| `UserRows` | a row, what the SQL statements make of it |
| `UserTable` | abstract specification: the table and its requests, each applied in one step |
| `UserIndex` | a query of the index: its rows, its page, its numbers, its cache key |
| `UserService` | the service, await by await |
| `AttemptCounter` | one rate-limit counter |
| `RateLimiter` | attempts on such counters, in time |
| `Api` | routes, extractor, login and outer layers over the service (composition) |
| `JobKinds` | the parties of the job queue and the kinds of jobs |
| `JobPromise` | abstract specification: what becomes of a job |
| `JobQueue` | publisher, broker, channels and workers, with their faults |
| `Startup` | instances that migrate, seed, connect and bind |
| `Deployment` | start-up and job queue together (composition) |
| `MC*` | instances for TLC |
| `*Proofs` | theorems |

### UserRows, UserTable

`Row` keeps email, role, status and whether `deleted_at` is set. `Updated` is
the `COALESCE`/`CASE` statement of `update_user`; the request field
`deleted_at` is an `Option<Option<..>>`, hence `DeletedAt` has three values.
Roles and statuses are 0 and 1 as in `config/data/*.yml`. `UserTable` is what a
client would like to believe of the requests that write. Each has asked for one
thing (`asked`) and has one fate (`fate`): it is *applied*, in one step that
makes of the row as it is then exactly what was asked (`Insert`, `Update`,
`Restore`, `SoftDelete`); it is refused, *absent* or *invalid*, and never
applied, 404 only if the table says so at that moment; or it fails, before it
was applied or after, and is *unsure*. Emails are unique across deleted rows too,
and a deleted account accepts nothing but what brings it back.

### UserIndex

Operators only. `Matching` is the `WHERE` both statements are built with,
`Rank`, `Offset` and `OnPage` are `ORDER BY`, `LIMIT` and `OFFSET`. What a filter
word matches (a part of an email, of a role's name, a UUID) is the constant
`Like`. `Key` is the cache key without the version: a word of a filter is the
sequence of what `/` separates in it, an absent one is `all`, and the segments
are joined. `order` goes into the key as it was sent and is joined like the
filters (absent, it is `desc`), though the statement only asks whether it is
`asc`. So the model has the confusions the code has, and `Confused` names them.
`TotalCount` wraps, and `Offset` wraps at `2^Width` as `u32` does in a release build;
`Rounded` is a division of floats with `Significand` bits, ties to even, which
is how `f32` gets the number of pages. `Ideal` is the page in arithmetic without
bounds, and `Exact` says where the code's numbers are those.

### UserService

One process of `Procs` is one call of the service; a step is the code from one
`await` to the next. `pc` names the await it stands at:

| step | code |
|---|---|
| `ValidateCall` | `validate_password`, `validate_user_create/update` with their EXISTS query |
| `Begin`, `LockRow` | `db.begin()`, `SELECT .. FOR UPDATE` and the early returns after it |
| `Insert`, `UpdateRow`, `RestoreRow`, `DeleteRow` | the statement of the transaction |
| `Commit` | `tx.commit()` |
| `DropProfile`, `Stamp`, `Bump` | deletion of the profile, `Utc::now().timestamp()`, storing the version |
| `Lookup`, `Read`, `Fill` | `get_user` |
| `ReadVersion`, `LookupPage`, `CountRows`, `SelectRows`, `FillPage` | `get_users_paginated` |
| `Abort` | a failed statement, a dropped future, a killed process |
| `ExpireProfile`, `ExpirePage`, `Tick` | Redis' time-to-live, the clock |

`lock` is PostgreSQL's row lock, or the claim to the id of a row being
inserted. `EmailBusy` is its behaviour on unique indexes: a statement that meets
a key of an open transaction waits for it. A transaction occupies a connection
from `Begin` to its end; single queries need one for the moment they run. With
`CacheFaults` any call to Redis may fail; a failure after the effect is the
effect, as the callers do the same in both cases. `Abort` answers 500 and rolls
back; an effect whose caller was cut off is that step followed by `Abort`.

### AttemptCounter, RateLimiter

`Counted` is the Lua script, `Older` a tick of its time-to-live, of which
`Window` make the 60 seconds. Beside the counter, `life` tallies what the
present counter admitted, and `recent[k][a]` what counters admitted in this tick
and the `a` before it, so that its last entry is the span of one window. An
attempt Redis could not count is let through (`if let
Ok(count)`); it is in neither tally, since no counter answers for it, but it
may have been counted all the same.

### Api

A request is received, possibly counted, authenticated, checked by the policy
and acts: `at` says where it stands, `token` under which claims. It calls the
service up to twice, so it owns two processes of an `INSTANCE` of `UserService`
(`Auth(r)`, `Act(r)`), started by the controllers' steps with `Service!Start`
and run by `Service!Handle`. `CallOf` is the call a controller makes, after
stripping role, status and deleted_at from what a non-admin sent. `issued`
holds the claims of every token given out, with its expiry. `watch` is a
history variable: what was true of the account of a request at any moment from
its arrival until it was admitted or turned away, and whether its commit changed
the table.

Around every route lie the two layers of `routes.rs`. `Garbled` is a body that
payload encryption refuses before anything else happens; `KeyRefused` is the
gateway key. `Reply` is the way out: with encryption on and a key that does not
parse (`sealing = "broken"`), an answer with a body becomes a 500, after whatever
the handler has committed.

### JobPromise, JobQueue

`told` is what the caller of `publish_job` knows of a job, `queue` and `holder`
where the broker has it, `inbox` what the delivery stream of a worker still
holds, `work` the job it has run and not settled. One action per step of the
worker's loop: `RejectGarbled`, `Run` (`process_job`) and `Settle`, between which
everything else may happen. `Close`, `Crash` and `BrokerRestart` are the faults.
After a lost channel the broker puts back what was out on it, the publisher's
callers get errors, and the worker goes on with what its stream holds (unless the
library drops it, `Discard`) and then stands still: nothing opens another
channel. `JobPromise` has a job new, pending, and then done, refused or lost,
and lets it be run again.

### Startup, Deployment

An instance goes through the awaits of `main` and `init_db`: `migrate`, `count`,
`seed`, `insert`, `connect`, `bind`, `serve`. The seed is two steps, the snapshot
its `NOT EXISTS` sees and the insertion that meets the unique index. `unsure`
are the instances that overlooked a failed count or seed (`if let Ok`, `let _`).
Of the table only the emails in use are kept, and of them whether one is the
seed's; `first` remembers what made the first account. Anybody may register
with an instance that serves, on an empty table too and under the email of the
seed while that is free (`Register`). `Deployment` puts this and the queue together: `Connect` opens the
channel and starts the worker, `Exit` takes both along, `Publish` needs an
instance that serves.

## 3. The runs

| run | question | instance | states |
|---|---|---|---|
| `table` | Are writes isolated, emails unique, deletions acknowledged once? Does the service implement `UserTable`? | 3 requests out of 12 kinds of write, 3 ids, an email in two spellings, aborts | 134,807 |
| `profile` | Can a cached profile be stale other than by the two known races, does it heal, is everybody answered? | 3 requests on one account and one new one, **two** connections, Redis faults, aborts, fairness | 138,230 |
| `index` | Is the page the current version leads to the one the table and the query make? | 3 requests, 7 queries, 3 ids, 3 seconds, numbers of 2 bits, no faults | 368,882 |
| `limiter` | Does a counter keep its limit, what does that mean for a span, do locks end? | 2 keys, limit 2, window of 3 ticks, Redis faults, fairness | 4,489 |
| `rights` | Does an account only change by right? Are answers true? | 2 requests out of 11 kinds, admin and user tokens, gateway key, encryption that works or not, faults, aborts | 502,062 |
| `suspension` | Is only a request admitted whose account was active, or cached stale? | 3 requests: suspend or delete, an account that may be one's own; tokens that expire, Redis faults | 878,632 |
| `sessions` | Log in, register and update, by an old token or a new one: does what a request did fit together, and is everybody replied to? | 3 requests, **two** connections, limit 1, fairness | 57,519 |
| `deployment` | Is the admin seeded once, and first, is no job skipped, do jobs settle? | 2 instances, 1 job of any of 3 kinds, 1 fault, any number of exits before the connection, fairness | 179,582 |
| `duplicate` | *violation:* an email in use is a 422 | | |
| `limiter_span` | *violation:* limit per 60 seconds | | |
| `suspension_db` | *violation:* accounts are verified against the database | | |
| `demoted` | *violation:* admin-only routes | | |

### What the passing runs show

- `UniqueEmails`, `IInv`: between the validations and the constraint two
  requests may hold the same hope for one email; the table never does.
- `ImplementsTable`: a request answered with success was applied once, at its
  commit, to the row *as it is then*. What others committed since it looked is
  kept: an update writes the fields it names and no other, so none is lost
  between `SELECT` and `COMMIT` (without `FOR UPDATE` the run fails). A 404 was
  true when it was decided, a refusal changed nothing, a failure at any await
  leaves the request applied as a whole or not at all.
- `DeletedOnce`: two 204s for one account have a revival between them.
- `ProfileStaleOnlyByRace`: exactly two ways lead to a stale profile that
  nobody is about to delete: the late fill of a `get_user` that read before the
  commit, and a deletion that failed or was never sent. `ProfileHeals`: both
  last no longer than the time-to-live.
- `IndexFresh`: without faults the page found under the current version is the
  ideal one, rows and numbers, for every query. It is not while a writer has not
  announced itself, when two writers announced the same second, when a word is
  spelled `all`, `desc` or with a `/` so that another query has its key, or when
  the offset or the count does not fit its type. The run meets all of these but
  the count, for which see the bounds.
- `LimitPerCounter`, `TwiceLimitPerSpan`: a counter admits at most the limit;
  since a span of one window meets two counters, at most twice the limit falls
  in it. `LocksEnd`: attempts do not prolong a lock.
- `OnlyByRight`: whatever happens between the policy check and the commit,
  non-admins only ever change the email (and name, password) of their own live
  account. "Admin" here is the token's word; `demoted` shows the difference.
- `AdmittedOnGrounds`: the only way past the extractor for an account that was
  never active meanwhile is a profile that was stale meanwhile.
- `AnswersHold`: a 4xx changed nothing, a 200 or 204 for a creation, deletion or
  restore changed the table; whatever commits and then fails, is cut off, or
  cannot be encrypted is answered 500, never with a refusal.
- `SeededOnce`: the unique index makes the race of several seeds harmless, and
  the loser finds the winner's row. The exception: the account of the seed may
  give its email up while another instance is between its snapshot and its
  insertion.
- `AdminFirst`: no registration is ever ahead of the seed, although instances
  that serve and instances that start share the table: the first account is the
  admin of the seed, and it is there before an instance serves. Not so if an
  instance overlooked a failed count or seed: it serves an empty table, the first
  account may be registered through it, and since `COUNT(*)` is then not 0 no
  start seeds an admin any more.
- `NothingSkipped`, `RunsExplained`, `KeepsPromise`: what was accepted is run, or
  is still with the broker, or was lost with the broker's memory; a job is run
  again only after a fault, once more for each; a failed job is not taken up
  again.
- `JobsSettle`: a job in the queue is settled or lost, as long as some instance
  has an open channel. The condition is needed: a channel that was lost under a
  process that lives is not opened again.
- `AllAnswered`, `AllReplied`: two transactions are open at once, so a statement
  waits for a row or an email the other holds, keeping its connection, while a
  third request waits for the pool, its first or (behind the extractor) its
  second time. The waits do not form a circle: a transaction takes nothing from
  the pool, and takes one row and then one email. If it asked the pool again for
  its statement, both runs would end with nobody answered.

### What the violations show

They check what comments and tests of the repository say; `PROJECT.json`
quotes them under "findings".

1. `duplicate`: registering the email of a *deleted* account (or the same new
   one twice at once) passes the validation and fails on the constraint: 500,
   where the validation's "has already been taken" is a 422.
2. `limiter_span`: fixed windows let twice the limit through in 60 seconds.
3. `suspension_db`: a late fill keeps a deleted account admitted, from the
   cache, after its deletion was answered.
4. `demoted`: a demoted admin passes admin-only routes until the token expires.

### Bounds, and why they are enough

- A behaviour has a fixed number of one-shot requests (`Procs`, `Requests`:
  2 to 4). Each hazard above needs at most a reader and two writers, or a writer
  and two requests of the account. As they stop when all are answered and the
  clock stands at `MaxNow`, these runs set `CHECK_DEADLOCK FALSE`. That nobody
  is stuck before is what `AllAnswered` and `AllReplied` check. `RateLimiter`
  runs for ever and is checked for deadlock.
- The clock begins at 1 and ends at `MaxNow`: it stands still where no decision
  looks at it, ends at 3 in `index` (before, at and after a shared second) and at
  2 in `suspension` (before and after the expiry of the tokens).
  The horizon is thus below the 24 hours after which the version key itself
  expires, which is not modelled.
- `Over` and `Spanned` cap the counter and the tallies just above the values
  properties tell apart; the theorems show that the tallies never reach the cap.
  Limit 2 and Window 3 make a counter that is full before its end and two
  counters in a span.
- `PoolSize` is 2 for three requests where waiting is the question: enough for
  one transaction to wait for the other, and few enough for a third request to
  wait for both. It is the number of requests where waiting is not the
  question. The real 10 lies between.
- The index has seven queries over three accounts: everybody (with the order
  sent as `false/desc`, which sorts like `desc`), nobody (whose UUID `all/false`
  makes the same key), a filter that matches some, deleted rows with size 0,
  second and third pages. `Width` and `Significand` stand for 32 and 24: 2 bits
  already make the third page wrap, and in `MCApi` an assumption evaluates
  `TotalPages` for every count and size up to `2^Significand` against plain
  arithmetic, which `TotalPagesIsExact` proves for all widths. It is false one row further, which is
  16,777,217 rows of the real type.
- Creation times are distinct (`BornAssumption`): with ties PostgreSQL may return
  rows in any order.
- In `deployment`, `MaxJobs`, `MaxFaults` and `MaxRenames` are 1: one job of any
  kind against one fault, on either of two instances, is every race between a
  delivery, its settlement, and the loss of its channel. `ran` and the number of
  seeds need no bound. The safety properties are proved for any number of each.
  Several jobs in one stream are beyond the run, since TLC does not finish the
  liveness check for two jobs and two instances: what they may do to each other
  is answered by the proofs, but for `JobsSettle`.
- Symmetry over requests is used in runs of safety properties only.

### Fairness

`WF(Handle(p))` of a call, `WF(Future(r))` of a request: Tokio polls every future
that can make progress and PostgreSQL grants free locks and connections. Per
request and weak: nothing is promised to a request that can only sometimes proceed;
with one-shot requests, what a waiting one needs is in the end free for good.
`WF(ExpireProfile)`, `WF(ExpirePage)`: entries are stored with SETEX.
`WF(Tick)` in `RateLimiter`: time passes. Nothing is assumed of clients
(`Arrive`, `Receive`), of faults, or of `Abort`.

In `Deployment`, `WF(ComingUp(i))`: `docker-compose.yml` has `restart:
unless-stopped`, so a process that ended begins again and goes on to bind;
`WF(Work(i))`: the executor polls the worker; `WF(Broker)`: RabbitMQ enqueues,
delivers and confirms. No fairness is assumed of exits, requests or faults.

### Mutants

Every property of a passing run has a mutant in `PROJECT.json`: a plausible bug
(no FOR UPDATE, a statement run outside the transaction, a partial unique
index, EXPIRE on every increment, a dropped status test, ..) under which the
run fails on that property. The "faulty variant" operators in the modules are
their bodies; no specification uses them.

## 4. The proofs

Checked by TLAPS for every value of the constants, under the named assumptions
of the modules: finite `Users` and `Instances`, a `Seed` whose emails differ,
tokens of accounts that were active when they got them, calls that carry what
their operation needs, positive bounds, distinct creation times, and a `None`
apart from all values.

- **`UserServiceProofs`.** `Inductive`: `Spec => []IInv` with
  `IInv == TypeOK /\ OnPath /\ Isolation`. `UniqueEmails` alone is not
  inductive: a commit keeps it only if what it is about to make visible fits
  the table *now*. `PendingEmailsDiffer` says so for emails, against the table
  and against the other open transactions; `PendingFits` says that the pending
  row is the request applied to the present row; `LockDiscipline` and
  `LockedRowFits` carry that from the checks under `FOR UPDATE` to the
  statement. Steps that touch neither table, locks nor pending rows fall under
  one lemma (`QuietStep`); transactions end (`ReleaseStep`), write
  (`WriteStep`) or commit (`CommitStep`). From it follow `TypeCorrect`,
  `EmailsStayUnique`, and the refinement `ServiceImplementsTable`. A request's
  `fate` is read off where it stands. Its arrival is `Ask`; its commit is
  `Insert`, `Update`, `Restore` or `SoftDelete` of what it asked, where
  `PendingFits` is what makes the pending row that of the request and of the row
  as it is now; an early return is `NotFound` or `Refuse`, with the locked row as
  its reason; an abort is `Fail`; all other steps stutter.

  `StaleOnlyByRace`: of a step that leaves a profile stale with no deletion
  underway, `StepLeavesFresh` goes through the ways it can: a fill, whose row
  must be an old one; a commit, whose writer then stands before its deletion; a
  deletion, which takes the entry away unless it is lost. What it needs beside
  `IInv` is `Known`: the cache holds nothing of an account without a row, so an
  insertion makes no entry stale, although nobody deletes one for it.

  `DeletionsAreOnce` counts requests, so its invariant `Ledger` is an account
  book: for each account (`Balanced`), as many deletions committed as events
  that brought it back, but for one more while its row is deleted. The property
  alone is not inductive, as it does not know which of the two the row is.
  `CommitBalance` enters a commit on the side of what it did to the row;
  `QuietBalance` says that nothing else enters anything, and that an aborted call that
  had brought an account back keeps its entry.
- **`UserIndexProofs`.** `KeyTellsApart`: of queries whose filter words are
  neither `all` nor contain a `/`, and whose order contains none, two share a key
  only if all that decides their answer is equal. Each word is then one segment,
  so every part of the key stands at its own place and can be cut out of it
  (`SameParts`). `PageIsIdeal`: while the offset does not wrap,
  `LIMIT` and `OFFSET` put on the page the rows whose rank, divided by the size,
  is the number of the page; hence every row is on one page only.

  `TotalPagesIsExact`: the quotient of two floats, rounded up, is the number of
  pages, for every count of up to `2^Significand` rows and every page size, one
  that is not a float itself included. A quotient of whole numbers is at least
  `1/b` off the next integer, and rounding moves it by half a unit in the last
  place, which is less (`CeilingIsExact`); integers that are floats stay what
  they are (`SmallIsExact`). This rests on the powers of two, of which the
  prover only knows the notation: `2^n` is the number of subsets of `n` things
  (`PowerCounts`), so it doubles with `n` (`PowerDoubles`, by a bijection), and
  induction is over a *set* of numbers (`CountingUp`, from the least element of
  what is missing), for which no operator has to be instantiated.

  `IndexIsFresh` assumes neither faults nor aborts, as the property does. Its
  invariant `Fresh` adds to each page and to each reader on its way to one what
  entitles it to its version. `Right`: it shows and counts the rows as they are.
  `Excused`: its version is not the one readers get, a writer is still to
  announce itself, or two took one second. `Used`: every version that has a page
  or a reader was announced, by a writer that is done; so whoever announces a
  version that is in use shares its second with that writer, and whoever
  announces another starts without pages. `FreshCommit` excuses everything,
  `FreshBump` is the step where the excuse ends, `FreshFillPage` needs that
  queries with one key ask the same unless they are confused (`SharedPage`, from
  `KeyTellsApart` and `SameFiltersSameKey`). What is right is ideal by
  `AnswerIsIdeal`. The theorem is about behaviours shorter than the 24 hours of
  the version key, whose expiry the model leaves out.
- **`AttemptCounterProofs`, `RateLimiterProofs`.** `Inductive`: what a counter
  has admitted it has counted (`Accounted`), and none of it past the limit,
  from which `LimitHolds`. The link between `life` and the counter's value is
  the strengthening: the limit alone says nothing of the next attempt.
  `SpanHolds` needs more than a sum of tallies: `Meets` says that what the window
  holds from before the present counter is at most one other counter's limit, and
  that between two counters nothing has been admitted yet in this tick. A window
  is as long as a counter lives, so by the time a third could begin, the first
  has left it.
- **`ApiProofs`.** `ApiImplementsService`: each step of the API is a step of
  `Service` or a stutter, because the calls it makes are of `Calls` (`Poised`,
  `CallsAreCalls`). `IsolatedBehindApi` then transfers the service's inductive
  invariant: the service inside `Api` and the one the proofs are about are two
  instances of one module, and a chain of lemmas (`SameReads` to `SameService`)
  shows each action of the one to be that action of the other.
  `CachesBehindApi` transfers `DeletedOnce`, `IndexFresh` and
  `ProfileStaleOnlyByRace` the same way.
  `ApiInductive` adds what every request keeps. `CallsFit`: its two calls are
  those its ask and its token make, and the second is made only for what the
  token permits. `Grounds`: a fetched active account was active in the table or
  stale in the cache; without the fetched stages the step that admits would have
  nothing to rest on. `Ledger`: the commit has changed the table exactly if the
  call is past it, and from there it ends with 200 or 500. From these follow
  `ApiTypeCorrect`, `GroundsToAdmit`, `AnswersAreTrue`, and, as only commits
  change the table, `RightsHold`: a commit writes its call applied to the
  present row (`PendingFits` of the service), and the call is what the token
  permitted (`CallsFit`).
- **`JobQueueProofs`.** `Inductive` with four parts. `Custody`: a job is out on
  exactly one open channel, and the worker of that channel has it once.
  `Traces`: what a job's place says was done to it. `RunsAccounted`: the runs a
  job had, the streams that hold it and whether it is available come to at most
  one more than the faults; `RunsExplained` alone is not inductive, since it
  says nothing of copies left in the stream of a closed channel. From it,
  `NoneSkipped`, `RunsBounded` and the refinement `QueueKeepsPromise`.
- **`StartupProofs`.** `SeedsOnce` needs `RoomForSeed` (while the seed's email
  is free, no more seeds than renames). `AdminComesFirst` needs `FirstOfAny`
  (there is a first account exactly if there is any) and `Migrated`: an instance
  that serves and overlooked nothing found an account, so a registration through
  it is not the first.
- **`DeploymentProofs`.** The deployment implements both parts
  (`DeploymentStartsUp`, `DeploymentQueues`), so their theorems hold of it, and
  `Inductive` adds the link between channel and stage.

Every safety and action property of the passing runs has a theorem.
Model-checked only are the liveness properties (`AllAnswered`, `AllReplied`,
`ProfileHeals`, `LocksEnd`, `JobsSettle`), since fairness and ENABLED are beyond
TLAPS 1.4.5.
`ImplementsService`, `ImplementsStartup` and `ImplementsQueue` are proved and in
no run's configuration: they hold by how the parts are put together.

## 5. What is not modelled

- Parsing: bodies, paths and query strings that do not parse, the syntax of
  emails and passwords (`WellFormed`, `strong`), messages of errors.
- The columns name, password_digest, updated_at: written by the same
  statements, read by no decision. Of created_at, only the order.
- Argon2, JWT signatures, AES-GCM: libraries. A token that was never given out
  is refused; a token sent encrypted yields the same token or is ignored.
- Inside one SQL statement: an UPDATE is one step, so two updates that exchange
  emails are ordered here, where PostgreSQL may see a deadlock and fail one.
  The outcomes are the same.
- A second publication of a job by a caller that was told an error: no code
  publishes jobs, so nothing says whether one would.
- What becomes of the admins later. `COUNT(*)` counts every row: a table whose
  accounts are all deleted, or of which none is an admin, is not seeded again.
  Nothing in the code keeps a last admin, so no property asks for it.
- The time-to-live of the index version (24 hours) and of pages of an hour:
  the horizon of the runs is shorter than the first, and the second only removes
  pages (`ExpirePage`).
- Slack messages, docs, CORS, tracing, configuration: no state.

## 6. Plan

Of the first plan (job queue, pagination, outer layers, start-up, theorems
about the API) everything is done. What would add most from here:

1. `UPDATE` as two steps, row and index entry, with PostgreSQL's detection of
   deadlocks as an action, for the exchange of two emails.
2. A day's horizon, in which the version key expires and readers fall back to
   version 0.
