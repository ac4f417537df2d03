------------------------------- MODULE Startup -------------------------------
(***************************************************************************)
(* How instances of the program come up, main.rs and init_db, over one     *)
(* PostgreSQL: migrate, count the users, seed the table when there are     *)
(* none, connect to RabbitMQ and start the worker, bind the port, serve.   *)
(* Nothing orders the instances but the lock of the migrations and the     *)
(* unique index on emails.  Of the table, the state keeps which of two     *)
(* kinds of emails are in use, the one the seed inserts and others, and    *)
(* what put the first account there.                                       *)
(***************************************************************************)
EXTENDS Naturals

CONSTANTS
  Instances,
  MaxRenames   \* bound: how often the account with the seed's email gives it up

VARIABLES
  stage,     \* what each instance is about to do
  schema,    \* whether the migrations are applied
  emails,    \* the emails in use, of deleted rows too, each "seed" or "other"
  unsure,    \* the instances that could not count the users, or not seed
  seeds,     \* how many rows the seed inserted
  renames,   \* how often the seed's email became free
  first      \* what made the first account: the seed, a registration through an
             \* instance that overlooked a failure, or through another one

vars == <<stage, schema, emails, unsure, seeds, renames, first>>
table == <<schema, emails, seeds, renames, first>>

Stages == {"off", "migrate", "count", "seed", "insert", "connect", "bind", "serve"}

Init ==
  /\ stage = [i \in Instances |-> "off"]
  /\ schema = FALSE
  /\ emails = {}
  /\ unsure = {}
  /\ seeds = 0
  /\ renames = 0
  /\ first = "nobody"

Goto(i, s) == stage' = [stage EXCEPT ![i] = s]

-----------------------------------------------------------------------------

\* The process starts, reads its configuration and opens the pool.
Begin(i) ==
  /\ stage[i] = "off"
  /\ Goto(i, "migrate")
  /\ unsure' = unsure \ {i}
  /\ UNCHANGED table

\* sqlx migrates in a transaction, under a lock it takes in the database.
Migrate(i) ==
  /\ stage[i] = "migrate"
  /\ schema' = TRUE
  /\ Goto(i, "count")
  /\ UNCHANGED <<emails, unsure, seeds, renames, first>>

\* A statement fails; init_db goes on as if it were nothing.
Overlooked(i) == /\ Goto(i, "connect")
                 /\ unsure' = unsure \cup {i}
                 /\ UNCHANGED table

\* Faulty variant: the seed is spawned, not awaited.
CountAndGoOn(i) ==
  /\ stage[i] = "count"
  /\ Goto(i, "connect")
  /\ UNCHANGED <<table, unsure>>

Count(i) ==
  /\ stage[i] = "count"
  /\ \/ /\ Goto(i, IF emails = {} THEN "seed" ELSE "connect")
        /\ UNCHANGED <<table, unsure>>
     \/ Overlooked(i)

\* INSERT .. SELECT .. WHERE NOT EXISTS: what the statement sees of the table is
\* settled when it begins.
Snapshot(i) ==
  /\ stage[i] = "seed"
  /\ Goto(i, IF emails = {} THEN "insert" ELSE "connect")
  /\ UNCHANGED <<table, unsure>>

\* The row of the seed goes into the table.
Seeded == /\ emails' = emails \cup {"seed"} /\ seeds' = seeds + 1
          /\ first' = IF emails = {} THEN "seed" ELSE first

\* Faulty variant: a seed without the unique index.
InsertAnyway(i) ==
  /\ stage[i] = "insert"
  /\ Seeded
  /\ Goto(i, "connect")
  /\ UNCHANGED <<schema, unsure, renames>>

\* The row goes in, or meets the unique index, or fails otherwise; the first
\* two are told apart by a warning only.
Insert(i) ==
  /\ stage[i] = "insert"
  /\ \/ /\ IF "seed" \in emails THEN UNCHANGED <<emails, seeds, first>> ELSE Seeded
        /\ Goto(i, "connect")
        /\ UNCHANGED <<schema, unsure, renames>>
     \/ Overlooked(i)

\* init_rabbitmq, start_queue_consumer
Connect(i) ==
  /\ stage[i] = "connect"
  /\ Goto(i, "bind")
  /\ UNCHANGED <<table, unsure>>

\* TcpListener::bind and axum::serve
Bind(i) ==
  /\ stage[i] = "bind"
  /\ Goto(i, "serve")
  /\ UNCHANGED <<table, unsure>>

\* Whatever fails makes main return, at any stage; a process may be killed too.
Exit(i) ==
  /\ stage[i] # "off"
  /\ Goto(i, "off")
  /\ UNCHANGED <<table, unsure>>

\* Requests of an instance that serves, as UserTable has them: rows are never
\* removed.  Anybody may register, under the email of the seed too while it is
\* free and even as the first; an account may take that email or give it up.
Register(i, e) ==
  /\ e = "seed" => "seed" \notin emails
  /\ emails' = emails \cup {e}
  /\ first' = IF emails # {} THEN first ELSE IF i \in unsure THEN "oversight" ELSE "race"
  /\ UNCHANGED renames

TakeSeedsEmail ==
  /\ "seed" \notin emails /\ emails # {}
  /\ emails' \in {{"seed"}, {"seed", "other"}}
  /\ UNCHANGED <<renames, first>>

GiveSeedsEmailUp ==
  /\ "seed" \in emails /\ renames < MaxRenames
  /\ emails' = (emails \ {"seed"}) \cup {"other"}
  /\ renames' = renames + 1
  /\ UNCHANGED first

Request(i) ==
  /\ stage[i] = "serve"
  /\ (\E e \in {"seed", "other"} : Register(i, e)) \/ TakeSeedsEmail \/ GiveSeedsEmailUp
  /\ UNCHANGED <<stage, schema, unsure, seeds>>

\* Up to the connection to RabbitMQ.
InitDb(i) == Begin(i) \/ Migrate(i) \/ Count(i) \/ Snapshot(i) \/ Insert(i)
Next == \E i \in Instances : InitDb(i) \/ Connect(i) \/ Bind(i) \/ Exit(i) \/ Request(i)

Spec == Init /\ [][Next]_vars

-----------------------------------------------------------------------------
(* Correctness. *)

\* Every variable holds what its comment says.
TypeOK ==
  /\ stage \in [Instances -> Stages]
  /\ schema \in BOOLEAN
  /\ emails \in SUBSET {"seed", "other"}
  /\ unsure \in SUBSET Instances
  /\ seeds \in Nat /\ renames \in Nat
  /\ first \in {"nobody", "seed", "oversight", "race"}

\* The unique index holds back every seed but those a rename made room for.
RoomForSeed == "seed" \notin emails => seeds <= renames

\* The admin account is seeded once, however many instances come up together
\* and however often: again only after the account of the seed gave up its email
\* to a change made while another instance was about to insert.
SeededOnce == seeds <= 1 + renames

\* The seed's admin is the first account: no registration gets in before it, and
\* an instance that is past init_db finds it was made, by itself or by the one
\* that won the race.  The exception is an instance that overlooked a failure:
\* the first account may be registered through it, and is no admin then.
\* Nothing is said of what becomes of the admin's account later.
AdminFirst ==
  /\ first # "race"
  /\ \A i \in Instances : stage[i] \in {"connect", "bind", "serve"} /\ i \notin unsure =>
       schema /\ first # "nobody"

\* The table has a first account when it has any.
FirstOfAny == first = "nobody" <=> emails = {}

\* From the count on, the table exists.
Migrated == \A i \in Instances : stage[i] \notin {"off", "migrate"} => schema

\* The inductive invariant of the start-up.
IInv == TypeOK /\ RoomForSeed /\ SeededOnce /\ Migrated /\ FirstOfAny /\ AdminFirst
=============================================================================
