----------------------------- MODULE Deployment -----------------------------
(***************************************************************************)
(* Instances of the program over one PostgreSQL and one RabbitMQ: the      *)
(* start-up of Startup and the job queue of JobQueue.  The worker starts   *)
(* before the port is bound and goes with its process; jobs are published  *)
(* by handlers, so only by an instance that serves; Docker restarts what   *)
(* ended.  A worker whose channel was lost is nobody's to restart.         *)
(***************************************************************************)
EXTENDS JobKinds

CONSTANT MaxRenames   \* bound: how often the account with the seed's email gives it up

VARIABLES
  stage, schema, emails, unsure, seeds, renames, first,
  channel, told, via, queue, holder, inbox, work, ran, faults

boot == <<stage, schema, emails, unsure, seeds, renames, first>>
jobs == <<channel, told, via, queue, holder, inbox, work, ran, faults>>
vars == <<stage, schema, emails, unsure, seeds, renames, first,
          channel, told, via, queue, holder, inbox, work, ran, faults>>

Boot == INSTANCE Startup
Queue == INSTANCE JobQueue

Init == Boot!Init /\ Queue!Init

\* Up to the connection, and requests: none of them touches the queue.
Prepare(i) == Boot!InitDb(i) /\ UNCHANGED jobs
Request(i) == Boot!Request(i) /\ UNCHANGED jobs

\* The channel opens and the worker starts.
Connect(i) == Boot!Connect(i) /\ Queue!Open(i)

Bind(i) == Boot!Bind(i) /\ UNCHANGED jobs

\* Before the connection an exit is main's alone; after it, it takes the worker
\* along, what it holds and the channel.
Exit(i) == Boot!Exit(i) /\ IF channel[i] = "off" THEN UNCHANGED jobs ELSE Queue!Crash(i)

Publish(i) == /\ stage[i] = "serve"
              /\ \E j \in Jobs : Queue!Publish(i, j)
              /\ UNCHANGED boot

Work(i) == Queue!Worker(i) /\ UNCHANGED boot
Broker == Queue!Broker /\ UNCHANGED boot
Faulty == Queue!Faulty /\ UNCHANGED boot

ComingUp(i) == Prepare(i) \/ Connect(i) \/ Bind(i)

Next == \/ \E i \in Instances : ComingUp(i) \/ Request(i) \/ Exit(i) \/ Publish(i) \/ Work(i)
        \/ Broker
        \/ Faulty

Spec == Init /\ [][Next]_vars

\* `restart: unless-stopped`, the executor polls the worker, the broker delivers
\* and confirms.  Nothing is assumed of faults, exits or requests.
FairSpec ==
  /\ Spec
  /\ \A i \in Instances : WF_vars(ComingUp(i)) /\ WF_vars(Work(i))
  /\ WF_vars(Broker)

-----------------------------------------------------------------------------
(* Correctness. *)

\* A process has a channel exactly from its connection on.
ChannelWithProcess ==
  \A i \in Instances : channel[i] = "off" <=> stage[i] \notin {"bind", "serve"}

\* The inductive invariants of both parts and what links them.
IInv == Boot!IInv /\ Queue!IInv /\ ChannelWithProcess

\* The admin account is seeded once, but for the email it gave up meanwhile.
SeededOnce == Boot!SeededOnce

\* The first account is the seed's admin, unless it was registered through an
\* instance that overlooked a failure of the count or of the seed.
AdminFirst == Boot!AdminFirst

\* Jobs publish_job answered Ok for are run or still with the broker, whatever
\* processes end and channels close.
NothingSkipped == Queue!NothingSkipped

\* Only a fault makes a job run again.
RunsExplained == Queue!RunsExplained

\* The queue implements JobPromise under any start-up.
KeepsPromise == Queue!KeepsPromise

\* Both parts run as they do on their own, whatever the other does.
ImplementsStartup == Boot!Spec
ImplementsQueue == Queue!Spec

\* A job that is in the queue is in the end settled or lost with the broker,
\* unless every worker is gone at some moment meanwhile: then it waits for the
\* next process to come up.  Processes come up again after they ended; a worker
\* whose channel was lost under a process that lives does not.
JobsSettle ==
  \A j \in Jobs : queue[j] \in {"ready", "out"} ~>
    (queue[j] \notin {"ready", "out"} \/ \A i \in Instances : channel[i] # "open")
=============================================================================
