------------------------------ MODULE JobQueue ------------------------------
(***************************************************************************)
(* Background jobs, services/queue.rs, over the RabbitMQ queue that        *)
(* infrastructure/rabbitmq.rs declares.  Every instance has one channel,   *)
(* in confirm mode, on which it publishes and consumes.  Its worker takes  *)
(* one job after the other out of the consumer's stream; as no basic_qos   *)
(* is sent, the broker puts every ready job straight into some stream.     *)
(* The broker and the client library are modelled from how they are used.  *)
(***************************************************************************)
EXTENDS JobKinds

VARIABLES
  channel,   \* of each instance: "off" (no process), "open" or "closed"
  told,      \* of each job: "new", "waiting" for the confirm, "ok" or "error"
  via,       \* the instance that publishes it
  queue,     \* "absent", "ready", "out", "acked", "dropped" or "lost"
  holder,    \* the instance whose channel it is out on
  inbox,     \* the deliveries in the stream of each instance
  work,      \* the job each worker has run and not yet settled
  ran,       \* how often process_job was run on each job
  faults     \* how many faults there were

vars == <<channel, told, via, queue, holder, inbox, work, ran, faults>>
worker == <<inbox, work, ran>>
publisher == <<told, via>>

Init ==
  /\ channel = [i \in Instances |-> "off"]
  /\ told = [j \in Jobs |-> "new"]
  /\ via = [j \in Jobs |-> None]
  /\ queue = [j \in Jobs |-> "absent"]
  /\ holder = [j \in Jobs |-> None]
  /\ inbox = [i \in Instances |-> {}]
  /\ work = [i \in Instances |-> None]
  /\ ran = [j \in Jobs |-> 0]
  /\ faults = 0

-----------------------------------------------------------------------------
(* The publisher. *)

Published == {j \in Jobs : told[j] # "new" \/ queue[j] # "absent"}
MayPublish == Cardinality(Published) < MaxJobs

\* init_rabbitmq and start_queue_consumer; if the registration of the consumer
\* fails, so has the channel, and there is no worker.
Open(i) ==
  /\ channel[i] = "off"
  /\ \E c \in {"open", "closed"} : channel' = [channel EXCEPT ![i] = c]
  /\ UNCHANGED <<publisher, queue, holder, worker, faults>>

\* publish_job up to the await of the confirmation.
Publish(i, j) ==
  /\ channel[i] # "off" /\ told[j] = "new" /\ Kind[j] # "garbled" /\ MayPublish
  /\ IF channel[i] = "open"
       THEN told' = [told EXCEPT ![j] = "waiting"] /\ via' = [via EXCEPT ![j] = i]
       ELSE told' = [told EXCEPT ![j] = "error"] /\ UNCHANGED via
  /\ UNCHANGED <<channel, queue, holder, worker, faults>>

\* The broker enqueues what was published, or some other client's message.
Enqueue(j) ==
  /\ queue[j] = "absent"
  /\ told[j] = "waiting" \/ (Kind[j] = "garbled" /\ MayPublish)
  /\ queue' = [queue EXCEPT ![j] = "ready"]
  /\ UNCHANGED <<channel, publisher, holder, worker, faults>>

\* It answers with an ack for what it enqueued, with a nack for what it did not.
Confirm(j) ==
  /\ told[j] = "waiting"
  /\ told' = [told EXCEPT ![j] = IF queue[j] = "absent" THEN "error" ELSE "ok"]
  /\ via' = [via EXCEPT ![j] = None]
  /\ UNCHANGED <<channel, queue, holder, worker, faults>>

-----------------------------------------------------------------------------
(* The worker. *)

\* Faulty variant: no_ack, the broker forgets what it delivers.
DeliverAndForget(i, j) ==
  /\ channel[i] = "open" /\ queue[j] = "ready"
  /\ queue' = [queue EXCEPT ![j] = "acked"]
  /\ inbox' = [inbox EXCEPT ![i] = @ \cup {j}]
  /\ UNCHANGED <<channel, publisher, holder, work, ran, faults>>

\* basic_deliver
Deliver(i, j) ==
  /\ channel[i] = "open" /\ queue[j] = "ready"
  /\ queue' = [queue EXCEPT ![j] = "out"]
  /\ holder' = [holder EXCEPT ![j] = i]
  /\ inbox' = [inbox EXCEPT ![i] = @ \cup {j}]
  /\ UNCHANGED <<channel, publisher, work, ran, faults>>

\* delivery.ack or delivery.reject: the broker removes the job, unless the
\* channel it came on is gone; the error is only logged.
Settled(i, j, as) ==
  IF channel[i] = "open"
    THEN queue' = [queue EXCEPT ![j] = as] /\ holder' = [holder EXCEPT ![j] = None]
    ELSE UNCHANGED <<queue, holder>>

\* What does not parse is rejected and not requeued.
RejectGarbled(i, j) ==
  /\ work[i] = None /\ j \in inbox[i] /\ Kind[j] = "garbled"
  /\ inbox' = [inbox EXCEPT ![i] = @ \ {j}]
  /\ Settled(i, j, "dropped")
  /\ UNCHANGED <<channel, publisher, work, ran, faults>>

\* Faulty variant: acknowledged as soon as it parses.
RunAcknowledged(i, j) ==
  /\ work[i] = None /\ j \in inbox[i] /\ Kind[j] # "garbled"
  /\ inbox' = [inbox EXCEPT ![i] = @ \ {j}]
  /\ work' = [work EXCEPT ![i] = j]
  /\ ran' = [ran EXCEPT ![j] = @ + 1]
  /\ Settled(i, j, "acked")
  /\ UNCHANGED <<channel, publisher, faults>>

\* process_job, its half second included.
Run(i, j) ==
  /\ work[i] = None /\ j \in inbox[i] /\ Kind[j] # "garbled"
  /\ inbox' = [inbox EXCEPT ![i] = @ \ {j}]
  /\ work' = [work EXCEPT ![i] = j]
  /\ ran' = [ran EXCEPT ![j] = @ + 1]
  /\ UNCHANGED <<channel, publisher, queue, holder, faults>>

\* Faulty variant: a job that failed is requeued.
SettleRequeueing(i) ==
  LET j == work[i] IN
  /\ j # None
  /\ work' = [work EXCEPT ![i] = None]
  /\ Settled(i, j, IF j \in Workable THEN "acked" ELSE "ready")
  /\ UNCHANGED <<channel, publisher, inbox, ran, faults>>

\* Faulty variant: the worker ends with the first job that failed.
SettleOnlyDone(i) ==
  LET j == work[i] IN
  /\ j \in Workable
  /\ work' = [work EXCEPT ![i] = None]
  /\ Settled(i, j, "acked")
  /\ UNCHANGED <<channel, publisher, inbox, ran, faults>>

\* Faulty variant: the outcome does not matter.
SettleAlwaysDone(i) ==
  LET j == work[i] IN
  /\ j # None
  /\ work' = [work EXCEPT ![i] = None]
  /\ Settled(i, j, "acked")
  /\ UNCHANGED <<channel, publisher, inbox, ran, faults>>

\* Ok is acknowledged, an error rejected and not requeued.
Settle(i) ==
  LET j == work[i] IN
  /\ j # None
  /\ work' = [work EXCEPT ![i] = None]
  /\ Settled(i, j, IF j \in Workable THEN "acked" ELSE "dropped")
  /\ UNCHANGED <<channel, publisher, inbox, ran, faults>>

-----------------------------------------------------------------------------
(* Faults. *)

Fault == faults < MaxFaults /\ faults' = faults + 1

\* Who waits for a confirmation on these channels gets an error instead.
Disappointed(I) ==
  /\ told' = [j \in Jobs |-> IF via[j] \in I THEN "error" ELSE told[j]]
  /\ via' = [j \in Jobs |-> IF via[j] \in I THEN None ELSE via[j]]

\* The broker puts back what was out on the channel of i.
PutBack(i) ==
  /\ queue' = [j \in Jobs |-> IF holder[j] = i THEN "ready" ELSE queue[j]]
  /\ holder' = [j \in Jobs |-> IF holder[j] = i THEN None ELSE holder[j]]

\* The channel or its connection is lost.  Nothing opens another one: the
\* worker goes through what the stream still holds and returns.
Close(i) ==
  /\ channel[i] = "open" /\ Fault
  /\ channel' = [channel EXCEPT ![i] = "closed"]
  /\ Disappointed({i}) /\ PutBack(i)
  /\ UNCHANGED worker

\* The library need not hand out deliveries of a channel that is gone.
Discard(i, j) ==
  /\ channel[i] = "closed" /\ j \in inbox[i]
  /\ inbox' = [inbox EXCEPT ![i] = @ \ {j}]
  /\ UNCHANGED <<channel, publisher, queue, holder, work, ran, faults>>

\* The process ends, at any point.
Crash(i) ==
  /\ channel[i] # "off" /\ Fault
  /\ channel' = [channel EXCEPT ![i] = "off"]
  /\ Disappointed({i}) /\ PutBack(i)
  /\ inbox' = [inbox EXCEPT ![i] = {}]
  /\ work' = [work EXCEPT ![i] = None]
  /\ UNCHANGED ran

\* The queue is durable, the messages are not: basic_publish leaves their
\* delivery mode at its default.
BrokerRestart ==
  /\ Fault
  /\ queue' = [j \in Jobs |-> IF queue[j] \in {"ready", "out"} THEN "lost" ELSE queue[j]]
  /\ holder' = [j \in Jobs |-> None]
  /\ channel' = [i \in Instances |-> IF channel[i] = "open" THEN "closed" ELSE channel[i]]
  /\ Disappointed(Instances)
  /\ UNCHANGED worker

-----------------------------------------------------------------------------

Broker == \/ \E j \in Jobs : Enqueue(j) \/ Confirm(j)
          \/ \E i \in Instances, j \in Jobs : Deliver(i, j)
Worker(i) == (\E j \in Jobs : RejectGarbled(i, j) \/ Run(i, j)) \/ Settle(i)
Faulty == \/ BrokerRestart
          \/ \E i \in Instances : Close(i) \/ \E j \in Jobs : Discard(i, j)

Next == \/ \E i \in Instances : Open(i) \/ Worker(i) \/ Crash(i) \/ \E j \in Jobs : Publish(i, j)
        \/ Broker
        \/ Faulty

Spec == Init /\ [][Next]_vars

-----------------------------------------------------------------------------
(* Correctness. *)

\* Every variable holds what its comment says.
TypeOK ==
  /\ channel \in [Instances -> {"off", "open", "closed"}]
  /\ told \in [Jobs -> {"new", "waiting", "ok", "error"}]
  /\ via \in [Jobs -> Instances \cup {None}]
  /\ queue \in [Jobs -> {"absent", "ready", "out", "acked", "dropped", "lost"}]
  /\ holder \in [Jobs -> Instances \cup {None}]
  /\ inbox \in [Instances -> SUBSET Jobs]
  /\ work \in [Instances -> Jobs \cup {None}]
  /\ ran \in [Jobs -> Nat]
  /\ faults \in 0 .. MaxFaults

\* A job is out exactly on one open channel, and what the worker of an open
\* channel has of it is there once.
Custody ==
  /\ \A j \in Jobs : holder[j] # None <=> queue[j] = "out"
  /\ \A j \in Jobs, i \in Instances : holder[j] = i => channel[i] = "open"
  /\ \A i \in Instances : channel[i] = "off" => inbox[i] = {} /\ work[i] = None
  /\ \A i \in Instances, j \in Jobs : channel[i] = "open" =>
       /\ j \in inbox[i] \/ work[i] = j => holder[j] = i
       /\ ~(j \in inbox[i] /\ work[i] = j)

\* What a job's place says about what was done to it.
Traces ==
  /\ \A j \in Jobs :
       /\ via[j] # None <=> told[j] = "waiting"
       /\ told[j] # "new" => Kind[j] # "garbled"
       /\ told[j] = "ok" => queue[j] # "absent"
       /\ queue[j] = "acked" => ran[j] > 0
       /\ queue[j] = "dropped" => ran[j] > 0 \/ Kind[j] = "garbled"
       /\ queue[j] = "lost" => faults > 0
  /\ \A i \in Instances :
       /\ work[i] # None => ran[work[i]] > 0 /\ queue[work[i]] # "absent"
       /\ \A j \in inbox[i] : queue[j] # "absent"

\* The runs a job has had and those it can still have without another fault.
Copies(j) == {i \in Instances : j \in inbox[i]}
Available(j) == IF queue[j] \in {"absent", "ready"} THEN 1 ELSE 0
RunsAccounted == \A j \in Jobs : ran[j] + Cardinality(Copies(j)) + Available(j) <= 1 + faults

\* The inductive invariant of the queue: who has a job in hand, what was done to
\* it, and how often it can still be run.
IInv == TypeOK /\ Custody /\ Traces /\ RunsAccounted

\* A job the caller of publish_job was told of as accepted, and that was never
\* run, is still in the broker's hands, or was lost in a restart of the broker.
\* Crashes, lost channels and workers that end lose nothing.
NothingSkipped ==
  \A j \in Jobs : told[j] = "ok" /\ ran[j] = 0 =>
    queue[j] \in {"ready", "out"} \/ (queue[j] = "lost" /\ faults > 0)

\* Only a fault makes a job run again, and each fault only once more: jobs that
\* fail are not taken up again.
RunsExplained == \A j \in Jobs : ran[j] <= 1 + faults

\* What JobPromise sees of the place of a job.
Seen(place) == CASE place = "absent"           -> "new"
                 [] place \in {"ready", "out"} -> "pending"
                 [] place = "acked"            -> "done"
                 [] place = "dropped"          -> "refused"
                 [] OTHER                      -> "lost"

Promise == INSTANCE JobPromise WITH status <- [j \in Jobs |-> Seen(queue[j])]

\* The queue keeps the promise: what leaves it was carried out, cannot be, or
\* went with the broker.
KeepsPromise == Promise!Spec
=============================================================================
