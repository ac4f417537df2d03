--------------------------- MODULE DeploymentProofs ---------------------------
(***************************************************************************)
(* In a deployment the start-up and the job queue each run as specified on *)
(* their own, so what StartupProofs and JobQueueProofs show of them holds  *)
(* in it: the only step they share beside the connection is the exit of a  *)
(* process that has a worker, which is a crash to the queue.               *)
(***************************************************************************)
EXTENDS Deployment, TLAPS

\* Whatever a step does to one part is a step of that part, or none.
LEMMA StepsOfParts ==
  ASSUME [Next]_vars
  PROVE  [Boot!Next]_(Boot!vars) /\ [Queue!Next]_(Queue!vars)
<1>1. CASE UNCHANGED vars
  BY <1>1 DEF vars, Boot!vars, Queue!vars
<1>2. ASSUME NEW i \in Instances, Prepare(i) \/ Request(i) \/ Bind(i)
      PROVE  Boot!Next /\ UNCHANGED Queue!vars
  BY <1>2 DEF Prepare, Request, Bind, Boot!Next, jobs, Queue!vars
<1>3. ASSUME NEW i \in Instances, Connect(i)
      PROVE  Boot!Next /\ Queue!Next
  BY <1>3 DEF Connect, Boot!Next, Queue!Next
<1>4. ASSUME NEW i \in Instances, Exit(i)
      PROVE  Boot!Next /\ (Queue!Next \/ UNCHANGED Queue!vars)
  BY <1>4 DEF Exit, Boot!Next, Queue!Next, jobs, Queue!vars
<1>5. ASSUME NEW i \in Instances, Publish(i) \/ Work(i)
      PROVE  UNCHANGED Boot!vars /\ Queue!Next
  BY <1>5 DEF Publish, Work, boot, Boot!vars, Queue!Next
<1>6. CASE Broker \/ Faulty
  BY <1>6 DEF Broker, Faulty, boot, Boot!vars, Queue!Next
<1>7. QED
  BY <1>1, <1>2, <1>3, <1>4, <1>5, <1>6 DEF Next, ComingUp

\* The start-up of a deployment is a start-up.
THEOREM DeploymentStartsUp == Spec => ImplementsStartup
<1>1. Init => Boot!Init
  BY DEF Init
<1>2. [Next]_vars => [Boot!Next]_(Boot!vars)
  BY StepsOfParts
<1>3. QED
  BY <1>1, <1>2, PTL DEF Spec, ImplementsStartup, Boot!Spec

\* The jobs of a deployment are handled as by the queue on its own.
THEOREM DeploymentQueues == Spec => ImplementsQueue
<1>1. Init => Queue!Init
  BY DEF Init
<1>2. [Next]_vars => [Queue!Next]_(Queue!vars)
  BY StepsOfParts
<1>3. QED
  BY <1>1, <1>2, PTL DEF Spec, ImplementsQueue, Queue!Spec


-----------------------------------------------------------------------------
(* What was proved of the parts holds of the whole. *)

BootProofs == INSTANCE StartupProofs
QueueProofs == INSTANCE JobQueueProofs

\* The instances the proofs were made for are those of the deployment.
LEMMA SameBoot ==
  /\ Boot!Init <=> BootProofs!Init
  /\ [Boot!Next]_(Boot!vars) <=> [BootProofs!Next]_(BootProofs!vars)
<1>1. Boot!Init <=> BootProofs!Init
  BY DEF Boot!Init, BootProofs!Init
<1>2. [Boot!Next]_(Boot!vars) <=> [BootProofs!Next]_(BootProofs!vars)
  BY DEF Boot!Next, BootProofs!Next, Boot!vars, BootProofs!vars, Boot!InitDb, BootProofs!InitDb,
       Boot!Begin, BootProofs!Begin, Boot!Migrate, BootProofs!Migrate, Boot!Count, BootProofs!Count,
       Boot!Snapshot, BootProofs!Snapshot, Boot!Insert, BootProofs!Insert, Boot!Connect, BootProofs!Connect,
       Boot!Bind, BootProofs!Bind, Boot!Exit, BootProofs!Exit, Boot!Request, BootProofs!Request,
       Boot!Register, BootProofs!Register,
       Boot!TakeSeedsEmail, BootProofs!TakeSeedsEmail, Boot!GiveSeedsEmailUp, BootProofs!GiveSeedsEmailUp,
       Boot!Seeded, BootProofs!Seeded, Boot!Overlooked, BootProofs!Overlooked, Boot!Goto, BootProofs!Goto, Boot!table, BootProofs!table
<1>3. QED
  BY <1>1, <1>2

\* The same of the queue, action by action.
LEMMA SameQueue ==
  /\ Queue!Init <=> QueueProofs!Init
  /\ [Queue!Next]_(Queue!vars) <=> [QueueProofs!Next]_(QueueProofs!vars)
<1>1. Queue!Init <=> QueueProofs!Init
  BY DEF Queue!Init, QueueProofs!Init
<1>2. Queue!MayPublish <=> QueueProofs!MayPublish
  <2>1. Queue!Published = QueueProofs!Published
    BY DEF Queue!Published, QueueProofs!Published
  <2>2. QED
    BY <2>1 DEF Queue!MayPublish, QueueProofs!MayPublish, Queue!Cardinality, QueueProofs!Cardinality,
      Queue!IsFiniteSet, QueueProofs!IsFiniteSet
<1>3. \A i : Queue!Open(i) <=> QueueProofs!Open(i)
  BY DEF Queue!Open, QueueProofs!Open, Queue!publisher, QueueProofs!publisher, Queue!worker,
       QueueProofs!worker
<1>4. \A i, j : Queue!Publish(i, j) <=> QueueProofs!Publish(i, j)
  BY <1>2 DEF Queue!Publish, QueueProofs!Publish, Queue!worker, QueueProofs!worker
<1>5. \A j : Queue!Enqueue(j) <=> QueueProofs!Enqueue(j)
  BY <1>2 DEF Queue!Enqueue, QueueProofs!Enqueue, Queue!publisher, QueueProofs!publisher,
       Queue!worker, QueueProofs!worker
<1>6. \A j : Queue!Confirm(j) <=> QueueProofs!Confirm(j)
  BY DEF Queue!Confirm, QueueProofs!Confirm, Queue!worker, QueueProofs!worker
<1>7. \A i, j : Queue!Deliver(i, j) <=> QueueProofs!Deliver(i, j)
  BY DEF Queue!Deliver, QueueProofs!Deliver, Queue!publisher, QueueProofs!publisher
<1>8. \A i, j : Queue!RejectGarbled(i, j) <=> QueueProofs!RejectGarbled(i, j)
  BY DEF Queue!RejectGarbled, QueueProofs!RejectGarbled, Queue!Settled, QueueProofs!Settled,
       Queue!publisher, QueueProofs!publisher
<1>9. \A i, j : Queue!Run(i, j) <=> QueueProofs!Run(i, j)
  BY DEF Queue!Run, QueueProofs!Run, Queue!publisher, QueueProofs!publisher
<1>10. \A i : Queue!Settle(i) <=> QueueProofs!Settle(i)
  BY DEF Queue!Settle, QueueProofs!Settle, Queue!Settled, QueueProofs!Settled, Queue!Workable,
       QueueProofs!Workable, Queue!publisher, QueueProofs!publisher
<1>11. \A i : Queue!Close(i) <=> QueueProofs!Close(i)
  BY DEF Queue!Close, QueueProofs!Close, Queue!Fault, QueueProofs!Fault, Queue!Disappointed,
       QueueProofs!Disappointed, Queue!PutBack, QueueProofs!PutBack, Queue!worker,
       QueueProofs!worker
<1>12. \A i, j : Queue!Discard(i, j) <=> QueueProofs!Discard(i, j)
  BY DEF Queue!Discard, QueueProofs!Discard, Queue!publisher, QueueProofs!publisher
<1>13. \A i : Queue!Crash(i) <=> QueueProofs!Crash(i)
  BY DEF Queue!Crash, QueueProofs!Crash, Queue!Fault, QueueProofs!Fault, Queue!Disappointed,
       QueueProofs!Disappointed, Queue!PutBack, QueueProofs!PutBack
<1>14. Queue!BrokerRestart <=> QueueProofs!BrokerRestart
  BY DEF Queue!BrokerRestart, QueueProofs!BrokerRestart, Queue!Fault, QueueProofs!Fault,
       Queue!Disappointed, QueueProofs!Disappointed, Queue!worker, QueueProofs!worker
<1>15. Queue!vars = QueueProofs!vars /\ (UNCHANGED Queue!vars <=> UNCHANGED QueueProofs!vars)
  BY DEF Queue!vars, QueueProofs!vars
<1>16. Queue!Next <=> QueueProofs!Next
  BY <1>3, <1>4, <1>5, <1>6, <1>7, <1>8, <1>9, <1>10, <1>11, <1>12, <1>13, <1>14 DEF Queue!Next,
       QueueProofs!Next, Queue!Broker, QueueProofs!Broker, Queue!Worker, QueueProofs!Worker,
       Queue!Faulty, QueueProofs!Faulty
<1>17. QED
  BY <1>1, <1>15, <1>16

\* What the proofs assume of the queue's parties holds of those of the deployment.
LEMMA QueueParties ==
  QueueProofs!KindAssumption /\ QueueProofs!PartiesAssumption /\ QueueProofs!FaultsAssumption
  BY KindAssumption, PartiesAssumption, FaultsAssumption
     DEF QueueProofs!KindAssumption, QueueProofs!PartiesAssumption, QueueProofs!FaultsAssumption,
         Kinds, QueueProofs!Kinds, IsFiniteSet, QueueProofs!IsFiniteSet

\* However many instances race on an empty table, one admin account is seeded.
THEOREM SeedsOnce == Spec => []SeededOnce
<1>1. BootProofs!SeededOnce => SeededOnce
  BY DEF BootProofs!SeededOnce, SeededOnce, Boot!SeededOnce
<1>2. QED
  BY <1>1, SameBoot, DeploymentStartsUp, BootProofs!SeedsOnce, PTL
     DEF ImplementsStartup, Boot!Spec, BootProofs!Spec

\* The first account is the seed's admin, unless it was registered through an
\* instance that overlooked a failed statement.
THEOREM AdminComesFirst == Spec => []AdminFirst
<1>1. BootProofs!AdminFirst => AdminFirst
  BY DEF BootProofs!AdminFirst, AdminFirst, Boot!AdminFirst
<1>2. QED
  BY <1>1, SameBoot, DeploymentStartsUp, BootProofs!AdminComesFirst, PTL
     DEF ImplementsStartup, Boot!Spec, BootProofs!Spec

\* No job that publish_job answered Ok for is dropped without having been run.
THEOREM NoneSkipped == Spec => []NothingSkipped
<1>1. QueueProofs!NothingSkipped => NothingSkipped
  BY DEF QueueProofs!NothingSkipped, NothingSkipped, Queue!NothingSkipped
<1>2. QED
  BY <1>1, SameQueue, QueueParties, DeploymentQueues, QueueProofs!NoneSkipped, PTL
     DEF ImplementsQueue, Queue!Spec, QueueProofs!Spec

\* Without faults every job runs at most once; each fault allows once more.
THEOREM RunsBounded == Spec => []RunsExplained
<1>1. QueueProofs!RunsExplained => RunsExplained
  BY DEF QueueProofs!RunsExplained, RunsExplained, Queue!RunsExplained
<1>2. QED
  BY <1>1, SameQueue, QueueParties, DeploymentQueues, QueueProofs!RunsBounded, PTL
     DEF ImplementsQueue, Queue!Spec, QueueProofs!Spec

\* What a client of the queue sees of it are the jobs as JobPromise has them.
LEMMA SamePromise ==
  /\ QueueProofs!Promise!Init => Queue!Promise!Init
  /\ [QueueProofs!Promise!Next]_(QueueProofs!Promise!vars) => [Queue!Promise!Next]_(Queue!Promise!vars)
<1>1. QueueProofs!Promise!Init => Queue!Promise!Init
  BY DEF QueueProofs!Promise!Init, Queue!Promise!Init, QueueProofs!Seen, Queue!Seen
<1>2. [QueueProofs!Promise!Next]_(QueueProofs!Promise!vars) => [Queue!Promise!Next]_(Queue!Promise!vars)
  BY DEF Queue!Promise!Next, QueueProofs!Promise!Next, Queue!Promise!vars, QueueProofs!Promise!vars, Queue!Promise!Take, QueueProofs!Promise!Take,
       Queue!Promise!Run, QueueProofs!Promise!Run, Queue!Promise!Finish, QueueProofs!Promise!Finish, Queue!Promise!Refuse, QueueProofs!Promise!Refuse,
       Queue!Promise!Forget, QueueProofs!Promise!Forget, Queue!Promise!Become, QueueProofs!Promise!Become,
       Queue!Seen, QueueProofs!Seen, Queue!Workable, QueueProofs!Workable
<1>3. QED
  BY <1>1, <1>2

\* A deployment handles jobs as JobPromise says.
THEOREM DeploymentKeepsPromise == Spec => KeepsPromise
<1>1. QED
  BY SamePromise, SameQueue, QueueParties, DeploymentQueues, QueueProofs!QueueKeepsPromise, PTL
     DEF ImplementsQueue, Queue!Spec, QueueProofs!Spec, KeepsPromise, Queue!KeepsPromise,
         QueueProofs!KeepsPromise, Queue!Promise!Spec, QueueProofs!Promise!Spec

-----------------------------------------------------------------------------
(* The link between the parts. *)

\* A worker has its channel from the connection of its process until it ends,
\* and no process that is still coming up has one.
LEMMA LinkKept ==
  ASSUME Boot!TypeOK, Queue!TypeOK, ChannelWithProcess, [Next]_vars
  PROVE  ChannelWithProcess'
<1> USE DEF Boot!TypeOK, Queue!TypeOK, Boot!Stages
<1>1. ASSUME NEW i \in Instances, Prepare(i)
      PROVE  ChannelWithProcess'
  <2>1. /\ UNCHANGED channel
        /\ \E s \in {"migrate", "count", "seed", "insert", "connect"} : stage' = [stage EXCEPT ![i] = s]
        /\ stage[i] \notin {"bind", "serve"}
    BY <1>1 DEF Prepare, jobs, Boot!InitDb, Boot!Begin, Boot!Migrate, Boot!Count, Boot!Snapshot,
         Boot!Insert, Boot!Overlooked, Boot!Goto
  <2>2. QED
    BY <2>1 DEF ChannelWithProcess
<1>2. ASSUME NEW i \in Instances, Request(i) \/ Bind(i)
      PROVE  ChannelWithProcess'
  BY <1>2 DEF Request, Bind, jobs, Boot!Request, Boot!Bind, Boot!Goto, ChannelWithProcess
<1>3. ASSUME NEW i \in Instances, Connect(i)
      PROVE  ChannelWithProcess'
  BY <1>3 DEF Connect, Boot!Connect, Boot!Goto, Queue!Open, ChannelWithProcess
<1>4. ASSUME NEW i \in Instances, Exit(i)
      PROVE  ChannelWithProcess'
  BY <1>4 DEF Exit, Boot!Exit, Boot!Goto, jobs, Queue!Crash, ChannelWithProcess
<1>5. ASSUME NEW i \in Instances, Publish(i) \/ Work(i)
      PROVE  ChannelWithProcess'
  BY <1>5 DEF Publish, Work, boot, Queue!Publish, Queue!Worker, Queue!RejectGarbled, Queue!Run,
       Queue!Settle, ChannelWithProcess
<1>6. CASE Broker
  BY <1>6 DEF Broker, boot, Queue!Broker, Queue!Enqueue, Queue!Confirm, Queue!Deliver, ChannelWithProcess
<1>7. CASE Faulty
  <2>1. /\ UNCHANGED stage
        /\ \A i \in Instances : channel'[i] = "off" <=> channel[i] = "off"
    <3>1. CASE Queue!BrokerRestart
      BY <1>7, <3>1 DEF Faulty, boot, Queue!BrokerRestart
    <3>2. ASSUME NEW i \in Instances, Queue!Close(i)
          PROVE  \A k \in Instances : channel'[k] = "off" <=> channel[k] = "off"
      BY <3>2 DEF Queue!Close
    <3>3. ASSUME NEW i \in Instances, NEW j \in Jobs, Queue!Discard(i, j)
          PROVE  UNCHANGED channel
      BY <3>3 DEF Queue!Discard
    <3>4. UNCHANGED stage
      BY <1>7 DEF Faulty, boot
    <3>5. QED
      BY <1>7, <3>1, <3>2, <3>3, <3>4 DEF Faulty, Queue!Faulty
  <2>2. QED
    BY <2>1 DEF ChannelWithProcess
<1>8. CASE UNCHANGED vars
  BY <1>8 DEF vars, ChannelWithProcess
<1>9. QED
  BY <1>1, <1>2, <1>3, <1>4, <1>5, <1>6, <1>7, <1>8 DEF Next, ComingUp

\* The inductive invariant of the deployment: those of its parts and the link.
THEOREM Inductive == Spec => []IInv
<1>1. BootProofs!IInv => Boot!IInv /\ Boot!TypeOK
  BY DEF BootProofs!IInv, Boot!IInv, BootProofs!TypeOK, Boot!TypeOK, BootProofs!RoomForSeed, Boot!RoomForSeed,
       BootProofs!SeededOnce, Boot!SeededOnce, BootProofs!Migrated, Boot!Migrated,
       BootProofs!FirstOfAny, Boot!FirstOfAny, BootProofs!AdminFirst, Boot!AdminFirst, BootProofs!Stages, Boot!Stages
<1>2. QueueProofs!IInv => Queue!IInv /\ Queue!TypeOK
  BY DEF QueueProofs!IInv, Queue!IInv, QueueProofs!TypeOK, Queue!TypeOK, QueueProofs!Custody, Queue!Custody,
       QueueProofs!Traces, Queue!Traces, QueueProofs!RunsAccounted, Queue!RunsAccounted,
       QueueProofs!Copies, Queue!Copies, QueueProofs!Available, Queue!Available,
       QueueProofs!Cardinality, Queue!Cardinality
<1>3. Init => ChannelWithProcess
  BY DEF Init, Boot!Init, Queue!Init, ChannelWithProcess
<1>4. QED
  BY <1>1, <1>2, <1>3, LinkKept, SameBoot, SameQueue, QueueParties, DeploymentStartsUp, DeploymentQueues,
     BootProofs!Inductive, QueueProofs!Inductive, PTL
     DEF Spec, IInv, ImplementsStartup, ImplementsQueue, Boot!Spec, BootProofs!Spec, Queue!Spec, QueueProofs!Spec
=============================================================================
