---------------------------- MODULE JobQueueProofs ----------------------------
(***************************************************************************)
(* The job queue keeps its promise for any number of instances, jobs and   *)
(* faults.  Each action first preserves Custody and Traces, and then the   *)
(* account of the runs, which counts the streams a job is in.              *)
(***************************************************************************)
EXTENDS JobQueue, FiniteSetTheorems, TLAPS

USE KindAssumption, PartiesAssumption, FaultsAssumption

-----------------------------------------------------------------------------
(* Counting the streams a job is in. *)

\* There are finitely many, and as many as the instances at most.
LEMMA CopiesFinite ==
  ASSUME NEW j \in Jobs
  PROVE  IsFiniteSet(Copies(j)) /\ Cardinality(Copies(j)) \in Nat
BY FS_Subset, FS_CardinalityType DEF Copies

\* The same after a step.
LEMMA CopiesFinitePrime ==
  ASSUME NEW j \in Jobs
  PROVE  IsFiniteSet(Copies(j)') /\ Cardinality(Copies(j)') \in Nat
<1>1. Copies(j)' \subseteq Instances
  BY DEF Copies
<1>2. QED
  BY <1>1, FS_Subset, FS_CardinalityType

\* Streams that only lose jobs hold no more copies of any.
LEMMA FewerCopies ==
  ASSUME NEW j \in Jobs, \A i \in Instances : j \in inbox'[i] => j \in inbox[i]
  PROVE  Cardinality(Copies(j)') <= Cardinality(Copies(j))
<1>1. Copies(j)' \subseteq Copies(j)
  BY DEF Copies
<1>2. QED
  BY <1>1, CopiesFinite, FS_Subset

\* A job put into one stream has at most one copy more.
LEMMA OneCopyMore ==
  ASSUME NEW j \in Jobs, NEW k \in Instances,
         \A i \in Instances \ {k} : j \in inbox'[i] => j \in inbox[i]
  PROVE  Cardinality(Copies(j)') <= Cardinality(Copies(j)) + 1
<1>1. Copies(j)' \subseteq Copies(j) \cup {k}
  BY DEF Copies
<1>2. IsFiniteSet(Copies(j) \cup {k}) /\ Cardinality(Copies(j) \cup {k}) <= Cardinality(Copies(j)) + 1
  <2> DEFINE C == Copies(j)
  <2>1. IsFiniteSet(C) /\ Cardinality(C) \in Nat
    BY CopiesFinite
  <2> HIDE DEF C
  <2>2. IsFiniteSet(C \cup {k}) /\ (Cardinality(C \cup {k}) = Cardinality(C) + 1 \/ Cardinality(C \cup {k}) = Cardinality(C))
    BY <2>1, FS_AddElement
  <2>3. Cardinality(C \cup {k}) <= Cardinality(C) + 1
    BY <2>1, <2>2
  <2>4. QED
    BY <2>2, <2>3 DEF C
<1>3. Cardinality(Copies(j)') <= Cardinality(Copies(j) \cup {k})
  BY <1>1, <1>2, FS_Subset
<1>4. Cardinality(Copies(j) \cup {k}) \in Nat
  BY <1>2, FS_CardinalityType
<1>5. QED
  BY <1>2, <1>3, <1>4, CopiesFinite, CopiesFinitePrime

\* A job taken out of one stream has one copy less.
LEMMA OneCopyLess ==
  ASSUME NEW j \in Jobs, NEW k \in Instances, j \in inbox[k], j \notin inbox'[k],
         \A i \in Instances : j \in inbox'[i] => j \in inbox[i]
  PROVE  Cardinality(Copies(j)') + 1 <= Cardinality(Copies(j))
<1>1. Copies(j)' \subseteq Copies(j) \ {k} /\ k \in Copies(j)
  BY DEF Copies
<1>2. IsFiniteSet(Copies(j) \ {k}) /\ Cardinality(Copies(j) \ {k}) = Cardinality(Copies(j)) - 1
  BY <1>1, CopiesFinite, FS_RemoveElement
<1>3. Cardinality(Copies(j)') <= Cardinality(Copies(j) \ {k})
  BY <1>1, <1>2, FS_Subset
<1>4. QED
  BY <1>2, <1>3, CopiesFinite, CopiesFinitePrime

\* The account of a job balances if its runs, copies and availability grow by no
\* more than the faults.
LEMMA Balance ==
  ASSUME NEW r \in Nat, NEW c \in Nat, NEW a \in Nat, NEW f \in Nat, r + c + a <= 1 + f,
         NEW r1 \in Nat, NEW c1 \in Nat, NEW a1 \in Nat, NEW f1 \in Nat,
         r1 + c1 + a1 + f <= r + c + a + f1
  PROVE  r1 + c1 + a1 <= 1 + f1
OBVIOUS

-----------------------------------------------------------------------------
(* Each action preserves the invariant. *)

\* What the account of one job consists of are numbers.
LEMMA AccountTypes ==
  ASSUME TypeOK, NEW j \in Jobs
  PROVE  ran[j] \in Nat /\ Available(j) \in {0, 1} /\ faults \in Nat
BY DEF TypeOK, Available

\* A step that moves no job in or out of a stream, and makes none available,
\* keeps the account.
LEMMA AccountStays ==
  ASSUME IInv, TypeOK', ran' = ran, faults <= faults',
         \A i \in Instances, j \in Jobs : j \in inbox'[i] => j \in inbox[i],
         \A j \in Jobs : Available(j)' + faults <= Available(j) + faults'
  PROVE  RunsAccounted'
<1> SUFFICES ASSUME NEW j \in Jobs
             PROVE  ran'[j] + Cardinality(Copies(j)') + Available(j)' <= 1 + faults'
  BY DEF RunsAccounted
<1>1. Cardinality(Copies(j)') <= Cardinality(Copies(j))
  BY FewerCopies
<1>2. ran[j] \in Nat /\ Available(j) \in Nat /\ faults \in Nat
  BY AccountTypes DEF IInv
<1>3. ran'[j] \in Nat /\ Available(j)' \in Nat /\ faults' \in Nat
  BY DEF TypeOK, Available
<1>4. ran[j] + Cardinality(Copies(j)) + Available(j) <= 1 + faults
  BY DEF IInv, RunsAccounted
<1>5. Available(j)' + faults <= Available(j) + faults' /\ ran'[j] = ran[j]
  OBVIOUS
<1>6. QED
  BY <1>1, <1>2, <1>3, <1>4, <1>5, CopiesFinite, CopiesFinitePrime, Balance

\* A new channel holds nothing.
LEMMA OpenStep == ASSUME IInv, NEW i \in Instances, Open(i) PROVE IInv'
<1>1. TypeOK'
  BY DEF IInv, TypeOK, Open, worker, publisher
<1>2. Custody'
  BY DEF IInv, TypeOK, Custody, Open, worker, publisher
<1>3. Traces'
  BY DEF IInv, Traces, Open, worker, publisher
<1>4. RunsAccounted'
  BY DEF IInv, RunsAccounted, Copies, Available, Open, worker
<1>5. QED
  BY <1>1, <1>2, <1>3, <1>4 DEF IInv

\* Publishing moves no job.
LEMMA PublishStep == ASSUME IInv, NEW i \in Instances, NEW j \in Jobs, Publish(i, j) PROVE IInv'
<1>1. TypeOK'
  BY DEF IInv, TypeOK, Publish, worker
<1>2. Custody'
  BY DEF IInv, TypeOK, Custody, Publish, worker
<1>3. Traces'
  BY DEF IInv, TypeOK, Traces, Publish, worker
<1>4. RunsAccounted'
  BY DEF IInv, RunsAccounted, Copies, Available, Publish, worker
<1>5. QED
  BY <1>1, <1>2, <1>3, <1>4 DEF IInv

\* A confirmation says ok only of what is enqueued.
LEMMA ConfirmStep == ASSUME IInv, NEW j \in Jobs, Confirm(j) PROVE IInv'
<1>1. TypeOK'
  BY DEF IInv, TypeOK, Confirm, worker
<1>2. Custody'
  BY DEF IInv, TypeOK, Custody, Confirm, worker
<1>3. Traces'
  BY DEF IInv, TypeOK, Traces, Confirm, worker
<1>4. RunsAccounted'
  BY DEF IInv, RunsAccounted, Copies, Available, Confirm, worker
<1>5. QED
  BY <1>1, <1>2, <1>3, <1>4 DEF IInv

\* An enqueued job is available to be run once, as it was before.
LEMMA EnqueueStep == ASSUME IInv, NEW j \in Jobs, Enqueue(j) PROVE IInv'
<1>1. TypeOK'
  BY DEF IInv, TypeOK, Enqueue, worker, publisher
<1>2. Custody'
  BY DEF IInv, TypeOK, Custody, Enqueue, worker, publisher
<1>3. Traces'
  BY DEF IInv, TypeOK, Traces, Enqueue, worker, publisher
<1>4. RunsAccounted'
  BY DEF IInv, TypeOK, RunsAccounted, Copies, Available, Enqueue, worker
<1>5. QED
  BY <1>1, <1>2, <1>3, <1>4 DEF IInv

\* A ready job becomes one more copy.
LEMMA DeliverStep == ASSUME IInv, NEW i \in Instances, NEW j \in Jobs, Deliver(i, j) PROVE IInv'
<1>1. TypeOK'
  BY DEF IInv, TypeOK, Deliver, publisher
<1>2. Custody'
  BY DEF IInv, TypeOK, Custody, Deliver, publisher
<1>3. Traces'
  BY DEF IInv, TypeOK, Traces, Deliver, publisher
<1>4. RunsAccounted'
  <2> SUFFICES ASSUME NEW k \in Jobs
               PROVE  ran'[k] + Cardinality(Copies(k)') + Available(k)' <= 1 + faults'
    BY DEF RunsAccounted
  <2>1. ran[k] \in Nat /\ Available(k) \in Nat /\ faults \in Nat
    BY AccountTypes DEF IInv
  <2>2. ran[k] + Cardinality(Copies(k)) + Available(k) <= 1 + faults
    BY DEF IInv, RunsAccounted
  <2>3. ran' = ran /\ faults' = faults
    BY DEF Deliver
  <2>4. CASE k = j
    <3>1. Available(k) = 1 /\ Available(k)' = 0
      BY <2>4 DEF Deliver, Available, IInv, TypeOK
    <3>2. Cardinality(Copies(k)') <= Cardinality(Copies(k)) + 1
      <4>1. \A n \in Instances \ {i} : inbox'[n] = inbox[n]
        BY DEF Deliver, IInv, TypeOK
      <4>2. QED
        BY <4>1, OneCopyMore
    <3>3. QED
      BY <2>1, <2>2, <2>3, <3>1, <3>2, CopiesFinite, CopiesFinitePrime
  <2>5. CASE k # j
    <3>1. Available(k)' = Available(k)
      BY <2>5 DEF Deliver, Available, IInv, TypeOK
    <3>2. Copies(k)' = Copies(k)
      BY <2>5 DEF Deliver, Copies, IInv, TypeOK
    <3>3. QED
      BY <2>2, <2>3, <3>1, <3>2
  <2>6. QED
    BY <2>4, <2>5
<1>5. QED
  BY <1>1, <1>2, <1>3, <1>4 DEF IInv

\* A copy becomes a run.
LEMMA RunStep == ASSUME IInv, NEW i \in Instances, NEW j \in Jobs, Run(i, j) PROVE IInv'
<1>1. TypeOK'
  BY DEF IInv, TypeOK, Run, publisher
<1>2. Custody'
  BY DEF IInv, TypeOK, Custody, Run, publisher
<1>3. Traces'
  BY DEF IInv, TypeOK, Traces, Run, publisher
<1>4. RunsAccounted'
  <2> SUFFICES ASSUME NEW k \in Jobs
               PROVE  ran'[k] + Cardinality(Copies(k)') + Available(k)' <= 1 + faults'
    BY DEF RunsAccounted
  <2>1. ran[k] \in Nat /\ Available(k) \in Nat /\ faults \in Nat
    BY AccountTypes DEF IInv
  <2>2. ran[k] + Cardinality(Copies(k)) + Available(k) <= 1 + faults
    BY DEF IInv, RunsAccounted
  <2>3. faults' = faults /\ Available(k)' = Available(k)
    BY DEF Run, Available
  <2>4. CASE k = j
    <3>1. ran'[k] = ran[k] + 1
      BY <2>4 DEF Run, IInv, TypeOK
    <3>2. Cardinality(Copies(k)') + 1 <= Cardinality(Copies(k))
      <4>1. /\ j \in inbox[i] /\ j \notin inbox'[i]
            /\ \A n \in Instances : j \in inbox'[n] => j \in inbox[n]
        BY DEF Run, IInv, TypeOK
      <4>2. QED
        BY <2>4, <4>1, OneCopyLess
    <3>3. QED
      BY <2>1, <2>2, <2>3, <3>1, <3>2, CopiesFinite, CopiesFinitePrime
  <2>5. CASE k # j
    <3>1. ran'[k] = ran[k]
      BY <2>5 DEF Run, IInv, TypeOK
    <3>2. Copies(k)' = Copies(k)
      BY <2>5 DEF Run, Copies, IInv, TypeOK
    <3>3. QED
      BY <2>2, <2>3, <3>1, <3>2
  <2>6. QED
    BY <2>4, <2>5
<1>5. QED
  BY <1>1, <1>2, <1>3, <1>4 DEF IInv

\* A rejected job was not run and is not available again.
LEMMA RejectStep ==
  ASSUME IInv, NEW i \in Instances, NEW j \in Jobs, RejectGarbled(i, j) PROVE IInv'
<1>1. TypeOK'
  BY DEF IInv, TypeOK, RejectGarbled, Settled, publisher
<1>2. Custody'
  <2>1. CASE channel[i] = "open"
    BY <2>1 DEF IInv, TypeOK, Custody, RejectGarbled, Settled
  <2>2. CASE channel[i] # "open"
    BY <2>2 DEF IInv, TypeOK, Custody, RejectGarbled, Settled
  <2>3. QED
    BY <2>1, <2>2
<1>3. Traces'
  BY DEF IInv, TypeOK, Traces, RejectGarbled, Settled, publisher
<1>4. RunsAccounted'
  <2>1. \A n \in Instances, k \in Jobs : k \in inbox'[n] => k \in inbox[n]
    BY DEF RejectGarbled, IInv, TypeOK
  <2>2. \A k \in Jobs : Available(k)' + faults <= Available(k) + faults'
    BY DEF RejectGarbled, Settled, Available, IInv, TypeOK
  <2>3. QED
    BY <1>1, <2>1, <2>2, AccountStays DEF RejectGarbled, IInv, TypeOK
<1>5. QED
  BY <1>1, <1>2, <1>3, <1>4 DEF IInv

\* A settled job is no longer in hand; it was run, so its place says the truth.
LEMMA SettleStep == ASSUME IInv, NEW i \in Instances, Settle(i) PROVE IInv'
<1> DEFINE j == work[i]
<1>0. j \in Jobs /\ j # None
  BY DEF Settle, IInv, TypeOK
<1>1. TypeOK'
  BY <1>0 DEF IInv, TypeOK, Settle, Settled, publisher
<1>2. Custody'
  BY <1>0 DEF IInv, TypeOK, Custody, Settle, Settled, publisher
<1>3. Traces'
  BY <1>0 DEF IInv, TypeOK, Traces, Settle, Settled, publisher
<1>4. RunsAccounted'
  <2>1. inbox' = inbox /\ ran' = ran /\ faults' = faults
    BY DEF Settle
  <2>2. \A k \in Jobs : Available(k)' + faults <= Available(k) + faults'
    BY <1>0 DEF Settle, Settled, Available, IInv, TypeOK
  <2>3. QED
    BY <1>1, <2>1, <2>2, AccountStays DEF IInv, TypeOK
<1>5. QED
  BY <1>1, <1>2, <1>3, <1>4 DEF IInv

\* A discarded delivery is a copy less.
LEMMA DiscardStep ==
  ASSUME IInv, NEW i \in Instances, NEW j \in Jobs, Discard(i, j) PROVE IInv'
<1>1. TypeOK'
  BY DEF IInv, TypeOK, Discard, publisher
<1>2. Custody'
  BY DEF IInv, TypeOK, Custody, Discard, publisher
<1>3. Traces'
  BY DEF IInv, TypeOK, Traces, Discard, publisher
<1>4. RunsAccounted'
  <2>1. \A n \in Instances, k \in Jobs : k \in inbox'[n] => k \in inbox[n]
    BY DEF Discard, IInv, TypeOK
  <2>2. \A k \in Jobs : Available(k)' + faults <= Available(k) + faults'
    BY DEF Discard, Available, IInv, TypeOK
  <2>3. QED
    BY <1>1, <2>1, <2>2, AccountStays DEF Discard, IInv, TypeOK
<1>5. QED
  BY <1>1, <1>2, <1>3, <1>4 DEF IInv

\* A fault runs nothing, tells some who wait of an error, and puts back or loses
\* what the broker has.
LEMMA TracesAfterFault ==
  ASSUME IInv, faults' = faults + 1, ran' = ran,
         NEW I \in SUBSET Instances, Disappointed(I),
         \A j \in Jobs : queue'[j] = queue[j] \/ (queue[j] # "absent" /\ queue'[j] \in {"ready", "lost"}),
         \A i \in Instances : /\ inbox'[i] \subseteq inbox[i]
                              /\ work'[i] \in {work[i], None}
  PROVE  Traces'
<1>1. faults \in Nat /\ faults' > 0
  <2>1. faults \in Nat
    BY DEF IInv, TypeOK
  <2>2. QED
    BY <2>1
<1>2. ASSUME NEW j \in Jobs
      PROVE  /\ via'[j] # None <=> told'[j] = "waiting"
             /\ told'[j] # "new" => Kind[j] # "garbled"
             /\ told'[j] = "ok" => queue'[j] # "absent"
  BY DEF IInv, TypeOK, Traces, Disappointed
<1>3. ASSUME NEW j \in Jobs
      PROVE  /\ queue'[j] = "acked" => ran'[j] > 0
             /\ queue'[j] = "dropped" => ran'[j] > 0 \/ Kind[j] = "garbled"
             /\ queue'[j] = "lost" => faults' > 0
  BY <1>1 DEF IInv, Traces
<1>4. ASSUME NEW i \in Instances
      PROVE  /\ work'[i] # None => ran'[work'[i]] > 0 /\ queue'[work'[i]] # "absent"
             /\ \A j \in inbox'[i] : queue'[j] # "absent"
  BY DEF IInv, TypeOK, Traces
<1>5. QED
  BY <1>2, <1>3, <1>4 DEF Traces

\* The faults: what was out becomes available again, one copy more for one fault
\* more, and streams only lose jobs.
LEMMA CloseStep == ASSUME IInv, NEW i \in Instances, Close(i) PROVE IInv'
<1>1. TypeOK'
  BY DEF IInv, TypeOK, Close, Fault, Disappointed, PutBack, worker
<1>2. Custody'
  BY DEF IInv, TypeOK, Custody, Close, PutBack, worker
<1>3. Traces'
  BY TracesAfterFault DEF IInv, TypeOK, Custody, Close, Fault, PutBack, worker
<1>4. RunsAccounted'
  <2>1. inbox' = inbox /\ ran' = ran /\ faults' = faults + 1 /\ faults \in Nat
    BY DEF Close, Fault, worker, IInv, TypeOK
  <2>2. \A k \in Jobs : Available(k)' \in {0, 1} /\ Available(k) \in {0, 1}
    BY DEF Available
  <2>3. \A k \in Jobs : Available(k)' + faults <= Available(k) + faults'
    BY <2>1, <2>2
  <2>4. faults <= faults'
    BY <2>1
  <2>5. QED
    BY <1>1, <2>1, <2>3, <2>4, AccountStays
<1>5. QED
  BY <1>1, <1>2, <1>3, <1>4 DEF IInv

\* A process takes its copies along; what is put back is paid by the fault.
LEMMA CrashStep == ASSUME IInv, NEW i \in Instances, Crash(i) PROVE IInv'
<1>1. TypeOK'
  BY DEF IInv, TypeOK, Crash, Fault, Disappointed, PutBack
<1>2. Custody'
  BY DEF IInv, TypeOK, Custody, Crash, PutBack
<1>3. Traces'
  BY TracesAfterFault DEF IInv, TypeOK, Custody, Crash, Fault, PutBack
<1>4. RunsAccounted'
  <2>1. ran' = ran /\ faults' = faults + 1 /\ faults \in Nat
    BY DEF Crash, Fault, IInv, TypeOK
  <2>2. \A n \in Instances, k \in Jobs : k \in inbox'[n] => k \in inbox[n]
    BY DEF Crash, IInv, TypeOK
  <2>3. \A k \in Jobs : Available(k)' \in {0, 1} /\ Available(k) \in {0, 1}
    BY DEF Available
  <2>4. \A k \in Jobs : Available(k)' + faults <= Available(k) + faults'
    BY <2>1, <2>3
  <2>5. faults <= faults'
    BY <2>1
  <2>6. QED
    BY <1>1, <2>1, <2>2, <2>4, <2>5, AccountStays
<1>5. QED
  BY <1>1, <1>2, <1>3, <1>4 DEF IInv

\* A restart of the broker makes nothing available.
LEMMA BrokerRestartStep == ASSUME IInv, BrokerRestart PROVE IInv'
<1>1. TypeOK'
  BY DEF IInv, TypeOK, BrokerRestart, Fault, Disappointed, worker
<1>2. Custody'
  BY DEF IInv, TypeOK, Custody, BrokerRestart, worker
<1>3. Traces'
  BY TracesAfterFault DEF IInv, TypeOK, BrokerRestart, Fault, worker
<1>4. RunsAccounted'
  <2>1. inbox' = inbox /\ ran' = ran /\ faults' = faults + 1 /\ faults \in Nat
    BY DEF BrokerRestart, Fault, worker, IInv, TypeOK
  <2>2. \A k \in Jobs : Available(k)' \in {0, 1} /\ Available(k) \in {0, 1}
    BY DEF Available
  <2>3. \A k \in Jobs : Available(k)' + faults <= Available(k) + faults'
    BY <2>1, <2>2
  <2>4. faults <= faults'
    BY <2>1
  <2>5. QED
    BY <1>1, <2>1, <2>3, <2>4, AccountStays
<1>5. QED
  BY <1>1, <1>2, <1>3, <1>4 DEF IInv

-----------------------------------------------------------------------------
(* The theorems. *)

\* Nothing is published, nothing run.
LEMMA InitIInv == ASSUME Init PROVE IInv
<1>1. TypeOK
  BY DEF Init, TypeOK
<1>2. Custody /\ Traces
  BY DEF Init, Custody, Traces
<1>3. RunsAccounted
  <2> SUFFICES ASSUME NEW j \in Jobs
               PROVE  ran[j] + Cardinality(Copies(j)) + Available(j) <= 1 + faults
    BY DEF RunsAccounted
  <2>1. Copies(j) = {}
    BY DEF Init, Copies
  <2>2. Cardinality(Copies(j)) = 0
    BY <2>1, FS_EmptySet
  <2>3. ran[j] = 0 /\ Available(j) = 1 /\ faults = 0
    BY DEF Init, Available
  <2>4. QED
    BY <2>2, <2>3
<1>4. QED
  BY <1>1, <1>2, <1>3 DEF IInv

\* Every step keeps the invariant.
LEMMA NextIInv == ASSUME IInv, [Next]_vars PROVE IInv'
<1>1. CASE UNCHANGED vars
  <2>1. TypeOK' /\ Custody' /\ Traces'
    BY <1>1 DEF vars, IInv, TypeOK, Custody, Traces
  <2>2. RunsAccounted'
    BY <1>1 DEF vars, IInv, RunsAccounted, Copies, Available
  <2>3. QED
    BY <2>1, <2>2 DEF IInv
<1>2. ASSUME NEW i \in Instances, Open(i) \/ Worker(i) \/ Crash(i) \/ \E j \in Jobs : Publish(i, j)
      PROVE  IInv'
  BY <1>2, OpenStep, RejectStep, RunStep, SettleStep, CrashStep, PublishStep DEF Worker
<1>3. CASE Broker
  BY <1>3, EnqueueStep, ConfirmStep, DeliverStep DEF Broker
<1>4. CASE Faulty
  BY <1>4, BrokerRestartStep, CloseStep, DiscardStep DEF Faulty
<1>5. QED
  BY <1>1, <1>2, <1>3, <1>4 DEF Next

\* The invariant of the queue holds for any number of instances, jobs and faults.
THEOREM Inductive == Spec => []IInv
<1>1. Init => IInv
  BY InitIInv
<1>2. IInv /\ [Next]_vars => IInv'
  BY NextIInv
<1>3. QED
  BY <1>1, <1>2, PTL DEF Spec

\* No job that publish_job answered Ok for is dropped without having been run.
THEOREM NoneSkipped == Spec => []NothingSkipped
<1>1. IInv => NothingSkipped
  BY DEF IInv, TypeOK, Traces, NothingSkipped
<1>2. QED
  BY <1>1, Inductive, PTL

\* Without faults every job runs at most once; each fault allows once more.
THEOREM RunsBounded == Spec => []RunsExplained
<1>1. IInv => RunsExplained
  <2> SUFFICES ASSUME IInv, NEW j \in Jobs PROVE ran[j] <= 1 + faults
    BY DEF RunsExplained
  <2>1. ran[j] + Cardinality(Copies(j)) + Available(j) <= 1 + faults
    BY DEF IInv, RunsAccounted
  <2>2. ran[j] \in Nat /\ Available(j) \in Nat /\ faults \in Nat
    BY AccountTypes DEF IInv
  <2>3. QED
    BY <2>1, <2>2, CopiesFinite
<1>2. QED
  BY <1>1, Inductive, PTL

-----------------------------------------------------------------------------
(* The refinement of JobPromise. *)

\* Places are seen as what they are.
LEMMA SeenValues ==
  ASSUME NEW q \in {"absent", "ready", "out", "acked", "dropped", "lost"}
  PROVE  /\ Seen(q) = "new" <=> q = "absent"
         /\ Seen(q) = "pending" <=> q \in {"ready", "out"}
         /\ q = "acked" => Seen(q) = "done"
         /\ q = "dropped" => Seen(q) = "refused"
         /\ q = "lost" => Seen(q) = "lost"
BY DEF Seen

\* A step that changes neither places, as they are seen, nor runs is a stutter.
LEMMA Stutter ==
  ASSUME IInv, IInv', ran' = ran, \A j \in Jobs : Seen(queue'[j]) = Seen(queue[j])
  PROVE  UNCHANGED Promise!vars
BY DEF Promise!vars

\* A job that changes its place alone changes its status alone.
LEMMA OneMoves ==
  ASSUME IInv, ran' = ran, NEW j \in Jobs, NEW q,
         queue' = [queue EXCEPT ![j] = q]
  PROVE  Promise!Become(j, Seen(q))
BY DEF IInv, TypeOK, Promise!Become

\* Rejections and acknowledgements that reach the broker settle a pending job,
\* and an acknowledged one was run.
LEMMA SettledRefines ==
  ASSUME IInv, NEW i \in Instances, NEW j \in Jobs, ran' = ran,
         channel[i] = "open" => holder[j] = i,
         NEW as \in {"acked", "dropped"}, Settled(i, j, as),
         as = "acked" <=> j \in Workable, as = "acked" => ran[j] > 0
  PROVE  Promise!Next \/ UNCHANGED Promise!vars
<1>1. CASE channel[i] # "open"
  BY <1>1 DEF Settled, Promise!vars
<1>2. CASE channel[i] = "open"
  <2>1. holder[j] = i /\ holder[j] # None
    BY <1>2, PartiesAssumption
  <2>2. queue[j] = "out"
    BY <2>1 DEF IInv, Custody
  <2>3. queue[j] = "out" /\ queue' = [queue EXCEPT ![j] = as]
    BY <1>2, <2>2 DEF Settled
  <2>4. Promise!Become(j, Seen(as)) /\ Seen(queue[j]) = "pending"
    BY <2>3, OneMoves, SeenValues
  <2>5. Promise!Finish(j) \/ Promise!Refuse(j)
    BY <2>4, SeenValues DEF Promise!Finish, Promise!Refuse
  <2>6. QED
    BY <2>5 DEF Promise!Next
<1>3. QED
  BY <1>1, <1>2

\* A step of a worker is a step of the promise or none.
LEMMA WorkerRefines ==
  ASSUME IInv, IInv', NEW i \in Instances, Worker(i)
  PROVE  Promise!Next \/ UNCHANGED Promise!vars
<1>1. ASSUME NEW j \in Jobs, RejectGarbled(i, j)
      PROVE  Promise!Next \/ UNCHANGED Promise!vars
  <2>1. j \notin Workable /\ ran' = ran /\ Settled(i, j, "dropped")
    BY <1>1 DEF RejectGarbled, Workable
  <2>2. channel[i] = "open" => holder[j] = i
    BY <1>1 DEF RejectGarbled, IInv, Custody
  <2>3. QED
    BY <2>1, <2>2, SettledRefines
<1>2. ASSUME NEW j \in Jobs, Run(i, j)
      PROVE  Promise!Next \/ UNCHANGED Promise!vars
  <2>1. queue[j] # "absent" /\ queue' = queue /\ ran' = [ran EXCEPT ![j] = @ + 1]
    BY <1>2 DEF Run, IInv, Traces
  <2>2. Seen(queue[j]) # "new"
    BY <2>1, SeenValues DEF IInv, TypeOK
  <2>3. Promise!Run(j)
    BY <2>1, <2>2 DEF Promise!Run
  <2>4. QED
    BY <2>3 DEF Promise!Next
<1>3. ASSUME Settle(i)
      PROVE  Promise!Next \/ UNCHANGED Promise!vars
  <2> DEFINE j == work[i]
             as == IF j \in Workable THEN "acked" ELSE "dropped"
  <2>1. j \in Jobs /\ j # None /\ ran' = ran /\ Settled(i, j, as)
    BY <1>3 DEF Settle, IInv, TypeOK
  <2>2. channel[i] = "open" => holder[j] = i
    BY <2>1 DEF IInv, Custody
  <2>3. ran[j] > 0
    BY <2>1 DEF IInv, Traces
  <2>4. as \in {"acked", "dropped"} /\ (as = "acked" <=> j \in Workable)
    OBVIOUS
  <2> HIDE DEF j, as
  <2>5. QED
    BY <2>1, <2>2, <2>3, <2>4, SettledRefines
<1>4. QED
  BY <1>1, <1>2, <1>3 DEF Worker

\* So is a step of the broker or of a publisher.
LEMMA BrokerRefines ==
  ASSUME IInv, IInv', Broker
  PROVE  Promise!Next \/ UNCHANGED Promise!vars
<1>1. ASSUME NEW j \in Jobs, Enqueue(j) PROVE Promise!Next
  <2>1. Promise!Become(j, Seen("ready")) /\ Seen(queue[j]) = "new"
    BY <1>1, OneMoves, SeenValues DEF Enqueue, worker
  <2>2. Promise!Take(j)
    BY <2>1, SeenValues DEF Promise!Take
  <2>3. QED
    BY <2>2 DEF Promise!Next
<1>2. ASSUME NEW j \in Jobs, Confirm(j) PROVE UNCHANGED Promise!vars
  BY <1>2 DEF Confirm, worker, Promise!vars
<1>3. ASSUME NEW i \in Instances, NEW j \in Jobs, Deliver(i, j) PROVE UNCHANGED Promise!vars
  <2>1. \A k \in Jobs : Seen(queue'[k]) = Seen(queue[k])
    BY <1>3, SeenValues DEF Deliver, IInv, TypeOK
  <2>2. QED
    BY <1>3, <2>1, Stutter DEF Deliver
<1>4. QED
  BY <1>1, <1>2, <1>3 DEF Broker

\* Putting back what was out changes nothing a client sees; a restart of the
\* broker loses all that is pending.
LEMMA FaultRefines ==
  ASSUME IInv, IInv', Faulty \/ \E i \in Instances : Crash(i)
  PROVE  Promise!Next \/ UNCHANGED Promise!vars
<1>1. ASSUME NEW i \in Instances, ran' = ran, PutBack(i) PROVE UNCHANGED Promise!vars
  <2>1. \A k \in Jobs : Seen(queue'[k]) = Seen(queue[k])
    BY <1>1, SeenValues DEF PutBack, IInv, TypeOK, Custody
  <2>2. QED
    BY <1>1, <2>1, Stutter
<1>2. CASE \E i \in Instances : Close(i) \/ Crash(i)
  BY <1>1, <1>2 DEF Close, Crash, worker
<1>3. CASE \E i \in Instances, j \in Jobs : Discard(i, j)
  BY <1>3 DEF Discard, Promise!vars
<1>4. CASE BrokerRestart
  <2>1. \A k \in Jobs : Seen(queue'[k]) = IF Seen(queue[k]) = "pending" THEN "lost" ELSE Seen(queue[k])
    BY <1>4, SeenValues DEF BrokerRestart, IInv, TypeOK
  <2>2. Promise!Forget
    BY <1>4, <2>1 DEF BrokerRestart, worker, Promise!Forget
  <2>3. QED
    BY <2>2 DEF Promise!Next
<1>5. QED
  BY <1>2, <1>3, <1>4 DEF Faulty

\* The queue implements JobPromise: with any number of instances that crash, lose
\* their channels and work on after that, a job leaves the queue only because it
\* was carried out, cannot be, or was lost by the broker.
THEOREM QueueKeepsPromise == Spec => KeepsPromise
<1>1. Init => Promise!Init
  <2> SUFFICES ASSUME Init PROVE Promise!Init
    OBVIOUS
  <2>1. \A j \in Jobs : Seen(queue[j]) = "new"
    BY SeenValues DEF Init
  <2>2. QED
    BY <2>1 DEF Init, Promise!Init
<1>2. IInv /\ IInv' /\ [Next]_vars => [Promise!Next]_(Promise!vars)
  <2> SUFFICES ASSUME IInv, IInv', [Next]_vars PROVE Promise!Next \/ UNCHANGED Promise!vars
    OBVIOUS
  <2>1. CASE UNCHANGED vars
    BY <2>1 DEF vars, Promise!vars
  <2>2. ASSUME NEW i \in Instances, Open(i) \/ \E j \in Jobs : Publish(i, j)
        PROVE  UNCHANGED Promise!vars
    BY <2>2 DEF Open, Publish, worker, Promise!vars
  <2>3. QED
    BY <2>1, <2>2, WorkerRefines, BrokerRefines, FaultRefines DEF Next
<1>3. QED
  BY <1>1, <1>2, Inductive, PTL DEF Spec, KeepsPromise, Promise!Spec

=============================================================================
