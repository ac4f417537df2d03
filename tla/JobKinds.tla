------------------------------ MODULE JobKinds ------------------------------
(* What is fixed of the job queue: who is there, and what each job is. *)
EXTENDS Naturals, FiniteSets

CONSTANTS
  None,
  Instances,   \* the processes of the program
  Jobs,
  Kind,        \* Kind[j]: the job_type of j, or "garbled" if j does not parse
  MaxJobs,     \* bound: how many of Jobs are published
  MaxFaults    \* bound: channels lost, processes killed, restarts of the broker

Kinds == {"email", "data_process", "other", "garbled"}

ASSUME KindAssumption == Kind \in [Jobs -> Kinds]
ASSUME PartiesAssumption == None \notin Instances \cup Jobs /\ IsFiniteSet(Instances)
ASSUME FaultsAssumption == MaxFaults \in Nat

\* The jobs process_job answers Ok for.
Workable == {j \in Jobs : Kind[j] \in {"email", "data_process"}}
=============================================================================
