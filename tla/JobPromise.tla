----------------------------- MODULE JobPromise -----------------------------
(***************************************************************************)
(* What the job queue promises of the jobs the broker has taken, whoever   *)
(* carries them, works on them or fails: a job leaves the queue because it *)
(* was carried out, because it cannot be, or because the broker lost its   *)
(* memory; a job that was carried out may be carried out again.            *)
(***************************************************************************)
EXTENDS Naturals

CONSTANTS
  Jobs,
  Workable    \* the jobs process_job succeeds on

VARIABLES
  status,     \* "new", "pending", "done", "refused" or "lost"
  ran         \* how often process_job was run on it

vars == <<status, ran>>

Init ==
  /\ status = [j \in Jobs |-> "new"]
  /\ ran = [j \in Jobs |-> 0]

Become(j, s) == status' = [status EXCEPT ![j] = s] /\ UNCHANGED ran

Take(j) == status[j] = "new" /\ Become(j, "pending")

Run(j) ==
  /\ status[j] # "new"
  /\ ran' = [ran EXCEPT ![j] = @ + 1]
  /\ UNCHANGED status

Finish(j) == status[j] = "pending" /\ j \in Workable /\ ran[j] > 0 /\ Become(j, "done")

Refuse(j) == status[j] = "pending" /\ j \notin Workable /\ Become(j, "refused")

\* The broker forgets all it has, at once.
Forget ==
  /\ status' = [j \in Jobs |-> IF status[j] = "pending" THEN "lost" ELSE status[j]]
  /\ UNCHANGED ran

Next == (\E j \in Jobs : Take(j) \/ Run(j) \/ Finish(j) \/ Refuse(j)) \/ Forget

Spec == Init /\ [][Next]_vars
=============================================================================
