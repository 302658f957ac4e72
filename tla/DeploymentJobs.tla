--------------------------- MODULE DeploymentJobs ---------------------------
(***************************************************************************)
(* What the attempt machinery promises its clients, without processes,     *)
(* locks, tasks or crashes: a deployment has at most one job under way, a  *)
(* job ends once with one result, and a cancellation that was accepted     *)
(* while the job was under way is its result.                              *)
(***************************************************************************)
CONSTANTS Dep, Att, Null

Results == {"succeeded", "partial", "failed", "cancelled", "unknown"}

VARIABLES job,        \* "none", "active" or the result
          owner,      \* the deployment of a job
          cancelled   \* jobs whose cancellation was accepted

vars == <<job, owner, cancelled>>

Init ==
  /\ job = [a \in Att |-> "none"]
  /\ owner = [a \in Att |-> Null]
  /\ cancelled = {}

\* A job is opened only when its deployment has no other job under way.
Open(a, d) ==
  /\ job[a] = "none"
  /\ \A b \in Att : owner[b] = d => job[b] # "active"
  /\ job' = [job EXCEPT ![a] = "active"]
  /\ owner' = [owner EXCEPT ![a] = d]
  /\ UNCHANGED cancelled

AcceptCancel(a) ==
  /\ job[a] = "active"
  /\ cancelled' = cancelled \cup {a}
  /\ UNCHANGED <<job, owner>>

Close(a, result) ==
  /\ job[a] = "active"
  /\ a \in cancelled => result = "cancelled"
  /\ job' = [job EXCEPT ![a] = result]
  /\ UNCHANGED <<owner, cancelled>>

Next ==
  \E a \in Att :
    \/ \E d \in Dep : Open(a, d)
    \/ AcceptCancel(a)
    \/ \E result \in Results : Close(a, result)

Spec == Init /\ [][Next]_vars
=============================================================================
