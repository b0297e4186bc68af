----------------------------- MODULE JobService -----------------------------
(***************************************************************************)
(* What the analysis service promises to whoever submits jobs to it: a job *)
(* that was taken in is finished at most once, with one result that never  *)
(* changes afterwards, and nothing happens to any job once the process is  *)
(* down.  JobPipeline, the detailed model of the service's goroutines and  *)
(* channels, is shown to implement this specification.                     *)
(***************************************************************************)

CONSTANTS Jobs,      \* the jobs that may be submitted
          Outcomes,  \* what a finished job's result can be
          None       \* no result yet

VARIABLES status,    \* [Jobs -> {"new", "pending", "finished"}]
          outcome,   \* [Jobs -> Outcomes \cup {None}], what GET /jobs/{id} finds
          service    \* "up" or "down"

vars == <<status, outcome, service>>

Init ==
    /\ status = [j \in Jobs |-> "new"]
    /\ outcome = [j \in Jobs |-> None]
    /\ service = "up"

(* A job is taken in. *)
Take(j) ==
    /\ service = "up"
    /\ status[j] = "new"
    /\ status' = [status EXCEPT ![j] = "pending"]
    /\ UNCHANGED <<outcome, service>>

(* A pending job gets its one result. *)
Finish(j) ==
    /\ service = "up"
    /\ status[j] = "pending"
    /\ status' = [status EXCEPT ![j] = "finished"]
    /\ \E o \in Outcomes : outcome' = [outcome EXCEPT ![j] = o]
    /\ UNCHANGED service

(* The process ends; pending jobs are lost with it. *)
Stop ==
    /\ service = "up"
    /\ service' = "down"
    /\ UNCHANGED <<status, outcome>>

Next ==
    \/ \E j \in Jobs : Take(j) \/ Finish(j)
    \/ Stop

Spec == Init /\ [][Next]_vars
=============================================================================
