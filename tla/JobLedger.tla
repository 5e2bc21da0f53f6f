----------------------------- MODULE JobLedger -----------------------------
(***************************************************************************)
(* What a caller of the refresh tool may rely on, whatever processes,      *)
(* threads, locks and files stand behind it: every job has a life of its   *)
(* own that only moves forward, a scope has one unfinished job at a time,  *)
(* and a job is forgotten only once it is finished.                        *)
(* (Section 5 of docs/long_running_refresh_job_design.md draws this life;  *)
(* the statuses are RefreshJobStatus of refresh_job_store.py.)             *)
(***************************************************************************)
CONSTANTS Jobs, Scopes, NoScope

VARIABLES
    status,   \* of each job, "absent" before it is accepted
    scope     \* of each job, NoScope while it is absent or forgotten

vars == <<status, scope>>

Unfinished == {"queued", "running"}
Finished == {"succeeded", "failed", "interrupted"}

\* The moves of one job.  A write that finishes a job may forget it as well,
\* when enough newer jobs are already finished.
Moves ==
    {<<"absent", "queued">>, <<"queued", "running">>, <<"queued", "interrupted">>}
    \cup ({"running"} \X Finished)
    \cup ((Unfinished \cup Finished) \X {"forgotten"})

Moved(j) == status'[j] # status[j]
Becomes(j, st) == Moved(j) /\ status'[j] = st

Init ==
    /\ status = [j \in Jobs |-> "absent"]
    /\ scope = [j \in Jobs |-> NoScope]

\* One write may settle many jobs, but it accepts or starts one at most.
Next ==
    /\ \A j \in Jobs : Moved(j) => <<status[j], status'[j]>> \in Moves
    /\ \A j, k \in Jobs :
         /\ status'[j] \in {"queued", "running"} /\ Moved(j)
         /\ status'[k] \in {"queued", "running"} /\ Moved(k)
         => j = k
    /\ \A j \in Jobs :
         \/ scope'[j] = scope[j]
         \/ Becomes(j, "queued") /\ scope'[j] \in Scopes
         \/ Becomes(j, "forgotten") /\ scope'[j] = NoScope
    /\ \A j, k \in Jobs :
         /\ Becomes(j, "queued")
         /\ status'[k] \in Unfinished /\ scope'[k] = scope'[j]
         => j = k

Spec == Init /\ [][Next]_vars
=============================================================================
