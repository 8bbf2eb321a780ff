------------------------------ MODULE JobStore ------------------------------
(***************************************************************************)
(* The `jobs` table (api/internal/jobs/jobs.go).  A member of Jobs stands  *)
(* for one logical submission: a (tenant, idempotency key) pair and the    *)
(* row the unique index allows it.  Store.Transition is not one atomic     *)
(* step: it reads the row (Get), checks `allowed`, and then issues an      *)
(* UPDATE that is conditional on the status it read.  The two halves are   *)
(* the operators below; JobPipeline interleaves them.                      *)
(***************************************************************************)
EXTENDS CloudIds

VARIABLE job        \* [Jobs -> [status, task]]

Terminal == {"succeeded", "failed", "cancelled"}

Status == {"submitted", "queued", "running"} \cup Terminal

IsTerminal(j) == job[j].status \in Terminal

Exists(j) == job[j].status # "absent"

\* Fault-seeded form of `allowed`: a running job may be marked running again,
\* which is the obvious patch for the re-delivery loop of a running job.
allowedAgain(from, to) ==
    \/ from = "submitted" /\ to \in {"queued", "cancelled", "failed"}
    \/ from = "queued"    /\ to \in {"running", "cancelled", "failed"}
    \/ from = "running"   /\ to \in Terminal \cup {"running"}

allowed(from, to) ==
    \/ from = "submitted" /\ to \in {"queued", "cancelled", "failed"}
    \/ from = "queued"    /\ to \in {"running", "cancelled", "failed"}
    \/ from = "running"   /\ to \in Terminal

JobInit == job = [j \in Jobs |-> [status |-> "absent", task |-> None]]

\* Fault-seeded form of Submit: INSERT OR REPLACE, whatever row a retry finds.
SubmitAfresh(j) == job' = [job EXCEPT ![j] = [status |-> "submitted", task |-> None]]

\* Submit: an existing row is returned untouched, otherwise it is inserted.
Submit(j) ==
    job' = IF Exists(j) THEN job
           ELSE [job EXCEPT ![j] = [status |-> "submitted", task |-> None]]

\* Fault-seeded form of StatusStill: the UPDATE forgets AND status=?.
StatusWhatever(j, seen) == TRUE

\* The guard AND status=? of the UPDATE: nobody moved the job since the read.
StatusStill(j, seen) == job[j].status = seen

\* The UPDATE itself.  An empty task id leaves operator_task_id alone.
Update(j, to, t) ==
    job' = [job EXCEPT ![j] = [status |-> to,
                               task   |-> IF t = None THEN @.task ELSE t]]
=============================================================================
