----------------------------- MODULE JobPromise ------------------------------
(***************************************************************************)
(* What the API promises its clients about jobs (api/internal/server,      *)
(* jobs, queue and dispatcher together), whatever goes on inside: a job    *)
(* that was accepted, or that shows as queued or running, is due for work  *)
(* until it has ended, and along the way it keeps to its life cycle.       *)
(* JobPipeline, with all its processes, leases, faults and restarts,       *)
(* implements this.                                                        *)
(***************************************************************************)
EXTENDS JobLifecycle

VARIABLES due,      \* jobs a worker will be handed, again and again
          promised  \* jobs a client was told 202 Accepted about

promiseVars == <<status, due, promised>>

PromiseInit == Init /\ due = {} /\ promised = {}

Ended(j) == status[j] \in Terminal

\* The job is created, and nothing is promised yet.
Admit(j) == Create(j) /\ UNCHANGED <<due, promised>>

\* Only a job that exists becomes due.
Put(j) ==
    /\ status[j] # "absent"
    /\ due' = due \cup {j}
    /\ UNCHANGED <<status, promised>>

\* The client is told so only when the job is due, or over already.
Promise(j) ==
    /\ j \in due \/ Ended(j)
    /\ promised' = promised \cup {j}
    /\ UNCHANGED <<status, due>>

\* Nobody shows a job as queued or running that no worker will be handed.
Advance(j, to) ==
    /\ to \in {"queued", "running"} => j \in due
    /\ Move(j, to)
    /\ UNCHANGED <<due, promised>>

\* Work on a job stops being due when the job has ended, and not before.
Drop(j) ==
    /\ Ended(j)
    /\ due' = due \ {j}
    /\ UNCHANGED <<status, promised>>

PromiseNext ==
    \E j \in Jobs :
        \/ Admit(j) \/ Put(j) \/ Promise(j) \/ Drop(j)
        \/ \E to \in Status : Advance(j, to)

PromiseSpec == PromiseInit /\ [][PromiseNext]_promiseVars
=============================================================================
