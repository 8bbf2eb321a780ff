---------------------------- MODULE JobLifecycle ----------------------------
(***************************************************************************)
(* What api/internal/jobs promises about one job, whoever drives it: a job *)
(* is created once and afterwards only moves along the edges of `allowed`. *)
(* JobPipeline, with its racing handlers and workers, implements this.     *)
(***************************************************************************)
CONSTANT Jobs

VARIABLE status

Terminal == {"succeeded", "failed", "cancelled"}

\* Edges of the state machine: from |-> the states it may move to.
Edges ==
    [submitted |-> {"queued", "cancelled", "failed"},
     queued    |-> {"running", "cancelled", "failed"},
     running   |-> Terminal,
     succeeded |-> {}, failed |-> {}, cancelled |-> {}, absent |-> {}]

Status == {"submitted", "queued", "running"} \cup Terminal

allowed(from, to) == to \in Edges[from]

Init == status = [j \in Jobs |-> "absent"]

Create(j) ==
    /\ status[j] = "absent"
    /\ status' = [status EXCEPT ![j] = "submitted"]

Move(j, to) ==
    /\ allowed(status[j], to)
    /\ status' = [status EXCEPT ![j] = to]

Next == \E j \in Jobs : Create(j) \/ \E to \in Status : Move(j, to)

Spec == Init /\ [][Next]_status
=============================================================================
