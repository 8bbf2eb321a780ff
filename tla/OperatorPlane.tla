--------------------------- MODULE OperatorPlane ----------------------------
(***************************************************************************)
(* The operator plane (owera-fleet) is another repository.  This is what   *)
(* api/internal/dispatcher relies on: fleet.SubmitJob creates a task and   *)
(* returns its id, a task eventually writes one terminal ledger phase, and *)
(* fleet.CancelTask may abort a task that is still working.                *)
(***************************************************************************)
EXTENDS CloudIds

VARIABLE task       \* [Tasks -> Phase]

Ended == {"complete", "failed", "cancelled"}

Phase == {"none", "working"} \cup Ended

OperatorInit == task = [t \in Tasks |-> "none"]

Accept(t) == task' = [task EXCEPT ![t] = "working"]

\* The agent on the task writes its terminal ledger entry.
Finish(t, phase) ==
    /\ task[t] = "working"
    /\ task' = [task EXCEPT ![t] = phase]

\* The plane may refuse a cancel, or find the task ended already.
CancelTask(t) ==
    \/ task[t] = "working" /\ task' = [task EXCEPT ![t] = "cancelled"]
    \/ UNCHANGED task
=============================================================================
