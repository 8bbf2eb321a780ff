--------------------------- MODULE MCJobPipeline ----------------------------
(***************************************************************************)
(* Small instances of JobPipeline for TLC.  A budget bounds the requests   *)
(* of clients and the faults of a run.                                     *)
(***************************************************************************)
EXTENDS JobPipeline, TLC

\* DefaultWorkerConfig: every worker claims as "worker-default".
DefaultToken == [w \in Worker |-> "worker-default"]

\* Workers configured with tokens of their own.
OwnToken == [w \in Worker |-> w]

\* A submission, a cancel, and two faults of any kind.
FaultyBudget == [post |-> 1, cancel |-> 1, fault |-> 2]

\* Two submissions, or one and its retry, a cancel and one failing fleet.SubmitJob.
CalmBudget == [post |-> 2, cancel |-> 1, fault |-> 1]

\* One submission, no cancel, one fault.
OneFault == [post |-> 1, cancel |-> 0, fault |-> 1]

Symmetry == Permutations(Jobs) \cup Permutations(Tasks) \cup Permutations(Handler)
            \cup Permutations(Worker)
=============================================================================
