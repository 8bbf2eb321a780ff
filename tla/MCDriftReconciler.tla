------------------------- MODULE MCDriftReconciler --------------------------
(***************************************************************************)
(* Small instances of DriftReconciler, and of BillingOutbox, for TLC.      *)
(***************************************************************************)
EXTENDS DriftReconciler, TLC

\* A metered event, a one-shot charge, and an event with no StripeRef.
CONSTANTS e1, e2, e3

MixedPlan ==
    [e \in Event |-> CASE e = e1 -> "metered" [] e = e2 -> "oneshot" [] OTHER -> "none"]

CONSTANTS t1, t2

\* The metered event is one tenant's, the others' are another's.
TwoPayers == [e \in Event |-> IF e = e1 THEN t1 ELSE t2]

OneUnit == [e \in Event |-> 1]
=============================================================================
