--------------------------- MODULE MCBillCapture ----------------------------
(***************************************************************************)
(* Small instances of BillCapture for TLC.                                 *)
(***************************************************************************)
EXTENDS BillCapture, TLC

CONSTANTS e1, e2, e3

\* A metered event and a one-shot charge.
MixedPlan == [e \in Event |-> IF e = e1 THEN "metered" ELSE "oneshot"]

\* A metered event, one that is included in a subscription, and one with no
\* StripeRef.
SkipPlan ==
    [e \in Event |-> CASE e = e1 -> "metered" [] e = e2 -> "skip" [] OTHER -> "none"]
=============================================================================
