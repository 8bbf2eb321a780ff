---------------------------- MODULE ChargePromise ----------------------------
(***************************************************************************)
(* What billing (api/internal/billing) promises about the events it        *)
(* records, whatever fails, is retried or restarted: an event is charged   *)
(* for at most once, only if its plan is to charge, and only until it is   *)
(* settled; it is stamped billed when it was charged for or is included,   *)
(* and given up on otherwise; and that is the end of it.                   *)
(* BillingOutbox implements this.                                          *)
(***************************************************************************)
EXTENDS Naturals

CONSTANTS Event, Plan

VARIABLES state,   \* [Event -> {"new", "owed", "billed", "dead"}]
          charged  \* [Event -> Nat], charges made for it

chargeVars == <<state, charged>>

ChargeInit ==
    /\ state = [e \in Event |-> "new"]
    /\ charged = [e \in Event |-> 0]

Becomes(e, s) == state' = [state EXCEPT ![e] = s] /\ UNCHANGED charged

Owe(e) == state[e] = "new" /\ Becomes(e, "owed")

\* The one charge.
ChargeFor(e) ==
    /\ state[e] = "owed" /\ charged[e] = 0
    /\ Plan[e] \in {"metered", "oneshot"}
    /\ charged' = [charged EXCEPT ![e] = 1]
    /\ UNCHANGED state

Bill(e) ==
    /\ state[e] = "owed"
    /\ charged[e] = 1 \/ Plan[e] = "skip"
    /\ Becomes(e, "billed")

\* It may have been charged for: the answer can be lost each time.
GiveUp(e) == state[e] = "owed" /\ Plan[e] # "skip" /\ Becomes(e, "dead")

ChargeNext == \E e \in Event : Owe(e) \/ ChargeFor(e) \/ Bill(e) \/ GiveUp(e)

ChargeSpec == ChargeInit /\ [][ChargeNext]_chargeVars
=============================================================================
