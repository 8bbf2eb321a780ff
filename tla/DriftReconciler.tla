--------------------------- MODULE DriftReconciler ---------------------------
(***************************************************************************)
(* The drift reconciler (api/internal/billing/reconciler.go), which        *)
(* compares what the outbox recorded for each tenant with what the billing *)
(* provider says it was charged, beside the outbox and its flusher; and    *)
(* the way of an alert: multiAlerter (api/cmd/apiserver/main.go), and the  *)
(* router and its pager (api/internal/alerting/alerting.go).               *)
(*                                                                         *)
(* The two sums of a tenant are read one after the other, the tenants one  *)
(* after the other, and the flusher goes on meanwhile.                     *)
(*                                                                         *)
(* The pass is the API server's (runDriftReconciler).  The separate binary *)
(* api/cmd/reconciler runs the same Run over a reporter that knows of no   *)
(* usage (it returns 0 for every tenant, main.go:117-127) and an alerter   *)
(* that posts without logging first (main.go:146-175).  It is not          *)
(* modelled, and neither property below is claimed of it.                  *)
(***************************************************************************)
EXTENDS BillingOutbox, FiniteSetsExt

CONSTANTS Payer,      \* the tenants
          PayerOf,    \* [Event -> Payer]
          Units,      \* [Event -> Nat], the units of an event
          Window,     \* events whose ts lies in the window compared
          Overlapping \* events whose usage summary overlaps that window

ASSUME DriftAssumption ==
    /\ IsFiniteSet(Event)
    /\ PayerOf \in [Event -> Payer]
    /\ Units \in [Event -> Nat \ {0}]
    /\ Window \subseteq Overlapping /\ Overlapping \subseteq Event

VARIABLE pass

driftVars == <<billingVars, pass>>

PassPc == {"idle", "sum", "usage", "log", "fire", "complete", "aborted", "failed"}

Kind == {"drift", "report_error"}

\* todo    tenants still to compare     tenant, ledger  the one at hand, its sum
\* kind    of the alert being raised    logged          the alerts of this pass
\* known, billed  what the outbox held when the pass began, for the properties
NoPass == [pc |-> "idle", todo |-> {}, tenant |-> NoEvent, ledger |-> 0, kind |-> "drift",
           logged |-> {}, known |-> {}, billed |-> {}]

\* Run leaves the tenant at hand: for the next one, or for good.
Leave(pc) == [pass EXCEPT !.pc = pc, !.tenant = NoEvent, !.ledger = 0, !.kind = "drift"]

DriftInit == BillingInit /\ pass = NoPass

----------------------------------------------------------------------------
(* The sums *)

\* Fault-seeded form of LedgerUnits: only the rows still pending are summed.
LedgerUnitsPending(t) ==
    MapThenSumSet(LAMBDA e : Units[e], {e \in Window : Pending(e) /\ PayerOf[e] = t})

\* TenantPeriodSum
LedgerUnits(t) ==
    MapThenSumSet(LAMBDA e : Units[e], {e \in Window : Recorded(e) /\ PayerOf[e] = t})

\* StripeBackend.UsageForTenant: the summaries of the metered items, in whole.  (A customer
\* that is not onboarded was never charged, and its usage is 0.)
StripeUnits(t) ==
    MapThenSumSet(LAMBDA e : charges[e] * Units[e],
                  {e \in Overlapping : Plan[e] = "metered" /\ PayerOf[e] = t})

\* Fault-seeded form of Drifts: usage that is missing altogether is not drift.
DriftsIfReported(ledger, stripe) == stripe > 0 /\ ledger # stripe

\* driftFraction(ledger, stripe) > DriftThreshold
Drifts(ledger, stripe) ==
    LET gap == IF ledger > stripe THEN ledger - stripe ELSE stripe - ledger IN
    1000 * gap > 5 * (IF ledger < 1 THEN 1 ELSE ledger)

----------------------------------------------------------------------------
(* Reconciler.Run *)

\* ListTenants: every tenant with a row, in no order.
StartPass ==
    /\ pass.pc \in {"idle", "complete", "aborted", "failed"}
    /\ pass' = [NoPass EXCEPT !.pc = "sum",
                              !.todo = {PayerOf[e] : e \in {x \in Event : Recorded(x)}},
                              !.known = {e \in Event : Recorded(e)},
                              !.billed = {e \in Event : outbox[e].billed}]
    /\ UNCHANGED billingVars

SumLedger ==
    /\ pass.pc = "sum"
    /\ \E t \in pass.todo :
         pass' = [pass EXCEPT !.pc = "usage", !.todo = @ \ {t}, !.tenant = t,
                              !.ledger = LedgerUnits(t)]
    /\ UNCHANGED billingVars

\* An error of the sum ends the pass.
SumFails ==
    /\ pass.pc = "sum" /\ pass.todo # {}
    /\ pass' = [pass EXCEPT !.pc = "failed"]
    /\ UNCHANGED billingVars

Compare ==
    /\ pass.pc = "usage"
    /\ pass' = IF Drifts(pass.ledger, StripeUnits(pass.tenant))
               THEN [pass EXCEPT !.pc = "log", !.kind = "drift"]
               ELSE Leave("sum")
    /\ UNCHANGED billingVars

\* "One tenant failure shouldn't abort the whole run."
UsageFails ==
    /\ pass.pc = "usage"
    /\ pass' = [pass EXCEPT !.pc = "log", !.kind = "report_error"]
    /\ UNCHANGED billingVars

EndReconcile ==
    /\ pass.pc = "sum" /\ pass.todo = {}
    /\ pass' = [pass EXCEPT !.pc = "complete"]
    /\ UNCHANGED billingVars

----------------------------------------------------------------------------
(* multiAlerter.Alert, and Router.Fire with PagerDuty behind it *)

Alert == [kind |-> pass.kind, tenant |-> pass.tenant]

\* logAlerter comes first; it always succeeds on these payloads.
LogAlert ==
    /\ pass.pc = "log"
    /\ pass' = [pass EXCEPT !.pc = "fire", !.logged = @ \cup {Alert}]
    /\ UNCHANGED billingVars

\* Every alert is Critical, which the pager handles; or there is no router.
Fire ==
    /\ pass.pc = "fire"
    /\ pass' = Leave("sum")
    /\ UNCHANGED billingVars

\* The error of a drift alert is returned by Run; that of a report_error is not.
AfterPagerError == IF pass.kind = "drift" THEN "aborted" ELSE "sum"

FireFails ==
    /\ pass.pc = "fire"
    /\ pass' = Leave(AfterPagerError)
    /\ UNCHANGED billingVars

----------------------------------------------------------------------------

\* The server stops, by a crash or a signal.  Pass and flusher end with it, each at
\* its own time, so that each is a step: this one, and Crash of BillingOutbox.
PassDies ==
    /\ pass' = NoPass
    /\ UNCHANGED billingVars

PassStep ==
    \/ StartPass \/ SumLedger \/ SumFails \/ Compare \/ UsageFails \/ EndReconcile
    \/ LogAlert \/ Fire \/ FireFails \/ PassDies

DriftNext == PassStep \/ (BillingNext /\ UNCHANGED pass)

DriftSpec == DriftInit /\ [][DriftNext]_driftVars

----------------------------------------------------------------------------
(* Properties *)

Told(t) == \E k \in Kind : [kind |-> k, tenant |-> t] \in pass.logged

\* None of what the tenant used has been charged to it.
Unpaid(t) == \A e \in Event : PayerOf[e] = t /\ Plan[e] = "metered" => charges[e] = 0

Owing == {PayerOf[e] : e \in pass.known \cap Window}

\* A pass that comes to its end has told of every tenant with usage recorded
\* before it began, none of which has been charged: dead-lettered rows, rows that
\* come in between the two reads of a tenant, and usage that could not be read
\* hide none of them.  (A page that cannot be sent ends the pass: the tenants
\* after it are not told of, and the claim is of the passes that complete.)
UnpaidIsTold ==
    pass.pc = "complete" => \A t \in Owing : Unpaid(t) => Told(t)

\* What was recorded for the tenant, or charged to it, is all metered, all of the
\* window's, and had been billed before the pass began.
Reconciled(t) ==
    \A e \in Overlapping : PayerOf[e] = t /\ (Recorded(e) \/ charges[e] > 0) =>
        e \in Window /\ Plan[e] = "metered" /\ e \in pass.billed

\* "A run with zero drift is silent" (reconciler.go:63): no drift is told of a
\* reconciled tenant.  Retries of the flusher do not show as drift.
BilledIsQuiet ==
    \A t \in Payer : [kind |-> "drift", tenant |-> t] \in pass.logged => ~Reconciled(t)
=============================================================================
