--------------------------- MODULE BillingOutbox ----------------------------
(***************************************************************************)
(* The billing outbox (api/internal/billing/billing.go), the loop of       *)
(* cmd/apiserver that flushes it, and the billing provider.                *)
(*                                                                         *)
(* Record inserts one row per ledger entry id.  Reconcile takes a snapshot *)
(* of the pending rows, emits a charge for each and then stamps the row;   *)
(* the emit and the stamp are two steps, and a failure of either leaves    *)
(* the row to a later pass, so that what stands between a customer and a   *)
(* second charge is the idempotency key the provider remembers.            *)
(***************************************************************************)
EXTENDS Integers, FiniteSets

CONSTANTS Event,       \* ledger entry ids of bill events
          Plan,        \* [Event -> PlanKind], what planFor makes of an event
          Threshold,   \* deadLetterThreshold()
          Faults,      \* the kinds of fault that may happen
          FaultBudget, \* how many of them there may be
          NoEvent

\* What planFor returns, "none" being an error (no such SKU, no StripeRef).
PlanKind == {"metered", "oneshot", "skip", "none"}

\* What may go wrong.
\*   refuse  the provider or the customer lookup refuses the charge
\*   lost    the provider charges and its answer is lost
\*   mark    the UPDATE of a row fails
\*   record  the INSERT of a row fails
\*   crash   the API server crashes or is restarted
\*   window  the provider forgets the key of a row that is still pending
FaultKind == {"refuse", "lost", "mark", "record", "crash", "window"}

ASSUME BillingAssumption ==
    /\ NoEvent \notin Event
    /\ Plan \in [Event -> PlanKind]
    /\ Threshold \in Nat \ {0}
    /\ Faults \subseteq FaultKind
    /\ FaultBudget \in Nat

VARIABLES outbox,    \* [Event -> OutboxRow], the row of each entry id
          nextId,    \* AUTOINCREMENT
          flusher,   \* the pass of Reconcile under way
          charges,   \* [Event -> Nat], charges the provider has made
          keys,      \* events whose idempotency key the provider remembers
          faults     \* what is left of FaultBudget

billingVars == <<outbox, nextId, flusher, charges, keys, faults>>

\* id 0: there is no row.
OutboxRow == [id: Nat, billed: BOOLEAN, dead: BOOLEAN, failures: Nat]

NoRow == [id |-> 0, billed |-> FALSE, dead |-> FALSE, failures |-> 0]

\* The unflushed rest of a snapshot: what Reconcile read of each pending row.
Snapshot == [entry: Event, id: Nat, failures: Nat]

FlusherPc == {"idle", "next", "emit", "mark", "fail"}

\* todo  the rest of the snapshot        entry, failures  the row at hand
Flusher == [pc: FlusherPc, todo: SUBSET Snapshot,
            entry: Event \cup {NoEvent}, failures: Nat]

Idle == [pc |-> "idle", todo |-> {}, entry |-> NoEvent, failures |-> 0]

BillingInit ==
    /\ outbox = [e \in Event |-> NoRow]
    /\ nextId = 1
    /\ flusher = Idle
    /\ charges = [e \in Event |-> 0]
    /\ keys = {}
    /\ faults = FaultBudget

Recorded(e) == outbox[e].id # 0

Settled(e) == outbox[e].billed \/ outbox[e].dead

\* Fault-seeded form of Pending: dead-lettered rows are read like any other.
PendingOrDead(e) == Recorded(e) /\ ~outbox[e].billed

\* billed_at IS NULL AND dead_lettered_at IS NULL
Pending(e) == Recorded(e) /\ ~Settled(e)

Fault(kind) ==
    /\ kind \in Faults /\ faults > 0
    /\ faults' = faults - 1

----------------------------------------------------------------------------
(* Service.Record *)

\* INSERT OR IGNORE: an entry id that has a row keeps it.
Record(e) ==
    IF Recorded(e)
    THEN UNCHANGED <<outbox, nextId>>
    ELSE /\ outbox' = [outbox EXCEPT ![e] = [NoRow EXCEPT !.id = nextId]]
         /\ nextId' = nextId + 1

RecordBill(e) ==
    /\ Record(e)
    /\ UNCHANGED <<flusher, charges, keys, faults>>

RecordFails ==
    /\ Fault("record")
    /\ UNCHANGED <<outbox, nextId, flusher, charges, keys>>

----------------------------------------------------------------------------
(* Service.Reconcile *)

At(pc) == flusher.pc = pc

\* The flusher moves on to the next row of its snapshot.
NextRow == flusher' = [Idle EXCEPT !.pc = "next", !.todo = flusher.todo]

\* A tick of the flusher: the SELECT.  (One that finds no row changes nothing.)
SelectPending ==
    /\ At("idle")
    /\ \E e \in Event : Pending(e)
    /\ flusher' = [Idle EXCEPT
         !.pc = "next",
         !.todo = {[entry |-> e, id |-> outbox[e].id, failures |-> outbox[e].failures] :
                     e \in {x \in Event : Pending(x)}}]
    /\ UNCHANGED <<outbox, nextId, charges, keys, faults>>

\* Fault-seeded form of PlannedPc: the kind of the plan is taken as it is.
PlannedPcVerbatim(e) == Plan[e]

\* Fault-seeded form of PlannedPc: an event without a plan is taken for included.
PlannedPcIncluded(e) == IF Plan[e] \in {"none", "skip"} THEN "mark" ELSE "emit"

\* planFor: whether the row is emitted, only stamped, or failed.
PlannedPc(e) ==
    CASE Plan[e] = "none" -> "fail"
      [] Plan[e] = "skip" -> "mark"
      [] OTHER            -> "emit"

\* The next row of the snapshot, in the order of the ids.
TakeRow ==
    /\ At("next")
    /\ \E p \in flusher.todo :
         /\ \A q \in flusher.todo : p.id <= q.id
         /\ flusher' = [pc |-> PlannedPc(p.entry), todo |-> flusher.todo \ {p},
                        entry |-> p.entry, failures |-> p.failures]
    /\ UNCHANGED <<outbox, nextId, charges, keys, faults>>

EndPass ==
    /\ At("next") /\ flusher.todo = {}
    /\ flusher' = Idle
    /\ UNCHANGED <<outbox, nextId, charges, keys, faults>>

\* Fault-seeded form of SameKey: the key is not stable across retries.
SameKeyNever(e) == FALSE

\* The key of a charge is made of its kind, the tenant and the entry id, which
\* e fixes: a retry shows the provider the key of the first attempt.
SameKey(e) == e \in keys

\* The provider: a key it remembers gets the original answer.
Charge(e) ==
    /\ charges' = IF SameKey(e) THEN charges ELSE [charges EXCEPT ![e] = @ + 1]
    /\ keys' = keys \cup {e}

Emit ==
    /\ At("emit")
    /\ Charge(flusher.entry)
    /\ flusher' = [flusher EXCEPT !.pc = "mark"]
    /\ UNCHANGED <<outbox, nextId, faults>>

\* Fault-seeded form of AfterEmitError: the row is stamped all the same.
AfterEmitErrorStamped == "mark"

\* The branch taken on an error of EmitUsage and EmitOneShot.
AfterEmitError == "fail"

\* The charge is refused, or made and its answer lost.
EmitFails ==
    /\ At("emit")
    /\ \/ Fault("refuse") /\ UNCHANGED <<charges, keys>>
       \/ Fault("lost") /\ Charge(flusher.entry)
    /\ flusher' = [flusher EXCEPT !.pc = AfterEmitError]
    /\ UNCHANGED <<outbox, nextId>>

MarkBilled ==
    /\ At("mark")
    /\ outbox' = [outbox EXCEPT ![flusher.entry].billed = TRUE]
    /\ NextRow
    /\ UNCHANGED <<nextId, charges, keys, faults>>

\* Fault-seeded form of ReachesThreshold: the row is given up on one early.
ReachesThresholdEarly(count) == count + 1 >= Threshold

ReachesThreshold(count) == count >= Threshold

\* Fault-seeded form of Failed: the failure is not counted.
FailedUncounted(row, count) == row

\* recordFailure, count being nextCount, one more than the snapshot's.
Failed(row, count) ==
    [row EXCEPT !.failures = count,
                !.dead = @ \/ ReachesThreshold(count)]

RecordFailure ==
    /\ At("fail")
    /\ outbox' = [outbox EXCEPT
         ![flusher.entry] = Failed(@, flusher.failures + 1)]
    /\ NextRow
    /\ UNCHANGED <<nextId, charges, keys, faults>>

\* Either UPDATE fails: the row stays as it is and the pass goes on.
UpdateFails ==
    /\ At("mark") \/ At("fail")
    /\ Fault("mark")
    /\ NextRow
    /\ UNCHANGED <<outbox, nextId, charges, keys>>

----------------------------------------------------------------------------
(* The environment *)

\* The snapshot dies with the process.
Crash ==
    /\ Fault("crash")
    /\ flusher' = Idle
    /\ UNCHANGED <<outbox, nextId, charges, keys>>

\* The provider remembers a key for 24 hours.  That a row is settled by then
\* holds while passes run every minute, and is given up with the window fault.
ForgetKey(e) ==
    /\ e \in keys
    /\ IF Settled(e) THEN UNCHANGED faults ELSE Fault("window")
    /\ keys' = keys \ {e}
    /\ UNCHANGED <<outbox, nextId, flusher, charges>>

----------------------------------------------------------------------------

FlusherStep ==
    \/ SelectPending \/ TakeRow \/ EndPass
    \/ Emit \/ MarkBilled \/ RecordFailure

FlusherFault == EmitFails \/ UpdateFails

BillingNext ==
    \/ \E e \in Event : RecordBill(e) \/ ForgetKey(e)
    \/ RecordFails
    \/ FlusherStep \/ FlusherFault
    \/ Crash

BillingSpec == BillingInit /\ [][BillingNext]_billingVars

\* The flusher's ticker never stops.  Events and faults are never owed.
FairBilling == BillingSpec /\ WF_billingVars(FlusherStep)

----------------------------------------------------------------------------
(* Properties *)

\* The variables hold what the table, the flusher and the provider can hold.
BillingTypeOK ==
    /\ outbox \in [Event -> OutboxRow]
    /\ nextId \in Nat \ {0}
    /\ flusher \in Flusher
    /\ charges \in [Event -> Nat]
    /\ keys \subseteq Event
    /\ faults \in Nat

\* "Retries never double-charge" (billing.go:12): refused charges, lost answers,
\* failing stamps and restarts in any order lead to one charge at most.
ChargedOnce == \A e \in Event : charges[e] <= 1

\* A row stamped billed stands for a charge, unless its plan is not to charge,
\* and a row that was given up on was not also billed.
BilledIsCharged ==
    \A e \in Event : outbox[e].billed =>
        /\ ~outbox[e].dead
        /\ Plan[e] # "skip" => charges[e] > 0

\* A settled row is out of the flusher's reach: no later pass, and no pass that
\* read the row before it was settled, charges for it or stamps it again.
SettledIsFinal ==
    [][\A e \in Event : Settled(e) =>
          outbox'[e] = outbox[e] /\ charges'[e] = charges[e]]_billingVars

\* What has become of an event.
StateOf(e) ==
    IF outbox[e].billed THEN "billed"
    ELSE IF outbox[e].dead THEN "dead"
    ELSE IF Recorded(e) THEN "owed" ELSE "new"

Customer == INSTANCE ChargePromise WITH
    state <- [e \in Event |-> StateOf(e)], charged <- charges

\* Emits and stamps in steps of their own, lost answers, failing stamps, snapshots
\* that grew old and restarts come to no more than ChargePromise allows: one charge
\* at most, only by plan, before the stamp and never after the row is settled.
ChargesAsPromised == Customer!ChargeSpec

\* Every recorded event is billed or given up on: a row that always fails does
\* not block those behind it, and is itself retried a bounded number of times.
RecordedSettles == \A e \in Event : Recorded(e) ~> Settled(e)

\* With fewer faults than the threshold, every event that has a plan is billed,
\* whatever its neighbours in the outbox do.
BillableIsBilled ==
    \A e \in Event : Plan[e] # "none" => (Recorded(e) ~> outbox[e].billed)
=============================================================================
