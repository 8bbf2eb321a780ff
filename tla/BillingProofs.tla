--------------------------- MODULE BillingProofs ----------------------------
(***************************************************************************)
(* Theorems about BillingOutbox for every set of events, every plan, every *)
(* threshold and every number of faults.                                   *)
(***************************************************************************)
EXTENDS BillingOutbox, TLAPS

\* Only rows that exist are settled.
SettledRecorded == \A e \in Event : Settled(e) => Recorded(e)

\* What the flusher still has to do are rows that are pending, one entry each.
TodoPending ==
    /\ \A p \in flusher.todo : Pending(p.entry)
    /\ \A p, q \in flusher.todo : p.entry = q.entry => p = q

\* So is the row at hand, which is not among them.
RowAtHand ==
    ~At("idle") /\ ~At("next") =>
        /\ flusher.entry \in Event
        /\ Pending(flusher.entry)
        /\ \A p \in flusher.todo : p.entry # flusher.entry

\* A row about to be stamped has been charged for, unless the plan is not to.
MarkIsCharged ==
    At("mark") => Plan[flusher.entry] = "skip" \/ charges[flusher.entry] > 0

\* A key is remembered of charges only.
KeysCharged == \A e \in keys : charges[e] > 0

PassInv ==
    /\ SettledRecorded /\ TodoPending /\ RowAtHand
    /\ MarkIsCharged /\ BilledIsCharged /\ KeysCharged

\* The provider remembers the key of every charge that may still be retried.
KeyInv ==
    /\ ChargedOnce
    /\ \A e \in Event : charges[e] > 0 /\ ~Settled(e) => e \in keys

----------------------------------------------------------------------------
(* Type correctness *)

LEMMA TypeInit == BillingInit => BillingTypeOK
BY BillingAssumption DEF BillingInit, BillingTypeOK, OutboxRow, NoRow, Flusher, FlusherPc, Idle

\* The flusher between two rows.
LEMMA NextRowType ==
    ASSUME BillingTypeOK, NextRow
    PROVE  /\ flusher' \in Flusher
           /\ flusher'.pc = "next" /\ flusher'.todo = flusher.todo
BY DEF BillingTypeOK, NextRow, Flusher, FlusherPc, Idle

LEMMA FailedType ==
    ASSUME NEW row \in OutboxRow, NEW count \in Nat
    PROVE  Failed(row, count) \in OutboxRow
BY DEF Failed, OutboxRow

LEMMA ChargeType ==
    ASSUME BillingTypeOK, NEW e \in Event, Charge(e)
    PROVE  charges' \in [Event -> Nat] /\ keys' \subseteq Event
BY DEF BillingTypeOK, Charge, SameKey

LEMMA FaultType ==
    ASSUME BillingTypeOK, NEW kind, Fault(kind)
    PROVE  faults' \in Nat
BY DEF BillingTypeOK, Fault

\* One step preserves the types, given that a row at hand is a row.
LEMMA TypeStep ==
    ASSUME BillingTypeOK, RowAtHand, [BillingNext]_billingVars
    PROVE  BillingTypeOK'
<1> USE DEF BillingTypeOK
<1>1. ASSUME NEW e \in Event, RecordBill(e)
      PROVE  BillingTypeOK'
  <2>1. [NoRow EXCEPT !.id = nextId] \in OutboxRow
    BY DEF NoRow, OutboxRow
  <2> QED BY <1>1, <2>1 DEF RecordBill, Record
<1>2. ASSUME NEW e \in Event, ForgetKey(e)
      PROVE  BillingTypeOK'
  <2>1. faults' \in Nat
    BY <1>2, FaultType DEF ForgetKey
  <2> QED BY <1>2, <2>1 DEF ForgetKey
<1>3. CASE RecordFails
  BY <1>3, FaultType DEF RecordFails
<1>4. CASE SelectPending
  <2> DEFINE todo == {[entry |-> e, id |-> outbox[e].id, failures |-> outbox[e].failures] :
                        e \in {x \in Event : Pending(x)}}
  <2>1. todo \subseteq Snapshot
    BY DEF Snapshot, OutboxRow
  <2>2. flusher' = [pc |-> "next", todo |-> todo, entry |-> NoEvent, failures |-> 0]
    BY <1>4 DEF SelectPending, Idle
  <2>3. flusher' \in Flusher
    BY <2>1, <2>2 DEF Flusher, FlusherPc
  <2> QED BY <1>4, <2>3 DEF SelectPending
<1>5. CASE TakeRow
  <2>1. PICK p \in flusher.todo :
             flusher' = [pc |-> PlannedPc(p.entry), todo |-> flusher.todo \ {p},
                         entry |-> p.entry, failures |-> p.failures]
    BY <1>5 DEF TakeRow
  <2>2. flusher.todo \subseteq Snapshot
    BY DEF Flusher
  <2>3. p.entry \in Event /\ p.failures \in Nat /\ flusher.todo \ {p} \subseteq Snapshot
    BY <2>2 DEF Snapshot
  <2>4. PlannedPc(p.entry) \in FlusherPc
    BY DEF PlannedPc, FlusherPc
  <2>5. flusher' \in Flusher
    BY <2>1, <2>3, <2>4 DEF Flusher
  <2> QED BY <1>5, <2>5 DEF TakeRow
<1>6. CASE EndPass
  BY <1>6 DEF EndPass, Idle, Flusher, FlusherPc
<1>7. CASE Emit
  <2>1. flusher.entry \in Event
    BY <1>7 DEF Emit, RowAtHand, At
  <2>2. charges' \in [Event -> Nat] /\ keys' \subseteq Event
    BY <1>7, <2>1, ChargeType DEF Emit
  <2>3. flusher' \in Flusher
    BY <1>7 DEF Emit, Flusher, FlusherPc
  <2> QED BY <1>7, <2>2, <2>3 DEF Emit
<1>8. CASE EmitFails
  <2>1. flusher.entry \in Event
    BY <1>8 DEF EmitFails, RowAtHand, At
  <2>2. charges' \in [Event -> Nat] /\ keys' \subseteq Event
    BY <1>8, <2>1, ChargeType DEF EmitFails
  <2>3. flusher' \in Flusher
    BY <1>8 DEF EmitFails, AfterEmitError, Flusher, FlusherPc
  <2>4. faults' \in Nat
    BY <1>8, FaultType DEF EmitFails
  <2> QED BY <1>8, <2>2, <2>3, <2>4 DEF EmitFails
<1>9. CASE MarkBilled
  <2>1. outbox' \in [Event -> OutboxRow]
    BY <1>9 DEF MarkBilled, OutboxRow
  <2> QED BY <1>9, <2>1, NextRowType DEF MarkBilled
<1>10. CASE RecordFailure
  <2>1. flusher.entry \in Event /\ flusher.failures + 1 \in Nat
    BY <1>10 DEF RecordFailure, RowAtHand, At, Flusher
  <2>2. Failed(outbox[flusher.entry], flusher.failures + 1) \in OutboxRow
    BY <2>1, FailedType
  <2>3. outbox' \in [Event -> OutboxRow]
    BY <1>10, <2>1, <2>2 DEF RecordFailure
  <2> QED BY <1>10, <2>3, NextRowType DEF RecordFailure
<1>11. CASE UpdateFails
  BY <1>11, NextRowType, FaultType DEF UpdateFails
<1>12. CASE Crash
  <2>1. Idle \in Flusher
    BY DEF Idle, Flusher, FlusherPc
  <2> QED BY <1>12, <2>1, FaultType DEF Crash
<1>13. CASE UNCHANGED billingVars
  BY <1>13 DEF billingVars
<1> QED
  BY <1>1, <1>2, <1>3, <1>4, <1>5, <1>6, <1>7, <1>8, <1>9, <1>10, <1>11, <1>12, <1>13
  DEF BillingNext, FlusherStep, FlusherFault

----------------------------------------------------------------------------
(* The flusher and its rows *)

LEMMA PassInit == BillingInit => PassInv
BY DEF BillingInit, PassInv, SettledRecorded, TodoPending, RowAtHand, MarkIsCharged,
       BilledIsCharged, KeysCharged, At, Idle, NoRow, Settled

\* Only the row at hand is stamped; it stays in the table.
LEMMA StampedRow ==
    ASSUME BillingTypeOK, MarkBilled \/ RecordFailure, flusher.entry \in Event
    PROVE  /\ \A e \in Event \ {flusher.entry} : outbox'[e] = outbox[e]
           /\ outbox'[flusher.entry].id = outbox[flusher.entry].id
           /\ MarkBilled => /\ outbox'[flusher.entry].billed
                            /\ outbox'[flusher.entry].dead = outbox[flusher.entry].dead
           /\ RecordFailure => outbox'[flusher.entry].billed = outbox[flusher.entry].billed
<1> DEFINE e == flusher.entry
<1>1. outbox[e] \in OutboxRow
  BY DEF BillingTypeOK
<1>2. CASE MarkBilled
  <2>1. outbox' = [outbox EXCEPT ![e] = [outbox[e] EXCEPT !.billed = TRUE]]
    BY <1>2 DEF MarkBilled
  <2>2. outbox'[e] = [outbox[e] EXCEPT !.billed = TRUE]
    BY <2>1 DEF BillingTypeOK
  <2>3. ~RecordFailure
    BY <1>2 DEF MarkBilled, RecordFailure, At
  <2> QED BY <1>1, <2>1, <2>2, <2>3 DEF BillingTypeOK, OutboxRow
<1>3. CASE RecordFailure
  <2>1. outbox' = [outbox EXCEPT ![e] = Failed(outbox[e], flusher.failures + 1)]
    BY <1>3 DEF RecordFailure
  <2>2. outbox'[e] = Failed(outbox[e], flusher.failures + 1)
    BY <2>1 DEF BillingTypeOK
  <2>3. ~MarkBilled
    BY <1>3 DEF MarkBilled, RecordFailure, At
  <2>4. /\ outbox'[e].id = outbox[e].id
        /\ outbox'[e].billed = outbox[e].billed
    BY <1>1, <2>2 DEF Failed, OutboxRow
  <2> QED BY <2>1, <2>3, <2>4 DEF BillingTypeOK
<1> QED BY <1>2, <1>3

\* A step that leaves flusher, table and charges alone.
LEMMA PassUndisturbed ==
    ASSUME PassInv, UNCHANGED <<outbox, flusher, charges>>, keys' \subseteq keys
    PROVE  PassInv'
BY DEF PassInv, SettledRecorded, TodoPending, RowAtHand, MarkIsCharged, BilledIsCharged,
       KeysCharged, At, Settled, Pending, Recorded

\* A step that leaves the table alone and only moves the flusher to its next row.
LEMMA PassMovesOn ==
    ASSUME PassInv, UNCHANGED <<outbox, charges, keys>>,
           flusher'.pc \in {"idle", "next"}, flusher'.todo \subseteq flusher.todo
    PROVE  PassInv'
BY DEF PassInv, SettledRecorded, TodoPending, RowAtHand, MarkIsCharged, BilledIsCharged,
       KeysCharged, At, Settled, Pending, Recorded

\* What Charge does to the events: it charges for one and for no other.
LEMMA ChargeEffect ==
    ASSUME BillingTypeOK, NEW e \in Event, Charge(e)
    PROVE  /\ \A x \in Event \ {e} : charges'[x] = charges[x]
           /\ e \in keys => charges'[e] = charges[e]
           /\ e \notin keys => charges'[e] = charges[e] + 1
           /\ keys' = keys \cup {e}
BY DEF BillingTypeOK, Charge, SameKey
\* No charge is taken back, and keys still are of charges only.
MoreCharged ==
    /\ \A x \in Event : charges[x] > 0 => charges'[x] > 0
    /\ \A x \in keys' : charges'[x] > 0

LEMMA ChargedAfter ==
    ASSUME BillingTypeOK, KeysCharged, NEW e \in Event, Charge(e)
    PROVE  charges'[e] > 0 /\ MoreCharged
<1>1. charges[e] \in Nat /\ keys \subseteq Event
  BY DEF BillingTypeOK
<1>2. charges'[e] > 0
  BY <1>1, ChargeEffect DEF KeysCharged
<1>3. \A x \in Event \ {e} : charges'[x] = charges[x]
  BY ChargeEffect
<1>4. keys' = keys \cup {e}
  BY ChargeEffect
<1> QED BY <1>1, <1>2, <1>3, <1>4 DEF MoreCharged, KeysCharged

\* The flusher decides what to do with the row at hand.
LEMMA PassChanges ==
    ASSUME PassInv, At("emit"), UNCHANGED outbox, MoreCharged, NEW pc \in {"mark", "fail"},
           flusher' = [pc |-> pc, todo |-> flusher.todo,
                       entry |-> flusher.entry, failures |-> flusher.failures],
           pc = "mark" => charges'[flusher.entry] > 0
    PROVE  PassInv'
<1> USE DEF PassInv
<1>1. SettledRecorded' /\ TodoPending' /\ RowAtHand'
  BY DEF SettledRecorded, TodoPending, RowAtHand, At, Settled, Pending, Recorded
<1>2. MarkIsCharged'
  BY DEF MarkIsCharged, At
<1>3. BilledIsCharged' /\ KeysCharged'
  BY DEF BilledIsCharged, KeysCharged, MoreCharged
<1> QED BY <1>1, <1>2, <1>3

LEMMA PassInvStep ==
    ASSUME BillingTypeOK, PassInv, [BillingNext]_billingVars
    PROVE  PassInv'
<1> USE DEF PassInv
<1>1. ASSUME NEW e \in Event, RecordBill(e)
      PROVE  PassInv'
  <2>1. UNCHANGED <<flusher, charges, keys>>
    BY <1>1 DEF RecordBill
  <2>2. CASE Recorded(e)
    <3>1. UNCHANGED outbox
      BY <1>1, <2>2 DEF RecordBill, Record
    <3> QED BY <2>1, <3>1, PassUndisturbed
  <2>3. CASE ~Recorded(e)
    <3>1. \A x \in Event \ {e} : outbox'[x] = outbox[x]
      BY <1>1, <2>3 DEF RecordBill, Record, BillingTypeOK
    <3>2. outbox'[e] = [NoRow EXCEPT !.id = nextId]
      BY <1>1, <2>3 DEF RecordBill, Record, BillingTypeOK
    <3>3. outbox'[e].id # 0 /\ ~outbox'[e].billed /\ ~outbox'[e].dead
      BY <3>2 DEF NoRow, BillingTypeOK
    <3>4. SettledRecorded'
      BY <3>1, <3>3 DEF SettledRecorded, Settled, Recorded
    <3>5. \A x \in Event : Pending(x) => Pending(x)'
      BY <3>1, <3>3 DEF Pending, Recorded, Settled
    <3>6. \A p \in flusher.todo : p.entry \in Event
      BY DEF BillingTypeOK, Flusher, Snapshot
    <3>7. TodoPending'
      BY <2>1, <3>5, <3>6 DEF TodoPending
    <3>8. RowAtHand' /\ MarkIsCharged'
      BY <2>1, <3>5 DEF RowAtHand, MarkIsCharged, At
    <3>9. BilledIsCharged'
      BY <2>1, <3>1, <3>3 DEF BilledIsCharged
    <3> QED BY <2>1, <3>4, <3>7, <3>8, <3>9 DEF KeysCharged
  <2> QED BY <2>2, <2>3
<1>2. ASSUME NEW e \in Event, ForgetKey(e)
      PROVE  PassInv'
  BY <1>2, PassUndisturbed DEF ForgetKey
<1>3. CASE RecordFails
  BY <1>3, PassUndisturbed DEF RecordFails
<1>4. CASE SelectPending
  <2> DEFINE todo == {[entry |-> e, id |-> outbox[e].id, failures |-> outbox[e].failures] :
                        e \in {x \in Event : Pending(x)}}
  <2>1. flusher' = [pc |-> "next", todo |-> todo, entry |-> NoEvent, failures |-> 0]
    BY <1>4 DEF SelectPending, Idle
  <2>2. UNCHANGED <<outbox, charges, keys>>
    BY <1>4 DEF SelectPending
  <2>3. \A p \in todo : Pending(p.entry)
    OBVIOUS
  <2>4. \A p, q \in todo : p.entry = q.entry => p = q
    OBVIOUS
  <2>5. TodoPending'
    BY <2>1, <2>2, <2>3, <2>4 DEF TodoPending, Pending, Recorded, Settled
  <2>6. RowAtHand' /\ MarkIsCharged'
    BY <2>1 DEF RowAtHand, MarkIsCharged, At
  <2> QED BY <2>2, <2>5, <2>6 DEF SettledRecorded, BilledIsCharged, KeysCharged, Settled, Recorded
<1>5. CASE TakeRow
  <2>1. PICK p \in flusher.todo :
             flusher' = [pc |-> PlannedPc(p.entry), todo |-> flusher.todo \ {p},
                         entry |-> p.entry, failures |-> p.failures]
    BY <1>5 DEF TakeRow
  <2>2. UNCHANGED <<outbox, charges, keys>>
    BY <1>5 DEF TakeRow
  <2>3. p.entry \in Event
    BY DEF BillingTypeOK, Flusher, Snapshot
  <2>4. TodoPending'
    BY <2>1, <2>2 DEF TodoPending, Pending, Recorded, Settled
  <2>5. RowAtHand'
    BY <2>1, <2>2, <2>3 DEF RowAtHand, TodoPending, Pending, Recorded, Settled
  <2>6. MarkIsCharged'
    BY <2>1 DEF MarkIsCharged, At, PlannedPc
  <2> QED BY <2>2, <2>4, <2>5, <2>6 DEF SettledRecorded, BilledIsCharged, KeysCharged, Settled, Recorded
<1>6. CASE EndPass
  <2>1. flusher'.pc = "idle" /\ flusher'.todo \subseteq flusher.todo
    BY <1>6 DEF EndPass, Idle
  <2> QED BY <1>6, <2>1, PassMovesOn DEF EndPass
<1>7. CASE Emit
  <2>1. flusher.entry \in Event
    BY <1>7 DEF Emit, RowAtHand, At
  <2>2. charges'[flusher.entry] > 0 /\ MoreCharged
    BY <1>7, <2>1, ChargedAfter DEF Emit
  <2>3. flusher' = [pc |-> "mark", todo |-> flusher.todo,
                    entry |-> flusher.entry, failures |-> flusher.failures]
    BY <1>7 DEF Emit, BillingTypeOK, Flusher
  <2>4. UNCHANGED outbox
    BY <1>7 DEF Emit
  <2>5. At("emit")
    BY <1>7 DEF Emit
  <2> QED BY <2>1, <2>2, <2>3, <2>4, <2>5, PassChanges
<1>8. CASE EmitFails
  <2>1. flusher.entry \in Event
    BY <1>8 DEF EmitFails, RowAtHand, At
  <2>2. MoreCharged
    <3>1. CASE Charge(flusher.entry)
      BY <2>1, <3>1, ChargedAfter
    <3>2. CASE UNCHANGED <<charges, keys>>
      BY <3>2 DEF MoreCharged, KeysCharged, BillingTypeOK
    <3> QED BY <1>8, <3>1, <3>2 DEF EmitFails
  <2>3. flusher' = [pc |-> "fail", todo |-> flusher.todo,
                    entry |-> flusher.entry, failures |-> flusher.failures]
    BY <1>8 DEF EmitFails, AfterEmitError, BillingTypeOK, Flusher
  <2>4. UNCHANGED outbox
    BY <1>8 DEF EmitFails
  <2>5. At("emit")
    BY <1>8 DEF EmitFails
  <2> QED BY <2>1, <2>2, <2>3, <2>4, <2>5, PassChanges
<1>9. CASE MarkBilled \/ RecordFailure
  <2>1. flusher.entry \in Event /\ Pending(flusher.entry)
    BY <1>9 DEF MarkBilled, RecordFailure, RowAtHand, At
  <2>2. \A p \in flusher.todo : p.entry \in Event \ {flusher.entry}
    BY <1>9 DEF MarkBilled, RecordFailure, RowAtHand, At, BillingTypeOK, Flusher, Snapshot
  <2>3. flusher'.pc = "next" /\ flusher'.todo = flusher.todo
    BY <1>9, NextRowType DEF MarkBilled, RecordFailure
  <2>4. UNCHANGED <<charges, keys>>
    BY <1>9 DEF MarkBilled, RecordFailure
  <2>5. \A e \in Event : Recorded(e)' <=> Recorded(e)
    BY <1>9, <2>1, StampedRow DEF Recorded
  <2>6. \A e \in Event \ {flusher.entry} : Settled(e)' <=> Settled(e)
    BY <1>9, <2>1, StampedRow DEF Settled
  <2>7. SettledRecorded'
    BY <2>1, <2>5, <2>6 DEF SettledRecorded, Pending
  <2>8. TodoPending'
    BY <2>2, <2>3, <2>5, <2>6 DEF TodoPending, Pending
  <2>9. RowAtHand' /\ MarkIsCharged'
    BY <2>3 DEF RowAtHand, MarkIsCharged, At
  <2>10. MarkBilled => Plan[flusher.entry] = "skip" \/ charges[flusher.entry] > 0
    BY DEF MarkBilled, MarkIsCharged
  <2>11. BilledIsCharged'
    <3>1. SUFFICES ASSUME NEW e \in Event, outbox'[e].billed
                   PROVE  ~outbox'[e].dead /\ (Plan[e] # "skip" => charges[e] > 0)
      BY <2>4 DEF BilledIsCharged
    <3>2. CASE e # flusher.entry
      BY <1>9, <2>1, <3>1, <3>2, StampedRow DEF BilledIsCharged
    <3>3. CASE e = flusher.entry
      BY <1>9, <2>1, <2>10, <3>1, <3>3, StampedRow DEF Pending, Settled
    <3> QED BY <3>2, <3>3
  <2> QED BY <2>4, <2>7, <2>8, <2>9, <2>11 DEF KeysCharged
<1>10. CASE UpdateFails
  <2>1. flusher'.pc = "next" /\ flusher'.todo = flusher.todo
    BY <1>10, NextRowType DEF UpdateFails
  <2> QED BY <1>10, <2>1, PassMovesOn DEF UpdateFails
<1>11. CASE Crash
  <2>1. flusher'.pc = "idle" /\ flusher'.todo = {}
    BY <1>11 DEF Crash, Idle
  <2> QED BY <1>11, <2>1, PassMovesOn DEF Crash
<1>12. CASE UNCHANGED billingVars
  BY <1>12, PassUndisturbed DEF billingVars
<1> QED
  BY <1>1, <1>2, <1>3, <1>4, <1>5, <1>6, <1>7, <1>8, <1>9, <1>10, <1>11, <1>12
  DEF BillingNext, FlusherStep, FlusherFault
----------------------------------------------------------------------------
(* The invariants as theorems *)

\* Types and the flusher's invariant support each other.
LEMMA PassInvariant == BillingSpec => [](BillingTypeOK /\ PassInv)
<1>1. BillingInit => BillingTypeOK /\ PassInv
  BY TypeInit, PassInit
<1>2. BillingTypeOK /\ PassInv /\ [BillingNext]_billingVars => (BillingTypeOK /\ PassInv)'
  BY TypeStep, PassInvStep DEF PassInv
<1> QED BY <1>1, <1>2, PTL DEF BillingSpec

\* The outbox, the flusher and the provider keep their types (billing.go).
THEOREM BillingTypeCorrect == BillingSpec => []BillingTypeOK
BY PassInvariant, PTL

\* A row is stamped billed by Reconcile only when the provider has charged for
\* it, or its plan is to skip it, and never when it was dead-lettered.
THEOREM BilledRowsAreCharged == BillingSpec => []BilledIsCharged
<1>1. PassInv => BilledIsCharged
  BY DEF PassInv
<1> QED BY <1>1, PassInvariant, PTL

\* A settled row is out of reach of every step.
LEMMA SettledKept ==
    ASSUME BillingTypeOK, PassInv, [BillingNext]_billingVars, NEW e \in Event, Settled(e)
    PROVE  outbox'[e] = outbox[e] /\ charges'[e] = charges[e]
<1>1. ASSUME NEW x \in Event, RecordBill(x)
      PROVE  outbox'[e] = outbox[e] /\ charges'[e] = charges[e]
  <2>1. Recorded(e)
    BY DEF PassInv, SettledRecorded
  <2>2. outbox'[e] = outbox[e]
    BY <1>1, <2>1 DEF RecordBill, Record, BillingTypeOK
  <2> QED BY <1>1, <2>2 DEF RecordBill
<1>2. CASE Emit \/ EmitFails
  <2>1. flusher.entry \in Event /\ flusher.entry # e
    BY <1>2 DEF Emit, EmitFails, PassInv, RowAtHand, At, Pending
  <2>2. Charge(flusher.entry) \/ UNCHANGED charges
    BY <1>2 DEF Emit, EmitFails
  <2>3. charges'[e] = charges[e]
    BY <2>1, <2>2, ChargeEffect
  <2> QED BY <1>2, <2>3 DEF Emit, EmitFails
<1>3. CASE MarkBilled \/ RecordFailure
  <2>1. flusher.entry \in Event /\ flusher.entry # e
    BY <1>3 DEF MarkBilled, RecordFailure, PassInv, RowAtHand, At, Pending
  <2>2. outbox'[e] = outbox[e]
    BY <1>3, <2>1, StampedRow
  <2> QED BY <1>3, <2>2 DEF MarkBilled, RecordFailure
<1>4. CASE \/ RecordFails \/ SelectPending \/ TakeRow \/ EndPass \/ UpdateFails
           \/ Crash \/ (\E x \in Event : ForgetKey(x)) \/ UNCHANGED billingVars
  BY <1>4 DEF RecordFails, SelectPending, TakeRow, EndPass, UpdateFails, Crash,
              ForgetKey, billingVars
<1> QED BY <1>1, <1>2, <1>3, <1>4 DEF BillingNext, FlusherStep, FlusherFault

\* Rows and charges are not taken back.
LEMMA BillingGrows ==
    ASSUME BillingTypeOK, PassInv, [BillingNext]_billingVars, NEW e \in Event
    PROVE  /\ Recorded(e) => Recorded(e)'
           /\ charges[e] > 0 => charges'[e] > 0
           /\ outbox[e].billed => outbox'[e].billed
<1>1. outbox[e].billed => outbox'[e].billed
  BY SettledKept DEF Settled
<1>2. ASSUME NEW x \in Event, RecordBill(x)
      PROVE  (Recorded(e) => Recorded(e)') /\ UNCHANGED charges
  BY <1>2 DEF RecordBill, Record, Recorded, BillingTypeOK
<1>3. CASE Emit \/ EmitFails
  <2>1. flusher.entry \in Event /\ UNCHANGED outbox
    BY <1>3 DEF Emit, EmitFails, PassInv, RowAtHand, At
  <2>2. CASE Charge(flusher.entry)
    BY <1>1, <2>1, <2>2, ChargedAfter DEF MoreCharged, Recorded, PassInv
  <2>3. CASE UNCHANGED charges
    BY <1>1, <2>1, <2>3 DEF Recorded
  <2> QED BY <1>3, <2>2, <2>3 DEF Emit, EmitFails
<1>4. CASE MarkBilled \/ RecordFailure
  <2>1. flusher.entry \in Event /\ UNCHANGED charges
    BY <1>4 DEF MarkBilled, RecordFailure, PassInv, RowAtHand, At
  <2> QED BY <1>1, <1>4, <2>1, StampedRow DEF Recorded
<1>5. CASE UNCHANGED <<outbox, charges>>
  BY <1>5 DEF Recorded
<1> QED
  BY <1>1, <1>2, <1>3, <1>4, <1>5
  DEF BillingNext, FlusherStep, FlusherFault, RecordFails, SelectPending, TakeRow, EndPass,
      UpdateFails, Crash, ForgetKey, billingVars

\* A row that is billed or dead-lettered is never charged for or stamped again.
THEOREM SettledRowsAreFinal == BillingSpec => SettledIsFinal
<1> DEFINE A == \A e \in Event : Settled(e) =>
                    outbox'[e] = outbox[e] /\ charges'[e] = charges[e]
<1>1. BillingTypeOK /\ PassInv /\ [BillingNext]_billingVars => A
  BY SettledKept
<1> QED BY <1>1, PassInvariant, PTL DEF BillingSpec, SettledIsFinal

----------------------------------------------------------------------------
(* No event is charged for twice *)

\* A settled row stays settled.
LEMMA SettledStays ==
    ASSUME BillingTypeOK, PassInv, [BillingNext]_billingVars,
           NEW e \in Event, Settled(e)
    PROVE  Settled(e)'
<1>1. ASSUME NEW x \in Event, RecordBill(x)
      PROVE  Settled(e)'
  <2>1. Recorded(e)
    BY DEF PassInv, SettledRecorded
  <2> QED BY <1>1, <2>1 DEF RecordBill, Record, Settled, BillingTypeOK
<1>2. CASE MarkBilled \/ RecordFailure
  <2>1. flusher.entry \in Event /\ flusher.entry # e
    BY <1>2 DEF MarkBilled, RecordFailure, PassInv, RowAtHand, At, Pending
  <2> QED BY <1>2, <2>1, StampedRow DEF Settled
<1>3. CASE UNCHANGED outbox
  BY <1>3 DEF Settled
<1> QED
  BY <1>1, <1>2, <1>3
  DEF BillingNext, FlusherStep, FlusherFault, RecordFails, SelectPending, TakeRow, EndPass,
      Emit, EmitFails, UpdateFails, Crash, ForgetKey, billingVars

LEMMA KeyStep ==
    ASSUME BillingTypeOK, PassInv, KeyInv, [BillingNext]_billingVars, "window" \notin Faults
    PROVE  KeyInv'
<1>1. CASE Emit \/ EmitFails
  <2> DEFINE e == flusher.entry
  <2>1. e \in Event /\ Pending(e)
    BY <1>1 DEF Emit, EmitFails, PassInv, RowAtHand, At
  <2>2. UNCHANGED outbox
    BY <1>1 DEF Emit, EmitFails
  <2>3. CASE Charge(e)
    <3>1. charges[e] \in Nat /\ charges[e] <= 1
      BY <2>1 DEF BillingTypeOK, KeyInv, ChargedOnce
    <3>2. e \notin keys => charges[e] = 0
      BY <2>1, <3>1 DEF KeyInv, Pending
    <3>3. charges'[e] <= 1
      BY <2>1, <2>3, <3>1, <3>2, ChargeEffect
    <3>4. \A x \in Event \ {e} : charges'[x] = charges[x]
      BY <2>1, <2>3, ChargeEffect
    <3>5. keys' = keys \cup {e}
      BY <2>1, <2>3, ChargeEffect
    <3> QED BY <2>1, <2>2, <3>3, <3>4, <3>5 DEF KeyInv, ChargedOnce, Settled
  <2>4. CASE UNCHANGED <<charges, keys>>
    BY <2>2, <2>4 DEF KeyInv, ChargedOnce, Settled
  <2> QED BY <1>1, <2>3, <2>4 DEF Emit, EmitFails
<1>2. ASSUME NEW e \in Event, ForgetKey(e)
      PROVE  KeyInv'
  <2>1. Settled(e)
    BY <1>2 DEF ForgetKey, Fault
  <2> QED BY <1>2, <2>1 DEF ForgetKey, KeyInv, ChargedOnce, Settled
<1>3. CASE UNCHANGED <<charges, keys>>
  <2>1. \A e \in Event : Settled(e) => Settled(e)'
    BY SettledStays
  <2> QED BY <1>3, <2>1 DEF KeyInv, ChargedOnce
<1> QED
  BY <1>1, <1>2, <1>3
  DEF BillingNext, FlusherStep, FlusherFault, RecordBill, RecordFails, SelectPending, TakeRow,
      EndPass, MarkBilled, RecordFailure, UpdateFails, Crash, billingVars

\* "Retries never double-charge" (billing.go): while the provider remembers the
\* keys of unsettled rows, no event is charged for twice, whatever is refused,
\* lost, interrupted or retried.
THEOREM NeverChargedTwice ==
    ASSUME "window" \notin Faults
    PROVE  BillingSpec => []ChargedOnce
<1>1. BillingInit => KeyInv
  BY DEF BillingInit, KeyInv, ChargedOnce
<1>2. BillingTypeOK /\ PassInv /\ KeyInv /\ [BillingNext]_billingVars => KeyInv'
  BY KeyStep
<1>3. KeyInv => ChargedOnce
  BY DEF KeyInv
<1> QED BY <1>1, <1>2, <1>3, PassInvariant, PTL DEF BillingSpec

----------------------------------------------------------------------------
(* BillingOutbox implements ChargePromise *)

States == [e \in Event |-> StateOf(e)]

\* What is emitted is planned to be, and what fails is not included.
ByPlan ==
    /\ At("emit") => Plan[flusher.entry] \in {"metered", "oneshot"}
    /\ At("fail") => Plan[flusher.entry] # "skip"

LEMMA PlanStep ==
    ASSUME BillingTypeOK, PassInv, ByPlan, [BillingNext]_billingVars
    PROVE  ByPlan'
<1>1. CASE TakeRow
  <2>1. PICK p \in flusher.todo :
          flusher' = [pc |-> PlannedPc(p.entry), todo |-> flusher.todo \ {p},
                      entry |-> p.entry, failures |-> p.failures]
    BY <1>1 DEF TakeRow
  <2>2. p.entry \in Event
    BY DEF BillingTypeOK, Flusher, Snapshot
  <2>3. /\ PlannedPc(p.entry) = "emit" => Plan[p.entry] \in {"metered", "oneshot"}
        /\ PlannedPc(p.entry) = "fail" => Plan[p.entry] # "skip"
    BY <2>2, BillingAssumption DEF PlannedPc, PlanKind
  <2> QED BY <2>1, <2>3 DEF ByPlan, At
<1>2. CASE Emit \/ EmitFails
  <2>1. At("emit") /\ flusher'.entry = flusher.entry /\ flusher'.pc \in {"mark", "fail"}
    BY <1>2 DEF Emit, EmitFails, AfterEmitError, BillingTypeOK, Flusher
  <2> QED BY <2>1 DEF ByPlan, At
<1>3. CASE SelectPending \/ EndPass \/ MarkBilled \/ RecordFailure \/ UpdateFails \/ Crash
  <2>1. flusher'.pc \in {"idle", "next"}
    <3>1. CASE EndPass \/ Crash
      BY <3>1 DEF EndPass, Crash, Idle
    <3>2. CASE SelectPending
      BY <3>2 DEF SelectPending, Idle
    <3>3. CASE MarkBilled \/ RecordFailure \/ UpdateFails
      <4>1. NextRow
        BY <3>3 DEF MarkBilled, RecordFailure, UpdateFails
      <4> QED BY <4>1 DEF NextRow, Idle
    <3> QED BY <1>3, <3>1, <3>2, <3>3
  <2> QED BY <2>1 DEF ByPlan, At
<1>4. CASE UNCHANGED flusher
  BY <1>4 DEF ByPlan, At
<1> QED
  BY <1>1, <1>2, <1>3, <1>4
  DEF BillingNext, FlusherStep, FlusherFault, RecordBill, RecordFails, ForgetKey, billingVars

\* The customer is charged, or nothing changes for it.
CustomerStep == Customer!ChargeNext \/ UNCHANGED <<States, charges>>

LEMMA RecordPromise ==
    ASSUME BillingTypeOK, PassInv, NEW e \in Event, RecordBill(e)
    PROVE  CustomerStep
<1>1. CASE Recorded(e)
  BY <1>1 DEF RecordBill, Record, CustomerStep, States, StateOf, Recorded
<1>2. CASE ~Recorded(e)
  <2>1. StateOf(e) = "new"
    BY <1>2 DEF PassInv, SettledRecorded, Settled, StateOf
  <2>2. outbox' = [outbox EXCEPT ![e] = [NoRow EXCEPT !.id = nextId]] /\ UNCHANGED charges
    BY <1>2 DEF RecordBill, Record
  <2>3. outbox'[e] = [NoRow EXCEPT !.id = nextId] /\ \A x \in Event \ {e} : outbox'[x] = outbox[x]
    BY <2>2 DEF BillingTypeOK
  <2>4. outbox'[e].id # 0 /\ ~outbox'[e].billed /\ ~outbox'[e].dead
    BY <2>3 DEF NoRow, BillingTypeOK
  <2>5. States' = [States EXCEPT ![e] = "owed"]
    BY <2>3, <2>4 DEF States, StateOf, Recorded
  <2>6. Customer!Owe(e)
    BY <2>1, <2>2, <2>5 DEF Customer!Owe, Customer!Becomes, States
  <2> QED BY <2>6 DEF CustomerStep, Customer!ChargeNext
<1> QED BY <1>1, <1>2

\* The second of two emits shows a key the provider knows.
LEMMA EmitPromise ==
    ASSUME BillingTypeOK, PassInv, KeyInv, ByPlan, Emit \/ EmitFails
    PROVE  CustomerStep
<1>1. PICK e \in Event : e = flusher.entry
  BY DEF Emit, EmitFails, PassInv, RowAtHand, At
<1>2. UNCHANGED outbox /\ Pending(e) /\ Plan[e] \in {"metered", "oneshot"}
  BY <1>1 DEF Emit, EmitFails, PassInv, RowAtHand, ByPlan, At
<1>3. States' = States /\ States[e] = "owed"
  BY <1>2 DEF States, StateOf, Recorded, Pending, Settled
<1>4. CASE UNCHANGED charges
  BY <1>3, <1>4 DEF CustomerStep
<1>5. CASE Charge(e)
  <2>1. CASE e \in keys
    BY <1>3, <1>5, <2>1 DEF CustomerStep, Charge, SameKey
  <2>2. CASE e \notin keys
    <3>1. charges[e] = 0
      BY <1>2, <2>2 DEF KeyInv, Pending, BillingTypeOK
    <3>2. charges' = [charges EXCEPT ![e] = 1]
      BY <1>5, <2>2, <3>1 DEF Charge, SameKey
    <3>3. Customer!ChargeFor(e)
      BY <1>2, <1>3, <3>1, <3>2 DEF Customer!ChargeFor, States
    <3> QED BY <3>3 DEF CustomerStep, Customer!ChargeNext
  <2> QED BY <2>1, <2>2
<1> QED BY <1>1, <1>4, <1>5 DEF Emit, EmitFails

LEMMA StampPromise ==
    ASSUME BillingTypeOK, PassInv, KeyInv, ByPlan, MarkBilled \/ RecordFailure
    PROVE  CustomerStep
<1>1. PICK e \in Event : e = flusher.entry
  BY DEF MarkBilled, RecordFailure, PassInv, RowAtHand, At
<1>2. UNCHANGED charges /\ Pending(e)
  BY <1>1 DEF MarkBilled, RecordFailure, PassInv, RowAtHand, At
<1>3. StateOf(e) = "owed" /\ ~outbox[e].billed /\ ~outbox[e].dead /\ outbox[e].id # 0
  BY <1>2 DEF StateOf, Pending, Settled, Recorded
<1>4. \A x \in Event \ {e} : outbox'[x] = outbox[x]
  BY <1>1, StampedRow
<1>5. ASSUME NEW s, StateOf(e)' = s PROVE States' = [States EXCEPT ![e] = s]
  BY <1>4, <1>5 DEF States, StateOf, Recorded
<1>6. CASE MarkBilled
  <2>1. StateOf(e)' = "billed"
    BY <1>1, <1>6, StampedRow DEF StateOf
  <2>2. charges[e] = 1 \/ Plan[e] = "skip"
    BY <1>1, <1>6 DEF MarkBilled, PassInv, MarkIsCharged, KeyInv, ChargedOnce, BillingTypeOK
  <2>3. Customer!Bill(e)
    BY <1>2, <1>3, <1>5, <2>1, <2>2 DEF Customer!Bill, Customer!Becomes, States
  <2> QED BY <2>3 DEF CustomerStep, Customer!ChargeNext
<1>7. CASE RecordFailure
  <2>1. ~outbox'[e].billed /\ outbox'[e].id # 0
    BY <1>1, <1>3, <1>7, StampedRow
  <2>2. CASE outbox'[e].dead
    <3>1. StateOf(e)' = "dead"
      BY <2>1, <2>2 DEF StateOf
    <3>2. Plan[e] # "skip"
      BY <1>1, <1>7 DEF RecordFailure, ByPlan
    <3>3. Customer!GiveUp(e)
      BY <1>2, <1>3, <1>5, <3>1, <3>2 DEF Customer!GiveUp, Customer!Becomes, States
    <3> QED BY <3>3 DEF CustomerStep, Customer!ChargeNext
  <2>3. CASE ~outbox'[e].dead
    <3>1. StateOf(e)' = "owed"
      BY <2>1, <2>3 DEF StateOf, Recorded
    <3>2. States' = States
      BY <1>3, <1>5, <3>1 DEF States
    <3> QED BY <1>2, <3>2 DEF CustomerStep
  <2> QED BY <2>2, <2>3
<1> QED BY <1>6, <1>7

LEMMA ChargePromiseStep ==
    ASSUME BillingTypeOK, PassInv, KeyInv, ByPlan, [BillingNext]_billingVars
    PROVE  CustomerStep
<1>1. CASE UNCHANGED <<outbox, charges>>
  BY <1>1 DEF CustomerStep, States, StateOf, Recorded
<1> QED
  BY <1>1, RecordPromise, EmitPromise, StampPromise
  DEF BillingNext, FlusherStep, FlusherFault, RecordFails, SelectPending, TakeRow, EndPass,
      UpdateFails, Crash, ForgetKey, billingVars

\* "Retries never double-charge" (billing.go), in full: while the provider
\* remembers the keys of unsettled rows, the outbox and its flusher implement
\* ChargePromise.  Each event is charged for once at most, only by plan, before
\* its row is stamped and never after it was settled.
THEOREM OutboxKeepsPromise ==
    ASSUME "window" \notin Faults
    PROVE  BillingSpec => ChargesAsPromised
<1>1. BillingInit => KeyInv /\ ByPlan
  BY DEF BillingInit, KeyInv, ChargedOnce, ByPlan, At, Idle
<1>2. BillingTypeOK /\ PassInv /\ KeyInv /\ ByPlan /\ [BillingNext]_billingVars
        => (KeyInv /\ ByPlan)'
  BY KeyStep, PlanStep
<1>3. BillingInit => Customer!ChargeInit
  BY DEF BillingInit, Customer!ChargeInit, StateOf, NoRow, Recorded
<1>4. BillingTypeOK /\ PassInv /\ KeyInv /\ ByPlan /\ [BillingNext]_billingVars
        => [Customer!ChargeNext]_(Customer!chargeVars)
  BY ChargePromiseStep DEF CustomerStep, Customer!chargeVars, States
<1> QED
  BY <1>1, <1>2, <1>3, <1>4, PassInvariant, PTL
  DEF BillingSpec, ChargesAsPromised, Customer!ChargeSpec

----------------------------------------------------------------------------
(* A row is given up on after deadLetterThreshold() failures *)

\* Neither sooner nor later.
GivenUpInTime ==
    \A e \in Event : /\ outbox[e].failures <= Threshold
                     /\ outbox[e].dead <=> outbox[e].failures = Threshold

\* The count a pass read of a row, and writes back one higher, is still that of
\* the table.
CountIsFresh ==
    /\ \A p \in flusher.todo : p.failures = outbox[p.entry].failures
    /\ ~At("idle") /\ ~At("next") => flusher.failures = outbox[flusher.entry].failures

\* The stamp leaves the count; the failure raises it.
LEMMA CountedRow ==
    ASSUME BillingTypeOK, CountIsFresh, MarkBilled \/ RecordFailure, flusher.entry \in Event
    PROVE  LET e == flusher.entry
               count == outbox[e].failures + 1 IN
           \/ outbox'[e].failures = outbox[e].failures /\ outbox'[e].dead = outbox[e].dead
           \/ /\ outbox'[e].failures = count
              /\ outbox'[e].dead <=> outbox[e].dead \/ count >= Threshold
<1> DEFINE e == flusher.entry
<1>1. outbox[e] \in OutboxRow
  BY DEF BillingTypeOK
<1>2. CASE MarkBilled
  <2>1. outbox'[e] = [outbox[e] EXCEPT !.billed = TRUE]
    BY <1>2 DEF MarkBilled, BillingTypeOK
  <2> QED BY <1>1, <2>1 DEF OutboxRow
<1>3. CASE RecordFailure
  <2>1. flusher.failures = outbox[e].failures
    BY <1>3 DEF CountIsFresh, RecordFailure, At
  <2>2. outbox'[e] = Failed(outbox[e], outbox[e].failures + 1)
    BY <1>3, <2>1 DEF RecordFailure, BillingTypeOK
  <2>3. /\ outbox'[e].failures = outbox[e].failures + 1
        /\ outbox'[e].dead = (outbox[e].dead \/ ReachesThreshold(outbox[e].failures + 1))
    BY <1>1, <2>2 DEF Failed, OutboxRow
  <2> QED BY <2>3 DEF ReachesThreshold
<1> QED BY <1>2, <1>3

LEMMA CountStep ==
    ASSUME BillingTypeOK, PassInv, GivenUpInTime, CountIsFresh, [BillingNext]_billingVars
    PROVE  (GivenUpInTime /\ CountIsFresh)'
<1>1. ASSUME NEW e \in Event, RecordBill(e) PROVE (GivenUpInTime /\ CountIsFresh)'
  <2>1. CASE Recorded(e)
    BY <1>1, <2>1 DEF RecordBill, Record, GivenUpInTime, CountIsFresh, At
  <2>2. CASE ~Recorded(e)
    <3>1. outbox' = [outbox EXCEPT ![e] = [NoRow EXCEPT !.id = nextId]] /\ UNCHANGED flusher
      BY <1>1, <2>2 DEF RecordBill, Record
    <3>2. outbox'[e].failures = 0 /\ ~outbox'[e].dead
          /\ \A x \in Event \ {e} : outbox'[x] = outbox[x]
      BY <3>1 DEF BillingTypeOK, NoRow
    <3>3. GivenUpInTime'
      BY <3>2, BillingAssumption DEF GivenUpInTime
    <3>4. \A p \in flusher.todo : p.entry \in Event \ {e}
      BY <2>2 DEF PassInv, TodoPending, Pending, BillingTypeOK, Flusher, Snapshot
    <3>5. ~At("idle") /\ ~At("next") => flusher.entry \in Event \ {e}
      BY <2>2 DEF PassInv, RowAtHand, Pending
    <3>6. CountIsFresh'
      BY <3>1, <3>2, <3>4, <3>5 DEF CountIsFresh, At
    <3> QED BY <3>3, <3>6
  <2> QED BY <2>1, <2>2
<1>2. CASE MarkBilled \/ RecordFailure
  <2>1. PICK e \in Event : e = flusher.entry
    BY <1>2 DEF MarkBilled, RecordFailure, PassInv, RowAtHand, At
  <2>2. \A x \in Event \ {e} : outbox'[x] = outbox[x]
    BY <1>2, <2>1, StampedRow
  <2>3. outbox[e].failures \in Nat /\ outbox[e].failures < Threshold /\ ~outbox[e].dead
    <3>1. ~outbox[e].dead
      BY <1>2, <2>1 DEF MarkBilled, RecordFailure, PassInv, RowAtHand, At, Pending, Settled
    <3>2. outbox[e].failures \in Nat
      BY DEF BillingTypeOK, OutboxRow
    <3> QED BY <3>1, <3>2, BillingAssumption DEF GivenUpInTime
  <2>4. outbox'[e].failures <= Threshold
        /\ (outbox'[e].dead <=> outbox'[e].failures = Threshold)
    BY <1>2, <2>1, <2>3, CountedRow, BillingAssumption
  <2>5. GivenUpInTime'
    BY <2>2, <2>4 DEF GivenUpInTime
  <2>6. NextRow
    BY <1>2 DEF MarkBilled, RecordFailure
  <2>7. flusher'.todo = flusher.todo /\ flusher'.pc = "next"
    BY <2>6 DEF NextRow, Idle
  <2>8. \A p \in flusher.todo : p.entry \in Event \ {e}
    BY <1>2, <2>1 DEF MarkBilled, RecordFailure, PassInv, RowAtHand, At, BillingTypeOK,
                      Flusher, Snapshot
  <2>9. CountIsFresh'
    BY <2>2, <2>7, <2>8 DEF CountIsFresh, At
  <2> QED BY <2>5, <2>9
<1>3. ASSUME UNCHANGED outbox PROVE GivenUpInTime'
  BY <1>3 DEF GivenUpInTime
<1>4. CASE SelectPending
  <2>1. UNCHANGED outbox /\ flusher'.pc = "next"
    BY <1>4 DEF SelectPending, Idle
  <2>2. \A p \in flusher'.todo : p.failures = outbox[p.entry].failures
    BY <1>4 DEF SelectPending, Idle
  <2> QED BY <1>3, <2>1, <2>2 DEF CountIsFresh, At
<1>5. CASE TakeRow
  <2>1. UNCHANGED outbox
    BY <1>5 DEF TakeRow
  <2>2. PICK p \in flusher.todo :
          flusher' = [pc |-> PlannedPc(p.entry), todo |-> flusher.todo \ {p},
                      entry |-> p.entry, failures |-> p.failures]
    BY <1>5 DEF TakeRow
  <2> QED BY <1>3, <2>1, <2>2 DEF CountIsFresh, At
<1>6. CASE Emit \/ EmitFails
  <2>1. UNCHANGED outbox /\ At("emit") /\ flusher'.todo = flusher.todo
        /\ flusher'.entry = flusher.entry /\ flusher'.failures = flusher.failures
    BY <1>6 DEF Emit, EmitFails, BillingTypeOK, Flusher
  <2> QED BY <1>3, <2>1 DEF CountIsFresh, At
<1>7. CASE EndPass \/ Crash
  <2>1. UNCHANGED outbox /\ flusher' = Idle
    BY <1>7 DEF EndPass, Crash
  <2> QED BY <1>3, <2>1 DEF CountIsFresh, At, Idle
<1>8. CASE UpdateFails
  <2>1. UNCHANGED outbox /\ flusher'.todo = flusher.todo /\ flusher'.pc = "next"
    BY <1>8 DEF UpdateFails, NextRow, Idle
  <2> QED BY <1>3, <2>1 DEF CountIsFresh, At
<1>9. CASE UNCHANGED <<outbox, flusher>>
  BY <1>3, <1>9 DEF CountIsFresh, At
<1> QED
  BY <1>1, <1>2, <1>4, <1>5, <1>6, <1>7, <1>8, <1>9
  DEF BillingNext, FlusherStep, FlusherFault, RecordFails, ForgetKey, billingVars

\* recordFailure (billing.go): a row is dead-lettered exactly at its
\* deadLetterThreshold()-th counted failure.  No failure is lost or counted twice
\* because a pass wrote back a count that had changed since it read the row.
THEOREM RowsAreGivenUpInTime == BillingSpec => []GivenUpInTime
<1>1. BillingInit => GivenUpInTime /\ CountIsFresh
  BY BillingAssumption DEF BillingInit, GivenUpInTime, CountIsFresh, At, Idle, NoRow
<1>2. BillingTypeOK /\ PassInv /\ GivenUpInTime /\ CountIsFresh /\ [BillingNext]_billingVars
        => (GivenUpInTime /\ CountIsFresh)'
  BY CountStep
<1> QED BY <1>1, <1>2, PassInvariant, PTL DEF BillingSpec
=============================================================================
