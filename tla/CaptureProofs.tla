--------------------------- MODULE CaptureProofs ----------------------------
(***************************************************************************)
(* Theorems about BillCapture for every set of events and every set of     *)
(* faults: it implements BillingOutbox, so that the theorems of            *)
(* BillingProofs hold of it, and no bill slips past the cursor.            *)
(***************************************************************************)
EXTENDS BillCapture, BillingProofs

\* The batch at hand consists of bills the cursor has passed.
BatchInv ==
    /\ \A i \in follower.batch : i \in 1..cursor /\ IsBill(ledger[i])
    /\ Following("poll") \/ Following("move") => follower.batch = {}

\* There is one terminal entry, and the cursor has passed it when the job is moved.
EndInv ==
    /\ \A i, k \in DOMAIN ledger : ledger[i] = TaskEnd /\ ledger[k] = TaskEnd => i = k
    /\ Following("move") \/ (Following("record") /\ follower.ended) =>
          \E i \in 1..cursor : ledger[i] = TaskEnd
    /\ finished => InLedger(TaskEnd)

CaptureInv ==
    /\ CaptureTypeOK /\ PassInv
    /\ BatchInv /\ EndInv /\ CursorIsCovered /\ FinishedIsCaptured

LEMMA CaptureStart == CaptureInit => CaptureInv
<1> SUFFICES ASSUME CaptureInit PROVE CaptureInv
  OBVIOUS
<1>1. BillingTypeOK /\ PassInv
  BY TypeInit, PassInit DEF CaptureInit
<1>2. CaptureTypeOK
  <2>1. ledger \in Seq(Event \cup {TaskEnd})
    BY DEF CaptureInit
  <2>2. cursor \in 0..Len(ledger)
    BY DEF CaptureInit
  <2>3. follower \in Follower
    BY DEF CaptureInit, Follower, FollowerPc
  <2>4. finished \in BOOLEAN /\ dropped \subseteq Event
    BY DEF CaptureInit
  <2> QED BY <1>1, <2>1, <2>2, <2>3, <2>4 DEF CaptureTypeOK
<1>3. ledger = <<>> /\ cursor = 0 /\ ~finished /\ follower.batch = {} /\ follower.pc = "poll"
  BY DEF CaptureInit
<1>4. BatchInv /\ CursorIsCovered /\ FinishedIsCaptured
  BY <1>3 DEF BatchInv, CursorIsCovered, FinishedIsCaptured, Following
<1>5. EndInv
  BY <1>3 DEF EndInv, Following
<1> QED BY <1>1, <1>2, <1>4, <1>5 DEF CaptureInv

\* A place in the ledger holds an event or the terminal entry.
LEMMA LedgerEntry ==
    ASSUME CaptureTypeOK, NEW i \in 1..Len(ledger)
    PROVE  ledger[i] \in Event \cup {TaskEnd}
BY DEF CaptureTypeOK

\* So is a place in the batch, and it holds an event.
LEMMA BatchEntry ==
    ASSUME CaptureTypeOK, BatchInv, NEW i \in follower.batch
    PROVE  i \in 1..Len(ledger) /\ ledger[i] \in Event
<1>1. i \in 1..cursor /\ cursor \in 0..Len(ledger) /\ IsBill(ledger[i])
  BY DEF CaptureTypeOK, BatchInv
<1>2. Len(ledger) \in Nat
  BY DEF CaptureTypeOK
<1>3. i \in 1..Len(ledger)
  BY <1>1, <1>2
<1> QED BY <1>1, <1>3, LedgerEntry DEF IsBill

\* Every step of the composition is a step of the outbox, or leaves it alone.
LEMMA CaptureStepIsBilling ==
    ASSUME CaptureTypeOK, BatchInv, [CaptureNext]_captureVars
    PROVE  [BillingNext]_billingVars
<1>1. CASE RecordNext
  <2>1. PICK i \in follower.batch : RecordBill(ledger[i])
    BY <1>1 DEF RecordNext
  <2>2. ledger[i] \in Event
    BY BatchEntry
  <2> QED BY <2>1, <2>2 DEF BillingNext
<1>2. CASE RecordNextFails
  BY <1>2 DEF RecordNextFails, BillingNext
<1>3. CASE BillingGoesOn
  BY <1>3 DEF BillingGoesOn, BillingNext
<1>4. CASE CrashAll
  BY <1>4 DEF CrashAll, BillingNext
<1>5. CASE UNCHANGED billingVars
  BY <1>5
<1> QED
  BY <1>1, <1>2, <1>3, <1>4, <1>5
  DEF CaptureNext, FollowerStep, WriteBill, WriteEnd, Poll, EndBatch, MoveJob, StopFollowing,
      captureVars, billingVars

\* A row, once recorded, is there for good.
LEMMA RecordedStays ==
    ASSUME BillingTypeOK, PassInv, [BillingNext]_billingVars,
           NEW e \in Event, Recorded(e)
    PROVE  Recorded(e)'
<1>1. ASSUME NEW x \in Event, RecordBill(x)
      PROVE  Recorded(e)'
  BY <1>1 DEF RecordBill, Record, Recorded, BillingTypeOK
<1>2. CASE MarkBilled \/ RecordFailure
  <2>1. flusher.entry \in Event
    BY <1>2 DEF MarkBilled, RecordFailure, PassInv, RowAtHand, At
  <2> QED BY <1>2, <2>1, StampedRow DEF Recorded
<1>3. CASE UNCHANGED outbox
  BY <1>3 DEF Recorded
<1> QED
  BY <1>1, <1>2, <1>3
  DEF BillingNext, FlusherStep, FlusherFault, RecordFails, SelectPending, TakeRow, EndPass,
      Emit, EmitFails, UpdateFails, Crash, ForgetKey, billingVars
----------------------------------------------------------------------------
(* Type correctness of the composition *)

\* Dropping a bill from the batch leaves a follower.
LEMMA DropFollower ==
    ASSUME CaptureTypeOK, NEW i, Drop(i)
    PROVE  /\ follower' \in Follower
           /\ follower'.pc = follower.pc /\ follower'.ended = follower.ended
           /\ follower'.batch = follower.batch \ {i}
BY DEF CaptureTypeOK, Drop, Follower

LEMMA CaptureTypeStep ==
    ASSUME CaptureTypeOK, PassInv, BatchInv, [CaptureNext]_captureVars
    PROVE  CaptureTypeOK'
<1>1. BillingTypeOK'
  BY CaptureStepIsBilling, TypeStep DEF CaptureTypeOK, PassInv
<1> DEFINE Own == /\ ledger' \in Seq(Event \cup {TaskEnd})
                  /\ cursor' \in 0..Len(ledger')
                  /\ follower' \in Follower
                  /\ finished' \in BOOLEAN
                  /\ dropped' \subseteq Event
<1>2. Own
  <2> USE DEF CaptureTypeOK
  <2>1. ASSUME NEW x \in Event \cup {TaskEnd}, ledger' = Append(ledger, x),
               UNCHANGED <<cursor, follower, finished, dropped>>
        PROVE  Own
    <3>1. ledger' \in Seq(Event \cup {TaskEnd}) /\ Len(ledger') = Len(ledger) + 1
      BY <2>1
    <3>2. cursor' \in 0..Len(ledger')
      BY <2>1, <3>1
    <3> QED BY <2>1, <3>1, <3>2
  <2>2. CASE Poll
    <3>1. UnreadBills \subseteq Nat /\ SeesEnd \in BOOLEAN
      BY DEF UnreadBills, Unread, SeesEnd
    <3>2. follower' = [pc |-> "record", batch |-> UnreadBills, ended |-> SeesEnd]
      BY <2>2 DEF Poll, AfterPoll
    <3>3. follower' \in Follower
      BY <3>1, <3>2 DEF Follower, FollowerPc
    <3>4. cursor' \in 0..Len(ledger')
      BY <2>2 DEF Poll
    <3> QED BY <2>2, <3>3, <3>4 DEF Poll
  <2>3. CASE RecordNext
    BY <2>3, DropFollower DEF RecordNext
  <2>4. CASE RecordNextFails
    <3>1. PICK i \in follower.batch : Drop(i) /\ dropped' = dropped \cup {ledger[i]}
      BY <2>4 DEF RecordNextFails
    <3>2. dropped' \subseteq Event
      BY <3>1, BatchEntry
    <3> QED BY <2>4, <3>1, <3>2, DropFollower DEF RecordNextFails
  <2>5. CASE EndBatch \/ StopFollowing \/ MoveJob
    <3>1. \E pc \in FollowerPc : follower' = [follower EXCEPT !.pc = pc]
      BY <2>5 DEF EndBatch, StopFollowing, MoveJob, FollowerPc
    <3>2. follower' \in Follower
      BY <3>1 DEF Follower
    <3>3. finished' \in BOOLEAN
      BY <2>5 DEF EndBatch, StopFollowing, MoveJob
    <3> QED BY <2>5, <3>2, <3>3 DEF EndBatch, StopFollowing, MoveJob
  <2>6. CASE CrashAll
    <3>1. follower' \in Follower
      BY <2>6 DEF CrashAll, Follower, FollowerPc
    <3>2. cursor' \in 0..Len(ledger')
      BY <2>6 DEF CrashAll
    <3> QED BY <2>6, <3>1, <3>2 DEF CrashAll
  <2>7. CASE UNCHANGED <<ledger, cursor, follower, finished, dropped>>
    BY <2>7
  <2> QED
    BY <2>1, <2>2, <2>3, <2>4, <2>5, <2>6, <2>7
    DEF CaptureNext, FollowerStep, WriteBill, WriteEnd, BillingGoesOn, captureVars
<1> QED BY <1>1, <1>2 DEF CaptureTypeOK
----------------------------------------------------------------------------
(* No bill slips past the cursor *)

\* What was written in the ledger stays where it is.
LEMMA LedgerGrows ==
    ASSUME CaptureTypeOK, [CaptureNext]_captureVars
    PROVE  /\ Len(ledger) \in Nat /\ Len(ledger') \in Nat /\ Len(ledger) <= Len(ledger')
           /\ \A i \in 1..Len(ledger) : ledger'[i] = ledger[i]
           /\ InLedger(TaskEnd) => InLedger(TaskEnd)'
<1>1. ASSUME NEW x \in Event \cup {TaskEnd}, ledger' = Append(ledger, x)
      PROVE  /\ Len(ledger) \in Nat /\ Len(ledger') = Len(ledger) + 1
             /\ \A i \in 1..Len(ledger) : ledger'[i] = ledger[i]
             /\ DOMAIN ledger = 1..Len(ledger) /\ DOMAIN ledger' = 1..Len(ledger')
  BY <1>1 DEF CaptureTypeOK
<1>2. ASSUME NEW x \in Event \cup {TaskEnd}, ledger' = Append(ledger, x)
      PROVE  InLedger(TaskEnd) => InLedger(TaskEnd)'
  <2>1. /\ Len(ledger) \in Nat /\ Len(ledger') = Len(ledger) + 1
        /\ \A i \in 1..Len(ledger) : ledger'[i] = ledger[i]
        /\ DOMAIN ledger = 1..Len(ledger) /\ DOMAIN ledger' = 1..Len(ledger')
    BY <1>1, <1>2
  <2> QED BY <2>1 DEF InLedger
<1>3. UNCHANGED ledger => (InLedger(TaskEnd) => InLedger(TaskEnd)')
  BY DEF InLedger
<1>4. (\E x \in Event \cup {TaskEnd} : ledger' = Append(ledger, x)) \/ UNCHANGED ledger
  BY DEF CaptureNext, FollowerStep, WriteBill, WriteEnd, Poll, RecordNext, RecordNextFails,
         EndBatch, MoveJob, StopFollowing, BillingGoesOn, CrashAll, captureVars
<1>5. Len(ledger) \in Nat
  BY DEF CaptureTypeOK
<1>6. CASE \E x \in Event \cup {TaskEnd} : ledger' = Append(ledger, x)
  <2>1. PICK x \in Event \cup {TaskEnd} : ledger' = Append(ledger, x)
    BY <1>6
  <2>2. /\ Len(ledger') = Len(ledger) + 1
        /\ \A i \in 1..Len(ledger) : ledger'[i] = ledger[i]
    BY <2>1, <1>1
  <2>3. InLedger(TaskEnd) => InLedger(TaskEnd)'
    BY <2>1, <1>2
  <2> QED BY <1>5, <2>2, <2>3
<1>7. CASE UNCHANGED ledger
  BY <1>3, <1>5, <1>7
<1> QED BY <1>4, <1>6, <1>7

\* A bill is kept when it has its row, or the log says that it was refused one.
Kept(i) == Recorded(ledger[i]) \/ ledger[i] \in dropped

LEMMA KeptStays ==
    ASSUME CaptureTypeOK, PassInv, BatchInv, [CaptureNext]_captureVars,
           NEW i \in 1..Len(ledger), IsBill(ledger[i]), Kept(i)
    PROVE  Kept(i)'
<1>1. ledger[i] \in Event /\ ledger'[i] = ledger[i]
  BY LedgerEntry, LedgerGrows DEF IsBill
<1>2. Recorded(ledger[i]) => Recorded(ledger[i])'
  <2>1. BillingTypeOK
    BY DEF CaptureTypeOK
  <2>2. [BillingNext]_billingVars
    BY CaptureStepIsBilling
  <2>3. \A e \in Event : Recorded(e) => Recorded(e)'
    BY <2>1, <2>2, RecordedStays
  <2> QED BY <1>1, <2>3 DEF Recorded
<1>3. dropped \subseteq dropped'
  BY DEF CaptureNext, FollowerStep, WriteBill, WriteEnd, Poll, RecordNext, RecordNextFails,
         EndBatch, MoveJob, StopFollowing, BillingGoesOn, CrashAll, captureVars
<1> QED BY <1>1, <1>2, <1>3 DEF Kept, Recorded

\* The bills before place n, those in the batch aside, are kept.
Covered(n) ==
    \A i \in 1..n : IsBill(ledger[i]) => Kept(i) \/ i \in follower.batch

LEMMA CoveredStays ==
    ASSUME CaptureTypeOK, PassInv, BatchInv, [CaptureNext]_captureVars,
           NEW n \in 0..Len(ledger), Covered(n),
           \A i \in follower.batch : i \in follower'.batch \/ Kept(i)'
    PROVE  Covered(n)'
<1> SUFFICES ASSUME NEW i \in 1..n, IsBill(ledger'[i])
             PROVE  Kept(i)' \/ i \in follower'.batch
  BY DEF Covered
<1>1. i \in 1..Len(ledger) /\ ledger'[i] = ledger[i]
  BY LedgerGrows
<1>2. CASE i \in follower.batch
  BY <1>2
<1>3. CASE Kept(i)
  BY <1>1, <1>3, KeptStays DEF IsBill
<1> QED BY <1>1, <1>2, <1>3 DEF Covered, IsBill
\* A batch that only loses bills, under a cursor that stays.
LEMMA BatchShrinks ==
    ASSUME CaptureTypeOK, BatchInv, [CaptureNext]_captureVars,
           UNCHANGED cursor, follower'.batch \subseteq follower.batch,
           follower'.pc \in {"poll", "move"} => follower'.batch = {}
    PROVE  BatchInv'
<1>1. ASSUME NEW i \in follower'.batch
      PROVE  i \in 1..cursor' /\ IsBill(ledger'[i])
  <2>1. i \in 1..cursor /\ IsBill(ledger[i])
    BY DEF BatchInv
  <2>2. ledger'[i] = ledger[i]
    BY BatchEntry, LedgerGrows
  <2> QED BY <2>1, <2>2 DEF IsBill
<1> QED BY <1>1 DEF BatchInv, Following, IsBill

LEMMA BatchStep ==
    ASSUME CaptureTypeOK, BatchInv, [CaptureNext]_captureVars
    PROVE  BatchInv'
<1>1. CASE Poll
  <2>1. follower' = [pc |-> "record", batch |-> UnreadBills, ended |-> SeesEnd]
    BY <1>1 DEF Poll, AfterPoll
  <2>2. cursor \in Nat /\ Len(ledger) \in Nat /\ cursor' = Len(ledger) /\ ledger' = ledger
    BY <1>1 DEF Poll, CaptureTypeOK
  <2>3. \A i \in UnreadBills : i \in 1..Len(ledger) /\ IsBill(ledger[i])
    BY <2>2 DEF UnreadBills, Unread
  <2> QED BY <2>1, <2>2, <2>3 DEF BatchInv, Following, IsBill
<1>2. CASE RecordNext \/ RecordNextFails
  <2>1. PICK i \in follower.batch : Drop(i)
    BY <1>2 DEF RecordNext, RecordNextFails
  <2>2. follower.pc = "record" /\ UNCHANGED cursor
    BY <1>2 DEF RecordNext, RecordNextFails, Following
  <2> QED BY <2>1, <2>2, DropFollower, BatchShrinks
<1>3. CASE EndBatch \/ StopFollowing \/ MoveJob
  <2>1. follower'.batch = follower.batch /\ follower.batch = {} /\ UNCHANGED cursor
    BY <1>3 DEF EndBatch, StopFollowing, MoveJob, BatchInv, CaptureTypeOK, Follower
  <2> QED BY <2>1, BatchShrinks
<1>4. CASE CrashAll
  BY <1>4 DEF CrashAll, BatchInv, Following
<1>5. CASE UNCHANGED <<cursor, follower>>
  BY <1>5, BatchShrinks DEF BatchInv, Following
<1> QED
  BY <1>1, <1>2, <1>3, <1>4, <1>5
  DEF CaptureNext, FollowerStep, WriteBill, WriteEnd, BillingGoesOn, captureVars

\* CursorIsCovered, said with Covered.
LEMMA CoveredCursor == CursorIsCovered <=> (~Following("gone") => Covered(cursor))
BY DEF CursorIsCovered, Covered, Kept

LEMMA CursorStep ==
    ASSUME CaptureTypeOK, PassInv, BatchInv, CursorIsCovered, [CaptureNext]_captureVars
    PROVE  CursorIsCovered'
<1>1. cursor \in 0..Len(ledger) /\ Len(ledger) \in Nat
  BY DEF CaptureTypeOK
<1>2. CASE Poll
  <2>1. follower' = [pc |-> "record", batch |-> UnreadBills, ended |-> SeesEnd]
    BY <1>2 DEF Poll, AfterPoll
  <2>2. cursor' = Len(ledger) /\ ledger' = ledger /\ UNCHANGED <<outbox, dropped>>
    BY <1>2 DEF Poll, billingVars
  <2>3. Covered(cursor) /\ follower.batch = {}
    BY <1>2, CoveredCursor DEF Poll, Following, BatchInv
  <2>4. ASSUME NEW i \in 1..Len(ledger), IsBill(ledger[i])
        PROVE  Kept(i) \/ i \in UnreadBills
    <3>1. CASE i \in 1..cursor
      BY <2>3, <2>4, <3>1 DEF Covered
    <3>2. CASE i \notin 1..cursor
      <4>1. i \in Unread
        BY <1>1, <3>2 DEF Unread
      <4> QED BY <2>4, <4>1 DEF UnreadBills
    <3> QED BY <3>1, <3>2
  <2>5. Covered(cursor)'
    BY <2>1, <2>2, <2>4 DEF Covered, Kept, IsBill, Recorded
  <2> QED BY <2>5, CoveredCursor DEF CursorIsCovered, Covered, Kept
<1>3. CASE RecordNext \/ RecordNextFails
  <2>1. PICK i \in follower.batch :
             Drop(i) /\ (RecordBill(ledger[i]) \/ dropped' = dropped \cup {ledger[i]})
    BY <1>3 DEF RecordNext, RecordNextFails
  <2>2. ledger[i] \in Event /\ ledger' = ledger
    BY <1>3, BatchEntry DEF RecordNext, RecordNextFails
  <2>3. Recorded(ledger[i])' \/ ledger'[i] \in dropped'
    <3>1. CASE RecordBill(ledger[i])
      <4>1. nextId # 0
        BY DEF CaptureTypeOK, BillingTypeOK
      <4>2. [NoRow EXCEPT !.id = nextId].id = nextId
        BY DEF NoRow
      <4>3. outbox'[ledger[i]].id # 0
        BY <2>2, <3>1, <4>1, <4>2
        DEF RecordBill, Record, Recorded, CaptureTypeOK, BillingTypeOK
      <4> QED BY <2>2, <4>3 DEF Recorded
    <3>2. CASE dropped' = dropped \cup {ledger[i]}
      BY <2>2, <3>2
    <3> QED BY <2>1, <3>1, <3>2
  <2>4. Kept(i)'
    BY <2>2, <2>3 DEF Kept, Recorded
  <2>5. \A k \in follower.batch : k \in follower'.batch \/ Kept(k)'
    BY <2>1, <2>4, DropFollower
  <2>6. Covered(cursor)
    BY <1>3, CoveredCursor DEF RecordNext, RecordNextFails, Following
  <2>7. cursor' = cursor
    BY <1>3 DEF RecordNext, RecordNextFails
  <2>8. Covered(cursor)'
    BY <1>1, <2>5, <2>6, <2>7, CoveredStays DEF Covered
  <2> QED BY <2>8 DEF CursorIsCovered, Covered, Kept
<1>4. CASE \/ EndBatch \/ WriteEnd \/ BillingGoesOn \/ UNCHANGED captureVars
           \/ \E e \in Event : WriteBill(e)
  <2>1. /\ cursor' = cursor /\ follower'.batch = follower.batch
        /\ follower.pc = "gone" => follower'.pc = "gone"
    BY <1>4 DEF EndBatch, WriteEnd, BillingGoesOn, captureVars, WriteBill, Following,
                CaptureTypeOK, Follower
  <2>2. CASE Covered(cursor)
    <3>1. Covered(cursor)'
      BY <1>1, <2>1, <2>2, CoveredStays DEF Covered
    <3> QED BY <3>1 DEF CursorIsCovered, Covered, Kept
  <2>3. CASE ~Covered(cursor)
    BY <2>1, <2>3, CoveredCursor DEF CursorIsCovered, Following
  <2> QED BY <2>2, <2>3
<1>5. CASE StopFollowing \/ MoveJob \/ CrashAll
  <2>1. CASE StopFollowing \/ MoveJob
    BY <2>1 DEF StopFollowing, MoveJob, CaptureTypeOK, Follower, CursorIsCovered, Following
  <2>2. CASE CrashAll
    BY <2>2 DEF CrashAll, CursorIsCovered, Following
  <2> QED BY <1>5, <2>1, <2>2
<1> QED
  BY <1>2, <1>3, <1>4, <1>5 DEF CaptureNext, FollowerStep
\* The three parts of EndInv.
OneEnd == \A i, k \in 1..Len(ledger) : ledger[i] = TaskEnd /\ ledger[k] = TaskEnd => i = k

EndSeen ==
    Following("move") \/ (Following("record") /\ follower.ended) =>
        \E i \in 1..cursor : ledger[i] = TaskEnd

LEMMA EndInvParts ==
    ASSUME CaptureTypeOK
    PROVE  EndInv <=> OneEnd /\ EndSeen /\ (finished => InLedger(TaskEnd))
<1>1. DOMAIN ledger = 1..Len(ledger)
  BY DEF CaptureTypeOK
<1> QED BY <1>1 DEF EndInv, OneEnd, EndSeen

LEMMA OneEndStep ==
    ASSUME CaptureTypeOK, OneEnd, [CaptureNext]_captureVars
    PROVE  OneEnd'
<1>1. CASE UNCHANGED ledger
  BY <1>1 DEF OneEnd
<1>2. ASSUME NEW x \in Event \cup {TaskEnd}, ledger' = Append(ledger, x),
             x = TaskEnd => ~InLedger(TaskEnd)
      PROVE  OneEnd'
  <2>1. /\ Len(ledger) \in Nat /\ Len(ledger') = Len(ledger) + 1
        /\ DOMAIN ledger = 1..Len(ledger)
        /\ ledger'[Len(ledger) + 1] = x
        /\ \A i \in 1..Len(ledger) : ledger'[i] = ledger[i]
    BY <1>2 DEF CaptureTypeOK
  <2>2. SUFFICES ASSUME NEW i \in 1..Len(ledger'), NEW k \in 1..Len(ledger'),
                        ledger'[i] = TaskEnd, ledger'[k] = TaskEnd
                 PROVE  i = k
    BY DEF OneEnd
  <2>3. CASE x = TaskEnd
    BY <1>2, <2>1, <2>2, <2>3 DEF InLedger
  <2>4. CASE x # TaskEnd
    BY <2>1, <2>2, <2>4 DEF OneEnd
  <2> QED BY <2>3, <2>4
<1>3. \/ UNCHANGED ledger
      \/ \E x \in Event \cup {TaskEnd} :
            ledger' = Append(ledger, x) /\ (x = TaskEnd => ~InLedger(TaskEnd))
  BY CaptureAssumption
  DEF CaptureNext, FollowerStep, WriteBill, WriteEnd, Poll, RecordNext, RecordNextFails,
      EndBatch, MoveJob, StopFollowing, BillingGoesOn, CrashAll, captureVars
<1> QED BY <1>1, <1>2, <1>3

LEMMA EndSeenStep ==
    ASSUME CaptureTypeOK, EndSeen, [CaptureNext]_captureVars
    PROVE  EndSeen'
<1>1. cursor \in 0..Len(ledger) /\ Len(ledger) \in Nat
  BY DEF CaptureTypeOK
<1>2. \A i \in 1..cursor : ledger'[i] = ledger[i]
  BY <1>1, LedgerGrows
<1>3. CASE Poll
  <2>1. follower' = [pc |-> "record", batch |-> UnreadBills, ended |-> SeesEnd]
    BY <1>3 DEF Poll, AfterPoll
  <2>2. cursor' = Len(ledger) /\ ledger' = ledger
    BY <1>3 DEF Poll
  <2>3. SeesEnd => \E i \in 1..Len(ledger) : ledger[i] = TaskEnd
    BY <1>1 DEF SeesEnd, Unread
  <2> QED BY <2>1, <2>2, <2>3 DEF EndSeen, Following
<1>4. CASE RecordNext \/ RecordNextFails
  <2>1. PICK i \in follower.batch : Drop(i)
    BY <1>4 DEF RecordNext, RecordNextFails
  <2>2. follower.pc = "record" /\ UNCHANGED cursor
    BY <1>4 DEF RecordNext, RecordNextFails, Following
  <2> QED BY <1>2, <2>1, <2>2, DropFollower DEF EndSeen, Following
<1>5. CASE EndBatch
  <2>1. follower.pc = "record" /\ UNCHANGED cursor
    BY <1>5 DEF EndBatch, Following
  <2>2. follower'.pc = IF follower.ended THEN "move" ELSE "poll"
    BY <1>5 DEF EndBatch, CaptureTypeOK, Follower
  <2>3. CASE follower.ended
    BY <1>2, <2>1, <2>3 DEF EndSeen, Following
  <2>4. CASE ~follower.ended
    BY <2>2, <2>4 DEF EndSeen, Following
  <2> QED BY <2>3, <2>4
<1>6. CASE StopFollowing \/ MoveJob
  BY <1>6 DEF StopFollowing, MoveJob, EndSeen, Following, CaptureTypeOK, Follower
<1>7. CASE CrashAll
  BY <1>7 DEF CrashAll, EndSeen, Following
<1>8. CASE UNCHANGED <<cursor, follower>>
  BY <1>2, <1>8 DEF EndSeen, Following
<1> QED
  BY <1>3, <1>4, <1>5, <1>6, <1>7, <1>8
  DEF CaptureNext, FollowerStep, WriteBill, WriteEnd, BillingGoesOn, captureVars

LEMMA EndStep ==
    ASSUME CaptureTypeOK, CaptureTypeOK', EndInv, [CaptureNext]_captureVars
    PROVE  EndInv'
<1>1. OneEnd' /\ EndSeen'
  BY EndInvParts, OneEndStep, EndSeenStep
<1>2. finished' => InLedger(TaskEnd)'
  <2>1. CASE MoveJob
    <3>1. \E i \in 1..cursor : ledger[i] = TaskEnd
      BY <2>1 DEF MoveJob, EndInv
    <3>2. DOMAIN ledger = 1..Len(ledger) /\ cursor \in 0..Len(ledger) /\ Len(ledger) \in Nat
      BY DEF CaptureTypeOK
    <3>3. InLedger(TaskEnd)
      BY <3>1, <3>2 DEF InLedger
    <3> QED BY <3>3, LedgerGrows
  <2>2. CASE finished' = finished
    BY <2>2, LedgerGrows DEF EndInv
  <2> QED
    BY <2>1, <2>2
    DEF CaptureNext, FollowerStep, WriteBill, WriteEnd, Poll, RecordNext, RecordNextFails,
        EndBatch, StopFollowing, BillingGoesOn, CrashAll, captureVars
<1>3. DOMAIN ledger' = 1..Len(ledger')
  BY DEF CaptureTypeOK
<1> QED BY <1>1, <1>2, <1>3 DEF EndInv, OneEnd, EndSeen

LEMMA FinishedStep ==
    ASSUME CaptureTypeOK, CaptureTypeOK', PassInv, BatchInv, EndInv, EndInv',
           CursorIsCovered, FinishedIsCaptured, [CaptureNext]_captureVars
    PROVE  FinishedIsCaptured'
<1>1. SUFFICES ASSUME finished',
                      NEW i \in 1..Len(ledger'), NEW k \in 1..Len(ledger'),
                      i < k, ledger'[k] = TaskEnd
               PROVE  Kept(i)'
  <2>1. DOMAIN ledger' = 1..Len(ledger')
    BY DEF CaptureTypeOK
  <2> QED BY <2>1 DEF FinishedIsCaptured, Kept
<1>2. DOMAIN ledger = 1..Len(ledger) /\ DOMAIN ledger' = 1..Len(ledger') /\ Len(ledger) \in Nat
      /\ cursor \in 0..Len(ledger)
  BY DEF CaptureTypeOK
<1>3. ASSUME NEW n \in 1..Len(ledger), ledger[n] = TaskEnd
      PROVE  k = n
  <2>1. n \in 1..Len(ledger') /\ ledger'[n] = TaskEnd
    BY <1>3, LedgerGrows
  <2> QED BY <1>1, <1>2, <2>1 DEF EndInv
<1>4. ASSUME NEW n \in 1..Len(ledger), ledger[n] = TaskEnd, Kept(i)
      PROVE  Kept(i)'
  <2>1. k = n
    BY <1>3, <1>4
  <2>2. i \in 1..Len(ledger)
    BY <1>1, <1>2, <2>1
  <2>3. IsBill(ledger[i])
    BY <1>1, <1>2, <1>4, <2>1, <2>2 DEF EndInv, IsBill
  <2> QED BY <1>4, <2>2, <2>3, KeptStays
<1>5. CASE finished
  <2>1. PICK n \in 1..Len(ledger) : ledger[n] = TaskEnd
    BY <1>2, <1>5 DEF EndInv, InLedger
  <2>2. k = n
    BY <1>3, <2>1
  <2>3. Kept(i)
    BY <1>1, <1>2, <1>5, <2>1, <2>2 DEF FinishedIsCaptured, Kept
  <2> QED BY <1>4, <2>1, <2>3
<1>6. CASE ~finished
  <2>1. MoveJob
    BY <1>1, <1>6
    DEF CaptureNext, FollowerStep, WriteBill, WriteEnd, Poll, RecordNext, RecordNextFails,
        EndBatch, StopFollowing, BillingGoesOn, CrashAll, captureVars
  <2>2. follower.pc = "move" /\ follower.batch = {}
    BY <2>1 DEF MoveJob, Following, BatchInv
  <2>3. PICK n \in 1..cursor : ledger[n] = TaskEnd
    BY <2>1 DEF MoveJob, EndInv
  <2>4. n \in 1..Len(ledger) /\ k = n
    BY <1>2, <1>3, <2>3
  <2>5. i \in 1..cursor /\ i \in 1..Len(ledger)
    BY <1>1, <1>2, <2>4
  <2>6. IsBill(ledger[i])
    BY <1>1, <1>2, <2>3, <2>4, <2>5 DEF EndInv, IsBill
  <2>7. Kept(i)
    BY <2>2, <2>5, <2>6 DEF CursorIsCovered, Following, Kept
  <2> QED BY <1>4, <2>3, <2>4, <2>7
<1> QED BY <1>5, <1>6

----------------------------------------------------------------------------
(* The theorems *)

LEMMA CaptureStep == CaptureInv /\ [CaptureNext]_captureVars => CaptureInv'
<1> SUFFICES ASSUME CaptureInv, [CaptureNext]_captureVars PROVE CaptureInv'
  OBVIOUS
<1> USE DEF CaptureInv
<1>1. CaptureTypeOK'
  BY CaptureTypeStep
<1>2. PassInv'
  BY CaptureStepIsBilling, PassInvStep DEF CaptureTypeOK
<1>3. BatchInv' /\ CursorIsCovered' /\ EndInv'
  BY <1>1, BatchStep, CursorStep, EndStep
<1>4. FinishedIsCaptured'
  BY <1>1, <1>3, FinishedStep
<1> QED BY <1>1, <1>2, <1>3, <1>4

LEMMA CaptureInvariant == CaptureSpec => []CaptureInv
BY CaptureStart, CaptureStep, PTL DEF CaptureSpec

\* Ledger, cursor, worker and outbox keep their types (worker.go, billing.go).
THEOREM CaptureTypeCorrect == CaptureSpec => []CaptureTypeOK
<1>1. CaptureInv => CaptureTypeOK
  BY DEF CaptureInv
<1> QED BY <1>1, CaptureInvariant, PTL

\* While followTask follows a task, every bill the in-memory cursor has passed is
\* in the outbox, in the batch at hand, or was logged as refused.
THEOREM NoBillSlipsPast == CaptureSpec => []CursorIsCovered
<1>1. CaptureInv => CursorIsCovered
  BY DEF CaptureInv
<1> QED BY <1>1, CaptureInvariant, PTL

\* A job is moved to the outcome of its task only after every bill written before
\* the terminal entry was recorded, or logged as refused.
THEOREM FinishedJobsAreCaptured == CaptureSpec => []FinishedIsCaptured
<1>1. CaptureInv => FinishedIsCaptured
  BY DEF CaptureInv
<1> QED BY <1>1, CaptureInvariant, PTL

\* The worker that feeds the outbox uses it as BillingOutbox allows: what is
\* proved there (no second charge among it) holds of the two together.
THEOREM CaptureImplementsOutbox == CaptureSpec => BillingSpec
<1>1. CaptureInit => BillingInit
  BY DEF CaptureInit
<1>2. CaptureInv /\ [CaptureNext]_captureVars => [BillingNext]_billingVars
  BY CaptureStepIsBilling DEF CaptureInv
<1> QED BY <1>1, <1>2, CaptureInvariant, PTL DEF CaptureSpec, BillingSpec

\* From the ledger to the provider: whatever order bills, polls, failing
\* statements and restarts come in, each event is charged for at most once, and
\* only while it is owed (worker.go, ledgertail_client.go, billing.go).
THEOREM CaptureKeepsPromise ==
    ASSUME "window" \notin Faults
    PROVE  CaptureSpec => ChargesAsPromised
BY CaptureImplementsOutbox, OutboxKeepsPromise, PTL
=============================================================================
