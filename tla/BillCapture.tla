---------------------------- MODULE BillCapture -----------------------------
(***************************************************************************)
(* How the bill events of an operator task get from its ledger into the    *)
(* billing outbox: the polling loop of dispatcher.Worker (followTask and   *)
(* recordBills in worker.go) over the cursor that LedgerTailClient         *)
(* (ledgertail_client.go) keeps in memory, composed with BillingOutbox.    *)
(*                                                                         *)
(* One job is followed, the task it was started with.  A process that      *)
(* stops following (poll error, deadline, restart) never comes back to     *)
(* this task: the re-delivered job is dispatched as a new one.             *)
(*                                                                         *)
(* Of the ledger the model keeps what a poll uses: the terminal entry and  *)
(* the bills that decode.  An entry that Poll skips moves the cursor and   *)
(* nothing else.  Progress is skipped so, and so is a bill entry whose     *)
(* payload does not decode: it is lost without a line in any log           *)
(* (parseBillEntry), and no property below is about it.                    *)
(***************************************************************************)
EXTENDS BillingOutbox, Sequences

CONSTANT TaskEnd      \* the terminal entry of the ledger

ASSUME CaptureAssumption == TaskEnd \notin Event

VARIABLES ledger,     \* the entries written that a poll does not skip, in order
          cursor,     \* how many of them the client has read
          follower,   \* followTask
          finished,   \* the job has been transitioned to the task's outcome
          dropped     \* bills whose INSERT failed, which only the log remembers

captureVars == <<outbox, nextId, flusher, charges, keys, faults,
                 ledger, cursor, follower, finished, dropped>>

\* batch  the places in the ledger of the bills still to be recorded
\* ended  that poll saw the terminal entry
FollowerPc == {"poll", "record", "move", "gone"}

Follower == [pc: FollowerPc, batch: SUBSET Nat, ended: BOOLEAN]

Following(pc) == follower.pc = pc

CaptureInit ==
    /\ BillingInit
    /\ ledger = <<>>
    /\ cursor = 0
    /\ follower = [pc |-> "poll", batch |-> {}, ended |-> FALSE]
    /\ finished = FALSE
    /\ dropped = {}

InLedger(x) == \E i \in DOMAIN ledger : ledger[i] = x

----------------------------------------------------------------------------
(* The operator plane *)

\* The agent bills work, also after the terminal entry: the order of the two is
\* not guaranteed.
WriteBill(e) ==
    /\ ~InLedger(e)
    /\ ledger' = Append(ledger, e)
    /\ UNCHANGED <<billingVars, cursor, follower, finished, dropped>>

WriteEnd ==
    /\ ~InLedger(TaskEnd)
    /\ ledger' = Append(ledger, TaskEnd)
    /\ UNCHANGED <<billingVars, cursor, follower, finished, dropped>>

----------------------------------------------------------------------------
(* LedgerTailClient.Poll *)

\* The places in the ledger behind the cursor.
Unread == (cursor + 1)..Len(ledger)

SeesEnd == \E i \in Unread : ledger[i] = TaskEnd

IsBill(x) == x # TaskEnd

\* Fault-seeded form of UnreadBills: the walk stops at the terminal entry.
UnreadBillsToEnd ==
    {i \in Unread : IsBill(ledger[i]) /\ \A k \in Unread : k < i => ledger[k] # TaskEnd}

\* The walk over the entries: bills before and after the terminal entry.
UnreadBills == {i \in Unread : IsBill(ledger[i])}

\* Fault-seeded form of AfterPoll: the job is moved before its bills are kept.
AfterPollEager(ended) == IF ended THEN "move" ELSE "record"

\* recordBills runs before the terminal entry is looked at.
AfterPoll(ended) == "record"

\* A poll that finds something new.  The cursor moves at once, before any of
\* the entries is used.
Poll ==
    /\ Following("poll")
    /\ cursor < Len(ledger)
    /\ cursor' = Len(ledger)
    /\ follower' = [pc |-> AfterPoll(SeesEnd), batch |-> UnreadBills, ended |-> SeesEnd]
    /\ UNCHANGED <<billingVars, ledger, finished, dropped>>

----------------------------------------------------------------------------
(* Worker.recordBills *)

\* The bills of the batch are taken in the order of the ledger.
IsNext(i) == i \in follower.batch /\ \A k \in follower.batch : i <= k

Drop(i) == follower' = [follower EXCEPT !.batch = @ \ {i}]

RecordNext ==
    /\ Following("record")
    /\ \E i \in follower.batch : IsNext(i) /\ RecordBill(ledger[i]) /\ Drop(i)
    /\ UNCHANGED <<ledger, cursor, finished, dropped>>

\* Record fails: logged, and on to the next bill.
RecordNextFails ==
    /\ Following("record")
    /\ RecordFails
    /\ \E i \in follower.batch :
         IsNext(i) /\ Drop(i) /\ dropped' = dropped \cup {ledger[i]}
    /\ UNCHANGED <<ledger, cursor, finished>>

EndBatch ==
    /\ Following("record") /\ follower.batch = {}
    /\ follower' = [follower EXCEPT !.pc = IF follower.ended THEN "move" ELSE "poll"]
    /\ UNCHANGED <<billingVars, ledger, cursor, finished, dropped>>

\* Store.Transition to the outcome; it is refused if a cancel came first.
MoveJob ==
    /\ Following("move")
    /\ finished' \in {finished, TRUE}
    /\ follower' = [follower EXCEPT !.pc = "gone"]
    /\ UNCHANGED <<billingVars, ledger, cursor, dropped>>

\* A poll error, the deadline, or a cancelled context.
StopFollowing ==
    /\ Following("poll")
    /\ follower' = [follower EXCEPT !.pc = "gone"]
    /\ UNCHANGED <<billingVars, ledger, cursor, finished, dropped>>

\* The cursor, the batch and the flusher's snapshot die with the process.
CrashAll ==
    /\ Crash
    /\ cursor' = 0
    /\ follower' = [pc |-> "gone", batch |-> {}, ended |-> FALSE]
    /\ UNCHANGED <<ledger, finished, dropped>>

----------------------------------------------------------------------------

FollowerStep == Poll \/ RecordNext \/ EndBatch \/ MoveJob

BillingGoesOn ==
    /\ \/ FlusherStep \/ FlusherFault
       \/ \E e \in Event : ForgetKey(e)
    /\ UNCHANGED <<ledger, cursor, follower, finished, dropped>>

CaptureNext ==
    \/ \E e \in Event : WriteBill(e)
    \/ WriteEnd
    \/ FollowerStep \/ RecordNextFails \/ StopFollowing
    \/ BillingGoesOn
    \/ CrashAll

CaptureSpec == CaptureInit /\ [][CaptureNext]_captureVars

\* The worker's goroutine and the flusher's ticker run on.
FairCapture ==
    /\ CaptureSpec
    /\ WF_captureVars(FollowerStep)
    /\ WF_captureVars(FlusherStep /\ UNCHANGED <<ledger, cursor, follower, finished, dropped>>)

----------------------------------------------------------------------------
(* Properties *)

\* The variables hold what the ledger, the client and the worker can hold.
CaptureTypeOK ==
    /\ BillingTypeOK
    /\ ledger \in Seq(Event \cup {TaskEnd})
    /\ cursor \in 0..Len(ledger)
    /\ follower \in Follower
    /\ finished \in BOOLEAN
    /\ dropped \subseteq Event

\* No bill falls between cursor and outbox: while the task is followed, every
\* bill that decodes and that the cursor has passed is in the outbox, in the batch at hand, or was
\* logged as refused by the outbox.
CursorIsCovered ==
    ~Following("gone") =>
        \A i \in 1..cursor : IsBill(ledger[i]) =>
            \/ Recorded(ledger[i]) \/ ledger[i] \in dropped
            \/ i \in follower.batch

\* A job that shows the outcome of its task has been billed for: every bill
\* written before the terminal entry is in the outbox, or logged as refused.
FinishedIsCaptured ==
    finished =>
        \A i, k \in DOMAIN ledger : i < k /\ ledger[k] = TaskEnd =>
            Recorded(ledger[i]) \/ ledger[i] \in dropped

\* End to end: every bill written before the terminal entry of a finished job
\* is charged for in the end, if it has a plan that charges and the outbox took it.
FinishedIsCharged ==
    \A e \in Event :
        (/\ finished /\ Plan[e] \in {"metered", "oneshot"}
         /\ e \notin dropped
         /\ \E i, k \in DOMAIN ledger : i < k /\ ledger[i] = e /\ ledger[k] = TaskEnd)
        ~> charges[e] = 1

\* "The next poll-cycle [is] a self-healing retry path" (worker.go:235): a bill
\* that was read is recorded in the end, though its first Record failed.
ReadIsRecorded ==
    \A e \in Event : (\E i \in 1..cursor : ledger[i] = e) ~> Recorded(e)
=============================================================================
