------------------------------ MODULE Erasure -------------------------------
(***************************************************************************)
(* Requests to erase a tenant's data (api/internal/erasure): the handler   *)
(* of DELETE /v1/tenants/me/data registers a request in three statements,  *)
(* and the erasure worker, a process of its own, takes it from the queue.  *)
(*                                                                         *)
(* That queue is the one ClaimQueue models, "shared with the job queue":   *)
(* the dispatcher claims requests, and the erasure worker claims jobs.     *)
(* The dispatcher and the jobs are reduced to what meets them here; all    *)
(* belong to one tenant.                                                   *)
(***************************************************************************)
EXTENDS ClaimQueue

CONSTANTS Request,     \* calls of Submit, each with the request id it draws
          DayOf,       \* [Request -> Nat], the UTC day of the call
          Eraser,      \* erasure.Worker loops
          Dispatcher,  \* the dispatcher's claim token
          FaultBudget

ASSUME ErasureAssumption ==
    /\ Request \subseteq Jobs
    /\ DayOf \in [Request -> Nat]
    /\ Eraser \cup {Dispatcher} \subseteq Token
    /\ Dispatcher \notin Eraser
    /\ FaultBudget \in Nat

\* The rows of the queue are keyed by members of Jobs: requests and jobs.
Job == Jobs \ Request

VARIABLES request,   \* the erasure_requests table: [Request -> RequestState]
          audited,   \* requests with a tenant.data.erasure.requested entry
          job,       \* the jobs table: [Job -> JobState]
          submitter, \* [Request -> SubmitPc]
          consumer,  \* [Eraser \cup {Dispatcher} -> Frame]
          faults     \* what is left of FaultBudget

erasureVars == <<queue, nextRow, request, audited, job, submitter, consumer, faults>>

RequestState == {"absent", "queued", "in_progress", "complete", "failed"}

\* open stands for every status that is not terminal.
JobState == {"absent", "open", "ended", "erased"}

SubmitPc == {"find", "insert", "audit", "enqueue", "done"}

Consumer == Eraser \cup {Dispatcher}

EraserPc == {"idle", "start", "purge", "complete", "fail", "ack", "nack"}
DispatcherPc == {"idle", "load", "run", "ack", "nack"}

Frame == [pc: EraserPc \cup DispatcherPc, row: Nat, item: Jobs \cup {None}]

Idle == [pc |-> "idle", row |-> 0, item |-> None]

ErasureInit ==
    /\ QueueInit
    /\ request = [r \in Request |-> "absent"]
    /\ audited = {}
    /\ job = [j \in Job |-> "absent"]
    /\ submitter = [r \in Request |-> "find"]
    /\ consumer = [c \in Consumer |-> Idle]
    /\ faults = FaultBudget

Fault == faults > 0 /\ faults' = faults - 1

At(c, pc) == consumer[c].pc = pc

Become(c, pc) ==
    consumer' = [consumer EXCEPT ![c] = IF pc = "idle" THEN Idle ELSE [@ EXCEPT !.pc = pc]]

----------------------------------------------------------------------------
(* Service.Submit *)

Submitting(r, pc) == submitter[r] = pc

NowAt(r, pc) == submitter' = [submitter EXCEPT ![r] = pc]

SameDay(r) == {q \in Request : DayOf[q] = DayOf[r]}

\* findByIdempotency: a request of the same day answers the call.  An error is
\* taken for "none" (the fault).
Find(r) ==
    /\ Submitting(r, "find")
    /\ \/ /\ \E q \in SameDay(r) : request[q] # "absent"
          /\ NowAt(r, "done") /\ UNCHANGED faults
       \/ /\ IF \E q \in SameDay(r) : request[q] # "absent"
             THEN Fault ELSE UNCHANGED faults
          /\ NowAt(r, "insert")
    /\ UNCHANGED <<queue, nextRow, request, audited, job, consumer>>

\* Fault-seeded form of AfterInsert: the audit entry is left for later.
AfterInsertEnqueue == "enqueue"

\* "Audit row BEFORE the queue write".
AfterInsert == "audit"

Insert(r) ==
    /\ Submitting(r, "insert")
    /\ request' = [request EXCEPT ![r] = "queued"]
    /\ NowAt(r, AfterInsert)
    /\ UNCHANGED <<queue, nextRow, audited, job, consumer, faults>>

AuditRequest(r) ==
    /\ Submitting(r, "audit")
    /\ audited' = audited \cup {r}
    /\ NowAt(r, "enqueue")
    /\ UNCHANGED <<queue, nextRow, request, job, consumer, faults>>

\* The row's key is the tenant and the day: it may hold an earlier request.
KeyRow(r) ==
    IF \E q \in SameDay(r) : HasRow(q) THEN CHOOSE q \in SameDay(r) : HasRow(q) ELSE r

EnqueueRequest(r) ==
    /\ Submitting(r, "enqueue")
    /\ Enqueue(KeyRow(r))
    /\ NowAt(r, "done")
    /\ UNCHANGED <<request, audited, job, consumer, faults>>

\* A statement fails, the client goes away, or the API server crashes.  An
\* Append that fails may have written its row.
SubmitStops(r) ==
    /\ submitter[r] \in {"insert", "audit", "enqueue"}
    /\ Fault
    /\ \/ UNCHANGED audited
       \/ Submitting(r, "audit") /\ audited' = audited \cup {r}
    /\ NowAt(r, "done")
    /\ UNCHANGED <<queue, nextRow, request, job, consumer>>

\* POST /v1/jobs, in one step (JobPipeline has all of them).
SubmitJob(j) ==
    /\ job[j] = "absent"
    /\ job' = [job EXCEPT ![j] = "open"]
    /\ Enqueue(j)
    /\ UNCHANGED <<request, audited, submitter, consumer, faults>>

----------------------------------------------------------------------------
(* erasure.Worker *)

\* Fault-seeded form of AfterDequeue: a request in progress is left to whoever
\* started it.
AfterDequeueBusy(item) ==
    IF item \notin Request THEN "ack"
    ELSE IF request[item] = "in_progress" THEN "nack" ELSE "start"

\* processOne: a payload without a request id (a job's) is acknowledged.
AfterDequeue(item) == IF item \in Request THEN "start" ELSE "ack"

EraserDequeue(w) ==
    /\ At(w, "idle")
    /\ \E r \in queue :
         /\ Oldest(r) /\ Claim(r, w)
         /\ consumer' = [consumer EXCEPT
              ![w] = [pc |-> AfterDequeue(r.job), row |-> r.id, item |-> r.job]]
    /\ UNCHANGED <<request, audited, job, submitter, faults>>

\* The UPDATEs of the request are unconditional.
Mark(w, state) == request' = [request EXCEPT ![consumer[w].item] = state]

MarkStarted(w) ==
    /\ At(w, "start")
    /\ Mark(w, "in_progress") /\ Become(w, "purge")
    /\ UNCHANGED <<queue, nextRow, audited, job, submitter, faults>>

\* Fault-seeded form of EraseJobs: ids of the queue are taken for ids of jobs.
EraseJobsByRow == job' = [j \in Jobs |-> "erased"]

\* DELETE FROM jobs.  The purge names a table queue_items too, which does not
\* exist, and goes on: the rows of the queue stay.
EraseJobs == job' = [j \in Job |-> IF job[j] = "absent" THEN "absent" ELSE "erased"]

\* The error of a DELETE is skipped over (the fault).
Purge(w) ==
    /\ At(w, "purge")
    /\ \/ EraseJobs /\ UNCHANGED faults
       \/ UNCHANGED job /\ Fault
    /\ Become(w, "complete")
    /\ UNCHANGED <<queue, nextRow, request, audited, submitter>>

\* A subsystem wired after the local tables refuses.
PurgeFails(w) ==
    /\ At(w, "purge")
    /\ Fault
    /\ EraseJobs
    /\ Become(w, "fail")
    /\ UNCHANGED <<queue, nextRow, request, audited, submitter>>

\* Fault-seeded form of AfterFailure: the row of a failed request is dropped.
AfterFailureAck == "ack"

AfterFailure == "nack"

MarkFailed(w) ==
    /\ At(w, "fail")
    /\ Mark(w, "failed") /\ Become(w, AfterFailure)
    /\ UNCHANGED <<queue, nextRow, audited, job, submitter, faults>>

MarkComplete(w) ==
    /\ At(w, "complete")
    /\ Mark(w, "complete") /\ Become(w, "ack")
    /\ UNCHANGED <<queue, nextRow, audited, job, submitter, faults>>

\* The UPDATE of the request fails.
MarkFails(w) ==
    /\ consumer[w].pc \in {"start", "fail", "complete"}
    /\ Fault
    /\ Become(w, "nack")
    /\ UNCHANGED <<queue, nextRow, request, audited, job, submitter>>

----------------------------------------------------------------------------
(* dispatcher.Worker, as far as the shared queue and the erased jobs go *)

Dispatch ==
    /\ At(Dispatcher, "idle")
    /\ \E r \in queue :
         /\ Oldest(r) /\ Claim(r, Dispatcher)
         /\ consumer' = [consumer EXCEPT
              ![Dispatcher] = [pc |-> "load", row |-> r.id, item |-> r.job]]
    /\ UNCHANGED <<request, audited, job, submitter, faults>>

\* A row of the jobs table: neither a request nor an erased job has one.
IsJob(item) == item \in Job /\ job[item] \in {"open", "ended"}

LoadJob ==
    /\ At(Dispatcher, "load")
    /\ Become(Dispatcher, IF ~IsJob(consumer[Dispatcher].item) THEN "nack"
                          ELSE IF job[consumer[Dispatcher].item] = "ended" THEN "ack" ELSE "run")
    /\ UNCHANGED <<queue, nextRow, request, audited, job, submitter, faults>>

\* The job is followed to its end; its last transition needs its row.
RunJob ==
    LET j == consumer[Dispatcher].item IN
    /\ At(Dispatcher, "run")
    /\ \/ IsJob(j) /\ job' = [job EXCEPT ![j] = "ended"] /\ Become(Dispatcher, "ack")
       \/ ~IsJob(j) /\ UNCHANGED job /\ Become(Dispatcher, "nack")
    /\ UNCHANGED <<queue, nextRow, request, audited, submitter, faults>>

----------------------------------------------------------------------------
(* Either consumer *)

AckItem(c) ==
    /\ At(c, "ack")
    /\ Ack(consumer[c].row, c) /\ Become(c, "idle")
    /\ UNCHANGED <<request, audited, job, submitter, faults>>

NackItem(c) ==
    /\ At(c, "nack")
    /\ Nack(consumer[c].row, c) /\ Become(c, "idle")
    /\ UNCHANGED <<request, audited, job, submitter, faults>>

\* A release fails, or the consumer's process crashes: the row stays claimed.
ConsumerStops(c) ==
    /\ ~At(c, "idle")
    /\ Fault
    /\ Become(c, "idle")
    /\ UNCHANGED <<queue, nextRow, request, audited, job, submitter>>

\* Both consumers are done with an item in a fraction of the lease, unless the
\* dispatcher follows a job; one that is slower than its lease is a fault.
Prompt(r) ==
    \E c \in Consumer : consumer[c].row = r.id /\ r.token = c /\ ~At(c, "run")

LeaseExpires ==
    /\ \E r \in queue : Expire(r) /\ IF Prompt(r) THEN Fault ELSE UNCHANGED faults
    /\ UNCHANGED <<request, audited, job, submitter, consumer>>

----------------------------------------------------------------------------

SubmitStep(r) == Find(r) \/ Insert(r) \/ AuditRequest(r) \/ EnqueueRequest(r)

EraserWork(w) ==
    MarkStarted(w) \/ Purge(w) \/ MarkFailed(w) \/ MarkComplete(w) \/ AckItem(w) \/ NackItem(w)

DispatcherStep ==
    Dispatch \/ LoadJob \/ RunJob \/ AckItem(Dispatcher) \/ NackItem(Dispatcher)

ErasureNext ==
    \/ \E r \in Request : SubmitStep(r) \/ SubmitStops(r)
    \/ \E j \in Job : SubmitJob(j)
    \/ \E w \in Eraser : EraserDequeue(w) \/ EraserWork(w) \/ PurgeFails(w) \/ MarkFails(w)
    \/ DispatcherStep
    \/ \E c \in Consumer : ConsumerStops(c)
    \/ LeaseExpires

ErasureSpec == ErasureInit /\ [][ErasureNext]_erasureVars

\* Both loops run on and the clock advances.  The dispatcher gives a request
\* back at once and then sleeps, and the two polls are not synchronised, so that
\* the erasure worker does not find the queue held each time it looks: SF.
FairErasure ==
    /\ ErasureSpec
    /\ \A w \in Eraser : WF_erasureVars(EraserWork(w)) /\ SF_erasureVars(EraserDequeue(w))
    /\ WF_erasureVars(DispatcherStep)
    /\ WF_erasureVars(LeaseExpires)

----------------------------------------------------------------------------
(* Properties *)

\* The variables hold what the tables and the loops can hold.
ErasureTypeOK ==
    /\ queue \subseteq Row
    /\ nextRow \in Nat \ {0}
    /\ request \in [Request -> RequestState]
    /\ audited \subseteq Request
    /\ job \in [Job -> JobState]
    /\ submitter \in [Request -> SubmitPc]
    /\ consumer \in [Consumer -> Frame]
    /\ faults \in Nat

\* "If the queue fails we still have proof the request was accepted"
\* (erasure.go:186): whatever the worker has been shown, and so whatever was
\* erased, was asked for by an entry in the audit log.
RequestedIsAudited ==
    \A r \in Request :
        HasRow(r) \/ request[r] \in {"in_progress", "complete", "failed"} => r \in audited

\* The row of a request leaves the queue only when the request is complete,
\* with the dispatcher claiming it in between, leases that run out, failing
\* purges and restarts of the worker.
RequestRowsLeaveComplete ==
    [][\A q \in queue : q.job \in Request /\ (\A p \in queue' : p.id # q.id)
          => request[q.job] = "complete"]_erasureVars

\* Every request that got its row is completed in the end.
EnqueuedCompletes == \A r \in Request : HasRow(r) ~> request[r] = "complete"

\* "Never drops a row" (dispatcher/worker.go:107): the row of a job leaves the shared queue
\* only when the job has ended or was erased.
JobRowsLeaveEnded ==
    [][\A q \in queue : q.job \in Job /\ (\A p \in queue' : p.id # q.id)
          => job[q.job] # "open"]_erasureVars
=============================================================================
