---------------------------- MODULE JobPipeline -----------------------------
(***************************************************************************)
(* The path of a job through the API server: the handlers of POST /v1/jobs *)
(* and POST /v1/jobs/{id}/cancel (api/internal/server/server.go), the      *)
(* dispatcher worker (api/internal/dispatcher/worker.go), and the two      *)
(* SQLite tables and the operator plane they meet in.                      *)
(*                                                                         *)
(* Every database statement and every RPC is a step of its own, so that    *)
(* handlers, workers and the operator plane interleave between any two of  *)
(* them.  What a handler or worker holds between its steps lives in        *)
(* proc[p] and dies with the process; the tables survive.                  *)
(***************************************************************************)
EXTENDS JobStore, ClaimQueue, OperatorPlane

CONSTANTS Handler,     \* requests being served
          Worker,      \* dispatcher.Worker loops
          ClaimToken,  \* [Worker -> Token], WorkerConfig.ClaimToken
          Faults,      \* the kinds of fault that may happen
          Budget       \* [Kind -> Nat], how many requests and faults there may be

\* What may go wrong in the environment.
\*   db             a statement fails (SQLITE_BUSY after its timeout)
\*   rpc            a fleet.SubmitJob fails, or its answer is lost
\*   poll           a fleet.LedgerTail fails
\*   disconnect     a client goes away, cancelling its request's context
\*   crash          the API server crashes or is restarted
FaultKind == {"db", "rpc", "poll", "disconnect", "crash"}

\* The bounds: POST /v1/jobs requests, cancel requests, and faults of any kind.
Kind == {"post", "cancel", "fault"}

ASSUME PipelineAssumption ==
    /\ Handler \cap Worker = {}
    /\ ClaimToken \in [Worker -> Token]
    /\ Faults \subseteq FaultKind
    /\ Budget \in [Kind -> Nat]

VARIABLES proc,      \* what each handler and worker is in the middle of
          budget,    \* what is left of Budget
          accepted   \* jobs a client was told 202 Accepted about

vars == <<job, queue, nextRow, task, proc, budget, accepted>>

Process == Handler \cup Worker

\* Why a process runs Store.Transition, and where it goes on after it.
\*   queue   postJob, submitted -> queued        cancel  cancelJob
\*   start   handle, -> running                  finish  followTask, terminal
\*   giveup  handle and followTask, -> failed, the outcome being ignored
Reason == {"queue", "cancel", "start", "finish", "giveup"}

OkPc ==
    [queue |-> "reply", cancel |-> "idle", start |-> "follow",
     finish |-> "ack", giveup |-> "nack"]

\* Fault-seeded form of ErrPc: a job that cannot be started is acknowledged.
ErrPcAck ==
    [queue |-> "reply", cancel |-> "idle", start |-> "ack",
     finish |-> "nack", giveup |-> "nack"]

ErrPc ==
    [queue |-> "reply", cancel |-> "idle", start |-> "nack",
     finish |-> "nack", giveup |-> "nack"]

HandlerPc == {"idle", "enqueue", "cancelRpc", "read", "write", "reply"}
WorkerPc  == {"idle", "load", "dispatch", "read", "write", "follow", "ack", "nack"}

\* job, row  the job at hand and the id of the queue row claimed for it
\* task      the operator task at hand
\* why, to   the Transition under way; seen is the status its Get returned
Idle == [pc |-> "idle", job |-> None, row |-> 0, task |-> None,
         why |-> "none", to |-> "none", seen |-> "none"]

Frame == [pc: HandlerPc \cup WorkerPc, job: Jobs \cup {None}, row: Nat,
          task: Tasks \cup {None}, why: Reason \cup {"none"},
          to: Status \cup {"none"}, seen: Status \cup {"none"}]

Init ==
    /\ JobInit /\ QueueInit /\ OperatorInit
    /\ proc = [p \in Process |-> Idle]
    /\ budget = Budget
    /\ accepted = {}

At(p, pc) == proc[p].pc = pc

Goto(p, frame) == proc' = [proc EXCEPT ![p] = frame]

\* The frame of p, about to run Transition(to) for the given reason.
Moving(p, why, to) ==
    [pc |-> "read", job |-> proc[p].job, row |-> proc[p].row, task |-> proc[p].task,
     why |-> why, to |-> to, seen |-> "none"]

\* The frame f with the transition behind it, at pc.
Resume(f, pc) ==
    IF pc = "idle" THEN Idle
    ELSE [Idle EXCEPT !.pc = pc, !.job = f.job, !.row = f.row,
                      !.task = IF pc = "follow" THEN f.task ELSE None]

Spend(kind) ==
    /\ budget[kind] > 0
    /\ budget' = [budget EXCEPT ![kind] = @ - 1]

Fault(kind) == kind \in Faults /\ Spend("fault")

----------------------------------------------------------------------------
(* POST /v1/jobs *)

\* Submit, with an idempotency key: a retry finds the job it created.  (Its
\* lookup and its insert are one step here: of two racing inserts the unique
\* index refuses one, which changes nothing.)
PostJob(h, j) ==
    /\ At(h, "idle")
    /\ Spend("post")
    /\ Submit(j)
    /\ Goto(h, [Idle EXCEPT !.pc = "enqueue", !.job = j])
    /\ UNCHANGED <<queue, nextRow, task, accepted>>

EnqueueJob(h) ==
    /\ At(h, "enqueue")
    /\ Enqueue(proc[h].job)
    /\ Goto(h, Moving(h, "queue", "queued"))
    /\ UNCHANGED <<job, task, budget, accepted>>

\* Fault-seeded form of EnqueueFails: the handler goes on as if there were a row.
EnqueueFailsQuietly(h) ==
    /\ At(h, "enqueue")
    /\ Fault("db")
    /\ Goto(h, Moving(h, "queue", "queued"))
    /\ UNCHANGED <<job, queue, nextRow, task, accepted>>

\* Enqueue fails: 500, and the job stays behind without a row.
EnqueueFails(h) ==
    /\ At(h, "enqueue")
    /\ Fault("db")
    /\ Goto(h, Idle)
    /\ UNCHANGED <<job, queue, nextRow, task, accepted>>

\* 202, whatever became of the transition to queued.
Reply(h) ==
    /\ At(h, "reply")
    /\ accepted' = accepted \cup {proc[h].job}
    /\ Goto(h, Idle)
    /\ UNCHANGED <<job, queue, nextRow, task, budget>>

----------------------------------------------------------------------------
(* POST /v1/jobs/{id}/cancel *)

\* Get; a terminal job is answered 409 and nothing changes.
CancelJob(h, j) ==
    /\ At(h, "idle")
    /\ Exists(j) /\ ~IsTerminal(j)
    /\ Spend("cancel")
    /\ Goto(h, [Idle EXCEPT !.pc = "cancelRpc", !.job = j, !.task = job[j].task])
    /\ UNCHANGED <<job, queue, nextRow, task, accepted>>

\* Best effort: the RPC is skipped without a task id, its outcome is ignored.
CancelAtOperator(h) ==
    /\ At(h, "cancelRpc")
    /\ IF proc[h].task = None THEN UNCHANGED task ELSE CancelTask(proc[h].task)
    /\ Goto(h, Moving(h, "cancel", "cancelled"))
    /\ UNCHANGED <<job, queue, nextRow, budget, accepted>>

----------------------------------------------------------------------------
(* Store.Transition, for handlers and workers alike *)

\* Get and the `allowed` check; a refused move ends the transition.
ReadStatus(p) ==
    LET f == proc[p]
        current == job[f.job].status IN
    /\ At(p, "read")
    /\ Goto(p, IF allowed(current, f.to)
               THEN [Moving(p, f.why, f.to) EXCEPT !.pc = "write", !.seen = current]
               ELSE Resume(f, ErrPc[f.why]))
    /\ UNCHANGED <<job, queue, nextRow, task, budget, accepted>>

\* Only the transition to running carries WithOperatorTaskID.
TaskSet(f) == IF f.why = "start" THEN f.task ELSE None

\* The conditional UPDATE; no row matched is "transition lost race".
WriteStatus(p) ==
    LET f == proc[p]
        won == StatusStill(f.job, f.seen) IN
    /\ At(p, "write")
    /\ IF won THEN Update(f.job, f.to, TaskSet(f)) ELSE UNCHANGED job
    /\ Goto(p, Resume(f, IF won THEN OkPc[f.why] ELSE ErrPc[f.why]))
    /\ UNCHANGED <<queue, nextRow, task, budget, accepted>>

\* Get, UPDATE, or the Get that returns the updated row fails.
TransitionFails(p) ==
    LET f == proc[p] IN
    /\ f.pc \in {"read", "write"}
    /\ Fault("db")
    /\ \/ UNCHANGED job
       \/ /\ f.pc = "write" /\ StatusStill(f.job, f.seen)
          /\ Update(f.job, f.to, TaskSet(f))
    /\ Goto(p, Resume(f, ErrPc[f.why]))
    /\ UNCHANGED <<queue, nextRow, task, accepted>>

----------------------------------------------------------------------------
(* dispatcher.Worker *)

Dequeue(w) ==
    /\ At(w, "idle")
    /\ \E r \in queue :
         /\ Oldest(r)
         /\ Claim(r, ClaimToken[w])
         /\ Goto(w, [Idle EXCEPT !.pc = "load", !.job = r.job, !.row = r.id])
    /\ UNCHANGED <<job, task, budget, accepted>>

\* The claim is committed but reading the claimed row back fails: nobody holds
\* the row, and it stays claimed until its lease ends.
DequeueFails(w) ==
    /\ At(w, "idle")
    /\ Fault("db")
    /\ \E r \in queue : Oldest(r) /\ Claim(r, ClaimToken[w])
    /\ UNCHANGED <<job, task, proc, accepted>>

\* Fault-seeded form of AfterLoad: a terminal job is dispatched like any other.
AfterLoadBlind(j) == "dispatch"

\* handle: a job that is terminal already is acknowledged without dispatch.
AfterLoad(j) == IF IsTerminal(j) THEN "ack" ELSE "dispatch"

LoadJob(w) ==
    /\ At(w, "load")
    /\ Goto(w, [proc[w] EXCEPT !.pc = AfterLoad(proc[w].job)])
    /\ UNCHANGED <<job, queue, nextRow, task, budget, accepted>>

LoadFails(w) ==
    /\ At(w, "load")
    /\ Fault("db")
    /\ Goto(w, Resume(proc[w], "nack"))
    /\ UNCHANGED <<job, queue, nextRow, task, accepted>>

\* A task id the operator plane can hand out.  To keep Tasks finite, the id of
\* an ended task that no row and no process mentions may be handed out again.
Fresh(t) ==
    /\ task[t] # "working"
    /\ \A j \in Jobs : job[j].task # t
    /\ \A p \in Process : proc[p].task # t

\* fleet.SubmitJob returns a task id.
Dispatch(w) ==
    /\ At(w, "dispatch")
    /\ \E t \in Tasks :
         /\ Fresh(t)
         /\ Accept(t)
         /\ Goto(w, [Moving(w, "start", "running") EXCEPT !.task = t])
    /\ UNCHANGED <<job, queue, nextRow, budget, accepted>>

\* fleet.SubmitJob fails: it was not received, or its answer was lost.
DispatchFails(w) ==
    /\ At(w, "dispatch")
    /\ Fault("rpc")
    /\ \/ UNCHANGED task
       \/ \E t \in Tasks : Fresh(t) /\ Accept(t)
    /\ Goto(w, Moving(w, "giveup", "failed"))
    /\ UNCHANGED <<job, queue, nextRow, accepted>>

\* Fault-seeded form of mapPhaseToStatus: a cancelled task counts as a success.
mapPhaseLoosely(phase) == IF phase = "failed" THEN "failed" ELSE "succeeded"

\* Fault-seeded form of mapPhaseToStatus: the phase is stored as it is.
mapPhaseVerbatim(phase) == phase

mapPhaseToStatus(phase) ==
    CASE phase = "complete"  -> "succeeded"
      [] phase = "failed"    -> "failed"
      [] phase = "cancelled" -> "cancelled"

\* followTask: the poll that finds the terminal entry.  (One that does not
\* changes nothing.)
PollTerminal(w) ==
    LET phase == task[proc[w].task] IN
    /\ At(w, "follow")
    /\ phase \in Ended
    /\ Goto(w, Moving(w, "finish", mapPhaseToStatus(phase)))
    /\ UNCHANGED <<job, queue, nextRow, task, budget, accepted>>

PollFails(w) ==
    /\ At(w, "follow")
    /\ Fault("poll")
    /\ Goto(w, Resume(proc[w], "nack"))
    /\ UNCHANGED <<job, queue, nextRow, task, accepted>>

\* MaxLedgerWait runs out.
LedgerWaitExceeded(w) ==
    /\ At(w, "follow")
    /\ Goto(w, Moving(w, "giveup", "failed"))
    /\ UNCHANGED <<job, queue, nextRow, task, budget, accepted>>

AckRow(w) ==
    /\ At(w, "ack")
    /\ Ack(proc[w].row, ClaimToken[w])
    /\ Goto(w, Idle)
    /\ UNCHANGED <<job, task, budget, accepted>>

NackRow(w) ==
    /\ At(w, "nack")
    /\ Nack(proc[w].row, ClaimToken[w])
    /\ Goto(w, Idle)
    /\ UNCHANGED <<job, task, budget, accepted>>

\* The DELETE or the UPDATE fails: the row stays claimed until its lease ends.
ReleaseFails(w) ==
    /\ proc[w].pc \in {"ack", "nack"}
    /\ Fault("db")
    /\ Goto(w, Idle)
    /\ UNCHANGED <<job, queue, nextRow, task, accepted>>

----------------------------------------------------------------------------
(* The environment *)

LeaseExpires ==
    /\ \E r \in queue : Expire(r)
    /\ UNCHANGED <<job, task, proc, budget, accepted>>

TaskEnds(t) ==
    /\ \E phase \in {"complete", "failed"} : Finish(t, phase)
    /\ UNCHANGED <<job, queue, nextRow, proc, budget, accepted>>

\* The client goes away: the handler's next statement fails on its context.
Disconnect(h) ==
    /\ ~At(h, "idle")
    /\ Fault("disconnect")
    /\ Goto(h, Idle)
    /\ UNCHANGED <<job, queue, nextRow, task, accepted>>

\* The server dies, or is stopped: Run's context is cancelled and the Nack
\* issued under it fails, so that a claimed row stays claimed either way.
Crash ==
    /\ Fault("crash")
    /\ proc' = [p \in Process |-> Idle]
    /\ UNCHANGED <<job, queue, nextRow, task, accepted>>

----------------------------------------------------------------------------

HandlerStep(h) ==
    EnqueueJob(h) \/ Reply(h) \/ CancelAtOperator(h) \/ ReadStatus(h) \/ WriteStatus(h)

WorkerStep(w) ==
    \/ Dequeue(w) \/ LoadJob(w) \/ Dispatch(w)
    \/ ReadStatus(w) \/ WriteStatus(w)
    \/ PollTerminal(w) \/ LedgerWaitExceeded(w)
    \/ AckRow(w) \/ NackRow(w)

HandlerFault(h) == EnqueueFails(h) \/ TransitionFails(h) \/ Disconnect(h)

WorkerFault(w) ==
    \/ DequeueFails(w) \/ LoadFails(w) \/ DispatchFails(w) \/ TransitionFails(w)
    \/ PollFails(w) \/ ReleaseFails(w)

Next ==
    \/ \E h \in Handler, j \in Jobs : PostJob(h, j) \/ CancelJob(h, j)
    \/ \E h \in Handler : HandlerStep(h) \/ HandlerFault(h)
    \/ \E w \in Worker : WorkerStep(w) \/ WorkerFault(w)
    \/ \E t \in Tasks : TaskEnds(t)
    \/ LeaseExpires
    \/ Crash

Spec == Init /\ [][Next]_vars

\* A started request runs on (net/http gives it a goroutine), Worker.Run loops
\* for ever, the clock advances, and every operator task ends.  Requests and
\* faults are never owed.
Fairness ==
    /\ \A h \in Handler : WF_vars(HandlerStep(h))
    /\ \A w \in Worker : WF_vars(WorkerStep(w))
    /\ \A t \in Tasks : WF_vars(TaskEnds(t))
    /\ WF_vars(LeaseExpires)

FairSpec == Spec /\ Fairness

----------------------------------------------------------------------------
(* Properties *)

\* The variables hold what the tables and the goroutines can hold.
TypeOK ==
    /\ job \in [Jobs -> [status: Status \cup {"absent"}, task: Tasks \cup {None}]]
    /\ queue \subseteq Row
    /\ nextRow \in Nat \ {0}
    /\ task \in [Tasks -> Phase]
    /\ proc \in [Process -> Frame]
    /\ budget \in [Kind -> Nat]
    /\ accepted \subseteq Jobs

Live(j) == job[j].status \in {"submitted", "queued", "running"}

\* No job is lost: one a client was told 202 about, and one that shows as queued
\* or running, has a queue row until it is terminal.  postJob creates the job
\* and the row in two statements, the worker deletes the row in a third, and a
\* lease, a crash, a retry or a cancel may come between any two of them.
NoJobLost ==
    \A j \in Jobs :
        Live(j) /\ (j \in accepted \/ job[j].status # "submitted") => HasRow(j)

\* The outcome a job shows is the outcome of the operator task recorded for it,
\* although a job may be dispatched several times and polled by a worker that
\* has lost its lease: it succeeded only if that very task completed.
SucceededTask ==
    \A j \in Jobs : job[j].status = "succeeded" =>
        job[j].task # None /\ task[job[j].task] = "complete"

\* The worker "never drops a row" (worker.go): a row leaves the queue only when
\* its job is terminal.
RowsLeaveFinished ==
    [][\A r \in queue : (\A q \in queue' : q.id # r.id) => IsTerminal(r.job)]_vars

\* The task id recorded for a job is never replaced by that of a later dispatch:
\* cancel and billing refer to the task by it.
TaskIsKept ==
    [][\A j \in Jobs : job[j].task # None => job'[j].task = job[j].task]_vars

Life == INSTANCE JobLifecycle WITH status <- [j \in Jobs |-> job[j].status]

\* Whatever the interleaving, a job only moves along the edges of `allowed`; in
\* particular a terminal job is final, cancel racing completion included.
FollowsLifecycle == Life!Spec

Contract == INSTANCE JobPromise WITH
    status   <- [j \in Jobs |-> job[j].status],
    due      <- {j \in Jobs : HasRow(j)},
    promised <- accepted

\* The API keeps its promise: handlers, workers, leases, faults and restarts
\* together do nothing but what JobPromise lets them do.  A job is created before
\* its row and has it before the client is answered; it is shown as queued or
\* running only while it has one; and the row goes when the job has ended.
KeepsPromise == Contract!PromiseSpec

\* A claim means something: a row under a live lease is touched by nobody but
\* the worker holding it, so that a worker whose lease was taken over can
\* neither delete nor release the row under its new holder.
LeaseIsRespected ==
    [][\A w \in Worker : \A r \in queue :
          /\ proc[w].row = r.id /\ r.token = ClaimToken[w] /\ ~r.expired
          /\ proc'[w] = proc[w]
          => r \in queue' \/ [r EXCEPT !.expired = TRUE] \in queue']_vars

\* Every job a client was told 202 about ends, provided no statement, poll or
\* process fails: the submission race (the worker takes the row before postJob
\* has marked the job queued), cancels at any point, failing submissions to the
\* operator plane and retried requests included.
AcceptedEnds == \A j \in Jobs : j \in accepted ~> IsTerminal(j)

\* Under the same proviso the row of a finished job leaves the queue.
FinishedLeaveQueue == \A j \in Jobs : IsTerminal(j) ~> ~HasRow(j)

\* After a restart the worker resumes polling the task of a running job from the
\* beginning of its ledger (ledgertail_client.go:9), so that the job ends.
RunningEnds == \A j \in Jobs : job[j].status = "running" ~> IsTerminal(j)
=============================================================================
