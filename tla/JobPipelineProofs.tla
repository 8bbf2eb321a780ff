------------------------- MODULE JobPipelineProofs --------------------------
(***************************************************************************)
(* Theorems about JobPipeline for every set of jobs, tasks, handlers and   *)
(* workers, every assignment of claim tokens and every budget.             *)
(***************************************************************************)
EXTENDS JobPipeline, TLAPS

Transiting(f) == f.pc \in {"read", "write"}

\* What the control state of a process says about the rest of its frame.
FrameOK(f) ==
    /\ f.pc # "idle" => f.job \in Jobs
    /\ Transiting(f) => /\ f.why \in Reason
                        /\ f.to \in Status
                        /\ f.to = "queued"  <=> f.why = "queue"
                        /\ f.to = "running" <=> f.why = "start"
                        /\ f.why = "finish" => f.to \in Terminal
    /\ f.pc = "write" => f.seen \in Status /\ allowed(f.seen, f.to)
    /\ f.pc = "follow" \/ (Transiting(f) /\ f.why \in {"start", "finish"}) => f.task \in Tasks

FramesOK == \A p \in Process : FrameOK(proc[p])

\* Row ids are fresh and name one job each.
RowIds ==
    /\ \A r \in queue : 0 < r.id /\ r.id < nextRow
    /\ \A q, r \in queue : q.id = r.id => q.job = r.job

\* A worker's row, as long as it is in the queue, is about the worker's job.
HeldRow(f) ==
    /\ f.row < nextRow
    /\ \A r \in queue : r.id = f.row => r.job = f.job

\* Past Enqueue, the job of postJob has a row or has been finished already.
HandedOver(f) ==
    f.pc = "reply" \/ (Transiting(f) /\ f.why = "queue") =>
        HasRow(f.job) \/ IsTerminal(f.job)

\* A worker acknowledges finished jobs only.
AckFinished(f) == f.pc = "ack" => IsTerminal(f.job)

QueueFrames ==
    \A p \in Process :
        HeldRow(proc[p]) /\ HandedOver(proc[p]) /\ AckFinished(proc[p])

\* NoJobLost in its two parts.
AcceptedHaveRow == \A j \in accepted : HasRow(j) \/ IsTerminal(j)

StartedHaveRow ==
    \A j \in Jobs : job[j].status \in {"queued", "running"} => HasRow(j)

QueueInv ==
    /\ RowIds /\ QueueFrames
    /\ AcceptedHaveRow /\ StartedHaveRow

\* A task id is recorded by the transition to running and by nothing else.
TaskStarted ==
    \A j \in Jobs : job[j].task # None => job[j].status \in {"running"} \cup Terminal

\* A worker follows, and reports, the task recorded for its job.
FollowedTask(f) ==
    f.pc = "follow" \/ (Transiting(f) /\ f.why = "finish") => job[f.job].task = f.task

\* What it is about to report is how that task ended; nobody else reports success.
ReportedPhase(f) ==
    /\ Transiting(f) /\ f.why = "finish" =>
          task[f.task] \in Ended /\ f.to = mapPhaseToStatus(task[f.task])
    /\ Transiting(f) /\ f.to = "succeeded" => f.why = "finish"

TaskFrames == \A p \in Process : FollowedTask(proc[p]) /\ ReportedPhase(proc[p])

TaskInv == TaskStarted /\ TaskFrames /\ SucceededTask
----------------------------------------------------------------------------
(* Lemmas about frames *)

\* A process between two requests, or two rows, holds nothing.
LEMMA IdleFrame == Idle \in Frame /\ FrameOK(Idle)
BY IdsAssumption DEF Idle, Frame, FrameOK, Transiting, HandlerPc, WorkerPc

\* The frame left by a transition is a frame.
LEMMA ResumeFrame ==
    ASSUME NEW f \in Frame, FrameOK(f), f.pc # "idle",
           NEW pc \in {"idle", "reply", "follow", "ack", "nack"},
           pc = "follow" => f.task \in Tasks
    PROVE  Resume(f, pc) \in Frame /\ FrameOK(Resume(f, pc))
<1>1. CASE pc = "idle"
  BY <1>1, IdleFrame DEF Resume
<1>2. CASE pc # "idle"
  <2>1. f.job \in Jobs
    BY DEF FrameOK
  <2> DEFINE g == Resume(f, pc)
  <2>2. g = [pc |-> pc, job |-> f.job, row |-> f.row,
             task |-> IF pc = "follow" THEN f.task ELSE None,
             why |-> "none", to |-> "none", seen |-> "none"]
    BY <1>2 DEF Resume, Idle
  <2>3. g \in Frame
    BY <2>1, <2>2 DEF Frame, HandlerPc, WorkerPc
  <2>4. FrameOK(g)
    BY <2>1, <2>2, <1>2 DEF FrameOK, Transiting
  <2> QED BY <2>3, <2>4
<1> QED BY <1>1, <1>2

\* So is the frame at the start of one.
LEMMA MovingFrame ==
    ASSUME proc \in [Process -> Frame], NEW p \in Process,
           proc[p].job \in Jobs,
           NEW why \in Reason, NEW to \in Status, NEW t \in Tasks \cup {None},
           to = "queued" <=> why = "queue",
           to = "running" <=> why = "start",
           why = "finish" => to \in Terminal,
           why \in {"start", "finish"} => t \in Tasks
    PROVE  LET f == [Moving(p, why, to) EXCEPT !.task = t] IN
           f \in Frame /\ FrameOK(f)
<1> DEFINE f == [Moving(p, why, to) EXCEPT !.task = t]
<1>1. f = [pc |-> "read", job |-> proc[p].job, row |-> proc[p].row, task |-> t,
           why |-> why, to |-> to, seen |-> "none"]
  BY DEF Moving
<1>2. proc[p].row \in Nat
  BY DEF Frame
<1>3. f \in Frame
  BY <1>1, <1>2 DEF Frame, HandlerPc, WorkerPc
<1>4. FrameOK(f)
  BY <1>1 DEF FrameOK, Transiting
<1> QED BY <1>3, <1>4

\* And the frame of a cancel that has read the job's task id.
LEMMA CancelFrame ==
    ASSUME NEW j \in Jobs, NEW t \in Tasks \cup {None}
    PROVE  LET f == [Idle EXCEPT !.pc = "cancelRpc", !.job = j, !.task = t] IN
           f \in Frame /\ FrameOK(f)
<1> DEFINE f == [Idle EXCEPT !.pc = "cancelRpc", !.job = j, !.task = t]
<1> QED BY DEF Idle, Frame, FrameOK, Transiting, HandlerPc

\* A transition that keeps the task at hand.
LEMMA MovingSame ==
    ASSUME proc \in [Process -> Frame], NEW p \in Process,
           NEW why \in Reason, NEW to \in Status
    PROVE  Moving(p, why, to) = [Moving(p, why, to) EXCEPT !.task = proc[p].task]
BY DEF Moving

\* A step of one process leaves the other frames alone.
LEMMA GotoFrame ==
    ASSUME proc \in [Process -> Frame], FramesOK, NEW p \in Process,
           NEW f \in Frame, FrameOK(f), Goto(p, f)
    PROVE  proc' \in [Process -> Frame] /\ FramesOK'
<1>1. proc' = [proc EXCEPT ![p] = f]
  BY DEF Goto
<1>2. proc' \in [Process -> Frame]
  BY <1>1
<1>3. \A q \in Process : proc'[q] = IF q = p THEN f ELSE proc[q]
  BY <1>1
<1>4. ASSUME NEW q \in Process PROVE FrameOK(proc'[q])
  <2>1. CASE q = p BY <2>1, <1>3
  <2>2. CASE q # p BY <2>2, <1>3 DEF FramesOK
  <2> QED BY <2>1, <2>2
<1> QED BY <1>2, <1>4 DEF FramesOK

----------------------------------------------------------------------------
(* Lemmas about the tables *)

LEMMA SpendType ==
    ASSUME budget \in [Kind -> Nat], NEW kind \in Kind, Spend(kind)
    PROVE  budget' \in [Kind -> Nat]
<1>1. budget[kind] \in Nat /\ budget[kind] > 0
  BY DEF Spend
<1>2. budget[kind] - 1 \in Nat
  BY <1>1
<1> QED BY <1>2 DEF Spend

LEMMA FaultType ==
    ASSUME budget \in [Kind -> Nat], NEW kind, Fault(kind)
    PROVE  budget' \in [Kind -> Nat]
<1>1. Spend("fault") /\ "fault" \in Kind
  BY DEF Fault, Kind
<1> QED BY <1>1, SpendType

JobType == job \in [Jobs -> [status: Status \cup {"absent"}, task: Tasks \cup {None}]]

LEMMA UpdateType ==
    ASSUME JobType, NEW j \in Jobs, NEW to \in Status, NEW t \in Tasks \cup {None},
           Update(j, to, t)
    PROVE  JobType'
<1> DEFINE r == [status |-> to, task |-> IF t = None THEN job[j].task ELSE t]
<1>1. job[j].task \in Tasks \cup {None}
  BY DEF JobType
<1>2. r \in [status: Status \cup {"absent"}, task: Tasks \cup {None}]
  BY <1>1
<1>3. job' = [job EXCEPT ![j] = r]
  BY DEF Update
<1> QED BY <1>2, <1>3 DEF JobType

LEMMA SubmitType ==
    ASSUME JobType, NEW j \in Jobs, Submit(j)
    PROVE  JobType'
<1> DEFINE r == [status |-> "submitted", task |-> None]
<1>1. r \in [status: Status \cup {"absent"}, task: Tasks \cup {None}]
  BY DEF Status
<1>2. CASE Exists(j)
  BY <1>2 DEF JobType, Submit
<1>3. CASE ~Exists(j)
  <2>1. job' = [job EXCEPT ![j] = r]
    BY <1>3 DEF Submit
  <2> QED BY <1>1, <2>1 DEF JobType
<1> QED BY <1>2, <1>3

\* What the operations of the queue do to its rows: they release or claim them.
QueueType == queue \subseteq Row /\ nextRow \in Nat \ {0}

LEMMA EnqueueType ==
    ASSUME QueueType, NEW j \in Jobs, Enqueue(j)
    PROVE  QueueType'
<1>1. CASE HasRow(j)
  BY <1>1 DEF QueueType, Enqueue
<1>2. CASE ~HasRow(j)
  <2> DEFINE r == [id |-> nextRow, job |-> j, token |-> None, expired |-> FALSE]
  <2>1. r \in Row
    BY DEF QueueType, Row
  <2>2. queue' = queue \cup {r} /\ nextRow' = nextRow + 1
    BY <1>2 DEF Enqueue
  <2> HIDE DEF r
  <2> QED BY <2>1, <2>2 DEF QueueType
<1> QED BY <1>1, <1>2

LEMMA ClaimType ==
    ASSUME QueueType, NEW r \in queue, NEW tok \in Token, Claim(r, tok)
    PROVE  QueueType'
<1>1. r \in Row
  BY DEF QueueType
<1>2. [r EXCEPT !.token = tok, !.expired = FALSE] \in Row
  <2>1. [r EXCEPT !.token = tok] \in Row
    BY <1>1 DEF Row
  <2> QED BY <2>1 DEF Row
<1> QED BY <1>2 DEF QueueType, Claim

LEMMA NackType ==
    ASSUME QueueType, NEW id, NEW tok, Nack(id, tok)
    PROVE  QueueType'
<1>1. ASSUME NEW r \in queue PROVE [r EXCEPT !.token = None, !.expired = FALSE] \in Row
  <2>1. [r EXCEPT !.token = None] \in Row
    BY DEF QueueType, Row
  <2> QED BY <2>1 DEF Row
<1> QED BY <1>1 DEF QueueType, Nack

LEMMA AckType ==
    ASSUME QueueType, NEW id, NEW tok, Ack(id, tok)
    PROVE  QueueType'
BY DEF QueueType, Ack

LEMMA ExpireType ==
    ASSUME QueueType, NEW r \in queue, Expire(r)
    PROVE  QueueType'
<1>1. [r EXCEPT !.expired = TRUE] \in Row
  BY DEF QueueType, Row
<1> QED BY <1>1 DEF QueueType, Expire

----------------------------------------------------------------------------
(* Type correctness *)

TypeInv ==
    /\ JobType /\ QueueType
    /\ task \in [Tasks -> Phase]
    /\ proc \in [Process -> Frame] /\ FramesOK
    /\ budget \in [Kind -> Nat]
    /\ accepted \subseteq Jobs

LEMMA TypeInvOK == TypeInv => TypeOK
BY DEF TypeInv, TypeOK, JobType, QueueType

LEMMA InitType == Init => TypeInv
<1> SUFFICES ASSUME Init PROVE TypeInv
  OBVIOUS
<1>1. JobType
  BY DEF Init, JobInit, JobType
<1>2. QueueType
  BY DEF Init, QueueInit, QueueType
<1>3. task \in [Tasks -> Phase]
  BY DEF Init, OperatorInit, Phase
<1>4. proc \in [Process -> Frame] /\ FramesOK
  BY IdleFrame DEF Init, FramesOK
<1>5. budget \in [Kind -> Nat] /\ accepted \subseteq Jobs
  BY PipelineAssumption DEF Init
<1> QED BY <1>1, <1>2, <1>3, <1>4, <1>5 DEF TypeInv

LEMMA HandlerType ==
    ASSUME TypeInv, NEW h \in Handler,
           \/ \E j \in Jobs : PostJob(h, j) \/ CancelJob(h, j)
           \/ EnqueueJob(h) \/ Reply(h) \/ CancelAtOperator(h)
           \/ EnqueueFails(h) \/ Disconnect(h)
    PROVE  TypeInv'
<1> h \in Process
  BY DEF Process
<1> USE DEF TypeInv
<1>1. ASSUME NEW j \in Jobs, PostJob(h, j) PROVE TypeInv'
  <2> DEFINE f == [Idle EXCEPT !.pc = "enqueue", !.job = j]
  <2>1. f \in Frame /\ FrameOK(f)
    BY DEF Idle, Frame, FrameOK, Transiting, HandlerPc
  <2>2. proc' \in [Process -> Frame] /\ FramesOK'
    BY <1>1, <2>1, GotoFrame DEF PostJob
  <2>3. JobType'
    BY <1>1, SubmitType DEF PostJob
  <2>4. budget' \in [Kind -> Nat]
    BY <1>1, SpendType DEF PostJob, Kind
  <2> QED BY <1>1, <2>2, <2>3, <2>4 DEF PostJob, QueueType
<1>2. ASSUME NEW j \in Jobs, CancelJob(h, j) PROVE TypeInv'
  <2> DEFINE f == [Idle EXCEPT !.pc = "cancelRpc", !.job = j, !.task = job[j].task]
  <2>1. f \in Frame /\ FrameOK(f)
    <3>1. job[j].task \in Tasks \cup {None}
      BY DEF JobType
    <3> QED BY <3>1, CancelFrame
  <2>2. proc' \in [Process -> Frame] /\ FramesOK'
    BY <1>2, <2>1, GotoFrame DEF CancelJob
  <2>3. budget' \in [Kind -> Nat]
    BY <1>2, SpendType DEF CancelJob, Kind
  <2> QED BY <1>2, <2>2, <2>3 DEF CancelJob, QueueType, JobType
<1>3. CASE EnqueueJob(h)
  <2>1. proc[h].job \in Jobs /\ proc[h].task \in Tasks \cup {None}
    BY <1>3 DEF EnqueueJob, At, FramesOK, FrameOK, Frame
  <2>2. proc' \in [Process -> Frame] /\ FramesOK'
    <3> DEFINE f == Moving(h, "queue", "queued")
    <3>1. f \in Frame /\ FrameOK(f)
      BY <2>1, MovingFrame, MovingSame DEF Reason, Status
    <3> QED BY <1>3, <3>1, GotoFrame DEF EnqueueJob
  <2>3. QueueType'
    BY <1>3, <2>1, EnqueueType DEF EnqueueJob
  <2> QED BY <1>3, <2>2, <2>3 DEF EnqueueJob, JobType
<1>4. CASE Reply(h)
  <2>1. proc[h].job \in Jobs
    BY <1>4 DEF Reply, At, FramesOK, FrameOK
  <2>2. proc' \in [Process -> Frame] /\ FramesOK'
    BY <1>4, IdleFrame, GotoFrame DEF Reply
  <2> QED BY <1>4, <2>1, <2>2 DEF Reply, QueueType, JobType
<1>5. CASE CancelAtOperator(h)
  <2>1. proc[h].job \in Jobs /\ proc[h].task \in Tasks \cup {None}
    BY <1>5 DEF CancelAtOperator, At, FramesOK, FrameOK, Frame
  <2>2. proc' \in [Process -> Frame] /\ FramesOK'
    <3> DEFINE f == Moving(h, "cancel", "cancelled")
    <3>1. f \in Frame /\ FrameOK(f)
      BY <2>1, MovingFrame, MovingSame DEF Reason, Status, Terminal
    <3> QED BY <1>5, <3>1, GotoFrame DEF CancelAtOperator
  <2>3. task' \in [Tasks -> Phase]
    BY <1>5 DEF CancelAtOperator, CancelTask, Phase, Ended
  <2> QED BY <1>5, <2>2, <2>3 DEF CancelAtOperator, QueueType, JobType
<1>6. CASE EnqueueFails(h)
  BY <1>6, IdleFrame, GotoFrame, FaultType DEF EnqueueFails, QueueType, JobType
<1>7. CASE Disconnect(h)
  BY <1>7, IdleFrame, GotoFrame, FaultType DEF Disconnect, QueueType, JobType
<1> QED BY <1>1, <1>2, <1>3, <1>4, <1>5, <1>6, <1>7

\* Where a transition goes on.
LEMMA TransitionPc ==
    ASSUME NEW why \in Reason
    PROVE  /\ OkPc[why] \in {"idle", "reply", "follow", "ack", "nack"}
           /\ OkPc[why] = "follow" <=> why = "start"
           /\ OkPc[why] = "ack" <=> why = "finish"
           /\ ErrPc[why] \in {"idle", "reply", "nack"}
           /\ OkPc[why] = "reply" <=> why = "queue"
           /\ ErrPc[why] = "reply" <=> why = "queue"
BY DEF Reason, OkPc, ErrPc

\* The frame after the read half of a transition.
LEMMA WritingFrame ==
    ASSUME proc \in [Process -> Frame], NEW p \in Process, NEW seen \in Status
    PROVE  LET f == proc[p]
               g == [Moving(p, f.why, f.to) EXCEPT !.pc = "write", !.seen = seen] IN
           /\ f.why \in Reason /\ f.to \in Status => g \in Frame
           /\ g.pc = "write" /\ g.job = f.job /\ g.row = f.row /\ g.task = f.task
           /\ g.why = f.why /\ g.to = f.to /\ g.seen = seen
<1>1. proc[p] \in Frame
  OBVIOUS
<1> QED BY <1>1 DEF Moving, Frame, HandlerPc, WorkerPc

LEMMA TransitionType ==
    ASSUME TypeInv, NEW p \in Process,
           ReadStatus(p) \/ WriteStatus(p) \/ TransitionFails(p)
    PROVE  TypeInv'
<1> USE DEF TypeInv
<1> DEFINE f == proc[p]
<1>1. f \in Frame /\ FrameOK(f)
  BY DEF FramesOK
<1>2. /\ f.pc \in {"read", "write"} /\ f.pc # "idle"
      /\ f.job \in Jobs /\ f.why \in Reason /\ f.to \in Status
      /\ f.why = "start" => f.task \in Tasks
  BY <1>1 DEF ReadStatus, WriteStatus, TransitionFails, At, FrameOK, Transiting
<1>3. Resume(f, ErrPc[f.why]) \in Frame /\ FrameOK(Resume(f, ErrPc[f.why]))
  BY <1>1, <1>2, TransitionPc, ResumeFrame
<1>4. Resume(f, OkPc[f.why]) \in Frame /\ FrameOK(Resume(f, OkPc[f.why]))
  BY <1>1, <1>2, TransitionPc, ResumeFrame
<1>5. TaskSet(f) \in Tasks \cup {None}
  BY <1>2 DEF TaskSet
<1>6. CASE ReadStatus(p)
  <2> DEFINE current == job[f.job].status
             g == [Moving(p, f.why, f.to) EXCEPT !.pc = "write", !.seen = current]
  <2>1. ASSUME allowed(current, f.to) PROVE g \in Frame /\ FrameOK(g)
    <3>1. current \in Status
      BY <1>2, <2>1 DEF JobType, allowed, Status
    <3>3. /\ g \in Frame
          /\ g.pc = "write" /\ g.job = f.job /\ g.task = f.task
          /\ g.why = f.why /\ g.to = f.to /\ g.seen = current
      BY <1>2, <3>1, WritingFrame
    <3> HIDE DEF g
    <3>5. f.to = "queued"  <=> f.why = "queue"
      BY <1>1, <1>2 DEF FrameOK, Transiting
    <3>6. f.to = "running" <=> f.why = "start"
      BY <1>1, <1>2 DEF FrameOK, Transiting
    <3>7. /\ f.why = "finish" => f.to \in Terminal
          /\ f.why \in {"start", "finish"} => f.task \in Tasks
      BY <1>1, <1>2 DEF FrameOK, Transiting
    <3>8. FrameOK(g)
      BY <1>2, <2>1, <3>1, <3>3, <3>5, <3>6, <3>7 DEF FrameOK, Transiting
    <3> QED BY <3>3, <3>8
  <2>2. proc' \in [Process -> Frame] /\ FramesOK'
    BY <1>3, <1>6, <2>1, GotoFrame DEF ReadStatus
  <2> QED BY <1>6, <2>2 DEF ReadStatus, JobType, QueueType
<1>7. CASE WriteStatus(p)
  <2>1. proc' \in [Process -> Frame] /\ FramesOK'
    BY <1>3, <1>4, <1>7, GotoFrame DEF WriteStatus
  <2>2. JobType'
    <3>1. CASE Update(f.job, f.to, TaskSet(f))
      BY <1>2, <1>5, <3>1, UpdateType
    <3>2. CASE UNCHANGED job
      BY <3>2 DEF JobType
    <3> QED BY <1>7, <3>1, <3>2 DEF WriteStatus
  <2> QED BY <1>7, <2>1, <2>2 DEF WriteStatus, QueueType
<1>8. CASE TransitionFails(p)
  <2>1. proc' \in [Process -> Frame] /\ FramesOK'
    BY <1>3, <1>8, GotoFrame DEF TransitionFails
  <2>2. JobType'
    <3>1. CASE Update(f.job, f.to, TaskSet(f))
      BY <1>2, <1>5, <3>1, UpdateType
    <3>2. CASE UNCHANGED job
      BY <3>2 DEF JobType
    <3> QED BY <1>8, <3>1, <3>2 DEF TransitionFails
  <2> QED BY <1>8, <2>1, <2>2, FaultType DEF TransitionFails, QueueType
<1> QED BY <1>6, <1>7, <1>8

LEMMA WorkerType ==
    ASSUME TypeInv, NEW w \in Worker,
           \/ Dequeue(w) \/ LoadJob(w) \/ Dispatch(w) \/ PollTerminal(w)
           \/ LedgerWaitExceeded(w) \/ AckRow(w) \/ NackRow(w)
           \/ LoadFails(w) \/ DispatchFails(w) \/ PollFails(w) \/ ReleaseFails(w)
    PROVE  TypeInv'
<1> USE DEF TypeInv
<1>1. w \in Process /\ ClaimToken[w] \in Token
  BY PipelineAssumption DEF Process
<1>2. proc[w] \in Frame /\ FrameOK(proc[w])
  BY <1>1 DEF FramesOK
<1>3. proc[w].task \in Tasks \cup {None}
  BY <1>2 DEF Frame
<1>4. proc[w].pc # "idle" => proc[w].job \in Jobs
  BY <1>2 DEF FrameOK
<1>5. ASSUME proc[w].pc # "idle"
      PROVE  Resume(proc[w], "nack") \in Frame /\ FrameOK(Resume(proc[w], "nack"))
  BY <1>2, <1>5, ResumeFrame
<1>6. ASSUME proc[w].pc # "idle"
      PROVE  LET f == Moving(w, "giveup", "failed") IN f \in Frame /\ FrameOK(f)
  BY <1>1, <1>3, <1>4, <1>6, MovingFrame, MovingSame DEF Reason, Status, Terminal
<1>7. CASE Dequeue(w)
  <2>1. PICK r \in queue :
          /\ Claim(r, ClaimToken[w])
          /\ Goto(w, [Idle EXCEPT !.pc = "load", !.job = r.job, !.row = r.id])
    BY <1>7 DEF Dequeue
  <2>2. r.job \in Jobs /\ r.id \in Nat
    BY DEF QueueType, Row
  <2> DEFINE f == [Idle EXCEPT !.pc = "load", !.job = r.job, !.row = r.id]
  <2>3. f \in Frame /\ FrameOK(f)
    BY <2>2 DEF Idle, Frame, FrameOK, Transiting, WorkerPc
  <2>4. proc' \in [Process -> Frame] /\ FramesOK'
    BY <1>1, <2>1, <2>3, GotoFrame
  <2>5. QueueType'
    BY <1>1, <2>1, ClaimType
  <2> QED BY <1>7, <2>4, <2>5 DEF Dequeue, JobType
<1>8. CASE LoadJob(w)
  <2> DEFINE pc == AfterLoad(proc[w].job)
             f == [proc[w] EXCEPT !.pc = pc]
  <2>1. pc \in {"ack", "dispatch"}
    BY DEF AfterLoad
  <2>2. proc[w].job \in Jobs
    BY <1>4, <1>8 DEF LoadJob, At
  <2> HIDE DEF pc
  <2>3. f \in Frame /\ f.pc = pc /\ f.job = proc[w].job
    BY <1>2, <2>1 DEF Frame, WorkerPc
  <2>4. FrameOK(f)
    BY <2>1, <2>2, <2>3 DEF FrameOK, Transiting
  <2>5. proc' \in [Process -> Frame] /\ FramesOK'
    BY <1>1, <1>8, <2>3, <2>4, GotoFrame DEF LoadJob, pc
  <2> QED BY <1>8, <2>5 DEF LoadJob, JobType, QueueType
<1>9. CASE Dispatch(w)
  <2>1. PICK t \in Tasks :
          Accept(t) /\ Goto(w, [Moving(w, "start", "running") EXCEPT !.task = t])
    BY <1>9 DEF Dispatch
  <2>2. proc[w].job \in Jobs
    BY <1>4, <1>9 DEF Dispatch, At
  <2> DEFINE f == [Moving(w, "start", "running") EXCEPT !.task = t]
  <2>3. f \in Frame /\ FrameOK(f)
    BY <1>1, <2>2, MovingFrame DEF Reason, Status
  <2>4. proc' \in [Process -> Frame] /\ FramesOK'
    BY <1>1, <2>1, <2>3, GotoFrame
  <2>5. task' \in [Tasks -> Phase]
    BY <2>1 DEF Accept, Phase
  <2> QED BY <1>9, <2>4, <2>5 DEF Dispatch, JobType, QueueType
<1>10. CASE PollTerminal(w)
  <2> DEFINE to == mapPhaseToStatus(task[proc[w].task])
             f == Moving(w, "finish", to)
  <2>1. to \in Terminal
    BY <1>10 DEF PollTerminal, Ended, mapPhaseToStatus, Terminal
  <2>2. proc[w].job \in Jobs /\ proc[w].task \in Tasks
    BY <1>2, <1>10 DEF PollTerminal, At, FrameOK
  <2> HIDE DEF to
  <2>3. f \in Frame /\ FrameOK(f)
    BY <1>1, <2>1, <2>2, MovingFrame, MovingSame DEF Reason, Status, Terminal
  <2>4. proc' \in [Process -> Frame] /\ FramesOK'
    BY <1>1, <1>10, <2>3, GotoFrame DEF PollTerminal, to
  <2> QED BY <1>10, <2>4 DEF PollTerminal, JobType, QueueType
<1>11. CASE LedgerWaitExceeded(w)
  BY <1>1, <1>6, <1>11, GotoFrame DEF LedgerWaitExceeded, At, JobType, QueueType
<1>12. CASE AckRow(w)
  BY <1>1, <1>12, IdleFrame, GotoFrame, AckType DEF AckRow, JobType
<1>13. CASE NackRow(w)
  BY <1>1, <1>13, IdleFrame, GotoFrame, NackType DEF NackRow, JobType
<1>14. CASE LoadFails(w)
  BY <1>1, <1>5, <1>14, GotoFrame, FaultType DEF LoadFails, At, JobType, QueueType
<1>15. CASE DispatchFails(w)
  <2>1. task' \in [Tasks -> Phase]
    BY <1>15 DEF DispatchFails, Accept, Phase
  <2>2. proc' \in [Process -> Frame] /\ FramesOK'
    BY <1>1, <1>6, <1>15, GotoFrame DEF DispatchFails, At
  <2> QED BY <1>15, <2>1, <2>2, FaultType DEF DispatchFails, JobType, QueueType
<1>16. CASE PollFails(w)
  BY <1>1, <1>5, <1>16, GotoFrame, FaultType DEF PollFails, At, JobType, QueueType
<1>17. CASE ReleaseFails(w)
  BY <1>1, <1>17, IdleFrame, GotoFrame, FaultType DEF ReleaseFails, JobType, QueueType
<1> QED
  BY <1>7, <1>8, <1>9, <1>10, <1>11, <1>12, <1>13, <1>14, <1>15, <1>16, <1>17

LEMMA EnvironmentType ==
    ASSUME TypeInv,
           \/ LeaseExpires \/ Crash \/ (\E t \in Tasks : TaskEnds(t))
           \/ (\E w \in Worker : DequeueFails(w)) \/ UNCHANGED vars
    PROVE  TypeInv'
<1> USE DEF TypeInv
<1>1. CASE LeaseExpires
  BY <1>1, ExpireType DEF LeaseExpires, JobType, FramesOK
<1>2. CASE Crash
  <2>1. proc' \in [Process -> Frame] /\ FramesOK'
    BY <1>2, IdleFrame DEF Crash, FramesOK
  <2> QED BY <1>2, <2>1, FaultType DEF Crash, JobType, QueueType
<1>3. ASSUME NEW t \in Tasks, TaskEnds(t) PROVE TypeInv'
  <2>1. task' \in [Tasks -> Phase]
    BY <1>3 DEF TaskEnds, Finish, Phase, Ended
  <2> QED BY <1>3, <2>1 DEF TaskEnds, JobType, QueueType, FramesOK
<1>4. CASE UNCHANGED vars
  BY <1>4 DEF vars, JobType, QueueType, FramesOK
<1>5. ASSUME NEW w \in Worker, DequeueFails(w) PROVE TypeInv'
  <2>1. ClaimToken[w] \in Token
    BY PipelineAssumption
  <2>2. QueueType'
    BY <1>5, <2>1, ClaimType DEF DequeueFails
  <2> QED BY <1>5, <2>2, FaultType DEF DequeueFails, JobType, FramesOK
<1> QED BY <1>1, <1>2, <1>3, <1>4, <1>5

LEMMA StepType == TypeInv /\ [Next]_vars => TypeInv'
<1> SUFFICES ASSUME TypeInv, [Next]_vars PROVE TypeInv'
  OBVIOUS
<1>1. ASSUME NEW h \in Handler, NEW j \in Jobs, PostJob(h, j) \/ CancelJob(h, j)
      PROVE  TypeInv'
  BY <1>1, HandlerType
<1>2. ASSUME NEW h \in Handler, HandlerStep(h) \/ HandlerFault(h) PROVE TypeInv'
  <2>1. h \in Process
    BY DEF Process
  <2> QED BY <1>2, <2>1, HandlerType, TransitionType DEF HandlerStep, HandlerFault
<1>3. ASSUME NEW w \in Worker, WorkerStep(w) \/ WorkerFault(w) PROVE TypeInv'
  <2>1. w \in Process
    BY DEF Process
  <2> QED BY <1>3, <2>1, WorkerType, TransitionType, EnvironmentType
          DEF WorkerStep, WorkerFault
<1> QED BY <1>1, <1>2, <1>3, EnvironmentType DEF Next

THEOREM TypeInvariant == Spec => []TypeInv
BY InitType, StepType, PTL DEF Spec

\* The tables and the frames of handlers and workers always hold values of the
\* types jobs.go, queue.go and worker.go give them: among others, a status the
\* state machine knows, whatever phase the operator plane reports.
THEOREM TypeCorrect == Spec => []TypeOK
BY TypeInvariant, TypeInvOK, PTL

----------------------------------------------------------------------------
(* No job is lost.  A step is looked at in three ways: what it does to the *)
(* rows, what it does to the jobs, and the frame it leaves.                *)

\* A row is only dropped for a finished job, ...
RowsLeave ==
    \A r \in queue : (\E q \in queue' : q.id = r.id /\ q.job = r.job) \/ IsTerminal(r.job)

\* ... and the only row that can be new is the next one.
RowsStem ==
    /\ nextRow <= nextRow'
    /\ \A q \in queue' : q.id < nextRow => \E r \in queue : r.id = q.id /\ r.job = q.job

RowsStep == RowsLeave /\ RowsStem /\ RowIds'

TerminalStays == \A j \in Jobs : IsTerminal(j) => IsTerminal(j)'

\* The same rows, whoever claims them.
SameRows ==
    /\ \A r \in queue : \E q \in queue' : q.id = r.id /\ q.job = r.job
    /\ \A q \in queue' : \E r \in queue : r.id = q.id /\ r.job = q.job
    /\ nextRow' = nextRow

LEMMA SameRowsStep ==
    ASSUME QueueType, RowIds, SameRows
    PROVE  RowsStep
<1>1. RowsLeave
  BY DEF SameRows, RowsLeave
<1>2. RowsStem
  BY DEF SameRows, RowsStem, QueueType
<1>3. RowIds'
  BY DEF SameRows, RowIds
<1> QED BY <1>1, <1>2, <1>3 DEF RowsStep

LEMMA QueueSame ==
    ASSUME UNCHANGED <<queue, nextRow>>
    PROVE  SameRows
BY DEF SameRows

LEMMA ClaimSame ==
    ASSUME QueueType, NEW r \in queue, NEW tok, Claim(r, tok)
    PROVE  SameRows
<1> DEFINE c == [r EXCEPT !.token = tok, !.expired = FALSE]
<1>1. r \in Row
  BY DEF QueueType
<1>2. c.id = r.id /\ c.job = r.job
  BY <1>1 DEF Row
<1>3. queue' = (queue \ {r}) \cup {c} /\ nextRow' = nextRow
  BY DEF Claim
<1> HIDE DEF c
<1> QED BY <1>2, <1>3 DEF SameRows

LEMMA ExpireSame ==
    ASSUME QueueType, NEW r \in queue, Expire(r)
    PROVE  SameRows
<1> DEFINE c == [r EXCEPT !.expired = TRUE]
<1>1. r \in Row
  BY DEF QueueType
<1>2. c.id = r.id /\ c.job = r.job
  BY <1>1 DEF Row
<1>3. queue' = (queue \ {r}) \cup {c} /\ nextRow' = nextRow
  BY DEF Expire
<1> HIDE DEF c
<1> QED BY <1>2, <1>3 DEF SameRows

LEMMA NackSame ==
    ASSUME QueueType, NEW id, NEW tok, Nack(id, tok)
    PROVE  SameRows
<1> DEFINE c(r) == IF Holds(r, id, tok)
                   THEN [r EXCEPT !.token = None, !.expired = FALSE] ELSE r
<1>1. ASSUME NEW r \in queue PROVE c(r).id = r.id /\ c(r).job = r.job
  BY DEF QueueType, Row
<1>2. queue' = {c(r) : r \in queue} /\ nextRow' = nextRow
  BY DEF Nack
<1> HIDE DEF c
<1> QED BY <1>1, <1>2 DEF SameRows

LEMMA EnqueueStep ==
    ASSUME QueueType, RowIds, NEW j \in Jobs, Enqueue(j)
    PROVE  RowsStep /\ HasRow(j)'
<1>1. CASE HasRow(j)
  BY <1>1, QueueSame, SameRowsStep DEF Enqueue, HasRow
<1>2. CASE ~HasRow(j)
  <2> DEFINE n == [id |-> nextRow, job |-> j, token |-> None, expired |-> FALSE]
  <2>1. n.id = nextRow /\ n.job = j
    OBVIOUS
  <2>2. queue' = queue \cup {n} /\ nextRow' = nextRow + 1
    BY <1>2 DEF Enqueue
  <2>3. \A r \in queue : r.id \in Nat /\ 0 < r.id /\ r.id < nextRow
    BY DEF QueueType, Row, RowIds
  <2> HIDE DEF n
  <2>4. nextRow \in Nat /\ 0 < nextRow
    BY DEF QueueType
  <2>5. RowsLeave
    BY <2>2 DEF RowsLeave
  <2>6. RowsStem
    BY <2>1, <2>2, <2>4 DEF RowsStem
  <2>7. RowIds'
    <3>1. ASSUME NEW r \in queue' PROVE 0 < r.id /\ r.id < nextRow'
      BY <2>1, <2>2, <2>3, <2>4
    <3>2. ASSUME NEW q \in queue', NEW r \in queue', q.id = r.id PROVE q.job = r.job
      BY <2>1, <2>2, <2>3, <2>4, <3>2 DEF RowIds
    <3> QED BY <3>1, <3>2 DEF RowIds
  <2>8. HasRow(j)'
    BY <2>1, <2>2 DEF HasRow
  <2> QED BY <2>5, <2>6, <2>7, <2>8 DEF RowsStep
<1> QED BY <1>1, <1>2

LEMMA AckStep ==
    ASSUME TypeInv, QueueInv, NEW w \in Worker, AckRow(w)
    PROVE  RowsStep
<1> w \in Process
  BY DEF Process
<1>1. /\ queue' = {r \in queue : ~Holds(r, proc[w].row, ClaimToken[w])}
      /\ nextRow' = nextRow
  BY DEF AckRow, Ack
<1>2. IsTerminal(proc[w].job)
  BY DEF AckRow, At, QueueInv, QueueFrames, AckFinished
<1>3. RowsLeave
  <2> SUFFICES ASSUME NEW r \in queue, r \notin queue'
               PROVE  IsTerminal(r.job)
    BY DEF RowsLeave
  <2>1. r.id = proc[w].row
    BY <1>1 DEF Holds
  <2>2. r.job = proc[w].job
    BY <2>1 DEF QueueInv, QueueFrames, HeldRow
  <2> QED BY <1>2, <2>2
<1>4. RowsStem
  BY <1>1 DEF RowsStem, TypeInv, QueueType
<1>5. RowIds'
  BY <1>1 DEF RowIds, QueueInv
<1> QED BY <1>3, <1>4, <1>5 DEF RowsStep

\* The jobs have not moved.
LEMMA JobsSame ==
    ASSUME TypeInv, QueueInv, RowsStep, UNCHANGED job
    PROVE  /\ TerminalStays
           /\ StartedHaveRow'
           /\ UNCHANGED accepted => AcceptedHaveRow'
<1>1. TerminalStays
  BY DEF TerminalStays, IsTerminal
<1>2. ASSUME NEW j \in Jobs, HasRow(j) PROVE HasRow(j)' \/ IsTerminal(j)
  BY <1>2 DEF RowsStep, RowsLeave, HasRow
<1>3. StartedHaveRow'
  <2> SUFFICES ASSUME NEW j \in Jobs, job[j].status \in {"queued", "running"}
               PROVE  HasRow(j)'
    BY DEF StartedHaveRow
  <2>1. HasRow(j) /\ ~IsTerminal(j)
    BY DEF QueueInv, StartedHaveRow, IsTerminal, Terminal
  <2> QED BY <1>2, <2>1
<1>4. ASSUME UNCHANGED accepted PROVE AcceptedHaveRow'
  <2> SUFFICES ASSUME NEW j \in accepted PROVE HasRow(j)' \/ IsTerminal(j)'
    BY <1>4 DEF AcceptedHaveRow
  <2>1. j \in Jobs /\ (HasRow(j) \/ IsTerminal(j))
    BY DEF TypeInv, QueueInv, AcceptedHaveRow
  <2> QED BY <1>1, <1>2, <2>1 DEF TerminalStays
<1> QED BY <1>1, <1>3, <1>4

\* The UPDATE of Transition, the row of the job having been looked at.
LEMMA UpdateStatus ==
    ASSUME JobType, NEW j \in Jobs, NEW to \in Status, NEW t \in Tasks \cup {None},
           Update(j, to, t)
    PROVE  /\ job'[j].status = to
           /\ \A k \in Jobs : k # j => job'[k] = job[k]
BY DEF JobType, Update

LEMMA JobMoves ==
    ASSUME TypeInv, QueueInv, UNCHANGED <<queue, nextRow, accepted>>,
           NEW j \in Jobs, NEW to \in Status, NEW t \in Tasks \cup {None},
           Update(j, to, t), allowed(job[j].status, to),
           to = "queued" => HasRow(j)
    PROVE  TerminalStays /\ StartedHaveRow' /\ AcceptedHaveRow'
<1>1. /\ job'[j].status = to
      /\ \A k \in Jobs : k # j => job'[k] = job[k]
  BY UpdateStatus DEF TypeInv
<1>2. ~IsTerminal(j)
  BY DEF allowed, IsTerminal, Terminal
<1>3. TerminalStays
  BY <1>1, <1>2 DEF TerminalStays, IsTerminal
<1>4. \A k \in Jobs : HasRow(k)' <=> HasRow(k)
  BY DEF HasRow
<1>5. StartedHaveRow'
  <2> SUFFICES ASSUME NEW k \in Jobs, job'[k].status \in {"queued", "running"}
               PROVE  HasRow(k)
    BY <1>4 DEF StartedHaveRow
  <2>1. CASE k # j
    BY <1>1, <2>1 DEF QueueInv, StartedHaveRow
  <2>2. CASE k = j /\ to = "running"
    BY <2>2 DEF allowed, Terminal, QueueInv, StartedHaveRow
  <2>3. CASE k = j /\ to = "queued"
    BY <2>3
  <2> QED BY <1>1, <2>1, <2>2, <2>3
<1>6. AcceptedHaveRow'
  <2> SUFFICES ASSUME NEW k \in accepted PROVE HasRow(k) \/ IsTerminal(k)'
    BY <1>4 DEF AcceptedHaveRow, TypeInv
  <2>1. k \in Jobs /\ (HasRow(k) \/ IsTerminal(k))
    BY DEF TypeInv, QueueInv, AcceptedHaveRow
  <2> QED BY <1>3, <2>1 DEF TerminalStays
<1> QED BY <1>3, <1>5, <1>6

\* The frames of the processes that did not take the step.
LEMMA OtherFrames ==
    ASSUME TypeInv, TypeInv', QueueInv, RowsStep, TerminalStays,
           NEW q \in Process, proc'[q] = proc[q]
    PROVE  (HeldRow(proc[q]) /\ HandedOver(proc[q]) /\ AckFinished(proc[q]))'
<1>1. HeldRow(proc[q]) /\ HandedOver(proc[q]) /\ AckFinished(proc[q])
  BY DEF QueueInv, QueueFrames
<1>2. /\ proc[q] \in Frame /\ FrameOK(proc[q])
      /\ nextRow \in Nat /\ nextRow' \in Nat
  BY DEF TypeInv, FramesOK, QueueType
<1>3. HeldRow(proc[q])'
  <2>1. proc[q].row \in Nat /\ proc[q].row < nextRow /\ nextRow <= nextRow'
    BY <1>1, <1>2 DEF HeldRow, Frame, RowsStep, RowsStem
  <2>2. ASSUME NEW r \in queue', r.id = proc[q].row PROVE r.job = proc[q].job
    BY <1>1, <2>1, <2>2 DEF HeldRow, RowsStep, RowsStem
  <2>3. proc[q].row < nextRow'
    BY <1>2, <2>1
  <2> QED BY <2>2, <2>3 DEF HeldRow
<1>4. AckFinished(proc[q])'
  <2> SUFFICES ASSUME proc[q].pc = "ack" PROVE IsTerminal(proc[q].job)'
    BY DEF AckFinished
  <2>1. proc[q].job \in Jobs
    BY <1>2 DEF FrameOK
  <2>2. ASSUME NEW j \in Jobs, IsTerminal(j) PROVE IsTerminal(j)'
    BY <2>2 DEF TerminalStays
  <2> QED BY <1>1, <2>1, <2>2 DEF AckFinished, IsTerminal
<1>5. HandedOver(proc[q])'
  <2> SUFFICES ASSUME proc[q].pc = "reply" \/ (Transiting(proc[q]) /\ proc[q].why = "queue")
               PROVE  (HasRow(proc[q].job) \/ IsTerminal(proc[q].job))'
    BY DEF HandedOver, Transiting
  <2>1. proc[q].job \in Jobs
    BY <1>2 DEF FrameOK, Transiting
  <2>2. HasRow(proc[q].job) \/ IsTerminal(proc[q].job)
    BY <1>1 DEF HandedOver
  <2>3. ASSUME NEW j \in Jobs, HasRow(j) \/ IsTerminal(j) PROVE HasRow(j)' \/ IsTerminal(j)'
    BY <2>3 DEF TerminalStays, RowsStep, RowsLeave, HasRow
  <2> QED BY <2>1, <2>2, <2>3 DEF HasRow, IsTerminal
<1> QED BY <1>3, <1>4, <1>5

\* The frame of the process that did: it kept its row or let go of it.
LEMMA ActorFrames ==
    ASSUME TypeInv, TypeInv', QueueInv, RowsStep, TerminalStays,
           NEW p \in Process, NEW f, Goto(p, f),
           \/ f.row = 0
           \/ f.row = proc[p].row /\ f.job = proc[p].job,
           HandedOver(proc[p])', AckFinished(proc[p])'
    PROVE  QueueFrames'
<1>1. proc' = [proc EXCEPT ![p] = f] /\ proc'[p] = f
  BY DEF Goto, TypeInv
<1>2. HeldRow(proc[p])'
  <2>1. /\ nextRow \in Nat /\ nextRow' \in Nat \ {0} /\ nextRow <= nextRow'
        /\ \A r \in queue' : 0 < r.id
        /\ proc[p].row \in Nat
    BY DEF TypeInv, QueueType, RowsStep, RowsStem, RowIds, Frame
  <2>2. CASE f.row = 0
    BY <1>1, <2>1, <2>2 DEF HeldRow
  <2>3. CASE f.row = proc[p].row /\ f.job = proc[p].job
    <3>1. HeldRow(proc[p])
      BY DEF QueueInv, QueueFrames
    <3>2. ASSUME NEW r \in queue', r.id = f.row PROVE r.job = f.job
      BY <2>1, <2>3, <3>1, <3>2 DEF HeldRow, RowsStep, RowsStem
    <3>3. f.row < nextRow'
      BY <2>1, <2>3, <3>1 DEF HeldRow
    <3> QED BY <1>1, <3>2, <3>3 DEF HeldRow
  <2> QED BY <2>2, <2>3
<1>3. ASSUME NEW q \in Process
      PROVE  (HeldRow(proc[q]) /\ HandedOver(proc[q]) /\ AckFinished(proc[q]))'
  <2>1. CASE q = p
    BY <1>2, <2>1
  <2>2. CASE q # p
    <3>1. proc'[q] = proc[q]
      BY <1>1, <2>2 DEF TypeInv
    <3> QED BY <3>1, OtherFrames
  <2> QED BY <2>1, <2>2
<1> QED BY <1>3 DEF QueueFrames

\* The common case: the process goes on to a step that asks nothing of it.
LEMMA PlainFrame ==
    ASSUME TypeInv, NEW p \in Process, NEW f, Goto(p, f),
           f.pc \notin {"reply", "ack"}, Transiting(f) => f.why # "queue"
    PROVE  HandedOver(proc[p])' /\ AckFinished(proc[p])'
<1>1. proc'[p] = f
  BY DEF Goto, TypeInv
<1> QED BY <1>1 DEF HandedOver, AckFinished, Transiting

LEMMA PlainStep ==
    ASSUME TypeInv, TypeInv', QueueInv, RowsStep, UNCHANGED <<job, accepted>>,
           NEW p \in Process, NEW f, Goto(p, f),
           \/ f.row = 0
           \/ f.row = proc[p].row /\ f.job = proc[p].job,
           f.pc \notin {"reply", "ack"}, Transiting(f) => f.why # "queue"
    PROVE  QueueInv'
<1>1. TerminalStays /\ StartedHaveRow' /\ AcceptedHaveRow'
  BY JobsSame
<1>2. HandedOver(proc[p])' /\ AckFinished(proc[p])'
  BY PlainFrame
<1>3. QueueFrames'
  BY <1>1, <1>2, ActorFrames
<1> QED BY <1>1, <1>3 DEF QueueInv, RowsStep

\* A frame that has a transition behind it.
LEMMA ResumeKeeps ==
    ASSUME NEW f \in Frame, NEW pc
    PROVE  /\ Resume(f, pc).pc = pc
           /\ ~Transiting(Resume(f, pc)) \/ pc \in {"read", "write"}
           /\ \/ Resume(f, pc).row = 0
              \/ Resume(f, pc).row = f.row /\ Resume(f, pc).job = f.job
           /\ pc # "idle" => Resume(f, pc).job = f.job
BY DEF Resume, Idle, Transiting

LEMMA HandlerQueue ==
    ASSUME TypeInv, TypeInv', QueueInv, NEW h \in Handler,
           \/ \E j \in Jobs : PostJob(h, j) \/ CancelJob(h, j)
           \/ EnqueueJob(h) \/ Reply(h) \/ CancelAtOperator(h)
           \/ EnqueueFails(h) \/ Disconnect(h)
    PROVE  RowsStep /\ QueueInv'
<1>0. h \in Process /\ QueueType /\ RowIds
  BY DEF Process, TypeInv, QueueInv
<1>a. ASSUME UNCHANGED <<queue, nextRow>> PROVE RowsStep
  BY <1>0, <1>a, QueueSame, SameRowsStep
<1>1. ASSUME NEW j \in Jobs, PostJob(h, j) PROVE RowsStep /\ QueueInv'
  <2> DEFINE f == [Idle EXCEPT !.pc = "enqueue", !.job = j]
  <2>1. f.pc = "enqueue" /\ f.row = 0 /\ ~Transiting(f)
    BY DEF Idle, Transiting
  <2>2. RowsStep /\ UNCHANGED <<queue, nextRow, accepted>> /\ Goto(h, f)
    BY <1>1, <1>a DEF PostJob
  <2> HIDE DEF f
  <2>3. ASSUME NEW k \in Jobs
        PROVE  \/ job'[k] = job[k]
               \/ job[k].status = "absent" /\ job'[k].status = "submitted"
    BY <1>1 DEF PostJob, Submit, Exists, TypeInv, JobType
  <2>4. TerminalStays
    BY <2>3 DEF TerminalStays, IsTerminal, Terminal
  <2>5. StartedHaveRow'
    BY <2>2, <2>3 DEF StartedHaveRow, HasRow, QueueInv
  <2>6. AcceptedHaveRow'
    BY <2>2, <2>4 DEF AcceptedHaveRow, HasRow, QueueInv, TerminalStays, TypeInv
  <2>7. QueueFrames'
    BY <1>0, <2>1, <2>2, <2>4, PlainFrame, ActorFrames
  <2> QED BY <2>2, <2>5, <2>6, <2>7 DEF QueueInv, RowsStep
<1>2. ASSUME NEW j \in Jobs, CancelJob(h, j) PROVE RowsStep /\ QueueInv'
  <2> DEFINE f == [Idle EXCEPT !.pc = "cancelRpc", !.job = j, !.task = job[j].task]
  <2>1. f.pc = "cancelRpc" /\ f.row = 0 /\ ~Transiting(f)
    BY DEF Idle, Transiting
  <2>2. RowsStep /\ UNCHANGED <<job, accepted>> /\ Goto(h, f)
    BY <1>2, <1>a DEF CancelJob
  <2> HIDE DEF f
  <2> QED BY <1>0, <2>1, <2>2, PlainStep
<1>3. CASE EnqueueJob(h)
  <2> DEFINE f == Moving(h, "queue", "queued")
  <2>1. proc[h].job \in Jobs
    BY <1>0, <1>3 DEF EnqueueJob, At, TypeInv, FramesOK, FrameOK
  <2>2. PICK j \in Jobs : j = proc[h].job
    BY <2>1
  <2>3. RowsStep /\ HasRow(j)'
    BY <1>0, <1>3, <2>2, EnqueueStep DEF EnqueueJob
  <2>4. f.pc = "read" /\ f.why = "queue" /\ f.row = proc[h].row /\ f.job = j
    BY <2>2 DEF Moving
  <2>5. UNCHANGED <<job, accepted>> /\ Goto(h, f)
    BY <1>3 DEF EnqueueJob
  <2> HIDE DEF f
  <2>6. TerminalStays /\ StartedHaveRow' /\ AcceptedHaveRow'
    BY <2>3, <2>5, JobsSame
  <2>7. proc'[h] = f
    BY <1>0, <2>5 DEF Goto, TypeInv
  <2>8. HandedOver(proc[h])' /\ AckFinished(proc[h])'
    BY <2>3, <2>4, <2>7 DEF HandedOver, AckFinished, HasRow
  <2>9. QueueFrames'
    BY <1>0, <2>2, <2>3, <2>4, <2>5, <2>6, <2>8, ActorFrames
  <2> QED BY <2>3, <2>6, <2>9 DEF QueueInv, RowsStep
<1>4. CASE Reply(h)
  <2>1. RowsStep /\ UNCHANGED job /\ Goto(h, Idle)
    BY <1>4, <1>a DEF Reply
  <2>2. Idle.pc = "idle" /\ Idle.row = 0 /\ ~Transiting(Idle)
    BY DEF Idle, Transiting
  <2>3. TerminalStays /\ StartedHaveRow'
    BY <2>1, JobsSame
  <2>4. PICK j \in Jobs : j = proc[h].job
    BY <1>0, <1>4 DEF Reply, At, TypeInv, FramesOK, FrameOK
  <2>5. HasRow(j) \/ IsTerminal(j)
    BY <1>0, <1>4, <2>4 DEF Reply, At, QueueInv, QueueFrames, HandedOver
  <2>6. AcceptedHaveRow'
    <3>1. accepted' = accepted \cup {j} /\ UNCHANGED <<job, queue>>
      BY <1>4, <2>4 DEF Reply
    <3> QED BY <2>5, <3>1 DEF AcceptedHaveRow, HasRow, IsTerminal, QueueInv
  <2>7. QueueFrames'
    BY <1>0, <2>1, <2>2, <2>3, PlainFrame, ActorFrames
  <2> QED BY <2>1, <2>3, <2>6, <2>7 DEF QueueInv, RowsStep
<1>5. CASE CancelAtOperator(h)
  <2> DEFINE f == Moving(h, "cancel", "cancelled")
  <2>1. f.pc = "read" /\ f.why = "cancel" /\ f.row = proc[h].row /\ f.job = proc[h].job
    BY DEF Moving
  <2>2. RowsStep /\ UNCHANGED <<job, accepted>> /\ Goto(h, f)
    BY <1>5, <1>a DEF CancelAtOperator
  <2> HIDE DEF f
  <2> QED BY <1>0, <2>1, <2>2, PlainStep
<1>6. CASE EnqueueFails(h) \/ Disconnect(h)
  <2>1. RowsStep /\ UNCHANGED <<job, accepted>> /\ Goto(h, Idle)
    BY <1>6, <1>a DEF EnqueueFails, Disconnect
  <2>2. Idle.pc = "idle" /\ Idle.row = 0 /\ ~Transiting(Idle)
    BY DEF Idle, Transiting
  <2> QED BY <1>0, <2>1, <2>2, PlainStep
<1> QED BY <1>1, <1>2, <1>3, <1>4, <1>5, <1>6

\* Read, write or failure: the frame after a transition is at an earlier point
\* of the same job, or past the transition.
LEMMA TransitionQueue ==
    ASSUME TypeInv, TypeInv', QueueInv, NEW p \in Process,
           ReadStatus(p) \/ WriteStatus(p) \/ TransitionFails(p)
    PROVE  RowsStep /\ QueueInv'
<1>0. QueueType /\ RowIds /\ proc[p] \in Frame /\ FrameOK(proc[p])
  BY DEF TypeInv, QueueInv, FramesOK
<1>1. RowsStep /\ UNCHANGED <<queue, nextRow, accepted>>
  BY <1>0, QueueSame, SameRowsStep DEF ReadStatus, WriteStatus, TransitionFails
<1> SUFFICES QueueInv'
  BY <1>1
<1> DEFINE f == proc[p]
<1>2. PICK j \in Jobs : j = f.job
  BY <1>0 DEF ReadStatus, WriteStatus, TransitionFails, At, FrameOK
<1>3. Transiting(f) /\ f.why \in Reason /\ f.to \in Status
  BY <1>0 DEF ReadStatus, WriteStatus, TransitionFails, At, FrameOK, Transiting
<1>4. f.why = "queue" => HasRow(j) \/ IsTerminal(j)
  BY <1>2, <1>3 DEF QueueInv, QueueFrames, HandedOver
<1>5. TaskSet(f) \in Tasks \cup {None}
  BY <1>0, <1>3 DEF TaskSet, FrameOK
\* The UPDATE goes through only from the status that was read.
<1>6. ASSUME f.pc = "write", StatusStill(j, f.seen), Update(j, f.to, TaskSet(f))
      PROVE  /\ TerminalStays /\ StartedHaveRow' /\ AcceptedHaveRow'
             /\ job'[j].status = f.to
  <2>1. allowed(job[j].status, f.to)
    BY <1>0, <1>6 DEF FrameOK, StatusStill
  <2>2. f.to = "queued" => HasRow(j)
    <3>1. ~IsTerminal(j)
      BY <2>1 DEF allowed, IsTerminal, Terminal
    <3> QED BY <1>0, <1>3, <1>4, <3>1 DEF FrameOK
  <2>3. JobType
    BY DEF TypeInv
  <2> HIDE DEF f
  <2>4. job'[j].status = f.to
    BY <1>3, <1>5, <1>6, <2>3, UpdateStatus
  <2> QED BY <1>1, <1>3, <1>5, <1>6, <2>1, <2>2, <2>4, JobMoves
<1>7. ASSUME UNCHANGED job
      PROVE  TerminalStays /\ StartedHaveRow' /\ AcceptedHaveRow'
  BY <1>1, <1>7, JobsSame
\* Past the transition: postJob replies, a worker acknowledges what it finished.
<1>8. ASSUME NEW pc \in {"idle", "reply", "follow", "ack", "nack"},
             Goto(p, Resume(f, pc)),
             TerminalStays, StartedHaveRow', AcceptedHaveRow',
             pc = "reply" => f.why = "queue",
             pc = "ack" => IsTerminal(j)'
      PROVE  QueueInv'
  <2> DEFINE g == Resume(f, pc)
  <2>1. /\ g.pc = pc /\ ~Transiting(g)
        /\ g.row = 0 \/ (g.row = f.row /\ g.job = f.job)
        /\ pc # "idle" => g.job = j
    BY <1>0, <1>2, ResumeKeeps
  <2> HIDE DEF g
  <2>2. proc'[p] = g
    BY <1>8 DEF Goto, TypeInv, g
  <2>3. pc = "reply" => HasRow(j)' \/ IsTerminal(j)'
    BY <1>1, <1>4, <1>8 DEF TerminalStays, HasRow
  <2>4. HandedOver(proc[p])' /\ AckFinished(proc[p])'
    BY <1>8, <2>1, <2>2, <2>3 DEF HandedOver, AckFinished, HasRow, IsTerminal, Transiting
  <2>5. QueueFrames'
    BY <1>1, <1>8, <2>1, <2>4, ActorFrames DEF g
  <2> QED BY <1>1, <1>8, <2>5 DEF QueueInv, RowsStep
<1>e. ASSUME Goto(p, Resume(f, ErrPc[f.why])),
             TerminalStays, StartedHaveRow', AcceptedHaveRow'
      PROVE  QueueInv'
  <2>1. PICK pc \in {"idle", "reply", "nack"} : pc = ErrPc[f.why]
    BY <1>3, TransitionPc
  <2>2. pc = "reply" => f.why = "queue"
    BY <1>3, <2>1, TransitionPc
  <2>3. Goto(p, Resume(f, pc))
    BY <1>e, <2>1
  <2> QED BY <1>e, <1>8, <2>2, <2>3
<1>9. CASE ReadStatus(p)
  <2>1. TerminalStays /\ StartedHaveRow' /\ AcceptedHaveRow'
    BY <1>7, <1>9 DEF ReadStatus
  <2>2. CASE Goto(p, Resume(f, ErrPc[f.why]))
    BY <1>e, <2>1, <2>2
  <2>3. ASSUME NEW seen \in Status,
               Goto(p, [Moving(p, f.why, f.to) EXCEPT !.pc = "write", !.seen = seen])
        PROVE  QueueInv'
    <3> DEFINE g == [Moving(p, f.why, f.to) EXCEPT !.pc = "write", !.seen = seen]
    <3>1. g.pc = "write" /\ g.row = f.row /\ g.job = f.job /\ g.why = f.why
      BY WritingFrame DEF TypeInv
    <3> HIDE DEF g
    <3>2. proc'[p] = g
      BY <2>3 DEF Goto, TypeInv, g
    <3>3. f.why = "queue" => HasRow(j)' \/ IsTerminal(j)'
      BY <1>1, <1>4, <2>1 DEF TerminalStays, HasRow
    <3>4. HandedOver(proc[p])' /\ AckFinished(proc[p])'
      BY <1>2, <3>1, <3>2, <3>3 DEF HandedOver, AckFinished, HasRow, IsTerminal, Transiting
    <3>5. QueueFrames'
      BY <1>1, <2>1, <2>3, <3>1, <3>4, ActorFrames DEF g
    <3> QED BY <1>1, <2>1, <3>5 DEF QueueInv, RowsStep
  <2>4. allowed(job[f.job].status, f.to) => job[f.job].status \in Status
    BY DEF allowed, Status
  <2>5. CASE allowed(job[f.job].status, f.to)
    <3>1. PICK seen \in Status : seen = job[f.job].status
      BY <2>4, <2>5
    <3>2. Goto(p, [Moving(p, f.why, f.to) EXCEPT !.pc = "write", !.seen = seen])
      BY <1>9, <2>5, <3>1 DEF ReadStatus
    <3> QED BY <2>3, <3>2
  <2>6. CASE ~allowed(job[f.job].status, f.to)
    BY <1>9, <2>2, <2>6 DEF ReadStatus
  <2> QED BY <2>5, <2>6
<1>10. CASE WriteStatus(p)
  <2>1. CASE StatusStill(f.job, f.seen)
    <3>1. /\ f.pc = "write" /\ Update(j, f.to, TaskSet(f)) /\ StatusStill(j, f.seen)
          /\ Goto(p, Resume(f, OkPc[f.why]))
      BY <1>2, <1>10, <2>1 DEF WriteStatus, At
    <3>2. f.why = "finish" => IsTerminal(j)'
      BY <1>0, <1>3, <1>6, <3>1 DEF FrameOK, IsTerminal
    <3>3. PICK pc \in {"idle", "reply", "follow", "ack", "nack"} : pc = OkPc[f.why]
      BY <1>3, TransitionPc
    <3>4. (pc = "reply" => f.why = "queue") /\ (pc = "ack" => f.why = "finish")
      BY <1>3, <3>3, TransitionPc
    <3>5. Goto(p, Resume(f, pc))
      BY <3>1, <3>3
    <3> QED BY <1>6, <1>8, <3>1, <3>2, <3>4, <3>5
  <2>2. CASE ~StatusStill(f.job, f.seen)
    <3>1. UNCHANGED job /\ Goto(p, Resume(f, ErrPc[f.why]))
      BY <1>10, <2>2 DEF WriteStatus
    <3> QED BY <1>7, <1>e, <3>1
  <2> QED BY <2>1, <2>2
<1>11. CASE TransitionFails(p)
  <2>1. Goto(p, Resume(f, ErrPc[f.why]))
    BY <1>11 DEF TransitionFails
  <2>2. TerminalStays /\ StartedHaveRow' /\ AcceptedHaveRow'
    <3>1. CASE UNCHANGED job
      BY <1>7, <3>1
    <3>2. CASE f.pc = "write" /\ StatusStill(f.job, f.seen) /\ Update(f.job, f.to, TaskSet(f))
      BY <1>2, <1>6, <3>2
    <3> QED BY <1>11, <3>1, <3>2 DEF TransitionFails
  <2> QED BY <1>e, <2>1, <2>2
<1> QED BY <1>9, <1>10, <1>11

LEMMA WorkerQueue ==
    ASSUME TypeInv, TypeInv', QueueInv, NEW w \in Worker,
           \/ Dequeue(w) \/ LoadJob(w) \/ Dispatch(w) \/ PollTerminal(w)
           \/ LedgerWaitExceeded(w) \/ AckRow(w) \/ NackRow(w)
           \/ LoadFails(w) \/ DispatchFails(w) \/ PollFails(w) \/ ReleaseFails(w)
    PROVE  RowsStep /\ QueueInv'
<1>0. w \in Process /\ QueueType /\ RowIds /\ proc[w] \in Frame /\ FrameOK(proc[w])
  BY DEF Process, TypeInv, QueueInv, FramesOK
<1>a. ASSUME UNCHANGED <<queue, nextRow>> PROVE RowsStep
  BY <1>0, <1>a, QueueSame, SameRowsStep
<1>i. Idle.pc = "idle" /\ Idle.row = 0 /\ ~Transiting(Idle)
  BY DEF Idle, Transiting
<1>1. CASE Dequeue(w)
  <2>1. PICK r \in queue :
          /\ Claim(r, ClaimToken[w])
          /\ Goto(w, [Idle EXCEPT !.pc = "load", !.job = r.job, !.row = r.id])
    BY <1>1 DEF Dequeue
  <2> DEFINE f == [Idle EXCEPT !.pc = "load", !.job = r.job, !.row = r.id]
  <2>2. f.pc = "load" /\ f.row = r.id /\ f.job = r.job /\ ~Transiting(f)
    BY DEF Idle, Transiting
  <2>3. UNCHANGED <<job, accepted>> /\ Goto(w, f)
    BY <1>1, <2>1 DEF Dequeue
  <2> HIDE DEF f
  <2>4. SameRows /\ RowsStep
    BY <1>0, <2>1, ClaimSame, SameRowsStep
  <2>5. TerminalStays /\ StartedHaveRow' /\ AcceptedHaveRow'
    BY <2>3, <2>4, JobsSame
  <2>6. HandedOver(proc[w])' /\ AckFinished(proc[w])'
    BY <1>0, <2>2, <2>3, PlainFrame
  <2>7. proc' = [proc EXCEPT ![w] = f] /\ proc'[w] = f
    BY <1>0, <2>3 DEF Goto, TypeInv
  <2>8. HeldRow(proc[w])'
    <3>1. f.row < nextRow'
      BY <2>2, <2>4 DEF SameRows, QueueInv, RowIds
    <3>2. ASSUME NEW q \in queue', q.id = f.row PROVE q.job = f.job
      <4>1. PICK s \in queue : s.id = q.id /\ s.job = q.job
        BY <2>4 DEF SameRows
      <4> QED BY <1>0, <2>2, <3>2, <4>1 DEF RowIds
    <3> QED BY <2>7, <3>1, <3>2 DEF HeldRow
  <2>9. ASSUME NEW q \in Process
        PROVE  (HeldRow(proc[q]) /\ HandedOver(proc[q]) /\ AckFinished(proc[q]))'
    <3>1. CASE q = w
      BY <2>6, <2>8, <3>1
    <3>2. CASE q # w
      <4>1. proc'[q] = proc[q]
        BY <2>7, <3>2 DEF TypeInv
      <4> QED BY <2>4, <2>5, <4>1, OtherFrames
    <3> QED BY <3>1, <3>2
  <2>10. QueueFrames'
    BY <2>9 DEF QueueFrames
  <2> QED BY <2>4, <2>5, <2>10 DEF QueueInv, RowsStep
<1>2. CASE LoadJob(w)
  <2> DEFINE pc == AfterLoad(proc[w].job)
             f == [proc[w] EXCEPT !.pc = pc]
  <2>1. /\ pc \in {"ack", "dispatch"}
        /\ pc = "ack" => IsTerminal(proc[w].job)
    BY DEF AfterLoad
  <2>2. f.pc = pc /\ f.row = proc[w].row /\ f.job = proc[w].job
    BY <1>0 DEF Frame
  <2>3. RowsStep /\ UNCHANGED <<job, accepted>> /\ Goto(w, f)
    BY <1>2, <1>a DEF LoadJob
  <2> HIDE DEF f, pc
  <2>4. TerminalStays /\ StartedHaveRow' /\ AcceptedHaveRow'
    BY <2>3, JobsSame
  <2>5. proc'[w] = f
    BY <1>0, <2>3 DEF Goto, TypeInv
  <2>6. HandedOver(proc[w])' /\ AckFinished(proc[w])'
    BY <2>1, <2>2, <2>3, <2>5 DEF HandedOver, AckFinished, IsTerminal, Transiting
  <2>7. QueueFrames'
    BY <1>0, <2>2, <2>3, <2>4, <2>6, ActorFrames
  <2> QED BY <2>3, <2>4, <2>7 DEF QueueInv, RowsStep
<1>3. CASE Dispatch(w)
  <2>1. PICK t \in Tasks : Goto(w, [Moving(w, "start", "running") EXCEPT !.task = t])
    BY <1>3 DEF Dispatch
  <2> DEFINE f == [Moving(w, "start", "running") EXCEPT !.task = t]
  <2>2. f.pc = "read" /\ f.why = "start" /\ f.row = proc[w].row /\ f.job = proc[w].job
    BY DEF Moving
  <2>3. RowsStep /\ UNCHANGED <<job, accepted>> /\ Goto(w, f)
    BY <1>3, <1>a, <2>1 DEF Dispatch
  <2> HIDE DEF f
  <2> QED BY <1>0, <2>2, <2>3, PlainStep
<1>4. ASSUME NEW why \in {"finish", "giveup"}, NEW to,
             Goto(w, Moving(w, why, to)), UNCHANGED <<job, queue, nextRow, accepted>>
      PROVE  RowsStep /\ QueueInv'
  <2> DEFINE f == Moving(w, why, to)
  <2>1. f.pc = "read" /\ f.why = why /\ f.row = proc[w].row /\ f.job = proc[w].job
    BY DEF Moving
  <2>2. RowsStep
    BY <1>4, <1>a
  <2> HIDE DEF f
  <2> QED BY <1>0, <1>4, <2>1, <2>2, PlainStep DEF f
<1>5. ASSUME Goto(w, Resume(proc[w], "nack")), UNCHANGED <<job, queue, nextRow, accepted>>
      PROVE  RowsStep /\ QueueInv'
  <2> DEFINE f == Resume(proc[w], "nack")
  <2>1. /\ f.pc = "nack" /\ ~Transiting(f)
        /\ f.row = 0 \/ (f.row = proc[w].row /\ f.job = proc[w].job)
    BY <1>0, ResumeKeeps
  <2>2. RowsStep
    BY <1>5, <1>a
  <2> HIDE DEF f
  <2> QED BY <1>0, <1>5, <2>1, <2>2, PlainStep DEF f
<1>6. CASE PollTerminal(w) \/ LedgerWaitExceeded(w) \/ DispatchFails(w)
  BY <1>4, <1>6 DEF PollTerminal, LedgerWaitExceeded, DispatchFails
<1>7. CASE LoadFails(w) \/ PollFails(w)
  BY <1>5, <1>7 DEF LoadFails, PollFails
<1>8. ASSUME RowsStep, Goto(w, Idle), UNCHANGED <<job, accepted>>
      PROVE  QueueInv'
  BY <1>0, <1>i, <1>8, PlainStep
<1>9. CASE AckRow(w)
  <2>1. RowsStep
    BY <1>9, AckStep
  <2> QED BY <1>8, <1>9, <2>1 DEF AckRow
<1>10. CASE NackRow(w)
  <2>1. RowsStep
    BY <1>0, <1>10, NackSame, SameRowsStep DEF NackRow
  <2> QED BY <1>8, <1>10, <2>1 DEF NackRow
<1>11. CASE ReleaseFails(w)
  <2>1. RowsStep
    BY <1>11, <1>a DEF ReleaseFails
  <2> QED BY <1>8, <1>11, <2>1 DEF ReleaseFails
<1> QED BY <1>1, <1>2, <1>3, <1>6, <1>7, <1>9, <1>10, <1>11

LEMMA EnvironmentQueue ==
    ASSUME TypeInv, TypeInv', QueueInv,
           \/ LeaseExpires \/ Crash \/ (\E t \in Tasks : TaskEnds(t))
           \/ (\E w \in Worker : DequeueFails(w)) \/ UNCHANGED vars
    PROVE  RowsStep /\ QueueInv'
<1>0. QueueType /\ RowIds
  BY DEF TypeInv, QueueInv
<1>1. RowsStep /\ UNCHANGED <<job, accepted>>
  <2>1. CASE LeaseExpires
    BY <1>0, <2>1, ExpireSame, SameRowsStep DEF LeaseExpires
  <2>2. CASE UNCHANGED <<queue, nextRow, job, accepted>>
    BY <1>0, <2>2, QueueSame, SameRowsStep
  <2>3. ASSUME NEW w \in Worker, DequeueFails(w)
        PROVE  RowsStep /\ UNCHANGED <<job, accepted>>
    BY <1>0, <2>3, ClaimSame, SameRowsStep DEF DequeueFails
  <2> QED BY <2>1, <2>2, <2>3 DEF Crash, TaskEnds, vars
<1>2. TerminalStays /\ StartedHaveRow' /\ AcceptedHaveRow'
  BY <1>1, JobsSame
<1>3. QueueFrames'
  <2>1. CASE UNCHANGED proc
    BY <1>1, <1>2, <2>1, OtherFrames DEF QueueFrames
  <2>2. CASE proc' = [p \in Process |-> Idle]
    <3>1. Idle.pc = "idle" /\ Idle.row = 0
      BY DEF Idle
    <3>2. nextRow' \in Nat \ {0} /\ \A r \in queue' : 0 < r.id /\ r.id # 0
      BY <1>1 DEF RowsStep, RowIds, TypeInv, QueueType, Row
    <3> QED BY <2>2, <3>1, <3>2
            DEF QueueFrames, HeldRow, HandedOver, AckFinished, Transiting
  <2> QED BY <2>1, <2>2 DEF LeaseExpires, Crash, TaskEnds, DequeueFails, vars
<1> QED BY <1>1, <1>2, <1>3 DEF QueueInv, RowsStep

LEMMA InitQueue == Init => QueueInv
<1> SUFFICES ASSUME Init PROVE QueueInv
  OBVIOUS
<1>1. queue = {} /\ nextRow = 1 /\ accepted = {} /\ \A p \in Process : proc[p] = Idle
  BY DEF Init, QueueInit
<1>2. \A j \in Jobs : job[j].status = "absent"
  BY DEF Init, JobInit
<1>3. QueueFrames
  BY <1>1 DEF QueueFrames, HeldRow, HandedOver, AckFinished, Transiting, Idle
<1> QED BY <1>1, <1>2, <1>3 DEF QueueInv, RowIds, AcceptedHaveRow, StartedHaveRow

LEMMA StepQueue ==
    ASSUME TypeInv, QueueInv, [Next]_vars
    PROVE  RowsStep /\ QueueInv'
<1>0. TypeInv'
  BY StepType
<1>1. ASSUME NEW h \in Handler, NEW j \in Jobs, PostJob(h, j) \/ CancelJob(h, j)
      PROVE  RowsStep /\ QueueInv'
  BY <1>0, <1>1, HandlerQueue
<1>2. ASSUME NEW h \in Handler, HandlerStep(h) \/ HandlerFault(h)
      PROVE  RowsStep /\ QueueInv'
  <2>1. h \in Process
    BY DEF Process
  <2> QED BY <1>0, <1>2, <2>1, HandlerQueue, TransitionQueue DEF HandlerStep, HandlerFault
<1>3. ASSUME NEW w \in Worker, WorkerStep(w) \/ WorkerFault(w)
      PROVE  RowsStep /\ QueueInv'
  <2>1. w \in Process
    BY DEF Process
  <2> QED BY <1>0, <1>3, <2>1, WorkerQueue, TransitionQueue, EnvironmentQueue
          DEF WorkerStep, WorkerFault
<1> QED BY <1>0, <1>1, <1>2, <1>3, EnvironmentQueue DEF Next

LEMMA QueueInvSafe == TypeInv /\ QueueInv => NoJobLost
BY DEF TypeInv, QueueInv, AcceptedHaveRow, StartedHaveRow, NoJobLost, Live, IsTerminal,
       Terminal

\* Handlers, workers, lease expiries, crashes and failing statements in any
\* order: a job a client was told 202 about, and one that shows as queued or
\* running, has its queue row until it is terminal (server.go, worker.go).
THEOREM NoJobIsLost == Spec => []NoJobLost
<1>1. Spec => [](TypeInv /\ QueueInv)
  <2>1. Init => TypeInv /\ QueueInv
    BY InitType, InitQueue
  <2>2. TypeInv /\ QueueInv /\ [Next]_vars => (TypeInv /\ QueueInv)'
    BY StepType, StepQueue
  <2> QED BY <2>1, <2>2, PTL DEF Spec
<1> QED BY <1>1, QueueInvSafe, PTL

\* "Never drops a row" (worker.go:105): whoever acknowledges, and under whatever
\* lease, a row leaves the queue only when its job is terminal.
THEOREM OnlyFinishedRowsLeave == Spec => RowsLeaveFinished
<1>1. TypeInv /\ QueueInv /\ [Next]_vars => (TypeInv /\ QueueInv)'
  BY StepType, StepQueue
<1>2. TypeInv /\ QueueInv /\ [Next]_vars
        => [\A r \in queue : (\A q \in queue' : q.id # r.id) => IsTerminal(r.job)]_vars
  BY StepQueue DEF RowsStep, RowsLeave
<1> QED BY <1>1, <1>2, InitType, InitQueue, PTL DEF Spec, RowsLeaveFinished

----------------------------------------------------------------------------
(* JobPipeline implements JobLifecycle.                                    *)

Statuses == [j \in Jobs |-> job[j].status]

\* The two ways of writing down the state machine agree.
LEMMA EdgesAllowed ==
    ASSUME NEW from \in Status \cup {"absent"}, NEW to \in Status, allowed(from, to)
    PROVE  Life!allowed(from, to)
BY DEF allowed, Status, Terminal, Life!allowed, Life!Edges, Life!Terminal

LEMMA MoveLife ==
    ASSUME TypeInv, NEW j \in Jobs, NEW to \in Status, NEW t \in Tasks \cup {None},
           Update(j, to, t), allowed(job[j].status, to)
    PROVE  Life!Move(j, to)
<1>1. /\ job'[j].status = to
      /\ \A k \in Jobs : k # j => job'[k] = job[k]
  BY UpdateStatus DEF TypeInv
<1>2. job[j].status \in Status \cup {"absent"}
  BY DEF TypeInv, JobType
<1>3. Life!allowed(Statuses[j], to)
  BY <1>2, EdgesAllowed DEF Statuses
<1>4. Statuses' = [Statuses EXCEPT ![j] = to]
  BY <1>1 DEF Statuses
<1> QED BY <1>3, <1>4 DEF Life!Move, Statuses

LEMMA SubmitLife ==
    ASSUME TypeInv, NEW j \in Jobs, Submit(j)
    PROVE  Life!Create(j) \/ UNCHANGED Statuses
<1>1. CASE Exists(j)
  BY <1>1 DEF Submit, Statuses
<1>2. CASE ~Exists(j)
  <2> DEFINE r == [status |-> "submitted", task |-> None]
  <2>1. job' = [job EXCEPT ![j] = r]
    BY <1>2 DEF Submit
  <2>2. /\ job'[j].status = "submitted"
        /\ \A k \in Jobs : k # j => job'[k] = job[k]
    BY <2>1 DEF TypeInv, JobType
  <2>3. Statuses[j] = "absent" /\ Statuses' = [Statuses EXCEPT ![j] = "submitted"]
    BY <1>2, <2>2 DEF Statuses, Exists
  <2> QED BY <2>3 DEF Life!Create, Statuses
<1> QED BY <1>1, <1>2

\* A transition that goes through moves its job along an edge; one that does not
\* leaves all jobs alone.
LEMMA TransitionLife ==
    ASSUME TypeInv, NEW p \in Process,
           ReadStatus(p) \/ WriteStatus(p) \/ TransitionFails(p)
    PROVE  \/ \E j \in Jobs, to \in Life!Status : Life!Move(j, to)
           \/ UNCHANGED Statuses
<1> DEFINE f == proc[p]
<1>1. FrameOK(f)
  BY DEF TypeInv, FramesOK
<1>2. f.job \in Jobs /\ f.to \in Status /\ TaskSet(f) \in Tasks \cup {None}
  BY <1>1 DEF ReadStatus, WriteStatus, TransitionFails, At, FrameOK, Transiting, TaskSet
<1>3. ASSUME f.pc = "write", StatusStill(f.job, f.seen), Update(f.job, f.to, TaskSet(f))
      PROVE  \E j \in Jobs, to \in Life!Status : Life!Move(j, to)
  <2>1. PICK j \in Jobs, to \in Status, t \in Tasks \cup {None} :
          j = f.job /\ to = f.to /\ t = TaskSet(f)
    BY <1>2
  <2>2. allowed(job[j].status, to) /\ Update(j, to, t)
    BY <1>1, <1>3, <2>1 DEF FrameOK, StatusStill
  <2>3. Life!Move(j, to)
    BY <2>2, MoveLife
  <2>4. to \in Life!Status
    BY DEF Life!Status, Life!Terminal, Status, Terminal
  <2> QED BY <2>3, <2>4
<1>4. CASE UNCHANGED job
  BY <1>4 DEF Statuses
<1> QED BY <1>3, <1>4 DEF ReadStatus, WriteStatus, TransitionFails, At

LEMMA StepLife ==
    ASSUME TypeInv, [Next]_vars
    PROVE  Life!Next \/ UNCHANGED Statuses
<1>0. CASE UNCHANGED job
  BY <1>0 DEF Statuses
<1>1. ASSUME NEW h \in Handler, NEW j \in Jobs, PostJob(h, j) \/ CancelJob(h, j)
      PROVE  Life!Next \/ UNCHANGED Statuses
  BY <1>0, <1>1, SubmitLife DEF PostJob, CancelJob, Life!Next
<1>2. ASSUME NEW h \in Handler, HandlerStep(h) \/ HandlerFault(h)
      PROVE  Life!Next \/ UNCHANGED Statuses
  <2>1. h \in Process
    BY DEF Process
  <2>2. CASE ReadStatus(h) \/ WriteStatus(h) \/ TransitionFails(h)
    BY <2>1, <2>2, TransitionLife DEF Life!Next
  <2>3. CASE \/ EnqueueJob(h) \/ Reply(h) \/ CancelAtOperator(h)
             \/ EnqueueFails(h) \/ Disconnect(h)
    BY <1>0, <2>3 DEF EnqueueJob, Reply, CancelAtOperator, EnqueueFails, Disconnect
  <2> QED BY <1>2, <2>2, <2>3 DEF HandlerStep, HandlerFault
<1>3. ASSUME NEW w \in Worker, WorkerStep(w) \/ WorkerFault(w)
      PROVE  Life!Next \/ UNCHANGED Statuses
  <2>1. w \in Process
    BY DEF Process
  <2>2. CASE ReadStatus(w) \/ WriteStatus(w) \/ TransitionFails(w)
    BY <2>1, <2>2, TransitionLife DEF Life!Next
  <2>3. CASE \/ Dequeue(w) \/ LoadJob(w) \/ Dispatch(w) \/ PollTerminal(w)
             \/ LedgerWaitExceeded(w) \/ AckRow(w) \/ NackRow(w)
    BY <1>0, <2>3 DEF Dequeue, LoadJob, Dispatch, PollTerminal, LedgerWaitExceeded,
                      AckRow, NackRow
  <2>4. CASE \/ DequeueFails(w) \/ LoadFails(w) \/ DispatchFails(w)
             \/ PollFails(w) \/ ReleaseFails(w)
    BY <1>0, <2>4 DEF DequeueFails, LoadFails, DispatchFails, PollFails, ReleaseFails
  <2> QED BY <1>3, <2>2, <2>3, <2>4 DEF WorkerStep, WorkerFault
<1>4. CASE LeaseExpires \/ Crash \/ (\E t \in Tasks : TaskEnds(t)) \/ UNCHANGED vars
  BY <1>0, <1>4 DEF LeaseExpires, Crash, TaskEnds, DequeueFails, vars
<1> QED BY <1>1, <1>2, <1>3, <1>4 DEF Next

\* The handlers and workers, each reading a status in one step and writing in
\* another, implement the state machine of jobs.go: a job only moves along the
\* edges of `allowed`, so that a terminal job is final.
THEOREM PipelineFollowsLifecycle == Spec => FollowsLifecycle
<1>1. Init => Life!Init
  BY DEF Init, JobInit, Life!Init
<1>2. TypeInv /\ [Next]_vars => [Life!Next]_Statuses
  BY StepLife
<1>3. Spec => [][Life!Next]_Statuses
  BY <1>2, TypeInvariant, PTL DEF Spec
<1> QED BY <1>1, <1>3, PTL DEF Spec, FollowsLifecycle, Life!Spec, Statuses

----------------------------------------------------------------------------
(* JobPipeline implements JobPromise.                                      *)

Due == {j \in Jobs : HasRow(j)}

\* A handler enqueues a job it has created.
EnqueuesExisting == \A p \in Process : At(p, "enqueue") => Exists(proc[p].job)

PromiseInv == TypeInv /\ QueueInv /\ EnqueuesExisting

\* What the client sees stays as it is, or one step of the promise is taken.
PromiseStep == Contract!PromiseNext \/ UNCHANGED <<Statuses, Due, accepted>>

\* A job does not cease to exist.
LEMMA ExistsStays ==
    ASSUME TypeInv, [Next]_vars, NEW j \in Jobs, Exists(j)
    PROVE  Exists(j)'
<1>1. Life!Next \/ UNCHANGED Statuses
  BY StepLife
<1>2. Statuses[j] # "absent" /\ Statuses \in [Jobs -> Status \cup {"absent"}]
  BY DEF Exists, Statuses, TypeInv, JobType
<1>3. Statuses'[j] # "absent"
  BY <1>1, <1>2
  DEF Life!Next, Life!Create, Life!Move, Life!Status, Life!Terminal, Statuses
<1> QED BY <1>3 DEF Statuses, Exists

\* Only PostJob leads to Enqueue.
LEMMA StepEnqueues ==
    ASSUME PromiseInv, [Next]_vars
    PROVE  EnqueuesExisting'
<1> USE DEF PromiseInv
<1> SUFFICES ASSUME NEW p \in Process, At(p, "enqueue")' PROVE Exists(proc[p].job)'
  BY DEF EnqueuesExisting
<1>1. CASE proc'[p] = proc[p]
  <2>1. At(p, "enqueue") /\ Exists(proc[p].job) /\ proc[p].job \in Jobs
    BY <1>1 DEF EnqueuesExisting, At, TypeInv, FramesOK, FrameOK
  <2>2. Exists(proc[p].job)'
    <3>1. PICK j \in Jobs : j = proc[p].job
      BY <2>1
    <3>2. Exists(j)'
      BY <2>1, <3>1, ExistsStays
    <3> QED BY <1>1, <3>1, <3>2 DEF Exists
  <2> QED BY <2>2
<1>2. ASSUME NEW j \in Jobs, PostJob(p, j) PROVE Exists(proc[p].job)'
  <2>1. proc'[p].job = j
    BY <1>2 DEF PostJob, Goto, TypeInv, Idle
  <2>2. job'[j].status # "absent"
    BY <1>2 DEF PostJob, Submit, Exists, TypeInv, JobType
  <2> QED BY <2>1, <2>2 DEF Exists
<1>3. ASSUME NEW q \in Process, NEW f, Goto(q, f), f.pc # "enqueue" PROVE proc'[p] = proc[p]
  BY <1>3 DEF Goto, At, TypeInv
<1>4. ASSUME NEW q \in Process, ReadStatus(q) \/ WriteStatus(q) \/ TransitionFails(q)
      PROVE  proc'[p] = proc[p]
  <2>1. proc[q] \in Frame /\ proc[q].why \in Reason
    BY <1>4 DEF ReadStatus, WriteStatus, TransitionFails, At, TypeInv, FramesOK, FrameOK,
                Transiting
  <2>2. ErrPc[proc[q].why] # "enqueue" /\ OkPc[proc[q].why] # "enqueue"
    BY <2>1 DEF Reason, ErrPc, OkPc
  <2>3. Resume(proc[q], ErrPc[proc[q].why]).pc # "enqueue"
        /\ Resume(proc[q], OkPc[proc[q].why]).pc # "enqueue"
    BY <2>1, <2>2, ResumeKeeps
  <2>4. CASE ReadStatus(q)
    BY <1>3, <2>3, <2>4 DEF ReadStatus, Moving
  <2>5. CASE WriteStatus(q)
    BY <1>3, <2>3, <2>5 DEF WriteStatus
  <2>6. CASE TransitionFails(q)
    BY <1>3, <2>3, <2>6 DEF TransitionFails
  <2> QED BY <1>4, <2>4, <2>5, <2>6
<1>5. ASSUME NEW h \in Handler,
             \/ \E j \in Jobs : CancelJob(h, j)
             \/ EnqueueJob(h) \/ Reply(h) \/ CancelAtOperator(h)
             \/ EnqueueFails(h) \/ Disconnect(h)
      PROVE  proc'[p] = proc[p]
  <2>1. h \in Process
    BY DEF Process
  <2> QED
    BY <1>3, <1>5, <2>1
    DEF CancelJob, EnqueueJob, Reply, CancelAtOperator, EnqueueFails, Disconnect, Moving, Idle
<1>6. ASSUME NEW w \in Worker,
             \/ Dequeue(w) \/ LoadJob(w) \/ Dispatch(w) \/ PollTerminal(w)
             \/ LedgerWaitExceeded(w) \/ AckRow(w) \/ NackRow(w)
             \/ LoadFails(w) \/ DispatchFails(w) \/ PollFails(w) \/ ReleaseFails(w)
      PROVE  proc'[p] = proc[p]
  <2>1. w \in Process /\ proc[w] \in Frame
    BY DEF Process, TypeInv
  <2>2. Resume(proc[w], "nack").pc = "nack"
    BY <2>1, ResumeKeeps
  <2>3. CASE Dequeue(w)
    BY <1>3, <2>1, <2>3 DEF Dequeue, Idle
  <2>4. CASE LoadJob(w)
    <3>1. [proc[w] EXCEPT !.pc = AfterLoad(proc[w].job)].pc = AfterLoad(proc[w].job)
      BY <2>1 DEF Frame
    <3>2. AfterLoad(proc[w].job) # "enqueue"
      BY DEF AfterLoad
    <3> QED BY <1>3, <2>1, <2>4, <3>1, <3>2 DEF LoadJob
  <2>5. CASE Dispatch(w)
    BY <1>3, <2>1, <2>5 DEF Dispatch, Moving
  <2>6. CASE PollTerminal(w) \/ LedgerWaitExceeded(w) \/ DispatchFails(w)
    BY <1>3, <2>1, <2>6 DEF PollTerminal, LedgerWaitExceeded, DispatchFails, Moving
  <2>7. CASE AckRow(w) \/ NackRow(w) \/ ReleaseFails(w)
    BY <1>3, <2>1, <2>7 DEF AckRow, NackRow, ReleaseFails, Idle
  <2>8. CASE LoadFails(w) \/ PollFails(w)
    BY <1>3, <2>1, <2>2, <2>8 DEF LoadFails, PollFails
  <2> QED BY <1>6, <2>3, <2>4, <2>5, <2>6, <2>7, <2>8
<1>7. CASE UNCHANGED proc
  BY <1>1, <1>7
<1>8. ~Crash
  BY DEF Crash, At, Idle
<1>9. ASSUME NEW w \in Worker, DequeueFails(w) PROVE UNCHANGED proc
  BY <1>9 DEF DequeueFails
<1>10. CASE (\E t \in Tasks : TaskEnds(t)) \/ LeaseExpires \/ UNCHANGED vars
  BY <1>7, <1>10 DEF TaskEnds, LeaseExpires, vars
<1>11. ASSUME NEW h \in Handler, NEW j \in Jobs, PostJob(h, j) PROVE Exists(proc[p].job)'
  <2>1. CASE h = p
    BY <1>2, <1>11, <2>1
  <2>2. CASE h # p
    <3>1. proc'[p] = proc[p]
      BY <1>11, <2>2 DEF PostJob, Goto, TypeInv
    <3> QED BY <1>1, <3>1
  <2> QED BY <2>1, <2>2
<1>12. Handler \subseteq Process /\ Worker \subseteq Process
  BY DEF Process
<1> QED
  BY <1>1, <1>4, <1>5, <1>6, <1>7, <1>8, <1>9, <1>10, <1>11, <1>12
  DEF Next, HandlerStep, HandlerFault, WorkerStep, WorkerFault

\* A step of the queue alone: what is due changes by the job put or dropped.
LEMMA RowsPromise ==
    ASSUME TypeInv, UNCHANGED <<job, accepted>>,
           SameRows \/ UNCHANGED queue
    PROVE  UNCHANGED <<Statuses, Due, accepted>>
<1>1. Statuses' = Statuses
  BY DEF Statuses
<1>2. \A j : HasRow(j)' <=> HasRow(j)
  BY DEF HasRow, SameRows
<1>3. Due' = Due
  BY <1>2 DEF Due
<1> QED BY <1>1, <1>3

LEMMA EnqueuePromise ==
    ASSUME PromiseInv, NEW h \in Handler, EnqueueJob(h)
    PROVE  PromiseStep
<1> USE DEF PromiseInv
<1>1. PICK j \in Jobs : j = proc[h].job
  BY DEF EnqueueJob, At, TypeInv, FramesOK, FrameOK, Process
<1>2. Exists(j) /\ Enqueue(j) /\ UNCHANGED <<job, accepted>>
  BY <1>1 DEF EnqueueJob, EnqueuesExisting, Process
<1>3. \A k : HasRow(k)' <=> HasRow(k) \/ k = j
  <2>1. CASE HasRow(j)
    BY <1>2, <2>1 DEF Enqueue, HasRow
  <2>2. CASE ~HasRow(j)
    <3> DEFINE n == [id |-> nextRow, job |-> j, token |-> None, expired |-> FALSE]
    <3>1. queue' = queue \cup {n} /\ n.job = j
      BY <1>2, <2>2 DEF Enqueue
    <3> HIDE DEF n
    <3> QED BY <3>1 DEF HasRow
  <2> QED BY <2>1, <2>2
<1>4. Due' = Due \cup {j} /\ Statuses' = Statuses
  BY <1>2, <1>3 DEF Due, Statuses
<1>5. Statuses[j] # "absent"
  BY <1>2 DEF Statuses, Exists
<1>6. Contract!Put(j)
  BY <1>2, <1>4, <1>5 DEF Contract!Put, Due, Statuses
<1> QED BY <1>6 DEF PromiseStep, Contract!PromiseNext

LEMMA AckPromise ==
    ASSUME PromiseInv, NEW w \in Worker, AckRow(w)
    PROVE  PromiseStep
<1> USE DEF PromiseInv
<1>1. PICK j \in Jobs : j = proc[w].job
  BY DEF AckRow, At, TypeInv, FramesOK, FrameOK, Process
<1>2. IsTerminal(j)
  BY <1>1 DEF AckRow, At, QueueInv, QueueFrames, AckFinished, Process
<1>3. UNCHANGED <<job, accepted>>
  BY DEF AckRow
<1>4. \A r \in queue : r \notin queue' => r.job = j
  BY <1>1 DEF AckRow, Ack, Holds, QueueInv, QueueFrames, HeldRow, Process
<1>5. queue' \subseteq queue
  BY DEF AckRow, Ack
<1>6. \A k : (HasRow(k)' => HasRow(k)) /\ (HasRow(k) /\ k # j => HasRow(k)')
  BY <1>4, <1>5 DEF HasRow
<1>7. Due' = Due \/ Due' = Due \ {j}
  BY <1>6 DEF Due
<1>8. Statuses' = Statuses /\ Statuses[j] \in Life!Terminal
  BY <1>2, <1>3 DEF Statuses, IsTerminal, Terminal, Life!Terminal
<1>9. CASE Due' = Due
  BY <1>3, <1>8, <1>9 DEF PromiseStep
<1>10. CASE Due' = Due \ {j}
  <2>1. Contract!Drop(j)
    BY <1>3, <1>8, <1>10 DEF Contract!Drop, Contract!Ended, Contract!Terminal, Life!Terminal,
                             Due, Statuses
  <2> QED BY <2>1 DEF PromiseStep, Contract!PromiseNext
<1> QED BY <1>7, <1>9, <1>10

LEMMA ReplyPromise ==
    ASSUME PromiseInv, NEW h \in Handler, Reply(h)
    PROVE  PromiseStep
<1> USE DEF PromiseInv
<1>1. PICK j \in Jobs : j = proc[h].job
  BY DEF Reply, At, TypeInv, FramesOK, FrameOK, Process
<1>2. HasRow(j) \/ IsTerminal(j)
  BY <1>1 DEF Reply, At, QueueInv, QueueFrames, HandedOver, Process
<1>3. UNCHANGED <<job, queue>> /\ accepted' = accepted \cup {j}
  BY <1>1 DEF Reply
<1>4. Due' = Due /\ Statuses' = Statuses
  BY <1>3 DEF Due, HasRow, Statuses
<1>5. Contract!Promise(j)
  BY <1>2, <1>3, <1>4
  DEF Contract!Promise, Contract!Ended, Contract!Terminal, Due, Statuses, IsTerminal, Terminal
<1> QED BY <1>5 DEF PromiseStep, Contract!PromiseNext

\* A transition to queued or running leaves a job that has a row.
LEMMA JobPromises ==
    ASSUME PromiseInv, QueueInv', UNCHANGED <<queue, accepted>>,
           \/ \E j \in Jobs : Life!Create(j)
           \/ \E j \in Jobs, to \in Life!Status : Life!Move(j, to)
           \/ UNCHANGED Statuses
    PROVE  PromiseStep
<1> USE DEF PromiseInv
<1>1. Due' = Due
  BY DEF Due, HasRow
<1>2. ASSUME NEW j \in Jobs, Life!Create(j) PROVE PromiseStep
  <2>1. Contract!Admit(j)
    BY <1>1, <1>2 DEF Contract!Admit, Contract!Create, Life!Create, Due, Statuses
  <2> QED BY <2>1 DEF PromiseStep, Contract!PromiseNext
<1>3. ASSUME NEW j \in Jobs, NEW to \in Life!Status, Life!Move(j, to) PROVE PromiseStep
  <2>1. Statuses' = [Statuses EXCEPT ![j] = to]
    BY <1>3 DEF Life!Move, Statuses
  <2>2. job'[j].status = to
    BY <2>1 DEF Statuses
  <2>3. to \in {"queued", "running"} => j \in Due
    BY <1>1, <2>2 DEF QueueInv, StartedHaveRow, Due
  <2>4. Contract!Move(j, to)
    BY <1>3 DEF Contract!Move, Contract!allowed, Contract!Edges, Contract!Terminal,
                Life!Move, Life!allowed, Life!Edges, Life!Terminal
  <2>5. Contract!Advance(j, to)
    BY <1>1, <2>3, <2>4 DEF Contract!Advance, Due
  <2>6. to \in Contract!Status
    BY DEF Contract!Status, Contract!Terminal, Life!Status, Life!Terminal
  <2> QED BY <2>5, <2>6 DEF PromiseStep, Contract!PromiseNext
<1>4. CASE UNCHANGED Statuses
  BY <1>1, <1>4 DEF PromiseStep
<1> QED BY <1>2, <1>3, <1>4

LEMMA TransitionPromise ==
    ASSUME PromiseInv, QueueInv', NEW p \in Process,
           ReadStatus(p) \/ WriteStatus(p) \/ TransitionFails(p)
    PROVE  PromiseStep
<1>1. UNCHANGED <<queue, accepted>>
  BY DEF ReadStatus, WriteStatus, TransitionFails
<1>2. \/ \E j \in Jobs, to \in Life!Status : Life!Move(j, to)
      \/ UNCHANGED Statuses
  BY TransitionLife DEF PromiseInv
<1> QED BY <1>1, <1>2, JobPromises

LEMMA StepPromise ==
    ASSUME PromiseInv, [Next]_vars
    PROVE  PromiseStep
<1> USE DEF PromiseInv
<1>1. QueueInv'
  BY StepQueue
<1>2. Handler \subseteq Process /\ Worker \subseteq Process
  BY DEF Process
<1>3. ASSUME UNCHANGED <<job, accepted>>, SameRows \/ UNCHANGED queue PROVE PromiseStep
  BY <1>3, RowsPromise DEF PromiseStep
<1>4. ASSUME NEW h \in Handler, NEW j \in Jobs, PostJob(h, j) PROVE PromiseStep
  <2>1. Life!Create(j) \/ UNCHANGED Statuses
    BY <1>4, SubmitLife DEF PostJob
  <2>2. UNCHANGED <<queue, accepted>>
    BY <1>4 DEF PostJob
  <2> QED BY <1>1, <2>1, <2>2, JobPromises
<1>5. ASSUME NEW h \in Handler,
             \/ \E j \in Jobs : CancelJob(h, j)
             \/ CancelAtOperator(h) \/ EnqueueFails(h) \/ Disconnect(h)
      PROVE  PromiseStep
  BY <1>3, <1>5 DEF CancelJob, CancelAtOperator, EnqueueFails, Disconnect
<1>6. ASSUME NEW w \in Worker, Dequeue(w) \/ DequeueFails(w) \/ NackRow(w) PROVE PromiseStep
  <2>1. UNCHANGED <<job, accepted>>
    BY <1>6 DEF Dequeue, DequeueFails, NackRow
  <2>2. SameRows
    BY <1>6, ClaimSame, NackSame DEF Dequeue, DequeueFails, NackRow, TypeInv
  <2> QED BY <1>3, <2>1, <2>2
<1>7. ASSUME NEW w \in Worker,
             \/ LoadJob(w) \/ Dispatch(w) \/ PollTerminal(w) \/ LedgerWaitExceeded(w)
             \/ LoadFails(w) \/ DispatchFails(w) \/ PollFails(w) \/ ReleaseFails(w)
      PROVE  PromiseStep
  BY <1>3, <1>7
  DEF LoadJob, Dispatch, PollTerminal, LedgerWaitExceeded, LoadFails, DispatchFails,
      PollFails, ReleaseFails
<1>8. CASE LeaseExpires
  <2>1. SameRows /\ UNCHANGED <<job, accepted>>
    BY <1>8, ExpireSame DEF LeaseExpires, TypeInv
  <2> QED BY <1>3, <2>1
<1>9. CASE (\E t \in Tasks : TaskEnds(t)) \/ Crash \/ UNCHANGED vars
  BY <1>3, <1>9 DEF TaskEnds, Crash, vars
<1> QED
  BY <1>1, <1>2, <1>4, <1>5, <1>6, <1>7, <1>8, <1>9,
     EnqueuePromise, AckPromise, ReplyPromise, TransitionPromise
  DEF Next, HandlerStep, HandlerFault, WorkerStep, WorkerFault

\* Handlers, workers, leases, faults and restarts together implement JobPromise
\* (server.go, worker.go, queue.go): a job is created before its row and has it
\* before the client is answered 202; it shows as queued or running only while it
\* has one; the row goes only when the job has ended.
THEOREM PipelineKeepsPromise == Spec => KeepsPromise
<1>1. Init => PromiseInv
  <2>1. Init => EnqueuesExisting
    BY DEF Init, EnqueuesExisting, At, Idle
  <2> QED BY <2>1, InitType, InitQueue DEF PromiseInv
<1>2. PromiseInv /\ [Next]_vars => PromiseInv'
  BY StepType, StepQueue, StepEnqueues DEF PromiseInv
<1>3. Init => Contract!PromiseInit
  BY DEF Init, JobInit, QueueInit, HasRow, Contract!PromiseInit, Contract!Init
<1>4. PromiseInv /\ [Next]_vars => [Contract!PromiseNext]_(Contract!promiseVars)
  BY StepPromise DEF PromiseStep, Contract!promiseVars, Statuses, Due
<1> QED BY <1>1, <1>2, <1>3, <1>4, PTL DEF Spec, KeepsPromise, Contract!PromiseSpec

----------------------------------------------------------------------------
(* The outcome of a job is the outcome of its task.                        *)

TaskKept == \A j \in Jobs : job[j].task # None => job'[j].task = job[j].task

\* A task somebody knows of keeps its outcome.
EndedStays ==
    \A t \in Tasks :
        /\ task[t] \in Ended
        /\ (\E j \in Jobs : job[j].task = t) \/ (\E p \in Process : proc[p].task = t)
        => task'[t] = task[t]

\* A job newly shown as succeeded has a task that completed.
SuccessEarned ==
    \A j \in Jobs : job'[j].status = "succeeded" =>
        \/ job[j].status = "succeeded"
        \/ job[j].task \in Tasks /\ task[job[j].task] = "complete"

TaskStep == TaskKept /\ EndedStays /\ SuccessEarned /\ TaskStarted'

LEMMA TasksSame ==
    ASSUME UNCHANGED task
    PROVE  EndedStays
BY DEF EndedStays

LEMMA TasksAccept ==
    ASSUME TypeInv, NEW t \in Tasks, Fresh(t), Accept(t)
    PROVE  EndedStays
BY DEF EndedStays, Fresh, Accept, TypeInv

LEMMA JobTasksSame ==
    ASSUME TypeInv, TaskInv, UNCHANGED job
    PROVE  TaskKept /\ SuccessEarned /\ TaskStarted'
BY DEF TaskKept, SuccessEarned, TaskStarted, TaskInv

LEMMA SuccessStays ==
    ASSUME TypeInv, TaskInv, TaskStep
    PROVE  SucceededTask'
<1> SUFFICES ASSUME NEW j \in Jobs, job'[j].status = "succeeded"
             PROVE  job'[j].task # None /\ task'[job'[j].task] = "complete"
  BY DEF SucceededTask
<1>1. job[j].task \in Tasks \cup {None}
  BY DEF TypeInv, JobType
<1>2. job[j].task \in Tasks /\ task[job[j].task] = "complete"
  BY <1>1 DEF TaskStep, SuccessEarned, TaskInv, SucceededTask
<1>3. job[j].task # None
  BY <1>2, IdsAssumption
<1>4. job'[j].task = job[j].task
  BY <1>3 DEF TaskStep, TaskKept
<1>5. task'[job[j].task] = task[job[j].task]
  BY <1>2 DEF TaskStep, EndedStays, Ended
<1> QED BY <1>2, <1>3, <1>4, <1>5

LEMMA OtherTaskFrames ==
    ASSUME TypeInv, TaskInv, TaskStep, NEW q \in Process, proc'[q] = proc[q]
    PROVE  (FollowedTask(proc[q]) /\ ReportedPhase(proc[q]))'
<1>1. FollowedTask(proc[q]) /\ ReportedPhase(proc[q])
  BY DEF TaskInv, TaskFrames
<1>2. FrameOK(proc[q])
  BY DEF TypeInv, FramesOK
<1>3. FollowedTask(proc[q])'
  <2> SUFFICES ASSUME \/ proc[q].pc = "follow"
                      \/ Transiting(proc[q]) /\ proc[q].why = "finish"
               PROVE  job'[proc[q].job].task = proc[q].task
    BY DEF FollowedTask, Transiting
  <2>1. proc[q].job \in Jobs /\ proc[q].task \in Tasks
    BY <1>2 DEF FrameOK, Transiting
  <2>2. job[proc[q].job].task = proc[q].task
    BY <1>1 DEF FollowedTask
  <2> QED BY <2>1, <2>2, IdsAssumption DEF TaskStep, TaskKept
<1>4. ReportedPhase(proc[q])'
  <2>1. ASSUME Transiting(proc[q]), proc[q].why = "finish"
        PROVE  task'[proc[q].task] = task[proc[q].task]
    <3>1. proc[q].task \in Tasks
      BY <1>2, <2>1 DEF FrameOK
    <3> QED BY <1>1, <2>1, <3>1 DEF ReportedPhase, TaskStep, EndedStays
  <2> QED BY <1>1, <2>1 DEF ReportedPhase, Transiting
<1> QED BY <1>3, <1>4

LEMMA ActorTaskFrames ==
    ASSUME TypeInv, TaskInv, TaskStep, NEW p \in Process, NEW f, Goto(p, f),
           FollowedTask(proc[p])', ReportedPhase(proc[p])'
    PROVE  TaskInv'
<1>1. ASSUME NEW q \in Process PROVE (FollowedTask(proc[q]) /\ ReportedPhase(proc[q]))'
  <2>1. CASE q = p
    BY <2>1
  <2>2. CASE q # p
    <3>1. proc'[q] = proc[q]
      BY <2>2 DEF Goto, TypeInv
    <3> QED BY <3>1, OtherTaskFrames
  <2> QED BY <2>1, <2>2
<1> QED BY <1>1, SuccessStays DEF TaskInv, TaskFrames, TaskStep

\* A frame in which nothing is followed and no success reported asks nothing.
LEMMA PlainTaskStep ==
    ASSUME TypeInv, TaskInv, TaskStep, NEW p \in Process, NEW f, Goto(p, f),
           f.pc # "follow",
           Transiting(f) => f.why # "finish" /\ f.to # "succeeded"
    PROVE  TaskInv'
<1>1. proc'[p] = f
  BY DEF Goto, TypeInv
<1>2. FollowedTask(proc[p])' /\ ReportedPhase(proc[p])'
  BY <1>1 DEF FollowedTask, ReportedPhase, Transiting
<1> QED BY <1>2, ActorTaskFrames

LEMMA HandlerTask ==
    ASSUME TypeInv, TaskInv, NEW h \in Handler,
           \/ \E j \in Jobs : PostJob(h, j) \/ CancelJob(h, j)
           \/ EnqueueJob(h) \/ Reply(h) \/ CancelAtOperator(h)
           \/ EnqueueFails(h) \/ Disconnect(h)
    PROVE  TaskStep /\ TaskInv'
<1>0. h \in Process
  BY DEF Process
<1>a. ASSUME UNCHANGED <<job, task>> PROVE TaskStep
  BY <1>a, TasksSame, JobTasksSame DEF TaskStep
<1>1. ASSUME NEW j \in Jobs, PostJob(h, j) PROVE TaskStep /\ TaskInv'
  <2> DEFINE f == [Idle EXCEPT !.pc = "enqueue", !.job = j]
  <2>1. f.pc = "enqueue" /\ ~Transiting(f)
    BY DEF Idle, Transiting
  <2>2. UNCHANGED task /\ Goto(h, f)
    BY <1>1 DEF PostJob
  <2> HIDE DEF f
  <2>3. ASSUME NEW k \in Jobs
        PROVE  \/ job'[k] = job[k]
               \/ job[k].status = "absent" /\ job'[k] = [status |-> "submitted", task |-> None]
    BY <1>1 DEF PostJob, Submit, Exists, TypeInv, JobType
  <2>4. ASSUME NEW k \in Jobs
        PROVE  \/ job'[k] = job[k]
               \/ job[k].task = None /\ job'[k].task = None /\ job'[k].status = "submitted"
    <3>1. job[k].status = "absent" => job[k].task = None
      BY DEF TaskInv, TaskStarted, Terminal
    <3> QED BY <2>3, <3>1
  <2>5. TaskKept /\ SuccessEarned /\ TaskStarted'
    BY <2>4 DEF TaskKept, SuccessEarned, TaskStarted, TaskInv
  <2>6. TaskStep
    BY <2>2, <2>5, TasksSame DEF TaskStep
  <2> QED BY <1>0, <2>1, <2>2, <2>6, PlainTaskStep
<1>2. ASSUME NEW j \in Jobs, CancelJob(h, j) PROVE TaskStep /\ TaskInv'
  <2> DEFINE f == [Idle EXCEPT !.pc = "cancelRpc", !.job = j, !.task = job[j].task]
  <2>1. f.pc = "cancelRpc" /\ ~Transiting(f)
    BY DEF Idle, Transiting
  <2>2. TaskStep /\ Goto(h, f)
    BY <1>2, <1>a DEF CancelJob
  <2> HIDE DEF f
  <2> QED BY <1>0, <2>1, <2>2, PlainTaskStep
<1>3. CASE EnqueueJob(h)
  <2> DEFINE f == Moving(h, "queue", "queued")
  <2>1. f.pc = "read" /\ f.why = "queue" /\ f.to = "queued"
    BY DEF Moving
  <2>2. TaskStep /\ Goto(h, f)
    BY <1>3, <1>a DEF EnqueueJob
  <2> HIDE DEF f
  <2> QED BY <1>0, <2>1, <2>2, PlainTaskStep
<1>4. CASE CancelAtOperator(h)
  <2> DEFINE f == Moving(h, "cancel", "cancelled")
  <2>1. f.pc = "read" /\ f.why = "cancel" /\ f.to = "cancelled"
    BY DEF Moving
  <2>2. EndedStays
    BY <1>4 DEF CancelAtOperator, CancelTask, EndedStays, Ended, TypeInv
  <2>3. TaskStep /\ Goto(h, f)
    BY <1>4, <2>2, JobTasksSame DEF CancelAtOperator, TaskStep
  <2> HIDE DEF f
  <2> QED BY <1>0, <2>1, <2>3, PlainTaskStep
<1>5. CASE Reply(h) \/ EnqueueFails(h) \/ Disconnect(h)
  <2>1. Idle.pc = "idle" /\ ~Transiting(Idle)
    BY DEF Idle, Transiting
  <2>2. TaskStep /\ Goto(h, Idle)
    BY <1>5, <1>a DEF Reply, EnqueueFails, Disconnect
  <2> QED BY <1>0, <2>1, <2>2, PlainTaskStep
<1> QED BY <1>1, <1>2, <1>3, <1>4, <1>5

\* The UPDATE itself: the task id goes with the move to running, once.
LEMMA UpdateTask ==
    ASSUME JobType, NEW j \in Jobs, NEW to \in Status, NEW t \in Tasks \cup {None},
           Update(j, to, t)
    PROVE  job'[j].task = IF t = None THEN job[j].task ELSE t
BY DEF JobType, Update

LEMMA WriteTask ==
    ASSUME TypeInv, TaskInv, UNCHANGED task, NEW p \in Process,
           proc[p].pc = "write", StatusStill(proc[p].job, proc[p].seen),
           Update(proc[p].job, proc[p].to, TaskSet(proc[p]))
    PROVE  /\ TaskStep
           /\ proc[p].why = "start" => job'[proc[p].job].task = proc[p].task
<1>1. FrameOK(proc[p]) /\ FollowedTask(proc[p]) /\ ReportedPhase(proc[p])
  BY DEF TypeInv, FramesOK, TaskInv, TaskFrames
<1> DEFINE f == proc[p]
           t == TaskSet(f)
<1>2. f.job \in Jobs /\ f.to \in Status /\ f.why \in Reason /\ Transiting(f)
  BY <1>1 DEF FrameOK, Transiting
<1>3. t \in Tasks \cup {None} /\ (f.why = "start" => t \in Tasks /\ t = f.task)
  BY <1>1, <1>2 DEF TaskSet, FrameOK
<1>4. f.why # "start" => t = None
  BY DEF TaskSet
<1>5. PICK j \in Jobs : j = f.job
  BY <1>2
<1>6. allowed(job[j].status, f.to)
  BY <1>1, <1>5 DEF FrameOK, StatusStill
<1>7. f.to = "running" <=> f.why = "start"
  BY <1>1, <1>2 DEF FrameOK
<1>8. /\ job'[j].status = f.to
      /\ job'[j].task = IF t = None THEN job[j].task ELSE t
      /\ \A k \in Jobs : k # j => job'[k] = job[k]
  <2> HIDE DEF f, t
  <2>1. JobType /\ Update(j, f.to, t)
    BY <1>5 DEF TypeInv, f, t
  <2> QED BY <1>2, <1>3, <2>1, UpdateStatus, UpdateTask
<1>9. job[j].task # None => job[j].status \in {"running"} \cup Terminal
  BY DEF TaskInv, TaskStarted
<1>10. f.why = "start" => job[j].task = None
  BY <1>6, <1>7, <1>9 DEF allowed, Terminal
<1>11. f.to = "succeeded" => job[j].task \in Tasks /\ task[job[j].task] = "complete"
  <2> SUFFICES ASSUME f.to = "succeeded"
               PROVE  job[j].task \in Tasks /\ task[job[j].task] = "complete"
    OBVIOUS
  <2>1. f.why = "finish"
    BY <1>1, <1>2 DEF ReportedPhase
  <2>2. f.task \in Tasks /\ job[j].task = f.task
    BY <1>1, <1>2, <1>5, <2>1 DEF FrameOK, FollowedTask
  <2>3. task[f.task] \in Ended /\ mapPhaseToStatus(task[f.task]) = "succeeded"
    BY <1>1, <1>2, <2>1 DEF ReportedPhase
  <2>4. task[f.task] = "complete"
    BY <2>3 DEF Ended, mapPhaseToStatus
  <2> QED BY <2>2, <2>4
<1> HIDE DEF f, t
<1>12. TaskKept
  BY <1>4, <1>8, <1>10 DEF TaskKept
<1>13. SuccessEarned
  BY <1>8, <1>11 DEF SuccessEarned
<1>14. TaskStarted'
  <2> SUFFICES ASSUME NEW k \in Jobs, job'[k].task # None
               PROVE  job'[k].status \in {"running"} \cup Terminal
    BY DEF TaskStarted
  <2>1. CASE k # j
    BY <1>8, <2>1 DEF TaskInv, TaskStarted
  <2>2. CASE k = j /\ f.why = "start"
    BY <1>7, <1>8, <2>2
  <2>3. CASE k = j /\ f.why # "start"
    <3>1. job[j].status \in {"running"} \cup Terminal
      BY <1>4, <1>8, <1>9, <2>3
    <3> QED BY <1>6, <1>8, <2>3, <3>1 DEF allowed, Terminal
  <2> QED BY <2>1, <2>2, <2>3
<1>15. f.why = "start" => job'[j].task = f.task
  BY <1>3, <1>8, IdsAssumption
<1>16. TaskStep
  BY <1>12, <1>13, <1>14, TasksSame DEF TaskStep
<1> QED BY <1>5, <1>15, <1>16 DEF f

LEMMA TransitionTask ==
    ASSUME TypeInv, TaskInv, NEW p \in Process,
           ReadStatus(p) \/ WriteStatus(p) \/ TransitionFails(p)
    PROVE  TaskStep /\ TaskInv'
<1> DEFINE f == proc[p]
<1>1. /\ f \in Frame /\ FrameOK(f) /\ f.why \in Reason /\ Transiting(f)
      /\ FollowedTask(f) /\ ReportedPhase(f)
  BY DEF TypeInv, FramesOK, FrameOK, TaskInv, TaskFrames, Transiting,
         ReadStatus, WriteStatus, TransitionFails, At
<1>2. UNCHANGED task
  BY DEF ReadStatus, WriteStatus, TransitionFails
<1>3. ASSUME UNCHANGED job PROVE TaskStep
  BY <1>2, <1>3, TasksSame, JobTasksSame DEF TaskStep
<1>4. ASSUME TaskStep, Goto(p, Resume(f, ErrPc[f.why])) PROVE TaskInv'
  <2> DEFINE g == Resume(f, ErrPc[f.why])
  <2>1. g.pc # "follow" /\ ~Transiting(g)
    BY <1>1, TransitionPc, ResumeKeeps
  <2> HIDE DEF g
  <2>2. Goto(p, g)
    BY <1>4 DEF g
  <2> QED BY <1>4, <2>1, <2>2, PlainTaskStep
<1>5. CASE ReadStatus(p)
  <2>1. TaskStep
    BY <1>3, <1>5 DEF ReadStatus
  <2>2. CASE ~allowed(job[f.job].status, f.to)
    BY <1>4, <1>5, <2>1, <2>2 DEF ReadStatus
  <2>3. CASE allowed(job[f.job].status, f.to)
    <3>1. PICK seen \in Status : seen = job[f.job].status
      BY <2>3 DEF allowed, Status
    <3> DEFINE g == [Moving(p, f.why, f.to) EXCEPT !.pc = "write", !.seen = seen]
    <3>2. /\ g.pc = "write" /\ g.job = f.job /\ g.task = f.task
          /\ g.why = f.why /\ g.to = f.to
      BY WritingFrame DEF TypeInv
    <3>3. Goto(p, g)
      BY <1>5, <2>3, <3>1 DEF ReadStatus
    <3> HIDE DEF g
    <3>4. proc'[p] = g
      BY <3>3 DEF Goto, TypeInv
    <3>5. UNCHANGED <<job, task>>
      BY <1>5 DEF ReadStatus
    <3>6. FollowedTask(proc[p])' /\ ReportedPhase(proc[p])'
      BY <1>1, <3>2, <3>4, <3>5 DEF FollowedTask, ReportedPhase, Transiting
    <3> QED BY <2>1, <3>3, <3>6, ActorTaskFrames
  <2> QED BY <2>2, <2>3
<1>6. CASE WriteStatus(p)
  <2>1. CASE ~StatusStill(f.job, f.seen)
    BY <1>3, <1>4, <1>6, <2>1 DEF WriteStatus
  <2>2. CASE StatusStill(f.job, f.seen)
    <3>1. f.pc = "write" /\ Update(f.job, f.to, TaskSet(f))
      BY <1>6, <2>2 DEF WriteStatus, At
    <3>2. TaskStep /\ (f.why = "start" => job'[f.job].task = f.task)
      BY <1>2, <2>2, <3>1, WriteTask
    <3>3. PICK pc \in {"idle", "reply", "follow", "ack", "nack"} : pc = OkPc[f.why]
      BY <1>1, TransitionPc
    <3> DEFINE g == Resume(f, pc)
    <3>4. g.pc = pc /\ ~Transiting(g) /\ (pc = "follow" => g.job = f.job /\ g.task = f.task)
      BY <1>1 DEF Resume, Idle, Transiting
    <3>5. Goto(p, g)
      BY <1>6, <2>2, <3>3 DEF WriteStatus
    <3> HIDE DEF g
    <3>6. proc'[p] = g
      BY <3>5 DEF Goto, TypeInv
    <3>7. pc = "follow" => job'[f.job].task = f.task
      BY <1>1, <3>2, <3>3, TransitionPc
    <3>8. FollowedTask(proc[p])' /\ ReportedPhase(proc[p])'
      BY <3>4, <3>6, <3>7 DEF FollowedTask, ReportedPhase, Transiting
    <3> QED BY <3>2, <3>5, <3>8, ActorTaskFrames
  <2> QED BY <2>1, <2>2
<1>7. CASE TransitionFails(p)
  <2>1. TaskStep
    <3>1. CASE UNCHANGED job
      BY <1>3, <3>1
    <3>2. CASE f.pc = "write" /\ StatusStill(f.job, f.seen) /\ Update(f.job, f.to, TaskSet(f))
      BY <1>2, <3>2, WriteTask
    <3> QED BY <1>7, <3>1, <3>2 DEF TransitionFails
  <2> QED BY <1>4, <1>7, <2>1 DEF TransitionFails
<1> QED BY <1>5, <1>6, <1>7

LEMMA WorkerTask ==
    ASSUME TypeInv, TaskInv, NEW w \in Worker,
           \/ Dequeue(w) \/ LoadJob(w) \/ Dispatch(w) \/ PollTerminal(w)
           \/ LedgerWaitExceeded(w) \/ AckRow(w) \/ NackRow(w)
           \/ LoadFails(w) \/ DispatchFails(w) \/ PollFails(w) \/ ReleaseFails(w)
    PROVE  TaskStep /\ TaskInv'
<1>0. /\ w \in Process /\ proc[w] \in Frame /\ FrameOK(proc[w])
      /\ FollowedTask(proc[w])
  BY DEF Process, TypeInv, FramesOK, TaskInv, TaskFrames
<1>a. UNCHANGED job
  BY DEF Dequeue, LoadJob, Dispatch, PollTerminal, LedgerWaitExceeded, AckRow, NackRow,
         LoadFails, DispatchFails, PollFails, ReleaseFails
<1>b. ASSUME EndedStays PROVE TaskStep
  BY <1>a, <1>b, JobTasksSame DEF TaskStep
<1>c. ASSUME UNCHANGED task PROVE TaskStep
  BY <1>b, <1>c, TasksSame
<1>1. CASE Dequeue(w)
  <2>1. PICK r \in queue : Goto(w, [Idle EXCEPT !.pc = "load", !.job = r.job, !.row = r.id])
    BY <1>1 DEF Dequeue
  <2> DEFINE f == [Idle EXCEPT !.pc = "load", !.job = r.job, !.row = r.id]
  <2>2. f.pc = "load" /\ ~Transiting(f)
    BY DEF Idle, Transiting
  <2>3. TaskStep /\ Goto(w, f)
    BY <1>1, <1>c, <2>1 DEF Dequeue
  <2> HIDE DEF f
  <2> QED BY <1>0, <2>2, <2>3, PlainTaskStep
<1>2. CASE LoadJob(w)
  <2> DEFINE pc == AfterLoad(proc[w].job)
             f == [proc[w] EXCEPT !.pc = pc]
  <2>1. pc \in {"ack", "dispatch"}
    BY DEF AfterLoad
  <2>2. f.pc = pc
    BY <1>0 DEF Frame
  <2>3. TaskStep /\ Goto(w, f)
    BY <1>2, <1>c DEF LoadJob
  <2> HIDE DEF f, pc
  <2> QED BY <1>0, <2>1, <2>2, <2>3, PlainTaskStep DEF Transiting
<1>3. CASE Dispatch(w)
  <2>1. PICK t \in Tasks :
          /\ Fresh(t) /\ Accept(t)
          /\ Goto(w, [Moving(w, "start", "running") EXCEPT !.task = t])
    BY <1>3 DEF Dispatch
  <2> DEFINE f == [Moving(w, "start", "running") EXCEPT !.task = t]
  <2>2. f.pc = "read" /\ f.why = "start" /\ f.to = "running"
    BY DEF Moving
  <2>3. TaskStep /\ Goto(w, f)
    BY <1>b, <2>1, TasksAccept
  <2> HIDE DEF f
  <2> QED BY <1>0, <2>2, <2>3, PlainTaskStep
<1>4. CASE PollTerminal(w)
  <2> DEFINE t == proc[w].task
             f == Moving(w, "finish", mapPhaseToStatus(task[t]))
  <2>1. /\ f.pc = "read" /\ f.why = "finish" /\ f.to = mapPhaseToStatus(task[t])
        /\ f.task = t /\ f.job = proc[w].job
    BY DEF Moving
  <2>2. /\ job[proc[w].job].task = t /\ task[t] \in Ended
        /\ Goto(w, f) /\ UNCHANGED <<job, task>>
    BY <1>0, <1>4 DEF PollTerminal, At, FollowedTask
  <2>3. TaskStep
    BY <1>c, <2>2
  <2> HIDE DEF f
  <2>4. proc'[w] = f
    BY <1>0, <2>2 DEF Goto, TypeInv
  <2>5. FollowedTask(proc[w])' /\ ReportedPhase(proc[w])'
    BY <2>1, <2>2, <2>4 DEF FollowedTask, ReportedPhase, Transiting
  <2> QED BY <1>0, <2>2, <2>3, <2>5, ActorTaskFrames
<1>5. ASSUME TaskStep, Goto(w, Moving(w, "giveup", "failed")) PROVE TaskInv'
  <2> DEFINE f == Moving(w, "giveup", "failed")
  <2>1. f.pc = "read" /\ f.why = "giveup" /\ f.to = "failed"
    BY DEF Moving
  <2>2. Goto(w, f)
    BY <1>5
  <2> HIDE DEF f
  <2> QED BY <1>0, <1>5, <2>1, <2>2, PlainTaskStep
<1>6. CASE LedgerWaitExceeded(w)
  BY <1>5, <1>6, <1>c DEF LedgerWaitExceeded
<1>7. CASE DispatchFails(w)
  <2>1. EndedStays
    BY <1>7, TasksSame, TasksAccept DEF DispatchFails
  <2> QED BY <1>5, <1>7, <1>b, <2>1 DEF DispatchFails
<1>8. CASE LoadFails(w) \/ PollFails(w)
  <2> DEFINE f == Resume(proc[w], "nack")
  <2>1. f.pc = "nack" /\ ~Transiting(f)
    BY <1>0, ResumeKeeps
  <2>2. TaskStep /\ Goto(w, f)
    BY <1>8, <1>c DEF LoadFails, PollFails
  <2> HIDE DEF f
  <2> QED BY <1>0, <2>1, <2>2, PlainTaskStep
<1>9. CASE AckRow(w) \/ NackRow(w) \/ ReleaseFails(w)
  <2>1. Idle.pc = "idle" /\ ~Transiting(Idle)
    BY DEF Idle, Transiting
  <2>2. TaskStep /\ Goto(w, Idle)
    BY <1>9, <1>c DEF AckRow, NackRow, ReleaseFails
  <2> QED BY <1>0, <2>1, <2>2, PlainTaskStep
<1> QED BY <1>1, <1>2, <1>3, <1>4, <1>6, <1>7, <1>8, <1>9

LEMMA EnvironmentTask ==
    ASSUME TypeInv, TaskInv,
           \/ LeaseExpires \/ Crash \/ (\E t \in Tasks : TaskEnds(t))
           \/ (\E w \in Worker : DequeueFails(w)) \/ UNCHANGED vars
    PROVE  TaskStep /\ TaskInv'
<1>1. UNCHANGED job
  BY DEF LeaseExpires, Crash, TaskEnds, DequeueFails, vars
<1>2. EndedStays
  <2>1. CASE UNCHANGED task
    BY <2>1, TasksSame
  <2>2. ASSUME NEW t \in Tasks, TaskEnds(t) PROVE EndedStays
    BY <2>2 DEF TaskEnds, Finish, EndedStays, Ended, TypeInv
  <2> QED BY <2>1, <2>2 DEF LeaseExpires, Crash, DequeueFails, vars
<1>3. TaskStep
  BY <1>1, <1>2, JobTasksSame DEF TaskStep
<1>4. TaskFrames'
  <2>1. CASE UNCHANGED proc
    BY <1>3, <2>1, OtherTaskFrames DEF TaskFrames
  <2>2. CASE proc' = [p \in Process |-> Idle]
    BY <2>2 DEF TaskFrames, FollowedTask, ReportedPhase, Transiting, Idle
  <2> QED BY <2>1, <2>2 DEF LeaseExpires, Crash, TaskEnds, DequeueFails, vars
<1> QED BY <1>3, <1>4, SuccessStays DEF TaskInv, TaskStep

LEMMA InitTask == Init => TaskInv
<1> SUFFICES ASSUME Init PROVE TaskInv
  OBVIOUS
<1>1. \A j \in Jobs : job[j] = [status |-> "absent", task |-> None]
  BY DEF Init, JobInit
<1>2. TaskStarted /\ SucceededTask
  BY <1>1 DEF TaskStarted, SucceededTask
<1>3. TaskFrames
  BY DEF Init, TaskFrames, FollowedTask, ReportedPhase, Transiting, Idle
<1> QED BY <1>2, <1>3 DEF TaskInv

LEMMA StepTask ==
    ASSUME TypeInv, TaskInv, [Next]_vars
    PROVE  TaskStep /\ TaskInv'
<1>1. ASSUME NEW h \in Handler, NEW j \in Jobs, PostJob(h, j) \/ CancelJob(h, j)
      PROVE  TaskStep /\ TaskInv'
  BY <1>1, HandlerTask
<1>2. ASSUME NEW h \in Handler, HandlerStep(h) \/ HandlerFault(h)
      PROVE  TaskStep /\ TaskInv'
  <2>1. h \in Process
    BY DEF Process
  <2> QED BY <1>2, <2>1, HandlerTask, TransitionTask DEF HandlerStep, HandlerFault
<1>3. ASSUME NEW w \in Worker, WorkerStep(w) \/ WorkerFault(w)
      PROVE  TaskStep /\ TaskInv'
  <2>1. w \in Process
    BY DEF Process
  <2> QED BY <1>3, <2>1, WorkerTask, TransitionTask, EnvironmentTask
          DEF WorkerStep, WorkerFault
<1> QED BY <1>1, <1>2, <1>3, EnvironmentTask DEF Next

LEMMA TaskInductive == TypeInv /\ TaskInv /\ [Next]_vars => (TypeInv /\ TaskInv)'
BY StepType, StepTask

\* However often a job is dispatched, and by whichever worker it is polled, it
\* is shown as succeeded only if the task recorded for it completed.
THEOREM OutcomeIsTaskOutcome == Spec => []SucceededTask
<1>1. TypeInv /\ TaskInv => SucceededTask
  BY DEF TaskInv
<1> QED BY <1>1, InitType, InitTask, TaskInductive, PTL DEF Spec

\* The task id recorded for a job (WithOperatorTaskID) is never replaced.
THEOREM RecordedTaskIsKept == Spec => TaskIsKept
<1>1. TypeInv /\ TaskInv /\ [Next]_vars
        => [\A j \in Jobs : job[j].task # None => job'[j].task = job[j].task]_vars
  BY StepTask DEF TaskStep, TaskKept
<1> QED BY <1>1, InitType, InitTask, TaskInductive, PTL DEF Spec, TaskIsKept

----------------------------------------------------------------------------
(* Leases *)

\* No two workers claim under one token.  (The wiring starts one worker; any
\* more need tokens other than the default.)
OwnTokens == \A v, w \in Worker : ClaimToken[v] = ClaimToken[w] => v = w

\* The row r is held by w, and its lease runs.
Leased(w, r) ==
    r \in queue /\ proc[w].row = r.id /\ r.token = ClaimToken[w] /\ ~r.expired

Respected(r) == r \in queue' \/ [r EXCEPT !.expired = TRUE] \in queue'

\* A claim goes by a leased row.
LEMMA ClaimPasses ==
    ASSUME NEW w \in Worker, NEW r, Leased(w, r), NEW q \in queue, Oldest(q),
           NEW tok, Claim(q, tok)
    PROVE  r \in queue'
<1>1. r.token # None
  BY PipelineAssumption, IdsAssumption DEF Leased
<1>2. q # r
  BY <1>1 DEF Oldest, Claimable, Leased
<1> QED BY <1>2 DEF Claim, Leased

\* What another worker acknowledges or gives back is another row.
LEMMA ReleasePasses ==
    ASSUME OwnTokens, NEW w \in Worker, NEW r, Leased(w, r), NEW v \in Worker, v # w, NEW id,
           Ack(id, ClaimToken[v]) \/ Nack(id, ClaimToken[v])
    PROVE  r \in queue'
<1>1. ~Holds(r, id, ClaimToken[v])
  BY DEF OwnTokens, Holds, Leased
<1> QED BY <1>1 DEF Ack, Nack, Leased

LEMMA LeaseStep ==
    ASSUME TypeInv, OwnTokens, [Next]_vars,
           NEW w \in Worker, NEW r, Leased(w, r), proc'[w] = proc[w]
    PROVE  Respected(r)
<1>1. ASSUME NEW v \in Worker, AckRow(v) \/ NackRow(v) PROVE Respected(r)
  <2>1. v \in Process /\ proc' = [proc EXCEPT ![v] = Idle] /\ proc[v].pc \in {"ack", "nack"}
    BY <1>1 DEF AckRow, NackRow, Goto, At, Process
  <2>2. v # w
    <3>1. proc'[v].pc = "idle"
      BY <2>1 DEF TypeInv, Idle
    <3> QED BY <2>1, <3>1
  <2>3. r \in queue'
    BY <1>1, <2>2, ReleasePasses DEF AckRow, NackRow
  <2> QED BY <2>3 DEF Respected
<1>2. ASSUME NEW v \in Worker, Dequeue(v) \/ DequeueFails(v) PROVE Respected(r)
  <2>1. PICK q \in queue : Oldest(q) /\ Claim(q, ClaimToken[v])
    BY <1>2 DEF Dequeue, DequeueFails
  <2>2. r \in queue'
    BY <2>1, ClaimPasses
  <2> QED BY <2>2 DEF Respected
<1>3. CASE LeaseExpires
  BY <1>3 DEF LeaseExpires, Expire, Leased, Respected
<1>4. CASE \E h \in Handler : EnqueueJob(h)
  BY <1>4 DEF EnqueueJob, Enqueue, Leased, Respected
<1>5. CASE queue' = queue
  BY <1>5 DEF Leased, Respected
<1>6. ASSUME NEW p, \/ ReadStatus(p) \/ WriteStatus(p) \/ TransitionFails(p) PROVE queue' = queue
  BY <1>6 DEF ReadStatus, WriteStatus, TransitionFails
<1>7. ASSUME NEW h \in Handler, ~EnqueueJob(h),
             \/ \E j \in Jobs : PostJob(h, j) \/ CancelJob(h, j)
             \/ HandlerStep(h) \/ HandlerFault(h)
      PROVE  queue' = queue
  BY <1>6, <1>7
  DEF PostJob, CancelJob, HandlerStep, HandlerFault, Reply, CancelAtOperator, EnqueueFails,
      Disconnect
<1>8. ASSUME NEW v \in Worker, WorkerStep(v) \/ WorkerFault(v),
             ~AckRow(v), ~NackRow(v), ~Dequeue(v), ~DequeueFails(v)
      PROVE  queue' = queue
  BY <1>6, <1>8
  DEF WorkerStep, WorkerFault, LoadJob, Dispatch, PollTerminal, LedgerWaitExceeded, LoadFails,
      DispatchFails, PollFails, ReleaseFails
<1>9. CASE (\E t \in Tasks : TaskEnds(t)) \/ Crash \/ UNCHANGED vars
  BY <1>5, <1>9 DEF TaskEnds, Crash, vars
<1> QED BY <1>1, <1>2, <1>3, <1>4, <1>5, <1>7, <1>8, <1>9 DEF Next

\* Dequeue, Ack and Nack go by the token: a row under a live lease is neither
\* deleted, released nor claimed by anyone but the worker holding it, so that one
\* whose lease was taken over cannot disturb the next holder.
THEOREM LeasesAreRespected ==
    ASSUME OwnTokens
    PROVE  Spec => LeaseIsRespected
<1> DEFINE A == \A w \in Worker : \A r \in queue :
                   /\ proc[w].row = r.id /\ r.token = ClaimToken[w] /\ ~r.expired
                   /\ proc'[w] = proc[w]
                   => r \in queue' \/ [r EXCEPT !.expired = TRUE] \in queue'
<1>1. TypeInv /\ [Next]_vars => A
  BY LeaseStep DEF Leased, Respected
<1> QED BY <1>1, TypeInvariant, PTL DEF Spec, LeaseIsRespected
=============================================================================
