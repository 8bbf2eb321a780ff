--------------------------- MODULE ErasureProofs ----------------------------
(***************************************************************************)
(* Theorems about Erasure for every number of requests, jobs and faults.   *)
(***************************************************************************)
EXTENDS Erasure, TLAPS

\* What each loop can be at, and with which item.  A request is acknowledged
\* only by an erasure worker that has marked it complete.
LoopOK ==
    /\ \A w \in Eraser :
         /\ consumer[w].pc \in EraserPc
         /\ consumer[w].pc \in {"start", "purge", "complete", "fail"} =>
              consumer[w].item \in Request
    /\ consumer[Dispatcher].pc \in DispatcherPc
    /\ consumer[Dispatcher].pc \in {"run", "ack"} => consumer[Dispatcher].item \in Job

\* Every frame that is not idle holds an item of the queue.
FramesOK ==
    \A c \in Consumer : ~At(c, "idle") => consumer[c].item \in Jobs

TypeInv == ErasureTypeOK /\ LoopOK /\ FramesOK

\* The id of a row says which item it is for, also in the frame of a consumer
\* whose lease has been taken over.
RowIds ==
    /\ \A q \in queue : q.id < nextRow
    /\ \A p, q \in queue : p.id = q.id => p.job = q.job

HeldRow ==
    \A c \in Consumer : ~At(c, "idle") =>
        /\ consumer[c].row < nextRow
        /\ \A q \in queue : q.id = consumer[c].row => q.job = consumer[c].item

QueueInv == RowIds /\ HeldRow

\* A request's entry is written before anybody else can see the request.
AuditFirst ==
    /\ \A r \in Request : submitter[r] \in {"find", "insert"} => request[r] = "absent"
    /\ \A r \in audited : submitter[r] \in {"enqueue", "done"}
    /\ \A r \in Request : submitter[r] = "enqueue" => r \in audited
    /\ \A c \in Consumer : consumer[c].item \in Request => consumer[c].item \in audited

AuditInv == AuditFirst /\ RequestedIsAudited

AckedComplete ==
    \A w \in Eraser :
        At(w, "ack") /\ consumer[w].item \in Request => request[consumer[w].item] = "complete"

----------------------------------------------------------------------------
(* What the operations of the queue do to its rows *)

\* No row is new, and none changes its id or its item.
RowsKept ==
    /\ \A q \in queue' : \E p \in queue : p.id = q.id /\ p.job = q.job
    /\ nextRow' = nextRow

LEMMA ClaimRows ==
    ASSUME ErasureTypeOK, NEW r \in queue, NEW t \in Token, Claim(r, t)
    PROVE  /\ RowsKept /\ queue' \subseteq Row
           /\ \A q \in queue : \E p \in queue' : p.id = q.id
<1>1. r \in Row
  BY DEF ErasureTypeOK
<1> DEFINE c == [r EXCEPT !.token = t, !.expired = FALSE]
<1>2. c \in Row /\ c.id = r.id /\ c.job = r.job
  BY <1>1 DEF Row
<1>3. queue' = (queue \ {r}) \cup {c} /\ nextRow' = nextRow
  BY DEF Claim
<1> HIDE DEF c
<1> QED BY <1>2, <1>3 DEF RowsKept, ErasureTypeOK

LEMMA ExpireRows ==
    ASSUME ErasureTypeOK, NEW r \in queue, Expire(r)
    PROVE  /\ RowsKept /\ queue' \subseteq Row
           /\ \A q \in queue : \E p \in queue' : p.id = q.id
<1>1. r \in Row
  BY DEF ErasureTypeOK
<1> DEFINE c == [r EXCEPT !.expired = TRUE]
<1>2. c \in Row /\ c.id = r.id /\ c.job = r.job
  BY <1>1 DEF Row
<1>3. queue' = (queue \ {r}) \cup {c} /\ nextRow' = nextRow
  BY DEF Expire
<1> HIDE DEF c
<1> QED BY <1>2, <1>3 DEF RowsKept, ErasureTypeOK

LEMMA NackRows ==
    ASSUME ErasureTypeOK, NEW id, NEW t, Nack(id, t)
    PROVE  /\ RowsKept /\ queue' \subseteq Row
           /\ \A q \in queue : \E p \in queue' : p.id = q.id
<1> DEFINE free(r) == IF Holds(r, id, t)
                      THEN [r EXCEPT !.token = None, !.expired = FALSE] ELSE r
<1>1. \A r \in Row : free(r) \in Row /\ free(r).id = r.id /\ free(r).job = r.job
  BY DEF Row
<1>2. queue' = {free(r) : r \in queue} /\ nextRow' = nextRow
  BY DEF Nack
<1>3. \A r \in queue : r \in Row
  BY DEF ErasureTypeOK
<1> HIDE DEF free
<1>4. \A q \in queue' : \E p \in queue : q = free(p)
  BY <1>2
<1>5. \A p \in queue : free(p) \in queue'
  BY <1>2
<1> QED BY <1>1, <1>2, <1>3, <1>4, <1>5 DEF RowsKept

LEMMA AckRows ==
    ASSUME ErasureTypeOK, NEW id, NEW t, Ack(id, t)
    PROVE  /\ RowsKept /\ queue' \subseteq Row
           /\ \A q \in queue : q.id = id \/ \E p \in queue' : p.id = q.id
<1>1. queue' \subseteq queue /\ \A q \in queue : Holds(q, id, t) \/ q \in queue'
  BY DEF Ack
<1> QED BY <1>1 DEF Ack, RowsKept, ErasureTypeOK, Holds

\* Enqueue adds the row of its item under the next id, or nothing.
LEMMA EnqueueRows ==
    ASSUME ErasureTypeOK, NEW j \in Jobs, Enqueue(j)
    PROVE  /\ queue' \subseteq Row /\ nextRow' \in Nat \ {0}
           /\ \/ HasRow(j) /\ queue' = queue /\ nextRow' = nextRow
              \/ \E n \in Row : /\ n.id = nextRow /\ n.job = j
                                /\ queue' = queue \cup {n} /\ nextRow' = nextRow + 1
<1> DEFINE n == [id |-> nextRow, job |-> j, token |-> None, expired |-> FALSE]
<1>1. n \in Row /\ n.id = nextRow /\ n.job = j
  BY DEF Row, ErasureTypeOK
<1>2. CASE HasRow(j)
  BY <1>2 DEF Enqueue, ErasureTypeOK
<1>3. CASE ~HasRow(j)
  <2>1. queue' = queue \cup {n} /\ nextRow' = nextRow + 1
    BY <1>3 DEF Enqueue
  <2> HIDE DEF n
  <2> QED BY <1>1, <2>1 DEF ErasureTypeOK
<1> QED BY <1>2, <1>3

----------------------------------------------------------------------------
(* Type correctness *)

LEMMA InitType == ErasureInit => TypeInv
BY ErasureAssumption DEF ErasureInit, QueueInit, TypeInv, ErasureTypeOK, LoopOK, FramesOK,
   RequestState, JobState, SubmitPc, Consumer, Frame, Idle, EraserPc, DispatcherPc, At

LEMMA FaultType == ErasureTypeOK /\ Fault => faults' \in Nat
BY DEF ErasureTypeOK, Fault

LEMMA NowAtType ==
    ASSUME ErasureTypeOK, NEW r \in Request, NEW pc \in SubmitPc, NowAt(r, pc)
    PROVE  submitter' \in [Request -> SubmitPc]
BY DEF ErasureTypeOK, NowAt

\* A consumer at pc with the same item, or idle.
LEMMA BecomeType ==
    ASSUME ErasureTypeOK, NEW c \in Consumer, NEW pc \in EraserPc \cup DispatcherPc, Become(c, pc)
    PROVE  /\ consumer' \in [Consumer -> Frame]
           /\ \A d \in Consumer : d # c => consumer'[d] = consumer[d]
           /\ consumer'[c].pc = pc
           /\ pc # "idle" => /\ consumer'[c].item = consumer[c].item
                             /\ consumer'[c].row = consumer[c].row
           /\ pc = "idle" => consumer'[c] = Idle
<1>1. Idle \in Frame /\ Idle.pc = "idle"
  BY DEF Idle, Frame, EraserPc
<1>2. consumer[c] \in Frame
  BY DEF ErasureTypeOK
<1>3. CASE pc = "idle"
  BY <1>1, <1>3 DEF Become, ErasureTypeOK
<1>4. CASE pc # "idle"
  <2> DEFINE f == [consumer[c] EXCEPT !.pc = pc]
  <2>1. f \in Frame /\ f.pc = pc /\ f.item = consumer[c].item /\ f.row = consumer[c].row
    BY <1>2 DEF Frame
  <2>2. consumer' = [consumer EXCEPT ![c] = f]
    BY <1>4 DEF Become
  <2> HIDE DEF f
  <2> QED BY <1>4, <2>1, <2>2 DEF ErasureTypeOK
<1> QED BY <1>3, <1>4

\* A consumer that has claimed the row r.
LEMMA TakeType ==
    ASSUME ErasureTypeOK, NEW c \in Consumer, NEW pc \in EraserPc \cup DispatcherPc, NEW r \in queue,
           consumer' = [consumer EXCEPT ![c] = [pc |-> pc, row |-> r.id, item |-> r.job]]
    PROVE  /\ consumer' \in [Consumer -> Frame]
           /\ \A d \in Consumer : d # c => consumer'[d] = consumer[d]
           /\ consumer'[c].pc = pc
           /\ consumer'[c].item = r.job /\ consumer'[c].row = r.id
           /\ r.job \in Jobs
<1>1. r.id \in Nat /\ r.job \in Jobs
  BY DEF ErasureTypeOK, Row
<1> DEFINE f == [pc |-> pc, row |-> r.id, item |-> r.job]
<1>2. f \in Frame /\ f.pc = pc /\ f.item = r.job /\ f.row = r.id
  BY <1>1 DEF Frame
<1>3. consumer' = [consumer EXCEPT ![c] = f]
  OBVIOUS
<1> HIDE DEF f
<1> QED BY <1>1, <1>2, <1>3 DEF ErasureTypeOK

\* Marking is done at an item that is a request.
LEMMA MarkType ==
    ASSUME ErasureTypeOK, NEW w \in Eraser, consumer[w].item \in Request,
           NEW state \in RequestState, Mark(w, state)
    PROVE  /\ request' \in [Request -> RequestState]
           /\ request'[consumer[w].item] = state
           /\ \A r \in Request : r # consumer[w].item => request'[r] = request[r]
BY DEF ErasureTypeOK, Mark

LEMMA EraseType ==
    ASSUME ErasureTypeOK, EraseJobs
    PROVE  job' \in [Job -> JobState]
BY DEF ErasureTypeOK, EraseJobs, JobState

LEMMA SubmitType ==
    ASSUME TypeInv, NEW r \in Request, SubmitStep(r) \/ SubmitStops(r)
    PROVE  TypeInv'
<1> USE DEF TypeInv
<1>1. ErasureTypeOK' /\ UNCHANGED <<consumer, job>>
  <2>1. CASE Find(r)
    <3>1. faults' \in Nat
      BY <2>1, FaultType DEF Find, ErasureTypeOK
    <3>2. submitter' \in [Request -> SubmitPc]
      BY <2>1, NowAtType DEF Find, SubmitPc
    <3> QED BY <2>1, <3>1, <3>2 DEF Find, ErasureTypeOK
  <2>2. CASE Insert(r)
    <3>1. submitter' \in [Request -> SubmitPc]
      BY <2>2, NowAtType DEF Insert, AfterInsert, SubmitPc
    <3> QED BY <2>2, <3>1 DEF Insert, ErasureTypeOK, RequestState
  <2>3. CASE AuditRequest(r)
    <3>1. submitter' \in [Request -> SubmitPc]
      BY <2>3, NowAtType DEF AuditRequest, SubmitPc
    <3> QED BY <2>3, <3>1 DEF AuditRequest, ErasureTypeOK
  <2>4. CASE EnqueueRequest(r)
    <3>1. submitter' \in [Request -> SubmitPc]
      BY <2>4, NowAtType DEF EnqueueRequest, SubmitPc
    <3>2. KeyRow(r) \in Jobs
      BY ErasureAssumption DEF KeyRow, SameDay
    <3>3. queue' \subseteq Row /\ nextRow' \in Nat \ {0}
      BY <2>4, <3>2, EnqueueRows DEF EnqueueRequest
    <3> QED BY <2>4, <3>1, <3>3 DEF EnqueueRequest, ErasureTypeOK
  <2>5. CASE SubmitStops(r)
    <3>1. submitter' \in [Request -> SubmitPc] /\ faults' \in Nat
      BY <2>5, NowAtType, FaultType DEF SubmitStops, SubmitPc
    <3> QED BY <2>5, <3>1 DEF SubmitStops, ErasureTypeOK
  <2> QED BY <2>1, <2>2, <2>3, <2>4, <2>5 DEF SubmitStep
<1> QED BY <1>1 DEF LoopOK, FramesOK, At

LEMMA SubmitJobType ==
    ASSUME TypeInv, NEW j \in Job, SubmitJob(j)
    PROVE  TypeInv'
<1>1. queue' \subseteq Row /\ nextRow' \in Nat \ {0}
  BY EnqueueRows DEF SubmitJob, TypeInv, Job
<1>2. job' \in [Job -> JobState]
  BY DEF SubmitJob, TypeInv, ErasureTypeOK, JobState
<1> QED BY <1>1, <1>2 DEF SubmitJob, TypeInv, ErasureTypeOK, LoopOK, FramesOK, At

\* A step of the loop c that leaves it at pc, with the item it had.
LEMMA LoopStep ==
    ASSUME TypeInv, NEW c \in Consumer, NEW pc, Become(c, pc),
           ~At(c, "idle"),
           \/ pc \in {"idle", "nack"}
           \/ /\ c \in Eraser /\ pc \in EraserPc
              /\ pc # "ack" => consumer[c].item \in Request
           \/ /\ c = Dispatcher /\ pc \in {"run", "ack"}
              /\ consumer[c].item \in Job
    PROVE  consumer' \in [Consumer -> Frame] /\ LoopOK' /\ FramesOK'
<1> USE DEF TypeInv
<1>1. c \notin Eraser \/ c # Dispatcher
  BY ErasureAssumption
<1>2. pc \in EraserPc \cup DispatcherPc
  BY DEF EraserPc, DispatcherPc
<1>3. /\ consumer' \in [Consumer -> Frame]
      /\ \A d \in Consumer : d # c => consumer'[d] = consumer[d]
      /\ consumer'[c].pc = pc
      /\ pc # "idle" => consumer'[c].item = consumer[c].item
  BY <1>2, BecomeType
<1>4. FramesOK'
  BY <1>3 DEF FramesOK, At
<1>5. LoopOK'
  BY <1>1, <1>3 DEF LoopOK, Consumer, EraserPc, DispatcherPc
<1> QED BY <1>3, <1>4, <1>5

\* A loop that has taken an item from the queue.
LEMMA TakeStep ==
    ASSUME TypeInv, NEW c \in Consumer, NEW pc, NEW r \in queue,
           consumer' = [consumer EXCEPT ![c] = [pc |-> pc, row |-> r.id, item |-> r.job]],
           \/ c \in Eraser /\ pc = AfterDequeue(r.job)
           \/ c = Dispatcher /\ pc = "load"
    PROVE  consumer' \in [Consumer -> Frame] /\ LoopOK' /\ FramesOK'
<1> USE DEF TypeInv
<1>1. c \notin Eraser \/ c # Dispatcher
  BY ErasureAssumption
<1>2. pc \in EraserPc \cup DispatcherPc
  BY DEF EraserPc, DispatcherPc, AfterDequeue
<1>3. /\ consumer' \in [Consumer -> Frame]
      /\ \A d \in Consumer : d # c => consumer'[d] = consumer[d]
      /\ consumer'[c].pc = pc
      /\ consumer'[c].item = r.job /\ r.job \in Jobs
  BY <1>2, TakeType
<1>4. FramesOK'
  BY <1>3 DEF FramesOK, At
<1>5. LoopOK'
  BY <1>1, <1>3 DEF LoopOK, Consumer, EraserPc, DispatcherPc, AfterDequeue
<1> QED BY <1>3, <1>4, <1>5

\* The item an erasure worker marks or purges for is a request.
LEMMA AtRequest ==
    ASSUME TypeInv, NEW w \in Eraser, consumer[w].pc \in {"start", "purge", "complete", "fail"}
    PROVE  consumer[w].item \in Request /\ ~At(w, "idle")
BY DEF TypeInv, LoopOK, At

LEMMA EraserType ==
    ASSUME TypeInv, NEW w \in Eraser,
           EraserDequeue(w) \/ MarkStarted(w) \/ Purge(w) \/ PurgeFails(w)
             \/ MarkFailed(w) \/ MarkComplete(w) \/ MarkFails(w)
    PROVE  TypeInv'
<1> USE DEF TypeInv
<1>0. w \in Consumer /\ w \in Token
  BY ErasureAssumption DEF Consumer
<1>1. CASE EraserDequeue(w)
  <2>1. PICK r \in queue :
          /\ Claim(r, w)
          /\ consumer' = [consumer EXCEPT
               ![w] = [pc |-> AfterDequeue(r.job), row |-> r.id, item |-> r.job]]
    BY <1>1 DEF EraserDequeue
  <2>2. consumer' \in [Consumer -> Frame] /\ LoopOK' /\ FramesOK'
    BY <1>0, <2>1, TakeStep
  <2>3. queue' \subseteq Row /\ nextRow' = nextRow
    BY <1>0, <2>1, ClaimRows DEF RowsKept
  <2> QED BY <1>1, <2>2, <2>3 DEF EraserDequeue, ErasureTypeOK
<1>2. CASE MarkStarted(w)
  <2>1. consumer[w].item \in Request /\ ~At(w, "idle")
    BY <1>2, AtRequest DEF MarkStarted, At
  <2>2. consumer' \in [Consumer -> Frame] /\ LoopOK' /\ FramesOK'
    BY <1>0, <1>2, <2>1, LoopStep DEF MarkStarted, EraserPc
  <2>3. request' \in [Request -> RequestState]
    BY <1>2, <2>1, MarkType DEF MarkStarted, RequestState
  <2> QED BY <1>2, <2>2, <2>3 DEF MarkStarted, ErasureTypeOK
<1>3. CASE Purge(w)
  <2>1. consumer[w].item \in Request /\ ~At(w, "idle")
    BY <1>3, AtRequest DEF Purge, At
  <2>2. consumer' \in [Consumer -> Frame] /\ LoopOK' /\ FramesOK'
    BY <1>0, <1>3, <2>1, LoopStep DEF Purge, EraserPc
  <2>3. job' \in [Job -> JobState] /\ faults' \in Nat
    BY <1>3, EraseType, FaultType DEF Purge, ErasureTypeOK
  <2> QED BY <1>3, <2>2, <2>3 DEF Purge, ErasureTypeOK
<1>4. CASE PurgeFails(w)
  <2>1. consumer[w].item \in Request /\ ~At(w, "idle")
    BY <1>4, AtRequest DEF PurgeFails, At
  <2>2. consumer' \in [Consumer -> Frame] /\ LoopOK' /\ FramesOK'
    BY <1>0, <1>4, <2>1, LoopStep DEF PurgeFails, EraserPc
  <2>3. job' \in [Job -> JobState] /\ faults' \in Nat
    BY <1>4, EraseType, FaultType DEF PurgeFails
  <2> QED BY <1>4, <2>2, <2>3 DEF PurgeFails, ErasureTypeOK
<1>5. CASE MarkFailed(w)
  <2>1. consumer[w].item \in Request /\ ~At(w, "idle")
    BY <1>5, AtRequest DEF MarkFailed, At
  <2>2. consumer' \in [Consumer -> Frame] /\ LoopOK' /\ FramesOK'
    BY <1>0, <1>5, <2>1, LoopStep DEF MarkFailed, AfterFailure
  <2>3. request' \in [Request -> RequestState]
    BY <1>5, <2>1, MarkType DEF MarkFailed, RequestState
  <2> QED BY <1>5, <2>2, <2>3 DEF MarkFailed, ErasureTypeOK
<1>6. CASE MarkComplete(w)
  <2>1. consumer[w].item \in Request /\ ~At(w, "idle")
    BY <1>6, AtRequest DEF MarkComplete, At
  <2>2. consumer' \in [Consumer -> Frame] /\ LoopOK' /\ FramesOK'
    BY <1>0, <1>6, <2>1, LoopStep DEF MarkComplete, EraserPc
  <2>3. request' \in [Request -> RequestState]
    BY <1>6, <2>1, MarkType DEF MarkComplete, RequestState
  <2> QED BY <1>6, <2>2, <2>3 DEF MarkComplete, ErasureTypeOK
<1>7. CASE MarkFails(w)
  <2>1. ~At(w, "idle")
    BY <1>7 DEF MarkFails, At
  <2>2. consumer' \in [Consumer -> Frame] /\ LoopOK' /\ FramesOK'
    BY <1>0, <1>7, <2>1, LoopStep DEF MarkFails
  <2>3. faults' \in Nat
    BY <1>7, FaultType DEF MarkFails
  <2> QED BY <1>7, <2>2, <2>3 DEF MarkFails, ErasureTypeOK
<1> QED BY <1>1, <1>2, <1>3, <1>4, <1>5, <1>6, <1>7

LEMMA DispatcherType ==
    ASSUME TypeInv, Dispatch \/ LoadJob \/ RunJob
    PROVE  TypeInv'
<1> USE DEF TypeInv
<1>0. Dispatcher \in Consumer /\ Dispatcher \in Token
  BY ErasureAssumption DEF Consumer
<1>1. CASE Dispatch
  <2>1. PICK r \in queue :
          /\ Claim(r, Dispatcher)
          /\ consumer' = [consumer EXCEPT
               ![Dispatcher] = [pc |-> "load", row |-> r.id, item |-> r.job]]
    BY <1>1 DEF Dispatch
  <2>2. consumer' \in [Consumer -> Frame] /\ LoopOK' /\ FramesOK'
    BY <1>0, <2>1, TakeStep
  <2>3. queue' \subseteq Row /\ nextRow' = nextRow
    BY <1>0, <2>1, ClaimRows DEF RowsKept
  <2> QED BY <1>1, <2>2, <2>3 DEF Dispatch, ErasureTypeOK
<1>2. CASE LoadJob
  <2>1. ~At(Dispatcher, "idle")
    BY <1>2 DEF LoadJob, At
  <2>2. consumer' \in [Consumer -> Frame] /\ LoopOK' /\ FramesOK'
    <3>1. CASE IsJob(consumer[Dispatcher].item)
      <4>1. \E pc \in {"run", "ack"} : Become(Dispatcher, pc)
        BY <1>2, <3>1 DEF LoadJob
      <4>2. consumer[Dispatcher].item \in Job
        BY <3>1 DEF IsJob
      <4> QED BY <1>0, <2>1, <4>1, <4>2, LoopStep
    <3>2. CASE ~IsJob(consumer[Dispatcher].item)
      <4>1. Become(Dispatcher, "nack")
        BY <1>2, <3>2 DEF LoadJob
      <4> QED BY <1>0, <2>1, <4>1, LoopStep
    <3> QED BY <3>1, <3>2
  <2> QED BY <1>2, <2>2 DEF LoadJob, ErasureTypeOK
<1>3. CASE RunJob
  <2>1. ~At(Dispatcher, "idle")
    BY <1>3 DEF RunJob, At
  <2>2. CASE /\ IsJob(consumer[Dispatcher].item)
             /\ job' = [job EXCEPT ![consumer[Dispatcher].item] = "ended"]
             /\ Become(Dispatcher, "ack")
    <3>1. consumer[Dispatcher].item \in Job
      BY <2>2 DEF IsJob
    <3>2. consumer' \in [Consumer -> Frame] /\ LoopOK' /\ FramesOK'
      BY <1>0, <2>1, <2>2, <3>1, LoopStep
    <3>3. job' \in [Job -> JobState]
      BY <2>2 DEF ErasureTypeOK, JobState
    <3> QED BY <1>3, <3>2, <3>3 DEF RunJob, ErasureTypeOK
  <2>3. CASE UNCHANGED job /\ Become(Dispatcher, "nack")
    <3>1. consumer' \in [Consumer -> Frame] /\ LoopOK' /\ FramesOK'
      BY <1>0, <2>1, <2>3, LoopStep
    <3> QED BY <1>3, <2>3, <3>1 DEF RunJob, ErasureTypeOK
  <2> QED BY <1>3, <2>2, <2>3 DEF RunJob
<1> QED BY <1>1, <1>2, <1>3

LEMMA ReleaseType ==
    ASSUME TypeInv, NEW c \in Consumer, AckItem(c) \/ NackItem(c) \/ ConsumerStops(c)
    PROVE  TypeInv'
<1> USE DEF TypeInv
<1>1. ~At(c, "idle") /\ Become(c, "idle")
  BY DEF AckItem, NackItem, ConsumerStops, At
<1>2. consumer' \in [Consumer -> Frame] /\ LoopOK' /\ FramesOK'
  BY <1>1, LoopStep
<1>3. queue' \subseteq Row /\ nextRow' = nextRow
  BY AckRows, NackRows DEF AckItem, NackItem, ConsumerStops, RowsKept, ErasureTypeOK
<1>4. faults' \in Nat
  BY FaultType DEF AckItem, NackItem, ConsumerStops, ErasureTypeOK
<1> QED BY <1>2, <1>3, <1>4 DEF AckItem, NackItem, ConsumerStops, ErasureTypeOK

LEMMA LeaseType ==
    ASSUME TypeInv, LeaseExpires
    PROVE  TypeInv'
<1>1. queue' \subseteq Row /\ nextRow' = nextRow
  BY ExpireRows DEF LeaseExpires, TypeInv, RowsKept
<1>2. faults' \in Nat
  BY FaultType DEF LeaseExpires, TypeInv, ErasureTypeOK
<1> QED BY <1>1, <1>2 DEF LeaseExpires, TypeInv, ErasureTypeOK, LoopOK, FramesOK, At

\* The actions of the loops, as the lemmas group them.
LEMMA NextCases ==
    ASSUME ErasureNext
    PROVE  \/ \E r \in Request : SubmitStep(r) \/ SubmitStops(r)
           \/ \E j \in Job : SubmitJob(j)
           \/ \E w \in Eraser :
                EraserDequeue(w) \/ MarkStarted(w) \/ Purge(w) \/ PurgeFails(w)
                  \/ MarkFailed(w) \/ MarkComplete(w) \/ MarkFails(w)
           \/ Dispatch \/ LoadJob \/ RunJob
           \/ \E c \in Consumer : AckItem(c) \/ NackItem(c) \/ ConsumerStops(c)
           \/ LeaseExpires
BY DEF ErasureNext, EraserWork, DispatcherStep, Consumer

LEMMA StepType == TypeInv /\ [ErasureNext]_erasureVars => TypeInv'
<1> SUFFICES ASSUME TypeInv, [ErasureNext]_erasureVars
             PROVE  TypeInv'
  OBVIOUS
<1>1. CASE ErasureNext
  BY <1>1, NextCases, SubmitType, SubmitJobType, EraserType, DispatcherType, ReleaseType, LeaseType
<1>2. CASE UNCHANGED erasureVars
  BY <1>2 DEF erasureVars, TypeInv, ErasureTypeOK, LoopOK, FramesOK, At
<1> QED BY <1>1, <1>2

LEMMA TypeInvariant == ErasureSpec => []TypeInv
BY InitType, StepType, PTL DEF ErasureSpec

\* Tables, handlers and loops keep their types.
THEOREM ErasureTypeCorrect == ErasureSpec => []ErasureTypeOK
<1>1. TypeInv => ErasureTypeOK
  BY DEF TypeInv
<1> QED BY <1>1, TypeInvariant, PTL

----------------------------------------------------------------------------
(* Rows and the frames that refer to them *)

LEMMA EnqueueQueue ==
    ASSUME TypeInv, QueueInv, NEW j \in Jobs, Enqueue(j), UNCHANGED consumer
    PROVE  QueueInv'
<1> USE DEF QueueInv, RowIds, HeldRow, At
<1>1. CASE queue' = queue /\ nextRow' = nextRow
  BY <1>1
<1>2. CASE \E n \in Row : /\ n.id = nextRow /\ n.job = j
                          /\ queue' = queue \cup {n} /\ nextRow' = nextRow + 1
  <2>1. PICK n \in Row : /\ n.id = nextRow
                         /\ queue' = queue \cup {n} /\ nextRow' = nextRow + 1
    BY <1>2
  <2>2. nextRow \in Nat /\ \A q \in queue : q.id \in Nat
    BY DEF TypeInv, ErasureTypeOK, Row
  <2>3. \A c \in Consumer : consumer[c].row \in Nat
    BY DEF TypeInv, ErasureTypeOK, Frame
  <2>4. RowIds'
    BY <2>1, <2>2
  <2>5. HeldRow'
    BY <2>1, <2>2, <2>3
  <2> QED BY <2>4, <2>5
<1> QED BY <1>1, <1>2, EnqueueRows DEF TypeInv

\* Rows stay what they are, and at most one frame changes: to idle, to the next
\* step with the same item, or to a row it has just claimed.
LEMMA KeptQueue ==
    ASSUME QueueInv, RowsKept, NEW c \in Consumer,
           \A d \in Consumer : d # c => consumer'[d] = consumer[d],
           \/ consumer'[c].pc = "idle"
           \/ /\ ~At(c, "idle")
              /\ consumer'[c].row = consumer[c].row /\ consumer'[c].item = consumer[c].item
           \/ \E r \in queue : consumer'[c].row = r.id /\ consumer'[c].item = r.job
    PROVE  QueueInv'
<1>1. RowIds'
  BY DEF QueueInv, RowIds, RowsKept
<1>2. ASSUME NEW d \in Consumer, ~(At(d, "idle")')
      PROVE  /\ consumer'[d].row < nextRow'
             /\ \A q \in queue' : q.id = consumer'[d].row => q.job = consumer'[d].item
  <2>1. CASE \E r \in queue : consumer'[d].row = r.id /\ consumer'[d].item = r.job
    BY <2>1 DEF QueueInv, RowIds, RowsKept
  <2>2. CASE /\ ~At(d, "idle")
             /\ consumer'[d].row = consumer[d].row /\ consumer'[d].item = consumer[d].item
    BY <2>2 DEF QueueInv, HeldRow, RowsKept
  <2> QED BY <1>2, <2>1, <2>2 DEF At
<1> QED BY <1>1, <1>2 DEF QueueInv, HeldRow

LEMMA SameRows == UNCHANGED <<queue, nextRow>> => RowsKept
BY DEF RowsKept

\* Every step of a loop is one of the changes KeptQueue speaks of.
LEMMA LoopQueue ==
    ASSUME TypeInv, QueueInv, NEW c \in Consumer, NEW pc, Become(c, pc), ~At(c, "idle"),
           pc \in EraserPc \cup DispatcherPc, RowsKept
    PROVE  QueueInv'
<1>1. /\ \A d \in Consumer : d # c => consumer'[d] = consumer[d]
      /\ consumer'[c].pc = pc
      /\ pc # "idle" => /\ consumer'[c].item = consumer[c].item
                        /\ consumer'[c].row = consumer[c].row
  BY BecomeType DEF TypeInv
<1> QED BY <1>1, KeptQueue

LEMMA TakeQueue ==
    ASSUME TypeInv, QueueInv, NEW c \in Consumer, NEW pc \in EraserPc \cup DispatcherPc,
           NEW r \in queue, RowsKept,
           consumer' = [consumer EXCEPT ![c] = [pc |-> pc, row |-> r.id, item |-> r.job]]
    PROVE  QueueInv'
<1>1. /\ \A d \in Consumer : d # c => consumer'[d] = consumer[d]
      /\ consumer'[c].item = r.job /\ consumer'[c].row = r.id
  BY TakeType DEF TypeInv
<1> QED BY <1>1, KeptQueue

LEMMA InitQueue == ErasureInit => QueueInv
BY DEF ErasureInit, QueueInit, QueueInv, RowIds, HeldRow, At, Idle

LEMMA StepQueue == TypeInv /\ QueueInv /\ [ErasureNext]_erasureVars => QueueInv'
<1> SUFFICES ASSUME TypeInv, QueueInv, [ErasureNext]_erasureVars
             PROVE  QueueInv'
  OBVIOUS
<1>0. /\ Eraser \subseteq Consumer \cap Token
      /\ Dispatcher \in Consumer \cap Token
  BY ErasureAssumption DEF Consumer
<1>1. CASE \E r \in Request : SubmitStep(r) \/ SubmitStops(r)
  <2>1. PICK r \in Request : SubmitStep(r) \/ SubmitStops(r)
    BY <1>1
  <2>2. CASE EnqueueRequest(r)
    <3>1. KeyRow(r) \in Jobs
      BY ErasureAssumption DEF KeyRow, SameDay
    <3> QED BY <2>2, <3>1, EnqueueQueue DEF EnqueueRequest
  <2>3. CASE ~EnqueueRequest(r)
    BY <2>1, <2>3 DEF SubmitStep, Find, Insert, AuditRequest, SubmitStops,
       QueueInv, RowIds, HeldRow, At
  <2> QED BY <2>2, <2>3
<1>2. CASE \E j \in Job : SubmitJob(j)
  BY <1>2, EnqueueQueue DEF SubmitJob, Job
<1>3. CASE \E w \in Eraser : EraserDequeue(w)
  <2>1. PICK w \in Eraser, r \in queue :
          /\ Claim(r, w)
          /\ consumer' = [consumer EXCEPT
               ![w] = [pc |-> AfterDequeue(r.job), row |-> r.id, item |-> r.job]]
    BY <1>3 DEF EraserDequeue
  <2>2. RowsKept
    BY <1>0, <2>1, ClaimRows DEF TypeInv
  <2>3. AfterDequeue(r.job) \in EraserPc
    BY DEF AfterDequeue, EraserPc
  <2> QED BY <1>0, <2>1, <2>2, <2>3, TakeQueue
<1>4. CASE \E w \in Eraser : MarkStarted(w) \/ Purge(w) \/ PurgeFails(w)
                               \/ MarkFailed(w) \/ MarkComplete(w) \/ MarkFails(w)
  <2>1. PICK w \in Eraser : MarkStarted(w) \/ Purge(w) \/ PurgeFails(w)
                               \/ MarkFailed(w) \/ MarkComplete(w) \/ MarkFails(w)
    BY <1>4
  <2>2. ~At(w, "idle") /\ UNCHANGED <<queue, nextRow>>
    BY <2>1 DEF MarkStarted, Purge, PurgeFails, MarkFailed, MarkComplete, MarkFails, At
  <2>3. \E pc \in EraserPc : Become(w, pc)
    BY <2>1 DEF MarkStarted, Purge, PurgeFails, MarkFailed, MarkComplete, MarkFails,
       AfterFailure, EraserPc
  <2> QED BY <1>0, <2>2, <2>3, SameRows, LoopQueue
<1>5. CASE Dispatch
  <2>1. PICK r \in queue :
          /\ Claim(r, Dispatcher)
          /\ consumer' = [consumer EXCEPT
               ![Dispatcher] = [pc |-> "load", row |-> r.id, item |-> r.job]]
    BY <1>5 DEF Dispatch
  <2>2. RowsKept
    BY <1>0, <2>1, ClaimRows DEF TypeInv
  <2>3. "load" \in DispatcherPc
    BY DEF DispatcherPc
  <2> QED BY <1>0, <2>1, <2>2, <2>3, TakeQueue
<1>6. CASE LoadJob \/ RunJob
  <2>1. ~At(Dispatcher, "idle") /\ UNCHANGED <<queue, nextRow>>
    BY <1>6 DEF LoadJob, RunJob, At
  <2>2. \E pc \in DispatcherPc : Become(Dispatcher, pc)
    BY <1>6 DEF LoadJob, RunJob, DispatcherPc
  <2> QED BY <1>0, <2>1, <2>2, SameRows, LoopQueue
<1>7. CASE \E c \in Consumer : AckItem(c) \/ NackItem(c) \/ ConsumerStops(c)
  <2>1. PICK c \in Consumer : AckItem(c) \/ NackItem(c) \/ ConsumerStops(c)
    BY <1>7
  <2>2. ~At(c, "idle") /\ Become(c, "idle")
    BY <2>1 DEF AckItem, NackItem, ConsumerStops, At
  <2>3. RowsKept
    BY <2>1, AckRows, NackRows, SameRows DEF AckItem, NackItem, ConsumerStops, TypeInv
  <2>4. "idle" \in EraserPc
    BY DEF EraserPc
  <2> QED BY <2>2, <2>3, <2>4, LoopQueue
<1>8. CASE LeaseExpires
  <2>1. RowsKept /\ UNCHANGED consumer
    BY <1>8, ExpireRows DEF LeaseExpires, TypeInv
  <2> QED BY <2>1 DEF QueueInv, RowIds, HeldRow, RowsKept, At
<1>9. CASE UNCHANGED erasureVars
  BY <1>9 DEF erasureVars, QueueInv, RowIds, HeldRow, At
<1> QED BY <1>1, <1>2, <1>3, <1>4, <1>5, <1>6, <1>7, <1>8, <1>9, NextCases

----------------------------------------------------------------------------
(* The audit entry comes first *)

LEMMA InitAudit == ErasureInit => AuditInv
BY IdsAssumption, ErasureAssumption
DEF ErasureInit, QueueInit, AuditInv, AuditFirst, RequestedIsAudited, HasRow, Idle

\* Loops only pass on items they find in the queue, and mark what they hold.
LEMMA LoopAudit ==
    ASSUME TypeInv, AuditInv, RowsKept, UNCHANGED <<audited, submitter>>,
           \A c \in Consumer : \/ consumer'[c].item \in {None, consumer[c].item}
                               \/ \E r \in queue : consumer'[c].item = r.job,
           \/ UNCHANGED request
           \/ \E c \in Consumer :
                /\ consumer[c].item \in Request
                /\ \A r \in Request : r # consumer[c].item => request'[r] = request[r]
    PROVE  AuditInv'
<1>1. None \notin Request
  BY IdsAssumption, ErasureAssumption
<1>2. \A r \in Request : HasRow(r)' => HasRow(r)
  BY DEF RowsKept, HasRow
<1>3. \A r \in Request : HasRow(r) => r \in audited
  BY DEF AuditInv, RequestedIsAudited
<1>4. \A c \in Consumer : consumer'[c].item \in Request => consumer'[c].item \in audited
  BY <1>1, <1>3 DEF AuditInv, AuditFirst, HasRow
<1>5. \A r \in Request : request'[r] = request[r] \/ r \in audited
  BY DEF AuditInv, AuditFirst
<1>6. AuditFirst'
  BY <1>4, <1>5 DEF AuditInv, AuditFirst
<1>7. RequestedIsAudited'
  BY <1>2, <1>3, <1>5 DEF AuditInv, RequestedIsAudited
<1> QED BY <1>6, <1>7 DEF AuditInv

LEMMA EnqueueRow ==
    ASSUME ErasureTypeOK, NEW j \in Jobs, Enqueue(j)
    PROVE  \A i : HasRow(i)' => HasRow(i) \/ i = j
BY EnqueueRows DEF HasRow

LEMMA SubmitAudit ==
    ASSUME TypeInv, AuditInv, NEW r \in Request, SubmitStep(r) \/ SubmitStops(r)
    PROVE  AuditInv'
<1> USE DEF AuditInv, AuditFirst, RequestedIsAudited, NowAt, Submitting
<1>0. submitter \in [Request -> SubmitPc] /\ request \in [Request -> RequestState]
  BY DEF TypeInv, ErasureTypeOK
<1>1. CASE Find(r)
  <2>1. /\ submitter[r] = "find" /\ \E pc \in {"insert", "done"} : NowAt(r, pc)
        /\ UNCHANGED <<queue, request, audited, consumer>>
    BY <1>1 DEF Find
  <2> QED BY <1>0, <2>1 DEF HasRow
<1>2. CASE Insert(r)
  BY <1>0, <1>2 DEF Insert, AfterInsert, HasRow
<1>3. CASE AuditRequest(r)
  BY <1>0, <1>3 DEF AuditRequest, HasRow
<1>4. CASE EnqueueRequest(r)
  <2>1. KeyRow(r) \in Jobs /\ (KeyRow(r) = r \/ (KeyRow(r) \in Request /\ HasRow(KeyRow(r))))
    <3>1. CASE \E q \in SameDay(r) : HasRow(q)
      <4>1. KeyRow(r) = CHOOSE q \in SameDay(r) : HasRow(q)
        BY <3>1 DEF KeyRow
      <4>2. KeyRow(r) \in SameDay(r) /\ HasRow(KeyRow(r))
        BY <3>1, <4>1
      <4> QED BY <4>2, ErasureAssumption DEF SameDay
    <3>2. CASE ~\E q \in SameDay(r) : HasRow(q)
      BY <3>2, ErasureAssumption DEF KeyRow
    <3> QED BY <3>1, <3>2
  <2>2. \A q \in Request : HasRow(q)' => q \in audited
    BY <1>4, <2>1, EnqueueRow DEF EnqueueRequest, TypeInv
  <2> QED BY <1>0, <1>4, <2>2 DEF EnqueueRequest
<1>5. CASE SubmitStops(r)
  BY <1>0, <1>5 DEF SubmitStops, HasRow
<1> QED BY <1>1, <1>2, <1>3, <1>4, <1>5 DEF SubmitStep

LEMMA StepAudit == TypeInv /\ AuditInv /\ [ErasureNext]_erasureVars => AuditInv'
<1> SUFFICES ASSUME TypeInv, AuditInv, [ErasureNext]_erasureVars
             PROVE  AuditInv'
  OBVIOUS
<1>0. /\ Eraser \subseteq Consumer \cap Token
      /\ Dispatcher \in Consumer \cap Token
      /\ consumer \in [Consumer -> Frame]
  BY ErasureAssumption DEF Consumer, TypeInv, ErasureTypeOK
<1>1. CASE \E r \in Request : SubmitStep(r) \/ SubmitStops(r)
  BY <1>1, SubmitAudit
<1>2. CASE \E j \in Job : SubmitJob(j)
  <2>1. PICK j \in Job : SubmitJob(j)
    BY <1>2
  <2>2. \A r \in Request : HasRow(r)' => HasRow(r)
    BY <2>1, EnqueueRow DEF SubmitJob, TypeInv, Job
  <2> QED BY <2>1, <2>2 DEF SubmitJob, AuditInv, AuditFirst, RequestedIsAudited
<1>3. CASE \E w \in Eraser : EraserDequeue(w)
  <2>1. PICK w \in Eraser, r \in queue :
          /\ Claim(r, w)
          /\ consumer' = [consumer EXCEPT
               ![w] = [pc |-> AfterDequeue(r.job), row |-> r.id, item |-> r.job]]
    BY <1>3 DEF EraserDequeue
  <2>2. \A c \in Consumer : consumer'[c].item = consumer[c].item \/ consumer'[c].item = r.job
    BY <1>0, <2>1
  <2>3. RowsKept
    BY <1>0, <2>1, ClaimRows DEF TypeInv
  <2> QED BY <1>3, <2>2, <2>3, LoopAudit DEF EraserDequeue
<1>4. CASE \E w \in Eraser : MarkStarted(w) \/ Purge(w) \/ PurgeFails(w)
                               \/ MarkFailed(w) \/ MarkComplete(w) \/ MarkFails(w)
  <2>1. PICK w \in Eraser : MarkStarted(w) \/ Purge(w) \/ PurgeFails(w)
                               \/ MarkFailed(w) \/ MarkComplete(w) \/ MarkFails(w)
    BY <1>4
  <2>2. UNCHANGED <<queue, nextRow, audited, submitter>>
    BY <2>1 DEF MarkStarted, Purge, PurgeFails, MarkFailed, MarkComplete, MarkFails
  <2>3. \E pc \in EraserPc : Become(w, pc)
    BY <2>1 DEF MarkStarted, Purge, PurgeFails, MarkFailed, MarkComplete, MarkFails,
       AfterFailure, EraserPc
  <2>4. \A c \in Consumer : consumer'[c].item \in {None, consumer[c].item}
    <3>1. PICK pc \in EraserPc : Become(w, pc)
      BY <2>3
    <3> QED BY <1>0, <3>1, BecomeType DEF TypeInv, Idle
  <2>5. \/ UNCHANGED request
        \/ /\ consumer[w].item \in Request
           /\ \A r \in Request : r # consumer[w].item => request'[r] = request[r]
    <3>1. CASE consumer[w].pc \in {"start", "complete", "fail"}
      <4>1. consumer[w].item \in Request
        BY <3>1, AtRequest
      <4>2. UNCHANGED request \/ \E state \in RequestState : Mark(w, state)
        BY <2>1 DEF MarkStarted, Purge, PurgeFails, MarkFailed, MarkComplete, MarkFails, RequestState
      <4> QED BY <4>1, <4>2, MarkType DEF TypeInv
    <3>2. CASE consumer[w].pc \notin {"start", "complete", "fail"}
      BY <2>1, <3>2 DEF MarkStarted, Purge, PurgeFails, MarkFailed, MarkComplete, MarkFails, At
    <3> QED BY <3>1, <3>2
  <2> QED BY <1>0, <2>2, <2>4, <2>5, SameRows, LoopAudit
<1>5. CASE Dispatch
  <2>1. PICK r \in queue :
          /\ Claim(r, Dispatcher)
          /\ consumer' = [consumer EXCEPT
               ![Dispatcher] = [pc |-> "load", row |-> r.id, item |-> r.job]]
    BY <1>5 DEF Dispatch
  <2>2. \A c \in Consumer : consumer'[c].item = consumer[c].item \/ consumer'[c].item = r.job
    BY <1>0, <2>1
  <2>3. RowsKept
    BY <1>0, <2>1, ClaimRows DEF TypeInv
  <2> QED BY <1>5, <2>2, <2>3, LoopAudit DEF Dispatch
<1>6. CASE LoadJob \/ RunJob
  <2>1. UNCHANGED <<queue, nextRow, audited, submitter, request>>
    BY <1>6 DEF LoadJob, RunJob
  <2>2. \E pc \in DispatcherPc : Become(Dispatcher, pc)
    BY <1>6 DEF LoadJob, RunJob, DispatcherPc
  <2>3. \A c \in Consumer : consumer'[c].item \in {None, consumer[c].item}
    <3>1. PICK pc \in DispatcherPc : Become(Dispatcher, pc)
      BY <2>2
    <3> QED BY <1>0, <3>1, BecomeType DEF TypeInv, Idle
  <2> QED BY <2>1, <2>3, SameRows, LoopAudit
<1>7. CASE \E c \in Consumer : AckItem(c) \/ NackItem(c) \/ ConsumerStops(c)
  <2>1. PICK c \in Consumer : AckItem(c) \/ NackItem(c) \/ ConsumerStops(c)
    BY <1>7
  <2>2. Become(c, "idle") /\ UNCHANGED <<audited, submitter, request>>
    BY <2>1 DEF AckItem, NackItem, ConsumerStops
  <2>3. \A d \in Consumer : consumer'[d].item \in {None, consumer[d].item}
    BY <1>0, <2>2 DEF Become, Idle
  <2>4. RowsKept
    BY <2>1, AckRows, NackRows, SameRows DEF AckItem, NackItem, ConsumerStops, TypeInv
  <2> QED BY <2>2, <2>3, <2>4, LoopAudit
<1>8. CASE LeaseExpires
  <2>1. RowsKept /\ UNCHANGED <<consumer, audited, submitter, request>>
    BY <1>8, ExpireRows DEF LeaseExpires, TypeInv
  <2> QED BY <2>1, LoopAudit
<1>9. CASE UNCHANGED erasureVars
  BY <1>9 DEF erasureVars, AuditInv, AuditFirst, RequestedIsAudited, HasRow
<1> QED BY <1>1, <1>2, <1>3, <1>4, <1>5, <1>6, <1>7, <1>8, <1>9, NextCases

\* Whatever a worker was shown has its entry in the audit log, for any number of
\* handlers, workers and faults.
THEOREM ErasureIsAudited == ErasureSpec => []RequestedIsAudited
<1>1. AuditInv => RequestedIsAudited
  BY DEF AuditInv
<1> QED BY <1>1, InitAudit, StepAudit, TypeInvariant, PTL DEF ErasureSpec

----------------------------------------------------------------------------
(* A request's row outlives its completion *)

LEMMA InitAcked == ErasureInit => AckedComplete
BY DEF ErasureInit, AckedComplete, At, Idle, Consumer

\* With one erasure worker nobody takes a complete request back while its row
\* is about to be acknowledged.
LEMMA StepAcked ==
    ASSUME \A v, w \in Eraser : v = w,
           TypeInv, AuditInv, AckedComplete, [ErasureNext]_erasureVars
    PROVE  AckedComplete'
<1>0. /\ Eraser \subseteq Consumer
      /\ Dispatcher \in Consumer \ Eraser
      /\ consumer \in [Consumer -> Frame]
      /\ request \in [Request -> RequestState]
  BY ErasureAssumption DEF Consumer, TypeInv, ErasureTypeOK
<1>1. ASSUME UNCHANGED request,
             \A w \in Eraser : \/ consumer'[w].pc # "ack"
                               \/ consumer'[w] = consumer[w]
                               \/ consumer'[w].item \notin Request
      PROVE  AckedComplete'
  BY <1>1 DEF AckedComplete, At
<1>2. CASE \E r \in Request : SubmitStep(r) \/ SubmitStops(r)
  <2>1. PICK r \in Request : SubmitStep(r) \/ SubmitStops(r)
    BY <1>2
  <2>2. UNCHANGED consumer
    BY <2>1 DEF SubmitStep, Find, Insert, AuditRequest, EnqueueRequest, SubmitStops
  <2>3. CASE Insert(r)
    <3>1. request[r] = "absent" /\ request' = [request EXCEPT ![r] = "queued"]
      BY <2>3 DEF Insert, Submitting, AuditInv, AuditFirst
    <3> QED BY <1>0, <2>2, <3>1 DEF AckedComplete, At
  <2>4. CASE ~Insert(r)
    <3>1. UNCHANGED request
      BY <2>1, <2>4 DEF SubmitStep, Find, AuditRequest, EnqueueRequest, SubmitStops
    <3> QED BY <1>1, <2>2, <3>1
  <2> QED BY <2>3, <2>4
<1>3. CASE \E j \in Job : SubmitJob(j)
  BY <1>1, <1>3 DEF SubmitJob
<1>4. CASE \E w \in Eraser : EraserDequeue(w)
  <2>1. PICK w \in Eraser, r \in queue :
          /\ UNCHANGED request
          /\ consumer' = [consumer EXCEPT
               ![w] = [pc |-> AfterDequeue(r.job), row |-> r.id, item |-> r.job]]
    BY <1>4 DEF EraserDequeue
  <2>2. consumer'[w].pc = "ack" => consumer'[w].item \notin Request
    BY <1>0, <2>1 DEF AfterDequeue
  <2>3. \A v \in Eraser : v = w
    OBVIOUS
  <2> QED BY <1>1, <2>1, <2>2, <2>3
<1>5. CASE \E w \in Eraser : MarkStarted(w) \/ Purge(w) \/ PurgeFails(w)
                               \/ MarkFailed(w) \/ MarkFails(w)
  <2>1. PICK w \in Eraser, pc \in {"purge", "complete", "fail", "nack"} : Become(w, pc)
    BY <1>5 DEF MarkStarted, Purge, PurgeFails, MarkFailed, MarkFails, AfterFailure
  <2>2. consumer'[w].pc # "ack"
    BY <1>0, <2>1 DEF Become, Frame
  <2>3. \A v \in Eraser : v = w
    OBVIOUS
  <2> QED BY <2>2, <2>3 DEF AckedComplete, At
<1>6. CASE \E w \in Eraser : MarkComplete(w)
  <2>1. PICK w \in Eraser : MarkComplete(w)
    BY <1>6
  <2>2. consumer[w].item \in Request
    BY <2>1, AtRequest DEF MarkComplete, At
  <2>3. request'[consumer[w].item] = "complete"
    BY <2>1, <2>2, MarkType DEF MarkComplete, TypeInv, RequestState
  <2>4. consumer'[w].item = consumer[w].item
    BY <1>0, <2>1 DEF MarkComplete, Become, Frame
  <2>5. \A v \in Eraser : v = w
    OBVIOUS
  <2> QED BY <2>3, <2>4, <2>5 DEF AckedComplete
<1>7. CASE Dispatch \/ LoadJob \/ RunJob
  <2>1. UNCHANGED request /\ \A w \in Eraser : consumer'[w] = consumer[w]
    BY <1>0, <1>7 DEF Dispatch, LoadJob, RunJob, Become
  <2> QED BY <1>1, <2>1
<1>8. CASE \E c \in Consumer : AckItem(c) \/ NackItem(c) \/ ConsumerStops(c)
  <2>1. PICK c \in Consumer : UNCHANGED request /\ Become(c, "idle")
    BY <1>8 DEF AckItem, NackItem, ConsumerStops
  <2>2. \A w \in Eraser : consumer'[w].pc # "ack" \/ consumer'[w] = consumer[w]
    BY <1>0, <2>1 DEF Become, Idle
  <2> QED BY <1>1, <2>1, <2>2
<1>9. CASE LeaseExpires
  BY <1>1, <1>9 DEF LeaseExpires
<1>10. CASE UNCHANGED erasureVars
  BY <1>1, <1>10 DEF erasureVars
<1> QED BY <1>2, <1>3, <1>4, <1>5, <1>6, <1>7, <1>8, <1>9, <1>10, NextCases

\* Only Ack makes a row leave, and only that of the item in its caller's frame.
LEMMA StepLeaves ==
    ASSUME TypeInv, QueueInv, AckedComplete, [ErasureNext]_erasureVars,
           NEW q \in queue, q.job \in Request, \A p \in queue' : p.id # q.id
    PROVE  request[q.job] = "complete"
<1>0. /\ Eraser \cup {Dispatcher} = Consumer
      /\ Consumer \subseteq Token
  BY ErasureAssumption DEF Consumer
<1>1. PICK c \in Consumer : AckItem(c)
  <2>1. CASE \E j \in Jobs : Enqueue(j)
    BY <2>1, EnqueueRows DEF TypeInv
  <2>2. CASE \E r \in queue, t \in Token : Claim(r, t)
    BY <2>2, ClaimRows DEF TypeInv
  <2>3. CASE \E r \in queue : Expire(r)
    BY <2>3, ExpireRows DEF TypeInv
  <2>4. CASE \E c \in Consumer : Nack(consumer[c].row, c)
    BY <2>4, NackRows DEF TypeInv
  <2>5. CASE UNCHANGED queue
    BY <2>5
  <2>6. CASE UNCHANGED erasureVars
    BY <2>6 DEF erasureVars
  <2>7. CASE \E r \in Request : SubmitStep(r) \/ SubmitStops(r)
    <3>1. PICK r \in Request : SubmitStep(r) \/ SubmitStops(r)
      BY <2>7
    <3>2. KeyRow(r) \in Jobs
      BY ErasureAssumption DEF KeyRow, SameDay
    <3> QED BY <2>1, <2>5, <3>1, <3>2
            DEF SubmitStep, Find, Insert, AuditRequest, EnqueueRequest, SubmitStops
  <2>8. CASE \E j \in Job : SubmitJob(j)
    BY <2>1, <2>8 DEF SubmitJob, Job
  <2>9. CASE \E w \in Eraser : EraserDequeue(w)
    BY <1>0, <2>2, <2>9 DEF EraserDequeue
  <2>10. CASE \E w \in Eraser : MarkStarted(w) \/ Purge(w) \/ PurgeFails(w)
                               \/ MarkFailed(w) \/ MarkComplete(w) \/ MarkFails(w)
    BY <2>5, <2>10 DEF MarkStarted, Purge, PurgeFails, MarkFailed, MarkComplete, MarkFails
  <2>11. CASE Dispatch \/ LoadJob \/ RunJob
    BY <1>0, <2>2, <2>5, <2>11 DEF Dispatch, LoadJob, RunJob
  <2>12. CASE \E c \in Consumer : NackItem(c) \/ ConsumerStops(c)
    BY <2>4, <2>5, <2>12 DEF NackItem, ConsumerStops
  <2>13. CASE LeaseExpires
    BY <2>3, <2>13 DEF LeaseExpires
  <2> QED BY <2>6, <2>7, <2>8, <2>9, <2>10, <2>11, <2>12, <2>13, NextCases
<1>2. q.id = consumer[c].row
  BY <1>1, AckRows DEF AckItem, TypeInv
<1>3. ~At(c, "idle") /\ At(c, "ack")
  BY <1>1 DEF AckItem, At
<1>4. q.job = consumer[c].item
  BY <1>2, <1>3 DEF QueueInv, HeldRow
<1>5. c # Dispatcher
  BY <1>3, <1>4 DEF TypeInv, LoopOK, At, Job
<1> QED BY <1>0, <1>3, <1>4, <1>5 DEF AckedComplete

\* A request's row leaves the queue only when the request is complete, for any
\* number of requests, jobs and faults, if there is one erasure worker.
THEOREM RequestRowsOutliveRequests ==
    ASSUME \A v, w \in Eraser : v = w
    PROVE  ErasureSpec => RequestRowsLeaveComplete
<1> DEFINE IInv == TypeInv /\ QueueInv /\ AuditInv /\ AckedComplete
           Leaves == \A q \in queue :
                       q.job \in Request /\ (\A p \in queue' : p.id # q.id)
                         => request[q.job] = "complete"
<1>1. ErasureInit => IInv
  BY InitType, InitQueue, InitAudit, InitAcked
<1>2. IInv /\ [ErasureNext]_erasureVars => IInv'
  BY StepType, StepQueue, StepAudit, StepAcked
<1>3. IInv /\ [ErasureNext]_erasureVars => Leaves
  BY StepLeaves
<1>4. RequestRowsLeaveComplete <=> [][Leaves]_erasureVars
  BY DEF RequestRowsLeaveComplete
<1> QED BY <1>1, <1>2, <1>3, <1>4, PTL DEF ErasureSpec

----------------------------------------------------------------------------
(* Nothing is erased that nobody asked to have erased *)

Begun(r) == request[r] \in {"in_progress", "complete", "failed"}

\* A worker purges only after its request was marked started, and no request
\* ever goes back to queued.
PurgesBegun ==
    \A w \in Eraser :
        consumer[w].pc \in {"purge", "complete", "fail"} => Begun(consumer[w].item)

\* The audit log names who asked.
ErasedIsAskedFor ==
    \A j \in Job : job[j] = "erased" => \E r \in audited : Begun(r)

BegunKept == \A r \in Request : Begun(r) => Begun(r)'

\* Loops change at most one frame, which does not start to purge, and no job is erased.
LEMMA NoPurge ==
    ASSUME TypeInv, PurgesBegun, ErasedIsAskedFor, BegunKept, audited \subseteq audited',
           \A j \in Job : job'[j] = "erased" => job[j] = "erased",
           \A w \in Eraser :
               \/ consumer'[w] = consumer[w]
               \/ consumer'[w].pc \notin {"purge", "complete", "fail"}
    PROVE  (PurgesBegun /\ ErasedIsAskedFor)'
<1>1. audited \subseteq Request
  BY DEF TypeInv, ErasureTypeOK
<1>2. ASSUME NEW w \in Eraser, consumer'[w].pc \in {"purge", "complete", "fail"}
      PROVE  Begun(consumer[w].item)'
  <2>1. consumer'[w] = consumer[w] /\ consumer[w].item \in Request
    BY <1>2 DEF TypeInv, LoopOK
  <2> QED BY <1>2, <2>1 DEF PurgesBegun, BegunKept, Begun
<1>3. ErasedIsAskedFor'
  BY <1>1 DEF ErasedIsAskedFor, BegunKept
<1> QED BY <1>2, <1>3 DEF PurgesBegun

\* A step of the erasure worker w, which marks its request, erases, or gives up.
LEMMA EraserPurges ==
    ASSUME TypeInv, AuditInv, PurgesBegun, ErasedIsAskedFor, NEW w \in Eraser,
           MarkStarted(w) \/ Purge(w) \/ PurgeFails(w)
             \/ MarkFailed(w) \/ MarkComplete(w) \/ MarkFails(w)
    PROVE  (PurgesBegun /\ ErasedIsAskedFor)'
<1> DEFINE r == consumer[w].item
<1>0. w \in Consumer /\ audited \subseteq Request /\ UNCHANGED audited
  BY DEF TypeInv, ErasureTypeOK, Consumer, MarkStarted, Purge, PurgeFails, MarkFailed,
         MarkComplete, MarkFails
<1>1. r \in Request /\ ~At(w, "idle")
  BY AtRequest DEF MarkStarted, Purge, PurgeFails, MarkFailed, MarkComplete, MarkFails, At
<1>2. PICK pc \in EraserPc :
        /\ Become(w, pc)
        /\ pc \in {"purge", "complete", "fail"} =>
              request'[r] \in {"in_progress", "complete", "failed"}
  BY <1>1 DEF MarkStarted, Purge, PurgeFails, MarkFailed, MarkComplete, MarkFails, Mark,
              AfterFailure, EraserPc, PurgesBegun, Begun, At, TypeInv, ErasureTypeOK
<1>3. BegunKept
  BY <1>1 DEF MarkStarted, Purge, PurgeFails, MarkFailed, MarkComplete, MarkFails, Mark,
              BegunKept, Begun, TypeInv, ErasureTypeOK
<1>4. /\ \A v \in Eraser : v # w => consumer'[v] = consumer[v]
      /\ consumer'[w].pc = pc
      /\ pc # "idle" => consumer'[w].item = r
  BY <1>0, <1>2, BecomeType DEF TypeInv, Consumer
<1>5. PurgesBegun'
  <2>1. ASSUME NEW v \in Eraser, v # w, consumer'[v].pc \in {"purge", "complete", "fail"}
        PROVE  Begun(consumer[v].item)'
    <3>1. consumer'[v] = consumer[v] /\ consumer[v].item \in Request
      BY <1>4, <2>1 DEF TypeInv, LoopOK
    <3> QED BY <1>3, <2>1, <3>1 DEF PurgesBegun, BegunKept, Begun
  <2> QED BY <1>2, <1>4, <2>1 DEF PurgesBegun, Begun
<1>6. ErasedIsAskedFor'
  <2>1. CASE Purge(w) \/ PurgeFails(w)
    <3>1. Begun(r) /\ r \in audited
      BY <1>1, <2>1 DEF Purge, PurgeFails, At, PurgesBegun, AuditInv, RequestedIsAudited, Begun
    <3> QED BY <1>0, <1>1, <1>3, <3>1 DEF BegunKept, ErasedIsAskedFor
  <2>2. CASE UNCHANGED job
    BY <1>0, <1>3, <2>2 DEF BegunKept, ErasedIsAskedFor
  <2> QED BY <2>1, <2>2 DEF MarkStarted, MarkFailed, MarkComplete, MarkFails
<1> QED BY <1>5, <1>6

LEMMA StepErased ==
    TypeInv /\ AuditInv /\ PurgesBegun /\ ErasedIsAskedFor /\ [ErasureNext]_erasureVars
      => (PurgesBegun /\ ErasedIsAskedFor)'
<1> SUFFICES ASSUME TypeInv, AuditInv, PurgesBegun, ErasedIsAskedFor,
                    [ErasureNext]_erasureVars
             PROVE  (PurgesBegun /\ ErasedIsAskedFor)'
  OBVIOUS
<1>0. /\ \A w \in Eraser : w \in Consumer /\ w # Dispatcher
      /\ request \in [Request -> RequestState] /\ job \in [Job -> JobState]
      /\ consumer \in [Consumer -> Frame]
  BY ErasureAssumption DEF TypeInv, ErasureTypeOK, Consumer
<1>1. CASE \E r \in Request : SubmitStep(r) \/ SubmitStops(r)
  <2>1. BegunKept
    BY <1>0, <1>1 DEF SubmitStep, Find, Insert, AuditRequest, EnqueueRequest, SubmitStops,
                      Submitting, AuditInv, AuditFirst, BegunKept, Begun
  <2>2. UNCHANGED <<job, consumer>> /\ audited \subseteq audited'
    BY <1>1 DEF SubmitStep, Find, Insert, AuditRequest, EnqueueRequest, SubmitStops
  <2> QED BY <2>1, <2>2, NoPurge
<1>2. CASE \E j \in Job : SubmitJob(j)
  <2>1. UNCHANGED <<request, audited, consumer>>
    BY <1>2 DEF SubmitJob
  <2>2. \A j \in Job : job'[j] = "erased" => job[j] = "erased"
    BY <1>0, <1>2 DEF SubmitJob
  <2> QED BY <2>1, <2>2, NoPurge DEF BegunKept, Begun
<1>3. CASE \E w \in Eraser : EraserDequeue(w)
  <2>1. PICK w \in Eraser, r \in queue :
          consumer' = [consumer EXCEPT
            ![w] = [pc |-> AfterDequeue(r.job), row |-> r.id, item |-> r.job]]
    BY <1>3 DEF EraserDequeue
  <2>2. \A v \in Eraser : \/ consumer'[v] = consumer[v]
                          \/ consumer'[v].pc \notin {"purge", "complete", "fail"}
    BY <1>0, <2>1 DEF AfterDequeue
  <2>3. UNCHANGED <<request, audited, job>>
    BY <1>3 DEF EraserDequeue
  <2> QED BY <2>2, <2>3, NoPurge DEF BegunKept, Begun
<1>4. CASE \E w \in Eraser : MarkStarted(w) \/ Purge(w) \/ PurgeFails(w)
                               \/ MarkFailed(w) \/ MarkComplete(w) \/ MarkFails(w)
  BY <1>4, EraserPurges
<1>5. CASE Dispatch \/ LoadJob \/ RunJob
  <2>1. \A v \in Eraser : consumer'[v] = consumer[v]
    BY <1>0, <1>5 DEF Dispatch, LoadJob, RunJob, Become
  <2>2. UNCHANGED <<request, audited>>
    BY <1>5 DEF Dispatch, LoadJob, RunJob
  <2>3. \A j \in Job : job'[j] = "erased" => job[j] = "erased"
    BY <1>0, <1>5 DEF Dispatch, LoadJob, RunJob, IsJob
  <2> QED BY <2>1, <2>2, <2>3, NoPurge DEF BegunKept, Begun
<1>6. CASE \E c \in Consumer : AckItem(c) \/ NackItem(c) \/ ConsumerStops(c)
  <2>1. PICK c \in Consumer : Become(c, "idle")
    BY <1>6 DEF AckItem, NackItem, ConsumerStops
  <2>2. \A v \in Eraser : \/ consumer'[v] = consumer[v]
                          \/ consumer'[v].pc \notin {"purge", "complete", "fail"}
    BY <1>0, <2>1 DEF Become, Idle
  <2>3. UNCHANGED <<request, audited, job>>
    BY <1>6 DEF AckItem, NackItem, ConsumerStops
  <2> QED BY <2>2, <2>3, NoPurge DEF BegunKept, Begun
<1>7. CASE LeaseExpires \/ UNCHANGED erasureVars
  <2>1. UNCHANGED <<request, audited, job, consumer>>
    BY <1>7 DEF LeaseExpires, erasureVars
  <2> QED BY <2>1, NoPurge DEF BegunKept, Begun
<1> QED BY <1>1, <1>2, <1>3, <1>4, <1>5, <1>6, <1>7, NextCases

\* Once a job of the tenant has been erased (purger.go), the audit log names a
\* request, and the table shows that one as taken up: for any number of requests
\* and erasure workers, whose leases run out and who then work on the same request.
THEOREM ErasedAreAskedFor == ErasureSpec => []ErasedIsAskedFor
<1>1. ErasureInit => PurgesBegun /\ ErasedIsAskedFor
  BY ErasureAssumption DEF ErasureInit, PurgesBegun, ErasedIsAskedFor, Idle, Consumer
<1> QED BY <1>1, InitType, InitAudit, StepType, StepAudit, StepErased, PTL DEF ErasureSpec
=============================================================================
