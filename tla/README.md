# Owera Cloud in TLA+

A verification project for the Go back end of Owera Cloud (`api/`): TLA+ modules
for the parts in which order, failure and concurrency matter, TLC runs on small
instances, and TLAPS proofs for instances of every size.

Paths are relative to the repository; `api/...` lies under `src/`.

| | |
|---|---|
| Modelled | job pipeline, claim queue, billing outbox, bill capture, drift reconciler and its alerts, spend cap, erasure, audit log and its migration, tamper detector, identity and administration, job listing, status cache |
| TLC | 12 runs: 7 that pass, 5 that show where the code departs from what its comments say |
| TLAPS | 8 modules of proofs, 43 listed theorems: every safety property a passing run checks, and five refinements |

## 1. The system

Two processes share one SQLite file in WAL mode: the **API server**
(`api/cmd/apiserver`) and the **erasure worker** (`api/cmd/erasure-worker`). The
API server runs HTTP handlers (a goroutine per request) and five loops: the
dispatcher worker, the outbox flusher (every minute), the drift reconciler (every
day), the tamper detector (every day), and the alerting behind them. Outside are
the **operator plane** (owera-fleet, RPC), the **payment provider** (Stripe) and
the **write-once store** (S3 with object lock).

Every database statement commits by itself; there is almost no transaction that
spans two of them. So the question for each component is what another process, a
crash or a failing statement can do between two statements of one operation.

### Inventory

**Job store** (`jobs/jobs.go`). State: table `jobs`: status, operator task id.
Operations: `Submit` (idempotent on tenant and key), `Transition` (read, check
against `allowed`, conditional UPDATE), `Get`, `List`. Used by handlers and
dispatcher. Hard: the check and the UPDATE are two statements, and a cancel, a
deadline and a terminal answer race. Correct when a job moves only along
`allowed`, terminal statuses are final, and a recorded task is never replaced.

**Claim queue** (`queue/queue.go`). State: table `queue`: rows with claim token
and claim time. Operations: `Enqueue` (idempotent), `Dequeue` (oldest row that is
unclaimed or whose lease ran out), `Ack`, `Nack` under the token. Used by handlers,
the dispatcher and the erasure worker. Hard: leases that run out under their
holder, tokens that several consumers share, a claim whose read-back fails.
Correct when a row under a live lease belongs to one consumer, and leaves only
when its work is done.

**Dispatcher worker** (`dispatcher/`). State: none that survives; in memory the
row in hand and the cursor of the task's ledger. Operations: claim, load, dispatch
(`fleet.SubmitJob`), poll (`fleet.LedgerTail`), record bills, move the job, Ack or
Nack. Hard: redelivery after any failure, crash while following a task. Correct
when no accepted job is lost and the outcome shown is the task's.

**Job handlers** (`server/server.go`). `postJob`: submit, enqueue, mark queued,
answer 202. `cancelJob`: mark cancelled, then cancel the task. Hard: the worker
may take the row before the job is marked queued; the client may go away between
any two statements.

**Billing outbox and flusher** (`billing/billing.go`, `stripe_backend.go`,
`catalog/dispatcher.go`). State: table `billing_outbox`: billed stamp, failure
count, dead-letter stamp. Operations: `Record` (idempotent on entry id),
`Reconcile` (select a batch, plan, emit, stamp; count failures; dead-letter at a
threshold). Hard: a charge whose answer or stamp is lost. Correct when each event
is charged at most once and, if it can be, once.

**Bill capture** (`dispatcher/worker.go`, `ledgertail_client.go`). State: the
polling cursor. From ledger entries to `Record`. Hard: the cursor moves before the
bills are stored. Correct when a finished job's bills are all in the outbox.

**Erasure** (`erasure/`). State: table `erasure_requests`. Operations: `Submit`
(look for a request of the same day, insert, audit, enqueue), the worker's loop
(claim, mark started, purge, mark complete or failed, Ack or Nack). Shares the
queue table with the dispatcher. Correct when whatever is erased was asked for in
the audit log, and a request that was queued is completed.

**Audit log and mirror** (`audit/`). State: table `audit_log`, a hash chain; an
object in the store per row. Operations: `Append` (mutex, last hash, INSERT,
upload, ETag), `Verify`, migration. Correct when the chain is linear.

**Tamper detector** (`audit/tamperdetect`). State: the cursor of a pass.
Operation: a pass over the table in pages: gaps in the ids, and each row against
its object (HEAD, then GET). Correct when it reports what is wrong and nothing else.

**Cost cap** (`billing/costcap.go`, `catalog/pricer.go`). State: none; it reads the
tenant's cap and the units recorded this month. Operation: `Enforce`, in `postJob`
before `Submit`. Hard: a job is billed long after it was admitted, and others are
admitted beside it. Correct when a tenant gets past its cap by no more than what
was in flight at the check.

**Drift reconciler and alerts** (`billing/reconciler.go`, `alerting/`, both as the
API server runs them). State: none. Operation: a pass over the tenants: what the
outbox has recorded, what the provider has of it, the drift between the two, an
alert. Hard: the two sums are read at different times, while the flusher works.
Correct when usage that was never charged is told of, and a tenant all of whose
usage was charged is left alone.

**Identity and administration** (`identity/identity.go`, `server/admin.go`,
`auth/auth.go`). State: tables of tenants, users and API keys. Operations: the
handlers of `/v1/admin` (look up, write, append to the audit log), the listing of
tenants in pages, the middleware that admits requests. Hard: the lookup and the
write are two statements, and the audit row a third. Correct when keys belong to
users of their tenant, revoked keys are refused, changes are audited, and a
listing is complete.

**Job listing** (`jobs/jobs.go`, `List`). Pages with a cursor beside submissions.
Correct when every job that was there is shown once.

**Status cache** (`status/`). State: a snapshot and its time. Operation: `Get`,
which fetches outside the lock, and the colour of the fleet: red without its
gateway or without any worker, green when all the workers listed are OK, yellow
otherwise. Correct when no answer is older than the cache and
a fetch together, and readiness comes back.

**Audit migration** (`Log.migrate` in `audit/audit.go`). State: the table's column,
trigger and hashes. Correct when whatever a start died in the middle of, the next
start makes good, and no hashed row is rewritten.

**Bill subscriber** (`billing/subscriber.go`), **reconciler binary**
(`cmd/reconciler`), **webhooks** (`webhooks/`), web pages,
infrastructure: not modelled, see section 8.

### How the parts meet

```
 client -> handlers -> jobs table <------ dispatcher worker <-> operator plane
              |          ^                  |     |               (tasks, ledgers)
              |          +--- queue table --+     +-> billing_outbox -> flusher -> Stripe
              |                 |    
              +-> spend check <---- identity tables      ^
              |     (before Submit)  ^   ^               +-- drift reconciler -> alerts
              |            handlers of   middleware
              |            /v1/admin     of every request
              +-> erasure_requests --- erasure worker
              +-> audit_log <------------+     audit_log -> mirror <- tamper detector
```

## 2. Modules

| Module | Models | Extends |
|---|---|---|
| `CloudIds` | the identifiers that are shared | |
| `JobLifecycle` | abstract: one job's state machine, `allowed` in one step | |
| `JobPromise` | abstract: what clients are promised about jobs | `JobLifecycle` |
| `ChargePromise` | abstract: what billing promises about an event | |
| `JobStore` | table `jobs`, `Submit`, the guarded UPDATE | `CloudIds` |
| `ClaimQueue` | table `queue` with tokens and leases | `CloudIds` |
| `OperatorPlane` | external: tasks as the dispatcher relies on them | `CloudIds` |
| `JobPipeline` | handlers and dispatcher workers over these | the three above |
| `BillingOutbox` | outbox, flusher, provider with idempotency keys | |
| `DriftReconciler` | passes of the reconciler, its sums, drifts and alerts | `BillingOutbox` |
| `BillCapture` | ledger, cursor and `recordBills` feeding the outbox | `BillingOutbox` |
| `Erasure` | requests, erasure worker, and the dispatcher as far as they share the queue | `ClaimQueue` |
| `AuditLog` | table `audit_log`, any number of `Log`s, mirror, `Verify` | |
| `TamperScan` | the detector's pass beside the appends | `AuditLog` |
| `AuditMigration` | opening an audit table of an earlier version | |
| `JobsList` | `Store.List` page after page, beside submissions | |
| `Identity` | the identity tables and the statement of each operation | |
| `AdminApi` | handlers of `/v1/admin`, listing of tenants, middleware | `Identity` |
| `CostCap` | the spend check of a submission and what moves its numbers | `Identity` |
| `StatusCache` | the cached fleet snapshot behind `/readyz` | |

`MC*` modules give the constants their values for TLC; `*Proofs` modules hold the
theorems. Definitions named "Fault-seeded form of X" are X as a plausible bug
would have it; nothing refers to them, and they document which mistake each
property catches.

### How state and actions correspond to the code

*One statement or remote call, one action.* A handler or loop keeps what Go keeps
in local variables in a frame (`proc[p]`, `flusher`, `follower`, `consumer[c]`,
`append[e]`, `scan`), with a program counter named for what comes next. A crash
empties the frames and keeps the tables.

*Pipeline.* `PostJob` is `Jobs.Submit`; `EnqueueJob`, then `ReadStatus` and
`WriteStatus` (the two halves of `Store.Transition`), then `Reply` follow. A worker
runs `Dequeue`, `LoadJob`, `Dispatch`, the transition to running, `PollTerminal` or
`LedgerWaitExceeded`, the transition to the terminal status, `AckRow` or `NackRow`.
Where each transition leads, on success and on error, is in `OkPc` and `ErrPc`.
Polls that see nothing are left out, since they change nothing.

*Queue.* A row's id is its place in the order. Time is the one comparison the code
makes of it: `Expire` says the lease has run out. Nothing keeps a lease from
running out while its holder works, except in `Erasure`, see section 5.

*Billing.* `SelectPending` takes the snapshot; `TakeRow` plans a row; `Emit`,
`MarkBilled` and `RecordFailure` work from the snapshot, not from the table. The
provider is `charges` and the `keys` it remembers.

*Capture.* `Poll` reads the unread part of the ledger and moves the cursor at
once; `RecordNext` stores one bill at a time; the job moves only after the batch.
Entries that a poll skips (progress, and bills that do not decode) are left out of
the model's ledger, since they move the cursor and nothing else.

*Erasure.* A queue row is keyed by tenant and day, so the row a second request of
the day finds carries the first request's id (`KeyRow`). All requests are of one
tenant, which is the case in which they meet.

*Drift.* A pass reads, tenant by tenant, the outbox's sum (`SumLedger`) and then the
provider's (`Compare`), each a step that may fail. The flusher steps in between.
Sums are folds over the events of the window; `pass.logged` is what has been told,
and a page that fails (`FireFails`) ends the pass or not, as the kind of alert has it.

*Spend.* `ReadCap`, `Enforce` and `SubmitJob` are the three statements of a
submission; `RecordBills`, `Administer` and `NextMonth` move the numbers under it.
`basis` is a history variable: what a job was admitted on.

*Administration.* A handler's frame (`call[c]`) stands between its lookup and its
write (`insertUser`, `insertKey`) or before its audit row (`audit`). A tenant's id
is a number handed out in any order, since the listing compares random ids. The
verification of a Clerk session, and the hash of a token, are a step that succeeds
or is refused.

*Status.* Workers join and leave the fleet (`listed`), fail and recover (`up`), and
`translate` counts them as the code does; `Fleet` states the policy above it in
sets. Time is counted in ticks and kept as ages; `seen[h]` is how long ago the
fleet was last `h`, a history variable. A fetch lasts at most `FetchMax` ticks.

*Migration.* One step per statement. A start that stops anywhere leaves the table
to the next.

*Audit.* A hash is the entry it covers, which is what a collision-free hash over
contents and previous hash says. `mu` is the mutex of each `Log`, held over the
upload too. An id is 0 until the row is written. `gone` marks a lost row. Every
INSERT commits by itself, so that one that fails takes no id; the rollback of a
caller's transaction around `Append`, which its comment forbids (`audit.go:299`),
has no step, and no caller has one.

*Detector.* A page is a snapshot of at most `BatchSize` rows after the cursor;
the objects are looked up row by row, later. `start` is a history variable: what
was damaged, and which calls were open, when the pass began. `found` is what the
report's counters count; its list of findings stops at 256. A pass may fail to
read the table or an object any number of times.

## 3. What the runs check

All passing runs are exhaustive for the constants given.

| Run | Instance | States | Question |
|---|---|---|---|
| `pipeline_faults` | 1 job, 2 handlers, 2 workers with their own tokens, 3 tasks; 1 post, 1 cancel, 2 faults of any kind | 1.58 million | do jobs survive, keep their task, and is what clients are promised kept; do claims mean anything when leases run out |
| `pipeline_liveness` | 2 jobs, 1 handler, 1 worker; 2 posts (of two jobs, or of one and its retry), 1 cancel, 1 failing RPC | 272,603 | does a retry find its job whatever has become of it, along the life cycle; does every accepted job end and leave the queue |
| `restart_strands_running` | 1 job, 1 crash | violated | does a running job end after a restart |
| `bill_capture` | 3 events (metered, included, no plan), threshold 3, 2 faults | 239,131 | from ledger to charge, end to end |
| `record_error_loses_bill` | 2 events, 1 failing INSERT | violated | is a bill that was read recorded in the end |
| `billing_drift` | 3 events of 2 tenants (metered; one-shot, no StripeRef), threshold 2, 2 faults, passes of the reconciler | 1,867,868 | at most one charge, stamps that tell the truth, what billing promises, and a reconciler that tells what is missing and nothing else |
| `erasure_completes` | 2 requests of a day, 1 job, both consumers, 2 faults | 94,027 | is what is erased audited, and what is queued completed |
| `eraser_drops_job` | 1 request, 1 job, no fault | violated | does the row of a job stay until the job has ended |
| `audit_scan` | 4 appends, 1 `Log`, pages of 2, 1 fault, any number of read errors | 645,771 | is the chain linear; are passes sound and thorough |
| `audit_two_logs` | 3 appends, 2 `Log`s, no fault | violated | is the chain linear with both processes |
| `front` | the four parts below, each in behaviours of its own | 1,061,550 | accounts, spend, status and migration |
| `job_page_skips` | 3 jobs, pages of 1 | violated | is every job listed |

`front` puts four parts that share no step into one instance, and lets a behaviour
be of one of them: TLC's work is their sum and not their product. *Accounts*: three
administration calls, two at a time, over three tenants, a user and a key, with a
request and a listing in pages of one. *Spend*: two jobs of prices 1 and 2, caps
"none", "default" (5) and 3, bills of up to 2 units, a change of month. *Status*:
two probes, up to two listed workers and a gateway, a cache of 2 ticks and fetches
of up to 1. *Migration*: an old table of three rows with every combination of column
and trigger, and up to three crashes or failing statements.

The properties, by what they guard against:

- `NoJobLost`: three statements create a job, its row and its status, another
  deletes the row; no order of crash, retry, cancel or lease loses the job.
- `SucceededTask`, `TaskIsKept`: a job dispatched twice shows the outcome of the
  task that is recorded, and the record is not replaced.
- `FollowsLifecycle`: the store, with its read and its UPDATE apart, implements
  `JobLifecycle`; refinement mapping `status <- [j |-> job[j].status]`.
- `KeepsPromise`: the pipeline implements `JobPromise`. A job is created before it
  has a row, has one before its client is answered or it shows as queued or
  running, and loses it only when it has ended.
- `RowsLeaveFinished`, `LeaseIsRespected`: what an Ack may delete, and whose row.
  The second needs a token per worker; with the default token, shared by all
  workers, it does not hold, and the first still does.
- `AcceptedEnds`, `FinishedLeaveQueue`: progress of accepted jobs.
- `ChargedOnce`, `BilledIsCharged`, `SettledIsFinal`: the flusher under refused
  charges, lost answers, failing stamps and crashes.
- `ChargesAsPromised`: the outbox implements `ChargePromise`. An event is charged
  for at most once, only by plan and only while it is owed; then billed or given up.
- `CursorIsCovered`, `FinishedIsCaptured`: the cursor against the outbox.
- `FinishedIsCharged`, `RecordedSettles`, `BillableIsBilled`: the end of every bill.
- `RequestedIsAudited`, `RequestRowsLeaveComplete`, `EnqueuedCompletes`: requests.
- `UnpaidIsTold`: a pass that completes has logged every tenant that had recorded
  usage in the window and none of it charged, whatever the flusher did between the
  two reads. `BilledIsQuiet`: a tenant all of whose usage was charged before the
  pass raises no drift.
- `OvershootIsInFlight`: how far a tenant can get past its cap: by what was not
  yet billed at the check, for jobs of the same month.
- `KeyIsOwned`: the schema ties a key to a tenant and to a user, but not the user
  to the tenant; the handler's earlier lookup must.
- `RevokedIsRefused`: a request begun after the revocation, a call that issues
  keys beside both.
- `CurrentIsAudited`: every value in the identity tables has its row, unless the
  row was lost or is about to be written. Rows and changes interleave freely.
- `ListingIsComplete`: ids are random, tenants are created between pages.
- `AnswerIsRecent`, `ReadinessRecovers`: probes that fetch at once, and a slow one
  that stores an older snapshot over a newer, of a fleet whose workers come and go,
  down to none.
- `ServedIsMigrated`, `HashedIsKept`: starts that die between any two statements.
- `ChainIsLinear`: `Verify` succeeds as long as no row is lost.
- `NoFalseAlarm`: no gap is reported where no row was lost (no id is lost to a
  failed statement, see above), and no missing or
  altered object for a row whose `Append` had returned and whose copy is sound.
  A row whose upload is under way may be reported; the code does so.
- `PassIsThorough`: damage that was there when a pass began, and still is, is in
  its report (its counters; the list stops at 256), across page boundaries.

### Bounds

Counters are bounded by guards: `Budget` (posts, cancels, faults), `FaultBudget`,
and the size of the constant sets (each event, request, entry is used once). Two
handlers let a cancel meet a submission that is still under way, and one handler is
enough for a retry to come at any later time (a retry beside its submission, with
faults, is in `NoJobIsLost`, which holds for every budget);
three tasks let a job be dispatched three times; two workers suffice for a lease to
change hands, and three tasks for both to dispatch. Two faults allow a failure of
what was to repair the first. A threshold of 2 or 3 lets the failure counter stop
short of it, reach it, and reach it one early. Four rows in pages of two give a
page that is full, one that is short, and a lost row on a page boundary.
`CHECK_DEADLOCK FALSE` stands in every run because requests, events and entries are
finite in an instance: when all are served, the system rightly rests.

Symmetry is used in the safety runs, over sets whose members the specification
does not tell apart (jobs, tasks, handlers; entries of one Log), and in no run
with a liveness property.

### What the violated properties show

1. **A restart strands a running job** (`restart_strands_running`). The row is
   delivered again, `handle` dispatches a second task, `running -> running` is
   refused, and nobody polls the recorded task. `ledgertail_client.go:9` describes
   a restart that re-reads the task's ledger.
2. **A failing `Record` loses a bill** (`record_error_loses_bill`). The cursor has
   passed it. `worker.go:233` expects the next poll to bring it again.
3. **The erasure worker drops jobs** (`eraser_drops_job`). It Acks rows of the
   shared queue that have no request id, and jobs have none.
4. **Two logs fork the chain** (`audit_two_logs`). The mutex that serialises
   `Append` is per process; the erasure worker has its own on the same table.
5. **A page skips jobs** (`job_page_skips`). The cursor compares ids, which are
   random, and the order is by submission time (`jobs.go:190`, `jobs.go:212`): jobs
   are left out, and others shown twice.

### Divergences seen, without a run

- A job whose transition to queued fails after its Enqueue stays submitted for
  ever: the worker may not start it (`server.go:202`: "subsequent worker will retry").
- A poll error Nacks the row, which returns to the head of the queue, and blocks
  what is behind it while the error lasts (`worker.go:204`).
- A submission that fails because the operator plane is away fails the job
  (`worker.go:178`), although `docs/architecture.md:105` lets queued jobs resume.
- Bills written after the terminal entry are read only if they come in the same
  poll (`ledgertail_client.go:147`). `FinishedIsCaptured` is about those before it.
- Stripe forgets idempotency keys after 24 hours (`stripe_backend.go:88`). A row
  charged but not stamped for that long is charged again; the fault `window` of
  `BillingOutbox` models it, and `NeverChargedTwice` assumes it away.
- `purger.go:97` deletes from `queue_items`, which does not exist (the table is
  `queue`); the row of an erased job is given back by the dispatcher for ever.
- A request whose Submit stops before the Enqueue is found by the retry of the
  same day and never queued; `ListPending`, meant for it, has no caller. Two calls
  that both find nothing insert two requests, and one gets no row.
- A complete request whose Ack failed goes back to in progress when delivered again.
- The erasure worker's `Log` has no streamer, so its rows have no object, and a
  detector with a reader reports them as missing (`cmd/erasure-worker/main.go:45`).
- A cancel that read the job before its task was recorded cancels no task
  (`server.go:261`); the task runs on and is billed.
- The spend check counts recorded bills only, so submissions pass together; it
  prices the units of every SKU at the price of the one submitted, and estimates a
  job at one unit. A SKU priced per job has no unit price and is not held back.
  `docs/pricing.md:20` promises a cap.
- A retry with the same idempotency key goes through the check again and can be
  refused for its own bill (`docs/api.md:53` promises the original answer).
- `/v1/usage` sums all time, where `docs/api.md:35` says the current period.
- Audit rows of administration calls: their order may differ from that of the
  changes; the row of a Clerk binding does not name the user; a failed append is
  dropped. `admin.go:6` wants the state "reconstructable from the audit log alone".
  `RevokeAPIKey` has no handler and no row.
- A bill entry that does not decode is skipped while the cursor passes it, without
  a line in any log (`ledgertail_client.go:141`, `:170`): that bill is lost. What is
  said of bills in `BillCapture` is of those that decode.
- The report of the tamper detector lists 256 findings and no more
  (`tamperdetect.go:183`, `:712`); its counters go on, but the `total_findings` of the
  alert is the length of the list (`:425`). `PassIsThorough` is of the counters.
- `cmd/reconciler` runs the reconciler over a stub: `UsageForTenant` returns 0 for
  every tenant, with a key as without (`cmd/reconciler/main.go:117`), so that every
  tenant with usage drifts; and its alerter posts without logging first (`:146`), so
  that an alert that cannot be sent is told nowhere. `BilledIsQuiet` is false of
  this binary, and `UnpaidIsTold` is not claimed of it.
- A drift alert whose page fails ends the pass and silences the tenants behind it
  (`reconciler.go:102`; `reconciler.go:78` and `alerting.go:18` say otherwise), and
  no later pass covers that window. Hence `UnpaidIsTold` is of passes that complete.
- The reconciler counts one-shot charges in the outbox's sum and not in the
  provider's usage; usage recorded between the two reads can hide as much missing
  usage; the provider's summaries are of a billing period, and are taken whole when
  they overlap the day (`stripe_backend.go:205` says the same window).
- A start that died among the hash updates leaves a chain whose second part begins
  anew, since the last row has no hash yet: `Linear` is claimed of first starts
  only. A `CREATE TRIGGER` that fails in the deferred statement is dropped, and the
  server serves without the trigger until it starts again. Two processes that open
  the table at once can each rewrite what the other has hashed (`audit.go:265`);
  the module has one opener.
- A slow fetch may overwrite a newer snapshot (`status.go:87`); `AnswerIsRecent` says
  how old an answer can get.

## 4. Abstract specifications

| Promise | Kept by | Mapping | Checked | Proved |
|---|---|---|---|---|
| `JobLifecycle`: a job's status moves along `allowed` in one atomic step | `JobPipeline` | `status` is the column | `pipeline_liveness` | `PipelineFollowsLifecycle` |
| `JobPromise`: what is accepted, queued or running is due for work until it has ended | `JobPipeline` | `due`: the jobs with a row; `promised`: those answered 202 | `pipeline_faults` | `PipelineKeepsPromise` |
| `ChargePromise`: one charge at most, while the event is owed; then billed or given up, for good | `BillingOutbox` | `state` from the two stamps (`StateOf`); `charged`: the provider's charges | `billing_drift` | `OutboxKeepsPromise`, `CaptureKeepsPromise` |
| `BillingOutbox` itself | `BillCapture`, `DriftReconciler` | its own variables | | `CaptureImplementsOutbox`, `DriftImplementsOutbox` |

`JobPromise` knows no handlers, workers, tokens, leases, tasks or faults, and
`ChargePromise` no passes, keys, counters or crashes: all of those are stutters, or
one of the few steps the promise has. The last row is what lets the theorems about
the outbox be used beside the polling worker and beside the reconciler.

## 5. Fairness

Safety runs assume none. The others assume:

- *Handlers* (weak): net/http runs a request's goroutine to its end.
- *Dispatcher, flusher, follower* (weak): `for` loops and tickers that stop only
  with the process. Faults are never owed, and no fairness is put on crashes,
  requests, events or client actions.
- *Operator tasks* (weak): every task ends; the wait for it has a deadline besides.
- *Lease expiry* (weak): the clock advances.
- *Probes* (weak on each probe's steps, and on the tick): `/readyz` is polled, and
  time passes. Nothing is assumed of the fleet or of the tunnel: `ReadinessRecovers`
  is of behaviours in which they stay up from some point on.
- *Erasure worker* (weak, and strong on its claim): the dispatcher claims a
  request's row, gives it back, and sleeps 500 ms; the worker looks every 15 s.
  The polls are not synchronised, so the worker does not find the row held each
  time; it is the row being claimable again and again that strong fairness uses.
  A consumer slower than its lease counts as a fault there (`Prompt`), except
  for the dispatcher following a job, whose lease may run out freely.

## 6. Proofs

Each theorem holds for all values of the constants that satisfy the assumptions:
`IdsAssumption` (`None` is no identifier), `PipelineAssumption` (handlers and
workers are disjoint, tokens are tokens), `BillingAssumption`, `CaptureAssumption`,
`ErasureAssumption` (requests are keyed like jobs, consumers have tokens of their
own), `AuditAssumption` and `ScanAssumption` (types), `IdentityAssumption` and
`AdminAssumption` (ids are positive numbers, `Nil` is no id and no audit row),
`CostCapAssumption`, `StatusAssumption` (the gateway is no worker, the workers are
finitely many, a cached snapshot lives for a tick), `MigrationAssumption` and
`DriftAssumption` (types). Further hypotheses stand in the theorem that needs them:

- no `window` fault (a row unsettled for longer than Stripe keeps keys) for
  `NeverChargedTwice`, `OutboxKeepsPromise`, `CaptureKeepsPromise`, `ReconciledIsQuiet`;
- `OwnTokens`, no two workers under one token, for `LeasesAreRespected`: the wiring
  starts one worker, and with more under the default token the property is false;
- one erasure worker for `RequestRowsOutliveRequests`, which is what is deployed;
- one `Log` for `OneLogIsLinear`; `audit_two_logs` shows that it is needed.

| Module | Theorems | Inductive invariant |
|---|---|---|
| `JobPipelineProofs` | `TypeCorrect`, `NoJobIsLost`, `OnlyFinishedRowsLeave`, `PipelineFollowsLifecycle`, `PipelineKeepsPromise`, `LeasesAreRespected`, `OutcomeIsTaskOutcome`, `RecordedTaskIsKept` | `TypeInv`, `QueueInv`, `PromiseInv`, `TaskInv` |
| `BillingProofs` | `BillingTypeCorrect`, `BilledRowsAreCharged`, `SettledRowsAreFinal`, `NeverChargedTwice`, `OutboxKeepsPromise`, `RowsAreGivenUpInTime` | `PassInv`, `KeyInv`, `ByPlan`, `CountIsFresh` |
| `CaptureProofs` | `CaptureTypeCorrect`, `NoBillSlipsPast`, `FinishedJobsAreCaptured`, `CaptureImplementsOutbox`, `CaptureKeepsPromise` | `CaptureInv` |
| `DriftProofs` | `DriftImplementsOutbox`, `OwingIsTold`, `ReconciledIsQuiet` | `DriftInv`, `QuietInv` |
| `ErasureProofs` | `ErasureTypeCorrect`, `ErasureIsAudited`, `ErasedAreAskedFor`, `RequestRowsOutliveRequests` | `TypeInv`, `QueueInv`, `AuditInv`, `PurgesBegun`, `AckedComplete` |
| `AuditProofs` | `LogTypeCorrect`, `OneLogIsLinear`, `ScanTypeCorrect`, `AlarmsAreTrue`, `PassesAreThorough` | `ChainInv`, `ScanInv` |
| `AccountProofs` | `SpendTypeCorrect`, `OvershootIsBounded`, `AdminTypeCorrect`, `KeysAreOwned`, `RevokedKeysAreRefused`, `ListingsAreComplete`, `CurrentAudited` | `SpendInv`, `AdminInv`, `SubjectInv` |
| `UpkeepProofs` | `StatusTypeCorrect`, `AnswersAreRecent`, `MigrationTypeCorrect`, `ServedMigrated`, `HashedKept` | `StatusInv`, `MigrationInv` |

*Pipeline.* `NoJobLost` speaks of tables and says nothing of a worker about to
delete a row. `QueueInv` adds: row ids are unique and below the next; a frame whose
next step is the Ack holds the row of a terminal job, which stays so because
`allowed` has no edge out of a terminal status; what was accepted or started has a
row or is terminal. `TaskInv` adds that a frame reporting an outcome reports the
phase its task has ended in. `PromiseInv` adds to `QueueInv` that a handler about to
enqueue holds a job that exists; each action is then shown to be one step of the
promise, or none: `WriteStatus` is an `Advance`, `AckRow` a `Drop`, and the claims,
leases, polls and crashes in between are stutters. `LeasesAreRespected` needs only
types: what another worker acknowledges or gives back is under another token, and a
row under a live lease is not claimable.

*Billing.* `PassInv`: what the flusher has in hand, and what is left of its batch, is
pending and recorded (it is the only one that settles rows), and a row about to be
stamped was charged. `KeyInv`: an unsettled row that was charged still has its key;
hence the second emission is no second charge. With `ByPlan` (what is emitted is to
be charged, what fails is not included) every step of the flusher is one of
`ChargePromise`. `CountIsFresh`: the failure count a pass read, and writes back one
higher, is still the table's, since no other loop counts; so a row is dead-lettered
at its `Threshold`-th failure, neither sooner nor later (`RowsAreGivenUpInTime`).

*Drift.* The sums are folds over sets in an order of the fold's own. Induction
theorems with operator parameters being out of reach, the facts about them (that
two orders give one sum, that a sum with an element taken out is smaller by it, that
a sum of naturals is 0 only if each is) are shown by contradiction from the least
size of a set that fails (`LeastIn`, `SumsExist` and the lemmas after them).
`DriftInv`: the ledger's sum is that of *some* rows of the tenant, with all those the
pass began with among them; so if none was charged, the provider's sum is smaller,
however many rows came in between the reads. `QuietInv` adds that a reconciled
tenant's rows were all billed before the first sum was taken, and what is billed
was charged once (`KeyInv`), so that the two sums are of the same rows.

*Capture.* `CaptureInv`: every bill behind the cursor is stored, in the batch or
refused; at the terminal entry the batch has to be worked off first.

*Erasure.* A request's row carries a request that is audited, because `AuditRequest`
precedes `EnqueueRequest` and the row a key finds belongs to an earlier request that
did the same. A worker purges only after its request was marked started, no request
goes back to queued, and what is marked is audited: so whatever was erased, somebody
asked for (`ErasedAreAskedFor`). A row about to be acknowledged by the one erasure
worker has a complete request, and nobody else marks it.

*Audit.* `ChainInv`: a call under way holds its mutex, so that with one `Log` there
is one; the hash it read is of the last row that is not lost, and stays so until it
inserts; every row links to the last one before it that is not lost. The proof
fails when `Free` is dropped, at `LockKeepsChain`.

*Detector.* `ScanInv` stands on `TableInv` (ids are unique, none is skipped, a row is
written once) and follows a pass. What was damaged when it began, and still is, is
in the report or has an id beyond the cursor; the same for a gap between two
neighbouring rows, where `prev` carries the last id over the page boundary. A page
is the first `BatchSize` rows after the cursor, whatever was appended meanwhile:
`PageIsLimited` and `ShortPageIsLast` (a page that is not full ends the table) are
lemmas about cardinalities, for any page size. An append under way cannot look like
a gap, because ids are handed out in the INSERT.

*Spend.* `SpendInv`: the check a job was admitted on, or is about to be, fitted its
cap with the units recorded then, and what is recorded in that month now is that
and at most `MaxUnits` for each job billed since.

*Administration.* `AdminInv`: a frame about to insert a key holds a user of its
tenant (users never move); a request begun with a revoked key is still before the
lookup, which will refuse it (revocation is for good); beyond the cursor of a
listing nothing was shown, up to it everything was. For `CurrentAudited`, what a
step adds to the tables is exactly the row its call goes on to hold, rows stay,
and a call that holds one gives it up only to one of the two logs.

*Status.* `TranslateIsFleet`: counting the workers listed, and those of them that
are OK, yields the colour the policy states, for every fleet, the empty one included
(`FS_Subset`: a subset of as many members is the set). `StatusInv`: a snapshot on
its way was true when its fetch began, which is its frame's age, at most `FetchMax`;
so the cached one was true no more than `FetchMax` before its storing, whichever
fetch stored it.

*Migration.* `MigrationInv`: the rows to do are those without a hash from the
moment they were selected (one opener), so that `restore` finds every row hashed;
in a first start the hashed rows are those up to the hash in hand.

*Only model-checked*: liveness (`AcceptedEnds`, `FinishedLeaveQueue`,
`FinishedIsCharged`, `RecordedSettles`, `BillableIsBilled`, `EnqueuedCompletes`,
`ReadinessRecovers`), since liveness under fairness and ENABLED are out of the
prover's reach. So are RECURSIVE operators, and no module declares one.
`GivenUpInTime` and `ErasedIsAskedFor` are proved and stand in the proof modules; no
run lists them.

## 7. Running

```
tlc -config pipeline_faults.cfg MCJobPipeline.tla
tlc -config audit_scan.cfg MCTamperScan.tla
tlapm AuditProofs.tla
```

`pipeline_faults` takes some minutes on two cores, and `front` and `billing_drift`
two or more; every other run, and every proof module, two minutes or less.

## 8. Plan, and what is not modelled

The order was: first what loses or duplicates work or money (pipeline, billing,
capture), then what shares its tables (erasure), then the record of it (audit),
then what stands before and beside them (spend cap, reconciler, accounts, listing,
status, migration).

To come: what `Store.List` does guarantee (a job is skipped only by a cursor that
is smaller than its id); an abstract append-only chain for one `Log`; an abstract
erasure that `Erasure` implements; liveness of the detector (damage is alerted in the
end); two openers of one audit table.

Not modelled, and why:

- *Reconciler binary* (`cmd/reconciler`): a stub for usage, see section 3.
- *Bill subscriber*: no process starts it; bills come through `recordBills`.
- *Reads* that take one statement and change nothing: one job, usage, the SKU
  list, dead letters, the audit list. Filters of the job list only narrow it.
- *Fan-out of alerts to several backends*: the wiring registers one. The text of
  a page and of a log line.
- *Catalog*: a table built at start-up; its plans and prices are constants.
- *Webhooks*: a signature over one message, no state.
- *Wire formats, signing of S3 requests, HTTP set-up, flags*: no state; a call
  succeeds, fails, or loses its answer.
- *Dashboard and status pages*: they render answers and keep no state.
- *Infrastructure, compliance and prose*: read for what they promise.
