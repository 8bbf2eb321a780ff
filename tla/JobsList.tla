------------------------------- MODULE JobsList ------------------------------
(***************************************************************************)
(* GET /v1/jobs (listJobs in api/internal/server/server.go, Store.List in  *)
(* api/internal/jobs/jobs.go): one tenant's jobs, newest first, page after *)
(* page, while more are submitted.  Job ids are random bytes and say       *)
(* nothing of the time a job was submitted at.                             *)
(***************************************************************************)
EXTENDS Integers, FiniteSets

CONSTANTS JobId,   \* ids, numbers for their order
          Limit,   \* the limit of a request
          MaxClock \* bound: instants

VARIABLES submittedAt, \* [JobId -> Nat], 0: there is no such job
          clock,
          client       \* a client following next_cursor

jobsListVars == <<submittedAt, clock, client>>

\* cursor 0: none.   existed  what there was to list    shown  how often each was
NotFollowing == [pc |-> "idle", cursor |-> 0, existed |-> {}, shown |-> [j \in JobId |-> 0]]

JobsListInit ==
    /\ submittedAt = [j \in JobId |-> 0]
    /\ clock = 1
    /\ client = NotFollowing

Rows == {j \in JobId : submittedAt[j] > 0}

Submit(j) ==
    /\ j \notin Rows
    /\ submittedAt' = [submittedAt EXCEPT ![j] = clock]
    /\ UNCHANGED <<clock, client>>

Tick ==
    /\ clock < MaxClock
    /\ clock' = clock + 1
    /\ UNCHANGED <<submittedAt, client>>

\* ORDER BY submitted_at DESC, id DESC
Before(i, j) ==
    \/ submittedAt[i] > submittedAt[j]
    \/ submittedAt[i] = submittedAt[j] /\ i > j

\* AND id < ?
Older(cursor) == {j \in Rows : cursor = 0 \/ j < cursor}

\* The first rows of the SELECT; the limit+1'st only says there are more.
Page(rest) == {j \in rest : Cardinality({i \in rest : Before(i, j)}) < Limit}

\* out[limit-1].ID
NextCursor(page) == CHOOSE j \in page : \A i \in page : i = j \/ Before(i, j)

StartFollowing ==
    /\ client.pc # "listing"
    /\ client' = [NotFollowing EXCEPT !.pc = "listing", !.existed = Rows]
    /\ UNCHANGED <<submittedAt, clock>>

List ==
    LET rest == Older(client.cursor)
        page == Page(rest) IN
    /\ client.pc = "listing"
    /\ client' = [client EXCEPT
         !.pc = IF rest = page THEN "done" ELSE "listing",
         !.cursor = IF rest = page THEN 0 ELSE NextCursor(page),
         !.shown = [j \in JobId |-> @[j] + (IF j \in page THEN 1 ELSE 0)]]
    /\ UNCHANGED <<submittedAt, clock>>

JobsListNext == (\E j \in JobId : Submit(j)) \/ Tick \/ StartFollowing \/ List

JobsListSpec == JobsListInit /\ [][JobsListNext]_jobsListVars

----------------------------------------------------------------------------
(* Properties *)

\* "paginated by submitted_at then id (id is the tiebreaker for stable
\* cursoring)" (jobs.go:190): a client that follows next_cursor to the end has
\* been shown every job there was when it began, once.  The code compares the
\* cursor's id alone, and shows some twice and others never.
EveryJobIsListed ==
    client.pc = "done" => \A j \in client.existed : client.shown[j] = 1
=============================================================================
