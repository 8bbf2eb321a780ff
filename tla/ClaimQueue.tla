----------------------------- MODULE ClaimQueue -----------------------------
(***************************************************************************)
(* The `queue` table (api/internal/queue/queue.go): a durable FIFO whose   *)
(* consumers claim the oldest eligible row under a lease and then Ack      *)
(* (delete) or Nack (release) it under their claim token.                  *)
(*                                                                         *)
(* A row's id is also its place in the order (ORDER BY enqueued_at): ids   *)
(* are handed out in the order of the inserts and never reused.  Time is   *)
(* abstracted to the one comparison made of it, claimed_at < now - maxAge: *)
(* `expired` says that the lease of a claimed row has run out.             *)
(***************************************************************************)
EXTENDS Naturals, CloudIds

VARIABLES queue,    \* the rows, a set of Row
          nextRow   \* id the next inserted row gets

Row == [id: Nat, job: Jobs, token: Token \cup {None}, expired: BOOLEAN]

HasRow(j) == \E r \in queue : r.job = j

QueueInit == queue = {} /\ nextRow = 1

\* Enqueue keyed by the job id: a second call while the row is there finds it.
Enqueue(j) ==
    IF HasRow(j)
    THEN UNCHANGED <<queue, nextRow>>
    ELSE /\ queue' = queue \cup
              {[id |-> nextRow, job |-> j, token |-> None, expired |-> FALSE]}
         /\ nextRow' = nextRow + 1

\* claimed_at IS NULL OR claimed_at < now - maxAge
Claimable(r) == r.token = None \/ r.expired

Oldest(r) == Claimable(r) /\ \A q \in queue : Claimable(q) => r.id <= q.id

\* Dequeue's UPDATE of the row it selected.
Claim(r, tok) ==
    /\ queue' = (queue \ {r}) \cup {[r EXCEPT !.token = tok, !.expired = FALSE]}
    /\ UNCHANGED nextRow

\* Fault-seeded form of Holds: WHERE id=? without AND claim_token=?.
HoldsById(r, id, tok) == r.id = id

\* WHERE id=? AND claim_token=?
Holds(r, id, tok) == r.id = id /\ r.token = tok

\* Ack and Nack of a row claimed by someone else change nothing
\* (ErrClaimMismatch).
Ack(id, tok) ==
    /\ queue' = {r \in queue : ~Holds(r, id, tok)}
    /\ UNCHANGED nextRow

Nack(id, tok) ==
    /\ queue' = {IF Holds(r, id, tok)
                 THEN [r EXCEPT !.token = None, !.expired = FALSE] ELSE r : r \in queue}
    /\ UNCHANGED nextRow

\* The clock passes claimed_at + maxAge.
Expire(r) ==
    /\ r.token # None /\ ~r.expired
    /\ queue' = (queue \ {r}) \cup {[r EXCEPT !.expired = TRUE]}
    /\ UNCHANGED nextRow
=============================================================================
