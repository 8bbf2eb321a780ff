------------------------------ MODULE AuditLog ------------------------------
(***************************************************************************)
(* The audit log (api/internal/audit/audit.go): a table whose rows are     *)
(* chained by hashes, and the write-once mirror each row is streamed to.   *)
(*                                                                         *)
(* A hash covers the contents of a row and the hash of the row before it;  *)
(* the model lets the entry stand for it, so that `prev` is the entry a    *)
(* row was chained to.  A Log is one instance of audit.Log with its own    *)
(* mutex: each process that opens the database has one.                    *)
(*                                                                         *)
(* Every INSERT is a transaction of its own: one that fails is undone with *)
(* the id it took.  The comment of Append (audit.go:299-308) warns that a  *)
(* transaction of a caller, rolled back around it, would use the id up and *)
(* leave a gap for good, and forbids it.  No caller in the repository has  *)
(* one, and the model has no such step.                                    *)
(***************************************************************************)
EXTENDS Naturals

CONSTANTS Entry,       \* calls of Append, each with its entry
          Log,         \* instances of audit.Log
          LogOf,       \* [Entry -> Log]
          Streams,     \* the instances that have a WORM streamer
          None,        \* no entry: a mutex nobody holds, the hash before the first row
          Faults,      \* the kinds of fault that may happen
          FaultBudget  \* how many of them there may be

\* What may go wrong.
\*   db      a statement fails, or its answer is lost
\*   put     PutEntry fails, or its answer is lost
\*   crash   the process of a Log dies
\*   object  an object of the mirror is lost or altered
\*   row     a row is lost from the table (a restored or edited file)
\*   read    the detector cannot read the table or an object; any number of times
FaultKind == {"db", "put", "crash", "object", "row", "read"}

ASSUME AuditAssumption ==
    /\ None \notin Entry
    /\ LogOf \in [Entry -> Log]
    /\ Streams \subseteq Log
    /\ Faults \subseteq FaultKind
    /\ FaultBudget \in Nat

VARIABLES row,     \* [Entry -> Row], the audit_log table
          nextId,  \* AUTOINCREMENT
          append,  \* [Entry -> Frame], the calls
          mu,      \* [Log -> Entry \cup {None}], the mutexes
          mirror,  \* [Entry -> Object], the cold store
          faults   \* what is left of FaultBudget

logVars == <<row, nextId, append, mu, mirror, faults>>

\* id 0: the row was never written.  gone: it was, and is no longer there.
Row == [id: Nat, prev: Entry \cup {None}, etag: BOOLEAN, gone: BOOLEAN]

NoRow == [id |-> 0, prev |-> None, etag |-> FALSE, gone |-> FALSE]

Object == {"none", "good", "altered"}

AppendPc == {"new", "last", "insert", "put", "etag", "done"}

Frame == [pc: AppendPc, prev: Entry \cup {None}]

LogInit ==
    /\ row = [e \in Entry |-> NoRow]
    /\ nextId = 1
    /\ append = [e \in Entry |-> [pc |-> "new", prev |-> None]]
    /\ mu = [l \in Log |-> None]
    /\ mirror = [e \in Entry |-> "none"]
    /\ faults = FaultBudget

Fault(kind) ==
    /\ kind \in Faults /\ faults > 0
    /\ faults' = faults - 1

Present(e) == row[e].id # 0 /\ ~row[e].gone

\* ORDER BY id DESC LIMIT 1
IsLast(e) == Present(e) /\ \A f \in Entry : Present(f) => row[f].id <= row[e].id

At(e, pc) == append[e].pc = pc

Goto(e, pc) == append' = [append EXCEPT ![e].pc = pc]

\* Append returns, with or without an error.
Return(e) ==
    /\ Goto(e, "done")
    /\ mu' = [mu EXCEPT ![LogOf[e]] = None]

----------------------------------------------------------------------------
(* Log.Append *)

\* Fault-seeded form of Free: Append does not wait for the mutex.
FreeAlways(l) == TRUE

Free(l) == mu[l] = None

Lock(e) ==
    /\ At(e, "new") /\ Free(LogOf[e])
    /\ mu' = [mu EXCEPT ![LogOf[e]] = e]
    /\ Goto(e, "last")
    /\ UNCHANGED <<row, nextId, mirror, faults>>

\* lastHashLocked
LastHash(e) ==
    /\ At(e, "last")
    /\ \E p \in Entry \cup {None} :
          /\ IF p = None THEN \A f \in Entry : ~Present(f) ELSE IsLast(p)
          /\ append' = [append EXCEPT ![e] = [pc |-> "insert", prev |-> p]]
    /\ UNCHANGED <<row, nextId, mu, mirror, faults>>

\* Fault-seeded form of WriteRow: ids are not handed out one after the other.
WriteRowSameId(e) ==
    /\ row' = [row EXCEPT ![e] = [NoRow EXCEPT !.id = nextId, !.prev = append[e].prev]]
    /\ UNCHANGED nextId

WriteRow(e) ==
    /\ row' = [row EXCEPT ![e] = [NoRow EXCEPT !.id = nextId, !.prev = append[e].prev]]
    /\ nextId' = nextId + 1

Insert(e) ==
    /\ At(e, "insert")
    /\ WriteRow(e)
    /\ IF LogOf[e] \in Streams THEN Goto(e, "put") /\ UNCHANGED mu ELSE Return(e)
    /\ UNCHANGED <<mirror, faults>>

\* The SELECT or the INSERT fails; the INSERT may have been committed, and has
\* otherwise taken no id.
WriteFails(e) ==
    /\ append[e].pc \in {"last", "insert"}
    /\ Fault("db")
    /\ \/ UNCHANGED <<row, nextId>>
       \/ At(e, "insert") /\ WriteRow(e)
    /\ Return(e)
    /\ UNCHANGED mirror

\* PutEntry; a store that surfaces no ETag leaves s3_etag NULL.
PutEntry(e) ==
    /\ At(e, "put")
    /\ mirror' = [mirror EXCEPT ![e] = "good"]
    /\ \/ Goto(e, "etag") /\ UNCHANGED mu
       \/ Return(e)
    /\ UNCHANGED <<row, nextId, faults>>

PutFails(e) ==
    /\ At(e, "put")
    /\ Fault("put")
    /\ \/ UNCHANGED mirror
       \/ mirror' = [mirror EXCEPT ![e] = "good"]
    /\ Return(e)
    /\ UNCHANGED <<row, nextId>>

SetEtag(e) ==
    /\ At(e, "etag")
    /\ row' = [row EXCEPT ![e].etag = Present(e)]
    /\ Return(e)
    /\ UNCHANGED <<nextId, mirror, faults>>

EtagFails(e) ==
    /\ At(e, "etag")
    /\ Fault("db")
    /\ Return(e)
    /\ UNCHANGED <<row, nextId, mirror>>

----------------------------------------------------------------------------
(* What happens to a process, to the table and to the mirror from outside *)

InAppend(e) == append[e].pc \notin {"new", "done"}

\* Calls that have not begun are made to the next process.
Crash(l) ==
    /\ Fault("crash")
    /\ append' = [e \in Entry |-> IF LogOf[e] = l /\ InAppend(e)
                                  THEN [append[e] EXCEPT !.pc = "done"] ELSE append[e]]
    /\ mu' = [mu EXCEPT ![l] = None]
    /\ UNCHANGED <<row, nextId, mirror>>

DamageObject(e) ==
    /\ mirror[e] = "good"
    /\ Fault("object")
    /\ \E o \in {"none", "altered"} : mirror' = [mirror EXCEPT ![e] = o]
    /\ UNCHANGED <<row, nextId, append, mu>>

LoseRow(e) ==
    /\ Present(e)
    /\ Fault("row")
    /\ row' = [row EXCEPT ![e].gone = TRUE]
    /\ UNCHANGED <<nextId, append, mu, mirror>>

AppendStep(e) ==
    \/ LastHash(e) \/ Insert(e) \/ WriteFails(e)
    \/ PutEntry(e) \/ PutFails(e) \/ SetEtag(e) \/ EtagFails(e)

Outside(e) == DamageObject(e) \/ LoseRow(e)

LogNext == \E e \in Entry : Lock(e) \/ AppendStep(e) \/ Outside(e)

----------------------------------------------------------------------------
(* Log.Verify *)

Between(e, f, g) == row[e].id < row[f].id /\ row[f].id < row[g].id

\* p is the row Verify reads just before e.
Precedes(p, e) ==
    /\ Present(p) /\ row[p].id < row[e].id
    /\ ~\E f \in Entry : Present(f) /\ Between(p, f, e)

Verify ==
    \A e \in Entry : Present(e) =>
        IF row[e].prev = None
        THEN ~\E f \in Entry : Present(f) /\ row[f].id < row[e].id
        ELSE Precedes(row[e].prev, e)

\* Every id in use has been handed out, and to one row.
LogTypeOK ==
    /\ row \in [Entry -> Row] /\ nextId \in Nat \ {0}
    /\ append \in [Entry -> Frame]
    /\ mu \in [Log -> Entry \cup {None}]
    /\ mirror \in [Entry -> Object]
    /\ faults \in 0..FaultBudget
    /\ \A e \in Entry : row[e].id < nextId

\* Append serialises on the chain (audit.go:77, 290): as long as no row is
\* lost, Verify finds every row chained to the one before it, whatever calls,
\* failing statements and crashes came in between.
ChainIsLinear == (\A e \in Entry : ~row[e].gone) => Verify
=============================================================================
