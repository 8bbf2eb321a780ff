--------------------------- MODULE AuditMigration ----------------------------
(***************************************************************************)
(* What opening the audit log does to a table of an earlier version        *)
(* (Log.migrate, api/internal/audit/audit.go): it adds a column, sees to   *)
(* the trigger that refuses updates, and gives the rows that have none     *)
(* their hashes.  Every statement commits on its own, the process may die  *)
(* between any two of them, and the next start finds what it left.         *)
(*                                                                         *)
(* A hash is the row it is the hash of; 0 is the empty hash.               *)
(***************************************************************************)
EXTENDS Integers, FiniteSets

CONSTANTS OldRows,   \* how many rows the earlier version wrote
          MaxStops   \* bound: crashes and failing statements

ASSUME MigrationAssumption == OldRows \in Nat /\ MaxStops \in Nat

VARIABLES column,    \* s3_etag is there
          trigger,   \* the trigger on updates: none, of the old shape, or of the new
          prevHash,  \* [Row -> 0..OldRows], prev_hash
          hashed,    \* rows whose hash is set
          opener,    \* the migration under way
          stops      \* crashes and failures so far

migrationVars == <<column, trigger, prevHash, hashed, opener, stops>>

Row == 1..OldRows

\* todo  rows found without a hash      prev  the hash the next of them links to
\* unguarded  the deferred CREATE TRIGGER failed, and its error was dropped
Opener == [pc: {"down", "column", "trigger", "create", "select", "last", "drop",
                "update", "restore", "serving"},
           todo: SUBSET Row, prev: 0..OldRows, unguarded: BOOLEAN]

Down == [pc |-> "down", todo |-> {}, prev |-> 0, unguarded |-> FALSE]

\* Scaffolds wrote no hashes; deployments before s3_etag had the old trigger.
MigrationInit ==
    /\ column \in BOOLEAN
    /\ trigger \in {"none", "old", "new"}
    /\ prevHash = [r \in Row |-> 0]
    /\ hashed = {}
    /\ opener = Down
    /\ stops = 0

At(pc) == opener.pc = pc

Proceed(pc) == opener' = [opener EXCEPT !.pc = pc]

\* NewLog, at the start of the process.
Open ==
    /\ At("down")
    /\ Proceed("column")
    /\ UNCHANGED <<column, trigger, prevHash, hashed, stops>>

ensureColumnTEXT ==
    /\ At("column")
    /\ column' = TRUE
    /\ Proceed("trigger")
    /\ UNCHANGED <<trigger, prevHash, hashed, stops>>

\* A trigger of the old shape is dropped, and created in a statement of its own.
ensureNoUpdateTrigger ==
    /\ At("trigger")
    /\ trigger' = IF trigger = "old" THEN "none" ELSE trigger
    /\ Proceed(IF trigger = "new" THEN "select" ELSE "create")
    /\ UNCHANGED <<column, prevHash, hashed, stops>>

CreateTrigger ==
    /\ At("create")
    /\ trigger' = "new"
    /\ Proceed("select")
    /\ UNCHANGED <<column, prevHash, hashed, stops>>

\* Fault-seeded form of Unhashed: every row is given a hash again.
UnhashedAll == Row

\* WHERE hash = ''
Unhashed == Row \ hashed

SelectUnhashed ==
    /\ At("select")
    /\ opener' = [opener EXCEPT !.pc = IF Unhashed = {} THEN "serving" ELSE "last",
                                !.todo = Unhashed]
    /\ UNCHANGED <<column, trigger, prevHash, hashed, stops>>

\* lastHashLocked: the hash of the row of the greatest id, empty if it has none.
LastHash == IF OldRows \in hashed THEN OldRows ELSE 0

ReadLastHash ==
    /\ At("last")
    /\ opener' = [opener EXCEPT !.pc = "drop", !.prev = LastHash]
    /\ UNCHANGED <<column, trigger, prevHash, hashed, stops>>

DropTrigger ==
    /\ At("drop")
    /\ trigger' = "none"
    /\ Proceed("update")
    /\ UNCHANGED <<column, prevHash, hashed, stops>>

\* The UPDATE of the next row, in the order of the ids.
UpdateRow ==
    /\ At("update")
    /\ \E r \in opener.todo :
         /\ \A s \in opener.todo : r <= s
         /\ prevHash' = [prevHash EXCEPT ![r] = opener.prev]
         /\ hashed' = hashed \cup {r}
         /\ opener' = [opener EXCEPT !.pc = IF opener.todo = {r} THEN "restore" ELSE "update",
                                     !.todo = @ \ {r}, !.prev = r]
    /\ UNCHANGED <<column, trigger, stops>>

\* Fault-seeded form of Restored: the deferred statement is forgotten.
RestoredNever == trigger

\* The deferred CREATE TRIGGER.
Restored == "new"

RestoreTrigger ==
    /\ At("restore")
    /\ trigger' = Restored
    /\ Proceed("serving")
    /\ UNCHANGED <<column, prevHash, hashed, stops>>

\* It fails: the server starts all the same.
RestoreFails ==
    /\ At("restore") /\ stops < MaxStops
    /\ stops' = stops + 1
    /\ opener' = [opener EXCEPT !.pc = "serving", !.unguarded = TRUE]
    /\ UNCHANGED <<column, trigger, prevHash, hashed>>

\* The UPDATE of a row fails: the deferred statement runs, NewLog returns the
\* error, and the server does not start.
UpdateFails ==
    /\ At("update") /\ stops < MaxStops
    /\ stops' = stops + 1
    /\ trigger' \in {Restored, trigger}
    /\ opener' = Down
    /\ UNCHANGED <<column, prevHash, hashed>>

\* The process dies, or a statement other than these two fails.
Stop ==
    /\ ~At("down") /\ stops < MaxStops
    /\ stops' = stops + 1
    /\ opener' = Down
    /\ UNCHANGED <<column, trigger, prevHash, hashed>>

MigrationNext ==
    \/ Open \/ ensureColumnTEXT \/ ensureNoUpdateTrigger \/ CreateTrigger
    \/ SelectUnhashed \/ ReadLastHash \/ DropTrigger \/ UpdateRow
    \/ RestoreTrigger \/ RestoreFails \/ UpdateFails \/ Stop

MigrationSpec == MigrationInit /\ [][MigrationNext]_migrationVars

----------------------------------------------------------------------------
(* Properties *)

\* The table and the migration hold what the code can put there.
MigrationTypeOK ==
    /\ column \in BOOLEAN
    /\ trigger \in {"none", "old", "new"}
    /\ prevHash \in [Row -> 0..OldRows]
    /\ hashed \subseteq Row
    /\ opener \in Opener
    /\ stops \in Nat

\* Every row that has a hash links to the one before it.
Linear == \A r \in hashed : prevHash[r] = r - 1

\* A server that serves has the column, a hash on every row, and the trigger
\* unless its very own start failed to put it back: whatever an earlier start
\* died in the middle of, this one has made good.  If none died, the rows form
\* one chain.  (After a crash among the updates they do not: the last row has no
\* hash yet, and the second start begins a second chain.)
ServedIsMigrated ==
    At("serving") =>
        /\ column /\ hashed = Row
        /\ trigger = "new" \/ opener.unguarded
        /\ stops = 0 => Linear

\* "We only run this on rows that have no hash, so the WORM contract is preserved
\* for hashed rows" (audit.go:265): over any number of interrupted starts, a row
\* that has been given its hash keeps it and its link.
HashedIsKept ==
    [][\A r \in hashed : r \in hashed' /\ prevHash'[r] = prevHash[r]]_migrationVars
=============================================================================
