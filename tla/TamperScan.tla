----------------------------- MODULE TamperScan -----------------------------
(***************************************************************************)
(* The tamper detector (api/internal/audit/tamperdetect): a pass that goes *)
(* through the audit log in pages while appends go on, looks for gaps in   *)
(* the ids, and compares each row with its object in the mirror.           *)
(*                                                                         *)
(* The report has counters and a list of findings.  The list stops at      *)
(* MaxFindings = 256 (appendFinding), and beyond it only the counters go   *)
(* on.  `found` is all that was found: in a pass that finds more, what is  *)
(* said of it below is true of the counters and not of the list.           *)
(***************************************************************************)
EXTENDS AuditLog, FiniteSets

CONSTANTS Home,      \* the Log in whose process the detector runs
          BatchSize  \* rows of a page

ASSUME ScanAssumption == Home \in Log /\ BatchSize \in Nat \ {0}

VARIABLES scan,  \* the detector, see Scan
          start  \* history: what was there when the pass began, see Start

scanVars == <<logVars, scan, start>>

ScanPc == {"idle", "fetch", "rows", "report"}

RowMeta == [entry: Entry, id: Nat, etag: BOOLEAN]

FindingKind == {"missing", "mismatch", "read_error", "gap"}

\* RowID and Kind.
Finding == [id: Nat, kind: FindingKind]

\* after: the cursor; prev: the last id seen, 0 before the first row; full: the
\* page had BatchSize rows; failed: Check returns an error, not a report.
Scan == [pc: ScanPc, page: SUBSET RowMeta, after: Nat, prev: Nat, full: BOOLEAN,
         found: SUBSET Finding, failed: BOOLEAN]

Idle == [pc |-> "idle", page |-> {}, after |-> 0, prev |-> 0, full |-> FALSE,
         found |-> {}, failed |-> FALSE]

\* A row without a sound copy, and two rows with none but lost ones between.
Damaged(e) == Present(e) /\ mirror[e] # "good"

Gap(e, f) == Precedes(e, f) /\ row[e].id + 1 # row[f].id

Start == [open: SUBSET Entry, damaged: SUBSET Entry, gaps: SUBSET (Entry \X Entry)]

\* open: the calls that had not returned; damaged: the others without a copy.
Now == [open |-> {e \in Entry : ~At(e, "done")},
        damaged |-> {e \in Entry : Damaged(e) /\ At(e, "done")},
        gaps |-> {p \in Entry \X Entry : Present(p[2]) /\ Gap(p[1], p[2])}]

ScanInit == LogInit /\ scan = Idle /\ start = Now

----------------------------------------------------------------------------
(* Detector.Check *)

\* One pass at boot and one for every tick.
StartPass ==
    /\ scan.pc = "idle"
    /\ scan' = [Idle EXCEPT !.pc = "fetch"]
    /\ start' = Now
    /\ UNCHANGED logVars

\* Fault-seeded form of After: the cursor row is read again.
AfterInclusive(e) == Present(e) /\ row[e].id >= scan.after

\* id > ?
After(e) == Present(e) /\ row[e].id > scan.after

\* ORDER BY id ASC LIMIT ?
Page == {e \in Entry : After(e) /\
            Cardinality({f \in Entry : After(f) /\ row[f].id <= row[e].id}) <= BatchSize}

Meta(e) == [entry |-> e, id |-> row[e].id, etag |-> row[e].etag]

FetchPage ==
    /\ scan.pc = "fetch"
    /\ scan' = [scan EXCEPT !.page = {Meta(e) : e \in Page},
                            !.full = (Cardinality(Page) = BatchSize),
                            !.pc = IF Page = {} THEN "report" ELSE "rows"]
    /\ UNCHANGED <<logVars, start>>

\* The query or the iteration fails, and Check with it.
ScanFails ==
    /\ scan.pc \in {"fetch", "rows"} /\ "read" \in Faults
    /\ scan' = [Idle EXCEPT !.pc = "report", !.failed = TRUE]
    /\ UNCHANGED <<logVars, start>>

\* The next row of the page.
Next1(m) == m \in scan.page /\ \A n \in scan.page : m.id <= n.id

\* Fault-seeded form of Continuity: it starts afresh with every page.
ContinuityPerPage(m) ==
    IF scan.prev = 0 \/ scan.prev = scan.after \/ m.id = scan.prev + 1 THEN {}
    ELSE {[id |-> scan.prev + 1, kind |-> "gap"]}

Continuity(m) ==
    IF scan.prev = 0 \/ m.id = scan.prev + 1 THEN {}
    ELSE {[id |-> scan.prev + 1, kind |-> "gap"]}

\* GET and rehash.
Rehash(m) ==
    CASE mirror[m.entry] = "none" -> {[id |-> m.id, kind |-> "missing"]}
      [] mirror[m.entry] = "altered" -> {[id |-> m.id, kind |-> "mismatch"]}
      [] OTHER -> {}

\* Fault-seeded form of CheckRow: a row without an ETag does not match its object.
CheckRowNoFallback(m) ==
    IF m.etag THEN Rehash(m) ELSE {[id |-> m.id, kind |-> "mismatch"]}

\* checkRow: HEAD first when the row has an ETag; an altered object has another.
CheckRow(m) ==
    IF m.etag /\ mirror[m.entry] = "none" THEN {[id |-> m.id, kind |-> "missing"]}
    ELSE IF m.etag /\ mirror[m.entry] = "good" THEN {}
    ELSE Rehash(m)

\* Without a reader there is nothing to compare with.
HasReader == Home \in Streams

Seen(m, findings) ==
    scan' = [scan EXCEPT !.page = @ \ {m}, !.prev = m.id,
                         !.found = @ \cup Continuity(m) \cup findings]

ScanRow ==
    /\ scan.pc = "rows"
    /\ \E m \in scan.page : Next1(m) /\ Seen(m, IF HasReader THEN CheckRow(m) ELSE {})
    /\ UNCHANGED <<logVars, start>>

\* HEAD, if it is tried, fails and GET does too.
ScanRowUnread ==
    /\ scan.pc = "rows" /\ HasReader /\ "read" \in Faults
    /\ \E m \in scan.page : Next1(m) /\ Seen(m, {[id |-> m.id, kind |-> "read_error"]})
    /\ UNCHANGED <<logVars, start>>

\* A short page is the last one.
AfterPage == IF scan.full THEN "fetch" ELSE "report"

EndPage ==
    /\ scan.pc = "rows" /\ scan.page = {}
    /\ scan' = [scan EXCEPT !.pc = AfterPage, !.after = scan.prev]
    /\ UNCHANGED <<logVars, start>>

\* runOnce alerts unless the report is clean, and waits for the next tick.
EndPass ==
    /\ scan.pc = "report"
    /\ scan' = Idle
    /\ UNCHANGED <<logVars, start>>

DetectorStep == StartPass \/ FetchPage \/ ScanRow \/ EndPage \/ EndPass

\* The detector dies with the process it runs in.
CrashWith(l) ==
    /\ Crash(l)
    /\ IF l = Home THEN scan' = Idle ELSE UNCHANGED scan
    /\ UNCHANGED start

ScanNext ==
    \/ LogNext /\ UNCHANGED <<scan, start>>
    \/ \E l \in Log : CrashWith(l)
    \/ DetectorStep \/ ScanFails \/ ScanRowUnread

ScanSpec == ScanInit /\ [][ScanNext]_scanVars

----------------------------------------------------------------------------

\* One for the detector: what it holds, and that its cursor follows its rows.
ScanTypeOK ==
    /\ scan \in Scan /\ start \in Start
    /\ scan.prev < nextId /\ scan.after <= scan.prev
    /\ \A m \in scan.page : m.id > scan.prev

Reported(id, kinds) == \E f \in scan.found : f.id = id /\ f.kind \in kinds

\* A finding is never made up by the appends that go on during a pass
\* (tamperdetect.go:541-572): a gap is reported only at the id of a lost row
\* (ids are not lost to failed statements; see AuditLog about transactions),
\* and a row whose Append had returned before the pass began only when its
\* copy is not sound.
NoFalseAlarm ==
    \A f \in scan.found : \E e \in Entry :
        /\ row[e].id = f.id
        /\ f.kind = "gap" => row[e].gone
        /\ f.kind \in {"missing", "mismatch"} => mirror[e] # "good" \/ e \in start.open

\* A pass that ends with a report has reported all that was wrong when it began
\* and still is, also across the boundary of two pages (tamperdetect.go:471-513).
\* Reported means counted, and listed among the first MaxFindings.
PassIsThorough ==
    scan.pc = "report" /\ ~scan.failed =>
        /\ \A e \in start.damaged : HasReader /\ Present(e) =>
              Reported(row[e].id, {"missing", "mismatch", "read_error"})
        /\ \A p \in start.gaps : Present(p[1]) /\ Present(p[2]) =>
              Reported(row[p[1]].id + 1, {"gap"})
=============================================================================
