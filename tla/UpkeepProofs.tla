----------------------------- MODULE UpkeepProofs ----------------------------
(***************************************************************************)
(* Theorems about StatusCache, for every number of probes and nodes and    *)
(* every cache and fetch time, and about AuditMigration, for every number  *)
(* of rows and of interrupted starts.                                      *)
(***************************************************************************)
EXTENDS StatusCache, AuditMigration, FiniteSetTheorems, TLAPS

GetFrame == [pc: {"idle", "fetch", "store", "reply"}, fleet: Health \cup {None}, for: 0..FetchMax]

\* What a frame may hold, with the ages as they are.
FrameIsRecent(f, ages) ==
    /\ f.pc = "store" => f.fleet \in Health /\ ages[f.fleet] <= f.for
    /\ f.pc = "reply" /\ f.fleet # None => ages[f.fleet] <= CacheFor + FetchMax

\* A snapshot on its way was true when its fetch began; the cached one was true
\* no longer before its storing than a fetch lasts.
SnapshotInv ==
    /\ seen[Fleet] = 0
    /\ last.fleet # None => seen[last.fleet] <= last.age + FetchMax
    /\ \A g \in Get : FrameIsRecent(get[g], seen)

StatusInv == StatusTypeOK /\ SnapshotInv

\* Counting the workers listed, and those of them that are OK, is asking whether
\* there are any, and whether all of them are OK.
LEMMA TranslateIsFleet ==
    ASSUME listed \subseteq Node
    PROVE  translate(listed, up) = Fleet /\ Fleet \in Health
<1> DEFINE ok == listed \cap up
<1>1. IsFiniteSet(listed) /\ ok \subseteq listed
  BY StatusAssumption, FS_Subset
<1>2. Cardinality(listed) = 0 <=> listed = {}
  BY <1>1, FS_EmptySet
<1>3. Cardinality(ok) = Cardinality(listed) <=> listed \subseteq up
  <2>1. Cardinality(ok) = Cardinality(listed) => ok = listed
    BY <1>1, FS_Subset
  <2>2. ok = listed <=> listed \subseteq up
    OBVIOUS
  <2> QED BY <2>1, <2>2
<1> QED BY <1>2, <1>3 DEF translate, Fleet, Health

LEMMA OlderTyped ==
    ASSUME NEW age \in 0..Oldest
    PROVE  Older(age) \in 0..Oldest /\ Older(age) <= age + 1 /\ age <= Older(age)
BY StatusAssumption DEF Older, Oldest

\* A step of a call, other than Store.
LEMMA FrameStep ==
    ASSUME StatusInv, NEW g \in Get, NEW frame \in GetFrame, FrameIsRecent(frame, seen),
           get' = [get EXCEPT ![g] = frame], UNCHANGED <<listed, up, reachable, seen, last>>
    PROVE  StatusInv'
<1>1. StatusTypeOK'
  BY DEF StatusInv, StatusTypeOK, GetFrame
<1>2. Fleet' = Fleet
  BY DEF Fleet
<1>3. \A h \in Get : FrameIsRecent(get'[h], seen)
  BY DEF StatusInv, StatusTypeOK, SnapshotInv
<1> QED BY <1>1, <1>2, <1>3 DEF StatusInv, SnapshotInv, FrameIsRecent

LEMMA GetKeeps ==
    ASSUME StatusInv, NEW g \in Get, GetStep(g)
    PROVE  StatusInv'
<1>t. /\ get[g] \in GetFrame /\ FrameIsRecent(get[g], seen) /\ 0 \in 0..FetchMax
      /\ last \in [fleet: Health \cup {None}, age: 0..Oldest]
      /\ seen \in [Health -> 0..Oldest] /\ listed \subseteq Node
  BY StatusAssumption DEF StatusInv, StatusTypeOK, SnapshotInv, GetFrame
<1>i. Idle \in GetFrame /\ Idle.pc = "idle"
  BY <1>t DEF Idle, GetFrame
<1>r. ASSUME NEW fleet \in Health \cup {None} PROVE Reply(fleet) \in GetFrame
  BY <1>t DEF Reply, GetFrame
<1>1. CASE ReadCache(g)
  <2>1. CASE IsFresh
    <3>1. seen[last.fleet] <= CacheFor + FetchMax
      BY <1>t, <2>1, StatusAssumption DEF IsFresh, StatusInv, SnapshotInv, Oldest
    <3>2. FrameIsRecent(Reply(last.fleet), seen)
      BY <3>1 DEF FrameIsRecent, Reply
    <3> QED BY <1>1, <1>r, <1>t, <2>1, <3>2, FrameStep DEF ReadCache, Goto
  <2>2. CASE ~IsFresh
    <3> DEFINE frame == [Idle EXCEPT !.pc = "fetch"]
    <3>1. frame \in GetFrame /\ frame.pc = "fetch"
      BY <1>t DEF Idle, GetFrame
    <3>2. FrameIsRecent(frame, seen)
      BY <3>1 DEF FrameIsRecent
    <3> QED BY <1>1, <2>2, <3>1, <3>2, FrameStep DEF ReadCache, Goto
  <2> QED BY <2>1, <2>2
<1>2. CASE Fetch(g)
  <2> DEFINE frame == [get[g] EXCEPT !.pc = "store", !.fleet = translate(listed, up)]
  <2>1. translate(listed, up) = Fleet /\ Fleet \in Health
    BY <1>t, TranslateIsFleet
  <2>2. frame \in GetFrame /\ frame.pc = "store" /\ frame.fleet = Fleet /\ frame.for \in 0..FetchMax
    BY <1>t, <2>1 DEF GetFrame
  <2>3. FrameIsRecent(frame, seen)
    BY <2>1, <2>2 DEF FrameIsRecent, StatusInv, SnapshotInv
  <2> QED BY <1>2, <2>2, <2>3, FrameStep DEF Fetch, Goto
<1>3. CASE FetchFails(g)
  <2>1. FrameIsRecent(Reply(None), seen)
    BY DEF FrameIsRecent, Reply
  <2> QED BY <1>3, <1>r, <2>1, FrameStep DEF FetchFails, Goto
<1>4. CASE Store(g)
  <2> DEFINE fleet == get[g].fleet
  <2>1. fleet \in Health /\ seen[fleet] <= FetchMax /\ seen[fleet] \in Nat
    BY <1>4, <1>t, StatusAssumption DEF Store, FrameIsRecent, GetFrame, Oldest
  <2>2. last' = [fleet |-> fleet, age |-> 0] /\ get' = [get EXCEPT ![g] = Reply(fleet)]
        /\ listed' = listed /\ up' = up /\ reachable' = reachable /\ seen' = seen
    BY <1>4 DEF Store, Goto
  <2> HIDE DEF fleet
  <2>3. FrameIsRecent(Reply(fleet), seen)
    BY <2>1, StatusAssumption DEF FrameIsRecent, Reply
  <2>4. StatusTypeOK'
    BY <1>r, <2>1, <2>2, StatusAssumption DEF StatusInv, StatusTypeOK, GetFrame, Oldest
  <2>5. Fleet' = Fleet
    BY <2>2 DEF Fleet
  <2>6. last'.fleet = fleet /\ last'.age = 0
    BY <2>2
  <2>7. \A h \in Get : FrameIsRecent(get'[h], seen)
    BY <2>2, <2>3 DEF StatusInv, StatusTypeOK, SnapshotInv
  <2>8. \A h \in Get : FrameIsRecent(get[h], seen)'
    BY <2>2, <2>7 DEF FrameIsRecent
  <2>9. seen'[last'.fleet] <= last'.age + FetchMax
    BY <2>1, <2>2, <2>6, StatusAssumption
  <2> QED BY <2>2, <2>4, <2>5, <2>8, <2>9 DEF StatusInv, SnapshotInv
<1>5. CASE Answered(g)
  <2>1. FrameIsRecent(Idle, seen)
    BY <1>i DEF FrameIsRecent
  <2> QED BY <1>5, <1>i, <2>1, FrameStep DEF Answered, Goto
<1> QED BY <1>1, <1>2, <1>3, <1>4, <1>5 DEF GetStep

LEMMA FleetTurnsKeeps ==
    ASSUME StatusInv, HealthTurns \/ ListingTurns
    PROVE  StatusInv'
<1>1. listed' \subseteq Node /\ up' \subseteq listed' \cup {Gateway}
  <2>1. CASE HealthTurns
    BY <2>1 DEF HealthTurns, StatusInv, StatusTypeOK
  <2>2. CASE ListingTurns
    BY <2>2 DEF ListingTurns, StatusInv, StatusTypeOK
  <2> QED BY <2>1, <2>2
<1>2. Fleet' \in Health
  BY <1>1 DEF Fleet, Health
<1>3. seen' = [seen EXCEPT ![Fleet'] = 0] /\ seen \in [Health -> 0..Oldest]
      /\ reachable' = reachable /\ last' = last /\ get' = get
  BY DEF HealthTurns, ListingTurns, StatusInv, StatusTypeOK
<1>4. seen' \in [Health -> 0..Oldest] /\ seen'[Fleet'] = 0 /\ \A h \in Health : seen'[h] <= seen[h]
  BY <1>2, <1>3, StatusAssumption DEF Oldest
<1>5. StatusTypeOK'
  BY <1>1, <1>3, <1>4 DEF StatusInv, StatusTypeOK
<1>6. ASSUME NEW g \in Get PROVE FrameIsRecent(get[g], seen')
  <2>1. FrameIsRecent(get[g], seen) /\ get[g] \in GetFrame
    BY DEF StatusInv, StatusTypeOK, SnapshotInv, GetFrame
  <2> QED BY <1>3, <1>4, <2>1, StatusAssumption DEF FrameIsRecent, GetFrame, Oldest
<1>7. last.fleet # None => seen'[last.fleet] <= last.age + FetchMax
  <2>1. last \in [fleet: Health \cup {None}, age: 0..Oldest]
        /\ (last.fleet # None => seen[last.fleet] <= last.age + FetchMax)
    BY DEF StatusInv, StatusTypeOK, SnapshotInv
  <2> QED BY <1>3, <1>4, <2>1, StatusAssumption DEF Oldest
<1>8. \A g \in Get : FrameIsRecent(get[g], seen)'
  BY <1>3, <1>6 DEF FrameIsRecent
<1> QED BY <1>3, <1>4, <1>5, <1>7, <1>8 DEF StatusInv, SnapshotInv

LEMMA TickKeeps ==
    ASSUME StatusInv, Tick
    PROVE  StatusInv'
<1>t. /\ seen \in [Health -> 0..Oldest] /\ last \in [fleet: Health \cup {None}, age: 0..Oldest]
      /\ \A g \in Get : get[g] \in GetFrame /\ get[g].for < FetchMax /\ FrameIsRecent(get[g], seen)
      /\ listed' = listed /\ listed \subseteq Node
      /\ up' = up /\ up \subseteq listed \cup {Gateway} /\ reachable' = reachable /\ reachable \in BOOLEAN
      /\ 0 \in 0..FetchMax /\ 0 \in 0..Oldest
  BY StatusAssumption DEF StatusInv, StatusTypeOK, SnapshotInv, GetFrame, Tick, Oldest
<1>f. Fleet' = Fleet /\ Fleet \in Health
  BY <1>t, TranslateIsFleet DEF Fleet
<1>1. /\ seen' \in [Health -> 0..Oldest] /\ seen'[Fleet] = 0
      /\ \A h \in Health : seen'[h] = 0 \/ seen'[h] = Older(seen[h])
  <2>1. seen' = [h \in Health |-> IF h = Fleet THEN 0 ELSE Older(seen[h])]
    BY DEF Tick
  <2>2. \A h \in Health : Older(seen[h]) \in 0..Oldest
    BY <1>t, OlderTyped
  <2> QED BY <1>f, <1>t, <2>1, <2>2
<1>2. /\ last' \in [fleet: Health \cup {None}, age: 0..Oldest] /\ last'.fleet = last.fleet
      /\ last.fleet # None => last'.age = Older(last.age)
  <2> DEFINE age == IF last.fleet = None THEN 0 ELSE Older(last.age)
  <2>1. last' = [last EXCEPT !.age = age]
    BY DEF Tick
  <2>2. age \in 0..Oldest
    BY <1>t, OlderTyped
  <2>3. last.fleet # None => age = Older(last.age)
    OBVIOUS
  <2> HIDE DEF age
  <2> QED BY <1>t, <2>1, <2>2, <2>3
<1>3. ASSUME NEW g \in Get PROVE get'[g] \in GetFrame /\ FrameIsRecent(get'[g], seen')
  <2>1. get'[g] = IF get[g].pc \in {"idle", "reply"} THEN Idle ELSE [get[g] EXCEPT !.for = @ + 1]
    BY DEF Tick
  <2>2. CASE get[g].pc \in {"idle", "reply"}
    BY <1>t, <2>1, <2>2 DEF Idle, GetFrame, FrameIsRecent
  <2>3. CASE get[g].pc \notin {"idle", "reply"}
    <3> DEFINE f == [get[g] EXCEPT !.for = get[g].for + 1]
    <3>1. f \in GetFrame /\ f.pc = get[g].pc /\ f.fleet = get[g].fleet /\ f.for = get[g].for + 1
      BY <1>t, <2>3, StatusAssumption DEF GetFrame
    <3>2. get'[g] = f /\ f.pc # "reply"
      BY <2>1, <2>3, <3>1
    <3> HIDE DEF f
    <3>3. ASSUME f.pc = "store" PROVE f.fleet \in Health /\ seen'[f.fleet] <= f.for
      <4>1. f.fleet \in Health /\ seen[f.fleet] <= get[g].for /\ get[g].for \in 0..FetchMax
        BY <1>t, <3>1, <3>3 DEF FrameIsRecent, GetFrame
      <4>2. seen[f.fleet] \in 0..Oldest
        BY <1>t, <4>1
      <4>3. Older(seen[f.fleet]) \in 0..Oldest /\ Older(seen[f.fleet]) <= seen[f.fleet] + 1
        BY <4>2, OlderTyped
      <4>4. seen'[f.fleet] = 0 \/ seen'[f.fleet] = Older(seen[f.fleet])
        BY <1>1, <4>1
      <4> QED BY <3>1, <4>1, <4>2, <4>3, <4>4, StatusAssumption DEF Oldest
    <3> QED BY <3>1, <3>2, <3>3 DEF FrameIsRecent
  <2> QED BY <2>2, <2>3
<1>4. ASSUME last.fleet # None PROVE seen'[last.fleet] <= last'.age + FetchMax
  <2> DEFINE h == last.fleet
  <2>1. h \in Health /\ seen[h] <= last.age + FetchMax /\ last.age \in 0..Oldest /\ seen[h] \in 0..Oldest
    BY <1>4, <1>t DEF StatusInv, SnapshotInv
  <2>2. last'.age = Older(last.age) /\ (seen'[h] = 0 \/ seen'[h] = Older(seen[h]))
    BY <1>1, <1>2, <1>4, <2>1
  <2> HIDE DEF h
  <2>3. Older(seen[h]) <= Older(last.age) + FetchMax /\ 0 <= Older(last.age) + FetchMax
    BY <2>1, StatusAssumption DEF Older, Oldest
  <2>4. seen'[h] <= last'.age + FetchMax
    BY <2>2, <2>3
  <2> QED BY <2>4 DEF h
<1>5. \A g \in Get : FrameIsRecent(get[g], seen)'
  BY <1>3 DEF FrameIsRecent
<1>6. get' \in [Get -> GetFrame]
  <2>1. get' = [g \in Get |-> IF get[g].pc \in {"idle", "reply"} THEN Idle ELSE [get[g] EXCEPT !.for = @ + 1]]
    BY DEF Tick
  <2> QED BY <1>3, <2>1
<1>7. StatusTypeOK'
  BY <1>t, <1>1, <1>2, <1>6 DEF StatusTypeOK, GetFrame
<1> QED BY <1>f, <1>1, <1>2, <1>4, <1>5, <1>7 DEF StatusInv, SnapshotInv

LEMMA StatusInvariant == StatusSpec => []StatusInv
<1>1. StatusInit => StatusInv
  <2> SUFFICES ASSUME StatusInit PROVE StatusInv
    OBVIOUS
  <2>1. Fleet \in Health /\ 0 \in 0..Oldest /\ Oldest \in 0..Oldest /\ 0 \in 0..FetchMax
    BY StatusAssumption, TranslateIsFleet DEF StatusInit, Oldest
  <2>2. StatusTypeOK
    BY <2>1 DEF StatusInit, StatusTypeOK, Health, Idle
  <2>3. SnapshotInv
    BY <2>1 DEF StatusInit, SnapshotInv, FrameIsRecent, Health, Idle
  <2> QED BY <2>2, <2>3 DEF StatusInv
<1>2. ASSUME StatusInv, [StatusNext]_statusVars PROVE StatusInv'
  <2>1. CASE TunnelTurns
    BY <1>2, <2>1 DEF TunnelTurns, StatusInv, StatusTypeOK, SnapshotInv, Fleet, FrameIsRecent
  <2>2. CASE UNCHANGED statusVars
    BY <1>2, <2>2 DEF statusVars, StatusInv, StatusTypeOK, SnapshotInv, Fleet, FrameIsRecent
  <2> QED BY <1>2, <2>1, <2>2, GetKeeps, FleetTurnsKeeps, TickKeeps DEF StatusNext
<1> QED BY <1>1, <1>2, PTL DEF StatusSpec

\* The snapshot, its age and the frames of the probes keep their types (status.go).
THEOREM StatusTypeCorrect == StatusSpec => []StatusTypeOK
<1>1. StatusInv => StatusTypeOK
  BY DEF StatusInv
<1> QED BY <1>1, StatusInvariant, PTL

\* However many probes fetch at once, and however late the slowest stores what it
\* fetched, an answer was true of the fleet within CacheFor + FetchMax.
THEOREM AnswersAreRecent == StatusSpec => []AnswerIsRecent
<1>1. StatusInv => AnswerIsRecent
  BY DEF StatusInv, SnapshotInv, FrameIsRecent, AnswerIsRecent
<1> QED BY <1>1, StatusInvariant, PTL

----------------------------------------------------------------------------
(* The migration of the audit log *)

\* What each statement finds of those before it, whatever an earlier start left.
StartInv ==
    /\ opener.pc \notin {"down", "column"} => column
    /\ opener.pc \in {"last", "drop", "update"} => opener.todo = Row \ hashed /\ opener.todo # {}
    /\ opener.pc \in {"restore", "serving"} => hashed = Row
    /\ opener.pc \in {"select", "last", "drop"} => trigger = "new"
    /\ opener.pc = "serving" => trigger = "new" \/ opener.unguarded

\* The first start, uninterrupted, hashes the rows in the order of their ids.
FirstInv ==
    stops = 0 =>
        /\ Linear
        /\ opener.pc \notin {"update", "restore", "serving"} => hashed = {}
        /\ opener.pc = "drop" => opener.prev = 0
        /\ opener.pc = "update" => hashed = 1..opener.prev

MigrationInv == MigrationTypeOK /\ StartInv /\ FirstInv

LEMMA ProceedFrame ==
    ASSUME NEW pc \in {"down", "column", "trigger", "create", "select", "last", "drop",
                       "update", "restore", "serving"},
           opener \in Opener, Proceed(pc)
    PROVE  /\ opener' \in Opener /\ opener'.pc = pc /\ opener'.todo = opener.todo
           /\ opener'.prev = opener.prev /\ opener'.unguarded = opener.unguarded
BY DEF Proceed, Opener

\* A start that ends leaves the rows as they are.
LEMMA DownKeeps ==
    ASSUME MigrationInv, opener' = Down, trigger' \in {"none", "old", "new"}, stops' = stops + 1,
           UNCHANGED <<column, prevHash, hashed>>
    PROVE  MigrationInv'
<1>1. Down \in Opener /\ Down.pc = "down"
  BY MigrationAssumption DEF Down, Opener
<1>2. stops' \in Nat /\ stops' # 0
  BY DEF MigrationInv, MigrationTypeOK
<1> QED BY <1>1, <1>2 DEF MigrationInv, MigrationTypeOK, StartInv, FirstInv

LEMMA UpdateKeeps ==
    ASSUME MigrationInv, UpdateRow
    PROVE  MigrationInv'
<1>t. /\ opener \in Opener /\ opener.pc = "update" /\ prevHash \in [Row -> 0..OldRows] /\ hashed \subseteq Row
      /\ opener.todo = Row \ hashed /\ column
      /\ column' = column /\ trigger' = trigger /\ stops' = stops
  BY DEF MigrationInv, MigrationTypeOK, StartInv, UpdateRow, At
<1>1. PICK r \in opener.todo :
        /\ \A s \in opener.todo : r <= s
        /\ prevHash' = [prevHash EXCEPT ![r] = opener.prev]
        /\ hashed' = hashed \cup {r}
        /\ opener' = [opener EXCEPT !.pc = IF opener.todo = {r} THEN "restore" ELSE "update",
                                    !.todo = opener.todo \ {r}, !.prev = r]
  BY DEF UpdateRow
<1>2. r \in Row /\ r \notin hashed /\ r \in 0..OldRows /\ opener.prev \in 0..OldRows
  BY <1>1, <1>t, MigrationAssumption DEF Row, Opener
<1>3. /\ opener' \in Opener /\ opener'.todo = opener.todo \ {r} /\ opener'.prev = r
      /\ opener'.pc = IF opener.todo = {r} THEN "restore" ELSE "update"
  BY <1>1, <1>2, <1>t DEF Opener
<1>4. MigrationTypeOK'
  BY <1>1, <1>2, <1>3, <1>t DEF MigrationInv, MigrationTypeOK
<1>5. opener'.todo = Row \ hashed'
  BY <1>1, <1>3, <1>t
<1>6. StartInv'
  <2>1. CASE opener.todo = {r}
    <3>1. hashed' = Row /\ opener'.pc = "restore"
      BY <1>1, <1>3, <1>t, <2>1
    <3> QED BY <1>t, <3>1 DEF StartInv
  <2>2. CASE opener.todo # {r}
    <3>1. opener'.todo # {} /\ opener'.pc = "update"
      BY <1>1, <1>3, <2>2
    <3> QED BY <1>5, <1>t, <3>1 DEF StartInv
  <2> QED BY <2>1, <2>2
<1>7. FirstInv'
  <2> SUFFICES ASSUME stops = 0 PROVE FirstInv'
    BY <1>t DEF FirstInv
  <2>1. Linear /\ hashed = 1..opener.prev
    BY <1>t DEF MigrationInv, FirstInv
  <2>2. r = opener.prev + 1
    <3>1. opener.prev + 1 <= r
      BY <1>2, <2>1 DEF Row
    <3>2. opener.prev + 1 \in opener.todo
      <4>1. r \in 1..OldRows /\ opener.prev \in Nat /\ OldRows \in Nat
        BY <1>2, MigrationAssumption DEF Row
      <4>2. opener.prev + 1 \in 1..OldRows /\ opener.prev + 1 \notin 1..opener.prev
        BY <3>1, <4>1
      <4> QED BY <1>t, <2>1, <4>2 DEF Row
    <3> QED BY <1>1, <1>2, <3>1, <3>2 DEF Row
  <2>3. hashed' = 1..r
    BY <1>1, <1>2, <2>1, <2>2
  <2>4. Linear'
    <3>1. prevHash'[r] = r - 1 /\ \A s \in hashed : prevHash'[s] = prevHash[s]
      BY <1>1, <1>2, <1>t, <2>2 DEF Row
    <3> QED BY <1>1, <2>1, <3>1 DEF Linear
  <2>5. opener'.pc \in {"update", "restore"}
    BY <1>3
  <2> QED BY <1>3, <2>3, <2>4, <2>5 DEF FirstInv
<1> QED BY <1>4, <1>6, <1>7 DEF MigrationInv

LEMMA MigrationKeeps ==
    ASSUME MigrationInv, [MigrationNext]_migrationVars
    PROVE  MigrationInv'
<1>t. MigrationTypeOK /\ StartInv /\ FirstInv /\ opener \in Opener
  BY DEF MigrationInv, MigrationTypeOK
<1> USE DEF MigrationInv, At
<1>1. CASE Open \/ ensureColumnTEXT
  <2>1. opener'.pc \in {"column", "trigger"} /\ opener' \in Opener /\ opener.pc \in {"down", "column"}
    BY <1>1, <1>t, ProceedFrame DEF Open, ensureColumnTEXT
  <2>2. opener'.pc = "trigger" => column'
    BY <1>1, <1>t, ProceedFrame DEF Open, ensureColumnTEXT
  <2>3. column' \in BOOLEAN /\ UNCHANGED <<trigger, prevHash, hashed, stops>>
    BY <1>1, <1>t DEF Open, ensureColumnTEXT, MigrationTypeOK
  <2> QED BY <1>t, <2>1, <2>2, <2>3 DEF MigrationTypeOK, StartInv, FirstInv, Linear
<1>2. CASE ensureNoUpdateTrigger \/ CreateTrigger
  <2>1. /\ opener' \in Opener /\ opener.pc \in {"trigger", "create"}
        /\ \/ opener'.pc = "select" /\ trigger' = "new"
           \/ opener'.pc = "create" /\ trigger' \in {"none", "old", "new"}
    BY <1>2, <1>t, ProceedFrame DEF ensureNoUpdateTrigger, CreateTrigger, MigrationTypeOK
  <2>2. UNCHANGED <<column, prevHash, hashed, stops>>
    BY <1>2 DEF ensureNoUpdateTrigger, CreateTrigger
  <2> QED BY <1>t, <2>1, <2>2 DEF MigrationTypeOK, StartInv, FirstInv, Linear
<1>3. CASE SelectUnhashed
  <2>1. opener' = [opener EXCEPT !.pc = IF Unhashed = {} THEN "serving" ELSE "last", !.todo = Unhashed]
        /\ opener.pc = "select" /\ UNCHANGED <<column, trigger, prevHash, hashed, stops>>
    BY <1>3 DEF SelectUnhashed
  <2>2. /\ opener' \in Opener /\ opener'.todo = Row \ hashed
        /\ opener'.pc = IF Row \ hashed = {} THEN "serving" ELSE "last"
    BY <1>t, <2>1 DEF Opener, Unhashed
  <2>3. opener'.pc = "serving" => hashed = Row
    BY <1>t, <2>2 DEF MigrationTypeOK
  <2>4. stops = 0 => hashed = {} /\ Linear
    BY <1>t, <2>1 DEF FirstInv
  <2> QED BY <1>t, <2>1, <2>2, <2>3, <2>4 DEF MigrationTypeOK, StartInv, FirstInv, Linear
<1>4. CASE ReadLastHash
  <2>1. opener' = [opener EXCEPT !.pc = "drop", !.prev = LastHash]
        /\ opener.pc = "last" /\ UNCHANGED <<column, trigger, prevHash, hashed, stops>>
    BY <1>4 DEF ReadLastHash
  <2>2. LastHash \in 0..OldRows /\ (hashed = {} => LastHash = 0)
    BY MigrationAssumption DEF LastHash
  <2>3. opener' \in Opener /\ opener'.pc = "drop" /\ opener'.prev = LastHash /\ opener'.todo = opener.todo
    BY <1>t, <2>1, <2>2 DEF Opener
  <2> QED BY <1>t, <2>1, <2>2, <2>3 DEF MigrationTypeOK, StartInv, FirstInv, Linear
<1>5. CASE DropTrigger
  <2>1. /\ opener' \in Opener /\ opener'.pc = "update" /\ opener.pc = "drop" /\ trigger' = "none"
        /\ opener'.prev = opener.prev /\ opener'.todo = opener.todo
        /\ UNCHANGED <<column, prevHash, hashed, stops>>
    BY <1>5, <1>t, ProceedFrame DEF DropTrigger
  <2>2. 1..0 = {}
    OBVIOUS
  <2> QED BY <1>t, <2>1, <2>2 DEF MigrationTypeOK, StartInv, FirstInv, Linear
<1>6. CASE RestoreTrigger
  <2>1. opener' \in Opener /\ opener'.pc = "serving" /\ opener.pc = "restore" /\ trigger' = "new"
        /\ UNCHANGED <<column, prevHash, hashed, stops>>
    BY <1>6, <1>t, ProceedFrame DEF RestoreTrigger, Restored
  <2> QED BY <1>t, <2>1 DEF MigrationTypeOK, StartInv, FirstInv, Linear
<1>7. CASE RestoreFails
  <2>1. opener' = [opener EXCEPT !.pc = "serving", !.unguarded = TRUE] /\ opener.pc = "restore"
        /\ stops' = stops + 1 /\ UNCHANGED <<column, trigger, prevHash, hashed>>
    BY <1>7 DEF RestoreFails
  <2>2. opener' \in Opener /\ opener'.pc = "serving" /\ opener'.unguarded
    BY <1>t, <2>1 DEF Opener
  <2>3. stops' \in Nat /\ stops' # 0
    BY <1>t, <2>1 DEF MigrationTypeOK
  <2> QED BY <1>t, <2>1, <2>2, <2>3 DEF MigrationTypeOK, StartInv, FirstInv
<1>8. CASE UpdateFails \/ Stop
  <2>1. trigger' \in {"none", "old", "new"} /\ opener' = Down /\ stops' = stops + 1
        /\ UNCHANGED <<column, prevHash, hashed>>
    BY <1>8, <1>t DEF UpdateFails, Stop, Restored, MigrationTypeOK
  <2> QED BY <2>1, DownKeeps
<1>9. CASE UNCHANGED migrationVars
  BY <1>9, <1>t DEF migrationVars, MigrationTypeOK, StartInv, FirstInv, Linear
<1> QED BY <1>1, <1>2, <1>3, <1>4, <1>5, <1>6, <1>7, <1>8, <1>9, UpdateKeeps DEF MigrationNext

LEMMA MigrationInvariant == MigrationSpec => []MigrationInv
<1>1. MigrationInit => MigrationInv
  <2> SUFFICES ASSUME MigrationInit PROVE MigrationInv
    OBVIOUS
  <2>1. Down \in Opener /\ Down.pc = "down"
    BY MigrationAssumption DEF Down, Opener
  <2>2. MigrationTypeOK
    BY <2>1, MigrationAssumption DEF MigrationInit, MigrationTypeOK
  <2> QED BY <2>1, <2>2 DEF MigrationInit, MigrationInv, StartInv, FirstInv, Linear
<1> QED BY <1>1, MigrationKeeps, PTL DEF MigrationSpec

\* The audit table and the migration under way keep their types (audit.go).
THEOREM MigrationTypeCorrect == MigrationSpec => []MigrationTypeOK
<1>1. MigrationInv => MigrationTypeOK
  BY DEF MigrationInv
<1> QED BY <1>1, MigrationInvariant, PTL

\* Whatever an earlier start died in the middle of, and however often, a server
\* that serves has made it good; if none did, its rows form one chain.
THEOREM ServedMigrated == MigrationSpec => []ServedIsMigrated
<1>1. MigrationInv => ServedIsMigrated
  BY DEF MigrationInv, StartInv, FirstInv, ServedIsMigrated, At
<1> QED BY <1>1, MigrationInvariant, PTL

\* audit.go:265: no start rewrites a row that has its hash.
THEOREM HashedKept == MigrationSpec => HashedIsKept
<1> DEFINE Kept == \A r \in hashed : r \in hashed' /\ prevHash'[r] = prevHash[r]
<1>1. ASSUME MigrationInv, [MigrationNext]_migrationVars PROVE [Kept]_migrationVars
  <2>1. CASE UpdateRow
    <3>1. PICK r \in opener.todo :
            prevHash' = [prevHash EXCEPT ![r] = opener.prev] /\ hashed' = hashed \cup {r}
      BY <2>1 DEF UpdateRow
    <3>2. r \notin hashed /\ hashed \subseteq Row /\ prevHash \in [Row -> 0..OldRows]
      BY <1>1, <2>1, <3>1 DEF MigrationInv, MigrationTypeOK, StartInv, UpdateRow, At
    <3> QED BY <3>1, <3>2
  <2>2. CASE prevHash' = prevHash /\ hashed' = hashed
    BY <2>2
  <2>3. CASE UNCHANGED migrationVars
    BY <2>3
  <2>4. ASSUME MigrationNext, ~UpdateRow PROVE prevHash' = prevHash /\ hashed' = hashed
    BY <2>4 DEF MigrationNext, Open, ensureColumnTEXT, ensureNoUpdateTrigger, CreateTrigger,
                SelectUnhashed, ReadLastHash, DropTrigger, RestoreTrigger, RestoreFails,
                UpdateFails, Stop
  <2> QED BY <1>1, <2>1, <2>2, <2>3, <2>4
<1> QED BY <1>1, MigrationInvariant, PTL DEF MigrationSpec, HashedIsKept
=============================================================================
