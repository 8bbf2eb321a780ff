----------------------------- MODULE StatusCache -----------------------------
(***************************************************************************)
(* The status service behind /readyz (api/internal/status/status.go) and   *)
(* the translation of the operator plane's health                          *)
(* (api/internal/status/operator_fetcher.go).                              *)
(*                                                                         *)
(* Get reads the cached snapshot under the lock, releases the lock for the *)
(* fetch, and takes it again to store what it fetched: any number of gets  *)
(* fetch at once, and a slow one may store an older snapshot over a newer. *)
(* Time is counted in ticks, and only the ages that matter are kept.       *)
(***************************************************************************)
EXTENDS Integers, FiniteSets

CONSTANTS Get,       \* calls of Service.Get: probes of /readyz
          Node,      \* the workers there may be in the fleet
          Gateway,   \* its gateway
          CacheFor,  \* ticks a snapshot is served from the cache
          FetchMax,  \* ticks a fetch can last
          None       \* no snapshot

ASSUME StatusAssumption ==
    /\ CacheFor \in Nat \ {0}
    /\ FetchMax \in Nat
    /\ Gateway \notin Node
    /\ IsFiniteSet(Node)

VARIABLES listed,  \* the workers the operator plane lists
          up,      \* those of them, and the gateway, that are OK
          reachable, \* the tunnel to the operator plane is up
          seen,    \* [Health -> Age], ticks since the fleet was last so
          last,    \* the cached snapshot: its state, and the age of lastAt
          get      \* what each call is in the middle of

statusVars == <<listed, up, reachable, seen, last, get>>

Health == {"green", "yellow", "red"}

\* Fault-seeded form of translate: all OK, when there is no worker at all.
translateVacuously(workers, ok) ==
    LET total == Cardinality(workers)
        ready == Cardinality(workers \cap ok)
    IN  IF Gateway \notin ok THEN "red"
        ELSE IF ready = total THEN "green" ELSE "yellow"

\* The first case that applies, as in the switch of the code.
translate(workers, ok) ==
    LET total == Cardinality(workers)
        ready == Cardinality(workers \cap ok)
    IN  IF Gateway \notin ok \/ total = 0 THEN "red"
        ELSE IF ready = total THEN "green" ELSE "yellow"

\* What the fleet really is, by the policy stated above translate
\* (operator_fetcher.go:75-78).
Fleet ==
    CASE Gateway \notin up \/ listed = {} -> "red"
      [] Gateway \in up /\ listed # {} /\ listed \subseteq up -> "green"
      [] Gateway \in up /\ \E w \in listed : w \notin up -> "yellow"

\* Ages are counted up to the first one nothing tells from a greater.
Oldest == CacheFor + FetchMax + 1

Older(age) == IF age < Oldest THEN age + 1 ELSE age

Idle == [pc |-> "idle", fleet |-> None, for |-> 0]

StatusInit ==
    /\ listed = Node
    /\ up = Node \cup {Gateway}
    /\ reachable = TRUE
    /\ seen = [h \in Health |-> IF h = Fleet THEN 0 ELSE Oldest]
    /\ last = [fleet |-> None, age |-> 0]
    /\ get = [g \in Get |-> Idle]

----------------------------------------------------------------------------
(* Service.Get *)

Goto(g, frame) == get' = [get EXCEPT ![g] = frame]

Reply(fleet) == [pc |-> "reply", fleet |-> fleet, for |-> 0]

\* Fault-seeded form of IsFresh: a snapshot once fetched is served for ever.
IsFreshAlways == last.fleet # None

\* time.Since(lastAt) < cacheFor
IsFresh == last.fleet # None /\ last.age < CacheFor

\* Under the read lock.
ReadCache(g) ==
    /\ get[g].pc = "idle"
    /\ Goto(g, IF IsFresh THEN Reply(last.fleet) ELSE [Idle EXCEPT !.pc = "fetch"])
    /\ UNCHANGED <<listed, up, reachable, seen, last>>

\* The operator plane answers with what it finds.
Fetch(g) ==
    /\ get[g].pc = "fetch" /\ reachable
    /\ Goto(g, [get[g] EXCEPT !.pc = "store", !.fleet = translate(listed, up)])
    /\ UNCHANGED <<listed, up, reachable, seen, last>>

\* The call fails: nothing is stored, and the probe is told not ready.
FetchFails(g) ==
    /\ get[g].pc = "fetch" /\ ~reachable
    /\ Goto(g, Reply(None))
    /\ UNCHANGED <<listed, up, reachable, seen, last>>

\* Under the write lock: whoever comes last wins.
Store(g) ==
    /\ get[g].pc = "store"
    /\ last' = [fleet |-> get[g].fleet, age |-> 0]
    /\ Goto(g, Reply(get[g].fleet))
    /\ UNCHANGED <<listed, up, reachable, seen>>

\* The probe has its answer and the next one comes.
Answered(g) ==
    /\ get[g].pc = "reply"
    /\ Goto(g, Idle)
    /\ UNCHANGED <<listed, up, reachable, seen, last>>

----------------------------------------------------------------------------
(* The fleet, the tunnel and time *)

HealthTurns ==
    /\ \E n \in listed \cup {Gateway} : up' = IF n \in up THEN up \ {n} ELSE up \cup {n}
    /\ UNCHANGED <<listed, reachable, last, get>>
    /\ seen' = [seen EXCEPT ![Fleet'] = 0]

\* A worker joins the fleet, not yet OK, or leaves it, in whatever health.
ListingTurns ==
    /\ \E w \in Node :
         /\ listed' = IF w \in listed THEN listed \ {w} ELSE listed \cup {w}
         /\ up' = up \ {w}
    /\ seen' = [seen EXCEPT ![Fleet'] = 0]
    /\ UNCHANGED <<reachable, last, get>>

TunnelTurns ==
    /\ reachable' = ~reachable
    /\ UNCHANGED <<listed, up, seen, last, get>>

\* A fetch ends within the timeout of its transport; a reply takes no time.
Tick ==
    /\ \A g \in Get : get[g].for < FetchMax
    /\ seen' = [h \in Health |-> IF h = Fleet THEN 0 ELSE Older(seen[h])]
    /\ last' = [last EXCEPT !.age = IF last.fleet = None THEN 0 ELSE Older(@)]
    /\ get' = [g \in Get |-> IF get[g].pc \in {"idle", "reply"} THEN Idle
                             ELSE [get[g] EXCEPT !.for = @ + 1]]
    /\ UNCHANGED <<listed, up, reachable>>

----------------------------------------------------------------------------

GetStep(g) == ReadCache(g) \/ Fetch(g) \/ FetchFails(g) \/ Store(g) \/ Answered(g)

StatusNext == (\E g \in Get : GetStep(g)) \/ HealthTurns \/ ListingTurns \/ TunnelTurns \/ Tick

StatusSpec == StatusInit /\ [][StatusNext]_statusVars

\* Probes come again and again and their calls go on; time passes.  The fleet
\* and the tunnel owe nothing.
StatusFairness == WF_statusVars(Tick) /\ \A g \in Get : WF_statusVars(GetStep(g))

FairStatus == StatusSpec /\ StatusFairness

----------------------------------------------------------------------------
(* Properties *)

\* The fleet, the cache and the calls hold what the code can put there.
StatusTypeOK ==
    /\ listed \subseteq Node /\ up \subseteq listed \cup {Gateway}
    /\ reachable \in BOOLEAN
    /\ seen \in [Health -> 0..Oldest]
    /\ last \in [fleet: Health \cup {None}, age: 0..Oldest]
    /\ get \in [Get -> [pc: {"idle", "fetch", "store", "reply"},
                        fleet: Health \cup {None}, for: 0..FetchMax]]

\* An answer is not older than the cache and the slowest fetch together: what a
\* probe is told was true of the fleet at most that long ago, even when a slow
\* fetch has stored its older snapshot over a newer one.
AnswerIsRecent ==
    \A g \in Get : get[g].pc = "reply" /\ get[g].fleet # None =>
        seen[get[g].fleet] <= CacheFor + FetchMax

\* Once the fleet is green and reachable for good, probes are told so from some
\* point on: no outdated snapshot and no failed fetch is served for ever.
ReadinessRecovers ==
    <>[](Fleet = "green" /\ reachable) =>
        <>[](\A g \in Get : get[g].pc = "reply" => get[g].fleet = "green")
=============================================================================
