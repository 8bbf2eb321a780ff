-------------------------------- MODULE CostCap ------------------------------
(***************************************************************************)
(* The monthly spend cap (api/internal/billing/costcap.go), enforced by    *)
(* POST /v1/jobs before it creates the job (api/internal/server/server.go) *)
(* with the prices of the catalog (api/internal/catalog/pricer.go).        *)
(*                                                                         *)
(* The check reads the cap, then the spend, and the job is created after   *)
(* it; a job is billed when it ends, long after, and in any number of      *)
(* units.  The cap is thus a bound on what is spent only up to what was in *)
(* flight: the module says how far.                                        *)
(***************************************************************************)
EXTENDS Identity

CONSTANTS Submission,  \* jobs, by their idempotency key
          Owner,       \* [Submission -> Tenant]
          BaseCents,   \* [Submission -> Nat], the price of a unit of the job's SKU
          DefaultCap,  \* OWERA_DEFAULT_CAP_CENTS
          MaxUnits,    \* the most units a job is billed for
          MaxMonth     \* bound: changes of the billing period

ASSUME CostCapAssumption ==
    /\ Owner \in [Submission -> Tenant]
    /\ BaseCents \in [Submission -> Nat]
    /\ DefaultCap \in Nat \ {0}
    /\ MaxUnits \in Nat
    /\ MaxMonth \in Nat

VARIABLES spent,   \* [Tenant -> Nat], units recorded in the current period
          post,    \* [Submission -> PostFrame], the request under way
          state,   \* [Submission -> {"none", "live", "billed"}]
          basis,   \* [Submission -> Check], what a job was admitted on
          month    \* the current period

spendVars == <<identityVars, spent, post, state, basis, month>>

\* What a check found: the cap, the units recorded, and, for the statement of
\* the property, the jobs that had been billed by then and the period it read.
Check == [cap: Int, spent: Nat, billed: SUBSET Submission, month: Nat]

NoCheck == [cap |-> -1, spent |-> 0, billed |-> {}, month |-> 0]

PostFrame == [pc: {"idle", "spend", "submit"}, check: Check]

\* Nothing has been submitted.
SpendIdle ==
    /\ spent = [t \in Tenant |-> 0]
    /\ post = [j \in Submission |-> [pc |-> "idle", check |-> NoCheck]]
    /\ state = [j \in Submission |-> "none"]
    /\ basis = [j \in Submission |-> NoCheck]
    /\ month = 0

SpendInit == IdentityInit /\ SpendIdle

----------------------------------------------------------------------------
(* Pricer.EstimateCents *)

\* Units of any SKU, at the price of a unit of this job's.
EstimateCents(j, units) == units * BaseCents[j]

\* A job is estimated at one unit.
Projected(j, units) == EstimateCents(j, units) + BaseCents[j]

\* 0 is "use the default", a negative cap is "no cap".
EffectiveCap(cents) == IF cents = 0 THEN DefaultCap ELSE cents

----------------------------------------------------------------------------
(* POST /v1/jobs, up to Submit *)

Billed == {j \in Submission : state[j] = "billed"}

\* GetMonthlyCapCents.  A retry goes through the check like a first request.
ReadCap(j) ==
    LET cap == EffectiveCap(MonthlyCap(Owner[j])) IN
    /\ post[j].pc = "idle"
    /\ GetTenant(Owner[j])
    /\ post' = [post EXCEPT ![j] =
         [pc |-> IF cap < 0 THEN "submit" ELSE "spend", check |-> [NoCheck EXCEPT !.cap = cap]]]
    /\ UNCHANGED <<identityVars, spent, state, basis, month>>

\* Fault-seeded form of Fits: the job to come is left out of the sum.
FitsWithout(j, cap) == EstimateCents(j, spent[Owner[j]]) <= cap

Fits(j, cap) == Projected(j, spent[Owner[j]]) <= cap

\* TenantPeriodSum over monthBounds(now), and the comparison; 402 otherwise.
Enforce(j) ==
    LET cap == post[j].check.cap IN
    /\ post[j].pc = "spend"
    /\ post' = [post EXCEPT ![j] =
         IF Fits(j, cap)
         THEN [pc |-> "submit",
               check |-> [cap |-> cap, spent |-> spent[Owner[j]], billed |-> Billed, month |-> month]]
         ELSE [pc |-> "idle", check |-> NoCheck]]
    /\ UNCHANGED <<identityVars, spent, state, basis, month>>

\* Submit finds the job of an earlier request, or creates it.
SubmitJob(j) ==
    /\ post[j].pc = "submit"
    /\ IF state[j] = "none"
       THEN /\ state' = [state EXCEPT ![j] = "live"]
            /\ basis' = [basis EXCEPT ![j] = post[j].check]
       ELSE UNCHANGED <<state, basis>>
    /\ post' = [post EXCEPT ![j] = [pc |-> "idle", check |-> NoCheck]]
    /\ UNCHANGED <<identityVars, spent, month>>

\* The client goes away, or the server dies, between two statements.
Abandon(j) ==
    /\ post[j].pc # "idle"
    /\ post' = [post EXCEPT ![j] = [pc |-> "idle", check |-> NoCheck]]
    /\ UNCHANGED <<identityVars, spent, state, basis, month>>

----------------------------------------------------------------------------
(* What moves the two numbers the check reads *)

\* The job ends and its bills are recorded, in the period they fall in.
RecordBills(j) ==
    /\ state[j] = "live"
    /\ state' = [state EXCEPT ![j] = "billed"]
    /\ \E units \in 0..MaxUnits :
         spent' = [spent EXCEPT ![Owner[j]] = @ + units]
    /\ UNCHANGED <<identityVars, post, basis, month>>

NextMonth ==
    /\ month < MaxMonth
    /\ month' = month + 1
    /\ spent' = [t \in Tenant |-> 0]
    /\ UNCHANGED <<identityVars, post, state, basis>>

Administer ==
    /\ \E t \in Tenant : CreateTenant(t) \/ \E cents \in Cap : SetMonthlyCap(t, cents)
    /\ UNCHANGED <<spent, post, state, basis, month>>

SpendNext ==
    \/ \E j \in Submission :
         ReadCap(j) \/ Enforce(j) \/ SubmitJob(j) \/ Abandon(j) \/ RecordBills(j)
    \/ NextMonth
    \/ Administer

SpendSpec == SpendInit /\ [][SpendNext]_spendVars

----------------------------------------------------------------------------
(* Properties *)

\* The caps, the sums and the requests hold what the code can put there.
SpendTypeOK ==
    /\ tenants \in [Tenant -> TenantRow]
    /\ users \in [User -> UserRow]
    /\ apiKeys \in [ApiKey -> KeyRow]
    /\ spent \in [Tenant -> Nat]
    /\ post \in [Submission -> PostFrame]
    /\ state \in [Submission -> {"none", "live", "billed"}]
    /\ basis \in [Submission -> Check]
    /\ month \in Nat

\* Jobs of a tenant that a check could not know the bills of: admitted by now,
\* and not billed when the check read the sum.
Unseen(check, t) == {j \in Submission : Owner[j] = t /\ state[j] # "none"} \ check.billed

\* How far past its cap a tenant can get: whatever the order of checks,
\* submissions, bills and changes of the cap, what is spent in a period stays
\* below the cap a job of that period was admitted under, less the one unit it
\* was estimated at, plus what the jobs in flight at that check (this one and
\* those admitted beside it included) were billed.  All at that job's price.
OvershootIsInFlight ==
    \A j \in Submission :
        LET b == basis[j]
            t == Owner[j] IN
        state[j] # "none" /\ b.cap >= 0 /\ b.month = month =>
            EstimateCents(j, spent[t]) + BaseCents[j]
              <= b.cap + EstimateCents(j, MaxUnits * Cardinality(Unseen(b, t)))
=============================================================================
