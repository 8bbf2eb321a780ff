------------------------------ MODULE MCFront -------------------------------
(***************************************************************************)
(* Small instances, side by side, of four parts of the API server that do  *)
(* not step on one another: the administration of accounts, the spend cap, *)
(* the status cache, and the migration of the audit log.  A behaviour is   *)
(* one part's, and the rest stands still: TLC's work is their sum.         *)
(***************************************************************************)
EXTENDS AdminApi, CostCap, StatusCache, AuditMigration, TLC

CONSTANTS s1, s2

\* The tenant there is in the beginning; the others get ids on either side of it.
First == 2

\* Its submissions, of two SKUs.
OneOwner == [j \in Submission |-> First]
TwoPrices == [j \in Submission |-> IF j = s1 THEN 1 ELSE 2]

\* cap 0 is the default, -1 no cap.
Caps == {-1, 0, 3}

VARIABLE part

spendOnly == <<spent, post, state, basis, month>>
adminOnly == <<call, begun, logged, unlogged, listing, request>>

frontVars == <<part, identityVars, spendOnly, adminOnly, statusVars, migrationVars>>

\* Beside the spend check a cap changes between values set, and logged, before.
Earlier == IF part = "spend" THEN {Entry("cap", First, cents) : cents \in Cap} ELSE {}

FrontInit ==
    /\ part \in {"accounts", "spend", "status", "migration"}
    /\ tenants = [t \in Tenant |-> [NoTenant EXCEPT !.made = (t = First)]]
    /\ logged = {Entry("tenant", First, First)} \cup Earlier
    /\ users = [u \in User |-> NoUser] /\ apiKeys = [k \in ApiKey |-> NoKey]
    /\ AdminIdle /\ SpendIdle /\ StatusInit /\ MigrationInit
    /\ part # "migration" => column /\ trigger = "new"

Accounts ==
    /\ part = "accounts"
    /\ AdminNext
    /\ UNCHANGED <<part, spendOnly, statusVars, migrationVars>>

Spend ==
    /\ part = "spend"
    /\ SpendNext
    /\ \A t \in Tenant \ {First} : tenants'[t] = tenants[t]
    /\ UNCHANGED <<part, adminOnly, statusVars, migrationVars>>

StatusPart(A) ==
    /\ part = "status"
    /\ A
    /\ UNCHANGED <<part, identityVars, spendOnly, adminOnly, migrationVars>>

Migration ==
    /\ part = "migration"
    /\ MigrationNext
    /\ UNCHANGED <<part, identityVars, spendOnly, adminOnly, statusVars>>

FrontNext == Accounts \/ Spend \/ StatusPart(StatusNext) \/ Migration

\* StatusFairness, of the part.
FrontFairness ==
    /\ WF_frontVars(StatusPart(Tick))
    /\ \A g \in Get : WF_frontVars(StatusPart(GetStep(g)))

FrontSpec == FrontInit /\ [][FrontNext]_frontVars /\ FrontFairness
=============================================================================
