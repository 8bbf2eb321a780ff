------------------------------- MODULE Identity ------------------------------
(***************************************************************************)
(* The identity store (api/internal/identity/identity.go): the tables of   *)
(* tenants, users and API keys, and the statement each operation runs on   *)
(* them.  An operation here is a step's effect; who calls it, and what it  *)
(* does between two of them, is AdminApi's and CostCap's matter.           *)
(*                                                                         *)
(* Ids are random and compared by the listing, so a tenant id is a number, *)
(* handed out in any order.                                                *)
(***************************************************************************)
EXTENDS Integers, FiniteSets

CONSTANTS Tenant,    \* tenant ids
          User,      \* user ids
          ApiKey,    \* API keys: a token, its prefix and its row
          Customer,  \* Stripe customer ids
          Org,       \* Clerk organisation ids
          Subject,   \* Clerk subject ids
          Cap,       \* monthly caps: 0 the default, negative no cap
          Nil        \* NULL, the empty id

ASSUME IdentityAssumption ==
    /\ Tenant \subseteq Nat \ {0}
    /\ Cap \subseteq Int /\ 0 \in Cap
    /\ Nil \notin User \cup ApiKey \cup Customer \cup Org \cup Subject

VARIABLES tenants, users, apiKeys

identityVars == <<tenants, users, apiKeys>>

TenantRow == [made: BOOLEAN, customer: Customer \cup {Nil}, org: Org \cup {Nil}, cap: Cap]

\* tenant 0, user Nil: there is no row.
UserRow == [tenant: Tenant \cup {0}, subject: Subject \cup {Nil}]
KeyRow  == [tenant: Tenant \cup {0}, user: User \cup {Nil}, revoked: BOOLEAN]

NoTenant == [made |-> FALSE, customer |-> Nil, org |-> Nil, cap |-> 0]
NoUser   == [tenant |-> 0, subject |-> Nil]
NoKey    == [tenant |-> 0, user |-> Nil, revoked |-> FALSE]

IdentityInit ==
    /\ tenants = [t \in Tenant |-> NoTenant]
    /\ users = [u \in User |-> NoUser]
    /\ apiKeys = [k \in ApiKey |-> NoKey]

----------------------------------------------------------------------------
(* Reads *)

GetTenant(t) == t \in Tenant /\ tenants[t].made

\* Fault-seeded form of GetUser: the read is not scoped to the tenant.
GetUserAnywhere(t, u) == users[u].tenant # 0

\* A user of another tenant is not found.
GetUser(t, u) == users[u].tenant # 0 /\ users[u].tenant = t

\* The row's cap; an unset one is 0, the caller's sign to use the default.
MonthlyCap(t) == tenants[t].cap

\* The tenant an organisation is bound to, 0 if there is none.
LookupByClerkOrgID(o) ==
    IF \E t \in Tenant : tenants[t].org = o
    THEN CHOOSE t \in Tenant : tenants[t].org = o ELSE 0

\* The user a subject is bound to, Nil if there is none.
LookupUserByClerkUserID(s) ==
    IF \E u \in User : users[u].subject = s
    THEN CHOOSE u \in User : users[u].subject = s ELSE Nil

\* Every key that has a row is found; a revoked one is returned as such.
LookupAPIKey(k) == apiKeys[k].user # Nil

----------------------------------------------------------------------------
(* Writes: the guard says when the statement succeeds *)

CreateTenant(t) ==
    /\ ~tenants[t].made
    /\ tenants' = [tenants EXCEPT ![t].made = TRUE]
    /\ UNCHANGED <<users, apiKeys>>

\* REFERENCES tenants(id), with foreign keys on.
CreateUser(t, u) ==
    /\ users[u].tenant = 0 /\ GetTenant(t)
    /\ users' = [users EXCEPT ![u].tenant = t]
    /\ UNCHANGED <<tenants, apiKeys>>

\* REFERENCES tenants(id) and users(id), but not the pair.
IssueAPIKey(t, u, k) ==
    /\ apiKeys[k].user = Nil
    /\ GetTenant(t) /\ users[u].tenant # 0
    /\ apiKeys' = [apiKeys EXCEPT ![k] = [tenant |-> t, user |-> u, revoked |-> FALSE]]
    /\ UNCHANGED <<tenants, users>>

RevokeAPIKey(k) ==
    /\ apiKeys[k].user # Nil
    /\ apiKeys' = [apiKeys EXCEPT ![k].revoked = TRUE]
    /\ UNCHANGED <<tenants, users>>

SetStripeCustomerID(t, c) ==
    /\ GetTenant(t)
    /\ tenants' = [tenants EXCEPT ![t].customer = c]
    /\ UNCHANGED <<users, apiKeys>>

SetMonthlyCap(t, cents) ==
    /\ GetTenant(t)
    /\ tenants' = [tenants EXCEPT ![t].cap = cents]
    /\ UNCHANGED <<users, apiKeys>>

\* tenants_clerk_org_uq
OrgIsFree(t, o) == \A s \in Tenant \ {t} : tenants[s].org # o

SetClerkOrgID(t, o) ==
    /\ GetTenant(t) /\ OrgIsFree(t, o)
    /\ tenants' = [tenants EXCEPT ![t].org = o]
    /\ UNCHANGED <<users, apiKeys>>

\* users_clerk_user_uq
SubjectIsFree(u, s) == \A v \in User \ {u} : users[v].subject # s

\* UPDATE users .. WHERE tenant_id=? AND id=?
SetClerkUserID(t, u, s) ==
    /\ GetUser(t, u) /\ SubjectIsFree(u, s)
    /\ users' = [users EXCEPT ![u].subject = s]
    /\ UNCHANGED <<tenants, apiKeys>>
=============================================================================
