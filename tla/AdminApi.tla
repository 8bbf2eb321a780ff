------------------------------- MODULE AdminApi ------------------------------
(***************************************************************************)
(* The administration API (api/internal/server/admin.go), the middleware   *)
(* that admits requests (api/internal/auth/auth.go), and the identity      *)
(* store they share.                                                       *)
(*                                                                         *)
(* A handler is several statements: it looks a tenant or a user up, writes *)
(* a row, and then appends to the audit log, whose failure it ignores.     *)
(* Other calls run between any two of them.                                *)
(***************************************************************************)
EXTENDS Identity

CONSTANTS Call,      \* administration requests being served
          Request,   \* requests of tenants being served
          PageLimit, \* the limit of GET /v1/admin/tenants
          MaxCalls   \* bound: administration requests in a behaviour

Action == {"tenant", "user", "customer", "cap", "org", "subject", "key"}

Target == Tenant \cup User \cup Customer \cup Cap \cup Org \cup Subject \cup ApiKey

\* An audit row: its action, its tenant and its target.
Entry(action, t, target) == [action |-> action, tenant |-> t, target |-> target]

EntryRow == [action: Action, tenant: Tenant, target: Target]

ASSUME AdminAssumption ==
    /\ PageLimit \in Nat \ {0} /\ MaxCalls \in Nat
    /\ Nil \notin EntryRow

VARIABLES call,      \* what each administration request is in the middle of
          begun,     \* administration requests begun so far
          logged,    \* "admin." rows of the audit log
          unlogged,  \* changes made whose row was lost
          listing,   \* a client paging through the tenants
          request    \* what each tenant's request is in the middle of

adminVars == <<identityVars, call, begun, logged, unlogged, listing, request>>

CallPc == {"idle", "insertUser", "insertKey", "audit"}

\* tenant, user  the path parameters      entry  the row about to be appended
IdleCall == [pc |-> "idle", tenant |-> 0, user |-> Nil, entry |-> Nil]

NotListing == [pc |-> "idle", cursor |-> 0, existed |-> {}, shown |-> [t \in Tenant |-> 0]]

\* late: the key had been revoked when the request began.
IdleRequest == [pc |-> "idle", key |-> Nil, org |-> Nil, subject |-> Nil,
                tenant |-> 0, user |-> Nil, late |-> FALSE]

\* Nothing is being served.
AdminIdle ==
    /\ call = [c \in Call |-> IdleCall]
    /\ begun = 0
    /\ unlogged = {}
    /\ listing = NotListing
    /\ request = [r \in Request |-> IdleRequest]

AdminInit == IdentityInit /\ AdminIdle /\ logged = {}

----------------------------------------------------------------------------
(* The handlers of /v1/admin.  A call that is answered 404 or 500 changes  *)
(* nothing and is not a step.                                              *)

Begin(c) ==
    /\ call[c].pc = "idle"
    /\ begun < MaxCalls
    /\ begun' = begun + 1

\* The change is made: the handler goes on to recordAdminAudit.
Done(c, entry) ==
    /\ call' = [call EXCEPT ![c] = [IdleCall EXCEPT !.pc = "audit", !.entry = entry]]
    /\ UNCHANGED <<logged, unlogged, listing, request>>

adminCreateTenant(c, t) ==
    /\ Begin(c)
    /\ CreateTenant(t)
    /\ Done(c, Entry("tenant", t, t))

\* GetTenant; the INSERT is a statement of its own.
adminCreateUser(c, t) ==
    /\ Begin(c)
    /\ GetTenant(t)
    /\ call' = [call EXCEPT ![c] = [IdleCall EXCEPT !.pc = "insertUser", !.tenant = t]]
    /\ UNCHANGED <<identityVars, logged, unlogged, listing, request>>

InsertUser(c, u) ==
    /\ call[c].pc = "insertUser"
    /\ CreateUser(call[c].tenant, u)
    /\ Done(c, Entry("user", call[c].tenant, u))
    /\ UNCHANGED begun

adminSetStripeCustomer(c, t, customer) ==
    /\ Begin(c)
    /\ SetStripeCustomerID(t, customer)
    /\ Done(c, Entry("customer", t, customer))

adminSetCap(c, t, cents) ==
    /\ Begin(c)
    /\ SetMonthlyCap(t, cents)
    /\ Done(c, Entry("cap", t, cents))

adminSetClerkOrg(c, t, o) ==
    /\ Begin(c)
    /\ SetClerkOrgID(t, o)
    /\ Done(c, Entry("org", t, o))

\* The row names the subject; the user it was bound to is not recorded.
adminSetClerkUser(c, t, u, s) ==
    /\ Begin(c)
    /\ SetClerkUserID(t, u, s)
    /\ Done(c, Entry("subject", t, s))

\* GetUser, scoped to the tenant of the path.
adminIssueAPIKey(c, t, u) ==
    /\ Begin(c)
    /\ GetUser(t, u)
    /\ call' = [call EXCEPT ![c] = [IdleCall EXCEPT !.pc = "insertKey", !.tenant = t, !.user = u]]
    /\ UNCHANGED <<identityVars, logged, unlogged, listing, request>>

InsertKey(c, k) ==
    /\ call[c].pc = "insertKey"
    /\ IssueAPIKey(call[c].tenant, call[c].user, k)
    /\ Done(c, Entry("key", call[c].tenant, k))
    /\ UNCHANGED begun

\* Fault-seeded form of Appended: the row names the tenant alone.
AppendedTenant(entry) == Entry(entry.action, entry.tenant, entry.tenant)

\* The row of a change, as audit.FromRequest makes it.
Appended(entry) == entry

\* recordAdminAudit; the answer is sent whether or not the row was written.
recordAdminAudit(c) ==
    /\ call[c].pc = "audit"
    /\ logged' = logged \cup {Appended(call[c].entry)}
    /\ call' = [call EXCEPT ![c] = IdleCall]
    /\ UNCHANGED <<identityVars, begun, unlogged, listing, request>>

\* Append fails, or the server dies before it.
AuditIsLost(c) ==
    /\ call[c].pc = "audit"
    /\ unlogged' = unlogged \cup {call[c].entry}
    /\ call' = [call EXCEPT ![c] = IdleCall]
    /\ UNCHANGED <<identityVars, begun, logged, listing, request>>

----------------------------------------------------------------------------
(* GET /v1/admin/tenants, page after page *)

StartListing ==
    /\ listing.pc # "reading"
    /\ listing' = [NotListing EXCEPT !.pc = "reading",
                                     !.existed = {t \in Tenant : tenants[t].made}]
    /\ UNCHANGED <<identityVars, call, begun, logged, unlogged, request>>

\* WHERE id > cursor
After(cursor) == {t \in Tenant : tenants[t].made /\ t > cursor}

\* ORDER BY id LIMIT limit, of which the limit+1'st row only says there is more.
IsPage(page, rest) ==
    /\ page \subseteq rest
    /\ \A t \in page, s \in rest \ page : t < s
    /\ Cardinality(page) = IF Cardinality(rest) <= PageLimit THEN Cardinality(rest) ELSE PageLimit

\* Fault-seeded form of IsNextCursor: the cursor is the first row left out.
IsNextCursorPast(last, page, rest) ==
    last \in rest \ page /\ \A s \in rest \ page : last <= s

\* The id of the last row of the page.
IsNextCursor(last, page, rest) == last \in page /\ \A s \in page : s <= last

Shown(page) == [t \in Tenant |-> listing.shown[t] + (IF t \in page THEN 1 ELSE 0)]

adminListTenants ==
    LET rest == After(listing.cursor) IN
    /\ listing.pc = "reading"
    /\ \E page \in SUBSET rest :
         /\ IsPage(page, rest)
         /\ \/ /\ page = rest
               /\ listing' = [listing EXCEPT !.pc = "done", !.shown = Shown(page)]
            \/ \E last \in rest :
                 /\ page # rest
                 /\ IsNextCursor(last, page, rest)
                 /\ listing' = [listing EXCEPT !.cursor = last, !.shown = Shown(page)]
    /\ UNCHANGED <<identityVars, call, begun, logged, unlogged, request>>

----------------------------------------------------------------------------
(* MiddlewareWithClerk *)

Serve(r, frame) ==
    /\ request' = [request EXCEPT ![r] = frame]
    /\ UNCHANGED <<identityVars, call, begun, logged, unlogged, listing>>

\* A token with the owc_ prefix is an API key.
BearKey(r, k) ==
    /\ request[r].pc = "idle"
    /\ Serve(r, [IdleRequest EXCEPT !.pc = "key", !.key = k, !.late = apiKeys[k].revoked])

\* Any other is a Clerk session, verified before the tables are read.
BearSession(r, o, s) ==
    /\ request[r].pc = "idle"
    /\ Serve(r, [IdleRequest EXCEPT !.pc = "org", !.org = o, !.subject = s])

\* Fault-seeded form of KeyIsGood: a key is good once its row is found.
KeyIsFound(k) == LookupAPIKey(k)

KeyIsGood(k) == LookupAPIKey(k) /\ ~apiKeys[k].revoked

ResolveKey(r) ==
    LET f == request[r]
        row == apiKeys[f.key] IN
    /\ f.pc = "key"
    /\ Serve(r, IF KeyIsGood(f.key)
                THEN [f EXCEPT !.pc = "admitted", !.tenant = row.tenant, !.user = row.user]
                ELSE IdleRequest)

ResolveOrg(r) ==
    LET f == request[r]
        t == LookupByClerkOrgID(f.org) IN
    /\ f.pc = "org"
    /\ Serve(r, IF t = 0 THEN IdleRequest ELSE [f EXCEPT !.pc = "subject", !.tenant = t])

ResolveSubject(r) ==
    LET f == request[r]
        u == LookupUserByClerkUserID(f.subject) IN
    /\ f.pc = "subject"
    /\ Serve(r, IF u = Nil THEN IdleRequest ELSE [f EXCEPT !.pc = "admitted", !.user = u])

Answer(r) ==
    /\ request[r].pc = "admitted"
    /\ Serve(r, IdleRequest)

\* Revocation has no handler: an operator runs the store's operation.
Revoke(k) ==
    /\ RevokeAPIKey(k)
    /\ UNCHANGED <<call, begun, logged, unlogged, listing, request>>

----------------------------------------------------------------------------

CallStep(c) ==
    \/ \E t \in Tenant :
         \/ adminCreateTenant(c, t) \/ adminCreateUser(c, t)
         \/ \E x \in Customer : adminSetStripeCustomer(c, t, x)
         \/ \E cents \in Cap : adminSetCap(c, t, cents)
         \/ \E o \in Org : adminSetClerkOrg(c, t, o)
         \/ \E u \in User : adminIssueAPIKey(c, t, u)
         \/ \E u \in User, s \in Subject : adminSetClerkUser(c, t, u, s)
    \/ \E u \in User : InsertUser(c, u)
    \/ \E k \in ApiKey : InsertKey(c, k)
    \/ recordAdminAudit(c) \/ AuditIsLost(c)

RequestStep(r) ==
    \/ \E k \in ApiKey : BearKey(r, k)
    \/ \E o \in Org, s \in Subject : BearSession(r, o, s)
    \/ ResolveKey(r) \/ ResolveOrg(r) \/ ResolveSubject(r) \/ Answer(r)

AdminNext ==
    \/ \E c \in Call : CallStep(c)
    \/ \E r \in Request : RequestStep(r)
    \/ StartListing \/ adminListTenants
    \/ \E k \in ApiKey : Revoke(k)

AdminSpec == AdminInit /\ [][AdminNext]_adminVars

----------------------------------------------------------------------------
(* Properties *)

CallFrame == [pc: CallPc, tenant: Tenant \cup {0}, user: User \cup {Nil},
              entry: EntryRow \cup {Nil}]

RequestFrame ==
    [pc: {"idle", "key", "org", "subject", "admitted"}, key: ApiKey \cup {Nil},
     org: Org \cup {Nil}, subject: Subject \cup {Nil},
     tenant: Tenant \cup {0}, user: User \cup {Nil}, late: BOOLEAN]

\* The tables, the frames and the listing hold what the code can put there.
AdminTypeOK ==
    /\ tenants \in [Tenant -> TenantRow]
    /\ users \in [User -> UserRow]
    /\ apiKeys \in [ApiKey -> KeyRow]
    /\ call \in [Call -> CallFrame]
    /\ begun \in Nat
    /\ listing \in [pc: {"idle", "reading", "done"}, cursor: Tenant \cup {0},
                    existed: SUBSET Tenant, shown: [Tenant -> Nat]]
    /\ request \in [Request -> RequestFrame]

\* A key belongs to a user of its own tenant.  The schema does not say so (its
\* two references are separate): it rests on the lookup the handler makes before
\* the INSERT staying true until the INSERT.
KeyIsOwned ==
    \A k \in ApiKey : LookupAPIKey(k) =>
        apiKeys[k].tenant # 0 /\ users[apiKeys[k].user].tenant = apiKeys[k].tenant

\* A request begun after its key was revoked is not admitted, and no later call
\* of the administration API brings a revoked key back.
RevokedIsRefused ==
    \A r \in Request : request[r].late =>
        /\ request[r].pc # "admitted"
        /\ apiKeys[request[r].key].revoked

\* What the tables hold beside their defaults, as the audit rows would say it.
Current ==
    {Entry("tenant", t, t) : t \in {x \in Tenant : tenants[x].made}}
    \cup {Entry("customer", t, tenants[t].customer) : t \in {x \in Tenant : tenants[x].customer # Nil}}
    \cup {Entry("cap", t, tenants[t].cap) : t \in {x \in Tenant : tenants[x].cap # 0}}
    \cup {Entry("org", t, tenants[t].org) : t \in {x \in Tenant : tenants[x].org # Nil}}
    \cup {Entry("user", users[u].tenant, u) : u \in {x \in User : users[x].tenant # 0}}
    \cup {Entry("subject", users[u].tenant, users[u].subject) : u \in {x \in User : users[x].subject # Nil}}
    \cup {Entry("key", apiKeys[k].tenant, k) : k \in {x \in ApiKey : LookupAPIKey(x)}}

\* "Every state-changing call writes an audit row" (admin.go:6): every value the
\* tables hold is named by a row, unless the call that set it is still about to
\* append, or its append was lost.  Calls on the same tenant interleave freely.
CurrentIsAudited ==
    Current \subseteq logged \cup unlogged \cup {call[c].entry : c \in Call}

\* A listing of the tenants shows none twice, and one that has come to its last
\* page has shown every tenant that existed when it began, whatever was created
\* between two pages and wherever the random ids of those fell.
ListingIsComplete ==
    /\ \A t \in Tenant : listing.shown[t] <= 1
    /\ listing.pc = "done" => \A t \in listing.existed : listing.shown[t] = 1
=============================================================================
