------------------------------ MODULE Tenancy ------------------------------
(***************************************************************************)
(* Registration and the tenant context of a database session:              *)
(* core/database.py, repositories/auth_repository.py, tenant_repository.py *)
(* and core/deps.py over PostgreSQL's row-level security.                  *)
(*                                                                         *)
(* A session of SQLAlchemy takes a connection of the pool when a           *)
(* transaction begins and gives it back when it ends. app.current_tenant   *)
(* belongs to the connection, tenant_id to the session. A registration is  *)
(* known by the id it mints for its organization; all of them ask for the  *)
(* same name, so a slug is the number of its suffix.                       *)
(*                                                                         *)
(* PostgreSQL enforces the policies on ordinary roles only. The role the   *)
(* application connects as is a matter of deployment: that of              *)
(* docker-compose is a superuser, that of the CI tests is not              *)
(* (SECURITY.md:59-69).                                                    *)
(***************************************************************************)
EXTENDS Naturals, FiniteSets

CONSTANTS
    Orgs,     \* organizations, each by the registration that creates it
    EmailOf,  \* the address that registration gives
    MayCrash, \* bound: the registrations that may be cut off
    Visits,   \* sessions of authenticated requests and of the worker
    Conns,    \* the pool
    Unset, Blank,  \* app.current_tenant never set; set and then reset
    None      \* no connection, no tenant id

ASSUME TenancyAssumption ==
    /\ IsFiniteSet(Orgs) /\ MayCrash \subseteq Orgs /\ None \notin Orgs \cup Conns
    /\ Orgs \cap Visits = {} /\ {Unset, Blank} \cap Orgs = {}

VARIABLES
    role,      \* the role that every connection of the deployment has
    current,   \* app.current_tenant of each connection
    conn,      \* the connection of each session, None outside transactions
    tenant,    \* session.info["tenant_id"]
    at,        \* how far the session has come
    slug,      \* the suffix each registration tries
    pending,   \* rows it has inserted and not committed
    committed  \* rows of each organization that everyone can see

tenancyVars == <<role, current, conn, tenant, at, slug, pending, committed>>

Sessions  == Orgs \cup Visits
Roles     == {"ordinary", "superuser"}
Protected == {"quota", "event"}  \* tables with the policy tenant_isolation
Account   == {"organization", "user", "membership", "quota"}

TenancyInit ==
    /\ role \in Roles
    /\ current = [c \in Conns |-> Unset]
    /\ conn = [s \in Sessions |-> None]
    /\ tenant = [s \in Sessions |-> None]
    /\ at = [s \in Sessions |-> "idle"]
    /\ slug = [o \in Orgs |-> 1]
    /\ pending = [o \in Orgs |-> {}]
    /\ committed = [o \in Orgs |-> {}]

-----------------------------------------------------------------------------
(* Transactions and the policy. *)

BeginOnce(s, c) ==            \* mutant: only a session's first transaction
    \/ conn[s] = c /\ c # None /\ UNCHANGED <<conn, current>>
    \/ /\ conn[s] = None /\ c \in Conns /\ \A r \in Sessions : conn[r] # c
       /\ conn' = [conn EXCEPT ![s] = c]
       /\ current' = [current EXCEPT ![c] =
                          IF tenant[s] # None /\ at[s] \in {"named", "arrived"} THEN tenant[s] ELSE @]
\* A statement uses the transaction that is open or begins one, and then
\* _apply_tenant_context issues SET LOCAL.
Begin(s, c) ==
    \/ conn[s] = c /\ c # None /\ UNCHANGED <<conn, current>>
    \/ /\ conn[s] = None /\ c \in Conns /\ \A r \in Sessions : conn[r] # c
       /\ conn' = [conn EXCEPT ![s] = c]
       /\ current' = [current EXCEPT ![c] = IF tenant[s] # None THEN tenant[s] ELSE @]

EndKeeps(s) ==                \* mutant: SET instead of SET LOCAL
    /\ conn' = [conn EXCEPT ![s] = None]
    /\ UNCHANGED current
\* Commit or rollback: what SET LOCAL set is gone, and '' is left.
End(s) ==
    /\ conn' = [conn EXCEPT ![s] = None]
    /\ current' = IF conn[s] = None THEN current
                  ELSE [current EXCEPT ![conn[s]] = IF @ \in Orgs THEN Blank ELSE @]

\* USING and WITH CHECK of the policy on connection c. A superuser bypasses
\* it, FORCE ROW LEVEL SECURITY or not.
Admits(c, o) == role = "superuser" \/ current[c] = o

Rows(s) == [o \in Orgs |-> committed[o] \cup IF s = o THEN pending[o] ELSE {}]

Visible(s) == {r \in Orgs \X Protected : r[2] \in Rows(s)[r[1]] /\ Admits(conn[s], r[1])}

Step(s, from, to) == at[s] = from /\ at' = [at EXCEPT ![s] = to]

LeaveOpen(s, from, to) ==     \* mutant: the session is not closed
    /\ Step(s, from, to)
    /\ tenant' = [tenant EXCEPT ![s] = None]
    /\ pending' = [o \in Orgs |-> IF o = s THEN {} ELSE pending[o]]
    /\ UNCHANGED <<current, conn, slug, committed>>
\* The session ends with its handler, and rolls back.
Leave(s, from, to) ==
    /\ Step(s, from, to) /\ End(s)
    /\ tenant' = [tenant EXCEPT ![s] = None]
    /\ pending' = [o \in Orgs |-> IF o = s THEN {} ELSE pending[o]]
    /\ UNCHANGED <<slug, committed>>

-----------------------------------------------------------------------------
(* A registration. *)

EmailTaken(o) == \E p \in Orgs : "user" \in committed[p] /\ EmailOf[p] = EmailOf[o]
SlugTaken(o)  == \E p \in Orgs : "organization" \in committed[p] /\ slug[p] = slug[o]

\* get_user_by_email, or 409.
CheckEmail(o) ==
    \/ EmailTaken(o) /\ Leave(o, "idle", "conflict")
    \/ /\ ~EmailTaken(o) /\ Step(o, "idle", "checked")
       /\ \E c \in Conns : Begin(o, c)
       /\ UNCHANGED <<tenant, slug, pending, committed>>

NameTenantInside(o) ==        \* mutant: without the commit
    /\ Step(o, "checked", "named")
    /\ tenant' = [tenant EXCEPT ![o] = o]
    /\ UNCHANGED <<current, conn, slug, pending, committed>>
\* set_tenant_context, and the commit that closes the first transaction.
NameTenant(o) ==
    /\ Step(o, "checked", "named")
    /\ tenant' = [tenant EXCEPT ![o] = o]
    /\ End(o)
    /\ UNCHANGED <<slug, pending, committed>>

\* One round of the loop that looks for a free slug.
TrySlug(o) ==
    /\ Step(o, "named", IF SlugTaken(o) THEN "named" ELSE "slugged")
    /\ \E c \in Conns : Begin(o, c)
    /\ slug' = [slug EXCEPT ![o] = IF SlugTaken(o) THEN @ + 1 ELSE @]
    /\ UNCHANGED <<tenant, pending, committed>>

\* An insert waits for an uncommitted row with its key, and fails on a
\* committed one.
Insert(o, rows, from, to) ==
    /\ Step(o, from, to)
    /\ pending' = [pending EXCEPT ![o] = @ \cup rows]
    /\ UNCHANGED <<current, conn, tenant, slug, committed>>

\* The first flush inserts the organization, then the user.
InsertOrganization(o) ==
    /\ \A p \in Orgs \ {o} : "organization" \in pending[p] => slug[p] # slug[o]
    /\ IF SlugTaken(o) THEN Leave(o, "slugged", "failed")
       ELSE Insert(o, {"organization"}, "slugged", "organized")

InsertUser(o) ==
    /\ \A p \in Orgs \ {o} : "user" \in pending[p] => EmailOf[p] # EmailOf[o]
    /\ IF EmailTaken(o) THEN Leave(o, "organized", "failed")
       ELSE Insert(o, {"user"}, "organized", "joined")

InsertQuotaOnly(o) ==         \* mutant: the membership is not added
    /\ at[o] = "joined"
    /\ IF Admits(conn[o], o) THEN Insert(o, {"quota"}, "joined", "flushed")
       ELSE Leave(o, "joined", "failed")
\* The membership and, in create_default_quota, the row the policy checks.
InsertQuota(o) ==
    /\ at[o] = "joined"
    /\ IF Admits(conn[o], o) THEN Insert(o, {"membership", "quota"}, "joined", "flushed")
       ELSE Leave(o, "joined", "failed")

Commit(o) ==
    /\ Step(o, "flushed", "committed") /\ End(o)
    /\ committed' = [committed EXCEPT ![o] = @ \cup pending[o]]
    /\ pending' = [pending EXCEPT ![o] = {}]
    /\ UNCHANGED <<tenant, slug>>

\* db.refresh twice, and the tokens are issued.
Registered(o) ==
    /\ Step(o, "committed", "refreshed")
    /\ \E c \in Conns : Begin(o, c)
    /\ UNCHANGED <<tenant, slug, pending, committed>>
Answer(o) == Leave(o, "refreshed", "registered")

SignUp(o) ==
    /\ UNCHANGED role
    /\ \/ CheckEmail(o) \/ NameTenant(o) \/ TrySlug(o)
       \/ InsertOrganization(o) \/ InsertUser(o) \/ InsertQuota(o)
       \/ Commit(o) \/ Registered(o) \/ Answer(o)

Ended == {"conflict", "failed", "crashed", "registered"}

\* The connection or the process is lost; the database rolls back.
Crash(o) ==
    /\ o \in MayCrash /\ at[o] \notin Ended \cup {"idle"}
    /\ Leave(o, at[o], "crashed") /\ UNCHANGED role

-----------------------------------------------------------------------------
(* A visit: get_current_auth, or _tenant_session of the worker. *)

Arrive(v, o) ==
    /\ "membership" \in committed[o]
    /\ Step(v, "idle", "arrived")
    /\ tenant' = [tenant EXCEPT ![v] = o]
    /\ UNCHANGED <<current, conn, slug, pending, committed>>

Query(v) ==
    /\ at[v] \in {"arrived", "back"} /\ conn[v] = None
    /\ \E c \in Conns : Begin(v, c)
    /\ UNCHANGED <<tenant, at, slug, pending, committed>>

\* A repository call inserts a row, such as an event, and commits.
Write(v) ==
    /\ at[v] \in {"arrived", "back"} /\ conn[v] # None
    /\ IF Admits(conn[v], tenant[v])
         THEN /\ committed' = [committed EXCEPT ![tenant[v]] = @ \cup {"event"}]
              /\ Step(v, at[v], "back") /\ End(v)
              /\ UNCHANGED <<tenant, slug, pending>>
         ELSE Leave(v, at[v], "failed")

Depart(v) == at[v] \in {"arrived", "back"} /\ Leave(v, at[v], "idle")

Visit(v) ==
    /\ UNCHANGED role
    /\ (\E o \in Orgs : Arrive(v, o)) \/ Query(v) \/ Write(v) \/ Depart(v)

TenancyNext == (\E o \in Orgs : SignUp(o) \/ Crash(o)) \/ \E v \in Visits : Visit(v)

\* A handler that has started runs on, visits end, and the pool serves its waiters in turn.
TenancyFairness ==
    /\ \A o \in Orgs : SF_tenancyVars(at[o] # "idle" /\ SignUp(o))
    /\ \A v \in Visits : WF_tenancyVars(conn[v] # None /\ Depart(v) /\ UNCHANGED role)

TenancySpec == TenancyInit /\ [][TenancyNext]_tenancyVars /\ TenancyFairness

-----------------------------------------------------------------------------
(* Properties. *)

\* No connection serves two transactions, the setting is an organization's
\* only during one, and a registration that is over holds nothing.
TenancyTypeOK ==
    /\ role \in Roles
    /\ current \in [Conns -> Orgs \cup {Unset, Blank}]
    /\ conn \in [Sessions -> Conns \cup {None}]
    /\ \A r, s \in Sessions : r # s /\ conn[r] = conn[s] => conn[r] = None
    /\ \A c \in Conns : current[c] \in Orgs => \E s \in Sessions : conn[s] = c
    /\ tenant \in [Sessions -> Orgs \cup {None}]
    /\ slug \in [Orgs -> 1 .. Cardinality(Orgs)]
    /\ pending \in [Orgs -> SUBSET Account]
    /\ committed \in [Orgs -> SUBSET (Account \cup {"event"})]
    /\ \A o \in Orgs : at[o] \in Ended => conn[o] = None /\ pending[o] = {}

\* An account is there whole or not at all: the user never without the
\* membership that signs them in, nor the organization without its quota; and
\* no two accounts have one address or one slug.
RegistrationIsWhole ==
    /\ \A o \in Orgs : committed[o] = {} \/ Account \subseteq committed[o]
    /\ \A o, p \in Orgs : o # p /\ committed[o] # {} /\ committed[p] # {} =>
           EmailOf[o] # EmailOf[p] /\ slug[o] # slug[p]

\* A registration that nothing interrupts fails only because another one took
\* its address or its slug meanwhile; the database refuses none of its rows
\* for want of a tenant context, whichever role it is asked as.
FailsOnlyForCause ==
    /\ \A o \in Orgs : at[o] = "failed" =>
           \E p \in Orgs \ {o} : committed[p] # {} /\ (EmailOf[p] = EmailOf[o] \/ slug[p] = slug[o])
    /\ \A v \in Visits : at[v] # "failed"

\* Connected as an ordinary role: in every transaction of a session, not only
\* in the first, the database shows all the protected rows of the session's
\* tenant and no other's; and none to a session that has no tenant, whoever
\* used its connection before. (A superuser is shown every row: there, as
\* SECURITY.md:59-69 says, the policies do nothing, and only the conditions
\* that each query states itself tell tenants apart.)
SeesExactlyItsOwn ==
    role = "ordinary" =>
        \A s \in Sessions : conn[s] # None =>
            Visible(s) = {r \in Orgs \X Protected : r[1] = tenant[s] /\ r[2] \in Rows(s)[r[1]]}

\* Every registration comes to an end, also one that waits for the rows of
\* another, or for a connection.
RegistrationsEnd == \A o \in Orgs : at[o] # "idle" ~> at[o] \in Ended
=============================================================================
