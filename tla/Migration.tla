------------------------------ MODULE Migration ------------------------------
(***************************************************************************)
(* Migration 0002 (migrations/versions/0002_tenant_hardening.py): between  *)
(* revisions 0001 and 0002 every organization gets a quota, and the rows   *)
(* of four tables get the organization of their job.                       *)
(*                                                                         *)
(* The application adds rows under either revision, never while a          *)
(* migration runs. A migration is one transaction, and may fail anywhere.  *)
(***************************************************************************)
EXTENDS Naturals, FiniteSets

CONSTANTS
    Tenants,   \* organizations
    Entries,   \* rows of research_jobs and of the tables below it
    TableOf,   \* the table each row is in
    ParentOf,  \* the row its foreign key names; the organization of a job
    Null

Children == {"research_events", "sources", "crawl_pages", "research_results"}

ASSUME MigrationAssumption ==
    /\ Tenants \cap Entries = {} /\ Null \notin Tenants \cup Entries
    /\ TableOf \in [Entries -> Children \cup {"research_jobs"}]
    /\ \A r \in Entries :
          IF TableOf[r] = "research_jobs" THEN ParentOf[r] \in Tenants
          ELSE ParentOf[r] \in Entries /\
               TableOf[ParentOf[r]] = IF TableOf[r] = "crawl_pages" THEN "sources" ELSE "research_jobs"

VARIABLES
    schema,   \* what the running transaction and the committed state contain:
              \* the organizations, the rows, the organization_id of each row,
              \* the organizations with a quota, the columns and the policies
    stable,   \* the state a rollback returns to
    next      \* the next statement of the migration that runs, 0 for none

migrationVars == <<schema, stable, next>>

\* upgrade() of 0001.
Empty == [orgs |-> {}, rows |-> {}, owner |-> [r \in Entries |-> Null], quotas |-> {},
          columns |-> {}, guarded |-> {}]

MigrationInit == schema = Empty /\ stable = Empty /\ next = 0

OwnerOf[r \in Entries] == LET p == ParentOf[r] IN IF p \in Tenants THEN p ELSE OwnerOf[p]

-----------------------------------------------------------------------------
(* The application. *)

Hardened == "tenant_quotas" \in schema.columns

\* Under 0002 registration adds the quota too.
AddOrganization(o) ==
    /\ next = 0 /\ o \notin schema.orgs
    /\ schema' = [schema EXCEPT !.orgs = @ \cup {o}, !.quotas = @ \cup IF Hardened THEN {o} ELSE {}]
    /\ stable' = schema' /\ UNCHANGED next

\* Under 0002 the repository passes the organization of the job.
AddRow(r) ==
    /\ next = 0 /\ r \notin schema.rows /\ ParentOf[r] \in schema.orgs \cup schema.rows
    /\ schema' = [schema EXCEPT !.rows = @ \cup {r}, !.owner[r] =
                      IF Hardened \/ TableOf[r] = "research_jobs" THEN OwnerOf[r] ELSE Null]
    /\ stable' = schema' /\ UNCHANGED next

-----------------------------------------------------------------------------
(* upgrade() and downgrade(), statement by statement. *)

BackfillOrderPagesFirst ==    \* mutant: before the sources they read
    <<"research_events", "crawl_pages", "sources", "research_results">>
\* The pages have no job of their own and take it from their source.
BackfillOrder == <<"research_events", "sources", "crawl_pages", "research_results">>

\* UPDATE ... FROM the table that has the organization.
Filling(t) == [r \in Entries |-> IF r \in schema.rows /\ TableOf[r] = t THEN schema.owner[ParentOf[r]]
                                 ELSE schema.owner[r]]

\* SET NOT NULL refuses a column that has a null.
Accepted(t) == \A r \in schema.rows : TableOf[r] = t => Filling(t)[r] # Null

Backfill(t) ==
    /\ Accepted(t)
    /\ schema' = [schema EXCEPT !.owner = Filling(t), !.columns = @ \cup {t}]

CreateQuotasEmpty ==          \* mutant: no row for the organizations there are
    schema' = [schema EXCEPT !.columns = @ \cup {"tenant_quotas"}]
\* CREATE TABLE tenant_quotas and a standard row for every organization.
CreateQuotas ==
    schema' = [schema EXCEPT !.columns = @ \cup {"tenant_quotas"}, !.quotas = schema.orgs]

Upgrade ==
    /\ next \in 1 .. 6
    /\ \/ next = 1 /\ CreateQuotas
       \/ next \in 2 .. 5 /\ Backfill(BackfillOrder[next - 1])
       \/ next = 6 /\ schema' = [schema EXCEPT !.guarded = Children \cup {"tenant_quotas"}]
    /\ next' = IF next = 6 THEN 0 ELSE next + 1
    /\ stable' = IF next = 6 THEN schema' ELSE stable

\* downgrade(): the policies first, then the columns, then the quotas.
Downgrade ==
    /\ next \in 7 .. 9
    /\ schema' =
         IF next = 7 THEN [schema EXCEPT !.guarded = {}]
         ELSE IF next = 8 THEN [schema EXCEPT !.columns = @ \ Children, !.owner = [r \in Entries |->
                                  IF TableOf[r] = "research_jobs" THEN schema.owner[r] ELSE Null]]
         ELSE [schema EXCEPT !.columns = {}, !.quotas = {}]
    /\ next' = IF next = 9 THEN 0 ELSE next + 1
    /\ stable' = IF next = 9 THEN schema' ELSE stable

Start == next = 0 /\ next' = (IF Hardened THEN 7 ELSE 1) /\ UNCHANGED <<schema, stable>>

\* A statement fails, or the process is lost.
Rollback == next # 0 /\ schema' = stable /\ next' = 0 /\ UNCHANGED stable

MigrationNext ==
    \/ \E o \in Tenants : AddOrganization(o)
    \/ \E r \in Entries : AddRow(r)
    \/ Start \/ Upgrade \/ Downgrade \/ Rollback

MigrationSpec == MigrationInit /\ [][MigrationNext]_migrationVars

-----------------------------------------------------------------------------
(* Properties. *)

\* Under 0002 every organization has a quota and every row the organization
\* of its job, whether the row is older than the column or not; the policies
\* cover no row of an organization that is not known.
TenantOfItsJob ==
    next = 0 /\ Hardened =>
        /\ schema.quotas = schema.orgs
        /\ \A r \in schema.rows : schema.owner[r] = OwnerOf[r]
        /\ schema.guarded = schema.columns

\* An upgrade gets through whatever rows it finds: no SET NOT NULL, the one
\* statement that rows can refuse, meets a row that the statement before it
\* left empty.
UpgradeGetsThrough == next \in 2 .. 5 => Accepted(BackfillOrder[next - 1])
=============================================================================
