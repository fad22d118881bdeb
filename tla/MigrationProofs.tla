--------------------------- MODULE MigrationProofs ---------------------------
(***************************************************************************)
(* Revision 0002 puts every row with its organization, for any rows, older *)
(* than the column or not, any number of upgrades and downgrades, and a    *)
(* failure at any statement of them.                                       *)
(***************************************************************************)
EXTENDS Migration, TLAPS

USE MigrationAssumption

Everything == Children \cup {"tenant_quotas"}

Schemas == [orgs : SUBSET Tenants, rows : SUBSET Entries, owner : [Entries -> Tenants \cup {Null}],
            quotas : SUBSET Tenants, columns : SUBSET Everything, guarded : SUBSET Everything]

\* Foreign keys: the row below another one has it.
Rooted(s) == \A r \in s.rows : TableOf[r] = "research_jobs" \/ ParentOf[r] \in s.rows

\* The rows of the jobs, and of these tables, have the organization they should.
Filled(s, tables) ==
    \A r \in s.rows : TableOf[r] \in tables \cup {"research_jobs"} => s.owner[r] = OwnerOf[r]

\* The tables filled when statement k of the upgrade comes.
Done(k) == {t \in Children : \/ k >= 3 /\ t = "research_events"
                             \/ k >= 4 /\ t = "sources"
                             \/ k >= 5 /\ t = "crawl_pages"
                             \/ k >= 6 /\ t = "research_results"}

\* A state of revision 0001, and one of 0002.
Old(s) == Rooted(s) /\ Filled(s, {}) /\ s.columns = {} /\ s.guarded = {}
New(s) == /\ Rooted(s) /\ Filled(s, Children)
          /\ s.columns = Everything /\ s.guarded = Everything /\ s.quotas = s.orgs

\* What has been done when statement k comes; a rollback leads to a whole
\* state.
Upgrading(k) ==
    /\ Old(stable) /\ Rooted(schema) /\ Filled(schema, Done(k))
    /\ schema.columns = {"tenant_quotas"} \cup Done(k) /\ schema.guarded = {}
    /\ schema.quotas = schema.orgs
Downgrading(k) ==
    /\ New(stable) /\ Rooted(schema) /\ Filled(schema, {}) /\ schema.guarded = {}

Course ==
    /\ next = 0 => schema = stable /\ (Old(stable) \/ New(stable))
    /\ next = 1 => schema = stable /\ Old(stable)
    /\ next \in 2 .. 6 => Upgrading(next)
    /\ next = 7 => schema = stable /\ New(stable)
    /\ next \in 8 .. 9 => Downgrading(next)

MigrationInv == schema \in Schemas /\ stable \in Schemas /\ next \in 0 .. 9 /\ Course

-----------------------------------------------------------------------------
(* The organization of a row: the recursion goes up three tables at most. *)

\* What the foreign keys lead to.
LEMMA TableOfParent ==
    ASSUME NEW r \in Entries
    PROVE  /\ TableOf[r] = "research_jobs" => ParentOf[r] \in Tenants
           /\ TableOf[r] # "research_jobs" => ParentOf[r] \in Entries /\ ParentOf[r] \notin Tenants
           /\ TableOf[r] = "crawl_pages" => TableOf[ParentOf[r]] = "sources"
           /\ TableOf[r] \notin {"research_jobs", "crawl_pages"} => TableOf[ParentOf[r]] = "research_jobs"
BY DEF Children

\* The recursion has a solution, and OwnerOf is it: a row has the organization of its parent.
LEMMA OwnerIsOfParent ==
    ASSUME NEW r \in Entries
    PROVE  OwnerOf[r] = IF ParentOf[r] \in Tenants THEN ParentOf[r] ELSE OwnerOf[ParentOf[r]]
<1> DEFINE Up(p) == ParentOf[p]
           f == [e \in Entries |-> IF Up(e) \in Tenants THEN Up(e)
                                   ELSE IF Up(Up(e)) \in Tenants THEN Up(Up(e)) ELSE Up(Up(Up(e)))]
           Recursion(g) == g = [e \in Entries |-> LET p == ParentOf[e]
                                                  IN  IF p \in Tenants THEN p ELSE g[p]]
<1>1. ASSUME NEW e \in Entries
      PROVE  f[e] = IF Up(e) \in Tenants THEN Up(e) ELSE f[Up(e)]
  <2>1. CASE TableOf[e] = "research_jobs"
    BY <2>1, TableOfParent
  <2>2. CASE TableOf[e] \notin {"research_jobs", "crawl_pages"}
    BY <2>2, TableOfParent
  <2>3. CASE TableOf[e] = "crawl_pages"
    <3>1. /\ Up(e) \in Entries \ Tenants /\ TableOf[Up(e)] = "sources"
          /\ Up(Up(e)) \in Entries \ Tenants /\ TableOf[Up(Up(e))] = "research_jobs"
          /\ Up(Up(Up(e))) \in Tenants
      BY <2>3, TableOfParent
    <3> QED
      BY <3>1
  <2> QED
    BY <2>1, <2>2, <2>3
<1>2. Recursion(f)
  BY <1>1
<1>3. OwnerOf = CHOOSE g : Recursion(g)
  BY DEF OwnerOf
<1> HIDE DEF f
<1>4. Recursion(OwnerOf)
  <2> HIDE DEF Recursion
  <2> QED
    BY <1>2, <1>3
<1> QED
  BY <1>4

\* The recursion ends at an organization.
LEMMA OwnerIsTenant ==
    ASSUME NEW r \in Entries
    PROVE  OwnerOf[r] \in Tenants
<1>1. ASSUME NEW e \in Entries, TableOf[e] = "research_jobs"
      PROVE  OwnerOf[e] \in Tenants
  BY <1>1, TableOfParent, OwnerIsOfParent
<1>2. ASSUME NEW e \in Entries, TableOf[e] \notin {"research_jobs", "crawl_pages"}
      PROVE  OwnerOf[e] \in Tenants
  <2>1. ParentOf[e] \in Entries \ Tenants /\ TableOf[ParentOf[e]] = "research_jobs"
    BY <1>2, TableOfParent
  <2> QED
    BY <1>1, <2>1, OwnerIsOfParent
<1>3. ASSUME TableOf[r] = "crawl_pages"
      PROVE  OwnerOf[r] \in Tenants
  <2>1. ParentOf[r] \in Entries \ Tenants /\ TableOf[ParentOf[r]] = "sources"
    BY <1>3, TableOfParent
  <2> QED
    BY <1>2, <2>1, OwnerIsOfParent
<1> QED
  BY <1>1, <1>2, <1>3

-----------------------------------------------------------------------------
(* The steps. *)

\* Revision 0001, empty.
LEMMA MigrationStart == MigrationInit => MigrationInv
<1> SUFFICES ASSUME MigrationInit
             PROVE  MigrationInv
  OBVIOUS
<1>1. Empty \in Schemas /\ Old(Empty)
  BY DEF Empty, Schemas, Old, Rooted, Filled
<1> QED
  BY <1>1 DEF MigrationInit, MigrationInv, Course

\* Revision 0002 is what has its quotas.
LEMMA WhichRevision ==
    ASSUME MigrationInv, next = 0
    PROVE  /\ schema = stable
           /\ Hardened => New(schema)
           /\ ~ Hardened => Old(schema)
BY DEF MigrationInv, Course, Hardened, Old, New, Everything

\* An organization comes with the quota its revision asks for.
LEMMA OrganizationStep ==
    ASSUME MigrationInv, NEW o \in Tenants, AddOrganization(o)
    PROVE  MigrationInv'
<1> USE DEF MigrationInv
<1>1. next = 0 /\ next' = 0 /\ stable' = schema'
  BY DEF AddOrganization
<1>2. /\ schema'.orgs = schema.orgs \cup {o}
      /\ schema'.quotas = schema.quotas \cup IF Hardened THEN {o} ELSE {}
      /\ schema'.rows = schema.rows /\ schema'.owner = schema.owner
      /\ schema'.columns = schema.columns /\ schema'.guarded = schema.guarded
      /\ schema' \in Schemas
  BY DEF AddOrganization, Schemas
<1>3. Hardened => New(schema')
  BY <1>1, <1>2, WhichRevision DEF New, Rooted, Filled
<1>4. ~ Hardened => Old(schema')
  BY <1>1, <1>2, WhichRevision DEF Old, Rooted, Filled
<1> QED
  BY <1>1, <1>2, <1>3, <1>4 DEF Course

\* A row comes with its organization, or under 0001 with none.
LEMMA RowStep ==
    ASSUME MigrationInv, NEW r \in Entries, AddRow(r)
    PROVE  MigrationInv'
<1> USE DEF MigrationInv
<1>1. /\ next = 0 /\ next' = 0 /\ stable' = schema'
      /\ ParentOf[r] \in schema.orgs \cup schema.rows
  BY DEF AddRow
<1>2. TableOf[r] = "research_jobs" \/ ParentOf[r] \in schema.rows
  BY <1>1, TableOfParent DEF Schemas
<1> DEFINE new == IF Hardened \/ TableOf[r] = "research_jobs" THEN OwnerOf[r] ELSE Null
<1>3. new \in Tenants \cup {Null}
  BY OwnerIsTenant
<1>4. schema' = [schema EXCEPT !.rows = @ \cup {r}, !.owner[r] = new]
  BY DEF AddRow
<1>5. Hardened => new = OwnerOf[r]
  OBVIOUS
<1>6. TableOf[r] = "research_jobs" => new = OwnerOf[r]
  OBVIOUS
<1> HIDE DEF new
<1>7. /\ schema'.orgs = schema.orgs /\ schema'.quotas = schema.quotas
      /\ schema'.rows = schema.rows \cup {r} /\ schema'.owner = [schema.owner EXCEPT ![r] = new]
      /\ schema'.columns = schema.columns /\ schema'.guarded = schema.guarded
      /\ schema' \in Schemas
  BY <1>3, <1>4 DEF Schemas
<1>8. Rooted(schema) => Rooted(schema')
  BY <1>2, <1>7 DEF Rooted
<1>9. /\ schema'.owner[r] = new
      /\ \A e \in schema.rows : e # r => schema'.owner[e] = schema.owner[e]
  BY <1>7 DEF Schemas
<1>10. Hardened => New(schema')
  BY <1>1, <1>5, <1>7, <1>8, <1>9, WhichRevision DEF New, Filled
<1>11. ~ Hardened => Old(schema')
  BY <1>1, <1>6, <1>7, <1>8, <1>9, WhichRevision DEF Old, Filled
<1> QED
  BY <1>1, <1>7, <1>10, <1>11 DEF Course

\* The tables a table is filled from are filled before it, so that each of its
\* rows gets the organization it should.
LEMMA FillsWell ==
    ASSUME MigrationInv, NEW k \in 2 .. 5, next = k
    PROVE  /\ Filling(BackfillOrder[k - 1]) \in [Entries -> Tenants \cup {Null}]
           /\ BackfillOrder[k - 1] \in Children
           /\ Done(k + 1) = Done(k) \cup {BackfillOrder[k - 1]}
           /\ \A r \in schema.rows : TableOf[r] \in Done(k + 1) \cup {"research_jobs"} =>
                  Filling(BackfillOrder[k - 1])[r] = OwnerOf[r]
<1> USE DEF MigrationInv
<1> DEFINE t == BackfillOrder[k - 1]
<1>1. /\ k = 2 => t = "research_events"
      /\ k = 3 => t = "sources"
      /\ k = 4 => t = "crawl_pages"
      /\ k = 5 => t = "research_results"
      /\ t \in Children
  BY DEF BackfillOrder, Children
<1>2. Done(k + 1) = Done(k) \cup {t}
  BY <1>1 DEF Done, Children
<1>3. Upgrading(k)
  BY DEF Course
<1> HIDE DEF t
<1>4. \A r \in schema.rows : TableOf[r] = t =>
          TableOf[ParentOf[r]] \in Done(k) \cup {"research_jobs"}
  <2> SUFFICES ASSUME NEW r \in schema.rows, TableOf[r] = t
               PROVE  TableOf[ParentOf[r]] \in Done(k) \cup {"research_jobs"}
    OBVIOUS
  <2>1. r \in Entries /\ t # "research_jobs"
    BY <1>1 DEF Schemas, Children
  <2>2. CASE t = "crawl_pages"
    BY <1>1, <2>1, <2>2, TableOfParent DEF Done, Children
  <2>3. CASE t # "crawl_pages"
    BY <2>1, <2>3, TableOfParent
  <2> QED
    BY <2>2, <2>3
<1>5. Filling(t) \in [Entries -> Tenants \cup {Null}]
  <2> SUFFICES ASSUME NEW r \in Entries
               PROVE  Filling(t)[r] \in Tenants \cup {Null}
    BY DEF Filling
  <2>1. CASE r \in schema.rows /\ TableOf[r] = t
    <3>1. ParentOf[r] \in Entries
      BY <1>1, <2>1, TableOfParent DEF Children
    <3> QED
      BY <2>1, <3>1 DEF Schemas, Filling
  <2>2. CASE ~ (r \in schema.rows /\ TableOf[r] = t)
    BY <2>2 DEF Schemas, Filling
  <2> QED
    BY <2>1, <2>2
<1>6. \A r \in schema.rows : TableOf[r] \in Done(k + 1) \cup {"research_jobs"} =>
          Filling(t)[r] = OwnerOf[r]
  <2> SUFFICES ASSUME NEW r \in schema.rows, TableOf[r] \in Done(k + 1) \cup {"research_jobs"}
               PROVE  Filling(t)[r] = OwnerOf[r]
    OBVIOUS
  <2>1. r \in Entries
    BY DEF Schemas
  <2>2. CASE TableOf[r] = t
    <3>1. /\ ParentOf[r] \in Entries \ Tenants /\ ParentOf[r] \in schema.rows
          /\ OwnerOf[r] = OwnerOf[ParentOf[r]]
      <4>1. TableOf[r] # "research_jobs"
        BY <1>1, <2>2 DEF Children
      <4> QED
        BY <1>3, <2>1, <4>1, TableOfParent, OwnerIsOfParent DEF Upgrading, Rooted
    <3>2. schema.owner[ParentOf[r]] = OwnerOf[ParentOf[r]]
      BY <1>3, <1>4, <2>2, <3>1 DEF Upgrading, Filled
    <3> QED
      BY <2>1, <2>2, <3>1, <3>2 DEF Filling
  <2>3. CASE TableOf[r] # t
    BY <1>2, <1>3, <2>1, <2>3 DEF Upgrading, Filled, Filling
  <2> QED
    BY <2>2, <2>3
<1> QED
  BY <1>1, <1>2, <1>5, <1>6 DEF t

\* The statement that fills a table leaves it filled.
LEMMA BackfillFills ==
    ASSUME MigrationInv, NEW k \in 2 .. 5, next = k, Backfill(BackfillOrder[k - 1])
    PROVE  /\ schema' \in Schemas /\ Rooted(schema') /\ Filled(schema', Done(k + 1))
           /\ schema'.columns = {"tenant_quotas"} \cup Done(k + 1)
           /\ schema'.guarded = {} /\ schema'.quotas = schema'.orgs
<1> DEFINE t == BackfillOrder[k - 1]
<1>1. schema \in Schemas /\ Upgrading(k)
  BY DEF MigrationInv, Course
<1>2. schema' = [schema EXCEPT !.owner = Filling(t), !.columns = @ \cup {t}]
  BY DEF Backfill
<1>3. /\ Filling(t) \in [Entries -> Tenants \cup {Null}] /\ t \in Children
      /\ Done(k + 1) = Done(k) \cup {t}
      /\ \A r \in schema.rows : TableOf[r] \in Done(k + 1) \cup {"research_jobs"} =>
             Filling(t)[r] = OwnerOf[r]
  BY FillsWell
<1> HIDE DEF t
<1>4. /\ schema'.orgs = schema.orgs /\ schema'.quotas = schema.quotas /\ schema'.rows = schema.rows
      /\ schema'.owner = Filling(t) /\ schema'.columns = schema.columns \cup {t}
      /\ schema'.guarded = schema.guarded /\ schema' \in Schemas
  BY <1>1, <1>2, <1>3 DEF Schemas, Everything
<1> QED
  BY <1>1, <1>3, <1>4 DEF Upgrading, Rooted, Filled

\* Each statement of the upgrade leaves what the next one needs.
LEMMA UpgradeStep ==
    ASSUME MigrationInv, Upgrade
    PROVE  MigrationInv'
<1> USE DEF MigrationInv
<1>1. CASE next = 1
  <2>1. /\ schema' = [schema EXCEPT !.columns = @ \cup {"tenant_quotas"}, !.quotas = schema.orgs]
        /\ next' = 2 /\ stable' = stable
    BY <1>1 DEF Upgrade, CreateQuotas
  <2>2. /\ schema'.orgs = schema.orgs /\ schema'.rows = schema.rows /\ schema'.owner = schema.owner
        /\ schema'.quotas = schema.orgs /\ schema'.columns = schema.columns \cup {"tenant_quotas"}
        /\ schema'.guarded = schema.guarded /\ schema' \in Schemas
    BY <2>1 DEF Schemas, Everything
  <2>3. schema = stable /\ Old(stable)
    BY <1>1 DEF Course
  <2>4. Done(2) = {}
    BY DEF Done
  <2>5. Upgrading(2)'
    BY <2>1, <2>2, <2>3, <2>4 DEF Upgrading, Old, Rooted, Filled
  <2> QED
    BY <2>1, <2>2, <2>5 DEF Course
<1>2. CASE next \in 2 .. 5
  <2>1. Backfill(BackfillOrder[next - 1]) /\ next' = next + 1 /\ stable' = stable
    BY <1>2 DEF Upgrade
  <2>2. Old(stable)
    BY <1>2 DEF Course, Upgrading
  <2>3. PICK k \in 2 .. 5 : next = k
    BY <1>2
  <2>4. schema' \in Schemas /\ Upgrading(k + 1)'
    BY <2>1, <2>2, <2>3, BackfillFills DEF Upgrading
  <2> QED
    BY <2>1, <2>3, <2>4 DEF Course
<1>3. CASE next = 6
  <2>1. /\ schema' = [schema EXCEPT !.guarded = Everything] /\ next' = 0 /\ stable' = schema'
    BY <1>3 DEF Upgrade, Everything
  <2>2. /\ schema'.orgs = schema.orgs /\ schema'.quotas = schema.quotas /\ schema'.rows = schema.rows
        /\ schema'.owner = schema.owner /\ schema'.columns = schema.columns
        /\ schema'.guarded = Everything /\ schema' \in Schemas
    BY <2>1 DEF Schemas
  <2>3. Done(6) = Children
    BY DEF Done, Children
  <2>4. Upgrading(6)
    BY <1>3 DEF Course
  <2>5. New(schema')
    BY <2>2, <2>3, <2>4 DEF Upgrading, New, Rooted, Filled, Everything
  <2> QED
    BY <2>1, <2>2, <2>5 DEF Course
<1> QED
  BY <1>1, <1>2, <1>3 DEF Upgrade

\* A downgrade takes the columns and leaves the jobs their organization.
LEMMA DowngradeStep ==
    ASSUME MigrationInv, Downgrade
    PROVE  MigrationInv'
<1> USE DEF MigrationInv
<1>1. CASE next = 7
  <2>1. schema' = [schema EXCEPT !.guarded = {}] /\ next' = 8 /\ stable' = stable
    BY <1>1 DEF Downgrade
  <2>2. /\ schema'.rows = schema.rows /\ schema'.owner = schema.owner
        /\ schema'.guarded = {} /\ schema' \in Schemas
    BY <2>1 DEF Schemas
  <2>3. schema = stable /\ New(stable)
    BY <1>1 DEF Course
  <2>4. Downgrading(8)'
    BY <2>1, <2>2, <2>3 DEF Downgrading, New, Rooted, Filled
  <2> QED
    BY <2>1, <2>2, <2>4 DEF Course
<1>2. CASE next = 8
  <2> DEFINE jobs == [r \in Entries |-> IF TableOf[r] = "research_jobs" THEN schema.owner[r] ELSE Null]
  <2>1. /\ schema' = [schema EXCEPT !.columns = @ \ Children, !.owner = jobs]
        /\ next' = 9 /\ stable' = stable
    BY <1>2 DEF Downgrade
  <2>2. jobs \in [Entries -> Tenants \cup {Null}]
    BY DEF Schemas
  <2>3. \A r \in Entries : TableOf[r] = "research_jobs" => jobs[r] = schema.owner[r]
    OBVIOUS
  <2> HIDE DEF jobs
  <2>4. /\ schema'.rows = schema.rows /\ schema'.owner = jobs
        /\ schema'.guarded = schema.guarded /\ schema' \in Schemas
    BY <2>1, <2>2 DEF Schemas
  <2>5. Downgrading(8)
    BY <1>2 DEF Course
  <2>6. schema.rows \subseteq Entries
    BY DEF Schemas
  <2>7. Downgrading(9)'
    BY <2>1, <2>3, <2>4, <2>5, <2>6 DEF Downgrading, Rooted, Filled
  <2> QED
    BY <2>1, <2>4, <2>7 DEF Course
<1>3. CASE next = 9
  <2>1. /\ schema' = [schema EXCEPT !.columns = {}, !.quotas = {}]
        /\ next' = 0 /\ stable' = schema'
    BY <1>3 DEF Downgrade
  <2>2. /\ schema'.rows = schema.rows /\ schema'.owner = schema.owner /\ schema'.columns = {}
        /\ schema'.guarded = schema.guarded /\ schema' \in Schemas
    BY <2>1 DEF Schemas
  <2>3. Downgrading(9)
    BY <1>3 DEF Course
  <2>4. Old(schema')
    BY <2>2, <2>3 DEF Downgrading, Old, Rooted, Filled
  <2> QED
    BY <2>1, <2>2, <2>4 DEF Course
<1> QED
  BY <1>1, <1>2, <1>3 DEF Downgrade

\* A rollback leads back to a whole revision.
LEMMA MigrationStep ==
    ASSUME MigrationInv, [MigrationNext]_migrationVars
    PROVE  MigrationInv'
<1> USE DEF MigrationInv
<1>1. CASE UNCHANGED migrationVars
  BY <1>1 DEF migrationVars, Course, Upgrading, Downgrading
<1>2. CASE (\E o \in Tenants : AddOrganization(o)) \/ \E r \in Entries : AddRow(r)
  BY <1>2, OrganizationStep, RowStep
<1>3. CASE Start
  <2>1. next = 0 /\ next' = (IF Hardened THEN 7 ELSE 1) /\ UNCHANGED <<schema, stable>>
    BY <1>3 DEF Start
  <2>2. schema = stable /\ (Hardened => New(stable)) /\ (~ Hardened => Old(stable))
    BY <2>1, WhichRevision
  <2> QED
    BY <2>1, <2>2 DEF Course
<1>4. CASE Upgrade
  BY <1>4, UpgradeStep
<1>5. CASE Downgrade
  BY <1>5, DowngradeStep
<1>6. CASE Rollback
  <2>1. next # 0 /\ schema' = stable /\ next' = 0 /\ stable' = stable
    BY <1>6 DEF Rollback
  <2>2. Old(stable) \/ New(stable)
    BY <2>1 DEF Course, Upgrading, Downgrading
  <2> QED
    BY <2>1, <2>2 DEF Course
<1> QED
  BY <1>1, <1>2, <1>3, <1>4, <1>5, <1>6 DEF MigrationNext

\* Whenever no migration runs and the columns of 0002 are there, all rows have
\* the organization of their job, all organizations a quota, and all tables
\* their policy: for any rows and any history of migrations that failed.
THEOREM RowsHaveTheirTenant == MigrationSpec => []TenantOfItsJob
<1>1. MigrationInv => TenantOfItsJob
  <2> SUFFICES ASSUME MigrationInv, next = 0, Hardened
               PROVE  /\ schema.quotas = schema.orgs
                      /\ \A r \in schema.rows : schema.owner[r] = OwnerOf[r]
                      /\ schema.guarded = schema.columns
    BY DEF TenantOfItsJob
  <2>1. New(schema)
    BY WhichRevision
  <2>2. \A r \in schema.rows : TableOf[r] \in Children \cup {"research_jobs"}
    BY DEF MigrationInv, Schemas
  <2> QED
    BY <2>1, <2>2 DEF New, Filled
<1>2. MigrationInit /\ [][MigrationNext]_migrationVars => []MigrationInv
  BY MigrationStart, MigrationStep, PTL
<1> QED
  BY <1>1, <1>2, PTL DEF MigrationSpec

\* No SET NOT NULL of an upgrade meets a null, whatever rows were there under
\* revision 0001 and however many upgrades failed before.
THEOREM UpgradesGetThrough == MigrationSpec => []UpgradeGetsThrough
<1>1. MigrationInv => UpgradeGetsThrough
  <2> SUFFICES ASSUME MigrationInv, next \in 2 .. 5
               PROVE  Accepted(BackfillOrder[next - 1])
    BY DEF UpgradeGetsThrough
  <2>1. PICK k \in 2 .. 5 : next = k
    OBVIOUS
  <2>2. \A r \in schema.rows : TableOf[r] = BackfillOrder[k - 1] =>
            r \in Entries /\ Filling(BackfillOrder[k - 1])[r] = OwnerOf[r]
    BY <2>1, FillsWell DEF MigrationInv, Schemas
  <2>3. \A r \in Entries : OwnerOf[r] # Null
    BY OwnerIsTenant
  <2> QED
    BY <2>1, <2>2, <2>3 DEF Accepted
<1>2. MigrationInit /\ [][MigrationNext]_migrationVars => []MigrationInv
  BY MigrationStart, MigrationStep, PTL
<1> QED
  BY <1>1, <1>2, PTL DEF MigrationSpec
=============================================================================
