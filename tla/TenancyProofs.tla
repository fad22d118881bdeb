--------------------------- MODULE TenancyProofs ---------------------------
(***************************************************************************)
(* Isolation of tenants for any registrations, visits and pool: connected  *)
(* as an ordinary role, a session sees all the protected rows of its       *)
(* tenant and no other's. The rest holds whichever role it is.             *)
(***************************************************************************)
EXTENDS Tenancy, FiniteSetTheorems, TLAPS

USE TenancyAssumption

Shape ==
    /\ current \in [Conns -> Orgs \cup {Unset, Blank}]
    /\ conn \in [Sessions -> Conns \cup {None}]
    /\ tenant \in [Sessions -> Orgs \cup {None}]
    /\ at = [s \in Sessions |-> at[s]]

\* A connection serves one transaction, and keeps no organization for the next.
Exclusive ==
    /\ \A r, s \in Sessions : r # s /\ conn[r] = conn[s] => conn[r] = None
    /\ \A c \in Conns : current[c] \in Orgs => \E s \in Sessions : conn[s] = c

\* The setting of a transaction is the tenant of its session, from its
\* beginning to its end: a session changes tenants only between transactions.
Named ==
    /\ \A s \in Sessions : conn[s] # None =>
           \A o \in Orgs : current[conn[s]] = o <=> tenant[s] = o
    /\ \A s \in Sessions : at[s] = "idle" => conn[s] = None

Isolation == Shape /\ Exclusive /\ Named

\* No connection is taken.
LEMMA IsolationInit == TenancyInit => Isolation
  BY DEF TenancyInit, Isolation, Shape, Exclusive, Named, Sessions

\* Taking a connection, where there is none yet, and giving it back.
LEMMA BeginKeeps ==
    ASSUME Isolation, NEW s \in Sessions, NEW c \in Conns, Begin(s, c),
           tenant' = tenant, at' = [r \in Sessions |-> at'[r]],
           \A r \in Sessions : at'[r] = "idle" => at[r] = "idle" /\ r # s
    PROVE  Isolation'
<1> USE DEF Isolation, Shape, Exclusive, Named
<1>0. None \notin Conns /\ None \notin Orgs /\ Unset \notin Orgs /\ Blank \notin Orgs
  OBVIOUS
<1>1. CASE UNCHANGED <<conn, current>>
  BY <1>1
<1>2. CASE conn[s] = None /\ (\A r \in Sessions : conn[r] # c)
           /\ conn' = [conn EXCEPT ![s] = c]
           /\ current' = [current EXCEPT ![c] = IF tenant[s] # None THEN tenant[s] ELSE @]
  <2>1. Shape'
    BY <1>0, <1>2
  <2>2. current[c] \notin Orgs
    BY <1>2
  <2>3. conn'[s] = c /\ \A r \in Sessions \ {s} : conn'[r] = conn[r] /\ conn'[r] # c
    BY <1>2
  <2>4. Exclusive'
    <3>1. \A q, r \in Sessions : q # r /\ conn'[q] = conn'[r] => conn'[q] = None
      BY <2>3
    <3>2. ASSUME NEW d \in Conns, current'[d] \in Orgs PROVE \E r \in Sessions : conn'[r] = d
      <4>1. CASE d = c
        BY <2>3, <4>1
      <4>2. CASE d # c
        <5>1. current[d] \in Orgs
          BY <1>2, <3>2, <4>2
        <5>2. PICK r \in Sessions : conn[r] = d
          BY <5>1
        <5>3. r # s
          BY <1>0, <1>2, <5>2
        <5> QED
          BY <2>3, <5>2, <5>3
      <4> QED
        BY <4>1, <4>2
    <3> QED
      BY <3>1, <3>2
  <2>5. ASSUME NEW r \in Sessions, conn'[r] # None, NEW o \in Orgs
        PROVE  current'[conn'[r]] = o <=> tenant'[r] = o
    <3>1. CASE r = s
      BY <1>0, <1>2, <2>2, <2>3, <3>1
    <3>2. CASE r # s
      <4>1. conn'[r] = conn[r] /\ conn[r] # c /\ conn[r] \in Conns
        BY <2>3, <2>5, <3>2
      <4> QED
        BY <1>2, <2>5, <4>1
    <3> QED
      BY <3>1, <3>2
  <2>6. \A r \in Sessions : at'[r] = "idle" => conn'[r] = None
    BY <2>3
  <2> QED
    BY <2>1, <2>4, <2>5, <2>6
<1> QED
  BY <1>1, <1>2 DEF Begin

\* Giving a connection back forgets its setting.
LEMMA EndKeepsApart ==
    ASSUME Isolation, NEW s \in Sessions, End(s), at' = [r \in Sessions |-> at'[r]],
           tenant' \in [Sessions -> Orgs \cup {None}],
           \A r \in Sessions \ {s} : tenant'[r] = tenant[r] /\ at'[r] = at[r]
    PROVE  Isolation'
<1> USE DEF Isolation, Shape, Exclusive, Named, End
<1>0. None \notin Conns /\ None \notin Orgs /\ Unset \notin Orgs /\ Blank \notin Orgs
  OBVIOUS
<1>1. Shape'
  BY <1>0
<1>2. conn'[s] = None /\ \A r \in Sessions \ {s} : conn'[r] = conn[r]
  OBVIOUS
<1>3. \A r \in Sessions \ {s} : conn[r] # None => conn[r] \in Conns /\ current'[conn[r]] = current[conn[r]]
  BY <1>0
<1>4. ASSUME NEW d \in Conns, current'[d] \in Orgs PROVE \E r \in Sessions : conn'[r] = d
  <2>1. current[d] \in Orgs /\ conn[s] # d
    BY <1>0, <1>4
  <2>2. PICK r \in Sessions : conn[r] = d
    BY <2>1
  <2> QED
    BY <1>2, <2>1, <2>2
<1>5. \A q, r \in Sessions : q # r /\ conn'[q] = conn'[r] => conn'[q] = None
  BY <1>2
<1>6. Named'
  BY <1>2, <1>3
<1> QED
  BY <1>1, <1>4, <1>5, <1>6

\* A step outside of transactions, or inside of one.
LEMMA StayKeeps ==
    ASSUME Isolation, UNCHANGED <<current, conn>>, at' = [r \in Sessions |-> at'[r]],
           tenant' \in [Sessions -> Orgs \cup {None}],
           \A r \in Sessions : conn[r] # None => tenant'[r] = tenant[r],
           \A r \in Sessions : at'[r] = "idle" => at[r] = "idle"
    PROVE  Isolation'
  BY DEF Isolation, Shape, Exclusive, Named

\* How a step moves the session that makes it, and no other.
LEMMA StepMoves ==
    ASSUME Isolation, NEW s \in Sessions, NEW from, NEW to, Step(s, from, to)
    PROVE  /\ at' = [r \in Sessions |-> at'[r]]
           /\ at'[s] = to /\ \A r \in Sessions \ {s} : at'[r] = at[r]
  BY DEF Isolation, Shape, Step

\* Ending a session gives back what it holds.
LEMMA LeaveKeeps ==
    ASSUME Isolation, NEW s \in Sessions, NEW from, NEW to, Leave(s, from, to)
    PROVE  Isolation'
<1>1. tenant' \in [Sessions -> Orgs \cup {None}] /\ \A r \in Sessions \ {s} : tenant'[r] = tenant[r]
  BY DEF Leave, Isolation, Shape
<1>2. Step(s, from, to) /\ End(s)
  BY DEF Leave
<1> QED
  BY <1>1, <1>2, StepMoves, EndKeepsApart

\* An insert changes no setting.
LEMMA InsertKeeps ==
    ASSUME Isolation, NEW o \in Orgs, NEW rows, NEW from, NEW to,
           to # "idle", Insert(o, rows, from, to)
    PROVE  Isolation'
<1>1. o \in Sessions /\ Step(o, from, to) /\ UNCHANGED <<current, conn, tenant>>
  BY DEF Insert, Sessions
<1>2. at' = [r \in Sessions |-> at'[r]] /\ \A r \in Sessions : at'[r] = "idle" => at[r] = "idle"
  BY <1>1, StepMoves
<1> QED
  BY <1>1, <1>2, StayKeeps DEF Isolation, Shape

\* Each step of a registration keeps tenants apart.
LEMMA SignUpKeeps ==
    ASSUME Isolation, NEW o \in Orgs, SignUp(o)
    PROVE  Isolation'
<1>0. o \in Sessions
  BY DEF Sessions
<1>1. CASE CheckEmail(o)
  <2>1. CASE Leave(o, "idle", "conflict")
    BY <1>0, <2>1, LeaveKeeps
  <2>2. CASE Step(o, "idle", "checked") /\ (\E c \in Conns : Begin(o, c)) /\ tenant' = tenant
    BY <1>0, <2>2, StepMoves, BeginKeeps
  <2> QED
    BY <1>1, <2>1, <2>2 DEF CheckEmail
<1>2. CASE NameTenant(o)
  <2>1. Step(o, "checked", "named") /\ End(o) /\ tenant' = [tenant EXCEPT ![o] = o]
    BY <1>2 DEF NameTenant
  <2>2. tenant' \in [Sessions -> Orgs \cup {None}] /\ \A r \in Sessions \ {o} : tenant'[r] = tenant[r]
    BY <2>1 DEF Isolation, Shape
  <2> QED
    BY <1>0, <2>1, <2>2, StepMoves, EndKeepsApart
<1>3. CASE TrySlug(o)
  <2>1. PICK to \in {"named", "slugged"} : Step(o, "named", to)
    BY <1>3 DEF TrySlug
  <2>2. tenant' = tenant /\ \E c \in Conns : Begin(o, c)
    BY <1>3 DEF TrySlug
  <2>3. at' = [r \in Sessions |-> at'[r]] /\ \A r \in Sessions : at'[r] = "idle" => at[r] = "idle" /\ r # o
    BY <1>0, <2>1, StepMoves
  <2> QED
    BY <1>0, <2>2, <2>3, BeginKeeps
<1>4. CASE InsertOrganization(o)
  BY <1>0, <1>4, LeaveKeeps, InsertKeeps DEF InsertOrganization
<1>5. CASE InsertUser(o)
  BY <1>0, <1>5, LeaveKeeps, InsertKeeps DEF InsertUser
<1>6. CASE InsertQuota(o)
  BY <1>0, <1>6, LeaveKeeps, InsertKeeps DEF InsertQuota
<1>7. CASE Commit(o)
  <2>1. Step(o, "flushed", "committed") /\ End(o) /\ tenant' = tenant
    BY <1>7 DEF Commit
  <2> QED
    BY <1>0, <2>1, StepMoves, EndKeepsApart DEF Isolation, Shape
<1>8. CASE Registered(o)
  <2>1. Step(o, "committed", "refreshed") /\ (\E c \in Conns : Begin(o, c)) /\ tenant' = tenant
    BY <1>8 DEF Registered
  <2> QED
    BY <1>0, <2>1, StepMoves, BeginKeeps
<1>9. CASE Answer(o)
  BY <1>0, <1>9, LeaveKeeps DEF Answer
<1> QED
  BY <1>1, <1>2, <1>3, <1>4, <1>5, <1>6, <1>7, <1>8, <1>9 DEF SignUp

\* Each step of a visit keeps tenants apart.
LEMMA VisitKeeps ==
    ASSUME Isolation, NEW v \in Visits, Visit(v)
    PROVE  Isolation'
<1>0. v \in Sessions
  BY DEF Sessions
<1>1. CASE \E o \in Orgs : Arrive(v, o)
  <2>1. PICK o \in Orgs : Arrive(v, o)
    BY <1>1
  <2>2. /\ Step(v, "idle", "arrived") /\ tenant' = [tenant EXCEPT ![v] = o]
        /\ UNCHANGED <<current, conn>>
    BY <2>1 DEF Arrive
  <2>3. conn[v] = None
    BY <1>0, <2>2 DEF Step, Isolation, Named
  <2>4. /\ tenant' \in [Sessions -> Orgs \cup {None}]
        /\ \A r \in Sessions : conn[r] # None => tenant'[r] = tenant[r]
    BY <2>2, <2>3 DEF Isolation, Shape
  <2>5. at' = [r \in Sessions |-> at'[r]] /\ \A r \in Sessions : at'[r] = "idle" => at[r] = "idle"
    BY <1>0, <2>2, StepMoves
  <2> QED
    BY <2>2, <2>4, <2>5, StayKeeps
<1>2. CASE Query(v)
  <2>1. (\E c \in Conns : Begin(v, c)) /\ tenant' = tenant /\ at' = at /\ at[v] # "idle"
    BY <1>2 DEF Query
  <2> QED
    BY <1>0, <2>1, BeginKeeps DEF Isolation, Shape
<1>3. CASE Write(v)
  <2>1. CASE Leave(v, at[v], "failed")
    BY <1>0, <2>1, LeaveKeeps DEF Isolation, Shape
  <2>2. CASE Step(v, at[v], "back") /\ End(v) /\ tenant' = tenant
    BY <1>0, <2>2, StepMoves, EndKeepsApart DEF Isolation, Shape
  <2> QED
    BY <1>3, <2>1, <2>2 DEF Write
<1>4. CASE Depart(v)
  BY <1>0, <1>4, LeaveKeeps DEF Depart, Isolation, Shape
<1> QED
  BY <1>1, <1>2, <1>3, <1>4 DEF Visit

\* The invariant of connections and settings.
LEMMA Isolated == TenancySpec => []Isolation
<1>1. Isolation /\ [TenancyNext]_tenancyVars => Isolation'
  <2> SUFFICES ASSUME Isolation, [TenancyNext]_tenancyVars
               PROVE  Isolation'
    OBVIOUS
  <2>1. CASE UNCHANGED tenancyVars
    BY <2>1 DEF tenancyVars, Isolation, Shape, Exclusive, Named
  <2>2. ASSUME NEW o \in Orgs, Crash(o) PROVE Isolation'
    BY <2>2, LeaveKeeps DEF Crash, Sessions, Isolation, Shape
  <2> QED
    BY <2>1, <2>2, SignUpKeeps, VisitKeeps DEF TenancyNext
<1> QED
  BY IsolationInit, <1>1, PTL DEF TenancySpec

\* However transactions, crashes and connections of the pool interleave, the
\* database shows a session of an ordinary role all the protected rows of its
\* tenant, and those only. A superuser, the role of docker-compose, is not
\* covered: the policies do not bind it.
THEOREM TenantsAreIsolated == TenancySpec => []SeesExactlyItsOwn
<1>1. Isolation => SeesExactlyItsOwn
  BY DEF Isolation, Named, SeesExactlyItsOwn, Visible, Admits
<1> QED
  BY Isolated, <1>1, PTL

-----------------------------------------------------------------------------
(* Registrations. *)

Holding == {"organized", "joined", "flushed"}
Inside  == Holding \cup {"slugged"}
Unseen  == Inside \cup {"idle", "checked", "named", "conflict", "failed"}

Tables ==
    /\ slug \in [Orgs -> Nat \ {0}]
    /\ pending \in [Orgs -> SUBSET Account]
    /\ committed \in [Orgs -> SUBSET (Account \cup {"event"})]

\* How far a registration has come says which rows it holds, that it is inside
\* its transaction, and that the transaction has its tenant.
Stage(o) ==
    /\ at[o] \in Inside => conn[o] # None
    /\ at[o] \in Inside \cup {"named"} => tenant[o] = o
    /\ at[o] \in Ended => conn[o] = None
    /\ at[o] = "organized" => pending[o] = {"organization"}
    /\ at[o] = "joined" => pending[o] = {"organization", "user"}
    /\ at[o] = "flushed" => pending[o] = Account
    /\ at[o] \notin Holding => pending[o] = {}
    /\ at[o] \in Unseen => committed[o] = {}
    /\ committed[o] = {} \/ Account \subseteq committed[o]
Stages == \A o \in Orgs : Stage(o)

\* A visit belongs to an account that is there.
Guests ==
    \A v \in Visits :
        /\ at[v] # "failed"
        /\ at[v] \in {"arrived", "back"} => tenant[v] \in Orgs /\ committed[tenant[v]] # {}

\* The unique indexes, with the rows that are not committed yet.
Holds(o, row) == row \in pending[o] \cup committed[o]
Keys ==
    \A o, p \in Orgs : o # p =>
        /\ Holds(o, "organization") /\ Holds(p, "organization") => slug[o] # slug[p]
        /\ Holds(o, "user") /\ Holds(p, "user") => EmailOf[o] # EmailOf[p]

\* Accounts that a registration found in its way are still there.
Others(o, n) == \E p \in Orgs \ {o} : committed[p] # {} /\ slug[p] = n
Causes ==
    \A o \in Orgs :
        /\ \A n \in 1 .. slug[o] - 1 : Others(o, n)
        /\ at[o] = "failed" =>
               Others(o, slug[o]) \/ \E p \in Orgs \ {o} : committed[p] # {} /\ EmailOf[p] = EmailOf[o]

Sound == Isolation /\ Tables /\ Stages /\ Guests /\ Keys /\ Causes

\* There are no rows.
LEMMA SoundInit == TenancyInit => Sound
<1> SUFFICES ASSUME TenancyInit
             PROVE  Tables /\ Stages /\ Guests /\ Keys /\ Causes
  BY IsolationInit DEF Sound
<1> USE DEF TenancyInit, Sessions
<1>1. Tables /\ Stages /\ Guests
  BY DEF Tables, Stages, Stage, Guests, Holding, Inside, Unseen, Ended
<1>2. Keys
  BY DEF Keys, Holds
<1>3. Causes
  BY DEF Causes
<1> QED
  BY <1>1, <1>2, <1>3

\* What a step of a registration may change.
OthersStay(o) ==
    /\ \A s \in Sessions \ {o} : at'[s] = at[s] /\ tenant'[s] = tenant[s] /\ conn'[s] = conn[s]
    /\ \A p \in Orgs \ {o} : /\ slug'[p] = slug[p] /\ pending'[p] = pending[p]
                             /\ committed'[p] = committed[p]
    /\ Tables'

\* What ending a session leaves of its rows.
LEMMA LeaveEffect ==
    ASSUME Sound, NEW o \in Orgs, NEW from, NEW to, Leave(o, from, to)
    PROVE  /\ OthersStay(o)
           /\ at[o] = from /\ at'[o] = to /\ conn'[o] = None /\ pending'[o] = {}
           /\ slug' = slug /\ committed' = committed
  BY DEF Sound, Isolation, Shape, Tables, Step, End, Leave, Sessions, OthersStay

\* An insert adds its rows to what is not committed yet, and moves nothing else.
LEMMA InsertEffect ==
    ASSUME Sound, NEW o \in Orgs, NEW rows \in SUBSET Account, NEW from, NEW to, Insert(o, rows, from, to)
    PROVE  /\ OthersStay(o)
           /\ at[o] = from /\ at'[o] = to /\ conn'[o] = conn[o] /\ tenant'[o] = tenant[o]
           /\ pending'[o] = pending[o] \cup rows
           /\ slug' = slug /\ committed' = committed
  BY DEF Sound, Isolation, Shape, Tables, Step, Insert, Sessions, OthersStay

\* What taking a connection leaves alone.
LEMMA BeginEffect ==
    ASSUME Sound, NEW o \in Orgs, \E c \in Conns : Begin(o, c), NEW from, NEW to, Step(o, from, to),
           UNCHANGED <<tenant, pending, committed>>,
           slug' = [slug EXCEPT ![o] = slug[o]] \/ slug' = [slug EXCEPT ![o] = slug[o] + 1]
    PROVE  /\ OthersStay(o)
           /\ at[o] = from /\ at'[o] = to /\ conn'[o] # None
<1>0. None \notin Conns
  OBVIOUS
<1>1. conn'[o] # None /\ \A s \in Sessions \ {o} : conn'[s] = conn[s]
  BY <1>0 DEF Sound, Isolation, Shape, Begin, Sessions
<1>2. Tables' /\ \A p \in Orgs \ {o} : slug'[p] = slug[p]
  BY DEF Sound, Tables
<1> QED
  BY <1>1, <1>2 DEF Sound, Isolation, Shape, Step, Sessions, OthersStay

\* Only the stage of the registration itself is at risk.
LEMMA StageSuffices ==
    ASSUME Sound, NEW o \in Orgs, OthersStay(o), Stage(o)'
    PROVE  Stages'
  BY DEF Sound, Stages, Stage, OthersStay, Sessions

\* A registration holds the rows of its stage.
LEMMA SignUpStages ==
    ASSUME Sound, NEW o \in Orgs, SignUp(o) \/ Crash(o)
    PROVE  OthersStay(o) /\ Stage(o)'
<1> USE DEF Stage, Holding, Inside, Unseen, Ended
<1>0. Stage(o)
  BY DEF Sound, Stages
<1>1. ASSUME NEW from, NEW to \in {"conflict", "failed", "crashed", "registered"}, Leave(o, from, to),
             to \in {"conflict", "failed"} => from \in Unseen
      PROVE  OthersStay(o) /\ Stage(o)'
  BY <1>0, <1>1, LeaveEffect
<1>2. CASE CheckEmail(o)
  <2>1. CASE Leave(o, "idle", "conflict")
    BY <1>1, <2>1
  <2>2. CASE Step(o, "idle", "checked") /\ (\E c \in Conns : Begin(o, c))
             /\ UNCHANGED <<tenant, slug, pending, committed>>
    <3>1. slug' = [slug EXCEPT ![o] = slug[o]]
      BY <2>2 DEF Sound, Tables
    <3>2. OthersStay(o) /\ at[o] = "idle" /\ at'[o] = "checked" /\ conn'[o] # None
      BY <2>2, <3>1, BeginEffect
    <3> QED
      BY <1>0, <2>2, <3>2
  <2> QED
    BY <1>2, <2>1, <2>2 DEF CheckEmail
<1>3. CASE NameTenant(o)
  BY <1>0, <1>3 DEF NameTenant, Sound, Isolation, Shape, Tables, Step, End, Sessions, OthersStay
<1>4. CASE TrySlug(o)
  <2>1. PICK to \in {"named", "slugged"} : Step(o, "named", to)
    BY <1>4 DEF TrySlug
  <2>2. /\ UNCHANGED <<tenant, pending, committed>> /\ \E c \in Conns : Begin(o, c)
        /\ slug' = [slug EXCEPT ![o] = slug[o]] \/ slug' = [slug EXCEPT ![o] = slug[o] + 1]
    BY <1>4 DEF TrySlug
  <2> QED
    BY <1>0, <2>1, <2>2, BeginEffect
<1>5. CASE InsertOrganization(o)
  <2>1. CASE Leave(o, "slugged", "failed")
    BY <1>1, <2>1
  <2>2. CASE Insert(o, {"organization"}, "slugged", "organized")
    <3>1. {"organization"} \in SUBSET Account
      BY DEF Account
    <3>2. /\ OthersStay(o) /\ at[o] = "slugged" /\ at'[o] = "organized" /\ conn'[o] = conn[o]
          /\ tenant'[o] = tenant[o] /\ pending'[o] = pending[o] \cup {"organization"} /\ committed' = committed
      BY <2>2, <3>1, InsertEffect
    <3> QED
      BY <1>0, <3>2 DEF Account
  <2> QED
    BY <1>5, <2>1, <2>2 DEF InsertOrganization
<1>6. CASE InsertUser(o)
  <2>1. CASE Leave(o, "organized", "failed")
    BY <1>1, <2>1
  <2>2. CASE Insert(o, {"user"}, "organized", "joined")
    <3>1. {"user"} \in SUBSET Account
      BY DEF Account
    <3>2. /\ OthersStay(o) /\ at[o] = "organized" /\ at'[o] = "joined" /\ conn'[o] = conn[o]
          /\ tenant'[o] = tenant[o] /\ pending'[o] = pending[o] \cup {"user"} /\ committed' = committed
      BY <2>2, <3>1, InsertEffect
    <3> QED
      BY <1>0, <3>2 DEF Account
  <2> QED
    BY <1>6, <2>1, <2>2 DEF InsertUser
<1>7. CASE InsertQuota(o)
  <2>1. CASE Leave(o, "joined", "failed")
    BY <1>1, <2>1
  <2>2. CASE Insert(o, {"membership", "quota"}, "joined", "flushed")
    <3>1. {"membership", "quota"} \in SUBSET Account
      BY DEF Account
    <3>2. /\ OthersStay(o) /\ at[o] = "joined" /\ at'[o] = "flushed" /\ conn'[o] = conn[o]
          /\ tenant'[o] = tenant[o] /\ pending'[o] = pending[o] \cup {"membership", "quota"} /\ committed' = committed
      BY <2>2, <3>1, InsertEffect
    <3> QED
      BY <1>0, <3>2 DEF Account
  <2> QED
    BY <1>7, <2>1, <2>2 DEF InsertQuota
<1>8. CASE Commit(o)
  BY <1>0, <1>8 DEF Commit, Sound, Isolation, Shape, Tables, Step, End, Sessions, OthersStay, Account
<1>9. CASE Registered(o)
  <2>1. /\ Step(o, "committed", "refreshed") /\ UNCHANGED <<tenant, pending, committed>>
        /\ slug' = [slug EXCEPT ![o] = slug[o]] /\ \E c \in Conns : Begin(o, c)
    BY <1>9 DEF Registered, Sound, Tables
  <2>2. OthersStay(o) /\ at[o] = "committed" /\ at'[o] = "refreshed" /\ conn'[o] # None
    BY <2>1, BeginEffect
  <2> QED
    BY <1>0, <2>1, <2>2
<1>10. CASE Answer(o)
  BY <1>1, <1>10 DEF Answer
<1>11. CASE Crash(o)
  BY <1>1, <1>11 DEF Crash
<1> QED
  BY <1>2, <1>3, <1>4, <1>5, <1>6, <1>7, <1>8, <1>9, <1>10, <1>11 DEF SignUp

\* What a visit may change.
RowsStay ==
    \A o \in Orgs : /\ committed'[o] \in {committed[o], committed[o] \cup {"event"}}
                    /\ committed'[o] = {} <=> committed[o] = {}

\* A visit adds nothing to an account.
LEMMA VisitEffect ==
    ASSUME Sound, NEW v \in Visits, Visit(v)
    PROVE  /\ \A s \in Sessions \ {v} : at'[s] = at[s] /\ tenant'[s] = tenant[s] /\ conn'[s] = conn[s]
           /\ pending' = pending /\ slug' = slug /\ Tables'
           /\ RowsStay
           /\ at'[v] # "failed"
           /\ at'[v] \in {"arrived", "back"} => tenant'[v] \in Orgs /\ committed[tenant'[v]] # {}
<1> USE DEF RowsStay
<1>0. v \in Sessions /\ v \notin Orgs
  BY DEF Sessions
<1>1. CASE \E o \in Orgs : Arrive(v, o)
  BY <1>0, <1>1 DEF Arrive, Step, Sound, Isolation, Shape, Tables
<1>2. CASE Query(v)
  <2>1. \A s \in Sessions \ {v} : conn'[s] = conn[s]
    BY <1>0, <1>2 DEF Query, Begin, Sound, Isolation, Shape
  <2> QED
    BY <1>0, <1>2, <2>1 DEF Query, Sound, Tables, Guests
<1>3. CASE Write(v)
  <2>1. conn[v] # None /\ tenant[v] \in Orgs /\ committed[tenant[v]] # {}
    BY <1>3 DEF Write, Sound, Guests
  <2>2. Admits(conn[v], tenant[v])
    BY <1>0, <2>1 DEF Admits, Sound, Isolation, Named
  <2>3. /\ committed' = [committed EXCEPT ![tenant[v]] = @ \cup {"event"}]
        /\ Step(v, at[v], "back") /\ End(v) /\ UNCHANGED <<tenant, slug, pending>>
    BY <1>3, <2>2 DEF Write
  <2>4. \A o \in Orgs : committed'[o] = IF o = tenant[v] THEN committed[o] \cup {"event"} ELSE committed[o]
    BY <2>1, <2>3 DEF Sound, Tables
  <2>5. Tables'
    BY <2>1, <2>3, <2>4 DEF Sound, Tables
  <2> QED
    BY <1>0, <2>1, <2>3, <2>4, <2>5 DEF Step, End, Sound, Isolation, Shape
<1>4. CASE Depart(v)
  <2>1. /\ at'[v] = "idle" /\ slug' = slug /\ committed' = committed
        /\ \A s \in Sessions \ {v} : at'[s] = at[s] /\ tenant'[s] = tenant[s] /\ conn'[s] = conn[s]
    BY <1>0, <1>4 DEF Depart, Leave, Step, End, Sound, Isolation, Shape
  <2>2. pending' = pending
    BY <1>0, <1>4 DEF Depart, Leave, Sound, Tables
  <2> QED
    BY <2>1, <2>2 DEF Sound, Tables
<1> QED
  BY <1>1, <1>2, <1>3, <1>4 DEF Visit

\* Visits keep the tables sound.
LEMMA VisitSound ==
    ASSUME Sound, NEW v \in Visits, Visit(v)
    PROVE  Sound'
<1>1. Isolation' /\ Tables' /\ pending' = pending /\ slug' = slug
  BY VisitKeeps, VisitEffect DEF Sound
<1>2. \A o \in Orgs : at'[o] = at[o] /\ tenant'[o] = tenant[o] /\ conn'[o] = conn[o]
  <2>1. \A o \in Orgs : o \in Sessions \ {v}
    BY DEF Sessions
  <2> QED
    BY <2>1, VisitEffect
<1>3. RowsStay
  BY VisitEffect
<1> USE DEF RowsStay
<1>4. Stages'
  <2> SUFFICES ASSUME NEW o \in Orgs PROVE Stage(o)'
    BY DEF Stages
  <2> QED
    BY <1>1, <1>2, <1>3 DEF Sound, Stages, Stage
<1>5. Guests'
  BY <1>3, VisitEffect DEF Sound, Guests, Sessions
<1>6. Keys'
  <2>1. \A o \in Orgs, row \in {"organization", "user"} : Holds(o, row)' => Holds(o, row)
    BY <1>1, <1>3 DEF Holds
  <2> QED
    BY <1>1, <2>1 DEF Sound, Keys
<1>7. Causes'
  BY <1>1, <1>2, <1>3 DEF Sound, Causes, Others
<1> QED
  BY <1>1, <1>4, <1>5, <1>6, <1>7 DEF Sound

\* An account that is there stays, under its slug.
LEMMA AccountsStay ==
    ASSUME Sound, NEW o \in Orgs, SignUp(o) \/ Crash(o)
    PROVE  /\ \A p \in Orgs : committed[p] # {} => committed'[p] # {} /\ slug'[p] = slug[p]
           /\ slug'[o] # slug[o] => TrySlug(o) /\ SlugTaken(o) /\ slug'[o] = slug[o] + 1
<1>0. OthersStay(o) /\ Stage(o)
  BY SignUpStages DEF Sound, Stages
<1>1. slug'[o] # slug[o] => TrySlug(o) /\ SlugTaken(o) /\ slug'[o] = slug[o] + 1
  BY DEF SignUp, Crash, CheckEmail, NameTenant, TrySlug, InsertOrganization, InsertUser, InsertQuota,
         Commit, Registered, Answer, Leave, Insert, Sound, Tables
<1>2. TrySlug(o) => committed[o] = {}
  BY <1>0 DEF TrySlug, Step, Stage, Unseen
<1>3. committed[o] # {} => committed'[o] # {}
  BY DEF SignUp, Crash, CheckEmail, NameTenant, TrySlug, InsertOrganization, InsertUser, InsertQuota,
         Commit, Registered, Answer, Leave, Insert, Sound, Tables
<1> QED
  BY <1>0, <1>1, <1>2, <1>3 DEF OthersStay

\* A registration fails because a key is taken; the policy lets it pass.
LEMMA FailsByKey ==
    ASSUME Sound, NEW o \in Orgs, SignUp(o) \/ Crash(o), at'[o] = "failed"
    PROVE  (SlugTaken(o) \/ EmailTaken(o)) /\ committed[o] = {} /\ slug' = slug
<1>0. Stage(o) /\ o \in Sessions
  BY DEF Sound, Stages, Sessions
<1>1. at[o] = "joined" => Admits(conn[o], o)
  BY <1>0 DEF Stage, Inside, Holding, Admits, Sound, Isolation, Named
<1>2. ASSUME NEW from, NEW to, to # "failed", Step(o, from, to)
      PROVE  FALSE
  BY <1>0, <1>2 DEF Step, Sound, Isolation, Shape
<1>3. ASSUME NEW from \in Unseen, Leave(o, from, "failed")
      PROVE  committed[o] = {} /\ slug' = slug
  BY <1>0, <1>3 DEF Leave, Step, Stage
<1>4. CASE CheckEmail(o)
  BY <1>2, <1>4 DEF CheckEmail, Leave
<1>5. CASE NameTenant(o)
  BY <1>2, <1>5 DEF NameTenant
<1>6. CASE TrySlug(o)
  BY <1>2, <1>6 DEF TrySlug
<1>7. CASE InsertOrganization(o)
  BY <1>2, <1>3, <1>7 DEF InsertOrganization, Insert, Unseen, Inside
<1>8. CASE InsertUser(o)
  BY <1>2, <1>3, <1>8 DEF InsertUser, Insert, Unseen, Inside, Holding
<1>9. CASE InsertQuota(o)
  BY <1>1, <1>2, <1>9 DEF InsertQuota, Insert
<1>10. CASE Commit(o)
  BY <1>2, <1>10 DEF Commit
<1>11. CASE Registered(o)
  BY <1>2, <1>11 DEF Registered
<1>12. CASE Answer(o)
  BY <1>2, <1>12 DEF Answer, Leave
<1>13. CASE Crash(o)
  BY <1>2, <1>13 DEF Crash, Leave
<1> QED
  BY <1>4, <1>5, <1>6, <1>7, <1>8, <1>9, <1>10, <1>11, <1>12, <1>13 DEF SignUp

\* A suffix is passed over, and an address refused, for a row that stays.
LEMMA SignUpCauses ==
    ASSUME Sound, NEW o \in Orgs, SignUp(o) \/ Crash(o)
    PROVE  Causes'
<1>0. OthersStay(o) /\ Stage(o) /\ Tables
  BY SignUpStages DEF Sound, Stages
<1>1. \A p \in Orgs : \A n \in Nat : Others(p, n) => Others(p, n)'
  BY AccountsStay DEF Others
<1>2. ASSUME NEW p \in Orgs, NEW n \in 1 .. slug'[p] - 1
      PROVE  Others(p, n)'
  <2>1. CASE slug'[p] = slug[p]
    BY <1>1, <1>2, <2>1 DEF Sound, Causes, Tables
  <2>2. CASE slug'[p] # slug[p]
    <3>1. p = o /\ TrySlug(o) /\ SlugTaken(o) /\ slug'[o] = slug[o] + 1 /\ slug[o] \in Nat
      BY <1>0, <2>2, AccountsStay DEF OthersStay, Tables
    <3>2. committed[o] = {}
      BY <1>0, <3>1 DEF TrySlug, Step, Stage, Unseen
    <3>3. Others(o, slug[o])
      BY <3>1, <3>2 DEF SlugTaken, Others
    <3>4. CASE n = slug[o]
      BY <1>1, <3>1, <3>3, <3>4
    <3>5. CASE n # slug[o]
      <4>1. n \in Nat /\ n \in 1 .. slug[o] - 1
        BY <1>2, <3>1, <3>5
      <4> QED
        BY <1>1, <3>1, <4>1 DEF Sound, Causes
    <3> QED
      BY <3>4, <3>5
  <2> QED
    BY <2>1, <2>2
<1>3. ASSUME NEW p \in Orgs, at'[p] = "failed"
      PROVE  Others(p, slug[p])' \/ \E q \in Orgs \ {p} : committed'[q] # {} /\ EmailOf[q] = EmailOf[p]
  <2>1. CASE at[p] = "failed"
    <3>1. slug'[p] = slug[p] /\ slug[p] \in Nat
      BY <1>0, <2>1, AccountsStay DEF TrySlug, Step, OthersStay, Tables
    <3> QED
      BY <1>1, <2>1, <3>1, AccountsStay DEF Sound, Causes
  <2>2. CASE at[p] # "failed"
    <3>1. p = o
      BY <1>0, <1>3, <2>2 DEF OthersStay, Sessions
    <3>2. committed[o] = {} /\ (SlugTaken(o) \/ EmailTaken(o)) /\ slug' = slug
      BY <1>3, <3>1, FailsByKey
    <3>3. slug[o] \in Nat
      BY <1>0 DEF Tables
    <3>4. Others(o, slug[o]) \/ \E q \in Orgs \ {o} : committed[q] # {} /\ EmailOf[q] = EmailOf[o]
      BY <3>2 DEF SlugTaken, EmailTaken, Others
    <3> QED
      BY <1>1, <3>1, <3>2, <3>3, <3>4, AccountsStay
  <2> QED
    BY <2>1, <2>2
<1> QED
  BY <1>2, <1>3 DEF Causes, Others

\* No two accounts share a key.
LEMMA SignUpKeys ==
    ASSUME Sound, NEW o \in Orgs, SignUp(o) \/ Crash(o)
    PROVE  Keys'
<1>0. OthersStay(o) /\ Stage(o) /\ Keys /\ Tables /\ Stages
  BY SignUpStages DEF Sound, Stages
<1>1. ASSUME NEW p \in Orgs \ {o}, NEW row PROVE Holds(p, row)' <=> Holds(p, row)
  BY <1>0 DEF OthersStay, Holds
<1>2. ASSUME slug' = slug, \A row \in {"organization", "user"} : Holds(o, row)' => Holds(o, row)
      PROVE  Keys'
  <2>1. \A p \in Orgs, row \in {"organization", "user"} : Holds(p, row)' => Holds(p, row)
    BY <1>1, <1>2
  <2> QED
    BY <1>0, <1>2, <2>1 DEF Keys
<1>3. ASSUME NEW from, NEW to, Leave(o, from, to)
      PROVE  Keys'
  <2>1. pending'[o] = {} /\ slug' = slug /\ committed' = committed
    BY <1>3, LeaveEffect
  <2> QED
    BY <1>2, <2>1 DEF Holds
<1>4. CASE UNCHANGED <<slug, pending, committed>>
  BY <1>2, <1>4 DEF Holds
<1>5. CASE CheckEmail(o)
  BY <1>3, <1>4, <1>5 DEF CheckEmail
<1>6. CASE NameTenant(o)
  BY <1>4, <1>6 DEF NameTenant
<1>7. CASE TrySlug(o)
  <2>1. pending'[o] = {} /\ committed'[o] = {}
    BY <1>0, <1>7 DEF TrySlug, Step, Stage, Holding, Unseen
  <2>2. \A row : ~Holds(o, row)'
    BY <2>1 DEF Holds
  <2>3. \A p \in Orgs \ {o} : slug'[p] = slug[p]
    BY <1>0 DEF OthersStay
  <2> QED
    BY <1>0, <1>1, <2>2, <2>3 DEF Keys
<1>8. CASE InsertOrganization(o)
  <2>1. CASE Leave(o, "slugged", "failed")
    BY <1>3, <2>1
  <2>2. CASE Insert(o, {"organization"}, "slugged", "organized") /\ ~SlugTaken(o)
    <3>1. pending'[o] = {"organization"} /\ slug' = slug /\ committed'[o] = {}
      BY <1>0, <2>2 DEF Insert, Step, Stage, Holding, Unseen, Inside, Tables
    <3>2. \A p \in Orgs \ {o} : Holds(p, "organization") => slug[p] # slug[o]
      BY <1>8, <2>2 DEF InsertOrganization, Holds, SlugTaken
    <3>3. ~Holds(o, "user")'
      BY <3>1 DEF Holds
    <3> QED
      BY <1>0, <1>1, <3>1, <3>2, <3>3 DEF Keys
  <2> QED
    BY <1>8, <2>1, <2>2 DEF InsertOrganization
<1>9. CASE InsertUser(o)
  <2>1. CASE Leave(o, "organized", "failed")
    BY <1>3, <2>1
  <2>2. CASE Insert(o, {"user"}, "organized", "joined") /\ ~EmailTaken(o)
    <3>1. pending'[o] = pending[o] \cup {"user"} /\ slug' = slug /\ committed' = committed
      BY <1>0, <2>2 DEF Insert, Tables
    <3>2. \A p \in Orgs \ {o} : Holds(p, "user") => EmailOf[p] # EmailOf[o]
      BY <1>9, <2>2 DEF InsertUser, Holds, EmailTaken
    <3>3. Holds(o, "organization")' => Holds(o, "organization")
      BY <3>1 DEF Holds
    <3> QED
      BY <1>0, <1>1, <3>1, <3>2, <3>3 DEF Keys
  <2> QED
    BY <1>9, <2>1, <2>2 DEF InsertUser
<1>10. CASE InsertQuota(o)
  <2>1. CASE Leave(o, "joined", "failed")
    BY <1>3, <2>1
  <2>2. CASE Insert(o, {"membership", "quota"}, "joined", "flushed")
    <3>1. pending'[o] = pending[o] \cup {"membership", "quota"} /\ slug' = slug /\ committed' = committed
      BY <1>0, <2>2 DEF Insert, Tables
    <3> QED
      BY <1>2, <3>1 DEF Holds
  <2> QED
    BY <1>10, <2>1, <2>2 DEF InsertQuota
<1>11. CASE Commit(o)
  <2>1. committed'[o] = committed[o] \cup pending[o] /\ pending'[o] = {} /\ slug' = slug
    BY <1>0, <1>11 DEF Commit, Tables
  <2> QED
    BY <1>2, <2>1 DEF Holds
<1>12. CASE Registered(o)
  BY <1>4, <1>12 DEF Registered
<1>13. CASE Answer(o) \/ Crash(o)
  BY <1>3, <1>13 DEF Answer, Crash
<1> QED
  BY <1>5, <1>6, <1>7, <1>8, <1>9, <1>10, <1>11, <1>12, <1>13 DEF SignUp

\* Registrations keep the tables sound.
LEMMA SignUpSound ==
    ASSUME Sound, NEW o \in Orgs, SignUp(o) \/ Crash(o)
    PROVE  Sound'
<1>1. Isolation'
  BY SignUpKeeps, LeaveKeeps DEF Crash, Sessions, Sound
<1>2. OthersStay(o) /\ Stages'
  BY SignUpStages, StageSuffices
<1>3. Guests'
  <2>1. \A v \in Visits : at'[v] = at[v] /\ tenant'[v] = tenant[v]
    BY <1>2 DEF OthersStay, Sessions
  <2>2. \A p \in Orgs : committed[p] # {} => committed'[p] # {}
    BY AccountsStay
  <2> QED
    BY <2>1, <2>2 DEF Sound, Guests
<1> QED
  BY <1>1, <1>2, <1>3, SignUpKeys, SignUpCauses DEF Sound, OthersStay

\* The invariant of the tables.
LEMMA Soundness == TenancySpec => []Sound
<1>1. Sound /\ [TenancyNext]_tenancyVars => Sound'
  <2> SUFFICES ASSUME Sound, [TenancyNext]_tenancyVars
               PROVE  Sound'
    OBVIOUS
  <2>1. CASE UNCHANGED tenancyVars
    <3>1. Isolation' /\ Tables'
      BY <2>1 DEF tenancyVars, Sound, Isolation, Shape, Exclusive, Named, Tables
    <3>2. Stages' /\ Guests'
      BY <2>1 DEF tenancyVars, Sound, Stages, Stage, Guests
    <3>3. Keys' /\ Causes'
      BY <2>1 DEF tenancyVars, Sound, Keys, Holds, Causes, Others
    <3> QED
      BY <3>1, <3>2, <3>3 DEF Sound
  <2> QED
    BY <2>1, SignUpSound, VisitSound DEF TenancyNext
<1> QED
  BY SoundInit, <1>1, PTL DEF TenancySpec

\* A suffix is skipped because another account has it, so that there are as
\* many suffixes as organizations.
LEMMA SuffixBound ==
    ASSUME Tables, Causes, NEW o \in Orgs
    PROVE  slug[o] \in 1 .. Cardinality(Orgs)
<1> DEFINE below == 1 .. slug[o] - 1
           holder == [n \in below |-> CHOOSE p \in Orgs \ {o} : slug[p] = n]
<1>0. slug[o] \in Nat \ {0} /\ IsFiniteSet(Orgs)
  BY DEF Tables
<1>1. IsFiniteSet(Orgs \ {o}) /\ Cardinality(Orgs \ {o}) = Cardinality(Orgs) - 1 /\ Cardinality(Orgs) \in Nat
  BY <1>0, FS_RemoveElement, FS_CardinalityType
<1>2. IsFiniteSet(below) /\ Cardinality(below) = slug[o] - 1
  <2>1. 1 \in Int /\ slug[o] - 1 \in Int /\ (1 > slug[o] - 1 => slug[o] - 1 = 0)
    BY <1>0
  <2>2. IsFiniteSet(below) /\ Cardinality(below) = IF 1 > slug[o] - 1 THEN 0 ELSE (slug[o] - 1) - 1 + 1
    BY <2>1, FS_Interval
  <2> QED
    BY <1>0, <2>1, <2>2
<1>3. \A n \in below : holder[n] \in Orgs \ {o} /\ slug[holder[n]] = n
  BY DEF Causes, Others
<1>4. holder \in Injection(below, Orgs \ {o})
  BY <1>3 DEF Injection, IsInjective
<1>5. Cardinality(below) <= Cardinality(Orgs \ {o})
  BY <1>1, <1>4, FS_Injection
<1> QED
  BY <1>0, <1>1, <1>2, <1>5

\* The role is a matter of deployment: nothing that runs changes it.
RoleKnown == role \in Roles
LEMMA RoleStays == TenancySpec => []RoleKnown
<1>1. TenancyInit => RoleKnown
  BY DEF TenancyInit, RoleKnown
<1>2. RoleKnown /\ [TenancyNext]_tenancyVars => RoleKnown'
  BY DEF RoleKnown, TenancyNext, SignUp, Crash, Visit, tenancyVars
<1> QED
  BY <1>1, <1>2, PTL DEF TenancySpec

\* No connection serves two transactions, no setting outlives one, and no
\* registration needs more suffixes than there are organizations.
THEOREM TenancyTypeCorrect == TenancySpec => []TenancyTypeOK
<1>1. Sound /\ RoleKnown => TenancyTypeOK
  <2> SUFFICES ASSUME Sound, RoleKnown
               PROVE  TenancyTypeOK
    OBVIOUS
  <2>1. slug \in [Orgs -> 1 .. Cardinality(Orgs)]
    BY SuffixBound DEF Sound, Tables
  <2>2. \A o \in Orgs : at[o] \in Ended => conn[o] = None /\ pending[o] = {}
    BY DEF Sound, Stages, Stage, Ended, Holding
  <2> QED
    BY <2>1, <2>2 DEF Sound, Isolation, Shape, Exclusive, Tables, RoleKnown, TenancyTypeOK
<1> QED
  BY Soundness, RoleStays, <1>1, PTL

\* An account is whole or not at all, and has its address and its slug alone,
\* for any registrations at once, any crashes and any visitors.
THEOREM AccountsAreWhole == TenancySpec => []RegistrationIsWhole
<1>1. Sound => RegistrationIsWhole
  <2> SUFFICES ASSUME Sound
               PROVE  RegistrationIsWhole
    OBVIOUS
  <2>1. \A o \in Orgs : committed[o] = {} \/ Account \subseteq committed[o]
    BY DEF Sound, Stages, Stage
  <2>2. \A o \in Orgs : committed[o] # {} => Holds(o, "organization") /\ Holds(o, "user")
    BY <2>1 DEF Account, Holds
  <2> QED
    BY <2>1, <2>2 DEF Sound, Keys, RegistrationIsWhole
<1> QED
  BY Soundness, <1>1, PTL

\* A registration that is not cut off fails only because a key was taken
\* meanwhile; the policy refuses no row of a registration or of a visit.
THEOREM RefusedForCauseOnly == TenancySpec => []FailsOnlyForCause
<1>1. Sound => FailsOnlyForCause
  BY DEF Sound, Causes, Others, Guests, FailsOnlyForCause
<1> QED
  BY Soundness, <1>1, PTL
=============================================================================
