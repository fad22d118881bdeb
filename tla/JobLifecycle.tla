---------------------------- MODULE JobLifecycle ----------------------------
(***************************************************************************)
(* The life of a research job, from the POST that creates it to the worker *)
(* attempt that settles it:                                                *)
(*                                                                         *)
(*   - backend/app/services/research_orchestrator.py, create_and_enqueue:  *)
(*     the request handler, one action per statement that touches shared   *)
(*     state (read the quota, self-heal it, count, insert, enqueue, mark   *)
(*     queued);                                                            *)
(*   - backend/app/workers/tasks/research.py, run_research_job: the status *)
(*     writes and the events of an attempt, in their order, with the guard *)
(*     `except Exception` around them;                                     *)
(*   - arq, which is external: a queue that hands a job to one attempt at  *)
(*     a time, hands it out again after a crash or a shutdown, gives up    *)
(*     after MaxTries, and cancels an attempt that takes too long.         *)
(*                                                                         *)
(* What happens between the status "crawling" and the end of the crawl is  *)
(* the module CrawlJob; here it is the single step Crawl.                  *)
(***************************************************************************)
EXTENDS Integers, Sequences, FiniteSets

CONSTANTS
    Jobs,          \* requests; a request creates at most one job, of its name
    Orgs,          \* organizations
    OrgOf,         \* the organization a request is made for
    InitialQuota,  \* max_concurrent_research_jobs of each row, or NoRow
    NoRow,         \* the organization predates the tenant_quotas table
    StandardLimit, \* the default a self-healed row gets
    MaxJobs,       \* arq: attempts that run at the same time
    MaxTries,      \* arq: attempts of one job
    MaxInFlight,   \* bound: requests an organization has in flight at once
    MaxFaults      \* bound: faults in a behaviour

ASSUME OrgsAssumption  == OrgOf \in [Jobs -> Orgs]
ASSUME JobsAssumption  == IsFiniteSet(Jobs)
ASSUME QuotaAssumption ==
    /\ StandardLimit \in Nat \ {0}
    /\ NoRow \notin Nat
    /\ InitialQuota \in [Orgs -> (Nat \ {0}) \cup {NoRow}]
ASSUME BoundsAssumption ==
    /\ MaxJobs \in Nat \ {0} /\ MaxTries \in Nat \ {0}
    /\ MaxInFlight \in Nat \ {0} /\ MaxFaults \in Nat

VARIABLES
    quota,   \* tenant_quotas: the limit of each organization, or NoRow
    api,     \* how far the handler of each request has come
    status,  \* research_jobs.status, "absent" while there is no row
    error,   \* research_jobs.error is not null
    log,     \* research_events of the job, in commit order
    queue,   \* arq: jobs that are queued or being run
    tries,   \* arq: attempts started
    step,    \* what the running attempt of the job does next
    faults   \* faults so far

database == <<quota, status, error, log>>
broker   == <<queue, tries>>
vars     == <<quota, api, status, error, log, queue, tries, step, faults>>

-----------------------------------------------------------------------------
\* ResearchStatus; the API writes the first two, the worker the others.
Terminal == {"completed", "failed"}
Written  == {"searching", "crawling", "extracting"} \cup Terminal
Statuses == {"created", "queued"} \cup Written

\* The kinds _emit is called with; a status stands for its status.changed event.
Events == Written \cup
    {"search.completed", "sources.discovered", "crawl.stopped_early",
     "research.completed", "research.failed"}

\* What an attempt may do next: commit a status, commit an event, publish it.
Idle       == [op |-> "idle",    of |-> "-"]
Load       == [op |-> "load",    of |-> "-"]
Return     == [op |-> "return",  of |-> "-"]
Crawling   == [op |-> "crawl",   of |-> "-"]
Write(s)   == [op |-> "write",   of |-> s]
Log(e)     == [op |-> "log",     of |-> e]
Publish(e) == [op |-> "publish", of |-> e]

Steps == {Idle, Load, Return, Crawling} \cup {Write(s) : s \in Written}
             \cup {Log(e) : e \in Events} \cup {Publish(e) : e \in Events}

SearchScriptForgetful ==      \* mutant: no hits, and nobody settles the job
    { <<"searching",          Log("search.completed")>>,
      <<"search.completed",   Return>>,
      <<"search.completed",   Log("sources.discovered")>>,
      <<"sources.discovered", Write("crawling")>> }

\* What run_research_job does once it has published an event, in three parts
\* and the handler. The search itself changes nothing anybody sees; it either
\* finds hits or it does not.
SearchScript ==
    { <<"searching",          Log("search.completed")>>,
      <<"search.completed",   Write("completed")>>,
      <<"search.completed",   Log("sources.discovered")>>,
      <<"sources.discovered", Write("crawling")>> }

CrawlScriptEventFirst ==      \* mutant: research.completed ahead of the status
    { <<"crawling",            Crawling>>,
      <<"crawl.stopped_early", Write("extracting")>>,
      <<"extracting",          Log("research.completed")>> }
CrawlScript ==
    { <<"crawling",            Crawling>>,
      <<"crawl.stopped_early", Write("extracting")>>,
      <<"extracting",          Write("completed")>> }

EndScriptSwapped ==           \* mutant: "extracting" written after "completed"
    { <<"completed",          Write("extracting")>>,
      <<"research.completed", Return>> }
EndScript ==
    { <<"completed",          Log("research.completed")>>,
      <<"research.completed", Return>> }

FailScript ==
    { <<"failed",          Log("research.failed")>>,
      <<"research.failed", Return>> }

Script == SearchScript \cup CrawlScript \cup EndScript \cup FailScript

\* The steps outside the try block: the first read of the job, and the
\* exception handler itself.
Unguarded(s) == s = Load \/ s.of \in {"failed", "research.failed"}

\* Requests the API is working on; from "admitted" on, past the quota check.
Admitted == {"admitted", "created", "enqueued"}
Handling == {"healing", "counting"} \cup Admitted
Answers  == {"accepted", "rejected", "failed"}

InFlight(o) == {j \in Jobs : OrgOf[j] = o /\ api[j] \in Handling}
Running     == {j \in Jobs : step[j] # Idle}

\* count_active_research_jobs: rows of the organization that are not terminal.
Active(o) == {j \in Jobs : OrgOf[j] = o /\ status[j] \notin Terminal \cup {"absent"}}

Init ==
    /\ quota  = InitialQuota
    /\ api    = [j \in Jobs |-> "idle"]
    /\ status = [j \in Jobs |-> "absent"]
    /\ error  = [j \in Jobs |-> FALSE]
    /\ log    = [j \in Jobs |-> << >>]
    /\ queue  = {}
    /\ tries  = [j \in Jobs |-> 0]
    /\ step   = [j \in Jobs |-> Idle]
    /\ faults = 0

-----------------------------------------------------------------------------
(* The request handler. *)

\* A request arrives and reads its organization's quota row.
ReadQuota(j) ==
    /\ api[j] = "idle"
    /\ Cardinality(InFlight(OrgOf[j])) < MaxInFlight
    /\ api' = [api EXCEPT ![j] = IF quota[OrgOf[j]] = NoRow THEN "healing" ELSE "counting"]
    /\ UNCHANGED <<database, broker, step, faults>>

\* The row was missing: insert the standard tier's. organization_id is
\* unique, so the insert fails if another request has put one there.
HealQuota(j) ==
    /\ api[j] = "healing"
    /\ IF quota[OrgOf[j]] = NoRow
         THEN /\ quota' = [quota EXCEPT ![OrgOf[j]] = StandardLimit]
              /\ api' = [api EXCEPT ![j] = "counting"]
         ELSE /\ api' = [api EXCEPT ![j] = "failed"]
              /\ UNCHANGED quota
    /\ UNCHANGED <<status, error, log, broker, step, faults>>

CountActiveOffByOne(j) ==     \* mutant: > where the code has >=
    /\ api[j] = "counting"
    /\ api' = [api EXCEPT ![j] = IF Cardinality(Active(OrgOf[j])) > quota[OrgOf[j]]
                                 THEN "rejected" ELSE "admitted"]
    /\ UNCHANGED <<database, broker, step, faults>>

\* The quota check. The limit read above cannot have changed since: no code
\* updates a row of tenant_quotas.
CountActive(j) ==
    /\ api[j] = "counting"
    /\ api' = [api EXCEPT ![j] = IF Cardinality(Active(OrgOf[j])) >= quota[OrgOf[j]]
                                 THEN "rejected" ELSE "admitted"]
    /\ UNCHANGED <<database, broker, step, faults>>

CreateJob(j) ==
    /\ api[j] = "admitted"
    /\ status' = [status EXCEPT ![j] = "created"]
    /\ api' = [api EXCEPT ![j] = "created"]
    /\ UNCHANGED <<quota, error, log, broker, step, faults>>

EnqueueBeforeCommit(j) ==     \* mutant: the worker can see the job before its row
    /\ api[j] = "admitted"
    /\ queue' = queue \cup {j}
    /\ api' = [api EXCEPT ![j] = "enqueued"]
    /\ UNCHANGED <<database, tries, step, faults>>
EnqueueJob(j) ==
    /\ api[j] = "created"
    /\ queue' = queue \cup {j}
    /\ api' = [api EXCEPT ![j] = "enqueued"]
    /\ UNCHANGED <<database, tries, step, faults>>

\* The handler's session still holds the row as it inserted it, so the
\* update is blind: whatever the worker has written by now is replaced.
MarkQueued(j) ==
    /\ api[j] = "enqueued"
    /\ status' = [status EXCEPT ![j] = "queued"]
    /\ api' = [api EXCEPT ![j] = "accepted"]
    /\ UNCHANGED <<quota, error, log, broker, step, faults>>

\* A statement of the handler raises (or its process dies): a 500.
RequestFails(j) ==
    /\ api[j] \in Handling
    /\ faults < MaxFaults
    /\ api' = [api EXCEPT ![j] = "failed"]
    /\ faults' = faults + 1
    /\ UNCHANGED <<database, broker, step>>

-----------------------------------------------------------------------------
(* arq, which is external. *)

StartAttemptUnbounded(j) ==   \* mutant: no max_tries
    /\ j \in queue /\ step[j] = Idle
    /\ Cardinality(Running) < MaxJobs
    /\ tries' = [tries EXCEPT ![j] = @ + 1]
    /\ step' = [step EXCEPT ![j] = Load]
    /\ UNCHANGED <<database, api, queue, faults>>
StartAttempt(j) ==
    /\ j \in queue /\ step[j] = Idle
    /\ Cardinality(Running) < MaxJobs
    /\ tries[j] < MaxTries
    /\ tries' = [tries EXCEPT ![j] = @ + 1]
    /\ step' = [step EXCEPT ![j] = Load]
    /\ UNCHANGED <<database, api, queue, faults>>

\* The last attempt was interrupted: arq drops the job without calling it.
DropExhausted(j) ==
    /\ j \in queue /\ step[j] = Idle
    /\ Cardinality(Running) < MaxJobs
    /\ tries[j] = MaxTries
    /\ queue' = queue \ {j}
    /\ UNCHANGED <<database, api, tries, step, faults>>

\* The coroutine has returned or raised; either way arq is done with the job.
FinishAttempt(j) ==
    /\ step[j] = Return
    /\ step' = [step EXCEPT ![j] = Idle]
    /\ queue' = queue \ {j}
    /\ UNCHANGED <<database, api, tries, faults>>

\* job_timeout: the coroutine is cancelled where it stands. CancelledError is
\* not an Exception, so the guard does not see it; arq is done with the job.
Timeout(j) ==
    /\ step[j] \notin {Idle, Return}
    /\ faults < MaxFaults
    /\ step' = [step EXCEPT ![j] = Idle]
    /\ queue' = queue \ {j}
    /\ faults' = faults + 1
    /\ UNCHANGED <<database, api, tries>>

\* The worker is shut down or dies: the job stays in the queue.
Interrupt(j) ==
    /\ step[j] # Idle
    /\ faults < MaxFaults
    /\ step' = [step EXCEPT ![j] = Idle]
    /\ faults' = faults + 1
    /\ UNCHANGED <<database, api, broker>>

-----------------------------------------------------------------------------
(* One attempt of run_research_job. *)

LoadJob(j) ==
    /\ step[j] = Load
    /\ step' = [step EXCEPT ![j] = IF status[j] = "absent" THEN Return ELSE Write("searching")]
    /\ UNCHANGED <<database, api, broker, faults>>

CommitStatusSilent(j) ==      \* mutant: the error is not stored
    /\ step[j].op = "write"
    /\ status' = [status EXCEPT ![j] = step[j].of]
    /\ step' = [step EXCEPT ![j] = Log(step[j].of)]
    /\ UNCHANGED <<quota, error, log, api, broker, faults>>

CommitStatusUnrecorded(j) ==  \* mutant: the change is published without a row
    /\ step[j].op = "write"
    /\ status' = [status EXCEPT ![j] = step[j].of]
    /\ error' = [error EXCEPT ![j] = @ \/ step[j].of = "failed"]
    /\ step' = [step EXCEPT ![j] = Publish(step[j].of)]
    /\ UNCHANGED <<quota, log, api, broker, faults>>

\* The first half of _set_status. An error is recorded with "failed" only,
\* and is never cleared.
CommitStatus(j) ==
    /\ step[j].op = "write"
    /\ status' = [status EXCEPT ![j] = step[j].of]
    /\ error' = [error EXCEPT ![j] = @ \/ step[j].of = "failed"]
    /\ step' = [step EXCEPT ![j] = Log(step[j].of)]
    /\ UNCHANGED <<quota, log, api, broker, faults>>

\* The first half of _emit: the row of research_events.
CommitEvent(j) ==
    /\ step[j].op = "log"
    /\ log' = [log EXCEPT ![j] = Append(@, step[j].of)]
    /\ step' = [step EXCEPT ![j] = Publish(step[j].of)]
    /\ UNCHANGED <<quota, status, error, api, broker, faults>>

\* The second half of _emit, and on to whatever comes next.
PublishEvent(j) ==
    /\ step[j].op = "publish"
    /\ \E next \in Steps :
         /\ <<step[j].of, next>> \in Script
         /\ step' = [step EXCEPT ![j] = next]
    /\ UNCHANGED <<database, api, broker, faults>>

CrawlEndless(j) ==            \* mutant: the loop does not count its pages
    /\ step[j] = Crawling
    /\ UNCHANGED vars

\* The crawl ends, on its budget or early (CrawlJob has its steps).
Crawl(j) ==
    /\ step[j] = Crawling
    /\ \E next \in {Log("crawl.stopped_early"), Write("extracting")} :
         step' = [step EXCEPT ![j] = next]
    /\ UNCHANGED <<database, api, broker, faults>>

\* The step raises an Exception: the database, Redis, a search or a fetch
\* failed. Inside the try block the handler takes over; outside, and in the
\* handler itself, the exception leaves the coroutine.
Raise(j) ==
    /\ step[j] \notin {Idle, Return}
    /\ faults < MaxFaults
    /\ step' = [step EXCEPT ![j] = IF Unguarded(step[j]) THEN Return ELSE Write("failed")]
    /\ faults' = faults + 1
    /\ UNCHANGED <<database, api, broker>>

-----------------------------------------------------------------------------
Handler(j) == \/ HealQuota(j) \/ CountActive(j) \/ CreateJob(j)
              \/ EnqueueJob(j) \/ MarkQueued(j)

Arq(j)     == StartAttempt(j) \/ DropExhausted(j) \/ FinishAttempt(j)

Attempt(j) == \/ LoadJob(j) \/ CommitStatus(j) \/ CommitEvent(j)
              \/ PublishEvent(j) \/ Crawl(j)

Fault(j)   == RequestFails(j) \/ Timeout(j) \/ Interrupt(j) \/ Raise(j)

Next == \E j \in Jobs : ReadQuota(j) \/ Handler(j) \/ Arq(j) \/ Attempt(j) \/ Fault(j)

\* A handler and a worker go on as long as they can; nobody has to send a
\* request, and nothing has to fail.
Fairness == \A j \in Jobs : WF_vars(Handler(j)) /\ WF_vars(Arq(j)) /\ WF_vars(Attempt(j))

Spec     == Init /\ [][Next]_vars
FairSpec == Spec /\ Fairness

-----------------------------------------------------------------------------
(* Properties. *)

\* Every variable keeps its shape: statuses are those of ResearchStatus, and
\* an attempt is always at a step run_research_job has.
TypeOK ==
    /\ quota \in [Orgs -> (Nat \ {0}) \cup {NoRow}]
    /\ api \in [Jobs -> {"idle"} \cup Handling \cup Answers]
    /\ status \in [Jobs -> Statuses \cup {"absent"}]
    /\ error \in [Jobs -> BOOLEAN]
    /\ log \in [Jobs -> Seq(Events)]
    /\ queue \subseteq Jobs
    /\ tries \in [Jobs -> 0 .. MaxTries]
    /\ step \in [Jobs -> Steps]
    /\ faults \in 0 .. MaxFaults

Redelivered == {j \in Jobs : tries[j] > 1}

\* The slots of an organization that are taken, or promised by a check that
\* has already let a request through.
Occupied(o) == Active(o) \cup {j \in Jobs : OrgOf[j] = o /\ api[j] \in Admitted}

\* create_and_enqueue counts first and inserts later, so requests in flight at
\* the same time can pass the check together. What the check does guarantee:
\* the slots taken never exceed the limit by more than the other requests in
\* flight, so with one request at a time the limit is exact. Jobs run again
\* are left out: a second attempt re-opens a settled job and no check sees it.
QuotaOvershoot ==
    \A o \in Orgs :
        IF quota[o] = NoRow
        THEN Occupied(o) = {}
        ELSE Cardinality(Occupied(o) \ Redelivered) <= quota[o] + MaxInFlight - 1

\* A job is enqueued only after its row is committed, and no attempt outlives
\* its queue entry: run_research_job never reads a job that is not there, and
\* arq never cancels one that it has already forgotten.
QueuedJobsExist ==
    /\ \A j \in queue : status[j] # "absent"
    /\ Running \subseteq queue

\* A failed job always says why; and a job that ran once has an error only if
\* it failed (or if MarkQueued came later than the failure).
FailureRecorded ==
    \A j \in Jobs :
        /\ status[j] = "failed" => error[j]
        /\ error[j] /\ tries[j] <= 1 => status[j] \in {"failed", "queued"}

Logged(j, e) == \E i \in DOMAIN log[j] : log[j][i] = e

\* A terminal event is true when it is told. Each is recorded after the status
\* it reports: research.failed never without the error, research.completed
\* never while the row still says the job is running, unless it is MarkQueued
\* or a later attempt that wrote over it.
TerminalEventTruthful ==
    \A j \in Jobs :
        /\ Logged(j, "research.failed") => error[j]
        /\ Logged(j, "research.completed") /\ tries[j] <= 1 =>
               status[j] \in Terminal \cup {"queued"}

StaysSettled(k) ==
    status[k] \in Terminal /\ tries[k] <= 1 /\ tries'[k] <= 1 =>
        \/ status'[k] = status[k]
        \/ status'[k] = "failed"
        \/ status'[k] = "queued" /\ api[k] = "enqueued"

\* In one attempt a settled job stays settled: only the late write of "queued"
\* re-opens it, and the handler may only turn "completed" into "failed".
SettledStays == [][\A k \in Jobs : StaysSettled(k)]_vars

\* The event a status waits for, in every attempt that writes it.
Forerunner == [crawling  |-> "sources.discovered", extracting |-> "crawling",
               completed |-> "search.completed"]

Progress(j) == INSTANCE JobProgress WITH
    Stati <- Statuses, Kinds <- Events, Silent <- "-",
    state <- status[j], recorded <- log[j],
    unpublished <- IF step[j].op = "publish" THEN step[j].of ELSE "-"

\* Whatever fails and whoever overwrites the status, each job is what the
\* progress page takes it for: events are published after their row or never,
\* one at a time, and no attempt gets ahead of its own log.
FollowsProgress ==
    /\ \A j \in Jobs : Progress(j)!JobInit
    /\ [][\A j \in Jobs : [Progress(j)!JobNext]_(Progress(j)!jobVars)]_vars

\* Rows that hold a slot although nobody will ever move them again.
Leaked == {j \in Jobs : /\ status[j] \notin Terminal \cup {"absent", "queued"}
                        /\ api[j] \in Answers
                        /\ j \notin queue}

\* A slot is leaked by a fault and by nothing else: no branch of the handler
\* or of the attempt forgets to settle the job. (A job MarkQueued overwrote
\* shows "queued" and is counted by the liveness properties instead.)
LeaksCostAFault == Cardinality(Leaked) <= faults

\* Every job that is enqueued leaves the queue: finished, timed out or dropped.
AttemptsEnd == \A j \in Jobs : j \in queue ~> j \notin queue

\* As long as nothing fails, a queued job is settled, or MarkQueued overwrote
\* what the attempt had written.
RunsToTheEnd ==
    \A j \in Jobs : j \in queue ~> \/ status[j] \in Terminal
                                   \/ status[j] = "queued" /\ j \notin queue
                                   \/ faults > 0

-----------------------------------------------------------------------------
(* What the documents and comments of the repository say, and the code does *)
(* not do.                                                                  *)

Order == <<"created", "queued", "searching", "crawling", "extracting">>

\* ARCHITECTURE.md:211: the status only moves forward along CREATED, QUEUED,
\* SEARCHING, CRAWLING, EXTRACTING, COMPLETED, or to FAILED. (Skipping is
\* allowed here: a search without hits completes at once.)
DocumentedOrder ==
    [][\A j \in Jobs : \A n \in DOMAIN Order :
          status'[j] = Order[n] =>
              status[j] \in {"absent"} \cup {Order[m] : m \in 1 .. n}]_vars

\* docs/API.md:74: a request is refused once the limit is reached, so an
\* organization never has more non-terminal jobs than its limit.
QuotaExact ==
    \A o \in Orgs : quota[o] # NoRow => Cardinality(Active(o)) <= quota[o]

\* tasks/research.py:372: a job is never left stuck mid-status.
NeverStuckMidStatus ==
    \A j \in Jobs : status[j] \in {"searching", "crawling", "extracting"} ~>
                        status[j] \in Terminal \cup {"queued"}
=============================================================================
