# TLA+ specifications of BPO-AI-Scrap

Specifications of the research pipeline of this repository, checked with TLC
and, where stated, proved with TLAPS. A user posts a natural-language query;
the API turns it into a research job and queues it; an arq worker searches the
web, crawls what it found and stores sources, pages, results and events; the
page of the job follows it over a websocket and by polling.

All source paths below are relative to `src/`; the backend's Python is under
`backend/app/`.

## 1. Inventory

### Components, their state and operations

| Component | Code | State | Operations |
|---|---|---|---|
| Research orchestrator | `services/research_orchestrator.py`, `api/v1/research.py`, `repositories/tenant_repository.py`, `services/tenant_quotas.py` | `research_jobs`, `tenant_quotas`, the arq queue | read (or self-heal) the quota, count active jobs, insert, enqueue, mark QUEUED |
| Worker: lifecycle | `workers/tasks/research.py`, `repositories/research_repository.py`, `workers/worker.py`, `core/redis.py` | `research_jobs.status`/`error`, `research_events`, pub/sub | load, `_set_status`, `_emit`, the top-level exception guard; arq's start, retry, timeout, drop |
| Worker: crawl | same task, `engines/crawler/prioritization.py`, `engines/extraction/dedup.py` | frontier, gain tracker, near-duplicate detector, counters; `sources`, `crawl_pages`, `research_results` | search, seed, pop a wave, record sources, fetch, take each page, expand, decide to stop |
| Event feed | `api/v1/research.py` (websocket), `core/redis.py`, `useResearchEvents.ts`, `ResearchDetailPage.tsx` | subscription, socket, query cache, merged timeline | subscribe, forward, poll, merge, disconnect |
| Client session | `frontend/src/services/api.ts`, `stores/authStore.ts`, `services/auth_service.py` | token pair (persisted), `refreshInFlight` | request, refresh once, retry, log in, log out |
| Tenant context | `core/database.py`, `core/deps.py`, migration `0002` | `session.info`, `SET LOCAL`, RLS policies | begin, commit, set the tenant |
| Registration and login | `services/auth_service.py`, `repositories/auth_repository.py`, `core/security.py` | users, organizations, memberships, quotas | check, pick a slug, insert |
| Page fetcher | `engines/crawler/fetcher.py`, `ssrf_guard.py` | current url, hops, chunks | check, request, follow, read |
| Url keys and links | `engines/crawler/normalize.py`, `links.py` | none (pure) | normalize, extract |
| Query plan | `engines/query_intelligence/`, `engines/search_strategy/`, `resolve_config` | none (pure) | parse, build queries, resolve the configuration |
| Search, extraction | `engines/search/`, `engines/extraction/content.py`, `structured.py` | none | lists cut to a length, over HTTP and HTML parsing by libraries |
| Schema migrations | `migrations/versions/` | tables, columns, policies | upgrade, downgrade, backfill |
| Confidence, rendering, configuration, logging, health | the rest | none that changes at run time | |

### How they interact

- The API and the worker share the database and Redis, nothing else. Every
  repository call commits its own transaction, and no row is ever locked:
  any two calls of two processes interleave.
- The API hands a job over by enqueuing its id; it then writes the status once
  more (`QUEUED`), concurrently with the worker.
- The worker reports by a status row, an event row and a Redis publish: three
  separate steps, always in this order.
- arq calls the task, at most `max_jobs` at a time. It cancels it on a timeout
  (and forgets the job), calls it again after a shutdown or a crash (up to
  `max_tries`), and does nothing when it raises but forget the job.
- A fetch result and a search result are data from outside: anything.

### What is hard, and what makes each component correct

- *Orchestrator*: check-then-insert without a lock; a partial failure between
  commit and enqueue; the write after the hand-over. Correct: the limit is
  exceeded only by requests in flight, a job in the queue has a row.
- *Lifecycle*: exceptions before, inside and after the guard; timeouts; a second
  attempt over the rows of the first. Correct: a job ends, it says why it
  failed, what the events tell is what the rows say, and a slot that is never
  given back costs a fault.
- *Crawl*: waves cut by three limits; one page reached by several urls and
  paths; duplicates by bytes and by similarity, one kept in the database and
  one in memory; a stop decision over a history; interruption anywhere.
  Correct: no page twice, budget kept, nothing left behind when candidates run
  out, no two equal results, honest stop reasons, rows that match each other,
  termination.
- *Event feed*: events lost between check and subscription, or after the last
  poll; two reads in one answer; merging by content. Correct: what is shown is
  the log with gaps, in order, never taken back; a status never without the
  events before it; the page catches up and settles.
- *Session*: one refresh shared by all requests, racing sign-out and sign-in.
  Correct: one repetition, with a token nobody was refused; no request waits for
  ever; the session is that of the last sign-in.
- *Tenant context*: a setting that lives for one transaction, on a connection
  that others use. Correct: where the database role is an ordinary one, every
  transaction sees all protected rows of its tenant and no other's.
- *Registration*: two checks, then inserts under unique keys, with the tenant
  named in between. Correct: whole or not at all; refused only when another one
  was faster; it ends.
- *Migrations*: rows written before a column that must not be null. Correct: an
  upgrade gets through whatever is there, and every row has its job's tenant.
- *Fetcher*: every hop checked before it is requested; two limits.
- *Pure functions*: what counts as one page, which links are followed, which
  queries fit under the cap, which number of a text is a limit, where lists are
  cut.

`PROJECT.json` lists every such hazard at its line, with the property that
covers it or the reason why none does yet.

## 2. Modules

| Module | What it is |
|---|---|
| `JobLifecycle` | requests, queue, attempts, status, error and events of jobs |
| `JobLifecycleProofs` | theorems about it |
| `MCJobLifecycle` + `MCJob*.cfg` | its instances |
| `CrawlJob` | the crawl of one job, over several attempts |
| `CrawlJobProofs` | theorems about it |
| `Exploration` | what a crawl promises; `CrawlJob` implements it |
| `MCCrawlJob` + `MCCrawl*.cfg` | instances: a small site |
| `JobProgress` | what others can rely on of a job; `JobLifecycle` implements it |
| `EventFeed` | the page of a job, its sockets and polls, over `JobProgress` |
| `ProgressFeed` | what the page promises; `EventFeed` implements it |
| `EventFeedProofs` | theorems about the page |
| `Session`, `SessionProofs` | tokens and requests of one browser, and theorems |
| `Tenancy`, `TenancyProofs` | registrations and tenant contexts over pooled connections, and theorems |
| `Migration`, `MigrationProofs` | revision 0002 over the tables of 0001, and theorems |
| `MCAccounts` + `MCAccounts.cfg` | one instance of each of the three |
| `PageFetch` | the fetch of one page |
| `PageUrls`, `PageText`, `QueryPlan` | pure functions with reference definitions |
| `Pipeline`, `PipelineProofs` | the fetch and the functions, each over any sample of its inputs, and theorems |
| `MCPipeline` + `MCPipeline.cfg`, `MCUrlKeys.cfg` | its instance, small sets of inputs, and that of `EventFeed` |
| `Recursion` | induction over intervals, and what it says of recursive functions |

Definitions marked `\* mutant` in the modules are plausible bugs; each property
of each run is known to fail when one of them replaces the definition it stands
in front of. They are used nowhere else.

### JobLifecycle

One action per statement that touches shared state.

| Variable | Code |
|---|---|
| `quota` | `tenant_quotas.max_concurrent_research_jobs`, `NoRow` for an organization older than the table |
| `api` | how far `create_and_enqueue` has come for a request |
| `status`, `error`, `log` | the row's `status`, whether its `error` is set, the kinds of its `research_events` |
| `queue`, `tries` | arq: the jobs it still owes a run, and the attempts it has started |
| `step` | what the running attempt does next |
| `faults` | counts the faults, so that a behaviour has at most `MaxFaults` |

The request is `ReadQuota`, `HealQuota`, `CountActive`, `CreateJob`,
`EnqueueJob`, `MarkQueued`. The attempt is a script: `SearchScript`,
`CrawlScript`, `EndScript` and `FailScript` say what `run_research_job` does once
it has published an event; `CommitStatus`, `CommitEvent` and `PublishEvent` are
the three steps of a status write, the latter two those of an event. `Raise` is
an exception at any of them: inside the `try` it leads to the handler, in
`LoadJob` and in the handler it leaves the coroutine. `Timeout` is arq's
cancellation, `Interrupt` a shutdown or crash. arq is external: its actions are
the part of its contract the task relies on.

Abstracted: what a query says, what is found (`Crawl` is one step; `CrawlJob`
has its steps, and the events of pages, which nothing here tells apart), and who
listens to what is published. `set_status`'s early return for a missing row is
left out, since rows are never deleted. `MarkQueued` is unconditional because the
session still holds the row as inserted: the update never looks at what the
worker has written.

### CrawlJob

The code between the status writes. The database variables are the three tables
as sequences in id order (`results` holds page ids, `pages` source ids), `events`
those that report on the crawl; the others are the coroutine's local variables.
`base` is the only one the code does not have: where the tables stood when the
attempt began, so that properties can speak of the attempt.

A wave is `NextWave`, one `Pop` per candidate, until the wave is full (`WaveHasRoom`)
or the frontier empty, one `AddSource` per candidate (each is a commit), `FetchWave` (the `gather`: all results are there or none, in any combination),
then for each page in order `TakeFailure`, or `TakePage`, `AddResult` unless it
is a duplicate, and `Learn`; and `Decide`. `Fail` and `RunAgain` may come between
any two of them. The status writes are one action each with the event that
follows: `JobLifecycle` has them in detail.

The frontier is a set of candidates with the number the counter gave each; `HeapPop`
is what `heappop` of the standard library promises of the pushed pairs: the least
leaves. That a wave is the best of the frontier is therefore the model's assumption
and no claim of this project.

Abstracted: a url is one of a few names with its key (`Norm`) and the attributes
its words hint at (`Signals`); a page is a content with a hash (or none, for an
empty body), a text, the attributes its text mentions and its links; texts are
similar as the relation `Near` says. Scores are compared exactly, as fractions;
the code's floats could order two scores that are equal differently. A page's
content is not fixed by its url: every fetch may find anything, as on the real
web. Negative `max_results` overrides are left out.

### Exploration

A crawl as its user sees it: pages of a finite set visited one at a time, none
twice, no more than a budget, then nothing more; or a new start. `Explores` maps
`visited` to the keys of this attempt's sources.

### EventFeed, JobProgress, ProgressFeed

`JobProgress` is the interface between a job and those who watch it: a log that
only grows, events published after they were recorded or never, and statuses
that wait for a forerunner in the log. `JobLifecycle` implements it for every job
(`FollowsProgress`), so `EventFeed` can be checked over it instead of over every
interleaving of requests and attempts.

| Variable of `EventFeed` | Code |
|---|---|
| `view`, `poll` | `data` of the job query, and the request in flight: the row (`PollRow`), then the events (`PollEvents`), then the answer (`PollAnswered`, `PollFails`) |
| `live`, `timeline`, `results` | `events` of the hook, the `useMemo`, `data` of the results query |
| `current`, `handler`, `wire` | the hook's socket, `research_ws` for each access token's socket, and what a subscription has not forwarded yet |
| `saved`, `reopened` | rows of `research_results`; whether arq has run a settled job again |

`ProgressFeed` is the promise of the page: the timeline is the log with gaps, in
its order, and an entry that was shown stays. `ShowsTheLog` maps `shown` to
`timeline`. Left out: wording, progress bars and the error of the row; a second
page or tab; a page reused for another job, which no link leads to.

### Session

A token pair is the number of the response that issued it. Everything JavaScript
does between two awaits is one step: `FinishRefresh` stores the answer, resets
`refreshInFlight` and resumes all callers, because promise callbacks run before
any other event. `TakeRefusal` is a 401 that arrives, with the decision of
`apiRequest` and `tryRefresh`. `chosen` and `overtaken` are not in the code: who
signed in last, and whether a refresh was in flight at that moment. Left out:
the text of errors, and 403s, which end a request as any other answer does.

### Tenancy

One action per statement of `register` and `create_user_and_organization`, each
with the transaction it opens or closes. `current` is PostgreSQL's setting on a
connection, `conn` the connection a session holds, `tenant` its
`session.info["tenant_id"]`; `pending` and `committed` the rows, of which others
see the committed. `Begin` takes a connection and applies the tenant
(`_apply_tenant_context`), `End` gives it back without. `role` is what the
application connects as, drawn at the start: the role of `docker-compose.yml`
(`POSTGRES_USER`) is a superuser, which PostgreSQL exempts from every policy; that
of the CI tests (`bpo_app`) is not. `Admits` is the policy of migration `0002` under
either. So `SeesExactlyItsOwn` is a claim about deployments with an ordinary role;
in the others, as `SECURITY.md:59-69` says, the policies do nothing, and tenants are
told apart by the conditions in the queries alone. The other properties hold under
both roles.

Inserts wait for an uncommitted row with their key, as unique indexes do. `Visits` are sessions that know their tenant from the start, an API
request or the worker's `_tenant_session`. All registrations ask for one name, so
that a slug is its suffix. Left out: hashing, tokens, and 403 for users without a
membership, which registration never leaves behind (`RegistrationIsWhole`).

### Migration

`upgrade` and `downgrade` of `0002` statement by statement, in one transaction
that may fail anywhere, over rows written under either revision. The five tables
with foreign keys are one set of rows with a table and a parent each.

### PageFetch, PageUrls, PageText, QueryPlan, Pipeline

`PageFetch` is `PageFetcher.fetch`, `_read_capped` and the places where
`assert_safe_url` is called; `Allowed` stands for what that function decides of an
address. The other three are functions:

- `PageUrls`: `normalize_url` and `extract_links`. A path is a sequence of names,
  slashes and semicolons, because `urlparse` cuts it: `PathOf` is what it takes for
  the path, the rest are parameters of the last segment, which the key leaves out.
  `KeyForgets` says which urls get one key, and `KeyAsDocumented` what the docstring
  says of that; a key parsed again may have another key (`/a;b/`, `/a;b`, `/a`), and
  nothing is claimed of that. `LinksAreTheSites` compares with the list of first
  occurrences.
- `PageText`: `_parse_json_ld`, `_dedupe_ordered` and the results loop of
  `search`, against the beginning of all there is.
- `QueryPlan`: `parse_query`, `build_queries`, `parse_result_limit`,
  `resolve_config` and the override of `create_and_enqueue`, over texts that are
  sequences of words; `Within` says which surface form is part of which, and
  `Value` the number that a word ends in where the regular expression finds one:
  two to five digits behind a word boundary, so 0 for `1,000` and 5 for `05`.
  `Plain` are the words it lets stand between the number and the noun.

`Pipeline` puts them into one specification: a behaviour is a fetch, or one
`sample` for one function (`part`), drawn at the start from sets that are
constants. So that "for every input" is an invariant, which TLC checks over the
small sets of `MCPipeline`, and TLAPS proves for any.

## 3. Runs

| Run | Checks | Instance, and why it is enough |
|---|---|---|
| `job_faults` | `TypeOK`, `QueuedJobsExist`, `FailureRecorded`, `TerminalEventTruthful`, `LeaksCostAFault`, `SettledStays`, `FollowsProgress` | one job, three attempts, four faults: one more fault than attempts, so every attempt can fail at any step and the request too. Jobs share nothing these properties speak of; the proofs cover any number. |
| `job_quota` | `QuotaOvershoot` | three requests, two in flight, no quota row, limit one: the self-heal race, the check race and a slot given back to a third request. |
| `job_live` | `AttemptsEnd`, `RunsToTheEnd` | two jobs, one worker slot, two attempts, one fault. |
| `job_order` | `DocumentedOrder`: violated | one job, no fault. |
| `job_quota_exact` | `QuotaExact`: violated | two requests at once, limit one, no fault. |
| `job_stuck` | `NeverStuckMidStatus`: violated | one job, one timeout, under fairness. |
| `crawl` | `TypeOK`, `NoNearTwins`, `StopIsJustified`, `NothingIsLeft`, `CrawlEnds` | one attempt; five pages, one with two urls; budget four, waves of two: a wave cut by the frontier, one cut by the budget, a budget that runs out with candidates left, links that outrank search results, links of duplicates, a stall across two waves. Contents where similarity is not transitive. |
| `crawl_again` | `NoResultTwice`, `RowsMatch`, `Explores` | two attempts, budget three, waves of two (the last wave is cut to one), interrupted anywhere; a content with bytes but no text, which only the hash can recognize. |
| `accounts` | of `Session`: `SessionTypeOK`, `SessionIsTheChosenOne`, `RetryHasNewToken`, `RequestsEnd`; of `Tenancy`: `TenancyTypeOK`, `RegistrationIsWhole`, `FailsOnlyForCause`, `SeesExactlyItsOwn`, `RegistrationsEnd`; of `Migration`: `TenantOfItsJob`, `UpgradeGetsThrough` | Three parts that share no state, so each behaviour is one of a single part. Two requests, two users, three token pairs: a sign-in, a refresh of it, and a late refusal or another user. Three registrations for one name, two for one address, one of which may be cut off, with a visitor, over two connections: connections are reused by other tenants and waited for; the role ordinary or a superuser. Two tenants, a row in each table, any of them older than the column. |
| `pipeline` | `FetchKeepsItsWord`, `KeysForgetOnlyNoise`, `LinksAreOfTheSite`, `PlanCoversTheRequest`, `ListsKeepTheFirst`; of `EventFeed`: `FeedTypeOK`, `StatusHasItsHistory`, `ResultsAreFinal`, `ShowsTheLog`, `CatchesUp`, `PageSettles` | The real limit of five redirects over three urls, one of them refused, and bodies of chunks of three sizes around a limit of three; the functions over every pair of 200 urls, every page of four links out of seven, every text of up to four of eleven words in two modes with three overrides, and lists of up to four around limits of two. One initial state per input. Or a job and its page: two statuses, two kinds of event, a log of three, so that an event repeats; two access tokens; one result; any number of polls. A behaviour is one of a single part. |
| `url_keys` | `KeysAreAsDocumented`: violated | the same urls. |
| `crawl_budget` | `StoppedEarlyHasBudgetLeft`: violated | one attempt, budget three. |

Deadlock is not checked: jobs end, requests run out, and then nothing happens.

### Fairness

`JobLifecycle` assumes weak fairness, per job, of the request handler, of arq and
of the attempt: an asyncio task that can go on does, a worker with a free slot
takes a queued job. No request has to be sent and no fault has to happen.
`job_live` needs no strong fairness: with `MaxTries` bounded a slot is given back
for good. `CrawlJob` assumes weak fairness of its steps only.

`EventFeed` assumes that the query's timer fires and the server reads, and that
polls do not fail for ever (strong fairness of `PollAnswered`: react-query asks
again every two seconds). It assumes nothing of the websocket, and nothing of the
worker: `PageSettles` starts from a job that has settled. `Session` assumes that
a request that was sent, or a refresh, gets an answer, if only a time-out.
`Tenancy` assumes strong fairness of each registration that has started: a step
that is enabled again and again waits for a connection of the pool or for a row
of another registration, and both queues are served in turn. Visits end, so that
connections return. Nobody has to register, sign in, send or expire.

### Findings

- **The status can go backwards** (`job_order`): the request writes `QUEUED`
  after handing the job over. A fast worker's status is overwritten; if the job
  had ended, it shows `queued` for ever and keeps a quota slot.
- **The quota can be exceeded** (`job_quota_exact`): the check and the insert are
  separate. `QuotaOvershoot` says by how much: never by more than the other
  requests in flight.
- **A timeout leaves a job stuck** (`job_stuck`): `CancelledError` passes
  `except Exception`, and arq does not run the job again.
- **Stopping "early" at the full budget** (`crawl_budget`).
- **A trailing slash can make another page** (`url_keys`): the docstring of
  `normalize_url` (`normalize.py:2-3`) calls urls one page that only differ by a
  tracking parameter or a trailing slash. `https://acme.com` and `https://acme.com/`
  get two keys, and so do `/a;b` and `/a;b/`: each costs a page of the budget.

Noted while reading, without a run:

- Results can be read before the job is completed (`docs/API.md:115` says they
  are empty until then); it is the page that waits (`ResultsAreFinal`).
- A sign-out or sign-in while a refresh is in flight does not last: its answer
  wins. `SessionIsTheChosenOne` excepts exactly this (`overtaken`).
- A page that has settled never looks again; if arq runs the job once more, the
  page keeps the old results (`reopened` in `ResultsAreFinal`).
- `normalize_url` drops the parameters of the last path segment (`/a;v=1`), which may
  change what a server returns; the docstring (`normalize.py:5-7`) promises to strip
  nothing of that kind. `KeyForgets` states it.
- "Find 1,000 companies" asks for no company at all: the number found is `000`, which
  is a limit of 0, and the job completes with no result; "05 leads" asks for five.
  `BudgetFits` states what follows from a number, 0 included.
- One word can hint at several attributes ("about"), each of which adds 2.0 to the
  score: a link three hops deep can then outrank a search result, which the docstring
  of `score_candidate` (`prioritization.py:46-50`) says the decay prevents.
- With two signals and a scope, `MAX_QUERIES` leaves no room for the
  decision-maker query.
- A url whose name cannot be encoded, or that httpx refuses, makes `fetch` raise
  instead of returning an error, and so fails the whole job.
- When a refresh fails after the commit of a registration, the account exists, the caller is told 500, and registering again answers 409.
- A page with the same bytes as one rejected as a near-duplicate is reported as
  `near_duplicate` (`docs/API.md:128`); an error is never cleared, so a job run
  again after a failure can be completed with an error.

## 4. Proofs

Every invariant, action property and refinement that a run checks is also a
theorem, for every value of the constants that satisfies the modules' `ASSUME`s.
TLC evaluates these on the instances. Each theorem rests on an inductive
invariant: the property, and what the code relies on to keep it.

**JobLifecycle** (`JobLifecycleProofs`). `OrgOf` maps the jobs to organizations, there are
finitely many jobs, quotas and bounds are natural numbers.

- `TypeCorrect`: `TypeOK` is inductive.
- `AttemptInv` strengthens the state properties. `RowsExist`: a job the queue, a
  running attempt or a request past its insert knows of has a row. `ErrorFirst`:
  wherever the failure handler stands past its first commit, and wherever its
  event is logged, the error is set. `FirstAttempt`: in a job's first attempt the
  step of the attempt determines what its status can be (or that `MarkQueued` has
  just overwritten it). None of the properties is inductive without the last: a
  published event says nothing of the row unless the step that follows it is tied
  to the status before it.
- `QueuedJobsAlwaysExist`, `FailuresAreRecorded`, `TerminalEventsAreTruthful`
  follow from it; `SettledJobsStay` is an action property from the same invariant.
- `QuotaOvershootBounded`: requests past the check and active rows are counted
  together (`Occupied`); `CountActive` is the only step that adds to them, it does
  so only below the limit, and the requests that passed meanwhile are in flight,
  of which `InFlightBound` allows `MaxInFlight`.
- `LeaksAreFaults`: a leaked slot is counted one step early, when nothing is left
  that could settle the job (`Lost`); `SettledBy` says that an attempt which has
  written its last words has settled its job, so that a return without a fault
  adds nothing to `Lost`, and each fault adds at most its own job.

Its refinement of `JobProgress`, `JobsFollowProgress`: the log of a job has every event
its step `Needs`, the one it publishes and the forerunner of the status it is about to
write. Scripts never ask for more than the step before gave, and logs only grow; so
`SetStatus` finds its forerunner, also in a second attempt, which writes the same events
again.

**CrawlJob** (`CrawlJobProofs`). The web is any functions of the right types,
objectives are finite, limits are natural numbers with at least one fetch at a
time, and similarity is symmetric.

- `RowsAlwaysMatch`: inside of a wave sources and pages do not match; `Ledger` says
  what is open at each place: the candidates recorded so far, then the pages the wave
  still has to take. `WaveIsSeq` shows that a wave is never empty.
- `ResultsDiffer`, `ResultsAreFarApart`: `Unlike` carries the outcome of the two
  checks from `TakePage` to `AddResult`, which is a transaction later: the last page
  is the one to be stored, no result has its hash, none of this attempt is near to
  it. That the detector remembers every result of the attempt is part of it.
- `CrawlsLeaveNothing`, from `CoverInv`: a key that is remembered is visited, or its
  candidate is in the frontier or in the part of the wave that has no source yet
  (`Covered`); the links of every page that was learned from are remembered while
  there is budget (`Led`); and the loop ends without a reason only when the frontier
  or the budget has (`Exhausted`). A key that is pushed gets its candidate at the first
  of its places (`PushCovers`).
- `StopsAreJustified`, from `StopInv`: the tracker's set is what the pages of the
  attempt so far contain of the objective, and its streak is the number of last pages
  that added too little (`Measured`). The window that the decision speaks of is in no
  variable of the code; `FoundBy` reads it back from the rows.
- `CrawlExplores`: `visited` is mapped to the keys of the attempt's sources. A recorded
  source is new because a wave holds keys that were never queued before, and there is
  room for it because waves are cut by the budget (`OrderInv`: `Frontier`, `Unvisited`,
  `WithinBudget`).
- `CrawlIsTyped`, from `TypedInv`, with parts for the words of the control state, what
  the attempt remembers, and the rows.

**EventFeed** (`EventFeedProofs`). Terminal statuses are statuses, `completed` is one; a status
that is not written (`loading`, `absent`) has no forerunner.

- `StatusNeverRunsAhead`: the status carries its forerunner from the row through the
  poll to the page. It is the order of the two reads that makes this inductive.
- `ResultsReadAreFinal`: a terminal status is seen nowhere unless the job is over or
  was reopened (`Final`), and nothing is saved after.
- `PageIsTyped`, `PageShowsTheLog`, from `PageInv`: the events of the last answer are
  a beginning of the log, and the answer on its way has no fewer (`Stored`); the events
  heard, and those still on the wire, have places in the log that are in order
  (`HeardInOrder`); the timeline is the merge of the two (`Merged`). `Merge` is
  unfolded one live event at a time (`Recursion`), which shows that its result has
  places in the log again, and that more of either part takes nothing away.

**Session** (`SessionProofs`). A refresh in flight was sent with a token and has got nothing
yet (`Shape`); it belongs to the user of the store unless that has changed since
(`SameUser`); nobody has seen the pair it gets (`FreshPair`). Without the second the
answer could be another user's, without the third a repeated request could carry a
token it was refused with. `SessionFollowsTheUser`, `RetriesOnceWithANewToken` and
`SessionTypeCorrect` follow.

**Tenancy** (`TenancyProofs`). Finitely many registrations, any visits and connections.

- `TenantsAreIsolated`, of an ordinary role: the role stays what it is (`RoleStays`), a
  connection has one session, and its setting is the tenant
  of that session as long as the transaction lasts (`Isolation`).
- `TenancyTypeCorrect`, `AccountsAreWhole`, `RefusedForCauseOnly`: how far a registration
  has come says which rows it holds (`Stages`); keys are unique over committed and
  pending rows (`Keys`); every suffix a registration has passed belongs to an
  account that stays (`Causes`), so that by counting accounts a suffix is at most
  the number of registrations (`SuffixBound`).

**Migration** (`MigrationProofs`). Foreign keys lead from pages to sources, from all other rows to
jobs, from jobs to organizations. `RowsHaveTheirTenant`: when statement k of the
upgrade comes, the tables before it are filled (`Upgrading`), and the one it fills
reads from these; whatever fails, the rollback leads to a whole state of 0001 or 0002.
`OwnerOf` is a recursive definition; that it has a solution is proved by giving
one, since it goes up three tables at most.

`UpgradesGetThrough` follows from the same invariant: since the tables a statement reads
from are filled, what it writes into its own (`Filling`) is the organization of each
row's job (`FillsWell`), which is never null; so `SET NOT NULL` accepts it.

**Pipeline** (`PipelineProofs`). Folds and recursive functions are unfolded position by
position, since the provers have no induction over data: `FoldingUnfolds` and
`FlattenUnfolds` say that what a fold computes is the last value of a function that
takes one step per position, and `IntervalInduction` (`Recursion`) proves what holds
of each of its values.

- `RequestsAreChecked`: checks and requests take turns, and between them `fetch` holds
  the url that was checked last (`Turns`); the body lacks nothing as long as what
  arrived is under the limit (`Body`).
- `KeysForget`: a path has one place behind which there are only slashes
  (`BareSomewhere`), so two paths are stripped to the same one exactly when they
  differ in slashes (`PathsAreTheSame`); it is applied to what `urlparse` leaves of a
  path, which is a beginning of it (`PathIsPath`). The kept pairs are sorted and as
  many as they were (`KeptIsSorted`), and a sorted sequence is the only one with its
  pairs (`SortedIsUnique`).
- `LinksStayOnTheSite`, `ListsAreBeginnings`: what is kept of a sequence is the value of
  each position that has a new one, in its place (`KeepsTheNew`); a list that is cut as
  it grows is the beginning of the whole (`CutAppend`).
- `PlansCover`: the entries that match are those of the table (`MatchesAre`); the longest
  form in the text, or the first of a signal, has no form around it
  (`LongestExplains`, `FirstExplains`); the angles but the last are all different
  (`AnglesDiffer`), so that none of the first four queries is lost to a repetition.
  A limit is the first number that counts something, whatever its value (`BudgetIsRight`).

The assumptions say of the code's tables: a form that is part of another is shorter, no signal lists a form
before one that contains it, and no two signals have one name, none of them
"companies" (`PlanAssumption`); a request that is word for word one of its own
queries asks for few others (`PipelineAssumption`). These are facts of the tables in `keywords.py`: of all
the queries that their names can make, none that comes back as its own angle has more
than two angles. With tables where it had four, the repetition would take the place of
one of them.

### Only model-checked, and why

The liveness properties: `AttemptsEnd`, `RunsToTheEnd`, `CrawlEnds`, `CatchesUp`,
`PageSettles`, `RequestsEnd`, `RegistrationsEnd`. They need fairness, that is `ENABLED`,
which the installed provers do not handle.

## 5. Plan

What could come next, most useful first:

1. Two pages of one job, and a page that is hidden and shown again: the query
   library decides what is fetched then, so this needs a model of it.
2. The whole pipeline at once, `CrawlJob` inside of `JobLifecycle`'s `Crawl` step. Nothing
   the two modules' properties speak of is shared between them but the status.

### Not modelled

- The confidence score: a base score and two bonuses for one page; only the order
  and the display of results depend on it.
- Company sizes and freshness of the query parser: recorded, and used by nothing.
- Regular expressions, meta tags, trafilatura, BeautifulSoup, urlparse, httpx,
  bcrypt and JWT: library code; their results are constants, or any value.
- Revisions 0003 and 0004: a column with a default each, which no row can refuse.
- Rendering, forms and layout; configuration, logging and health: no state of
  their own that changes at run time.
