------------------------------ MODULE CrawlJob ------------------------------
(***************************************************************************)
(* The crawl of one research job: what run_research_job                    *)
(* (backend/app/workers/tasks/research.py) does between its status writes, *)
(* and the rows it leaves in sources, crawl_pages and research_results.    *)
(*                                                                         *)
(* An attempt searches, seeds a priority frontier, and crawls it in waves: *)
(* it pops the candidates of a wave one by one, records a source for each, *)
(* fetches the wave, and takes its pages in order, storing each, storing a *)
(* result unless the page is a duplicate, measuring what it taught, and    *)
(* pushing its links. What it remembers about the crawl is in memory; an   *)
(* attempt that is interrupted is run again over the rows of the one       *)
(* before. The web is not a constant: every fetch may find any content, or *)
(* fail.                                                                   *)
(***************************************************************************)
EXTENDS Integers, Sequences, FiniteSets

CONSTANTS
    Urls,         \* urls a search or a page can yield
    Norm,         \* normalize_url: url -> dedup key
    Signals,      \* url -> the attributes its words (and its anchor's) hint at
    Contents,     \* what a fetch can find
    Page,         \* content -> its hash, text, attributes and links
    NoHash,       \* the hash of an empty body: there is none
    Near,         \* pairs of texts with a Jaccard similarity of 0.9 or more
    Failure,      \* the result of a fetch that failed
    Objectives,   \* the sets of required attributes a query can ask for
    Found,        \* what the queries of a search can return, one after another
    MaxResults,   \* config.max_results
    MaxPages,     \* config.max_pages
    Concurrency,  \* crawler_max_concurrency
    MaxAttempts   \* bound: attempts of the job

StallFloor == 3
StallLimit == 2

Attributes == UNION Objectives
Texts      == {Page[c].text : c \in Contents}

ASSUME WebAssumption ==
    /\ DOMAIN Norm = Urls
    /\ \A o \in Objectives : IsFiniteSet(o)
    /\ Signals \in [Urls -> SUBSET Attributes]
    /\ Failure \notin Contents
    /\ \A c \in Contents :
         /\ DOMAIN Page[c] = {"hash", "text", "attrs", "links"}
         /\ Page[c].attrs \subseteq Attributes
         /\ Page[c].links \in Seq(Urls)
    /\ Found \subseteq Seq(Urls)
ASSUME LimitsAssumption ==
    /\ MaxResults \in Nat /\ MaxPages \in Nat
    /\ Concurrency \in Nat \ {0} /\ MaxAttempts \in Nat \ {0}
\* Pages with the same bytes have the same text, and similarity is symmetric.
ASSUME SimilarityAssumption ==
    /\ Near \subseteq Texts \X Texts
    /\ \A p \in Near : <<p[2], p[1]>> \in Near
    /\ \A c, d \in Contents :
         Page[c].hash = Page[d].hash /\ Page[c].hash # NoHash => Page[c].text = Page[d].text

VARIABLES
    required,  \* objective.required_attributes, fixed when the job is created
    \* the database
    status,    \* research_jobs.status
    sources,   \* sources: the candidate's url, in id order
    pages,     \* crawl_pages: source id and what was fetched, in id order
    results,   \* research_results: the page id of each, in id order
    events,    \* research_events that report on the crawl
    \* the attempt
    attempt,   \* its number
    pc,        \* where run_research_job stands
    heap,      \* frontier
    seen,      \* seen_normalized
    next,      \* counter
    wave,      \* the candidates of this wave, in the order they were popped
    fetched,   \* fetch_results
    at,        \* the place in the wave of the page being taken
    crawled,   \* pages_crawled
    counted,   \* result_count
    satisfied, \* gain_tracker.satisfied
    streak,    \* stall_streak
    texts,     \* near_dup_detector: the texts recorded
    reason,    \* duplicate_reason of the page being taken
    stop,      \* stop_reason
    \* where the tables stood when the attempt began (not in the code)
    base

rows   == <<sources, pages, results>>
memory == <<heap, seen, next, wave, fetched, at, crawled, counted, satisfied, streak, texts,
            reason, stop>>
vars   == <<required, status, rows, events, attempt, pc, memory, base>>

-----------------------------------------------------------------------------
(* The frontier. *)

Candidates == [url : Urls, depth : Nat, seq : Nat]

Power(b, n) == LET p[k \in 0 .. n] == IF k = 0 THEN 1 ELSE b * p[k - 1] IN p[n]

\* score_candidate is (1 + 2 * hints) * 0.6^depth; two scores are compared
\* exactly, by multiplying them out.
Bonus(url) == 1 + 2 * Cardinality(Signals[url] \cap required)
ScoreAbove(c, d) ==
    Bonus(c.url) * Power(3, c.depth) * Power(5, d.depth)
        > Bonus(d.url) * Power(3, d.depth) * Power(5, c.depth)

\* The order of the heap's (-score, counter) pairs.
PoppedBefore(c, d) == ScoreAbove(c, d) \/ (~ ScoreAbove(d, c) /\ c.seq < d.seq)

\* The places of `urls` among `places` whose key is new, each key once.
NewAt(urls, places) ==
    {i \in places : /\ Norm[urls[i]] \notin seen
                    /\ \A h \in places : h < i => Norm[urls[h]] # Norm[urls[i]]}

PushRawSeen(urls, places, depth) ==   \* mutant: the url is remembered, not its key
    /\ heap' = heap \cup {[url |-> urls[i], depth |-> depth, seq |-> next + i]
                             : i \in NewAt(urls, places)}
    /\ seen' = seen \cup {urls[i] : i \in places}
    /\ next' = next + Len(urls)

\* Pushing the urls at these places, in order. Places stand for the counter:
\* it only has to grow.
Push(urls, places, depth) ==
    /\ heap' = heap \cup {[url |-> urls[i], depth |-> depth, seq |-> next + i]
                             : i \in NewAt(urls, places)}
    /\ seen' = seen \cup {Norm[urls[i]] : i \in places}
    /\ next' = next + Len(urls)

-----------------------------------------------------------------------------
(* An attempt. *)

None == "none"

Event(kind, about, n) == [kind |-> kind, about |-> about, n |-> n]

Init ==
    /\ required \in Objectives
    /\ status = "queued"
    /\ sources = << >> /\ pages = << >> /\ results = << >> /\ events = << >>
    /\ attempt = 1 /\ pc = "begin"
    /\ heap = {} /\ seen = {} /\ next = 0
    /\ wave = << >> /\ fetched = << >> /\ at = 1
    /\ crawled = 0 /\ counted = 0
    /\ satisfied = {} /\ streak = 0 /\ texts = {}
    /\ reason = None /\ stop = None
    /\ base = [sources |-> 0, pages |-> 0, results |-> 0]

Begin ==
    /\ pc = "begin"
    /\ status' = "searching"
    /\ pc' = "search"
    /\ UNCHANGED <<required, rows, events, attempt, memory, base>>

\* The places of the hits the crawl starts from: each url once, the first
\* MaxResults of them.
Hits(found) ==
    LET first == {i \in DOMAIN found : \A h \in 1 .. i - 1 : found[h] # found[i]}
    IN  {i \in first : Cardinality({h \in first : h <= i}) <= MaxResults}

\* The queries are back: without hits the job is complete, otherwise they
\* seed the frontier.
Search ==
    /\ pc = "search"
    /\ \E found \in Found :
         \/ /\ Hits(found) = {}
            /\ pc' = "complete"
            /\ UNCHANGED <<status, heap, seen, next>>
         \/ /\ Hits(found) # {}
            /\ status' = "crawling"
            /\ Push(found, Hits(found), 0)
            /\ pc' = "loop"
    /\ UNCHANGED <<required, rows, events, attempt, wave, fetched, at, crawled, counted,
                   satisfied, streak, texts, reason, stop, base>>

\* `while frontier and pages_crawled < max_pages`: the next wave begins.
NextWave ==
    /\ pc = "loop"
    /\ heap # {} /\ crawled < MaxPages
    /\ wave' = << >> /\ at' = 1
    /\ pc' = "pop"
    /\ UNCHANGED <<required, status, rows, events, attempt, heap, seen, next, fetched, crawled,
                   counted, satisfied, streak, texts, reason, stop, base>>

\* heappop takes the least of the heap.
HeapPop(c) ==
    /\ c \in heap
    /\ \A d \in heap \ {c} : PoppedBefore(c, d)
    /\ heap' = heap \ {c}

WaveHasRoomOverBudget ==      \* mutant: the wave is not cut to the budget left
    heap # {} /\ Len(wave) < Concurrency
\* The wave takes as many as may be fetched at once and as the budget has left.
WaveHasRoom == heap # {} /\ Len(wave) < Concurrency /\ crawled + Len(wave) < MaxPages

Pop ==
    /\ pc = "pop"
    /\ IF WaveHasRoom THEN /\ \E c \in heap : HeapPop(c) /\ wave' = Append(wave, c)
                           /\ UNCHANGED pc
                      ELSE pc' = "sources" /\ UNCHANGED <<heap, wave>>
    /\ UNCHANGED <<required, status, rows, events, attempt, seen, next, fetched, at, crawled,
                   counted, satisfied, streak, texts, reason, stop, base>>

EndLoopOffByOne ==            \* mutant: > where the code has >=
    /\ pc = "loop"
    /\ heap = {} \/ crawled > MaxPages
    /\ pc' = "extract"
    /\ UNCHANGED <<required, status, rows, events, attempt, memory, base>>
EndLoop ==
    /\ pc = "loop"
    /\ heap = {} \/ crawled >= MaxPages
    /\ pc' = "extract"
    /\ UNCHANGED <<required, status, rows, events, attempt, memory, base>>

\* add_source commits, one candidate after the other.
AddSource ==
    /\ pc = "sources"
    /\ sources' = Append(sources, wave[at].url)
    /\ IF at < Len(wave) THEN at' = at + 1 /\ UNCHANGED pc
                         ELSE at' = 1 /\ pc' = "fetch"
    /\ UNCHANGED <<required, status, pages, results, events, attempt, heap, seen, next, wave,
                   fetched, crawled, counted, satisfied, streak, texts, reason, stop, base>>

\* The source of a page of the wave.
SourceOf(i) == Len(sources) - Len(wave) + i

\* All the fetches of the wave come back, in whatever order they ran.
FetchWave ==
    /\ pc = "fetch"
    /\ fetched' \in [1 .. Len(wave) -> Contents \cup {Failure}]
    /\ pc' = "take"
    /\ UNCHANGED <<required, status, rows, events, attempt, heap, seen, next, wave, at, crawled,
                   counted, satisfied, streak, texts, reason, stop, base>>

\* On to the next page of the wave.
Advance ==
    IF at < Len(wave) THEN at' = at + 1 /\ pc' = "take"
                      ELSE at' = at /\ pc' = "decide"

TakeFailureUnrecorded ==      \* mutant: a failed fetch leaves no row of crawl_pages
    /\ pc = "take" /\ fetched[at] = Failure
    /\ events' = Append(events, Event("page.failed", None, Len(pages)))
    /\ crawled' = crawled + 1
    /\ streak' = streak + 1
    /\ Advance
    /\ UNCHANGED <<required, status, rows, attempt, heap, seen, next, wave, fetched, counted,
                   satisfied, texts, reason, stop, base>>
TakeFailure ==
    /\ pc = "take" /\ fetched[at] = Failure
    /\ pages' = Append(pages, [source |-> SourceOf(at), content |-> Failure])
    /\ events' = Append(events, Event("page.failed", None, Len(pages')))
    /\ crawled' = crawled + 1
    /\ streak' = streak + 1
    /\ Advance
    /\ UNCHANGED <<required, status, sources, results, attempt, heap, seen, next, wave, fetched,
                   counted, satisfied, texts, reason, stop, base>>

HashUsedThisAttempt(hash) ==  \* mutant: a set in memory instead of the query
    \E r \in base.results + 1 .. Len(results) : Page[pages[results[r]].content].hash = hash

\* content_hash_already_used: some result of the job, of any attempt, has it.
HashUsed(hash) ==
    \E r \in DOMAIN results : Page[pages[results[r]].content].hash = hash

\* mutant: a threshold of 1.0
NearSeenExactly(text) == \E t \in texts : <<text, t>> \in Near /\ text = t
NearSeen(text) == \E t \in texts : <<text, t>> \in Near

TakePage ==
    /\ pc = "take" /\ fetched[at] # Failure
    /\ LET page == Page[fetched[at]]
       IN  /\ reason' = IF page.hash # NoHash /\ HashUsed(page.hash) THEN "exact_hash"
                        ELSE IF NearSeen(page.text) THEN "near_duplicate" ELSE None
           /\ texts' = texts \cup {page.text}
    /\ pages' = Append(pages, [source |-> SourceOf(at), content |-> fetched[at]])
    /\ crawled' = crawled + 1
    /\ pc' = IF reason' = None THEN "result" ELSE "learn"
    /\ UNCHANGED <<required, status, sources, results, events, attempt, heap, seen, next, wave,
                   fetched, at, counted, satisfied, streak, stop, base>>

AddResult ==
    /\ pc = "result"
    /\ results' = Append(results, Len(pages))
    /\ counted' = counted + 1
    /\ pc' = "learn"
    /\ UNCHANGED <<required, status, sources, pages, events, attempt, heap, seen, next, wave,
                   fetched, at, crawled, satisfied, streak, texts, reason, stop, base>>

LinksUnlessDuplicate(c) ==    \* mutant: a duplicate leads nowhere
    IF reason = None THEN Page[c].links ELSE << >>
\* extract_links. A duplicate is followed like any other page.
LinksOf(c) == Page[c].links

\* What the page taught, and where it leads: while there is budget left its
\* links join the frontier, one deeper than the page.
Learn ==
    /\ pc = "learn"
    /\ LET gain  == Page[fetched[at]].attrs \cap (required \ satisfied)
           links == LinksOf(fetched[at])
           new   == NewAt(links, DOMAIN links)
           done  == Append(events, Event("page.completed", reason, Len(pages)))
       IN  /\ satisfied' = satisfied \cup gain
           /\ streak' = IF gain # {} THEN 0 ELSE streak + 1
           /\ IF crawled < MaxPages
              THEN /\ Push(links, DOMAIN links, wave[at].depth + 1)
                   /\ events' = IF new = {} THEN done
                                ELSE Append(done, Event("crawl.expanded", None, Cardinality(new)))
              ELSE /\ events' = done
                   /\ UNCHANGED <<heap, seen, next>>
    /\ Advance
    /\ UNCHANGED <<required, status, rows, attempt, wave, fetched, crawled, counted, texts,
                   reason, stop, base>>

DecideOffByOne ==             \* mutant: one page without news is enough
    /\ pc = "decide"
    /\ stop' = IF required # {} /\ satisfied = required THEN "objective_satisfied"
               ELSE IF required # {} /\ streak >= StallLimit - 1 /\ crawled >= StallFloor
               THEN "diminishing_returns" ELSE None
    /\ pc' = IF stop' = None THEN "loop" ELSE "stopped"
    /\ UNCHANGED <<required, status, rows, events, attempt, heap, seen, next, wave, fetched, at,
                   crawled, counted, satisfied, streak, texts, reason, base>>

\* After a wave: stop when all attributes are found, or when nothing new was
\* found for a while. Without required attributes there is nothing to measure.
Decide ==
    /\ pc = "decide"
    /\ stop' = IF required # {} /\ satisfied = required THEN "objective_satisfied"
               ELSE IF required # {} /\ streak >= StallLimit /\ crawled >= StallFloor
               THEN "diminishing_returns" ELSE None
    /\ pc' = IF stop' = None THEN "loop" ELSE "stopped"
    /\ UNCHANGED <<required, status, rows, events, attempt, heap, seen, next, wave, fetched, at,
                   crawled, counted, satisfied, streak, texts, reason, base>>

Announce ==
    /\ pc = "stopped"
    /\ events' = Append(events, Event("crawl.stopped_early", stop, crawled))
    /\ pc' = "extract"
    /\ UNCHANGED <<required, status, rows, attempt, memory, base>>

Extract ==
    /\ pc = "extract"
    /\ status' = "extracting"
    /\ pc' = "complete"
    /\ UNCHANGED <<required, rows, events, attempt, memory, base>>

Complete ==
    /\ pc = "complete"
    /\ status' = "completed"
    /\ events' = Append(events, Event("research.completed", None, counted))
    /\ pc' = "done"
    /\ UNCHANGED <<required, rows, attempt, memory, base>>

\* A step raises: the guard around the job turns it into a failure.
Fail ==
    /\ pc # "done"
    /\ status' = "failed"
    /\ events' = Append(events, Event("research.failed", None, 0))
    /\ pc' = "done"
    /\ UNCHANGED <<required, rows, attempt, memory, base>>

\* The worker dies, at any step and even after the last, before arq has noted
\* the end: the job is run again, with the rows it has and an empty memory.
RunAgain ==
    /\ attempt < MaxAttempts
    /\ attempt' = attempt + 1
    /\ pc' = "begin"
    /\ heap' = {} /\ seen' = {} /\ next' = 0
    /\ wave' = << >> /\ fetched' = << >> /\ at' = 1
    /\ crawled' = 0 /\ counted' = 0
    /\ satisfied' = {} /\ streak' = 0 /\ texts' = {}
    /\ reason' = None /\ stop' = None
    /\ base' = [sources |-> Len(sources), pages |-> Len(pages), results |-> Len(results)]
    /\ UNCHANGED <<required, status, rows, events>>

Step == \/ Begin \/ Search \/ NextWave \/ Pop \/ EndLoop \/ AddSource \/ FetchWave
        \/ TakeFailure \/ TakePage \/ AddResult \/ Learn \/ Decide \/ Announce
        \/ Extract \/ Complete

Next == Step \/ Fail \/ RunAgain

Spec     == Init /\ [][Next]_vars
FairSpec == Spec /\ WF_vars(Step)

-----------------------------------------------------------------------------
(* Properties. *)

Reasons == {None, "exact_hash", "near_duplicate"}
Stops   == {None, "objective_satisfied", "diminishing_returns"}
Kinds   == {"page.failed", "page.completed", "crawl.expanded", "crawl.stopped_early",
            "research.completed", "research.failed"}

\* Every variable keeps its shape.
TypeOK ==
    /\ required \in Objectives
    /\ status \in {"queued", "searching", "crawling", "extracting", "completed", "failed"}
    /\ sources \in Seq(Urls)
    /\ pages \in Seq([source : Nat \ {0}, content : Contents \cup {Failure}])
    /\ results \in Seq(Nat \ {0})
    /\ events \in Seq([kind : Kinds, about : Reasons \cup Stops, n : Nat])
    /\ attempt \in 1 .. MaxAttempts
    /\ pc \in {"begin", "search", "loop", "pop", "sources", "fetch", "take", "result", "learn",
               "decide", "stopped", "extract", "complete", "done"}
    /\ heap \subseteq Candidates
    /\ seen \subseteq {Norm[u] : u \in Urls}
    /\ next \in Nat
    /\ wave \in Seq(Candidates)
    /\ fetched \in Seq(Contents \cup {Failure})
    /\ at \in Nat \ {0}
    /\ crawled \in Nat /\ counted \in Nat /\ streak \in Nat
    /\ satisfied \subseteq Attributes
    /\ texts \subseteq Texts
    /\ reason \in Reasons
    /\ stop \in Stops
    /\ base \in [sources : Nat, pages : Nat, results : Nat]

ContentOf(r) == pages[results[r]].content

\* Two results of a job never come from pages with the same bytes, even when
\* an interrupted attempt had stored the first: content_hash_already_used
\* asks the database, not the attempt's memory.
NoResultTwice ==
    \A r, s \in DOMAIN results :
        /\ ContentOf(r) # Failure
        /\ r < s => \/ Page[ContentOf(r)].hash # Page[ContentOf(s)].hash
                    \/ Page[ContentOf(r)].hash = NoHash

\* Two results of one attempt are never near-duplicates. (Between attempts
\* they can be: the detector's memory is lost.)
NoNearTwins ==
    \A r, s \in DOMAIN results :
        r < s /\ r > base.results =>
            <<Page[ContentOf(r)].text, Page[ContentOf(s)].text>> \notin Near

\* Between waves every candidate of this attempt that got a source has got
\* exactly one page, in the same order, whether its fetch failed or not; and
\* pages_crawled and result_count count this attempt's rows.
RowsMatch ==
    /\ pc \in {"begin", "search", "loop", "pop", "decide", "stopped", "extract", "complete"} =>
           Len(sources) - base.sources = Len(pages) - base.pages
    /\ \A i \in base.pages + 1 .. Len(pages) :
           pages[i].source = i - base.pages + base.sources
    /\ crawled = Len(pages) - base.pages
    /\ counted = Len(results) - base.results

\* The required attributes that the first n pages of this attempt contain.
FoundBy(n) ==
    required \cap UNION {Page[pages[base.pages + i].content].attrs :
                           i \in {j \in 1 .. n : pages[base.pages + j].content # Failure}}

\* The reason for stopping early is true of the pages that are stored: they
\* contain all that was asked for, or there are three and the last two
\* contain nothing that the others do not. And if the loop ended without a
\* reason, there was no candidate or no budget left.
StopIsJustified ==
    /\ stop = "objective_satisfied" => required # {} /\ FoundBy(crawled) = required
    /\ stop = "diminishing_returns" =>
           /\ crawled >= StallFloor
           /\ FoundBy(crawled - StallLimit) = FoundBy(crawled)
           /\ FoundBy(crawled) # required
    /\ pc = "extract" /\ stop = None => heap = {} \/ crawled = MaxPages

\* The keys this attempt has given a source to, in order; and whether it will
\* give any more.
Path  == [i \in 1 .. Len(sources) - base.sources |-> Norm[sources[base.sources + i]]]
Ended == pc \in {"extract", "complete", "done"}

\* A crawl that ends for want of candidates, with budget left and without a
\* reason to stop, has visited everything it was led to: every link of every
\* page it read, of a duplicate as of any other, has its key among those it
\* visited. Nothing is lost between the frontier, the keys it remembers and
\* the waves.
NothingIsLeft ==
    pc \in {"extract", "complete"} /\ stop = None /\ crawled < MaxPages =>
        \A i \in base.pages + 1 .. Len(pages) :
            pages[i].content # Failure =>
                \A l \in DOMAIN Page[pages[i].content].links :
                    \E k \in DOMAIN Path : Path[k] = Norm[Page[pages[i].content].links[l]]

\* A crawl explores: it gives no page a source twice in an attempt, and no
\* more sources than max_pages.
Visits == INSTANCE Exploration
    WITH Keys    <- {Norm[u] : u \in Urls},
         Budget  <- MaxPages,
         visited <- Path,
         stopped <- Ended
Explores == Visits!Spec

\* The crawl ends, whatever the web looks like.
CrawlEnds == <>[](pc = "done")

-----------------------------------------------------------------------------
(* What the documents of the repository say, and the code does not do. *)

\* docs/API.md:138: crawl.stopped_early is reported only when the crawl
\* stopped before it exhausted max_pages.
StoppedEarlyHasBudgetLeft ==
    \A i \in DOMAIN events : events[i].kind = "crawl.stopped_early" => events[i].n < MaxPages
=============================================================================
