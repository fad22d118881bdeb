------------------------------ MODULE EventFeed ------------------------------
(***************************************************************************)
(* The progress page of one job, on top of what JobProgress says of the    *)
(* job:                                                                    *)
(*                                                                         *)
(*   - pages/ResearchDetailPage.tsx: polls GET /research/{id} until it     *)
(*     reads a terminal status, merges the stored events of its last       *)
(*     answer with the live ones, and reads the results of a completed     *)
(*     job;                                                                *)
(*   - features/research/useResearchEvents.ts: one websocket per access    *)
(*     token while the job is not known to be over, never reconnected;     *)
(*   - api/v1/research.py, research_ws: checks the token and the row,      *)
(*     accepts, then subscribes to the job's channel and forwards;         *)
(*   - core/redis.py: publishing reaches whoever is subscribed right now.  *)
(*                                                                         *)
(* The page is visible and mounted once. Two events of the same kind are   *)
(* events with the same kind and payload, the key of the page.             *)
(***************************************************************************)
EXTENDS JobProgress, SequencesExt

CONSTANTS
    Terminal,   \* statuses at which the page stops polling
    MaxSockets, \* bound: access tokens the page lives through
    MaxResults, \* bound: results the job saves
    LogBound    \* bound: events the job records

ASSUME FeedAssumption ==
    /\ Terminal \subseteq Stati /\ "completed" \in Terminal
    /\ DOMAIN Forerunner \subseteq Stati /\ {"loading", "absent"} \cap Stati = {}
    /\ MaxSockets \in Nat \ {0} /\ MaxResults \in Nat /\ LogBound \in Nat

VARIABLES
    view,     \* data of the job query: the last answer's status and events
    poll,     \* the job query in flight, and what the server has read for it
    live,     \* the events the hook has collected
    timeline, \* what the page shows, a memo over view.events and live
    current,  \* the socket the hook listens to, 0 for none
    handler,  \* how far research_ws has come with each socket
    wire,     \* published to a handler's subscription and not yet forwarded
    saved,    \* rows of research_results of the job
    reopened, \* the job was run again after it had been settled
    results   \* data of the results query, or Unread

page     == <<view, poll, live, timeline, current, results>>
feed     == <<handler, wire>>
crawled  == <<saved, reopened>>
feedVars == <<jobVars, page, feed, crawled>>

Sockets == 1 .. MaxSockets
Unread  == MaxResults + 1
Nothing == [status |-> "loading", events |-> << >>]
NoPoll  == [at |-> "idle", status |-> "loading", events |-> << >>]
Settled(answer) == answer.status \in Terminal

FeedInit ==
    /\ JobInit
    /\ view = Nothing /\ poll = NoPoll
    /\ live = << >> /\ timeline = << >>
    /\ current = 0
    /\ handler = [s \in Sockets |-> "unused"]
    /\ wire = [s \in Sockets |-> << >>]
    /\ saved = 0 /\ reopened = FALSE
    /\ results = Unread

-----------------------------------------------------------------------------
(* The timeline on the page. *)

MergeLiveFirst(stored, new) ==    \* mutant: the live events come first
    new \o SelectSeq(stored, LAMBDA e : ~ In(e, new))
\* The stored events, then every live one the timeline does not have yet.
Merge(stored, new) ==
    LET merged[n \in 0 .. Len(new)] ==
            IF n = 0 THEN stored
            ELSE LET before == merged[n - 1]
                 IN  IF In(new[n], before) THEN before ELSE Append(before, new[n])
    IN  merged[Len(new)]

-----------------------------------------------------------------------------
(* GET /research/{id}. The row and its events are two SELECTs: events that  *)
(* are recorded between them are in the answer.                             *)

PollRowWhileOffline ==        \* mutant: no polling as long as a socket is up
    /\ poll.at = "idle" /\ ~Settled(view) /\ current = 0
    /\ state # "absent"
    /\ poll' = [NoPoll EXCEPT !.at = "row", !.status = state]
    /\ UNCHANGED <<jobVars, view, live, timeline, current, results, feed, crawled>>
PollRow ==
    /\ poll.at = "idle" /\ ~Settled(view)
    /\ state # "absent"
    /\ poll' = [NoPoll EXCEPT !.at = "row", !.status = state]
    /\ UNCHANGED <<jobVars, view, live, timeline, current, results, feed, crawled>>

PollEventsStale ==            \* mutant: the events were read before the row
    /\ poll.at = "row"
    /\ poll' = [poll EXCEPT !.at = "answer", !.events = view.events]
    /\ UNCHANGED <<jobVars, view, live, timeline, current, results, feed, crawled>>
PollEvents ==
    /\ poll.at = "row"
    /\ poll' = [poll EXCEPT !.at = "answer", !.events = recorded]
    /\ UNCHANGED <<jobVars, view, live, timeline, current, results, feed, crawled>>

PollAnsweredListening ==      \* mutant: the socket stays when the page settles
    /\ poll.at = "answer"
    /\ view' = [status |-> poll.status, events |-> poll.events]
    /\ timeline' = Merge(poll.events, live)
    /\ poll' = NoPoll
    /\ UNCHANGED <<jobVars, live, current, results, feed, crawled>>
PollAnsweredOnce ==           \* mutant: any answer stops the polling
    /\ poll.at = "answer" /\ view.status = "loading"
    /\ view' = [status |-> poll.status, events |-> poll.events]
    /\ timeline' = Merge(poll.events, live)
    /\ poll' = NoPoll
    /\ current' = IF Settled(poll) THEN 0 ELSE current
    /\ UNCHANGED <<jobVars, live, results, feed, crawled>>
\* A terminal status stops the polling, and the hook closes its socket.
PollAnswered ==
    /\ poll.at = "answer"
    /\ view' = [status |-> poll.status, events |-> poll.events]
    /\ timeline' = Merge(poll.events, live)
    /\ poll' = NoPoll
    /\ current' = IF Settled(poll) THEN 0 ELSE current
    /\ UNCHANGED <<jobVars, live, results, feed, crawled>>

\* The request fails: the page keeps what it has and polls again.
PollFails ==
    /\ poll.at = "answer"
    /\ poll' = NoPoll
    /\ UNCHANGED <<jobVars, view, live, timeline, current, results, feed, crawled>>

ReadResultsEarly ==           \* mutant: the query is not tied to the status
    /\ view.status # "loading" /\ results = Unread
    /\ results' = saved
    /\ UNCHANGED <<jobVars, view, poll, live, timeline, current, feed, crawled>>
\* GET /research/{id}/results, enabled by the status on the page.
ReadResults ==
    /\ view.status = "completed" /\ results = Unread
    /\ results' = saved
    /\ UNCHANGED <<jobVars, view, poll, live, timeline, current, feed, crawled>>

-----------------------------------------------------------------------------
(* The websocket, from both ends. *)

\* The socket of the next access token; the tokens come one after the other.
Upcoming(s) == handler[s] = "unused" /\ \A t \in 1 .. s - 1 : handler[t] # "unused"

\* The effect runs: on mount, and again whenever the access token changes.
\* The socket it had before is closed; what it has collected stays.
OpenSocket(s) ==
    /\ Upcoming(s) /\ ~Settled(view)
    /\ handler' = [handler EXCEPT ![s] = "connecting"]
    /\ current' = s
    /\ UNCHANGED <<jobVars, view, poll, live, timeline, results, wire, crawled>>

\* 4401 or 4404: the token is not valid, or its organization has no such job.
Refuse(s) ==
    /\ handler[s] = "connecting"
    /\ handler' = [handler EXCEPT ![s] = "closed"]
    /\ UNCHANGED <<jobVars, page, wire, crawled>>

Accept(s) ==
    /\ handler[s] = "connecting" /\ state # "absent"
    /\ handler' = [handler EXCEPT ![s] = "accepted"]
    /\ UNCHANGED <<jobVars, page, wire, crawled>>

Subscribe(s) ==
    /\ handler[s] = "accepted"
    /\ handler' = [handler EXCEPT ![s] = "subscribed"]
    /\ UNCHANGED <<jobVars, page, wire, crawled>>

Forward(s) ==
    /\ handler[s] = "subscribed" /\ wire[s] # << >>
    /\ s = current
    /\ live' = Append(live, Head(wire[s]))
    /\ timeline' = Merge(view.events, live')
    /\ wire' = [wire EXCEPT ![s] = Tail(@)]
    /\ UNCHANGED <<jobVars, view, poll, current, results, handler, crawled>>

\* The connection is gone, closed by the page or broken. The server notices
\* when it sends; the hook does not open another one.
Drop(s) ==
    /\ handler[s] = "subscribed" /\ wire[s] # << >>
    /\ handler' = [handler EXCEPT ![s] = "closed"]
    /\ wire' = [wire EXCEPT ![s] = << >>]
    /\ UNCHANGED <<jobVars, page, crawled>>

-----------------------------------------------------------------------------
(* The job, as far as the page can tell. *)

WritesStatus(s) ==
    /\ SetStatus(s)
    /\ reopened' = (reopened \/ (state \in Terminal /\ s \notin Terminal))
    /\ UNCHANGED <<page, feed, saved>>

Records(e) ==
    /\ Len(recorded) < LogBound
    /\ Record(e)
    /\ UNCHANGED <<page, feed, crawled>>

Reach(e) == [s \in Sockets |-> IF handler[s] = "subscribed" THEN Append(wire[s], e) ELSE wire[s]]

\* redis.publish: to the subscriptions there are at this moment.
Publishes ==
    /\ Publish
    /\ wire' = Reach(unpublished)
    /\ UNCHANGED <<handler, page, crawled>>

\* The attempt ends between recording an event and publishing it.
Abandons == Publish /\ UNCHANGED <<page, feed, crawled>>

\* The crawl commits a result; it ends before a terminal status is written.
SaveResult ==
    /\ state \notin Terminal \cup {"absent"} /\ saved < MaxResults
    /\ saved' = saved + 1
    /\ UNCHANGED <<jobVars, page, feed, reopened>>

FeedNext ==
    \/ \E s \in Stati : WritesStatus(s)
    \/ \E e \in Kinds : Records(e)
    \/ Publishes \/ Abandons \/ SaveResult
    \/ PollRow \/ PollEvents \/ PollAnswered \/ PollFails \/ ReadResults
    \/ \E s \in Sockets : \/ OpenSocket(s) \/ Refuse(s) \/ Accept(s)
                          \/ Subscribe(s) \/ Forward(s) \/ Drop(s)

\* The timer of the query fires, the server answers, and polls do not fail for
\* ever. Nothing is assumed of the websocket or of the worker.
PollFairness == /\ WF_feedVars(PollRow \/ PollEvents)
                /\ SF_feedVars(PollAnswered)

FeedSpec == FeedInit /\ [][FeedNext]_feedVars /\ PollFairness

-----------------------------------------------------------------------------
(* Properties. *)

Stages == {"unused", "connecting", "accepted", "subscribed", "closed"}

\* Every variable keeps its shape; the page listens to a socket it has opened,
\* and to none once it shows a terminal status.
FeedTypeOK ==
    /\ view \in [status : Stati \cup {"loading"}, events : Seq(Kinds)]
    /\ poll \in [at : {"idle", "row", "answer"},
                 status : Stati \cup {"loading"}, events : Seq(Kinds)]
    /\ live \in Seq(Kinds) /\ timeline \in Seq(Kinds)
    /\ current \in 0 .. MaxSockets
    /\ current # 0 => handler[current] # "unused" /\ ~Settled(view)
    /\ handler \in [Sockets -> Stages]
    /\ wire \in [Sockets -> Seq(Kinds)]
    /\ saved \in 0 .. MaxResults /\ results \in 0 .. Unread /\ reopened \in BOOLEAN

\* The page implements the promise: with events lost between the check of the
\* row and the subscription, sockets replaced when the token changes, answers
\* that live events overtake and attempts that repeat events, the timeline is
\* still the log with gaps, in its order, and never loses an entry.
Progress    == INSTANCE ProgressFeed WITH shown <- timeline
ShowsTheLog == Progress!Spec

\* The status on the page never runs ahead of its events, although an answer
\* is two reads of a job that moves on in between: the answer that says
\* "completed" has the search in its events.
StatusHasItsHistory ==
    view.status \in DOMAIN Forerunner => In(Forerunner[view.status], view.events)

\* The results are read once, when the page sees "completed", although the API
\* would return those of a running job too: they are all the job has saved,
\* unless the job is run again.
ResultsAreFinal == results # Unread => results = saved \/ reopened

\* Polling repairs what pub/sub loses: until the page settles its events catch
\* up with the log again and again, whether or not the socket ever works.
CatchesUp == []<>(state = "absent" \/ Settled(view) \/ view.events = recorded)

\* The page settles after the job has, unless the job is opened again first.
PageSettles == <>[](state \in Terminal) => <>Settled(view)
=============================================================================
