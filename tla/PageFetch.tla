------------------------------ MODULE PageFetch ------------------------------
(***************************************************************************)
(* PageFetcher.fetch (engines/crawler/fetcher.py) with the check of every  *)
(* address it is about to request (engines/crawler/ssrf_guard.py): the     *)
(* redirects are followed by hand, one request after another, and the body *)
(* is read in chunks up to a limit.                                        *)
(***************************************************************************)
EXTENDS Naturals, Sequences

CONSTANTS
    Targets,      \* urls
    Allowed,      \* those assert_safe_url accepts, as far as names resolve
    MaxRedirects, \* _MAX_REDIRECTS
    MaxBytes,     \* crawler_max_response_bytes
    Chunks        \* sizes of the chunks a body arrives in

ASSUME FetchAssumption ==
    /\ Allowed \subseteq Targets /\ {MaxRedirects, MaxBytes} \subseteq Nat
    /\ Chunks \subseteq Nat \ {0}

VARIABLES
    doing,   \* where fetch stands
    url,     \* current_url
    target,  \* the url being checked
    asked,   \* the urls requested, in order
    passed,  \* the urls that passed the check, in order
    kept,    \* bytes of the chunks that make the body
    total,   \* bytes that arrived
    result   \* FetchResult, or how fetch raised

fetchVars == <<doing, url, target, asked, passed, kept, total, result>>

Pending == [html |-> FALSE, status |-> FALSE, error |-> "none"]

FetchInit ==
    /\ doing = "checking" /\ url \in Targets /\ target = url
    /\ asked = <<>> /\ passed = <<>> /\ kept = 0 /\ total = 0
    /\ result = Pending

Return(r) == result' = r /\ doing' = "returned"
Failed(error, status) == [html |-> FALSE, status |-> status, error |-> error]

\* assert_safe_url: the scheme and the name decide, and what the name resolves
\* to now, which is a question to the network. A refused redirect keeps the
\* status of the answer that gave it.
Check ==
    /\ doing = "checking"
    /\ \/ /\ target \in Allowed
          /\ passed' = Append(passed, target)
          /\ url' = target
          /\ IF Len(asked) <= MaxRedirects
               THEN doing' = "requesting" /\ UNCHANGED result
               ELSE Return(Failed("too many redirects", FALSE))
       \/ /\ Return(Failed("unsafe", asked # <<>>))
          /\ UNCHANGED <<url, passed>>
    /\ UNCHANGED <<target, asked, kept, total>>

FollowUnchecked(t) ==         \* mutant: only the first url is checked
    /\ doing = "requesting"
    /\ asked' = Append(asked, url) /\ url' = t
    /\ IF Len(asked') <= MaxRedirects
         THEN doing' = "requesting" /\ UNCHANGED result
         ELSE Return(Failed("too many redirects", FALSE))
    /\ UNCHANGED <<target, passed, kept, total>>
\* The answer is a redirect to t.
Follow(t) ==
    /\ doing = "requesting"
    /\ asked' = Append(asked, url)
    /\ target' = t /\ doing' = "checking"
    /\ UNCHANGED <<url, passed, kept, total, result>>

\* The answer is a page, or a redirect that names no target.
Answer ==
    /\ doing = "requesting"
    /\ asked' = Append(asked, url)
    /\ \/ doing' = "reading" /\ UNCHANGED result
       \/ Return(Failed("no target", TRUE))
    /\ UNCHANGED <<url, target, passed, kept, total>>

\* _read_capped takes the next chunk, unless it goes over the limit.
ReadChunk(n) ==
    /\ doing = "reading"
    /\ total' = total + n
    /\ IF total' > MaxBytes
         THEN Return([html |-> TRUE, status |-> TRUE, error |-> "none"]) /\ UNCHANGED kept
         ELSE kept' = kept + n /\ UNCHANGED <<doing, result>>
    /\ UNCHANGED <<url, target, asked, passed>>

EndOfBody ==
    /\ doing = "reading"
    /\ Return([html |-> TRUE, status |-> TRUE, error |-> "none"])
    /\ UNCHANGED <<url, target, asked, passed, kept, total>>

\* httpx.HTTPError, while requesting or while reading.
NetworkError ==
    /\ doing \in {"requesting", "reading"}
    /\ Return(Failed("network", FALSE))
    /\ asked' = IF doing = "requesting" THEN Append(asked, url) ELSE asked
    /\ UNCHANGED <<url, target, passed, kept, total>>

\* Anything else leaves fetch as it is: a name the resolver cannot encode, a
\* url httpx does not take.
Raise ==
    /\ doing \in {"checking", "requesting"}
    /\ doing' = "raised"
    /\ UNCHANGED <<url, target, asked, passed, kept, total, result>>

FetchNext ==
    \/ Check \/ Answer \/ EndOfBody \/ NetworkError \/ Raise
    \/ \E t \in Targets : Follow(t)
    \/ \E n \in Chunks : ReadChunk(n)

FetchSpec == FetchInit /\ [][FetchNext]_fetchVars

-----------------------------------------------------------------------------
(* Properties. *)

\* What a reader of FetchResult and of SECURITY.md relies on: each request
\* is for the url whose check came last, there are no more of them than the
\* first and the redirects, an html is of the page the result names, and comes
\* with a status and no error; and it is all that arrived, or what came before
\* the chunk that went over the limit.
FetchKeepsItsWord ==
    /\ \A i \in DOMAIN asked : i \in DOMAIN passed /\ asked[i] = passed[i] /\ asked[i] \in Allowed
    /\ Len(asked) <= MaxRedirects + 1
    /\ doing = "returned" =>
          /\ result.html <=> result.error = "none"
          /\ result.html => result.status /\ asked # <<>> /\ url = asked[Len(asked)]
          /\ result.error \notin {"none", "unsafe", "too many redirects"} => url = asked[Len(asked)]
    /\ kept <= MaxBytes
    /\ total <= MaxBytes => kept = total
=============================================================================
