------------------------------ MODULE Pipeline ------------------------------
(***************************************************************************)
(* What the pipeline does between its rows and its queues: the fetch of    *)
(* one page, and the functions about it, each applied to any sample of its *)
(* inputs. A sample is drawn at the start and stays.                       *)
(***************************************************************************)
EXTENDS PageFetch, PageUrls, PageText, QueryPlan

CONSTANTS
    Urls,             \* urls that are compared
    Base, Tags,       \* the url of a page, and what its tags can be
    Words, Overrides, \* words of a request, and what its user can override
    Objects, Scripts, \* JSON-LD objects, and what a script can hold
    Items,            \* email addresses or phone numbers
    Names, Results,   \* urls, and what a results page can list
    MaxLength         \* of a list of tags, words, scripts, items or results

Lists(S) == UNION {[1 .. k -> S] : k \in 0 .. MaxLength}

Requests == Lists(Words) \ {<<>>}

\* A tag has one url, a JSON-LD candidate and a link one object or url. A request
\* that is word for word one of its own queries asks for little.
ASSUME PipelineAssumption ==
    /\ MaxLength \in Nat
    /\ Urls \subseteq [scheme : STRING, host : DOMAIN LowerCase, path : Seq(STRING),
                       query : Seq(Nat \X Nat), fragment : STRING]
    /\ Scripts \subseteq Seq({<<>>} \cup {<<o>> : o \in Objects})
    /\ Results \subseteq {<<>>} \cup {<<l>> : l \in [path : Names,
                             target : {<<>>} \cup {<<n>> : n \in Names}, web : BOOLEAN]}
    /\ Overrides \subseteq [max_results : Int \cup {Absent}, max_pages : Int \cup {Absent}]
    /\ \A text \in Requests : text \in Range(Angles(Objective(text))) =>
                                 Len(Angles(Objective(text))) < MaxQueries

VARIABLES
    part,   \* the function the sample is for, or "fetch"
    sample

vars == <<fetchVars, part, sample>>

Init ==
    /\ FetchInit
    /\ \/ part = "fetch" /\ sample = <<>>
       \/ part = "urls" /\ sample \in Urls \X Urls
       \/ part = "links" /\ sample \in Lists(Tags)
       \/ part = "plan" /\ sample \in Requests \X (DOMAIN Defaults) \X Overrides
       \/ part = "scripts" /\ sample \in Lists(Scripts)
       \/ part = "items" /\ sample \in Lists(Items)
       \/ part = "results" /\ sample \in Lists(Results) \X (0 .. MaxLength)
    /\ part # "fetch" => url = CHOOSE t \in Targets : TRUE

Next == part = "fetch" /\ FetchNext /\ UNCHANGED <<part, sample>>

Spec == Init /\ [][Next]_vars

\* Two urls have one key exactly when they differ in nothing but what a key
\* forgets (KeyForgets).
KeysForgetOnlyNoise == part = "urls" => KeyForgets(sample[1], sample[2])

\* The links of a page are those of its site, each once (LinksAreTheSites).
LinksAreOfTheSite == part = "links" => LinksAreTheSites(sample, Base)

\* A plan covers what the request asks for, and says why (PlanCovers).
PlanCoversTheRequest == part = "plan" => PlanCovers(sample[1], sample[2], sample[3])

\* The lists of JSON-LD objects, of contacts and of hits are cut, not sampled:
\* each is the beginning of all there is (KeepsFirstObjects, KeepsFirstItems,
\* KeepsFirstHits).
ListsKeepTheFirst ==
    /\ part = "scripts" => KeepsFirstObjects(sample)
    /\ part = "items" => KeepsFirstItems(sample)
    /\ part = "results" => KeepsFirstHits(sample[1], sample[2])

-----------------------------------------------------------------------------
(* What the docstring of normalize.py says, and the code does not do.       *)

\* Two urls that only differ by a tracking parameter or a trailing slash are
\* the same page (KeyAsDocumented).
KeysAreAsDocumented == part = "urls" => KeyAsDocumented(sample[1], sample[2])
=============================================================================
