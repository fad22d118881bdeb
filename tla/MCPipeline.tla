----------------------------- MODULE MCPipeline -----------------------------
(***************************************************************************)
(* Instance of Pipeline: each function over every input of a small set,    *)
(* and the fetch of one page; and of EventFeed, the page that shows the    *)
(* job, with three events of two kinds. They share no state, and a         *)
(* behaviour is one of a single part.                                      *)
(***************************************************************************)
EXTENDS Pipeline, EventFeed, TLC

-----------------------------------------------------------------------------
(* urls and links. Parameter 1 is tracking; 2 and 3 are not.               *)

MCLowerCase == [h \in {"acme.com", "ACME.com", "www.acme.com", "other.com"} |->
                   IF h = "ACME.com" THEN "acme.com" ELSE h]
MCSiteOf    == [h \in {"acme.com", "www.acme.com", "other.com"} |->
                   IF h = "www.acme.com" THEN "acme.com" ELSE h]

Url(scheme, host, path, query, fragment) ==
    [scheme |-> scheme, host |-> host, path |-> path, query |-> query, fragment |-> fragment]

\* The last paths are "/a;b", "/a;b/", "/a/;b" and "/;b".
MCUrls == {Url("https", h, p, q, f) :
              h \in {"acme.com", "ACME.com"},
              p \in {<<>>, <<"/">>, <<"/", "/">>, <<"/", "a">>, <<"/", "a", "/", "/">>, <<"/", "A">>,
                     <<"/", "a", ";", "b">>, <<"/", "a", ";", "b", "/">>,
                     <<"/", "a", "/", ";", "b">>, <<"/", ";", "b">>},
              q \in {<<>>, <<<<1, 1>>>>, <<<<2, 1>>, <<3, 1>>>>, <<<<3, 1>>, <<1, 1>>, <<2, 1>>>>,
                     <<<<2, 2>>, <<2, 1>>>>},
              f \in {"", "top"}}

About == Url("https", "acme.com", <<"/", "about">>, <<>>, "")
MCTags == {<<>>, <<About>>, <<[About EXCEPT !.fragment = "team"]>>,
           <<[About EXCEPT !.host = "www.acme.com"]>>, <<[About EXCEPT !.host = "other.com"]>>,
           <<[About EXCEPT !.scheme = "mailto"]>>, <<[About EXCEPT !.path = <<"/", "b.pdf", ";", "v">>]>>}

-----------------------------------------------------------------------------
(* texts. *)

MCWords == {"fintech", "banking", "kenyan", "layoffs", "hiring", "ceo", "companies", "250", "1,000", "05", "b2b"}

Entry(name, forms) == [name |-> name, forms |-> forms]

MCGeography  == <<Entry("kenya", <<"kenya", "kenyan">>)>>
MCIndustry   == <<Entry("fintech", <<"fintech">>), Entry("banking", <<"bank", "banking">>)>>
MCSignals    == <<Entry("hiring", <<"hiring">>), Entry("layoffs", <<"layoffs", "layoff">>)>>
MCAttributes == <<Entry("ceo", <<"ceo">>)>>
MCWithin     == {<<"kenya", "kenyan">>, <<"bank", "banking">>, <<"layoff", "layoffs">>}
MCLength     == [w \in {"kenya", "kenyan", "fintech", "bank", "banking", "hiring", "layoffs",
                        "layoff", "ceo"} |->
                    CASE w = "ceo" -> 3 [] w = "bank" -> 4 [] w = "kenya" -> 5
                      [] w \in {"hiring", "layoff", "kenyan"} -> 6 [] OTHER -> 7]
MCValue      == ("250" :> 250) @@ ("1,000" :> 0) @@ ("05" :> 5)
MCPlain      == MCWords \ (DOMAIN MCValue \cup {"b2b"})
MCDefaults   == [m \in {"quick", "investigation"} |->
                    IF m = "quick" THEN [max_results |-> 3, max_pages |-> 4]
                    ELSE [max_results |-> 15, max_pages |-> 30]]

MCOverrides == {[max_results |-> Absent, max_pages |-> n] : n \in {Absent, 2, 100}}

-----------------------------------------------------------------------------
(* scripts and results. *)

MCScripts == UNION {[1 .. k -> {<<>>, <<1>>, <<2>>}] : k \in 0 .. 2}

Link(path, uddg, web) == <<[path |-> path, target |-> uddg, web |-> web]>>

MCResults == {<<>>, Link("/l/", <<"u">>, FALSE), Link("/l/", <<>>, FALSE), Link("w", <<>>, TRUE),
              Link("d", <<>>, FALSE)}

-----------------------------------------------------------------------------
(* the progress page. *)

SearchFirst == "completed" :> "search.completed"

MCInit ==
    /\ FeedInit
    /\ \/ Init
       \/ part = "feed" /\ sample = <<>> /\ FetchInit /\ url = CHOOSE t \in Targets : TRUE

MCNext ==
    \/ Next /\ UNCHANGED feedVars
    \/ part = "feed" /\ FeedNext /\ UNCHANGED vars

MCSpec == MCInit /\ [][MCNext]_<<vars, feedVars>> /\ PollFairness
=============================================================================
