------------------------------ MODULE QueryPlan ------------------------------
(***************************************************************************)
(* From the words of a request to a search plan: parse_query and           *)
(* parse_result_limit (engines/query_intelligence/parser.py), build_queries*)
(* (engines/search_strategy/strategy.py), and resolve_config with the      *)
(* overrides of create_and_enqueue (services/research_orchestrator.py).    *)
(*                                                                         *)
(* A text is a sequence of words, some of them surface forms of the tables *)
(* in engines/query_intelligence/keywords.py.                              *)
(***************************************************************************)
EXTENDS Integers, Sequences, SequencesExt, FiniteSetsExt, Functions

CONSTANTS
    Geography, Industry, Attributes, Signals,  \* tables: their entries in
                                               \* order, [name, forms]
    Persons,         \* PERSON_ENTITY_KEYWORDS
    Within,          \* pairs of forms, the first being part of the second
    Length,          \* of each form
    Value,           \* of the words that end in two to five digits of their own
    Plain, Counted,  \* words of letters and hyphens; the nouns after a number
    Defaults,        \* MODE_DEFAULTS: max_results and max_pages of each mode
    Absent           \* None: no number in a text, no such key in a config

\* A form that is part of another is shorter; a signal's forms do not come before
\* those they are part of; signals have names of their own.
ASSUME PlanAssumption ==
    /\ {Geography, Industry, Attributes, Signals}
          \subseteq Seq([name : STRING, forms : Seq(DOMAIN Length)])
    /\ Length \in [DOMAIN Length -> Nat]
    /\ \A p \in Within : p \in (DOMAIN Length) \X (DOMAIN Length) /\ Length[p[1]] < Length[p[2]]
    /\ \A s \in DOMAIN Signals : \A i, j \in DOMAIN Signals[s].forms :
          i < j => <<Signals[s].forms[i], Signals[s].forms[j]>> \notin Within
    /\ \A s, t \in DOMAIN Signals : s # t => Signals[s].name # Signals[t].name
    /\ \A s \in DOMAIN Signals : Signals[s].name # "companies"
    /\ Value \in [DOMAIN Value -> Nat] /\ Absent \notin Int
    /\ \A m \in DOMAIN Defaults : Defaults[m] \in [max_results : Int, max_pages : Int]

MaxQueries == 4                  \* MAX_QUERIES
MaxResultLimitOverride == 50     \* _MAX_RESULT_LIMIT_OVERRIDE

-----------------------------------------------------------------------------
(* parse_query. *)

\* form in text
Occurs(form, text) == \E i \in DOMAIN text : form = text[i] \/ <<form, text[i]>> \in Within

Hits(forms, text) == {i \in DOMAIN forms : Occurs(forms[i], text)}

FirstHit(forms, text) == forms[Min(Hits(forms, text))]

\* sorted(surface_forms, key=len, reverse=True) is stable.
LongestHit(forms, text) ==
    LET hits == Hits(forms, text)
    IN  forms[Min({i \in hits : \A j \in hits : Length[forms[i]] >= Length[forms[j]]})]

Matches(table, text) ==
    FlattenSeq([i \in DOMAIN table |->
                   IF Hits(table[i].forms, text) = {} THEN <<>> ELSE <<table[i]>>])

\* The canonical names that match, and the word that was found for each.
Explained(matches, words) == [names |-> [i \in DOMAIN matches |-> matches[i].name], words |-> words]

MatchKeywordsInOrder(table, text) ==   \* mutant: the forms are not sorted
    LET matches == Matches(table, text)
    IN  Explained(matches, [i \in DOMAIN matches |-> FirstHit(matches[i].forms, text)])
MatchKeywords(table, text) ==
    LET matches == Matches(table, text)
    IN  Explained(matches, [i \in DOMAIN matches |-> LongestHit(matches[i].forms, text)])

\* The forms of a signal are tried in the order of the table.
MatchSignals(text) ==
    LET matches == Matches(Signals, text)
    IN  Explained(matches, [i \in DOMAIN matches |-> FirstHit(matches[i].forms, text)])

Objective(text) ==
    [geography |-> MatchKeywords(Geography, text), industry |-> MatchKeywords(Industry, text),
     signals |-> MatchSignals(text), attributes |-> MatchKeywords(Attributes, text),
     person |-> \E w \in Persons : Occurs(w, text)]

-----------------------------------------------------------------------------
(* build_queries. *)

\* The first of a list of names, if there is one.
First(names) == IF names = <<>> THEN <<>> ELSE <<names[1]>>

Scope(o) == First(o.industry.names) \o First(o.geography.names)

BaseQuery(o) ==
    LET industry == First(o.industry.names)
        geography == First(o.geography.names)
    IN  industry \o <<"companies">> \o IF geography = <<>> THEN <<>> ELSE <<"in">> \o geography

SignalQuery(o, signal) ==
    IF Scope(o) = <<>> THEN <<signal, "companies">> ELSE Scope(o) \o <<signal>>

PersonQuery(o) ==
    IF Scope(o) = <<>> THEN <<"company", "decision makers">>
    ELSE Scope(o) \o <<"decision makers", "executives">>

\* Every angle after the user's own words, in the order of their rank.
Angles(o) ==
    (IF Scope(o) = <<>> THEN <<>> ELSE <<BaseQuery(o)>>)
    \o [i \in DOMAIN o.signals.names |-> SignalQuery(o, o.signals.names[i])]
    \o IF o.person THEN <<PersonQuery(o)>> ELSE <<>>

Deduped(queries) == FoldLeft(LAMBDA kept, q : IF q \in Range(kept) THEN kept ELSE Append(kept, q),
                             <<>>, queries)

BuildQueries(text) ==
    LET queries == <<text>> \o Angles(Objective(text))
    IN  Deduped(SubSeq(queries, 1, IF Len(queries) < MaxQueries THEN Len(queries) ELSE MaxQueries))

-----------------------------------------------------------------------------
(* The budget.                                                             *)

\* parse_result_limit: two to five digits after what is no letter or digit, at
\* most two plain words, and what is to be counted. "1,000" has the digits 000,
\* "05" is a number too: any value from 0 on can be asked for.
Limits(text) ==
    {i \in DOMAIN text : text[i] \in DOMAIN Value /\ \E n \in 0 .. 2 :
        /\ i + n + 1 \in DOMAIN text /\ text[i + n + 1] \in Counted
        /\ \A j \in i + 1 .. i + n : text[j] \in Plain}

ResultLimit(text) == IF Limits(text) = {} THEN Absent ELSE Value[text[Min(Limits(text))]]

\* resolve_config: the mode's defaults under the overrides that are not null.
Resolve(mode, overrides) ==
    [k \in DOMAIN Defaults[mode] |->
        IF overrides[k] # Absent THEN overrides[k] ELSE Defaults[mode][k]]

\* create_and_enqueue: a number in the text, 0 included, replaces the results,
\* and raises the pages to it.
Budget(text, mode, overrides) ==
    LET config  == Resolve(mode, overrides)
        bounded == Min({ResultLimit(text), MaxResultLimitOverride})
    IN  IF ResultLimit(text) = Absent THEN config
        ELSE [max_results |-> bounded, max_pages |-> Max({config.max_pages, bounded})]

-----------------------------------------------------------------------------
(* What a plan owes the request. *)

\* The user's words come first, no query is asked twice, and an angle of the
\* request is left out only when the queries are as many as there may be, not
\* because one that repeats another has used up its place.
AsksEveryAngle(text) ==
    LET queries == BuildQueries(text)
    IN  /\ queries[1] = text /\ Len(queries) <= MaxQueries
        /\ IsInjective(queries)
        /\ \A q \in Range(Angles(Objective(text))) : q \in Range(queries) \/ Len(queries) = MaxQueries

\* The word that explains a match is in the text, and no longer form of the
\* same entry that contains it is.
ExplainsItself(table, matches, text) ==
    \A i \in DOMAIN matches.words :
        LET forms == Matches(table, text)[i].forms
        IN  /\ Occurs(matches.words[i], text)
            /\ \A f \in Range(forms) : <<matches.words[i], f>> \in Within => ~ Occurs(f, text)

\* A number is one the text has before what it counts, or there is none to
\* find. It is what the search is asked for, up to the bound (0 asks for
\* nothing), with pages enough to crawl it and no fewer than the mode or the
\* user gives; without a number the mode and the user have their way.
BudgetFits(text, mode, overrides) ==
    LET budget == Budget(text, mode, overrides)
        config == Resolve(mode, overrides)
        limit  == ResultLimit(text)
    IN  \/ limit = Absent /\ Limits(text) = {} /\ budget = config
        \/ /\ \E i \in Limits(text) : /\ limit = Value[text[i]]
                                      /\ \A j \in 1 .. i - 1 : j \notin Limits(text)
           /\ budget.max_results \in 0 .. MaxResultLimitOverride
           /\ budget.max_results \in {limit, MaxResultLimitOverride}
           /\ budget.max_results <= limit
           /\ budget.max_results <= budget.max_pages
           /\ config.max_pages <= budget.max_pages
           /\ budget.max_pages \in {config.max_pages, budget.max_results}

PlanCovers(text, mode, overrides) ==
    /\ AsksEveryAngle(text)
    /\ LET o == Objective(text)
       IN  /\ ExplainsItself(Geography, o.geography, text)
           /\ ExplainsItself(Industry, o.industry, text)
           /\ ExplainsItself(Signals, o.signals, text)
           /\ ExplainsItself(Attributes, o.attributes, text)
    /\ BudgetFits(text, mode, overrides)
=============================================================================
