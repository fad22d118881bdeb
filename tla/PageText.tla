------------------------------ MODULE PageText ------------------------------
(***************************************************************************)
(* The lists that are cut to a length: the JSON-LD objects and the contact *)
(* data of a page (engines/extraction/structured.py), and the hits of a    *)
(* results page (engines/search/duckduckgo.py).                            *)
(***************************************************************************)
EXTENDS Naturals, Sequences, SequencesExt, FiniteSets

CONSTANT MaxItems  \* _MAX_ITEMS

ASSUME TextAssumption == MaxItems \in Nat \ {0}

\* _parse_json_ld. A script is the sequence of the candidates in it, <<>> when
\* it is empty or malformed; a candidate that is no object is <<>>.
TakeObject(objects, candidate) ==
    IF Len(objects) >= MaxItems THEN objects ELSE objects \o candidate

JsonLdByScript(scripts) ==    \* mutant: the limit is looked at between scripts
    FoldLeft(LAMBDA objects, script :
                 IF Len(objects) >= MaxItems THEN objects ELSE objects \o FlattenSeq(script),
             <<>>, scripts)
JsonLd(scripts) ==
    FoldLeft(LAMBDA objects, script : FoldLeft(TakeObject, objects, script), <<>>, scripts)

\* _dedupe_ordered, and the slice that follows it.
DedupeOrdered(items) ==
    FoldLeft(LAMBDA kept, item : IF item \in Range(kept) THEN kept ELSE Append(kept, item),
             <<>>, items)
Contacts(items) ==
    LET distinct == DedupeOrdered(items)
    IN  SubSeq(distinct, 1, IF Len(distinct) < MaxItems THEN Len(distinct) ELSE MaxItems)

\* _unwrap_redirect. A link is [path, target, web]: the path of its href, what
\* its uddg says, whether its scheme is http or https. <<>> is None.
UnwrapRedirect(link) ==
    IF link.path = "/l/" THEN link.target
    ELSE IF link.web THEN <<link.path>> ELSE <<>>

\* search: a result without a link (<<>>) or without a url is passed over; the
\* length is looked at after a hit is appended.
TakeHit(hits, result, maxResults) ==
    IF Len(hits) >= maxResults /\ hits # <<>> THEN hits
    ELSE IF result = <<>> THEN hits ELSE hits \o UnwrapRedirect(result[1])

Search(results, maxResults) ==
    FoldLeft(LAMBDA hits, result : TakeHit(hits, result, maxResults), <<>>, results)

-----------------------------------------------------------------------------
\* Each list is the beginning of all there is on the page, and is shorter than
\* its limit only when that is all: nothing is skipped, doubled or reordered
\* by where a script, a result or a repetition happens to end.
FirstOf(list, all, limit) ==
    /\ IsPrefix(list, all)
    /\ Len(list) = IF Len(all) < limit THEN Len(all) ELSE limit

\* The objects of all scripts, in the order of the page.
KeepsFirstObjects(scripts) ==
    FirstOf(JsonLd(scripts), FlattenSeq(FlattenSeq(scripts)), MaxItems)

\* The items that no earlier one equals, in their order.
KeepsFirstItems(items) ==
    LET news == {i \in DOMAIN items : \A j \in 1 .. i - 1 : items[j] # items[i]}
    IN  FirstOf(Contacts(items), [n \in 1 .. Cardinality(news) |-> items[
                    CHOOSE i \in news : Cardinality({j \in news : j <= i}) = n]], MaxItems)

\* The urls of the results that have one; the first is never cut off.
KeepsFirstHits(results, maxResults) ==
    FirstOf(Search(results, maxResults), FlattenSeq([i \in DOMAIN results |->
                IF results[i] = <<>> THEN <<>> ELSE UnwrapRedirect(results[i][1])]),
            IF maxResults = 0 THEN 1 ELSE maxResults)
=============================================================================
