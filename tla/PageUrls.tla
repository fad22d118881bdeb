------------------------------ MODULE PageUrls ------------------------------
(***************************************************************************)
(* Which urls are one page, and which links of a page are followed:        *)
(* engines/crawler/normalize.py and engines/crawler/links.py.              *)
(*                                                                         *)
(* A url is a record of its parts, which urlunparse joins and urlparse     *)
(* finds again. What is between its host and its query is a sequence of    *)
(* names, slashes and semicolons, and its query the sequence of its pairs; *)
(* a key or value is a number, its place in the order of strings.          *)
(***************************************************************************)
EXTENDS Naturals, Sequences, SequencesExt

CONSTANTS
    Tracking,   \* _TRACKING_PARAMS
    LowerCase,  \* host -> the host in lower case
    SiteOf,     \* host in lower case -> without its port and a leading "www."
    Assets      \* names that end in one of _SKIP_EXTENSIONS

Web == {"http", "https"}
Blank == ""

-----------------------------------------------------------------------------
(* normalize_url. *)

\* What urlparse takes for the path: the parameters behind a semicolon of the
\* last segment are not of it, a semicolon before that is.
PathOf(path) ==
    LET Cuts == {i \in DOMAIN path : path[i] = ";" /\ \A j \in i + 1 .. Len(path) : path[j] # "/"}
    IN  IF Cuts = {} THEN path ELSE SubSeq(path, 1, Min(Cuts) - 1)

StrippedByOne(path) ==        \* mutant: one slash at the end is cut off
    IF Len(path) > 1 /\ Last(path) = "/" THEN Front(path) ELSE path
\* A path of more than one slash loses all the slashes at its end.
Stripped(path) ==
    LET Bare(n) == (\A i \in n + 1 .. Len(path) : path[i] = "/") /\ (n > 0 => path[n] # "/")
    IN  IF path = <<"/">> THEN path
        ELSE SubSeq(path, 1, CHOOSE n \in 0 .. Len(path) : Bare(n))

PairBefore(p, q) == p[1] < q[1] \/ (p[1] = q[1] /\ p[2] < q[2])

\* The pairs that do not track, sorted: the place of a pair is behind those
\* that come before it and behind its equals that came earlier.
Kept(query) ==
    LET kept == {i \in DOMAIN query : query[i][1] \notin Tracking}
        Place(i) == Cardinality({j \in kept : \/ PairBefore(query[j], query[i])
                                              \/ query[j] = query[i] /\ j <= i})
    IN  [n \in 1 .. Cardinality(kept) |-> query[CHOOSE i \in kept : Place(i) = n]]

\* The parameters of the path and the fragment are left out. What was a name
\* with a semicolon before a slash may read as parameters now, if the result
\* is normalized again: a key need not be its own key.
NormalizeUrl(u) ==
    [scheme |-> u.scheme, host |-> LowerCase[u.host], path |-> Stripped(PathOf(u.path)),
     query |-> Kept(u.query), fragment |-> Blank]

-----------------------------------------------------------------------------
(* extract_links. A tag is <<>> when its href is blank or only a fragment, *)
(* else <<u>> for the url u that urljoin makes of it.                      *)

Domain(u) == SiteOf[LowerCase[u.host]]

Skipped(u, base) ==
    \/ u.scheme \notin Web
    \/ PathOf(u.path) # <<>> /\ Last(PathOf(u.path)) \in Assets
    \/ Domain(u) # Domain(base)

Defragged(u) == [u EXCEPT !.fragment = Blank]

TakeLinkWhole(links, tag, base) ==   \* mutant: told apart by their fragments
    IF tag = <<>> \/ Skipped(tag[1], base) \/ tag[1] \in Range(links) THEN links
    ELSE Append(links, tag[1])
TakeLink(links, tag, base) ==
    IF tag = <<>> \/ Skipped(tag[1], base) \/ Defragged(tag[1]) \in Range(links) THEN links
    ELSE Append(links, Defragged(tag[1]))

ExtractLinks(tags, base) == FoldLeft(LAMBDA links, tag : TakeLink(links, tag, base), <<>>, tags)

-----------------------------------------------------------------------------
(* Reference definitions, and what the operators owe them. *)

\* Paths that differ only in slashes at the end, neither being the root's.
SamePath(p, q) ==
    \/ p = q
    \/ /\ <<"/">> \notin {p, q}
       /\ \E n \in 0 .. Len(p) :
             /\ n <= Len(q) /\ SubSeq(p, 1, n) = SubSeq(q, 1, n)
             /\ \A s \in {p, q} : \A i \in n + 1 .. Len(s) : s[i] = "/"

Times(query, p) == Cardinality({i \in DOMAIN query : query[i] = p})

SameQuery(s, t) == \A p \in Range(s) \cup Range(t) : p[1] \in Tracking \/ Times(s, p) = Times(t, p)

SameButFor(u, v) ==
    /\ u.scheme = v.scheme /\ LowerCase[u.host] = LowerCase[v.host]
    /\ SamePath(PathOf(u.path), PathOf(v.path)) /\ SameQuery(u.query, v.query)

\* What a key forgets, and nothing else: two urls have one key exactly when
\* they differ in nothing but the case of the host, slashes at the end of a
\* path below the root, the parameters of the last segment, tracking
\* parameters, the order of the others, and the fragment. (This is what the
\* code does, not what its docstring says: see KeyAsDocumented.)
KeyForgets(u, v) == NormalizeUrl(u) = NormalizeUrl(v) <=> SameButFor(u, v)

\* Urls that only differ by a tracking parameter or a trailing slash.
UpToASlash(p, q) == p = q \/ p = Append(q, "/") \/ q = Append(p, "/")
Untracked(query) == SelectSeq(query, LAMBDA pair : pair[1] \notin Tracking)
OnlyNoise(u, v) ==
    /\ [u EXCEPT !.path = <<>>, !.query = <<>>] = [v EXCEPT !.path = <<>>, !.query = <<>>]
    /\ UpToASlash(u.path, v.path) /\ Untracked(u.query) = Untracked(v.query)

\* normalize.py:2-3: such urls are the same page, and so have one key.
KeyAsDocumented(u, v) == OnlyNoise(u, v) => NormalizeUrl(u) = NormalizeUrl(v)

\* The links are those of the page's own site that are web pages, in the order
\* of their first tag, each of them once whatever its fragments.
LinksAreTheSites(tags, base) ==
    LET links == ExtractLinks(tags, base)
        Good(i) == tags[i] # <<>> /\ ~ Skipped(tags[i][1], base)
        First(i) == Good(i) /\ \A j \in 1 .. i - 1 :
                        Good(j) => Defragged(tags[j][1]) # Defragged(tags[i][1])
    IN  /\ Len(links) = Cardinality({i \in DOMAIN tags : First(i)})
        /\ \A i \in DOMAIN tags : First(i) =>
               links[Cardinality({j \in 1 .. i : First(j)})] = Defragged(tags[i][1])
=============================================================================
