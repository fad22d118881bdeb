----------------------------- MODULE MCCrawlJob -----------------------------
(***************************************************************************)
(* Instances of CrawlJob for TLC: a site of six urls, two of them the      *)
(* same page with and without a tracking parameter, and a web of up to     *)
(* six contents.                                                           *)
(***************************************************************************)
EXTENDS CrawlJob

CONSTANTS home, team, teamRef, news, about, press, \* urls
          ceo, cto,                               \* attributes
          plain, stamped, later, profile,         \* contents
          blank, shell,                           \* contents without text
          h1, h2, h3, h4, h5, t1, t2, t3, t4, t0      \* hashes and texts

SiteUrls    == {home, team, teamRef, news, about, press}
SiteNorm    == [u \in SiteUrls |-> IF u = teamRef THEN team ELSE u]
SiteSignals == [u \in SiteUrls |-> CASE u = about            -> {ceo, cto}
                                    [] u \in {team, teamRef} -> {ceo}
                                    [] OTHER                 -> {}]

\* Two pages without text are never near to each other, whether they are
\* empty (blank) or only markup and scripts (shell).
\* stamped is near to plain and to later, which are not near to each other.
SitePage ==
    [c \in {plain, stamped, later, profile, blank, shell} |->
        CASE c = plain   -> [hash |-> h1, text |-> t1, attrs |-> {},
                             links |-> <<teamRef, home, team, about>>]
          [] c = stamped -> [hash |-> h2, text |-> t2, attrs |-> {}, links |-> <<about, press>>]
          [] c = later   -> [hash |-> h3, text |-> t3, attrs |-> {cto}, links |-> <<news>>]
          [] c = profile -> [hash |-> h4, text |-> t4, attrs |-> {ceo}, links |-> << >>]
          [] c = blank   -> [hash |-> NoHash, text |-> t0, attrs |-> {}, links |-> << >>]
          [] c = shell   -> [hash |-> h5, text |-> t0, attrs |-> {}, links |-> <<team>>]]
SiteNear == (Texts \X Texts) \cap
                ({<<x, x>> : x \in {t1, t2, t3, t4}}
                     \cup {<<t1, t2>>, <<t2, t1>>, <<t2, t3>>, <<t3, t2>>})

\* The query asks for nothing in particular, for one attribute, or for two.
SiteObjectives == {{}, {ceo}, {ceo, cto}}

\* Three queries found the same pages, one found two, one found nothing.
SiteFound == {<<home, news, home, team>>, <<team, news>>, << >>}
=============================================================================
