---------------------------- MODULE Exploration ----------------------------
(***************************************************************************)
(* What a crawl promises whatever the web is like: it visits pages of a    *)
(* finite set one at a time, none of them twice and no more than a budget  *)
(* allows, until it stops; a stopped or interrupted crawl may only start   *)
(* over from nothing. CrawlJob implements it.                              *)
(***************************************************************************)
EXTENDS Naturals, Sequences

CONSTANTS Keys,   \* pages, told apart by their normalized url
          Budget  \* config.max_pages

VARIABLES visited, \* the pages this attempt has visited, in order
          stopped  \* it will visit no more

Init == visited = << >> /\ stopped = FALSE

Visit(k) ==
    /\ ~ stopped
    /\ \A i \in DOMAIN visited : visited[i] # k
    /\ Len(visited) < Budget
    /\ visited' = Append(visited, k)
    /\ UNCHANGED stopped

Stop == stopped' = TRUE /\ UNCHANGED visited

StartOver == visited' = << >> /\ stopped' = FALSE

Next == (\E k \in Keys : Visit(k)) \/ Stop \/ StartOver

Spec == Init /\ [][Next]_<<visited, stopped>>
=============================================================================
