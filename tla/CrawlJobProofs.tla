--------------------------- MODULE CrawlJobProofs ---------------------------
(***************************************************************************)
(* The crawl of CrawlJob, for any web, any similarity, any limits and any  *)
(* number of attempts: its rows match and no two of its results are equal, *)
(* or near to each other in one attempt; it leaves nothing it was led to;  *)
(* it stops for a true reason; it implements Exploration; and every        *)
(* variable keeps its type.                                                *)
(***************************************************************************)
EXTENDS CrawlJob, Recursion, FiniteSetTheorems, SequenceTheorems, TLAPS

USE LimitsAssumption
-----------------------------------------------------------------------------
(* The rows. *)

\* A sequence of whatever: what the waves are made of is not looked at here.
IsSeq(s) == \E S : s \in Seq(S)

Shape ==
    /\ IsSeq(sources)
    /\ pages \in Seq([source : Int, content : Contents \cup {Failure}])
    /\ results \in Seq(Nat)
    /\ IsFiniteSet(heap)
    /\ IsSeq(wave)
    /\ at \in Nat \ {0} /\ crawled \in Nat /\ counted \in Nat
    /\ base \in [sources : Nat, pages : Nat, results : Nat]
    /\ pc \in {"take", "result", "learn"} => fetched \in [1 .. Len(wave) -> Contents \cup {Failure}]

\* Sources that have not got their page yet.
Open == Len(sources) - base.sources - (Len(pages) - base.pages)

\* RowsMatch inside of a wave: what is open is what the wave has left.
Ledger ==
    /\ RowsMatch
    /\ pc = "pop" => at = 1 /\ (Len(wave) >= 1 \/ (heap # {} /\ crawled < MaxPages))
    /\ pc = "sources" => Open = at - 1
    /\ pc = "fetch" => Open = Len(wave) /\ at = 1
    /\ pc = "take" => Open = Len(wave) - at + 1
    /\ pc \in {"result", "learn"} => Open = Len(wave) - at
    /\ pc \in {"sources", "fetch", "take", "result", "learn"} => at <= Len(wave)

\* The results are pages that were read; and the page that AddResult is about
\* to store is the last one, and like no result.
Unlike ==
    /\ \A r \in DOMAIN results : results[r] \in DOMAIN pages /\ ContentOf(r) \in Contents
    /\ NoResultTwice
    /\ NoNearTwins
    /\ \A r \in DOMAIN results : r > base.results => Page[ContentOf(r)].text \in texts
    /\ pc \in {"result", "learn"} => fetched[at] \in Contents
    /\ pc = "result" =>
           /\ Len(pages) > 0 /\ pages[Len(pages)].content = fetched[at]
           /\ Page[fetched[at]].text \in texts
           /\ Page[fetched[at]].hash = NoHash \/ ~ HashUsed(Page[fetched[at]].hash)
           /\ \A r \in DOMAIN results : r > base.results =>
                  <<Page[fetched[at]].text, Page[ContentOf(r)].text>> \notin Near

CrawlInv == Shape /\ Ledger /\ Unlike

\* A sequence of whatever that gets an element.
LEMMA Longer ==
    ASSUME NEW s, IsSeq(s), NEW e
    PROVE  IsSeq(Append(s, e)) /\ Len(s) \in Nat /\ Len(Append(s, e)) = Len(s) + 1
<1>1. PICK S : s \in Seq(S)
  BY DEF IsSeq
<1>2. s \in Seq(S \cup {e}) /\ e \in S \cup {e}
  BY <1>1
<1>3. Append(s, e) \in Seq(S \cup {e}) /\ Len(s) \in Nat /\ Len(Append(s, e)) = Len(s) + 1
  BY <1>2
<1> QED
  BY <1>3 DEF IsSeq

\* An attempt starts with no rows and nothing to take.
LEMMA CrawlInit == Init => CrawlInv
<1> SUFFICES ASSUME Init
             PROVE  CrawlInv
  OBVIOUS
<1> USE DEF Init
<1>1. IsSeq(<< >>) /\ Len(<< >>) = 0
  BY DEF IsSeq
<1>2. IsFiniteSet({})
  BY FS_EmptySet
<1>3. Shape
  BY <1>1, <1>2 DEF Shape
<1>4. Ledger
  BY <1>1 DEF Ledger, RowsMatch, Open
<1>5. Unlike
  BY DEF Unlike, NoResultTwice, NoNearTwins
<1> QED
  BY <1>3, <1>4, <1>5 DEF CrawlInv

\* A wave begins empty and grows by one, or it is ready.
LEMMA WaveIsSeq ==
    ASSUME CrawlInv, NextWave \/ Pop
    PROVE  /\ IsSeq(wave') /\ Len(wave') \in Nat /\ IsFiniteSet(heap') /\ at' = 1
           /\ UNCHANGED <<rows, base, crawled, counted, texts>>
           /\ \/ pc' = "pop" /\ (Len(wave') >= 1 \/ (heap' # {} /\ crawled < MaxPages))
              \/ pc' = "sources" /\ Len(wave') >= 1
           /\ pc \in {"loop", "pop"}
<1>1. /\ UNCHANGED <<rows, base, crawled, counted, texts>> /\ pc \in {"loop", "pop"} /\ at' = 1
      /\ IsSeq(wave) /\ IsFiniteSet(heap) /\ crawled \in Nat
  BY DEF NextWave, Pop, rows, CrawlInv, Shape, Ledger
<1>2. CASE NextWave
  <2>1. IsSeq(<< >>) /\ Len(<< >>) = 0
    BY DEF IsSeq
  <2> QED
    BY <1>1, <1>2, <2>1 DEF NextWave
<1>3. CASE Pop /\ WaveHasRoom
  <2>1. PICK c \in heap : HeapPop(c) /\ wave' = Append(wave, c) /\ pc' = "pop"
    BY <1>3 DEF Pop
  <2>2. IsSeq(wave') /\ Len(wave') = Len(wave) + 1 /\ Len(wave) \in Nat
    BY <1>1, <2>1, Longer
  <2>3. IsFiniteSet(heap')
    BY <1>1, <2>1, FS_Subset DEF HeapPop
  <2> QED
    BY <1>1, <2>1, <2>2, <2>3
<1>4. CASE Pop /\ ~ WaveHasRoom
  <2>1. pc = "pop" /\ pc' = "sources" /\ UNCHANGED <<heap, wave>>
    BY <1>4 DEF Pop
  <2>2. Len(wave) \in Nat
    BY <1>1, Longer
  <2>3. Len(wave) >= 1 \/ (heap # {} /\ crawled < MaxPages)
    BY <2>1 DEF CrawlInv, Ledger
  <2>4. Len(wave) >= 1
    BY <1>1, <1>4, <2>2, <2>3 DEF WaveHasRoom
  <2> QED
    BY <1>1, <2>1, <2>2, <2>4
<1> QED
  BY <1>2, <1>3, <1>4

\* The frontier stays finite: a page has finitely many links.
LEMMA PushFinite ==
    ASSUME NEW urls \in Seq(Urls), NEW places, places \subseteq DOMAIN urls, NEW depth,
           IsFiniteSet(heap), Push(urls, places, depth)
    PROVE  IsFiniteSet(heap')
<1> DEFINE new == NewAt(urls, places)
           cands == {[url |-> urls[i], depth |-> depth, seq |-> next + i] : i \in new}
<1>1. IsFiniteSet(new)
  <2>1. IsFiniteSet(1 .. Len(urls)) /\ new \subseteq 1 .. Len(urls)
    BY FS_Interval DEF NewAt
  <2> QED
    BY <2>1, FS_Subset
<1>2. IsFiniteSet(cands)
  <2> HIDE DEF new
  <2> DEFINE f == [i \in new |-> [url |-> urls[i], depth |-> depth, seq |-> next + i]]
  <2>1. cands = {f[i] : i \in new}
    OBVIOUS
  <2>2. f \in Surjection(new, {f[i] : i \in new})
    BY DEF Surjection
  <2> HIDE DEF f
  <2> QED
    BY <1>1, <2>1, <2>2, FS_Surjection
<1>3. heap' = heap \cup cands
  BY DEF Push
<1> HIDE DEF cands
<1> QED
  BY <1>2, <1>3, FS_Union

\* The steps that leave the rows alone, and the place in the wave.
Apart == Begin \/ Search \/ EndLoop \/ Decide \/ Announce \/ Extract \/ Complete \/ Fail

\* What they leave alone, and where they lead.
LEMMA ApartFrame ==
    ASSUME Shape, Apart
    PROVE  /\ UNCHANGED <<rows, base, wave, fetched, at, crawled, counted, texts>>
           /\ IsFiniteSet(heap')
           /\ pc' \in {"search", "loop", "stopped", "extract", "complete", "done"}
           /\ pc' # "done" => pc \in {"begin", "search", "loop", "decide", "stopped", "extract"}
<1> USE DEF Apart, memory, rows
<1>1. UNCHANGED <<rows, base, wave, fetched, at, crawled, counted, texts>>
  BY DEF Begin, Search, EndLoop, Decide, Announce, Extract, Complete, Fail
<1>2. /\ pc' \in {"search", "loop", "stopped", "extract", "complete", "done"}
      /\ pc' # "done" => pc \in {"begin", "search", "loop", "decide", "stopped", "extract"}
  BY DEF Begin, Search, EndLoop, Decide, Announce, Extract, Complete, Fail
<1>3. ASSUME ~ Search
      PROVE  IsFiniteSet(heap')
  BY <1>3 DEF Begin, EndLoop, Decide, Announce, Extract, Complete, Fail, Shape
<1>4. ASSUME Search
      PROVE  IsFiniteSet(heap')
  <2>1. PICK found \in Found : heap' = heap \/ Push(found, Hits(found), 0)
    BY <1>4 DEF Search
  <2>2. found \in Seq(Urls) /\ Hits(found) \subseteq DOMAIN found
    BY WebAssumption DEF Hits
  <2>3. IsFiniteSet(heap)
    BY DEF Shape
  <2>4. CASE Push(found, Hits(found), 0)
    BY <2>2, <2>3, <2>4, PushFinite
  <2> QED
    BY <2>1, <2>3, <2>4
<1> QED
  BY <1>1, <1>2, <1>3, <1>4

\* Learning ends a page: the next of the wave, or the decision.
LEMMA LearnFrame ==
    ASSUME CrawlInv, Learn
    PROVE  /\ UNCHANGED <<rows, base, wave, fetched, crawled, counted, texts>>
           /\ IsFiniteSet(heap')
           /\ \/ at < Len(wave) /\ at' = at + 1 /\ pc' = "take"
              \/ ~ (at < Len(wave)) /\ at' = at /\ pc' = "decide"
           /\ pc = "learn"
<1>1. /\ UNCHANGED <<rows, base, wave, fetched, crawled, counted, texts>>
      /\ \/ at < Len(wave) /\ at' = at + 1 /\ pc' = "take"
         \/ ~ (at < Len(wave)) /\ at' = at /\ pc' = "decide"
      /\ pc = "learn"
  BY DEF Learn, Advance, rows
<1>2. IsFiniteSet(heap)
  BY DEF CrawlInv, Shape
<1>3. heap' = heap \/ Push(LinksOf(fetched[at]), DOMAIN LinksOf(fetched[at]), wave[at].depth + 1)
  BY DEF Learn
<1>4. ASSUME fetched[at] \in Contents
      PROVE  IsFiniteSet(heap')
  <2>1. LinksOf(fetched[at]) \in Seq(Urls)
    BY <1>4, WebAssumption DEF LinksOf
  <2>2. CASE Push(LinksOf(fetched[at]), DOMAIN LinksOf(fetched[at]), wave[at].depth + 1)
    BY <1>2, <2>1, <2>2, PushFinite
  <2> QED
    BY <1>2, <1>3, <2>2
<1>5. fetched[at] \in Contents
  BY <1>1 DEF CrawlInv, Unlike
<1> QED
  BY <1>1, <1>4, <1>5

\* No step disturbs the shape.
LEMMA ShapeStep ==
    ASSUME CrawlInv, [Next]_vars
    PROVE  Shape'
<1> USE DEF CrawlInv, rows, memory
<1>0. /\ Shape /\ Len(wave) \in Nat /\ Len(sources) \in Nat
      /\ Len(pages) \in Nat /\ Len(results) \in Nat
  BY Longer DEF Shape
<1>1. CASE UNCHANGED vars
  BY <1>1 DEF vars, Shape
<1>2. CASE Apart
  BY <1>2, ApartFrame DEF Shape
<1>3. CASE NextWave \/ Pop
  BY <1>3, WaveIsSeq DEF Shape
<1>4. CASE AddSource
  <2>1. IsSeq(sources')
    BY <1>4, Longer DEF AddSource, Shape
  <2>2. at' \in Nat \ {0} /\ pc' \in {"sources", "fetch"}
    BY <1>4 DEF AddSource, Shape
  <2> QED
    BY <1>4, <2>1, <2>2 DEF AddSource, Shape
<1>5. CASE FetchWave
  BY <1>5 DEF FetchWave, Shape
<1>6. CASE TakeFailure \/ TakePage
  <2>0. pc = "take" /\ at \in 1 .. Len(wave)
    BY <1>0, <1>6 DEF Shape, Ledger, TakeFailure, TakePage
  <2>1. SourceOf(at) \in Int /\ fetched[at] \in Contents \cup {Failure}
    BY <1>0, <2>0 DEF SourceOf, Shape
  <2>2. pages' = Append(pages, [source |-> SourceOf(at), content |-> fetched[at]])
    BY <1>6 DEF TakeFailure, TakePage
  <2>3. pages' \in Seq([source : Int, content : Contents \cup {Failure}])
    BY <2>1, <2>2 DEF Shape
  <2>4. /\ at' \in Nat \ {0} /\ crawled' \in Nat
        /\ UNCHANGED <<sources, results, heap, wave, fetched, counted, base>> /\ pc = "take"
    BY <1>6 DEF TakeFailure, TakePage, Advance, Shape
  <2> QED
    BY <2>3, <2>4 DEF Shape
<1>7. CASE AddResult
  BY <1>0, <1>7 DEF AddResult, Shape
<1>8. CASE Learn
  BY <1>8, LearnFrame DEF Shape
<1>9. CASE RunAgain
  <2>1. IsSeq(<< >>) /\ IsFiniteSet({})
    BY FS_EmptySet DEF IsSeq
  <2> QED
    BY <1>0, <1>9, <2>1 DEF RunAgain, Shape
<1> QED
  BY <1>1, <1>2, <1>3, <1>4, <1>5, <1>6, <1>7, <1>8, <1>9 DEF Next, Step, Apart

\* One page more leaves one source less without a page.
LEMMA OneLess ==
    ASSUME NEW s \in Int, NEW t \in Int, NEW p \in Int, NEW q \in Int
    PROVE  s - t - ((p + 1) - q) = s - t - (p - q) - 1
OBVIOUS

\* A wave opens one source at a time and closes it with one page.
LEMMA LedgerStep ==
    ASSUME CrawlInv, [Next]_vars
    PROVE  Ledger'
<1> USE DEF CrawlInv, rows, memory, Open
<1>0. /\ Len(wave) \in Nat /\ Len(sources) \in Nat /\ Len(pages) \in Nat /\ Len(results) \in Nat
      /\ at \in Nat \ {0} /\ crawled \in Nat /\ counted \in Nat
      /\ base.sources \in Nat /\ base.pages \in Nat /\ base.results \in Nat
  BY Longer DEF Shape
<1>1. CASE UNCHANGED vars
  BY <1>1 DEF vars, Ledger, RowsMatch
<1>2. CASE Apart
  <2>1. /\ UNCHANGED <<rows, base, wave, fetched, at, crawled, counted>>
        /\ pc' \in {"search", "loop", "stopped", "extract", "complete", "done"}
        /\ pc' # "done" => pc \in {"begin", "search", "loop", "decide", "stopped", "extract"}
    BY <1>2, ApartFrame
  <2> QED
    BY <1>0, <2>1 DEF Ledger, RowsMatch
<1>3. CASE NextWave \/ Pop
  <2>1. /\ UNCHANGED <<rows, base, crawled, counted>> /\ at' = 1 /\ pc \in {"loop", "pop"}
        /\ \/ pc' = "pop" /\ (Len(wave') >= 1 \/ (heap' # {} /\ crawled < MaxPages))
           \/ pc' = "sources" /\ Len(wave') >= 1
    BY <1>3, WaveIsSeq
  <2>2. /\ pages' = pages /\ base' = base /\ crawled' = crawled /\ counted' = counted
        /\ sources' = sources /\ results' = results
    BY <2>1
  <2>3. Len(sources) - base.sources = Len(pages) - base.pages
    BY <2>1 DEF Ledger, RowsMatch
  <2>4. RowsMatch'
    BY <2>2, <2>3 DEF Ledger, RowsMatch
  <2>5. Open' = 0
    BY <1>0, <2>2, <2>3
  <2>6. CASE pc' = "pop"
    BY <2>1, <2>4, <2>6 DEF Ledger
  <2>7. CASE pc' = "sources"
    <3>1. Open' = at' - 1 /\ at' <= Len(wave')
      BY <2>1, <2>5, <2>7
    <3> QED
      BY <2>4, <2>7, <3>1 DEF Ledger
  <2> QED
    BY <2>1, <2>6, <2>7
<1>4. CASE AddSource
  <2>1. Len(sources') = Len(sources) + 1
    BY <1>4, Longer DEF AddSource, Shape
  <2>2. /\ UNCHANGED <<pages, results, wave, base, crawled, counted>> /\ pc = "sources"
        /\ \/ at < Len(wave) /\ at' = at + 1 /\ pc' = pc
           \/ ~ (at < Len(wave)) /\ at' = 1 /\ pc' = "fetch"
    BY <1>4 DEF AddSource
  <2>3. Open = at - 1 /\ at <= Len(wave) /\ RowsMatch
    BY <2>2 DEF Ledger
  <2>4. /\ pages' = pages /\ base' = base
        /\ Len(results') = Len(results) /\ crawled' = crawled /\ counted' = counted
    BY <2>2
  <2>5. Len(pages') = Len(pages) /\ base'.sources = base.sources /\ base'.pages = base.pages
    BY <2>4
  <2>6. Len(sources) - base.sources - (Len(pages) - base.pages) = at - 1
    BY <2>3
  <2>7. Open' = at
    <3>1. Open' = (Len(sources) + 1) - base.sources - (Len(pages) - base.pages)
      BY <2>1, <2>5
    <3> HIDE DEF Open
    <3>2. \A s, b, p, c, a \in Int : s - b - (p - c) = a - 1 => (s + 1) - b - (p - c) = a
      OBVIOUS
    <3>3. /\ Len(sources) \in Int /\ base.sources \in Int /\ Len(pages) \in Int
          /\ base.pages \in Int /\ at \in Int
      BY <1>0
    <3> QED
      BY <2>6, <3>1, <3>2, <3>3
  <2>8. pc' \in {"sources", "fetch"}
    BY <2>2
  <2>9. RowsMatch'
    BY <2>3, <2>4, <2>8 DEF RowsMatch
  <2> HIDE DEF Open
  <2> QED
    BY <1>0, <2>2, <2>3, <2>7, <2>9 DEF Ledger
<1>5. CASE FetchWave
  BY <1>0, <1>5 DEF FetchWave, Ledger, RowsMatch
<1>6. CASE TakeFailure \/ TakePage
  <2>1. /\ pages' = Append(pages, [source |-> SourceOf(at), content |-> fetched[at]])
        /\ crawled' = crawled + 1 /\ pc = "take"
        /\ UNCHANGED <<sources, results, wave, counted, base>>
        /\ \/ at < Len(wave) /\ at' = at + 1 /\ pc' = "take"
           \/ ~ (at < Len(wave)) /\ at' = at /\ pc' = "decide"
           \/ at' = at /\ pc' \in {"result", "learn"}
    BY <1>6 DEF TakeFailure, TakePage, Advance
  <2>2. Open = Len(wave) - at + 1 /\ at \in 1 .. Len(wave) /\ RowsMatch
    BY <1>0, <2>1 DEF Ledger
  <2>3. SourceOf(at) = Len(pages) + 1 - base.pages + base.sources /\ SourceOf(at) \in Int
    BY <1>0, <2>2 DEF SourceOf
  <2>4. fetched[at] \in Contents \cup {Failure}
    BY <2>1, <2>2 DEF Shape
  <2>5. /\ Len(pages') = Len(pages) + 1
        /\ \A i \in 1 .. Len(pages) : pages'[i] = pages[i]
        /\ pages'[Len(pages) + 1].source = SourceOf(at)
    BY <2>1, <2>3, <2>4 DEF Shape
  <2>6. Len(pages') = Len(pages) + 1
    BY <2>5
  <2>7. /\ Len(sources') = Len(sources) /\ Len(results') = Len(results) /\ counted' = counted
        /\ base'.sources = base.sources /\ base'.pages = base.pages /\ base'.results = base.results
    BY <2>1
  <2>8. Open' = Open - 1 /\ Open \in Int
    <3>1. Open \in Int
      BY <1>0
    <3>2. /\ Len(sources') = Len(sources)
          /\ base'.sources = base.sources /\ base'.pages = base.pages
      BY <2>7
    <3>3. Open' = Open - 1
      <4>1. Open' = Len(sources) - base.sources - ((Len(pages) + 1) - base.pages)
        BY <2>6, <3>2
      <4>2. /\ Len(sources) \in Int /\ base.sources \in Int
            /\ Len(pages) \in Int /\ base.pages \in Int
        BY <1>0
      <4>3. Len(sources) - base.sources - ((Len(pages) + 1) - base.pages)
              = Len(sources) - base.sources - (Len(pages) - base.pages) - 1
        BY <4>2, OneLess
      <4> QED
        BY <4>1, <4>3
    <3> QED
      BY <3>1, <3>3
  <2>9. \A i \in base.pages + 1 .. Len(pages') : pages'[i].source = i - base.pages + base.sources
    <3> TAKE i \in base.pages + 1 .. Len(pages')
    <3>1. CASE i = Len(pages) + 1
      <4>1. pages'[i].source = SourceOf(at)
        BY <2>5, <3>1
      <4>2. SourceOf(at) = i - base.pages + base.sources
        <5> SUFFICES Len(pages) + 1 - base.pages + base.sources = i - base.pages + base.sources
          BY <2>3
        <5> QED
          BY <1>0, <3>1
      <4> QED
        BY <4>1, <4>2
    <3>2. CASE i # Len(pages) + 1
      <4>1. i \in base.pages + 1 .. Len(pages) /\ i \in 1 .. Len(pages)
        BY <1>0, <2>6, <3>2
      <4> QED
        BY <2>2, <2>5, <4>1 DEF RowsMatch
    <3> QED
      BY <3>1, <3>2
  <2>10. /\ crawled = Len(pages) - base.pages
         /\ counted = Len(results) - base.results
         /\ crawled' = crawled + 1
    BY <2>1, <2>2 DEF RowsMatch
  <2>11. crawled' = Len(pages') - base'.pages /\ counted' = Len(results') - base'.results
    BY <1>0, <2>6, <2>7, <2>10
  <2>12. pc' = "decide" => Len(sources') - base'.sources = Len(pages') - base'.pages
    <3>1. pc' = "decide" => Open' = 0
      BY <1>0, <2>1, <2>2, <2>8
    <3>2. Open' = Len(sources') - base'.sources - (Len(pages') - base'.pages)
      OBVIOUS
    <3>3. /\ Len(sources') \in Int /\ base'.sources \in Int
          /\ Len(pages') \in Int /\ base'.pages \in Int
      BY <1>0, <2>6, <2>7
    <3> QED
      BY <3>1, <3>2, <3>3
  <2>13. RowsMatch'
    BY <2>1, <2>9, <2>11, <2>12 DEF RowsMatch
  <2> HIDE DEF Open
  <2> QED
    BY <1>0, <2>1, <2>2, <2>8, <2>13 DEF Ledger
<1>7. CASE AddResult
  <2>1. Len(results') = Len(results) + 1
    BY <1>0, <1>7 DEF AddResult, Shape
  <2>2. /\ sources' = sources /\ pages' = pages /\ base' = base /\ wave' = wave /\ at' = at
        /\ crawled' = crawled /\ counted' = counted + 1 /\ pc = "result" /\ pc' = "learn"
    BY <1>7 DEF AddResult
  <2>3. RowsMatch /\ Open = Len(wave) - at /\ at <= Len(wave) /\ Open' = Open
    BY <2>2 DEF Ledger
  <2>4. counted = Len(results) - base.results
    BY <2>3 DEF RowsMatch
  <2>5. base'.results = base.results /\ counted' = counted + 1
    BY <2>2
  <2>6. counted' = Len(results') - base'.results
    BY <1>0, <2>1, <2>4, <2>5
  <2>7. RowsMatch'
    BY <2>2, <2>3, <2>6 DEF RowsMatch
  <2> HIDE DEF Open
  <2> QED
    BY <2>2, <2>3, <2>7 DEF Ledger
<1>8. CASE Learn
  <2>1. /\ UNCHANGED <<rows, base, wave, crawled, counted>> /\ pc = "learn"
        /\ \/ at < Len(wave) /\ at' = at + 1 /\ pc' = "take"
           \/ ~ (at < Len(wave)) /\ at' = at /\ pc' = "decide"
    BY <1>8, LearnFrame
  <2>2. Open = Len(wave) - at /\ at <= Len(wave) /\ RowsMatch
    BY <2>1 DEF Ledger
  <2>3. pc' = "decide" => Open = 0
    BY <1>0, <2>1, <2>2
  <2>4. /\ sources' = sources /\ pages' = pages /\ results' = results /\ base' = base
        /\ crawled' = crawled /\ counted' = counted
    BY <2>1
  <2>5. Open = 0 => Len(sources) - base.sources = Len(pages) - base.pages
    BY <1>0
  <2>6. RowsMatch' /\ Open' = Open
    BY <2>1, <2>2, <2>3, <2>4, <2>5 DEF RowsMatch
  <2> HIDE DEF Open
  <2> QED
    BY <1>0, <2>1, <2>2, <2>6 DEF Ledger
<1>9. CASE RunAgain
  BY <1>0, <1>9 DEF RunAgain, Ledger, RowsMatch
<1> QED
  BY <1>1, <1>2, <1>3, <1>4, <1>5, <1>6, <1>7, <1>8, <1>9 DEF Next, Step, Apart

\* Of the results nothing changes that Unlike speaks of.
LEMMA UnlikeFrame ==
    ASSUME Unlike, UNCHANGED <<pages, results, base, texts>>, pc' \notin {"result", "learn"}
    PROVE  Unlike'
BY DEF Unlike, NoResultTwice, NoNearTwins, ContentOf

\* A page that is stored changes none that was.
LEMMA StoredPage ==
    ASSUME CrawlInv, NEW p, pages' = Append(pages, p), UNCHANGED results
    PROVE  /\ Len(pages) \in Nat /\ pages'[Len(pages')] = p /\ Len(pages') > 0
           /\ \A r \in DOMAIN results : results[r] \in DOMAIN pages' /\ ContentOf(r)' = ContentOf(r)
<1>1. PICK S : pages \in Seq(S)
  BY DEF CrawlInv, Shape
<1>2. /\ Len(pages) \in Nat /\ Len(pages') = Len(pages) + 1 /\ pages'[Len(pages) + 1] = p
      /\ DOMAIN pages = 1 .. Len(pages) /\ DOMAIN pages' = 1 .. Len(pages) + 1
      /\ \A i \in 1 .. Len(pages) : pages'[i] = pages[i]
  <2>1. pages \in Seq(S \cup {p}) /\ p \in S \cup {p}
    BY <1>1
  <2> QED
    BY <2>1
<1>3. \A r \in DOMAIN results : results[r] \in 1 .. Len(pages)
  BY <1>2 DEF CrawlInv, Unlike
<1>4. \A r \in DOMAIN results : results[r] \in DOMAIN pages' /\ pages'[results[r]] = pages[results[r]]
  BY <1>2, <1>3
<1>5. \A r \in DOMAIN results : ContentOf(r)' = ContentOf(r)
  BY <1>4 DEF ContentOf
<1> QED
  BY <1>2, <1>4, <1>5

\* What is kept of Unlike while results and base stay: the texts only grow.
LEMMA StillUnlike ==
    ASSUME Unlike, UNCHANGED <<results, base>>, texts \subseteq texts',
           \A r \in DOMAIN results : results[r] \in DOMAIN pages' /\ ContentOf(r)' = ContentOf(r)
    PROVE  /\ \A r \in DOMAIN results' : results'[r] \in DOMAIN pages' /\ ContentOf(r)' \in Contents
           /\ NoResultTwice' /\ NoNearTwins'
           /\ \A r \in DOMAIN results' : r > base'.results => Page[ContentOf(r)'].text \in texts'
<1> USE DEF Unlike
<1>1. DOMAIN results' = DOMAIN results /\ results' = results /\ base' = base
  OBVIOUS
<1>2. \A r \in DOMAIN results' : results'[r] \in DOMAIN pages' /\ ContentOf(r)' \in Contents
  BY <1>1
<1>3. NoResultTwice'
  BY <1>1 DEF NoResultTwice
<1>4. NoNearTwins'
  BY <1>1 DEF NoNearTwins
<1>5. \A r \in DOMAIN results' : r > base'.results => Page[ContentOf(r)'].text \in texts'
  BY <1>1
<1> QED
  BY <1>2, <1>3, <1>4, <1>5

\* A page that goes on to be a result is like none there is.
LEMMA UnlikeTake ==
    ASSUME CrawlInv, TakeFailure \/ TakePage
    PROVE  Unlike'
<1> DEFINE p == [source |-> SourceOf(at), content |-> fetched[at]]
<1>1. /\ pages' = Append(pages, p) /\ UNCHANGED <<results, base, fetched>>
      /\ texts \subseteq texts' /\ pc = "take"
  BY DEF TakeFailure, TakePage
<1>2. p.content = fetched[at]
  OBVIOUS
<1> HIDE DEF p
<1>3. /\ pages'[Len(pages')] = p /\ Len(pages') > 0
      /\ \A r \in DOMAIN results : results[r] \in DOMAIN pages' /\ ContentOf(r)' = ContentOf(r)
  BY <1>1, StoredPage
<1>4. Unlike
  BY DEF CrawlInv
<1>5. /\ \A r \in DOMAIN results' : results'[r] \in DOMAIN pages' /\ ContentOf(r)' \in Contents
      /\ NoResultTwice' /\ NoNearTwins'
      /\ \A r \in DOMAIN results' : r > base'.results => Page[ContentOf(r)'].text \in texts'
  BY <1>1, <1>3, <1>4, StillUnlike
<1>6. CASE TakeFailure
  <2>1. pc' \notin {"result", "learn"}
    BY <1>6 DEF TakeFailure, Advance
  <2> QED
    BY <1>5, <2>1 DEF Unlike
<1>7. CASE TakePage
  <2> DEFINE page == Page[fetched[at]]
  <2>1. at' = at /\ fetched' = fetched /\ page.text \in texts'
    BY <1>7 DEF TakePage
  <2>2. fetched[at] \in Contents
    <3>1. at \in 1 .. Len(wave)
      BY <1>1, Longer DEF CrawlInv, Shape, Ledger
    <3>2. fetched[at] \in Contents \cup {Failure}
      BY <1>1, <3>1 DEF CrawlInv, Shape
    <3> QED
      BY <1>7, <3>2 DEF TakePage
  <2>3. ASSUME pc' = "result"
        PROVE  /\ page.hash = NoHash \/ ~ HashUsed(page.hash)
               /\ ~ NearSeen(page.text)
    <3>1. reason' = None
      BY <1>7, <2>3 DEF TakePage
    <3> QED
      BY <1>7, <3>1 DEF TakePage, None
  <2>4. ASSUME pc' = "result"
        PROVE  page.hash = NoHash \/ ~ HashUsed(page.hash)'
    BY <1>1, <1>3, <2>1, <2>3, <2>4 DEF HashUsed, ContentOf
  <2>5. ASSUME pc' = "result", NEW r \in DOMAIN results', r > base'.results
        PROVE  <<page.text, Page[ContentOf(r)'].text>> \notin Near
    <3>1. Page[ContentOf(r)'].text \in texts
      BY <1>1, <1>3, <1>4, <2>5 DEF Unlike
    <3> QED
      BY <2>3, <2>5, <3>1 DEF NearSeen
  <2>6. /\ pc' \in {"result", "learn"} => fetched'[at'] \in Contents
        /\ pages'[Len(pages')].content = fetched'[at'] /\ Page[fetched'[at']].text \in texts'
    BY <1>2, <1>3, <2>1, <2>2
  <2>7. pc' = "result" =>
            /\ Page[fetched'[at']].hash = NoHash \/ ~ HashUsed(Page[fetched[at]].hash)'
            /\ \A r \in DOMAIN results' : r > base'.results =>
                   <<Page[fetched'[at']].text, Page[ContentOf(r)'].text>> \notin Near
    BY <2>1, <2>4, <2>5
  <2> QED
    BY <1>3, <1>5, <2>6, <2>7 DEF Unlike
<1> QED
  BY <1>6, <1>7

\* The result that joins is the page TakePage has compared.
LEMMA UnlikeAdd ==
    ASSUME CrawlInv, AddResult
    PROVE  Unlike'
<1> USE DEF CrawlInv
<1> DEFINE page == Page[fetched[at]]
<1>0. PICK new \in Nat : new = Len(results) + 1
  BY DEF Shape
<1>1. /\ UNCHANGED <<pages, base, texts, fetched, at>> /\ pc = "result" /\ pc' = "learn"
      /\ results' = Append(results, Len(pages))
  BY DEF AddResult
<1>2. Len(pages) \in Nat \ {0} /\ Len(pages) \in DOMAIN pages
  BY <1>1 DEF Shape, Unlike
<1>3. /\ Len(results) \in Nat /\ DOMAIN results = 1 .. Len(results)
      /\ DOMAIN results' = 1 .. new /\ results'[new] = Len(pages)
      /\ \A r \in DOMAIN results : results'[r] = results[r]
  BY <1>0, <1>1, <1>2 DEF Shape
<1>4. /\ \A r \in DOMAIN results : ContentOf(r)' = ContentOf(r)
      /\ ContentOf(new)' = fetched[at]
  BY <1>1, <1>3 DEF ContentOf, Unlike
<1>5. fetched[at] \in Contents /\ fetched[at] # Failure
  BY <1>1, WebAssumption DEF Unlike
<1> HIDE DEF page
<1>6. \A r \in DOMAIN results : Page[ContentOf(r)].hash # page.hash \/ page.hash = NoHash
  BY <1>1 DEF Unlike, HashUsed, ContentOf, page
<1>7. \A r \in DOMAIN results : r > base.results => <<Page[ContentOf(r)].text, page.text>> \notin Near
  <2> TAKE r \in DOMAIN results
  <2> HAVE r > base.results
  <2>1. <<page.text, Page[ContentOf(r)].text>> \notin Near
    BY <1>1 DEF Unlike, page
  <2> QED
    BY <2>1, SimilarityAssumption
<1>8. \A r \in DOMAIN results' : r # new => r \in DOMAIN results
  BY <1>0, <1>3
<1>9. \A r, s \in DOMAIN results' : r < s => r \in DOMAIN results
  BY <1>0, <1>3
<1>10. \A r \in DOMAIN results' : results'[r] \in DOMAIN pages' /\ ContentOf(r)' \in Contents
  BY <1>1, <1>2, <1>3, <1>4, <1>5, <1>8 DEF Unlike
<1>11. NoResultTwice'
  <2> SUFFICES ASSUME NEW r \in DOMAIN results', NEW s \in DOMAIN results'
               PROVE  /\ ContentOf(r)' # Failure
                      /\ r < s => \/ Page[ContentOf(r)'].hash # Page[ContentOf(s)'].hash
                                  \/ Page[ContentOf(r)'].hash = NoHash
    BY DEF NoResultTwice
  <2>1. ContentOf(r)' # Failure
    BY <1>10, WebAssumption
  <2>2. ASSUME r < s, s = new
        PROVE  \/ Page[ContentOf(r)'].hash # Page[ContentOf(s)'].hash
               \/ Page[ContentOf(r)'].hash = NoHash
    BY <1>4, <1>6, <1>9, <2>2 DEF page
  <2>3. ASSUME r < s, s # new
        PROVE  \/ Page[ContentOf(r)'].hash # Page[ContentOf(s)'].hash
               \/ Page[ContentOf(r)'].hash = NoHash
    BY <1>4, <1>8, <1>9, <2>3 DEF Unlike, NoResultTwice
  <2> QED
    BY <2>1, <2>2, <2>3
<1>12. NoNearTwins'
  <2> SUFFICES ASSUME NEW r \in DOMAIN results', NEW s \in DOMAIN results', r < s, r > base'.results
               PROVE  <<Page[ContentOf(r)'].text, Page[ContentOf(s)'].text>> \notin Near
    BY DEF NoNearTwins
  <2>1. r \in DOMAIN results /\ r > base.results
    BY <1>1, <1>9
  <2>2. CASE s = new
    BY <1>4, <1>7, <2>1, <2>2 DEF page
  <2>3. CASE s # new
    BY <1>4, <1>8, <2>1, <2>3 DEF Unlike, NoNearTwins
  <2> QED
    BY <2>2, <2>3
<1>13. \A r \in DOMAIN results' : r > base'.results => Page[ContentOf(r)'].text \in texts'
  <2> SUFFICES ASSUME NEW r \in DOMAIN results', r > base'.results
               PROVE  Page[ContentOf(r)'].text \in texts'
    OBVIOUS
  <2>1. CASE r = new
    BY <1>1, <1>4, <2>1 DEF Unlike
  <2>2. CASE r # new
    BY <1>1, <1>4, <1>8, <2>2 DEF Unlike
  <2> QED
    BY <2>1, <2>2
<1> QED
  BY <1>1, <1>5, <1>10, <1>11, <1>12, <1>13 DEF Unlike

\* Only TakePage and AddResult add a page or a result.
LEMMA UnlikeStep ==
    ASSUME CrawlInv, [Next]_vars
    PROVE  Unlike'
<1> USE DEF CrawlInv, rows, memory
<1>1. CASE UNCHANGED vars
  BY <1>1 DEF vars, Unlike, NoResultTwice, NoNearTwins, ContentOf, HashUsed
<1>2. CASE Apart
  BY <1>2, ApartFrame, UnlikeFrame
<1>3. CASE NextWave \/ Pop \/ AddSource \/ FetchWave
  <2>1. UNCHANGED <<pages, results, base, texts>> /\ pc' \notin {"result", "learn"}
    BY <1>3 DEF NextWave, Pop, AddSource, FetchWave, CrawlInv
  <2> QED
    BY <2>1, UnlikeFrame
<1>4. CASE TakeFailure \/ TakePage
  BY <1>4, UnlikeTake
<1>5. CASE AddResult
  BY <1>5, UnlikeAdd
<1>6. CASE Learn
  BY <1>6, LearnFrame, UnlikeFrame
<1>7. CASE RunAgain
  <2>1. /\ UNCHANGED <<pages, results>> /\ base'.results = Len(results) /\ pc' = "begin"
    BY <1>7 DEF RunAgain
  <2>2. \A r \in DOMAIN results : ~ (r > base'.results) /\ ContentOf(r)' = ContentOf(r)
    BY <2>1 DEF ContentOf, Shape
  <2>3. NoResultTwice' /\ NoNearTwins'
    BY <2>1, <2>2 DEF Unlike, NoResultTwice, NoNearTwins
  <2> QED
    BY <2>1, <2>2, <2>3 DEF Unlike
<1> QED
  BY <1>1, <1>2, <1>3, <1>4, <1>5, <1>6, <1>7 DEF Next, Step, Apart

\* The invariant of the crawl.
LEMMA CrawlInvariance == Spec => []CrawlInv
<1>1. ASSUME CrawlInv, [Next]_vars
      PROVE  CrawlInv'
  BY <1>1, ShapeStep, LedgerStep, UnlikeStep DEF CrawlInv
<1> QED
  BY CrawlInit, <1>1, PTL DEF Spec

\* Between waves each source of the attempt has exactly one page, failed or
\* not, in the same order, and the counters count the attempt's rows: for any
\* web, any limits and any number of interrupted attempts.
THEOREM RowsAlwaysMatch == Spec => []RowsMatch
<1>1. CrawlInv => RowsMatch
  BY DEF CrawlInv, Ledger
<1> QED
  BY CrawlInvariance, <1>1, PTL

\* No two results of a job have the same bytes, whichever attempts stored them.
THEOREM ResultsDiffer == Spec => []NoResultTwice
<1>1. CrawlInv => NoResultTwice
  BY DEF CrawlInv, Unlike
<1> QED
  BY CrawlInvariance, <1>1, PTL

\* No two results of an attempt are near-duplicates, for any symmetric
\* similarity, transitive or not.
THEOREM ResultsAreFarApart == Spec => []NoNearTwins
<1>1. CrawlInv => NoNearTwins
  BY DEF CrawlInv, Unlike
<1> QED
  BY CrawlInvariance, <1>1, PTL

-----------------------------------------------------------------------------
(* The frontier. *)

Key(c) == Norm[c.url]

\* The frontier's candidates are new to each other: no two have the same key
\* or the same place in the counter, and every key is remembered.
Frontier ==
    /\ heap \subseteq Candidates /\ next \in Nat
    /\ \A c \in heap : c.seq <= next /\ Key(c) \in seen
    /\ \A c, d \in heap : c # d => c.seq # d.seq /\ Key(c) # Key(d)

\* What the attempt has visited, up to now.
Visited == {Norm[sources[k]] : k \in base.sources + 1 .. Len(sources)}

\* Nothing the attempt has visited is in the frontier, or in the wave.
Unvisited ==
    /\ sources \in Seq(Urls) /\ base.sources <= Len(sources)
    /\ \A v \in Visited : v \in seen /\ \A c \in heap : Key(c) # v
    /\ wave \in Seq(Candidates)
    /\ pc \in {"pop", "sources"} =>
           \A i \in at .. Len(wave) :
               /\ Key(wave[i]) \in seen \ Visited
               /\ \A c \in heap : Key(c) # Key(wave[i])
               /\ \A j \in at .. Len(wave) : i # j => Key(wave[j]) # Key(wave[i])

\* The wave and the pages before it are within the budget.
WithinBudget ==
    /\ crawled <= MaxPages
    /\ pc \in {"pop", "sources", "fetch"} => crawled + Len(wave) <= MaxPages
    /\ pc = "take" => crawled + Len(wave) - at + 1 <= MaxPages
    /\ pc \in {"result", "learn"} => crawled + Len(wave) - at <= MaxPages

FrontierInv == Frontier /\ Unvisited /\ WithinBudget

\* What is pushed has a key that was not remembered, and a place in the
\* counter of its own.
LEMMA PushNew ==
    ASSUME Frontier, NEW urls \in Seq(Urls), NEW places \in SUBSET DOMAIN urls,
           NEW depth \in Nat, Push(urls, places, depth)
    PROVE  /\ Frontier' /\ seen \subseteq seen'
           /\ \A c \in heap' : c \in heap \/ Key(c) \notin seen
<1> DEFINE new == NewAt(urls, places)
           cand(i) == [url |-> urls[i], depth |-> depth, seq |-> next + i]
<1>1. /\ heap' = heap \cup {cand(i) : i \in new}
      /\ seen' = seen \cup {Norm[urls[i]] : i \in places}
      /\ next' = next + Len(urls)
  BY DEF Push
<1>2. /\ new \subseteq places /\ places \subseteq 1 .. Len(urls) /\ Len(urls) \in Nat
      /\ \A i \in places : urls[i] \in Urls
      /\ \A i \in new : Norm[urls[i]] \notin seen
  BY DEF NewAt
<1>3. \A i, j \in new : i # j => Norm[urls[i]] # Norm[urls[j]]
  <2>1. \A i, j \in new : i < j => Norm[urls[i]] # Norm[urls[j]]
    BY DEF NewAt
  <2>2. \A i, j \in new : i # j => i < j \/ j < i
    BY <1>2
  <2> QED
    BY <2>1, <2>2
<1>4. next \in Nat
  BY DEF Frontier
<1>5. \A i \in new : /\ cand(i).url = urls[i] /\ cand(i).seq = next + i
                     /\ Key(cand(i)) = Norm[urls[i]]
                     /\ cand(i).seq > next /\ cand(i).seq <= next'
                     /\ cand(i) \in Candidates
  <2> HIDE DEF new
  <2> QED
    BY <1>1, <1>2, <1>4 DEF Key, Candidates
<1> HIDE DEF cand, new
<1>6. \A c \in heap' : \/ c \in heap
                       \/ \E i \in new : c = cand(i)
  BY <1>1
<1>7. \A c \in heap' : c \in heap \/ Key(c) \notin seen
  BY <1>2, <1>5, <1>6
<1>8. \A c \in heap : c \in Candidates /\ c.seq \in Nat /\ c.seq <= next /\ Key(c) \in seen
  BY DEF Frontier, Candidates
<1>9. next' \in Nat /\ next <= next' /\ seen \subseteq seen'
  BY <1>1, <1>2, <1>4
<1>10. ASSUME NEW c \in heap'
       PROVE  c \in Candidates /\ c.seq <= next' /\ Norm[c.url] \in seen'
  <2>1. CASE c \in heap
    BY <1>4, <1>8, <1>9, <2>1 DEF Key
  <2>2. ASSUME NEW i \in new, c = cand(i)
        PROVE  c \in Candidates /\ c.seq <= next' /\ Norm[c.url] \in seen'
    BY <1>1, <1>2, <1>5, <2>2
  <2> QED
    BY <1>6, <2>1, <2>2
<1>11. ASSUME NEW c \in heap', NEW d \in heap', c # d
       PROVE  c.seq # d.seq /\ Norm[c.url] # Norm[d.url]
  <2>1. CASE c \in heap /\ d \in heap
    BY <1>11, <2>1 DEF Frontier, Key
  <2>2. ASSUME NEW x \in heap, NEW i \in new
        PROVE  x.seq # cand(i).seq /\ Norm[x.url] # Norm[cand(i).url]
    BY <1>2, <1>4, <1>5, <1>8 DEF Key
  <2>3. ASSUME NEW i \in new, NEW j \in new, cand(i) # cand(j)
        PROVE  cand(i).seq # cand(j).seq /\ Norm[cand(i).url] # Norm[cand(j).url]
    <3>1. i # j
      BY <2>3
    <3>2. next + i # next + j
      BY <1>2, <1>4, <3>1
    <3> QED
      BY <1>3, <1>5, <3>1, <3>2
  <2> QED
    BY <1>6, <1>11, <2>1, <2>2, <2>3
<1>12. Frontier'
  BY <1>9, <1>10, <1>11 DEF Frontier, Key
<1> QED
  BY <1>7, <1>9, <1>12

OrderInv == required \in Objectives /\ FrontierInv

\* What the invariants say of the numbers.
LEMMA CrawlNumbers ==
    ASSUME CrawlInv
    PROVE  /\ Len(wave) \in Nat /\ Len(sources) \in Nat /\ Len(pages) \in Nat /\ Len(results) \in Nat
           /\ at \in Nat \ {0} /\ crawled \in Nat /\ counted \in Nat
           /\ base.sources \in Nat /\ base.pages \in Nat /\ base.results \in Nat
           /\ pc \in {"sources", "fetch", "take", "result", "learn"} => at <= Len(wave)
  BY Longer DEF CrawlInv, Shape, Ledger

\* A page takes one of the places the wave has left.
LEMMA BudgetStep ==
    ASSUME CrawlInv, OrderInv, [Next]_vars
    PROVE  WithinBudget'
<1> USE DEF rows, memory
<1>0. /\ Len(wave) \in Nat /\ at \in Nat \ {0} /\ crawled \in Nat
      /\ pc \in {"sources", "fetch", "take", "result", "learn"} => at <= Len(wave)
      /\ WithinBudget
  BY CrawlNumbers DEF OrderInv, FrontierInv
<1>1. CASE UNCHANGED vars
  BY <1>0, <1>1 DEF vars, WithinBudget
<1>2. CASE Apart
  <2>1. crawled' = crawled /\ pc' \in {"search", "loop", "stopped", "extract", "complete", "done"}
    BY <1>2, ApartFrame DEF CrawlInv
  <2> QED
    BY <1>0, <2>1 DEF WithinBudget
<1>3. CASE NextWave
  <2>1. crawled' = crawled /\ pc' = "pop" /\ Len(wave') = 0
    BY <1>3 DEF NextWave
  <2> QED
    BY <1>0, <2>1 DEF WithinBudget
<1>10. CASE Pop
  <2>1. crawled' = crawled /\ pc = "pop" /\ pc' \in {"pop", "sources"}
    BY <1>10 DEF Pop
  <2>2. Len(wave') = Len(wave) \/ (Len(wave') = Len(wave) + 1 /\ WaveHasRoom)
    BY <1>10, Longer DEF Pop, CrawlInv, Shape
  <2> QED
    BY <1>0, <2>1, <2>2 DEF WithinBudget, WaveHasRoom
<1>4. CASE AddSource
  <2>1. wave' = wave /\ crawled' = crawled /\ pc = "sources" /\ pc' \in {"sources", "fetch"}
    BY <1>4 DEF AddSource
  <2> QED
    BY <1>0, <2>1 DEF WithinBudget
<1>5. CASE FetchWave
  <2>1. wave' = wave /\ crawled' = crawled /\ at' = at /\ pc = "fetch" /\ pc' = "take" /\ at = 1
    BY <1>5 DEF FetchWave, CrawlInv, Ledger
  <2> QED
    BY <1>0, <2>1 DEF WithinBudget
<1>6. CASE TakeFailure \/ TakePage
  <2>1. /\ wave' = wave /\ crawled' = crawled + 1 /\ pc = "take"
        /\ \/ at < Len(wave) /\ at' = at + 1 /\ pc' = "take"
           \/ ~ (at < Len(wave)) /\ at' = at /\ pc' = "decide"
           \/ at' = at /\ pc' \in {"result", "learn"}
    BY <1>6 DEF TakeFailure, TakePage, Advance
  <2>2. crawled + Len(wave) - at + 1 <= MaxPages /\ at <= Len(wave)
    BY <1>0, <2>1 DEF WithinBudget
  <2>3. crawled' <= MaxPages /\ Len(wave') = Len(wave)
    BY <1>0, <2>1, <2>2
  <2>4. CASE at' = at + 1 /\ pc' = "take"
    BY <1>0, <2>1, <2>2, <2>3, <2>4 DEF WithinBudget
  <2>5. CASE at' = at /\ pc' \in {"result", "learn"}
    BY <1>0, <2>1, <2>2, <2>3, <2>5 DEF WithinBudget
  <2>6. CASE pc' = "decide"
    BY <2>3, <2>6 DEF WithinBudget
  <2> QED
    BY <2>1, <2>4, <2>5, <2>6
<1>7. CASE AddResult
  <2>1. wave' = wave /\ crawled' = crawled /\ at' = at /\ pc = "result" /\ pc' = "learn"
    BY <1>7 DEF AddResult
  <2> QED
    BY <1>0, <2>1 DEF WithinBudget
<1>8. CASE Learn
  <2>1. /\ wave' = wave /\ crawled' = crawled /\ pc = "learn"
        /\ \/ at' = at + 1 /\ pc' = "take"
           \/ pc' = "decide"
    BY <1>8, LearnFrame
  <2>2. crawled + Len(wave) - at <= MaxPages /\ Len(wave') = Len(wave)
    BY <1>0, <2>1 DEF WithinBudget
  <2>3. CASE at' = at + 1 /\ pc' = "take"
    BY <1>0, <2>1, <2>2, <2>3 DEF WithinBudget
  <2>4. CASE pc' = "decide"
    BY <1>0, <2>1, <2>4 DEF WithinBudget
  <2> QED
    BY <2>1, <2>3, <2>4
<1>9. CASE RunAgain
  BY <1>9 DEF RunAgain, WithinBudget
<1> QED
  BY <1>1, <1>2, <1>3, <1>4, <1>5, <1>6, <1>7, <1>8, <1>9, <1>10 DEF Next, Step, Apart

\* Outside of Pop and AddSource the frontier is left alone, pushed to, or
\* emptied.
LEMMA FrontierMoves ==
    ASSUME CrawlInv, OrderInv, [Next]_vars, ~ NextWave, ~ Pop, ~ AddSource, ~ RunAgain
    PROVE  /\ UNCHANGED <<required, sources, base, wave>>
           /\ pc' \in {"pop", "sources"} => UNCHANGED <<pc, at, heap, seen, next>>
           /\ \/ UNCHANGED <<heap, seen, next>>
              \/ \E urls \in Seq(Urls) : \E places \in SUBSET DOMAIN urls : \E depth \in Nat :
                     Push(urls, places, depth)
<1> USE DEF rows, memory
<1>1. CASE UNCHANGED vars
  BY <1>1 DEF vars
<1>2. CASE Begin \/ EndLoop \/ Decide \/ Announce \/ Extract \/ Complete \/ Fail
  BY <1>2 DEF Begin, EndLoop, Decide, Announce, Extract, Complete, Fail
<1>3. CASE Search
  <2>1. UNCHANGED <<required, sources, base, wave>> /\ pc' \notin {"pop", "sources"}
    BY <1>3 DEF Search
  <2>2. PICK found \in Found : UNCHANGED <<heap, seen, next>> \/ Push(found, Hits(found), 0)
    BY <1>3 DEF Search
  <2>3. found \in Seq(Urls) /\ Hits(found) \in SUBSET DOMAIN found
    BY WebAssumption DEF Hits
  <2> QED
    BY <2>1, <2>2, <2>3
<1>4. CASE FetchWave \/ TakeFailure \/ TakePage \/ AddResult
  BY <1>4 DEF FetchWave, TakeFailure, TakePage, AddResult, Advance
<1>5. CASE Learn
  <2>1. UNCHANGED <<required, sources, base, wave>> /\ pc' \notin {"pop", "sources"} /\ pc = "learn"
    BY <1>5 DEF Learn, Advance
  <2> DEFINE urls == LinksOf(fetched[at])
  <2>2. UNCHANGED <<heap, seen, next>> \/ Push(urls, DOMAIN urls, wave[at].depth + 1)
    BY <1>5 DEF Learn
  <2>3. urls \in Seq(Urls)
    BY <2>1, WebAssumption DEF CrawlInv, Unlike, LinksOf
  <2>4. wave[at].depth + 1 \in Nat
    <3>1. at \in 1 .. Len(wave) /\ wave \in Seq(Candidates)
      BY <2>1, CrawlNumbers DEF OrderInv, FrontierInv, Unvisited
    <3>2. wave[at] \in Candidates
      BY <3>1
    <3> QED
      BY <3>2 DEF Candidates
  <2> HIDE DEF urls
  <2> QED
    BY <2>1, <2>2, <2>3, <2>4
<1> QED
  BY <1>1, <1>2, <1>3, <1>4, <1>5 DEF Next, Step

\* The attempt's sources when there is one more.
LEMMA OneMoreVisit ==
    ASSUME OrderInv, CrawlInv, AddSource
    PROVE  /\ wave[at] \in Candidates /\ sources' \in Seq(Urls) /\ Len(sources') = Len(sources) + 1
           /\ sources'[Len(sources) + 1] = wave[at].url
           /\ \A k \in 1 .. Len(sources) : sources'[k] = sources[k]
           /\ Visited' = Visited \cup {Key(wave[at])}
<1>1. sources \in Seq(Urls) /\ wave \in Seq(Candidates) /\ base.sources <= Len(sources)
  BY DEF OrderInv, FrontierInv, Unvisited
<1>2. /\ at \in 1 .. Len(wave) /\ sources' = Append(sources, wave[at].url) /\ base' = base
      /\ Len(sources) \in Nat /\ base.sources \in Nat
  BY CrawlNumbers DEF AddSource
<1>3. wave[at] \in Candidates /\ wave[at].url \in Urls
  <2>1. wave[at] \in Candidates
    BY <1>1, <1>2
  <2> QED
    BY <2>1 DEF Candidates
<1>4. /\ sources' \in Seq(Urls) /\ Len(sources') = Len(sources) + 1
      /\ sources'[Len(sources) + 1] = wave[at].url
      /\ \A k \in 1 .. Len(sources) : sources'[k] = sources[k]
  BY <1>1, <1>2, <1>3
<1>5. Visited' = Visited \cup {Key(wave[at])}
  <2>1. base'.sources + 1 .. Len(sources') = (base.sources + 1 .. Len(sources)) \cup {Len(sources) + 1}
    BY <1>1, <1>2, <1>4
  <2>2. \A k \in base.sources + 1 .. Len(sources) : sources'[k] = sources[k]
    BY <1>2, <1>4
  <2>3. Visited' = {Norm[sources'[k]] : k \in base'.sources + 1 .. Len(sources')}
    BY DEF Visited
  <2> QED
    BY <1>4, <2>1, <2>2, <2>3 DEF Visited, Key
<1> QED
  BY <1>3, <1>4, <1>5

\* A wave begins with nothing in it.
LEMMA OrderWave ==
    ASSUME CrawlInv, OrderInv, NextWave
    PROVE  Frontier' /\ Unvisited'
<1>1. UNCHANGED <<required, sources, base, heap, seen, next>> /\ wave' = << >> /\ at' = 1
  BY DEF NextWave, rows
<1>2. Frontier /\ Unvisited
  BY DEF OrderInv, FrontierInv
<1>3. Frontier'
  BY <1>1, <1>2 DEF Frontier, Key
<1>4. Visited' = Visited
  BY <1>1 DEF Visited
<1>5. 1 .. Len(<< >>) = {} /\ << >> \in Seq(Candidates)
  OBVIOUS
<1>6. Unvisited'
  BY <1>1, <1>2, <1>4, <1>5 DEF Unvisited, Key
<1> QED
  BY <1>3, <1>6

\* A candidate goes from the frontier to the wave, or the wave is ready.
LEMMA OrderPop ==
    ASSUME CrawlInv, OrderInv, Pop
    PROVE  Frontier' /\ Unvisited'
<1>1. UNCHANGED <<required, sources, base, seen, next, at>> /\ pc = "pop"
  BY DEF Pop, rows
<1>2. Frontier /\ Unvisited /\ at = 1
  BY <1>1 DEF CrawlInv, Ledger, OrderInv, FrontierInv
<1>3. Visited' = Visited
  BY <1>1 DEF Visited
<1>4. CASE UNCHANGED <<heap, wave>>
  BY <1>1, <1>2, <1>3, <1>4 DEF Frontier, Unvisited, Key
<1>5. ASSUME NEW c \in heap, heap' = heap \ {c}, wave' = Append(wave, c)
      PROVE  Frontier' /\ Unvisited'
  <2>1. Frontier'
    BY <1>1, <1>2, <1>5 DEF Frontier, Key
  <2>2. /\ c \in Candidates /\ Key(c) \in seen /\ Key(c) \notin Visited
        /\ \A d \in heap' : d \in heap /\ Key(d) # Key(c)
        /\ \A d \in heap : d = c \/ d \in heap'
    BY <1>2, <1>5 DEF Frontier, Unvisited
  <2>3. /\ wave \in Seq(Candidates) /\ Len(wave) \in Nat
        /\ \A i \in 1 .. Len(wave) :
               /\ Key(wave[i]) \in seen /\ Key(wave[i]) \notin Visited
               /\ \A d \in heap : Key(d) # Key(wave[i])
               /\ \A j \in 1 .. Len(wave) : i # j => Key(wave[j]) # Key(wave[i])
    BY <1>1, <1>2 DEF Unvisited
  <2>4. /\ wave' \in Seq(Candidates) /\ Len(wave') = Len(wave) + 1
        /\ wave'[Len(wave) + 1] = c
        /\ \A i \in 1 .. Len(wave) : wave'[i] = wave[i]
    BY <1>5, <2>2, <2>3
  <2>5. \A i \in 1 .. Len(wave') : i \in 1 .. Len(wave) \/ i = Len(wave) + 1
    BY <2>3, <2>4
  <2>6. ASSUME NEW i \in 1 .. Len(wave')
        PROVE  /\ Key(wave'[i]) \in seen \ Visited
               /\ \A d \in heap' : Key(d) # Key(wave'[i])
               /\ \A j \in 1 .. Len(wave') : i # j => Key(wave'[j]) # Key(wave'[i])
    BY <1>5, <2>2, <2>3, <2>4, <2>5
  <2>7. sources' \in Seq(Urls) /\ base'.sources <= Len(sources')
    BY <1>1, <1>2 DEF Unvisited
  <2>8. \A v \in Visited' : v \in seen' /\ \A d \in heap' : Key(d) # v
    BY <1>1, <1>2, <1>3, <2>2 DEF Unvisited
  <2>9. at' = 1 /\ seen' = seen
    BY <1>1, <1>2
  <2> QED
    BY <1>3, <2>1, <2>4, <2>6, <2>7, <2>8, <2>9 DEF Unvisited, Key
<1> QED
  BY <1>4, <1>5 DEF Pop, HeapPop

\* A candidate of the wave becomes a visit.
LEMMA OrderVisit ==
    ASSUME CrawlInv, OrderInv, AddSource
    PROVE  Frontier' /\ Unvisited'
<1>1. /\ UNCHANGED <<required, base, heap, seen, next, wave>> /\ pc = "sources"
      /\ \/ at' = at + 1 /\ pc' = "sources"
         \/ pc' = "fetch"
  BY DEF AddSource
<1>2. Frontier /\ Unvisited
  BY DEF OrderInv, FrontierInv
<1>3. Frontier'
  BY <1>1, <1>2 DEF Frontier, Key
<1>5. /\ sources' \in Seq(Urls) /\ Len(sources') = Len(sources) + 1
      /\ Visited' = Visited \cup {Key(wave[at])}
  BY OneMoreVisit
<1>6. at \in 1 .. Len(wave) /\ Len(wave) \in Nat /\ Len(sources) \in Nat
      /\ base.sources \in Nat
  BY <1>1, CrawlNumbers
<1>7. base'.sources <= Len(sources')
  BY <1>1, <1>2, <1>5, <1>6 DEF Unvisited
<1>8. \A v \in Visited' : v \in seen' /\ \A c \in heap' : Key(c) # v
  BY <1>1, <1>2, <1>5, <1>6 DEF Unvisited
<1>9. ASSUME NEW i \in at + 1 .. Len(wave)
      PROVE  /\ Key(wave[i]) \in seen \ Visited'
             /\ \A c \in heap : Key(c) # Key(wave[i])
             /\ \A j \in at + 1 .. Len(wave) : i # j => Key(wave[j]) # Key(wave[i])
  <2>1. i \in at .. Len(wave) /\ at \in at .. Len(wave) /\ i # at
        /\ at + 1 .. Len(wave) \subseteq at .. Len(wave)
    BY <1>6
  <2>2. /\ Key(wave[i]) \in seen \ Visited
        /\ \A c \in heap : Key(c) # Key(wave[i])
        /\ \A j \in at .. Len(wave) : i # j => Key(wave[j]) # Key(wave[i])
    BY <1>1, <1>2, <2>1 DEF Unvisited
  <2> QED
    BY <1>5, <2>1, <2>2
<1>10. Unvisited'
  <2>1. wave' = wave /\ heap' = heap /\ seen' = seen /\ wave \in Seq(Candidates)
    BY <1>1, <1>2 DEF Unvisited
  <2>2. CASE pc' = "fetch"
    BY <1>5, <1>7, <1>8, <2>1, <2>2 DEF Unvisited, Key
  <2>3. CASE at' = at + 1 /\ pc' = "sources"
    BY <1>5, <1>7, <1>8, <1>9, <2>1, <2>3 DEF Unvisited, Key
  <2> QED
    BY <1>1, <2>2, <2>3
<1> QED
  BY <1>3, <1>10

\* Whatever else happens, the frontier gets only what is new to it.
LEMMA OrderMove ==
    ASSUME CrawlInv, OrderInv, [Next]_vars, ~ NextWave, ~ Pop, ~ AddSource, ~ RunAgain
    PROVE  Frontier' /\ Unvisited'
<1>1. /\ UNCHANGED <<required, sources, base, wave>>
      /\ pc' \in {"pop", "sources"} => UNCHANGED <<pc, at, heap, seen, next>>
  BY FrontierMoves
<1>2. Frontier /\ Unvisited
  BY DEF OrderInv, FrontierInv
<1>3. /\ Frontier' /\ seen \subseteq seen'
      /\ \A c \in heap' : c \in heap \/ Key(c) \notin seen
  <2>1. CASE UNCHANGED <<heap, seen, next>>
    BY <1>2, <2>1 DEF Frontier, Key
  <2>2. CASE \E urls \in Seq(Urls) : \E places \in SUBSET DOMAIN urls : \E depth \in Nat :
                Push(urls, places, depth)
    BY <1>2, <2>2, PushNew
  <2> QED
    BY <2>1, <2>2, FrontierMoves
<1>4. Visited' = Visited
  BY <1>1 DEF Visited
<1>5. \A v \in Visited' : v \in seen' /\ \A c \in heap' : Key(c) # v
  BY <1>2, <1>3, <1>4 DEF Unvisited
<1>6. CASE pc' \in {"pop", "sources"}
  <2>1. UNCHANGED <<required, sources, base, wave, pc, at, heap, seen, next>>
    BY <1>1, <1>6
  <2>2. Unvisited'
    BY <1>2, <1>4, <2>1 DEF Unvisited, Key
  <2> QED
    BY <1>3, <2>2
<1>7. CASE pc' \notin {"pop", "sources"}
  <2>1. Unvisited'
    BY <1>1, <1>2, <1>5, <1>7 DEF Unvisited, Key
  <2> QED
    BY <1>3, <2>1
<1> QED
  BY <1>6, <1>7

\* A new attempt has visited nothing, and its frontier is empty.
LEMMA OrderAgain ==
    ASSUME CrawlInv, OrderInv, RunAgain
    PROVE  Frontier' /\ Unvisited'
<1>1. /\ UNCHANGED sources /\ base'.sources = Len(sources) /\ pc' = "begin"
      /\ heap' = {} /\ next' = 0 /\ wave' = << >>
  BY DEF RunAgain, rows
<1>2. sources \in Seq(Urls) /\ Len(sources) \in Nat
  BY DEF OrderInv, FrontierInv, Unvisited
<1>3. Visited' = {}
  <2>1. Len(sources) + 1 .. Len(sources) = {}
    BY <1>2
  <2>2. Visited' = {Norm[sources'[k]] : k \in Len(sources) + 1 .. Len(sources)}
    BY <1>1 DEF Visited
  <2> QED
    BY <2>1, <2>2
<1>4. Frontier'
  BY <1>1 DEF Frontier
<1>5. Unvisited'
  BY <1>1, <1>2, <1>3 DEF Unvisited
<1> QED
  BY <1>4, <1>5

\* The order of the frontier is kept.
LEMMA OrderStep ==
    ASSUME CrawlInv, OrderInv, [Next]_vars
    PROVE  OrderInv'
<1>1. Frontier' /\ Unvisited'
  BY OrderWave, OrderPop, OrderVisit, OrderMove, OrderAgain
<1>2. required' = required
  <2>1. ~ NextWave /\ ~ Pop /\ ~ AddSource /\ ~ RunAgain => required' = required
    BY FrontierMoves
  <2> QED
    BY <2>1 DEF NextWave, Pop, AddSource, RunAgain
<1> QED
  BY <1>1, <1>2, BudgetStep DEF OrderInv, FrontierInv

\* The frontier starts empty.
LEMMA OrderInit == Init => OrderInv
<1> SUFFICES ASSUME Init
             PROVE  OrderInv
  OBVIOUS
<1>1. Visited = {}
  BY DEF Init, Visited
<1> QED
  BY <1>1 DEF Init, OrderInv, FrontierInv, Frontier, Unvisited, WithinBudget

\* What the frontier, the wave and the visits are at any time.
LEMMA OrderInvariance == Spec => [](CrawlInv /\ OrderInv)
<1>1. Init => CrawlInv /\ OrderInv
  BY CrawlInit, OrderInit
<1>2. CrawlInv /\ OrderInv /\ [Next]_vars => (CrawlInv /\ OrderInv)'
  BY ShapeStep, LedgerStep, UnlikeStep, OrderStep DEF CrawlInv
<1> QED
  BY <1>1, <1>2, PTL DEF Spec

-----------------------------------------------------------------------------
(* What a crawl leaves. *)

\* The candidates a wave has taken that have no source yet.
Waiting == IF pc \in {"pop", "sources"} THEN {wave[i] : i \in at .. Len(wave)} ELSE {}

\* Every key that is remembered is visited, or will be: while the attempt
\* lasts its candidate is in the frontier or waits in the wave.
Covered ==
    pc # "done" => \A k \in seen : k \in Visited \/ \E c \in heap \cup Waiting : Key(c) = k

LinkKeys(c) == {Norm[Page[c].links[l]] : l \in DOMAIN Page[c].links}

\* The last page, until it has been learned from.
InHand == IF pc \in {"result", "learn"} THEN 1 ELSE 0

\* While budget is left, the links of every page that was learned from are
\* remembered.
Led ==
    /\ pc \in {"result", "learn"} => Len(pages) > 0 /\ pages[Len(pages)].content = fetched[at]
    /\ pc # "done" /\ crawled < MaxPages =>
           \A i \in base.pages + 1 .. Len(pages) - InHand :
               pages[i].content # Failure => LinkKeys(pages[i].content) \subseteq seen

\* The loop ends without a reason only when the frontier or the budget has.
Exhausted ==
    /\ pc \in {"begin", "search"} => heap = {}
    /\ pc = "stopped" => stop # None
    /\ pc \in {"extract", "complete"} /\ stop = None => heap = {} \/ crawled >= MaxPages

CoverInv == Covered /\ Led /\ Exhausted

\* Every key that is pushed gets a candidate, at the first of its places.
LEMMA PushCovers ==
    ASSUME NEW urls \in Seq(Urls), NEW places \in SUBSET DOMAIN urls, NEW depth,
           Push(urls, places, depth)
    PROVE  /\ heap \subseteq heap'
           /\ seen' = seen \cup {Norm[urls[i]] : i \in places}
           /\ \A k \in seen' \ seen : \E c \in heap' : Key(c) = k
<1>1. /\ heap' = heap \cup {[url |-> urls[i], depth |-> depth, seq |-> next + i] : i \in NewAt(urls, places)}
      /\ seen' = seen \cup {Norm[urls[i]] : i \in places}
  BY DEF Push
<1>2. ASSUME NEW k \in seen' \ seen
      PROVE  \E c \in heap' : Key(c) = k
  <2> DEFINE Same == {i \in places : Norm[urls[i]] = k}
  <2>1. Same # {} /\ Same \in SUBSET Nat
    BY <1>1, <1>2
  <2>2. PICK i \in Same : \A h \in Same : ~ (h < i)
    <3> HIDE DEF Same
    <3> QED
      BY <2>1, SmallestExists
  <2>3. i \in NewAt(urls, places)
    <3>1. \A h \in places : h < i => Norm[urls[h]] # Norm[urls[i]]
      BY <2>1, <2>2
    <3> QED
      BY <1>2, <2>2, <3>1 DEF NewAt
  <2> DEFINE c == [url |-> urls[i], depth |-> depth, seq |-> next + i]
  <2>4. c \in heap'
    BY <1>1, <2>3
  <2>5. Key(c) = k
    BY <2>2 DEF Key
  <2> QED
    BY <2>4, <2>5
<1> QED
  BY <1>1, <1>2

\* Outside of the waves, what is remembered gets a candidate and keeps it.
LEMMA CoverMove ==
    ASSUME CrawlInv, OrderInv, Covered, [Next]_vars,
           ~ NextWave, ~ Pop, ~ AddSource, ~ RunAgain
    PROVE  Covered' /\ seen \subseteq seen'
<1>1. UNCHANGED <<sources, base, wave>>
  BY FrontierMoves
<1>2. Visited' = Visited
  BY <1>1 DEF Visited
<1>3. pc' # "done" => pc # "done" /\ Waiting' = Waiting
  <2>1. CASE UNCHANGED vars
    BY <2>1 DEF vars, memory, Waiting
  <2>2. CASE Begin \/ EndLoop \/ Decide \/ Announce \/ Extract \/ Complete \/ Fail \/ Search
    BY <2>2 DEF Begin, Search, EndLoop, Decide, Announce, Extract, Complete, Fail, Waiting
  <2>3. CASE FetchWave \/ TakeFailure \/ TakePage \/ AddResult \/ Learn
    BY <2>3 DEF FetchWave, TakeFailure, TakePage, AddResult, Learn, Advance, Waiting
  <2> QED
    BY <2>1, <2>2, <2>3 DEF Next, Step
<1>4. /\ heap \subseteq heap' /\ seen \subseteq seen'
      /\ \A k \in seen' \ seen : \E c \in heap' : Key(c) = k
  <2>1. CASE UNCHANGED <<heap, seen, next>>
    BY <2>1
  <2>2. CASE \E urls \in Seq(Urls) : \E places \in SUBSET DOMAIN urls : \E depth \in Nat :
                Push(urls, places, depth)
    BY <2>2, PushCovers
  <2> QED
    BY <2>1, <2>2, FrontierMoves
<1> HIDE DEF Waiting
<1>5. ASSUME pc' # "done", NEW k \in seen'
      PROVE  k \in Visited' \/ \E c \in heap' \cup Waiting' : Norm[c.url] = k
  BY <1>2, <1>3, <1>4, <1>5 DEF Covered, Key
<1>6. Covered'
  BY <1>5 DEF Covered, Key
<1> QED
  BY <1>4, <1>6

\* A candidate goes from the frontier to the wave, and from the wave to the
\* visits.
LEMMA CoverWave ==
    ASSUME CrawlInv, OrderInv, Covered, NextWave \/ Pop \/ AddSource
    PROVE  Covered' /\ seen' = seen
<1>0. /\ Len(wave) \in Nat /\ at \in Nat \ {0} /\ seen' = seen /\ pc # "done"
      /\ wave \in Seq(Candidates)
  BY CrawlNumbers DEF NextWave, Pop, AddSource, OrderInv, FrontierInv, Unvisited
<1>1. CASE NextWave
  <2>1. UNCHANGED <<sources, base, heap>> /\ pc = "loop"
    BY <1>1 DEF NextWave, rows
  <2>2. Visited' = Visited /\ Waiting = {}
    BY <2>1 DEF Visited, Waiting
  <2> HIDE DEF Waiting
  <2>3. \A k \in seen' : k \in Visited' \/ \E c \in heap' \cup Waiting' : Norm[c.url] = k
    BY <1>0, <2>1, <2>2 DEF Covered, Key
  <2> QED
    BY <1>0, <2>3 DEF Covered, Key
<1>2. CASE Pop
  <2>1. UNCHANGED <<sources, base, at>> /\ pc = "pop" /\ pc' \in {"pop", "sources"} /\ at = 1
    BY <1>2 DEF Pop, rows, CrawlInv, Ledger
  <2>2. Visited' = Visited
    BY <2>1 DEF Visited
  <2>3. heap \cup Waiting \subseteq heap' \cup Waiting'
    <3>1. CASE UNCHANGED <<heap, wave>>
      BY <2>1, <3>1 DEF Waiting
    <3>2. ASSUME NEW c \in heap, heap' = heap \ {c}, wave' = Append(wave, c)
          PROVE  heap \cup Waiting \subseteq heap' \cup Waiting'
      <4>1. Len(wave') = Len(wave) + 1 /\ wave'[Len(wave) + 1] = c
            /\ \A i \in 1 .. Len(wave) : wave'[i] = wave[i]
        BY <1>0, <3>2
      <4>2. c \in Waiting'
        BY <1>0, <2>1, <4>1 DEF Waiting
      <4>3. Waiting \subseteq Waiting'
        BY <1>0, <2>1, <4>1 DEF Waiting
      <4> HIDE DEF Waiting
      <4> QED
        BY <3>2, <4>2, <4>3
    <3> QED
      BY <1>2, <3>1, <3>2 DEF Pop, HeapPop
  <2> HIDE DEF Waiting
  <2>4. \A k \in seen' : k \in Visited' \/ \E c \in heap' \cup Waiting' : Norm[c.url] = k
    BY <1>0, <2>2, <2>3 DEF Covered, Key
  <2> QED
    BY <1>0, <2>1, <2>4 DEF Covered, Key
<1>3. CASE AddSource
  <2>1. /\ UNCHANGED <<base, heap, wave>> /\ pc = "sources" /\ at <= Len(wave)
        /\ \/ at' = at + 1 /\ pc' = "sources"
           \/ at = Len(wave) /\ pc' = "fetch"
    BY <1>0, <1>3, CrawlNumbers DEF AddSource
  <2>2. Visited' = Visited \cup {Key(wave[at])}
    BY <1>3, OneMoreVisit
  <2>3. \A c \in Waiting : c = wave[at] \/ c \in Waiting'
    <3>1. CASE at' = at + 1 /\ pc' = "sources"
      BY <1>0, <2>1, <3>1 DEF Waiting
    <3>2. CASE at = Len(wave)
      BY <1>0, <2>1, <3>2 DEF Waiting
    <3> QED
      BY <2>1, <3>1, <3>2
  <2> HIDE DEF Waiting
  <2>4. \A k \in seen' : k \in Visited' \/ \E c \in heap' \cup Waiting' : Norm[c.url] = k
    BY <1>0, <2>1, <2>2, <2>3 DEF Covered, Key
  <2> QED
    BY <1>0, <2>1, <2>4 DEF Covered, Key
<1> QED
  BY <1>0, <1>1, <1>2, <1>3

\* Nothing that is remembered gets lost while the attempt lasts.
LEMMA CoveredStep ==
    ASSUME CrawlInv, OrderInv, Covered, [Next]_vars
    PROVE  Covered' /\ (~ RunAgain => seen \subseteq seen')
<1>1. CASE RunAgain
  BY <1>1 DEF RunAgain, Covered
<1> QED
  BY <1>1, CoverMove, CoverWave

\* Learning from a page remembers its links; the other steps have no page in
\* hand or keep it there.
LEMMA LedStep ==
    ASSUME CrawlInv, OrderInv, Covered, Led, [Next]_vars
    PROVE  Led'
<1> USE DEF rows, memory
<1>0. /\ Len(pages) \in Nat /\ base.pages \in Nat /\ crawled \in Nat /\ Len(wave) \in Nat
      /\ at \in Nat \ {0} /\ pages \in Seq([source : Int, content : Contents \cup {Failure}])
  BY CrawlNumbers DEF CrawlInv, Shape
<1>1. CASE RunAgain
  <2>1. pages' = pages /\ base'.pages = Len(pages) /\ pc' = "begin"
    BY <1>1 DEF RunAgain
  <2>2. \A i \in base'.pages + 1 .. Len(pages') - InHand' : FALSE
    BY <1>0, <2>1 DEF InHand
  <2> QED
    BY <2>1, <2>2 DEF Led
<1>2. CASE TakeFailure \/ TakePage
  <2> DEFINE n == Len(pages)
             old == base.pages + 1 .. n
             page == [source |-> SourceOf(at), content |-> fetched[at]]
  <2>1. /\ pages' = Append(pages, page) /\ base' = base /\ crawled' = crawled + 1 /\ pc = "take"
        /\ fetched' = fetched
        /\ seen' = seen
        /\ \/ fetched[at] = Failure /\ pc' \in {"take", "decide"}
           \/ pc' \in {"result", "learn"} /\ at' = at
    BY <1>2 DEF TakeFailure, TakePage, Advance
  <2>2. n + 1 = Len(pages') /\ pages'[n + 1].content = fetched[at] /\ \A i \in 1 .. n : pages'[i] = pages[i]
    <3>1. Len(pages') = n + 1 /\ pages'[n + 1] = page /\ \A i \in 1 .. n : pages'[i] = pages[i]
      BY <1>0, <2>1, AppendProperties
    <3> QED
      BY <3>1
  <2>3. ASSUME crawled' < MaxPages
        PROVE  \A i \in old : pages[i].content # Failure => LinkKeys(pages[i].content) \subseteq seen
    <3>1. crawled < MaxPages /\ InHand = 0 /\ pc # "done"
      BY <1>0, <2>1, <2>3 DEF InHand
    <3>2. n - 0 = n
      BY <1>0
    <3> QED
      BY <3>1, <3>2 DEF Led
  <2>4. \A i \in old : i \in 1 .. n
    BY <1>0
  <2>5. CASE fetched[at] = Failure /\ pc' \in {"take", "decide"}
    <3>1. InHand' = 0
      BY <2>5 DEF InHand
    <3>2. \A i \in base'.pages + 1 .. Len(pages') - InHand' : i \in old \/ i = n + 1
      BY <1>0, <2>1, <2>2, <3>1
    <3>3. ASSUME crawled' < MaxPages, NEW i \in base'.pages + 1 .. Len(pages') - InHand',
                 pages'[i].content # Failure
          PROVE  LinkKeys(pages'[i].content) \subseteq seen'
      BY <2>1, <2>2, <2>3, <2>4, <2>5, <3>2, <3>3
    <3> QED
      BY <2>5, <3>3 DEF Led, LinkKeys
  <2>6. CASE pc' \in {"result", "learn"} /\ at' = at
    <3>1. InHand' = 1
      BY <2>6 DEF InHand
    <3>2. \A i \in base'.pages + 1 .. Len(pages') - InHand' : i \in old
      BY <1>0, <2>1, <2>2, <3>1
    <3>3. ASSUME crawled' < MaxPages, NEW i \in base'.pages + 1 .. Len(pages') - InHand',
                 pages'[i].content # Failure
          PROVE  LinkKeys(pages'[i].content) \subseteq seen'
      BY <2>1, <2>2, <2>3, <2>4, <3>2, <3>3
    <3>4. Len(pages') > 0 /\ pages'[Len(pages')].content = fetched'[at']
      BY <1>0, <2>1, <2>2, <2>6
    <3> QED
      BY <3>3, <3>4 DEF Led, LinkKeys
  <2> QED
    BY <2>1, <2>5, <2>6
<1>3. CASE Learn
  <2>1. /\ UNCHANGED <<pages, base, crawled, fetched>> /\ pc = "learn" /\ pc' \in {"take", "decide"}
    BY <1>3 DEF Learn, Advance
  <2>2. seen \subseteq seen'
    BY <1>3, CoverMove DEF Learn, NextWave, Pop, AddSource, RunAgain
  <2>3. InHand = 1 /\ InHand' = 0 /\ Len(pages) > 0 /\ pages[Len(pages)].content = fetched[at]
    BY <2>1 DEF InHand, Led
  <2>4. ASSUME crawled < MaxPages
        PROVE  LinkKeys(fetched[at]) \subseteq seen'
    <3>1. fetched[at] \in Contents
      BY <2>1 DEF CrawlInv, Unlike
    <3>2. LinksOf(fetched[at]) \in Seq(Urls)
      BY <3>1, WebAssumption DEF LinksOf
    <3>3. Push(LinksOf(fetched[at]), DOMAIN LinksOf(fetched[at]), wave[at].depth + 1)
      BY <1>3, <2>4 DEF Learn
    <3>4. seen' = seen \cup {Norm[LinksOf(fetched[at])[i]] : i \in DOMAIN LinksOf(fetched[at])}
      BY <3>3 DEF Push
    <3> QED
      BY <3>4 DEF LinkKeys, LinksOf
  <2>5. ASSUME crawled < MaxPages, NEW i \in base.pages + 1 .. Len(pages), pages[i].content # Failure
        PROVE  LinkKeys(pages[i].content) \subseteq seen'
    <3>1. CASE i = Len(pages)
      BY <2>3, <2>4, <2>5, <3>1
    <3>2. CASE i # Len(pages)
      <4>1. i \in base.pages + 1 .. Len(pages) - InHand
        BY <1>0, <2>3, <2>5, <3>2
      <4>2. LinkKeys(pages[i].content) \subseteq seen
        BY <2>1, <2>5, <4>1 DEF Led
      <4> QED
        BY <2>2, <4>2
    <3> QED
      BY <3>1, <3>2
  <2>6. base'.pages + 1 .. Len(pages') - InHand' = base.pages + 1 .. Len(pages)
    BY <1>0, <2>1, <2>3
  <2>7. pages' = pages /\ crawled' = crawled /\ pc' \notin {"result", "learn"}
    BY <2>1
  <2>8. \A i \in base'.pages + 1 .. Len(pages') - InHand' :
            crawled' < MaxPages /\ pages'[i].content # Failure =>
                LinkKeys(pages'[i].content) \subseteq seen'
    BY <2>5, <2>6, <2>7
  <2> QED
    BY <2>7, <2>8 DEF Led, LinkKeys
<1>4. ASSUME \/ Begin \/ Search \/ NextWave \/ Pop \/ EndLoop \/ AddSource \/ FetchWave \/ AddResult
             \/ Decide \/ Announce \/ Extract \/ Complete \/ UNCHANGED vars,
             ~ RunAgain
      PROVE  Led'
  <2>1. UNCHANGED <<pages, base, crawled>>
    BY <1>4 DEF vars, Begin, Search, NextWave, Pop, EndLoop, AddSource, FetchWave, AddResult, Decide,
                Announce, Extract, Complete
  <2>2. /\ pc' \in {"result", "learn"} => pc \in {"result", "learn"} /\ UNCHANGED <<fetched, at>>
        /\ InHand' = InHand
        /\ pc' # "done" => pc # "done"
    BY <1>4 DEF vars, Begin, Search, NextWave, Pop, EndLoop, AddSource, FetchWave, AddResult, Decide,
                Announce, Extract, Complete, InHand
  <2>3. seen \subseteq seen'
    BY <1>4, CoveredStep
  <2>4. ASSUME pc' # "done", crawled' < MaxPages, NEW i \in base'.pages + 1 .. Len(pages') - InHand',
               pages'[i].content # Failure
        PROVE  LinkKeys(pages'[i].content) \subseteq seen'
    <3>1. LinkKeys(pages[i].content) \subseteq seen
      BY <2>1, <2>2, <2>4 DEF Led
    <3> QED
      BY <2>1, <2>3, <3>1
  <2>5. pc' \in {"result", "learn"} => Len(pages') > 0 /\ pages'[Len(pages')].content = fetched'[at']
    BY <2>1, <2>2 DEF Led
  <2> QED
    BY <2>4, <2>5 DEF Led, LinkKeys
<1>5. CASE Fail
  BY <1>5 DEF Fail, Led
<1> QED
  BY <1>1, <1>2, <1>3, <1>4, <1>5 DEF Next, Step

\* A crawl that ends without a reason has nothing left in its frontier.
LEMMA ExhaustedStep ==
    ASSUME CrawlInv, Exhausted, [Next]_vars
    PROVE  Exhausted'
<1>1. CASE UNCHANGED vars
  BY <1>1 DEF vars, memory, Exhausted
<1>2. CASE Begin \/ EndLoop \/ Announce \/ Extract \/ Complete \/ Fail \/ RunAgain
  BY <1>2 DEF Begin, EndLoop, Announce, Extract, Complete, Fail, RunAgain, memory, Exhausted
<1>3. CASE Search
  BY <1>3 DEF Search, Exhausted
<1>4. CASE NextWave \/ Pop \/ AddSource \/ FetchWave
  BY <1>4 DEF NextWave, Pop, AddSource, FetchWave, Exhausted
<1>5. CASE TakeFailure \/ TakePage \/ AddResult \/ Learn
  BY <1>5 DEF TakeFailure, TakePage, AddResult, Learn, Advance, Exhausted
<1>6. CASE Decide
  BY <1>6 DEF Decide, Exhausted
<1> QED
  BY <1>1, <1>2, <1>3, <1>4, <1>5, <1>6 DEF Next, Step

\* At first nothing is remembered.
LEMMA CoverInit == Init => CoverInv
<1> SUFFICES ASSUME Init
             PROVE  CoverInv
  OBVIOUS
<1>1. seen = {} /\ heap = {} /\ pc = "begin" /\ base.pages = 0 /\ Len(pages) = 0
  BY DEF Init
<1>2. \A i \in base.pages + 1 .. Len(pages) - InHand : FALSE
  BY <1>1 DEF InHand
<1> QED
  BY <1>1, <1>2 DEF CoverInv, Covered, Led, Exhausted

\* Where every remembered key is.
LEMMA CoverInvariance == Spec => [](CrawlInv /\ OrderInv /\ CoverInv)
<1>1. Init => CrawlInv /\ OrderInv /\ CoverInv
  BY CrawlInit, OrderInit, CoverInit
<1>2. CrawlInv /\ OrderInv /\ CoverInv /\ [Next]_vars => (CrawlInv /\ OrderInv /\ CoverInv)'
  BY ShapeStep, LedgerStep, UnlikeStep, OrderStep, CoveredStep, LedStep, ExhaustedStep
     DEF CrawlInv, CoverInv
<1> QED
  BY <1>1, <1>2, PTL DEF Spec

\* A crawl that ends with budget left and without a reason to stop has visited
\* everything its pages led to: for any web, any waves and any attempt.
THEOREM CrawlsLeaveNothing == Spec => []NothingIsLeft
<1>1. CrawlInv /\ OrderInv /\ CoverInv => NothingIsLeft
  <2> SUFFICES ASSUME CrawlInv, OrderInv, CoverInv,
                      pc \in {"extract", "complete"}, stop = None, crawled < MaxPages,
                      NEW i \in base.pages + 1 .. Len(pages), pages[i].content # Failure,
                      NEW l \in DOMAIN Page[pages[i].content].links
               PROVE  \E k \in DOMAIN Path : Path[k] = Norm[Page[pages[i].content].links[l]]
    BY DEF NothingIsLeft
  <2> DEFINE key == Norm[Page[pages[i].content].links[l]]
  <2>1. Len(pages) \in Nat /\ crawled \in Nat /\ Len(sources) \in Nat /\ base.sources \in Nat
    BY CrawlNumbers
  <2>2. heap = {} /\ Waiting = {}
    BY <2>1 DEF CoverInv, Exhausted, Waiting
  <2>3. key \in LinkKeys(pages[i].content)
    BY DEF LinkKeys
  <2>4. InHand = 0 /\ Len(pages) - 0 = Len(pages)
    BY <2>1 DEF InHand
  <2>5. LinkKeys(pages[i].content) \subseteq seen
    BY <2>4 DEF CoverInv, Led
  <2>6. key \in Visited
    BY <2>2, <2>3, <2>5 DEF CoverInv, Covered
  <2>7. PICK k \in base.sources + 1 .. Len(sources) : key = Norm[sources[k]]
    BY <2>6 DEF Visited
  <2>8. /\ k - base.sources \in 1 .. Len(sources) - base.sources
        /\ base.sources + (k - base.sources) = k
    BY <2>1
  <2>9. k - base.sources \in DOMAIN Path /\ Path[k - base.sources] = key
    BY <2>7, <2>8 DEF Path
  <2> QED
    BY <2>9
<1> QED
  BY CoverInvariance, <1>1, PTL

-----------------------------------------------------------------------------
(* Why a crawl stops. *)

\* The pages the attempt has learned from: all that it has stored, or all but
\* the last.
Learned == IF pc \in {"result", "learn"} THEN crawled - 1 ELSE crawled

Measured ==
    pc # "done" =>
        /\ Learned \in Nat
        /\ satisfied = FoundBy(Learned)
        /\ streak \in 0 .. Learned /\ FoundBy(Learned - streak) = FoundBy(Learned)
        /\ pc \in {"result", "learn"} => pages[Len(pages)].content = fetched[at]

\* A reason is given where a wave ends, and is true there and from then on.
Stopped ==
    /\ StopIsJustified
    /\ stop # None => pc \in {"stopped", "extract", "complete", "done"}
    /\ pc = "stopped" => stop # None

StopInv == Measured /\ Stopped

\* The attributes of the pages a to b of the attempt, as a set of elements.
LEMMA FoundMember ==
    ASSUME NEW n \in Int, NEW x
    PROVE  x \in FoundBy(n) <=>
               /\ x \in required
               /\ \E j \in 1 .. n : /\ pages[base.pages + j].content # Failure
                                    /\ x \in Page[pages[base.pages + j].content].attrs
  BY DEF FoundBy

\* More pages contain no less.
LEMMA FoundGrows ==
    ASSUME NEW m \in Int, NEW n \in Int, m <= n
    PROVE  FoundBy(m) \subseteq FoundBy(n)
<1>1. 1 .. m \subseteq 1 .. n
  OBVIOUS
<1> SUFFICES ASSUME NEW x \in FoundBy(m)
             PROVE  x \in FoundBy(n)
  OBVIOUS
<1> QED
  BY <1>1, FoundMember

\* What the first n pages contain does not change when there are more.
LEMMA FoundKeeps ==
    ASSUME NEW n \in Int, UNCHANGED <<required, base>>,
           \A j \in 1 .. n : pages'[base.pages + j] = pages[base.pages + j]
    PROVE  FoundBy(n)' = FoundBy(n)
  BY DEF FoundBy

\* One page more adds what it contains, if it was read.
LEMMA FoundOneMore ==
    ASSUME NEW n \in Nat, NEW k \in Int, k = n + 1
    PROVE  FoundBy(k) = FoundBy(n) \cup
               (required \cap {x \in Page[pages[base.pages + k].content].attrs :
                                   pages[base.pages + k].content # Failure})
<1> DEFINE new == required \cap {x \in Page[pages[base.pages + k].content].attrs :
                                   pages[base.pages + k].content # Failure}
<1>1. 1 .. k = (1 .. n) \cup {k}
  OBVIOUS
<1>2. \A x : x \in FoundBy(k) <=> x \in FoundBy(n) \/ x \in new
  BY <1>1, FoundMember
<1> HIDE DEF new
<1>3. FoundBy(k) = FoundBy(n) \cup new
  BY <1>2
<1> QED
  BY <1>3 DEF new

\* The steps that take no page and learn nothing.
LEMMA MeasuredFrame ==
    ASSUME Measured, UNCHANGED <<required, pages, base, crawled, satisfied, streak>>,
           pc' = "done" \/ /\ pc # "done"
                           /\ pc' \in {"result", "learn"} <=> pc \in {"result", "learn"}
                           /\ pc \in {"result", "learn"} => UNCHANGED <<fetched, at>>
    PROVE  Measured'
<1>1. \A n \in Int : FoundBy(n)' = FoundBy(n)
  BY DEF FoundBy
<1>2. CASE pc' = "done"
  BY <1>2 DEF Measured
<1>3. CASE pc' # "done"
  <2>1. Learned' = Learned
    BY <1>3 DEF Learned
  <2>2. Learned \in Nat /\ streak \in 0 .. Learned /\ Learned - streak \in Int
    BY <1>3 DEF Measured
  <2>3. FoundBy(Learned)' = FoundBy(Learned)
    BY <2>1 DEF FoundBy
  <2>4. FoundBy(Learned - streak)' = FoundBy(Learned - streak)
    BY <2>1 DEF FoundBy
  <2> QED
    BY <1>3, <2>1, <2>2, <2>3, <2>4 DEF Measured
<1> QED
  BY <1>2, <1>3

\* A page that could not be read, or one still to be learned from.
LEMMA MeasuredTake ==
    ASSUME CrawlInv, Measured, TakeFailure \/ TakePage
    PROVE  Measured'
<1>1. /\ pages' = Append(pages, [source |-> SourceOf(at), content |-> fetched[at]])
      /\ UNCHANGED <<required, base, fetched, satisfied, results>> /\ crawled' = crawled + 1
      /\ pc = "take"
  BY DEF TakeFailure, TakePage
<1>2. /\ crawled \in Nat /\ base.pages \in Nat /\ Len(pages) \in Nat
      /\ Len(pages) = base.pages + crawled
  <2>1. crawled \in Nat /\ base.pages \in Nat /\ Len(pages) \in Nat
    BY CrawlNumbers
  <2>2. crawled = Len(pages) - base.pages
    BY DEF CrawlInv, Ledger, RowsMatch
  <2> QED
    BY <2>1, <2>2
<1>3. /\ satisfied = FoundBy(crawled)
      /\ streak \in 0 .. crawled /\ FoundBy(crawled - streak) = FoundBy(crawled)
  BY <1>1 DEF Measured, Learned
<1>4. /\ Len(pages') = Len(pages) + 1 /\ \A i \in 1 .. Len(pages) : pages'[i] = pages[i]
      /\ pages'[Len(pages) + 1].content = fetched[at]
  <2>1. PICK S : pages \in Seq(S)
    BY DEF CrawlInv, Shape
  <2> DEFINE p == [source |-> SourceOf(at), content |-> fetched[at]]
  <2>2. p.content = fetched[at]
    OBVIOUS
  <2> HIDE DEF p
  <2>3. pages \in Seq(S \cup {p}) /\ p \in S \cup {p} /\ pages' = Append(pages, p)
    BY <1>1, <2>1 DEF p
  <2> QED
    BY <2>2, <2>3
<1>5. \A j \in 1 .. crawled : pages'[base.pages + j] = pages[base.pages + j]
  <2> TAKE j \in 1 .. crawled
  <2>1. base.pages + j \in 1 .. Len(pages)
    BY <1>2
  <2> QED
    BY <1>4, <2>1
<1>6. ASSUME NEW n \in Int, n <= crawled
      PROVE  FoundBy(n)' = FoundBy(n)
  <2>1. \A j \in 1 .. n : pages'[base.pages + j] = pages[base.pages + j]
    BY <1>2, <1>5, <1>6
  <2> QED
    BY <1>1, <2>1, FoundKeeps
<1>7. PICK k \in Nat : k = crawled
  BY <1>2
<1>8. PICK m \in Int : m = crawled - streak /\ m <= k
  BY <1>2, <1>3, <1>7
<1>9. /\ FoundBy(k)' = FoundBy(k) /\ FoundBy(m)' = FoundBy(m)
      /\ FoundBy(m) = FoundBy(k) /\ satisfied = FoundBy(k)
  BY <1>3, <1>6, <1>7, <1>8
<1>10. CASE TakeFailure
  <2>1. pc' # "done" /\ pc' \notin {"result", "learn"} /\ streak' = streak + 1 /\ fetched[at] = Failure
    BY <1>10 DEF TakeFailure, Advance
  <2>2. PICK l \in Nat : l = k + 1
    OBVIOUS
  <2>3. Learned' = l
    BY <1>1, <1>7, <2>1, <2>2 DEF Learned
  <2>4. FoundBy(l)' = FoundBy(k)'
    <3>1. pages'[base'.pages + l].content = Failure
      <4>1. base'.pages + l = Len(pages) + 1
        BY <1>1, <1>2, <1>7, <2>2
      <4> QED
        BY <1>4, <2>1, <4>1
    <3>2. 1 .. l = (1 .. k) \cup {l}
      BY <2>2
    <3>3. {j \in 1 .. l : pages'[base'.pages + j].content # Failure}
              = {j \in 1 .. k : pages'[base'.pages + j].content # Failure}
      BY <3>1, <3>2
    <3> QED
      BY <3>3 DEF FoundBy
  <2>5. Learned' - streak' = m /\ streak' \in 0 .. Learned'
    BY <1>2, <1>3, <1>7, <1>8, <2>1, <2>2, <2>3
  <2>6. FoundBy(Learned)' = FoundBy(l)'
    BY <2>3 DEF FoundBy
  <2>7. FoundBy(Learned - streak)' = FoundBy(m)'
    BY <2>5 DEF FoundBy
  <2> QED
    BY <1>1, <1>9, <2>1, <2>3, <2>4, <2>5, <2>6, <2>7 DEF Measured
<1>11. CASE TakePage
  <2>1. pc' \in {"result", "learn"} /\ at' = at /\ streak' = streak
    BY <1>11 DEF TakePage
  <2>2. Learned' = k
    BY <1>1, <1>7, <2>1 DEF Learned
  <2>3. Learned' - streak' = m /\ streak' \in 0 .. Learned'
    BY <1>3, <1>7, <1>8, <2>1, <2>2
  <2>4. FoundBy(Learned)' = FoundBy(k)'
    BY <2>2 DEF FoundBy
  <2>5. FoundBy(Learned - streak)' = FoundBy(m)'
    BY <2>3 DEF FoundBy
  <2>6. pages'[Len(pages')].content = fetched'[at']
    BY <1>1, <1>4, <2>1
  <2> QED
    BY <1>1, <1>9, <2>2, <2>3, <2>4, <2>5, <2>6 DEF Measured
<1> QED
  BY <1>10, <1>11

\* What a page teaches is what it has that the pages before it do not.
LEMMA MeasuredLearn ==
    ASSUME CrawlInv, Measured, Learn
    PROVE  Measured'
<1> DEFINE attrs == Page[fetched[at]].attrs
           gain == attrs \cap (required \ satisfied)
<1>1. /\ UNCHANGED <<required, pages, base, crawled>> /\ pc = "learn" /\ pc' \in {"take", "decide"}
      /\ satisfied' = satisfied \cup gain
      /\ streak' = IF gain # {} THEN 0 ELSE streak + 1
  BY DEF Learn, Advance, rows
<1>2. crawled = Len(pages) - base.pages /\ crawled \in Nat /\ Len(pages) \in Nat /\ base.pages \in Nat
  BY CrawlNumbers DEF CrawlInv, Ledger, RowsMatch
<1>3. /\ crawled - 1 \in Nat /\ satisfied = FoundBy(crawled - 1)
      /\ streak \in 0 .. crawled - 1 /\ FoundBy((crawled - 1) - streak) = FoundBy(crawled - 1)
      /\ pages[Len(pages)].content = fetched[at]
  BY <1>1 DEF Measured, Learned
<1>4. PICK n \in Nat, k \in Nat, m \in Int : n = crawled - 1 /\ k = crawled /\ m = n - streak
  BY <1>2, <1>3
<1>5. satisfied = FoundBy(n) /\ FoundBy(m) = FoundBy(n)
  BY <1>3, <1>4
<1>6. fetched[at] \in Contents /\ fetched[at] # Failure
  BY <1>1, WebAssumption DEF CrawlInv, Unlike
<1>7. pages[base.pages + k].content = fetched[at]
  <2>1. base.pages + k = Len(pages)
    BY <1>2, <1>4
  <2> QED
    BY <1>3, <2>1
<1>8. FoundBy(k) = FoundBy(n) \cup (required \cap attrs)
  <2>1. k = n + 1
    BY <1>2, <1>4
  <2> QED
    BY <1>6, <1>7, <2>1, FoundOneMore
<1>9. satisfied' = FoundBy(k)
  BY <1>1, <1>5, <1>8
<1>10. Learned' = k /\ \A i \in Int : FoundBy(i)' = FoundBy(i)
  BY <1>1, <1>4 DEF Learned, FoundBy
<1>11. FoundBy(Learned)' = FoundBy(k)
  BY <1>1, <1>10 DEF FoundBy
<1>12. streak' \in 0 .. Learned' /\ FoundBy(Learned - streak)' = FoundBy(k)
  <2>1. CASE gain # {}
    <3>1. streak' = 0 /\ Learned' - streak' = k
      BY <1>1, <1>10, <2>1
    <3> QED
      BY <1>1, <1>10, <3>1 DEF FoundBy
  <2>2. CASE gain = {}
    <3>1. streak' = streak + 1 /\ FoundBy(k) = FoundBy(n)
      BY <1>1, <1>5, <1>9, <2>2
    <3>2. streak' \in 0 .. k /\ k - streak' = m
      <4> HIDE DEF gain, attrs
      <4> QED
        BY <1>2, <1>3, <1>4, <3>1
    <3>3. FoundBy(Learned - streak)' = FoundBy(m)
      BY <1>1, <1>10, <3>2 DEF FoundBy
    <3> QED
      BY <1>5, <1>10, <3>1, <3>2, <3>3
  <2> QED
    BY <2>1, <2>2
<1> QED
  BY <1>1, <1>9, <1>10, <1>11, <1>12 DEF Measured

\* What the crawl knows of its pages is kept true.
LEMMA MeasuredStep ==
    ASSUME CrawlInv, Measured, [Next]_vars
    PROVE  Measured'
<1> USE DEF rows, memory
<1>1. CASE UNCHANGED vars
  BY <1>1, MeasuredFrame DEF vars
<1>2. CASE Begin \/ EndLoop \/ Decide \/ Announce \/ Extract \/ Complete \/ Fail
  <2>1. UNCHANGED <<required, pages, base, crawled, satisfied, streak>>
    BY <1>2 DEF Begin, EndLoop, Decide, Announce, Extract, Complete, Fail
  <2>2. \/ pc' = "done"
        \/ pc # "done" /\ pc \notin {"result", "learn"} /\ pc' \notin {"result", "learn"}
    BY <1>2 DEF Begin, EndLoop, Decide, Announce, Extract, Complete, Fail
  <2> QED
    BY <2>1, <2>2, MeasuredFrame
<1>3. CASE Search \/ NextWave \/ Pop \/ AddSource \/ FetchWave
  <2>1. UNCHANGED <<required, pages, base, crawled, satisfied, streak>>
    BY <1>3 DEF Search, NextWave, Pop, AddSource, FetchWave
  <2>2. pc # "done" /\ pc \notin {"result", "learn"} /\ pc' \notin {"result", "learn"}
    BY <1>3 DEF Search, NextWave, Pop, AddSource, FetchWave
  <2> QED
    BY <2>1, <2>2, MeasuredFrame
<1>4. CASE TakeFailure \/ TakePage
  BY <1>4, MeasuredTake
<1>5. CASE AddResult
  <2>1. UNCHANGED <<required, pages, base, crawled, satisfied, streak, fetched, at>>
        /\ pc = "result" /\ pc' = "learn"
    BY <1>5 DEF AddResult
  <2> QED
    BY <2>1, MeasuredFrame
<1>6. CASE Learn
  BY <1>6, MeasuredLearn
<1>7. CASE RunAgain
  <2>1. pc' = "begin" /\ crawled' = 0 /\ satisfied' = {} /\ streak' = 0
    BY <1>7 DEF RunAgain
  <2>2. Learned' = 0 /\ Learned' - streak' = 0
    BY <2>1 DEF Learned
  <2>3. FoundBy(Learned)' = {} /\ FoundBy(Learned - streak)' = {}
    BY <2>2 DEF FoundBy
  <2> QED
    BY <2>1, <2>2, <2>3 DEF Measured
<1> QED
  BY <1>1, <1>2, <1>3, <1>4, <1>5, <1>6, <1>7 DEF Next, Step

\* A decision is right about the pages.
LEMMA DecideRight ==
    ASSUME CrawlInv, WithinBudget, StopInv, Decide
    PROVE  Stopped'
<1>1. /\ UNCHANGED <<required, pages, base, crawled, satisfied, streak>> /\ pc = "decide"
      /\ pc' = IF stop' = None THEN "loop" ELSE "stopped"
      /\ stop' = IF required # {} /\ satisfied = required THEN "objective_satisfied"
                 ELSE IF required # {} /\ streak >= StallLimit /\ crawled >= StallFloor
                 THEN "diminishing_returns" ELSE None
  BY DEF Decide, rows
<1>2. /\ crawled \in Nat /\ satisfied = FoundBy(crawled)
      /\ streak \in 0 .. crawled /\ FoundBy(crawled - streak) = FoundBy(crawled)
  BY <1>1 DEF StopInv, Measured, Learned
<1>3. FoundBy(crawled)' = FoundBy(crawled) /\ FoundBy(crawled - StallLimit)' = FoundBy(crawled - StallLimit)
  BY <1>1 DEF FoundBy
<1>4. ASSUME stop' = "objective_satisfied"
      PROVE  required' # {} /\ FoundBy(crawled)' = required'
  BY <1>1, <1>2, <1>3, <1>4 DEF None
<1>5. ASSUME stop' = "diminishing_returns"
      PROVE  /\ crawled' >= StallFloor
             /\ FoundBy(crawled - StallLimit)' = FoundBy(crawled)'
             /\ FoundBy(crawled)' # required'
  <2>1. required # {} /\ satisfied # required /\ streak >= StallLimit /\ crawled >= StallFloor
    BY <1>1, <1>5 DEF None
  <2>2. PICK a \in Int, b \in Int, k \in Int :
            a = crawled - streak /\ b = crawled - StallLimit /\ k = crawled /\ a <= b /\ b <= k
    BY <1>2, <2>1 DEF StallLimit
  <2>3. FoundBy(a) \subseteq FoundBy(b) /\ FoundBy(b) \subseteq FoundBy(k) /\ FoundBy(a) = FoundBy(k)
    BY <1>2, <2>2, FoundGrows
  <2>4. FoundBy(b) = FoundBy(k)
    BY <2>3
  <2> QED
    BY <1>1, <1>2, <1>3, <2>1, <2>2, <2>4
<1>6. pc' # "extract"
  BY <1>1
<1>7. stop' # None => pc' = "stopped"
  BY <1>1
<1>8. pc' = "stopped" => stop' # None
  BY <1>1
<1> QED
  BY <1>4, <1>5, <1>6, <1>7, <1>8 DEF Stopped, StopIsJustified

\* Nothing but a decision gives a reason, and a reason ends the loop.
LEMMA StoppedStep ==
    ASSUME CrawlInv, WithinBudget, StopInv, [Next]_vars
    PROVE  Stopped'
<1> USE DEF rows, memory
<1>1. CASE stop # None /\ ~ RunAgain
  <2>1. pc \in {"stopped", "extract", "complete", "done"}
    BY <1>1 DEF StopInv, Stopped
  <2>2. \/ UNCHANGED vars \/ Announce \/ Extract \/ Complete \/ Fail
    BY <1>1, <2>1 DEF Next, Step, Begin, Search, NextWave, Pop, EndLoop, AddSource, FetchWave, TakeFailure,
                      TakePage, AddResult, Learn, Decide
  <2>3. /\ UNCHANGED <<required, pages, base, crawled, stop>>
        /\ pc' \in {"stopped", "extract", "complete", "done"}
    BY <2>1, <2>2 DEF vars, Announce, Extract, Complete, Fail
  <2>4. FoundBy(crawled)' = FoundBy(crawled) /\ FoundBy(crawled - StallLimit)' = FoundBy(crawled - StallLimit)
    BY <2>3 DEF FoundBy
  <2> QED
    BY <1>1, <2>3, <2>4 DEF StopInv, Stopped, StopIsJustified
<1>2. CASE RunAgain
  <2>1. stop' = None /\ pc' = "begin"
    BY <1>2 DEF RunAgain
  <2> QED
    BY <2>1 DEF Stopped, StopIsJustified, None
<1>3. CASE Decide
  BY <1>3, DecideRight
<1>4. CASE stop = None /\ ~ Decide /\ ~ RunAgain
  <2>1. stop' = None /\ pc # "stopped"
    BY <1>4 DEF StopInv, Stopped, Next, Step, vars, Begin, Search, NextWave, Pop, EndLoop, AddSource, FetchWave,
                TakeFailure, TakePage, AddResult, Learn, Announce, Extract, Complete, Fail
  <2>2. pc' # "stopped"
    BY <1>4, <2>1 DEF Next, Step, vars, Begin, Search, NextWave, Pop, EndLoop, AddSource, FetchWave,
                TakeFailure, TakePage, Advance, AddResult, Learn, Announce, Extract, Complete, Fail
  <2>3. ASSUME pc' = "extract"
        PROVE  heap' = {} \/ crawled' = MaxPages
    <3>1. EndLoop \/ UNCHANGED vars
      BY <1>4, <2>1, <2>3 DEF Next, Step, Begin, Search, NextWave, Pop, AddSource, FetchWave,
                TakeFailure, TakePage, Advance, AddResult, Learn, Announce, Extract, Complete, Fail
    <3>2. CASE EndLoop
      <4>1. heap' = heap /\ crawled' = crawled /\ (heap = {} \/ crawled >= MaxPages)
        BY <3>2 DEF EndLoop
      <4>2. crawled \in Nat /\ crawled <= MaxPages
        BY CrawlNumbers DEF WithinBudget
      <4> QED
        BY <4>1, <4>2
    <3>3. CASE UNCHANGED vars
      <4>1. heap' = heap /\ crawled' = crawled /\ pc = "extract"
        BY <2>3, <3>3 DEF vars
      <4> QED
        BY <1>4, <4>1 DEF StopInv, Stopped, StopIsJustified
    <3> QED
      BY <3>1, <3>2, <3>3
  <2> QED
    BY <2>1, <2>2, <2>3 DEF Stopped, StopIsJustified, None
<1> QED
  BY <1>1, <1>2, <1>3, <1>4

\* Before the first page nothing is known, and there is no reason to stop.
LEMMA StopInit == Init => StopInv
<1> SUFFICES ASSUME Init
             PROVE  StopInv
  OBVIOUS
<1>1. FoundBy(0) = {}
  BY DEF FoundBy
<1>2. Learned = 0 /\ satisfied = {} /\ streak = 0 /\ Learned - streak = 0 /\ pc = "begin" /\ stop = None
  BY DEF Init, Learned
<1> QED
  BY <1>1, <1>2 DEF StopInv, Measured, Stopped, StopIsJustified, None

\* The invariants of a crawl, with the reasons it stops for.
LEMMA StopInvariance == Spec => [](CrawlInv /\ OrderInv /\ StopInv)
<1>1. CrawlInv /\ OrderInv /\ StopInv /\ [Next]_vars => StopInv'
  <2>1. OrderInv => WithinBudget
    BY DEF OrderInv, FrontierInv
  <2>2. StopInv => Measured
    BY DEF StopInv
  <2> QED
    BY <2>1, <2>2, MeasuredStep, StoppedStep DEF StopInv
<1> QED
  BY OrderInvariance, StopInit, <1>1, PTL DEF Spec

\* A crawl stops for the reason it gives: the stored pages contain all that
\* was asked for, or there are three of them and the last two add nothing;
\* and it does not stop without a reason while there is a candidate and
\* budget left. For any web, any query and any limits.
THEOREM StopsAreJustified == Spec => []StopIsJustified
<1>1. StopInv => StopIsJustified
  BY DEF StopInv, Stopped
<1> QED
  BY StopInvariance, <1>1, PTL

-----------------------------------------------------------------------------
(* The crawl implements Exploration. *)

\* An attempt's sources are a visit each.
LEMMA PathIsSeq ==
    ASSUME CrawlInv, OrderInv
    PROVE  /\ Path \in Seq({Norm[u] : u \in Urls}) /\ Len(Path) = Len(sources) - base.sources
           /\ Len(Path) \in Nat
           /\ \A i \in 1 .. Len(Path) : Path[i] \in Visited
<1>1. /\ sources \in Seq(Urls) /\ base.sources <= Len(sources)
      /\ Len(sources) \in Nat /\ base.sources \in Nat
  BY CrawlNumbers DEF OrderInv, FrontierInv, Unvisited
<1>2. PICK n \in Nat : n = Len(sources) - base.sources
  BY <1>1
<1>3. \A i \in 1 .. n : base.sources + i \in base.sources + 1 .. Len(sources)
                        /\ base.sources + i \in 1 .. Len(sources)
  BY <1>1, <1>2
<1>4. \A i \in 1 .. n : sources[base.sources + i] \in Urls
  BY <1>1, <1>3
<1>5. Path = [i \in 1 .. n |-> Norm[sources[base.sources + i]]]
  BY <1>2 DEF Path
<1>6. Path \in [1 .. n -> {Norm[u] : u \in Urls}]
  BY <1>4, <1>5
<1>7. Path \in Seq({Norm[u] : u \in Urls}) /\ Len(Path) = n
  BY <1>2, <1>6, SeqDef, LenProperties
<1>8. \A i \in 1 .. n : Path[i] \in Visited
  BY <1>3, <1>5 DEF Visited
<1> QED
  BY <1>2, <1>7, <1>8

\* A step that leaves the sources alone, and does not go on after the end.
LEMMA ExploreStutter ==
    ASSUME UNCHANGED <<sources, base>>, Ended' = Ended \/ Ended'
    PROVE  [Visits!Next]_<<Path, Ended>>
<1>1. Path' = Path
  BY DEF Path
<1>2. CASE Ended' = Ended
  BY <1>1, <1>2
<1>3. CASE Ended'
  BY <1>1, <1>3 DEF Visits!Next, Visits!Stop
<1> QED
  BY <1>2, <1>3

\* A source is the visit of a page that was not visited, within the budget.
LEMMA ExploreVisit ==
    ASSUME CrawlInv, OrderInv, AddSource
    PROVE  Visits!Next
<1> DEFINE k == Key(wave[at])
<1>1. /\ pc = "sources" /\ pc' \in {"sources", "fetch"} /\ base' = base
      /\ at \in 1 .. Len(wave) /\ at \in at .. Len(wave) /\ Len(wave) \in Nat
      /\ Len(sources) \in Nat /\ base.sources \in Nat /\ crawled \in Nat
  BY CrawlNumbers DEF AddSource
<1>2. /\ wave[at] \in Candidates /\ Len(sources') = Len(sources) + 1
      /\ sources'[Len(sources) + 1] = wave[at].url
      /\ \A i \in 1 .. Len(sources) : sources'[i] = sources[i]
  BY OneMoreVisit
<1>3. k \in {Norm[u] : u \in Urls} /\ k = Norm[wave[at].url]
  BY <1>2 DEF Candidates, Key
<1>4. k \notin Visited
  BY <1>1 DEF OrderInv, FrontierInv, Unvisited
<1>5. /\ Path \in Seq({Norm[u] : u \in Urls}) /\ Len(Path) = Len(sources) - base.sources
      /\ Len(Path) \in Nat
      /\ \A i \in 1 .. Len(Path) : Path[i] \in Visited
  BY PathIsSeq
<1>7. Len(Path) < MaxPages
  <2>1. Len(sources) - base.sources = crawled + (at - 1)
    <3>1. /\ Len(sources) - base.sources - (Len(pages) - base.pages) = at - 1
          /\ crawled = Len(pages) - base.pages
      BY <1>1 DEF CrawlInv, Ledger, RowsMatch, Open
    <3>2. Len(sources) - base.sources - crawled = at - 1
      BY <3>1
    <3> QED
      BY <1>1, <3>2
  <2>2. crawled + Len(wave) <= MaxPages
    BY <1>1 DEF OrderInv, FrontierInv, WithinBudget
  <2> QED
    BY <1>1, <1>5, <2>1, <2>2
<1>8. \A i \in DOMAIN Path : Path[i] # k
  BY <1>4, <1>5
<1>9. Path' = Append(Path, k)
  <2>1. PICK n \in Nat : n = Len(Path)
    BY <1>5
  <2>2. Len(sources') - base'.sources = n + 1 /\ base.sources + (n + 1) = Len(sources) + 1
    BY <1>1, <1>2, <1>5, <2>1
  <2>3. Path' = [i \in 1 .. n + 1 |-> Norm[sources'[base.sources + i]]]
    BY <1>1, <2>2 DEF Path
  <2>4. \A i \in 1 .. n : sources'[base.sources + i] = sources[base.sources + i]
    <3> TAKE i \in 1 .. n
    <3>1. base.sources + i \in 1 .. Len(sources)
      BY <1>1, <1>5, <2>1
    <3> QED
      BY <1>2, <3>1
  <2>5. \A i \in 1 .. n : Path[i] = Norm[sources[base.sources + i]]
    BY <1>5, <2>1 DEF Path
  <2>6. \A i \in 1 .. n : Path'[i] = Path[i]
    BY <2>3, <2>4, <2>5
  <2>7. Path'[n + 1] = k
    BY <1>2, <1>3, <2>2, <2>3
  <2>8. /\ Append(Path, k) \in Seq({Norm[u] : u \in Urls}) /\ Len(Append(Path, k)) = n + 1
        /\ \A i \in 1 .. n : Append(Path, k)[i] = Path[i]
        /\ Append(Path, k)[n + 1] = k
    BY <1>3, <1>5, <2>1, AppendProperties
  <2>9. DOMAIN Append(Path, k) = 1 .. n + 1 /\ Append(Path, k) = [i \in 1 .. n + 1 |-> Append(Path, k)[i]]
    BY <2>8
  <2>10. \A i \in 1 .. n + 1 : Append(Path, k)[i] = Norm[sources'[base.sources + i]]
    <3> TAKE i \in 1 .. n + 1
    <3>1. CASE i = n + 1
      BY <2>3, <2>7, <2>8, <3>1
    <3>2. CASE i # n + 1
      <4>1. i \in 1 .. n
        BY <3>2
      <4> QED
        BY <2>4, <2>5, <2>8, <4>1
    <3> QED
      BY <3>1, <3>2
  <2> QED
    BY <2>3, <2>9, <2>10
<1> HIDE DEF k
<1>11. Ended' = Ended /\ ~ Ended
  <2>1. Ended = FALSE
    BY <1>1 DEF Ended
  <2>2. Ended' = FALSE
    BY <1>1 DEF Ended
  <2> QED
    BY <2>1, <2>2
<1>12. Visits!Visit(k)
  BY <1>7, <1>8, <1>9, <1>11, Zenon DEF Visits!Visit
<1> QED
  BY <1>3, <1>12 DEF Visits!Next

\* No step but RunAgain goes on after the end, or forgets a source.
LEMMA ExploreStep ==
    ASSUME CrawlInv, OrderInv, [Next]_vars
    PROVE  [Visits!Next]_<<Path, Ended>>
<1> USE DEF rows, memory
<1>1. CASE UNCHANGED vars
  BY <1>1, ExploreStutter DEF vars, Ended
<1>2. CASE AddSource
  BY <1>2, ExploreVisit
<1>3. CASE RunAgain
  <2>1. base'.sources = Len(sources) /\ sources' = sources /\ pc' = "begin"
    BY <1>3 DEF RunAgain
  <2>2. Path' = << >>
    <3>1. Len(sources') - base'.sources = 0
      BY <2>1, CrawlNumbers
    <3>2. Path' = [i \in 1 .. 0 |-> Norm[sources'[base'.sources + i]]]
      BY <3>1 DEF Path
    <3> QED
      BY <3>2
  <2>3. Ended' = FALSE
    BY <2>1 DEF Ended
  <2> QED
    BY <2>2, <2>3 DEF Visits!Next, Visits!StartOver
<1>4. CASE Next /\ ~ AddSource /\ ~ RunAgain
  <2>1. UNCHANGED <<sources, base>>
    BY <1>4 DEF Next, Step, Begin, Search, NextWave, Pop, EndLoop, FetchWave, TakeFailure, TakePage, AddResult,
                Learn, Decide, Announce, Extract, Complete, Fail
  <2>2. Ended => Ended'
    BY <1>4 DEF Ended, Next, Step, Begin, Search, NextWave, Pop, EndLoop, FetchWave, TakeFailure, TakePage,
                AddResult, Learn, Decide, Announce, Extract, Complete, Fail
  <2>3. Ended' = Ended \/ Ended'
    BY <2>2 DEF Ended
  <2> QED
    BY <2>1, <2>3, ExploreStutter
<1> QED
  BY <1>1, <1>2, <1>3, <1>4

\* The crawl implements Exploration: an attempt never gives a page, by its
\* normalized url, a second source, and never more sources than max_pages;
\* it gives none after it has ended. For any web, any limits, any number of
\* attempts.
THEOREM CrawlExplores == Spec => Explores
<1>1. Init => Visits!Init
  <2> SUFFICES ASSUME Init
               PROVE  Visits!Init
    OBVIOUS
  <2>1. Path = [i \in 1 .. 0 |-> Norm[sources[base.sources + i]]]
    BY DEF Init, Path
  <2> QED
    BY <2>1 DEF Init, Ended, Visits!Init
<1> QED
  BY <1>1, ExploreStep, OrderInvariance, PTL DEF Spec, Explores, Visits!Spec

-----------------------------------------------------------------------------
(* Types. *)

\* What the reports of a crawl look like.
Reports == [kind : Kinds, about : Reasons \cup Stops, n : Nat]

\* The program counter, the status and the reasons keep to their names, and
\* the attempts to their bound.
Words ==
    /\ status \in {"queued", "searching", "crawling", "extracting", "completed", "failed"}
    /\ attempt \in 1 .. MaxAttempts
    /\ pc \in {"begin", "search", "loop", "pop", "sources", "fetch", "take", "result", "learn",
               "decide", "stopped", "extract", "complete", "done"}
    /\ reason \in Reasons
    /\ stop \in Stops

\* What the attempt remembers of the web is of the web.
Memory ==
    /\ seen \subseteq {Norm[u] : u \in Urls}
    /\ fetched \in Seq(Contents \cup {Failure})
    /\ satisfied \subseteq Attributes
    /\ texts \subseteq Texts
    /\ streak \in Nat

\* Pages have sources, and reports are well formed.
Rows ==
    /\ pages \in Seq([source : Nat \ {0}, content : Contents \cup {Failure}])
    /\ events \in Seq(Reports)

TypedInv == Words /\ Memory /\ Rows

\* Names are kept by every step.
LEMMA WordsStep ==
    ASSUME Words, [Next]_vars
    PROVE  Words'
<1> USE DEF Words, Reasons, Stops, None, memory, Advance
<1>1. CASE UNCHANGED vars
  BY <1>1 DEF vars
<1>2. CASE Begin \/ EndLoop \/ Announce \/ Extract \/ Complete \/ Fail
  BY <1>2 DEF Begin, EndLoop, Announce, Extract, Complete, Fail
<1>3. CASE Search
  BY <1>3 DEF Search
<1>4. CASE NextWave \/ Pop \/ AddSource \/ FetchWave \/ AddResult
  BY <1>4 DEF NextWave, Pop, AddSource, FetchWave, AddResult
<1>5. CASE TakeFailure
  BY <1>5 DEF TakeFailure
<1>6. CASE TakePage
  BY <1>6 DEF TakePage
<1>7. CASE Learn
  BY <1>7 DEF Learn
<1>8. CASE Decide
  BY <1>8 DEF Decide
<1>9. CASE RunAgain
  BY <1>9 DEF RunAgain
<1> QED
  BY <1>1, <1>2, <1>3, <1>4, <1>5, <1>6, <1>7, <1>8, <1>9 DEF Next, Step

\* What a page contains and where it leads is of the web.
LEMMA PageParts ==
    ASSUME NEW c \in Contents
    PROVE  /\ Page[c].attrs \subseteq Attributes /\ Page[c].text \in Texts
           /\ Page[c].links \in Seq(Urls)
  BY WebAssumption DEF Texts

\* Pushing remembers keys of urls.
LEMMA PushKeys ==
    ASSUME Memory, NEW urls \in Seq(Urls), NEW places \in SUBSET DOMAIN urls, NEW depth,
           Push(urls, places, depth)
    PROVE  seen' \subseteq {Norm[u] : u \in Urls}
<1>1. \A i \in places : urls[i] \in Urls
  OBVIOUS
<1> QED
  BY <1>1 DEF Push, Memory

\* What is remembered stays of the web.
LEMMA MemoryStep ==
    ASSUME Memory, CrawlInv, OrderInv, [Next]_vars
    PROVE  Memory'
<1> USE DEF memory, Advance
<1>1. CASE UNCHANGED vars
  BY <1>1 DEF vars, Memory
<1>2. CASE Begin \/ EndLoop \/ Announce \/ Extract \/ Complete \/ Fail \/ NextWave \/ Pop
            \/ AddSource \/ AddResult \/ Decide
  BY <1>2 DEF Memory, Begin, EndLoop, Announce, Extract, Complete, Fail, NextWave, Pop, AddSource, AddResult, Decide
<1>3. CASE Search
  <2>1. UNCHANGED <<fetched, satisfied, texts, streak>>
    BY <1>3 DEF Search
  <2>2. seen' \subseteq {Norm[u] : u \in Urls}
    <3>1. CASE seen' = seen
      BY <3>1 DEF Memory
    <3>2. CASE seen' # seen
      <4>1. PICK found \in Found : Push(found, Hits(found), 0)
        BY <1>3, <3>2 DEF Search
      <4>2. found \in Seq(Urls) /\ Hits(found) \in SUBSET DOMAIN found
        BY WebAssumption DEF Hits
      <4> QED
        BY <4>1, <4>2, PushKeys
    <3> QED
      BY <3>1, <3>2
  <2> QED
    BY <2>1, <2>2 DEF Memory
<1>4. CASE FetchWave
  <2>1. fetched' \in [1 .. Len(wave) -> Contents \cup {Failure}] /\ Len(wave) \in Nat
    BY <1>4, CrawlNumbers DEF FetchWave
  <2>2. fetched' \in Seq(Contents \cup {Failure})
    BY <2>1, SeqDef
  <2> QED
    BY <1>4, <2>2 DEF FetchWave, Memory
<1>5. CASE TakeFailure
  BY <1>5 DEF TakeFailure, Memory
<1>6. CASE TakePage
  <2>1. fetched[at] \in Contents
    <3>1. fetched \in [1 .. Len(wave) -> Contents \cup {Failure}] /\ at \in 1 .. Len(wave)
      BY <1>6, CrawlNumbers DEF TakePage, CrawlInv, Shape
    <3> QED
      BY <1>6, <3>1 DEF TakePage
  <2>2. texts' = texts \cup {Page[fetched[at]].text}
    BY <1>6 DEF TakePage
  <2> QED
    BY <1>6, <2>1, <2>2, PageParts DEF TakePage, Memory
<1>7. CASE Learn
  <2>1. fetched[at] \in Contents
    BY <1>7 DEF Learn, CrawlInv, Unlike
  <2>2. UNCHANGED <<fetched, texts>> /\ satisfied' \subseteq satisfied \cup Page[fetched[at]].attrs
        /\ streak' \in {0, streak + 1}
    BY <1>7 DEF Learn
  <2>3. seen' \subseteq {Norm[u] : u \in Urls}
    <3>1. CASE seen' = seen
      BY <3>1 DEF Memory
    <3>2. CASE seen' # seen
      <4>1. Push(LinksOf(fetched[at]), DOMAIN LinksOf(fetched[at]), wave[at].depth + 1)
        BY <1>7, <3>2 DEF Learn
      <4> QED
        BY <2>1, <4>1, PushKeys, PageParts DEF LinksOf
    <3> QED
      BY <3>1, <3>2
  <2>4. satisfied' \subseteq Attributes /\ streak' \in Nat
    BY <2>1, <2>2, PageParts DEF Memory
  <2> QED
    BY <2>2, <2>3, <2>4 DEF Memory
<1>8. CASE RunAgain
  BY <1>8 DEF RunAgain, Memory
<1> QED
  BY <1>1, <1>2, <1>3, <1>4, <1>5, <1>6, <1>7, <1>8 DEF Next, Step

\* A report about the crawl is well formed.
LEMMA ReportTyped ==
    ASSUME NEW k \in Kinds, NEW a \in Reasons \cup Stops, NEW n \in Nat
    PROVE  Event(k, a, n) \in Reports
  BY DEF Event, Reports

\* A page is stored for the source of its candidate, which there is.
LEMMA PageTyped ==
    ASSUME Rows, CrawlInv, OrderInv, pc = "take"
    PROVE  LET row == [source |-> SourceOf(at), content |-> fetched[at]]
           IN  Append(pages, row) \in Seq([source : Nat \ {0}, content : Contents \cup {Failure}])
<1>1. /\ at \in 1 .. Len(wave) /\ Len(wave) \in Nat /\ Len(sources) \in Nat /\ Len(pages) \in Nat
      /\ base.sources \in Nat /\ base.pages \in Nat /\ crawled \in Nat
  BY CrawlNumbers
<1>2. fetched[at] \in Contents \cup {Failure}
  <2>1. fetched \in [1 .. Len(wave) -> Contents \cup {Failure}]
    BY DEF CrawlInv, Shape
  <2> QED
    BY <1>1, <2>1
<1>3. /\ Len(sources) - base.sources - (Len(pages) - base.pages) = Len(wave) - at + 1
      /\ crawled = Len(pages) - base.pages
  BY DEF CrawlInv, Ledger, Open, RowsMatch
<1>4. Len(sources) - Len(wave) + at \in Nat \ {0}
  <2>1. Len(sources) - base.sources - crawled = Len(wave) - at + 1
    BY <1>3
  <2> QED
    BY <1>1, <2>1
<1>5. SourceOf(at) \in Nat \ {0}
  BY <1>4 DEF SourceOf
<1> QED
  BY <1>2, <1>5 DEF Rows

\* Every row that is written is well formed.
LEMMA RowsStep ==
    ASSUME Rows, Words, CrawlInv, OrderInv, [Next]_vars
    PROVE  Rows'
<1> USE DEF rows, memory
<1> DEFINE OfPages == Seq([source : Nat \ {0}, content : Contents \cup {Failure}])
<1>1. pages \in OfPages /\ events \in Seq(Reports) /\ Len(pages) \in Nat /\ counted \in Nat /\ crawled \in Nat
  BY CrawlNumbers DEF Rows
<1>2. \A e \in Reports : Append(events, e) \in Seq(Reports)
  BY <1>1
<1>3. CASE pages' = pages /\ events' = events
  BY <1>1, <1>3 DEF Rows
<1>4. CASE TakeFailure
  <2>1. pages' = Append(pages, [source |-> SourceOf(at), content |-> Failure])
        /\ fetched[at] = Failure /\ pc = "take"
        /\ events' = Append(events, Event("page.failed", None, Len(pages')))
    BY <1>4 DEF TakeFailure
  <2>2. pages' \in OfPages
    BY <2>1, PageTyped
  <2>3. Event("page.failed", None, Len(pages')) \in Reports
    <3>1. Len(pages') \in Nat
      BY <2>2
    <3> QED
      BY <3>1, ReportTyped DEF Kinds, Reasons
  <2> QED
    BY <1>2, <2>1, <2>2, <2>3 DEF Rows
<1>5. CASE TakePage
  <2>1. pages' = Append(pages, [source |-> SourceOf(at), content |-> fetched[at]])
        /\ pc = "take" /\ events' = events
    BY <1>5 DEF TakePage
  <2>2. pages' \in OfPages
    BY <2>1, PageTyped
  <2> QED
    BY <1>1, <2>1, <2>2 DEF Rows
<1>6. CASE Learn
  <2> DEFINE links == LinksOf(fetched[at])
             new   == NewAt(links, DOMAIN links)
             done  == Append(events, Event("page.completed", reason, Len(pages)))
  <2>1. /\ pages' = pages
        /\ events' \in {done, Append(done, Event("crawl.expanded", None, Cardinality(new)))}
    BY <1>6 DEF Learn
  <2>2. done \in Seq(Reports)
    <3>1. Event("page.completed", reason, Len(pages)) \in Reports
      BY <1>1, ReportTyped DEF Kinds, Words
    <3> QED
      BY <1>2, <3>1
  <2>3. Cardinality(new) \in Nat
    <3>1. fetched[at] \in Contents
      BY <1>6 DEF Learn, CrawlInv, Unlike
    <3>2. links \in Seq(Urls)
      BY <3>1, PageParts DEF LinksOf
    <3>3. new \subseteq 1 .. Len(links) /\ Len(links) \in Nat
      BY <3>2 DEF NewAt
    <3>4. IsFiniteSet(1 .. Len(links))
      BY <3>3, FS_Interval
    <3> HIDE DEF new
    <3> QED
      BY <3>3, <3>4, FS_Subset, FS_CardinalityType
  <2>4. Event("crawl.expanded", None, Cardinality(new)) \in Reports
    <3> HIDE DEF new
    <3> QED
      BY <2>3, ReportTyped DEF Kinds, Reasons
  <2> HIDE DEF done, new
  <2>5. events' \in Seq(Reports)
    BY <2>1, <2>2, <2>4
  <2> QED
    BY <1>1, <2>1, <2>5 DEF Rows
<1>7. CASE Announce
  <2>1. Event("crawl.stopped_early", stop, crawled) \in Reports
    BY <1>1, ReportTyped DEF Kinds, Words
  <2> QED
    BY <1>1, <1>2, <1>7, <2>1 DEF Announce, Rows
<1>8. CASE Complete
  <2>1. Event("research.completed", None, counted) \in Reports
    BY <1>1, ReportTyped DEF Kinds, Reasons
  <2> QED
    BY <1>1, <1>2, <1>8, <2>1 DEF Complete, Rows
<1>9. CASE Fail
  <2>1. Event("research.failed", None, 0) \in Reports
    BY ReportTyped DEF Kinds, Reasons
  <2> QED
    BY <1>1, <1>2, <1>9, <2>1 DEF Fail, Rows
<1>10. CASE UNCHANGED vars \/ Begin \/ Search \/ NextWave \/ Pop \/ EndLoop \/ AddSource \/ FetchWave \/ AddResult
            \/ Decide \/ Extract \/ RunAgain
  BY <1>3, <1>10 DEF vars, Begin, Search, NextWave, Pop, EndLoop, AddSource, FetchWave, AddResult, Decide,
                     Extract, RunAgain
<1> QED
  BY <1>4, <1>5, <1>6, <1>7, <1>8, <1>9, <1>10 DEF Next, Step

\* The first attempt has remembered nothing.
LEMMA TypedInit == Init => TypedInv
  BY LimitsAssumption DEF Init, TypedInv, Words, Memory, Rows, Reasons, Stops, None

\* The rest of the types follows from the invariants of the rows and of the
\* frontier.
LEMMA TypesFollow ==
    ASSUME CrawlInv, OrderInv, TypedInv
    PROVE  TypeOK
<1>1. results \in Seq(Nat \ {0})
  <2>1. results \in Seq(Nat) /\ Len(pages) \in Nat /\ DOMAIN pages = 1 .. Len(pages)
        /\ \A r \in DOMAIN results : results[r] \in DOMAIN pages
    BY DEF CrawlInv, Shape, Unlike
  <2>2. \A r \in 1 .. Len(results) : results[r] \in Nat \ {0}
    BY <2>1
  <2>3. results \in [1 .. Len(results) -> Nat \ {0}] /\ Len(results) \in Nat
    BY <2>1, <2>2
  <2> QED
    BY <2>3, SeqDef
<1>2. /\ required \in Objectives /\ sources \in Seq(Urls) /\ heap \subseteq Candidates
      /\ next \in Nat /\ wave \in Seq(Candidates)
  BY DEF OrderInv, FrontierInv, Frontier, Unvisited
<1>3. /\ at \in Nat \ {0} /\ crawled \in Nat /\ counted \in Nat
      /\ base \in [sources : Nat, pages : Nat, results : Nat]
  BY DEF CrawlInv, Shape
<1>4. pages \in Seq([source : Nat \ {0}, content : Contents \cup {Failure}]) /\ events \in Seq(Reports)
  BY DEF TypedInv, Rows
<1> QED
  BY <1>1, <1>2, <1>3, <1>4 DEF TypedInv, Words, Memory, TypeOK, Reports

\* Every variable keeps its shape: the rows refer to rows that there are, the
\* reports have the fields that their readers look at.
THEOREM CrawlIsTyped == Spec => []TypeOK
<1>1. CrawlInv /\ OrderInv /\ TypedInv /\ [Next]_vars => TypedInv'
  BY WordsStep, MemoryStep, RowsStep DEF TypedInv
<1>2. CrawlInv /\ OrderInv /\ TypedInv => TypeOK
  BY TypesFollow
<1> QED
  BY <1>1, <1>2, TypedInit, OrderInvariance, PTL DEF Spec
=============================================================================
