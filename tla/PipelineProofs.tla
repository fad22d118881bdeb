--------------------------- MODULE PipelineProofs ---------------------------
(***************************************************************************)
(* The theorems about one page and about a request: no url is requested    *)
(* that was not checked right before; two urls have one key exactly when   *)
(* they differ in nothing but what a key forgets; the links that are       *)
(* followed are those of the site, each once, in their order; a plan       *)
(* covers its request; and the lists of objects, contacts and hits are     *)
(* the beginnings of all there is. For any urls, pages, tables, requests,  *)
(* lists and limits.                                                       *)
(*                                                                         *)
(* The loops of the code are folds over sequences. A fold is unfolded one  *)
(* position at a time, and what it computes is proved by induction over    *)
(* the positions.                                                          *)
(***************************************************************************)
EXTENDS Pipeline, Recursion, FiniteSetTheorems, SequenceTheorems, TLAPS

-----------------------------------------------------------------------------
(* The fetch. *)

USE FetchAssumption

FetchShape ==
    /\ asked \in Seq(Targets) /\ passed \in Seq(Targets)
    /\ url \in Targets /\ target \in Targets
    /\ doing \in {"checking", "requesting", "reading", "returned", "raised"}

\* Checks and requests take turns, and the last of them is of this url.
Turns ==
    /\ \A i \in 1 .. Len(asked) :
           i \in 1 .. Len(passed) /\ asked[i] = passed[i] /\ asked[i] \in Allowed
    /\ Len(asked) <= MaxRedirects + 1
    /\ doing = "checking" => Len(passed) = Len(asked)
    /\ doing = "requesting" => /\ Len(passed) = Len(asked) + 1 /\ passed[Len(passed)] = url
                               /\ url \in Allowed /\ Len(asked) <= MaxRedirects
    /\ doing = "reading" => asked # <<>> /\ url = asked[Len(asked)]

\* What a result says once there is one.
Honest ==
    doing = "returned" =>
        /\ result.html <=> result.error = "none"
        /\ result.html => result.status /\ asked # <<>> /\ url = asked[Len(asked)]
        /\ result.error \notin {"none", "unsafe", "too many redirects"} => url = asked[Len(asked)]

\* Nothing is missing from the body as long as what arrived fits.
Body ==
    /\ kept \in Nat /\ total \in Nat
    /\ kept <= MaxBytes
    /\ total <= MaxBytes => kept = total
    /\ doing # "returned" => total <= MaxBytes

FetchInv == FetchShape /\ Turns /\ Honest /\ Body

\* Nothing is asked before the first check.
LEMMA FetchStart == FetchInit => FetchInv
BY DEF FetchInit, FetchInv, FetchShape, Turns, Honest, Body

\* Something is appended to a sequence.
LEMMA Longer ==
    ASSUME NEW s \in Seq(Targets), NEW t \in Targets
    PROVE  /\ Append(s, t) \in Seq(Targets) /\ Len(s) \in Nat /\ Len(Append(s, t)) = Len(s) + 1
           /\ Append(s, t)[Len(s) + 1] = t /\ \A i \in 1 .. Len(s) : Append(s, t)[i] = s[i]
OBVIOUS

\* A check that passes is for one request; one that does not ends the fetch.
LEMMA CheckStep ==
    ASSUME FetchInv, Check
    PROVE  FetchInv'
<1> USE DEF FetchInv
<1>1. doing = "checking" /\ UNCHANGED <<target, asked, kept, total>>
  BY DEF Check
<1>2. CASE /\ target \in Allowed /\ passed' = Append(passed, target) /\ url' = target
           /\ \/ Len(asked) <= MaxRedirects /\ doing' = "requesting"
              \/ doing' = "returned" /\ result' = Failed("too many redirects", FALSE)
  <2>1. /\ passed' \in Seq(Targets) /\ Len(passed) \in Nat /\ Len(passed') = Len(passed) + 1
        /\ passed'[Len(passed) + 1] = target
        /\ \A i \in 1 .. Len(passed) : passed'[i] = passed[i]
        /\ Len(asked) \in Nat
    BY <1>2, Longer DEF FetchShape
  <2>2. FetchShape'
    BY <1>1, <1>2, <2>1 DEF FetchShape
  <2>3. Turns'
    <3>1. /\ Len(passed) = Len(asked) /\ Len(asked) <= MaxRedirects + 1 /\ asked' = asked
          /\ \A i \in 1 .. Len(asked) :
                 i \in 1 .. Len(passed) /\ asked[i] = passed[i] /\ asked[i] \in Allowed
      BY <1>1 DEF Turns
    <3>2. \A i \in 1 .. Len(asked') :
              i \in 1 .. Len(passed') /\ asked'[i] = passed'[i] /\ asked'[i] \in Allowed
      BY <2>1, <3>1
    <3>3. doing' = "requesting" => /\ Len(passed') = Len(asked') + 1 /\ passed'[Len(passed')] = url'
                                   /\ url' \in Allowed /\ Len(asked') <= MaxRedirects
      BY <1>2, <2>1, <3>1
    <3> QED
      BY <1>2, <3>1, <3>2, <3>3 DEF Turns
  <2>4. Honest'
    <3>1. CASE doing' = "requesting"
      BY <3>1 DEF Honest
    <3>2. CASE doing' = "returned" /\ result' = Failed("too many redirects", FALSE)
      BY <3>2 DEF Honest, Failed
    <3> QED
      BY <1>2, <3>1, <3>2
  <2>5. Body'
    BY <1>1 DEF Body
  <2> QED
    BY <2>2, <2>3, <2>4, <2>5
<1>3. CASE /\ doing' = "returned" /\ result' = Failed("unsafe", asked # <<>>)
           /\ UNCHANGED <<url, passed>>
  BY <1>1, <1>3 DEF FetchShape, Turns, Honest, Failed, Body
<1>4. \/ /\ target \in Allowed /\ passed' = Append(passed, target) /\ url' = target
         /\ \/ Len(asked) <= MaxRedirects /\ doing' = "requesting"
            \/ doing' = "returned" /\ result' = Failed("too many redirects", FALSE)
      \/ /\ doing' = "returned" /\ result' = Failed("unsafe", asked # <<>>)
         /\ UNCHANGED <<url, passed>>
  BY DEF Check, Return
<1> QED
  BY <1>2, <1>3, <1>4

\* A request is sent: what it asked for was checked, and there was room for it.
LEMMA AskStep ==
    ASSUME FetchInv, doing = "requesting", asked' = Append(asked, url), UNCHANGED <<url, passed>>
    PROVE  /\ asked' \in Seq(Targets) /\ asked' # <<>> /\ url = asked'[Len(asked')]
           /\ Len(asked') <= MaxRedirects + 1 /\ Len(passed) = Len(asked')
           /\ \A i \in 1 .. Len(asked') :
                  i \in 1 .. Len(passed) /\ asked'[i] = passed[i] /\ asked'[i] \in Allowed
<1> USE DEF FetchInv
<1>1. /\ asked' \in Seq(Targets) /\ Len(asked) \in Nat /\ Len(asked') = Len(asked) + 1
      /\ asked'[Len(asked) + 1] = url
      /\ \A i \in 1 .. Len(asked) : asked'[i] = asked[i]
  BY Longer DEF FetchShape
<1>2. /\ Len(passed) = Len(asked) + 1 /\ passed[Len(asked) + 1] = url /\ url \in Allowed
      /\ Len(asked) <= MaxRedirects
  BY DEF Turns
<1>3. ASSUME NEW i \in 1 .. Len(asked')
      PROVE  i \in 1 .. Len(passed) /\ asked'[i] = passed[i] /\ asked'[i] \in Allowed
  <2>1. CASE i = Len(asked) + 1
    BY <1>1, <1>2, <2>1
  <2>2. CASE i # Len(asked) + 1
    <3>1. i \in 1 .. Len(asked)
      BY <1>1, <2>2
    <3> QED
      BY <1>1, <3>1 DEF Turns
  <2> QED
    BY <2>1, <2>2
<1> QED
  BY <1>1, <1>2, <1>3

\* All other steps: one request each at most, and a result that tells how it ended.
LEMMA FetchStep ==
    ASSUME FetchInv, [FetchNext]_fetchVars
    PROVE  FetchInv'
<1> USE DEF FetchInv
<1>1. CASE UNCHANGED fetchVars
  BY <1>1 DEF fetchVars, FetchShape, Turns, Honest, Body
<1>2. CASE Check
  BY <1>2, CheckStep
<1>3. ASSUME NEW t \in Targets, Follow(t)
      PROVE  FetchInv'
  <2>1. /\ doing = "requesting" /\ asked' = Append(asked, url) /\ UNCHANGED <<url, passed, kept, total>>
        /\ target' = t /\ doing' = "checking"
    BY <1>3 DEF Follow
  <2> QED
    BY <2>1, AskStep DEF FetchShape, Turns, Honest, Body
<1>4. CASE Answer
  <2>1. /\ doing = "requesting" /\ asked' = Append(asked, url)
        /\ UNCHANGED <<url, passed, target, kept, total>>
        /\ doing' = "reading" \/ (doing' = "returned" /\ result' = Failed("no target", TRUE))
    BY <1>4 DEF Answer, Return
  <2>2. CASE doing' = "reading"
    BY <2>1, <2>2, AskStep DEF FetchShape, Turns, Honest, Body
  <2>3. CASE doing' = "returned" /\ result' = Failed("no target", TRUE)
    BY <2>1, <2>3, AskStep DEF FetchShape, Turns, Honest, Failed, Body
  <2> QED
    BY <2>1, <2>2, <2>3
<1>5. CASE EndOfBody \/ \E n \in Chunks : ReadChunk(n)
  <2>1. /\ doing = "reading" /\ UNCHANGED <<url, target, asked, passed>>
        /\ \/ doing' = "returned" /\ result' = [html |-> TRUE, status |-> TRUE, error |-> "none"]
           \/ UNCHANGED <<doing, result>>
    BY <1>5 DEF EndOfBody, ReadChunk, Return
  <2>2. ASSUME UNCHANGED <<doing, result>>
        PROVE  (FetchShape /\ Turns /\ Honest)'
    BY <2>1, <2>2 DEF FetchShape, Turns, Honest
  <2>3. ASSUME doing' = "returned", result' = [html |-> TRUE, status |-> TRUE, error |-> "none"]
        PROVE  (FetchShape /\ Turns /\ Honest)'
    BY <2>1, <2>3 DEF FetchShape, Turns, Honest
  <2>4. (FetchShape /\ Turns /\ Honest)'
    BY <2>1, <2>2, <2>3
  <2>5. ASSUME EndOfBody
        PROVE  Body'
    BY <2>5 DEF EndOfBody, Return, Body
  <2>6. ASSUME NEW n \in Chunks, ReadChunk(n)
        PROVE  Body'
    <3>1. kept = total /\ n \in Nat /\ total \in Nat /\ total' = total + n
      BY <2>1, <2>6 DEF ReadChunk, Body
    <3>2. CASE total' > MaxBytes
      BY <2>6, <3>1, <3>2 DEF ReadChunk, Return, Body
    <3>3. CASE ~ (total' > MaxBytes)
      BY <2>6, <3>1, <3>3 DEF ReadChunk, Body
    <3> QED
      BY <3>2, <3>3
  <2> QED
    BY <1>5, <2>4, <2>5, <2>6
<1>6. CASE NetworkError
  <2>1. /\ doing' = "returned" /\ result' = Failed("network", FALSE) /\ UNCHANGED <<url, target, passed, kept, total>>
        /\ \/ doing = "requesting" /\ asked' = Append(asked, url)
           \/ doing = "reading" /\ asked' = asked
    BY <1>6 DEF NetworkError, Return
  <2>2. CASE doing = "requesting" /\ asked' = Append(asked, url)
    BY <2>1, <2>2, AskStep DEF FetchShape, Turns, Honest, Failed, Body
  <2>3. CASE doing = "reading" /\ asked' = asked
    BY <2>1, <2>3 DEF FetchShape, Turns, Honest, Failed, Body
  <2> QED
    BY <2>1, <2>2, <2>3
<1>7. CASE Raise
  BY <1>7 DEF Raise, FetchShape, Turns, Honest, Body
<1> QED
  BY <1>1, <1>2, <1>3, <1>4, <1>5, <1>6, <1>7 DEF FetchNext

\* Each request of a fetch was checked right before it, there are at most
\* MaxRedirects + 1 of them, a page that is returned is the one the last request
\* was for, and its body is whole or cut before the limit: for any urls, any
\* redirects, any chunks and any limits.
THEOREM RequestsAreChecked == FetchSpec => []FetchKeepsItsWord
<1>1. FetchInv => FetchKeepsItsWord
  <2> SUFFICES ASSUME FetchInv
               PROVE  FetchKeepsItsWord
    OBVIOUS
  <2>1. DOMAIN asked = 1 .. Len(asked) /\ DOMAIN passed = 1 .. Len(passed)
    BY DEF FetchInv, FetchShape
  <2> QED
    BY <2>1 DEF FetchInv, FetchKeepsItsWord, Turns, Honest, Body
<1>2. FetchInit /\ [][FetchNext]_fetchVars => []FetchInv
  BY FetchStart, FetchStep, PTL
<1> QED
  BY <1>1, <1>2, PTL DEF FetchSpec

\* The part of the pipeline that moves is the fetch.
LEMMA PipelineFetches == Spec => FetchSpec
<1>1. Init => FetchInit
  BY DEF Init
<1>2. [Next]_vars => [FetchNext]_fetchVars
  BY DEF Next, vars
<1> QED
  BY <1>1, <1>2, PTL DEF Spec, FetchSpec

HIDE FetchAssumption

-----------------------------------------------------------------------------
(* Folds. *)

\* The greatest of a set of numbers is the one no other exceeds.
LEMMA MaxIs ==
    ASSUME NEW s \in SUBSET Nat, NEW x \in s, \A y \in s : y <= x
    PROVE  Max(s) = x
<1>1. \A y \in s : x >= y
  OBVIOUS
<1>2. \A z \in s : (\A y \in s : z >= y) => z = x
  <2> SUFFICES ASSUME NEW z \in s, \A y \in s : z >= y
               PROVE  z = x
    OBVIOUS
  <2>1. z >= x /\ x >= z /\ x \in Nat /\ z \in Nat
    BY <1>1
  <2> QED
    BY <2>1
<1> QED
  BY <1>1, <1>2 DEF Max

\* A set of numbers of an interval that is not empty has a greatest.
LEMMA MaxOfSome ==
    ASSUME NEW m \in Nat
    PROVE  \A s \in SUBSET (1 .. m) : s # {} => Max(s) \in s
<1> DEFINE S == {n \in 0 .. m : \A s \in SUBSET (1 .. n) : s # {} => Max(s) \in s}
<1>1. 0 \in S
  <2>1. 0 \in 0 .. m /\ \A s \in SUBSET (1 .. 0) : s = {}
    OBVIOUS
  <2> QED
    BY <2>1
<1>2. ASSUME NEW n \in 0 .. m - 1, n \in S
      PROVE  n + 1 \in S
  <2> SUFFICES ASSUME NEW s \in SUBSET (1 .. n + 1), s # {}
               PROVE  Max(s) \in s
    OBVIOUS
  <2>1. CASE n + 1 \in s
    <3>1. s \in SUBSET Nat /\ \A y \in s : y <= n + 1
      OBVIOUS
    <3> QED
      BY <2>1, <3>1, MaxIs
  <2>2. CASE n + 1 \notin s
    <3>1. s \in SUBSET (1 .. n)
      BY <2>2
    <3> QED
      BY <1>2, <3>1
  <2> QED
    BY <2>1, <2>2
<1>3. 0 .. m \subseteq S
  <2> HIDE DEF S
  <2> QED
    BY <1>1, <1>2, IntervalInduction
<1> QED
  BY <1>3

\* What the folds of the community modules are made of: functions on the sets
\* of positions, that take step[n][v] from v, the value without the greatest
\* position n, to the value with it.
Folding(m, V, e, step) ==
    {g \in [SUBSET (1 .. m) -> V] :
        /\ g[{}] = e
        /\ \A s \in SUBSET (1 .. m) : s # {} => g[s] = step[Max(s)][g[s \ {Max(s)}]]}

\* Such a function can be extended by one position.
LEMMA FoldingFurther ==
    ASSUME NEW m \in Nat, NEW V, NEW e \in V, NEW step, NEW f \in Folding(m, V, e, step),
           \A v \in V : step[m + 1][v] \in V
    PROVE  Folding(m + 1, V, e, step) # {}
<1> DEFINE g == [s \in SUBSET (1 .. m + 1) |->
                    IF m + 1 \in s THEN step[m + 1][f[s \ {m + 1}]] ELSE f[s]]
<1>1. /\ f \in [SUBSET (1 .. m) -> V] /\ f[{}] = e
      /\ \A s \in SUBSET (1 .. m) : s # {} => f[s] = step[Max(s)][f[s \ {Max(s)}]]
  BY DEF Folding
<1>2. \A s \in SUBSET (1 .. m + 1) : /\ s \ {m + 1} \in SUBSET (1 .. m)
                                     /\ m + 1 \notin s => s \in SUBSET (1 .. m)
  OBVIOUS
<1>3. g \in [SUBSET (1 .. m + 1) -> V]
  BY <1>1, <1>2
<1>4. g[{}] = e
  BY <1>1
<1>5. ASSUME NEW s \in SUBSET (1 .. m + 1), s # {}
      PROVE  g[s] = step[Max(s)][g[s \ {Max(s)}]]
  <2>1. CASE m + 1 \in s
    <3>1. s \in SUBSET Nat /\ m + 1 \in s /\ \A y \in s : y <= m + 1
      BY <2>1
    <3>2. Max(s) = m + 1
      BY <3>1, MaxIs
    <3>3. g[s \ {m + 1}] = f[s \ {m + 1}]
      BY <1>2
    <3>4. g[s] = step[m + 1][f[s \ {m + 1}]]
      BY <2>1
    <3> QED
      BY <3>2, <3>3, <3>4
  <2>2. CASE m + 1 \notin s
    <3>1. s \in SUBSET (1 .. m) /\ s \ {Max(s)} \in SUBSET (1 .. m)
      BY <1>2, <2>2
    <3>2. \A t \in SUBSET (1 .. m) : t \in SUBSET (1 .. m + 1) /\ m + 1 \notin t
      OBVIOUS
    <3>3. g[s] = f[s] /\ g[s \ {Max(s)}] = f[s \ {Max(s)}]
      BY <3>1, <3>2
    <3> QED
      BY <1>1, <1>5, <3>1, <3>3
  <2> QED
    BY <2>1, <2>2
<1> HIDE DEF g
<1>6. g \in Folding(m + 1, V, e, step)
  BY <1>3, <1>4, <1>5 DEF Folding
<1> QED
  BY <1>6

\* There is always such a function.
LEMMA FoldingExists ==
    ASSUME NEW k \in Nat, NEW V, NEW e \in V, NEW step,
           \A n \in 1 .. k : \A v \in V : step[n][v] \in V
    PROVE  Folding(k, V, e, step) # {}
<1> DEFINE S == {m \in 0 .. k : Folding(m, V, e, step) # {}}
<1>1. Folding(0, V, e, step) # {}
  <2> DEFINE f == [s \in SUBSET (1 .. 0) |-> e]
  <2>1. f \in [SUBSET (1 .. 0) -> V] /\ f[{}] = e /\ \A s \in SUBSET (1 .. 0) : s = {}
    OBVIOUS
  <2> HIDE DEF f
  <2>2. f \in Folding(0, V, e, step)
    BY <2>1 DEF Folding
  <2> QED
    BY <2>2
<1>2. ASSUME NEW m \in 0 .. k - 1, Folding(m, V, e, step) # {}
      PROVE  Folding(m + 1, V, e, step) # {}
  <2>1. PICK f : f \in Folding(m, V, e, step)
    BY <1>2
  <2>2. m \in Nat /\ m + 1 \in 1 .. k
    OBVIOUS
  <2> QED
    BY <2>1, <2>2, FoldingFurther
<1>3. 0 \in S /\ \A m \in 0 .. k - 1 : m \in S => m + 1 \in S
  BY <1>1, <1>2
<1>4. 0 .. k \subseteq S
  <2> HIDE DEF S
  <2> QED
    BY <1>3, IntervalInduction
<1> QED
  BY <1>4

\* The same of a function of which nothing else is known.
Folds(g, k, V, e, step) ==
    /\ g[{}] = e
    /\ \A s \in SUBSET (1 .. k) : s # {} /\ g[s \ {Max(s)}] \in V =>
           g[s] = step[Max(s)][g[s \ {Max(s)}]]

Reaches(v, k, V, e, step) == \E f \in Unfolding(k, V, e, step) : v = f[k]

\* Its last value is reached position by position.
LEMMA FoldingUnfolds ==
    ASSUME NEW k \in Nat, NEW V, NEW e \in V, NEW step,
           \A n \in 1 .. k : \A v \in V : step[n][v] \in V,
           NEW g, Folds(g, k, V, e, step)
    PROVE  Reaches(g[1 .. k], k, V, e, step)
<1> USE DEF Folds
<1> DEFINE f == [n \in 0 .. k |-> g[1 .. n]]
           S == {n \in 0 .. k : g[1 .. n] \in V}
<1>1. ASSUME NEW n \in 1 .. k
      PROVE  g[1 .. n - 1] \in V => g[1 .. n] = step[n][g[1 .. n - 1]]
  <2>1. 1 .. n \in SUBSET Nat /\ n \in 1 .. n /\ \A y \in 1 .. n : y <= n
    OBVIOUS
  <2>2. Max(1 .. n) = n
    BY <2>1, MaxIs
  <2>3. (1 .. n) \ {n} = 1 .. n - 1 /\ 1 .. n \in SUBSET (1 .. k) /\ 1 .. n # {}
    OBVIOUS
  <2> QED
    BY <2>2, <2>3
<1>2. g[1 .. 0] = e
  <2>1. 1 .. 0 = {}
    OBVIOUS
  <2> QED
    BY <2>1
<1>3. 0 \in S
  BY <1>2
<1>4. ASSUME NEW n \in 0 .. k - 1, n \in S
      PROVE  n + 1 \in S
  <2>1. n + 1 \in 1 .. k /\ (n + 1) - 1 = n
    OBVIOUS
  <2>2. g[1 .. n + 1] = step[n + 1][g[1 .. n]]
    BY <1>1, <1>4, <2>1
  <2> QED
    BY <1>4, <2>1, <2>2
<1>5. 0 .. k \subseteq S
  <2> HIDE DEF S
  <2> QED
    BY <1>3, <1>4, IntervalInduction
<1>6. f \in [0 .. k -> V] /\ f[0] = e /\ f[k] = g[1 .. k]
  BY <1>2, <1>5
<1>7. ASSUME NEW n \in 1 .. k
      PROVE  f[n] = step[n][f[n - 1]]
  <2>1. n \in 0 .. k /\ n - 1 \in 0 .. k
    OBVIOUS
  <2>2. f[n] = g[1 .. n] /\ f[n - 1] = g[1 .. n - 1] /\ g[1 .. n - 1] \in V
    BY <1>5, <2>1
  <2> QED
    BY <1>1, <2>2
<1> HIDE DEF f
<1> QED
  BY <1>6, <1>7 DEF Unfolding, Reaches

-----------------------------------------------------------------------------
(* What is kept of a sequence when repetitions are left out. *)

\* The sequences kept of the positions G of 1 .. k, n by n; e has their values.
Keeping(k, G, e, V) ==
    {f \in [0 .. k -> Seq(V)] :
        /\ f[0] = <<>>
        /\ \A n \in 1 .. k : f[n] = IF n \notin G \/ e[n] \in Range(f[n - 1]) THEN f[n - 1]
                                    ELSE Append(f[n - 1], e[n])}

\* The positions with a new value, and those of a set up to a position.
News(G, e) == {i \in G : \A j \in G : j < i => e[j] # e[i]}
UpTo(N, n) == {j \in N : j <= n}

\* One more position is counted if it is in the set.
LEMMA OneMore ==
    ASSUME NEW k \in Nat, NEW N \in SUBSET (1 .. k), NEW n \in Nat
    PROVE  /\ IsFiniteSet(UpTo(N, n)) /\ Cardinality(UpTo(N, n)) \in Nat
           /\ n + 1 \in N => Cardinality(UpTo(N, n + 1)) = Cardinality(UpTo(N, n)) + 1
           /\ n + 1 \notin N => UpTo(N, n + 1) = UpTo(N, n)
<1>1. IsFiniteSet(1 .. k)
  BY FS_Interval
<1>2. UpTo(N, n) \subseteq 1 .. k
  BY DEF UpTo
<1>3. IsFiniteSet(UpTo(N, n)) /\ Cardinality(UpTo(N, n)) \in Nat
  BY <1>1, <1>2, FS_Subset, FS_CardinalityType
<1>4. n + 1 \notin UpTo(N, n)
  BY DEF UpTo
<1>4a. \A j \in N : j <= n + 1 <=> j <= n \/ j = n + 1
  OBVIOUS
<1>5. n + 1 \in N => UpTo(N, n + 1) = UpTo(N, n) \cup {n + 1}
  BY <1>4a DEF UpTo
<1>6. n + 1 \notin N => UpTo(N, n + 1) = UpTo(N, n)
  BY <1>4a DEF UpTo
<1> QED
  BY <1>3, <1>4, <1>5, <1>6, FS_AddElement

\* No two positions of a set have the same place in it.
LEMMA PlacesDiffer ==
    ASSUME NEW k \in Nat, NEW N \in SUBSET (1 .. k), NEW i \in N, NEW j \in N,
           Cardinality(UpTo(N, i)) = Cardinality(UpTo(N, j))
    PROVE  i = j
<1>0. \A a \in N : a \in Nat
  OBVIOUS
<1>1. ASSUME NEW a \in N, NEW b \in N, a < b
      PROVE  Cardinality(UpTo(N, a)) < Cardinality(UpTo(N, b))
  <2>1. /\ IsFiniteSet(UpTo(N, a)) /\ IsFiniteSet(UpTo(N, b))
        /\ Cardinality(UpTo(N, a)) \in Nat /\ Cardinality(UpTo(N, b)) \in Nat
    BY <1>0, OneMore
  <2>2. b <= b /\ ~ (b <= a) /\ \A m \in N : m <= a => m <= b
    BY <1>0, <1>1
  <2>3. UpTo(N, a) \in SUBSET UpTo(N, b) /\ b \in UpTo(N, b) /\ b \notin UpTo(N, a)
    BY <2>2 DEF UpTo
  <2>4. UpTo(N, a) # UpTo(N, b)
    BY <2>3
  <2> QED
    BY <2>1, <2>3, <2>4, FS_Subset
<1>2. /\ Cardinality(UpTo(N, i)) \in Nat /\ Cardinality(UpTo(N, j)) \in Nat
      /\ i \in Nat /\ j \in Nat
  BY <1>0, OneMore
<1> QED
  BY <1>1, <1>2

\* What is kept is the value of each position with a new one, in its place.
InPlace(s, N, e, n) ==
    /\ Len(s) = Cardinality(UpTo(N, n))
    /\ \A i \in UpTo(N, n) : /\ Cardinality(UpTo(N, i)) \in 1 .. Len(s)
                            /\ s[Cardinality(UpTo(N, i))] = e[i]
    /\ \A m \in 1 .. Len(s) : \E i \in UpTo(N, n) : Cardinality(UpTo(N, i)) = m

\* The value of a new position takes the place after the last.
LEMMA NextPlace ==
    ASSUME NEW k \in Nat, NEW N \in SUBSET (1 .. k), NEW n \in Nat, n + 1 \in N,
           NEW V, NEW s \in Seq(V), NEW e, e[n + 1] \in V, InPlace(s, N, e, n)
    PROVE  InPlace(Append(s, e[n + 1]), N, e, n + 1)
<1> DEFINE t == Append(s, e[n + 1])
           C(i) == Cardinality(UpTo(N, i))
<1>1. /\ Len(s) \in Nat /\ Len(t) = Len(s) + 1 /\ t[Len(s) + 1] = e[n + 1]
      /\ \A m \in 1 .. Len(s) : t[m] = s[m]
  OBVIOUS
<1>2. Len(s) = C(n) /\ C(n + 1) = C(n) + 1
  BY OneMore DEF InPlace
<1>3. \A i \in UpTo(N, n + 1) : i = n + 1 \/ i \in UpTo(N, n)
  <2>1. \A j \in N : j <= n + 1 => j <= n \/ j = n + 1
    OBVIOUS
  <2> QED
    BY <2>1 DEF UpTo
<1>4. n + 1 \in UpTo(N, n + 1) /\ UpTo(N, n) \subseteq UpTo(N, n + 1)
  <2>1. n + 1 <= n + 1 /\ \A j \in N : j <= n => j <= n + 1
    OBVIOUS
  <2> QED
    BY <2>1 DEF UpTo
<1>5. /\ \A i \in UpTo(N, n) : C(i) \in 1 .. Len(s) /\ s[C(i)] = e[i]
      /\ \A m \in 1 .. Len(s) : \E i \in UpTo(N, n) : C(i) = m
  BY DEF InPlace
<1> HIDE DEF t, C
<1>6. \A i \in UpTo(N, n + 1) : C(i) \in 1 .. Len(t) /\ t[C(i)] = e[i]
  BY <1>1, <1>2, <1>3, <1>5
<1>7. \A m \in 1 .. Len(t) : \E i \in UpTo(N, n + 1) : C(i) = m
  <2> TAKE m \in 1 .. Len(t)
  <2>1. m \in 1 .. Len(s) \/ m = C(n + 1)
    BY <1>1, <1>2
  <2> QED
    BY <1>4, <1>5, <2>1
<1> QED
  BY <1>1, <1>2, <1>6, <1>7 DEF InPlace, t, C

\* What is kept is what is new.
LEMMA KeepsTheNew ==
    ASSUME NEW k \in Nat, NEW G \in SUBSET (1 .. k), NEW e, NEW V, \A i \in G : e[i] \in V,
           NEW f \in Keeping(k, G, e, V)
    PROVE  InPlace(f[k], News(G, e), e, k) /\ Range(f[k]) = {e[i] : i \in G}
<1> DEFINE N == News(G, e)
           S == {n \in 0 .. k : Range(f[n]) = {e[i] : i \in UpTo(G, n)} /\ InPlace(f[n], N, e, n)}
<1>1. /\ f \in [0 .. k -> Seq(V)] /\ f[0] = <<>>
      /\ \A n \in 1 .. k : f[n] = IF n \notin G \/ e[n] \in Range(f[n - 1]) THEN f[n - 1]
                                  ELSE Append(f[n - 1], e[n])
  BY DEF Keeping
<1>2. N \in SUBSET (1 .. k)
  BY DEF News
<1>3. 0 \in S
  <2>1. UpTo(G, 0) = {} /\ UpTo(N, 0) = {}
    <3>1. (\A j \in G : ~ (j <= 0)) /\ \A j \in N : ~ (j <= 0)
      BY <1>2
    <3> QED
      BY <3>1 DEF UpTo
  <2>2. Range(<<>>) = {} /\ Len(<<>>) = 0 /\ 1 .. 0 = {}
    BY DEF Range
  <2>3. Range(f[0]) = {e[i] : i \in UpTo(G, 0)}
    BY <1>1, <2>1, <2>2
  <2>4. InPlace(f[0], N, e, 0)
    BY <1>1, <2>1, <2>2, FS_EmptySet DEF InPlace
  <2> QED
    BY <2>3, <2>4
<1>4. ASSUME NEW n \in 0 .. k - 1, n \in S
      PROVE  n + 1 \in S
  <2>1. /\ n \in Nat /\ n + 1 \in 1 .. k /\ n + 1 \in 0 .. k /\ (n + 1) - 1 = n
        /\ f[n] \in Seq(V)
    BY <1>1
  <2>2. Range(f[n]) = {e[i] : i \in UpTo(G, n)} /\ InPlace(f[n], N, e, n)
    BY <1>4
  <2>3. n + 1 \in N <=> n + 1 \in G /\ e[n + 1] \notin Range(f[n])
    BY <2>1, <2>2 DEF News, UpTo
  <2>4. UpTo(G, n + 1) = UpTo(G, n) \cup IF n + 1 \in G THEN {n + 1} ELSE {}
    <3>1. \A j \in G : j <= n + 1 <=> j <= n \/ j = n + 1
      BY <2>1
    <3> QED
      BY <3>1 DEF UpTo
  <2> HIDE DEF N
  <2>5. CASE n + 1 \in N
    <3>1. f[n + 1] = Append(f[n], e[n + 1]) /\ n + 1 \in G /\ e[n + 1] \in V
      BY <1>1, <2>1, <2>3, <2>5
    <3>2. Range(f[n + 1]) = Range(f[n]) \cup {e[n + 1]}
      <4>1. /\ Len(f[n]) \in Nat /\ DOMAIN f[n] = 1 .. Len(f[n])
            /\ DOMAIN f[n + 1] = 1 .. Len(f[n]) + 1
            /\ f[n + 1][Len(f[n]) + 1] = e[n + 1]
            /\ \A m \in 1 .. Len(f[n]) : f[n + 1][m] = f[n][m]
        BY <2>1, <3>1
      <4>2. 1 .. Len(f[n]) + 1 = (1 .. Len(f[n])) \cup {Len(f[n]) + 1}
        BY <4>1
      <4> QED
        BY <4>1, <4>2 DEF Range
    <3>3. Range(f[n + 1]) = {e[i] : i \in UpTo(G, n + 1)}
      BY <2>2, <2>4, <3>1, <3>2
    <3>4. InPlace(f[n + 1], N, e, n + 1)
      <4>1. InPlace(Append(f[n], e[n + 1]), N, e, n + 1)
        BY <1>2, <2>1, <2>2, <2>5, <3>1, NextPlace
      <4> QED
        BY <3>1, <4>1
    <3> QED
      BY <2>1, <3>3, <3>4
  <2>6. CASE n + 1 \notin N
    <3>1. f[n + 1] = f[n]
      BY <1>1, <2>1, <2>3, <2>6
    <3>2. UpTo(N, n + 1) = UpTo(N, n)
      BY <1>2, <2>1, <2>6, OneMore
    <3>3. InPlace(f[n + 1], N, e, n + 1)
      BY <2>2, <3>1, <3>2 DEF InPlace
    <3>4. Range(f[n + 1]) = {e[i] : i \in UpTo(G, n + 1)}
      <4>1. n + 1 \in G => e[n + 1] \in {e[i] : i \in UpTo(G, n)}
        BY <2>2, <2>3, <2>6
      <4> QED
        BY <2>2, <2>4, <3>1, <4>1
    <3> QED
      BY <2>1, <3>3, <3>4
  <2> QED
    BY <2>5, <2>6
<1>5. 0 .. k \subseteq S
  <2> HIDE DEF S
  <2> QED
    BY <1>3, <1>4, IntervalInduction
<1>6. k \in S
  <2> HIDE DEF S
  <2> QED
    BY <1>5
<1>7. UpTo(G, k) = G
  <2>1. \A j \in G : j <= k
    OBVIOUS
  <2> QED
    BY <2>1 DEF UpTo
<1> QED
  BY <1>6, <1>7

\* _dedupe_ordered goes through the items one by one.
LEMMA DedupeUnfolds ==
    ASSUME NEW K, NEW items \in Seq(K)
    PROVE  \E f \in Keeping(Len(items), 1 .. Len(items), items, K) :
               DedupeOrdered(items) = f[Len(items)]
<1> DEFINE k == Len(items)
           V == Seq(K)
           add(n, v) == IF items[n] \in Range(v) THEN v ELSE Append(v, items[n])
           step == [n \in 1 .. k |-> [v \in V |-> add(n, v)]]
           Is(g) == g = [s \in SUBSET DOMAIN items |->
                            IF s = {} THEN <<>>
                            ELSE LET x == Max(s)
                                 IN  IF items[x] \in Range(g[s \ {x}]) THEN g[s \ {x}]
                                     ELSE Append(g[s \ {x}], items[x])]
           fold == CHOOSE g : Is(g)
<1>1. DedupeOrdered(items) = fold[DOMAIN items]
  BY DEF DedupeOrdered, FoldLeft, MapThenFoldSet
<1>2. /\ k \in Nat /\ <<>> \in V /\ DOMAIN items = 1 .. k
      /\ \A n \in 1 .. k : items[n] \in K
  OBVIOUS
<1>3. \A n \in 1 .. k : \A v \in V : add(n, v) \in V
  BY <1>2
<1>4. \A n \in 1 .. k : \A v \in V : step[n][v] = add(n, v)
  OBVIOUS
<1>5. \A n \in 1 .. k : \A v \in V : step[n][v] \in V
  <2> HIDE DEF V, add, step
  <2> QED
    BY <1>3, <1>4
<1> HIDE DEF V, step, k
<1>6. PICK g : g \in Folding(k, V, <<>>, step)
  BY <1>2, <1>5, FoldingExists
<1>7. Is(g)
  <2>1. /\ g = [s \in SUBSET (1 .. k) |-> g[s]] /\ g[{}] = <<>>
        /\ \A s \in SUBSET (1 .. k) : s # {} => g[s] = step[Max(s)][g[s \ {Max(s)}]]
        /\ \A s \in SUBSET (1 .. k) : g[s] \in V
    BY <1>6 DEF Folding
  <2>2. \A s \in SUBSET (1 .. k) : s # {} => Max(s) \in 1 .. k
    BY <1>2, MaxOfSome
  <2>3. \A s \in SUBSET (1 .. k) : s # {} => g[s] = add(Max(s), g[s \ {Max(s)}])
    <3> HIDE DEF add, Is
    <3> QED
      BY <1>4, <2>1, <2>2
  <2>4. \A s \in SUBSET (1 .. k) : g[s] = IF s = {} THEN <<>> ELSE add(Max(s), g[s \ {Max(s)}])
    <3> HIDE DEF add, Is
    <3> QED
      BY <2>1, <2>3
  <2> QED
    BY <1>2, <2>1, <2>4, Zenon
<1>8. Is(fold)
  <2> HIDE DEF Is
  <2> QED
    BY <1>7
<1> HIDE DEF fold
<1>9. /\ fold[{}] = <<>>
      /\ \A s \in SUBSET (1 .. k) : s # {} => fold[s] = add(Max(s), fold[s \ {Max(s)}])
  <2>1. fold = [s \in SUBSET (1 .. k) |-> IF s = {} THEN <<>> ELSE add(Max(s), fold[s \ {Max(s)}])]
    BY <1>2, <1>8, Zenon
  <2> HIDE DEF add, Is
  <2>2. \A s \in SUBSET (1 .. k) : fold[s] = IF s = {} THEN <<>> ELSE add(Max(s), fold[s \ {Max(s)}])
    BY <2>1, Zenon
  <2>3. {} \in SUBSET (1 .. k)
    OBVIOUS
  <2> QED
    BY <2>2, <2>3
<1>10. Folds(fold, k, V, <<>>, step)
  <2> HIDE DEF add, Is
  <2> QED
    BY <1>2, <1>4, <1>9, MaxOfSome DEF Folds
<1>11. PICK f \in Unfolding(k, V, <<>>, step) : fold[1 .. k] = f[k]
  <2> HIDE DEF add, Is
  <2>1. Reaches(fold[1 .. k], k, V, <<>>, step)
    BY <1>2, <1>5, <1>10, FoldingUnfolds
  <2> QED
    BY <2>1 DEF Reaches
<1>12. f \in [0 .. k -> V] /\ f[0] = <<>> /\ \A n \in 1 .. k : f[n] = add(n, f[n - 1])
  <2>1. f \in [0 .. k -> V] /\ f[0] = <<>> /\ \A n \in 1 .. k : f[n] = step[n][f[n - 1]]
    BY <1>11 DEF Unfolding
  <2>2. \A n \in 1 .. k : f[n - 1] \in V
    BY <1>2, <2>1
  <2> HIDE DEF add, Is
  <2> QED
    BY <1>4, <2>1, <2>2
<1>13. f \in Keeping(k, 1 .. k, items, K)
  BY <1>12 DEF Keeping, V
<1> QED
  BY <1>1, <1>2, <1>11, <1>13 DEF k

-----------------------------------------------------------------------------
(* The links of a page. *)

\* The positions of the tags that link to a page of the site, and what these
\* links are.
GoodTags(tags, base) == {i \in DOMAIN tags : tags[i] # <<>> /\ ~ Skipped(tags[i][1], base)}
LinkAt(tags, base) == [i \in GoodTags(tags, base) |-> Defragged(tags[i][1])]
LinksOf(tags, base) == {LinkAt(tags, base)[i] : i \in GoodTags(tags, base)}

\* extract_links goes through the tags one by one.
LEMMA LinksUnfold ==
    ASSUME NEW K, NEW tags \in Seq(K), NEW base
    PROVE  \E f \in Keeping(Len(tags), GoodTags(tags, base), LinkAt(tags, base), LinksOf(tags, base)) :
               ExtractLinks(tags, base) = f[Len(tags)]
<1> DEFINE k == Len(tags)
           V == Seq(LinksOf(tags, base))
           add(n, v) == TakeLink(v, tags[n], base)
           step == [n \in 1 .. k |-> [v \in V |-> add(n, v)]]
           Is(g) == g = [s \in SUBSET DOMAIN tags |->
                            IF s = {} THEN <<>>
                            ELSE LET x == Max(s) IN TakeLink(g[s \ {x}], tags[x], base)]
           fold == CHOOSE g : Is(g)
<1>1. ExtractLinks(tags, base) = fold[DOMAIN tags]
  BY DEF ExtractLinks, FoldLeft, MapThenFoldSet
<1>2. /\ k \in Nat /\ <<>> \in V /\ DOMAIN tags = 1 .. k
      /\ \A n \in 1 .. k : TRUE
  OBVIOUS
<1>3. \A n \in 1 .. k : \A v \in V : add(n, v) \in V
  <2> TAKE n \in 1 .. k
  <2> TAKE v \in V
  <2>1. CASE n \in GoodTags(tags, base)
    <3>1. Defragged(tags[n][1]) \in LinksOf(tags, base)
      BY <2>1 DEF LinksOf, LinkAt
    <3>2. Append(v, Defragged(tags[n][1])) \in V
      BY <3>1
    <3> QED
      BY <3>2 DEF TakeLink
  <2>2. CASE n \notin GoodTags(tags, base)
    BY <1>2, <2>2 DEF TakeLink, GoodTags
  <2> QED
    BY <2>1, <2>2
<1>4. \A n \in 1 .. k : \A v \in V : step[n][v] = add(n, v)
  OBVIOUS
<1>5. \A n \in 1 .. k : \A v \in V : step[n][v] \in V
  <2> HIDE DEF V, add, step
  <2> QED
    BY <1>3, <1>4
<1> HIDE DEF V, step, k
<1>6. PICK g : g \in Folding(k, V, <<>>, step)
  BY <1>2, <1>5, FoldingExists
<1>7. Is(g)
  <2>1. /\ g = [s \in SUBSET (1 .. k) |-> g[s]] /\ g[{}] = <<>>
        /\ \A s \in SUBSET (1 .. k) : s # {} => g[s] = step[Max(s)][g[s \ {Max(s)}]]
        /\ \A s \in SUBSET (1 .. k) : g[s] \in V
    BY <1>6 DEF Folding
  <2>2. \A s \in SUBSET (1 .. k) : s # {} => Max(s) \in 1 .. k
    BY <1>2, MaxOfSome
  <2>3. \A s \in SUBSET (1 .. k) : s # {} => g[s] = add(Max(s), g[s \ {Max(s)}])
    <3> HIDE DEF add, Is
    <3> QED
      BY <1>4, <2>1, <2>2
  <2>4. \A s \in SUBSET (1 .. k) : g[s] = IF s = {} THEN <<>> ELSE add(Max(s), g[s \ {Max(s)}])
    <3> HIDE DEF add, Is
    <3> QED
      BY <2>1, <2>3
  <2> QED
    BY <1>2, <2>1, <2>4, Zenon
<1>8. Is(fold)
  <2> HIDE DEF Is
  <2> QED
    BY <1>7
<1> HIDE DEF fold
<1>9. /\ fold[{}] = <<>>
      /\ \A s \in SUBSET (1 .. k) : s # {} => fold[s] = add(Max(s), fold[s \ {Max(s)}])
  <2>1. fold = [s \in SUBSET (1 .. k) |-> IF s = {} THEN <<>> ELSE add(Max(s), fold[s \ {Max(s)}])]
    BY <1>2, <1>8, Zenon
  <2> HIDE DEF add, Is
  <2>2. \A s \in SUBSET (1 .. k) : fold[s] = IF s = {} THEN <<>> ELSE add(Max(s), fold[s \ {Max(s)}])
    BY <2>1, Zenon
  <2>3. {} \in SUBSET (1 .. k)
    OBVIOUS
  <2> QED
    BY <2>2, <2>3
<1>10. Folds(fold, k, V, <<>>, step)
  <2> HIDE DEF add, Is
  <2> QED
    BY <1>2, <1>4, <1>9, MaxOfSome DEF Folds
<1>11. PICK f \in Unfolding(k, V, <<>>, step) : fold[1 .. k] = f[k]
  <2> HIDE DEF add, Is
  <2>1. Reaches(fold[1 .. k], k, V, <<>>, step)
    BY <1>2, <1>5, <1>10, FoldingUnfolds
  <2> QED
    BY <2>1 DEF Reaches
<1>12. f \in [0 .. k -> V] /\ f[0] = <<>> /\ \A n \in 1 .. k : f[n] = add(n, f[n - 1])
  <2>1. f \in [0 .. k -> V] /\ f[0] = <<>> /\ \A n \in 1 .. k : f[n] = step[n][f[n - 1]]
    BY <1>11 DEF Unfolding
  <2>2. \A n \in 1 .. k : f[n - 1] \in V
    BY <1>2, <2>1
  <2> HIDE DEF add, Is
  <2> QED
    BY <1>4, <2>1, <2>2
<1>13. \A n \in 1 .. k : f[n] = IF n \notin GoodTags(tags, base) \/ LinkAt(tags, base)[n] \in Range(f[n - 1])
                         THEN f[n - 1] ELSE Append(f[n - 1], LinkAt(tags, base)[n])
  BY <1>2, <1>12 DEF TakeLink, GoodTags, LinkAt
<1>14. f \in Keeping(k, GoodTags(tags, base), LinkAt(tags, base), LinksOf(tags, base))
  <2> HIDE DEF add, Is
  <2> QED
    BY <1>12, <1>13 DEF Keeping, V
<1> QED
  BY <1>1, <1>2, <1>11, <1>14 DEF k

\* The links of a page are those of its site, in order, whatever its tags.
LEMMA LinksAreRight ==
    ASSUME NEW K, NEW tags \in Seq(K), NEW base
    PROVE  LinksAreTheSites(tags, base)
<1> DEFINE k == Len(tags)
           G == GoodTags(tags, base)
           e == LinkAt(tags, base)
           N == News(G, e)
           links == ExtractLinks(tags, base)
           Good(i) == tags[i] # <<>> /\ ~ Skipped(tags[i][1], base)
           Newly(i) == Good(i) /\ \A j \in 1 .. i - 1 :
                           Good(j) => Defragged(tags[j][1]) # Defragged(tags[i][1])
<1>1. k \in Nat /\ DOMAIN tags = 1 .. k
  OBVIOUS
<1>2. G \in SUBSET (1 .. k) /\ \A i \in G : e[i] \in LinksOf(tags, base) /\ e[i] = Defragged(tags[i][1])
  BY DEF GoodTags, LinkAt, LinksOf
<1>3. \A i \in 1 .. k : Good(i) <=> i \in G
  BY DEF GoodTags
<1>4. InPlace(links, N, e, k)
  <2>1. PICK f \in Keeping(k, G, e, LinksOf(tags, base)) : links = f[k]
    BY LinksUnfold
  <2> HIDE DEF k, G, e, links, N
  <2>2. InPlace(f[k], News(G, e), e, k)
    BY <1>1, <1>2, <2>1, KeepsTheNew
  <2> QED
    BY <2>1, <2>2 DEF N
<1>5. \A i \in 1 .. k : Newly(i) <=> i \in N
  <2> TAKE i \in 1 .. k
  <2> HIDE DEF k, Good, G, e
  <2>1. \A j \in 1 .. k : j \in 1 .. i - 1 <=> j < i
    BY <1>1
  <2>2. \A j \in 1 .. i - 1 : j \in 1 .. k
    BY <1>1
  <2>3. \A j \in G : j \in 1 .. k
    BY <1>2
  <2>4. \A j \in G : e[j] = Defragged(tags[j][1])
    BY <1>2
  <2> QED
    BY <1>3, <2>1, <2>2, <2>3, <2>4 DEF News
<1>6. N \in SUBSET (1 .. k)
  BY <1>2 DEF News
<1> HIDE DEF k, N, e, G, links, Newly
<1>7. \A i \in 1 .. k : {j \in 1 .. i : Newly(j)} = UpTo(N, i)
  <2> TAKE i \in 1 .. k
  <2>1. \A j \in 1 .. i : j \in 1 .. k
    BY <1>1
  <2>2. \A j \in N : j \in 1 .. i <=> j <= i
    BY <1>1, <1>6
  <2> QED
    BY <1>5, <1>6, <2>1, <2>2 DEF UpTo
<1>8. {i \in 1 .. k : Newly(i)} = UpTo(N, k)
  <2>1. \A j \in N : j \in 1 .. k /\ j <= k
    BY <1>1, <1>6
  <2> QED
    BY <1>5, <2>1 DEF UpTo
<1>9. Len(links) = Cardinality({i \in DOMAIN tags : Newly(i)})
  BY <1>1, <1>4, <1>8 DEF InPlace
<1>10. \A i \in DOMAIN tags : Newly(i) =>
           links[Cardinality({j \in 1 .. i : Newly(j)})] = Defragged(tags[i][1])
  <2> TAKE i \in DOMAIN tags
  <2> HAVE Newly(i)
  <2>1. i \in 1 .. k /\ i \in N /\ i <= k
    BY <1>1, <1>5
  <2>2. i \in UpTo(N, k) /\ i \in G
    BY <2>1 DEF UpTo, N, News
  <2>3. links[Cardinality(UpTo(N, i))] = e[i]
    BY <1>4, <2>2 DEF InPlace
  <2> QED
    BY <1>2, <1>7, <2>1, <2>2, <2>3
<1> QED
  BY <1>9, <1>10 DEF LinksAreTheSites, links, Newly

-----------------------------------------------------------------------------
(* Lists that are cut. *)

\* The beginning of a list, up to a limit.
Cut(s, limit) == SubSeq(s, 1, IF Len(s) < limit THEN Len(s) ELSE limit)

\* A list that is cut is the first of what it was cut from.
LEMMA CutIsFirst ==
    ASSUME NEW V, NEW s \in Seq(V), NEW limit \in Nat
    PROVE  FirstOf(Cut(s, limit), s, limit)
<1> DEFINE n == IF Len(s) < limit THEN Len(s) ELSE limit
           c == Cut(s, limit)
<1>1. n \in 0 .. Len(s) /\ n \in Nat /\ Len(s) \in Nat
  OBVIOUS
<1>2. c = SubSeq(s, 1, n)
  BY DEF Cut
<1> HIDE DEF n, c
<1>3. Len(c) = n /\ SubSeq(c, 1, Len(c)) = SubSeq(s, 1, Len(c))
  BY <1>1, <1>2
<1>4. IsPrefix(c, s)
  BY <1>1, <1>3 DEF IsPrefix
<1> QED
  BY <1>3, <1>4 DEF FirstOf, c, n

\* Nothing, or one element.
Maybe(V) == {<<>>} \cup {<<v>> : v \in V}

\* That is a sequence too.
LEMMA MaybeIsSeq ==
    ASSUME NEW V, NEW c \in Maybe(V)
    PROVE  c \in Seq(V)
<1>1. <<>> \in Seq(V) /\ \A v \in V : <<v>> \in Seq(V)
  OBVIOUS
<1> QED
  BY <1>1 DEF Maybe

\* Cutting after something is appended, or adding it only below the limit.
LEMMA CutAppend ==
    ASSUME NEW V, NEW s \in Seq(V), NEW c \in Maybe(V), NEW limit \in Nat
    PROVE  /\ Cut(s, limit) \in Seq(V)
           /\ Cut(s \o c, limit) = IF Len(Cut(s, limit)) >= limit THEN Cut(s, limit)
                                   ELSE Cut(s, limit) \o c
<1>1. Len(s) \in Nat /\ Cut(s, limit) \in Seq(V)
  BY DEF Cut
<1>2. CASE c = <<>>
  <2>1. s \o c = s /\ Cut(s, limit) \o c = Cut(s, limit)
    BY <1>1, <1>2
  <2> QED
    BY <1>1, <2>1
<1>3. ASSUME NEW v \in V, c = <<v>>
      PROVE  Cut(s \o c, limit) = IF Len(Cut(s, limit)) >= limit THEN Cut(s, limit)
                                  ELSE Cut(s, limit) \o c
  <2>1. s \o c \in Seq(V) /\ Len(s \o c) = Len(s) + 1
    BY <1>3
  <2>2. CASE Len(s) < limit
    <3>1. Cut(s, limit) = s /\ Cut(s \o c, limit) = s \o c
      BY <1>1, <2>1, <2>2 DEF Cut
    <3> QED
      BY <1>1, <2>2, <3>1
  <2>3. CASE ~ (Len(s) < limit)
    <3>1. Len(Cut(s, limit)) = limit
      BY <1>1, <2>3 DEF Cut
    <3>2. SubSeq(s \o c, 1, limit) = SubSeq(s, 1, limit)
      BY <1>1, <1>3, <2>1, <2>3
    <3>3. Cut(s \o c, limit) = Cut(s, limit)
      BY <1>1, <2>1, <2>3, <3>2 DEF Cut
    <3> QED
      BY <3>1, <3>3
  <2> QED
    BY <2>2, <2>3
<1> QED
  BY <1>1, <1>2, <1>3 DEF Maybe

\* The contacts of a page are the first of its distinct ones, whatever is on it.
LEMMA ContactsAreFirst ==
    ASSUME NEW K, NEW items \in Seq(K)
    PROVE  KeepsFirstItems(items)
<1> DEFINE k == Len(items)
           G == 1 .. k
           N == News(G, items)
           d == DedupeOrdered(items)
           news == {i \in DOMAIN items : \A j \in 1 .. i - 1 : items[j] # items[i]}
           R(M) == [n \in 1 .. Cardinality(M) |->
                       items[CHOOSE i \in M : Cardinality({j \in M : j <= i}) = n]]
           r == R(news)
<1>1. k \in Nat /\ DOMAIN items = 1 .. k /\ \A i \in G : items[i] \in K
  OBVIOUS
<1>2. d \in Seq(K) /\ InPlace(d, N, items, k)
  <2>1. PICK f \in Keeping(k, G, items, K) : d = f[k]
    BY DedupeUnfolds
  <2> HIDE DEF k, d, N
  <2>2. InPlace(f[k], News(G, items), items, k)
    BY <1>1, <2>1, KeepsTheNew
  <2>3. f[k] \in Seq(K)
    BY <1>1, <2>1 DEF Keeping
  <2> QED
    BY <2>1, <2>2, <2>3 DEF N
<1>3. news = N
  <2> HIDE DEF k
  <2>1. \A i, j \in 1 .. k : j \in 1 .. i - 1 <=> j < i
    BY <1>1
  <2>2. \A i \in 1 .. k : \A j \in 1 .. i - 1 : j \in 1 .. k
    BY <1>1
  <2> QED
    BY <1>1, <2>1, <2>2 DEF News
<1>4. N \in SUBSET (1 .. k) /\ UpTo(N, k) = N
  <2>1. N \in SUBSET (1 .. k)
    BY DEF News
  <2>2. \A j \in N : j <= k
    BY <1>1, <2>1
  <2> QED
    BY <2>1, <2>2 DEF UpTo
<1>5. r = [n \in 1 .. Cardinality(N) |-> items[CHOOSE i \in N : Cardinality(UpTo(N, i)) = n]]
  <2>1. R(N) = [n \in 1 .. Cardinality(N) |-> items[CHOOSE i \in N : Cardinality(UpTo(N, i)) = n]]
    BY DEF UpTo
  <2> HIDE DEF R, news, N
  <2> QED
    BY <1>3, <2>1
<1> HIDE DEF k, N, d, r, R, news, G
<1>6. Len(d) = Cardinality(N) /\ Len(d) \in Nat /\ d = [n \in 1 .. Len(d) |-> d[n]]
  BY <1>2, <1>4 DEF InPlace
<1>7. \A n \in 1 .. Len(d) : d[n] = r[n]
  <2> TAKE n \in 1 .. Len(d)
  <2>1. PICK i \in N : Cardinality(UpTo(N, i)) = n
    BY <1>2, <1>4 DEF InPlace
  <2>2. d[n] = items[i]
    BY <1>2, <1>4, <2>1 DEF InPlace
  <2>3. \A j \in N : Cardinality(UpTo(N, j)) = n => j = i
    BY <1>1, <1>4, <2>1, PlacesDiffer
  <2>4. (CHOOSE j \in N : Cardinality(UpTo(N, j)) = n) = i
    BY <2>1, <2>3
  <2> QED
    BY <1>5, <1>6, <2>2, <2>4
<1>8. r = d
  BY <1>5, <1>6, <1>7
<1>9. FirstOf(Contacts(items), d, MaxItems)
  <2>1. Contacts(items) = Cut(d, MaxItems)
    BY DEF Contacts, Cut, d
  <2> QED
    BY <1>2, <2>1, TextAssumption, CutIsFirst
<1> QED
  BY <1>8, <1>9 DEF KeepsFirstItems, r, R, news

-----------------------------------------------------------------------------
(* What a sequence of sequences has in all. *)

\* Sequences are joined one by one.
Joining(seqs, V) ==
    {f \in [0 .. Len(seqs) -> Seq(V)] :
        f[0] = <<>> /\ \A n \in 1 .. Len(seqs) : f[n] = f[n - 1] \o seqs[n]}

\* FlattenSeq joins sequences one by one.
LEMMA FlattenUnfolds ==
    ASSUME NEW V, NEW seqs \in Seq(Seq(V))
    PROVE  \E f \in Joining(seqs, V) : FlattenSeq(seqs) = f[Len(seqs)]
<1> DEFINE k == Len(seqs)
           S == Seq(V)
           step == [n \in 1 .. k |-> [v \in S |-> v \o seqs[n]]]
           Is(g) == g = [i \in 1 .. k |-> IF i = 1 THEN seqs[i] ELSE g[i - 1] \o seqs[i]]
           joined == CHOOSE g : Is(g)
<1>1. k \in Nat /\ <<>> \in S /\ \A n \in 1 .. k : seqs[n] \in S
  OBVIOUS
<1>2. FlattenSeq(seqs) = IF k = 0 THEN seqs ELSE joined[k]
  BY DEF FlattenSeq
<1>3. \A n \in 1 .. k : \A v \in S : v \o seqs[n] \in S /\ step[n][v] = v \o seqs[n]
  BY <1>1
<1> HIDE DEF S, step
<1>4. \A n \in 1 .. k : \A v \in S : step[n][v] \in S
  BY <1>3
<1> HIDE DEF k
<1>5. PICK f : f \in Unfolding(k, S, <<>>, step)
  BY <1>1, <1>4, UnfoldingExists
<1>6. /\ f \in [0 .. k -> S] /\ f[0] = <<>>
      /\ \A n \in 1 .. k : f[n] = f[n - 1] \o seqs[n]
  <2>1. /\ f \in [0 .. k -> S] /\ f[0] = <<>>
        /\ \A n \in 1 .. k : f[n] = step[n][f[n - 1]]
    BY <1>5 DEF Unfolding
  <2>2. \A n \in 1 .. k : f[n - 1] \in S
    BY <1>1, <2>1
  <2> QED
    BY <1>3, <2>1, <2>2
<1>7. f \in Joining(seqs, V)
  BY <1>6 DEF Joining, S, k
<1>8. k = 0 => FlattenSeq(seqs) = f[k]
  BY <1>2, <1>6 DEF k
<1>9. k # 0 => FlattenSeq(seqs) = f[k]
  <2> SUFFICES ASSUME k # 0
               PROVE  joined[k] = f[k]
    BY <1>2
  <2> DEFINE g == [i \in 1 .. k |-> f[i]]
  <2>1. \A i \in 1 .. k : g[i] = IF i = 1 THEN seqs[i] ELSE g[i - 1] \o seqs[i]
    <3> TAKE i \in 1 .. k
    <3>1. CASE i = 1
      <4>1. seqs[1] \in Seq(V) /\ f[1] = <<>> \o seqs[1]
        <5>1. 1 \in 1 .. k /\ 1 - 1 = 0
          BY <3>1
        <5> QED
          BY <1>1, <1>6, <5>1 DEF S
      <4> QED
        BY <3>1, <4>1
    <3>2. CASE i # 1
      <4>1. i - 1 \in 1 .. k
        BY <1>1, <3>2
      <4> QED
        BY <1>6, <3>2, <4>1
    <3> QED
      BY <3>1, <3>2
  <2>2. Is(g)
    <3>1. g = [i \in 1 .. k |-> g[i]]
      OBVIOUS
    <3> HIDE DEF g
    <3> QED
      BY <2>1, <3>1, Zenon
  <2>3. Is(joined)
    <3> HIDE DEF Is, g
    <3> QED
      BY <2>2
  <2> HIDE DEF joined, g
  <2>4. \A i \in 1 .. k : joined[i] = IF i = 1 THEN seqs[i] ELSE joined[i - 1] \o seqs[i]
    BY <2>3, Zenon
  <2> DEFINE T == {n \in 0 .. k : n # 0 => joined[n] = f[n]}
  <2>5. 0 \in T
    BY <1>1
  <2>6. ASSUME NEW n \in 0 .. k - 1, n \in T
        PROVE  n + 1 \in T
    <3>1. n + 1 \in 1 .. k /\ n + 1 \in 0 .. k /\ (n + 1) - 1 = n /\ n \in Nat
      BY <1>1
    <3>2. f[n + 1] = f[n] \o seqs[n + 1]
      BY <1>6, <3>1
    <3>3. CASE n = 0
      <4>1. joined[1] = seqs[1] /\ f[1] = <<>> \o seqs[1] /\ seqs[1] \in Seq(V)
        <5>1. 1 \in 1 .. k /\ n + 1 = 1
          BY <3>1, <3>3
        <5> QED
          BY <1>1, <1>6, <2>4, <3>2, <3>3, <5>1 DEF S
      <4>2. joined[1] = f[1]
        BY <4>1
      <4> QED
        BY <3>1, <3>3, <4>2
    <3>4. CASE n # 0
      <4>1. joined[n + 1] = joined[n] \o seqs[n + 1]
        <5>1. n + 1 # 1
          BY <3>1, <3>4
        <5> HIDE DEF Is
        <5> QED
          BY <2>4, <3>1, <5>1
      <4> QED
        BY <2>6, <3>1, <3>2, <3>4, <4>1
    <3> QED
      BY <3>3, <3>4
  <2>7. 0 .. k \subseteq T
    <3> HIDE DEF T, Is
    <3> QED
      BY <1>1, <2>5, <2>6, IntervalInduction
  <2> QED
    BY <1>1, <2>7
<1> QED
  BY <1>7, <1>8, <1>9 DEF k

\* One more sequence comes last.
LEMMA FlattenAppend ==
    ASSUME NEW V, NEW seqs \in Seq(Seq(V)), NEW c \in Seq(V)
    PROVE  /\ FlattenSeq(seqs) \in Seq(V)
           /\ FlattenSeq(Append(seqs, c)) = FlattenSeq(seqs) \o c
<1> DEFINE k == Len(seqs)
           more == Append(seqs, c)
<1>1. /\ k \in Nat /\ more \in Seq(Seq(V)) /\ Len(more) = k + 1 /\ more[k + 1] = c
      /\ \A n \in 1 .. k : more[n] = seqs[n]
  OBVIOUS
<1>2. PICK f \in Joining(seqs, V) : FlattenSeq(seqs) = f[k]
  BY FlattenUnfolds
<1> HIDE DEF more
<1>3. PICK g \in Joining(more, V) : FlattenSeq(more) = g[k + 1]
  <2>1. \E g \in Joining(more, V) : FlattenSeq(more) = g[Len(more)]
    BY <1>1, FlattenUnfolds
  <2> QED
    BY <1>1, <2>1
<1>4. /\ f \in [0 .. k -> Seq(V)] /\ f[0] = <<>>
      /\ \A n \in 1 .. k : f[n] = f[n - 1] \o seqs[n]
  BY <1>2 DEF Joining
<1>5. g[0] = <<>> /\ \A n \in 1 .. k + 1 : g[n] = g[n - 1] \o more[n]
  BY <1>1, <1>3 DEF Joining
<1> HIDE DEF k
<1> DEFINE S == {n \in 0 .. k : g[n] = f[n]}
<1>6. 0 \in S
  BY <1>1, <1>4, <1>5
<1>7. ASSUME NEW n \in 0 .. k - 1, n \in S
      PROVE  n + 1 \in S
  <2>1. n + 1 \in 1 .. k /\ n + 1 \in 0 .. k /\ n + 1 \in 1 .. k + 1 /\ (n + 1) - 1 = n
    BY <1>1
  <2> QED
    BY <1>1, <1>4, <1>5, <1>7, <2>1
<1>8. 0 .. k \subseteq S
  <2> HIDE DEF S
  <2> QED
    BY <1>1, <1>6, <1>7, IntervalInduction
<1>9. g[k] = f[k] /\ f[k] \in Seq(V)
  BY <1>1, <1>4, <1>8
<1>10. g[k + 1] = g[k] \o more[k + 1]
  <2>1. k + 1 \in 1 .. k + 1 /\ (k + 1) - 1 = k
    BY <1>1
  <2> QED
    BY <1>5, <2>1
<1> QED
  BY <1>1, <1>2, <1>3, <1>9, <1>10 DEF more

\* Something is appended to two sequences that are joined.
LEMMA ConcatAppend ==
    ASSUME NEW V, NEW s \in Seq(V), NEW t \in Seq(V), NEW v \in V
    PROVE  s \o t \in Seq(V) /\ s \o Append(t, v) = Append(s \o t, v)
OBVIOUS

\* The beginnings of a sequence grow by one element.
LEMMA BeginningsGrow ==
    ASSUME NEW V, NEW s \in Seq(V)
    PROVE  /\ SubSeq(s, 1, 0) = <<>> /\ SubSeq(s, 1, Len(s)) = s
           /\ \A n \in 0 .. Len(s) : SubSeq(s, 1, n) \in Seq(V)
           /\ \A n \in 1 .. Len(s) : SubSeq(s, 1, n) = Append(SubSeq(s, 1, n - 1), s[n])
<1>1. SubSeq(s, 1, 0) = <<>> /\ SubSeq(s, 1, Len(s)) = s
  OBVIOUS
<1>2. \A n \in 0 .. Len(s) : SubSeq(s, 1, n) \in Seq(V) /\ Len(SubSeq(s, 1, n)) = n
  OBVIOUS
<1>3. ASSUME NEW n \in 1 .. Len(s)
      PROVE  SubSeq(s, 1, n) = Append(SubSeq(s, 1, n - 1), s[n])
  <2>1. n - 1 \in 0 .. Len(s) /\ n \in 0 .. Len(s) /\ s[n] \in V
    OBVIOUS
  <2> QED
    BY <1>2, <2>1
<1> QED
  BY <1>1, <1>2, <1>3

-----------------------------------------------------------------------------
(* The objects of a page. *)

\* The lists of objects after each candidate of a script.
Taking(script, start, V) ==
    {f \in [0 .. Len(script) -> Seq(V)] :
        f[0] = start /\ \A n \in 1 .. Len(script) : f[n] = TakeObject(f[n - 1], script[n])}

\* _parse_json_ld goes through the candidates of a script one by one.
LEMMA CandidatesUnfold ==
    ASSUME NEW V0, NEW script \in Seq(Maybe(V0)), NEW start \in Seq(V0)
    PROVE  \E f \in Taking(script, start, V0) : FoldLeft(TakeObject, start, script) = f[Len(script)]
<1> DEFINE k == Len(script)
           V == Seq(V0)
           add(n, v) == TakeObject(v, script[n])
           step == [n \in 1 .. k |-> [v \in V |-> add(n, v)]]
           Is(g) == g = [s \in SUBSET DOMAIN script |->
                            IF s = {} THEN start
                            ELSE LET x == Max(s) IN TakeObject(g[s \ {x}], script[x])]
           fold == CHOOSE g : Is(g)
<1>1. FoldLeft(TakeObject, start, script) = fold[DOMAIN script]
  BY DEF FoldLeft, MapThenFoldSet
<1>2. /\ k \in Nat /\ start \in V /\ DOMAIN script = 1 .. k
      /\ \A n \in 1 .. k : script[n] \in Maybe(V0)
  OBVIOUS
<1>3. \A n \in 1 .. k : \A v \in V : add(n, v) \in V
  <2> TAKE n \in 1 .. k
  <2> TAKE v \in V
  <2>1. script[n] \in Seq(V0)
    BY <1>2, MaybeIsSeq
  <2>2. v \o script[n] \in V
    BY <2>1
  <2> QED
    BY <2>2 DEF TakeObject
<1>4. \A n \in 1 .. k : \A v \in V : step[n][v] = add(n, v)
  OBVIOUS
<1>5. \A n \in 1 .. k : \A v \in V : step[n][v] \in V
  <2> HIDE DEF V, add, step
  <2> QED
    BY <1>3, <1>4
<1> HIDE DEF V, step, k
<1>6. PICK g : g \in Folding(k, V, start, step)
  BY <1>2, <1>5, FoldingExists
<1>7. Is(g)
  <2>1. /\ g = [s \in SUBSET (1 .. k) |-> g[s]] /\ g[{}] = start
        /\ \A s \in SUBSET (1 .. k) : s # {} => g[s] = step[Max(s)][g[s \ {Max(s)}]]
        /\ \A s \in SUBSET (1 .. k) : g[s] \in V
    BY <1>6 DEF Folding
  <2>2. \A s \in SUBSET (1 .. k) : s # {} => Max(s) \in 1 .. k
    BY <1>2, MaxOfSome
  <2>3. \A s \in SUBSET (1 .. k) : s # {} => g[s] = add(Max(s), g[s \ {Max(s)}])
    <3> HIDE DEF add, Is
    <3> QED
      BY <1>4, <2>1, <2>2
  <2>4. \A s \in SUBSET (1 .. k) : g[s] = IF s = {} THEN start ELSE add(Max(s), g[s \ {Max(s)}])
    <3> HIDE DEF add, Is
    <3> QED
      BY <2>1, <2>3
  <2> QED
    BY <1>2, <2>1, <2>4, Zenon
<1>8. Is(fold)
  <2> HIDE DEF Is
  <2> QED
    BY <1>7
<1> HIDE DEF fold
<1>9. /\ fold[{}] = start
      /\ \A s \in SUBSET (1 .. k) : s # {} => fold[s] = add(Max(s), fold[s \ {Max(s)}])
  <2>1. fold = [s \in SUBSET (1 .. k) |-> IF s = {} THEN start ELSE add(Max(s), fold[s \ {Max(s)}])]
    BY <1>2, <1>8, Zenon
  <2> HIDE DEF add, Is
  <2>2. \A s \in SUBSET (1 .. k) : fold[s] = IF s = {} THEN start ELSE add(Max(s), fold[s \ {Max(s)}])
    BY <2>1, Zenon
  <2>3. {} \in SUBSET (1 .. k)
    OBVIOUS
  <2> QED
    BY <2>2, <2>3
<1>10. Folds(fold, k, V, start, step)
  <2> HIDE DEF add, Is
  <2> QED
    BY <1>2, <1>4, <1>9, MaxOfSome DEF Folds
<1>11. PICK f \in Unfolding(k, V, start, step) : fold[1 .. k] = f[k]
  <2> HIDE DEF add, Is
  <2>1. Reaches(fold[1 .. k], k, V, start, step)
    BY <1>2, <1>5, <1>10, FoldingUnfolds
  <2> QED
    BY <2>1 DEF Reaches
<1>12. f \in [0 .. k -> V] /\ f[0] = start /\ \A n \in 1 .. k : f[n] = add(n, f[n - 1])
  <2>1. f \in [0 .. k -> V] /\ f[0] = start /\ \A n \in 1 .. k : f[n] = step[n][f[n - 1]]
    BY <1>11 DEF Unfolding
  <2>2. \A n \in 1 .. k : f[n - 1] \in V
    BY <1>2, <2>1
  <2> HIDE DEF add, Is
  <2> QED
    BY <1>4, <2>1, <2>2
<1>13. f \in Taking(script, start, V0)
  <2> HIDE DEF Is
  <2> QED
    BY <1>12 DEF Taking, V, k
<1> QED
  BY <1>1, <1>2, <1>11, <1>13 DEF k

\* The lists of objects after each script.
Reading(scripts, V) ==
    {f \in [0 .. Len(scripts) -> Seq(V)] :
        /\ f[0] = <<>>
        /\ \A n \in 1 .. Len(scripts) : f[n] = FoldLeft(TakeObject, f[n - 1], scripts[n])}

\* _parse_json_ld goes through the scripts one by one.
LEMMA ScriptsUnfold ==
    ASSUME NEW V0, NEW scripts \in Seq(Seq(Maybe(V0)))
    PROVE  \E f \in Reading(scripts, V0) : JsonLd(scripts) = f[Len(scripts)]
<1> DEFINE k == Len(scripts)
           V == Seq(V0)
           add(n, v) == FoldLeft(TakeObject, v, scripts[n])
           step == [n \in 1 .. k |-> [v \in V |-> add(n, v)]]
           Is(g) == g = [s \in SUBSET DOMAIN scripts |->
                            IF s = {} THEN <<>>
                            ELSE LET x == Max(s) IN FoldLeft(TakeObject, g[s \ {x}], scripts[x])]
           fold == CHOOSE g : Is(g)
<1>1. JsonLd(scripts) = fold[DOMAIN scripts]
  BY DEF JsonLd, FoldLeft, MapThenFoldSet
<1>2. /\ k \in Nat /\ <<>> \in V /\ DOMAIN scripts = 1 .. k
      /\ \A n \in 1 .. k : scripts[n] \in Seq(Maybe(V0))
  OBVIOUS
<1>3. \A n \in 1 .. k : \A v \in V : add(n, v) \in V
  <2> TAKE n \in 1 .. k
  <2> TAKE v \in V
  <2>1. PICK f \in Taking(scripts[n], v, V0) : add(n, v) = f[Len(scripts[n])]
    BY <1>2, CandidatesUnfold
  <2>2. Len(scripts[n]) \in 0 .. Len(scripts[n])
    BY <1>2
  <2> HIDE DEF add
  <2> QED
    BY <2>1, <2>2 DEF Taking
<1>4. \A n \in 1 .. k : \A v \in V : step[n][v] = add(n, v)
  OBVIOUS
<1>5. \A n \in 1 .. k : \A v \in V : step[n][v] \in V
  <2> HIDE DEF V, add, step
  <2> QED
    BY <1>3, <1>4
<1> HIDE DEF V, step, k
<1>6. PICK g : g \in Folding(k, V, <<>>, step)
  BY <1>2, <1>5, FoldingExists
<1>7. Is(g)
  <2>1. /\ g = [s \in SUBSET (1 .. k) |-> g[s]] /\ g[{}] = <<>>
        /\ \A s \in SUBSET (1 .. k) : s # {} => g[s] = step[Max(s)][g[s \ {Max(s)}]]
        /\ \A s \in SUBSET (1 .. k) : g[s] \in V
    BY <1>6 DEF Folding
  <2>2. \A s \in SUBSET (1 .. k) : s # {} => Max(s) \in 1 .. k
    BY <1>2, MaxOfSome
  <2>3. \A s \in SUBSET (1 .. k) : s # {} => g[s] = add(Max(s), g[s \ {Max(s)}])
    <3> HIDE DEF add, Is
    <3> QED
      BY <1>4, <2>1, <2>2
  <2>4. \A s \in SUBSET (1 .. k) : g[s] = IF s = {} THEN <<>> ELSE add(Max(s), g[s \ {Max(s)}])
    <3> HIDE DEF add, Is
    <3> QED
      BY <2>1, <2>3
  <2> QED
    BY <1>2, <2>1, <2>4, Zenon
<1>8. Is(fold)
  <2> HIDE DEF Is
  <2> QED
    BY <1>7
<1> HIDE DEF fold
<1>9. /\ fold[{}] = <<>>
      /\ \A s \in SUBSET (1 .. k) : s # {} => fold[s] = add(Max(s), fold[s \ {Max(s)}])
  <2>1. fold = [s \in SUBSET (1 .. k) |-> IF s = {} THEN <<>> ELSE add(Max(s), fold[s \ {Max(s)}])]
    BY <1>2, <1>8, Zenon
  <2> HIDE DEF add, Is
  <2>2. \A s \in SUBSET (1 .. k) : fold[s] = IF s = {} THEN <<>> ELSE add(Max(s), fold[s \ {Max(s)}])
    BY <2>1, Zenon
  <2>3. {} \in SUBSET (1 .. k)
    OBVIOUS
  <2> QED
    BY <2>2, <2>3
<1>10. Folds(fold, k, V, <<>>, step)
  <2> HIDE DEF add, Is
  <2> QED
    BY <1>2, <1>4, <1>9, MaxOfSome DEF Folds
<1>11. PICK f \in Unfolding(k, V, <<>>, step) : fold[1 .. k] = f[k]
  <2> HIDE DEF add, Is
  <2>1. Reaches(fold[1 .. k], k, V, <<>>, step)
    BY <1>2, <1>5, <1>10, FoldingUnfolds
  <2> QED
    BY <2>1 DEF Reaches
<1>12. f \in [0 .. k -> V] /\ f[0] = <<>> /\ \A n \in 1 .. k : f[n] = add(n, f[n - 1])
  <2>1. f \in [0 .. k -> V] /\ f[0] = <<>> /\ \A n \in 1 .. k : f[n] = step[n][f[n - 1]]
    BY <1>11 DEF Unfolding
  <2>2. \A n \in 1 .. k : f[n - 1] \in V
    BY <1>2, <2>1
  <2> HIDE DEF add, Is
  <2> QED
    BY <1>4, <2>1, <2>2
<1>13. f \in Reading(scripts, V0)
  <2> HIDE DEF Is
  <2> QED
    BY <1>12 DEF Reading, V, k
<1> QED
  BY <1>1, <1>2, <1>11, <1>13 DEF k

\* A script adds its objects up to the limit, whichever scripts came before.
LEMMA ScriptCuts ==
    ASSUME NEW V, NEW A \in Seq(Maybe(V)), NEW script \in Seq(Maybe(V))
    PROVE  FoldLeft(TakeObject, Cut(FlattenSeq(A), MaxItems), script)
               = Cut(FlattenSeq(A \o script), MaxItems)
<1> DEFINE k == Len(script)
           B(n) == SubSeq(script, 1, n)
           start == Cut(FlattenSeq(A), MaxItems)
<1>1. k \in Nat /\ MaxItems \in Nat /\ \A n \in 1 .. k : script[n] \in Maybe(V)
  BY TextAssumption
<1>2. \A s \in Seq(Maybe(V)) : s \in Seq(Seq(V))
  BY MaybeIsSeq
<1>3. /\ B(0) = <<>> /\ B(k) = script
      /\ \A n \in 0 .. k : B(n) \in Seq(Maybe(V))
      /\ \A n \in 1 .. k : B(n) = Append(B(n - 1), script[n])
  BY BeginningsGrow
<1>4. start \in Seq(V)
  <2>1. FlattenSeq(A) \in Seq(V)
    BY <1>2, FlattenAppend
  <2>2. <<>> \in Maybe(V)
    BY DEF Maybe
  <2> QED
    BY <1>1, <2>1, <2>2, CutAppend
<1>5. PICK f \in Taking(script, start, V) : FoldLeft(TakeObject, start, script) = f[k]
  BY <1>4, CandidatesUnfold
<1>6. f[0] = start /\ \A n \in 1 .. k : f[n] = TakeObject(f[n - 1], script[n])
  BY DEF Taking
<1> HIDE DEF k, B, start
<1> DEFINE S == {n \in 0 .. k : f[n] = Cut(FlattenSeq(A \o B(n)), MaxItems)}
<1>7. 0 \in S
  <2>1. A \o <<>> = A
    OBVIOUS
  <2>2. A \o B(0) = A
    BY <1>3, <2>1
  <2>3. f[0] = Cut(FlattenSeq(A \o B(0)), MaxItems)
    BY <1>6, <2>2 DEF start
  <2> QED
    BY <1>1, <2>3
<1>8. ASSUME NEW n \in 0 .. k - 1, n \in S
      PROVE  n + 1 \in S
  <2>1. n + 1 \in 1 .. k /\ n + 1 \in 0 .. k /\ n \in 0 .. k /\ (n + 1) - 1 = n
    BY <1>1
  <2>2. B(n) \in Seq(Maybe(V)) /\ script[n + 1] \in Maybe(V) /\ B(n + 1) = Append(B(n), script[n + 1])
    BY <1>1, <1>3, <2>1
  <2>3. A \o B(n) \in Seq(Maybe(V)) /\ A \o B(n + 1) = Append(A \o B(n), script[n + 1])
    <3>1. /\ A \o B(n) \in Seq(Maybe(V))
          /\ A \o Append(B(n), script[n + 1]) = Append(A \o B(n), script[n + 1])
      BY <2>2, ConcatAppend
    <3> QED
      BY <2>2, <3>1, Zenon
  <2>4. A \o B(n) \in Seq(Seq(V)) /\ script[n + 1] \in Seq(V)
    BY <1>2, <2>2, <2>3, MaybeIsSeq
  <2> DEFINE s == FlattenSeq(A \o B(n))
             c == script[n + 1]
  <2>5. s \in Seq(V) /\ FlattenSeq(A \o B(n + 1)) = s \o c
    BY <2>3, <2>4, FlattenAppend
  <2>6. c \in Maybe(V)
    BY <2>2
  <2>7. f[n] = Cut(s, MaxItems) /\ f[n + 1] = TakeObject(f[n], c)
    BY <1>6, <1>8, <2>1
  <2> HIDE DEF s, c
  <2>8. Cut(s \o c, MaxItems) = IF Len(Cut(s, MaxItems)) >= MaxItems THEN Cut(s, MaxItems)
                                ELSE Cut(s, MaxItems) \o c
    BY <1>1, <2>5, <2>6, CutAppend
  <2>9. f[n + 1] = Cut(s \o c, MaxItems)
    BY <2>7, <2>8 DEF TakeObject
  <2> QED
    BY <2>1, <2>5, <2>9
<1>9. 0 .. k \subseteq S
  <2> HIDE DEF S
  <2> QED
    BY <1>1, <1>7, <1>8, IntervalInduction
<1>10. f[k] = Cut(FlattenSeq(A \o B(k)), MaxItems)
  BY <1>1, <1>9
<1> QED
  BY <1>3, <1>5, <1>10 DEF start

\* The JSON-LD objects of a page are the first of all its scripts.
LEMMA ObjectsAreFirst ==
    ASSUME NEW V, NEW scripts \in Seq(Seq(Maybe(V)))
    PROVE  KeepsFirstObjects(scripts)
<1> DEFINE k == Len(scripts)
           C == Maybe(V)
           B(n) == SubSeq(scripts, 1, n)
           all(n) == FlattenSeq(B(n))
<1>1. k \in Nat /\ MaxItems \in Nat /\ \A n \in 1 .. k : scripts[n] \in Seq(C)
  BY TextAssumption
<1>2. /\ B(0) = <<>> /\ B(k) = scripts
      /\ \A n \in 0 .. k : B(n) \in Seq(Seq(C))
      /\ \A n \in 1 .. k : B(n) = Append(B(n - 1), scripts[n])
  BY BeginningsGrow
<1>3. PICK f \in Reading(scripts, V) : JsonLd(scripts) = f[k]
  BY ScriptsUnfold
<1>4. f[0] = <<>> /\ \A n \in 1 .. k : f[n] = FoldLeft(TakeObject, f[n - 1], scripts[n])
  BY DEF Reading
<1> HIDE DEF k, B, C
<1> DEFINE S == {n \in 0 .. k : f[n] = Cut(FlattenSeq(all(n)), MaxItems)}
<1>5. \A n \in 0 .. k : all(n) \in Seq(C)
  <2> TAKE n \in 0 .. k
  <2>1. B(n) \in Seq(Seq(C)) /\ <<>> \in Seq(C)
    BY <1>2
  <2> QED
    BY <2>1, FlattenAppend
<1>6. 0 \in S
  <2>1. FlattenSeq(<<>>) = <<>>
    BY DEF FlattenSeq
  <2>2. Cut(<<>>, MaxItems) = <<>>
    BY <1>1 DEF Cut
  <2> QED
    BY <1>1, <1>2, <1>4, <2>1, <2>2
<1>7. ASSUME NEW n \in 0 .. k - 1, n \in S
      PROVE  n + 1 \in S
  <2>1. n + 1 \in 1 .. k /\ n + 1 \in 0 .. k /\ n \in 0 .. k /\ (n + 1) - 1 = n
    BY <1>1
  <2>2. /\ B(n) \in Seq(Seq(C)) /\ scripts[n + 1] \in Seq(C)
        /\ B(n + 1) = Append(B(n), scripts[n + 1]) /\ all(n) \in Seq(C)
    BY <1>1, <1>2, <1>5, <2>1
  <2>3. all(n + 1) = all(n) \o scripts[n + 1]
    BY <2>2, FlattenAppend
  <2>4. f[n] = Cut(FlattenSeq(all(n)), MaxItems)
    BY <1>7
  <2> HIDE DEF all
  <2>5. f[n + 1] = FoldLeft(TakeObject, Cut(FlattenSeq(all(n)), MaxItems), scripts[n + 1])
    <3>1. f[n + 1] = FoldLeft(TakeObject, f[n], scripts[n + 1])
      BY <1>4, <2>1
    <3> QED
      BY <2>4, <3>1
  <2>6. FoldLeft(TakeObject, Cut(FlattenSeq(all(n)), MaxItems), scripts[n + 1])
            = Cut(FlattenSeq(all(n) \o scripts[n + 1]), MaxItems)
    BY <2>2, ScriptCuts DEF C
  <2> QED
    BY <2>1, <2>3, <2>5, <2>6
<1>8. 0 .. k \subseteq S
  <2> HIDE DEF S
  <2> QED
    BY <1>1, <1>6, <1>7, IntervalInduction
<1>9. JsonLd(scripts) = Cut(FlattenSeq(all(k)), MaxItems) /\ all(k) \in Seq(C)
  BY <1>1, <1>3, <1>5, <1>8
<1>10. FlattenSeq(all(k)) \in Seq(V)
  <2>1. all(k) \in Seq(Seq(V))
    BY <1>9, MaybeIsSeq DEF C
  <2> QED
    BY <2>1, FlattenAppend
<1>11. FirstOf(JsonLd(scripts), FlattenSeq(all(k)), MaxItems)
  BY <1>1, <1>9, <1>10, CutIsFirst
<1> QED
  BY <1>2, <1>11 DEF KeepsFirstObjects

-----------------------------------------------------------------------------
(* The hits of a search. *)

\* Results whose links lead to nothing or to an element of V.
Links(V) == [path : V, target : Maybe(V), web : BOOLEAN]

\* What a result gives, and the limit the code looks at.
HitsOf(r) == IF r = <<>> THEN <<>> ELSE UnwrapRedirect(r[1])
Limit(maxResults) == IF maxResults = 0 THEN 1 ELSE maxResults

\* A result gives at most one hit.
LEMMA OneHit ==
    ASSUME NEW V, NEW r \in Maybe(Links(V))
    PROVE  HitsOf(r) \in Maybe(V)
BY DEF Maybe, Links, HitsOf, UnwrapRedirect

\* A r adds its hits as long as the limit is not reached.
LEMMA TakesUpToLimit ==
    ASSUME NEW V, NEW hits \in Seq(V), NEW r \in Maybe(Links(V)), NEW maxResults \in Nat
    PROVE  /\ TakeHit(hits, r, maxResults) \in Seq(V)
           /\ TakeHit(hits, r, maxResults) =
                  IF Len(hits) >= Limit(maxResults) THEN hits ELSE hits \o HitsOf(r)
<1>1. HitsOf(r) \in Seq(V)
  BY OneHit, MaybeIsSeq
<1>2. Len(hits) \in Nat /\ (hits = <<>> <=> Len(hits) = 0)
  OBVIOUS
<1>3. Len(hits) >= Limit(maxResults) <=> Len(hits) >= maxResults /\ hits # <<>>
  BY <1>2 DEF Limit
<1>4. hits \o <<>> = hits /\ hits \o HitsOf(r) \in Seq(V)
  BY <1>1
<1>5. CASE r = <<>>
  BY <1>4, <1>5 DEF TakeHit, HitsOf
<1>6. CASE r # <<>>
  BY <1>3, <1>4, <1>6 DEF TakeHit, HitsOf
<1> QED
  BY <1>5, <1>6

\* The hits after each r.
Hitting(results, maxResults, V) ==
    {f \in [0 .. Len(results) -> Seq(V)] :
        /\ f[0] = <<>>
        /\ \A n \in 1 .. Len(results) : f[n] = TakeHit(f[n - 1], results[n], maxResults)}

\* search goes through the results one by one.
LEMMA SearchUnfolds ==
    ASSUME NEW V0, NEW results \in Seq(Maybe(Links(V0))), NEW maxResults \in Nat
    PROVE  \E f \in Hitting(results, maxResults, V0) : Search(results, maxResults) = f[Len(results)]
<1> DEFINE k == Len(results)
           V == Seq(V0)
           add(n, v) == TakeHit(v, results[n], maxResults)
           step == [n \in 1 .. k |-> [v \in V |-> add(n, v)]]
           Is(g) == g = [s \in SUBSET DOMAIN results |->
                            IF s = {} THEN <<>>
                            ELSE LET x == Max(s) IN TakeHit(g[s \ {x}], results[x], maxResults)]
           fold == CHOOSE g : Is(g)
<1>1. Search(results, maxResults) = fold[DOMAIN results]
  BY DEF Search, FoldLeft, MapThenFoldSet
<1>2. /\ k \in Nat /\ <<>> \in V /\ DOMAIN results = 1 .. k
      /\ \A n \in 1 .. k : results[n] \in Maybe(Links(V0))
  OBVIOUS
<1>3. \A n \in 1 .. k : \A v \in V : add(n, v) \in V
  BY <1>2, TakesUpToLimit
<1>4. \A n \in 1 .. k : \A v \in V : step[n][v] = add(n, v)
  OBVIOUS
<1>5. \A n \in 1 .. k : \A v \in V : step[n][v] \in V
  <2> HIDE DEF V, add, step
  <2> QED
    BY <1>3, <1>4
<1> HIDE DEF V, step, k
<1>6. PICK g : g \in Folding(k, V, <<>>, step)
  BY <1>2, <1>5, FoldingExists
<1>7. Is(g)
  <2>1. /\ g = [s \in SUBSET (1 .. k) |-> g[s]] /\ g[{}] = <<>>
        /\ \A s \in SUBSET (1 .. k) : s # {} => g[s] = step[Max(s)][g[s \ {Max(s)}]]
        /\ \A s \in SUBSET (1 .. k) : g[s] \in V
    BY <1>6 DEF Folding
  <2>2. \A s \in SUBSET (1 .. k) : s # {} => Max(s) \in 1 .. k
    BY <1>2, MaxOfSome
  <2>3. \A s \in SUBSET (1 .. k) : s # {} => g[s] = add(Max(s), g[s \ {Max(s)}])
    <3> HIDE DEF add, Is
    <3> QED
      BY <1>4, <2>1, <2>2
  <2>4. \A s \in SUBSET (1 .. k) : g[s] = IF s = {} THEN <<>> ELSE add(Max(s), g[s \ {Max(s)}])
    <3> HIDE DEF add, Is
    <3> QED
      BY <2>1, <2>3
  <2> QED
    BY <1>2, <2>1, <2>4, Zenon
<1>8. Is(fold)
  <2> HIDE DEF Is
  <2> QED
    BY <1>7
<1> HIDE DEF fold
<1>9. /\ fold[{}] = <<>>
      /\ \A s \in SUBSET (1 .. k) : s # {} => fold[s] = add(Max(s), fold[s \ {Max(s)}])
  <2>1. fold = [s \in SUBSET (1 .. k) |-> IF s = {} THEN <<>> ELSE add(Max(s), fold[s \ {Max(s)}])]
    BY <1>2, <1>8, Zenon
  <2> HIDE DEF add, Is
  <2>2. \A s \in SUBSET (1 .. k) : fold[s] = IF s = {} THEN <<>> ELSE add(Max(s), fold[s \ {Max(s)}])
    BY <2>1, Zenon
  <2>3. {} \in SUBSET (1 .. k)
    OBVIOUS
  <2> QED
    BY <2>2, <2>3
<1>10. Folds(fold, k, V, <<>>, step)
  <2> HIDE DEF add, Is
  <2> QED
    BY <1>2, <1>4, <1>9, MaxOfSome DEF Folds
<1>11. PICK f \in Unfolding(k, V, <<>>, step) : fold[1 .. k] = f[k]
  <2> HIDE DEF add, Is
  <2>1. Reaches(fold[1 .. k], k, V, <<>>, step)
    BY <1>2, <1>5, <1>10, FoldingUnfolds
  <2> QED
    BY <2>1 DEF Reaches
<1>12. f \in [0 .. k -> V] /\ f[0] = <<>> /\ \A n \in 1 .. k : f[n] = add(n, f[n - 1])
  <2>1. f \in [0 .. k -> V] /\ f[0] = <<>> /\ \A n \in 1 .. k : f[n] = step[n][f[n - 1]]
    BY <1>11 DEF Unfolding
  <2>2. \A n \in 1 .. k : f[n - 1] \in V
    BY <1>2, <2>1
  <2> HIDE DEF add, Is
  <2> QED
    BY <1>4, <2>1, <2>2
<1>13. f \in Hitting(results, maxResults, V0)
  <2> HIDE DEF Is
  <2> QED
    BY <1>12 DEF Hitting, V, k
<1> QED
  BY <1>1, <1>2, <1>11, <1>13 DEF k

\* The hits of a search are the first urls of its results, whatever is listed.
LEMMA HitsAreFirst ==
    ASSUME NEW V, NEW results \in Seq(Maybe(Links(V))), NEW maxResults \in Nat
    PROVE  KeepsFirstHits(results, maxResults)
<1> DEFINE k == Len(results)
           hits == [i \in 1 .. k |-> HitsOf(results[i])]
           B(n) == SubSeq(hits, 1, n)
           limit == Limit(maxResults)
<1>1. k \in Nat /\ limit \in Nat /\ \A n \in 1 .. k : results[n] \in Maybe(Links(V))
  BY DEF Limit
<1>2. \A n \in 1 .. k : hits[n] \in Maybe(V) /\ hits[n] \in Seq(V) /\ hits[n] = HitsOf(results[n])
  BY <1>1, OneHit, MaybeIsSeq
<1>3. hits \in Seq(Seq(V)) /\ Len(hits) = k
  BY <1>1, <1>2
<1>4. PICK f \in Hitting(results, maxResults, V) : Search(results, maxResults) = f[k]
  BY SearchUnfolds
<1>5. /\ f \in [0 .. k -> Seq(V)] /\ f[0] = <<>>
      /\ \A n \in 1 .. k : f[n] = TakeHit(f[n - 1], results[n], maxResults)
  BY DEF Hitting
<1> HIDE DEF hits
<1>6. /\ B(0) = <<>> /\ B(k) = hits
      /\ \A n \in 0 .. k : B(n) \in Seq(Seq(V))
      /\ \A n \in 1 .. k : B(n) = Append(B(n - 1), hits[n])
  BY <1>3, BeginningsGrow
<1> HIDE DEF k, B, limit
<1> DEFINE S == {n \in 0 .. k : f[n] = Cut(FlattenSeq(B(n)), limit)}
<1>7. 0 \in S
  <2>1. FlattenSeq(<<>>) = <<>>
    BY DEF FlattenSeq
  <2>2. Cut(<<>>, limit) = <<>>
    BY <1>1 DEF Cut
  <2> QED
    BY <1>1, <1>5, <1>6, <2>1, <2>2
<1>8. ASSUME NEW n \in 0 .. k - 1, n \in S
      PROVE  n + 1 \in S
  <2>1. n + 1 \in 1 .. k /\ n + 1 \in 0 .. k /\ n \in 0 .. k /\ (n + 1) - 1 = n
    BY <1>1
  <2>2. /\ B(n) \in Seq(Seq(V)) /\ B(n + 1) = Append(B(n), hits[n + 1])
        /\ hits[n + 1] \in Maybe(V) /\ hits[n + 1] \in Seq(V)
        /\ hits[n + 1] = HitsOf(results[n + 1])
    BY <1>2, <1>6, <2>1
  <2> DEFINE s == FlattenSeq(B(n))
             c == hits[n + 1]
  <2>3. s \in Seq(V) /\ FlattenSeq(B(n + 1)) = s \o c
    BY <2>2, FlattenAppend
  <2>4. /\ f[n] = Cut(s, limit) /\ f[n] \in Seq(V)
        /\ f[n + 1] = TakeHit(f[n], results[n + 1], maxResults)
    BY <1>5, <1>8, <2>1
  <2>5. f[n + 1] = IF Len(f[n]) >= limit THEN f[n] ELSE f[n] \o c
    <3>1. f[n + 1] = IF Len(f[n]) >= Limit(maxResults) THEN f[n] ELSE f[n] \o HitsOf(results[n + 1])
      <4>1. results[n + 1] \in Maybe(Links(V))
        BY <1>1, <2>1
      <4> HIDE DEF s
      <4> QED
        BY <2>4, <4>1, TakesUpToLimit
    <3> QED
      BY <2>2, <3>1 DEF limit
  <2>6. c \in Maybe(V)
    BY <2>2
  <2> HIDE DEF s, c
  <2>7. Cut(s \o c, limit) = IF Len(Cut(s, limit)) >= limit THEN Cut(s, limit) ELSE Cut(s, limit) \o c
    BY <1>1, <2>3, <2>6, CutAppend
  <2> QED
    BY <2>1, <2>3, <2>4, <2>5, <2>7
<1>9. 0 .. k \subseteq S
  <2> HIDE DEF S
  <2> QED
    BY <1>1, <1>7, <1>8, IntervalInduction
<1>10. Search(results, maxResults) = Cut(FlattenSeq(hits), limit)
  BY <1>1, <1>4, <1>6, <1>9
<1>11. FirstOf(Search(results, maxResults), FlattenSeq(hits), limit)
  <2>1. FlattenSeq(hits) \in Seq(V)
    BY <1>3, FlattenAppend
  <2> QED
    BY <1>1, <1>10, <2>1, CutIsFirst
<1>12. DOMAIN results = 1 .. k
  BY DEF k
<1> QED
  BY <1>11, <1>12 DEF KeepsFirstHits, hits, HitsOf, limit, Limit

-----------------------------------------------------------------------------
(* The key of a url: its path. *)

\* Behind n there are slashes alone, and at n there is none.
Bare(path, n) ==
    (\A i \in n + 1 .. Len(path) : path[i] = "/") /\ (n > 0 => path[n] # "/")

\* A path has one place where it is bare.
LEMMA BareSomewhere ==
    ASSUME NEW path \in Seq(STRING)
    PROVE  /\ \E n \in 0 .. Len(path) : Bare(path, n)
           /\ \A m, n \in 0 .. Len(path) : Bare(path, m) /\ Bare(path, n) => m = n
<1> DEFINE k == Len(path)
           Upto(m) == \E n \in 0 .. m : /\ \A i \in n + 1 .. m : path[i] = "/"
                                        /\ n > 0 => path[n] # "/"
           S == {m \in 0 .. k : Upto(m)}
<1>1. k \in Nat
  OBVIOUS
<1>2. 0 \in S
  <2>1. 0 \in 0 .. k /\ 0 \in 0 .. 0 /\ ~ (0 > 0) /\ \A i \in 0 + 1 .. 0 : path[i] = "/"
    BY <1>1
  <2> QED
    BY <2>1
<1>3. ASSUME NEW m \in 0 .. k - 1, Upto(m)
      PROVE  Upto(m + 1)
  <2>1. m + 1 \in 0 .. k /\ m + 1 \in 0 .. m + 1 /\ m \in Nat
    BY <1>1
  <2>2. PICK n \in 0 .. m : (\A i \in n + 1 .. m : path[i] = "/") /\ (n > 0 => path[n] # "/")
    BY <1>3
  <2>3. CASE path[m + 1] = "/"
    <3>1. \A i \in n + 1 .. m + 1 : i \in n + 1 .. m \/ i = m + 1
      BY <2>1
    <3>2. n \in 0 .. m + 1
      BY <2>1
    <3> QED
      BY <2>2, <2>3, <3>1, <3>2
  <2>4. CASE path[m + 1] # "/"
    <3>1. \A i \in (m + 1) + 1 .. m + 1 : path[i] = "/"
      BY <2>1
    <3> QED
      BY <2>1, <2>4, <3>1
  <2> QED
    BY <2>3, <2>4
<1>4. 0 .. k \subseteq S
  <2> HIDE DEF Upto
  <2>1. \A m \in 0 .. k - 1 : m \in S => m + 1 \in S
    BY <1>1, <1>3
  <2> HIDE DEF S, k
  <2> QED
    BY <1>1, <1>2, <2>1, IntervalInduction
<1>5. Upto(k)
  <2>1. k \in 0 .. k
    BY <1>1
  <2> HIDE DEF Upto
  <2> QED
    BY <1>4, <2>1
<1>6. \E n \in 0 .. k : Bare(path, n)
  BY <1>5 DEF Bare
<1>7. ASSUME NEW m \in 0 .. k, NEW n \in 0 .. k, Bare(path, m), Bare(path, n), m < n
      PROVE  FALSE
  <2>1. n \in m + 1 .. k /\ n > 0
    BY <1>1, <1>7
  <2> QED
    BY <1>7, <2>1 DEF Bare
<1>8. \A m, n \in 0 .. k : m < n \/ n < m \/ m = n
  BY <1>1
<1> HIDE DEF k
<1>9. \A m, n \in 0 .. k : Bare(path, m) /\ Bare(path, n) => m = n
  BY <1>7, <1>8
<1> QED
  BY <1>6, <1>9 DEF k

\* What is left of a path that is not the root's, and at which place it is cut.
LEMMA StrippedThere ==
    ASSUME NEW path \in Seq(STRING), path # <<"/">>, NEW n \in 0 .. Len(path), Bare(path, n)
    PROVE  /\ Stripped(path) = SubSeq(path, 1, n)
           /\ Stripped(path) \in Seq(STRING) /\ Len(Stripped(path)) = n
           /\ \A i \in 1 .. n : Stripped(path)[i] = path[i]
<1>1. (CHOOSE m \in 0 .. Len(path) : Bare(path, m)) = n
  BY BareSomewhere
<1>2. Stripped(path) = SubSeq(path, 1, n)
  BY <1>1 DEF Stripped, Bare
<1>3. n \in Nat /\ n <= Len(path) /\ Len(path) \in Nat
  OBVIOUS
<1>4. SubSeq(path, 1, n) \in Seq(STRING) /\ Len(SubSeq(path, 1, n)) = n
      /\ \A i \in 1 .. n : SubSeq(path, 1, n)[i] = path[i]
  BY <1>3
<1> QED
  BY <1>2, <1>4

\* The root's path stays, and no other becomes it.
LEMMA RootStays ==
    ASSUME NEW path \in Seq(STRING)
    PROVE  /\ Stripped(path) \in Seq(STRING)
           /\ Stripped(path) = <<"/">> <=> path = <<"/">>
<1>1. CASE path = <<"/">>
  BY <1>1 DEF Stripped
<1>2. CASE path # <<"/">>
  <2>1. PICK n \in 0 .. Len(path) : Bare(path, n)
    BY BareSomewhere
  <2>2. /\ Stripped(path) \in Seq(STRING) /\ Len(Stripped(path)) = n
        /\ \A i \in 1 .. n : Stripped(path)[i] = path[i]
    BY <1>2, <2>1, StrippedThere
  <2>3. ASSUME Stripped(path) = <<"/">>
        PROVE  FALSE
    <3>1. n = 1 /\ Stripped(path)[1] = "/"
      BY <2>2, <2>3
    <3>2. path[1] = "/" /\ n > 0
      BY <2>2, <3>1
    <3> QED
      BY <2>1, <3>1, <3>2 DEF Bare
  <2> QED
    BY <1>2, <2>2, <2>3
<1> QED
  BY <1>1, <1>2

\* Equal up to a place, and slashes behind it: the paths are bare at one place.
LEMMA BareTogether ==
    ASSUME NEW p \in Seq(STRING), NEW q \in Seq(STRING), NEW n \in 0 .. Len(p), n <= Len(q),
           SubSeq(p, 1, n) = SubSeq(q, 1, n),
           \A i \in n + 1 .. Len(p) : p[i] = "/", \A i \in n + 1 .. Len(q) : q[i] = "/",
           NEW a \in 0 .. Len(p), Bare(p, a)
    PROVE  a <= n /\ a \in 0 .. Len(q) /\ Bare(q, a)
<1>1. Len(p) \in Nat /\ Len(q) \in Nat /\ n \in Nat /\ a \in Nat
  OBVIOUS
<1>2. a <= n
  <2> SUFFICES ASSUME n < a
               PROVE  FALSE
    BY <1>1
  <2>1. a \in n + 1 .. Len(p) /\ a > 0
    BY <1>1
  <2> QED
    BY <2>1 DEF Bare
<1>3. \A i \in 1 .. n : p[i] = q[i]
  <2>1. \A i \in 1 .. n : SubSeq(p, 1, n)[i] = p[i] /\ SubSeq(q, 1, n)[i] = q[i]
    BY <1>1
  <2> QED
    BY <2>1
<1>4. \A i \in a + 1 .. Len(q) : i \in n + 1 .. Len(q) \/ (i \in 1 .. n /\ i \in a + 1 .. Len(p))
  BY <1>1
<1>5. \A i \in a + 1 .. Len(q) : q[i] = "/"
  BY <1>3, <1>4 DEF Bare
<1>6. a > 0 => a \in 1 .. n
  BY <1>1, <1>2
<1> QED
  BY <1>1, <1>2, <1>3, <1>5, <1>6 DEF Bare

\* Two paths are stripped to the same exactly when they are the same path.
LEMMA PathsAreTheSame ==
    ASSUME NEW p \in Seq(STRING), NEW q \in Seq(STRING)
    PROVE  Stripped(p) = Stripped(q) <=> SamePath(p, q)
<1>1. CASE p = <<"/">> \/ q = <<"/">>
  <2>1. Stripped(p) = Stripped(q) => p = q
    BY <1>1, RootStays
  <2> QED
    BY <1>1, <2>1 DEF SamePath
<1>2. CASE p # <<"/">> /\ q # <<"/">>
  <2>1. PICK a \in 0 .. Len(p) : Bare(p, a)
    BY BareSomewhere
  <2>2. PICK b \in 0 .. Len(q) : Bare(q, b)
    BY BareSomewhere
  <2>3. /\ Stripped(p) = SubSeq(p, 1, a) /\ Len(Stripped(p)) = a
        /\ Stripped(q) = SubSeq(q, 1, b) /\ Len(Stripped(q)) = b
    BY <1>2, <2>1, <2>2, StrippedThere
  <2>4. ASSUME Stripped(p) = Stripped(q)
        PROVE  SamePath(p, q)
    <3>1. a = b /\ a <= Len(q) /\ SubSeq(p, 1, a) = SubSeq(q, 1, a)
      BY <2>3, <2>4
    <3>2. \A s \in {p, q} : \A i \in a + 1 .. Len(s) : s[i] = "/"
      BY <2>1, <2>2, <3>1 DEF Bare
    <3> QED
      BY <1>2, <3>1, <3>2 DEF SamePath
  <2>5. ASSUME SamePath(p, q)
        PROVE  Stripped(p) = Stripped(q)
    <3>1. CASE p = q
      BY <3>1
    <3>2. CASE p # q
      <4>1. PICK n \in 0 .. Len(p) :
                /\ n <= Len(q) /\ SubSeq(p, 1, n) = SubSeq(q, 1, n)
                /\ \A s \in {p, q} : \A i \in n + 1 .. Len(s) : s[i] = "/"
        BY <2>5, <3>2 DEF SamePath
      <4>2. a <= n /\ a \in 0 .. Len(q) /\ Bare(q, a)
        BY <2>1, <4>1, BareTogether
      <4>3. a = b
        BY <2>2, <4>2, BareSomewhere
      <4>4. SubSeq(p, 1, a) = SubSeq(q, 1, a)
        <5>1. SubSeq(SubSeq(p, 1, n), 1, a) = SubSeq(SubSeq(q, 1, n), 1, a)
          BY <4>1
        <5>2. \A i \in 1 .. a : p[i] = q[i]
          <6>1. n <= Len(p) /\ n \in Nat /\ Len(p) \in Nat /\ Len(q) \in Nat /\ n <= Len(q)
            BY <4>1
          <6>2. \A i \in 1 .. n : SubSeq(p, 1, n)[i] = p[i] /\ SubSeq(q, 1, n)[i] = q[i]
            BY <6>1
          <6>3. \A i \in 1 .. a : i \in 1 .. n
            BY <4>2, <6>1
          <6> QED
            BY <4>1, <6>2, <6>3
        <5>3. /\ SubSeq(p, 1, a) = [i \in 1 .. a |-> p[i]]
              /\ SubSeq(q, 1, a) = [i \in 1 .. a |-> q[i]]
          BY <4>2
        <5> QED
          BY <5>2, <5>3
      <4> QED
        BY <2>3, <4>3, <4>4
    <3> QED
      BY <3>1, <3>2
  <2> QED
    BY <2>4, <2>5
<1> QED
  BY <1>1, <1>2

-----------------------------------------------------------------------------
(* The key of a url: its query. *)

Pairs == Nat \X Nat

\* The places of the pairs that do not track, and their order when sorted.
KeptAt(query) == {i \in DOMAIN query : query[i][1] \notin Tracking}
NoLater(query, j, i) == PairBefore(query[j], query[i]) \/ (query[j] = query[i] /\ j <= i)
PlaceOf(query, i) == Cardinality({j \in KeptAt(query) : NoLater(query, j, i)})

\* Pairs are ordered by their key, then by their value.
LEMMA PairOrder ==
    /\ \A p \in Pairs : ~ PairBefore(p, p)
    /\ \A p, q \in Pairs : PairBefore(p, q) \/ PairBefore(q, p) \/ p = q
    /\ \A p, q, r \in Pairs : PairBefore(p, q) /\ PairBefore(q, r) => PairBefore(p, r)
<1>1. \A p \in Pairs : p[1] \in Nat /\ p[2] \in Nat
  BY DEF Pairs
<1>2. \A p, q \in Pairs : p[1] = q[1] /\ p[2] = q[2] => p = q
  BY DEF Pairs
<1> QED
  BY <1>1, <1>2 DEF PairBefore

\* Places of a query are sorted: any two of them are.
LEMMA PlaceOrder ==
    ASSUME NEW query \in Seq(Pairs)
    PROVE  /\ \A i \in KeptAt(query) : i \in 1 .. Len(query) /\ NoLater(query, i, i)
           /\ \A i, j \in KeptAt(query) :
                  /\ NoLater(query, i, j) \/ NoLater(query, j, i)
                  /\ NoLater(query, i, j) /\ NoLater(query, j, i) => i = j
           /\ \A h, i, j \in KeptAt(query) :
                  NoLater(query, h, i) /\ NoLater(query, i, j) => NoLater(query, h, j)
<1>1. \A i \in KeptAt(query) : i \in 1 .. Len(query) /\ i \in Nat /\ query[i] \in Pairs
  BY DEF KeptAt
<1>2. \A i, j \in Nat : i <= i /\ (i <= j \/ j <= i) /\ (i <= j /\ j <= i => i = j)
  OBVIOUS
<1>3. \A h, i, j \in Nat : h <= i /\ i <= j => h <= j
  OBVIOUS
<1>4. \A i \in KeptAt(query) : NoLater(query, i, i)
  BY <1>1, <1>2 DEF NoLater
<1>5. ASSUME NEW i \in KeptAt(query), NEW j \in KeptAt(query)
      PROVE  /\ NoLater(query, i, j) \/ NoLater(query, j, i)
             /\ NoLater(query, i, j) /\ NoLater(query, j, i) => i = j
  <2>1. /\ query[i] \in Pairs /\ query[j] \in Pairs /\ i \in Nat /\ j \in Nat
        /\ PairBefore(query[i], query[j]) \/ PairBefore(query[j], query[i]) \/ query[i] = query[j]
        /\ ~ PairBefore(query[i], query[i])
        /\ PairBefore(query[i], query[j]) => ~ PairBefore(query[j], query[i])
    BY <1>1, PairOrder
  <2> HIDE DEF PairBefore
  <2> QED
    BY <1>2, <2>1 DEF NoLater
<1>6. ASSUME NEW h \in KeptAt(query), NEW i \in KeptAt(query), NEW j \in KeptAt(query),
             NoLater(query, h, i), NoLater(query, i, j)
      PROVE  NoLater(query, h, j)
  <2>1. h \in Nat /\ i \in Nat /\ j \in Nat
    BY <1>1
  <2>2. query[h] \in Pairs /\ query[i] \in Pairs /\ query[j] \in Pairs
    BY <1>1
  <2>3. PairBefore(query[h], query[i]) /\ PairBefore(query[i], query[j]) => PairBefore(query[h], query[j])
    BY <2>2, PairOrder
  <2> QED
    BY <1>3, <1>6, <2>1, <2>3 DEF NoLater
<1> QED
  BY <1>1, <1>4, <1>5, <1>6

\* The places are counted off, from the first to the last.
LEMMA PlacesCount ==
    ASSUME NEW query \in Seq(Pairs)
    PROVE  LET n == Cardinality(KeptAt(query))
           IN  /\ IsFiniteSet(KeptAt(query)) /\ n \in Nat
               /\ \A i \in KeptAt(query) : PlaceOf(query, i) \in 1 .. n
               /\ \A i, j \in KeptAt(query) :
                      PlaceOf(query, i) <= PlaceOf(query, j) => NoLater(query, i, j)
               /\ \A i, j \in KeptAt(query) : PlaceOf(query, i) = PlaceOf(query, j) => i = j
               /\ \A m \in 1 .. n : \E i \in KeptAt(query) : PlaceOf(query, i) = m
<1> DEFINE K == KeptAt(query)
           n == Cardinality(K)
           To(i) == {j \in K : NoLater(query, j, i)}
           R(i, j) == NoLater(query, i, j)
<1>1. /\ \A i \in K : R(i, i)
      /\ \A i, j \in K : (R(i, j) \/ R(j, i)) /\ (R(i, j) /\ R(j, i) => i = j)
      /\ \A h, i, j \in K : R(h, i) /\ R(i, j) => R(h, j)
  BY PlaceOrder
<1>2. IsFiniteSet(K) /\ n \in Nat
  <2>1. K \in SUBSET (1 .. Len(query)) /\ IsFiniteSet(1 .. Len(query))
    BY FS_Interval DEF KeptAt
  <2> QED
    BY <2>1, FS_Subset, FS_CardinalityType
<1>3. ASSUME NEW i \in K
      PROVE  IsFiniteSet(To(i)) /\ Cardinality(To(i)) \in 1 .. n
  <2>1. To(i) \in SUBSET K /\ i \in To(i)
    BY <1>1
  <2> HIDE DEF To, K
  <2>2. IsFiniteSet(To(i)) /\ Cardinality(To(i)) <= n /\ Cardinality(To(i)) \in Nat
    BY <1>2, <2>1, FS_Subset, FS_CardinalityType
  <2>3. Cardinality(To(i)) # 0
    BY <2>1, <2>2, FS_EmptySet
  <2> HIDE DEF n
  <2> QED
    BY <1>2, <2>2, <2>3
<1>4. ASSUME NEW i \in K, NEW j \in K, R(i, j), i # j
      PROVE  Cardinality(To(i)) < Cardinality(To(j))
  <2>1. To(i) \in SUBSET To(j) /\ j \in To(j) /\ j \notin To(i)
    BY <1>1, <1>4
  <2>2. To(i) # To(j)
    BY <2>1
  <2> HIDE DEF To, R, K, n
  <2>3. Cardinality(To(i)) <= Cardinality(To(j)) /\ Cardinality(To(i)) # Cardinality(To(j))
    BY <1>3, <2>1, <2>2, FS_Subset
  <2>4. Cardinality(To(i)) \in 1 .. n /\ Cardinality(To(j)) \in 1 .. n
    BY <1>3
  <2> QED
    BY <1>2, <2>3, <2>4
<1>5. \A i \in K : PlaceOf(query, i) = Cardinality(To(i))
  BY DEF PlaceOf
<1> HIDE DEF To, R, n, K
<1>6. \A i \in K : PlaceOf(query, i) \in 1 .. n
  BY <1>3, <1>5
<1>7. \A i, j \in K : PlaceOf(query, i) <= PlaceOf(query, j) => R(i, j)
  <2> SUFFICES ASSUME NEW i \in K, NEW j \in K, ~ R(i, j)
               PROVE  ~ (PlaceOf(query, i) <= PlaceOf(query, j))
    OBVIOUS
  <2>1. Cardinality(To(j)) < Cardinality(To(i))
    BY <1>1, <1>4
  <2>2. PlaceOf(query, i) \in 1 .. n /\ PlaceOf(query, j) \in 1 .. n
    BY <1>6
  <2> QED
    BY <1>2, <1>5, <2>1, <2>2
<1>8. \A i, j \in K : PlaceOf(query, i) = PlaceOf(query, j) => i = j
  <2> SUFFICES ASSUME NEW i \in K, NEW j \in K, PlaceOf(query, i) = PlaceOf(query, j)
               PROVE  i = j
    OBVIOUS
  <2>1. PlaceOf(query, i) \in 1 .. n /\ PlaceOf(query, j) \in 1 .. n
    BY <1>6
  <2>2. PlaceOf(query, i) <= PlaceOf(query, j) /\ PlaceOf(query, j) <= PlaceOf(query, i)
    BY <1>2, <2>1
  <2> QED
    BY <1>1, <1>7, <2>2
<1>9. \A m \in 1 .. n : \E i \in K : PlaceOf(query, i) = m
  <2> DEFINE f == [i \in K |-> PlaceOf(query, i)]
  <2>1. f \in Injection(K, 1 .. n)
    BY <1>6, <1>8 DEF Injection, IsInjective
  <2>2. IsFiniteSet(1 .. n) /\ Cardinality(1 .. n) = n
    BY <1>2, FS_Interval
  <2>3. f \in Surjection(K, 1 .. n)
    <3> HIDE DEF f
    <3> QED
      BY <2>1, <2>2, FS_Injection DEF n
  <2> QED
    BY <2>3 DEF Surjection
<1> QED
  BY <1>2, <1>6, <1>7, <1>8, <1>9 DEF n, K, R

\* No pair of a sequence comes before an earlier one.
Sorted(s) == \A a, b \in 1 .. Len(s) : a <= b => ~ PairBefore(s[b], s[a])

\* What is kept has the pairs of the query that do not track, as often as they
\* are there, and sorted.
LEMMA KeptIsSorted ==
    ASSUME NEW query \in Seq(Pairs)
    PROVE  /\ Kept(query) \in Seq(Pairs) /\ Sorted(Kept(query))
           /\ \A m \in 1 .. Len(Kept(query)) : Kept(query)[m][1] \notin Tracking
           /\ \A p : p[1] \notin Tracking => Times(Kept(query), p) = Times(query, p)
<1> DEFINE K == KeptAt(query)
           n == Cardinality(K)
           at(m) == CHOOSE i \in K : PlaceOf(query, i) = m
           t == [m \in 1 .. n |-> query[at(m)]]
<1>1. Kept(query) = t
  BY DEF Kept, KeptAt, PlaceOf, NoLater
<1>2. /\ IsFiniteSet(K) /\ n \in Nat
      /\ \A i \in K : PlaceOf(query, i) \in 1 .. n
      /\ \A i, j \in K : PlaceOf(query, i) <= PlaceOf(query, j) => NoLater(query, i, j)
      /\ \A i, j \in K : PlaceOf(query, i) = PlaceOf(query, j) => i = j
      /\ \A m \in 1 .. n : \E i \in K : PlaceOf(query, i) = m
  BY PlacesCount
<1>3. \A i \in K : i \in DOMAIN query /\ query[i] \in Pairs /\ query[i][1] \notin Tracking
  BY DEF KeptAt
<1>4. \A i \in DOMAIN query : query[i][1] \notin Tracking => i \in K
  BY DEF KeptAt
<1> HIDE DEF K, n
<1>5. \A m \in 1 .. n : at(m) \in K /\ PlaceOf(query, at(m)) = m
  BY <1>2
<1>6. \A i \in K : at(PlaceOf(query, i)) = i
  BY <1>2, <1>5
<1> HIDE DEF at
<1>7. t \in [1 .. n -> Pairs]
  BY <1>3, <1>5
<1>8. t \in Seq(Pairs) /\ Len(t) = n /\ DOMAIN t = 1 .. n
  BY <1>2, <1>7
<1>9. \A a, b \in 1 .. n : a <= b => ~ PairBefore(t[b], t[a])
  <2> SUFFICES ASSUME NEW a \in 1 .. n, NEW b \in 1 .. n, a <= b
               PROVE  ~ PairBefore(t[b], t[a])
    OBVIOUS
  <2>1. NoLater(query, at(a), at(b)) /\ t[a] = query[at(a)] /\ t[b] = query[at(b)]
    BY <1>2, <1>5
  <2>2. PairBefore(t[a], t[b]) \/ t[a] = t[b]
    BY <2>1 DEF NoLater
  <2> QED
    BY <1>7, <2>2, PairOrder
<1>10. ASSUME NEW p, p[1] \notin Tracking
       PROVE  Times(t, p) = Times(query, p)
  <2> DEFINE A == {m \in 1 .. n : t[m] = p}
             B == {i \in DOMAIN query : query[i] = p}
             f == [m \in A |-> at(m)]
  <2>1. f \in Bijection(A, B)
    <3>1. f \in [A -> B]
      BY <1>3, <1>5
    <3>2. \A a, b \in A : f[a] = f[b] => a = b
      BY <1>5
    <3>3. \A i \in B : \E m \in A : f[m] = i
      <4> TAKE i \in B
      <4>1. i \in K
        BY <1>4, <1>10
      <4>2. PlaceOf(query, i) \in 1 .. n /\ at(PlaceOf(query, i)) = i
        BY <1>2, <1>6, <4>1
      <4>3. PlaceOf(query, i) \in A
        BY <4>2
      <4> QED
        BY <4>2, <4>3
    <3> HIDE DEF f, A, B
    <3> QED
      BY <3>1, <3>2, <3>3 DEF Bijection, Injection, Surjection, IsInjective
  <2>2. IsFiniteSet(A)
    <3>1. A \in SUBSET (1 .. n) /\ IsFiniteSet(1 .. n)
      BY <1>2, FS_Interval
    <3> QED
      BY <3>1, FS_Subset
  <2>3. Cardinality(A) = Cardinality(B)
    <3> HIDE DEF A, B, f
    <3> QED
      BY <2>1, <2>2, FS_Bijection DEF ExistsBijection
  <2>4. Times(t, p) = Cardinality(A) /\ Times(query, p) = Cardinality(B)
    BY <1>8 DEF Times
  <2> QED
    BY <2>3, <2>4
<1>11. \A m \in 1 .. n : t[m][1] \notin Tracking
  BY <1>3, <1>5
<1> HIDE DEF t
<1> QED
  BY <1>1, <1>8, <1>9, <1>10, <1>11 DEF Sorted
\* How often a pair is among all but the last of a sequence.
LEMMA TimesBefore ==
    ASSUME NEW s \in Seq(Pairs), NEW n \in Nat, Len(s) = n + 1, NEW p
    PROVE  /\ Times(s, p) \in Nat
           /\ Times(SubSeq(s, 1, n), p) = IF s[n + 1] = p THEN Times(s, p) - 1 ELSE Times(s, p)
<1> DEFINE t == SubSeq(s, 1, n)
           A == {i \in 1 .. n + 1 : s[i] = p}
           B == {i \in 1 .. n : t[i] = p}
<1>1. /\ DOMAIN s = 1 .. n + 1 /\ DOMAIN t = 1 .. n
      /\ \A i \in 1 .. n : t[i] = s[i]
  OBVIOUS
<1>2. IsFiniteSet(A) /\ Cardinality(A) \in Nat
  <2>1. A \in SUBSET (1 .. n + 1) /\ IsFiniteSet(1 .. n + 1)
    BY FS_Interval
  <2> QED
    BY <2>1, FS_Subset, FS_CardinalityType
<1>3. B = A \ {n + 1}
  <2>1. \A i \in 1 .. n + 1 : i \in 1 .. n <=> i # n + 1
    OBVIOUS
  <2>2. \A i \in 1 .. n : i \in 1 .. n + 1
    OBVIOUS
  <2> HIDE DEF t
  <2> QED
    BY <1>1, <2>1, <2>2
<1>4. n + 1 \in A <=> s[n + 1] = p
  OBVIOUS
<1>5. Times(s, p) = Cardinality(A) /\ Times(t, p) = Cardinality(B)
  BY <1>1 DEF Times
<1> HIDE DEF A, B, t
<1>6. Cardinality(B) = IF n + 1 \in A THEN Cardinality(A) - 1 ELSE Cardinality(A)
  BY <1>2, <1>3, FS_RemoveElement
<1> QED
  BY <1>2, <1>4, <1>5, <1>6 DEF t

\* A pair is among the elements exactly when it is there at least once.
LEMMA TimesOfSome ==
    ASSUME NEW s \in Seq(Pairs), NEW p
    PROVE  Times(s, p) # 0 <=> \E i \in 1 .. Len(s) : s[i] = p
<1> DEFINE A == {i \in 1 .. Len(s) : s[i] = p}
<1>1. A \in SUBSET (1 .. Len(s)) /\ IsFiniteSet(1 .. Len(s)) /\ DOMAIN s = 1 .. Len(s)
  BY FS_Interval
<1>2. IsFiniteSet(A) /\ Times(s, p) = Cardinality(A)
  BY <1>1, FS_Subset DEF Times
<1>3. A # {} <=> \E i \in 1 .. Len(s) : s[i] = p
  OBVIOUS
<1> HIDE DEF A
<1> QED
  BY <1>2, <1>3, FS_EmptySet

Alike(s, t) == \A p \in Pairs : Times(s, p) = Times(t, p)

\* The last of two sorted sequences of the same pairs is the same.
LEMMA SameLast ==
    ASSUME NEW s \in Seq(Pairs), NEW t \in Seq(Pairs), s # <<>>, Sorted(s), Sorted(t), Alike(s, t)
    PROVE  t # <<>> /\ s[Len(s)] = t[Len(t)]
<1>1. /\ Len(s) \in Nat /\ Len(s) \in 1 .. Len(s) /\ s[Len(s)] \in Pairs
      /\ Len(t) \in Nat
      /\ \A i \in 1 .. Len(s) : i <= Len(s)
      /\ \A i \in 1 .. Len(t) : i <= Len(t)
  OBVIOUS
<1>2. PICK i \in 1 .. Len(t) : t[i] = s[Len(s)]
  <2>1. Times(s, s[Len(s)]) # 0
    BY <1>1, TimesOfSome
  <2>2. Times(t, s[Len(s)]) # 0
    BY <1>1, <2>1 DEF Alike
  <2> QED
    BY <2>2, TimesOfSome
<1>3. t # <<>> /\ Len(t) \in 1 .. Len(t) /\ t[Len(t)] \in Pairs
  BY <1>1, <1>2
<1>4. PICK j \in 1 .. Len(s) : s[j] = t[Len(t)]
  <2>1. Times(t, t[Len(t)]) # 0
    BY <1>3, TimesOfSome
  <2>2. Times(s, t[Len(t)]) # 0
    BY <1>3, <2>1 DEF Alike
  <2> QED
    BY <2>2, TimesOfSome
<1>5. ~ PairBefore(t[Len(t)], t[i]) /\ ~ PairBefore(s[Len(s)], s[j])
  BY <1>1, <1>3 DEF Sorted
<1> QED
  BY <1>1, <1>2, <1>3, <1>4, <1>5, PairOrder

\* All but the last of a sequence.
LEMMA ButTheLast ==
    ASSUME NEW s \in Seq(Pairs), NEW n \in Nat, Len(s) = n + 1
    PROVE  /\ SubSeq(s, 1, n) \in Seq(Pairs) /\ Len(SubSeq(s, 1, n)) = n
           /\ s = Append(SubSeq(s, 1, n), s[n + 1])
           /\ Sorted(s) => Sorted(SubSeq(s, 1, n))
<1> DEFINE t == SubSeq(s, 1, n)
<1>1. t \in Seq(Pairs) /\ Len(t) = n /\ \A i \in 1 .. n : t[i] = s[i]
  OBVIOUS
<1>2. s = Append(t, s[n + 1])
  OBVIOUS
<1>3. \A i \in 1 .. n : i \in 1 .. n + 1
  OBVIOUS
<1> HIDE DEF t
<1>4. Sorted(s) => Sorted(t)
  BY <1>1, <1>3 DEF Sorted
<1> QED
  BY <1>1, <1>2, <1>4 DEF t

\* A sorted sequence is known by its pairs and how often each of them is there.
LEMMA SortedIsUnique ==
    ASSUME NEW s \in Seq(Pairs), NEW t \in Seq(Pairs), Sorted(s), Sorted(t), Alike(s, t)
    PROVE  s = t
<1> DEFINE Known(n) == \A u, v \in Seq(Pairs) :
                           Len(u) = n /\ Sorted(u) /\ Sorted(v) /\ Alike(u, v) => u = v
           S == {n \in Nat : Known(n)}
<1>1. Known(0)
  <2> SUFFICES ASSUME NEW u \in Seq(Pairs), NEW v \in Seq(Pairs), Len(u) = 0, Sorted(u), Sorted(v), Alike(u, v)
               PROVE  u = v
    OBVIOUS
  <2>1. u = <<>>
    OBVIOUS
  <2>2. Alike(v, u)
    BY DEF Alike
  <2>3. v = <<>>
    BY <2>1, <2>2, SameLast
  <2> QED
    BY <2>1, <2>3
<1>2. ASSUME NEW n \in Nat, Known(n)
      PROVE  Known(n + 1)
  <2> SUFFICES ASSUME NEW u \in Seq(Pairs), NEW v \in Seq(Pairs), Len(u) = n + 1, Sorted(u), Sorted(v), Alike(u, v)
               PROVE  u = v
    OBVIOUS
  <2> HIDE DEF Known
  <2>1. u # <<>>
    OBVIOUS
  <2>2. v # <<>> /\ u[n + 1] = v[Len(v)]
    BY <2>1, SameLast
  <2> DEFINE m == Len(v) - 1
             a == SubSeq(u, 1, n)
             b == SubSeq(v, 1, m)
  <2>3. m \in Nat /\ Len(v) = m + 1
    BY <2>2
  <2> HIDE DEF m
  <2>4. a \in Seq(Pairs) /\ Len(a) = n /\ u = Append(a, u[n + 1]) /\ Sorted(a)
    BY ButTheLast
  <2>5. b \in Seq(Pairs) /\ v = Append(b, v[m + 1]) /\ Sorted(b)
    BY <2>3, ButTheLast
  <2>6. Alike(a, b)
    <3>1. \A p \in Pairs : Times(a, p) = IF u[n + 1] = p THEN Times(u, p) - 1 ELSE Times(u, p)
      BY TimesBefore
    <3>2. \A p \in Pairs : Times(b, p) = IF v[m + 1] = p THEN Times(v, p) - 1 ELSE Times(v, p)
      BY <2>3, TimesBefore
    <3> HIDE DEF a, b
    <3> QED
      BY <2>2, <2>3, <3>1, <3>2 DEF Alike
  <2> HIDE DEF a, b
  <2>7. a = b
    BY <1>2, <2>4, <2>5, <2>6 DEF Known
  <2> QED
    BY <2>2, <2>3, <2>4, <2>5, <2>7
<1>3. S = Nat
  <2> HIDE DEF Known
  <2>1. S \in SUBSET Nat /\ 0 \in S /\ \A n \in S : n + 1 \in S
    BY <1>1, <1>2
  <2> HIDE DEF S
  <2> QED
    BY <2>1, SetInduction
<1>4. Known(Len(s))
  <2>1. Len(s) \in Nat
    OBVIOUS
  <2> HIDE DEF Known
  <2> QED
    BY <1>3, <2>1
<1> QED
  BY <1>4

\* Two queries keep the same exactly when they are the same but for what
\* tracks, and for their order.
LEMMA QueriesAreTheSame ==
    ASSUME NEW s \in Seq(Pairs), NEW t \in Seq(Pairs)
    PROVE  Kept(s) = Kept(t) <=> SameQuery(s, t)
<1>1. /\ Kept(s) \in Seq(Pairs) /\ Sorted(Kept(s)) /\ Kept(t) \in Seq(Pairs) /\ Sorted(Kept(t))
      /\ \A m \in 1 .. Len(Kept(s)) : Kept(s)[m][1] \notin Tracking
      /\ \A m \in 1 .. Len(Kept(t)) : Kept(t)[m][1] \notin Tracking
      /\ \A p : p[1] \notin Tracking => Times(Kept(s), p) = Times(s, p) /\ Times(Kept(t), p) = Times(t, p)
  BY KeptIsSorted
<1>2. Kept(s) = Kept(t) => SameQuery(s, t)
  BY <1>1 DEF SameQuery
<1>3. ASSUME SameQuery(s, t)
      PROVE  Alike(Kept(s), Kept(t))
  <2> SUFFICES ASSUME NEW p \in Pairs
               PROVE  Times(Kept(s), p) = Times(Kept(t), p)
    BY DEF Alike
  <2>1. CASE p[1] \in Tracking
    <3>1. ~ (Times(Kept(s), p) # 0) /\ ~ (Times(Kept(t), p) # 0)
      BY <1>1, <2>1, TimesOfSome
    <3> QED
      BY <3>1
  <2>2. CASE p[1] \notin Tracking /\ p \in Range(s) \cup Range(t)
    BY <1>1, <1>3, <2>2 DEF SameQuery
  <2>3. CASE p[1] \notin Tracking /\ p \notin Range(s) \cup Range(t)
    <3>1. DOMAIN s = 1 .. Len(s) /\ DOMAIN t = 1 .. Len(t)
      OBVIOUS
    <3>2. ~ (Times(s, p) # 0) /\ ~ (Times(t, p) # 0)
      BY <2>3, <3>1, TimesOfSome DEF Range
    <3> QED
      BY <1>1, <2>3, <3>2
  <2> QED
    BY <2>1, <2>2, <2>3
<1>4. SameQuery(s, t) => Kept(s) = Kept(t)
  BY <1>1, <1>3, SortedIsUnique
<1> QED
  BY <1>2, <1>4

-----------------------------------------------------------------------------
(* The key of a url. *)

ParsedUrls == [scheme : STRING, host : DOMAIN LowerCase, path : Seq(STRING),
               query : Seq(Pairs), fragment : STRING]

\* A set of places that is not empty has a first.
LEMMA FirstOfSome ==
    ASSUME NEW m \in Nat, NEW s \in SUBSET (1 .. m), s # {}
    PROVE  Min(s) \in s /\ \A i \in s : Min(s) <= i
<1> DEFINE S == {n \in 0 .. m : \A t \in SUBSET (1 .. m) : (\E x \in t : x <= n) => \E x \in t : \A y \in t : x <= y}
<1>1. 0 \in S
  OBVIOUS
<1>2. ASSUME NEW n \in 0 .. m - 1, n \in S
      PROVE  n + 1 \in S
  <2> SUFFICES ASSUME NEW t \in SUBSET (1 .. m), \E x \in t : x <= n + 1
               PROVE  \E x \in t : \A y \in t : x <= y
    OBVIOUS
  <2>1. CASE \E x \in t : x <= n
    BY <1>2, <2>1
  <2>2. CASE \A x \in t : ~ (x <= n)
    <3>1. PICK x \in t : x <= n + 1
      OBVIOUS
    <3>2. \A y \in t : y \in Nat /\ ~ (y <= n)
      BY <2>2
    <3>3. \A y \in t : x <= y
      BY <3>1, <3>2
    <3> QED
      BY <3>3
  <2> QED
    BY <2>1, <2>2
<1>3. 0 .. m \subseteq S
  <2> HIDE DEF S
  <2> QED
    BY <1>1, <1>2, IntervalInduction
<1>4. m \in S
  <2>1. m \in 0 .. m
    OBVIOUS
  <2> HIDE DEF S
  <2> QED
    BY <1>3, <2>1
<1>5. \E x \in s : x <= m
  <2>1. PICK x \in s : TRUE
    OBVIOUS
  <2>2. x \in 1 .. m
    OBVIOUS
  <2> QED
    BY <2>2
<1>6. \E x \in s : \A y \in s : x <= y
  BY <1>4, <1>5
<1> QED
  BY <1>6 DEF Min

\* What urlparse takes for the path is a beginning of it.
LEMMA PathIsPath ==
    ASSUME NEW path \in Seq(STRING)
    PROVE  PathOf(path) \in Seq(STRING)
<1> DEFINE CutAt(i) == path[i] = ";" /\ \A j \in i + 1 .. Len(path) : path[j] # "/"
           Cuts == {i \in DOMAIN path : CutAt(i)}
<1>1. PathOf(path) = IF Cuts = {} THEN path ELSE SubSeq(path, 1, Min(Cuts) - 1)
  BY DEF PathOf
<1>2. Len(path) \in Nat /\ DOMAIN path = 1 .. Len(path)
  OBVIOUS
<1>3. Cuts \in SUBSET (1 .. Len(path))
  <2> HIDE DEF CutAt
  <2> QED
    BY <1>2
<1> HIDE DEF Cuts
<1>4. CASE Cuts = {}
  BY <1>1, <1>4
<1>5. CASE Cuts # {}
  <2> DEFINE m == Min(Cuts)
  <2>1. m \in 1 .. Len(path)
    BY <1>2, <1>3, <1>5, FirstOfSome
  <2> HIDE DEF m
  <2>2. m - 1 \in Nat /\ m - 1 <= Len(path)
    BY <1>2, <2>1
  <2>3. SubSeq(path, 1, m - 1) \in Seq(STRING)
    BY <2>2
  <2> QED
    BY <1>1, <1>5, <2>3 DEF m
<1> QED
  BY <1>4, <1>5

\* Two urls have one key exactly when they differ in what a key forgets.
LEMMA KeysAreRight ==
    ASSUME NEW u \in ParsedUrls, NEW v \in ParsedUrls
    PROVE  KeyForgets(u, v)
<1>1. /\ PathOf(u.path) \in Seq(STRING) /\ u.query \in Seq(Pairs)
      /\ PathOf(v.path) \in Seq(STRING) /\ v.query \in Seq(Pairs)
  BY PathIsPath DEF ParsedUrls
<1>2. NormalizeUrl(u) = NormalizeUrl(v) <=>
          /\ u.scheme = v.scheme /\ LowerCase[u.host] = LowerCase[v.host]
          /\ Stripped(PathOf(u.path)) = Stripped(PathOf(v.path)) /\ Kept(u.query) = Kept(v.query)
  BY DEF NormalizeUrl
<1> QED
  BY <1>1, <1>2, PathsAreTheSame, QueriesAreTheSame DEF KeyForgets, SameButFor

-----------------------------------------------------------------------------
(* The plan: which words are found. *)

Entries == [name : STRING, forms : Seq(DOMAIN Length)]

\* Of the places of a set that is not empty, one has the greatest number.
LEMMA SomeIsLongest ==
    ASSUME NEW m \in Nat, NEW s \in SUBSET (1 .. m), s # {}, NEW L, \A i \in s : L[i] \in Nat
    PROVE  \E i \in s : \A j \in s : L[i] >= L[j]
<1> DEFINE Longest(t) == \E i \in t : \A j \in t : L[i] >= L[j]
           S == {n \in 0 .. m : \A t \in SUBSET (1 .. n) : t # {} /\ t \subseteq s => Longest(t)}
<1>1. 0 \in S
  <2>1. \A t \in SUBSET (1 .. 0) : t = {}
    OBVIOUS
  <2>2. 0 \in 0 .. m
    OBVIOUS
  <2> HIDE DEF Longest
  <2> QED
    BY <2>1, <2>2
<1>2. ASSUME NEW n \in 0 .. m - 1, n \in S
      PROVE  n + 1 \in S
  <2> SUFFICES ASSUME NEW t \in SUBSET (1 .. n + 1), t # {}, t \subseteq s
               PROVE  Longest(t)
    OBVIOUS
  <2> DEFINE u == t \ {n + 1}
  <2>1. u \in SUBSET (1 .. n) /\ u \subseteq s
    OBVIOUS
  <2>2. CASE n + 1 \notin t
    <3>1. u = t
      BY <2>2
    <3> QED
      BY <1>2, <2>1, <3>1
  <2>3. CASE n + 1 \in t /\ u = {}
    <3>1. \A j \in t : j = n + 1
      BY <2>3
    <3>2. L[n + 1] \in Nat
      BY <2>3
    <3> QED
      BY <2>3, <3>1, <3>2
  <2>4. CASE n + 1 \in t /\ u # {}
    <3>1. PICK i \in u : \A j \in u : L[i] >= L[j]
      BY <1>2, <2>1, <2>4
    <3>2. /\ i \in t /\ L[i] \in Nat /\ L[n + 1] \in Nat /\ \A j \in t : j \in u \/ j = n + 1
          /\ \A j \in u : L[j] \in Nat
      BY <2>4
    <3> HIDE DEF u
    <3>3. CASE L[i] >= L[n + 1]
      BY <3>1, <3>2, <3>3
    <3>4. CASE ~ (L[i] >= L[n + 1])
      <4>1. \A j \in t : L[n + 1] >= L[j]
        BY <3>1, <3>2, <3>4
      <4> QED
        BY <2>4, <4>1
    <3> QED
      BY <3>3, <3>4
  <2> QED
    BY <2>2, <2>3, <2>4
<1>3. 0 .. m \subseteq S
  <2> HIDE DEF S
  <2> QED
    BY <1>1, <1>2, IntervalInduction
<1>4. m \in S
  <2>1. m \in 0 .. m
    OBVIOUS
  <2> HIDE DEF S
  <2> QED
    BY <1>3, <2>1
<1> QED
  BY <1>4

\* A word explains a match when it is in the text, and no form is there that
\* contains it.
Explains(word, forms, text) ==
    /\ Occurs(word, text)
    /\ \A f \in Range(forms) : <<word, f>> \in Within => ~ Occurs(f, text)

\* The longest form that is in the text explains the match.
LEMMA LongestExplains ==
    ASSUME NEW forms \in Seq(DOMAIN Length), NEW text, Hits(forms, text) # {}
    PROVE  Explains(LongestHit(forms, text), forms, text)
<1> DEFINE k == Len(forms)
           H == Hits(forms, text)
           L == [i \in 1 .. k |-> Length[forms[i]]]
           T == {i \in H : \A j \in H : Length[forms[i]] >= Length[forms[j]]}
<1>1. k \in Nat /\ DOMAIN forms = 1 .. k /\ \A i \in 1 .. k : forms[i] \in DOMAIN Length
  OBVIOUS
<1>2. H \in SUBSET (1 .. k) /\ \A i \in H : Occurs(forms[i], text)
  BY <1>1 DEF Hits
<1>3. \A i \in H : L[i] = Length[forms[i]] /\ L[i] \in Nat
  BY <1>1, <1>2, PlanAssumption
<1>4. T # {}
  <2>1. \E i \in H : \A j \in H : L[i] >= L[j]
    <3> HIDE DEF H, L, k
    <3> QED
      BY <1>1, <1>2, <1>3, SomeIsLongest DEF H
  <2> HIDE DEF L, H
  <2> QED
    BY <1>3, <2>1
<1>5. Min(T) \in T
  <2>1. T \in SUBSET (1 .. k)
    BY <1>2
  <2> HIDE DEF T, k
  <2> QED
    BY <1>1, <1>4, <2>1, FirstOfSome
<1>6. PICK i \in T : LongestHit(forms, text) = forms[i]
  BY <1>5 DEF LongestHit
<1>7. Occurs(forms[i], text)
  BY <1>2, <1>6
<1>8. ASSUME NEW f \in Range(forms), <<forms[i], f>> \in Within, Occurs(f, text)
      PROVE  FALSE
  <2>1. PICK j \in 1 .. k : f = forms[j]
    BY <1>1 DEF Range
  <2>2. j \in H
    BY <1>1, <1>8, <2>1 DEF Hits
  <2>3. Length[forms[i]] >= Length[forms[j]]
    BY <1>6, <2>2
  <2>4. Length[forms[i]] < Length[forms[j]]
    BY <1>8, <2>1, PlanAssumption
  <2>5. Length[forms[i]] \in Nat /\ Length[forms[j]] \in Nat
    BY <1>3, <1>6, <2>2
  <2> QED
    BY <2>3, <2>4, <2>5
<1> QED
  BY <1>6, <1>7, <1>8 DEF Explains

\* So does the first of a signal's forms: those that contain it come earlier.
LEMMA FirstExplains ==
    ASSUME NEW s \in DOMAIN Signals, NEW text, Hits(Signals[s].forms, text) # {}
    PROVE  Explains(FirstHit(Signals[s].forms, text), Signals[s].forms, text)
<1> DEFINE forms == Signals[s].forms
           k == Len(forms)
           H == Hits(forms, text)
<1>1. forms \in Seq(DOMAIN Length)
  <2>1. Signals \in Seq(Entries)
    BY PlanAssumption DEF Entries
  <2>2. Signals[s] \in Entries
    BY <2>1
  <2> QED
    BY <2>2 DEF Entries
<1>2. k \in Nat /\ DOMAIN forms = 1 .. k /\ \A i \in 1 .. k : forms[i] \in DOMAIN Length
  BY <1>1
<1>3. H \in SUBSET (1 .. k) /\ \A i \in H : Occurs(forms[i], text)
  BY <1>2 DEF Hits
<1>4. Min(H) \in H /\ \A j \in H : Min(H) <= j
  <2> HIDE DEF H, k
  <2> QED
    BY <1>2, <1>3, FirstOfSome DEF H
<1>5. PICK i \in H : FirstHit(forms, text) = forms[i] /\ \A j \in H : i <= j
  BY <1>4 DEF FirstHit
<1>6. ASSUME NEW f \in Range(forms), <<forms[i], f>> \in Within, Occurs(f, text)
      PROVE  FALSE
  <2>1. PICK j \in 1 .. k : f = forms[j]
    BY <1>2 DEF Range
  <2>2. j \in H
    BY <1>2, <1>6, <2>1 DEF Hits
  <2>3. i <= j /\ i \in 1 .. k
    BY <1>3, <1>5, <2>2
  <2>4. ~ (i < j)
    BY <1>2, <1>6, <2>1, <2>3, PlanAssumption
  <2>5. i = j
    BY <1>2, <2>3, <2>4
  <2>6. Length[forms[i]] < Length[forms[i]] /\ Length[forms[i]] \in Nat
    BY <1>2, <1>6, <2>1, <2>3, <2>5, PlanAssumption
  <2> QED
    BY <2>6
<1> QED
  BY <1>3, <1>5, <1>6 DEF Explains

-----------------------------------------------------------------------------
(* The plan: which entries match. *)

\* The entries that match are entries of the table that have a form in the text,
\* each of them once.
MatchedFrom(matches, table, n, text) ==
    /\ matches \in Seq(Entries)
    /\ \A i \in 1 .. Len(matches) : \E s \in 1 .. n : matches[i] = table[s] /\ Hits(table[s].forms, text) # {}
    /\ (\A s, t \in DOMAIN table : s # t => table[s].name # table[t].name) =>
          \A i, j \in 1 .. Len(matches) : i # j => matches[i].name # matches[j].name

\* One more entry that matches comes last.
LEMMA OneMatchMore ==
    ASSUME NEW table \in Seq(Entries), NEW text, NEW n \in Nat, n + 1 \in DOMAIN table, NEW matches,
           MatchedFrom(matches, table, n, text), Hits(table[n + 1].forms, text) # {}
    PROVE  MatchedFrom(matches \o <<table[n + 1]>>, table, n + 1, text)
<1> DEFINE t == matches \o <<table[n + 1]>>
           k == Len(matches)
<1>1. /\ matches \in Seq(Entries)
      /\ \A i \in 1 .. k : \E s \in 1 .. n : matches[i] = table[s] /\ Hits(table[s].forms, text) # {}
  BY DEF MatchedFrom
<1>2. table[n + 1] \in Entries
  OBVIOUS
<1>3. /\ t \in Seq(Entries) /\ k \in Nat /\ Len(t) = k + 1 /\ t[k + 1] = table[n + 1]
      /\ \A i \in 1 .. k : t[i] = matches[i]
  BY <1>1, <1>2
<1>4. \A i \in 1 .. k + 1 : i \in 1 .. k \/ i = k + 1
  BY <1>3
<1>5. (\A s \in 1 .. n : s \in 1 .. n + 1 /\ s # n + 1) /\ n + 1 \in 1 .. n + 1
  OBVIOUS
<1> HIDE DEF t, k
<1>6. \A i \in 1 .. Len(t) : \E s \in 1 .. n + 1 : t[i] = table[s] /\ Hits(table[s].forms, text) # {}
  BY <1>1, <1>3, <1>4, <1>5
<1>7. ASSUME \A a, b \in DOMAIN table : a # b => table[a].name # table[b].name
      PROVE  \A i, j \in 1 .. Len(t) : i # j => t[i].name # t[j].name
  <2>1. \A i, j \in 1 .. k : i # j => matches[i].name # matches[j].name
    BY <1>7 DEF MatchedFrom, k
  <2>2. \A i \in 1 .. k : matches[i].name # table[n + 1].name
    <3> TAKE i \in 1 .. k
    <3>1. PICK s \in 1 .. n : matches[i] = table[s]
      BY <1>1
    <3>2. s \in DOMAIN table /\ s # n + 1
      OBVIOUS
    <3> QED
      BY <1>7, <3>1, <3>2
  <2> QED
    BY <1>3, <1>4, <2>1, <2>2
<1> QED
  BY <1>3, <1>6, <1>7 DEF MatchedFrom, t

\* Matches goes through the entries one by one.
LEMMA MatchesAre ==
    ASSUME NEW table \in Seq(Entries), NEW text
    PROVE  MatchedFrom(Matches(table, text), table, Len(table), text)
<1> DEFINE k == Len(table)
           seqs == [i \in DOMAIN table |-> IF Hits(table[i].forms, text) = {} THEN <<>> ELSE <<table[i]>>]
<1>1. k \in Nat /\ DOMAIN table = 1 .. k /\ \A i \in 1 .. k : table[i] \in Entries
  OBVIOUS
<1>2. seqs \in Seq(Seq(Entries)) /\ Len(seqs) = k
  <2>1. \A i \in 1 .. k : seqs[i] \in Seq(Entries)
    BY <1>1
  <2>2. seqs \in [1 .. k -> Seq(Entries)]
    BY <1>1, <2>1
  <2> HIDE DEF seqs, k
  <2> QED
    BY <1>1, <2>2
<1>3. \A n \in 1 .. k : seqs[n] = IF Hits(table[n].forms, text) = {} THEN <<>> ELSE <<table[n]>>
  BY <1>1
<1>4. Matches(table, text) = FlattenSeq(seqs)
  BY DEF Matches
<1> HIDE DEF seqs, k
<1>5. PICK f \in Joining(seqs, Entries) : FlattenSeq(seqs) = f[k]
  BY <1>2, FlattenUnfolds
<1>6. /\ f \in [0 .. k -> Seq(Entries)] /\ f[0] = <<>>
      /\ \A n \in 1 .. k : f[n] = f[n - 1] \o seqs[n]
  BY <1>2, <1>5 DEF Joining
<1> DEFINE S == {n \in 0 .. k : MatchedFrom(f[n], table, n, text)}
<1>7. 0 \in S
  <2>1. <<>> \in Seq(Entries) /\ Len(<<>>) = 0 /\ (\A i \in 1 .. 0 : FALSE) /\ 0 \in 0 .. k
    BY <1>1
  <2> QED
    BY <1>6, <2>1 DEF MatchedFrom
<1>8. ASSUME NEW n \in 0 .. k - 1, n \in S
      PROVE  n + 1 \in S
  <2>1. /\ n \in Nat /\ n + 1 \in 1 .. k /\ n + 1 \in 0 .. k /\ (n + 1) - 1 = n /\ n \in 0 .. k
        /\ f[n] \in Seq(Entries)
    BY <1>1, <1>6
  <2>2. f[n + 1] = f[n] \o seqs[n + 1] /\ MatchedFrom(f[n], table, n, text)
    BY <1>6, <1>8, <2>1
  <2>3. CASE Hits(table[n + 1].forms, text) # {}
    <3>1. f[n + 1] = f[n] \o <<table[n + 1]>> /\ n + 1 \in DOMAIN table
      BY <1>1, <1>3, <2>1, <2>2, <2>3
    <3> QED
      BY <2>1, <2>2, <2>3, <3>1, OneMatchMore
  <2>4. CASE Hits(table[n + 1].forms, text) = {}
    <3>1. f[n + 1] = f[n]
      <4>1. seqs[n + 1] = <<>>
        BY <1>3, <2>1, <2>4
      <4>2. \A v \in Seq(Entries) : v \o <<>> = v
        OBVIOUS
      <4> QED
        BY <2>1, <2>2, <4>1, <4>2
    <3>2. \A s \in 1 .. n : s \in 1 .. n + 1
      BY <2>1
    <3> QED
      BY <2>1, <2>2, <3>1, <3>2 DEF MatchedFrom
  <2> QED
    BY <2>3, <2>4
<1>9. k \in S
  <2>1. k \in 0 .. k
    BY <1>1
  <2> HIDE DEF S
  <2>2. 0 .. k \subseteq S
    BY <1>1, <1>7, <1>8, IntervalInduction
  <2> QED
    BY <2>1, <2>2
<1> QED
  BY <1>4, <1>5, <1>9 DEF k

\* The names of what matches are as many, and texts.
LEMMA ExplainedNames ==
    ASSUME NEW matches \in Seq(Entries), NEW words
    PROVE  /\ Explained(matches, words).names \in Seq(STRING)
           /\ Len(Explained(matches, words).names) = Len(matches)
           /\ \A i \in 1 .. Len(matches) : Explained(matches, words).names[i] = matches[i].name
<1> DEFINE k == Len(matches)
           names == [i \in 1 .. k |-> matches[i].name]
<1>1. k \in Nat /\ DOMAIN matches = 1 .. k /\ \A i \in 1 .. k : matches[i] \in Entries
  OBVIOUS
<1>2. names \in [1 .. k -> STRING]
  BY <1>1 DEF Entries
<1>3. Explained(matches, words).names = names
  BY <1>1 DEF Explained
<1> HIDE DEF names, k
<1> QED
  BY <1>1, <1>2, <1>3 DEF names, k

\* The word of every match in a table explains it.
LEMMA KeywordsExplained ==
    ASSUME NEW table \in Seq(Entries), NEW text
    PROVE  ExplainsItself(table, MatchKeywords(table, text), text)
<1> DEFINE matches == Matches(table, text)
<1>1. MatchedFrom(matches, table, Len(table), text)
  BY MatchesAre
<1>2. MatchKeywords(table, text).words = [i \in DOMAIN matches |-> LongestHit(matches[i].forms, text)]
  BY DEF MatchKeywords, Explained
<1>3. ASSUME NEW i \in DOMAIN matches
      PROVE  Explains(LongestHit(matches[i].forms, text), matches[i].forms, text)
  <2> HIDE DEF matches
  <2>1. matches \in Seq(Entries) /\ i \in 1 .. Len(matches)
    BY <1>1 DEF MatchedFrom
  <2>2. matches[i] \in Entries
    BY <2>1
  <2>3. matches[i].forms \in Seq(DOMAIN Length)
    BY <2>2 DEF Entries
  <2>4. Hits(matches[i].forms, text) # {}
    <3>1. PICK s \in 1 .. Len(table) : matches[i] = table[s] /\ Hits(table[s].forms, text) # {}
      BY <1>1, <2>1 DEF MatchedFrom
    <3> QED
      BY <3>1
  <2> QED
    BY <2>3, <2>4, LongestExplains
<1> HIDE DEF matches
<1> QED
  BY <1>2, <1>3 DEF ExplainsItself, Explains, matches

\* And the word of every signal.
LEMMA SignalsExplained ==
    ASSUME NEW text
    PROVE  ExplainsItself(Signals, MatchSignals(text), text)
<1> DEFINE matches == Matches(Signals, text)
<1>1. MatchedFrom(matches, Signals, Len(Signals), text) /\ Signals \in Seq(Entries)
  <2>1. Signals \in Seq(Entries)
    BY PlanAssumption DEF Entries
  <2> QED
    BY <2>1, MatchesAre
<1>2. MatchSignals(text).words = [i \in DOMAIN matches |-> FirstHit(matches[i].forms, text)]
  BY DEF MatchSignals, Explained
<1>3. ASSUME NEW i \in DOMAIN matches
      PROVE  Explains(FirstHit(matches[i].forms, text), matches[i].forms, text)
  <2> HIDE DEF matches
  <2>1. matches \in Seq(Entries) /\ i \in 1 .. Len(matches)
    BY <1>1 DEF MatchedFrom
  <2>2. PICK s \in 1 .. Len(Signals) : matches[i] = Signals[s] /\ Hits(Signals[s].forms, text) # {}
    BY <1>1, <2>1 DEF MatchedFrom
  <2>3. s \in DOMAIN Signals
    BY <1>1
  <2> QED
    BY <2>2, <2>3, FirstExplains
<1> HIDE DEF matches
<1> QED
  BY <1>2, <1>3 DEF ExplainsItself, Explains, matches

-----------------------------------------------------------------------------
(* The plan: which queries are asked. *)

\* What the angles are made of: lists of names, the signals each once.
Objectives(o) ==
    /\ o.industry.names \in Seq(STRING) /\ o.geography.names \in Seq(STRING)
    /\ o.signals.names \in Seq(STRING \ {"companies"})
    /\ \A i, j \in 1 .. Len(o.signals.names) : i # j => o.signals.names[i] # o.signals.names[j]
    /\ o.person \in BOOLEAN

\* What parse_query finds is such.
LEMMA ObjectiveShape ==
    ASSUME NEW text
    PROVE  Objectives(Objective(text))
<1>1. /\ Geography \in Seq(Entries) /\ Industry \in Seq(Entries) /\ Signals \in Seq(Entries)
  BY PlanAssumption DEF Entries
<1>2. ASSUME NEW table \in Seq(Entries)
      PROVE  MatchKeywords(table, text).names \in Seq(STRING)
  <2>1. Matches(table, text) \in Seq(Entries)
    BY MatchesAre DEF MatchedFrom
  <2> QED
    BY <2>1, ExplainedNames DEF MatchKeywords
<1> DEFINE matches == Matches(Signals, text)
           names == MatchSignals(text).names
<1>3. MatchedFrom(matches, Signals, Len(Signals), text)
  BY <1>1, MatchesAre
<1>4. matches \in Seq(Entries)
  BY <1>3 DEF MatchedFrom
<1>5. /\ names \in Seq(STRING) /\ Len(names) = Len(matches)
      /\ \A i \in 1 .. Len(matches) : names[i] = matches[i].name
  <2> HIDE DEF matches
  <2> QED
    BY <1>4, ExplainedNames DEF MatchSignals, matches
<1> HIDE DEF matches, names
<1>6. \A i \in 1 .. Len(names) : names[i] # "companies"
  <2> TAKE i \in 1 .. Len(names)
  <2>1. PICK s \in 1 .. Len(Signals) : matches[i] = Signals[s]
    BY <1>3, <1>5 DEF MatchedFrom
  <2>2. s \in DOMAIN Signals
    BY <1>1
  <2> QED
    BY <1>5, <2>1, <2>2, PlanAssumption
<1>7. names \in Seq(STRING \ {"companies"})
  <2>1. \A i \in 1 .. Len(names) : names[i] \in STRING \ {"companies"}
    BY <1>5, <1>6
  <2> QED
    BY <1>5, <2>1
<1>8. \A i, j \in 1 .. Len(names) : i # j => names[i] # names[j]
  <2>1. \A i, j \in 1 .. Len(matches) : i # j => matches[i].name # matches[j].name
    BY <1>3, PlanAssumption DEF MatchedFrom
  <2> QED
    BY <1>5, <2>1
<1>9. MatchKeywords(Industry, text).names \in Seq(STRING) /\ MatchKeywords(Geography, text).names \in Seq(STRING)
  BY <1>1, <1>2
<1>10. (\E w \in Persons : Occurs(w, text)) \in BOOLEAN
  OBVIOUS
<1> QED
  BY <1>7, <1>8, <1>9, <1>10 DEF Objectives, Objective, names

\* What queries are made of.
Parts == STRING \cup {"companies", "in", "company", "decision makers", "executives"}

\* A query of one part, and of two.
LEMMA OnePart ==
    ASSUME NEW S, NEW s \in S
    PROVE  <<s>> \in Seq(S) /\ Len(<<s>>) = 1 /\ <<s>>[1] = s
OBVIOUS

\* (See OnePart.)
LEMMA TwoParts ==
    ASSUME NEW S, NEW s \in S, NEW t \in S
    PROVE  <<s, t>> \in Seq(S) /\ Len(<<s, t>>) = 2 /\ <<s, t>>[1] = s
OBVIOUS

\* A list of names is a list of parts.
LEMMA NamesAreParts ==
    ASSUME NEW o, Objectives(o)
    PROVE  /\ o.industry.names \in Seq(Parts) /\ o.geography.names \in Seq(Parts)
           /\ o.signals.names \in Seq(Parts \ {"companies"})
<1>1. STRING \subseteq Parts /\ STRING \ {"companies"} \subseteq Parts \ {"companies"}
  BY DEF Parts
<1>2. \A S, T : S \subseteq T => Seq(S) \subseteq Seq(T)
  OBVIOUS
<1> QED
  BY <1>1, <1>2, Zenon DEF Objectives

\* The first of a list is nothing, or one.
LEMMA FirstIs ==
    ASSUME NEW names \in Seq(Parts)
    PROVE  First(names) = <<>> \/ \E n \in Parts : First(names) = <<n>>
<1>1. names # <<>> => names[1] \in Parts
  OBVIOUS
<1> QED
  BY <1>1 DEF First

\* The query of the base angle is none of the signals', and these differ.
LEMMA QueriesDiffer ==
    ASSUME NEW o, Objectives(o)
    PROVE  /\ BaseQuery(o) \in Seq(Parts) /\ PersonQuery(o) \in Seq(Parts)
           /\ \A s \in Parts : SignalQuery(o, s) \in Seq(Parts)
           /\ \A s \in Parts \ {"companies"} : Scope(o) # <<>> => BaseQuery(o) # SignalQuery(o, s)
           /\ \A s, t \in Parts : SignalQuery(o, s) = SignalQuery(o, t) => s = t
<1> DEFINE i == First(o.industry.names)
           g == First(o.geography.names)
           c == <<"companies">>
           x == IF g = <<>> THEN <<>> ELSE <<"in">> \o g
<1>1. i \in Seq(Parts) /\ g \in Seq(Parts) /\ Len(g) \in 0 .. 1
  <2>1. \A f \in Seq(Parts) : First(f) \in Seq(Parts) /\ Len(First(f)) \in 0 .. 1
    <3> TAKE f \in Seq(Parts)
    <3>1. CASE First(f) = <<>>
      BY <3>1
    <3>2. CASE First(f) # <<>>
      <4>1. PICK n \in Parts : First(f) = <<n>>
        BY FirstIs, <3>2
      <4> QED
        BY <4>1, OnePart
    <3> QED
      BY <3>1, <3>2
  <2> QED
    BY <2>1, NamesAreParts
<1>2. /\ Scope(o) = i \o g /\ Scope(o) \in Seq(Parts) /\ Len(i) \in Nat
      /\ Len(Scope(o)) = Len(i) + Len(g)
  BY <1>1 DEF Scope
<1>3. BaseQuery(o) = (i \o c) \o x
  BY DEF BaseQuery
<1>4. /\ c \in Seq(Parts) /\ Len(c) = 1 /\ c[1] = "companies"
      /\ x \in Seq(Parts) /\ Len(x) = IF Len(g) = 0 THEN 0 ELSE 2
  <2>1. <<"in">> \in Seq(Parts) /\ Len(<<"in">>) = 1
    BY OnePart, Zenon DEF Parts
  <2>1a. c \in Seq(Parts) /\ Len(c) = 1 /\ c[1] = "companies"
    BY OnePart, Zenon DEF Parts
  <2>2. g = <<>> <=> Len(g) = 0
    BY <1>1
  <2> HIDE DEF g
  <2>3. <<"in">> \o g \in Seq(Parts) /\ Len(<<"in">> \o g) = 1 + Len(g)
    BY <1>1, <2>1, ConcatProperties
  <2> HIDE DEF c
  <2>4. CASE g = <<>>
    <3>1. x = <<>> /\ <<>> \in Seq(Parts) /\ Len(<<>>) = 0
      BY <2>4
    <3> HIDE DEF x
    <3> QED
      BY <2>1a, <2>2, <2>4, <3>1
  <2>5. CASE g # <<>>
    <3>1. x = <<"in">> \o g /\ Len(g) = 1
      BY <1>1, <2>2, <2>5
    <3> HIDE DEF x
    <3> QED
      BY <2>1a, <2>3, <3>1
  <2> QED
    BY <2>4, <2>5
<1> HIDE DEF i, g, c, x
<1>5. i \o c \in Seq(Parts) /\ Len(i \o c) = Len(i) + 1 /\ (i \o c)[Len(i) + 1] = "companies"
  <2>1. /\ i \o c \in Seq(Parts) /\ Len(i \o c) = Len(i) + Len(c)
        /\ \A j \in 1 .. Len(i) + Len(c) : (i \o c)[j] = IF j <= Len(i) THEN i[j] ELSE c[j - Len(i)]
    BY <1>1, <1>4, ConcatProperties
  <2>2. /\ Len(i) + 1 \in 1 .. Len(i) + Len(c) /\ ~ (Len(i) + 1 <= Len(i))
        /\ (Len(i) + 1) - Len(i) = 1
    BY <1>2, <1>4
  <2> QED
    BY <1>4, <2>1, <2>2
<1>6. /\ BaseQuery(o) \in Seq(Parts) /\ Len(BaseQuery(o)) = Len(i) + 1 + Len(x)
      /\ BaseQuery(o)[Len(i) + 1] = "companies"
  <2> DEFINE d == i \o c
  <2>1. d \in Seq(Parts) /\ Len(d) = Len(i) + 1 /\ d[Len(i) + 1] = "companies"
    BY <1>5
  <2> HIDE DEF d
  <2>2. /\ d \o x \in Seq(Parts) /\ Len(d \o x) = Len(d) + Len(x)
        /\ \A j \in 1 .. Len(d) + Len(x) : (d \o x)[j] = IF j <= Len(d) THEN d[j] ELSE x[j - Len(d)]
    BY <1>4, <2>1, ConcatProperties
  <2>3. Len(i) + 1 \in 1 .. Len(d) + Len(x) /\ Len(i) + 1 <= Len(d)
    BY <1>2, <1>4, <2>1
  <2> QED
    BY <1>3, <2>1, <2>2, <2>3 DEF d
<1>7. ASSUME NEW s \in Parts
      PROVE  /\ SignalQuery(o, s) \in Seq(Parts)
             /\ Scope(o) # <<>> => Len(SignalQuery(o, s)) = Len(Scope(o)) + 1
             /\ SignalQuery(o, s)[IF Scope(o) = <<>> THEN 1 ELSE Len(Scope(o)) + 1] = s
  <2>1. CASE Scope(o) = <<>>
    <3>1. SignalQuery(o, s) = <<s, "companies">>
      BY <2>1 DEF SignalQuery
    <3>2. <<s, "companies">> \in Seq(Parts) /\ <<s, "companies">>[1] = s
      BY TwoParts, Zenon DEF Parts
    <3> QED
      BY <2>1, <3>1, <3>2
  <2>2. CASE Scope(o) # <<>>
    <3>1. SignalQuery(o, s) = Scope(o) \o <<s>>
      BY <2>2 DEF SignalQuery
    <3>2. <<s>> \in Seq(Parts) /\ Len(<<s>>) = 1 /\ <<s>>[1] = s
      BY OnePart
    <3>3. /\ Scope(o) \o <<s>> \in Seq(Parts) /\ Len(Scope(o) \o <<s>>) = Len(Scope(o)) + 1
          /\ (Scope(o) \o <<s>>)[Len(Scope(o)) + 1] = s
      BY <1>2, <3>2, ConcatProperties
    <3> QED
      BY <2>2, <3>1, <3>3
  <2> QED
    BY <2>1, <2>2
<1>8. PersonQuery(o) \in Seq(Parts)
  <2>1. /\ <<"company", "decision makers">> \in Seq(Parts)
        /\ <<"decision makers", "executives">> \in Seq(Parts)
    BY TwoParts, Zenon DEF Parts
  <2>2. Scope(o) \o <<"decision makers", "executives">> \in Seq(Parts)
    BY <1>2, <2>1, ConcatProperties
  <2> QED
    BY <2>1, <2>2 DEF PersonQuery
<1>9. ASSUME NEW s \in Parts, s # "companies", Scope(o) # <<>>, BaseQuery(o) = SignalQuery(o, s)
      PROVE  FALSE
  <2>1. Len(SignalQuery(o, s)) = Len(Scope(o)) + 1 /\ SignalQuery(o, s)[Len(Scope(o)) + 1] = s
    BY <1>7, <1>9
  <2>2. Len(g) = 0
    BY <1>1, <1>2, <1>4, <1>6, <1>9, <2>1
  <2>3. Len(Scope(o)) = Len(i)
    BY <1>2, <2>2
  <2> QED
    BY <1>6, <1>9, <2>1, <2>3
<1>10. ASSUME NEW s \in Parts, NEW t \in Parts, SignalQuery(o, s) = SignalQuery(o, t)
       PROVE  s = t
  BY <1>7, <1>10
<1> QED
  BY <1>6, <1>7, <1>8, <1>9, <1>10

\* The angles but the last are all different.
LEMMA AnglesDiffer ==
    ASSUME NEW o, Objectives(o)
    PROVE  /\ Angles(o) \in Seq(Seq(Parts))
           /\ \A i, j \in 1 .. Len(Angles(o)) - 1 : i # j => Angles(o)[i] # Angles(o)[j]
<1> DEFINE names == o.signals.names
           n == Len(names)
           b == IF Scope(o) = <<>> THEN <<>> ELSE <<BaseQuery(o)>>
           s == [i \in 1 .. n |-> SignalQuery(o, names[i])]
           p == IF o.person THEN <<PersonQuery(o)>> ELSE <<>>
           all == (b \o s) \o p
           Q == Seq(Parts)
<1>1. /\ names \in Seq(Parts \ {"companies"}) /\ n \in Nat /\ DOMAIN names = 1 .. n
      /\ \A i \in 1 .. n : names[i] \in Parts \ {"companies"}
      /\ \A i, j \in 1 .. n : i # j => names[i] # names[j]
  <2>1. names \in Seq(Parts \ {"companies"})
    BY NamesAreParts
  <2>2. \A i, j \in 1 .. n : i # j => names[i] # names[j]
    BY DEF Objectives
  <2> HIDE DEF names
  <2> QED
    BY <2>1, <2>2
<1>2. Angles(o) = all
  BY <1>1 DEF Angles
<1>3. /\ BaseQuery(o) \in Q /\ PersonQuery(o) \in Q
      /\ \A i \in 1 .. n : SignalQuery(o, names[i]) \in Q
      /\ \A i \in 1 .. n : Scope(o) # <<>> => BaseQuery(o) # SignalQuery(o, names[i])
      /\ \A i, j \in 1 .. n : SignalQuery(o, names[i]) = SignalQuery(o, names[j]) => names[i] = names[j]
  <2> HIDE DEF names, n
  <2> QED
    BY <1>1, QueriesDiffer
<1> HIDE DEF names, n, Q
<1>4. s \in Seq(Q) /\ Len(s) = n /\ \A i \in 1 .. n : s[i] = SignalQuery(o, names[i])
  <2>1. s \in [1 .. n -> Q]
    BY <1>3
  <2> QED
    BY <1>1, <2>1
<1>5. /\ b \in Seq(Q) /\ Len(b) \in 0 .. 1
      /\ \A i \in 1 .. Len(b) : i = 1 /\ Scope(o) # <<>> /\ b[i] = BaseQuery(o)
  <2>1. <<BaseQuery(o)>> \in Seq(Q) /\ <<>> \in Seq(Q)
    BY <1>3
  <2> QED
    BY <2>1
<1>6. p \in Seq(Q) /\ Len(p) \in 0 .. 1
  <2>1. <<PersonQuery(o)>> \in Seq(Q) /\ <<>> \in Seq(Q)
    BY <1>3
  <2> QED
    BY <2>1
<1> HIDE DEF b, s, p
<1> DEFINE m == Len(b) + n
<1>7. /\ all \in Seq(Q) /\ Len(all) = m + Len(p)
      /\ \A i \in 1 .. Len(b) : all[i] = b[i]
      /\ \A i \in Len(b) + 1 .. m : all[i] = s[i - Len(b)]
  <2>1. /\ b \o s \in Seq(Q) /\ Len(b \o s) = m
        /\ \A i \in 1 .. Len(b) : (b \o s)[i] = b[i]
        /\ \A i \in Len(b) + 1 .. m : (b \o s)[i] = s[i - Len(b)]
    BY <1>1, <1>4, <1>5
  <2>2. /\ all \in Seq(Q) /\ Len(all) = m + Len(p)
        /\ \A i \in 1 .. m : all[i] = (b \o s)[i]
    BY <1>6, <2>1
  <2>3. /\ \A i \in 1 .. Len(b) : i \in 1 .. m
        /\ \A i \in Len(b) + 1 .. m : i \in 1 .. m
    BY <1>1, <1>5
  <2> QED
    BY <2>1, <2>2, <2>3
<1>8. \A i \in 1 .. Len(all) - 1 : i \in 1 .. m
  <2>1. Len(all) = m + Len(p) /\ m \in Nat
    BY <1>1, <1>5, <1>7
  <2> HIDE DEF all, m
  <2> QED
    BY <1>6, <2>1
<1> HIDE DEF all
<1>9. ASSUME NEW i \in 1 .. m, NEW j \in 1 .. m, i < j
      PROVE  all[i] # all[j]
  <2>1. j - Len(b) \in 1 .. n /\ j \in Len(b) + 1 .. m
    BY <1>1, <1>5, <1>9
  <2>2. all[j] = SignalQuery(o, names[j - Len(b)])
    BY <1>4, <1>7, <2>1
  <2>3. CASE i \in 1 .. Len(b)
    <3>1. all[i] = BaseQuery(o) /\ Scope(o) # <<>>
      BY <1>5, <1>7, <2>3
    <3> QED
      BY <1>3, <2>1, <2>2, <3>1
  <2>4. CASE i \notin 1 .. Len(b)
    <3>1. i - Len(b) \in 1 .. n /\ i \in Len(b) + 1 .. m /\ i - Len(b) # j - Len(b)
      BY <1>1, <1>5, <1>9, <2>4
    <3>2. all[i] = SignalQuery(o, names[i - Len(b)])
      BY <1>4, <1>7, <3>1
    <3> QED
      BY <1>1, <1>3, <2>1, <2>2, <3>1, <3>2
  <2> QED
    BY <2>3, <2>4
<1>10. \A i, j \in 1 .. Len(all) - 1 : i # j => all[i] # all[j]
  <2> TAKE i, j \in 1 .. Len(all) - 1
  <2>1. i \in 1 .. m /\ j \in 1 .. m
    BY <1>8
  <2>2. i # j => i < j \/ j < i
    BY <2>1
  <2> HIDE DEF m
  <2> QED
    BY <1>9, <2>1, <2>2
<1> QED
  BY <1>2, <1>7, <1>10 DEF Q

-----------------------------------------------------------------------------
(* The plan: no angle is lost, and the budget fits. *)

\* What is left without repetitions is a beginning of the positions when these
\* are all new, and has no repetition in any case.
LEMMA DedupedIs ==
    ASSUME NEW K, NEW items \in Seq(K), items # <<>>
    PROVE  /\ Deduped(items)[1] = items[1] /\ Len(Deduped(items)) \in 1 .. Len(items)
           /\ IsInjective(Deduped(items)) /\ Range(Deduped(items)) = Range(items)
           /\ IsInjective(items) => Len(Deduped(items)) = Len(items)
<1> DEFINE k == Len(items)
           G == 1 .. k
           N == News(G, items)
           d == Deduped(items)
<1>1. k \in Nat /\ k # 0 /\ DOMAIN items = G /\ \A i \in G : items[i] \in K
  OBVIOUS
<1>2. d \in Seq(K) /\ InPlace(d, N, items, k) /\ Range(d) = Range(items)
  <2>1. d = DedupeOrdered(items)
    BY DEF Deduped, DedupeOrdered
  <2>2. PICK f \in Keeping(k, G, items, K) : d = f[k]
    BY <2>1, DedupeUnfolds
  <2>2a. G \in SUBSET (1 .. k)
    OBVIOUS
  <2> HIDE DEF k, d, N, G
  <2>3. InPlace(f[k], News(G, items), items, k) /\ Range(f[k]) = {items[i] : i \in G}
    BY <1>1, <2>2, <2>2a, KeepsTheNew
  <2>4. f[k] \in Seq(K)
    BY <1>1, <2>2 DEF Keeping
  <2>5. Range(items) = {items[i] : i \in G}
    BY <1>1 DEF Range
  <2> QED
    BY <2>2, <2>3, <2>4, <2>5 DEF N
<1>3. N \in SUBSET (1 .. k) /\ UpTo(N, k) = N
  <2>1. N \in SUBSET (1 .. k)
    BY DEF News
  <2>2. \A j \in N : j <= k
    BY <1>1, <2>1
  <2> QED
    BY <2>1, <2>2 DEF UpTo
<1>4. \A i, j \in N : items[i] = items[j] => i = j
  <2> TAKE i, j \in N
  <2>1. i < j \/ j < i \/ i = j
    BY <1>1, <1>3
  <2> QED
    BY <2>1 DEF News
<1>5. 1 \in N
  <2>1. 1 \in G /\ \A j \in G : ~ (j < 1)
    BY <1>1
  <2> QED
    BY <2>1 DEF News
<1>6. IsInjective(items) => N = G
  <2> SUFFICES ASSUME IsInjective(items)
               PROVE  G \subseteq N
    BY <1>3
  <2>1. \A i, j \in G : j < i => j # i
    BY <1>1
  <2>2. \A i, j \in G : items[i] = items[j] => i = j
    BY <1>1 DEF IsInjective
  <2> QED
    BY <2>1, <2>2 DEF News
<1> HIDE DEF d, N, k
<1>7. /\ Len(d) = Cardinality(N) /\ Len(d) \in Nat
      /\ \A i \in N : Cardinality(UpTo(N, i)) \in 1 .. Len(d) /\ d[Cardinality(UpTo(N, i))] = items[i]
      /\ \A m \in 1 .. Len(d) : \E i \in N : Cardinality(UpTo(N, i)) = m
  <2>1. Len(d) \in Nat
    BY <1>2
  <2>2. Len(d) = Cardinality(UpTo(N, k))
    BY <1>2 DEF InPlace
  <2>3. /\ \A i \in UpTo(N, k) : Cardinality(UpTo(N, i)) \in 1 .. Len(d) /\ d[Cardinality(UpTo(N, i))] = items[i]
        /\ \A m \in 1 .. Len(d) : \E i \in UpTo(N, k) : Cardinality(UpTo(N, i)) = m
    BY <1>2, Zenon DEF InPlace
  <2> QED
    BY <1>3, <2>1, <2>2, <2>3, Zenon
<1>8. Len(d) <= k /\ (N = G => Len(d) = k)
  <2>1. IsFiniteSet(1 .. k) /\ Cardinality(1 .. k) = k
    BY <1>1, FS_Interval
  <2>2. Cardinality(N) <= Cardinality(1 .. k)
    BY <1>3, <2>1, FS_Subset
  <2> QED
    BY <1>7, <2>1, <2>2
<1>9. d[1] = items[1] /\ Len(d) # 0
  <2>1. UpTo(N, 1) = {1}
    <3>1. \A j \in N : j <= 1 <=> j = 1
      BY <1>1, <1>3
    <3> QED
      BY <1>5, <3>1 DEF UpTo
  <2>2. Cardinality(UpTo(N, 1)) = 1
    BY <2>1, FS_Singleton
  <2> QED
    BY <1>5, <1>7, <2>2
<1>10. IsInjective(d)
  <2> SUFFICES ASSUME NEW a \in 1 .. Len(d), NEW b \in 1 .. Len(d), d[a] = d[b]
               PROVE  a = b
    BY <1>2 DEF IsInjective
  <2>1. PICK i \in N : Cardinality(UpTo(N, i)) = a
    BY <1>7
  <2>2. PICK j \in N : Cardinality(UpTo(N, j)) = b
    BY <1>7
  <2>3. d[a] = items[i] /\ d[b] = items[j]
    BY <1>7, <2>1, <2>2
  <2>4. i = j
    BY <1>4, <2>3
  <2> QED
    BY <2>1, <2>2, <2>4
<1>11. Len(d) \in 1 .. k
  BY <1>1, <1>7, <1>8, <1>9
<1> QED
  BY <1>2, <1>6, <1>8, <1>9, <1>10, <1>11 DEF d, k

\* Every angle of a request is asked, or there are as many queries as may be.
LEMMA AnglesAreAsked ==
    ASSUME NEW text, text \in Range(Angles(Objective(text))) => Len(Angles(Objective(text))) < MaxQueries
    PROVE  AsksEveryAngle(text)
<1> DEFINE a == Angles(Objective(text))
           K == Seq(Parts) \cup {text}
           all == <<text>> \o a
           n == IF Len(all) < 4 THEN Len(all) ELSE 4
           cut == SubSeq(all, 1, n)
<1>1. /\ a \in Seq(Seq(Parts)) /\ Len(a) \in Nat
      /\ \A i, j \in 1 .. Len(a) - 1 : i # j => a[i] # a[j]
  BY ObjectiveShape, AnglesDiffer
<1>2. a \in Seq(K) /\ <<text>> \in Seq(K) /\ Len(<<text>>) = 1 /\ <<text>>[1] = text
  <2>1. \A S, T : S \subseteq T => Seq(S) \subseteq Seq(T)
    OBVIOUS
  <2>2. Seq(Parts) \subseteq K /\ text \in K
    OBVIOUS
  <2>3. a \in Seq(K)
    BY <1>1, <2>1, <2>2, Zenon
  <2> QED
    BY <2>2, <2>3, OnePart, Zenon
<1>3. BuildQueries(text) = Deduped(cut)
  BY DEF BuildQueries, MaxQueries
<1> HIDE DEF a, K
<1>4. /\ all \in Seq(K) /\ Len(all) = Len(a) + 1 /\ all[1] = text
      /\ \A i \in 1 .. Len(a) : all[i + 1] = a[i]
  <2>1. /\ all \in Seq(K) /\ Len(all) = 1 + Len(a)
        /\ \A i \in 1 .. 1 + Len(a) : all[i] = IF i <= 1 THEN <<text>>[i] ELSE a[i - 1]
    BY <1>2, ConcatProperties
  <2> HIDE DEF all
  <2>2. \A i \in 1 .. Len(a) : i + 1 \in 1 .. 1 + Len(a) /\ ~ (i + 1 <= 1) /\ (i + 1) - 1 = i
    BY <1>1
  <2>3. 1 \in 1 .. 1 + Len(a) /\ 1 <= 1
    BY <1>1
  <2> QED
    BY <1>2, <2>1, <2>2, <2>3
<1> HIDE DEF all
<1>5. n \in 1 .. 4 /\ n \in 1 .. Len(all) /\ (Len(all) > 4 => n = 4) /\ (~ (Len(all) > 4) => n = Len(all))
  BY <1>1, <1>4
<1> HIDE DEF n
<1>6. cut \in Seq(K) /\ Len(cut) = n /\ \A i \in 1 .. n : cut[i] = all[i]
  BY <1>4, <1>5
<1> HIDE DEF cut
<1>7. cut # <<>> /\ cut[1] = text
  BY <1>4, <1>5, <1>6
<1>8. /\ Deduped(cut)[1] = text /\ Len(Deduped(cut)) \in 1 .. n
      /\ IsInjective(Deduped(cut)) /\ Range(Deduped(cut)) = Range(cut)
      /\ IsInjective(cut) => Len(Deduped(cut)) = n
  BY <1>6, <1>7, DedupedIs
<1>9. CASE Len(all) > 4
  <2>1. \A i \in 1 .. Len(a) : text # a[i]
    <3>1. text \notin Range(a)
      BY <1>1, <1>4, <1>9 DEF a, MaxQueries
    <3>2. DOMAIN a = 1 .. Len(a)
      BY <1>1
    <3> QED
      BY <3>1, <3>2 DEF Range
  <2>2. n = 4 /\ Len(a) - 1 >= 3
    BY <1>1, <1>4, <1>5, <1>9
  <2>3. ASSUME NEW i \in 1 .. 4, NEW j \in 1 .. 4, i < j
        PROVE  all[i] # all[j]
    <3>1. /\ j - 1 \in 1 .. 3 /\ j - 1 \in 1 .. Len(a) /\ j - 1 \in 1 .. Len(a) - 1 /\ (j - 1) + 1 = j
      BY <1>1, <2>2, <2>3
    <3>2. all[j] = a[j - 1]
      BY <1>4, <3>1
    <3>3. CASE i = 1
      BY <1>4, <2>1, <3>1, <3>2, <3>3
    <3>4. CASE i # 1
      <4>1. i - 1 \in 1 .. Len(a) /\ i - 1 \in 1 .. Len(a) - 1 /\ (i - 1) + 1 = i /\ i - 1 # j - 1
        BY <1>1, <2>2, <2>3, <3>4
      <4>2. all[i] = a[i - 1]
        BY <1>4, <4>1
      <4> QED
        BY <1>1, <3>1, <3>2, <4>1, <4>2
    <3> QED
      BY <3>3, <3>4
  <2>4. IsInjective(cut)
    <3> SUFFICES ASSUME NEW i \in 1 .. 4, NEW j \in 1 .. 4, cut[i] = cut[j]
                 PROVE  i = j
      <4>1. DOMAIN cut = 1 .. 4
        BY <1>6, <2>2
      <4> QED
        BY <4>1 DEF IsInjective
    <3>1. all[i] = all[j]
      BY <1>6, <2>2
    <3>2. i < j \/ j < i \/ i = j
      OBVIOUS
    <3> QED
      BY <2>3, <3>1, <3>2
  <2>5. Len(Deduped(cut)) = 4
    BY <1>8, <2>2, <2>4
  <2> QED
    BY <1>3, <1>8, <2>5 DEF AsksEveryAngle, MaxQueries
<1>10. CASE ~ (Len(all) > 4)
  <2>1. n = Len(a) + 1
    BY <1>4, <1>5, <1>10
  <2>2. ASSUME NEW q \in Range(a)
        PROVE  q \in Range(cut)
    <3>1. PICK i \in 1 .. Len(a) : q = a[i]
      <4>1. DOMAIN a = 1 .. Len(a)
        BY <1>1
      <4> QED
        BY <2>2, <4>1, Zenon DEF Range
    <3>2. i + 1 \in 1 .. n
      BY <1>1, <2>1
    <3>3. cut[i + 1] = q /\ DOMAIN cut = 1 .. n
      BY <1>4, <1>6, <3>1, <3>2
    <3> QED
      BY <3>2, <3>3 DEF Range
  <2>3. Len(Deduped(cut)) <= 4
    BY <1>5, <1>8
  <2> QED
    BY <1>3, <1>8, <2>2, <2>3 DEF AsksEveryAngle, MaxQueries, a
<1> QED
  BY <1>9, <1>10

\* A number the text asks for is asked of the search, with the pages to crawl it.
LEMMA BudgetIsRight ==
    ASSUME NEW S, NEW text \in Seq(S), NEW mode \in DOMAIN Defaults,
           NEW overrides \in [max_results : Int \cup {Absent}, max_pages : Int \cup {Absent}]
    PROVE  BudgetFits(text, mode, overrides)
<1> DEFINE L == ResultLimit(text)
           found == Limits(text)
           config == Resolve(mode, overrides)
           bounded == Min({L, 50})
           pages == Max({config.max_pages, bounded})
<1>1. CASE found = {}
  <2>1. L = Absent
    BY <1>1 DEF ResultLimit
  <2>2. Budget(text, mode, overrides) = config
    BY <2>1 DEF Budget
  <2> QED
    BY <1>1, <2>1, <2>2 DEF BudgetFits
<1>2. CASE found # {}
  <2> DEFINE AsksFor(i) == /\ text[i] \in DOMAIN Value
                           /\ \E n \in 0 .. 2 : /\ i + n + 1 \in DOMAIN text
                                               /\ text[i + n + 1] \in Counted
                                               /\ \A j \in i + 1 .. i + n : text[j] \in Plain
  <2>1. found = {i \in DOMAIN text : AsksFor(i)} /\ \A i : AsksFor(i) => text[i] \in DOMAIN Value
    BY DEF Limits
  <2> HIDE DEF AsksFor
  <2>2. DOMAIN text = 1 .. Len(text) /\ Len(text) \in Nat
    OBVIOUS
  <2>3. found \in SUBSET (1 .. Len(text)) /\ \A i \in found : text[i] \in DOMAIN Value
    BY <2>1, <2>2
  <2>4. L = Value[text[Min(found)]]
    BY <1>2 DEF ResultLimit
  <2> HIDE DEF found, L
  <2>5. Min(found) \in found /\ \A i \in found : Min(found) <= i
    BY <1>2, <2>2, <2>3, FirstOfSome
  <2>6. L \in Nat /\ L # Absent
    <3>1. \A w \in DOMAIN Value : Value[w] \in Nat
      BY PlanAssumption
    <3>2. L \in Nat
      BY <2>3, <2>4, <2>5, <3>1
    <3> QED
      BY <3>2, PlanAssumption
  <2>7. \E i \in found : L = Value[text[i]] /\ \A j \in 1 .. i - 1 : j \notin found
    <3> DEFINE first == Min(found)
    <3>1. first \in 1 .. Len(text) /\ \A i \in found : first <= i
      BY <2>3, <2>5
    <3> HIDE DEF first
    <3>2. \A j \in 1 .. first - 1 : ~ (first <= j)
      BY <2>2, <3>1
    <3>3. \A j \in 1 .. first - 1 : j \notin found
      BY <3>1, <3>2
    <3> QED
      BY <2>4, <2>5, <3>3 DEF first
  <2>8. bounded \in {L, 50} /\ bounded <= L /\ bounded \in 0 .. 50
    <3>1. \E x \in {L, 50} : \A y \in {L, 50} : x <= y
      BY <2>6
    <3>2. bounded \in {L, 50} /\ \A y \in {L, 50} : bounded <= y
      BY <3>1 DEF Min
    <3> HIDE DEF bounded
    <3> QED
      BY <2>6, <3>2
  <2>9. config.max_pages \in Int
    <3>1. Defaults[mode] \in [max_results : Int, max_pages : Int]
      BY PlanAssumption
    <3>2. DOMAIN Defaults[mode] = {"max_results", "max_pages"}
      BY <3>1
    <3>3. config.max_pages = IF overrides.max_pages # Absent THEN overrides.max_pages ELSE Defaults[mode].max_pages
      BY <3>2 DEF Resolve
    <3> QED
      BY <3>1, <3>3
  <2> HIDE DEF config, bounded
  <2>10. pages \in {config.max_pages, bounded} /\ config.max_pages <= pages /\ bounded <= pages
    <3>1. \E x \in {config.max_pages, bounded} : \A y \in {config.max_pages, bounded} : x >= y
      BY <2>8, <2>9
    <3>2. pages \in {config.max_pages, bounded} /\ \A y \in {config.max_pages, bounded} : pages >= y
      BY <3>1 DEF Max
    <3> HIDE DEF pages
    <3>3. pages \in Int
      BY <2>8, <2>9, <3>2
    <3> QED
      BY <2>8, <2>9, <3>2, <3>3
  <2>11. Budget(text, mode, overrides) = [max_results |-> bounded, max_pages |-> pages]
    BY <2>6 DEF Budget, MaxResultLimitOverride, L, config, bounded
  <2> HIDE DEF pages
  <2>12. /\ Budget(text, mode, overrides).max_results = bounded
         /\ Budget(text, mode, overrides).max_pages = pages
    BY <2>11
  <2> QED
    BY <2>7, <2>8, <2>10, <2>12 DEF BudgetFits, MaxResultLimitOverride, L, config, found
<1> QED
  BY <1>1, <1>2

\* A plan covers what the request asks for.
LEMMA PlanIsRight ==
    ASSUME NEW S, NEW text \in Seq(S), NEW mode \in DOMAIN Defaults,
           NEW overrides \in [max_results : Int \cup {Absent}, max_pages : Int \cup {Absent}],
           text \in Range(Angles(Objective(text))) => Len(Angles(Objective(text))) < MaxQueries
    PROVE  PlanCovers(text, mode, overrides)
<1>1. AsksEveryAngle(text)
  BY AnglesAreAsked
<1>2. BudgetFits(text, mode, overrides)
  BY BudgetIsRight
<1>3. Geography \in Seq(Entries) /\ Industry \in Seq(Entries) /\ Attributes \in Seq(Entries)
  BY PlanAssumption DEF Entries
<1> DEFINE o == Objective(text)
<1>4. /\ o.geography = MatchKeywords(Geography, text) /\ o.industry = MatchKeywords(Industry, text)
      /\ o.signals = MatchSignals(text) /\ o.attributes = MatchKeywords(Attributes, text)
  BY DEF Objective
<1>5. /\ ExplainsItself(Geography, o.geography, text)
      /\ ExplainsItself(Industry, o.industry, text)
      /\ ExplainsItself(Attributes, o.attributes, text)
      /\ ExplainsItself(Signals, o.signals, text)
  <2> HIDE DEF o
  <2> QED
    BY <1>3, <1>4, KeywordsExplained, SignalsExplained
<1> QED
  BY <1>1, <1>2, <1>5 DEF PlanCovers

-----------------------------------------------------------------------------
(* Every sample. *)

\* Samples stay what they were drawn from.
Drawn ==
    /\ part = "urls" => sample \in Urls \X Urls
    /\ part = "plan" => sample \in Requests \X (DOMAIN Defaults) \X Overrides
    /\ part = "links" => sample \in Lists(Tags)
    /\ part = "scripts" => sample \in Lists(Scripts)
    /\ part = "items" => sample \in Lists(Items)
    /\ part = "results" => sample \in Lists(Results) \X (0 .. MaxLength)

\* A list is a sequence.
LEMMA ListsAreSeqs ==
    ASSUME NEW S, NEW l \in Lists(S)
    PROVE  l \in Seq(S)
<1>1. PICK k \in 0 .. MaxLength : l \in [1 .. k -> S]
  BY DEF Lists
<1>2. k \in Nat
  BY <1>1, PipelineAssumption
<1> QED
  BY <1>1, <1>2

\* Nothing is drawn after the start.
LEMMA DrawnOnce == Spec => []Drawn
<1>1. Init => Drawn
  <2> SUFFICES ASSUME Init
               PROVE  Drawn
    OBVIOUS
  <2>1. \/ part = "fetch"
        \/ part = "urls" /\ sample \in Urls \X Urls
        \/ part = "plan" /\ sample \in Requests \X (DOMAIN Defaults) \X Overrides
        \/ part = "links" /\ sample \in Lists(Tags)
        \/ part = "scripts" /\ sample \in Lists(Scripts)
        \/ part = "items" /\ sample \in Lists(Items)
        \/ part = "results" /\ sample \in Lists(Results) \X (0 .. MaxLength)
    BY DEF Init
  <2> QED
    BY <2>1 DEF Drawn
<1>2. Drawn /\ [Next]_vars => Drawn'
  BY DEF Drawn, Next, vars
<1> QED
  BY <1>1, <1>2, PTL DEF Spec

\* Whatever two urls are compared, they have one key exactly when they differ
\* in nothing but what the code leaves out of a key: no more is forgotten, and
\* no less.
THEOREM KeysForget == Spec => []KeysForgetOnlyNoise
<1>1. Urls \subseteq ParsedUrls
  BY PipelineAssumption DEF ParsedUrls, Pairs
<1>2. Drawn => KeysForgetOnlyNoise
  BY <1>1, KeysAreRight DEF Drawn, KeysForgetOnlyNoise
<1> QED
  BY <1>2, DrawnOnce, PTL

\* Whatever a request says, its plan asks every angle there is room for, each
\* once and behind the user's own words, explains every match by the most
\* specific word of the text, and has pages for the number that is asked for.
THEOREM PlansCover == Spec => []PlanCoversTheRequest
<1>1. Drawn => PlanCoversTheRequest
  <2> SUFFICES ASSUME Drawn, part = "plan"
               PROVE  PlanCovers(sample[1], sample[2], sample[3])
    BY DEF PlanCoversTheRequest
  <2>1. sample[1] \in Requests /\ sample[2] \in DOMAIN Defaults /\ sample[3] \in Overrides
    BY DEF Drawn
  <2>2. sample[1] \in Seq(Words)
    BY <2>1, ListsAreSeqs DEF Requests
  <2>3. sample[3] \in [max_results : Int \cup {Absent}, max_pages : Int \cup {Absent}]
    BY <2>1, PipelineAssumption
  <2>4. sample[1] \in Range(Angles(Objective(sample[1]))) =>
            Len(Angles(Objective(sample[1]))) < MaxQueries
    BY <2>1, PipelineAssumption
  <2> QED
    BY <2>1, <2>2, <2>3, <2>4, PlanIsRight
<1> QED
  BY <1>1, DrawnOnce, PTL

\* Whatever the tags of a page are, its links are those of its site, in order
\* and each of them once.
THEOREM LinksStayOnTheSite == Spec => []LinksAreOfTheSite
<1>1. Drawn => LinksAreOfTheSite
  BY ListsAreSeqs, LinksAreRight DEF Drawn, LinksAreOfTheSite
<1> QED
  BY <1>1, DrawnOnce, PTL

\* Whatever a page or a search lists, the objects, contacts and hits that are
\* kept are the first, up to the limit.
THEOREM ListsAreBeginnings == Spec => []ListsKeepTheFirst
<1>1. Drawn => ListsKeepTheFirst
  <2> SUFFICES ASSUME Drawn
               PROVE  ListsKeepTheFirst
    OBVIOUS
  <2>1. ASSUME part = "scripts"
        PROVE  KeepsFirstObjects(sample)
    <3>1. sample \in Seq(Scripts)
      BY <2>1, ListsAreSeqs DEF Drawn
    <3>2. Scripts \subseteq Seq(Maybe(Objects))
      BY PipelineAssumption DEF Maybe
    <3>3. sample \in Seq(Seq(Maybe(Objects)))
      BY <3>1, <3>2
    <3> QED
      BY <3>3, ObjectsAreFirst
  <2>2. ASSUME part = "items"
        PROVE  KeepsFirstItems(sample)
    <3>1. sample \in Seq(Items)
      BY <2>2, ListsAreSeqs DEF Drawn
    <3> QED
      BY <3>1, ContactsAreFirst
  <2>3. ASSUME part = "results"
        PROVE  KeepsFirstHits(sample[1], sample[2])
    <3>1. sample[1] \in Lists(Results) /\ sample[2] \in 0 .. MaxLength
      BY <2>3 DEF Drawn
    <3>2. sample[1] \in Seq(Results) /\ sample[2] \in Nat
      BY <3>1, ListsAreSeqs, PipelineAssumption
    <3>3. Results \subseteq Maybe(Links(Names))
      BY PipelineAssumption DEF Maybe, Links
    <3>4. sample[1] \in Seq(Maybe(Links(Names)))
      BY <3>2, <3>3
    <3> QED
      BY <3>2, <3>4, HitsAreFirst
  <2> QED
    BY <2>1, <2>2, <2>3 DEF ListsKeepTheFirst
<1> QED
  BY <1>1, DrawnOnce, PTL
=============================================================================
