--------------------------- MODULE EventFeedProofs ---------------------------
(***************************************************************************)
(* What the page of a job can be trusted with, for any statuses and kinds  *)
(* of event, any number of sockets and a log of any length: the status it  *)
(* shows comes with the events before it, the results it has read are all  *)
(* there are, and its timeline is the log with gaps, which never loses an  *)
(* entry.                                                                  *)
(***************************************************************************)
EXTENDS EventFeed, Recursion, SequenceTheorems, TLAPS

USE FeedAssumption
-----------------------------------------------------------------------------
(* Statuses and results. *)

\* StatusHasItsHistory at every place a status passes through: the row, the
\* poll that has read it, and the page.
History ==
    /\ state \in DOMAIN Forerunner => In(Forerunner[state], recorded)
    /\ poll.at = "row" /\ poll.status \in DOMAIN Forerunner => In(Forerunner[poll.status], recorded)
    /\ poll.at = "answer" /\ poll.status \in DOMAIN Forerunner =>
           In(Forerunner[poll.status], poll.events)
    /\ StatusHasItsHistory

\* The job is over, or was once and has been opened again.
Over == state \in Terminal \/ reopened

\* A terminal status is nowhere but after the end of the job, so that nothing
\* is saved after the results are read.
Final ==
    /\ poll.at \in {"row", "answer"} /\ poll.status \in Terminal => Over
    /\ view.status \in Terminal => Over
    /\ results # Unread => Over
    /\ ResultsAreFinal

\* The job goes on: it writes a status, or its log grows.
Working == (\E s \in Stati : WritesStatus(s)) \/ (\E e \in Kinds : Records(e)) \/ Publishes \/ Abandons

FeedShape ==
    /\ \E S : recorded \in Seq(S)
    /\ DOMAIN poll = {"at", "status", "events"}

FeedInv == FeedShape /\ History /\ Final

\* Nothing is read and nothing shown.
LEMMA FeedStart == FeedInit => FeedInv
<1> SUFFICES ASSUME FeedInit
             PROVE  FeedInv
  OBVIOUS
<1> USE DEF FeedInit, JobInit, NoPoll, Nothing
<1>1. History
  BY DEF History, StatusHasItsHistory
<1>2. Final
  BY DEF Final, ResultsAreFinal
<1>3. FeedShape
  BY DEF FeedShape
<1> QED
  BY <1>1, <1>2, <1>3 DEF FeedInv

\* What is in the log stays in it.
LEMMA LogKeeps ==
    ASSUME NEW S, recorded \in Seq(S), NEW k,
           recorded' = recorded \/ \E e \in Kinds : recorded' = Append(recorded, e)
    PROVE  (\E T : recorded' \in Seq(T)) /\ (In(k, recorded) => In(k, recorded'))
<1>1. CASE recorded' = recorded
  BY <1>1
<1>2. CASE \E e \in Kinds : recorded' = Append(recorded, e)
  <2>1. PICK e \in Kinds : recorded' = Append(recorded, e)
    BY <1>2
  <2>2. recorded \in Seq(S \cup {e})
    OBVIOUS
  <2>3. recorded' \in Seq(S \cup {e}) /\ \A i \in DOMAIN recorded : i \in DOMAIN recorded' /\ recorded'[i] = recorded[i]
    BY <2>1, <2>2
  <2> QED
    BY <2>3 DEF In
<1> QED
  BY <1>1, <1>2

\* The log only grows, and a status waits for its forerunner.
LEMMA WorkStep ==
    ASSUME FeedInv, Working
    PROVE  FeedInv'
<1> USE DEF FeedInv
<1>1. /\ UNCHANGED <<view, poll, results, saved>>
      /\ recorded' = recorded \/ \E e \in Kinds : recorded' = Append(recorded, e)
      /\ \/ UNCHANGED <<state, reopened>>
         \/ /\ state' \in DOMAIN Forerunner => In(Forerunner[state'], recorded)
            /\ reopened' = (reopened \/ (state \in Terminal /\ state' \notin Terminal))
  BY DEF Working, WritesStatus, Records, Publishes, Abandons, SetStatus, Record, Publish, page, crawled
<1>2. \A k : In(k, recorded) => In(k, recorded')
  BY <1>1, LogKeeps DEF FeedShape
<1>3. FeedShape'
  BY <1>1, LogKeeps DEF FeedShape
<1>4. History'
  BY <1>1, <1>2 DEF History, StatusHasItsHistory
<1>5. Over => Over'
  BY <1>1 DEF Over
<1>6. Final'
  <2>1. reopened => reopened'
    BY <1>1
  <2> QED
    BY <1>1, <1>5, <2>1 DEF Final, ResultsAreFinal
<1> QED
  BY <1>3, <1>4, <1>6

\* The row is read before the events, so the answer has what the row rests on.
LEMMA PollStep ==
    ASSUME FeedInv, PollRow \/ PollEvents \/ PollAnswered \/ PollFails
    PROVE  FeedInv'
<1> USE DEF FeedInv, FeedShape, History, Final, StatusHasItsHistory, ResultsAreFinal, Over, jobVars, crawled
<1>1. CASE PollRow
  <2>1. poll' = [at |-> "row", status |-> state, events |-> << >>]
    BY <1>1 DEF PollRow, NoPoll
  <2>2. /\ poll'.at = "row" /\ poll'.status = state /\ DOMAIN poll' = {"at", "status", "events"}
        /\ UNCHANGED <<jobVars, view, results, crawled>>
    BY <1>1, <2>1 DEF PollRow
  <2> QED
    BY <2>2
<1>2. CASE PollEvents
  <2>1. /\ poll'.at = "answer" /\ poll'.status = poll.status /\ poll'.events = recorded
        /\ DOMAIN poll' = {"at", "status", "events"} /\ poll.at = "row"
        /\ UNCHANGED <<jobVars, view, results, crawled>>
    BY <1>2 DEF PollEvents
  <2> QED
    BY <2>1
<1>3. CASE PollAnswered
  <2>1. /\ view'.status = poll.status /\ view'.events = poll.events /\ poll.at = "answer"
        /\ poll'.at = "idle" /\ DOMAIN poll' = {"at", "status", "events"}
        /\ UNCHANGED <<jobVars, results, crawled>>
    BY <1>3 DEF PollAnswered, NoPoll
  <2> QED
    BY <2>1
<1>4. CASE PollFails
  <2>1. /\ poll'.at = "idle" /\ DOMAIN poll' = {"at", "status", "events"}
        /\ UNCHANGED <<jobVars, view, results, crawled>>
    BY <1>4 DEF PollFails, NoPoll
  <2> QED
    BY <2>1
<1> QED
  BY <1>1, <1>2, <1>3, <1>4

\* What the socket does says nothing of statuses or results.
LEMMA SocketFrame ==
    ASSUME NEW s \in Sockets,
           OpenSocket(s) \/ Refuse(s) \/ Accept(s) \/ Subscribe(s) \/ Forward(s) \/ Drop(s)
    PROVE  UNCHANGED <<state, recorded, view, poll, results, saved, reopened>>
BY DEF OpenSocket, Refuse, Accept, Subscribe, Forward, Drop, page, jobVars, crawled

\* What is left are the results, and the socket.
LEMMA FeedStep ==
    ASSUME FeedInv, [FeedNext]_feedVars
    PROVE  FeedInv'
<1> USE DEF FeedInv, FeedShape, page, feed, crawled, jobVars, Over
<1>1. ASSUME UNCHANGED <<state, recorded, view, poll, results, saved, reopened>>
      PROVE  FeedInv'
  BY <1>1 DEF History, Final, StatusHasItsHistory, ResultsAreFinal
<1>2. CASE UNCHANGED feedVars
  BY <1>1, <1>2 DEF feedVars
<1>3. CASE Working
  BY <1>3, WorkStep
<1>4. CASE SaveResult
  BY <1>4 DEF SaveResult, History, Final, StatusHasItsHistory, ResultsAreFinal
<1>5. CASE PollRow \/ PollEvents \/ PollAnswered \/ PollFails
  BY <1>5, PollStep
<1>6. CASE ReadResults
  BY <1>6 DEF ReadResults, History, Final, StatusHasItsHistory, ResultsAreFinal
<1>7. CASE \E s \in Sockets : OpenSocket(s) \/ Refuse(s) \/ Accept(s) \/ Subscribe(s) \/ Forward(s) \/ Drop(s)
  BY <1>1, <1>7, SocketFrame
<1> QED
  BY <1>2, <1>3, <1>4, <1>5, <1>6, <1>7 DEF FeedNext, Working

\* The invariant of the page.
LEMMA FeedInvariance == FeedSpec => []FeedInv
<1>1. FeedSpec => FeedInit /\ [][FeedNext]_feedVars
  BY DEF FeedSpec
<1> QED
  BY FeedStart, FeedStep, <1>1, PTL

\* The status on the page never runs ahead of its events: for any statuses,
\* any forerunners and any interleaving of the two reads with the job.
THEOREM StatusNeverRunsAhead == FeedSpec => []StatusHasItsHistory
<1>1. FeedInv => StatusHasItsHistory
  BY DEF FeedInv, History
<1> QED
  BY FeedInvariance, <1>1, PTL

\* What the page has read of the results is all the job has saved, unless the
\* job was opened again.
THEOREM ResultsReadAreFinal == FeedSpec => []ResultsAreFinal
<1>1. FeedInv => ResultsAreFinal
  BY DEF FeedInv, Final
<1> QED
  BY FeedInvariance, <1>1, PTL

-----------------------------------------------------------------------------
(* Merging. *)

\* s is the beginning of t.
Begins(s, t) == Len(s) <= Len(t) /\ \A i \in 1 .. Len(s) : s[i] = t[i]

\* f maps the places of t to places of s up to n, in order, where s has the
\* same elements.
Places(f, t, s, n) ==
    /\ f \in [1 .. Len(t) -> 1 .. n]
    /\ \A i, j \in 1 .. Len(t) : i < j => f[i] < f[j]
    /\ \A i \in 1 .. Len(t) : t[i] = s[f[i]]

\* What Merge goes through: what it has after n of the live events, for all n.
Merging(K, P, L) ==
    {m \in [0 .. Len(L) -> Seq(K)] :
        /\ m[0] = P
        /\ \A n \in 1 .. Len(L) :
               m[n] = IF In(L[n], m[n - 1]) THEN m[n - 1] ELSE Append(m[n - 1], L[n])}

\* Merging goes through the live events one by one.
LEMMA MergeUnfolds ==
    ASSUME NEW K, NEW P \in Seq(K), NEW L \in Seq(K)
    PROVE  \E m \in Merging(K, P, L) : Merge(P, L) = m[Len(L)]
<1> DEFINE k == Len(L)
           V == Seq(K)
           add(n, before) == IF In(L[n], before) THEN before ELSE Append(before, L[n])
           step == [n \in 1 .. k |-> [v \in V |-> add(n, v)]]
           Is(m) == m = [n \in 0 .. k |-> IF n = 0 THEN P ELSE add(n, m[n - 1])]
           merged == CHOOSE m : Is(m)
<1>1. k \in Nat /\ P \in V /\ \A n \in 1 .. k : L[n] \in K
  OBVIOUS
<1>2. \A n \in 1 .. k : \A v \in V : add(n, v) \in V
  BY <1>1
<1>3. \A n \in 1 .. k : \A v \in V : step[n][v] = add(n, v)
  OBVIOUS
<1>3a. \A n \in 1 .. k : \A v \in V : step[n][v] \in V
  <2> HIDE DEF V, add, step
  <2> QED
    BY <1>2, <1>3
<1>4. Merge(P, L) = merged[k]
  BY DEF Merge
<1> HIDE DEF V, step, k
<1>5. PICK f : f \in Unfolding(k, V, P, step)
  BY <1>1, <1>3a, UnfoldingExists
<1>6. Is(f)
  <2>1. /\ f \in [0 .. k -> V] /\ f[0] = P
        /\ \A n \in 1 .. k : f[n] = step[n][f[n - 1]]
    BY <1>5 DEF Unfolding
  <2>2. \A n \in 1 .. k : f[n] = add(n, f[n - 1])
    <3> TAKE n \in 1 .. k
    <3>1. n - 1 \in 0 .. k /\ f[n - 1] \in V
      BY <1>1, <2>1
    <3> HIDE DEF add
    <3> QED
      BY <1>3, <2>1, <3>1
  <2>3. f = [n \in 0 .. k |-> f[n]] /\ \A n \in 0 .. k : n # 0 => n \in 1 .. k
    BY <1>1, <2>1
  <2>4. \A n \in 0 .. k : f[n] = IF n = 0 THEN P ELSE add(n, f[n - 1])
    <3> HIDE DEF add
    <3> QED
      BY <2>1, <2>2, <2>3
  <2> QED
    BY <2>3, <2>4, Zenon
<1>7. Is(merged)
  <2> HIDE DEF Is
  <2> QED
    BY <1>6
<1> HIDE DEF merged
<1>8. /\ merged = [n \in 0 .. k |-> merged[n]]
      /\ merged[0] = P /\ \A n \in 1 .. k : merged[n] = add(n, merged[n - 1])
  <2>1. merged = [n \in 0 .. k |-> IF n = 0 THEN P ELSE add(n, merged[n - 1])]
    BY <1>7, Zenon
  <2> HIDE DEF add, Is
  <2>2. DOMAIN merged = 0 .. k
    BY <2>1, Zenon
  <2>3. \A n \in 0 .. k : merged[n] = IF n = 0 THEN P ELSE add(n, merged[n - 1])
    BY <2>1, Zenon
  <2>4. 0 \in 0 .. k /\ \A n \in 1 .. k : n \in 0 .. k /\ n # 0
    BY <1>1
  <2>5. merged = [n \in 0 .. k |-> merged[n]]
    BY <2>1, <2>3
  <2>6. merged[0] = P
    BY <2>3, <2>4
  <2>7. \A n \in 1 .. k : merged[n] = add(n, merged[n - 1])
    BY <2>3, <2>4
  <2> QED
    BY <2>5, <2>6, <2>7
<1>9. \A n \in 0 .. k : merged[n] \in V
  <2> DEFINE S == {n \in 0 .. k : merged[n] \in V}
  <2>1. 0 \in S
    BY <1>1, <1>8
  <2>2. ASSUME NEW n \in 0 .. k - 1, n \in S
        PROVE  n + 1 \in S
    <3>1. n + 1 \in 1 .. k /\ n + 1 \in 0 .. k /\ (n + 1) - 1 = n
      BY <1>1
    <3>2. merged[n + 1] = add(n + 1, merged[n])
      BY <1>8, <3>1
    <3> QED
      BY <1>2, <2>2, <3>1, <3>2
  <2>3. 0 .. k \subseteq S
    <3> HIDE DEF S
    <3> QED
      BY <1>1, <2>1, <2>2, IntervalInduction
  <2> QED
    BY <2>3
<1>10. merged \in [0 .. k -> V]
  BY <1>8, <1>9
<1> QED
  BY <1>4, <1>8, <1>10 DEF k, V, Merging

\* Being in a sequence, and in a sequence with one element more.
LEMMA InAppend ==
    ASSUME NEW K, NEW s \in Seq(K), NEW e \in K
    PROVE  /\ \A x : In(x, s) <=> x \in ToSet(s)
           /\ ToSet(Append(s, e)) = ToSet(s) \cup {e}
<1>1. \A x : In(x, s) <=> x \in ToSet(s)
  BY DEF In, ToSet
<1> DEFINE t == Append(s, e)
           n == Len(s)
<1>2. n \in Nat /\ DOMAIN s = 1 .. n /\ DOMAIN t = 1 .. n + 1
      /\ (\A i \in 1 .. n : t[i] = s[i]) /\ t[n + 1] = e
  OBVIOUS
<1> HIDE DEF t, n
<1>3. ToSet(t) = ToSet(s) \cup {e}
  <2>1. ASSUME NEW x \in ToSet(t)
        PROVE  x \in ToSet(s) \cup {e}
    <3>1. PICK i \in 1 .. n + 1 : x = t[i]
      BY <1>2 DEF ToSet
    <3>2. CASE i = n + 1
      BY <1>2, <3>1, <3>2
    <3>3. CASE i # n + 1
      <4>1. i \in 1 .. n
        BY <1>2, <3>3
      <4> QED
        BY <1>2, <3>1, <4>1 DEF ToSet
    <3> QED
      BY <3>2, <3>3
  <2>2. ASSUME NEW x \in ToSet(s)
        PROVE  x \in ToSet(t)
    <3>1. PICK i \in 1 .. n : x = s[i]
      BY <1>2 DEF ToSet
    <3>2. i \in 1 .. n + 1
      BY <1>2
    <3> QED
      BY <1>2, <3>1, <3>2 DEF ToSet
  <2>3. e \in ToSet(t)
    <3>1. n + 1 \in 1 .. n + 1
      BY <1>2
    <3> QED
      BY <1>2, <3>1 DEF ToSet
  <2> QED
    BY <2>1, <2>2, <2>3
<1> QED
  BY <1>1, <1>3 DEF t

\* The merge has all of both, and nothing else.
LEMMA MergeAdds ==
    ASSUME NEW K, NEW P \in Seq(K), NEW L \in Seq(K)
    PROVE  /\ Merge(P, L) \in Seq(K)
           /\ ToSet(Merge(P, L)) = ToSet(P) \cup ToSet(L)
<1> DEFINE k == Len(L)
           First(n) == {L[i] : i \in 1 .. n}
<1>1. k \in Nat /\ DOMAIN L = 1 .. k /\ \A n \in 1 .. k : L[n] \in K
  OBVIOUS
<1> HIDE DEF k
<1>2. PICK m \in [0 .. k -> Seq(K)] :
         /\ m[0] = P
         /\ \A n \in 1 .. k : m[n] = IF In(L[n], m[n - 1]) THEN m[n - 1] ELSE Append(m[n - 1], L[n])
         /\ Merge(P, L) = m[k]
  BY MergeUnfolds DEF k, Merging
<1> DEFINE S == {n \in 0 .. k : ToSet(m[n]) = ToSet(P) \cup First(n)}
<1>3. 0 \in S
  BY <1>1, <1>2
<1>4. ASSUME NEW n \in 0 .. k - 1, n \in S
      PROVE  n + 1 \in S
  <2>1. n + 1 \in 1 .. k /\ n + 1 \in 0 .. k /\ n \in 0 .. k /\ (n + 1) - 1 = n
    BY <1>1
  <2>2. m[n] \in Seq(K) /\ L[n + 1] \in K
    BY <1>1, <1>2, <2>1
  <2>3. First(n + 1) = First(n) \cup {L[n + 1]}
    <3>1. 1 .. n + 1 = (1 .. n) \cup {n + 1}
      BY <2>1
    <3> QED
      BY <3>1
  <2>4. m[n + 1] = IF In(L[n + 1], m[n]) THEN m[n] ELSE Append(m[n], L[n + 1])
    BY <1>2, <2>1
  <2>5. ToSet(m[n + 1]) = ToSet(m[n]) \cup {L[n + 1]}
    <3> HIDE DEF First
    <3>1. /\ In(L[n + 1], m[n]) <=> L[n + 1] \in ToSet(m[n])
          /\ ToSet(Append(m[n], L[n + 1])) = ToSet(m[n]) \cup {L[n + 1]}
      BY <2>2, InAppend
    <3>2. CASE In(L[n + 1], m[n])
      BY <2>4, <3>1, <3>2
    <3>3. CASE ~ In(L[n + 1], m[n])
      BY <2>4, <3>1, <3>3
    <3> QED
      BY <3>2, <3>3
  <2>6. ToSet(m[n]) = ToSet(P) \cup First(n)
    BY <1>4
  <2>7. ToSet(m[n + 1]) = ToSet(P) \cup First(n + 1)
    <3> HIDE DEF First
    <3> QED
      BY <2>3, <2>5, <2>6
  <2> QED
    BY <2>1, <2>7
<1>5. 0 .. k \subseteq S
  <2> HIDE DEF S
  <2> QED
    BY <1>1, <1>3, <1>4, IntervalInduction
<1>6. k \in S
  <2> HIDE DEF S
  <2> QED
    BY <1>1, <1>5
<1>7. First(k) = ToSet(L)
  BY <1>1 DEF ToSet
<1> QED
  BY <1>1, <1>2, <1>6, <1>7

\* Merging keeps the order: where the stored events are the beginning of a log
\* and the live ones have places in it, in order, so have those of the merge.
LEMMA MergePlaces ==
    ASSUME NEW K, NEW R \in Seq(K), NEW P \in Seq(K), NEW L \in Seq(K),
           Begins(P, R), NEW N \in Nat, N <= Len(R), NEW g, Places(g, L, R, N)
    PROVE  \E f : Places(f, Merge(P, L), R, Len(R))
<1> DEFINE k == Len(L)
           p == Len(P)
           r == Len(R)
<1>1. /\ k \in Nat /\ p \in Nat /\ r \in Nat /\ p <= r /\ N <= r
      /\ \A n \in 1 .. k : L[n] \in K
      /\ \A i \in 1 .. p : P[i] = R[i]
  BY DEF Begins
<1>2. /\ g \in [1 .. k -> 1 .. N] /\ \A i, j \in 1 .. k : i < j => g[i] < g[j]
      /\ \A i \in 1 .. k : L[i] = R[g[i]]
  BY DEF Places
<1>3. PICK m \in [0 .. k -> Seq(K)] :
         /\ m[0] = P
         /\ \A n \in 1 .. k : m[n] = IF In(L[n], m[n - 1]) THEN m[n - 1] ELSE Append(m[n - 1], L[n])
         /\ Merge(P, L) = m[k]
  <2>1. PICK m \in Merging(K, P, L) : Merge(P, L) = m[k]
    BY MergeUnfolds, Zenon
  <2> QED
    BY <2>1, Zenon DEF Merging
<1> HIDE DEF k
<1> DEFINE Good(n, f) == /\ Places(f, m[n], R, r)
                         /\ p <= Len(m[n]) /\ \A i \in 1 .. p : m[n][i] = P[i]
                         /\ \A i \in 1 .. Len(m[n]) : f[i] <= p \/ (n > 0 /\ f[i] <= g[n])
           S == {n \in 0 .. k : \E f : Good(n, f)}
<1> HIDE DEF p, r
<1>4. 0 \in S
  <2> DEFINE f == [i \in 1 .. p |-> i]
  <2>1. Good(0, f)
    BY <1>1, <1>3 DEF Places, p
  <2> HIDE DEF Good
  <2> QED
    BY <1>1, <2>1
<1>5. ASSUME NEW n \in 0 .. k - 1, n \in S
      PROVE  n + 1 \in S
  <2>1. n + 1 \in 1 .. k /\ n + 1 \in 0 .. k /\ n \in 0 .. k /\ (n + 1) - 1 = n /\ n \in Nat
    BY <1>1
  <2> DEFINE e == L[n + 1]
             M == m[n]
             l == Len(M)
             h == g[n + 1]
  <2>2. M \in Seq(K) /\ e \in K /\ l \in Nat /\ h \in 1 .. N /\ e = R[h]
    BY <1>1, <1>2, <1>3, <2>1
  <2>3. m[n + 1] = IF In(e, M) THEN M ELSE Append(M, e)
    BY <1>3, <2>1
  <2>4. PICK f : Good(n, f)
    BY <1>5
  <2>5. /\ f \in [1 .. l -> 1 .. r] /\ \A i, j \in 1 .. l : i < j => f[i] < f[j]
        /\ \A i \in 1 .. l : M[i] = R[f[i]]
    BY <2>4 DEF Places
  <2>6. /\ p <= l /\ \A i \in 1 .. p : M[i] = P[i]
        /\ \A i \in 1 .. l : f[i] <= p \/ (n > 0 /\ f[i] <= g[n])
    BY <2>4
  <2>7. n > 0 => g[n] < h /\ g[n] \in 1 .. N
    <3> SUFFICES ASSUME n > 0
                 PROVE  g[n] < h /\ g[n] \in 1 .. N
      OBVIOUS
    <3>1. n \in 1 .. k /\ n < n + 1
      BY <2>1
    <3> QED
      BY <1>2, <2>1, <3>1
  <2>8. h \in 1 .. r
    BY <1>1, <2>2
  <2> HIDE DEF h, e, l
  <2>9. \A i \in 1 .. l : f[i] \in 1 .. r /\ (f[i] <= p \/ f[i] < h)
    <3> TAKE i \in 1 .. l
    <3>1. f[i] \in 1 .. r
      BY <2>5
    <3>2. f[i] <= p \/ (n > 0 /\ f[i] <= g[n])
      BY <2>6
    <3>3. CASE n > 0 /\ f[i] <= g[n]
      BY <1>1, <2>7, <2>8, <3>1, <3>3
    <3> QED
      BY <3>1, <3>2, <3>3
  <2>10. \A i \in 1 .. l : f[i] <= p \/ (n + 1 > 0 /\ f[i] <= h)
    BY <1>1, <2>1, <2>8, <2>9
  <2>11. CASE In(e, M)
    <3>1. m[n + 1] = M
      BY <2>3, <2>11
    <3>2. Good(n + 1, f)
      BY <2>4, <2>6, <2>10, <3>1 DEF h, l
    <3> HIDE DEF Good
    <3> QED
      BY <2>1, <3>2
  <2>12. CASE ~ In(e, M)
    <3>1. m[n + 1] = Append(M, e)
      BY <2>3, <2>12
    <3>2. p < h
      <4> SUFFICES ASSUME ~ (p < h)
                   PROVE  FALSE
        OBVIOUS
      <4>1. h \in 1 .. p /\ h \in 1 .. l
        BY <1>1, <2>2, <2>6, <2>8
      <4>2. M[h] = e
        BY <1>1, <2>2, <2>6, <4>1
      <4>3. DOMAIN M = 1 .. l
        BY <2>2 DEF l
      <4> QED
        BY <2>12, <4>1, <4>2, <4>3 DEF In
    <3> DEFINE F == [i \in 1 .. l + 1 |-> IF i = l + 1 THEN h ELSE f[i]]
    <3>3. \A i \in 1 .. l : f[i] < h
      BY <1>1, <2>8, <2>9, <3>2
    <3>4. /\ Len(Append(M, e)) = l + 1 /\ Append(M, e)[l + 1] = e
          /\ \A i \in 1 .. l : Append(M, e)[i] = M[i]
      BY <2>2 DEF l
    <3>5. \A i \in 1 .. l + 1 : i # l + 1 => i \in 1 .. l
      BY <2>2
    <3>6. l + 1 \in 1 .. l + 1 /\ 1 .. l \subseteq 1 .. l + 1 /\ \A i \in 1 .. l : i # l + 1
      BY <2>2
    <3>7. F[l + 1] = h /\ (\A i \in 1 .. l : F[i] = f[i]) /\ F \in [1 .. l + 1 -> 1 .. r]
      BY <2>5, <2>8, <3>5, <3>6
    <3> HIDE DEF F
    <3>8. \A i, j \in 1 .. l + 1 : i < j => F[i] < F[j]
      <4> TAKE i, j \in 1 .. l + 1
      <4>1. CASE i # l + 1 /\ j # l + 1
        BY <2>5, <3>5, <3>7, <4>1
      <4>2. CASE i # l + 1 /\ j = l + 1
        BY <3>3, <3>5, <3>7, <4>2
      <4>3. CASE i = l + 1
        BY <2>2, <4>3
      <4> QED
        BY <4>1, <4>2, <4>3
    <3>9. \A i \in 1 .. l + 1 : Append(M, e)[i] = R[F[i]]
      BY <2>2, <2>5, <3>4, <3>5, <3>7
    <3>10. Places(F, m[n + 1], R, r)
      BY <3>1, <3>4, <3>7, <3>8, <3>9 DEF Places
    <3>11. p <= l + 1 /\ \A i \in 1 .. p : m[n + 1][i] = P[i]
      <4>1. p <= l + 1 /\ 1 .. p \subseteq 1 .. l
        BY <1>1, <2>2, <2>6
      <4> QED
        BY <2>6, <3>1, <3>4, <4>1
    <3>12. \A i \in 1 .. l + 1 : F[i] <= p \/ (n + 1 > 0 /\ F[i] <= h)
      <4> TAKE i \in 1 .. l + 1
      <4>1. CASE i = l + 1
        BY <2>1, <2>8, <3>7, <4>1
      <4>2. CASE i # l + 1
        BY <2>10, <3>5, <3>7, <4>2
      <4> QED
        BY <4>1, <4>2
    <3>13. Good(n + 1, F)
      BY <3>1, <3>4, <3>10, <3>11, <3>12 DEF h
    <3> HIDE DEF Good
    <3> QED
      BY <2>1, <3>13
  <2> QED
    BY <2>11, <2>12
<1>6. k \in S
  <2>1. 0 .. k \subseteq S
    <3> HIDE DEF S
    <3> QED
      BY <1>1, <1>4, <1>5, IntervalInduction
  <2> HIDE DEF S
  <2> QED
    BY <1>1, <2>1
<1>7. PICK f : Good(k, f)
  <2> HIDE DEF Good
  <2> QED
    BY <1>6
<1> QED
  BY <1>3, <1>7 DEF r

\* What has places in a log, in order, is embedded in it: the matching of
\* Embedded is greedy, and never behind them.
LEMMA PlacesEmbed ==
    ASSUME NEW K, NEW s \in Seq(K), NEW t \in Seq(K), NEW f, Places(f, t, s, Len(s))
    PROVE  Progress!Embedded(t, s)
<1> DEFINE k == Len(s)
           l == Len(t)
           V == 0 .. l
           go(n, v) == IF v < Len(t) /\ t[v + 1] = s[n] THEN v + 1 ELSE v
           step == [n \in 1 .. k |-> [v \in V |-> go(n, v)]]
           Is(m) == m = [n \in 0 .. k |-> IF n = 0 THEN 0 ELSE go(n, m[n - 1])]
           m == CHOOSE h : Is(h)
<1>1. k \in Nat /\ l \in Nat /\ Len(t) = l
  OBVIOUS
<1>2. /\ f \in [1 .. l -> 1 .. k] /\ \A i, j \in 1 .. l : i < j => f[i] < f[j]
      /\ \A i \in 1 .. l : t[i] = s[f[i]]
  BY DEF Places
<1>3. Progress!Embedded(t, s) <=> m[k] = l
  BY DEF Progress!Embedded
<1> HIDE DEF k, l
<1>4. \A n \in 1 .. k : \A v \in V : go(n, v) \in V
  BY <1>1
<1>5. \A n \in 1 .. k : \A v \in V : step[n][v] = go(n, v)
  OBVIOUS
<1>6. \A n \in 1 .. k : \A v \in V : step[n][v] \in V
  <2> HIDE DEF V, go, step
  <2> QED
    BY <1>4, <1>5
<1>7. 0 \in V
  BY <1>1
<1> HIDE DEF V, step
<1>8. PICK g : g \in Unfolding(k, V, 0, step)
  <2>1. Unfolding(k, V, 0, step) # {}
    BY <1>1, <1>6, <1>7, UnfoldingExists, Zenon
  <2> QED
    BY <2>1
<1>9. Is(g)
  <2>1. /\ g \in [0 .. k -> V] /\ g[0] = 0
        /\ \A n \in 1 .. k : g[n] = step[n][g[n - 1]]
    BY <1>8 DEF Unfolding
  <2>2. \A n \in 1 .. k : g[n] = go(n, g[n - 1])
    <3> TAKE n \in 1 .. k
    <3>1. n - 1 \in 0 .. k /\ g[n - 1] \in V
      BY <1>1, <2>1
    <3> HIDE DEF go
    <3> QED
      BY <1>5, <2>1, <3>1
  <2>3. g = [n \in 0 .. k |-> g[n]] /\ \A n \in 0 .. k : n # 0 => n \in 1 .. k
    BY <1>1, <2>1
  <2>4. \A n \in 0 .. k : g[n] = IF n = 0 THEN 0 ELSE go(n, g[n - 1])
    <3> HIDE DEF go
    <3> QED
      BY <2>1, <2>2, <2>3
  <2> QED
    BY <2>3, <2>4, Zenon
<1>10. Is(m)
  <2> HIDE DEF Is
  <2> QED
    BY <1>9
<1> HIDE DEF m
<1>11. m[0] = 0 /\ \A n \in 1 .. k : m[n] = go(n, m[n - 1])
  <2>1. m = [n \in 0 .. k |-> IF n = 0 THEN 0 ELSE go(n, m[n - 1])]
    BY <1>10, Zenon
  <2> HIDE DEF go, Is
  <2>2. \A n \in 0 .. k : m[n] = IF n = 0 THEN 0 ELSE go(n, m[n - 1])
    BY <2>1, Zenon
  <2>3. 0 \in 0 .. k /\ \A n \in 1 .. k : n \in 0 .. k /\ n # 0
    BY <1>1
  <2>4. m[0] = 0
    BY <2>2, <2>3
  <2>5. \A n \in 1 .. k : m[n] = go(n, m[n - 1])
    BY <2>2, <2>3
  <2> QED
    BY <2>4, <2>5
<1> DEFINE Ahead(n) == m[n] \in 0 .. l /\ \A i \in 1 .. l : f[i] <= n => i <= m[n]
           S == {n \in 0 .. k : Ahead(n)}
<1>12. 0 \in S
  BY <1>1, <1>2, <1>11
<1>13. ASSUME NEW n \in 0 .. k - 1, n \in S
       PROVE  n + 1 \in S
  <2>1. n + 1 \in 1 .. k /\ n + 1 \in 0 .. k /\ (n + 1) - 1 = n /\ n \in Nat
    BY <1>1
  <2>2. m[n] \in 0 .. l /\ \A i \in 1 .. l : f[i] <= n => i <= m[n]
    BY <1>13
  <2>3. m[n + 1] = IF m[n] < l /\ t[m[n] + 1] = s[n + 1] THEN m[n] + 1 ELSE m[n]
    BY <1>1, <1>11, <2>1
  <2>4. m[n + 1] \in 0 .. l /\ m[n] <= m[n + 1]
    BY <1>1, <2>2, <2>3
  <2>5. ASSUME NEW i \in 1 .. l, f[i] <= n + 1
        PROVE  i <= m[n + 1]
    <3>1. CASE f[i] <= n
      BY <1>1, <2>2, <2>4, <3>1
    <3>2. CASE f[i] = n + 1
      <4>1. i - 1 <= m[n]
        <5>1. CASE i = 1
          BY <1>1, <2>2, <5>1
        <5>2. CASE i # 1
          <6>1. i - 1 \in 1 .. l /\ i - 1 < i
            BY <1>1, <5>2
          <6>2. f[i - 1] < f[i] /\ f[i - 1] \in 1 .. k
            BY <1>2, <6>1
          <6>3. f[i - 1] <= n
            BY <1>1, <2>1, <3>2, <6>2
          <6> QED
            BY <2>2, <6>1, <6>3
        <5> QED
          BY <5>1, <5>2
      <4>2. CASE i <= m[n]
        BY <1>1, <2>2, <2>4, <4>2
      <4>3. CASE ~ (i <= m[n])
        <5>1. m[n] = i - 1 /\ m[n] < l /\ m[n] + 1 = i
          BY <1>1, <2>2, <4>1, <4>3
        <5>2. t[m[n] + 1] = s[n + 1]
          BY <1>2, <3>2, <5>1
        <5> QED
          BY <1>1, <2>3, <5>1, <5>2
      <4> QED
        BY <4>2, <4>3
    <3>3. f[i] <= n \/ f[i] = n + 1
      <4>1. f[i] \in Nat
        BY <1>1, <1>2
      <4> QED
        BY <2>1, <2>5, <4>1
    <3> QED
      BY <3>1, <3>2, <3>3
  <2> QED
    BY <2>1, <2>4, <2>5
<1>14. 0 .. k \subseteq S
  <2> HIDE DEF S
  <2> QED
    BY <1>1, <1>12, <1>13, IntervalInduction
<1>15. Ahead(k)
  <2>1. k \in 0 .. k
    BY <1>1
  <2> HIDE DEF Ahead
  <2> QED
    BY <1>14, <2>1
<1>16. m[k] = l
  <2>1. CASE l = 0
    BY <1>1, <1>15, <2>1
  <2>2. CASE l # 0
    <3>1. l \in 1 .. l /\ f[l] <= k
      BY <1>1, <1>2, <2>2
    <3>2. l <= m[k] /\ m[k] \in 0 .. l
      BY <1>15, <3>1
    <3> QED
      BY <1>1, <3>2
  <2> QED
    BY <2>1, <2>2
<1> QED
  BY <1>3, <1>16

\* Places stay, in a log that grows, for a beginning of what had them.
LEMMA PlacesKeep ==
    ASSUME NEW K, NEW s \in Seq(K), NEW s2 \in Seq(K), NEW t \in Seq(K), NEW t2 \in Seq(K),
           NEW n \in Nat, NEW n2 \in Nat, n <= n2, n <= Len(s),
           Begins(s, s2), Begins(t2, t), NEW f, Places(f, t, s, n)
    PROVE  \E g : Places(g, t2, s2, n2)
<1> DEFINE g == [i \in 1 .. Len(t2) |-> f[i]]
<1>1. /\ 1 .. Len(t2) \subseteq 1 .. Len(t) /\ \A i \in 1 .. Len(t2) : t2[i] = t[i]
      /\ 1 .. n \subseteq 1 .. Len(s) /\ 1 .. n \subseteq 1 .. n2
      /\ \A i \in 1 .. Len(s) : s[i] = s2[i]
  BY DEF Begins
<1>2. /\ f \in [1 .. Len(t) -> 1 .. n] /\ \A i, j \in 1 .. Len(t) : i < j => f[i] < f[j]
      /\ \A i \in 1 .. Len(t) : t[i] = s[f[i]]
  BY DEF Places
<1>3. g \in [1 .. Len(t2) -> 1 .. n2] /\ \A i \in 1 .. Len(t2) : g[i] = f[i] /\ f[i] \in 1 .. n
  BY <1>1, <1>2
<1> HIDE DEF g
<1>4. \A i, j \in 1 .. Len(t2) : i < j => g[i] < g[j]
  BY <1>1, <1>2, <1>3
<1>5. \A i \in 1 .. Len(t2) : t2[i] = s2[g[i]]
  BY <1>1, <1>2, <1>3
<1>6. Places(g, t2, s2, n2)
  BY <1>3, <1>4, <1>5 DEF Places
<1> QED
  BY <1>6

\* The next element of the log has its place behind the others.
LEMMA PlacesLonger ==
    ASSUME NEW K, NEW s \in Seq(K), NEW t \in Seq(K), NEW n \in Nat, NEW k \in 1 .. Len(s), n < k,
           NEW f, Places(f, t, s, n)
    PROVE  \E g : Places(g, Append(t, s[k]), s, k)
<1> DEFINE l == Len(t)
           u == Append(t, s[k])
           g == [i \in 1 .. l + 1 |-> IF i = l + 1 THEN k ELSE f[i]]
<1>1. /\ l \in Nat /\ u \in Seq(K) /\ Len(u) = l + 1 /\ u[l + 1] = s[k]
      /\ \A i \in 1 .. l : u[i] = t[i]
  OBVIOUS
<1>2. /\ f \in [1 .. l -> 1 .. n] /\ \A i, j \in 1 .. l : i < j => f[i] < f[j]
      /\ \A i \in 1 .. l : t[i] = s[f[i]]
  BY DEF Places
<1> HIDE DEF l, u
<1>3. \A i \in 1 .. l : f[i] \in 1 .. k /\ f[i] < k
  BY <1>1, <1>2
<1>4. \A i \in 1 .. l + 1 : i # l + 1 => i \in 1 .. l
  BY <1>1
<1>5. l + 1 \in 1 .. l + 1 /\ 1 .. l \subseteq 1 .. l + 1 /\ (\A i \in 1 .. l : i # l + 1) /\ k \in 1 .. k
  BY <1>1
<1>6. g[l + 1] = k /\ (\A i \in 1 .. l : g[i] = f[i]) /\ g \in [1 .. l + 1 -> 1 .. k]
  BY <1>3, <1>4, <1>5
<1> HIDE DEF g
<1>7. \A i, j \in 1 .. l + 1 : i < j => g[i] < g[j]
  <2> TAKE i, j \in 1 .. l + 1
  <2>1. CASE i # l + 1 /\ j # l + 1
    BY <1>2, <1>4, <1>6, <2>1
  <2>2. CASE i # l + 1 /\ j = l + 1
    BY <1>3, <1>4, <1>6, <2>2
  <2>3. CASE i = l + 1
    BY <1>1, <2>3
  <2> QED
    BY <2>1, <2>2, <2>3
<1>8. \A i \in 1 .. l + 1 : u[i] = s[g[i]]
  BY <1>1, <1>2, <1>4, <1>6
<1>9. Places(g, u, s, k)
  BY <1>1, <1>6, <1>7, <1>8 DEF Places
<1> QED
  BY <1>9 DEF u

\* Beginnings of sequences.
LEMMA BeginsFacts ==
    ASSUME NEW K, NEW s \in Seq(K), NEW t \in Seq(K)
    PROVE  /\ Begins(s, s) /\ Begins(<< >>, s) /\ Begins(s, s \o t) /\ s \o t \in Seq(K)
           /\ s \o << >> = s
           /\ \A e \in K : Begins(s, Append(s, e)) /\ s \o Append(t, e) = Append(s \o t, e)
           /\ t # << >> => Append(s, Head(t)) \o Tail(t) = s \o t
           /\ Begins(s, t) => ToSet(s) \subseteq ToSet(t)
           /\ \A u \in Seq(K) : Begins(s, t) /\ Begins(t, u) => Begins(s, u)
<1>1. Begins(s, s) /\ Begins(<< >>, s) /\ Begins(s, s \o t) /\ s \o t \in Seq(K) /\ s \o << >> = s
  BY DEF Begins
<1>2. \A e \in K : Begins(s, Append(s, e)) /\ s \o Append(t, e) = Append(s \o t, e)
  BY DEF Begins
<1>3. t # << >> => Append(s, Head(t)) \o Tail(t) = s \o t
  OBVIOUS
<1>4. Begins(s, t) => ToSet(s) \subseteq ToSet(t)
  <2>1. DOMAIN s = 1 .. Len(s) /\ DOMAIN t = 1 .. Len(t)
    OBVIOUS
  <2> QED
    BY <2>1 DEF Begins, ToSet
<1>5. \A u \in Seq(K) : Begins(s, t) /\ Begins(t, u) => Begins(s, u)
  BY DEF Begins
<1> QED
  BY <1>1, <1>2, <1>3, <1>4, <1>5

-----------------------------------------------------------------------------
(* The timeline. *)

\* The job's log and its statuses are of their kinds, and what is about to be
\* published is the last of the log.
JobShape ==
    /\ state \in Stati \cup {"absent"}
    /\ recorded \in Seq(Kinds)
    /\ unpublished \in Kinds \cup {Silent}
    /\ unpublished # Silent => recorded # << >> /\ recorded[Len(recorded)] = unpublished

\* What the page shows as stored was in the log, and the answer on its way
\* has all of it.
Stored ==
    /\ Begins(view.events, recorded)
    /\ poll.at = "answer" => Begins(poll.events, recorded)
    /\ Begins(view.events, poll.events) \/ poll.at # "answer"

\* What the page has heard, or is about to hear over the socket it listens to.
Heard == live \o (IF current = 0 THEN << >> ELSE wire[current])

\* The events that have been published, or never will be.
Past == IF unpublished = Silent THEN Len(recorded) ELSE Len(recorded) - 1

\* What is heard has its places in the log, among what is past; and nothing is
\* on the wire of a socket that was never opened.
HeardInOrder ==
    /\ \E f : Places(f, Heard, recorded, Past)
    /\ \A s \in Sockets : handler[s] = "unused" => wire[s] = << >>

\* The memo is up to date.
Merged == timeline = Merge(view.events, live)

\* What is known of the page: its timeline is the merge of two parts of the
\* log, each in order.
PageInv == FeedTypeOK /\ JobShape /\ Stored /\ HeardInOrder /\ Merged

\* The sequences of the page, and how many events are past.
LEMMA PageNumbers ==
    ASSUME PageInv
    PROVE  /\ recorded \in Seq(Kinds) /\ live \in Seq(Kinds) /\ Heard \in Seq(Kinds)
           /\ view.events \in Seq(Kinds) /\ poll.events \in Seq(Kinds)
           /\ (\A s \in Sockets : wire[s] \in Seq(Kinds)) /\ << >> \in Seq(Kinds)
           /\ Len(recorded) \in Nat /\ Past \in Nat /\ Past <= Len(recorded)
           /\ Begins(live, Heard)
           /\ current # 0 => current \in Sockets
<1>1. /\ recorded \in Seq(Kinds) /\ live \in Seq(Kinds) /\ Len(recorded) \in Nat
      /\ view.events \in Seq(Kinds) /\ poll.events \in Seq(Kinds)
      /\ (\A s \in Sockets : wire[s] \in Seq(Kinds)) /\ << >> \in Seq(Kinds)
      /\ current \in 0 .. MaxSockets
  BY DEF PageInv, JobShape, FeedTypeOK
<1>2. current # 0 => current \in Sockets
  BY <1>1 DEF Sockets
<1>3. Past \in Nat /\ Past <= Len(recorded)
  <2>1. unpublished # Silent => Len(recorded) # 0
    BY <1>1 DEF PageInv, JobShape
  <2> QED
    BY <1>1, <2>1 DEF Past
<1>4. (IF current = 0 THEN << >> ELSE wire[current]) \in Seq(Kinds)
  BY <1>1, <1>2
<1>5. Heard \in Seq(Kinds) /\ Begins(live, Heard)
  BY <1>1, <1>4, BeginsFacts DEF Heard
<1> QED
  BY <1>1, <1>2, <1>3, <1>5

\* The timeline is the log with gaps.
LEMMA TimelineEmbedded ==
    ASSUME NEW R \in Seq(Kinds), NEW V \in Seq(Kinds), NEW L \in Seq(Kinds),
           Begins(V, R), NEW n \in Nat, n <= Len(R), NEW f, Places(f, L, R, n)
    PROVE  Progress!Embedded(Merge(V, L), R)
<1>1. PICK g : Places(g, Merge(V, L), R, Len(R))
  BY MergePlaces
<1>2. Merge(V, L) \in Seq(Kinds)
  BY MergeAdds
<1> QED
  BY <1>1, <1>2, PlacesEmbed

\* What the job does to the page: it adds to the log, or to the wires.
LEMMA WorkFrame ==
    ASSUME Working \/ SaveResult
    PROVE  /\ UNCHANGED page /\ UNCHANGED handler
           /\ \/ UNCHANGED <<recorded, unpublished, wire>>
              \/ \E e \in Kinds : /\ recorded' = Append(recorded, e) /\ unpublished' = e
                                  /\ unpublished = Silent /\ UNCHANGED wire
              \/ /\ unpublished # Silent /\ unpublished' = Silent /\ UNCHANGED recorded
                 /\ wire' = Reach(unpublished) \/ UNCHANGED wire
BY DEF Working, SaveResult, WritesStatus, Records, Publishes, Abandons, SetStatus, Record, Publish,
       jobVars, feed, crawled

\* What the socket does.
LEMMA SocketCases ==
    ASSUME NEW s \in Sockets,
           OpenSocket(s) \/ Refuse(s) \/ Accept(s) \/ Subscribe(s) \/ Forward(s) \/ Drop(s)
    PROVE  /\ UNCHANGED <<jobVars, view, poll, results, crawled>>
           /\ \/ /\ handler[s] = "unused" /\ ~ Settled(view) /\ UNCHANGED <<live, timeline, wire>>
                 /\ current' = s /\ handler' = [handler EXCEPT ![s] = "connecting"]
              \/ /\ handler[s] # "unused" /\ UNCHANGED <<live, timeline, wire, current>>
                 /\ \E h \in Stages \ {"unused"} : handler' = [handler EXCEPT ![s] = h]
              \/ /\ wire[s] # << >> /\ s = current
                 /\ live' = Append(live, Head(wire[s])) /\ timeline' = Merge(view.events, live')
                 /\ wire' = [wire EXCEPT ![s] = Tail(@)] /\ UNCHANGED <<current, handler>>
              \/ /\ handler[s] = "subscribed" /\ handler' = [handler EXCEPT ![s] = "closed"]
                 /\ wire' = [wire EXCEPT ![s] = << >>] /\ UNCHANGED <<live, timeline, current>>
<1>1. CASE OpenSocket(s)
  BY <1>1 DEF OpenSocket, Upcoming
<1>2. CASE Refuse(s) \/ Accept(s) \/ Subscribe(s)
  <2>1. handler[s] \in {"connecting", "accepted"} /\ UNCHANGED <<jobVars, page, wire, crawled>>
        /\ \E h \in {"closed", "accepted", "subscribed"} : handler' = [handler EXCEPT ![s] = h]
    BY <1>2 DEF Refuse, Accept, Subscribe
  <2>2. handler[s] # "unused" /\ \E h \in Stages \ {"unused"} : handler' = [handler EXCEPT ![s] = h]
    BY <2>1 DEF Stages
  <2> QED
    BY <2>1, <2>2 DEF page
<1>3. CASE Forward(s)
  BY <1>3 DEF Forward
<1>4. CASE Drop(s)
  BY <1>4 DEF Drop, page
<1> QED
  BY <1>1, <1>2, <1>3, <1>4

\* The log and its last event.
LEMMA JobShapeStep ==
    ASSUME JobShape, [FeedNext]_feedVars
    PROVE  JobShape' /\ Begins(recorded, recorded') /\ Past <= Past' /\ Past' <= Len(recorded')
           /\ Past' \in Nat
<1> USE DEF JobShape
<1>0. recorded \in Seq(Kinds) /\ Len(recorded) \in Nat /\ Begins(recorded, recorded)
      /\ (unpublished # Silent => Len(recorded) # 0)
  BY DEF Begins
<1>1. CASE UNCHANGED jobVars
  BY <1>0, <1>1 DEF jobVars, Past
<1>2. CASE Working
  <2>1. state' \in Stati \cup {"absent"}
    BY <1>2 DEF Working, WritesStatus, Records, Publishes, Abandons, SetStatus, Record, Publish
  <2>2. CASE UNCHANGED <<recorded, unpublished>>
    BY <1>0, <2>1, <2>2 DEF Past
  <2>3. CASE \E e \in Kinds : /\ recorded' = Append(recorded, e) /\ unpublished' = e
                              /\ unpublished = Silent
    <3>1. PICK e \in Kinds : /\ recorded' = Append(recorded, e) /\ unpublished' = e
                             /\ unpublished = Silent
      BY <2>3
    <3>2. /\ recorded' \in Seq(Kinds) /\ Len(recorded') = Len(recorded) + 1
          /\ recorded'[Len(recorded) + 1] = e /\ recorded' # << >>
          /\ Begins(recorded, recorded')
      <4>1. /\ Append(recorded, e) \in Seq(Kinds) /\ Len(Append(recorded, e)) = Len(recorded) + 1
            /\ Append(recorded, e)[Len(recorded) + 1] = e
            /\ \A i \in 1 .. Len(recorded) : Append(recorded, e)[i] = recorded[i]
        BY <1>0
      <4>2. Append(recorded, e) # << >>
        BY <1>0, <4>1
      <4> QED
        BY <1>0, <3>1, <4>1, <4>2 DEF Begins
    <3>3. Past = Len(recorded) /\ Past' \in {Len(recorded) + 1, Len(recorded)}
      BY <1>0, <3>1, <3>2 DEF Past
    <3> QED
      BY <1>0, <2>1, <3>1, <3>2, <3>3
  <2>4. CASE unpublished # Silent /\ unpublished' = Silent /\ UNCHANGED recorded
    BY <1>0, <2>1, <2>4 DEF Past
  <2> QED
    BY <1>2, <2>2, <2>3, <2>4, WorkFrame
<1>3. CASE PollRow \/ PollEvents \/ PollAnswered \/ PollFails \/ ReadResults \/ SaveResult \/ UNCHANGED feedVars
  <2>1. UNCHANGED jobVars
    BY <1>3 DEF PollRow, PollEvents, PollAnswered, PollFails, ReadResults, SaveResult, feedVars
  <2> QED
    BY <1>1, <2>1
<1>4. ASSUME NEW s \in Sockets,
             OpenSocket(s) \/ Refuse(s) \/ Accept(s) \/ Subscribe(s) \/ Forward(s) \/ Drop(s)
      PROVE  UNCHANGED jobVars
  BY <1>4, SocketCases
<1> QED
  BY <1>1, <1>2, <1>3, <1>4 DEF FeedNext, Working

\* The queries of the page keep its shape.
LEMMA PollTyped ==
    ASSUME FeedTypeOK, JobShape, PollRow \/ PollEvents \/ PollAnswered \/ PollFails
    PROVE  FeedTypeOK'
<1> DEFINE Polls == [at : {"idle", "row", "answer"}, status : Stati \cup {"loading"}, events : Seq(Kinds)]
<1>0. poll \in Polls /\ NoPoll \in Polls /\ << >> \in Seq(Kinds)
  BY DEF FeedTypeOK, NoPoll
<1>5. live \in Seq(Kinds)
  BY DEF FeedTypeOK
<1>6. current \in 0 .. MaxSockets /\ (current # 0 => handler[current] # "unused")
  BY DEF FeedTypeOK
<1> HIDE DEF Polls
<1>1. CASE PollRow
  <2>1. state \in Stati
    BY <1>1 DEF PollRow, JobShape
  <2>2. poll' \in Polls
    BY <1>0, <1>1, <2>1 DEF PollRow, Polls
  <2> QED
    BY <1>1, <2>2 DEF Polls, PollRow, FeedTypeOK, feed, crawled, Settled
<1>2. CASE PollEvents
  <2>1. recorded \in Seq(Kinds)
    BY DEF JobShape
  <2>2. poll' \in Polls
    BY <1>0, <1>2, <2>1 DEF PollEvents, Polls
  <2> QED
    BY <1>2, <2>2 DEF Polls, PollEvents, FeedTypeOK, feed, crawled, Settled
<1>3. CASE PollAnswered
  <2>1. /\ view' = [status |-> poll.status, events |-> poll.events]
        /\ timeline' = Merge(poll.events, live) /\ poll' = NoPoll
        /\ current' = IF Settled(poll) THEN 0 ELSE current
        /\ UNCHANGED <<live, results, handler, wire, saved, reopened>>
    BY <1>3 DEF PollAnswered, feed, crawled
  <2>2. view' \in [status : Stati \cup {"loading"}, events : Seq(Kinds)] /\ view'.status = poll.status
    BY <1>0, <2>1 DEF Polls
  <2>3. timeline' \in Seq(Kinds)
    <3>1. poll.events \in Seq(Kinds)
      BY <1>0 DEF Polls
    <3>2. Merge(poll.events, live) \in Seq(Kinds)
      BY <1>5, <3>1, MergeAdds
    <3> QED
      BY <2>1, <3>2
  <2>4. current' \in 0 .. MaxSockets /\ (current' # 0 => handler'[current'] # "unused" /\ ~ Settled(view'))
    <3>1. CASE Settled(poll)
      <4>1. current' = 0
        BY <2>1, <3>1
      <4> QED
        BY <4>1
    <3>2. CASE ~ Settled(poll)
      <4>1. current' = current /\ handler' = handler
        BY <2>1, <3>2
      <4>2. ~ Settled(view')
        BY <2>2, <3>2 DEF Settled
      <4> QED
        BY <1>6, <4>1, <4>2
    <3> QED
      BY <3>1, <3>2
  <2> QED
    BY <1>0, <1>5, <1>6, <2>1, <2>2, <2>3, <2>4 DEF FeedTypeOK, Settled, Polls
<1>4. CASE PollFails
  BY <1>0, <1>4 DEF Polls, PollFails, FeedTypeOK, feed, crawled, Settled
<1> QED
  BY <1>1, <1>2, <1>3, <1>4

\* And so do its sockets.
LEMMA SocketTyped ==
    ASSUME FeedTypeOK, JobShape, NEW s \in Sockets,
           OpenSocket(s) \/ Refuse(s) \/ Accept(s) \/ Subscribe(s) \/ Forward(s) \/ Drop(s)
    PROVE  FeedTypeOK'
<1>0. /\ view.events \in Seq(Kinds) /\ live \in Seq(Kinds) /\ wire \in [Sockets -> Seq(Kinds)]
      /\ handler \in [Sockets -> Stages] /\ s \in 1 .. MaxSockets /\ << >> \in Seq(Kinds)
      /\ current \in 0 .. MaxSockets /\ (current # 0 => handler[current] # "unused" /\ ~ Settled(view))
  BY DEF FeedTypeOK, Sockets
<1>1. UNCHANGED <<view, poll, results, saved, reopened>>
  BY SocketCases DEF crawled
<1>2. live' \in Seq(Kinds) /\ timeline' \in Seq(Kinds) /\ wire' \in [Sockets -> Seq(Kinds)]
  <2>1. CASE UNCHANGED <<live, timeline, wire>>
    BY <2>1 DEF FeedTypeOK
  <2>2. CASE /\ wire[s] # << >> /\ live' = Append(live, Head(wire[s])) /\ timeline' = Merge(view.events, live')
             /\ wire' = [wire EXCEPT ![s] = Tail(@)]
    <3>1. wire[s] \in Seq(Kinds) /\ Head(wire[s]) \in Kinds /\ Tail(wire[s]) \in Seq(Kinds)
      BY <1>0, <2>2
    <3>2. live' \in Seq(Kinds)
      BY <1>0, <2>2, <3>1
    <3>3. timeline' \in Seq(Kinds)
      BY <1>0, <2>2, <3>2, MergeAdds
    <3> QED
      BY <1>0, <2>2, <3>1, <3>2, <3>3
  <2>3. CASE wire' = [wire EXCEPT ![s] = << >>] /\ UNCHANGED <<live, timeline>>
    BY <1>0, <2>3 DEF FeedTypeOK
  <2> QED
    BY <2>1, <2>2, <2>3, SocketCases
<1>3. /\ handler' \in [Sockets -> Stages]
      /\ current' \in 0 .. MaxSockets /\ (current' # 0 => handler'[current'] # "unused" /\ ~ Settled(view))
  <2>1. CASE /\ ~ Settled(view) /\ current' = s /\ handler' = [handler EXCEPT ![s] = "connecting"]
    BY <1>0, <2>1 DEF Stages, Sockets
  <2>2. CASE \E h \in Stages \ {"unused"} : handler' = [handler EXCEPT ![s] = h] /\ UNCHANGED current
    BY <1>0, <2>2 DEF Stages, Sockets
  <2>3. CASE UNCHANGED <<current, handler>>
    BY <1>0, <2>3
  <2>4. CASE UNCHANGED current /\ handler' = [handler EXCEPT ![s] = "closed"]
    BY <1>0, <2>4 DEF Stages, Sockets
  <2> QED
    BY <2>1, <2>2, <2>3, <2>4, SocketCases
<1> QED
  BY <1>1, <1>2, <1>3 DEF FeedTypeOK, Settled

\* Every variable of the page keeps its shape.
LEMMA TypedStep ==
    ASSUME FeedTypeOK, JobShape, [FeedNext]_feedVars
    PROVE  FeedTypeOK'
<1>1. CASE UNCHANGED feedVars
  BY <1>1 DEF feedVars, page, feed, crawled, FeedTypeOK, Settled
<1>2. CASE Working \/ SaveResult
  <2>1. UNCHANGED <<view, poll, live, timeline, current, results, handler>>
    BY <1>2, WorkFrame DEF page
  <2>2. saved' \in 0 .. MaxResults /\ reopened' \in BOOLEAN
    <3>1. saved' = saved \/ (saved < MaxResults /\ saved' = saved + 1)
      BY <1>2 DEF Working, SaveResult, WritesStatus, Records, Publishes, Abandons, crawled
    <3>2. reopened' = reopened \/ \E s \in Stati : reopened' = (reopened \/ (state \in Terminal /\ s \notin Terminal))
      BY <1>2 DEF Working, SaveResult, WritesStatus, Records, Publishes, Abandons, crawled
    <3>3. saved' \in 0 .. MaxResults
      BY <3>1 DEF FeedTypeOK
    <3>4. reopened' \in BOOLEAN
      BY <3>2 DEF FeedTypeOK
    <3> QED
      BY <3>3, <3>4
  <2>3. wire' \in [Sockets -> Seq(Kinds)]
    <3>1. CASE wire' = wire
      BY <3>1 DEF FeedTypeOK
    <3>2. CASE unpublished # Silent /\ wire' = Reach(unpublished)
      <4>1. unpublished \in Kinds
        BY <3>2 DEF JobShape
      <4>2. \A s \in Sockets : wire[s] \in Seq(Kinds) /\ Append(wire[s], unpublished) \in Seq(Kinds)
        BY <4>1 DEF FeedTypeOK
      <4> QED
        BY <3>2, <4>2 DEF Reach
    <3> QED
      BY <1>2, <3>1, <3>2, WorkFrame
  <2> QED
    BY <2>1, <2>2, <2>3 DEF FeedTypeOK, Settled
<1>3. CASE PollRow \/ PollEvents \/ PollAnswered \/ PollFails
  BY <1>3, PollTyped
<1>4. CASE ReadResults
  <2>1. results' \in 0 .. Unread
    BY <1>4 DEF ReadResults, FeedTypeOK, Unread
  <2> QED
    BY <1>4, <2>1 DEF ReadResults, FeedTypeOK, feed, crawled, Settled
<1>5. CASE \E s \in Sockets : OpenSocket(s) \/ Refuse(s) \/ Accept(s) \/ Subscribe(s) \/ Forward(s) \/ Drop(s)
  BY <1>5, SocketTyped
<1> QED
  BY <1>1, <1>2, <1>3, <1>4, <1>5 DEF FeedNext, Working

\* Which step changes what the page takes for stored: an answer that comes
\* replaces the last, and has all of it.
LEMMA StoredStep ==
    ASSUME PageInv, [FeedNext]_feedVars, Begins(recorded, recorded'), recorded' \in Seq(Kinds)
    PROVE  Stored' /\ Begins(view.events, view'.events)
<1>1. /\ recorded \in Seq(Kinds) /\ view.events \in Seq(Kinds) /\ poll.events \in Seq(Kinds)
      /\ poll \in [at : {"idle", "row", "answer"}, status : Stati \cup {"loading"}, events : Seq(Kinds)]
  BY PageNumbers DEF PageInv, FeedTypeOK
<1>2. /\ Begins(view.events, recorded)
      /\ poll.at = "answer" => Begins(poll.events, recorded) /\ Begins(view.events, poll.events)
  BY DEF PageInv, Stored
<1>3. /\ \A s \in Seq(Kinds) : Begins(s, recorded) => Begins(s, recorded')
      /\ Begins(view.events, view.events)
  BY <1>1, BeginsFacts
<1>4. CASE UNCHANGED <<view, poll>>
  BY <1>1, <1>2, <1>3, <1>4 DEF Stored
<1>5. CASE PollRow \/ PollFails
  <2>1. view' = view /\ poll'.at \in {"row", "idle"}
    <3>1. CASE PollRow
      BY <3>1 DEF PollRow, NoPoll
    <3>2. CASE PollFails
      BY <3>2 DEF PollFails, NoPoll
    <3> QED
      BY <1>5, <3>1, <3>2
  <2> QED
    BY <1>1, <1>2, <1>3, <2>1 DEF Stored
<1>6. CASE PollEvents
  <2>1. view' = view /\ poll'.events = recorded /\ recorded' = recorded
    BY <1>1, <1>6 DEF PollEvents, jobVars
  <2> QED
    BY <1>1, <1>2, <1>3, <2>1, BeginsFacts DEF Stored
<1>7. CASE PollAnswered
  <2>1. view'.events = poll.events /\ poll'.at = "idle" /\ recorded' = recorded /\ poll.at = "answer"
    BY <1>7 DEF PollAnswered, NoPoll, jobVars
  <2> QED
    BY <1>1, <1>2, <2>1 DEF Stored
<1>8. CASE UNCHANGED feedVars \/ Working \/ SaveResult \/ ReadResults
  <2>1. UNCHANGED <<view, poll>>
    BY <1>8, WorkFrame DEF feedVars, page, ReadResults
  <2> QED
    BY <1>4, <2>1
<1>9. CASE \E s \in Sockets : OpenSocket(s) \/ Refuse(s) \/ Accept(s) \/ Subscribe(s) \/ Forward(s) \/ Drop(s)
  <2>1. UNCHANGED <<view, poll>>
    BY <1>9, SocketCases
  <2> QED
    BY <1>4, <2>1
<1> QED
  BY <1>5, <1>6, <1>7, <1>8, <1>9 DEF FeedNext, Working

\* What has been heard is a beginning of what was heard before, unless an
\* event is published to the socket of the page.
LEMMA HeardMoves ==
    ASSUME PageInv, [FeedNext]_feedVars
    PROVE  \/ Begins(Heard', Heard) /\ Heard' \in Seq(Kinds)
           \/ /\ unpublished # Silent /\ unpublished' = Silent /\ UNCHANGED recorded
              /\ Heard' = Append(Heard, unpublished)
<1>1. /\ live \in Seq(Kinds) /\ Heard \in Seq(Kinds) /\ << >> \in Seq(Kinds)
      /\ (\A s \in Sockets : wire[s] \in Seq(Kinds))
      /\ wire \in [Sockets -> Seq(Kinds)] /\ handler \in [Sockets -> Stages]
      /\ (current # 0 => current \in Sockets) /\ 0 \notin Sockets
  BY PageNumbers DEF PageInv, FeedTypeOK, Sockets
<1>2. /\ Begins(Heard, Heard) /\ Begins(live, Heard) /\ live \o << >> = live
  BY <1>1, PageNumbers, BeginsFacts
<1>3. CASE UNCHANGED <<live, current, wire>>
  BY <1>1, <1>2, <1>3 DEF Heard
<1>4. CASE live' = live /\ Heard' = live \o << >>
  BY <1>1, <1>2, <1>4
<1>5. CASE PollRow \/ PollEvents \/ PollFails \/ ReadResults \/ UNCHANGED feedVars \/ SaveResult
  BY <1>3, <1>5 DEF PollRow, PollEvents, PollFails, ReadResults, SaveResult, feedVars, page, feed
<1>6. CASE PollAnswered
  <2>1. UNCHANGED <<live, wire>> /\ current' \in {0, current}
    BY <1>6 DEF PollAnswered, feed
  <2>2. CASE current' = 0
    <3>1. Heard' = live \o << >>
      BY <2>1, <2>2 DEF Heard
    <3> QED
      BY <1>4, <2>1, <3>1
  <2> QED
    BY <1>3, <2>1, <2>2
<1>7. CASE Working
  <2>1. UNCHANGED <<live, current>>
    BY <1>7, WorkFrame DEF page
  <2>2. CASE /\ unpublished # Silent /\ unpublished' = Silent /\ UNCHANGED recorded
             /\ wire' = Reach(unpublished)
    <3>1. CASE current = 0
      BY <1>1, <1>2, <2>1, <3>1 DEF Heard
    <3>2. CASE current # 0 /\ wire'[current] = wire[current]
      BY <1>1, <1>2, <2>1, <3>2 DEF Heard
    <3>3. CASE current # 0 /\ wire'[current] = Append(wire[current], unpublished)
      <4>1. unpublished \in Kinds /\ wire[current] \in Seq(Kinds)
        BY <1>1, <2>2, <3>3 DEF PageInv, JobShape
      <4>2. live \o Append(wire[current], unpublished) = Append(live \o wire[current], unpublished)
        BY <1>1, <4>1, BeginsFacts
      <4>3. Heard = live \o wire[current] /\ Heard' = live \o wire'[current]
        BY <2>1, <3>3 DEF Heard
      <4> QED
        BY <2>2, <3>3, <4>2, <4>3
    <3>4. current # 0 => wire'[current] \in {wire[current], Append(wire[current], unpublished)}
      BY <1>1, <2>2 DEF Reach
    <3> QED
      BY <3>1, <3>2, <3>3, <3>4
  <2> QED
    BY <1>3, <1>7, <2>1, <2>2, WorkFrame
<1>8. ASSUME NEW s \in Sockets,
             OpenSocket(s) \/ Refuse(s) \/ Accept(s) \/ Subscribe(s) \/ Forward(s) \/ Drop(s)
      PROVE  Begins(Heard', Heard) /\ Heard' \in Seq(Kinds)
  <2>1. CASE handler[s] = "unused" /\ UNCHANGED <<live, wire>> /\ current' = s
    <3>1. wire[s] = << >> /\ s # 0
      BY <1>1, <2>1 DEF PageInv, HeardInOrder
    <3>2. Heard' = live \o << >>
      BY <2>1, <3>1 DEF Heard
    <3> QED
      BY <1>1, <1>2, <3>2
  <2>2. CASE /\ wire[s] # << >> /\ s = current /\ live' = Append(live, Head(wire[s]))
             /\ wire' = [wire EXCEPT ![s] = Tail(@)] /\ UNCHANGED current
    <3>1. wire[s] \in Seq(Kinds) /\ wire'[s] = Tail(wire[s]) /\ current # 0
      BY <1>1, <2>2
    <3>2. Append(live, Head(wire[s])) \o Tail(wire[s]) = live \o wire[s]
      BY <1>1, <2>2, <3>1, BeginsFacts
    <3>3. Heard' = live' \o wire'[s] /\ Heard = live \o wire[s]
      BY <2>2, <3>1 DEF Heard
    <3> QED
      BY <1>1, <1>2, <2>2, <3>1, <3>2, <3>3
  <2>3. CASE wire' = [wire EXCEPT ![s] = << >>] /\ UNCHANGED <<live, current>>
    <3>1. CASE current = s
      <4>1. wire'[s] = << >> /\ current # 0
        BY <1>1, <2>3, <3>1
      <4>2. Heard' = live \o << >>
        BY <2>3, <3>1, <4>1 DEF Heard
      <4> QED
        BY <1>1, <1>2, <4>2
    <3>2. CASE current # s
      <4>1. current # 0 => wire'[current] = wire[current]
        BY <1>1, <2>3, <3>2
      <4>2. Heard' = Heard
        BY <2>3, <4>1 DEF Heard
      <4> QED
        BY <1>1, <1>2, <4>2
    <3> QED
      BY <3>1, <3>2
  <2>4. CASE UNCHANGED <<live, wire, current>>
    BY <1>1, <1>2, <2>4 DEF Heard
  <2> QED
    BY <1>8, <2>1, <2>2, <2>3, <2>4, SocketCases
<1> QED
  BY <1>5, <1>6, <1>7, <1>8 DEF FeedNext, Working

\* What has been heard has places in the log, in order.
LEMMA HeardStep ==
    ASSUME PageInv, JobShape', Begins(recorded, recorded'), Past <= Past', Past' \in Nat,
           [FeedNext]_feedVars
    PROVE  HeardInOrder'
<1>1. /\ recorded \in Seq(Kinds) /\ recorded' \in Seq(Kinds) /\ Heard \in Seq(Kinds)
      /\ Past \in Nat /\ Past <= Len(recorded) /\ Len(recorded) \in Nat
  BY PageNumbers DEF JobShape
<1>2. PICK f : Places(f, Heard, recorded, Past)
  BY DEF PageInv, HeardInOrder
<1>3. \E g : Places(g, Heard', recorded', Past')
  <2>1. CASE Begins(Heard', Heard) /\ Heard' \in Seq(Kinds)
    BY <1>1, <1>2, <2>1, PlacesKeep
  <2>2. CASE /\ unpublished # Silent /\ unpublished' = Silent /\ UNCHANGED recorded
             /\ Heard' = Append(Heard, unpublished)
    <3>1. /\ recorded[Len(recorded)] = unpublished /\ recorded # << >>
      BY <2>2 DEF PageInv, JobShape
    <3>2. Past < Len(recorded) /\ Past' = Len(recorded) /\ Len(recorded) \in 1 .. Len(recorded)
      <4>1. Len(recorded) # 0
        BY <1>1, <3>1
      <4> QED
        BY <1>1, <2>2, <4>1 DEF Past
    <3>3. \E g : Places(g, Append(Heard, recorded[Len(recorded)]), recorded, Len(recorded))
      BY <1>1, <1>2, <3>2, PlacesLonger
    <3> QED
      BY <2>2, <3>1, <3>2, <3>3
  <2> QED
    BY <2>1, <2>2, HeardMoves
<1>4. \A s \in Sockets : handler'[s] = "unused" => wire'[s] = << >>
  <2>1. /\ wire \in [Sockets -> Seq(Kinds)] /\ handler \in [Sockets -> Stages]
        /\ \A s \in Sockets : handler[s] = "unused" => wire[s] = << >>
    BY DEF PageInv, FeedTypeOK, HeardInOrder
  <2>2. CASE UNCHANGED <<handler, wire>>
    BY <2>1, <2>2
  <2>3. CASE Working \/ SaveResult
    <3>1. UNCHANGED handler /\ (UNCHANGED wire \/ wire' = Reach(unpublished))
      BY <2>3, WorkFrame
    <3> QED
      BY <2>1, <3>1 DEF Reach
  <2>4. ASSUME NEW t \in Sockets,
               OpenSocket(t) \/ Refuse(t) \/ Accept(t) \/ Subscribe(t) \/ Forward(t) \/ Drop(t)
        PROVE  \A s \in Sockets : handler'[s] = "unused" => wire'[s] = << >>
    <3>1. CASE UNCHANGED wire /\ \E h : handler' = [handler EXCEPT ![t] = h] /\ h # "unused"
      BY <2>1, <3>1
    <3>2. CASE wire[t] # << >> /\ wire' = [wire EXCEPT ![t] = Tail(@)] /\ UNCHANGED handler
      BY <2>1, <3>2
    <3>3. CASE handler' = [handler EXCEPT ![t] = "closed"] /\ wire' = [wire EXCEPT ![t] = << >>]
      BY <2>1, <3>3
    <3> QED
      BY <2>4, <3>1, <3>2, <3>3, SocketCases
  <2>5. CASE UNCHANGED feedVars \/ PollRow \/ PollEvents \/ PollAnswered \/ PollFails \/ ReadResults
    BY <2>2, <2>5 DEF feedVars, feed, PollRow, PollEvents, PollAnswered, PollFails, ReadResults
  <2> QED
    BY <2>3, <2>4, <2>5 DEF FeedNext, Working
<1> QED
  BY <1>3, <1>4 DEF HeardInOrder

\* What a step shows is recomputed from what the page has, and loses nothing.
LEMMA TimelineMoves ==
    ASSUME PageInv, FeedTypeOK', [FeedNext]_feedVars, Begins(view.events, view'.events)
    PROVE  /\ Merged'
           /\ UNCHANGED timeline \/ (UNCHANGED recorded /\ ToSet(timeline) \subseteq ToSet(timeline'))
<1>1. /\ view.events \in Seq(Kinds) /\ view'.events \in Seq(Kinds)
      /\ live \in Seq(Kinds) /\ live' \in Seq(Kinds)
  BY PageNumbers DEF FeedTypeOK
<1>2. timeline = Merge(view.events, live)
  BY DEF PageInv, Merged
<1>3. CASE UNCHANGED <<view, live, timeline>>
  BY <1>2, <1>3 DEF Merged
<1>4. CASE /\ timeline' = Merge(view'.events, live') /\ UNCHANGED recorded
           /\ live' = live \/ \E e \in Kinds : live' = Append(live, e)
  <2>1. Merged'
    BY <1>4 DEF Merged
  <2>2. ToSet(view.events) \subseteq ToSet(view'.events)
    BY <1>1, BeginsFacts
  <2>3. ToSet(live) \subseteq ToSet(live')
    <3>1. CASE live' = live
      BY <3>1
    <3>2. ASSUME NEW e \in Kinds, live' = Append(live, e)
          PROVE  ToSet(live) \subseteq ToSet(live')
      <4>1. ToSet(Append(live, e)) = ToSet(live) \cup {e}
        BY <1>1, InAppend
      <4> QED
        BY <3>2, <4>1
    <3> QED
      BY <1>4, <3>1, <3>2
  <2>4. ToSet(timeline) = ToSet(view.events) \cup ToSet(live)
    BY <1>1, <1>2, MergeAdds
  <2>5. ToSet(Merge(view'.events, live')) = ToSet(view'.events) \cup ToSet(live')
    BY <1>1, MergeAdds
  <2> QED
    BY <1>4, <2>1, <2>2, <2>3, <2>4, <2>5
<1>5. CASE PollAnswered
  <2>1. /\ view'.events = poll.events /\ timeline' = Merge(poll.events, live)
        /\ UNCHANGED <<recorded, live>>
    BY <1>5 DEF PollAnswered, jobVars
  <2> QED
    BY <1>4, <2>1
<1>6. CASE PollRow \/ PollEvents \/ PollFails \/ ReadResults \/ UNCHANGED feedVars \/ Working \/ SaveResult
  <2>1. UNCHANGED <<view, live, timeline>>
    <3>1. Working \/ SaveResult => UNCHANGED <<view, live, timeline>>
      BY WorkFrame DEF page
    <3> QED
      BY <1>6, <3>1 DEF PollRow, PollEvents, PollFails, ReadResults, feedVars, page
  <2> QED
    BY <1>3, <2>1
<1>7. ASSUME NEW s \in Sockets,
             OpenSocket(s) \/ Refuse(s) \/ Accept(s) \/ Subscribe(s) \/ Forward(s) \/ Drop(s)
      PROVE  \/ UNCHANGED <<view, live, timeline>>
             \/ /\ timeline' = Merge(view'.events, live') /\ UNCHANGED recorded
                /\ live' = live \/ \E e \in Kinds : live' = Append(live, e)
  <2>1. UNCHANGED <<view, recorded>>
    BY <1>7, SocketCases DEF jobVars
  <2>2. CASE UNCHANGED <<live, timeline>>
    BY <2>1, <2>2
  <2>3. CASE wire[s] # << >> /\ live' = Append(live, Head(wire[s])) /\ timeline' = Merge(view.events, live')
    <3>1. wire[s] \in Seq(Kinds)
      BY PageNumbers
    <3>2. Head(wire[s]) \in Kinds
      BY <2>3, <3>1
    <3> QED
      BY <2>1, <2>3, <3>2
  <2> QED
    BY <1>7, <2>2, <2>3, SocketCases
<1> QED
  BY <1>3, <1>4, <1>5, <1>6, <1>7 DEF FeedNext, Working

\* A new timeline has places in the log.
LEMMA EmbeddedNext ==
    ASSUME PageInv
    PROVE  Progress!Embedded(timeline, recorded)
<1>1. /\ recorded \in Seq(Kinds) /\ view.events \in Seq(Kinds) /\ live \in Seq(Kinds) /\ Heard \in Seq(Kinds)
      /\ Past \in Nat /\ Past <= Len(recorded) /\ Begins(live, Heard) /\ Begins(recorded, recorded)
  BY PageNumbers, BeginsFacts
<1>2. PICK f : Places(f, Heard, recorded, Past)
  BY DEF PageInv, HeardInOrder
<1>3. PICK g : Places(g, live, recorded, Past)
  BY <1>1, <1>2, PlacesKeep
<1>4. Begins(view.events, recorded) /\ timeline = Merge(view.events, live)
  BY DEF PageInv, Stored, Merged
<1> QED
  BY <1>1, <1>3, <1>4, TimelineEmbedded

\* The page invariant is kept.
LEMMA PageStep ==
    ASSUME PageInv, [FeedNext]_feedVars
    PROVE  /\ PageInv' /\ Begins(recorded, recorded')
           /\ UNCHANGED timeline \/ (UNCHANGED recorded /\ ToSet(timeline) \subseteq ToSet(timeline'))
<1>1. FeedTypeOK /\ JobShape
  BY DEF PageInv
<1>2. JobShape' /\ Begins(recorded, recorded') /\ Past <= Past' /\ Past' \in Nat
  BY <1>1, JobShapeStep
<1>3. FeedTypeOK'
  BY <1>1, TypedStep
<1>4. recorded' \in Seq(Kinds)
  BY <1>2 DEF JobShape
<1>5. Stored' /\ Begins(view.events, view'.events)
  BY <1>2, <1>4, StoredStep
<1>6. HeardInOrder'
  BY <1>2, HeardStep
<1>7. Merged' /\ (UNCHANGED timeline \/ (UNCHANGED recorded /\ ToSet(timeline) \subseteq ToSet(timeline')))
  BY <1>3, <1>5, TimelineMoves
<1> QED
  BY <1>2, <1>3, <1>5, <1>6, <1>7 DEF PageInv

\* An empty page shows an empty log.
LEMMA PageStart == FeedInit => PageInv
<1> SUFFICES ASSUME FeedInit
             PROVE  PageInv
  OBVIOUS
<1> USE DEF FeedInit, JobInit, NoPoll, Nothing
<1>1. << >> \in Seq(Kinds) /\ Len(<< >>) = 0
  OBVIOUS
<1>2. Merge(<< >>, << >>) \in Seq(Kinds) /\ ToSet(Merge(<< >>, << >>)) = {}
  <2>1. /\ Merge(<< >>, << >>) \in Seq(Kinds)
        /\ ToSet(Merge(<< >>, << >>)) = ToSet(<< >>) \cup ToSet(<< >>)
    BY <1>1, MergeAdds
  <2> QED
    BY <2>1 DEF ToSet
<1>3. Merge(<< >>, << >>) = << >>
  <2>1. \A q \in Seq(Kinds) : ToSet(q) = {} => q = << >>
    <3> SUFFICES ASSUME NEW q \in Seq(Kinds), ToSet(q) = {}
                 PROVE  q = << >>
      OBVIOUS
    <3>1. DOMAIN q = {}
      BY DEF ToSet
    <3> QED
      BY <3>1
  <2> QED
    BY <1>2, <2>1
<1>4. FeedTypeOK
  <2>1. /\ view \in [status : Stati \cup {"loading"}, events : Seq(Kinds)]
        /\ poll \in [at : {"idle", "row", "answer"}, status : Stati \cup {"loading"}, events : Seq(Kinds)]
    BY <1>1
  <2>2. 0 \in 0 .. MaxSockets /\ 0 \in 0 .. MaxResults /\ Unread \in 0 .. Unread
    BY DEF Unread
  <2>3. handler \in [Sockets -> Stages] /\ wire \in [Sockets -> Seq(Kinds)]
    BY <1>1 DEF Stages
  <2> QED
    BY <1>1, <2>1, <2>2, <2>3 DEF FeedTypeOK
<1>5. JobShape
  BY <1>1 DEF JobShape
<1>6. Stored
  BY <1>1 DEF Stored, Begins
<1>7. HeardInOrder
  <2>1. Heard = << >> /\ Past = 0
    BY <1>1 DEF Heard, Past
  <2>2. Places([i \in 1 .. 0 |-> 0], << >>, << >>, 0)
    BY <1>1 DEF Places
  <2>3. \A s \in Sockets : wire[s] = << >>
    OBVIOUS
  <2> QED
    BY <2>1, <2>2, <2>3 DEF HeardInOrder
<1>8. Merged
  BY <1>3 DEF Merged
<1> QED
  BY <1>4, <1>5, <1>6, <1>7, <1>8 DEF PageInv

\* The page invariant holds.
LEMMA PageInvariance == FeedSpec => []PageInv
<1>1. PageInv /\ [FeedNext]_feedVars => PageInv'
  BY PageStep
<1> QED
  BY PageStart, <1>1, PTL DEF FeedSpec

\* Every variable of the page keeps its shape, and it listens to no socket
\* once it shows a terminal status: for any statuses, sockets and log.
THEOREM PageIsTyped == FeedSpec => []FeedTypeOK
<1>1. PageInv => FeedTypeOK
  BY DEF PageInv
<1> QED
  BY PageInvariance, <1>1, PTL

\* The log grows by one event at a time.
LEMMA LogGrows ==
    ASSUME PageInv, [FeedNext]_feedVars, recorded' # recorded
    PROVE  Progress!Log
<1>1. CASE \E e \in Kinds : Records(e)
  <2>1. PICK e \in Kinds : recorded' = Append(recorded, e) /\ UNCHANGED timeline
    BY <1>1 DEF Records, Record, page
  <2>2. /\ recorded \in Seq(Kinds) /\ Len(recorded) \in Nat
    BY PageNumbers
  <2>3. Len(recorded') = Len(recorded) + 1
    BY <2>1, <2>2
  <2>4. IsPrefix(recorded, recorded')
    <3>1. SubSeq(recorded, 1, Len(recorded)) = recorded /\ SubSeq(recorded', 1, Len(recorded)) = recorded
      BY <2>1, <2>2
    <3> QED
      BY <2>2, <2>3, <3>1 DEF IsPrefix
  <2> QED
    BY <2>1, <2>3, <2>4 DEF Progress!Log, Progress!IsPrefix, IsPrefix
<1>2. CASE ~ \E e \in Kinds : Records(e)
  <2>1. CASE (\E s \in Stati : WritesStatus(s)) \/ Publishes \/ Abandons \/ SaveResult
    BY <2>1 DEF WritesStatus, Publishes, Abandons, SaveResult, SetStatus, Publish, jobVars
  <2>2. CASE PollRow \/ PollEvents \/ PollAnswered \/ PollFails \/ ReadResults \/ UNCHANGED feedVars
    BY <2>2 DEF PollRow, PollEvents, PollAnswered, PollFails, ReadResults, feedVars, jobVars
  <2>3. CASE \E s \in Sockets : OpenSocket(s) \/ Refuse(s) \/ Accept(s) \/ Subscribe(s) \/ Forward(s) \/ Drop(s)
    BY <2>3, SocketCases DEF jobVars
  <2> QED
    BY <1>2, <2>1, <2>2, <2>3 DEF FeedNext
<1> QED
  BY <1>1, <1>2

\* The page implements the promise of ProgressFeed: its timeline is the log
\* with gaps, in its order, and never loses an entry. For any log, any number
\* of sockets, and answers and live events that come in any order.
THEOREM PageShowsTheLog == FeedSpec => ShowsTheLog
<1>1. FeedInit => Progress!Init
  BY DEF FeedInit, JobInit, Progress!Init
<1>2. PageInv => Progress!Embedded(timeline, recorded)
  BY EmbeddedNext
<1>3. PageInv /\ Progress!Embedded(timeline, recorded)' /\ [FeedNext]_feedVars
          => [Progress!Log \/ Progress!Show]_<<recorded, timeline>>
  <2> SUFFICES ASSUME PageInv, Progress!Embedded(timeline, recorded)', [FeedNext]_feedVars
               PROVE  [Progress!Log \/ Progress!Show]_<<recorded, timeline>>
    OBVIOUS
  <2>1. CASE recorded' # recorded
    BY <2>1, LogGrows
  <2>2. CASE recorded' = recorded
    <3>1. UNCHANGED timeline \/ ToSet(timeline) \subseteq ToSet(timeline')
      BY PageStep
    <3>2. Progress!Embedded(timeline', recorded)
      BY <2>2
    <3> QED
      BY <2>2, <3>1, <3>2 DEF Progress!Show, Progress!ToSet, ToSet
  <2> QED
    BY <2>1, <2>2
<1> QED
  BY <1>1, <1>2, <1>3, PageInvariance, PTL DEF FeedSpec, ShowsTheLog, Progress!Spec
=============================================================================
