------------------------- MODULE JobLifecycleProofs -------------------------
(***************************************************************************)
(* Safety of JobLifecycle for every set of requests, every assignment to   *)
(* organizations, every limit and every bound; and that it implements      *)
(* JobProgress: what the progress page takes a job for is what every job   *)
(* is.                                                                     *)
(***************************************************************************)
EXTENDS JobLifecycle, FiniteSetTheorems, TLAPS

USE OrgsAssumption, QuotaAssumption, BoundsAssumption

\* Every step is a stutter or one of these actions, of one job.
Actions(j) == ReadQuota(j) \/ Handler(j) \/ Arq(j) \/ Attempt(j) \/ Fault(j)

\* The kinds of step are told apart by their op, whatever they carry.
LEMMA StepKinds ==
    ASSUME NEW s \in Steps
    PROVE  /\ s.op = "write"   => s = Write(s.of) /\ s.of \in Written
           /\ s.op = "log"     => s = Log(s.of) /\ s.of \in Events
           /\ s.op = "publish" => s = Publish(s.of) /\ s.of \in Events
           /\ s.op \in {"write", "log", "publish", "idle", "load", "return", "crawl"}
           /\ s.op = "idle" <=> s = Idle
           /\ s.op = "load" <=> s = Load
           /\ s.op = "return" <=> s = Return
           /\ s.op = "crawl" <=> s = Crawling
  BY DEF Steps, Idle, Load, Return, Crawling, Write, Log, Publish

LEMMA FixedSteps == {Idle, Load, Return, Crawling} \subseteq Steps
  BY DEF Steps

\* Type correctness: whatever a handler, arq or an attempt does, the
\* variables keep their shape.
THEOREM TypeCorrect == Spec => []TypeOK
<1>1. Init => TypeOK
  BY DEF Init, TypeOK, Steps, Events, Written, Statuses, Handling, Admitted, Answers
<1>2. ASSUME TypeOK, [Next]_vars
      PROVE  TypeOK'
  <2> USE <1>2 DEF TypeOK
  <2>1. CASE UNCHANGED vars
    BY <2>1 DEF vars
  <2>2. ASSUME NEW j \in Jobs, Actions(j)
        PROVE  TypeOK'
    <3> USE DEF database, broker, Handling, Admitted, Answers
    <3>1. CASE ReadQuota(j)
      BY <3>1 DEF ReadQuota
    <3>2. CASE HealQuota(j)
      BY <3>2 DEF HealQuota
    <3>3. CASE CountActive(j)
      BY <3>3 DEF CountActive
    <3>4. CASE CreateJob(j)
      BY <3>4 DEF CreateJob, Statuses
    <3>5. CASE EnqueueJob(j)
      BY <3>5 DEF EnqueueJob
    <3>6. CASE MarkQueued(j)
      BY <3>6 DEF MarkQueued, Statuses
    <3>7. CASE StartAttempt(j)
      BY <3>7, FixedSteps DEF StartAttempt
    <3>8. CASE DropExhausted(j)
      BY <3>8 DEF DropExhausted
    <3>9. CASE FinishAttempt(j)
      BY <3>9 DEF FinishAttempt, Steps
    <3>10. CASE LoadJob(j)
      BY <3>10 DEF LoadJob, Steps, Written, Terminal
    <3>11. CASE CommitStatus(j)
      <4>1. step[j].of \in Written
        BY <3>11, StepKinds DEF CommitStatus
      <4>2. Log(step[j].of) \in Steps
        BY <4>1 DEF Steps, Events
      <4>3. status' \in [Jobs -> Statuses \cup {"absent"}] /\ step' \in [Jobs -> Steps]
        BY <3>11, <4>1, <4>2 DEF CommitStatus, Statuses
      <4>4. error' \in [Jobs -> BOOLEAN]
        BY <3>11 DEF CommitStatus
      <4> QED BY <3>11, <4>3, <4>4 DEF CommitStatus
    <3>12. CASE CommitEvent(j)
      <4>1. step[j].of \in Events
        BY <3>12, StepKinds DEF CommitEvent
      <4>2. Publish(step[j].of) \in Steps
        BY <4>1 DEF Steps
      <4>3. log' \in [Jobs -> Seq(Events)]
        BY <3>12, <4>1 DEF CommitEvent
      <4> QED BY <3>12, <4>2, <4>3 DEF CommitEvent
    <3>13. CASE PublishEvent(j)
      BY <3>13 DEF PublishEvent
    <3>14. CASE Crawl(j)
      <4>1. {Log("crawl.stopped_early"), Write("extracting")} \subseteq Steps
        BY DEF Steps, Events, Written
      <4> QED BY <3>14, <4>1 DEF Crawl
    <3>15. CASE RequestFails(j)
      BY <3>15 DEF RequestFails
    <3>16. CASE Timeout(j)
      BY <3>16, FixedSteps DEF Timeout
    <3>17. CASE Interrupt(j)
      BY <3>17, FixedSteps DEF Interrupt
    <3>18. CASE Raise(j)
      <4>1. {Return, Write("failed")} \subseteq Steps
        BY DEF Steps, Written, Terminal
      <4> QED BY <3>18, <4>1 DEF Raise
    <3> QED BY <2>2, <3>1, <3>2, <3>3, <3>4, <3>5, <3>6, <3>7, <3>8, <3>9, <3>10,
               <3>11, <3>12, <3>13, <3>14, <3>15, <3>16, <3>17, <3>18
            DEF Actions, Handler, Arq, Attempt, Fault
  <2> QED BY <1>2, <2>1, <2>2 DEF Next, Actions
<1> QED BY <1>1, <1>2, PTL DEF Spec
-----------------------------------------------------------------------------
(* No attempt without a row, no row without a quota. *)

\* QueuedJobsExist is not inductive: that the row is there when EnqueueJob
\* runs follows from how far the handler has come.
RowsExist ==
    /\ \A j \in Jobs :
         /\ api[j] \in {"created", "enqueued", "accepted"} => status[j] # "absent"
         /\ api[j] \in {"counting"} \cup Admitted \/ status[j] # "absent" =>
                quota[OrgOf[j]] # NoRow
         /\ api[j] \in {"idle", "healing", "counting", "admitted"} =>
                status[j] = "absent" /\ tries[j] = 0
    /\ QueuedJobsExist

LEMMA RowsExistInit == Init => RowsExist
  BY DEF Init, RowsExist, QueuedJobsExist, Running, Admitted

LEMMA RowsExistStep ==
    ASSUME TypeOK, RowsExist, [Next]_vars
    PROVE  RowsExist'
<1> USE DEF TypeOK, RowsExist, QueuedJobsExist, Running
<1>1. CASE UNCHANGED vars
  BY <1>1 DEF vars, Admitted
<1>2. ASSUME NEW j \in Jobs, Actions(j)
      PROVE  RowsExist'
  <2> USE DEF database, broker, Admitted
  <2>1. CASE ReadQuota(j)
    BY <2>1 DEF ReadQuota
  <2>2. CASE HealQuota(j)
    BY <2>2 DEF HealQuota
  <2>3. CASE CountActive(j)
    BY <2>3 DEF CountActive
  <2>4. CASE CreateJob(j)
    BY <2>4 DEF CreateJob
  <2>5. CASE EnqueueJob(j)
    BY <2>5 DEF EnqueueJob
  <2>6. CASE MarkQueued(j)
    BY <2>6 DEF MarkQueued
  <2>7. CASE StartAttempt(j)
    BY <2>7 DEF StartAttempt
  <2>8. CASE DropExhausted(j)
    BY <2>8 DEF DropExhausted
  <2>9. CASE FinishAttempt(j)
    BY <2>9 DEF FinishAttempt
  <2>10. CASE LoadJob(j)
    BY <2>10 DEF LoadJob, Load, Idle
  <2>11. CASE CommitStatus(j)
    <3>1. step[j].of \in Written /\ step[j] # Idle
      BY <2>11, StepKinds DEF CommitStatus
    <3>2. step[j].of # "absent"
      BY <3>1 DEF Written, Terminal
    <3> QED BY <2>11, <3>1, <3>2 DEF CommitStatus
  <2>12. CASE CommitEvent(j)
    BY <2>12, StepKinds DEF CommitEvent
  <2>13. CASE PublishEvent(j)
    BY <2>13, StepKinds DEF PublishEvent
  <2>14. CASE Crawl(j)
    BY <2>14 DEF Crawl, Crawling, Idle
  <2>15. CASE RequestFails(j)
    BY <2>15 DEF RequestFails
  <2>16. CASE Timeout(j)
    BY <2>16 DEF Timeout
  <2>17. CASE Interrupt(j)
    BY <2>17 DEF Interrupt
  <2>18. CASE Raise(j)
    BY <2>18 DEF Raise
  <2> QED BY <1>2, <2>1, <2>2, <2>3, <2>4, <2>5, <2>6, <2>7, <2>8, <2>9, <2>10,
             <2>11, <2>12, <2>13, <2>14, <2>15, <2>16, <2>17, <2>18
          DEF Actions, Handler, Arq, Attempt, Fault
<1> QED BY <1>1, <1>2 DEF Next, Actions

\* The branch `if job is None` of run_research_job is never taken.
THEOREM QueuedJobsAlwaysExist == Spec => []QueuedJobsExist
<1>1. Init => RowsExist
  BY RowsExistInit
<1>2. TypeOK /\ RowsExist /\ [Next]_vars => RowsExist'
  BY RowsExistStep
<1>3. RowsExist => QueuedJobsExist
  BY DEF RowsExist
<1> QED BY <1>1, <1>2, <1>3, TypeCorrect, PTL DEF Spec

-----------------------------------------------------------------------------
(* What an attempt has done by the time it stands at a step. *)

\* The steps before the attempt first tries to settle the job.
Early == {"searching", "search.completed", "sources.discovered", "crawling",
          "crawl.stopped_early", "extracting"}
Before(s) == s \in {Load, Crawling} \/ s.of \in Early

\* The steps of the handler, and those that leave the coroutine.
InHandler(s) == s.of \in {"failed", "research.failed"}
Over(s)      == s \in {Idle, Return}

\* "completed" is committed, and nothing else was written since.
Completed(s) == s \in {Log("completed"), Publish("completed")} \/ s.of = "research.completed"

\* The errors: known before any event of a failure is.
ErrorFirst ==
    \A j \in Jobs :
        /\ status[j] = "failed" => error[j]
        /\ Logged(j, "research.failed") => error[j]
        /\ InHandler(step[j]) /\ step[j].op # "write" => error[j]

\* The first attempt, step by step.
FirstAttemptOf(j) ==
    tries[j] <= 1 =>
        /\ tries[j] = 0 => /\ step[j] = Idle
                           /\ status[j] \notin Terminal
                           /\ ~ error[j]
                           /\ ~ Logged(j, "research.completed")
        /\ Before(step[j]) => status[j] \notin Terminal
        /\ Completed(step[j]) => status[j] \in {"completed", "queued"}
        /\ error[j] => /\ status[j] \in {"failed", "queued"}
                       /\ InHandler(step[j]) \/ Over(step[j])
        /\ Logged(j, "research.completed") =>
               /\ status[j] \in Terminal \cup {"queued"}
               /\ \/ InHandler(step[j]) \/ Over(step[j])
                  \/ step[j] = Publish("research.completed")

FirstAttempt == \A j \in Jobs : FirstAttemptOf(j)

\* Only CommitEvent adds to the log, and it adds one event.
LEMMA LoggedAppend ==
    ASSUME TypeOK, NEW j \in Jobs, CommitEvent(j), NEW k \in Jobs, NEW e
    PROVE  Logged(k, e)' <=> Logged(k, e) \/ (k = j /\ e = step[j].of)
<1>1. log[k] \in Seq(Events) /\ log \in [Jobs -> Seq(Events)]
  BY DEF TypeOK
<1>2. step[j].of \in Events
  BY StepKinds DEF CommitEvent, TypeOK
<1>3. CASE k = j
  <2>1. log'[k] = Append(log[k], step[j].of)
    BY <1>1, <1>3 DEF CommitEvent
  <2>2. /\ DOMAIN log'[k] = 1 .. Len(log[k]) + 1 /\ DOMAIN log[k] = 1 .. Len(log[k])
        /\ \A i \in 1 .. Len(log[k]) : log'[k][i] = log[k][i]
        /\ log'[k][Len(log[k]) + 1] = step[j].of
        /\ Len(log[k]) \in Nat
    BY <1>1, <1>2, <2>1
  <2>3. DOMAIN log'[k] = DOMAIN log[k] \cup {Len(log[k]) + 1}
    BY <2>2
  <2> QED BY <1>3, <2>2, <2>3 DEF Logged
<1>4. CASE k # j
  BY <1>1, <1>4 DEF Logged, CommitEvent
<1> QED BY <1>3, <1>4

\* The labels of the steps tell them apart.
LEMMA StepLabels ==
    /\ Idle.of = "-" /\ Load.of = "-" /\ Return.of = "-" /\ Crawling.of = "-"
    /\ Idle # Load /\ Idle # Return /\ Idle # Crawling /\ Load # Return
    /\ Load # Crawling /\ Return # Crawling
    /\ \A e : /\ Write(e).of = e /\ Log(e).of = e /\ Publish(e).of = e
              /\ Write(e).op = "write" /\ Log(e).op = "log" /\ Publish(e).op = "publish"
              /\ Write(e) \notin {Idle, Load, Return, Crawling}
              /\ Log(e) \notin {Idle, Load, Return, Crawling}
              /\ Publish(e) \notin {Idle, Load, Return, Crawling}
  BY DEF Idle, Load, Return, Crawling, Write, Log, Publish

LEMMA ErrorFirstInit == Init => ErrorFirst /\ FirstAttempt
  BY StepLabels DEF Init, ErrorFirst, FirstAttempt, FirstAttemptOf, Logged, InHandler, Before, Completed,
     Early, Terminal

LEMMA ErrorFirstStep ==
    ASSUME TypeOK, ErrorFirst, [Next]_vars
    PROVE  ErrorFirst'
<1> USE DEF TypeOK, ErrorFirst, InHandler
<1>1. CASE UNCHANGED vars
  BY <1>1 DEF vars, Logged
<1>2. ASSUME NEW j \in Jobs, Actions(j)
      PROVE  ErrorFirst'
  <2> USE DEF database, broker
  <2>1. CASE /\ UNCHANGED <<error, log, step>>
             /\ \A k \in Jobs : status'[k] = status[k] \/ status'[k] # "failed"
    BY <2>1 DEF Logged
  <2>2. CASE /\ UNCHANGED <<status, error, log>>
             /\ \A k \in Jobs : step'[k] = step[k] \/ ~ InHandler(step[k]') \/ step'[k].op = "write"
    BY <2>2 DEF Logged
  <2>3. CASE CommitStatus(j)
    <3>1. step[j].of \in Written /\ UNCHANGED log
      BY <2>3, StepKinds DEF CommitStatus
    <3>2. ASSUME NEW k \in Jobs
          PROVE  /\ status'[k] = "failed" => error'[k]
                 /\ error[k] => error'[k]
                 /\ step'[k].of \in {"failed", "research.failed"} /\ step'[k].op # "write" => error'[k]
      <4>1. CASE k = j
        BY <2>3, <3>1, <4>1, StepLabels DEF CommitStatus, Written, Terminal
      <4>2. CASE k # j
        BY <2>3, <4>2 DEF CommitStatus
      <4> QED BY <4>1, <4>2
    <3> QED BY <3>1, <3>2 DEF Logged
  <2>4. CASE CommitEvent(j)
    <3>1. UNCHANGED <<status, error>> /\ step' = [step EXCEPT ![j] = Publish(step[j].of)]
      BY <2>4 DEF CommitEvent
    <3>2. \A k \in Jobs : Logged(k, "research.failed")' =>
              Logged(k, "research.failed") \/ (k = j /\ step[j].of = "research.failed")
      BY <2>4, LoggedAppend
    <3>3. step[j].of \in {"failed", "research.failed"} => error[j]
      BY <2>4 DEF CommitEvent
    <3>4. step'[j].of = step[j].of /\ \A k \in Jobs : k # j => step'[k] = step[k]
      BY <3>1, StepLabels
    <3> QED BY <3>1, <3>2, <3>3, <3>4
  <2>5. CASE PublishEvent(j)
    <3>1. PICK next \in Steps : <<step[j].of, next>> \in Script /\ step' = [step EXCEPT ![j] = next]
      BY <2>5 DEF PublishEvent
    <3>2. next.of \in {"failed", "research.failed"} => step[j].of = "failed"
      BY <3>1, StepLabels DEF Script, SearchScript, CrawlScript, EndScript, FailScript
    <3> QED BY <2>5, <3>1, <3>2 DEF PublishEvent, Logged
  <2>6. CASE ReadQuota(j) \/ Handler(j)
    <3>1. CASE CreateJob(j) \/ MarkQueued(j)
      BY <2>1, <3>1 DEF CreateJob, MarkQueued
    <3> QED BY <2>1, <2>6, <3>1
            DEF ReadQuota, Handler, HealQuota, CountActive, EnqueueJob
  <2>7. CASE Arq(j)
    BY <2>2, <2>7, StepLabels DEF Arq, StartAttempt, DropExhausted, FinishAttempt
  <2>8. CASE LoadJob(j)
    BY <2>2, <2>8, StepLabels DEF LoadJob
  <2>9. CASE Crawl(j)
    BY <2>2, <2>9, StepLabels DEF Crawl
  <2>10. CASE Fault(j)
    BY <2>2, <2>10, StepLabels DEF Fault, RequestFails, Timeout, Interrupt, Raise
  <2> QED BY <1>2, <2>3, <2>4, <2>5, <2>6, <2>7, <2>8, <2>9, <2>10 DEF Actions, Attempt
<1> QED BY <1>1, <1>2 DEF Next, Actions

LEMMA FirstAttemptStep ==
    ASSUME TypeOK, RowsExist, FirstAttempt, [Next]_vars
    PROVE  FirstAttempt'
<1> USE DEF FirstAttemptOf
<1>1. CASE UNCHANGED vars
  BY <1>1 DEF vars, FirstAttempt, Logged, Completed
<1>2. ASSUME NEW j \in Jobs, Actions(j), NEW k \in Jobs
      PROVE  FirstAttemptOf(k)'
  <2> USE DEF database, broker
  <2>0. FirstAttemptOf(k) /\ FirstAttemptOf(j)
    BY DEF FirstAttempt
  <2>1. CASE /\ status'[k] = status[k] /\ error'[k] = error[k] /\ log'[k] = log[k]
             /\ tries'[k] = tries[k] /\ step'[k] = step[k]
    BY <2>0, <2>1 DEF Logged, Completed
  <2>2. CASE ReadQuota(j) \/ Handler(j)
    <3>1. CASE CreateJob(j)
      <4>1. CASE k = j
        <5>1. tries[j] = 0 /\ tries'[j] = 0 /\ step'[j] = Idle
          BY <2>0, <3>1 DEF CreateJob, RowsExist
        <5>2. UNCHANGED <<error, log, step>> /\ status'[j] = "created"
          BY <3>1 DEF CreateJob, TypeOK
        <5> QED BY <2>0, <4>1, <5>1, <5>2, StepLabels DEF Logged, Terminal, Completed
      <4>2. CASE k # j
        BY <2>1, <3>1, <4>2 DEF CreateJob, TypeOK
      <4> QED BY <4>1, <4>2
    <3>2. CASE MarkQueued(j)
      <4>1. CASE k = j
        <5>1. UNCHANGED <<error, log, step, tries>> /\ status'[j] = "queued"
          BY <3>2 DEF MarkQueued, TypeOK
        <5> QED BY <2>0, <4>1, <5>1 DEF Logged, Terminal, Completed
      <4>2. CASE k # j
        BY <2>1, <3>2, <4>2 DEF MarkQueued, TypeOK
      <4> QED BY <4>1, <4>2
    <3> QED BY <2>1, <2>2, <3>1, <3>2
            DEF ReadQuota, Handler, HealQuota, CountActive, EnqueueJob
  <2>3. CASE k # j
    BY <1>2, <2>1, <2>2, <2>3
       DEF TypeOK, Actions, Arq, Attempt, Fault, StartAttempt, DropExhausted, FinishAttempt,
           LoadJob, CommitStatus, CommitEvent, PublishEvent, Crawl, RequestFails, Timeout,
           Interrupt, Raise
  <2> SUFFICES ASSUME k = j
               PROVE  FirstAttemptOf(j)'
    BY <2>3
  <2>4. CASE StartAttempt(j)
    <3>1. UNCHANGED <<status, error, log>> /\ tries'[j] = tries[j] + 1 /\ step'[j] = Load
      BY <2>4 DEF StartAttempt, TypeOK
    <3>2. tries[j] \in Nat
      BY DEF TypeOK
    <3>3. tries'[j] <= 1 => tries[j] = 0
      BY <3>1, <3>2
    <3> QED BY <2>0, <3>1, <3>2, <3>3, StepLabels
            DEF Logged, Completed, InHandler, Over
  <2>5. CASE /\ UNCHANGED <<status, error, log, tries>>
             /\ step[j] # Idle
             /\ step'[j] \in {Idle, Return}
    BY <2>0, <2>5, StepLabels DEF Logged, Completed, Before, Early, Over
  <2>6. CASE DropExhausted(j) \/ RequestFails(j)
    BY <2>1, <2>6 DEF DropExhausted, RequestFails
  <2>7. CASE LoadJob(j)
    <3>1. UNCHANGED <<status, error, log, tries>> /\ step[j] = Load
          /\ step'[j] \in {Return, Write("searching")}
      BY <2>7 DEF LoadJob, TypeOK
    <3> QED BY <2>0, <2>5, <3>1, StepLabels
            DEF Logged, Completed, Before, Early, Over, InHandler
  <2>8. CASE CommitStatus(j)
    <3> DEFINE s == step[j].of
    <3>1. /\ UNCHANGED <<log, tries>> /\ status'[j] = s /\ step'[j] = Log(s)
          /\ error'[j] <=> (error[j] \/ s = "failed")
          /\ step[j] = Write(s) /\ s \in Written
      BY <2>8, StepKinds DEF CommitStatus, TypeOK
    <3>2. step[j] # Idle /\ ~ Over(step[j]) /\ s \notin {"research.completed", "research.failed"}
      BY <3>1, StepLabels DEF Over, Written, Terminal
    <3>3. tries[j] <= 1 => tries[j] # 0
      BY <2>0, <3>2
    <3>4. tries[j] <= 1 => (Before(step'[j]) => status'[j] \notin Terminal)
      BY <3>1, StepLabels DEF Before, Early, Terminal
    <3>5. tries[j] <= 1 => (Completed(step[j])' => status'[j] \in {"completed", "queued"})
      BY <3>1, <3>2, StepLabels DEF Completed, Log, Publish
    <3>6. tries[j] <= 1 /\ error'[j] => s = "failed"
      BY <2>0, <3>1, <3>2 DEF InHandler
    <3>7. tries[j] <= 1 /\ Logged(j, "research.completed") => s = "failed"
      BY <2>0, <3>1, <3>2, StepLabels DEF InHandler
    <3> QED BY <3>1, <3>3, <3>4, <3>5, <3>6, <3>7, StepLabels
            DEF Logged, InHandler, Before, Completed, Terminal
  <2>9. CASE CommitEvent(j)
    <3> DEFINE e == step[j].of
    <3>1. /\ UNCHANGED <<status, error, tries>> /\ step'[j] = Publish(e)
          /\ step[j] = Log(e) /\ e \in Events
      BY <2>9, StepKinds DEF CommitEvent, TypeOK
    <3>2. Logged(j, "research.completed")' <=>
              Logged(j, "research.completed") \/ e = "research.completed"
      BY <2>9, LoggedAppend
    <3>3. step[j].of = e /\ step'[j].of = e /\ step[j] # Idle /\ ~ Over(step[j])
          /\ step[j] \notin {Load, Crawling}
      BY <3>1, StepLabels DEF Over
    <3>4. Before(step'[j]) => Before(step[j])
      BY <3>1, <3>3, StepLabels DEF Before
    <3>5. Completed(step[j])' => Completed(step[j])
      BY <3>1, <3>3 DEF Completed, Log, Publish
    <3>6. InHandler(step[j]) => InHandler(step'[j])
      BY <3>3 DEF InHandler
    <3>7. e = "research.completed" => Completed(step[j])
      BY <3>3 DEF Completed
    <3>8. step[j] = Publish("research.completed") => FALSE
      BY <3>1 DEF Log, Publish
    <3> QED BY <2>0, <3>1, <3>2, <3>3, <3>4, <3>5, <3>6, <3>7, <3>8, StepLabels
            DEF Before, Completed, Terminal
  <2>10. CASE PublishEvent(j)
    <3>1. PICK next \in Steps : <<step[j].of, next>> \in Script /\ step'[j] = next
      BY <2>10 DEF PublishEvent, TypeOK
    <3>2. UNCHANGED <<status, error, log, tries>> /\ step[j] = Publish(step[j].of)
      BY <2>10, StepKinds DEF PublishEvent, TypeOK
    <3>3. step[j] # Idle /\ ~ Over(step[j])
      BY <3>2, StepLabels DEF Over
    <3>4. Before(next) => Before(step[j])
      BY <3>1, StepLabels DEF Script, SearchScript, CrawlScript, EndScript, FailScript, Before, Early
    <3>5. Completed(next) => Completed(step[j])
      BY <3>1, <3>2, StepLabels DEF Script, SearchScript, CrawlScript, EndScript, FailScript, Completed, Log, Publish
    <3>6. InHandler(step[j]) => InHandler(next) \/ Over(next)
      BY <3>1, StepLabels DEF Script, SearchScript, CrawlScript, EndScript, FailScript, InHandler, Over
    <3>7. step[j].of = "research.completed" => Over(next)
      BY <3>1, StepLabels DEF Script, SearchScript, CrawlScript, EndScript, FailScript, Over
    <3> QED BY <2>0, <3>1, <3>2, <3>3, <3>4, <3>5, <3>6, <3>7, StepLabels
            DEF Logged, Completed
  <2>11. CASE Crawl(j)
    <3>1. /\ UNCHANGED <<status, error, log, tries>> /\ step[j] = Crawling
          /\ step'[j] \in {Log("crawl.stopped_early"), Write("extracting")}
      BY <2>11 DEF Crawl, TypeOK
    <3> QED BY <2>0, <3>1, StepLabels
            DEF Logged, Completed, Before, Early, InHandler, Over, Log, Publish, Write
  <2>12. CASE Raise(j)
    <3>1. /\ UNCHANGED <<status, error, log, tries>>
          /\ step[j] \notin {Idle, Return}
          /\ step'[j] = IF Unguarded(step[j]) THEN Return ELSE Write("failed")
      BY <2>12 DEF Raise, TypeOK
    <3> QED BY <2>0, <2>5, <3>1, StepLabels
            DEF Logged, Completed, Before, Early, InHandler, Over, Log, Publish, Write
  <2> QED BY <1>2, StepLabels, <2>2, <2>4, <2>5, <2>6, <2>7, <2>8, <2>9, <2>10, <2>11, <2>12
          DEF Actions, Arq, Attempt, Fault, FinishAttempt, Timeout, Interrupt, TypeOK
<1> QED BY <1>1, <1>2 DEF Next, Actions, FirstAttempt

\* The inductive invariant of this section.
AttemptInv == RowsExist /\ ErrorFirst /\ FirstAttempt

LEMMA AttemptInvariant == Spec => []AttemptInv
<1>1. Init => AttemptInv
  BY RowsExistInit, ErrorFirstInit DEF AttemptInv
<1>2. TypeOK /\ AttemptInv /\ [Next]_vars => AttemptInv'
  BY RowsExistStep, ErrorFirstStep, FirstAttemptStep DEF AttemptInv
<1> QED BY <1>1, <1>2, TypeCorrect, PTL DEF Spec

\* A failed job has an error, and on the first attempt nothing else has.
THEOREM FailuresAreRecorded == Spec => []FailureRecorded
<1>1. AttemptInv => FailureRecorded
  BY DEF AttemptInv, ErrorFirst, FirstAttempt, FirstAttemptOf, FailureRecorded
<1> QED BY <1>1, AttemptInvariant, PTL

\* A terminal event is never ahead of the row it reports on.
THEOREM TerminalEventsAreTruthful == Spec => []TerminalEventTruthful
<1>1. AttemptInv => TerminalEventTruthful
  BY DEF AttemptInv, ErrorFirst, FirstAttempt, FirstAttemptOf, TerminalEventTruthful
<1> QED BY <1>1, AttemptInvariant, PTL

\* Within one attempt a settled job is re-opened by MarkQueued only.
THEOREM SettledJobsStay == Spec => SettledStays
<1>1. ASSUME TypeOK, AttemptInv, [Next]_vars, NEW k \in Jobs
      PROVE  StaysSettled(k)
  <2> USE DEF StaysSettled
  <2>1. CASE UNCHANGED vars
    BY <2>1 DEF vars
  <2>2. ASSUME NEW j \in Jobs, Actions(j)
        PROVE  StaysSettled(k)
    <3> USE <1>1 DEF database, broker
    <3>1. CASE CreateJob(j)
      BY <3>1 DEF CreateJob, TypeOK, AttemptInv, RowsExist, Terminal
    <3>2. CASE MarkQueued(j)
      BY <3>2 DEF MarkQueued, TypeOK
    <3>3. CASE CommitStatus(j) /\ k = j /\ status[j] \in Terminal /\ tries[j] <= 1
      <4>1. step[j] = Write(step[j].of) /\ step[j].of \in Written /\ status'[j] = step[j].of
        BY <3>3, StepKinds DEF CommitStatus, TypeOK
      <4>2. FirstAttemptOf(j) /\ (status[j] = "failed" => error[j])
        BY DEF AttemptInv, FirstAttempt, ErrorFirst
      <4>3. step[j].of \in Terminal
        BY <3>3, <4>1, <4>2 DEF FirstAttemptOf, Before, Early, Written
      <4>4. step[j].of = "completed" => status[j] = "completed"
        BY <3>3, <4>1, <4>2, StepLabels DEF FirstAttemptOf, InHandler, Over, Terminal
      <4> QED BY <3>3, <4>1, <4>3, <4>4 DEF Terminal
    <3>4. CASE CommitStatus(j) /\ ~ (k = j /\ status[j] \in Terminal /\ tries[j] <= 1)
      BY <3>4 DEF CommitStatus, TypeOK
    <3>5. CASE status'[k] = status[k]
      BY <3>5
    <3> QED BY <2>2, <3>1, <3>2, <3>3, <3>4, <3>5
            DEF Actions, ReadQuota, Handler, Arq, Attempt, Fault, HealQuota, CountActive, EnqueueJob,
                StartAttempt, DropExhausted, FinishAttempt, LoadJob, CommitEvent,
                PublishEvent, Crawl, RequestFails, Timeout, Interrupt, Raise
  <2> QED BY <1>1, <2>1, <2>2 DEF Next, Actions
<1>2. TypeOK /\ AttemptInv /\ [Next]_vars => [\A k \in Jobs : StaysSettled(k)]_vars
  BY <1>1
<1> QED BY <1>2, TypeCorrect, AttemptInvariant, PTL DEF Spec, SettledStays

-----------------------------------------------------------------------------
(* The quota. *)

InFlightBound == \A o \in Orgs : Cardinality(InFlight(o)) <= MaxInFlight

LEMMA JobSets ==
    ASSUME NEW S, S \subseteq Jobs
    PROVE  IsFiniteSet(S) /\ Cardinality(S) \in Nat
  BY JobsAssumption, FS_Subset, FS_CardinalityType

LEMMA SmallerSet ==
    ASSUME NEW T, T \subseteq Jobs, NEW S, S \subseteq T
    PROVE  Cardinality(S) <= Cardinality(T)
  BY JobSets, FS_Subset

LEMMA InFlightInit == Init => InFlightBound
<1> SUFFICES ASSUME Init, NEW o \in Orgs
             PROVE  Cardinality(InFlight(o)) <= MaxInFlight
  BY DEF InFlightBound
<1>1. InFlight(o) = {}
  BY DEF Init, InFlight, Handling, Admitted
<1> QED BY <1>1, FS_EmptySet

\* Only ReadQuota lets a request in, and it counts first.
LEMMA InFlightStep ==
    ASSUME TypeOK, InFlightBound, [Next]_vars
    PROVE  InFlightBound'
<1> SUFFICES ASSUME NEW o \in Orgs
             PROVE  Cardinality(InFlight(o)') <= MaxInFlight
  BY DEF InFlightBound
<1>0. Cardinality(InFlight(o)) <= MaxInFlight /\ InFlight(o) \subseteq Jobs /\ InFlight(o)' \subseteq Jobs
  BY DEF InFlightBound, InFlight
<1>1. CASE InFlight(o)' \subseteq InFlight(o)
  BY <1>0, <1>1, SmallerSet, JobSets
<1>2. CASE UNCHANGED vars
  BY <1>1, <1>2 DEF vars, InFlight
<1>3. ASSUME NEW j \in Jobs, Actions(j)
      PROVE  Cardinality(InFlight(o)') <= MaxInFlight
  <2>1. CASE ReadQuota(j) /\ OrgOf[j] = o
    <3>1. InFlight(o)' \subseteq InFlight(o) \cup {j}
      BY <2>1 DEF ReadQuota, InFlight, TypeOK
    <3>2. Cardinality(InFlight(o) \cup {j}) <= Cardinality(InFlight(o)) + 1
      BY <1>0, JobSets, FS_AddElement
    <3>3. Cardinality(InFlight(o)') <= Cardinality(InFlight(o) \cup {j})
      BY <1>0, <3>1, SmallerSet
    <3>4. Cardinality(InFlight(o)) < MaxInFlight
      BY <2>1 DEF ReadQuota
    <3> QED BY <1>0, <3>2, <3>3, <3>4, JobSets
  <2>2. CASE ReadQuota(j) /\ OrgOf[j] # o
    BY <1>1, <2>2 DEF ReadQuota, InFlight, TypeOK
  <2>3. CASE Handler(j) \/ RequestFails(j)
    <3>1. InFlight(o)' \subseteq InFlight(o)
      BY <2>3 DEF Handler, HealQuota, CountActive, CreateJob, EnqueueJob, MarkQueued,
                  RequestFails, InFlight, Handling, Admitted, TypeOK
    <3> QED BY <3>1, <1>1
  <2>4. CASE UNCHANGED api
    BY <1>1, <2>4 DEF InFlight
  <2> QED BY <1>3, <2>1, <2>2, <2>3, <2>4
          DEF Actions, Arq, Attempt, Fault, StartAttempt, DropExhausted, FinishAttempt, LoadJob,
              CommitStatus, CommitEvent, PublishEvent, Crawl, Timeout, Interrupt, Raise
<1> QED BY <1>2, <1>3 DEF Next, Actions

\* The slots a check accounts for.
Counted(o) == Occupied(o) \ Redelivered

\* An active job stays counted while it is redelivered for the first time or
\* not at all, and no job takes a slot but by passing the check.
LEMMA SlotsAreChecked ==
    ASSUME TypeOK, AttemptInv, [Next]_vars, NEW o \in Orgs
    PROVE  \/ Counted(o)' \subseteq Counted(o)
           \/ /\ Counted(o)' \subseteq Active(o) \cup InFlight(o)'
              /\ Cardinality(Active(o)) < quota[o]
              /\ quota'[o] = quota[o]
<1> USE DEF Counted, Occupied, Active, Redelivered, TypeOK
<1>1. CASE UNCHANGED vars
  BY <1>1 DEF vars
<1>2. ASSUME NEW j \in Jobs, Actions(j)
      PROVE  \/ Counted(o)' \subseteq Counted(o)
             \/ /\ Counted(o)' \subseteq Active(o) \cup InFlight(o)'
                /\ Cardinality(Active(o)) < quota[o]
                /\ quota'[o] = quota[o]
  <2> USE DEF database, broker
  <2>1. CASE CountActive(j) /\ OrgOf[j] = o /\ Cardinality(Active(o)) < quota[o]
    <3>1. UNCHANGED <<quota, status, tries>> /\ api' = [api EXCEPT ![j] = "admitted"]
      <4>1. UNCHANGED <<quota, status, tries>>
        BY <2>1 DEF CountActive
      <4>2. Cardinality(Active(o)) \in Nat /\ quota[o] \in Nat
        <5>1. quota[o] # NoRow
          BY <2>1 DEF CountActive, AttemptInv, RowsExist
        <5> QED BY <5>1, JobSets
      <4>3. ~ (Cardinality(Active(o)) >= quota[o])
        BY <2>1, <4>2
      <4>4. api' = [api EXCEPT ![j] = IF Cardinality(Active(OrgOf[j])) >= quota[OrgOf[j]]
                                      THEN "rejected" ELSE "admitted"]
        BY <2>1 DEF CountActive
      <4> HIDE DEF Active
      <4>5. OrgOf[j] = o
        BY <2>1
      <4> QED BY <4>1, <4>3, <4>4, <4>5
    <3>2. Counted(o)' \subseteq Active(o) \cup InFlight(o)'
      BY <3>1 DEF Admitted, InFlight, Handling
    <3> QED BY <2>1, <3>1, <3>2
  <2>2. CASE CountActive(j) /\ ~ (OrgOf[j] = o /\ Cardinality(Active(o)) < quota[o])
    <3>1. UNCHANGED <<quota, status, tries>>
      BY <2>2 DEF CountActive
    <3>2. CASE OrgOf[j] # o
      BY <2>2, <3>1, <3>2 DEF CountActive, Admitted
    <3>3. CASE OrgOf[j] = o
      <4>1. Cardinality(Active(o)) \in Nat /\ quota[o] \in Nat
        <5>1. quota[o] # NoRow
          BY <2>2, <3>3 DEF CountActive, AttemptInv, RowsExist
        <5> QED BY <5>1, JobSets
      <4>2. Cardinality(Active(OrgOf[j])) >= quota[OrgOf[j]]
        BY <2>2, <3>3, <4>1
      <4>3. api' = [api EXCEPT ![j] = IF Cardinality(Active(OrgOf[j])) >= quota[OrgOf[j]]
                                      THEN "rejected" ELSE "admitted"]
        BY <2>2 DEF CountActive
      <4>4. api' = [api EXCEPT ![j] = "rejected"]
        BY <4>2, <4>3
      <4> QED BY <3>1, <4>4 DEF Admitted
    <3> QED BY <3>2, <3>3
  <2>3. CASE ReadQuota(j)
    BY <2>3 DEF ReadQuota, Admitted
  <2>4. CASE HealQuota(j)
    BY <2>4 DEF HealQuota, Admitted
  <2>5. CASE CreateJob(j)
    BY <2>5 DEF CreateJob, Admitted
  <2>6. CASE EnqueueJob(j)
    BY <2>6 DEF EnqueueJob, Admitted
  <2>7. CASE MarkQueued(j)
    BY <2>7 DEF MarkQueued, Admitted
  <2>8. CASE RequestFails(j)
    BY <2>8 DEF RequestFails, Admitted
  <2>9. CASE StartAttempt(j)
    BY <2>9 DEF StartAttempt
  <2>10. CASE CommitStatus(j)
    <3>1. step[j] = Write(step[j].of) /\ step[j].of \in Written /\ step[j] # Idle
      BY <2>10, StepKinds, StepLabels DEF CommitStatus
    <3>2. status[j] # "absent"
      BY <3>1 DEF AttemptInv, RowsExist, QueuedJobsExist, Running
    <3>3. tries[j] <= 1 /\ step[j].of \notin Terminal => status[j] \notin Terminal
      BY <3>1 DEF AttemptInv, FirstAttempt, FirstAttemptOf, Before, Early, Written
    <3>4. UNCHANGED <<api, tries>> /\ status' = [status EXCEPT ![j] = step[j].of]
      BY <2>10 DEF CommitStatus
    <3> QED BY <3>1, <3>2, <3>3, <3>4 DEF Admitted
  <2>11. CASE UNCHANGED <<api, status, tries>>
    BY <2>11
  <2> QED BY <1>2, <2>1, <2>2, <2>3, <2>4, <2>5, <2>6, <2>7, <2>8, <2>9, <2>10, <2>11
          DEF Actions, Handler, Arq, Attempt, Fault, DropExhausted, FinishAttempt, LoadJob,
              CommitEvent, PublishEvent, Crawl, Timeout, Interrupt, Raise
<1> QED BY <1>1, <1>2 DEF Next, Actions

LEMMA OvershootInit == Init => QuotaOvershoot
<1> SUFFICES ASSUME Init, NEW o \in Orgs
             PROVE  Occupied(o) = {} /\ (quota[o] # NoRow =>
                        Cardinality(Counted(o)) <= quota[o] + MaxInFlight - 1)
  BY DEF QuotaOvershoot, Counted
<1>1. Occupied(o) = {} /\ Counted(o) = {}
  BY DEF Init, Occupied, Active, Admitted, Counted
<1>2. quota[o] # NoRow => quota[o] \in Nat \ {0}
  BY DEF Init
<1> QED BY <1>1, <1>2, FS_EmptySet

LEMMA OvershootStep ==
    ASSUME TypeOK, AttemptInv, AttemptInv', InFlightBound, InFlightBound', QuotaOvershoot,
           TypeOK', [Next]_vars
    PROVE  QuotaOvershoot'
<1> SUFFICES ASSUME NEW o \in Orgs
             PROVE  IF quota'[o] = NoRow
                    THEN Occupied(o)' = {}
                    ELSE Cardinality(Counted(o)') <= quota'[o] + MaxInFlight - 1
  BY DEF QuotaOvershoot, Counted
<1>1. CASE quota'[o] = NoRow
  BY <1>1 DEF AttemptInv, RowsExist, Occupied, Active, Admitted
<1>2. CASE quota'[o] # NoRow
  <2>1. quota'[o] \in Nat \ {0}
    BY <1>2 DEF TypeOK
  <2>2. Counted(o) \subseteq Jobs /\ Counted(o)' \subseteq Jobs
        /\ Active(o) \subseteq Jobs /\ InFlight(o)' \subseteq Jobs
    BY DEF Counted, Occupied, Active, InFlight
  <2>3. CASE Counted(o)' \subseteq Counted(o)
    <3>1. CASE quota[o] = NoRow
      <4>1. Counted(o) = {}
        BY <3>1 DEF QuotaOvershoot, Counted
      <4>2. Cardinality(Counted(o)') = 0
        BY <2>3, <4>1, FS_EmptySet
      <4> QED BY <1>2, <2>1, <4>2
    <3>2. CASE quota[o] # NoRow
      <4>1. quota'[o] = quota[o]
        <5>1. CASE UNCHANGED vars
          BY <5>1 DEF vars
        <5>2. ASSUME NEW j \in Jobs, Actions(j)
              PROVE  quota'[o] = quota[o]
          BY <3>2, <5>2
             DEF TypeOK, Actions, ReadQuota, Handler, Arq, Attempt, Fault, HealQuota, CountActive,
                 CreateJob, EnqueueJob, MarkQueued, StartAttempt, DropExhausted, FinishAttempt,
                 LoadJob, CommitStatus, CommitEvent, PublishEvent, Crawl, RequestFails, Timeout,
                 Interrupt, Raise, database
        <5> QED BY <5>1, <5>2 DEF Next, Actions
      <4>2. Cardinality(Counted(o)) <= quota[o] + MaxInFlight - 1
        BY <3>2 DEF QuotaOvershoot, Counted
      <4> QED BY <1>2, <2>1, <2>2, <2>3, <4>1, <4>2, SmallerSet, JobSets
    <3> QED BY <3>1, <3>2
  <2>4. CASE /\ Counted(o)' \subseteq Active(o) \cup InFlight(o)'
             /\ Cardinality(Active(o)) < quota[o]
             /\ quota'[o] = quota[o]
    <3> DEFINE A == Active(o)
               F == InFlight(o)'
    <3>1. Cardinality(F) <= MaxInFlight
      BY DEF InFlightBound
    <3>2. Cardinality(A \cup F) <= Cardinality(A) + Cardinality(F)
      <4>1. IsFiniteSet(A) /\ IsFiniteSet(F) /\ IsFiniteSet(A \cap F)
        BY <2>2, JobSets
      <4>2. Cardinality(A \cup F) = Cardinality(A) + Cardinality(F) - Cardinality(A \cap F)
        BY <4>1, FS_Union
      <4>3. Cardinality(A) \in Nat /\ Cardinality(F) \in Nat /\ Cardinality(A \cap F) \in Nat
        BY <4>1, FS_CardinalityType
      <4> HIDE DEF A, F
      <4> QED BY <4>2, <4>3
    <3>3. Cardinality(Counted(o)') <= Cardinality(A \cup F)
      BY <2>2, <2>4, SmallerSet
    <3>4. Cardinality(A) \in Nat /\ Cardinality(F) \in Nat /\ Cardinality(A \cup F) \in Nat
          /\ Cardinality(Counted(o)') \in Nat
      BY <2>2, JobSets
    <3>5. Cardinality(A) < quota'[o]
      BY <2>4
    <3> HIDE DEF A, F
    <3> QED BY <1>2, <2>1, <3>1, <3>2, <3>3, <3>4, <3>5
  <2> QED BY <2>3, <2>4, SlotsAreChecked
<1> QED BY <1>1, <1>2

\* The quota check, for any number of requests in flight: the slots taken
\* exceed the limit by fewer than there are requests.
THEOREM QuotaOvershootBounded == Spec => []QuotaOvershoot
<1>1. Init => InFlightBound /\ QuotaOvershoot
  BY InFlightInit, OvershootInit
<1>2. TypeOK /\ InFlightBound /\ [Next]_vars => InFlightBound'
  BY InFlightStep
<1>3. /\ TypeOK /\ TypeOK' /\ AttemptInv /\ AttemptInv' /\ InFlightBound /\ InFlightBound'
      /\ QuotaOvershoot /\ [Next]_vars
      => QuotaOvershoot'
  BY OvershootStep
<1> QED BY <1>1, <1>2, <1>3, TypeCorrect, AttemptInvariant, PTL DEF Spec

-----------------------------------------------------------------------------
(* Slots that are never given back. *)

Unsettled(j) == status[j] \notin Terminal \cup {"absent", "queued"}

\* Jobs that are given up: out of the queue, or about to leave it without
\* another word. LeaksCostAFault is not inductive, for a job is lost when its
\* last attempt is interrupted or its handler fails, and leaks some steps later.
Lost == {j \in Jobs :
            /\ Unsettled(j)
            /\ \/ api[j] \in {"enqueued"} \cup Answers /\ j \notin queue
               \/ step[j] = Return
               \/ step[j] = Idle /\ tries[j] = MaxTries}

\* An attempt that has nothing left to write has settled its job.
LastWords == {"completed", "research.completed", "failed", "research.failed"}
SettledBy(j) == step[j].of \in LastWords /\ step[j].op # "write" => ~ Unsettled(j)

LEMMA SettledByStep ==
    ASSUME TypeOK, RowsExist, \A k \in Jobs : SettledBy(k), NEW j \in Jobs, Actions(j), NEW k \in Jobs
    PROVE  SettledBy(k)'
<1> USE DEF SettledBy, Unsettled, database
<1>0. step[j] \in Steps /\ step \in [Jobs -> Steps] /\ status \in [Jobs -> Statuses \cup {"absent"}]
  BY DEF TypeOK
<1>1. CASE step'[k] = step[k] /\ (status'[k] = status[k] \/ status'[k] = "queued")
  BY <1>1
<1>2. CASE status'[k] = status[k] /\ step'[k].of \notin LastWords
  BY <1>2
<1>3. CASE k = j /\ CreateJob(j)
  <2>1. status[j] = "absent" /\ step' = step
    BY <1>3 DEF CreateJob, RowsExist, Admitted
  <2>2. step[j] = Idle
    BY <2>1 DEF RowsExist, QueuedJobsExist, Running
  <2> QED
    BY <1>3, <2>1, <2>2, StepLabels DEF LastWords
<1>4. CASE k = j /\ CommitStatus(j)
  <2>1. step[j].of \in Written /\ status'[k] = step[j].of /\ step'[k].of = step[j].of
    BY <1>0, <1>4, StepKinds, StepLabels DEF CommitStatus
  <2> QED
    BY <2>1 DEF LastWords, Written, Terminal
<1>5. CASE k = j /\ CommitEvent(j)
  <2>1. step[j].op # "write" /\ step'[k].of = step[j].of /\ status' = status
    BY <1>0, <1>5, StepLabels DEF CommitEvent
  <2> QED
    BY <1>5, <2>1
<1>6. CASE k = j /\ PublishEvent(j)
  <2>1. PICK next \in Steps : <<step[j].of, next>> \in Script /\ step'[j] = next
    BY <1>0, <1>6 DEF PublishEvent
  <2>2. next.of \in LastWords => next.op = "write" \/ step[j].of \in LastWords
    BY <2>1, StepLabels DEF Script, SearchScript, CrawlScript, EndScript, FailScript, LastWords
  <2> QED
    BY <1>6, <2>1, <2>2 DEF PublishEvent
<1>7. CASE k = j /\ (Arq(j) \/ LoadJob(j) \/ Crawl(j) \/ Fault(j))
  BY <1>0, <1>1, <1>2, <1>7, StepLabels
     DEF Arq, StartAttempt, DropExhausted, FinishAttempt, LoadJob, Crawl,
         Fault, RequestFails, Timeout, Interrupt, Raise, LastWords
<1>8. CASE k = j /\ (ReadQuota(j) \/ HealQuota(j) \/ CountActive(j) \/ EnqueueJob(j) \/ MarkQueued(j))
  BY <1>0, <1>1, <1>8 DEF ReadQuota, HealQuota, CountActive, EnqueueJob, MarkQueued
<1>9. CASE k # j
  <2>1. step'[k] = step[k] /\ status'[k] = status[k]
    BY <1>0, <1>9 DEF Actions, ReadQuota, Handler, HealQuota, CountActive, CreateJob, EnqueueJob, MarkQueued,
         Arq, StartAttempt, DropExhausted, FinishAttempt, Attempt, LoadJob, CommitStatus, CommitEvent,
         PublishEvent, Crawl, Fault, RequestFails, Timeout, Interrupt, Raise
  <2> QED
    BY <1>1, <2>1
<1> QED
  BY <1>3, <1>4, <1>5, <1>6, <1>7, <1>8, <1>9 DEF Actions, Handler, Attempt

\* Only a fault loses a job, and it loses one.
LEMMA LosesCostAFault ==
    ASSUME TypeOK, RowsExist, \A k \in Jobs : SettledBy(k), NEW j \in Jobs, Actions(j)
    PROVE  \/ Lost' \subseteq Lost /\ faults' = faults
           \/ Lost' \subseteq Lost \cup {j} /\ faults' = faults + 1
<1> USE DEF database, broker
<1>0. /\ step[j] \in Steps /\ step \in [Jobs -> Steps] /\ status \in [Jobs -> Statuses \cup {"absent"}]
      /\ tries \in [Jobs -> 0 .. MaxTries] /\ faults \in Nat /\ queue \subseteq Jobs
      /\ api \in [Jobs -> {"idle"} \cup Handling \cup Answers]
  BY DEF TypeOK
<1>1. Lost' \subseteq Lost \cup {j}
  <2> SUFFICES ASSUME NEW k \in Jobs, k # j
               PROVE  k \in Lost' => k \in Lost
    BY DEF Lost
  <2>1. /\ step'[k] = step[k] /\ status'[k] = status[k] /\ api'[k] = api[k] /\ tries'[k] = tries[k]
        /\ k \in queue' <=> k \in queue
    BY <1>0 DEF Actions, ReadQuota, Handler, HealQuota, CountActive, CreateJob, EnqueueJob, MarkQueued,
         Arq, StartAttempt, DropExhausted, FinishAttempt, Attempt, LoadJob, CommitStatus, CommitEvent,
         PublishEvent, Crawl, Fault, RequestFails, Timeout, Interrupt, Raise
  <2> QED
    BY <2>1 DEF Lost, Unsettled
<1>2. CASE Fault(j)
  BY <1>1, <1>2 DEF Fault, RequestFails, Timeout, Interrupt, Raise
<1>3. ASSUME j \in Lost' => j \in Lost, faults' = faults
      PROVE  Lost' \subseteq Lost /\ faults' = faults
  BY <1>0, <1>1, <1>3
<1>4. CASE ReadQuota(j) \/ HealQuota(j) \/ CountActive(j)
  <2>1. status[j] = "absent" /\ status' = status /\ faults' = faults
    BY <1>4 DEF ReadQuota, HealQuota, CountActive, RowsExist
  <2> QED
    BY <1>3, <2>1 DEF Lost, Unsettled
<1>5. CASE CreateJob(j)
  <2>1. /\ status[j] = "absent" /\ tries[j] = 0 /\ step' = step /\ api'[j] = "created"
        /\ tries' = tries /\ faults' = faults
    BY <1>0, <1>5 DEF CreateJob, RowsExist, Admitted
  <2>2. step[j] = Idle
    BY <2>1 DEF RowsExist, QueuedJobsExist, Running
  <2>3. j \notin Lost'
    BY <2>1, <2>2, StepLabels DEF Lost, Answers
  <2> QED
    BY <1>3, <2>1, <2>3
<1>6. CASE EnqueueJob(j)
  BY <1>0, <1>3, <1>6 DEF EnqueueJob, Lost, Unsettled
<1>7. CASE MarkQueued(j)
  BY <1>0, <1>3, <1>7 DEF MarkQueued, Lost, Unsettled
<1>8. CASE StartAttempt(j)
  <2>1. /\ step'[j] = Load /\ j \in queue /\ queue' = queue /\ status' = status /\ api' = api
        /\ faults' = faults
    BY <1>0, <1>8 DEF StartAttempt
  <2>2. j \notin Lost'
    BY <2>1, StepLabels DEF Lost
  <2> QED
    BY <1>3, <2>1, <2>2
<1>9. CASE DropExhausted(j)
  BY <1>3, <1>9 DEF DropExhausted, Lost, Unsettled
<1>10. CASE FinishAttempt(j)
  BY <1>3, <1>10 DEF FinishAttempt, Lost, Unsettled
<1>11. CASE Attempt(j)
  <2>1. /\ j \in queue /\ queue' = queue /\ faults' = faults /\ step[j] \notin {Idle, Return}
        /\ status[j] # "absent"
    <3>1. /\ step[j] \notin {Idle, Return} /\ queue' = queue /\ faults' = faults
      BY <1>0, <1>11, StepLabels, StepKinds
         DEF Attempt, LoadJob, CommitStatus, CommitEvent, PublishEvent, Crawl, Idle, Return
    <3> QED
      BY <3>1 DEF RowsExist, QueuedJobsExist, Running
  <2>2. step'[j] = Return => ~ Unsettled(j) /\ status' = status
    <3>1. CASE LoadJob(j)
      BY <1>0, <2>1, <3>1, StepLabels DEF LoadJob
    <3>2. CASE CommitStatus(j) \/ CommitEvent(j) \/ Crawl(j)
      BY <1>0, <3>2, StepLabels DEF CommitStatus, CommitEvent, Crawl
    <3>3. CASE PublishEvent(j)
      <4>1. PICK next \in Steps : <<step[j].of, next>> \in Script /\ step'[j] = next
        BY <1>0, <3>3 DEF PublishEvent
      <4>2. next = Return => step[j].of \in LastWords
        BY <4>1, StepLabels DEF Script, SearchScript, CrawlScript, EndScript, FailScript, LastWords
      <4> QED
        BY <3>3, <4>1, <4>2 DEF PublishEvent, SettledBy
    <3> QED
      BY <1>11, <3>1, <3>2, <3>3 DEF Attempt
  <2>3. step'[j] # Idle
    <3>1. CASE LoadJob(j) \/ CommitStatus(j) \/ CommitEvent(j) \/ Crawl(j)
      BY <1>0, <3>1, StepLabels DEF LoadJob, CommitStatus, CommitEvent, Crawl
    <3>2. CASE PublishEvent(j)
      BY <1>0, <3>2, StepLabels DEF PublishEvent, Script, SearchScript, CrawlScript, EndScript, FailScript
    <3> QED
      BY <1>11, <3>1, <3>2 DEF Attempt
  <2>4. j \notin Lost'
    BY <2>1, <2>2, <2>3 DEF Lost, Unsettled
  <2> QED
    BY <1>3, <2>1, <2>4
<1> QED
  BY <1>2, <1>4, <1>5, <1>6, <1>7, <1>8, <1>9, <1>10, <1>11 DEF Actions, Handler, Arq

LossBound == (\A k \in Jobs : SettledBy(k)) /\ Cardinality(Lost) <= faults

LEMMA LossStep ==
    ASSUME TypeOK, RowsExist, LossBound, [Next]_vars
    PROVE  LossBound'
<1>1. CASE UNCHANGED vars
  BY <1>1 DEF vars, LossBound, SettledBy, Lost, Unsettled
<1>2. ASSUME NEW j \in Jobs, Actions(j)
      PROVE  LossBound'
  <2>1. Lost \subseteq Jobs /\ Lost' \subseteq Jobs /\ faults \in Nat
    BY DEF Lost, TypeOK
  <2>2. /\ IsFiniteSet(Lost) /\ Cardinality(Lost) \in Nat /\ Cardinality(Lost') \in Nat
        /\ Cardinality(Lost \cup {j}) <= Cardinality(Lost) + 1
    BY <2>1, JobSets, FS_AddElement
  <2>3. CASE Lost' \subseteq Lost /\ faults' = faults
    <3>1. Cardinality(Lost') <= Cardinality(Lost)
      BY <2>1, <2>3, SmallerSet
    <3> QED
      BY <1>2, <2>1, <2>2, <2>3, <3>1, SettledByStep DEF LossBound
  <2>4. CASE Lost' \subseteq Lost \cup {j} /\ faults' = faults + 1
    <3>1. Cardinality(Lost') <= Cardinality(Lost \cup {j}) /\ Cardinality(Lost \cup {j}) \in Nat
      BY <2>1, <2>4, SmallerSet, JobSets
    <3> QED
      BY <1>2, <2>1, <2>2, <2>4, <3>1, SettledByStep DEF LossBound
  <2> QED
    BY <1>2, <2>3, <2>4, LosesCostAFault DEF LossBound
<1> QED
  BY <1>1, <1>2 DEF Next, Actions

\* A slot that nobody will ever give back has cost a fault, for any number of
\* jobs, attempts and faults: no path of the code forgets to settle a job.
THEOREM LeaksAreFaults == Spec => []LeaksCostAFault
<1>1. Init => LossBound
  <2> SUFFICES ASSUME Init
               PROVE  LossBound
    OBVIOUS
  <2>1. Lost = {} /\ \A k \in Jobs : SettledBy(k)
    BY DEF Init, Lost, Unsettled, SettledBy
  <2> QED
    BY <2>1, FS_EmptySet DEF Init, LossBound
<1>2. TypeOK /\ RowsExist /\ LossBound /\ [Next]_vars => LossBound'
  BY LossStep
<1>3. TypeOK /\ LossBound => LeaksCostAFault
  <2> SUFFICES ASSUME TypeOK, LossBound
               PROVE  Cardinality(Leaked) <= faults
    BY DEF LeaksCostAFault
  <2>1. Leaked \subseteq Lost /\ Lost \subseteq Jobs
    BY DEF Leaked, Lost, Unsettled
  <2>2. Cardinality(Leaked) <= Cardinality(Lost) /\ Cardinality(Leaked) \in Nat /\ Cardinality(Lost) \in Nat
    BY <2>1, SmallerSet, JobSets
  <2> QED
    BY <2>2 DEF LossBound, TypeOK
<1>4. AttemptInv => RowsExist
  BY DEF AttemptInv
<1> QED
  BY <1>1, <1>2, <1>3, <1>4, TypeCorrect, AttemptInvariant, PTL DEF Spec

-----------------------------------------------------------------------------
(* JobLifecycle implements JobProgress. *)

\* What is in the log by the time an attempt stands at a step: the event it
\* publishes, and the forerunner of the status it is about to write. The last
\* disjunct carries the end of the search through the crawl.
AfterSearch == {"sources.discovered", "crawling", "crawl.stopped_early", "extracting", "completed"}
Needs(s) ==
    {e \in Events : \/ s = Publish(e)
                    \/ e = "sources.discovered" /\ s = Write("crawling")
                    \/ /\ e = "crawling"
                       /\ s \in {Crawling, Write("extracting")} \/ s.of = "crawl.stopped_early"
                    \/ e = "search.completed" /\ (s = Crawling \/ s.of \in AfterSearch)}

Prepared(j) == \A e \in Needs(step[j]) : Logged(j, e)
AllPrepared == \A j \in Jobs : Prepared(j)

\* No step needs more than the step before it, but for the event it commits.
LEMMA NeedsLittle ==
    /\ \A s \in {Idle, Load, Return, Write("searching"), Write("failed")} : Needs(s) = {}
    /\ \A w \in Written : Needs(Log(w)) \subseteq Needs(Write(w))
    /\ \A e \in Events : Needs(Publish(e)) \subseteq Needs(Log(e)) \cup {e}
    /\ \A s \in {Log("crawl.stopped_early"), Write("extracting")} : Needs(s) \subseteq Needs(Crawling)
<1> USE DEF Needs, AfterSearch, Idle, Load, Return, Crawling, Write, Log, Publish
<1>1. \A s \in {Idle, Load, Return, Write("searching"), Write("failed")} : Needs(s) = {}
  OBVIOUS
<1>2. \A w \in Written : Needs(Log(w)) \subseteq Needs(Write(w))
  OBVIOUS
<1>3. \A e \in Events : Needs(Publish(e)) \subseteq Needs(Log(e)) \cup {e}
  OBVIOUS
<1>4. \A s \in {Log("crawl.stopped_early"), Write("extracting")} : Needs(s) \subseteq Needs(Crawling)
  OBVIOUS
<1> QED
  BY <1>1, <1>2, <1>3, <1>4

\* The step after an event needs no more than its publishing did.
LEMMA ScriptNeeds ==
    ASSUME NEW e \in Events, NEW next, <<e, next>> \in Script
    PROVE  Needs(next) \subseteq Needs(Publish(e))
<1> USE DEF Needs, AfterSearch, Idle, Load, Return, Crawling, Write, Log, Publish
<1>1. CASE <<e, next>> \in SearchScript
  BY <1>1 DEF SearchScript
<1>2. CASE <<e, next>> \in CrawlScript
  BY <1>2 DEF CrawlScript
<1>3. CASE <<e, next>> \in EndScript
  BY <1>3 DEF EndScript
<1>4. CASE <<e, next>> \in FailScript
  BY <1>4 DEF FailScript
<1> QED
  BY <1>1, <1>2, <1>3, <1>4 DEF Script

\* A status with a forerunner is written only where that event is needed.
LEMMA StatusNeedsForerunner ==
    ASSUME NEW w \in DOMAIN Forerunner
    PROVE  Forerunner[w] \in Needs(Write(w))
  BY DEF Forerunner, Needs, AfterSearch, Events, Written, Crawling, Write, Publish

\* An idle step needs nothing.
LEMMA PreparedInit == Init => \A j \in Jobs : Prepared(j)
  BY NeedsLittle DEF Init, Prepared

\* Nothing leaves the log.
LEMMA LogGrows ==
    ASSUME TypeOK, NEW j \in Jobs, Actions(j), NEW k \in Jobs, NEW e, Logged(k, e)
    PROVE  Logged(k, e)'
<1>1. CASE CommitEvent(j)
  BY <1>1, LoggedAppend
<1>2. CASE UNCHANGED log
  BY <1>2 DEF Logged
<1> QED
  BY <1>1, <1>2 DEF Actions, ReadQuota, Handler, HealQuota, CountActive, CreateJob, EnqueueJob, MarkQueued,
       Arq, StartAttempt, DropExhausted, FinishAttempt, Attempt, LoadJob, CommitStatus, PublishEvent, Crawl,
       Fault, RequestFails, Timeout, Interrupt, Raise, database

\* An action moves the attempt of its own job only.
LEMMA OwnStep ==
    ASSUME TypeOK, NEW j \in Jobs, Actions(j), NEW k \in Jobs, k # j
    PROVE  step'[k] = step[k] /\ status'[k] = status[k] /\ log'[k] = log[k]
<1> USE DEF TypeOK, database
<1>1. CASE ReadQuota(j) \/ Handler(j)
  BY <1>1 DEF ReadQuota, Handler, HealQuota, CountActive, CreateJob, EnqueueJob, MarkQueued
<1>2. CASE Arq(j) \/ Fault(j)
  BY <1>2 DEF Arq, StartAttempt, DropExhausted, FinishAttempt, Fault, RequestFails, Timeout, Interrupt, Raise
<1>3. CASE Attempt(j)
  BY <1>3 DEF Attempt, LoadJob, CommitStatus, CommitEvent, PublishEvent, Crawl
<1> QED
  BY <1>1, <1>2, <1>3 DEF Actions

\* The log of a job has what its step needs, whatever any job does.
LEMMA PreparedStep ==
    ASSUME TypeOK, \A k \in Jobs : Prepared(k), NEW j \in Jobs, Actions(j)
    PROVE  \A k \in Jobs : Prepared(k)'
<1>0. \A k \in Jobs \ {j} : Prepared(k)'
  BY OwnStep, LogGrows DEF Prepared
<1> SUFFICES Prepared(j)'
  BY <1>0
<1>1. step[j] \in Steps /\ step \in [Jobs -> Steps]
  BY DEF TypeOK
<1>2. ASSUME Needs(step'[j]) \subseteq Needs(step[j])
      PROVE  Prepared(j)'
  <2>1. \A e \in Needs(step[j]) : Logged(j, e)'
    BY LogGrows DEF Prepared
  <2> QED
    BY <1>2, <2>1 DEF Prepared
<1>3. CASE step'[j] \in {step[j], Idle, Load, Return, Write("searching"), Write("failed")}
  BY <1>2, <1>3, NeedsLittle
<1>4. CASE CommitStatus(j)
  <2>1. step[j] = Write(step[j].of) /\ step[j].of \in Written /\ step'[j] = Log(step[j].of)
    BY <1>1, <1>4, StepKinds DEF CommitStatus
  <2> QED
    BY <1>2, <2>1, NeedsLittle
<1>5. CASE CommitEvent(j)
  <2>1. step[j] = Log(step[j].of) /\ step[j].of \in Events /\ step'[j] = Publish(step[j].of)
    BY <1>1, <1>5, StepKinds DEF CommitEvent
  <2>2. Needs(step'[j]) \subseteq Needs(step[j]) \cup {step[j].of}
    BY <2>1, NeedsLittle
  <2>3. \A e : e \in Needs(step[j]) \/ e = step[j].of => Logged(j, e)'
    BY <1>5, LoggedAppend DEF Prepared
  <2> QED
    BY <2>2, <2>3 DEF Prepared
<1>6. CASE PublishEvent(j)
  <2>1. PICK next \in Steps : <<step[j].of, next>> \in Script /\ step'[j] = next
    BY <1>1, <1>6 DEF PublishEvent
  <2>2. step[j] = Publish(step[j].of) /\ step[j].of \in Events
    BY <1>1, <1>6, StepKinds DEF PublishEvent
  <2> QED
    BY <1>2, <2>1, <2>2, ScriptNeeds
<1>7. CASE Crawl(j)
  BY <1>1, <1>2, <1>7, NeedsLittle DEF Crawl
<1>8. CASE ReadQuota(j) \/ Handler(j)
  BY <1>3, <1>8 DEF ReadQuota, Handler, HealQuota, CountActive, CreateJob, EnqueueJob, MarkQueued
<1>9. CASE Arq(j) \/ LoadJob(j) \/ Fault(j)
  BY <1>1, <1>3, <1>9 DEF Arq, StartAttempt, DropExhausted, FinishAttempt, LoadJob,
                          Fault, RequestFails, Timeout, Interrupt, Raise
<1> QED
  BY <1>4, <1>5, <1>6, <1>7, <1>8, <1>9 DEF Actions, Attempt

\* A job that is not there has made no progress.
LEMMA Initially == Init => \A j \in Jobs : Progress(j)!JobInit
  BY StepLabels DEF Init, Progress!JobInit, Idle

\* Every step of a job is one of JobProgress, or none there.
LEMMA Stepwise ==
    ASSUME TypeOK, \A k \in Jobs : Prepared(k), NEW j \in Jobs, Actions(j), NEW k \in Jobs
    PROVE  [Progress(k)!JobNext]_(Progress(k)!jobVars)
<1> USE DEF Progress!JobNext, Progress!jobVars, TypeOK
<1>0. step[k] \in Steps /\ Prepared(k)
  OBVIOUS
<1>1. CASE status'[k] = status[k] /\ log'[k] = log[k] /\ step'[k] = step[k]
  BY <1>1
<1>2. CASE /\ status'[k] = status[k] /\ log'[k] = log[k] /\ step'[k].op # "publish"
  BY <1>0, <1>2, StepKinds DEF Progress!Publish, Events, Written, Terminal
<1>3. CASE k = j /\ (CreateJob(j) \/ MarkQueued(j))
  <2>1. /\ status'[k] \in {"created", "queued"} /\ log'[k] = log[k] /\ step'[k] = step[k]
    BY <1>3 DEF CreateJob, MarkQueued
  <2> QED
    BY <2>1 DEF Progress!SetStatus, Forerunner, Statuses
<1>4. CASE k = j /\ CommitStatus(j)
  <2>1. /\ step[k] = Write(step[k].of) /\ step[k].of \in Written /\ step'[k] = Log(step[k].of)
        /\ status'[k] = step[k].of /\ log'[k] = log[k]
    BY <1>0, <1>4, StepKinds DEF CommitStatus
  <2>2. step[k].of \in DOMAIN Forerunner => Logged(k, Forerunner[step[k].of])
    BY <1>0, <2>1, StatusNeedsForerunner DEF Prepared
  <2>3. step[k].op # "publish" /\ step'[k].op # "publish"
    BY <2>1, StepLabels
  <2> QED
    BY <2>1, <2>2, <2>3 DEF Progress!SetStatus, Progress!In, Logged, Statuses
<1>5. CASE k = j /\ CommitEvent(j)
  <2>1. /\ step[k] = Log(step[k].of) /\ step[k].of \in Events /\ step'[k] = Publish(step[k].of)
        /\ status'[k] = status[k] /\ log'[k] = Append(log[k], step[k].of)
    BY <1>0, <1>5, StepKinds DEF CommitEvent
  <2>2. step[k].op # "publish" /\ step'[k].op = "publish" /\ step'[k].of = step[k].of
    BY <2>1, StepLabels
  <2> QED
    BY <2>1, <2>2 DEF Progress!Record
<1>6. CASE k = j /\ PublishEvent(j)
  <2>1. PICK next \in Steps : <<step[j].of, next>> \in Script /\ step'[j] = next
    BY <1>6 DEF PublishEvent
  <2>2. next.op # "publish"
    BY <2>1, StepLabels DEF Script, SearchScript, CrawlScript, EndScript, FailScript, Return, Crawling
  <2> QED
    BY <1>2, <1>6, <2>1, <2>2 DEF PublishEvent, database
<1>7. CASE k = j /\ (LoadJob(j) \/ Crawl(j))
  BY <1>2, <1>7, StepLabels DEF LoadJob, Crawl, database, Return
<1>8. CASE k = j /\ (Arq(j) \/ Fault(j))
  BY <1>1, <1>2, <1>8, StepLabels
     DEF Arq, StartAttempt, DropExhausted, FinishAttempt, Fault, RequestFails, Timeout, Interrupt, Raise,
         database, Idle, Load, Return
<1>9. CASE k = j /\ (ReadQuota(j) \/ HealQuota(j) \/ CountActive(j) \/ EnqueueJob(j))
  BY <1>1, <1>9 DEF ReadQuota, HealQuota, CountActive, EnqueueJob, database
<1>10. CASE k # j
  BY <1>1, <1>10, OwnStep
<1> QED
  BY <1>3, <1>4, <1>5, <1>6, <1>7, <1>8, <1>9, <1>10 DEF Actions, Handler, Attempt

\* JobLifecycle implements JobProgress, for every job: events are published
\* after their row or never, one at a time, and no status is ahead of the log.
THEOREM JobsFollowProgress == Spec => FollowsProgress
<1>1. TypeOK /\ AllPrepared /\ [Next]_vars => AllPrepared'
  <2>1. UNCHANGED vars /\ AllPrepared => AllPrepared'
    BY DEF vars, AllPrepared, Prepared, Logged
  <2> QED
    BY <2>1, PreparedStep DEF AllPrepared, Next, Actions
<1>2. TypeOK /\ AllPrepared /\ [Next]_vars
         => [\A j \in Jobs : [Progress(j)!JobNext]_(Progress(j)!jobVars)]_vars
  BY Stepwise DEF AllPrepared, Next, Actions
<1>3. Init => AllPrepared
  BY PreparedInit DEF AllPrepared
<1>4. Init => \A j \in Jobs : Progress(j)!JobInit
  BY Initially
<1>5. Spec => [][\A j \in Jobs : [Progress(j)!JobNext]_(Progress(j)!jobVars)]_vars
  BY <1>1, <1>2, <1>3, TypeCorrect, PTL DEF Spec
<1>6. Spec => \A j \in Jobs : Progress(j)!JobInit
  BY <1>4 DEF Spec
<1> QED
  BY <1>5, <1>6 DEF FollowsProgress
=============================================================================
