--------------------------- MODULE SessionProofs ---------------------------
(***************************************************************************)
(* Safety of Session for any users, any requests and any number of token   *)
(* pairs.                                                                  *)
(***************************************************************************)
EXTENDS Session, TLAPS

USE SessionAssumption

\* The shape of the variables, and of a refresh: one that is in flight was
\* sent with a token and has got nothing yet.
Shape ==
    /\ SessionTypeOK
    /\ refresh.at = "none" <=> refresh = NoRefresh
    /\ refresh.at # "none" => refresh.with # 0
    /\ refresh.at = "sent" => refresh.got = 0

\* A refresh belongs to the user of the store, unless that has changed since.
SameUser ==
    /\ ~overtaken /\ refresh.at # "none" => owner[refresh.with] = chosen
    /\ refresh.got # 0 => owner[refresh.got] = owner[refresh.with]

\* Nobody has seen the pair that a refresh has got.
FreshPair ==
    refresh.got # 0 =>
        /\ store.access # refresh.got /\ form # refresh.got
        /\ \A r \in Requests : call[r].token # refresh.got

SessionInv == Shape /\ SameUser /\ FreshPair /\ SessionIsTheChosenOne

\* Nobody is signed in and nothing is in flight.
LEMMA InvInit == SessionInit => SessionInv
<1> SUFFICES ASSUME SessionInit
             PROVE  SessionInv
  OBVIOUS
<1> USE DEF SessionInit, SignedOut, NoRefresh, Unsent, issued
<1>1. SessionTypeOK
  <2>1. owner \in Seq(Users) /\ Len(owner) = 0
    OBVIOUS
  <2>2. call \in [Requests -> [at : {"unsent", "sent", "refused", "waiting", "done"},
                               token : 0 .. issued, retried : BOOLEAN]]
    BY <2>1
  <2>3. refresh \in [at : {"none", "sent", "answered"}, with : 0 .. issued, got : 0 .. issued]
    BY <2>1
  <2>4. store \in [access : 0 .. issued, refresh : 0 .. issued] /\ store.access = store.refresh
    BY <2>1
  <2>5. issued <= MaxPairs /\ expired \subseteq 1 .. issued /\ form \in 0 .. issued
    BY <2>1
  <2>6. \A r \in Requests : call[r].at # "waiting"
    OBVIOUS
  <2> QED
    BY <2>1, <2>2, <2>3, <2>4, <2>5, <2>6 DEF SessionTypeOK
<1>2. Shape
  BY <1>1 DEF Shape
<1>3. SameUser /\ FreshPair /\ SessionIsTheChosenOne
  BY DEF SameUser, FreshPair, SessionIsTheChosenOne
<1> QED
  BY <1>2, <1>3 DEF SessionInv

\* The next pair is the first that is numbered so, and the others keep theirs.
LEMMA NewPair ==
    ASSUME NEW u \in Users, owner \in Seq(Users), Issue(u)
    PROVE  /\ owner' \in Seq(Users) /\ Len(owner') = Len(owner) + 1 /\ Len(owner') <= MaxPairs
           /\ owner'[Len(owner')] = u
           /\ \A n \in 1 .. Len(owner) : owner'[n] = owner[n]
  BY DEF Issue

\* What a call that waits becomes, and that others stay as they are.
LEMMA ResumeKinds ==
    ASSUME NEW r \in Requests
    PROVE  /\ call[r].at # "waiting" => Resume(call[r]) = call[r]
           /\ call[r].at = "waiting" /\ refresh.got = 0 => Resume(call[r]) = Done
           /\ call[r].at = "waiting" /\ refresh.got # 0 =>
                 Resume(call[r]) = [at |-> "sent", token |-> refresh.got, retried |-> TRUE]
  BY DEF Resume

\* No step disturbs the shape.
LEMMA ShapeStep ==
    ASSUME SessionInv, [SessionNext]_sessionVars
    PROVE  Shape'
<1> USE DEF SessionInv, Shape, SessionTypeOK, issued, server, page
<1> USE DEF NoRefresh, SignedOut, Unsent, Done
<1>1. CASE UNCHANGED sessionVars
  BY <1>1 DEF sessionVars
<1>2. CASE \E n \in 1 .. MaxPairs : Expire(n)
  BY <1>2 DEF Expire
<1>3. CASE \E u \in Users : SignIn(u)
  <2>1. PICK u \in Users : SignIn(u)
    BY <1>3
  <2> QED
    BY <2>1, NewPair DEF SignIn
<1>4. CASE TakeTokens
  BY <1>4 DEF TakeTokens
<1>5. CASE SignOut
  BY <1>5 DEF SignOut
<1>6. CASE AnswerRefresh
  <2>1. CASE Issue(owner[refresh.with]) /\ refresh' = [refresh EXCEPT !.at = "answered", !.got = Len(owner')]
    <3>1. owner[refresh.with] \in Users
      BY <1>6 DEF AnswerRefresh
    <3>2. /\ owner' \in Seq(Users) /\ Len(owner') = Len(owner) + 1 /\ Len(owner') <= MaxPairs
      BY <2>1, <3>1, NewPair
    <3>3. /\ refresh' = [at |-> "answered", with |-> refresh.with, got |-> Len(owner')]
          /\ refresh'.at = "answered" /\ refresh.with # 0
      BY <1>6, <2>1 DEF AnswerRefresh
    <3>4. call' \in [Requests -> [at : {"unsent", "sent", "refused", "waiting", "done"},
                                  token : 0 .. issued', retried : BOOLEAN]]
      BY <1>6, <3>2 DEF AnswerRefresh
    <3> QED
      BY <1>6, <3>2, <3>3, <3>4 DEF AnswerRefresh
  <2>2. CASE refresh' = [refresh EXCEPT !.at = "answered"] /\ UNCHANGED owner
    BY <1>6, <2>2 DEF AnswerRefresh
  <2> QED
    BY <1>6, <2>1, <2>2 DEF AnswerRefresh
<1>7. CASE FinishRefresh
  <2>1. \A r \in Requests : Resume(call[r]) \in [at : {"unsent", "sent", "refused", "done"},
                                                 token : 0 .. issued, retried : BOOLEAN]
    <3> TAKE r \in Requests
    <3>1. call[r] \in [at : {"unsent", "sent", "refused", "waiting", "done"},
                       token : 0 .. issued, retried : BOOLEAN]
      OBVIOUS
    <3>2. CASE call[r].at # "waiting"
      BY <3>1, <3>2, ResumeKinds
    <3>3. CASE call[r].at = "waiting" /\ refresh.got = 0
      <4>1. 0 \in 0 .. issued
        OBVIOUS
      <4>2. Resume(call[r]) = Done
        BY <3>3, ResumeKinds
      <4> QED
        BY <4>1, <4>2
    <3>4. CASE call[r].at = "waiting" /\ refresh.got # 0
      <4>1. Resume(call[r]) = [at |-> "sent", token |-> refresh.got, retried |-> TRUE]
        BY <3>4, ResumeKinds
      <4>2. refresh.got \in 0 .. issued
        OBVIOUS
      <4> QED
        BY <4>1, <4>2
    <3> QED
      BY <3>2, <3>3, <3>4
  <2>2. call' = [r \in Requests |-> Resume(call[r])]
    BY <1>7 DEF FinishRefresh
  <2>3. call' \in [Requests -> [at : {"unsent", "sent", "refused", "waiting", "done"},
                                token : 0 .. issued, retried : BOOLEAN]]
        /\ \A r \in Requests : call'[r].at # "waiting"
    BY <2>1, <2>2
  <2> QED
    BY <1>7, <2>3 DEF FinishRefresh
<1>8. ASSUME NEW r \in Requests, Send(r) \/ Responds(r)
      PROVE  Shape'
  <2> DEFINE Calls == [at : {"unsent", "sent", "refused", "waiting", "done"},
                       token : 0 .. issued, retried : BOOLEAN]
  <2>1. CASE Send(r)
    BY <2>1 DEF Send
  <2>2. CASE AnswerCall(r)
    <3>1. /\ call[r] \in Calls /\ call[r].at = "sent"
          /\ Done \in Calls /\ Done.at = "done"
          /\ [call[r] EXCEPT !.at = "refused"] \in Calls
          /\ [call[r] EXCEPT !.at = "refused"].at = "refused"
      <4>1. call[r] \in Calls /\ call[r].at = "sent"
        BY <2>2 DEF AnswerCall
      <4>2. 0 \in 0 .. issued
        OBVIOUS
      <4>3. Done \in Calls /\ Done.at = "done"
        BY <4>2
      <4> QED
        BY <4>1, <4>3
    <3>2. PICK c \in {Done, [call[r] EXCEPT !.at = "refused"]} : call' = [call EXCEPT ![r] = c]
      <4>1. CASE Authentic(call[r].token)
        <5>1. call' = [call EXCEPT ![r] = Done]
          BY <2>2, <4>1 DEF AnswerCall
        <5> QED
          BY <5>1
      <4>2. CASE ~Authentic(call[r].token)
        <5>1. call' = [call EXCEPT ![r] = [call[r] EXCEPT !.at = "refused"]]
          BY <2>2, <4>2 DEF AnswerCall
        <5> QED
          BY <5>1
      <4> QED
        BY <4>1, <4>2
    <3>3. /\ call' \in [Requests -> Calls] /\ UNCHANGED <<server, page, refresh>>
          /\ \A q \in Requests : call'[q].at = "waiting" => call[q].at = "waiting"
      BY <2>2, <3>1, <3>2 DEF AnswerCall
    <3> QED
      BY <3>3
  <2>3. CASE TakeRefusal(r)
    <3>1. CASE call[r].retried \/ store.refresh = 0
      <4>1. Done \in Calls /\ Done.at = "done"
        <5>1. 0 \in 0 .. issued
          OBVIOUS
        <5> QED
          BY <5>1
      <4>2. call' = [call EXCEPT ![r] = Done] /\ UNCHANGED <<server, page, refresh>>
        BY <2>3, <3>1 DEF TakeRefusal
      <4> QED
        BY <4>1, <4>2
    <3>2. CASE ~(call[r].retried \/ store.refresh = 0)
      <4>1. /\ call' = [call EXCEPT ![r].at = "waiting"] /\ UNCHANGED <<server, page>>
            /\ refresh' = IF refresh # NoRefresh THEN refresh
                          ELSE [at |-> "sent", with |-> store.refresh, got |-> 0]
        BY <2>3, <3>2 DEF TakeRefusal
      <4>2. call' \in [Requests -> Calls]
        <5>1. call[r] \in Calls /\ [call[r] EXCEPT !.at = "waiting"] \in Calls
          OBVIOUS
        <5>2. call' = [call EXCEPT ![r] = [call[r] EXCEPT !.at = "waiting"]]
          BY <4>1
        <5> QED
          BY <5>1, <5>2
      <4>3. CASE refresh # NoRefresh
        BY <4>1, <4>2, <4>3
      <4>4. CASE refresh = NoRefresh
        <5>1. refresh' = [at |-> "sent", with |-> store.refresh, got |-> 0]
          BY <4>1, <4>4
        <5>2. store.refresh \in 0 .. issued /\ store.refresh # 0
          BY <3>2
        <5>3. /\ refresh' \in [at : {"none", "sent", "answered"}, with : 0 .. issued, got : 0 .. issued]
              /\ refresh'.at = "sent" /\ refresh'.with # 0 /\ refresh'.got = 0
          BY <5>1, <5>2
        <5> QED
          BY <4>1, <4>2, <5>3
      <4> QED
        BY <4>3, <4>4
    <3> QED
      BY <3>1, <3>2
  <2> QED
    BY <1>8, <2>1, <2>2, <2>3 DEF Responds
<1> QED
  BY <1>1, <1>2, <1>3, <1>4, <1>5, <1>6, <1>7, <1>8 DEF SessionNext

\* The store, the refresh in flight and the user who signed in last.
LEMMA UserStep ==
    ASSUME SessionInv, [SessionNext]_sessionVars
    PROVE  (SameUser /\ SessionIsTheChosenOne)'
<1> USE DEF SessionInv, Shape, SessionTypeOK, SameUser, SessionIsTheChosenOne, issued, server, page
<1> USE DEF NoRefresh, SignedOut, Unsent, Done
<1>1. CASE UNCHANGED sessionVars
  BY <1>1 DEF sessionVars
<1>2. CASE \E n \in 1 .. MaxPairs : Expire(n)
  BY <1>2 DEF Expire
<1>3. CASE \E u \in Users : SignIn(u)
  <2>1. PICK u \in Users : SignIn(u)
    BY <1>3
  <2> QED
    BY <2>1, NewPair DEF SignIn
<1>4. CASE TakeTokens
  BY <1>4 DEF TakeTokens
<1>5. CASE SignOut
  BY <1>5 DEF SignOut
<1>6. CASE AnswerRefresh
  <2>1. CASE Issue(owner[refresh.with]) /\ refresh' = [refresh EXCEPT !.at = "answered", !.got = Len(owner')]
    BY <1>6, <2>1, NewPair DEF AnswerRefresh
  <2>2. CASE refresh' = [refresh EXCEPT !.at = "answered"] /\ UNCHANGED owner
    BY <1>6, <2>2 DEF AnswerRefresh
  <2> QED
    BY <1>6, <2>1, <2>2 DEF AnswerRefresh
<1>7. CASE FinishRefresh
  BY <1>7 DEF FinishRefresh
<1>8. ASSUME NEW r \in Requests, Send(r) \/ Responds(r)
      PROVE  (SameUser /\ SessionIsTheChosenOne)'
  BY <1>8 DEF Send, Responds, AnswerCall, TakeRefusal
<1> QED
  BY <1>1, <1>2, <1>3, <1>4, <1>5, <1>6, <1>7, <1>8 DEF SessionNext

\* A refresh gets a pair nobody has seen.
LEMMA FreshStep ==
    ASSUME SessionInv, [SessionNext]_sessionVars
    PROVE  FreshPair'
<1> USE DEF SessionInv, Shape, SessionTypeOK, FreshPair, issued, server, page
<1> USE DEF NoRefresh, SignedOut, Unsent, Done
<1>1. CASE UNCHANGED sessionVars
  BY <1>1 DEF sessionVars
<1>2. CASE \E n \in 1 .. MaxPairs : Expire(n)
  BY <1>2 DEF Expire
<1>3. CASE \E u \in Users : SignIn(u)
  <2>1. PICK u \in Users : SignIn(u)
    BY <1>3
  <2> QED
    BY <2>1, NewPair DEF SignIn
<1>4. CASE TakeTokens
  BY <1>4 DEF TakeTokens
<1>5. CASE SignOut
  BY <1>5 DEF SignOut
<1>6. CASE AnswerRefresh
  <2>1. CASE Issue(owner[refresh.with]) /\ refresh' = [refresh EXCEPT !.at = "answered", !.got = Len(owner')]
    BY <1>6, <2>1, NewPair DEF AnswerRefresh
  <2>2. CASE refresh' = [refresh EXCEPT !.at = "answered"] /\ UNCHANGED owner
    BY <1>6, <2>2 DEF AnswerRefresh
  <2> QED
    BY <1>6, <2>1, <2>2 DEF AnswerRefresh
<1>7. CASE FinishRefresh
  BY <1>7 DEF FinishRefresh
<1>8. ASSUME NEW r \in Requests, Send(r) \/ Responds(r)
      PROVE  FreshPair'
  <2>1. CASE Send(r)
    BY <2>1 DEF Send
  <2>2. CASE AnswerCall(r)
    BY <2>2 DEF AnswerCall
  <2>3. CASE TakeRefusal(r)
    <3>1. /\ \A q \in Requests : call'[q].token \in {call[q].token, 0}
          /\ UNCHANGED <<store, form>>
          /\ refresh' = refresh \/ refresh'.got = 0
      <4>1. CASE call' = [call EXCEPT ![r] = Done] /\ UNCHANGED refresh
        BY <2>3, <4>1 DEF TakeRefusal
      <4>2. CASE /\ call' = [call EXCEPT ![r].at = "waiting"]
                 /\ refresh' = IF refresh # NoRefresh THEN refresh
                               ELSE [at |-> "sent", with |-> store.refresh, got |-> 0]
        <5>1. \A q \in Requests : call'[q].token = call[q].token
          BY <4>2
        <5> QED
          BY <2>3, <4>2, <5>1 DEF TakeRefusal
      <4> QED
        BY <2>3, <4>1, <4>2 DEF TakeRefusal
    <3> QED
      BY <3>1
  <2> QED
    BY <1>8, <2>1, <2>2, <2>3 DEF Responds
<1> QED
  BY <1>1, <1>2, <1>3, <1>4, <1>5, <1>6, <1>7, <1>8 DEF SessionNext

\* The invariant of the session.
LEMMA Invariance == SessionSpec => []SessionInv
<1>1. SessionInv /\ [SessionNext]_sessionVars => SessionInv'
  BY ShapeStep, UserStep, FreshStep DEF SessionInv
<1> QED
  BY InvInit, <1>1, PTL DEF SessionSpec

\* The store never holds the tokens of two responses, and no request waits for
\* a refresh that is over, whatever the order of answers, for any requests.
THEOREM SessionTypeCorrect == SessionSpec => []SessionTypeOK
<1>1. SessionInv => SessionTypeOK
  BY DEF SessionInv, Shape
<1> QED
  BY Invariance, <1>1, PTL

\* The session is that of the user who signed in last, unless a refresh was in
\* flight when they did.
THEOREM SessionFollowsTheUser == SessionSpec => []SessionIsTheChosenOne
<1>1. SessionInv => SessionIsTheChosenOne
  BY DEF SessionInv
<1> QED
  BY Invariance, <1>1, PTL

\* A request is repeated at most once, with a pair no request has used.
THEOREM RetriesOnceWithANewToken == SessionSpec => RetryHasNewToken
<1>1. ASSUME SessionInv, [SessionNext]_sessionVars, NEW r \in Requests
      PROVE  RetriedOnce(r) /\ RetriedAfresh(r)
  <2> USE <1>1 DEF SessionInv, Shape, SessionTypeOK, Unsent, Done, server, page,
                     RetriedOnce, RetriedAfresh
  <2>1. CASE UNCHANGED call
    BY <2>1
  <2>2. CASE FinishRefresh
    <3>1. call'[r] = Resume(call[r])
      BY <2>2 DEF FinishRefresh
    <3> QED
      BY <3>1, ResumeKinds DEF FreshPair
  <2>3. ASSUME NEW q \in Requests, Send(q) \/ AnswerCall(q) \/ TakeRefusal(q)
        PROVE  RetriedOnce(r) /\ RetriedAfresh(r)
    <3>1. CASE Send(q)
      BY <3>1 DEF Send
    <3>2. CASE AnswerCall(q)
      <4>1. \/ call' = [call EXCEPT ![q] = Done]
            \/ call' = [call EXCEPT ![q] = [call[q] EXCEPT !.at = "refused"]]
        BY <3>2 DEF AnswerCall
      <4> QED
        BY <4>1
    <3>3. CASE TakeRefusal(q)
      <4>1. \/ call' = [call EXCEPT ![q] = Done]
            \/ call' = [call EXCEPT ![q].at = "waiting"]
        BY <3>3 DEF TakeRefusal
      <4> QED
        BY <4>1
    <3> QED
      BY <2>3, <3>1, <3>2, <3>3
  <2> QED
    BY <2>1, <2>2, <2>3 DEF SessionNext, sessionVars, Expire, SignIn, TakeTokens, SignOut,
                            AnswerRefresh, Responds
<1>2. SessionInv /\ [SessionNext]_sessionVars => [\A r \in Requests : RetriedOnce(r) /\ RetriedAfresh(r)]_sessionVars
  BY <1>1
<1> QED
  BY Invariance, <1>2, PTL DEF SessionSpec, RetryHasNewToken
=============================================================================
