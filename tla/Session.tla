------------------------------- MODULE Session -------------------------------
(***************************************************************************)
(* The session of one browser: services/api.ts and stores/authStore.ts,    *)
(* with the sign-in page and the sign-out button that change the store     *)
(* too, against the answers of core/deps.py and services/auth_service.py.  *)
(*                                                                         *)
(* A token pair is the number of the response that issued it; 0 is no      *)
(* token. Whatever JavaScript does without awaiting is one step.           *)
(***************************************************************************)
EXTENDS Naturals, Sequences

CONSTANTS
    Users,
    Nobody,    \* nobody is signed in
    Requests,  \* calls of apiRequest
    MaxPairs   \* bound: token pairs issued

ASSUME SessionAssumption == Nobody \notin Users /\ MaxPairs \in Nat

VARIABLES
    owner,     \* the token pairs issued so far: whose each one is
    expired,   \* pairs whose access token is refused: too old, or its user
               \* has been deactivated
    store,     \* the persisted store: accessToken and refreshToken
    form,      \* the pair a sign-in page is receiving, 0 when none is
    refresh,   \* refreshInFlight: the token it was sent with, what it got
    call,      \* each request: how far it is, its token, _retried
    chosen,    \* who signed in last, Nobody after signing out
    overtaken  \* and a refresh was in flight when they did

server  == <<owner, expired>>
page    == <<store, form, chosen, overtaken>>
sessionVars == <<server, page, refresh, call>>

SignedOut == [access |-> 0, refresh |-> 0]
NoRefresh == [at |-> "none", with |-> 0, got |-> 0]
Unsent    == [at |-> "unsent", token |-> 0, retried |-> FALSE]
Done      == [at |-> "done", token |-> 0, retried |-> FALSE]
issued    == Len(owner)

SessionInit ==
    /\ owner = <<>> /\ expired = {}
    /\ store = SignedOut /\ form = 0 /\ refresh = NoRefresh
    /\ call = [r \in Requests |-> Unsent]
    /\ chosen = Nobody /\ overtaken = FALSE

-----------------------------------------------------------------------------
(* The server. *)

\* _issue_tokens: the next pair is u's.
Issue(u) == Len(owner) < MaxPairs /\ owner' = Append(owner, u)

\* get_current_auth: decode_token, then the user as it is now.
Authentic(n) == n # 0 /\ n \notin expired

Expire(n) ==
    /\ n \in 1 .. Len(owner)
    /\ expired' = expired \cup {n}
    /\ UNCHANGED <<owner, page, refresh, call>>

\* The answer to a request, whatever it is, ends it, but for a 401.
AnswerCall(r) ==
    /\ call[r].at = "sent"
    /\ call' = [call EXCEPT ![r] = IF Authentic(@.token) THEN Done ELSE [@ EXCEPT !.at = "refused"]]
    /\ UNCHANGED <<server, page, refresh>>

\* POST /auth/refresh. It fails when the token has expired or the user has
\* been deactivated, and for the browser when the answer is lost.
AnswerRefresh ==
    /\ refresh.at = "sent"
    /\ \/ /\ Issue(owner[refresh.with])
          /\ refresh' = [refresh EXCEPT !.at = "answered", !.got = Len(owner')]
       \/ /\ refresh' = [refresh EXCEPT !.at = "answered"]
          /\ UNCHANGED owner
    /\ UNCHANGED <<expired, page, call>>

\* POST /auth/login or /auth/register; the page waits for the answer.
SignIn(u) ==
    /\ form = 0
    /\ Issue(u)
    /\ form' = Len(owner')
    /\ UNCHANGED <<expired, store, chosen, overtaken, refresh, call>>

-----------------------------------------------------------------------------
(* The browser. *)

\* handleSubmit: setTokens with what the form got.
TakeTokens ==
    /\ form # 0
    /\ store' = [access |-> form, refresh |-> form]
    /\ form' = 0
    /\ chosen' = owner[form]
    /\ overtaken' = (refresh # NoRefresh)
    /\ UNCHANGED <<server, refresh, call>>

SignOutHalf ==                \* mutant: the refresh token survives
    /\ store # SignedOut
    /\ store' = [store EXCEPT !.access = 0]
    /\ chosen' = Nobody
    /\ overtaken' = (refresh # NoRefresh)
    /\ UNCHANGED <<server, form, refresh, call>>
SignOut ==
    /\ store # SignedOut
    /\ store' = SignedOut
    /\ chosen' = Nobody
    /\ overtaken' = (refresh # NoRefresh)
    /\ UNCHANGED <<server, form, refresh, call>>

Send(r) ==
    /\ call[r] = Unsent
    /\ call' = [call EXCEPT ![r] = [at |-> "sent", token |-> store.access, retried |-> FALSE]]
    /\ UNCHANGED <<server, page, refresh>>

\* A 401 arrives. A request is repeated once, if there is a refresh token; it
\* joins the refresh in flight or starts one with the token of the store.
TakeRefusal(r) ==
    /\ call[r].at = "refused"
    /\ IF call[r].retried \/ store.refresh = 0
         THEN /\ call' = [call EXCEPT ![r] = Done]
              /\ UNCHANGED refresh
         ELSE /\ call' = [call EXCEPT ![r].at = "waiting"]
              /\ refresh' = IF refresh # NoRefresh THEN refresh
                            ELSE [at |-> "sent", with |-> store.refresh, got |-> 0]
    /\ UNCHANGED <<server, page>>

\* What the calls that wait for the refresh do once it has its outcome.
Resume(c) ==
    IF c.at # "waiting" THEN c
    ELSE IF refresh.got = 0 THEN Done
    ELSE [at |-> "sent", token |-> refresh.got, retried |-> TRUE]

FinishRefreshSticky ==        \* mutant: refreshInFlight is not reset
    /\ refresh.at = "answered"
    /\ \E r \in Requests : call[r].at = "waiting"
    /\ store' = [access |-> refresh.got, refresh |-> refresh.got]
    /\ call' = [r \in Requests |-> Resume(call[r])]
    /\ UNCHANGED <<server, form, refresh, chosen, overtaken>>
FinishRefreshHalf ==          \* mutant: a failed refresh never resolves
    /\ refresh.at = "answered" /\ refresh.got # 0
    /\ store' = [access |-> refresh.got, refresh |-> refresh.got]
    /\ call' = [r \in Requests |-> Resume(call[r])]
    /\ refresh' = NoRefresh
    /\ UNCHANGED <<server, form, chosen, overtaken>>
\* The answer arrives: the store takes it whatever has happened to it since,
\* or is cleared; every call that waits is repeated or fails.
FinishRefresh ==
    /\ refresh.at = "answered"
    /\ store' = [access |-> refresh.got, refresh |-> refresh.got]
    /\ call' = [r \in Requests |-> Resume(call[r])]
    /\ refresh' = NoRefresh
    /\ UNCHANGED <<server, form, chosen, overtaken>>

Responds(r) == AnswerCall(r) \/ TakeRefusal(r)

SessionNext ==
    \/ \E n \in 1 .. MaxPairs : Expire(n)
    \/ \E u \in Users : SignIn(u)
    \/ TakeTokens \/ SignOut \/ AnswerRefresh \/ FinishRefresh
    \/ \E r \in Requests : Send(r) \/ Responds(r)

\* Every request that was sent is answered, or times out as a refusal would.
SessionFairness ==
    /\ \A r \in Requests : WF_sessionVars(Responds(r))
    /\ WF_sessionVars(AnswerRefresh) /\ WF_sessionVars(FinishRefresh)

SessionSpec == SessionInit /\ [][SessionNext]_sessionVars /\ SessionFairness

-----------------------------------------------------------------------------
(* Properties. *)

\* Every variable keeps its shape; both tokens of the store come from one
\* response, and a call waits only for a refresh that is in flight.
SessionTypeOK ==
    /\ owner \in Seq(Users) /\ issued <= MaxPairs
    /\ expired \subseteq 1 .. issued
    /\ store \in [access : 0 .. issued, refresh : 0 .. issued]
    /\ store.access = store.refresh
    /\ form \in 0 .. issued
    /\ refresh \in [at : {"none", "sent", "answered"}, with : 0 .. issued, got : 0 .. issued]
    /\ call \in [Requests -> [at : {"unsent", "sent", "refused", "waiting", "done"},
                              token : 0 .. issued, retried : BOOLEAN]]
    /\ (\E r \in Requests : call[r].at = "waiting") => refresh # NoRefresh
    /\ chosen \in Users \cup {Nobody} /\ overtaken \in BOOLEAN

\* The session is that of the user who signed in last, and there is none after
\* signing out, however refreshes and late refusals interleave with it, unless
\* a refresh was in flight at that moment: its answer wins.
SessionIsTheChosenOne ==
    ~overtaken => store.access = 0 \/ owner[store.access] = chosen

RetriedOnce(r) == call[r].retried => call'[r].retried \/ call'[r].at = "done"
RetriedAfresh(r) ==
    call'[r].retried /\ ~call[r].retried =>
        /\ call'[r].token # call[r].token
        /\ \A q \in Requests \ {r} : call[q].at # "unsent" => call[q].token # call'[r].token

\* A request is repeated at most once, and with a pair issued after it was
\* sent: never with the token that was refused, nor with one refused before.
RetryHasNewToken == [][\A r \in Requests : RetriedOnce(r) /\ RetriedAfresh(r)]_sessionVars

\* Every request comes to an end: none waits for a refresh that is over, and a
\* failed refresh fails all that wait for it.
RequestsEnd == \A r \in Requests : call[r].at # "unsent" ~> call[r].at = "done"
=============================================================================
