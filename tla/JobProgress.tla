----------------------------- MODULE JobProgress -----------------------------
(***************************************************************************)
(* What others can rely on of a job, whoever works on it and however often *)
(* it is run: the progress log only grows; an event is published after it  *)
(* was recorded, or never; and a status that has a forerunner is written   *)
(* only once that event is in the log. The status itself may go anywhere.  *)
(* The progress page is built on this module, and JobLifecycle implements  *)
(* it.                                                                     *)
(***************************************************************************)
EXTENDS Naturals, Sequences

CONSTANTS
    Stati,       \* values of research_jobs.status
    Kinds,       \* kinds of events
    Forerunner,  \* the event that goes before a status, where there is one
    Silent       \* nothing to publish

VARIABLES
    state,       \* research_jobs.status
    recorded,    \* research_events
    unpublished  \* recorded by _emit, which has not got to publishing it

jobVars == <<state, recorded, unpublished>>

In(e, s) == \E i \in DOMAIN s : s[i] = e

JobInit == state = "absent" /\ recorded = << >> /\ unpublished = Silent

SetStatus(s) ==
    /\ s \in DOMAIN Forerunner => In(Forerunner[s], recorded)
    /\ state' = s
    /\ UNCHANGED <<recorded, unpublished>>

Record(e) ==
    /\ unpublished = Silent
    /\ recorded' = Append(recorded, e)
    /\ unpublished' = e
    /\ UNCHANGED state

\* The event is published, or its attempt ends before it is.
Publish ==
    /\ unpublished # Silent
    /\ unpublished' = Silent
    /\ UNCHANGED <<state, recorded>>

JobNext == \/ \E s \in Stati : SetStatus(s)
           \/ \E e \in Kinds : Record(e)
           \/ Publish

JobSpec == JobInit /\ [][JobNext]_jobVars
=============================================================================
