---------------------------- MODULE ProgressFeed ----------------------------
(***************************************************************************)
(* What the progress page of a job promises, whatever is lost on the way:  *)
(* it shows what was recorded, in the order it was recorded, and never     *)
(* takes back what it has shown. It may be behind, and it may have gaps.   *)
(***************************************************************************)
EXTENDS Naturals, Sequences, SequencesExt

VARIABLES
    recorded,  \* the job's progress log
    shown      \* the timeline on the page

\* t is what is left of s when some of its elements are removed: match the
\* elements of t, each with the first element of s that is left for it.
Embedded(t, s) ==
    LET matched[n \in 0 .. Len(s)] ==
            IF n = 0 THEN 0
            ELSE LET before == matched[n - 1]
                 IN  IF before < Len(t) /\ t[before + 1] = s[n] THEN before + 1 ELSE before
    IN  matched[Len(s)] = Len(t)

Init == recorded = << >> /\ shown = << >>

Log ==
    /\ Len(recorded') = Len(recorded) + 1 /\ IsPrefix(recorded, recorded')
    /\ UNCHANGED shown

Show ==
    /\ UNCHANGED recorded
    /\ ToSet(shown) \subseteq ToSet(shown')
    /\ Embedded(shown', recorded)

Spec == Init /\ [][Log \/ Show]_<<recorded, shown>>
=============================================================================
