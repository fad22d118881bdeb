--------------------------- MODULE MCJobLifecycle ---------------------------
(***************************************************************************)
(* Instances of JobLifecycle for TLC.                                      *)
(***************************************************************************)
EXTENDS JobLifecycle, TLC

CONSTANTS j1, j2, j3, acme, globex

\* One organization, whose quota row exists.
OneOrg      == [j \in Jobs |-> acme]
RowPresent  == [o \in Orgs |-> 1]

\* One organization that predates the quota table.
RowMissing  == [o \in Orgs |-> NoRow]

\* Two organizations, one with and one without a row.
TwoOrgs     == [j \in Jobs |-> IF j = j1 THEN acme ELSE globex]
MixedRows   == [o \in Orgs |-> IF o = acme THEN 1 ELSE NoRow]

\* Jobs of one organization are interchangeable.
Symmetry    == Permutations(Jobs)
=============================================================================
