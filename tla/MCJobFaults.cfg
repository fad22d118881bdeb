\* One job, its attempts interrupted, timed out and failing until arq drops it.
SPECIFICATION Spec
CONSTANTS
    j1 = j1
    j2 = j2
    j3 = j3
    acme = acme
    globex = globex
    NoRow = NoRow
    Jobs = {j1}
    Orgs = {acme}
    OrgOf <- OneOrg
    InitialQuota <- RowMissing
    StandardLimit = 1
    MaxJobs = 1
    MaxTries = 3
    MaxInFlight = 1
    MaxFaults = 4
INVARIANTS
    TypeOK
    QueuedJobsExist
    FailureRecorded
    TerminalEventTruthful
    LeaksCostAFault
PROPERTIES
    SettledStays
    FollowsProgress
CHECK_DEADLOCK FALSE
