\* Two jobs share one worker slot; one fault.
SPECIFICATION FairSpec
CONSTANTS
    j1 = j1
    j2 = j2
    j3 = j3
    acme = acme
    globex = globex
    NoRow = NoRow
    Jobs = {j1, j2}
    Orgs = {acme}
    OrgOf <- OneOrg
    InitialQuota <- RowPresent
    StandardLimit = 1
    MaxJobs = 1
    MaxTries = 2
    MaxInFlight = 2
    MaxFaults = 1
PROPERTIES
    AttemptsEnd
    RunsToTheEnd
CHECK_DEADLOCK FALSE
