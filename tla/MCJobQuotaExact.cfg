\* Two requests at once, limit one.
SPECIFICATION Spec
CONSTANTS
    j1 = j1
    j2 = j2
    j3 = j3
    acme = acme
    globex = globex
    NoRow = NoRow
    Jobs = {j1, j2}
    Orgs = {acme}
    OrgOf <- OneOrg
    InitialQuota <- RowPresent
    StandardLimit = 1
    MaxJobs = 1
    MaxTries = 1
    MaxInFlight = 2
    MaxFaults = 0
INVARIANTS
    QuotaExact
CHECK_DEADLOCK FALSE
