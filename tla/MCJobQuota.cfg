\* Three requests of one organization, two at once; one fault.
SPECIFICATION Spec
CONSTANTS
    j1 = j1
    j2 = j2
    j3 = j3
    acme = acme
    globex = globex
    NoRow = NoRow
    Jobs = {j1, j2, j3}
    Orgs = {acme}
    OrgOf <- OneOrg
    InitialQuota <- RowMissing
    StandardLimit = 1
    MaxJobs = 1
    MaxTries = 2
    MaxInFlight = 2
    MaxFaults = 1
SYMMETRY Symmetry
INVARIANTS
    QuotaOvershoot
CHECK_DEADLOCK FALSE
