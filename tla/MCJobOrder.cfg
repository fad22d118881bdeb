\* No fault: the request's last statement races the worker.
SPECIFICATION Spec
CONSTANTS
    j1 = j1
    j2 = j2
    j3 = j3
    acme = acme
    globex = globex
    NoRow = NoRow
    Jobs = {j1}
    Orgs = {acme}
    OrgOf <- OneOrg
    InitialQuota <- RowPresent
    StandardLimit = 1
    MaxJobs = 1
    MaxTries = 1
    MaxInFlight = 1
    MaxFaults = 0
PROPERTIES
    DocumentedOrder
CHECK_DEADLOCK FALSE
