SPECIFICATION Spec
CONSTANTS
    a = a
    b = b
    c = c
    ann = ann
    x = x
    Users = {ann, x}
    Nobody = Nobody
    Requests = {r1, r2}
    MaxPairs = 3
    Orgs = {a, b, c}
    EmailOf <- MCEmailOf
    MayCrash = {a}
    Visits = {v}
    Conns = {k1, k2}
    Unset = Unset
    Blank = Blank
    None = None
    Tenants = {a, b}
    Entries = {"ja", "jb", "ea", "sa", "sb", "pa", "pb", "rb"}
    TableOf <- MCTable
    ParentOf <- MCParent
    Null = Null
INVARIANTS
    SessionTypeOK
    SessionIsTheChosenOne
    TenancyTypeOK
    RegistrationIsWhole
    FailsOnlyForCause
    SeesExactlyItsOwn
    TenantOfItsJob
    UpgradeGetsThrough
PROPERTIES
    RetryHasNewToken
    RequestsEnd
    RegistrationsEnd
CHECK_DEADLOCK FALSE
