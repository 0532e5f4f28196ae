SPECIFICATION Spec
CONSTANTS
    User = {"boss", "ann", "bob"}
    Address = {"a", "b"}
    NoAddress = "none"
    Thread = {t1, t2}
    FirstUsers <- ThreeUsers
    MaxRequests = 3
    MaxLinks = 4
    Limit <- Limits
    MaxInFlight = 1
    MaxBulkFiles = 2
INVARIANTS
    TypeOK
    OneOwnerPerAddress
    OneLiveLink
    AddressProven
    AdminRemains
    OldPasswordGone
    AdmissionBounded
CHECK_DEADLOCK FALSE
