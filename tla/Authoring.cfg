SPECIFICATION Spec
CONSTANTS
    Archive <- Archives
    Inline <- InlineSets
    Package <- Packages
    Solution <- Solutions
    Thread = {t1, t2}
    MaxBulk = 20
    MaxSamples = 1
    MaxIds = 2
    MaxSubs = 1
    MaxRequests = 3
    MaxFaults = 1
INVARIANTS
    TypeOK
    InPlace
    SharesCover
    FairScore
    PackageWhole
SYMMETRY Symmetry
CHECK_DEADLOCK FALSE
