SPECIFICATION FairSpec
CONSTANTS
    NContests = 2
    NSubs = 2
    Author <- MCAuthor
    Organisers = {}
    Worker = {w1, w2}
    Admin = {}
    Bodies <- MCBodies
    Patches <- MCPatches
    MaxTime = 2
    MaxTroubles = 0
PROPERTY
    LateResultsCount
CHECK_DEADLOCK FALSE
