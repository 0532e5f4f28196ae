SPECIFICATION FairSpec
CONSTANTS
    NContests = 1
    NSubs = 2
    Author <- MCAuthor
    Organisers = {2}
    Worker = {w1, w2}
    Admin = {a1}
    Bodies <- MCBodies
    Patches <- MCPatches
    MaxTime = 2
    MaxTroubles = 1
INVARIANTS
    TypeOK
    SettledRight
    ProfileAgrees
PROPERTIES
    EventuallySettled
    QuietAtLast
CHECK_DEADLOCK FALSE
