\* No faults and no crash: one abort that comes as the run ends is enough.
CONSTANTS
    w1 = w1
    w2 = w2
    h1 = h1
    h2 = h2
    Worker <- TwoWorkers
    Handler <- OneHandler
    MaxSubmissions = 1
    NTests = 2
    Partial = TRUE
    Percent <- Percents
    Event <- Events
    MaxRejudges = 1
    MaxFixes = 1
    MaxFaults = 0
    MaxCrashes = 0
SPECIFICATION Spec
SYMMETRY Symmetry
INVARIANT RequestIsPickedUp
CHECK_DEADLOCK FALSE
