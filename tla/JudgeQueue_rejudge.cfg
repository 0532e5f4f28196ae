\* No faults and no crash: one rejudge that strikes during judging is enough.
CONSTANTS
    w1 = w1
    w2 = w2
    h1 = h1
    h2 = h2
    Worker <- TwoWorkers
    Handler <- OneHandler
    MaxSubmissions = 1
    NTests = 2
    Partial = TRUE
    Percent <- Percents
    Event <- Events
    MaxRejudges = 1
    MaxFixes = 1
    MaxFaults = 0
    MaxCrashes = 0
SPECIFICATION Spec
SYMMETRY Symmetry
INVARIANT RejudgeTakesEffect
CHECK_DEADLOCK FALSE
