\* No faults and no crash: one abort of a rejudge still in the queue is enough.
CONSTANTS
    w1 = w1
    w2 = w2
    h1 = h1
    h2 = h2
    Worker <- TwoWorkers
    Handler <- OneHandler
    MaxSubmissions = 1
    NTests = 2
    Partial = TRUE
    Percent <- Percents
    Event <- Events
    MaxRejudges = 1
    MaxFixes = 1
    MaxFaults = 0
    MaxCrashes = 0
SPECIFICATION Spec
SYMMETRY Symmetry
INVARIANT CancelledEarnsNothing
CHECK_DEADLOCK FALSE
