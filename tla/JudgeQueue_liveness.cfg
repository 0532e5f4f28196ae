\* Faults, a crash, a rejudge at any moment and cancellations against two fair
\* workers.  No symmetry: it is not sound for liveness.
CONSTANTS
    w1 = w1
    w2 = w2
    h1 = h1
    h2 = h2
    Worker <- TwoWorkers
    Handler <- OneHandler
    MaxSubmissions = 1
    NTests = 1
    Partial = FALSE
    Percent <- Percents
    Event <- Events
    MaxRejudges = 1
    MaxFixes = 0
    MaxFaults = 2
    MaxCrashes = 1
SPECIFICATION FairSpec
PROPERTIES
    EventuallyJudged
CHECK_DEADLOCK FALSE
