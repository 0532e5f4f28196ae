\* One submission, two workers, two abort requests at a time, one rejudge, one fix
\* of the test data, one fault and one crash.
CONSTANTS
    w1 = w1
    w2 = w2
    h1 = h1
    h2 = h2
    Worker <- TwoWorkers
    Handler <- TwoHandlers
    MaxSubmissions = 1
    NTests = 2
    Partial = TRUE
    Percent <- Percents
    Event <- Events
    MaxRejudges = 1
    MaxFixes = 1
    MaxFaults = 1
    MaxCrashes = 1
SPECIFICATION Spec
SYMMETRY Symmetry
INVARIANTS
    TypeOK
    ExclusiveJudging
    NoZombieRow
    LivePage
    CoherentResult
    FreshVerdict
    NoPhantomCancel
PROPERTIES
    NoTestAfterCancel
    ResultsStand
CHECK_DEADLOCK FALSE
