\* Two submissions, so that order and the hand-over of a worker from one to the
\* other matter; nobody rejudges what is being judged.
CONSTANTS
    w1 = w1
    w2 = w2
    h1 = h1
    h2 = h2
    Worker <- TwoWorkers
    Handler <- OneHandler
    MaxSubmissions = 2
    NTests = 1
    Partial = FALSE
    Percent <- Percents
    Event <- Events
    MaxRejudges = 1
    MaxFixes = 0
    MaxFaults = 1
    MaxCrashes = 1
SPECIFICATION CarefulSpec
SYMMETRY Symmetry
VIEW ControlView
PROPERTIES
    ImplementsService
CHECK_DEADLOCK FALSE
