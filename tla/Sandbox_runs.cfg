SPECIFICATION FairSpec
CONSTANTS
    Worker = {w1}
    Stages <- AllStages
    Programs <- AnyProgram
    MaxFd = 5
    MaxRefused = 1
INVARIANTS
    TypeOK
    HonestVerdict
    NobodySurvives
    DescriptorsReturned
PROPERTIES
    EveryRunEnds
CHECK_DEADLOCK FALSE
