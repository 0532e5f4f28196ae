SPECIFICATION Spec
CONSTANTS
    User = {"boss", "ann"}
    Admin = {"boss"}
    Problem = {"p1", "p2"}
    WorthOf <- PointsOf
    DECAY <- Half
    Name <- Alphabet
    Contest = {"round", "open"}
    FirstConfirmed = {"boss"}
    FirstVisible = {"p2"}
    NewSets = {{"p2"}}
    FirstSet <- TheirSets
    Terms <- TwoRounds
    Results <- Found
    MaxTime = 4
    MaxSubs = 2
    MaxEdits = 1
INVARIANTS
    TypeOK
    ListAgreesWithById
    FreezeHolds
    SealHolds
    BoardAgreesWithProfile
    RanksStandard
    ScoreNeverFalls
CHECK_DEADLOCK FALSE
