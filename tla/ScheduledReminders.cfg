CONSTANTS
    Invitees <- Roster
    AppUsers <- Staff
    Phones <- Texted
    Members <- Staff
    MaxAttempts = 1
    MayRefuse = FALSE
    MaxPasses = 1
    MaxScans = 1
    LastPhase = 6
    MaxReplies = 1
    MaxRestarts = 1
SPECIFICATION FairSpec
INVARIANTS
    MarkedMeansTold
PROPERTIES
    ClosedForGood
    CallsEnd
CHECK_DEADLOCK FALSE
