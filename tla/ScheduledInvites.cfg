CONSTANTS
    Invitees <- Roster
    AppUsers <- Staff
    Phones <- Texted
    Members <- Staff
    MaxAttempts = 3
    MayRefuse = TRUE
    MaxPasses = 2
    MaxScans = 0
    LastPhase = 0
    MaxReplies = 0
    MaxRestarts = 0
SPECIFICATION FairSpec
INVARIANTS
    NobodyForgotten
PROPERTIES
    InviteesAreSettled
CHECK_DEADLOCK FALSE
