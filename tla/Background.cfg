SPECIFICATION Spec
CONSTANTS
    p1 = p1
    p2 = p2
    u1 = u1
    u2 = u2
    nobody = nobody
    MaxNotes = 2
    MaxPhrases = 1
    MaxStops = 2
    MaxMails = 2
    MaxClerkRestarts = 1
    People <- Two
    Members <- JustOne
    Starter = u1
    MaxPolls = 2
    MaxHangups = 2
    Placements <- TwoPlacements
    MaxJobChanges = 1
    MaxPasses = 2
    MaxPollerStops = 1
    MaxRefusals = 1
    MaxRows = 2
    MaxCuts = 1
    Emails <- Two
    NoCaller = nobody
    MaxSyncs = 2
    MaxAuthChanges = 2
    Readers <- Two
    MaxNote = 2
    MaxBoots = 4
    m1 = m1
    m2 = m2
    Recruiters <- Two
    NoManager = nobody
    Months <- TwoMonths
    Fees <- OneFee
    MaxCredits = 3
    MaxBatch = 2
    MaxByHand = 1
    MaxArrivals = 2
    MaxRefetches = 2
    MaxClears = 1
    MaxMisses = 1
INVARIANTS
    BackgroundTypeOK
    WorkHasAWorker
    EachToldOnce
    RecordingInHand
    LedgerAddsUp
    StaleBadgeHasACause
PROPERTIES
    MailIsTheSummaryOnce
    TranscriptLostToOrphan
    AttendeesAreComplete
    PlacementsAreTold
    ProcessingEnds
    RosterSettles
    NotesAreToldOnce
    BadgeSettles
CHECK_DEADLOCK FALSE
