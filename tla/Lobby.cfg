CONSTANTS
    hana = hana
    ivo = ivo
    k1 = k1
    k2 = k2
    None = None
    Guests = {g1}
    Members = {hana, ivo}
    Tickets = {k1, k2}
    Edits = TRUE
    FaultKinds = {"fail", "close", "restart"}
    MaxFaults = 1
    MaxPolls = 2
SPECIFICATION SceneSpec
INVARIANTS
    GuestInOnlyIfAdmitted
    PresentMeansListed
PROPERTIES
    ImplementsAdmission
    WaitingEnds
CHECK_DEADLOCK FALSE
