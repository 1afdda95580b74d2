CONSTANTS
    None = None
    Guests = {g1}
    Members = {hana}
    Tickets = {k1}
    Edits = FALSE
    FaultKinds = {}
    MaxFaults = 0
    MaxPolls = 2
SPECIFICATION Spec
INVARIANTS
    TokenIssuedOnce
CHECK_DEADLOCK FALSE
