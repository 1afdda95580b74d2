CONSTANTS
    ann = ann
    bob = bob
    cid = cid
    annTab = annTab
    bobTab = bobTab
    bobPhone = bobPhone
    cidTab = cidTab
    None = None
    Group = Group
    Users = {ann, bob, cid}
    Tabs = {annTab, bobTab, cidTab}
    Owner <- TrioOwner
    Ways = {"group", "invite", "join"}
    Starters = {annTab, bobTab}
    FaultKinds = {}
    MaxFaults = 0
    MaxPending = 1
    Calls = {c1, c2}
SPECIFICATION Spec
SYMMETRY CallIds
INVARIANTS
    InCallOnlyIfAnswered
    RingingIsTimed
PROPERTIES
    ImplementsLedger
CHECK_DEADLOCK FALSE
