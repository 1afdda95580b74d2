CONSTANTS
    ann = ann
    bob = bob
    cid = cid
    annTab = annTab
    bobTab = bobTab
    bobPhone = bobPhone
    cidTab = cidTab
    None = None
    Group = Group
    Users = {ann, bob}
    Tabs = {annTab, bobTab, bobPhone}
    Owner <- PairOwner
    Ways = {"start"}
    Starters = {annTab}
    FaultKinds = {"drop", "fail", "reload", "restart"}
    MaxFaults = 1
    MaxPending = 1
    Calls = {c1}
SPECIFICATION FairSpec
INVARIANTS
    OneDeviceAnswers
    StaleScreenOnlyIfBlind
PROPERTIES
    RingingResolves
    ModalClosesWhenOver
CHECK_DEADLOCK FALSE
