CONSTANTS
    ann = ann
    bob = bob
    cid = cid
    annTab = annTab
    bobTab = bobTab
    bobPhone = bobPhone
    cidTab = cidTab
    None = None
    Group = Group
    Users = {ann, bob}
    Tabs = {annTab, bobTab}
    Owner <- DuoOwner
    Ways = {"start"}
    Starters = {annTab}
    FaultKinds = {}
    MaxFaults = 0
    MaxPending = 1
    Calls = {c1}
SPECIFICATION FairSpec
PROPERTIES
    CallerFollowsAccept
CHECK_DEADLOCK FALSE
