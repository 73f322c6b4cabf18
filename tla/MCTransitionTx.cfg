SPECIFICATION Spec
CONSTANTS
    NULL = NULL
    c1 = c1
    s1 = s1
    k1 = k1
    k2 = k2
    Clients <- MCClients
    Staff <- MCStaff
    Grants <- MCGrants
    Organization <- MCOrganization
    SlaFirstResponse <- MCZero
    SlaResolution <- MCZero
    Is24x7 <- MCNone
    AddBusinessMinutes <- MCAddBusinessMinutes
    Calls <- MCCalls
    StartRows <- EveryPhase
    Minute = 1
    ReopenWindow = 0
    Now = 0
    MaxJournal = 3
SYMMETRY MCSymmetry
INVARIANTS
    TxTypeOK
    EdgesFromDisplayedStatus
PROPERTIES
    UncontendedIsAtomic
CHECK_DEADLOCK FALSE
