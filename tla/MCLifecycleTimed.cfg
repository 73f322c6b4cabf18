SPECIFICATION FairSpec
CONSTANTS
    NULL = NULL
    c1 = c1
    s1 = s1
    s2 = s2
    r1 = r1
    Clients <- MCClients
    Staff <- OneStaff
    Grants <- MCGrants
    Organization <- MCOrganization
    SlaFirstResponse <- MCSlaFirstResponse
    SlaResolution <- MCSlaResolution
    AddBusinessMinutes <- MCAddBusinessMinutes
    Minute = 2
    ReopenWindow = 1
    ValidationExpiry = 1
    Requests <- OneRequest
    Submissions <- UrgentPlain
    Deactivable <- Nobody
    DefaultAssignees <- OneStaff
    Is24x7 <- MCIs24x7
    MaxNow = 4
INVARIANTS
    WaitingAccounted
    DeadlineGrantsWaiting
    VerdictNetOfWaiting
    MilestonesOrdered
PROPERTIES
    ResolutionSettles
CHECK_DEADLOCK FALSE
