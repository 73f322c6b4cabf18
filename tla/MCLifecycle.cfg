SPECIFICATION Spec
CONSTANTS
    NULL = NULL
    c1 = c1
    s1 = s1
    s2 = s2
    r1 = r1
    Clients <- MCClients
    Staff <- MCStaff
    Grants <- MCGrants
    Organization <- MCOrganization
    SlaFirstResponse <- MCSlaFirstResponse
    SlaResolution <- MCSlaResolution
    AddBusinessMinutes <- MCAddBusinessMinutes
    Minute = 1
    ReopenWindow = 1
    ValidationExpiry = 1
    Requests <- OneRequest
    Submissions <- NormalEither
    Deactivable <- Everybody
    DefaultAssignees <- MCDefaultAssignees
    Is24x7 <- MCIs24x7
    MaxNow = 1
INVARIANTS
    TypeOK
    MarkerMatchesWait
    HolderMatchesStatus
    OverrideBoundedOnceQualified
PROPERTIES
    JournalIsAPath
    ImplementsContract
