SPECIFICATION Spec
CONSTANTS
    NULL = NULL
    c1 = c1
    s1 = s1
    s2 = s2
    r1 = r1
    Clients <- MCClients
    Staff <- MCStaff
    Grants <- MCGrants
    Organization <- MCOrganization
    SlaFirstResponse <- MCSlaFirstResponse
    SlaResolution <- MCSlaResolution
    AddBusinessMinutes <- MCAddBusinessMinutes
    Minute = 1
    ReopenWindow = 1
    ValidationExpiry = 1
    Requests <- OneRequest
    Submissions <- UrgentPlain
    Deactivable <- Nobody
    DefaultAssignees <- MCDefaultAssignees
    Is24x7 <- MCIs24x7
    MaxNow = 4
INVARIANTS
    AutoCloseAfterDelay
CHECK_DEADLOCK FALSE
