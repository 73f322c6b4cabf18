SPECIFICATION ServicesSpec
CONSTANTS
    NULL = NULL
    Parts = {"conversation", "attachments", "notifications", "submission", "calendar", "screen",
             "inbox", "palette"}
    Posts = {p1, p2}
    MaxMessages = 3
    TalkBudgets <- MCTalkBudgets
    Files = {f1, f2}
    Sizes = {1, 2}
    Quota = 2
    MaxRestarts = 1
    MaxWithdrawn = 1
    Author = author
    Staff = {s1, s2}
    Managers = {s1}
    MaxEvents = 2
    EventsTried = {"DEMANDE_AFFECTEE", "CLIENT_A_REPONDU", "DEMANDE_CLOTUREE_AUTO", "DEMANDE_REOUVERTE"}
    Mutes <- MCMutes
    Invalid <- MCInvalid
    MaxChanges = 1
    Notes = {n1, n2}
    Requests = {q1, q2}
    InboxBudgets <- MCInboxBudgets
    Terms = {"", "a", "ab", "abc", "cd"}
    Short = {"", "a"}
    Entries <- MCEntries
    Viewer <- MCViewer
    MaxTyped = 4
    MaxFailures = 1
    bugs = bugs
    other = other
    product = product
    Callers = {form1, form2, c1}
    FormCalls = {form1, form2}
    Categories = {bugs, other}
    Products = {product}
    Catalogs <- MCCatalogs
    Base = 3
    Digits = 1
    MaxDay = 2
    SubmissionBudgets <- MCSubmissionBudgets
    Minute = 2
    Day = 12
    BUSINESS_START = 4
    BUSINESS_END = 10
    Holidays = {1, 12, 15, 16}
    MaxStart = 170
    MaxMinutes = 20
    owner = owner
    colleague = colleague
    lead = lead
    junior = junior
    Owner = owner
    Colleague = colleague
    Agents <- MCAgents
    Rights <- MCRights
    Starts <- MCStarts
    Window = 0
    MaxNow = 1
    ScreenBudgets <- MCScreenBudgets
INVARIANTS
    ServicesTypeOK
    AnswersResume
    AnswersEndTheirWait
    OneEvaluation
    QuotaHolds
    InfectedNeverServed
    PendingHasAScan
    ToldOnce
    ConcernedAreTold
    BadgeIsExact
    ReferencesWithoutGap
    FormAgreesWithServer
    ButtonSendsOnce
    DeadlineLeavesItsMinutes
    OffersAreAccepted
    EnterOpensWhatIsSearched
CHECK_DEADLOCK FALSE
