SPECIFICATION AccountsSpec
CONSTANTS
    NULL = NULL
    Parts = {"directory"}
    Tabs = {t1, t2}
    Ops = {o1, o2}
    MaxSids = 3
    Budgets <- MCBudgets
    ResetTokens = {k1}
    MaxFailed = 2
    MaxSecrets = 2
    Uids = {u1, u2, u3}
    FirstStaff = {u1, u2}
    CustomRoles = {r1}
    UsersManage = um
    RolesManage = rm
    OrganizationsManage = um
    Permissions = {um, rm}
    Orgs = {g1}
    Calls = {c1, c2}
    DirBudgets <- MCDirBudgets
    Rows = {1, 2, 3, 4}
    Scenarios <- MCScenarios
    MaxClock = 3
    Millisecond = 2
    Limits = {1, 2}
    Fetch = 3
    BugCategories = {1}
    PageSizes = {1, 2}
    DefaultPageSize = 1
INVARIANT LastActiveAdminIsNotDeleted
CHECK_DEADLOCK FALSE
