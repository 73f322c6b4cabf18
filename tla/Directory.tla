------------------------------ MODULE Directory ------------------------------
(***************************************************************************)
(* Accounts, roles and organizations: UsersService, RolesService,            *)
(* OrganizationsService, RbacService and the activation of an account.  Each *)
(* call is cut at its awaits: what it checked, and the row it loaded, may be *)
(* stale when it writes.  An entity loaded and saved is written whole, its   *)
(* deleted_at included (TypeORM writes the columns that differ from the     *)
(* database by then).  Passwords and sessions are in Sessions; an e-mail      *)
(* already taken, whether the check or the unique index finds it, refuses a  *)
(* call without effect, as a call that never starts or is interrupted.       *)
(***************************************************************************)
EXTENDS Values, Naturals, FiniteSets

CONSTANTS
    Uids,         \* accounts that can exist
    FirstStaff,   \* those there are at first, active: administrators and delegates
    CustomRoles,  \* role codes administrators may create
    Permissions,  \* the codes of the catalogue an update tells apart
    Orgs,         \* organizations
    Calls,        \* concurrent calls of the API
    DirBudgets,   \* bound of the model: the calls of each family of one behaviour
    UsersManage, RolesManage, OrganizationsManage   \* three permissions

ASSUME DirectoryAssumption ==
    /\ FirstStaff \subseteq Uids
    /\ DirBudgets \subseteq [users : Nat, roles : Nat, links : Nat, organizations : Nat]
    /\ {"ADMIN", "CLIENT"} \cap CustomRoles = {}
    /\ {UsersManage, RolesManage, OrganizationsManage} \subseteq Permissions
    /\ NULL \notin Uids \cup CustomRoles \cup Orgs

VARIABLES
    user,        \* the rows of table users
    role,        \* the rows of tables roles and role_permissions
    link,        \* the rows of table account_activation_tokens
    org,         \* the rows of table organizations
    call,        \* what each call is doing
    crossed,     \* history: the calls that met another one while in flight
    lastAdmin,   \* history: how the last active administrator could disappear
    dirBudget    \* the calls that may still start

directoryVars == <<user, role, link, org, call, crossed, lastAdmin, dirBudget>>

RoleCodes == {"ADMIN", "CLIENT"} \cup CustomRoles

(* `closed`, `byLink` and `raced` are history: the last decision of an         *)
(* administrator was to close the account, an activation link opened it since,*)
(* and another call was in flight when the row was written.                  *)
User == [role : RoleCodes, organization : Orgs \cup {NULL},
         isActive : BOOLEAN, deleted : BOOLEAN,
         closed : BOOLEAN, byLink : BOOLEAN, raced : BOOLEAN]

(* `given` is history: the permissions last submitted for the role.           *)
Role == [scope : {"INTERNAL", "CLIENT"}, isSystem : BOOLEAN, isActive : BOOLEAN,
         deleted : BOOLEAN, permissions : SUBSET Permissions,
         given : SUBSET Permissions, raced : BOOLEAN]

Organization == [defaultAssignee : Uids \cup {NULL}, deleted : BOOLEAN]

ASSUME DirectoryNull ==
    NULL \notin User /\ NULL \notin Role /\ NULL \notin {"sent", "used", "expired"}

NoCall == [pc |-> "idle"]

DirectoryTypeOK ==
    /\ user \in [Uids -> User \cup {NULL}]
    /\ role \in [RoleCodes -> Role \cup {NULL}]
    /\ link \in [Uids -> {NULL, "sent", "used", "expired"}]
    /\ org \in [Orgs -> Organization]
    /\ crossed \subseteq {c \in Calls : call[c] # NoCall}
    /\ lastAdmin \in SUBSET {"closed", "demoted", "deleted", "deletedInRace"}

(* The roles of the seeds and the administrator of the bootstrap, and delegates *)
(* of a custom role that may manage the accounts.                           *)
SeededRole(code, codes) ==
    [scope |-> IF code = "CLIENT" THEN "CLIENT" ELSE "INTERNAL",
     isSystem |-> code = "ADMIN", isActive |-> TRUE, deleted |-> FALSE,
     permissions |-> codes, given |-> codes, raced |-> FALSE]

FirstUser(r) ==
    [role |-> r, organization |-> NULL, isActive |-> TRUE,
     deleted |-> FALSE, closed |-> FALSE, byLink |-> FALSE, raced |-> FALSE]

DirectoryInit ==
    /\ \E held \in [FirstStaff -> {"ADMIN"} \cup CustomRoles] :
          /\ \E u \in FirstStaff : held[u] = "ADMIN"
          /\ user = [u \in Uids |-> IF u \in FirstStaff THEN FirstUser(held[u])
                                    ELSE NULL]
          /\ role = [r \in RoleCodes |->
                IF r \notin CustomRoles THEN SeededRole(r, {})
                ELSE IF \E u \in FirstStaff : held[u] = r THEN SeededRole(r, {UsersManage})
                ELSE NULL]
    /\ link = [u \in Uids |-> NULL]
    /\ org = [o \in Orgs |-> [defaultAssignee |-> NULL, deleted |-> FALSE]]
    /\ call = [c \in Calls |-> NoCall]
    /\ crossed = {}
    /\ lastAdmin = {}
    /\ dirBudget \in DirBudgets

-----------------------------------------------------------------------------
LiveUsers == {u \in Uids : user[u] # NULL /\ ~user[u].deleted}
LiveRoles == {r \in RoleCodes : role[r] # NULL /\ ~role[r].deleted}
ActiveAdmins == {u \in LiveUsers : user[u].role = "ADMIN" /\ user[u].isActive}

(* RbacService.resolveAccess.                                               *)
Resolvable(r) == r \in LiveRoles /\ role[r].isActive

Effective(r) == IF role[r].isSystem THEN Permissions ELSE role[r].permissions

(* JwtStrategy.validate, then PermissionsGuard.                              *)
Granted(a, permission) ==
    /\ a \in LiveUsers /\ user[a].isActive
    /\ Resolvable(user[a].role)
    /\ permission \in Effective(user[a].role)

(* assertRoleAssignable.                                                    *)
Assignable(r, organization) ==
    /\ Resolvable(r)
    /\ role[r].scope = "CLIENT" => organization # NULL

(* The CHECK of the table.                                                 *)
Storable(row) == row.role = "CLIENT" => row.organization # NULL

(* isEligibleDefaultAssignee; the custom roles do not count.                  *)
Eligible(u) ==
    /\ u \in LiveUsers /\ user[u].isActive
    /\ user[u].role \in {"ADMIN", "RESPONSABLE"}
    /\ role[user[u].role].scope = "INTERNAL"

-----------------------------------------------------------------------------
InFlight == {c \in Calls : call[c] # NoCall}

Start(c, family, work) ==
    /\ call[c] = NoCall
    /\ dirBudget[family] > 0
    /\ dirBudget' = [dirBudget EXCEPT ![family] = @ - 1]
    /\ call' = [call EXCEPT ![c] = work]
    /\ crossed' = IF InFlight = {} THEN {} ELSE InFlight \cup {c}

Continue(c, work) ==
    /\ call' = [call EXCEPT ![c] = work]
    /\ UNCHANGED <<crossed, dirBudget>>

Finish(c) ==
    /\ call' = [call EXCEPT ![c] = NoCall]
    /\ crossed' = crossed \ {c}
    /\ UNCHANGED dirBudget

-----------------------------------------------------------------------------
(* UsersService.create: the checks, the row, the link.                       *)
CreateUserCheck(c, u, r, o) ==
    /\ user[u] = NULL
    /\ \E a \in Uids : Granted(a, UsersManage)
    /\ Assignable(r, o)
    /\ Start(c, "users", [pc |-> "insertUser", uid |-> u,
          row |-> [role |-> r, organization |-> o, isActive |-> FALSE,
                   deleted |-> FALSE, closed |-> FALSE, byLink |-> FALSE, raced |-> FALSE]])
    /\ UNCHANGED <<user, role, link, org, lastAdmin>>

InsertUser(c) ==
    /\ call[c].pc = "insertUser"
    /\ IF user[call[c].uid] = NULL /\ Storable(call[c].row)
       THEN /\ user' = [user EXCEPT ![call[c].uid] =
                   [call[c].row EXCEPT !.raced = c \in crossed]]
            /\ Continue(c, [pc |-> "insertLink", uid |-> call[c].uid])
       ELSE Finish(c) /\ UNCHANGED user
    /\ UNCHANGED <<role, link, org, lastAdmin>>

InsertLink(c) ==
    /\ call[c].pc = "insertLink"
    /\ link' = [link EXCEPT ![call[c].uid] = "sent"]
    /\ Finish(c)
    /\ UNCHANGED <<user, role, org, lastAdmin>>

-----------------------------------------------------------------------------
(* UsersService.update, updateProfile, deactivate and reactivate: the row is   *)
(* loaded and checked, then saved whole.  `change` gives the fields sent.     *)
Changes == [role : RoleCodes \cup {NULL}, organization : Orgs \cup {NULL}]

UpdateCheck(u, change) ==
    change.role # NULL =>
        Assignable(change.role, IF change.organization # NULL THEN change.organization
                                ELSE user[u].organization)

Changed_Wrong(row, change) ==                 \* the form opens the account again
    [row EXCEPT !.role = IF change.role # NULL THEN change.role ELSE @,
                !.organization = IF change.organization # NULL THEN change.organization ELSE @,
                !.isActive = TRUE]

Changed(row, change) ==
    [row EXCEPT !.role = IF change.role # NULL THEN change.role ELSE @,
                !.organization = IF change.organization # NULL THEN change.organization ELSE @]

LoadUser(c, u) ==
    /\ u \in LiveUsers
    /\ \/ /\ \E a \in Uids : Granted(a, UsersManage)
          /\ \/ \E change \in Changes :
                   /\ UpdateCheck(u, change)
                   /\ Start(c, "users", [pc |-> "saveUser", uid |-> u, intent |-> "edit",
                                         row |-> Changed(user[u], change)])
             \/ Start(c, "users", [pc |-> "saveUser", uid |-> u, intent |-> "deactivate",
                       row |-> [user[u] EXCEPT !.isActive = FALSE, !.closed = TRUE,
                                               !.byLink = FALSE]])
             \/ Start(c, "users", [pc |-> "saveUser", uid |-> u, intent |-> "reactivate",
                       row |-> [user[u] EXCEPT !.isActive = TRUE, !.closed = FALSE]])
       \/ /\ user[u].isActive                                    \* updateProfile
          /\ Start(c, "users", [pc |-> "saveUser", uid |-> u, intent |-> "edit",
                                row |-> user[u]])
    /\ UNCHANGED <<user, role, link, org, lastAdmin>>

RecordLastAdmin(cause) ==
    lastAdmin' = IF ActiveAdmins # {} /\ ActiveAdmins' = {} THEN lastAdmin \cup {cause}
                 ELSE lastAdmin

SaveUser(c) ==
    /\ call[c].pc = "saveUser"
    /\ LET u == call[c].uid
           w == call[c].row
       IN  user' = IF Storable(w)
                   THEN [user EXCEPT ![u] =
                           [w EXCEPT !.raced  = user[u].raced \/ c \in crossed,
                                     !.closed = IF call[c].intent = "edit"
                                                THEN user[u].closed ELSE @,
                                     !.byLink = IF call[c].intent = "deactivate"
                                                THEN FALSE ELSE user[u].byLink]]
                   ELSE user
    /\ RecordLastAdmin(IF call[c].intent = "edit" THEN "demoted" ELSE "closed")
    /\ Finish(c)
    /\ UNCHANGED <<role, link, org>>

-----------------------------------------------------------------------------
(* UsersService.softDelete, by administrator a: the count of the active        *)
(* administrators, then the row (softRemove writes deleted_at only).          *)
MayDelete_Wrong(a, u) ==                      \* the count is not compared
    a # u

MayDelete(a, u) ==
    /\ a # u
    /\ user[u].role = "ADMIN" => Cardinality(ActiveAdmins) > 1

DeleteUserCheck(c, a, u) ==
    /\ u \in LiveUsers
    /\ Granted(a, UsersManage)
    /\ MayDelete(a, u)
    /\ Start(c, "users", [pc |-> "removeUser", uid |-> u])
    /\ UNCHANGED <<user, role, link, org, lastAdmin>>

RemoveUser(c) ==
    /\ call[c].pc = "removeUser"
    /\ LET u == call[c].uid
       IN  user' = [user EXCEPT ![u].deleted = TRUE, ![u].closed = TRUE, ![u].byLink = FALSE,
                                ![u].raced = @ \/ c \in crossed]
    /\ RecordLastAdmin(IF c \in crossed THEN "deletedInRace" ELSE "deleted")
    /\ Finish(c)
    /\ UNCHANGED <<role, link, org>>

-----------------------------------------------------------------------------
(* AuthService.activateAccount: the link is the only thing that is checked.    *)
LoadLink(c, u) ==
    /\ link[u] = "sent"
    /\ Start(c, "links", [pc |-> "activate", uid |-> u])
    /\ UNCHANGED <<user, role, link, org, lastAdmin>>

Activate(c) ==
    /\ call[c].pc = "activate"
    /\ user' = [user EXCEPT ![call[c].uid].isActive = TRUE, ![call[c].uid].byLink = TRUE]
    /\ Continue(c, [pc |-> "useLink", uid |-> call[c].uid])
    /\ UNCHANGED <<role, link, org, lastAdmin>>

UseLink(c) ==
    /\ call[c].pc = "useLink"
    /\ link' = [link EXCEPT ![call[c].uid] = "used"]
    /\ Finish(c)
    /\ UNCHANGED <<user, role, org, lastAdmin>>

ExpireLink(u) ==
    /\ link[u] = "sent"
    /\ link' = [link EXCEPT ![u] = "expired"]
    /\ UNCHANGED <<user, role, org, call, crossed, lastAdmin, dirBudget>>

-----------------------------------------------------------------------------
(* RolesService.create.  findOne leaves the deleted rows out, save does not:    *)
(* the code of a deleted role updates the deleted row, which stays deleted,   *)
(* and its permissions are inserted.                                        *)
CreateRoleCheck(c, r, scope, codes) ==
    /\ r \notin LiveRoles
    /\ \E a \in Uids : Granted(a, RolesManage)
    /\ Start(c, "roles", [pc |-> "insertRole", code |-> r, scope |-> scope, codes |-> codes])
    /\ UNCHANGED <<user, role, link, org, lastAdmin>>

InsertRole(c) ==
    /\ call[c].pc = "insertRole"
    /\ LET r   == call[c].code
           old == IF role[r] = NULL THEN {} ELSE role[r].permissions
       IN  role' = IF old \cap call[c].codes # {} THEN role    \* the key refuses, all undone
                   ELSE [role EXCEPT ![r] =
                          [scope |-> call[c].scope, isSystem |-> FALSE, isActive |-> TRUE,
                           deleted |-> role[r] # NULL /\ role[r].deleted,
                           permissions |-> old \cup call[c].codes, given |-> call[c].codes,
                           raced |-> c \in crossed \/ (role[r] # NULL /\ role[r].raced)]]
    /\ Finish(c)
    /\ UNCHANGED <<user, link, org, lastAdmin>>

(* RolesService.update: the row and its checks, then a transaction that saves  *)
(* the row, deletes the permissions it sees and inserts those given.  A       *)
(* concurrent deletion makes the statement wait, not see the new rows.       *)
LoadRole(c, r, isActive, codes) ==
    /\ r \in LiveRoles
    /\ ~role[r].isSystem
    /\ \E a \in Uids : Granted(a, RolesManage)
    /\ Start(c, "roles", [pc |-> "replacePermissions", code |-> r, codes |-> codes,
                          row |-> [role[r] EXCEPT !.isActive = isActive]])
    /\ UNCHANGED <<user, role, link, org, lastAdmin>>

DeletePermissions(c) ==
    /\ call[c].pc = "replacePermissions"
    /\ Continue(c, [pc |-> "commitRole", code |-> call[c].code, codes |-> call[c].codes,
                    row |-> call[c].row, seen |-> role[call[c].code].permissions])
    /\ UNCHANGED <<user, role, link, org, lastAdmin>>

Replaced_Wrong(permissions, seen, codes) == permissions \cup codes   \* nothing is deleted

Replaced(permissions, seen, codes) == (permissions \ seen) \cup codes

CommitRole(c) ==
    /\ call[c].pc = "commitRole"
    /\ LET r    == call[c].code
           kept == role[r].permissions \ call[c].seen
       IN  role' = IF kept \cap call[c].codes # {} THEN role   \* the key refuses, all undone
                   ELSE [role EXCEPT ![r] =
                          [call[c].row EXCEPT
                             !.permissions = Replaced(role[r].permissions, call[c].seen, call[c].codes),
                             !.given = call[c].codes,
                             !.raced = role[r].raced \/ c \in crossed]]
    /\ Finish(c)
    /\ UNCHANGED <<user, link, org, lastAdmin>>

(* RolesService.remove: the count, the permissions, the row; no transaction.    *)
RemoveRoleCheck_Wrong(c, r) ==                \* counts only the active users
    /\ r \in LiveRoles
    /\ ~role[r].isSystem
    /\ \E a \in Uids : Granted(a, RolesManage)
    /\ \A u \in LiveUsers : user[u].isActive => user[u].role # r
    /\ Start(c, "roles", [pc |-> "deletePermissions", code |-> r])
    /\ UNCHANGED <<user, role, link, org, lastAdmin>>

RemoveRoleCheck(c, r) ==
    /\ r \in LiveRoles
    /\ ~role[r].isSystem
    /\ \E a \in Uids : Granted(a, RolesManage)
    /\ \A u \in LiveUsers : user[u].role # r
    /\ Start(c, "roles", [pc |-> "deletePermissions", code |-> r])
    /\ UNCHANGED <<user, role, link, org, lastAdmin>>

RemovePermissions(c) ==
    /\ call[c].pc = "deletePermissions"
    /\ role' = [role EXCEPT ![call[c].code].permissions = {}, ![call[c].code].given = {},
                            ![call[c].code].raced = @ \/ c \in crossed]
    /\ Continue(c, [pc |-> "removeRole", code |-> call[c].code])
    /\ UNCHANGED <<user, link, org, lastAdmin>>

RemoveRole(c) ==
    /\ call[c].pc = "removeRole"
    /\ role' = [role EXCEPT ![call[c].code].deleted = TRUE,
                            ![call[c].code].raced = @ \/ c \in crossed]
    /\ Finish(c)
    /\ UNCHANGED <<user, link, org, lastAdmin>>

-----------------------------------------------------------------------------
(* OrganizationsService.update with a default assignee, and its removal, which *)
(* leaves the accounts of the organization as they are.                     *)
LoadOrganization(c, o, u) ==
    /\ ~org[o].deleted
    /\ \E a \in Uids : Granted(a, OrganizationsManage)
    /\ u # NULL => Eligible(u)
    /\ Start(c, "organizations", [pc |-> "saveOrganization", code |-> o,
                                  row |-> [org[o] EXCEPT !.defaultAssignee = u]])
    /\ UNCHANGED <<user, role, link, org, lastAdmin>>

SaveOrganization(c) ==
    /\ call[c].pc = "saveOrganization"
    /\ org' = [org EXCEPT ![call[c].code] = call[c].row]
    /\ Finish(c)
    /\ UNCHANGED <<user, role, link, lastAdmin>>

RemoveOrganization_Wrong(o) ==                \* the row is deleted for good
    /\ ~org[o].deleted
    /\ \E a \in Uids : Granted(a, OrganizationsManage)
    /\ dirBudget.organizations > 0
    /\ dirBudget' = [dirBudget EXCEPT !.organizations = @ - 1]
    /\ org' = [org EXCEPT ![o] = NULL]
    /\ UNCHANGED <<user, role, link, call, crossed, lastAdmin>>

RemoveOrganization(o) ==
    /\ ~org[o].deleted
    /\ \E a \in Uids : Granted(a, OrganizationsManage)
    /\ dirBudget.organizations > 0
    /\ dirBudget' = [dirBudget EXCEPT !.organizations = @ - 1]
    /\ org' = [org EXCEPT ![o].deleted = TRUE]
    /\ UNCHANGED <<user, role, link, call, crossed, lastAdmin>>

-----------------------------------------------------------------------------
(* The API stops between two statements of a call.                          *)
DirectoryCrash(c) ==
    /\ call[c] # NoCall
    /\ Finish(c)
    /\ UNCHANGED <<user, role, link, org, lastAdmin>>

UserCall(c) ==
    \/ \E u \in Uids : LoadUser(c, u) \/ LoadLink(c, u)
    \/ \E u \in Uids, r \in RoleCodes, o \in Orgs \cup {NULL} :
          CreateUserCheck(c, u, r, o)
    \/ \E a, u \in Uids : DeleteUserCheck(c, a, u)
    \/ InsertUser(c) \/ InsertLink(c) \/ SaveUser(c) \/ RemoveUser(c)
    \/ Activate(c) \/ UseLink(c)

RoleCall(c) ==
    \/ \E r \in CustomRoles, scope \in {"INTERNAL", "CLIENT"}, codes \in SUBSET Permissions :
          CreateRoleCheck(c, r, scope, codes)
    \/ \E r \in RoleCodes, isActive \in BOOLEAN, codes \in SUBSET Permissions :
          LoadRole(c, r, isActive, codes)
    \/ \E r \in RoleCodes : RemoveRoleCheck(c, r)
    \/ InsertRole(c) \/ DeletePermissions(c) \/ CommitRole(c)
    \/ RemovePermissions(c) \/ RemoveRole(c)

OrganizationCall(c) ==
    \/ \E o \in Orgs, u \in Uids \cup {NULL} : LoadOrganization(c, o, u)
    \/ SaveOrganization(c)

DirectoryNext ==
    \/ \E c \in Calls : UserCall(c) \/ RoleCall(c) \/ OrganizationCall(c) \/ DirectoryCrash(c)
    \/ \E u \in Uids : ExpireLink(u)
    \/ \E o \in Orgs : RemoveOrganization(o)

DirectorySpec == DirectoryInit /\ [][DirectoryNext]_directoryVars

-----------------------------------------------------------------------------
(* No deletion by itself takes the last active administrator away: only a      *)
(* deactivation or a change of role may, which nothing guards, or calls that  *)
(* overlap.                                                                *)
DeletionKeepsAnAdmin ==
    ActiveAdmins = {} => lastAdmin \cap {"closed", "demoted", "deletedInRace"} # {}

(* A role that somebody holds is not deleted, unless an assignment and the     *)
(* removal overlapped: its holder could not log in any more.                 *)
RoleInUseIsKept ==
    \A u \in LiveUsers :
        user[u].role \in LiveRoles \/ user[u].raced \/ role[user[u].role].raced

(* An account an administrator has closed stays closed until one opens it      *)
(* again, except through the activation link it had, or when an edit loaded   *)
(* before the closing is saved after it.                                   *)
ClosedAccountsStayClosed ==
    \A u \in LiveUsers :
        user[u].closed /\ user[u].isActive => user[u].byLink \/ user[u].raced

(* The permissions of a role are those last submitted, never those of two      *)
(* administrators together, unless their updates overlapped.                 *)
PermissionsAreThoseGiven ==
    \A r \in LiveRoles : role[r].permissions = role[r].given \/ role[r].raced

-----------------------------------------------------------------------------
(* The comment of softDelete promises that the last active administrator is    *)
(* not deleted (users.service.ts:254-259).                                  *)
LastActiveAdminIsNotDeleted == lastAdmin \cap {"deleted", "deletedInRace"} = {}
=============================================================================
