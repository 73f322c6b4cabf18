-------------------------- MODULE Directory_proofs --------------------------
(***************************************************************************)
(* The directory, the lists that show it and the global search.  The         *)
(* directory keeps what its calls checked: as long as no other call met it,  *)
(* a call writes over the tables it has read.  A list gives each row its     *)
(* place, a walk through its pages each row once, a screen each row one       *)
(* page, and the palette opens what it searched.  For any number of          *)
(* overlapping calls, accounts, roles, organizations, rows and entries.      *)
(***************************************************************************)
EXTENDS Directory, Listing, Palette, FiniteSetTheorems, TLAPS

(* What a call in flight holds.                                              *)
Inserting     == [pc : {"insertUser"}, uid : Uids, row : User]
OnAccount     == [pc : {"insertLink", "removeUser", "activate", "useLink"}, uid : Uids]
Saving        == [pc : {"saveUser"}, uid : Uids, intent : {"edit", "deactivate", "reactivate"},
                  row : User]
InsertingRole == [pc : {"insertRole"}, code : CustomRoles, scope : {"INTERNAL", "CLIENT"},
                  codes : SUBSET Permissions]
Replacing     == [pc : {"replacePermissions"}, code : RoleCodes, codes : SUBSET Permissions,
                  row : Role]
Committing    == [pc : {"commitRole"}, code : RoleCodes, codes : SUBSET Permissions, row : Role,
                  seen : SUBSET Permissions]
RemovingRole  == [pc : {"deletePermissions", "removeRole"}, code : RoleCodes]
SavingOrganization == [pc : {"saveOrganization"}, code : Orgs, row : Organization]

Work == Inserting \cup OnAccount \cup Saving \cup InsertingRole \cup Replacing
          \cup Committing \cup RemovingRole \cup SavingOrganization

DirectoryTyped ==
    /\ user \in [Uids -> User \cup {NULL}]
    /\ role \in [RoleCodes -> Role \cup {NULL}]
    /\ link \in [Uids -> {NULL, "sent", "used", "expired"}]
    /\ org \in [Orgs -> Organization]
    /\ call \in [Calls -> Work \cup {NoCall}]
    /\ crossed \subseteq InFlight
    /\ lastAdmin \subseteq {"closed", "demoted", "deleted", "deletedInRace"}

(* What a row or a call refers to has a row: rows are never taken out of their  *)
(* table.                                                                  *)
RolesKnown == \A u \in Uids : user[u] # NULL => role[user[u].role] # NULL

LinksKnown == \A u \in Uids : link[u] # NULL => user[u] # NULL

KnownAt(c) ==
    /\ call[c].pc \in {"insertLink", "saveUser", "removeUser", "activate", "useLink"}
          => user[call[c].uid] # NULL
    /\ call[c].pc \in {"replacePermissions", "commitRole", "deletePermissions", "removeRole"}
          => role[call[c].code] # NULL
    /\ call[c].pc \in {"insertUser", "saveUser"} => role[call[c].row.role] # NULL

(* A call that met no other one is alone in flight, and what it loaded or       *)
(* checked is still what the tables hold.                                   *)
Alone == \A c \in InFlight \ crossed : InFlight = {c}

UserStillTrue(c) ==
    /\ call[c].pc = "insertUser" => call[c].row.role \in LiveRoles
    /\ call[c].pc = "saveUser" =>
          /\ call[c].uid \in LiveUsers
          /\ call[c].row.role = user[call[c].uid].role \/ call[c].row.role \in LiveRoles
          /\ call[c].intent = "edit" => call[c].row.isActive = user[call[c].uid].isActive
    /\ call[c].pc = "removeUser" /\ user[call[c].uid].role = "ADMIN" =>
          ActiveAdmins \ {call[c].uid} # {}

RoleStillTrue(c) ==
    /\ call[c].pc = "insertRole" => call[c].code \notin LiveRoles
    /\ call[c].pc \in {"replacePermissions", "commitRole"} =>
          call[c].code \in LiveRoles /\ ~call[c].row.deleted
    /\ call[c].pc = "commitRole" => call[c].seen = role[call[c].code].permissions
    /\ call[c].pc \in {"deletePermissions", "removeRole"} =>
          \A u \in LiveUsers : user[u].role # call[c].code

StillTrue(c) == UserStillTrue(c) /\ RoleStillTrue(c)

(* What a save of an account decides, whatever it meets.                       *)
DecidesAt(c) ==
    /\ call[c].pc = "insertUser" => ~call[c].row.closed
    /\ call[c].pc = "saveUser" /\ call[c].intent = "deactivate" => ~call[c].row.isActive
    /\ call[c].pc = "saveUser" /\ call[c].intent = "reactivate" => ~call[c].row.closed

CallsFit ==
    /\ Alone
    /\ \A c \in InFlight : KnownAt(c) /\ DecidesAt(c)
    /\ \A c \in InFlight \ crossed : StillTrue(c)

TablesFit ==
    /\ RolesKnown /\ LinksKnown
    /\ RoleInUseIsKept /\ ClosedAccountsStayClosed /\ PermissionsAreThoseGiven

DirectoryInv == DirectoryTyped /\ CallsFit /\ TablesFit /\ DeletionKeepsAnAdmin

-----------------------------------------------------------------------------
(* What a step does to the calls.                                           *)

(* A call that starts has checked what it holds, unless others are in flight:   *)
(* then it is crossed, and so are they.                                     *)
LEMMA StartFits ==
    ASSUME DirectoryTyped, CallsFit, NEW c \in Calls, NEW work \in Work, NEW family,
           Start(c, family, work), UNCHANGED <<user, role>>,
           KnownAt(c)', DecidesAt(c)', InFlight = {} => StillTrue(c)'
    PROVE  /\ call' \in [Calls -> Work \cup {NoCall}]
           /\ crossed' \subseteq InFlight'
           /\ CallsFit'
<1>1. work # NoCall
  BY DEF Work, NoCall, Inserting, OnAccount, Saving, InsertingRole, Replacing, Committing,
         RemovingRole, SavingOrganization
<1>2. /\ call' = [call EXCEPT ![c] = work]
      /\ crossed' = IF InFlight = {} THEN {} ELSE InFlight \cup {c}
      /\ call \in [Calls -> Work \cup {NoCall}]
  BY DEF Start, DirectoryTyped
<1>3. InFlight' = InFlight \cup {c}
  BY <1>1, <1>2 DEF InFlight
<1>4. \A d \in InFlight : d # c => call'[d] = call[d]
  BY <1>2 DEF InFlight
<1>5. \A d \in InFlight' : KnownAt(d)' /\ DecidesAt(d)'
  <2> SUFFICES ASSUME NEW d \in InFlight', d # c  PROVE KnownAt(d)' /\ DecidesAt(d)'
    OBVIOUS
  <2>1. d \in InFlight /\ call'[d] = call[d]
    BY <1>3, <1>4
  <2>2. KnownAt(d) /\ DecidesAt(d)
    BY <2>1 DEF CallsFit
  <2> QED  BY <2>1, <2>2 DEF KnownAt, DecidesAt
<1>6. \A d \in InFlight' \ crossed' : d = c /\ InFlight = {}
  BY <1>2, <1>3
<1>7. call' \in [Calls -> Work \cup {NoCall}] /\ crossed' \subseteq InFlight'
  BY <1>2, <1>3
<1>8. Alone'
  BY <1>3, <1>6 DEF Alone
<1> QED  BY <1>5, <1>6, <1>7, <1>8 DEF CallsFit

(* A call that goes on or ends leaves the others where they were; one that met  *)
(* none answers for itself only.                                           *)
LEMMA StepFits ==
    ASSUME DirectoryTyped, CallsFit, NEW c \in InFlight, NEW work \in Work \cup {NoCall},
           call' = [call EXCEPT ![c] = work],
           crossed' = IF work = NoCall THEN crossed \ {c} ELSE crossed,
           \A u \in Uids : user[u] # NULL => user'[u] # NULL,
           \A r \in RoleCodes : role[r] # NULL => role'[r] # NULL,
           work # NoCall => KnownAt(c)' /\ DecidesAt(c)',
           work # NoCall /\ c \notin crossed => StillTrue(c)'
    PROVE  /\ call' \in [Calls -> Work \cup {NoCall}]
           /\ crossed' \subseteq InFlight'
           /\ CallsFit'
<1>1. call \in [Calls -> Work \cup {NoCall}] /\ crossed \subseteq InFlight
  BY DEF DirectoryTyped
<1>2. InFlight' = IF work = NoCall THEN InFlight \ {c} ELSE InFlight
  BY <1>1 DEF InFlight
<1>3. \A d \in InFlight : d # c => call'[d] = call[d] /\ call[d] \in Work
  BY <1>1 DEF InFlight
<1>4. \A d \in InFlight' : KnownAt(d)' /\ DecidesAt(d)'
  <2> SUFFICES ASSUME NEW d \in InFlight', d # c  PROVE KnownAt(d)' /\ DecidesAt(d)'
    BY <1>2
  <2>1. d \in InFlight /\ call'[d] = call[d] /\ call[d] \in Work
    BY <1>2, <1>3
  <2>2. KnownAt(d) /\ DecidesAt(d)
    BY <2>1 DEF CallsFit
  <2>3. /\ call[d].pc \in {"insertLink", "saveUser", "removeUser", "activate", "useLink"}
              => call[d].uid \in Uids
        /\ call[d].pc \in {"replacePermissions", "commitRole", "deletePermissions",
                           "removeRole"} => call[d].code \in RoleCodes
        /\ call[d].pc \in {"insertUser", "saveUser"} => call[d].row.role \in RoleCodes
    BY <2>1 DEF Work, Inserting, OnAccount, Saving, InsertingRole, Replacing, Committing,
                RemovingRole, SavingOrganization, User
  <2> QED  BY <2>1, <2>2, <2>3 DEF KnownAt, DecidesAt
<1>5. \A d \in InFlight' \ crossed' : d = c /\ work # NoCall /\ c \notin crossed
  <2> SUFFICES ASSUME NEW d \in InFlight' \ crossed'
               PROVE  d = c /\ work # NoCall /\ c \notin crossed
    OBVIOUS
  <2>1. d \in InFlight \ crossed  \/ d = c
    BY <1>2
  <2>2. CASE d # c
    BY <2>1, <2>2 DEF CallsFit, Alone
  <2> QED  BY <2>2, <1>2
<1>6. call' \in [Calls -> Work \cup {NoCall}] /\ crossed' \subseteq InFlight'
  BY <1>1, <1>2 DEF InFlight
<1>7. Alone'
  BY <1>2, <1>5 DEF CallsFit, Alone
<1> QED  BY <1>4, <1>5, <1>6, <1>7 DEF CallsFit

-----------------------------------------------------------------------------
(* What a write does to the tables.                                         *)

LEMMA RowIsThere ==
    ASSUME DirectoryTyped
    PROVE  /\ \A u \in Uids : user[u] # NULL => user[u] \in User
           /\ \A r \in RoleCodes : role[r] # NULL => role[r] \in Role
           /\ \A w \in User : w # NULL /\ w.role \in RoleCodes
           /\ \A w \in Role : w # NULL
  BY DirectoryNull DEF DirectoryTyped, User

(* One account is written: what is asked of its row depends on that row only.   *)
LEMMA UserWritten ==
    ASSUME DirectoryTyped, TablesFit, NEW u \in Uids, NEW w \in User,
           user' = [user EXCEPT ![u] = w], UNCHANGED <<role, link>>,
           role[w.role] # NULL,
           ~w.deleted => w.role \in LiveRoles \/ w.raced \/ role[w.role].raced,
           ~w.deleted /\ w.closed /\ w.isActive => w.byLink \/ w.raced
    PROVE  /\ user' \in [Uids -> User \cup {NULL}]
           /\ \A v \in Uids : user[v] # NULL => user'[v] # NULL
           /\ TablesFit'
<1>1. /\ user' \in [Uids -> User \cup {NULL}]
      /\ \A v \in Uids : v # u => user'[v] = user[v]
      /\ user'[u] = w /\ w # NULL
  BY RowIsThere DEF DirectoryTyped
<1>2. LiveRoles' = LiveRoles
  BY DEF LiveRoles
<1>3. \A v \in Uids : v # u => (v \in LiveUsers' <=> v \in LiveUsers)
  BY <1>1 DEF LiveUsers
<1>4. u \in LiveUsers' => ~w.deleted
  BY <1>1 DEF LiveUsers
<1>5. RolesKnown' /\ LinksKnown'
  BY <1>1 DEF TablesFit, RolesKnown, LinksKnown
<1>6. RoleInUseIsKept'
  <2> SUFFICES ASSUME NEW v \in LiveUsers'
               PROVE  user'[v].role \in LiveRoles' \/ user'[v].raced \/ role'[user'[v].role].raced
    BY DEF RoleInUseIsKept
  <2>0. v \in Uids
    BY DEF LiveUsers
  <2>1. CASE v = u
    BY <2>1, <1>1, <1>2, <1>4
  <2>2. CASE v # u
    BY <2>0, <2>2, <1>1, <1>2, <1>3 DEF TablesFit, RoleInUseIsKept
  <2> QED  BY <2>1, <2>2
<1>7. ClosedAccountsStayClosed'
  <2> SUFFICES ASSUME NEW v \in LiveUsers', user'[v].closed, user'[v].isActive
               PROVE  user'[v].byLink \/ user'[v].raced
    BY DEF ClosedAccountsStayClosed
  <2>0. v \in Uids
    BY DEF LiveUsers
  <2>1. CASE v = u
    BY <2>1, <1>1, <1>4
  <2>2. CASE v # u
    BY <2>0, <2>2, <1>1, <1>3 DEF TablesFit, ClosedAccountsStayClosed
  <2> QED  BY <2>1, <2>2
<1>8. PermissionsAreThoseGiven'
  BY <1>2 DEF TablesFit, PermissionsAreThoseGiven
<1> QED  BY <1>1, <1>5, <1>6, <1>7, <1>8 DEF TablesFit

(* One role is written.  It may only be written as deleted when nobody holds it, *)
(* or when that is recorded as a race.                                      *)
LEMMA RoleWritten ==
    ASSUME DirectoryTyped, TablesFit, NEW r \in RoleCodes, NEW w \in Role,
           role' = [role EXCEPT ![r] = w], UNCHANGED <<user, link>>,
           role[r] # NULL /\ role[r].raced => w.raced,
           w.deleted /\ r \in LiveRoles => w.raced \/ \A u \in LiveUsers : user[u].role # r,
           ~w.deleted => w.permissions = w.given \/ w.raced
    PROVE  /\ role' \in [RoleCodes -> Role \cup {NULL}]
           /\ \A s \in RoleCodes : role[s] # NULL => role'[s] # NULL
           /\ TablesFit'
<1>1. /\ role' \in [RoleCodes -> Role \cup {NULL}]
      /\ \A s \in RoleCodes : s # r => role'[s] = role[s]
      /\ role'[r] = w /\ w # NULL
  BY RowIsThere DEF DirectoryTyped
<1>2. LiveUsers' = LiveUsers
  BY DEF LiveUsers
<1>3. \A s \in RoleCodes : s # r => (s \in LiveRoles' <=> s \in LiveRoles)
  BY <1>1 DEF LiveRoles
<1>4. r \in LiveRoles' <=> ~w.deleted
  BY <1>1 DEF LiveRoles
<1>5. \A u \in LiveUsers : user[u].role \in RoleCodes /\ role[user[u].role] # NULL
  BY RowIsThere DEF LiveUsers, TablesFit, RolesKnown
<1>6. RolesKnown'
  <2> SUFFICES ASSUME NEW u \in Uids, user[u] # NULL  PROVE role'[user[u].role] # NULL
    BY DEF RolesKnown
  <2>1. user[u].role \in RoleCodes /\ role[user[u].role] # NULL
    BY RowIsThere DEF TablesFit, RolesKnown
  <2> QED  BY <2>1, <1>1
<1>7. LinksKnown'
  BY DEF TablesFit, LinksKnown
<1>8. RoleInUseIsKept'
  <2> SUFFICES ASSUME NEW u \in LiveUsers
               PROVE  user[u].role \in LiveRoles' \/ user[u].raced \/ role'[user[u].role].raced
    BY <1>2 DEF RoleInUseIsKept
  <2>1. user[u].role \in LiveRoles \/ user[u].raced \/ role[user[u].role].raced
    BY DEF TablesFit, RoleInUseIsKept
  <2>2. CASE user[u].role = r
    BY <2>1, <2>2, <1>1, <1>4, <1>5
  <2>3. CASE user[u].role # r
    BY <2>1, <2>3, <1>1, <1>3, <1>5
  <2> QED  BY <2>2, <2>3
<1>9. ClosedAccountsStayClosed'
  BY <1>2 DEF TablesFit, ClosedAccountsStayClosed
<1>10. PermissionsAreThoseGiven'
  <2> SUFFICES ASSUME NEW s \in LiveRoles'
               PROVE  role'[s].permissions = role'[s].given \/ role'[s].raced
    BY DEF PermissionsAreThoseGiven
  <2>0. s \in RoleCodes
    BY DEF LiveRoles
  <2>1. CASE s = r
    BY <2>1, <1>1, <1>4
  <2>2. CASE s # r
    BY <2>0, <2>2, <1>1, <1>3 DEF TablesFit, PermissionsAreThoseGiven
  <2> QED  BY <2>1, <2>2
<1> QED  BY <1>1, <1>6, <1>7, <1>8, <1>9, <1>10 DEF TablesFit

(* What the promise on the administrators asks of a write of account u.         *)
LEMMA AdminsKept ==
    ASSUME DeletionKeepsAnAdmin, lastAdmin \subseteq lastAdmin',
           \/ ActiveAdmins \subseteq ActiveAdmins'
           \/ ActiveAdmins' # {}
           \/ ActiveAdmins = {}
           \/ lastAdmin' \cap {"closed", "demoted", "deletedInRace"} # {}
    PROVE  DeletionKeepsAnAdmin'
  BY DEF DeletionKeepsAnAdmin

LEMMA AnotherAdmin ==
    ASSUME NEW u, Cardinality(ActiveAdmins) > 1
    PROVE  ActiveAdmins \ {u} # {}
<1> SUFFICES ASSUME ActiveAdmins \ {u} = {}  PROVE FALSE
  OBVIOUS
<1>1. ActiveAdmins = {} \/ ActiveAdmins = {u}
  OBVIOUS
<1>2. Cardinality(ActiveAdmins) \in {0, 1}
  BY <1>1, FS_EmptySet, FS_Singleton
<1> QED  BY <1>2

-----------------------------------------------------------------------------
(* The calls that start.                                                    *)

LEMMA StartKeeps ==
    ASSUME DirectoryInv, NEW c \in Calls, NEW work \in Work, NEW family,
           Start(c, family, work), UNCHANGED <<user, role, link, org, lastAdmin>>,
           KnownAt(c)', DecidesAt(c)', InFlight = {} => StillTrue(c)'
    PROVE  DirectoryInv'
<1>1. /\ call' \in [Calls -> Work \cup {NoCall}]
      /\ crossed' \subseteq InFlight'
      /\ CallsFit'
  BY StartFits DEF DirectoryInv
<1>2. DirectoryTyped'
  BY <1>1 DEF DirectoryInv, DirectoryTyped
<1>3. LiveUsers' = LiveUsers /\ LiveRoles' = LiveRoles /\ ActiveAdmins' = ActiveAdmins
  BY DEF LiveUsers, LiveRoles, ActiveAdmins
<1>4. TablesFit'
  BY <1>3 DEF DirectoryInv, TablesFit, RolesKnown, LinksKnown, RoleInUseIsKept,
              ClosedAccountsStayClosed, PermissionsAreThoseGiven
<1>5. DeletionKeepsAnAdmin'
  BY <1>3 DEF DirectoryInv, DeletionKeepsAnAdmin
<1> QED  BY <1>1, <1>2, <1>4, <1>5 DEF DirectoryInv

LEMMA StartedCall ==
    ASSUME DirectoryTyped, NEW c \in Calls, NEW work, NEW family, Start(c, family, work)
    PROVE  call'[c] = work
  BY DEF Start, DirectoryTyped

LEMMA LiveRows ==
    ASSUME DirectoryTyped, TablesFit
    PROVE  /\ \A u \in LiveUsers : /\ u \in Uids /\ user[u] \in User /\ user[u] # NULL
                                   /\ ~user[u].deleted /\ role[user[u].role] # NULL
           /\ \A r \in LiveRoles : /\ r \in RoleCodes /\ role[r] \in Role /\ role[r] # NULL
                                   /\ ~role[r].deleted
  BY RowIsThere DEF LiveUsers, LiveRoles, TablesFit, RolesKnown

LEMMA CreateUserCheckKeeps ==
    ASSUME DirectoryInv, NEW c \in Calls, NEW u \in Uids, NEW r \in RoleCodes,
           NEW o \in Orgs \cup {NULL}, CreateUserCheck(c, u, r, o)
    PROVE  DirectoryInv'
<1> DEFINE row == [role |-> r, organization |-> o, isActive |-> FALSE, deleted |-> FALSE,
                   closed |-> FALSE, byLink |-> FALSE, raced |-> FALSE]
           work == [pc |-> "insertUser", uid |-> u, row |-> row]
<1>1. Start(c, "users", work) /\ UNCHANGED <<user, role, link, org, lastAdmin>>
  BY DEF CreateUserCheck
<1>2. work \in Work
  BY DEF Work, Inserting, User
<1>3. call'[c] = work
  BY <1>1, StartedCall DEF DirectoryInv
<1>4. r \in LiveRoles
  BY DEF CreateUserCheck, Assignable, Resolvable
<1>5. r \in LiveRoles' /\ role'[r] # NULL
  BY <1>1, <1>4 DEF LiveRoles
<1>6. KnownAt(c)' /\ DecidesAt(c)' /\ StillTrue(c)'
  BY <1>3, <1>5 DEF KnownAt, DecidesAt, StillTrue, UserStillTrue, RoleStillTrue
<1> QED  BY <1>1, <1>2, <1>6, StartKeeps

LEMMA SaveStarts ==
    ASSUME DirectoryInv, NEW c \in Calls, NEW u \in LiveUsers, NEW row \in User,
           NEW intent \in {"edit", "deactivate", "reactivate"},
           Start(c, "users", [pc |-> "saveUser", uid |-> u, intent |-> intent, row |-> row]),
           UNCHANGED <<user, role, link, org, lastAdmin>>,
           row.role = user[u].role \/ row.role \in LiveRoles,
           intent = "edit" => row.isActive = user[u].isActive,
           intent = "deactivate" => ~row.isActive,
           intent = "reactivate" => ~row.closed
    PROVE  DirectoryInv'
<1> DEFINE work == [pc |-> "saveUser", uid |-> u, intent |-> intent, row |-> row]
<1>1. u \in Uids /\ user[u] # NULL /\ role[user[u].role] # NULL
  BY LiveRows DEF DirectoryInv
<1>2. work \in Work
  BY <1>1 DEF Work, Saving
<1>3. call'[c] = work
  BY StartedCall DEF DirectoryInv
<1>4. role[row.role] # NULL
  BY <1>1 DEF LiveRoles
<1>5. KnownAt(c)'
  BY <1>1, <1>3, <1>4 DEF KnownAt
<1>6. DecidesAt(c)'
  BY <1>3 DEF DecidesAt
<1>7. LiveUsers' = LiveUsers /\ LiveRoles' = LiveRoles
  BY DEF LiveUsers, LiveRoles
<1>8. StillTrue(c)'
  BY <1>3, <1>7 DEF StillTrue, UserStillTrue, RoleStillTrue
<1> QED  BY <1>2, <1>5, <1>6, <1>8, StartKeeps

LEMMA LoadUserKeeps ==
    ASSUME DirectoryInv, NEW c \in Calls, NEW u \in Uids, LoadUser(c, u)
    PROVE  DirectoryInv'
<1>1. u \in LiveUsers /\ UNCHANGED <<user, role, link, org, lastAdmin>>
  BY DEF LoadUser
<1>2. user[u] \in User
  BY <1>1, LiveRows DEF DirectoryInv
<1>3. CASE \E change \in Changes :
             /\ UpdateCheck(u, change)
             /\ Start(c, "users", [pc |-> "saveUser", uid |-> u, intent |-> "edit",
                                   row |-> Changed(user[u], change)])
  <2>1. PICK change \in Changes :
             /\ UpdateCheck(u, change)
             /\ Start(c, "users", [pc |-> "saveUser", uid |-> u, intent |-> "edit",
                                   row |-> Changed(user[u], change)])
    BY <1>3
  <2> DEFINE row == Changed(user[u], change)
  <2>2. row \in User /\ row.isActive = user[u].isActive
    BY <1>2 DEF Changed, Changes, User
  <2>3. row.role = user[u].role \/ row.role \in LiveRoles
    BY <1>2, <2>1 DEF Changed, User, UpdateCheck, Assignable, Resolvable
  <2> HIDE DEF row
  <2>4. Start(c, "users", [pc |-> "saveUser", uid |-> u, intent |-> "edit", row |-> row])
    BY <2>1 DEF row
  <2> QED  BY <1>1, <2>2, <2>3, <2>4, SaveStarts
<1>4. CASE Start(c, "users", [pc |-> "saveUser", uid |-> u, intent |-> "deactivate",
                row |-> [user[u] EXCEPT !.isActive = FALSE, !.closed = TRUE, !.byLink = FALSE]])
  <2> DEFINE row == [user[u] EXCEPT !.isActive = FALSE, !.closed = TRUE, !.byLink = FALSE]
  <2>1. row \in User /\ row.role = user[u].role /\ ~row.isActive
    BY <1>2 DEF User
  <2> HIDE DEF row
  <2>2. Start(c, "users", [pc |-> "saveUser", uid |-> u, intent |-> "deactivate", row |-> row])
    BY <1>4 DEF row
  <2> QED  BY <1>1, <2>1, <2>2, SaveStarts
<1>5. CASE Start(c, "users", [pc |-> "saveUser", uid |-> u, intent |-> "reactivate",
                row |-> [user[u] EXCEPT !.isActive = TRUE, !.closed = FALSE]])
  <2> DEFINE row == [user[u] EXCEPT !.isActive = TRUE, !.closed = FALSE]
  <2>1. row \in User /\ row.role = user[u].role /\ ~row.closed
    BY <1>2 DEF User
  <2> HIDE DEF row
  <2>2. Start(c, "users", [pc |-> "saveUser", uid |-> u, intent |-> "reactivate", row |-> row])
    BY <1>5 DEF row
  <2> QED  BY <1>1, <2>1, <2>2, SaveStarts
<1>6. CASE Start(c, "users", [pc |-> "saveUser", uid |-> u, intent |-> "edit", row |-> user[u]])
  BY <1>1, <1>2, <1>6, SaveStarts
<1> QED  BY <1>3, <1>4, <1>5, <1>6 DEF LoadUser

LEMMA DeleteUserCheckKeeps ==
    ASSUME DirectoryInv, NEW c \in Calls, NEW a \in Uids, NEW u \in Uids, DeleteUserCheck(c, a, u)
    PROVE  DirectoryInv'
<1> DEFINE work == [pc |-> "removeUser", uid |-> u]
<1>1. /\ Start(c, "users", work) /\ UNCHANGED <<user, role, link, org, lastAdmin>>
      /\ u \in LiveUsers /\ MayDelete(a, u)
  BY DEF DeleteUserCheck
<1>2. work \in Work
  BY DEF Work, OnAccount
<1>3. call'[c] = work
  BY <1>1, StartedCall DEF DirectoryInv
<1>4. user[u] # NULL
  BY <1>1, LiveRows DEF DirectoryInv
<1>5. user[u].role = "ADMIN" => ActiveAdmins \ {u} # {}
  BY <1>1, AnotherAdmin DEF MayDelete
<1>6. ActiveAdmins' = ActiveAdmins
  BY <1>1 DEF ActiveAdmins, LiveUsers
<1>7. KnownAt(c)' /\ DecidesAt(c)'
  BY <1>1, <1>3, <1>4 DEF KnownAt, DecidesAt
<1>8. StillTrue(c)'
  BY <1>1, <1>3, <1>5, <1>6 DEF StillTrue, UserStillTrue, RoleStillTrue
<1> QED  BY <1>1, <1>2, <1>7, <1>8, StartKeeps

LEMMA LoadLinkKeeps ==
    ASSUME DirectoryInv, NEW c \in Calls, NEW u \in Uids, LoadLink(c, u)
    PROVE  DirectoryInv'
<1> DEFINE work == [pc |-> "activate", uid |-> u]
<1>1. /\ Start(c, "links", work) /\ UNCHANGED <<user, role, link, org, lastAdmin>>
      /\ link[u] = "sent"
  BY DEF LoadLink
<1>2. work \in Work
  BY DEF Work, OnAccount
<1>3. call'[c] = work
  BY <1>1, StartedCall DEF DirectoryInv
<1>4. user[u] # NULL
  BY <1>1, DirectoryNull DEF DirectoryInv, TablesFit, LinksKnown
<1>5. KnownAt(c)' /\ DecidesAt(c)' /\ StillTrue(c)'
  BY <1>1, <1>3, <1>4 DEF KnownAt, DecidesAt, StillTrue, UserStillTrue, RoleStillTrue
<1> QED  BY <1>1, <1>2, <1>5, StartKeeps

LEMMA CreateRoleCheckKeeps ==
    ASSUME DirectoryInv, NEW c \in Calls, NEW r \in CustomRoles,
           NEW scope \in {"INTERNAL", "CLIENT"}, NEW codes \in SUBSET Permissions,
           CreateRoleCheck(c, r, scope, codes)
    PROVE  DirectoryInv'
<1> DEFINE work == [pc |-> "insertRole", code |-> r, scope |-> scope, codes |-> codes]
<1>1. /\ Start(c, "roles", work) /\ UNCHANGED <<user, role, link, org, lastAdmin>>
      /\ r \notin LiveRoles
  BY DEF CreateRoleCheck
<1>2. work \in Work
  BY DEF Work, InsertingRole
<1>3. call'[c] = work
  BY <1>1, StartedCall DEF DirectoryInv
<1>4. r \notin LiveRoles'
  BY <1>1 DEF LiveRoles
<1>5. KnownAt(c)' /\ DecidesAt(c)' /\ StillTrue(c)'
  BY <1>3, <1>4 DEF KnownAt, DecidesAt, StillTrue, UserStillTrue, RoleStillTrue
<1> QED  BY <1>1, <1>2, <1>5, StartKeeps

LEMMA LoadRoleKeeps ==
    ASSUME DirectoryInv, NEW c \in Calls, NEW r \in RoleCodes, NEW isActive \in BOOLEAN,
           NEW codes \in SUBSET Permissions, LoadRole(c, r, isActive, codes)
    PROVE  DirectoryInv'
<1> DEFINE row  == [role[r] EXCEPT !.isActive = isActive]
           work == [pc |-> "replacePermissions", code |-> r, codes |-> codes, row |-> row]
<1>1. /\ Start(c, "roles", work) /\ UNCHANGED <<user, role, link, org, lastAdmin>>
      /\ r \in LiveRoles
  BY DEF LoadRole
<1>2. role[r] \in Role /\ role[r] # NULL /\ ~role[r].deleted
  BY <1>1, LiveRows DEF DirectoryInv
<1>3. row \in Role /\ ~row.deleted
  BY <1>2 DEF Role
<1> HIDE DEF row
<1>4. work \in Work
  BY <1>3 DEF Work, Replacing
<1>5. call'[c] = work
  BY <1>1, StartedCall DEF DirectoryInv
<1>6. r \in LiveRoles'
  BY <1>1 DEF LiveRoles
<1>7. KnownAt(c)' /\ DecidesAt(c)' /\ StillTrue(c)'
  BY <1>1, <1>2, <1>3, <1>5, <1>6
     DEF KnownAt, DecidesAt, StillTrue, UserStillTrue, RoleStillTrue
<1> QED  BY <1>1, <1>4, <1>7, StartKeeps

LEMMA RemoveRoleCheckKeeps ==
    ASSUME DirectoryInv, NEW c \in Calls, NEW r \in RoleCodes, RemoveRoleCheck(c, r)
    PROVE  DirectoryInv'
<1> DEFINE work == [pc |-> "deletePermissions", code |-> r]
<1>1. /\ Start(c, "roles", work) /\ UNCHANGED <<user, role, link, org, lastAdmin>>
      /\ r \in LiveRoles /\ \A u \in LiveUsers : user[u].role # r
  BY DEF RemoveRoleCheck
<1>2. work \in Work
  BY DEF Work, RemovingRole
<1>3. call'[c] = work
  BY <1>1, StartedCall DEF DirectoryInv
<1>4. role[r] # NULL
  BY <1>1 DEF LiveRoles
<1>5. LiveUsers' = LiveUsers
  BY <1>1 DEF LiveUsers
<1>6. KnownAt(c)' /\ DecidesAt(c)' /\ StillTrue(c)'
  BY <1>1, <1>3, <1>4, <1>5 DEF KnownAt, DecidesAt, StillTrue, UserStillTrue, RoleStillTrue
<1> QED  BY <1>1, <1>2, <1>6, StartKeeps

LEMMA LoadOrganizationKeeps ==
    ASSUME DirectoryInv, NEW c \in Calls, NEW o \in Orgs, NEW u \in Uids \cup {NULL},
           LoadOrganization(c, o, u)
    PROVE  DirectoryInv'
<1> DEFINE row  == [org[o] EXCEPT !.defaultAssignee = u]
           work == [pc |-> "saveOrganization", code |-> o, row |-> row]
<1>1. Start(c, "organizations", work) /\ UNCHANGED <<user, role, link, org, lastAdmin>>
  BY DEF LoadOrganization
<1>2. row \in Organization
  BY DEF DirectoryInv, DirectoryTyped, Organization
<1> HIDE DEF row
<1>3. work \in Work
  BY <1>2 DEF Work, SavingOrganization
<1>4. call'[c] = work
  BY <1>1, StartedCall DEF DirectoryInv
<1>5. KnownAt(c)' /\ DecidesAt(c)' /\ StillTrue(c)'
  BY <1>4 DEF KnownAt, DecidesAt, StillTrue, UserStillTrue, RoleStillTrue
<1> QED  BY <1>1, <1>3, <1>5, StartKeeps

-----------------------------------------------------------------------------
(* The calls that go on.                                                    *)

LEMMA AtWork ==
    ASSUME DirectoryTyped, NEW c \in Calls
    PROVE  /\ call[c].pc = "insertUser" => call[c] \in Inserting
           /\ call[c].pc \in {"insertLink", "removeUser", "activate", "useLink"}
                => call[c] \in OnAccount
           /\ call[c].pc = "saveUser" => call[c] \in Saving
           /\ call[c].pc = "insertRole" => call[c] \in InsertingRole
           /\ call[c].pc = "replacePermissions" => call[c] \in Replacing
           /\ call[c].pc = "commitRole" => call[c] \in Committing
           /\ call[c].pc \in {"deletePermissions", "removeRole"} => call[c] \in RemovingRole
           /\ call[c].pc = "saveOrganization" => call[c] \in SavingOrganization
           /\ call[c].pc # "idle" => c \in InFlight
<1>1. call[c] \in Work \cup {NoCall}
  BY DEF DirectoryTyped
<1>2. call[c].pc # "idle" => call[c] # NoCall
  BY DEF NoCall
<1> QED
  BY <1>1, <1>2 DEF InFlight, NoCall, Work, Inserting, OnAccount, Saving, InsertingRole,
                    Replacing, Committing, RemovingRole, SavingOrganization

LEMMA FinishFits ==
    ASSUME DirectoryTyped, CallsFit, NEW c \in InFlight, Finish(c),
           \A u \in Uids : user[u] # NULL => user'[u] # NULL,
           \A r \in RoleCodes : role[r] # NULL => role'[r] # NULL
    PROVE  /\ call' \in [Calls -> Work \cup {NoCall}]
           /\ crossed' \subseteq InFlight'
           /\ CallsFit'
  BY StepFits DEF Finish

LEMMA ContinueFits ==
    ASSUME DirectoryTyped, CallsFit, NEW c \in InFlight, NEW work \in Work, Continue(c, work),
           \A u \in Uids : user[u] # NULL => user'[u] # NULL,
           \A r \in RoleCodes : role[r] # NULL => role'[r] # NULL,
           KnownAt(c)', DecidesAt(c)', c \notin crossed => StillTrue(c)'
    PROVE  /\ call' \in [Calls -> Work \cup {NoCall}]
           /\ crossed' \subseteq InFlight'
           /\ CallsFit'
<1>1. work # NoCall
  BY DEF Work, NoCall, Inserting, OnAccount, Saving, InsertingRole, Replacing, Committing,
         RemovingRole, SavingOrganization
<1> QED  BY <1>1, StepFits DEF Continue

LEMMA ContinuedCall ==
    ASSUME DirectoryTyped, NEW c \in InFlight, NEW work, Continue(c, work)
    PROVE  call'[c] = work
  BY DEF Continue, DirectoryTyped, InFlight

LEMMA TablesStay ==
    ASSUME TablesFit, UNCHANGED <<user, role>>, \A u \in Uids : link'[u] # NULL => user[u] # NULL
    PROVE  TablesFit' /\ LiveUsers' = LiveUsers /\ LiveRoles' = LiveRoles
           /\ ActiveAdmins' = ActiveAdmins
<1>1. LiveUsers' = LiveUsers /\ LiveRoles' = LiveRoles /\ ActiveAdmins' = ActiveAdmins
  BY DEF LiveUsers, LiveRoles, ActiveAdmins
<1> QED  BY <1>1 DEF TablesFit, RolesKnown, LinksKnown, RoleInUseIsKept,
                     ClosedAccountsStayClosed, PermissionsAreThoseGiven

LEMMA InsertUserKeeps ==
    ASSUME DirectoryInv, NEW c \in Calls, InsertUser(c)
    PROVE  DirectoryInv'
<1> USE DEF DirectoryInv
<1> DEFINE u   == call[c].uid
           met == c \in crossed
           w   == [call[c].row EXCEPT !.raced = met]
<1>1. call[c] \in Inserting /\ c \in InFlight
  BY AtWork DEF InsertUser
<1>2. u \in Uids /\ call[c].row \in User
  BY <1>1 DEF Inserting
<1>3. UNCHANGED <<role, link, org, lastAdmin>>
  BY DEF InsertUser
<1>4. CASE user[u] = NULL /\ Storable(call[c].row)
  <2> DEFINE work == [pc |-> "insertLink", uid |-> u]
  <2>1. user' = [user EXCEPT ![u] = w] /\ Continue(c, work)
    BY <1>4 DEF InsertUser
  <2>2. met \in BOOLEAN /\ (c \notin crossed <=> ~met)
    OBVIOUS
  <2> HIDE DEF met
  <2>2a. /\ w \in User /\ w.role = call[c].row.role /\ w.raced = met
         /\ w.closed = call[c].row.closed
    BY <1>2, <2>2 DEF User
  <2>3. role[w.role] # NULL /\ ~w.closed
    BY <1>1, <2>2a DEF CallsFit, KnownAt, DecidesAt, Inserting
  <2>4. w.role \in LiveRoles \/ w.raced
    BY <1>1, <2>2, <2>2a DEF CallsFit, StillTrue, UserStillTrue, Inserting
  <2> HIDE DEF w
  <2>5. /\ user' \in [Uids -> User \cup {NULL}]
        /\ \A v \in Uids : user[v] # NULL => user'[v] # NULL
        /\ TablesFit'
    BY <1>2, <1>3, <2>1, <2>2a, <2>3, <2>4, UserWritten
  <2>6. work \in Work /\ call'[c] = work
    BY <1>1, <1>2, <2>1, ContinuedCall DEF Work, OnAccount
  <2>7. user'[u] # NULL
    BY <1>2, <2>1, <2>2a, RowIsThere DEF DirectoryTyped
  <2>8. KnownAt(c)' /\ DecidesAt(c)' /\ StillTrue(c)'
    BY <2>6, <2>7 DEF KnownAt, DecidesAt, StillTrue, UserStillTrue, RoleStillTrue
  <2>9. call' \in [Calls -> Work \cup {NoCall}] /\ crossed' \subseteq InFlight' /\ CallsFit'
    BY <1>1, <1>3, <2>1, <2>5, <2>6, <2>8, ContinueFits
  <2>10. DirectoryTyped'
    BY <1>3, <2>5, <2>9 DEF DirectoryTyped
  <2>11. ActiveAdmins \subseteq ActiveAdmins'
    BY <1>2, <1>4, <2>1 DEF ActiveAdmins, LiveUsers, DirectoryTyped
  <2> QED  BY <1>3, <2>5, <2>9, <2>10, <2>11, AdminsKept
<1>5. CASE ~(user[u] = NULL /\ Storable(call[c].row))
  <2>1. Finish(c) /\ user' = user
    BY <1>5 DEF InsertUser
  <2>2. TablesFit' /\ ActiveAdmins' = ActiveAdmins
    BY <1>3, <2>1, TablesStay DEF TablesFit, LinksKnown
  <2>3. call' \in [Calls -> Work \cup {NoCall}] /\ crossed' \subseteq InFlight' /\ CallsFit'
    BY <1>1, <1>3, <2>1, FinishFits
  <2> QED  BY <1>3, <2>1, <2>2, <2>3, AdminsKept DEF DirectoryTyped
<1> QED  BY <1>4, <1>5

(* The steps that write neither an account nor a role.                        *)
LEMMA QuietFinishKeeps ==
    ASSUME DirectoryInv, NEW c \in InFlight, Finish(c), UNCHANGED <<user, role, lastAdmin>>,
           link' \in [Uids -> {NULL, "sent", "used", "expired"}],
           org' \in [Orgs -> Organization],
           \A u \in Uids : link'[u] # NULL => user[u] # NULL
    PROVE  DirectoryInv'
<1> USE DEF DirectoryInv
<1>1. TablesFit' /\ ActiveAdmins' = ActiveAdmins
  BY TablesStay
<1>2. call' \in [Calls -> Work \cup {NoCall}] /\ crossed' \subseteq InFlight' /\ CallsFit'
  BY FinishFits
<1> QED  BY <1>1, <1>2, AdminsKept DEF DirectoryTyped

LEMMA InsertLinkKeeps ==
    ASSUME DirectoryInv, NEW c \in Calls, InsertLink(c)
    PROVE  DirectoryInv'
<1> USE DEF DirectoryInv
<1>1. call[c] \in OnAccount /\ c \in InFlight
  BY AtWork DEF InsertLink
<1>2. call[c].uid \in Uids /\ user[call[c].uid] # NULL
  BY <1>1 DEF OnAccount, CallsFit, KnownAt, InsertLink
<1>3. /\ link' \in [Uids -> {NULL, "sent", "used", "expired"}]
      /\ \A u \in Uids : link'[u] # NULL => user[u] # NULL
  BY <1>2 DEF InsertLink, DirectoryTyped, TablesFit, LinksKnown
<1> QED  BY <1>1, <1>3, QuietFinishKeeps DEF InsertLink, DirectoryTyped

LEMMA UseLinkKeeps ==
    ASSUME DirectoryInv, NEW c \in Calls, UseLink(c)
    PROVE  DirectoryInv'
<1> USE DEF DirectoryInv
<1>1. call[c] \in OnAccount /\ c \in InFlight
  BY AtWork DEF UseLink
<1>2. call[c].uid \in Uids /\ user[call[c].uid] # NULL
  BY <1>1 DEF OnAccount, CallsFit, KnownAt, UseLink
<1>3. /\ link' \in [Uids -> {NULL, "sent", "used", "expired"}]
      /\ \A u \in Uids : link'[u] # NULL => user[u] # NULL
  BY <1>2 DEF UseLink, DirectoryTyped, TablesFit, LinksKnown
<1> QED  BY <1>1, <1>3, QuietFinishKeeps DEF UseLink, DirectoryTyped

LEMMA SaveOrganizationKeeps ==
    ASSUME DirectoryInv, NEW c \in Calls, SaveOrganization(c)
    PROVE  DirectoryInv'
<1> USE DEF DirectoryInv
<1>1. call[c] \in SavingOrganization /\ c \in InFlight
  BY AtWork DEF SaveOrganization
<1>2. org' \in [Orgs -> Organization]
  BY <1>1 DEF SaveOrganization, SavingOrganization, DirectoryTyped
<1> QED  BY <1>1, <1>2, QuietFinishKeeps DEF SaveOrganization, DirectoryTyped, TablesFit, LinksKnown

LEMMA DirectoryCrashKeeps ==
    ASSUME DirectoryInv, NEW c \in Calls, DirectoryCrash(c)
    PROVE  DirectoryInv'
  BY QuietFinishKeeps DEF DirectoryCrash, InFlight, DirectoryInv, DirectoryTyped, TablesFit, LinksKnown

LEMMA RecordsItsCause ==
    ASSUME NEW cause, RecordLastAdmin(cause)
    PROVE  /\ lastAdmin \subseteq lastAdmin'
           /\ lastAdmin' \subseteq lastAdmin \cup {cause}
           /\ ActiveAdmins # {} /\ ActiveAdmins' = {} => cause \in lastAdmin'
  BY DEF RecordLastAdmin

LEMMA SaveUserKeeps ==
    ASSUME DirectoryInv, NEW c \in Calls, SaveUser(c)
    PROVE  DirectoryInv'
<1> USE DEF DirectoryInv
<1> DEFINE u      == call[c].uid
           row    == call[c].row
           intent == call[c].intent
           met    == user[u].raced \/ c \in crossed
           closed == IF intent = "edit" THEN user[u].closed ELSE row.closed
           byLink == IF intent = "deactivate" THEN FALSE ELSE user[u].byLink
           w      == [row EXCEPT !.raced = met, !.closed = closed, !.byLink = byLink]
           cause  == IF intent = "edit" THEN "demoted" ELSE "closed"
<1>1. call[c] \in Saving /\ c \in InFlight
  BY AtWork DEF SaveUser
<1>2. /\ u \in Uids /\ row \in User
      /\ intent \in {"edit", "deactivate", "reactivate"}
  BY <1>1 DEF Saving
<1>3. call[c].pc = "saveUser" /\ Finish(c) /\ RecordLastAdmin(cause) /\ UNCHANGED <<role, link, org>>
  BY DEF SaveUser
<1>4. KnownAt(c) /\ DecidesAt(c) /\ (c \notin crossed => UserStillTrue(c))
  BY <1>1 DEF CallsFit, StillTrue
<1>5. user[u] \in User /\ role[row.role] # NULL
  BY <1>2, <1>3, <1>4, RowIsThere DEF KnownAt
<1>6. /\ user' \in [Uids -> User \cup {NULL}]
      /\ \A v \in Uids : user[v] # NULL => user'[v] # NULL
      /\ TablesFit'
  <2>1. CASE Storable(row)
    <3>1. user' = [user EXCEPT ![u] = w]
      BY <2>1 DEF SaveUser
    <3>2. met \in BOOLEAN /\ closed \in BOOLEAN /\ byLink \in BOOLEAN
      BY <1>2, <1>5 DEF User
    <3>3. ~row.deleted => row.role \in LiveRoles \/ met \/ role[row.role].raced
      BY <1>2, <1>3, <1>4 DEF UserStillTrue, TablesFit, RoleInUseIsKept
    <3>4. ~row.deleted /\ closed /\ row.isActive => byLink \/ met
      <4> SUFFICES ASSUME closed, row.isActive, ~met  PROVE byLink
        OBVIOUS
      <4>1. u \in LiveUsers /\ (intent = "edit" => row.isActive = user[u].isActive)
        BY <1>3, <1>4 DEF UserStillTrue
      <4>2. intent = "edit"
        BY <1>2, <1>3, <1>4 DEF DecidesAt
      <4> QED  BY <4>1, <4>2 DEF TablesFit, ClosedAccountsStayClosed
    <3> HIDE DEF met, closed, byLink
    <3>5. /\ w \in User /\ w.role = row.role /\ w.isActive = row.isActive
          /\ w.deleted = row.deleted
          /\ w.raced = met /\ w.closed = closed /\ w.byLink = byLink
      <4> HIDE DEF row
      <4> QED  BY <1>2, <3>2 DEF User
    <3> HIDE DEF w
    <3> QED  BY <1>2, <1>3, <1>5, <3>1, <3>3, <3>4, <3>5, UserWritten
  <2>2. CASE ~Storable(row)
    <3>1. user' = user
      BY <2>2 DEF SaveUser
    <3> QED  BY <1>3, <3>1, TablesStay DEF DirectoryTyped, TablesFit, LinksKnown
  <2> QED  BY <2>1, <2>2
<1>7. call' \in [Calls -> Work \cup {NoCall}] /\ crossed' \subseteq InFlight' /\ CallsFit'
  BY <1>1, <1>3, <1>6, FinishFits
<1>8. DirectoryTyped'
  BY <1>3, <1>6, <1>7, RecordsItsCause DEF DirectoryTyped
<1>9. DeletionKeepsAnAdmin'
  BY <1>3, RecordsItsCause, AdminsKept
<1> QED  BY <1>6, <1>7, <1>8, <1>9

LEMMA RemoveUserKeeps ==
    ASSUME DirectoryInv, NEW c \in Calls, RemoveUser(c)
    PROVE  DirectoryInv'
<1> USE DEF DirectoryInv
<1> DEFINE u   == call[c].uid
           met == user[u].raced \/ c \in crossed
           w   == [user[u] EXCEPT !.deleted = TRUE, !.closed = TRUE, !.byLink = FALSE, !.raced = met]
           cause == IF c \in crossed THEN "deletedInRace" ELSE "deleted"
<1>1. call[c] \in OnAccount /\ c \in InFlight
  BY AtWork DEF RemoveUser
<1>2. u \in Uids
  BY <1>1 DEF OnAccount
<1>3. /\ call[c].pc = "removeUser" /\ Finish(c) /\ RecordLastAdmin(cause)
      /\ UNCHANGED <<role, link, org>>
  BY DEF RemoveUser
<1>4. user[u] \in User /\ role[user[u].role] # NULL
  BY <1>1, <1>2, <1>3, RowIsThere DEF CallsFit, KnownAt, TablesFit, RolesKnown
<1>5. user' = [user EXCEPT ![u] = w]
  BY <1>2 DEF RemoveUser, DirectoryTyped
<1>6. met \in BOOLEAN
  BY <1>4 DEF User
<1> HIDE DEF met
<1>7. w \in User /\ w.deleted /\ w.role = user[u].role
  BY <1>4, <1>6 DEF User
<1> HIDE DEF w
<1>8. /\ user' \in [Uids -> User \cup {NULL}]
      /\ \A v \in Uids : user[v] # NULL => user'[v] # NULL
      /\ TablesFit'
  BY <1>2, <1>3, <1>4, <1>5, <1>7, UserWritten
<1>9. call' \in [Calls -> Work \cup {NoCall}] /\ crossed' \subseteq InFlight' /\ CallsFit'
  BY <1>1, <1>3, <1>8, FinishFits
<1>10. DirectoryTyped'
  BY <1>3, <1>8, <1>9, RecordsItsCause DEF DirectoryTyped
<1>11. ActiveAdmins \ {u} \subseteq ActiveAdmins'
  BY <1>5 DEF ActiveAdmins, LiveUsers, DirectoryTyped
<1>12. DeletionKeepsAnAdmin'
  <2>1. CASE c \in crossed
    BY <1>3, <2>1, RecordsItsCause, AdminsKept
  <2>2. CASE c \notin crossed
    <3>1. user[u].role = "ADMIN" => ActiveAdmins \ {u} # {}
      BY <1>1, <1>3, <2>2 DEF CallsFit, StillTrue, UserStillTrue
    <3>2. user[u].role # "ADMIN" => u \notin ActiveAdmins
      BY DEF ActiveAdmins
    <3>3. ActiveAdmins \subseteq ActiveAdmins' \/ ActiveAdmins' # {}
      BY <1>11, <3>1, <3>2
    <3> QED  BY <1>3, <3>3, RecordsItsCause, AdminsKept
  <2> QED  BY <2>1, <2>2
<1> QED  BY <1>8, <1>9, <1>10, <1>12

LEMMA ActivateKeeps ==
    ASSUME DirectoryInv, NEW c \in Calls, Activate(c)
    PROVE  DirectoryInv'
<1> USE DEF DirectoryInv
<1> DEFINE u    == call[c].uid
           w    == [user[u] EXCEPT !.isActive = TRUE, !.byLink = TRUE]
           work == [pc |-> "useLink", uid |-> u]
<1>1. call[c] \in OnAccount /\ c \in InFlight
  BY AtWork DEF Activate
<1>2. u \in Uids
  BY <1>1 DEF OnAccount
<1>3. call[c].pc = "activate" /\ Continue(c, work) /\ UNCHANGED <<role, link, org, lastAdmin>>
  BY DEF Activate
<1>4. user[u] \in User /\ user[u] # NULL /\ role[user[u].role] # NULL
  BY <1>1, <1>2, <1>3, RowIsThere DEF CallsFit, KnownAt, TablesFit, RolesKnown
<1>5. user' = [user EXCEPT ![u] = w]
  BY <1>2 DEF Activate, DirectoryTyped
<1>6. /\ w \in User /\ w.byLink /\ w.isActive /\ w.role = user[u].role
      /\ w.deleted = user[u].deleted /\ w.raced = user[u].raced
  BY <1>4 DEF User
<1> HIDE DEF w
<1>7. ~w.deleted => w.role \in LiveRoles \/ w.raced \/ role[w.role].raced
  BY <1>2, <1>4, <1>6 DEF TablesFit, RoleInUseIsKept, LiveUsers
<1>8. /\ user' \in [Uids -> User \cup {NULL}]
      /\ \A v \in Uids : user[v] # NULL => user'[v] # NULL
      /\ TablesFit'
  BY <1>2, <1>3, <1>4, <1>5, <1>6, <1>7, UserWritten
<1>9. work \in Work /\ call'[c] = work
  BY <1>1, <1>2, <1>3, ContinuedCall DEF Work, OnAccount
<1>10. KnownAt(c)' /\ DecidesAt(c)' /\ StillTrue(c)'
  BY <1>2, <1>4, <1>8, <1>9 DEF KnownAt, DecidesAt, StillTrue, UserStillTrue, RoleStillTrue
<1>11. call' \in [Calls -> Work \cup {NoCall}] /\ crossed' \subseteq InFlight' /\ CallsFit'
  BY <1>1, <1>3, <1>8, <1>9, <1>10, ContinueFits
<1>12. DirectoryTyped'
  BY <1>3, <1>8, <1>11 DEF DirectoryTyped
<1>13. ActiveAdmins \subseteq ActiveAdmins'
  BY <1>2, <1>5, <1>6, <1>8 DEF ActiveAdmins, LiveUsers, DirectoryTyped
<1> QED  BY <1>3, <1>8, <1>11, <1>12, <1>13, AdminsKept

(* A call that writes the row of a role, and ends.                            *)
LEMMA RoleStepKeeps ==
    ASSUME DirectoryInv, NEW c \in InFlight, NEW r \in RoleCodes, NEW w \in Role,
           role' = [role EXCEPT ![r] = w], UNCHANGED <<user, link, org, lastAdmin>>,
           role[r] # NULL /\ role[r].raced => w.raced,
           w.deleted /\ r \in LiveRoles => w.raced \/ \A u \in LiveUsers : user[u].role # r,
           ~w.deleted => w.permissions = w.given \/ w.raced,
           Finish(c)
    PROVE  DirectoryInv'
<1> USE DEF DirectoryInv
<1>1. /\ role' \in [RoleCodes -> Role \cup {NULL}]
      /\ \A s \in RoleCodes : role[s] # NULL => role'[s] # NULL
      /\ TablesFit'
  BY RoleWritten
<1>2. call' \in [Calls -> Work \cup {NoCall}] /\ crossed' \subseteq InFlight' /\ CallsFit'
  BY <1>1, FinishFits
<1>3. ActiveAdmins' = ActiveAdmins
  BY DEF ActiveAdmins, LiveUsers
<1> QED  BY <1>1, <1>2, <1>3, AdminsKept DEF DirectoryTyped

LEMMA InsertRoleKeeps ==
    ASSUME DirectoryInv, NEW c \in Calls, InsertRole(c)
    PROVE  DirectoryInv'
<1> USE DEF DirectoryInv
<1> DEFINE r     == call[c].code
           old   == IF role[r] = NULL THEN {} ELSE role[r].permissions
           met   == c \in crossed \/ (role[r] # NULL /\ role[r].raced)
           gone  == role[r] # NULL /\ role[r].deleted
           w     == [scope |-> call[c].scope, isSystem |-> FALSE, isActive |-> TRUE,
                     deleted |-> gone, permissions |-> old \cup call[c].codes,
                     given |-> call[c].codes, raced |-> met]
<1>1. call[c] \in InsertingRole /\ c \in InFlight
  BY AtWork DEF InsertRole
<1>2. /\ r \in RoleCodes /\ call[c].scope \in {"INTERNAL", "CLIENT"}
      /\ call[c].codes \in SUBSET Permissions
  BY <1>1 DEF InsertingRole, RoleCodes
<1>3. call[c].pc = "insertRole" /\ Finish(c) /\ UNCHANGED <<user, link, org, lastAdmin>>
  BY DEF InsertRole
<1>4. CASE old \cap call[c].codes # {}
  <2>1. role' = role
    BY <1>4 DEF InsertRole
  <2> QED  BY <1>1, <1>3, <2>1, QuietFinishKeeps DEF DirectoryTyped, TablesFit, LinksKnown
<1>5. CASE old \cap call[c].codes = {}
  <2>1. role' = [role EXCEPT ![r] = w]
    BY <1>5 DEF InsertRole
  <2>2. role[r] = NULL \/ role[r] \in Role
    BY <1>2, RowIsThere
  <2>3. old \in SUBSET Permissions /\ met \in BOOLEAN /\ gone \in BOOLEAN
    BY <2>2 DEF Role
  <2>4. gone => r \notin LiveRoles
    BY DEF LiveRoles
  <2>5. role[r] # NULL /\ role[r].raced => met
    OBVIOUS
  <2>6. ~gone => old \cup call[c].codes = call[c].codes \/ met
    <3> SUFFICES ASSUME ~gone, c \notin crossed  PROVE old = {}
      OBVIOUS
    <3>1. r \notin LiveRoles
      BY <1>1, <1>3 DEF CallsFit, StillTrue, RoleStillTrue
    <3> QED  BY <1>2, <3>1 DEF LiveRoles
  <2> HIDE DEF old, met, gone
  <2>7. /\ w \in Role /\ w.deleted = gone /\ w.raced = met
        /\ w.permissions = old \cup call[c].codes /\ w.given = call[c].codes
    BY <1>2, <2>3 DEF Role
  <2> HIDE DEF w
  <2> QED  BY <1>1, <1>2, <1>3, <2>1, <2>4, <2>5, <2>6, <2>7, RoleStepKeeps
<1> QED  BY <1>4, <1>5

LEMMA DeletePermissionsKeeps ==
    ASSUME DirectoryInv, NEW c \in Calls, DeletePermissions(c)
    PROVE  DirectoryInv'
<1> USE DEF DirectoryInv
<1> DEFINE r    == call[c].code
           work == [pc |-> "commitRole", code |-> r, codes |-> call[c].codes,
                    row |-> call[c].row, seen |-> role[r].permissions]
<1>1. call[c] \in Replacing /\ c \in InFlight
  BY AtWork DEF DeletePermissions
<1>2. r \in RoleCodes /\ call[c].codes \in SUBSET Permissions /\ call[c].row \in Role
  BY <1>1 DEF Replacing
<1>3. /\ call[c].pc = "replacePermissions" /\ Continue(c, work)
      /\ UNCHANGED <<user, role, link, org, lastAdmin>>
  BY DEF DeletePermissions
<1>4. role[r] \in Role /\ role[r] # NULL
  BY <1>1, <1>2, <1>3, RowIsThere DEF CallsFit, KnownAt
<1>5. work \in Work
  BY <1>2, <1>4 DEF Work, Committing, Role
<1>6. call'[c] = work
  BY <1>1, <1>3, ContinuedCall
<1>7. KnownAt(c)' /\ DecidesAt(c)'
  BY <1>3, <1>4, <1>6 DEF KnownAt, DecidesAt
<1>8. TablesFit' /\ LiveRoles' = LiveRoles /\ ActiveAdmins' = ActiveAdmins
  BY <1>3, TablesStay DEF TablesFit, LinksKnown
<1>9. c \notin crossed => StillTrue(c)'
  <2> SUFFICES ASSUME c \notin crossed  PROVE StillTrue(c)'
    OBVIOUS
  <2>1. r \in LiveRoles /\ ~call[c].row.deleted
    BY <1>1, <1>3 DEF CallsFit, StillTrue, RoleStillTrue
  <2> QED  BY <1>3, <1>6, <1>8, <2>1 DEF StillTrue, UserStillTrue, RoleStillTrue
<1>10. call' \in [Calls -> Work \cup {NoCall}] /\ crossed' \subseteq InFlight' /\ CallsFit'
  BY <1>1, <1>3, <1>5, <1>7, <1>9, ContinueFits
<1>11. DirectoryTyped'
  BY <1>3, <1>10 DEF DirectoryTyped
<1> QED  BY <1>3, <1>8, <1>10, <1>11, AdminsKept

LEMMA CommitRoleKeeps ==
    ASSUME DirectoryInv, NEW c \in Calls, CommitRole(c)
    PROVE  DirectoryInv'
<1> USE DEF DirectoryInv
<1> DEFINE r    == call[c].code
           row  == call[c].row
           now  == Replaced(role[r].permissions, call[c].seen, call[c].codes)
           met  == role[r].raced \/ c \in crossed
           w    == [row EXCEPT !.permissions = now, !.given = call[c].codes, !.raced = met]
<1>1. call[c] \in Committing /\ c \in InFlight
  BY AtWork DEF CommitRole
<1>2. /\ r \in RoleCodes /\ call[c].codes \in SUBSET Permissions /\ row \in Role
      /\ call[c].seen \in SUBSET Permissions
  BY <1>1 DEF Committing
<1>3. call[c].pc = "commitRole" /\ Finish(c) /\ UNCHANGED <<user, link, org, lastAdmin>>
  BY DEF CommitRole
<1>4. role[r] \in Role /\ role[r] # NULL
  BY <1>1, <1>2, <1>3, RowIsThere DEF CallsFit, KnownAt
<1>5. role' = role \/ role' = [role EXCEPT ![r] = w]
  BY DEF CommitRole
<1>6. CASE role' = role
  BY <1>1, <1>3, <1>6, QuietFinishKeeps DEF DirectoryTyped, TablesFit, LinksKnown
<1>7. CASE role' = [role EXCEPT ![r] = w]
  <2>1. now \in SUBSET Permissions /\ met \in BOOLEAN
    BY <1>2, <1>4 DEF Replaced, Role
  <2>2. role[r].raced => met
    OBVIOUS
  <2>3. row.deleted => met
    BY <1>1, <1>3 DEF CallsFit, StillTrue, RoleStillTrue
  <2>4. now = call[c].codes \/ met
    <3> SUFFICES ASSUME c \notin crossed  PROVE now = call[c].codes
      OBVIOUS
    <3>1. call[c].seen = role[r].permissions
      BY <1>1, <1>3 DEF CallsFit, StillTrue, RoleStillTrue
    <3> QED  BY <3>1 DEF Replaced
  <2> HIDE DEF now, met
  <2>5. /\ w \in Role /\ w.deleted = row.deleted /\ w.raced = met
        /\ w.permissions = now /\ w.given = call[c].codes
    <3> DEFINE codes == call[c].codes
    <3>1. codes \in SUBSET Permissions
      BY <1>2
    <3> HIDE DEF row, codes
    <3> QED  BY <1>2, <2>1, <3>1 DEF Role, codes
  <2> HIDE DEF w
  <2> QED  BY <1>1, <1>2, <1>3, <1>7, <2>2, <2>3, <2>4, <2>5, RoleStepKeeps
<1> QED  BY <1>5, <1>6, <1>7

LEMMA RemovePermissionsKeeps ==
    ASSUME DirectoryInv, NEW c \in Calls, RemovePermissions(c)
    PROVE  DirectoryInv'
<1> USE DEF DirectoryInv
<1> DEFINE r    == call[c].code
           met  == role[r].raced \/ c \in crossed
           w    == [role[r] EXCEPT !.permissions = {}, !.given = {}, !.raced = met]
           work == [pc |-> "removeRole", code |-> r]
<1>1. call[c] \in RemovingRole /\ c \in InFlight
  BY AtWork DEF RemovePermissions
<1>2. r \in RoleCodes
  BY <1>1 DEF RemovingRole
<1>3. /\ call[c].pc = "deletePermissions" /\ Continue(c, work)
      /\ UNCHANGED <<user, link, org, lastAdmin>>
  BY DEF RemovePermissions
<1>4. role[r] \in Role /\ role[r] # NULL
  BY <1>1, <1>2, <1>3, RowIsThere DEF CallsFit, KnownAt
<1>5. role' = [role EXCEPT ![r] = w]
  BY <1>2 DEF RemovePermissions, DirectoryTyped
<1>6. met \in BOOLEAN /\ (role[r].raced => met)
  BY <1>4 DEF Role
<1> HIDE DEF met
<1>7. /\ w \in Role /\ w.deleted = role[r].deleted /\ w.raced = met
      /\ w.permissions = {} /\ w.given = {}
  BY <1>4, <1>6 DEF Role
<1> HIDE DEF w
<1>8. w.deleted => r \notin LiveRoles
  BY <1>7 DEF LiveRoles
<1>9. /\ role' \in [RoleCodes -> Role \cup {NULL}]
      /\ \A s \in RoleCodes : role[s] # NULL => role'[s] # NULL
      /\ TablesFit'
  BY <1>2, <1>3, <1>5, <1>6, <1>7, <1>8, RoleWritten
<1>10. work \in Work /\ call'[c] = work
  BY <1>1, <1>2, <1>3, ContinuedCall DEF Work, RemovingRole
<1>11. KnownAt(c)' /\ DecidesAt(c)'
  BY <1>2, <1>4, <1>9, <1>10 DEF KnownAt, DecidesAt
<1>12. c \notin crossed => StillTrue(c)'
  <2> SUFFICES ASSUME c \notin crossed  PROVE StillTrue(c)'
    OBVIOUS
  <2>1. \A u \in LiveUsers : user[u].role # r
    BY <1>1, <1>3 DEF CallsFit, StillTrue, RoleStillTrue
  <2>2. LiveUsers' = LiveUsers
    BY <1>3 DEF LiveUsers
  <2> QED  BY <1>3, <1>10, <2>1, <2>2 DEF StillTrue, UserStillTrue, RoleStillTrue
<1>13. call' \in [Calls -> Work \cup {NoCall}] /\ crossed' \subseteq InFlight' /\ CallsFit'
  BY <1>1, <1>3, <1>9, <1>10, <1>11, <1>12, ContinueFits
<1>14. ActiveAdmins' = ActiveAdmins
  BY <1>3 DEF ActiveAdmins, LiveUsers
<1>15. DirectoryTyped'
  BY <1>3, <1>9, <1>13 DEF DirectoryTyped
<1> QED  BY <1>3, <1>9, <1>13, <1>14, <1>15, AdminsKept

LEMMA RemoveRoleKeeps ==
    ASSUME DirectoryInv, NEW c \in Calls, RemoveRole(c)
    PROVE  DirectoryInv'
<1> USE DEF DirectoryInv
<1> DEFINE r   == call[c].code
           met == role[r].raced \/ c \in crossed
           w   == [role[r] EXCEPT !.deleted = TRUE, !.raced = met]
<1>1. call[c] \in RemovingRole /\ c \in InFlight
  BY AtWork DEF RemoveRole
<1>2. r \in RoleCodes
  BY <1>1 DEF RemovingRole
<1>3. call[c].pc = "removeRole" /\ Finish(c) /\ UNCHANGED <<user, link, org, lastAdmin>>
  BY DEF RemoveRole
<1>4. role[r] \in Role /\ role[r] # NULL
  BY <1>1, <1>2, <1>3, RowIsThere DEF CallsFit, KnownAt
<1>5. role' = [role EXCEPT ![r] = w]
  BY <1>2 DEF RemoveRole, DirectoryTyped
<1>6. met \in BOOLEAN /\ (role[r].raced => met)
  BY <1>4 DEF Role
<1>7. met \/ \A u \in LiveUsers : user[u].role # r
  BY <1>1, <1>3 DEF CallsFit, StillTrue, RoleStillTrue
<1> HIDE DEF met
<1>8. w \in Role /\ w.deleted /\ w.raced = met
  BY <1>4, <1>6 DEF Role
<1> HIDE DEF w
<1> QED  BY <1>1, <1>2, <1>3, <1>5, <1>6, <1>7, <1>8, RoleStepKeeps

-----------------------------------------------------------------------------
(* The steps outside any call.                                              *)

(* Nothing that a call or another table looks at has changed.                  *)
LEMMA AsideKeeps ==
    ASSUME DirectoryInv, UNCHANGED <<user, role, call, crossed, lastAdmin>>,
           link' \in [Uids -> {NULL, "sent", "used", "expired"}],
           org' \in [Orgs -> Organization],
           \A u \in Uids : link'[u] # NULL => user[u] # NULL
    PROVE  DirectoryInv'
<1> USE DEF DirectoryInv
<1>1. /\ TablesFit' /\ LiveUsers' = LiveUsers /\ LiveRoles' = LiveRoles
      /\ ActiveAdmins' = ActiveAdmins
  BY TablesStay
<1>2. InFlight' = InFlight
  BY DEF InFlight
<1>3. \A c \in Calls : /\ KnownAt(c) => KnownAt(c)'
                       /\ DecidesAt(c) => DecidesAt(c)'
                       /\ StillTrue(c) => StillTrue(c)'
  BY <1>1 DEF KnownAt, DecidesAt, StillTrue, UserStillTrue, RoleStillTrue
<1>4. CallsFit'
  BY <1>2, <1>3 DEF CallsFit, Alone, InFlight
<1> QED  BY <1>1, <1>2, <1>4, AdminsKept DEF DirectoryTyped

LEMMA ExpireLinkKeeps ==
    ASSUME DirectoryInv, NEW u \in Uids, ExpireLink(u)
    PROVE  DirectoryInv'
<1>1. /\ link' \in [Uids -> {NULL, "sent", "used", "expired"}]
      /\ \A v \in Uids : link'[v] # NULL => user[v] # NULL
  BY DirectoryNull DEF ExpireLink, DirectoryInv, DirectoryTyped, TablesFit, LinksKnown
<1> QED  BY <1>1, AsideKeeps DEF ExpireLink, DirectoryInv, DirectoryTyped

LEMMA RemoveOrganizationKeeps ==
    ASSUME DirectoryInv, NEW o \in Orgs, RemoveOrganization(o)
    PROVE  DirectoryInv'
<1>1. org' \in [Orgs -> Organization]
  BY DEF RemoveOrganization, DirectoryInv, DirectoryTyped, Organization
<1> QED  BY <1>1, AsideKeeps DEF RemoveOrganization, DirectoryInv, DirectoryTyped, TablesFit, LinksKnown

-----------------------------------------------------------------------------
LEMMA DirectoryInitFits == DirectoryInit => DirectoryInv
<1> SUFFICES ASSUME DirectoryInit  PROVE DirectoryInv
  OBVIOUS
<1>1. PICK held \in [FirstStaff -> {"ADMIN"} \cup CustomRoles] :
         /\ \E u \in FirstStaff : held[u] = "ADMIN"
         /\ user = [u \in Uids |-> IF u \in FirstStaff THEN FirstUser(held[u]) ELSE NULL]
         /\ role = [r \in RoleCodes |->
               IF r \notin CustomRoles THEN SeededRole(r, {})
               ELSE IF \E u \in FirstStaff : held[u] = r THEN SeededRole(r, {UsersManage})
               ELSE NULL]
  BY DEF DirectoryInit
<1>2. /\ link = [u \in Uids |-> NULL] /\ call = [c \in Calls |-> NoCall]
      /\ org = [o \in Orgs |-> [defaultAssignee |-> NULL, deleted |-> FALSE]]
      /\ crossed = {} /\ lastAdmin = {}
  BY DEF DirectoryInit
<1>3. \A u \in FirstStaff : held[u] \in RoleCodes
  BY DEF RoleCodes
<1>4. \A r \in RoleCodes, codes \in SUBSET Permissions : SeededRole(r, codes) \in Role
  BY DEF SeededRole, Role
<1>5. \A r \in RoleCodes : FirstUser(r) \in User
  BY DEF FirstUser, User
<1>6. user \in [Uids -> User \cup {NULL}]
  BY <1>1, <1>3, <1>5
<1>7. role \in [RoleCodes -> Role \cup {NULL}]
  BY <1>1, <1>4, DirectoryAssumption
<1>8. org \in [Orgs -> Organization]
  BY <1>2 DEF Organization
<1>9. InFlight = {}
  BY <1>2 DEF InFlight
<1>10. DirectoryTyped
  BY <1>2, <1>6, <1>7, <1>8, <1>9 DEF DirectoryTyped
<1>11. \A u \in Uids : user[u] # NULL =>
          /\ u \in FirstStaff /\ user[u] = FirstUser(held[u]) /\ user[u].role = held[u]
          /\ ~user[u].closed
  BY <1>1 DEF FirstUser
<1>12. \A u \in FirstStaff :
          /\ held[u] \in RoleCodes /\ role[held[u]] \in Role /\ role[held[u]] # NULL
          /\ ~role[held[u]].deleted
  <2> SUFFICES ASSUME NEW u \in FirstStaff
               PROVE  /\ role[held[u]] \in Role /\ role[held[u]] # NULL
                      /\ ~role[held[u]].deleted
    BY <1>3
  <2>1. \E codes \in SUBSET Permissions : role[held[u]] = SeededRole(held[u], codes)
    BY <1>1, <1>3, DirectoryAssumption
  <2> QED  BY <1>3, <1>4, <2>1, DirectoryNull DEF SeededRole
<1>13. RolesKnown /\ RoleInUseIsKept
  BY <1>11, <1>12 DEF RolesKnown, RoleInUseIsKept, LiveUsers, LiveRoles
<1>14. LinksKnown /\ ClosedAccountsStayClosed
  BY <1>2, <1>11 DEF LinksKnown, ClosedAccountsStayClosed, LiveUsers
<1>15. PermissionsAreThoseGiven
  BY <1>1 DEF PermissionsAreThoseGiven, LiveRoles, SeededRole
<1>16. DeletionKeepsAnAdmin
  <2>1. PICK u \in FirstStaff : held[u] = "ADMIN"
    BY <1>1
  <2>2. u \in Uids /\ user[u] = FirstUser("ADMIN")
    BY <1>1, <2>1, DirectoryAssumption
  <2>3. FirstUser("ADMIN") # NULL
    BY <1>5, DirectoryNull DEF RoleCodes
  <2>4. u \in ActiveAdmins
    BY <2>2, <2>3 DEF ActiveAdmins, LiveUsers, FirstUser
  <2> QED  BY <2>4 DEF DeletionKeepsAnAdmin
<1>17. CallsFit
  BY <1>9 DEF CallsFit, Alone
<1> QED  BY <1>10, <1>13, <1>14, <1>15, <1>16, <1>17 DEF DirectoryInv, TablesFit

LEMMA DirectoryNextKeeps ==
    ASSUME DirectoryInv, [DirectoryNext]_directoryVars
    PROVE  DirectoryInv'
<1>1. ASSUME NEW c \in Calls, UserCall(c)  PROVE DirectoryInv'
  BY <1>1, LoadUserKeeps, LoadLinkKeeps, CreateUserCheckKeeps, DeleteUserCheckKeeps,
     InsertUserKeeps, InsertLinkKeeps, SaveUserKeeps, RemoveUserKeeps, ActivateKeeps,
     UseLinkKeeps DEF UserCall
<1>2. ASSUME NEW c \in Calls, RoleCall(c)  PROVE DirectoryInv'
  BY <1>2, CreateRoleCheckKeeps, LoadRoleKeeps, RemoveRoleCheckKeeps, InsertRoleKeeps,
     DeletePermissionsKeeps, CommitRoleKeeps, RemovePermissionsKeeps, RemoveRoleKeeps
     DEF RoleCall
<1>3. ASSUME NEW c \in Calls, OrganizationCall(c)  PROVE DirectoryInv'
  BY <1>3, LoadOrganizationKeeps, SaveOrganizationKeeps DEF OrganizationCall
<1>4. CASE UNCHANGED directoryVars
  BY <1>4, AsideKeeps DEF directoryVars, DirectoryInv, DirectoryTyped, TablesFit, LinksKnown
<1> QED
  BY <1>1, <1>2, <1>3, <1>4, DirectoryCrashKeeps, ExpireLinkKeeps, RemoveOrganizationKeeps
     DEF DirectoryNext

(* The tables of the directory keep their types, and every call in flight works  *)
(* on rows that exist (typed entities, and rows that are only marked deleted). *)
THEOREM DirectoryStaysTyped == DirectorySpec => []DirectoryInv
<1>1. DirectoryInv /\ [DirectoryNext]_directoryVars => DirectoryInv'
  BY DirectoryNextKeeps
<1> QED  BY <1>1, DirectoryInitFits, PTL DEF DirectorySpec

(* A deletion by itself never removes the last active administrator             *)
(* (UsersService.softDelete), whatever other calls are in flight.            *)
THEOREM DeletionsKeepAnAdmin == DirectorySpec => []DeletionKeepsAnAdmin
<1>1. DirectoryInv => DeletionKeepsAnAdmin
  BY DEF DirectoryInv
<1> QED  BY <1>1, DirectoryStaysTyped, PTL

(* A role that an account holds is there to log in with, unless its removal and  *)
(* an assignment overlapped (RolesService.remove, assertRoleAssignable).      *)
THEOREM HeldRolesAreKept == DirectorySpec => []RoleInUseIsKept
<1>1. DirectoryInv => RoleInUseIsKept
  BY DEF DirectoryInv, TablesFit
<1> QED  BY <1>1, DirectoryStaysTyped, PTL

(* A closed account opens again by an administrator, by its activation link, or  *)
(* by an edit that overlapped the closing (deactivate, reactivate,             *)
(* activateAccount).                                                        *)
THEOREM ClosingLasts == DirectorySpec => []ClosedAccountsStayClosed
<1>1. DirectoryInv => ClosedAccountsStayClosed
  BY DEF DirectoryInv, TablesFit
<1> QED  BY <1>1, DirectoryStaysTyped, PTL

(* Replacing the permissions of a role leaves those of one submission, never a   *)
(* mix, unless two overlapped (RolesService.update).                         *)
THEOREM RolesGrantOneSubmission == DirectorySpec => []PermissionsAreThoseGiven
<1>1. DirectoryInv => PermissionsAreThoseGiven
  BY DEF DirectoryInv, TablesFit
<1> QED  BY <1>1, DirectoryStaysTyped, PTL

-----------------------------------------------------------------------------
(* Lists in an order.                                                        *)

(* before[x] is what comes before x: a strict order of S.                     *)
Orders(before, S) ==
    /\ before \in [S -> SUBSET S]
    /\ \A x \in S : x \notin before[x]
    /\ \A x, y \in S : x # y => x \in before[y] \/ y \in before[x]
    /\ \A x, y \in S : x \in before[y] => before[x] \subseteq before[y]

(* s gives each place its element.                                            *)
IsListed(s, before, S) ==
    /\ s \in [1..Cardinality(S) -> S]
    /\ \A n \in 1..Cardinality(S) : Cardinality(before[s[n]]) = n - 1

(* Each element has a place of its own, and each place its element.            *)
LEMMA Ranks ==
    ASSUME NEW S, IsFiniteSet(S), NEW before, Orders(before, S)
    PROVE  /\ Cardinality(S) \in Nat
           /\ \A n \in 1..Cardinality(S) : \E x \in S : Cardinality(before[x]) = n - 1
           /\ \A x \in S : Cardinality(before[x]) \in 0..(Cardinality(S) - 1)
           /\ \A x, y \in S : x \in before[y] => Cardinality(before[x]) < Cardinality(before[y])
<1>1. PICK N \in Nat : N = Cardinality(S)
  BY FS_CardinalityType
<1>2. ASSUME NEW T \in SUBSET S  PROVE IsFiniteSet(T) /\ Cardinality(T) \in Nat
  BY FS_Subset, FS_CardinalityType
<1>3. ASSUME NEW x \in S, NEW T \in SUBSET S, x \in T, before[x] \subseteq T
      PROVE  Cardinality(before[x]) < Cardinality(T)
  <2>1. before[x] \in SUBSET T /\ before[x] # T /\ before[x] \in SUBSET S
    BY <1>3 DEF Orders
  <2>2. Cardinality(before[x]) <= Cardinality(T) /\ Cardinality(before[x]) # Cardinality(T)
    BY <1>2, <2>1, FS_Subset
  <2> QED  BY <1>2, <2>1, <2>2
<1>4. ASSUME NEW x \in S, NEW y \in S, x \in before[y]
      PROVE  Cardinality(before[x]) < Cardinality(before[y])
  BY <1>3, <1>4 DEF Orders
<1>5. ASSUME NEW x \in S  PROVE Cardinality(before[x]) \in 0..(N - 1)
  <2>1. before[x] \in SUBSET S
    BY DEF Orders
  <2>2. Cardinality(before[x]) < N /\ Cardinality(before[x]) \in Nat
    BY <1>1, <1>2, <1>3, <2>1
  <2> QED  BY <1>1, <2>2
<1> DEFINE rank == [x \in S |-> Cardinality(before[x])]
<1>6. rank \in Injection(S, 0..(N - 1))
  <2>1. rank \in [S -> 0..(N - 1)]
    BY <1>5
  <2>2. ASSUME NEW x \in S, NEW y \in S, rank[x] = rank[y]  PROVE x = y
    <3>1. rank[x] \in Int /\ rank[x] = Cardinality(before[x]) /\ rank[y] = Cardinality(before[y])
      BY <2>1
    <3>2. ~(rank[x] < rank[y]) /\ ~(rank[y] < rank[x])
      BY <2>2, <3>1
    <3> QED  BY <1>4, <3>1, <3>2 DEF Orders
  <2> QED  BY <2>1, <2>2 DEF Injection, IsInjective
<1>7. IsFiniteSet(0..(N - 1)) /\ Cardinality(0..(N - 1)) = N
  BY FS_Interval
<1>8. rank \in Surjection(S, 0..(N - 1))
  BY <1>1, <1>6, <1>7, FS_Injection
<1>9. ASSUME NEW n \in 1..N  PROVE \E x \in S : Cardinality(before[x]) = n - 1
  <2>1. n - 1 \in 0..(N - 1)
    OBVIOUS
  <2> QED  BY <1>8, <2>1 DEF Surjection
<1> QED  BY <1>1, <1>4, <1>5, <1>9

(* The list that gives each place its element: each one is in it once.        *)
LEMMA Listed ==
    ASSUME NEW S, IsFiniteSet(S), NEW before, Orders(before, S),
           NEW s, IsListed(s, before, S)
    PROVE  /\ s \in Seq(S) /\ Len(s) = Cardinality(S) /\ Len(s) \in Nat
           /\ \A x \in S : \E n \in 1..Len(s) : s[n] = x
           /\ \A m, n \in 1..Len(s) : m < n => s[m] \in before[s[n]] /\ s[n] \notin before[s[m]]
           /\ \A m, n \in 1..Len(s) : s[m] = s[n] => m = n
<1> USE DEF IsListed
<1>1. PICK N \in Nat : N = Cardinality(S)
  BY FS_CardinalityType
<1>2. s \in Seq(S) /\ Len(s) = N
  BY <1>1
<1>3. ASSUME NEW x \in S  PROVE \E n \in 1..N : s[n] = x
  <2>1. PICK n \in 1..N : n = Cardinality(before[x]) + 1
    BY <1>1, Ranks
  <2>2. s[n] \in S /\ Cardinality(before[s[n]]) = Cardinality(before[x])
    BY <1>1, <2>1, Ranks
  <2>3. s[n] = x
    BY <1>1, <2>1, <2>2, Ranks DEF Orders
  <2> QED  BY <2>3
<1>4. ASSUME NEW m \in 1..N, NEW n \in 1..N, m < n
      PROVE  s[m] \in before[s[n]] /\ s[n] \notin before[s[m]] /\ s[m] # s[n]
  <2>1. s[m] \in S /\ s[n] \in S /\ Cardinality(before[s[m]]) = m - 1 /\ Cardinality(before[s[n]]) = n - 1
    BY <1>1
  <2>2. s[m] # s[n] /\ s[n] \notin before[s[m]]
    BY <1>4, <2>1, Ranks
  <2> QED  BY <2>1, <2>2 DEF Orders
<1> QED
  <2>1. \A m, n \in 1..N : s[m] = s[n] => m = n
    BY <1>4
  <2> QED  BY <1>1, <1>2, <1>3, <1>4, <2>1

(* What a reader holds of a list that follows its cursor: what it was given lies *)
(* at or before the cursor, and what it was not given lies after it.           *)
Column == reader.list.cursor
WalkFits ==
    /\ \A r \in reader.present : table[r] # NULL
    /\ \A i \in 1..Len(reader.got) : table[reader.got[i]] # NULL
    /\ reader.more /\ reader.cursor = NULL => reader.got = <<>>
    /\ \A i \in 1..Len(reader.got) :
          reader.more /\ reader.got[i] \notin reader.moved =>
              reader.cursor # NULL /\ ~IsAfter(Column, reader.got[i], reader.cursor)
    /\ \A i, j \in 1..Len(reader.got) :
          i # j /\ reader.got[i] = reader.got[j] => reader.got[i] \in reader.moved
    /\ \A r \in (reader.present \cap Present) \ (reader.moved \cup reader.crowded) :
          \/ \E i \in 1..Len(reader.got) : reader.got[i] = r
          \/ reader.more /\ (reader.cursor = NULL \/ IsAfter(Column, r, reader.cursor))
ListingInv ==
    /\ ListingTypeOK
    /\ reader.kind = "walk" /\ FollowsItsCursor(reader.list) => WalkFits

-----------------------------------------------------------------------------
(* The lists of the API.                                                    *)
\* A table, in the order of a list.
OrderNames == {"created_desc", "created_asc", "activity_desc", "name_asc", "priority_asc"}
InOrderOf(order, S) == [r \in S |-> {s \in S : Precedes(order, s, r)}]
Sorted(order, S) == InOrder(S, LAMBDA r, s : Precedes(order, r, s))

LEMMA RowsTyped ==
    ASSUME ListingTypeOK
    PROVE  /\ \A r \in Present : /\ r \in Nat /\ table[r] # NULL /\ table[r] \in Row
                                 /\ table[r].created \in Nat /\ table[r].updated \in Nat
                                 /\ table[r].name \in Nat /\ table[r].rank \in Nat
           /\ IsFiniteSet(Present)
<1>1. \A r \in Present : r \in Nat /\ table[r] # NULL /\ table[r] \in Row
  BY ListingAssumption DEF ListingTypeOK, Present
<1>2. Present \in SUBSET Rows
  BY DEF Present
<1>3. IsFiniteSet(Present)
  BY <1>2, ListingAssumption, FS_Subset
<1>4. \A t \in Row : t.created \in Nat /\ t.updated \in Nat /\ t.name \in Nat /\ t.rank \in Nat
  BY ListingAssumption DEF Row, Instant
<1> QED  BY <1>1, <1>3, <1>4

LEMMA PrecedesMeans ==
    ASSUME NEW r, NEW s
    PROVE  LET a == table[r]  b == table[s] IN
           /\ Precedes("created_desc", r, s) <=>
                 a.created > b.created \/ (a.created = b.created /\ r > s)
           /\ Precedes("created_asc", r, s) <=>
                 a.created < b.created \/ (a.created = b.created /\ r < s)
           /\ Precedes("activity_desc", r, s) <=>
                 a.updated > b.updated \/ (a.updated = b.updated /\ r > s)
           /\ Precedes("name_asc", r, s) <=> a.name < b.name \/ (a.name = b.name /\ r > s)
           /\ Precedes("priority_asc", r, s) <=>
                 \/ a.rank < b.rank
                 \/ a.rank = b.rank /\ (a.updated > b.updated \/ (a.updated = b.updated /\ r > s))
  BY DEF Precedes

LEMMA PrecedesOrders ==
    ASSUME ListingTypeOK, NEW order \in OrderNames, NEW S \in SUBSET Present
    PROVE  Orders(InOrderOf(order, S), S)
<1>1. \A r \in S : /\ r \in Nat /\ table[r].created \in Nat /\ table[r].updated \in Nat
                   /\ table[r].name \in Nat /\ table[r].rank \in Nat
  BY RowsTyped
<1>2. \/ order = "created_desc" \/ order = "created_asc" \/ order = "activity_desc"
      \/ order = "name_asc" \/ order = "priority_asc"
  BY DEF OrderNames
<1>3. ASSUME NEW r \in S  PROVE ~Precedes(order, r, r)
  BY <1>1, <1>2, PrecedesMeans
<1>4. ASSUME NEW r \in S, NEW s \in S, r # s  PROVE Precedes(order, r, s) \/ Precedes(order, s, r)
  <2>1. /\ r \in Nat /\ table[r].created \in Nat /\ table[r].updated \in Nat /\ table[r].name \in Nat
        /\ s \in Nat /\ table[s].created \in Nat /\ table[s].updated \in Nat /\ table[s].name \in Nat
        /\ table[r].rank \in Nat /\ table[s].rank \in Nat
    BY <1>1
  <2>2. r < s \/ s < r
    BY <1>4, <2>1
  <2>3. PICK a \in Nat : a = table[r].created
    BY <2>1
  <2>4. PICK b \in Nat : b = table[s].created
    BY <2>1
  <2>5. PICK c \in Nat : c = table[r].updated
    BY <2>1
  <2>6. PICK d \in Nat : d = table[s].updated
    BY <2>1
  <2>7. PICK m \in Nat : m = table[r].name
    BY <2>1
  <2>8. PICK n \in Nat : n = table[s].name
    BY <2>1
  <2>9. /\ Precedes("created_desc", r, s) <=> a > b \/ (a = b /\ r > s)
        /\ Precedes("created_desc", s, r) <=> b > a \/ (b = a /\ s > r)
        /\ Precedes("created_asc", r, s) <=> a < b \/ (a = b /\ r < s)
        /\ Precedes("created_asc", s, r) <=> b < a \/ (b = a /\ s < r)
    BY <2>3, <2>4, PrecedesMeans
  <2>10. /\ Precedes("activity_desc", r, s) <=> c > d \/ (c = d /\ r > s)
         /\ Precedes("activity_desc", s, r) <=> d > c \/ (d = c /\ s > r)
         /\ Precedes("name_asc", r, s) <=> m < n \/ (m = n /\ r > s)
         /\ Precedes("name_asc", s, r) <=> n < m \/ (n = m /\ s > r)
    BY <2>5, <2>6, <2>7, <2>8, PrecedesMeans
  <2>11. PICK x \in Nat : x = table[r].rank
    BY <2>1
  <2>12. PICK y \in Nat : y = table[s].rank
    BY <2>1
  <2>13. /\ Precedes("priority_asc", r, s) <=> x < y \/ (x = y /\ (c > d \/ (c = d /\ r > s)))
         /\ Precedes("priority_asc", s, r) <=> y < x \/ (y = x /\ (d > c \/ (d = c /\ s > r)))
    BY <2>5, <2>6, <2>11, <2>12, PrecedesMeans
  <2> QED  BY <1>2, <2>1, <2>2, <2>9, <2>10, <2>13
<1>5. ASSUME NEW r \in S, NEW s \in S, NEW u \in S, Precedes(order, r, s), Precedes(order, s, u)
      PROVE  Precedes(order, r, u)
  BY <1>1, <1>2, <1>5, PrecedesMeans
<1> QED  BY <1>3, <1>4, <1>5 DEF Orders, InOrderOf

(* A table in order, each row once.                                           *)
LEMMA SortedList ==
    ASSUME ListingTypeOK, NEW order \in OrderNames, NEW S \in SUBSET Present,
           NEW s, s = Sorted(order, S)
    PROVE  /\ s \in Seq(S) /\ Len(s) = Cardinality(S) /\ Len(s) \in Nat
           /\ \A r \in S : \E n \in 1..Len(s) : s[n] = r
           /\ \A m, n \in 1..Len(s) : m < n => Precedes(order, s[m], s[n])
           /\ \A m, n \in 1..Len(s) : s[m] = s[n] => m = n
<1>0. PICK before : before = InOrderOf(order, S)
  OBVIOUS
<1>1. IsFiniteSet(S) /\ Orders(before, S)
  BY <1>0, RowsTyped, PrecedesOrders, FS_Subset
<1>2. \A n \in 1..Cardinality(S) : \E x \in S : Cardinality({y \in S : Precedes(order, y, x)}) = n - 1
  <2> SUFFICES ASSUME NEW n \in 1..Cardinality(S)
               PROVE  \E x \in S : Cardinality({y \in S : Precedes(order, y, x)}) = n - 1
    OBVIOUS
  <2>1. \A m \in 1..Cardinality(S) : \E x \in S : Cardinality(before[x]) = m - 1
    BY <1>1, Ranks
  <2>2. PICK x \in S : Cardinality(before[x]) = n - 1
    BY <2>1
  <2>3. before[x] = {y \in S : Precedes(order, y, x)}
    BY <1>0 DEF InOrderOf
  <2> QED  BY <2>2, <2>3
<1>3. s = [n \in 1..Cardinality(S) |->
             CHOOSE x \in S : Cardinality({y \in S : Precedes(order, y, x)}) = n - 1]
  BY DEF Sorted, InOrder
<1>4. \A n \in 1..Cardinality(S) :
         s[n] \in S /\ Cardinality({y \in S : Precedes(order, y, s[n])}) = n - 1
  BY <1>2, <1>3
<1>5. IsListed(s, before, S)
  BY <1>0, <1>3, <1>4 DEF InOrderOf, IsListed
<1>6. /\ s \in Seq(S) /\ Len(s) = Cardinality(S) /\ Len(s) \in Nat
      /\ \A x \in S : \E n \in 1..Len(s) : s[n] = x
      /\ \A m, n \in 1..Len(s) : m < n => s[m] \in before[s[n]]
      /\ \A m, n \in 1..Len(s) : s[m] = s[n] => m = n
  BY <1>1, <1>5, Listed
<1> QED
  <2>1. ASSUME NEW m \in 1..Len(s), NEW n \in 1..Len(s), m < n  PROVE Precedes(order, s[m], s[n])
    BY <1>0, <1>4, <1>6, <2>1 DEF InOrderOf
  <2> QED  BY <1>6, <2>1

(* The milliseconds of a cursor.                                               *)
LEMMA Milliseconds ==
    ASSUME NEW a \in Nat, NEW b \in Nat
    PROVE  /\ ToISOString(a) \in Nat /\ ToISOString(a) <= a
           /\ a < b /\ ToISOString(a) # ToISOString(b) => a < ToISOString(b)
           /\ a <= b => ToISOString(a) <= ToISOString(b)
<1>1. PICK M \in Nat \ {0} : M = Millisecond
  BY ListingAssumption
<1>2. PICK q \in Nat : q = a \div M
  BY <1>1
<1>3. PICK p \in Nat : p = b \div M
  BY <1>1
<1>4. /\ a % M \in 0..(M - 1) /\ a = M * q + (a % M)
      /\ b % M \in 0..(M - 1) /\ b = M * p + (b % M)
  BY <1>1, <1>2, <1>3
<1>5. ToISOString(a) = M * q /\ ToISOString(b) = M * p /\ M * q \in Nat /\ M * p \in Nat
  BY <1>1, <1>4 DEF ToISOString
<1>6. ASSUME NEW x \in Nat, NEW y \in Nat, x < y  PROVE M * x + M <= M * y
  <2>1. PICK d \in Nat : y = (x + 1) + d
    <3>1. y - (x + 1) \in Nat /\ y = (x + 1) + (y - (x + 1))
      BY <1>6
    <3> QED  BY <3>1
  <2>2. M * y = (M * x + M) + M * d /\ M * d \in Nat /\ M * x \in Nat
    BY <2>1
  <2> QED  BY <2>2
<1>7. q < p \/ q = p \/ p < q
  OBVIOUS
<1>8. q < p => M * q + M <= M * p
  BY <1>6
<1>9. p < q => M * p + M <= M * q
  BY <1>6
<1> QED  BY <1>4, <1>5, <1>7, <1>8, <1>9

-----------------------------------------------------------------------------
(* The types.                                                                *)
LEMMA ListsTyped ==
    \A list \in Lists : list.order \in OrderNames /\ list.cursor \in {"created", "updated", NULL}
  BY DEF Lists, UsersList, OrganizationsList, CategoriesList, ProductsList, CountriesList, CitiesList,
         RolesList, RequestsList, RequestSorts, Ordered, OrderNames

(* A page is the first rows of what is left, in order; the cursor is that of its *)
(* last row, if any row is left after it.                                     *)
LEMMA PageGiven ==
    ASSUME ListingTypeOK, reader.kind = "walk",
           NEW page, page = GetPage(reader.list, reader.cursor, reader.limit)
    PROVE  \E s, kept : LET n == Len(page.items)  limit == reader.limit  list == reader.list IN
           /\ kept = {r \in Present : reader.cursor # NULL /\ list.cursor # NULL =>
                                          IsAfter(list.cursor, r, reader.cursor)}
           /\ s = Sorted(list.order, kept)
           /\ s \in Seq(Rows) /\ page.items \in Seq(Rows) /\ n \in Nat /\ Len(s) \in Nat
           /\ \A i \in 1..n : i \in 1..Len(s) /\ page.items[i] = s[i]
           /\ Len(s) <= limit => n = Len(s)
           /\ Len(s) > limit => n = limit
           /\ page.next = IF Len(s) > limit /\ list.cursor # NULL THEN Cursor(list.cursor, s[limit]) ELSE NULL
<1>1. PICK kept : kept = {r \in Present : reader.cursor # NULL /\ reader.list.cursor # NULL =>
                                              IsAfter(reader.list.cursor, r, reader.cursor)}
  OBVIOUS
<1>2. PICK s : s = Sorted(reader.list.order, kept)
  OBVIOUS
<1>3. PICK limit \in Nat \ {0} : limit = reader.limit
  BY ListingAssumption DEF ListingTypeOK, Walk
<1>4. s \in Seq(Rows) /\ Len(s) \in Nat
  <2>1. kept \in SUBSET Present /\ Present \subseteq Rows
    BY <1>1 DEF Present
  <2>2. reader.list.order \in OrderNames
    BY ListsTyped DEF ListingTypeOK, Walk
  <2>3. s \in Seq(kept) /\ Len(s) \in Nat
    BY <1>2, <2>1, <2>2, SortedList
  <2> QED  BY <2>1, <2>3
<1>5. PICK m \in Nat : m = IF Len(s) > limit THEN limit ELSE Len(s)
  BY <1>4
<1>6. page = [items |-> SubSeq(s, 1, m),
              next |-> IF Len(s) > limit /\ reader.list.cursor # NULL
                       THEN Cursor(reader.list.cursor, Last(SubSeq(s, 1, m))) ELSE NULL]
  BY <1>1, <1>2, <1>3, <1>5 DEF GetPage, Cut, Sorted
<1>7. m <= Len(s)
  BY <1>4, <1>5
<1>8. PICK t : t = SubSeq(s, 1, m)
  OBVIOUS
<1>9. t \in Seq(Rows) /\ Len(t) = m /\ \A i \in 1..m : t[i] = s[i]
  BY <1>4, <1>7, <1>8
<1>10. Last(t) = t[m]
  BY <1>9 DEF Last
<1>11. page.items = t /\ page.next = IF Len(s) > limit /\ reader.list.cursor # NULL
                                     THEN Cursor(reader.list.cursor, t[m]) ELSE NULL
  <2> DEFINE next == IF Len(s) > limit /\ reader.list.cursor # NULL
                     THEN Cursor(reader.list.cursor, t[m]) ELSE NULL
  <2>1. page = [items |-> t, next |-> next]
    BY <1>6, <1>8, <1>10
  <2> HIDE DEF next
  <2>2. page.items = t /\ page.next = next
    BY <2>1
  <2> QED  BY <2>2 DEF next
<1>12. Len(s) > limit => m = limit /\ t[m] = s[limit]
  BY <1>3, <1>4, <1>5, <1>9
<1>13. \A i \in 1..m : i \in 1..Len(s)
  BY <1>4, <1>7
<1>14. /\ page.items \in Seq(Rows) /\ Len(page.items) = m /\ Len(page.items) \in Nat
       /\ \A i \in 1..Len(page.items) : i \in 1..Len(s) /\ page.items[i] = s[i]
  BY <1>9, <1>11, <1>13
<1>15. /\ Len(s) <= reader.limit => Len(page.items) = Len(s)
       /\ Len(s) > reader.limit => Len(page.items) = reader.limit
  BY <1>3, <1>4, <1>5, <1>14
<1>16. page.next = IF Len(s) > reader.limit /\ reader.list.cursor # NULL
                   THEN Cursor(reader.list.cursor, s[reader.limit]) ELSE NULL
  BY <1>3, <1>11, <1>12
<1> QED
  <2> WITNESS s, kept
  <2> QED  BY <1>1, <1>2, <1>4, <1>14, <1>15, <1>16

LEMMA CursorTyped ==
    ASSUME ListingTypeOK, NEW column \in {"created", "updated"}, NEW r \in Rows, table[r] # NULL
    PROVE  Cursor(column, r) \in Position /\ Cursor(column, r) # NULL
<1>1. table[r] \in Row
  BY DEF ListingTypeOK
<1>2. PICK t \in Instant : t = table[r][column]
  BY <1>1 DEF Row
<1>3. ToISOString(t) \in Instant
  BY <1>2, ListingAssumption, Milliseconds DEF Instant
<1>4. Cursor(column, r) \in Position
  BY <1>2, <1>3 DEF Cursor, Position
<1> QED  BY <1>4, ListingAssumption

(* A list starts well typed, and each step keeps it so.                       *)
LEMMA ListingStarts == ListingInit => ListingTypeOK /\ reader.kind = "idle"
<1> SUFFICES ASSUME ListingInit  PROVE ListingTypeOK /\ reader.kind = "idle"
  OBVIOUS
<1>1. scenario \in Scenario /\ table = scenario.table /\ reader = [kind |-> "idle"]
  BY ListingAssumption DEF ListingInit
<1>2. table \in [Rows -> Row \cup {NULL}]
  BY <1>1 DEF Scenario
<1>3. MaxClock \in Instant /\ \A r \in Rows : table[r] # NULL => table[r].updated <= MaxClock
  <2>1. MaxClock \in Nat
    BY ListingAssumption
  <2>2. \A row \in Row : row.updated \in 0..MaxClock
    BY DEF Row, Instant
  <2>3. ASSUME NEW r \in Rows, table[r] # NULL  PROVE table[r].updated <= MaxClock
    <3>1. table[r] \in Row
      BY <1>2, <2>3
    <3> QED  BY <2>1, <2>2, <3>1
  <2> QED  BY <2>1, <2>3 DEF Instant
<1>4. clock \in Instant
  BY <1>3 DEF ListingInit
<1> QED  BY <1>1, <1>2, <1>4 DEF ListingTypeOK

LEMMA WrittenTyped ==
    ASSUME NEW row \in Content, NEW created \in Instant, NEW t \in Instant
    PROVE  Written(row, created, t) \in Row
  BY DEF Written, Content, Row

\* What others do to the table leaves its reader alone, but for what it will say of it.
LEMMA ChangeTyped == ASSUME ListingTypeOK, NEW r \in Rows, Change(r)  PROVE ListingTypeOK'
<1>1. scenario' \in Scenario
  BY DEF ListingTypeOK, Change, Scenario
<1>2. \A row \in scenario.fresh : row \in Content
  BY DEF ListingTypeOK, Scenario
<1>3. \A t \in clock..MaxClock : t \in Instant
  BY ListingAssumption DEF ListingTypeOK, Instant
<1>4. CASE Insert(r)
  <2>1. PICK row \in scenario.fresh, t \in clock..MaxClock :
           clock' = t /\ table' = [table EXCEPT ![r] = Written(row, t, t)]
    BY <1>4 DEF Insert
  <2>2. clock' \in Instant /\ table' \in [Rows -> Row \cup {NULL}]
    BY <1>2, <1>3, <2>1, WrittenTyped DEF ListingTypeOK
  <2> QED  BY <1>1, <1>4, <2>2 DEF ListingTypeOK, Insert
<1>5. CASE Save(r)
  <2>1. PICK row \in scenario.fresh, t \in clock..MaxClock :
           clock' = t /\ table' = [table EXCEPT ![r] = Written(row, table[r].created, t)]
    BY <1>5 DEF Save
  <2>2. table[r].created \in Instant
    BY <1>5 DEF Save, Present, ListingTypeOK, Row
  <2>3. clock' \in Instant /\ table' \in [Rows -> Row \cup {NULL}]
    BY <1>2, <1>3, <2>1, <2>2, WrittenTyped DEF ListingTypeOK
  <2>4. reader' = IF reader.kind = "walk" THEN [reader EXCEPT !.moved = @ \cup {r}] ELSE reader
    BY <1>5 DEF Save
  <2>5. reader'.kind = "walk" => reader' \in Walk
    BY <2>4 DEF ListingTypeOK, Walk
  <2>6. reader'.kind = "screen" => reader' = reader
    BY <2>4 DEF ListingTypeOK, Walk
  <2> QED  BY <1>1, <2>3, <2>5, <2>6 DEF ListingTypeOK
<1>6. CASE RemoveRow(r)
  <2>1. table[r] \in Row
    BY <1>6 DEF RemoveRow, Present, ListingTypeOK
  <2>2. table' \in [Rows -> Row \cup {NULL}]
    BY <1>6, <2>1 DEF RemoveRow, ListingTypeOK, Row
  <2> QED  BY <1>1, <1>6, <2>2 DEF ListingTypeOK, RemoveRow
<1> QED  BY <1>4, <1>5, <1>6 DEF Change

LEMMA FollowTyped == ASSUME ListingTypeOK, FollowCursor  PROVE ListingTypeOK'
<1>1. PICK page : page = GetPage(reader.list, reader.cursor, reader.limit)
  OBVIOUS
<1>2. PICK c : c = IF reader.list.cursor = NULL THEN {} ELSE Crowded(reader.list.cursor)
  OBVIOUS
<1>3. /\ reader.kind = "walk" /\ reader \in Walk
      /\ reader' = [reader EXCEPT !.got = @ \o page.items, !.cursor = page.next,
                                  !.more = page.next # NULL, !.crowded = @ \cup c]
      /\ UNCHANGED <<table, clock, scenario>>
  BY <1>1, <1>2 DEF FollowCursor, ListingTypeOK
<1>4. c \subseteq Rows
  BY <1>2 DEF Crowded, Present
<1>5. page.items \in Seq(Rows) /\ page.next \in Position \cup {NULL}
  <2>1. PICK s, kept :
           /\ kept = {r \in Present : reader.cursor # NULL /\ reader.list.cursor # NULL =>
                                          IsAfter(reader.list.cursor, r, reader.cursor)}
           /\ s = Sorted(reader.list.order, kept) /\ s \in Seq(Rows) /\ page.items \in Seq(Rows)
           /\ page.next = IF Len(s) > reader.limit /\ reader.list.cursor # NULL
                          THEN Cursor(reader.list.cursor, s[reader.limit]) ELSE NULL
    BY <1>1, <1>3, PageGiven
  <2>2. ASSUME Len(s) > reader.limit, reader.list.cursor # NULL
        PROVE  Cursor(reader.list.cursor, s[reader.limit]) \in Position
    <3>1. kept \in SUBSET Present
      BY <2>1
    <3>2. reader.list.order \in OrderNames /\ reader.list.cursor \in {"created", "updated"}
      BY <1>3, <2>2, ListsTyped DEF Walk
    <3>3. s \in Seq(kept) /\ Len(s) \in Nat
      BY <2>1, <3>1, <3>2, SortedList
    <3>4. reader.limit \in 1..Len(s)
      BY <1>3, <2>2, <3>3, ListingAssumption DEF Walk
    <3>5. s[reader.limit] \in kept
      BY <3>3, <3>4
    <3>6. s[reader.limit] \in Rows /\ table[s[reader.limit]] # NULL
      BY <3>1, <3>5 DEF Present
    <3> QED  BY <3>2, <3>6, CursorTyped
  <2> QED  BY <2>1, <2>2
<1>6. reader' \in Walk
  <2>1. PICK g \in Seq(Rows) : g = reader.got \o page.items
    <3>1. reader.got \in Seq(Rows)
      BY <1>3 DEF Walk
    <3>2. reader.got \o page.items \in Seq(Rows)
      BY <1>5, <3>1
    <3> QED  BY <3>2
  <2>2. reader' = [reader EXCEPT !.got = g, !.cursor = page.next,
                                  !.more = page.next # NULL, !.crowded = @ \cup c]
    BY <1>3, <2>1
  <2> QED  BY <1>3, <1>4, <1>5, <2>2 DEF Walk
<1>7. reader'.kind = "walk"
  BY <1>6 DEF Walk
<1> QED  BY <1>3, <1>6, <1>7 DEF ListingTypeOK

LEMMA ChosenTyped ==
    ASSUME ListingTypeOK, reader.kind = "screen", NEW next \in Address(reader.screen), Chosen(next)
    PROVE  ListingTypeOK'
<1>1. reader' = [reader EXCEPT !.next = next] /\ UNCHANGED <<table, clock>>
      /\ scenario' = [scenario EXCEPT !.choices = @ - 1] /\ scenario.choices > 0
  BY DEF Chosen
<1>2. reader \in Reading(reader.screen) /\ reader.screen \in Screens /\ scenario \in Scenario
  BY DEF ListingTypeOK
<1>3. reader' \in Reading(reader.screen) /\ scenario' \in Scenario
  BY <1>1, <1>2 DEF Reading, Scenario
<1>4. reader'.kind = "screen" /\ reader'.screen = reader.screen
  BY <1>3 DEF Reading
<1> QED  BY <1>1, <1>2, <1>3, <1>4 DEF ListingTypeOK

LEMMA ScreensTyped ==
    \A screen \in Screens :
        /\ screen.sorts # {} /\ screen.list.order \in OrderNames
        /\ "sort" \in screen.delegated => screen.sorts = RequestSorts
        /\ "sort" \notin screen.delegated =>
              screen.sorts \subseteq {"created_desc", "created_asc", "name_asc", "last_login_desc",
                                      "as_fetched"}
  BY DEF Screens, Screen, UsersScreen, OrganizationsScreen, CountriesScreen, CitiesScreen, RolesScreen,
         ProductsScreen, CategoriesScreen, ClientRequestsScreen, StaffRequestsScreen, BugsScreen,
         UsersList, OrganizationsList, CategoriesList, ProductsList, CountriesList, CitiesList,
         RolesList, RequestsList, Ordered, OrderNames, RequestSorts

LEMMA FirstAddressTyped == \A screen \in Screens : FirstAddress(screen) \in Address(screen)
<1> SUFFICES ASSUME NEW screen \in Screens  PROVE FirstAddress(screen) \in Address(screen)
  OBVIOUS
<1>1. DefaultSort(screen) \in screen.sorts
  BY ScreensTyped DEF DefaultSort
<1> QED  BY <1>1, ListingAssumption DEF FirstAddress, Address

LEMMA RendersTyped ==
    ASSUME ListingTypeOK, NEW screen \in Screens, NEW url \in Address(screen), Renders(screen, url)
    PROVE  ListingTypeOK'
<1>1. PICK missing \in SUBSET FallsBack(screen) :
        /\ missing # {} => scenario.failures > 0
        /\ reader' = [kind |-> "screen", screen |-> screen, url |-> url, next |-> NULL,
                      failed |-> missing]
        /\ scenario' = [scenario EXCEPT !.failures = IF missing = {} THEN @ ELSE @ - 1]
        /\ UNCHANGED <<table, clock>>
  BY DEF Renders
<1>2. missing \in SUBSET {"list", "categories"}
  BY DEF FallsBack
<1>3. scenario' \in Scenario
  BY <1>1 DEF ListingTypeOK, Scenario
<1>4. reader' \in Reading(screen) /\ reader'.screen = screen /\ reader'.kind = "screen"
  BY <1>1, <1>2 DEF Reading
<1> QED  BY <1>1, <1>3, <1>4 DEF ListingTypeOK

LEMMA ReaderTyped ==
    ASSUME ListingTypeOK,
           StartWalk \/ OpenScreen \/ Navigated \/ ChooseGroup \/ ChooseStatus \/ ChooseSort
             \/ SubmitSearch \/ ChangeSize \/ TurnPage
    PROVE  ListingTypeOK'
<1>0. Groups \subseteq Nat /\ Names \subseteq Nat
  BY DEF ListingTypeOK, Scenario, Content, Groups, Names
<1>1. CASE StartWalk
  <2>1. PICK list \in Lists, limit \in Limits :
          reader' = [kind |-> "walk", list |-> list, limit |-> limit, cursor |-> NULL, more |-> TRUE,
                     got |-> <<>>, present |-> Present, moved |-> {}, crowded |-> {}]
    BY <1>1 DEF StartWalk
  <2>2. reader' \in Walk
    BY <2>1 DEF Walk, Present
  <2> QED  BY <1>1, <2>1, <2>2 DEF ListingTypeOK, StartWalk
<1>2. CASE OpenScreen
  BY <1>2, FirstAddressTyped, RendersTyped DEF OpenScreen
<1>3. ASSUME reader.kind = "screen"
      PROVE  /\ reader.url \in Address(reader.screen)
             /\ \A what : From(what) \in Address(reader.screen)
  <2>1. reader.url \in Address(reader.screen)
    BY <1>3 DEF ListingTypeOK, Reading
  <2>2. PICK u \in Address(reader.screen) : u = [reader.url EXCEPT !.page = 1]
    <3>1. PICK v \in Address(reader.screen) : v = reader.url
      BY <2>1
    <3>2. [v EXCEPT !.page = 1] \in Address(reader.screen)
      BY DEF Address
    <3> QED  BY <3>1, <3>2
  <2>3. [u EXCEPT !.size = DefaultPageSize] \in Address(reader.screen)
    BY ListingAssumption DEF Address
  <2>4. [u EXCEPT !.size = DefaultPageSize] = [reader.url EXCEPT !.page = 1, !.size = DefaultPageSize]
    BY <2>2
  <2> QED  BY <2>1, <2>3, <2>4 DEF From
<1>4. CASE ChooseGroup \/ ChooseStatus \/ ChooseSort
  <2>1. reader.kind = "screen"
    BY <1>4 DEF ChooseGroup, ChooseStatus, ChooseSort, Open
  <2>2. \/ \E group \in Nat \cup {NULL} : Chosen([From("group") EXCEPT !.group = group])
        \/ \E status \in {"ALL", "ACTIVE", "INACTIVE"} : Chosen([From("status") EXCEPT !.status = status])
        \/ \E sort \in reader.screen.sorts : Chosen([reader.url EXCEPT !.sort = sort])
    BY <1>0, <1>4 DEF ChooseGroup, ChooseStatus, ChooseSort, GroupChoices, StatusChoices
  <2>3. ASSUME NEW u \in Address(reader.screen)
        PROVE  /\ \A group \in Nat \cup {NULL} : [u EXCEPT !.group = group] \in Address(reader.screen)
               /\ \A status \in {"ALL", "ACTIVE", "INACTIVE"} :
                     [u EXCEPT !.status = status] \in Address(reader.screen)
               /\ \A sort \in reader.screen.sorts : [u EXCEPT !.sort = sort] \in Address(reader.screen)
    BY DEF Address
  <2>4. PICK next \in Address(reader.screen) : Chosen(next)
    BY <1>3, <2>1, <2>2, <2>3
  <2> QED  BY <2>1, <2>4, ChosenTyped
<1>5. CASE SubmitSearch
  <2>1. PICK query \in Names \cup {NULL} : Chosen([From("search") EXCEPT !.query = query])
    BY <1>5 DEF SubmitSearch, SearchChoices
  <2>2. PICK u \in Address(reader.screen) : u = From("search")
    BY <1>3, <1>5 DEF SubmitSearch
  <2>3. reader.kind = "screen" /\ [u EXCEPT !.query = query] \in Address(reader.screen)
    BY <1>0, <1>5 DEF SubmitSearch, Address
  <2> QED  BY <2>1, <2>2, <2>3, ChosenTyped
<1>6. CASE ChangeSize
  <2>1. PICK size \in PageSizes : Chosen([reader.url EXCEPT !.size = size, !.page = 1])
    BY <1>6 DEF ChangeSize
  <2>2. reader.kind = "screen" /\ reader.url \in Address(reader.screen)
    BY <1>3, <1>6 DEF ChangeSize
  <2>3. PICK u \in Address(reader.screen) : u = [reader.url EXCEPT !.size = size]
    BY <2>2 DEF Address
  <2>4. [u EXCEPT !.page = 1] \in Address(reader.screen)
    BY DEF Address
  <2>5. [u EXCEPT !.page = 1] = [reader.url EXCEPT !.size = size, !.page = 1]
    BY <2>3
  <2> QED  BY <2>1, <2>2, <2>4, <2>5, ChosenTyped
<1>7. CASE TurnPage
  <2>1. PICK p \in Nat \ {0} : Chosen([reader.url EXCEPT !.page = p])
    BY <1>7 DEF TurnPage
  <2>2. reader.kind = "screen" /\ [reader.url EXCEPT !.page = p] \in Address(reader.screen)
    BY <1>3, <1>7 DEF TurnPage, Address
  <2> QED  BY <2>1, <2>2, ChosenTyped
<1>8. CASE Navigated
  <2>1. reader.next \in Address(reader.screen) /\ reader.screen \in Screens
        /\ Renders(reader.screen, reader.next)
    BY <1>8 DEF Navigated, ListingTypeOK, Reading
  <2> QED  BY <2>1, RendersTyped
<1> QED  BY <1>1, <1>2, <1>4, <1>5, <1>6, <1>7, <1>8

-----------------------------------------------------------------------------
(* The walk.                                                                 *)
LEMMA AfterCursor ==
    ASSUME ListingTypeOK, NEW column \in {"created", "updated"},
           NEW r \in Rows, table[r] # NULL, NEW l \in Rows, table[l] # NULL
    PROVE  LET next == Cursor(column, l)  a == table[r][column]  b == table[l][column] IN
           /\ a \in Nat /\ b \in Nat
           /\ a > b \/ (a = b /\ r >= l) => ~IsAfter(column, r, next)
           /\ a < b /\ ToISOString(a) # ToISOString(b) => IsAfter(column, r, next)
           /\ \A c \in Position :
                 IsAfter(column, l, c) /\ ~IsAfter(column, r, c) => ~IsAfter(column, r, next)
<1>1. table[r] \in Row /\ table[l] \in Row /\ r \in Nat /\ l \in Nat
  BY ListingAssumption DEF ListingTypeOK
<1>2. PICK a \in Nat : a = table[r][column]
  BY <1>1, ListingAssumption DEF Row, Instant
<1>3. PICK b \in Nat : b = table[l][column]
  BY <1>1, ListingAssumption DEF Row, Instant
<1>4. PICK m \in Nat : m = ToISOString(b)
  BY Milliseconds
<1>5. m <= b /\ (a < b /\ ToISOString(a) # m => a < m)
  BY <1>4, Milliseconds
<1>6. IsAfter(column, r, Cursor(column, l)) <=> a < m \/ (a = m /\ r < l)
  BY <1>2, <1>3, <1>4 DEF IsAfter, Cursor
<1>7. ASSUME NEW c \in Position, IsAfter(column, l, c), ~IsAfter(column, r, c)
      PROVE  ~IsAfter(column, r, Cursor(column, l))
  <2>1. c.at \in Nat /\ c.id \in Nat
    <3>1. Instant \subseteq Nat /\ Rows \subseteq Nat
      BY ListingAssumption DEF Instant
    <3>2. c.at \in Instant /\ c.id \in Rows
      BY DEF Position
    <3> QED  BY <3>1, <3>2
  <2>2. /\ b < c.at \/ (b = c.at /\ l < c.id)
        /\ ~(a < c.at \/ (a = c.at /\ r < c.id))
    BY <1>2, <1>3, <1>7 DEF IsAfter
  <2> QED  BY <1>1, <1>5, <1>6, <2>1, <2>2
<1>8. a > b \/ (a = b /\ r >= l) => ~IsAfter(column, r, Cursor(column, l))
  BY <1>1, <1>5, <1>6
<1>9. a < b /\ ToISOString(a) # m => IsAfter(column, r, Cursor(column, l))
  BY <1>5, <1>6
<1> QED  BY <1>2, <1>3, <1>4, <1>7, <1>8, <1>9

LEMMA FollowsTheColumn ==
    ASSUME ListingTypeOK, reader.kind = "walk", FollowsItsCursor(reader.list)
    PROVE  /\ Column \in {"created", "updated"} /\ Column # NULL
           /\ reader.list.order \in OrderNames
           /\ \A r, s : Precedes(reader.list.order, r, s) <=>
                 \/ table[r][Column] > table[s][Column]
                 \/ table[r][Column] = table[s][Column] /\ r > s
<1>1. reader.list.order \in OrderNames
  BY ListsTyped DEF ListingTypeOK, Walk
<1>2. CASE reader.list.order = "created_desc" /\ reader.list.cursor = "created"
  BY <1>1, <1>2, PrecedesMeans, ListingAssumption DEF Column
<1>3. CASE reader.list.order = "activity_desc" /\ reader.list.cursor = "updated"
  BY <1>1, <1>3, PrecedesMeans, ListingAssumption DEF Column
<1> QED  BY <1>2, <1>3 DEF FollowsItsCursor

\* What others do: a row keeps its place, unless it is saved; none comes back.
LEMMA ChangeWalks ==
    ASSUME ListingInv, NEW r \in Rows, Change(r), reader.kind = "walk", FollowsItsCursor(reader.list)
    PROVE  WalkFits'
<1>0. ListingTypeOK /\ WalkFits /\ reader \in Walk /\ Column \in {"created", "updated"}
  BY FollowsTheColumn DEF ListingInv, ListingTypeOK
<1>1. /\ reader'.present = reader.present /\ reader'.got = reader.got /\ reader'.more = reader.more
      /\ reader'.cursor = reader.cursor /\ reader'.crowded = reader.crowded /\ reader'.list = reader.list
      /\ reader.moved \subseteq reader'.moved
      /\ (Save(r) => r \in reader'.moved)
  <2>1. CASE Insert(r) \/ RemoveRow(r)
    <3>1. reader' = reader
      BY <2>1 DEF Insert, RemoveRow
    <3>2. ~Save(r) \/ r \in reader'.moved
      <4>1. SUFFICES ASSUME Save(r)  PROVE r \in reader'.moved
        OBVIOUS
      <4>2. reader' = [reader EXCEPT !.moved = @ \cup {r}]
        BY <4>1 DEF Save
      <4> QED  BY <1>0, <4>2 DEF Walk
    <3> QED  BY <3>1, <3>2
  <2>2. CASE Save(r)
    <3>1. reader' = [reader EXCEPT !.moved = @ \cup {r}]
      BY <2>2 DEF Save
    <3> QED  BY <1>0, <3>1 DEF Walk
  <2> QED  BY <2>1, <2>2 DEF Change
<1>2. \A x \in Rows \ {r} : table'[x] = table[x]
  BY <1>0 DEF Change, Insert, Save, RemoveRow, ListingTypeOK
<1>3. ASSUME table[r] # NULL
      PROVE  /\ table'[r] # NULL /\ (r \in Present' => r \in Present)
             /\ r \notin reader'.moved => table'[r][Column] = table[r][Column]
  <2>1. table'[r] # NULL
    <3>1. CASE Insert(r)
      BY <1>3, <3>1 DEF Insert
    <3>2. CASE RemoveRow(r) \/ Save(r)
      <4>1. table[r] \in Row /\ table \in [Rows -> Row \cup {NULL}]
        BY <1>0, <1>3 DEF ListingTypeOK
      <4>2. \E row \in Row : table'[r] = row
        <5>1. CASE RemoveRow(r)
          BY <4>1, <5>1 DEF RemoveRow, Row
        <5>2. CASE Save(r)
          <6>0. scenario.fresh \subseteq Content /\ clock..MaxClock \subseteq Instant
            BY <1>0, ListingAssumption DEF ListingTypeOK, Scenario, Instant
          <6>1. PICK row \in Content, t \in Instant :
                   table' = [table EXCEPT ![r] = Written(row, table[r].created, t)]
            BY <5>2, <6>0 DEF Save
          <6>2. table[r].created \in Instant
            BY <1>3, <4>1, ListingAssumption DEF Row
          <6> QED  BY <4>1, <6>1, <6>2, WrittenTyped
        <5> QED  BY <3>2, <5>1, <5>2
      <4> QED  BY <4>2, ListingAssumption
    <3> QED  BY <3>1, <3>2 DEF Change
  <2>2. r \in Present' => r \in Present
    BY <1>0, <1>3 DEF Change, Insert, Save, RemoveRow, ListingTypeOK, Present, Row
  <2>3. r \notin reader'.moved => table'[r][Column] = table[r][Column]
    <3>1. SUFFICES ASSUME r \notin reader'.moved  PROVE table'[r][Column] = table[r][Column]
      OBVIOUS
    <3>2. RemoveRow(r) /\ table[r] \in Row
      BY <1>0, <1>1, <1>3, <3>1 DEF Change, Insert, ListingTypeOK
    <3>3. table'[r] = [table[r] EXCEPT !.deleted = TRUE]
      BY <1>0, <3>2 DEF RemoveRow, ListingTypeOK
    <3> QED  BY <1>0, <3>2, <3>3 DEF Row
  <2> QED  BY <2>1, <2>2, <2>3
<1>4. ASSUME NEW x \in Rows, table[x] # NULL
      PROVE  /\ table'[x] # NULL /\ (x \in Present' => x \in Present)
             /\ x \notin reader'.moved => table'[x][Column] = table[x][Column]
  BY <1>2, <1>3, <1>4 DEF Present
<1>5. ASSUME NEW x \in Rows, table[x] # NULL, x \notin reader'.moved, NEW c
      PROVE  IsAfter(Column, x, c)' <=> IsAfter(Column, x, c)
  BY <1>1, <1>4, <1>5 DEF IsAfter, Column
<1>6. \A i \in 1..Len(reader.got) : reader.got[i] \in Rows
  BY <1>0 DEF Walk
<1>7. reader.present \subseteq Rows
  BY <1>0 DEF Walk
<1> QED
  BY <1>0, <1>1, <1>4, <1>5, <1>6, <1>7 DEF WalkFits, IsAfter, Column

\* One list after another.
LEMMA Appended ==
    ASSUME NEW S, NEW a \in Seq(S), NEW b \in Seq(S)
    PROVE  /\ a \o b \in Seq(S) /\ Len(a \o b) = Len(a) + Len(b)
           /\ \A i \in 1..Len(a) : i \in 1..Len(a \o b) /\ (a \o b)[i] = a[i]
           /\ \A i \in 1..Len(b) : Len(a) + i \in 1..Len(a \o b) /\ (a \o b)[Len(a) + i] = b[i]
           /\ \A i \in 1..Len(a \o b) :
                 i \in 1..Len(a) \/ (i - Len(a) \in 1..Len(b) /\ (a \o b)[i] = b[i - Len(a)])
<1>1. Len(a) \in Nat /\ Len(b) \in Nat
  OBVIOUS
<1>2. a \o b \in Seq(S) /\ Len(a \o b) = Len(a) + Len(b)
  OBVIOUS
<1>3. ASSUME NEW i \in 1..Len(a)  PROVE i \in 1..Len(a \o b) /\ (a \o b)[i] = a[i]
  BY <1>1, <1>2
<1>4. ASSUME NEW i \in 1..Len(b)  PROVE Len(a) + i \in 1..Len(a \o b) /\ (a \o b)[Len(a) + i] = b[i]
  BY <1>1, <1>2
<1>5. ASSUME NEW i \in 1..Len(a \o b), i \notin 1..Len(a)
      PROVE  i - Len(a) \in 1..Len(b) /\ (a \o b)[i] = b[i - Len(a)]
  <2>1. PICK j : j = i - Len(a)
    OBVIOUS
  <2>2. j \in 1..Len(b) /\ i = Len(a) + j
    BY <1>1, <1>2, <1>5, <2>1
  <2> QED  BY <1>4, <2>1, <2>2
<1> QED  BY <1>2, <1>3, <1>4, <1>5

\* The next page: its rows lie after the cursor, and at or before the next one; what is
\* left lies after the next one, but for the milliseconds that hold several rows.
LEMMA PageWalks ==
    ASSUME ListingInv, reader.kind = "walk", FollowsItsCursor(reader.list), reader.more,
           NEW page, page = GetPage(reader.list, reader.cursor, reader.limit)
    PROVE  LET n == Len(page.items)
               ahead(r) == r \in Present /\ (reader.cursor # NULL => IsAfter(Column, r, reader.cursor))
           IN  /\ n \in Nat /\ page.items \in Seq(Rows)
               /\ \A i \in 1..n : ahead(page.items[i])
               /\ \A i, j \in 1..n : page.items[i] = page.items[j] => i = j
               /\ page.next # NULL =>
                     \A r \in Rows : /\ table[r] # NULL
                                     /\ \/ \E i \in 1..n : page.items[i] = r
                                        \/ reader.cursor # NULL /\ ~IsAfter(Column, r, reader.cursor)
                                     => ~IsAfter(Column, r, page.next)
               /\ \A r \in Rows \ Crowded(Column) : ahead(r) =>
                     \/ \E i \in 1..n : page.items[i] = r
                     \/ page.next # NULL /\ IsAfter(Column, r, page.next)
<1>0. /\ ListingTypeOK /\ WalkFits /\ reader \in Walk /\ Column \in {"created", "updated"} /\ Column # NULL
      /\ reader.list.order \in OrderNames
  BY FollowsTheColumn DEF ListingInv, ListingTypeOK
<1>1. PICK s, kept :
           /\ kept = {r \in Present : reader.cursor # NULL /\ Column # NULL =>
                                          IsAfter(Column, r, reader.cursor)}
           /\ s = Sorted(reader.list.order, kept)
           /\ page.items \in Seq(Rows) /\ Len(page.items) \in Nat /\ Len(s) \in Nat
           /\ \A i \in 1..Len(page.items) : i \in 1..Len(s) /\ page.items[i] = s[i]
           /\ Len(s) <= reader.limit => Len(page.items) = Len(s)
           /\ Len(s) > reader.limit => Len(page.items) = reader.limit
           /\ page.next = IF Len(s) > reader.limit /\ Column # NULL
                          THEN Cursor(Column, s[reader.limit]) ELSE NULL
  BY <1>0, PageGiven DEF Column
<1>2. \A r : r \in kept <=> r \in Present /\ (reader.cursor # NULL => IsAfter(Column, r, reader.cursor))
  BY <1>0, <1>1
<1>3. kept \in SUBSET Present
  BY <1>1
<1>4. /\ s \in Seq(kept)
      /\ \A r \in kept : \E k \in 1..Len(s) : s[k] = r
      /\ \A m, k \in 1..Len(s) : m < k => Precedes(reader.list.order, s[m], s[k])
      /\ \A m, k \in 1..Len(s) : s[m] = s[k] => m = k
  <2>1. PICK order \in OrderNames : order = reader.list.order
    BY <1>0
  <2>2. s = Sorted(order, kept)
    BY <1>1, <2>1
  <2> QED  BY <1>0, <1>3, <2>1, <2>2, SortedList
<1>5. \A k \in 1..Len(s) : s[k] \in kept /\ s[k] \in Rows /\ table[s[k]] # NULL
  <2>1. \A k \in 1..Len(s) : s[k] \in kept
    <3>1. Len(s) \in Nat /\ s \in Seq(kept)
      BY <1>1, <1>4
    <3> QED  BY <3>1
  <2> QED  BY <1>3, <2>1 DEF Present
<1>6. PICK n \in Nat : n = Len(page.items)
  BY <1>1
<1>7. PICK limit \in Nat \ {0} : limit = reader.limit
  BY <1>0, ListingAssumption DEF Walk
<1>8. \A m, k \in 1..Len(s) : m < k =>
         \/ table[s[m]][Column] > table[s[k]][Column]
         \/ table[s[m]][Column] = table[s[k]][Column] /\ s[m] > s[k]
  BY <1>0, <1>4, FollowsTheColumn
<1>9. ASSUME page.next # NULL
      PROVE  /\ Len(s) > limit /\ n = limit /\ limit \in 1..Len(s) /\ limit \in 1..n
             /\ page.next = Cursor(Column, s[limit])
  <2>1. /\ page.next = IF Len(s) > limit THEN Cursor(Column, s[limit]) ELSE NULL
        /\ Len(s) > limit => n = limit
        /\ Len(s) \in Nat
    BY <1>0, <1>1, <1>6, <1>7
  <2>2. Len(s) > limit
    BY <1>9, <2>1
  <2> QED  BY <2>1, <2>2
<1>10. ASSUME NEW i \in 1..n  PROVE i \in 1..Len(s) /\ page.items[i] = s[i] /\ page.items[i] \in kept
  BY <1>1, <1>5, <1>6
<1>11. ASSUME NEW i \in 1..n, NEW j \in 1..n, page.items[i] = page.items[j]  PROVE i = j
  <2>1. i \in 1..Len(s) /\ j \in 1..Len(s) /\ s[i] = s[j]
    BY <1>10, <1>11
  <2> QED  BY <1>4, <2>1
<1>12. ASSUME page.next # NULL, NEW r \in Rows, table[r] # NULL,
              \/ \E i \in 1..n : page.items[i] = r
              \/ reader.cursor # NULL /\ ~IsAfter(Column, r, reader.cursor)
       PROVE  ~IsAfter(Column, r, page.next)
  <2>1. PICK l : l = s[limit]
    OBVIOUS
  <2>2. l \in kept /\ l \in Rows /\ table[l] # NULL /\ page.next = Cursor(Column, l)
    BY <1>5, <1>9, <1>12, <2>1
  <2>3. PICK a : a = table[r][Column]
    OBVIOUS
  <2>4. PICK b : b = table[l][Column]
    OBVIOUS
  <2>5. /\ a \in Nat /\ b \in Nat
        /\ a > b \/ (a = b /\ r >= l) => ~IsAfter(Column, r, page.next)
        /\ \A c \in Position :
              IsAfter(Column, l, c) /\ ~IsAfter(Column, r, c) => ~IsAfter(Column, r, page.next)
    BY <1>0, <1>12, <2>2, <2>3, <2>4, AfterCursor
  <2>6. r \in Nat /\ l \in Nat
    BY <2>2, ListingAssumption
  <2>7. CASE \E i \in 1..n : page.items[i] = r
    <3>1. PICK i \in 1..n : page.items[i] = r
      BY <2>7
    <3>2. i < limit \/ i = limit
      BY <1>9, <1>12, <1>7
    <3>3. i \in 1..Len(s) /\ s[i] = r
      BY <1>10, <3>1
    <3>4. i < limit => a > b \/ (a = b /\ r > l)
      BY <1>8, <1>9, <1>12, <2>1, <2>3, <2>4, <3>3
    <3>5. i = limit => r = l /\ a = b
      BY <2>1, <2>3, <2>4, <3>3
    <3> QED  BY <2>5, <2>6, <3>2, <3>4, <3>5
  <2>8. CASE reader.cursor # NULL /\ ~IsAfter(Column, r, reader.cursor)
    <3>1. reader.cursor \in Position /\ IsAfter(Column, l, reader.cursor)
      BY <1>0, <1>2, <2>2, <2>8 DEF Walk
    <3> QED  BY <2>5, <2>8, <3>1
  <2> QED  BY <1>12, <2>7, <2>8
<1>13. ASSUME NEW r \in kept, r \notin Crowded(Column), ~\E i \in 1..n : page.items[i] = r
       PROVE  page.next # NULL /\ IsAfter(Column, r, page.next)
  <2>1. PICK k \in 1..Len(s) : s[k] = r
    BY <1>4
  <2>2. k \notin 1..n
    BY <1>10, <1>13, <2>1
  <2>3. k \in Nat /\ k > n /\ k <= Len(s) /\ k >= 1 /\ Len(s) \in Nat
    <3>1. Len(s) \in Nat
      BY <1>1
    <3> QED  BY <2>2, <3>1
  <2>4. Len(s) > limit /\ n = limit
    <3>1. /\ Len(s) <= limit => n = Len(s)
          /\ Len(s) > limit => n = limit
      BY <1>1, <1>6, <1>7
    <3> QED  BY <2>3, <3>1
  <2>5. limit \in 1..Len(s) /\ limit < k
    BY <2>3, <2>4
  <2>6. PICK l : l = s[limit]
    OBVIOUS
  <2>7. l \in Rows /\ table[l] # NULL /\ l \in Present /\ r \in Rows /\ table[r] # NULL /\ r \in Present
    BY <1>3, <1>5, <2>1, <2>5, <2>6
  <2>8. page.next = Cursor(Column, l) /\ page.next # NULL
    BY <1>0, <1>1, <1>7, <2>4, <2>6, <2>7, CursorTyped
  <2>9. PICK a : a = table[r][Column]
    OBVIOUS
  <2>10. PICK b : b = table[l][Column]
    OBVIOUS
  <2>11. /\ a \in Nat /\ b \in Nat
         /\ a < b /\ ToISOString(a) # ToISOString(b) => IsAfter(Column, r, page.next)
    BY <1>0, <2>7, <2>8, <2>9, <2>10, AfterCursor
  <2>12. b > a \/ (b = a /\ l > r)
    BY <1>8, <2>1, <2>5, <2>6, <2>9, <2>10
  <2>13. l # r
    BY <1>4, <2>1, <2>5, <2>6
  <2>14. ToISOString(b) # ToISOString(a)
    BY <1>13, <2>7, <2>9, <2>10, <2>13 DEF Crowded
  <2>15. a < b
    BY <2>11, <2>12, <2>14
  <2> QED  BY <2>8, <2>11, <2>14, <2>15
<1> QED
  <2>1. \A i \in 1..n : /\ page.items[i] \in Present
                        /\ reader.cursor # NULL => IsAfter(Column, page.items[i], reader.cursor)
    BY <1>2, <1>10
  <2> QED  BY <1>1, <1>2, <1>6, <1>11, <1>12, <1>13, <2>1

LEMMA FollowWalks ==
    ASSUME ListingInv, FollowCursor, FollowsItsCursor(reader.list)
    PROVE  WalkFits'
<1>1. PICK page : page = GetPage(reader.list, reader.cursor, reader.limit)
  OBVIOUS
<1>2. /\ reader.kind = "walk" /\ reader.more /\ UNCHANGED <<table, clock, scenario>>
      /\ reader' = [reader EXCEPT !.got = @ \o page.items, !.cursor = page.next,
                                  !.more = page.next # NULL,
                                  !.crowded = @ \cup (IF reader.list.cursor = NULL THEN {}
                                                      ELSE Crowded(reader.list.cursor))]
  BY <1>1 DEF FollowCursor
<1>3. ListingTypeOK /\ WalkFits /\ reader \in Walk /\ Column # NULL
  BY <1>2, FollowsTheColumn DEF ListingInv, ListingTypeOK
<1>4. PICK c : c = Crowded(Column)
  OBVIOUS
<1>5. /\ reader'.got = reader.got \o page.items /\ reader'.cursor = page.next
      /\ (reader'.more <=> page.next # NULL)
      /\ reader'.crowded = reader.crowded \cup c /\ reader'.present = reader.present
      /\ reader'.moved = reader.moved /\ reader'.list = reader.list
  <2>1. reader' = [reader EXCEPT !.got = @ \o page.items, !.cursor = page.next,
                                  !.more = page.next # NULL, !.crowded = @ \cup c]
    BY <1>2, <1>3, <1>4 DEF Column
  <2> QED  BY <1>3, <2>1 DEF Walk
<1>6. PICK n \in Nat : /\ n = Len(page.items) /\ page.items \in Seq(Rows)
                       /\ \A i \in 1..n : /\ page.items[i] \in Present
                                          /\ reader.cursor # NULL => IsAfter(Column, page.items[i], reader.cursor)
                       /\ \A i, j \in 1..n : page.items[i] = page.items[j] => i = j
  BY <1>1, <1>2, PageWalks
<1>7. page.next # NULL =>
         \A r \in Rows : /\ table[r] # NULL
                         /\ \/ \E i \in 1..n : page.items[i] = r
                            \/ reader.cursor # NULL /\ ~IsAfter(Column, r, reader.cursor)
                         => ~IsAfter(Column, r, page.next)
  BY <1>1, <1>2, <1>6, PageWalks
<1>8. \A r \in Rows \ c : r \in Present /\ (reader.cursor # NULL => IsAfter(Column, r, reader.cursor)) =>
         \/ \E i \in 1..n : page.items[i] = r
         \/ page.next # NULL /\ IsAfter(Column, r, page.next)
  BY <1>1, <1>2, <1>4, <1>6, PageWalks
<1>9. PICK G \in Nat : G = Len(reader.got) /\ reader.got \in Seq(Rows)
  BY <1>3 DEF Walk
<1>10. PICK g : g = reader'.got
  OBVIOUS
<1>11. /\ Len(g) = G + n
       /\ \A i \in 1..(G + n) : \/ i \in 1..G /\ g[i] = reader.got[i]
                                \/ i - G \in 1..n /\ g[i] = page.items[i - G]
       /\ \A i \in 1..G : i \in 1..(G + n) /\ g[i] = reader.got[i]
       /\ \A i \in 1..n : G + i \in 1..(G + n) /\ g[G + i] = page.items[i]
  <2>1. PICK a \in Seq(Rows) : a = reader.got
    BY <1>9
  <2>2. PICK b \in Seq(Rows) : b = page.items
    BY <1>6
  <2>3. g = a \o b /\ Len(a) = G /\ Len(b) = n
    BY <1>5, <1>6, <1>9, <1>10, <2>1, <2>2
  <2>4. /\ Len(a \o b) = Len(a) + Len(b)
        /\ \A i \in 1..Len(a) : i \in 1..Len(a \o b) /\ (a \o b)[i] = a[i]
        /\ \A i \in 1..Len(b) : Len(a) + i \in 1..Len(a \o b) /\ (a \o b)[Len(a) + i] = b[i]
        /\ \A i \in 1..Len(a \o b) :
              i \in 1..Len(a) \/ (i - Len(a) \in 1..Len(b) /\ (a \o b)[i] = b[i - Len(a)])
    BY Appended
  <2>5. /\ Len(g) = G + n
        /\ \A i \in 1..G : i \in 1..(G + n) /\ g[i] = a[i]
        /\ \A i \in 1..n : G + i \in 1..(G + n) /\ g[G + i] = b[i]
        /\ \A i \in 1..(G + n) : i \in 1..G \/ (i - G \in 1..n /\ g[i] = b[i - G])
    BY <2>3, <2>4
  <2> QED  BY <2>1, <2>2, <2>5
<1>12. \A i \in 1..n : page.items[i] \in Rows /\ table[page.items[i]] # NULL
  BY <1>6 DEF Present
<1>13. \A i \in 1..G : reader.got[i] \in Rows /\ table[reader.got[i]] # NULL
  BY <1>3, <1>9 DEF WalkFits
<1>14. \A i \in 1..Len(g) : g[i] \in Rows /\ table[g[i]] # NULL
  BY <1>11, <1>12, <1>13
<1>15. ASSUME NEW i \in 1..G, reader.got[i] \notin reader.moved
       PROVE  reader.cursor # NULL /\ ~IsAfter(Column, reader.got[i], reader.cursor)
  BY <1>2, <1>3, <1>9, <1>15 DEF WalkFits
<1>16. ASSUME NEW i \in 1..Len(g), page.next # NULL, g[i] \notin reader.moved
       PROVE  ~IsAfter(Column, g[i], page.next)
  <2>1. g[i] \in Rows /\ table[g[i]] # NULL
    BY <1>14
  <2>2. CASE i \in 1..G /\ g[i] = reader.got[i]
    BY <1>7, <1>15, <1>16, <2>1, <2>2
  <2>3. CASE i - G \in 1..n /\ g[i] = page.items[i - G]
    BY <1>7, <1>16, <2>1, <2>3
  <2> QED  BY <1>11, <2>2, <2>3
<1>17. ASSUME NEW i \in 1..Len(g), NEW j \in 1..Len(g), i # j, g[i] = g[j], g[i] \notin reader.moved
       PROVE  FALSE
  <2>1. /\ (i \in 1..G /\ g[i] = reader.got[i]) \/ (i - G \in 1..n /\ g[i] = page.items[i - G])
        /\ (j \in 1..G /\ g[j] = reader.got[j]) \/ (j - G \in 1..n /\ g[j] = page.items[j - G])
    <3>1. i \in 1..(G + n) /\ j \in 1..(G + n)
      BY <1>11, <1>17
    <3> QED  BY <1>11, <3>1
  <2>2. CASE i \in 1..G /\ j \in 1..G
    BY <1>3, <1>9, <1>11, <1>17, <2>2 DEF WalkFits
  <2>3. CASE i \in 1..G /\ j \notin 1..G
    <3>1. g[i] = reader.got[i] /\ j - G \in 1..n /\ g[j] = page.items[j - G]
      BY <1>11, <2>1, <2>3
    <3>2. IsAfter(Column, g[j], reader.cursor)
      BY <1>6, <1>15, <1>17, <2>3, <3>1
    <3> QED  BY <1>15, <1>17, <2>3, <3>1, <3>2
  <2>4. CASE i \notin 1..G /\ j \in 1..G
    BY <1>6, <1>11, <1>15, <1>17, <2>1, <2>4
  <2>5. CASE i \notin 1..G /\ j \notin 1..G
    <3>1. i - G = j - G
      BY <1>6, <1>17, <2>1, <2>5
    <3> QED  BY <1>9, <1>11, <1>17, <3>1
  <2> QED  BY <2>2, <2>3, <2>4, <2>5
<1>18. ASSUME NEW r \in (reader.present \cap Present) \ (reader.moved \cup (reader.crowded \cup c))
       PROVE  \/ \E i \in 1..Len(g) : g[i] = r
              \/ page.next # NULL /\ IsAfter(Column, r, page.next)
  <2>1. r \in Rows \ c /\ r \in Present
    BY <1>18 DEF Present
  <2>2. \/ \E i \in 1..G : reader.got[i] = r
        \/ reader.cursor = NULL \/ IsAfter(Column, r, reader.cursor)
    BY <1>3, <1>9, <1>18 DEF WalkFits
  <2>3. CASE \E i \in 1..G : reader.got[i] = r
    BY <1>11, <2>3
  <2>4. CASE \E i \in 1..n : page.items[i] = r
    BY <1>11, <2>4
  <2> QED  BY <1>8, <2>1, <2>2, <2>3, <2>4
<1>19. table' = table /\ Column' = Column /\ Present' = Present
  BY <1>2, <1>5 DEF Column, Present
<1>20. \A r, p : IsAfter(Column, r, p)' <=> IsAfter(Column, r, p)
  BY <1>19 DEF IsAfter
<1>21. \A r \in reader.present : table[r] # NULL
  BY <1>3 DEF WalkFits
<1> QED
  BY <1>5, <1>10, <1>14, <1>16, <1>17, <1>18, <1>19, <1>20, <1>21 DEF WalkFits

LEMMA ListingSteps == ListingInv /\ [ListingNext]_listingVars => ListingInv'
<1> SUFFICES ASSUME ListingInv, [ListingNext]_listingVars  PROVE ListingInv'
  OBVIOUS
<1>0. ListingTypeOK
  BY DEF ListingInv
<1>1. ASSUME NEW r \in Rows, Change(r)  PROVE ListingInv'
  <2>1. ListingTypeOK'
    BY <1>0, <1>1, ChangeTyped
  <2>2. reader'.kind = reader.kind /\ (reader.kind = "walk" => reader'.list = reader.list)
    <3>1. reader' = reader \/ (reader.kind = "walk" /\ reader' = [reader EXCEPT !.moved = @ \cup {r}])
      BY <1>1 DEF Change, Insert, Save, RemoveRow
    <3> QED  BY <1>0, <3>1 DEF ListingTypeOK, Walk
  <2>3. ASSUME reader'.kind = "walk", FollowsItsCursor(reader'.list)  PROVE WalkFits'
    BY <1>1, <2>2, <2>3, ChangeWalks
  <2> QED  BY <2>1, <2>3 DEF ListingInv
<1>2. CASE FollowCursor
  <2>1. ListingTypeOK'
    BY <1>0, <1>2, FollowTyped
  <2>2. reader'.list = reader.list
    <3>1. reader \in Walk
      BY <1>0, <1>2 DEF FollowCursor, ListingTypeOK
    <3> QED  BY <1>2, <3>1 DEF FollowCursor, Walk
  <2>3. ASSUME FollowsItsCursor(reader'.list)  PROVE WalkFits'
    BY <1>2, <2>2, <2>3, FollowWalks
  <2> QED  BY <2>1, <2>3 DEF ListingInv
<1>3. CASE StartWalk
  <2>1. ListingTypeOK'
    BY <1>0, <1>3, ReaderTyped
  <2>2. PICK list \in Lists, limit \in Limits :
          reader' = [kind |-> "walk", list |-> list, limit |-> limit, cursor |-> NULL, more |-> TRUE,
                     got |-> <<>>, present |-> Present, moved |-> {}, crowded |-> {}]
    BY <1>3 DEF StartWalk
  <2>3. table' = table /\ Present' = Present
    BY <1>3 DEF StartWalk, Present
  <2>4. /\ reader'.got = <<>> /\ reader'.cursor = NULL /\ reader'.more
        /\ reader'.present = Present /\ reader'.moved = {} /\ reader'.crowded = {}
    BY <2>2
  <2>5. WalkFits'
    <3>1. \A r \in Present : table[r] # NULL
      BY DEF Present
    <3>2. 1..Len(reader'.got) = {}
      BY <2>4
    <3> QED  BY <2>3, <2>4, <3>1, <3>2 DEF WalkFits
  <2> QED  BY <2>1, <2>5 DEF ListingInv
<1>4. CASE OpenScreen \/ Navigated \/ ChooseGroup \/ ChooseStatus \/ ChooseSort \/ SubmitSearch
           \/ ChangeSize \/ TurnPage
  <2>1. ListingTypeOK'
    BY <1>0, <1>4, ReaderTyped
  <2>2. reader'.kind = "screen"
    <3>1. CASE OpenScreen
      BY <3>1 DEF OpenScreen, Renders
    <3>2. CASE Navigated
      BY <3>2 DEF Navigated, Renders
    <3>3. ASSUME reader.kind = "screen", NEW next, Chosen(next)  PROVE reader'.kind = "screen"
      BY <1>0, <3>3 DEF Chosen, ListingTypeOK, Reading
    <3>4. CASE ChooseGroup \/ ChooseStatus \/ ChooseSort \/ SubmitSearch \/ ChangeSize \/ TurnPage
      BY <3>3, <3>4 DEF ChooseGroup, ChooseStatus, ChooseSort, Open, SubmitSearch, ChangeSize, TurnPage
    <3> QED  BY <1>4, <3>1, <3>2, <3>4
  <2> QED  BY <2>1, <2>2 DEF ListingInv
<1>5. CASE UNCHANGED listingVars
  <2>1. ListingTypeOK'
    BY <1>0, <1>5 DEF listingVars, ListingTypeOK
  <2>2. WalkFits' = WalkFits /\ reader' = reader
    BY <1>5 DEF listingVars, WalkFits, Present, IsAfter, Column
  <2> QED  BY <2>1, <2>2 DEF ListingInv
<1> QED  BY <1>1, <1>2, <1>3, <1>4, <1>5 DEF ListingNext

THEOREM ListingKeepsInv == ListingSpec => []ListingInv
<1>1. ListingInit => ListingInv
  BY ListingStarts DEF ListingInv
<1> QED  BY <1>1, ListingSteps, PTL DEF ListingSpec

\* A table, its reader and the addresses of the screens keep their types: an address only
\* says what the toolbars of its screen can put in it.
THEOREM ListingStaysTyped == ListingSpec => []ListingTypeOK
<1>1. ListingInv => ListingTypeOK
  BY DEF ListingInv
<1> QED  BY <1>1, ListingKeepsInv, PTL

\* Whoever follows the cursors of a list to the end gets every row that was there all along
\* and was not saved meanwhile, unless it shared its millisecond with another one, and no
\* unsaved row twice, whatever others do to the table (cursor.util.ts, the list methods).
THEOREM WalksReturnEachRowOnce == ListingSpec => []WalkReturnsEachRowOnce
<1>1. ListingInv => WalkReturnsEachRowOnce
  <2> SUFFICES ASSUME ListingInv, reader.kind = "walk", FollowsItsCursor(reader.list)
               PROVE  /\ \A i, j \in 1..Len(reader.got) :
                            i # j /\ reader.got[i] = reader.got[j] => reader.got[i] \in reader.moved
                      /\ ~reader.more =>
                            (reader.present \cap Present) \ (reader.moved \cup reader.crowded) \subseteq ToSet(reader.got)
    BY DEF WalkReturnsEachRowOnce
  <2>1. WalkFits /\ reader.got \in Seq(Rows)
    BY DEF ListingInv, ListingTypeOK, Walk
  <2>2. \A i \in 1..Len(reader.got) : reader.got[i] \in ToSet(reader.got)
    BY <2>1 DEF ToSet
  <2> QED  BY <2>1, <2>2 DEF WalkFits
<1> QED  BY <1>1, ListingKeepsInv, PTL

-----------------------------------------------------------------------------
(* The screens.                                                              *)

(* The pages of n rows cut into the same size.                                *)
LEMMA Multiples ==
    ASSUME NEW a \in Nat, NEW b \in Nat, NEW size \in Nat, a <= b
    PROVE  a * size \in Nat /\ b * size \in Nat /\ a * size <= b * size
<1>1. PICK d \in Nat : b = a + d
  <2>1. b - a \in Nat /\ b = a + (b - a)
    OBVIOUS
  <2> QED  BY <2>1
<1>2. b * size = a * size + d * size /\ a * size \in Nat /\ d * size \in Nat
  BY <1>1
<1> QED  BY <1>2

LEMMA Ceiling ==
    ASSUME NEW n \in Nat \ {0}, NEW size \in Nat \ {0}
    PROVE  /\ CeilingOf(n, size) \in Nat \ {0}
           /\ (CeilingOf(n, size) - 1) * size < n /\ n <= CeilingOf(n, size) * size
<1>1. PICK m \in Nat : m = n + size - 1
  OBVIOUS
<1>2. PICK q \in Nat : q = m \div size
  OBVIOUS
<1>3. m % size \in 0..(size - 1) /\ m = size * q + (m % size)
  BY <1>2
<1>4. q # 0
  <2> SUFFICES ASSUME q = 0  PROVE FALSE
    OBVIOUS
  <2>1. size * q = 0
    OBVIOUS
  <2> QED  BY <1>1, <1>3, <2>1
<1>5. (q - 1) * size = size * q - size /\ q * size = size * q /\ size * q \in Nat
  OBVIOUS
<1>6. CeilingOf(n, size) = q
  BY <1>1, <1>2 DEF CeilingOf
<1> QED  BY <1>1, <1>3, <1>4, <1>5, <1>6

LEMMA NextMultiple ==
    ASSUME NEW p \in Nat \ {0}, NEW size \in Nat
    PROVE  p * size = (p - 1) * size + size /\ (p - 1) * size \in Nat
<1>1. PICK o \in Nat : p = o + 1
  <2>1. p - 1 \in Nat /\ p = (p - 1) + 1
    OBVIOUS
  <2> QED  BY <2>1
<1>2. (o + 1) * size = o * size + size /\ o * size \in Nat
  OBVIOUS
<1> QED  BY <1>1, <1>2

LEMMA PagesApart ==
    ASSUME NEW size \in Nat \ {0}, NEW i \in Nat, NEW p \in Nat \ {0}, NEW q \in Nat \ {0},
           (p - 1) * size < i, i <= (p - 1) * size + size,
           (q - 1) * size < i, i <= (q - 1) * size + size
    PROVE  p = q
<1>1. ASSUME NEW a \in Nat \ {0}, NEW b \in Nat \ {0}, a < b,
             i <= (a - 1) * size + size, (b - 1) * size < i
      PROVE  FALSE
  <2>1. b - 1 \in Nat /\ a <= b - 1
    BY <1>1
  <2>2. a * size <= (b - 1) * size /\ a * size \in Nat /\ (b - 1) * size \in Nat
    BY <2>1, Multiples
  <2>3. a * size = (a - 1) * size + size
    BY NextMultiple
  <2> QED  BY <1>1, <2>2, <2>3
<1>2. ~(p < q) /\ ~(q < p)
  BY <1>1
<1> QED  BY <1>2

LEMMA PagesCover ==
    ASSUME NEW n \in Nat, NEW size \in Nat \ {0}, NEW pages, pages = Pages(n, size)
    PROVE  /\ pages \in Nat \ {0}
           /\ n # 0 => \A p \in 1..pages : (p - 1) * size \in Nat /\ (p - 1) * size < n
           /\ \A i \in 1..n : \E p \in 1..pages : (p - 1) * size < i /\ i <= (p - 1) * size + size
<1>1. pages \in Nat \ {0} /\ (n # 0 => (pages - 1) * size < n /\ n <= pages * size)
  <2>1. CASE n = 0
    BY <2>1 DEF Pages
  <2>2. CASE n # 0
    BY <2>2, Ceiling DEF Pages
  <2> QED  BY <2>1, <2>2
<1>2. ASSUME NEW p \in Nat \ {0}  PROVE p * size = (p - 1) * size + size /\ (p - 1) * size \in Nat
  BY NextMultiple
<1>3. ASSUME n # 0, NEW p \in 1..pages  PROVE (p - 1) * size \in Nat /\ (p - 1) * size < n
  <2>1. p \in Nat \ {0} /\ p - 1 \in Nat /\ pages - 1 \in Nat /\ p - 1 <= pages - 1
    BY <1>1
  <2>2. (p - 1) * size <= (pages - 1) * size /\ (p - 1) * size \in Nat /\ (pages - 1) * size \in Nat
    BY <2>1, Multiples
  <2> QED  BY <1>1, <1>3, <2>2
<1>4. ASSUME NEW i \in 1..n
      PROVE  \E p \in 1..pages : (p - 1) * size < i /\ i <= (p - 1) * size + size
  <2>1. PICK c \in Nat \ {0} : (c - 1) * size < i /\ i <= c * size
    <3>1. i \in Nat \ {0}
      OBVIOUS
    <3>2. PICK c : c = CeilingOf(i, size)
      OBVIOUS
    <3>3. c \in Nat \ {0} /\ (c - 1) * size < i /\ i <= c * size
      BY <3>1, <3>2, Ceiling
    <3> QED  BY <3>3
  <2>2. c <= pages
    <3> SUFFICES ASSUME c > pages  PROVE FALSE
      BY <1>1
    <3>1. c - 1 \in Nat /\ pages \in Nat /\ pages <= c - 1
      BY <1>1
    <3>2. pages * size <= (c - 1) * size /\ pages * size \in Nat /\ (c - 1) * size \in Nat
      BY <3>1, Multiples
    <3> QED  BY <1>1, <2>1, <3>2
  <2> QED  BY <1>1, <1>2, <2>1, <2>2
<1> QED  BY <1>1, <1>3, <1>4

(* A page shows the rows that follow those of the pages before it.            *)
LEMMA PageShows ==
    ASSUME NEW S, NEW rows \in Seq(S), NEW size \in Nat \ {0}, NEW p \in Nat \ {0}
    PROVE  LET n == Len(rows) IN
           /\ n # 0 => PageItems(rows, p, size) # <<>>
           /\ p \in 1..Pages(n, size) =>
                 \A x : x \in ToSet(PageItems(rows, p, size)) <=>
                    \E i \in 1..n : (p - 1) * size < i /\ i <= (p - 1) * size + size /\ rows[i] = x
<1>1. PICK n \in Nat : n = Len(rows)
  OBVIOUS
<1>2. PICK pages : pages = Pages(n, size)
  OBVIOUS
<1>3. /\ pages \in Nat \ {0}
      /\ n # 0 => \A q \in 1..pages : (q - 1) * size \in Nat /\ (q - 1) * size < n
  BY <1>2, PagesCover
<1>4. PICK safe : safe = SafePage(n, p, size)
  OBVIOUS
<1>5. safe \in 1..pages /\ (p \in 1..pages => safe = p)
  BY <1>2, <1>3, <1>4 DEF SafePage
<1>6. PICK start \in Nat : start = (safe - 1) * size
  <2>1. safe - 1 \in Nat
    BY <1>3, <1>5
  <2>2. (safe - 1) * size \in Nat
    BY <2>1
  <2> QED  BY <2>2
<1>7. PICK last \in Nat : last = IF start + size > n THEN n ELSE start + size
  OBVIOUS
<1>8. PICK items : items = PageItems(rows, p, size)
  OBVIOUS
<1>9. items = SubSeq(rows, start + 1, last)
  BY <1>1, <1>4, <1>6, <1>7, <1>8 DEF PageItems
<1>10. n # 0 => start < n
  BY <1>3, <1>5, <1>6
<1>11. n = 0 => start + 1 > last
  BY <1>7
<1>12. n # 0 => start + 1 <= last
  BY <1>7, <1>10
<1>13. last <= n
  BY <1>7
<1>14. CASE n = 0
  <2>1. items \in Seq(S) /\ Len(items) = 0
    BY <1>1, <1>9, <1>11, <1>13, <1>14
  <2>2. ToSet(items) = {}
    BY <2>1 DEF ToSet
  <2>3. 1..n = {}
    BY <1>14
  <2> QED  BY <1>1, <1>8, <1>14, <2>2, <2>3
<1>15. CASE n # 0
  <2>1. PICK m \in Nat \ {0} : m = last - start
    BY <1>12, <1>15
  <2>2. items \in Seq(S) /\ Len(items) = m /\ \A k \in 1..m : items[k] = rows[start + k]
    BY <1>1, <1>9, <1>12, <1>13, <1>15, <2>1
  <2>3. items # <<>>
    BY <2>2
  <2>4. ASSUME NEW x
        PROVE  x \in ToSet(items) <=> \E i \in 1..n : start < i /\ i <= start + size /\ rows[i] = x
    <3>1. x \in ToSet(items) <=> \E k \in 1..m : items[k] = x
      BY <2>2 DEF ToSet
    <3>2. ASSUME NEW k \in 1..m, items[k] = x
          PROVE  \E i \in 1..n : start < i /\ i <= start + size /\ rows[i] = x
      <4>1. start + k \in 1..n /\ start < start + k /\ start + k <= start + size /\ rows[start + k] = x
        BY <1>7, <2>1, <2>2, <3>2
      <4> QED  BY <4>1
    <3>3. ASSUME NEW i \in 1..n, start < i, i <= start + size, rows[i] = x
          PROVE  \E k \in 1..m : items[k] = x
      <4>1. PICK k \in 1..m : i = start + k
        <5>1. i - start \in 1..m /\ i = start + (i - start)
          BY <1>7, <2>1, <3>3
        <5> QED  BY <5>1
      <4> QED  BY <2>2, <3>3, <4>1
    <3> QED  BY <3>1, <3>2, <3>3
  <2>5. p \in 1..pages => start = (p - 1) * size
    BY <1>5, <1>6
  <2> QED  BY <1>1, <1>2, <1>8, <2>3, <2>4, <2>5
<1> QED  BY <1>14, <1>15

(* What a screen's sort compares, as a number that grows.                      *)
SortKey(sort, r) ==
    CASE sort = "created_desc" -> 0 - ToISOString(table[r].created)
      [] sort = "created_asc" -> ToISOString(table[r].created)
      [] sort = "name_asc" -> table[r].name
      [] sort = "last_login_desc" -> 0 - table[r].rank
      [] sort = "as_fetched" -> 0
SortNames == {"created_desc", "created_asc", "name_asc", "last_login_desc", "as_fetched"}

LEMMA ComparesKeys ==
    ASSUME ListingTypeOK, NEW sort \in SortNames, NEW r \in Present, NEW s \in Present
    PROVE  SortKey(sort, r) \in Int /\ (Compares(sort, r, s) <=> SortKey(sort, r) < SortKey(sort, s))
<1>1. /\ table[r].name \in Nat /\ table[r].rank \in Nat /\ table[r].created \in Nat
      /\ table[s].name \in Nat /\ table[s].rank \in Nat /\ table[s].created \in Nat
  BY RowsTyped
<1>2. PICK a \in Nat : a = ToISOString(table[r].created)
  BY <1>1, Milliseconds
<1>3. PICK b \in Nat : b = ToISOString(table[s].created)
  BY <1>1, Milliseconds
<1>4. CASE sort = "created_desc"
  BY <1>2, <1>3, <1>4 DEF SortKey, Compares
<1>5. CASE sort = "created_asc"
  BY <1>2, <1>3, <1>5 DEF SortKey, Compares
<1>6. CASE sort = "name_asc"
  BY <1>1, <1>6 DEF SortKey, Compares
<1>7. CASE sort = "last_login_desc"
  BY <1>1, <1>7 DEF SortKey, Compares
<1>8. CASE sort = "as_fetched"
  BY <1>8 DEF SortKey, Compares
<1> QED  BY <1>4, <1>5, <1>6, <1>7, <1>8 DEF SortNames

(* What a screen shows first: by its sort, and as it came where the sort is silent. *)
InScreenOrder(screen, sort, S) == [r \in S |-> {s \in S : ShownBefore(screen, sort, s, r)}]

LEMMA FetchedOrderTyped ==
    \A screen \in Screens : \A sort \in screen.sorts : FetchedOrder(screen, sort) \in OrderNames
  BY ScreensTyped DEF FetchedOrder, RequestSorts, OrderNames

LEMMA ShownOrders ==
    ASSUME ListingTypeOK, NEW screen \in Screens, NEW sort \in screen.sorts, NEW S \in SUBSET Present
    PROVE  Orders(InScreenOrder(screen, sort, S), S)
<1>1. PICK order \in OrderNames : order = FetchedOrder(screen, sort)
  BY FetchedOrderTyped
<1>2. PICK own \in SortNames : own = IF "sort" \in screen.delegated THEN "as_fetched" ELSE sort
  BY ScreensTyped DEF SortNames
<1>3. PICK key : key = [r \in S |-> SortKey(own, r)]
  OBVIOUS
<1>4. \A r, s \in S : key[r] \in Int /\ (Compares(own, r, s) <=> key[r] < key[s])
  BY <1>3, ComparesKeys
<1>5. PICK first : first = InOrderOf(order, S)
  OBVIOUS
<1>6. Orders(first, S)
  BY <1>5, PrecedesOrders
<1>7. \A r, s \in S : s \in first[r] <=> Precedes(order, s, r)
  BY <1>5 DEF InOrderOf
<1>8. PICK before : before = InScreenOrder(screen, sort, S)
  OBVIOUS
<1>9. before = [r \in S |-> {s \in S : ShownBefore(screen, sort, s, r)}]
  BY <1>8 DEF InScreenOrder
<1>10. \A r, s \in S : s \in before[r] <=> key[s] < key[r] \/ (~(key[r] < key[s]) /\ s \in first[r])
  <2>1. \A r, s \in S : ShownBefore(screen, sort, s, r) <=>
                          \/ Compares(own, s, r)
                          \/ ~Compares(own, r, s) /\ Precedes(order, s, r)
    BY <1>1, <1>2 DEF ShownBefore
  <2> QED  BY <1>4, <1>7, <1>9, <2>1
<1>11. before \in [S -> SUBSET S]
  BY <1>9
<1>12. ASSUME NEW r \in S  PROVE r \notin before[r]
  BY <1>4, <1>6, <1>10 DEF Orders
<1>13. ASSUME NEW r \in S, NEW s \in S, r # s  PROVE r \in before[s] \/ s \in before[r]
  <2>1. key[r] \in Int /\ key[s] \in Int /\ (r \in first[s] \/ s \in first[r])
    BY <1>4, <1>6, <1>13 DEF Orders
  <2> QED  BY <1>10, <2>1
<1>14. ASSUME NEW r \in S, NEW s \in S, NEW t \in S, r \in before[s], t \in before[r]
       PROVE  t \in before[s]
  <2>1. key[r] \in Int /\ key[s] \in Int /\ key[t] \in Int
    BY <1>4
  <2>2. t \in first[r] /\ r \in first[s] => t \in first[s]
    BY <1>6 DEF Orders
  <2> QED  BY <1>10, <1>14, <2>1, <2>2
<1>15. \A r, s \in S : r \in before[s] => before[r] \subseteq before[s]
  BY <1>11, <1>14
<1> QED  BY <1>8, <1>11, <1>12, <1>13, <1>15 DEF Orders

(* Each row that is kept is in the screen's list, once.                        *)
LEMMA ViewLists ==
    ASSUME ListingTypeOK, NEW screen \in Screens, NEW url \in Address(screen), NEW missing,
           NEW S, S = KeptRows(screen, url, missing), NEW rows, rows = ClientSideView(screen, url, missing)
    PROVE  /\ S \in SUBSET Present /\ rows \in Seq(S) /\ Len(rows) \in Nat
           /\ \A r \in S : \E i \in 1..Len(rows) : rows[i] = r
           /\ \A i, j \in 1..Len(rows) : rows[i] = rows[j] => i = j
<1>1. S \in SUBSET Present
  BY DEF KeptRows, Fetched, FirstOf
<1>2. PICK sort \in screen.sorts : sort = url.sort
  BY DEF Address
<1>3. PICK before : before = InScreenOrder(screen, sort, S)
  OBVIOUS
<1>4. IsFiniteSet(S) /\ Orders(before, S)
  BY <1>1, <1>3, RowsTyped, ShownOrders, FS_Subset
<1>5. \A n \in 1..Cardinality(S) :
         \E x \in S : Cardinality({y \in S : ShownBefore(screen, sort, y, x)}) = n - 1
  <2> SUFFICES ASSUME NEW n \in 1..Cardinality(S)
               PROVE  \E x \in S : Cardinality({y \in S : ShownBefore(screen, sort, y, x)}) = n - 1
    OBVIOUS
  <2>1. \A m \in 1..Cardinality(S) : \E x \in S : Cardinality(before[x]) = m - 1
    BY <1>4, Ranks
  <2>2. PICK x \in S : Cardinality(before[x]) = n - 1
    BY <2>1
  <2>3. before[x] = {y \in S : ShownBefore(screen, sort, y, x)}
    BY <1>3 DEF InScreenOrder
  <2> QED  BY <2>2, <2>3
<1>6. rows = [n \in 1..Cardinality(S) |->
                CHOOSE x \in S : Cardinality({y \in S : ShownBefore(screen, sort, y, x)}) = n - 1]
  BY <1>2 DEF ClientSideView, InOrder
<1>7. \A n \in 1..Cardinality(S) :
         rows[n] \in S /\ Cardinality({y \in S : ShownBefore(screen, sort, y, rows[n])}) = n - 1
  BY <1>5, <1>6
<1>8. IsListed(rows, before, S)
  BY <1>3, <1>6, <1>7 DEF InScreenOrder, IsListed
<1> QED  BY <1>1, <1>4, <1>8, Listed

(* A table that fits what a screen fetches is fetched whole.                   *)
LEMMA WholeFetched ==
    ASSUME ListingTypeOK, NEW screen \in Screens, NEW url \in Address(screen),
           Cardinality(Present) <= Fetch
    PROVE  KeptRows(screen, url, {}) = Matching(screen, url)
<1>1. PICK rows : rows = {r \in Present : /\ url.group # NULL => table[r].group = url.group
                                          /\ "status" \in screen.delegated =>
                                                HasStatus(table[r], url.status)}
  OBVIOUS
<1>2. PICK order \in OrderNames : order = FetchedOrder(screen, url.sort)
  BY FetchedOrderTyped DEF Address
<1>3. rows \in SUBSET Present
  BY <1>1
<1>4. IsFiniteSet(Present) /\ IsFiniteSet(rows) /\ Cardinality(rows) <= Cardinality(Present)
      /\ Cardinality(rows) \in Nat /\ Cardinality(Present) \in Nat
  BY <1>3, RowsTyped, FS_Subset, FS_CardinalityType
<1>5. PICK before : before = InOrderOf(order, rows)
  OBVIOUS
<1>6. \A r \in rows : Cardinality(before[r]) \in 0..(Cardinality(rows) - 1)
  BY <1>3, <1>4, <1>5, PrecedesOrders, Ranks
<1>7. \A r \in rows : Cardinality({s \in rows : Precedes(order, s, r)}) < Fetch
  <2>1. ASSUME NEW r \in rows  PROVE Cardinality({s \in rows : Precedes(order, s, r)}) < Fetch
    <3>1. before[r] = {s \in rows : Precedes(order, s, r)}
      BY <1>5 DEF InOrderOf
    <3>2. Cardinality(before[r]) < Fetch
      BY <1>4, <1>6, ListingAssumption
    <3> QED  BY <3>1, <3>2
  <2> QED  BY <2>1
<1>8. Fetched(screen, url, {}) = rows
  <2>1. FirstOf(rows, Fetch, LAMBDA r, s : Precedes(FetchedOrder(screen, url.sort), r, s)) = rows
    BY <1>2, <1>7 DEF FirstOf
  <2> QED  BY <1>1, <2>1 DEF Fetched
<1> QED  BY <1>1, <1>8 DEF KeptRows, Matching, Matches

ShowsWhatMatches(screen, url, missing) ==
    LET rows == ClientSideView(screen, url, missing)
        of(p) == ToSet(Shown(screen, [url EXCEPT !.page = p], missing))
    IN  /\ rows # <<>> => Shown(screen, url, missing) # <<>>
        /\ missing = {} /\ Cardinality(Present) <= Fetch =>
              \A r \in Matching(screen, url) :
                 Cardinality({p \in 1..Pages(Len(rows), url.size) : r \in of(p)}) = 1

LEMMA EachScreenShows ==
    ASSUME ListingTypeOK, NEW screen \in Screens, NEW url \in Address(screen), NEW missing
    PROVE  ShowsWhatMatches(screen, url, missing)
<1>1. PICK rows : rows = ClientSideView(screen, url, missing)
  OBVIOUS
<1>2. PICK S : S = KeptRows(screen, url, missing)
  OBVIOUS
<1>3. /\ S \in SUBSET Present /\ rows \in Seq(S) /\ Len(rows) \in Nat
      /\ \A r \in S : \E i \in 1..Len(rows) : rows[i] = r
      /\ \A i, j \in 1..Len(rows) : rows[i] = rows[j] => i = j
  BY <1>1, <1>2, ViewLists
<1>4. PICK size \in Nat \ {0} : size = url.size
  BY <1>1, ListingAssumption DEF Address
<1>5. PICK n \in Nat : n = Len(rows)
  BY <1>3
<1>6. rows # <<>> => Shown(screen, url, missing) # <<>>
  <2>1. PICK p \in Nat \ {0} : p = url.page
    BY <1>1 DEF Address
  <2>2. n # 0 => PageItems(rows, p, size) # <<>>
    BY <1>3, <1>5, PageShows
  <2>3. rows # <<>> => n # 0
    BY <1>3, <1>5
  <2>4. Shown(screen, url, missing) = PageItems(rows, p, size)
    BY <1>1, <1>4, <2>1 DEF Shown
  <2> QED  BY <2>2, <2>3, <2>4
<1>7. ASSUME missing = {}, Cardinality(Present) <= Fetch, NEW r \in Matching(screen, url)
      PROVE  Cardinality({p \in 1..Pages(Len(rows), url.size) :
                            r \in ToSet(Shown(screen, [url EXCEPT !.page = p], missing))}) = 1
  <2>1. PICK i \in 1..n : rows[i] = r
    <3>1. r \in S
      BY <1>1, <1>2, <1>7, WholeFetched
    <3> QED  BY <1>3, <1>5, <3>1
  <2>2. PICK pages : pages = Pages(n, size)
    OBVIOUS
  <2>3. /\ pages \in Nat \ {0}
        /\ \A j \in 1..n : \E p \in 1..pages : (p - 1) * size < j /\ j <= (p - 1) * size + size
    BY <2>2, PagesCover
  <2>4. PICK q \in 1..pages : (q - 1) * size < i /\ i <= (q - 1) * size + size
    BY <2>3
  <2>5. \A p \in 1..pages : (p - 1) * size < i /\ i <= (p - 1) * size + size => p = q
    <3>1. i \in Nat /\ 1..pages \subseteq Nat \ {0}
      BY <2>3
    <3> QED  BY <2>4, <3>1, PagesApart
  <2>6. ASSUME NEW p \in 1..pages
        PROVE  r \in ToSet(Shown(screen, [url EXCEPT !.page = p], missing)) <=> p = q
    <3>1. PICK u : u = [url EXCEPT !.page = p]
      OBVIOUS
    <3>2. /\ u.group = url.group /\ u.status = url.status /\ u.query = url.query
          /\ u.sort = url.sort /\ u.size = url.size /\ u.page = p
      BY <1>1, <3>1 DEF Address
    <3>3. KeptRows(screen, u, missing) = KeptRows(screen, url, missing)
      BY <3>2 DEF KeptRows, Fetched, Matches
    <3>4. ClientSideView(screen, u, missing) = rows
      <4>1. PICK sort : sort = url.sort
        OBVIOUS
      <4>2. sort = u.sort /\ S = KeptRows(screen, u, missing)
        BY <1>2, <3>2, <3>3, <4>1
      <4>3. rows = [m \in 1..Cardinality(S) |->
                      CHOOSE x \in S : Cardinality({y \in S : ShownBefore(screen, sort, y, x)}) = m - 1]
        BY <1>1, <1>2, <4>1 DEF ClientSideView, InOrder
      <4>4. ClientSideView(screen, u, missing) =
                   [m \in 1..Cardinality(S) |->
                      CHOOSE x \in S : Cardinality({y \in S : ShownBefore(screen, sort, y, x)}) = m - 1]
        BY <4>2 DEF ClientSideView, InOrder
      <4> QED  BY <4>3, <4>4
    <3>5. Shown(screen, u, missing) = PageItems(rows, p, size)
      BY <1>4, <3>2, <3>4 DEF Shown
    <3>6. p \in Nat \ {0} /\ p \in 1..Pages(n, size)
      BY <2>2, <2>3
    <3>7. r \in ToSet(PageItems(rows, p, size)) <=>
             \E j \in 1..n : (p - 1) * size < j /\ j <= (p - 1) * size + size /\ rows[j] = r
      BY <1>3, <1>5, <3>6, PageShows
    <3>8. \A j \in 1..n : rows[j] = r => j = i
      BY <1>3, <1>5, <2>1
    <3> QED  BY <2>1, <2>4, <2>5, <3>1, <3>5, <3>7, <3>8
  <2>7. {p \in 1..pages : r \in ToSet(Shown(screen, [url EXCEPT !.page = p], missing))} = {q}
    BY <2>6
  <2>8. Pages(Len(rows), url.size) = pages
    BY <1>4, <1>5, <2>2
  <2> QED  BY <2>7, <2>8, FS_Singleton
<1> QED  BY <1>1, <1>6, <1>7 DEF ShowsWhatMatches

\* A screen that keeps rows never shows an empty page, whatever its address says; and
\* while the table fits what the screen fetches, each matching row is on exactly one of its
\* pages, unless a call of the screen failed (applyClientSideView, paginate, apiFetchOr).
THEOREM ScreensShowWhatMatches == ListingSpec => []ScreenShowsWhatMatches
<1>1. ListingTypeOK => ScreenShowsWhatMatches
  <2> SUFFICES ASSUME ListingTypeOK, reader.kind = "screen"
               PROVE  ShowsWhatMatches(reader.screen, reader.url, reader.failed)
    BY DEF ScreenShowsWhatMatches, ShowsWhatMatches
  <2>1. reader.screen \in Screens /\ reader.url \in Address(reader.screen)
    BY DEF ListingTypeOK, Reading
  <2> QED  BY <2>1, EachScreenShows
<1> QED  BY <1>1, ListingStaysTyped, PTL

-----------------------------------------------------------------------------
(* The global search.                                                        *)

(* What is listed was found.                                                  *)
LEMMA LinesListed ==
    ASSUME NEW found \in SUBSET Entries, NEW group
    PROVE  Lines(found, group) \in Seq(found)
<1>1. PICK S : S = {e \in found : e.group = group}
  OBVIOUS
<1>2. S \in SUBSET Entries /\ S \in SUBSET found /\ \A e \in S : e.group = group
  BY <1>1
<1>3. IsFiniteSet(S)
  BY <1>2, PaletteAssumption, FS_Subset
<1>4. PICK before : before = [x \in S |-> {y \in S : y.key < x.key}]
  OBVIOUS
<1>5. \A x \in S : x.key \in Nat
  BY <1>2, PaletteAssumption
<1>6. \A x, y \in S : x.key = y.key => x = y
  BY <1>2, PaletteAssumption
<1>7. Orders(before, S)
  BY <1>4, <1>5, <1>6 DEF Orders
<1>8. \A n \in 1..Cardinality(S) : \E x \in S : Cardinality({y \in S : y.key < x.key}) = n - 1
  <2> SUFFICES ASSUME NEW n \in 1..Cardinality(S)
               PROVE  \E x \in S : Cardinality({y \in S : y.key < x.key}) = n - 1
    OBVIOUS
  <2>1. \A m \in 1..Cardinality(S) : \E x \in S : Cardinality(before[x]) = m - 1
    BY <1>3, <1>7, Ranks
  <2>2. PICK x \in S : Cardinality(before[x]) = n - 1
    BY <2>1
  <2>3. before[x] = {y \in S : y.key < x.key}
    BY <1>4
  <2> QED  BY <2>2, <2>3
<1>9. PICK s : s = [n \in 1..Cardinality(S) |->
                      CHOOSE x \in S : Cardinality({y \in S : y.key < x.key}) = n - 1]
  OBVIOUS
<1>10. s \in [1..Cardinality(S) -> S] /\ Cardinality(S) \in Nat
  BY <1>3, <1>8, <1>9, FS_CardinalityType
<1>11. Lines(found, group) = s
  BY <1>1, <1>9 DEF Lines, InOrder
<1>12. s \in Seq(found)
  BY <1>2, <1>10
<1> QED  BY <1>11, <1>12

LEMMA ItemsListed ==
    ASSUME NEW found \in SUBSET Entries
    PROVE  flattenResults(found) \in Seq(found)
<1>1. PICK a \in Seq(found) : a = Lines(found, "request")
  BY LinesListed
<1>2. PICK b \in Seq(found) : b = Lines(found, "user")
  BY LinesListed
<1>3. PICK c \in Seq(found) : c = Lines(found, "product")
  BY LinesListed
<1>4. PICK d \in Seq(found) : d = Lines(found, "category")
  BY LinesListed
<1>5. a \o b \in Seq(found)
  OBVIOUS
<1>6. (a \o b) \o c \in Seq(found)
  BY <1>5
<1>7. ((a \o b) \o c) \o d \in Seq(found)
  BY <1>6
<1> QED  BY <1>1, <1>2, <1>3, <1>4, <1>7 DEF flattenResults

(* Only the text in the field is being searched; once it is answered, the list  *)
(* is its answer, and what was chosen then was in it.                         *)
Palettes == [open : BOOLEAN, query : Terms, results : SUBSET Entries, loading : BOOLEAN, active : Nat,
             timer : BOOLEAN, settled : {"no", "answered", "failed"}]
Answer(term) == IF term \in Short THEN {} ELSE Search(term)
PaletteInv ==
    /\ palette \in Palettes
    /\ \A term \in searches : term = palette.query /\ term \notin Short
    /\ palette.settled = "answered" => palette.results = Answer(palette.query)
    /\ Items # <<>> => palette.active < Len(Items)
    /\ \A c \in chosen : c.settled = "answered" => c.entry \in Search(c.query)

LEMMA ItemsTyped ==
    ASSUME NEW p \in Palettes
    PROVE  /\ flattenResults(p.results) \in Seq(p.results)
           /\ Len(flattenResults(p.results)) \in Nat
           /\ p.results = {} => flattenResults(p.results) = <<>>
<1>1. p.results \in SUBSET Entries
  BY DEF Palettes
<1>2. PICK items \in Seq(p.results) : items = flattenResults(p.results)
  BY <1>1, ItemsListed
<1>3. p.results = {} => items = <<>>
  OBVIOUS
<1> QED  BY <1>2, <1>3

LEMMA PaletteSteps == PaletteInv /\ [PaletteNext]_paletteVars => PaletteInv'
<1> SUFFICES ASSUME PaletteInv, [PaletteNext]_paletteVars  PROVE PaletteInv'
  OBVIOUS
<1>0. /\ palette \in Palettes /\ Items \in Seq(palette.results) /\ Len(Items) \in Nat
      /\ palette.results = {} => Items = <<>>
  BY ItemsTyped DEF PaletteInv, Items
<1>1. ASSUME palette' \in Palettes, palette'.results = palette.results, palette'.active = palette.active
      PROVE  Items' # <<>> => palette'.active < Len(Items')
  <2>1. Items' = Items
    BY <1>1 DEF Items
  <2> QED  BY <1>1, <2>1 DEF PaletteInv
<1>2. ASSUME palette' \in Palettes, palette'.results = {}
      PROVE  Items' = <<>>
  BY <1>2, ItemsTyped DEF Items
<1>3. CASE openPalette
  <2>1. palette' = OpenedPalette /\ chosen' = chosen
        /\ searches' = IF palette.query = "" THEN searches ELSE Cancelled
    BY <1>3 DEF openPalette
  <2>2. palette' \in Palettes /\ palette'.results = {} /\ palette'.query = ""
        /\ (palette'.settled = "answered" => palette.query = "" /\ palette.settled = "answered")
    BY <1>0, <2>1, PaletteAssumption DEF OpenedPalette, Palettes
  <2>3. searches' = {}
    BY <2>1, PaletteAssumption DEF PaletteInv, Cancelled
  <2>4. Answer("") = {}
    BY PaletteAssumption DEF Answer
  <2> QED  BY <1>2, <2>1, <2>2, <2>3, <2>4 DEF PaletteInv
<1>4. CASE Close
  <2>1. palette' = [palette EXCEPT !.open = FALSE] /\ UNCHANGED <<searches, chosen>>
    BY <1>4 DEF Close
  <2>2. /\ palette' \in Palettes /\ palette'.results = palette.results /\ palette'.active = palette.active
        /\ palette'.query = palette.query /\ palette'.settled = palette.settled
    BY <1>0, <2>1 DEF Palettes
  <2> QED  BY <1>1, <2>1, <2>2 DEF PaletteInv
<1>5. ASSUME NEW term \in Terms, Type(term)  PROVE PaletteInv'
  <2>1. PICK loading \in BOOLEAN : loading <=> IF searches = {} THEN palette.loading ELSE FALSE
    BY <1>0 DEF Palettes
  <2>2. /\ palette' = [palette EXCEPT !.query = term, !.timer = TRUE, !.settled = "no", !.loading = loading]
        /\ searches' = {} /\ chosen' = chosen
    <3>1. loading = IF searches = {} THEN palette.loading ELSE FALSE
      BY <1>0, <2>1 DEF Palettes
    <3> QED  BY <1>5, <3>1 DEF Type, Cancelled
  <2>3. /\ palette' \in Palettes /\ palette'.results = palette.results /\ palette'.active = palette.active
        /\ palette'.settled = "no"
    BY <1>0, <2>2 DEF Palettes
  <2> QED  BY <1>1, <2>2, <2>3 DEF PaletteInv
<1>6. CASE Pause
  <2>1. CASE palette.query \in Short
    <3>1. /\ palette' = [palette EXCEPT !.timer = FALSE, !.results = {}, !.loading = FALSE,
                                        !.settled = "answered"]
          /\ UNCHANGED <<searches, chosen>>
      BY <1>6, <2>1 DEF Pause
    <3>2. palette' \in Palettes /\ palette'.results = {} /\ palette'.query = palette.query
      BY <1>0, <3>1 DEF Palettes
    <3>3. Answer(palette.query) = {}
      BY <2>1 DEF Answer
    <3> QED  BY <1>2, <3>1, <3>2, <3>3 DEF PaletteInv
  <2>2. CASE palette.query \notin Short
    <3>1. /\ palette' = [palette EXCEPT !.timer = FALSE, !.loading = TRUE]
          /\ searches' = searches \cup {palette.query} /\ chosen' = chosen
      BY <1>6, <2>2 DEF Pause
    <3>2. /\ palette' \in Palettes /\ palette'.results = palette.results /\ palette'.active = palette.active
          /\ palette'.query = palette.query /\ palette'.settled = palette.settled
      BY <1>0, <3>1 DEF Palettes
    <3> QED  BY <1>1, <2>2, <3>1, <3>2 DEF PaletteInv
  <2> QED  BY <2>1, <2>2
<1>7. ASSUME NEW term \in Terms, ResultsCome(term)  PROVE PaletteInv'
  <2>1. /\ palette' = [palette EXCEPT !.results = Search(term), !.active = 0, !.loading = FALSE,
                                      !.settled = "answered"]
        /\ searches' = searches \ {term} /\ chosen' = chosen
        /\ term = palette.query /\ term \notin Short
    BY <1>7 DEF ResultsCome, PaletteInv
  <2>2. Search(term) \in SUBSET Entries
    BY DEF Search
  <2>3. /\ palette' \in Palettes /\ palette'.results = Search(term) /\ palette'.active = 0
        /\ palette'.query = palette.query
    BY <1>0, <2>1, <2>2 DEF Palettes
  <2>4. Items' # <<>> => palette'.active < Len(Items')
    <3>1. Items' \in Seq(palette'.results) /\ Len(Items') \in Nat
      BY <2>3, ItemsTyped DEF Items
    <3> QED  BY <2>3, <3>1
  <2>5. Answer(term) = Search(term)
    BY <2>1 DEF Answer
  <2> QED  BY <2>1, <2>3, <2>4, <2>5 DEF PaletteInv
<1>8. ASSUME NEW term \in Terms, SearchFails(term)  PROVE PaletteInv'
  <2>1. PICK kept \in BOOLEAN :
          palette' = [palette EXCEPT !.results = IF kept THEN @ ELSE {}, !.loading = FALSE,
                                     !.settled = "failed"]
    BY <1>8 DEF SearchFails
  <2>2. PICK results : results = IF kept THEN palette.results ELSE {}
    OBVIOUS
  <2>3. palette' = [palette EXCEPT !.results = results, !.loading = FALSE, !.settled = "failed"]
    BY <2>1, <2>2
  <2>4. results \in SUBSET Entries
    BY <1>0, <2>2 DEF Palettes
  <2>5. /\ palette' \in Palettes /\ palette'.results = results /\ palette'.active = palette.active
        /\ palette'.query = palette.query /\ palette'.settled = "failed"
    BY <1>0, <2>3, <2>4 DEF Palettes
  <2>6. Items' # <<>> => palette'.active < Len(Items')
    BY <1>1, <1>2, <2>2, <2>5
  <2>7. searches' = searches \ {term} /\ chosen' = chosen
    BY <1>8 DEF SearchFails
  <2> QED  BY <2>5, <2>6, <2>7 DEF PaletteInv
<1>9. CASE Arrow
  <2>1. PICK step \in {1, Len(Items) - 1} :
          palette' = [palette EXCEPT !.active = IF Items = <<>> THEN 0
                                                ELSE (@ + step) % Len(Items)]
    BY <1>9 DEF Arrow
  <2>2. PICK active : active = IF Items = <<>> THEN 0 ELSE (palette.active + step) % Len(Items)
    OBVIOUS
  <2>3. active \in Nat /\ (Items # <<>> => active < Len(Items))
    <3>1. CASE Items = <<>>
      BY <2>2, <3>1
    <3>2. CASE Items # <<>>
      <4>1. PICK n \in Nat \ {0} : n = Len(Items)
        BY <1>0, <3>2
      <4>2. PICK k \in Nat : k = palette.active + step
        BY <1>0, <4>1 DEF Palettes
      <4>3. k % n \in 0..(n - 1)
        OBVIOUS
      <4> QED  BY <2>2, <3>2, <4>1, <4>2, <4>3
    <3> QED  BY <3>1, <3>2
  <2>4. palette' = [palette EXCEPT !.active = active]
    BY <2>1, <2>2
  <2>5. /\ palette' \in Palettes /\ palette'.results = palette.results /\ palette'.active = active
        /\ palette'.query = palette.query /\ palette'.settled = palette.settled
    BY <1>0, <2>3, <2>4 DEF Palettes
  <2>6. Items' = Items
    BY <2>5 DEF Items
  <2>7. UNCHANGED <<searches, chosen>>
    BY <1>9 DEF Arrow
  <2> QED  BY <2>3, <2>5, <2>6, <2>7 DEF PaletteInv
<1>10. CASE Enter
  <2>1. PICK entry : entry = Items[palette.active + 1]
    OBVIOUS
  <2>2. /\ palette.active < Len(Items)
        /\ chosen' = chosen \cup {[entry |-> entry, query |-> palette.query, settled |-> palette.settled]}
        /\ palette' = [palette EXCEPT !.open = FALSE] /\ searches' = searches
    BY <1>10, <2>1 DEF Enter
  <2>3. entry \in palette.results
    <3>1. palette.active + 1 \in 1..Len(Items)
      BY <1>0, <2>2 DEF Palettes
    <3> QED  BY <1>0, <2>1, <3>1
  <2>4. palette.settled = "answered" => entry \in Search(palette.query)
    BY <2>3 DEF PaletteInv, Answer
  <2>5. \A c \in chosen' : c.settled = "answered" => c.entry \in Search(c.query)
    BY <2>2, <2>4 DEF PaletteInv
  <2>6. /\ palette' \in Palettes /\ palette'.results = palette.results /\ palette'.active = palette.active
        /\ palette'.query = palette.query /\ palette'.settled = palette.settled
    BY <1>0, <2>2 DEF Palettes
  <2> QED  BY <1>1, <2>2, <2>5, <2>6 DEF PaletteInv
<1>11. CASE UNCHANGED paletteVars
  BY <1>11 DEF paletteVars, PaletteInv, Items
<1> QED  BY <1>3, <1>4, <1>5, <1>6, <1>7, <1>8, <1>9, <1>10, <1>11 DEF PaletteNext

\* Enter opens an entry found for the text in the field, once its search was answered; a
\* late answer never passes for that of a newer text (global-search.tsx).
THEOREM EnterOpensWhatWasSearched == PaletteSpec => []EnterOpensWhatIsSearched
<1>1. PaletteInit => PaletteInv
  <2> SUFFICES ASSUME PaletteInit  PROVE PaletteInv
    OBVIOUS
  <2>1. palette \in Palettes /\ palette.results = {} /\ palette.settled = "no"
    BY PaletteAssumption DEF PaletteInit, Palettes
  <2>2. Items = <<>>
    BY <2>1, ItemsTyped DEF Items
  <2> QED  BY <2>1, <2>2 DEF PaletteInit, PaletteInv
<1>2. PaletteInv => EnterOpensWhatIsSearched
  BY DEF PaletteInv, EnterOpensWhatIsSearched, Answer
<1> QED  BY <1>1, <1>2, PaletteSteps, PTL DEF PaletteSpec
=============================================================================
