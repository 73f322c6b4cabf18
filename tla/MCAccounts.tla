----------------------------- MODULE MCAccounts -----------------------------
(* Instances of the accounts, of the administration and of the lists for TLC.  *)
(* The three components share no state: a behaviour runs one of them, the     *)
(* others stay in one initial state.                                          *)
EXTENDS Sessions, Directory, Listing, TLC

CONSTANT Parts  \* the components a run looks at

VARIABLE part   \* the component this behaviour runs

accountsVars == <<part, sessionsVars, directoryVars, listingVars>>

-----------------------------------------------------------------------------
(* Bounds of the sessions: a second attempt is bought at the price of others.  *)
Attempts(l, f, r, o) == [logins |-> l, failures |-> f, requests |-> r, operations |-> o]
MCBudgets == {Attempts(1, 0, 3, 0), Attempts(2, 3, 0, 1), Attempts(1, 0, 2, 1),
              Attempts(2, 0, 0, 2), Attempts(1, 0, 1, 2), Attempts(1, 0, 0, 3)}

(* Bounds of the administration.                                             *)
Edits(u, r, l, o) == [users |-> u, roles |-> r, links |-> l, organizations |-> o]
MCDirBudgets == {Edits(2, 0, 1, 0), Edits(1, 1, 0, 0), Edits(0, 2, 0, 0), Edits(1, 0, 0, 2)}

(* Tables of four rows: a list walked page by page while rows are created,     *)
(* saved and removed, and a screen that filters, searches and sorts.         *)
Saved(name, group, rank, active) ==
    [name |-> name, group |-> group, rank |-> rank, active |-> active]
Plain == Saved(1, 1, 0, TRUE)
Contents == {Saved(1, 1, 1, TRUE), Saved(2, 1, 0, TRUE), Saved(1, 2, 0, FALSE)}
WalkTables == {[r \in Rows |-> IF r = 2 THEN NULL ELSE Written(Plain, t[r], t[r])] :
                 t \in [Rows \ {2} -> 0..2]}
ScreenTables == {[r \in Rows |-> IF r = 4 THEN NULL ELSE Written(c[r], r % 3, r % 3)] :
                   c \in {d \in [1..3 -> Contents] :
                           d[1] = Saved(1, 1, 1, TRUE) /\ d[2] # d[1]}}
MCScenarios ==
    {[kind |-> "walk", table |-> t, fresh |-> {Plain}, changes |-> 2, choices |-> 0,
      failures |-> 0] :
       t \in WalkTables}
    \cup {[kind |-> "screen", table |-> t, fresh |-> Contents, changes |-> f[1], choices |-> f[2],
           failures |-> f[3]] : t \in ScreenTables, f \in {<<1, 2, 0>>, <<0, 1, 1>>}}

-----------------------------------------------------------------------------
AccountsInit ==
    /\ part \in Parts
    /\ SessionsInit
    /\ part = "sessions" \/ budget = CHOOSE b \in MCBudgets : TRUE
    /\ DirectoryInit
    /\ part = "directory" \/ /\ dirBudget = CHOOSE b \in MCDirBudgets : TRUE
                             /\ \A u \in FirstStaff : user[u].role = "ADMIN"
    /\ ListingInit
    /\ part = "listing" \/ scenario = CHOOSE s \in MCScenarios : TRUE

AccountsNext ==
    \/ part = "sessions"  /\ SessionsNext  /\ UNCHANGED <<part, directoryVars, listingVars>>
    \/ part = "directory" /\ DirectoryNext /\ UNCHANGED <<part, sessionsVars, listingVars>>
    \/ part = "listing"   /\ ListingNext   /\ UNCHANGED <<part, sessionsVars, directoryVars>>

AccountsSpec == AccountsInit /\ [][AccountsNext]_accountsVars

Symmetry == Permutations(Tabs) \cup Permutations(Ops) \cup Permutations(Calls)

(* Every variable of the accounts, of their administration and of the lists    *)
(* has its type: the state of the services and of who reads their tables.     *)
AccountsTypeOK == SessionsTypeOK /\ DirectoryTypeOK /\ ListingTypeOK
=============================================================================
