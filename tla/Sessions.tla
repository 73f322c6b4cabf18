------------------------------ MODULE Sessions ------------------------------
(***************************************************************************)
(* The sessions of one account: AuthService and the statements of           *)
(* UsersService that concern them, each handler cut at its awaits, called   *)
(* by the tabs of one browser through the web middleware and by the holder  *)
(* or an administrator from elsewhere.  Accounts share nothing here: every   *)
(* query filters on the user or on the hash of one token.                   *)
(*                                                                         *)
(* Durations are ages: the access token of a session is fresh, closing       *)
(* (less than REFRESH_SKEW_SECONDS left) or expired, a lock is in the future *)
(* or in the past.                                                          *)
(***************************************************************************)
EXTENDS Values, Naturals, FiniteSets

CONSTANTS
    Tabs,         \* the browser's concurrent requests
    Ops,          \* concurrent operations on the account from elsewhere
    MaxSids,      \* bound of the model: the sessions that can be opened
    Budgets,      \* bounds of the model: the logins, failed logins, requests
                  \* of the browser and operations from elsewhere of one behaviour
    ResetTokens,  \* bound of the model: the reset links that can be sent
    MaxFailed,    \* AUTH_MAX_FAILED_LOGINS
    MaxSecrets    \* bound of the model: the passwords the account can have

ASSUME SessionsAssumption ==
    /\ {MaxFailed, MaxSecrets} \subseteq Nat \ {0}
    /\ MaxSids \in Nat
    /\ Budgets \subseteq [logins : Nat, failures : Nat, requests : Nat, operations : Nat]

VARIABLES
    account,     \* the row of table users
    session,     \* the rows of table sessions; the refresh token is the id
    resetToken,  \* the rows of table password_reset_tokens
    cookie,      \* the session id the browser's cookie carries
    tab,         \* what each request of the browser is doing
    op,          \* what each other operation is doing
    seen,        \* history: what the properties need to remember
    budget       \* what the behaviour may still start

sessionsVars == <<account, session, resetToken, cookie, tab, op, seen, budget>>

Sids     == 1 .. MaxSids
Age      == {"fresh", "closing", "expired"}
Lock     == {NULL, "past", "future"}
Account  == [isActive : BOOLEAN, deleted : BOOLEAN, password : 0 .. MaxSecrets,
             failedLoginCount : Nat, lockedUntil : Lock]

(* `end`, `secret` and `slipped` are history: how the session was revoked,   *)
(* the password its chain of rotations started from, and whether a reset     *)
(* completed between the two ends of a call that issued it.                 *)
Session ==
    [revoked : BOOLEAN, expired : BOOLEAN, access : Age,
     end : {"none", "rotated", "closed"}, secret : 0 .. MaxSecrets, slipped : BOOLEAN]

ASSUME SessionsNull ==
    NULL \notin Sids /\ NULL \notin Session /\ NULL \notin {"past", "future"}

Kind == {"page", "prefetch", "profile", "logout"}
Idle == [pc |-> "idle"]

SessionsTypeOK ==
    /\ account \in Account
    /\ session \in [Sids -> Session \cup {NULL}]
    /\ resetToken \in [ResetTokens -> {NULL, "sent", "used", "expired"}]
    /\ cookie \in Sids \cup {NULL}
    /\ \A s \in Sids \cap {cookie} : session[s] # NULL

SessionsInit ==
    /\ account = [isActive |-> TRUE, deleted |-> FALSE, password |-> 1,
                  failedLoginCount |-> 0, lockedUntil |-> NULL]
    /\ session = [s \in Sids |-> NULL]
    /\ resetToken = [k \in ResetTokens |-> NULL]
    /\ cookie = NULL
    /\ tab = [t \in Tabs |-> Idle]
    /\ op = [o \in Ops |-> Idle]
    /\ seen = [streak |-> 0, racedLogin |-> FALSE, raced |-> FALSE, lost |-> FALSE,
               suspected |-> FALSE, overwrote |-> FALSE, secrets |-> 1,
               resets |-> 0, floor |-> 0]
    /\ budget \in Budgets

-----------------------------------------------------------------------------
Spend(what) ==
    /\ budget[what] > 0
    /\ budget' = [budget EXCEPT ![what] = @ - 1]

Opened   == {s \in Sids : session[s] # NULL}
Live(s)  == session[s] # NULL /\ ~session[s].revoked
Disabled == ~account.isActive \/ account.deleted
Busy     == {t \in Tabs : tab[t].pc # "idle" /\ tab[t].kind # "prefetch"}

(* The attempts that will write a count of failures read before.             *)
Counting == {t \in Tabs : tab[t].pc = "loginFails"}

(* UPDATE sessions SET revoked_at = now() WHERE user_id = ...               *)
RevokeAll(sessions) ==
    [s \in Sids |-> IF sessions[s] = NULL \/ sessions[s].revoked THEN sessions[s]
                    ELSE [sessions[s] EXCEPT !.revoked = TRUE, !.end = "closed"]]

-----------------------------------------------------------------------------
(* AuthService.login, up to the comparison of the passwords, which uses the  *)
(* row read at the start.  A refused attempt changes nothing.               *)
LoginLoad(t, right) ==
    /\ tab[t].pc = "idle"
    /\ ~Disabled
    /\ account.lockedUntil # "future"
    /\ right => account.password # 0
    /\ Spend(IF right THEN "logins" ELSE "failures")
    /\ tab' = [tab EXCEPT ![t] =
          IF right THEN [pc |-> "loginSucceeds", kind |-> "login", slipped |-> FALSE,
                         secret |-> account.password, began |-> seen.resets]
          ELSE [pc |-> "loginFails", kind |-> "login", user |-> account]]
    /\ seen' = [seen EXCEPT !.raced = @ \/ Busy # {}]
    /\ UNCHANGED <<account, session, resetToken, cookie, op>>

NextFailedCount_Wrong(user) == user.failedLoginCount   \* forgets the attempt

NextFailedCount(user) == user.failedLoginCount + 1

RecordFailedLogin(t) ==
    /\ tab[t].pc = "loginFails"
    /\ LET user == tab[t].user
           count == NextFailedCount(user)
       IN  account' = [account EXCEPT
             !.failedLoginCount = count,
             !.lockedUntil = IF count >= MaxFailed THEN "future" ELSE user.lockedUntil]
    /\ tab' = [tab EXCEPT ![t] = Idle]
    /\ seen' = [seen EXCEPT !.streak = @ + 1, !.racedLogin = @ \/ Counting # {t}]
    /\ UNCHANGED <<session, resetToken, cookie, op, budget>>

LoginReset(t) ==
    /\ tab[t].pc = "loginSucceeds"
    /\ account' = [account EXCEPT !.failedLoginCount = 0, !.lockedUntil = NULL]
    /\ tab' = [tab EXCEPT ![t].pc = "issue"]
    /\ seen' = [seen EXCEPT !.streak = 0, !.racedLogin = Counting # {}]
    /\ UNCHANGED <<session, resetToken, cookie, op, budget>>

(* issueTokenPair: the new pair is in the answer, the cookie not yet set.    *)
IssueTokenPair(t) ==
    /\ tab[t].pc = "issue"
    /\ Cardinality(Opened) < MaxSids
    /\ LET s == Cardinality(Opened) + 1
       IN /\ session' = [session EXCEPT ![s] =
                [revoked |-> FALSE, expired |-> FALSE, access |-> "fresh", end |-> "none",
                 secret |-> tab[t].secret,
                 slipped |-> tab[t].slipped \/ tab[t].began < seen.resets]]
          /\ tab' = [tab EXCEPT ![t] =
                [pc |-> "answered", kind |-> tab[t].kind, sid |-> s,
                 cookie |-> IF tab[t].kind = "login" THEN NULL ELSE tab[t].cookie]]
    /\ UNCHANGED <<account, resetToken, cookie, op, seen, budget>>

-----------------------------------------------------------------------------
(* The browser sends a request with its cookie: a page, a prefetch of the    *)
(* router, the form of the profile or that of the logout.                   *)
Send(t, kind) ==
    /\ tab[t].pc = "idle"
    /\ cookie # NULL
    /\ Spend("requests")
    /\ tab' = [tab EXCEPT ![t] = [pc |-> "arrived", kind |-> kind, cookie |-> cookie]]
    /\ seen' = [seen EXCEPT !.raced = @ \/ (kind # "prefetch" /\ Busy # {})]
    /\ UNCHANGED <<account, session, resetToken, cookie, op>>

MustRefresh_Wrong(age, kind) == age # "fresh"   \* prefetches rotate the token too

MustRefresh(age, kind) == age # "fresh" /\ kind # "prefetch"

Arrived(t)  == tab[t].pc = "arrived"
Asks(t)     == MustRefresh(session[tab[t].cookie].access, tab[t].kind)

MiddlewarePasses(t) ==
    /\ Arrived(t)
    /\ ~Asks(t)
    /\ tab' = [tab EXCEPT ![t].pc = "render"]
    /\ UNCHANGED <<account, session, resetToken, cookie, op, seen, budget>>

(* AuthService.refresh, cut after its read of the session and the user.      *)
RefreshLoad(t) ==
    /\ Arrived(t)
    /\ Asks(t)
    /\ LET row == session[tab[t].cookie]
       IN  /\ tab' = [tab EXCEPT ![t] =
                 [pc |-> CASE row.revoked -> "reused"
                           [] ~row.revoked /\ (row.expired \/ Disabled) -> "refused"
                           [] OTHER -> "rotate",
                  kind |-> tab[t].kind, cookie |-> tab[t].cookie,
                  secret |-> row.secret, began |-> seen.resets, slipped |-> row.slipped]]
           /\ seen' = [seen EXCEPT !.suspected = @ \/ row.end = "rotated"]
    /\ UNCHANGED <<account, session, resetToken, cookie, op, budget>>

RevokeReused(t) ==
    /\ tab[t].pc = "reused"
    /\ session' = RevokeAll(session)
    /\ tab' = [tab EXCEPT ![t].pc = "refused"]
    /\ UNCHANGED <<account, resetToken, cookie, op, seen, budget>>

Rotate(t) ==
    /\ tab[t].pc = "rotate"
    /\ session' = [session EXCEPT ![tab[t].cookie].revoked = TRUE,
                                  ![tab[t].cookie].end = IF @ = "none" THEN "rotated" ELSE @]
    /\ tab' = [tab EXCEPT ![t].pc = "issue"]
    /\ UNCHANGED <<account, resetToken, cookie, op, seen, budget>>

(* The middleware stores the new pair, for the browser and for the rendering *)
(* of this request.                                                        *)
SetCookie(t) ==
    /\ tab[t].pc = "answered" /\ tab[t].kind # "login"
    /\ cookie' = tab[t].sid
    /\ tab' = [tab EXCEPT ![t] = [pc |-> "render", kind |-> tab[t].kind, cookie |-> tab[t].sid]]
    /\ UNCHANGED <<account, session, resetToken, op, seen, budget>>

(* loginAction stores the pair and redirects to the portal of the role.      *)
LoggedIn(t) ==
    /\ tab[t].pc = "answered" /\ tab[t].kind = "login"
    /\ cookie' = tab[t].sid
    /\ tab' = [tab EXCEPT ![t] = Idle]
    /\ UNCHANGED <<account, session, resetToken, op, seen, budget>>

(* Refused: the cookie is deleted but this request still renders with it.    *)
ClearRefused(t) ==
    /\ tab[t].pc = "refused"
    /\ cookie' = NULL
    /\ tab' = [tab EXCEPT ![t] = [pc |-> "render", kind |-> tab[t].kind, cookie |-> tab[t].cookie]]
    /\ UNCHANGED <<account, session, resetToken, op, seen, budget>>

(* The API stops in the middle of a refresh, or its answer is lost: the       *)
(* middleware catches the error and renders with the cookie it has.         *)
Lose(t) ==
    /\ tab[t].pc \in {"rotate", "reused", "issue", "answered", "refused"}
    /\ tab[t].kind # "login"
    /\ tab' = [tab EXCEPT ![t] = [pc |-> "render", kind |-> tab[t].kind, cookie |-> tab[t].cookie]]
    /\ seen' = [seen EXCEPT !.lost = TRUE]
    /\ UNCHANGED <<account, session, resetToken, cookie, op, budget>>

(* The page calls the API with the access token: JwtStrategy.validate.  A     *)
(* 401 leads to /api/auth/clear, which deletes whatever cookie there is by   *)
(* then; the form of the profile writes back the session it arrived with.   *)
Served(t) == session[tab[t].cookie].access # "expired" /\ ~Disabled

Kept(t)   == IF tab[t].kind = "profile" THEN tab[t].cookie ELSE cookie

Render(t) ==
    /\ tab[t].pc = "render" /\ tab[t].kind # "logout"
    /\ cookie' = IF Served(t) THEN Kept(t) ELSE NULL
    /\ tab' = [tab EXCEPT ![t] = Idle]
    /\ UNCHANGED <<account, session, resetToken, op, seen, budget>>

(* logoutAction, behind the middleware as any request: the call of the API    *)
(* needs a valid access token, its failure is ignored and the cookie goes in *)
(* any case.                                                               *)
Logout(t) ==
    /\ tab[t].pc = "render" /\ tab[t].kind = "logout"
    /\ \/ UNCHANGED session
       \/ /\ Served(t)
          /\ session' = [session EXCEPT ![tab[t].cookie].revoked = TRUE,
                                        ![tab[t].cookie].end = IF @ = "none" THEN "closed" ELSE @]
    /\ cookie' = NULL
    /\ tab' = [tab EXCEPT ![t] = Idle]
    /\ UNCHANGED <<account, resetToken, op, seen, budget>>

-----------------------------------------------------------------------------
(* From elsewhere.                                                         *)
Starts(o) ==
    /\ op[o] = Idle
    /\ Spend("operations")

LogoutAll ==
    /\ ~Disabled
    /\ Spend("operations")
    /\ session' = RevokeAll(session)
    /\ UNCHANGED <<account, resetToken, cookie, tab, op, seen>>

NewResetToken ==
    /\ Spend("operations")
    /\ \E k \in ResetTokens :
          /\ resetToken[k] = NULL
          /\ resetToken' = [resetToken EXCEPT ![k] = "sent"]
    /\ UNCHANGED <<account, session, cookie, tab, op, seen>>

\* The user asks for a link, or an administrator has one sent, even to a closed account.
RequestPasswordReset == ~Disabled /\ NewResetToken
ForcePasswordReset   == ~account.deleted /\ NewResetToken

(* confirmPasswordReset: four statements, no transaction.                   *)
ConfirmLoad(o) ==
    /\ Starts(o)
    /\ \E k \in ResetTokens :
          /\ resetToken[k] = "sent"
          /\ op' = [op EXCEPT ![o] = [pc |-> "setPassword", token |-> k]]
    /\ UNCHANGED <<account, session, resetToken, cookie, tab, seen>>

SetPassword(o) ==
    /\ op[o].pc = "setPassword"
    /\ seen.secrets < MaxSecrets
    /\ account' = [account EXCEPT !.password = seen.secrets + 1, !.failedLoginCount = 0,
                                  !.lockedUntil = NULL]
    /\ op' = [op EXCEPT ![o] = [pc |-> "markUsed", token |-> op[o].token,
                                secret |-> seen.secrets + 1]]
    /\ seen' = [seen EXCEPT !.streak = 0, !.racedLogin = Counting # {},
                            !.secrets = @ + 1]
    /\ UNCHANGED <<session, resetToken, cookie, tab, budget>>

MarkUsed(o) ==
    /\ op[o].pc = "markUsed"
    /\ resetToken' = [resetToken EXCEPT ![op[o].token] = "used"]
    /\ op' = [op EXCEPT ![o].pc = "revokeAfterReset"]
    /\ UNCHANGED <<account, session, cookie, tab, seen, budget>>

RevokeAfterReset_Wrong(o) ==                 \* leaves the sessions open
    /\ op[o].pc = "revokeAfterReset"
    /\ op' = [op EXCEPT ![o] = Idle]
    /\ seen' = [seen EXCEPT !.resets = @ + 1,
                            !.floor = IF op[o].secret > @ THEN op[o].secret ELSE @]
    /\ UNCHANGED <<account, session, resetToken, cookie, tab, budget>>

RevokeAfterReset(o) ==
    /\ op[o].pc = "revokeAfterReset"
    /\ session' = RevokeAll(session)
    /\ op' = [op EXCEPT ![o] = Idle]
    /\ seen' = [seen EXCEPT !.resets = @ + 1,
                            !.floor = IF op[o].secret > @ THEN op[o].secret ELSE @]
    /\ UNCHANGED <<account, resetToken, cookie, tab, budget>>

(* changePassword: the sessions stay as they are.                           *)
ChangeLoad(o) ==
    /\ Starts(o)
    /\ ~Disabled
    /\ op' = [op EXCEPT ![o] = [pc |-> "change"]]
    /\ UNCHANGED <<account, session, resetToken, cookie, tab, seen>>

ChangePassword(o) ==
    /\ op[o].pc = "change"
    /\ seen.secrets < MaxSecrets
    /\ account' = [account EXCEPT !.password = seen.secrets + 1]
    /\ op' = [op EXCEPT ![o] = Idle]
    /\ seen' = [seen EXCEPT !.secrets = @ + 1]
    /\ UNCHANGED <<session, resetToken, cookie, tab, budget>>

(* UsersService.update, updateProfile, deactivate and reactivate load the      *)
(* row, then save it whole: TypeORM writes every column that differs from the *)
(* database by then, the password, the lock and deleted_at included.        *)
EditLoad(o) ==
    /\ Starts(o)
    /\ ~account.deleted
    /\ \E what \in {"edit", "deactivate", "reactivate"} :
          op' = [op EXCEPT ![o] = [pc |-> what, row |-> account]]
    /\ UNCHANGED <<account, session, resetToken, cookie, tab, seen>>

Edited(what, row) ==
    CASE what = "edit"       -> row
      [] what = "deactivate" -> [row EXCEPT !.isActive = FALSE]
      [] what = "reactivate" -> [row EXCEPT !.isActive = TRUE, !.failedLoginCount = 0,
                                            !.lockedUntil = NULL]

HoldsRow(o) == op[o].pc \in {"edit", "deactivate", "reactivate"}

SameCount(row, saved) == row.failedLoginCount = saved.failedLoginCount

EditSave(o) ==
    /\ HoldsRow(o)
    /\ account' = Edited(op[o].pc, op[o].row)
    /\ op' = [op EXCEPT ![o] = IF op[o].pc = "deactivate"
                              THEN [pc |-> "revokeAfterDeactivation"] ELSE Idle]
    /\ seen' = [seen EXCEPT !.streak = IF op[o].pc = "reactivate" THEN 0 ELSE @,
                            !.racedLogin = IF op[o].pc = "reactivate" THEN Counting # {}
                                           ELSE @ \/ ~SameCount(op[o].row, account),
                            !.overwrote = @ \/ account.password # op[o].row.password]
    /\ UNCHANGED <<session, resetToken, cookie, tab, budget>>

RevokeAfterDeactivation(o) ==
    /\ op[o].pc = "revokeAfterDeactivation"
    /\ session' = RevokeAll(session)
    /\ op' = [op EXCEPT ![o] = Idle]
    /\ UNCHANGED <<account, resetToken, cookie, tab, seen, budget>>

(* softDelete revokes, then saves; the account is not the last administrator *)
(* (see Directory).                                                        *)
RevokeBeforeDeletion(o) ==
    /\ Starts(o)
    /\ ~account.deleted
    /\ session' = RevokeAll(session)
    /\ op' = [op EXCEPT ![o] = [pc |-> "delete"]]
    /\ UNCHANGED <<account, resetToken, cookie, tab, seen>>

SoftRemove(o) ==
    /\ op[o].pc = "delete"
    /\ account' = [account EXCEPT !.deleted = TRUE]
    /\ op' = [op EXCEPT ![o] = Idle]
    /\ UNCHANGED <<session, resetToken, cookie, tab, seen, budget>>

(* The API stops between two statements of an operation.                    *)
Crash(o) ==
    /\ op[o] # Idle
    /\ op' = [op EXCEPT ![o] = Idle]
    /\ UNCHANGED <<account, session, resetToken, cookie, tab, seen, budget>>

-----------------------------------------------------------------------------
(* Time passes; the age of a pair nobody holds any more does not matter.      *)
Held(s) == s = cookie \/ \E t \in Tabs : tab[t] # Idle /\ tab[t].kind # "login" /\ tab[t].cookie = s

AgeAccess(s) ==
    /\ Held(s)
    /\ session[s].access # "expired"
    /\ session' = [session EXCEPT ![s].access = IF @ = "fresh" THEN "closing" ELSE "expired"]
    /\ UNCHANGED <<account, resetToken, cookie, tab, op, seen, budget>>

ExpireSession(s) ==
    /\ Held(s)
    /\ session[s].access = "expired"
    /\ ~session[s].expired
    /\ session' = [session EXCEPT ![s].expired = TRUE]
    /\ UNCHANGED <<account, resetToken, cookie, tab, op, seen, budget>>

(* A lock ends: that of the row, and of the copies loaded of it.              *)
Unlocked(row) == [row EXCEPT !.lockedUntil = IF @ = "future" THEN "past" ELSE @]

LockEnds ==
    /\ account.lockedUntil = "future"
    /\ account' = Unlocked(account)
    /\ op' = [o \in Ops |-> IF HoldsRow(o) THEN [op[o] EXCEPT !.row = Unlocked(@)] ELSE op[o]]
    /\ UNCHANGED <<session, resetToken, cookie, tab, seen, budget>>

ExpireToken(k) ==
    /\ resetToken[k] = "sent"
    /\ resetToken' = [resetToken EXCEPT ![k] = "expired"]
    /\ UNCHANGED <<account, session, cookie, tab, op, seen, budget>>

-----------------------------------------------------------------------------
Refresh(t) ==
    \/ MiddlewarePasses(t) \/ RefreshLoad(t) \/ RevokeReused(t) \/ Rotate(t)
    \/ SetCookie(t) \/ ClearRefused(t) \/ Render(t)

Browser(t) ==
    \/ \E right \in BOOLEAN : LoginLoad(t, right)
    \/ RecordFailedLogin(t) \/ LoginReset(t) \/ IssueTokenPair(t) \/ LoggedIn(t)
    \/ \E kind \in Kind : Send(t, kind)
    \/ Refresh(t) \/ Lose(t) \/ Logout(t)

Elsewhere(o) ==
    \/ ConfirmLoad(o) \/ SetPassword(o) \/ MarkUsed(o) \/ RevokeAfterReset(o)
    \/ ChangeLoad(o) \/ ChangePassword(o)
    \/ EditLoad(o) \/ EditSave(o) \/ RevokeAfterDeactivation(o)
    \/ RevokeBeforeDeletion(o) \/ SoftRemove(o) \/ Crash(o)

Passing ==
    \/ LockEnds
    \/ \E s \in Sids : AgeAccess(s) \/ ExpireSession(s)
    \/ \E k \in ResetTokens : ExpireToken(k)

SessionsNext ==
    \/ \E t \in Tabs : Browser(t)
    \/ \E o \in Ops : Elsewhere(o)
    \/ LogoutAll \/ RequestPasswordReset \/ ForcePasswordReset
    \/ Passing

SessionsSpec == SessionsInit /\ [][SessionsNext]_sessionsVars

-----------------------------------------------------------------------------
(* A completed password reset closes every session opened with an earlier     *)
(* password, rotations included, except those whose login or rotation was in *)
(* flight while the reset completed, which nothing checks again, and as long *)
(* as no edit of the account in flight writes the old password back.        *)
ResetClosesOldSessions ==
    \A s \in Sids : Live(s) /\ session[s].secret < seen.floor =>
                     session[s].slipped \/ seen.overwrote

(* A browser that loads one page at a time, prefetches apart, and gets every  *)
(* answer is never taken for a thief: the token it presents has not been      *)
(* rotated (EXG-10-032).                                                   *)
LoneBrowserNeverSuspected ==
    seen.suspected => seen.raced \/ seen.lost

(* An account whose count has reached the limit carries a lock, whatever      *)
(* logins, edits and resets overlapped (EXG-10-020), and the count is that   *)
(* of the consecutive failures unless a failure recorded a count read before *)
(* another write of it, or an edit wrote an older count back; a success or a *)
(* new password puts it right again.  The failures count however far apart   *)
(* they are and a lock that ended is set again by the next one: the code has *)
(* no window, where docs/cdc/10-securite-rgpd.md:26 speaks of *)
(* five failures within 15 minutes.                                        *)
LoneLoginsCounted ==
    /\ account.failedLoginCount >= MaxFailed => account.lockedUntil # NULL
    /\ ~seen.racedLogin => account.failedLoginCount = seen.streak

=============================================================================
