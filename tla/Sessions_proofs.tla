-------------------------- MODULE Sessions_proofs --------------------------
(***************************************************************************)
(* What the sessions of an account promise its holder: a password reset         *)
(* closes the sessions of the earlier passwords, a browser alone is never      *)
(* taken for a thief, failed logins are counted.  For any number of requests   *)
(* of the browser, of operations from elsewhere and of sessions.             *)
(***************************************************************************)
EXTENDS MCAccounts, Directory_proofs, FiniteSetTheorems, TLAPS

(* What a request of the browser holds.                                      *)
LoginWork == [pc : {"loginSucceeds", "issue"}, kind : {"login"}, slipped : BOOLEAN,
              secret : 0 .. MaxSecrets, began : Nat]
Failing   == [pc : {"loginFails"}, kind : {"login"}, user : Account]
Visiting  == [pc : {"arrived", "render"}, kind : Kind, cookie : Sids]
Refreshing == [pc : {"reused", "refused", "rotate", "issue"}, kind : {"page", "profile", "logout"},
               cookie : Sids, secret : 0 .. MaxSecrets, began : Nat, slipped : BOOLEAN]
Answered  == [pc : {"answered"}, kind : {"page", "profile", "logout"}, sid : Sids, cookie : Sids]
LoginAnswered == [pc : {"answered"}, kind : {"login"}, sid : Sids, cookie : {NULL}]

TabWork == {Idle} \cup LoginWork \cup Failing \cup Visiting \cup Refreshing \cup Answered
             \cup LoginAnswered

(* What an operation from elsewhere holds.                                   *)
Confirming == [pc : {"setPassword"}, token : ResetTokens]
Confirmed  == [pc : {"markUsed", "revokeAfterReset"}, token : ResetTokens,
               secret : 0 .. MaxSecrets]
Editing    == [pc : {"edit", "deactivate", "reactivate"}, row : Account]
Closing    == [pc : {"change", "revokeAfterDeactivation", "delete"}]

OpWork == {Idle} \cup Confirming \cup Confirmed \cup Editing \cup Closing

Seen == [streak : Nat, racedLogin : BOOLEAN, raced : BOOLEAN, lost : BOOLEAN,
         suspected : BOOLEAN, overwrote : BOOLEAN, secrets : 0 .. MaxSecrets, resets : Nat,
         floor : 0 .. MaxSecrets]

Token == {NULL, "sent", "used", "expired"}

Typed ==
    /\ account \in Account
    /\ session \in [Sids -> Session \cup {NULL}]
    /\ resetToken \in [ResetTokens -> Token]
    /\ cookie \in Sids \cup {NULL}
    /\ tab \in [Tabs -> TabWork]
    /\ op \in [Ops -> OpWork]
    /\ seen \in Seen

(* What the browser presents was issued, and no session leaves its table.      *)
Holds(work, sessions) ==
    /\ work \in Visiting \cup Refreshing \cup Answered => sessions[work.cookie] # NULL
    /\ work.pc = "answered" => sessions[work.sid] # NULL

Known ==
    /\ cookie # NULL => session[cookie] # NULL
    /\ \A t \in Tabs : Holds(tab[t], session)

(* The last password is that of the account, and no reset set a later one.      *)
PasswordIsLast ==
    /\ ~seen.overwrote => account.password = seen.secrets
    /\ seen.floor <= seen.secrets
    /\ \A o \in Ops : op[o] \in Confirmed => op[o].secret <= seen.secrets

(* A session about to be issued for an earlier password began before the reset  *)
(* that replaced it was complete.                                           *)
Issuing(work) == work.pc \in {"loginSucceeds", "issue", "rotate"}

Excused(work) ==
    /\ work.began <= seen.resets
    /\ work.secret < seen.floor =>
          work.slipped \/ work.began < seen.resets \/ seen.overwrote

IssuesFit == \A t \in Tabs : Issuing(tab[t]) => Excused(tab[t])

(* A failed login counts from what the account holds.                          *)
LoginsFit ==
    ~seen.racedLogin =>
        \A t \in Tabs : tab[t].pc = "loginFails" => SameCount(tab[t].user, account)

(* A count at the limit comes with a lock, in the copies an edit will save too.   *)
Locks(r) == r.failedLoginCount >= MaxFailed => r.lockedUntil # NULL

EditsFit == \A o \in Ops : op[o] \in Editing => Locks(op[o].row)

(* What an operation holds fits.                                             *)
Fits(work) ==
    /\ work \in Confirmed => work.secret <= seen.secrets
    /\ work \in Editing => Locks(work.row)

(* A browser alone holds no token that was rotated, but for the moment between  *)
(* a rotation and the cookie of its answer.                                 *)
Clean(work, sessions) ==
    /\ work \in Visiting => sessions[work.cookie].end # "rotated"
    /\ work \in Refreshing /\ work.pc # "issue" => sessions[work.cookie].end # "rotated"
    /\ work.pc = "answered" => sessions[work.sid].end # "rotated"

LoneFits ==
    ~seen.raced /\ ~seen.lost =>
        /\ ~seen.suspected
        /\ \A t, u \in Busy : t = u
        /\ \A t \in Busy : Clean(tab[t], session)
        /\ cookie # NULL /\ session[cookie].end = "rotated" =>
              \E t \in Busy : tab[t].pc \in {"issue", "answered"}

SessionsInv ==
    /\ Typed /\ Known
    /\ PasswordIsLast /\ IssuesFit /\ ResetClosesOldSessions
    /\ LoginsFit /\ EditsFit /\ LoneLoginsCounted
    /\ LoneFits

-----------------------------------------------------------------------------
LEMMA TabAt ==
    ASSUME Typed, NEW t \in Tabs
    PROVE  /\ tab[t] \in TabWork
           /\ tab[t].pc = "loginFails" => tab[t] \in Failing
           /\ tab[t].pc = "loginSucceeds" => tab[t] \in LoginWork
           /\ tab[t].pc = "issue" => tab[t] \in LoginWork \cup Refreshing
           /\ tab[t].pc \in {"arrived", "render"} => tab[t] \in Visiting
           /\ tab[t].pc \in {"reused", "refused", "rotate"} => tab[t] \in Refreshing
           /\ tab[t].pc = "answered" => tab[t] \in Answered \cup LoginAnswered
           /\ tab[t].pc = "idle" <=> tab[t] = Idle
<1>1. tab[t] \in TabWork
  BY DEF Typed
<1> QED
  BY <1>1 DEF TabWork, Idle, LoginWork, Failing, Visiting, Refreshing, Answered, LoginAnswered

LEMMA OpAt ==
    ASSUME Typed, NEW o \in Ops
    PROVE  /\ op[o] \in OpWork
           /\ op[o].pc = "setPassword" => op[o] \in Confirming
           /\ op[o].pc \in {"markUsed", "revokeAfterReset"} => op[o] \in Confirmed
           /\ op[o].pc \in {"edit", "deactivate", "reactivate"} => op[o] \in Editing
<1>1. op[o] \in OpWork
  BY DEF Typed
<1> QED  BY <1>1 DEF OpWork, Idle, Confirming, Confirmed, Editing, Closing

LEMMA WorkIsTabWork ==
    /\ Idle \in TabWork
    /\ \A work \in LoginWork \cup Failing \cup Visiting \cup Refreshing \cup Answered
                     \cup LoginAnswered : work \in TabWork
  BY DEF TabWork

(* The sets of works do not meet.                                            *)
LEMMA Apart ==
    ASSUME NEW work \in TabWork
    PROVE  /\ work = Idle => /\ work.pc = "idle"
                             /\ work \notin Visiting \cup Refreshing \cup Answered
           /\ work \in LoginWork \cup Failing \cup LoginAnswered =>
                /\ work.kind = "login"
                /\ work \notin Visiting \cup Refreshing \cup Answered
           /\ work \in Visiting => work.kind # "login" /\ work \notin Refreshing \cup Answered
           /\ work \in Refreshing => work.kind # "login" /\ work.kind # "prefetch"
           /\ work \in Answered =>
                /\ work.kind # "login" /\ work.kind # "prefetch" /\ work.pc = "answered"
                /\ work \notin Refreshing
  BY DEF TabWork, Idle, LoginWork, Failing, Visiting, Refreshing, Answered, LoginAnswered, Kind

(* What the table of sessions may lose: sessions are closed, aged, never opened *)
(* again nor taken out.                                                     *)
OnlyCloses ==
    /\ session' \in [Sids -> Session \cup {NULL}]
    /\ \A s \in Sids : session[s] # NULL <=> session'[s] # NULL
    /\ \A s \in Sids : session[s] # NULL =>
          /\ ~session'[s].revoked => ~session[s].revoked
          /\ session'[s].secret = session[s].secret
          /\ session'[s].slipped = session[s].slipped
          /\ session'[s].end = "rotated" => session[s].end = "rotated"

LEMMA SessionIsThere ==
    ASSUME Typed
    PROVE  /\ \A s \in Sids : session[s] # NULL => session[s] \in Session
           /\ \A row \in Session : row # NULL
           /\ \A s \in Sids : s # NULL
  BY SessionsNull DEF Typed

LEMMA StayingCloses ==
    ASSUME Typed, session' = session
    PROVE  OnlyCloses
  BY DEF Typed, OnlyCloses

LEMMA RevokeAllCloses ==
    ASSUME Typed, session' = RevokeAll(session)
    PROVE  OnlyCloses /\ \A s \in Sids : ~Live(s)'
<1>1. \A s \in Sids :
        session'[s] = IF session[s] = NULL \/ session[s].revoked THEN session[s]
                      ELSE [session[s] EXCEPT !.revoked = TRUE, !.end = "closed"]
  BY DEF RevokeAll
<1>2. session' = [s \in Sids |-> session'[s]]
  BY DEF RevokeAll
<1>3. ASSUME NEW s \in Sids, session[s] # NULL
      PROVE  /\ session'[s] \in Session /\ session'[s] # NULL /\ session'[s].revoked
             /\ session'[s].secret = session[s].secret
             /\ session'[s].slipped = session[s].slipped
             /\ session'[s].end = "rotated" => session[s].end = "rotated"
  <2>1. session[s] \in Session
    BY <1>3, SessionIsThere
  <2>2. session'[s] \in Session
    BY <1>1, <1>3, <2>1 DEF Session
  <2>3. session'[s] # NULL
    BY <2>2, SessionIsThere
  <2> QED  BY <1>1, <1>3, <2>1, <2>2, <2>3 DEF Session
<1>4. \A s \in Sids : session[s] = NULL => session'[s] = NULL
  BY <1>1
<1>5. session' \in [Sids -> Session \cup {NULL}]
  BY <1>2, <1>3, <1>4
<1> QED  BY <1>3, <1>4, <1>5 DEF OnlyCloses, Live

(* One session is written over: closed or aged.                               *)
LEMMA OneCloses ==
    ASSUME Typed, NEW s \in Sids, NEW row \in Session, session[s] # NULL,
           session' = [session EXCEPT ![s] = row],
           ~row.revoked => ~session[s].revoked,
           row.secret = session[s].secret, row.slipped = session[s].slipped,
           row.end = "rotated" => session[s].end = "rotated"
    PROVE  OnlyCloses
  BY SessionIsThere DEF Typed, OnlyCloses

-----------------------------------------------------------------------------
(* The types.                                                              *)

(* Nothing of the browser moves.                                             *)
LEMMA KnownStays ==
    ASSUME Typed, Known, tab' = tab, cookie' \in {cookie, NULL},
           \A s \in Sids : session[s] # NULL => session'[s] # NULL
    PROVE  Known'
<1>1. \A t \in Tabs : tab[t] \in TabWork
  BY TabAt
<1>2. ASSUME NEW t \in Tabs  PROVE Holds(tab[t], session)'
  <2>1. Holds(tab[t], session)
    BY DEF Known
  <2>2. tab[t] \in Visiting \cup Refreshing \cup Answered => tab[t].cookie \in Sids
    BY DEF Visiting, Refreshing, Answered
  <2>3. tab[t].pc = "answered" => tab[t].sid \in Sids
    BY TabAt DEF Answered, LoginAnswered
  <2> QED  BY <2>1, <2>2, <2>3 DEF Holds
<1> QED  BY <1>2 DEF Known, Typed

(* One request moves.                                                        *)
LEMMA KnownMoves ==
    ASSUME Typed, Known, NEW t \in Tabs, NEW work \in TabWork,
           tab' = [tab EXCEPT ![t] = work],
           \A s \in Sids : session[s] # NULL => session'[s] # NULL,
           Holds(work, session'),
           cookie' # NULL => \/ cookie' = cookie
                             \/ cookie' \in Sids /\ session'[cookie'] # NULL
    PROVE  Known' /\ tab' \in [Tabs -> TabWork]
<1>1. tab' \in [Tabs -> TabWork] /\ tab'[t] = work /\ \A u \in Tabs : u # t => tab'[u] = tab[u]
  BY DEF Typed
<1>2. ASSUME NEW u \in Tabs, u # t  PROVE Holds(tab[u], session)'
  <2>1. Holds(tab[u], session) /\ tab'[u] = tab[u]
    BY <1>1, <1>2 DEF Known
  <2>2. tab[u] \in Visiting \cup Refreshing \cup Answered => tab[u].cookie \in Sids
    BY DEF Visiting, Refreshing, Answered
  <2>3. tab[u].pc = "answered" => tab[u].sid \in Sids
    BY TabAt DEF Answered, LoginAnswered
  <2> QED  BY <2>1, <2>2, <2>3 DEF Holds
<1>3. cookie' # NULL => session'[cookie'] # NULL
  BY DEF Known, Typed
<1> QED  BY <1>1, <1>2, <1>3 DEF Known

(* The id of a new session.                                                  *)
LEMMA NextSid ==
    ASSUME Cardinality(Opened) < MaxSids
    PROVE  Cardinality(Opened) + 1 \in Sids
<1>1. IsFiniteSet(1 .. MaxSids)
  BY FS_Interval, SessionsAssumption
<1>2. IsFiniteSet(Opened)
  BY <1>1, FS_Subset DEF Opened, Sids
<1>3. Cardinality(Opened) \in Nat
  BY <1>2, FS_CardinalityType
<1> QED  BY <1>3, SessionsAssumption DEF Sids

NewRow(t) ==
    [revoked |-> FALSE, expired |-> FALSE, access |-> "fresh", end |-> "none",
     secret |-> tab[t].secret, slipped |-> tab[t].slipped \/ tab[t].began < seen.resets]

LEMMA NewRowTyped ==
    ASSUME Typed, NEW t \in Tabs, tab[t].pc = "issue"
    PROVE  NewRow(t) \in Session
<1>1. /\ tab[t].secret \in 0 .. MaxSecrets /\ tab[t].slipped \in BOOLEAN /\ tab[t].began \in Nat
  BY TabAt DEF LoginWork, Refreshing
<1>2. seen.resets \in Nat
  BY DEF Typed, Seen
<1> DEFINE slipped == tab[t].slipped \/ tab[t].began < seen.resets
<1>3. slipped \in BOOLEAN
  BY <1>1
<1>4. NewRow(t) = [revoked |-> FALSE, expired |-> FALSE, access |-> "fresh", end |-> "none",
                   secret |-> tab[t].secret, slipped |-> slipped]
  BY DEF NewRow
<1> HIDE DEF slipped
<1> QED  BY <1>1, <1>3, <1>4 DEF Session, Age

LEMMA LoginLoadTyped ==
    ASSUME Typed, Known, NEW t \in Tabs, NEW right \in BOOLEAN, LoginLoad(t, right)
    PROVE  Typed' /\ Known'
<1> DEFINE work == IF right THEN [pc |-> "loginSucceeds", kind |-> "login", slipped |-> FALSE,
                                  secret |-> account.password, began |-> seen.resets]
                   ELSE [pc |-> "loginFails", kind |-> "login", user |-> account]
<1>1. tab' = [tab EXCEPT ![t] = work] /\ UNCHANGED <<account, session, resetToken, cookie, op>>
  BY DEF LoginLoad
<1>2. work \in LoginWork \cup Failing
  BY DEF Typed, Account, Seen, LoginWork, Failing
<1>3. Holds(work, session')
  BY <1>2, Apart DEF Holds, TabWork, LoginWork, Failing
<1>4. seen' \in Seen
  BY DEF LoginLoad, Typed, Seen
<1> HIDE DEF work
<1>5. Known' /\ tab' \in [Tabs -> TabWork]
  BY <1>1, <1>2, <1>3, WorkIsTabWork, KnownMoves
<1> QED  BY <1>1, <1>4, <1>5 DEF Typed

LEMMA FailureSeen ==
    ASSUME NEW s \in Seen, NEW n \in Nat, NEW stale \in BOOLEAN
    PROVE  [s EXCEPT !.streak = n, !.racedLogin = stale] \in Seen
  BY DEF Seen

LEMMA RecordFailedLoginTyped ==
    ASSUME Typed, Known, NEW t \in Tabs, RecordFailedLogin(t)
    PROVE  Typed' /\ Known'
<1> DEFINE count  == NextFailedCount(tab[t].user)
           locked == IF count >= MaxFailed THEN "future" ELSE tab[t].user.lockedUntil
<1>1. tab[t].user \in Account
  BY TabAt DEF RecordFailedLogin, Failing
<1>2. count \in Nat /\ locked \in Lock
  BY <1>1 DEF NextFailedCount, Account, Lock
<1>3. account' = [account EXCEPT !.failedLoginCount = count, !.lockedUntil = locked]
  BY DEF RecordFailedLogin
<1> HIDE DEF count, locked
<1>4. account' \in Account
  BY <1>2, <1>3 DEF Typed, Account
<1>5. seen' \in Seen
  <2> DEFINE stale == seen.racedLogin \/ Counting # {t}
  <2>1. stale \in BOOLEAN
    OBVIOUS
  <2>2. seen \in Seen /\ seen.streak + 1 \in Nat
    BY DEF Typed, Seen
  <2>3. seen' = [seen EXCEPT !.streak = seen.streak + 1, !.racedLogin = stale]
    BY DEF RecordFailedLogin
  <2> HIDE DEF stale
  <2>4. [seen EXCEPT !.streak = seen.streak + 1, !.racedLogin = stale] \in Seen
    BY <2>1, <2>2, FailureSeen
  <2> QED  BY <2>3, <2>4, Zenon
<1>6. Holds(Idle, session') /\ Idle \in TabWork
  BY Apart DEF Holds, TabWork, Idle
<1>7. Known' /\ tab' \in [Tabs -> TabWork]
  BY <1>6, KnownMoves DEF RecordFailedLogin
<1> QED  BY <1>4, <1>5, <1>7 DEF RecordFailedLogin, Typed

LEMMA LoginResetTyped ==
    ASSUME Typed, Known, NEW t \in Tabs, LoginReset(t)
    PROVE  Typed' /\ Known'
<1> DEFINE work == [tab[t] EXCEPT !.pc = "issue"]
<1>1. work \in LoginWork
  BY TabAt DEF LoginReset, LoginWork
<1>2. tab' = [tab EXCEPT ![t] = work]
  BY DEF LoginReset, Typed
<1> HIDE DEF work
<1>3. Holds(work, session')
  BY <1>1, Apart DEF Holds, TabWork, LoginWork
<1>4. account' \in Account
  BY DEF LoginReset, Typed, Account, Lock
<1>5. seen' \in Seen
  BY DEF LoginReset, Typed, Seen
<1>6. Known' /\ tab' \in [Tabs -> TabWork]
  BY <1>1, <1>2, <1>3, WorkIsTabWork, KnownMoves DEF LoginReset
<1> QED  BY <1>4, <1>5, <1>6 DEF LoginReset, Typed

LEMMA IssueTokenPairMoves ==
    ASSUME Typed, Known, NEW t \in Tabs, IssueTokenPair(t)
    PROVE  \E s \in Sids, work \in Answered \cup LoginAnswered :
              /\ session' = [session EXCEPT ![s] = NewRow(t)]
              /\ tab' = [tab EXCEPT ![t] = work]
              /\ work.kind = tab[t].kind /\ work.sid = s
              /\ work \in Answered => tab[t] \in Refreshing /\ work.cookie = tab[t].cookie
<1> DEFINE s    == Cardinality(Opened) + 1
           work == [pc |-> "answered", kind |-> tab[t].kind, sid |-> s,
                    cookie |-> IF tab[t].kind = "login" THEN NULL ELSE tab[t].cookie]
<1>1. s \in Sids
  BY NextSid DEF IssueTokenPair
<1>2. session' = [session EXCEPT ![s] = NewRow(t)] /\ tab' = [tab EXCEPT ![t] = work]
  BY DEF IssueTokenPair, NewRow
<1> HIDE DEF s
<1>3. tab[t] \in LoginWork \cup Refreshing
  BY TabAt DEF IssueTokenPair
<1>4. tab[t] \in LoginWork => work \in LoginAnswered /\ work \notin Answered
  BY <1>1 DEF LoginWork, LoginAnswered, Answered
<1>5. tab[t] \in Refreshing => work \in Answered /\ work.cookie = tab[t].cookie
  BY <1>1 DEF Refreshing, Answered
<1>6. work.kind = tab[t].kind /\ work.sid = s
  OBVIOUS
<1> HIDE DEF work
<1> QED  BY <1>1, <1>2, <1>3, <1>4, <1>5, <1>6

LEMMA IssueTokenPairTyped ==
    ASSUME Typed, Known, NEW t \in Tabs, IssueTokenPair(t)
    PROVE  Typed' /\ Known'
<1>1. PICK s \in Sids, work \in Answered \cup LoginAnswered :
              /\ session' = [session EXCEPT ![s] = NewRow(t)]
              /\ tab' = [tab EXCEPT ![t] = work]
              /\ work.kind = tab[t].kind /\ work.sid = s
              /\ work \in Answered => tab[t] \in Refreshing /\ work.cookie = tab[t].cookie
  BY IssueTokenPairMoves
<1>2. NewRow(t) \in Session /\ NewRow(t) # NULL
  BY NewRowTyped, SessionIsThere DEF IssueTokenPair
<1>3. /\ session' \in [Sids -> Session \cup {NULL}] /\ session'[s] # NULL
      /\ \A r \in Sids : session[r] # NULL => session'[r] # NULL
  BY <1>1, <1>2 DEF Typed
<1>4. work \in Answered => session'[work.cookie] # NULL
  BY <1>1, <1>3 DEF Known, Holds, Refreshing
<1>5. Holds(work, session')
  BY <1>1, <1>3, <1>4, Apart DEF Holds, TabWork
<1>6. Known' /\ tab' \in [Tabs -> TabWork]
  BY <1>1, <1>3, <1>5, WorkIsTabWork, KnownMoves DEF IssueTokenPair
<1> QED  BY <1>3, <1>6 DEF IssueTokenPair, Typed

LEMMA SendTyped ==
    ASSUME Typed, Known, NEW t \in Tabs, NEW kind \in Kind, Send(t, kind)
    PROVE  Typed' /\ Known'
<1> DEFINE work == [pc |-> "arrived", kind |-> kind, cookie |-> cookie]
<1>1. work \in Visiting
  BY DEF Send, Typed, Visiting
<1>2. Holds(work, session')
  BY DEF Send, Known, Holds
<1> DEFINE met == seen.raced \/ (kind # "prefetch" /\ Busy # {})
<1>3. met \in BOOLEAN /\ seen' = [seen EXCEPT !.raced = met]
  BY DEF Send, Typed, Seen
<1>4. tab' = [tab EXCEPT ![t] = work] /\ UNCHANGED <<account, session, resetToken, cookie, op>>
  BY DEF Send
<1> HIDE DEF met, work
<1>5. seen' \in Seen
  BY <1>3 DEF Typed, Seen
<1>6. Known' /\ tab' \in [Tabs -> TabWork]
  BY <1>1, <1>2, <1>4, WorkIsTabWork, KnownMoves
<1> QED  BY <1>4, <1>5, <1>6 DEF Typed

LEMMA MiddlewarePassesTyped ==
    ASSUME Typed, Known, NEW t \in Tabs, MiddlewarePasses(t)
    PROVE  Typed' /\ Known'
<1> DEFINE work == [tab[t] EXCEPT !.pc = "render"]
<1>1. tab[t] \in Visiting
  BY TabAt DEF MiddlewarePasses, Arrived
<1>2. work \in Visiting /\ work.cookie = tab[t].cookie /\ work.pc = "render"
  BY <1>1 DEF Visiting
<1>3. tab' = [tab EXCEPT ![t] = work] /\ session' = session
  BY DEF MiddlewarePasses, Typed
<1> HIDE DEF work
<1>4. Holds(work, session')
  BY <1>1, <1>2, <1>3 DEF Known, Holds
<1>5. Known' /\ tab' \in [Tabs -> TabWork]
  BY <1>2, <1>3, <1>4, WorkIsTabWork, KnownMoves DEF MiddlewarePasses
<1> QED  BY <1>5 DEF MiddlewarePasses, Typed

LEMMA RefreshLoadMoves ==
    ASSUME Typed, Known, NEW t \in Tabs, RefreshLoad(t)
    PROVE  \E work \in Refreshing :
              /\ tab[t] \in Visiting /\ tab[t].pc = "arrived" /\ tab[t].kind # "prefetch"
              /\ tab' = [tab EXCEPT ![t] = work]
              /\ work.pc \in {"reused", "refused", "rotate"}
              /\ work.kind = tab[t].kind /\ work.cookie = tab[t].cookie
              /\ session[work.cookie] # NULL
              /\ work.secret = session[work.cookie].secret /\ work.began = seen.resets
              /\ work.slipped = session[work.cookie].slipped
              /\ work.pc = "rotate" => ~session[work.cookie].revoked
<1> DEFINE row  == session[tab[t].cookie]
           pc   == CASE row.revoked -> "reused"
                     [] ~row.revoked /\ (row.expired \/ Disabled) -> "refused"
                     [] OTHER -> "rotate"
           work == [pc |-> pc, kind |-> tab[t].kind, cookie |-> tab[t].cookie,
                    secret |-> row.secret, began |-> seen.resets, slipped |-> row.slipped]
<1>1. tab[t] \in Visiting /\ tab[t].pc = "arrived" /\ tab[t].kind # "prefetch"
  BY TabAt DEF RefreshLoad, Arrived, Asks, MustRefresh
<1>2. tab[t].cookie \in Sids /\ tab[t].kind \in {"page", "profile", "logout"}
  BY <1>1 DEF Visiting, Kind
<1>3. row # NULL /\ row \in Session
  BY <1>1, <1>2, SessionIsThere DEF Known, Holds
<1>4. pc \in {"reused", "refused", "rotate"} /\ (pc = "rotate" => ~row.revoked)
  OBVIOUS
<1>5. tab' = [tab EXCEPT ![t] = work]
  BY DEF RefreshLoad
<1> HIDE DEF pc
<1>6. seen.resets \in Nat
  BY DEF Typed, Seen
<1>7. work \in Refreshing
  BY <1>2, <1>3, <1>4, <1>6 DEF Refreshing, Session
<1> QED  BY <1>1, <1>3, <1>4, <1>5, <1>7

LEMMA RefreshLoadTyped ==
    ASSUME Typed, Known, NEW t \in Tabs, RefreshLoad(t)
    PROVE  Typed' /\ Known'
<1>1. PICK work \in Refreshing : /\ tab' = [tab EXCEPT ![t] = work]
                                 /\ work.pc \in {"reused", "refused", "rotate"}
                                 /\ session[work.cookie] # NULL
  BY RefreshLoadMoves
<1>2. UNCHANGED <<account, session, resetToken, cookie, op>>
  BY DEF RefreshLoad
<1> DEFINE met == seen.suspected \/ session[tab[t].cookie].end = "rotated"
<1>3. met \in BOOLEAN /\ seen' = [seen EXCEPT !.suspected = met]
  BY DEF RefreshLoad, Typed, Seen
<1> HIDE DEF met
<1>4. seen' \in Seen
  BY <1>3 DEF Typed, Seen
<1>5. Known' /\ tab' \in [Tabs -> TabWork]
  BY <1>1, <1>2, WorkIsTabWork, KnownMoves DEF Holds
<1> QED  BY <1>2, <1>4, <1>5 DEF Typed

(* A refresh that goes on keeps what it holds.                                 *)
LEMMA RefreshGoesOn ==
    ASSUME Typed, Known, NEW t \in Tabs, tab[t] \in Refreshing,
           NEW pc \in {"reused", "refused", "rotate", "issue"},
           tab' = [tab EXCEPT ![t].pc = pc],
           \A s \in Sids : session[s] # NULL => session'[s] # NULL, cookie' = cookie
    PROVE  /\ Known' /\ tab' \in [Tabs -> TabWork]
           /\ \E work \in Refreshing :
                 /\ tab' = [tab EXCEPT ![t] = work]
                 /\ work.pc = pc /\ work.kind = tab[t].kind /\ work.cookie = tab[t].cookie
                 /\ work.secret = tab[t].secret /\ work.began = tab[t].began
                 /\ work.slipped = tab[t].slipped
<1> DEFINE work == [tab[t] EXCEPT !.pc = pc]
<1>1. work \in Refreshing
  BY DEF Refreshing
<1>2. /\ work.pc = pc /\ work.kind = tab[t].kind /\ work.cookie = tab[t].cookie
      /\ work.secret = tab[t].secret /\ work.began = tab[t].began
      /\ work.slipped = tab[t].slipped
  BY DEF Refreshing
<1>3. tab' = [tab EXCEPT ![t] = work]
  BY DEF Typed
<1> HIDE DEF work
<1>4. work.cookie \in Sids /\ session[work.cookie] # NULL
  BY <1>1, <1>2 DEF Known, Holds, Refreshing
<1>5. Holds(work, session')
  BY <1>2, <1>4 DEF Holds
<1>6. Known' /\ tab' \in [Tabs -> TabWork]
  BY <1>1, <1>3, <1>5, WorkIsTabWork, KnownMoves
<1> QED  BY <1>1, <1>2, <1>3, <1>6

LEMMA RevokeReusedTyped ==
    ASSUME Typed, Known, NEW t \in Tabs, RevokeReused(t)
    PROVE  Typed' /\ Known'
<1>1. tab[t] \in Refreshing
  BY TabAt DEF RevokeReused
<1>2. OnlyCloses
  BY RevokeAllCloses DEF RevokeReused
<1>3. Known' /\ tab' \in [Tabs -> TabWork]
  BY <1>1, <1>2, RefreshGoesOn DEF RevokeReused, OnlyCloses
<1> QED  BY <1>2, <1>3 DEF RevokeReused, OnlyCloses, Typed

(* The session a request rotates.                                            *)
RotatedRow(row) ==
    [row EXCEPT !.revoked = TRUE, !.end = IF @ = "none" THEN "rotated" ELSE @]

LEMMA RotateMoves ==
    ASSUME Typed, Known, NEW t \in Tabs, Rotate(t)
    PROVE  LET s == tab[t].cookie
           IN  /\ tab[t] \in Refreshing /\ s \in Sids
               /\ session' = [session EXCEPT ![s] = RotatedRow(session[s])]
               /\ RotatedRow(session[s]) \in Session /\ RotatedRow(session[s]).revoked
               /\ session' \in [Sids -> Session \cup {NULL}]
               /\ \A r \in Sids : session[r] # NULL => session'[r] # NULL
<1> DEFINE s == tab[t].cookie
           w == RotatedRow(session[s])
<1>1. tab[t] \in Refreshing
  BY TabAt DEF Rotate
<1>2. s \in Sids /\ session[s] # NULL /\ session[s] \in Session
  BY <1>1, SessionIsThere DEF Refreshing, Known, Holds
<1>3. session' = [session EXCEPT ![s] = w]
  BY <1>2 DEF Rotate, RotatedRow, Typed
<1>4. w \in Session /\ w.revoked
  BY <1>2 DEF RotatedRow, Session
<1>5. w # NULL
  BY <1>4, SessionIsThere
<1> HIDE DEF w
<1>6. /\ session' \in [Sids -> Session \cup {NULL}]
      /\ \A r \in Sids : session[r] # NULL => session'[r] # NULL
  BY <1>2, <1>3, <1>4, <1>5 DEF Typed
<1> QED  BY <1>1, <1>2, <1>3, <1>4, <1>6 DEF w

LEMMA RotateTyped ==
    ASSUME Typed, Known, NEW t \in Tabs, Rotate(t)
    PROVE  Typed' /\ Known'
<1>1. /\ tab[t] \in Refreshing /\ session' \in [Sids -> Session \cup {NULL}]
      /\ \A r \in Sids : session[r] # NULL => session'[r] # NULL
  BY RotateMoves
<1>2. Known' /\ tab' \in [Tabs -> TabWork]
  BY <1>1, RefreshGoesOn DEF Rotate
<1> QED  BY <1>1, <1>2 DEF Rotate, Typed

(* A request that goes on to render.                                         *)
LEMMA GoesToRender ==
    ASSUME Typed, Known, NEW t \in Tabs, NEW kind \in Kind, NEW s \in Sids,
           tab' = [tab EXCEPT ![t] = [pc |-> "render", kind |-> kind, cookie |-> s]],
           session' = session, session[s] # NULL, cookie' \in {cookie, NULL, s}
    PROVE  /\ Known' /\ tab' \in [Tabs -> TabWork]
           /\ [pc |-> "render", kind |-> kind, cookie |-> s] \in Visiting
<1> DEFINE work == [pc |-> "render", kind |-> kind, cookie |-> s]
<1>1. work \in Visiting
  BY DEF Visiting
<1>2. Holds(work, session')
  BY DEF Holds
<1> HIDE DEF work
<1>3. tab' = [tab EXCEPT ![t] = work]
  BY DEF work
<1>4. Known' /\ tab' \in [Tabs -> TabWork]
  BY <1>1, <1>2, <1>3, WorkIsTabWork, KnownMoves
<1> QED  BY <1>1, <1>4 DEF work

LEMMA SetCookieTyped ==
    ASSUME Typed, Known, NEW t \in Tabs, SetCookie(t)
    PROVE  Typed' /\ Known'
<1>1. tab[t] \in Answered
  BY TabAt DEF SetCookie, LoginAnswered
<1>2. tab[t].sid \in Sids /\ tab[t].kind \in Kind /\ session[tab[t].sid] # NULL
  BY <1>1 DEF Answered, Kind, Known, Holds
<1>3. Known' /\ tab' \in [Tabs -> TabWork]
  BY <1>2, GoesToRender DEF SetCookie
<1> QED  BY <1>2, <1>3 DEF SetCookie, Typed

LEMMA LoggedInTyped ==
    ASSUME Typed, Known, NEW t \in Tabs, LoggedIn(t)
    PROVE  Typed' /\ Known'
<1>1. tab[t] \in LoginAnswered
  BY TabAt DEF LoggedIn, Answered
<1>2. tab[t].sid \in Sids /\ session[tab[t].sid] # NULL
  BY <1>1 DEF LoginAnswered, Known, Holds
<1>3. Holds(Idle, session')
  BY WorkIsTabWork, Apart DEF Holds, Idle
<1>4. Known' /\ tab' \in [Tabs -> TabWork]
  BY <1>2, <1>3, WorkIsTabWork, KnownMoves DEF LoggedIn
<1> QED  BY <1>2, <1>4 DEF LoggedIn, Typed

LEMMA ClearRefusedTyped ==
    ASSUME Typed, Known, NEW t \in Tabs, ClearRefused(t)
    PROVE  Typed' /\ Known'
<1>1. tab[t] \in Refreshing
  BY TabAt DEF ClearRefused
<1>2. tab[t].cookie \in Sids /\ tab[t].kind \in Kind /\ session[tab[t].cookie] # NULL
  BY <1>1 DEF Refreshing, Kind, Known, Holds
<1>3. Known' /\ tab' \in [Tabs -> TabWork]
  BY <1>2, GoesToRender DEF ClearRefused
<1> QED  BY <1>3 DEF ClearRefused, Typed

LEMMA LoseTyped ==
    ASSUME Typed, Known, NEW t \in Tabs, Lose(t)
    PROVE  Typed' /\ Known'
<1>1. tab[t] \in Refreshing \cup Answered
  BY TabAt DEF Lose, LoginWork, LoginAnswered
<1>2. tab[t].cookie \in Sids /\ tab[t].kind \in Kind /\ session[tab[t].cookie] # NULL
  BY <1>1 DEF Refreshing, Answered, Kind, Known, Holds
<1>3. Known' /\ tab' \in [Tabs -> TabWork]
  BY <1>2, GoesToRender DEF Lose
<1>4. seen' \in Seen
  BY DEF Lose, Typed, Seen
<1> QED  BY <1>3, <1>4 DEF Lose, Typed

LEMMA RenderTyped ==
    ASSUME Typed, Known, NEW t \in Tabs, Render(t)
    PROVE  Typed' /\ Known'
<1>1. tab[t] \in Visiting
  BY TabAt DEF Render
<1>2. tab[t].cookie \in Sids /\ session[tab[t].cookie] # NULL
  BY <1>1 DEF Visiting, Known, Holds
<1>3. cookie' \in {cookie, NULL, tab[t].cookie}
  BY DEF Render, Kept
<1>4. Holds(Idle, session')
  BY WorkIsTabWork, Apart DEF Holds, Idle
<1>5. Known' /\ tab' \in [Tabs -> TabWork]
  BY <1>2, <1>3, <1>4, WorkIsTabWork, KnownMoves DEF Render
<1> QED  BY <1>2, <1>3, <1>5 DEF Render, Typed

LEMMA LogoutCloses ==
    ASSUME Typed, Known, NEW t \in Tabs, Logout(t)
    PROVE  OnlyCloses
<1>1. CASE session' = session
  BY <1>1, StayingCloses
<1>2. CASE session' = [session EXCEPT ![tab[t].cookie].revoked = TRUE,
                                      ![tab[t].cookie].end = IF @ = "none" THEN "closed" ELSE @]
  <2> DEFINE s == tab[t].cookie
             w == [session[s] EXCEPT !.revoked = TRUE,
                                     !.end = IF @ = "none" THEN "closed" ELSE @]
  <2>1. s \in Sids /\ session[s] # NULL /\ session[s] \in Session
    BY TabAt, SessionIsThere DEF Logout, Visiting, Known, Holds
  <2>2. session' = [session EXCEPT ![s] = w]
    BY <1>2, <2>1 DEF Typed
  <2>3. /\ w \in Session /\ w.revoked /\ w.secret = session[s].secret
        /\ w.slipped = session[s].slipped
        /\ w.end = "rotated" => session[s].end = "rotated"
    BY <2>1 DEF Session
  <2> HIDE DEF w
  <2> QED  BY <2>1, <2>2, <2>3, OneCloses
<1> QED  BY <1>1, <1>2 DEF Logout

LEMMA LogoutTyped ==
    ASSUME Typed, Known, NEW t \in Tabs, Logout(t)
    PROVE  Typed' /\ Known'
<1>1. OnlyCloses
  BY LogoutCloses
<1>2. Holds(Idle, session')
  BY WorkIsTabWork, Apart DEF Holds, Idle
<1>3. Known' /\ tab' \in [Tabs -> TabWork]
  BY <1>1, <1>2, WorkIsTabWork, KnownMoves DEF Logout, OnlyCloses
<1> QED  BY <1>1, <1>3 DEF Logout, OnlyCloses, Typed

-----------------------------------------------------------------------------
(* What happens elsewhere, the browser standing still.                        *)

LEMMA LoneStays ==
    ASSUME Typed, Known, LoneFits, UNCHANGED tab, cookie' \in {cookie, NULL}, OnlyCloses,
           seen'.raced = seen.raced, seen'.lost = seen.lost, seen'.suspected = seen.suspected
    PROVE  LoneFits'
<1> SUFFICES ASSUME ~seen.raced, ~seen.lost
             PROVE  /\ ~seen.suspected
                    /\ \A t, u \in Busy' : t = u
                    /\ \A t \in Busy' : Clean(tab[t], session')
                    /\ cookie' # NULL /\ session'[cookie'].end = "rotated" =>
                          \E t \in Busy' : tab[t].pc \in {"issue", "answered"}
  BY DEF LoneFits
<1>1. Busy' = Busy
  BY DEF Busy
<1>2. ASSUME NEW t \in Busy  PROVE Clean(tab[t], session')
  <2>0. t \in Tabs
    BY DEF Busy
  <2>1. Clean(tab[t], session)
    BY DEF LoneFits
  <2>2. /\ tab[t] \in Visiting \cup Refreshing =>
              tab[t].cookie \in Sids /\ session[tab[t].cookie] # NULL
        /\ tab[t].pc = "answered" => tab[t].sid \in Sids /\ session[tab[t].sid] # NULL
    BY <2>0, TabAt DEF Known, Holds, Visiting, Refreshing, Answered, LoginAnswered
  <2> QED  BY <2>1, <2>2 DEF Clean, OnlyCloses
<1>3. cookie # NULL => cookie \in Sids /\ session[cookie] # NULL
  BY DEF Typed, Known
<1> QED  BY <1>1, <1>2, <1>3 DEF LoneFits, OnlyCloses

(* The sessions are closed or aged, the operations move, nothing else does.     *)
LEMMA QuietKeeps ==
    ASSUME SessionsInv, UNCHANGED <<account, tab, seen>>, cookie' \in {cookie, NULL}, OnlyCloses,
           resetToken' \in [ResetTokens -> Token], op' \in [Ops -> OpWork],
           \A o \in Ops : Fits(op'[o])
    PROVE  SessionsInv'
<1> USE DEF SessionsInv
<1>1. Typed'
  BY DEF Typed, OnlyCloses
<1>2. Known'
  BY KnownStays DEF OnlyCloses
<1>3. PasswordIsLast' /\ EditsFit' /\ IssuesFit'
  BY DEF PasswordIsLast, EditsFit, Fits, IssuesFit, Issuing, Excused
<1>4. ResetClosesOldSessions'
  BY DEF OnlyCloses, ResetClosesOldSessions, Live
<1>5. LoginsFit' /\ LoneLoginsCounted'
  BY DEF LoginsFit, LoneLoginsCounted, SameCount
<1>6. LoneFits'
  BY LoneStays DEF LoneFits
<1> QED  BY <1>1, <1>2, <1>3, <1>4, <1>5, <1>6

LEMMA OpStarts ==
    ASSUME Typed, PasswordIsLast, EditsFit, NEW o \in Ops, NEW work \in OpWork,
           op' = [op EXCEPT ![o] = work], Fits(work)
    PROVE  op' \in [Ops -> OpWork] /\ \A p \in Ops : Fits(op'[p])
  BY DEF Typed, PasswordIsLast, EditsFit, Fits

(* An operation with neither a password to confirm nor a row to save.           *)
LEMMA BareFits ==
    /\ \A work \in Closing \cup Confirming : work \in OpWork /\ Fits(work)
    /\ Idle \in OpWork /\ Fits(Idle)
  BY DEF OpWork, Closing, Confirming, Confirmed, Editing, Idle, Fits

LEMMA OpEnds ==
    ASSUME Typed, PasswordIsLast, EditsFit, NEW o \in Ops, op' = [op EXCEPT ![o] = Idle]
    PROVE  op' \in [Ops -> OpWork] /\ \A p \in Ops : Fits(op'[p])
  BY BareFits, OpStarts

LEMMA OpsStay ==
    ASSUME PasswordIsLast, EditsFit, op' = op
    PROVE  \A o \in Ops : Fits(op'[o])
  BY DEF PasswordIsLast, EditsFit, Fits

LEMMA LogoutAllKeeps ==
    ASSUME SessionsInv, LogoutAll
    PROVE  SessionsInv'
<1>1. OnlyCloses
  BY RevokeAllCloses DEF LogoutAll, SessionsInv
<1> QED  BY <1>1, QuietKeeps, OpsStay DEF LogoutAll, SessionsInv, Typed

LEMMA NewResetTokenKeeps ==
    ASSUME SessionsInv, NewResetToken
    PROVE  SessionsInv'
<1>1. OnlyCloses
  BY StayingCloses DEF NewResetToken, SessionsInv
<1>2. resetToken' \in [ResetTokens -> Token]
  BY DEF NewResetToken, SessionsInv, Typed, Token
<1> QED  BY <1>1, <1>2, QuietKeeps, OpsStay DEF NewResetToken, SessionsInv, Typed

LEMMA ConfirmLoadKeeps ==
    ASSUME SessionsInv, NEW o \in Ops, ConfirmLoad(o)
    PROVE  SessionsInv'
<1> USE DEF SessionsInv
<1>1. OnlyCloses
  BY StayingCloses DEF ConfirmLoad
<1>2. PICK k \in ResetTokens : op' = [op EXCEPT ![o] = [pc |-> "setPassword", token |-> k]]
  BY DEF ConfirmLoad
<1>3. [pc |-> "setPassword", token |-> k] \in Confirming
  BY DEF Confirming
<1>4. op' \in [Ops -> OpWork] /\ \A p \in Ops : Fits(op'[p])
  BY <1>2, <1>3, BareFits, OpStarts
<1> QED  BY <1>1, <1>4, QuietKeeps DEF ConfirmLoad, Typed

LEMMA MarkUsedKeeps ==
    ASSUME SessionsInv, NEW o \in Ops, MarkUsed(o)
    PROVE  SessionsInv'
<1> USE DEF SessionsInv
<1> DEFINE work == [op[o] EXCEPT !.pc = "revokeAfterReset"]
<1>1. OnlyCloses
  BY StayingCloses DEF MarkUsed
<1>2. op[o] \in Confirmed
  BY OpAt DEF MarkUsed
<1>3. op' = [op EXCEPT ![o] = work]
  BY DEF MarkUsed, Typed
<1>4. work \in Confirmed /\ work.secret = op[o].secret
  BY <1>2 DEF Confirmed
<1>5. work \in OpWork /\ Fits(work)
  BY <1>2, <1>4 DEF OpWork, PasswordIsLast, Fits, Confirmed, Editing
<1> HIDE DEF work
<1>6. op' \in [Ops -> OpWork] /\ \A p \in Ops : Fits(op'[p])
  BY <1>3, <1>5, OpStarts
<1>7. resetToken' \in [ResetTokens -> Token]
  BY <1>2 DEF MarkUsed, Typed, Token, Confirmed
<1> QED  BY <1>1, <1>6, <1>7, QuietKeeps DEF MarkUsed

LEMMA ChangeLoadKeeps ==
    ASSUME SessionsInv, NEW o \in Ops, ChangeLoad(o)
    PROVE  SessionsInv'
<1> USE DEF SessionsInv
<1>1. OnlyCloses
  BY StayingCloses DEF ChangeLoad
<1>2. [pc |-> "change"] \in Closing
  BY DEF Closing
<1>3. op' \in [Ops -> OpWork] /\ \A p \in Ops : Fits(op'[p])
  BY <1>2, BareFits, OpStarts DEF ChangeLoad
<1> QED  BY <1>1, <1>3, QuietKeeps DEF ChangeLoad, Typed

LEMMA EditLoadKeeps ==
    ASSUME SessionsInv, NEW o \in Ops, EditLoad(o)
    PROVE  SessionsInv'
<1> USE DEF SessionsInv
<1>1. OnlyCloses
  BY StayingCloses DEF EditLoad
<1>2. PICK what \in {"edit", "deactivate", "reactivate"} :
         op' = [op EXCEPT ![o] = [pc |-> what, row |-> account]]
  BY DEF EditLoad
<1>3. [pc |-> what, row |-> account] \in OpWork /\ Fits([pc |-> what, row |-> account])
  BY DEF OpWork, Editing, Confirmed, Typed, Fits, Locks, LoneLoginsCounted
<1>4. op' \in [Ops -> OpWork] /\ \A p \in Ops : Fits(op'[p])
  BY <1>2, <1>3, OpStarts
<1> QED  BY <1>1, <1>4, QuietKeeps DEF EditLoad, Typed

LEMMA RevokeAfterDeactivationKeeps ==
    ASSUME SessionsInv, NEW o \in Ops, RevokeAfterDeactivation(o)
    PROVE  SessionsInv'
<1> USE DEF SessionsInv
<1>1. OnlyCloses
  BY RevokeAllCloses DEF RevokeAfterDeactivation
<1>2. op' \in [Ops -> OpWork] /\ \A p \in Ops : Fits(op'[p])
  BY OpEnds DEF RevokeAfterDeactivation
<1> QED  BY <1>1, <1>2, QuietKeeps DEF RevokeAfterDeactivation, Typed

LEMMA RevokeBeforeDeletionKeeps ==
    ASSUME SessionsInv, NEW o \in Ops, RevokeBeforeDeletion(o)
    PROVE  SessionsInv'
<1> USE DEF SessionsInv
<1>1. OnlyCloses
  BY RevokeAllCloses DEF RevokeBeforeDeletion
<1>2. [pc |-> "delete"] \in Closing
  BY DEF Closing
<1>3. op' \in [Ops -> OpWork] /\ \A p \in Ops : Fits(op'[p])
  BY <1>2, BareFits, OpStarts DEF RevokeBeforeDeletion
<1> QED  BY <1>1, <1>3, QuietKeeps DEF RevokeBeforeDeletion, Typed

LEMMA CrashKeeps ==
    ASSUME SessionsInv, NEW o \in Ops, Crash(o)
    PROVE  SessionsInv'
<1> USE DEF SessionsInv
<1>1. OnlyCloses
  BY StayingCloses DEF Crash
<1>2. op' \in [Ops -> OpWork] /\ \A p \in Ops : Fits(op'[p])
  BY OpEnds DEF Crash
<1> QED  BY <1>1, <1>2, QuietKeeps DEF Crash, Typed

LEMMA HeldIsThere ==
    ASSUME Typed, Known, NEW s \in Sids, Held(s)
    PROVE  session[s] # NULL /\ session[s] \in Session
<1>1. ASSUME NEW t \in Tabs, tab[t] # Idle, tab[t].kind # "login", tab[t].cookie = s
      PROVE  session[s] # NULL
  <2>1. tab[t] \in Visiting \cup Refreshing \cup Answered
    BY <1>1, TabAt DEF TabWork, LoginWork, Failing, LoginAnswered
  <2> QED  BY <1>1, <2>1 DEF Known, Holds
<1>2. session[s] # NULL
  BY <1>1, SessionIsThere DEF Held, Known
<1> QED  BY <1>2, SessionIsThere

LEMMA AgeAccessKeeps ==
    ASSUME SessionsInv, NEW s \in Sids, AgeAccess(s)
    PROVE  SessionsInv'
<1> USE DEF SessionsInv
<1> DEFINE row == [session[s] EXCEPT !.access = IF @ = "fresh" THEN "closing" ELSE "expired"]
<1>1. session[s] # NULL /\ session[s] \in Session
  BY HeldIsThere DEF AgeAccess
<1>2. /\ row \in Session /\ row.revoked = session[s].revoked /\ row.secret = session[s].secret
      /\ row.slipped = session[s].slipped /\ row.end = session[s].end
  BY <1>1 DEF Session, Age
<1>3. session' = [session EXCEPT ![s] = row]
  BY DEF AgeAccess, Typed
<1> HIDE DEF row
<1>4. OnlyCloses
  BY <1>1, <1>2, <1>3, OneCloses
<1> QED  BY <1>4, QuietKeeps, OpsStay DEF AgeAccess, Typed

LEMMA ExpireSessionKeeps ==
    ASSUME SessionsInv, NEW s \in Sids, ExpireSession(s)
    PROVE  SessionsInv'
<1> USE DEF SessionsInv
<1> DEFINE row == [session[s] EXCEPT !.expired = TRUE]
<1>1. session[s] # NULL /\ session[s] \in Session
  BY HeldIsThere DEF ExpireSession
<1>2. /\ row \in Session /\ row.revoked = session[s].revoked /\ row.secret = session[s].secret
      /\ row.slipped = session[s].slipped /\ row.end = session[s].end
  BY <1>1 DEF Session
<1>3. session' = [session EXCEPT ![s] = row]
  BY DEF ExpireSession, Typed
<1> HIDE DEF row
<1>4. OnlyCloses
  BY <1>1, <1>2, <1>3, OneCloses
<1> QED  BY <1>4, QuietKeeps, OpsStay DEF ExpireSession, Typed

LEMMA ExpireTokenKeeps ==
    ASSUME SessionsInv, NEW k \in ResetTokens, ExpireToken(k)
    PROVE  SessionsInv'
<1> USE DEF SessionsInv
<1>1. OnlyCloses
  BY StayingCloses DEF ExpireToken
<1>2. resetToken' \in [ResetTokens -> Token]
  BY DEF ExpireToken, Typed, Token
<1> QED  BY <1>1, <1>2, QuietKeeps, OpsStay DEF ExpireToken, Typed

(* The steps that change the account or what is remembered of it.              *)
LEMMA LockEndsKeeps ==
    ASSUME SessionsInv, LockEnds
    PROVE  SessionsInv'
<1> USE DEF SessionsInv
<1>1. /\ account' \in Account /\ account'.password = account.password
      /\ account'.failedLoginCount = account.failedLoginCount /\ account'.lockedUntil = "past"
  BY DEF LockEnds, Unlocked, Typed, Account, Lock
<1>2. UNCHANGED <<session, resetToken, cookie, tab, seen>> /\ OnlyCloses
  BY StayingCloses DEF LockEnds
<1>3. op' \in [Ops -> OpWork] /\ \A o \in Ops : Fits(op'[o])
  <2> DEFINE copy(o) == [op[o] EXCEPT !.row = Unlocked(@)]
  <2>1. ASSUME NEW o \in Ops, HoldsRow(o)  PROVE copy(o) \in OpWork /\ Fits(copy(o))
    <3>1. op[o] \in Editing /\ op[o].row \in Account /\ Locks(op[o].row)
      BY <2>1, OpAt DEF HoldsRow, EditsFit, Editing
    <3>2. Unlocked(op[o].row) \in Account /\ Locks(Unlocked(op[o].row))
      BY <3>1, SessionsNull DEF Unlocked, Locks, Account, Lock
    <3>3. copy(o) \in Editing /\ copy(o).row = Unlocked(op[o].row)
      BY <3>1, <3>2 DEF Editing
    <3> QED  BY <3>2, <3>3 DEF Editing, Confirmed, OpWork, Fits
  <2>2. ASSUME NEW o \in Ops  PROVE op[o] \in OpWork /\ Fits(op[o])
    BY OpsStay, OpAt DEF Fits, PasswordIsLast, EditsFit
  <2>3. op' = [o \in Ops |-> IF HoldsRow(o) THEN copy(o) ELSE op[o]]
    BY DEF LockEnds
  <2> HIDE DEF copy
  <2> QED  BY <2>1, <2>2, <2>3
<1>4. Typed'
  BY <1>1, <1>2, <1>3 DEF Typed
<1>5. Known' /\ LoneFits'
  BY <1>2, KnownStays, LoneStays
<1>6. PasswordIsLast' /\ EditsFit' /\ IssuesFit' /\ ResetClosesOldSessions'
  BY <1>1, <1>2, <1>3 DEF PasswordIsLast, EditsFit, Fits, IssuesFit, Issuing, Excused,
     ResetClosesOldSessions, Live
<1>7. LoginsFit' /\ LoneLoginsCounted'
  BY <1>1, <1>2, SessionsNull DEF LoginsFit, SameCount, LoneLoginsCounted
<1> QED  BY <1>4, <1>5, <1>6, <1>7

LEMMA SoftRemoveKeeps ==
    ASSUME SessionsInv, NEW o \in Ops, SoftRemove(o)
    PROVE  SessionsInv'
<1> USE DEF SessionsInv
<1>1. /\ account' \in Account /\ account'.password = account.password
      /\ account'.failedLoginCount = account.failedLoginCount
      /\ account'.lockedUntil = account.lockedUntil
  BY DEF SoftRemove, Typed, Account
<1>2. UNCHANGED <<session, resetToken, cookie, tab, seen>> /\ OnlyCloses
  BY StayingCloses DEF SoftRemove
<1>3. op' \in [Ops -> OpWork] /\ \A p \in Ops : Fits(op'[p])
  BY OpEnds DEF SoftRemove
<1>4. Typed'
  BY <1>1, <1>2, <1>3 DEF Typed
<1>5. Known' /\ LoneFits'
  BY <1>2, KnownStays, LoneStays
<1>6. PasswordIsLast' /\ EditsFit' /\ IssuesFit' /\ ResetClosesOldSessions'
  BY <1>1, <1>2, <1>3 DEF PasswordIsLast, EditsFit, Fits, IssuesFit, Issuing, Excused,
     ResetClosesOldSessions, Live
<1>7. LoginsFit' /\ LoneLoginsCounted'
  BY <1>1, <1>2 DEF LoginsFit, SameCount, LoneLoginsCounted
<1> QED  BY <1>4, <1>5, <1>6, <1>7

LEMMA ChangePasswordKeeps ==
    ASSUME SessionsInv, NEW o \in Ops, ChangePassword(o)
    PROVE  SessionsInv'
<1> USE DEF SessionsInv
<1>1. seen.secrets \in 0 .. MaxSecrets /\ seen.secrets < MaxSecrets
  BY DEF ChangePassword, Typed, Seen
<1>2. /\ account' \in Account /\ account'.password = seen.secrets + 1
      /\ account'.failedLoginCount = account.failedLoginCount
      /\ account'.lockedUntil = account.lockedUntil
  BY <1>1, SessionsAssumption DEF ChangePassword, Typed, Account
<1>3. /\ seen' \in Seen /\ seen'.secrets = seen.secrets + 1
      /\ \A f \in {"streak", "racedLogin", "raced", "lost", "suspected", "overwrote", "resets",
                   "floor"} : seen'[f] = seen[f]
  BY <1>1, SessionsAssumption DEF ChangePassword, Typed, Seen
<1>4. UNCHANGED <<session, resetToken, cookie, tab>> /\ OnlyCloses
  BY StayingCloses DEF ChangePassword
<1>5. op' \in [Ops -> OpWork] /\ \A p \in Ops : Fits(op'[p])
  BY OpEnds DEF ChangePassword
<1>6. Typed'
  BY <1>2, <1>3, <1>4, <1>5 DEF Typed
<1>7. Known' /\ LoneFits'
  BY <1>3, <1>4, KnownStays, LoneStays
<1>8. PasswordIsLast' /\ EditsFit'
  <2>1. seen.floor \in Nat
    BY DEF Typed, Seen
  <2>2. ASSUME NEW p \in Ops, op'[p] \in Confirmed  PROVE op'[p].secret <= seen.secrets + 1
    BY <1>1, <1>5, <2>2 DEF Confirmed, Fits
  <2> QED  BY <1>1, <1>2, <1>3, <1>5, <2>1, <2>2 DEF PasswordIsLast, EditsFit, Fits
<1>9. IssuesFit' /\ ResetClosesOldSessions'
  BY <1>3, <1>4 DEF IssuesFit, Issuing, Excused, ResetClosesOldSessions, Live
<1>10. LoginsFit' /\ LoneLoginsCounted'
  BY <1>2, <1>3, <1>4 DEF LoginsFit, SameCount, LoneLoginsCounted
<1> QED  BY <1>6, <1>7, <1>8, <1>9, <1>10

LEMMA SetPasswordKeeps ==
    ASSUME SessionsInv, NEW o \in Ops, SetPassword(o)
    PROVE  SessionsInv'
<1> USE DEF SessionsInv
<1>1. seen.secrets \in 0 .. MaxSecrets /\ seen.secrets < MaxSecrets
  BY DEF SetPassword, Typed, Seen
<1> DEFINE last == seen.secrets + 1
           met  == Counting # {}
<1>0. last \in 0 .. MaxSecrets
  BY <1>1, SessionsAssumption
<1>3. met \in BOOLEAN /\ (~met => Counting = {})
  OBVIOUS
<1>4. /\ seen' = [seen EXCEPT !.streak = 0, !.racedLogin = met, !.secrets = last]
      /\ account' = [account EXCEPT !.password = last, !.failedLoginCount = 0,
                                    !.lockedUntil = NULL]
  BY DEF SetPassword, Typed, Seen
<1> HIDE DEF met, last
<1>2. /\ account' \in Account /\ account'.password = last /\ account'.failedLoginCount = 0
      /\ account'.lockedUntil = NULL
  BY <1>0, <1>4 DEF Typed, Account, Lock
<1>5. /\ seen' \in Seen /\ seen'.secrets = last /\ seen'.streak = 0
      /\ seen'.racedLogin = met /\ seen'.raced = seen.raced /\ seen'.lost = seen.lost
      /\ seen'.suspected = seen.suspected /\ seen'.overwrote = seen.overwrote
      /\ seen'.resets = seen.resets /\ seen'.floor = seen.floor
  BY <1>0, <1>3, <1>4 DEF Typed, Seen
<1>6. UNCHANGED <<session, resetToken, cookie, tab>> /\ OnlyCloses
  BY StayingCloses DEF SetPassword
<1> DEFINE work == [pc |-> "markUsed", token |-> op[o].token, secret |-> last]
<1>7. op[o] \in Confirming
  BY OpAt DEF SetPassword
<1>8. work \in OpWork /\ work.secret = last /\ work \notin Editing
  BY <1>0, <1>7 DEF OpWork, Confirming, Confirmed, Editing
<1>9. op' = [op EXCEPT ![o] = work]
  BY DEF SetPassword, last
<1> HIDE DEF work
<1>10. op' \in [Ops -> OpWork]
  BY <1>8, <1>9 DEF Typed
<1>11. Typed'
  BY <1>2, <1>5, <1>6, <1>10 DEF Typed
<1>12. Known' /\ LoneFits'
  BY <1>5, <1>6, KnownStays, LoneStays
<1>13. PasswordIsLast' /\ EditsFit'
  <2>1. seen.floor \in Nat
    BY DEF Typed, Seen
  <2>2. ASSUME NEW p \in Ops, op'[p] \in Confirmed  PROVE op'[p].secret <= last
    <3>1. CASE p = o
      BY <1>0, <1>8, <1>9, <3>1 DEF Typed
    <3>2. CASE p # o
      BY <1>1, <1>9, <2>2, <3>2 DEF Typed, PasswordIsLast, Confirmed, last
    <3> QED  BY <3>1, <3>2
  <2>3. EditsFit'
    BY <1>8, <1>9 DEF EditsFit, Typed, Confirmed, Editing
  <2> QED  BY <1>1, <1>2, <1>5, <2>1, <2>2, <2>3 DEF PasswordIsLast, last
<1>14. IssuesFit' /\ ResetClosesOldSessions'
  BY <1>5, <1>6 DEF IssuesFit, Issuing, Excused, ResetClosesOldSessions, Live
<1>15. LoginsFit'
  BY <1>3, <1>5, <1>6 DEF LoginsFit, Counting
<1>16. LoneLoginsCounted'
  BY <1>2, <1>5, SessionsAssumption DEF LoneLoginsCounted
<1> QED  BY <1>11, <1>12, <1>13, <1>14, <1>15, <1>16

LEMMA RevokeAfterResetKeeps ==
    ASSUME SessionsInv, NEW o \in Ops, RevokeAfterReset(o)
    PROVE  SessionsInv'
<1> USE DEF SessionsInv
<1>1. OnlyCloses /\ \A s \in Sids : ~Live(s)'
  BY RevokeAllCloses DEF RevokeAfterReset
<1>2. op[o] \in Confirmed /\ op[o].secret \in 0 .. MaxSecrets /\ op[o].secret <= seen.secrets
  BY OpAt DEF RevokeAfterReset, Confirmed, PasswordIsLast
<1> DEFINE floor == IF op[o].secret > seen.floor THEN op[o].secret ELSE seen.floor
<1>3. floor \in 0 .. MaxSecrets /\ floor <= seen.secrets
  BY <1>2 DEF Typed, Seen, PasswordIsLast
<1> DEFINE resets == seen.resets + 1
<1>4. /\ seen' = [seen EXCEPT !.resets = resets, !.floor = floor]
      /\ resets \in Nat
  BY DEF RevokeAfterReset, Typed, Seen
<1> HIDE DEF floor, resets
<1>5. /\ seen' \in Seen /\ seen'.secrets = seen.secrets /\ seen'.streak = seen.streak
      /\ seen'.racedLogin = seen.racedLogin /\ seen'.raced = seen.raced
      /\ seen'.lost = seen.lost /\ seen'.suspected = seen.suspected
      /\ seen'.overwrote = seen.overwrote
      /\ seen'.resets = resets /\ seen'.floor = floor
  BY <1>3, <1>4 DEF Typed, Seen
<1>6. UNCHANGED <<account, resetToken, cookie, tab>>
  BY DEF RevokeAfterReset
<1>7. op' \in [Ops -> OpWork] /\ \A p \in Ops : Fits(op'[p])
  BY OpEnds DEF RevokeAfterReset
<1>8. Typed'
  BY <1>1, <1>5, <1>6, <1>7 DEF Typed, OnlyCloses
<1>9. Known' /\ LoneFits'
  BY <1>1, <1>5, <1>6, KnownStays, LoneStays DEF OnlyCloses
<1>10. PasswordIsLast' /\ EditsFit' /\ ResetClosesOldSessions'
  BY <1>1, <1>3, <1>5, <1>6, <1>7 DEF PasswordIsLast, EditsFit, Fits, ResetClosesOldSessions
<1>11. IssuesFit'
  <2> SUFFICES ASSUME NEW t \in Tabs, Issuing(tab[t])  PROVE tab[t].began < seen.resets + 1
    <3>1. ASSUME NEW t \in Tabs, Issuing(tab[t]), tab[t].began < seen.resets + 1
          PROVE  tab[t].began <= seen.resets + 1
      <4>1. tab[t].began \in Nat
        BY <3>1, TabAt DEF Issuing, LoginWork, Refreshing
      <4> QED  BY <3>1, <4>1 DEF Typed, Seen
    <3> QED  BY <1>5, <1>6, <3>1 DEF IssuesFit, Issuing, Excused, resets
  <2>1. tab[t].began \in Nat
    BY TabAt DEF Issuing, LoginWork, Refreshing
  <2> QED  BY <2>1 DEF IssuesFit, Excused, Typed, Seen
<1>12. LoginsFit' /\ LoneLoginsCounted'
  BY <1>5, <1>6 DEF LoginsFit, SameCount, LoneLoginsCounted
<1> QED  BY <1>8, <1>9, <1>10, <1>11, <1>12

LEMMA EditSaveKeeps ==
    ASSUME SessionsInv, NEW o \in Ops, EditSave(o)
    PROVE  SessionsInv'
<1> USE DEF SessionsInv
<1> DEFINE pc  == op[o].pc
           row == op[o].row
<1>1. pc \in {"edit", "deactivate", "reactivate"} /\ row \in Account /\ Locks(row)
  BY OpAt DEF EditSave, HoldsRow, Editing, EditsFit
<1>2. /\ account' \in Account /\ account'.password = row.password
      /\ pc # "reactivate" => /\ account'.failedLoginCount = row.failedLoginCount
                              /\ account'.lockedUntil = row.lockedUntil
      /\ pc = "reactivate" => account'.failedLoginCount = 0
  <2>1. account' = Edited(pc, row)
    BY DEF EditSave
  <2>2. CASE pc = "edit"
    BY <1>1, <2>1, <2>2 DEF Edited
  <2>3. CASE pc = "deactivate"
    BY <1>1, <2>1, <2>3 DEF Edited, Account
  <2>4. CASE pc = "reactivate"
    BY <1>1, <2>1, <2>4 DEF Edited, Account, Lock
  <2> QED  BY <1>1, <2>2, <2>3, <2>4
<1> DEFINE met    == IF pc = "reactivate" THEN Counting # {}
                     ELSE seen.racedLogin \/ ~SameCount(row, account)
           stale  == seen.overwrote \/ account.password # row.password
           streak == IF pc = "reactivate" THEN 0 ELSE seen.streak
<1>3. /\ met \in BOOLEAN
      /\ ~met /\ pc = "reactivate" => Counting = {}
      /\ ~met /\ pc # "reactivate" => ~seen.racedLogin /\ SameCount(row, account)
  BY DEF Typed, Seen
<1>4. /\ stale \in BOOLEAN
      /\ ~stale => ~seen.overwrote /\ account.password = row.password
      /\ seen.overwrote => stale
  BY DEF Typed, Seen
<1>5. seen' = [seen EXCEPT !.streak = streak, !.racedLogin = met, !.overwrote = stale]
  BY DEF EditSave, Typed, Seen
<1>6. streak \in Nat /\ (pc = "reactivate" => streak = 0)
                     /\ (pc # "reactivate" => streak = seen.streak)
  BY DEF Typed, Seen
<1> HIDE DEF met, stale, streak
<1>7. /\ seen' \in Seen /\ seen'.secrets = seen.secrets /\ seen'.streak = streak
      /\ seen'.racedLogin = met /\ seen'.raced = seen.raced /\ seen'.lost = seen.lost
      /\ seen'.suspected = seen.suspected /\ seen'.overwrote = stale
      /\ seen'.resets = seen.resets /\ seen'.floor = seen.floor
  BY <1>3, <1>4, <1>5, <1>6 DEF Typed, Seen
<1>8. UNCHANGED <<session, resetToken, cookie, tab>> /\ OnlyCloses
  BY StayingCloses DEF EditSave
<1> DEFINE work == IF pc = "deactivate" THEN [pc |-> "revokeAfterDeactivation"] ELSE Idle
<1>9. work \in OpWork /\ Fits(work)
  BY BareFits DEF Closing
<1>10. op' = [op EXCEPT ![o] = work]
  BY DEF EditSave
<1> HIDE DEF work
<1>11. op' \in [Ops -> OpWork] /\ \A p \in Ops : Fits(op'[p])
  BY <1>9, <1>10, OpStarts
<1>12. Typed'
  BY <1>2, <1>7, <1>8, <1>11 DEF Typed
<1>13. Known' /\ LoneFits'
  BY <1>7, <1>8, KnownStays, LoneStays
<1>14. PasswordIsLast' /\ EditsFit'
  BY <1>2, <1>4, <1>7, <1>11 DEF PasswordIsLast, EditsFit, Fits
<1>15. IssuesFit' /\ ResetClosesOldSessions'
  BY <1>4, <1>7, <1>8 DEF IssuesFit, Issuing, Excused, ResetClosesOldSessions, Live
<1>16. LoginsFit'
  BY <1>2, <1>3, <1>7, <1>8 DEF LoginsFit, SameCount, Counting
<1>17. LoneLoginsCounted'
  <2>1. CASE pc = "reactivate"
    BY <1>2, <1>6, <1>7, <2>1, SessionsAssumption DEF LoneLoginsCounted
  <2>2. CASE pc # "reactivate"
    BY <1>1, <1>2, <1>3, <1>6, <1>7, <2>2 DEF LoneLoginsCounted, SameCount, Locks
  <2> QED  BY <2>1, <2>2
<1> QED  BY <1>12, <1>13, <1>14, <1>15, <1>16, <1>17

-----------------------------------------------------------------------------
(* The requests of the browser.                                              *)
Counts(work) == work.pc # "idle" /\ work.kind # "prefetch"

LEMMA BusyMoves ==
    ASSUME Typed, NEW t \in Tabs, NEW work \in TabWork, tab' = [tab EXCEPT ![t] = work]
    PROVE  /\ tab'[t] = work /\ \A u \in Tabs : u # t => tab'[u] = tab[u]
           /\ \A u \in Busy' : u # t => u \in Busy /\ u \in Tabs
           /\ \A u \in Busy : u # t => u \in Busy'
           /\ t \in Busy' <=> Counts(work)
           /\ t \in Busy <=> Counts(tab[t])
<1>1. tab'[t] = work /\ \A u \in Tabs : u # t => tab'[u] = tab[u]
  BY DEF Typed
<1> QED  BY <1>1 DEF Busy, Counts

(* A step of one request that writes neither the account nor what is remembered  *)
(* of it.                                                                  *)
Remembers ==
    /\ seen'.streak = seen.streak /\ seen'.racedLogin = seen.racedLogin
    /\ seen'.overwrote = seen.overwrote /\ seen'.secrets = seen.secrets
    /\ seen'.resets = seen.resets /\ seen'.floor = seen.floor

LEMMA TabStep ==
    ASSUME SessionsInv, NEW t \in Tabs, NEW work \in TabWork,
           tab' = [tab EXCEPT ![t] = work], UNCHANGED <<account, op>>, Remembers,
           work.pc # "loginFails",
           Issuing(work) => Excused(work)
    PROVE  PasswordIsLast' /\ EditsFit' /\ IssuesFit' /\ LoginsFit' /\ LoneLoginsCounted'
<1> USE DEF SessionsInv
<1>1. tab'[t] = work /\ \A u \in Tabs : u # t => tab'[u] = tab[u]
  BY BusyMoves
<1>2. PasswordIsLast' /\ EditsFit' /\ LoneLoginsCounted'
  BY DEF PasswordIsLast, EditsFit, LoneLoginsCounted, Remembers
<1>3. IssuesFit'
  BY <1>1 DEF IssuesFit, Issuing, Excused, Remembers
<1>4. LoginsFit'
  BY <1>1 DEF LoginsFit, SameCount, Remembers
<1> QED  BY <1>2, <1>3, <1>4

LEMMA ResetStays ==
    ASSUME ResetClosesOldSessions, OnlyCloses, Remembers
    PROVE  ResetClosesOldSessions'
  BY DEF ResetClosesOldSessions, OnlyCloses, Remembers, Live

(* A prefetch moves: for the browser that reads one page at a time nothing does. *)
LEMMA LoneApart ==
    ASSUME Typed, Known, LoneFits, NEW t \in Tabs, NEW work \in TabWork,
           tab' = [tab EXCEPT ![t] = work], t \notin Busy, ~Counts(work),
           cookie' \in {cookie, NULL}, OnlyCloses,
           seen'.raced = seen.raced, seen'.lost = seen.lost, seen'.suspected = seen.suspected
    PROVE  LoneFits'
<1>1. Busy' = Busy
  BY BusyMoves DEF Busy
<1>2. \A u \in Busy : u \in Tabs /\ tab'[u] = tab[u]
  BY BusyMoves DEF Busy
<1> SUFFICES ASSUME ~seen.raced, ~seen.lost
             PROVE  /\ ~seen.suspected
                    /\ \A u, v \in Busy : u = v
                    /\ \A u \in Busy : Clean(tab[u], session')
                    /\ cookie' # NULL /\ session'[cookie'].end = "rotated" =>
                          \E u \in Busy : tab[u].pc \in {"issue", "answered"}
  BY <1>1, <1>2 DEF LoneFits
<1>3. ASSUME NEW u \in Busy  PROVE Clean(tab[u], session')
  <2>1. Clean(tab[u], session) /\ u \in Tabs
    BY <1>2 DEF LoneFits
  <2>2. /\ tab[u] \in Visiting \cup Refreshing =>
              tab[u].cookie \in Sids /\ session[tab[u].cookie] # NULL
        /\ tab[u].pc = "answered" => tab[u].sid \in Sids /\ session[tab[u].sid] # NULL
    BY <2>1, TabAt DEF Known, Holds, Visiting, Refreshing, Answered, LoginAnswered
  <2> QED  BY <2>1, <2>2 DEF Clean, OnlyCloses
<1>4. cookie # NULL => cookie \in Sids /\ session[cookie] # NULL
  BY DEF Typed, Known
<1> QED  BY <1>3, <1>4 DEF LoneFits, OnlyCloses

(* The one request of a browser that waits for each answer moves.               *)
LEMMA LoneMoves ==
    ASSUME Typed, NEW t \in Tabs, NEW work \in TabWork, tab' = [tab EXCEPT ![t] = work],
           \A u \in Busy : u = t, ~seen'.suspected,
           Counts(work) => Clean(work, session'),
           cookie' # NULL /\ session'[cookie'].end = "rotated" =>
              Counts(work) /\ work.pc \in {"issue", "answered"}
    PROVE  LoneFits'
<1>1. /\ \A u \in Busy' : u = t
      /\ tab'[t] = work
      /\ t \in Busy' <=> Counts(work)
  BY BusyMoves
<1>2. \A u \in Busy' : Clean(tab'[u], session')
  BY <1>1
<1> QED  BY <1>1, <1>2 DEF LoneFits

(* What a browser alone knows of its one request.                              *)
LEMMA LoneHas ==
    ASSUME SessionsInv, ~seen.raced, ~seen.lost, NEW t \in Tabs, Counts(tab[t])
    PROVE  /\ \A u \in Busy : u = t
           /\ ~seen.suspected
           /\ Clean(tab[t], session)
           /\ cookie # NULL /\ tab[t].pc \notin {"issue", "answered"} =>
                 session[cookie].end # "rotated"
<1>1. t \in Busy
  BY DEF Busy, Counts
<1> QED  BY <1>1 DEF SessionsInv, LoneFits

LEMMA LoginLoadKeeps ==
    ASSUME SessionsInv, NEW t \in Tabs, NEW right \in BOOLEAN, LoginLoad(t, right)
    PROVE  SessionsInv'
<1> USE DEF SessionsInv
<1>1. Typed' /\ Known'
  BY LoginLoadTyped
<1> DEFINE work == IF right THEN [pc |-> "loginSucceeds", kind |-> "login", slipped |-> FALSE,
                                  secret |-> account.password, began |-> seen.resets]
                   ELSE [pc |-> "loginFails", kind |-> "login", user |-> account]
           met  == seen.raced \/ Busy # {}
<1>2. tab' = [tab EXCEPT ![t] = work] /\ UNCHANGED <<account, session, resetToken, cookie, op>>
  BY DEF LoginLoad
<1>3. met \in BOOLEAN /\ (~met => ~seen.raced /\ Busy = {})
  BY DEF Typed, Seen
<1>4. seen' = [seen EXCEPT !.raced = met]
  BY DEF LoginLoad
<1>5. work \in LoginWork \cup Failing /\ work \in TabWork /\ work.kind = "login" /\ Counts(work)
  BY DEF Typed, Account, Seen, LoginWork, Failing, TabWork, Counts
<1>6. /\ work.pc = "loginFails" => work.user = account
      /\ Issuing(work) => work.began = seen.resets /\ work.secret = account.password
      /\ work.pc # "answered"
  BY DEF LoginLoad, Issuing
<1> HIDE DEF work, met
<1>7. /\ seen'.streak = seen.streak /\ seen'.overwrote = seen.overwrote
      /\ seen'.secrets = seen.secrets /\ seen'.resets = seen.resets /\ seen'.floor = seen.floor
      /\ seen'.raced = met /\ seen'.racedLogin = seen.racedLogin /\ seen'.lost = seen.lost
      /\ seen'.suspected = seen.suspected
  BY <1>3, <1>4 DEF Typed, Seen
<1>8. tab'[t] = work /\ \A u \in Tabs : u # t => tab'[u] = tab[u]
  BY <1>2, <1>5, BusyMoves
<1>9. PasswordIsLast' /\ EditsFit'
  BY <1>2, <1>7 DEF PasswordIsLast, EditsFit
<1>10. IssuesFit'
  <2>1. Issuing(work) => Excused(work)
    BY <1>6 DEF Excused, PasswordIsLast, Typed, Account, Seen
  <2> QED  BY <1>7, <1>8, <2>1 DEF IssuesFit, Issuing, Excused
<1>11. ResetClosesOldSessions'
  BY <1>2, <1>7 DEF ResetClosesOldSessions, Live
<1>12. LoginsFit'
  BY <1>2, <1>6, <1>7, <1>8 DEF LoginsFit, SameCount
<1>13. LoneLoginsCounted'
  BY <1>2, <1>7 DEF LoneLoginsCounted
<1>14. LoneFits'
  <2>1. CASE met \/ seen.lost
    BY <1>7, <2>1 DEF LoneFits
  <2>2. CASE ~met /\ ~seen.lost
    <3>1. ~seen.suspected /\ (cookie # NULL => session[cookie].end # "rotated")
      BY <1>3, <2>2 DEF LoneFits
    <3>2. Clean(work, session')
      BY <1>5, <1>6, Apart DEF Clean
    <3> QED  BY <1>2, <1>3, <1>5, <1>7, <2>2, <3>1, <3>2, LoneMoves
  <2> QED  BY <1>3, <2>1, <2>2
<1> QED  BY <1>1, <1>9, <1>10, <1>11, <1>12, <1>13, <1>14

LEMMA RecordFailedLoginKeeps ==
    ASSUME SessionsInv, NEW t \in Tabs, RecordFailedLogin(t)
    PROVE  SessionsInv'
<1> USE DEF SessionsInv
<1>1. Typed' /\ Known'
  BY RecordFailedLoginTyped
<1>2. tab[t] \in Failing /\ tab[t].user \in Account
  BY TabAt DEF RecordFailedLogin, Failing
<1>3. Counts(tab[t]) /\ tab[t].kind = "login" /\ tab[t].pc = "loginFails"
  BY <1>2 DEF Counts, Failing
<1> DEFINE count == tab[t].user.failedLoginCount + 1
<1>4. /\ account'.password = account.password /\ account'.failedLoginCount = count
      /\ count >= MaxFailed => account'.lockedUntil = "future"
  BY DEF RecordFailedLogin, NextFailedCount, Typed, Account
<1> DEFINE others == seen.racedLogin \/ Counting # {t}
<1>0. /\ others \in BOOLEAN
      /\ ~others => ~seen.racedLogin /\ Counting = {t}
      /\ seen' = [seen EXCEPT !.streak = seen.streak + 1, !.racedLogin = others]
  BY DEF RecordFailedLogin, Typed, Seen
<1> HIDE DEF others
<1>5. /\ seen'.streak = seen.streak + 1 /\ seen'.overwrote = seen.overwrote
      /\ seen'.secrets = seen.secrets /\ seen'.resets = seen.resets /\ seen'.floor = seen.floor
      /\ seen'.raced = seen.raced /\ seen'.racedLogin = others
      /\ seen'.lost = seen.lost /\ seen'.suspected = seen.suspected
  BY <1>0 DEF Typed, Seen
<1>6. UNCHANGED <<session, resetToken, cookie, op>> /\ tab' = [tab EXCEPT ![t] = Idle]
  BY DEF RecordFailedLogin
<1>7. Idle \in TabWork /\ Idle.pc = "idle" /\ ~Counts(Idle) /\ ~Issuing(Idle)
  BY WorkIsTabWork DEF Idle, Counts, Issuing
<1>8. tab'[t] = Idle /\ \A u \in Tabs : u # t => tab'[u] = tab[u]
  BY <1>3, <1>6, <1>7, BusyMoves
<1>9. PasswordIsLast' /\ EditsFit' /\ ResetClosesOldSessions'
  BY <1>4, <1>5, <1>6 DEF PasswordIsLast, EditsFit, ResetClosesOldSessions, Live
<1>10. IssuesFit'
  BY <1>5, <1>7, <1>8 DEF IssuesFit, Issuing, Excused
<1>11. LoginsFit'
  BY <1>0, <1>5, <1>7, <1>8 DEF LoginsFit, Counting
<1>12. LoneLoginsCounted'
  <2>1. ~others => count = seen.streak + 1
    BY <1>0, <1>3 DEF LoginsFit, SameCount, LoneLoginsCounted
  <2> HIDE DEF count
  <2> QED  BY <1>4, <1>5, <2>1, SessionsNull DEF LoneLoginsCounted
<1>13. LoneFits'
  <2>1. CASE seen.raced \/ seen.lost
    BY <1>5, <2>1 DEF LoneFits
  <2>2. CASE ~seen.raced /\ ~seen.lost
    BY <1>3, <1>5, <1>6, <1>7, <2>2, LoneHas, LoneMoves
  <2> QED  BY <2>1, <2>2
<1> QED  BY <1>1, <1>9, <1>10, <1>11, <1>12, <1>13

LEMMA LoginResetKeeps ==
    ASSUME SessionsInv, NEW t \in Tabs, LoginReset(t)
    PROVE  SessionsInv'
<1> USE DEF SessionsInv
<1>1. Typed' /\ Known'
  BY LoginResetTyped
<1> DEFINE work == [tab[t] EXCEPT !.pc = "issue"]
<1>2. tab[t] \in LoginWork /\ tab[t].pc = "loginSucceeds"
  BY TabAt DEF LoginReset
<1>3. /\ work \in LoginWork /\ work.pc = "issue" /\ work.kind = "login"
      /\ work.secret = tab[t].secret /\ work.began = tab[t].began
      /\ work.slipped = tab[t].slipped
  BY <1>2 DEF LoginWork
<1>4. tab' = [tab EXCEPT ![t] = work]
  BY DEF LoginReset, Typed
<1>5. work \in TabWork /\ Counts(work)
  BY <1>3, WorkIsTabWork DEF Counts
<1>6. Counts(tab[t]) /\ tab[t].kind = "login"
  BY <1>2 DEF Counts, LoginWork
<1> HIDE DEF work
<1>7. account'.password = account.password /\ account'.failedLoginCount = 0
  BY DEF LoginReset, Typed, Account
<1> DEFINE others == Counting # {}
<1>0. /\ others \in BOOLEAN /\ (~others => Counting = {})
      /\ seen' = [seen EXCEPT !.streak = 0, !.racedLogin = others]
  BY DEF LoginReset
<1> HIDE DEF others
<1>8. /\ seen'.streak = 0 /\ seen'.overwrote = seen.overwrote
      /\ seen'.secrets = seen.secrets /\ seen'.resets = seen.resets /\ seen'.floor = seen.floor
      /\ seen'.raced = seen.raced /\ seen'.racedLogin = others
      /\ seen'.lost = seen.lost /\ seen'.suspected = seen.suspected
  BY <1>0 DEF Typed, Seen
<1>9. UNCHANGED <<session, resetToken, cookie, op>>
  BY DEF LoginReset
<1>10. tab'[t] = work /\ \A u \in Tabs : u # t => tab'[u] = tab[u]
  BY <1>3, <1>4, <1>5, <1>6, BusyMoves
<1>11. PasswordIsLast' /\ EditsFit' /\ ResetClosesOldSessions'
  BY <1>7, <1>8, <1>9 DEF PasswordIsLast, EditsFit, ResetClosesOldSessions, Live
<1>12. IssuesFit'
  <2>1. Excused(work)
    BY <1>2, <1>3 DEF IssuesFit, Issuing, Excused
  <2> QED  BY <1>8, <1>10, <2>1 DEF IssuesFit, Issuing, Excused
<1>13. LoginsFit'
  BY <1>0, <1>3, <1>8, <1>10 DEF LoginsFit, Counting
<1>14. LoneLoginsCounted'
  BY <1>7, <1>8, SessionsAssumption DEF LoneLoginsCounted
<1>15. LoneFits'
  <2>1. CASE seen.raced \/ seen.lost
    BY <1>8, <2>1 DEF LoneFits
  <2>2. CASE ~seen.raced /\ ~seen.lost
    <3>1. Clean(work, session')
      BY <1>3, <1>5, Apart DEF Clean
    <3> QED  BY <1>3, <1>4, <1>5, <1>6, <1>8, <2>2, <3>1, LoneHas, LoneMoves
  <2> QED  BY <2>1, <2>2
<1> QED  BY <1>1, <1>11, <1>12, <1>13, <1>14, <1>15

LEMMA IssueTokenPairKeeps ==
    ASSUME SessionsInv, NEW t \in Tabs, IssueTokenPair(t)
    PROVE  SessionsInv'
<1> USE DEF SessionsInv
<1>1. Typed' /\ Known'
  BY IssueTokenPairTyped
<1>2. PICK s \in Sids, work \in Answered \cup LoginAnswered :
              /\ session' = [session EXCEPT ![s] = NewRow(t)]
              /\ tab' = [tab EXCEPT ![t] = work]
              /\ work.kind = tab[t].kind /\ work.sid = s
              /\ work \in Answered => tab[t] \in Refreshing /\ work.cookie = tab[t].cookie
  BY IssueTokenPairMoves
<1>3. UNCHANGED <<account, resetToken, cookie, op, seen>> /\ Remembers /\ tab[t].pc = "issue"
  BY DEF IssueTokenPair, Remembers
<1>4. work \in TabWork /\ work.pc = "answered" /\ work.kind # "prefetch" /\ Counts(work)
  BY <1>2, WorkIsTabWork DEF Answered, LoginAnswered, Counts
<1>5. Counts(tab[t])
  BY <1>2, <1>3, <1>4 DEF Counts
<1>7. /\ session'[s] = NewRow(t) /\ NewRow(t).end = "none" /\ NewRow(t).secret = tab[t].secret
      /\ NewRow(t).slipped = (tab[t].slipped \/ tab[t].began < seen.resets)
      /\ \A r \in Sids : r # s => session'[r] = session[r]
  BY <1>2 DEF NewRow, Typed
<1>8. PasswordIsLast' /\ EditsFit' /\ IssuesFit' /\ LoginsFit' /\ LoneLoginsCounted'
  <2>1. ~Issuing(work)
    BY <1>4 DEF Issuing
  <2> QED  BY <1>2, <1>3, <1>4, <2>1, TabStep
<1>9. ResetClosesOldSessions'
  <2>1. tab[t].secret < seen.floor =>
          tab[t].slipped \/ tab[t].began < seen.resets \/ seen.overwrote
    BY <1>3 DEF IssuesFit, Issuing, Excused
  <2> QED  BY <1>3, <1>7, <2>1 DEF ResetClosesOldSessions, Live
<1>10. LoneFits'
  <2>1. CASE seen.raced \/ seen.lost
    BY <1>3, <2>1 DEF LoneFits
  <2>2. CASE ~seen.raced /\ ~seen.lost
    <3>1. Clean(work, session')
      BY <1>2, <1>4, <1>7, Apart DEF Clean
    <3> QED  BY <1>2, <1>3, <1>4, <1>5, <2>2, <3>1, LoneHas, LoneMoves
  <2> QED  BY <2>1, <2>2
<1> QED  BY <1>1, <1>8, <1>9, <1>10

LEMMA SendKeeps ==
    ASSUME SessionsInv, NEW t \in Tabs, NEW kind \in Kind, Send(t, kind)
    PROVE  SessionsInv'
<1> USE DEF SessionsInv
<1>1. Typed' /\ Known'
  BY SendTyped
<1> DEFINE work == [pc |-> "arrived", kind |-> kind, cookie |-> cookie]
           met  == seen.raced \/ (kind # "prefetch" /\ Busy # {})
<1>2. /\ tab' = [tab EXCEPT ![t] = work] /\ tab[t].pc = "idle" /\ cookie # NULL
      /\ UNCHANGED <<account, session, resetToken, cookie, op>>
  BY DEF Send
<1>3. work \in Visiting /\ work \in TabWork /\ work.pc = "arrived" /\ work.kind # "login"
      /\ work.cookie = cookie /\ (Counts(work) <=> kind # "prefetch")
  BY <1>2 DEF Typed, Visiting, TabWork, Counts, Kind
<1>4. met \in BOOLEAN /\ (~met => ~seen.raced /\ (kind # "prefetch" => Busy = {}))
      /\ (kind = "prefetch" => met = seen.raced)
  BY DEF Typed, Seen
<1>5. seen' = [seen EXCEPT !.raced = met]
  BY DEF Send
<1> HIDE DEF work, met
<1>6. Remembers /\ seen'.raced = met /\ seen'.lost = seen.lost /\ seen'.suspected = seen.suspected
  BY <1>4, <1>5 DEF Remembers, Typed, Seen
<1>7. PasswordIsLast' /\ EditsFit' /\ IssuesFit' /\ LoginsFit' /\ LoneLoginsCounted'
  <2>1. ~Issuing(work) /\ work.pc # "loginFails"
    BY <1>3 DEF Issuing
  <2> QED  BY <1>2, <1>3, <1>6, <2>1, TabStep
<1>8. OnlyCloses
  BY <1>2, StayingCloses
<1>9. ResetClosesOldSessions'
  BY <1>6, <1>8, ResetStays
<1>10. LoneFits'
  <2>1. CASE kind = "prefetch"
    <3>1. t \notin Busy
      BY <1>2 DEF Busy
    <3> QED  BY <1>2, <1>3, <1>4, <1>6, <1>8, <2>1, <3>1, LoneApart
  <2>2. CASE kind # "prefetch" /\ (met \/ seen.lost)
    BY <1>6, <2>2 DEF LoneFits
  <2>3. CASE kind # "prefetch" /\ ~met /\ ~seen.lost
    <3>1. ~seen.suspected /\ session[cookie].end # "rotated"
      BY <1>2, <1>4, <2>3 DEF LoneFits
    <3>2. Clean(work, session')
      BY <1>2, <1>3, <3>1, Apart DEF Clean
    <3> QED  BY <1>2, <1>3, <1>4, <1>6, <2>3, <3>1, <3>2, LoneMoves
  <2> QED  BY <1>4, <2>1, <2>2, <2>3
<1> QED  BY <1>1, <1>7, <1>9, <1>10

LEMMA MiddlewarePassesKeeps ==
    ASSUME SessionsInv, NEW t \in Tabs, MiddlewarePasses(t)
    PROVE  SessionsInv'
<1> USE DEF SessionsInv
<1>1. Typed' /\ Known'
  BY MiddlewarePassesTyped
<1> DEFINE work == [tab[t] EXCEPT !.pc = "render"]
<1>2. tab[t] \in Visiting /\ tab[t].pc = "arrived"
  BY TabAt DEF MiddlewarePasses, Arrived
<1>3. /\ work \in Visiting /\ work.pc = "render" /\ work.kind = tab[t].kind
      /\ work.kind # "login" /\ work.cookie = tab[t].cookie
  BY <1>2 DEF Visiting, Kind
<1>4. tab' = [tab EXCEPT ![t] = work] /\ UNCHANGED <<account, session, resetToken, cookie, op, seen>>
  BY DEF MiddlewarePasses, Typed
<1> HIDE DEF work
<1>5. work \in TabWork /\ (Counts(work) <=> Counts(tab[t])) /\ ~Issuing(work)
  BY <1>2, <1>3, WorkIsTabWork DEF Counts, Issuing
<1>6. Remembers /\ OnlyCloses
  BY <1>4, StayingCloses DEF Remembers
<1>7. PasswordIsLast' /\ EditsFit' /\ IssuesFit' /\ LoginsFit' /\ LoneLoginsCounted'
  BY <1>3, <1>4, <1>5, <1>6, TabStep
<1>8. ResetClosesOldSessions'
  BY <1>6, ResetStays
<1>9. LoneFits'
  <2>1. CASE ~Counts(tab[t])
    <3>1. t \notin Busy
      BY <2>1 DEF Busy, Counts
    <3> QED  BY <1>4, <1>5, <1>6, <2>1, <3>1, LoneApart
  <2>2. CASE Counts(tab[t]) /\ (seen.raced \/ seen.lost)
    BY <1>4, <2>2 DEF LoneFits
  <2>3. CASE Counts(tab[t]) /\ ~seen.raced /\ ~seen.lost
    <3>1. Clean(tab[t], session) /\ (cookie # NULL => session[cookie].end # "rotated")
          /\ (\A u \in Busy : u = t) /\ ~seen.suspected
      BY <1>2, <2>3, LoneHas
    <3>2. Clean(work, session')
      BY <1>2, <1>3, <1>4, <1>5, <3>1, Apart DEF Clean
    <3> QED  BY <1>4, <1>5, <2>3, <3>1, <3>2, LoneMoves
  <2> QED  BY <2>1, <2>2, <2>3
<1> QED  BY <1>1, <1>7, <1>8, <1>9

LEMMA RefreshLoadKeeps ==
    ASSUME SessionsInv, NEW t \in Tabs, RefreshLoad(t)
    PROVE  SessionsInv'
<1> USE DEF SessionsInv
<1>1. Typed' /\ Known'
  BY RefreshLoadTyped
<1>2. PICK work \in Refreshing :
              /\ tab[t] \in Visiting /\ tab[t].pc = "arrived" /\ tab[t].kind # "prefetch"
              /\ tab' = [tab EXCEPT ![t] = work]
              /\ work.pc \in {"reused", "refused", "rotate"}
              /\ work.kind = tab[t].kind /\ work.cookie = tab[t].cookie
              /\ session[work.cookie] # NULL
              /\ work.secret = session[work.cookie].secret /\ work.began = seen.resets
              /\ work.slipped = session[work.cookie].slipped
              /\ work.pc = "rotate" => ~session[work.cookie].revoked
  BY RefreshLoadMoves
<1>3. UNCHANGED <<account, session, resetToken, cookie, op>> /\ OnlyCloses
  BY StayingCloses DEF RefreshLoad
<1> DEFINE met == seen.suspected \/ session[tab[t].cookie].end = "rotated"
<1>4. /\ met \in BOOLEAN /\ seen' = [seen EXCEPT !.suspected = met]
      /\ met => seen.suspected \/ session[tab[t].cookie].end = "rotated"
  BY DEF RefreshLoad, Typed, Seen
<1> HIDE DEF met
<1>5. Remembers /\ seen'.raced = seen.raced /\ seen'.lost = seen.lost /\ seen'.suspected = met
  BY <1>4 DEF Remembers, Typed, Seen
<1>6. work \in TabWork /\ Counts(work) /\ Counts(tab[t]) /\ work.kind # "login"
      /\ work.cookie \in Sids
  BY <1>2, WorkIsTabWork DEF Counts, Refreshing
<1>7. Issuing(work) => Excused(work)
  <2> SUFFICES ASSUME work.pc = "rotate"  PROVE Excused(work)
    BY <1>2 DEF Issuing
  <2>1. Live(work.cookie)
    BY <1>2 DEF Live
  <2> QED  BY <1>2, <1>6, <2>1 DEF Excused, ResetClosesOldSessions, Typed, Seen
<1>8. PasswordIsLast' /\ EditsFit' /\ IssuesFit' /\ LoginsFit' /\ LoneLoginsCounted'
  BY <1>2, <1>3, <1>5, <1>6, <1>7, TabStep
<1>9. ResetClosesOldSessions'
  BY <1>3, <1>5, ResetStays
<1>10. LoneFits'
  <2>1. CASE seen.raced \/ seen.lost
    BY <1>5, <2>1 DEF LoneFits
  <2>2. CASE ~seen.raced /\ ~seen.lost
    <3>1. Clean(tab[t], session) /\ (cookie # NULL => session[cookie].end # "rotated")
          /\ (\A u \in Busy : u = t) /\ ~seen.suspected
      BY <1>2, <1>6, <2>2, LoneHas
    <3>2. session[work.cookie].end # "rotated" /\ ~met
      BY <1>2, <1>4, <3>1 DEF Clean
    <3>3. Clean(work, session')
      BY <1>2, <1>3, <1>6, <3>2, Apart DEF Clean
    <3> QED  BY <1>2, <1>3, <1>5, <1>6, <2>2, <3>1, <3>2, <3>3, LoneMoves
  <2> QED  BY <2>1, <2>2
<1> QED  BY <1>1, <1>8, <1>9, <1>10

LEMMA RevokeReusedKeeps ==
    ASSUME SessionsInv, NEW t \in Tabs, RevokeReused(t)
    PROVE  SessionsInv'
<1> USE DEF SessionsInv
<1>1. Typed' /\ Known'
  BY RevokeReusedTyped
<1>2. tab[t] \in Refreshing /\ tab[t].pc = "reused"
  BY TabAt DEF RevokeReused
<1>3. OnlyCloses
  BY RevokeAllCloses DEF RevokeReused
<1>4. PICK work \in Refreshing :
         /\ tab' = [tab EXCEPT ![t] = work]
         /\ work.pc = "refused" /\ work.kind = tab[t].kind /\ work.cookie = tab[t].cookie
  BY <1>2, <1>3, RefreshGoesOn DEF RevokeReused, OnlyCloses
<1>5. UNCHANGED <<account, resetToken, cookie, op, seen>> /\ Remembers
  BY DEF RevokeReused, Remembers
<1>6. work \in TabWork /\ Counts(work) /\ Counts(tab[t]) /\ ~Issuing(work)
      /\ work.kind # "login"
  BY <1>2, <1>4, WorkIsTabWork DEF Counts, Refreshing, Issuing
<1>7. PasswordIsLast' /\ EditsFit' /\ IssuesFit' /\ LoginsFit' /\ LoneLoginsCounted'
  BY <1>4, <1>5, <1>6, TabStep
<1>8. ResetClosesOldSessions'
  BY <1>3, <1>5, ResetStays
<1>9. LoneFits'
  <2>1. CASE seen.raced \/ seen.lost
    BY <1>5, <2>1 DEF LoneFits
  <2>2. CASE ~seen.raced /\ ~seen.lost
    <3>1. Clean(tab[t], session) /\ (cookie # NULL => session[cookie].end # "rotated")
          /\ (\A u \in Busy : u = t) /\ ~seen.suspected
      BY <1>2, <1>6, <2>2, LoneHas
    <3>2. work.cookie \in Sids /\ session[work.cookie] # NULL
      BY <1>2, <1>4 DEF Known, Holds, Refreshing
    <3>3. Clean(work, session')
      BY <1>2, <1>3, <1>4, <1>6, <3>1, <3>2, Apart DEF Clean, OnlyCloses
    <3>4. cookie # NULL => session'[cookie].end # "rotated"
      BY <1>3, <3>1 DEF OnlyCloses, Typed, Known
    <3> QED  BY <1>4, <1>5, <1>6, <2>2, <3>1, <3>3, <3>4, LoneMoves
  <2> QED  BY <2>1, <2>2
<1> QED  BY <1>1, <1>7, <1>8, <1>9

LEMMA RotateKeeps ==
    ASSUME SessionsInv, NEW t \in Tabs, Rotate(t)
    PROVE  SessionsInv'
<1> USE DEF SessionsInv
<1>1. Typed' /\ Known'
  BY RotateTyped
<1> DEFINE s == tab[t].cookie
<1>2. /\ tab[t] \in Refreshing /\ s \in Sids /\ tab[t].pc = "rotate"
      /\ session' = [session EXCEPT ![s] = RotatedRow(session[s])]
      /\ RotatedRow(session[s]).revoked
      /\ \A r \in Sids : session[r] # NULL => session'[r] # NULL
  BY RotateMoves DEF Rotate
<1>3. UNCHANGED <<account, resetToken, cookie, op, seen>> /\ Remembers
  BY DEF Rotate, Remembers
<1>4. PICK work \in Refreshing :
         /\ tab' = [tab EXCEPT ![t] = work]
         /\ work.pc = "issue" /\ work.kind = tab[t].kind /\ work.cookie = tab[t].cookie
         /\ work.secret = tab[t].secret /\ work.began = tab[t].began
         /\ work.slipped = tab[t].slipped
  BY <1>2, <1>3, RefreshGoesOn DEF Rotate
<1>5. work \in TabWork /\ Counts(work) /\ Counts(tab[t]) /\ work.kind # "login"
  BY <1>2, <1>4, WorkIsTabWork DEF Counts, Refreshing
<1>6. Excused(work)
  BY <1>2, <1>4 DEF IssuesFit, Issuing, Excused
<1>7. PasswordIsLast' /\ EditsFit' /\ IssuesFit' /\ LoginsFit' /\ LoneLoginsCounted'
  BY <1>3, <1>4, <1>5, <1>6, TabStep
<1>8. ResetClosesOldSessions'
  <2>1. ASSUME NEW r \in Sids, Live(r)'  PROVE session'[r] = session[r]
    BY <1>2, <2>1 DEF Live, Typed
  <2> QED  BY <1>3, <2>1 DEF ResetClosesOldSessions, Live
<1>9. LoneFits'
  <2>1. CASE seen.raced \/ seen.lost
    BY <1>3, <2>1 DEF LoneFits
  <2>2. CASE ~seen.raced /\ ~seen.lost
    <3>1. Clean(work, session')
      BY <1>4, <1>5, Apart DEF Clean
    <3> QED  BY <1>3, <1>4, <1>5, <2>2, <3>1, LoneHas, LoneMoves
  <2> QED  BY <2>1, <2>2
<1> QED  BY <1>1, <1>7, <1>8, <1>9

LEMMA SetCookieKeeps ==
    ASSUME SessionsInv, NEW t \in Tabs, SetCookie(t)
    PROVE  SessionsInv'
<1> USE DEF SessionsInv
<1>1. Typed' /\ Known'
  BY SetCookieTyped
<1> DEFINE work == [pc |-> "render", kind |-> tab[t].kind, cookie |-> tab[t].sid]
<1>2. tab[t] \in Answered /\ tab[t].pc = "answered"
  BY TabAt DEF SetCookie, LoginAnswered
<1>3. /\ tab' = [tab EXCEPT ![t] = work] /\ cookie' = tab[t].sid
      /\ UNCHANGED <<account, session, resetToken, op, seen>> /\ Remembers /\ OnlyCloses
  BY StayingCloses DEF SetCookie, Remembers
<1>4. work \in Visiting /\ work \in TabWork /\ work.kind # "login" /\ work.pc = "render"
      /\ ~Issuing(work) /\ Counts(work) /\ Counts(tab[t]) /\ work.cookie = tab[t].sid
  BY <1>2 DEF Answered, Visiting, Kind, TabWork, Issuing, Counts
<1> HIDE DEF work
<1>5. PasswordIsLast' /\ EditsFit' /\ IssuesFit' /\ LoginsFit' /\ LoneLoginsCounted'
  BY <1>3, <1>4, TabStep
<1>6. ResetClosesOldSessions'
  BY <1>3, ResetStays
<1>7. LoneFits'
  <2>1. CASE seen.raced \/ seen.lost
    BY <1>3, <2>1 DEF LoneFits
  <2>2. CASE ~seen.raced /\ ~seen.lost
    <3>1. Clean(tab[t], session) /\ (\A u \in Busy : u = t) /\ ~seen.suspected
      BY <1>4, <2>2, LoneHas
    <3>2. session[tab[t].sid].end # "rotated"
      BY <1>2, <3>1 DEF Clean
    <3>3. Clean(work, session')
      BY <1>3, <1>4, <3>2, Apart DEF Clean
    <3> QED  BY <1>3, <1>4, <2>2, <3>1, <3>2, <3>3, LoneMoves
  <2> QED  BY <2>1, <2>2
<1> QED  BY <1>1, <1>5, <1>6, <1>7

LEMMA LoggedInKeeps ==
    ASSUME SessionsInv, NEW t \in Tabs, LoggedIn(t)
    PROVE  SessionsInv'
<1> USE DEF SessionsInv
<1>1. Typed' /\ Known'
  BY LoggedInTyped
<1>2. tab[t].pc = "answered" /\ Counts(tab[t])
  BY DEF LoggedIn, Counts
<1>3. /\ tab' = [tab EXCEPT ![t] = Idle] /\ cookie' = tab[t].sid
      /\ UNCHANGED <<account, session, resetToken, op, seen>> /\ Remembers /\ OnlyCloses
  BY StayingCloses DEF LoggedIn, Remembers
<1>4. Idle \in TabWork /\ ~Issuing(Idle) /\ ~Counts(Idle) /\ Idle.pc # "loginFails"
  BY WorkIsTabWork DEF Idle, Issuing, Counts
<1>5. PasswordIsLast' /\ EditsFit' /\ IssuesFit' /\ LoginsFit' /\ LoneLoginsCounted'
  BY <1>3, <1>4, TabStep
<1>6. ResetClosesOldSessions'
  BY <1>3, ResetStays
<1>7. LoneFits'
  <2>1. CASE seen.raced \/ seen.lost
    BY <1>3, <2>1 DEF LoneFits
  <2>2. CASE ~seen.raced /\ ~seen.lost
    <3>1. Clean(tab[t], session) /\ (\A u \in Busy : u = t) /\ ~seen.suspected
      BY <1>2, <2>2, LoneHas
    <3>2. session[tab[t].sid].end # "rotated"
      BY <1>2, <3>1 DEF Clean
    <3> QED  BY <1>3, <1>4, <2>2, <3>1, <3>2, LoneMoves
  <2> QED  BY <2>1, <2>2
<1> QED  BY <1>1, <1>5, <1>6, <1>7

LEMMA ClearRefusedKeeps ==
    ASSUME SessionsInv, NEW t \in Tabs, ClearRefused(t)
    PROVE  SessionsInv'
<1> USE DEF SessionsInv
<1>1. Typed' /\ Known'
  BY ClearRefusedTyped
<1> DEFINE work == [pc |-> "render", kind |-> tab[t].kind, cookie |-> tab[t].cookie]
<1>2. tab[t] \in Refreshing /\ tab[t].pc = "refused"
  BY TabAt DEF ClearRefused
<1>3. /\ tab' = [tab EXCEPT ![t] = work] /\ cookie' = NULL
      /\ UNCHANGED <<account, session, resetToken, op, seen>> /\ Remembers /\ OnlyCloses
  BY StayingCloses DEF ClearRefused, Remembers
<1>4. work \in Visiting /\ work \in TabWork /\ work.kind # "login" /\ work.pc = "render"
      /\ ~Issuing(work) /\ Counts(work) /\ Counts(tab[t]) /\ work.cookie = tab[t].cookie
  BY <1>2 DEF Refreshing, Visiting, Kind, TabWork, Issuing, Counts
<1> HIDE DEF work
<1>5. PasswordIsLast' /\ EditsFit' /\ IssuesFit' /\ LoginsFit' /\ LoneLoginsCounted'
  BY <1>3, <1>4, TabStep
<1>6. ResetClosesOldSessions'
  BY <1>3, ResetStays
<1>7. LoneFits'
  <2>1. CASE seen.raced \/ seen.lost
    BY <1>3, <2>1 DEF LoneFits
  <2>2. CASE ~seen.raced /\ ~seen.lost
    <3>1. Clean(tab[t], session) /\ (\A u \in Busy : u = t) /\ ~seen.suspected
      BY <1>4, <2>2, LoneHas
    <3>2. session[tab[t].cookie].end # "rotated"
      BY <1>2, <3>1 DEF Clean
    <3>3. Clean(work, session')
      BY <1>3, <1>4, <3>2, Apart DEF Clean
    <3> QED  BY <1>3, <1>4, <2>2, <3>1, <3>3, LoneMoves
  <2> QED  BY <2>1, <2>2
<1> QED  BY <1>1, <1>5, <1>6, <1>7

LEMMA LoseKeeps ==
    ASSUME SessionsInv, NEW t \in Tabs, Lose(t)
    PROVE  SessionsInv'
<1> USE DEF SessionsInv
<1>1. Typed' /\ Known'
  BY LoseTyped
<1> DEFINE work == [pc |-> "render", kind |-> tab[t].kind, cookie |-> tab[t].cookie]
<1>2. tab[t] \in Refreshing \cup Answered
  BY TabAt DEF Lose, LoginWork, LoginAnswered
<1>3. /\ tab' = [tab EXCEPT ![t] = work]
      /\ UNCHANGED <<account, session, resetToken, cookie, op>> /\ OnlyCloses
  BY StayingCloses DEF Lose
<1>4. Remembers /\ seen'.lost
  BY DEF Lose, Remembers, Typed, Seen
<1>5. work \in TabWork /\ work.kind # "login" /\ work.pc = "render" /\ ~Issuing(work)
  BY <1>2 DEF Refreshing, Answered, Visiting, Kind, TabWork, Issuing
<1> HIDE DEF work
<1>6. PasswordIsLast' /\ EditsFit' /\ IssuesFit' /\ LoginsFit' /\ LoneLoginsCounted'
  BY <1>3, <1>4, <1>5, TabStep
<1>7. ResetClosesOldSessions' /\ LoneFits'
  BY <1>3, <1>4, ResetStays DEF LoneFits
<1> QED  BY <1>1, <1>6, <1>7

LEMMA RenderKeeps ==
    ASSUME SessionsInv, NEW t \in Tabs, Render(t)
    PROVE  SessionsInv'
<1> USE DEF SessionsInv
<1>1. Typed' /\ Known'
  BY RenderTyped
<1>2. tab[t] \in Visiting /\ tab[t].pc = "render" /\ tab[t].cookie \in Sids
  BY TabAt DEF Render, Visiting
<1>3. /\ tab' = [tab EXCEPT ![t] = Idle]
      /\ \/ cookie' \in {cookie, NULL}
         \/ cookie' = tab[t].cookie /\ tab[t].kind = "profile"
      /\ UNCHANGED <<account, session, resetToken, op, seen>> /\ Remembers /\ OnlyCloses
  BY StayingCloses DEF Render, Kept, Remembers
<1>4. Idle \in TabWork /\ ~Issuing(Idle) /\ ~Counts(Idle) /\ Idle.pc # "loginFails"
  BY WorkIsTabWork DEF Idle, Issuing, Counts
<1>5. PasswordIsLast' /\ EditsFit' /\ IssuesFit' /\ LoginsFit' /\ LoneLoginsCounted'
  BY <1>3, <1>4, TabStep
<1>6. ResetClosesOldSessions'
  BY <1>3, ResetStays
<1>7. LoneFits'
  <2>1. CASE ~Counts(tab[t])
    <3>1. t \notin Busy /\ tab[t].kind # "profile"
      BY <1>2, <2>1 DEF Busy, Counts
    <3> QED  BY <1>3, <1>4, <3>1, LoneApart
  <2>2. CASE Counts(tab[t]) /\ (seen.raced \/ seen.lost)
    BY <1>3, <2>2 DEF LoneFits
  <2>3. CASE Counts(tab[t]) /\ ~seen.raced /\ ~seen.lost
    <3>1. Clean(tab[t], session) /\ (cookie # NULL => session[cookie].end # "rotated")
          /\ (\A u \in Busy : u = t) /\ ~seen.suspected
      BY <1>2, <2>3, LoneHas
    <3>2. session[tab[t].cookie].end # "rotated"
      BY <1>2, <3>1 DEF Clean
    <3> QED  BY <1>3, <1>4, <2>3, <3>1, <3>2, LoneMoves
  <2> QED  BY <2>1, <2>2, <2>3
<1> QED  BY <1>1, <1>5, <1>6, <1>7

LEMMA LogoutKeeps ==
    ASSUME SessionsInv, NEW t \in Tabs, Logout(t)
    PROVE  SessionsInv'
<1> USE DEF SessionsInv
<1>1. Typed' /\ Known'
  BY LogoutTyped
<1>2. tab[t].pc = "render" /\ Counts(tab[t])
  BY DEF Logout, Counts
<1>3. /\ tab' = [tab EXCEPT ![t] = Idle] /\ cookie' = NULL
      /\ UNCHANGED <<account, resetToken, op, seen>> /\ Remembers /\ OnlyCloses
  BY LogoutCloses DEF Logout, Remembers
<1>4. Idle \in TabWork /\ ~Issuing(Idle) /\ ~Counts(Idle) /\ Idle.pc # "loginFails"
  BY WorkIsTabWork DEF Idle, Issuing, Counts
<1>5. PasswordIsLast' /\ EditsFit' /\ IssuesFit' /\ LoginsFit' /\ LoneLoginsCounted'
  BY <1>3, <1>4, TabStep
<1>6. ResetClosesOldSessions'
  BY <1>3, ResetStays
<1>7. LoneFits'
  <2>1. CASE seen.raced \/ seen.lost
    BY <1>3, <2>1 DEF LoneFits
  <2>2. CASE ~seen.raced /\ ~seen.lost
    BY <1>2, <1>3, <1>4, <2>2, LoneHas, LoneMoves
  <2> QED  BY <2>1, <2>2
<1> QED  BY <1>1, <1>5, <1>6, <1>7

-----------------------------------------------------------------------------
LEMMA InitFits ==
    ASSUME SessionsInit
    PROVE  SessionsInv
<1>1. /\ account.password = 1 /\ account.failedLoginCount = 0 /\ account.lockedUntil = NULL
      /\ account \in Account
  BY SessionsAssumption DEF SessionsInit, Account, Lock
<1>2. /\ session \in [Sids -> Session \cup {NULL}] /\ \A s \in Sids : session[s] = NULL
      /\ resetToken \in [ResetTokens -> Token]
  BY DEF SessionsInit, Token
<1>3. Idle \in TabWork /\ Idle \in OpWork /\ Idle \notin Confirmed /\ Idle.pc = "idle"
  BY DEF TabWork, OpWork, Confirmed, Idle
<1>4. /\ tab \in [Tabs -> TabWork] /\ \A t \in Tabs : tab[t] = Idle
      /\ op \in [Ops -> OpWork] /\ \A o \in Ops : op[o] = Idle
      /\ cookie = NULL
  BY <1>3 DEF SessionsInit
<1>5. /\ seen \in Seen /\ seen.streak = 0 /\ seen.secrets = 1 /\ seen.floor = 0
      /\ ~seen.suspected
  BY SessionsAssumption DEF SessionsInit, Seen
<1>6. Typed /\ Known
  BY <1>1, <1>2, <1>3, <1>4, <1>5, Apart DEF Typed, Known, Holds
<1>7. PasswordIsLast /\ IssuesFit /\ ResetClosesOldSessions
  BY <1>1, <1>2, <1>3, <1>4, <1>5 DEF PasswordIsLast, IssuesFit, Issuing, ResetClosesOldSessions,
     Live
<1>8. Busy = {}
  BY <1>3, <1>4 DEF Busy
<1>9. LoginsFit /\ EditsFit /\ LoneLoginsCounted
  <2>1. Idle \notin Editing
    BY DEF Idle, Editing
  <2> QED  BY <1>1, <1>3, <1>4, <1>5, <2>1, SessionsAssumption
              DEF LoginsFit, EditsFit, LoneLoginsCounted
<1>10. LoneFits
  BY <1>4, <1>5, <1>8 DEF LoneFits
<1> QED  BY <1>6, <1>7, <1>9, <1>10 DEF SessionsInv

LEMMA StutterKeeps ==
    ASSUME SessionsInv, UNCHANGED sessionsVars
    PROVE  SessionsInv'
<1>1. UNCHANGED <<account, session, resetToken, cookie, tab, op, seen>>
  BY DEF sessionsVars
<1>2. OnlyCloses
  BY <1>1, StayingCloses DEF SessionsInv
<1> QED  BY <1>1, <1>2, QuietKeeps, OpsStay DEF SessionsInv, Typed

LEMMA NextKeeps ==
    ASSUME SessionsInv, SessionsNext
    PROVE  SessionsInv'
<1>1. ASSUME NEW t \in Tabs, Browser(t)  PROVE SessionsInv'
  <2>1. CASE \E right \in BOOLEAN : LoginLoad(t, right)
    BY <2>1, LoginLoadKeeps
  <2>2. CASE RecordFailedLogin(t)
    BY <2>2, RecordFailedLoginKeeps
  <2>3. CASE LoginReset(t)
    BY <2>3, LoginResetKeeps
  <2>4. CASE IssueTokenPair(t)
    BY <2>4, IssueTokenPairKeeps
  <2>5. CASE LoggedIn(t)
    BY <2>5, LoggedInKeeps
  <2>6. CASE \E kind \in Kind : Send(t, kind)
    BY <2>6, SendKeeps
  <2>7. CASE Refresh(t)
    BY <2>7, MiddlewarePassesKeeps, RefreshLoadKeeps, RevokeReusedKeeps, RotateKeeps,
       SetCookieKeeps, ClearRefusedKeeps, RenderKeeps DEF Refresh
  <2>8. CASE Lose(t)
    BY <2>8, LoseKeeps
  <2>9. CASE Logout(t)
    BY <2>9, LogoutKeeps
  <2> QED
    BY <1>1, <2>1, <2>2, <2>3, <2>4, <2>5, <2>6, <2>7, <2>8, <2>9 DEF Browser
<1>2. ASSUME NEW o \in Ops, Elsewhere(o)  PROVE SessionsInv'
  BY <1>2, ConfirmLoadKeeps, SetPasswordKeeps, MarkUsedKeeps, RevokeAfterResetKeeps,
     ChangeLoadKeeps, ChangePasswordKeeps, EditLoadKeeps, EditSaveKeeps,
     RevokeAfterDeactivationKeeps, RevokeBeforeDeletionKeeps, SoftRemoveKeeps, CrashKeeps
     DEF Elsewhere
<1>3. CASE LogoutAll \/ RequestPasswordReset \/ ForcePasswordReset
  BY <1>3, LogoutAllKeeps, NewResetTokenKeeps DEF RequestPasswordReset, ForcePasswordReset
<1>4. CASE Passing
  BY <1>4, LockEndsKeeps, AgeAccessKeeps, ExpireSessionKeeps, ExpireTokenKeeps DEF Passing
<1> QED  BY <1>1, <1>2, <1>3, <1>4 DEF SessionsNext

LEMMA SessionsInvHolds == SessionsSpec => []SessionsInv
<1>1. SessionsInit => SessionsInv
  BY InitFits
<1>2. SessionsInv /\ [SessionsNext]_sessionsVars => SessionsInv'
  BY StutterKeeps, NextKeeps
<1> QED  BY <1>1, <1>2, PTL DEF SessionsSpec

-----------------------------------------------------------------------------
(* The rows of the account keep their types, and the cookie of the browser     *)
(* names a session that was opened.                                         *)
THEOREM SessionsStayTyped == SessionsSpec => []SessionsTypeOK
<1>1. SessionsInv => SessionsTypeOK
  BY SessionIsThere DEF SessionsInv, Typed, Known, SessionsTypeOK, Token
<1> QED  BY <1>1, SessionsInvHolds, PTL

(* Whatever logins, rotations, edits and resets are in flight, a password reset  *)
(* that completes leaves open no session of an earlier password but those being  *)
(* issued meanwhile (AuthService.confirmPasswordReset).                      *)
THEOREM ResetsCloseSessions == SessionsSpec => []ResetClosesOldSessions
<1>1. SessionsInv => ResetClosesOldSessions
  BY DEF SessionsInv
<1> QED  BY <1>1, SessionsInvHolds, PTL

(* However many prefetches the browser sends beside its pages, and whatever is    *)
(* done elsewhere, a browser that waits for each answer and receives it never     *)
(* presents a rotated token (AuthService.refresh, EXG-10-032).               *)
THEOREM BrowserAloneTrusted == SessionsSpec => []LoneBrowserNeverSuspected
<1>1. SessionsInv => LoneBrowserNeverSuspected
  BY DEF SessionsInv, LoneFits, LoneBrowserNeverSuspected
<1> QED  BY <1>1, SessionsInvHolds, PTL

(* A count that reached MaxFailed never stands without a lock, whatever logins,   *)
(* resets and whole-row saves overlap; and it is that of the consecutive failures *)
(* unless a stale count was written (AuthService.login, recordFailedLogin).     *)
THEOREM FailuresCounted == SessionsSpec => []LoneLoginsCounted
<1>1. SessionsInv => LoneLoginsCounted
  BY DEF SessionsInv
<1> QED  BY <1>1, SessionsInvHolds, PTL

-----------------------------------------------------------------------------
(* The accounts, their administration and their lists side by side: a step of    *)
(* one of the three leaves the others alone.                                *)
AccountsInv == SessionsInv /\ DirectoryInv /\ ListingInv

LEMMA AccountsInvHolds == AccountsSpec => []AccountsInv
<1>1. AccountsInit => AccountsInv
  BY InitFits, DirectoryInitFits, ListingStarts DEF AccountsInit, AccountsInv, ListingInv
<1>2. AccountsInv /\ [AccountsNext]_accountsVars => AccountsInv'
  <2> SUFFICES ASSUME AccountsInv, [AccountsNext]_accountsVars  PROVE AccountsInv'
    OBVIOUS
  <2>1. SessionsInv /\ DirectoryInv /\ ListingInv
    BY DEF AccountsInv
  <2>2. /\ [SessionsNext]_sessionsVars
        /\ [DirectoryNext]_directoryVars
        /\ [ListingNext]_listingVars
    BY DEF AccountsNext, accountsVars
  <2>3. SessionsInv'
    BY <2>1, <2>2, StutterKeeps, NextKeeps
  <2>4. DirectoryInv'
    BY <2>1, <2>2, DirectoryNextKeeps
  <2>5. ListingInv'
    BY <2>1, <2>2, ListingSteps
  <2> QED  BY <2>3, <2>4, <2>5 DEF AccountsInv
<1> QED  BY <1>1, <1>2, PTL DEF AccountsSpec

(* Every row of the accounts, of their administration and of the lists keeps its  *)
(* type, and so does every call and every screen that works on them.         *)
THEOREM AccountsStayTyped == AccountsSpec => []AccountsTypeOK
<1>1. AccountsInv => AccountsTypeOK
  <2>1. SessionsInv => SessionsTypeOK
    BY SessionIsThere DEF SessionsInv, Typed, Known, SessionsTypeOK, Token
  <2>2. DirectoryInv => DirectoryTypeOK
    BY DEF DirectoryInv, DirectoryTyped, DirectoryTypeOK, InFlight
  <2>3. ListingInv => ListingTypeOK
    BY DEF ListingInv
  <2> QED  BY <2>1, <2>2, <2>3 DEF AccountsInv, AccountsTypeOK
<1> QED  BY <1>1, AccountsInvHolds, PTL
=============================================================================
