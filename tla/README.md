# Verification of MYTDFRIK's request workflow

MYTDFRIK is a support portal. Clients submit requests; the staff qualifies,
assigns and resolves them under service levels. The server is a NestJS API over
PostgreSQL (`src/apps/api`), in front of which sits a Next.js front end
(`src/apps/web`). This directory holds TLA+ models of the logic of both, the
TLC configurations that check them, and proofs checked by TLAPS.

Run everything from this directory:

    tlc -config MCLifecycle.cfg MCLifecycle     # one run, see the tables below
    tlapm RequestLifecycle_proofs.tla           # one proof module

## 1. Inventory

Paths are relative to `src/apps/api/src`, or to `src/apps/web/src` when they begin with `web/`.

| Component | State | Operations | Interacts with |
|---|---|---|---|
| State machine `requests/state-machine.ts` | none: a table of 16 transitions | `resolveClientReplyTarget`, `transitionsFrom` | read by the engine |
| Priorities `requests/priority-matrix.ts` | none | matrix, category floor, override bound, bump of a reopening | creation, T02, T19 |
| Transition engine `requests/transitions.service.ts` | tables `requests`, `request_state_history` | `apply` (every transition); `availableTransitions` reads | controller, messages, job; emits notification events |
| Request creation `requests/requests.service.ts` | inserts in `requests`, the history, bug details | `create`, direct assignment | engine's deadlines, reference counter, mail |
| Submission form `web/app/client/requests/new` | the fields and the step of a page | four steps, `submitRequestAction` | catalogue as it was, creation |
| Public reference (SQL function of a migration) | a counter per day | next reference | creation |
| Automatic closing `requests/expiration.service.ts` | the list of an ongoing run, in memory | `closeExpiredResolved`, each hour | engine (T17, one transaction each) |
| Service level calendar `requests/sla.ts` | none | `addBusinessMinutes`, `computeDeadlines`, `shiftResolutionForWaiting` | engine |
| Bug details `requests/bug-details.service.ts` | `request_bug_details` | creation, diagnostic | T11 requires the diagnostic |
| Messages `requests/messages.service.ts` | `request_messages` | post, list, withdraw, internal notes | a client's message may run CLIENT_REPLY in a second transaction |
| Evaluations `requests/evaluations.service.ts` | one row per request | submit once closed | alerts the managers of a low score |
| Attachments `requests/attachments.service.ts`, `storage/` | `request_attachments`, object storage, timers of the process | upload under a quota, scan, withdrawal, signed links | storage |
| Notifications `notifications/` | `notifications`, deliveries, preferences | dispatch after the commit, list, count, mark | engine's events, mail, gateway |
| Notification bell `web/components/notifications` | badge and panel of a page | open, click, mark all, live pushes | the API, the gateway |
| Mail `mail/mail.service.ts` | none | send | swallows transport errors |
| Users, organizations `users/` | `users`, `organizations` | create, activate, edit, deactivate, reactivate, delete | sessions, default assignee, T06 |
| Sessions `auth/auth.service.ts`, `web/middleware.ts` | `auth_sessions`, lockout columns of `users`, reset links, cookies | login, rotation, logout, resets, password | users |
| Roles `rbac/` | roles and permissions | create, edit, soft deletion | every guard |
| Lists and their screens `common/pagination`, `web/**/_components` | the address of a page | cursor lists; filter, search, sort, paginate | every table |
| Request screen `web/app/admin/requests/[reference]` and the client's | forms and panels of a page | what is offered, filled in, sent | engine, diagnostic, evaluation |
| Global search `search/`, `web/components/search` | text, list and selection of the palette | type, choose, late answers | requests, users, products |
| Catalogue, geography | reference tables | plain edition | creation, lists |
| Other pages, drafts, reporting, audit | see section 5 | | |

**What makes each correct, and what is hard about it**

* *Engine.* A row has some twenty columns, each written by some transitions and
  read by others many steps later: the marker of a wait, the responsible, the
  override, the deadlines, the milestones. A single transition is easy to test; the
  hazards are in long sequences (wait, answer, refusal, second wait, reopening,
  second qualification) and in overlapping transactions, which take no lock.
* *Services around it.* Almost every handler reads a row, waits, checks, waits, and saves
  the whole entity: what it checked may be stale when it writes, and what it loaded comes
  back. Two writes of one call are seldom in one transaction, so a stop in between leaves
  the first alone. What lives in the process (timers, events) dies with it.
* *Screens.* They act on what they read some time ago, several calls are in flight at
  once, and their answers come in any order.
* *Calendar, numbers.* Boundary instants of the working day, closed days, zero minutes; a
  formatting that truncates.

`PROJECT.json` lists the hazards one by one at the lines where they bite, with the
properties about them.

## 2. Modules

    RequestMachine   PriorityMatrix       pure tables and functions
            \           /
           TransitionEngine               refusals and effects, operators on a row
             /          \
    RequestLifecycle   TransitionTx       one call at a time | overlapping calls
          |
    RequestContract (abstract)            refined by RequestLifecycle

    MCLifecycle, MCTransitionTx           values of the constants for TLC
    TransitionEngine_proofs <- RequestLifecycle_proofs, TransitionTx_proofs, RequestPage_proofs
    Portal_proofs, Notifications_proofs <- RequestPage_proofs        Directory_proofs <- Sessions_proofs

**RequestMachine, PriorityMatrix** translate the table and the functions of
`state-machine.ts`, `priority-matrix.ts`, and the bump of `transitions.service.ts`.
A priority code is its rank in `PRIORITY_ORDER` (P0 is 0).

**TransitionEngine** splits `apply` in the guard `Accepts` (the exceptions, in their
order: reading scope, source status, expected status, actor, note, target, and those
raised by the effects), the row it saves (`Transitioned`, one operator per branch of
`applyEffects`) and the line it journals (`JournalEntry`). `NewRow` and
`AutoAssigned` are the rows of `RequestsService.create`. Abstracted: texts (a note is
its kind: absent, too short, right, too long for an override), the identity of who
qualified and assigned, labels. Time is counted in units, `Minute` of which make a
minute, because one computation rounds to whole minutes.
`AddBusinessMinutes` is a constant operator: the engine is checked and proved for a
calendar, and does not depend on the working hours.

**RequestLifecycle** is the system when calls reach the database one after the
other. Its variables are the tables (`requests`, `bug`, `journal`, `active`), the
job's list `candidates`, the clock `now`, and a history variable `waited`, the time
each request really spent in EN_ATTENTE_CLIENT. `journal` holds the newest line per
request: the action property `JournalIsAPath` speaks of the older ones through steps.
Actions: `Create` (queued or directly assigned), one per transition, `UpsertDiagnostic`,
`SelectExpired` and `T17` for the job, `Deactivate`, `Reactivate`, `Tick`. A refused
call rolls back and is a stuttering step; a candidate the engine refuses is dropped
from the job's list.

**TransitionTx** cuts a call at the points where another transaction can come in
between: `Display` (the user sees a status and asks for any transition), `Load` (`findOne` and every check),
`Compare` (TypeORM's `save` reads the row again and keeps the columns that differ),
`Commit` (UPDATE of those columns, journal line, commit). PostgreSQL is used at its
default isolation level, READ COMMITTED, and no lock or version column is used.
`Differences`, `Compare` and `Update` model TypeORM, external code.

**RequestContract** is what the component promises: queue, work by exactly one holder,
resolved, closed, back to the queue at most `MaxReopens` times, cancelled for good.
`PhaseMap`, `HolderMap`, `ReopensMap` in RequestLifecycle are the refinement mapping:
a waiting request is in the phase of the status it is suspended in.

### Around the engine

Each of the modules below is one component, cut at the awaits of its handlers: a call in
flight is a record with a program counter and what the call has read so far. A handler
checks, in one step, what it reads at once; what it writes in another statement is another
step. Fields such as `raced`, `crossed`, `alone`, `slipped`, `lost` are history: they say that
the one interleaving (or stop) the code leaves unguarded has happened, so that a property
holds exactly up to that interleaving, and says which one it is.

| Module | State, and the code it stands for | Actions |
|---|---|---|
| `Sessions` | `account` (password, counter, lock), `session` (rows, with the age of the access token), `token` (reset links), `cookie`, `tab`, `op` (calls in flight) | login in its four awaits, the rotation of `middleware.ts` and `refresh`, logout (a post like another, which the middleware may refresh first), forgotten and forced reset, change of password, whole-row saves of the account |
| `Directory` | `user`, `role`, `organization`, the calls in flight | creation and its activation link, edit, closing, opening and deletion of users; create, edit, delete of roles, each permission written after the role; default assignee; interruption anywhere |
| `Conversation` | `request` (status and number of waits), `thread`, `evaluation`, `post` | a message (blank or not) in `LoadForMessage`, `SaveMessage`, `Reply` (the second transaction, whose every refusal or failure is swallowed), `Emit`, `Answered`; an evaluation in `LoadForEvaluation`, `SaveEvaluation`, `Alert`; `Withdraw`; `Move` and `DirectReply` for the transitions others run |
| `Attachments` | `file` (rows), `upload`, `timers` and `scan` (memory of the process), `withdrawal`, `signed`, `download` | quota, storage, row, timer, scan in two steps, withdrawal in two, links, `Restart` |
| `Notifications` | `event`, `inApp` (rows), `mailed`, `assignee`, `active`, `muted`, `invalidMail` | `EmitEvent`, `Resolve` (recipients), `Deliver` or `DeliveryFails` per recipient, `Stop`, `Change` |
| `Inbox` | `note` (rows), `bell`, `pushed`, calls of the bell | the API's three operations and the bell's three clicks, answers in any order |
| `Submission` | `catalog`, `form`, `call` (creations in flight), `counter`, `stored` | the page (whose reads may fail), the four steps of the form, its action by the button or by Enter in the title, any number of times; a creation in `CheckCategory`, `BeginTransaction` (which fixes the day), `TakeReference` (row lock), `Insert` |
| `Sla` | `asked`, a start and a number of minutes | `Lengthen`; `addBusinessMinutes` as a recursive function over days, `StopsAt` for the 31 turns of `nextBusinessInstant` |
| `RequestScreen` | `row`, `bug`, `now`, one `screen` per viewer | read the request, then the panels, each read of which may fail and fall back; open and fill in a form, send it, diagnose, evaluate; acceptance and effects are those of `TransitionEngine` |
| `Palette` | `palette`, `searches` in flight | type, pause, answers and failures in any order, arrows, Enter |
| `Listing` | `table`, `reader` (a walk by cursors, or a screen) | saves, removals, `StartWalk`, `FollowCursor`; a screen's search, filters, sort, size and pages, and the calls it renders from, which may fail |

`Sessions` has no instant: an access token is fresh, closing or expired, a lock in the future
or in the past, and `Passing` moves them on. `Conversation` counts waits because the code does
not: comparing the status cannot tell the second EN_ATTENTE_CLIENT from the first.
`Notifications` keeps for each event the people it concerned when it was emitted, which the
dispatch, reading later, may no longer find, and, person by person, whom something
`disturbed` before it ended. `Submission` counts the answers that were `lost` and the times Enter sent
the form `again` while it was being sent: the requests of a form are one more than those. `Listing` gives each list its real order and cursor:
`created_at` or `updated_at` truncated to the millisecond by the cursor, kept in full by the
database (`Millisecond` instants each). `Values` holds NULL, and
`Ordering` what ORDER BY of the database and `Array.sort` give, code outside the repository: the rank of an element is the
number of those before it. The order is a strict one (keys, then ids or places), which is what makes a stable sort of
it; the sort of the community modules is recursive through an operator, which the provers cannot expand.

`MCAccounts` (Sessions, Directory, Listing) and `MCServices` (the others) put components that
share no state in one run each: the variable `part` says which one a behaviour runs, the others
stay in one initial state, so the states add up instead of multiplying. What the components of
one run do to each other goes through the engine, whose moves `Conversation`, `Notifications`
and `RequestScreen` contain as far as they read them.

## 3. Runs

| Run | Checks | States |
|---|---|---|
| `lifecycle` (MCLifecycle.cfg) | `TypeOK`, `MarkerMatchesWait`, `HolderMatchesStatus`, `OverrideBoundedOnceQualified`, `JournalIsAPath`, `ImplementsContract` | 89,584 |
| `lifecycle_timed` (MCLifecycleTimed.cfg) | `WaitingAccounted`, `DeadlineGrantsWaiting`, `VerdictNetOfWaiting`, `MilestonesOrdered`, `ResolutionSettles` | 381,533 |
| `overlapping_calls` (MCTransitionTx.cfg) | `TxTypeOK`, `EdgesFromDisplayedStatus`, `UncontendedIsAtomic` | 425,833 |
| `accounts` (MCAccounts.cfg) | `AccountsTypeOK`; Sessions: `ResetClosesOldSessions`, `LoneBrowserNeverSuspected`, `LoneLoginsCounted`; Directory: `DeletionKeepsAnAdmin`, `RoleInUseIsKept`, `ClosedAccountsStayClosed`, `PermissionsAreThoseGiven`; Listing: `WalkReturnsEachRowOnce`, `ScreenShowsWhatMatches` | 1.11 million |
| `services` (MCServices.cfg) | `ServicesTypeOK`; Conversation: `AnswersResume`, `AnswersEndTheirWait`, `OneEvaluation`; Attachments: `QuotaHolds`, `InfectedNeverServed`, `PendingHasAScan`; Notifications: `ToldOnce`, `ConcernedAreTold`; Inbox: `BadgeIsExact`; Submission: `ReferencesWithoutGap`, `FormAgreesWithServer`, `ButtonSendsOnce`; Sla: `DeadlineLeavesItsMinutes`; RequestScreen: `OffersAreAccepted`; Palette: `EnterOpensWhatIsSearched` | 2.04 million |

What they show:

* After any sequence of calls, a request waits exactly when it remembers where to
  resume, has a responsible exactly from its assignment until it returns to the queue
  (also across a wait), and once out of the queue has a priority within one level of
  the computed one. Its journal is a path of the state machine. The whole is a
  behaviour of RequestContract.
* The waiting time, which the code calls an approximation because it is measured
  through `updated_at`, is exact. A deadline always grants the target and the waits, apart
  from less than a minute. For priorities in calendar time the verdict of T11 is the
  one the service level defines. The milestones that the indicators subtract are in order.
* A resolution nobody answers ends up closed.
* Under overlapping calls, every journalled transition is an edge of the table from
  the status its caller saw, reopenings stay bounded, and a call that no other
  transaction overtook is atomic, whatever was in flight.
* *Accounts.* A completed reset closes the sessions of the old password, rotations included,
  but for a login or rotation in flight. A browser that sends one request at a time and gets
  its answers is never mistaken for a thief. A count of failures at the limit never stands without a lock, and it is exact
  unless a failure or an edit wrote an older count.
  Roles keep their holders, closed accounts stay closed and a role has the permissions last
  given, up to overlaps. A walk by cursors misses and repeats no row that nobody saved, rows
  of one millisecond apart, and a screen's pages are never empty for nothing, failed calls apart.
* *Conversation.* A client's answer that says something resumes the request, unless it was read before the
  wait or its second transaction failed or never ran, and ends the wait it answers, unless the client has two
  calls in flight. One evaluation stays.
* *Attachments.* No file found infected is ever sent. The quota is exceeded only by overlapping
  uploads; only a restart or a withdrawal leaves a file pending for ever.
* *Notifications.* Nobody is told twice of one event; whoever it concerned at its emission is told and mailed
  as the table, their preferences and their address say, and nobody else, except those of whom something
  changed in between or whose own delivery failed; at rest the badge is right.
* *Submission.* References have no gap until the numbers outgrow their four digits, also when creations wait for
  each other across midnight; the form and the API refuse the same things as long as the catalogue
  stays; the button never sends a form twice, lost answers apart, but Enter does.
* *Calendar.* A deadline leaves exactly its minutes of opening, less than a minute apart, grows
  with the target and falls no earlier than the clock (`CalendarSound` below).
* *Screens.* What a page offers is accepted if nothing changed, with the exceptions `OffersAreAccepted` lists
  one by one; Enter in the palette opens what was searched once the answer is there.

**Runs that expect a violation.** Each states what a document or a comment says of the
program and what the code does not do.

| Run | Property | Behaviour found |
|---|---|---|
| `reopen_priority` | `ReopenNeverLowersPriority` | reopening a P0 request makes it P1 |
| `first_response_waiting` | `FirstResponseNetOfWaiting` | waiting before the qualification counts against the first response |
| `reopened_target` | `ReopenedCycleHasItsTarget` | the T02 of a reopened request dates the deadline from the creation again |
| `auto_close_delay` | `AutoCloseAfterDelay` | a candidate refused then resolved again before its turn is closed at once |
| `holder_active` | `HolderIsActive` | deactivating a user leaves its requests assigned to it |
| `simultaneous_calls` | `OnlyTheFirstSucceeds` | two calls that loaded the same status both succeed |
| `last_admin` | `LastActiveAdminIsNotDeleted` | two deletions, or a deletion and a closing, that overlap leave no active administrator |

### Read in the code, without a run of their own

These are the interleavings the history fields above excuse, or divergences met while
modelling. They are kept here so that a reader of a property knows what it leaves open.

* *Engine.* T19 changes the effective priority and leaves the override reason empty, where
  `05-priorisation.md:150` wants one whenever the two differ (hence `OverrideFits` says nothing
  of NOUVELLE); a second T02 replaces the verdict of the first response; through the race of
  `simultaneous_calls` a cancelled request can be overwritten. An expected status cannot tell
  a later stay in the same status from the one on the screen.
* *Accounts.* An edit of a profile loaded before a reset and saved after it restores the old
  password; likewise one undoes a deletion or a closing, and may unlock. An activation link
  opens an account closed meanwhile. Two edits of one role may leave a mixture of permissions; a role
  created again under the code of a removed one stays removed. The removal of an organization
  leaves its accounts. The removal of a country is soft, so the cascade on its cities that the comment of
  `countries.service.ts:110` announces never happens.
  A logout with an expired access token leaves the session alive. The end of a lock does not
  reset the counter, so that one more failure locks again, and failures count however far apart they are:
  `docs/cdc/10-securite-rgpd.md:26` (EXG-10-020) speaks of five failures within a window of 15 minutes, the
  code has none.
* *Conversation.* A CLIENT_REPLY that is refused or fails is swallowed, and the author of the message is told of
  a success. A message of blanks passes the length check, is saved empty and resumes nothing, because the engine
  wants a note, where T13 to T15 of `docs/cdc/04` ask for a message of the client only. The later of two
  overlapping evaluations overwrites the first, since the key of the row is the request.
* *Attachments.* Overlapping uploads exceed the quota; a restart forgets scans; a withdrawal that crosses a
  verdict brings PENDING back.
* *Notifications.* EMAIL is sent only inside the branch of IN_APP (`EXG-07-070`,
  `docs/cdc/07-notifications.md:104`); the assignee of a reopened request is never told, since T19
  empties the column the dispatch reads (`docs/cdc/04-cycle-vie-demande.md:148` and `07-notifications.md:44` name the
  initial Responsable); some events ask for a mail that has no template; a mail that
  failed is recorded as sent and not retried (`EXG-07-102`). The bell: a double click counts
  twice, a failed marking still counts, a failed count shows zero, a push that meets a loading is
  lost or counted twice, readings elsewhere show at the next opening only.
* *Submission.* A lost answer and a second try make two requests. So does Enter: `submitting` disables the buttons
  and nothing else, and a form whose only submit button is on its last step is submitted by Enter in the single
  text field of the description step, once everything is filled in, whatever is under way. The request of number 10,000 of a
  day collides, because `lpad` truncates. A category that stops asking for bug details drops
  them silently. Two refusals point at a field of a step that is not on the screen.
* *Screens.* A read that fails is shown as what it falls back on (`apiFetchOr`): a table without rows, the bugs
  screen without bugs because its categories could not be read, an evaluation to give where there is one, which the
  API then refuses. The staff's filter by assignee and the menus of the products keep no page. Lists are cut from the first 100 rows, assignees from the first 100 users. A form left open
  across a refresh is sent with the refreshed status. The lists of countries and cities are in the
  order of names, their cursor in that of creation, so walking them may skip rows; rows of one
  millisecond may be skipped anywhere. In the palette, before the answer, Enter opens a line of the earlier text,
  and failures look like an empty answer.

### Bounds, and why they are enough

* *One request* (`OneRequest`). Requests meet only in the clock, in the set of active
  accounts and in the job's list, from which they leave in any order: no transition
  reads another request's row. The theorems hold for any number.
* *Users*: a client, a staff member with every permission, another one who may only
  process and is the default assignee (in the timed run, the first one alone).
  One client is enough because
  CLIENT_OWNER and the reading scope only compare it with the owner; refusals leave no trace.
* *Submissions*: system priority 0 or 3 (`Urgent`, `Normal`): both ends of the
  override bound, of the bump and of calendar against business time; with or
  without structured bug.
* *Clock*: `MaxNow = 1` where time plays no part, else 4. With targets, reopening window
  and validation delay of one unit or one minute this leaves room for resolving
  early and late, waits before and after the qualification, a closing by the job and a
  reopening inside and outside its window. `Minute = 2` in the timed run makes
  the truncation to whole minutes happen.
* *Calendar*: open in even minutes, closed in odd ones, so that every
  deadline meets a closed stretch. `CalendarSoundInRange` checks on it the assumption of
  the proofs.
* *Deactivable*: the accounts that are (de)activated: all in `lifecycle` and
  `holder_active`, none in the timed runs, whose properties no account appears in.
* *Overlap*: two calls, which start as long as the journal has fewer than
  `MaxJournal = 3` lines, from each of four rows: new, in progress, closed once, closed
  twice (at the reopening bound). The two calls are interchangeable: TLC uses their
  symmetry, in safety properties only.
* *Sessions*: one account, since no query crosses accounts; two tabs, two calls from elsewhere, three
  sessions: a rotation and its rival, a reset and a login, with the session both come from.
  `MaxFailed = 2`: the failure before the lock and the one that locks. `Budgets` are alternatives, not
  products: each buys much of one kind of attempt (three requests of the browser; two logins, three failures
  and one call from elsewhere; three calls...) and little of the others.
* *Directory*: two overlapping calls, which every race here needs, over three accounts (two administrators and one to
  create), one custom role beside ADMIN and CLIENT, one organization; three calls at most in one behaviour.
* *Listing*: four rows over pages of one and two, so that a walk has a page before, one after and one in which a row
  changes; instants 0..3 with two to a millisecond, so that neighbours do and do not share one. A screen makes two
  choices while one row changes, or one choice with one of its calls failing.
* *Conversation*: two calls, and three messages without a wait or two messages with two. *Attachments*: two files that
  fit one by one and not together, one restart, one withdrawal. *Notifications*: two events of four kinds (assignment,
  answer, critical, reopening), two agents of whom one manages, at first assigned to the manager or to nobody, the
  author's address invalid until it is replaced, one change in between.
  *Inbox*: two notifications, two calls of the bell at once, one reading elsewhere or one fault.
* *Submission*: numbers of one digit in base 3 overflow after two, over two days; two calls of the form beside another caller; one edit of the catalogue, or one
  lost answer, or one failure (the theorems cover any number of each).
  *Sla*: two weeks of days of 12 units, 6 of them open, holidays at the edges and in the middle of a week, every start
  and every target up to more than six open days.
* *RequestScreen*: owner, colleague, a lead with all permissions and a junior with one; from every stage of a
  treatment, a refused one and a request reopened as often as it may be; two readings and two submissions, or one of
  each with a failing read and somebody else's step.
  *Palette*: terms of which one begins another, four keystrokes, one failure.
* *Symmetry*: tabs, operations and calls in `accounts`; nothing in them is ordered or chosen, and the run
  checks invariants only. `services` has none: its parts are small enough without.

### Fairness

`ResolutionSettles` assumes weak fairness of `Tick` (time passes), `SelectExpired` (the
scheduler fires each hour while the process is up) and `T17(r)` (the loop tries each
candidate; one that fails is logged and skipped). Nobody is obliged to answer, process or
close anything. It is stated for resolutions whose delay elapses before `MaxNow`.
The other components promise nothing that must happen without somebody calling, except what a process that may stop
would do (a scan, a dispatch): no fairness is assumed there, and the properties say instead in which states
nothing is still to come.

### Deadlock

`lifecycle` checks deadlock. The others say `CHECK_DEADLOCK FALSE` because their bounds
stop them: at `MaxNow` a cancelled or closed request has no transition left; past
`MaxJournal` no call starts; and in the sums a behaviour ends with its budget.

### Mutants

A definition named `X_Wrong` beside `X` carries a plausible bug. The model never uses it.
`PROJECT.json` names, for each property of a passing run, a mutant that breaks it.

## 4. Proofs

TLAPS proves, for all values of the constants that satisfy the named assumptions of each module:
`UsersAssumption`, `NullAssumption`, `SlaAssumption` (engine), `LifecycleAssumption`, `TxAssumption`;
`AttachmentsAssumption`, `ConversationAssumption`, `NotificationsAssumption`, `NotificationsBounds`,
`SubmissionAssumption`, `CatalogsAssumption`, `LimitAssumption`, `CalendarAssumption`, `ScreenAssumption`,
`StartsAssumption`, `InboxAssumption`, `SessionsAssumption`, `DirectoryAssumption`, `ListingAssumption`,
`PaletteAssumption`; and for each component one that NULL is none of its values (`AttachmentsNull`...).
TLC evaluates them all in the runs.

| Module | Theorem | Says |
|---|---|---|
| TransitionEngine_proofs | `TransitionKeepsRowConsistent` | one accepted transition keeps `RowFits` |
| | `SystemPriorityIsTheMostUrgent` | the computed priority is the minimum of matrix and category |
| RequestLifecycle_proofs | `TypeCorrect` | `Spec => []TypeOK` |
| | `RowsConsistent` | `MarkerMatchesWait` |
| | `HolderFollowsStatus` | `HolderMatchesStatus` |
| | `OverrideStaysBounded` | `OverrideBoundedOnceQualified` |
| | `MilestonesInOrder` | `MilestonesOrdered` |
| | `WaitingTimeExact` | `WaitingAccounted` |
| | `DeadlineKeepsItsGrant` | `DeadlineGrantsWaiting` |
| | `VerdictIsNetOfWaiting` | `VerdictNetOfWaiting` |
| | `JournalPath` | `JournalIsAPath` |
| | `EngineImplementsContract` | `ImplementsContract` |
| | `EngineHoldsExactlyInWork` | the contract's invariant on holders, of the rows of the engine |
| TransitionTx_proofs | `TxTypeCorrect` | `TxTypeOK` |
| | `CallsFollowTheTable` | `EdgesFromDisplayedStatus` |
| | `UncontendedCallsAreAtomic` | `UncontendedIsAtomic` |
| Portal_proofs | `AttachmentsTyped` | `AttachmentsTypeOK` |
| (Attachments, | `NoInfectedContentSent` | `InfectedNeverServed` |
| Sla, Submission) | `ScansAreNotForgotten` | `PendingHasAScan` |
| | `QuotaKept` | `QuotaHolds` |
| | `DeadlinesLeaveTheirMinutes` | `DeadlineLeavesItsMinutes` |
| | `DeadlinesAreNeverEarly` | the calendar of `sla.ts` satisfies `CalendarSound` |
| | `NumbersHaveNoGap` | `ReferencesWithoutGap` |
| | `FormAndServerAgree` | `FormAgreesWithServer` |
| | `TheButtonSendsOnce` | `ButtonSendsOnce` |
| RequestPage_proofs | `ConversationTyped` | types; nothing internal announced to the client |
| (Conversation, | `ClientAnswersResume` | `AnswersResume` |
| RequestScreen) | `AnswersEndTheWaitTheySaw` | `AnswersEndTheirWait` |
| | `EvaluationStays` | `OneEvaluation` |
| | `WhatIsOfferedIsAccepted` | `OffersAreAccepted` |
| | `ServicesStayTyped` | `ServicesTypeOK` |
| Notifications_proofs | `NotificationsTyped` | `NotificationsTypeOK` |
| (and Inbox) | `NobodyToldTwice` | `ToldOnce` |
| | `WhomItConcernsIsTold` | `ConcernedAreTold` |
| | `BadgeCountsTheUnread` | `BadgeIsExact` |
| Directory_proofs | `DirectoryStaysTyped` | types, and the rows every call in flight relies on |
| (and Listing, | `DeletionsKeepAnAdmin` | `DeletionKeepsAnAdmin` |
| Palette) | `HeldRolesAreKept` | `RoleInUseIsKept` |
| | `ClosingLasts` | `ClosedAccountsStayClosed` |
| | `RolesGrantOneSubmission` | `PermissionsAreThoseGiven` |
| | `ListingStaysTyped` | `ListingTypeOK` |
| | `WalksReturnEachRowOnce` | `WalkReturnsEachRowOnce` |
| | `ScreensShowWhatMatches` | `ScreenShowsWhatMatches` |
| | `EnterOpensWhatWasSearched` | `EnterOpensWhatIsSearched` |
| Sessions_proofs | `SessionsStayTyped` | `SessionsTypeOK` |
| | `ResetsCloseSessions` | `ResetClosesOldSessions` |
| | `BrowserAloneTrusted` | `LoneBrowserNeverSuspected` |
| | `FailuresCounted` | `LoneLoginsCounted` |
| | `AccountsStayTyped` | `AccountsTypeOK` |

The theorems about the components of `accounts` and `services` are about the specification of each
component; the runs check the same properties in the sum, where no step touches two components. That is itself
proved for the type invariants: `AccountsStayTyped` and `ServicesStayTyped` are about the sums, with the conjunction of
the invariants of the components as invariant.

`CalendarSound` says that `AddBusinessMinutes` gives an instant no earlier than the start plus the
minutes added. It is a hypothesis of the theorems of the lifecycle where deadlines are computed, because the engine is
proved for any calendar. `DeadlinesAreNeverEarly` is that fact of the function of `sla.ts`; the calendar
`RequestScreen` gives the engine (minutes of the clock) satisfies it too, and `RequestPage_proofs` proves so,
with the other assumptions of the engine, before it uses the engine's theorems.

*The arguments.* `TransitionEngine_proofs` describes each transition once, as the
relation `Effect` between the row before and after (which columns change, and to what);
everything else uses that relation and never unfolds the engine again.

* `RowFits` (marker, holder, override) is inductive on a row: the marker is needed for
  the holder, because an answered wait resumes in a status only the marker knows, and
  the holder of a waiting request depends on it.
* `WaitingAccounted` alone is not inductive. `WaitingInv` adds that no row is
  dated in the future (else a wait would be measured as zero) and that nothing has
  waited before its creation.
* `DeadlineGrantsWaiting` uses `WaitingInv` and that a recomputation starts at or after the
  creation. A recomputation truncates the whole accumulated wait once;
  a later wait is added exactly. So less than a minute is lost, however many waits there are.
* `MilestonesOrdered` and `VerdictNetOfWaiting` need to know how far a request is: `StagesFit` says for the status it is in,
  or resumes in, which milestones it has and in which order, that none is later than now, that a qualified request in
  calendar time is due exactly at creation plus target plus waits, and that a resolved one has the verdict of that.
* `JournalIsAPath` needs `JournalAtStatus`: the newest line ends at the request's status.
* The refinement splits on the transition codes: one step of the contract each, or a
  stuttering step for those that keep the phase. The contract's own invariant, proved on the contract, then
  comes back to the rows through the mapping (`EngineHoldsExactlyInWork`).
* `TxInv` says of each call in flight that what it will write is the transition of a row of
  the right type at the status its caller saw, and, while nobody else has committed since
  it loaded, that this row is the current one. From it follow the three theorems of
  TransitionTx, for any number of calls.
* `InfectedNeverServed` holds because a clean status always speaks for the content, wherever it is:
  in the row, in a verdict not yet written, in the copy a withdrawal took. `AttachmentsInv`
  says so of each file, and that a scan to come is the only one: two scans, one of which finds the object unreadable, would
  leave a stale verdict. Every action but a restart concerns one file, so `OthersKept` deals with
  the others once.
* `QuotaHolds` adds that an uncrossed upload is alone and that the room it saw is still there. It needs sums over finite
  sets, which the library's induction cannot give here: `Least` and `EveryNumber` get induction from
  well-founded sets of numbers, and the sums follow from it, over the sizes of sets. The
  invariant was first checked by TLC on three files (9.0 million states, outside the runs).
* `DeadlineLeavesItsMinutes`: between two openings nothing is open (`NextOpen`, `OpenStretch`), open instants of adjacent
  stretches add up (`CountsAdd`), and a turn of the loop takes a whole day off (`FromOpening`, by
  induction on the minutes). What the first day loses is the remainder of its division in minutes. That the recursion
  of `Advance` defines a function at all is `AdvanceIs`: from an opening every turn takes the same number of minutes, so
  the result can be written with `Iterates`, the powers of a function. The assumption on holidays keeps the
  search of 31 days long enough; the holidays of `sla.ts` are single fixed days.
* `ReferencesWithoutGap`: the numbers stored for a day are those from 1 to its counter as committed, and the row lock lets
  one creation of a day at most hold the next one. The day is the one the transaction began on, so the lock is
  that of the creation's own day, whatever day it is when it gets it. A number that has outgrown its digits is cut to one already borne,
  so it meets the unique index and is rolled back with the counter.
* `FormAgreesWithServer`: the catalogue an up-to-date form was opened with is the one the API reads. A history
  field, `form.current`, says whether anything was edited since; comparing the two catalogues would not do, as an
  edit and its reversal look alike while calls read what was between (checked by TLC with two
  edits outside the run, 2.76 million states). `ButtonSendsOnce` counts together the requests stored and the calls
  under way: they are at most the lost answers, the times Enter sent the form while it was being sent, and one while
  the form is being sent or has left (`SentOnce`). What is under way is what the form holds, because the steps
  that show the fields cannot be reached while it is being sent (`SentAsHeld`).
* `AnswersEndTheirWait` rests on two facts. In the table, nothing but CLIENT_REPLY leaves
  EN_ATTENTE_CLIENT, and only the owner may run it. And of two calls of the owner in flight
  neither counts as `alone`. So while an `alone` call holds a wait it read, nobody else can have
  ended that wait: `Waits` ties the number a call has seen to the number the request has had,
  `Answering` says the request is still in it. That nothing internal is announced to the client (in `ConversationTyped`)
  needs the messages to be numbered without a gap, so that a new one cannot take the place of one announced. The same `AloneTalking` gives `OneEvaluation`: whoever
  read that there was no evaluation, alone, still finds none when it saves.
* `OffersAreAccepted`: a page that is up to date shows the row and the diagnostic that are there, an open form is one that
  page offers, and every row on a screen satisfies `RowFits`.
* `ToldOnce` needs to know of the dispatches in flight: those a dispatch has left to tell are
  not told yet (`Dispatched`), and events are numbered without a gap (`EventsNumbered`), so that the
  rows of a new event are none. `ConcernedAreTold` adds, for each person that nothing `disturbed`, that the dispatch
  reads what the emission saw: the person is among those it has left if and only if among those `concerned`,
  with the same preferences and address, or has by now what was due (`Concerns`).
* `BadgeIsExact`: a call of the bell that nothing crossed is alone, and at rest a bell that has not drifted lacks only
  the pushes on their way; what the call has read so far says what its answer will set.
* *Directory*: an uncrossed call is alone in flight (`Alone`), and what it loaded or checked is still what the tables
  hold (`StillTrue`): the role it gives is live, the administrator it removes is not the last, nobody has the role it
  removes, the permissions it has read back are those of the role. What a crossed call holds is only known to exist.
* *Sessions*: three facts about secrets. The password of the account is the last one set unless an edit restored an
  earlier one (`PasswordIsLast`); a session about to be issued for an earlier password belongs to a call that began
  before the reset was complete (`IssuesFit`); a lone browser presents no token that was rotated, but for the moment
  between a rotation and the cookie of its answer (`LoneFits`). For the lockout, every row an attempt or an edit holds
  and will write back is one in which a count at the limit comes with a lock (`Locks`), so no stale write
  separates them; and unless a stale count was written, the counts held are that of the account (`LoginsFit`, `EditsFit`).
* *Listing*: `WalkFits` says that what a walk has given lies at or before its cursor and what it has still to give after it; an
  unsaved row does not move. For a screen, a strict order gives each row one rank (`Ordering`), a page shows the ranks
  from `(p - 1) * size + 1` to `p * size`, and these pages cover the rows and are apart.
* *Palette*: only the text in the field is being searched, because typing cancels what came before; a list called
  answered is the answer to that text, and the selection is one of its lines.

*Only model-checked*: `ResolutionSettles`, because liveness under fairness is out of the prover's reach.
The runs that expect a violation are TLC's alone.

## 5. What is not modelled

* *Audit journal*: one insert after each audited response, read by nothing but its own list.
* *Drafts*: one row per user, which the submission form does not use; no interaction.
* *Reporting*: read-only aggregates. The order of the milestones they subtract is `MilestonesOrdered`.
* *Mail*: the transport and the templates; to whom a mail is handed is in Notifications.
* *Delivery rows* of notifications, which nothing reads back.
* *Organizations and catalogue*: creation, uniqueness of codes and the columns no other component reads.
* *Other pages*: dashboards (the client's home shows the first six of fifty fetched requests, without a further
  page), forms of the administration, navigation; what a session or a list does to them is in
  Sessions and Listing.
* *Search*: the limit of six lines per group, and the text matching of the database.
* Wording, labels, formats. `deleted_at` of requests, which the API never writes.

## 6. Plan

Every invariant and action property that a passing run checks is now a theorem. What is left, in order:

1. The limit of the lists (100 rows) as an assignment meets it: the assignee beyond the first 100 users.
2. Organizations and the rest of the catalogue, with the columns other components do not read yet.
