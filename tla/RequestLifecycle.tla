-------------------------- MODULE RequestLifecycle --------------------------
(***************************************************************************)
(* The life of requests when the calls of the API and of the hourly job     *)
(* reach the database one after the other: RequestsService.create, one       *)
(* action per transition of TransitionsService.apply, the diagnostic of a    *)
(* bug, the (de)activation of users, and ExpirationService, whose selection  *)
(* of the expired requests and whose closings are separate steps.           *)
(*                                                                         *)
(* A refused call leaves no trace in the tables (the transaction rolls       *)
(* back): it is a stuttering step and has no action.                        *)
(***************************************************************************)
EXTENDS TransitionEngine, FiniteSets

CONSTANTS
    Requests,              \* request identifiers
    Submissions,           \* what is submitted: impact, urgency, default
                           \* priority of the category, structured bug or not
    DefaultAssignees,      \* members of Staff with role ADMIN or RESPONSABLE
    ValidationExpiry,      \* RESOLUTION_VALIDATION_EXPIRY_DAYS, in units
    Deactivable,           \* bound of the model: the accounts administrators
                           \* deactivate and reactivate
    MaxNow                 \* bound of the model: the last instant

ASSUME LifecycleAssumption ==
    /\ Submissions \subseteq (ImpactValue \X UrgencyValue \X Priority \X BOOLEAN)
    /\ DefaultAssignees \subseteq Staff
    /\ ValidationExpiry \in Nat
    /\ Deactivable \subseteq Users
    /\ MaxNow \in Nat

VARIABLES
    requests,    \* table requests: the rows by identifier
    bug,         \* table request_bug_details: its state for each request
    journal,     \* table request_state_history: the newest entry, per request
    active,      \* table users: those that exist and are active
    candidates,  \* the requests the running job has selected and not tried yet
    now,         \* the clock
    waited       \* history variable: time each request really spent waiting

vars == <<requests, bug, journal, active, candidates, now, waited>>

BugState == {"none", "undiagnosed", "diagnosed"}
NoEntry  == [code |-> "none", from |-> "none", to |-> "none"]

Created == DOMAIN requests

(* The columns a run can hold, with the journal read as its newest entry.   *)
TypeOK ==
    /\ Created \subseteq Requests
    /\ requests \in [Created -> Row]
    /\ bug \in [Requests -> BugState]
    /\ journal \in [Requests -> [code : JournalCode, from : RequestStatus,
                                 to : RequestStatus] \cup {NoEntry}]
    /\ active \subseteq Users
    /\ candidates \subseteq Created
    /\ now \in 0..MaxNow
    /\ waited \in [Requests -> Nat]

Init ==
    /\ requests = [r \in {} |-> NULL]
    /\ bug = [r \in Requests |-> "none"]
    /\ journal = [r \in Requests |-> NoEntry]
    /\ active = Users
    /\ candidates = {}
    /\ now = 0
    /\ waited = [r \in Requests |-> 0]

-----------------------------------------------------------------------------
(***************************************************************************)
(* Creation.  The organization's default assignee is any member of Staff    *)
(* or nobody: administrators change it at will.  An ineligible one leaves    *)
(* the request in the triage queue.                                        *)
(***************************************************************************)
Insert(r, row) ==
    requests' = [q \in Created \cup {r} |-> IF q = r THEN row ELSE requests[q]]

CanSubmit(r, client) == r \notin Created /\ client \in active

CreateInQueue(r, client, systemPriority, structuredBug) ==
    /\ CanSubmit(r, client)
    /\ Insert(r, NewRow(client, systemPriority, now))
    /\ bug' = [bug EXCEPT ![r] = IF structuredBug THEN "undiagnosed" ELSE "none"]
    /\ UNCHANGED <<journal, active, candidates, now, waited>>

(* T02 then T06 are journalled, so the newest entry is the T06.             *)
CreateAssigned(r, client, systemPriority, structuredBug, assignee) ==
    /\ CanSubmit(r, client)
    /\ assignee \in active
    /\ Insert(r, AutoAssigned(NewRow(client, systemPriority, now), assignee, now))
    /\ bug' = [bug EXCEPT ![r] = IF structuredBug THEN "undiagnosed" ELSE "none"]
    /\ journal' = [journal EXCEPT ![r] =
                      [code |-> "T06", from |-> "EN_ATTENTE_AFFECTATION",
                       to |-> "AFFECTEE"]]
    /\ UNCHANGED <<active, candidates, now, waited>>

Create(r) ==
    \E client \in Clients, s \in Submissions :
        LET systemPriority == computeSystemPriority(s[1], s[2], s[3])
        IN  \/ CreateInQueue(r, client, systemPriority, s[4])
            \/ \E assignee \in DefaultAssignees :
                   CreateAssigned(r, client, systemPriority, s[4], assignee)

-----------------------------------------------------------------------------
(***************************************************************************)
(* TransitionsService.apply, alone on the row: read, checks, effects, save   *)
(* and journal.  The caller sends the status the row has; a stale one is     *)
(* refused.                                                                *)
(***************************************************************************)
Save(r, row) == requests' = [requests EXCEPT ![r] = [row EXCEPT !.updatedAt = now]]

Apply(r, viewer, code, dto) ==
    /\ Accepts(viewer, code, requests[r], requests[r].status, dto, active, bug[r], now)
    /\ Save(r, Transitioned(code, requests[r], dto, now))
    /\ journal' = [journal EXCEPT ![r] = JournalEntry(code, requests[r])]

ByUser(r, code) ==
    /\ r \in Created
    /\ \E viewer \in active, dto \in DtoOf(code) : Apply(r, viewer, code, dto)
    /\ UNCHANGED <<bug, active, candidates, now, waited>>

T02(r) == ByUser(r, "T02")     \* qualify
T03(r) == ByUser(r, "T03")     \* ask the client, from the queue
T04(r) == ByUser(r, "T04")     \* cancelled by the client
T05(r) == ByUser(r, "T05")     \* rejected
T06(r) == ByUser(r, "T06")     \* assign
T07(r) == ByUser(r, "T07")     \* ask the client, once qualified
T08(r) == ByUser(r, "T08")     \* start processing
T09(r) == ByUser(r, "T09")     \* refuse the assignment
T10(r) == ByUser(r, "T10")     \* ask the client, while processing
T11(r) == ByUser(r, "T11")     \* propose a resolution
T12(r) == ByUser(r, "T12")     \* ask for a reassignment
T16(r) == ByUser(r, "T16")     \* the client accepts
T18(r) == ByUser(r, "T18")     \* the client refuses
T19(r) == ByUser(r, "T19")     \* the client reopens
ClientReply(r) == ByUser(r, "CLIENT_REPLY")

UpsertDiagnostic(r) ==
    /\ bug[r] # "none"
    /\ \E viewer \in active \cap Staff : "requests.process" \in Grants[viewer]
    /\ bug' = [bug EXCEPT ![r] = "diagnosed"]
    /\ UNCHANGED <<requests, journal, active, candidates, now, waited>>

-----------------------------------------------------------------------------
(***************************************************************************)
(* The hourly job.  It selects the requests resolved for long enough, then   *)
(* applies T17 to each of them in transactions of their own; what happens    *)
(* to a candidate in between is only checked through its status.  A refused  *)
(* candidate is logged and dropped.                                        *)
(***************************************************************************)
NoDto == [note |-> "none", level |-> 0, assignee |-> NULL]

Resolved(r) == r \in Created /\ requests[r].status = "RESOLUE"

Expired(r) ==
    /\ Resolved(r)
    /\ requests[r].resolvedAt + ValidationExpiry <= now

SelectExpired ==
    /\ candidates = {}
    /\ candidates' = {r \in Requests : Expired(r)}
    /\ candidates' # {}
    /\ UNCHANGED <<requests, bug, journal, active, now, waited>>

T17(r) ==
    /\ r \in candidates
    /\ candidates' = candidates \ {r}
    /\ IF Accepts(SYSTEM, "T17", requests[r], "RESOLUE", NoDto, active, bug[r], now)
       THEN /\ Save(r, Transitioned("T17", requests[r], NoDto, now))
            /\ journal' = [journal EXCEPT ![r] = JournalEntry("T17", requests[r])]
       ELSE UNCHANGED <<requests, journal>>
    /\ UNCHANGED <<bug, active, now, waited>>

-----------------------------------------------------------------------------
(* UsersService.deactivate and reactivate: no request is touched.           *)
Deactivate(u) ==
    /\ u \in active
    /\ active' = active \ {u}
    /\ UNCHANGED <<requests, bug, journal, candidates, now, waited>>

Reactivate(u) ==
    /\ u \notin active
    /\ active' = active \cup {u}
    /\ UNCHANGED <<requests, bug, journal, candidates, now, waited>>

Waiting(r) == r \in Created /\ requests[r].status = "EN_ATTENTE_CLIENT"

Tick ==
    /\ now < MaxNow
    /\ now' = now + 1
    /\ waited' = [r \in Requests |-> IF Waiting(r) THEN waited[r] + 1 ELSE waited[r]]
    /\ UNCHANGED <<requests, bug, journal, active, candidates>>

Next ==
    \/ \E r \in Requests :
          \/ Create(r)
          \/ T02(r) \/ T03(r) \/ T04(r) \/ T05(r) \/ T06(r) \/ T07(r)
          \/ T08(r) \/ T09(r) \/ T10(r) \/ T11(r) \/ T12(r)
          \/ T16(r) \/ T17(r) \/ T18(r) \/ T19(r)
          \/ ClientReply(r)
          \/ UpsertDiagnostic(r)
    \/ SelectExpired
    \/ \E u \in Deactivable : Deactivate(u) \/ Reactivate(u)
    \/ Tick

Spec == Init /\ [][Next]_vars

(* The clock runs, the scheduler starts the job and the job gets through its *)
(* list; nobody is obliged to act on a request.                            *)
Fairness ==
    /\ WF_vars(Tick)
    /\ WF_vars(SelectExpired)
    /\ \A r \in Requests : WF_vars(T17(r))

FairSpec == Spec /\ Fairness

-----------------------------------------------------------------------------
(***************************************************************************)
(* Safety.                                                                 *)
(***************************************************************************)

(* The marker previous_status_before_wait is set exactly while the request  *)
(* waits for its client, so the client's answer always finds where to       *)
(* resume and the engine's NO_PREVIOUS_STATUS refusal is unreachable.       *)
MarkerMatchesWait == \A r \in Created : MarkerFits(requests[r])

(* A request has a responsible exactly from its assignment until it goes    *)
(* back to the queue, also across a wait: no orphan in progress, and no     *)
(* queued request still attributed to someone (T06, T09, T12, T19).         *)
HolderMatchesStatus == \A r \in Created : HolderFits(requests[r])

(* waiting_client_total_ms, measured through updated_at, is the time really *)
(* spent waiting: nothing else writes the row during a wait.               *)
WaitingAccounted ==
    \A r \in Created :
        waited[r] = requests[r].waitingClientTotal
                    + (IF Waiting(r) THEN now - requests[r].updatedAt ELSE 0)

(* For a priority counted in calendar time, the verdict of T11 is the one   *)
(* the service level defines: resolved within the target after creation,    *)
(* time spent waiting for the client excluded, whatever the order of the    *)
(* waits and the qualifications that moved the deadline.                   *)
VerdictNetOfWaiting ==
    \A r \in Created :
        LET row == requests[r]
            net == row.resolvedAt - row.createdAt - waited[r]
        IN  row.status = "RESOLUE" /\ row.effectivePriority \in Is24x7 =>
              (row.isSlaResolutionRespected = "yes"
                  <=> net <= ResolutionTime(row.effectivePriority))

(* For every priority, a qualified request never has less than its target   *)
(* plus the time it has waited so far, up to the truncation to whole minutes *)
(* that shiftResolutionForWaiting makes, once and not at each wait.         *)
DeadlineGrantsWaiting ==
    \A r \in Created :
        LET row == requests[r]
        IN  row.slaDueResolutionAt # NULL =>
                row.slaDueResolutionAt + Minute > row.createdAt
                    + ResolutionTime(row.effectivePriority) + row.waitingClientTotal

(* The milestones the indicators subtract from one another are in order.    *)
MilestonesOrdered ==
    \A r \in Created :
        LET row == requests[r]
        IN  /\ row.status \in {"RESOLUE", "CLOTUREE"} =>
                  /\ row.qualifiedAt # NULL /\ row.firstResponseAt # NULL
                  /\ row.createdAt <= row.firstResponseAt
                  /\ row.firstResponseAt <= row.resolvedAt
                  /\ row.qualifiedAt <= row.resolvedAt
                  /\ row.lastReopenedAt # NULL => row.lastReopenedAt <= row.qualifiedAt
            /\ row.status = "CLOTUREE" => row.resolvedAt <= row.closedAt
            /\ row.lastReopenedAt # NULL <=> row.reopenCount > 0

(* Whatever the refusals and reopenings before, a request out of the queue  *)
(* has a priority within one level of the computed one, with a reason when  *)
(* they differ.                                                            *)
OverrideBoundedOnceQualified == \A r \in Created : OverrideFits(requests[r])

(* The journal is a path: each new entry starts where the previous one of   *)
(* the request ended, and the newest one ends at the request's status.      *)
JournalIsAPath ==
    [][\A r \in Requests :
          journal'[r] # journal[r] =>
              /\ journal'[r].to = requests'[r].status
              /\ journal[r] = NoEntry \/ journal'[r].from = journal[r].to]_vars

(***************************************************************************)
(* The promise: each request follows the contract of RequestContract.       *)
(***************************************************************************)
PhaseOf(status) ==
    CASE status \in {"NOUVELLE", "EN_ATTENTE_AFFECTATION"} -> "queue"
      [] status \in {"AFFECTEE", "EN_COURS"}               -> "work"
      [] status = "RESOLUE"                                -> "resolved"
      [] status = "CLOTUREE"                               -> "closed"
      [] status = "ANNULEE"                                -> "cancelled"

PhaseMap ==
    [r \in Requests |-> IF r \in Created THEN PhaseOf(StatusUnderWait(requests[r]))
                                         ELSE "absent"]
HolderMap ==
    [r \in Requests |-> IF r \in Created THEN requests[r].assignedTo ELSE NULL]
ReopensMap ==
    [r \in Requests |-> IF r \in Created THEN requests[r].reopenCount ELSE 0]

Contract == INSTANCE RequestContract WITH
    Holders <- Staff, MaxReopens <- MAX_REOPENS, Nobody <- NULL,
    phase <- PhaseMap, holder <- HolderMap, reopens <- ReopensMap

(* Every step of the engine is a step of the contract, or invisible to it.  *)
ImplementsContract == Contract!Spec

(***************************************************************************)
(* Liveness.                                                               *)
(***************************************************************************)

(* A resolution is not left pending for ever: once the validation delay has *)
(* room to elapse, the request leaves RESOLUE, closed by the job if the     *)
(* client says nothing.                                                    *)
ResolutionSettles ==
    \A r \in Requests :
        (Resolved(r) /\ requests[r].resolvedAt + ValidationExpiry <= MaxNow)
            ~> ~Resolved(r)

-----------------------------------------------------------------------------
(***************************************************************************)
(* What the documents say and the code does not do (runs that expect a      *)
(* violation).                                                             *)
(***************************************************************************)

(* EXG-03-081: reopening raises the priority by one level, never beyond P1.  *)
(* bumpPriorityCapP1 lowers P0 to P1.                                      *)
ReopenNeverLowersPriority ==
    [][\A r \in Created :
          requests'[r].reopenCount > requests[r].reopenCount =>
              requests'[r].effectivePriority <= requests[r].effectivePriority]_vars

(* EXG-04-020: the time spent waiting for the client does not count in the  *)
(* first response.  The verdict of the first T02 ignores it.                *)
FirstResponseNetOfWaiting ==
    [][\A r \in Created :
          LET row == requests'[r]
          IN  /\ requests[r].qualifiedAt = NULL /\ row.qualifiedAt # NULL
              /\ row.effectivePriority \in Is24x7
              => (row.isSlaFirstResponseRespected = "yes"
                    <=> now - row.createdAt - waited[r]
                            <= FirstResponseTime(row.effectivePriority))]_vars

(* EXG-03-081: a reopening starts a new cycle, and the deadline T19 computes *)
(* from the reopening is the one that stays (05-priorisation 5.8).  The T02  *)
(* of the new cycle dates the deadline from the creation again.             *)
ReopenedCycleHasItsTarget ==
    \A r \in Created :
        LET row == requests[r]
        IN  row.lastReopenedAt # NULL =>
                row.slaDueResolutionAt >= row.lastReopenedAt
                                          + ResolutionTime(row.effectivePriority)

(* T17 closes requests resolved for the whole validation delay.  The job     *)
(* checks the delay when it selects, and only the status when it closes.     *)
AutoCloseAfterDelay ==
    \A r \in Created :
        requests[r].status = "CLOTUREE" /\ journal[r].code = "T17" =>
            requests[r].closedAt >= requests[r].resolvedAt + ValidationExpiry

(* EXG-04-040: a request whose responsible is deactivated goes back to      *)
(* NOUVELLE.  UsersService.deactivate touches no request.                   *)
HolderIsActive ==
    \A r \in Created :
        requests[r].status \in {"AFFECTEE", "EN_COURS"} =>
            requests[r].assignedTo \in active
=============================================================================
