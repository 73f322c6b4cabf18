-------------------------- MODULE TransitionEngine --------------------------
(***************************************************************************)
(* The transition engine (requests/transitions.service.ts) as operators on  *)
(* a row of the table `requests`: when a call of TransitionsService.apply   *)
(* is accepted, and the row it leaves.  RequestLifecycle applies them one   *)
(* call at a time, TransitionTx inside concurrent database transactions.    *)
(*                                                                         *)
(* A definition whose name ends in _Wrong carries a plausible bug.  Nothing  *)
(* in the model uses it: it takes the place of the definition it is named    *)
(* after to show that the properties notice.                               *)
(*                                                                         *)
(* Time is a natural number of units, Minute of which make a minute.  Who   *)
(* qualified or assigned, and the texts of the notes, are data no property   *)
(* tells apart: a note is its kind, and a stored reason is whether there is  *)
(* one.                                                                    *)
(***************************************************************************)
EXTENDS RequestMachine, PriorityMatrix

CONSTANTS
    Clients,               \* users whose role has scope CLIENT
    Staff,                 \* users whose role has scope INTERNAL
    Grants,                \* the permissions of each user's role
    Organization,          \* the organization of each client
    SlaFirstResponse,      \* slaFirstResponseMinutes of each priority level
    SlaResolution,         \* slaResolutionMinutes of each priority level
    Minute,                \* units of time in a minute
    Is24x7,                \* the priority levels counted in calendar time
    AddBusinessMinutes(_, _), \* sla.ts: advance an instant by business time
    ReopenWindow           \* REOPEN_WINDOW_DAYS, in units of time

Users == Clients \cup Staff
SYSTEM == "SYSTEM"         \* the viewer of the internal job (SYSTEM_VIEWER)

ASSUME UsersAssumption ==
    /\ Clients \cap Staff = {}
    /\ NULL \notin Users
    /\ SYSTEM \notin Users
    /\ Grants \in [Users -> SUBSET Permission]

ASSUME NullAssumption ==
    /\ NULL \notin RequestStatus
    /\ NULL \notin Int

ASSUME SlaAssumption ==
    /\ SlaFirstResponse \in [Priority -> Nat]
    /\ SlaResolution \in [Priority -> Nat]
    /\ Is24x7 \subseteq Priority
    /\ Minute \in Nat \ {0}
    /\ ReopenWindow \in Nat

Minutes(n) == n * Minute

ResolutionTime(level)    == Minutes(SlaResolution[level])
FirstResponseTime(level) == Minutes(SlaFirstResponse[level])

(***************************************************************************)
(* What is assumed of the business calendar where a proof needs it: it      *)
(* never goes backwards, and skipping closed hours only adds time.  It      *)
(* quantifies over all instants, so TLC checks it on the calendars of the   *)
(* models over a bounded range only.                                       *)
(***************************************************************************)
CalendarSound ==
    \A t, m \in Nat : /\ AddBusinessMinutes(t, m) \in Nat
                      /\ AddBusinessMinutes(t, m) >= t + Minutes(m)

-----------------------------------------------------------------------------
MAX_REOPENS == 2

(* "short" is too short for a priority override (fewer than 10 characters), *)
(* "long" too long (more than 500).                                        *)
NoteKind == {"none", "short", "reason", "long"}

Verdict == {"unknown", "yes", "no"}
Instant == Nat \cup {NULL}

Row == [createdBy                   : Clients,
        status                      : RequestStatus,
        previousStatusBeforeWait    : CLIENT_REPLY_TARGETS \cup {NULL},
        systemPriority              : Priority,
        effectivePriority           : Priority,
        priorityOverrideReason      : BOOLEAN,
        assignedTo                  : Staff \cup {NULL},
        reopenCount                 : 0..MAX_REOPENS,
        createdAt                   : Nat,
        qualifiedAt                 : Instant,
        firstResponseAt             : Instant,
        resolvedAt                  : Instant,
        closedAt                    : Instant,
        lastReopenedAt              : Instant,
        waitingClientTotal          : Nat,
        slaDueFirstResponseAt       : Instant,
        slaDueResolutionAt          : Instant,
        isSlaFirstResponseRespected : Verdict,
        isSlaResolutionRespected    : Verdict,
        updatedAt                   : Nat]

(* The arguments of a call (ApplyTransitionDto).  An absent priority is the *)
(* system priority; an absent assignee is NULL.                            *)
Dto == [note : NoteKind, level : Priority, assignee : Users \cup {NULL}]

(* The fields a transition does not read are left at one value.             *)
DtoOf(code) ==
    [note     : NoteKind,
     level    : IF code = "T02" THEN Priority ELSE {0},
     assignee : IF code = "T06" THEN Users ELSE {NULL}]

-----------------------------------------------------------------------------
(***************************************************************************)
(* Service levels (sla.ts, and computeAndSetDeadlines here).  In business    *)
(* time, only the whole minutes of a wait move the deadline.               *)
(***************************************************************************)
Advance(level, t, minutes) ==
    IF level \in Is24x7 THEN t + Minutes(minutes) ELSE AddBusinessMinutes(t, minutes)

ShiftResolutionForWaiting_Wrong(level, due, waiting) == due

ShiftResolutionForWaiting(level, due, waiting) ==
    IF waiting <= 0 THEN due
    ELSE IF level \in Is24x7 THEN due + waiting
    ELSE AddBusinessMinutes(due, waiting \div Minute)

ComputeAndSetDeadlines(row, from) ==
    LET level == row.effectivePriority
    IN  [row EXCEPT
          !.slaDueFirstResponseAt = Advance(level, from, SlaFirstResponse[level]),
          !.slaDueResolutionAt =
              ShiftResolutionForWaiting(level,
                  Advance(level, from, SlaResolution[level]),
                  row.waitingClientTotal)]

Respected(t, due) ==
    IF due = NULL THEN "unknown" ELSE IF t <= due THEN "yes" ELSE "no"

-----------------------------------------------------------------------------
(***************************************************************************)
(* applyEffects, one operator per branch.  Each gives the row with the      *)
(* columns the branch assigns, before the status itself is set.             *)
(***************************************************************************)
RememberStatusBeforeWait_Wrong(row) == row

RememberStatusBeforeWait(row) ==                              \* T03, T07, T10
    [row EXCEPT !.previousStatusBeforeWait = row.status]

QualifyAt(row, level, t, from) ==
    LET overridden == level # row.systemPriority
        dated == ComputeAndSetDeadlines(
                    [row EXCEPT !.qualifiedAt = t,
                                !.effectivePriority = level,
                                !.priorityOverrideReason = overridden],
                    from)
    IN  [dated EXCEPT !.isSlaFirstResponseRespected =
                          Respected(t, dated.slaDueFirstResponseAt)]

Qualify_Wrong(row, level, t) ==        \* only the first qualification dates
    [QualifyAt(row, level, t, row.createdAt) EXCEPT
        !.qualifiedAt = IF row.qualifiedAt = NULL THEN t ELSE row.qualifiedAt]

Qualify(row, level, t) == QualifyAt(row, level, t, row.createdAt)      \* T02

AssignResponsible(row, assignee) ==                                    \* T06
    [row EXCEPT !.assignedTo = assignee]

StartProcessing(row, t) ==                                             \* T08
    [row EXCEPT !.firstResponseAt = IF @ = NULL THEN t ELSE @]

ReleaseResponsible_Wrong(row) == row

ReleaseResponsible(row) ==                                        \* T09, T12
    [row EXCEPT !.assignedTo = NULL]

ProposeResolution(row, t) ==                                           \* T11
    [row EXCEPT !.resolvedAt = t,
                !.isSlaResolutionRespected = Respected(t, row.slaDueResolutionAt)]

Close(row, t) == [row EXCEPT !.closedAt = t]                      \* T16, T17

Reopen_Wrong(row, t) ==                        \* the reopening is not counted
    ComputeAndSetDeadlines(
        [row EXCEPT !.lastReopenedAt = t,
                    !.effectivePriority = bumpPriorityCapP1(@),
                    !.assignedTo = NULL],
        t)

Reopen(row, t) ==                                                      \* T19
    ComputeAndSetDeadlines(
        [row EXCEPT !.reopenCount = @ + 1,
                    !.lastReopenedAt = t,
                    !.effectivePriority = bumpPriorityCapP1(@),
                    !.assignedTo = NULL],
        t)

AccumulateWaiting_WrongDeadline(row, t) ==      \* the deadline does not move
    [row EXCEPT
        !.waitingClientTotal =
            @ + (IF t >= row.updatedAt THEN t - row.updatedAt ELSE 0),
        !.previousStatusBeforeWait = NULL]

AccumulateWaiting_WrongTotal(row, t) ==             \* only the last wait counts
    LET delta == IF t >= row.updatedAt THEN t - row.updatedAt ELSE 0
    IN  [row EXCEPT
          !.waitingClientTotal = delta,
          !.slaDueResolutionAt = IF @ # NULL /\ delta > 0 THEN @ + delta ELSE @,
          !.previousStatusBeforeWait = NULL]

(* The waiting time is measured from updated_at, the last write of the row. *)
AccumulateWaiting(row, t) ==                                  \* CLIENT_REPLY
    LET delta == IF t >= row.updatedAt THEN t - row.updatedAt ELSE 0
    IN  [row EXCEPT
          !.waitingClientTotal = @ + delta,
          !.slaDueResolutionAt = IF @ # NULL /\ delta > 0 THEN @ + delta ELSE @,
          !.previousStatusBeforeWait = NULL]

(* T04 and T05 store a reason, T18 stores nothing.                          *)
ApplyEffects(code, row, dto, t) ==
    CASE code \in {"T03", "T07", "T10"} -> RememberStatusBeforeWait(row)
      [] code = "T02"                   -> Qualify(row, dto.level, t)
      [] code = "T06"                   -> AssignResponsible(row, dto.assignee)
      [] code = "T08"                   -> StartProcessing(row, t)
      [] code \in {"T09", "T12"}        -> ReleaseResponsible(row)
      [] code = "T11"                   -> ProposeResolution(row, t)
      [] code \in {"T16", "T17"}        -> Close(row, t)
      [] code = "T19"                   -> Reopen(row, t)
      [] code = "CLIENT_REPLY"          -> AccumulateWaiting(row, t)
      [] code \in {"T04", "T05", "T18"} -> row

-----------------------------------------------------------------------------
(***************************************************************************)
(* The refusals of apply, in the order of the code; each negated condition  *)
(* is an exception there, and an exception rolls the transaction back.      *)
(***************************************************************************)
IsReadable(viewer, row) ==
    viewer \in Clients => Organization[viewer] = Organization[row.createdBy]

CanActorTrigger_Wrong(viewer, code, row) ==    \* the job is taken for a person
    LET actor == TRANSITIONS[code].actor
    IN  IF actor = "CLIENT_OWNER" THEN viewer = row.createdBy
        ELSE viewer \in Users /\ actor \in Grants[viewer]

CanActorTrigger(viewer, code, row) ==
    LET actor == TRANSITIONS[code].actor
    IN  CASE actor = "CLIENT_OWNER" -> viewer \in Clients /\ viewer = row.createdBy
          [] actor = "SYSTEM"       -> viewer = SYSTEM
          [] OTHER                  -> viewer \in Users /\ actor \in Grants[viewer]

Target(code, row) ==
    IF TRANSITIONS[code].to = NULL
    THEN resolveClientReplyTarget(row.previousStatusBeforeWait)
    ELSE TRANSITIONS[code].to

CanOverride_Wrong(row, dto) ==                      \* any level, with a reason
    dto.level # row.systemPriority => dto.note = "reason"

CanOverride(row, dto) ==
    dto.level # row.systemPriority =>
        /\ dto.note = "reason"
        /\ isWithinOneLevel(row.systemPriority, dto.level)

CanReopen_Wrong(row, t) ==                                    \* once too often
    /\ row.reopenCount <= MAX_REOPENS
    /\ row.closedAt # NULL => t <= row.closedAt + ReopenWindow

CanReopen(row, t) ==
    /\ row.reopenCount < MAX_REOPENS
    /\ row.closedAt # NULL => t <= row.closedAt + ReopenWindow

(* `active` is the set of users that exist and are not deactivated, `bug`   *)
(* the state of the request's structured bug details.                      *)
EffectsAllowed(code, row, dto, active, bug, t) ==
    CASE code = "T02" -> CanOverride(row, dto)
      [] code = "T06" -> dto.assignee \in Staff \cap active
      [] code = "T11" -> bug # "undiagnosed"
      [] code = "T19" -> CanReopen(row, t)
      [] OTHER        -> TRUE

Accepts_Wrong(viewer, code, row, expectedStatus, dto, active, bug, t) ==
    /\ IsReadable(viewer, row)                 \* the screen may be out of date
    /\ row.status \in TRANSITIONS[code].from
    /\ CanActorTrigger(viewer, code, row)
    /\ TRANSITIONS[code].requiresNote => dto.note # "none"
    /\ Target(code, row) # NULL
    /\ EffectsAllowed(code, row, dto, active, bug, t)

Accepts(viewer, code, row, expectedStatus, dto, active, bug, t) ==
    /\ IsReadable(viewer, row)
    /\ row.status \in TRANSITIONS[code].from
    /\ expectedStatus = row.status
    /\ CanActorTrigger(viewer, code, row)
    /\ TRANSITIONS[code].requiresNote => dto.note # "none"
    /\ Target(code, row) # NULL
    /\ EffectsAllowed(code, row, dto, active, bug, t)

(* The entity handed to repo.save.  updated_at is set by the UPDATE itself. *)
Transitioned(code, row, dto, t) ==
    [ApplyEffects(code, row, dto, t) EXCEPT !.status = Target(code, row)]

(* The row inserted in request_state_history.                              *)
JournalEntry_Wrong(code, row) ==          \* status read once it was overwritten
    [code |-> IF code = "CLIENT_REPLY" THEN ReplyCode(Target(code, row)) ELSE code,
     from |-> Target(code, row),
     to   |-> Target(code, row)]

JournalEntry(code, row) ==
    [code |-> IF code = "CLIENT_REPLY" THEN ReplyCode(Target(code, row)) ELSE code,
     from |-> row.status,
     to   |-> Target(code, row)]

-----------------------------------------------------------------------------
(***************************************************************************)
(* RequestsService.create and autoAssignToOrgDefault.                       *)
(***************************************************************************)
NewRow(client, systemPriority, t) ==
    [createdBy |-> client, status |-> "NOUVELLE",
     previousStatusBeforeWait |-> NULL,
     systemPriority |-> systemPriority, effectivePriority |-> systemPriority,
     priorityOverrideReason |-> FALSE, assignedTo |-> NULL, reopenCount |-> 0,
     createdAt |-> t, qualifiedAt |-> NULL, firstResponseAt |-> NULL,
     resolvedAt |-> NULL, closedAt |-> NULL, lastReopenedAt |-> NULL,
     waitingClientTotal |-> 0,
     slaDueFirstResponseAt |-> NULL, slaDueResolutionAt |-> NULL,
     isSlaFirstResponseRespected |-> "unknown",
     isSlaResolutionRespected |-> "unknown",
     updatedAt |-> t]

AutoAssigned(row, assignee, t) ==
    [Qualify(row, row.systemPriority, t) EXCEPT !.assignedTo = assignee,
                                                !.status = "AFFECTEE"]

-----------------------------------------------------------------------------
(***************************************************************************)
(* What makes a row consistent.                                            *)
(***************************************************************************)

(* The status a request is in, or is suspended in while it waits.           *)
StatusUnderWait(row) ==
    IF row.status = "EN_ATTENTE_CLIENT" THEN row.previousStatusBeforeWait
                                        ELSE row.status

MarkerFits(row) ==
    row.status = "EN_ATTENTE_CLIENT" <=> row.previousStatusBeforeWait # NULL

HolderFits(row) ==
    row.assignedTo # NULL <=>
        StatusUnderWait(row) \in {"AFFECTEE", "EN_COURS", "RESOLUE", "CLOTUREE"}

OverrideFits(row) ==
    StatusUnderWait(row) \notin {"NOUVELLE", "ANNULEE"} =>
        /\ isWithinOneLevel(row.systemPriority, row.effectivePriority)
        /\ row.priorityOverrideReason
              <=> row.effectivePriority # row.systemPriority
=============================================================================
