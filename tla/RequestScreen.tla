---------------------------- MODULE RequestScreen ----------------------------
(***************************************************************************)
(* The page of one request, open at the same time in several browsers, over *)
(* the transition engine: what each page read, when it read it, what it     *)
(* offers (TransitionPanel, BugDiagnosticPanel, EvaluationCard), what its    *)
(* user fills in and sends, and what the API answers.  A page keeps what is  *)
(* filled in when it reads the request again.                              *)
(***************************************************************************)
EXTENDS Values, Integers, FiniteSets

CONSTANTS
    Owner,          \* the client who created the request
    Colleague,      \* another client of the same organization
    Agents,         \* the internal users
    Rights,         \* the permissions of each user's role
    Starts,         \* the requests to start from, with their structured details and evaluation
    Window,         \* REOPEN_WINDOW_DAYS, in units of time
    MaxNow,         \* bound of the model: the instants
    ScreenBudgets   \* bounds of the model: readings, submissions, other changes, failed readings

Portal  == {Owner, Colleague}
Viewers == Portal \cup Agents

SameOrganization == [c \in Portal |-> "organization"]
NoTarget         == [p \in 0..4 |-> 0]
Later(t, m)      == t + m

Engine == INSTANCE TransitionEngine WITH
    Clients <- Portal, Staff <- Agents, Grants <- Rights, Organization <- SameOrganization,
    SlaFirstResponse <- NoTarget, SlaResolution <- NoTarget, Minute <- 1, Is24x7 <- {},
    AddBusinessMinutes <- Later, ReopenWindow <- Window

ASSUME ScreenAssumption ==
    /\ Owner # Colleague /\ Portal \cap Agents = {}
    /\ Rights \in [Viewers -> SUBSET Engine!Permission]
    /\ {Window, MaxNow} \subseteq Nat

(* A request is one the engine leaves (theorems on RequestLifecycle).          *)
ASSUME StartsAssumption ==
    \A start \in Starts :
        /\ start.row \in Engine!Row
        /\ Engine!MarkerFits(start.row) /\ Engine!HolderFits(start.row)
        /\ Engine!OverrideFits(start.row)
        /\ start.bug \in {"none", "undiagnosed", "diagnosed"} /\ start.evaluated \in BOOLEAN

ASSUME ScreenNull ==
    /\ NULL \notin Viewers /\ Engine!SYSTEM \notin Viewers
    /\ NULL \notin Engine!RequestStatus /\ NULL \notin Int

VARIABLES
    row, bug, evaluated,  \* the request, its structured details, whether it has an evaluation
    employed,             \* the agents whose account is active
    now,
    screen,               \* what each user's page shows and sends
    attempts               \* what may still happen

screenVars == <<row, bug, evaluated, employed, now, screen, attempts>>

Codes == Engine!TransitionCode

-----------------------------------------------------------------------------
(* The front end's own table of transitions (lib/transitions.ts).            *)
TransitionUi_Wrong(code) ==                 \* a refusal may be sent without its reason
    [requiresNote   |-> code \in {"T03", "T05", "T07", "T09", "T10", "T11", "T12", "T19", "CLIENT_REPLY"},
     takesNote      |-> code \notin {"T06", "T08", "T16"},
     needsAssignee  |-> code = "T06",
     allowsPriority |-> code = "T02"]

TransitionUi(code) ==
    [requiresNote   |-> code \in {"T03", "T05", "T07", "T09", "T10", "T11", "T12", "T18", "T19", "CLIENT_REPLY"},
     takesNote      |-> code \notin {"T06", "T08", "T16"},
     needsAssignee  |-> code = "T06",
     allowsPriority |-> code = "T02"]

PriorityChoices(system) == {p \in 0..4 : p - system \in -1..1}

-----------------------------------------------------------------------------
(* `fresh`, `old` and `blind` are history: nothing has changed since the page   *)
(* began to read; the form was filled in before the page was read again; the   *)
(* reading of the evaluation failed.                                        *)
Closed == [phase |-> "closed"]

Spends(what) == attempts[what] > 0 /\ attempts' = [attempts EXCEPT ![what] = @ - 1]

\* Nobody's page is up to date any more once something it may show has changed.
Outdated(screens) == [v \in Viewers |-> IF screens[v].phase = "closed" THEN screens[v]
                                        ELSE [screens[v] EXCEPT !.fresh = FALSE]]

\* The page is opened, or refreshed by one of its panels: first the request...
ReadRequest(v) ==
    /\ screen[v].phase \in {"closed", "shown"}
    /\ Spends("readings")
    /\ screen' = [screen EXCEPT ![v] =
          [phase |-> "reading", fresh |-> TRUE,
           status |-> row.status, system |-> row.systemPriority,
           open |-> IF screen[v].phase = "closed" \/ screen[v].open = NULL THEN NULL
                    ELSE [screen[v].open EXCEPT !.old = TRUE],
           refused |-> NULL]]
    /\ UNCHANGED <<row, bug, evaluated, employed, now>>

availableTransitions(v) ==
    {c \in Codes : row.status \in Engine!TRANSITIONS[c].from /\ Engine!CanActorTrigger(v, c, row)}

\* ... then all the rest, by calls that each fall back on "nothing" when they fail: no
\* transition, nobody to assign, no details of a bug; not evaluated yet, although it was.
Panels(v, codes, people, seesBug, seesEvaluation) ==
    [phase |-> "shown", fresh |-> screen[v].fresh, status |-> screen[v].status,
     system |-> screen[v].system, open |-> screen[v].open, refused |-> NULL, codes |-> codes,
     assignees   |-> IF v \in Agents THEN people ELSE {},
     canDiagnose |-> v \in Agents /\ seesBug /\ screen[v].status \in {"AFFECTEE", "EN_COURS"},
     canEvaluate |-> v \in Portal /\ screen[v].status = "CLOTUREE" /\ ~seesEvaluation,
     blind       |-> evaluated /\ ~seesEvaluation]

ReadPanels(v) ==
    /\ screen[v].phase = "reading"
    /\ \E codes \in {availableTransitions(v), {}}, people \in {employed, {}},
          seesBug \in {bug # "none", FALSE}, seesEvaluation \in {evaluated, FALSE} :
          /\ screen' = [screen EXCEPT ![v] = Panels(v, codes, people, seesBug, seesEvaluation)]
          /\ \/ /\ codes = availableTransitions(v) /\ people = employed
                /\ seesBug = (bug # "none") /\ seesEvaluation = evaluated
                /\ UNCHANGED attempts
             \/ Spends("failures")
    /\ UNCHANGED <<row, bug, evaluated, employed, now>>

(* The user opens a transition and fills in its form, at once: it changes only *)
(* after a refusal or once the page was read again (or by Cancel).  An         *)
(* adjustment of the priority left empty keeps the one of the system.        *)
FillIn(v, code) ==
    /\ screen[v].phase = "shown"
    /\ screen[v].codes # {}
    /\ \/ /\ screen[v].open # NULL /\ screen[v].open.code = code
          /\ screen[v].refused # NULL \/ screen[v].open.old
       \/ screen[v].open = NULL /\ code \in screen[v].codes
    /\ LET ui == TransitionUi(code)
       IN  \E note \in IF ui.takesNote THEN {"none", "short", "reason", "long"} ELSE {"none"},
              level \in IF ui.allowsPriority THEN PriorityChoices(screen[v].system) \cup {NULL}
                        ELSE {NULL},
              assignee \in IF ui.needsAssignee THEN screen[v].assignees ELSE {NULL} :
              screen' = [screen EXCEPT
                  ![v].open = [code |-> code, note |-> note, level |-> level, assignee |-> assignee,
                                old |-> screen[v].open # NULL /\ screen[v].open.old],
                  ![v].refused = NULL]
    /\ screen' # screen
    /\ UNCHANGED <<row, bug, evaluated, employed, now, attempts>>

Cancel(v) ==
    /\ screen[v].phase = "shown" /\ screen[v].open # NULL
    /\ screen' = [screen EXCEPT ![v].open = NULL, ![v].refused = NULL]
    /\ UNCHANGED <<row, bug, evaluated, employed, now, attempts>>

Refused(v, what) == screen' = [screen EXCEPT ![v].refused = what]

\* After a success the panel is reset and the page reads the request again.
Succeeded(v) == Outdated([screen EXCEPT ![v] = Closed])

(* Confirm: the server action calls the API with the status the page shows.   *)
(* The answer may be lost: an error is shown and the form stays as it is.    *)
Confirm(v) ==
    /\ screen[v].phase = "shown" /\ screen[v].open # NULL /\ screen[v].codes # {}
    /\ TransitionUi(screen[v].open.code).requiresNote => screen[v].open.note # "none"
    /\ Spends("submissions")
    /\ LET filled == screen[v].open
           dto  == [note |-> filled.note, assignee |-> filled.assignee,
                    level |-> IF filled.level = NULL THEN row.systemPriority ELSE filled.level]
       IN  IF Engine!Accepts(v, filled.code, row, screen[v].status, dto,
                             employed \cup Portal, bug, now)
           THEN /\ row' = [Engine!Transitioned(filled.code, row, dto, now) EXCEPT !.updatedAt = now]
                /\ screen' \in {Succeeded(v), Outdated(screen)}
           ELSE Refused(v, filled.code) /\ UNCHANGED row
    /\ UNCHANGED <<bug, evaluated, employed, now>>

\* The diagnosis of a bug: the API asks for the permission only.
Diagnose(v) ==
    /\ screen[v].phase = "shown" /\ screen[v].canDiagnose
    /\ Spends("submissions")
    /\ IF bug # "none" /\ "requests.process" \in Rights[v]
       THEN bug' = "diagnosed" /\ screen' \in {Succeeded(v), Outdated(screen)}
       ELSE Refused(v, "diagnose") /\ UNCHANGED bug
    /\ UNCHANGED <<row, evaluated, employed, now>>

Evaluate(v) ==
    /\ screen[v].phase = "shown" /\ screen[v].canEvaluate
    /\ Spends("submissions")
    /\ IF v = Owner /\ row.status = "CLOTUREE" /\ ~evaluated
       THEN evaluated' = TRUE /\ screen' \in {Succeeded(v), Outdated(screen)}
       ELSE Refused(v, "evaluate") /\ UNCHANGED evaluated
    /\ UNCHANGED <<row, bug, employed, now>>

-----------------------------------------------------------------------------
(* Meanwhile: the job closes the request, an account is closed, time passes.   *)
Elsewhere ==
    /\ Spends("others")
    /\ \/ /\ row.status = "RESOLUE"
          /\ row' = [Engine!Transitioned("T17", row, [note |-> "none"], now) EXCEPT !.updatedAt = now]
          /\ UNCHANGED employed
       \/ \E u \in employed : employed' = employed \ {u} /\ UNCHANGED row
    /\ screen' = Outdated(screen)
    /\ UNCHANGED <<bug, evaluated, now>>

Tick == now < MaxNow /\ now' = now + 1 /\ UNCHANGED <<row, bug, evaluated, employed, screen, attempts>>

ScreenInit ==
    /\ \E start \in Starts : row = start.row /\ bug = start.bug /\ evaluated = start.evaluated
    /\ employed = Agents
    /\ now = 0
    /\ screen = [v \in Viewers |-> Closed]
    /\ attempts \in ScreenBudgets

ScreenNext ==
    \/ \E v \in Viewers :
         \/ ReadRequest(v) \/ ReadPanels(v) \/ Cancel(v) \/ Confirm(v) \/ Diagnose(v) \/ Evaluate(v)
         \/ \E code \in Codes : FillIn(v, code)
    \/ Elsewhere \/ Tick

ScreenSpec == ScreenInit /\ [][ScreenNext]_screenVars

-----------------------------------------------------------------------------
(* What a page offers, the API accepts, as long as nothing changed since the   *)
(* page was read: the front end's table, its choices of priority and of       *)
(* assignee and its own checks agree with the engine's.  What the page lets    *)
(* through is listed: a form left open while the page was read again, a reason *)
(* of the wrong length for an override, a missing diagnosis, a reopening past  *)
(* its bounds, two cards shown to users the API refuses, and the evaluation    *)
(* offered again when reading it failed, which the page cannot tell from there  *)
(* being none (transition-panel.tsx, lib/transitions.ts and the apiFetchOr of   *)
(* both pages against apply, submitDiagnostic and submit).                    *)
OffersAreAccepted ==
    \A v \in Viewers :
        LET refused == screen[v].refused
        IN  screen[v].phase = "shown" /\ screen[v].fresh /\ refused # NULL =>
            \/ refused \in Codes /\ screen[v].open.old
            \/ refused = "T02" /\ screen[v].open.level # NULL /\ screen[v].open.note # "reason"
            \/ refused = "T11" /\ bug = "undiagnosed"
            \/ refused = "T19" /\ ~Engine!CanReopen(row, now)
            \/ refused = "diagnose" /\ "requests.process" \notin Rights[v]
            \/ refused = "evaluate" /\ (v = Colleague \/ screen[v].blind)
=============================================================================
