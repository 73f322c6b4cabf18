---------------------------- MODULE Notifications ----------------------------
(***************************************************************************)
(* Who is told of what happens to a request: the events emitted after each    *)
(* commit, the listener that dispatches them, one at a time or not, and the   *)
(* mail.  A dispatch reads the request and the accounts when it runs, which   *)
(* is after the event and maybe after the next one.                          *)
(***************************************************************************)
EXTENDS Values, Naturals, FiniteSets

CONSTANTS
    Author,       \* the client who created the request
    Staff,        \* the members of the staff; the others are managers, or both
    Managers,     \* those whose role holds a row requests.qualify
    MaxEvents,    \* bound of the model: the events of one behaviour
    EventsTried,  \* bound of the model: the codes of those events
    Mutes,        \* bound of the model: the channels a person may mute
    Invalid,      \* bound of the model: the sets of people whose address is INVALID
    MaxChanges    \* bound of the model: changes of preferences and accounts

ASSUME NotificationsAssumption ==
    /\ Author \notin Staff \cup Managers
    /\ {MaxEvents, MaxChanges} \subseteq Nat

VARIABLES
    assignee,   \* assignedToUserId of the request
    event,      \* the events, in the order of emission, and their dispatch
    active,     \* the accounts that are active
    muted,      \* notificationPreferences: the channels switched off
    invalidMail,  \* those whose emailStatus is INVALID (set outside this code)
    inApp,      \* table notifications: how many rows of an event a person has
    mailed,     \* the mails handed to the transport
    changes

notificationsVars == <<assignee, event, active, muted, invalidMail, inApp, mailed, changes>>

People   == {Author} \cup Staff \cup Managers
EventCategory == {"CLIENT_ACTIVITY", "ASSIGNMENTS", "QUEUE"}
Channel  == {"IN_APP", "EMAIL"}
EventIds == 1 .. MaxEvents
Target   == {"AUTHOR", "ASSIGNEE", "GESTIONNAIRES"}

(***************************************************************************)
(* NOTIFICATION_EVENTS.  For each target told, whether a mail goes with the   *)
(* notification: `email` is set and there is a template for it.              *)
(***************************************************************************)
Tells(category, targets, mails) ==
    [category |-> category, targets |-> targets, mails |-> mails, critical |-> FALSE]

TellsClient   == Tells("CLIENT_ACTIVITY", {"AUTHOR"}, {"AUTHOR"})
TellsManagers == Tells("QUEUE", {"GESTIONNAIRES"}, {})
TellsStaff    == Tells("ASSIGNMENTS", {"ASSIGNEE", "GESTIONNAIRES"}, {})

NOTIFICATION_EVENTS ==
    [DEMANDE_CREEE           |-> TellsManagers,
     DEMANDE_QUALIFIEE       |-> TellsClient,
     COMPLEMENT_DEMANDE      |-> TellsClient,
     DEMANDE_ANNULEE         |-> TellsManagers,
     DEMANDE_REJETEE         |-> TellsClient,
     DEMANDE_AFFECTEE        |-> Tells("ASSIGNMENTS", {"AUTHOR", "ASSIGNEE"}, {"AUTHOR", "ASSIGNEE"}),
     TRAITEMENT_DEMARRE      |-> TellsClient,
     AFFECTATION_REFUSEE     |-> TellsManagers,      \* email without a template
     REAFFECTATION_DEMANDEE  |-> TellsManagers,      \* the same
     CLIENT_A_REPONDU        |-> TellsStaff,         \* the same
     NOUVEAU_MESSAGE_INTERNE |-> TellsStaff,
     NOUVEAU_MESSAGE_CLIENT  |-> TellsClient,
     RESOLUTION_PROPOSEE     |-> TellsClient,
     RESOLUTION_REFUSEE      |-> TellsStaff,         \* the same
     DEMANDE_CLOTUREE        |-> TellsClient,
     DEMANDE_CLOTUREE_AUTO   |-> [TellsClient EXCEPT !.critical = TRUE],
     DEMANDE_REOUVERTE       |-> Tells("QUEUE", {"ASSIGNEE", "GESTIONNAIRES"}, {"ASSIGNEE", "GESTIONNAIRES"}),
     EVALUATION_BASSE        |-> Tells("QUEUE", {"GESTIONNAIRES"}, {"GESTIONNAIRES"})]

EventCode == DOMAIN NOTIFICATION_EVENTS

ASSUME NotificationsBounds ==
    /\ EventsTried \subseteq EventCode
    /\ Mutes \subseteq SUBSET (EventCategory \X Channel)
    /\ Invalid \subseteq SUBSET People

(* Who triggers an event: the client, the job of the automatic closing, a member *)
(* of the staff, and nobody for the assignment at the creation.               *)
Actors(code) ==
    CASE code \in {"DEMANDE_CREEE", "DEMANDE_ANNULEE", "CLIENT_A_REPONDU", "RESOLUTION_REFUSEE",
                   "DEMANDE_CLOTUREE", "DEMANDE_REOUVERTE", "EVALUATION_BASSE"} -> {Author}
      [] code = "DEMANDE_CLOTUREE_AUTO" -> {NULL}
      [] code = "DEMANDE_AFFECTEE"      -> Managers \cup {NULL}
      [] OTHER                          -> Staff \cup Managers

(* T06 assigns, T09, T12 and T19 take the assignment back before the event: the *)
(* rule ASSIGNEE of DEMANDE_REOUVERTE names nobody.                          *)
Unassigns == {"AFFECTATION_REFUSEE", "REAFFECTATION_DEMANDEE", "DEMANDE_REOUVERTE"}

(* A person as a dispatch reads the account: whether a rule asks for a mail, the *)
(* channels switched off, whether the address is valid.                      *)
Recipient == [person : People, email : BOOLEAN, muted : SUBSET (EventCategory \X Channel),
              valid : BOOLEAN]

(* `concerned` and `disturbed` are history: whom the table named when the event *)
(* was emitted, as their accounts were, and whose account, preferences or       *)
(* assignment changed, or whose delivery failed, before the dispatch ended.     *)
Event == [code : EventCode, actor : People \cup {NULL},
          phase : {"emitted", "delivering", "done", "lost"},
          left : SUBSET Recipient, concerned : SUBSET Recipient, disturbed : SUBSET People]

ASSUME NotificationsNull == NULL \notin Event /\ NULL \notin People

NotificationsTypeOK ==
    /\ assignee \in Staff \cup {NULL}
    /\ event \in [EventIds -> Event \cup {NULL}]
    /\ active \subseteq People
    /\ muted \in [People -> SUBSET (EventCategory \X Channel)]
    /\ invalidMail \subseteq People
    /\ inApp \in [EventIds \X People -> Nat]
    /\ \A e \in EventIds, p \in People : <<e, p>> \in mailed => inApp[<<e, p>>] > 0

NotificationsInit ==
    /\ assignee \in {NULL} \cup Staff
    /\ event = [e \in EventIds |-> NULL]
    /\ active = People
    /\ muted = [p \in People |-> {}]
    /\ invalidMail \in Invalid
    /\ inApp = [d \in EventIds \X People |-> 0]
    /\ mailed = {}
    /\ changes = 0

-----------------------------------------------------------------------------
NamedWith(target, responsable) ==
    CASE target = "AUTHOR"        -> {Author}
      [] target = "ASSIGNEE"      -> {responsable} \ {NULL}
      [] target = "GESTIONNAIRES" -> Managers

Named_Wrong(target) ==                        \* the assignee is not named
    CASE target = "AUTHOR"        -> {Author}
      [] target = "ASSIGNEE"      -> {}
      [] target = "GESTIONNAIRES" -> Managers

Named(target) == NamedWith(target, assignee)

AsRead(p, email) ==
    [person |-> p, email |-> email, muted |-> muted[p], valid |-> p \notin invalidMail]

(* resolveRecipients: nobody twice, never the actor, the active accounts only;  *)
(* a mail if one of the rules that name the person asks for it.              *)
Recipients_Wrong(code, actor) ==              \* one recipient per rule
    {AsRead(p, t \in NOTIFICATION_EVENTS[code].mails) :
        p \in (UNION {Named(t) : t \in NOTIFICATION_EVENTS[code].targets}) \cap active,
        t \in NOTIFICATION_EVENTS[code].targets}

Recipients(code, actor) ==
    LET def   == NOTIFICATION_EVENTS[code]
        named == UNION {Named(t) : t \in def.targets}
    IN  {AsRead(p, \E t \in def.mails : p \in Named(t)) : p \in (named \cap active) \ {actor}}

(* A transition or a service commits, then emits its event: the process may     *)
(* stop before it is dispatched (Stop).                                     *)
Known  == {e \in EventIds : event[e] # NULL}
Ongoing == {e \in Known : event[e].phase \in {"emitted", "delivering"}}
Disturb(people) ==
    [e \in EventIds |-> IF e \in Ongoing THEN [event[e] EXCEPT !.disturbed = @ \cup people]
                        ELSE event[e]]

EmitEvent(code, actor) ==
    /\ Cardinality(Known) < MaxEvents
    /\ assignee' \in IF code = "DEMANDE_AFFECTEE" THEN Staff
                     ELSE IF code \in Unassigns THEN {NULL} ELSE {assignee}
    /\ LET def      == NOTIFICATION_EVENTS[code]
           named(t) == NamedWith(t, assignee')
           told     == UNION {named(t) : t \in def.targets}
           moved    == IF assignee' = assignee THEN {} ELSE {assignee, assignee'} \ {NULL}
       IN  event' = [Disturb(moved) EXCEPT ![Cardinality(Known) + 1] =
              [code |-> code, actor |-> actor, phase |-> "emitted", left |-> {}, disturbed |-> {},
               concerned |-> {AsRead(p, \E t \in def.mails : p \in named(t)) :
                                 p \in (told \cap active) \ {actor}}]]
    /\ UNCHANGED <<active, muted, invalidMail, inApp, mailed, changes>>

-----------------------------------------------------------------------------
(* dispatch: the request and the recipients first; when they cannot be read     *)
(* nobody is told.                                                         *)
Resolve(e) ==
    /\ e \in Known /\ event[e].phase = "emitted"
    /\ \/ event' = [event EXCEPT ![e].phase = "delivering",
                                 ![e].left = Recipients(event[e].code, event[e].actor)]
       \/ event' = [event EXCEPT ![e].phase = "lost"]
    /\ UNCHANGED <<assignee, active, muted, invalidMail, inApp, mailed, changes>>

(* deliverTo, with the account read with the recipient.  The mail is inside the  *)
(* branch of the in-app channel; a refusal of the transport is swallowed.       *)
ShownInApp(def, r) == def.critical \/ <<def.category, "IN_APP">> \notin r.muted

Mailed(def, r) == r.email /\ r.valid /\ (def.critical \/ <<def.category, "EMAIL">> \notin r.muted)

Deliver(e, r) ==
    /\ e \in Known /\ event[e].phase = "delivering"
    /\ r \in event[e].left
    /\ LET def == NOTIFICATION_EVENTS[event[e].code]
       IN  IF ShownInApp(def, r)
           THEN /\ inApp' = [inApp EXCEPT ![<<e, r.person>>] = @ + 1]
                /\ mailed' = IF Mailed(def, r) THEN mailed \cup {<<e, r.person>>} ELSE mailed
           ELSE UNCHANGED <<inApp, mailed>>
    /\ event' = [event EXCEPT ![e].left = @ \ {r}]
    /\ UNCHANGED <<assignee, active, muted, invalidMail, changes>>

(* One recipient failing does not stop the others: the error is logged.  The    *)
(* notification may be saved by then, and not the rest.                      *)
DeliveryFails(e, r) ==
    /\ e \in Known /\ event[e].phase = "delivering"
    /\ r \in event[e].left
    /\ \/ UNCHANGED inApp
       \/ /\ ShownInApp(NOTIFICATION_EVENTS[event[e].code], r)
          /\ inApp' = [inApp EXCEPT ![<<e, r.person>>] = @ + 1]
    /\ event' = [event EXCEPT ![e].left = @ \ {r}, ![e].disturbed = @ \cup {r.person}]
    /\ UNCHANGED <<assignee, active, muted, invalidMail, mailed, changes>>

Finished(e) ==
    /\ e \in Known /\ event[e].phase = "delivering" /\ event[e].left = {}
    /\ event' = [event EXCEPT ![e].phase = "done"]
    /\ UNCHANGED <<assignee, active, muted, invalidMail, inApp, mailed, changes>>

Stop ==
    /\ Ongoing # {}
    /\ event' = [e \in EventIds |-> IF e \in Ongoing
                    THEN [event[e] EXCEPT !.phase = "lost", !.left = {}] ELSE event[e]]
    /\ UNCHANGED <<assignee, active, muted, invalidMail, inApp, mailed, changes>>

(* updatePreferences, an account that an administrator closes or opens, a new    *)
(* address, which is valid.                                                 *)
Change(p) ==
    /\ changes < MaxChanges
    /\ changes' = changes + 1
    /\ \/ \E m \in Mutes : muted' = [muted EXCEPT ![p] = m] /\ UNCHANGED <<active, invalidMail>>
       \/ active' = (active \ {p}) \cup ({p} \ active) /\ UNCHANGED <<muted, invalidMail>>
       \/ p \in invalidMail /\ invalidMail' = invalidMail \ {p} /\ UNCHANGED <<active, muted>>
    /\ event' = Disturb({p})
    /\ UNCHANGED <<assignee, inApp, mailed>>

NotificationsNext ==
    \/ \E code \in EventsTried : \E actor \in Actors(code) : EmitEvent(code, actor)
    \/ \E e \in EventIds :
          \/ Resolve(e) \/ Finished(e)
          \/ e \in Known /\ \E r \in event[e].left : Deliver(e, r) \/ DeliveryFails(e, r)
    \/ Stop
    \/ \E p \in People : Change(p)

NotificationsSpec == NotificationsInit /\ [][NotificationsNext]_notificationsVars

-----------------------------------------------------------------------------
(* Nobody is told twice of one event, in whatever capacity it concerns them,    *)
(* and the actor is not told.                                              *)
ToldOnce ==
    \A e \in Known, p \in People :
        /\ inApp[<<e, p>>] <= 1
        /\ p = event[e].actor => inApp[<<e, p>>] = 0

(* dispatch: at the end, whoever the event concerned when it was emitted has    *)
(* been told by the channels that were on at that moment, and nobody else has.   *)
(* The exceptions are person by person: those whose account, preferences or     *)
(* assignment changed meanwhile (a dispatch reads the request and the accounts  *)
(* as they are by then) and those whose own delivery failed.  What is critical   *)
(* (the automatic closing) is told and mailed whatever the preferences           *)
(* (EXG-07-080), but to an INVALID address nothing is sent, and a mail is sent   *)
(* only to whom the notification is shown.  docs/cdc/04 and 07 have the initial  *)
(* Responsable told of DEMANDE_REOUVERTE: the code concerns the managers only.   *)
ConcernedAreTold ==
    \A e \in Known : event[e].phase = "done" =>
        LET def      == NOTIFICATION_EVENTS[event[e].code]
            on(r, c) == def.critical \/ <<def.category, c>> \notin r.muted
        IN  /\ \A r \in event[e].concerned : r.person \notin event[e].disturbed =>
                  /\ inApp[<<e, r.person>>] = 1 <=> on(r, "IN_APP")
                  /\ <<e, r.person>> \in mailed <=>
                        r.email /\ r.valid /\ on(r, "IN_APP") /\ on(r, "EMAIL")
            /\ \A p \in People \ event[e].disturbed :
                  inApp[<<e, p>>] > 0 => \E r \in event[e].concerned : r.person = p
=============================================================================
