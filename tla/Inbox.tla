------------------------------- MODULE Inbox -------------------------------
(***************************************************************************)
(* The notifications of one person as a page shows them: the bell of the    *)
(* top bar (NotificationBell) counts the unread ones from what the page was  *)
(* rendered with, what is pushed to it and what is clicked in it, over the   *)
(* rows the API keeps (NotificationsService), which other pages read too.    *)
(* All that is listed fits in the panel.                                     *)
(***************************************************************************)
EXTENDS Values, Naturals, FiniteSets

CONSTANTS
    Notes,        \* bound of the model: the notifications there will be
    Requests,     \* bound of the model: the calls of the bell under way together
    InboxBudgets  \* bound of the model: the clicks, readings elsewhere and faults

ASSUME InboxAssumption ==
    /\ InboxBudgets \subseteq [clicks : Nat, elsewhere : Nat, faults : Nat]
    /\ IsFiniteSet(Notes)

ASSUME InboxNull ==
    NULL # "unread" /\ NULL # "read" /\ \A shown \in SUBSET Notes : NULL \notin [shown -> BOOLEAN]

VARIABLES
    note,       \* the rows: NULL, then "unread", then "read"
    pushed,     \* the notifications whose push is on its way
    bell,       \* what the bell holds
    asking,     \* the calls of the bell
    drifted,    \* history: something the bell cannot have seen since it was last loaded
    spare       \* what may still happen

inboxVars == <<note, pushed, bell, asking, drifted, spare>>

-----------------------------------------------------------------------------
Unread == {n \in Notes : note[n] = "unread"}

\* The rows as the API lists them: which are there, and whether they were read.
Listed == [n \in {m \in Notes : note[m] # NULL} |-> note[n] = "read"]

Silent == [phase |-> "none"]
Asking == {c \in Requests : asking[c] # Silent}

\* Whatever happens while a call is under way crosses it.
Crossing(calls) ==
    [c \in Requests |-> IF asking[c] = Silent THEN calls[c] ELSE [calls[c] EXCEPT !.crossed = TRUE]]

Ask(phase, what, n) ==
    \E c \in Requests \ Asking :
        asking' = [Crossing(asking) EXCEPT ![c] =
            [phase |-> phase, what |-> what, note |-> n, list |-> NULL, count |-> 0,
             crossed |-> Asking # {} \/ pushed' # {}, failed |-> FALSE]]

loadList == Ask("list", "load", NULL)

Takes(what) == spare[what] > 0 /\ spare' = [spare EXCEPT ![what] = @ - 1]

InboxInit ==
    /\ note \in [Notes -> {NULL, "unread", "read"}]
    /\ pushed = {}
    /\ bell = [open |-> FALSE, unread |-> Cardinality(Unread), items |-> NULL, loading |-> FALSE]
    /\ asking = [c \in Requests |-> Silent]
    /\ drifted = FALSE
    /\ spare \in InboxBudgets

-----------------------------------------------------------------------------
(* The rows: one is saved and pushed; another page reads one, or all.          *)
Notify(n) ==
    /\ note[n] = NULL
    /\ note' = [note EXCEPT ![n] = "unread"]
    /\ \/ pushed' = pushed \cup {n} /\ UNCHANGED <<drifted, spare>>
       \/ Takes("faults") /\ drifted' = TRUE /\ UNCHANGED pushed     \* no socket to push to
    /\ asking' = Crossing(asking)
    /\ UNCHANGED bell

ReadElsewhere ==
    /\ Takes("elsewhere")
    /\ \E read \in {{n} : n \in Unread} \cup {Unread} :
          /\ read # {}
          /\ note' = [n \in Notes |-> IF n \in read THEN "read" ELSE note[n]]
    /\ drifted' = TRUE
    /\ asking' = Crossing(asking)
    /\ UNCHANGED <<pushed, bell>>

-----------------------------------------------------------------------------
(* The bell.  A push loads the list again when the panel is open; otherwise    *)
(* the badge is incremented, and the list will be loaded at the next opening.  *)
Push(n) ==
    /\ n \in pushed
    /\ pushed' = pushed \ {n}
    /\ IF bell.open
       THEN loadList /\ bell' = [bell EXCEPT !.loading = TRUE]
       ELSE /\ bell' = [bell EXCEPT !.unread = @ + 1, !.items = NULL]
            /\ asking' = Crossing(asking)
    /\ UNCHANGED <<note, drifted, spare>>

toggle ==
    /\ UNCHANGED <<note, pushed, drifted>>
    /\ IF bell.open
       THEN bell' = [bell EXCEPT !.open = FALSE] /\ UNCHANGED <<asking, spare>>
       ELSE /\ Takes("clicks")
            /\ loadList
            /\ bell' = [bell EXCEPT !.open = TRUE, !.loading = TRUE]

Displayed == IF bell.open /\ ~bell.loading /\ bell.items # NULL THEN DOMAIN bell.items ELSE {}

\* A plausible bug: what was read already is counted down too.
onItemClick_Wrong(n) ==
    /\ n \in Displayed
    /\ Takes("clicks")
    /\ UNCHANGED <<note, pushed, bell, drifted>>
    /\ Ask("sent", "mark", n)

onItemClick(n) ==
    /\ n \in Displayed
    /\ Takes("clicks")
    /\ UNCHANGED <<note, pushed, drifted>>
    /\ IF bell.items[n]
       THEN bell' = [bell EXCEPT !.open = FALSE] /\ UNCHANGED asking
       ELSE Ask("sent", "mark", n) /\ UNCHANGED bell

onMarkAll ==
    /\ bell.open /\ bell.unread > 0
    /\ Takes("clicks")
    /\ UNCHANGED <<note, pushed, bell, drifted>>
    /\ Ask("sent", "markAll", NULL)

-----------------------------------------------------------------------------
(* The API.  A call that fails answers an empty list, a count of zero, or       *)
(* nothing: the bell goes on as if it had succeeded.                        *)
List(c) ==
    /\ asking[c] # Silent /\ asking[c].phase = "list"
    /\ asking' = [asking EXCEPT ![c].phase = "count", ![c].list = Listed]
    /\ UNCHANGED <<note, pushed, bell, drifted, spare>>

UnreadCount(c) ==
    /\ asking[c] # Silent /\ asking[c].phase = "count"
    /\ asking' = [asking EXCEPT ![c].phase = "answered", ![c].count = Cardinality(Unread)]
    /\ UNCHANGED <<note, pushed, bell, drifted, spare>>

MarkRead(c) ==
    /\ asking[c] # Silent /\ asking[c].phase = "sent"
    /\ note' = [n \in Notes |->
          IF note[n] # NULL /\ (asking[c].what = "mark" => n = asking[c].note) THEN "read" ELSE note[n]]
    /\ asking' = [asking EXCEPT ![c].phase = "answered"]
    /\ UNCHANGED <<pushed, bell, drifted, spare>>

Fails(c) ==
    /\ asking[c] # Silent
    /\ asking[c].phase \in {"list", "count", "sent"}
    /\ Takes("faults")
    /\ asking' = [asking EXCEPT ![c].phase = IF @ = "list" THEN "count" ELSE "answered",
                                ![c].failed = TRUE]
    /\ UNCHANGED <<note, pushed, bell, drifted>>

\* What the bell does with an answer.
Shows(call) ==
    CASE call.what = "load" ->
           [bell EXCEPT !.loading = FALSE, !.unread = call.count,
                        !.items = IF call.list = NULL THEN << >> ELSE call.list]
      [] call.what = "mark" ->
           [bell EXCEPT !.open = FALSE, !.unread = IF @ > 0 THEN @ - 1 ELSE 0]
      [] call.what = "markAll" ->
           [bell EXCEPT !.unread = 0,
                        !.items = IF @ = NULL THEN NULL ELSE [n \in DOMAIN @ |-> TRUE]]

Answer(c) ==
    /\ asking[c] # Silent /\ asking[c].phase = "answered"
    /\ bell' = Shows(asking[c])
    /\ drifted' = (asking[c].crossed \/ asking[c].failed \/ (asking[c].what # "load" /\ drifted))
    /\ asking' = [asking EXCEPT ![c] = Silent]
    /\ UNCHANGED <<note, pushed, spare>>

InboxNext ==
    \/ \E n \in Notes : Notify(n) \/ Push(n) \/ onItemClick(n)
    \/ ReadElsewhere \/ toggle \/ onMarkAll
    \/ \E c \in Requests : List(c) \/ UnreadCount(c) \/ MarkRead(c) \/ Fails(c) \/ Answer(c)

InboxSpec == InboxInit /\ [][InboxNext]_inboxVars

-----------------------------------------------------------------------------
(* At rest, the badge counts the unread notifications and an open panel shows   *)
(* them as they are, as long as no push was lost, nothing was read elsewhere   *)
(* and no call of the bell failed or met another change; and one loading that   *)
(* meets nothing puts right whatever had drifted, as the comment of loadList   *)
(* promises.                                                               *)
BadgeIsExact ==
    Asking = {} /\ pushed = {} /\ ~drifted =>
        /\ bell.unread = Cardinality(Unread)
        /\ bell.open /\ bell.items # NULL => bell.items = Listed
=============================================================================
