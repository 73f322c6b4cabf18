----------------------- MODULE Notifications_proofs -----------------------
(***************************************************************************)
(* Nobody is told twice of an event, and whom it concerns is told: for any    *)
(* number of events dispatched in any order.  And the bell of a page counts     *)
(* what is unread, whatever is pushed, clicked or answered in whatever order.    *)
(***************************************************************************)
EXTENDS Notifications, Inbox, FiniteSetTheorems, TLAPS

NoticesTyped ==
    /\ assignee \in Staff \cup {NULL}
    /\ event \in [EventIds -> Event \cup {NULL}]
    /\ active \subseteq People
    /\ muted \in [People -> SUBSET (EventCategory \X Channel)]
    /\ invalidMail \subseteq People
    /\ inApp \in [EventIds \X People -> Nat]

(* The events are numbered without a gap, so that a new one takes a new number. *)
EventsNumbered == \E n \in 0 .. MaxEvents : Known = 1 .. n

(* Before its dispatch an event has told nobody; during it, those who are left   *)
(* are not told yet, each is there once, and the actor is not among them.     *)
Dispatched(e) ==
    /\ event[e] = NULL \/ event[e].phase = "emitted" => \A p \in People : inApp[<<e, p>>] = 0
    /\ event[e] # NULL =>
          /\ event[e].phase # "delivering" => event[e].left = {}
          /\ \A r \in event[e].left : inApp[<<e, r.person>>] = 0 /\ r.person # event[e].actor
          /\ \A r, s \in event[e].left : r.person = s.person => r = s
          /\ \A p \in People :
                inApp[<<e, p>>] <= 1 /\ (p = event[e].actor => inApp[<<e, p>>] = 0)

Mails == \A e \in EventIds, p \in People : <<e, p>> \in mailed => inApp[<<e, p>>] > 0

(* Whom a dispatch finds, with what it reads as a parameter.                   *)
NamesOf(code, responsable) ==
    UNION {NamedWith(t, responsable) : t \in NOTIFICATION_EVENTS[code].targets}

AsksMail(code, responsable, p) ==
    \E t \in NOTIFICATION_EVENTS[code].mails : p \in NamedWith(t, responsable)

FoundAs(code, responsable, mutes, invalids, p) ==
    [person |-> p, email |-> AsksMail(code, responsable, p), muted |-> mutes[p],
     valid |-> p \notin invalids]

Found(code, actor, responsable, actives, mutes, invalids) ==
    {FoundAs(code, responsable, mutes, invalids, p) :
        p \in (NamesOf(code, responsable) \cap actives) \ {actor}}

(* Somebody an event concerned has what the event owes them.                 *)
IsOn(code, r, c) ==
    \/ NOTIFICATION_EVENTS[code].critical
    \/ <<NOTIFICATION_EVENTS[code].category, c>> \notin r.muted

Told(e, r) ==
    /\ inApp[<<e, r.person>>] = 1 <=> IsOn(event[e].code, r, "IN_APP")
    /\ <<e, r.person>> \in mailed <=>
          r.email /\ r.valid /\ IsOn(event[e].code, r, "IN_APP") /\ IsOn(event[e].code, r, "EMAIL")

(* But for those whom something disturbed, an event concerns those a dispatch    *)
(* would find; then each of them is told or left, and nobody else is.         *)
Concerns(e) ==
    event[e] # NULL =>
        /\ \A r, s \in event[e].concerned : r.person = s.person => r = s
        /\ event[e].phase = "emitted" =>
              \A r \in Recipient : r.person \notin event[e].disturbed =>
                 (r \in event[e].concerned <=>
                     r \in Found(event[e].code, event[e].actor, assignee, active, muted, invalidMail))
        /\ event[e].phase \in {"delivering", "done"} =>
              /\ \A r \in event[e].concerned :
                    r.person \in event[e].disturbed \/ r \in event[e].left \/ Told(e, r)
              /\ \A r \in event[e].left :
                    r.person \in event[e].disturbed \/ r \in event[e].concerned
              /\ \A p \in People \ event[e].disturbed : inApp[<<e, p>>] > 0 =>
                    \E r \in event[e].concerned : r.person = p

NotificationsInv ==
    /\ NoticesTyped /\ EventsNumbered /\ Mails
    /\ \A e \in EventIds : Dispatched(e) /\ Concerns(e)

-----------------------------------------------------------------------------
LEMMA ActorsAreKnown == ASSUME NEW code \in EventCode PROVE Actors(code) \subseteq People \cup {NULL}
  BY DEF Actors, People

(* A new event takes the first number that is free.                          *)
LEMMA FreshEvent ==
    ASSUME EventsNumbered, Cardinality(Known) < MaxEvents
    PROVE  LET e == Cardinality(Known) + 1
           IN  /\ e \in EventIds /\ event[e] = NULL
               /\ \E n \in 0 .. MaxEvents : Known \cup {e} = 1 .. n
  <1>1. PICK n \in 0 .. MaxEvents : Known = 1 .. n
    BY DEF EventsNumbered
  <1>2. n \in Nat /\ MaxEvents \in Nat
    BY <1>1, NotificationsAssumption
  <1>3. Cardinality(Known) = n
    BY <1>1, <1>2, FS_Interval
  <1>4. n + 1 \in EventIds /\ n + 1 \notin Known /\ n + 1 \in 0 .. MaxEvents
    BY <1>1, <1>2, <1>3 DEF EventIds
  <1>5. Known \cup {n + 1} = 1 .. (n + 1)
    BY <1>1, <1>2
  <1> QED BY <1>3, <1>4, <1>5 DEF Known

LEMMA NoticesStart == NotificationsInit => NotificationsInv
  <1> SUFFICES ASSUME NotificationsInit PROVE NotificationsInv
    OBVIOUS
  <1>1. NoticesTyped /\ Mails
    BY NotificationsBounds DEF NotificationsInit, NoticesTyped, Mails
  <1>2. Known = {}
    BY DEF NotificationsInit, Known
  <1>3. EventsNumbered
    <2>1. 0 \in 0 .. MaxEvents /\ 1 .. 0 = {}
      BY NotificationsAssumption
    <2> QED BY <1>2, <2>1 DEF EventsNumbered
  <1>4. \A e \in EventIds : Dispatched(e) /\ Concerns(e)
    BY DEF NotificationsInit, Dispatched, Concerns
  <1> QED BY <1>1, <1>3, <1>4 DEF NotificationsInv

LEMMA FoundAsFacts ==
    ASSUME NEW code \in EventCode, NEW responsable, NEW p \in People, NEW invalids,
           NEW mutes \in [People -> SUBSET (EventCategory \X Channel)]
    PROVE  /\ FoundAs(code, responsable, mutes, invalids, p) \in Recipient
           /\ FoundAs(code, responsable, mutes, invalids, p).person = p
  <1>1. AsksMail(code, responsable, p) \in BOOLEAN /\ (p \notin invalids) \in BOOLEAN
    BY DEF AsksMail
  <1>2. mutes[p] \in SUBSET (EventCategory \X Channel)
    OBVIOUS
  <1> QED BY <1>1, <1>2 DEF FoundAs, Recipient

(* The recipients of a dispatch: each once, and never the actor.              *)
LEMMA FoundFacts ==
    ASSUME NEW code \in EventCode, NEW actor, NEW responsable, NEW actives \in SUBSET People,
           NEW mutes \in [People -> SUBSET (EventCategory \X Channel)], NEW invalids
    PROVE  LET found == Found(code, actor, responsable, actives, mutes, invalids)
           IN  /\ found \subseteq Recipient
               /\ \A r \in found : r.person # actor
               /\ \A r, s \in found : r.person = s.person => r = s
  <1> DEFINE people == (NamesOf(code, responsable) \cap actives) \ {actor}
             of(p) == FoundAs(code, responsable, mutes, invalids, p)
  <1>1. \A p \in people : p \in People /\ p # actor
    OBVIOUS
  <1>2. \A p \in people : of(p) \in Recipient /\ of(p).person = p
    BY <1>1, FoundAsFacts
  <1>3. Found(code, actor, responsable, actives, mutes, invalids) = {of(p) : p \in people}
    BY DEF Found
  <1> HIDE DEF people, of
  <1> QED BY <1>1, <1>2, <1>3

(* What is read of a person is the same for whoever did not change.             *)
LEMMA FoundApart ==
    ASSUME NEW code \in EventCode, NEW actor, NEW r \in Recipient,
           NEW w1, NEW w2, NEW a1, NEW a2, NEW m1, NEW m2, NEW i1, NEW i2,
           w1 = w2 \/ (r.person # w1 /\ r.person # w2),
           r.person \in a1 <=> r.person \in a2,
           m1[r.person] = m2[r.person],
           r.person \in i1 <=> r.person \in i2,
           r \in Found(code, actor, w1, a1, m1, i1)
    PROVE  r \in Found(code, actor, w2, a2, m2, i2)
  <1>1. PICK p \in (NamesOf(code, w1) \cap a1) \ {actor} : r = FoundAs(code, w1, m1, i1, p)
    BY DEF Found
  <1>2. r.person = p
    BY <1>1 DEF FoundAs
  <1>3. \A t : p \in NamedWith(t, w1) <=> p \in NamedWith(t, w2)
    BY <1>2 DEF NamedWith
  <1>4. p \in NamesOf(code, w2) /\ (AsksMail(code, w1, p) <=> AsksMail(code, w2, p))
    BY <1>1, <1>3 DEF NamesOf, AsksMail
  <1>5. FoundAs(code, w2, m2, i2, p) = FoundAs(code, w1, m1, i1, p)
    <2>1. AsksMail(code, w1, p) = AsksMail(code, w2, p)
      BY <1>4 DEF AsksMail
    <2>2. (p \notin i1) = (p \notin i2)
      BY <1>2
    <2> QED BY <1>2, <2>1, <2>2 DEF FoundAs
  <1>6. p \in (NamesOf(code, w2) \cap a2) \ {actor}
    BY <1>1, <1>2, <1>4
  <1> QED BY <1>1, <1>5, <1>6 DEF Found

LEMMA RecipientsAreFound ==
    ASSUME NEW code, NEW actor
    PROVE  Recipients(code, actor) = Found(code, actor, assignee, active, muted, invalidMail)
  BY DEF Recipients, Found, FoundAs, NamesOf, AsksMail, Named, AsRead

-----------------------------------------------------------------------------
LEMMA EventTyped ==
    ASSUME NoticesTyped, NEW f \in EventIds, event[f] # NULL
    PROVE  /\ event[f] \in Event /\ event[f].code \in EventCode
           /\ \A r \in event[f].concerned : r \in Recipient /\ r.person \in People
           /\ \A r \in event[f].left : r \in Recipient /\ r.person \in People
  BY DEF NoticesTyped, Event, Recipient

(* What is known of an event that a step leaves alone stays true.              *)
LEMMA EventKept ==
    ASSUME NoticesTyped, NEW f \in EventIds, Dispatched(f), Concerns(f), event'[f] = event[f],
           \A p \in People : inApp'[<<f, p>>] = inApp[<<f, p>>],
           \A p \in People : <<f, p>> \in mailed' <=> <<f, p>> \in mailed,
           UNCHANGED <<assignee, active, muted, invalidMail>>
    PROVE  Dispatched(f)' /\ Concerns(f)'
  <1>1. Dispatched(f)'
    BY EventTyped DEF Dispatched
  <1>2. Concerns(f)'
    <2>1. event[f] # NULL => \A r \in event[f].concerned : Told(f, r)' <=> Told(f, r)
      BY EventTyped DEF Told
    <2> QED BY <2>1 DEF Concerns
  <1> QED BY <1>1, <1>2

LEMMA DisturbFacts ==
    ASSUME NoticesTyped, NEW f \in EventIds, NEW people \in SUBSET People
    PROVE  LET c == Disturb(people)[f]
           IN  /\ c \in Event \cup {NULL} /\ (c = NULL <=> event[f] = NULL)
               /\ event[f] # NULL =>
                     /\ c.code = event[f].code /\ c.actor = event[f].actor
                     /\ c.phase = event[f].phase /\ c.left = event[f].left
                     /\ c.concerned = event[f].concerned
                     /\ event[f].disturbed \subseteq c.disturbed
                     /\ c.phase \in {"emitted", "delivering"} => people \subseteq c.disturbed
               /\ f \notin Ongoing => c = event[f]
  <1>1. CASE f \in Ongoing
    <2>1. /\ event[f] \in Event
          /\ Disturb(people)[f] = [event[f] EXCEPT !.disturbed = @ \cup people]
      BY <1>1, EventTyped DEF Ongoing, Known, Disturb
    <2>2. /\ Disturb(people)[f] \in Event
          /\ Disturb(people)[f].disturbed = event[f].disturbed \cup people
      BY <2>1 DEF Event
    <2> QED BY <1>1, <2>1, <2>2, NotificationsNull DEF Event
  <1>2. CASE f \notin Ongoing
    <2>1. Disturb(people)[f] = event[f]
      BY <1>2 DEF Disturb
    <2> QED BY <1>2, <2>1 DEF NoticesTyped, Ongoing, Known
  <1> QED BY <1>1, <1>2

(* When something a dispatch reads of some people changes, the events under way  *)
(* remember it, and what it reads of the others is what it was.               *)
LEMMA DisturbKept ==
    ASSUME NoticesTyped, NEW f \in EventIds, Dispatched(f), Concerns(f),
           NEW people \in SUBSET People, event'[f] = Disturb(people)[f],
           \A p \in People : inApp'[<<f, p>>] = inApp[<<f, p>>],
           \A p \in People : <<f, p>> \in mailed' <=> <<f, p>> \in mailed,
           \A p \in People \ people :
              /\ assignee' = assignee \/ (p # assignee /\ p # assignee')
              /\ p \in active' <=> p \in active
              /\ muted'[p] = muted[p]
              /\ p \in invalidMail' <=> p \in invalidMail
    PROVE  Dispatched(f)' /\ Concerns(f)'
  <1>1. Dispatched(f)'
    BY DisturbFacts, EventTyped DEF Dispatched
  <1>2. Concerns(f)'
    <2> SUFFICES ASSUME event'[f] # NULL PROVE Concerns(f)'
      BY DEF Concerns
    <2>1. /\ event[f] # NULL /\ event[f].code \in EventCode
          /\ event'[f].code = event[f].code /\ event'[f].actor = event[f].actor
          /\ event'[f].phase = event[f].phase /\ event'[f].left = event[f].left
          /\ event'[f].concerned = event[f].concerned
          /\ event[f].disturbed \subseteq event'[f].disturbed
          /\ event'[f].phase \in {"emitted", "delivering"} => people \subseteq event'[f].disturbed
      BY DisturbFacts, EventTyped
    <2>2. ASSUME event[f].phase = "emitted", NEW r \in Recipient, r.person \notin event'[f].disturbed
          PROVE  r \in event[f].concerned <=>
                    r \in Found(event[f].code, event[f].actor, assignee', active', muted', invalidMail')
      <3>1. r.person \in People \ people /\ r.person \notin event[f].disturbed
        BY <2>1, <2>2 DEF Recipient
      <3>2. r \in event[f].concerned <=>
               r \in Found(event[f].code, event[f].actor, assignee, active, muted, invalidMail)
        BY <2>1, <2>2, <3>1 DEF Concerns
      <3>3. r \in Found(event[f].code, event[f].actor, assignee, active, muted, invalidMail) =>
               r \in Found(event[f].code, event[f].actor, assignee', active', muted', invalidMail')
        BY <2>1, <3>1, FoundApart
      <3>4. r \in Found(event[f].code, event[f].actor, assignee', active', muted', invalidMail') =>
               r \in Found(event[f].code, event[f].actor, assignee, active, muted, invalidMail)
        BY <2>1, <3>1, FoundApart
      <3> QED BY <3>2, <3>3, <3>4
    <2>3. \A r \in event[f].concerned : Told(f, r)' <=> Told(f, r)
      BY <2>1, EventTyped DEF Told
    <2> QED BY <2>1, <2>2, <2>3 DEF Concerns
  <1> QED BY <1>1, <1>2

LEMMA EmitKeeps ==
    ASSUME NotificationsInv, NEW code \in EventsTried, NEW actor \in Actors(code),
           EmitEvent(code, actor)
    PROVE  NotificationsInv'
  <1>0. NoticesTyped /\ Mails /\ \A f \in EventIds : Dispatched(f) /\ Concerns(f)
    BY DEF NotificationsInv
  <1>1. PICK e \in EventIds :
           /\ e = Cardinality(Known) + 1 /\ event[e] = NULL
           /\ \E n \in 0 .. MaxEvents : Known \cup {e} = 1 .. n
    BY FreshEvent DEF EmitEvent, NotificationsInv
  <1>2. PICK moved :
           moved = IF assignee' = assignee THEN {} ELSE {assignee, assignee'} \ {NULL}
    OBVIOUS
  <1>3. PICK concerned : concerned = Found(code, actor, assignee', active, muted, invalidMail)
    OBVIOUS
  <1>4. PICK new : new = [code |-> code, actor |-> actor, phase |-> "emitted", left |-> {},
                          disturbed |-> {}, concerned |-> concerned]
    OBVIOUS
  <1>5. /\ event' = [Disturb(moved) EXCEPT ![e] = new]
        /\ UNCHANGED <<active, muted, invalidMail, inApp, mailed, changes>>
    BY <1>1, <1>2, <1>3, <1>4 DEF EmitEvent, Found, FoundAs, NamesOf, AsksMail, AsRead
  <1>6. assignee' \in Staff \cup {NULL} /\ moved \in SUBSET People
    BY <1>0, <1>2 DEF EmitEvent, NoticesTyped, People
  <1>7. code \in EventCode /\ actor \in People \cup {NULL}
    BY NotificationsBounds, ActorsAreKnown
  <1>8. /\ concerned \in SUBSET Recipient
        /\ \A r, s \in concerned : r.person = s.person => r = s
    BY <1>0, <1>3, <1>7, FoundFacts DEF NoticesTyped
  <1>9. new \in Event /\ new # NULL
    BY <1>4, <1>7, <1>8, NotificationsNull DEF Event
  <1>10. /\ Disturb(moved) \in [EventIds -> Event \cup {NULL}]
         /\ \A f \in EventIds : Disturb(moved)[f] = NULL <=> event[f] = NULL
    <2>1. Disturb(moved) = [f \in EventIds |-> Disturb(moved)[f]]
      BY DEF Disturb
    <2> QED BY <1>0, <1>6, <2>1, DisturbFacts
  <1>11. /\ event' \in [EventIds -> Event \cup {NULL}]
         /\ event'[e] = new
         /\ \A f \in EventIds \ {e} : event'[f] = Disturb(moved)[f]
    BY <1>1, <1>5, <1>9, <1>10
  <1>12. NoticesTyped' /\ Mails'
    BY <1>0, <1>5, <1>6, <1>11 DEF NoticesTyped, Mails
  <1>13. EventsNumbered'
    <2>1. Known' = Known \cup {e}
      BY <1>1, <1>9, <1>10, <1>11 DEF Known
    <2> QED BY <1>1, <2>1 DEF EventsNumbered
  <1>14. Dispatched(e)'
    BY <1>0, <1>1, <1>4, <1>5, <1>11 DEF Dispatched
  <1>15. Concerns(e)'
    BY <1>3, <1>4, <1>5, <1>8, <1>11 DEF Concerns
  <1>16. ASSUME NEW f \in EventIds \ {e} PROVE Dispatched(f)' /\ Concerns(f)'
    <2>1. \A p \in People \ moved :
             /\ assignee' = assignee \/ (p # assignee /\ p # assignee')
             /\ p \in active' <=> p \in active
             /\ muted'[p] = muted[p]
             /\ p \in invalidMail' <=> p \in invalidMail
      BY <1>2, <1>5, NotificationsNull
    <2> QED BY <1>0, <1>5, <1>6, <1>11, <2>1, DisturbKept
  <1> QED BY <1>12, <1>13, <1>14, <1>15, <1>16 DEF NotificationsInv

(* A step of one dispatch, which leaves the others and what they read alone.    *)
LEMMA OneMoves ==
    ASSUME NotificationsInv, NEW e \in EventIds, event[e] # NULL, NEW moved \in Event,
           event' = [event EXCEPT ![e] = moved],
           UNCHANGED <<assignee, active, muted, invalidMail>>,
           inApp' \in [EventIds \X People -> Nat],
           \A f \in EventIds \ {e}, p \in People :
              /\ inApp'[<<f, p>>] = inApp[<<f, p>>]
              /\ <<f, p>> \in mailed' <=> <<f, p>> \in mailed,
           \A p \in People : <<e, p>> \in mailed' => inApp'[<<e, p>>] > 0,
           Dispatched(e)', Concerns(e)'
    PROVE  NotificationsInv'
  <1>1. NoticesTyped /\ \A f \in EventIds : Dispatched(f) /\ Concerns(f)
    BY DEF NotificationsInv
  <1>2. /\ event' \in [EventIds -> Event \cup {NULL}] /\ event'[e] = moved /\ moved # NULL
        /\ \A f \in EventIds \ {e} : event'[f] = event[f]
        /\ Known' = Known
    BY <1>1, NotificationsNull DEF NoticesTyped, Known
  <1>3. NoticesTyped' /\ EventsNumbered'
    BY <1>1, <1>2 DEF NotificationsInv, NoticesTyped, EventsNumbered
  <1>4. Mails'
    <2> SUFFICES ASSUME NEW f \in EventIds, NEW p \in People, <<f, p>> \in mailed'
                 PROVE  inApp'[<<f, p>>] > 0
      BY DEF Mails
    <2>1. CASE f = e
      BY <2>1
    <2>2. CASE f # e
      BY <2>2 DEF NotificationsInv, Mails
    <2> QED BY <2>1, <2>2
  <1>5. \A f \in EventIds \ {e} : Dispatched(f)' /\ Concerns(f)'
    BY <1>1, <1>2, EventKept
  <1> QED BY <1>3, <1>4, <1>5 DEF NotificationsInv

LEMMA ResolveKeeps ==
    ASSUME NotificationsInv, NEW e \in EventIds, Resolve(e)
    PROVE  NotificationsInv'
  <1>0. NoticesTyped /\ Mails /\ Dispatched(e) /\ Concerns(e)
    BY DEF NotificationsInv
  <1>1. /\ event[e] \in Event /\ event[e] # NULL /\ event[e].phase = "emitted"
        /\ event[e].code \in EventCode
        /\ UNCHANGED <<assignee, active, muted, invalidMail, inApp, mailed>>
    BY <1>0, EventTyped DEF Resolve, Known
  <1>2. /\ inApp' \in [EventIds \X People -> Nat]
        /\ \A p \in People : <<e, p>> \in mailed' => inApp'[<<e, p>>] > 0
    BY <1>0, <1>1 DEF NoticesTyped, Mails
  <1>3. CASE event' = [event EXCEPT ![e].phase = "lost"]
    <2>1. PICK now : now = [event[e] EXCEPT !.phase = "lost"]
      OBVIOUS
    <2>2. /\ now \in Event /\ now.phase = "lost" /\ now.left = event[e].left
          /\ now.actor = event[e].actor /\ now.concerned = event[e].concerned
      BY <1>1, <2>1 DEF Event
    <2>3. event' = [event EXCEPT ![e] = now]
      BY <1>3, <2>1
    <2>4. event'[e] = now
      BY <1>0, <2>3 DEF NoticesTyped
    <2>5. Dispatched(e)' /\ Concerns(e)'
      BY <1>0, <1>1, <2>2, <2>4 DEF Dispatched, Concerns
    <2> QED BY <1>1, <1>2, <2>2, <2>3, <2>5, OneMoves
  <1>4. CASE event' = [event EXCEPT ![e].phase = "delivering",
                                    ![e].left = Recipients(event[e].code, event[e].actor)]
    <2>1. PICK found :
             found = Found(event[e].code, event[e].actor, assignee, active, muted, invalidMail)
      OBVIOUS
    <2>2. found = Recipients(event[e].code, event[e].actor)
      BY <2>1, RecipientsAreFound
    <2>3. /\ found \in SUBSET Recipient
          /\ \A r \in found : r.person # event[e].actor
          /\ \A r, s \in found : r.person = s.person => r = s
      BY <1>0, <1>1, <2>1, FoundFacts DEF NoticesTyped
    <2>4. PICK now : now = [event[e] EXCEPT !.phase = "delivering", !.left = found]
      OBVIOUS
    <2>5. /\ now \in Event /\ now.phase = "delivering" /\ now.left = found
          /\ now.code = event[e].code /\ now.actor = event[e].actor
          /\ now.disturbed = event[e].disturbed /\ now.concerned = event[e].concerned
      BY <1>1, <2>3, <2>4 DEF Event
    <2>6. event' = [event EXCEPT ![e] = now]
      BY <1>4, <2>2, <2>4
    <2>7. event'[e] = now
      BY <1>0, <2>6 DEF NoticesTyped
    <2>8. \A r \in found : r.person \in People
      BY <2>3 DEF Recipient
    <2>9. Dispatched(e)'
      BY <1>0, <1>1, <2>3, <2>5, <2>7, <2>8 DEF Dispatched
    <2>10. \A r \in Recipient : r.person \notin event[e].disturbed =>
              (r \in event[e].concerned <=> r \in found)
      BY <1>0, <1>1, <2>1 DEF Concerns
    <2>11. event[e].concerned \subseteq Recipient
      BY <1>0, <1>1, EventTyped
    <2>12. \A p \in People : ~(inApp[<<e, p>>] > 0)
      BY <1>0, <1>1 DEF Dispatched
    <2>13. Concerns(e)'
      <3>1. \A r, s \in event[e].concerned : r.person = s.person => r = s
        BY <1>0, <1>1 DEF Concerns
      <3>2. \A r \in event[e].concerned : r.person \in event[e].disturbed \/ r \in found
        BY <2>10, <2>11
      <3>3. \A r \in found : r.person \in event[e].disturbed \/ r \in event[e].concerned
        BY <2>3, <2>10
      <3> QED BY <1>1, <2>5, <2>7, <2>12, <3>1, <3>2, <3>3 DEF Concerns
    <2> QED BY <1>1, <1>2, <2>5, <2>6, <2>9, <2>13, OneMoves
  <1> QED BY <1>3, <1>4 DEF Resolve

(* A recipient is taken off the list with the notification saved or not, the     *)
(* mail sent or not.                                                       *)
LEMMA TakenOff ==
    ASSUME NotificationsInv, NEW e \in EventIds, event[e] # NULL, event[e].phase = "delivering",
           NEW r \in event[e].left, NEW now \in Event,
           now.phase = "delivering", now.code = event[e].code, now.actor = event[e].actor,
           now.left = event[e].left \ {r}, now.concerned = event[e].concerned,
           event[e].disturbed \subseteq now.disturbed,
           event' = [event EXCEPT ![e] = now],
           UNCHANGED <<assignee, active, muted, invalidMail>>,
           NEW shown \in BOOLEAN, NEW sent \in BOOLEAN, sent => shown,
           inApp' = IF shown THEN [inApp EXCEPT ![<<e, r.person>>] = @ + 1] ELSE inApp,
           mailed' = IF sent THEN mailed \cup {<<e, r.person>>} ELSE mailed,
           \/ r.person \in now.disturbed
           \/ /\ shown <=> IsOn(event[e].code, r, "IN_APP")
              /\ sent <=> /\ r.email /\ r.valid
                          /\ IsOn(event[e].code, r, "IN_APP") /\ IsOn(event[e].code, r, "EMAIL")
    PROVE  NotificationsInv'
  <1>0. NoticesTyped /\ Mails /\ Dispatched(e) /\ Concerns(e)
    BY DEF NotificationsInv
  <1>1. /\ r.person \in People /\ inApp[<<e, r.person>>] = 0 /\ r.person # event[e].actor
        /\ r \in Recipient
    BY <1>0, EventTyped DEF Dispatched
  <1>2. event'[e] = now
    BY <1>0 DEF NoticesTyped
  <1>3. /\ inApp' \in [EventIds \X People -> Nat]
        /\ inApp'[<<e, r.person>>] = IF shown THEN 1 ELSE 0
        /\ \A f \in EventIds, p \in People :
              f # e \/ p # r.person => inApp'[<<f, p>>] = inApp[<<f, p>>]
    <2>1. <<e, r.person>> \in EventIds \X People
      BY <1>1
    <2>2. CASE shown
      BY <1>0, <1>1, <2>1, <2>2 DEF NoticesTyped
    <2>3. CASE ~shown
      BY <1>0, <1>1, <2>3 DEF NoticesTyped
    <2> QED BY <2>2, <2>3
  <1>4. <<e, r.person>> \notin mailed
    BY <1>0, <1>1 DEF Mails
  <1>5. /\ <<e, r.person>> \in mailed' <=> sent
        /\ \A f \in EventIds, p \in People :
              f # e \/ p # r.person => (<<f, p>> \in mailed' <=> <<f, p>> \in mailed)
    BY <1>4
  <1>6. \A p \in People : <<e, p>> \in mailed' => inApp'[<<e, p>>] > 0
    <2> SUFFICES ASSUME NEW p \in People, <<e, p>> \in mailed' PROVE inApp'[<<e, p>>] > 0
      OBVIOUS
    <2>1. CASE p = r.person
      BY <1>3, <1>5, <2>1
    <2>2. CASE p # r.person
      BY <1>0, <1>3, <1>5, <2>2 DEF Mails
    <2> QED BY <2>1, <2>2
  <1>7. \A s \in now.left :
           s \in event[e].left /\ s.person \in People /\ s.person # r.person
    BY <1>0, EventTyped DEF Dispatched
  <1>8. Dispatched(e)'
    <2>1. \A s \in now.left : inApp'[<<e, s.person>>] = 0 /\ s.person # event[e].actor
      BY <1>0, <1>3, <1>7 DEF Dispatched
    <2>2. \A s, t \in now.left : s.person = t.person => s = t
      BY <1>0, <1>7 DEF Dispatched
    <2>3. \A p \in People : inApp'[<<e, p>>] <= 1 /\ (p = event[e].actor => inApp'[<<e, p>>] = 0)
      BY <1>0, <1>1, <1>3 DEF Dispatched
    <2> QED BY <1>2, <2>1, <2>2, <2>3, NotificationsNull DEF Dispatched
  <1>9. Concerns(e)'
    <2>1. ASSUME NEW s \in event[e].concerned, s.person \notin now.disturbed, s \notin now.left
          PROVE  Told(e, s)'
      <3>1. s.person \in People /\ s.person \notin event[e].disturbed
        BY <1>0, <2>1, EventTyped
      <3>2. s \in event[e].left \/ Told(e, s)
        BY <1>0, <2>1, <3>1 DEF Concerns
      <3>3. CASE s = r
        BY <1>2, <1>3, <1>5, <2>1, <3>3 DEF Told
      <3>4. CASE s # r /\ s.person # r.person
        BY <1>2, <1>3, <1>5, <2>1, <3>1, <3>2, <3>4 DEF Told
      <3>5. CASE s # r /\ s.person = r.person
        <4>1. r \in event[e].concerned
          BY <1>0, <2>1, <3>1, <3>5 DEF Concerns
        <4> QED BY <1>0, <3>5, <4>1 DEF Concerns
      <3> QED BY <3>3, <3>4, <3>5
    <2>2. \A s \in now.left : s.person \in now.disturbed \/ s \in event[e].concerned
      BY <1>0, <1>7 DEF Concerns
    <2>3. ASSUME NEW p \in People, p \notin now.disturbed, inApp'[<<e, p>>] > 0
          PROVE  \E s \in event[e].concerned : s.person = p
      <3>1. CASE p = r.person
        BY <1>0, <2>3, <3>1 DEF Concerns
      <3>2. CASE p # r.person
        BY <1>0, <1>3, <2>3, <3>2 DEF Concerns
      <3> QED BY <3>1, <3>2
    <2>4. \A s, t \in event[e].concerned : s.person = t.person => s = t
      BY <1>0 DEF Concerns
    <2> QED BY <1>2, <2>1, <2>2, <2>3, <2>4 DEF Concerns
  <1>10. \A f \in EventIds \ {e}, p \in People :
            /\ inApp'[<<f, p>>] = inApp[<<f, p>>]
            /\ <<f, p>> \in mailed' <=> <<f, p>> \in mailed
    BY <1>3, <1>5
  <1> QED BY <1>3, <1>6, <1>8, <1>9, <1>10, OneMoves

LEMMA DeliverKeeps ==
    ASSUME NotificationsInv, NEW e \in EventIds, e \in Known, NEW r \in event[e].left, Deliver(e, r)
    PROVE  NotificationsInv'
  <1>1. /\ event[e] \in Event /\ event[e] # NULL /\ event[e].phase = "delivering"
        /\ UNCHANGED <<assignee, active, muted, invalidMail>> /\ r \in Recipient
    BY EventTyped DEF NotificationsInv, Deliver, Known
  <1>2. PICK now : now = [event[e] EXCEPT !.left = @ \ {r}]
    OBVIOUS
  <1>3. /\ now \in Event /\ now.phase = "delivering" /\ now.left = event[e].left \ {r}
        /\ now.code = event[e].code /\ now.actor = event[e].actor
        /\ now.disturbed = event[e].disturbed /\ now.concerned = event[e].concerned
    BY <1>1, <1>2 DEF Event
  <1>4. event' = [event EXCEPT ![e] = now]
    BY <1>2 DEF Deliver
  <1>5. PICK def : def = NOTIFICATION_EVENTS[event[e].code]
    OBVIOUS
  <1>6. PICK shown : shown = ShownInApp(def, r)
    OBVIOUS
  <1>7. PICK sent : sent = (ShownInApp(def, r) /\ Mailed(def, r))
    OBVIOUS
  <1>8. /\ shown \in BOOLEAN /\ sent \in BOOLEAN /\ (sent => shown)
        /\ shown <=> IsOn(event[e].code, r, "IN_APP")
        /\ sent <=> /\ r.email /\ r.valid
                    /\ IsOn(event[e].code, r, "IN_APP") /\ IsOn(event[e].code, r, "EMAIL")
    BY <1>5, <1>6, <1>7 DEF ShownInApp, Mailed, IsOn
  <1>9. /\ inApp' = IF shown THEN [inApp EXCEPT ![<<e, r.person>>] = @ + 1] ELSE inApp
        /\ mailed' = IF sent THEN mailed \cup {<<e, r.person>>} ELSE mailed
    BY <1>5, <1>6, <1>7 DEF Deliver
  <1> QED BY <1>1, <1>3, <1>4, <1>8, <1>9, TakenOff

LEMMA DeliveryFailsKeeps ==
    ASSUME NotificationsInv, NEW e \in EventIds, e \in Known, NEW r \in event[e].left,
           DeliveryFails(e, r)
    PROVE  NotificationsInv'
  <1>1. /\ event[e] \in Event /\ event[e] # NULL /\ event[e].phase = "delivering"
        /\ UNCHANGED <<assignee, active, muted, invalidMail, mailed>> /\ r.person \in People
    BY EventTyped DEF NotificationsInv, DeliveryFails, Known
  <1>2. PICK now : now = [event[e] EXCEPT !.left = @ \ {r}, !.disturbed = @ \cup {r.person}]
    OBVIOUS
  <1>3. /\ now \in Event /\ now.phase = "delivering" /\ now.left = event[e].left \ {r}
        /\ now.code = event[e].code /\ now.actor = event[e].actor
        /\ now.disturbed = event[e].disturbed \cup {r.person}
        /\ now.concerned = event[e].concerned
    BY <1>1, <1>2 DEF Event
  <1>4. event' = [event EXCEPT ![e] = now]
    BY <1>2 DEF DeliveryFails
  <1>5. PICK shown \in BOOLEAN :
           inApp' = IF shown THEN [inApp EXCEPT ![<<e, r.person>>] = @ + 1] ELSE inApp
    BY DEF DeliveryFails
  <1>6. mailed' = IF FALSE THEN mailed \cup {<<e, r.person>>} ELSE mailed
    BY <1>1
  <1> QED BY <1>1, <1>3, <1>4, <1>5, <1>6, TakenOff

LEMMA FinishedKeeps ==
    ASSUME NotificationsInv, NEW e \in EventIds, Finished(e)
    PROVE  NotificationsInv'
  <1>0. NoticesTyped /\ Mails /\ Dispatched(e) /\ Concerns(e)
    BY DEF NotificationsInv
  <1>1. /\ event[e] \in Event /\ event[e] # NULL /\ event[e].phase = "delivering"
        /\ event[e].left = {}
        /\ UNCHANGED <<assignee, active, muted, invalidMail, inApp, mailed>>
    BY <1>0, EventTyped DEF Finished, Known
  <1>2. PICK now : now = [event[e] EXCEPT !.phase = "done"]
    OBVIOUS
  <1>3. /\ now \in Event /\ now.phase = "done" /\ now.left = event[e].left
        /\ now.code = event[e].code /\ now.actor = event[e].actor
        /\ now.disturbed = event[e].disturbed /\ now.concerned = event[e].concerned
    BY <1>1, <1>2 DEF Event
  <1>4. event' = [event EXCEPT ![e] = now]
    BY <1>2 DEF Finished
  <1>5. event'[e] = now
    BY <1>0, <1>4 DEF NoticesTyped
  <1>6. Dispatched(e)'
    BY <1>0, <1>1, <1>3, <1>5, NotificationsNull DEF Dispatched
  <1>7. \A r \in event[e].concerned : Told(e, r)' <=> Told(e, r)
    BY <1>1, <1>3, <1>5 DEF Told
  <1>8. Concerns(e)'
    BY <1>0, <1>1, <1>3, <1>5, <1>7 DEF Concerns
  <1>9. /\ inApp' \in [EventIds \X People -> Nat]
        /\ \A p \in People : <<e, p>> \in mailed' => inApp'[<<e, p>>] > 0
    BY <1>0, <1>1 DEF NoticesTyped, Mails
  <1> QED BY <1>1, <1>3, <1>4, <1>6, <1>8, <1>9, OneMoves

LEMMA StopKeeps ==
    ASSUME NotificationsInv, Stop
    PROVE  NotificationsInv'
  <1>0. /\ NoticesTyped /\ EventsNumbered /\ Mails
        /\ \A f \in EventIds : Dispatched(f) /\ Concerns(f)
    BY DEF NotificationsInv
  <1>1. UNCHANGED <<assignee, active, muted, invalidMail, inApp, mailed, changes>>
    BY DEF Stop
  <1>2. ASSUME NEW f \in EventIds \cap Ongoing
        PROVE  /\ event'[f] \in Event /\ event'[f] # NULL /\ event'[f].phase = "lost"
               /\ event'[f].left = {} /\ event'[f].actor = event[f].actor
               /\ event'[f].concerned = event[f].concerned
    <2>1. event[f] \in Event /\ event'[f] = [event[f] EXCEPT !.phase = "lost", !.left = {}]
      BY <1>0, <1>2, EventTyped DEF Stop, Ongoing, Known
    <2>2. event'[f] \in Event
      BY <2>1 DEF Event
    <2> QED BY <2>1, <2>2, NotificationsNull DEF Event
  <1>3. \A f \in EventIds \ Ongoing : event'[f] = event[f]
    BY DEF Stop
  <1>4. event' \in [EventIds -> Event \cup {NULL}] /\ Known' = Known
    <2>1. event' = [f \in EventIds |-> event'[f]]
      BY DEF Stop
    <2>2. \A f \in EventIds : event'[f] \in Event \cup {NULL}
      BY <1>0, <1>2, <1>3 DEF NoticesTyped
    <2>3. Known' = Known
      BY <1>2, <1>3 DEF Known, Ongoing
    <2> QED BY <2>1, <2>2, <2>3
  <1>5. NoticesTyped' /\ Mails' /\ EventsNumbered'
    BY <1>0, <1>1, <1>4 DEF NoticesTyped, Mails, EventsNumbered
  <1>6. \A f \in EventIds \cap Ongoing : Dispatched(f)' /\ Concerns(f)'
    BY <1>0, <1>1, <1>2 DEF Dispatched, Concerns, Ongoing, Known
  <1>7. \A f \in EventIds \ Ongoing : Dispatched(f)' /\ Concerns(f)'
    BY <1>0, <1>1, <1>3, EventKept
  <1> QED BY <1>5, <1>6, <1>7 DEF NotificationsInv

LEMMA ChangeKeeps ==
    ASSUME NotificationsInv, NEW p \in People, Change(p)
    PROVE  NotificationsInv'
  <1>0. /\ NoticesTyped /\ EventsNumbered /\ Mails
        /\ \A f \in EventIds : Dispatched(f) /\ Concerns(f)
    BY DEF NotificationsInv
  <1>1. event' = Disturb({p}) /\ UNCHANGED <<assignee, inApp, mailed>>
    BY DEF Change
  <1>2. /\ active' \subseteq People /\ muted' \in [People -> SUBSET (EventCategory \X Channel)]
        /\ invalidMail' \subseteq People
        /\ \A q \in People \ {p} : /\ q \in active' <=> q \in active
                                   /\ muted'[q] = muted[q]
                                   /\ q \in invalidMail' <=> q \in invalidMail
    BY <1>0, NotificationsBounds DEF Change, NoticesTyped
  <1>3. event' \in [EventIds -> Event \cup {NULL}] /\ Known' = Known
    <2>1. event' = [f \in EventIds |-> event'[f]]
      BY <1>1 DEF Disturb
    <2> QED BY <1>0, <1>1, <2>1, DisturbFacts DEF Known
  <1>4. NoticesTyped' /\ Mails' /\ EventsNumbered'
    BY <1>0, <1>1, <1>2, <1>3 DEF NoticesTyped, Mails, EventsNumbered
  <1>5. \A f \in EventIds : Dispatched(f)' /\ Concerns(f)'
    BY <1>0, <1>1, <1>2, DisturbKept
  <1> QED BY <1>4, <1>5 DEF NotificationsInv

LEMMA NoticesStep == NotificationsInv /\ [NotificationsNext]_notificationsVars => NotificationsInv'
  <1> SUFFICES ASSUME NotificationsInv, [NotificationsNext]_notificationsVars
               PROVE  NotificationsInv'
    OBVIOUS
  <1>1. CASE UNCHANGED notificationsVars
    <2>1. UNCHANGED <<assignee, event, active, muted, invalidMail, inApp, mailed>>
      BY <1>1 DEF notificationsVars
    <2>2. NoticesTyped' /\ Mails' /\ EventsNumbered'
      BY <2>1 DEF NotificationsInv, NoticesTyped, Mails, EventsNumbered, Known
    <2> QED BY <2>1, <2>2, EventKept DEF NotificationsInv
  <1> QED
    BY <1>1, EmitKeeps, ResolveKeeps, DeliverKeeps, DeliveryFailsKeeps, FinishedKeeps, StopKeeps,
       ChangeKeeps DEF NotificationsNext

LEMMA NoticesHold == NotificationsSpec => []NotificationsInv
  BY NoticesStart, NoticesStep, PTL DEF NotificationsSpec

-----------------------------------------------------------------------------
(* The rows and the dispatches keep their types, and a mail always has its      *)
(* notification beside it (NotificationsService.deliverTo).                  *)
THEOREM NotificationsTyped == NotificationsSpec => []NotificationsTypeOK
  <1>1. NotificationsInv => NotificationsTypeOK
    BY DEF NotificationsInv, NoticesTyped, Mails, NotificationsTypeOK
  <1> QED BY <1>1, NoticesHold, PTL

(* Nobody is told twice of one event, nor the actor once (resolveRecipients).    *)
THEOREM NobodyToldTwice == NotificationsSpec => []ToldOnce
  <1>1. NotificationsInv => ToldOnce
    <2> SUFFICES ASSUME NotificationsInv, NEW e \in Known, NEW p \in People
                 PROVE  inApp[<<e, p>>] <= 1 /\ (p = event[e].actor => inApp[<<e, p>>] = 0)
      BY DEF ToldOnce
    <2> QED BY DEF NotificationsInv, Dispatched, Known
  <1> QED BY <1>1, NoticesHold, PTL

(* dispatch, deliverTo: at the end of a dispatch, whoever the event concerned     *)
(* when it was emitted has the notification and the mail that were due, and      *)
(* nobody else has any, but for those of whom something changed or failed.      *)
THEOREM WhomItConcernsIsTold == NotificationsSpec => []ConcernedAreTold
  <1>1. NotificationsInv => ConcernedAreTold
    <2> SUFFICES ASSUME NotificationsInv, NEW e \in Known, event[e].phase = "done"
                 PROVE  /\ \A r \in event[e].concerned :
                              r.person \notin event[e].disturbed => Told(e, r)
                        /\ \A p \in People \ event[e].disturbed :
                              inApp[<<e, p>>] > 0 => \E r \in event[e].concerned : r.person = p
      BY DEF ConcernedAreTold, Told, IsOn
    <2>1. event[e].left = {} /\ event[e] # NULL /\ Concerns(e)
      BY DEF NotificationsInv, Dispatched, Known
    <2> QED BY <2>1 DEF Concerns
  <1> QED BY <1>1, NoticesHold, PTL

-----------------------------------------------------------------------------
(* The bell of one person, and what its calls carry.                         *)
Lists == UNION {[shown -> BOOLEAN] : shown \in SUBSET Notes}

Loading == [phase : {"list", "count", "answered"}, what : {"load"}, note : {NULL},
            list : Lists \cup {NULL}, count : Nat, crossed : BOOLEAN, failed : BOOLEAN]
Marking == [phase : {"sent", "answered"}, what : {"mark"}, note : Notes,
            list : {NULL}, count : {0}, crossed : BOOLEAN, failed : BOOLEAN]
MarkingAll == [phase : {"sent", "answered"}, what : {"markAll"}, note : {NULL},
               list : {NULL}, count : {0}, crossed : BOOLEAN, failed : BOOLEAN]

BellCall == Loading \cup Marking \cup MarkingAll

BellTyped ==
    /\ note \in [Notes -> {NULL, "unread", "read"}]
    /\ pushed \subseteq {n \in Notes : note[n] # NULL}
    /\ bell \in [open : BOOLEAN, unread : Nat, items : Lists \cup {NULL}, loading : BOOLEAN]
    /\ asking \in [Requests -> BellCall \cup {Silent}]
    /\ drifted \in BOOLEAN

(* The list as it was before the pushes that are on their way.                *)
ListedBefore(hidden) ==
    [n \in {m \in Notes : note[m] # NULL} \ hidden |-> note[n] = "read"]

(* The bell lacks the pushes on their way and nothing else.                   *)
Exact ==
    /\ pushed \subseteq Unread
    /\ bell.unread + Cardinality(pushed) = Cardinality(Unread)
    /\ bell.open /\ bell.items # NULL => bell.items = ListedBefore(pushed)

(* A call that nothing crossed is alone.                                     *)
AloneAsking == \A c \in Asking : ~asking[c].crossed => Asking = {c} /\ pushed = {}

(* What such a call has read or written so far.                              *)
LoadFits(call) ==
    /\ call.phase # "list" => call.list = Listed
    /\ call.phase = "answered" => call.count = Cardinality(Unread)

MarkFits(call) ==
    /\ call.phase = "sent" => Exact /\ note[call.note] = "unread"
    /\ call.phase = "answered" => bell.unread = Cardinality(Unread) + 1

SameRows == bell.open /\ bell.items # NULL => DOMAIN bell.items = DOMAIN Listed

MarkAllFits(call) ==
    /\ call.phase = "sent" => Exact
    /\ call.phase = "answered" => Unread = {} /\ SameRows

CallFits(call) ==
    ~call.crossed /\ ~call.failed =>
        /\ call \in Loading => LoadFits(call)
        /\ call \in Marking /\ ~drifted => MarkFits(call)
        /\ call \in MarkingAll /\ ~drifted => MarkAllFits(call)

BellInv ==
    /\ BellTyped
    /\ AloneAsking
    /\ \A c \in Asking : CallFits(asking[c])
    /\ Asking = {} /\ ~drifted => Exact

-----------------------------------------------------------------------------
LEMMA NotesCounted ==
    ASSUME NEW S \in SUBSET Notes
    PROVE  IsFiniteSet(S) /\ Cardinality(S) \in Nat
  BY FS_Subset, FS_CardinalityType, InboxAssumption

LEMMA UnreadCounted ==
    /\ IsFiniteSet(Unread) /\ Cardinality(Unread) \in Nat
    /\ BellTyped => IsFiniteSet(pushed) /\ Cardinality(pushed) \in Nat
  BY NotesCounted DEF Unread, BellTyped

LEMMA ListedIsAList == BellTyped => Listed \in Lists /\ Listed # NULL
<1> SUFFICES ASSUME BellTyped  PROVE Listed \in Lists /\ Listed # NULL
  OBVIOUS
<1> DEFINE rows == {m \in Notes : note[m] # NULL}
<1>1. Listed \in [rows -> BOOLEAN] /\ rows \in SUBSET Notes
  BY DEF Listed
<1> HIDE DEF rows
<1> QED  BY <1>1, InboxNull DEF Lists

LEMMA NothingHidden == ListedBefore({}) = Listed
  BY DEF ListedBefore, Listed

LEMMA EmptyList == << >> \in Lists
<1>1. << >> \in [{} -> BOOLEAN]
  OBVIOUS
<1> QED  BY <1>1 DEF Lists

LEMMA CallKinds ==
    ASSUME BellTyped, NEW c \in Requests, asking[c] # Silent
    PROVE  /\ asking[c] \in BellCall
           /\ c \in Asking
           /\ asking[c].what = "load" <=> asking[c] \in Loading
           /\ asking[c].what = "mark" <=> asking[c] \in Marking
           /\ asking[c].what = "markAll" <=> asking[c] \in MarkingAll
           /\ asking[c].phase \in {"list", "count"} => asking[c] \in Loading
           /\ asking[c].phase = "sent" => asking[c] \in Marking \cup MarkingAll
<1>1. asking[c] \in BellCall /\ c \in Asking
  BY DEF BellTyped, Asking
<1> QED  BY <1>1 DEF BellCall, Loading, Marking, MarkingAll

LEMMA CallIsNotSilent == \A work \in BellCall : work # Silent /\ work.phase # "none"
  BY DEF BellCall, Silent, Loading, Marking, MarkingAll

(* What happens while calls are under way crosses them all.                   *)
LEMMA CrossingAll ==
    ASSUME BellTyped, asking' = Crossing(asking)
    PROVE  /\ asking' \in [Requests -> BellCall \cup {Silent}]
           /\ Asking' = Asking
           /\ \A c \in Asking : asking'[c].crossed
<1>1. asking' = [c \in Requests |-> IF asking[c] = Silent THEN asking[c]
                                    ELSE [asking[c] EXCEPT !.crossed = TRUE]]
  BY DEF Crossing
<1>2. ASSUME NEW c \in Requests, asking[c] # Silent
      PROVE  asking'[c] \in BellCall /\ asking'[c].crossed
  <2>1. asking[c] \in BellCall
    BY <1>2, CallKinds
  <2>2. asking'[c] = [asking[c] EXCEPT !.crossed = TRUE]
    BY <1>1, <1>2
  <2> QED  BY <2>1, <2>2 DEF BellCall, Loading, Marking, MarkingAll
<1>3. \A c \in Requests : asking[c] = Silent => asking'[c] = Silent
  BY <1>1
<1>4. asking' \in [Requests -> BellCall \cup {Silent}]
  BY <1>1, <1>2, <1>3
<1> QED  BY <1>2, <1>3, <1>4, CallIsNotSilent DEF Asking

LEMMA CrossedFit ==
    ASSUME Asking' = Asking, \A c \in Asking : asking'[c].crossed
    PROVE  AloneAsking' /\ \A c \in Asking' : CallFits(asking[c])'
  BY DEF AloneAsking, CallFits

(* A call of the bell starts.                                                *)
LEMMA AskMoves ==
    ASSUME BellTyped, NEW phase, NEW what, NEW n, Ask(phase, what, n),
           \A cross \in BOOLEAN :
              [phase |-> phase, what |-> what, note |-> n, list |-> NULL, count |-> 0,
               crossed |-> cross, failed |-> FALSE] \in BellCall
    PROVE  \E c \in Requests \ Asking, cross \in BOOLEAN :
              /\ asking' \in [Requests -> BellCall \cup {Silent}]
              /\ Asking' = Asking \cup {c}
              /\ \A d \in Asking : asking'[d].crossed
              /\ asking'[c] = [phase |-> phase, what |-> what, note |-> n, list |-> NULL,
                               count |-> 0, crossed |-> cross, failed |-> FALSE]
              /\ ~cross => Asking = {} /\ pushed' = {}
<1> DEFINE cross == Asking # {} \/ pushed' # {}
           calls == Crossing(asking)
           work  == [phase |-> phase, what |-> what, note |-> n, list |-> NULL, count |-> 0,
                     crossed |-> cross, failed |-> FALSE]
<1>1. PICK c \in Requests \ Asking : asking' = [calls EXCEPT ![c] = work]
  BY DEF Ask
<1>2. cross \in BOOLEAN /\ (~cross => Asking = {} /\ pushed' = {})
  OBVIOUS
<1> HIDE DEF cross
<1>3. work \in BellCall
  BY <1>2
<1>4. /\ calls \in [Requests -> BellCall \cup {Silent}]
      /\ \A d \in Requests : calls[d] = Silent <=> asking[d] = Silent
      /\ \A d \in Asking : calls[d].crossed
  <2>1. calls = [d \in Requests |-> IF asking[d] = Silent THEN asking[d]
                                    ELSE [asking[d] EXCEPT !.crossed = TRUE]]
    BY DEF Crossing
  <2> HIDE DEF calls
  <2>2. ASSUME NEW d \in Requests, asking[d] # Silent
        PROVE  calls[d] \in BellCall /\ calls[d].crossed /\ calls[d] # Silent
    <3>1. asking[d] \in BellCall
      BY <2>2, CallKinds
    <3>2. calls[d] \in BellCall /\ calls[d].crossed
      BY <2>1, <2>2, <3>1 DEF BellCall, Loading, Marking, MarkingAll
    <3> QED  BY <3>2, CallIsNotSilent
  <2>3. \A d \in Requests : asking[d] = Silent => calls[d] = Silent
    BY <2>1
  <2>4. calls \in [Requests -> BellCall \cup {Silent}]
    BY <2>1, <2>2, <2>3
  <2> QED  BY <2>2, <2>3, <2>4 DEF Asking
<1> HIDE DEF calls
<1>5. work # Silent
  BY <1>3, CallIsNotSilent
<1> HIDE DEF work
<1>6. asking' \in [Requests -> BellCall \cup {Silent}] /\ asking'[c] = work
      /\ \A d \in Requests : d # c => asking'[d] = calls[d]
  BY <1>1, <1>3, <1>4
<1>7. Asking' = Asking \cup {c}
  BY <1>4, <1>5, <1>6 DEF Asking
<1>8. \A d \in Asking : asking'[d].crossed
  BY <1>4, <1>6 DEF Asking
<1> QED  BY <1>2, <1>6, <1>7, <1>8 DEF work

LEMMA AskFits ==
    ASSUME NEW c \in Requests \ Asking, Asking' = Asking \cup {c},
           \A d \in Asking : asking'[d].crossed,
           ~asking'[c].crossed => Asking = {} /\ pushed' = {},
           CallFits(asking[c])'
    PROVE  /\ AloneAsking' /\ \A d \in Asking' : CallFits(asking[d])'
           /\ Asking' # {}
<1>1. \A d \in Asking' : d = c \/ asking'[d].crossed
  OBVIOUS
<1>2. AloneAsking'
  BY <1>1 DEF AloneAsking
<1>3. ASSUME NEW d \in Asking'  PROVE CallFits(asking[d])'
  BY <1>1, <1>3 DEF CallFits
<1> QED  BY <1>2, <1>3

(* One call goes on: the others are crossed, unless they are the only ones.      *)
LEMMA BellCallMoves ==
    ASSUME BellInv, NEW c \in Requests, asking[c] # Silent, NEW work \in BellCall,
           asking' = [asking EXCEPT ![c] = work], work.crossed = asking[c].crossed,
           pushed' = pushed, CallFits(work)'
    PROVE  /\ asking' \in [Requests -> BellCall \cup {Silent}]
           /\ Asking' = Asking /\ Asking # {}
           /\ AloneAsking'
           /\ \A d \in Asking' : CallFits(asking[d])'
<1>1. /\ asking' \in [Requests -> BellCall \cup {Silent}]
      /\ asking'[c] = work /\ \A d \in Requests : d # c => asking'[d] = asking[d]
  BY DEF BellInv, BellTyped
<1>2. Asking' = Asking /\ c \in Asking
  BY <1>1, CallIsNotSilent DEF Asking
<1>3. AloneAsking'
  BY <1>1, <1>2 DEF BellInv, AloneAsking, Asking
<1>4. ASSUME NEW d \in Asking', d # c  PROVE CallFits(asking[d])'
  <2>1. asking'[d].crossed
    BY <1>1, <1>2, <1>4 DEF BellInv, AloneAsking, Asking
  <2> QED  BY <2>1 DEF CallFits
<1>5. CallFits(asking[c])'
  BY <1>1 DEF CallFits, LoadFits, MarkFits, MarkAllFits
<1> QED  BY <1>1, <1>2, <1>3, <1>4, <1>5

-----------------------------------------------------------------------------
LEMMA NotifyKeeps ==
    ASSUME BellInv, NEW n \in Notes, Notify(n)
    PROVE  BellInv'
<1> USE DEF BellInv
<1>1. /\ asking' \in [Requests -> BellCall \cup {Silent}] /\ Asking' = Asking
      /\ AloneAsking' /\ \A c \in Asking' : CallFits(asking[c])'
  BY CrossingAll, CrossedFit DEF Notify
<1>2. /\ note[n] = NULL /\ note' = [note EXCEPT ![n] = "unread"] /\ bell' = bell
      /\ \/ pushed' = pushed \cup {n} /\ drifted' = drifted
         \/ pushed' = pushed /\ drifted' = TRUE
  BY DEF Notify
<1>3. /\ note' \in [Notes -> {NULL, "unread", "read"}] /\ note'[n] = "unread"
      /\ \A m \in Notes : m # n => note'[m] = note[m]
  BY <1>2 DEF BellTyped
<1>4. BellTyped'
  BY <1>1, <1>2, <1>3, InboxNull DEF BellTyped
<1>5. ASSUME Asking' = {}, ~drifted'  PROVE Exact'
  <2>1. Exact /\ pushed' = pushed \cup {n}
    BY <1>1, <1>2, <1>5
  <2>2. n \notin pushed /\ n \notin Unread
    BY <1>2, InboxNull DEF BellTyped, Unread
  <2>3. Unread' = Unread \cup {n}
    BY <1>3 DEF Unread
  <2>4. Cardinality(Unread') = Cardinality(Unread) + 1
    BY <2>2, <2>3, UnreadCounted, FS_AddElement
  <2>5. Cardinality(pushed') = Cardinality(pushed) + 1
    BY <2>1, <2>2, UnreadCounted, FS_AddElement
  <2>6. ListedBefore(pushed)' = ListedBefore(pushed)
    <3>1. {m \in Notes : note'[m] # NULL} \ pushed' = {m \in Notes : note[m] # NULL} \ pushed
      BY <1>2, <1>3, <2>1
    <3>2. \A m \in {k \in Notes : note[k] # NULL} \ pushed : note'[m] = note[m]
      BY <1>2, <1>3
    <3> QED  BY <3>1, <3>2 DEF ListedBefore
  <2>7. bell.unread + Cardinality(pushed') = Cardinality(Unread')
    BY <2>1, <2>4, <2>5, UnreadCounted DEF Exact, BellTyped
  <2> QED  BY <1>2, <2>1, <2>3, <2>6, <2>7 DEF Exact
<1> QED  BY <1>1, <1>4, <1>5

LEMMA ReadElsewhereKeeps ==
    ASSUME BellInv, ReadElsewhere
    PROVE  BellInv'
<1> USE DEF BellInv
<1>1. /\ asking' \in [Requests -> BellCall \cup {Silent}] /\ Asking' = Asking
      /\ AloneAsking' /\ \A c \in Asking' : CallFits(asking[c])'
  BY CrossingAll, CrossedFit DEF ReadElsewhere
<1>2. PICK read \in {{n} : n \in Unread} \cup {Unread} :
         note' = [n \in Notes |-> IF n \in read THEN "read" ELSE note[n]]
  BY DEF ReadElsewhere
<1>3. drifted' = TRUE /\ UNCHANGED <<pushed, bell>>
  BY DEF ReadElsewhere
<1>4. /\ note' \in [Notes -> {NULL, "unread", "read"}]
      /\ \A n \in Notes : note[n] # NULL => note'[n] # NULL
  BY <1>2, InboxNull DEF BellTyped
<1>5. BellTyped'
  BY <1>1, <1>3, <1>4 DEF BellTyped
<1> QED  BY <1>1, <1>3, <1>5

LEMMA LoadAsked ==
    ASSUME BellTyped, loadList
    PROVE  /\ asking' \in [Requests -> BellCall \cup {Silent}]
           /\ AloneAsking' /\ \A d \in Asking' : CallFits(asking[d])'
           /\ Asking' # {}
<1>1. \A cross \in BOOLEAN :
         [phase |-> "list", what |-> "load", note |-> NULL, list |-> NULL, count |-> 0,
          crossed |-> cross, failed |-> FALSE] \in Loading
  BY DEF Loading
<1>2. PICK c \in Requests \ Asking, cross \in BOOLEAN :
         /\ asking' \in [Requests -> BellCall \cup {Silent}]
         /\ Asking' = Asking \cup {c}
         /\ \A d \in Asking : asking'[d].crossed
         /\ asking'[c] = [phase |-> "list", what |-> "load", note |-> NULL, list |-> NULL,
                          count |-> 0, crossed |-> cross, failed |-> FALSE]
         /\ ~cross => Asking = {} /\ pushed' = {}
  BY <1>1, AskMoves DEF loadList, BellCall
<1>3. asking'[c] \in Loading /\ asking'[c].phase = "list" /\ asking'[c].crossed = cross
  BY <1>1, <1>2
<1>4. asking'[c] \notin Marking /\ asking'[c] \notin MarkingAll
  BY <1>2 DEF Marking, MarkingAll
<1>5. CallFits(asking[c])'
  BY <1>3, <1>4 DEF CallFits, LoadFits
<1> QED  BY <1>2, <1>3, <1>5, AskFits

LEMMA PushKeeps ==
    ASSUME BellInv, NEW n \in Notes, Push(n)
    PROVE  BellInv'
<1> USE DEF BellInv
<1>1. n \in pushed /\ pushed' = pushed \ {n} /\ UNCHANGED <<note, drifted>>
  BY DEF Push
<1>2. CASE bell.open
  <2>1. loadList /\ bell' = [bell EXCEPT !.loading = TRUE]
    BY <1>2 DEF Push
  <2>2. /\ asking' \in [Requests -> BellCall \cup {Silent}]
        /\ AloneAsking' /\ \A d \in Asking' : CallFits(asking[d])'
        /\ Asking' # {}
    BY <2>1, LoadAsked
  <2>3. BellTyped'
    BY <1>1, <2>1, <2>2 DEF BellTyped
  <2> QED  BY <2>2, <2>3
<1>3. CASE ~bell.open
  <2>1. /\ bell' = [bell EXCEPT !.unread = @ + 1, !.items = NULL]
        /\ asking' = Crossing(asking)
    BY <1>3 DEF Push
  <2>2. /\ asking' \in [Requests -> BellCall \cup {Silent}] /\ Asking' = Asking
        /\ AloneAsking' /\ \A c \in Asking' : CallFits(asking[c])'
    BY <2>1, CrossingAll, CrossedFit
  <2> DEFINE count == bell.unread + 1
  <2>0. count \in Nat /\ bell' = [bell EXCEPT !.unread = count, !.items = NULL]
    BY <2>1 DEF BellTyped
  <2> HIDE DEF count
  <2>3. /\ bell' \in [open : BOOLEAN, unread : Nat, items : Lists \cup {NULL}, loading : BOOLEAN]
        /\ bell'.unread = count /\ bell'.items = NULL /\ ~bell'.open
    BY <1>3, <2>0 DEF BellTyped
  <2>4. BellTyped'
    BY <1>1, <2>2, <2>3 DEF BellTyped
  <2>5. ASSUME Asking' = {}, ~drifted'  PROVE Exact'
    <3>1. Exact /\ Unread' = Unread
      BY <1>1, <2>2, <2>5 DEF Unread
    <3>2. Cardinality(pushed') = Cardinality(pushed) - 1
      BY <1>1, UnreadCounted, FS_RemoveElement
    <3>3. bell'.unread + Cardinality(pushed') = Cardinality(Unread)
      BY <2>3, <3>1, <3>2, UnreadCounted DEF Exact, BellTyped, count
    <3> QED  BY <1>1, <2>3, <3>1, <3>3 DEF Exact
  <2> QED  BY <2>2, <2>4, <2>5
<1> QED  BY <1>2, <1>3

(* Closing the panel leaves what the calls rely on.                           *)
LEMMA ClosingKeeps ==
    ASSUME BellInv, UNCHANGED <<note, pushed, asking, drifted>>, bell' = [bell EXCEPT !.open = FALSE]
    PROVE  BellInv'
<1> USE DEF BellInv
<1>1. /\ bell' \in [open : BOOLEAN, unread : Nat, items : Lists \cup {NULL}, loading : BOOLEAN]
      /\ bell'.unread = bell.unread /\ ~bell'.open
  BY DEF BellTyped
<1>2. BellTyped' /\ Asking' = Asking /\ Unread' = Unread /\ Listed' = Listed
  BY <1>1 DEF BellTyped, Asking, Unread, Listed
<1>3. Exact => Exact'
  BY <1>1, <1>2 DEF Exact
<1>4. AloneAsking'
  BY <1>2 DEF AloneAsking
<1>5. ASSUME NEW c \in Asking  PROVE CallFits(asking[c])'
  BY <1>1, <1>2, <1>3 DEF CallFits, LoadFits, MarkFits, MarkAllFits, SameRows
<1> QED  BY <1>2, <1>3, <1>4, <1>5

LEMMA ToggleKeeps ==
    ASSUME BellInv, toggle
    PROVE  BellInv'
<1> USE DEF BellInv
<1>1. CASE bell.open
  BY <1>1, ClosingKeeps DEF toggle
<1>2. CASE ~bell.open
  <2>1. /\ loadList /\ bell' = [bell EXCEPT !.open = TRUE, !.loading = TRUE]
        /\ UNCHANGED <<note, pushed, drifted>>
    BY <1>2 DEF toggle
  <2>2. /\ asking' \in [Requests -> BellCall \cup {Silent}]
        /\ AloneAsking' /\ \A d \in Asking' : CallFits(asking[d])'
        /\ Asking' # {}
    BY <2>1, LoadAsked
  <2>3. BellTyped'
    BY <2>1, <2>2 DEF BellTyped
  <2> QED  BY <2>2, <2>3
<1> QED  BY <1>1, <1>2

LEMMA OnItemClickKeeps ==
    ASSUME BellInv, NEW n \in Notes, onItemClick(n)
    PROVE  BellInv'
<1> USE DEF BellInv
<1>1. UNCHANGED <<note, pushed, drifted>>
  BY DEF onItemClick
<1>2. CASE bell.items[n]
  BY <1>1, <1>2, ClosingKeeps DEF onItemClick
<1>3. CASE ~bell.items[n]
  <2>1. Ask("sent", "mark", n) /\ bell' = bell
    BY <1>3 DEF onItemClick
  <2>2. \A cross \in BOOLEAN :
           [phase |-> "sent", what |-> "mark", note |-> n, list |-> NULL, count |-> 0,
            crossed |-> cross, failed |-> FALSE] \in Marking
    BY DEF Marking
  <2>3. PICK c \in Requests \ Asking, cross \in BOOLEAN :
           /\ asking' \in [Requests -> BellCall \cup {Silent}]
           /\ Asking' = Asking \cup {c}
           /\ \A d \in Asking : asking'[d].crossed
           /\ asking'[c] = [phase |-> "sent", what |-> "mark", note |-> n, list |-> NULL,
                            count |-> 0, crossed |-> cross, failed |-> FALSE]
           /\ ~cross => Asking = {} /\ pushed' = {}
    BY <2>1, <2>2, AskMoves DEF BellCall
  <2>4. /\ asking'[c].phase = "sent" /\ asking'[c].crossed = cross /\ asking'[c].note = n
        /\ asking'[c] \notin Loading /\ asking'[c] \notin MarkingAll
    BY <2>3 DEF Loading, MarkingAll
  <2>5. BellTyped' /\ Exact' = Exact /\ note'[n] = note[n]
    BY <1>1, <2>1, <2>3 DEF BellTyped, Exact, Unread, ListedBefore
  <2>6. ASSUME ~cross, ~drifted  PROVE Exact /\ note[n] = "unread"
    <3>1. Exact /\ pushed = {}
      BY <1>1, <2>3, <2>6
    <3>2. bell.open /\ bell.items # NULL /\ n \in DOMAIN bell.items
      BY DEF onItemClick, Displayed
    <3>3. bell.items = Listed
      BY <3>1, <3>2, NothingHidden DEF Exact
    <3>4. note[n] # NULL /\ bell.items[n] = (note[n] = "read")
      BY <3>2, <3>3 DEF Listed
    <3> QED  BY <1>3, <3>1, <3>4 DEF BellTyped
  <2>7. CallFits(asking[c])'
    BY <1>1, <2>4, <2>5, <2>6 DEF CallFits, MarkFits
  <2> QED  BY <2>3, <2>4, <2>5, <2>7, AskFits
<1> QED  BY <1>2, <1>3

LEMMA OnMarkAllKeeps ==
    ASSUME BellInv, onMarkAll
    PROVE  BellInv'
<1> USE DEF BellInv
<1>1. Ask("sent", "markAll", NULL) /\ UNCHANGED <<note, pushed, bell, drifted>>
  BY DEF onMarkAll
<1>2. \A cross \in BOOLEAN :
         [phase |-> "sent", what |-> "markAll", note |-> NULL, list |-> NULL, count |-> 0,
          crossed |-> cross, failed |-> FALSE] \in MarkingAll
  BY DEF MarkingAll
<1>3. PICK c \in Requests \ Asking, cross \in BOOLEAN :
         /\ asking' \in [Requests -> BellCall \cup {Silent}]
         /\ Asking' = Asking \cup {c}
         /\ \A d \in Asking : asking'[d].crossed
         /\ asking'[c] = [phase |-> "sent", what |-> "markAll", note |-> NULL, list |-> NULL,
                          count |-> 0, crossed |-> cross, failed |-> FALSE]
         /\ ~cross => Asking = {} /\ pushed' = {}
  BY <1>1, <1>2, AskMoves DEF BellCall
<1>4. /\ asking'[c].phase = "sent" /\ asking'[c].crossed = cross
      /\ asking'[c] \notin Loading /\ asking'[c] \notin Marking
  BY <1>3 DEF Loading, Marking
<1>5. BellTyped' /\ Exact' = Exact
  BY <1>1, <1>3 DEF BellTyped, Exact, Unread, ListedBefore
<1>6. CallFits(asking[c])'
  BY <1>1, <1>3, <1>4, <1>5 DEF CallFits, MarkAllFits
<1> QED  BY <1>3, <1>4, <1>5, <1>6, AskFits

-----------------------------------------------------------------------------
(* The API.                                                                *)
LEMMA ListKeeps ==
    ASSUME BellInv, NEW c \in Requests, List(c)
    PROVE  BellInv'
<1> USE DEF BellInv
<1>1. /\ asking[c] # Silent /\ asking[c].phase = "list" /\ asking[c] \in Loading
      /\ UNCHANGED <<note, pushed, bell, drifted>>
  BY CallKinds DEF List
<1>2. PICK work : work = [asking[c] EXCEPT !.phase = "count", !.list = Listed]
  OBVIOUS
<1>3. /\ work \in Loading /\ work.crossed = asking[c].crossed /\ work.phase = "count"
      /\ work.list = Listed /\ work \notin Marking /\ work \notin MarkingAll
  BY <1>1, <1>2, ListedIsAList DEF Loading, Marking, MarkingAll
<1>4. asking' = [asking EXCEPT ![c] = work]
  BY <1>2 DEF List, BellTyped
<1>5. Listed' = Listed
  BY <1>1 DEF Listed
<1>6. CallFits(work)'
  BY <1>3, <1>5 DEF CallFits, LoadFits
<1>7. /\ asking' \in [Requests -> BellCall \cup {Silent}] /\ Asking' # {}
      /\ AloneAsking' /\ \A d \in Asking' : CallFits(asking[d])'
  BY <1>1, <1>3, <1>4, <1>6, BellCallMoves DEF BellCall
<1> QED  BY <1>1, <1>7 DEF BellTyped

LEMMA UnreadCountKeeps ==
    ASSUME BellInv, NEW c \in Requests, UnreadCount(c)
    PROVE  BellInv'
<1> USE DEF BellInv
<1>1. /\ asking[c] # Silent /\ asking[c].phase = "count" /\ asking[c] \in Loading
      /\ c \in Asking /\ UNCHANGED <<note, pushed, bell, drifted>>
  BY CallKinds DEF UnreadCount
<1> DEFINE number == Cardinality(Unread)
<1>0. number \in Nat
  BY UnreadCounted
<1> HIDE DEF number
<1>2. PICK work : work = [asking[c] EXCEPT !.phase = "answered", !.count = number]
  OBVIOUS
<1>3. /\ work \in Loading /\ work.crossed = asking[c].crossed /\ work.phase = "answered"
      /\ work.failed = asking[c].failed /\ work.list = asking[c].list /\ work.count = number
      /\ work \notin Marking /\ work \notin MarkingAll
  BY <1>0, <1>1, <1>2 DEF Loading, Marking, MarkingAll
<1>4. asking' = [asking EXCEPT ![c] = work]
  BY <1>2 DEF UnreadCount, BellTyped, number
<1>5. Listed' = Listed /\ Cardinality(Unread') = number
  BY <1>1 DEF Listed, Unread, number
<1>6. CallFits(work)'
  BY <1>1, <1>3, <1>5 DEF CallFits, LoadFits
<1>7. /\ asking' \in [Requests -> BellCall \cup {Silent}] /\ Asking' # {}
      /\ AloneAsking' /\ \A d \in Asking' : CallFits(asking[d])'
  BY <1>1, <1>3, <1>4, <1>6, BellCallMoves DEF BellCall
<1> QED  BY <1>1, <1>7 DEF BellTyped

LEMMA FailsKeeps ==
    ASSUME BellInv, NEW c \in Requests, Fails(c)
    PROVE  BellInv'
<1> USE DEF BellInv
<1>1. /\ asking[c] # Silent /\ asking[c] \in BellCall /\ asking[c].phase \in {"list", "count", "sent"}
      /\ UNCHANGED <<note, pushed, bell, drifted>>
  BY CallKinds DEF Fails
<1>2. PICK work : work = [asking[c] EXCEPT !.phase = IF @ = "list" THEN "count" ELSE "answered",
                                           !.failed = TRUE]
  OBVIOUS
<1>3. work \in BellCall /\ work.crossed = asking[c].crossed /\ work.failed
  <2>1. CASE asking[c] \in Loading
    BY <1>1, <1>2, <2>1 DEF BellCall, Loading
  <2>2. CASE asking[c] \in Marking
    BY <1>1, <1>2, <2>2 DEF BellCall, Marking
  <2>3. CASE asking[c] \in MarkingAll
    BY <1>1, <1>2, <2>3 DEF BellCall, MarkingAll
  <2> QED  BY <1>1, <2>1, <2>2, <2>3 DEF BellCall
<1>4. asking' = [asking EXCEPT ![c] = work]
  BY <1>2 DEF Fails, BellTyped
<1>5. CallFits(work)'
  BY <1>3 DEF CallFits
<1>6. /\ asking' \in [Requests -> BellCall \cup {Silent}] /\ Asking' # {}
      /\ AloneAsking' /\ \A d \in Asking' : CallFits(asking[d])'
  BY <1>1, <1>3, <1>4, <1>5, BellCallMoves
<1> QED  BY <1>1, <1>6 DEF BellTyped

LEMMA MarkReadKeeps ==
    ASSUME BellInv, NEW c \in Requests, MarkRead(c)
    PROVE  BellInv'
<1> USE DEF BellInv
<1>1. /\ asking[c] # Silent /\ asking[c].phase = "sent" /\ c \in Asking
      /\ asking[c] \in Marking \cup MarkingAll /\ UNCHANGED <<pushed, bell, drifted>>
  BY CallKinds DEF MarkRead
<1>2. PICK work : work = [asking[c] EXCEPT !.phase = "answered"]
  OBVIOUS
<1>3. /\ work \in BellCall /\ work.crossed = asking[c].crossed /\ work.failed = asking[c].failed
      /\ work.phase = "answered" /\ work \notin Loading
      /\ work \in Marking => asking[c] \in Marking
      /\ work \in MarkingAll => asking[c] \in MarkingAll
  BY <1>1, <1>2 DEF BellCall, Loading, Marking, MarkingAll
<1>4. asking' = [asking EXCEPT ![c] = work]
  BY <1>2 DEF MarkRead, BellTyped
<1>5. /\ note' \in [Notes -> {NULL, "unread", "read"}]
      /\ \A n \in Notes : note'[n] # NULL <=> note[n] # NULL
  BY InboxNull DEF MarkRead, BellTyped
<1>6. ASSUME ~work.crossed, ~work.failed, ~drifted, work \in Marking
      PROVE  bell.unread = Cardinality(Unread') + 1
  <2>1. Exact /\ note[asking[c].note] = "unread" /\ asking[c] \in Marking /\ pushed = {}
    BY <1>1, <1>3, <1>6 DEF CallFits, MarkFits, AloneAsking
  <2>2. \A n \in Notes : note'[n] = IF n = asking[c].note THEN "read" ELSE note[n]
    BY <2>1, InboxNull DEF MarkRead, Marking
  <2>3. asking[c].note \in Unread /\ Unread' = Unread \ {asking[c].note}
    BY <2>1, <2>2 DEF Unread, Marking
  <2>4. Cardinality(Unread') = Cardinality(Unread) - 1
    BY <2>3, UnreadCounted, FS_RemoveElement
  <2>5. Cardinality(pushed) = 0
    BY <2>1, FS_EmptySet
  <2> QED  BY <2>1, <2>4, <2>5, UnreadCounted DEF Exact, BellTyped
<1>7. ASSUME ~work.crossed, ~work.failed, ~drifted, work \in MarkingAll
      PROVE  Unread' = {} /\ SameRows'
  <2>1. Exact /\ asking[c] \in MarkingAll /\ pushed = {}
    BY <1>1, <1>3, <1>7 DEF CallFits, MarkAllFits, AloneAsking
  <2>2. \A n \in Notes : note'[n] # "unread"
    BY <2>1, InboxNull DEF MarkRead, MarkingAll, BellTyped
  <2>3. Unread' = {}
    BY <2>2 DEF Unread
  <2>4. DOMAIN Listed' = DOMAIN Listed
    BY <1>5 DEF Listed
  <2>5. bell.open /\ bell.items # NULL => bell.items = Listed
    BY <2>1, NothingHidden DEF Exact
  <2> QED  BY <1>1, <2>3, <2>4, <2>5 DEF SameRows
<1>8. CallFits(work)'
  BY <1>1, <1>3, <1>6, <1>7 DEF CallFits, MarkFits, MarkAllFits
<1>9. /\ asking' \in [Requests -> BellCall \cup {Silent}] /\ Asking' # {}
      /\ AloneAsking' /\ \A d \in Asking' : CallFits(asking[d])'
  BY <1>1, <1>3, <1>4, <1>8, BellCallMoves
<1>10. BellTyped'
  BY <1>1, <1>5, <1>9 DEF BellTyped
<1> QED  BY <1>9, <1>10

(* What the bell does with an answer keeps it well formed.                     *)
LEMMA ShowsABell ==
    ASSUME BellTyped, NEW call \in BellCall
    PROVE  /\ Shows(call) \in [open : BOOLEAN, unread : Nat, items : Lists \cup {NULL}, loading : BOOLEAN]
           /\ call \in Loading /\ call.list # NULL =>
                 Shows(call).unread = call.count /\ Shows(call).items = call.list
           /\ call \in Marking =>
                 ~Shows(call).open /\ (bell.unread > 0 => Shows(call).unread = bell.unread - 1)
           /\ call \in MarkingAll =>
                 /\ Shows(call).unread = 0 /\ (Shows(call).open => bell.open)
                 /\ bell.items = NULL => Shows(call).items = NULL
                 /\ bell.items # NULL => Shows(call).items = [n \in DOMAIN bell.items |-> TRUE]
<1>1. bell \in [open : BOOLEAN, unread : Nat, items : Lists \cup {NULL}, loading : BOOLEAN]
  BY DEF BellTyped
<1>2. CASE call \in Loading
  <2> DEFINE shown == IF call.list = NULL THEN << >> ELSE call.list
  <2>1. shown \in Lists \cup {NULL} /\ call.count \in Nat
    BY <1>2, EmptyList DEF Loading
  <2>2. Shows(call) = [bell EXCEPT !.loading = FALSE, !.unread = call.count, !.items = shown]
    BY <1>2 DEF Loading, Shows
  <2>3. call \notin Marking /\ call \notin MarkingAll
    BY <1>2 DEF Loading, Marking, MarkingAll
  <2>4. call.list # NULL => shown = call.list
    OBVIOUS
  <2> HIDE DEF shown
  <2>5. /\ Shows(call) \in [open : BOOLEAN, unread : Nat, items : Lists \cup {NULL}, loading : BOOLEAN]
        /\ Shows(call).unread = call.count /\ Shows(call).items = shown
    BY <1>1, <2>1, <2>2
  <2> QED  BY <2>3, <2>4, <2>5
<1>3. CASE call \in Marking
  <2> DEFINE left == IF bell.unread > 0 THEN bell.unread - 1 ELSE 0
  <2>1. left \in Nat /\ (bell.unread > 0 => left = bell.unread - 1)
    BY <1>1
  <2>2. Shows(call) = [bell EXCEPT !.open = FALSE, !.unread = left]
    BY <1>3 DEF Marking, Shows
  <2>3. call \notin Loading /\ call \notin MarkingAll
    BY <1>3 DEF Loading, Marking, MarkingAll
  <2> HIDE DEF left
  <2> QED  BY <1>1, <2>1, <2>2, <2>3
<1>4. CASE call \in MarkingAll
  <2> DEFINE shown == IF bell.items = NULL THEN NULL ELSE [n \in DOMAIN bell.items |-> TRUE]
  <2>1. shown \in Lists \cup {NULL}
    <3>1. CASE bell.items = NULL
      BY <3>1
    <3>2. CASE bell.items # NULL
      <4>1. PICK rows \in SUBSET Notes : bell.items \in [rows -> BOOLEAN]
        BY <1>1, <3>2 DEF Lists
      <4>2. [n \in DOMAIN bell.items |-> TRUE] \in [rows -> BOOLEAN]
        BY <4>1
      <4> QED  BY <3>2, <4>2 DEF Lists
    <3> QED  BY <3>1, <3>2
  <2>2. Shows(call) = [bell EXCEPT !.unread = 0, !.items = shown]
    BY <1>4 DEF MarkingAll, Shows
  <2>3. call \notin Loading /\ call \notin Marking
    BY <1>4 DEF Loading, Marking, MarkingAll
  <2>4. /\ bell.items = NULL => shown = NULL
        /\ bell.items # NULL => shown = [n \in DOMAIN bell.items |-> TRUE]
    OBVIOUS
  <2> HIDE DEF shown
  <2>5. PICK none \in Nat : none = 0
    OBVIOUS
  <2>6. Shows(call) = [bell EXCEPT !.unread = none, !.items = shown]
    BY <2>2, <2>5
  <2>7. /\ Shows(call) \in [open : BOOLEAN, unread : Nat, items : Lists \cup {NULL}, loading : BOOLEAN]
        /\ Shows(call).unread = none /\ Shows(call).items = shown
    BY <1>1, <2>1, <2>6
  <2>8. Shows(call).open <=> bell.open
    BY <1>1, <2>2
  <2>9. /\ bell.items = NULL => Shows(call).items = NULL
        /\ bell.items # NULL => Shows(call).items = [n \in DOMAIN bell.items |-> TRUE]
    BY <2>4, <2>7
  <2> QED  BY <2>3, <2>5, <2>7, <2>8, <2>9
<1> QED  BY <1>2, <1>3, <1>4 DEF BellCall

LEMMA AnswerKeeps ==
    ASSUME BellInv, NEW c \in Requests, Answer(c)
    PROVE  BellInv'
<1> USE DEF BellInv
<1>1. /\ asking[c] # Silent /\ asking[c].phase = "answered" /\ c \in Asking
      /\ asking[c] \in BellCall /\ bell' = Shows(asking[c])
      /\ asking' = [asking EXCEPT ![c] = Silent] /\ UNCHANGED <<note, pushed>>
  BY CallKinds DEF Answer
<1>2. drifted' = (asking[c].crossed \/ asking[c].failed \/ (asking[c].what # "load" /\ drifted))
  BY DEF Answer
<1>3. /\ asking' \in [Requests -> BellCall \cup {Silent}]
      /\ asking'[c] = Silent /\ \A d \in Requests : d # c => asking'[d] = asking[d]
  BY <1>1 DEF BellTyped
<1>4. \A d \in Asking' : d # c /\ d \in Asking /\ asking'[d].crossed
  BY <1>1, <1>3 DEF Asking, AloneAsking
<1>5. AloneAsking' /\ \A d \in Asking' : CallFits(asking[d])'
  BY <1>4 DEF AloneAsking, CallFits
<1>6. BellTyped'
  <2>1. drifted' \in BOOLEAN
    BY <1>2
  <2> QED  BY <1>1, <1>3, <2>1, ShowsABell DEF BellTyped
<1>7. ASSUME ~drifted'  PROVE Exact'
  <2>1. /\ ~asking[c].crossed /\ ~asking[c].failed /\ pushed = {}
        /\ asking[c].what # "load" => ~drifted
    BY <1>1, <1>2, <1>7 DEF AloneAsking
  <2>2. Cardinality(pushed') = 0 /\ pushed' = {} /\ Unread' = Unread
    BY <1>1, <2>1, FS_EmptySet DEF Unread
  <2>3. ListedBefore(pushed)' = Listed
    BY <1>1, <2>1 DEF ListedBefore, Listed
  <2>4. SUFFICES /\ bell'.unread = Cardinality(Unread)
                 /\ bell'.open /\ bell'.items # NULL => bell'.items = Listed
    BY <2>2, <2>3, UnreadCounted DEF Exact
  <2>5. CASE asking[c] \in Loading
    <3>1. asking[c].list = Listed /\ asking[c].count = Cardinality(Unread)
      BY <1>1, <2>1, <2>5 DEF CallFits, LoadFits
    <3> QED  BY <1>1, <2>5, <3>1, ShowsABell, ListedIsAList
  <2>6. CASE asking[c] \in Marking
    <3>1. bell.unread = Cardinality(Unread) + 1
      BY <1>1, <2>1, <2>6 DEF CallFits, MarkFits, Marking
    <3>2. bell.unread > 0 /\ bell.unread - 1 = Cardinality(Unread)
      BY <3>1, UnreadCounted
    <3> QED  BY <1>1, <2>6, <3>2, ShowsABell
  <2>7. CASE asking[c] \in MarkingAll
    <3>1. Unread = {} /\ SameRows
      BY <1>1, <2>1, <2>7 DEF CallFits, MarkAllFits, MarkingAll
    <3>2. Listed = [n \in DOMAIN Listed |-> TRUE]
      <4>1. \A n \in Notes : note[n] # NULL => note[n] = "read"
        BY <3>1 DEF Unread, BellTyped
      <4> QED  BY <4>1 DEF Listed
    <3>3. Cardinality(Unread) = 0
      BY <3>1, FS_EmptySet
    <3> QED  BY <1>1, <2>7, <3>1, <3>2, <3>3, ShowsABell DEF SameRows
  <2> QED  BY <1>1, <2>5, <2>6, <2>7 DEF BellCall
<1> QED  BY <1>5, <1>6, <1>7

-----------------------------------------------------------------------------
(* The bell of a page starts as the page was rendered: closed, with the count   *)
(* of the rows.                                                              *)
LEMMA BellStartsExact == InboxInit => BellInv
<1> SUFFICES ASSUME InboxInit  PROVE BellInv
  OBVIOUS
<1> USE DEF InboxInit
<1>1. Asking = {} /\ pushed = {} /\ Cardinality(pushed) = 0
  BY FS_EmptySet DEF Asking
<1>2. BellTyped
  BY UnreadCounted DEF BellTyped
<1>3. Exact
  BY <1>1, UnreadCounted DEF Exact
<1> QED  BY <1>1, <1>2, <1>3 DEF BellInv, AloneAsking

LEMMA BellStepKeeps == BellInv /\ [InboxNext]_inboxVars => BellInv'
<1> SUFFICES ASSUME BellInv, [InboxNext]_inboxVars  PROVE BellInv'
  OBVIOUS
<1>1. CASE UNCHANGED inboxVars
  <2>1. UNCHANGED <<note, pushed, bell, asking, drifted>>
    BY <1>1 DEF inboxVars
  <2>2. BellTyped' /\ Asking' = Asking /\ Unread' = Unread /\ Listed' = Listed
    BY <2>1 DEF BellInv, BellTyped, Asking, Unread, Listed
  <2>3. Exact' = Exact /\ AloneAsking' /\ SameRows' = SameRows
    BY <2>1, <2>2 DEF BellInv, Exact, ListedBefore, AloneAsking, SameRows
  <2>4. ASSUME NEW c \in Asking  PROVE CallFits(asking[c])'
    BY <2>1, <2>2, <2>3 DEF BellInv, CallFits, LoadFits, MarkFits, MarkAllFits
  <2> QED  BY <2>1, <2>2, <2>3, <2>4 DEF BellInv
<1>2. ASSUME NEW n \in Notes, Notify(n) \/ Push(n) \/ onItemClick(n)  PROVE BellInv'
  BY <1>2, NotifyKeeps, PushKeeps, OnItemClickKeeps
<1>3. CASE ReadElsewhere \/ toggle \/ onMarkAll
  BY <1>3, ReadElsewhereKeeps, ToggleKeeps, OnMarkAllKeeps
<1>4. ASSUME NEW c \in Requests, List(c) \/ UnreadCount(c) \/ MarkRead(c) \/ Fails(c) \/ Answer(c)
      PROVE  BellInv'
  BY <1>4, ListKeeps, UnreadCountKeeps, MarkReadKeeps, FailsKeeps, AnswerKeeps
<1> QED  BY <1>1, <1>2, <1>3, <1>4 DEF InboxNext

(* NotificationBell: at rest, a bell that missed nothing counts the unread      *)
(* notifications, and an open panel shows them all as they are, for any number   *)
(* of notifications and of calls under way.                                  *)
THEOREM BadgeCountsTheUnread == InboxSpec => []BadgeIsExact
<1>1. BellInv => BadgeIsExact
  <2> SUFFICES ASSUME BellInv, Asking = {}, pushed = {}, ~drifted
               PROVE  /\ bell.unread = Cardinality(Unread)
                      /\ bell.open /\ bell.items # NULL => bell.items = Listed
    BY DEF BadgeIsExact
  <2>1. Exact /\ Cardinality(pushed) = 0
    BY FS_EmptySet DEF BellInv
  <2>2. bell.unread \in Nat
    BY DEF BellInv, BellTyped
  <2> QED  BY <2>1, <2>2, UnreadCounted, NothingHidden DEF Exact
<1>2. InboxSpec => []BellInv
  BY BellStartsExact, BellStepKeeps, PTL DEF InboxSpec
<1> QED  BY <1>1, <1>2, PTL
=============================================================================
