----------------------------- MODULE MCLifecycle -----------------------------
(***************************************************************************)
(* Values of the constants of RequestLifecycle for TLC.                     *)
(*                                                                         *)
(* The business calendar of the model is open during even minutes and        *)
(* closed during odd ones.  MCAddBusinessMinutes is the definition sla.ts   *)
(* implements: the first instant by which the given amount of open time has *)
(* gone by.                                                                *)
(***************************************************************************)
EXTENDS RequestLifecycle, TLC

CONSTANTS c1, s1, s2, r1

Open(t) == (t \div Minute) % 2 = 0
FirstOpen(t) == CHOOSE x \in t..(t + Minute) : Open(x) /\ \A u \in t..(x - 1) : ~Open(u)

MCAddBusinessMinutes(t, m) ==
    LET start == FirstOpen(t)
    IN  CHOOSE x \in start..(start + 2 * Minutes(m)) :
            /\ Cardinality({u \in start..(x - 1) : Open(u)}) = Minutes(m)
            /\ x = start \/ Open(x - 1)

ASSUME CalendarSoundInRange ==
    \A t \in 0..20, m \in 0..8 : MCAddBusinessMinutes(t, m) >= t + Minutes(m)

(* s1 holds every permission; s2 may only process requests, and is the      *)
(* eligible default assignee.  Where accounts play no part, s1 is alone.    *)
MCClients == {c1}
MCStaff   == {s1, s2}
MCDefaultAssignees == {s2}
OneStaff  == {s1}
MCGrants  == [u \in Users |-> CASE u = c1 -> {}
                                [] u = s1 -> Permission
                                [] u = s2 -> {"requests.process"}]
MCOrganization == c1 :> "org"

(* P0 is counted in calendar time, the others in business time.             *)
MCSlaFirstResponse == [p \in Priority |-> 0]
MCSlaResolution    == [p \in Priority |-> 1]
MCIs24x7 == {0}

OneRequest  == {r1}

(* System priorities 0 and 3, a plain request or a structured bug.          *)
Urgent == <<"BLOCAGE_TOTAL", "CRITIQUE", 3>>
Normal == <<"AUCUN_IMPACT", "FAIBLE", 3>>
Plain(s) == <<s[1], s[2], s[3], FALSE>>
Bug(s)   == <<s[1], s[2], s[3], TRUE>>

UrgentPlain  == {Plain(Urgent)}
NormalEither == {Plain(Normal), Bug(Normal)}
Nobody       == {}
Everybody    == Users
=============================================================================
