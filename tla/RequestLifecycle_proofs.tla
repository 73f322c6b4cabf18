----------------------- MODULE RequestLifecycle_proofs -----------------------
(***************************************************************************)
(* Theorems about RequestLifecycle for every set of users, requests and      *)
(* submissions, every service level and every clock bound.  CalendarSound    *)
(* is the only hypothesis besides the assumptions on the constants.         *)
(***************************************************************************)
EXTENDS RequestLifecycle, TransitionEngine_proofs

(* Next as four kinds of steps: a row appears, an accepted transition is     *)
(* applied to a row, the clock advances, or the rows are left alone.         *)
Creates(r) ==
    /\ r \in Requests \ Created
    /\ \E client \in Clients, p \in Priority :
          \/ /\ Insert(r, NewRow(client, p, now))
             /\ journal' = journal
          \/ \E assignee \in Staff :
                /\ Insert(r, AutoAssigned(NewRow(client, p, now), assignee, now))
                /\ journal' = [journal EXCEPT ![r] =
                                  [code |-> "T06", from |-> "EN_ATTENTE_AFFECTATION",
                                   to |-> "AFFECTEE"]]
    /\ \E b \in BugState : bug' = [bug EXCEPT ![r] = b]
    /\ UNCHANGED <<active, candidates, now, waited>>

Applies(r, code) ==
    /\ r \in Created
    /\ \E viewer, expected : \E dto \in Dto :
          /\ Accepts(viewer, code, requests[r], expected, dto, active, bug[r], now)
          /\ Save(r, Transitioned(code, requests[r], dto, now))
    /\ journal' = [journal EXCEPT ![r] = JournalEntry(code, requests[r])]
    /\ candidates' \subseteq candidates
    /\ UNCHANGED <<bug, active, now, waited>>

LeavesRowsAlone ==
    /\ UNCHANGED <<requests, journal, now, waited>>
    /\ active' \subseteq Users
    /\ candidates' \subseteq Created
    /\ bug' \in [Requests -> BugState]

LEMMA DtoOfType ==
    ASSUME NEW code \in TransitionCode PROVE DtoOf(code) \subseteq Dto
  BY DEF DtoOf, Dto, Priority

LEMMA NextKinds ==
    ASSUME TypeOK, Next
    PROVE  \/ \E r \in Requests : Creates(r)
           \/ \E r \in Requests, code \in TransitionCode : Applies(r, code)
           \/ Tick
           \/ LeavesRowsAlone
  <1>1. ASSUME NEW r \in Requests, Create(r)
        PROVE  Creates(r)
    <2>1. PICK client \in Clients, s \in Submissions :
             LET p == computeSystemPriority(s[1], s[2], s[3])
             IN  \/ CreateInQueue(r, client, p, s[4])
                 \/ \E assignee \in DefaultAssignees :
                        CreateAssigned(r, client, p, s[4], assignee)
      BY <1>1, Zenon DEF Create
    <2> DEFINE p == computeSystemPriority(s[1], s[2], s[3])
               b == IF s[4] THEN "undiagnosed" ELSE "none"
    <2>2. p \in Priority
      <3>1. s[1] \in ImpactValue /\ s[2] \in UrgencyValue /\ s[3] \in Priority
        BY LifecycleAssumption
      <3> QED
        BY <3>1, SystemPriorityIsTheMostUrgent
    <2>3. b \in BugState
      BY DEF BugState
    <2> HIDE DEF p, b
    <2>4. CASE CreateInQueue(r, client, p, s[4])
      BY <2>2, <2>3, <2>4, Zenon DEF CreateInQueue, CanSubmit, Creates, b
    <2>5. CASE \E assignee \in DefaultAssignees : CreateAssigned(r, client, p, s[4], assignee)
      <3>1. DefaultAssignees \subseteq Staff
        BY LifecycleAssumption
      <3> QED
        BY <2>2, <2>3, <2>5, <3>1, Zenon DEF CreateAssigned, CanSubmit, Creates, b
    <2> QED
      BY <2>1, <2>4, <2>5, Zenon DEF p
  <1>2. ASSUME NEW r \in Requests, NEW code \in TransitionCode, ByUser(r, code)
        PROVE  Applies(r, code)
    <2>1. PICK viewer \in active, dto \in DtoOf(code) : Apply(r, viewer, code, dto)
      BY <1>2, Zenon DEF ByUser
    <2>2. dto \in Dto
      BY <2>1, DtoOfType
    <2>3. candidates' \subseteq candidates
      BY <1>2, Zenon DEF ByUser
    <2> QED
      BY <1>2, <2>1, <2>2, <2>3, Zenon DEF ByUser, Apply, Applies
  <1>3. ASSUME NEW r \in Requests, T17(r)
        PROVE  Applies(r, "T17") \/ LeavesRowsAlone
    <2>1. NoDto \in Dto
      BY DEF NoDto, Dto, NoteKind, Priority
    <2>2. r \in Created /\ candidates' \subseteq candidates /\ candidates' \subseteq Created
      BY <1>3 DEF T17, TypeOK
    <2>3. CASE Accepts(SYSTEM, "T17", requests[r], "RESOLUE", NoDto, active, bug[r], now)
      BY <1>3, <2>1, <2>2, <2>3, Zenon DEF T17, Applies
    <2>4. CASE ~Accepts(SYSTEM, "T17", requests[r], "RESOLUE", NoDto, active, bug[r], now)
      BY <1>3, <2>2, <2>4, Zenon DEF T17, LeavesRowsAlone, TypeOK
    <2> QED
      BY <2>3, <2>4, Zenon
  <1>4. ASSUME NEW r \in Requests, UpsertDiagnostic(r)
        PROVE  LeavesRowsAlone
    BY <1>4 DEF UpsertDiagnostic, LeavesRowsAlone, TypeOK, BugState
  <1>5. ASSUME SelectExpired
        PROVE  LeavesRowsAlone
    BY <1>5 DEF SelectExpired, LeavesRowsAlone, TypeOK, Expired, Resolved
  <1>6. ASSUME NEW u \in Deactivable, Deactivate(u) \/ Reactivate(u)
        PROVE  LeavesRowsAlone
    BY <1>6, LifecycleAssumption DEF Deactivate, Reactivate, LeavesRowsAlone, TypeOK
  <1>7. ASSUME NEW r \in Requests,
               \/ T02(r) \/ T03(r) \/ T04(r) \/ T05(r) \/ T06(r) \/ T07(r)
               \/ T08(r) \/ T09(r) \/ T10(r) \/ T11(r) \/ T12(r)
               \/ T16(r) \/ T18(r) \/ T19(r) \/ ClientReply(r)
        PROVE  \E code \in TransitionCode : ByUser(r, code)
    BY <1>7, Zenon DEF T02, T03, T04, T05, T06, T07, T08, T09, T10, T11, T12, T16,
                       T18, T19, ClientReply, TransitionCode
  <1>8. "T17" \in TransitionCode
    BY DEF TransitionCode
  <1> QED
    BY <1>1, <1>2, <1>3, <1>4, <1>5, <1>6, <1>7, <1>8, Zenon DEF Next

-----------------------------------------------------------------------------
(* What an accepted transition does to the table.                          *)
LEMMA AppliesToRow ==
    ASSUME CalendarSound, TypeOK, NEW r \in Requests, NEW code \in TransitionCode,
           Applies(r, code)
    PROVE  LET row == requests[r]
               saved == requests'[r]
           IN  /\ r \in Created /\ row \in Row /\ saved \in Row
               /\ requests' = [requests EXCEPT ![r] = saved]
               /\ row.status \in TRANSITIONS[code].from
               /\ Target(code, row) # NULL
               /\ \E dto \in Dto : /\ Effect(code, row, dto, now, saved)
                                   /\ code = "T06" => dto.assignee \in Staff
               /\ DeadlineEffect(code, row, now, saved)
               /\ saved.status = Target(code, row)
               /\ saved.updatedAt = now
               /\ Stamps(code, row, now, saved)
               /\ code = "T02" => CalendarDue(saved)
               /\ code = "T19" => row.reopenCount < MAX_REOPENS
               /\ RowFits(row) => RowFits(saved)
  <1>0. PICK viewer, expected : \E dto \in Dto :
             /\ Accepts(viewer, code, requests[r], expected, dto, active, bug[r], now)
             /\ Save(r, Transitioned(code, requests[r], dto, now))
    BY Zenon DEF Applies
  <1>1. PICK dto \in Dto :
             /\ Accepts(viewer, code, requests[r], expected, dto, active, bug[r], now)
             /\ Save(r, Transitioned(code, requests[r], dto, now))
    BY <1>0
  <1> DEFINE row == requests[r]
             saved == [Transitioned(code, row, dto, now) EXCEPT !.updatedAt = now]
  <1>2. r \in Created /\ row \in Row /\ now \in Nat
    BY DEF Applies, TypeOK
  <1>3. requests' = [requests EXCEPT ![r] = saved]
    BY <1>1 DEF Save
  <1>4. /\ Effect(code, row, dto, now, saved)
        /\ DeadlineEffect(code, row, now, saved)
        /\ saved.status = Target(code, row)
        /\ saved.updatedAt = now
        /\ Stamps(code, row, now, saved)
        /\ code = "T02" => CalendarDue(saved)
        /\ RowFits(row) => RowFits(saved)
    <2> HIDE DEF row
    <2> QED
      BY <1>1, <1>2, SavedRow, SavedStamps DEF row
  <1>5. /\ row.status \in TRANSITIONS[code].from
        /\ Target(code, row) # NULL
        /\ code = "T06" => dto.assignee \in Staff
        /\ code = "T19" => row.reopenCount < MAX_REOPENS
    BY <1>1 DEF Accepts, EffectsAllowed, CanReopen
  <1> HIDE DEF saved
  <1>6. requests'[r] = saved
    BY <1>2, <1>3 DEF TypeOK
  <1>7. saved \in Row
    BY <1>4 DEF Effect
  <1> QED
    BY <1>2, <1>3, <1>4, <1>5, <1>6, <1>7, Zenon

LEMMA CreatesRow ==
    ASSUME CalendarSound, TypeOK, NEW r \in Requests, Creates(r)
    PROVE  LET new == requests'[r]
           IN  /\ r \notin Created
               /\ requests' = [q \in Created \cup {r} |->
                                  IF q = r THEN new ELSE requests[q]]
               /\ new \in Row /\ RowFits(new)
               /\ new.reopenCount = 0 /\ new.waitingClientTotal = 0
               /\ new.createdAt = now
               /\ \/ /\ new.status = "NOUVELLE" /\ new.assignedTo = NULL
                     /\ new.slaDueResolutionAt = NULL /\ journal' = journal
                  \/ /\ new.status = "AFFECTEE" /\ new.assignedTo \in Staff
                     /\ new.slaDueResolutionAt + Minute >
                            now + ResolutionTime(new.effectivePriority)
                     /\ journal' = [journal EXCEPT ![r] =
                            [code |-> "T06", from |-> "EN_ATTENTE_AFFECTATION",
                             to |-> "AFFECTEE"]]
  <1>1. PICK client \in Clients, p \in Priority :
          \/ Insert(r, NewRow(client, p, now)) /\ journal' = journal
          \/ \E assignee \in Staff :
                /\ Insert(r, AutoAssigned(NewRow(client, p, now), assignee, now))
                /\ journal' = [journal EXCEPT ![r] =
                                  [code |-> "T06", from |-> "EN_ATTENTE_AFFECTATION",
                                   to |-> "AFFECTEE"]]
    BY Zenon DEF Creates
  <1>2. r \notin Created /\ now \in Nat
    BY DEF Creates, TypeOK
  <1>3. ASSUME NEW row, Insert(r, row)
        PROVE  /\ requests'[r] = row
               /\ requests' = [q \in Created \cup {r} |->
                                  IF q = r THEN requests'[r] ELSE requests[q]]
    BY <1>3 DEF Insert
  <1>4. CASE Insert(r, NewRow(client, p, now)) /\ journal' = journal
    <2> DEFINE new == NewRow(client, p, now)
    <2>1. new \in Row /\ RowFits(new)
      BY <1>2, NewRowFits
    <2>2. /\ new.reopenCount = 0 /\ new.waitingClientTotal = 0
          /\ new.createdAt = now /\ new.status = "NOUVELLE"
          /\ new.slaDueResolutionAt = NULL /\ new.assignedTo = NULL
      BY DEF NewRow
    <2> HIDE DEF new
    <2>3. Insert(r, new)
      BY <1>4 DEF new
    <2> QED
      BY <1>2, <1>3, <1>4, <2>1, <2>2, <2>3, Zenon
  <1>5. ASSUME NEW assignee \in Staff,
               Insert(r, AutoAssigned(NewRow(client, p, now), assignee, now)),
               journal' = [journal EXCEPT ![r] =
                              [code |-> "T06", from |-> "EN_ATTENTE_AFFECTATION",
                               to |-> "AFFECTEE"]]
        PROVE  /\ requests'[r] \in Row /\ RowFits(requests'[r])
               /\ requests'[r].reopenCount = 0
               /\ requests'[r].waitingClientTotal = 0
               /\ requests'[r].createdAt = now
               /\ requests'[r].status = "AFFECTEE" /\ requests'[r].assignedTo \in Staff
               /\ requests'[r].slaDueResolutionAt + Minute >
                      now + ResolutionTime(requests'[r].effectivePriority)
               /\ requests' = [q \in Created \cup {r} |->
                                  IF q = r THEN requests'[r] ELSE requests[q]]
    <2> DEFINE new == AutoAssigned(NewRow(client, p, now), assignee, now)
    <2>1. /\ new \in Row /\ RowFits(new)
          /\ new.status = "AFFECTEE" /\ new.assignedTo = assignee
          /\ new.reopenCount = 0 /\ new.waitingClientTotal = 0
          /\ new.createdAt = now /\ new.effectivePriority = p
          /\ new.slaDueResolutionAt + Minute > now + ResolutionTime(p)
      BY <1>2, AutoAssignedFits
    <2>2. Insert(r, new)
      BY <1>5
    <2> HIDE DEF new
    <2> QED
      BY <1>3, <2>1, <2>2, Zenon
  <1> QED
    BY <1>1, <1>2, <1>4, <1>5, Zenon

-----------------------------------------------------------------------------
(***************************************************************************)
(* Type correctness.                                                       *)
(***************************************************************************)
LEMMA InitTypeOK ==
    ASSUME Init PROVE TypeOK
  <1>1. Created = {} /\ requests \in [Created -> Row]
    BY DEF Init, Created
  <1>2. /\ bug \in [Requests -> BugState]
        /\ journal \in [Requests -> [code : JournalCode, from : RequestStatus,
                                     to : RequestStatus] \cup {NoEntry}]
        /\ waited \in [Requests -> Nat]
    BY DEF Init, BugState
  <1>3. active \subseteq Users /\ candidates = {} /\ now \in 0..MaxNow
    BY LifecycleAssumption DEF Init
  <1> QED
    BY <1>1, <1>2, <1>3 DEF TypeOK

LEMMA NextTypeOK ==
    ASSUME CalendarSound, TypeOK, [Next]_vars
    PROVE  TypeOK'
  <1>1. ASSUME NEW r \in Requests, Creates(r)
        PROVE  TypeOK'
    <2>1. /\ requests' = [q \in Created \cup {r} |->
                            IF q = r THEN requests'[r] ELSE requests[q]]
          /\ requests'[r] \in Row
      BY <1>1, CreatesRow
    <2>2. requests' \in [Created \cup {r} -> Row] /\ Created' = Created \cup {r}
      BY <2>1 DEF TypeOK, Created
    <2>3. journal' = journal \/ journal' = [journal EXCEPT ![r] =
                [code |-> "T06", from |-> "EN_ATTENTE_AFFECTATION", to |-> "AFFECTEE"]]
      BY <1>1, CreatesRow, Zenon
    <2>4. journal' \in [Requests -> [code : JournalCode, from : RequestStatus,
                                    to : RequestStatus] \cup {NoEntry}]
      <3>1. [code |-> "T06", from |-> "EN_ATTENTE_AFFECTATION", to |-> "AFFECTEE"]
               \in [code : JournalCode, from : RequestStatus, to : RequestStatus]
        BY DEF JournalCode, TransitionCode, RequestStatus
      <3> QED
        BY <2>3, <3>1, Zenon DEF TypeOK
    <2>5. bug' \in [Requests -> BugState]
      BY <1>1 DEF Creates, TypeOK
    <2>6. UNCHANGED <<active, candidates, now, waited>>
      BY <1>1 DEF Creates
    <2> QED
      BY <2>2, <2>4, <2>5, <2>6 DEF TypeOK
  <1>2. ASSUME NEW r \in Requests, NEW code \in TransitionCode, Applies(r, code)
        PROVE  TypeOK'
    <2>1. /\ r \in Created /\ requests[r] \in Row /\ requests'[r] \in Row
          /\ requests' = [requests EXCEPT ![r] = requests'[r]]
          /\ Target(code, requests[r]) # NULL
      BY <1>2, AppliesToRow
    <2>2. requests' \in [Created -> Row] /\ Created' = Created
      BY <2>1 DEF TypeOK, Created
    <2>3. JournalEntry(code, requests[r]) \in [code : JournalCode, from : RequestStatus,
                                              to : RequestStatus]
      BY <2>1, EntryOf
    <2>4. journal' \in [Requests -> [code : JournalCode, from : RequestStatus,
                                    to : RequestStatus] \cup {NoEntry}]
      BY <1>2, <2>3, Zenon DEF TypeOK, Applies
    <2>5. /\ candidates' \subseteq candidates
          /\ UNCHANGED <<bug, active, now, waited>>
      BY <1>2 DEF Applies
    <2> QED
      BY <2>2, <2>4, <2>5 DEF TypeOK
  <1>3. CASE Tick
    BY <1>3, LifecycleAssumption DEF Tick, TypeOK, Created
  <1>4. CASE LeavesRowsAlone
    BY <1>4 DEF LeavesRowsAlone, TypeOK, Created
  <1>5. CASE UNCHANGED vars
    BY <1>5 DEF vars, TypeOK, Created
  <1> QED
    BY <1>1, <1>2, <1>3, <1>4, <1>5, NextKinds

(* Every table keeps the columns the entities declare, with at most          *)
(* MAX_REOPENS reopenings and a valid status, whatever is called.           *)
THEOREM TypeCorrect ==
    ASSUME CalendarSound PROVE Spec => []TypeOK
  <1>1. Init => TypeOK
    BY InitTypeOK
  <1>2. TypeOK /\ [Next]_vars => TypeOK'
    BY NextTypeOK
  <1> QED
    BY <1>1, <1>2, PTL DEF Spec

-----------------------------------------------------------------------------
(***************************************************************************)
(* The rows stay consistent: a step writes one row at most, and leaves it    *)
(* consistent.                                                             *)
(***************************************************************************)
RowsFit == \A r \in Created : RowFits(requests[r])

LEMMA NextRowsFit ==
    ASSUME CalendarSound, TypeOK, RowsFit, [Next]_vars
    PROVE  RowsFit'
  <1>1. ASSUME NEW r \in Requests, Creates(r)
        PROVE  RowsFit'
    <2>1. /\ requests' = [q \in Created \cup {r} |->
                            IF q = r THEN requests'[r] ELSE requests[q]]
          /\ RowFits(requests'[r])
      BY <1>1, CreatesRow
    <2> QED
      BY <2>1, Zenon DEF RowsFit, Created
  <1>2. ASSUME NEW r \in Requests, NEW code \in TransitionCode, Applies(r, code)
        PROVE  RowsFit'
    <2>1. /\ r \in Created
          /\ requests' = [requests EXCEPT ![r] = requests'[r]]
          /\ RowFits(requests[r]) => RowFits(requests'[r])
      BY <1>2, AppliesToRow
    <2> QED
      BY <2>1, Zenon DEF RowsFit, Created, TypeOK
  <1>3. CASE UNCHANGED requests
    BY <1>3, Zenon DEF RowsFit, Created
  <1>4. (Tick \/ LeavesRowsAlone \/ UNCHANGED vars) => UNCHANGED requests
    BY DEF Tick, LeavesRowsAlone, vars
  <1> QED
    BY <1>1, <1>2, <1>3, <1>4, NextKinds

LEMMA RowsAlwaysFit ==
    ASSUME CalendarSound PROVE Spec => []RowsFit
  <1>1. Init => RowsFit
    BY DEF Init, RowsFit, Created
  <1>2. TypeOK /\ RowsFit /\ [Next]_vars => RowsFit'
    BY NextRowsFit
  <1> QED
    BY <1>1, <1>2, TypeCorrect, PTL DEF Spec

(* In every reachable state the wait marker of each request is set exactly    *)
(* while it waits: the client's answer always finds where to resume.         *)
THEOREM RowsConsistent ==
    ASSUME CalendarSound PROVE Spec => []MarkerMatchesWait
  <1>1. RowsFit => MarkerMatchesWait
    BY DEF RowsFit, RowFits, MarkerMatchesWait
  <1> QED
    BY <1>1, RowsAlwaysFit, PTL

(* A request has a responsible exactly from its assignment until it goes back  *)
(* to the queue, across waits, refusals and reopenings (T06, T09, T12, T19).  *)
THEOREM HolderFollowsStatus ==
    ASSUME CalendarSound PROVE Spec => []HolderMatchesStatus
  <1>1. RowsFit => HolderMatchesStatus
    BY DEF RowsFit, RowFits, HolderMatchesStatus
  <1> QED
    BY <1>1, RowsAlwaysFit, PTL

(* A request out of the queue has a priority within one level of the computed  *)
(* one, with a reason when they differ, whatever happened before (T02).      *)
THEOREM OverrideStaysBounded ==
    ASSUME CalendarSound PROVE Spec => []OverrideBoundedOnceQualified
  <1>1. RowsFit => OverrideBoundedOnceQualified
    BY DEF RowsFit, RowFits, OverrideBoundedOnceQualified
  <1> QED
    BY <1>1, RowsAlwaysFit, PTL

-----------------------------------------------------------------------------
(***************************************************************************)
(* Waiting time.  The strengthening: no row is dated in the future, and a    *)
(* request that does not exist has not waited.                             *)
(***************************************************************************)
DatedInThePast ==
    \A r \in Created : requests[r].createdAt <= now /\ requests[r].updatedAt <= now

NotWaitedBeforeCreation == \A r \in Requests \ Created : waited[r] = 0

WaitingInv == DatedInThePast /\ NotWaitedBeforeCreation /\ WaitingAccounted

(* The waiting status is entered by T03, T07 and T10 and left by the reply.  *)
LEMMA WhoWaits ==
    ASSUME NEW row \in Row, NEW code \in TransitionCode,
           row.status \in TRANSITIONS[code].from, Target(code, row) # NULL
    PROVE  /\ row.status = "EN_ATTENTE_CLIENT" <=> code = "CLIENT_REPLY"
           /\ Target(code, row) = "EN_ATTENTE_CLIENT" <=> code \in {"T03", "T07", "T10"}
  <1>1. CASE code = "CLIENT_REPLY"
    BY <1>1, Table, TargetIs DEF CLIENT_REPLY_TARGETS
  <1>2. CASE code # "CLIENT_REPLY"
    BY <1>2, Table, TargetIs DEF TransitionCode
  <1> QED
    BY <1>1, <1>2

LEMMA NextWaitingInv ==
    ASSUME CalendarSound, TypeOK, WaitingInv, [Next]_vars
    PROVE  WaitingInv'
  <1>1. ASSUME NEW r \in Requests, Creates(r)
        PROVE  WaitingInv'
    <2> DEFINE new == requests'[r]
    <2>1. /\ r \notin Created
          /\ requests' = [q \in Created \cup {r} |-> IF q = r THEN new ELSE requests[q]]
          /\ new \in Row
          /\ new.waitingClientTotal = 0 /\ new.createdAt = now
          /\ new.status # "EN_ATTENTE_CLIENT"
      BY <1>1, CreatesRow
    <2>2. now' = now /\ waited' = waited
      BY <1>1 DEF Creates
    <2>3. Created' = Created \cup {r}
      BY <2>1, Zenon DEF Created
    <2>4. new.updatedAt = now
      <3>1. PICK client \in Clients, p \in Priority :
               \/ Insert(r, NewRow(client, p, now))
               \/ \E assignee \in Staff :
                     Insert(r, AutoAssigned(NewRow(client, p, now), assignee, now))
        BY <1>1, Zenon DEF Creates
      <3>2. NewRow(client, p, now).updatedAt = now
        BY DEF NewRow
      <3>3. ASSUME NEW assignee \in Staff
            PROVE  AutoAssigned(NewRow(client, p, now), assignee, now).updatedAt = now
        <4>1. now \in Nat
          BY DEF TypeOK
        <4> QED
          BY <4>1, AutoAssignedUpdatedAt
      <3> QED
        BY <3>1, <3>2, <3>3 DEF Insert
    <2>5. waited[r] = 0
      BY <2>1 DEF WaitingInv, NotWaitedBeforeCreation
    <2>6. ASSUME NEW q \in Created
          PROVE  requests'[q] = requests[q]
      BY <2>1
    <2> HIDE DEF new
    <2>7. now \in Nat
      BY DEF TypeOK
    <2>8. DatedInThePast'
      BY <2>1, <2>2, <2>3, <2>4, <2>6, <2>7 DEF WaitingInv, DatedInThePast, new
    <2>9. NotWaitedBeforeCreation'
      BY <2>2, <2>3 DEF WaitingInv, NotWaitedBeforeCreation
    <2>10. WaitingAccounted'
      <3>1. ASSUME NEW q \in Created
            PROVE  (waited[q] = requests[q].waitingClientTotal
                      + (IF Waiting(q) THEN now - requests[q].updatedAt ELSE 0))'
        BY <2>2, <2>3, <2>6, <3>1 DEF WaitingInv, WaitingAccounted, Waiting
      <3>2. (waited[r] = requests[r].waitingClientTotal
                      + (IF Waiting(r) THEN now - requests[r].updatedAt ELSE 0))'
        BY <2>1, <2>2, <2>5 DEF Waiting, new
      <3> QED
        BY <2>3, <3>1, <3>2 DEF WaitingAccounted
    <2> QED
      BY <2>8, <2>9, <2>10 DEF WaitingInv
  <1>2. ASSUME NEW r \in Requests, NEW code \in TransitionCode, Applies(r, code)
        PROVE  WaitingInv'
    <2> DEFINE row == requests[r]
               saved == requests'[r]
    <2>1. /\ r \in Created /\ row \in Row /\ saved \in Row
          /\ requests' = [requests EXCEPT ![r] = saved]
          /\ row.status \in TRANSITIONS[code].from
          /\ Target(code, row) # NULL
          /\ saved.status = Target(code, row)
          /\ saved.updatedAt = now
      BY <1>2, AppliesToRow
    <2>2. PICK dto \in Dto : Effect(code, row, dto, now, saved)
      BY <1>2, AppliesToRow
    <2>3. /\ saved.createdAt = row.createdAt
          /\ saved.waitingClientTotal =
                (IF code = "CLIENT_REPLY" THEN row.waitingClientTotal + Delta(row, now)
                 ELSE row.waitingClientTotal)
      BY <2>2, Zenon DEF Effect
    <2>4. /\ row.status = "EN_ATTENTE_CLIENT" <=> code = "CLIENT_REPLY"
          /\ saved.status = "EN_ATTENTE_CLIENT" <=> code \in {"T03", "T07", "T10"}
      BY <2>1, WhoWaits
    <2>5. /\ now' = now /\ waited' = waited /\ Created' = Created
          /\ \A q \in Created : q # r => requests'[q] = requests[q]
      BY <1>2, <2>1 DEF Applies, Created
    <2>6. /\ row.createdAt \in Nat /\ row.updatedAt \in Nat /\ now \in Nat
          /\ row.waitingClientTotal \in Nat /\ waited[r] \in Nat
      BY <2>1 DEF TypeOK, Row
    <2>7. /\ row.createdAt <= now /\ row.updatedAt <= now
          /\ waited[r] = row.waitingClientTotal
                 + (IF row.status = "EN_ATTENTE_CLIENT" THEN now - row.updatedAt ELSE 0)
      BY <2>1 DEF WaitingInv, DatedInThePast, WaitingAccounted, Waiting
    <2> HIDE DEF row, saved
    <2>8. waited[r] = saved.waitingClientTotal
      BY <2>3, <2>4, <2>6, <2>7 DEF Delta
    <2>9. DatedInThePast'
      BY <2>1, <2>3, <2>5, <2>6, <2>7 DEF WaitingInv, DatedInThePast, saved
    <2>10. NotWaitedBeforeCreation'
      BY <2>5 DEF WaitingInv, NotWaitedBeforeCreation
    <2>11. WaitingAccounted'
      <3>1. ASSUME NEW q \in Created, q # r
            PROVE  (waited[q] = requests[q].waitingClientTotal
                      + (IF Waiting(q) THEN now - requests[q].updatedAt ELSE 0))'
        BY <2>5, <3>1 DEF WaitingInv, WaitingAccounted, Waiting
      <3>2. (waited[r] = requests[r].waitingClientTotal
                      + (IF Waiting(r) THEN now - requests[r].updatedAt ELSE 0))'
        BY <2>1, <2>5, <2>6, <2>8 DEF Waiting, saved
      <3> QED
        BY <2>5, <3>1, <3>2 DEF WaitingAccounted
    <2> QED
      BY <2>9, <2>10, <2>11 DEF WaitingInv
  <1>3. CASE Tick
    <2>1. /\ requests' = requests /\ Created' = Created /\ now' = now + 1
          /\ waited' = [r \in Requests |-> IF Waiting(r) THEN waited[r] + 1 ELSE waited[r]]
      BY <1>3 DEF Tick, Created
    <2>2. now \in Nat /\ \A r \in Created : r \in Requests /\ requests[r] \in Row
      BY DEF TypeOK
    <2>3. \A r \in Created : /\ requests[r].createdAt \in Nat
                             /\ requests[r].updatedAt \in Nat
                             /\ requests[r].waitingClientTotal \in Nat
      BY <2>2 DEF Row
    <2>4. DatedInThePast'
      BY <2>1, <2>2, <2>3 DEF WaitingInv, DatedInThePast
    <2>5. NotWaitedBeforeCreation'
      BY <2>1 DEF WaitingInv, NotWaitedBeforeCreation, Waiting
    <2>6. WaitingAccounted'
      <3>1. ASSUME NEW q \in Created
            PROVE  (waited[q] = requests[q].waitingClientTotal
                      + (IF Waiting(q) THEN now - requests[q].updatedAt ELSE 0))'
        <4>1. waited[q] = requests[q].waitingClientTotal
                      + (IF Waiting(q) THEN now - requests[q].updatedAt ELSE 0)
          BY DEF WaitingInv, WaitingAccounted
        <4>2. Waiting(q)' = Waiting(q)
          BY <2>1 DEF Waiting
        <4>3. waited'[q] = IF Waiting(q) THEN waited[q] + 1 ELSE waited[q]
          BY <2>1, <2>2
        <4> QED
          BY <2>1, <2>2, <2>3, <4>1, <4>2, <4>3
      <3> QED
        BY <2>1, <3>1 DEF WaitingAccounted
    <2> QED
      BY <2>4, <2>5, <2>6 DEF WaitingInv
  <1>4. CASE UNCHANGED <<requests, now, waited>>
    BY <1>4 DEF WaitingInv, DatedInThePast, NotWaitedBeforeCreation, WaitingAccounted,
                Waiting, Created
  <1>5. (LeavesRowsAlone \/ UNCHANGED vars) => UNCHANGED <<requests, now, waited>>
    BY DEF LeavesRowsAlone, vars
  <1> QED
    BY <1>1, <1>2, <1>3, <1>4, <1>5, NextKinds

(* The time measured through updated_at is the time really spent waiting.    *)
THEOREM WaitingTimeExact ==
    ASSUME CalendarSound PROVE Spec => []WaitingAccounted
  <1>1. Init => WaitingInv
    BY DEF Init, WaitingInv, DatedInThePast, NotWaitedBeforeCreation, WaitingAccounted,
           Created
  <1>2. TypeOK /\ WaitingInv /\ [Next]_vars => WaitingInv'
    BY NextWaitingInv
  <1>3. WaitingInv => WaitingAccounted
    BY DEF WaitingInv
  <1> QED
    BY <1>1, <1>2, <1>3, TypeCorrect, PTL DEF Spec

-----------------------------------------------------------------------------
(***************************************************************************)
(* The deadline of the resolution.                                         *)
(***************************************************************************)
Granted(row) ==
    row.slaDueResolutionAt # NULL =>
        row.slaDueResolutionAt + Minute >
            row.createdAt + ResolutionTime(row.effectivePriority) + row.waitingClientTotal

LEMMA NextGrants ==
    ASSUME CalendarSound, TypeOK, WaitingInv, DeadlineGrantsWaiting, [Next]_vars
    PROVE  DeadlineGrantsWaiting'
  <1>0. DeadlineGrantsWaiting <=> \A r \in Created : Granted(requests[r])
    BY DEF DeadlineGrantsWaiting, Granted
  <1>00. DeadlineGrantsWaiting' <=> \A r \in Created' : Granted(requests'[r])
    BY DEF DeadlineGrantsWaiting, Granted
  <1>1. ASSUME NEW r \in Requests, Creates(r)
        PROVE  DeadlineGrantsWaiting'
    <2> DEFINE new == requests'[r]
    <2>1. /\ requests' = [q \in Created \cup {r} |-> IF q = r THEN new ELSE requests[q]]
          /\ new \in Row
          /\ new.waitingClientTotal = 0 /\ new.createdAt = now
          /\ \/ new.slaDueResolutionAt = NULL
             \/ new.slaDueResolutionAt + Minute > now + ResolutionTime(new.effectivePriority)
      BY <1>1, CreatesRow
    <2>2. /\ now \in Nat /\ Minute \in Nat
          /\ ResolutionTime(new.effectivePriority) \in Nat
      BY <2>1, SlaAssumption, MinutesType DEF TypeOK, Row, ResolutionTime
    <2> HIDE DEF new
    <2>3. Granted(new)
      BY <2>1, <2>2 DEF Granted
    <2> QED
      BY <1>0, <1>00, <2>1, <2>3, Zenon DEF Created, new
  <1>2. ASSUME NEW r \in Requests, NEW code \in TransitionCode, Applies(r, code)
        PROVE  DeadlineGrantsWaiting'
    <2> DEFINE row == requests[r]
               saved == requests'[r]
    <2>1. /\ r \in Created /\ row \in Row /\ saved \in Row
          /\ requests' = [requests EXCEPT ![r] = saved]
          /\ DeadlineEffect(code, row, now, saved)
      BY <1>2, AppliesToRow
    <2>2. PICK dto \in Dto : Effect(code, row, dto, now, saved)
      BY <1>2, AppliesToRow
    <2>3. row.createdAt <= now
      BY <2>1 DEF WaitingInv, DatedInThePast
    <2>4. Granted(row)
      BY <1>0, <2>1
    <2> HIDE DEF row, saved
    <2>5. /\ saved.createdAt = row.createdAt
          /\ saved.waitingClientTotal =
                (IF code = "CLIENT_REPLY" THEN row.waitingClientTotal + Delta(row, now)
                 ELSE row.waitingClientTotal)
          /\ code \notin {"T02", "T19"} => saved.effectivePriority = row.effectivePriority
      <3>1. code \notin {"T02", "T19"} => code # "T02" /\ code # "T19"
        OBVIOUS
      <3> QED
        BY <2>2, <3>1, Zenon DEF Effect
    <2>6. /\ row.createdAt \in Nat /\ row.updatedAt \in Nat /\ now \in Nat
          /\ row.waitingClientTotal \in Nat /\ row.slaDueResolutionAt \in Nat \cup {NULL}
          /\ saved.slaDueResolutionAt \in Nat \cup {NULL}
          /\ ResolutionTime(saved.effectivePriority) \in Nat
          /\ ResolutionTime(row.effectivePriority) \in Nat
          /\ Minute \in Nat
      BY <2>1, SlaAssumption, MinutesType DEF TypeOK, Row, Instant, ResolutionTime
    <2>7. Delta(row, now) \in Nat
      BY <2>6 DEF Delta
    <2>8. Granted(saved)
      <3>1. CASE code \in {"T02", "T19"}
        BY <2>1, <2>3, <2>5, <2>6, <3>1 DEF Granted, DeadlineEffect
      <3>2. CASE code = "CLIENT_REPLY"
        <4>1. /\ saved.slaDueResolutionAt =
                     IF row.slaDueResolutionAt = NULL THEN NULL
                     ELSE row.slaDueResolutionAt + Delta(row, now)
              /\ saved.effectivePriority = row.effectivePriority
          BY <2>1, <2>5, <3>2 DEF DeadlineEffect
        <4> HIDE DEF Delta
        <4> QED
          BY <2>4, <2>5, <2>6, <2>7, <3>2, <4>1, NullAssumption DEF Granted
      <3>3. CASE code \notin {"T02", "T19", "CLIENT_REPLY"}
        <4>1. /\ saved.slaDueResolutionAt = row.slaDueResolutionAt
              /\ saved.effectivePriority = row.effectivePriority
              /\ saved.waitingClientTotal = row.waitingClientTotal
          BY <2>1, <2>5, <3>3 DEF DeadlineEffect
        <4> QED
          BY <2>4, <2>5, <4>1, Zenon DEF Granted
      <3> QED
        BY <3>1, <3>2, <3>3
    <2> QED
      BY <1>0, <1>00, <2>1, <2>8, Zenon DEF Created, TypeOK, saved
  <1>3. CASE UNCHANGED requests
    BY <1>3, <1>0, <1>00, Zenon DEF Created
  <1>4. (Tick \/ LeavesRowsAlone \/ UNCHANGED vars) => UNCHANGED requests
    BY DEF Tick, LeavesRowsAlone, vars
  <1> QED
    BY <1>1, <1>2, <1>3, <1>4, NextKinds

(* A qualified request always has its target plus the time it has waited,    *)
(* less than a minute of truncation apart.                                 *)
THEOREM DeadlineKeepsItsGrant ==
    ASSUME CalendarSound PROVE Spec => []DeadlineGrantsWaiting
  <1>1. Init => WaitingInv /\ DeadlineGrantsWaiting
    BY DEF Init, WaitingInv, DatedInThePast, NotWaitedBeforeCreation, WaitingAccounted,
           DeadlineGrantsWaiting, Created
  <1>2. TypeOK /\ WaitingInv /\ DeadlineGrantsWaiting /\ [Next]_vars
            => WaitingInv' /\ DeadlineGrantsWaiting'
    BY NextWaitingInv, NextGrants
  <1> QED
    BY <1>1, <1>2, TypeCorrect, PTL DEF Spec

-----------------------------------------------------------------------------
(***************************************************************************)
(* The milestones and the verdict of the resolution.  The strengthening      *)
(* says, for each stage of a treatment, which milestones the row has and in  *)
(* which order, that the deadline of a qualified request is exact when it is *)
(* counted in calendar time, and that nothing is dated in the future.       *)
(***************************************************************************)
Qualified == {"EN_ATTENTE_AFFECTATION", "AFFECTEE", "EN_COURS", "RESOLUE", "CLOTUREE"}

Past(row, t) ==
    /\ row.createdAt <= t
    /\ row.qualifiedAt # NULL => row.qualifiedAt <= t
    /\ row.firstResponseAt # NULL =>
          row.createdAt <= row.firstResponseAt /\ row.firstResponseAt <= t
    /\ row.resolvedAt # NULL => row.resolvedAt <= t
    /\ row.lastReopenedAt # NULL => row.lastReopenedAt <= t

QualifiedFits(row) ==
    /\ row.qualifiedAt # NULL
    /\ row.lastReopenedAt # NULL => row.lastReopenedAt <= row.qualifiedAt
    /\ CalendarDue(row)

ResolvedFits(row) ==
    /\ row.resolvedAt # NULL
    /\ row.firstResponseAt <= row.resolvedAt
    /\ row.qualifiedAt <= row.resolvedAt

VerdictFits(row) ==
    row.isSlaResolutionRespected = Respected(row.resolvedAt, row.slaDueResolutionAt)

Reached(row, stage) ==
    /\ stage \in Qualified => QualifiedFits(row)
    /\ stage \in {"EN_COURS", "RESOLUE", "CLOTUREE"} => row.firstResponseAt # NULL
    /\ stage \in {"RESOLUE", "CLOTUREE"} => ResolvedFits(row)
    /\ stage = "RESOLUE" => VerdictFits(row)
    /\ stage = "CLOTUREE" => row.resolvedAt <= row.closedAt

Reopenings(row) == row.lastReopenedAt # NULL <=> row.reopenCount > 0

StageFits(row, t) ==
    Past(row, t) /\ Reached(row, StatusUnderWait(row)) /\ Reopenings(row)

StagesFit == \A r \in Created : StageFits(requests[r], now)

LEMMA TransitionKeepsStage ==
    ASSUME NEW row \in Row, NEW saved \in Row, NEW code \in TransitionCode,
           NEW dto \in Dto, NEW t \in Nat,
           Effect(code, row, dto, t, saved), DeadlineEffect(code, row, t, saved),
           Stamps(code, row, t, saved), code = "T02" => CalendarDue(saved),
           row.status \in TRANSITIONS[code].from, Target(code, row) # NULL,
           saved.status = Target(code, row), StageFits(row, t)
    PROVE  StageFits(saved, t)
  <1> DEFINE before == StatusUnderWait(row)
             after  == StatusUnderWait(saved)
  <1>1. /\ row.createdAt \in Nat /\ row.waitingClientTotal \in Nat
        /\ row.updatedAt \in Nat
        /\ row.reopenCount \in Nat
        /\ row.qualifiedAt \in Nat \cup {NULL} /\ row.firstResponseAt \in Nat \cup {NULL}
        /\ row.resolvedAt \in Nat \cup {NULL} /\ row.lastReopenedAt \in Nat \cup {NULL}
        /\ t # NULL
    BY NullAssumption DEF Row, Instant
  <1>2. /\ saved.createdAt = row.createdAt
        /\ saved.reopenCount = IF code = "T19" THEN row.reopenCount + 1 ELSE row.reopenCount
        /\ code # "T02" /\ code # "T19" => saved.effectivePriority = row.effectivePriority
        /\ saved.waitingClientTotal =
              (IF code = "CLIENT_REPLY" THEN row.waitingClientTotal + Delta(row, t)
               ELSE row.waitingClientTotal)
        /\ code \in {"T03", "T07", "T10"} => saved.previousStatusBeforeWait = row.status
    BY Zenon DEF Effect
  <1>3. IF code \in {"T03", "T07", "T10", "CLIENT_REPLY"}
        THEN after = before
        ELSE before = row.status /\ after = TRANSITIONS[code].to
    BY <1>2, StageOf
  <1> HIDE DEF before, after
  <1>4. Past(saved, t)
    BY <1>1, <1>2 DEF StageFits, Past, Stamps
  <1>5. Reopenings(saved)
    BY <1>1, <1>2 DEF StageFits, Reopenings, Stamps
  <1>6. Reached(row, before)
    BY DEF StageFits, before
  <1>7. Reached(saved, after)
    <2>1. CASE code \in {"T04", "T05", "T09", "T12", "T19"}
      <3>1. after \in {"ANNULEE", "NOUVELLE"}
        BY <1>3, <2>1, Table
      <3> QED
        BY <3>1 DEF Reached, Qualified
    <2>2. CASE code = "T02"
      <3>1. after = "EN_ATTENTE_AFFECTATION"
        BY <1>3, <2>2, Table
      <3>2. QualifiedFits(saved)
        BY <1>1, <2>2 DEF QualifiedFits, Stamps, StageFits, Past
      <3> QED
        BY <3>1, <3>2 DEF Reached
    <2>3. CASE code = "CLIENT_REPLY"
      <3>1. /\ saved.qualifiedAt = row.qualifiedAt
            /\ saved.lastReopenedAt = row.lastReopenedAt
            /\ saved.firstResponseAt = row.firstResponseAt
            /\ saved.resolvedAt = row.resolvedAt /\ saved.closedAt = row.closedAt
            /\ saved.effectivePriority = row.effectivePriority
        BY <1>2, <2>3 DEF Stamps
      <3>2. before \notin {"RESOLUE", "CLOTUREE"}
        <4>1. /\ row.status = "EN_ATTENTE_CLIENT"
              /\ row.previousStatusBeforeWait \in CLIENT_REPLY_TARGETS
          BY <2>3, Table, TargetIs
        <4> QED
          BY <4>1 DEF before, StatusUnderWait, CLIENT_REPLY_TARGETS
      <3>3. CalendarDue(row) => CalendarDue(saved)
        <4>1. ResolutionTime(row.effectivePriority) \in Nat
          BY SlaAssumption, MinutesType DEF ResolutionTime, Row
        <4>2. Delta(row, t) \in Nat
          BY <1>1 DEF Delta
        <4>3. saved.slaDueResolutionAt =
                 IF row.slaDueResolutionAt = NULL THEN NULL
                 ELSE row.slaDueResolutionAt + Delta(row, t)
          BY <2>3 DEF DeadlineEffect
        <4> HIDE DEF Delta
        <4> QED
          BY <1>1, <1>2, <2>3, <3>1, <4>1, <4>2, <4>3, NullAssumption DEF CalendarDue
      <3> QED
        BY <1>3, <1>6, <2>3, <3>1, <3>2, <3>3, Zenon DEF Reached, QualifiedFits
    <2>4. CASE code \in TransitionCode
                  \ {"T02", "T04", "T05", "T09", "T12", "T19", "CLIENT_REPLY"}
      <3>0. /\ code # "T02" /\ code # "T19" /\ code # "CLIENT_REPLY"
            /\ code \notin {"T02", "T19", "CLIENT_REPLY"}
        BY <2>4
      <3>1. /\ saved.qualifiedAt = row.qualifiedAt
            /\ saved.lastReopenedAt = row.lastReopenedAt
            /\ saved.slaDueResolutionAt = row.slaDueResolutionAt
            /\ saved.effectivePriority = row.effectivePriority
            /\ saved.waitingClientTotal = row.waitingClientTotal
        BY <1>2, <3>0, Zenon DEF Stamps, DeadlineEffect
      <3>2. QualifiedFits(row) => QualifiedFits(saved)
        BY <1>2, <3>1, Zenon DEF QualifiedFits, CalendarDue
      <3>3. CASE code \in {"T03", "T07", "T10"}
        <4>1. /\ saved.firstResponseAt = row.firstResponseAt
              /\ saved.resolvedAt = row.resolvedAt
              /\ before \notin {"RESOLUE", "CLOTUREE"} /\ after = before
          BY <1>3, <3>3, Table DEF Stamps, before, StatusUnderWait
        <4> QED
          BY <1>6, <3>2, <4>1, Zenon DEF Reached
      <3>4. CASE code = "T06"
        <4>1. before = "EN_ATTENTE_AFFECTATION" /\ after = "AFFECTEE"
          BY <1>3, <3>4, Table
        <4> QED
          BY <1>6, <3>2, <4>1 DEF Reached, Qualified
      <3>5. CASE code = "T08"
        <4>1. before = "AFFECTEE" /\ after = "EN_COURS"
          BY <1>3, <3>5, Table
        <4>2. saved.firstResponseAt # NULL
          BY <1>1, <3>5 DEF Stamps
        <4> QED
          BY <1>6, <3>2, <4>1, <4>2 DEF Reached, Qualified
      <3>6. CASE code = "T11"
        <4>1. before = "EN_COURS" /\ after = "RESOLUE"
          BY <1>3, <3>6, Table
        <4>2. /\ saved.firstResponseAt = row.firstResponseAt /\ saved.resolvedAt = t
              /\ saved.isSlaResolutionRespected = Respected(t, row.slaDueResolutionAt)
          BY <3>6 DEF Stamps
        <4>3. row.firstResponseAt # NULL /\ QualifiedFits(row)
          BY <1>6, <4>1 DEF Reached, Qualified
        <4>4. ResolvedFits(saved)
          BY <1>1, <3>1, <4>2, <4>3 DEF ResolvedFits, QualifiedFits, StageFits, Past
        <4>5. VerdictFits(saved)
          BY <3>1, <4>2, Zenon DEF VerdictFits
        <4> QED
          BY <3>2, <4>1, <4>2, <4>3, <4>4, <4>5 DEF Reached
      <3>7. CASE code \in {"T16", "T17"}
        <4>1. before = "RESOLUE" /\ after = "CLOTUREE"
          BY <1>3, <3>7, Table
        <4>2. /\ saved.firstResponseAt = row.firstResponseAt
              /\ saved.resolvedAt = row.resolvedAt /\ saved.closedAt = t
          BY <3>7 DEF Stamps
        <4>3. row.firstResponseAt # NULL /\ QualifiedFits(row) /\ ResolvedFits(row)
          BY <1>6, <4>1 DEF Reached, Qualified
        <4>4. ResolvedFits(saved) /\ saved.resolvedAt <= saved.closedAt
          BY <3>1, <4>2, <4>3 DEF ResolvedFits, StageFits, Past
        <4> QED
          BY <3>2, <4>1, <4>2, <4>3, <4>4 DEF Reached
      <3>8. CASE code = "T18"
        <4>1. before = "RESOLUE" /\ after = "EN_COURS"
          BY <1>3, <3>8, Table
        <4>2. saved.firstResponseAt = row.firstResponseAt
          BY <3>8 DEF Stamps
        <4> QED
          BY <1>6, <3>2, <4>1, <4>2 DEF Reached, Qualified
      <3> QED
        BY <2>4, <3>3, <3>4, <3>5, <3>6, <3>7, <3>8 DEF TransitionCode
    <2> QED
      BY <2>1, <2>2, <2>3, <2>4
  <1> QED
    BY <1>4, <1>5, <1>7 DEF StageFits, after

LEMMA NewRowsFitTheirStage ==
    ASSUME CalendarSound, TypeOK, NEW r \in Requests, Creates(r)
    PROVE  StageFits(requests'[r], now)
  <1>1. PICK client \in Clients, p \in Priority :
          \/ Insert(r, NewRow(client, p, now))
          \/ \E assignee \in Staff : Insert(r, AutoAssigned(NewRow(client, p, now), assignee, now))
    BY Zenon DEF Creates
  <1>2. now \in Nat /\ now # NULL
    BY NullAssumption DEF TypeOK
  <1>3. CASE Insert(r, NewRow(client, p, now))
    <2> DEFINE new == NewRow(client, p, now)
    <2>1. requests'[r] = new
      BY <1>3 DEF Insert
    <2>2. /\ new.createdAt = now /\ new.qualifiedAt = NULL
          /\ new.firstResponseAt = NULL /\ new.resolvedAt = NULL
          /\ new.lastReopenedAt = NULL /\ new.reopenCount = 0
          /\ new.status = "NOUVELLE"
      BY DEF NewRow
    <2> HIDE DEF new
    <2> QED
      BY <1>2, <2>1, <2>2
         DEF StageFits, Past, Reopenings, Reached, Qualified, StatusUnderWait
  <1>4. ASSUME NEW assignee \in Staff,
               Insert(r, AutoAssigned(NewRow(client, p, now), assignee, now))
        PROVE  StageFits(requests'[r], now)
    <2> DEFINE new == AutoAssigned(NewRow(client, p, now), assignee, now)
    <2>1. requests'[r] = new
      BY <1>4 DEF Insert
    <2>2. /\ new.createdAt = now /\ new.reopenCount = 0 /\ new.status = "AFFECTEE"
      BY <1>2, AutoAssignedFits
    <2>3. /\ new.qualifiedAt = now
          /\ new.firstResponseAt = NULL /\ new.resolvedAt = NULL
          /\ new.closedAt = NULL /\ new.lastReopenedAt = NULL
          /\ CalendarDue(new)
      BY <1>2, AutoAssignedStamps
    <2> HIDE DEF new
    <2>4. QualifiedFits(new)
      BY <1>2, <2>3 DEF QualifiedFits
    <2> QED
      BY <1>2, <2>1, <2>2, <2>3, <2>4
         DEF StageFits, Past, Reopenings, Reached, Qualified, StatusUnderWait
  <1> QED
    BY <1>1, <1>3, <1>4

LEMMA NextStagesFit ==
    ASSUME CalendarSound, TypeOK, StagesFit, [Next]_vars
    PROVE  StagesFit'
  <1>1. ASSUME NEW r \in Requests, Creates(r)
        PROVE  StagesFit'
    <2>1. /\ requests' = [q \in Created \cup {r} |->
                            IF q = r THEN requests'[r] ELSE requests[q]]
          /\ StageFits(requests'[r], now)
      BY <1>1, CreatesRow, NewRowsFitTheirStage
    <2>2. now' = now
      BY <1>1 DEF Creates
    <2> QED
      BY <2>1, <2>2, Zenon DEF StagesFit, Created
  <1>2. ASSUME NEW r \in Requests, NEW code \in TransitionCode, Applies(r, code)
        PROVE  StagesFit'
    <2> DEFINE row == requests[r]
               saved == requests'[r]
    <2>1. /\ r \in Created /\ row \in Row /\ saved \in Row
          /\ requests' = [requests EXCEPT ![r] = saved]
          /\ row.status \in TRANSITIONS[code].from
          /\ Target(code, row) # NULL
          /\ DeadlineEffect(code, row, now, saved)
          /\ saved.status = Target(code, row)
          /\ Stamps(code, row, now, saved)
          /\ code = "T02" => CalendarDue(saved)
      BY <1>2, AppliesToRow
    <2>2. PICK dto \in Dto : Effect(code, row, dto, now, saved)
      BY <1>2, AppliesToRow
    <2>3. now \in Nat /\ now' = now
      BY <1>2 DEF Applies, TypeOK
    <2>4. StageFits(row, now)
      BY <2>1 DEF StagesFit
    <2> HIDE DEF row, saved
    <2>5. StageFits(saved, now)
      BY <2>1, <2>2, <2>3, <2>4, TransitionKeepsStage
    <2> QED
      BY <2>1, <2>3, <2>5, Zenon DEF StagesFit, Created, TypeOK, saved
  <1>3. CASE Tick
    <2>1. requests' = requests /\ now' = now + 1 /\ now \in Nat
      BY <1>3 DEF Tick, TypeOK
    <2>2. ASSUME NEW row \in Row, Past(row, now)
          PROVE  Past(row, now + 1)
      <3>1. /\ row.createdAt \in Nat
            /\ row.qualifiedAt \in Nat \cup {NULL} /\ row.firstResponseAt \in Nat \cup {NULL}
            /\ row.resolvedAt \in Nat \cup {NULL} /\ row.lastReopenedAt \in Nat \cup {NULL}
        BY DEF Row, Instant
      <3> QED
        BY <2>1, <2>2, <3>1 DEF Past
    <2>3. \A r \in Created : requests[r] \in Row
      BY DEF TypeOK
    <2> QED
      BY <2>1, <2>2, <2>3, Zenon DEF StagesFit, StageFits, Created
  <1>4. CASE UNCHANGED <<requests, now>>
    BY <1>4, Zenon DEF StagesFit, Created
  <1>5. (LeavesRowsAlone \/ UNCHANGED vars) => UNCHANGED <<requests, now>>
    BY DEF LeavesRowsAlone, vars
  <1> QED
    BY <1>1, <1>2, <1>3, <1>4, <1>5, NextKinds

LEMMA StagesAlwaysFit ==
    ASSUME CalendarSound PROVE Spec => []StagesFit
  <1>1. Init => StagesFit
    BY DEF Init, StagesFit, Created
  <1>2. TypeOK /\ StagesFit /\ [Next]_vars => StagesFit'
    BY NextStagesFit
  <1> QED
    BY <1>1, <1>2, TypeCorrect, PTL DEF Spec

(* The milestones the indicators subtract are there when they are needed and   *)
(* in order, across refusals and reopenings (applyEffects).                  *)
THEOREM MilestonesInOrder ==
    ASSUME CalendarSound PROVE Spec => []MilestonesOrdered
  <1>1. ASSUME TypeOK, StagesFit, NEW r \in Created
        PROVE  LET row == requests[r]
               IN  /\ row.status \in {"RESOLUE", "CLOTUREE"} =>
                         /\ row.qualifiedAt # NULL /\ row.firstResponseAt # NULL
                         /\ row.createdAt <= row.firstResponseAt
                         /\ row.firstResponseAt <= row.resolvedAt
                         /\ row.qualifiedAt <= row.resolvedAt
                         /\ row.lastReopenedAt # NULL =>
                               row.lastReopenedAt <= row.qualifiedAt
                   /\ row.status = "CLOTUREE" => row.resolvedAt <= row.closedAt
                   /\ row.lastReopenedAt # NULL <=> row.reopenCount > 0
    <2> DEFINE row == requests[r]
    <2>1. StageFits(row, now)
      BY <1>1 DEF StagesFit
    <2> HIDE DEF row
    <2>2. row.status \in {"RESOLUE", "CLOTUREE"} => StatusUnderWait(row) = row.status
      BY DEF StatusUnderWait
    <2>3. row.status \in {"RESOLUE", "CLOTUREE"} =>
             /\ row.qualifiedAt # NULL /\ row.firstResponseAt # NULL
             /\ row.createdAt <= row.firstResponseAt
             /\ row.firstResponseAt <= row.resolvedAt
             /\ row.qualifiedAt <= row.resolvedAt
             /\ row.lastReopenedAt # NULL => row.lastReopenedAt <= row.qualifiedAt
      BY <2>1, <2>2 DEF StageFits, Reached, Qualified, QualifiedFits, ResolvedFits, Past
    <2>4. row.status = "CLOTUREE" => row.resolvedAt <= row.closedAt
      BY <2>1, <2>2 DEF StageFits, Reached
    <2> QED
      BY <2>1, <2>3, <2>4, Zenon DEF StageFits, Reopenings, row
  <1>2. TypeOK /\ StagesFit => MilestonesOrdered
    BY <1>1, Zenon DEF MilestonesOrdered
  <1> QED
    BY <1>2, TypeCorrect, StagesAlwaysFit, PTL

(* The verdict T11 stores for a priority in calendar time is the one the      *)
(* service level defines, net of the time spent waiting, whatever the order of *)
(* the waits, the qualifications and the reopenings.                        *)
THEOREM VerdictIsNetOfWaiting ==
    ASSUME CalendarSound PROVE Spec => []VerdictNetOfWaiting
  <1>1. ASSUME TypeOK, StagesFit, WaitingAccounted, NEW r \in Created,
               requests[r].status = "RESOLUE", requests[r].effectivePriority \in Is24x7
        PROVE  requests[r].isSlaResolutionRespected = "yes"
                   <=> requests[r].resolvedAt - requests[r].createdAt - waited[r]
                            <= ResolutionTime(requests[r].effectivePriority)
    <2> DEFINE row == requests[r]
    <2>1. /\ row.createdAt \in Nat /\ row.waitingClientTotal \in Nat
          /\ row.resolvedAt \in Nat \cup {NULL}
          /\ ResolutionTime(row.effectivePriority) \in Nat
      BY <1>1, SlaAssumption, MinutesType DEF TypeOK, Row, Instant, ResolutionTime
    <2>2. waited[r] = row.waitingClientTotal
      BY <1>1, <2>1 DEF WaitingAccounted, Waiting
    <2>3. /\ StageFits(row, now) /\ StatusUnderWait(row) = "RESOLUE"
          /\ row.effectivePriority \in Is24x7
      BY <1>1 DEF StagesFit, StatusUnderWait
    <2> HIDE DEF row
    <2>4. /\ row.resolvedAt \in Nat
          /\ row.slaDueResolutionAt = row.createdAt + ResolutionTime(row.effectivePriority)
                                         + row.waitingClientTotal
          /\ VerdictFits(row)
      BY <2>1, <2>3 DEF StageFits, Reached, Qualified, QualifiedFits, ResolvedFits, CalendarDue
    <2>5. row.slaDueResolutionAt \in Nat /\ row.slaDueResolutionAt # NULL
      BY <2>1, <2>4, NullAssumption
    <2>6. row.isSlaResolutionRespected = "yes" <=> row.resolvedAt <= row.slaDueResolutionAt
      BY <2>4, <2>5 DEF VerdictFits, Respected
    <2>7. row.isSlaResolutionRespected = "yes"
             <=> row.resolvedAt - row.createdAt - waited[r]
                     <= ResolutionTime(row.effectivePriority)
      BY <2>1, <2>2, <2>4, <2>6
    <2> QED
      BY <2>7 DEF row
  <1>2. TypeOK /\ StagesFit /\ WaitingAccounted => VerdictNetOfWaiting
    BY <1>1, Zenon DEF VerdictNetOfWaiting
  <1> QED
    BY <1>2, TypeCorrect, StagesAlwaysFit, WaitingTimeExact, PTL

-----------------------------------------------------------------------------
(***************************************************************************)
(* The journal.  The strengthening: the newest entry of a request ends at    *)
(* the status the request has.                                             *)
(***************************************************************************)
JournalAtStatus ==
    \A r \in Requests : journal[r] # NoEntry =>
        r \in Created /\ journal[r].to = requests[r].status

LEMMA NextJournal ==
    ASSUME CalendarSound, TypeOK, JournalAtStatus, [Next]_vars
    PROVE  /\ JournalAtStatus'
           /\ \A r \in Requests :
                 journal'[r] # journal[r] =>
                     /\ journal'[r].to = requests'[r].status
                     /\ journal[r] = NoEntry \/ journal'[r].from = journal[r].to
  <1> DEFINE Goal ==
         /\ JournalAtStatus'
         /\ \A r \in Requests :
               journal'[r] # journal[r] =>
                   /\ journal'[r].to = requests'[r].status
                   /\ journal[r] = NoEntry \/ journal'[r].from = journal[r].to
  <1>1. ASSUME NEW r \in Requests, Creates(r)
        PROVE  Goal
    <2>1. /\ r \notin Created
          /\ requests' = [q \in Created \cup {r} |->
                            IF q = r THEN requests'[r] ELSE requests[q]]
          /\ \/ journal' = journal
             \/ /\ requests'[r].status = "AFFECTEE"
                /\ journal' = [journal EXCEPT ![r] =
                       [code |-> "T06", from |-> "EN_ATTENTE_AFFECTATION",
                        to |-> "AFFECTEE"]]
      BY <1>1, CreatesRow, Zenon
    <2>2. Created' = Created \cup {r} /\ \A q \in Created : requests'[q] = requests[q]
      BY <2>1 DEF Created
    <2>3. journal[r] = NoEntry
      BY <2>1 DEF JournalAtStatus
    <2>4. /\ \A q \in Requests : q # r => journal'[q] = journal[q]
          /\ journal'[r] # journal[r] => journal'[r].to = requests'[r].status
      BY <2>1 DEF TypeOK
    <2> QED
      BY <2>2, <2>3, <2>4 DEF JournalAtStatus
  <1>2. ASSUME NEW r \in Requests, NEW code \in TransitionCode, Applies(r, code)
        PROVE  Goal
    <2>1. /\ r \in Created /\ requests[r] \in Row
          /\ requests' = [requests EXCEPT ![r] = requests'[r]]
          /\ Target(code, requests[r]) # NULL
          /\ requests'[r].status = Target(code, requests[r])
      BY <1>2, AppliesToRow
    <2>2. /\ JournalEntry(code, requests[r]).from = requests[r].status
          /\ JournalEntry(code, requests[r]).to = Target(code, requests[r])
      BY <2>1, EntryOf
    <2>3. /\ Created' = Created
          /\ \A q \in Created : q # r => requests'[q] = requests[q]
      BY <2>1 DEF Created
    <2>4. /\ journal'[r] = JournalEntry(code, requests[r])
          /\ \A q \in Requests : q # r => journal'[q] = journal[q]
      BY <1>2 DEF Applies, TypeOK
    <2> HIDE DEF JournalEntry
    <2> QED
      BY <2>1, <2>2, <2>3, <2>4, Zenon DEF JournalAtStatus
  <1>3. CASE UNCHANGED <<requests, journal>>
    BY <1>3, Zenon DEF JournalAtStatus, Created
  <1>4. (Tick \/ LeavesRowsAlone \/ UNCHANGED vars) => UNCHANGED <<requests, journal>>
    BY DEF Tick, LeavesRowsAlone, vars
  <1> QED
    BY <1>1, <1>2, <1>3, <1>4, NextKinds

(* The journal of every request is a path of the transition table.          *)
THEOREM JournalPath ==
    ASSUME CalendarSound PROVE Spec => JournalIsAPath
  <1>1. Init => JournalAtStatus
    BY DEF Init, JournalAtStatus
  <1>2. TypeOK /\ JournalAtStatus /\ [Next]_vars => JournalAtStatus'
    BY NextJournal
  <1>3. TypeOK /\ JournalAtStatus /\ [Next]_vars =>
          [\A r \in Requests :
              journal'[r] # journal[r] =>
                  /\ journal'[r].to = requests'[r].status
                  /\ journal[r] = NoEntry \/ journal'[r].from = journal[r].to]_vars
    BY NextJournal
  <1> QED
    BY <1>1, <1>2, <1>3, TypeCorrect, PTL DEF Spec, JournalIsAPath

-----------------------------------------------------------------------------
(***************************************************************************)
(* The contract.  Every step changes the phase, the holder and the count of  *)
(* one request, by the action of the contract its transition stands for.     *)
(***************************************************************************)

(* The phase a request is in before and after each transition.              *)
LEMMA PhasesOfTransition ==
    ASSUME NEW row \in Row, NEW saved \in Row, NEW code \in TransitionCode,
           NEW dto \in Dto, Effect(code, row, dto, now, saved),
           row.status \in TRANSITIONS[code].from, Target(code, row) # NULL,
           saved.status = Target(code, row)
    PROVE  LET before == PhaseOf(StatusUnderWait(row))
               after  == PhaseOf(StatusUnderWait(saved))
           IN  /\ code \in {"T02", "T03", "T07", "T08", "T10", "CLIENT_REPLY"} =>
                      after = before
               /\ code \in {"T04", "T05"} => before = "queue" /\ after = "cancelled"
               /\ code = "T06" => before = "queue" /\ after = "work"
               /\ code \in {"T09", "T12"} => before = "work" /\ after = "queue"
               /\ code = "T11" => before = "work" /\ after = "resolved"
               /\ code \in {"T16", "T17"} => before = "resolved" /\ after = "closed"
               /\ code = "T18" => before = "resolved" /\ after = "work"
               /\ code = "T19" => before = "closed" /\ after = "queue"
  <1>1. CASE code \in {"T03", "T07", "T10"}
    <2>1. StatusUnderWait(row) = row.status /\ StatusUnderWait(saved) = row.status
      BY <1>1, Table, TargetIs DEF Effect, StatusUnderWait
    <2> QED
      BY <1>1, <2>1
  <1>2. CASE code = "CLIENT_REPLY"
    <2>1. StatusUnderWait(saved) = StatusUnderWait(row)
      BY <1>2, Table, TargetIs DEF StatusUnderWait, CLIENT_REPLY_TARGETS
    <2> QED
      BY <1>2, <2>1
  <1>3. CASE code \notin {"T03", "T07", "T10", "CLIENT_REPLY"}
    <2>1. /\ StatusUnderWait(row) = row.status
          /\ StatusUnderWait(saved) = TRANSITIONS[code].to
      BY <1>3, Table, TargetIs DEF StatusUnderWait, TransitionCode
    <2> QED
      BY <1>3, <2>1, Table DEF PhaseOf, TransitionCode
  <1> QED
    BY <1>1, <1>2, <1>3

LEMMA MapsAfterCreation ==
    ASSUME CalendarSound, TypeOK, NEW r \in Requests, Creates(r)
    PROVE  Contract!Next
  <1> DEFINE new == requests'[r]
  <1>1. /\ r \notin Created
        /\ requests' = [q \in Created \cup {r} |-> IF q = r THEN new ELSE requests[q]]
        /\ new.reopenCount = 0
        /\ \/ new.status = "NOUVELLE" /\ new.assignedTo = NULL
           \/ new.status = "AFFECTEE" /\ new.assignedTo \in Staff
    BY CreatesRow
  <1>2. Created' = Created \cup {r} /\ \A q \in Created : requests'[q] = requests[q]
    BY <1>1 DEF Created
  <1> HIDE DEF new
  <1>3. /\ PhaseMap' = [PhaseMap EXCEPT ![r] = PhaseOf(StatusUnderWait(new))]
        /\ HolderMap' = [HolderMap EXCEPT ![r] = new.assignedTo]
        /\ ReopensMap' = [ReopensMap EXCEPT ![r] = new.reopenCount]
    BY <1>2 DEF PhaseMap, HolderMap, ReopensMap, new
  <1>4. /\ PhaseMap[r] = "absent" /\ HolderMap[r] = NULL /\ ReopensMap[r] = 0
    BY <1>1 DEF PhaseMap, HolderMap, ReopensMap
  <1>5. ReopensMap' = ReopensMap
    BY <1>1, <1>3, <1>4 DEF ReopensMap
  <1>6. CASE new.status = "NOUVELLE" /\ new.assignedTo = NULL
    <2>1. PhaseOf(StatusUnderWait(new)) = "queue"
      BY <1>6 DEF PhaseOf, StatusUnderWait
    <2>2. HolderMap' = HolderMap
      BY <1>3, <1>4, <1>6 DEF HolderMap
    <2>3. Contract!Submit(r)
      BY <1>3, <1>4, <1>5, <2>1, <2>2 DEF Contract!Submit, Contract!Move
    <2> QED
      BY <2>3 DEF Contract!Next
  <1>7. CASE new.status = "AFFECTEE" /\ new.assignedTo \in Staff
    <2>1. PhaseOf(StatusUnderWait(new)) = "work"
      BY <1>7 DEF PhaseOf, StatusUnderWait
    <2>2. Contract!SubmitTo(r, new.assignedTo)
      BY <1>3, <1>4, <1>5, <2>1 DEF Contract!SubmitTo, Contract!Move
    <2> QED
      BY <1>7, <2>2 DEF Contract!Next
  <1> QED
    BY <1>1, <1>6, <1>7

LEMMA MapsAfterTransition ==
    ASSUME CalendarSound, TypeOK, NEW r \in Requests, NEW code \in TransitionCode,
           Applies(r, code)
    PROVE  [Contract!Next]_<<PhaseMap, HolderMap, ReopensMap>>
  <1> DEFINE row == requests[r]
             saved == requests'[r]
             before == PhaseOf(StatusUnderWait(row))
             after  == PhaseOf(StatusUnderWait(saved))
  <1>1. /\ r \in Created /\ row \in Row /\ saved \in Row
        /\ requests' = [requests EXCEPT ![r] = saved]
        /\ row.status \in TRANSITIONS[code].from
        /\ Target(code, row) # NULL
        /\ saved.status = Target(code, row)
        /\ code = "T19" => row.reopenCount < MAX_REOPENS
    BY AppliesToRow
  <1>2. PICK dto \in Dto : /\ Effect(code, row, dto, now, saved)
                           /\ code = "T06" => dto.assignee \in Staff
    BY AppliesToRow
  <1>3. Created' = Created /\ \A q \in Created : q # r => requests'[q] = requests[q]
    BY <1>1 DEF Created
  <1>4. /\ code \in {"T02", "T03", "T07", "T08", "T10", "CLIENT_REPLY"} => after = before
        /\ code \in {"T04", "T05"} => before = "queue" /\ after = "cancelled"
        /\ code = "T06" => before = "queue" /\ after = "work"
        /\ code \in {"T09", "T12"} => before = "work" /\ after = "queue"
        /\ code = "T11" => before = "work" /\ after = "resolved"
        /\ code \in {"T16", "T17"} => before = "resolved" /\ after = "closed"
        /\ code = "T18" => before = "resolved" /\ after = "work"
        /\ code = "T19" => before = "closed" /\ after = "queue"
    <2> HIDE DEF row, saved
    <2> QED
      BY <1>1, <1>2, PhasesOfTransition
  <1>5. /\ saved.assignedTo = (IF code = "T06" THEN dto.assignee
                               ELSE IF code \in {"T09", "T12", "T19"} THEN NULL
                               ELSE row.assignedTo)
        /\ saved.reopenCount = (IF code = "T19" THEN row.reopenCount + 1
                                ELSE row.reopenCount)
    BY <1>2, Zenon DEF Effect
  <1> HIDE DEF row, saved, before, after
  <1>6. /\ PhaseMap' = [PhaseMap EXCEPT ![r] = after]
        /\ HolderMap' = [HolderMap EXCEPT ![r] = saved.assignedTo]
        /\ ReopensMap' = [ReopensMap EXCEPT ![r] = saved.reopenCount]
    BY <1>1, <1>3 DEF PhaseMap, HolderMap, ReopensMap, saved, after
  <1>7. PhaseMap[r] = before /\ HolderMap[r] = row.assignedTo /\ ReopensMap[r] = row.reopenCount
    BY <1>1 DEF PhaseMap, HolderMap, ReopensMap, row, before
  <1>8. /\ after = before => PhaseMap' = PhaseMap
        /\ saved.assignedTo = row.assignedTo => HolderMap' = HolderMap
        /\ saved.reopenCount = row.reopenCount => ReopensMap' = ReopensMap
    BY <1>6, <1>7 DEF PhaseMap, HolderMap, ReopensMap
  <1>9. CASE code \in {"T02", "T03", "T07", "T08", "T10", "CLIENT_REPLY"}
    BY <1>4, <1>5, <1>8, <1>9
  <1>10. CASE code \in {"T04", "T05"}
    <2>1. Contract!Cancel(r)
      BY <1>4, <1>5, <1>6, <1>7, <1>8, <1>10 DEF Contract!Cancel, Contract!Move
    <2> QED
      BY <2>1 DEF Contract!Next
  <1>11. CASE code = "T06"
    <2>1. Contract!Take(r, dto.assignee)
      BY <1>4, <1>5, <1>6, <1>7, <1>8, <1>11 DEF Contract!Take, Contract!Move
    <2> QED
      BY <1>2, <1>11, <2>1 DEF Contract!Next
  <1>12. CASE code \in {"T09", "T12"}
    <2>1. Contract!Release(r)
      BY <1>4, <1>5, <1>6, <1>7, <1>8, <1>12 DEF Contract!Release, Contract!Move
    <2> QED
      BY <2>1 DEF Contract!Next
  <1>13. CASE code = "T11"
    <2>1. Contract!Resolve(r)
      BY <1>4, <1>5, <1>6, <1>7, <1>8, <1>13 DEF Contract!Resolve, Contract!Move
    <2> QED
      BY <2>1 DEF Contract!Next
  <1>14. CASE code \in {"T16", "T17"}
    <2>1. Contract!Close(r)
      BY <1>4, <1>5, <1>6, <1>7, <1>8, <1>14 DEF Contract!Close, Contract!Move
    <2> QED
      BY <2>1 DEF Contract!Next
  <1>15. CASE code = "T18"
    <2>1. Contract!Refuse(r)
      BY <1>4, <1>5, <1>6, <1>7, <1>8, <1>15 DEF Contract!Refuse, Contract!Move
    <2> QED
      BY <2>1 DEF Contract!Next
  <1>16. CASE code = "T19"
    <2>1. Contract!Reopen(r)
      BY <1>1, <1>4, <1>5, <1>6, <1>7, <1>16 DEF Contract!Reopen, Contract!Move
    <2> QED
      BY <2>1 DEF Contract!Next
  <1> QED
    BY <1>9, <1>10, <1>11, <1>12, <1>13, <1>14, <1>15, <1>16 DEF TransitionCode

(* The engine implements the contract of RequestContract.                   *)
THEOREM EngineImplementsContract ==
    ASSUME CalendarSound PROVE Spec => ImplementsContract
  <1>1. Init => Contract!Init
    BY DEF Init, Contract!Init, PhaseMap, HolderMap, ReopensMap, Created
  <1>2. TypeOK /\ [Next]_vars => [Contract!Next]_(Contract!contractVars)
    <2>1. ASSUME TypeOK, UNCHANGED requests
          PROVE  UNCHANGED <<PhaseMap, HolderMap, ReopensMap>>
      BY <2>1 DEF PhaseMap, HolderMap, ReopensMap, Created
    <2>2. (Tick \/ LeavesRowsAlone \/ UNCHANGED vars) => UNCHANGED requests
      BY DEF Tick, LeavesRowsAlone, vars
    <2> QED
      BY <2>1, <2>2, NextKinds, MapsAfterCreation, MapsAfterTransition
         DEF Contract!contractVars
  <1> QED
    BY <1>1, <1>2, TypeCorrect, PTL DEF Spec, ImplementsContract, Contract!Spec

(* What the contract promises of its holders holds of the engine's rows: a     *)
(* request is held exactly while it is worked on, resolved or closed, a wait    *)
(* included.                                                               *)
THEOREM EngineHoldsExactlyInWork ==
    ASSUME CalendarSound PROVE Spec => []Contract!HeldExactlyInWork
  <1>1. ASSUME TypeOK, RowsFit, NEW r \in Requests
        PROVE  HolderMap[r] # NULL <=> PhaseMap[r] \in {"work", "resolved", "closed"}
    <2>1. CASE r \notin Created
      BY <2>1 DEF HolderMap, PhaseMap
    <2>2. CASE r \in Created
      <3> DEFINE row == requests[r]
                 stage == StatusUnderWait(row)
      <3>1. row \in Row /\ MarkerFits(row) /\ HolderFits(row)
        BY <1>1, <2>2 DEF TypeOK, RowsFit, RowFits
      <3>2. HolderMap[r] = row.assignedTo /\ PhaseMap[r] = PhaseOf(stage)
        BY <2>2 DEF HolderMap, PhaseMap
      <3> HIDE DEF row
      <3>3. stage \in RequestStatus \ {"EN_ATTENTE_CLIENT"}
        BY <3>1 DEF Row, MarkerFits, StatusUnderWait, RequestStatus, CLIENT_REPLY_TARGETS
      <3> HIDE DEF stage
      <3>4. PhaseOf(stage) \in {"work", "resolved", "closed"}
               <=> stage \in {"AFFECTEE", "EN_COURS", "RESOLUE", "CLOTUREE"}
        BY <3>3 DEF PhaseOf, RequestStatus
      <3> QED
        BY <3>1, <3>2, <3>4 DEF HolderFits, stage
    <2> QED
      BY <2>1, <2>2
  <1>2. TypeOK /\ RowsFit => Contract!HeldExactlyInWork
    BY <1>1, Zenon DEF Contract!HeldExactlyInWork
  <1> QED
    BY <1>2, TypeCorrect, RowsAlwaysFit, PTL
=============================================================================
