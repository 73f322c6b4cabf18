----------------------- MODULE TransitionEngine_proofs -----------------------
(***************************************************************************)
(* Facts about the operators of the engine, for every value of the           *)
(* constants: the priorities stay in range and an accepted transition of a   *)
(* well-typed row gives a well-typed row.                                   *)
(***************************************************************************)
EXTENDS TransitionEngine, TLAPS

(* The matrix has a priority in each of its sixteen cells.                  *)
LEMMA MatrixInRange ==
    ASSUME NEW impact \in ImpactValue, NEW urgency \in UrgencyValue
    PROVE  priorityFromMatrix(impact, urgency) \in Priority
  <1>1. \A a, b, c, d \in Priority : Line(a, b, c, d, urgency) \in Priority
    BY DEF Line, UrgencyValue
  <1> QED
    BY <1>1 DEF priorityFromMatrix, ImpactValue, Priority

(* The system priority is the more urgent of the matrix and the category.   *)
THEOREM SystemPriorityIsTheMostUrgent ==
    ASSUME NEW impact \in ImpactValue, NEW urgency \in UrgencyValue,
           NEW default \in Priority
    PROVE  LET p == computeSystemPriority(impact, urgency, default)
           IN  /\ p \in Priority
               /\ p <= default /\ p <= priorityFromMatrix(impact, urgency)
               /\ p \in {default, priorityFromMatrix(impact, urgency)}
  BY MatrixInRange DEF computeSystemPriority, Priority

LEMMA BumpInRange ==
    ASSUME NEW p \in Priority
    PROVE  bumpPriorityCapP1(p) \in Priority
  BY DEF bumpPriorityCapP1, Priority

LEMMA MinutesType ==
    ASSUME NEW n \in Nat PROVE Minutes(n) \in Nat
  BY SlaAssumption DEF Minutes

LEMMA WholeMinutes ==
    ASSUME NEW w \in Nat
    PROVE  /\ w \div Minute \in Nat
           /\ Minutes(w \div Minute) + Minute > w
  <1>1. Minute \in Nat \ {0}
    BY SlaAssumption
  <1>2. w \div Minute \in Nat
    BY <1>1
  <1>3. w < (w \div Minute) * Minute + Minute
    BY <1>1
  <1> QED
    BY <1>2, <1>3 DEF Minutes

LEMMA AdvanceType ==
    ASSUME CalendarSound, NEW level, NEW t \in Nat, NEW m \in Nat
    PROVE  /\ Advance(level, t, m) \in Nat
           /\ Advance(level, t, m) >= t + Minutes(m)
  <1> DEFINE open == AddBusinessMinutes(t, m)
  <1>1. open \in Nat /\ open >= t + Minutes(m)
    BY Zenon DEF CalendarSound
  <1>2. Minutes(m) \in Nat
    BY MinutesType
  <1> HIDE DEF open
  <1>3. Advance(level, t, m) = IF level \in Is24x7 THEN t + Minutes(m) ELSE open
    BY Zenon DEF Advance, open
  <1> QED
    BY <1>1, <1>2, <1>3

(* A deadline moves by the time waited, less the minute begun.              *)
LEMMA ShiftType ==
    ASSUME CalendarSound, NEW level, NEW due \in Nat, NEW w \in Nat
    PROVE  LET shifted == ShiftResolutionForWaiting(level, due, w)
           IN  shifted \in Nat /\ shifted + Minute > due + w
  <1> DEFINE whole == w \div Minute
             open == AddBusinessMinutes(due, whole)
             shifted == ShiftResolutionForWaiting(level, due, w)
  <1>1. whole \in Nat /\ Minutes(whole) + Minute > w /\ Minutes(whole) \in Nat
    BY WholeMinutes, MinutesType
  <1>2. Minute \in Nat \ {0}
    BY SlaAssumption
  <1> HIDE DEF whole
  <1>3. open \in Nat /\ open >= due + Minutes(whole)
    BY <1>1, Zenon DEF CalendarSound
  <1> HIDE DEF open
  <1>4. shifted = IF w <= 0 THEN due ELSE IF level \in Is24x7 THEN due + w ELSE open
    BY Zenon DEF ShiftResolutionForWaiting, open, whole
  <1> HIDE DEF shifted
  <1> QED
    BY <1>1, <1>2, <1>3, <1>4 DEF shifted

-----------------------------------------------------------------------------
(* The table of transitions, read row by row.                              *)
LEMMA Table ==
    ASSUME NEW c \in TransitionCode
    PROVE  /\ TRANSITIONS[c].from \subseteq RequestStatus
           /\ TRANSITIONS[c].to \in RequestStatus \cup {NULL}
           /\ c \in {"T02", "T03", "T04", "T05"} => TRANSITIONS[c].from = {"NOUVELLE"}
           /\ c \in {"T06", "T07"} => TRANSITIONS[c].from = {"EN_ATTENTE_AFFECTATION"}
           /\ c \in {"T08", "T09"} => TRANSITIONS[c].from = {"AFFECTEE"}
           /\ c \in {"T10", "T11", "T12"} => TRANSITIONS[c].from = {"EN_COURS"}
           /\ c \in {"T16", "T17", "T18"} => TRANSITIONS[c].from = {"RESOLUE"}
           /\ c = "T19" => TRANSITIONS[c].from = {"CLOTUREE"}
           /\ c = "CLIENT_REPLY" => TRANSITIONS[c].from = {"EN_ATTENTE_CLIENT"}
           /\ c = "T02" => TRANSITIONS[c].to = "EN_ATTENTE_AFFECTATION"
           /\ c \in {"T03", "T07", "T10"} => TRANSITIONS[c].to = "EN_ATTENTE_CLIENT"
           /\ c \in {"T04", "T05"} => TRANSITIONS[c].to = "ANNULEE"
           /\ c = "T06" => TRANSITIONS[c].to = "AFFECTEE"
           /\ c \in {"T08", "T18"} => TRANSITIONS[c].to = "EN_COURS"
           /\ c \in {"T09", "T12", "T19"} => TRANSITIONS[c].to = "NOUVELLE"
           /\ c = "T11" => TRANSITIONS[c].to = "RESOLUE"
           /\ c \in {"T16", "T17"} => TRANSITIONS[c].to = "CLOTUREE"
           /\ c = "CLIENT_REPLY" => TRANSITIONS[c].to = NULL
  BY DEF TRANSITIONS, TransitionDef, TransitionCode, RequestStatus

(* The target of an accepted transition.                                   *)
LEMMA TargetIs ==
    ASSUME NEW row \in Row, NEW c \in TransitionCode, Target(c, row) # NULL
    PROVE  /\ Target(c, row) \in RequestStatus
           /\ c # "CLIENT_REPLY" => Target(c, row) = TRANSITIONS[c].to
           /\ c = "CLIENT_REPLY" => /\ Target(c, row) = row.previousStatusBeforeWait
                                    /\ Target(c, row) \in CLIENT_REPLY_TARGETS
  <1>1. NULL \notin RequestStatus
    BY NullAssumption
  <1>2. CASE c = "CLIENT_REPLY"
    BY <1>1, <1>2, Table DEF Target, resolveClientReplyTarget, CLIENT_REPLY_TARGETS,
                        RequestStatus
  <1>3. CASE c # "CLIENT_REPLY"
    <2>1. TRANSITIONS[c].to \in RequestStatus
      BY <1>3, Table DEF TransitionCode, RequestStatus
    <2> QED
      BY <1>1, <1>3, <2>1 DEF Target
  <1> QED
    BY <1>2, <1>3

-----------------------------------------------------------------------------
LEMMA RespectedType ==
    ASSUME NEW t, NEW due PROVE Respected(t, due) \in Verdict
  BY DEF Respected, Verdict

(* ComputeAndSetDeadlines writes the two deadlines and nothing else.        *)
LEMMA DeadlinesFrame ==
    ASSUME CalendarSound, NEW row \in Row, NEW from \in Nat
    PROVE  LET dated == ComputeAndSetDeadlines(row, from)
           IN  /\ dated \in Row
               /\ dated = [row EXCEPT
                             !.slaDueFirstResponseAt = dated.slaDueFirstResponseAt,
                             !.slaDueResolutionAt = dated.slaDueResolutionAt]
               /\ dated.slaDueFirstResponseAt \in Nat
               /\ dated.slaDueResolutionAt \in Nat
               /\ dated.slaDueResolutionAt + Minute >
                      from + ResolutionTime(row.effectivePriority) + row.waitingClientTotal
  <1> DEFINE level == row.effectivePriority
             first == Advance(level, from, SlaFirstResponse[level])
             due   == Advance(level, from, SlaResolution[level])
             shifted == ShiftResolutionForWaiting(level, due, row.waitingClientTotal)
  <1>1. /\ level \in Priority /\ row.waitingClientTotal \in Nat
        /\ SlaFirstResponse[level] \in Nat /\ SlaResolution[level] \in Nat
        /\ Minute \in Nat
    BY SlaAssumption DEF Row
  <1>2. first \in Nat
    BY <1>1, AdvanceType
  <1>3. due \in Nat /\ due >= from + ResolutionTime(level)
        /\ ResolutionTime(level) \in Nat
    BY <1>1, AdvanceType, MinutesType DEF ResolutionTime
  <1>4. shifted \in Nat /\ shifted + Minute > due + row.waitingClientTotal
    <2> HIDE DEF due
    <2> QED
      BY <1>1, <1>3, ShiftType
  <1>5. ComputeAndSetDeadlines(row, from) =
            [row EXCEPT !.slaDueFirstResponseAt = first, !.slaDueResolutionAt = shifted]
    BY DEF ComputeAndSetDeadlines
  <1> HIDE DEF level, first, due, shifted
  <1>6. shifted + Minute > from + ResolutionTime(level) + row.waitingClientTotal
    BY <1>1, <1>3, <1>4
  <1> QED
    BY <1>2, <1>4, <1>5, <1>6 DEF Row, Instant, level

-----------------------------------------------------------------------------
(***************************************************************************)
(* What a transition does to the columns the invariants read: `new` is the   *)
(* row that `code` leaves.                                                 *)
(***************************************************************************)
Delta(row, t) == IF t >= row.updatedAt THEN t - row.updatedAt ELSE 0

Effect(code, row, dto, t, new) ==
    /\ new \in Row
    /\ new.createdBy = row.createdBy
    /\ new.createdAt = row.createdAt
    /\ new.systemPriority = row.systemPriority
    /\ new.previousStatusBeforeWait =
          (IF code \in {"T03", "T07", "T10"} THEN row.status
           ELSE IF code = "CLIENT_REPLY" THEN NULL
           ELSE row.previousStatusBeforeWait)
    /\ new.assignedTo =
          (IF code = "T06" THEN dto.assignee
           ELSE IF code \in {"T09", "T12", "T19"} THEN NULL
           ELSE row.assignedTo)
    /\ new.reopenCount =
          (IF code = "T19" THEN row.reopenCount + 1 ELSE row.reopenCount)
    /\ new.effectivePriority =
          (IF code = "T02" THEN dto.level
           ELSE IF code = "T19" THEN bumpPriorityCapP1(row.effectivePriority)
           ELSE row.effectivePriority)
    /\ new.priorityOverrideReason =
          (IF code = "T02" THEN dto.level # row.systemPriority
           ELSE row.priorityOverrideReason)
    /\ new.waitingClientTotal =
          (IF code = "CLIENT_REPLY" THEN row.waitingClientTotal + Delta(row, t)
           ELSE row.waitingClientTotal)

(* What it does to the deadline of the resolution.                         *)
DeadlineEffect(code, row, t, new) ==
    /\ code = "T02" =>
          new.slaDueResolutionAt + Minute > row.createdAt + ResolutionTime(new.effectivePriority)
                                    + new.waitingClientTotal
    /\ code = "T19" =>
          new.slaDueResolutionAt + Minute > t + ResolutionTime(new.effectivePriority)
                                    + new.waitingClientTotal
    /\ code = "CLIENT_REPLY" =>
          new.slaDueResolutionAt = IF row.slaDueResolutionAt = NULL THEN NULL
                                   ELSE row.slaDueResolutionAt + Delta(row, t)
    /\ code \notin {"T02", "T19", "CLIENT_REPLY"} =>
          new.slaDueResolutionAt = row.slaDueResolutionAt

LEMMA QualifyEffect ==
    ASSUME CalendarSound, NEW row \in Row, NEW dto \in Dto, NEW t \in Nat
    PROVE  LET new == ApplyEffects("T02", row, dto, t)
           IN  /\ Effect("T02", row, dto, t, new)
               /\ DeadlineEffect("T02", row, t, new)
  <1> DEFINE level == dto.level
             overridden == level # row.systemPriority
             qualified == [row EXCEPT !.qualifiedAt = t,
                                      !.effectivePriority = level,
                                      !.priorityOverrideReason = overridden]
             dated == ComputeAndSetDeadlines(qualified, row.createdAt)
             first == dated.slaDueFirstResponseAt
             due == dated.slaDueResolutionAt
             verdict == Respected(t, first)
             new == [dated EXCEPT !.isSlaFirstResponseRespected = verdict]
  <1>1. ApplyEffects("T02", row, dto, t) = new
    BY DEF ApplyEffects, Qualify, QualifyAt
  <1>2. level \in Priority /\ row.createdAt \in Nat
    BY DEF Dto, Row
  <1>3. t \in Instant /\ overridden \in BOOLEAN /\ verdict \in Verdict
    BY RespectedType, Zenon DEF Instant
  <1> HIDE DEF level, overridden, verdict
  <1>4. qualified \in Row
    BY <1>2, <1>3, Zenon DEF Row
  <1>5. /\ qualified.effectivePriority = level
        /\ qualified.waitingClientTotal = row.waitingClientTotal
    BY Zenon DEF Row
  <1> HIDE DEF qualified
  <1>6. /\ dated \in Row
        /\ dated = [qualified EXCEPT !.slaDueFirstResponseAt = first,
                                     !.slaDueResolutionAt = due]
        /\ due + Minute > row.createdAt + ResolutionTime(qualified.effectivePriority)
                                + qualified.waitingClientTotal
    BY <1>2, <1>4, DeadlinesFrame
  <1> HIDE DEF dated, first, due
  <1>7. new \in Row
    BY <1>3, <1>6, Zenon DEF Row
  <1>8. /\ new.createdBy = row.createdBy /\ new.createdAt = row.createdAt
        /\ new.systemPriority = row.systemPriority
        /\ new.previousStatusBeforeWait = row.previousStatusBeforeWait
        /\ new.assignedTo = row.assignedTo /\ new.reopenCount = row.reopenCount
        /\ new.effectivePriority = level
        /\ new.priorityOverrideReason = overridden
        /\ new.waitingClientTotal = row.waitingClientTotal
        /\ new.slaDueResolutionAt = due
    BY <1>6, Zenon DEF Row, qualified
  <1>9. Effect("T02", row, dto, t, new)
    <2>1. new.priorityOverrideReason = (dto.level # row.systemPriority)
      BY <1>8, Zenon DEF overridden, level
    <2> HIDE DEF new
    <2> QED
      BY <1>7, <1>8, <2>1, Zenon DEF Effect, level
  <1>10. DeadlineEffect("T02", row, t, new)
    <2> HIDE DEF new
    <2> QED
      BY <1>5, <1>6, <1>8, Zenon DEF DeadlineEffect
  <1> QED
    BY <1>1, <1>9, <1>10, Zenon

LEMMA ReopenEffect ==
    ASSUME CalendarSound, NEW row \in Row, NEW dto \in Dto, NEW t \in Nat,
           row.reopenCount < MAX_REOPENS
    PROVE  LET new == ApplyEffects("T19", row, dto, t)
           IN  /\ Effect("T19", row, dto, t, new)
               /\ DeadlineEffect("T19", row, t, new)
  <1> DEFINE bumped == bumpPriorityCapP1(row.effectivePriority)
             count == row.reopenCount + 1
             reopened == [row EXCEPT !.reopenCount = count,
                                     !.lastReopenedAt = t,
                                     !.effectivePriority = bumped,
                                     !.assignedTo = NULL]
             new == ComputeAndSetDeadlines(reopened, t)
             first == new.slaDueFirstResponseAt
             due == new.slaDueResolutionAt
  <1>1. ApplyEffects("T19", row, dto, t) = new
    BY DEF ApplyEffects, Reopen
  <1>2. bumped \in Priority /\ t \in Instant /\ count \in 0..MAX_REOPENS
    <2>1. row.effectivePriority \in Priority /\ row.reopenCount \in 0..MAX_REOPENS
      BY DEF Row
    <2>2. count \in 0..MAX_REOPENS
      BY <2>1 DEF MAX_REOPENS
    <2> QED
      BY <2>1, <2>2, BumpInRange, Zenon DEF Instant
  <1> HIDE DEF bumped, count
  <1>3. reopened \in Row
    BY <1>2, Zenon DEF Row
  <1>4. /\ reopened.effectivePriority = bumped
        /\ reopened.waitingClientTotal = row.waitingClientTotal
    BY Zenon DEF Row
  <1> HIDE DEF reopened
  <1>5. /\ new \in Row
        /\ new = [reopened EXCEPT !.slaDueFirstResponseAt = first,
                                  !.slaDueResolutionAt = due]
        /\ due + Minute > t + ResolutionTime(reopened.effectivePriority)
                    + reopened.waitingClientTotal
    BY <1>3, DeadlinesFrame
  <1> HIDE DEF new, first, due
  <1>6. /\ new.createdBy = row.createdBy /\ new.createdAt = row.createdAt
        /\ new.systemPriority = row.systemPriority
        /\ new.previousStatusBeforeWait = row.previousStatusBeforeWait
        /\ new.assignedTo = NULL /\ new.reopenCount = count
        /\ new.effectivePriority = bumped
        /\ new.priorityOverrideReason = row.priorityOverrideReason
        /\ new.waitingClientTotal = row.waitingClientTotal
        /\ new.slaDueResolutionAt = due
    BY <1>5, Zenon DEF Row, reopened
  <1>7. Effect("T19", row, dto, t, new)
    <2>1. /\ new.reopenCount = row.reopenCount + 1
          /\ new.effectivePriority = bumpPriorityCapP1(row.effectivePriority)
      BY <1>6 DEF bumped, count
    <2>2. new \in Row
      BY <1>5
    <2> QED
      BY <1>6, <2>1, <2>2, SMTT(30) DEF Effect
  <1>8. DeadlineEffect("T19", row, t, new)
    BY <1>4, <1>5, <1>6, Zenon DEF DeadlineEffect
  <1> QED
    BY <1>1, <1>7, <1>8, Zenon

LEMMA ReplyEffect ==
    ASSUME NEW row \in Row, NEW dto \in Dto, NEW t \in Nat
    PROVE  LET new == ApplyEffects("CLIENT_REPLY", row, dto, t)
           IN  /\ Effect("CLIENT_REPLY", row, dto, t, new)
               /\ DeadlineEffect("CLIENT_REPLY", row, t, new)
  <1> DEFINE delta == Delta(row, t)
             total == row.waitingClientTotal + delta
             due == IF row.slaDueResolutionAt # NULL /\ delta > 0
                    THEN row.slaDueResolutionAt + delta ELSE row.slaDueResolutionAt
             new == [row EXCEPT !.waitingClientTotal = total,
                                !.slaDueResolutionAt = due,
                                !.previousStatusBeforeWait = NULL]
  <1>1. ApplyEffects("CLIENT_REPLY", row, dto, t) = new
    BY DEF ApplyEffects, AccumulateWaiting, Delta
  <1>2. delta \in Nat
    BY DEF Delta, Row
  <1> HIDE DEF delta
  <1>3. total \in Nat
    BY <1>2 DEF Row
  <1>4. /\ due \in Instant
        /\ due = IF row.slaDueResolutionAt = NULL THEN NULL
                 ELSE row.slaDueResolutionAt + delta
    BY <1>2, NullAssumption DEF Row, Instant
  <1> HIDE DEF total, due
  <1>5. new \in Row
    BY <1>3, <1>4, Zenon DEF Row
  <1>6. /\ new.createdBy = row.createdBy /\ new.createdAt = row.createdAt
        /\ new.systemPriority = row.systemPriority
        /\ new.previousStatusBeforeWait = NULL
        /\ new.assignedTo = row.assignedTo /\ new.reopenCount = row.reopenCount
        /\ new.effectivePriority = row.effectivePriority
        /\ new.priorityOverrideReason = row.priorityOverrideReason
        /\ new.waitingClientTotal = total
        /\ new.slaDueResolutionAt = due
    BY Zenon DEF Row
  <1> HIDE DEF new
  <1>7. Effect("CLIENT_REPLY", row, dto, t, new)
    BY <1>5, <1>6, Zenon DEF Effect, total, delta
  <1>8. DeadlineEffect("CLIENT_REPLY", row, t, new)
    BY <1>4, <1>6, Zenon DEF DeadlineEffect, delta
  <1> QED
    BY <1>1, <1>7, <1>8, Zenon

(* The branches that write no priority, no deadline and no waiting time.     *)
LEMMA PlainEffect ==
    ASSUME NEW row \in Row, NEW dto \in Dto, NEW t \in Nat,
           NEW code \in TransitionCode \ {"T02", "T19", "CLIENT_REPLY"},
           code \in {"T03", "T07", "T10"} => row.status \in CLIENT_REPLY_TARGETS,
           code = "T06" => dto.assignee \in Staff
    PROVE  LET new == ApplyEffects(code, row, dto, t)
           IN  Effect(code, row, dto, t, new) /\ DeadlineEffect(code, row, t, new)
  <1> DEFINE new == ApplyEffects(code, row, dto, t)
             Kept == /\ new.createdBy = row.createdBy /\ new.createdAt = row.createdAt
                     /\ new.systemPriority = row.systemPriority
                     /\ new.reopenCount = row.reopenCount
                     /\ new.effectivePriority = row.effectivePriority
                     /\ new.priorityOverrideReason = row.priorityOverrideReason
                     /\ new.waitingClientTotal = row.waitingClientTotal
                     /\ new.slaDueResolutionAt = row.slaDueResolutionAt
  <1> SUFFICES Effect(code, row, dto, t, new) /\ DeadlineEffect(code, row, t, new)
    OBVIOUS
  <1>n. code # "T02" /\ code # "T19" /\ code # "CLIENT_REPLY"
    BY DEF TransitionCode
  <1>0. t \in Instant /\ NULL \in Staff \cup {NULL}
    BY Zenon DEF Instant
  <1>1. CASE code \in {"T03", "T07", "T10"}
    <2>1. new = [row EXCEPT !.previousStatusBeforeWait = row.status]
      BY <1>1 DEF ApplyEffects, RememberStatusBeforeWait
    <2>2. row.status \in CLIENT_REPLY_TARGETS \cup {NULL}
      BY <1>1
    <2>3. new \in Row
      BY <2>1, <2>2, Zenon DEF Row
    <2>4. /\ Kept /\ new.assignedTo = row.assignedTo
          /\ new.previousStatusBeforeWait = row.status
      BY <2>1, Zenon DEF Row
    <2> HIDE DEF new
    <2>5. code # "T06" /\ code \notin {"T09", "T12", "T19"}
      BY <1>1
    <2> QED
      BY <1>1, <1>n, <2>3, <2>4, <2>5, Zenon DEF Effect, DeadlineEffect
  <1>2. CASE code = "T06"
    <2>1. new = [row EXCEPT !.assignedTo = dto.assignee]
      BY <1>2 DEF ApplyEffects, AssignResponsible
    <2>2. dto.assignee \in Staff \cup {NULL}
      BY <1>2
    <2>3. new \in Row
      BY <2>1, <2>2, Zenon DEF Row
    <2>4. /\ Kept /\ new.assignedTo = dto.assignee
          /\ new.previousStatusBeforeWait = row.previousStatusBeforeWait
      BY <2>1, Zenon DEF Row
    <2> HIDE DEF new
    <2>5. code \notin {"T03", "T07", "T10"}
      BY <1>2
    <2> QED
      BY <1>2, <1>n, <2>3, <2>4, <2>5, Zenon DEF Effect, DeadlineEffect
  <1>3. CASE code \in {"T09", "T12"}
    <2>1. new = [row EXCEPT !.assignedTo = NULL]
      BY <1>3 DEF ApplyEffects, ReleaseResponsible
    <2>3. new \in Row
      BY <1>0, <2>1, Zenon DEF Row
    <2>4. /\ Kept /\ new.assignedTo = NULL
          /\ new.previousStatusBeforeWait = row.previousStatusBeforeWait
      BY <2>1, Zenon DEF Row
    <2> HIDE DEF new
    <2>5. /\ code # "T06" /\ code \in {"T09", "T12", "T19"}
          /\ code \notin {"T03", "T07", "T10"}
      BY <1>3
    <2> QED
      BY <1>n, <2>3, <2>4, <2>5, Zenon DEF Effect, DeadlineEffect
  <1>4. CASE code \in {"T08", "T11", "T16", "T17", "T04", "T05", "T18"}
    <2>1. /\ new \in Row
          /\ Kept /\ new.assignedTo = row.assignedTo
          /\ new.previousStatusBeforeWait = row.previousStatusBeforeWait
      <3>1. CASE code = "T08"
        <4> DEFINE first == IF row.firstResponseAt = NULL THEN t ELSE row.firstResponseAt
        <4>1. new = [row EXCEPT !.firstResponseAt = first]
          BY <3>1 DEF ApplyEffects, StartProcessing
        <4>2. first \in Instant
          BY <1>0, Zenon DEF Row
        <4> HIDE DEF first
        <4> QED
          BY <4>1, <4>2, Zenon DEF Row
      <3>2. CASE code = "T11"
        <4> DEFINE verdict == Respected(t, row.slaDueResolutionAt)
        <4>1. new = [row EXCEPT !.resolvedAt = t, !.isSlaResolutionRespected = verdict]
          BY <3>2 DEF ApplyEffects, ProposeResolution
        <4>2. verdict \in Verdict
          BY RespectedType
        <4> HIDE DEF verdict
        <4> QED
          BY <1>0, <4>1, <4>2, Zenon DEF Row
      <3>3. CASE code \in {"T16", "T17"}
        <4>1. new = [row EXCEPT !.closedAt = t]
          BY <3>3 DEF ApplyEffects, Close
        <4> QED
          BY <1>0, <4>1, Zenon DEF Row
      <3>4. CASE code \in {"T04", "T05", "T18"}
        <4>1. new = row
          BY <3>4 DEF ApplyEffects
        <4> QED
          BY <4>1
      <3> QED
        BY <1>4, <3>1, <3>2, <3>3, <3>4
    <2> HIDE DEF new
    <2>2. /\ code # "T06" /\ code \notin {"T09", "T12", "T19"}
          /\ code \notin {"T03", "T07", "T10"}
      BY <1>4
    <2> QED
      BY <1>n, <2>1, <2>2, Zenon DEF Effect, DeadlineEffect
  <1> QED
    BY <1>1, <1>2, <1>3, <1>4 DEF TransitionCode

(* An accepted transition has its effect and leaves the row in its target.  *)
LEMMA TransitionEffect ==
    ASSUME CalendarSound, NEW row \in Row, NEW code \in TransitionCode,
           NEW dto \in Dto, NEW t \in Nat,
           NEW viewer, NEW expected, NEW active, NEW bug,
           Accepts(viewer, code, row, expected, dto, active, bug, t)
    PROVE  LET new == Transitioned(code, row, dto, t)
           IN  /\ Effect(code, row, dto, t, new)
               /\ DeadlineEffect(code, row, t, new)
               /\ new.status = Target(code, row)
               /\ new.status \in RequestStatus
  <1> DEFINE applied == ApplyEffects(code, row, dto, t)
             target == Target(code, row)
             new == [applied EXCEPT !.status = target]
  <1>1. /\ row.status \in TRANSITIONS[code].from
        /\ target # NULL
        /\ EffectsAllowed(code, row, dto, active, bug, t)
    BY DEF Accepts
  <1>2. target \in RequestStatus
    BY <1>1, TargetIs
  <1>3. /\ Effect(code, row, dto, t, applied)
        /\ DeadlineEffect(code, row, t, applied)
    <2>1. CASE code = "T02"
      BY <2>1, QualifyEffect
    <2>2. CASE code = "T19"
      <3>1. row.reopenCount < MAX_REOPENS
        BY <1>1, <2>2 DEF EffectsAllowed, CanOverride, CanReopen
      <3> QED
        BY <2>2, <3>1, ReopenEffect
    <2>3. CASE code = "CLIENT_REPLY"
      BY <2>3, ReplyEffect
    <2>4. CASE code \notin {"T02", "T19", "CLIENT_REPLY"}
      <3>1. code \in {"T03", "T07", "T10"} => row.status \in CLIENT_REPLY_TARGETS
        BY <1>1, Table DEF CLIENT_REPLY_TARGETS
      <3>2. code = "T06" => dto.assignee \in Staff
        BY <1>1 DEF EffectsAllowed, CanOverride, CanReopen
      <3> HIDE DEF applied
      <3> QED
        BY <2>4, <3>1, <3>2, PlainEffect DEF applied
    <2> QED
      BY <2>1, <2>2, <2>3, <2>4
  <1>4. Transitioned(code, row, dto, t) = new
    BY DEF Transitioned
  <1>5. applied \in Row
    BY <1>3 DEF Effect
  <1> HIDE DEF applied, target
  <1>6. /\ new \in Row /\ new.status = target
        /\ new.createdBy = applied.createdBy /\ new.createdAt = applied.createdAt
        /\ new.systemPriority = applied.systemPriority
        /\ new.previousStatusBeforeWait = applied.previousStatusBeforeWait
        /\ new.assignedTo = applied.assignedTo
        /\ new.reopenCount = applied.reopenCount
        /\ new.effectivePriority = applied.effectivePriority
        /\ new.priorityOverrideReason = applied.priorityOverrideReason
        /\ new.waitingClientTotal = applied.waitingClientTotal
        /\ new.slaDueResolutionAt = applied.slaDueResolutionAt
    BY <1>2, <1>5, Zenon DEF Row
  <1> HIDE DEF new
  <1>7. Effect(code, row, dto, t, new)
    BY <1>3, <1>6, Zenon DEF Effect
  <1>8. DeadlineEffect(code, row, t, new)
    BY <1>3, <1>6, Zenon DEF DeadlineEffect
  <1> QED
    BY <1>2, <1>4, <1>6, <1>7, <1>8, Zenon DEF target

-----------------------------------------------------------------------------
(***************************************************************************)
(* An accepted transition keeps a row consistent: the marker of the wait,    *)
(* the responsible and the priority override, whatever the row's history.   *)
(***************************************************************************)
RowFits(row) == MarkerFits(row) /\ HolderFits(row) /\ OverrideFits(row)

THEOREM TransitionKeepsRowConsistent ==
    ASSUME CalendarSound, NEW row \in Row, NEW code \in TransitionCode,
           NEW dto \in Dto, NEW t \in Nat,
           NEW viewer, NEW expected, NEW active, NEW bug,
           Accepts(viewer, code, row, expected, dto, active, bug, t),
           RowFits(row)
    PROVE  RowFits(Transitioned(code, row, dto, t))
  <1> DEFINE new == Transitioned(code, row, dto, t)
  <1>1. /\ Effect(code, row, dto, t, new)
        /\ new.status = Target(code, row) /\ new.status \in RequestStatus
    BY TransitionEffect
  <1>2. /\ row.status \in TRANSITIONS[code].from
        /\ Target(code, row) # NULL
        /\ EffectsAllowed(code, row, dto, active, bug, t)
    BY DEF Accepts
  <1>3. /\ NULL \notin RequestStatus /\ NULL \notin Staff
        /\ row.previousStatusBeforeWait \in CLIENT_REPLY_TARGETS \cup {NULL}
        /\ row.status \in RequestStatus
    BY NullAssumption, UsersAssumption DEF Users, Row
  <1> HIDE DEF new
  <1>4. MarkerFits(new)
    <2>1. CASE code \in {"T03", "T07", "T10"}
      BY <1>1, <1>2, <1>3, <2>1, Table, TargetIs DEF Effect, MarkerFits, RowFits
    <2>2. CASE code = "CLIENT_REPLY"
      BY <1>1, <1>2, <1>3, <2>2, TargetIs
         DEF Effect, MarkerFits, CLIENT_REPLY_TARGETS
    <2>3. CASE code \notin {"T03", "T07", "T10", "CLIENT_REPLY"}
      <3>1. row.status # "EN_ATTENTE_CLIENT" /\ new.status # "EN_ATTENTE_CLIENT"
        BY <1>1, <1>2, <2>3, Table, TargetIs DEF TransitionCode
      <3> QED
        BY <1>1, <2>3, <3>1 DEF Effect, MarkerFits, RowFits
    <2> QED
      BY <2>1, <2>2, <2>3
  <1>5. HolderFits(new)
    <2>1. CASE code \in {"T03", "T07", "T10"}
      <3>1. /\ StatusUnderWait(new) = row.status /\ StatusUnderWait(row) = row.status
            /\ new.assignedTo = row.assignedTo
        BY <1>1, <1>2, <2>1, Table, TargetIs DEF Effect, StatusUnderWait
      <3> QED
        BY <3>1 DEF HolderFits, RowFits
    <2>2. CASE code = "CLIENT_REPLY"
      <3>1. /\ StatusUnderWait(new) = StatusUnderWait(row)
            /\ new.assignedTo = row.assignedTo
        BY <1>1, <1>2, <2>2, Table, TargetIs
           DEF Effect, StatusUnderWait, CLIENT_REPLY_TARGETS
      <3> QED
        BY <3>1 DEF HolderFits, RowFits
    <2>3. CASE code \notin {"T03", "T07", "T10", "CLIENT_REPLY"}
      <3>1. /\ StatusUnderWait(new) = TRANSITIONS[code].to
            /\ StatusUnderWait(row) = row.status
        BY <1>1, <1>2, <2>3, Table, TargetIs DEF StatusUnderWait, TransitionCode
      <3>2. CASE code \in {"T02", "T04", "T05", "T08", "T11", "T16", "T17", "T18"}
        <4>1. new.assignedTo = row.assignedTo
          BY <1>1, <3>2 DEF Effect
        <4> QED
          BY <1>2, <3>1, <3>2, <4>1, Table DEF HolderFits, RowFits
      <3>3. CASE code = "T06"
        <4>1. new.assignedTo \in Staff
          BY <1>1, <1>2, <3>3 DEF Effect, EffectsAllowed, CanOverride
        <4> QED
          BY <1>3, <3>1, <3>3, <4>1, Table DEF HolderFits
      <3>4. CASE code \in {"T09", "T12", "T19"}
        <4>1. new.assignedTo = NULL
          BY <1>1, <3>4 DEF Effect
        <4> QED
          BY <3>1, <3>4, <4>1, Table DEF HolderFits
      <3> QED
        BY <2>3, <3>2, <3>3, <3>4 DEF TransitionCode
    <2> QED
      BY <2>1, <2>2, <2>3
  <1>6. OverrideFits(new)
    <2>1. CASE code = "T02"
      <3>1. /\ new.systemPriority = row.systemPriority
            /\ new.effectivePriority = dto.level
            /\ new.priorityOverrideReason = (dto.level # row.systemPriority)
        BY <1>1, <2>1, Zenon DEF Effect
      <3>2. isWithinOneLevel(row.systemPriority, dto.level)
        <4>1. dto.level # row.systemPriority =>
                  isWithinOneLevel(row.systemPriority, dto.level)
          BY <1>2, <2>1 DEF EffectsAllowed, CanOverride, CanReopen
        <4>2. row.systemPriority \in Priority
          BY DEF Row
        <4> QED
          BY <4>1, <4>2 DEF isWithinOneLevel, Priority
      <3> QED
        BY <3>1, <3>2, Zenon DEF OverrideFits
    <2>2. CASE code \in {"T04", "T05", "T09", "T12", "T19"}
      <3>1. StatusUnderWait(new) \in {"NOUVELLE", "ANNULEE"}
        BY <1>1, <1>2, <2>2, Table, TargetIs DEF StatusUnderWait
      <3> QED
        BY <3>1, Zenon DEF OverrideFits
    <2>3. CASE code \notin {"T02", "T04", "T05", "T09", "T12", "T19"}
      <3>1. StatusUnderWait(new) \notin {"NOUVELLE", "ANNULEE"} =>
                StatusUnderWait(row) \notin {"NOUVELLE", "ANNULEE"}
        BY <1>1, <1>2, <2>3, Table, TargetIs
           DEF Effect, StatusUnderWait, TransitionCode, CLIENT_REPLY_TARGETS
      <3>2. /\ new.systemPriority = row.systemPriority
            /\ new.effectivePriority = row.effectivePriority
            /\ new.priorityOverrideReason = row.priorityOverrideReason
        <4>1. code # "T02" /\ code # "T19"
          BY <2>3
        <4> QED
          BY <1>1, <4>1, Zenon DEF Effect
      <3> QED
        BY <3>1, <3>2, Zenon DEF OverrideFits, RowFits
    <2> QED
      BY <2>1, <2>2, <2>3
  <1> QED
    BY <1>4, <1>5, <1>6 DEF RowFits, new

-----------------------------------------------------------------------------
(* Rows as RequestsService.create leaves them.                              *)
LEMMA NewRowFits ==
    ASSUME NEW client \in Clients, NEW p \in Priority, NEW t \in Nat
    PROVE  /\ NewRow(client, p, t) \in Row
           /\ RowFits(NewRow(client, p, t))
  <1> DEFINE new == NewRow(client, p, t)
  <1>1. /\ "NOUVELLE" \in RequestStatus /\ NULL \in CLIENT_REPLY_TARGETS \cup {NULL}
        /\ NULL \in Staff \cup {NULL} /\ NULL \in Instant
        /\ FALSE \in BOOLEAN /\ "unknown" \in Verdict
    BY Zenon DEF RequestStatus, Instant, Verdict
  <1>2. 0 \in 0..MAX_REOPENS /\ 0 \in Nat
    BY DEF MAX_REOPENS
  <1>3. new \in Row
    BY <1>1, <1>2, Zenon DEF NewRow, Row
  <1>4. /\ new.status = "NOUVELLE" /\ new.previousStatusBeforeWait = NULL
        /\ new.assignedTo = NULL
    BY DEF NewRow
  <1> HIDE DEF new
  <1>5. RowFits(new)
    BY <1>4 DEF RowFits, MarkerFits, HolderFits, OverrideFits, StatusUnderWait
  <1> QED
    BY <1>3, <1>5 DEF new

LEMMA AutoAssignedFits ==
    ASSUME CalendarSound, NEW client \in Clients, NEW p \in Priority, NEW t \in Nat,
           NEW assignee \in Staff
    PROVE  LET new == AutoAssigned(NewRow(client, p, t), assignee, t)
           IN  /\ new \in Row /\ RowFits(new)
               /\ new.status = "AFFECTEE" /\ new.assignedTo = assignee
               /\ new.previousStatusBeforeWait = NULL
               /\ new.reopenCount = 0 /\ new.waitingClientTotal = 0
               /\ new.createdAt = t /\ new.effectivePriority = p
               /\ new.slaDueResolutionAt + Minute > t + ResolutionTime(p)
  <1> DEFINE fresh == NewRow(client, p, t)
             dto == [note |-> "none", level |-> p, assignee |-> NULL]
             qualified == ApplyEffects("T02", fresh, dto, t)
             new == [qualified EXCEPT !.assignedTo = assignee, !.status = "AFFECTEE"]
  <1>1. AutoAssigned(fresh, assignee, t) = new
    BY DEF AutoAssigned, ApplyEffects, NewRow
  <1>2. fresh \in Row
    BY NewRowFits
  <1>3. /\ fresh.systemPriority = p /\ fresh.createdAt = t
        /\ fresh.previousStatusBeforeWait = NULL /\ fresh.reopenCount = 0
        /\ fresh.waitingClientTotal = 0
    BY DEF NewRow
  <1>4. dto \in Dto /\ dto.level = p
    BY Zenon DEF Dto, NoteKind
  <1> HIDE DEF fresh, dto
  <1>5. Effect("T02", fresh, dto, t, qualified) /\ DeadlineEffect("T02", fresh, t, qualified)
    BY <1>2, <1>4, QualifyEffect
  <1> HIDE DEF qualified
  <1>6. /\ qualified \in Row
        /\ qualified.systemPriority = p /\ qualified.effectivePriority = p
        /\ qualified.priorityOverrideReason = (p # p)
        /\ qualified.previousStatusBeforeWait = NULL
        /\ qualified.reopenCount = 0 /\ qualified.waitingClientTotal = 0
        /\ qualified.createdAt = t
    BY <1>3, <1>4, <1>5, Zenon DEF Effect
  <1>7. qualified.slaDueResolutionAt + Minute > t + ResolutionTime(p)
    <2>1. qualified.slaDueResolutionAt + Minute > t + ResolutionTime(p) + 0
      BY <1>3, <1>5, <1>6, Zenon DEF DeadlineEffect
    <2>2. ResolutionTime(p) \in Nat
      BY SlaAssumption, MinutesType DEF ResolutionTime
    <2> QED
      BY <2>1, <2>2
  <1>8. assignee \in Staff \cup {NULL} /\ "AFFECTEE" \in RequestStatus
    BY Zenon DEF RequestStatus
  <1>9. new \in Row
    BY <1>6, <1>8, Zenon DEF Row
  <1>10. /\ new.status = "AFFECTEE" /\ new.assignedTo = assignee
         /\ new.systemPriority = p /\ new.effectivePriority = p
         /\ new.priorityOverrideReason = (p # p)
         /\ new.previousStatusBeforeWait = NULL
         /\ new.reopenCount = 0 /\ new.waitingClientTotal = 0
         /\ new.createdAt = t
         /\ new.slaDueResolutionAt = qualified.slaDueResolutionAt
    BY <1>6, Zenon DEF Row
  <1> HIDE DEF new
  <1>11. RowFits(new)
    <2>1. StatusUnderWait(new) = "AFFECTEE"
      BY <1>10 DEF StatusUnderWait
    <2>2. isWithinOneLevel(p, p)
      BY DEF isWithinOneLevel, Priority
    <2>3. assignee # NULL
      BY UsersAssumption DEF Users
    <2>4. OverrideFits(new)
      BY <1>10, <2>2, Zenon DEF OverrideFits
    <2> QED
      BY <1>10, <2>1, <2>3, <2>4 DEF RowFits, MarkerFits, HolderFits
  <1> QED
    BY <1>1, <1>7, <1>9, <1>10, <1>11, Zenon DEF fresh

(* The stamp is the one of the insert: creation is one transaction.         *)
LEMMA AutoAssignedUpdatedAt ==
    ASSUME CalendarSound, NEW client \in Clients, NEW p \in Priority, NEW t \in Nat,
           NEW assignee \in Staff
    PROVE  AutoAssigned(NewRow(client, p, t), assignee, t).updatedAt = t
  <1> DEFINE fresh == NewRow(client, p, t)
             qualified == Qualify(fresh, fresh.systemPriority, t)
  <1>1. fresh \in Row /\ fresh.updatedAt = t
    BY NewRowFits DEF NewRow
  <1>2. qualified.updatedAt = fresh.updatedAt
    <2> HIDE DEF fresh
    <2> QED
      BY <1>1, Zenon DEF Qualify, QualifyAt, ComputeAndSetDeadlines, Row
  <1>3. AutoAssigned(fresh, assignee, t).updatedAt = qualified.updatedAt
    <2> HIDE DEF fresh
    <2> QED
      BY <1>1, Zenon DEF AutoAssigned, Qualify, QualifyAt, ComputeAndSetDeadlines, Row
  <1> QED
    BY <1>1, <1>2, <1>3

-----------------------------------------------------------------------------
(* The row in the table once the update has stamped updated_at.             *)
LEMMA SavedRow ==
    ASSUME CalendarSound, NEW row \in Row, NEW code \in TransitionCode,
           NEW dto \in Dto, NEW t \in Nat,
           NEW viewer, NEW expected, NEW active, NEW bug,
           Accepts(viewer, code, row, expected, dto, active, bug, t)
    PROVE  LET saved == [Transitioned(code, row, dto, t) EXCEPT !.updatedAt = t]
           IN  /\ Effect(code, row, dto, t, saved)
               /\ DeadlineEffect(code, row, t, saved)
               /\ saved.status = Target(code, row)
               /\ saved.updatedAt = t
               /\ RowFits(row) => RowFits(saved)
  <1> DEFINE new == Transitioned(code, row, dto, t)
             saved == [new EXCEPT !.updatedAt = t]
  <1> SUFFICES /\ Effect(code, row, dto, t, saved)
               /\ DeadlineEffect(code, row, t, saved)
               /\ saved.status = Target(code, row)
               /\ saved.updatedAt = t
               /\ RowFits(row) => RowFits(saved)
    OBVIOUS
  <1>1. /\ Effect(code, row, dto, t, new) /\ DeadlineEffect(code, row, t, new)
        /\ new.status = Target(code, row)
    BY TransitionEffect
  <1>2. RowFits(row) => RowFits(new)
    BY TransitionKeepsRowConsistent
  <1> HIDE DEF new
  <1>3. new \in Row
    BY <1>1 DEF Effect
  <1>4. /\ saved \in Row /\ saved.status = new.status /\ saved.updatedAt = t
        /\ saved.createdBy = new.createdBy /\ saved.createdAt = new.createdAt
        /\ saved.systemPriority = new.systemPriority
        /\ saved.previousStatusBeforeWait = new.previousStatusBeforeWait
        /\ saved.assignedTo = new.assignedTo
        /\ saved.reopenCount = new.reopenCount
        /\ saved.effectivePriority = new.effectivePriority
        /\ saved.priorityOverrideReason = new.priorityOverrideReason
        /\ saved.waitingClientTotal = new.waitingClientTotal
        /\ saved.slaDueResolutionAt = new.slaDueResolutionAt
    BY <1>3, Zenon DEF Row
  <1> HIDE DEF saved
  <1>5. Effect(code, row, dto, t, saved)
    BY <1>1, <1>4, Zenon DEF Effect
  <1>6. DeadlineEffect(code, row, t, saved)
    BY <1>1, <1>4, Zenon DEF DeadlineEffect
  <1>7. RowFits(new) => RowFits(saved)
    BY <1>4, Zenon DEF RowFits, MarkerFits, HolderFits, OverrideFits, StatusUnderWait
  <1> QED
    BY <1>1, <1>2, <1>4, <1>5, <1>6, <1>7, Zenon

(* The entry an accepted transition adds to the journal.                    *)
LEMMA EntryOf ==
    ASSUME NEW row \in Row, NEW code \in TransitionCode,
           Target(code, row) # NULL
    PROVE  /\ JournalEntry(code, row) \in [code : JournalCode, from : RequestStatus,
                                          to : RequestStatus]
           /\ JournalEntry(code, row).from = row.status
           /\ JournalEntry(code, row).to = Target(code, row)
  <1>1. row.status \in RequestStatus /\ Target(code, row) \in RequestStatus
    BY TargetIs DEF Row
  <1>2. (IF code = "CLIENT_REPLY" THEN ReplyCode(Target(code, row)) ELSE code)
            \in JournalCode
    <2>1. CASE code = "CLIENT_REPLY"
      <3>1. Target(code, row) \in CLIENT_REPLY_TARGETS
        BY <2>1, TargetIs
      <3> QED
        BY <2>1, <3>1 DEF CLIENT_REPLY_TARGETS, ReplyCode, JournalCode
    <2>2. CASE code # "CLIENT_REPLY"
      BY <2>2 DEF JournalCode
    <2> QED
      BY <2>1, <2>2
  <1> QED
    BY <1>1, <1>2, Zenon DEF JournalEntry

-----------------------------------------------------------------------------
(***************************************************************************)
(* The milestones a transition stamps, and what it does to the verdict of    *)
(* the resolution.  In calendar time the deadline T02 computes is exact.     *)
(***************************************************************************)
Stamps(code, row, t, new) ==
    /\ new.qualifiedAt = (IF code = "T02" THEN t ELSE row.qualifiedAt)
    /\ new.firstResponseAt =
          (IF code = "T08" /\ row.firstResponseAt = NULL THEN t ELSE row.firstResponseAt)
    /\ new.resolvedAt = (IF code = "T11" THEN t ELSE row.resolvedAt)
    /\ new.closedAt = (IF code \in {"T16", "T17"} THEN t ELSE row.closedAt)
    /\ new.lastReopenedAt = (IF code = "T19" THEN t ELSE row.lastReopenedAt)
    /\ new.isSlaResolutionRespected =
          (IF code = "T11" THEN Respected(t, row.slaDueResolutionAt)
           ELSE row.isSlaResolutionRespected)

CalendarDue(row) ==
    row.effectivePriority \in Is24x7 =>
        row.slaDueResolutionAt = row.createdAt + ResolutionTime(row.effectivePriority)
                                    + row.waitingClientTotal

(* The columns a computation of the deadlines leaves alone.                 *)
LEMMA DeadlinesKeep ==
    ASSUME NEW row \in Row, NEW from
    PROVE  LET dated == ComputeAndSetDeadlines(row, from)
           IN  /\ DOMAIN dated = DOMAIN row
               /\ dated.createdAt = row.createdAt
               /\ dated.effectivePriority = row.effectivePriority
               /\ dated.waitingClientTotal = row.waitingClientTotal
               /\ dated.qualifiedAt = row.qualifiedAt
               /\ dated.firstResponseAt = row.firstResponseAt
               /\ dated.resolvedAt = row.resolvedAt
               /\ dated.closedAt = row.closedAt
               /\ dated.lastReopenedAt = row.lastReopenedAt
               /\ dated.isSlaResolutionRespected = row.isSlaResolutionRespected
               /\ dated.slaDueResolutionAt =
                     ShiftResolutionForWaiting(row.effectivePriority,
                         Advance(row.effectivePriority, from,
                                 SlaResolution[row.effectivePriority]),
                         row.waitingClientTotal)
  BY Zenon DEF ComputeAndSetDeadlines, Row

LEMMA QualifyStamps ==
    ASSUME NEW row \in Row, NEW dto \in Dto, NEW t \in Nat
    PROVE  LET new == ApplyEffects("T02", row, dto, t)
           IN  /\ Stamps("T02", row, t, new)
               /\ CalendarDue(new)
  <1> DEFINE level == dto.level
             overridden == level # row.systemPriority
             qualified == [row EXCEPT !.qualifiedAt = t,
                                      !.effectivePriority = level,
                                      !.priorityOverrideReason = overridden]
             dated == ComputeAndSetDeadlines(qualified, row.createdAt)
             verdict == Respected(t, dated.slaDueFirstResponseAt)
             new == [dated EXCEPT !.isSlaFirstResponseRespected = verdict]
  <1>1. ApplyEffects("T02", row, dto, t) = new
    BY DEF ApplyEffects, Qualify, QualifyAt
  <1>2. level \in Priority /\ row.createdAt \in Nat /\ row.waitingClientTotal \in Nat
    BY DEF Dto, Row
  <1>3. t \in Instant /\ overridden \in BOOLEAN
    BY Zenon DEF Instant
  <1> HIDE DEF level, overridden, verdict
  <1>4. qualified \in Row
    BY <1>2, <1>3, Zenon DEF Row
  <1>5. /\ qualified.effectivePriority = level /\ qualified.createdAt = row.createdAt
        /\ qualified.waitingClientTotal = row.waitingClientTotal
        /\ qualified.qualifiedAt = t
        /\ qualified.firstResponseAt = row.firstResponseAt
        /\ qualified.resolvedAt = row.resolvedAt /\ qualified.closedAt = row.closedAt
        /\ qualified.lastReopenedAt = row.lastReopenedAt
        /\ qualified.isSlaResolutionRespected = row.isSlaResolutionRespected
    BY Zenon DEF Row
  <1>6. DOMAIN qualified = {"createdBy", "status", "previousStatusBeforeWait",
           "systemPriority", "effectivePriority", "priorityOverrideReason", "assignedTo",
           "reopenCount", "createdAt", "qualifiedAt", "firstResponseAt", "resolvedAt",
           "closedAt", "lastReopenedAt", "waitingClientTotal", "slaDueFirstResponseAt",
           "slaDueResolutionAt", "isSlaFirstResponseRespected",
           "isSlaResolutionRespected", "updatedAt"}
    BY Zenon DEF Row
  <1> HIDE DEF qualified
  <1> DEFINE due == Advance(level, row.createdAt, SlaResolution[level])
             shifted == ShiftResolutionForWaiting(level, due, row.waitingClientTotal)
  <1>7. /\ DOMAIN dated = DOMAIN qualified
        /\ dated.createdAt = row.createdAt /\ dated.effectivePriority = level
        /\ dated.waitingClientTotal = row.waitingClientTotal
        /\ dated.qualifiedAt = t /\ dated.firstResponseAt = row.firstResponseAt
        /\ dated.resolvedAt = row.resolvedAt /\ dated.closedAt = row.closedAt
        /\ dated.lastReopenedAt = row.lastReopenedAt
        /\ dated.isSlaResolutionRespected = row.isSlaResolutionRespected
        /\ dated.slaDueResolutionAt = shifted
    <2> HIDE DEF dated, shifted
    <2>1. dated.slaDueResolutionAt = shifted
      BY <1>4, <1>5, DeadlinesKeep, Zenon DEF dated, shifted
    <2> QED
      BY <1>4, <1>5, <2>1, DeadlinesKeep, Zenon DEF dated
  <1> HIDE DEF dated
  <1>8. /\ new.createdAt = row.createdAt /\ new.effectivePriority = level
        /\ new.waitingClientTotal = row.waitingClientTotal
        /\ new.qualifiedAt = t /\ new.firstResponseAt = row.firstResponseAt
        /\ new.resolvedAt = row.resolvedAt /\ new.closedAt = row.closedAt
        /\ new.lastReopenedAt = row.lastReopenedAt
        /\ new.isSlaResolutionRespected = row.isSlaResolutionRespected
        /\ new.slaDueResolutionAt = shifted
    <2> HIDE DEF shifted
    <2> QED BY <1>6, <1>7, Zenon
  <1> HIDE DEF new
  <1>9. Stamps("T02", row, t, new)
    BY <1>8, Zenon DEF Stamps
  <1>10. ASSUME level \in Is24x7
         PROVE  shifted = row.createdAt + ResolutionTime(level) + row.waitingClientTotal
    <2>1. due = row.createdAt + ResolutionTime(level)
      BY <1>10 DEF Advance, ResolutionTime
    <2>2. ResolutionTime(level) \in Nat
      BY <1>2, SlaAssumption, MinutesType DEF ResolutionTime
    <2> HIDE DEF due
    <2> QED
      BY <1>2, <1>10, <2>1, <2>2 DEF ShiftResolutionForWaiting
  <1>11. CalendarDue(new)
    BY <1>8, <1>10, Zenon DEF CalendarDue
  <1> QED
    BY <1>1, <1>9, <1>11, Zenon

LEMMA ReopenStamps ==
    ASSUME NEW row \in Row, NEW dto \in Dto, NEW t \in Nat,
           row.reopenCount < MAX_REOPENS
    PROVE  Stamps("T19", row, t, ApplyEffects("T19", row, dto, t))
  <1> DEFINE bumped == bumpPriorityCapP1(row.effectivePriority)
             count == row.reopenCount + 1
             reopened == [row EXCEPT !.reopenCount = count,
                                     !.lastReopenedAt = t,
                                     !.effectivePriority = bumped,
                                     !.assignedTo = NULL]
             new == ComputeAndSetDeadlines(reopened, t)
  <1>1. ApplyEffects("T19", row, dto, t) = new
    BY DEF ApplyEffects, Reopen
  <1>2. bumped \in Priority /\ t \in Instant /\ count \in 0..MAX_REOPENS
    <2>1. row.effectivePriority \in Priority /\ row.reopenCount \in 0..MAX_REOPENS
      BY DEF Row
    <2>2. count \in 0..MAX_REOPENS
      BY <2>1 DEF MAX_REOPENS
    <2> QED
      BY <2>1, <2>2, BumpInRange, Zenon DEF Instant
  <1> HIDE DEF bumped, count
  <1>3. reopened \in Row
    BY <1>2, Zenon DEF Row
  <1>4. /\ reopened.qualifiedAt = row.qualifiedAt
        /\ reopened.firstResponseAt = row.firstResponseAt
        /\ reopened.resolvedAt = row.resolvedAt /\ reopened.closedAt = row.closedAt
        /\ reopened.lastReopenedAt = t
        /\ reopened.isSlaResolutionRespected = row.isSlaResolutionRespected
    BY Zenon DEF Row
  <1> HIDE DEF reopened
  <1>5. /\ new.qualifiedAt = row.qualifiedAt
        /\ new.firstResponseAt = row.firstResponseAt
        /\ new.resolvedAt = row.resolvedAt /\ new.closedAt = row.closedAt
        /\ new.lastReopenedAt = t
        /\ new.isSlaResolutionRespected = row.isSlaResolutionRespected
    <2> HIDE DEF new
    <2> QED
      BY <1>3, <1>4, DeadlinesKeep, Zenon DEF new
  <1> HIDE DEF new
  <1> QED
    BY <1>1, <1>5, Zenon DEF Stamps

LEMMA OtherStamps ==
    ASSUME NEW row \in Row, NEW dto, NEW t \in Nat,
           NEW code \in TransitionCode \ {"T02", "T19"}
    PROVE  Stamps(code, row, t, ApplyEffects(code, row, dto, t))
  <1> DEFINE new == ApplyEffects(code, row, dto, t)
             Kept == /\ new.qualifiedAt = row.qualifiedAt
                     /\ new.lastReopenedAt = row.lastReopenedAt
             Answered == new.firstResponseAt = row.firstResponseAt
             Resolved == /\ new.resolvedAt = row.resolvedAt
                         /\ new.isSlaResolutionRespected = row.isSlaResolutionRespected
             Closed == new.closedAt = row.closedAt
  <1> SUFFICES Stamps(code, row, t, new)
    OBVIOUS
  <1>0. code # "T02" /\ code # "T19"
    OBVIOUS
  <1>1. CASE code = "T08"
    <2> DEFINE first == IF row.firstResponseAt = NULL THEN t ELSE row.firstResponseAt
    <2>1. new = [row EXCEPT !.firstResponseAt = first]
      BY <1>1 DEF ApplyEffects, StartProcessing
    <2> HIDE DEF first
    <2>2. Kept /\ Resolved /\ Closed /\ new.firstResponseAt = first
      BY <2>1, Zenon DEF Row
    <2> HIDE DEF new
    <2> QED
      BY <1>1, <2>2 DEF Stamps, first
  <1>2. CASE code = "T11"
    <2> DEFINE verdict == Respected(t, row.slaDueResolutionAt)
    <2>1. new = [row EXCEPT !.resolvedAt = t, !.isSlaResolutionRespected = verdict]
      BY <1>2 DEF ApplyEffects, ProposeResolution
    <2> HIDE DEF verdict
    <2>2. /\ Kept /\ Answered /\ Closed
          /\ new.resolvedAt = t /\ new.isSlaResolutionRespected = verdict
      BY <2>1, Zenon DEF Row
    <2> HIDE DEF new
    <2> QED
      BY <1>2, <2>2 DEF Stamps, verdict
  <1>3. CASE code \in {"T16", "T17"}
    <2>1. new = [row EXCEPT !.closedAt = t]
      BY <1>3 DEF ApplyEffects, Close
    <2>2. Kept /\ Answered /\ Resolved /\ new.closedAt = t
      BY <2>1, Zenon DEF Row
    <2> HIDE DEF new
    <2> QED
      BY <1>3, <2>2 DEF Stamps
  <1>4. CASE code \notin {"T08", "T11", "T16", "T17"}
    <2>1. Kept /\ Answered /\ Resolved /\ Closed
      <3>1. CASE code \in {"T03", "T07", "T10"}
        <4>1. new = [row EXCEPT !.previousStatusBeforeWait = row.status]
          BY <3>1 DEF ApplyEffects, RememberStatusBeforeWait
        <4> QED
          BY <4>1, Zenon DEF Row
      <3>2. CASE code = "T06"
        <4>1. new = [row EXCEPT !.assignedTo = dto.assignee]
          BY <3>2 DEF ApplyEffects, AssignResponsible
        <4> QED
          BY <4>1, Zenon DEF Row
      <3>3. CASE code \in {"T09", "T12"}
        <4>1. new = [row EXCEPT !.assignedTo = NULL]
          BY <3>3 DEF ApplyEffects, ReleaseResponsible
        <4> QED
          BY <4>1, Zenon DEF Row
      <3>4. CASE code = "CLIENT_REPLY"
        <4> DEFINE delta == Delta(row, t)
                   total == row.waitingClientTotal + delta
                   due == IF row.slaDueResolutionAt # NULL /\ delta > 0
                          THEN row.slaDueResolutionAt + delta
                          ELSE row.slaDueResolutionAt
        <4>1. new = [row EXCEPT !.waitingClientTotal = total,
                                !.slaDueResolutionAt = due,
                                !.previousStatusBeforeWait = NULL]
          BY <3>4 DEF ApplyEffects, AccumulateWaiting, Delta
        <4> HIDE DEF delta, total, due
        <4> QED
          BY <4>1, Zenon DEF Row
      <3>5. CASE code \in {"T04", "T05", "T18"}
        <4>1. new = row
          BY <3>5 DEF ApplyEffects
        <4> QED
          BY <4>1
      <3> QED
        BY <1>4, <3>1, <3>2, <3>3, <3>4, <3>5 DEF TransitionCode
    <2>2. code # "T08" /\ code # "T11" /\ code \notin {"T16", "T17"}
      BY <1>4
    <2> HIDE DEF new
    <2> QED
      BY <1>0, <2>1, <2>2, Zenon DEF Stamps
  <1> QED
    BY <1>1, <1>2, <1>3, <1>4

(* The row in the table after an accepted transition.                       *)
LEMMA SavedStamps ==
    ASSUME CalendarSound, NEW row \in Row, NEW code \in TransitionCode,
           NEW dto \in Dto, NEW t \in Nat,
           NEW viewer, NEW expected, NEW active, NEW bug,
           Accepts(viewer, code, row, expected, dto, active, bug, t)
    PROVE  LET saved == [Transitioned(code, row, dto, t) EXCEPT !.updatedAt = t]
           IN  /\ Stamps(code, row, t, saved)
               /\ code = "T02" => CalendarDue(saved)
  <1> DEFINE applied == ApplyEffects(code, row, dto, t)
             target == Target(code, row)
             moved == [applied EXCEPT !.status = target]
             saved == [moved EXCEPT !.updatedAt = t]
  <1>1. saved = [Transitioned(code, row, dto, t) EXCEPT !.updatedAt = t]
    BY DEF Transitioned
  <1>2. /\ Stamps(code, row, t, applied)
        /\ code = "T02" => CalendarDue(applied)
    <2>1. CASE code = "T02"
      BY <2>1, QualifyStamps
    <2>2. CASE code = "T19"
      <3>1. row.reopenCount < MAX_REOPENS
        BY <2>2 DEF Accepts, EffectsAllowed, CanOverride, CanReopen
      <3> QED
        BY <2>2, <3>1, ReopenStamps
    <2>3. CASE code \notin {"T02", "T19"}
      <3> HIDE DEF applied
      <3>1. Stamps(code, row, t, applied)
        BY <2>3, OtherStamps DEF applied
      <3> QED
        BY <2>3, <3>1
    <2> QED
      BY <2>1, <2>2, <2>3
  <1>3. moved \in Row /\ target \in RequestStatus
    BY TransitionEffect DEF Effect, Transitioned
  <1>4. applied \in Row
    <2>1. CASE code = "T02"
      BY <2>1, QualifyEffect DEF Effect
    <2>2. CASE code = "T19"
      <3>1. row.reopenCount < MAX_REOPENS
        BY <2>2 DEF Accepts, EffectsAllowed, CanOverride, CanReopen
      <3> QED
        BY <2>2, <3>1, ReopenEffect DEF Effect
    <2>3. CASE code = "CLIENT_REPLY"
      BY <2>3, ReplyEffect DEF Effect
    <2>4. CASE code \notin {"T02", "T19", "CLIENT_REPLY"}
      <3>1. code \in {"T03", "T07", "T10"} => row.status \in CLIENT_REPLY_TARGETS
        BY Table DEF CLIENT_REPLY_TARGETS, Accepts
      <3>2. code = "T06" => dto.assignee \in Staff
        BY DEF Accepts, EffectsAllowed, CanOverride, CanReopen
      <3> HIDE DEF applied
      <3> QED
        BY <2>4, <3>1, <3>2, PlainEffect DEF Effect, applied
    <2> QED
      BY <2>1, <2>2, <2>3, <2>4
  <1> HIDE DEF applied, target
  <1>5. /\ saved.createdAt = applied.createdAt
        /\ saved.effectivePriority = applied.effectivePriority
        /\ saved.waitingClientTotal = applied.waitingClientTotal
        /\ saved.slaDueResolutionAt = applied.slaDueResolutionAt
        /\ saved.qualifiedAt = applied.qualifiedAt
        /\ saved.firstResponseAt = applied.firstResponseAt
        /\ saved.resolvedAt = applied.resolvedAt
        /\ saved.closedAt = applied.closedAt
        /\ saved.lastReopenedAt = applied.lastReopenedAt
        /\ saved.isSlaResolutionRespected = applied.isSlaResolutionRespected
    BY <1>4, Zenon DEF Row
  <1> HIDE DEF saved
  <1>6. Stamps(code, row, t, saved)
    BY <1>2, <1>5, Zenon DEF Stamps
  <1>7. code = "T02" => CalendarDue(saved)
    BY <1>2, <1>5, Zenon DEF CalendarDue
  <1> QED
    BY <1>1, <1>6, <1>7, Zenon

(* A request assigned at its creation is qualified at once, and has no other  *)
(* milestone yet.                                                          *)
LEMMA AutoAssignedStamps ==
    ASSUME NEW client \in Clients, NEW p \in Priority, NEW t \in Nat,
           NEW assignee \in Staff
    PROVE  LET new == AutoAssigned(NewRow(client, p, t), assignee, t)
           IN  /\ new.qualifiedAt = t
               /\ new.firstResponseAt = NULL /\ new.resolvedAt = NULL
               /\ new.closedAt = NULL /\ new.lastReopenedAt = NULL
               /\ CalendarDue(new)
  <1> DEFINE fresh == NewRow(client, p, t)
             dto == [note |-> "none", level |-> p, assignee |-> NULL]
             qualified == ApplyEffects("T02", fresh, dto, t)
             new == [qualified EXCEPT !.assignedTo = assignee, !.status = "AFFECTEE"]
  <1>1. AutoAssigned(fresh, assignee, t) = new
    BY DEF AutoAssigned, ApplyEffects, NewRow
  <1>2. fresh \in Row /\ dto \in Dto
    BY NewRowFits, Zenon DEF Dto, NoteKind
  <1>3. /\ fresh.firstResponseAt = NULL /\ fresh.resolvedAt = NULL
        /\ fresh.closedAt = NULL /\ fresh.lastReopenedAt = NULL
    BY DEF NewRow
  <1> HIDE DEF fresh, dto
  <1>4. Stamps("T02", fresh, t, qualified) /\ CalendarDue(qualified)
    BY <1>2, QualifyStamps
  <1>5. /\ qualified.qualifiedAt = t
        /\ qualified.firstResponseAt = NULL /\ qualified.resolvedAt = NULL
        /\ qualified.closedAt = NULL /\ qualified.lastReopenedAt = NULL
    <2> HIDE DEF qualified
    <2> QED
      BY <1>3, <1>4 DEF Stamps
  <1>6. /\ new.createdAt = qualified.createdAt
        /\ new.effectivePriority = qualified.effectivePriority
        /\ new.waitingClientTotal = qualified.waitingClientTotal
        /\ new.slaDueResolutionAt = qualified.slaDueResolutionAt
        /\ new.qualifiedAt = qualified.qualifiedAt
        /\ new.firstResponseAt = qualified.firstResponseAt
        /\ new.resolvedAt = qualified.resolvedAt
        /\ new.closedAt = qualified.closedAt
        /\ new.lastReopenedAt = qualified.lastReopenedAt
    OBVIOUS
  <1> HIDE DEF new, qualified
  <1>7. CalendarDue(new)
    BY <1>4, <1>6, Zenon DEF CalendarDue
  <1> QED
    BY <1>1, <1>5, <1>6, <1>7, Zenon DEF fresh

-----------------------------------------------------------------------------
(* The status a request has, or resumes in, before and after a transition:   *)
(* a wait and its answer change nothing.                                   *)
LEMMA StageOf ==
    ASSUME NEW row \in Row, NEW code \in TransitionCode, NEW saved,
           row.status \in TRANSITIONS[code].from, Target(code, row) # NULL,
           saved.status = Target(code, row),
           code \in {"T03", "T07", "T10"} => saved.previousStatusBeforeWait = row.status
    PROVE  IF code \in {"T03", "T07", "T10", "CLIENT_REPLY"}
           THEN StatusUnderWait(saved) = StatusUnderWait(row)
           ELSE /\ StatusUnderWait(row) = row.status
                /\ StatusUnderWait(saved) = TRANSITIONS[code].to
                /\ saved.status = TRANSITIONS[code].to
  <1>1. CASE code \in {"T03", "T07", "T10"}
    BY <1>1, Table, TargetIs DEF StatusUnderWait
  <1>2. CASE code = "CLIENT_REPLY"
    BY <1>2, Table, TargetIs DEF StatusUnderWait, CLIENT_REPLY_TARGETS
  <1>3. CASE code \notin {"T03", "T07", "T10", "CLIENT_REPLY"}
    BY <1>3, Table, TargetIs DEF StatusUnderWait, TransitionCode
  <1> QED
    BY <1>1, <1>2, <1>3
=============================================================================
