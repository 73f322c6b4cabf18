------------------------ MODULE TransitionTx_proofs ------------------------
(***************************************************************************)
(* What survives any number of overlapping calls, for every set of users     *)
(* and every starting row.                                                 *)
(***************************************************************************)
EXTENDS TransitionTx, TransitionEngine_proofs

LEMMA RowDomain ==
    ASSUME NEW r \in Row PROVE DOMAIN r = Columns
  BY SMT DEF Row, Columns

(* A partial update mixes two well-typed rows column by column.             *)
LEMMA UpdateType ==
    ASSUME NEW entity \in Row, NEW current \in Row, NEW columns
    PROVE  Update(entity, columns, current) \in Row
  <1> DEFINE new == Update(entity, columns, current)
  <1>1. Now \in Nat
    BY TxAssumption
  <1>2. DOMAIN new = DOMAIN current /\ new = [c \in DOMAIN current |-> new[c]]
    BY Zenon DEF Update
  <1>3. \A c \in DOMAIN current :
            \/ new[c] = entity[c] \/ new[c] = current[c]
            \/ c = "updatedAt" /\ new[c] = Now
    BY Zenon DEF Update
  <1> HIDE DEF new
  <1>4. DOMAIN current = Columns
    BY RowDomain
  <1>5. /\ new.createdBy \in Clients
        /\ new.status \in RequestStatus
        /\ new.previousStatusBeforeWait \in CLIENT_REPLY_TARGETS \cup {NULL}
        /\ new.systemPriority \in Priority
        /\ new.effectivePriority \in Priority
        /\ new.priorityOverrideReason \in BOOLEAN
        /\ new.assignedTo \in Staff \cup {NULL}
        /\ new.reopenCount \in 0..MAX_REOPENS
        /\ new.createdAt \in Nat
        /\ new.qualifiedAt \in Instant
        /\ new.firstResponseAt \in Instant
        /\ new.resolvedAt \in Instant
        /\ new.closedAt \in Instant
        /\ new.lastReopenedAt \in Instant
        /\ new.waitingClientTotal \in Nat
        /\ new.slaDueFirstResponseAt \in Instant
        /\ new.slaDueResolutionAt \in Instant
        /\ new.isSlaFirstResponseRespected \in Verdict
        /\ new.isSlaResolutionRespected \in Verdict
        /\ new.updatedAt \in Nat
    BY <1>1, <1>3, <1>4, Zenon DEF Row, Columns
  <1> DEFINE copy ==
           [createdBy |-> new.createdBy, status |-> new.status,
             previousStatusBeforeWait |-> new.previousStatusBeforeWait,
             systemPriority |-> new.systemPriority,
             effectivePriority |-> new.effectivePriority,
             priorityOverrideReason |-> new.priorityOverrideReason,
             assignedTo |-> new.assignedTo, reopenCount |-> new.reopenCount,
             createdAt |-> new.createdAt, qualifiedAt |-> new.qualifiedAt,
             firstResponseAt |-> new.firstResponseAt,
             resolvedAt |-> new.resolvedAt, closedAt |-> new.closedAt,
             lastReopenedAt |-> new.lastReopenedAt,
             waitingClientTotal |-> new.waitingClientTotal,
             slaDueFirstResponseAt |-> new.slaDueFirstResponseAt,
             slaDueResolutionAt |-> new.slaDueResolutionAt,
             isSlaFirstResponseRespected |-> new.isSlaFirstResponseRespected,
             isSlaResolutionRespected |-> new.isSlaResolutionRespected,
             updatedAt |-> new.updatedAt]
  <1>6. new = copy
    BY <1>2, <1>4, ZenonT(60) DEF Columns
  <1>7. copy \in Row
    BY <1>5, Zenon DEF Row
  <1> HIDE DEF copy
  <1> QED
    BY <1>6, <1>7 DEF new

(* A save that nobody overtook writes the whole entity, and updated_at.      *)
LEMMA UpdateWhole ==
    ASSUME NEW entity \in Row, NEW current \in Row, entity.status # current.status
    PROVE  Update(entity, Differences(entity, current), current)
               = [entity EXCEPT !.updatedAt = Now]
  <1> DEFINE columns == Differences(entity, current)
  <1>1. DOMAIN entity = DOMAIN current /\ "status" \in DOMAIN current
    BY SMT DEF Row
  <1>2. "status" \in columns /\ "updatedAt" \notin columns
    BY <1>1 DEF Differences
  <1>3. ASSUME NEW c \in DOMAIN current, c # "updatedAt"
        PROVE  (IF c \in columns THEN entity[c] ELSE current[c]) = entity[c]
    BY <1>3 DEF Differences
  <1> HIDE DEF columns
  <1>4. columns # {}
    BY <1>2
  <1>5. Update(entity, columns, current) =
            [c \in DOMAIN entity |-> IF c = "updatedAt" THEN Now ELSE entity[c]]
    BY <1>1, <1>2, <1>3, <1>4, Zenon DEF Update
  <1>6. [entity EXCEPT !.updatedAt = Now] =
            [c \in DOMAIN entity |-> IF c = "updatedAt" THEN Now ELSE entity[c]]
    BY Zenon DEF Row
  <1> QED
    BY <1>5, <1>6 DEF columns

-----------------------------------------------------------------------------
(* No transition keeps the status.                                         *)
LEMMA StatusMoves ==
    ASSUME NEW r \in Row, NEW code \in TransitionCode,
           r.status \in TRANSITIONS[code].from, Target(code, r) # NULL
    PROVE  Target(code, r) # r.status
  <1>1. CASE code = "CLIENT_REPLY"
    BY <1>1, Table, TargetIs DEF CLIENT_REPLY_TARGETS
  <1>2. CASE code # "CLIENT_REPLY"
    BY <1>2, Table, TargetIs DEF TransitionCode
  <1> QED
    BY <1>1, <1>2

(***************************************************************************)
(* What a call holds.  `n` is the length of the journal: as long as it is    *)
(* the length the call loaded at, the row is the row it loaded.             *)
(***************************************************************************)
Follows(c) ==
    /\ c.entry.from = c.expected
    /\ c.entry.from \in TRANSITIONS[c.code].from
    /\ c.entity.status = c.entry.to
    /\ \/ c.entry.to = TRANSITIONS[c.code].to
       \/ TRANSITIONS[c.code].to = NULL /\ c.entry.to \in CLIENT_REPLY_TARGETS

UpToDate(c, r) ==
    /\ c.entity = Transitioned(c.code, r, c.dto, Now)
    /\ c.entry = JournalEntry(c.code, r)
    /\ c.entity.status # r.status
    /\ c.phase = "compared" => c.columns = Differences(c.entity, r)

Good(c, r, n) ==
    c.phase \in {"loaded", "compared"} =>
        /\ Follows(c)
        /\ c.since <= n
        /\ c.since = n => UpToDate(c, r)

TxInv == TxTypeOK /\ \A k \in Calls : Good(calls[k], row, Len(journal))

(* An accepted call has loaded a transition of the row.                     *)
LEMMA AcceptedIsGood ==
    ASSUME CalendarSound, NEW r \in Row, NEW code \in TransitionCode,
           NEW dto \in Dto, NEW viewer, NEW n \in Nat,
           Accepts(viewer, code, r, r.status, dto, Users, "none", Now)
    PROVE  /\ Transitioned(code, r, dto, Now) \in Row
           /\ JournalEntry(code, r) \in Entry
           /\ \A c : /\ c.phase = "loaded" /\ c.code = code /\ c.dto = dto
                     /\ c.expected = r.status /\ c.since = n
                     /\ c.entity = Transitioned(code, r, dto, Now)
                     /\ c.entry = JournalEntry(code, r)
                     => Good(c, r, n)
  <1> DEFINE new == Transitioned(code, r, dto, Now)
             entry == JournalEntry(code, r)
  <1>1. Now \in Nat
    BY TxAssumption
  <1>2. /\ Effect(code, r, dto, Now, new)
        /\ new.status = Target(code, r)
    BY <1>1, TransitionEffect
  <1>3. new \in Row
    BY <1>2 DEF Effect
  <1>4. r.status \in TRANSITIONS[code].from /\ Target(code, r) # NULL
    BY DEF Accepts
  <1>5. /\ entry \in Entry /\ entry.from = r.status /\ entry.to = Target(code, r)
    BY <1>4, EntryOf DEF Entry
  <1>6. \/ Target(code, r) = TRANSITIONS[code].to
        \/ TRANSITIONS[code].to = NULL /\ Target(code, r) \in CLIENT_REPLY_TARGETS
    BY <1>4 DEF Target, resolveClientReplyTarget
  <1>7. Target(code, r) # r.status
    BY <1>4, StatusMoves
  <1> HIDE DEF new, entry
  <1>8. ASSUME NEW c, c.phase = "loaded", c.code = code, c.dto = dto,
               c.expected = r.status, c.since = n, c.entity = new, c.entry = entry
        PROVE  Good(c, r, n)
    <2>1. Follows(c)
      BY <1>2, <1>4, <1>5, <1>6, <1>8 DEF Follows
    <2>2. UpToDate(c, r)
      BY <1>2, <1>7, <1>8 DEF UpToDate, new, entry
    <2> QED
      BY <1>8, <2>1, <2>2 DEF Good
  <1> QED
    BY <1>3, <1>5, <1>8, Zenon DEF new, entry

LEMMA CallPhases ==
    ASSUME TxTypeOK, NEW k \in Calls
    PROVE  /\ row \in Row /\ Len(journal) \in Nat
           /\ calls[k].phase = "displayed" => calls[k] \in Displayed
           /\ calls[k].phase = "loaded" => calls[k] \in Loaded
           /\ calls[k].phase = "compared" => calls[k] \in Compared
  <1>1. calls[k] \in {NoCall} \cup Displayed \cup Loaded \cup Compared
    BY DEF TxTypeOK
  <1> QED
    BY <1>1 DEF TxTypeOK, NoCall, Displayed, Loaded, Compared

(* Writing the call of k leaves the others as they are.                     *)
LEMMA SetCall ==
    ASSUME TxInv, NEW k \in Calls, NEW c, UNCHANGED <<row, journal>>,
           calls' = [calls EXCEPT ![k] = c],
           c \in {NoCall} \cup Displayed \cup Loaded \cup Compared,
           Good(c, row, Len(journal))
    PROVE  TxInv'
  <1>1. TxTypeOK'
    BY DEF TxInv, TxTypeOK
  <1>2. ASSUME NEW j \in Calls
        PROVE  Good(calls'[j], row, Len(journal))
    BY <1>2, Zenon DEF TxInv, TxTypeOK
  <1> QED
    BY <1>1, <1>2 DEF TxInv

LEMMA DisplayInv ==
    ASSUME TxInv, NEW k \in Calls, Display(k)
    PROVE  TxInv'
  <1>1. PICK viewer \in Viewers, code \in TransitionCode :
          \E dto \in Arguments(code) :
             calls' = [calls EXCEPT ![k] =
                [phase |-> "displayed", viewer |-> viewer, code |-> code,
                 dto |-> dto, expected |-> row.status]]
    BY DEF Display
  <1>2. PICK dto \in Arguments(code) :
             calls' = [calls EXCEPT ![k] =
                [phase |-> "displayed", viewer |-> viewer, code |-> code,
                 dto |-> dto, expected |-> row.status]]
    BY <1>1
  <1> DEFINE c == [phase |-> "displayed", viewer |-> viewer, code |-> code,
                   dto |-> dto, expected |-> row.status]
  <1>3. row.status \in RequestStatus
    BY DEF TxInv, TxTypeOK, Row
  <1>4. dto \in Dto
    BY <1>3 DEF Arguments, DtoOf, Dto, Priority
  <1>5. c \in Displayed /\ c.phase = "displayed"
    BY <1>3, <1>4 DEF Displayed
  <1>6. calls' = [calls EXCEPT ![k] = c] /\ UNCHANGED <<row, journal>>
    BY <1>2 DEF Display
  <1> HIDE DEF c
  <1>7. Good(c, row, Len(journal))
    BY <1>5 DEF Good
  <1> QED
    BY <1>5, <1>6, <1>7, SetCall

LEMMA LoadInv ==
    ASSUME CalendarSound, TxInv, NEW k \in Calls, Load(k)
    PROVE  TxInv'
  <1> DEFINE c == calls[k]
             ok == Accepts(c.viewer, c.code, row, c.expected, c.dto, Users, "none", Now)
             new == [phase |-> "loaded", code |-> c.code, dto |-> c.dto,
                     expected |-> c.expected,
                     entity |-> Transitioned(c.code, row, c.dto, Now),
                     entry |-> JournalEntry(c.code, row),
                     since |-> Len(journal)]
  <1>1. /\ c.phase = "displayed" /\ UNCHANGED <<row, journal>>
        /\ calls' = [calls EXCEPT ![k] = IF ok THEN new ELSE NoCall]
    BY Zenon DEF Load
  <1>2. /\ row \in Row /\ Len(journal) \in Nat /\ c \in Displayed
    BY <1>1, CallPhases DEF TxInv
  <1>3. /\ c.code \in TransitionCode /\ c.dto \in Dto /\ c.expected \in RequestStatus
    BY <1>2 DEF Displayed
  <1>4. CASE ok
    <2>1. c.expected = row.status
      BY <1>4 DEF Accepts
    <2>2. Accepts(c.viewer, c.code, row, row.status, c.dto, Users, "none", Now)
      BY <1>4, <2>1
    <2> HIDE DEF c, ok
    <2>3. /\ Transitioned(c.code, row, c.dto, Now) \in Row
          /\ JournalEntry(c.code, row) \in Entry
          /\ Good(new, row, Len(journal))
      <3>1. /\ new.phase = "loaded" /\ new.code = c.code /\ new.dto = c.dto
            /\ new.expected = row.status /\ new.since = Len(journal)
            /\ new.entity = Transitioned(c.code, row, c.dto, Now)
            /\ new.entry = JournalEntry(c.code, row)
        BY <2>1, Zenon
      <3> HIDE DEF new
      <3> QED
        BY <1>2, <1>3, <2>2, <3>1, AcceptedIsGood, Zenon
    <2>4. new \in Loaded
      BY <1>2, <1>3, <2>3, Zenon DEF Loaded
    <2>5. calls' = [calls EXCEPT ![k] = new]
      BY <1>1, <1>4, Zenon
    <2> HIDE DEF new
    <2> QED
      BY <1>1, <2>3, <2>4, <2>5, SetCall
  <1>5. CASE ~ok
    <2>1. calls' = [calls EXCEPT ![k] = NoCall]
      BY <1>1, <1>5, Zenon
    <2>2. Good(NoCall, row, Len(journal))
      BY DEF Good, NoCall
    <2> QED
      BY <1>1, <2>1, <2>2, SetCall
  <1> QED
    BY <1>4, <1>5

LEMMA CompareInv ==
    ASSUME TxInv, NEW k \in Calls, Compare(k)
    PROVE  TxInv'
  <1> DEFINE c == calls[k]
             new == [phase |-> "compared", code |-> c.code, dto |-> c.dto,
                     expected |-> c.expected, entity |-> c.entity, entry |-> c.entry,
                     since |-> c.since, columns |-> Differences(c.entity, row)]
  <1>1. /\ c.phase = "loaded" /\ UNCHANGED <<row, journal>>
        /\ calls' = [calls EXCEPT ![k] = new]
    BY Zenon DEF Compare
  <1>2. row \in Row /\ c \in Loaded
    BY <1>1, CallPhases DEF TxInv
  <1>3. Good(c, row, Len(journal))
    BY DEF TxInv
  <1>4. Differences(c.entity, row) \in SUBSET Columns
    BY <1>2, RowDomain DEF Differences
  <1> HIDE DEF c
  <1>5. /\ new \in Compared /\ new.phase = "compared"
        /\ new.code = c.code /\ new.dto = c.dto /\ new.expected = c.expected
        /\ new.entity = c.entity /\ new.entry = c.entry /\ new.since = c.since
        /\ new.columns = Differences(c.entity, row)
    BY <1>2, <1>4, Zenon DEF Loaded, Compared
  <1> HIDE DEF new
  <1>6. Good(new, row, Len(journal))
    BY <1>1, <1>3, <1>5, Zenon DEF Good, Follows, UpToDate
  <1> QED
    BY <1>1, <1>5, <1>6, SetCall

LEMMA CommitInv ==
    ASSUME TxInv, NEW k \in Calls, Commit(k)
    PROVE  TxInv'
  <1> DEFINE c == calls[k]
  <1>1. /\ c.phase = "compared"
        /\ row' = Update(c.entity, c.columns, row)
        /\ journal' = Append(journal, c.entry)
        /\ calls' = [calls EXCEPT ![k] = NoCall]
    BY DEF Commit
  <1>2. row \in Row /\ c \in Compared
    BY <1>1, CallPhases DEF TxInv
  <1>3. c.entity \in Row /\ c.entry \in Entry
    BY <1>2 DEF Compared
  <1> HIDE DEF c
  <1>4. row' \in Row
    BY <1>1, <1>2, <1>3, UpdateType
  <1>5. journal' \in Seq(Entry) /\ Len(journal') = Len(journal) + 1
        /\ Len(journal) \in Nat
    BY <1>1, <1>3 DEF TxInv, TxTypeOK
  <1>6. TxTypeOK'
    BY <1>1, <1>4, <1>5 DEF TxInv, TxTypeOK
  <1>7. ASSUME NEW j \in Calls
        PROVE  Good(calls'[j], row', Len(journal'))
    <2>1. CASE j = k
      BY <1>1, <2>1 DEF Good, NoCall, TxInv, TxTypeOK
    <2>2. CASE j # k
      <3>1. calls'[j] = calls[j] /\ Good(calls[j], row, Len(journal))
        BY <1>1, <2>2 DEF TxInv, TxTypeOK
      <3>2. calls[j].phase \in {"loaded", "compared"} => calls[j].since \in Nat
        BY CallPhases DEF TxInv, Loaded, Compared
      <3> QED
        BY <1>5, <3>1, <3>2 DEF Good
    <2> QED
      BY <2>1, <2>2
  <1> QED
    BY <1>6, <1>7 DEF TxInv

LEMMA TxInvInductive ==
    ASSUME CalendarSound
    PROVE  /\ Init => TxInv
           /\ TxInv /\ [Next]_txVars => TxInv'
  <1>1. Init => TxInv
    BY TxAssumption DEF Init, TxInv, TxTypeOK, Good, NoCall
  <1>2. ASSUME TxInv, [Next]_txVars
        PROVE  TxInv'
    <2>1. CASE UNCHANGED txVars
      BY <1>2, <2>1 DEF txVars, TxInv, TxTypeOK
    <2>2. ASSUME NEW k \in Calls, Display(k) \/ Load(k) \/ Compare(k) \/ Commit(k)
          PROVE  TxInv'
      BY <1>2, <2>2, DisplayInv, LoadInv, CompareInv, CommitInv
    <2> QED
      BY <1>2, <2>1, <2>2 DEF Next
  <1> QED
    BY <1>1, <1>2

(* The row and the entities in flight stay rows, whatever the overlap.       *)
THEOREM TxTypeCorrect ==
    ASSUME CalendarSound PROVE Spec => []TxTypeOK
  <1>1. TxInv => TxTypeOK
    BY DEF TxInv
  <1> QED
    BY <1>1, TxInvInductive, PTL DEF Spec

(* Every call about to write the journal follows an edge of the table that   *)
(* starts at the status its caller saw.                                    *)
THEOREM CallsFollowTheTable ==
    ASSUME CalendarSound PROVE Spec => []EdgesFromDisplayedStatus
  <1>1. TxInv => EdgesFromDisplayedStatus
    BY DEF TxInv, Good, Follows, EdgesFromDisplayedStatus
  <1> QED
    BY <1>1, TxInvInductive, PTL DEF Spec

(* A call that nobody overtook is one atomic transition of the row.         *)
THEOREM UncontendedCallsAreAtomic ==
    ASSUME CalendarSound PROVE Spec => UncontendedIsAtomic
  <1>1. ASSUME TxInv, [Next]_txVars, NEW k \in Calls, Commits(k),
               calls[k].since = Len(journal)
        PROVE  /\ row' = [Transitioned(calls[k].code, row, calls[k].dto, Now)
                             EXCEPT !.updatedAt = Now]
               /\ journal' = Append(journal, JournalEntry(calls[k].code, row))
    <2> DEFINE c == calls[k]
    <2>1. /\ c.phase = "compared" /\ calls'[k] = NoCall /\ c # NoCall
      BY <1>1 DEF Commits, NoCall
    <2>2. Commit(k)
      BY <1>1, <2>1 DEF Next, txVars, Display, Load, Compare, Commit, TxInv, TxTypeOK
    <2>3. /\ row' = Update(c.entity, c.columns, row)
          /\ journal' = Append(journal, c.entry)
      BY <2>2 DEF Commit
    <2>4. row \in Row /\ c.entity \in Row
      BY <1>1, <2>1, CallPhases DEF TxInv, Compared
    <2>5. UpToDate(c, row)
      BY <1>1, <2>1 DEF TxInv, Good
    <2> HIDE DEF c
    <2>6. row' = [c.entity EXCEPT !.updatedAt = Now]
      BY <2>1, <2>3, <2>4, <2>5, UpdateWhole DEF UpToDate
    <2> QED
      BY <2>3, <2>5, <2>6 DEF UpToDate, c
  <1>2. TxInv /\ [Next]_txVars =>
          [\A k \in Calls :
              Commits(k) /\ calls[k].since = Len(journal) =>
                  /\ row' = [Transitioned(calls[k].code, row, calls[k].dto, Now)
                                EXCEPT !.updatedAt = Now]
                  /\ journal' = Append(journal, JournalEntry(calls[k].code, row))]_txVars
    BY <1>1
  <1> QED
    BY <1>2, TxInvInductive, PTL DEF Spec, UncontendedIsAtomic
=============================================================================
