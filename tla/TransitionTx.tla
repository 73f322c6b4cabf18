---------------------------- MODULE TransitionTx ----------------------------
(***************************************************************************)
(* Overlapping calls of TransitionsService.apply on one request.  Each call *)
(* runs in a database transaction of its own, at READ COMMITTED and without  *)
(* a lock or a version column:                                             *)
(*                                                                         *)
(*   Display   the user sees the request and asks for a transition; the      *)
(*             call carries the status displayed (expectedStatus)           *)
(*   Load      the transaction selects the row, runs every check on it and   *)
(*             computes the entity to save                                  *)
(*   Compare   repo.save selects the row again and keeps the columns in      *)
(*             which the entity differs from it                             *)
(*   Commit    those columns are updated, the journal line is inserted       *)
(*                                                                         *)
(* The update holds the row lock until the commit and what precedes it      *)
(* leaves no trace, so update, insert and commit are one step.  Everything   *)
(* happens within one unit of time, with every account active and no         *)
(* structured bug: RequestLifecycle has the clock, the accounts and the      *)
(* diagnostics, and no overlap.                                            *)
(***************************************************************************)
EXTENDS TransitionEngine, Sequences

CONSTANTS
    Calls,         \* bound of the model: the calls in flight at once
    MaxJournal,    \* bound of the model: no call starts beyond this length
    StartRows,     \* rows to start from, with an empty journal
    Now

ASSUME TxAssumption ==
    /\ StartRows \subseteq Row
    /\ MaxJournal \in Nat
    /\ Now \in Nat

VARIABLES
    row,        \* the row of table requests
    journal,    \* its rows of table request_state_history, oldest first
    calls       \* the call each caller has in flight

txVars == <<row, journal, calls>>

Viewers == Users \cup {SYSTEM}
Entry   == [code : JournalCode, from : RequestStatus, to : RequestStatus]

(* A note is of the right length, the other kinds being refusals.           *)
Arguments(code) == {dto \in DtoOf(code) : dto.note = "reason"}

NoCall == [phase |-> "none"]

Displayed ==
    [phase : {"displayed"}, viewer : Viewers, code : TransitionCode, dto : Dto,
     expected : RequestStatus]

(* `since` is the length of the journal at Load: a history field.           *)
Loaded ==
    [phase : {"loaded"}, code : TransitionCode, dto : Dto, expected : RequestStatus,
     entity : Row, entry : Entry, since : Nat]

Columns ==
    {"createdBy", "status", "previousStatusBeforeWait", "systemPriority",
     "effectivePriority", "priorityOverrideReason", "assignedTo", "reopenCount",
     "createdAt", "qualifiedAt", "firstResponseAt", "resolvedAt", "closedAt",
     "lastReopenedAt", "waitingClientTotal", "slaDueFirstResponseAt",
     "slaDueResolutionAt", "isSlaFirstResponseRespected",
     "isSlaResolutionRespected", "updatedAt"}

Compared ==
    [phase : {"compared"}, code : TransitionCode, dto : Dto, expected : RequestStatus,
     entity : Row, entry : Entry, since : Nat, columns : SUBSET Columns]

(* Among the rest, reopenCount is at most MAX_REOPENS whatever overlaps: the *)
(* update writes the value computed from the row that was checked.          *)
TxTypeOK ==
    /\ row \in Row
    /\ journal \in Seq(Entry)
    /\ calls \in [Calls -> {NoCall} \cup Displayed \cup Loaded \cup Compared]

Init ==
    /\ row \in StartRows
    /\ journal = <<>>
    /\ calls = [k \in Calls |-> NoCall]

-----------------------------------------------------------------------------
(* The API takes any code with any status that was displayed; the job only  *)
(* asks for T17.                                                           *)
Display(k) ==
    /\ calls[k] = NoCall
    /\ Len(journal) < MaxJournal
    /\ \E viewer \in Viewers, code \in TransitionCode :
          \E dto \in Arguments(code) :
             /\ viewer = SYSTEM => code = "T17"
             /\ calls' = [calls EXCEPT ![k] =
                   [phase |-> "displayed", viewer |-> viewer, code |-> code,
                    dto |-> dto, expected |-> row.status]]
    /\ UNCHANGED <<row, journal>>

(* A refused call rolls back and is over.                                  *)
Load(k) ==
    /\ calls[k].phase = "displayed"
    /\ LET c == calls[k]
       IN  calls' = [calls EXCEPT ![k] =
             IF Accepts(c.viewer, c.code, row, c.expected, c.dto, Users, "none", Now)
             THEN [phase |-> "loaded", code |-> c.code, dto |-> c.dto,
                   expected |-> c.expected,
                   entity |-> Transitioned(c.code, row, c.dto, Now),
                   entry |-> JournalEntry(c.code, row),
                   since |-> Len(journal)]
             ELSE NoCall]
    /\ UNCHANGED <<row, journal>>

Differences_Wrong(entity, current) ==              \* a NULL is "not provided"
    {c \in DOMAIN current \ {"updatedAt"} :
        entity[c] # current[c] /\ entity[c] # NULL}

Differences(entity, current) ==
    {c \in DOMAIN current \ {"updatedAt"} : entity[c] # current[c]}

Compare(k) ==
    /\ calls[k].phase = "loaded"
    /\ LET c == calls[k]
       IN  calls' = [calls EXCEPT ![k] =
             [phase |-> "compared", code |-> c.code, dto |-> c.dto,
              expected |-> c.expected, entity |-> c.entity, entry |-> c.entry,
              since |-> c.since, columns |-> Differences(c.entity, row)]]
    /\ UNCHANGED <<row, journal>>

Update_Wrong(entity, columns, current) ==      \* SET reopen_count = reopen_count + 1
    [c \in DOMAIN current |-> IF c \in columns
                              THEN IF c = "reopenCount" THEN current[c] + 1 ELSE entity[c]
                              ELSE current[c]]

(* UPDATE requests SET <columns> WHERE id = ..., nothing when none differs. *)
Update(entity, columns, current) ==
    [c \in DOMAIN current |-> IF c \in columns THEN entity[c]
                              ELSE IF c = "updatedAt" /\ columns # {} THEN Now
                              ELSE current[c]]

Commit(k) ==
    /\ calls[k].phase = "compared"
    /\ row' = Update(calls[k].entity, calls[k].columns, row)
    /\ journal' = Append(journal, calls[k].entry)
    /\ calls' = [calls EXCEPT ![k] = NoCall]

Next == \E k \in Calls : Display(k) \/ Load(k) \/ Compare(k) \/ Commit(k)

Spec == Init /\ [][Next]_txVars

-----------------------------------------------------------------------------
(***************************************************************************)
(* What survives any overlap.                                              *)
(***************************************************************************)
Commits(k) == calls[k].phase = "compared" /\ calls'[k] = NoCall

(* A call during which nobody else committed is atomic, whatever else was    *)
(* in flight: repo.save has written exactly the transition of the row the    *)
(* checks were made on, with the journal line of that transition.           *)
UncontendedIsAtomic ==
    [][\A k \in Calls :
          Commits(k) /\ calls[k].since = Len(journal) =>
              /\ row' = [Transitioned(calls[k].code, row, calls[k].dto, Now)
                            EXCEPT !.updatedAt = Now]
              /\ journal' = Append(journal, JournalEntry(calls[k].code, row))]_txVars

(* Every line of the journal is an edge of the transition table that starts  *)
(* at the status its caller saw, however stale the screen was (EXG-04-012).  *)
EdgesFromDisplayedStatus ==
    \A k \in Calls :
        calls[k].phase \in {"loaded", "compared"} =>
            LET c == calls[k]
            IN  /\ c.entry.from = c.expected
                /\ c.entry.from \in TRANSITIONS[c.code].from
                /\ c.entity.status = c.entry.to
                /\ \/ c.entry.to = TRANSITIONS[c.code].to
                   \/ TRANSITIONS[c.code].to = NULL /\ c.entry.to \in CLIENT_REPLY_TARGETS

-----------------------------------------------------------------------------
(***************************************************************************)
(* What the documents say and overlapping calls break.                      *)
(***************************************************************************)

(* EXG-04-070: of two simultaneous transitions only the first succeeds, so   *)
(* a commit always starts from the status the row still has.                *)
OnlyTheFirstSucceeds ==
    [][\A k \in Calls : Commits(k) => row.status = calls[k].expected]_txVars
=============================================================================
