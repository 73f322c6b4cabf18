--------------------------- MODULE RequestMachine ---------------------------
(***************************************************************************)
(* The declarative state machine of a request (requests/state-machine.ts): *)
(* the statuses, the table of transitions and how a client's answer finds  *)
(* its target.  Everything here is a constant operator; the engine that     *)
(* applies a transition is in TransitionEngine.                            *)
(***************************************************************************)
EXTENDS Values

RequestStatus ==
    {"NOUVELLE", "EN_ATTENTE_AFFECTATION", "AFFECTEE", "EN_COURS",
     "EN_ATTENTE_CLIENT", "RESOLUE", "CLOTUREE", "ANNULEE"}

TransitionCode ==
    {"T02", "T03", "T04", "T05", "T06", "T07", "T08", "T09", "T10", "T11",
     "T12", "T16", "T17", "T18", "T19", "CLIENT_REPLY"}

Permission == {"requests.qualify", "requests.assign", "requests.process"}

(***************************************************************************)
(* One row of the table.  The actor is a permission, CLIENT_OWNER or        *)
(* SYSTEM.  `from` is the list of admitted source statuses; `to` is NULL    *)
(* when the target is resolved at run time.  Labels are wording only, and   *)
(* the event is left to the notifications.                                  *)
(***************************************************************************)
TransitionDef(from, to, actor, requiresNote) ==
    [from |-> from, to |-> to, actor |-> actor, requiresNote |-> requiresNote]

TRANSITIONS ==
  [c \in TransitionCode |->
    CASE c = "T02" -> TransitionDef({"NOUVELLE"}, "EN_ATTENTE_AFFECTATION", "requests.qualify", FALSE)
      [] c = "T03" -> TransitionDef({"NOUVELLE"}, "EN_ATTENTE_CLIENT", "requests.qualify", TRUE)
      [] c = "T04" -> TransitionDef({"NOUVELLE"}, "ANNULEE", "CLIENT_OWNER", FALSE)
      [] c = "T05" -> TransitionDef({"NOUVELLE"}, "ANNULEE", "requests.qualify", TRUE)
      [] c = "T06" -> TransitionDef({"EN_ATTENTE_AFFECTATION"}, "AFFECTEE", "requests.assign", FALSE)
      [] c = "T07" -> TransitionDef({"EN_ATTENTE_AFFECTATION"}, "EN_ATTENTE_CLIENT", "requests.assign", TRUE)
      [] c = "T08" -> TransitionDef({"AFFECTEE"}, "EN_COURS", "requests.process", FALSE)
      [] c = "T09" -> TransitionDef({"AFFECTEE"}, "NOUVELLE", "requests.process", TRUE)
      [] c = "T10" -> TransitionDef({"EN_COURS"}, "EN_ATTENTE_CLIENT", "requests.process", TRUE)
      [] c = "T11" -> TransitionDef({"EN_COURS"}, "RESOLUE", "requests.process", TRUE)
      [] c = "T12" -> TransitionDef({"EN_COURS"}, "NOUVELLE", "requests.process", TRUE)
      [] c = "T16" -> TransitionDef({"RESOLUE"}, "CLOTUREE", "CLIENT_OWNER", FALSE)
      [] c = "T17" -> TransitionDef({"RESOLUE"}, "CLOTUREE", "SYSTEM", FALSE)
      [] c = "T18" -> TransitionDef({"RESOLUE"}, "EN_COURS", "CLIENT_OWNER", TRUE)
      [] c = "T19" -> TransitionDef({"CLOTUREE"}, "NOUVELLE", "CLIENT_OWNER", TRUE)
      [] c = "CLIENT_REPLY" -> TransitionDef({"EN_ATTENTE_CLIENT"}, NULL, "CLIENT_OWNER", TRUE)]

(***************************************************************************)
(* Where a request may resume after EN_ATTENTE_CLIENT, and the code (T13,   *)
(* T14 or T15) the journal then records.  NULL when there is no previous    *)
(* status to resume from: the engine answers 409 NO_PREVIOUS_STATUS.        *)
(***************************************************************************)
CLIENT_REPLY_TARGETS == {"NOUVELLE", "EN_ATTENTE_AFFECTATION", "EN_COURS"}

resolveClientReplyTarget(previous) ==
    IF previous \in CLIENT_REPLY_TARGETS THEN previous ELSE NULL

ReplyCode(target) ==
    CASE target = "NOUVELLE"               -> "T13"
      [] target = "EN_ATTENTE_AFFECTATION" -> "T14"
      [] target = "EN_COURS"               -> "T15"

JournalCode == (TransitionCode \ {"CLIENT_REPLY"}) \cup {"T13", "T14", "T15"}
=============================================================================
