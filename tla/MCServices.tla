----------------------------- MODULE MCServices -----------------------------
(* Instances of what surrounds the engine for TLC: the submission of a         *)
(* request, its screen, its conversation, its attachments, its notifications   *)
(* and the bell that shows them, the service level calendar and the palette.   *)
(* A behaviour runs one of them, the others stay in one initial state.        *)
EXTENDS Conversation, Attachments, Notifications, Inbox, Submission, Sla, RequestScreen, Palette,
        SequencesExt

CONSTANTS
    Parts,                        \* the components a run looks at
    bugs, other, product,         \* two categories and a product
    owner, colleague, lead, junior

VARIABLE part   \* the component this behaviour runs

servicesVars == <<part, conversationVars, attachmentsVars, notificationsVars, inboxVars,
                  submissionVars, asked, screenVars, paletteVars>>

-----------------------------------------------------------------------------
Talks(p, m, s) == [posts |-> p, moves |-> m, scores |-> s]
MCTalkBudgets == {Talks(2, 2, 0), Talks(3, 0, 0), Talks(1, 3, 0), Talks(0, 1, 3)}

(* Everybody hears everything at first, then one person may hear nothing of the *)
(* queue and lose the other mails; the address of the author is invalid until it *)
(* is replaced.                                                            *)
MCMutes == {({"QUEUE"} \X Channel) \cup (EventCategory \X {"EMAIL"})}
MCInvalid == {{Author}}

(* A category that asks for the details of a bug and one that does not.        *)
CategoryRow(s, details) == [state |-> s, requiresBugDetails |-> details]
MCCatalogs ==
    {[category |-> (bugs :> CategoryRow("active", TRUE) @@ other :> CategoryRow("active", FALSE)),
      product  |-> (product :> [state |-> "active", requiresEnvironment |-> TRUE])]}
Submissions(c, e, l, f) == [creations |-> c, edits |-> e, losses |-> l, failures |-> f]
MCSubmissionBudgets == {Submissions(3, 0, 0, 0), Submissions(1, 1, 0, 0), Submissions(2, 0, 1, 0),
                        Submissions(2, 0, 0, 1)}

(* A lead with every permission and a junior who only qualifies; the requests *)
(* are those of every stage of a treatment, and of a second cycle.           *)
MCAgents == {lead, junior}
MCRights ==
    [u \in Viewers |-> CASE u \in Portal -> {}
                         [] u = lead     -> Permission
                         [] u = junior   -> {"requests.qualify"}]
Reasoned == [note |-> "reason", level |-> 1, assignee |-> lead]
After(codes) ==
    FoldLeft(LAMBDA r, code : Engine!Transitioned(code, r, Reasoned, 0), Engine!NewRow(owner, 2, 0), codes)
Treated == <<"T02", "T06", "T08", "T11", "T16">>
MCStarts ==
    LET rows == {After(SubSeq(Treated, 1, n)) : n \in 0..5}
                  \cup {After(Treated \o <<"T19">> \o Treated \o <<"T19">> \o Treated), After(<<"T03">>)}
        start(r, b, e) == [row |-> r, bug |-> b, evaluated |-> e]
    IN  {start(r, IF r.status \in {"AFFECTEE", "EN_COURS"} THEN "undiagnosed" ELSE "none", FALSE) :
           r \in rows}
          \cup {start(After(SubSeq(Treated, 1, 3)), "none", FALSE), start(After(Treated), "none", TRUE)}
Tries(r, s, o, f) == [readings |-> r, submissions |-> s, others |-> o, failures |-> f]
MCScreenBudgets == {Tries(2, 2, 0, 0), Tries(1, 1, 1, 1)}

(* Clicks in the bell, readings elsewhere, faults.                             *)
Rest(c, e, f) == [clicks |-> c, elsewhere |-> e, faults |-> f]
MCInboxBudgets == {Rest(2, 1, 0), Rest(2, 0, 1)}

(* Two requests of two organizations, a user and a product; a term that begins  *)
(* another one.  The one who searches is internal.                           *)
Entry(g, k, ts, o) == [group |-> g, key |-> k, terms |-> ts, organization |-> o]
MCEntries == {Entry("request", 1, {"ab", "abc"}, "x"), Entry("request", 2, {"ab"}, "y"),
              Entry("user", 1, {"ab", "cd"}, "x"), Entry("product", 1, {"abc"}, "x")}
MCViewer  == [internal |-> TRUE, organization |-> "x", readsUsers |-> TRUE]

-----------------------------------------------------------------------------
ServicesInit ==
    /\ part \in Parts
    /\ ConversationInit
    /\ part = "conversation" \/ /\ talkBudget = CHOOSE b \in MCTalkBudgets : TRUE
                                /\ request.status = "NOUVELLE"
    /\ AttachmentsInit
    /\ NotificationsInit
    /\ assignee \in IF part = "notifications" THEN Managers \cup {NULL} ELSE {NULL}
    /\ SubmissionInit
    /\ part = "submission" \/ left = CHOOSE b \in MCSubmissionBudgets : TRUE
    /\ SlaInit
    /\ part = "calendar" \/ asked.start = 0
    /\ ScreenInit
    /\ part = "screen" \/ /\ attempts = CHOOSE b \in MCScreenBudgets : TRUE
                          /\ row.status = "NOUVELLE"
    /\ InboxInit
    /\ part = "inbox" \/ /\ spare = CHOOSE b \in MCInboxBudgets : TRUE
                         /\ \A n \in Notes : note[n] = NULL
    /\ PaletteInit

ServicesNext ==
    \/ /\ part = "conversation" /\ ConversationNext
       /\ UNCHANGED <<part, attachmentsVars, notificationsVars, inboxVars, submissionVars,
                      asked, screenVars, paletteVars>>
    \/ /\ part = "attachments" /\ AttachmentsNext
       /\ UNCHANGED <<part, conversationVars, notificationsVars, inboxVars, submissionVars,
                      asked, screenVars, paletteVars>>
    \/ /\ part = "notifications" /\ NotificationsNext
       /\ UNCHANGED <<part, conversationVars, attachmentsVars, inboxVars, submissionVars,
                      asked, screenVars, paletteVars>>
    \/ /\ part = "inbox" /\ InboxNext
       /\ UNCHANGED <<part, conversationVars, attachmentsVars, notificationsVars, submissionVars,
                      asked, screenVars, paletteVars>>
    \/ /\ part = "submission" /\ SubmissionNext
       /\ UNCHANGED <<part, conversationVars, attachmentsVars, notificationsVars, inboxVars,
                      asked, screenVars, paletteVars>>
    \/ /\ part = "calendar" /\ Lengthen
       /\ UNCHANGED <<part, conversationVars, attachmentsVars, notificationsVars, inboxVars,
                      submissionVars, screenVars, paletteVars>>
    \/ /\ part = "screen" /\ ScreenNext
       /\ UNCHANGED <<part, conversationVars, attachmentsVars, notificationsVars, inboxVars,
                      submissionVars, asked, paletteVars>>
    \/ /\ part = "palette" /\ PaletteNext
       /\ UNCHANGED <<part, conversationVars, attachmentsVars, notificationsVars, inboxVars,
                      submissionVars, asked, screenVars>>

ServicesSpec == ServicesInit /\ [][ServicesNext]_servicesVars

(* Every variable of the conversation, the attachments and the notifications  *)
(* has its type: the state their services and processes keep.  The mails of    *)
(* an event have a notification beside them, a signed link a file that may be  *)
(* downloaded or scanned again, what was announced to the client is public.   *)
ServicesTypeOK == ConversationTypeOK /\ AttachmentsTypeOK /\ NotificationsTypeOK
=============================================================================
