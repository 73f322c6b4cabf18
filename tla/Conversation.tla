---------------------------- MODULE Conversation ----------------------------
(***************************************************************************)
(* The messages and the evaluation of one request: MessagesService and       *)
(* EvaluationsService, each handler cut at its awaits.  The request moves     *)
(* meanwhile: its own transitions are single steps here (TransitionTx cuts   *)
(* them).  `owner` is the client who created the request, `colleague` a      *)
(* client of the same organization, `agent` a member of the staff who may    *)
(* write messages, `reader` one who may not.                                *)
(***************************************************************************)
EXTENDS RequestMachine, Naturals, FiniteSets

CONSTANTS
    Posts,        \* concurrent calls
    MaxMessages,  \* bound of the model: the messages of the request
    TalkBudgets   \* bound of the model: calls, transitions and evaluations

ASSUME ConversationAssumption ==
    /\ MaxMessages \in Nat
    /\ TalkBudgets \subseteq [posts : Nat, moves : Nat, scores : Nat]

VARIABLES
    request,     \* the row of table requests, and the number of its waits
    thread,      \* the rows of table request_messages
    evaluation,  \* the row of table evaluations
    post,        \* what each call is doing
    heard,       \* history: what the listeners of the events received
    talkBudget

conversationVars == <<request, thread, evaluation, post, heard, talkBudget>>

Authors    == {"owner", "colleague", "agent", "reader"}
MessageIds == 1 .. MaxMessages
Scores     == {"low", "high"}
NoPost     == [pc |-> "idle"]

(* `isBlank`: nothing is left of the text once it is trimmed.  `wait` is         *)
(* history: the wait during which the message was saved, and `read` what the    *)
(* call that saved it had read; `lost`: that call failed or stopped afterwards. *)
Message == [author : Authors, isInternal : BOOLEAN, isWithdrawn : BOOLEAN, isBlank : BOOLEAN,
            wait : Nat, read : RequestStatus, lost : BOOLEAN]

(* `altered` and `lost` are history too.                                     *)
Evaluation == [score : Scores, altered : BOOLEAN, lost : BOOLEAN]

ASSUME ConversationNull ==
    NULL \notin RequestStatus /\ NULL \notin Message /\ NULL \notin Evaluation

ConversationTypeOK ==
    /\ request \in [status : RequestStatus, previous : CLIENT_REPLY_TARGETS \cup {NULL},
                    waits : Nat]
    /\ thread \in [MessageIds -> Message \cup {NULL}]
    /\ evaluation \in Evaluation \cup {NULL}
    /\ heard.internal  \subseteq {m \in MessageIds : thread[m] # NULL}
    /\ heard.toClient \subseteq
          {m \in MessageIds : thread[m] # NULL /\ ~thread[m].isInternal}

ConversationInit ==
    /\ request \in [status : {"NOUVELLE", "EN_COURS", "CLOTUREE"}, previous : {NULL}, waits : {0}]
    /\ thread = [m \in MessageIds |-> NULL]
    /\ evaluation = NULL
    /\ post = [p \in Posts |-> NoPost]
    /\ heard = [internal |-> {}, toClient |-> {}, low |-> 0, answered |-> {}]
    /\ talkBudget \in TalkBudgets

-----------------------------------------------------------------------------
Written  == {m \in MessageIds : thread[m] # NULL}
Waiting  == request.status = "EN_ATTENTE_CLIENT"
OwnCalls == {p \in Posts : post[p].pc # "idle" /\ post[p].author = "owner"}

Pay(what) ==
    /\ talkBudget[what] > 0
    /\ talkBudget' = [talkBudget EXCEPT ![what] = @ - 1]

(* `alone` is history: no other call of the owner since this one started.      *)
Begin(p, work) ==
    /\ post[p] = NoPost
    /\ post' = [q \in Posts |->
          IF q = p THEN [work EXCEPT !.alone = OwnCalls = {}]
          ELSE IF q \in OwnCalls /\ work.author = "owner" THEN [post[q] EXCEPT !.alone = FALSE]
          ELSE post[q]]

End(p) == post' = [post EXCEPT ![p] = NoPost]

(* MessagesService.create: the checks, on the request as it is read.  The       *)
(* length of the text is checked before it is trimmed: blanks pass.           *)
MayWrite(author, isInternal) ==
    \/ author = "owner" /\ ~isInternal
    \/ author = "agent"

LoadForMessage(p, author, isInternal, isBlank) ==
    /\ MayWrite(author, isInternal)
    /\ isBlank => author = "owner"            \* nothing looks at the text of the others
    /\ Pay("posts")
    /\ Begin(p, [pc |-> "saveMessage", author |-> author, isInternal |-> isInternal,
                 isBlank |-> isBlank, read |-> request, alone |-> TRUE])
    /\ UNCHANGED <<request, thread, evaluation, heard>>

Resumes_Processing(read) ==                   \* only a request in progress is resumed
    read.status = "EN_ATTENTE_CLIENT" /\ read.previous = "EN_COURS"

Resumes_Always(read) == TRUE                  \* the status that was read is not looked at

Resumes(read) == read.status = "EN_ATTENTE_CLIENT"

SaveMessage(p) ==
    /\ post[p].pc = "saveMessage"
    /\ Cardinality(Written) < MaxMessages
    /\ LET m == Cardinality(Written) + 1
       IN  /\ thread' = [thread EXCEPT ![m] =
                 [author |-> post[p].author, isInternal |-> post[p].isInternal,
                  isWithdrawn |-> FALSE, isBlank |-> post[p].isBlank,
                  wait |-> IF Waiting THEN request.waits ELSE 0,
                  read |-> post[p].read.status, lost |-> FALSE]]
           /\ post' = [post EXCEPT ![p] =
                 [pc |-> IF post[p].author = "owner"
                         THEN IF Resumes(post[p].read) THEN "reply" ELSE "done"
                         ELSE "emit",
                  author |-> post[p].author, message |-> m, read |-> post[p].read,
                  alone |-> post[p].alone]]
    /\ UNCHANGED <<request, evaluation, heard, talkBudget>>

(* transitions.apply of CLIENT_REPLY with the message as its note, in a         *)
(* transaction of its own: refused unless the request waits and knows where it  *)
(* came from, and when the note is blank (NOTE_REQUIRED).  A refusal and any     *)
(* other failure are logged and forgotten: the caller is told of a success.    *)
Resume(row) == [row EXCEPT !.status = resolveClientReplyTarget(row.previous), !.previous = NULL]

Resumable(row) == row.status = "EN_ATTENTE_CLIENT" /\ row.previous # NULL

Reply(p) ==
    /\ post[p].pc = "reply"
    /\ LET m == post[p].message
           accepted == Resumable(request) /\ ~thread[m].isBlank
       IN  \/ /\ accepted
              /\ request' = Resume(request)
              /\ heard' = [heard EXCEPT !.answered = @ \cup
                    {[asked |-> post[p].read.waits, ended |-> request.waits,
                      alone |-> post[p].alone]}]
              /\ UNCHANGED thread
           \/ /\ ~accepted
              /\ UNCHANGED <<request, thread, heard>>
           \/ /\ thread' = [thread EXCEPT ![m].lost = TRUE]   \* the transaction fails
              /\ UNCHANGED <<request, heard>>
    /\ post' = [post EXCEPT ![p].pc = "done"]
    /\ UNCHANGED <<evaluation, talkBudget>>

Emit_Wrong(p) ==                              \* internal messages are announced too
    /\ post[p].pc = "emit"
    /\ heard' = [heard EXCEPT !.toClient = @ \cup {post[p].message}]
    /\ post' = [post EXCEPT ![p].pc = "done"]
    /\ UNCHANGED <<request, thread, evaluation, talkBudget>>

Emit(p) ==
    /\ post[p].pc = "emit"
    /\ LET m == post[p].message
       IN  heard' = IF thread[m].isInternal
                    THEN [heard EXCEPT !.internal = @ \cup {m}]
                    ELSE [heard EXCEPT !.toClient = @ \cup {m}]
    /\ post' = [post EXCEPT ![p].pc = "done"]
    /\ UNCHANGED <<request, thread, evaluation, talkBudget>>

Answered(p) ==
    /\ post[p].pc = "done"
    /\ End(p)
    /\ UNCHANGED <<request, thread, evaluation, heard, talkBudget>>

(* MessagesService.withdraw, by the author.                                 *)
Withdraw(m, author) ==
    /\ m \in Written
    /\ thread[m].author = author
    /\ ~thread[m].isWithdrawn
    /\ Pay("posts")
    /\ thread' = [thread EXCEPT ![m].isWithdrawn = TRUE]
    /\ UNCHANGED <<request, evaluation, post, heard>>

-----------------------------------------------------------------------------
(* EvaluationsService.submit.  The request is the key of the table: saving an  *)
(* evaluation that exists by then updates it.                               *)
NoEvaluation_Wrong == TRUE                    \* the check is forgotten

NoEvaluation == evaluation = NULL

LoadForEvaluation(p, score) ==
    /\ request.status = "CLOTUREE"
    /\ NoEvaluation
    /\ Pay("scores")
    /\ Begin(p, [pc |-> "saveEvaluation", author |-> "owner", score |-> score, alone |-> TRUE])
    /\ UNCHANGED <<request, thread, evaluation, heard>>

SaveEvaluation(p) ==
    /\ post[p].pc = "saveEvaluation"
    /\ evaluation' = [score   |-> post[p].score,
                      altered |-> evaluation # NULL /\ (evaluation.altered \/ post[p].alone),
                      lost    |-> evaluation # NULL /\ evaluation.lost]
    /\ post' = [post EXCEPT ![p].pc = IF post[p].score = "low" THEN "alert" ELSE "done"]
    /\ UNCHANGED <<request, thread, heard, talkBudget>>

Alert(p) ==
    /\ post[p].pc = "alert"
    /\ heard' = [heard EXCEPT !.low = @ + 1]
    /\ post' = [post EXCEPT ![p].pc = "done"]
    /\ UNCHANGED <<request, thread, evaluation, talkBudget>>

-----------------------------------------------------------------------------
(* The API stops before the end of a call: what was saved stays, the rest is   *)
(* never done.                                                             *)
Interrupt(p) ==
    /\ post[p].pc \in {"saveMessage", "reply", "emit", "saveEvaluation", "alert"}
    /\ thread' = IF post[p].pc \in {"reply", "emit"}
                 THEN [thread EXCEPT ![post[p].message].lost = TRUE] ELSE thread
    /\ evaluation' = IF post[p].pc = "alert" THEN [evaluation EXCEPT !.lost = TRUE] ELSE evaluation
    /\ End(p)
    /\ UNCHANGED <<request, heard, talkBudget>>

(* Somebody moves the request meanwhile, the owner by a direct answer included. *)
Move(code) ==
    /\ code # "CLIENT_REPLY"
    /\ request.status \in TRANSITIONS[code].from
    /\ Pay("moves")
    /\ LET to == TRANSITIONS[code].to
       IN  request' = IF to = "EN_ATTENTE_CLIENT"
                      THEN [status |-> to, previous |-> request.status, waits |-> request.waits + 1]
                      ELSE [request EXCEPT !.status = to]
    /\ UNCHANGED <<thread, evaluation, post, heard>>

DirectReply ==
    /\ Resumable(request)
    /\ Pay("posts")
    /\ request' = Resume(request)
    /\ post' = [q \in Posts |-> IF q \in OwnCalls THEN [post[q] EXCEPT !.alone = FALSE]
                               ELSE post[q]]
    /\ UNCHANGED <<thread, evaluation, heard>>

ConversationNext ==
    \/ \E p \in Posts :
         \/ \E author \in Authors, isInternal \in BOOLEAN, isBlank \in BOOLEAN :
              LoadForMessage(p, author, isInternal, isBlank)
         \/ \E score \in Scores : LoadForEvaluation(p, score)
         \/ SaveMessage(p) \/ Reply(p) \/ Emit(p) \/ Answered(p)
         \/ SaveEvaluation(p) \/ Alert(p) \/ Interrupt(p)
    \/ \E m \in MessageIds, author \in Authors : Withdraw(m, author)
    \/ \E code \in TransitionCode : Move(code)
    \/ DirectReply

ConversationSpec == ConversationInit /\ [][ConversationNext]_conversationVars

-----------------------------------------------------------------------------
Pending(pc) == {p \in Posts : post[p].pc = pc}

(* MessagesService.create: a request does not go on waiting for a client who    *)
(* has answered: a message of the owner that says something, saved during the   *)
(* wait, resumes it, unless the call read the request before the wait began,    *)
(* stopped or failed afterwards (the client is told of a success all the same). *)
(* A message of blanks is saved and resumes nothing, where T13 to T15 of         *)
(* docs/cdc/04 ask for no more than a message of the client.                   *)
AnswersResume ==
    \A m \in Written :
        /\ thread[m].author = "owner" /\ ~thread[m].isBlank
        /\ Waiting
        /\ thread[m].wait = request.waits
        => \/ thread[m].read # "EN_ATTENTE_CLIENT"
           \/ thread[m].lost
           \/ \E p \in Pending("reply") : post[p].message = m

(* An answer ends the wait it was written for, and not a later one, unless     *)
(* the owner has two calls in flight: the status compared is the same, the    *)
(* wait is not.                                                            *)
AnswersEndTheirWait ==
    \A a \in heard.answered : a.alone => a.asked = a.ended

(* One evaluation per request (the first one stays), and a low one has alerted *)
(* the managers, unless two submissions overlapped or the call was           *)
(* interrupted after the evaluation was saved.                              *)
OneEvaluation ==
    evaluation # NULL =>
        /\ ~evaluation.altered
        /\ evaluation.score = "low" =>
              heard.low > 0 \/ evaluation.lost \/ Pending("alert") # {}
=============================================================================
