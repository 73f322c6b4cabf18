------------------------ MODULE RequestPage_proofs ------------------------
(***************************************************************************)
(* The page of a request.  Its conversation: a client's answer resumes the    *)
(* request and ends the wait it answers, and a request keeps its evaluation,  *)
(* for any number of overlapping calls.  Its panels: what they offer, the     *)
(* API accepts, for any number of users.  Beside them, the parts around the     *)
(* engine keep their types together.                                        *)
(***************************************************************************)
EXTENDS MCServices, Portal_proofs, Notifications_proofs, FiniteSetTheorems, TLAPS

-----------------------------------------------------------------------------
(* The conversation.                                                         *)
RequestRow == [status : RequestStatus, previous : CLIENT_REPLY_TARGETS \cup {NULL}, waits : Nat]

(* What a call may be doing: writing a message, sending it, rating.            *)
Writing == [pc : {"saveMessage"}, author : Authors, isInternal : BOOLEAN, isBlank : BOOLEAN,
            read : RequestRow, alone : BOOLEAN]
Sending == [pc : {"reply", "emit", "done"}, author : Authors, message : MessageIds, read : RequestRow,
            alone : BOOLEAN]
Rating  == [pc : {"saveEvaluation", "alert", "done"}, author : {"owner"}, score : Scores,
            alone : BOOLEAN]
Work    == {NoPost} \cup Writing \cup Sending \cup Rating

ReplyGiven == [asked : Nat, ended : Nat, alone : BOOLEAN]

TalkTyped ==
    /\ request \in RequestRow
    /\ thread \in [MessageIds -> Message \cup {NULL}]
    /\ evaluation \in Evaluation \cup {NULL}
    /\ post \in [Posts -> Work]
    /\ heard \in [internal : SUBSET MessageIds, toClient : SUBSET MessageIds, low : Nat,
                  answered : SUBSET ReplyGiven]

(* A request that waits knows where to resume; no message was saved in a wait   *)
(* to come.                                                                *)
Waits ==
    /\ Waiting => request.previous # NULL
    /\ \A m \in MessageIds : thread[m] # NULL => thread[m].wait <= request.waits

(* A call of the owner that is alone has no other beside it.                  *)
AloneTalking ==
    \A p, q \in Posts : p # q /\ p \in OwnCalls /\ q \in OwnCalls => ~post[p].alone

(* A call about to resume has read a wait; when it is alone nothing else can    *)
(* have ended that wait.                                                   *)
AnsweringAt(p) ==
    /\ post[p].pc = "reply" =>
          post[p].author = "owner" /\ post[p].read.status = "EN_ATTENTE_CLIENT"
    /\ /\ post[p].pc \in {"saveMessage", "reply"}
       /\ post[p].author = "owner" /\ post[p].alone
       /\ post[p].read.status = "EN_ATTENTE_CLIENT"
       => Waiting /\ request.waits = post[p].read.waits

EvaluatedAt(p) ==
    /\ post[p].pc = "saveEvaluation" /\ post[p].alone => evaluation = NULL
    /\ post[p].pc = "alert" => evaluation # NULL

(* What a call has to send is in the table.                                  *)
SavedAt(p) == post[p].pc \in {"reply", "emit"} => thread[post[p].message] # NULL

Answering == \A p \in Posts : AnsweringAt(p)
Evaluated == \A p \in Posts : EvaluatedAt(p)
Saved     == \A p \in Posts : SavedAt(p)

ConversationInv ==
    /\ TalkTyped /\ Waits /\ AloneTalking /\ Answering /\ Evaluated /\ Saved
    /\ AnswersResume /\ AnswersEndTheirWait /\ OneEvaluation

-----------------------------------------------------------------------------
LEMMA Kinds ==
    ASSUME NEW w \in Work
    PROVE  /\ w.pc = "saveMessage" => w \in Writing
           /\ w.pc \in {"reply", "emit"} => w \in Sending
           /\ w.pc \in {"saveEvaluation", "alert"} => w \in Rating
           /\ w.pc = "done" => w \in Sending \cup Rating
           /\ w.pc = "idle" => w = NoPost
           /\ w # NoPost => w \in Writing \cup Sending \cup Rating
  BY DEF Work, NoPost, Writing, Sending, Rating

(* Only an answer of the client ends a wait; what can be suspended can resume.  *)
LEMMA Table ==
    ASSUME NEW code \in TransitionCode, code # "CLIENT_REPLY"
    PROVE  /\ "EN_ATTENTE_CLIENT" \notin TRANSITIONS[code].from
           /\ TRANSITIONS[code].to \in RequestStatus
           /\ TRANSITIONS[code].to = "EN_ATTENTE_CLIENT" =>
                 TRANSITIONS[code].from \subseteq CLIENT_REPLY_TARGETS
  BY DEF TransitionCode, TRANSITIONS, TransitionDef, RequestStatus, CLIENT_REPLY_TARGETS

LEMMA ResumeFacts ==
    ASSUME NEW r \in RequestRow, Resumable(r)
    PROVE  /\ Resume(r) \in RequestRow
           /\ Resume(r).status # "EN_ATTENTE_CLIENT"
           /\ Resume(r).waits = r.waits
  BY ConversationNull
     DEF Resumable, Resume, resolveClientReplyTarget, RequestRow, CLIENT_REPLY_TARGETS, RequestStatus

LEMMA FreshMessage ==
    ASSUME Cardinality(Written) < MaxMessages
    PROVE  Cardinality(Written) + 1 \in MessageIds
  <1>1. IsFiniteSet(1 .. MaxMessages)
    BY ConversationAssumption, FS_Interval
  <1>2. Cardinality(Written) \in Nat
    BY <1>1, FS_Subset, FS_CardinalityType DEF Written, MessageIds
  <1> QED BY <1>2, ConversationAssumption DEF MessageIds

LEMMA TalkStarts == ConversationInit => ConversationInv
  <1> SUFFICES ASSUME ConversationInit PROVE ConversationInv
    OBVIOUS
  <1>1. TalkTyped
    BY DEF ConversationInit, TalkTyped, RequestRow, RequestStatus, Work
  <1>2. \A p \in Posts : post[p].pc = "idle"
    BY DEF ConversationInit, NoPost
  <1>3. Waits /\ AnswersResume
    BY DEF ConversationInit, Waits, Waiting, AnswersResume, Written
  <1>4. AloneTalking /\ Answering /\ Evaluated /\ Saved
    BY <1>2 DEF AloneTalking, OwnCalls, Answering, Evaluated, Saved, AnsweringAt, EvaluatedAt, SavedAt
  <1>5. AnswersEndTheirWait /\ OneEvaluation
    BY DEF ConversationInit, AnswersEndTheirWait, OneEvaluation
  <1> QED BY <1>1, <1>3, <1>4, <1>5 DEF ConversationInv

-----------------------------------------------------------------------------
(* What a step leaves of a call it does not advance: it may not be alone any    *)
(* more.                                                                   *)
Kept(q) ==
    /\ post'[q].pc = post[q].pc
    /\ post[q].pc # "idle" =>
          post'[q].author = post[q].author /\ (post'[q].alone => post[q].alone)
    /\ post[q].pc \in {"saveMessage", "reply", "emit"} => post'[q].read = post[q].read
    /\ post[q].pc \in {"reply", "emit"} => post'[q].message = post[q].message

LEMMA CrowdedIsKept ==
    ASSUME NEW q \in Posts, post[q] \in Work, post[q].pc # "idle",
           post'[q] = [post[q] EXCEPT !.alone = FALSE]
    PROVE  Kept(q) /\ post'[q] \in Work /\ ~post'[q].alone
  <1>1. post[q] \in Writing \cup Sending \cup Rating
    BY Kinds DEF NoPost
  <1>2. CASE post[q] \in Writing
    BY <1>2 DEF Kept, Work, Writing
  <1>3. CASE post[q] \in Sending
    BY <1>3 DEF Kept, Work, Sending
  <1>4. CASE post[q] \in Rating
    BY <1>4 DEF Kept, Work, Rating
  <1> QED BY <1>1, <1>2, <1>3, <1>4

(* A call that starts meets the others of its author: none of them is alone      *)
(* any more.                                                               *)
LEMMA BeginFacts ==
    ASSUME TalkTyped, AloneTalking, NEW p \in Posts, NEW work \in Writing \cup Rating, Begin(p, work)
    PROVE  /\ post' \in [Posts -> Work]
           /\ post'[p] = [work EXCEPT !.alone = OwnCalls = {}]
           /\ post[p].pc = "idle"
           /\ \A q \in Posts \ {p} : Kept(q)
           /\ AloneTalking'
  <1>1. /\ post'[p] = [work EXCEPT !.alone = OwnCalls = {}]
        /\ post[p].pc = "idle"
        /\ \A q \in Posts \ {p} :
              post'[q] = IF q \in OwnCalls /\ work.author = "owner"
                         THEN [post[q] EXCEPT !.alone = FALSE] ELSE post[q]
        /\ post' = [q \in Posts |-> post'[q]]
    BY DEF Begin, NoPost
  <1>2. post'[p] \in Work /\ post'[p].author = work.author /\ post'[p].pc # "idle"
        /\ post'[p].alone = (OwnCalls = {})
    <2>1. CASE work \in Writing
      BY <1>1, <2>1 DEF Writing, Work
    <2>2. CASE work \in Rating
      BY <1>1, <2>2 DEF Rating, Work
    <2> QED BY <2>1, <2>2
  <1>3. ASSUME NEW q \in Posts \ {p} PROVE post'[q] \in Work /\ Kept(q)
    <2>1. CASE q \in OwnCalls /\ work.author = "owner"
      BY <1>1, <2>1, CrowdedIsKept DEF TalkTyped, OwnCalls
    <2>2. CASE ~(q \in OwnCalls /\ work.author = "owner")
      BY <1>1, <2>2 DEF TalkTyped, Kept
    <2> QED BY <2>1, <2>2
  <1>4. AloneTalking'
    <2> SUFFICES ASSUME NEW q \in Posts, NEW r \in Posts, q # r,
                        q \in OwnCalls', r \in OwnCalls'
                 PROVE  ~post'[q].alone
      BY DEF AloneTalking
    <2>1. CASE q = p
      <3>1. r \in OwnCalls
        BY <1>3, <2>1 DEF OwnCalls, Kept
      <3> QED BY <1>2, <2>1, <3>1
    <2>2. CASE q # p /\ r = p
      <3>1. q \in OwnCalls /\ work.author = "owner"
        BY <1>2, <1>3, <2>2 DEF OwnCalls, Kept
      <3> QED BY <1>1, <2>2, <3>1, CrowdedIsKept DEF TalkTyped, OwnCalls
    <2>3. CASE q # p /\ r # p
      BY <1>3, <2>3 DEF AloneTalking, OwnCalls, Kept
    <2> QED BY <2>1, <2>2, <2>3
  <1> QED BY <1>1, <1>2, <1>3, <1>4

(* The other steps end a call or leave it its author, and make none alone.     *)
LEMMA AloneKept ==
    ASSUME AloneTalking,
           \A q \in Posts :
              \/ post'[q].pc = "idle"
              \/ /\ post[q].pc # "idle"
                 /\ post'[q].author = post[q].author
                 /\ post'[q].alone => post[q].alone
    PROVE  AloneTalking'
  BY DEF AloneTalking, OwnCalls

LEMMA CallKept ==
    ASSUME NEW q \in Posts, Kept(q), post[q] \in Work
    PROVE  /\ AnsweringAt(q) /\ (Waiting => Waiting' /\ request'.waits = request.waits) =>
                 AnsweringAt(q)'
           /\ EvaluatedAt(q) /\ evaluation' = evaluation => EvaluatedAt(q)'
           /\ SavedAt(q) /\ (\A m \in MessageIds : thread[m] # NULL => thread'[m] # NULL) =>
                 SavedAt(q)'
  <1>1. post[q].pc \in {"reply", "emit"} => post[q].message \in MessageIds
    BY Kinds DEF Sending
  <1> QED BY <1>1 DEF Kept, AnsweringAt, EvaluatedAt, SavedAt

(* The messages, the waits and the answers under way stay what they are.       *)
LEMMA ResumeKept ==
    ASSUME AnswersResume, thread' = thread, request' = request,
           \A q \in Posts : post[q].pc = "reply" =>
              post'[q].pc = "reply" /\ post'[q].message = post[q].message
    PROVE  AnswersResume'
  BY DEF AnswersResume, Written, Waiting, Pending

(* A message keeps its author, what was read before it and its wait.           *)
MessageKept(m) ==
    /\ thread'[m] # NULL <=> thread[m] # NULL
    /\ thread[m] # NULL =>
          /\ thread'[m].author = thread[m].author /\ thread'[m].wait = thread[m].wait
          /\ thread'[m].read = thread[m].read /\ (thread[m].lost => thread'[m].lost)
          /\ thread'[m].isBlank = thread[m].isBlank

(* The transition a message should have brought is given up.                   *)
LEMMA LostFacts ==
    ASSUME TalkTyped, NEW m \in MessageIds, thread[m] # NULL,
           thread' = [thread EXCEPT ![m].lost = TRUE]
    PROVE  /\ thread' \in [MessageIds -> Message \cup {NULL}]
           /\ \A n \in MessageIds : MessageKept(n)
           /\ thread'[m].lost
  <1>1. thread[m] \in Message /\ thread \in [MessageIds -> Message \cup {NULL}]
    BY DEF TalkTyped
  <1>2. PICK after : after = [thread[m] EXCEPT !.lost = TRUE]
    OBVIOUS
  <1>3. /\ after \in Message /\ after.lost /\ after.author = thread[m].author
        /\ after.wait = thread[m].wait /\ after.read = thread[m].read
        /\ after.isBlank = thread[m].isBlank
    BY <1>1, <1>2 DEF Message
  <1>4. thread' = [thread EXCEPT ![m] = after]
    BY <1>2
  <1>5. thread'[m] = after /\ \A n \in MessageIds \ {m} : thread'[n] = thread[n]
    BY <1>1, <1>4
  <1>6. thread' \in [MessageIds -> Message \cup {NULL}]
    BY <1>1, <1>3, <1>4
  <1>7. \A n \in MessageIds : MessageKept(n)
    BY <1>1, <1>3, <1>5, ConversationNull DEF MessageKept
  <1> QED BY <1>3, <1>5, <1>6, <1>7

LEMMA ThreadKept ==
    ASSUME AnswersResume, Waits, request' = request, \A m \in MessageIds : MessageKept(m),
           \A q \in Posts : post[q].pc = "reply" =>
              \/ post'[q].pc = "reply" /\ post'[q].message = post[q].message
              \/ thread'[post[q].message].lost
    PROVE  AnswersResume' /\ Waits'
  <1>1. AnswersResume'
    <2> SUFFICES ASSUME NEW m \in MessageIds, thread'[m] # NULL, thread'[m].author = "owner",
                        ~thread'[m].isBlank, Waiting, thread'[m].wait = request.waits,
                        thread'[m].read = "EN_ATTENTE_CLIENT", ~thread'[m].lost
                 PROVE  \E q \in Posts : post'[q].pc = "reply" /\ post'[q].message = m
      BY DEF AnswersResume, Written, Pending, Waiting
    <2>1. PICK q \in Posts : post[q].pc = "reply" /\ post[q].message = m
      BY DEF AnswersResume, Written, Pending, MessageKept
    <2> QED BY <2>1
  <1>2. Waits'
    BY DEF Waits, Waiting, MessageKept
  <1> QED BY <1>1, <1>2

LEMMA EvaluationKept ==
    ASSUME OneEvaluation, evaluation' = evaluation, heard'.low = heard.low,
           \A q \in Posts : post[q].pc = "alert" => post'[q].pc = "alert"
    PROVE  OneEvaluation'
  BY DEF OneEvaluation, Pending

LEMMA TalkSteps == ConversationInv /\ [ConversationNext]_conversationVars => ConversationInv'
  <1> SUFFICES ASSUME ConversationInv, [ConversationNext]_conversationVars
               PROVE  ConversationInv'
    OBVIOUS
  <1>0. /\ TalkTyped /\ Waits /\ AloneTalking /\ Answering /\ Evaluated /\ Saved
        /\ AnswersResume /\ AnswersEndTheirWait /\ OneEvaluation
        /\ \A q \in Posts : post[q] \in Work /\ AnsweringAt(q) /\ EvaluatedAt(q) /\ SavedAt(q)
    BY DEF ConversationInv, TalkTyped, Answering, Evaluated, Saved
  <1>1. ASSUME NEW p \in Posts, NEW author \in Authors, NEW isInternal \in BOOLEAN,
               NEW isBlank \in BOOLEAN, LoadForMessage(p, author, isInternal, isBlank)
        PROVE  ConversationInv'
    <2> DEFINE work == [pc |-> "saveMessage", author |-> author, isInternal |-> isInternal,
                        isBlank |-> isBlank, read |-> request, alone |-> TRUE]
    <2>1. /\ work \in Writing /\ Begin(p, work)
          /\ UNCHANGED <<request, thread, evaluation, heard>>
      BY <1>0, <1>1 DEF LoadForMessage, Writing, TalkTyped
    <2>2. /\ post' \in [Posts -> Work]
          /\ post'[p] = [work EXCEPT !.alone = OwnCalls = {}]
          /\ post[p].pc = "idle"
          /\ \A q \in Posts \ {p} : Kept(q)
          /\ AloneTalking'
      <3> HIDE DEF work
      <3> QED BY <1>0, <2>1, BeginFacts
    <2>3. post'[p].pc = "saveMessage" /\ post'[p].read = request
      BY <2>2
    <2>4. AnsweringAt(p)' /\ EvaluatedAt(p)' /\ SavedAt(p)'
      BY <2>1, <2>3 DEF AnsweringAt, EvaluatedAt, SavedAt, Waiting
    <2>5. \A q \in Posts \ {p} : AnsweringAt(q)' /\ EvaluatedAt(q)' /\ SavedAt(q)'
      BY <1>0, <2>1, <2>2, CallKept DEF Waiting
    <2>6. AnswersResume' /\ OneEvaluation'
      BY <1>0, <2>1, <2>2, ResumeKept, EvaluationKept DEF Kept
    <2>7. TalkTyped' /\ Waits' /\ AnswersEndTheirWait'
      BY <1>0, <2>1, <2>2 DEF TalkTyped, Waits, Waiting, AnswersEndTheirWait
    <2> QED BY <2>2, <2>4, <2>5, <2>6, <2>7 DEF ConversationInv, Answering, Evaluated, Saved
  <1>2. ASSUME NEW p \in Posts, NEW score \in Scores, LoadForEvaluation(p, score)
        PROVE  ConversationInv'
    <2> DEFINE work == [pc |-> "saveEvaluation", author |-> "owner", score |-> score,
                        alone |-> TRUE]
    <2>1. /\ work \in Rating /\ Begin(p, work) /\ evaluation = NULL
          /\ UNCHANGED <<request, thread, evaluation, heard>>
      BY <1>2 DEF LoadForEvaluation, NoEvaluation, Rating
    <2>2. /\ post' \in [Posts -> Work]
          /\ post'[p] = [work EXCEPT !.alone = OwnCalls = {}]
          /\ post[p].pc = "idle"
          /\ \A q \in Posts \ {p} : Kept(q)
          /\ AloneTalking'
      <3> HIDE DEF work
      <3> QED BY <1>0, <2>1, BeginFacts
    <2>3. post'[p].pc = "saveEvaluation"
      BY <2>2
    <2>4. AnsweringAt(p)' /\ EvaluatedAt(p)' /\ SavedAt(p)'
      BY <2>1, <2>3 DEF AnsweringAt, EvaluatedAt, SavedAt
    <2>5. \A q \in Posts \ {p} : AnsweringAt(q)' /\ EvaluatedAt(q)' /\ SavedAt(q)'
      BY <1>0, <2>1, <2>2, CallKept DEF Waiting
    <2>6. AnswersResume' /\ OneEvaluation'
      BY <1>0, <2>1, <2>2, ResumeKept, EvaluationKept DEF Kept
    <2>7. TalkTyped' /\ Waits' /\ AnswersEndTheirWait'
      BY <1>0, <2>1, <2>2 DEF TalkTyped, Waits, Waiting, AnswersEndTheirWait
    <2> QED BY <2>2, <2>4, <2>5, <2>6, <2>7 DEF ConversationInv, Answering, Evaluated, Saved
  <1>3. ASSUME NEW p \in Posts, SaveMessage(p) PROVE ConversationInv'
    <2> DEFINE m == Cardinality(Written) + 1
               sent == [author |-> post[p].author, isInternal |-> post[p].isInternal,
                        isWithdrawn |-> FALSE, isBlank |-> post[p].isBlank,
                        wait |-> IF Waiting THEN request.waits ELSE 0,
                        read |-> post[p].read.status, lost |-> FALSE]
               next == [pc |-> IF post[p].author = "owner"
                               THEN IF Resumes(post[p].read) THEN "reply" ELSE "done"
                               ELSE "emit",
                        author |-> post[p].author, message |-> m, read |-> post[p].read,
                        alone |-> post[p].alone]
    <2>1. /\ post[p] \in Writing /\ post[p].pc = "saveMessage" /\ m \in MessageIds
          /\ thread' = [thread EXCEPT ![m] = sent] /\ post' = [post EXCEPT ![p] = next]
          /\ UNCHANGED <<request, evaluation, heard>>
      BY <1>0, <1>3, Kinds, FreshMessage DEF SaveMessage
    <2>2. sent \in Message /\ next \in Sending
      BY <1>0, <2>1 DEF TalkTyped, Writing, Sending, Message, RequestRow
    <2> HIDE DEF m
    <2>3. /\ thread' \in [MessageIds -> Message \cup {NULL}]
          /\ thread'[m] = sent /\ thread'[m] # NULL
          /\ \A n \in MessageIds \ {m} : thread'[n] = thread[n]
          /\ post'[p] = next /\ \A q \in Posts \ {p} : post'[q] = post[q] /\ Kept(q)
          /\ post' \in [Posts -> Work]
      <3> HIDE DEF sent, next
      <3> QED BY <1>0, <2>1, <2>2, ConversationNull DEF TalkTyped, Work, Kept
    <2>4. TalkTyped'
      BY <1>0, <2>1, <2>3 DEF TalkTyped
    <2>5. Waits'
      BY <1>0, <2>1, <2>2, <2>3 DEF TalkTyped, Waits, Waiting, RequestRow, Message
    <2>6. AloneTalking'
      BY <1>0, <2>1, <2>3, AloneKept
    <2>7. /\ post'[p].author = post[p].author /\ post'[p].alone = post[p].alone
          /\ post'[p].read = post[p].read /\ post'[p].message = m
          /\ post'[p].pc \in {"reply", "emit", "done"}
          /\ post'[p].pc = "reply" <=> post[p].author = "owner" /\ Resumes(post[p].read)
      BY <2>3
    <2>8. AnsweringAt(p)' /\ EvaluatedAt(p)' /\ SavedAt(p)'
      BY <1>0, <2>1, <2>3, <2>7 DEF AnsweringAt, EvaluatedAt, SavedAt, Waiting, Resumes
    <2>9. \A q \in Posts \ {p} : AnsweringAt(q)' /\ EvaluatedAt(q)' /\ SavedAt(q)'
      BY <1>0, <2>1, <2>3, CallKept DEF Waiting
    <2>10. OneEvaluation' /\ AnswersEndTheirWait'
      BY <1>0, <2>1, <2>3, EvaluationKept DEF AnswersEndTheirWait
    <2>11. AnswersResume'
      <3> SUFFICES ASSUME NEW n \in MessageIds, thread'[n] # NULL, thread'[n].author = "owner",
                          ~thread'[n].isBlank, Waiting, thread'[n].wait = request.waits,
                          thread'[n].read = "EN_ATTENTE_CLIENT", ~thread'[n].lost
                   PROVE  \E q \in Posts : post'[q].pc = "reply" /\ post'[q].message = n
        BY <2>1 DEF AnswersResume, Written, Pending, Waiting
      <3>1. CASE n = m
        BY <2>3, <2>7, <3>1 DEF Resumes
      <3>2. CASE n # m
        <4>1. PICK q \in Posts : post[q].pc = "reply" /\ post[q].message = n
          BY <1>0, <2>3, <3>2 DEF AnswersResume, Written, Pending
        <4>2. q # p
          BY <2>1, <4>1
        <4> QED BY <2>3, <4>1, <4>2
      <3> QED BY <3>1, <3>2
    <2> QED BY <2>4, <2>5, <2>6, <2>8, <2>9, <2>10, <2>11
           DEF ConversationInv, Answering, Evaluated, Saved
  <1>4. ASSUME NEW p \in Posts, Reply(p) PROVE ConversationInv'
    <2>1. /\ post[p] \in Sending /\ post[p].pc = "reply" /\ post[p].author = "owner"
          /\ post[p].read.status = "EN_ATTENTE_CLIENT"
          /\ post' = [post EXCEPT ![p].pc = "done"] /\ UNCHANGED evaluation
          /\ post[p].message \in MessageIds /\ thread[post[p].message] # NULL
      BY <1>0, <1>4, Kinds DEF Reply, AnsweringAt, Sending, SavedAt
    <2>2. /\ post' \in [Posts -> Work]
          /\ post'[p].pc = "done" /\ post'[p].author = "owner" /\ post'[p].alone = post[p].alone
          /\ \A q \in Posts \ {p} : post'[q] = post[q] /\ Kept(q)
      BY <1>0, <2>1 DEF TalkTyped, Work, Sending, Kept
    <2>3. AloneTalking'
      BY <1>0, <2>1, <2>2, AloneKept
    <2>4. AnsweringAt(p)' /\ EvaluatedAt(p)' /\ SavedAt(p)'
      BY <2>2 DEF AnsweringAt, EvaluatedAt, SavedAt
    <2>5. ASSUME \A m \in MessageIds : thread[m] # NULL => thread'[m] # NULL
          PROVE  \A q \in Posts \ {p} : EvaluatedAt(q)' /\ SavedAt(q)'
      BY <1>0, <2>1, <2>2, <2>5, CallKept
    <2>6. \A q \in Posts : post[q].pc = "alert" => post'[q].pc = "alert"
      BY <2>1, <2>2
    <2> DEFINE m == post[p].message
               answer == [asked |-> post[p].read.waits, ended |-> request.waits,
                          alone |-> post[p].alone]
    <2>7. \/ /\ Resumable(request) /\ request' = Resume(request) /\ UNCHANGED thread
             /\ heard' = [heard EXCEPT !.answered = @ \cup {answer}]
          \/ /\ ~(Resumable(request) /\ ~thread[m].isBlank)
             /\ UNCHANGED <<request, thread, heard>>
          \/ thread' = [thread EXCEPT ![m].lost = TRUE] /\ UNCHANGED <<request, heard>>
      BY <1>4 DEF Reply
    <2>8. CASE /\ ~(Resumable(request) /\ ~thread[m].isBlank)
               /\ UNCHANGED <<request, thread, heard>>
      <3>1. ~Waiting \/ thread[m].isBlank
        BY <1>0, <2>8 DEF Resumable, Waits, Waiting
      <3>2. TalkTyped' /\ Waits' /\ AnswersEndTheirWait'
        BY <1>0, <2>1, <2>2, <2>8 DEF TalkTyped, Waits, Waiting, AnswersEndTheirWait
      <3>3. AnswersResume'
        <4> SUFFICES ASSUME NEW n \in MessageIds, thread[n] # NULL, thread[n].author = "owner",
                            ~thread[n].isBlank, Waiting, thread[n].wait = request.waits,
                            thread[n].read = "EN_ATTENTE_CLIENT", ~thread[n].lost
                     PROVE  \E q \in Posts : post'[q].pc = "reply" /\ post'[q].message = n
          BY <2>8 DEF AnswersResume, Written, Pending, Waiting
        <4>1. PICK q \in Posts : post[q].pc = "reply" /\ post[q].message = n
          BY <1>0 DEF AnswersResume, Written, Pending
        <4>2. q # p
          BY <3>1, <4>1
        <4> QED BY <2>2, <4>1, <4>2
      <3>4. \A q \in Posts \ {p} : AnsweringAt(q)'
        BY <1>0, <2>2, <2>8, CallKept DEF Waiting
      <3>5. OneEvaluation'
        BY <1>0, <2>1, <2>6, <2>8, EvaluationKept
      <3> QED BY <2>3, <2>4, <2>5, <2>8, <3>2, <3>3, <3>4, <3>5
             DEF ConversationInv, Answering, Evaluated, Saved
    <2>9. CASE thread' = [thread EXCEPT ![m].lost = TRUE] /\ UNCHANGED <<request, heard>>
      <3>1. /\ thread' \in [MessageIds -> Message \cup {NULL}]
            /\ \A n \in MessageIds : MessageKept(n)
            /\ thread'[m].lost
        BY <1>0, <2>1, <2>9, LostFacts
      <3> HIDE DEF m
      <3>2. AnswersResume' /\ Waits'
        <4>1. \A q \in Posts : post[q].pc = "reply" =>
                 \/ post'[q].pc = "reply" /\ post'[q].message = post[q].message
                 \/ thread'[post[q].message].lost
          BY <2>2, <3>1 DEF m
        <4> QED BY <1>0, <2>9, <3>1, <4>1, ThreadKept
      <3>3. TalkTyped' /\ AnswersEndTheirWait'
        BY <1>0, <2>1, <2>2, <2>9, <3>1 DEF TalkTyped, AnswersEndTheirWait
      <3>4. \A q \in Posts \ {p} : AnsweringAt(q)'
        BY <1>0, <2>2, <2>9, CallKept DEF Waiting
      <3>5. OneEvaluation'
        BY <1>0, <2>1, <2>6, <2>9, EvaluationKept
      <3> QED BY <2>3, <2>4, <2>5, <3>1, <3>2, <3>3, <3>4, <3>5
             DEF ConversationInv, Answering, Evaluated, Saved, MessageKept
    <2>10. CASE /\ Resumable(request) /\ request' = Resume(request) /\ UNCHANGED thread
               /\ heard' = [heard EXCEPT !.answered = @ \cup {answer}]
      <3>1. request' \in RequestRow /\ ~Waiting' /\ request'.waits = request.waits
        BY <1>0, <2>10, ResumeFacts DEF TalkTyped, Waiting
      <3>2. answer \in ReplyGiven /\ (answer.alone => answer.asked = answer.ended)
        BY <1>0, <2>1 DEF TalkTyped, ReplyGiven, Sending, RequestRow, AnsweringAt
      <3>3. /\ heard'.low = heard.low
            /\ heard'.answered = heard.answered \cup {answer}
            /\ heard' \in [internal : SUBSET MessageIds, toClient : SUBSET MessageIds, low : Nat,
                           answered : SUBSET ReplyGiven]
        <4> HIDE DEF answer
        <4> QED BY <1>0, <2>10, <3>2 DEF TalkTyped
      <3>4. TalkTyped' /\ AnswersEndTheirWait'
        <4> HIDE DEF answer
        <4> QED BY <1>0, <2>1, <2>2, <2>10, <3>1, <3>2, <3>3 DEF TalkTyped, AnswersEndTheirWait
      <3>5. Waits' /\ AnswersResume'
        BY <1>0, <2>1, <2>10, <3>1 DEF Waits, AnswersResume
      <3>6. \A q \in Posts \ {p} : AnsweringAt(q)'
        <4> SUFFICES ASSUME NEW q \in Posts \ {p} PROVE AnsweringAt(q)'
          OBVIOUS
        <4>1. p \in OwnCalls /\ (post[q].pc \in {"saveMessage", "reply"} /\ post[q].author = "owner"
                                   => q \in OwnCalls)
          BY <2>1 DEF OwnCalls
        <4>2. post'[q] = post[q] /\ AnsweringAt(q)
          BY <1>0, <2>2
        <4> QED BY <1>0, <4>1, <4>2 DEF AloneTalking, AnsweringAt
      <3>7. OneEvaluation'
        BY <1>0, <2>1, <2>6, <3>3, EvaluationKept
      <3> QED BY <2>3, <2>4, <2>5, <2>10, <3>4, <3>5, <3>6, <3>7
             DEF ConversationInv, Answering, Evaluated, Saved
    <2> QED BY <2>7, <2>8, <2>9, <2>10
  <1>5. ASSUME NEW p \in Posts, Emit(p) PROVE ConversationInv'
    <2>1. /\ post[p] \in Sending /\ post[p].pc = "emit" /\ post[p].message \in MessageIds
          /\ post' = [post EXCEPT ![p].pc = "done"]
          /\ UNCHANGED <<request, thread, evaluation>>
      BY <1>0, <1>5, Kinds DEF Emit, Sending
    <2>2. /\ post' \in [Posts -> Work]
          /\ post'[p].pc = "done" /\ post'[p].author = post[p].author
          /\ post'[p].alone = post[p].alone
          /\ \A q \in Posts \ {p} : post'[q] = post[q] /\ Kept(q)
      BY <1>0, <2>1 DEF TalkTyped, Work, Sending, Kept
    <2>3. /\ heard'.low = heard.low /\ heard'.answered = heard.answered
          /\ heard' \in [internal : SUBSET MessageIds, toClient : SUBSET MessageIds, low : Nat,
                         answered : SUBSET ReplyGiven]
      BY <1>0, <1>5, <2>1 DEF Emit, TalkTyped
    <2>4. TalkTyped' /\ Waits' /\ AnswersEndTheirWait'
      BY <1>0, <2>1, <2>2, <2>3 DEF TalkTyped, Waits, Waiting, AnswersEndTheirWait
    <2>5. AloneTalking'
      BY <1>0, <2>1, <2>2, AloneKept
    <2>6. AnsweringAt(p)' /\ EvaluatedAt(p)' /\ SavedAt(p)'
      BY <2>2 DEF AnsweringAt, EvaluatedAt, SavedAt
    <2>7. \A q \in Posts \ {p} : AnsweringAt(q)' /\ EvaluatedAt(q)' /\ SavedAt(q)'
      BY <1>0, <2>1, <2>2, CallKept DEF Waiting
    <2>8. AnswersResume' /\ OneEvaluation'
      BY <1>0, <2>1, <2>2, <2>3, ResumeKept, EvaluationKept
    <2> QED BY <2>4, <2>5, <2>6, <2>7, <2>8 DEF ConversationInv, Answering, Evaluated, Saved
  <1>6. ASSUME NEW p \in Posts, Answered(p) PROVE ConversationInv'
    <2>1. /\ post[p].pc = "done" /\ post' = [post EXCEPT ![p] = NoPost]
          /\ UNCHANGED <<request, thread, evaluation, heard>>
      BY <1>6 DEF Answered, End
    <2>2. /\ post' \in [Posts -> Work] /\ post'[p].pc = "idle"
          /\ \A q \in Posts \ {p} : post'[q] = post[q] /\ Kept(q)
      BY <1>0, <2>1 DEF TalkTyped, Work, NoPost, Kept
    <2>3. TalkTyped' /\ Waits' /\ AnswersEndTheirWait'
      BY <1>0, <2>1, <2>2 DEF TalkTyped, Waits, Waiting, AnswersEndTheirWait
    <2>4. AloneTalking'
      BY <1>0, <2>1, <2>2, AloneKept
    <2>5. AnsweringAt(p)' /\ EvaluatedAt(p)' /\ SavedAt(p)'
      BY <2>2 DEF AnsweringAt, EvaluatedAt, SavedAt
    <2>6. \A q \in Posts \ {p} : AnsweringAt(q)' /\ EvaluatedAt(q)' /\ SavedAt(q)'
      BY <1>0, <2>1, <2>2, CallKept DEF Waiting
    <2>7. AnswersResume' /\ OneEvaluation'
      BY <1>0, <2>1, <2>2, ResumeKept, EvaluationKept
    <2> QED BY <2>3, <2>4, <2>5, <2>6, <2>7 DEF ConversationInv, Answering, Evaluated, Saved
  <1>7. ASSUME NEW p \in Posts, SaveEvaluation(p) PROVE ConversationInv'
    <2>1. /\ post[p] \in Rating /\ post[p].pc = "saveEvaluation"
          /\ post' = [post EXCEPT ![p].pc = IF post[p].score = "low" THEN "alert" ELSE "done"]
          /\ UNCHANGED <<request, thread, heard>>
      BY <1>0, <1>7, Kinds DEF SaveEvaluation
    <2>2. /\ post' \in [Posts -> Work]
          /\ post'[p].pc = IF post[p].score = "low" THEN "alert" ELSE "done"
          /\ post'[p].author = post[p].author /\ post'[p].alone = post[p].alone
          /\ \A q \in Posts \ {p} : post'[q] = post[q] /\ Kept(q)
      BY <1>0, <2>1 DEF TalkTyped, Work, Rating, Kept
    <2>3. /\ evaluation' \in Evaluation /\ evaluation' # NULL
          /\ evaluation'.score = post[p].score
          /\ evaluation'.altered <=> evaluation # NULL /\ (evaluation.altered \/ post[p].alone)
      <3> DEFINE altered == evaluation # NULL /\ (evaluation.altered \/ post[p].alone)
                 gone == evaluation # NULL /\ evaluation.lost
      <3>1. altered \in BOOLEAN /\ gone \in BOOLEAN /\ post[p].score \in Scores
        BY <2>1 DEF Rating
      <3>2. evaluation' = [score |-> post[p].score, altered |-> altered, lost |-> gone]
        BY <1>7 DEF SaveEvaluation
      <3>3. /\ evaluation' \in Evaluation /\ evaluation'.score = post[p].score
            /\ evaluation'.altered = altered
        <4> HIDE DEF altered, gone
        <4> QED BY <3>1, <3>2 DEF Evaluation
      <3> QED BY <3>3, ConversationNull
    <2>4. TalkTyped' /\ Waits' /\ AnswersEndTheirWait'
      BY <1>0, <2>1, <2>2, <2>3 DEF TalkTyped, Waits, Waiting, AnswersEndTheirWait
    <2>5. AloneTalking'
      BY <1>0, <2>1, <2>2, AloneKept
    <2>6. AnsweringAt(p)' /\ EvaluatedAt(p)' /\ SavedAt(p)'
      BY <2>2, <2>3 DEF AnsweringAt, EvaluatedAt, SavedAt
    <2>7. \A q \in Posts \ {p} : AnsweringAt(q)' /\ SavedAt(q)'
      BY <1>0, <2>1, <2>2, CallKept DEF Waiting
    <2>8. \A q \in Posts \ {p} : EvaluatedAt(q)'
      <3> SUFFICES ASSUME NEW q \in Posts \ {p} PROVE EvaluatedAt(q)'
        OBVIOUS
      <3>1. CASE post[q].pc = "saveEvaluation"
        <4>1. post[q] \in Rating
          BY <1>0, <3>1, Kinds
        <4>2. p \in OwnCalls /\ q \in OwnCalls
          BY <2>1, <3>1, <4>1 DEF OwnCalls, Rating
        <4> QED BY <1>0, <2>2, <3>1, <4>2 DEF AloneTalking, EvaluatedAt
      <3>2. CASE post[q].pc # "saveEvaluation"
        BY <2>2, <2>3, <3>2 DEF EvaluatedAt
      <3> QED BY <3>1, <3>2
    <2>9. AnswersResume'
      BY <1>0, <2>1, <2>2, ResumeKept
    <2>10. OneEvaluation'
      BY <1>0, <2>1, <2>2, <2>3 DEF OneEvaluation, EvaluatedAt, Pending
    <2> QED BY <2>4, <2>5, <2>6, <2>7, <2>8, <2>9, <2>10
           DEF ConversationInv, Answering, Evaluated, Saved
  <1>8. ASSUME NEW p \in Posts, Alert(p) PROVE ConversationInv'
    <2>1. /\ post[p] \in Rating /\ post[p].pc = "alert"
          /\ post' = [post EXCEPT ![p].pc = "done"]
          /\ UNCHANGED <<request, thread, evaluation>>
      BY <1>0, <1>8, Kinds DEF Alert
    <2>2. /\ post' \in [Posts -> Work] /\ post'[p].pc = "done"
          /\ post'[p].author = post[p].author /\ post'[p].alone = post[p].alone
          /\ \A q \in Posts \ {p} : post'[q] = post[q] /\ Kept(q)
      BY <1>0, <2>1 DEF TalkTyped, Work, Rating, Kept
    <2>3. /\ heard'.low > 0 /\ heard'.answered = heard.answered
          /\ heard' \in [internal : SUBSET MessageIds, toClient : SUBSET MessageIds, low : Nat,
                         answered : SUBSET ReplyGiven]
      BY <1>0, <1>8 DEF Alert, TalkTyped
    <2>4. TalkTyped' /\ Waits' /\ AnswersEndTheirWait'
      BY <1>0, <2>1, <2>2, <2>3 DEF TalkTyped, Waits, Waiting, AnswersEndTheirWait
    <2>5. AloneTalking'
      BY <1>0, <2>1, <2>2, AloneKept
    <2>6. AnsweringAt(p)' /\ EvaluatedAt(p)' /\ SavedAt(p)'
      BY <2>2 DEF AnsweringAt, EvaluatedAt, SavedAt
    <2>7. \A q \in Posts \ {p} : AnsweringAt(q)' /\ EvaluatedAt(q)' /\ SavedAt(q)'
      BY <1>0, <2>1, <2>2, CallKept DEF Waiting
    <2>8. AnswersResume' /\ OneEvaluation'
      BY <1>0, <2>1, <2>2, <2>3, ResumeKept DEF OneEvaluation
    <2> QED BY <2>4, <2>5, <2>6, <2>7, <2>8 DEF ConversationInv, Answering, Evaluated, Saved
  <1>9. ASSUME NEW p \in Posts, Interrupt(p) PROVE ConversationInv'
    <2>1. /\ post[p].pc \in {"saveMessage", "reply", "emit", "saveEvaluation", "alert"}
          /\ post' = [post EXCEPT ![p] = NoPost] /\ UNCHANGED <<request, heard>>
      BY <1>9 DEF Interrupt, End
    <2>2. /\ post' \in [Posts -> Work] /\ post'[p].pc = "idle"
          /\ \A q \in Posts \ {p} : post'[q] = post[q] /\ Kept(q)
      BY <1>0, <2>1 DEF TalkTyped, Work, NoPost, Kept
    <2>3. /\ thread' \in [MessageIds -> Message \cup {NULL}]
          /\ \A m \in MessageIds : MessageKept(m)
          /\ post[p].pc = "reply" => thread'[post[p].message].lost
      <3>1. CASE post[p].pc \in {"reply", "emit"}
        <4>1. post[p].message \in MessageIds /\ thread[post[p].message] # NULL
          BY <1>0, <3>1, Kinds DEF Sending, SavedAt
        <4>2. thread' = [thread EXCEPT ![post[p].message].lost = TRUE]
          BY <1>9, <3>1 DEF Interrupt
        <4> QED BY <1>0, <4>1, <4>2, LostFacts
      <3>2. CASE post[p].pc \notin {"reply", "emit"}
        BY <1>0, <1>9, <3>2 DEF Interrupt, TalkTyped, MessageKept
      <3> QED BY <3>1, <3>2
    <2>4. /\ evaluation' \in Evaluation \cup {NULL}
          /\ evaluation' # NULL <=> evaluation # NULL
          /\ evaluation # NULL =>
                /\ evaluation'.score = evaluation.score /\ evaluation'.altered = evaluation.altered
                /\ evaluation.lost \/ post[p].pc = "alert" => evaluation'.lost
      <3>1. CASE post[p].pc = "alert"
        <4>1. evaluation \in Evaluation /\ evaluation' = [evaluation EXCEPT !.lost = TRUE]
          BY <1>0, <1>9, <3>1 DEF Interrupt, TalkTyped, EvaluatedAt
        <4>2. /\ evaluation' \in Evaluation /\ evaluation'.lost
              /\ evaluation'.score = evaluation.score /\ evaluation'.altered = evaluation.altered
          BY <4>1 DEF Evaluation
        <4> QED BY <4>1, <4>2, ConversationNull
      <3>2. CASE post[p].pc # "alert"
        BY <1>0, <1>9, <3>2 DEF Interrupt, TalkTyped
      <3> QED BY <3>1, <3>2
    <2>5. TalkTyped' /\ AnswersEndTheirWait'
      BY <1>0, <2>1, <2>2, <2>3, <2>4 DEF TalkTyped, AnswersEndTheirWait
    <2>6. AnswersResume' /\ Waits'
      BY <1>0, <2>1, <2>2, <2>3, ThreadKept
    <2>7. AloneTalking'
      BY <1>0, <2>1, <2>2, AloneKept
    <2>8. AnsweringAt(p)' /\ EvaluatedAt(p)' /\ SavedAt(p)'
      BY <2>2 DEF AnsweringAt, EvaluatedAt, SavedAt
    <2>9. \A q \in Posts \ {p} : AnsweringAt(q)' /\ SavedAt(q)'
      BY <1>0, <2>1, <2>2, <2>3, CallKept DEF Waiting, MessageKept
    <2>10. \A q \in Posts \ {p} : EvaluatedAt(q)'
      BY <1>0, <2>2, <2>4 DEF EvaluatedAt
    <2>11. OneEvaluation'
      BY <1>0, <2>1, <2>2, <2>4 DEF OneEvaluation, Pending
    <2> QED BY <2>5, <2>6, <2>7, <2>8, <2>9, <2>10, <2>11
           DEF ConversationInv, Answering, Evaluated, Saved
  <1>10. ASSUME NEW m \in MessageIds, NEW author \in Authors, Withdraw(m, author)
         PROVE  ConversationInv'
    <2>1. /\ thread[m] \in Message /\ thread' = [thread EXCEPT ![m].isWithdrawn = TRUE]
          /\ UNCHANGED <<request, evaluation, post, heard>>
      BY <1>0, <1>10 DEF Withdraw, Written, TalkTyped
    <2> DEFINE after == [thread[m] EXCEPT !.isWithdrawn = TRUE]
    <2>2. /\ after \in Message /\ after.lost = thread[m].lost /\ after.author = thread[m].author
          /\ after.wait = thread[m].wait /\ after.read = thread[m].read
          /\ after.isBlank = thread[m].isBlank
      BY <2>1 DEF Message
    <2>3. thread' = [thread EXCEPT ![m] = after]
      BY <2>1
    <2> HIDE DEF after
    <2>4. /\ thread' \in [MessageIds -> Message \cup {NULL}]
          /\ thread'[m] = after /\ \A n \in MessageIds \ {m} : thread'[n] = thread[n]
      BY <1>0, <2>2, <2>3 DEF TalkTyped
    <2>5. \A n \in MessageIds : MessageKept(n)
      BY <2>1, <2>2, <2>4, ConversationNull DEF MessageKept
    <2>6. \A q \in Posts : Kept(q)
      BY <2>1 DEF Kept
    <2>7. TalkTyped' /\ AnswersEndTheirWait' /\ AloneTalking'
      BY <1>0, <2>1, <2>4 DEF TalkTyped, AnswersEndTheirWait, AloneTalking, OwnCalls
    <2>8. AnswersResume' /\ Waits'
      BY <1>0, <2>1, <2>5, ThreadKept
    <2>9. \A q \in Posts : AnsweringAt(q)' /\ EvaluatedAt(q)' /\ SavedAt(q)'
      BY <1>0, <2>1, <2>5, <2>6, CallKept DEF Waiting, MessageKept
    <2>10. OneEvaluation'
      BY <1>0, <2>1, EvaluationKept
    <2> QED BY <2>7, <2>8, <2>9, <2>10 DEF ConversationInv, Answering, Evaluated, Saved
  <1>11. ASSUME NEW code \in TransitionCode, Move(code) PROVE ConversationInv'
    <2>1. /\ code # "CLIENT_REPLY" /\ request.status \in TRANSITIONS[code].from
          /\ UNCHANGED <<thread, evaluation, post, heard>>
      BY <1>11 DEF Move
    <2>2. ~Waiting
      BY <2>1, Table DEF Waiting
    <2>3. /\ request' \in RequestRow
          /\ Waiting' => request'.previous # NULL /\ request'.waits = request.waits + 1
          /\ request.waits <= request'.waits
      <3>1. CASE TRANSITIONS[code].to = "EN_ATTENTE_CLIENT"
        <4>1. request' = [status |-> "EN_ATTENTE_CLIENT", previous |-> request.status,
                          waits |-> request.waits + 1]
          BY <1>11, <3>1 DEF Move
        <4>2. request.status \in CLIENT_REPLY_TARGETS
          BY <2>1, <3>1, Table
        <4> QED BY <1>0, <4>1, <4>2, ConversationNull
               DEF TalkTyped, RequestRow, RequestStatus, CLIENT_REPLY_TARGETS
      <3>2. CASE TRANSITIONS[code].to # "EN_ATTENTE_CLIENT"
        BY <1>0, <1>11, <2>1, <3>2, Table DEF Move, TalkTyped, RequestRow, Waiting
      <3> QED BY <3>1, <3>2
    <2>4. TalkTyped' /\ AnswersEndTheirWait' /\ AloneTalking'
      BY <1>0, <2>1, <2>3 DEF TalkTyped, AnswersEndTheirWait, AloneTalking, OwnCalls
    <2>5. \A m \in MessageIds : thread[m] # NULL => thread[m].wait \in Nat
      BY <1>0 DEF TalkTyped, Message
    <2>6. Waits'
      BY <1>0, <2>1, <2>3, <2>5 DEF TalkTyped, RequestRow, Waits
    <2>7. AnswersResume'
      BY <1>0, <2>1, <2>3, <2>5 DEF TalkTyped, RequestRow, Waits, AnswersResume, Written
    <2>8. \A q \in Posts : Kept(q)
      BY <2>1 DEF Kept
    <2>9. \A q \in Posts : AnsweringAt(q)' /\ EvaluatedAt(q)' /\ SavedAt(q)'
      BY <1>0, <2>1, <2>2, <2>8, CallKept
    <2>10. OneEvaluation'
      BY <1>0, <2>1, EvaluationKept
    <2> QED BY <2>4, <2>6, <2>7, <2>9, <2>10 DEF ConversationInv, Answering, Evaluated, Saved
  <1>12. ASSUME DirectReply PROVE ConversationInv'
    <2>1. /\ request' = Resume(request) /\ UNCHANGED <<thread, evaluation, heard>>
          /\ post' = [q \in Posts |-> IF q \in OwnCalls THEN [post[q] EXCEPT !.alone = FALSE]
                                      ELSE post[q]]
      BY <1>12 DEF DirectReply
    <2>2. request' \in RequestRow /\ ~Waiting' /\ request'.waits = request.waits
      BY <1>0, <1>12, <2>1, ResumeFacts DEF DirectReply, TalkTyped, Waiting
    <2>3. ASSUME NEW q \in Posts
          PROVE  /\ post'[q] \in Work /\ Kept(q)
                 /\ q \in OwnCalls' => ~post'[q].alone
      <3>1. CASE q \in OwnCalls
        BY <1>0, <2>1, <3>1, CrowdedIsKept DEF OwnCalls
      <3>2. CASE q \notin OwnCalls
        BY <1>0, <2>1, <3>2 DEF Kept, OwnCalls
      <3> QED BY <3>1, <3>2
    <2>4. post' \in [Posts -> Work]
      BY <2>1, <2>3
    <2>5. TalkTyped' /\ AnswersEndTheirWait' /\ AloneTalking'
      BY <1>0, <2>1, <2>2, <2>3, <2>4 DEF TalkTyped, AnswersEndTheirWait, AloneTalking
    <2>6. Waits' /\ AnswersResume'
      BY <1>0, <2>1, <2>2 DEF Waits, AnswersResume
    <2>7. \A q \in Posts : EvaluatedAt(q)' /\ SavedAt(q)'
      BY <1>0, <2>1, <2>3, CallKept
    <2>8. \A q \in Posts : AnsweringAt(q)'
      BY <1>0, <2>3 DEF AnsweringAt, OwnCalls, Kept
    <2>9. OneEvaluation'
      BY <1>0, <2>1, <2>3, EvaluationKept DEF Kept
    <2> QED BY <2>5, <2>6, <2>7, <2>8, <2>9 DEF ConversationInv, Answering, Evaluated, Saved
  <1>13. CASE UNCHANGED conversationVars
    <2>1. UNCHANGED <<request, thread, evaluation, post, heard>>
      BY <1>13 DEF conversationVars
    <2> QED
      BY <1>0, <2>1
         DEF ConversationInv, TalkTyped, Waits, Waiting, AloneTalking, OwnCalls, Answering, AnsweringAt,
             Evaluated, EvaluatedAt, Saved, SavedAt, AnswersResume, Written, Pending,
             AnswersEndTheirWait, OneEvaluation
  <1> QED
    BY <1>1, <1>2, <1>3, <1>4, <1>5, <1>6, <1>7, <1>8, <1>9, <1>10, <1>11, <1>12, <1>13
       DEF ConversationNext

LEMMA TalkHolds == ConversationSpec => []ConversationInv
  BY TalkStarts, TalkSteps, PTL DEF ConversationSpec

-----------------------------------------------------------------------------
(* An answer of the owner read and saved during the wait, and not blank, resumes  *)
(* it, or its call failed or stopped after it was saved                       *)
(* (MessagesService.create).                                                *)
THEOREM ClientAnswersResume == ConversationSpec => []AnswersResume
  <1>1. ConversationInv => AnswersResume
    BY DEF ConversationInv
  <1> QED BY <1>1, TalkHolds, PTL

(* An answer never ends a later wait than the one it was written for, as long   *)
(* as the owner has one call in flight (MessagesService.create, apply).       *)
THEOREM AnswersEndTheWaitTheySaw == ConversationSpec => []AnswersEndTheirWait
  <1>1. ConversationInv => AnswersEndTheirWait
    BY DEF ConversationInv
  <1> QED BY <1>1, TalkHolds, PTL

(* The evaluation of a request is not replaced by a call that was alone, and a   *)
(* low one is announced (EvaluationsService.submit).                         *)
THEOREM EvaluationStays == ConversationSpec => []OneEvaluation
  <1>1. ConversationInv => OneEvaluation
    BY DEF ConversationInv
  <1> QED BY <1>1, TalkHolds, PTL

-----------------------------------------------------------------------------
(* What was announced of the thread: a message that is there, and to the client  *)
(* a public one.  Messages are numbered without a gap, so a new one takes no    *)
(* number that was announced.                                              *)
Public == {m \in Written : ~thread[m].isInternal}

HeardFits == heard.internal \subseteq Written /\ heard.toClient \subseteq Public

MessagesNumbered == \E n \in 0 .. MaxMessages : Written = 1 .. n

TalkInv == ConversationInv /\ HeardFits /\ MessagesNumbered

(* The same messages, each as public as it was.                              *)
SameMessages == Written' = Written /\ Public' = Public

SameAnnounced == heard'.internal = heard.internal /\ heard'.toClient = heard.toClient

LEMMA NewMessageIsNew ==
    ASSUME MessagesNumbered, Cardinality(Written) < MaxMessages
    PROVE  \E n \in 0 .. MaxMessages :
              Written = 1 .. n /\ Cardinality(Written) = n /\ n < MaxMessages
<1>1. PICK n \in 0 .. MaxMessages : Written = 1 .. n
  BY DEF MessagesNumbered
<1>2. Cardinality(1 .. n) = n
  BY <1>1, FS_Interval, ConversationAssumption
<1> QED  BY <1>1, <1>2

LEMMA SavedIsAnnouncedLater ==
    ASSUME TalkInv, NEW p \in Posts, SaveMessage(p)
    PROVE  HeardFits' /\ MessagesNumbered'
<1>1. PICK n \in 0 .. MaxMessages :
         Written = 1 .. n /\ Cardinality(Written) = n /\ n < MaxMessages
  BY NewMessageIsNew DEF TalkInv, SaveMessage
<1>2. PICK message :
         message = [author |-> post[p].author, isInternal |-> post[p].isInternal,
                    isWithdrawn |-> FALSE, isBlank |-> post[p].isBlank,
                    wait |-> IF Waiting THEN request.waits ELSE 0,
                    read |-> post[p].read.status, lost |-> FALSE]
  OBVIOUS
<1>3. thread' = [thread EXCEPT ![n + 1] = message] /\ heard' = heard
  BY <1>1, <1>2 DEF SaveMessage
<1>4. n \in Nat /\ MaxMessages \in Nat /\ n + 1 \in MessageIds
  BY <1>1, ConversationAssumption DEF MessageIds
<1>5. thread \in [MessageIds -> Message \cup {NULL}]
  BY DEF TalkInv, ConversationInv, TalkTyped
<1>6. message \in Message /\ message # NULL
  <2>1. post[p] \in Writing /\ request \in RequestRow
    BY Kinds DEF SaveMessage, TalkInv, ConversationInv, TalkTyped
  <2>2. /\ post[p].author \in Authors /\ post[p].isInternal \in BOOLEAN /\ post[p].isBlank \in BOOLEAN
        /\ post[p].read.status \in RequestStatus /\ request.waits \in Nat
    BY <2>1 DEF Writing, RequestRow
  <2>3. PICK wait : wait = IF Waiting THEN request.waits ELSE 0
    OBVIOUS
  <2>4. wait \in Nat
    BY <2>2, <2>3
  <2>5. message = [author |-> post[p].author, isInternal |-> post[p].isInternal,
                   isWithdrawn |-> FALSE, isBlank |-> post[p].isBlank, wait |-> wait,
                   read |-> post[p].read.status,
                   lost |-> FALSE]
    BY <1>2, <2>3
  <2>6. message \in Message
    BY <2>2, <2>4, <2>5 DEF Message
  <2> QED  BY <2>6, ConversationNull
<1>7. /\ thread'[n + 1] = message
      /\ \A m \in MessageIds \ {n + 1} : thread'[m] = thread[m]
  BY <1>3, <1>4, <1>5
<1>8. Written' = Written \cup {n + 1} /\ n + 1 \notin Written
  BY <1>1, <1>4, <1>6, <1>7 DEF Written
<1>9. Public \subseteq Public'
  BY <1>7, <1>8 DEF Public, Written
<1>10. Written' = 1 .. (n + 1) /\ n + 1 \in 0 .. MaxMessages
  BY <1>1, <1>4, <1>8
<1> QED  BY <1>3, <1>8, <1>9, <1>10 DEF TalkInv, HeardFits, MessagesNumbered

(* Nothing announced, nothing written: what was announced is still there.       *)
LEMMA QuietKeeps ==
    ASSUME TalkInv, SameMessages, SameAnnounced
    PROVE  HeardFits' /\ MessagesNumbered'
BY DEF TalkInv, SameMessages, SameAnnounced, HeardFits, MessagesNumbered

LEMMA ChangedMessageIsThere ==
    ASSUME TalkInv, NEW m \in MessageIds, thread[m] # NULL, NEW message, message # NULL,
           message.isInternal = thread[m].isInternal, thread' = [thread EXCEPT ![m] = message]
    PROVE  SameMessages
<1>1. thread \in [MessageIds -> Message \cup {NULL}]
  BY DEF TalkInv, ConversationInv, TalkTyped
<1>2. thread'[m] = message /\ \A n \in MessageIds \ {m} : thread'[n] = thread[n]
  BY <1>1
<1> QED  BY <1>2 DEF SameMessages, Public, Written

LEMMA EmitAnnouncesWhatIsThere ==
    ASSUME TalkInv, NEW p \in Posts, Emit(p)
    PROVE  HeardFits' /\ MessagesNumbered'
<1>1. /\ post[p] \in Work /\ post[p].pc = "emit" /\ SavedAt(p)
      /\ heard \in [internal : SUBSET MessageIds, toClient : SUBSET MessageIds, low : Nat,
                    answered : SUBSET ReplyGiven]
  BY DEF Emit, TalkInv, ConversationInv, TalkTyped, Saved
<1>2. PICK m : m = post[p].message
  OBVIOUS
<1>3. m \in MessageIds /\ thread[m] # NULL
  BY <1>1, <1>2, Kinds DEF Sending, SavedAt
<1>4. SameMessages
  BY DEF Emit, SameMessages, Public, Written
<1>5. heard' = IF thread[m].isInternal
               THEN [heard EXCEPT !.internal = @ \cup {m}]
               ELSE [heard EXCEPT !.toClient = @ \cup {m}]
  BY <1>2 DEF Emit
<1>6. CASE thread[m].isInternal
  <2>1. heard'.internal = heard.internal \cup {m} /\ heard'.toClient = heard.toClient
    BY <1>1, <1>5, <1>6
  <2> QED  BY <1>3, <1>4, <2>1 DEF TalkInv, HeardFits, MessagesNumbered, SameMessages, Written
<1>7. CASE ~thread[m].isInternal
  <2>1. heard'.internal = heard.internal /\ heard'.toClient = heard.toClient \cup {m}
    BY <1>1, <1>5, <1>7
  <2>2. m \in Public
    BY <1>3, <1>7 DEF Public, Written
  <2> QED  BY <1>4, <2>1, <2>2 DEF TalkInv, HeardFits, MessagesNumbered, SameMessages
<1> QED  BY <1>6, <1>7

LEMMA TalkAnnounced ==
    ASSUME TalkInv, [ConversationNext]_conversationVars
    PROVE  HeardFits' /\ MessagesNumbered'
<1>1. /\ thread \in [MessageIds -> Message \cup {NULL}]
      /\ heard \in [internal : SUBSET MessageIds, toClient : SUBSET MessageIds, low : Nat,
                    answered : SUBSET ReplyGiven]
  BY DEF TalkInv, ConversationInv, TalkTyped
<1>2. ASSUME UNCHANGED thread  PROVE SameMessages
  BY <1>2 DEF SameMessages, Public, Written
<1>3. CASE UNCHANGED <<thread, heard>>
  BY <1>2, <1>3, QuietKeeps DEF SameAnnounced
<1>4. ASSUME NEW p \in Posts, Reply(p) \/ Alert(p) \/ Interrupt(p)
      PROVE  HeardFits' /\ MessagesNumbered'
  <2>1. SameAnnounced
    BY <1>1, <1>4 DEF Reply, Alert, Interrupt, SameAnnounced
  <2>2. CASE thread' = [thread EXCEPT ![post[p].message].lost = TRUE]
             /\ post[p].pc \in {"reply", "emit"}
    <3>1. post[p] \in Work /\ SavedAt(p)
      BY DEF TalkInv, ConversationInv, TalkTyped, Saved
    <3>2. PICK m : m = post[p].message
      OBVIOUS
    <3>3. m \in MessageIds /\ thread[m] # NULL /\ thread[m] \in Message
      BY <1>1, <2>2, <3>1, <3>2, Kinds DEF Sending, SavedAt
    <3>4. PICK message : message = [thread[m] EXCEPT !.lost = TRUE]
      OBVIOUS
    <3>5. message \in Message /\ message.isInternal = thread[m].isInternal
      BY <3>3, <3>4 DEF Message
    <3>6. thread' = [thread EXCEPT ![m] = message]
      BY <2>2, <3>2, <3>4
    <3>7. SameMessages
      BY <3>3, <3>5, <3>6, ChangedMessageIsThere, ConversationNull
    <3> QED  BY <2>1, <3>7, QuietKeeps
  <2>3. CASE UNCHANGED thread
    BY <1>2, <2>1, <2>3, QuietKeeps
  <2> QED  BY <1>4, <2>2, <2>3 DEF Reply, Alert, Interrupt
<1>5. ASSUME NEW m \in MessageIds, NEW author \in Authors, Withdraw(m, author)
      PROVE  HeardFits' /\ MessagesNumbered'
  <2>1. thread[m] # NULL /\ thread[m] \in Message /\ SameAnnounced
    BY <1>1, <1>5 DEF Withdraw, Written, SameAnnounced
  <2>2. PICK message : message = [thread[m] EXCEPT !.isWithdrawn = TRUE]
    OBVIOUS
  <2>3. message \in Message /\ message.isInternal = thread[m].isInternal
    BY <2>1, <2>2 DEF Message
  <2>4. thread' = [thread EXCEPT ![m] = message]
    BY <1>5, <2>2 DEF Withdraw
  <2>5. SameMessages
    BY <2>1, <2>3, <2>4, ChangedMessageIsThere, ConversationNull
  <2> QED  BY <2>1, <2>5, QuietKeeps
<1>6. ASSUME NEW p \in Posts,
             \/ \E author \in Authors, isInternal \in BOOLEAN, isBlank \in BOOLEAN :
                  LoadForMessage(p, author, isInternal, isBlank)
             \/ \E score \in Scores : LoadForEvaluation(p, score)
             \/ Answered(p) \/ SaveEvaluation(p)
      PROVE  HeardFits' /\ MessagesNumbered'
  BY <1>3, <1>6 DEF LoadForMessage, LoadForEvaluation, Answered, SaveEvaluation
<1>7. CASE (\E code \in TransitionCode : Move(code)) \/ DirectReply \/ UNCHANGED conversationVars
  BY <1>3, <1>7 DEF Move, DirectReply, conversationVars
<1> QED
  BY <1>4, <1>5, <1>6, <1>7, SavedIsAnnouncedLater, EmitAnnouncesWhatIsThere
     DEF ConversationNext

LEMMA TalkInvStarts == ConversationInit => TalkInv
<1> SUFFICES ASSUME ConversationInit  PROVE TalkInv
  OBVIOUS
<1>1. Written = {} /\ heard.internal = {} /\ heard.toClient = {}
  BY DEF ConversationInit, Written
<1>2. 0 \in 0 .. MaxMessages /\ 1 .. 0 = {}
  BY ConversationAssumption
<1> QED  BY <1>1, <1>2, TalkStarts DEF TalkInv, HeardFits, MessagesNumbered

LEMMA TalkInvSteps == TalkInv /\ [ConversationNext]_conversationVars => TalkInv'
BY TalkSteps, TalkAnnounced DEF TalkInv

(* Rows, calls and announcements keep their types, and no internal message was    *)
(* ever announced to the client (MessagesService.create).                    *)
THEOREM ConversationTyped == ConversationSpec => []ConversationTypeOK
<1>1. TalkInv => ConversationTypeOK
  BY DEF TalkInv, ConversationInv, TalkTyped, RequestRow, HeardFits, Public, Written,
         ConversationTypeOK
<1> QED  BY <1>1, TalkInvStarts, TalkInvSteps, PTL DEF ConversationSpec

-----------------------------------------------------------------------------
(* The panels.                                                               *)

(* What was proved of the engine holds of the one the page runs on.           *)
Proved == INSTANCE TransitionEngine_proofs WITH
    Clients <- Portal, Staff <- Agents, Grants <- Rights, Organization <- SameOrganization,
    SlaFirstResponse <- NoTarget, SlaResolution <- NoTarget, Minute <- 1, Is24x7 <- {},
    AddBusinessMinutes <- Later, ReopenWindow <- Window

RowFits(r) == Engine!MarkerFits(r) /\ Engine!HolderFits(r) /\ Engine!OverrideFits(r)

(* What a page holds while it is closed, between its two readings, and shown.   *)
OpenForm == [code : Codes, note : Engine!NoteKind, level : Engine!Priority \cup {NULL},
             assignee : Agents \cup {NULL}, old : BOOLEAN]

Reading == [phase : {"reading"}, fresh : BOOLEAN, status : Engine!RequestStatus,
            system : Engine!Priority, open : OpenForm \cup {NULL}, refused : {NULL}]

Shown == [phase : {"shown"}, fresh : BOOLEAN, status : Engine!RequestStatus,
          system : Engine!Priority, open : OpenForm \cup {NULL},
          refused : Codes \cup {"diagnose", "evaluate", NULL},
          codes : SUBSET Codes, assignees : SUBSET Agents,
          canDiagnose : BOOLEAN, canEvaluate : BOOLEAN, blind : BOOLEAN]

Page == {Closed} \cup Reading \cup Shown

ScreenTyped ==
    /\ row \in Engine!Row /\ RowFits(row)
    /\ bug \in {"none", "undiagnosed", "diagnosed"} /\ evaluated \in BOOLEAN
    /\ employed \subseteq Agents
    /\ now \in Nat
    /\ screen \in [Viewers -> Page]

(* A page that is up to date shows what is there.                             *)
PageFits(v) ==
    screen[v] # Closed /\ screen[v].fresh =>
        /\ screen[v].status = row.status /\ screen[v].system = row.systemPriority
        /\ screen[v] \in Shown =>
              /\ screen[v].codes \subseteq availableTransitions(v)
              /\ screen[v].assignees \subseteq employed
              /\ screen[v].canDiagnose => bug # "none"
              /\ screen[v].canEvaluate => /\ v \in Portal /\ row.status = "CLOTUREE"
                                          /\ ~evaluated \/ screen[v].blind

(* A form that was not open before this reading is one the page offers.        *)
FormFits(page) ==
    page # Closed /\ page.open # NULL /\ ~page.open.old =>
        /\ page \in Shown
        /\ page.open.code \in page.codes
        /\ page.open.level \in PriorityChoices(page.system) \cup {NULL}
        /\ page.open.code = "T06" => page.open.assignee \in page.assignees

(* What a page may be refused for although nothing changed since it was read.   *)
Excuse(v, refused) ==
    \/ refused \in Codes /\ screen[v].open.old
    \/ refused = "T02" /\ screen[v].open.level # NULL /\ screen[v].open.note # "reason"
    \/ refused = "T11" /\ bug = "undiagnosed"
    \/ refused = "T19" /\ ~Engine!CanReopen(row, now)
    \/ refused = "diagnose" /\ "requests.process" \notin Rights[v]
    \/ refused = "evaluate" /\ (v = Colleague \/ screen[v].blind)

RefusalFits(v) ==
    screen[v] \in Shown /\ screen[v].fresh /\ screen[v].refused # NULL => Excuse(v, screen[v].refused)

ScreenInv ==
    /\ ScreenTyped
    /\ \A v \in Viewers : PageFits(v) /\ FormFits(screen[v]) /\ RefusalFits(v)

-----------------------------------------------------------------------------
LEMMA EngineAssumptions ==
    /\ Proved!UsersAssumption /\ Proved!NullAssumption /\ Proved!SlaAssumption
    /\ Proved!CalendarSound
<1>1. Proved!UsersAssumption
  BY ScreenAssumption, ScreenNull
     DEF Proved!UsersAssumption, Proved!Users, Proved!SYSTEM, Proved!Permission,
         Engine!SYSTEM, Engine!Permission, Viewers, Portal
<1>2. Proved!NullAssumption
  BY ScreenNull DEF Proved!NullAssumption, Proved!RequestStatus, Engine!RequestStatus
<1>3. Proved!SlaAssumption
  BY ScreenAssumption DEF Proved!SlaAssumption, Proved!Priority, NoTarget
<1>4. Proved!CalendarSound
  BY DEF Proved!CalendarSound, Proved!Minutes, Later
<1> QED  BY <1>1, <1>2, <1>3, <1>4

LEMMA SameSets ==
    /\ Engine!Row = Proved!Row /\ Engine!Dto = Proved!Dto /\ Codes = Proved!TransitionCode
  BY DEF Engine!Row, Proved!Row, Engine!Dto, Proved!Dto, Codes, Engine!TransitionCode,
         Proved!TransitionCode, Engine!RequestStatus, Proved!RequestStatus,
         Engine!CLIENT_REPLY_TARGETS, Proved!CLIENT_REPLY_TARGETS, Engine!Priority, Proved!Priority,
         Engine!MAX_REOPENS, Proved!MAX_REOPENS, Engine!Instant, Proved!Instant,
         Engine!Verdict, Proved!Verdict, Engine!NoteKind, Proved!NoteKind, Engine!Users, Proved!Users

LEMMA SameFits ==
    ASSUME NEW r
    PROVE  RowFits(r) <=> Proved!RowFits(r)
  BY DEF RowFits, Proved!RowFits, Engine!MarkerFits, Engine!HolderFits, Engine!OverrideFits,
         Proved!MarkerFits, Proved!HolderFits, Proved!OverrideFits, Engine!StatusUnderWait,
         Proved!StatusUnderWait, Engine!isWithinOneLevel, Proved!isWithinOneLevel

LEMMA SameTable == Engine!TRANSITIONS = Proved!TRANSITIONS
  BY DEF Engine!TRANSITIONS, Proved!TRANSITIONS, Engine!TransitionCode, Proved!TransitionCode,
         Engine!TransitionDef, Proved!TransitionDef

LEMMA SameAccepts ==
    ASSUME NEW viewer, NEW code, NEW r, NEW expected, NEW dto, NEW agents, NEW b, NEW t
    PROVE  /\ Engine!Accepts(viewer, code, r, expected, dto, agents, b, t)
                <=> Proved!Accepts(viewer, code, r, expected, dto, agents, b, t)
           /\ Engine!Target(code, r) = Proved!Target(code, r)
  BY SameTable
     DEF Engine!Accepts, Proved!Accepts, Engine!IsReadable, Proved!IsReadable,
         Engine!CanActorTrigger, Proved!CanActorTrigger, Engine!Users, Proved!Users,
         Engine!SYSTEM, Proved!SYSTEM, Engine!Target, Proved!Target,
         Engine!resolveClientReplyTarget, Proved!resolveClientReplyTarget,
         Engine!CLIENT_REPLY_TARGETS, Proved!CLIENT_REPLY_TARGETS,
         Engine!EffectsAllowed, Proved!EffectsAllowed, Engine!CanOverride, Proved!CanOverride,
         Engine!isWithinOneLevel, Proved!isWithinOneLevel, Engine!CanReopen, Proved!CanReopen,
         Engine!MAX_REOPENS, Proved!MAX_REOPENS

LEMMA SameTransitioned ==
    ASSUME NEW code, NEW r, NEW dto, NEW t
    PROVE  Engine!Transitioned(code, r, dto, t) = Proved!Transitioned(code, r, dto, t)
<1>1. Engine!Target(code, r) = Proved!Target(code, r)
  BY SameTable DEF Engine!Target, Proved!Target,
         Engine!resolveClientReplyTarget, Proved!resolveClientReplyTarget,
         Engine!CLIENT_REPLY_TARGETS, Proved!CLIENT_REPLY_TARGETS
<1>2. Engine!ApplyEffects(code, r, dto, t) = Proved!ApplyEffects(code, r, dto, t)
  BY DEF Engine!ApplyEffects, Proved!ApplyEffects,
         Engine!RememberStatusBeforeWait, Proved!RememberStatusBeforeWait,
         Engine!Qualify, Proved!Qualify, Engine!QualifyAt, Proved!QualifyAt,
         Engine!AssignResponsible, Proved!AssignResponsible,
         Engine!StartProcessing, Proved!StartProcessing,
         Engine!ReleaseResponsible, Proved!ReleaseResponsible,
         Engine!ProposeResolution, Proved!ProposeResolution, Engine!Close, Proved!Close,
         Engine!Reopen, Proved!Reopen, Engine!AccumulateWaiting, Proved!AccumulateWaiting,
         Engine!Respected, Proved!Respected, Engine!bumpPriorityCapP1, Proved!bumpPriorityCapP1,
         Engine!ComputeAndSetDeadlines, Proved!ComputeAndSetDeadlines,
         Engine!Advance, Proved!Advance, Engine!Minutes, Proved!Minutes,
         Engine!ShiftResolutionForWaiting, Proved!ShiftResolutionForWaiting
<1> QED  BY <1>1, <1>2 DEF Engine!Transitioned, Proved!Transitioned

(* What the engine leaves is again a request it can leave.                    *)
LEMMA EngineLeaves ==
    ASSUME NEW viewer, NEW code \in Codes, NEW r \in Engine!Row, RowFits(r), NEW expected,
           NEW dto \in Engine!Dto, NEW agents, NEW b, NEW t \in Nat,
           Engine!Accepts(viewer, code, r, expected, dto, agents, b, t)
    PROVE  /\ [Engine!Transitioned(code, r, dto, t) EXCEPT !.updatedAt = t] \in Engine!Row
           /\ RowFits([Engine!Transitioned(code, r, dto, t) EXCEPT !.updatedAt = t])
<1> DEFINE saved == [Engine!Transitioned(code, r, dto, t) EXCEPT !.updatedAt = t]
<1>1. saved = [Proved!Transitioned(code, r, dto, t) EXCEPT !.updatedAt = t]
  BY SameTransitioned
<1>2. Proved!Accepts(viewer, code, r, expected, dto, agents, b, t) /\ Proved!RowFits(r)
  BY SameAccepts, SameFits
<1>3. r \in Proved!Row /\ code \in Proved!TransitionCode /\ dto \in Proved!Dto
  BY SameSets
<1> HIDE DEF saved
<1>4. Proved!Effect(code, r, dto, t, saved) /\ Proved!RowFits(saved)
  BY <1>1, <1>2, <1>3, EngineAssumptions, Proved!SavedRow
<1>5. saved \in Proved!Row
  BY <1>4 DEF Proved!Effect
<1> QED  BY <1>4, <1>5, SameSets, SameFits DEF saved

(* The job closes a request that is resolved.                                *)
LEMMA JobLeaves ==
    ASSUME NEW r \in Engine!Row, RowFits(r), r.status = "RESOLUE", NEW t \in Nat
    PROVE  /\ [Engine!Transitioned("T17", r, [note |-> "none"], t) EXCEPT !.updatedAt = t] \in Engine!Row
           /\ RowFits([Engine!Transitioned("T17", r, [note |-> "none"], t) EXCEPT !.updatedAt = t])
<1> DEFINE dto == [note |-> "none", level |-> 0, assignee |-> NULL]
<1>1. dto \in Engine!Dto
  BY DEF Engine!Dto, Engine!NoteKind, Engine!Priority
<1>2. "T17" \in Codes
  BY DEF Codes, Engine!TransitionCode
<1>3. Engine!TRANSITIONS["T17"] = [from |-> {"RESOLUE"}, to |-> "CLOTUREE", actor |-> "SYSTEM",
                                    requiresNote |-> FALSE]
  BY DEF Engine!TRANSITIONS, Engine!TransitionDef, Engine!TransitionCode
<1>4. Engine!Accepts(Engine!SYSTEM, "T17", r, "RESOLUE", dto, {}, "none", t)
  BY <1>3, ScreenNull
     DEF Engine!Accepts, Engine!IsReadable, Engine!CanActorTrigger, Engine!Target,
         Engine!EffectsAllowed, Engine!RequestStatus, Viewers
<1>5. Engine!Transitioned("T17", r, dto, t) = Engine!Transitioned("T17", r, [note |-> "none"], t)
  BY DEF Engine!Transitioned, Engine!ApplyEffects
<1> HIDE DEF dto
<1> QED  BY <1>1, <1>2, <1>4, <1>5, EngineLeaves

-----------------------------------------------------------------------------
LEMMA PageKinds ==
    ASSUME NEW page \in Page
    PROVE  /\ page.phase = "closed" <=> page = Closed
           /\ page.phase = "reading" <=> page \in Reading
           /\ page.phase = "shown" <=> page \in Shown
           /\ page # Closed => page \in Reading \cup Shown
  BY DEF Page, Closed, Reading, Shown

(* The table of the front end is the one of the engine.                       *)
LEMMA FrontTable ==
    ASSUME NEW c \in Codes
    PROVE  /\ TransitionUi(c).requiresNote <=> Engine!TRANSITIONS[c].requiresNote
           /\ TransitionUi(c).needsAssignee <=> c = "T06"
           /\ TransitionUi(c).allowsPriority <=> c = "T02"
           /\ c # "CLIENT_REPLY" =>
                 Engine!TRANSITIONS[c].to \in Engine!RequestStatus
           /\ c = "CLIENT_REPLY" =>
                 Engine!TRANSITIONS[c].to = NULL /\ Engine!TRANSITIONS[c].from = {"EN_ATTENTE_CLIENT"}
<1>1. Engine!TRANSITIONS[c].requiresNote <=>
         (c \in {"T03", "T05", "T07", "T09", "T10", "T11", "T12", "T18", "T19", "CLIENT_REPLY"})
  BY DEF Codes, Engine!TRANSITIONS, Engine!TransitionDef, Engine!TransitionCode
<1>2. /\ c # "CLIENT_REPLY" => Engine!TRANSITIONS[c].to \in Engine!RequestStatus
      /\ c = "CLIENT_REPLY" =>
            Engine!TRANSITIONS[c].to = NULL /\ Engine!TRANSITIONS[c].from = {"EN_ATTENTE_CLIENT"}
  BY DEF Codes, Engine!TRANSITIONS, Engine!TransitionDef, Engine!TransitionCode, Engine!RequestStatus
<1> QED  BY <1>1, <1>2 DEF TransitionUi

(* A request that may take a transition knows where it goes.                   *)
LEMMA TargetKnown ==
    ASSUME NEW r \in Engine!Row, RowFits(r), NEW c \in Codes, r.status \in Engine!TRANSITIONS[c].from
    PROVE  Engine!Target(c, r) # NULL
<1>1. CASE c = "CLIENT_REPLY"
  <2>1. r.status = "EN_ATTENTE_CLIENT" /\ Engine!TRANSITIONS[c].to = NULL
    BY <1>1, FrontTable
  <2>2. r.previousStatusBeforeWait # NULL
    BY <2>1 DEF RowFits, Engine!MarkerFits
  <2>3. r.previousStatusBeforeWait \in Engine!CLIENT_REPLY_TARGETS
    BY <2>2 DEF Engine!Row
  <2> QED  BY <2>1, <2>2, <2>3 DEF Engine!Target, Engine!resolveClientReplyTarget
<1>2. CASE c # "CLIENT_REPLY"
  BY <1>2, FrontTable, ScreenNull DEF Engine!Target
<1> QED  BY <1>1, <1>2

(* What Confirm sends is well formed.                                        *)
Sent(v) ==
    [note |-> screen[v].open.note, assignee |-> screen[v].open.assignee,
     level |-> IF screen[v].open.level = NULL THEN row.systemPriority ELSE screen[v].open.level]

LEMMA SentIsADto ==
    ASSUME ScreenTyped, NEW v \in Viewers, screen[v] \in Shown, screen[v].open # NULL
    PROVE  /\ Sent(v) \in Engine!Dto /\ screen[v].open \in OpenForm
           /\ screen[v].open.code \in Codes
           /\ Sent(v).note = screen[v].open.note /\ Sent(v).assignee = screen[v].open.assignee
           /\ Sent(v).level =
                 (IF screen[v].open.level = NULL THEN row.systemPriority ELSE screen[v].open.level)
<1>1. screen[v].open \in OpenForm
  BY DEF Shown
<1>2. row.systemPriority \in Engine!Priority
  BY DEF ScreenTyped, Engine!Row
<1> QED  BY <1>1, <1>2 DEF OpenForm, Sent, Engine!Dto, Engine!Users, Viewers

(* A form of an up to date page is refused for what the page lets through only. *)
LEMMA RefusalIsExcused ==
    ASSUME ScreenInv, NEW v \in Viewers, screen[v] \in Shown, screen[v].fresh,
           screen[v].open # NULL, ~screen[v].open.old,
           TransitionUi(screen[v].open.code).requiresNote => screen[v].open.note # "none",
           ~Engine!Accepts(v, screen[v].open.code, row, screen[v].status, Sent(v),
                           employed \cup Portal, bug, now)
    PROVE  \/ screen[v].open.code = "T02" /\ screen[v].open.level # NULL
              /\ screen[v].open.note # "reason"
           \/ screen[v].open.code = "T11" /\ bug = "undiagnosed"
           \/ screen[v].open.code = "T19" /\ ~Engine!CanReopen(row, now)
<1> DEFINE code == screen[v].open.code
           dto == Sent(v)
<1>0. ScreenTyped /\ PageFits(v) /\ FormFits(screen[v]) /\ screen[v] # Closed
  BY PageKinds DEF ScreenInv, Closed, Shown
<1>1. code \in Codes /\ dto \in Engine!Dto
  BY <1>0, SentIsADto
<1>2. /\ screen[v].status = row.status /\ screen[v].system = row.systemPriority
      /\ code \in availableTransitions(v) /\ screen[v].assignees \subseteq employed
  BY <1>0 DEF PageFits, FormFits
<1>3. row.status \in Engine!TRANSITIONS[code].from /\ Engine!CanActorTrigger(v, code, row)
  BY <1>2 DEF availableTransitions
<1>4. Engine!Target(code, row) # NULL
  BY <1>0, <1>1, <1>3, TargetKnown DEF ScreenTyped
<1>5. Engine!IsReadable(v, row)
  BY <1>0 DEF Engine!IsReadable, SameOrganization, ScreenTyped, Engine!Row
<1>6. Engine!TRANSITIONS[code].requiresNote => dto.note # "none"
  BY <1>0, <1>1, FrontTable, SentIsADto
<1>7. ~Engine!EffectsAllowed(code, row, dto, employed \cup Portal, bug, now)
  BY <1>2, <1>3, <1>4, <1>5, <1>6 DEF Engine!Accepts
<1>8. CASE code = "T02"
  <2>1. ~Engine!CanOverride(row, dto)
    BY <1>7, <1>8 DEF Engine!EffectsAllowed
  <2>2. dto.level # row.systemPriority
    BY <2>1 DEF Engine!CanOverride
  <2>3. screen[v].open.level # NULL /\ dto.level = screen[v].open.level
    BY <1>0, <2>2, SentIsADto
  <2>4. dto.level \in PriorityChoices(row.systemPriority)
    BY <1>0, <1>2, <2>3 DEF FormFits
  <2>5. row.systemPriority \in Int /\ dto.level \in Int
    BY <1>0, <1>1 DEF ScreenTyped, Engine!Row, Engine!Dto, Engine!Priority
  <2>6. Engine!isWithinOneLevel(row.systemPriority, dto.level)
    BY <2>4, <2>5 DEF PriorityChoices, Engine!isWithinOneLevel
  <2>7. dto.note # "reason"
    BY <2>1, <2>6 DEF Engine!CanOverride
  <2> QED  BY <1>0, <1>8, <2>3, <2>7, SentIsADto
<1>9. CASE code = "T06"
  <2>1. dto.assignee \in screen[v].assignees
    BY <1>0, <1>9, SentIsADto DEF FormFits
  <2>2. dto.assignee \in Agents \cap (employed \cup Portal)
    BY <1>0, <1>2, <2>1 DEF ScreenTyped
  <2> QED  BY <1>7, <1>9, <2>2 DEF Engine!EffectsAllowed
<1>10. CASE code = "T11"
  BY <1>7, <1>10 DEF Engine!EffectsAllowed
<1>11. CASE code = "T19"
  BY <1>7, <1>11 DEF Engine!EffectsAllowed
<1>12. CASE code \notin {"T02", "T06", "T11", "T19"}
  BY <1>7, <1>12 DEF Engine!EffectsAllowed
<1> QED  BY <1>8, <1>9, <1>10, <1>11, <1>12

-----------------------------------------------------------------------------
(* What changes behind the pages outdates them all.                           *)
LEMMA OutdatedKeeps ==
    ASSUME NEW screens \in [Viewers -> Page], \A v \in Viewers : FormFits(screens[v]),
           screen' = Outdated(screens)
    PROVE  /\ screen' \in [Viewers -> Page]
           /\ \A v \in Viewers : PageFits(v)' /\ FormFits(screen[v])' /\ RefusalFits(v)'
<1>1. screen' = [v \in Viewers |-> IF screens[v].phase = "closed" THEN screens[v]
                                   ELSE [screens[v] EXCEPT !.fresh = FALSE]]
  BY DEF Outdated
<1>2. ASSUME NEW v \in Viewers
      PROVE  /\ screen'[v] \in Page
             /\ screen'[v] # Closed => ~screen'[v].fresh
             /\ FormFits(screen[v])'
  <2>1. CASE screens[v] = Closed
    BY <1>1, <2>1 DEF Closed, FormFits, Page
  <2>2. CASE screens[v] # Closed
    <3>1. screens[v] \in Reading \cup Shown /\ screens[v].phase # "closed"
      BY <2>2, PageKinds
    <3>2. PICK page : page = [screens[v] EXCEPT !.fresh = FALSE]
      OBVIOUS
    <3>3. screen'[v] = page
      BY <1>1, <3>1, <3>2
    <3>4. CASE screens[v] \in Reading
      <4>1. page \in Reading /\ ~page.fresh /\ page.open = screens[v].open
        BY <3>2, <3>4 DEF Reading
      <4>2. screens[v] \notin Shown
        BY <3>4 DEF Reading, Shown
      <4>3. FormFits(page)
        BY <2>2, <4>1, <4>2 DEF FormFits
      <4> QED  BY <3>3, <4>1, <4>3 DEF Page, FormFits
    <3>5. CASE screens[v] \in Shown
      <4>1. /\ page \in Shown /\ ~page.fresh /\ page.open = screens[v].open
            /\ page.codes = screens[v].codes /\ page.system = screens[v].system
            /\ page.assignees = screens[v].assignees
        BY <3>2, <3>5 DEF Shown
      <4>2. FormFits(page)
        BY <2>2, <4>1 DEF FormFits
      <4> QED  BY <3>3, <4>1, <4>2 DEF Page, FormFits
    <3> QED  BY <3>1, <3>4, <3>5
  <2> QED  BY <2>1, <2>2
<1>3. screen' \in [Viewers -> Page]
  BY <1>1, <1>2
<1>4. ASSUME NEW v \in Viewers  PROVE PageFits(v)' /\ RefusalFits(v)'
  BY <1>2, PageKinds DEF PageFits, RefusalFits, Closed, Shown
<1> QED  BY <1>2, <1>3, <1>4

(* One page changes, and nothing behind it.                                   *)
LEMMA PageKeeps ==
    ASSUME ScreenInv, NEW v \in Viewers, NEW page \in Page, screen' = [screen EXCEPT ![v] = page],
           UNCHANGED <<row, bug, evaluated, employed, now>>,
           PageFits(v)', FormFits(page), RefusalFits(v)'
    PROVE  ScreenInv'
<1>1. /\ screen' \in [Viewers -> Page] /\ screen'[v] = page
      /\ \A w \in Viewers : w # v => screen'[w] = screen[w]
  BY DEF ScreenInv, ScreenTyped
<1>2. ScreenTyped'
  BY <1>1 DEF ScreenInv, ScreenTyped
<1>3. ASSUME NEW w \in Viewers, w # v
      PROVE  PageFits(w)' /\ FormFits(screen[w])' /\ RefusalFits(w)'
  <2>1. screen'[w] = screen[w] /\ availableTransitions(w)' = availableTransitions(w)
    BY <1>1, <1>3 DEF availableTransitions
  <2>2. PageFits(w)'
    BY <2>1 DEF ScreenInv, PageFits
  <2>3. RefusalFits(w)'
    BY <2>1 DEF ScreenInv, RefusalFits, Excuse
  <2> QED  BY <2>1, <2>2, <2>3 DEF ScreenInv, FormFits
<1>4. FormFits(screen[v])'
  BY <1>1 DEF FormFits
<1> QED  BY <1>2, <1>3, <1>4 DEF ScreenInv

LEMMA RefusedKeeps ==
    ASSUME ScreenInv, NEW v \in Viewers, screen[v] \in Shown,
           NEW what \in Codes \cup {"diagnose", "evaluate"}, Refused(v, what),
           UNCHANGED <<row, bug, evaluated, employed, now>>,
           screen[v].fresh => Excuse(v, what)
    PROVE  ScreenInv'
<1>1. PICK page : page = [screen[v] EXCEPT !.refused = what]
  OBVIOUS
<1>2. /\ page \in Shown /\ page.refused = what /\ page.fresh = screen[v].fresh
      /\ page.open = screen[v].open /\ page.status = screen[v].status
      /\ page.system = screen[v].system /\ page.codes = screen[v].codes
      /\ page.assignees = screen[v].assignees
      /\ page.canDiagnose = screen[v].canDiagnose /\ page.canEvaluate = screen[v].canEvaluate
      /\ page.blind = screen[v].blind
  BY <1>1 DEF Shown
<1>3. screen' = [screen EXCEPT ![v] = page] /\ screen'[v] = page
  BY <1>1 DEF Refused, ScreenInv, ScreenTyped
<1>4. screen[v] # Closed /\ page # Closed
  BY <1>2 DEF Closed, Shown
<1>5. PageFits(v)'
  <2>1. availableTransitions(v)' = availableTransitions(v) /\ PageFits(v)
    BY DEF ScreenInv, availableTransitions
  <2> QED  BY <1>2, <1>3, <1>4, <2>1 DEF PageFits
<1>6. FormFits(page)
  BY <1>2, <1>4 DEF ScreenInv, FormFits
<1>7. RefusalFits(v)'
  BY <1>2, <1>3 DEF RefusalFits, Excuse
<1> QED  BY <1>2, <1>3, <1>5, <1>6, <1>7, PageKeeps DEF Page

-----------------------------------------------------------------------------
LEMMA ReadRequestKeeps ==
    ASSUME ScreenInv, NEW v \in Viewers, ReadRequest(v)
    PROVE  ScreenInv'
<1>1. screen[v] \in Page /\ screen[v].phase \in {"closed", "shown"}
  BY DEF ReadRequest, ScreenInv, ScreenTyped
<1>2. PICK opened : opened = (IF screen[v].phase = "closed" \/ screen[v].open = NULL THEN NULL
                             ELSE [screen[v].open EXCEPT !.old = TRUE])
  OBVIOUS
<1>3. opened \in OpenForm \cup {NULL} /\ (opened # NULL => opened.old)
  <2>1. CASE screen[v].phase = "closed" \/ screen[v].open = NULL
    BY <1>2, <2>1
  <2>2. CASE ~(screen[v].phase = "closed" \/ screen[v].open = NULL)
    <3>1. screen[v] \in Shown
      BY <1>1, <2>2, PageKinds
    <3>2. screen[v].open \in OpenForm
      BY <2>2, <3>1 DEF Shown
    <3>3. opened = [screen[v].open EXCEPT !.old = TRUE]
      BY <1>2, <2>2
    <3> QED  BY <3>2, <3>3 DEF OpenForm
  <2> QED  BY <2>1, <2>2
<1>4. PICK page : page = [phase |-> "reading", fresh |-> TRUE, status |-> row.status,
                          system |-> row.systemPriority, open |-> opened, refused |-> NULL]
  OBVIOUS
<1>5. /\ page \in Reading /\ page \notin Shown
      /\ page.status = row.status /\ page.system = row.systemPriority /\ page.open = opened
  BY <1>3, <1>4 DEF Reading, Shown, ScreenInv, ScreenTyped, Engine!Row
<1>6. screen' = [screen EXCEPT ![v] = page] /\ UNCHANGED <<row, bug, evaluated, employed, now>>
  BY <1>2, <1>4 DEF ReadRequest
<1>7. screen'[v] = page
  BY <1>6 DEF ScreenInv, ScreenTyped
<1>8. PageFits(v)' /\ FormFits(page) /\ RefusalFits(v)'
  BY <1>3, <1>5, <1>6, <1>7 DEF PageFits, FormFits, RefusalFits
<1> QED  BY <1>5, <1>6, <1>8, PageKeeps DEF Page

LEMMA ReadPanelsKeeps ==
    ASSUME ScreenInv, NEW v \in Viewers, ReadPanels(v)
    PROVE  ScreenInv'
<1>1. screen[v] \in Reading /\ screen[v] # Closed /\ screen[v] \notin Shown
  BY PageKinds DEF ReadPanels, ScreenInv, ScreenTyped, Reading, Closed, Shown
<1> DEFINE status == screen[v].status
           diagnoses(sees) == v \in Agents /\ sees /\ status \in {"AFFECTEE", "EN_COURS"}
           evaluates(reads) == v \in Portal /\ status = "CLOTUREE" /\ ~reads
<1>2. PICK codes \in {availableTransitions(v), {}}, found \in {employed, {}},
           sees \in {bug # "none", FALSE}, reads \in {evaluated, FALSE} :
         screen' = [screen EXCEPT ![v] = Panels(v, codes, found, sees, reads)]
  BY DEF ReadPanels
<1>3. UNCHANGED <<row, bug, evaluated, employed, now>>
  BY DEF ReadPanels
<1>4. PICK diagnosable : diagnosable = diagnoses(sees)
  OBVIOUS
<1>5. PICK evaluable : evaluable = evaluates(reads)
  OBVIOUS
<1>0. PICK unread : unread = (evaluated /\ ~reads)
  OBVIOUS
<1>6. PICK people : people = (IF v \in Agents THEN found ELSE {})
  OBVIOUS
<1>7. /\ diagnosable \in BOOLEAN /\ (diagnosable => bug # "none")
      /\ evaluable \in BOOLEAN /\ unread \in BOOLEAN
      /\ evaluable => v \in Portal /\ screen[v].status = "CLOTUREE" /\ (~evaluated \/ unread)
      /\ people \subseteq employed /\ people \subseteq Agents
      /\ codes \subseteq availableTransitions(v) /\ codes \subseteq Codes
  <2>1. diagnosable \in BOOLEAN /\ (diagnosable => bug # "none")
    BY <1>2, <1>4
  <2>2. /\ evaluable \in BOOLEAN /\ unread \in BOOLEAN
        /\ evaluable => v \in Portal /\ screen[v].status = "CLOTUREE" /\ (~evaluated \/ unread)
    BY <1>0, <1>5
  <2> QED  BY <1>2, <1>6, <2>1, <2>2 DEF availableTransitions, ScreenInv, ScreenTyped
<1>8. PICK page : page =
         [phase |-> "shown", fresh |-> screen[v].fresh, status |-> screen[v].status,
          system |-> screen[v].system, open |-> screen[v].open, refused |-> NULL,
          codes |-> codes, assignees |-> people,
          canDiagnose |-> diagnosable, canEvaluate |-> evaluable, blind |-> unread]
  OBVIOUS
<1>9. screen' = [screen EXCEPT ![v] = page]
  BY <1>0, <1>2, <1>4, <1>5, <1>6, <1>8 DEF Panels
<1> HIDE DEF diagnoses, evaluates, status
<1>10. page \in Shown
  BY <1>1, <1>7, <1>8 DEF Reading, Shown
<1>11. /\ page.fresh = screen[v].fresh /\ page.status = screen[v].status
       /\ page.system = screen[v].system /\ page.open = screen[v].open /\ page.refused = NULL
       /\ page.codes = codes /\ page.assignees = people
       /\ (page.canDiagnose => diagnosable) /\ (page.canEvaluate => evaluable)
       /\ (page.blind <=> unread)
  BY <1>8
<1>12. screen'[v] = page
  BY <1>9 DEF ScreenInv, ScreenTyped
<1>13. PageFits(v)'
  <2>1. availableTransitions(v)' = availableTransitions(v) /\ PageFits(v)
    BY <1>3 DEF ScreenInv, availableTransitions
  <2> QED  BY <1>1, <1>3, <1>7, <1>11, <1>12, <2>1 DEF PageFits
<1>14. FormFits(page)
  BY <1>1, <1>11 DEF ScreenInv, FormFits
<1>15. RefusalFits(v)'
  BY <1>11, <1>12 DEF RefusalFits
<1> QED  BY <1>3, <1>9, <1>10, <1>13, <1>14, <1>15, PageKeeps DEF Page

LEMMA FormKeeps ==
    ASSUME ScreenInv, NEW v \in Viewers, screen[v] \in Shown, NEW opened \in OpenForm \cup {NULL},
           screen' = [screen EXCEPT ![v].open = opened, ![v].refused = NULL],
           UNCHANGED <<row, bug, evaluated, employed, now>>,
           opened # NULL /\ ~opened.old =>
              /\ opened.code \in screen[v].codes
              /\ opened.level \in PriorityChoices(screen[v].system) \cup {NULL}
              /\ opened.code = "T06" => opened.assignee \in screen[v].assignees
    PROVE  ScreenInv'
<1>1. PICK page : page = [screen[v] EXCEPT !.open = opened, !.refused = NULL]
  OBVIOUS
<1>2. /\ page \in Shown /\ page.refused = NULL /\ page.fresh = screen[v].fresh
      /\ page.open = opened /\ page.status = screen[v].status
      /\ page.system = screen[v].system /\ page.codes = screen[v].codes
      /\ page.assignees = screen[v].assignees
      /\ page.canDiagnose = screen[v].canDiagnose /\ page.canEvaluate = screen[v].canEvaluate
      /\ page.blind = screen[v].blind
  BY <1>1 DEF Shown
<1>3. screen' = [screen EXCEPT ![v] = page] /\ screen'[v] = page
  BY <1>1 DEF ScreenInv, ScreenTyped
<1>4. screen[v] # Closed /\ page # Closed
  BY <1>2 DEF Closed, Shown
<1>5. PageFits(v)'
  <2>1. availableTransitions(v)' = availableTransitions(v) /\ PageFits(v)
    BY DEF ScreenInv, availableTransitions
  <2> QED  BY <1>2, <1>3, <1>4, <2>1 DEF PageFits
<1>6. FormFits(page) /\ RefusalFits(v)'
  BY <1>2, <1>3 DEF FormFits, RefusalFits
<1> QED  BY <1>2, <1>3, <1>5, <1>6, PageKeeps DEF Page

LEMMA FillInKeeps ==
    ASSUME ScreenInv, NEW v \in Viewers, NEW code \in Codes, FillIn(v, code)
    PROVE  ScreenInv'
<1>1. screen[v] \in Shown /\ UNCHANGED <<row, bug, evaluated, employed, now>>
  BY PageKinds DEF FillIn, ScreenInv, ScreenTyped
<1> DEFINE ui == TransitionUi(code)
<1>2. PICK kind \in (IF ui.takesNote THEN {"none", "short", "reason", "long"} ELSE {"none"}),
           level \in (IF ui.allowsPriority THEN PriorityChoices(screen[v].system) \cup {NULL}
                      ELSE {NULL}),
           agent \in (IF ui.needsAssignee THEN screen[v].assignees ELSE {NULL}) :
         screen' = [screen EXCEPT
             ![v].open = [code |-> code, note |-> kind, level |-> level, assignee |-> agent,
                          old |-> screen[v].open # NULL /\ screen[v].open.old],
             ![v].refused = NULL]
  BY DEF FillIn
<1>3. /\ kind \in Engine!NoteKind
      /\ level \in PriorityChoices(screen[v].system) \cup {NULL}
      /\ level \in Engine!Priority \cup {NULL}
      /\ agent \in Agents \cup {NULL} /\ (code = "T06" => agent \in screen[v].assignees)
  BY <1>1, <1>2, FrontTable DEF Shown, PriorityChoices, Engine!Priority, Engine!NoteKind
<1>4. PICK old : old = (screen[v].open # NULL /\ screen[v].open.old)
  OBVIOUS
<1>5. old \in BOOLEAN
  BY <1>4
<1>6. PICK opened : opened = [code |-> code, note |-> kind, level |-> level, assignee |-> agent,
                              old |-> old]
  OBVIOUS
<1>7. /\ opened \in OpenForm /\ opened.code = code /\ opened.level = level
      /\ opened.assignee = agent /\ opened.old = old
  BY <1>3, <1>5, <1>6 DEF OpenForm
<1>8. ~old => code \in screen[v].codes
  <2>1. \/ screen[v].open # NULL /\ screen[v].open.code = code
        \/ screen[v].open = NULL /\ code \in screen[v].codes
    BY DEF FillIn
  <2>2. FormFits(screen[v]) /\ screen[v] # Closed
    BY <1>1 DEF ScreenInv, Shown, Closed
  <2> QED  BY <1>4, <2>1, <2>2 DEF FormFits
<1>9. screen' = [screen EXCEPT ![v].open = opened, ![v].refused = NULL]
  BY <1>2, <1>4, <1>6
<1> HIDE DEF ui
<1> QED  BY <1>1, <1>3, <1>7, <1>8, <1>9, FormKeeps

LEMMA CancelKeeps ==
    ASSUME ScreenInv, NEW v \in Viewers, Cancel(v)
    PROVE  ScreenInv'
<1>1. screen[v] \in Shown /\ UNCHANGED <<row, bug, evaluated, employed, now>>
  BY PageKinds DEF Cancel, ScreenInv, ScreenTyped
<1>2. screen' = [screen EXCEPT ![v].open = NULL, ![v].refused = NULL]
  BY DEF Cancel
<1> QED  BY <1>1, <1>2, FormKeeps

LEMMA SucceededKeeps ==
    ASSUME ScreenInv, NEW v \in Viewers, screen' \in {Succeeded(v), Outdated(screen)}
    PROVE  /\ screen' \in [Viewers -> Page]
           /\ \A w \in Viewers : PageFits(w)' /\ FormFits(screen[w])' /\ RefusalFits(w)'
<1>1. screen \in [Viewers -> Page] /\ \A w \in Viewers : FormFits(screen[w])
  BY DEF ScreenInv, ScreenTyped
<1>2. CASE screen' = Outdated(screen)
  BY <1>1, <1>2, OutdatedKeeps
<1>3. CASE screen' = Succeeded(v)
  <2>1. PICK screens : screens = [screen EXCEPT ![v] = Closed]
    OBVIOUS
  <2>2. screens \in [Viewers -> Page] /\ \A w \in Viewers : FormFits(screens[w])
    BY <1>1, <2>1 DEF Page, FormFits
  <2>3. screen' = Outdated(screens)
    BY <1>3, <2>1 DEF Succeeded
  <2> QED  BY <2>2, <2>3, OutdatedKeeps
<1> QED  BY <1>2, <1>3

LEMMA ConfirmKeeps ==
    ASSUME ScreenInv, NEW v \in Viewers, Confirm(v)
    PROVE  ScreenInv'
<1> DEFINE code == screen[v].open.code
           accepted == Engine!Accepts(v, code, row, screen[v].status, Sent(v),
                                      employed \cup Portal, bug, now)
<1>1. /\ screen[v] \in Shown /\ screen[v].open # NULL
      /\ TransitionUi(code).requiresNote => screen[v].open.note # "none"
      /\ UNCHANGED <<bug, evaluated, employed, now>>
  BY PageKinds DEF Confirm, ScreenInv, ScreenTyped
<1>2. code \in Codes /\ Sent(v) \in Engine!Dto /\ ScreenTyped
  BY <1>1, SentIsADto DEF ScreenInv
<1>3. CASE accepted
  <2>1. /\ row' = [Engine!Transitioned(code, row, Sent(v), now) EXCEPT !.updatedAt = now]
        /\ screen' \in {Succeeded(v), Outdated(screen)}
    BY <1>3 DEF Confirm, Sent
  <2>2. row' \in Engine!Row /\ RowFits(row')
    BY <1>2, <1>3, <2>1, EngineLeaves DEF ScreenTyped
  <2>3. RowFits(row)'
    BY <2>2 DEF RowFits, Engine!MarkerFits, Engine!HolderFits, Engine!OverrideFits,
                Engine!StatusUnderWait
  <2> QED  BY <1>1, <1>2, <2>1, <2>2, <2>3, SucceededKeeps DEF ScreenInv, ScreenTyped
<1>4. CASE ~accepted
  <2>1. Refused(v, code) /\ UNCHANGED row
    BY <1>4 DEF Confirm, Sent
  <2>2. screen[v].fresh => Excuse(v, code)
    <3> SUFFICES ASSUME screen[v].fresh  PROVE Excuse(v, code)
      OBVIOUS
    <3>1. CASE screen[v].open.old
      BY <1>2, <3>1 DEF Excuse
    <3>2. CASE ~screen[v].open.old
      BY <1>1, <1>4, <3>2, RefusalIsExcused DEF Excuse
    <3> QED  BY <3>1, <3>2
  <2> QED  BY <1>1, <1>2, <2>1, <2>2, RefusedKeeps
<1> QED  BY <1>3, <1>4

LEMMA DiagnoseKeeps ==
    ASSUME ScreenInv, NEW v \in Viewers, Diagnose(v)
    PROVE  ScreenInv'
<1>1. /\ screen[v] \in Shown /\ screen[v] # Closed /\ screen[v].canDiagnose
      /\ UNCHANGED <<row, evaluated, employed, now>>
  BY PageKinds DEF Diagnose, ScreenInv, ScreenTyped, Shown, Closed
<1>2. CASE bug # "none" /\ "requests.process" \in Rights[v]
  <2>1. bug' = "diagnosed" /\ screen' \in {Succeeded(v), Outdated(screen)}
    BY <1>2 DEF Diagnose
  <2>2. RowFits(row)' /\ ScreenTyped
    BY <1>1 DEF ScreenInv, ScreenTyped, RowFits, Engine!MarkerFits, Engine!HolderFits,
                Engine!OverrideFits, Engine!StatusUnderWait
  <2> QED  BY <1>1, <2>1, <2>2, SucceededKeeps DEF ScreenInv, ScreenTyped
<1>3. CASE ~(bug # "none" /\ "requests.process" \in Rights[v])
  <2>1. Refused(v, "diagnose") /\ UNCHANGED bug
    BY <1>3 DEF Diagnose
  <2>2. screen[v].fresh => Excuse(v, "diagnose")
    BY <1>1, <1>3 DEF ScreenInv, PageFits, Excuse
  <2> QED  BY <1>1, <2>1, <2>2, RefusedKeeps
<1> QED  BY <1>2, <1>3

LEMMA EvaluateKeeps ==
    ASSUME ScreenInv, NEW v \in Viewers, Evaluate(v)
    PROVE  ScreenInv'
<1>1. /\ screen[v] \in Shown /\ screen[v] # Closed /\ screen[v].canEvaluate
      /\ UNCHANGED <<row, bug, employed, now>>
  BY PageKinds DEF Evaluate, ScreenInv, ScreenTyped, Shown, Closed
<1>2. CASE v = Owner /\ row.status = "CLOTUREE" /\ ~evaluated
  <2>1. evaluated' = TRUE /\ screen' \in {Succeeded(v), Outdated(screen)}
    BY <1>2 DEF Evaluate
  <2>2. RowFits(row)' /\ ScreenTyped
    BY <1>1 DEF ScreenInv, ScreenTyped, RowFits, Engine!MarkerFits, Engine!HolderFits,
                Engine!OverrideFits, Engine!StatusUnderWait
  <2> QED  BY <1>1, <2>1, <2>2, SucceededKeeps DEF ScreenInv, ScreenTyped
<1>3. CASE ~(v = Owner /\ row.status = "CLOTUREE" /\ ~evaluated)
  <2>1. Refused(v, "evaluate") /\ UNCHANGED evaluated
    BY <1>3 DEF Evaluate
  <2>2. screen[v].fresh => Excuse(v, "evaluate")
    BY <1>1, <1>3 DEF ScreenInv, PageFits, Excuse, Portal
  <2> QED  BY <1>1, <2>1, <2>2, RefusedKeeps
<1> QED  BY <1>2, <1>3

LEMMA ElsewhereKeeps ==
    ASSUME ScreenInv, Elsewhere
    PROVE  ScreenInv'
<1>1. /\ screen \in [Viewers -> Page] /\ \A w \in Viewers : FormFits(screen[w])
      /\ screen' = Outdated(screen) /\ UNCHANGED <<bug, evaluated, now>> /\ ScreenTyped
  BY DEF ScreenInv, ScreenTyped, Elsewhere
<1>2. row' \in Engine!Row /\ RowFits(row') /\ employed' \subseteq Agents
  <2>1. CASE /\ row.status = "RESOLUE" /\ UNCHANGED employed
             /\ row' = [Engine!Transitioned("T17", row, [note |-> "none"], now) EXCEPT !.updatedAt = now]
    BY <1>1, <2>1, JobLeaves DEF ScreenTyped
  <2>2. CASE \E u \in employed : employed' = employed \ {u} /\ UNCHANGED row
    <3>1. RowFits(row') /\ row' \in Engine!Row
      BY <1>1, <2>2 DEF ScreenTyped
    <3> QED  BY <1>1, <2>2, <3>1 DEF ScreenTyped
  <2> QED  BY <2>1, <2>2 DEF Elsewhere
<1>3. RowFits(row)'
  BY <1>2 DEF RowFits, Engine!MarkerFits, Engine!HolderFits, Engine!OverrideFits,
              Engine!StatusUnderWait
<1>4. /\ screen' \in [Viewers -> Page]
      /\ \A w \in Viewers : PageFits(w)' /\ FormFits(screen[w])' /\ RefusalFits(w)'
  BY <1>1, OutdatedKeeps
<1> QED  BY <1>1, <1>2, <1>3, <1>4 DEF ScreenInv, ScreenTyped

(* A request that can no longer be reopened cannot later either.               *)
LEMMA TooLateStays ==
    ASSUME ScreenTyped, now' \in Nat, now' >= now, UNCHANGED row, ~Engine!CanReopen(row, now)
    PROVE  ~Engine!CanReopen(row', now')
<1>1. row.closedAt \in Nat \cup {NULL} /\ Window \in Nat /\ now \in Nat
  BY ScreenAssumption DEF ScreenTyped, Engine!Row, Engine!Instant
<1>2. CASE ~(row.reopenCount < Engine!MAX_REOPENS)
  BY <1>2 DEF Engine!CanReopen
<1>3. CASE row.closedAt # NULL /\ ~(now <= row.closedAt + Window)
  <2>1. row.closedAt \in Nat
    BY <1>1, <1>3
  <2>2. ~(now' <= row.closedAt + Window)
    BY <1>1, <1>3, <2>1
  <2> QED  BY <1>3, <2>2 DEF Engine!CanReopen
<1> QED  BY <1>2, <1>3 DEF Engine!CanReopen

LEMMA WaitingKeeps ==
    ASSUME ScreenInv, now' \in Nat, now' >= now, UNCHANGED <<row, bug, evaluated, employed, screen>>
    PROVE  ScreenInv'
<1>1. ScreenTyped'
  BY DEF ScreenInv, ScreenTyped, RowFits, Engine!MarkerFits, Engine!HolderFits,
         Engine!OverrideFits, Engine!StatusUnderWait
<1>2. ASSUME NEW v \in Viewers  PROVE PageFits(v)' /\ FormFits(screen[v])' /\ RefusalFits(v)'
  <2>1. availableTransitions(v)' = availableTransitions(v)
    BY DEF availableTransitions
  <2>2. PageFits(v)' /\ FormFits(screen[v])'
    BY <2>1 DEF ScreenInv, PageFits, FormFits
  <2>3. RefusalFits(v)'
    <3>1. Excuse(v, screen[v].refused) => Excuse(v, screen[v].refused)'
      BY TooLateStays DEF ScreenInv, Excuse
    <3> QED  BY <3>1 DEF ScreenInv, RefusalFits
  <2> QED  BY <2>2, <2>3
<1> QED  BY <1>1, <1>2 DEF ScreenInv

-----------------------------------------------------------------------------
LEMMA ScreenStarts == ScreenInit => ScreenInv
<1> SUFFICES ASSUME ScreenInit  PROVE ScreenInv
  OBVIOUS
<1> USE DEF ScreenInit
<1>1. PICK start \in Starts : row = start.row /\ bug = start.bug /\ evaluated = start.evaluated
  OBVIOUS
<1>2. /\ row \in Engine!Row /\ RowFits(row) /\ bug \in {"none", "undiagnosed", "diagnosed"}
      /\ evaluated \in BOOLEAN
  BY <1>1, StartsAssumption DEF RowFits
<1>3. ScreenTyped
  BY <1>2 DEF ScreenTyped, Page
<1>4. ASSUME NEW v \in Viewers  PROVE PageFits(v) /\ FormFits(screen[v]) /\ RefusalFits(v)
  BY DEF PageFits, FormFits, RefusalFits, Closed, Shown
<1> QED  BY <1>3, <1>4 DEF ScreenInv

LEMMA ScreenStepKeeps == ScreenInv /\ [ScreenNext]_screenVars => ScreenInv'
<1> SUFFICES ASSUME ScreenInv, [ScreenNext]_screenVars  PROVE ScreenInv'
  OBVIOUS
<1>1. CASE UNCHANGED screenVars
  BY <1>1, WaitingKeeps DEF screenVars, ScreenInv, ScreenTyped
<1>2. ASSUME NEW v \in Viewers,
             \/ ReadRequest(v) \/ ReadPanels(v) \/ Cancel(v) \/ Confirm(v) \/ Diagnose(v)
             \/ Evaluate(v) \/ \E code \in Codes : FillIn(v, code)
      PROVE  ScreenInv'
  BY <1>2, ReadRequestKeeps, ReadPanelsKeeps, CancelKeeps, ConfirmKeeps, DiagnoseKeeps,
     EvaluateKeeps, FillInKeeps
<1>3. CASE Elsewhere
  BY <1>3, ElsewhereKeeps
<1>4. CASE Tick
  <2>1. now' \in Nat /\ now' >= now /\ UNCHANGED <<row, bug, evaluated, employed, screen>>
    BY <1>4 DEF Tick, ScreenInv, ScreenTyped
  <2> QED  BY <2>1, WaitingKeeps
<1> QED  BY <1>1, <1>2, <1>3, <1>4 DEF ScreenNext

(* TransitionPanel, BugDiagnosticPanel, EvaluationCard: what an up to date page  *)
(* offers, the API accepts, but for the listed cases, whatever any number of     *)
(* users do to the request meanwhile, and however far its treatment has gone.    *)
THEOREM WhatIsOfferedIsAccepted == ScreenSpec => []OffersAreAccepted
<1>1. ScreenInv => OffersAreAccepted
  <2> SUFFICES ASSUME ScreenInv, NEW v \in Viewers, screen[v].phase = "shown", screen[v].fresh,
                      screen[v].refused # NULL
               PROVE  Excuse(v, screen[v].refused)
    BY DEF OffersAreAccepted, Excuse
  <2>1. screen[v] \in Shown
    BY PageKinds DEF ScreenInv, ScreenTyped
  <2> QED  BY <2>1 DEF ScreenInv, RefusalFits
<1>2. ScreenSpec => []ScreenInv
  BY ScreenStarts, ScreenStepKeeps, PTL DEF ScreenSpec
<1> QED  BY <1>1, <1>2, PTL

-----------------------------------------------------------------------------
(* What surrounds the engine, side by side: a step of one part leaves the others  *)
(* alone.                                                                  *)
ServicesInv == TalkInv /\ AttachmentsInv /\ NotificationsInv

LEMMA ServicesInvHolds == ServicesSpec => []ServicesInv
<1>1. ServicesInit => ServicesInv
  BY TalkInvStarts, FilesStart, NoticesStart DEF ServicesInit, ServicesInv
<1>2. ServicesInv /\ [ServicesNext]_servicesVars => ServicesInv'
  <2> SUFFICES ASSUME ServicesInv, [ServicesNext]_servicesVars  PROVE ServicesInv'
    OBVIOUS
  <2>1. /\ [ConversationNext]_conversationVars
        /\ [AttachmentsNext]_attachmentsVars
        /\ [NotificationsNext]_notificationsVars
    BY DEF ServicesNext, servicesVars
  <2> QED  BY <2>1, TalkInvSteps, FilesStep, NoticesStep DEF ServicesInv
<1> QED  BY <1>1, <1>2, PTL DEF ServicesSpec

(* Every row, call and process around the engine keeps its type, whichever part   *)
(* moves, and nothing internal is announced to the client.                   *)
THEOREM ServicesStayTyped == ServicesSpec => []ServicesTypeOK
<1>1. ServicesInv => ServicesTypeOK
  <2>1. TalkInv => ConversationTypeOK
    BY DEF TalkInv, ConversationInv, TalkTyped, RequestRow, HeardFits, Public, Written,
           ConversationTypeOK
  <2>2. AttachmentsInv => AttachmentsTypeOK
    BY DEF AttachmentsInv, FilesTyped, FileInv, Rowed, Vouched, ToScan, AttachmentsTypeOK
  <2>3. NotificationsInv => NotificationsTypeOK
    BY DEF NotificationsInv, NoticesTyped, Mails, NotificationsTypeOK
  <2> QED  BY <2>1, <2>2, <2>3 DEF ServicesInv, ServicesTypeOK
<1> QED  BY <1>1, ServicesInvHolds, PTL
============================================================================
