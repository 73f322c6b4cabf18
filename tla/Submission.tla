----------------------------- MODULE Submission -----------------------------
(***************************************************************************)
(* How a request is born: the form of the portal, step by step, over the   *)
(* catalogue it was opened with; the action that sends it; the creation in *)
(* the API, which checks it against the catalogue of that moment, and      *)
(* numbers it in a transaction. The form may be sent again while it is     *)
(* being sent; other callers create requests meanwhile, the administrators *)
(* edit the catalogue, answers get lost, days pass.                        *)
(***************************************************************************)
EXTENDS Values, Naturals, FiniteSets

CONSTANTS Callers,       \* calls under way at a time: those of the form, and others
          FormCalls,     \* those of the form
          Categories,    \* ids
          Products,
          Catalogs,      \* the catalogues to start from
          Base, Digits,  \* a number is written with Digits digits in base Base
          MaxDay,        \* bound on the days
          SubmissionBudgets  \* bounds on [creations, edits, losses, failures]

ASSUME SubmissionAssumption == /\ FormCalls \subseteq Callers /\ IsFiniteSet(FormCalls)
                               /\ Base \in Nat \ {0, 1} /\ Digits \in Nat \ {0}
                               /\ MaxDay \in Nat \ {0}

VARIABLES catalog,   \* categories and products
          form,      \* what the form holds
          call,      \* the creations under way
          counter,   \* the last number given each day, as committed
          today,
          stored,    \* the requests
          left,      \* what may still happen: creations, edits, losses, failures
          lost,      \* how many answers of the form were lost (history)
          again      \* how many times it was sent by Enter while it was being sent (history)
submissionVars == <<catalog, form, call, counter, today, stored, left, lost, again>>

Spare(what) == left[what] > 0
Use(what) == left' = [left EXCEPT ![what] = @ - 1]

-----------------------------------------------------------------------------
(* The catalogue.                                                            *)

\* What an entry lets through: an inactive or removed one takes no new request.
Category == [state : {"active", "inactive", "removed"}, requiresBugDetails : BOOLEAN]
Product == [state : {"active", "inactive", "removed"}, requiresEnvironment : BOOLEAN]

ASSUME CatalogsAssumption ==
    Catalogs \subseteq [category : [Categories -> Category], product : [Products -> Product]]

EditCategory(c) ==
    /\ Spare("edits") /\ catalog.category[c].state # "removed"
    /\ \E entry \in Category \ {catalog.category[c]} :
          catalog' = [catalog EXCEPT !.category[c] = entry]
    /\ form' = [form EXCEPT !.current = FALSE]
    /\ Use("edits")
    /\ UNCHANGED <<call, counter, today, stored, lost, again>>
EditProduct(p) ==
    /\ Spare("edits") /\ catalog.product[p].state # "removed"
    /\ \E entry \in Product \ {catalog.product[p]} :
          catalog' = [catalog EXCEPT !.product[p] = entry]
    /\ form' = [form EXCEPT !.current = FALSE]
    /\ Use("edits")
    /\ UNCHANGED <<call, counter, today, stored, lost, again>>

-----------------------------------------------------------------------------
(* The form. bug is NULL or what the step "bug" holds; `current` is history:   *)
(* the catalogue was not edited since the form was opened with it.            *)

Bug == [product : Products \cup {NULL}, filled : BOOLEAN, isBlocking : BOOLEAN, environment : BOOLEAN]
EMPTY_BUG == [product |-> NULL, filled |-> FALSE, isBlocking |-> FALSE, environment |-> FALSE]

\* The codes of the refusals are none of them NULL.
ASSUME SubmissionNull ==
    /\ NULL \notin Categories \cup Products \cup Bug
    /\ NULL \notin {"CATEGORY_NOT_FOUND", "CATEGORY_INACTIVE", "BUG_DETAILS_REQUIRED", "INTERNAL_ERROR",
                    "PRODUCT_NOT_FOUND", "BLOCKING_BUG_IMPACT_MISMATCH", "ENVIRONMENT_REQUIRED",
                    "NO_ANSWER", "BLOCAGE", "DEGRADATION"}

\* The page offers what is active in what it reads: nothing of what it could not read.
Seen(readsCategories, readsProducts) ==
    LET hidden(row) == [row EXCEPT !.state = "removed"] IN
    [category |-> [k \in Categories |-> IF readsCategories THEN catalog.category[k]
                                       ELSE hidden(catalog.category[k])],
     product  |-> [p \in Products |-> IF readsProducts THEN catalog.product[p]
                                     ELSE hidden(catalog.product[p])]]
NewRequestPage ==
    /\ form.phase = "closed"
    /\ \E categories, products \in BOOLEAN :
          /\ form' = [form EXCEPT !.phase = "editing", !.seen = Seen(categories, products), !.current = TRUE]
          /\ IF categories /\ products THEN UNCHANGED left ELSE Spare("failures") /\ Use("failures")
    /\ UNCHANGED <<catalog, call, counter, today, stored, lost, again>>

isBug == form.category # NULL /\ form.seen.category[form.category].requiresBugDetails
Steps == IF isBug THEN <<"category", "description", "bug", "impact", "review">>
         ELSE <<"category", "description", "impact", "review">>
Step == Steps[form.stepIdx]

\* useTransition: until every answer came, and the page of the request replaces the form.
InFlight == {c \in FormCalls : call[c].phase # "idle"}
submitting == InFlight # {} \/ form.phase = "leaving"

Edit(f) == form' = f /\ UNCHANGED <<catalog, call, counter, today, stored, left, lost, again>>
On(step) == form.phase = "editing" /\ Step = step

\* A plausible bug: going from a category of bugs to another one keeps the details.
onCategoryChange_Wrong(c) ==
    [form EXCEPT !.category = c,
                 !.bug = IF form.seen.category[c].requiresBugDetails /\ @ = NULL THEN EMPTY_BUG ELSE @]
onCategoryChange(c) ==
    [form EXCEPT !.category = c,
                 !.bug = IF ~form.seen.category[c].requiresBugDetails THEN NULL
                         ELSE IF @ = NULL THEN EMPTY_BUG ELSE @]

CategoryStep ==
    /\ On("category")
    /\ \E c \in Categories : form.seen.category[c].state = "active" /\ Edit(onCategoryChange(c))
DescriptionStep == On("description") /\ Edit([form EXCEPT !.described = TRUE])
\* The environment is only asked for a product that requires it.
BugStep ==
    /\ On("bug")
    /\ \/ \E p \in Products : /\ form.seen.product[p].state = "active"
                              /\ Edit([form EXCEPT !.bug.product = p, !.bug.filled = TRUE])
       \/ Edit([form EXCEPT !.bug.isBlocking = ~@])
       \/ /\ form.bug.product # NULL /\ form.seen.product[form.bug.product].requiresEnvironment
          /\ Edit([form EXCEPT !.bug.environment = TRUE])
\* A blocking bug disables the impacts that do not block; one already chosen stays.
ImpactStep ==
    /\ On("impact")
    /\ \E blocks \in BOOLEAN :
          /\ isBug /\ form.bug.isBlocking => blocks
          /\ Edit([form EXCEPT !.impact = IF blocks THEN "BLOCAGE" ELSE "DEGRADATION"])

\* The fields of a step that the schema accepts.
Valid(step) ==
    CASE step = "category" -> form.category # NULL
      [] step = "description" -> form.described
      [] step = "bug" -> form.bug # NULL => form.bug.filled
      [] step = "impact" -> form.impact # NULL
      [] step = "review" -> TRUE
createRequestSchema == \A s \in {"category", "description", "bug", "impact"} : Valid(s)

\* The buttons between the steps are disabled while the form is being sent.
goNext == /\ form.phase = "editing" /\ ~submitting /\ Valid(Step) /\ Step # "review"
          /\ Edit([form EXCEPT !.stepIdx = @ + 1])
goBack == /\ form.phase = "editing" /\ ~submitting /\ form.stepIdx > 1
          /\ Edit([form EXCEPT !.stepIdx = @ - 1])

Dto(category, impact, bug) == [category |-> category, impact |-> impact, bug |-> bug]

Called(c, dto) == [call EXCEPT ![c] = [phase |-> "received", dto |-> dto]]

\* A plausible bug: the button stays enabled while the form is being sent.
sendsBy_Wrong(step) ==
    \/ step = "review" /\ UNCHANGED again
    \/ step = "description" /\ again' = IF submitting THEN again + 1 ELSE again
\* The button of the last step is disabled while the form is being sent. Nothing disables
\* Enter in the title, the only single line of its step: a form without a submit button
\* is sent from there, whatever its later steps hold.
sendsBy(step) ==
    \/ step = "review" /\ ~submitting /\ UNCHANGED again
    \/ step = "description" /\ again' = IF submitting THEN again + 1 ELSE again

\* handleSubmit checks the whole schema, and onSubmit calls the action.
submitRequestAction(c) ==
    /\ form.phase \in {"editing", "leaving"} /\ sendsBy(Step) /\ createRequestSchema
    /\ c \in FormCalls /\ call[c].phase = "idle"
    /\ Spare("creations") /\ Use("creations")
    /\ form' = [form EXCEPT !.refused = NULL]
    /\ call' = Called(c, Dto(form.category, form.impact, form.bug))
    /\ UNCHANGED <<catalog, counter, today, stored, lost>>

\* Any other caller of POST /requests.
Post(c) ==
    /\ c \notin FormCalls /\ call[c].phase = "idle"
    /\ Spare("creations") /\ Use("creations")
    /\ \E k \in Categories, p \in Products, details \in BOOLEAN :
          call' = Called(c, Dto(k, "BLOCAGE",
                     IF details THEN [EMPTY_BUG EXCEPT !.product = p, !.filled = TRUE, !.environment = TRUE]
                     ELSE NULL))
    /\ UNCHANGED <<catalog, form, counter, today, stored, lost, again>>

-----------------------------------------------------------------------------
(* RequestsService.create.                                                   *)

\* What is refused before the transaction: the code, or NULL.
CategoryRefusal(dto) ==
    LET k == catalog.category[dto.category] IN
    IF k.state = "removed" THEN "CATEGORY_NOT_FOUND"
    ELSE IF k.state = "inactive" THEN "CATEGORY_INACTIVE"
    ELSE IF k.requiresBugDetails /\ dto.bug = NULL THEN "BUG_DETAILS_REQUIRED"
    ELSE NULL
\* What the details of a bug are refused for, inside it.
BugRefusal(dto) ==
    LET p == catalog.product[dto.bug.product] IN
    IF p.state # "active" THEN "PRODUCT_NOT_FOUND"
    ELSE IF dto.bug.isBlocking /\ dto.impact # "BLOCAGE" THEN "BLOCKING_BUG_IMPACT_MISMATCH"
    ELSE IF p.requiresEnvironment /\ ~dto.bug.environment THEN "ENVIRONMENT_REQUIRED"
    ELSE NULL

Limit == Base ^ Digits
\* What holds of any such power, for provers that know no exponentiation.
ASSUME LimitAssumption == Limit \in Nat /\ Limit \div Base \in 1 .. Limit - 1
\* lpad pads a short number, and cuts a long one to its first digits.
Lpad(n) == IF n < Limit THEN n ELSE n \div Base
Reference(day, n) == <<day, Lpad(n)>>

\* The caller gets an answer; a refusal is shown by the form, which can be sent again;
\* a success has the form leave for the page of the request, whatever else it sent.
AnswerCall(c, refusal) ==
    /\ call' = [call EXCEPT ![c] = [phase |-> "idle"]]
    /\ form' = IF c \notin FormCalls THEN form
               ELSE IF refusal # NULL THEN [form EXCEPT !.refused = refusal]
               ELSE [form EXCEPT !.phase = IF @ = "editing" THEN "leaving" ELSE @]
Redirected == form.phase = "leaving" /\ Edit([form EXCEPT !.phase = "done"])

CheckCategory(c) ==
    /\ call[c].phase = "received"
    /\ LET dto == call[c].dto IN
       IF CategoryRefusal(dto) # NULL
       THEN AnswerCall(c, CategoryRefusal(dto))
       ELSE /\ call' = [call EXCEPT ![c] = [phase |-> "checked", dto |-> dto,
                           details |-> catalog.category[dto.category].requiresBugDetails]]
            /\ UNCHANGED form
    /\ UNCHANGED <<catalog, counter, today, stored, left, lost, again>>

\* The day is that of now(), the time the transaction starts at.
BeginTransaction(c) ==
    /\ call[c].phase = "checked"
    /\ call' = [call EXCEPT ![c] = [phase |-> "begun", dto |-> @.dto, details |-> @.details, day |-> today]]
    /\ UNCHANGED <<catalog, form, counter, today, stored, left, lost, again>>

\* A plausible bug: the upsert returns the counter as it was.
NextNumber_Wrong(day) == counter[day]
NextNumber(day) == counter[day] + 1

\* The upsert locks the counter of the day until the transaction ends.
TakeReference(c) ==
    /\ call[c].phase = "begun"
    /\ \A d \in Callers : call[d].phase = "numbered" => call[d].day # call[c].day
    /\ call' = [call EXCEPT ![c] = [phase |-> "numbered", dto |-> @.dto, details |-> @.details,
                                    day |-> @.day, number |-> NextNumber(@.day)]]
    /\ UNCHANGED <<catalog, form, counter, today, stored, left, lost, again>>

\* The insertion meets the unique index on the reference; the details of a bug may be
\* refused; any statement may fail.
Insert(c) ==
    /\ call[c].phase = "numbered"
    /\ LET dto == call[c].dto
           ref == Reference(call[c].day, call[c].number)
           taken == \E r \in stored : r.ref = ref
           refusal == IF taken THEN "INTERNAL_ERROR"
                      ELSE IF call[c].details THEN BugRefusal(dto) ELSE NULL
       IN  \/ /\ refusal = NULL
              /\ counter' = [counter EXCEPT ![call[c].day] = call[c].number]
              /\ stored' = stored \cup {[ref |-> ref, by |-> c, dto |-> dto, details |-> call[c].details]}
              /\ \/ AnswerCall(c, NULL) /\ UNCHANGED <<left, lost>>
                 \* The answer is lost: the form shows an error and can be sent again.
                 \/ /\ Spare("losses") /\ Use("losses") /\ AnswerCall(c, "NO_ANSWER")
                    /\ lost' = IF c \in FormCalls THEN lost + 1 ELSE lost
           \/ /\ refusal # NULL
              /\ UNCHANGED counter /\ AnswerCall(c, refusal)
              /\ UNCHANGED <<stored, left, lost>>
           \/ /\ Spare("failures") /\ Use("failures")
              /\ UNCHANGED counter /\ AnswerCall(c, "INTERNAL_ERROR")
              /\ UNCHANGED <<stored, lost>>
    /\ UNCHANGED <<catalog, today, again>>

NextDay == /\ today < MaxDay /\ today' = today + 1
           /\ UNCHANGED <<catalog, form, call, counter, stored, left, lost, again>>

SubmissionInit ==
    /\ catalog \in Catalogs
    /\ form = [phase |-> "closed", seen |-> NULL, current |-> TRUE, stepIdx |-> 1, category |-> NULL,
               described |-> FALSE, bug |-> NULL, impact |-> NULL, refused |-> NULL]
    /\ call = [c \in Callers |-> [phase |-> "idle"]]
    /\ counter = [d \in 1..MaxDay |-> 0] /\ today = 1
    /\ stored = {}
    /\ left \in SubmissionBudgets /\ lost = 0 /\ again = 0
SubmissionNext ==
    \/ \E k \in Categories : EditCategory(k)
    \/ \E p \in Products : EditProduct(p)
    \/ NewRequestPage \/ CategoryStep \/ DescriptionStep \/ BugStep \/ ImpactStep
    \/ goNext \/ goBack \/ Redirected
    \/ \E c \in Callers : \/ submitRequestAction(c) \/ Post(c) \/ CheckCategory(c)
                         \/ BeginTransaction(c) \/ TakeReference(c) \/ Insert(c)
    \/ NextDay
SubmissionSpec == SubmissionInit /\ [][SubmissionNext]_submissionVars

-----------------------------------------------------------------------------
(* Properties.                                                               *)

StoredOn(day) == {r \in stored : r.ref[1] = day}

\* The requests of a day are numbered 1, 2, 3... without a gap or a repetition, whatever
\* creations overlap, fail or wait for each other across midnight, until the numbers outgrow their digits; then
\* none is created any more that day (next_public_request_reference, and the transaction
\* it is called in "to avoid gaps", requests.service.ts).
ReferencesWithoutGap ==
    \A day \in 1..MaxDay :
        LET n == Cardinality(StoredOn(day)) IN
        /\ {r.ref[2] : r \in StoredOn(day)} = 1..n
        /\ n < Limit

\* The checks of the form and those of the API agree. As long as the catalogue is not
\* edited behind the form, the API refuses what the form let through only for a choice
\* the form shows (an impact chosen before the bug was said to block, an environment left
\* empty), and what it stores is what the form showed (createRequestSchema,
\* onCategoryChange; create, createInTransaction).
FormAgreesWithServer ==
    form.seen # NULL /\ form.current =>
        /\ form.refused \in {NULL, "NO_ANSWER", "INTERNAL_ERROR", "BLOCKING_BUG_IMPACT_MISMATCH",
                             "ENVIRONMENT_REQUIRED"}
        /\ \A r \in stored : r.by \in FormCalls => (r.dto.bug # NULL <=> r.details)

\* The button of the form never sends it twice: a form gives birth to one request, one
\* more for each answer that was lost, and one more each time Enter sent it while it was
\* being sent (submitting, which the buttons look at; onSubmit does not, so that Enter in
\* the title of a form whose client went back to it creates the request twice).
ButtonSendsOnce ==
    Cardinality({r \in stored : r.by \in FormCalls}) <= 1 + lost + again
=============================================================================
