---------------------------- MODULE QueryWorkspace ----------------------------
(***************************************************************************)
(* The query workspace of the web client                                   *)
(* (frontend/src/features/query/QueryWorkspace.tsx) and the feedback panel *)
(* below its result (FeedbackPanel.tsx), against a backend whose answers   *)
(* carry the codes and statuses of backend/app/api/query.py and whose      *)
(* executor keeps the promise of GuardedExecution.                         *)
(*                                                                         *)
(* React renders after every event before it delivers the next one, so an  *)
(* event handler and the setState calls in it are one step; what follows   *)
(* an await is another.                                                    *)
(***************************************************************************)
EXTENDS Naturals, FiniteSets

CONSTANTS
  MaxRequests,  \* bound: how many questions are submitted
  MaxSends,     \* bound: how many times feedback is sent
  None

ASSUME WorkspaceAssumption ==
  /\ MaxRequests \in Nat
  /\ MaxSends \in Nat
  /\ None \notin Nat

Requests == 1 .. MaxRequests

Ratings == {"correct", "incorrect", "unsure"}

Executor == INSTANCE GuardedExecution WITH phase <- "idle", answer <- "none"

\* Codes of the errors that are told before the executor is called: those of the
\* question and of the provider.
EarlyCodes ==
  {"empty_question", "question_too_long", "sql_generation_malformed_output",
   "sql_generation_provider_timeout", "sql_generation_rate_limited",
   "sql_generation_credentials_unavailable",
   "sql_generation_provider_unavailable"}

\* The code of the catch-all handler, for whatever no one expected at any point of
\* the request: an introspection that fails, a text the parser raises on, but also
\* a check of the rows that raises and a result that cannot be rendered.
CatchAllCodes == {"internal_server_error"}

\* An error of the proxy, whose body is not the backend's JSON, and a fetch that
\* fails: no APIClientError, hence no code.
TransportCodes == {"http_error", "no_answer"}

ErrorCodes ==
  EarlyCodes \cup CatchAllCodes \cup (Executor!Codes \ {"executed"}) \cup TransportCodes

\* public_error_from_*: the codes that are sent with status 422.
UnprocessableCodes ==
  {"empty_question", "sql_guardrail_plan_too_expensive",
   "sql_guardrail_plan_reference_mismatch"}

\* The codes that contain "blocked", "guardrail" or "validation".
RefusingCodes ==
  {"sql_validation_failed", "sql_guardrail_plan_error",
   "sql_guardrail_explain_timeout", "sql_guardrail_plan_too_expensive",
   "sql_guardrail_plan_reference_mismatch"}

\* Mutant of IsBlockedError: any 502 is a refusal, as that of the policy is.
IsBlockedError_BadGateway(code) ==
  code \in UnprocessableCodes \cup RefusingCodes \cup {"sql_execution_error"}

IsBlockedError(code) == code \in UnprocessableCodes \cup RefusingCodes

\* Whether the database may have run the SQL of a request that ends with this
\* code: an executor that blocks did not, one that fails may have, and neither
\* the catch-all handler nor an answer that never came tells.
MayHaveRun(code) ==
  IF code \in Executor!FailureCodes \cup CatchAllCodes \cup TransportCodes
  THEN BOOLEAN ELSE {FALSE}

VARIABLES
  status,    \* "idle", "loading", "success", "blocked" or "failed"
  latest,    \* state.latestSuccess: the request whose result is shown, or None
  submitted, \* how many requests were submitted
  awaited,   \* whether the last one is in flight
  rating,    \* the feedback panel's rating, or None
  panel,     \* its status: "idle", "submitting", "success" or "failed"
  locked,    \* its submissionLockedRef
  sends,     \* the feedback requests in flight, [to, stored]
  rows,      \* the backend's feedback rows per request
  ran,       \* history: the requests whose SQL the database ran
  failures   \* history: the feedback requests per request that ended in an error

queryVars == <<status, latest, submitted, awaited, ran>>
panelVars == <<rating, panel, locked>>
feedbackVars == <<sends, rows, failures>>
vars == <<queryVars, panelVars, feedbackVars>>

Init ==
  /\ status = "idle" /\ latest = None /\ submitted = 0 /\ awaited = FALSE
  /\ rating = None /\ panel = "idle" /\ locked = FALSE
  /\ sends = {}
  /\ rows = [r \in Requests |-> 0]
  /\ ran = {}
  /\ failures = [r \in Requests |-> 0]

\* submitQuestion, from the form, a clarification option or the retry button.
\* The previous result stays, and with it the panel below it.
SubmitQuestion ==
  /\ status # "loading"
  /\ submitted < MaxRequests
  /\ submitted' = submitted + 1
  /\ awaited' = TRUE
  /\ status' = "loading"
  /\ UNCHANGED <<latest, ran, panelVars, feedbackVars>>

\* A query result replaces the previous one; the panel is the same component
\* with another requestId, and keeps its state.
ReceiveResult ==
  /\ awaited
  /\ awaited' = FALSE
  /\ status' = "success"
  /\ latest' = submitted
  /\ ran' = ran \cup {submitted}
  /\ UNCHANGED <<submitted, panelVars, feedbackVars>>

ReceiveClarification ==
  /\ awaited
  /\ awaited' = FALSE
  /\ status' = "blocked"
  /\ UNCHANGED <<latest, submitted, ran, panelVars, feedbackVars>>

\* Mutant of ReceiveError: only the refusals are caught.
ReceiveError_OnlyBlocked ==
  /\ awaited
  /\ awaited' = FALSE
  /\ \E code \in ErrorCodes :
       /\ status' = IF IsBlockedError(code) THEN "blocked" ELSE status
       /\ \E happened \in MayHaveRun(code) :
            ran' = IF happened THEN ran \cup {submitted} ELSE ran
  /\ UNCHANGED <<latest, submitted, panelVars, feedbackVars>>

ReceiveError ==
  /\ awaited
  /\ awaited' = FALSE
  /\ \E code \in ErrorCodes :
       /\ status' = IF IsBlockedError(code) THEN "blocked" ELSE "failed"
       /\ \E happened \in MayHaveRun(code) :
            ran' = IF happened THEN ran \cup {submitted} ELSE ran
  /\ UNCHANGED <<latest, submitted, panelVars, feedbackVars>>

-----------------------------------------------------------------------------
(* The feedback panel, there once a result was shown.                      *)

IsLocked == panel \in {"submitting", "success"}

SelectRating(r) ==
  /\ latest # None
  /\ ~IsLocked
  /\ rating' = r
  /\ UNCHANGED <<queryVars, panel, locked, feedbackVars>>

Send ==
  /\ latest # None
  /\ rating # None
  /\ Cardinality(sends) < MaxSends
  /\ sends' = sends \cup {[to |-> latest, stored |-> FALSE]}
  /\ locked' = TRUE
  /\ panel' = "submitting"
  /\ UNCHANGED <<queryVars, rating, rows, failures>>

\* Mutant of SubmitFeedback: neither the lock nor the status is looked at.
SubmitFeedback_Unlocked == Send

\* handleSubmit and the part of submitFeedback before its await.
SubmitFeedback ==
  /\ ~IsLocked
  /\ ~locked
  /\ Send

\* The backend stores the feedback.
StoreFeedback(s) ==
  /\ s \in sends /\ ~s.stored
  /\ rows' = [rows EXCEPT ![s.to] = @ + 1]
  /\ sends' = (sends \ {s}) \cup {[s EXCEPT !.stored = TRUE]}
  /\ UNCHANGED <<queryVars, panelVars, failures>>

\* The answer is there: the panel says "Feedback recorded."
FeedbackSucceeds(s) ==
  /\ s \in sends /\ s.stored
  /\ sends' = sends \ {s}
  /\ panel' = "success"
  /\ UNCHANGED <<queryVars, rating, locked, rows, failures>>

\* The request fails, before or after the backend stored the feedback; the user
\* may send it again.
FeedbackFails(s) ==
  /\ s \in sends
  /\ failures[s.to] < MaxSends
  /\ sends' = sends \ {s}
  /\ failures' = [failures EXCEPT ![s.to] = @ + 1]
  /\ panel' = "failed"
  /\ locked' = FALSE
  /\ UNCHANGED <<queryVars, rating, rows>>

-----------------------------------------------------------------------------
Receive == ReceiveResult \/ ReceiveClarification \/ ReceiveError

Settle == \E s \in sends : StoreFeedback(s) \/ FeedbackSucceeds(s) \/ FeedbackFails(s)

Next ==
  \/ SubmitQuestion
  \/ Receive
  \/ \E r \in Ratings : SelectRating(r)
  \/ SubmitFeedback
  \/ Settle

Spec == Init /\ [][Next]_vars

\* The backend answers, or the proxy does when it has waited long enough, or the
\* connection breaks: a fetch always ends.
FairSpec == Spec /\ WF_vars(Receive) /\ WF_vars(Settle)

-----------------------------------------------------------------------------
(* Properties.                                                             *)

\* The variables have their types, and the panel's lock follows its status.
TypeOK ==
  /\ status \in {"idle", "loading", "success", "blocked", "failed"}
  /\ latest \in (1 .. submitted) \cup {None}
  /\ submitted \in 0 .. MaxRequests
  /\ awaited \in BOOLEAN
  /\ awaited <=> status = "loading"
  /\ rating \in Ratings \cup {None}
  /\ panel \in {"idle", "submitting", "success", "failed"}
  /\ locked \in BOOLEAN
  /\ locked <=> IsLocked
  /\ sends \subseteq [to : Requests, stored : BOOLEAN]
  /\ rows \in [Requests -> Nat]
  /\ ran \subseteq Requests
  /\ failures \in [Requests -> Nat]

\* "Not executed" and "Query was not executed." are true: the client decides it
\* from the status and from words in the code, the backend from the step that
\* failed, and no test runs the two together.
NotExecutedIsTrue == status = "blocked" => submitted \notin ran

\* What App.test.tsx:455 calls submitting feedback once: the rows stored for a
\* request are never more than one, but for those whose sending was reported to
\* the user as a failure.
FeedbackSentOnce ==
  \A r \in Requests : rows[r] <= 1 + failures[r]

\* A submitted question does not leave the workspace loading, with its form
\* disabled, for good; nor does the panel stay at "Sending".
WorkspaceSettles ==
  /\ (status = "loading") ~> (status # "loading")
  /\ (panel = "submitting") ~> (panel # "submitting")

\* FeedbackPanel.tsx:57 heads the panel "Result feedback", and :47 has it say
\* "Feedback recorded.": of the result above it.  The panel keeps its status
\* when another result takes the place of the one that was rated.
RecordedIsTrue == panel = "success" => rows[latest] > 0
=============================================================================
