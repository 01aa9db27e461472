---------------------------- MODULE QueryWorkflow ----------------------------
(***************************************************************************)
(* The life of the requests a backend process serves: POST /v1/query and   *)
(* POST /v1/query/draft (backend/app/api/query.py), the workflow behind    *)
(* them (services/query_workflow.py, services/query_draft.py), the retry   *)
(* loop of the SQL provider (providers/openai_sql_generation.py), the      *)
(* second opinion (services/multi_query_agreement.py), the audit record    *)
(* (services/query_history.py) and POST /v1/feedback (api/history.py).     *)
(* The executor is GuardedExecution, which QueryExecution implements; the  *)
(* audit tables are AuditTables.                                           *)
(*                                                                         *)
(* Handlers are coroutines whose bodies never yield, so a process serves   *)
(* one request from its start to its response while the others wait in no  *)
(* particular order.  Meanwhile a client or the proxy in front of it may   *)
(* give up, which the handler does not notice, a client may post again     *)
(* under the same X-Request-ID or a new one, and the process may die.      *)
(***************************************************************************)
EXTENDS Naturals, Sequences, FiniteSets

CONSTANTS
  ClientIds,       \* X-Request-ID values that clients choose, and may reuse
  MaxPosts,        \* bound: how many requests are ever posted
  Retries,         \* settings.sql_generation_max_retries
  AlternateRetries,\* settings.confidence_multi_query_max_retries
  None

PostNumbers == 1 .. MaxPosts

\* RequestIDMiddleware: the client's header, or a fresh uuid, for which the
\* number of the post stands.
RequestIds == ClientIds \cup PostNumbers

Endpoints == {"query", "draft"}

\* What the checks before the provider tell apart: a question that is empty or
\* too long; one that is ambiguous or matches no table; any other.
Questions == {"invalid", "ambiguous", "clear"}

Posts == [id : RequestIds, endpoint : Endpoints, question : Questions]

\* The SQL a provider writes for a post: the draft, and the alternate draft of
\* the second opinion.
Sql(n, role) == [post |-> n, role |-> role]
Sqls == [post : PostNumbers, role : {"primary", "alternate"}]

Outcomes == {"success", "clarification_required", "blocked", "failed"}

\* What SQLGenerationError's subclasses tell apart; only the first two are retried.
RetriedFailures == {"rate_limited", "provider_timeout"}
ProviderFailures == RetriedFailures \cup {"malformed_output", "unavailable"}

VARIABLES
  posts,     \* the requests posted so far
  waiting,   \* the posts whose client still waits
  inbox,     \* the posts received and not started
  current,   \* the post being served, 0 when there is none
  pc,        \* where its handler is
  role,      \* which draft is being asked for: "primary" or "alternate"
  attempts,  \* failed attempts of the current call of the provider
  draft,     \* the SQL the executor is given, or None
  result,    \* the SQL whose rows the handler holds, or None
  phase,     \* the executor's call (GuardedExecution)
  answer,    \* the executor's last answer (GuardedExecution)
  reply,     \* what the handler is about to record and answer, or None
  answers,   \* what each post's client received, or None
  records,   \* the audit tables (AuditTables)
  feedback,
  approved,  \* history: the SQL the policy approved
  ran,       \* history: the SQL the database ran
  obtained,  \* history: the posts whose own SQL was answered with rows
  calls,     \* history: calls of the provider per post
  unrecorded \* history: the posts whose record could not be written

clientVars == <<posts, waiting, answers>>
callVars == <<phase, answer>>
tableVars == <<records, feedback>>
draftVars == <<role, attempts, draft, result>>
historyVars == <<approved, ran, obtained, calls, unrecorded>>
vars == <<clientVars, inbox, current, pc, draftVars, callVars, reply, tableVars,
          historyVars>>

Executor == INSTANCE GuardedExecution

\* Public codes of the errors a reply may carry, and what stands for none.
ReplyCodes ==
  Executor!Codes \cup ProviderFailures \cup
  {"invalid_question", "clarification_required", "drafted", "internal_server_error"}

Replies ==
  [kind : {"query_result", "sql_draft", "clarification_required", "error"},
   code : ReplyCodes, outcome : Outcomes \cup {None}, sql : Sqls \cup {None}]

Records ==
  [post : PostNumbers, outcome : Outcomes, reason : ReplyCodes, sql : Sqls \cup {None}]

Tables == INSTANCE AuditTables WITH Contents <- Records, Remarks <- PostNumbers,
                                    NoRecord <- None

ASSUME WorkflowAssumption ==
  /\ MaxPosts \in Nat
  /\ Retries \in Nat
  /\ AlternateRetries \in Nat
  /\ None \notin Records \cup Replies \cup Sqls \cup Outcomes
  /\ None \notin [serial : Nat, content : Records]

Asked == posts[current]
Own == Sql(current, "primary")

-----------------------------------------------------------------------------
Init ==
  /\ posts = <<>> /\ waiting = {} /\ inbox = {}
  /\ answers = [n \in PostNumbers |-> None]
  /\ current = 0 /\ pc = "idle"
  /\ role = "primary" /\ attempts = 0 /\ draft = None /\ result = None
  /\ reply = None
  /\ Executor!Init
  /\ Tables!Init
  /\ approved = {} /\ ran = {} /\ obtained = {} /\ unrecorded = {}
  /\ calls = [n \in PostNumbers |-> 0]

\* No handler runs: its variables are gone, and so is the executor's answer,
\* for the executor that requests share keeps nothing between calls.
Idle ==
  /\ current' = 0 /\ pc' = "idle"
  /\ role' = "primary" /\ attempts' = 0 /\ draft' = None /\ result' = None
  /\ phase' = "idle" /\ answer' = "none"
  /\ reply' = None

-----------------------------------------------------------------------------
(* Clients, the proxy, and the process.                                    *)

Post(id, endpoint, question) ==
  LET n == Len(posts) + 1
  IN /\ n <= MaxPosts
     /\ id \in ClientIds \cup {n}
     /\ posts' = Append(posts, [id |-> id, endpoint |-> endpoint, question |-> question])
     /\ waiting' = waiting \cup {n}
     /\ inbox' = inbox \cup {n}
     /\ UNCHANGED <<answers, current, pc, draftVars, callVars, reply, tableVars,
                    historyVars>>

\* The client disconnects or the proxy's read timeout expires; what the process
\* does for this post goes on.
GiveUp(n) ==
  /\ n \in waiting
  /\ waiting' = waiting \ {n}
  /\ UNCHANGED <<posts, answers, inbox, current, pc, draftVars, callVars, reply,
                 tableVars, historyVars>>

\* The process dies and is started again: the proxy answers every waiting
\* client with an error of its own, and PostgreSQL rolls back.
Crash ==
  /\ current # 0 \/ inbox # {}
  /\ waiting' = {} /\ inbox' = {}
  /\ Idle
  /\ UNCHANGED <<posts, answers, tableVars, historyVars>>

\* POST /v1/feedback by a client that was answered; without a record of the
\* request id, or when the audit database fails, it is refused and nothing
\* changes.  A handler like the others, it runs only between requests.
GiveFeedback(n) ==
  /\ pc = "idle"
  /\ answers[n] # None
  /\ Tables!AddFeedback(posts[n].id, n)
  /\ UNCHANGED <<clientVars, inbox, current, pc, draftVars, callVars, reply,
                 historyVars>>

-----------------------------------------------------------------------------
(* The handler.  query_history_enabled is on, its default; the workflow's    *)
(* errors for a draft without SQL are left out, for the structured result of *)
(* a provider has either SQL or clarification options.                       *)

\* The handler's next step is to record and answer this.  Only POST /v1/query
\* keeps a history.
Conclude(kind, code, outcome, sql) ==
  /\ reply' = [kind |-> kind, code |-> code, outcome |-> outcome, sql |-> sql]
  /\ pc' = IF Asked.endpoint = "query" THEN "record" ELSE "respond"

Fail(code, outcome, sql) == Conclude("error", code, outcome, sql)

Clarify ==
  Conclude("clarification_required", "clarification_required",
           "clarification_required", None)

Start(n) ==
  /\ pc = "idle"
  /\ n \in inbox
  /\ inbox' = inbox \ {n}
  /\ current' = n
  /\ pc' = "validate"
  /\ UNCHANGED <<clientVars, draftVars, callVars, reply, tableVars, historyVars>>

\* validate_question; for POST /v1/query a refusal is a workflow error that
\* history calls "blocked".
ValidateQuestion ==
  /\ pc = "validate"
  /\ IF Asked.question = "invalid"
     THEN Fail("invalid_question", "blocked", None)
     ELSE pc' = "schema" /\ UNCHANGED reply
  /\ UNCHANGED <<clientVars, inbox, current, draftVars, callVars, tableVars,
                 historyVars>>

\* get_schema, from the cache or from the database.
GetSchema ==
  /\ pc = "schema"
  /\ pc' = "draft"
  /\ UNCHANGED <<clientVars, inbox, current, draftVars, callVars, reply, tableVars,
                 historyVars>>

\* An exception that only the catch-all handler of the process catches: it records
\* nothing, nor does it take back what is recorded.
Unhandled ==
  /\ reply' = [kind |-> "error", code |-> "internal_server_error",
               outcome |-> None, sql |-> None]
  /\ pc' = "respond"

\* A database error of the introspection.
SchemaFails ==
  /\ pc = "schema"
  /\ Unhandled
  /\ UNCHANGED <<clientVars, inbox, current, draftVars, callVars, tableVars,
                 historyVars>>

\* QueryDraftService.draft finds an ambiguity, or no table, before any call of
\* the provider.
ClarifyBeforeProvider ==
  /\ pc = "draft"
  /\ Asked.question = "ambiguous"
  /\ Clarify
  /\ UNCHANGED <<clientVars, inbox, current, draftVars, callVars, tableVars,
                 historyVars>>

\* One attempt of the provider call, for the draft or for the alternate.
CallProvider ==
  /\ pc = "draft"
  /\ Asked.question = "clear"
  /\ calls' = [calls EXCEPT ![current] = @ + 1]
  /\ UNCHANGED <<clientVars, inbox, current, callVars, tableVars, result,
                 ran, obtained, unrecorded>>

\* Mutant of ProviderRetried: one retry too many.
ProviderRetried_OneMore ==
  /\ CallProvider
  /\ attempts <= Retries
  /\ attempts' = attempts + 1
  /\ UNCHANGED <<pc, role, draft, reply, approved>>

\* generate: a rate limit or a timeout is followed by another attempt.
ProviderRetried ==
  /\ CallProvider
  /\ attempts < Retries
  /\ attempts' = attempts + 1
  /\ UNCHANGED <<pc, role, draft, reply, approved>>

\* Without a second opinion the signals gathered so far are scored.
WithoutAgreement ==
  /\ pc' = "score"
  /\ UNCHANGED reply

ProviderFails ==
  /\ CallProvider
  /\ \E failure \in ProviderFailures :
       /\ failure \in RetriedFailures => attempts >= Retries
       /\ IF role = "primary" THEN Fail(failure, "failed", None)
                              ELSE WithoutAgreement
  /\ UNCHANGED <<role, attempts, draft, approved>>

\* The provider asks for clarification instead of writing SQL.
ProviderAsks ==
  /\ CallProvider
  /\ IF role = "primary" THEN Clarify ELSE WithoutAgreement
  /\ UNCHANGED <<role, attempts, draft, approved>>

\* The policy refuses the draft; its original text goes into the history.
DraftRejected ==
  /\ CallProvider
  /\ role = "primary"
  /\ Fail("sql_validation_failed", "blocked", Own)
  /\ UNCHANGED <<role, attempts, draft, approved>>

\* The policy raises instead of judging (GuardrailPipeline, Raises): a text of which
\* the parser or the scopes of sqlglot make nothing.
DraftRaises ==
  /\ CallProvider
  /\ role = "primary"
  /\ Unhandled
  /\ UNCHANGED <<role, attempts, draft, approved>>

\* Mutant of DraftApproved: the endpoint is not looked at.
DraftApproved_AlwaysExecutes ==
  /\ CallProvider
  /\ role = "primary"
  /\ approved' = approved \cup {Own}
  /\ draft' = Own /\ pc' = "execute"
  /\ UNCHANGED <<role, attempts, reply>>

DraftApproved ==
  /\ CallProvider
  /\ role = "primary"
  /\ approved' = approved \cup {Own}
  /\ IF Asked.endpoint = "query"
     THEN draft' = Own /\ pc' = "execute" /\ UNCHANGED reply
     ELSE Conclude("sql_draft", "drafted", None, Own) /\ UNCHANGED draft
  /\ UNCHANGED <<role, attempts>>

\* The alternate draft is dropped when it took too long or too many retries;
\* otherwise the executor is its first judge.
AlternateWritten ==
  /\ CallProvider
  /\ role = "alternate"
  /\ \/ WithoutAgreement /\ UNCHANGED draft
     \/ /\ attempts <= AlternateRetries
        /\ draft' = Sql(current, "alternate")
        /\ pc' = "execute"
        /\ UNCHANGED reply
  /\ UNCHANGED <<role, attempts, approved>>

\* execute() is called.  Its own validation accepts the draft that the policy
\* already approved under the same catalog (GuardrailPipeline), and accepts or
\* refuses the alternate.
HandOver ==
  /\ pc = "execute"
  /\ \/ Executor!Submit /\ approved' = approved \cup {draft}
     \/ role = "alternate" /\ Executor!Refuse /\ UNCHANGED approved
  /\ pc' = "executing"
  /\ UNCHANGED <<clientVars, inbox, current, draftVars, reply, tableVars,
                 ran, obtained, calls, unrecorded>>

\* The executor's steps: the plan is approved, the database runs the SQL, the
\* call ends.
ExecutorStep ==
  /\ pc = "executing"
  /\ \/ Executor!Approve /\ UNCHANGED ran
     \/ Executor!Run /\ ran' = ran \cup {draft}
     \/ Executor!Answer /\ UNCHANGED ran
  /\ UNCHANGED <<clientVars, inbox, current, pc, draftVars, reply, tableVars,
                 approved, obtained, calls, unrecorded>>

\* Mutant of PrimaryAnswered: database_unavailable is not handled.
PrimaryAnswered_Unhandled ==
  /\ pc = "executing" /\ phase = "idle"
  /\ role = "primary"
  /\ answer # "database_unavailable"
  /\ IF answer = "executed"
     THEN /\ result' = draft
          /\ obtained' = obtained \cup {current}
          /\ pc' = "signals"
          /\ UNCHANGED reply
     ELSE /\ Fail(answer, IF answer \in Executor!BlockedCodes THEN "blocked"
                                                              ELSE "failed", None)
          /\ UNCHANGED <<result, obtained>>
  /\ UNCHANGED <<clientVars, inbox, current, role, attempts, draft, callVars,
                 tableVars, approved, ran, calls, unrecorded>>

\* Mutant of PrimaryAnswered: every refusal of the executor is called blocked.
PrimaryAnswered_AllBlocked ==
  /\ pc = "executing" /\ phase = "idle"
  /\ role = "primary"
  /\ IF answer = "executed"
     THEN /\ result' = draft
          /\ obtained' = obtained \cup {current}
          /\ pc' = "signals"
          /\ UNCHANGED reply
     ELSE /\ Fail(answer, "blocked", None)
          /\ UNCHANGED <<result, obtained>>
  /\ UNCHANGED <<clientVars, inbox, current, role, attempts, draft, callVars,
                 tableVars, approved, ran, calls, unrecorded>>

\* The executor's answer for the draft: rows, or an exception whose class
\* decides what history calls the outcome.
PrimaryAnswered ==
  /\ pc = "executing" /\ phase = "idle"
  /\ role = "primary"
  /\ IF answer = "executed"
     THEN /\ result' = draft
          /\ obtained' = obtained \cup {current}
          /\ pc' = "signals"
          /\ UNCHANGED reply
     ELSE /\ Fail(answer, IF answer \in Executor!BlockedCodes THEN "blocked"
                                                              ELSE "failed", None)
          /\ UNCHANGED <<result, obtained>>
  /\ UNCHANGED <<clientVars, inbox, current, role, attempts, draft, callVars,
                 tableVars, approved, ran, calls, unrecorded>>

\* Mutant of AlternateAnswered: the workflow's except clauses see its failure.
AlternateAnswered_Raises ==
  /\ pc = "executing" /\ phase = "idle"
  /\ role = "alternate"
  /\ IF answer = "executed" THEN WithoutAgreement ELSE Fail(answer, "failed", None)
  /\ UNCHANGED <<clientVars, inbox, current, draftVars, callVars, tableVars,
                 historyVars>>

\* Its answer for the alternate is a signal, agreement, disagreement or
\* unavailable, whatever it is.
AlternateAnswered ==
  /\ pc = "executing" /\ phase = "idle"
  /\ role = "alternate"
  /\ WithoutAgreement
  /\ UNCHANGED <<clientVars, inbox, current, draftVars, callVars, tableVars,
                 historyVars>>

\* Deterministic and semantic signals, then the gates of the second opinion:
\* the setting, a failed signal, a simple question, a large result.
GatherSignals ==
  /\ pc = "signals"
  /\ \/ pc' = "score" /\ UNCHANGED <<role, attempts, draft>>
     \/ pc' = "draft" /\ role' = "alternate" /\ attempts' = 0 /\ draft' = None
  /\ UNCHANGED <<clientVars, inbox, current, result, callVars, reply, tableVars,
                 historyVars>>

\* A check of the rows raises what no one expects: an embedding service whose
\* response ends early, an alternate the policy raises on, or a NaN among the rows
\* that are compared with those of the alternate (ConfidenceChecks).
CheckRaises ==
  /\ \/ pc = "signals"
     \/ pc = "execute" /\ role = "alternate"
     \/ pc = "executing" /\ phase = "idle" /\ role = "alternate" /\ answer = "executed"
  /\ Unhandled
  /\ UNCHANGED <<clientVars, inbox, current, draftVars, callVars, tableVars,
                 historyVars>>

Score ==
  /\ pc = "score"
  /\ Conclude("query_result", "executed", "success", result)
  /\ UNCHANGED <<clientVars, inbox, current, draftVars, callVars, tableVars,
                 historyVars>>

\* record_history_safely, before the response is built.
Record ==
  /\ pc = "record"
  /\ Tables!CreateOrUpdateRecord(Asked.id,
       [post |-> current, outcome |-> reply.outcome, reason |-> reply.code,
        sql |-> reply.sql])
  /\ pc' = "respond"
  /\ UNCHANGED <<clientVars, inbox, current, draftVars, callVars, reply, historyVars>>

\* Mutant of RecordFails: the persistence error reaches the catch-all handler.
RecordFails_Raises ==
  /\ pc = "record"
  /\ unrecorded' = unrecorded \cup {current}
  /\ reply' = [kind |-> "error", code |-> "internal_server_error",
               outcome |-> None, sql |-> None]
  /\ pc' = "respond"
  /\ UNCHANGED <<clientVars, inbox, current, draftVars, callVars, tableVars,
                 approved, ran, obtained, calls>>

\* The audit database fails: QueryHistoryPersistenceError is logged and
\* swallowed.
RecordFails ==
  /\ pc = "record"
  /\ unrecorded' = unrecorded \cup {current}
  /\ pc' = "respond"
  /\ UNCHANGED <<clientVars, inbox, current, draftVars, callVars, reply, tableVars,
                 approved, ran, obtained, calls>>

\* Mutant of ResponseFails: a reply without rows cannot be rendered either.
ResponseFails_AnyReply ==
  /\ pc = "respond"
  /\ reply.code # "internal_server_error"
  /\ Unhandled
  /\ UNCHANGED <<clientVars, inbox, current, draftVars, callVars, tableVars,
                 historyVars>>

\* The rows go into the response as the driver made them, and what has no JSON form,
\* such as a range or bytes that are not UTF-8, makes its rendering raise.  The
\* record of success is written by then.
ResponseFails ==
  /\ pc = "respond"
  /\ reply.kind = "query_result"
  /\ Unhandled
  /\ UNCHANGED <<clientVars, inbox, current, draftVars, callVars, tableVars,
                 historyVars>>

\* What a client sees of a reply: SQL only beside rows or as a draft.
Shown ==
  [kind |-> reply.kind, code |-> reply.code,
   sql |-> IF reply.kind \in {"query_result", "sql_draft"} THEN reply.sql ELSE None]

\* The response reaches the client if it still waits.
Respond ==
  /\ pc = "respond"
  /\ answers' = IF current \in waiting THEN [answers EXCEPT ![current] = Shown]
                                       ELSE answers
  /\ waiting' = waiting \ {current}
  /\ Idle
  /\ UNCHANGED <<posts, inbox, tableVars, historyVars>>

Serve ==
  \/ \E n \in PostNumbers : Start(n)
  \/ ValidateQuestion \/ GetSchema \/ SchemaFails \/ ClarifyBeforeProvider
  \/ ProviderRetried \/ ProviderFails \/ ProviderAsks
  \/ DraftRejected \/ DraftRaises \/ DraftApproved \/ AlternateWritten
  \/ HandOver \/ ExecutorStep \/ PrimaryAnswered \/ AlternateAnswered
  \/ GatherSignals \/ CheckRaises \/ Score
  \/ Record \/ RecordFails \/ ResponseFails \/ Respond

Next ==
  \/ \E id \in RequestIds, endpoint \in Endpoints, question \in Questions :
       Post(id, endpoint, question)
  \/ \E n \in PostNumbers : GiveUp(n) \/ GiveFeedback(n)
  \/ Crash
  \/ Serve

Spec == Init /\ [][Next]_vars

\* The event loop runs whatever handler can run.  Every wait of a handler is
\* bounded: the provider's calls by their timeout and the retries, the
\* executor's by the timeouts of QueryExecution, the audit engine's by its own.
FairSpec == Spec /\ WF_vars(Serve)
-----------------------------------------------------------------------------
(* Properties.                                                             *)

Answered == {n \in PostNumbers : answers[n] # None}

RecordsOf == {records[id].content : id \in Tables!Stored}

\* The posts that were sent under the same request id as n.
Namesakes(n) == {m \in DOMAIN posts : posts[m].id = posts[n].id}

\* The handler and what it holds fit together, the audit tables are well
\* formed, and the provider's loop stays within its retries.
TypeOK ==
  /\ posts \in Seq(Posts) /\ Len(posts) <= MaxPosts
  /\ waiting \subseteq inbox \cup ({current} \ {0})
  /\ inbox \subseteq DOMAIN posts \ {current}
  /\ current \in {0} \cup DOMAIN posts
  /\ pc \in {"idle", "validate", "schema", "draft", "execute", "executing",
             "signals", "score", "record", "respond"}
  /\ (current = 0) <=> (pc = "idle")
  /\ (reply # None) <=> (pc \in {"record", "respond"})
  /\ reply \in Replies \cup {None}
  /\ role \in {"primary", "alternate"}
  /\ attempts \in 0 .. Retries
  /\ draft \in Sqls \cup {None}
  /\ result \in Sqls \cup {None}
  /\ phase \in {"idle", "submitted", "approved", "ran"}
  /\ answer \in Executor!Codes \cup {"none"}
  /\ (phase # "idle") => (pc = "executing")
  /\ \A n \in Answered : n \in DOMAIN posts /\ n \notin waiting
  /\ approved \subseteq Sqls /\ ran \subseteq Sqls
  /\ obtained \cup unrecorded \subseteq DOMAIN posts
  /\ calls \in [PostNumbers -> Nat]
  /\ Tables!TablesOK

\* Generated SQL runs only for POST /v1/query and only after the policy
\* approved it (POST /v1/query/draft stops at the draft), and an alternate runs
\* only once the rows of the primary SQL are there.
RunsAreEarned ==
  /\ ran \subseteq approved
  /\ \A sql \in ran :
       /\ posts[sql.post].endpoint = "query"
       /\ sql.role = "alternate" => sql.post \in obtained

\* What the history says about the database is what happened there: "success"
\* stands for a post whose own SQL, the one recorded, ran and gave rows;
\* "blocked" and "clarification_required" for a post of which nothing ran.  The
\* alternate of the second opinion is never recorded
\* (docs/exec-plans/hallucination-detection.md:234).  The outcome is chosen by
\* the class of the exception that six services may raise in run_query.
HistoryTellsWhatRan ==
  \A record \in RecordsOf :
    /\ record.outcome = "success" =>
         /\ record.sql = Sql(record.post, "primary")
         /\ record.sql \in ran
         /\ record.post \in obtained
    /\ record.outcome \in {"blocked", "clarification_required"} =>
         \A sql \in ran : sql.post # record.post
    /\ record.sql \in {None, Sql(record.post, "primary")}

\* Rows that were obtained are returned: once the primary SQL was answered, no
\* failure of the second opinion that the code knows, and no audit database that
\* fails (hallucination-detection.md:431-432), may turn the response into anything
\* else.  What else can go wrong, a check that raises what no one expects or rows
\* that cannot be rendered, is told as an internal error, never as the failure of a
\* provider or of the database, and never recorded as one.
ResultIsReturned ==
  \A n \in obtained \cap Answered :
    \/ answers[n].kind = "query_result" /\ answers[n].sql = Sql(n, "primary")
    \/ /\ answers[n].code = "internal_server_error"
       /\ \A record \in RecordsOf : record.post = n => record.outcome = "success"

\* The client and the history were told the same.  A post of POST /v1/query that
\* shares its request id with no other and was answered has a record of the same
\* code, outcome and SQL, with two exceptions: no record, when the audit database
\* failed or only the catch-all handler saw the error; and a record of success
\* beside an internal error, when the rows could not be rendered.  No other
\* disagreement is possible.
AnswerMatchesRecord ==
  \A n \in Answered :
    (posts[n].endpoint = "query" /\ Namesakes(n) = {n}) =>
      LET told == answers[n]
          row == records[posts[n].id]
      IN IF row = None
         THEN n \in unrecorded \/ told.code = "internal_server_error"
         ELSE /\ row.content.post = n
              /\ \/ /\ row.content.reason = told.code
                    /\ (row.content.outcome = "success") <=> (told.kind = "query_result")
                    /\ told.sql # None => row.content.sql = told.sql
                 \/ /\ told.code = "internal_server_error"
                    /\ row.content.outcome = "success"

\* A request costs at most two loops of the provider, the draft and one
\* alternate, and a second loop is only begun for a result.
ProviderBudget ==
  \A n \in PostNumbers :
    calls[n] <= (Retries + 1) * (IF n \in obtained THEN 2 ELSE 1)

\* Every client that waits is answered or gives up: no failure of a service
\* leaves the handler, and with it the event loop, without a next step.
EveryPostSettles ==
  \A n \in PostNumbers : (n \in waiting) ~> (n \notin waiting)

\* docs/exec-plans/hallucination-detection.md:179-181: "network failure becomes a
\* `ConfidenceSignal(state="unavailable")`. Unavailable probabilistic checks lower
\* certainty but must not block execution."
ChecksDoNotBlock ==
  \A n \in obtained \cap Answered : answers[n].kind = "query_result"
=============================================================================
