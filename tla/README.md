# TLA+ verification of the Text-to-SQL backend

This directory holds TLA+ models of the program in this repository, the TLC
configurations that check them on small instances, and TLAPS proofs of the
properties that matter most for every value of the constants.  The code is the
reference: each definition is translated from the lines that `PROJECT.json`
("map") names for it.

Run, in this directory:

    tlc -workers 2 -config MCQueryExecution.cfg MCQueryExecution.tla
    tlapm QueryExecutionProofs.tla

## 1. Inventory

### The system

A React client posts a question to a FastAPI backend.  The backend reads a
cached catalog of the business schema, retrieves the part of it that the
question needs, asks a language model for SQL, checks the SQL against a policy,
asks PostgreSQL for its plan, checks the plan, runs the SQL in a read-only
transaction, scores its confidence in the answer, writes an audit record and
responds.  A second engine with other credentials owns the audit schema.

    client -- nginx -- FastAPI handler
                         |-- SchemaCatalogService ------ PostgreSQL (read)
                         |-- QueryWorkflowService
                         |     |-- QueryDraftService --- provider (OpenAI or fake)
                         |     |     `-- GeneratedSQLValidator
                         |     |-- QueryExecutionService - GeneratedSQLValidator
                         |     |                       `-- PostgreSQL (read only)
                         |     |-- signals, MultiQueryAgreementService -- provider, executor
                         |     `-- ConfidenceScoringService
                         `-- QueryHistoryService ------- PostgreSQL (audit)

**Concurrency.**  Every handler is an `async def` whose body never awaits, and
the image starts one uvicorn worker.  A process therefore serves one request
from its start to its response while the others wait.  What does run beside a
handler: the database server, which may cancel a statement or drop a connection
at any moment; clients and the proxy, which stop waiting (nginx after 60 s by
default, with no setting of its own in `frontend/nginx.conf`) while the handler goes on;
and a restart.  In the browser, answers of overlapping requests arrive in any order.

### Components

| component | state | operations | correct when |
|---|---|---|---|
| SQL guardrails (`services/sql_guardrails.py`) | none: a function of text and catalog | `validate`, one rule after another, `LimitRule.apply` | only one resolvable, read-only, bounded SELECT passes; the rewrite is idempotent and changes the LIMIT only |
| Query executor (`services/query_execution.py`, `db/engine.py`) | a pooled connection, a transaction, the exception in flight | `execute`: validate, set, EXPLAIN, inspect, run, fetch, roll back | nothing unapproved runs; blocked means not run; the answer is what the database had; nothing leaks into the next call; every call returns |
| Query draft (`services/query_draft.py`) | none | `draft` | ambiguous questions cost no provider call; the draft is the rewritten text |
| Provider (`providers/openai_sql_generation.py`) | retry counter | `generate` | bounded number of attempts; only two classes of failure are retried |
| Workflow and API (`services/query_workflow.py`, `api/query.py`) | locals of one request | `run_query`, `draft_query`, `record_history_safely` | history tells what happened; a result is never lost; every request is answered |
| Second opinion (`services/multi_query_agreement.py`, `services/result_equivalence.py`) | none | `evaluate`, `compare_result_sets` | cannot change or lose the primary result; keeps its budgets; announces no agreement of results that differ |
| Confidence (`services/confidence_*.py`, `services/semantic_alignment.py`, `providers/openai_alignment.py`, `providers/embeddings.py`) | none | `validate`, `align`, `score` | a failed check is never outvoted; an outage never helps; what the model says of itself stays auxiliary |
| History and feedback (`services/query_history.py`, `repositories/query_history.py`, `api/history.py`) | two tables | upsert by request id, add feedback, read a page | one record per request id; feedback has its record; pages are consistent |
| Schema catalog (`services/schema_catalog.py`, `schema_introspection.py`, `schema_sampling.py`) | one cached catalog with an expiry | `get_schema(refresh)` | never staler than its TTL; a refresh sees what was changed before it; samples are complete or absent |
| Retrieval and prompt (`services/schema_retrieval.py`, `prompt_engine.py`, loaders) | none | `retrieve`, `build_prompt` | joins are shortest, within the limits, and complete in the prompt; the prompt stays within its budget |
| Lifecycle and health (`main.py`, `db/lifecycle.py`) | two engines | startup, shutdown, `/health` | engines are disposed of on every path |
| Web client (`frontend/src`) | workspace, history page, feedback panel | submit, refresh, load more, rate | the shown state belongs to the last request |
| Evaluation harness (`services/evaluation*.py`, `cli/evaluate.py`) | a report | `evaluate` | batch program; not modelled |
| Legacy demo (`app.py`, `text_to_sql/`) | - | - | separate program; not modelled |

### What is hard to test

`PROJECT.json` ("hazards") lists each one at its line.  In short: a rollback
that is the first to notice a dead connection; settings statements that fail
half way; two validations of one text; a validator that looks at a cached
catalog while the planner looks at the live one; truncation detected by a row
that the injected LIMIT removes; an exception of the wrong class that makes
history lie; the audit database failing when the result is already there; the
second opinion failing when the result is already there; a client-chosen
request id that keys an upsert; history pages read in three statements;
overlapping loads in the browser; a schema that changes while it is
introspected; a clock read before the statements it dates; a search over a
cyclic graph under two limits; signals that reach their component by a prefix
of their code; weights that leave the mean.

## 2. Modules

| module | models |
|---|---|
| `SqlGuardrails` | the policy as a function of a parsed text and a catalog |
| `GuardrailPipeline` | the two validations of one text within a request |
| `GuardedExecution` | abstract: what `execute` promises its callers |
| `QueryExecution` | `execute` statement by statement against a failing server; implements `GuardedExecution` |
| `AuditTables` | the two audit tables and the statements that write them |
| `QueryWorkflow` | requests from arrival to response; composes `GuardedExecution` and `AuditTables` |
| `QueryWorkspace` | the browser's question form, result and feedback panel; uses the codes of `GuardedExecution` |
| `HistoryPanel` | the browser's list of recent queries and the pages it loads |
| `SchemaNames` | the names the next two modules share |
| `SchemaCatalog` | the cached catalog, its introspection and sampling, and a database that others change meanwhile |
| `SchemaRetrieval` | the tables, join paths and columns a question gets, and what the prompt shows of them |
| `DraftContext` | requests that read the schema or draft; composes `SchemaCatalog` and `SchemaRetrieval` |
| `ResultEquivalence` | when two results say the same: a pure comparison beside its reference definition |
| `ConfidenceSignals` | the nine checks of a result that need no provider |
| `ConfidenceScoring` | components, weights, bands and hard failures |
| `SemanticAlignment` | the score of a question read back from the SQL |
| `ConfidenceChecks` | what happens between rows and confidence; uses the four modules above |
| `MC*` | small instances for TLC |
| `*Proofs` | theorems checked by TLAPS |

### SqlGuardrails and GuardrailPipeline

A text is a record of what the rules look at: how parsing ended, the number of
statements, the root node, the kinds of unsafe nodes, the nesting depth, the
LIMIT (none, computed, or a literal) and the name scopes with their sources and
column references.  `Validate` applies the rules in the order of
`DEFAULT_RULES` and returns the findings, the rewritten text and the LIMIT
metadata, as `GeneratedSQLValidator.validate` does when it returns.  It need not:
only `ParseError` is caught, so that a text the tokenizer gives up on
(`TokenError`) and a tree whose scopes cannot be built (`OptimizeError`) leave it
as exceptions, which is what `Raises` says.  The SQLGlot parser and
printer are outside: the model assumes that a printed text parses to the tree
it was printed from, except that printing may fail (`renders`).

`GuardrailPipeline` is the path of one text: `ValidateDraft`
(`query_draft.py`), then `ValidateAgain` (`query_execution.py`) on its result.
A validation that raises ends the path at "raised", without findings.

### QueryExecution

`pc` is the statement `execute` is at.  `link` and `pooled` are the connection as
the client sees it, `session` the server's side: an open or aborted transaction
and the three settings that SET LOCAL changes.  Every statement may succeed
(`SetLocal`, `Explain`, `RunSql`) or fail in one of five ways
(`StatementFails`); the server may drop the connection between any two steps
(`DropConnection`), which only the next statement, or the rollback, notices.
`raised` is the exception in flight, reduced to what `mapped_execution_error`
and `is_timeout_error` read off it.  `served` is a history of what the server
was given and under which settings.

`GuardedExecution` has two variables, `phase` and `answer`.  Its refinement
mapping `Phase` reads the phase off what the server was given and the plan in
hand.

### AuditTables and QueryWorkflow

`AuditTables` holds `records`, a function of the request id because of the
UNIQUE constraint, and `feedback`.  `QueryWorkflow` has one handler at a time:
`pc`, `current` and the locals `role`, `attempts`, `draft`, `result`, `reply`.
Each action is a step after which something else may fail, crash, or be
observed: validation of the question, the schema, one attempt of the provider,
each class of its outcome, the executor's steps (taken from
`GuardedExecution`, so from a specification the executor was proved to
implement), the checks and the second opinion, the audit record, the response.
Three steps raise what only the catch-all handler sees, which answers
`internal_server_error` and records nothing.  `DraftRaises` is the policy, on a
draft.  `CheckRaises` is a check of a result that is there (`ConfidenceChecks`
says where), or the policy on the text of the second opinion.  `ResponseFails` is
the response: `Record` stores the success, and only then the rows become part of
a response that is rendered, as the driver made them; what has no JSON form (a
range, bytes that are not UTF-8) raises.  Clients post
(with an id they choose and may repeat, or a generated one), give up, and send
feedback; `Crash` is a restart of the process.  `approved`, `ran`, `obtained`,
`calls` and `unrecorded` are histories that only the properties read.

Left out: request bodies that Pydantic rejects before the handler runs; the
setting that turns history off; the workflow's errors for a draft without SQL,
which a provider's validated result cannot produce.

### QueryWorkspace

React renders after each event before it delivers the next, so an event handler
with its `setState` calls is one action and what follows an `await` is another:
`SubmitQuestion`, then `ReceiveResult`, `ReceiveClarification` or
`ReceiveError`; `SubmitFeedback`, then `StoreFeedback` (the backend),
`FeedbackSucceeds` or `FeedbackFails`.  `sends` is the feedback on its way, so
that a failure may come before or after the backend stored it.  An error
carries any code the backend can send, those of the executor taken from
`GuardedExecution`.  `MayHaveRun` says of a code whether the SQL of such an answer
may have run: `internal_server_error` comes of an exception before the executor
as well as of a check or a rendering after it, so it may and may not.  `ran` and
`failures` are histories.

### HistoryPanel

`stored` is the audit table, whose records are their serial numbers.
`LoadHistory` is the part of `loadHistory` before its `await`; `loads` are the
requests in flight, read by the backend (`ReadPage`) and answered
(`ReceivePage`, `ReceiveError`) in any order, while `RecordQuery` adds records.
`basis` and the field `after` of a load are histories: they say whether the
pages shown were read from one state of the table and arrived in order.  The
three statements of one page are a single step here, because the handlers of the
one process do not interleave.

### SchemaCatalog, SchemaRetrieval and DraftContext

`SchemaCatalog` is `get_schema` and the build behind it.  `db` is the live
database, changed by other sessions between any two steps (`DatabaseChange`):
tables come and go, foreign keys are added, values are written.  `GetSchema`
reads the clock and answers from `cache` or starts a build.  The exposed schemas
are taken one after the other (`SchemaOf`, `schemas`): `ListTables` lists the tables
of the next one, `ReadColumns` and `ReadKeys` read one of them, each a statement in a
transaction of its own, and `Introspected` ends it when no schema is left.  So a
table of the second schema may come or go while the first is read.  Which
schemas there are does not change.  `SampleColumn` is the query for a column's
values, which may fail or find too many; `BuildFails` is any exception on the way, which
leaves the old cache.  `call` holds what the clock and the count of changes were
when the call came, `lastChange` is a history: the properties relate an
answer to what had changed by then.

`SchemaRetrieval` is `retrieve` and the schema part of `build_prompt` on the
catalog a draft was handed.  Scores are an input: `StartRetrieval` takes any
score of each table, `SelectColumns` any of the columns' (`scored` keeps it).  What
protects a column from being cut for its score is its name alone, "id" or
"*_id" (`KeyNames`), as in `is_key_column`: that of a key or foreign key may be
another one.  The best `MaxColumns` of those that qualify are kept, keys or not.
`NextTarget` is the head of the loop over the selected tables, `ExpandPath` one
round of the breadth-first search (`queue`, `visited`), `Accept` the limit on
joined tables, `SelectColumns` the columns, `BuildPrompt` the rendered context.

`DraftContext` composes them: `GET /v1/schema` and drafts share the cache, one
at a time.  A torn catalog, one whose parts were true at different moments, is
reachable and goes into the retrieval as it is.

### ResultEquivalence, ConfidenceSignals, ConfidenceScoring, SemanticAlignment and ConfidenceChecks

`ConfidenceChecks` is the second half of `QueryWorkflowService.run`: `stage` goes
from the deterministic checks over the back-translation (`attempts`,
`translated`), its alignment by words or embeddings, and the second opinion
(`alternate`: its time, retries, whether it is the same query, its rows) to the
score; `signals` is `validation_signals`.  A provider may fail in each class its
code tells apart.  The other four modules are pure functions.  Scores count ten-thousandths, to which the
code rounds, weights hundredths; a value is a kind and a number, in units of the
decimal tolerance where it is compared.  `ResultEquivalence.MatchRow` is a round
of the greedy matching; `SameRows` is the reference it is checked against.
The codes a check can emit and the sets of codes a component looks at are
translated from different files, so that a code no component looks at shows.

`QueryWorkflow` has the same checks as one step that may call the provider and
the executor or raise; here they are opened, and what the calls cost is an
input.

## 3. Runs

| run | configuration | states | shows |
|---|---|---|---|
| `guardrails` | `MCGuardrailPipeline.cfg` | 1 298 | `ExecutedIsDrafted`, `OnlyTheLimitNarrows`, `NamesAreUnambiguous` |
| `limit_metadata_lost` | `MCGuardrailPipelineReport.cfg` | violation | `LimitRewriteIsReported` fails |
| `execution` | `MCQueryExecution.cfg` | 1 399 | `PolicyEnforced`, `BlockedNeverRan`, `AnswerIsFaithful`, `ConnectionIsReturned`, `TimeoutIsReported`, `CallReturns`, `ImplementsGuardedExecution` |
| `truncation_hidden` | `MCQueryExecutionTruncation.cfg` | violation | `TruncationIsDetected` fails |
| `workflow` | `MCQueryWorkflow.cfg` | 1 951 939 | `RunsAreEarned`, `HistoryTellsWhatRan`, `ResultIsReturned`, `AnswerMatchesRecord`, `ProviderBudget`, `EveryPostSettles` |
| `result_lost` | `MCQueryWorkflowChecks.cfg` | violation | `ChecksDoNotBlock` fails |
| `workspace` | `MCQueryWorkspace.cfg` | 7 796 | `NotExecutedIsTrue`, `FeedbackSentOnce`, `WorkspaceSettles` |
| `feedback_misattributed` | `MCQueryWorkspaceRecorded.cfg` | violation | `RecordedIsTrue` fails |
| `history_list` | `MCHistoryPanel.cfg` | 6 095 | `PagesFitTogether`, `ListSettles` |
| `history_repeats` | `MCHistoryPanelDistinct.cfg` | violation | `EntriesAreDistinct` fails |
| `schema` | `MCDraftContext.cfg` | 793 711 | `AnswerIsFresh`, `RefreshSeesEarlierChanges`, `SamplesAreComplete`, `PathsAreShortest`, `LeftOutForAReason`, `JoinColumnsAreShown`, `RequestsAreAnswered` |
| `confidence` | `MCConfidenceChecks.cfg` | 154 802 | `FailureIsNeverOutvoted`, `UnavailableNeverHelps`, `ModelReportIsAuxiliary`, `AgreementIsSound`, `SecondOpinionIsEarned` |

Each module with a behaviour also has a type invariant, checked in its passing run.  Every
property has a mutant: a definition ending in the name of a slip a programmer
could make (`Following_NoLockTimeout`, `PrimaryAnswered_AllBlocked`), under
which TLC finds the property violated.

**Bounds.**  *Guardrails*: the row cap is 2, so LIMITs below, at and above it
and 0 occur; two schemas hold tables of the same name and two tables share a
column, so that names can be ambiguous; there is a text the tokenizer gives up on
and one whose scopes cannot be built.  *Executor*: the cap (3) exceeds the row
bound (2) and up to 4 rows match, so that truncation happens, does not happen, and
is hidden by a LIMIT; one plan for each verdict; any number of calls in
sequence.  *Workflow*: two posts are what it takes for one to overwrite the
record of the other, to wait behind it, or to be cut off by the crash of its
predecessor; one retry distinguishes the first, a middle and the last attempt;
the retry budget of the alternate (0) is below that of the provider (1), so
both sides of the comparison occur.  Requests beyond `MaxPosts` are not posted,
so a behaviour may stop and deadlock is not checked there, nor for
`GuardrailPipeline`, whose request ends, nor for the browser, whose user may
stop.  *Workspace*: one question's result can be rated while the next is asked
and answered, and a third fail below both; two sends are an attempt and its
repetition.  *History list*: pages of two and five records make lists of up to
three pages, the last one full, short or missing; five requests allow a refresh
to overtake the loading of more and the reverse.
  *Schema*: a behaviour starts in
one of three kinds of scenario.  In `Cached`, two calls share the cache while one
table changes twice and the clock runs from 0 to 3 with a TTL of 2, so that an
entry is younger than the TTL, exactly as old, and older.  In `Torn`, two changes
of three tables fall between the statements of one build, whose outcome a
draft searches.  In `Fixed`, nothing changes and the foreign keys are every
acyclic graph on four tables, and two with a table outside the exposed
schemas, under five pairs of limits: none, one, two and three hops, room for
bridges and none.  One value more than the sample limit of 1 exists.  The four
tables lie in two schemas.  A table shows up to three columns and may have one
more or two, the foreign key to one table is not named like a key, and five
scorings of the columns put it above, at and below the least score and before and
behind a plain column, so that `JoinColumnsAreShown` meets keys that are shown,
keys that scored too little and keys that others crowd out.
*Confidence*: three families again.  In one, the nine checks meet a column of
counts, percentages or dates with up to two rows, good, bad and null, with
metadata and retrieval that agree or not.  In the second, the alignment takes every
course, with a good and a failed result, and with its weight set to 0.  In the
third, two results of up to two rows each take every pair of values around the
tolerance, a NaN and a float among them, or are truncated, too long, of other
columns or of columns that fold to one name.  Durations from 0 to 3 lie below,
at and above the limits 2 and 1.  The thresholds, weights and caps are the defaults.

**Fairness.**  `QueryExecution` assumes that a call in progress takes a step:
every wait of `execute` ends, by the connect, statement, lock or idle timeout
that `db/engine.py` and the SET LOCALs set, in success or failure, both of
which are steps.  `QueryWorkflow` assumes the same of the event loop
(`WF(Serve)`): provider calls have a timeout and a finite number of retries,
the executor returns (`CallReturns`), the audit engine has timeouts of its own.
`DraftContext` assumes it of the handler that builds or searches
(`WF(Serve)`): each statement ends, in success or in an error.
The browser's modules assume that a fetch ends: the backend answers
(`EveryPostSettles`), or the proxy does when its patience ends, or the
connection breaks.
Nothing is assumed of clients, the server's good will, crashes or their
absence.

## 4. Findings

1. `limit_metadata_lost`: the validation metadata that reaches the client comes
   from the second validation, which meets a text the first one already
   rewrote: an injected or capped LIMIT is reported as neither.
   `docs/exec-plans/sql-guardrails.md:153` asks for it to be tracked.
2. `truncation_hidden`: the injected LIMIT and the row bound default to the
   same 1000, so the row that would reveal truncation
   (`docs/exec-plans/sql-guardrails.md:198`) is never produced and a cut-off
   result says `truncated = false`.
3. `result_lost`: `docs/exec-plans/hallucination-detection.md:179-181` says that a
   probabilistic check that is not available "must not block execution".  Three
   exceptions do: a response of the embedding service that ends early
   (`http.client.IncompleteRead`) or is no UTF-8 (`UnicodeDecodeError`) passes
   the `except` of `providers/embeddings.py:67`, and a `Decimal` NaN is ordered
   outside the `try` of `services/result_equivalence.py:183`
   (`InvalidOperation`).  The handler of all exceptions answers
   `internal_server_error`; the rows, and the record of a query that ran, are
   lost.  A second route to that answer is the response: after the record of
   success (`api/query.py:401`) it renders the rows (`:197`) as the driver made
   them (`query_execution.py:262`), and a range or bytes that are not UTF-8
   cannot be.  Then history keeps "success" for a query whose client was told of
   an internal error; `ResultIsReturned` and `AnswerMatchesRecord` name this
   as the one way in which answer and record may disagree.
4. `feedback_misattributed`: the feedback panel has no key
   (`QueryWorkspace.tsx:280`), so it keeps its status when another result takes
   the place of the rated one: it says "Feedback recorded."
   (`FeedbackPanel.tsx:47`) below a result nobody rated, and is locked there.
5. `history_repeats`: `HistoryPanel.tsx:91` takes the request id as the key of an
   entry, but the pages, loaded by offset from the newest record, repeat a
   record when a query is recorded between two of them.

Other places where code and documents differ, without a run of their own:

* `docs/exec-plans/sql-guardrails.md:85`: parser exceptions become "stable internal
  policy findings and public blocked-query errors".  `sql_guardrails.py:303`
  catches `ParseError` only; the tokenizer raises `TokenError`, for an unterminated
  string for instance, and the client is told `internal_server_error`.
  (`GuardrailPipeline` reaches it: such a text ends at "raised", without a finding.)
* `docs/PROMPT_ENGINE.md:13`: the prompt shows only retrieved tables.
  `render_relationships` prints every `selected_path` as it was found, and a path
  may lead through a table the catalog does not have, of a schema that is not
  exposed or dropped during introspection.
* `docs/SCHEMA_RETRIEVAL.md:31`: at most `max_tables` tables.  The limit is on the
  joined ones; selected tables that could not be joined come on top.  A table
  that was skipped is not tried again when later paths bring it into reach, so
  the outcome depends on the ranking.
* `docs/ARCHITECTURE.md:14`: history stores approved SQL.  `run_query` stores the
  SQL of a rejected draft, and none when the plan or the execution of an
  approved one failed.
* `docs/ARCHITECTURE.md:35`: hard failures force the blocked band.  Only those of
  components with a positive weight do (`FailureIsNeverOutvoted` says so).
* `docs/SCHEMA_API.md:20`: `refreshed` tells whether a call refreshed.  It stays
  true on the cached catalog for those who read it later.
* "Row-order-independent" comparison is greedy: with tolerances, the first match
  may take the row another one needed, so rows that could be paired are
  reported as different.  The converse is `AgreementIsSound`.

## 5. Proofs

All leaves are checked by TLAPS; nothing is assumed beyond the named ASSUMEs of
the modules, which say that the inputs have their types, that bounds are
natural numbers, that the row bound of the executor is positive, that the
scenarios of `SchemaCatalog` have their types (foreign keys that refer to tables
there are, at least one table that may be selected), that tables are numbered
schema by schema, that the scores of columns are numbers, that the scenarios of
`ConfidenceChecks` are answers (a finite question, weights in hundredths of at
most 1, results with a value for each column in each row), and that `None` is
not a value of the sets it is added to.  TLC evaluates each on the runs.

Two theorems state a hypothesis on the settings: `UnavailabilityNeverHelps`
assumes `PrudentSettings` and `TheModelsReportIsAuxiliary` assumes
`SeparateBands`.  The defaults satisfy both, `core/config.py` requires neither
(it only wants the bands in their order), and with other settings the code has
neither property: see below.

**SqlGuardrailsProofs.**  A text that `Validate` accepts is *clean*: parsed,
one SELECT, no unsafe node, within the depth, every name resolved, a legal
LIMIT (`AcceptedTextIsClean`); a clean text is accepted (`CleanTextIsAccepted`);
capping the LIMIT of a clean text leaves a clean text whose LIMIT needs no
change (`CappedText`).  Hence `RevalidationIsIdempotent`.

**GuardrailPipelineProofs.**  The inductive invariant adds to `TypeOK` that each
pass so far is the validation of the text of its stage.  That the
second validation of a text the first one rewrote raises nothing new is
`RewriteDoesNotRaise`.  With `RevalidationIsIdempotent` it gives `ExecutedIsDrafted`, `OnlyTheLimitNarrows`
and `NamesAreUnambiguous` for every set of texts and catalogs.

**QueryExecutionProofs.**  None of the executor's properties is inductive
alone: that a blocked answer did not run needs to know that a plan error is
only in flight while nothing ran, which needs to know where each exception is
raised.  `IInv` says per program point what is known of the request
(`RequestInv`), the connection (`ConnectionInv`), the settings in force
(`SettingsInv`), what the server was given (`ServedInv`) and the result or
exception in flight (`OutcomeInv`).  `ExecutionInvariant` has one step per
action.  The five invariants follow from it, `TimeoutIsReported` from it and
the step.  The second half is the refinement: under `IInv` each step of
`QueryExecution` is a step of `GuardedExecution` or leaves `Phase` and `answer`
alone, one lemma per kind of step, then `ExecutionImplementsGuardedExecution`.
This is what makes it sound for `QueryWorkflow` to use the abstract module.

**QueryWorkflowProofs.**  The properties speak of all posts at once, while only
one is being served.  `FreshInv` says that there is no trace of a post that has
not been started; `ServedInv`, `DraftingInv`, `ExecutingInv`, `CheckingInv` and
`ReplyInv` say what is known of the one being served at each value of `pc`: above
all that nothing of it is recorded before its reply, and that nothing of it ran
while the answer could still be "blocked".  A post that is over changes only
with the ledger, by steps of other posts, which `RunsAreEarned`,
`HistoryTellsWhatRan`, `ResultIsReturned` and `ProviderBudget` survive.
`WorkflowTypes` adds the types: they need that the executor has answered by
the time its answer is looked at, and that stored ids are finitely many.
`AnswerMatchesRecordHolds` needs two more facts: a record is that of a post
under its request id, and so nothing can be stored under the id of a post
without namesakes before its own record is (`NothingRecorded`).  An answered post is
told an internal error beside a record only by a response that failed, and then
`NothingButSuccess` says of a result that was obtained: if anything is recorded
of it, it is its success.  That is the exception both theorems state.

**QueryWorkspaceProofs.**  `RanInv` says what ran before the question that is
awaited, `SendInv` that at most one send is in flight and of which result, and
`RowsInv` which stored row stands for which send.  `NotExecutedIsTrue` follows
from the first, `FeedbackSentOnce` from the others: rows that exceed the
reported failures would need two sends in flight.

**HistoryPanelProofs.**  A request for more starts where the list ended when it
was asked for (`OffsetsInv`); the lemma `PageContinues` says that a page joined
to the list it starts at the end of is again the newest records.  The bound on
the list's length in `TypeOK` is not inductive: `BudgetInv` counts one page for
each request, on its way or shown.

**DraftContextProofs.**  Every change of the database is numbered and dated,
and `CatalogInvariant` says of the cache, a build under way and an answer: what
they know of a table is what it was at some moment no earlier than the build
began, unless the table changed after that.  It holds of each statement of the
introspection separately, so also of torn catalogs.  `AnswerIsFresh`,
`RefreshSeesEarlierChanges` and `SamplesAreComplete` follow.  `What a build knows
so far is stated for the schemas it has listed (`BuildInv`).  `RenderInv` says of
a retrieval that every table of a path is final, and of a final table that each
of its columns is accounted for (`ColumnsAreAccounted`): it is kept, or scored too
little under a name that is no key's, or is not among the best, and then
`BestAre` counts `MaxColumns` columns before it, none of which scored less.
`JoinColumnsAreShown` follows for every catalog, every naming of keys and every
scoring.

The search for join paths is shown to be a breadth-first search, by the induction
described under *Finite data* below.  `Reach` is `Within` with the catalog for a
parameter; `ReachOfNext` and `ReachGrows` are what its recursion says, `ReachStays`
that a set closed under foreign keys is never left.  `Searched` is the invariant of
the loop: for some d, what is within d keys of the tables joined has been seen; the
queue holds paths of d steps, then of d + 1; and of the tables seen only those at
the end of a queued path can have neighbours not seen, unless d is the limit.
`SearchRound` keeps it through a round, `SearchGoesOn` passes from d to d + 1 when
the last path of d steps is gone, and `SearchedAll` ends it: an empty queue leaves
nothing within the limit unseen.  `Trail` says of each queued path that it is one of
the shortest; a path to the target inherits it (`TrailGoesOn`).  `IsJoined` is the
invariant of the loop around the search.  Each path is a `Trail` from what the paths
before it joined.  A table passed over is too far from what was joined at its turn:
either not found, or refused, and then `PathsAdd`, a path joins at most one table
with each step, says that no shorter way would have fit.  `JoinedFor` of a table
does not change later, since the selected tables are distinct (`EarlierTurnsStay`);
that they are, and no more than allowed, rests on `OrderedLists`: a finite set put in
an order has each element at a place of its own, by counting what comes before it.
`TypeOK`, `PathsAreShortest` and `LeftOutForAReason` follow from `DraftInvariant`, for
every catalog, torn ones included, every scoring and every limit.

**ConfidenceChecksProofs.**  The longest of the proofs, since the score is a mean
of means, and agreement the outcome of a loop within a loop.

*Finite data.*  The installed provers cannot instantiate the library's induction
theorems, whose parameter is a predicate.  But `WFMin`, that a well-founded
order has least elements, speaks of a set; from it follow induction over the
numbers (`LeastNumber`) and over the parts of a finite set (`InductionOnParts`),
stated of the set of the elements for which a fact holds.  With these the sum of
a function over a finite set (`MapThenSumSet`, which takes the elements in an
order CHOOSE fixes) is shown not to depend on that order: `TotalTakesAny`,
`TotalIsMonotonic`, `TotalWithoutZeros`.

*The score.*  A component's score is a rounded mean of its signals, the answer's
the rounded mean of the components, weighted.  `RoundedIsMonotonic` and
`RoundedIsBounded` reduce that to comparisons of fractions.
`UnavailableDoesNotLift` takes one unavailable signal away from any set of
signals: its component scores no less without it, or drops out and was no better
than the unavailable score, in which case the mean of the others is above it or
the answer is blocked both times.  That needs `PrudentSettings`: what is
unavailable scores no more than what did not apply, than half, than a failed
alignment, and less than any band but "blocked".  `ReportMovesTheBand` bounds what
the model's own confidence does by its share of the default weights: it weighs 2
and the components that never drop out of the mean 67 with it
(`DefaultWeighing`), so it moves the mean by less than 0.03, and bands that are
at least so wide (`SeparateBands`) keep it to one.

*The comparison.*  `CompareRows` folds the rounds of compare_result_sets over the
places of the rows.  `CompareRowsMatches` gives the fold a function on its
intermediate states, `RoundPairs` says that a round adds a row to a pairing of
those before it with rows that are no longer unmatched, or ends the agreement, and
`AgreementIsAPairing` is the induction over the rounds, for results of any size.

*The signals.*  `ChecksInvariant` says which signals can have failed at each stage;
above all, that the checks can fail with four codes only
(`DeterministicSignalsAreEarly` and its companions go through every check).
Each of the four is looked at by a component (`FailuresAreLookedAt`), a failed
signal fails its component whatever the others say (`OneFailureFailsTheGroup`),
and a failed component with a weight blocks (`FailureBlocks`).  `SoundChecks` is a
second invariant beside it, of which signals there can be at all: each has a status
and a score its code can have, no code comes twice (each check owns its codes, and
`NoAgreementYet` that those of the second opinion are unused until it is over), and
an agreement stands beside two results that do agree.  Types, the effect of
unavailability and of the model's report, and the soundness of agreement follow.

**Only model-checked.**

* Liveness (`CallReturns`, `EveryPostSettles`, `WorkspaceSettles`, `ListSettles`,
  `RequestsAreAnswered`): fairness and ENABLED are beyond the prover.

## 6. Plan

What is left, in this order:

1. `ServiceLifecycle`: start-up and shutdown of the two engines, the check of the
   audit schema at start-up, the readiness query.
2. The prompt's cut at its budget, as a function of the lengths of its parts.

## 7. Not modelled

* Text: the SQLGlot parser and printer, the wording of prompts, findings and
  messages, redaction patterns, the glossary and few-shot file formats, the
  words and synonyms that scores are computed from (a score is an input of the
  retrieval, what a name or a question contains one of the checks), and the cut
  of a rendered prompt at its character budget.
* Paths the backend does not take as it is wired: the retrieval by embeddings
  and its fallback (the draft service is built with the lexical retriever);
  results without metadata or retrieval, which `run()` never hands to the
  checks; `confidence_blocked_threshold`, which only the validation of the
  settings reads.
* Time other than "a timeout expires or does not", except in `SchemaCatalog`, which
  has a clock, and in the limits of the second opinion.  The clock of the cache
  is the wall clock; that it is set back is not modelled, and would prolong the
  life of an entry by as much.
* Settings that turn a service off where nothing else depends on it (query
  history).  With `unavailable_score` above `confidence_low_threshold` a check that
  is not available could lift a bad answer: `UnavailableNeverHelps` is claimed
  for prudent settings, as the defaults are.
* The evaluation harness, a batch program in a process of its own whose result
  is a report; the legacy SQLite demo, another program; the layout of the web
  client.
