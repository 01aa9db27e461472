---------------------------- MODULE QueryExecution ----------------------------
(***************************************************************************)
(* QueryExecutionService.execute (backend/app/services/query_execution.py) *)
(* against a PostgreSQL server that may cancel, refuse or drop it at every *)
(* statement.  One call validates a text, opens a read-only transaction on *)
(* a pooled connection, asks for the plan of the validated text under the  *)
(* EXPLAIN timeout, compares the plan with the thresholds and with the     *)
(* relations the validator approved, runs the text under the execution     *)
(* timeout, fetches a bounded prefix, and rolls back whatever happened.    *)
(*                                                                         *)
(* Every request handler of the backend blocks the only event loop, so one *)
(* call of the executor is in progress at a time and one connection of the *)
(* pool is in use; what interleaves with the call is the server.           *)
(***************************************************************************)
EXTENDS SqlGuardrails

CONSTANTS
  Texts,         \* SQL texts a caller may hand over
  Catalogs,      \* schema catalogs it may hand over with them
  Plans,         \* what EXPLAIN may print
  MaxRows,       \* settings.sql_execution_max_rows
  MaxPlanRows,   \* settings.sql_guardrail_max_plan_rows
  MaxPlanCost,   \* settings.sql_guardrail_max_plan_total_cost
  MaxMatches,    \* bound: rows that match a text when it carries no LIMIT
  RoleReadOnly   \* default_transaction_read_only of the configured role

\* What EXPLAIN prints, as far as the checks look: whether the JSON has the
\* expected shape, the estimates of the root node, and the relations of all nodes.
PlanSummaries ==
  [wellFormed : BOOLEAN, rows : Nat, cost : Nat,
   relations : SUBSET [schema : OptionalNames, name : Names]]

ASSUME ExecutionAssumption ==
  /\ MaxRows \in Nat \ {0}
  /\ MaxPlanRows \in Nat
  /\ MaxPlanCost \in Nat
  /\ MaxMatches \in Nat
  /\ RoleReadOnly \in BOOLEAN
  /\ Texts \subseteq SqlTexts
  /\ Catalogs \subseteq SUBSET CatalogTables
  /\ Plans \subseteq PlanSummaries
  /\ None \notin Plans
  /\ None \notin [rows : Nat, truncated : BOOLEAN]

VARIABLES
  pc,        \* where execute() is
  request,   \* the caller's [sql, catalog], or None
  validation,\* what the validator returned, or None
  link,      \* the connection: "none", "up", "down" (lost, the client does not
             \* know yet) or "invalid" (lost, and the client knows)
  pooled,    \* whether that connection is idle in the pool
  session,   \* the server's side of the connection
  plan,      \* what EXPLAIN printed, or None
  matching,  \* how many rows match the validated text without its LIMIT
  result,    \* the QueryExecutionResult about to be returned, or None
  raised,    \* the exception in flight, or NoError
  answer,    \* public code of the last answer, "none" while a call is running
  served     \* what the server was given to plan or run during this call

connectionVars == <<link, pooled, session>>
dataVars == <<request, validation, plan, matching, result>>
vars == <<pc, request, validation, link, pooled, session, plan, matching,
          result, raised, answer, served>>

-----------------------------------------------------------------------------
(* The server's session.  Connections are opened with the database timeout  *)
(* as their statement and idle timeout (db/engine.py), so SET LOCAL          *)
(* idle_in_transaction_session_timeout changes nothing that is modelled.     *)

FreshSession ==
  [open |-> FALSE, aborted |-> FALSE, readOnly |-> RoleReadOnly,
   lockTimeout |-> FALSE, statementTimeout |-> "database"]

\* configure_read_only_transaction and the two SET LOCALs of _inspect_plan.
SetStatements ==
  {"read_only", "lock_timeout", "idle_timeout", "explain_timeout",
   "execution_timeout"}

\* Mutant of Following: the lock timeout is never set.
Following_NoLockTimeout ==
  [read_only         |-> "idle_timeout",
   lock_timeout      |-> "idle_timeout",
   idle_timeout      |-> "explain_timeout",
   explain_timeout   |-> "explain",
   execution_timeout |-> "run"]

\* The statement that follows each one when it succeeds.
Following ==
  [read_only         |-> "lock_timeout",
   lock_timeout      |-> "idle_timeout",
   idle_timeout      |-> "explain_timeout",
   explain_timeout   |-> "explain",
   execution_timeout |-> "run"]

\* The effect of a SET LOCAL; the first statement also begins the transaction.
Configured(stmt) ==
  LET s == [session EXCEPT !.open = TRUE]
  IN CASE stmt = "read_only"         -> [s EXCEPT !.readOnly = TRUE]
       [] stmt = "lock_timeout"      -> [s EXCEPT !.lockTimeout = TRUE]
       [] stmt = "idle_timeout"      -> s
       [] stmt = "explain_timeout"   -> [s EXCEPT !.statementTimeout = "explain"]
       [] stmt = "execution_timeout" -> [s EXCEPT !.statementTimeout = "database"]

Statements == SetStatements \cup {"explain", "run"}

\* What the server was asked to do with generated SQL, and under which settings.
Served(command) ==
  served \cup
    {[command |-> command, sql |-> validation.sql,
      readOnly |-> session.readOnly, lockTimeout |-> session.lockTimeout,
      statementTimeout |-> session.statementTimeout]}

-----------------------------------------------------------------------------
(* Exceptions.  "plan" errors carry the public code of their class;          *)
(* "database" errors are SQLAlchemy's, of which the mapping looks at two     *)
(* things: whether a statement timeout occurs in the cause chain             *)
(* (is_timeout_error), and whether the error is an OperationalError or       *)
(* invalidated the connection.                                               *)

NoError == [type |-> "none", code |-> "none", timedOut |-> FALSE,
            operational |-> FALSE]

PlanError(code, timedOut) ==
  [NoError EXCEPT !.type = "plan", !.code = code, !.timedOut = timedOut]

DatabaseError(timedOut, operational) ==
  [NoError EXCEPT !.type = "database", !.timedOut = timedOut,
                  !.operational = operational]

\* How a statement can fail.  A lock timeout and a lost connection are
\* OperationalErrors that do not mention the statement timeout.
FailureKinds ==
  {"statement_timeout", "lock_timeout", "sql_error", "operational", "lost"}

\* Mutant of Raise: the run of the text moved into _inspect_plan's try block.
Raise_RunIsPlanning(stmt, kind) ==
  LET timedOut == kind = "statement_timeout"
  IN IF stmt \in {"explain_timeout", "explain", "run"}
     THEN PlanError(IF timedOut THEN "sql_guardrail_explain_timeout"
                                ELSE "sql_guardrail_plan_error", timedOut)
     ELSE DatabaseError(timedOut, kind # "sql_error")

\* What is raised when statement stmt fails: _inspect_plan turns the failures
\* of its SET LOCAL and of EXPLAIN into plan errors.
Raise(stmt, kind) ==
  LET timedOut == kind = "statement_timeout"
  IN IF stmt \in {"explain_timeout", "explain"}
     THEN PlanError(IF timedOut THEN "sql_guardrail_explain_timeout"
                                ELSE "sql_guardrail_plan_error", timedOut)
     ELSE DatabaseError(timedOut, kind # "sql_error")

\* mapped_execution_error, and the plan errors that pass unmapped.
PublicCode(error) ==
  IF error.type = "plan" THEN error.code
  ELSE IF error.timedOut THEN "sql_execution_timeout"
  ELSE IF error.operational THEN "database_unavailable"
  ELSE "sql_execution_error"

-----------------------------------------------------------------------------
(* The plan.  Plan nodes name relations as [schema, name]; a node without a  *)
(* schema has schema None.                                                   *)

\* enforce_plan_thresholds.
WithinThresholds(p) ==
  /\ p.rows <= MaxPlanRows
  /\ p.cost <= MaxPlanCost

\* ensure_plan_references_were_validated.
AllowedRelations(v) ==
  {[schema |-> t.schema, name |-> t.name] : t \in v.tables}
    \cup {[schema |-> None, name |-> t.name] : t \in v.tables}

\* parse_plan_summary, then the two checks in the order of the source.
PlanVerdict(p, v) ==
  IF ~p.wellFormed THEN "sql_guardrail_plan_error"
  ELSE IF ~WithinThresholds(p) THEN "sql_guardrail_plan_too_expensive"
  ELSE IF ~(p.relations \subseteq AllowedRelations(v))
       THEN "sql_guardrail_plan_reference_mismatch"
  ELSE "approved"

\* The rows the server has for the validated text when m rows match it.
Available(v, m) ==
  IF v.sql.limit.kind = "literal" /\ v.sql.limit.n < m THEN v.sql.limit.n ELSE m

\* Mutant of Fetched: no row is fetched beyond those that may be returned.
Fetched_NoExtraRow(available) == IF available > MaxRows THEN MaxRows ELSE available

\* fetch_bounded_rows asks for one row more than may be returned.
Fetched(available) == IF available > MaxRows + 1 THEN MaxRows + 1 ELSE available

\* Mutant of Bounded: the extra row is returned too.
Bounded_KeepsExtraRow(fetched) == [rows |-> fetched, truncated |-> fetched > MaxRows]

\* rows[:max_rows] and the truncated flag.
Bounded(fetched) ==
  [rows |-> IF fetched > MaxRows THEN MaxRows ELSE fetched,
   truncated |-> fetched > MaxRows]

-----------------------------------------------------------------------------
Init ==
  /\ pc = "idle"
  /\ request = None
  /\ validation = None
  /\ link = "none"
  /\ pooled = FALSE
  /\ session = FreshSession
  /\ plan = None
  /\ matching = 0
  /\ result = None
  /\ raised = NoError
  /\ answer = "none"
  /\ served = {}

\* A caller calls execute(); the text is validated before anything else, and a
\* refused one is answered without touching the database.  Of a call whose text
\* the policy raises on, nothing is left here: the exception goes to the caller
\* (QueryWorkflow, CheckRaises).
Execute(sql, catalog) ==
  LET v == Validate(sql, catalog)
  IN /\ pc = "idle"
     /\ ~Raises(sql)
     /\ request' = [sql |-> sql, catalog |-> catalog]
     /\ validation' = v
     /\ IF v.valid THEN /\ pc' = "connect"
                        /\ answer' = "none"
                   ELSE /\ pc' = "idle"
                        /\ answer' = "sql_validation_failed"
     /\ plan' = None
     /\ matching' = 0
     /\ result' = None
     /\ raised' = NoError
     /\ served' = {}
     /\ UNCHANGED connectionVars

\* engine.connect(): the pool hands out its idle connection when the pre-ping
\* finds it alive.
ReuseConnection ==
  /\ pc = "connect"
  /\ pooled /\ link = "up"
  /\ pc' = "read_only"
  /\ pooled' = FALSE
  /\ UNCHANGED <<dataVars, link, session, raised, answer, served>>

\* Without an idle connection, or when it is dead or older than pool_recycle,
\* a new one is opened.
OpenConnection ==
  /\ pc = "connect"
  /\ pc' = "read_only"
  /\ link' = "up"
  /\ pooled' = FALSE
  /\ session' = FreshSession
  /\ UNCHANGED <<dataVars, raised, answer, served>>

\* Connecting fails: refused, or "connection timeout expired", which the
\* mapping reads as a timeout.  There is no transaction to roll back.
ConnectFails ==
  /\ pc = "connect"
  /\ \E timedOut \in BOOLEAN : raised' = DatabaseError(timedOut, TRUE)
  /\ pc' = "reply"
  /\ link' = "none"
  /\ pooled' = FALSE
  /\ session' = FreshSession
  /\ UNCHANGED <<dataVars, answer, served>>

\* A SET LOCAL succeeds.
SetLocal ==
  /\ pc \in SetStatements
  /\ link = "up" /\ ~session.aborted
  /\ session' = Configured(pc)
  /\ pc' = Following[pc]
  /\ UNCHANGED <<dataVars, link, pooled, raised, answer, served>>

\* EXPLAIN prints a plan of the validated text.
Explain ==
  /\ pc = "explain"
  /\ link = "up" /\ ~session.aborted
  /\ \E p \in Plans : plan' = p
  /\ served' = Served("explain")
  /\ pc' = "inspect"
  /\ UNCHANGED <<request, validation, matching, result, connectionVars, raised,
                 answer>>

\* Mutant of InspectPlan: a plan that fails a check is logged and let through.
InspectPlan_OnlyLogs ==
  /\ pc = "inspect"
  /\ pc' = "execution_timeout"
  /\ UNCHANGED <<dataVars, connectionVars, raised, answer, served>>

\* The checks of _inspect_plan on the printed plan.
InspectPlan ==
  /\ pc = "inspect"
  /\ LET verdict == PlanVerdict(plan, validation)
     IN IF verdict = "approved"
        THEN /\ pc' = "execution_timeout"
             /\ UNCHANGED raised
        ELSE /\ pc' = "rollback"
             /\ raised' = PlanError(verdict, FALSE)
  /\ UNCHANGED <<dataVars, connectionVars, answer, served>>

\* The validated text runs; the data it meets need not be the data the planner
\* estimated from.
RunSql ==
  /\ pc = "run"
  /\ link = "up" /\ ~session.aborted
  /\ \E m \in 0 .. MaxMatches : matching' = m
  /\ served' = Served("run")
  /\ pc' = "fetch"
  /\ UNCHANGED <<request, validation, plan, result, connectionVars, raised, answer>>

\* The bounded fetch; the driver holds the rows already, so nothing can fail.
FetchRows ==
  /\ pc = "fetch"
  /\ result' = Bounded(Fetched(Available(validation, matching)))
  /\ pc' = "rollback"
  /\ UNCHANGED <<request, validation, plan, matching, connectionVars, raised,
                 answer, served>>

\* A statement fails.  On a connection that is already down nothing else can
\* happen and the server never sees it; otherwise the server did see it and the
\* transaction is aborted.
StatementFails ==
  /\ pc \in Statements
  /\ \E kind \in FailureKinds :
       /\ link = "down" => kind = "lost"
       /\ kind = "lock_timeout" => session.lockTimeout
       /\ raised' = Raise(pc, kind)
       /\ link' = IF kind = "lost" THEN "invalid" ELSE link
       /\ session' = [session EXCEPT !.open = TRUE, !.aborted = TRUE]
  /\ served' = IF pc \in {"explain", "run"} /\ link = "up"
               THEN Served(pc) ELSE served
  /\ pc' = "rollback"
  /\ UNCHANGED <<dataVars, pooled, answer>>

\* The inner finally: transaction.rollback().  Rolling back an invalidated
\* connection sends nothing.
RollBack ==
  /\ pc = "rollback"
  /\ link \in {"up", "invalid"}
  /\ session' = FreshSession
  /\ pc' = "close"
  /\ UNCHANGED <<dataVars, link, pooled, raised, answer, served>>

\* Mutant of RollBackFails: the new error replaces the old one, chain included.
RollBackFails_DropsContext ==
  /\ pc = "rollback"
  /\ link = "down"
  /\ link' = "invalid"
  /\ raised' = DatabaseError(FALSE, TRUE)
  /\ result' = None
  /\ session' = FreshSession
  /\ pc' = "close"
  /\ UNCHANGED <<request, validation, plan, matching, pooled, answer, served>>

\* Mutant of RollBackFails: the rollback is tried again until it succeeds.
RollBackFails_Retries ==
  /\ pc = "rollback"
  /\ link = "down"
  /\ UNCHANGED vars

\* The rollback is the first to notice that the connection is gone.  Its error
\* replaces the result, or the error being handled, whose chain it keeps as its
\* context.
RollBackFails ==
  /\ pc = "rollback"
  /\ link = "down"
  /\ link' = "invalid"
  /\ raised' = DatabaseError(raised.timedOut, TRUE)
  /\ result' = None
  /\ session' = FreshSession
  /\ pc' = "close"
  /\ UNCHANGED <<request, validation, plan, matching, pooled, answer, served>>

\* Mutant of CloseConnection: a dead connection goes back to the pool as well.
CloseConnection_PoolsLost ==
  /\ pc = "close"
  /\ pooled' = TRUE
  /\ session' = FreshSession
  /\ pc' = "reply"
  /\ UNCHANGED <<dataVars, link, raised, answer, served>>

\* The with block closes the connection: a live one goes back to the pool after
\* a reset, any other is thrown away.
CloseConnection ==
  /\ pc = "close"
  /\ pooled' = (link = "up")
  /\ link' = IF link = "up" THEN "up" ELSE "none"
  /\ session' = FreshSession
  /\ pc' = "reply"
  /\ UNCHANGED <<dataVars, raised, answer, served>>

\* The call returns its result or raises the mapped error.  The outer finally
\* finds no active transaction: the inner one ended it, or none was begun.
Reply ==
  /\ pc = "reply"
  /\ answer' = IF raised = NoError THEN "executed" ELSE PublicCode(raised)
  /\ pc' = "idle"
  /\ UNCHANGED <<dataVars, connectionVars, raised, served>>

\* The server closes the connection, or the network loses it, at any time.
DropConnection ==
  /\ link = "up"
  /\ link' = "down"
  /\ UNCHANGED <<pc, dataVars, pooled, session, raised, answer, served>>

\* The steps of a call that is in progress.
CallStep ==
  \/ ReuseConnection \/ OpenConnection \/ ConnectFails
  \/ SetLocal \/ Explain \/ InspectPlan \/ RunSql \/ FetchRows
  \/ StatementFails \/ RollBack \/ RollBackFails
  \/ CloseConnection \/ Reply

Next ==
  \/ \E sql \in Texts, catalog \in Catalogs : Execute(sql, catalog)
  \/ CallStep
  \/ DropConnection

Spec == Init /\ [][Next]_vars

\* Statement, lock, connect and idle timeouts make the server answer every
\* statement or lose the connection, so a call in progress always moves on.
FairSpec == Spec /\ WF_vars(CallStep)

-----------------------------------------------------------------------------
(* Properties.                                                             *)

PcValues ==
  {"idle", "connect", "inspect", "fetch", "rollback", "close", "reply"}
    \cup Statements

SessionType ==
  [open : BOOLEAN, aborted : BOOLEAN, readOnly : BOOLEAN,
   lockTimeout : BOOLEAN, statementTimeout : {"database", "explain"}]

ServedType ==
  [command : {"explain", "run"}, sql : SqlTexts, readOnly : BOOLEAN,
   lockTimeout : BOOLEAN, statementTimeout : {"database", "explain"}]

PlanErrorCodes ==
  {"sql_guardrail_plan_error", "sql_guardrail_explain_timeout",
   "sql_guardrail_plan_too_expensive", "sql_guardrail_plan_reference_mismatch"}

BlockedCodes == PlanErrorCodes \cup {"sql_validation_failed"}

FailureCodes ==
  {"sql_execution_error", "sql_execution_timeout", "database_unavailable"}

PlanErrors ==
  [type : {"plan"}, code : PlanErrorCodes, timedOut : BOOLEAN, operational : {FALSE}]

DatabaseErrors ==
  [type : {"database"}, code : {"none"}, timedOut : BOOLEAN, operational : BOOLEAN]

ErrorType == {NoError} \cup PlanErrors \cup DatabaseErrors

\* Every variable has its type.
TypeOK ==
  /\ pc \in PcValues
  /\ \/ request = None /\ validation = None
     \/ /\ request \in [sql : Texts, catalog : Catalogs]
        /\ validation = Validate(request.sql, request.catalog)
  /\ link \in {"none", "up", "down", "invalid"}
  /\ pooled \in BOOLEAN
  /\ session \in SessionType
  /\ plan \in Plans \cup {None}
  /\ matching \in 0 .. MaxMatches
  /\ result \in [rows : 0 .. MaxRows, truncated : BOOLEAN] \cup {None}
  /\ raised \in ErrorType
  /\ answer \in BlockedCodes \cup FailureCodes \cup {"none", "executed"}
  /\ served \subseteq ServedType

HasRun == \E s \in served : s.command = "run"

\* docs/exec-plans/sql-guardrails.md: generated SQL runs only after AST, schema,
\* LIMIT and EXPLAIN validation, in a read-only transaction with local timeouts.
\* Whatever the server was given is the validated text of this call, inside a
\* read-only transaction with the lock timeout set and under the statement
\* timeout of its command; and the text was run only after a plan of it was
\* printed and approved.
PolicyEnforced ==
  /\ \A s \in served :
       /\ validation.valid
       /\ s.sql = validation.sql
       /\ s.readOnly
       /\ s.lockTimeout
       /\ s.statementTimeout = IF s.command = "explain" THEN "explain" ELSE "database"
  /\ HasRun => /\ \E s \in served : s.command = "explain"
               /\ plan # None
               /\ PlanVerdict(plan, validation) = "approved"

\* A call whose answer says that the SQL was blocked never let the database
\* run it, whatever failed while the call was being wound up.
BlockedNeverRan == answer \in BlockedCodes => ~HasRun

\* A successful answer reports the rows the database had for the executed text:
\* all of them, or the first MaxRows of them with truncated set; any other
\* answer carries no rows, also when the rollback failed after the fetch.
AnswerIsFaithful ==
  pc = "idle" =>
    IF answer = "executed"
    THEN /\ HasRun
         /\ result # None
         /\ result.rows <= MaxRows
         /\ result.truncated <=> Available(validation, matching) > MaxRows
         /\ ~result.truncated => result.rows = Available(validation, matching)
         /\ result.truncated => result.rows = MaxRows
    ELSE result = None

\* Between calls no connection is left checked out, and the pooled one carries
\* neither an open transaction nor a setting of the previous call.
ConnectionIsReturned ==
  pc \in {"idle", "connect"} =>
    /\ link # "none" => pooled
    /\ link # "invalid"
    /\ session = FreshSession

\* A statement timeout stays a timeout up to the answer: neither the rollback's
\* own failure nor the mapping turns it into another code.
TimeoutIsReported ==
  [][/\ raised.timedOut /\ pc # "idle" => raised'.timedOut
     /\ raised.timedOut /\ pc = "reply" /\ pc' = "idle" =>
          answer' \in {"sql_guardrail_explain_timeout", "sql_execution_timeout"}]_vars

\* Every call is answered: with timeouts on the statements, the lock waits, the
\* connect and the idle transaction, no outcome of a statement keeps execute()
\* from its end.
CallReturns == pc # "idle" ~> pc = "idle"

\* The abstract phase of a call: a printed plan that passed the checks of
\* InspectPlan approves the text.
Phase ==
  IF pc = "idle" THEN "idle"
  ELSE IF HasRun THEN "ran"
  ELSE IF plan # None /\ pc # "inspect" /\ PlanVerdict(plan, validation) = "approved"
  THEN "approved"
  ELSE "submitted"

Abstract == INSTANCE GuardedExecution WITH phase <- Phase, answer <- answer

\* The executor implements the promise its callers rely on.
ImplementsGuardedExecution == Abstract!Spec

\* docs/exec-plans/sql-guardrails.md: "Fetch at most `sql_execution_max_rows + 1`
\* rows to detect truncation."  An answer that leaves out rows the caller's own
\* text asked for says that it is truncated.
TruncationIsDetected ==
  pc = "idle" /\ answer = "executed" =>
    LET asked == IF request.sql.limit.kind = "literal" /\ request.sql.limit.n < matching
                 THEN request.sql.limit.n ELSE matching
    IN asked > MaxRows => result.truncated
=============================================================================
