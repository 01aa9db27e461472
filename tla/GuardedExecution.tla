--------------------------- MODULE GuardedExecution ---------------------------
(***************************************************************************)
(* What QueryExecutionService.execute promises its callers, without saying *)
(* how: a call is answered once; generated SQL touches data only after it  *)
(* was approved; an answer that says "blocked" means that it did not; and  *)
(* rows are only ever returned for SQL that ran.  QueryExecution is shown  *)
(* to implement this module, and the request workflow uses these outcomes  *)
(* for its call of the executor.                                           *)
(***************************************************************************)

VARIABLES
  phase,  \* "idle", "submitted", "approved" or "ran"
  answer  \* the public code of the last answer, "none" before the first

vars == <<phase, answer>>

\* Public codes of the answers that refuse the SQL before it runs:
\* SQLGuardrailValidationError and the QueryPlanInspectionError family.
BlockedCodes ==
  {"sql_validation_failed", "sql_guardrail_plan_error",
   "sql_guardrail_explain_timeout", "sql_guardrail_plan_too_expensive",
   "sql_guardrail_plan_reference_mismatch"}

\* Public codes of the QueryExecutionError family.
FailureCodes ==
  {"sql_execution_error", "sql_execution_timeout", "database_unavailable"}

Codes == BlockedCodes \cup FailureCodes \cup {"executed"}

Init ==
  /\ phase = "idle"
  /\ answer = "none"

\* A caller hands over a text; the previous answer is forgotten.
Submit ==
  /\ phase = "idle"
  /\ phase' = "submitted"
  /\ answer' = "none"

\* A text refused by the policy is answered at once.
Refuse ==
  /\ phase = "idle"
  /\ phase' = "idle"
  /\ answer' = "sql_validation_failed"

\* Policy, schema and plan all accept the text.
Approve ==
  /\ phase = "submitted"
  /\ phase' = "approved"
  /\ UNCHANGED answer

\* The database starts running the approved text.
Run ==
  /\ phase = "approved"
  /\ phase' = "ran"
  /\ UNCHANGED answer

\* The codes an answer may carry in each phase.
Allowed ==
  [submitted |-> (BlockedCodes \ {"sql_validation_failed"}) \cup FailureCodes,
   approved  |-> FailureCodes,
   ran       |-> FailureCodes \cup {"executed"}]

Answer ==
  /\ phase # "idle"
  /\ \E code \in Allowed[phase] : answer' = code
  /\ phase' = "idle"

Next == Submit \/ Refuse \/ Approve \/ Run \/ Answer

Spec == Init /\ [][Next]_vars
=============================================================================
