-------------------------- MODULE GuardrailPipeline --------------------------
(***************************************************************************)
(* The two validations one drafted SQL text goes through inside a single   *)
(* request: QueryDraftService.draft validates what the provider wrote and  *)
(* replaces it by the rewritten text (services/query_draft.py), then       *)
(* QueryExecutionService.execute validates the replacement again against   *)
(* the same catalog object and runs what that second validation returns    *)
(* (services/query_execution.py).                                          *)
(***************************************************************************)
EXTENDS SqlGuardrails, Sequences, FiniteSets

CONSTANTS
  Drafts,    \* the SQL texts a provider may write
  Catalogs   \* the schema catalogs a request may hold

ASSUME InputsAssumption ==
  /\ Drafts \subseteq SqlTexts
  /\ Catalogs \subseteq SUBSET CatalogTables

VARIABLES
  drafted,   \* the text the provider wrote
  catalog,   \* the catalog of this request
  passes,    \* the validation results so far, oldest first
  stage      \* "draft", "execute", "running", "blocked" or "raised"

vars == <<drafted, catalog, passes, stage>>

Init ==
  /\ drafted \in Drafts
  /\ catalog \in Catalogs
  /\ passes = <<>>
  /\ stage = "draft"

\* Mutant of Pass: only the latest result is kept.
Pass_ForgetsFirst(sql, next) ==
  LET result == Validate(sql, catalog)
  IN /\ IF Raises(sql)
        THEN stage' = "raised" /\ UNCHANGED passes
        ELSE /\ passes' = <<result>>
             /\ stage' = IF result.valid THEN next ELSE "blocked"
     /\ UNCHANGED <<drafted, catalog>>

\* One validation of text sql; an invalid result ends the request as blocked, and
\* an exception of the policy ends it without a result.
Pass(sql, next) ==
  LET result == Validate(sql, catalog)
  IN /\ IF Raises(sql)
        THEN stage' = "raised" /\ UNCHANGED passes
        ELSE /\ passes' = Append(passes, result)
             /\ stage' = IF result.valid THEN next ELSE "blocked"
     /\ UNCHANGED <<drafted, catalog>>

\* QueryDraftService.draft on a draft that carries SQL.
ValidateDraft ==
  /\ stage = "draft"
  /\ Pass(drafted, "execute")

\* The validation at the head of QueryExecutionService.execute; its argument
\* is the text the draft was replaced by.
ValidateAgain ==
  /\ stage = "execute"
  /\ Pass(passes[1].sql, "running")

Next == ValidateDraft \/ ValidateAgain

Spec == Init /\ [][Next]_vars

-----------------------------------------------------------------------------
\* The text the executor sends to the database.
Executed == passes[2]

\* Every variable has its type, and the number of passes so far is the number
\* its stage stands for: none, the draft's, the draft's and the executor's.
TypeOK ==
  /\ drafted \in Drafts
  /\ catalog \in Catalogs
  /\ stage \in {"draft", "execute", "running", "blocked", "raised"}
  /\ Len(passes) = CASE stage = "draft" -> 0
                     [] stage = "execute" -> 1
                     [] stage = "running" -> 2
                     [] stage = "blocked" -> 1
                     [] stage = "raised" -> 0

\* What the draft approved is what runs: the second validation never refuses
\* or rewrites a text the first one approved, so the SQL stored with the draft
\* and shown to the user is the SQL that was executed.  It rests on the LIMIT
\* rewrite being idempotent and leaving every reference alone.
ExecutedIsDrafted ==
  Len(passes) = 2 => /\ Executed.valid
                     /\ Executed.sql = passes[1].sql
                     /\ Executed.tables = passes[1].tables

\* The text that runs asks for no more rows than the policy allows, and for
\* exactly the rows of the provider's text otherwise: only the LIMIT differs,
\* and it is the smaller of the provider's literal and the cap.
OnlyTheLimitNarrows ==
  stage = "running" =>
    /\ Executed.sql.limit.kind = "literal"
    /\ Executed.sql.limit.n = Executed.effective
    /\ Executed.effective \in 0 .. MaxReturnedRows
    /\ [Executed.sql EXCEPT !.limit = drafted.limit] = drafted
    /\ drafted.limit.kind = "literal" =>
         Executed.effective =
           IF drafted.limit.n < MaxReturnedRows THEN drafted.limit.n
                                                ELSE MaxReturnedRows

\* Every name in the text that runs means one thing in the catalog: each table
\* source denotes exactly one catalog table, and each column belongs to
\* exactly one source of its own scope, whichever qualifiers it carries.
NamesAreUnambiguous ==
  stage = "running" =>
    \A scope \in Executed.sql.scopes :
      /\ \A src \in TableSources(scope) :
           Cardinality({t \in catalog : /\ t.name = src.table
                                        /\ src.schema \in {None, t.schema}}) = 1
      /\ \A col \in scope.columns :
           Cardinality({src \in scope.sources :
              /\ col.source \in {None, src.name}
              /\ IF src.kind = "derived" THEN col.name \in src.columns
                 ELSE \E t \in Executed.tables :
                        /\ t.name = src.table
                        /\ src.schema \in {None, t.schema}
                        /\ col.name \in t.columns
                        /\ col.source # None => col.schema \in {None, t.schema}}) = 1

\* docs/exec-plans/sql-guardrails.md asks the validation metadata to track
\* whether a LIMIT was injected or capped.  The metadata returned with the
\* rows is the second pass's.
LimitRewriteIsReported ==
  stage = "running" =>
    (Executed.sql # drafted => Executed.added \/ Executed.reduced)
=============================================================================
