--------------------------- MODULE ConfidenceScoring ---------------------------
(***************************************************************************)
(* The confidence of an answer (services/confidence_aggregation.py): each  *)
(* component scores the signals whose codes it looks at, the weighted mean *)
(* falls into a band, and a failed component blocks whatever the mean.     *)
(* Weights count hundredths, scores ten-thousandths.                       *)
(***************************************************************************)
EXTENDS ConfidenceSignals

CONSTANTS
  UnavailableScore,    \* confidence_unavailable_score
  NotApplicableScore,  \* confidence_not_applicable_score
  HighThreshold, MediumThreshold, LowThreshold

ASSUME ScoringAssumption ==
  /\ UnavailableScore \in 0 .. Full /\ NotApplicableScore \in 0 .. Full
  /\ {HighThreshold, MediumThreshold, LowThreshold} \subseteq 0 .. Full
  /\ HighThreshold > MediumThreshold /\ MediumThreshold > LowThreshold

\* Mutant of DefaultWeights: 0.2 for 0.02. The limit of 0.05 does not bind a default.
DefaultWeights_Misplaced ==
  [sql_syntax_validity |-> 10, guardrail_approval |-> 15, schema_coverage |-> 20,
   result_sanity |-> 20, semantic_alignment |-> 15, multi_query_agreement |-> 18,
   model_reported_confidence |-> 20]

\* confidence_weights with the settings' defaults.
DefaultWeights ==
  [sql_syntax_validity |-> 10, guardrail_approval |-> 15, schema_coverage |-> 20,
   result_sanity |-> 20, semantic_alignment |-> 15, multi_query_agreement |-> 18,
   model_reported_confidence |-> 2]

Components == DOMAIN DefaultWeights

-----------------------------------------------------------------------------
(* Which component looks at which code: prefixes in the source, and for    *)
(* result sanity two codes of their own.                                   *)

SchemaCodes ==
  {"schema_coverage_unavailable", "schema_coverage_retrieval_unavailable",
   "schema_coverage_gap", "schema_coverage_passed", "generated_metadata_unavailable",
   "generated_metadata_mismatch", "generated_metadata_matches_ast"}

\* Mutant of PercentageCodes: the prefix is "percentage_bounds".
PercentageCodes_BoundsOnly ==
  {"percentage_bounds_passed", "percentage_bounds_not_applicable"}

PercentageCodes ==
  {"percentage_out_of_bounds", "percentage_bounds_passed",
   "percentage_bounds_not_applicable"}

SanityCodes ==
  PercentageCodes \cup
  {"negative_count_detected", "negative_count_passed", "negative_count_not_applicable",
   "date_range_configuration_unavailable", "date_outside_configured_range",
   "date_range_passed", "date_range_not_applicable",
   "null_heavy_output_column", "null_heavy_passed", "null_heavy_not_applicable",
   "possible_duplicate_amplification", "duplicate_amplification_passed",
   "duplicate_amplification_distinct_present", "duplicate_amplification_not_applicable",
   "duplicate_amplification_metadata_unavailable",
   "unexpected_empty_result", "empty_result_passed",
   "aggregation_shape_mismatch", "aggregation_shape_passed",
   "aggregation_shape_not_applicable", "aggregation_shape_metadata_unavailable"}

SemanticCodes ==
  {"semantic_alignment_metadata_unavailable", "semantic_alignment_sql_unavailable",
   "semantic_alignment_passed", "semantic_alignment_mismatch",
   "semantic_alignment_uncertain", "back_translation_provider_error",
   "back_translation_malformed_output", "back_translation_provider_timeout",
   "back_translation_rate_limited", "back_translation_credentials_unavailable",
   "back_translation_provider_unavailable"}

MultiQueryCodes ==
  {"multi_query_disabled_by_budget", "multi_query_skipped_deterministic_failure",
   "multi_query_not_applicable_simple_lookup", "multi_query_retrieval_unavailable",
   "multi_query_primary_result_too_large", "multi_query_generation_unavailable",
   "multi_query_timeout", "multi_query_retry_budget_exceeded",
   "multi_query_generation_incomplete", "multi_query_secondary_blocked",
   "multi_query_secondary_plan_unavailable", "multi_query_secondary_execution_unavailable",
   "multi_query_secondary_execution_timeout", "multi_query_not_independent",
   "multi_query_result_agreement", "multi_query_result_disagreement",
   "multi_query_result_incomparable"}

\* Every signal has one of these codes.
Codes ==
  {"deterministic_validation_disabled"}
  \cup SchemaCodes \cup SanityCodes \cup SemanticCodes \cup MultiQueryCodes

Signals == [code : Codes, status : Statuses, score : 0 .. Full]

ASSUME NoneAssumption == None \notin Signals

CodesOf ==
  [schema_coverage |-> SchemaCodes, result_sanity |-> SanityCodes,
   semantic_alignment |-> SemanticCodes, multi_query_agreement |-> MultiQueryCodes]

\* Without a signal these are unavailable, the others do not apply.
Critical == {"schema_coverage", "result_sanity"}

-----------------------------------------------------------------------------
(* Components.                                                             *)

\* Division to the nearest number.
Rounded(n, d) == (2 * n + d) \div (2 * d)

\* Mutant of SignalScore: what could not be checked is taken for good.
SignalScore_TrustsUnavailable(s) ==
  CASE s.status = "passed" -> s.score
    [] s.status = "warning" -> Min({s.score, 7500})
    [] s.status = "failed" -> 0
    [] OTHER -> Full

\* grouped_score; a warning never counts more than 0.75.
SignalScore(s) ==
  CASE s.status = "passed" -> s.score
    [] s.status = "warning" -> Min({s.score, 7500})
    [] s.status = "failed" -> 0
    [] OTHER -> UnavailableScore

\* grouped_status of signals of which some apply.
GroupedStatus(signals) ==
  LET statuses == {s.status : s \in signals}
  IN  CHOOSE status \in Statuses :
        \/ status = "failed" /\ "failed" \in statuses
        \/ status = "warning" /\ "warning" \in statuses /\ "failed" \notin statuses
        \/ /\ status = "unavailable" /\ "unavailable" \in statuses
           /\ statuses \cap {"failed", "warning"} = {}
        \/ status = "passed" /\ statuses \subseteq {"passed", "not_applicable"}

Component(status, score, weight) == [status |-> status, score |-> score, weight |-> weight]

\* grouped_component.
Grouped(c, all, weight) ==
  LET signals == {s \in all : s.code \in CodesOf[c]}
      applicable == {s \in signals : s.status # "not_applicable"}
      critical == c \in Critical
  IN  IF applicable # {}
      THEN Component(GroupedStatus(signals),
                     Rounded(MapThenSumSet(SignalScore, applicable), Cardinality(applicable)),
                     weight)
      ELSE IF ~critical THEN Component("not_applicable", 0, 0)
      ELSE IF signals = {} THEN Component("unavailable", UnavailableScore, weight)
      ELSE Component("not_applicable", NotApplicableScore, weight)

\* _components for SQL that was approved and ran, the only SQL that is scored.
ComponentsOf(signals, weights, reported) ==
  [c \in Components |->
     IF c \in DOMAIN CodesOf THEN Grouped(c, signals, weights[c])
     ELSE IF c = "model_reported_confidence" THEN Component("passed", reported, weights[c])
     ELSE Component("passed", Full, weights[c])]

-----------------------------------------------------------------------------
(* The summary.                                                            *)

Band(score) ==
  IF score >= HighThreshold THEN "high"
  ELSE IF score >= MediumThreshold THEN "medium"
  ELSE IF score >= LowThreshold THEN "low"
  ELSE "blocked"

Summary(status, score, band) == [status |-> status, score |-> score, band |-> band]

Summaries ==
  [status : {"passed", "failed", "unavailable", "not_applicable"},
   score : {None} \cup 0 .. Full,
   band : {"high", "medium", "low", "blocked", "not_applicable"}]

ASSUME SummariesAssumption == None \notin Summaries

\* score(). Every component but the model's own may block; that one never fails.
Scored(signals, weights, reported) ==
  LET components == ComponentsOf(signals, weights, reported)
      weighed == {c \in Components : components[c].weight > 0}
      Weight(c) == components[c].weight
      Contribution(c) == components[c].score * components[c].weight
      total == MapThenSumSet(Weight, weighed)
      score == Rounded(MapThenSumSet(Contribution, weighed), total)
      band == IF \E c \in weighed : components[c].status = "failed"
              THEN "blocked" ELSE Band(score)
  IN  IF signals # {} /\ \A s \in signals : s.status = "not_applicable"
      THEN Summary("not_applicable", None, "not_applicable")
      ELSE IF weighed = {} THEN Summary("unavailable", None, "not_applicable")
      ELSE IF band = "blocked" THEN Summary("failed", score, band)
      ELSE IF \E c \in Components : components[c].status = "unavailable"
      THEN Summary("unavailable", score, band)
      ELSE Summary("passed", score, band)
=============================================================================
