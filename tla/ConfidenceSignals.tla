--------------------------- MODULE ConfidenceSignals ---------------------------
(***************************************************************************)
(* The nine checks of a result that need no provider                       *)
(* (services/confidence_signals.py), as functions of what is known after   *)
(* the execution of a draft:                                               *)
(*   words       the words of the question that a check looks for          *)
(*   catalog     [tables, foreignKeys], a key being [child, parent,        *)
(*               primary], primary when it refers to the primary key       *)
(*   retrieval   [tables, columns] of the prompt, or None                  *)
(*   declared    [tables, columns] the provider says it used               *)
(*   metadata    [tables, columns, functions] of the SQL that ran, or None *)
(*   distinct    whether its text contains "distinct"                      *)
(*   result      [columns, rows, truncated] (ResultEquivalence)            *)
(* A column of a table is the pair of their names.                         *)
(***************************************************************************)
EXTENDS Integers, Sequences, FiniteSets, SequencesExt, FiniteSetsExt

CONSTANTS
  CountLike, PercentLike, DateLike,  \* result columns, by their names
  MinPercent, MaxPercent,            \* result_sanity_min_percentage, _max_percentage
  MinDate, MaxDate,                  \* result_sanity_min_date, _max_date, or None
                                     \* when it is no date
  NullHeavyPercent,                  \* result_sanity_null_heavy_threshold
  None

ASSUME SignalsAssumption ==
  /\ MinPercent \in Int /\ MaxPercent \in Int
  /\ NullHeavyPercent \in 0 .. 100

\* Scores count ten-thousandths, to which the scoring rounds.
Full == 10000

Statuses == {"passed", "warning", "failed", "unavailable", "not_applicable"}

Signal(code, status, score) == [code |-> code, status |-> status, score |-> score]
Passed(code) == Signal(code, "passed", Full)
Warning(code) == Signal(code, "warning", Full \div 2)
Failed(code) == Signal(code, "failed", 0)
Unavailable(code) == Signal(code, "unavailable", 0)
NotApplicable(code) == Signal(code, "not_applicable", 0)

Aggregates == {"avg", "count", "max", "min", "sum"}

-----------------------------------------------------------------------------
(* The SQL against the prompt and against what the provider says.          *)

SchemaCoverage(r) ==
  IF r.metadata = None THEN Unavailable("schema_coverage_unavailable")
  ELSE IF r.retrieval = None THEN Warning("schema_coverage_retrieval_unavailable")
  ELSE IF /\ r.metadata.tables \subseteq r.retrieval.tables
          /\ \A column \in r.metadata.columns :
               column[1] \in r.retrieval.tables \/ column \in r.retrieval.columns
  THEN Passed("schema_coverage_passed")
  ELSE Warning("schema_coverage_gap")

GeneratedMetadata(r) ==
  IF r.metadata = None THEN Unavailable("generated_metadata_unavailable")
  ELSE IF /\ r.metadata.tables = r.declared.tables
          /\ r.metadata.columns = r.declared.columns
  THEN Passed("generated_metadata_matches_ast")
  ELSE Warning("generated_metadata_mismatch")

-----------------------------------------------------------------------------
(* The rows.                                                               *)

ColumnsOf(result, names) == Range(result.columns) \cap names

\* The values of the result's columns among names.
ValuesOf(result, names) ==
  {result.rows[i][column] : i \in DOMAIN result.rows, column \in ColumnsOf(result, names)}

\* is_number; a NaN is a number too, but compares as false.
IsNumber(value) == value.kind \in {"int", "decimal", "float", "infinite"}

NegativeCount(r) ==
  LET IsNegative(value) == IsNumber(value) /\ value.n < 0
  IN  IF \E value \in ValuesOf(r.result, CountLike) : IsNegative(value)
      THEN Failed("negative_count_detected")
      ELSE IF ColumnsOf(r.result, CountLike) = {}
      THEN NotApplicable("negative_count_not_applicable")
      ELSE Passed("negative_count_passed")

PercentageBounds(r) ==
  LET IsOutside(value) == IsNumber(value) /\ value.n \notin MinPercent .. MaxPercent
  IN  IF \E value \in ValuesOf(r.result, PercentLike) : IsOutside(value)
      THEN Failed("percentage_out_of_bounds")
      ELSE IF ColumnsOf(r.result, PercentLike) = {}
      THEN NotApplicable("percentage_bounds_not_applicable")
      ELSE Passed("percentage_bounds_passed")

\* A text in ISO form is a date here.
DateRange(r) ==
  LET IsOutside(value) == value.kind = "date" /\ value.n \notin MinDate .. MaxDate
  IN  IF None \in {MinDate, MaxDate} THEN Warning("date_range_configuration_unavailable")
      ELSE IF \E value \in ValuesOf(r.result, DateLike) : IsOutside(value)
      THEN Warning("date_outside_configured_range")
      ELSE IF ColumnsOf(r.result, DateLike) = {}
      THEN NotApplicable("date_range_not_applicable")
      ELSE Passed("date_range_passed")

NullHeavy(r) ==
  LET rows == r.result.rows
      nulls(column) == Cardinality({i \in DOMAIN rows : rows[i][column].kind = "null"})
  IN  IF rows = <<>> THEN NotApplicable("null_heavy_not_applicable")
      ELSE IF \E column \in Range(r.result.columns) :
                100 * nulls(column) >= NullHeavyPercent * Len(rows)
      THEN Warning("null_heavy_output_column")
      ELSE Passed("null_heavy_passed")

EmptyResult(r) ==
  IF r.result.rows # <<>> THEN Passed("empty_result_passed")
                          ELSE Warning("unexpected_empty_result")

-----------------------------------------------------------------------------
(* Aggregates.                                                             *)

\* one_to_many_relationships among the tables the SQL names.
OneToMany(r) ==
  {key \in r.catalog.foreignKeys : /\ key.primary
                                   /\ key.parent \in r.catalog.tables
                                   /\ {key.parent, key.child} \subseteq r.metadata.tables}

DuplicateAmplification(r) ==
  IF r.metadata = None THEN Unavailable("duplicate_amplification_metadata_unavailable")
  ELSE IF "count" \notin r.metadata.functions
  THEN NotApplicable("duplicate_amplification_not_applicable")
  ELSE IF OneToMany(r) = {} THEN Passed("duplicate_amplification_passed")
  ELSE IF r.distinct THEN Passed("duplicate_amplification_distinct_present")
  ELSE Warning("possible_duplicate_amplification")

AggregationShape(r) ==
  IF r.metadata = None THEN Unavailable("aggregation_shape_metadata_unavailable")
  ELSE LET aggregates == r.metadata.functions \cap Aggregates
           counts == ColumnsOf(r.result, CountLike)
       IN  IF \/ "count" \in r.words /\ aggregates = {} /\ counts = {}
              \/ "by" \in r.words /\ aggregates # {} /\ Len(r.result.rows) <= 1
           THEN Warning("aggregation_shape_mismatch")
           ELSE IF aggregates = {} /\ counts = {}
           THEN NotApplicable("aggregation_shape_not_applicable")
           ELSE Passed("aggregation_shape_passed")

-----------------------------------------------------------------------------
\* validate; their order says nothing.
DeterministicSignals(r, enabled) ==
  IF ~enabled THEN {NotApplicable("deterministic_validation_disabled")}
  ELSE {SchemaCoverage(r), GeneratedMetadata(r), NegativeCount(r), PercentageBounds(r),
        DateRange(r), NullHeavy(r), DuplicateAmplification(r), EmptyResult(r),
        AggregationShape(r)}
=============================================================================
