---------------------------- MODULE ConfidenceChecks ----------------------------
(***************************************************************************)
(* What happens between the rows of a draft and the confidence they are    *)
(* returned with (services/query_workflow.py, run, from the execution on): *)
(* the deterministic checks, the back-translation of the SQL and its       *)
(* comparison with the question (services/semantic_alignment.py,           *)
(* providers/openai_alignment.py), the second opinion within its budgets   *)
(* (services/multi_query_agreement.py), the score.                         *)
(***************************************************************************)
EXTENDS SemanticAlignment, ResultEquivalence

CONSTANTS
  Scenarios,         \* what is known after an execution and the settings:
                     \* [r, question, deterministic, semantic, embeddings, second,
                     \* weights, opinions], r as in ConfidenceSignals, question
                     \* its words, opinions in DOMAIN Opinions
  Opinions,          \* sets of results an alternate may have
  Translations,      \* the words of the question the translator may read
  Similarities,      \* what embeddings may say
  Reports,           \* model confidences
  AlignmentRetries,  \* confidence_alignment_max_retries
  Durations,         \* how long a call takes
  TimeLimit,         \* confidence_multi_query_timeout_seconds
  ExecutionLimit,    \* confidence_multi_query_max_execution_ms
  ProviderRetries,   \* sql_generation_max_retries
  AlternateRetries   \* confidence_multi_query_max_retries

ASSUME ChecksAssumption ==
  /\ Similarities \subseteq 0 .. Full /\ Reports \subseteq 0 .. Full
  /\ Durations \subseteq Nat /\ {TimeLimit, ExecutionLimit} \subseteq Nat
  /\ {AlignmentRetries, ProviderRetries, AlternateRetries} \subseteq Nat

\* Questions are finite, weights hundredths, and results those of an execution.
ASSUME ScenariosAssumption ==
  /\ \A s \in Scenarios : /\ IsFiniteSet(s.question) /\ IsResult(s.r.result)
                          /\ s.weights \in [Components -> 0 .. 100]
                          /\ s.opinions \in DOMAIN Opinions
  /\ \A words \in Translations : IsFiniteSet(words)
  /\ \A o \in DOMAIN Opinions : \A result \in Opinions[o] : IsResult(result)

VARIABLES
  scenario,    \* what this answer and the settings are
  stage,       \* "deterministic", "semantic", "align", "second", "generate",
               \* "execute", "score", "scored", or "raised"
  signals,     \* validation_signals
  attempts,    \* failed attempts of the translator
  translated,  \* the words of the back-translated question, or None
  alternate,   \* the second opinion so far, [elapsed, retries, same, result],
               \* or None
  summary      \* the confidence, or None

vars == <<scenario, stage, signals, attempts, translated, alternate, summary>>

Init ==
  /\ scenario \in Scenarios
  /\ stage = "deterministic"
  /\ signals = {} /\ attempts = 0 /\ translated = None
  /\ alternate = None /\ summary = None

\* A check adds a signal and the next stage begins.
Emit(signal, next) ==
  /\ signals' = signals \cup {signal}
  /\ stage' = next
  /\ UNCHANGED <<scenario, summary>>

Deterministic ==
  /\ stage = "deterministic"
  /\ signals' = DeterministicSignals(scenario.r, scenario.deterministic)
  /\ stage' = IF scenario.semantic THEN "semantic" ELSE "second"
  /\ UNCHANGED <<scenario, attempts, translated, alternate, summary>>

-----------------------------------------------------------------------------
(* Back-translation and alignment.                                         *)

RetriedFailures == {"back_translation_rate_limited", "back_translation_provider_timeout"}
TranslationFailures ==
  RetriedFailures \cup
  {"back_translation_malformed_output", "back_translation_credentials_unavailable",
   "back_translation_provider_unavailable"}

\* Mutant of TranslationRetried: one retry too many.
TranslationRetried_OneMore ==
  /\ stage = "semantic"
  /\ attempts <= AlignmentRetries
  /\ attempts' = attempts + 1
  /\ UNCHANGED <<scenario, stage, signals, translated, alternate, summary>>

\* A rate limit or a timeout is followed by another attempt.
TranslationRetried ==
  /\ stage = "semantic"
  /\ attempts < AlignmentRetries
  /\ attempts' = attempts + 1
  /\ UNCHANGED <<scenario, stage, signals, translated, alternate, summary>>

TranslationFails ==
  /\ stage = "semantic"
  /\ \E failure \in TranslationFailures :
       /\ failure \in RetriedFailures => attempts >= AlignmentRetries
       /\ Emit(Unavailable(failure), "second")
  /\ UNCHANGED <<attempts, translated, alternate>>

Translated ==
  /\ stage = "semantic"
  /\ translated' \in Translations
  /\ stage' = "align"
  /\ UNCHANGED <<scenario, signals, attempts, alternate, summary>>

Aligned(alignment) ==
  /\ Emit(AlignmentSignal(alignment), "second")
  /\ UNCHANGED <<attempts, translated, alternate>>

AlignByWords ==
  /\ stage = "align"
  /\ Aligned(LexicalResult(IF scenario.embeddings THEN "lexical_fallback" ELSE "lexical",
                           scenario.question, translated))

AlignByEmbeddings ==
  /\ stage = "align" /\ scenario.embeddings
  /\ \E similarity \in Similarities :
       Aligned(EmbeddingResult(similarity, scenario.question, translated))

\* A response of the embedding service that ends early raises what embed does not
\* catch, and neither does any caller up to the catch-all handler of the process.
EmbeddingBreaks ==
  /\ stage = "align" /\ scenario.embeddings
  /\ stage' = "raised"
  /\ UNCHANGED <<scenario, signals, attempts, translated, alternate, summary>>

-----------------------------------------------------------------------------
(* The second opinion.                                                     *)

\* QueryComplexityClassifier: the terms of the question are among r.words, "by"
\* for those of grouping, "count" for metrics, "orders" for joins.
Complexity(r) ==
  LET aggregate == r.metadata.functions \cap Aggregates # {}
  IN  IF aggregate /\ "by" \in r.words THEN "grouped_comparison"
      ELSE IF aggregate \/ "count" \in r.words THEN "aggregate"
      ELSE IF Cardinality(r.metadata.tables) > 1 /\ "orders" \in r.words
      THEN "join_sensitive"
      ELSE "simple_lookup"

\* Mutant of HasFailed: only what ran before the alignment counts.
HasFailed_Deterministic ==
  \E s \in signals : s.status = "failed" /\ s.code \notin SemanticCodes

HasFailed == \E s \in signals : s.status = "failed"

TooLarge(result) == result.truncated \/ Len(result.rows) > MaxComparedRows

\* The gates of evaluate, in their order: the signal of the first that is closed.
\* A draft that ran has its metadata and its retrieval.
Gate ==
  IF scenario.second = "no alternates" THEN NotApplicable("multi_query_disabled_by_budget")
  ELSE IF HasFailed THEN NotApplicable("multi_query_skipped_deterministic_failure")
  ELSE IF Complexity(scenario.r) = "simple_lookup"
  THEN NotApplicable("multi_query_not_applicable_simple_lookup")
  ELSE IF TooLarge(scenario.r.result)
  THEN NotApplicable("multi_query_primary_result_too_large")
  ELSE None

NotAsked ==
  /\ stage = "second"
  /\ IF scenario.second = "disabled"
     THEN stage' = "score" /\ UNCHANGED <<scenario, signals, summary>>
     ELSE Gate # None /\ Emit(Gate, "score")
  /\ UNCHANGED <<attempts, translated, alternate>>

Ask ==
  /\ stage = "second"
  /\ scenario.second # "disabled" /\ Gate = None
  /\ stage' = "generate"
  /\ alternate' = [elapsed |-> 0, retries |-> 0, same |-> FALSE, result |-> None]
  /\ UNCHANGED <<scenario, signals, attempts, translated, summary>>

\* A failure of the generator or of the executor.
AlternateFails ==
  /\ \/ /\ stage = "generate"
        /\ Emit(Unavailable("multi_query_generation_unavailable"), "score")
     \/ /\ stage = "execute"
        /\ \E code \in {"multi_query_secondary_blocked",
                        "multi_query_secondary_plan_unavailable",
                        "multi_query_secondary_execution_unavailable"} :
             Emit(Unavailable(code), "score")
  /\ UNCHANGED <<attempts, translated, alternate>>

Late(elapsed) == elapsed > TimeLimit

\* The draft of the alternate arrives, late, after retries, or without SQL.
AlternateGenerated ==
  /\ stage = "generate"
  /\ \E d \in Durations, retries \in 0 .. ProviderRetries, complete \in BOOLEAN :
       /\ alternate' = [alternate EXCEPT !.elapsed = d, !.retries = retries]
       /\ IF Late(d) THEN Emit(Unavailable("multi_query_timeout"), "score")
          ELSE IF retries > AlternateRetries
          THEN Emit(Unavailable("multi_query_retry_budget_exceeded"), "score")
          ELSE IF ~complete
          THEN Emit(Unavailable("multi_query_generation_incomplete"), "score")
          ELSE stage' = "execute" /\ UNCHANGED <<scenario, signals, summary>>
  /\ UNCHANGED <<attempts, translated>>

\* comparison_signal.
ComparisonSignal(outcome) ==
  CASE outcome = "agreement" -> Passed("multi_query_result_agreement")
    [] outcome = "disagreement" -> Failed("multi_query_result_disagreement")
    [] OTHER -> Warning("multi_query_result_incomparable")

\* Mutant of Judgement: how long it all took is looked at once, before execution.
Judgement_IgnoresTheClock(elapsed, duration, same, result) ==
  IF duration > ExecutionLimit THEN Unavailable("multi_query_secondary_execution_timeout")
  ELSE IF same THEN Unavailable("multi_query_not_independent")
  ELSE IF CompareResultSets(scenario.r.result, result) = "raises" THEN None
  ELSE ComparisonSignal(CompareResultSets(scenario.r.result, result))

\* What the alternate's rows are taken for; None when their comparison raises.
Judgement(elapsed, duration, same, result) ==
  IF Late(elapsed) THEN Unavailable("multi_query_timeout")
  ELSE IF duration > ExecutionLimit
  THEN Unavailable("multi_query_secondary_execution_timeout")
  ELSE IF same THEN Unavailable("multi_query_not_independent")
  ELSE IF CompareResultSets(scenario.r.result, result) = "raises" THEN None
  ELSE ComparisonSignal(CompareResultSets(scenario.r.result, result))

\* The alternate ran, in a part of the time its call took.
AlternateExecuted ==
  /\ stage = "execute"
  /\ \E d \in Durations, same \in BOOLEAN, result \in Opinions[scenario.opinions] :
     \E duration \in {e \in Durations : e <= d} :
       LET elapsed == alternate.elapsed + d
           judgement == Judgement(elapsed, duration, same, result)
       IN  /\ alternate' = [alternate EXCEPT !.elapsed = elapsed, !.same = same,
                                             !.result = result]
           /\ IF judgement = None
              THEN stage' = "raised" /\ UNCHANGED <<scenario, signals, summary>>
              ELSE Emit(judgement, "score")
  /\ UNCHANGED <<attempts, translated>>

-----------------------------------------------------------------------------
Score ==
  /\ stage = "score"
  /\ \E reported \in Reports : summary' = Scored(signals, scenario.weights, reported)
  /\ stage' = "scored"
  /\ UNCHANGED <<scenario, signals, attempts, translated, alternate>>

Next ==
  \/ Deterministic
  \/ TranslationRetried \/ TranslationFails \/ Translated
  \/ AlignByWords \/ AlignByEmbeddings \/ EmbeddingBreaks
  \/ NotAsked \/ Ask \/ AlternateFails \/ AlternateGenerated \/ AlternateExecuted
  \/ Score

Spec == Init /\ [][Next]_vars

-----------------------------------------------------------------------------
(* Properties.                                                             *)

\* The variables have their types, the translator is asked within its retries, and
\* a score is a share of the whole.
TypeOK ==
  /\ \A c \in Components : scenario.weights[c] \in 0 .. 100
  /\ stage \in {"deterministic", "semantic", "align", "second", "generate", "execute",
                "score", "scored", "raised"}
  /\ signals \subseteq Signals
  /\ \A s, t \in signals : s.code = t.code => s = t
  /\ attempts \in 0 .. AlignmentRetries
  /\ alternate # None => alternate.retries \in 0 .. ProviderRetries
  /\ (summary # None) = (stage = "scored")
  /\ summary # None => summary \in Summaries

Weighed == \A c \in Components : scenario.weights[c] > 0

\* A check that failed blocks the answer, however good everything else is: each
\* code that any check can fail with is one some component looks at, and no mean
\* hides it (docs/ARCHITECTURE.md: confidence "forces a blocked band for hard
\* failures"; here for settings that give every component a weight).
FailureIsNeverOutvoted ==
  (summary # None /\ Weighed /\ \E s \in signals : s.status = "failed") =>
    summary.status = "failed" /\ summary.band = "blocked"

Rank == [blocked |-> 0, low |-> 1, medium |-> 2, high |-> 3]
BandOf(sigs, reported) == Scored(sigs, scenario.weights, reported).band

\* A check that was tried and was not available never lifts the answer into a
\* better band than it would have without being tried
\* (docs/exec-plans/hallucination-detection.md: "Unavailable probabilistic checks
\* lower certainty").
UnavailableNeverHelps ==
  summary # None => \A s \in signals, reported \in Reports :
    (s.status = "unavailable" /\ BandOf(signals \ {s}, reported) \in DOMAIN Rank) =>
      Rank[BandOf(signals, reported)] <= Rank[BandOf(signals \ {s}, reported)]

\* What the provider says of its own confidence is auxiliary: under the default
\* weights it moves an answer by one band at most, whatever else was checked
\* (core/config.py: the weight is at most 0.05, but those of checks that did not
\* apply drop out of the mean).
ModelReportIsAuxiliary ==
  (summary # None /\ scenario.weights = DefaultWeights /\ summary.band \in DOMAIN Rank) =>
    \A reported \in Reports : Rank[BandOf(signals, reported)] - Rank[summary.band] <= 1

\* Agreement is never announced for results that differ: both are complete, have
\* the same columns, and their rows can be paired one to one
\* (services/result_equivalence.py, the rounds of compare_result_sets).
AgreementIsSound ==
  (\E s \in signals : s.code = "multi_query_result_agreement") =>
    LET primary == scenario.r.result
        second == alternate.result
    IN  /\ ~primary.truncated /\ ~second.truncated
        /\ FoldedColumns(primary) = FoldedColumns(second)
        /\ Len(primary.rows) = Len(second.rows)
        /\ SameRows(NormalizedRows(primary), NormalizedRows(second))

\* A second query is paid for only while nothing has failed, and it says something
\* only if it came within its time and retries and is another query
\* (services/multi_query_agreement.py, the gates of evaluate).
SecondOpinionIsEarned ==
  alternate # None => \A s \in signals :
    /\ s.status = "failed" => s.code = "multi_query_result_disagreement"
    /\ s.code \in {"multi_query_result_agreement", "multi_query_result_disagreement",
                   "multi_query_result_incomparable"} =>
         /\ alternate.elapsed <= TimeLimit
         /\ alternate.retries <= AlternateRetries
         /\ ~alternate.same
=============================================================================
