--------------------------- MODULE SemanticAlignment ---------------------------
(***************************************************************************)
(* How well a question agrees with the question a model reads from the SQL *)
(* that ran (services/semantic_alignment.py). Questions are the sets of    *)
(* their words, stop words left out; scores count ten-thousandths.         *)
(***************************************************************************)
EXTENDS ConfidenceScoring

CONSTANTS
  PassThreshold, FailThreshold,  \* confidence_alignment_pass_threshold, _fail_threshold
  LexicalCap                     \* confidence_alignment_lexical_score_cap

ASSUME AlignmentAssumption ==
  {PassThreshold, FailThreshold, LexicalCap} \subseteq 0 .. Full

\* lexical_similarity: the harmonic mean of precision and recall.
LexicalSimilarity(left, right) ==
  IF left = {} \/ right = {} THEN 0
  ELSE Rounded(2 * Full * Cardinality(left \cap right),
               Cardinality(left) + Cardinality(right))

Alignment(method, score) == [method |-> method, score |-> score]

\* lexical_result.
LexicalResult(method, original, translated) ==
  Alignment(method, Min({LexicalSimilarity(original, translated), LexicalCap}))

\* align with the similarity of two embeddings: their cosine, rescaled to 0 .. Full
\* by cosine_similarity.
EmbeddingResult(similarity, original, translated) ==
  Alignment("embedding",
            Rounded(7 * similarity + 3 * LexicalSimilarity(original, translated), 10))

\* Only an embedding can let it pass.
AlignmentStatus(alignment) ==
  IF alignment.score <= FailThreshold THEN "failed"
  ELSE IF alignment.method = "embedding" /\ alignment.score >= PassThreshold
  THEN "passed"
  ELSE "warning"

AlignmentSignal(alignment) ==
  LET status == AlignmentStatus(alignment)
  IN  Signal(CASE status = "passed" -> "semantic_alignment_passed"
               [] status = "failed" -> "semantic_alignment_mismatch"
               [] status = "warning" -> "semantic_alignment_uncertain",
             status, alignment.score)
=============================================================================
