-------------------------- MODULE MCConfidenceChecks --------------------------
(***************************************************************************)
(* Small instances of ConfidenceChecks, in three families: every way nine  *)
(* checks can turn out for one column; every way the alignment can; every  *)
(* pair of results of two rows, within the budgets and beyond.             *)
(***************************************************************************)
EXTENDS ConfidenceChecks

MCFolded == [count |-> 1, COUNT |-> 1, day |-> 2, pct |-> 3, x |-> 4]
MCCountLike == {"count", "COUNT"}
MCPercentLike == {"pct"}
MCDateLike == {"day"}
MCTranslations == {{"a", "b", "c"}, {"a", "b"}, {"a", "d"}, {"d"}, {}}
MCSimilarities == {3000, 6000, 8000, 10000}
MCReports == {0, 5000, 10000}
MCDurations == 0 .. 3

Value(kind, n) == [kind |-> kind, n |-> n]
Null == Value("null", 0)

UpToTwo(S) == UNION {[1 .. k -> S] : k \in 0 .. 2}

\* Results of one column.
Results(column, values) ==
  {[columns |-> <<column>>, truncated |-> FALSE,
    rows |-> [i \in DOMAIN s |-> [c \in {column} |-> s[i]]]] : s \in UpToTwo(values)}

Good == [columns |-> <<"count">>, truncated |-> FALSE,
         rows |-> <<[count |-> Value("int", 2)]>>]
Negative == [Good EXCEPT !.rows = <<[count |-> Value("int", -1)]>>]

Columns(T) == {<<t, "id">> : t \in T}
References(T) == [tables |-> T, columns |-> Columns(T)]
Metadata(T, functions) == [tables |-> T, columns |-> Columns(T), functions |-> functions]

Counted == Metadata({1, 2}, {"count"})

\* A draft that joins an order to its customer, as well as it can be.
Answer(result) ==
  [words |-> {"count"}, distinct |-> TRUE, result |-> result,
   catalog |-> [tables |-> {1, 2},
                foreignKeys |-> {[child |-> 2, parent |-> 1, primary |-> TRUE]}],
   retrieval |-> References({1, 2}), declared |-> References({1, 2}),
   metadata |-> Counted]

WithoutSemantics == [DefaultWeights EXCEPT !.semantic_alignment = 0]

Scenario(r) ==
  [r |-> r, question |-> {"a", "b", "c"}, deterministic |-> TRUE, semantic |-> FALSE,
   embeddings |-> FALSE, second |-> "disabled", weights |-> DefaultWeights,
   opinions |-> "plain"]

Checked ==
  {[Scenario([Answer(result) EXCEPT !.words = words, !.distinct = distinct,
                                    !.metadata = metadata, !.retrieval = retrieval,
                                    !.declared = References({1, 2})])
    EXCEPT !.weights = weights, !.deterministic = Cardinality(words) < 3] :
   result \in Results("count", {Null, Value("int", -1), Value("int", 2)})
              \cup Results("pct", {Null, Value("decimal", 50), Value("float", 101)})
              \cup Results("day", {Null, Value("date", 5), Value("date", 99)}),
   words \in SUBSET {"count", "by"} \cup {{"count", "by", "orders"}},
   distinct \in BOOLEAN,
   metadata \in {Metadata({1}, {}), Metadata({1}, {"sum"}), Counted},
   retrieval \in {References({1}), References({1, 2})},
   weights \in {DefaultWeights, WithoutSemantics}}

Asking ==
  {[Scenario(Answer(result)) EXCEPT
      !.semantic = TRUE, !.deterministic = deterministic, !.embeddings = embeddings,
      !.second = second, !.weights = weights] :
   result \in {Good, Negative}, deterministic \in BOOLEAN, embeddings \in BOOLEAN,
   second \in {"disabled", "no alternates", "enabled"},
   weights \in {DefaultWeights, WithoutSemantics}}

Values ==
  {Value("decimal", 0), Value("decimal", 1), Value("decimal", 2), Value("nan", 0),
   Value("float", 1)}

Odd ==
  {[Good EXCEPT !.truncated = TRUE],
   [columns |-> <<"COUNT">>, truncated |-> FALSE, rows |-> <<[COUNT |-> Value("int", 2)]>>],
   [columns |-> <<"count", "COUNT">>, truncated |-> FALSE,
    rows |-> <<[count |-> Value("int", 2), COUNT |-> Value("int", 2)]>>],
   [Good EXCEPT !.rows = <<[count |-> Value("other", 0)]>>],
   [Good EXCEPT !.rows = [i \in 1 .. 3 |-> [count |-> Value("int", 2)]]],
   [columns |-> <<"x">>, truncated |-> FALSE, rows |-> <<[x |-> Value("bool", 1)]>>],
   [columns |-> <<"x">>, truncated |-> FALSE, rows |-> <<[x |-> Value("int", 1)]>>], Good}

MCOpinions == [plain |-> {Good, Negative}, values |-> Results("x", Values), odd |-> Odd]

Comparing ==
  {[Scenario([Answer(result) EXCEPT !.words = words]) EXCEPT
      !.second = "enabled", !.opinions = "values"] :
   result \in Results("x", Values), words \in {{}}}
  \cup
  {[Scenario([Answer(result) EXCEPT !.words = words, !.metadata = metadata]) EXCEPT
      !.second = "enabled", !.opinions = "odd"] :
   result \in Odd, words \in {{}, {"by"}, {"orders"}},
   metadata \in {Counted, Metadata({1, 2}, {})}}

MCScenarios == Checked \cup Asking \cup Comparing
=============================================================================
