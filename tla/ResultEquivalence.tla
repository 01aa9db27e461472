--------------------------- MODULE ResultEquivalence ---------------------------
(***************************************************************************)
(* When the results of two queries say the same                            *)
(* (services/result_equivalence.py).                                       *)
(*                                                                         *)
(* A value is [kind, n]; n tells values of a kind apart, in units of the   *)
(* decimal tolerance where it counts. A row maps column names to values.   *)
(***************************************************************************)
EXTENDS Integers, Sequences, FiniteSets, SequencesExt, FiniteSetsExt

CONSTANTS
  Folded,            \* column name -> the place of its casefolded form among them
  MaxComparedRows,   \* confidence_multi_query_max_result_rows
  DecimalTolerance,  \* confidence_multi_query_decimal_abs_tol
  FloatTolerance,    \* confidence_multi_query_float_abs_tol
  FloatPrecision     \* the inverse of confidence_multi_query_float_rel_tol

ASSUME EquivalenceAssumption ==
  /\ \A name \in DOMAIN Folded : Folded[name] \in Nat
  /\ MaxComparedRows \in Nat \ {0}
  /\ DecimalTolerance \in Nat /\ FloatTolerance \in Nat
  /\ FloatPrecision \in Nat \ {0}

\* "nan" is a Decimal; "infinite" a float that is not finite; "other" any value
\* that is not normalized.
Kinds == {"null", "text", "bool", "int", "decimal", "nan", "float", "infinite",
          "date", "other"}
Decimals == {"decimal", "nan"}
Numbers == {"int", "decimal", "nan", "float"}
Unsupported == {"infinite", "other"}

\* normalized_value: dates become text.
Normalized(value) == IF value.kind = "date" THEN [value EXCEPT !.kind = "text"] ELSE value

\* A result is [columns, rows, truncated], each row with a value for each column.
IsResult(result) ==
  /\ result.columns \in Seq(DOMAIN Folded)
  /\ result.rows \in Seq([Range(result.columns) -> [kind : Kinds, n : Int]])
  /\ result.truncated \in BOOLEAN

-----------------------------------------------------------------------------
(* values_equal and rows_equal: "equal", "different", or "raises".         *)

Verdict(same) == IF same THEN "equal" ELSE "different"

Magnitude(n) == IF n < 0 THEN -n ELSE n

\* math.isclose.
IsClose(m, n) ==
  LET apart == Magnitude(m - n)
  IN  \/ apart <= FloatTolerance
      \/ apart * FloatPrecision <= Max({Magnitude(m), Magnitude(n)})

\* A difference with a NaN is a NaN, and to order that raises InvalidOperation
\* beyond the handler of it.
DecimalsCompared(a, b) ==
  IF ~({a.kind, b.kind} \subseteq Numbers) THEN "different"
  ELSE IF "nan" \in {a.kind, b.kind} THEN "raises"
  ELSE Verdict(Magnitude(a.n - b.n) <= DecimalTolerance)

ValuesCompared(a, b) ==
  LET kinds == {a.kind, b.kind}
  IN  IF kinds \cap Decimals # {} THEN DecimalsCompared(a, b)
      ELSE IF "float" \in kinds
      THEN Verdict(kinds \subseteq Numbers /\ IsClose(a.n, b.n))
      ELSE Verdict(a = b \/ (kinds \subseteq {"int", "bool"} /\ a.n = b.n))

\* The first column that does not agree decides.
RowsCompared(left, right) ==
  LET odd == {i \in DOMAIN left : ValuesCompared(left[i], right[i]) # "equal"}
  IN  IF odd = {} THEN "equal" ELSE ValuesCompared(left[Min(odd)], right[Min(odd)])

-----------------------------------------------------------------------------
(* compare_result_sets.                                                    *)

FoldedColumns(result) == {Folded[name] : name \in Range(result.columns)}

HasDuplicateColumns(result) == Cardinality(FoldedColumns(result)) < Len(result.columns)

\* normalize_rows: values in the order of the folded column names.
NormalizedRows(result) ==
  LET order == SetToSortSeq(FoldedColumns(result), <)
      named(c) == CHOOSE name \in Range(result.columns) : Folded[name] = c
  IN  [i \in DOMAIN result.rows |->
         [j \in DOMAIN order |-> Normalized(result.rows[i][named(order[j])])]]

HasUnsupportedValue(rows) ==
  \E i \in DOMAIN rows : \E j \in DOMAIN rows[i] : rows[i][j].kind \in Unsupported

\* Mutant of Unmatched: a row may match any number of times.
Unmatched_Reused(rows, i) == rows

Unmatched(rows, i) == RemoveAt(rows, i)

\* One round: the first row left that is not different is the match, and gone.
MatchRow(state, row) ==
  LET hits == {i \in DOMAIN state.left : RowsCompared(row, state.left[i]) # "different"}
      first == Min(hits)
  IN  IF state.outcome # "agreement" THEN state
      ELSE IF hits = {} THEN [state EXCEPT !.outcome = "disagreement"]
      ELSE IF RowsCompared(row, state.left[first]) = "raises"
      THEN [state EXCEPT !.outcome = "raises"]
      ELSE [state EXCEPT !.left = Unmatched(@, first)]

CompareRows(left, right) ==
  FoldLeft(MatchRow, [left |-> right, outcome |-> "agreement"], left).outcome

CompareResultSets(primary, secondary) ==
  LET both == {primary, secondary}
  IN  IF \/ \E result \in both : \/ result.truncated
                                 \/ Len(result.rows) > MaxComparedRows
                                 \/ HasDuplicateColumns(result)
         \/ FoldedColumns(primary) # FoldedColumns(secondary)
      THEN "incomparable"
      ELSE IF Len(primary.rows) # Len(secondary.rows) THEN "disagreement"
      ELSE IF \E result \in both : HasUnsupportedValue(NormalizedRows(result))
      THEN "incomparable"
      ELSE CompareRows(NormalizedRows(primary), NormalizedRows(secondary))

-----------------------------------------------------------------------------
\* Reference definition, apart from the order of the rounds: the rows can be
\* paired so that those of each pair are equal.
SameRows(left, right) ==
  \E pairing \in [DOMAIN left -> DOMAIN right] :
    /\ \A i, j \in DOMAIN left : i # j => pairing[i] # pairing[j]
    /\ \A i \in DOMAIN left : RowsCompared(left[i], right[pairing[i]]) = "equal"
=============================================================================
