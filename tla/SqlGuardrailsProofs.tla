------------------------- MODULE SqlGuardrailsProofs -------------------------
(***************************************************************************)
(* Facts about the validator of SqlGuardrails that hold for every setting, *)
(* text and catalog.  The rewrite of an accepted text touches its LIMIT    *)
(* only, so the schema references resolve as before; and the rewritten     *)
(* LIMIT is a literal within the cap, so a second validation accepts the   *)
(* rewritten text as it is.                                                *)
(***************************************************************************)
EXTENDS SqlGuardrails, TLAPS

\* The rewrite of a text is a text with the same scopes.
LEMMA ApplyLimitType ==
  ASSUME NEW sql \in SqlTexts
  PROVE  /\ ApplyLimit(sql).sql \in SqlTexts
         /\ ApplyLimit(sql).sql.scopes = sql.scopes
         /\ ApplyLimit(sql).effective \in Int \cup {None}
         /\ ApplyLimit(sql).added \in BOOLEAN
         /\ ApplyLimit(sql).reduced \in BOOLEAN
<1> DEFINE capped == [sql EXCEPT !.limit = LiteralLimit(MaxReturnedRows)]
<1>1. MaxReturnedRows \in Int
  BY SettingsAssumption
<1>2. LiteralLimit(MaxReturnedRows) \in LimitClauses
  BY <1>1 DEF LiteralLimit, LimitClauses
<1>3. capped \in SqlTexts /\ capped.scopes = sql.scopes
  BY <1>2 DEF SqlTexts
<1>4. sql.limit.n \in Int
  BY DEF SqlTexts, LimitClauses
<1> QED
  BY <1>1, <1>3, <1>4 DEF ApplyLimit

\* References are looked up in the scopes alone, so texts with equal scopes
\* have equal findings and denote the same tables.
LEMMA ScopesDecideReferences ==
  ASSUME NEW s, NEW t, NEW catalog, s.scopes = t.scopes
  PROVE  /\ SchemaFindings(s, catalog) = SchemaFindings(t, catalog)
         /\ ReferencedTables(s, catalog) = ReferencedTables(t, catalog)
BY DEF SchemaFindings, ReferencedTables

\* What validate() returns for one statement without findings that parses back:
\* the references of the rewritten text are those of the text.
LEMMA CleanTextIsAccepted ==
  ASSUME NEW sql \in SqlTexts, NEW catalog,
         sql.parse = "ok", sql.statements = 1, sql.renders,
         RuleFindings(sql) = {}, SchemaFindings(sql, catalog) = {}
  PROVE  Validate(sql, catalog) =
           [valid |-> TRUE, sql |-> ApplyLimit(sql).sql, original |-> sql,
            findings |-> {}, tables |-> ReferencedTables(sql, catalog),
            effective |-> ApplyLimit(sql).effective,
            added |-> ApplyLimit(sql).added,
            reduced |-> ApplyLimit(sql).reduced]
<1> DEFINE rewrite == ApplyLimit(sql)
           findings == RuleFindings(sql) \cup SchemaFindings(sql, catalog)
           rewritten == findings \cup SchemaFindings(rewrite.sql, catalog)
<1>1. findings = {}
  OBVIOUS
<1>2. /\ SchemaFindings(rewrite.sql, catalog) = SchemaFindings(sql, catalog)
      /\ ReferencedTables(rewrite.sql, catalog) = ReferencedTables(sql, catalog)
  BY ApplyLimitType, ScopesDecideReferences
<1>3. rewritten = {} /\ (rewritten = {}) = TRUE
  BY <1>2
<1>4. sql.parse # "empty" /\ ~(sql.parse # "ok" \/ sql.statements = 0)
  OBVIOUS
<1>5. Validate(sql, catalog) =
        [valid |-> rewritten = {}, sql |-> rewrite.sql, original |-> sql,
         findings |-> rewritten, tables |-> ReferencedTables(rewrite.sql, catalog),
         effective |-> rewrite.effective,
         added |-> rewrite.added, reduced |-> rewrite.reduced]
  BY <1>1, <1>4, Zenon DEF Validate
<1> HIDE DEF rewritten, rewrite
<1> QED
  BY <1>2, <1>3, <1>5 DEF rewrite

\* What an accepted text satisfies.
LEMMA AcceptedTextIsClean ==
  ASSUME NEW sql \in SqlTexts, NEW catalog, Validate(sql, catalog).valid
  PROVE  /\ sql.parse = "ok" /\ sql.statements = 1 /\ sql.renders
         /\ RuleFindings(sql) = {} /\ SchemaFindings(sql, catalog) = {}
<1>1. \A tables, codes : ~Rejected(sql, tables, codes).valid
  BY DEF Rejected
<1>2. /\ sql.parse = "ok" /\ sql.statements = 1 /\ sql.renders
      /\ RuleFindings(sql) \cup SchemaFindings(sql, catalog) = {}
  BY <1>1 DEF Validate
<1> QED
  BY <1>2

\* A text without rule findings is a SELECT whose LIMIT, if any, is a natural
\* number.
LEMMA CleanLimit ==
  ASSUME NEW sql \in SqlTexts, sql.statements = 1, RuleFindings(sql) = {}
  PROVE  /\ sql.root = "select"
         /\ sql.limit.kind \in {"none", "literal"}
         /\ sql.limit.kind = "literal" => sql.limit.n \in Nat
<1>1. StatementClassificationRule(sql) = {} /\ LimitRule(sql) = {}
  BY DEF RuleFindings
<1>2. sql.root = "select"
  BY <1>1 DEF StatementClassificationRule
<1>3. sql.limit.kind \in {"none", "dynamic", "literal"} /\ sql.limit.n \in Int
  BY DEF SqlTexts, LimitClauses
<1> QED
  BY <1>1, <1>2, <1>3 DEF LimitRule

\* The rewrite of such a text has a literal LIMIT within the cap, reported as
\* the effective one; it changes nothing else; and the rewritten text passes
\* the same rules.
LEMMA CappedText ==
  ASSUME NEW sql \in SqlTexts, sql.statements = 1, RuleFindings(sql) = {}
  PROVE  LET rewrite == ApplyLimit(sql)
         IN /\ rewrite.sql = [sql EXCEPT !.limit = LiteralLimit(rewrite.effective)]
            /\ rewrite.effective \in 0 .. MaxReturnedRows
            /\ sql.limit.kind = "literal" =>
                 rewrite.effective = IF sql.limit.n < MaxReturnedRows
                                     THEN sql.limit.n ELSE MaxReturnedRows
            /\ RuleFindings(rewrite.sql) = {}
<1> DEFINE rewrite == ApplyLimit(sql)
<1>1. /\ sql.root = "select"
      /\ sql.limit.kind \in {"none", "literal"}
      /\ sql.limit.kind = "literal" => sql.limit.n \in Nat
  BY CleanLimit
<1>2. MaxReturnedRows \in Nat
  BY SettingsAssumption
<1>3. ASSUME sql.limit.kind = "literal"
      PROVE  sql.limit = LiteralLimit(sql.limit.n)
  BY <1>3 DEF SqlTexts, LimitClauses, LiteralLimit
<1>4. /\ rewrite.sql = [sql EXCEPT !.limit = LiteralLimit(rewrite.effective)]
      /\ rewrite.effective \in 0 .. MaxReturnedRows
      /\ sql.limit.kind = "literal" =>
           rewrite.effective = IF sql.limit.n < MaxReturnedRows
                               THEN sql.limit.n ELSE MaxReturnedRows
  <2>1. CASE sql.limit.kind = "none"
    BY <1>1, <1>2, <2>1 DEF ApplyLimit
  <2>2. CASE sql.limit.kind = "literal" /\ sql.limit.n > MaxReturnedRows
    BY <1>1, <1>2, <2>2 DEF ApplyLimit
  <2>3. CASE sql.limit.kind = "literal" /\ ~(sql.limit.n > MaxReturnedRows)
    <3>1. rewrite.sql = sql /\ rewrite.effective = sql.limit.n
      BY <1>1, <2>3 DEF ApplyLimit
    <3>2. sql = [sql EXCEPT !.limit = sql.limit]
      BY DEF SqlTexts
    <3> QED
      BY <1>1, <1>2, <1>3, <2>3, <3>1, <3>2
  <2> QED
    BY <1>1, <2>1, <2>2, <2>3
<1>5. /\ rewrite.sql.root = sql.root /\ rewrite.sql.statements = sql.statements
      /\ rewrite.sql.unsafe = sql.unsafe /\ rewrite.sql.depth = sql.depth
      /\ rewrite.sql.limit = LiteralLimit(rewrite.effective)
  BY <1>4 DEF SqlTexts
<1>6. LimitRule(rewrite.sql) = {}
  BY <1>1, <1>4, <1>5 DEF LimitRule, LiteralLimit
<1>7. RuleFindings(rewrite.sql) = {}
  BY <1>5, <1>6 DEF RuleFindings, SingleStatementRule,
     StatementClassificationRule, StructuralMutationRule, SelectIntoRule,
     LockingClauseRule, MaxSubqueryDepthRule
<1> QED
  BY <1>4, <1>7

\* Without schema findings, every table source of a scope denotes exactly one
\* catalog table.
LEMMA CleanTable ==
  ASSUME NEW sql \in SqlTexts, NEW catalog, SchemaFindings(sql, catalog) = {},
         NEW scope \in sql.scopes, NEW src \in TableSources(scope)
  PROVE  /\ IsResolved(src, catalog)
         /\ TableMatches(src, catalog) = {ResolvedTable(src, catalog)}
<1>1. TableFindings(scope, catalog) = {}
  BY DEF SchemaFindings
<1>2. TableMatches(src, catalog) # {} /\ IsResolved(src, catalog)
  <2>1. LET m == TableMatches(src, catalog)
        IN (IF m = {} THEN {"unknown_table"}
            ELSE IF IsResolved(src, catalog) THEN {} ELSE {"ambiguous_table"}) = {}
    BY <1>1 DEF TableFindings
  <2> QED
    BY <2>1
<1> QED
  BY <1>2 DEF IsResolved, ResolvedTable

\* And every column reference of a scope has exactly one owner: the source its
\* qualifier names, or the only source that offers the column.
LEMMA CleanColumn ==
  ASSUME NEW sql \in SqlTexts, NEW catalog, SchemaFindings(sql, catalog) = {},
         NEW scope \in sql.scopes, NEW col \in scope.columns
  PROVE  \E owner \in scope.sources :
           {src \in scope.sources :
              /\ col.source \in {None, src.name}
              /\ col.name \in SourceColumns(src, catalog)
              /\ col.source # None => src \in Qualified(col, scope, catalog)}
             = {owner}
<1>1. ColumnFindings(col, scope, catalog) = {}
  <2>1. UNION {ColumnFindings(c, scope, catalog) : c \in scope.columns} = {}
    BY DEF SchemaFindings
  <2> QED
    BY <2>1
<1>2. CASE col.source = None
  <2>1. PICK owner \in scope.sources : Owners(col, scope, catalog) = {owner}
    BY <1>1, <1>2 DEF ColumnFindings
  <2> QED
    BY <1>2, <2>1 DEF Owners
<1>3. CASE col.source # None
  <2>1. PICK owner \in Qualified(col, scope, catalog) :
          col.name \in SourceColumns(owner, catalog)
    BY <1>1, <1>3 DEF ColumnFindings
  <2>2. owner \in scope.sources /\ owner.name = col.source
    BY <2>1 DEF Qualified
  <2>3. \A src \in scope.sources : src.name = col.source => src = owner
    BY <2>2 DEF SqlTexts, Scopes
  <2> QED
    BY <1>3, <2>1, <2>2, <2>3
<1> QED
  BY <1>2, <1>3

\* Whatever the validator returns, its text is a text.
THEOREM ValidateType ==
  ASSUME NEW sql \in SqlTexts, NEW catalog
  PROVE  /\ Validate(sql, catalog).valid \in BOOLEAN
         /\ Validate(sql, catalog).sql \in SqlTexts
         /\ Validate(sql, catalog).original = sql
<1>1. \A tables, codes : /\ Rejected(sql, tables, codes).valid \in BOOLEAN
                         /\ Rejected(sql, tables, codes).sql \in SqlTexts
                         /\ Rejected(sql, tables, codes).original = sql
  BY DEF Rejected
<1> DEFINE findings == RuleFindings(sql) \cup SchemaFindings(sql, catalog)
           rewrite == ApplyLimit(sql)
           rewritten == findings \cup SchemaFindings(rewrite.sql, catalog)
           accepted == [valid |-> rewritten = {}, sql |-> rewrite.sql,
                        original |-> sql, findings |-> rewritten,
                        tables |-> ReferencedTables(rewrite.sql, catalog),
                        effective |-> rewrite.effective,
                        added |-> rewrite.added, reduced |-> rewrite.reduced]
<1>2. \/ \E tables, codes : Validate(sql, catalog) = Rejected(sql, tables, codes)
      \/ Validate(sql, catalog) = accepted
  BY Zenon DEF Validate
<1>3. /\ accepted.valid \in BOOLEAN
      /\ accepted.sql \in SqlTexts
      /\ accepted.original = sql
  BY ApplyLimitType
<1> QED
  BY <1>1, <1>2, <1>3, Zenon

\* What an accepted text asks for: the provider's text with its LIMIT narrowed
\* to a literal between 0 and the cap, and nothing else changed.
THEOREM AcceptedLimit ==
  ASSUME NEW sql \in SqlTexts, NEW catalog, Validate(sql, catalog).valid
  PROVE  LET v == Validate(sql, catalog)
         IN /\ v.sql = [sql EXCEPT !.limit = LiteralLimit(v.effective)]
            /\ v.sql.limit = LiteralLimit(v.effective)
            /\ v.effective \in 0 .. MaxReturnedRows
            /\ sql.limit.kind = "literal" =>
                 v.effective = IF sql.limit.n < MaxReturnedRows
                               THEN sql.limit.n ELSE MaxReturnedRows
<1>1. /\ Validate(sql, catalog).sql = ApplyLimit(sql).sql
      /\ Validate(sql, catalog).effective = ApplyLimit(sql).effective
      /\ sql.statements = 1 /\ RuleFindings(sql) = {}
  BY AcceptedTextIsClean, CleanTextIsAccepted
<1>2. ApplyLimit(sql).sql =
        [sql EXCEPT !.limit = LiteralLimit(ApplyLimit(sql).effective)]
  BY <1>1, CappedText
<1>3. ApplyLimit(sql).sql.limit = LiteralLimit(ApplyLimit(sql).effective)
  BY <1>2 DEF SqlTexts
<1> QED
  BY <1>1, <1>2, <1>3, CappedText

\* Validation is idempotent: a second pass over the text a first pass accepted
\* accepts it again, with the same text, tables and effective LIMIT, and
\* reports no rewrite.  The executor relies on it when it validates the text
\* the draft was replaced by.
THEOREM RevalidationIsIdempotent ==
  ASSUME NEW sql \in SqlTexts, NEW catalog, Validate(sql, catalog).valid
  PROVE  LET first  == Validate(sql, catalog)
             second == Validate(first.sql, catalog)
         IN /\ second.valid
            /\ second.sql = first.sql
            /\ second.tables = first.tables
            /\ second.effective = first.effective
            /\ ~second.added /\ ~second.reduced
<1> DEFINE first  == Validate(sql, catalog)
           second == Validate(first.sql, catalog)
           rewritten == ApplyLimit(sql).sql
           n == ApplyLimit(sql).effective
<1>1. /\ sql.parse = "ok" /\ sql.statements = 1 /\ sql.renders
      /\ RuleFindings(sql) = {} /\ SchemaFindings(sql, catalog) = {}
      /\ first.sql = rewritten /\ first.effective = n
      /\ first.tables = ReferencedTables(sql, catalog)
  BY AcceptedTextIsClean, CleanTextIsAccepted
<1>2. /\ rewritten = [sql EXCEPT !.limit = LiteralLimit(n)]
      /\ n \in 0 .. MaxReturnedRows
      /\ RuleFindings(rewritten) = {}
  BY <1>1, CappedText
<1>3. /\ rewritten.parse = "ok" /\ rewritten.statements = 1 /\ rewritten.renders
      /\ rewritten.root = sql.root /\ rewritten.limit = LiteralLimit(n)
      /\ rewritten.scopes = sql.scopes /\ rewritten \in SqlTexts
  BY <1>1, <1>2, ApplyLimitType DEF SqlTexts
<1>4. /\ SchemaFindings(rewritten, catalog) = {}
      /\ ReferencedTables(rewritten, catalog) = first.tables
  BY <1>1, <1>3, ScopesDecideReferences
<1>5. rewritten.root = "select"
  BY <1>1, <1>3, CleanLimit
<1> HIDE DEF rewritten, n
<1>6. ApplyLimit(rewritten) =
        [sql |-> rewritten, effective |-> n, added |-> FALSE, reduced |-> FALSE]
  <2>1. ~(n > MaxReturnedRows)
    BY <1>2, SettingsAssumption
  <2> QED
    BY <1>3, <1>5, <2>1 DEF ApplyLimit, LiteralLimit
<1>7. Validate(rewritten, catalog) =
        [valid |-> TRUE, sql |-> rewritten, original |-> rewritten,
         findings |-> {}, tables |-> first.tables, effective |-> n,
         added |-> FALSE, reduced |-> FALSE]
  <2> HIDE DEF first
  <2>1. Validate(rewritten, catalog) =
          [valid |-> TRUE, sql |-> ApplyLimit(rewritten).sql,
           original |-> rewritten, findings |-> {},
           tables |-> ReferencedTables(rewritten, catalog),
           effective |-> ApplyLimit(rewritten).effective,
           added |-> ApplyLimit(rewritten).added,
           reduced |-> ApplyLimit(rewritten).reduced]
    BY <1>2, <1>3, <1>4, CleanTextIsAccepted, Zenon
  <2> QED
    BY <1>4, <1>6, <2>1
<1>8. /\ second.valid /\ second.sql = rewritten /\ second.tables = first.tables
      /\ second.effective = n /\ ~second.added /\ ~second.reduced
  BY <1>1, <1>7
<1> QED
  BY <1>1, <1>8, Zenon
=============================================================================
