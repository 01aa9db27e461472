---------------------------- MODULE SqlGuardrails ----------------------------
(***************************************************************************)
(* The policy every provider-written SQL text passes before it may reach   *)
(* the database: GeneratedSQLValidator and its rules                       *)
(* (backend/app/services/sql_guardrails.py).  The module is a pure         *)
(* function from a parsed text and a schema catalog to a validation        *)
(* result, or an exception; QueryExecution and the request workflow call   *)
(* it.                                                                     *)
(*                                                                         *)
(* A SQL text is what the rules can tell apart about it, not its           *)
(* characters:                                                             *)
(*   parse       "empty", "error", "ok", or "raises" when already the      *)
(*               tokenizer cannot read the text                            *)
(*   statements  how many statements an "ok" parse produced                *)
(*   root        the class of the (single) statement's root node           *)
(*   unsafe      which forbidden constructs occur anywhere in the tree     *)
(*   depth       nesting depth of subqueries                               *)
(*   limit       the top-level LIMIT clause                                *)
(*   scopes      its query scopes: the named row sources of each FROM      *)
(*               clause and the column references resolved against them    *)
(*   scoped      whether these scopes can be told at all: no FROM clause   *)
(*               that has one name twice                                   *)
(*   renders     whether the printed tree parses back to one statement     *)
(***************************************************************************)
EXTENDS Integers

CONSTANTS
  MaxReturnedRows,   \* settings.sql_guardrail_max_returned_rows
  MaxSubqueryDepth,  \* settings.sql_guardrail_max_subquery_depth
  Names,             \* normalised identifiers: schemas, tables, aliases, columns
  None               \* Python's None: an absent qualifier or value

ASSUME SettingsAssumption ==
  /\ MaxReturnedRows \in Nat \ {0}
  /\ MaxSubqueryDepth \in Nat
  /\ None \notin Names

StatementTypes ==
  {"select", "insert", "update", "delete", "ddl", "command", "unknown"}

\* Forbidden constructs: a mutating or transaction-control node, SELECT INTO,
\* a locking clause such as FOR UPDATE.
UnsafeConstructs == {"mutation", "into", "locking"}

NoLimit == [kind |-> "none", n |-> 0]
DynamicLimit == [kind |-> "dynamic", n |-> 0]
LiteralLimit(n) == [kind |-> "literal", n |-> n]

LimitClauses == [kind : {"none", "dynamic", "literal"}, n : Int]

OptionalNames == Names \cup {None}

CatalogTables == [schema : Names, name : Names, columns : SUBSET Names]

\* A table of the catalog referenced with or without its schema, or a derived
\* source (CTE, subquery) that offers the output columns its SELECT names.
Sources ==
  [name : Names, kind : {"table", "derived"}, schema : OptionalNames,
   table : OptionalNames, columns : SUBSET Names]

ColumnReferences ==
  [source : OptionalNames, schema : OptionalNames, name : Names]

\* A name denotes one source of its scope: source_infos is a dict.
Scopes ==
  {scope \in [sources : SUBSET Sources, columns : SUBSET ColumnReferences] :
     \A s, t \in scope.sources : s.name = t.name => s = t}

SqlTexts ==
  [parse : {"empty", "raises", "error", "ok"}, statements : Nat,
   root : StatementTypes, unsafe : SUBSET UnsafeConstructs, depth : Nat,
   limit : LimitClauses, scopes : SUBSET Scopes, scoped : BOOLEAN,
   renders : BOOLEAN]

-----------------------------------------------------------------------------
(* Schema references.                                                      *)

\* resolve_table: the catalog tables a table source may denote.
TableMatches(src, catalog) ==
  {t \in catalog : /\ t.name = src.table
                   /\ src.schema \in {None, t.schema}}

\* resolve_table returns a table exactly when the match is unique.
IsResolved(src, catalog) ==
  \E t \in TableMatches(src, catalog) : TableMatches(src, catalog) = {t}

ResolvedTable(src, catalog) ==
  CHOOSE t \in TableMatches(src, catalog) : TRUE

TableSources(scope) == {src \in scope.sources : src.kind = "table"}

\* The columns a source offers; an unresolved table offers none.
SourceColumns(src, catalog) ==
  IF src.kind = "derived" THEN src.columns
  ELSE IF IsResolved(src, catalog) THEN ResolvedTable(src, catalog).columns
  ELSE {}

TableFindings(scope, catalog) ==
  UNION {LET m == TableMatches(src, catalog)
         IN IF m = {} THEN {"unknown_table"}
            ELSE IF IsResolved(src, catalog) THEN {} ELSE {"ambiguous_table"}
         : src \in TableSources(scope)}

\* The sources that may own an unqualified column.
Owners(col, scope, catalog) ==
  {src \in scope.sources : col.name \in SourceColumns(src, catalog)}

\* The sources a qualifier names.  A schema qualifier is only compared with
\* the schema of a resolved table.
Qualified(col, scope, catalog) ==
  {src \in scope.sources :
     /\ src.name = col.source
     /\ \/ col.schema = None
        \/ src.kind = "derived"
        \/ ~IsResolved(src, catalog)
        \/ ResolvedTable(src, catalog).schema = col.schema}

\* Mutant of ColumnFindings: an unqualified column may have several owners.
ColumnFindings_FirstOwner(col, scope, catalog) ==
  IF col.source # None
  THEN IF Qualified(col, scope, catalog) = {} THEN {"unknown_column_source"}
       ELSE IF \E src \in Qualified(col, scope, catalog) :
                 col.name \in SourceColumns(src, catalog)
            THEN {} ELSE {"unknown_column"}
  ELSE IF Owners(col, scope, catalog) = {} THEN {"unknown_column"} ELSE {}

\* resolve_column: a reference is resolved inside its own scope only, so a
\* correlated reference to an outer source finds no source and is refused.
ColumnFindings(col, scope, catalog) ==
  IF col.source # None
  THEN IF Qualified(col, scope, catalog) = {} THEN {"unknown_column_source"}
       ELSE IF \E src \in Qualified(col, scope, catalog) :
                 col.name \in SourceColumns(src, catalog)
            THEN {} ELSE {"unknown_column"}
  ELSE IF Owners(col, scope, catalog) = {} THEN {"unknown_column"}
       ELSE IF \E src \in scope.sources : Owners(col, scope, catalog) = {src}
            THEN {} ELSE {"ambiguous_column"}

\* extract_metadata's effect on the findings, scope by scope.
SchemaFindings(sql, catalog) ==
  UNION {TableFindings(scope, catalog)
           \cup UNION {ColumnFindings(col, scope, catalog) : col \in scope.columns}
         : scope \in sql.scopes}

\* metadata.referenced_tables with source "table".
ReferencedTables(sql, catalog) ==
  UNION {{ResolvedTable(src, catalog) :
            src \in {x \in TableSources(scope) : IsResolved(x, catalog)}}
         : scope \in sql.scopes}

-----------------------------------------------------------------------------
(* The policy rules.  Each yields the set of finding codes it would add;     *)
(* every finding has severity "error".                                       *)

SingleStatementRule(sql) ==
  IF sql.statements = 1 THEN {} ELSE {"multiple_statements"}

StatementClassificationRule(sql) ==
  IF sql.root = "select" THEN {}
  ELSE IF sql.root = "command" THEN {"unclassified_statement"}
  ELSE {"unsupported_statement_type"}

StructuralMutationRule(sql) ==
  IF "mutation" \in sql.unsafe THEN {"blocked_statement_node"} ELSE {}

SelectIntoRule(sql) ==
  IF "into" \in sql.unsafe THEN {"select_into_blocked"} ELSE {}

LockingClauseRule(sql) ==
  IF "locking" \in sql.unsafe THEN {"locking_clause_blocked"} ELSE {}

MaxSubqueryDepthRule(sql) ==
  IF sql.depth <= MaxSubqueryDepth THEN {} ELSE {"subquery_depth_exceeded"}

LimitRule(sql) ==
  IF sql.root # "select" \/ sql.limit.kind = "none" THEN {}
  ELSE IF sql.limit.kind = "dynamic" THEN {"unclassifiable_limit"}
  ELSE IF sql.limit.n < 0 THEN {"invalid_limit"} ELSE {}

\* DEFAULT_RULES in the order of the source.  With several statements
\* context.statement is None and only the first rule can speak.
RuleFindings(sql) ==
  SingleStatementRule(sql)
    \cup (IF sql.statements # 1 THEN {}
          ELSE StatementClassificationRule(sql)
                 \cup StructuralMutationRule(sql)
                 \cup SelectIntoRule(sql)
                 \cup LockingClauseRule(sql)
                 \cup MaxSubqueryDepthRule(sql)
                 \cup LimitRule(sql))

-----------------------------------------------------------------------------
(* LimitRule.apply: every SELECT leaves with a literal LIMIT of at most      *)
(* MaxReturnedRows; a smaller literal is kept; nothing else is rewritten.    *)

\* Mutant of ApplyLimit: a LIMIT above the cap is kept.
ApplyLimit_KeepsLarge(sql) ==
  LET result(s, limit, added) ==
        [sql |-> s, effective |-> limit, added |-> added, reduced |-> FALSE]
  IN IF sql.root # "select" \/ sql.limit.kind = "dynamic"
     THEN result(sql, None, FALSE)
     ELSE IF sql.limit.kind = "none"
     THEN result([sql EXCEPT !.limit = LiteralLimit(MaxReturnedRows)],
                 MaxReturnedRows, TRUE)
     ELSE result(sql, sql.limit.n, FALSE)

\* Mutant of ApplyLimit: an added LIMIT leaves room for the row that detects
\* truncation, and a present one is capped without it.
ApplyLimit_AddsOneMore(sql) ==
  LET capped(n) == [sql EXCEPT !.limit = LiteralLimit(n)]
      result(s, limit, added, reduced) ==
        [sql |-> s, effective |-> limit, added |-> added, reduced |-> reduced]
  IN IF sql.root # "select" \/ sql.limit.kind = "dynamic"
     THEN result(sql, None, FALSE, FALSE)
     ELSE IF sql.limit.kind = "none"
     THEN result(capped(MaxReturnedRows + 1), MaxReturnedRows, TRUE, FALSE)
     ELSE IF sql.limit.n > MaxReturnedRows
     THEN result(capped(MaxReturnedRows), MaxReturnedRows, FALSE, TRUE)
     ELSE result(sql, sql.limit.n, FALSE, FALSE)

ApplyLimit(sql) ==
  LET capped == [sql EXCEPT !.limit = LiteralLimit(MaxReturnedRows)]
      result(s, limit, added, reduced) ==
        [sql |-> s, effective |-> limit, added |-> added, reduced |-> reduced]
  IN IF sql.root # "select" \/ sql.limit.kind = "dynamic"
     THEN result(sql, None, FALSE, FALSE)
     ELSE IF sql.limit.kind = "none"
     THEN result(capped, MaxReturnedRows, TRUE, FALSE)
     ELSE IF sql.limit.n > MaxReturnedRows
     THEN result(capped, MaxReturnedRows, FALSE, TRUE)
     ELSE result(sql, sql.limit.n, FALSE, FALSE)

Rejected(sql, tables, findings) ==
  [valid |-> FALSE, sql |-> sql, original |-> sql, findings |-> findings,
   tables |-> tables, effective |-> None, added |-> FALSE, reduced |-> FALSE]

\* validate() gives no result: it catches sqlglot's ParseError, and neither its
\* TokenError nor the OptimizeError of the scopes, which are looked at whatever the
\* rules have found in the statement.
Raises(sql) ==
  \/ sql.parse = "raises"
  \/ sql.parse = "ok" /\ sql.statements = 1 /\ ~sql.scoped

\* GeneratedSQLValidator.validate, for a text on which it does not raise.
Validate(sql, catalog) ==
  LET rules     == RuleFindings(sql)
      findings  == rules \cup SchemaFindings(sql, catalog)
      rewrite   == ApplyLimit(sql)
      rewritten == findings \cup SchemaFindings(rewrite.sql, catalog)
  IN IF sql.parse = "empty" THEN Rejected(sql, {}, {"empty_sql"})
     ELSE IF sql.parse # "ok" \/ sql.statements = 0
     THEN Rejected(sql, {}, {"malformed_sql"})
     ELSE IF sql.statements # 1 THEN Rejected(sql, {}, rules)
     ELSE IF findings # {}
     THEN Rejected(sql, ReferencedTables(sql, catalog), findings)
     ELSE IF ~sql.renders
     THEN Rejected(sql, ReferencedTables(sql, catalog), {"limit_rewrite_invalid"})
     ELSE [valid |-> rewritten = {}, sql |-> rewrite.sql, original |-> sql,
           findings |-> rewritten,
           tables |-> ReferencedTables(rewrite.sql, catalog),
           effective |-> rewrite.effective,
           added |-> rewrite.added, reduced |-> rewrite.reduced]
=============================================================================
