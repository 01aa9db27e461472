----------------------- MODULE GuardrailPipelineProofs -----------------------
(***************************************************************************)
(* The two validations of a request agree, for every setting, draft and    *)
(* catalog.  The inductive invariant spells out what each stage has seen:  *)
(* the passes so far are the validation of the draft, then the validation  *)
(* of the text that the first one returned; SqlGuardrailsProofs says that  *)
(* the second one then changes nothing.                                    *)
(***************************************************************************)
EXTENDS GuardrailPipeline, SqlGuardrailsProofs, SequenceTheorems,
        FiniteSetTheorems

First == Validate(drafted, catalog)
Second == Validate(First.sql, catalog)

\* The passes of each stage, and what is known of the first one.  Only the draft's
\* validation raises.
PassesSoFar ==
  \/ stage = "draft" /\ passes = <<>>
  \/ stage = "raised" /\ passes = <<>>
  \/ stage = "execute" /\ passes = <<First>> /\ First.valid /\ ~Raises(drafted)
  \/ stage = "blocked" /\ passes = <<First>>
  \/ stage = "running" /\ passes = <<First, Second>> /\ First.valid

IInv ==
  /\ drafted \in Drafts
  /\ catalog \in Catalogs
  /\ PassesSoFar

\* Appending to a sequence of one element.
LEMMA AppendToOne ==
  ASSUME NEW a, NEW b
  PROVE  Append(<<a>>, b) = <<a, b>>
<1> DEFINE S == {a, b}
<1>1. a \in S /\ b \in S
  OBVIOUS
<1> HIDE DEF S
<1>2. <<a>> \in Seq(S) /\ <<a, b>> \in Seq(S)
  BY <1>1
<1>3. Len(<<a>>) = 1 /\ Len(<<a, b>>) = 2
  OBVIOUS
<1>4. /\ Append(<<a>>, b) \in Seq(S)
      /\ Len(Append(<<a>>, b)) = 2
      /\ Append(<<a>>, b)[1] = a
      /\ Append(<<a>>, b)[2] = b
  BY <1>1, <1>2, <1>3, AppendProperties
<1>5. \A i \in 1 .. 2 : Append(<<a>>, b)[i] = <<a, b>>[i]
  BY <1>4
<1> QED
  BY <1>2, <1>3, <1>4, <1>5, SeqEqual

\* A text the draft's validation accepted is accepted by the executor's.
LEMMA SecondPass ==
  ASSUME drafted \in Drafts, First.valid
  PROVE  /\ Second.valid /\ Second.sql = First.sql
         /\ Second.tables = First.tables /\ Second.effective = First.effective
<1>1. drafted \in SqlTexts
  BY InputsAssumption
<1> QED
  BY <1>1, RevalidationIsIdempotent, Zenon DEF First, Second

\* The rewrite sets the LIMIT and nothing else, so the text it leaves parses and its
\* scopes can be built.
LEMMA RewriteDoesNotRaise ==
  ASSUME drafted \in Drafts, First.valid, ~Raises(drafted)
  PROVE  ~Raises(First.sql)
<1>1. drafted \in SqlTexts
  BY InputsAssumption
<1>2. drafted.parse = "ok" /\ drafted.statements = 1 /\ drafted.scoped
  BY <1>1, AcceptedTextIsClean DEF First, Raises, SqlTexts
<1>3. First.sql = [drafted EXCEPT !.limit = LiteralLimit(First.effective)]
  BY <1>1, AcceptedLimit, Zenon DEF First
<1>4. First.sql.parse = "ok" /\ First.sql.scoped
  BY <1>1, <1>2, <1>3 DEF SqlTexts
<1> QED
  BY <1>4 DEF Raises

\* Every reachable state satisfies the inductive invariant.
THEOREM PipelineInvariant == Spec => []IInv
<1>1. Init => IInv
  BY DEF Init, IInv, PassesSoFar
<1>2. IInv /\ [Next]_vars => IInv'
  <2> SUFFICES ASSUME IInv, [Next]_vars
               PROVE  IInv'
    OBVIOUS
  <2>1. CASE ValidateDraft
    <3>1. /\ stage = "draft" /\ passes = <<>>
          /\ IF Raises(drafted)
             THEN stage' = "raised" /\ passes' = <<>>
             ELSE /\ passes' = <<First>>
                  /\ stage' = IF First.valid THEN "execute" ELSE "blocked"
          /\ UNCHANGED <<drafted, catalog>>
      BY <2>1 DEF IInv, PassesSoFar, ValidateDraft, Pass, First
    <3>2. First' = First /\ Raises(drafted)' = Raises(drafted)
      BY <3>1 DEF First, Raises
    <3> QED
      BY <3>1, <3>2 DEF IInv, PassesSoFar
  <2>2. CASE ValidateAgain
    <3>1. /\ stage = "execute" /\ passes = <<First>> /\ First.valid
          /\ ~Raises(drafted)
          /\ UNCHANGED <<drafted, catalog>>
      BY <2>2 DEF IInv, PassesSoFar, ValidateAgain, Pass
    <3>2. /\ passes' = <<First, Second>>
          /\ stage' = IF Second.valid THEN "running" ELSE "blocked"
      <4>1. passes[1] = First
        BY <3>1
      <4>2. /\ passes' = Append(passes, Validate(passes[1].sql, catalog))
            /\ stage' = IF Validate(passes[1].sql, catalog).valid
                        THEN "running" ELSE "blocked"
        <5>1. ~Raises(passes[1].sql)
          BY <3>1, <4>1, RewriteDoesNotRaise DEF IInv
        <5> QED
          BY <2>2, <5>1, Zenon DEF ValidateAgain, Pass
      <4>3. Validate(passes[1].sql, catalog) = Second
        BY <4>1, Zenon DEF Second
      <4>4. Append(<<First>>, Second) = <<First, Second>>
        BY AppendToOne
      <4> QED
        BY <3>1, <4>2, <4>3, <4>4, Zenon
    <3>3. stage' = "running"
      BY <3>1, <3>2, SecondPass DEF IInv
    <3>4. First' = First /\ Second' = Second
      BY <3>1 DEF First, Second
    <3> QED
      BY <3>1, <3>2, <3>3, <3>4 DEF IInv, PassesSoFar
  <2>3. CASE UNCHANGED vars
    BY <2>3 DEF vars, IInv, PassesSoFar, First, Second, Raises
  <2> QED
    BY <2>1, <2>2, <2>3 DEF Next
<1> QED
  BY <1>1, <1>2, PTL DEF Spec

\* The stage says how many validations the request has been through.
THEOREM PipelineTypeOK == Spec => []TypeOK
<1>1. IInv => TypeOK
  BY DEF IInv, PassesSoFar, TypeOK
<1> QED
  BY <1>1, PipelineInvariant, PTL

\* The text that runs is the text the draft's validation returned, accepted
\* again and over the same tables.
THEOREM ExecutedIsDraftedHolds == Spec => []ExecutedIsDrafted
<1>1. IInv => ExecutedIsDrafted
  <2> SUFFICES ASSUME IInv, Len(passes) = 2
               PROVE  /\ Executed.valid
                      /\ Executed.sql = passes[1].sql
                      /\ Executed.tables = passes[1].tables
    BY DEF ExecutedIsDrafted
  <2>1. passes = <<First, Second>> /\ First.valid /\ drafted \in Drafts
    <3>1. Len(<<>>) # 2 /\ Len(<<First>>) # 2
      OBVIOUS
    <3> QED
      BY <3>1, Zenon DEF IInv, PassesSoFar
  <2> QED
    BY <2>1, SecondPass DEF Executed
<1> QED
  BY <1>1, PipelineInvariant, PTL

\* The text that runs is the provider's with its LIMIT narrowed to a literal
\* within the cap.
THEOREM OnlyTheLimitNarrowsHolds == Spec => []OnlyTheLimitNarrows
<1>1. IInv => OnlyTheLimitNarrows
  <2> SUFFICES ASSUME IInv, stage = "running"
               PROVE  OnlyTheLimitNarrows
    BY DEF OnlyTheLimitNarrows
  <2>1. /\ passes = <<First, Second>> /\ First.valid
        /\ drafted \in Drafts /\ drafted \in SqlTexts
    BY InputsAssumption DEF IInv, PassesSoFar
  <2>2. Executed.sql = First.sql /\ Executed.effective = First.effective
    BY <2>1, SecondPass DEF Executed
  <2>3. /\ First.sql = [drafted EXCEPT !.limit = LiteralLimit(First.effective)]
        /\ First.sql.limit = LiteralLimit(First.effective)
        /\ First.effective \in 0 .. MaxReturnedRows
        /\ drafted.limit.kind = "literal" =>
             First.effective = IF drafted.limit.n < MaxReturnedRows
                               THEN drafted.limit.n ELSE MaxReturnedRows
    BY <2>1, AcceptedLimit, Zenon DEF First
  <2>4. [First.sql EXCEPT !.limit = drafted.limit] = drafted
    BY <2>1, <2>3 DEF SqlTexts
  <2> QED
    BY <2>2, <2>3, <2>4 DEF OnlyTheLimitNarrows, LiteralLimit
<1> QED
  BY <1>1, PipelineInvariant, PTL

\* The tables of an accepted text are catalog tables, and those of its own
\* table sources are among them.
LEMMA TablesOfText ==
  ASSUME NEW sql \in SqlTexts, NEW cat, SchemaFindings(sql, cat) = {}
  PROVE  /\ ReferencedTables(sql, cat) \subseteq cat
         /\ \A scope \in sql.scopes : \A src \in TableSources(scope) :
              ResolvedTable(src, cat) \in ReferencedTables(sql, cat)
<1>1. \A scope \in sql.scopes : \A src \in TableSources(scope) :
        /\ IsResolved(src, cat)
        /\ TableMatches(src, cat) = {ResolvedTable(src, cat)}
  BY CleanTable
<1>2. \A scope \in sql.scopes : \A src \in TableSources(scope) :
        ResolvedTable(src, cat) \in cat
  BY <1>1 DEF TableMatches
<1> QED
  BY <1>1, <1>2 DEF ReferencedTables

\* Every name in the text that runs denotes one thing in the catalog.
THEOREM NamesAreUnambiguousHolds == Spec => []NamesAreUnambiguous
<1>1. IInv => NamesAreUnambiguous
  <2> SUFFICES ASSUME IInv, stage = "running",
                      NEW scope \in Executed.sql.scopes
               PROVE
      /\ \A src \in TableSources(scope) :
           Cardinality({t \in catalog : /\ t.name = src.table
                                        /\ src.schema \in {None, t.schema}}) = 1
      /\ \A col \in scope.columns :
           Cardinality({src \in scope.sources :
              /\ col.source \in {None, src.name}
              /\ IF src.kind = "derived" THEN col.name \in src.columns
                 ELSE \E t \in Executed.tables :
                        /\ t.name = src.table
                        /\ src.schema \in {None, t.schema}
                        /\ col.name \in t.columns
                        /\ col.source # None => col.schema \in {None, t.schema}}) = 1
    BY Zenon DEF NamesAreUnambiguous
  <2>1. /\ Executed = Second /\ First.valid
        /\ drafted \in Drafts /\ drafted \in SqlTexts
    BY InputsAssumption DEF IInv, PassesSoFar, Executed
  <2>2. /\ SchemaFindings(drafted, catalog) = {}
        /\ First.tables = ReferencedTables(drafted, catalog)
        /\ First.sql.scopes = drafted.scopes
    <3>1. /\ drafted.parse = "ok" /\ drafted.statements = 1 /\ drafted.renders
          /\ RuleFindings(drafted) = {} /\ SchemaFindings(drafted, catalog) = {}
      BY <2>1, AcceptedTextIsClean DEF First
    <3>2. /\ First.sql = ApplyLimit(drafted).sql
          /\ First.tables = ReferencedTables(drafted, catalog)
      BY <2>1, <3>1, CleanTextIsAccepted DEF First
    <3> QED
      BY <2>1, <3>1, <3>2, ApplyLimitType
  <2>3. /\ Executed.tables = ReferencedTables(drafted, catalog)
        /\ scope \in drafted.scopes
    BY <2>1, <2>2, SecondPass
  <2>4. ASSUME NEW src \in TableSources(scope)
        PROVE  TableMatches(src, catalog) = {ResolvedTable(src, catalog)}
    BY <2>1, <2>2, <2>3, CleanTable
  <2>5. ASSUME NEW src \in TableSources(scope)
        PROVE  Cardinality({t \in catalog : /\ t.name = src.table
                                            /\ src.schema \in {None, t.schema}}) = 1
    BY <2>4, FS_Singleton DEF TableMatches
  <2>6. ASSUME NEW col \in scope.columns
        PROVE  Cardinality({src \in scope.sources :
              /\ col.source \in {None, src.name}
              /\ IF src.kind = "derived" THEN col.name \in src.columns
                 ELSE \E t \in Executed.tables :
                        /\ t.name = src.table
                        /\ src.schema \in {None, t.schema}
                        /\ col.name \in t.columns
                        /\ col.source # None => col.schema \in {None, t.schema}}) = 1
    <3> DEFINE Offers(src) ==
                 IF src.kind = "derived" THEN col.name \in src.columns
                 ELSE \E t \in Executed.tables :
                        /\ t.name = src.table
                        /\ src.schema \in {None, t.schema}
                        /\ col.name \in t.columns
                        /\ col.source # None => col.schema \in {None, t.schema}
               Owns(src) ==
                 /\ col.name \in SourceColumns(src, catalog)
                 /\ col.source # None => src \in Qualified(col, scope, catalog)
    <3>1. ASSUME NEW src \in scope.sources, col.source \in {None, src.name}
          PROVE  Offers(src) <=> Owns(src)
      <4>1. CASE src.kind = "derived"
        BY <3>1, <4>1 DEF SourceColumns, Qualified
      <4>2. CASE src.kind # "derived"
        <5>1. src \in TableSources(scope)
          BY <2>1, <2>3, <4>2 DEF TableSources, SqlTexts, Scopes, Sources
        <5>2. DEFINE table == ResolvedTable(src, catalog)
        <5>3. TableMatches(src, catalog) = {table}
          BY <2>4, <5>1
        <5>4. IsResolved(src, catalog)
          BY <5>3 DEF IsResolved
        <5>5. Executed.tables \subseteq catalog /\ table \in Executed.tables
          BY <2>1, <2>2, <2>3, <5>1, TablesOfText
        <5> HIDE DEF table
        <5>6. /\ table.name = src.table /\ src.schema \in {None, table.schema}
              /\ \A t \in Executed.tables :
                   t.name = src.table /\ src.schema \in {None, t.schema} => t = table
          BY <5>3, <5>5 DEF TableMatches
        <5>7. Offers(src) <=> /\ col.name \in table.columns
                              /\ col.source # None => col.schema \in {None, table.schema}
          BY <4>2, <5>5, <5>6
        <5>8. SourceColumns(src, catalog) = table.columns
          BY <4>2, <5>4 DEF SourceColumns, table
        <5>9. col.source # None =>
                (src \in Qualified(col, scope, catalog)
                   <=> col.schema \in {None, table.schema})
          BY <3>1, <4>2, <5>4 DEF Qualified, table
        <5> QED
          BY <5>7, <5>8, <5>9
      <4> QED
        BY <4>1, <4>2
    <3> HIDE DEF Offers, Owns
    <3>2. PICK owner \in scope.sources :
            {src \in scope.sources : col.source \in {None, src.name} /\ Owns(src)}
              = {owner}
      BY <2>1, <2>2, <2>3, CleanColumn DEF Owns
    <3>3. {src \in scope.sources : col.source \in {None, src.name} /\ Offers(src)}
            = {owner}
      BY <3>1, <3>2
    <3>4. Cardinality({src \in scope.sources :
                         col.source \in {None, src.name} /\ Offers(src)}) = 1
      BY <3>3, FS_Singleton
    <3> QED
      BY <3>4 DEF Offers
  <2> QED
    BY <2>5, <2>6
<1> QED
  BY <1>1, PipelineInvariant, PTL
=============================================================================
