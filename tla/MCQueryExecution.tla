--------------------------- MODULE MCQueryExecution ---------------------------
(***************************************************************************)
(* A small instance of QueryExecution: texts without a LIMIT, with one     *)
(* below the row bounds, with one above the cap, one the policy refuses    *)
(* and one it raises on; plans on either side of each threshold, a plan    *)
(* that names a relation nobody validated, and one that cannot be parsed.  *)
(***************************************************************************)
EXTENDS QueryExecution

MCNames == {"a", "b", "t", "x"}

\* A catalog that knows the table, and one built before the table existed.
MCCatalogs == {{[schema |-> "a", name |-> "t", columns |-> {"x"}]}, {}}

Text(limit, unsafe) ==
  [parse |-> "ok", statements |-> 1, root |-> "select", unsafe |-> unsafe,
   depth |-> 0, limit |-> limit, scoped |-> TRUE, renders |-> TRUE,
   scopes |-> {[sources |-> {[name |-> "t", kind |-> "table", schema |-> None,
                              table |-> "t", columns |-> {}]},
                columns |-> {[source |-> None, schema |-> None, name |-> "x"]}]}]

MCTexts ==
  {Text(NoLimit, {}), Text(LiteralLimit(1), {}),
   Text(LiteralLimit(MaxReturnedRows + 1), {}), Text(NoLimit, {"locking"}),
   [Text(NoLimit, {}) EXCEPT !.scoped = FALSE]}

Plan(wellFormed, rows, cost, relations) ==
  [wellFormed |-> wellFormed, rows |-> rows, cost |-> cost,
   relations |-> relations]

Relation(schema, name) == [schema |-> schema, name |-> name]

MCPlans ==
  {Plan(TRUE, MaxPlanRows, MaxPlanCost, {Relation("a", "t")}),
   Plan(TRUE, 0, 0, {Relation(None, "t")}),
   Plan(TRUE, MaxPlanRows + 1, 0, {Relation("a", "t")}),
   Plan(TRUE, 0, MaxPlanCost + 1, {Relation("a", "t")}),
   Plan(TRUE, 0, 0, {Relation("a", "t"), Relation("b", "t")}),
   Plan(FALSE, 0, 0, {})}
=============================================================================
