------------------------- MODULE MCGuardrailPipeline -------------------------
(***************************************************************************)
(* Bounded inputs for GuardrailPipeline: every combination of the features *)
(* the rules look at, over two small catalogs, one of which holds the same *)
(* table name in two schemas.                                              *)
(***************************************************************************)
EXTENDS GuardrailPipeline

MCNames == {"a", "b", "t", "u", "d", "o", "x", "y"}

Table(schema, name, columns) ==
  [schema |-> schema, name |-> name, columns |-> columns]

MCCatalogs ==
  {{Table("a", "t", {"x", "y"}), Table("a", "u", {"x"})},
   {Table("a", "t", {"x", "y"}), Table("b", "t", {"x"}), Table("a", "u", {"x"})}}

TableSource(name, schema, table) ==
  [name |-> name, kind |-> "table", schema |-> schema, table |-> table,
   columns |-> {}]
DerivedSource(name, columns) ==
  [name |-> name, kind |-> "derived", schema |-> None, table |-> None,
   columns |-> columns]
Column(source, schema, name) ==
  [source |-> source, schema |-> schema, name |-> name]

\* From one source alone to two sources sharing a column name.
MCSources ==
  {{TableSource("t", None, "t")},
   {TableSource("t", "a", "t"), TableSource("u", None, "u")},
   {TableSource("t", "b", "t"), DerivedSource("d", {"x"})}}

MCColumns ==
  {{}, {Column(None, None, "x")}, {Column(None, None, "y")},
   {Column("t", None, "x")}, {Column("t", "a", "x")}, {Column("o", None, "x")},
   {Column("d", None, "x"), Column("t", None, "x")}}

MCScopes ==
  {{[sources |-> s, columns |-> c]} : s \in MCSources, c \in MCColumns}
    \cup {{[sources |-> {TableSource("u", None, "u")},
            columns |-> {Column("u", None, "x")}],
           [sources |-> {DerivedSource("d", {"x"})},
            columns |-> {Column("d", None, "x")}]}}

MCLimits ==
  {NoLimit, DynamicLimit}
    \cup {LiteralLimit(n) : n \in {0, 1, MaxReturnedRows, MaxReturnedRows + 1}}

Text(parse, statements, root, unsafe, depth, limit, scopes, renders) ==
  [parse |-> parse, statements |-> statements, root |-> root,
   unsafe |-> unsafe, depth |-> depth, limit |-> limit, scopes |-> scopes,
   scoped |-> TRUE, renders |-> renders]

MCDrafts ==
  {Text("empty", 0, "unknown", {}, 0, NoLimit, {}, TRUE),
   Text("raises", 0, "unknown", {}, 0, NoLimit, {}, TRUE),
   Text("error", 0, "unknown", {}, 0, NoLimit, {}, TRUE),
   Text("ok", 0, "unknown", {}, 0, NoLimit, {}, TRUE),
   Text("ok", 2, "unknown", {}, 0, NoLimit, {}, TRUE)}
  \cup {Text("ok", 1, root, unsafe, depth, NoLimit, scopes, TRUE) :
          root \in {"delete", "command", "unknown"}, unsafe \in {{}, {"mutation"}},
          depth \in 0 .. 1, scopes \in {{}}}
  \cup {Text("ok", 1, "select", {}, MaxSubqueryDepth, limit, scopes, renders) :
          limit \in MCLimits, scopes \in MCScopes, renders \in BOOLEAN}
  \cup {Text("ok", 1, "select", unsafe, depth, limit, scopes, TRUE) :
          unsafe \in {{}, {"mutation"}, {"into"}, {"locking"}},
          depth \in {0, MaxSubqueryDepth + 1},
          limit \in {NoLimit, LiteralLimit(1)}, scopes \in {{}}}
  \cup {[Text("ok", statements, root, {}, 0, NoLimit, {}, TRUE) EXCEPT !.scoped = FALSE] :
          statements \in 1 .. 2, root \in {"select", "delete"}}
=============================================================================
