---------------------------- MODULE SchemaRetrieval ----------------------------
(***************************************************************************)
(* Which tables and columns of a catalog a question is answered from       *)
(* (services/schema_retrieval.py), and what the prompt shows of them       *)
(* (services/prompt_engine.py).                                            *)
(*                                                                         *)
(* Scores come from words and are an input here; everything decided from   *)
(* them is modelled: ranking, selection, the search for join paths over    *)
(* foreign keys, bridge tables, columns and the rendered context.          *)
(***************************************************************************)
EXTENDS SchemaNames

CONSTANTS
  Scores,         \* what tables may score
  MinTableScore,  \* schema_retrieval_min_table_score
  ColumnScores,   \* what the columns of each table may score
  MinColumnScore, \* schema_retrieval_min_column_score
  KeyNames,       \* columns named id or with a name that ends in _id; an Id or a
                  \* foreign key may be named otherwise
  MaxColumns      \* schema_retrieval_max_columns_per_table

ASSUME RetrievalAssumption ==
  /\ Scores \subseteq Nat /\ MinTableScore \in Nat
  /\ ColumnScores \subseteq [Tables -> [ColumnNames -> Nat]] /\ MinColumnScore \in Nat
  /\ KeyNames \subseteq ColumnNames
  /\ MaxColumns \in Nat \ {0}

VARIABLES
  phase,     \* of retrieve: "idle", "connect", "search", "columns", "ranked" or
             \* "prompted"
  limits,    \* [tables, hops]: schema_retrieval_max_tables, _max_bridge_hops
  catalog,   \* the catalog retrieve was given
  selected,  \* selected_table_ids
  target,    \* the position in selected the loop has reached
  included,  \* the tables joined so far
  bridges,   \* bridge_tables
  paths,     \* the relationship paths, each the sequence of its tables
  queue,     \* of shortest_path: the table paths to extend
  visited,   \* of shortest_path
  scored,    \* what the columns of each table scored, or None
  columns,   \* the columns selected for each table
  prompt     \* what build_prompt rendered, or None

searchVars == <<queue, visited>>
connectVars == <<target, included, bridges, paths>>
retrievalVars ==
  <<phase, limits, catalog, selected, connectVars, searchVars, scored, columns, prompt>>

Cleared ==
  /\ selected' = <<>> /\ target' = 0 /\ included' = {} /\ bridges' = {}
  /\ paths' = <<>> /\ queue' = <<>> /\ visited' = {}
  /\ scored' = None /\ columns' = <<>> /\ prompt' = None /\ catalog' = None

RetrievalInit ==
  /\ phase = "idle"
  /\ selected = <<>> /\ target = 0 /\ included = {} /\ bridges = {}
  /\ paths = <<>> /\ queue = <<>> /\ visited = {}
  /\ scored = None /\ columns = <<>> /\ prompt = None /\ catalog = None

\* relationship_graph: foreign keys read in both directions. A key may refer to a
\* table the catalog does not have.
Refers(t) == IF t \in DOMAIN catalog.tables THEN catalog.tables[t].refers ELSE {}
Neighbours(t) == {u \in Tables : u \in Refers(t) \/ t \in Refers(u)}

Final == Range(selected) \cup bridges

-----------------------------------------------------------------------------
(* retrieve() and select_relationship_paths().                             *)

\* rank_table_scores and rank_column_scores: best score first, then by identifier.
Ranking(score, S) ==
  {p \in S \X S : score[p[1]] > score[p[2]] \/ (score[p[1]] = score[p[2]] /\ p[1] < p[2])}

\* The first n of the ranked.
Best(score, S, n) ==
  LET ranked == InOrder(S, Ranking(score, S))
  IN  SubSeq(ranked, 1, IF Len(ranked) < n THEN Len(ranked) ELSE n)

\* The best tables that score enough.
Selection(score) ==
  Best(score, {t \in DOMAIN score : score[t] >= MinTableScore}, limits.tables)

StartRetrieval(given) ==
  /\ phase = "idle"
  /\ catalog' = given
  /\ \E score \in [DOMAIN given.tables -> Scores] :
       /\ selected' = Selection(score)
       /\ IF Len(Selection(score)) < 2 \/ limits.hops = 0
          THEN phase' = "columns" /\ target' = 0 /\ included' = {}
          ELSE phase' = "connect" /\ target' = 2 /\ included' = {Selection(score)[1]}
  /\ UNCHANGED <<limits, bridges, paths, searchVars, scored, columns, prompt>>

\* The head of the loop over the remaining selected tables.
NextTarget ==
  /\ phase = "connect"
  /\ \/ /\ target > Len(selected)
        /\ phase' = "columns"
        /\ UNCHANGED <<target, searchVars>>
     \/ /\ target <= Len(selected) /\ selected[target] \in included
        /\ target' = target + 1
        /\ UNCHANGED <<phase, searchVars>>
     \/ /\ target <= Len(selected) /\ selected[target] \notin included
        /\ phase' = "search"
        /\ queue' = [i \in 1 .. Cardinality(included) |-> <<Ascending(included)[i]>>]
        /\ visited' = included
        /\ UNCHANGED target
  /\ UNCHANGED <<limits, catalog, selected, included, bridges, paths, scored,
                 columns, prompt>>

\* Back to the loop, with or without a path.
EndSearch ==
  /\ phase' = "connect"
  /\ target' = target + 1
  /\ queue' = <<>> /\ visited' = {}
  /\ UNCHANGED <<limits, catalog, selected, scored, columns, prompt>>

\* Mutant of Accept: the limit is not looked at.
Accept_AnyLength(path) ==
  /\ paths' = Append(paths, path)
  /\ bridges' = bridges \cup (Range(path) \ Range(selected))
  /\ included' = included \cup Range(path)
  /\ EndSearch

\* The path to the target is kept unless it would join too many tables.
Accept(path) ==
  /\ IF Cardinality(included \cup Range(path)) > limits.tables
     THEN UNCHANGED <<included, bridges, paths>>
     ELSE /\ paths' = Append(paths, path)
          /\ bridges' = bridges \cup (Range(path) \ Range(selected))
          /\ included' = included \cup Range(path)
  /\ EndSearch

\* Mutant of Enqueued: the newest paths are extended first.
Enqueued_First(path, found) ==
  [i \in 1 .. Cardinality(found) |-> Append(path, Ascending(found)[i])] \o Tail(queue)

\* Mutant of Enqueued: the path extended stays at the head.
Enqueued_KeepsHead(path, found) ==
  queue \o [i \in 1 .. Cardinality(found) |-> Append(path, Ascending(found)[i])]

\* The paths to the tables just found go to the end of the queue, in the order of
\* relationship_step_sort_key.
Enqueued(path, found) ==
  Tail(queue) \o [i \in 1 .. Cardinality(found) |-> Append(path, Ascending(found)[i])]

\* Mutant of HopsLeft: one hop too few.
HopsLeft_OneLess(path) == Len(path) < limits.hops

HopsLeft(path) == Len(path) - 1 < limits.hops

\* One round of shortest_path's loop.
ExpandPath ==
  /\ phase = "search"
  /\ queue # <<>>
  /\ LET path == Head(queue)
         steps == IF HopsLeft(path) THEN Neighbours(Last(path)) ELSE {}
         found == steps \ visited
     IN  IF selected[target] \in steps
         THEN Accept(Append(path, selected[target]))
         ELSE /\ visited' = visited \cup found
              /\ queue' = Enqueued(path, found)
              /\ UNCHANGED <<phase, limits, catalog, selected, connectVars, scored, columns,
                             prompt>>

NoPath ==
  /\ phase = "search" /\ queue = <<>>
  /\ UNCHANGED <<included, bridges, paths>>
  /\ EndSearch

-----------------------------------------------------------------------------
(* select_columns() and build_prompt().                                    *)

\* Mutant of Qualifying: keys must score like any other column.
Qualifying_Scored(t, score) ==
  {c \in catalog.tables[t].columns : score[c] >= MinColumnScore}

\* Columns that score enough, and those is_key_column takes for keys by their name.
Qualifying(t, score) ==
  {c \in catalog.tables[t].columns : score[c] >= MinColumnScore \/ c \in KeyNames}

BestColumns(t, score) == Range(Best(score, Qualifying(t, score), MaxColumns))

SelectColumns ==
  /\ phase = "columns"
  /\ phase' = "ranked"
  /\ scored' \in ColumnScores
  /\ columns' = [t \in Final \cap DOMAIN catalog.tables |-> BestColumns(t, scored'[t])]
  /\ UNCHANGED <<limits, catalog, selected, connectVars, searchVars, prompt>>

\* selected_tables: the ranked tables, those of the catalog, that are final.
ShownTables == Final \cap DOMAIN catalog.tables

\* render_context: tables with their columns and samples, foreign keys among
\* them, and the paths as they were found.
Rendered ==
  [tables |-> ShownTables,
   columns |-> columns,
   samples |-> [t \in {u \in ShownTables : Plain \in columns[u]} |-> catalog.tables[t].sample],
   direct |-> {key \in ShownTables \X ShownTables :
                 key[2] \in catalog.tables[key[1]].refers},
   paths |-> paths]

\* draft() asks back when the question is ambiguous or no table was selected.
AskBack ==
  /\ phase = "ranked"
  /\ phase' = "prompted"
  /\ UNCHANGED <<limits, catalog, selected, connectVars, searchVars, scored, columns, prompt>>

BuildPrompt ==
  /\ phase = "ranked" /\ ShownTables # {}
  /\ phase' = "prompted"
  /\ prompt' = Rendered
  /\ UNCHANGED <<limits, catalog, selected, connectVars, searchVars, scored, columns>>

RetrievalDone ==
  /\ phase = "prompted"
  /\ phase' = "idle"
  /\ Cleared
  /\ UNCHANGED limits

Retrieve ==
  \/ NextTarget \/ ExpandPath \/ NoPath \/ SelectColumns \/ AskBack \/ BuildPrompt

-----------------------------------------------------------------------------
(* What the paths and the prompt promise.                                  *)

RetrievalTypeOK ==
  /\ phase \in {"idle", "connect", "search", "columns", "ranked", "prompted"}
  /\ limits.tables \in Nat \ {0} /\ limits.hops \in Nat
  /\ phase # "idle" => /\ Len(selected) <= limits.tables
                       /\ Cardinality(included) <= limits.tables
                       /\ Range(selected) \subseteq DOMAIN catalog.tables
                       /\ bridges \subseteq included \ Range(selected)
                       /\ visited = {} \/ included \subseteq visited

\* Reference definition, apart from the search: the tables at most k foreign keys
\* away from those of S.
Within(S, k) ==
  LET near[i \in 0 .. k] ==
        IF i = 0 THEN S ELSE near[i - 1] \cup UNION {Neighbours(t) : t \in near[i - 1]}
  IN  near[k]

\* The tables joined before the k-th path was added.
JoinedBefore(k) == {selected[1]} \cup UNION {Range(paths[j]) : j \in 1 .. k - 1}

\* Every relationship path follows foreign keys of the catalog from a table that
\* was joined before to a selected one that was not, through tables that were not,
\* within the hop limit, and no shorter connection exists (schema_retrieval.py,
\* shortest_path).
PathsAreShortest ==
  phase # "idle" => \A k \in DOMAIN paths :
    LET p == paths[k]
        joined == JoinedBefore(k)
    IN  /\ \A i \in 1 .. Len(p) - 1 : p[i + 1] \in Neighbours(p[i])
        /\ Last(p) \in Range(selected)
        /\ \A i \in DOMAIN p : (p[i] \in joined) = (i = 1)
        /\ Len(p) - 1 <= limits.hops
        /\ Last(p) \notin Within(joined, Len(p) - 2)

\* A selected table is left unjoined only if, when its turn came, it was farther
\* than the hop limit or its bridges would have exceeded the table limit
\* (schema_retrieval.py, select_relationship_paths).
LeftOutForAReason ==
  phase \in {"columns", "ranked", "prompted"} =>
    \A i \in 2 .. Len(selected) : selected[i] \notin included =>
      LET earlier == {k \in DOMAIN paths :
                        \E j \in 1 .. i - 1 : selected[j] = Last(paths[k])}
          joined == {selected[1]} \cup UNION {Range(paths[k]) : k \in earlier}
      IN  \A k \in 1 .. limits.hops :
            selected[i] \in Within(joined, k) => Cardinality(joined) + k > limits.tables

\* The columns a rendered path joins on, the keys and foreign keys of its tables,
\* are rendered with them. One is missing only if its name is not that of a key and
\* it scored too little, or if the table shows as many columns as it may, none of
\* which scored less (schema_retrieval.py, select_columns).
JoinColumnsAreShown ==
  prompt # None => \A k \in DOMAIN prompt.paths :
    \A t \in Range(prompt.paths[k]) \cap DOMAIN catalog.tables :
      /\ t \in prompt.tables
      /\ \A c \in catalog.tables[t].columns \cap ({Id} \cup catalog.tables[t].refers) :
           \/ c \in prompt.columns[t]
           \/ c \notin KeyNames /\ scored[t][c] < MinColumnScore
           \/ /\ Cardinality(prompt.columns[t]) = MaxColumns
              /\ \A d \in prompt.columns[t] : scored[t][d] >= scored[t][c]
=============================================================================
