---------------------------- MODULE MCDraftContext ----------------------------
(***************************************************************************)
(* Small instances of DraftContext. A behaviour starts in one of three     *)
(* kinds of scenario: a small schema that others change while calls share  *)
(* the cache; one that they change while it is introspected for a draft;   *)
(* a draft over any graph of foreign keys among four tables, for the       *)
(* search, with a fifth table outside the exposed schemas.                 *)
(***************************************************************************)
EXTENDS DraftContext

MCTables == 1 .. 5
MCExposed == 1 .. 4
MCSchemaOf == <<1, 1, 2, 2>>
MCSampled == {1}
MCValues == {"a", "b"}
MCScores == 0 .. 2

\* The column of a foreign key to table 3 does not have the name of a key.
MCKeyNames == {0, 1, 2, 5}

\* Nothing matches the question; the Plain columns do; so does the column that is
\* not named like a key, as well or better; the tables differ.
Alike(score) == [t \in MCTables |-> score]
Scoring(best, good) ==
  [c \in {0, 9} \cup MCTables |-> IF c \in best THEN 2 ELSE IF c \in good THEN 1 ELSE 0]

MCColumnScores ==
  {Alike(Scoring({}, {})), Alike(Scoring({}, {9})), Alike(Scoring({}, {3, 9})),
   Alike(Scoring({3}, {9})),
   [t \in MCTables |-> IF t \in {1, 3} THEN Scoring({2}, {0, 9}) ELSE Scoring({9}, {1, 3})]}

Table(refers) == [refers |-> refers, values |-> {}]

Reads == [kind : {"schema"}, refresh : BOOLEAN]
Drafts == [kind : {"draft"}, refresh : BOOLEAN]

\* Calls share the cache while table 1 comes, goes and is written, and the clock
\* passes the TTL.
Cached ==
  {[db |-> [t \in MCTables |-> IF t \in T THEN Table({}) ELSE None],
    changeable |-> {1}, changes |-> 2, ticks |-> 3,
    requests |-> Reads, calls |-> 2, limits |-> [tables |-> 2, hops |-> 2]] :
   T \in {{1}, {1, 3}}}

\* Statements between those of introspection, and a draft from the outcome.
Torn ==
  {[db |-> [t \in MCTables |-> IF t \in {1, 3, 5} THEN Table({}) ELSE None],
    changeable |-> {1, 2, 3}, changes |-> 2, ticks |-> 0,
    requests |-> Drafts, calls |-> 1, limits |-> [tables |-> 2, hops |-> 2]]}

\* Each table refers to lower ones in every way, or two of them to the hidden
\* one as well, under limits that matter for four tables.
Graphs ==
  {g \in [1 .. 4 -> SUBSET (1 .. 3)] : \A t \in 1 .. 4 : g[t] \subseteq 1 .. t - 1}
  \cup {<<{5}, {5}, {1}, {}>>, <<{5}, {}, {5, 2}, {3}>>}

Fixed ==
  {[db |-> [t \in MCTables |-> IF t = 5 THEN Table({}) ELSE Table(g[t])],
    changeable |-> {}, changes |-> 0, ticks |-> 0,
    requests |-> {[kind |-> "draft", refresh |-> FALSE]}, calls |-> 1,
    limits |-> [tables |-> l[1], hops |-> l[2]]] :
   g \in Graphs, l \in {<<3, 0>>, <<3, 1>>, <<3, 2>>, <<4, 2>>, <<4, 3>>}}

MCScenarios == Cached \cup Torn \cup Fixed
=============================================================================
