------------------------------ MODULE SchemaNames ------------------------------
(***************************************************************************)
(* The names the catalog and the retrieval share (domain/schema.py).       *)
(* Tables are numbers in the order of their identifiers. A column is Id,   *)
(* the key of its table; the number of the table that it, a foreign key,   *)
(* refers to; or Plain, a categorical column that may be sampled.          *)
(***************************************************************************)
EXTENDS Naturals, Sequences, FiniteSets, SequencesExt

CONSTANTS
  Tables,     \* every table there could be
  Id, Plain,  \* names of columns beside those of foreign keys
  None

ASSUME NamesAssumption ==
  /\ Tables \subseteq Nat \ {0} /\ IsFiniteSet(Tables)
  /\ Id = 0 /\ Plain \in Nat \ (Tables \cup {Id})
  /\ None \notin Nat

ColumnNames == {Id, Plain} \cup Tables

\* S in an order of its elements, a set of pairs: each element at the place of how
\* many come before it.
InOrder(S, order) ==
  [i \in 1 .. Cardinality(S) |->
     CHOOSE t \in S : Cardinality({u \in S : <<u, t>> \in order}) = i - 1]

\* Tables in the order of their identifiers.
Ascending(S) == InOrder(S, {p \in S \X S : p[1] < p[2]})
=============================================================================
