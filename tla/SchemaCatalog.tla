----------------------------- MODULE SchemaCatalog -----------------------------
(***************************************************************************)
(* The schema catalog of the backend: the process cache                    *)
(* (services/schema_catalog.py), the introspection it is filled from       *)
(* (services/schema_introspection.py), the column samples                  *)
(* (services/schema_sampling.py), against a database whose tables are      *)
(* created, altered, dropped and written by other sessions meanwhile.      *)
(*                                                                         *)
(* Introspection is a sequence of statements, each in a transaction of its *)
(* own: what they return need not have been true at one moment.            *)
(***************************************************************************)
EXTENDS SchemaNames

CONSTANTS
  Exposed,      \* those in a configured schema, not internal and not for audit
  SchemaOf,     \* the schema of each of them, numbered in the order of the names
  Sampled,      \* tables whose Plain column may be sampled: configured as safe,
                \* textual, without a sensitive word in its name
  Values,       \* what a Plain column may hold
  SampleLimit,  \* schema_sample_limit
  TTL,          \* schema_cache_ttl_seconds
  Scenarios     \* where a behaviour may start, and the bounds of its length:
                \* [db, changeable, changes, ticks, requests, calls, limits]

ASSUME CatalogAssumption ==
  /\ Exposed \subseteq Tables /\ Sampled \subseteq Exposed
  /\ SchemaOf \in [Exposed -> Nat]
  /\ \A t, u \in Exposed : t < u => SchemaOf[t] <= SchemaOf[u]
  /\ IsFiniteSet(Values)
  /\ SampleLimit \in Nat /\ TTL \in Nat

\* What there is to know of a table, and of every table of a database.
TableStates == [refers : SUBSET Tables, values : SUBSET Values]
Databases == [Tables -> {None} \cup TableStates]

\* Foreign keys refer to tables that there are.
IsClosed(d) == \A t \in Tables : d[t] # None => \A u \in d[t].refers : d[u] # None

Requests == [kind : {"schema", "draft"}, refresh : BOOLEAN]
Calls == [kind : {"schema", "draft"}, refresh : BOOLEAN, at : Nat, changes : Nat]

ASSUME ScenariosAssumption ==
  /\ \A s \in Scenarios : /\ s.db \in Databases /\ IsClosed(s.db)
                          /\ {s.changes, s.ticks, s.calls} \subseteq Nat
                          /\ s.requests \subseteq Requests
  /\ None \notin Calls \cup TableStates

VARIABLES
  scenario,    \* the scenario this behaviour started from
  db,          \* the live database: None, or [refers, values] for each table
  clock,       \* the clock of the process
  changes,     \* how many statements of others changed the database
  lastChange,  \* history: [number, at] of the last change of each table
  cache,       \* _cached_catalog
  call,        \* the call being served, [kind, refresh, at, changes], or None
  calls,       \* how many calls there were
  stage,       \* of get_schema: "idle", "list", "columns", "keys", "sample",
               \* "finish" or "answered"
  schemas,     \* those introspection has yet to list the tables of
  todo,        \* the tables the current loop is not done with
  partial,     \* what the build has read of each listed table
  answer       \* the catalog get_schema returned, or None when it raised

databaseVars == <<db, changes, lastChange>>
buildVars == <<schemas, todo, partial>>
catalogVars == <<scenario, databaseVars, clock, cache, call, calls, stage, buildVars, answer>>

Exists(t) == db[t] # None

ColumnsOf(t) == {Id, Plain} \cup db[t].refers

CatalogInit ==
  /\ scenario \in Scenarios
  /\ db = scenario.db
  /\ clock = 0 /\ changes = 0
  /\ lastChange = [t \in Tables |-> [number |-> 0, at |-> 0]]
  /\ cache = None
  /\ call = None /\ calls = 0 /\ stage = "idle"
  /\ schemas = {} /\ todo = {} /\ partial = <<>> /\ answer = None

-----------------------------------------------------------------------------
(* The database and the clock.                                             *)

\* One statement of another session that changes the tables of T.
Changed(T) ==
  /\ T \subseteq scenario.changeable
  /\ changes < scenario.changes
  /\ changes' = changes + 1
  /\ lastChange' = [t \in Tables |->
       IF t \in T THEN [number |-> changes + 1, at |-> clock] ELSE lastChange[t]]
  /\ UNCHANGED <<scenario, clock, cache, call, calls, stage, buildVars, answer>>

CreateTable(t) ==
  /\ ~Exists(t)
  /\ db' = [db EXCEPT ![t] = [refers |-> {}, values |-> {}]]
  /\ Changed({t})

\* DROP TABLE ... CASCADE takes the foreign keys that refer to the table along.
DropTable(t) ==
  /\ Exists(t)
  /\ LET referring == {u \in Tables : Exists(u) /\ t \in db[u].refers}
     IN  /\ db' = [u \in Tables |->
                     IF u = t THEN None
                     ELSE IF u \in referring THEN [db[u] EXCEPT !.refers = @ \ {t}]
                     ELSE db[u]]
         /\ Changed(referring \cup {t})

AddForeignKey(t, u) ==
  /\ Exists(t) /\ Exists(u) /\ u \notin db[t].refers
  /\ db' = [db EXCEPT ![t].refers = @ \cup {u}]
  /\ Changed({t})

WriteValues(t, V) ==
  /\ t \in Sampled /\ Exists(t) /\ V # db[t].values
  /\ db' = [db EXCEPT ![t].values = V]
  /\ Changed({t})

DatabaseChange ==
  \/ \E t \in Tables : CreateTable(t) \/ DropTable(t)
  \/ \E t, u \in Tables : AddForeignKey(t, u)
  \/ \E t \in Sampled, V \in SUBSET Values : WriteValues(t, V)

Tick ==
  /\ clock < scenario.ticks
  /\ clock' = clock + 1
  /\ UNCHANGED <<scenario, databaseVars, cache, call, calls, stage, buildVars, answer>>

-----------------------------------------------------------------------------
(* get_schema. Handlers run one at a time, so its lock is never contended. *)

\* Mutant of IsFresh: the entry lives one second too long.
IsFresh_Inclusive(now) == now <= cache.generated + TTL

IsFresh(now) == now < cache.generated + TTL

\* Mutant of CacheHit: a refresh is answered from the cache.
CacheHit_IgnoresRefresh(refresh, now) == cache # None /\ IsFresh(now)

CacheHit(refresh, now) == ~refresh /\ cache # None /\ IsFresh(now)

GetSchema(kind, refresh) ==
  /\ stage = "idle"
  /\ calls < scenario.calls
  /\ calls' = calls + 1
  /\ call' = [kind |-> kind, refresh |-> refresh, at |-> clock, changes |-> changes]
  /\ IF CacheHit(refresh, clock)
     THEN stage' = "answered" /\ answer' = cache /\ UNCHANGED schemas
     ELSE stage' = "list" /\ answer' = None /\ schemas' = Range(SchemaOf)
  /\ UNCHANGED <<scenario, databaseVars, clock, cache, todo, partial>>

Continue == UNCHANGED <<scenario, databaseVars, clock, cache, call, calls, answer>>

\* An exception of introspection or of the glossary loader leaves get_schema.
\* The cached catalog stays.
BuildFails ==
  /\ stage \in {"columns", "keys", "finish"} \/ (stage = "list" /\ schemas # {})
  /\ stage' = "answered"
  /\ schemas' = {} /\ todo' = {} /\ partial' = <<>>
  /\ Continue

\* The loops go through the tables in the order of their identifiers.
Reached == Min(todo)

Unread == [columns |-> {}, refers |-> {}, sample |-> {}]

\* The tables the next schema has now; those of earlier schemas have been read.
ListTables ==
  /\ stage = "list" /\ schemas # {}
  /\ LET next == Min(schemas)
         listed == {t \in Exposed : SchemaOf[t] = next /\ Exists(t)}
     IN  /\ schemas' = schemas \ {next}
         /\ todo' = listed
         /\ partial' = [t \in DOMAIN partial \cup listed |->
                          IF t \in listed THEN Unread ELSE partial[t]]
         /\ stage' = IF listed = {} THEN "list" ELSE "columns"
  /\ Continue

\* get_columns raises when the table is gone; see BuildFails.
ReadColumns ==
  /\ stage = "columns" /\ Exists(Reached)
  /\ partial' = [partial EXCEPT ![Reached].columns = ColumnsOf(Reached)]
  /\ stage' = "keys"
  /\ UNCHANGED <<schemas, todo>>
  /\ Continue

\* get_pk_constraint and get_foreign_keys, which raise when the table is gone.
\* After the last table of a schema comes the next schema.
ReadKeys ==
  /\ stage = "keys" /\ Exists(Reached)
  /\ partial' = [partial EXCEPT ![Reached].refers = db[Reached].refers]
  /\ todo' = todo \ {Reached}
  /\ stage' = IF todo = {Reached} THEN "list" ELSE "columns"
  /\ UNCHANGED schemas
  /\ Continue

\* introspect returns, and the columns are sampled.
Introspected ==
  /\ stage = "list" /\ schemas = {}
  /\ stage' = "sample"
  /\ todo' = IF SampleLimit = 0 THEN {} ELSE DOMAIN partial \cap Sampled
  /\ UNCHANGED <<schemas, partial>>
  /\ Continue

\* Mutant of DistinctRows: the query asks for no extra row.
DistinctRows_NoExtraRow(t) == {V \in SUBSET db[t].values :
  \/ Cardinality(V) = SampleLimit
  \/ V = db[t].values /\ Cardinality(V) < SampleLimit}

\* The rows of SELECT DISTINCT ... LIMIT SampleLimit + 1: more than the limit, or
\* all there are.
DistinctRows(t) == {V \in SUBSET db[t].values :
  \/ Cardinality(V) = SampleLimit + 1
  \/ V = db[t].values /\ Cardinality(V) <= SampleLimit}

\* _sample_values: a column with more values than the limit, without any, or
\* whose query fails has no sample.
SampleColumn ==
  /\ stage = "sample" /\ todo # {}
  /\ LET t == Reached
     IN  \/ UNCHANGED partial
         \/ /\ Exists(t)
            /\ \E V \in DistinctRows(t) :
                 partial' = [partial EXCEPT ![t].sample =
                               IF Cardinality(V) > SampleLimit THEN {} ELSE V]
  /\ todo' = todo \ {Reached}
  /\ UNCHANGED <<stage, schemas>>
  /\ Continue

SamplingDone ==
  /\ stage = "sample" /\ todo = {}
  /\ stage' = "finish"
  /\ UNCHANGED buildVars
  /\ Continue

\* Mutant of Built: the catalog is dated when it is complete.
Built_DatedAtTheEnd == [tables |-> partial, generated |-> clock]

\* The catalog is dated by the clock get_schema read before it began.
Built == [tables |-> partial, generated |-> call.at]

\* The glossary is loaded, the catalog replaces the cached one and is returned.
FinishBuild ==
  /\ stage = "finish"
  /\ cache' = Built /\ answer' = Built
  /\ stage' = "answered"
  /\ todo' = {} /\ partial' = <<>>
  /\ UNCHANGED <<scenario, databaseVars, clock, call, calls, schemas>>

Build ==
  \/ BuildFails \/ ListTables \/ ReadColumns \/ ReadKeys
  \/ Introspected \/ SampleColumn \/ SamplingDone \/ FinishBuild

\* The handler is done with the catalog and replies.
Reply ==
  /\ stage = "answered"
  /\ stage' = "idle" /\ call' = None /\ answer' = None
  /\ UNCHANGED <<scenario, databaseVars, clock, cache, calls, buildVars>>

-----------------------------------------------------------------------------
(* What a catalog promises.                                                *)

Entries == [columns : SUBSET ColumnNames, refers : SUBSET Tables, sample : SUBSET Values]

IsCatalog(c) ==
  /\ DOMAIN c.tables \subseteq Exposed
  /\ \A t \in DOMAIN c.tables : c.tables[t] \in Entries
  /\ c.generated \in Nat

CatalogTypeOK ==
  /\ scenario \in Scenarios
  /\ IsClosed(db)
  /\ clock \in 0 .. scenario.ticks
  /\ changes \in 0 .. scenario.changes /\ calls \in 0 .. scenario.calls
  /\ cache # None => IsCatalog(cache) /\ cache.generated <= clock
  /\ answer # None => IsCatalog(answer)
  /\ (call = None) = (stage = "idle")
  /\ stage \in {"columns", "keys"} => todo # {}
  /\ schemas \subseteq Range(SchemaOf)
  /\ todo \subseteq DOMAIN partial /\ DOMAIN partial \subseteq Exposed

\* The catalog says what is true of t now.
IsExact(c, t) ==
  IF Exists(t) THEN /\ t \in DOMAIN c.tables
                    /\ c.tables[t].columns = ColumnsOf(t)
                    /\ c.tables[t].refers = db[t].refers
  ELSE t \notin DOMAIN c.tables

\* What an answer must have seen of t: changes made before a refresh was asked
\* for, or long enough before any other call, with none since.
Settled(t) ==
  /\ lastChange[t].number <= call.changes
  /\ call.refresh \/ lastChange[t].number = 0 \/ lastChange[t].at + TTL <= call.at

\* A catalog is never staler than the TTL: a table nobody changed during the last
\* TTL seconds before the call, and nobody changed since, is described as it is
\* (schema_catalog.py: the clock is read before the statements it dates).
AnswerIsFresh ==
  answer # None /\ ~call.refresh =>
    \A t \in Exposed : Settled(t) => IsExact(answer, t)

\* A refresh sees every change that was made before it was asked for, whatever is
\* cached (schema_catalog.py, get_schema with refresh).
RefreshSeesEarlierChanges ==
  answer # None /\ call.refresh =>
    \A t \in Exposed : Settled(t) => IsExact(answer, t)

\* The samples of a column are all its values or none, never a part that looks
\* like the whole (schema_sampling.py: one row more than the limit is fetched).
SamplesAreComplete ==
  answer # None => \A t \in DOMAIN answer.tables :
    Settled(t) => answer.tables[t].sample \in {{}, db[t].values}
=============================================================================
