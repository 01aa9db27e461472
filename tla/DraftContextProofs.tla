-------------------------- MODULE DraftContextProofs --------------------------
(***************************************************************************)
(* The catalogs that requests are answered from describe the database, for *)
(* every set of tables, every history of changes and every TTL; the paths  *)
(* a prompt renders come with their keys, and are the shortest there are;  *)
(* and a selected table is left out only when the limits leave no way.     *)
(*                                                                         *)
(* The inductive invariant numbers and dates every change.  What a build   *)
(* has read of a table is right while nobody changed the table since the   *)
(* call began; what the cache says of a table is right when the last       *)
(* change of the table is older than the catalog; and a change made during *)
(* a call is never dated before it.  The last fact relates the two others. *)
(***************************************************************************)
EXTENDS DraftContext, FiniteSetTheorems, WellFoundedInduction, TLAPS

\* Nobody changed t since the call began.
Quiet(t) == lastChange[t].number <= call.changes

\* The catalog is right about t, and has all values of its column or none.
Describes(c, t) ==
  /\ IsExact(c, t)
  /\ t \in DOMAIN c.tables => c.tables[t].sample \in {{}, db[t].values}

\* Changes are numbered up to now and dated up to now.
HistoryInv ==
  /\ db \in Databases
  /\ clock \in Nat /\ changes \in Nat
  /\ lastChange \in [Tables -> [number : Nat, at : Nat]]
  /\ \A t \in Tables : lastChange[t].number <= changes /\ lastChange[t].at <= clock

\* What happened since a call began is dated after it began.
CallInv ==
  stage # "idle" =>
    /\ call.at \in Nat /\ call.at <= clock
    /\ call.changes \in Nat /\ call.changes <= changes
    /\ \A t \in Tables : ~Quiet(t) => call.at <= lastChange[t].at

\* A cached catalog describes what was last changed before it was dated.
CacheInv ==
  cache # None =>
    /\ cache.generated \in Nat /\ cache.generated <= clock
    /\ DOMAIN cache.tables \subseteq Exposed
    /\ \A t \in Exposed :
         (lastChange[t].number = 0 \/ lastChange[t].at < cache.generated) =>
           Describes(cache, t)

Building == stage \in {"list", "columns", "keys", "sample", "finish"}

\* Whether the tables of t's schema have been listed.
Listed(t) == SchemaOf[t] \notin schemas

\* Whether the loops have read the columns, and the keys, of t.
KeysRead(t) == stage \in {"sample", "finish"} \/ t \notin todo
ColumnsRead(t) == KeysRead(t) \/ (stage = "keys" /\ t = Reached)

\* What the build has read of t is still so.
ReadRight(t) ==
  /\ (t \in DOMAIN partial) = (Listed(t) /\ Exists(t))
  /\ t \in DOMAIN partial =>
       /\ ColumnsRead(t) => partial[t].columns = ColumnsOf(t)
       /\ KeysRead(t) => partial[t].refers = db[t].refers
       /\ partial[t].sample \in {{}, db[t].values}

BuildInv ==
  /\ ~Building => partial = <<>> /\ todo = {}
  /\ Building =>
       /\ DOMAIN partial \subseteq Exposed
       /\ partial \in [DOMAIN partial -> Entries]
       /\ \A t \in DOMAIN partial : Listed(t)
       /\ stage = "list" => todo = {}
       /\ stage \in {"sample", "finish"} => schemas = {}
       /\ \A t \in Exposed : Quiet(t) => ReadRight(t)

\* An answer describes what it must have seen.
AnswerInv ==
  answer # None =>
    /\ stage = "answered"
    /\ DOMAIN answer.tables \subseteq Exposed
    /\ \A t \in Exposed : Settled(t) => Describes(answer, t)

Stages == {"idle", "list", "columns", "keys", "sample", "finish", "answered"}

IInv ==
  /\ stage \in Stages
  /\ HistoryInv /\ CallInv /\ CacheInv /\ BuildInv /\ AnswerInv

-----------------------------------------------------------------------------
(* The steps of the catalog.                                               *)

CatalogNext ==
  \/ \E r \in scenario.requests : GetSchema(r.kind, r.refresh)
  \/ Build
  \/ Reply
  \/ DatabaseChange
  \/ Tick

\* Everything a retrieval does leaves the catalog alone.
LEMMA StepsOfTheCatalog ==
  ASSUME [Next]_vars
  PROVE  [CatalogNext]_catalogVars
<1>1. CASE Request
  BY <1>1 DEF Request, CatalogNext
<1>2. CASE Serve
  BY <1>2 DEF Serve, Draft, Answer, Drafted, CatalogNext
<1>3. CASE Others
  BY <1>3 DEF Others, CatalogNext
<1>4. CASE UNCHANGED vars
  BY <1>4 DEF vars
<1> QED
  BY <1>1, <1>2, <1>3, <1>4 DEF Next

\* The invariant speaks only of the catalog's variables.
LEMMA Stuttering ==
  ASSUME IInv, UNCHANGED catalogVars
  PROVE  IInv'
<1>1. UNCHANGED <<db, changes, lastChange, clock, cache, call, stage, schemas, todo, partial, answer>>
  BY DEF catalogVars, databaseVars, buildVars
<1> QED
  BY <1>1 DEF IInv, HistoryInv, CallInv, CacheInv, BuildInv, AnswerInv, Building, Quiet,
         ReadRight, Listed, KeysRead, ColumnsRead, Reached, Describes, IsExact, Exists,
         ColumnsOf, Settled

\* The scenarios start without a cache and without a change.
LEMMA Initially ==
  ASSUME Init
  PROVE  IInv
<1>1. db \in Databases
  BY ScenariosAssumption DEF Init, CatalogInit
<1>2. HistoryInv
  BY <1>1 DEF Init, CatalogInit, HistoryInv
<1> QED
  BY <1>2 DEF Init, CatalogInit, IInv, CallInv, CacheInv, BuildInv, AnswerInv,
              Building, Stages

-----------------------------------------------------------------------------
(* Others: the database and the clock.                                     *)

\* A statement changes some tables, and their changes get the next number.
LEMMA ChangesAreNumbered ==
  ASSUME IInv, DatabaseChange
  PROVE  /\ changes' = changes + 1
         /\ db' \in Databases
         /\ lastChange' \in [Tables -> [number : Nat, at : Nat]]
         /\ \A t \in Tables :
              \/ db'[t] = db[t] /\ lastChange'[t] = lastChange[t]
              \/ lastChange'[t].number = changes + 1 /\ lastChange'[t].at = clock
         /\ UNCHANGED <<scenario, clock, cache, call, calls, stage, schemas, todo, partial,
                       answer>>
<1> USE DEF IInv, HistoryInv
<1>1. ASSUME NEW T, Changed(T)
      PROVE  /\ changes' = changes + 1
             /\ lastChange' \in [Tables -> [number : Nat, at : Nat]]
             /\ \A t \in Tables :
                  IF t \in T THEN lastChange'[t].number = changes + 1 /\ lastChange'[t].at = clock
                             ELSE lastChange'[t] = lastChange[t]
             /\ UNCHANGED <<scenario, clock, cache, call, calls, stage, schemas, todo, partial,
                       answer>>
  BY <1>1 DEF Changed, buildVars
<1>2. ASSUME NEW t \in Tables, CreateTable(t)
      PROVE  db' \in Databases /\ \A u \in Tables \ {t} : db'[u] = db[u]
  BY <1>2 DEF CreateTable, Databases, TableStates
<1>3. ASSUME NEW t \in Tables, DropTable(t)
      PROVE  /\ db' \in Databases
             /\ \A u \in Tables : db'[u] = db[u] \/ u = t \/ (Exists(u) /\ t \in db[u].refers)
  BY <1>3 DEF DropTable, Databases, TableStates, Exists
<1>4. ASSUME NEW t \in Tables, NEW u \in Tables, AddForeignKey(t, u)
      PROVE  db' \in Databases /\ \A v \in Tables \ {t} : db'[v] = db[v]
  BY <1>4 DEF AddForeignKey, Databases, TableStates, Exists
<1>5. ASSUME NEW t \in Sampled, NEW V \in SUBSET Values, WriteValues(t, V)
      PROVE  t \in Tables /\ db' \in Databases /\ \A v \in Tables \ {t} : db'[v] = db[v]
  BY <1>5, CatalogAssumption DEF WriteValues, Databases, TableStates, Exists
<1>6. ASSUME NEW t \in Tables, CreateTable(t) \/ DropTable(t)
      PROVE  db' \in Databases /\ \E T : Changed(T) /\ \A u \in Tables \ T : db'[u] = db[u]
  <2>1. CASE CreateTable(t)
    BY <2>1, <1>2 DEF CreateTable
  <2>2. CASE DropTable(t)
    <3> DEFINE D == {u \in Tables : Exists(u) /\ t \in db[u].refers} \cup {t}
    <3>1. Changed(D)
      BY <2>2 DEF DropTable
    <3>2. \A u \in Tables \ D : db'[u] = db[u]
      BY <2>2, <1>3
    <3> QED
      BY <3>1, <3>2, <2>2, <1>3
  <2> QED
    BY <1>6, <2>1, <2>2
<1>7. db' \in Databases /\ \E T : Changed(T) /\ \A u \in Tables \ T : db'[u] = db[u]
  <2>1. CASE \E t \in Tables : CreateTable(t) \/ DropTable(t)
    BY <2>1, <1>6
  <2>2. CASE \E t, u \in Tables : AddForeignKey(t, u)
    BY <2>2, <1>4 DEF AddForeignKey
  <2>3. CASE \E t \in Sampled, V \in SUBSET Values : WriteValues(t, V)
    BY <2>3, <1>5 DEF WriteValues
  <2> QED
    BY <2>1, <2>2, <2>3 DEF DatabaseChange
<1> QED
  BY <1>1, <1>7

\* A changed table is neither quiet nor settled, and what the cache says of it no
\* longer counts; nothing else is disturbed.
LEMMA ChangeKeepsIInv ==
  ASSUME IInv, DatabaseChange
  PROVE  IInv'
<1>1. /\ changes' = changes + 1
      /\ \A t \in Tables :
           \/ db'[t] = db[t] /\ lastChange'[t] = lastChange[t]
           \/ lastChange'[t].number = changes + 1 /\ lastChange'[t].at = clock
      /\ UNCHANGED <<clock, cache, call, stage, schemas, todo, partial, answer>>
  BY ChangesAreNumbered
<1>2. HistoryInv'
  <2>1. db' \in Databases /\ lastChange' \in [Tables -> [number : Nat, at : Nat]]
    BY ChangesAreNumbered
  <2> QED
    BY <1>1, <2>1 DEF IInv, HistoryInv
<1>3. CallInv'
  BY <1>1 DEF IInv, HistoryInv, CallInv, Quiet
<1> DEFINE Kept(t) == db'[t] = db[t] /\ lastChange'[t] = lastChange[t]
<1>4. ASSUME NEW t \in Exposed
      PROVE  /\ t \in Tables
             /\ Quiet(t)' /\ stage # "idle" => Kept(t)
             /\ Settled(t)' /\ stage # "idle" => Kept(t)
             /\ cache # None /\ (lastChange'[t].number = 0 \/ lastChange'[t].at < cache.generated)
                  => Kept(t)
  BY <1>1, CatalogAssumption DEF IInv, HistoryInv, CallInv, CacheInv, Quiet, Settled
<1>5. ASSUME NEW t \in Exposed, Kept(t), NEW c
      PROVE  /\ Describes(c, t)' = Describes(c, t)
             /\ Quiet(t)' = Quiet(t) /\ Settled(t)' = Settled(t)
             /\ ReadRight(t)' = ReadRight(t)
  BY <1>1, <1>5 DEF Describes, IsExact, Exists, ColumnsOf, Quiet, Settled, ReadRight,
                    Listed, KeysRead, ColumnsRead, Reached
<1>6. CacheInv'
  BY <1>1, <1>4, <1>5 DEF IInv, CacheInv
<1>7. BuildInv'
  BY <1>1, <1>4, <1>5 DEF IInv, BuildInv, Building, Listed
<1>8. AnswerInv'
  BY <1>1, <1>4, <1>5 DEF IInv, AnswerInv
<1> QED
  BY <1>1, <1>2, <1>3, <1>6, <1>7, <1>8 DEF IInv

\* The clock only moves away from the dates there are.
LEMMA TickKeepsIInv ==
  ASSUME IInv, Tick
  PROVE  IInv'
<1>1. /\ clock' = clock + 1
      /\ UNCHANGED <<db, changes, lastChange, cache, call, stage, schemas, todo, partial, answer>>
  BY DEF Tick, databaseVars, buildVars
<1>2. HistoryInv' /\ CallInv' /\ (stage \in Stages)'
  BY <1>1 DEF IInv, HistoryInv, CallInv, Quiet
<1>3. CacheInv'
  BY <1>1 DEF IInv, HistoryInv, CacheInv, Describes, IsExact, Exists, ColumnsOf
<1>4. BuildInv'
  BY <1>1 DEF IInv, BuildInv, Building, Quiet, ReadRight, Listed, KeysRead, ColumnsRead, Reached,
              Exists, ColumnsOf
<1>5. AnswerInv'
  BY <1>1 DEF IInv, AnswerInv, Settled, Describes, IsExact, Exists, ColumnsOf
<1> QED
  BY <1>2, <1>3, <1>4, <1>5 DEF IInv

-----------------------------------------------------------------------------
(* Calls.                                                                  *)

\* What a call leaves alone.
LEMMA CallsLeaveTheDatabase ==
  ASSUME IInv, UNCHANGED <<databaseVars, clock>>, stage' \in Stages
  PROVE  /\ HistoryInv' /\ (stage \in Stages)'
         /\ UNCHANGED <<db, changes, lastChange, clock>>
         /\ \A c : \A t \in Exposed : Describes(c, t)' = Describes(c, t)
BY DEF databaseVars, IInv, HistoryInv, Describes, IsExact, Exists, ColumnsOf

\* A hit is younger than the TTL, so what settled before it was described.
LEMMA CallKeepsIInv ==
  ASSUME IInv, NEW kind, NEW refresh, GetSchema(kind, refresh)
  PROVE  IInv'
<1>1. /\ UNCHANGED <<databaseVars, clock, cache, todo, partial>> /\ stage' \in Stages
      /\ stage = "idle"
      /\ call' = [kind |-> kind, refresh |-> refresh, at |-> clock, changes |-> changes]
      /\ IF CacheHit(refresh, clock) THEN stage' = "answered" /\ answer' = cache
                                     ELSE stage' = "list" /\ answer' = None /\ schemas' = Range(SchemaOf)
  BY DEF GetSchema, Stages
<1>2. /\ HistoryInv' /\ (stage \in Stages)'
      /\ UNCHANGED <<db, changes, lastChange, clock>>
      /\ \A c : \A t \in Exposed : Describes(c, t)' = Describes(c, t)
  BY <1>1, CallsLeaveTheDatabase
<1>3. CallInv'
  BY <1>1, <1>2 DEF IInv, HistoryInv, CallInv, Quiet
<1>4. CacheInv'
  BY <1>1, <1>2 DEF IInv, CacheInv
<1>5. BuildInv'
  <2>1. partial = <<>> /\ todo = {}
    BY <1>1 DEF IInv, BuildInv, Building
  <2>2. CASE CacheHit(refresh, clock)
    BY <1>1, <2>1, <2>2 DEF BuildInv, Building
  <2>3. CASE ~CacheHit(refresh, clock)
    <3>1. stage' = "list" /\ schemas' = Range(SchemaOf) /\ partial' = <<>> /\ todo' = {}
      BY <1>1, <2>1, <2>3
    <3>2. \A t \in Exposed : ~Listed(t)'
      BY <3>1, CatalogAssumption DEF Listed, Range
    <3>3. DOMAIN partial' = {} /\ partial' \in [{} -> Entries]
      BY <3>1
    <3>4. \A t \in Exposed : ReadRight(t)'
      BY <3>2, <3>3 DEF ReadRight
    <3> QED
      BY <3>1, <3>3, <3>4 DEF BuildInv, Building
  <2> QED
    BY <2>2, <2>3
<1>6. AnswerInv'
  <2>1. CASE CacheHit(refresh, clock)
    <3>1. cache # None /\ ~refresh /\ clock < cache.generated + TTL
      BY <2>1 DEF CacheHit, IsFresh
    <3>2. ASSUME NEW t \in Exposed, Settled(t)'
          PROVE  lastChange[t].number = 0 \/ lastChange[t].at < cache.generated
      BY <1>1, <1>2, <3>1, <3>2, CatalogAssumption DEF Settled, IInv, HistoryInv, CacheInv
    <3> QED
      BY <1>1, <1>2, <2>1, <3>1, <3>2 DEF IInv, CacheInv, AnswerInv
  <2>2. CASE ~CacheHit(refresh, clock)
    BY <1>1, <2>2 DEF AnswerInv
  <2> QED
    BY <2>1, <2>2
<1> QED
  BY <1>2, <1>3, <1>4, <1>5, <1>6 DEF IInv

\* A reply drops the answer.
LEMMA ReplyKeepsIInv ==
  ASSUME IInv, Reply
  PROVE  IInv'
<1>1. /\ UNCHANGED <<databaseVars, clock, cache, schemas, todo, partial>>
      /\ stage = "answered" /\ stage' = "idle" /\ answer' = None
  BY DEF Reply, buildVars
<1>2. /\ HistoryInv' /\ (stage \in Stages)'
      /\ UNCHANGED <<db, changes, lastChange, clock>>
      /\ \A c : \A t \in Exposed : Describes(c, t)' = Describes(c, t)
  BY <1>1, CallsLeaveTheDatabase DEF Stages
<1>3. CacheInv'
  BY <1>1, <1>2 DEF IInv, CacheInv
<1> QED
  BY <1>1, <1>2, <1>3 DEF IInv, CallInv, BuildInv, Building, AnswerInv

-----------------------------------------------------------------------------
(* Builds.                                                                 *)

\* Until it is complete a build disturbs nothing but what it has read.
LEMMA BuildDisturbsLittle ==
  ASSUME IInv, Continue, stage # "idle", stage # "answered", stage' \in Stages \ {"idle"}
  PROVE  /\ HistoryInv' /\ CallInv' /\ CacheInv' /\ AnswerInv' /\ (stage \in Stages)'
         /\ UNCHANGED <<db, changes, lastChange, clock, call>>
         /\ \A t \in Exposed : Quiet(t)' = Quiet(t)
<1>1. UNCHANGED <<databaseVars, clock, cache, call, answer>>
  BY DEF Continue
<1>2. /\ HistoryInv' /\ (stage \in Stages)'
      /\ UNCHANGED <<db, changes, lastChange, clock>>
      /\ \A c : \A t \in Exposed : Describes(c, t)' = Describes(c, t)
  BY <1>1, CallsLeaveTheDatabase
<1>3. CallInv'
  BY <1>1, <1>2 DEF IInv, CallInv, Quiet
<1>4. CacheInv'
  BY <1>1, <1>2 DEF IInv, CacheInv
<1>5. AnswerInv'
  BY <1>1 DEF IInv, AnswerInv
<1> QED
  BY <1>1, <1>2, <1>3, <1>4, <1>5 DEF Quiet

\* A build that fails leaves the cache as it is.
LEMMA BuildFailsKeepsIInv ==
  ASSUME IInv, BuildFails
  PROVE  IInv'
BY BuildDisturbsLittle DEF BuildFails, IInv, BuildInv, Building, Stages

\* The list is right about the tables of its schema, and the loop has read none.
LEMMA ListTablesKeepsIInv ==
  ASSUME IInv, ListTables
  PROVE  IInv'
<1> DEFINE next == Min(schemas)
           listed == {t \in Exposed : SchemaOf[t] = next /\ Exists(t)}
<1>1. /\ stage = "list" /\ Continue
      /\ schemas' = schemas \ {next}
      /\ todo' = listed
      /\ partial' = [t \in DOMAIN partial \cup listed |->
                       IF t \in listed THEN Unread ELSE partial[t]]
      /\ stage' = IF listed = {} THEN "list" ELSE "columns"
  BY DEF ListTables
<1> HIDE DEF next
<1>2. /\ HistoryInv' /\ CallInv' /\ CacheInv' /\ AnswerInv' /\ (stage \in Stages)'
      /\ UNCHANGED <<db, changes, lastChange, clock, call>>
      /\ \A t \in Exposed : Quiet(t)' = Quiet(t)
  BY <1>1, BuildDisturbsLittle DEF Stages
<1>3. /\ partial \in [DOMAIN partial -> Entries] /\ DOMAIN partial \subseteq Exposed
      /\ \A t \in DOMAIN partial : Listed(t)
      /\ todo = {}
      /\ \A t \in Exposed : Quiet(t) => ReadRight(t)
  BY <1>1 DEF IInv, BuildInv, Building
<1>4. Unread \in Entries
  BY DEF Unread, Entries
<1>5. DOMAIN partial' = DOMAIN partial \cup listed /\ partial' \in [DOMAIN partial' -> Entries]
  BY <1>1, <1>3, <1>4
<1>6. \A t \in Exposed : Listed(t)' = (Listed(t) \/ SchemaOf[t] = next)
  BY <1>1 DEF Listed
<1>7. ASSUME NEW t \in Exposed, Quiet(t)'
      PROVE  ReadRight(t)'
  <2>1. ReadRight(t)
    BY <1>2, <1>3, <1>7
  <2>2. Exists(t)' = Exists(t) /\ ColumnsOf(t)' = ColumnsOf(t) /\ db' = db
    BY <1>2 DEF Exists, ColumnsOf
  <2>3. (t \in DOMAIN partial)' = (Listed(t)' /\ Exists(t)')
    <3>1. t \in DOMAIN partial <=> Listed(t) /\ Exists(t)
      BY <2>1 DEF ReadRight
    <3>2. t \in DOMAIN partial' <=> t \in DOMAIN partial \/ (SchemaOf[t] = next /\ Exists(t))
      BY <1>5
    <3>3. Listed(t)' <=> Listed(t) \/ SchemaOf[t] = next
      BY <1>6
    <3> QED
      BY <2>2, <3>1, <3>2, <3>3
  <2>4. CASE t \in listed
    BY <1>1, <2>3, <2>4 DEF ReadRight, KeysRead, ColumnsRead, Unread
  <2>5. CASE t \notin listed
    <3>1. KeysRead(t) /\ ColumnsRead(t)
      BY <1>3 DEF KeysRead, ColumnsRead
    <3>2. t \in DOMAIN partial' => t \in DOMAIN partial /\ partial'[t] = partial[t]
      BY <1>1, <1>5, <2>5
    <3> QED
      BY <2>1, <2>2, <2>3, <3>1, <3>2 DEF ReadRight
  <2> QED
    BY <2>4, <2>5
<1>8. BuildInv'
  <2>1. \A t \in DOMAIN partial' : Listed(t)'
    BY <1>3, <1>5, <1>6
  <2>2. stage' = "list" => todo' = {}
    BY <1>1
  <2>3. DOMAIN partial' \subseteq Exposed /\ stage' \in {"list", "columns"}
    BY <1>1, <1>3, <1>5
  <2> QED
    BY <1>5, <1>7, <2>1, <2>2, <2>3 DEF BuildInv, Building
<1> QED
  BY <1>2, <1>8 DEF IInv

\* The columns of the table the loop has reached are those it has now.
LEMMA ReadColumnsKeepsIInv ==
  ASSUME IInv, ReadColumns
  PROVE  IInv'
<1>1. /\ stage = "columns" /\ stage' = "keys" /\ todo' = todo /\ schemas' = schemas
      /\ Continue /\ Exists(Reached)
      /\ partial' = [partial EXCEPT ![Reached].columns = ColumnsOf(Reached)]
  BY DEF ReadColumns
<1>2. /\ HistoryInv' /\ CallInv' /\ CacheInv' /\ AnswerInv' /\ (stage \in Stages)'
      /\ UNCHANGED <<db, changes, lastChange, clock, call>>
      /\ \A t \in Exposed : Quiet(t)' = Quiet(t)
  BY <1>1, BuildDisturbsLittle DEF Stages
<1>3. partial \in [DOMAIN partial -> Entries] /\ DOMAIN partial \subseteq Exposed
  BY <1>1 DEF IInv, BuildInv, Building
<1>4. /\ DOMAIN partial' = DOMAIN partial
      /\ \A t \in DOMAIN partial :
           /\ t # Reached => partial'[t] = partial[t]
           /\ t = Reached => partial'[t] = [partial[t] EXCEPT !.columns = ColumnsOf(t)]
  BY <1>1, <1>3
<1>5. \A t \in DOMAIN partial :
           /\ partial'[t] \in Entries
           /\ partial'[t].refers = partial[t].refers
           /\ partial'[t].sample = partial[t].sample
           /\ partial'[t].columns = IF t = Reached THEN ColumnsOf(t) ELSE partial[t].columns
  <2>1. ASSUME NEW t \in DOMAIN partial, t = Reached
        PROVE  ColumnsOf(t) \in SUBSET ({Id, Plain} \cup Tables)
    BY <1>1, <1>3, <2>1, CatalogAssumption
       DEF IInv, HistoryInv, Databases, TableStates, Exists, ColumnsOf
  <2> QED
    BY <1>3, <1>4, <2>1 DEF Entries, ColumnNames
<1>6. partial' \in [DOMAIN partial' -> Entries]
  BY <1>1, <1>4, <1>5
<1>7. ASSUME NEW t \in Exposed, Quiet(t)'
      PROVE  ReadRight(t)'
  <2>1. ReadRight(t)
    BY <1>1, <1>2, <1>7 DEF IInv, BuildInv, Building
  <2> QED
    BY <1>1, <1>2, <1>4, <1>5, <2>1
       DEF ReadRight, Listed, KeysRead, ColumnsRead, Reached, Exists, ColumnsOf
<1>8. \A t \in DOMAIN partial' : Listed(t)'
  BY <1>1, <1>4 DEF IInv, BuildInv, Building, Listed
<1> QED
  BY <1>1, <1>2, <1>3, <1>4, <1>6, <1>7, <1>8 DEF IInv, BuildInv, Building

\* So are its keys.
LEMMA ReadKeysKeepsIInv ==
  ASSUME IInv, ReadKeys
  PROVE  IInv'
<1>1. /\ stage = "keys" /\ stage' \in {"columns", "list"} /\ Continue /\ Exists(Reached)
      /\ partial' = [partial EXCEPT ![Reached].refers = db[Reached].refers]
      /\ todo' = todo \ {Reached} /\ schemas' = schemas
      /\ stage' = "list" => todo' = {}
  BY DEF ReadKeys
<1>2. /\ HistoryInv' /\ CallInv' /\ CacheInv' /\ AnswerInv' /\ (stage \in Stages)'
      /\ UNCHANGED <<db, changes, lastChange, clock, call>>
      /\ \A t \in Exposed : Quiet(t)' = Quiet(t)
  BY <1>1, BuildDisturbsLittle DEF Stages
<1>3. partial \in [DOMAIN partial -> Entries] /\ DOMAIN partial \subseteq Exposed
  BY <1>1 DEF IInv, BuildInv, Building
<1>4. /\ DOMAIN partial' = DOMAIN partial
      /\ \A t \in DOMAIN partial :
           /\ t # Reached => partial'[t] = partial[t]
           /\ t = Reached => partial'[t] = [partial[t] EXCEPT !.refers = db[t].refers]
  BY <1>1, <1>3
<1>5. \A t \in DOMAIN partial :
           /\ partial'[t] \in Entries
           /\ partial'[t].columns = partial[t].columns
           /\ partial'[t].sample = partial[t].sample
           /\ partial'[t].refers = IF t = Reached THEN db[t].refers ELSE partial[t].refers
  <2>1. ASSUME NEW t \in DOMAIN partial, t = Reached
        PROVE  db[t].refers \in SUBSET Tables
    BY <1>1, <1>3, <2>1, CatalogAssumption
       DEF IInv, HistoryInv, Databases, TableStates, Exists
  <2> QED
    BY <1>3, <1>4, <2>1 DEF Entries
<1>6. partial' \in [DOMAIN partial' -> Entries]
  BY <1>1, <1>4, <1>5
<1>7. ASSUME NEW t \in Exposed, Quiet(t)'
      PROVE  ReadRight(t)'
  <2>1. ReadRight(t)
    BY <1>1, <1>2, <1>7 DEF IInv, BuildInv, Building
  <2>2. KeysRead(t)' => KeysRead(t) \/ t = Reached
    BY <1>1 DEF KeysRead
  <2>3. ColumnsRead(t)' => ColumnsRead(t)
    BY <1>1, <2>2 DEF ColumnsRead
  <2> QED
    BY <1>1, <1>2, <1>4, <1>5, <2>1, <2>2, <2>3 DEF ReadRight, Listed, Exists, ColumnsOf
<1>8. \A t \in DOMAIN partial' : Listed(t)'
  BY <1>1, <1>4 DEF IInv, BuildInv, Building, Listed
<1> QED
  BY <1>1, <1>2, <1>3, <1>4, <1>6, <1>7, <1>8 DEF IInv, BuildInv, Building

\* When every schema has been listed the loops have read everything.
LEMMA IntrospectedKeepsIInv ==
  ASSUME IInv, Introspected
  PROVE  IInv'
<1>1. stage = "list" /\ schemas = {} /\ stage' = "sample" /\ Continue
      /\ UNCHANGED <<schemas, partial>>
  BY DEF Introspected
<1>2. /\ HistoryInv' /\ CallInv' /\ CacheInv' /\ AnswerInv' /\ (stage \in Stages)'
      /\ UNCHANGED <<db, changes, lastChange, clock, call>>
      /\ \A t \in Exposed : Quiet(t)' = Quiet(t)
  BY <1>1, BuildDisturbsLittle DEF Stages
<1>3. /\ partial \in [DOMAIN partial -> Entries] /\ DOMAIN partial \subseteq Exposed
      /\ todo = {}
      /\ \A t \in Exposed : Quiet(t) => ReadRight(t)
  BY <1>1 DEF IInv, BuildInv, Building
<1>4. ASSUME NEW t \in Exposed, Quiet(t)'
      PROVE  ReadRight(t)'
  BY <1>1, <1>2, <1>3, <1>4 DEF ReadRight, Listed, KeysRead, ColumnsRead, Exists, ColumnsOf
<1>5. BuildInv'
  BY <1>1, <1>3, <1>4 DEF BuildInv, Building, Listed
<1> QED
  BY <1>2, <1>5 DEF IInv

\* A sample is all the rows there are: a full page of rows is thrown away.
LEMMA RowsAreAllOrTooMany ==
  ASSUME NEW t, NEW V \in DistinctRows(t)
  PROVE  (IF Cardinality(V) > SampleLimit THEN {} ELSE V) \in {{}, db[t].values}
BY CatalogAssumption DEF DistinctRows

\* A column whose rows were read has all its values sampled, or none.
LEMMA SampleColumnKeepsIInv ==
  ASSUME IInv, SampleColumn
  PROVE  IInv'
<1>1. /\ stage = "sample" /\ stage' = "sample" /\ schemas' = schemas /\ Continue
      /\ \/ partial' = partial
         \/ /\ Exists(Reached)
            /\ \E V \in DistinctRows(Reached) :
                 partial' = [partial EXCEPT ![Reached].sample =
                               IF Cardinality(V) > SampleLimit THEN {} ELSE V]
  BY DEF SampleColumn
<1>2. /\ HistoryInv' /\ CallInv' /\ CacheInv' /\ AnswerInv' /\ (stage \in Stages)'
      /\ UNCHANGED <<db, changes, lastChange, clock, call>>
      /\ \A t \in Exposed : Quiet(t)' = Quiet(t)
  BY <1>1, BuildDisturbsLittle DEF Stages
<1>3. /\ partial \in [DOMAIN partial -> Entries] /\ DOMAIN partial \subseteq Exposed
      /\ schemas = {}
      /\ \A t \in Exposed : Quiet(t) => ReadRight(t)
  BY <1>1 DEF IInv, BuildInv, Building
<1>4. CASE partial' = partial
  BY <1>1, <1>2, <1>3, <1>4
     DEF IInv, BuildInv, Building, ReadRight, Listed, KeysRead, ColumnsRead, Exists, ColumnsOf
<1>5. ASSUME NEW sample \in {{}, db[Reached].values}, Exists(Reached),
             partial' = [partial EXCEPT ![Reached].sample = sample]
      PROVE  BuildInv'
  <2>1. /\ DOMAIN partial' = DOMAIN partial
        /\ \A t \in DOMAIN partial :
             /\ t # Reached => partial'[t] = partial[t]
             /\ t = Reached => partial'[t] = [partial[t] EXCEPT !.sample = sample]
    BY <1>3, <1>5
  <2>2. \A t \in DOMAIN partial :
             /\ partial'[t] \in Entries
             /\ partial'[t].columns = partial[t].columns
             /\ partial'[t].refers = partial[t].refers
             /\ partial'[t].sample = IF t = Reached THEN sample ELSE partial[t].sample
    <3>1. ASSUME NEW t \in DOMAIN partial, t = Reached
          PROVE  sample \in SUBSET Values
      BY <1>3, <1>5, <3>1, CatalogAssumption
         DEF IInv, HistoryInv, Databases, TableStates, Exists
    <3> QED
      BY <1>3, <2>1, <3>1 DEF Entries
  <2>3. partial' \in [DOMAIN partial' -> Entries]
    BY <1>5, <2>1, <2>2
  <2>4. ASSUME NEW t \in Exposed, Quiet(t)'
        PROVE  ReadRight(t)'
    <3>1. ReadRight(t)
      BY <1>2, <1>3, <2>4
    <3> QED
      BY <1>1, <1>2, <1>5, <2>1, <2>2, <3>1
         DEF ReadRight, Listed, KeysRead, ColumnsRead, Exists, ColumnsOf
  <2> QED
    BY <1>1, <1>3, <2>1, <2>3, <2>4 DEF BuildInv, Building, Listed
<1>6. BuildInv'
  <2>1. CASE \E V \in DistinctRows(Reached) :
               /\ Exists(Reached)
               /\ partial' = [partial EXCEPT ![Reached].sample =
                                IF Cardinality(V) > SampleLimit THEN {} ELSE V]
    <3>1. PICK V \in DistinctRows(Reached) :
                 partial' = [partial EXCEPT ![Reached].sample =
                               IF Cardinality(V) > SampleLimit THEN {} ELSE V]
      BY <2>1
    <3> DEFINE sample == IF Cardinality(V) > SampleLimit THEN {} ELSE V
    <3>2. sample \in {{}, db[Reached].values} /\ Exists(Reached)
      BY <2>1, RowsAreAllOrTooMany
    <3>3. partial' = [partial EXCEPT ![Reached].sample = sample]
      BY <3>1
    <3> HIDE DEF sample
    <3> QED
      BY <3>2, <3>3, <1>5
  <2> QED
    BY <1>1, <1>4, <2>1 DEF IInv
<1> QED
  BY <1>2, <1>6 DEF IInv

\* When the columns are sampled everything has been read.
LEMMA SamplingDoneKeepsIInv ==
  ASSUME IInv, SamplingDone
  PROVE  IInv'
<1>1. stage = "sample" /\ stage' = "finish" /\ Continue /\ UNCHANGED <<schemas, todo, partial>>
  BY DEF SamplingDone, buildVars
<1>2. /\ HistoryInv' /\ CallInv' /\ CacheInv' /\ AnswerInv' /\ (stage \in Stages)'
      /\ UNCHANGED <<db, changes, lastChange, clock, call>>
      /\ \A t \in Exposed : Quiet(t)' = Quiet(t)
  BY <1>1, BuildDisturbsLittle DEF Stages
<1>3. BuildInv'
  BY <1>1, <1>2
     DEF IInv, BuildInv, Building, ReadRight, Listed, KeysRead, ColumnsRead, Exists, ColumnsOf
<1> QED
  BY <1>2, <1>3 DEF IInv

\* What was last changed before the catalog is dated was last changed before the
\* call began, so the build has read it as it is.
LEMMA FinishBuildKeepsIInv ==
  ASSUME IInv, FinishBuild
  PROVE  IInv'
<1>1. /\ stage = "finish" /\ stage' = "answered"
      /\ UNCHANGED <<databaseVars, clock, call>>
      /\ cache' = Built /\ answer' = Built /\ todo' = {} /\ partial' = <<>>
  BY DEF FinishBuild
<1>2. /\ HistoryInv' /\ (stage \in Stages)'
      /\ UNCHANGED <<db, changes, lastChange, clock>>
      /\ \A c : \A t \in Exposed : Describes(c, t)' = Describes(c, t)
  BY <1>1, CallsLeaveTheDatabase DEF Stages
<1>3. CallInv'
  BY <1>1, <1>2 DEF IInv, CallInv, Quiet
<1>4. Built.tables = partial /\ Built.generated = call.at
  BY DEF Built
<1>5. ASSUME NEW t \in Exposed, Quiet(t)
      PROVE  Describes(Built, t)
  BY <1>1, <1>4, <1>5
     DEF IInv, BuildInv, Building, ReadRight, Listed, KeysRead, ColumnsRead, Describes, IsExact
<1>6. ASSUME NEW t \in Exposed, lastChange[t].number = 0 \/ lastChange[t].at < call.at
      PROVE  Quiet(t)
  BY <1>1, <1>6, CatalogAssumption DEF IInv, HistoryInv, CallInv, Quiet
<1>7. DOMAIN partial \subseteq Exposed /\ call.at \in Nat /\ call.at <= clock
  BY <1>1 DEF IInv, BuildInv, Building, CallInv
<1>8. CacheInv'
  BY <1>1, <1>2, <1>4, <1>5, <1>6, <1>7 DEF CacheInv
<1>9. AnswerInv'
  BY <1>1, <1>2, <1>4, <1>5, <1>7 DEF AnswerInv, Settled, Quiet
<1> QED
  BY <1>1, <1>2, <1>3, <1>8, <1>9 DEF IInv, BuildInv, Building

-----------------------------------------------------------------------------
(* The theorems.                                                           *)

\* What each part of a request and each change of the database leaves true.
THEOREM CatalogInvariant == Spec => []IInv
<1>1. Init => IInv
  BY Initially
<1>2. IInv /\ [Next]_vars => IInv'
  <2> SUFFICES ASSUME IInv, [Next]_vars
               PROVE  IInv'
    OBVIOUS
  <2>1. [CatalogNext]_catalogVars
    BY StepsOfTheCatalog
  <2>2. CASE \E r \in scenario.requests : GetSchema(r.kind, r.refresh)
    BY <2>2, CallKeepsIInv
  <2>3. CASE Build
    BY <2>3, BuildFailsKeepsIInv, ListTablesKeepsIInv, ReadColumnsKeepsIInv,
       ReadKeysKeepsIInv, IntrospectedKeepsIInv, SampleColumnKeepsIInv, SamplingDoneKeepsIInv,
       FinishBuildKeepsIInv DEF Build
  <2>4. CASE Reply
    BY <2>4, ReplyKeepsIInv
  <2>5. CASE DatabaseChange
    BY <2>5, ChangeKeepsIInv
  <2>6. CASE Tick
    BY <2>6, TickKeepsIInv
  <2>7. CASE UNCHANGED catalogVars
    BY <2>7, Stuttering
  <2> QED
    BY <2>1, <2>2, <2>3, <2>4, <2>5, <2>6, <2>7 DEF CatalogNext
<1> QED
  BY <1>1, <1>2, PTL DEF Spec

\* No answer is staler than the TTL, for every TTL, every set of tables and every
\* history of changes made while the catalog is read, cached and handed out.
THEOREM AnswersAreFresh == Spec => []AnswerIsFresh
<1>1. IInv => AnswerIsFresh
  BY DEF IInv, AnswerInv, AnswerIsFresh, Describes
<1> QED
  BY <1>1, CatalogInvariant, PTL

\* A refresh sees every change made before it was asked for.
THEOREM RefreshesSeeEarlierChanges == Spec => []RefreshSeesEarlierChanges
<1>1. IInv => RefreshSeesEarlierChanges
  BY DEF IInv, AnswerInv, RefreshSeesEarlierChanges, Describes
<1> QED
  BY <1>1, CatalogInvariant, PTL

\* A sample is never a part of a column's values, for every limit.
THEOREM SamplesAreAllOrNone == Spec => []SamplesAreComplete
<1>1. IInv => SamplesAreComplete
  BY DEF IInv, AnswerInv, SamplesAreComplete, Describes
<1> QED
  BY <1>1, CatalogInvariant, PTL

-----------------------------------------------------------------------------
(* Sets in order.                                                          *)

\* R puts S in order.
IsOrder(R, S) ==
  /\ \A t \in S : <<t, t>> \notin R
  /\ \A t, u, v \in S : <<t, u>> \in R /\ <<u, v>> \in R => <<t, v>> \in R
  /\ \A t, u \in S : t # u => <<t, u>> \in R \/ <<u, t>> \in R

\* How many elements of S come before t.
Place(R, S, t) == Cardinality({u \in S : <<u, t>> \in R})

\* Each element has a place of its own, and each place is taken.
LEMMA PlacesAreTaken ==
  ASSUME NEW S, IsFiniteSet(S), NEW R, IsOrder(R, S)
  PROVE  /\ \A i \in 1 .. Cardinality(S) : \E t \in S : Place(R, S, t) = i - 1
         /\ \A t \in S : Place(R, S, t) + 1 \in 1 .. Cardinality(S)
         /\ \A t, u \in S : Place(R, S, t) = Place(R, S, u) => t = u
         /\ \A t, u \in S : <<t, u>> \in R => Place(R, S, t) < Place(R, S, u)
<1> DEFINE Before(t) == {u \in S : <<u, t>> \in R}
           n == Cardinality(S)
           D == 0 .. n - 1
           f == [t \in S |-> Place(R, S, t)]
<1>1. \A t \in S : IsFiniteSet(Before(t)) /\ Cardinality(Before(t)) \in Nat
                   /\ Place(R, S, t) = Cardinality(Before(t))
  BY FS_Subset, FS_CardinalityType DEF Place
<1>2. n \in Nat
  BY FS_CardinalityType
<1>3. ASSUME NEW t \in S
      PROVE  Place(R, S, t) \in D
  <2>1. t \notin Before(t) /\ Before(t) \in SUBSET S
    BY DEF IsOrder
  <2> HIDE DEF Before
  <2>2. Cardinality(Before(t)) <= n /\ (n = Cardinality(Before(t)) => S = Before(t))
    BY <2>1, FS_Subset
  <2>3. Cardinality(Before(t)) # n
    BY <2>1, <2>2
  <2> QED
    BY <1>1, <1>2, <2>2, <2>3
<1>4. ASSUME NEW t \in S, NEW u \in S, <<t, u>> \in R
      PROVE  Place(R, S, t) < Place(R, S, u)
  <2>1. Before(t) \in SUBSET Before(u)
    BY <1>4 DEF IsOrder
  <2>2. t \in Before(u) /\ t \notin Before(t)
    BY <1>4 DEF IsOrder
  <2>3. /\ IsFiniteSet(Before(u)) /\ Cardinality(Before(t)) \in Nat
        /\ Cardinality(Before(u)) \in Nat
    BY <1>1
  <2> HIDE DEF Before
  <2>4. /\ Cardinality(Before(t)) <= Cardinality(Before(u))
        /\ Cardinality(Before(u)) = Cardinality(Before(t)) => Before(u) = Before(t)
    BY <2>1, <2>3, FS_Subset
  <2>5. Cardinality(Before(t)) # Cardinality(Before(u))
    BY <2>2, <2>4
  <2> QED
    BY <1>1, <2>3, <2>4, <2>5
<1>5. \A t, u \in S : Place(R, S, t) = Place(R, S, u) => t = u
  <2> SUFFICES ASSUME NEW t \in S, NEW u \in S, t # u
               PROVE  Place(R, S, t) # Place(R, S, u)
    OBVIOUS
  <2>1. Place(R, S, t) \in Nat /\ Place(R, S, u) \in Nat
    BY <1>1
  <2>2. <<t, u>> \in R \/ <<u, t>> \in R
    BY DEF IsOrder
  <2> QED
    BY <1>4, <2>1, <2>2
<1>6. f \in Injection(S, D)
  <2>1. f \in [S -> D]
    BY <1>3
  <2>2. \A t, u \in S : f[t] = f[u] => t = u
    BY <1>5
  <2> QED
    BY <2>1, <2>2 DEF Injection, IsInjective
<1>7. IsFiniteSet(D) /\ Cardinality(D) = n
  <2>1. n - 1 \in Int /\ 0 \in Int
    BY <1>2
  <2> HIDE DEF n
  <2>2. IsFiniteSet(D) /\ Cardinality(D) = IF 0 > n - 1 THEN 0 ELSE (n - 1) - 0 + 1
    BY <2>1, FS_Interval
  <2> QED
    BY <1>2, <2>2
<1>8. f \in Surjection(S, D)
  <2> HIDE DEF f, D
  <2>1. Cardinality(S) = Cardinality(D) <=> f \in Surjection(S, D)
    BY <1>6, <1>7, FS_Injection
  <2> QED
    BY <1>7, <2>1 DEF n
<1>9. \A i \in 1 .. n : \E t \in S : Place(R, S, t) = i - 1
  <2> SUFFICES ASSUME NEW i \in 1 .. n
               PROVE  \E t \in S : Place(R, S, t) = i - 1
    OBVIOUS
  <2>1. i - 1 \in D
    BY <1>2
  <2>2. \A y \in D : \E t \in S : f[t] = y
    BY <1>8 DEF Surjection
  <2> QED
    BY <2>1, <2>2
<1>10. \A t \in S : Place(R, S, t) + 1 \in 1 .. n
  BY <1>2, <1>3
<1> QED
  BY <1>4, <1>5, <1>9, <1>10

\* seq goes through the elements of S, each once.
Lists(seq, S) ==
  /\ seq \in [1 .. Cardinality(S) -> S]
  /\ \A i, j \in DOMAIN seq : i # j => seq[i] # seq[j]
  /\ \A t \in S : \E i \in DOMAIN seq : seq[i] = t

\* The sequence that has each element at its place does, and follows the order.
LEMMA OrderedLists ==
  ASSUME NEW S, IsFiniteSet(S), NEW R, IsOrder(R, S)
  PROVE  /\ Lists(InOrder(S, R), S)
         /\ \A i, j \in DOMAIN InOrder(S, R) :
              i < j => <<InOrder(S, R)[i], InOrder(S, R)[j]>> \in R
<1> DEFINE seq == InOrder(S, R)
           n == Cardinality(S)
<1>1. seq = [i \in 1 .. n |-> CHOOSE t \in S : Place(R, S, t) = i - 1]
  BY DEF InOrder, Place
<1>2. DOMAIN seq = 1 .. n
  BY <1>1
<1>3. ASSUME NEW i \in 1 .. n
      PROVE  seq[i] \in S /\ Place(R, S, seq[i]) = i - 1
  <2>1. \E t \in S : Place(R, S, t) = i - 1
    BY PlacesAreTaken
  <2> HIDE DEF seq
  <2> QED
    BY <1>1, <2>1
<1>4. seq \in [1 .. n -> S]
  <2> HIDE DEF seq
  <2> QED
    BY <1>1, <1>3
<1> HIDE DEF seq
<1>5. ASSUME NEW i \in DOMAIN seq, NEW j \in DOMAIN seq, seq[i] = seq[j]
      PROVE  i = j
  <2>1. i - 1 = j - 1 /\ i \in Int /\ j \in Int
    BY <1>2, <1>3, <1>5
  <2> QED
    BY <2>1
<1>6. ASSUME NEW t \in S
      PROVE  \E i \in DOMAIN seq : seq[i] = t
  <2> DEFINE p == Place(R, S, t)
             i == p + 1
  <2>1. i \in 1 .. n
    BY PlacesAreTaken
  <2>2. p \in Int
    <3>1. IsFiniteSet({u \in S : <<u, t>> \in R})
      BY FS_Subset
    <3> QED
      BY <3>1, FS_CardinalityType DEF Place
  <2>3. Place(R, S, seq[i]) = i - 1 /\ seq[i] \in S
    BY <1>3, <2>1
  <2> HIDE DEF p
  <2>4. Place(R, S, seq[i]) = p
    BY <2>2, <2>3
  <2> HIDE DEF i
  <2>5. seq[i] = t
    BY <2>3, <2>4, PlacesAreTaken DEF p
  <2> QED
    BY <1>2, <2>1, <2>5
<1>7. \A i, j \in DOMAIN seq : i # j => seq[i] # seq[j]
  BY <1>5
<1>8. ASSUME NEW i \in DOMAIN seq, NEW j \in DOMAIN seq, i < j
      PROVE  <<seq[i], seq[j]>> \in R
  <2>1. /\ seq[i] \in S /\ seq[j] \in S
        /\ Place(R, S, seq[i]) = i - 1 /\ Place(R, S, seq[j]) = j - 1
        /\ i \in Int /\ j \in Int
    BY <1>2, <1>3
  <2>2. seq[i] # seq[j]
    BY <1>7, <1>8, <2>1
  <2>3. <<seq[j], seq[i]>> \notin R
    <3>1. ASSUME <<seq[j], seq[i]>> \in R
          PROVE  Place(R, S, seq[j]) < Place(R, S, seq[i])
      BY <2>1, <3>1, PlacesAreTaken
    <3>2. ~(j - 1 < i - 1)
      BY <1>8, <2>1
    <3> QED
      BY <2>1, <3>1, <3>2
  <2> QED
    BY <2>1, <2>2, <2>3 DEF IsOrder
<1> QED
  BY <1>4, <1>6, <1>7, <1>8 DEF Lists, seq

\* Tables are put in the order of their identifiers.
LEMMA AscendingLists ==
  ASSUME NEW S \in SUBSET Tables
  PROVE  Lists(Ascending(S), S)
<1> DEFINE R == {p \in S \X S : p[1] < p[2]}
<1>1. IsFiniteSet(S) /\ S \subseteq Nat
  BY NamesAssumption, FS_Subset
<1>2. IsOrder(R, S)
  <2>1. \A t, u \in S : <<t, u>> \in R <=> t < u
    OBVIOUS
  <2> HIDE DEF R
  <2> QED
    BY <1>1, <2>1 DEF IsOrder
<1> QED
  BY <1>1, <1>2, OrderedLists DEF Ascending

\* So are tables and columns with their scores, the best score first.
LEMMA RankingLists ==
  ASSUME NEW S \in SUBSET Nat, IsFiniteSet(S), NEW score, \A t \in S : score[t] \in Nat
  PROVE  /\ Lists(InOrder(S, Ranking(score, S)), S)
         /\ \A i, j \in DOMAIN InOrder(S, Ranking(score, S)) :
              i < j => score[InOrder(S, Ranking(score, S))[i]]
                         >= score[InOrder(S, Ranking(score, S))[j]]
<1> DEFINE R == Ranking(score, S)
           seq == InOrder(S, R)
<1>1. \A t, u \in S :
        <<t, u>> \in R <=> score[t] > score[u] \/ (score[t] = score[u] /\ t < u)
  BY DEF Ranking
<1> HIDE DEF R
<1>2. IsOrder(R, S)
  BY <1>1 DEF IsOrder
<1>3. Lists(seq, S) /\ \A i, j \in DOMAIN seq : i < j => <<seq[i], seq[j]>> \in R
  BY <1>2, OrderedLists
<1> HIDE DEF seq
<1>4. \A i \in DOMAIN seq : seq[i] \in S
  BY <1>3 DEF Lists
<1>5. ASSUME NEW i \in DOMAIN seq, NEW j \in DOMAIN seq, i < j
      PROVE  score[seq[i]] >= score[seq[j]]
  <2>1. <<seq[i], seq[j]>> \in R /\ seq[i] \in S /\ seq[j] \in S
    BY <1>3, <1>4, <1>5
  <2>2. score[seq[i]] > score[seq[j]] \/ score[seq[i]] = score[seq[j]]
    BY <1>1, <2>1
  <2>3. score[seq[i]] \in Nat /\ score[seq[j]] \in Nat
    BY <2>1
  <2> QED
    BY <2>2, <2>3
<1> QED
  BY <1>3, <1>5 DEF seq, R

\* The best n of them are different ones; one that is not among them has n of them
\* before it, none of which scored less.
LEMMA BestAre ==
  ASSUME NEW S \in SUBSET Nat, IsFiniteSet(S), NEW score, \A t \in S : score[t] \in Nat,
         NEW n \in Nat
  PROVE  /\ Best(score, S, n) \in Seq(S) /\ Len(Best(score, S, n)) <= n
         /\ \A i, j \in DOMAIN Best(score, S, n) :
              i # j => Best(score, S, n)[i] # Best(score, S, n)[j]
         /\ \A c \in S \ Range(Best(score, S, n)) :
              /\ Cardinality(Range(Best(score, S, n))) = n
              /\ \A d \in Range(Best(score, S, n)) : score[d] >= score[c]
<1> DEFINE ranked == InOrder(S, Ranking(score, S))
           size == Cardinality(S)
           m == IF Len(ranked) < n THEN Len(ranked) ELSE n
           best == SubSeq(ranked, 1, m)
<1>1. Best(score, S, n) = best
  BY DEF Best
<1>2. /\ Lists(ranked, S)
      /\ \A i, j \in DOMAIN ranked : i < j => score[ranked[i]] >= score[ranked[j]]
  BY RankingLists
<1>3. size \in Nat
  BY FS_CardinalityType
<1> HIDE DEF ranked, size
<1>4. /\ ranked \in [1 .. size -> S]
      /\ \A i, j \in DOMAIN ranked : i # j => ranked[i] # ranked[j]
      /\ \A c \in S : \E i \in DOMAIN ranked : ranked[i] = c
  BY <1>2 DEF Lists, size
<1>5. ranked \in Seq(S) /\ Len(ranked) = size /\ DOMAIN ranked = 1 .. size
  BY <1>3, <1>4
<1>6. m \in 0 .. size /\ m <= n /\ (m < size => m = n)
  BY <1>3, <1>5
<1> HIDE DEF m
<1>7. /\ best \in Seq(S) /\ Len(best) = m /\ DOMAIN best = 1 .. m
      /\ \A i \in 1 .. m : best[i] = ranked[i]
  BY <1>5, <1>6
<1>8. 1 .. m \subseteq DOMAIN ranked
  BY <1>3, <1>5, <1>6
<1> HIDE DEF best
<1>9. \A i, j \in DOMAIN best : i # j => best[i] # best[j]
  BY <1>4, <1>7, <1>8
<1>10. Cardinality(Range(best)) = m
  <2>1. IsFiniteSet(1 .. m) /\ Cardinality(1 .. m) = m
    <3>1. m \in Int /\ 1 \in Int
      BY <1>3, <1>6
    <3>2. IsFiniteSet(1 .. m) /\ Cardinality(1 .. m) = IF 1 > m THEN 0 ELSE m - 1 + 1
      BY <3>1, FS_Interval
    <3> QED
      BY <1>3, <1>6, <3>2
  <2>2. best \in [1 .. m -> Range(best)]
    BY <1>7 DEF Range
  <2>3. best \in Surjection(1 .. m, Range(best)) /\ best \in Injection(1 .. m, Range(best))
    BY <1>7, <1>9, <2>2 DEF Surjection, Injection, IsInjective, Range
  <2>4. Cardinality(Range(best)) = Cardinality(1 .. m)
    BY <2>1, <2>3, FS_Surjection
  <2> QED
    BY <2>1, <2>4
<1>11. ASSUME NEW c \in S \ Range(best)
       PROVE  Cardinality(Range(best)) = n /\ \A d \in Range(best) : score[d] >= score[c]
  <2>1. PICK j \in DOMAIN ranked : ranked[j] = c
    BY <1>4
  <2>2. j \notin 1 .. m
    BY <1>7, <1>11, <2>1 DEF Range
  <2>3. j \in 1 .. size /\ j > m /\ m = n
    BY <1>3, <1>5, <1>6, <2>2
  <2>4. ASSUME NEW d \in Range(best)
        PROVE  score[d] >= score[c]
    <3>1. PICK i \in 1 .. m : ranked[i] = d
      BY <1>7, <2>4 DEF Range
    <3>2. i \in DOMAIN ranked /\ i < j
      BY <1>3, <1>6, <1>8, <2>3
    <3> QED
      BY <1>2, <2>1, <3>1, <3>2
  <2> QED
    BY <1>10, <2>3, <2>4
<1> QED
  BY <1>1, <1>6, <1>7, <1>9, <1>11

\* What is selected are tables that were scored, each once, as many as allowed.
LEMMA SelectionIs ==
  ASSUME NEW D \in SUBSET Tables, NEW score \in [D -> Scores],
         limits.tables \in Nat \ {0}
  PROVE  /\ Selection(score) \in Seq(D) /\ Len(Selection(score)) <= limits.tables
         /\ \A i, j \in DOMAIN Selection(score) :
              i # j => Selection(score)[i] # Selection(score)[j]
<1> DEFINE enough == {t \in DOMAIN score : score[t] >= MinTableScore}
<1>1. enough \in SUBSET D /\ enough \in SUBSET Nat /\ \A t \in enough : score[t] \in Nat
  BY RetrievalAssumption, NamesAssumption
<1>2. IsFiniteSet(enough)
  BY <1>1, NamesAssumption, FS_Subset
<1>3. Selection(score) = Best(score, enough, limits.tables)
  BY DEF Selection
<1> HIDE DEF enough
<1>4. /\ Selection(score) \in Seq(enough) /\ Len(Selection(score)) <= limits.tables
      /\ \A i, j \in DOMAIN Selection(score) :
           i # j => Selection(score)[i] # Selection(score)[j]
  BY <1>1, <1>2, <1>3, BestAre
<1>5. ASSUME NEW s \in Seq(enough)
      PROVE  s \in Seq(D)
  <2>1. Len(s) \in Nat /\ DOMAIN s = 1 .. Len(s) /\ s = [i \in 1 .. Len(s) |-> s[i]]
    OBVIOUS
  <2>2. ASSUME NEW i \in 1 .. Len(s)
        PROVE  s[i] \in D
    <3>1. s[i] \in enough
      BY <2>1
    <3> QED
      BY <1>1, <3>1
  <2>3. s \in [1 .. Len(s) -> D]
    BY <2>1, <2>2
  <2> QED
    BY <2>1, <2>3
<1> QED
  BY <1>4, <1>5

-----------------------------------------------------------------------------
(* What a retrieval renders.                                             *)

\* The tables of a catalog are exposed, their columns and foreign keys have names.
Named(c) ==
  c # None => \A t \in DOMAIN c.tables : /\ t \in Exposed
                                         /\ c.tables[t].columns \subseteq ColumnNames
                                         /\ c.tables[t].refers \subseteq Tables

\* There is a catalog during a retrieval.
NamedInv ==
  /\ Named(cache) /\ Named(answer) /\ Named(catalog)
  /\ phase # "idle" => catalog # None

\* The tables of every path found are final, and a retrieval starts without paths.
PathsInv ==
  /\ phase = "idle" => paths = <<>>
  /\ \E S : paths \in Seq(S)
  /\ \A k \in DOMAIN paths : Range(paths[k]) \subseteq Final

\* c is among the columns best of a table, or for one of two reasons not: it is not
\* named like a key and scored too little, or as many as may be scored no less.
Accounted(c, score, best) ==
  \/ c \in best
  \/ c \notin KeyNames /\ score[c] < MinColumnScore
  \/ Cardinality(best) = MaxColumns /\ \A d \in best : score[d] >= score[c]

\* So it is with the columns of a final table.
ColumnsInv ==
  phase \in {"ranked", "prompted"} =>
    /\ DOMAIN columns = ShownTables
    /\ \A t \in ShownTables : \A c \in catalog.tables[t].columns :
         Accounted(c, scored[t], columns[t])

PromptInv == prompt # None => phase = "prompted" /\ prompt = Rendered

RenderInv == NamedInv /\ PathsInv /\ ColumnsInv /\ PromptInv

\* A catalog is handed on, built of what has been read, or dropped.
LEMMA CatalogsAreNamed ==
  ASSUME IInv, NamedInv, [Next]_vars
  PROVE  NamedInv'
<1>1. Named(cache)' /\ Named(answer)'
  <2>1. [CatalogNext]_catalogVars
    BY StepsOfTheCatalog
  <2>2. CASE FinishBuild
    <3>1. Building /\ cache' = Built /\ answer' = Built /\ Built.tables = partial
      BY <2>2 DEF FinishBuild, Built, Building
    <3>2. \A t \in DOMAIN partial : /\ t \in Exposed
                                      /\ partial[t].columns \subseteq ColumnNames
                                      /\ partial[t].refers \subseteq Tables
      BY <3>1 DEF IInv, BuildInv, Entries
    <3> QED
      BY <3>1, <3>2 DEF Named
  <2>3. CASE ~FinishBuild
    <3>1. cache' = cache /\ answer' \in {answer, cache, None}
      BY <2>1, <2>3 DEF CatalogNext, catalogVars, Build, BuildFails, ListTables, ReadColumns,
         ReadKeys, Introspected, SampleColumn, SamplingDone, Continue, GetSchema, Reply, DatabaseChange,
         CreateTable, DropTable, AddForeignKey, WriteValues, Changed, Tick
    <3> QED
      BY <3>1 DEF NamedInv, Named
  <2> QED
    BY <2>2, <2>3
<1>2. Named(catalog)'
  <2>1. catalog' \in {catalog, answer, None}
    BY DEF Next, vars, retrievalVars, Request, Serve, Others, Draft, StartRetrieval, Answer,
       Drafted, RetrievalDone, Cleared, Retrieve, NextTarget, ExpandPath, NoPath, EndSearch,
       Accept, SelectColumns, AskBack, BuildPrompt
  <2> QED
    BY <2>1 DEF NamedInv, Named
<1>3. phase' # "idle" => catalog' # None
  <2>1. CASE Draft
    BY <2>1 DEF Draft, StartRetrieval
  <2>2. CASE Drafted
    BY <2>2 DEF Drafted, RetrievalDone
  <2>3. CASE phase' = "idle"
    BY <2>3
  <2>4. CASE phase # "idle" /\ catalog' = catalog
    BY <2>4 DEF NamedInv
  <2>5. Draft \/ Drafted \/ UNCHANGED <<phase, catalog>> \/ (phase # "idle" /\ catalog' = catalog)
    BY DEF Next, vars, retrievalVars, Request, Serve, Others, Answer, Retrieve, NextTarget,
       ExpandPath, NoPath, EndSearch, Accept, SelectColumns, AskBack, BuildPrompt
  <2> QED
    BY <2>1, <2>2, <2>3, <2>4, <2>5
<1> QED
  BY <1>1, <1>2, <1>3 DEF NamedInv

\* A path that is kept has all its tables selected or made bridges.
LEMMA AcceptKeepsPathsInv ==
  ASSUME PathsInv, phase = "search", NEW path, Accept(path)
  PROVE  PathsInv'
<1>1. phase' = "connect" /\ selected' = selected
  BY DEF Accept, EndSearch
<1>2. CASE UNCHANGED <<included, bridges, paths>>
  BY <1>1, <1>2 DEF PathsInv, Final
<1>3. CASE /\ paths' = Append(paths, path)
           /\ bridges' = bridges \cup (Range(path) \ Range(selected))
  <2>1. PICK S : paths \in Seq(S)
    BY DEF PathsInv
  <2>2. paths \in Seq(S \cup {path})
    BY <2>1
  <2>3. /\ paths' \in Seq(S \cup {path})
        /\ DOMAIN paths' = DOMAIN paths \cup {Len(paths) + 1}
        /\ \A k \in DOMAIN paths : paths'[k] = paths[k]
        /\ paths'[Len(paths) + 1] = path
    BY <1>3, <2>2
  <2>4. Final \subseteq Final' /\ Range(path) \subseteq Final'
    BY <1>1, <1>3 DEF Final
  <2> QED
    BY <1>1, <2>3, <2>4 DEF PathsInv
<1> QED
  BY <1>2, <1>3 DEF Accept

\* The columns selected for a table account for every other column.
LEMMA ColumnsAreAccounted ==
  ASSUME NEW t \in DOMAIN catalog.tables, catalog.tables[t].columns \subseteq ColumnNames,
         NEW score \in [ColumnNames -> Nat], NEW c \in catalog.tables[t].columns
  PROVE  Accounted(c, score, BestColumns(t, score))
<1> DEFINE candidates == Qualifying(t, score)
           best == Best(score, candidates, MaxColumns)
<1>1. IsFiniteSet(ColumnNames) /\ ColumnNames \subseteq Nat
  <2>1. IsFiniteSet({} \cup {Id})
    BY FS_EmptySet, FS_AddElement
  <2>2. IsFiniteSet({Id} \cup {Plain})
    <3>1. {Id} = {} \cup {Id}
      OBVIOUS
    <3> QED
      BY <2>1, <3>1, FS_AddElement
  <2>3. IsFiniteSet(({Id} \cup {Plain}) \cup Tables)
    BY <2>2, FS_Union, NamesAssumption
  <2>4. ({Id} \cup {Plain}) \cup Tables = ColumnNames
    BY DEF ColumnNames
  <2>5. ColumnNames \subseteq Nat
    BY NamesAssumption DEF ColumnNames
  <2> QED
    BY <2>3, <2>4, <2>5
<1>2. candidates \subseteq ColumnNames
  BY DEF Qualifying
<1>3. /\ candidates \in SUBSET Nat /\ IsFiniteSet(candidates)
      /\ \A d \in candidates : score[d] \in Nat
  BY <1>1, <1>2, FS_Subset
<1>4. MaxColumns \in Nat
  BY RetrievalAssumption
<1> HIDE DEF candidates
<1>5. \A d \in candidates \ Range(best) :
        /\ Cardinality(Range(best)) = MaxColumns
        /\ \A e \in Range(best) : score[e] >= score[d]
  BY <1>3, <1>4, BestAre
<1>6. BestColumns(t, score) = Range(best)
  BY DEF BestColumns, candidates
<1> HIDE DEF best
<1>7. CASE c \in candidates
  BY <1>5, <1>6, <1>7 DEF Accounted
<1>8. CASE c \notin candidates
  <2>1. c \notin KeyNames /\ ~(score[c] >= MinColumnScore)
    BY <1>8 DEF candidates, Qualifying
  <2>2. score[c] \in Nat /\ MinColumnScore \in Nat
    BY RetrievalAssumption
  <2>3. score[c] < MinColumnScore
    BY <2>1, <2>2
  <2> QED
    BY <2>1, <2>3 DEF Accounted
<1> QED
  BY <1>7, <1>8

\* What is known of the columns changes only when they are selected.
LEMMA ColumnsAreKept ==
  ASSUME ColumnsInv, UNCHANGED <<catalog, selected, bridges, scored, columns>>,
         phase' \in {"ranked", "prompted"} => phase \in {"ranked", "prompted"}
  PROVE  ColumnsInv' /\ ShownTables' = ShownTables /\ Final' = Final
BY DEF ColumnsInv, Accounted, ShownTables, Final

\* A step of the retrieval keeps what the prompt will be rendered from.
LEMMA RetrieveKeepsRenderInv ==
  ASSUME NamedInv, PathsInv, ColumnsInv, PromptInv, Retrieve, UNCHANGED catalogVars
  PROVE  PathsInv' /\ ColumnsInv' /\ PromptInv'
<1>1. CASE NextTarget
  <2>1. UNCHANGED <<catalog, selected, bridges, paths, scored, columns, prompt>> /\ phase = "connect"
        /\ phase' \in {"connect", "search", "columns"}
    BY <1>1 DEF NextTarget
  <2> QED
    BY <2>1 DEF PathsInv, ColumnsInv, PromptInv, Final
<1>2. CASE ExpandPath
  <2>1. phase = "search" /\ phase' \notin {"ranked", "prompted"} /\ prompt' = prompt
    BY <1>2 DEF ExpandPath, Accept, EndSearch
  <2>2. CASE \E path : Accept(path)
    BY <2>1, <2>2, AcceptKeepsPathsInv DEF ColumnsInv, PromptInv
  <2>3. CASE UNCHANGED <<phase, selected, bridges, paths>>
    BY <2>1, <2>3 DEF PathsInv, Final, ColumnsInv, PromptInv
  <2> QED
    BY <1>2, <2>2, <2>3 DEF ExpandPath, connectVars
<1>3. CASE NoPath
  <2>1. UNCHANGED <<selected, bridges, paths, prompt>> /\ phase = "search" /\ phase' = "connect"
    BY <1>3 DEF NoPath, EndSearch
  <2> QED
    BY <2>1 DEF PathsInv, ColumnsInv, PromptInv, Final
<1>4. CASE SelectColumns
  <2>1. /\ UNCHANGED <<catalog, selected, bridges, paths, prompt>>
        /\ phase = "columns" /\ phase' = "ranked"
    BY <1>4 DEF SelectColumns, connectVars
  <2>2. /\ scored' \in [Tables -> [ColumnNames -> Nat]]
        /\ columns' = [t \in ShownTables |-> BestColumns(t, scored'[t])]
    BY <1>4, RetrievalAssumption DEF SelectColumns, ShownTables
  <2>3. catalog # None
    BY <2>1 DEF NamedInv
  <2>4. \A t \in ShownTables : t \in Tables /\ catalog.tables[t].columns \subseteq ColumnNames
    BY <2>3, CatalogAssumption DEF NamedInv, Named, ShownTables
  <2>5. ASSUME NEW t \in ShownTables, NEW c \in catalog.tables[t].columns
        PROVE  Accounted(c, scored'[t], columns'[t])
    <3>1. scored'[t] \in [ColumnNames -> Nat] /\ t \in DOMAIN catalog.tables
      BY <2>2, <2>4 DEF ShownTables
    <3>2. Accounted(c, scored'[t], BestColumns(t, scored'[t]))
      BY <2>4, <3>1, ColumnsAreAccounted
    <3> QED
      BY <2>2, <3>2
  <2>6. ShownTables' = ShownTables /\ Final' = Final
    BY <2>1 DEF ShownTables, Final
  <2>7. ColumnsInv'
    BY <2>1, <2>2, <2>5, <2>6 DEF ColumnsInv, Accounted
  <2> QED
    BY <2>1, <2>6, <2>7 DEF PathsInv, PromptInv
<1>5. CASE AskBack
  <2>1. /\ UNCHANGED <<catalog, selected, bridges, paths, scored, columns, prompt>>
        /\ phase = "ranked" /\ phase' = "prompted"
    BY <1>5 DEF AskBack, connectVars
  <2> QED
    BY <2>1, ColumnsAreKept DEF PathsInv, PromptInv
<1>6. CASE BuildPrompt
  <2>1. /\ UNCHANGED <<catalog, selected, bridges, paths, scored, columns>>
        /\ phase = "ranked" /\ phase' = "prompted" /\ prompt' = Rendered
    BY <1>6 DEF BuildPrompt, connectVars
  <2>2. Rendered' = Rendered
    BY <2>1, ColumnsAreKept DEF Rendered
  <2> QED
    BY <2>1, <2>2, ColumnsAreKept DEF PathsInv, PromptInv
<1> QED
  BY <1>1, <1>2, <1>3, <1>4, <1>5, <1>6 DEF Retrieve

\* Paths, columns and prompt are cleared between retrievals.
LEMMA BetweenRetrievals ==
  ASSUME paths' = <<>>, prompt' = None, phase' = "idle"
  PROVE  PathsInv' /\ ColumnsInv' /\ PromptInv'
<1>1. paths' \in Seq({}) /\ DOMAIN paths' = {}
  OBVIOUS
<1> QED
  BY <1>1 DEF PathsInv, ColumnsInv, PromptInv

\* What is rendered is consistent at each stage of a retrieval.
THEOREM RenderInvariant == Spec => []RenderInv
<1>1. Init => RenderInv
  BY DEF Init, CatalogInit, RetrievalInit, RenderInv, NamedInv, Named, PathsInv,
         ColumnsInv, PromptInv
<1>2. IInv /\ RenderInv /\ [Next]_vars => RenderInv'
  <2> SUFFICES ASSUME IInv, RenderInv, [Next]_vars
               PROVE  RenderInv'
    OBVIOUS
  <2>1. NamedInv'
    BY CatalogsAreNamed DEF RenderInv
  <2>2. CASE UNCHANGED retrievalVars
    BY <2>1, <2>2 DEF retrievalVars, connectVars, RenderInv, PathsInv, ColumnsInv,
       PromptInv, Accounted, Final, ShownTables, Rendered
  <2>3. CASE Draft
    <3>1. /\ UNCHANGED <<bridges, paths, prompt>> /\ prompt = None
          /\ phase' \in {"connect", "columns"} /\ phase = "idle"
      BY <2>3 DEF Draft, StartRetrieval
    <3>2. paths' \in Seq({}) /\ DOMAIN paths' = {}
      BY <3>1 DEF RenderInv, PathsInv
    <3> QED
      BY <2>1, <3>1, <3>2 DEF RenderInv, PathsInv, ColumnsInv, PromptInv
  <2>4. CASE Retrieve /\ UNCHANGED catalogVars
    BY <2>1, <2>4, RetrieveKeepsRenderInv DEF RenderInv
  <2>5. CASE Drafted
    BY <2>1, <2>5, BetweenRetrievals DEF Drafted, RetrievalDone, Cleared, RenderInv
  <2> QED
    BY <2>2, <2>3, <2>4, <2>5 DEF Next, Request, Serve, Others, Answer, vars
<1> QED
  BY <1>1, <1>2, CatalogInvariant, PTL DEF Spec

\* The columns a rendered path joins on are rendered, or left out for one of the two
\* reasons: for every catalog, every naming of keys, every scoring and every limit.
THEOREM PathsShowTheirKeys == Spec => []JoinColumnsAreShown
<1>1. RenderInv => JoinColumnsAreShown
  <2> SUFFICES ASSUME RenderInv, prompt # None, NEW k \in DOMAIN prompt.paths,
                      NEW t \in Range(prompt.paths[k]) \cap DOMAIN catalog.tables
               PROVE  /\ t \in prompt.tables
                      /\ \A c \in catalog.tables[t].columns :
                           Accounted(c, scored[t], prompt.columns[t])
    BY DEF JoinColumnsAreShown, Accounted
  <2>1. phase = "prompted" /\ prompt = Rendered
    BY DEF RenderInv, PromptInv
  <2>2. prompt.paths = paths /\ prompt.tables = ShownTables /\ prompt.columns = columns
    BY <2>1 DEF Rendered
  <2>3. t \in ShownTables
    BY <2>2 DEF RenderInv, PathsInv, ShownTables
  <2> QED
    BY <2>1, <2>2, <2>3 DEF RenderInv, ColumnsInv
<1> QED
  BY <1>1, RenderInvariant, PTL

-----------------------------------------------------------------------------
(* Induction.                                                              *)

Below == {p \in Nat \X Nat : p[1] < p[2]}

\* The order of the numbers is well-founded.
LEMMA BelowIsWellFounded == IsWellFoundedOn(Below, Nat)
<1>1. Below = OpToRel(<, Nat)
  BY DEF Below, OpToRel
<1> QED
  BY <1>1, NatLessThanWellFounded

\* A set of numbers has a least one.
LEMMA LeastNumber ==
  ASSUME NEW T \in SUBSET Nat, T # {}
  PROVE  \E m \in T : \A n \in T : m <= n
<1>1. PICK m \in T : \A n \in T : <<n, m>> \notin Below
  BY WFMin, BelowIsWellFounded
<1>2. ASSUME NEW n \in T, n < m
      PROVE  <<n, m>> \in Below
  BY <1>2 DEF Below
<1>3. \A n \in T : ~(n < m)
  BY <1>1, <1>2
<1>4. \A n \in T : m <= n
  BY <1>3
<1> QED
  BY <1>4

\* What holds of 0 and, with a number, of the next one holds of all.
LEMMA Induction ==
  ASSUME NEW T, 0 \in T, \A n \in Nat : n \in T => n + 1 \in T
  PROVE  Nat \subseteq T
<1> SUFFICES ASSUME Nat \ T # {}
             PROVE  FALSE
  OBVIOUS
<1>1. PICK m \in Nat \ T : \A n \in Nat \ T : m <= n
  BY LeastNumber
<1>2. m # 0 /\ m - 1 \in Nat
  BY <1>1
<1>3. m - 1 \notin Nat \ T
  BY <1>1, <1>2
<1>4. (m - 1) + 1 \in T
  BY <1>2, <1>3
<1> QED
  BY <1>1, <1>4

-----------------------------------------------------------------------------
(* What is within some foreign keys of a set of tables.                    *)

\* Refers, Neighbours and Within, of the catalog c.
Referred(c, t) == IF t \in DOMAIN c.tables THEN c.tables[t].refers ELSE {}
Linked(c, t) == {u \in Tables : u \in Referred(c, t) \/ t \in Referred(c, u)}
Wider(c, S) == S \cup UNION {Linked(c, t) : t \in S}
Reach(c, S, k) ==
  LET near[i \in 0 .. k] == IF i = 0 THEN S ELSE Wider(c, near[i - 1])
  IN  near[k]

IsNear(g, c, S, k) == g = [i \in 0 .. k |-> IF i = 0 THEN S ELSE Wider(c, g[i - 1])]

\* There is a function such as Reach takes.
LEMMA NearExists ==
  ASSUME NEW c, NEW S, NEW k \in Nat
  PROVE  \E g : IsNear(g, c, S, k)
<1> DEFINE N == {n \in Nat : \E g : IsNear(g, c, S, n)}
<1>1. 0 \in N
  <2>1. IsNear([i \in 0 .. 0 |-> S], c, S, 0)
    BY DEF IsNear
  <2> QED
    BY <2>1
<1>2. ASSUME NEW n \in Nat, n \in N
      PROVE  n + 1 \in N
  <2>1. PICK g : IsNear(g, c, S, n)
    BY <1>2
  <2>2. g = [i \in 0 .. n |-> IF i = 0 THEN S ELSE Wider(c, g[i - 1])]
    BY <2>1 DEF IsNear
  <2> DEFINE h == [i \in 0 .. n + 1 |-> IF i = n + 1 THEN Wider(c, g[n]) ELSE g[i]]
  <2>3. ASSUME NEW i \in 0 .. n + 1
        PROVE  h[i] = IF i = 0 THEN S ELSE Wider(c, h[i - 1])
    <3>1. CASE i = 0
      BY <2>2, <3>1
    <3>2. CASE i \in 1 .. n
      <4>1. i \in 0 .. n /\ i - 1 \in 0 .. n /\ i - 1 # n + 1 /\ i # n + 1 /\ i # 0
            /\ i - 1 \in 0 .. n + 1
        BY <3>2
      <4>2. h[i] = g[i] /\ h[i - 1] = g[i - 1]
        BY <4>1
      <4>3. g[i] = Wider(c, g[i - 1])
        BY <2>2, <4>1
      <4> QED
        BY <4>1, <4>2, <4>3
    <3>3. CASE i = n + 1
      <4>1. i - 1 = n /\ n \in 0 .. n + 1 /\ n # n + 1 /\ i # 0
        BY <3>3
      <4>2. h[i] = Wider(c, g[n]) /\ h[i - 1] = g[n]
        BY <3>3, <4>1
      <4> QED
        BY <4>1, <4>2
    <3> QED
      BY <3>1, <3>2, <3>3
  <2>4. h = [i \in 0 .. n + 1 |-> IF i = 0 THEN S ELSE Wider(c, h[i - 1])]
    BY <2>3
  <2> HIDE DEF h
  <2>5. IsNear(h, c, S, n + 1)
    BY <2>4 DEF IsNear
  <2> QED
    BY <2>5
<1> HIDE DEF N
<1>3. Nat \subseteq N
  BY <1>1, <1>2, Induction
<1> QED
  BY <1>3 DEF N

\* What such a function gives.
LEMMA NearIs ==
  ASSUME NEW c, NEW S, NEW k \in Nat, NEW g, IsNear(g, c, S, k)
  PROVE  /\ g[0] = S
         /\ \A i \in 0 .. k : i + 1 <= k =>
              g[i + 1] = Wider(c, g[i])
<1>1. g = [i \in 0 .. k |-> IF i = 0 THEN S ELSE Wider(c, g[i - 1])]
  BY DEF IsNear
<1>2. 0 \in 0 .. k
  OBVIOUS
<1>3. ASSUME NEW i \in 0 .. k, i + 1 <= k
      PROVE  g[i + 1] = Wider(c, g[i])
  <2>1. i + 1 \in 0 .. k /\ i + 1 # 0 /\ (i + 1) - 1 = i
    BY <1>3
  <2> QED
    BY <1>1, <2>1
<1> QED
  BY <1>1, <1>2, <1>3

\* Reach takes one.
LEMMA ReachIs ==
  ASSUME NEW c, NEW S, NEW k \in Nat
  PROVE  \E g : IsNear(g, c, S, k) /\ Reach(c, S, k) = g[k]
<1> DEFINE near == CHOOSE g : IsNear(g, c, S, k)
<1>1. Reach(c, S, k) = near[k]
  BY DEF Reach, IsNear
<1>2. IsNear(near, c, S, k)
  BY NearExists
<1> QED
  BY <1>1, <1>2

\* Nothing is nearer than the set itself.
LEMMA ReachOfNone == ASSUME NEW c, NEW S PROVE Reach(c, S, 0) = S
<1>1. PICK g : IsNear(g, c, S, 0) /\ Reach(c, S, 0) = g[0]
  BY ReachIs
<1> QED
  BY <1>1, NearIs

\* One foreign key more leads to the neighbours.
LEMMA ReachOfNext ==
  ASSUME NEW c, NEW S, NEW k \in Nat
  PROVE  Reach(c, S, k + 1) = Wider(c, Reach(c, S, k))
<1>1. PICK g : IsNear(g, c, S, k) /\ Reach(c, S, k) = g[k]
  BY ReachIs
<1>2. PICK h : IsNear(h, c, S, k + 1) /\ Reach(c, S, k + 1) = h[k + 1]
  BY ReachIs
<1> DEFINE N == {i \in Nat : i <= k => g[i] = h[i]}
<1>8. g[0] = S /\ \A i \in 0 .. k : i + 1 <= k => g[i + 1] = Wider(c, g[i])
  BY <1>1, NearIs
<1>9. h[0] = S /\ \A i \in 0 .. k + 1 : i + 1 <= k + 1 => h[i + 1] = Wider(c, h[i])
  <2> DEFINE m == k + 1
  <2>1. m \in Nat /\ IsNear(h, c, S, m)
    BY <1>2
  <2> HIDE DEF m
  <2>2. h[0] = S /\ \A i \in 0 .. m : i + 1 <= m => h[i + 1] = Wider(c, h[i])
    BY <2>1, NearIs
  <2> QED
    BY <2>2 DEF m
<1>3. 0 \in N
  BY <1>8, <1>9
<1>4. ASSUME NEW i \in Nat, i \in N
      PROVE  i + 1 \in N
  <2> SUFFICES ASSUME i + 1 <= k PROVE g[i + 1] = h[i + 1]
    OBVIOUS
  <2>1. i \in 0 .. k /\ i \in 0 .. k + 1 /\ i + 1 <= k + 1 /\ g[i] = h[i]
    BY <1>4
  <2> QED
    BY <1>8, <1>9, <2>1
<1> HIDE DEF N
<1>5. Nat \subseteq N
  BY <1>3, <1>4, Induction
<1>6. g[k] = h[k]
  BY <1>5 DEF N
<1>7. k \in 0 .. k + 1 /\ k + 1 <= k + 1
  OBVIOUS
<1> QED
  BY <1>1, <1>2, <1>6, <1>7, <1>9

\* What is near is near for every greater limit.
LEMMA ReachGrows ==
  ASSUME NEW c, NEW S, NEW k \in Nat, NEW m \in Nat
  PROVE  Reach(c, S, k) \subseteq Reach(c, S, k + m)
<1> DEFINE N == {n \in Nat : Reach(c, S, k) \subseteq Reach(c, S, k + n)}
<1>1. 0 \in N
  OBVIOUS
<1>2. ASSUME NEW n \in Nat, n \in N
      PROVE  n + 1 \in N
  <2>1. k + n \in Nat /\ k + (n + 1) = (k + n) + 1
    OBVIOUS
  <2> QED
    BY <1>2, <2>1, ReachOfNext DEF Wider
<1> HIDE DEF N
<1>3. Nat \subseteq N
  BY <1>1, <1>2, Induction
<1> QED
  BY <1>3 DEF N

\* What has all its neighbours is never left.
LEMMA ReachStays ==
  ASSUME NEW c, NEW S, NEW V, S \subseteq V, \A t \in V : Linked(c, t) \subseteq V,
         NEW k \in Nat
  PROVE  Reach(c, S, k) \subseteq V
<1> DEFINE N == {n \in Nat : Reach(c, S, n) \subseteq V}
<1>1. 0 \in N
  BY ReachOfNone
<1>2. ASSUME NEW n \in Nat, n \in N
      PROVE  n + 1 \in N
  BY <1>2, ReachOfNext DEF Wider
<1> HIDE DEF N
<1>3. Nat \subseteq N
  BY <1>1, <1>2, Induction
<1> QED
  BY <1>3 DEF N

\* These are the operators of the retrieval, of its catalog.
LEMMA ReachIsWithin ==
  /\ \A t : Neighbours(t) = Linked(catalog, t)
  /\ \A S, k : Within(S, k) = Reach(catalog, S, k)
BY DEF Within, Reach, Neighbours, Refers, Linked, Referred, Wider

-----------------------------------------------------------------------------
(* What paths add.                                                         *)

\* A path from a table that is joined joins one table with each of its steps.
LEMMA PathsAdd ==
  ASSUME NEW S, IsFiniteSet(S), NEW p \in Seq(Tables), Len(p) # 0, p[1] \in S
  PROVE  Cardinality(S \cup Range(p)) <= Cardinality(S) + (Len(p) - 1)
<1> DEFINE D == Range(p) \ S
           n == Len(p)
           index == [t \in D |-> CHOOSE i \in 2 .. n : p[i] = t]
<1>1. n \in Nat /\ n # 0 /\ DOMAIN p = 1 .. n
  OBVIOUS
<1>2. ASSUME NEW t \in D
      PROVE  index[t] \in 2 .. n /\ p[index[t]] = t
  <2>1. PICK i \in DOMAIN p : p[i] = t
    BY DEF Range
  <2>2. i # 1
    BY <2>1
  <2>3. i \in 2 .. n
    BY <1>1, <2>1, <2>2
  <2> QED
    BY <2>1, <2>3
<1>3. index \in Injection(D, 2 .. n)
  <2>1. index \in [D -> 2 .. n]
    BY <1>2
  <2> HIDE DEF index, D
  <2>2. \A t, u \in D : index[t] = index[u] => t = u
    BY <1>2
  <2> QED
    BY <2>1, <2>2 DEF Injection, IsInjective
<1> HIDE DEF index, n
<1>4. IsFiniteSet(2 .. n) /\ Cardinality(2 .. n) = n - 1
  <2>1. 2 \in Int /\ n \in Int
    BY <1>1
  <2>2. IsFiniteSet(2 .. n) /\ Cardinality(2 .. n) = IF 2 > n THEN 0 ELSE n - 2 + 1
    BY <2>1, FS_Interval
  <2> QED
    BY <1>1, <2>2
<1>5. S \cup Range(p) = S \cup D
  OBVIOUS
<1> HIDE DEF D
<1>6. IsFiniteSet(D) /\ Cardinality(D) <= n - 1
  BY <1>3, <1>4, FS_Injection
<1>7. /\ Cardinality(S) \in Nat /\ Cardinality(D) \in Nat
      /\ IsFiniteSet(S \cap D) /\ Cardinality(S \cap D) \in Nat
  BY <1>6, FS_CardinalityType, FS_Intersection
<1>8. Cardinality(S \cup D) = Cardinality(S) + Cardinality(D) - Cardinality(S \cap D)
  BY <1>6, FS_Union
<1>9. Cardinality(S \cup D) <= Cardinality(S) + (n - 1)
  BY <1>1, <1>6, <1>7, <1>8
<1> QED
  BY <1>5, <1>9 DEF n

-----------------------------------------------------------------------------
(* The search for a path.                                                  *)

\* A path from S through tables outside it that follows foreign keys, within the
\* limit, and no longer than it must be.
Trail(c, S, hops, p) ==
  /\ p \in Seq(Tables) /\ Len(p) # 0
  /\ \A i \in 1 .. Len(p) - 1 : p[i + 1] \in Linked(c, p[i])
  /\ \A i \in 1 .. Len(p) : p[i] \in S <=> i = 1
  /\ Len(p) - 1 <= hops
  /\ Len(p) > 1 => p[Len(p)] \notin Reach(c, S, Len(p) - 2)

\* The search has seen what is within d foreign keys of S. It has paths of d steps
\* to go on with, then some of one more, and leaves out no table that has
\* neighbours it has not seen.
Searched(c, S, hops, d, seen, open) ==
  /\ Reach(c, S, d) \subseteq seen
  /\ \A i \in 1 .. Len(open) : Len(open[i]) \in {d + 1, d + 2}
  /\ \A i, j \in 1 .. Len(open) : i <= j => Len(open[i]) <= Len(open[j])
  /\ \A t \in seen : \/ \E i \in 1 .. Len(open) : t = open[i][Len(open[i])]
                     \/ Linked(c, t) \subseteq seen
                     \/ d = hops

Trails(c, S, hops, open) ==
  /\ open \in Seq(Seq(Tables))
  /\ \A i \in 1 .. Len(open) : Trail(c, S, hops, open[i])

\* A function on the first numbers is a sequence.
LEMMA ListsAreSequences ==
  ASSUME NEW Q, NEW n \in Nat, NEW seq \in [1 .. n -> Q]
  PROVE  seq \in Seq(Q) /\ Len(seq) = n
OBVIOUS

\* What the search must keep, where it has m paths to go on with.
LEMMA SearchedBy ==
  ASSUME NEW c, NEW S, NEW hops, NEW d \in Nat, NEW seen, NEW open, NEW m, Len(open) = m,
         Reach(c, S, d) \subseteq seen,
         \A i \in 1 .. m : Len(open[i]) = d + 1 \/ Len(open[i]) = d + 2,
         \A i, j \in 1 .. m : i <= j => Len(open[i]) <= Len(open[j]),
         \A t \in seen : \/ \E i \in 1 .. m : t = open[i][Len(open[i])]
                         \/ Linked(c, t) \subseteq seen
                         \/ d = hops
  PROVE  Searched(c, S, hops, d, seen, open)
BY DEF Searched

\* Paths of one table each, those of S, are such.
LEMMA SearchOfOnes ==
  ASSUME NEW c, NEW S \in SUBSET Tables, NEW hops \in Nat, NEW open \in Seq(Seq(Tables)),
         NEW n \in Nat, Len(open) = n,
         \A i \in 1 .. n : Len(open[i]) = 1 /\ open[i][1] \in S,
         \A t \in S : \E i \in 1 .. n : open[i][1] = t
  PROVE  Trails(c, S, hops, open) /\ Searched(c, S, hops, 0, S, open)
<1>1. ASSUME NEW i \in 1 .. n
      PROVE  Trail(c, S, hops, open[i])
  <2> DEFINE p == open[i]
  <2>1. p \in Seq(Tables) /\ Len(p) = 1 /\ p[1] \in S
    OBVIOUS
  <2> HIDE DEF p
  <2>2. 1 .. Len(p) - 1 = {} /\ 1 .. Len(p) = {1} /\ Len(p) - 1 <= hops /\ ~(Len(p) > 1)
    BY <2>1
  <2>3. Trail(c, S, hops, p)
    BY <2>1, <2>2 DEF Trail
  <2> QED
    BY <2>3 DEF p
<1>2. Reach(c, S, 0) \subseteq S
  BY ReachOfNone
<1>3. \A t \in S : \E i \in 1 .. n : t = open[i][Len(open[i])]
  <2> SUFFICES ASSUME NEW t \in S PROVE \E i \in 1 .. n : t = open[i][Len(open[i])]
    OBVIOUS
  <2>1. PICK i \in 1 .. n : open[i][1] = t
    OBVIOUS
  <2>2. Len(open[i]) = 1
    OBVIOUS
  <2>3. open[i][Len(open[i])] = t
    BY <2>1, <2>2, Zenon
  <2> QED
    BY <2>3
<1>4. \A t \in S : \/ \E i \in 1 .. n : t = open[i][Len(open[i])]
                   \/ Linked(c, t) \subseteq S
                   \/ 0 = hops
  BY <1>3, Zenon
<1>5. \A i \in 1 .. n : Len(open[i]) = 0 + 1 \/ Len(open[i]) = 0 + 2
  OBVIOUS
<1>6. \A i, j \in 1 .. n : i <= j => Len(open[i]) <= Len(open[j])
  OBVIOUS
<1>7. Searched(c, S, hops, 0, S, open)
  BY <1>2, <1>4, <1>5, <1>6, SearchedBy
<1> QED
  BY <1>1, <1>7 DEF Trails

\* The search starts with the tables joined.
LEMMA SearchStarts ==
  ASSUME NEW c, NEW S \in SUBSET Tables, NEW hops \in Nat
  PROVE  LET open == [i \in 1 .. Cardinality(S) |-> <<Ascending(S)[i]>>]
         IN  Trails(c, S, hops, open) /\ Searched(c, S, hops, 0, S, open)
<1> DEFINE a == Ascending(S)
           n == Cardinality(S)
           open == [i \in 1 .. n |-> <<a[i]>>]
           Q == Seq(Tables)
<1>1. n \in Nat
  BY NamesAssumption, FS_Subset, FS_CardinalityType
<1>2. a \in [1 .. n -> S] /\ \A t \in S : \E i \in 1 .. n : a[i] = t
  BY AscendingLists DEF Lists
<1> HIDE DEF a, n
<1>3. \A i \in 1 .. n : open[i] = <<a[i]>> /\ a[i] \in S
  BY <1>2
<1>4. \A t \in S : <<t>> \in Q /\ Len(<<t>>) = 1 /\ <<t>>[1] = t
  OBVIOUS
<1>5. open \in [1 .. n -> Q]
  <2> HIDE DEF Q
  <2> QED
    BY <1>3, <1>4
<1> HIDE DEF open
<1>6. \A i \in 1 .. n : Len(open[i]) = 1 /\ open[i][1] = a[i] /\ open[i][1] \in S
  BY <1>3, <1>4
<1>7. open \in Seq(Q) /\ Len(open) = n
  BY <1>1, <1>5, ListsAreSequences, Zenon
<1>8. \A t \in S : \E i \in 1 .. n : open[i][1] = t
  BY <1>2, <1>6
<1>9. Trails(c, S, hops, open) /\ Searched(c, S, hops, 0, S, open)
  BY <1>1, <1>6, <1>7, <1>8, SearchOfOnes
<1> QED
  BY <1>9, Zenon DEF open, a, n

\* When the paths of d steps are used up, what is within one more has been seen.
LEMMA SearchGoesOn ==
  ASSUME NEW c, NEW S, NEW hops \in Nat, NEW d \in 0 .. hops, NEW seen, NEW open,
         Trails(c, S, hops, open), Searched(c, S, hops, d, seen, open),
         Len(open) # 0, Len(open[1]) = d + 2
  PROVE  d + 1 \in 0 .. hops /\ Searched(c, S, hops, d + 1, seen, open)
<1>1. Len(open) \in Nat /\ 1 \in 1 .. Len(open) /\ d \in Nat
  BY DEF Trails
<1>2. ASSUME NEW i \in 1 .. Len(open)
      PROVE  Len(open[i]) = d + 2 /\ open[i][d + 2] \notin Reach(c, S, d)
             /\ d + 1 <= hops
  <2>1. Len(open[1]) <= Len(open[i]) /\ Len(open[i]) \in {d + 1, d + 2}
    BY <1>1 DEF Searched
  <2>2. Len(open[i]) = d + 2
    BY <1>1, <2>1
  <2>3. Trail(c, S, hops, open[i])
    BY DEF Trails
  <2>4. (d + 2) - 1 <= hops /\ (d + 2 > 1 => open[i][d + 2] \notin Reach(c, S, (d + 2) - 2))
    BY <2>2, <2>3, Zenon DEF Trail
  <2>5. (d + 2) - 1 = d + 1 /\ (d + 2) - 2 = d /\ d + 2 > 1
    BY <1>1
  <2> QED
    BY <2>2, <2>4, <2>5
<1>3. d + 1 <= hops /\ d # hops
  BY <1>1, <1>2
<1>4. Reach(c, S, d + 1) \subseteq seen
  <2>1. ASSUME NEW t \in Reach(c, S, d)
        PROVE  Linked(c, t) \subseteq seen
    <3>1. t \in seen
      BY DEF Searched
    <3>2. ~(\E i \in 1 .. Len(open) : t = open[i][Len(open[i])])
      BY <1>2
    <3> QED
      BY <1>3, <3>1, <3>2 DEF Searched
  <2>2. Reach(c, S, d) \subseteq seen
    BY DEF Searched
  <2> QED
    BY <1>1, <2>1, <2>2, ReachOfNext DEF Wider
<1>5. \A i \in 1 .. Len(open) : Len(open[i]) \in {(d + 1) + 1, (d + 1) + 2}
  BY <1>1, <1>2
<1>6. \A t \in seen : \/ \E i \in 1 .. Len(open) : t = open[i][Len(open[i])]
                      \/ Linked(c, t) \subseteq seen
  BY <1>3 DEF Searched
<1>7. \A i, j \in 1 .. Len(open) : i <= j => Len(open[i]) <= Len(open[j])
  BY DEF Searched
<1>8. d + 1 \in 0 .. hops
  BY <1>1, <1>3
<1> QED
  BY <1>4, <1>5, <1>6, <1>7, <1>8 DEF Searched

\* A trail goes on to a table that was not as near.
LEMMA TrailGoesOn ==
  ASSUME NEW c, NEW S, NEW hops \in Nat, NEW p, Trail(c, S, hops, p),
         NEW d \in Nat, Len(p) = d + 1, d < hops,
         NEW x \in Linked(c, p[Len(p)]), x \notin S, x \notin Reach(c, S, d)
  PROVE  Trail(c, S, hops, Append(p, x))
<1> DEFINE q == Append(p, x)
           n == Len(p)
<1>1. p \in Seq(Tables) /\ x \in Tables /\ n \in Nat
  BY DEF Trail, Linked
<1>2. q \in Seq(Tables) /\ Len(q) = n + 1 /\ q[n + 1] = x /\ \A i \in 1 .. n : q[i] = p[i]
  BY <1>1
<1> HIDE DEF q, n
<1>3. n = d + 1 /\ n + 1 = d + 2 /\ (n + 1) - 2 = d /\ (n + 1) - 1 = n
  BY DEF n
<1>4. /\ \A i \in 1 .. n - 1 : p[i + 1] \in Linked(c, p[i])
      /\ \A i \in 1 .. n : p[i] \in S <=> i = 1
  BY DEF Trail, n
<1>5. \A i \in 1 .. n : q[i + 1] \in Linked(c, q[i])
  <2> SUFFICES ASSUME NEW i \in 1 .. n PROVE q[i + 1] \in Linked(c, q[i])
    OBVIOUS
  <2>1. CASE i = n
    BY <1>1, <1>2, <2>1 DEF n
  <2>2. CASE i \in 1 .. n - 1
    <3>1. i + 1 \in 1 .. n
      BY <1>1, <2>2
    <3>2. q[i + 1] = p[i + 1] /\ q[i] = p[i]
      BY <1>2, <3>1
    <3> QED
      BY <1>4, <2>2, <3>2
  <2> QED
    BY <1>1, <2>1, <2>2
<1>6. \A i \in 1 .. n + 1 : q[i] \in S <=> i = 1
  <2> SUFFICES ASSUME NEW i \in 1 .. n + 1 PROVE q[i] \in S <=> i = 1
    OBVIOUS
  <2>1. CASE i = n + 1
    BY <1>2, <1>3, <2>1
  <2>2. CASE i \in 1 .. n
    BY <1>2, <1>4, <2>2
  <2> QED
    BY <1>1, <2>1, <2>2
<1>7. n <= hops
  BY <1>3
<1>8. Trail(c, S, hops, q)
  BY <1>1, <1>2, <1>3, <1>5, <1>6, <1>7 DEF Trail
<1> QED
  BY <1>8 DEF q

\* What a round finds from the head of open, which has d steps.
IsFound(c, hops, d, seen, open, found) ==
  found = IF d < hops THEN Linked(c, open[1][d + 1]) \ seen ELSE {}

\* next is what is left after the head of open, then the m paths that go on from it,
\* to the tables of a.
IsContinued(open, a, m, next) ==
  /\ next \in Seq(Seq(Tables))
  /\ Len(next) = (Len(open) - 1) + m
  /\ \A i \in 1 .. Len(open) - 1 : next[i] = open[i + 1]
  /\ \A i \in 1 .. m : next[(Len(open) - 1) + i] = Append(open[1], a[i])

\* One round of the search: the head is replaced by the paths that go on from it.
LEMMA SearchRoundBy ==
  ASSUME NEW c, NEW S \in SUBSET Tables, NEW hops \in Nat, NEW d \in 0 .. hops,
         NEW seen \in SUBSET Tables, S \subseteq seen,
         NEW open, Trails(c, S, hops, open), Searched(c, S, hops, d, seen, open),
         Len(open) # 0, Len(open[1]) = d + 1,
         NEW found, IsFound(c, hops, d, seen, open, found),
         NEW m \in Nat, NEW a \in [1 .. m -> found], \A t \in found : \E i \in 1 .. m : a[i] = t,
         NEW next, IsContinued(open, a, m, next)
  PROVE  Trails(c, S, hops, next) /\ Searched(c, S, hops, d, seen \cup found, next)
<1> DEFINE k == Len(open) - 1
<1>1. d \in Nat /\ Len(open) = k + 1 /\ 1 \in 1 .. k + 1 /\ open \in Seq(Seq(Tables))
      /\ k \in Nat
  BY DEF Trails
<1>2. /\ next \in Seq(Seq(Tables)) /\ Len(next) = k + m
      /\ \A i \in 1 .. k : next[i] = open[i + 1]
      /\ \A i \in 1 .. m : next[k + i] = Append(open[1], a[i])
  BY DEF IsContinued
<1> HIDE DEF k
<1>3. found = IF d < hops THEN Linked(c, open[1][d + 1]) \ seen ELSE {}
  BY DEF IsFound
<1>4. ASSUME NEW i \in 1 .. m
      PROVE  Trail(c, S, hops, next[k + i]) /\ Len(next[k + i]) = d + 2
             /\ next[k + i][d + 2] = a[i]
  <2>1. a[i] \in found /\ d < hops
    BY <1>2, <1>3
  <2>2. a[i] \in Linked(c, open[1][Len(open[1])]) /\ a[i] \notin seen
    BY <1>2, <1>3, <2>1, Zenon
  <2>3. a[i] \notin S /\ a[i] \notin Reach(c, S, d)
    BY <2>2 DEF Searched
  <2>4. Trail(c, S, hops, open[1])
    BY <1>1 DEF Trails
  <2> DEFINE p == open[1]
             x == a[i]
  <2>5. Trail(c, S, hops, p) /\ Len(p) = d + 1 /\ x \in Linked(c, p[Len(p)])
        /\ x \notin S /\ x \notin Reach(c, S, d)
    BY <2>2, <2>3, <2>4
  <2>6. next[k + i] = Append(p, x)
    BY <1>2
  <2> HIDE DEF p, x
  <2>7. Trail(c, S, hops, Append(p, x)) /\ Len(Append(p, x)) = d + 2 /\ Append(p, x)[d + 2] = x
    <3>1. d \in Nat /\ d < hops
      BY <1>1, <2>1
    <3>2. Trail(c, S, hops, Append(p, x))
      BY <2>5, <3>1, TrailGoesOn
    <3>3. p \in Seq(Tables) /\ x \in Tables
      BY <2>5 DEF Trail, Linked
    <3>4. Len(Append(p, x)) = Len(p) + 1 /\ Append(p, x)[Len(p) + 1] = x
      BY <3>3
    <3>5. Len(p) + 1 = d + 2
      BY <2>5, <3>1
    <3> QED
      BY <3>2, <3>4, <3>5
  <2> QED
    BY <2>6, <2>7 DEF x
<1>5. ASSUME NEW i \in 1 .. k
      PROVE  Trail(c, S, hops, next[i]) /\ Len(next[i]) \in {d + 1, d + 2}
             /\ i + 1 \in 1 .. Len(open) /\ next[i] = open[i + 1]
  <2>1. i + 1 \in 1 .. Len(open)
    BY <1>1
  <2> QED
    BY <1>2, <2>1 DEF Trails, Searched
<1>6. \A i \in 1 .. k + m : i \in 1 .. k \/ (i - k \in 1 .. m /\ k + (i - k) = i)
  BY <1>1, <1>2
<1>7. Trails(c, S, hops, next)
  <2>1. \A i \in 1 .. k + m : Trail(c, S, hops, next[i])
    <3> SUFFICES ASSUME NEW i \in 1 .. k + m PROVE Trail(c, S, hops, next[i])
      OBVIOUS
    <3>1. CASE i \in 1 .. k
      BY <1>5, <3>1
    <3>2. CASE i - k \in 1 .. m /\ k + (i - k) = i
      BY <1>4, <3>2
    <3> QED
      BY <1>6, <3>1, <3>2
  <2> QED
    BY <1>2, <2>1 DEF Trails
<1>8. \A i \in 1 .. k + m : Len(next[i]) = d + 1 \/ Len(next[i]) = d + 2
  <2> SUFFICES ASSUME NEW i \in 1 .. k + m PROVE Len(next[i]) = d + 1 \/ Len(next[i]) = d + 2
    OBVIOUS
  <2>1. CASE i \in 1 .. k
    BY <1>5, <2>1
  <2>2. CASE i - k \in 1 .. m /\ k + (i - k) = i
    BY <1>4, <2>2
  <2> QED
    BY <1>6, <2>1, <2>2
<1>9. \A i, j \in 1 .. k + m : i <= j => Len(next[i]) <= Len(next[j])
  <2> SUFFICES ASSUME NEW i \in 1 .. k + m, NEW j \in 1 .. k + m, i <= j
               PROVE  Len(next[i]) <= Len(next[j])
    OBVIOUS
  <2>1. CASE j \in 1 .. k
    <3>1. i \in 1 .. k /\ i + 1 <= j + 1
      BY <1>1, <1>2, <2>1
    <3>2. next[i] = open[i + 1] /\ next[j] = open[j + 1]
          /\ i + 1 \in 1 .. Len(open) /\ j + 1 \in 1 .. Len(open)
      BY <1>5, <2>1, <3>1
    <3>3. Len(open[i + 1]) <= Len(open[j + 1])
      BY <3>1, <3>2 DEF Searched
    <3> QED
      BY <3>2, <3>3
  <2>2. CASE j - k \in 1 .. m /\ k + (j - k) = j
    <3>1. Len(next[j]) = d + 2
      BY <1>4, <2>2
    <3>2. Len(next[i]) = d + 1 \/ Len(next[i]) = d + 2
      BY <1>8
    <3> QED
      BY <1>1, <3>1, <3>2
  <2> QED
    BY <1>6, <2>1, <2>2
<1>10. ASSUME NEW t \in seen \cup found
      PROVE  \/ \E i \in 1 .. k + m : t = next[i][Len(next[i])]
             \/ Linked(c, t) \subseteq seen \cup found
             \/ d = hops
  <2>1. CASE t \in found
    <3>1. PICK i \in 1 .. m : a[i] = t
      BY <2>1
    <3>2. Len(next[k + i]) = d + 2 /\ next[k + i][d + 2] = t
      BY <1>4, <3>1
    <3>3. next[k + i][Len(next[k + i])] = t
      BY <3>2, Zenon
    <3>4. k + i \in 1 .. k + m
      BY <1>1, <1>2
    <3> QED
      BY <3>3, <3>4
  <2>2. ASSUME NEW i \in 1 .. k + 1, t = open[i][Len(open[i])]
        PROVE  \/ \E j \in 1 .. k + m : t = next[j][Len(next[j])]
               \/ Linked(c, t) \subseteq seen \cup found
               \/ d = hops
    <3>1. CASE i = 1
      <4>1. t = open[1][d + 1]
        BY <2>2, <3>1
      <4>2. d < hops => found = Linked(c, t) \ seen
        BY <1>2, <1>3, <4>1, Zenon
      <4>3. d < hops \/ d = hops
        BY <1>1
      <4>4. Linked(c, t) \ seen \subseteq found => Linked(c, t) \subseteq seen \cup found
        OBVIOUS
      <4> QED
        BY <4>2, <4>3, <4>4, Zenon
    <3>2. CASE i # 1
      <4>1. i - 1 \in 1 .. k /\ (i - 1) + 1 = i /\ i - 1 \in 1 .. k + m
        BY <1>1, <1>2, <1>1, <3>2
      <4>2. next[i - 1] = open[i]
        BY <1>2, <1>3, <4>1
      <4> QED
        BY <2>2, <4>1, <4>2
    <3> QED
      BY <3>1, <3>2
  <2>3. CASE t \in seen
    <3>1. \/ \E i \in 1 .. k + 1 : t = open[i][Len(open[i])]
          \/ Linked(c, t) \subseteq seen
          \/ d = hops
      BY <1>1, <2>3 DEF Searched
    <3> QED
      BY <2>2, <3>1, Zenon
  <2> QED
    BY <2>1, <2>3
<1>11. Reach(c, S, d) \subseteq seen \cup found
  BY DEF Searched
<1> DEFINE V == seen \cup found
           l == k + m
<1>12. /\ \A i \in 1 .. l : Len(next[i]) = d + 1 \/ Len(next[i]) = d + 2
       /\ \A i, j \in 1 .. l : i <= j => Len(next[i]) <= Len(next[j])
       /\ Len(next) = l /\ Reach(c, S, d) \subseteq V
  BY <1>2, <1>8, <1>9, <1>11
<1>13. \A t \in V : \/ \E i \in 1 .. l : t = next[i][Len(next[i])]
                    \/ Linked(c, t) \subseteq V
                    \/ d = hops
  BY <1>10
<1> HIDE DEF V, l
<1>14. Searched(c, S, hops, d, V, next)
  BY <1>1, <1>12, <1>13, SearchedBy
<1> QED
  BY <1>7, <1>14 DEF V

\* seq is s, then f.
IsAfter(Q, k, m, s, f, seq) ==
  /\ seq \in Seq(Q) /\ Len(seq) = k + m
  /\ \A i \in 1 .. k : seq[i] = s[i]
  /\ \A i \in 1 .. m : seq[k + i] = f[i]

\* One sequence after another is such.
LEMMA OneAfterAnother ==
  ASSUME NEW Q, NEW k \in Nat, NEW m \in Nat, NEW s \in Seq(Q), Len(s) = k,
         NEW f \in [1 .. m -> Q]
  PROVE  IsAfter(Q, k, m, s, f, s \o f)
<1>1. f \in Seq(Q) /\ Len(f) = m
  OBVIOUS
<1> QED
  BY <1>1 DEF IsAfter

\* What is left after the head.
LEMMA AfterTheHead ==
  ASSUME NEW Q, NEW s \in Seq(Q), s # <<>>
  PROVE  /\ Len(s) - 1 \in Nat /\ Tail(s) \in Seq(Q) /\ Len(Tail(s)) = Len(s) - 1
         /\ \A i \in 1 .. Len(s) - 1 : Tail(s)[i] = s[i + 1]
         /\ Head(s) \in Q /\ Head(s) = s[1]
OBVIOUS

\* What is left after the head of open, then the paths that go on from it.
Continued(open, a, m) == Tail(open) \o [i \in 1 .. m |-> Append(open[1], a[i])]

\* That is what the search goes on with.
LEMMA ContinuedIs ==
  ASSUME NEW open \in Seq(Seq(Tables)), open # <<>>,
         NEW found \in SUBSET Tables, NEW m \in Nat, NEW a \in [1 .. m -> found]
  PROVE  IsContinued(open, a, m, Continued(open, a, m))
<1> DEFINE Q == Seq(Tables)
           k == Len(open) - 1
           tail == Tail(open)
           f == [i \in 1 .. m |-> Append(open[1], a[i])]
           cat == tail \o f
           next == Continued(open, a, m)
<1>1. next = cat
  BY DEF Continued
<1>2. open[1] \in Seq(Tables) /\ \A i \in 1 .. m : a[i] \in Tables
  OBVIOUS
<1>3. \A i \in 1 .. m : Append(open[1], a[i]) \in Q
  BY <1>2
<1> HIDE DEF Q
<1>4. f \in [1 .. m -> Q] /\ \A i \in 1 .. m : f[i] = Append(open[1], a[i])
  BY <1>3
<1> HIDE DEF f
<1>5. open \in Seq(Q)
  BY DEF Q
<1>6. /\ k \in Nat /\ tail \in Seq(Q) /\ Len(tail) = k
      /\ \A i \in 1 .. k : tail[i] = open[i + 1]
  BY <1>5, AfterTheHead
<1> HIDE DEF k, tail
<1>7. /\ cat \in Seq(Q) /\ Len(cat) = k + m
      /\ \A i \in 1 .. k : cat[i] = tail[i]
      /\ \A i \in 1 .. m : cat[k + i] = f[i]
  <2>1. cat = tail \o f
    OBVIOUS
  <2>2. m \in Nat
    OBVIOUS
  <2> HIDE DEF cat
  <2>3. IsAfter(Q, k, m, tail, f, cat)
    BY <1>4, <1>6, <2>1, <2>2, OneAfterAnother
  <2> QED
    BY <2>3 DEF IsAfter
<1> HIDE DEF next, cat
<1>8. /\ next \in Seq(Q) /\ Len(next) = k + m
      /\ \A i \in 1 .. k : next[i] = open[i + 1]
      /\ \A i \in 1 .. m : next[k + i] = Append(open[1], a[i])
  <2>1. /\ cat \in Seq(Q) /\ Len(cat) = k + m
        /\ \A i \in 1 .. k : cat[i] = open[i + 1]
    BY <1>6, <1>7, Zenon
  <2>2. \A i \in 1 .. m : cat[k + i] = Append(open[1], a[i])
    BY <1>4, <1>7, Zenon
  <2> QED
    BY <1>1, <2>1, <2>2
<1>9. IsContinued(open, a, m, next)
  BY <1>6, <1>8 DEF k, Q, IsContinued
<1> QED
  BY <1>9 DEF next

\* So the search takes its rounds.
LEMMA SearchRound ==
  ASSUME NEW c, NEW S \in SUBSET Tables, NEW hops \in Nat, NEW d \in 0 .. hops,
         NEW seen \in SUBSET Tables, S \subseteq seen,
         NEW open, Trails(c, S, hops, open), Searched(c, S, hops, d, seen, open),
         Len(open) # 0, Len(open[1]) = d + 1,
         NEW found, IsFound(c, hops, d, seen, open, found)
  PROVE  LET next == Continued(open, Ascending(found), Cardinality(found))
         IN  Trails(c, S, hops, next) /\ Searched(c, S, hops, d, seen \cup found, next)
<1> DEFINE a == Ascending(found)
           m == Cardinality(found)
           next == Continued(open, a, m)
<1>1. found \in SUBSET Tables
  BY DEF Linked, IsFound
<1>2. m \in Nat
  BY <1>1, NamesAssumption, FS_Subset, FS_CardinalityType
<1>3. a \in [1 .. m -> found] /\ \A t \in found : \E i \in 1 .. m : a[i] = t
  BY <1>1, AscendingLists DEF Lists
<1> HIDE DEF a, m
<1>4. open \in Seq(Seq(Tables)) /\ open # <<>>
  BY DEF Trails
<1>5. IsContinued(open, a, m, next)
  BY <1>1, <1>2, <1>3, <1>4, ContinuedIs
<1> HIDE DEF next
<1>6. Trails(c, S, hops, next) /\ Searched(c, S, hops, d, seen \cup found, next)
  BY <1>2, <1>3, <1>5, SearchRoundBy
<1> QED
  BY <1>6 DEF next, a, m

\* The head of the paths has d steps, for the d that has been searched.
LEMMA SearchedToHead ==
  ASSUME NEW c, NEW S, NEW hops \in Nat, NEW seen, NEW open,
         Trails(c, S, hops, open), Len(open) # 0,
         \E d \in 0 .. hops : Searched(c, S, hops, d, seen, open)
  PROVE  \E d \in 0 .. hops : Searched(c, S, hops, d, seen, open) /\ Len(open[1]) = d + 1
<1>1. PICK d \in 0 .. hops : Searched(c, S, hops, d, seen, open)
  OBVIOUS
<1>2. Len(open) \in Nat /\ 1 \in 1 .. Len(open)
  BY DEF Trails
<1>3. Len(open[1]) = d + 1 \/ Len(open[1]) = d + 2
  BY <1>1, <1>2 DEF Searched
<1>4. CASE Len(open[1]) = d + 1
  BY <1>1, <1>4
<1>5. CASE Len(open[1]) = d + 2
  <2> DEFINE e == d + 1
  <2>1. e \in 0 .. hops /\ Searched(c, S, hops, e, seen, open)
    BY <1>1, <1>5, SearchGoesOn
  <2>2. Len(open[1]) = e + 1
    BY <1>5
  <2> HIDE DEF e
  <2> QED
    BY <2>1, <2>2
<1> QED
  BY <1>3, <1>4, <1>5

\* When no path is left to go on with, all that is within the limit has been seen.
LEMMA SearchedAll ==
  ASSUME NEW c, NEW S, NEW hops \in Nat, NEW seen, S \subseteq seen, NEW open, open = <<>>,
         \E d \in 0 .. hops : Searched(c, S, hops, d, seen, open)
  PROVE  Reach(c, S, hops) \subseteq seen
<1>1. PICK d \in 0 .. hops : Searched(c, S, hops, d, seen, open)
  OBVIOUS
<1>2. 1 .. Len(open) = {}
  OBVIOUS
<1>3. CASE d = hops
  BY <1>1, <1>3 DEF Searched
<1>4. CASE d # hops
  <2>1. \A t \in seen : Linked(c, t) \subseteq seen
    BY <1>1, <1>2, <1>4 DEF Searched
  <2> QED
    BY <2>1, ReachStays
<1> QED
  BY <1>3, <1>4

-----------------------------------------------------------------------------
(* What has been joined.                                                   *)

\* Distinct tables of the catalog c, no more than allowed.
IsSelection(c, lim, s) ==
  /\ s \in Seq(Tables \cap DOMAIN c.tables) /\ Len(s) <= lim.tables
  /\ \A i, j \in 1 .. Len(s) : i # j => s[i] # s[j]

\* What the first n paths join.
JoinedUpTo(s, ps, n) == {s[1]} \cup UNION {Range(ps[j]) : j \in 1 .. n}

\* What had been joined when the turn of the i-th table came.
JoinedFor(s, ps, i) ==
  LET before == {k \in DOMAIN ps : \E j \in 1 .. i - 1 : s[j] = Last(ps[k])}
  IN  {s[1]} \cup UNION {Range(ps[k]) : k \in before}

\* t cannot be joined to S.
IsTooFar(c, lim, S, t) ==
  \A k \in 1 .. lim.hops : t \in Reach(c, S, k) => Cardinality(S) + k > lim.tables

\* Before the turn of the table at position n, the paths ps have joined the tables
\* of inc.
IsJoined(c, lim, s, n, ps, inc, br) ==
  /\ n \in 2 .. Len(s) + 1
  /\ ps \in Seq(Seq(Tables))
  /\ inc \in SUBSET Tables /\ Cardinality(inc) <= lim.tables
  /\ inc = JoinedUpTo(s, ps, Len(ps))
  /\ \A k \in 1 .. Len(ps) : /\ Trail(c, JoinedUpTo(s, ps, k - 1), lim.hops, ps[k])
                              /\ Len(ps[k]) > 1
  /\ \A k \in 1 .. Len(ps) : \E j \in 2 .. n - 1 : ps[k][Len(ps[k])] = s[j]
  /\ br \subseteq inc \ Range(s)
  /\ \A i \in 2 .. n - 1 : s[i] \in inc \/ IsTooFar(c, lim, JoinedFor(s, ps, i), s[i])

\* The first table is joined from the start.
LEMMA FirstIsJoined ==
  ASSUME NEW c, NEW lim, NEW s, IsSelection(c, lim, s), Len(s) > 1, lim.tables \in Nat \ {0}
  PROVE  IsJoined(c, lim, s, 2, <<>>, {s[1]}, {})
<1>1. s[1] \in Tables /\ 2 \in 2 .. Len(s) + 1
  BY DEF IsSelection
<1>2. Cardinality({s[1]}) = 1
  BY FS_Singleton
<1>3. /\ <<>> \in Seq(Seq(Tables)) /\ Len(<<>>) = 0 /\ 1 .. 0 = {}
      /\ {s[1]} \in SUBSET Tables /\ 2 .. 2 - 1 = {} /\ 1 <= lim.tables
  BY <1>1
<1>4. JoinedUpTo(s, <<>>, 0) = {s[1]}
  BY <1>3 DEF JoinedUpTo
<1> QED
  BY <1>1, <1>2, <1>3, <1>4 DEF IsJoined

\* When the turn of a table comes, every path has been added before.
LEMMA JoinedForTheNext ==
  ASSUME NEW c, NEW lim, NEW s, NEW n, NEW ps, NEW inc, NEW br,
         IsJoined(c, lim, s, n, ps, inc, br), Len(s) \in Nat
  PROVE  JoinedFor(s, ps, n) = inc
<1>1. n \in Nat /\ n >= 2 /\ ps \in Seq(Seq(Tables))
  BY DEF IsJoined
<1>2. DOMAIN ps = 1 .. Len(ps)
  BY <1>1
<1>3. ASSUME NEW k \in DOMAIN ps
      PROVE  \E j \in 1 .. n - 1 : s[j] = Last(ps[k])
  <2>1. PICK j \in 2 .. n - 1 : ps[k][Len(ps[k])] = s[j]
    BY <1>2 DEF IsJoined
  <2>2. j \in 1 .. n - 1
    BY <1>1
  <2> QED
    BY <2>1, <2>2 DEF Last
<1>4. {k \in DOMAIN ps : \E j \in 1 .. n - 1 : s[j] = Last(ps[k])} = 1 .. Len(ps)
  BY <1>2, <1>3
<1>5. inc = JoinedUpTo(s, ps, Len(ps))
  BY DEF IsJoined
<1> QED
  BY <1>4, <1>5, Zenon DEF JoinedFor, JoinedUpTo

\* The turn of a table that is joined or too far passes.
LEMMA TurnPasses ==
  ASSUME NEW c, NEW lim, NEW s, NEW n, NEW ps, NEW inc, NEW br,
         IsJoined(c, lim, s, n, ps, inc, br), Len(s) \in Nat, n <= Len(s),
         s[n] \in inc \/ IsTooFar(c, lim, inc, s[n])
  PROVE  IsJoined(c, lim, s, n + 1, ps, inc, br)
<1>1. n \in Nat /\ n >= 2 /\ n + 1 \in 2 .. Len(s) + 1
      /\ \A i \in 2 .. (n + 1) - 1 : i \in 2 .. n - 1 \/ i = n
  BY DEF IsJoined
<1>2. \A j \in 2 .. n - 1 : j \in 2 .. (n + 1) - 1
  BY <1>1
<1>3. JoinedFor(s, ps, n) = inc
  BY JoinedForTheNext
<1>4. ASSUME NEW i \in 2 .. (n + 1) - 1
      PROVE  s[i] \in inc \/ IsTooFar(c, lim, JoinedFor(s, ps, i), s[i])
  <2>1. CASE i \in 2 .. n - 1
    BY <2>1, Zenon DEF IsJoined
  <2>2. CASE i = n
    BY <2>2, <1>3, Zenon
  <2> QED
    BY <1>1, <2>1, <2>2
<1>5. \A k \in 1 .. Len(ps) : \E j \in 2 .. (n + 1) - 1 : ps[k][Len(ps[k])] = s[j]
  <2>1. \A k \in 1 .. Len(ps) : \E j \in 2 .. n - 1 : ps[k][Len(ps[k])] = s[j]
    BY Zenon DEF IsJoined
  <2> QED
    BY <1>2, <2>1, Zenon
<1> QED
  BY <1>1, <1>4, <1>5, Zenon DEF IsJoined

\* A path more adds nothing to what had been joined before it.
LEMMA EarlierPathsStay ==
  ASSUME NEW s, NEW ps \in Seq(Seq(Tables)), NEW p \in Seq(Tables), NEW l \in 0 .. Len(ps)
  PROVE  JoinedUpTo(s, Append(ps, p), l) = JoinedUpTo(s, ps, l)
<1> DEFINE qs == Append(ps, p)
<1>1. \A k \in 1 .. l : qs[k] = ps[k]
  OBVIOUS
<1> HIDE DEF qs
<1>2. {Range(qs[j]) : j \in 1 .. l} = {Range(ps[j]) : j \in 1 .. l}
  BY <1>1
<1>3. JoinedUpTo(s, qs, l) = JoinedUpTo(s, ps, l)
  BY <1>2 DEF JoinedUpTo
<1> QED
  BY <1>3 DEF qs

\* It adds its tables to the rest.
LEMMA LastPathJoins ==
  ASSUME NEW s, NEW ps \in Seq(Seq(Tables)), NEW p \in Seq(Tables)
  PROVE  JoinedUpTo(s, Append(ps, p), Len(ps) + 1) = JoinedUpTo(s, ps, Len(ps)) \cup Range(p)
<1> DEFINE qs == Append(ps, p)
           m == Len(ps)
<1>1. m \in Nat /\ qs[m + 1] = p /\ \A k \in 1 .. m : qs[k] = ps[k]
  OBVIOUS
<1> HIDE DEF qs, m
<1>2. 1 .. m + 1 = (1 .. m) \cup {m + 1}
  BY <1>1
<1> DEFINE A == {Range(ps[j]) : j \in 1 .. m}
           B == {Range(qs[j]) : j \in 1 .. m + 1}
<1>3. B = A \cup {Range(p)}
  <2>1. \A k \in 1 .. m : Range(qs[k]) = Range(ps[k])
    BY <1>1
  <2>2. Range(qs[m + 1]) = Range(p)
    BY <1>1
  <2> QED
    BY <1>2, <2>1, <2>2
<1>4. JoinedUpTo(s, qs, m + 1) = JoinedUpTo(s, ps, m) \cup Range(p)
  <2>1. JoinedUpTo(s, qs, m + 1) = {s[1]} \cup UNION B
    BY Zenon DEF JoinedUpTo
  <2>2. JoinedUpTo(s, ps, m) = {s[1]} \cup UNION A
    BY Zenon DEF JoinedUpTo
  <2> HIDE DEF A, B
  <2>3. UNION B = (UNION A) \cup Range(p)
    BY <1>3
  <2> QED
    BY <2>1, <2>2, <2>3
<1> QED
  BY <1>4 DEF qs, m

\* A path to the table at position n is not among those found for the tables
\* before it.
LEMMA EarlierTurnsStay ==
  ASSUME NEW s, NEW n \in Nat, n >= 1, \A j \in 1 .. n - 1 : s[j] # s[n],
         NEW ps \in Seq(Seq(Tables)), NEW p \in Seq(Tables), p[Len(p)] = s[n],
         NEW i \in 1 .. n
  PROVE  JoinedFor(s, Append(ps, p), i) = JoinedFor(s, ps, i)
<1> DEFINE qs == Append(ps, p)
           m == Len(ps)
           Before(q) == {k \in DOMAIN q : \E j \in 1 .. i - 1 : s[j] = Last(q[k])}
<1>1. m \in Nat /\ qs[m + 1] = p /\ (\A k \in 1 .. m : qs[k] = ps[k])
      /\ DOMAIN qs = (1 .. m) \cup {m + 1} /\ DOMAIN ps = 1 .. m
  OBVIOUS
<1> HIDE DEF qs, m
<1>2. ~(\E j \in 1 .. i - 1 : s[j] = Last(qs[m + 1]))
  <2>1. Last(qs[m + 1]) = s[n]
    BY <1>1 DEF Last
  <2>2. \A j \in 1 .. i - 1 : j \in 1 .. n - 1
    OBVIOUS
  <2> QED
    BY <2>1, <2>2
<1>3. Before(qs) = Before(ps)
  BY <1>1, <1>2
<1> HIDE DEF Before
<1>4. Before(ps) \subseteq 1 .. m
  BY <1>1 DEF Before
<1>5. {Range(qs[k]) : k \in Before(qs)} = {Range(ps[k]) : k \in Before(ps)}
  BY <1>1, <1>3, <1>4
<1>6. /\ JoinedFor(s, qs, i) = {s[1]} \cup UNION {Range(qs[k]) : k \in Before(qs)}
      /\ JoinedFor(s, ps, i) = {s[1]} \cup UNION {Range(ps[k]) : k \in Before(ps)}
  BY DEF JoinedFor, Before
<1>7. JoinedFor(s, qs, i) = JoinedFor(s, ps, i)
  BY <1>5, <1>6
<1> QED
  BY <1>7 DEF qs

\* A path that is kept joins the table whose turn it is.
LEMMA PathJoins ==
  ASSUME NEW c, NEW lim, lim.tables \in Nat, NEW s, IsSelection(c, lim, s),
         NEW n, NEW ps, NEW inc, NEW br, IsJoined(c, lim, s, n, ps, inc, br), n <= Len(s),
         NEW p, Trail(c, inc, lim.hops, p), Len(p) > 1, p[Len(p)] = s[n],
         ~(Cardinality(inc \cup Range(p)) > lim.tables)
  PROVE  IsJoined(c, lim, s, n + 1, Append(ps, p), inc \cup Range(p),
                  br \cup (Range(p) \ Range(s)))
<1> DEFINE qs == Append(ps, p)
           m == Len(ps)
           all == inc \cup Range(p)
<1>1. /\ Len(s) \in Nat /\ n \in Nat /\ n >= 2 /\ n + 1 \in 2 .. Len(s) + 1
      /\ (n + 1) - 1 = n
      /\ ps \in Seq(Seq(Tables)) /\ p \in Seq(Tables) /\ Len(p) \in 1 .. Len(p)
      /\ inc \in SUBSET Tables /\ inc = JoinedUpTo(s, ps, m)
  BY DEF IsJoined, IsSelection, Trail
<1>2. /\ m \in Nat /\ qs \in Seq(Seq(Tables)) /\ Len(qs) = m + 1 /\ qs[m + 1] = p
      /\ \A k \in 1 .. m : qs[k] = ps[k]
  BY <1>1
<1>3. all \in SUBSET Tables /\ Cardinality(all) <= lim.tables
  <2>1. Range(p) \subseteq Tables
    BY <1>1 DEF Range
  <2>2. all \in SUBSET Tables
    BY <1>1, <2>1
  <2>3. IsFiniteSet(all) /\ Cardinality(all) \in Nat
    BY <2>2, NamesAssumption, FS_Subset, FS_CardinalityType
  <2> QED
    BY <2>2, <2>3
<1>4. all = JoinedUpTo(s, qs, m + 1)
  BY <1>1, LastPathJoins
<1>5. \A l \in 0 .. m : JoinedUpTo(s, qs, l) = JoinedUpTo(s, ps, l)
  BY <1>1, EarlierPathsStay
<1>6. \A j \in 1 .. n - 1 : s[j] # s[n]
  <2>1. \A j \in 1 .. n - 1 : j \in 1 .. Len(s) /\ n \in 1 .. Len(s) /\ j # n
    BY <1>1
  <2> QED
    BY <2>1, Zenon DEF IsSelection
<1>7. \A i \in 1 .. n : JoinedFor(s, qs, i) = JoinedFor(s, ps, i)
  <2>1. n \in Nat /\ n >= 1 /\ ps \in Seq(Seq(Tables)) /\ p \in Seq(Tables) /\ p[Len(p)] = s[n]
    BY <1>1
  <2> QED
    BY <1>6, <2>1, EarlierTurnsStay, Zenon
<1>8. s[n] \in Range(p)
  BY <1>1 DEF Range
<1> HIDE DEF qs, m, all
<1>9. \A k \in 1 .. m + 1 : Trail(c, JoinedUpTo(s, qs, k - 1), lim.hops, qs[k]) /\ Len(qs[k]) > 1
  <2> SUFFICES ASSUME NEW k \in 1 .. m + 1
               PROVE  Trail(c, JoinedUpTo(s, qs, k - 1), lim.hops, qs[k]) /\ Len(qs[k]) > 1
    OBVIOUS
  <2>1. CASE k \in 1 .. m
    <3>1. k - 1 \in 0 .. m
      BY <1>2, <2>1
    <3>2. JoinedUpTo(s, qs, k - 1) = JoinedUpTo(s, ps, k - 1) /\ qs[k] = ps[k]
      BY <1>2, <1>5, <2>1, <3>1
    <3>3. Trail(c, JoinedUpTo(s, ps, k - 1), lim.hops, ps[k]) /\ Len(ps[k]) > 1
      BY <2>1, Zenon DEF IsJoined, m
    <3> QED
      BY <3>2, <3>3
  <2>2. CASE k = m + 1
    <3>1. k - 1 = m /\ m \in 0 .. m
      BY <1>2, <2>2
    <3>2. JoinedUpTo(s, qs, k - 1) = inc /\ qs[k] = p
      BY <1>1, <1>2, <1>5, <2>2, <3>1
    <3> QED
      BY <3>2
  <2> QED
    BY <1>2, <2>1, <2>2
<1>10. \A k \in 1 .. m + 1 : \E j \in 2 .. n : qs[k][Len(qs[k])] = s[j]
  <2> SUFFICES ASSUME NEW k \in 1 .. m + 1
               PROVE  \E j \in 2 .. n : qs[k][Len(qs[k])] = s[j]
    OBVIOUS
  <2>1. CASE k \in 1 .. m
    <3>1. PICK j \in 2 .. n - 1 : ps[k][Len(ps[k])] = s[j]
      BY <2>1 DEF IsJoined, m
    <3>2. j \in 2 .. n /\ qs[k] = ps[k]
      BY <1>1, <1>2, <2>1
    <3> QED
      BY <3>1, <3>2
  <2>2. CASE k = m + 1
    <3>1. n \in 2 .. n /\ qs[k] = p
      BY <1>1, <1>2, <2>2
    <3> QED
      BY <3>1
  <2> QED
    BY <1>2, <2>1, <2>2
<1>11. br \cup (Range(p) \ Range(s)) \subseteq all \ Range(s)
  BY DEF IsJoined, all
<1>12. \A i \in 2 .. n : s[i] \in all \/ IsTooFar(c, lim, JoinedFor(s, qs, i), s[i])
  <2> SUFFICES ASSUME NEW i \in 2 .. n
               PROVE  s[i] \in all \/ IsTooFar(c, lim, JoinedFor(s, qs, i), s[i])
    OBVIOUS
  <2>1. CASE i = n
    BY <1>8, <2>1 DEF all
  <2>2. CASE i \in 2 .. n - 1
    <3>1. s[i] \in inc \/ IsTooFar(c, lim, JoinedFor(s, ps, i), s[i])
      BY <2>2, Zenon DEF IsJoined
    <3>2. i \in 1 .. n
      BY <1>1
    <3> QED
      BY <1>7, <3>1, <3>2 DEF all
  <2> QED
    BY <1>1, <2>1, <2>2
<1>13. IsJoined(c, lim, s, n + 1, qs, all, br \cup (Range(p) \ Range(s)))
  <2>1. Len(qs) = m + 1
    BY <1>2
  <2> QED
    BY <1>1, <1>2, <1>3, <1>4, <1>9, <1>10, <1>11, <1>12, <2>1 DEF IsJoined
<1> QED
  BY <1>13 DEF qs, all

\* The search from inc for t is where it should be.
IsSearch(c, lim, inc, t, seen, open) ==
  /\ t \notin seen /\ inc \subseteq seen /\ seen \in SUBSET Tables
  /\ Trails(c, inc, lim.hops, open)
  /\ \E d \in 0 .. lim.hops : Searched(c, inc, lim.hops, d, seen, open)

\* It is so from the start.
LEMMA SearchBegins ==
  ASSUME NEW c, NEW lim, lim.hops \in Nat, NEW inc \in SUBSET Tables, NEW t, t \notin inc
  PROVE  IsSearch(c, lim, inc, t, inc,
                  [i \in 1 .. Cardinality(inc) |-> <<Ascending(inc)[i]>>])
<1> DEFINE open == [i \in 1 .. Cardinality(inc) |-> <<Ascending(inc)[i]>>]
           h == lim.hops
<1>1. h \in Nat /\ 0 \in 0 .. h
  OBVIOUS
<1> HIDE DEF h
<1>2. Trails(c, inc, h, open) /\ Searched(c, inc, h, 0, inc, open)
  BY <1>1, SearchStarts
<1> HIDE DEF open
<1>3. IsSearch(c, lim, inc, t, inc, open)
  BY <1>1, <1>2 DEF IsSearch, h
<1> QED
  BY <1>3 DEF open

\* The steps of a round from a path.
StepsFrom(c, lim, path) == IF Len(path) - 1 < lim.hops THEN Linked(c, Last(path)) ELSE {}

\* A round finds a path that will do, or the search goes on.
LEMMA SearchContinues ==
  ASSUME NEW c, NEW lim, lim.hops \in Nat, NEW inc \in SUBSET Tables, NEW t, NEW seen, NEW open,
         IsSearch(c, lim, inc, t, seen, open), open # <<>>
  PROVE  LET steps == StepsFrom(c, lim, Head(open))
             found == steps \ seen
         IN  IF t \in steps
             THEN Trail(c, inc, lim.hops, Append(Head(open), t))
             ELSE IsSearch(c, lim, inc, t, seen \cup found,
                           Continued(open, Ascending(found), Cardinality(found)))
<1> DEFINE h == lim.hops
           p == open[1]
           steps == StepsFrom(c, lim, p)
           found == steps \ seen
<1>1. /\ t \notin seen /\ inc \subseteq seen /\ seen \in SUBSET Tables /\ h \in Nat
      /\ Trails(c, inc, h, open)
      /\ \E d \in 0 .. h : Searched(c, inc, h, d, seen, open)
  BY DEF IsSearch
<1>2. Len(open) # 0 /\ Head(open) = p /\ 1 \in 1 .. Len(open)
  BY <1>1 DEF Trails
<1> HIDE DEF h
<1>3. PICK d \in 0 .. h : Searched(c, inc, h, d, seen, open) /\ Len(open[1]) = d + 1
  BY <1>1, <1>2, SearchedToHead
<1>4. Trail(c, inc, h, p) /\ Len(p) = d + 1 /\ d \in Nat
  BY <1>1, <1>2, <1>3 DEF Trails
<1>5. steps = IF d < h THEN Linked(c, p[d + 1]) ELSE {}
  <2>1. Len(p) - 1 = d
    BY <1>4
  <2>2. Last(p) = p[d + 1]
    BY <1>4 DEF Last
  <2> QED
    BY <2>1, <2>2, Zenon DEF StepsFrom, h
<1> HIDE DEF steps, p
<1>6. CASE t \in steps
  <2>1. d < h /\ t \in Linked(c, p[d + 1])
    BY <1>5, <1>6
  <2>2. t \in Linked(c, p[Len(p)])
    BY <1>4, <2>1, Zenon
  <2>3. t \notin inc /\ t \notin Reach(c, inc, d)
    BY <1>1, <1>3 DEF Searched
  <2>4. Trail(c, inc, h, Append(p, t))
    BY <1>1, <1>4, <2>1, <2>2, <2>3, TrailGoesOn
  <2> QED
    BY <1>2, <1>6, <2>4 DEF h, steps
<1>7. CASE t \notin steps
  <2>1. IsFound(c, h, d, seen, open, found)
    BY <1>5 DEF IsFound, p
  <2>2. found \in SUBSET Tables
    BY <1>5 DEF Linked
  <2>3. t \notin seen \cup found
    BY <1>1, <1>7
  <2> HIDE DEF found
  <2> DEFINE next == Continued(open, Ascending(found), Cardinality(found))
  <2>4. Trails(c, inc, h, next) /\ Searched(c, inc, h, d, seen \cup found, next)
    BY <1>1, <1>2, <1>3, <2>1, SearchRound
  <2> HIDE DEF next
  <2>5. IsSearch(c, lim, inc, t, seen \cup found, next)
    BY <1>1, <2>2, <2>3, <2>4 DEF IsSearch, h
  <2> QED
    BY <1>2, <1>7, <2>5 DEF next, found, steps
<1> QED
  BY <1>6, <1>7

\* Without a path to go on with t is farther than the limit.
LEMMA SearchFails ==
  ASSUME NEW c, NEW lim, lim.hops \in Nat, NEW inc, NEW t, NEW seen, NEW open,
         IsSearch(c, lim, inc, t, seen, open), open = <<>>
  PROVE  IsTooFar(c, lim, inc, t)
<1> DEFINE h == lim.hops
<1>1. Reach(c, inc, h) \subseteq seen /\ t \notin seen
  <2>1. /\ t \notin seen /\ inc \subseteq seen /\ h \in Nat
        /\ \E d \in 0 .. h : Searched(c, inc, h, d, seen, open)
    BY DEF IsSearch
  <2> HIDE DEF h
  <2> QED
    BY <2>1, SearchedAll
<1>2. ASSUME NEW k \in 1 .. h
      PROVE  Reach(c, inc, k) \subseteq Reach(c, inc, h)
  <2> DEFINE m == h - k
  <2>1. m \in Nat /\ k \in Nat /\ k + m = h
    OBVIOUS
  <2> HIDE DEF m, h
  <2>2. Reach(c, inc, k) \subseteq Reach(c, inc, k + m)
    BY <2>1, ReachGrows
  <2> QED
    BY <2>1, <2>2
<1> QED
  BY <1>1, <1>2 DEF IsTooFar

\* The table whose path would join too many is too far.
LEMMA RefusedIsTooFar ==
  ASSUME NEW c, NEW lim, lim.tables \in Nat, NEW inc \in SUBSET Tables,
         NEW p, Trail(c, inc, lim.hops, p), p[Len(p)] \notin inc,
         Cardinality(inc \cup Range(p)) > lim.tables, lim.hops \in Nat
  PROVE  IsTooFar(c, lim, inc, p[Len(p)])
<1> DEFINE n == Len(p)
           h == lim.hops
           size == Cardinality(inc)
           all == Cardinality(inc \cup Range(p))
<1>1. p \in Seq(Tables) /\ n \in Nat /\ n # 0 /\ 1 \in 1 .. n /\ n \in 1 .. n
  BY DEF Trail
<1>2. p[1] \in inc /\ n > 1
  BY <1>1 DEF Trail
<1>3. p[n] \notin Reach(c, inc, n - 2)
  BY <1>2 DEF Trail
<1>4. IsFiniteSet(inc) /\ size \in Nat
  BY NamesAssumption, FS_Subset, FS_CardinalityType
<1>5. all \in Nat
  <2>1. inc \cup Range(p) \subseteq Tables
    BY <1>1 DEF Range
  <2> QED
    BY <2>1, NamesAssumption, FS_Subset, FS_CardinalityType
<1>6. all <= size + (n - 1)
  BY <1>1, <1>2, <1>4, PathsAdd
<1> HIDE DEF n, size, all
<1>7. ASSUME NEW k \in 1 .. h, p[n] \in Reach(c, inc, k)
      PROVE  size + k > lim.tables
  <2>1. ASSUME k <= n - 2
        PROVE  FALSE
    <3> DEFINE m == (n - 2) - k
    <3>1. m \in Nat /\ k \in Nat /\ k + m = n - 2
      BY <1>1, <1>2, <2>1
    <3> HIDE DEF m
    <3>2. Reach(c, inc, k) \subseteq Reach(c, inc, k + m)
      BY <3>1, ReachGrows
    <3> QED
      BY <1>3, <1>7, <3>1, <3>2
  <2>2. k >= n - 1
    BY <1>1, <2>1
  <2>3. all > lim.tables
    BY DEF all
  <2> QED
    BY <1>1, <1>4, <1>5, <1>6, <2>2, <2>3
<1> QED
  BY <1>7 DEF IsTooFar, n, size

-----------------------------------------------------------------------------
(* Types.                                                                  *)

\* The foreign keys there are refer to tables there are, whatever is created,
\* altered or dropped.
LEMMA ChangesKeepClosed ==
  ASSUME IsClosed(db), db \in Databases, DatabaseChange
  PROVE  IsClosed(db')
<1>1. None \notin TableStates
  BY ScenariosAssumption
<1>2. ASSUME NEW t \in Tables
      PROVE  db[t] = None \/ db[t] \in TableStates
  BY DEF Databases
<1>3. ASSUME NEW t \in Tables, NEW u \in Tables, db[t] # None, u \in db[t].refers
      PROVE  db[u] # None
  BY <1>3 DEF IsClosed
<1>4. ASSUME NEW t \in Tables, CreateTable(t)
      PROVE  IsClosed(db')
  <2>1. db[t] = None /\ db' = [db EXCEPT ![t] = [refers |-> {}, values |-> {}]]
    BY <1>4 DEF CreateTable, Exists
  <2>2. db'[t] # None /\ db'[t].refers = {} /\ \A u \in Tables \ {t} : db'[u] = db[u]
    BY <1>1, <2>1 DEF Databases, TableStates
  <2> QED
    BY <1>2, <1>3, <2>2 DEF IsClosed, TableStates
<1>5. ASSUME NEW t \in Tables, DropTable(t)
      PROVE  IsClosed(db')
  <2> DEFINE R == {u \in Tables : Exists(u) /\ t \in db[u].refers}
  <2>1. db' = [u \in Tables |-> IF u = t THEN None
                                ELSE IF u \in R THEN [db[u] EXCEPT !.refers = @ \ {t}]
                                ELSE db[u]]
    BY <1>5 DEF DropTable
  <2>2. ASSUME NEW u \in Tables, u # t
        PROVE  /\ (db'[u] = None) = (db[u] = None)
               /\ db'[u] # None => db'[u].refers = db[u].refers \ {t}
    <3>1. CASE u \in R
      <4>1. db[u] \in TableStates
        BY <1>2, <3>1 DEF Exists
      <4>2. db'[u] = [db[u] EXCEPT !.refers = @ \ {t}]
        BY <2>1, <2>2, <3>1
      <4>3. db'[u] \in TableStates /\ db'[u].refers = db[u].refers \ {t}
        BY <4>1, <4>2 DEF TableStates
      <4> QED
        BY <1>1, <4>1, <4>3
    <3>2. CASE u \notin R
      BY <2>1, <2>2, <3>2 DEF Exists
    <3> QED
      BY <3>1, <3>2
  <2>3. db'[t] = None
    BY <2>1
  <2>4. ASSUME NEW u \in Tables, db'[u] # None, NEW v \in db'[u].refers
        PROVE  db'[v] # None
    <3>1. u # t /\ db[u] # None /\ v \in db[u].refers \ {t}
      BY <2>2, <2>3, <2>4
    <3>2. v \in Tables
      BY <1>2, <3>1 DEF TableStates
    <3>3. db[v] # None /\ v # t
      BY <1>3, <3>1, <3>2
    <3> QED
      BY <2>2, <3>2, <3>3
  <2> QED
    BY <2>4 DEF IsClosed
<1>6. ASSUME NEW t \in Tables, NEW u \in Tables, AddForeignKey(t, u)
      PROVE  IsClosed(db')
  <2>1. db[t] # None /\ db[u] # None /\ db' = [db EXCEPT ![t].refers = @ \cup {u}]
    BY <1>6 DEF AddForeignKey, Exists
  <2>2. db[t] \in TableStates
    BY <1>2, <2>1
  <2>3. db'[t] = [db[t] EXCEPT !.refers = @ \cup {u}] /\ \A v \in Tables \ {t} : db'[v] = db[v]
    BY <2>1 DEF Databases
  <2>4. db'[t] \in TableStates /\ db'[t].refers = db[t].refers \cup {u}
    BY <2>2, <2>3 DEF TableStates
  <2>5. \A v \in Tables : (db'[v] = None) = (db[v] = None)
    BY <1>1, <2>1, <2>3, <2>4
  <2>6. ASSUME NEW v \in Tables, db'[v] # None, NEW w \in db'[v].refers
        PROVE  db'[w] # None
    <3>1. db[v] # None /\ w \in db[v].refers \cup {u}
      BY <2>3, <2>4, <2>5, <2>6
    <3>2. db[v].refers \subseteq Tables
      BY <1>2, <3>1 DEF TableStates
    <3> QED
      BY <1>3, <2>1, <2>5, <3>1, <3>2
  <2> QED
    BY <2>6 DEF IsClosed
<1>7. ASSUME NEW t \in Sampled, NEW V \in SUBSET Values, WriteValues(t, V)
      PROVE  IsClosed(db')
  <2>1. t \in Tables /\ db[t] # None /\ db' = [db EXCEPT ![t].values = V]
    BY <1>7, CatalogAssumption DEF WriteValues, Exists
  <2>2. db[t] \in TableStates
    BY <1>2, <2>1
  <2>3. db'[t] = [db[t] EXCEPT !.values = V] /\ \A v \in Tables \ {t} : db'[v] = db[v]
    BY <2>1 DEF Databases
  <2>4. db'[t] \in TableStates /\ db'[t].refers = db[t].refers
    BY <2>2, <2>3 DEF TableStates
  <2>5. \A v \in Tables : (db'[v] = None) = (db[v] = None)
    BY <1>1, <2>1, <2>3, <2>4
  <2>6. ASSUME NEW v \in Tables, db'[v] # None, NEW w \in db'[v].refers
        PROVE  db'[w] # None
    <3>1. db[v] # None /\ w \in db[v].refers
      BY <2>3, <2>4, <2>5, <2>6
    <3>2. db[v].refers \subseteq Tables
      BY <1>2, <3>1 DEF TableStates
    <3> QED
      BY <1>3, <2>5, <3>1, <3>2
  <2> QED
    BY <2>6 DEF IsClosed
<1> QED
  BY <1>4, <1>5, <1>6, <1>7 DEF DatabaseChange

\* A request leaves a call that has the catalog or waits for it.
LEMMA CallsKeepTypes ==
  ASSUME IInv, CatalogTypeOK, NEW r \in scenario.requests, GetSchema(r.kind, r.refresh)
  PROVE  CatalogTypeOK'
<1>1. /\ stage = "idle" /\ calls < scenario.calls /\ calls' = calls + 1
      /\ call' = [kind |-> r.kind, refresh |-> r.refresh, at |-> clock, changes |-> changes]
      /\ UNCHANGED <<scenario, db, changes, clock, cache, todo, partial>>
      /\ stage' \in {"answered", "list"} /\ answer' \in {cache, None}
      /\ schemas' \in {schemas, Range(SchemaOf)}
  BY DEF GetSchema, databaseVars
<1>2. call' # None
  <2>1. r \in Requests
    BY ScenariosAssumption DEF CatalogTypeOK
  <2>2. r.kind \in {"schema", "draft"} /\ r.refresh \in BOOLEAN
    BY <2>1 DEF Requests
  <2>3. clock \in Nat /\ changes \in Nat
    BY DEF IInv, HistoryInv
  <2>4. call' \in Calls
    BY <1>1, <2>2, <2>3 DEF Calls
  <2> QED
    BY <2>4, ScenariosAssumption
<1>3. calls' \in 0 .. scenario.calls
  <2>1. scenario.calls \in Nat
    BY ScenariosAssumption DEF CatalogTypeOK
  <2> QED
    BY <1>1, <2>1 DEF CatalogTypeOK
<1> QED
  BY <1>1, <1>2, <1>3 DEF CatalogTypeOK, IsCatalog

\* What a build has read are tables, and it ends with a catalog of them.
LEMMA BuildKeepsTypes ==
  ASSUME IInv, CatalogTypeOK, Build
  PROVE  CatalogTypeOK'
<1>1. CASE BuildFails
  <2>1. /\ Continue /\ stage # "idle" /\ stage' = "answered"
        /\ schemas' = {} /\ todo' = {} /\ partial' = <<>>
    BY <1>1 DEF BuildFails
  <2> QED
    BY <2>1 DEF CatalogTypeOK, IsCatalog, Continue, databaseVars
<1>2. CASE ListTables
  <2> DEFINE listed == {t \in Exposed : SchemaOf[t] = Min(schemas) /\ Exists(t)}
  <2>1. /\ Continue /\ stage = "list" /\ todo' = listed /\ schemas' \subseteq schemas
        /\ DOMAIN partial' = DOMAIN partial \cup listed
        /\ stage' = IF listed = {} THEN "list" ELSE "columns"
    BY <1>2 DEF ListTables
  <2> QED
    BY <2>1 DEF CatalogTypeOK, IsCatalog, Continue, databaseVars
<1>3. CASE ReadColumns
  <2>1. /\ Continue /\ stage = "columns" /\ stage' = "keys" /\ todo' = todo /\ schemas' = schemas
        /\ DOMAIN partial' = DOMAIN partial
    BY <1>3 DEF ReadColumns
  <2> QED
    BY <2>1 DEF CatalogTypeOK, IsCatalog, Continue, databaseVars
<1>4. CASE ReadKeys
  <2>1. /\ Continue /\ stage = "keys" /\ DOMAIN partial' = DOMAIN partial
        /\ todo' = todo \ {Reached} /\ schemas' = schemas
        /\ stage' = IF todo = {Reached} THEN "list" ELSE "columns"
    BY <1>4 DEF ReadKeys
  <2>2. todo # {} /\ todo \subseteq DOMAIN partial
    BY <2>1 DEF CatalogTypeOK
  <2>3. /\ stage' \in {"columns", "list"} /\ todo' \subseteq DOMAIN partial
        /\ stage' = "columns" => todo' # {}
    BY <2>1, <2>2
  <2> QED
    BY <2>1, <2>3 DEF CatalogTypeOK, IsCatalog, Continue, databaseVars
<1>5. CASE Introspected
  <2>1. /\ Continue /\ stage = "list" /\ stage' = "sample" /\ UNCHANGED <<schemas, partial>>
        /\ todo' \subseteq DOMAIN partial
    BY <1>5 DEF Introspected
  <2> QED
    BY <2>1 DEF CatalogTypeOK, IsCatalog, Continue, databaseVars
<1>6. CASE SampleColumn
  <2>1. /\ Continue /\ stage = "sample" /\ stage' = stage /\ todo' \subseteq todo
        /\ schemas' = schemas /\ DOMAIN partial' = DOMAIN partial
    BY <1>6 DEF SampleColumn
  <2> QED
    BY <2>1 DEF CatalogTypeOK, IsCatalog, Continue, databaseVars
<1>7. CASE SamplingDone
  <2>1. /\ Continue /\ stage = "sample" /\ stage' = "finish"
        /\ UNCHANGED <<schemas, todo, partial>>
    BY <1>7 DEF SamplingDone, buildVars
  <2> QED
    BY <2>1 DEF CatalogTypeOK, IsCatalog, Continue, databaseVars
<1>8. CASE FinishBuild
  <2>1. /\ stage = "finish" /\ stage' = "answered" /\ cache' = Built /\ answer' = Built
        /\ todo' = {} /\ partial' = <<>>
        /\ UNCHANGED <<scenario, db, changes, clock, call, calls, schemas>>
    BY <1>8 DEF FinishBuild, databaseVars
  <2>2. /\ DOMAIN partial \subseteq Exposed /\ \A t \in DOMAIN partial : partial[t] \in Entries
        /\ call.at \in Nat /\ call.at <= clock
    BY <2>1 DEF IInv, BuildInv, Building, CallInv
  <2>3. Built.tables = partial /\ Built.generated = call.at
    BY DEF Built
  <2>4. IsCatalog(Built)
    BY <2>2, <2>3 DEF IsCatalog
  <2> QED
    BY <2>1, <2>2, <2>3, <2>4 DEF CatalogTypeOK, IsCatalog
<1> QED
  BY <1>1, <1>2, <1>3, <1>4, <1>5, <1>6, <1>7, <1>8 DEF Build

\* Every step of the catalog keeps its types.
LEMMA CatalogStepsKeepTypes ==
  ASSUME IInv, CatalogTypeOK, [CatalogNext]_catalogVars
  PROVE  CatalogTypeOK'
<1>1. CASE \E r \in scenario.requests : GetSchema(r.kind, r.refresh)
  BY <1>1, CallsKeepTypes
<1>2. CASE Build
  BY <1>2, BuildKeepsTypes
<1>3. CASE Reply
  BY <1>3 DEF Reply, CatalogTypeOK, IsCatalog, databaseVars, buildVars
<1>4. CASE DatabaseChange
  <2>1. /\ changes' = changes + 1
        /\ UNCHANGED <<scenario, clock, cache, call, calls, stage, schemas, todo, partial,
                       answer>>
    BY <1>4, ChangesAreNumbered
  <2>2. changes < scenario.changes
    BY <1>4 DEF DatabaseChange, CreateTable, DropTable, AddForeignKey, WriteValues, Changed
  <2>3. scenario.changes \in Nat
    BY ScenariosAssumption DEF CatalogTypeOK
  <2>4. changes' \in 0 .. scenario.changes
    BY <2>1, <2>2, <2>3 DEF CatalogTypeOK
  <2>5. IsClosed(db')
    BY <1>4, ChangesKeepClosed DEF IInv, HistoryInv, CatalogTypeOK
  <2> QED
    BY <2>1, <2>4, <2>5 DEF CatalogTypeOK, IsCatalog
<1>5. CASE Tick
  <2>1. /\ clock < scenario.ticks /\ clock' = clock + 1
        /\ UNCHANGED <<scenario, db, changes, cache, call, calls, stage, schemas, todo, partial,
                       answer>>
    BY <1>5 DEF Tick, databaseVars, buildVars
  <2>2. scenario.ticks \in Nat /\ clock \in Nat
    BY ScenariosAssumption DEF CatalogTypeOK, IInv, HistoryInv
  <2>3. clock' \in 0 .. scenario.ticks
    BY <2>1, <2>2 DEF CatalogTypeOK
  <2>4. cache # None => cache.generated <= clock'
    BY <2>1, <2>2 DEF CatalogTypeOK, IsCatalog
  <2> QED
    BY <2>1, <2>3, <2>4 DEF CatalogTypeOK, IsCatalog
<1>6. CASE UNCHANGED catalogVars
  BY <1>6 DEF catalogVars, databaseVars, buildVars, CatalogTypeOK, IsCatalog
<1> QED
  BY <1>1, <1>2, <1>3, <1>4, <1>5, <1>6 DEF CatalogNext

Phases == {"idle", "connect", "search", "columns", "ranked", "prompted"}

\* A draft is under way only between its catalog and its reply, and its limits are
\* those it started with.
StageInv ==
  /\ CatalogTypeOK
  /\ limits \in [tables : Nat \ {0}, hops : Nat]
  /\ phase \in Phases
  /\ phase # "idle" => /\ stage = "answered" /\ call.kind = "draft"
                       /\ answer # None /\ catalog = answer

\* A scenario starts with its limits and without a draft.
LEMMA InitiallyStaged ==
  ASSUME Init
  PROVE  StageInv
<1>1. /\ scenario \in Scenarios /\ db = scenario.db /\ limits = scenario.limits
      /\ clock = 0 /\ changes = 0 /\ calls = 0 /\ cache = None /\ call = None
      /\ stage = "idle" /\ schemas = {} /\ todo = {} /\ partial = <<>> /\ answer = None /\ phase = "idle"
  BY DEF Init, CatalogInit, RetrievalInit
<1>2. IsClosed(db) /\ {scenario.changes, scenario.ticks, scenario.calls} \subseteq Nat
  BY <1>1, ScenariosAssumption
<1>3. 0 \in 0 .. scenario.ticks /\ 0 \in 0 .. scenario.changes /\ 0 \in 0 .. scenario.calls
  BY <1>2
<1>4. CatalogTypeOK
  BY <1>1, <1>2, <1>3 DEF CatalogTypeOK
<1>5. limits \in [tables : Nat \ {0}, hops : Nat]
  BY <1>1, LimitsAssumption
<1> QED
  BY <1>1, <1>4, <1>5 DEF StageInv, Phases

\* Nothing touches the limits, and while a draft is under way nothing touches its
\* call and its catalog.
LEMMA StepsKeepStages ==
  ASSUME IInv, StageInv, [Next]_vars
  PROVE  StageInv'
<1>1. CatalogTypeOK'
  BY StepsOfTheCatalog, CatalogStepsKeepTypes DEF StageInv
<1>2. CASE Request
  <2>1. stage = "idle" /\ UNCHANGED retrievalVars
    BY <1>2 DEF Request, GetSchema
  <2> QED
    BY <1>1, <2>1 DEF StageInv, retrievalVars
<1>3. CASE Build /\ UNCHANGED retrievalVars
  <2>1. stage # "answered"
    BY <1>3 DEF Build, BuildFails, ListTables, ReadColumns, ReadKeys, Introspected,
                SampleColumn, SamplingDone, FinishBuild
  <2> QED
    BY <1>1, <1>3, <2>1 DEF StageInv, retrievalVars
<1>4. CASE Draft
  <2>1. /\ stage = "answered" /\ call.kind = "draft" /\ answer # None
        /\ catalog' = answer /\ limits' = limits /\ phase' \in {"columns", "connect"}
        /\ UNCHANGED <<stage, call, answer>>
    BY <1>4 DEF Draft, StartRetrieval, catalogVars
  <2> QED
    BY <1>1, <2>1 DEF StageInv, Phases
<1>5. CASE Retrieve /\ UNCHANGED catalogVars
  <2>1. /\ phase # "idle" /\ phase' \in Phases /\ UNCHANGED <<limits, catalog>>
    BY <1>5 DEF Retrieve, NextTarget, ExpandPath, Accept, NoPath, EndSearch, SelectColumns,
                AskBack, BuildPrompt, Phases
  <2> QED
    BY <1>1, <1>5, <2>1 DEF StageInv, catalogVars
<1>6. CASE Answer
  <2>1. (call.kind = "schema" \/ answer = None) /\ UNCHANGED <<limits, phase>>
    BY <1>6 DEF Answer, retrievalVars
  <2> QED
    BY <1>1, <2>1 DEF StageInv
<1>7. CASE Drafted
  <2>1. phase' = "idle" /\ limits' = limits
    BY <1>7 DEF Drafted, RetrievalDone
  <2> QED
    BY <1>1, <2>1 DEF StageInv, Phases
<1>8. CASE Others
  <2>1. UNCHANGED <<stage, call, answer, limits, phase, catalog>>
    BY <1>8 DEF Others, Tick, DatabaseChange, CreateTable, DropTable, AddForeignKey, WriteValues,
                Changed, retrievalVars
  <2> QED
    BY <1>1, <2>1 DEF StageInv
<1>9. CASE UNCHANGED vars
  <2>1. UNCHANGED <<stage, call, answer, limits, phase, catalog>>
    BY <1>9 DEF vars, catalogVars, retrievalVars
  <2> QED
    BY <1>1, <2>1 DEF StageInv
<1> QED
  BY <1>2, <1>3, <1>4, <1>5, <1>6, <1>7, <1>8, <1>9 DEF Next, Serve

-----------------------------------------------------------------------------
(* The steps of a retrieval.                                               *)

Connecting == {"connect", "search"}

\* What is joined, and how far the search is.
RetrievalInv ==
  /\ phase = "idle" => paths = <<>> /\ bridges = {} /\ visited = {}
  /\ phase # "idle" =>
       /\ IsSelection(catalog, limits, selected)
       /\ target = 0 => /\ phase \notin Connecting
                        /\ paths = <<>> /\ included = {} /\ bridges = {}
                        /\ Len(selected) < 2 \/ limits.hops = 0
       /\ target # 0 => /\ IsJoined(catalog, limits, selected, target, paths, included, bridges)
                        /\ phase \notin Connecting => target = Len(selected) + 1
  /\ phase = "search" =>
       /\ target <= Len(selected)
       /\ IsSearch(catalog, limits, included, selected[target], visited, queue)
  /\ phase # "search" => visited = {}

\* A draft selects tables of the catalog it was handed, and starts with the first.
LEMMA StartKeepsRetrievalInv ==
  ASSUME StageInv, RetrievalInv, Draft
  PROVE  RetrievalInv'
<1>1. /\ phase = "idle" /\ answer # None /\ StartRetrieval(answer) /\ catalog' = answer
      /\ UNCHANGED <<limits, bridges, paths, visited>>
  BY DEF Draft, StartRetrieval, searchVars
<1> DEFINE D == DOMAIN answer.tables
<1>2. D \in SUBSET Tables
  BY <1>1, CatalogAssumption DEF StageInv, CatalogTypeOK, IsCatalog
<1>3. PICK score \in [D -> Scores] :
        /\ selected' = Selection(score)
        /\ IF Len(Selection(score)) < 2 \/ limits.hops = 0
           THEN phase' = "columns" /\ target' = 0 /\ included' = {}
           ELSE phase' = "connect" /\ target' = 2 /\ included' = {Selection(score)[1]}
  BY <1>1 DEF StartRetrieval
<1>4. limits.tables \in Nat \ {0}
  BY DEF StageInv
<1> DEFINE s == Selection(score)
<1>5. /\ s \in Seq(D) /\ Len(s) <= limits.tables
      /\ \A i, j \in DOMAIN s : i # j => s[i] # s[j]
  BY <1>2, <1>4, SelectionIs
<1> HIDE DEF s
<1>6. IsSelection(answer, limits, s)
  <2>1. Tables \cap DOMAIN answer.tables = D
    BY <1>2
  <2> HIDE DEF D
  <2>2. DOMAIN s = 1 .. Len(s)
    BY <1>5
  <2> QED
    BY <1>5, <2>1, <2>2 DEF IsSelection
<1>7. selected' = s /\ IsSelection(catalog', limits', selected')
  BY <1>1, <1>3, <1>6 DEF s
<1>8. visited' = {} /\ paths' = <<>> /\ bridges' = {}
  BY <1>1 DEF RetrievalInv
<1>9. CASE Len(s) < 2 \/ limits.hops = 0
  <2>1. phase' = "columns" /\ target' = 0 /\ included' = {}
    BY <1>3, <1>9 DEF s
  <2>2. Len(selected') < 2 \/ limits'.hops = 0
    BY <1>1, <1>7, <1>9
  <2> QED
    BY <1>7, <1>8, <2>1, <2>2 DEF RetrievalInv, Connecting
<1>10. CASE ~(Len(s) < 2 \/ limits.hops = 0)
  <2>1. phase' = "connect" /\ target' = 2 /\ included' = {s[1]}
    BY <1>3, <1>10 DEF s
  <2>2. Len(s) > 1
    BY <1>5, <1>10
  <2>3. IsJoined(answer, limits, s, 2, <<>>, {s[1]}, {})
    BY <1>4, <1>6, <2>2, FirstIsJoined
  <2>4. IsJoined(catalog', limits', selected', target', paths', included', bridges')
    BY <1>1, <1>7, <1>8, <2>1, <2>3
  <2> QED
    BY <1>7, <1>8, <2>1, <2>4 DEF RetrievalInv, Connecting
<1> QED
  BY <1>9, <1>10

\* What holds while tables are joined.
LEMMA WhileConnecting ==
  ASSUME StageInv, RetrievalInv, phase \in Connecting
  PROVE  /\ limits.tables \in Nat /\ limits.hops \in Nat
         /\ IsSelection(catalog, limits, selected) /\ target # 0 /\ Len(selected) \in Nat
         /\ IsJoined(catalog, limits, selected, target, paths, included, bridges)
         /\ target \in Nat /\ target >= 2 /\ included \in SUBSET Tables
<1>1. phase # "idle"
  BY DEF Connecting
<1>2. /\ IsSelection(catalog, limits, selected) /\ target # 0
      /\ IsJoined(catalog, limits, selected, target, paths, included, bridges)
  BY <1>1 DEF RetrievalInv
<1>3. Len(selected) \in Nat
  BY <1>2 DEF IsSelection
<1>4. target \in Nat /\ target >= 2 /\ included \in SUBSET Tables
  BY <1>2, <1>3 DEF IsJoined
<1> QED
  BY <1>2, <1>3, <1>4 DEF StageInv

\* The loop ends, passes a table that is joined, or starts the search for the next.
LEMMA NextTargetKeepsRetrievalInv ==
  ASSUME StageInv, RetrievalInv, NextTarget
  PROVE  RetrievalInv'
<1>1. /\ phase = "connect" /\ UNCHANGED <<limits, catalog, selected, included, bridges, paths>>
      /\ visited = {}
  BY DEF NextTarget, RetrievalInv
<1>2. /\ limits.hops \in Nat /\ target # 0 /\ Len(selected) \in Nat
      /\ IsSelection(catalog, limits, selected)
      /\ IsJoined(catalog, limits, selected, target, paths, included, bridges)
      /\ target \in Nat /\ target >= 2 /\ included \in SUBSET Tables
  BY <1>1, WhileConnecting DEF Connecting
<1>3. CASE target > Len(selected) /\ phase' = "columns" /\ UNCHANGED <<target, searchVars>>
  <2>1. target = Len(selected) + 1
    BY <1>2, <1>3 DEF IsJoined
  <2> QED
    BY <1>1, <1>2, <1>3, <2>1 DEF RetrievalInv, Connecting, searchVars
<1>4. CASE /\ target <= Len(selected) /\ selected[target] \in included
           /\ target' = target + 1 /\ UNCHANGED <<phase, searchVars>>
  <2>1. IsJoined(catalog, limits, selected, target + 1, paths, included, bridges)
    BY <1>2, <1>4, TurnPasses
  <2>2. target' # 0 /\ target' = target + 1
    BY <1>2, <1>4
  <2> QED
    BY <1>1, <1>2, <1>4, <2>1, <2>2 DEF RetrievalInv, Connecting, searchVars
<1>5. CASE /\ target <= Len(selected) /\ selected[target] \notin included
           /\ phase' = "search"
           /\ queue' = [i \in 1 .. Cardinality(included) |-> <<Ascending(included)[i]>>]
           /\ visited' = included
           /\ UNCHANGED target
  <2>1. IsSearch(catalog, limits, included, selected[target], included,
                 [i \in 1 .. Cardinality(included) |-> <<Ascending(included)[i]>>])
    BY <1>2, <1>5, SearchBegins
  <2>2. IsSearch(catalog', limits', included', selected'[target'], visited', queue')
    BY <1>1, <1>5, <2>1
  <2> QED
    BY <1>1, <1>2, <1>5, <2>2 DEF RetrievalInv, Connecting
<1> QED
  BY <1>3, <1>4, <1>5 DEF NextTarget

\* The turn of a table that stays out is over.
LEMMA LeftOutKeepsRetrievalInv ==
  ASSUME StageInv, RetrievalInv, phase = "search", EndSearch,
         UNCHANGED <<included, bridges, paths>>,
         IsTooFar(catalog, limits, included, selected[target])
  PROVE  RetrievalInv'
<1>1. /\ phase' = "connect" /\ target' = target + 1 /\ visited' = {}
      /\ UNCHANGED <<limits, catalog, selected>>
  BY DEF EndSearch
<1>2. /\ IsSelection(catalog, limits, selected) /\ Len(selected) \in Nat /\ target \in Nat
      /\ IsJoined(catalog, limits, selected, target, paths, included, bridges)
  BY WhileConnecting DEF Connecting
<1>3. target <= Len(selected)
  BY DEF RetrievalInv
<1>4. IsJoined(catalog, limits, selected, target + 1, paths, included, bridges)
  BY <1>2, <1>3, TurnPasses
<1>5. target' # 0 /\ target' = target + 1
  BY <1>1, <1>2
<1> QED
  BY <1>1, <1>2, <1>4, <1>5 DEF RetrievalInv, Connecting

\* A search without a path left shows its table to be too far.
LEMMA NoPathKeepsRetrievalInv ==
  ASSUME StageInv, RetrievalInv, NoPath
  PROVE  RetrievalInv'
<1>1. phase = "search" /\ queue = <<>> /\ EndSearch /\ UNCHANGED <<included, bridges, paths>>
  BY DEF NoPath
<1>2. limits.hops \in Nat
  BY DEF StageInv
<1>3. IsSearch(catalog, limits, included, selected[target], visited, queue)
  BY <1>1 DEF RetrievalInv
<1>4. IsTooFar(catalog, limits, included, selected[target])
  BY <1>1, <1>2, <1>3, SearchFails
<1> QED
  BY <1>1, <1>4, LeftOutKeepsRetrievalInv

\* A path to the table is kept, or the table is too far.
LEMMA AcceptKeepsRetrievalInv ==
  ASSUME StageInv, RetrievalInv, phase = "search", NEW p, Accept(p),
         Trail(catalog, included, limits.hops, p), Len(p) > 1, p[Len(p)] = selected[target]
  PROVE  RetrievalInv'
<1>1. EndSearch
  BY DEF Accept
<1>2. /\ IsSelection(catalog, limits, selected) /\ Len(selected) \in Nat /\ target \in Nat
      /\ limits.tables \in Nat /\ limits.hops \in Nat /\ included \in SUBSET Tables
      /\ IsJoined(catalog, limits, selected, target, paths, included, bridges)
  BY WhileConnecting DEF Connecting
<1>3. target <= Len(selected)
  BY DEF RetrievalInv
<1>4. selected[target] \notin included
  BY DEF RetrievalInv, IsSearch
<1>5. CASE Cardinality(included \cup Range(p)) > limits.tables
  <2>1. UNCHANGED <<included, bridges, paths>>
    BY <1>5 DEF Accept
  <2>2. p[Len(p)] \notin included
    BY <1>4
  <2>3. IsTooFar(catalog, limits, included, p[Len(p)])
    BY <1>2, <1>5, <2>2, RefusedIsTooFar
  <2>4. IsTooFar(catalog, limits, included, selected[target])
    BY <2>3
  <2> QED
    BY <1>1, <2>1, <2>4, LeftOutKeepsRetrievalInv
<1>6. CASE ~(Cardinality(included \cup Range(p)) > limits.tables)
  <2>1. /\ paths' = Append(paths, p)
        /\ bridges' = bridges \cup (Range(p) \ Range(selected))
        /\ included' = included \cup Range(p)
    BY <1>6 DEF Accept
  <2>2. /\ phase' = "connect" /\ target' = target + 1 /\ visited' = {}
        /\ UNCHANGED <<limits, catalog, selected>>
    BY <1>1 DEF EndSearch
  <2>3. IsJoined(catalog, limits, selected, target + 1, Append(paths, p),
                 included \cup Range(p), bridges \cup (Range(p) \ Range(selected)))
    BY <1>2, <1>3, <1>6, PathJoins
  <2>4. IsJoined(catalog', limits', selected', target', paths', included', bridges')
    BY <2>1, <2>2, <2>3
  <2>5. target' # 0
    BY <1>2, <2>2
  <2> QED
    BY <1>2, <2>2, <2>4, <2>5 DEF RetrievalInv, Connecting
<1> QED
  BY <1>5, <1>6

\* A round of the search ends it with a path, or goes on.
LEMMA ExpandKeepsRetrievalInv ==
  ASSUME StageInv, RetrievalInv, ExpandPath
  PROVE  RetrievalInv'
<1> DEFINE p == Head(queue)
           t == selected[target]
           steps == StepsFrom(catalog, limits, p)
           found == steps \ visited
<1>1. phase = "search" /\ queue # <<>>
  BY DEF ExpandPath
<1>2. /\ IsSelection(catalog, limits, selected) /\ Len(selected) \in Nat /\ target \in Nat
      /\ limits.tables \in Nat /\ limits.hops \in Nat /\ included \in SUBSET Tables /\ target # 0
      /\ IsJoined(catalog, limits, selected, target, paths, included, bridges)
  BY <1>1, WhileConnecting DEF Connecting
<1>3. target <= Len(selected) /\ IsSearch(catalog, limits, included, t, visited, queue)
  BY <1>1 DEF RetrievalInv
<1>4. steps = IF HopsLeft(p) THEN Neighbours(Last(p)) ELSE {}
  <2>1. Neighbours(Last(p)) = Linked(catalog, Last(p))
    BY ReachIsWithin
  <2> QED
    BY <2>1 DEF StepsFrom, HopsLeft
<1>5. IF t \in steps
      THEN Trail(catalog, included, limits.hops, Append(p, t))
      ELSE IsSearch(catalog, limits, included, t, visited \cup found,
                    Continued(queue, Ascending(found), Cardinality(found)))
  BY <1>1, <1>2, <1>3, SearchContinues
<1>6. IF t \in steps
      THEN Accept(Append(p, t))
      ELSE /\ visited' = visited \cup found /\ queue' = Enqueued(p, found)
           /\ UNCHANGED <<phase, limits, catalog, selected, connectVars>>
  <2> HIDE DEF steps
  <2> QED
    BY <1>4, Zenon DEF ExpandPath
<1> HIDE DEF steps
<1>7. CASE t \in steps
  <2>1. Trail(catalog, included, limits.hops, Append(p, t)) /\ Accept(Append(p, t))
    BY <1>5, <1>6, <1>7
  <2>2. p \in Seq(Tables) /\ Len(p) # 0 /\ t \in Tables
    <3>1. queue \in Seq(Seq(Tables)) /\ Head(queue) = queue[1] /\ 1 \in 1 .. Len(queue)
      BY <1>1, <1>3 DEF IsSearch, Trails
    <3>2. Trail(catalog, included, limits.hops, queue[1])
      BY <1>3, <3>1 DEF IsSearch, Trails
    <3>3. t \in Tables
      <4>1. target \in 1 .. Len(selected)
        BY <1>2, <1>3
      <4> QED
        BY <1>2, <4>1 DEF IsSelection
    <3> QED
      BY <3>1, <3>2, <3>3 DEF Trail
  <2> HIDE DEF p, t
  <2>3. Len(Append(p, t)) > 1 /\ Append(p, t)[Len(Append(p, t))] = t
    BY <2>2
  <2> DEFINE q == Append(p, t)
  <2>4. /\ Accept(q) /\ Trail(catalog, included, limits.hops, q) /\ Len(q) > 1
        /\ q[Len(q)] = selected[target]
    BY <2>1, <2>3 DEF t
  <2> HIDE DEF q
  <2> QED
    BY <1>1, <2>4, AcceptKeepsRetrievalInv
<1>8. CASE t \notin steps
  <2>1. /\ visited' = visited \cup found /\ queue' = Enqueued(p, found)
        /\ UNCHANGED <<phase, limits, catalog, selected, connectVars>>
    BY <1>6, <1>8
  <2>2. queue[1] = Head(queue)
    OBVIOUS
  <2>3. queue' = Continued(queue, Ascending(found), Cardinality(found))
    BY <2>1, <2>2 DEF Enqueued, Continued
  <2>4. IsSearch(catalog, limits, included, t, visited', queue')
    BY <1>5, <1>8, <2>1, <2>3
  <2>5. /\ UNCHANGED <<phase, limits, catalog, selected, target, included, bridges, paths>>
    BY <2>1 DEF connectVars
  <2>6. IsSearch(catalog', limits', included', selected'[target'], visited', queue')
    BY <2>4, <2>5
  <2> QED
    BY <1>1, <1>2, <1>3, <2>5, <2>6 DEF RetrievalInv, Connecting
<1> QED
  BY <1>7, <1>8

\* Each step of a request keeps what is joined and searched as it should be.
LEMMA StepsKeepRetrievalInv ==
  ASSUME StageInv, RetrievalInv, [Next]_vars
  PROVE  RetrievalInv'
<1>1. CASE UNCHANGED retrievalVars
  <2>1. UNCHANGED <<phase, limits, catalog, selected, target, included, bridges, paths,
                    queue, visited>>
    BY <1>1 DEF retrievalVars, connectVars, searchVars
  <2> QED
    BY <2>1 DEF RetrievalInv
<1>2. CASE Draft
  BY <1>2, StartKeepsRetrievalInv
<1>3. CASE NextTarget
  BY <1>3, NextTargetKeepsRetrievalInv
<1>4. CASE ExpandPath
  BY <1>4, ExpandKeepsRetrievalInv
<1>5. CASE NoPath
  BY <1>5, NoPathKeepsRetrievalInv
<1>6. CASE SelectColumns \/ AskBack \/ BuildPrompt
  <2>1. /\ phase \notin {"idle", "search", "connect"} /\ phase' \notin {"idle", "search", "connect"}
        /\ UNCHANGED <<limits, catalog, selected, target, included, bridges, paths,
                       queue, visited>>
    BY <1>6 DEF SelectColumns, AskBack, BuildPrompt, connectVars, searchVars
  <2> QED
    BY <2>1 DEF RetrievalInv, Connecting
<1>7. CASE Drafted
  <2>1. phase' = "idle" /\ paths' = <<>> /\ bridges' = {} /\ visited' = {}
    BY <1>7 DEF Drafted, RetrievalDone, Cleared
  <2> QED
    BY <2>1 DEF RetrievalInv
<1> QED
  BY <1>1, <1>2, <1>3, <1>4, <1>5, <1>6, <1>7
     DEF Next, Request, Serve, Answer, Others, Retrieve, vars

\* What each step of a request leaves true of the draft under way.
THEOREM DraftInvariant == Spec => [](StageInv /\ RetrievalInv)
<1>1. Init => StageInv /\ RetrievalInv
  BY InitiallyStaged DEF Init, RetrievalInit, RetrievalInv
<1>2. IInv /\ StageInv /\ RetrievalInv /\ [Next]_vars => StageInv' /\ RetrievalInv'
  BY StepsKeepStages, StepsKeepRetrievalInv
<1> QED
  BY <1>1, <1>2, CatalogInvariant, PTL DEF Spec

\* The variables keep their types; the tables selected are those of the catalog the
\* draft was handed, and what is joined stays within the limit.
THEOREM DraftTypeCorrectness == Spec => []TypeOK
<1>1. StageInv /\ RetrievalInv => TypeOK
  <2> SUFFICES ASSUME StageInv, RetrievalInv
               PROVE  TypeOK
    OBVIOUS
  <2>1. /\ CatalogTypeOK /\ phase \in Phases
        /\ limits.tables \in Nat \ {0} /\ limits.hops \in Nat
        /\ phase # "idle" => stage = "answered" /\ call.kind = "draft" /\ catalog = answer
    BY DEF StageInv
  <2>2. ASSUME phase # "idle"
        PROVE  /\ Len(selected) <= limits.tables
               /\ Cardinality(included) <= limits.tables
               /\ Range(selected) \subseteq DOMAIN catalog.tables
               /\ bridges \subseteq included \ Range(selected)
               /\ visited = {} \/ included \subseteq visited
    <3>1. IsSelection(catalog, limits, selected)
      BY <2>2 DEF RetrievalInv
    <3>2. Len(selected) <= limits.tables /\ Range(selected) \subseteq DOMAIN catalog.tables
      BY <3>1 DEF IsSelection, Range
    <3>3. Cardinality(included) <= limits.tables /\ bridges \subseteq included \ Range(selected)
      <4>1. CASE target = 0
        <5>1. included = {} /\ bridges = {}
          BY <2>2, <4>1 DEF RetrievalInv
        <5> QED
          BY <2>1, <5>1, FS_EmptySet
      <4>2. CASE target # 0
        <5>1. IsJoined(catalog, limits, selected, target, paths, included, bridges)
          BY <2>2, <4>2 DEF RetrievalInv
        <5> QED
          BY <5>1 DEF IsJoined
      <4> QED
        BY <4>1, <4>2
    <3>4. visited = {} \/ included \subseteq visited
      BY DEF RetrievalInv, IsSearch
    <3> QED
      BY <3>2, <3>3, <3>4
  <2> QED
    BY <2>1, <2>2 DEF TypeOK, RetrievalTypeOK, Phases
<1> QED
  BY <1>1, DraftInvariant, PTL

\* Every path leads from what was joined before it to a selected table, along
\* foreign keys, within the limit, and none is shorter: for every catalog, every
\* selection and every limit.
THEOREM PathsAreTheShortest == Spec => []PathsAreShortest
<1>1. StageInv /\ RetrievalInv => PathsAreShortest
  <2> SUFFICES ASSUME StageInv, RetrievalInv, phase # "idle", NEW k \in DOMAIN paths
               PROVE  LET p == paths[k]
                          joined == JoinedBefore(k)
                      IN  /\ \A i \in 1 .. Len(p) - 1 : p[i + 1] \in Neighbours(p[i])
                          /\ Last(p) \in Range(selected)
                          /\ \A i \in DOMAIN p : (p[i] \in joined) = (i = 1)
                          /\ Len(p) - 1 <= limits.hops
                          /\ Last(p) \notin Within(joined, Len(p) - 2)
    BY DEF PathsAreShortest
  <2> DEFINE p == paths[k]
             S == JoinedBefore(k)
             h == limits.hops
  <2>1. target # 0
    BY DEF RetrievalInv
  <2>2. /\ IsSelection(catalog, limits, selected)
        /\ IsJoined(catalog, limits, selected, target, paths, included, bridges)
    BY <2>1 DEF RetrievalInv
  <2>3. k \in 1 .. Len(paths)
    BY <2>2 DEF IsJoined
  <2>4. S = JoinedUpTo(selected, paths, k - 1)
    BY DEF JoinedBefore, JoinedUpTo
  <2> HIDE DEF S
  <2>5. Trail(catalog, S, h, p) /\ Len(p) > 1
    BY <2>2, <2>3, <2>4, Zenon DEF IsJoined
  <2>6. PICK j \in 2 .. target - 1 : p[Len(p)] = selected[j]
    BY <2>2, <2>3 DEF IsJoined
  <2>7. Last(p) \in Range(selected)
    <3>1. Len(selected) \in Nat /\ target \in 2 .. Len(selected) + 1
          /\ DOMAIN selected = 1 .. Len(selected)
      BY <2>2 DEF IsSelection, IsJoined
    <3>2. j \in DOMAIN selected
      BY <3>1
    <3> QED
      BY <2>6, <3>2 DEF Last, Range
  <2> HIDE DEF p, h
  <2>8. /\ p \in Seq(Tables) /\ Len(p) - 1 <= h
        /\ \A i \in 1 .. Len(p) - 1 : p[i + 1] \in Linked(catalog, p[i])
        /\ \A i \in 1 .. Len(p) : p[i] \in S <=> i = 1
        /\ p[Len(p)] \notin Reach(catalog, S, Len(p) - 2)
    BY <2>5 DEF Trail
  <2>9. \A i \in DOMAIN p : (p[i] \in S) = (i = 1)
    BY <2>8
  <2>10. Last(p) \notin Within(S, Len(p) - 2)
    BY <2>8, ReachIsWithin, Zenon DEF Last
  <2>11. \A i \in 1 .. Len(p) - 1 : p[i + 1] \in Neighbours(p[i])
    BY <2>8, ReachIsWithin, Zenon
  <2> QED
    BY <2>7, <2>8, <2>9, <2>10, <2>11 DEF p, S, h
<1> QED
  BY <1>1, DraftInvariant, PTL

\* A selected table is left out of the join only if the limits leave no way to it:
\* for every catalog, every selection and every limit.
THEOREM NoTableIsLeftOutInVain == Spec => []LeftOutForAReason
<1>1. StageInv /\ RetrievalInv => LeftOutForAReason
  <2> SUFFICES ASSUME StageInv, RetrievalInv, phase \in {"columns", "ranked", "prompted"},
                      NEW i \in 2 .. Len(selected), selected[i] \notin included,
                      NEW k \in 1 .. limits.hops,
                      selected[i] \in Within(JoinedFor(selected, paths, i), k)
               PROVE  Cardinality(JoinedFor(selected, paths, i)) + k > limits.tables
    BY Zenon DEF LeftOutForAReason, JoinedFor
  <2>1. phase # "idle" /\ phase \notin Connecting /\ limits.hops \in Nat
    BY DEF Connecting, StageInv
  <2>2. Len(selected) \in Nat
    BY <2>1 DEF RetrievalInv, IsSelection
  <2>3. target # 0
    BY <2>1, <2>2 DEF RetrievalInv
  <2>4. IsJoined(catalog, limits, selected, target, paths, included, bridges)
        /\ target = Len(selected) + 1
    BY <2>1, <2>3 DEF RetrievalInv
  <2>5. i \in 2 .. target - 1
    BY <2>2, <2>4
  <2>6. IsTooFar(catalog, limits, JoinedFor(selected, paths, i), selected[i])
    BY <2>4, <2>5, Zenon DEF IsJoined
  <2>7. selected[i] \in Reach(catalog, JoinedFor(selected, paths, i), k)
    BY ReachIsWithin, Zenon
  <2> QED
    BY <2>6, <2>7, Zenon DEF IsTooFar
<1> QED
  BY <1>1, DraftInvariant, PTL
=============================================================================
