----------------------------- MODULE DraftContext -----------------------------
(***************************************************************************)
(* Where the context of a generated query comes from: GET /v1/schema and   *)
(* the drafts of POST /v1/query take the catalog from one cache            *)
(* (SchemaCatalog), a draft retrieves tables and join paths from the       *)
(* catalog it was handed and renders its prompt (SchemaRetrieval), and     *)
(* other sessions go on changing the database all along.                   *)
(***************************************************************************)
EXTENDS SchemaCatalog, SchemaRetrieval

\* At least one table may be selected.
ASSUME LimitsAssumption ==
  \A s \in Scenarios : s.limits \in [tables : Nat \ {0}, hops : Nat]

vars == <<catalogVars, retrievalVars>>

Init ==
  /\ CatalogInit
  /\ RetrievalInit
  /\ limits = scenario.limits

\* GET /v1/schema or a draft; either may ask for a refresh.
Request ==
  /\ \E r \in scenario.requests : GetSchema(r.kind, r.refresh)
  /\ UNCHANGED retrievalVars

\* draft() is handed the catalog.
Draft ==
  /\ stage = "answered" /\ call.kind = "draft" /\ answer # None /\ prompt = None
  /\ StartRetrieval(answer)
  /\ UNCHANGED catalogVars

\* GET /v1/schema answers with the catalog, either call with an error when there
\* is none.
Answer ==
  /\ call # None /\ (call.kind = "schema" \/ answer = None)
  /\ Reply
  /\ UNCHANGED retrievalVars

\* The draft goes on with its prompt or asks back; see QueryWorkflow.
Drafted ==
  /\ phase = "prompted"
  /\ Reply
  /\ RetrievalDone

Serve ==
  \/ Build /\ UNCHANGED retrievalVars
  \/ Draft
  \/ Retrieve /\ UNCHANGED catalogVars
  \/ Answer
  \/ Drafted

Others == (DatabaseChange \/ Tick) /\ UNCHANGED retrievalVars

Next == Request \/ Serve \/ Others

Spec == Init /\ [][Next]_vars

\* The handler goes on; whether there is a request or a change is up to others.
FairSpec == Spec /\ WF_vars(Serve)

-----------------------------------------------------------------------------
(* Properties, beside those of the two components.                         *)

\* The variables have their types, a draft is under way only between its catalog
\* and its reply, and what it works on is the catalog it was handed.
TypeOK ==
  /\ CatalogTypeOK
  /\ RetrievalTypeOK
  /\ phase # "idle" => /\ stage = "answered" /\ call.kind = "draft"
                       /\ catalog = answer

\* Every request that needs the catalog is answered: a build ends, however the
\* tables change under it, and so does every search for a path
\* (schema_introspection.py, introspect; schema_retrieval.py, shortest_path).
RequestsAreAnswered == (call # None) ~> (call = None)
=============================================================================
