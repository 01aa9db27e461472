----------------------------- MODULE AuditTables -----------------------------
(***************************************************************************)
(* The two tables of schema text_to_sql_audit (database/init/15_audit.sql) *)
(* and the two statements that write them                                  *)
(* (backend/app/repositories/query_history.py).  Each statement is one     *)
(* transaction; nothing is ever deleted.  What a row says is a value that  *)
(* the module using this one chooses.                                      *)
(***************************************************************************)
EXTENDS Naturals, FiniteSets

CONSTANTS
  RequestIds,  \* values of the X-Request-ID header
  Contents,    \* what a query_audit_records row says besides its keys
  Remarks,     \* what a query_feedback row says besides its keys
  NoRecord     \* no row with this request id

VARIABLES
  records,   \* query_audit_records: request_id is UNIQUE, so a function of it
  feedback   \* query_feedback

Stored == {id \in RequestIds : records[id] # NoRecord}

Init ==
  /\ records = [id \in RequestIds |-> NoRecord]
  /\ feedback = {}

\* INSERT ... ON CONFLICT (request_id) DO UPDATE: a second record of a request
\* id replaces what the first one said and keeps its place in the order of
\* creation.
CreateOrUpdateRecord(id, content) ==
  /\ records' = [records EXCEPT ![id] =
       [serial  |-> IF id \in Stored THEN records[id].serial
                                     ELSE Cardinality(Stored) + 1,
        content |-> content]]
  /\ UNCHANGED feedback

\* INSERT INTO query_feedback; the foreign key demands an existing record.
AddFeedback(id, remark) ==
  /\ id \in Stored
  /\ feedback' = feedback \cup {[id |-> id, remark |-> remark]}
  /\ UNCHANGED records

\* Rows are well formed, and every feedback row has its record.
TablesOK ==
  /\ records \in [RequestIds -> [serial : Nat, content : Contents] \cup {NoRecord}]
  /\ feedback \subseteq [id : Stored, remark : Remarks]
=============================================================================
