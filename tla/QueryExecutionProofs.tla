------------------------ MODULE QueryExecutionProofs ------------------------
(***************************************************************************)
(* The executor's safety, for every setting, text, catalog and plan: its   *)
(* types, the policy around whatever the server is given, the honesty of   *)
(* its answers, the state its connection is left in, and that it           *)
(* implements GuardedExecution.                                            *)
(*                                                                         *)
(* None of these is inductive alone.  The inductive invariant adds, for    *)
(* every point of execute(), what the SET LOCALs before it have            *)
(* established, what the server has been given by then, and which errors   *)
(* can be in flight.                                                       *)
(***************************************************************************)
EXTENDS QueryExecution, SqlGuardrailsProofs

\* The points of execute() before a plan is printed, with a plan in hand and
\* the text not yet run, and while the call is being wound up.
BeforePlan ==
  {"connect", "read_only", "lock_timeout", "idle_timeout", "explain_timeout",
   "explain"}
WithPlan == {"inspect", "execution_timeout", "run"}
WindingUp == {"rollback", "close", "reply"}

HasExplained == \E s \in served : s.command = "explain"

PlanApproved == plan # None /\ PlanVerdict(plan, validation) = "approved"

\* A call in progress is about an accepted text, and has no answer yet.
RequestInv ==
  pc # "idle" =>
    /\ request \in [sql : Texts, catalog : Catalogs]
    /\ validation = Validate(request.sql, request.catalog)
    /\ validation.valid
    /\ answer = "none"

\* The connection outside a transaction.
ConnectionInv ==
  pc \in {"idle", "connect", "reply"} =>
    /\ link # "none" => pooled
    /\ link # "invalid"
    /\ session = FreshSession

\* What the SET LOCALs have established.
SettingsInv ==
  /\ pc \in {"lock_timeout", "idle_timeout", "explain_timeout", "explain",
             "inspect", "execution_timeout", "run"} => session.readOnly
  /\ pc \in {"idle_timeout", "explain_timeout", "explain", "inspect",
             "execution_timeout", "run"} => session.lockTimeout
  /\ pc = "explain" => session.statementTimeout = "explain"
  /\ pc = "run" => session.statementTimeout = "database"

\* What the server has been given, and the plan in hand.
ServedInv ==
  /\ PolicyEnforced
  /\ pc \in BeforePlan => served = {} /\ plan = None
  /\ pc \in WithPlan => ~HasRun /\ HasExplained /\ plan # None
  /\ pc \in {"execution_timeout", "run", "fetch"} => PlanApproved
  /\ pc = "fetch" => HasRun

\* The exception or the result in flight.
OutcomeInv ==
  /\ pc \in BeforePlan \cup WithPlan \cup {"fetch"} =>
       raised = NoError /\ result = None
  /\ pc \in WindingUp =>
       /\ raised = NoError => result # None
       /\ result # None =>
            /\ raised = NoError
            /\ HasRun
            /\ result = Bounded(Fetched(Available(validation, matching)))
       /\ raised.type = "plan" => ~HasRun /\ ~PlanApproved
  /\ raised.type = "plan" /\ raised.timedOut =>
       raised.code = "sql_guardrail_explain_timeout"

IInv ==
  /\ TypeOK
  /\ RequestInv
  /\ ConnectionInv
  /\ SettingsInv
  /\ ServedInv
  /\ OutcomeInv
  /\ BlockedNeverRan
  /\ AnswerIsFaithful

-----------------------------------------------------------------------------
(* The data of a call.                                                     *)

\* The accepted text of a call is a text.
LEMMA ValidatedText ==
  ASSUME NEW req \in [sql : Texts, catalog : Catalogs]
  PROVE  /\ req.sql \in SqlTexts
         /\ Validate(req.sql, req.catalog).sql \in SqlTexts
<1>1. req.sql \in SqlTexts
  BY ExecutionAssumption
<1> QED
  BY <1>1, ValidateType

\* An accepted text carries a literal LIMIT that is a natural number.
LEMMA ValidatedLimit ==
  ASSUME NEW req \in [sql : Texts, catalog : Catalogs],
         Validate(req.sql, req.catalog).valid
  PROVE  Validate(req.sql, req.catalog).sql.limit.n \in Nat
<1>1. req.sql \in SqlTexts
  BY ExecutionAssumption
<1> DEFINE v == Validate(req.sql, req.catalog)
<1>2. v.sql.limit = LiteralLimit(v.effective) /\ v.effective \in 0 .. MaxReturnedRows
  BY <1>1, AcceptedLimit
<1> HIDE DEF v
<1>3. v.sql.limit.n \in Nat
  BY <1>2, SettingsAssumption DEF LiteralLimit
<1> QED
  BY <1>3 DEF v

\* Plan errors are errors, and not of any other type.
LEMMA PlanErrorType ==
  ASSUME NEW code \in PlanErrorCodes, NEW timedOut \in BOOLEAN
  PROVE  /\ PlanError(code, timedOut) \in ErrorType
         /\ PlanError(code, timedOut) # NoError
         /\ PlanError(code, timedOut).type = "plan"
         /\ PlanError(code, timedOut).code = code
         /\ PlanError(code, timedOut).timedOut = timedOut
<1>1. PlanError(code, timedOut) \in ErrorType
  BY DEF PlanError, NoError, PlanErrors, ErrorType
<1>2. /\ PlanError(code, timedOut).type = "plan"
      /\ PlanError(code, timedOut).code = code
      /\ PlanError(code, timedOut).timedOut = timedOut
  BY DEF PlanError, NoError
<1>3. NoError.type = "none"
  BY DEF NoError
<1> QED
  BY <1>1, <1>2, <1>3

\* Database errors are errors, and not of any other type.
LEMMA DatabaseErrorType ==
  ASSUME NEW timedOut \in BOOLEAN, NEW operational \in BOOLEAN
  PROVE  /\ DatabaseError(timedOut, operational) \in ErrorType
         /\ DatabaseError(timedOut, operational) # NoError
         /\ DatabaseError(timedOut, operational).type = "database"
         /\ DatabaseError(timedOut, operational).timedOut = timedOut
<1>1. DatabaseError(timedOut, operational) \in ErrorType
  BY DEF DatabaseError, NoError, DatabaseErrors, ErrorType
<1>2. /\ DatabaseError(timedOut, operational).type = "database"
      /\ DatabaseError(timedOut, operational).timedOut = timedOut
  BY DEF DatabaseError, NoError
<1>3. NoError.type = "none"
  BY DEF NoError
<1> QED
  BY <1>1, <1>2, <1>3

\* An error is NoError, a plan error or a database error.
LEMMA ErrorCases ==
  ASSUME NEW error \in ErrorType
  PROVE  /\ error.timedOut \in BOOLEAN
         /\ \/ error = NoError
            \/ /\ error # NoError
               /\ error.type = "plan" /\ error.code \in PlanErrorCodes
            \/ /\ error # NoError /\ error.type = "database"
<1>1. CASE error = NoError
  BY <1>1 DEF NoError
<1>2. CASE error \in PlanErrors
  BY <1>2 DEF PlanErrors, NoError
<1>3. CASE error \in DatabaseErrors
  BY <1>3 DEF DatabaseErrors, NoError
<1> QED
  BY <1>1, <1>2, <1>3 DEF ErrorType

\* What a failing statement raises.
LEMMA RaiseType ==
  ASSUME NEW stmt \in Statements, NEW kind \in FailureKinds
  PROVE  LET error == Raise(stmt, kind)
         IN /\ error \in ErrorType
            /\ error # NoError
            /\ error.type = "plan" => stmt \in {"explain_timeout", "explain"}
            /\ error.type = "plan" /\ error.timedOut =>
                 error.code = "sql_guardrail_explain_timeout"
<1> DEFINE timedOut == kind = "statement_timeout"
           code == IF timedOut THEN "sql_guardrail_explain_timeout"
                               ELSE "sql_guardrail_plan_error"
<1>1. timedOut \in BOOLEAN /\ (kind # "sql_error") \in BOOLEAN
  OBVIOUS
<1>2. code \in PlanErrorCodes
  BY DEF PlanErrorCodes
<1>3. CASE stmt \in {"explain_timeout", "explain"}
  <2>1. Raise(stmt, kind) = PlanError(code, timedOut)
    BY <1>3, Zenon DEF Raise
  <2>2. timedOut => code = "sql_guardrail_explain_timeout"
    OBVIOUS
  <2> HIDE DEF timedOut, code
  <2> QED
    BY <1>1, <1>2, <1>3, <2>1, <2>2, PlanErrorType
<1>4. CASE stmt \notin {"explain_timeout", "explain"}
  <2>1. Raise(stmt, kind) = DatabaseError(timedOut, kind # "sql_error")
    BY <1>4, Zenon DEF Raise
  <2> HIDE DEF timedOut
  <2> QED
    BY <1>1, <2>1, DatabaseErrorType
<1> QED
  BY <1>3, <1>4

\* The public code of an error in flight; a statement timeout keeps its name.
LEMMA PublicCodeType ==
  ASSUME NEW error \in ErrorType, error # NoError
  PROVE  /\ error.type = "plan" =>
              PublicCode(error) = error.code /\ error.code \in PlanErrorCodes
         /\ error.type # "plan" => PublicCode(error) \in FailureCodes
         /\ error.type # "plan" /\ error.timedOut =>
              PublicCode(error) = "sql_execution_timeout"
BY ErrorCases DEF PublicCode, FailureCodes

\* Blocking codes and failure codes are different codes.
LEMMA CodesAreDisjoint ==
  /\ "executed" \notin BlockedCodes /\ "executed" \notin FailureCodes
  /\ "none" \notin BlockedCodes
  /\ \A code \in FailureCodes : code \notin BlockedCodes
  /\ PlanErrorCodes \subseteq BlockedCodes
  /\ "sql_validation_failed" \in BlockedCodes
  /\ "sql_validation_failed" \notin PlanErrorCodes
BY DEF BlockedCodes, PlanErrorCodes, FailureCodes

\* The checks on a plan approve it or name a plan error.
LEMMA VerdictType ==
  ASSUME NEW p, NEW v, PlanVerdict(p, v) # "approved"
  PROVE  PlanVerdict(p, v) \in PlanErrorCodes
BY DEF PlanVerdict, PlanErrorCodes

\* The rows an answer carries, and its truncated flag.
LEMMA BoundedRows ==
  ASSUME NEW available \in Nat
  PROVE  LET r == Bounded(Fetched(available))
         IN /\ r \in [rows : 0 .. MaxRows, truncated : BOOLEAN]
            /\ r # None
            /\ r.truncated <=> available > MaxRows
            /\ ~r.truncated => r.rows = available
            /\ r.truncated => r.rows = MaxRows
<1> DEFINE f == Fetched(available)
           r == Bounded(f)
<1>1. MaxRows \in Nat
  BY ExecutionAssumption
<1>2. /\ f \in Nat /\ (f > MaxRows <=> available > MaxRows)
      /\ ~(f > MaxRows) => f = available
  BY <1>1 DEF Fetched
<1> HIDE DEF f
<1>3. /\ r.rows = IF f > MaxRows THEN MaxRows ELSE f
      /\ r.truncated = (f > MaxRows)
      /\ r = [rows |-> IF f > MaxRows THEN MaxRows ELSE f, truncated |-> f > MaxRows]
  BY DEF Bounded
<1>4. r \in [rows : 0 .. MaxRows, truncated : BOOLEAN]
  BY <1>1, <1>2, <1>3
<1>5. r \in [rows : Nat, truncated : BOOLEAN]
  BY <1>1, <1>2, <1>3
<1> HIDE DEF r
<1>6. r # None
  BY <1>5, ExecutionAssumption
<1>7. /\ r.truncated <=> available > MaxRows
      /\ ~r.truncated => r.rows = available
      /\ r.truncated => r.rows = MaxRows
  BY <1>2, <1>3
<1> QED
  BY <1>4, <1>6, <1>7 DEF r, f

\* The number of rows the server has is a natural number.
LEMMA AvailableType ==
  ASSUME NEW req \in [sql : Texts, catalog : Catalogs],
         Validate(req.sql, req.catalog).valid, NEW m \in 0 .. MaxMatches
  PROVE  Available(Validate(req.sql, req.catalog), m) \in Nat
BY ValidatedLimit, ExecutionAssumption DEF Available

-----------------------------------------------------------------------------
(* The invariant.                                                          *)

\* A new connection has a session.
LEMMA FreshSessionType == FreshSession \in SessionType
BY ExecutionAssumption DEF FreshSession, SessionType

\* What the server is given at pc is new at most in one entry, which carries the
\* validated text and the settings the SET LOCALs have established.
LEMMA ServedUnderPolicy ==
  ASSUME TypeOK, RequestInv, SettingsInv, pc \in {"explain", "run"}
  PROVE  /\ Served(pc) \subseteq ServedType
         /\ served \subseteq Served(pc)
         /\ \E s \in Served(pc) : s.command = pc
         /\ \A s \in Served(pc) :
              \/ s \in served
              \/ /\ s.command = pc /\ s.sql = validation.sql
                 /\ s.readOnly /\ s.lockTimeout
                 /\ s.statementTimeout =
                      IF pc = "explain" THEN "explain" ELSE "database"
<1> DEFINE new == [command |-> pc, sql |-> validation.sql,
                   readOnly |-> session.readOnly,
                   lockTimeout |-> session.lockTimeout,
                   statementTimeout |-> session.statementTimeout]
<1>1. Served(pc) = served \cup {new}
  BY DEF Served
<1>2. validation.sql \in SqlTexts
  BY ValidatedText DEF RequestInv
<1>3. new \in ServedType
  BY <1>2 DEF TypeOK, SessionType, ServedType
<1>4. /\ new.command = pc /\ new.sql = validation.sql
      /\ new.readOnly /\ new.lockTimeout
      /\ new.statementTimeout = IF pc = "explain" THEN "explain" ELSE "database"
  BY DEF SettingsInv
<1> HIDE DEF new
<1> QED
  BY <1>1, <1>3, <1>4 DEF TypeOK

\* Every reachable state satisfies the inductive invariant.
THEOREM ExecutionInvariant == Spec => []IInv
<1>1. Init => IInv
  <2> SUFFICES ASSUME Init PROVE IInv
    OBVIOUS
  <2>1. TypeOK
    <3>1. 0 \in 0 .. MaxMatches
      BY ExecutionAssumption
    <3> QED
      BY <3>1, FreshSessionType DEF Init, TypeOK, PcValues, ErrorType
  <2>2. RequestInv /\ ConnectionInv /\ SettingsInv
    BY DEF Init, RequestInv, ConnectionInv, SettingsInv
  <2>3. ServedInv /\ OutcomeInv
    BY DEF Init, ServedInv, OutcomeInv, PolicyEnforced, HasRun, BeforePlan,
       WithPlan, WindingUp, NoError
  <2>4. BlockedNeverRan /\ AnswerIsFaithful
    BY DEF Init, BlockedNeverRan, AnswerIsFaithful, HasRun
  <2> QED
    BY <2>1, <2>2, <2>3, <2>4 DEF IInv
<1>2. IInv /\ [Next]_vars => IInv'
  <2> SUFFICES ASSUME IInv, [Next]_vars PROVE IInv'
    OBVIOUS
  <2>0. /\ TypeOK /\ RequestInv /\ ConnectionInv /\ SettingsInv
        /\ ServedInv /\ OutcomeInv /\ BlockedNeverRan /\ AnswerIsFaithful
    BY DEF IInv
  <2>a. pc' # "idle" /\ answer' = "none" => BlockedNeverRan' /\ AnswerIsFaithful'
    BY CodesAreDisjoint DEF BlockedNeverRan, AnswerIsFaithful
  <2>1. ASSUME NEW sql \in Texts, NEW catalog \in Catalogs, Execute(sql, catalog)
        PROVE  IInv'
    <3>1. /\ pc = "idle" /\ request' = [sql |-> sql, catalog |-> catalog]
          /\ validation' = Validate(sql, catalog)
          /\ plan' = None /\ matching' = 0 /\ result' = None /\ raised' = NoError
          /\ served' = {} /\ UNCHANGED <<link, pooled, session>>
          /\ \/ validation'.valid /\ pc' = "connect" /\ answer' = "none"
             \/ pc' = "idle" /\ answer' = "sql_validation_failed"
      BY <2>1 DEF Execute, connectionVars
    <3>2. TypeOK'
      BY <2>0, <3>1, ExecutionAssumption, CodesAreDisjoint
      DEF TypeOK, PcValues, ErrorType
    <3>3. RequestInv' /\ ConnectionInv' /\ SettingsInv'
      BY <2>0, <3>1 DEF RequestInv, ConnectionInv, SettingsInv
    <3>4. ServedInv' /\ OutcomeInv'
      BY <3>1 DEF ServedInv, OutcomeInv, PolicyEnforced, HasRun, BeforePlan,
         WithPlan, WindingUp, NoError
    <3>5. BlockedNeverRan' /\ AnswerIsFaithful'
      BY <3>1 DEF BlockedNeverRan, AnswerIsFaithful, HasRun
    <3> QED
      BY <3>2, <3>3, <3>4, <3>5 DEF IInv
  <2>2. CASE ReuseConnection
    <3>1. TypeOK'
      BY <2>0, <2>2, FreshSessionType DEF TypeOK, ReuseConnection, dataVars,
         connectionVars, PcValues, Statements, SetStatements
    <3>2. RequestInv' /\ ConnectionInv' /\ SettingsInv'
      BY <2>0, <2>2 DEF RequestInv, ConnectionInv, SettingsInv,
         ReuseConnection, dataVars, connectionVars
    <3>3. ServedInv'
      BY <2>0, <2>2 DEF ServedInv, PolicyEnforced, HasRun, HasExplained,
         PlanApproved, BeforePlan, WithPlan, WindingUp, ReuseConnection,
         dataVars, connectionVars
    <3>4. OutcomeInv'
      BY <2>0, <2>2 DEF OutcomeInv, HasRun, PlanApproved, BeforePlan,
         WithPlan, WindingUp, ReuseConnection, dataVars, connectionVars
    <3>5. BlockedNeverRan' /\ AnswerIsFaithful'
      BY <2>0, <2>a, <2>2 DEF RequestInv, ReuseConnection, dataVars,
         connectionVars
    <3> QED
      BY <3>1, <3>2, <3>3, <3>4, <3>5 DEF IInv
  <2>3. CASE OpenConnection
    <3>1. TypeOK'
      BY <2>0, <2>3, FreshSessionType DEF TypeOK, OpenConnection, dataVars,
         connectionVars, PcValues, Statements, SetStatements
    <3>2. RequestInv' /\ ConnectionInv' /\ SettingsInv'
      BY <2>0, <2>3 DEF RequestInv, ConnectionInv, SettingsInv,
         OpenConnection, dataVars, connectionVars
    <3>3. ServedInv'
      BY <2>0, <2>3 DEF ServedInv, PolicyEnforced, HasRun, HasExplained,
         PlanApproved, BeforePlan, WithPlan, WindingUp, OpenConnection,
         dataVars, connectionVars
    <3>4. OutcomeInv'
      BY <2>0, <2>3 DEF OutcomeInv, HasRun, PlanApproved, BeforePlan,
         WithPlan, WindingUp, OpenConnection, dataVars, connectionVars
    <3>5. BlockedNeverRan' /\ AnswerIsFaithful'
      BY <2>0, <2>a, <2>3 DEF RequestInv, OpenConnection, dataVars,
         connectionVars
    <3> QED
      BY <3>1, <3>2, <3>3, <3>4, <3>5 DEF IInv
  <2>4. CASE ConnectFails
    <3>0. PICK timedOut \in BOOLEAN : raised' = DatabaseError(timedOut, TRUE)
      BY <2>4 DEF ConnectFails
    <3>a. /\ raised' \in ErrorType /\ raised' # NoError
          /\ raised'.type = "database"
      BY <3>0, DatabaseErrorType
    <3>1. TypeOK'
      BY <2>0, <2>4, <3>a, FreshSessionType
      DEF TypeOK, ConnectFails, dataVars, PcValues
    <3>2. RequestInv' /\ ConnectionInv' /\ SettingsInv'
      BY <2>0, <2>4 DEF RequestInv, ConnectionInv, SettingsInv, ConnectFails,
         dataVars
    <3>3. ServedInv'
      BY <2>0, <2>4 DEF ServedInv, PolicyEnforced, HasRun, BeforePlan, WithPlan,
         ConnectFails, dataVars
    <3>4. OutcomeInv'
      BY <2>0, <2>4, <3>a DEF OutcomeInv, BeforePlan, WithPlan, ConnectFails,
         dataVars
    <3>5. BlockedNeverRan' /\ AnswerIsFaithful'
      BY <2>0, <2>a, <2>4 DEF RequestInv, ConnectFails
    <3> QED
      BY <3>1, <3>2, <3>3, <3>4, <3>5 DEF IInv
  <2>5. CASE SetLocal
    <3>0. /\ session' \in SessionType
          /\ \/ /\ pc = "read_only" /\ pc' = "lock_timeout"
                /\ session'.readOnly
             \/ /\ pc = "lock_timeout" /\ pc' = "idle_timeout"
                /\ session'.readOnly = session.readOnly /\ session'.lockTimeout
             \/ /\ pc = "idle_timeout" /\ pc' = "explain_timeout"
                /\ session'.readOnly = session.readOnly
                /\ session'.lockTimeout = session.lockTimeout
             \/ /\ pc = "explain_timeout" /\ pc' = "explain"
                /\ session'.readOnly = session.readOnly
                /\ session'.lockTimeout = session.lockTimeout
                /\ session'.statementTimeout = "explain"
             \/ /\ pc = "execution_timeout" /\ pc' = "run"
                /\ session'.readOnly = session.readOnly
                /\ session'.lockTimeout = session.lockTimeout
                /\ session'.statementTimeout = "database"
      <4>1. session \in SessionType
        BY <2>0 DEF TypeOK
      <4>2. pc' = Following[pc] /\ session' = Configured(pc)
        BY <2>5 DEF SetLocal
      <4>3. CASE pc = "read_only"
        BY <4>1, <4>2, <4>3 DEF Following, Configured, SessionType
      <4>4. CASE pc = "lock_timeout"
        BY <4>1, <4>2, <4>4 DEF Following, Configured, SessionType
      <4>5. CASE pc = "idle_timeout"
        BY <4>1, <4>2, <4>5 DEF Following, Configured, SessionType
      <4>6. CASE pc = "explain_timeout"
        BY <4>1, <4>2, <4>6 DEF Following, Configured, SessionType
      <4>7. CASE pc = "execution_timeout"
        BY <4>1, <4>2, <4>7 DEF Following, Configured, SessionType
      <4> QED
        BY <2>5, <4>3, <4>4, <4>5, <4>6, <4>7 DEF SetLocal, SetStatements
    <3>a. UNCHANGED <<request, validation, plan, matching, result, link, pooled,
                      raised, answer, served>>
      BY <2>5 DEF SetLocal, dataVars
    <3>1. TypeOK'
      BY <2>0, <3>0, <3>a DEF TypeOK, PcValues, Statements, SetStatements
    <3>2. RequestInv' /\ ConnectionInv' /\ SettingsInv'
      BY <2>0, <3>0, <3>a DEF RequestInv, ConnectionInv, SettingsInv
    <3>3. ServedInv'
      BY <2>0, <3>0, <3>a DEF ServedInv, PolicyEnforced, HasRun, HasExplained,
         PlanApproved, BeforePlan, WithPlan
    <3>4. OutcomeInv'
      BY <2>0, <3>0, <3>a DEF OutcomeInv, BeforePlan, WithPlan, WindingUp
    <3>5. BlockedNeverRan' /\ AnswerIsFaithful'
      BY <2>0, <2>a, <3>0, <3>a DEF RequestInv
    <3> QED
      BY <3>1, <3>2, <3>3, <3>4, <3>5 DEF IInv
  <2>6. CASE Explain
    <3>0. /\ pc = "explain" /\ pc' = "inspect"
          /\ plan' \in Plans /\ plan' # None
          /\ served' = Served(pc)
          /\ UNCHANGED <<request, validation, matching, result, link, pooled,
                         session, raised, answer>>
      BY <2>6, ExecutionAssumption DEF Explain, connectionVars
    <3>a. served = {}
      BY <2>0, <3>0 DEF ServedInv, BeforePlan
    <3>1. TypeOK'
      BY <2>0, <3>0, ServedUnderPolicy DEF TypeOK, PcValues
    <3>2. RequestInv' /\ ConnectionInv' /\ SettingsInv'
      BY <2>0, <3>0 DEF RequestInv, ConnectionInv, SettingsInv
    <3>3. ServedInv'
      <4>1. /\ ~HasRun' /\ HasExplained'
            /\ \A s \in served' :
                 /\ validation'.valid /\ s.sql = validation'.sql
                 /\ s.readOnly /\ s.lockTimeout
                 /\ s.statementTimeout =
                      IF s.command = "explain" THEN "explain" ELSE "database"
        BY <2>0, <3>0, <3>a, ServedUnderPolicy DEF HasRun, HasExplained,
           RequestInv
      <4> QED
        BY <3>0, <4>1 DEF ServedInv, PolicyEnforced, BeforePlan, WithPlan
    <3>4. OutcomeInv'
      BY <2>0, <3>0 DEF OutcomeInv, BeforePlan, WithPlan, WindingUp
    <3>5. BlockedNeverRan' /\ AnswerIsFaithful'
      BY <2>0, <2>a, <3>0 DEF RequestInv
    <3> QED
      BY <3>1, <3>2, <3>3, <3>4, <3>5 DEF IInv
  <2>7. CASE InspectPlan
    <3>0. /\ pc = "inspect"
          /\ UNCHANGED <<request, validation, plan, matching, result, link, pooled,
                         session, answer, served>>
          /\ \/ /\ PlanVerdict(plan, validation) = "approved"
                /\ pc' = "execution_timeout" /\ UNCHANGED raised
             \/ /\ PlanVerdict(plan, validation) # "approved"
                /\ pc' = "rollback"
                /\ raised' = PlanError(PlanVerdict(plan, validation), FALSE)
      BY <2>7 DEF InspectPlan, dataVars, connectionVars
    <3>a. PlanVerdict(plan, validation) # "approved" =>
            /\ raised' \in ErrorType /\ raised' # NoError
            /\ raised'.type = "plan" /\ ~raised'.timedOut
      <4>1. FALSE \in BOOLEAN
        OBVIOUS
      <4>2. PlanVerdict(plan, validation) # "approved" =>
              PlanVerdict(plan, validation) \in PlanErrorCodes
        BY VerdictType
      <4> QED
        BY <3>0, <4>1, <4>2, PlanErrorType
    <3>1. TypeOK'
      BY <2>0, <3>0, <3>a DEF TypeOK, PcValues, Statements, SetStatements
    <3>2. RequestInv' /\ ConnectionInv' /\ SettingsInv'
      BY <2>0, <3>0 DEF RequestInv, ConnectionInv, SettingsInv
    <3>3. ServedInv'
      BY <2>0, <3>0 DEF ServedInv, PolicyEnforced, HasRun, HasExplained,
         PlanApproved, BeforePlan, WithPlan
    <3>4. OutcomeInv'
      <4>1. raised = NoError /\ result = None /\ ~HasRun
        BY <2>0, <3>0 DEF OutcomeInv, ServedInv, WithPlan
      <4>2. ~HasRun'
        BY <3>0, <4>1 DEF HasRun
      <4>3. CASE PlanVerdict(plan, validation) = "approved"
        BY <3>0, <4>1, <4>3 DEF OutcomeInv, BeforePlan, WithPlan, WindingUp,
           NoError
      <4>4. CASE PlanVerdict(plan, validation) # "approved"
        <5>1. ~PlanApproved'
          BY <3>0, <4>4 DEF PlanApproved
        <5> QED
          BY <3>0, <3>a, <4>1, <4>2, <4>4, <5>1
          DEF OutcomeInv, BeforePlan, WithPlan, WindingUp
      <4> QED
        BY <4>3, <4>4
    <3>5. BlockedNeverRan' /\ AnswerIsFaithful'
      BY <2>0, <2>a, <3>0 DEF RequestInv
    <3> QED
      BY <3>1, <3>2, <3>3, <3>4, <3>5 DEF IInv
  <2>8. CASE RunSql
    <3>0. /\ pc = "run" /\ pc' = "fetch"
          /\ matching' \in 0 .. MaxMatches
          /\ served' = Served(pc)
          /\ UNCHANGED <<request, validation, plan, result, link, pooled, session,
                         raised, answer>>
      BY <2>8 DEF RunSql, connectionVars
    <3>1. TypeOK'
      BY <2>0, <3>0, ServedUnderPolicy DEF TypeOK, PcValues
    <3>2. RequestInv' /\ ConnectionInv' /\ SettingsInv'
      BY <2>0, <3>0 DEF RequestInv, ConnectionInv, SettingsInv
    <3>3. ServedInv'
      <4>1. HasExplained /\ PlanApproved /\ PolicyEnforced
        BY <2>0, <3>0 DEF ServedInv, WithPlan
      <4>2. /\ HasRun' /\ HasExplained' /\ PlanApproved'
            /\ \A s \in served' :
                 /\ validation'.valid /\ s.sql = validation'.sql
                 /\ s.readOnly /\ s.lockTimeout
                 /\ s.statementTimeout =
                      IF s.command = "explain" THEN "explain" ELSE "database"
        BY <2>0, <3>0, <4>1, ServedUnderPolicy DEF HasRun, HasExplained,
           PlanApproved, PolicyEnforced, RequestInv
      <4> QED
        BY <3>0, <4>2 DEF ServedInv, PolicyEnforced, HasExplained, PlanApproved,
           BeforePlan, WithPlan
    <3>4. OutcomeInv'
      BY <2>0, <3>0 DEF OutcomeInv, BeforePlan, WithPlan, WindingUp
    <3>5. BlockedNeverRan' /\ AnswerIsFaithful'
      BY <2>0, <2>a, <3>0 DEF RequestInv
    <3> QED
      BY <3>1, <3>2, <3>3, <3>4, <3>5 DEF IInv
  <2>9. CASE FetchRows
    <3>0. /\ pc = "fetch" /\ pc' = "rollback"
          /\ result' = Bounded(Fetched(Available(validation, matching)))
          /\ UNCHANGED <<request, validation, plan, matching, link, pooled, session,
                         raised, answer, served>>
      BY <2>9 DEF FetchRows, connectionVars
    <3>a. Available(validation, matching) \in Nat
      BY <2>0, <3>0, AvailableType DEF RequestInv, TypeOK
    <3>b. /\ result' \in [rows : 0 .. MaxRows, truncated : BOOLEAN]
          /\ result' # None
      BY <3>0, <3>a, BoundedRows
    <3>1. TypeOK'
      BY <2>0, <3>0, <3>b DEF TypeOK, PcValues
    <3>2. RequestInv' /\ ConnectionInv' /\ SettingsInv'
      BY <2>0, <3>0 DEF RequestInv, ConnectionInv, SettingsInv
    <3>3. ServedInv'
      BY <2>0, <3>0 DEF ServedInv, PolicyEnforced, HasRun, BeforePlan, WithPlan
    <3>4. OutcomeInv'
      <4>1. raised = NoError /\ HasRun /\ HasRun'
        BY <2>0, <3>0 DEF OutcomeInv, ServedInv, HasRun
      <4>2. raised' = NoError /\ raised'.type = "none" /\ ~raised'.timedOut
        BY <3>0, <4>1 DEF NoError
      <4> QED
        BY <3>0, <3>b, <4>1, <4>2 DEF OutcomeInv, BeforePlan, WithPlan,
           WindingUp
    <3>5. BlockedNeverRan' /\ AnswerIsFaithful'
      BY <2>0, <2>a, <3>0 DEF RequestInv
    <3> QED
      BY <3>1, <3>2, <3>3, <3>4, <3>5 DEF IInv
  <2>10. CASE StatementFails
    <3>0. PICK kind \in FailureKinds :
            /\ raised' = Raise(pc, kind)
            /\ link' = IF kind = "lost" THEN "invalid" ELSE link
            /\ session' = [session EXCEPT !.open = TRUE, !.aborted = TRUE]
      BY <2>10 DEF StatementFails
    <3>a. /\ pc \in Statements /\ pc' = "rollback"
          /\ UNCHANGED <<request, validation, plan, matching, result, pooled, answer>>
          /\ \/ pc \in {"explain", "run"} /\ served' = Served(pc)
             \/ UNCHANGED served
      BY <2>10 DEF StatementFails, dataVars
    <3>b. /\ raised' \in ErrorType /\ raised' # NoError
          /\ raised'.type = "plan" => pc \in {"explain_timeout", "explain"}
          /\ raised'.type = "plan" /\ raised'.timedOut =>
               raised'.code = "sql_guardrail_explain_timeout"
      BY <3>0, <3>a, RaiseType
    <3>c. pc # "idle" /\ pc \in BeforePlan \cup WithPlan
      BY <3>a DEF Statements, SetStatements, BeforePlan, WithPlan
    <3>1. TypeOK'
      <4>1. session' \in SessionType /\ link' \in {"none", "up", "down", "invalid"}
        BY <2>0, <3>0 DEF TypeOK, SessionType
      <4>2. served' \subseteq ServedType
        BY <2>0, <3>a, ServedUnderPolicy DEF TypeOK
      <4> QED
        BY <2>0, <3>a, <3>b, <4>1, <4>2 DEF TypeOK, PcValues
    <3>2. RequestInv' /\ ConnectionInv' /\ SettingsInv'
      BY <2>0, <3>a, <3>c DEF RequestInv, ConnectionInv, SettingsInv
    <3>d. pc \in BeforePlan => ~HasRun' /\ ~PlanApproved'
      <4>1. pc \in BeforePlan => served = {} /\ plan' = None
        BY <2>0, <3>a DEF ServedInv
      <4>2. pc \in BeforePlan => pc # "run"
        BY DEF BeforePlan
      <4>3. pc \in BeforePlan => \A s \in served' : s.command # "run"
        BY <2>0, <3>a, <4>1, <4>2, ServedUnderPolicy
      <4> QED
        BY <4>1, <4>3 DEF HasRun, PlanApproved
    <3>3. ServedInv'
      <4>1. /\ PolicyEnforced /\ validation.valid
            /\ pc = "run" => PlanApproved /\ HasExplained
            /\ ~HasRun
        BY <2>0, <3>c DEF ServedInv, RequestInv, WithPlan, BeforePlan, HasRun
      <4>2. \A s \in served' :
              /\ validation'.valid /\ s.sql = validation'.sql
              /\ s.readOnly /\ s.lockTimeout
              /\ s.statementTimeout =
                   IF s.command = "explain" THEN "explain" ELSE "database"
        BY <2>0, <3>a, <4>1, ServedUnderPolicy DEF PolicyEnforced
      <4>3. HasRun' => pc = "run"
        BY <2>0, <3>a, <4>1, ServedUnderPolicy DEF HasRun
      <4>4. HasRun' => HasExplained' /\ PlanApproved'
        BY <2>0, <3>a, <4>1, <4>3, ServedUnderPolicy DEF HasExplained,
           PlanApproved
      <4> QED
        BY <3>a, <4>2, <4>4 DEF ServedInv, PolicyEnforced, HasExplained,
           PlanApproved,
           BeforePlan, WithPlan
    <3>4. OutcomeInv'
      <4>1. result' = None
        BY <2>0, <3>a, <3>c DEF OutcomeInv
      <4>2. raised'.type = "plan" => pc \in BeforePlan
        BY <3>b DEF BeforePlan
      <4> QED
        BY <3>a, <3>b, <3>d, <4>1, <4>2 DEF OutcomeInv, BeforePlan, WithPlan,
           WindingUp
    <3>5. BlockedNeverRan' /\ AnswerIsFaithful'
      BY <2>0, <2>a, <3>a, <3>c DEF RequestInv
    <3> QED
      BY <3>1, <3>2, <3>3, <3>4, <3>5 DEF IInv
  <2>11. CASE RollBack
    <3>1. TypeOK'
      BY <2>0, <2>11, FreshSessionType DEF TypeOK, RollBack, dataVars,
         connectionVars, PcValues, Statements, SetStatements
    <3>2. RequestInv' /\ ConnectionInv' /\ SettingsInv'
      BY <2>0, <2>11 DEF RequestInv, ConnectionInv, SettingsInv, RollBack,
         dataVars, connectionVars
    <3>3. ServedInv'
      BY <2>0, <2>11 DEF ServedInv, PolicyEnforced, HasRun, HasExplained,
         PlanApproved, BeforePlan, WithPlan, WindingUp, RollBack, dataVars,
         connectionVars
    <3>4. OutcomeInv'
      BY <2>0, <2>11 DEF OutcomeInv, HasRun, PlanApproved, BeforePlan,
         WithPlan, WindingUp, RollBack, dataVars, connectionVars
    <3>5. BlockedNeverRan' /\ AnswerIsFaithful'
      BY <2>0, <2>a, <2>11 DEF RequestInv, RollBack, dataVars, connectionVars
    <3> QED
      BY <3>1, <3>2, <3>3, <3>4, <3>5 DEF IInv
  <2>12. CASE RollBackFails
    <3>0. /\ pc = "rollback" /\ pc' = "close" /\ link' = "invalid"
          /\ raised' = DatabaseError(raised.timedOut, TRUE)
          /\ result' = None /\ session' = FreshSession
          /\ UNCHANGED <<request, validation, plan, matching, pooled, answer, served>>
      BY <2>12 DEF RollBackFails
    <3>a. /\ raised' \in ErrorType /\ raised' # NoError
          /\ raised'.type = "database"
      BY <2>0, <3>0, ErrorCases, DatabaseErrorType DEF TypeOK
    <3>1. TypeOK'
      BY <2>0, <3>0, <3>a, FreshSessionType DEF TypeOK, PcValues
    <3>2. RequestInv' /\ ConnectionInv' /\ SettingsInv'
      BY <2>0, <3>0 DEF RequestInv, ConnectionInv, SettingsInv
    <3>3. ServedInv'
      BY <2>0, <3>0 DEF ServedInv, PolicyEnforced, HasRun, BeforePlan, WithPlan
    <3>4. OutcomeInv'
      BY <3>0, <3>a DEF OutcomeInv, BeforePlan, WithPlan
    <3>5. BlockedNeverRan' /\ AnswerIsFaithful'
      BY <2>0, <2>a, <3>0 DEF RequestInv
    <3> QED
      BY <3>1, <3>2, <3>3, <3>4, <3>5 DEF IInv
  <2>13. CASE CloseConnection
    <3>1. TypeOK'
      BY <2>0, <2>13, FreshSessionType DEF TypeOK, CloseConnection, dataVars,
         connectionVars, PcValues, Statements, SetStatements
    <3>2. RequestInv' /\ ConnectionInv' /\ SettingsInv'
      BY <2>0, <2>13 DEF RequestInv, ConnectionInv, SettingsInv,
         CloseConnection, dataVars, connectionVars
    <3>3. ServedInv'
      BY <2>0, <2>13 DEF ServedInv, PolicyEnforced, HasRun, HasExplained,
         PlanApproved, BeforePlan, WithPlan, WindingUp, CloseConnection,
         dataVars, connectionVars
    <3>4. OutcomeInv'
      BY <2>0, <2>13 DEF OutcomeInv, HasRun, PlanApproved, BeforePlan,
         WithPlan, WindingUp, CloseConnection, dataVars, connectionVars
    <3>5. BlockedNeverRan' /\ AnswerIsFaithful'
      BY <2>0, <2>a, <2>13 DEF RequestInv, CloseConnection, dataVars,
         connectionVars
    <3> QED
      BY <3>1, <3>2, <3>3, <3>4, <3>5 DEF IInv
  <2>14. CASE Reply
    <3>0. /\ pc = "reply" /\ pc' = "idle"
          /\ answer' = IF raised = NoError THEN "executed" ELSE PublicCode(raised)
          /\ UNCHANGED <<request, validation, plan, matching, result, link, pooled,
                         session, raised, served>>
      BY <2>14 DEF Reply, dataVars, connectionVars
    <3>a. ASSUME raised = NoError
          PROVE  BlockedNeverRan' /\ AnswerIsFaithful'
      <4>1. /\ answer' = "executed"
            /\ HasRun' /\ result' # None
            /\ result' = Bounded(Fetched(Available(validation', matching')))
        BY <2>0, <3>0, <3>a DEF OutcomeInv, WindingUp, HasRun
      <4>2. Available(validation', matching') \in Nat
        BY <2>0, <3>0, AvailableType DEF RequestInv, TypeOK
      <4>3. AnswerIsFaithful'
        <5>1. /\ result'.truncated <=> Available(validation', matching') > MaxRows
              /\ ~result'.truncated => result'.rows = Available(validation', matching')
              /\ result'.truncated => result'.rows = MaxRows
              /\ result' \in [rows : 0 .. MaxRows, truncated : BOOLEAN]
          BY <4>1, <4>2, BoundedRows
        <5>2. result'.rows <= MaxRows
          BY <5>1, ExecutionAssumption
        <5> QED
          BY <4>1, <5>1, <5>2 DEF AnswerIsFaithful
      <4>4. BlockedNeverRan'
        BY <4>1, CodesAreDisjoint DEF BlockedNeverRan
      <4> QED
        BY <4>1, <4>3, <4>4
    <3>b. ASSUME raised # NoError
          PROVE  BlockedNeverRan' /\ AnswerIsFaithful'
      <4>1. answer' = PublicCode(raised) /\ raised \in ErrorType
        BY <2>0, <3>0, <3>b DEF TypeOK
      <4>2. answer' \in PlanErrorCodes \cup FailureCodes
        BY <3>b, <4>1, PublicCodeType
      <4>3. result' = None
        BY <2>0, <3>0, <3>b DEF OutcomeInv, WindingUp
      <4>4. answer' \in PlanErrorCodes => ~HasRun'
        <5>1. answer' \in PlanErrorCodes => raised.type = "plan"
          BY <3>b, <4>1, PublicCodeType, CodesAreDisjoint
        <5> QED
          BY <2>0, <3>0, <5>1 DEF OutcomeInv, WindingUp, HasRun
      <4> QED
        BY <3>0, <4>2, <4>3, <4>4, CodesAreDisjoint
        DEF BlockedNeverRan, AnswerIsFaithful, BlockedCodes
    <3>c. answer' \in BlockedCodes \cup FailureCodes \cup {"none", "executed"}
      BY <2>0, <3>0, PublicCodeType, ErrorCases, CodesAreDisjoint DEF TypeOK
    <3>1. TypeOK'
      BY <2>0, <3>0, <3>c DEF TypeOK, PcValues
    <3>2. RequestInv' /\ ConnectionInv' /\ SettingsInv'
      BY <2>0, <3>0 DEF RequestInv, ConnectionInv, SettingsInv
    <3>3. ServedInv'
      BY <2>0, <3>0 DEF ServedInv, PolicyEnforced, HasRun, BeforePlan, WithPlan
    <3>4. OutcomeInv'
      BY <2>0, <3>0 DEF OutcomeInv, BeforePlan, WithPlan, WindingUp
    <3> QED
      BY <3>1, <3>2, <3>3, <3>4, <3>a, <3>b DEF IInv
  <2>15. CASE DropConnection
    <3>1. TypeOK'
      BY <2>0, <2>15, FreshSessionType DEF TypeOK, DropConnection, dataVars,
         connectionVars, PcValues, Statements, SetStatements
    <3>2. RequestInv' /\ ConnectionInv' /\ SettingsInv'
      BY <2>0, <2>15 DEF RequestInv, ConnectionInv, SettingsInv,
         DropConnection, dataVars, connectionVars
    <3>3. ServedInv'
      BY <2>0, <2>15 DEF ServedInv, PolicyEnforced, HasRun, HasExplained,
         PlanApproved, BeforePlan, WithPlan, WindingUp, DropConnection,
         dataVars, connectionVars
    <3>4. OutcomeInv'
      BY <2>0, <2>15 DEF OutcomeInv, HasRun, PlanApproved, BeforePlan,
         WithPlan, WindingUp, DropConnection, dataVars, connectionVars
    <3>5. BlockedNeverRan' /\ AnswerIsFaithful'
      BY <2>0, <2>15 DEF BlockedNeverRan, AnswerIsFaithful, HasRun,
         DropConnection, dataVars, connectionVars
    <3> QED
      BY <3>1, <3>2, <3>3, <3>4, <3>5 DEF IInv
  <2>16. CASE UNCHANGED vars
    BY <2>16 DEF vars, IInv, TypeOK, RequestInv, ConnectionInv, SettingsInv,
       ServedInv, PolicyEnforced, HasRun, HasExplained, PlanApproved, OutcomeInv,
       BlockedNeverRan, AnswerIsFaithful
  <2> QED
    BY <2>1, <2>2, <2>3, <2>4, <2>5, <2>6, <2>7, <2>8, <2>9, <2>10, <2>11,
       <2>12, <2>13, <2>14, <2>15, <2>16
    DEF Next, CallStep
<1> QED
  BY <1>1, <1>2, PTL DEF Spec

-----------------------------------------------------------------------------
(* What follows from it.                                                   *)

\* Every variable of the executor has its type.
THEOREM ExecutionTypeOK == Spec => []TypeOK
BY ExecutionInvariant, PTL DEF IInv

\* Whatever the server is given is the validated text of this call, read-only,
\* with the lock timeout set and the right statement timeout, and it runs only
\* after an approved plan.
THEOREM PolicyEnforcedHolds == Spec => []PolicyEnforced
<1>1. IInv => PolicyEnforced
  BY DEF IInv, ServedInv
<1> QED
  BY <1>1, ExecutionInvariant, PTL

\* An answer that says "blocked" means that the database never ran the SQL.
THEOREM BlockedNeverRanHolds == Spec => []BlockedNeverRan
<1>1. IInv => BlockedNeverRan
  BY DEF IInv
<1> QED
  BY <1>1, ExecutionInvariant, PTL

\* A successful answer carries the rows the database had for the executed text,
\* or a prefix of MaxRows of them marked truncated; no other answer has rows.
THEOREM AnswerIsFaithfulHolds == Spec => []AnswerIsFaithful
<1>1. IInv => AnswerIsFaithful
  BY DEF IInv
<1> QED
  BY <1>1, ExecutionInvariant, PTL

\* Between calls the connection is in the pool and carries nothing over.
THEOREM ConnectionIsReturnedHolds == Spec => []ConnectionIsReturned
<1>1. IInv => ConnectionIsReturned
  BY DEF IInv, ConnectionInv, ConnectionIsReturned
<1> QED
  BY <1>1, ExecutionInvariant, PTL

-----------------------------------------------------------------------------
(* Steps.                                                                  *)

\* In the middle of a call that has a timeout in flight, only the wind-up is
\* left to do, and it keeps the timeout.
LEMMA TimeoutStep ==
  ASSUME IInv, [Next]_vars, raised.timedOut, pc # "idle"
  PROVE  /\ raised'.timedOut
         /\ pc = "reply" /\ pc' = "idle" =>
              answer' \in {"sql_guardrail_explain_timeout", "sql_execution_timeout"}
<1>1. raised \in ErrorType /\ raised # NoError
  BY DEF IInv, TypeOK, NoError
<1>2. pc \in WindingUp
  <2>1. pc \notin BeforePlan \cup WithPlan \cup {"fetch"}
    BY <1>1 DEF IInv, OutcomeInv
  <2>2. pc \in PcValues
    BY DEF IInv, TypeOK
  <2> QED
    BY <2>1, <2>2 DEF PcValues, Statements, SetStatements, BeforePlan, WithPlan,
       WindingUp
<1>3. CASE RollBack \/ CloseConnection \/ DropConnection
  BY <1>2, <1>3 DEF RollBack, CloseConnection, DropConnection, WindingUp
<1>4. CASE RollBackFails
  <2>1. raised' = DatabaseError(raised.timedOut, TRUE) /\ pc' = "close"
    BY <1>4 DEF RollBackFails
  <2>2. raised.timedOut \in BOOLEAN
    BY <1>1, ErrorCases
  <2> QED
    BY <2>1, <2>2, DatabaseErrorType
<1>5. CASE Reply
  <2>1. UNCHANGED raised /\ answer' = PublicCode(raised)
    BY <1>1, <1>5 DEF Reply
  <2>2. CASE raised.type = "plan"
    <3>1. raised.code = "sql_guardrail_explain_timeout"
      BY <2>2 DEF IInv, OutcomeInv
    <3> QED
      BY <1>1, <2>1, <2>2, <3>1, PublicCodeType
  <2>3. CASE raised.type # "plan"
    BY <1>1, <2>1, <2>3, PublicCodeType
  <2> QED
    BY <2>2, <2>3
<1>6. CASE UNCHANGED vars
  BY <1>6 DEF vars
<1> QED
  BY <1>2, <1>3, <1>4, <1>5, <1>6 DEF Next, CallStep, WindingUp, Execute,
     ReuseConnection, OpenConnection, ConnectFails, SetLocal, SetStatements, Explain,
     InspectPlan, RunSql, FetchRows, StatementFails, Statements

\* A statement timeout stays a timeout up to the answer.
THEOREM TimeoutIsReportedHolds == Spec => TimeoutIsReported
<1>1. IInv /\ [Next]_vars =>
        [/\ raised.timedOut /\ pc # "idle" => raised'.timedOut
         /\ raised.timedOut /\ pc = "reply" /\ pc' = "idle" =>
              answer' \in {"sql_guardrail_explain_timeout",
                           "sql_execution_timeout"}]_vars
  BY TimeoutStep
<1> QED
  BY <1>1, ExecutionInvariant, PTL DEF Spec, TimeoutIsReported
-----------------------------------------------------------------------------
(* Refinement.  The executor implements GuardedExecution: a call is          *)
(* "submitted" until a printed plan has passed the checks, "approved" until  *)
(* the database was given the text to run, and "ran" from then on; each step *)
(* of the executor is one step of the abstract call, or none.  The inductive *)
(* invariant says in which phase each point of execute() is, and which       *)
(* errors may be in flight there, which decides the codes of an answer.      *)

\* The phase of a call in progress, by what it has done so far.
LEMMA PhaseOfCall ==
  ASSUME pc # "idle"
  PROVE  /\ HasRun => Phase = "ran"
         /\ ~HasRun /\ PlanApproved /\ pc # "inspect" => Phase = "approved"
         /\ ~HasRun /\ (~PlanApproved \/ pc = "inspect") => Phase = "submitted"
BY Zenon DEF Phase, PlanApproved

\* Steps that neither start nor end a call, print a plan, judge it or hand the
\* text over leave the phase alone.
LEMMA QuietStep ==
  ASSUME UNCHANGED <<served, plan, validation, answer>>,
         pc # "idle", pc' # "idle", pc # "inspect", pc' # "inspect"
  PROVE  UNCHANGED Abstract!vars
BY DEF Abstract!vars, Phase, HasRun

\* A new call, and one refused by the policy.
LEMMA ExecuteImplements ==
  ASSUME NEW sql \in Texts, NEW catalog \in Catalogs, Execute(sql, catalog)
  PROVE  Abstract!Next
<1>1. Phase = "idle"
  BY DEF Execute, Phase
<1>2. CASE pc' = "idle" /\ answer' = "sql_validation_failed"
  <2>1. Phase' = "idle"
    BY <1>2 DEF Phase
  <2> QED
    BY <1>1, <1>2, <2>1 DEF Abstract!Next, Abstract!Refuse
<1>3. CASE pc' = "connect" /\ answer' = "none"
  <2>1. ~HasRun' /\ plan' = None
    BY DEF Execute, HasRun
  <2>2. Phase' = "submitted"
    BY <1>3, <2>1 DEF Phase
  <2> QED
    BY <1>1, <1>3, <2>2 DEF Abstract!Next, Abstract!Submit
<1> QED
  BY <1>2, <1>3 DEF Execute

\* A plan is printed: the call stays submitted until the plan is judged.
LEMMA ExplainImplements ==
  ASSUME IInv, IInv', Explain
  PROVE  UNCHANGED Abstract!vars
<1>1. /\ pc = "explain" /\ pc' = "inspect" /\ UNCHANGED answer
      /\ ~HasRun /\ ~PlanApproved /\ ~HasRun'
  BY DEF Explain, IInv, ServedInv, BeforePlan, WithPlan, HasRun, PlanApproved
<1>2. Phase = "submitted"
  BY <1>1, PhaseOfCall
<1>3. Phase' = "submitted"
  BY <1>1 DEF Phase
<1> QED
  BY <1>1, <1>2, <1>3 DEF Abstract!vars

\* The plan is judged: the call is approved, or stays submitted.
LEMMA InspectImplements ==
  ASSUME IInv, InspectPlan
  PROVE  Abstract!Next \/ UNCHANGED Abstract!vars
<1>1. /\ pc = "inspect" /\ UNCHANGED <<plan, validation, served, answer>>
      /\ ~HasRun /\ plan # None
  BY DEF InspectPlan, dataVars, IInv, ServedInv, WithPlan
<1>2. Phase = "submitted"
  BY <1>1, PhaseOfCall
<1>3. ~HasRun'
  BY <1>1 DEF HasRun
<1>4. CASE PlanVerdict(plan, validation) = "approved"
  <2>1. pc' = "execution_timeout"
    BY <1>4 DEF InspectPlan
  <2>2. Phase' = "approved"
    BY <1>1, <1>3, <1>4, <2>1 DEF Phase
  <2> QED
    BY <1>1, <1>2, <2>2 DEF Abstract!Next, Abstract!Approve
<1>5. CASE PlanVerdict(plan, validation) # "approved"
  <2>1. pc' = "rollback"
    BY <1>5 DEF InspectPlan
  <2>2. Phase' = "submitted"
    BY <1>1, <1>3, <1>5, <2>1 DEF Phase
  <2> QED
    BY <1>1, <1>2, <2>2 DEF Abstract!vars
<1> QED
  BY <1>4, <1>5

\* The text is handed to the database.
LEMMA RunImplements ==
  ASSUME IInv, IInv', RunSql
  PROVE  Abstract!Next
<1>1. /\ pc = "run" /\ pc' = "fetch" /\ UNCHANGED answer
      /\ ~HasRun /\ PlanApproved /\ HasRun'
  BY DEF RunSql, IInv, ServedInv, WithPlan
<1>2. Phase = "approved"
  BY <1>1, PhaseOfCall
<1>3. Phase' = "ran"
  BY <1>1 DEF Phase
<1> QED
  BY <1>1, <1>2, <1>3 DEF Abstract!Next, Abstract!Run

\* A failing statement leaves the phase alone, unless it is the run itself on a
\* live connection: the database has been given the text then.
LEMMA FailureImplements ==
  ASSUME IInv, StatementFails
  PROVE  Abstract!Next \/ UNCHANGED Abstract!vars
<1>1. /\ pc \in Statements /\ pc' = "rollback"
      /\ UNCHANGED <<plan, validation, answer>>
      /\ \/ UNCHANGED served
         \/ pc \in {"explain", "run"} /\ served' = Served(pc)
  BY DEF StatementFails, dataVars
<1>2. pc # "idle" /\ pc # "inspect"
  BY <1>1 DEF Statements, SetStatements
<1>3. TypeOK /\ RequestInv /\ SettingsInv /\ ServedInv
  BY DEF IInv
<1>4. CASE UNCHANGED served
  BY <1>1, <1>2, <1>4, QuietStep
<1>5. CASE pc = "explain" /\ served' = Served(pc)
  <2>1. served = {} /\ plan = None
    BY <1>3, <1>5 DEF ServedInv, BeforePlan
  <2>2. ~HasRun /\ ~HasRun'
    BY <1>3, <1>5, <2>1, ServedUnderPolicy DEF HasRun
  <2>3. Phase = "submitted"
    BY <1>2, <2>1, <2>2, PhaseOfCall DEF PlanApproved
  <2>4. Phase' = "submitted"
    BY <1>1, <2>1, <2>2 DEF Phase
  <2> QED
    BY <1>1, <2>3, <2>4 DEF Abstract!vars
<1>6. CASE pc = "run" /\ served' = Served(pc)
  <2>1. ~HasRun /\ PlanApproved
    BY <1>3, <1>6 DEF ServedInv, WithPlan
  <2>2. HasRun'
    BY <1>3, <1>6, ServedUnderPolicy DEF HasRun
  <2>3. Phase = "approved"
    BY <1>2, <2>1, PhaseOfCall
  <2>4. Phase' = "ran"
    BY <1>1, <2>2 DEF Phase
  <2> QED
    BY <1>1, <2>3, <2>4 DEF Abstract!Next, Abstract!Run
<1> QED
  BY <1>1, <1>4, <1>5, <1>6

\* The answer: rows only when the text ran, a blocking code only before it was
\* approved, a failure at any time.
LEMMA ReplyImplements ==
  ASSUME IInv, Reply
  PROVE  Abstract!Next
<1>1. /\ pc = "reply" /\ pc' = "idle"
      /\ answer' = IF raised = NoError THEN "executed" ELSE PublicCode(raised)
      /\ raised \in ErrorType
  BY DEF Reply, IInv, TypeOK
<1>2. Phase' = "idle"
  BY <1>1 DEF Phase
<1>3. Phase \in {"submitted", "approved", "ran"}
  BY <1>1, PhaseOfCall
<1>4. PlanErrorCodes \subseteq Abstract!Allowed["submitted"]
  BY DEF PlanErrorCodes, Abstract!Allowed, Abstract!BlockedCodes
<1>5. /\ FailureCodes \subseteq Abstract!Allowed["submitted"]
      /\ FailureCodes \subseteq Abstract!Allowed["approved"]
      /\ FailureCodes \subseteq Abstract!Allowed["ran"]
      /\ "executed" \in Abstract!Allowed["ran"]
  BY DEF FailureCodes, Abstract!Allowed, Abstract!FailureCodes
<1>6. answer' \in Abstract!Allowed[Phase]
  <2>1. CASE raised = NoError
    <3>1. HasRun
      BY <1>1, <2>1 DEF IInv, OutcomeInv, WindingUp
    <3> QED
      BY <1>1, <1>5, <2>1, <3>1, PhaseOfCall
  <2>2. CASE raised # NoError /\ raised.type = "plan"
    <3>1. ~HasRun /\ ~PlanApproved
      BY <1>1, <2>2 DEF IInv, OutcomeInv, WindingUp
    <3>2. Phase = "submitted"
      BY <1>1, <3>1, PhaseOfCall
    <3>3. answer' \in PlanErrorCodes
      BY <1>1, <2>2, PublicCodeType
    <3> QED
      BY <1>4, <3>2, <3>3
  <2>3. CASE raised # NoError /\ raised.type # "plan"
    <3>1. answer' \in FailureCodes
      BY <1>1, <2>3, PublicCodeType
    <3> QED
      BY <1>3, <1>5, <3>1
  <2> QED
    BY <2>1, <2>2, <2>3
<1> QED
  BY <1>2, <1>3, <1>6 DEF Abstract!Next, Abstract!Answer

\* The executor implements the promise its callers rely on.
THEOREM ExecutionImplementsGuardedExecution == Spec => ImplementsGuardedExecution
<1>1. Init => Abstract!Init
  BY DEF Init, Abstract!Init, Phase
<1>2. IInv /\ IInv' /\ [Next]_vars => [Abstract!Next]_(Abstract!vars)
  <2> SUFFICES ASSUME IInv, IInv', [Next]_vars
               PROVE  Abstract!Next \/ UNCHANGED Abstract!vars
    OBVIOUS
  <2>1. ASSUME NEW sql \in Texts, NEW catalog \in Catalogs, Execute(sql, catalog)
        PROVE  Abstract!Next
    BY <2>1, ExecuteImplements
  <2>2. CASE ReuseConnection \/ OpenConnection \/ ConnectFails
    BY <2>2, QuietStep DEF ReuseConnection, OpenConnection, ConnectFails, dataVars
  <2>3. CASE SetLocal
    <3>1. /\ UNCHANGED <<served, plan, validation, answer>>
          /\ pc \in SetStatements /\ pc' = Following[pc]
      BY <2>3 DEF SetLocal, dataVars
    <3>2. pc # "idle" /\ pc' # "idle" /\ pc # "inspect" /\ pc' # "inspect"
      BY <3>1 DEF SetStatements, Following
    <3> QED
      BY <3>1, <3>2, QuietStep
  <2>4. CASE Explain
    BY <2>4, ExplainImplements
  <2>5. CASE InspectPlan
    BY <2>5, InspectImplements
  <2>6. CASE RunSql
    BY <2>6, RunImplements
  <2>7. CASE FetchRows
    BY <2>7, QuietStep DEF FetchRows
  <2>8. CASE StatementFails
    BY <2>8, FailureImplements
  <2>9. CASE RollBack \/ RollBackFails \/ CloseConnection
    BY <2>9, QuietStep DEF RollBack, RollBackFails, CloseConnection, dataVars
  <2>10. CASE Reply
    BY <2>10, ReplyImplements
  <2>11. CASE DropConnection \/ UNCHANGED vars
    BY <2>11 DEF DropConnection, vars, dataVars, Abstract!vars, Phase, HasRun
  <2> QED
    BY <2>1, <2>2, <2>3, <2>4, <2>5, <2>6, <2>7, <2>8, <2>9, <2>10, <2>11
    DEF Next, CallStep
<1> QED
  BY <1>1, <1>2, ExecutionInvariant, PTL
  DEF Spec, ImplementsGuardedExecution, Abstract!Spec
=============================================================================
