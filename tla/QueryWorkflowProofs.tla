-------------------------- MODULE QueryWorkflowProofs --------------------------
(***************************************************************************)
(* What runs is earned, what the history says happened, what was obtained  *)
(* is returned, and what a request may cost: for every number of posts,    *)
(* request ids that clients reuse, retries, crashes and clients that give  *)
(* up.                                                                     *)
(*                                                                         *)
(* The inductive invariant tells three kinds of posts apart.  Of one not   *)
(* started there is no trace.  Of the one being served, the handler knows  *)
(* at each of its steps what ran and what it holds.  Of one that is over,  *)
(* nothing changes but that its record may be replaced.                    *)
(***************************************************************************)
EXTENDS QueryWorkflow, SequenceTheorems, FiniteSetTheorems, TLAPS

NotRun(n) == \A sql \in ran : sql.post # n
NotRecorded(n) == \A record \in RecordsOf : record.post # n
NothingButSuccess(n) ==
  \A record \in RecordsOf : record.post = n => record.outcome = "success"

PostsInv ==
  /\ posts \in Seq(Posts) /\ Len(posts) <= MaxPosts
  /\ inbox \subseteq DOMAIN posts
  /\ answers = [n \in PostNumbers |-> answers[n]]
  /\ records = [id \in RequestIds |-> records[id]]
  /\ calls \in [PostNumbers -> Nat]

\* There is no trace of what has not been started.
FreshInv ==
  \A n \in PostNumbers : (n \in inbox \/ n \notin DOMAIN posts) =>
    /\ NotRun(n) /\ NotRecorded(n)
    /\ n \notin obtained /\ answers[n] = None /\ calls[n] = 0

\* The properties, and that SQL is only known of posts.
LedgerInv ==
  /\ \A sql \in approved : sql.post \in DOMAIN posts
  /\ RunsAreEarned /\ HistoryTellsWhatRan /\ ResultIsReturned /\ ProviderBudget

-----------------------------------------------------------------------------
(* The post being served.                                                  *)

HasResult ==
  /\ current \in obtained /\ Own \in ran /\ result = Own
  /\ Asked.endpoint = "query" /\ Asked.question = "clear"

\* Before the executor is asked, nothing of the post ran.
DraftingInv ==
  (pc \in {"validate", "schema", "draft"} /\ role = "primary") =>
    /\ current \notin obtained /\ NotRun(current)
    /\ calls[current] <= attempts /\ attempts <= Retries

\* The draft or the alternate is in the executor's hands.
ExecutingInv ==
  pc \in {"execute", "executing"} =>
    /\ draft = Sql(current, role)
    /\ Asked.endpoint = "query" /\ Asked.question = "clear"
    /\ pc = "executing" => phase \in {"idle", "submitted", "approved", "ran"}
    /\ pc = "executing" /\ phase # "idle" => draft \in approved
    /\ role = "primary" =>
         /\ current \notin obtained /\ calls[current] <= Retries + 1
         /\ pc = "execute" => NotRun(current)
         /\ pc = "executing" /\ phase \in {"submitted", "approved"} => NotRun(current)
         /\ pc = "executing" /\ phase = "ran" => Own \in ran
         /\ pc = "executing" /\ phase = "idle" =>
              /\ answer = "executed" => Own \in ran
              /\ answer \in Executor!BlockedCodes => NotRun(current)

\* With the result in hand there are the checks, one of them an alternate.
CheckingInv ==
  /\ pc \in {"signals", "score"} => HasResult
  /\ pc = "signals" => role = "primary" /\ calls[current] <= Retries + 1
  /\ pc \in {"draft", "execute", "executing"} /\ role = "alternate" =>
       /\ HasResult
       /\ attempts <= Retries
       /\ calls[current] <= Retries + 1 + (IF pc = "draft" THEN attempts ELSE Retries + 1)

\* What is about to be recorded and answered.
ReplyInv ==
  pc \in {"record", "respond"} =>
    /\ reply.sql \in {None, Own}
    /\ reply.outcome = "success" => current \in obtained /\ Own \in ran /\ reply.sql = Own
    /\ reply.outcome \in {"blocked", "clarification_required"} => NotRun(current)
    /\ current \in obtained =>
         /\ NothingButSuccess(current)
         /\ \/ reply.kind = "query_result" /\ reply.outcome = "success" /\ reply.sql = Own
            \/ reply.code = "internal_server_error" /\ pc = "respond"

ServedInv ==
  pc # "idle" =>
    /\ current \in DOMAIN posts /\ answers[current] = None
    /\ pc # "respond" => NotRecorded(current)
    /\ role \in {"primary", "alternate"} /\ attempts \in Nat

HandlerInv ==
  /\ pc = "idle" => current = 0
  /\ pc \in {"idle", "validate", "schema"} => role = "primary" /\ attempts = 0
  /\ current \notin inbox
  /\ ServedInv /\ DraftingInv /\ ExecutingInv /\ CheckingInv /\ ReplyInv

IInv == PostsInv /\ FreshInv /\ LedgerInv /\ HandlerInv

-----------------------------------------------------------------------------
(* Facts used below.                                                       *)

LEMMA PostsAreNumbered ==
  ASSUME IInv
  PROVE  /\ DOMAIN posts \subseteq PostNumbers /\ DOMAIN posts = 1 .. Len(posts)
         /\ Len(posts) \in Nat
         /\ \A n \in DOMAIN posts : posts[n] \in Posts
BY WorkflowAssumption DEF IInv, PostsInv, PostNumbers

LEMMA Initially ==
  ASSUME Init
  PROVE  IInv
<1>1. /\ posts = <<>> /\ inbox = {} /\ pc = "idle" /\ role = "primary" /\ attempts = 0
      /\ current = 0
      /\ answers = [n \in PostNumbers |-> None]
      /\ records = [id \in RequestIds |-> None]
      /\ approved = {} /\ ran = {} /\ obtained = {}
      /\ calls = [n \in PostNumbers |-> 0]
  BY DEF Init, Tables!Init
<1>2. RecordsOf = {}
  BY <1>1 DEF RecordsOf, Tables!Stored
<1>3. PostsInv
  BY <1>1, WorkflowAssumption DEF PostsInv
<1>4. FreshInv
  BY <1>1, <1>2 DEF FreshInv, NotRun, NotRecorded
<1>5. ProviderBudget
  BY <1>1, WorkflowAssumption DEF ProviderBudget
<1>6. LedgerInv
  BY <1>1, <1>2, <1>5 DEF LedgerInv, RunsAreEarned, HistoryTellsWhatRan, ResultIsReturned
<1>7. HandlerInv
  BY <1>1 DEF HandlerInv, ServedInv, DraftingInv, ExecutingInv, CheckingInv, ReplyInv
<1> QED
  BY <1>3, <1>4, <1>6, <1>7 DEF IInv

\* A step that leaves the ledger and the posts alone need only look after the
\* handler.
LEMMA LedgerUntouched ==
  ASSUME IInv, UNCHANGED <<posts, answers, records, approved, ran, obtained, calls>>,
         inbox' \subseteq inbox
  PROVE  /\ PostsInv' /\ FreshInv' /\ LedgerInv'
         /\ RecordsOf' = RecordsOf
         /\ \A n : NotRun(n)' = NotRun(n) /\ NotRecorded(n)' = NotRecorded(n)
<1>1. RecordsOf' = RecordsOf
  BY DEF RecordsOf, Tables!Stored
<1>2. \A n : NotRun(n)' = NotRun(n) /\ NotRecorded(n)' = NotRecorded(n)
  BY <1>1 DEF NotRun, NotRecorded
<1>3. PostsInv'
  BY DEF IInv, PostsInv
<1>4. FreshInv'
  BY <1>2 DEF IInv, FreshInv
<1>5. LedgerInv'
  BY <1>1 DEF IInv, LedgerInv, RunsAreEarned, HistoryTellsWhatRan, ResultIsReturned,
              ProviderBudget, Answered
<1> QED
  BY <1>1, <1>2, <1>3, <1>4, <1>5
-----------------------------------------------------------------------------
(* Clients, the proxy, and the process.                                    *)

\* What the handler knows does not depend on the other posts.
LEMMA HandlerUntouched ==
  ASSUME IInv, UNCHANGED <<current, pc, draftVars, callVars, reply, approved, ran,
                           obtained, calls>>,
         RecordsOf' = RecordsOf, answers' = answers,
         \A n \in DOMAIN posts : n \in DOMAIN posts' /\ posts'[n] = posts[n],
         current \notin inbox'
  PROVE  HandlerInv'
<1>1. UNCHANGED <<current, pc, role, attempts, draft, result, phase, answer, reply>>
  BY DEF draftVars, callVars
<1>2. \A n : /\ NotRun(n)' = NotRun(n) /\ NotRecorded(n)' = NotRecorded(n)
            /\ NothingButSuccess(n)' = NothingButSuccess(n)
  BY DEF NotRun, NotRecorded, NothingButSuccess
<1>3. pc # "idle" => Asked' = Asked /\ Own' = Own /\ Sql(current, role)' = Sql(current, role)
  BY <1>1 DEF IInv, HandlerInv, ServedInv, Asked, Own
<1>4. ServedInv'
  BY <1>1, <1>2 DEF IInv, HandlerInv, ServedInv
<1>5. DraftingInv'
  BY <1>1, <1>2 DEF IInv, HandlerInv, DraftingInv
<1>6. ExecutingInv'
  BY <1>1, <1>2, <1>3 DEF IInv, HandlerInv, ExecutingInv
<1>7. CheckingInv'
  BY <1>1, <1>3 DEF IInv, HandlerInv, CheckingInv, HasResult
<1>8. ReplyInv'
  BY <1>1, <1>2, <1>3 DEF IInv, HandlerInv, ReplyInv
<1> QED
  BY <1>1, <1>4, <1>5, <1>6, <1>7, <1>8 DEF IInv, HandlerInv

LEMMA PostKeepsIInv ==
  ASSUME IInv, NEW id \in RequestIds, NEW endpoint \in Endpoints, NEW question \in Questions,
         Post(id, endpoint, question)
  PROVE  IInv'
<1> DEFINE n == Len(posts) + 1
           new == [id |-> id, endpoint |-> endpoint, question |-> question]
<1>1. /\ n <= MaxPosts /\ posts' = Append(posts, new) /\ inbox' = inbox \cup {n}
      /\ UNCHANGED <<answers, current, pc, draftVars, callVars, reply, tableVars, historyVars>>
  BY DEF Post
<1>2. UNCHANGED <<records, approved, ran, obtained, calls>>
  BY <1>1 DEF tableVars, historyVars
<1>3. /\ DOMAIN posts \subseteq PostNumbers /\ DOMAIN posts = 1 .. Len(posts)
      /\ Len(posts) \in Nat
  BY PostsAreNumbered
<1>4. /\ posts' \in Seq(Posts) /\ Len(posts') = n /\ DOMAIN posts' = 1 .. n
      /\ \A m \in DOMAIN posts : m \in DOMAIN posts' /\ posts'[m] = posts[m]
  <2>1. posts \in Seq(Posts) /\ new \in Posts
    BY DEF IInv, PostsInv, Posts
  <2> HIDE DEF new
  <2> QED
    BY <1>1, <1>3, <2>1
<1>5. n \in PostNumbers /\ n \notin DOMAIN posts
  BY <1>1, <1>3, WorkflowAssumption DEF PostNumbers
<1>6. RecordsOf' = RecordsOf
  BY <1>2 DEF RecordsOf, Tables!Stored
<1>7. PostsInv'
  BY <1>1, <1>2, <1>3, <1>4, <1>5 DEF IInv, PostsInv
<1>8. FreshInv'
  BY <1>1, <1>2, <1>4, <1>5, <1>6 DEF IInv, FreshInv, NotRun, NotRecorded
<1>9. LedgerInv'
  <2>1. \A sql \in approved : sql.post \in DOMAIN posts' /\ posts'[sql.post] = posts[sql.post]
    BY <1>4 DEF IInv, LedgerInv
  <2>2. RunsAreEarned'
    BY <1>2, <2>1 DEF IInv, LedgerInv, RunsAreEarned
  <2>3. HistoryTellsWhatRan' /\ ResultIsReturned' /\ ProviderBudget'
    BY <1>1, <1>2, <1>6
       DEF IInv, LedgerInv, HistoryTellsWhatRan, ResultIsReturned, ProviderBudget, Answered
  <2> QED
    BY <1>2, <2>1, <2>2, <2>3 DEF LedgerInv
<1>10. current \notin inbox'
  <2>1. CASE pc = "idle"
    BY <1>1, <1>3, <2>1 DEF IInv, HandlerInv, PostsInv
  <2>2. CASE pc # "idle"
    BY <1>1, <1>5, <2>2 DEF IInv, HandlerInv, ServedInv
  <2> QED
    BY <2>1, <2>2
<1> QED
  BY <1>1, <1>2, <1>4, <1>6, <1>7, <1>8, <1>9, <1>10, HandlerUntouched DEF IInv

LEMMA GiveUpKeepsIInv ==
  ASSUME IInv, NEW n, GiveUp(n)
  PROVE  IInv'
<1>1. UNCHANGED <<posts, answers, inbox, current, pc, draftVars, callVars, reply,
                  records, approved, ran, obtained, calls>>
  BY DEF GiveUp, tableVars, historyVars
<1> QED
  BY <1>1, LedgerUntouched, HandlerUntouched DEF IInv, HandlerInv

\* A row of feedback changes no record.
LEMMA GiveFeedbackKeepsIInv ==
  ASSUME IInv, NEW n, GiveFeedback(n)
  PROVE  IInv'
<1>1. UNCHANGED <<posts, answers, inbox, current, pc, draftVars, callVars, reply,
                  records, approved, ran, obtained, calls>>
  BY DEF GiveFeedback, Tables!AddFeedback, clientVars, historyVars
<1> QED
  BY <1>1, LedgerUntouched, HandlerUntouched DEF IInv, HandlerInv

\* Nothing is being served.
LEMMA IdleHandler ==
  ASSUME Idle, inbox' \subseteq Nat \ {0}
  PROVE  HandlerInv'
BY DEF Idle, HandlerInv, ServedInv, DraftingInv, ExecutingInv, CheckingInv, ReplyInv

LEMMA CrashKeepsIInv ==
  ASSUME IInv, Crash
  PROVE  IInv'
<1>1. /\ UNCHANGED <<posts, answers, records, approved, ran, obtained, calls>>
      /\ inbox' = {} /\ Idle
  BY DEF Crash, tableVars, historyVars
<1> QED
  BY <1>1, LedgerUntouched, IdleHandler DEF IInv

-----------------------------------------------------------------------------
(* The handler up to the executor.                                         *)

LEMMA StartKeepsIInv ==
  ASSUME IInv, NEW n \in PostNumbers, Start(n)
  PROVE  IInv'
<1>1. /\ pc = "idle" /\ n \in inbox /\ inbox' = inbox \ {n} /\ current' = n
      /\ pc' = "validate"
      /\ UNCHANGED <<posts, answers, records, approved, ran, obtained, calls, role, attempts>>
  BY DEF Start, clientVars, draftVars, tableVars, historyVars
<1>2. /\ NotRun(n) /\ NotRecorded(n)
      /\ n \notin obtained /\ answers[n] = None /\ calls[n] = 0 /\ n \in DOMAIN posts
  BY <1>1 DEF IInv, PostsInv, FreshInv
<1>3. PostsInv' /\ FreshInv' /\ LedgerInv' /\ NotRun(n)' /\ NotRecorded(n)'
  BY <1>1, <1>2, LedgerUntouched
<1>4. role = "primary" /\ attempts = 0 /\ Retries \in Nat
  BY <1>1, WorkflowAssumption DEF IInv, HandlerInv
<1>5. ServedInv' /\ DraftingInv'
  BY <1>1, <1>2, <1>3, <1>4 DEF ServedInv, DraftingInv
<1>6. ExecutingInv' /\ CheckingInv' /\ ReplyInv'
  BY <1>1, <1>4 DEF ExecutingInv, CheckingInv, ReplyInv
<1> QED
  BY <1>1, <1>3, <1>5, <1>6 DEF IInv, HandlerInv

\* A step of the handler that touches neither the posts nor the ledger keeps what
\* it knows of the post, up to what the step itself changes.
LEMMA HandlerStep ==
  ASSUME IInv, pc # "idle",
         UNCHANGED <<clientVars, inbox, current, tableVars, approved, ran, obtained, calls>>
  PROVE  /\ PostsInv' /\ FreshInv' /\ LedgerInv'
         /\ RecordsOf' = RecordsOf
         /\ \A n : NotRun(n)' = NotRun(n) /\ NotRecorded(n)' = NotRecorded(n)
         /\ UNCHANGED <<posts, answers, current, obtained, ran, approved, calls, Asked, Own>>
         /\ current \in DOMAIN posts /\ answers[current] = None /\ current \notin inbox'
<1>1. UNCHANGED <<posts, answers, inbox, current, records>>
  BY DEF clientVars, tableVars
<1> QED
  BY <1>1, LedgerUntouched DEF Asked, Own, IInv, HandlerInv, ServedInv

\* An answer to a post without a result.
LEMMA Concluded ==
  ASSUME IInv, pc \in {"validate", "schema", "draft", "executing"},
         current \notin obtained,
         NEW kind, NEW code, NEW outcome \in {"blocked", "failed", "clarification_required", None},
         NEW sql \in {None, Own},
         outcome \in {"blocked", "clarification_required"} => NotRun(current),
         Conclude(kind, code, outcome, sql),
         PostsInv', FreshInv', LedgerInv',
         UNCHANGED <<answers, inbox, current, posts, ran, obtained, role>>, attempts' \in Nat,
         RecordsOf' = RecordsOf
  PROVE  IInv'
<1>1. /\ \A n : NotRun(n)' = NotRun(n) /\ NotRecorded(n)' = NotRecorded(n)
      /\ Own' = Own
      /\ current \in DOMAIN posts /\ answers[current] = None /\ current \notin inbox'
  BY DEF NotRun, NotRecorded, Own, IInv, HandlerInv, ServedInv
<1>2. /\ reply' = [kind |-> kind, code |-> code, outcome |-> outcome, sql |-> sql]
      /\ pc' \in {"record", "respond"}
  BY DEF Conclude
<1>3. outcome # "success"
  BY WorkflowAssumption DEF Outcomes
<1>4. ServedInv'
  BY <1>1, <1>2 DEF IInv, HandlerInv, ServedInv
<1>5. ReplyInv'
  BY <1>1, <1>2, <1>3 DEF ReplyInv
<1>6. DraftingInv' /\ ExecutingInv' /\ CheckingInv'
  BY <1>2 DEF DraftingInv, ExecutingInv, CheckingInv
<1> QED
  BY <1>1, <1>2, <1>4, <1>5, <1>6 DEF IInv, HandlerInv

\* The catch-all handler answers, and leaves the records as they are: none, while the
\* handler has not come to recording, and afterwards that of a success.
LEMMA UnhandledHandler ==
  ASSUME IInv, pc # "idle", Unhandled,
         UNCHANGED <<posts, answers, current, obtained, ran, role, attempts>>,
         RecordsOf' = RecordsOf, current \notin inbox'
  PROVE  HandlerInv'
<1>1. /\ current \in DOMAIN posts /\ answers[current] = None
      /\ role \in {"primary", "alternate"} /\ attempts \in Nat
      /\ Own' = Own
  BY DEF IInv, HandlerInv, ServedInv, Own
<1>2. current \in obtained => NothingButSuccess(current)
  <2>1. CASE pc \in {"record", "respond"}
    BY <2>1 DEF IInv, HandlerInv, ReplyInv
  <2>2. CASE pc \notin {"record", "respond"}
    BY <2>2 DEF IInv, HandlerInv, ServedInv, NotRecorded, NothingButSuccess
  <2> QED
    BY <2>1, <2>2
<1>3. NothingButSuccess(current)' = NothingButSuccess(current)
  BY DEF NothingButSuccess
<1>4. /\ reply' = [kind |-> "error", code |-> "internal_server_error",
                   outcome |-> None, sql |-> None]
      /\ pc' = "respond"
  BY DEF Unhandled
<1>5. None \notin Outcomes
  BY WorkflowAssumption
<1>6. ServedInv'
  BY <1>1, <1>4 DEF ServedInv
<1>7. ReplyInv'
  BY <1>2, <1>3, <1>4, <1>5 DEF ReplyInv, Outcomes
<1>8. DraftingInv' /\ ExecutingInv' /\ CheckingInv'
  BY <1>4 DEF DraftingInv, ExecutingInv, CheckingInv
<1> QED
  BY <1>4, <1>6, <1>7, <1>8 DEF HandlerInv

LEMMA UnhandledKeepsIInv ==
  ASSUME IInv, pc # "idle", Unhandled,
         UNCHANGED <<clientVars, inbox, current, draftVars, tableVars, historyVars>>
  PROVE  IInv'
<1>1. UNCHANGED <<approved, ran, obtained, calls, role, attempts>>
  BY DEF historyVars, draftVars
<1>2. /\ PostsInv' /\ FreshInv' /\ LedgerInv' /\ RecordsOf' = RecordsOf
      /\ UNCHANGED <<posts, answers, current, obtained, ran>> /\ current \notin inbox'
  BY <1>1, HandlerStep
<1> QED
  BY <1>1, <1>2, UnhandledHandler DEF IInv

LEMMA ValidateQuestionKeepsIInv ==
  ASSUME IInv, ValidateQuestion
  PROVE  IInv'
<1>1. /\ pc = "validate"
      /\ UNCHANGED <<clientVars, inbox, current, tableVars, approved, ran, obtained, calls,
                     role, attempts>>
  BY DEF ValidateQuestion, draftVars, historyVars
<1>2. CASE Asked.question # "invalid"
  <2>1. pc' = "schema"
    BY <1>2 DEF ValidateQuestion
  <2>2. /\ PostsInv' /\ FreshInv' /\ LedgerInv'
        /\ \A n : NotRun(n)' = NotRun(n) /\ NotRecorded(n)' = NotRecorded(n)
        /\ UNCHANGED <<answers, current, obtained, calls, posts>>
        /\ current \in DOMAIN posts /\ answers[current] = None /\ current \notin inbox'
    BY <1>1, HandlerStep
  <2> QED
    BY <1>1, <2>1, <2>2 DEF IInv, HandlerInv, ServedInv, DraftingInv, ExecutingInv, CheckingInv,
                            ReplyInv
<1>3. CASE Asked.question = "invalid"
  <2>1. Conclude("error", "invalid_question", "blocked", None)
    BY <1>3 DEF ValidateQuestion, Fail
  <2>2. role = "primary" /\ current \notin obtained /\ NotRun(current)
    BY <1>1 DEF IInv, HandlerInv, DraftingInv
  <2> QED
    BY <1>1, <2>1, <2>2, HandlerStep, Concluded DEF IInv, HandlerInv, ServedInv, clientVars
<1> QED
  BY <1>2, <1>3

LEMMA GetSchemaKeepsIInv ==
  ASSUME IInv, GetSchema \/ SchemaFails
  PROVE  IInv'
<1>1. CASE GetSchema
  <2>1. /\ pc = "schema" /\ pc' = "draft"
        /\ UNCHANGED <<clientVars, inbox, current, tableVars, approved, ran, obtained, calls,
                       role, attempts>>
    BY <1>1 DEF GetSchema, draftVars, historyVars
  <2>2. /\ PostsInv' /\ FreshInv' /\ LedgerInv'
        /\ \A n : NotRun(n)' = NotRun(n) /\ NotRecorded(n)' = NotRecorded(n)
        /\ UNCHANGED <<answers, current, obtained, calls, posts>>
        /\ current \in DOMAIN posts /\ answers[current] = None /\ current \notin inbox'
    BY <2>1, HandlerStep
  <2> QED
    BY <2>1, <2>2 DEF IInv, HandlerInv, ServedInv, DraftingInv, ExecutingInv, CheckingInv,
                      ReplyInv
<1>2. CASE SchemaFails
  BY <1>2, UnhandledKeepsIInv DEF SchemaFails
<1> QED
  BY <1>1, <1>2

LEMMA ClarifyKeepsIInv ==
  ASSUME IInv, ClarifyBeforeProvider
  PROVE  IInv'
<1>1. /\ pc = "draft" /\ Asked.question = "ambiguous"
      /\ Conclude("clarification_required", "clarification_required",
                  "clarification_required", None)
      /\ UNCHANGED <<clientVars, inbox, current, tableVars, approved, ran, obtained, calls,
                     role, attempts>>
  BY DEF ClarifyBeforeProvider, Clarify, draftVars, historyVars
<1>2. role = "primary"
  BY <1>1 DEF IInv, HandlerInv, ServedInv, CheckingInv, HasResult
<1>3. current \notin obtained /\ NotRun(current)
  BY <1>1, <1>2 DEF IInv, HandlerInv, DraftingInv
<1> QED
  BY <1>1, <1>2, <1>3, HandlerStep, Concluded DEF IInv, HandlerInv, ServedInv, clientVars
-----------------------------------------------------------------------------
(* The provider.                                                           *)

\* A call is paid for out of the budget of its loop.
LEMMA ProviderCalled ==
  ASSUME IInv, CallProvider, approved \subseteq approved', approved' \subseteq approved \cup {Own}
  PROVE  /\ PostsInv' /\ FreshInv' /\ LedgerInv'
         /\ RecordsOf' = RecordsOf
         /\ \A n : NotRun(n)' = NotRun(n) /\ NotRecorded(n)' = NotRecorded(n)
         /\ UNCHANGED <<posts, answers, inbox, current, obtained, ran, Asked, Own, result>>
         /\ pc = "draft" /\ Asked.question = "clear"
         /\ current \in DOMAIN posts /\ answers[current] = None /\ current \notin inbox'
         /\ NotRecorded(current) /\ attempts \in Nat
         /\ calls'[current] = calls[current] + 1 /\ calls[current] \in Nat
         /\ role = "primary" => /\ current \notin obtained /\ NotRun(current)
                                /\ calls[current] <= attempts /\ attempts <= Retries
         /\ role = "alternate" => /\ HasResult /\ attempts <= Retries
                                  /\ calls[current] <= Retries + 1 + attempts
         /\ role \in {"primary", "alternate"}
<1>1. /\ pc = "draft" /\ Asked.question = "clear"
      /\ calls' = [calls EXCEPT ![current] = @ + 1]
      /\ UNCHANGED <<posts, answers, inbox, current, records, obtained, ran, result>>
  BY DEF CallProvider, clientVars, tableVars
<1>2. RecordsOf' = RecordsOf
  BY <1>1 DEF RecordsOf, Tables!Stored
<1>3. \A n : NotRun(n)' = NotRun(n) /\ NotRecorded(n)' = NotRecorded(n)
  BY <1>1, <1>2 DEF NotRun, NotRecorded
<1>4. /\ current \in DOMAIN posts /\ answers[current] = None /\ current \notin inbox
      /\ NotRecorded(current) /\ attempts \in Nat /\ role \in {"primary", "alternate"}
  BY <1>1 DEF IInv, HandlerInv, ServedInv
<1>5. current \in PostNumbers /\ calls \in [PostNumbers -> Nat] /\ Retries \in Nat
  BY <1>4, PostsAreNumbered, WorkflowAssumption DEF IInv, PostsInv
<1>6. /\ calls' \in [PostNumbers -> Nat] /\ calls'[current] = calls[current] + 1
      /\ calls[current] \in Nat
      /\ \A n \in PostNumbers \ {current} : calls'[n] = calls[n]
  BY <1>1, <1>5
<1>7. /\ role = "primary" => /\ current \notin obtained /\ NotRun(current)
                             /\ calls[current] <= attempts /\ attempts <= Retries
      /\ role = "alternate" => /\ HasResult /\ attempts <= Retries
                               /\ calls[current] <= Retries + 1 + attempts
  BY <1>1 DEF IInv, HandlerInv, DraftingInv, CheckingInv
<1>8. PostsInv'
  BY <1>1, <1>6 DEF IInv, PostsInv
<1>9. FreshInv'
  BY <1>1, <1>3, <1>4, <1>6 DEF IInv, FreshInv
<1>10. ProviderBudget'
  <2>1. calls'[current] <= (Retries + 1) * (IF current \in obtained THEN 2 ELSE 1)
    <3>1. CASE role = "primary"
      BY <3>1, <1>4, <1>5, <1>6, <1>7
    <3>2. CASE role = "alternate"
      BY <3>2, <1>4, <1>5, <1>6, <1>7 DEF HasResult
    <3> QED
      BY <3>1, <3>2, <1>4
  <2>2. \A n \in PostNumbers \ {current} :
          calls'[n] <= (Retries + 1) * (IF n \in obtained THEN 2 ELSE 1)
    BY <1>6 DEF IInv, LedgerInv, ProviderBudget
  <2> QED
    BY <1>1, <2>1, <2>2 DEF ProviderBudget
<1>11. LedgerInv'
  <2>1. \A sql \in approved' : sql.post \in DOMAIN posts'
    BY <1>1, <1>4 DEF IInv, LedgerInv, Own, Sql
  <2>2. RunsAreEarned' /\ HistoryTellsWhatRan' /\ ResultIsReturned'
    BY <1>1, <1>2 DEF IInv, LedgerInv, RunsAreEarned, HistoryTellsWhatRan, ResultIsReturned,
                      Answered
  <2> QED
    BY <1>10, <2>1, <2>2 DEF LedgerInv
<1>12. Asked' = Asked /\ Own' = Own
  BY <1>1 DEF Asked, Own
<1> QED
  BY <1>1, <1>2, <1>3, <1>4, <1>6, <1>7, <1>8, <1>9, <1>11, <1>12

LEMMA ProviderRetriedKeepsIInv ==
  ASSUME IInv, ProviderRetried
  PROVE  IInv'
<1>1. /\ CallProvider /\ attempts < Retries /\ attempts' = attempts + 1
      /\ UNCHANGED <<pc, role, approved>>
  BY DEF ProviderRetried
<1>2. HandlerInv'
  BY <1>1, ProviderCalled, WorkflowAssumption
     DEF HandlerInv, ServedInv, DraftingInv, ExecutingInv, CheckingInv, ReplyInv, HasResult
<1> QED
  BY <1>1, <1>2, ProviderCalled DEF IInv

\* The second opinion ends here; the result is scored.
LEMMA WithoutAgreementKeepsIInv ==
  ASSUME IInv, CallProvider, role = "alternate", WithoutAgreement,
         UNCHANGED <<role, attempts, approved>>
  PROVE  IInv'
<1>1. pc' = "score"
  BY DEF WithoutAgreement
<1>2. HandlerInv'
  BY <1>1, ProviderCalled
     DEF HandlerInv, ServedInv, DraftingInv, ExecutingInv, CheckingInv, ReplyInv, HasResult
<1> QED
  BY <1>2, ProviderCalled DEF IInv

\* A failure, a question or a refusal of the draft ends the request.
LEMMA DraftConcluded ==
  ASSUME IInv, CallProvider, role = "primary",
         NEW kind, NEW code, NEW outcome \in {"blocked", "failed", "clarification_required", None},
         NEW sql \in {None, Own},
         Conclude(kind, code, outcome, sql),
         UNCHANGED <<role, attempts>>,
         approved \subseteq approved', approved' \subseteq approved \cup {Own}
  PROVE  IInv'
BY ProviderCalled, Concluded

LEMMA ProviderFailsKeepsIInv ==
  ASSUME IInv, ProviderFails
  PROVE  IInv'
<1>1. CallProvider /\ UNCHANGED <<role, attempts, approved>>
  BY DEF ProviderFails
<1>2. CASE role = "primary"
  <2>1. PICK failure \in ProviderFailures : Conclude("error", failure, "failed", None)
    BY <1>2 DEF ProviderFails, Fail
  <2> QED
    BY <1>1, <1>2, <2>1, DraftConcluded
<1>3. CASE role # "primary"
  <2>1. WithoutAgreement /\ role = "alternate"
    BY <1>1, <1>3, ProviderCalled DEF ProviderFails
  <2> QED
    BY <1>1, <2>1, WithoutAgreementKeepsIInv
<1> QED
  BY <1>2, <1>3

LEMMA ProviderAsksKeepsIInv ==
  ASSUME IInv, ProviderAsks
  PROVE  IInv'
<1>1. CallProvider /\ UNCHANGED <<role, attempts, approved>>
  BY DEF ProviderAsks
<1>2. CASE role = "primary"
  <2>1. Conclude("clarification_required", "clarification_required",
                 "clarification_required", None)
    BY <1>2 DEF ProviderAsks, Clarify
  <2> QED
    BY <1>1, <1>2, <2>1, DraftConcluded
<1>3. CASE role # "primary"
  <2>1. WithoutAgreement /\ role = "alternate"
    BY <1>1, <1>3, ProviderCalled DEF ProviderAsks
  <2> QED
    BY <1>1, <2>1, WithoutAgreementKeepsIInv
<1> QED
  BY <1>2, <1>3

LEMMA DraftRejectedKeepsIInv ==
  ASSUME IInv, DraftRejected
  PROVE  IInv'
BY DraftConcluded DEF DraftRejected, Fail

LEMMA DraftRaisesKeepsIInv ==
  ASSUME IInv, DraftRaises
  PROVE  IInv'
<1>1. /\ CallProvider /\ Unhandled /\ pc # "idle"
      /\ UNCHANGED <<role, attempts, approved>>
  BY DEF DraftRaises, CallProvider
<1>2. HandlerInv'
  BY <1>1, ProviderCalled, UnhandledHandler
<1> QED
  BY <1>1, <1>2, ProviderCalled DEF IInv

LEMMA DraftApprovedKeepsIInv ==
  ASSUME IInv, DraftApproved
  PROVE  IInv'
<1>1. /\ CallProvider /\ role = "primary" /\ approved' = approved \cup {Own}
      /\ UNCHANGED <<role, attempts>>
  BY DEF DraftApproved
<1>2. CASE Asked.endpoint = "query"
  <2>1. draft' = Own /\ pc' = "execute"
    BY <1>2 DEF DraftApproved
  <2>2. HandlerInv'
    BY <1>1, <1>2, <2>1, ProviderCalled, WorkflowAssumption
       DEF HandlerInv, ServedInv, DraftingInv, ExecutingInv, CheckingInv, ReplyInv, Own
  <2> QED
    BY <1>1, <2>2, ProviderCalled DEF IInv
<1>3. CASE Asked.endpoint # "query"
  <2>1. Conclude("sql_draft", "drafted", None, Own)
    BY <1>3 DEF DraftApproved
  <2> QED
    BY <1>1, <2>1, DraftConcluded
<1> QED
  BY <1>2, <1>3

LEMMA AlternateWrittenKeepsIInv ==
  ASSUME IInv, AlternateWritten
  PROVE  IInv'
<1>1. CallProvider /\ role = "alternate" /\ UNCHANGED <<role, attempts, approved>>
  BY DEF AlternateWritten
<1>2. CASE WithoutAgreement
  BY <1>1, <1>2, WithoutAgreementKeepsIInv
<1>3. CASE draft' = Sql(current, "alternate") /\ pc' = "execute"
  <2>1. HandlerInv'
    BY <1>1, <1>3, ProviderCalled, WorkflowAssumption
       DEF HandlerInv, ServedInv, DraftingInv, ExecutingInv, CheckingInv, ReplyInv, HasResult
  <2> QED
    BY <1>1, <2>1, ProviderCalled DEF IInv
<1> QED
  BY <1>2, <1>3 DEF AlternateWritten
-----------------------------------------------------------------------------
(* The executor.                                                           *)

\* What is handed over is approved, or refused and never run.
LEMMA HandOverKeepsIInv ==
  ASSUME IInv, HandOver
  PROVE  IInv'
<1>1. /\ pc = "execute" /\ pc' = "executing"
      /\ UNCHANGED <<posts, waiting, answers, inbox, current, records, role, attempts, draft,
                     result, ran, obtained, calls>>
  BY DEF HandOver, clientVars, draftVars, tableVars
<1>2. /\ draft = Sql(current, role) /\ current \in DOMAIN posts /\ answers[current] = None
      /\ NotRecorded(current) /\ role \in {"primary", "alternate"} /\ attempts \in Nat
      /\ current \notin inbox
  BY <1>1 DEF IInv, HandlerInv, ServedInv, ExecutingInv
<1>3. \/ /\ phase' = "submitted" /\ approved' = approved \cup {draft}
      \/ /\ role = "alternate" /\ phase' = "idle" /\ approved' = approved
  BY DEF HandOver, Executor!Submit, Executor!Refuse
<1>4. RecordsOf' = RecordsOf
  BY <1>1 DEF RecordsOf, Tables!Stored
<1>5. \A n : NotRun(n)' = NotRun(n) /\ NotRecorded(n)' = NotRecorded(n)
  BY <1>1, <1>4 DEF NotRun, NotRecorded
<1>6. PostsInv' /\ FreshInv'
  BY <1>1, <1>5 DEF IInv, PostsInv, FreshInv
<1>7. LedgerInv'
  <2>1. \A sql \in approved' : sql.post \in DOMAIN posts'
    BY <1>1, <1>2, <1>3 DEF IInv, LedgerInv, Sql
  <2>2. RunsAreEarned' /\ HistoryTellsWhatRan' /\ ResultIsReturned' /\ ProviderBudget'
    BY <1>1, <1>3, <1>4 DEF IInv, LedgerInv, RunsAreEarned, HistoryTellsWhatRan,
                            ResultIsReturned, ProviderBudget, Answered
  <2> QED
    BY <2>1, <2>2 DEF LedgerInv
<1>8. ServedInv' /\ DraftingInv' /\ ReplyInv'
  BY <1>1, <1>2, <1>5 DEF ServedInv, DraftingInv, ReplyInv
<1>9. Asked' = Asked /\ Own' = Own /\ Sql(current, role)' = Sql(current, role)
  BY <1>1 DEF Asked, Own, Sql
<1>10. ExecutingInv'
  BY <1>1, <1>2, <1>3, <1>5, <1>9 DEF IInv, HandlerInv, ExecutingInv
<1>11. CheckingInv'
  BY <1>1, <1>9 DEF IInv, HandlerInv, CheckingInv, HasResult
<1> QED
  BY <1>1, <1>2, <1>6, <1>7, <1>8, <1>10, <1>11 DEF IInv, HandlerInv

\* The database runs what was approved, for a post that may run it.
LEMMA ExecutorStepKeepsIInv ==
  ASSUME IInv, ExecutorStep
  PROVE  IInv'
<1>1. /\ pc = "executing" /\ pc' = "executing"
      /\ UNCHANGED <<posts, answers, inbox, current, records, role, attempts, draft,
                     result, approved, obtained, calls>>
  BY DEF ExecutorStep, clientVars, draftVars, tableVars
<1>2. /\ draft = Sql(current, role) /\ current \in DOMAIN posts /\ answers[current] = None
      /\ NotRecorded(current) /\ role \in {"primary", "alternate"} /\ attempts \in Nat
      /\ current \notin inbox /\ Asked.endpoint = "query"
      /\ phase \in {"idle", "submitted", "approved", "ran"}
      /\ phase # "idle" => draft \in approved
      /\ role = "alternate" => current \in obtained
  BY <1>1 DEF IInv, HandlerInv, ServedInv, ExecutingInv, CheckingInv, HasResult
<1>3. RecordsOf' = RecordsOf
  BY <1>1 DEF RecordsOf, Tables!Stored
<1>4. \A n : NotRecorded(n)' = NotRecorded(n)
  BY <1>3 DEF NotRecorded
<1>5. \/ phase = "submitted" /\ phase' = "approved" /\ ran' = ran
      \/ phase = "approved" /\ phase' = "ran" /\ ran' = ran \cup {draft}
      \/ phase # "idle" /\ phase' = "idle" /\ ran' = ran /\ answer' \in Executor!Allowed[phase]
  BY DEF ExecutorStep, Executor!Approve, Executor!Run, Executor!Answer
<1>6. ran \subseteq ran' /\ ran' \subseteq ran \cup {Sql(current, role)}
  BY <1>2, <1>5
<1>7. \A n : n # current => NotRun(n)' = NotRun(n)
  BY <1>6 DEF NotRun, Sql
<1>8. PostsInv' /\ FreshInv'
  BY <1>1, <1>2, <1>4, <1>7 DEF IInv, PostsInv, FreshInv
<1>9. RunsAreEarned'
  <2>1. ran' \subseteq approved
    BY <1>2, <1>5 DEF IInv, LedgerInv, RunsAreEarned
  <2>2. \A sql \in ran' : /\ posts[sql.post].endpoint = "query"
                          /\ sql.role = "alternate" => sql.post \in obtained
    BY <1>2, <1>6 DEF IInv, LedgerInv, RunsAreEarned, Asked, Sql
  <2> QED
    BY <1>1, <2>1, <2>2 DEF RunsAreEarned
<1>10. HistoryTellsWhatRan'
  <2> SUFFICES ASSUME NEW record \in RecordsOf
               PROVE  /\ record.outcome = "success" =>
                           /\ record.sql = Sql(record.post, "primary")
                           /\ record.sql \in ran'
                           /\ record.post \in obtained
                      /\ record.outcome \in {"blocked", "clarification_required"} =>
                           \A sql \in ran' : sql.post # record.post
                      /\ record.sql \in {None, Sql(record.post, "primary")}
    BY <1>1, <1>3 DEF HistoryTellsWhatRan
  <2>1. record.post # current
    BY <1>2 DEF NotRecorded
  <2> QED
    BY <1>6, <2>1 DEF IInv, LedgerInv, HistoryTellsWhatRan, Sql
<1>11. LedgerInv'
  BY <1>1, <1>3, <1>9, <1>10 DEF IInv, LedgerInv, ResultIsReturned, ProviderBudget, Answered
<1>12. ServedInv' /\ DraftingInv' /\ ReplyInv'
  BY <1>1, <1>2, <1>4 DEF ServedInv, DraftingInv, ReplyInv
<1>13. Asked' = Asked /\ Own' = Own /\ Sql(current, role)' = Sql(current, role)
  BY <1>1 DEF Asked, Own, Sql
<1>14. CheckingInv'
  BY <1>1, <1>6, <1>13 DEF IInv, HandlerInv, CheckingInv, HasResult
<1>15. /\ phase' \in {"idle", "submitted", "approved", "ran"}
       /\ phase' # "idle" => draft \in approved
  BY <1>2, <1>5
<1>16. ExecutingInv'
  <2>1. CASE role = "alternate"
    BY <1>1, <1>2, <1>13, <1>15, <2>1 DEF IInv, HandlerInv, ExecutingInv
  <2>2. CASE role = "primary"
    <3>1. draft = Own
      BY <1>2, <2>2 DEF Own
    <3>2. phase \in {"submitted", "approved"} => NotRun(current)
      BY <1>1, <2>2 DEF IInv, HandlerInv, ExecutingInv
    <3>3. phase = "ran" => Own \in ran
      BY <1>1, <2>2 DEF IInv, HandlerInv, ExecutingInv
    <3>4. ran' = ran => NotRun(current)' = NotRun(current)
      BY <1>1 DEF NotRun
    <3>5. phase' \in {"submitted", "approved"} => NotRun(current)'
      BY <1>5, <3>2, <3>4
    <3>6. phase' = "ran" => Own \in ran'
      BY <1>5, <3>1
    <3>7. phase' = "idle" => /\ answer' = "executed" => Own \in ran'
                             /\ answer' \in Executor!BlockedCodes => NotRun(current)'
      <4> SUFFICES ASSUME phase' = "idle"
                   PROVE  /\ answer' = "executed" => Own \in ran'
                          /\ answer' \in Executor!BlockedCodes => NotRun(current)'
        OBVIOUS
      <4>1. phase # "idle" /\ ran' = ran /\ answer' \in Executor!Allowed[phase]
        BY <1>5
      <4>2. CASE phase = "submitted"
        BY <4>1, <4>2, <3>2, <3>4
           DEF Executor!Allowed, Executor!BlockedCodes, Executor!FailureCodes
      <4>3. CASE phase = "approved"
        BY <4>1, <4>3, <3>2, <3>4
           DEF Executor!Allowed, Executor!BlockedCodes, Executor!FailureCodes
      <4>4. CASE phase = "ran"
        BY <4>1, <4>4, <3>3
           DEF Executor!Allowed, Executor!BlockedCodes, Executor!FailureCodes
      <4> QED
        BY <1>2, <4>1, <4>2, <4>3, <4>4
    <3> QED
      BY <1>1, <1>2, <1>13, <1>15, <2>2, <3>5, <3>6, <3>7 DEF IInv, HandlerInv, ExecutingInv
  <2> QED
    BY <1>2, <2>1, <2>2
<1> QED
  BY <1>1, <1>2, <1>8, <1>11, <1>12, <1>14, <1>16 DEF IInv, HandlerInv

\* The rows of the post's own SQL; or an answer that ends the request.
LEMMA PrimaryAnsweredKeepsIInv ==
  ASSUME IInv, PrimaryAnswered
  PROVE  IInv'
<1>1. /\ pc = "executing" /\ phase = "idle" /\ role = "primary"
      /\ UNCHANGED <<clientVars, posts, answers, inbox, current, tableVars, records, role,
                     attempts, draft, approved, ran, calls>>
  BY DEF PrimaryAnswered, clientVars, tableVars
<1>2. /\ draft = Own /\ current \in DOMAIN posts /\ answers[current] = None
      /\ NotRecorded(current) /\ attempts \in Nat /\ current \notin inbox
      /\ Asked.endpoint = "query" /\ Asked.question = "clear"
      /\ current \notin obtained /\ calls[current] <= Retries + 1
      /\ answer = "executed" => Own \in ran
      /\ answer \in Executor!BlockedCodes => NotRun(current)
  BY <1>1 DEF IInv, HandlerInv, ServedInv, ExecutingInv, Own
<1>3. CASE answer = "executed"
  <2>1. result' = Own /\ obtained' = obtained \cup {current} /\ pc' = "signals"
    BY <1>2, <1>3 DEF PrimaryAnswered
  <2>2. RecordsOf' = RecordsOf
    BY <1>1 DEF RecordsOf, Tables!Stored
  <2>3. /\ \A n : NotRun(n)' = NotRun(n) /\ NotRecorded(n)' = NotRecorded(n)
        /\ Asked' = Asked /\ Own' = Own
    BY <1>1, <2>2 DEF NotRun, NotRecorded, Asked, Own
  <2>4. PostsInv' /\ FreshInv'
    BY <1>1, <1>2, <2>1, <2>3 DEF IInv, PostsInv, FreshInv
  <2>5. RunsAreEarned' /\ HistoryTellsWhatRan'
    BY <1>1, <2>1, <2>2 DEF IInv, LedgerInv, RunsAreEarned, HistoryTellsWhatRan
  <2>6. ResultIsReturned'
    BY <1>1, <1>2, <2>1, <2>2 DEF IInv, LedgerInv, ResultIsReturned, Answered
  <2>7. ProviderBudget'
    <3>1. Retries \in Nat /\ calls \in [PostNumbers -> Nat]
      BY WorkflowAssumption DEF IInv, PostsInv
    <3>2. \A n \in PostNumbers \ {current} : (n \in obtained') <=> (n \in obtained)
      BY <2>1
    <3>3. \A n \in PostNumbers \ {current} :
            calls[n] <= (Retries + 1) * (IF n \in obtained' THEN 2 ELSE 1)
      BY <3>2 DEF IInv, LedgerInv, ProviderBudget
    <3>4. current \in PostNumbers /\ current \in obtained'
      BY <1>2, <2>1, PostsAreNumbered
    <3>5. calls[current] <= (Retries + 1) * 2
      BY <1>2, <3>1, <3>4
    <3> QED
      BY <1>1, <3>3, <3>4, <3>5 DEF ProviderBudget
  <2>8. LedgerInv'
    BY <1>1, <2>5, <2>6, <2>7 DEF IInv, LedgerInv
  <2>9. HasResult'
    BY <1>2, <1>3, <1>1, <2>1, <2>3 DEF HasResult
  <2>10. ServedInv' /\ DraftingInv' /\ ExecutingInv' /\ CheckingInv' /\ ReplyInv'
    BY <1>1, <1>2, <2>1, <2>3, <2>9
       DEF ServedInv, DraftingInv, ExecutingInv, CheckingInv, ReplyInv
  <2> QED
    BY <1>1, <1>2, <2>1, <2>4, <2>8, <2>10 DEF IInv, HandlerInv
<1>4. CASE answer # "executed"
  <2> DEFINE outcome == IF answer \in Executor!BlockedCodes THEN "blocked" ELSE "failed"
  <2>1. Conclude("error", answer, outcome, None) /\ UNCHANGED obtained
    BY <1>4 DEF PrimaryAnswered, Fail
  <2>2. /\ PostsInv' /\ FreshInv' /\ LedgerInv' /\ RecordsOf' = RecordsOf
    BY <1>1, <2>1, HandlerStep
  <2>3. /\ outcome \in {"blocked", "failed", "clarification_required", None}
        /\ outcome \in {"blocked", "clarification_required"} => NotRun(current)
    BY <1>2
  <2> QED
    BY <1>1, <1>2, <2>1, <2>2, <2>3, Concluded
<1> QED
  BY <1>3, <1>4

-----------------------------------------------------------------------------
(* The checks of a result, and the answer.                                 *)

\* Whatever the executor says of the alternate, the result is scored.
LEMMA AlternateAnsweredKeepsIInv ==
  ASSUME IInv, AlternateAnswered
  PROVE  IInv'
<1>1. /\ pc = "executing" /\ role = "alternate" /\ pc' = "score"
      /\ UNCHANGED <<clientVars, inbox, current, tableVars, approved, ran, obtained, calls,
                     role, attempts, result>>
  BY DEF AlternateAnswered, WithoutAgreement, draftVars, historyVars
<1>2. HasResult
  BY <1>1 DEF IInv, HandlerInv, CheckingInv
<1>3. HandlerInv'
  BY <1>1, <1>2, HandlerStep
     DEF IInv, HandlerInv, ServedInv, DraftingInv, ExecutingInv, CheckingInv, ReplyInv, HasResult
<1> QED
  BY <1>1, <1>3, HandlerStep DEF IInv

\* The second opinion starts with a budget of its own.
LEMMA GatherSignalsKeepsIInv ==
  ASSUME IInv, GatherSignals
  PROVE  IInv'
<1>1. /\ pc = "signals" /\ pc' \in {"score", "draft"}
      /\ pc' = "score" => UNCHANGED <<role, attempts>>
      /\ pc' = "draft" => role' = "alternate" /\ attempts' = 0
      /\ UNCHANGED <<clientVars, inbox, current, tableVars, approved, ran, obtained, calls,
                     result>>
  BY DEF GatherSignals, historyVars
<1>2. HasResult /\ calls[current] <= Retries + 1 /\ Retries \in Nat
  BY <1>1, WorkflowAssumption DEF IInv, HandlerInv, CheckingInv
<1>3. /\ NotRecorded(current) /\ role \in {"primary", "alternate"} /\ attempts \in Nat
  BY <1>1 DEF IInv, HandlerInv, ServedInv
<1>4. calls[current] \in Nat
  BY <1>1, HandlerStep, PostsAreNumbered DEF IInv, PostsInv
<1>5. ServedInv'
  BY <1>1, <1>3, HandlerStep DEF ServedInv
<1>6. HasResult'
  BY <1>1, <1>2, HandlerStep DEF HasResult
<1>7. CheckingInv'
  BY <1>1, <1>2, <1>4, <1>6, HandlerStep DEF CheckingInv
<1>8. DraftingInv' /\ ExecutingInv' /\ ReplyInv'
  BY <1>1 DEF DraftingInv, ExecutingInv, ReplyInv
<1> QED
  BY <1>1, <1>5, <1>7, <1>8, HandlerStep DEF IInv, HandlerInv

LEMMA CheckRaisesKeepsIInv ==
  ASSUME IInv, CheckRaises
  PROVE  IInv'
BY UnhandledKeepsIInv DEF CheckRaises

LEMMA ResponseFailsKeepsIInv ==
  ASSUME IInv, ResponseFails
  PROVE  IInv'
BY UnhandledKeepsIInv DEF ResponseFails

\* A result is told with the SQL that gave it.
LEMMA ScoreKeepsIInv ==
  ASSUME IInv, Score
  PROVE  IInv'
<1>1. /\ pc = "score" /\ Conclude("query_result", "executed", "success", result)
      /\ UNCHANGED <<clientVars, inbox, current, tableVars, approved, ran, obtained, calls,
                     role, attempts>>
  BY DEF Score, draftVars, historyVars
<1>2. HasResult /\ NotRecorded(current) /\ role \in {"primary", "alternate"} /\ attempts \in Nat
  BY <1>1 DEF IInv, HandlerInv, CheckingInv, ServedInv
<1>3. /\ pc' = "record"
      /\ reply' = [kind |-> "query_result", code |-> "executed", outcome |-> "success",
                   sql |-> Own]
  BY <1>1, <1>2 DEF Conclude, HasResult
<1>4. ServedInv'
  BY <1>1, <1>2, <1>3, HandlerStep DEF ServedInv
<1>5. ReplyInv'
  <2>1. NothingButSuccess(current)'
    BY <1>1, <1>2, HandlerStep DEF NotRecorded, NothingButSuccess
  <2> QED
    BY <1>1, <1>2, <1>3, <2>1, HandlerStep DEF ReplyInv, HasResult
<1>6. DraftingInv' /\ ExecutingInv' /\ CheckingInv'
  BY <1>3 DEF DraftingInv, ExecutingInv, CheckingInv
<1> QED
  BY <1>1, <1>3, <1>4, <1>5, <1>6, HandlerStep DEF IInv, HandlerInv

\* What is recorded of a post says what ran of it; the record that it replaces
\* may be another post's.
LEMMA RecordKeepsIInv ==
  ASSUME IInv, Record
  PROVE  IInv'
<1> DEFINE content == [post |-> current, outcome |-> reply.outcome, reason |-> reply.code,
                       sql |-> reply.sql]
<1>1. /\ pc = "record" /\ pc' = "respond"
      /\ Tables!CreateOrUpdateRecord(Asked.id, content)
      /\ UNCHANGED <<posts, answers, inbox, current, reply, approved, ran, obtained, calls,
                     role, attempts>>
  BY DEF Record, clientVars, draftVars, historyVars
<1>2. /\ current \in DOMAIN posts /\ answers[current] = None /\ current \notin inbox
      /\ role \in {"primary", "alternate"} /\ attempts \in Nat
      /\ reply.sql \in {None, Own}
      /\ reply.outcome = "success" => current \in obtained /\ Own \in ran /\ reply.sql = Own
      /\ reply.outcome \in {"blocked", "clarification_required"} => NotRun(current)
      /\ current \in obtained =>
           reply.kind = "query_result" /\ reply.outcome = "success" /\ reply.sql = Own
      /\ NotRecorded(current)
  BY <1>1 DEF IInv, HandlerInv, ServedInv, ReplyInv
<1>3. \E serial : records' = [records EXCEPT ![Asked.id] = [serial |-> serial, content |-> content]]
  BY <1>1 DEF Tables!CreateOrUpdateRecord
<1>4. Asked.id \in RequestIds
  BY <1>2, PostsAreNumbered DEF Asked, Posts
<1>5. records' = [id \in RequestIds |-> records'[id]]
  BY <1>3 DEF IInv, PostsInv
<1>6. RecordsOf' \subseteq RecordsOf \cup {content}
  <2>1. \A id \in RequestIds : id # Asked.id => records'[id] = records[id]
    BY <1>3 DEF IInv, PostsInv
  <2>2. records'[Asked.id].content = content
    BY <1>3, <1>4 DEF IInv, PostsInv
  <2> QED
    BY <2>1, <2>2 DEF RecordsOf, Tables!Stored
<1>7. \A n : NotRun(n)' = NotRun(n) /\ (n # current /\ NotRecorded(n) => NotRecorded(n)')
  BY <1>1, <1>6 DEF NotRun, NotRecorded
<1>8. PostsInv' /\ FreshInv'
  BY <1>1, <1>2, <1>5, <1>7 DEF IInv, PostsInv, FreshInv
<1>9. HistoryTellsWhatRan'
  BY <1>1, <1>2, <1>6 DEF IInv, LedgerInv, HistoryTellsWhatRan, NotRun, Own
<1>10. ResultIsReturned'
  BY <1>1, <1>2, <1>6 DEF IInv, LedgerInv, ResultIsReturned, Answered
<1>11. LedgerInv'
  BY <1>1, <1>9, <1>10 DEF IInv, LedgerInv, RunsAreEarned, ProviderBudget
<1>12. current \in obtained => NothingButSuccess(current)'
  BY <1>1, <1>2, <1>6 DEF NotRecorded, NothingButSuccess
<1>13. ServedInv' /\ ReplyInv'
  BY <1>1, <1>2, <1>7, <1>12 DEF ServedInv, ReplyInv, Own
<1>14. DraftingInv' /\ ExecutingInv' /\ CheckingInv'
  BY <1>1 DEF DraftingInv, ExecutingInv, CheckingInv
<1> QED
  BY <1>1, <1>2, <1>8, <1>11, <1>13, <1>14 DEF IInv, HandlerInv

LEMMA RecordFailsKeepsIInv ==
  ASSUME IInv, RecordFails
  PROVE  IInv'
<1>1. /\ pc = "record" /\ pc' = "respond"
      /\ UNCHANGED <<clientVars, inbox, current, tableVars, reply, approved, ran, obtained,
                     calls, role, attempts>>
  BY DEF RecordFails, draftVars
<1>2. NothingButSuccess(current)' = NothingButSuccess(current)
  BY <1>1, HandlerStep DEF NothingButSuccess
<1>3. ServedInv' /\ ReplyInv'
  BY <1>1, <1>2, HandlerStep DEF IInv, HandlerInv, ServedInv, ReplyInv
<1>4. DraftingInv' /\ ExecutingInv' /\ CheckingInv'
  BY <1>1 DEF DraftingInv, ExecutingInv, CheckingInv
<1> QED
  BY <1>1, <1>3, <1>4, HandlerStep DEF IInv, HandlerInv

\* The post is over: what it was told agrees with what was obtained.
LEMMA RespondKeepsIInv ==
  ASSUME IInv, Respond
  PROVE  IInv'
<1>1. /\ pc = "respond" /\ Idle
      /\ answers' = IF current \in waiting THEN [answers EXCEPT ![current] = Shown]
                                           ELSE answers
      /\ UNCHANGED <<posts, inbox, records, approved, ran, obtained, calls>>
  BY DEF Respond, tableVars, historyVars
<1>2. /\ current \in DOMAIN posts /\ current \notin inbox
      /\ reply.sql \in {None, Own}
      /\ current \in obtained =>
           /\ NothingButSuccess(current)
           /\ \/ reply.kind = "query_result" /\ reply.sql = Own
              \/ reply.code = "internal_server_error"
  BY <1>1 DEF IInv, HandlerInv, ServedInv, ReplyInv
<1>3. RecordsOf' = RecordsOf
  BY <1>1 DEF RecordsOf, Tables!Stored
<1>4. \A n : NotRun(n)' = NotRun(n) /\ NotRecorded(n)' = NotRecorded(n)
  BY <1>1, <1>3 DEF NotRun, NotRecorded
<1>5. /\ answers' = [n \in PostNumbers |-> answers'[n]]
      /\ \A n \in PostNumbers : n # current => answers'[n] = answers[n]
      /\ answers'[current] = Shown \/ answers'[current] = answers[current]
  BY <1>1, <1>2, PostsAreNumbered DEF IInv, PostsInv
<1>6. PostsInv' /\ FreshInv'
  BY <1>1, <1>2, <1>4, <1>5 DEF IInv, PostsInv, FreshInv
<1>7. ResultIsReturned'
  <2> SUFFICES ASSUME NEW n \in obtained, n \in PostNumbers, answers'[n] # None
               PROVE  \/ answers'[n].kind = "query_result" /\ answers'[n].sql = Sql(n, "primary")
                      \/ /\ answers'[n].code = "internal_server_error"
                         /\ NothingButSuccess(n)
    BY <1>1, <1>3 DEF ResultIsReturned, Answered, NothingButSuccess
  <2>1. CASE answers'[n] = answers[n]
    BY <2>1 DEF IInv, LedgerInv, ResultIsReturned, Answered, NothingButSuccess
  <2>2. CASE n = current /\ answers'[n] = Shown
    BY <1>2, <2>2 DEF Shown, Own
  <2> QED
    BY <1>5, <2>1, <2>2
<1>8. LedgerInv'
  BY <1>1, <1>3, <1>7 DEF IInv, LedgerInv, RunsAreEarned, HistoryTellsWhatRan, ProviderBudget
<1>9. inbox' \subseteq Nat \ {0}
  BY <1>1, PostsAreNumbered DEF IInv, PostsInv
<1> QED
  BY <1>1, <1>6, <1>8, <1>9, IdleHandler DEF IInv

-----------------------------------------------------------------------------
LEMMA NextKeepsIInv ==
  ASSUME IInv, [Next]_vars
  PROVE  IInv'
<1>1. ASSUME NEW id \in RequestIds, NEW endpoint \in Endpoints, NEW question \in Questions,
             Post(id, endpoint, question)
      PROVE  IInv'
  BY <1>1, PostKeepsIInv
<1>2. ASSUME NEW n \in PostNumbers, GiveUp(n) \/ GiveFeedback(n)
      PROVE  IInv'
  BY <1>2, GiveUpKeepsIInv, GiveFeedbackKeepsIInv
<1>3. CASE Crash
  BY <1>3, CrashKeepsIInv
<1>4. CASE Serve
  BY <1>4, StartKeepsIInv, ValidateQuestionKeepsIInv, GetSchemaKeepsIInv, ClarifyKeepsIInv,
     ProviderRetriedKeepsIInv, ProviderFailsKeepsIInv, ProviderAsksKeepsIInv,
     DraftRejectedKeepsIInv, DraftRaisesKeepsIInv, DraftApprovedKeepsIInv,
     AlternateWrittenKeepsIInv,
     HandOverKeepsIInv, ExecutorStepKeepsIInv, PrimaryAnsweredKeepsIInv,
     AlternateAnsweredKeepsIInv, GatherSignalsKeepsIInv, CheckRaisesKeepsIInv, ScoreKeepsIInv,
     RecordKeepsIInv, RecordFailsKeepsIInv, ResponseFailsKeepsIInv, RespondKeepsIInv
     DEF Serve
<1>5. CASE UNCHANGED vars
  <2>1. UNCHANGED <<posts, answers, inbox, current, pc, draftVars, callVars, reply,
                    records, approved, ran, obtained, calls>>
    BY <1>5 DEF vars, clientVars, tableVars, historyVars
  <2> QED
    BY <2>1, LedgerUntouched, HandlerUntouched DEF IInv, HandlerInv
<1> QED
  BY <1>1, <1>2, <1>3, <1>4, <1>5 DEF Next

\* What the handler knows at each of its steps, and what no step forgets: the
\* strengthening that the four theorems below rest on.
THEOREM WorkflowInvariant == Spec => []IInv
<1>1. Init => IInv
  BY Initially
<1>2. IInv /\ [Next]_vars => IInv'
  BY NextKeepsIInv
<1> QED
  BY <1>1, <1>2, PTL DEF Spec

\* run_query and draft_query: generated SQL runs only for POST /v1/query, only
\* after the policy approved it, and an alternate only beside the rows of the
\* primary SQL.
THEOREM RunsAreEarnedHolds == Spec => []RunsAreEarned
<1>1. IInv => RunsAreEarned
  BY DEF IInv, LedgerInv
<1> QED
  BY <1>1, WorkflowInvariant, PTL

\* record_history_safely: whatever order the posts, crashes and reused request
\* ids come in, a record's outcome is what happened to its post in the database.
THEOREM HistoryTellsWhatRanHolds == Spec => []HistoryTellsWhatRan
<1>1. IInv => HistoryTellsWhatRan
  BY DEF IInv, LedgerInv
<1> QED
  BY <1>1, WorkflowInvariant, PTL

\* run_query: rows that were obtained are returned with the SQL that gave them,
\* or the client is told of an internal error, beside a record of success or none.
THEOREM ResultIsReturnedHolds == Spec => []ResultIsReturned
<1>1. IInv => ResultIsReturned
  BY DEF IInv, LedgerInv
<1> QED
  BY <1>1, WorkflowInvariant, PTL

\* OpenAISQLGenerationProvider.generate: a request costs at most the attempts
\* of one loop, and of a second one only when it obtained a result.
THEOREM ProviderBudgetHolds == Spec => []ProviderBudget
<1>1. IInv => ProviderBudget
  BY DEF IInv, LedgerInv
<1> QED
  BY <1>1, WorkflowInvariant, PTL

-----------------------------------------------------------------------------
(* Types.                                                                  *)

\* What the types of the replies and of the records rest on.
TypesInv ==
  /\ TypeOK
  /\ pc = "executing" /\ phase = "idle" => answer \in Executor!Codes
  /\ pc = "record" => Asked.endpoint = "query" /\ reply.outcome \in Outcomes
  /\ IsFiniteSet(Tables!Stored)

LEMMA InitialTypes ==
  ASSUME Init
  PROVE  TypesInv
<1>1. Tables!Stored = {} /\ Tables!TablesOK
  BY DEF Init, Tables!Init, Tables!Stored, Tables!TablesOK
<1>2. IsFiniteSet(Tables!Stored)
  BY <1>1, FS_EmptySet
<1>3. posts \in Seq(Posts) /\ Len(posts) = 0 /\ DOMAIN posts = {}
  BY DEF Init
<1>4. Answered = {}
  BY DEF Init, Answered
<1>5. TypeOK
  BY <1>1, <1>3, <1>4, WorkflowAssumption DEF Init, TypeOK, Executor!Init
<1> QED
  BY <1>2, <1>5 DEF TypesInv, Init

LEMMA TablesUntouched ==
  ASSUME TypesInv, UNCHANGED tableVars
  PROVE  Tables!TablesOK' /\ IsFiniteSet(Tables!Stored)'
<1>1. Tables!Stored' = Tables!Stored
  BY DEF tableVars, Tables!Stored
<1> QED
  BY <1>1 DEF TypesInv, TypeOK, tableVars, Tables!TablesOK

LEMMA PostTypes ==
  ASSUME IInv, TypesInv, NEW id \in RequestIds, NEW endpoint \in Endpoints,
         NEW question \in Questions, Post(id, endpoint, question)
  PROVE  TypesInv'
<1> DEFINE n == Len(posts) + 1
           new == [id |-> id, endpoint |-> endpoint, question |-> question]
<1>1. /\ n <= MaxPosts /\ posts' = Append(posts, new)
      /\ waiting' = waiting \cup {n} /\ inbox' = inbox \cup {n}
      /\ UNCHANGED <<answers, current, pc, draftVars, callVars, reply, tableVars, historyVars>>
  BY DEF Post
<1>2. Tables!TablesOK' /\ IsFiniteSet(Tables!Stored)'
  BY <1>1, TablesUntouched
<1>3. /\ posts' \in Seq(Posts) /\ Len(posts') = n /\ DOMAIN posts' = 1 .. n
      /\ DOMAIN posts = 1 .. Len(posts) /\ Len(posts) \in Nat
      /\ \A m \in DOMAIN posts : m \in DOMAIN posts' /\ posts'[m] = posts[m]
  <2>1. posts \in Seq(Posts) /\ new \in Posts /\ DOMAIN posts = 1 .. Len(posts)
        /\ Len(posts) \in Nat
    BY PostsAreNumbered DEF IInv, PostsInv, Posts
  <2> HIDE DEF new
  <2> QED
    BY <1>1, <2>1
<1>4. /\ n \notin DOMAIN posts /\ n \in DOMAIN posts' /\ n # 0
      /\ current # 0 => current \in DOMAIN posts /\ posts'[current] = posts[current]
  BY <1>3 DEF TypesInv, TypeOK
<1>5. Answered' = Answered
  BY <1>1 DEF Answered
<1>6. /\ waiting' \subseteq inbox' \cup ({current'} \ {0})
      /\ inbox' \subseteq DOMAIN posts' \ {current'}
      /\ current' \in {0} \cup DOMAIN posts'
      /\ \A m \in Answered' : m \in DOMAIN posts' /\ m \notin waiting'
  BY <1>1, <1>3, <1>4, <1>5 DEF TypesInv, TypeOK
<1>7. TypeOK'
  BY <1>1, <1>2, <1>3, <1>6
     DEF TypesInv, TypeOK, draftVars, callVars, historyVars
<1>8. pc = "record" => Asked' = Asked
  BY <1>1, <1>4 DEF TypesInv, TypeOK, Asked
<1> QED
  BY <1>1, <1>2, <1>7, <1>8 DEF TypesInv, callVars

LEMMA GiveUpTypes ==
  ASSUME TypesInv, NEW n, GiveUp(n)
  PROVE  TypesInv'
<1>1. Tables!TablesOK' /\ IsFiniteSet(Tables!Stored)'
  BY TablesUntouched DEF GiveUp
<1>2. TypeOK'
  BY <1>1 DEF TypesInv, TypeOK, GiveUp, Answered, draftVars, callVars, historyVars
<1> QED
  BY <1>1, <1>2 DEF TypesInv, GiveUp, callVars, Asked

LEMMA GiveFeedbackTypes ==
  ASSUME TypesInv, NEW n \in PostNumbers, GiveFeedback(n)
  PROVE  TypesInv'
<1>1. /\ posts[n].id \in Tables!Stored
      /\ feedback' = feedback \cup {[id |-> posts[n].id, remark |-> n]}
      /\ records' = records
  BY DEF GiveFeedback, Tables!AddFeedback
<1>2. Tables!Stored' = Tables!Stored
  BY <1>1 DEF Tables!Stored
<1>3. Tables!TablesOK' /\ IsFiniteSet(Tables!Stored)'
  BY <1>1, <1>2 DEF TypesInv, TypeOK, Tables!TablesOK
<1>4. TypeOK'
  BY <1>3 DEF TypesInv, TypeOK, GiveFeedback, Answered, clientVars, draftVars, callVars,
              historyVars
<1> QED
  BY <1>3, <1>4 DEF TypesInv, GiveFeedback, callVars, clientVars, Asked

LEMMA CrashTypes ==
  ASSUME TypesInv, Crash
  PROVE  TypesInv'
<1>1. Tables!TablesOK' /\ IsFiniteSet(Tables!Stored)'
  BY TablesUntouched DEF Crash
<1>2. TypeOK'
  BY <1>1, WorkflowAssumption DEF TypesInv, TypeOK, Crash, Idle, Answered, historyVars
<1> QED
  BY <1>1, <1>2 DEF TypesInv, Crash, Idle

LEMMA StartTypes ==
  ASSUME TypesInv, NEW n \in PostNumbers, Start(n)
  PROVE  TypesInv'
<1>1. Tables!TablesOK' /\ IsFiniteSet(Tables!Stored)'
  BY TablesUntouched DEF Start
<1>2. n \in DOMAIN posts /\ n # 0
  BY WorkflowAssumption DEF TypesInv, TypeOK, Start, PostNumbers
<1>3. TypeOK'
  BY <1>1, <1>2 DEF TypesInv, TypeOK, Start, Answered, clientVars, draftVars, callVars,
                    historyVars
<1> QED
  BY <1>1, <1>3 DEF TypesInv, Start

\* A reply that is about to be recorded or answered.
LEMMA ConcludedTypes ==
  ASSUME TypesInv, pc \notin {"idle", "record", "respond"},
         NEW kind \in {"query_result", "sql_draft", "clarification_required", "error"},
         NEW code \in ReplyCodes, NEW outcome \in Outcomes \cup {None},
         NEW sql \in Sqls \cup {None},
         Asked.endpoint = "query" => outcome \in Outcomes,
         Conclude(kind, code, outcome, sql)
  PROVE  /\ reply' \in Replies /\ reply' # None /\ pc' \in {"record", "respond"}
         /\ pc' = "record" => Asked.endpoint = "query" /\ reply'.outcome \in Outcomes
BY WorkflowAssumption DEF Conclude, Replies

\* Steps that leave clients, the inbox and the tables alone.
LEMMA HandlerTypes ==
  ASSUME TypesInv, pc # "idle", UNCHANGED <<clientVars, inbox, current, tableVars>>,
         pc' \in {"validate", "schema", "draft", "execute", "executing", "signals", "score",
                  "record", "respond"},
         reply' \in Replies \cup {None},
         (reply' # None) <=> (pc' \in {"record", "respond"}),
         role' \in {"primary", "alternate"}, attempts' \in 0 .. Retries,
         draft' \in Sqls \cup {None}, result' \in Sqls \cup {None},
         phase' \in {"idle", "submitted", "approved", "ran"},
         answer' \in Executor!Codes \cup {"none"},
         phase' # "idle" => pc' = "executing",
         approved' \subseteq Sqls, ran' \subseteq Sqls,
         obtained' \cup unrecorded' \subseteq DOMAIN posts, calls' \in [PostNumbers -> Nat],
         pc' = "executing" /\ phase' = "idle" => answer' \in Executor!Codes,
         pc' = "record" => Asked.endpoint = "query" /\ reply'.outcome \in Outcomes
  PROVE  TypesInv'
<1>1. Tables!TablesOK' /\ IsFiniteSet(Tables!Stored)'
  BY TablesUntouched
<1>2. Answered' = Answered /\ Asked' = Asked
  BY DEF clientVars, Answered, Asked
<1>3. TypeOK'
  BY <1>1, <1>2 DEF TypesInv, TypeOK, clientVars
<1> QED
  BY <1>1, <1>2, <1>3 DEF TypesInv

LEMMA BeforeExecutorTypes ==
  ASSUME IInv, TypesInv,
         \/ ValidateQuestion \/ GetSchema \/ SchemaFails \/ ClarifyBeforeProvider
         \/ GatherSignals \/ CheckRaises \/ Score
  PROVE  TypesInv'
<1>1. /\ pc \in {"validate", "schema", "draft", "signals", "execute", "executing", "score"}
      /\ UNCHANGED <<clientVars, inbox, current, tableVars, result, callVars, approved, ran,
                     obtained, calls, unrecorded>>
  BY DEF ValidateQuestion, GetSchema, SchemaFails, ClarifyBeforeProvider, GatherSignals,
         CheckRaises, Score, draftVars, historyVars
<1>2. /\ role' \in {"primary", "alternate"} /\ attempts' \in 0 .. Retries
      /\ draft' \in Sqls \cup {None}
  BY WorkflowAssumption
     DEF ValidateQuestion, GetSchema, SchemaFails, ClarifyBeforeProvider, GatherSignals,
         CheckRaises, Score, draftVars, TypesInv, TypeOK
<1>3. phase = "idle" /\ reply = None
  <2>1. pc = "executing" => phase = "idle"
    BY DEF ValidateQuestion, GetSchema, SchemaFails, ClarifyBeforeProvider, GatherSignals,
           CheckRaises, Score
  <2> QED
    BY <1>1, <2>1 DEF TypesInv, TypeOK
<1> DEFINE Told == /\ reply' \in Replies /\ reply' # None /\ pc' \in {"record", "respond"}
                   /\ pc' = "record" => Asked.endpoint = "query" /\ reply'.outcome \in Outcomes
<1>4. CASE ValidateQuestion
  <2>1. Asked.question = "invalid" => Told
    BY <1>1, <1>4, ConcludedTypes DEF ValidateQuestion, Fail, ReplyCodes, Outcomes
  <2>2. Asked.question # "invalid" => pc' = "schema" /\ reply' = reply
    BY <1>4 DEF ValidateQuestion
  <2> QED
    BY <1>1, <1>2, <1>3, <2>1, <2>2, HandlerTypes DEF TypesInv, TypeOK, callVars
<1>5. CASE GetSchema
  BY <1>1, <1>2, <1>3, <1>5, HandlerTypes DEF GetSchema, TypesInv, TypeOK, callVars
<1>6. CASE SchemaFails \/ CheckRaises
  <2>1. Told /\ pc' = "respond"
    BY <1>6, WorkflowAssumption DEF SchemaFails, CheckRaises, Unhandled, Replies, ReplyCodes
  <2> QED
    BY <1>1, <1>2, <1>3, <2>1, HandlerTypes DEF TypesInv, TypeOK, callVars
<1>7. CASE ClarifyBeforeProvider
  <2>1. Told
    BY <1>1, <1>7, ConcludedTypes DEF ClarifyBeforeProvider, Clarify, ReplyCodes, Outcomes
  <2> QED
    BY <1>1, <1>2, <1>3, <2>1, HandlerTypes DEF TypesInv, TypeOK, callVars
<1>8. CASE GatherSignals
  BY <1>1, <1>2, <1>3, <1>8, HandlerTypes DEF GatherSignals, TypesInv, TypeOK, callVars
<1>9. CASE Score
  <2>1. Told
    BY <1>1, <1>9, ConcludedTypes DEF Score, TypesInv, TypeOK, ReplyCodes, Executor!Codes,
                                      Outcomes
  <2> QED
    BY <1>1, <1>2, <1>3, <2>1, HandlerTypes DEF TypesInv, TypeOK, callVars
<1> QED
  BY <1>4, <1>5, <1>6, <1>7, <1>8, <1>9

LEMMA ProviderTypes ==
  ASSUME IInv, TypesInv,
         \/ ProviderRetried \/ ProviderFails \/ ProviderAsks
         \/ DraftRejected \/ DraftRaises \/ DraftApproved \/ AlternateWritten
  PROVE  TypesInv'
<1>1. /\ CallProvider /\ role' = role
      /\ pc = "draft" /\ phase = "idle" /\ reply = None
      /\ UNCHANGED <<clientVars, inbox, current, tableVars, result, callVars, ran,
                     obtained, unrecorded>>
  BY DEF ProviderRetried, ProviderFails, ProviderAsks, DraftRejected, DraftRaises,
         DraftApproved, AlternateWritten, CallProvider, TypesInv, TypeOK
<1>2. Own \in Sqls /\ Sql(current, "alternate") \in Sqls /\ current \in PostNumbers
  BY <1>1, PostsAreNumbered DEF TypesInv, TypeOK, Own, Sql, Sqls
<1>3. calls' \in [PostNumbers -> Nat]
  BY <1>1, <1>2 DEF CallProvider, TypesInv, TypeOK
<1>4. attempts' \in 0 .. Retries
  BY WorkflowAssumption DEF ProviderRetried, ProviderFails, ProviderAsks, DraftRejected,
     DraftRaises, DraftApproved, AlternateWritten, TypesInv, TypeOK
<1>5. approved' \subseteq Sqls /\ draft' \in Sqls \cup {None}
  BY <1>2 DEF ProviderRetried, ProviderFails, ProviderAsks, DraftRejected, DraftRaises,
     DraftApproved, AlternateWritten, WithoutAgreement, TypesInv, TypeOK
<1> DEFINE Told == /\ reply' \in Replies /\ reply' # None /\ pc' \in {"record", "respond"}
                   /\ pc' = "record" => Asked.endpoint = "query" /\ reply'.outcome \in Outcomes
<1>6. \/ Told
      \/ pc' \in {"draft", "score", "execute"} /\ reply' = reply
  <2>1. CASE ProviderFails
    <3>1. CASE role = "primary"
      <4>1. PICK failure \in ProviderFailures : Conclude("error", failure, "failed", None)
        BY <2>1, <3>1 DEF ProviderFails, Fail
      <4> QED
        BY <1>1, <4>1, ConcludedTypes DEF ReplyCodes, Outcomes
    <3>2. CASE role # "primary"
      BY <2>1, <3>2 DEF ProviderFails, WithoutAgreement
    <3> QED
      BY <3>1, <3>2
  <2>2. CASE ProviderAsks
    <3>1. CASE role = "primary"
      BY <1>1, <2>2, <3>1, ConcludedTypes DEF ProviderAsks, Clarify, ReplyCodes, Outcomes
    <3>2. CASE role # "primary"
      BY <2>2, <3>2 DEF ProviderAsks, WithoutAgreement
    <3> QED
      BY <3>1, <3>2
  <2>3. CASE DraftRejected
    BY <1>1, <1>2, <2>3, ConcludedTypes
       DEF DraftRejected, Fail, ReplyCodes, Executor!Codes, Executor!BlockedCodes, Outcomes
  <2>4. CASE DraftApproved
    <3>1. CASE Asked.endpoint = "query"
      BY <2>4, <3>1 DEF DraftApproved
    <3>2. CASE Asked.endpoint # "query"
      <4>1. Conclude("sql_draft", "drafted", None, Own)
        BY <2>4, <3>2 DEF DraftApproved
      <4> QED
        BY <1>1, <1>2, <3>2, <4>1, ConcludedTypes DEF ReplyCodes
    <3> QED
      BY <3>1, <3>2
  <2>5. CASE AlternateWritten
    BY <2>5 DEF AlternateWritten, WithoutAgreement
  <2>6. CASE ProviderRetried
    BY <1>1, <2>6 DEF ProviderRetried
  <2>7. CASE DraftRaises
    BY <2>7, WorkflowAssumption DEF DraftRaises, Unhandled, Replies, ReplyCodes
  <2> QED
    BY <2>1, <2>2, <2>3, <2>4, <2>5, <2>6, <2>7
<1>7. CASE Told
  BY <1>1, <1>3, <1>4, <1>5, <1>7, HandlerTypes DEF TypesInv, TypeOK, callVars
<1>8. CASE pc' \in {"draft", "score", "execute"} /\ reply' = reply
  BY <1>1, <1>3, <1>4, <1>5, <1>8, HandlerTypes DEF TypesInv, TypeOK, callVars
<1> QED
  BY <1>6, <1>7, <1>8

LEMMA ExecutorTypes ==
  ASSUME IInv, TypesInv, HandOver \/ ExecutorStep
  PROVE  TypesInv'
<1>1. /\ pc \in {"execute", "executing"} /\ pc' = "executing" /\ reply = None
      /\ UNCHANGED <<clientVars, inbox, current, tableVars, draftVars, reply, obtained,
                     calls, unrecorded>>
  BY DEF HandOver, ExecutorStep, TypesInv, TypeOK
<1>2. draft \in Sqls
  BY <1>1, PostsAreNumbered
     DEF IInv, HandlerInv, ServedInv, ExecutingInv, Sql, Sqls
<1>3. approved' \subseteq Sqls /\ ran' \subseteq Sqls
  BY <1>2 DEF HandOver, ExecutorStep, TypesInv, TypeOK
<1>4. phase' \in {"idle", "submitted", "approved", "ran"}
  BY DEF HandOver, ExecutorStep, Executor!Submit, Executor!Refuse, Executor!Approve,
         Executor!Run, Executor!Answer
<1>5. /\ answer' \in Executor!Codes \cup {"none"}
      /\ phase' = "idle" => answer' \in Executor!Codes
  <2>1. CASE HandOver
    BY <2>1 DEF HandOver, Executor!Submit, Executor!Refuse, Executor!Codes,
                Executor!BlockedCodes
  <2>2. CASE ExecutorStep /\ phase' # "idle"
    BY <2>2 DEF ExecutorStep, Executor!Approve, Executor!Run, Executor!Answer, TypesInv, TypeOK
  <2>3. CASE ExecutorStep /\ phase' = "idle"
    <3>1. phase \in {"submitted", "approved", "ran"} /\ answer' \in Executor!Allowed[phase]
      BY <2>3 DEF ExecutorStep, Executor!Approve, Executor!Run, Executor!Answer, TypesInv, TypeOK
    <3>2. Executor!Allowed[phase] \subseteq Executor!Codes
      BY <3>1 DEF Executor!Allowed, Executor!Codes
    <3> QED
      BY <3>1, <3>2
  <2> QED
    BY <2>1, <2>2, <2>3
<1> QED
  BY <1>1, <1>3, <1>4, <1>5, HandlerTypes DEF TypesInv, TypeOK, draftVars

LEMMA AnsweredTypes ==
  ASSUME IInv, TypesInv, PrimaryAnswered \/ AlternateAnswered
  PROVE  TypesInv'
<1>1. /\ pc = "executing" /\ phase = "idle" /\ reply = None
      /\ UNCHANGED <<clientVars, inbox, current, tableVars, callVars, role, attempts, draft,
                     approved, ran, calls, unrecorded>>
  BY DEF PrimaryAnswered, AlternateAnswered, TypesInv, TypeOK, draftVars, historyVars
<1>2. CASE AlternateAnswered
  BY <1>1, <1>2, HandlerTypes
     DEF AlternateAnswered, WithoutAgreement, draftVars, historyVars, TypesInv, TypeOK, callVars
<1>3. CASE PrimaryAnswered /\ answer = "executed"
  <2>1. /\ result' = draft /\ obtained' = obtained \cup {current} /\ pc' = "signals"
        /\ reply' = reply
    BY <1>3 DEF PrimaryAnswered
  <2>2. current \in DOMAIN posts
    BY <1>1 DEF TypesInv, TypeOK
  <2> QED
    BY <1>1, <2>1, <2>2, HandlerTypes DEF TypesInv, TypeOK, callVars
<1>4. CASE PrimaryAnswered /\ answer # "executed"
  <2> DEFINE outcome == IF answer \in Executor!BlockedCodes THEN "blocked" ELSE "failed"
  <2>1. Conclude("error", answer, outcome, None) /\ UNCHANGED <<result, obtained>>
    BY <1>4 DEF PrimaryAnswered, Fail
  <2>2. answer \in ReplyCodes /\ outcome \in Outcomes
    BY <1>1 DEF TypesInv, ReplyCodes, Outcomes
  <2>3. /\ reply' \in Replies /\ reply' # None /\ pc' \in {"record", "respond"}
        /\ pc' = "record" => Asked.endpoint = "query" /\ reply'.outcome \in Outcomes
    BY <1>1, <2>1, <2>2, ConcludedTypes
  <2> QED
    BY <1>1, <2>1, <2>3, HandlerTypes DEF TypesInv, TypeOK, callVars
<1> QED
  BY <1>2, <1>3, <1>4

\* A record is a row of the table, and adds at most one request id.
LEMMA RecordTypes ==
  ASSUME IInv, TypesInv, Record
  PROVE  /\ TypesInv'
         /\ records'[Asked.id] # None
<1> DEFINE content == [post |-> current, outcome |-> reply.outcome, reason |-> reply.code,
                       sql |-> reply.sql]
           id == Asked.id
           serial == IF id \in Tables!Stored THEN records[id].serial
                                             ELSE Cardinality(Tables!Stored) + 1
           row == [serial |-> serial, content |-> content]
<1>0. Tables!Cardinality(Tables!Stored) = Cardinality(Tables!Stored)
  BY DEF Tables!Cardinality, Cardinality
<1>1. /\ pc = "record" /\ pc' = "respond"
      /\ records' = [records EXCEPT ![id] = row]
      /\ UNCHANGED <<clientVars, inbox, current, draftVars, callVars, reply, feedback,
                     historyVars>>
  BY <1>0 DEF Record, Tables!CreateOrUpdateRecord
<1>2. current \in DOMAIN posts /\ current \in PostNumbers /\ id \in RequestIds
  BY <1>1, PostsAreNumbered DEF TypesInv, TypeOK, Asked, Posts
<1>3. content \in Records
  BY <1>1, <1>2 DEF TypesInv, TypeOK, Records, Replies
<1>4. row \in [serial : Nat, content : Records]
  <2>1. CASE id \in Tables!Stored
    BY <1>2, <1>3, <2>1 DEF TypesInv, TypeOK, Tables!TablesOK, Tables!Stored
  <2>2. CASE id \notin Tables!Stored
    <3>1. Cardinality(Tables!Stored) \in Nat
      BY FS_CardinalityType DEF TypesInv
    <3> QED
      BY <1>3, <2>2, <3>1
  <2> QED
    BY <2>1, <2>2
<1> HIDE DEF content, row
<1>5. row # None
  BY <1>4, WorkflowAssumption
<1>6. records \in [RequestIds -> [serial : Nat, content : Records] \cup {None}]
  BY DEF TypesInv, TypeOK, Tables!TablesOK
<1>7. /\ records' \in [RequestIds -> [serial : Nat, content : Records] \cup {None}]
      /\ records'[id] = row
      /\ Tables!Stored' = Tables!Stored \cup {id}
  BY <1>1, <1>2, <1>4, <1>5, <1>6 DEF Tables!Stored
<1>8. Tables!TablesOK' /\ IsFiniteSet(Tables!Stored)'
  BY <1>1, <1>7, FS_AddElement DEF TypesInv, TypeOK, Tables!TablesOK
<1>9. TypeOK'
  BY <1>1, <1>8
     DEF TypesInv, TypeOK, clientVars, draftVars, callVars, historyVars, Answered
<1> QED
  BY <1>1, <1>5, <1>7, <1>8, <1>9 DEF TypesInv

LEMMA RecordFailsTypes ==
  ASSUME IInv, TypesInv, RecordFails
  PROVE  TypesInv'
<1>1. current \in DOMAIN posts
  BY DEF TypesInv, TypeOK, RecordFails
<1> QED
  BY <1>1, HandlerTypes DEF RecordFails, TypesInv, TypeOK, draftVars, callVars

LEMMA ResponseFailsTypes ==
  ASSUME IInv, TypesInv, ResponseFails
  PROVE  TypesInv'
<1>1. /\ pc = "respond" /\ pc' = "respond" /\ phase = "idle"
      /\ UNCHANGED <<clientVars, inbox, current, draftVars, callVars, tableVars, historyVars>>
  BY DEF ResponseFails, Unhandled, TypesInv, TypeOK
<1>2. reply' \in Replies /\ reply' # None
  BY WorkflowAssumption DEF ResponseFails, Unhandled, Replies, ReplyCodes
<1> QED
  BY <1>1, <1>2, HandlerTypes DEF TypesInv, TypeOK, draftVars, callVars, historyVars

LEMMA RespondTypes ==
  ASSUME IInv, TypesInv, Respond
  PROVE  TypesInv'
<1>1. /\ current \in DOMAIN posts /\ current # 0 /\ Idle
      /\ answers' = IF current \in waiting THEN [answers EXCEPT ![current] = Shown]
                                           ELSE answers
      /\ waiting' = waiting \ {current}
      /\ UNCHANGED <<posts, inbox, tableVars, historyVars>>
  BY DEF TypesInv, TypeOK, Respond
<1>2. Tables!TablesOK' /\ IsFiniteSet(Tables!Stored)'
  BY <1>1, TablesUntouched
<1>3. Answered' \subseteq Answered \cup {current}
  BY <1>1 DEF IInv, PostsInv, Answered
<1>4. TypeOK'
  BY <1>1, <1>2, <1>3, WorkflowAssumption DEF TypesInv, TypeOK, Idle, historyVars
<1> QED
  BY <1>1, <1>2, <1>4 DEF TypesInv, Idle

LEMMA NextKeepsTypes ==
  ASSUME IInv, TypesInv, [Next]_vars
  PROVE  TypesInv'
<1>1. ASSUME NEW id \in RequestIds, NEW endpoint \in Endpoints, NEW question \in Questions,
             Post(id, endpoint, question)
      PROVE  TypesInv'
  BY <1>1, PostTypes
<1>2. ASSUME NEW n \in PostNumbers, GiveUp(n) \/ GiveFeedback(n)
      PROVE  TypesInv'
  BY <1>2, GiveUpTypes, GiveFeedbackTypes
<1>3. CASE Crash
  BY <1>3, CrashTypes
<1>4. CASE Serve
  BY <1>4, StartTypes, BeforeExecutorTypes, ProviderTypes, ExecutorTypes, AnsweredTypes,
     RecordTypes, RecordFailsTypes, ResponseFailsTypes, RespondTypes DEF Serve
<1>5. CASE UNCHANGED vars
  <2>1. Tables!TablesOK' /\ IsFiniteSet(Tables!Stored)'
    BY <1>5, TablesUntouched DEF vars
  <2>2. TypeOK'
    BY <1>5, <2>1 DEF vars, clientVars, draftVars, callVars, historyVars, TypesInv, TypeOK,
                      Answered
  <2> QED
    BY <1>5, <2>1, <2>2 DEF TypesInv, vars, clientVars, callVars, Asked
<1> QED
  BY <1>1, <1>2, <1>3, <1>4, <1>5 DEF Next

\* QueryWorkflow is well typed, for every number of posts and of retries.
THEOREM WorkflowTypes == Spec => []TypeOK
<1>1. Init => IInv /\ TypesInv
  BY Initially, InitialTypes
<1>2. (IInv /\ TypesInv) /\ [Next]_vars => (IInv /\ TypesInv)'
  BY NextKeepsIInv, NextKeepsTypes
<1>3. TypesInv => TypeOK
  BY DEF TypesInv
<1> QED
  BY <1>1, <1>2, <1>3, PTL DEF Spec

-----------------------------------------------------------------------------
(* The answer and the record.                                              *)

\* What a post was told, or is about to be told, and its record agree.
Agrees(n, told) ==
  LET row == records[posts[n].id]
  IN IF row = None
     THEN n \in unrecorded \/ told.code = "internal_server_error"
     ELSE /\ row.content.post = n
          /\ \/ /\ row.content.reason = told.code
                /\ (row.content.outcome = "success") <=> (told.kind = "query_result")
                /\ told.sql # None => row.content.sql = told.sql
             \/ /\ told.code = "internal_server_error"
                /\ row.content.outcome = "success"

\* A record is that of a post under its request id.
OwnedInv ==
  \A id \in Tables!Stored :
    records[id].content.post \in DOMAIN posts /\ posts[records[id].content.post].id = id

\* Success is what history calls a result.
OutcomeInv ==
  pc = "record" => ((reply.outcome = "success") <=> (reply.kind = "query_result"))

\* Nothing else can be stored under the id of a post without namesakes.
ToldInv ==
  (pc = "respond" /\ Asked.endpoint = "query" /\ Namesakes(current) = {current}) =>
    Agrees(current, reply)

MatchInv == OwnedInv /\ OutcomeInv /\ ToldInv /\ AnswerMatchesRecord

LEMMA NothingRecorded ==
  ASSUME IInv, TypesInv, MatchInv, pc \notin {"idle", "respond"},
         Namesakes(current) = {current}
  PROVE  records[Asked.id] = None
<1>1. current \in DOMAIN posts /\ Asked.id \in RequestIds /\ NotRecorded(current)
  BY PostsAreNumbered DEF IInv, HandlerInv, ServedInv, Asked, Posts
<1> SUFFICES ASSUME records[Asked.id] # None
             PROVE  FALSE
  OBVIOUS
<1>2. Asked.id \in Tables!Stored
  BY <1>1 DEF Tables!Stored
<1>3. records[Asked.id].content.post \in Namesakes(current)
  BY <1>2 DEF MatchInv, OwnedInv, Namesakes, Asked
<1>4. records[Asked.id].content.post # current
  BY <1>1, <1>2 DEF NotRecorded, RecordsOf
<1> QED
  BY <1>3, <1>4

\* What the posts were told is of no concern to a step that leaves them, the
\* answers and the records alone.
LEMMA MatchUntouched ==
  ASSUME MatchInv, UNCHANGED <<posts, answers, records>>, unrecorded \subseteq unrecorded'
  PROVE  OwnedInv' /\ AnswerMatchesRecord'
<1>1. Tables!Stored' = Tables!Stored /\ Answered' = Answered
  BY DEF Tables!Stored, Answered
<1>2. \A n : Namesakes(n)' = Namesakes(n)
  BY DEF Namesakes
<1> QED
  BY <1>1, <1>2 DEF MatchInv, OwnedInv, AnswerMatchesRecord

\* The five ways in which the handler's steps treat the reply.
LEMMA RepliesOfServe ==
  ASSUME IInv, TypesInv, Serve
  PROVE  \/ Record \/ RecordFails \/ ResponseFails \/ Respond
         \/ /\ UNCHANGED <<posts, answers, records, unrecorded>>
            /\ \/ pc' \notin {"record", "respond"}
               \/ /\ current' = current
                  /\ pc' \in {"record", "respond"}
                  /\ pc' = "record" =>
                       ((reply'.outcome = "success") <=> (reply'.kind = "query_result"))
                  /\ pc' = "respond" => Asked.endpoint # "query"
               \/ Unhandled /\ current' = current /\ pc \notin {"idle", "respond"}
<1> DEFINE Same == UNCHANGED <<posts, answers, records, unrecorded>>
           Unsaid == pc' \notin {"record", "respond"}
           Said == /\ current' = current
                   /\ pc' \in {"record", "respond"}
                   /\ pc' = "record" =>
                        ((reply'.outcome = "success") <=> (reply'.kind = "query_result"))
                   /\ pc' = "respond" => Asked.endpoint # "query"
<1>1. ASSUME NEW kind, NEW code, NEW outcome, NEW sql,
             (outcome = "success") <=> (kind = "query_result"),
             Conclude(kind, code, outcome, sql), current' = current
      PROVE  Said
  BY <1>1 DEF Conclude
<1>2. ASSUME NEW n \in PostNumbers, Start(n)
      PROVE  Same /\ Unsaid
  BY <1>2 DEF Start, clientVars, tableVars, historyVars
<1>3. CASE ValidateQuestion
  <2>1. Same /\ current' = current
    BY <1>3 DEF ValidateQuestion, clientVars, tableVars, historyVars
  <2>2. Unsaid \/ Conclude("error", "invalid_question", "blocked", None)
    BY <1>3 DEF ValidateQuestion, Fail
  <2>3. Unsaid \/ Said
    BY <2>1, <2>2, <1>1
  <2> QED
    BY <2>1, <2>3
<1>4. CASE GetSchema
  BY <1>4 DEF GetSchema, clientVars, tableVars, historyVars
<1>5. CASE SchemaFails \/ CheckRaises
  BY <1>5 DEF SchemaFails, CheckRaises, clientVars, tableVars, historyVars
<1>6. CASE ClarifyBeforeProvider
  <2>1. Same /\ current' = current
    BY <1>6 DEF ClarifyBeforeProvider, clientVars, tableVars, historyVars
  <2>2. Said
    BY <1>1, <1>6, <2>1 DEF ClarifyBeforeProvider, Clarify
  <2> QED
    BY <2>1, <2>2
<1>7. CASE ProviderRetried \/ AlternateWritten
  BY <1>7 DEF ProviderRetried, AlternateWritten, WithoutAgreement, CallProvider, clientVars,
              tableVars, TypesInv, TypeOK
<1>8. CASE ProviderFails \/ ProviderAsks \/ DraftRejected \/ DraftApproved
  <2>1. Same /\ current' = current
    BY <1>8 DEF ProviderFails, ProviderAsks, DraftRejected, DraftApproved, CallProvider,
                clientVars, tableVars
  <2>2. CASE ProviderFails
    <3>1. \/ Unsaid
          \/ \E failure \in ProviderFailures : Conclude("error", failure, "failed", None)
      BY <2>2 DEF ProviderFails, Fail, WithoutAgreement
    <3> QED
      BY <1>1, <2>1, <3>1
  <2>3. CASE ProviderAsks
    <3>1. \/ Unsaid
          \/ Conclude("clarification_required", "clarification_required",
                      "clarification_required", None)
      BY <2>3 DEF ProviderAsks, Clarify, WithoutAgreement
    <3> QED
      BY <1>1, <2>1, <3>1
  <2>4. CASE DraftRejected
    BY <1>1, <2>1, <2>4 DEF DraftRejected, Fail
  <2>5. CASE DraftApproved
    <3>1. Unsaid \/ (Asked.endpoint # "query" /\ Conclude("sql_draft", "drafted", None, Own))
      BY <2>5 DEF DraftApproved
    <3>2. Unsaid \/ Said
      BY <2>1, <3>1 DEF Conclude
    <3> QED
      BY <2>1, <3>2
  <2> QED
    BY <1>8, <2>1, <2>2, <2>3, <2>4, <2>5
<1>9. CASE DraftRaises
  BY <1>9 DEF DraftRaises, CallProvider, clientVars, tableVars
<1>10. CASE HandOver \/ ExecutorStep \/ GatherSignals \/ AlternateAnswered
  BY <1>10 DEF HandOver, ExecutorStep, GatherSignals, AlternateAnswered, WithoutAgreement,
              clientVars, tableVars, historyVars
<1>11. CASE PrimaryAnswered
  <2>1. Same /\ current' = current
    BY <1>11 DEF PrimaryAnswered, clientVars, tableVars
  <2>2. \/ Unsaid
        \/ \E outcome \in {"blocked", "failed"} : Conclude("error", answer, outcome, None)
    BY <1>11 DEF PrimaryAnswered, Fail
  <2>3. Unsaid \/ Said
    BY <1>1, <2>1, <2>2
  <2> QED
    BY <2>1, <2>3
<1>12. CASE Score
  <2>1. Same /\ current' = current
    BY <1>12 DEF Score, clientVars, tableVars, historyVars
  <2>2. Said
    BY <1>1, <1>12, <2>1 DEF Score
  <2> QED
    BY <2>1, <2>2
<1> QED
  BY <1>2, <1>3, <1>4, <1>5, <1>6, <1>7, <1>8, <1>9, <1>10, <1>11, <1>12 DEF Serve

LEMMA PostKeepsMatch ==
  ASSUME IInv, TypesInv, MatchInv, NEW id \in RequestIds, NEW endpoint \in Endpoints,
         NEW question \in Questions, Post(id, endpoint, question)
  PROVE  MatchInv'
<1>1. /\ posts' = Append(posts, [id |-> id, endpoint |-> endpoint, question |-> question])
      /\ UNCHANGED <<answers, current, pc, reply, records, unrecorded>>
  BY DEF Post, tableVars, historyVars
<1>2. \A m \in DOMAIN posts : m \in DOMAIN posts' /\ posts'[m] = posts[m]
  <2> DEFINE new == [id |-> id, endpoint |-> endpoint, question |-> question]
  <2>1. posts \in Seq(Posts) /\ new \in Posts
    BY DEF IInv, PostsInv, Posts
  <2> HIDE DEF new
  <2> QED
    BY <1>1, <2>1
<1>3. \A n \in DOMAIN posts : Namesakes(n)' = {n} => Namesakes(n) = {n}
  BY <1>2 DEF Namesakes
<1>4. Tables!Stored' = Tables!Stored /\ Answered' = Answered /\ Answered \subseteq DOMAIN posts
  BY <1>1 DEF Tables!Stored, Answered, TypesInv, TypeOK
<1>5. OwnedInv'
  BY <1>1, <1>2, <1>4 DEF MatchInv, OwnedInv
<1>6. \A n \in DOMAIN posts : \A told : Agrees(n, told)' = Agrees(n, told)
  BY <1>1, <1>2 DEF Agrees
<1>7. AnswerMatchesRecord'
  BY <1>1, <1>2, <1>3, <1>4 DEF MatchInv, AnswerMatchesRecord
<1>8. pc = "respond" => current \in DOMAIN posts /\ Asked' = Asked
  BY <1>1, <1>2 DEF IInv, HandlerInv, ServedInv, Asked
<1>9. OutcomeInv' /\ ToldInv'
  BY <1>1, <1>2, <1>3, <1>8 DEF MatchInv, OutcomeInv, ToldInv, Agrees
<1> QED
  BY <1>5, <1>7, <1>9 DEF MatchInv

LEMMA RecordKeepsMatch ==
  ASSUME IInv, TypesInv, MatchInv, Record
  PROVE  MatchInv'
<1> DEFINE content == [post |-> current, outcome |-> reply.outcome, reason |-> reply.code,
                       sql |-> reply.sql]
           id == Asked.id
<1>1. /\ pc = "record" /\ pc' = "respond"
      /\ \E serial : records' = [records EXCEPT ![id] = [serial |-> serial, content |-> content]]
      /\ UNCHANGED <<posts, answers, current, reply, unrecorded>>
  BY DEF Record, Tables!CreateOrUpdateRecord, clientVars, historyVars
<1>2. /\ current \in DOMAIN posts /\ id \in RequestIds /\ answers[current] = None
      /\ posts[current].id = id
  BY <1>1, PostsAreNumbered DEF IInv, HandlerInv, ServedInv, Asked, Posts
<1>3. /\ records'[id].content = content
      /\ \A other \in RequestIds \ {id} : records'[other] = records[other]
  BY <1>1, <1>2 DEF IInv, PostsInv
<1>4. records'[id] # None
  BY RecordTypes
<1>5. OwnedInv'
  BY <1>1, <1>2, <1>3 DEF MatchInv, OwnedInv, Tables!Stored
<1>6. Answered' = Answered /\ (\A n : Namesakes(n)' = Namesakes(n))
  BY <1>1 DEF Answered, Namesakes
<1>7. AnswerMatchesRecord'
  <2> SUFFICES ASSUME NEW n \in Answered, posts[n].endpoint = "query", Namesakes(n) = {n}
               PROVE  Agrees(n, answers[n])'
    BY <1>1, <1>6 DEF AnswerMatchesRecord, Agrees
  <2>1. Agrees(n, answers[n])
    BY DEF MatchInv, AnswerMatchesRecord, Agrees
  <2>2. n # current /\ n \in DOMAIN posts
    BY <1>2 DEF Answered, TypesInv, TypeOK
  <2>3. posts[n].id # id
    BY <1>2, <2>2 DEF Namesakes
  <2>4. posts[n].id \in RequestIds
    BY <2>2, PostsAreNumbered DEF Posts
  <2> QED
    BY <1>1, <1>3, <2>1, <2>3, <2>4 DEF Agrees
<1>8. OutcomeInv'
  BY <1>1 DEF OutcomeInv
<1>9. ToldInv'
  <2>1. (reply.outcome = "success") <=> (reply.kind = "query_result")
    BY <1>1 DEF MatchInv, OutcomeInv
  <2>2. Agrees(current, reply)'
    BY <1>1, <1>2, <1>3, <1>4, <2>1 DEF Agrees
  <2> QED
    BY <2>2 DEF ToldInv
<1> QED
  BY <1>5, <1>7, <1>8, <1>9 DEF MatchInv

\* The rows cannot be rendered: whatever is recorded of them is a success.
LEMMA ResponseFailsKeepsMatch ==
  ASSUME IInv, TypesInv, MatchInv, ResponseFails
  PROVE  MatchInv'
<1>1. /\ pc = "respond" /\ reply.kind = "query_result"
      /\ pc' = "respond" /\ reply'.code = "internal_server_error"
      /\ UNCHANGED <<posts, answers, records, unrecorded, current>>
  BY DEF ResponseFails, Unhandled, clientVars, tableVars, historyVars
<1>2. OwnedInv' /\ AnswerMatchesRecord'
  BY <1>1, MatchUntouched
<1>3. ToldInv'
  BY <1>1 DEF MatchInv, ToldInv, Asked, Namesakes, Agrees
<1> QED
  BY <1>1, <1>2, <1>3 DEF MatchInv, OutcomeInv

LEMMA RespondKeepsMatch ==
  ASSUME IInv, TypesInv, MatchInv, Respond
  PROVE  MatchInv'
<1>1. /\ pc = "respond" /\ pc' = "idle"
      /\ answers' = IF current \in waiting THEN [answers EXCEPT ![current] = Shown]
                                           ELSE answers
      /\ UNCHANGED <<posts, records, unrecorded>>
  BY DEF Respond, Idle, tableVars, historyVars
<1>2. OwnedInv'
  BY <1>1 DEF MatchInv, OwnedInv, Tables!Stored
<1>3. \A n : Namesakes(n)' = Namesakes(n)
  BY <1>1 DEF Namesakes
<1>4. AnswerMatchesRecord'
  <2> SUFFICES ASSUME NEW n \in PostNumbers, answers'[n] # None,
                      posts[n].endpoint = "query", Namesakes(n) = {n}
               PROVE  Agrees(n, answers'[n])
    BY <1>1, <1>3 DEF AnswerMatchesRecord, Answered, Agrees
  <2>1. CASE answers'[n] = answers[n]
    BY <2>1 DEF MatchInv, AnswerMatchesRecord, Answered, Agrees
  <2>2. CASE n = current /\ answers'[n] = Shown
    <3>1. Agrees(n, reply)
      BY <1>1, <2>2 DEF MatchInv, ToldInv, Asked
    <3> QED
      BY <2>2, <3>1 DEF Agrees, Shown
  <2>3. answers'[n] = answers[n] \/ (n = current /\ answers'[n] = Shown)
    BY <1>1 DEF IInv, PostsInv
  <2> QED
    BY <2>1, <2>2, <2>3
<1> QED
  BY <1>1, <1>2, <1>4 DEF MatchInv, OutcomeInv, ToldInv

LEMMA NextKeepsMatch ==
  ASSUME IInv, TypesInv, MatchInv, [Next]_vars
  PROVE  MatchInv'
<1>1. ASSUME NEW id \in RequestIds, NEW endpoint \in Endpoints, NEW question \in Questions,
             Post(id, endpoint, question)
      PROVE  MatchInv'
  BY <1>1, PostKeepsMatch
\* Clients, the proxy and a step of nobody leave the reply alone.
<1>2. ASSUME UNCHANGED <<posts, answers, records, unrecorded, pc, current, reply>>
      PROVE  MatchInv'
  <2>1. OwnedInv' /\ AnswerMatchesRecord'
    BY <1>2, MatchUntouched
  <2>2. OutcomeInv' /\ ToldInv'
    BY <1>2 DEF MatchInv, OutcomeInv, ToldInv, Asked, Namesakes, Agrees
  <2> QED
    BY <2>1, <2>2 DEF MatchInv
<1>3. ASSUME NEW n \in PostNumbers, GiveUp(n) \/ GiveFeedback(n)
      PROVE  MatchInv'
  BY <1>2, <1>3 DEF GiveUp, GiveFeedback, Tables!AddFeedback, clientVars, tableVars, historyVars
<1>4. CASE Crash
  <2>1. /\ UNCHANGED <<posts, answers, records, unrecorded>> /\ pc' = "idle"
    BY <1>4 DEF Crash, Idle, tableVars, historyVars
  <2> QED
    BY <2>1, MatchUntouched DEF MatchInv, OutcomeInv, ToldInv
<1>5. CASE Record \/ ResponseFails \/ Respond
  BY <1>5, RecordKeepsMatch, ResponseFailsKeepsMatch, RespondKeepsMatch
<1>6. CASE RecordFails
  <2>1. /\ pc = "record" /\ pc' = "respond" /\ unrecorded' = unrecorded \cup {current}
        /\ UNCHANGED <<posts, answers, records, current, reply>>
    BY <1>6 DEF RecordFails, clientVars, tableVars
  <2>2. OwnedInv' /\ AnswerMatchesRecord'
    BY <2>1, MatchUntouched
  <2>3. ToldInv'
    BY <2>1, NothingRecorded DEF ToldInv, Asked, Namesakes, Agrees
  <2> QED
    BY <2>1, <2>2, <2>3 DEF MatchInv, OutcomeInv
<1>7. CASE Serve /\ ~Record /\ ~RecordFails /\ ~ResponseFails /\ ~Respond
  <2>1. UNCHANGED <<posts, answers, records, unrecorded>>
    BY <1>7, RepliesOfServe
  <2>2. OwnedInv' /\ AnswerMatchesRecord'
    BY <2>1, MatchUntouched
  <2>3. CASE pc' \notin {"record", "respond"}
    BY <2>2, <2>3 DEF MatchInv, OutcomeInv, ToldInv
  <2>4. CASE Unhandled /\ current' = current /\ pc \notin {"idle", "respond"}
    <3>1. pc' = "respond" /\ reply'.code = "internal_server_error"
      BY <2>4 DEF Unhandled
    <3>2. ToldInv'
      BY <2>1, <2>4, <3>1, NothingRecorded DEF ToldInv, Asked, Namesakes, Agrees
    <3> QED
      BY <2>2, <3>1, <3>2 DEF MatchInv, OutcomeInv
  <2>5. CASE /\ current' = current
             /\ pc' \in {"record", "respond"}
             /\ pc' = "record" =>
                  ((reply'.outcome = "success") <=> (reply'.kind = "query_result"))
             /\ pc' = "respond" => Asked.endpoint # "query"
    <3>1. Asked' = Asked
      BY <2>1, <2>5 DEF Asked
    <3> QED
      BY <2>2, <2>5, <3>1 DEF MatchInv, OutcomeInv, ToldInv
  <2> QED
    BY <1>7, <2>3, <2>4, <2>5, RepliesOfServe
<1>8. CASE UNCHANGED vars
  BY <1>2, <1>8 DEF vars, clientVars, tableVars, historyVars
<1> QED
  BY <1>1, <1>3, <1>4, <1>5, <1>6, <1>7, <1>8 DEF Next

\* run_query and record_history_safely: a post that shares its request id with
\* no other was told what its record says, or there is a reason for which it
\* has none, or it was told of an internal error beside a record of success, for
\* every order of posts, crashes and failures.
THEOREM AnswerMatchesRecordHolds == Spec => []AnswerMatchesRecord
<1>1. Init => IInv /\ TypesInv
  BY Initially, InitialTypes
<1>2. Init => MatchInv
  BY DEF Init, Tables!Init, Tables!Stored, Answered, MatchInv, OwnedInv, OutcomeInv, ToldInv,
         AnswerMatchesRecord
<1>3. (IInv /\ TypesInv /\ MatchInv) /\ [Next]_vars => (IInv /\ TypesInv /\ MatchInv)'
  BY NextKeepsIInv, NextKeepsTypes, NextKeepsMatch
<1>4. MatchInv => AnswerMatchesRecord
  BY DEF MatchInv
<1> QED
  BY <1>1, <1>2, <1>3, <1>4, PTL DEF Spec
=============================================================================
