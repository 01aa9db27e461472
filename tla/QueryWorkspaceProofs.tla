-------------------------- MODULE QueryWorkspaceProofs --------------------------
(***************************************************************************)
(* The workspace and its feedback panel, for every number of questions and *)
(* of retries: "not executed" is true, and feedback is stored once.        *)
(*                                                                         *)
(* Neither is inductive.  The first needs to know that nothing ran for a   *)
(* question still awaited; the second, which row each send in flight       *)
(* stands for, that there is one at most, and that after a success the     *)
(* panel stays locked.                                                     *)
(***************************************************************************)
EXTENDS QueryWorkspace, TLAPS

\* Only questions that were submitted ran, the one awaited not yet.
RanInv ==
  /\ awaited => submitted # 0
  /\ \A r \in ran : r <= submitted /\ (awaited => r # submitted)

\* There is one send at most, and the panel is locked meanwhile.
SendInv ==
  /\ \A s, t \in sends : s = t
  /\ sends # {} => panel = "submitting"

\* Until the panel reports success, a row is one that a failure was reported
\* for, or that of the send in flight.
RowsInv ==
  \A r \in Requests :
    IF panel = "success" \/ (\E s \in sends : s.to = r /\ s.stored)
    THEN rows[r] <= 1 + failures[r]
    ELSE rows[r] <= failures[r]

IInv == TypeOK /\ RanInv /\ SendInv /\ RowsInv /\ NotExecutedIsTrue

\* The codes that the client takes for a refusal are none of those with which the
\* executor, the catch-all handler or a connection that broke may have let the SQL
\* run.
LEMMA RefusedDidNotRun ==
  ASSUME NEW code, IsBlockedError(code), NEW happened \in MayHaveRun(code)
  PROVE  happened = FALSE
<1>1. code \notin Executor!FailureCodes \cup CatchAllCodes \cup TransportCodes
  BY DEF IsBlockedError, UnprocessableCodes, RefusingCodes, Executor!FailureCodes,
         CatchAllCodes, TransportCodes
<1> QED
  BY <1>1 DEF MayHaveRun

LEMMA Initially ==
  ASSUME Init
  PROVE  IInv
<1>1. TypeOK
  <2>1. (awaited <=> status = "loading") /\ (locked <=> IsLocked)
    BY Zenon DEF Init, IsLocked
  <2>2. /\ latest \in (1 .. submitted) \cup {None}
        /\ submitted \in 0 .. MaxRequests
        /\ rating \in Ratings \cup {None}
        /\ rows \in [Requests -> Nat] /\ failures \in [Requests -> Nat]
    BY WorkspaceAssumption DEF Init
  <2>3. awaited \in BOOLEAN /\ locked \in BOOLEAN
    BY Zenon DEF Init
  <2> QED
    BY <2>1, <2>2, <2>3 DEF Init, TypeOK
<1> QED
  BY <1>1 DEF Init, IInv, RanInv, SendInv, RowsInv, NotExecutedIsTrue, Requests

-----------------------------------------------------------------------------
(* Questions. They leave the sends and the rows alone.                     *)

LEMMA QuestionsLeaveThePanel ==
  ASSUME IInv, UNCHANGED <<panelVars, feedbackVars>>
  PROVE  SendInv' /\ RowsInv'
BY DEF IInv, SendInv, RowsInv, panelVars, feedbackVars

LEMMA SubmitQuestionKeepsIInv ==
  ASSUME IInv, SubmitQuestion
  PROVE  IInv'
<1>1. submitted' = submitted + 1 /\ awaited' = TRUE /\ status' = "loading"
  BY DEF SubmitQuestion
<1>2. /\ UNCHANGED <<latest, ran, rating, panel, locked, sends, rows, failures>>
      /\ submitted < MaxRequests /\ submitted \in Nat
  BY WorkspaceAssumption DEF SubmitQuestion, panelVars, feedbackVars, IInv, TypeOK
<1>3. TypeOK'
  BY <1>1, <1>2, WorkspaceAssumption DEF IInv, TypeOK, IsLocked
<1>4. RanInv' /\ NotExecutedIsTrue'
  BY <1>1, <1>2 DEF IInv, TypeOK, RanInv, NotExecutedIsTrue, Requests
<1> QED
  BY <1>3, <1>4, QuestionsLeaveThePanel DEF IInv, SubmitQuestion

LEMMA ReceiveKeepsIInv ==
  ASSUME IInv, Receive
  PROVE  IInv'
<1>1. /\ awaited /\ awaited' = FALSE
      /\ UNCHANGED <<submitted, rating, panel, locked, sends, rows, failures>>
      /\ UNCHANGED <<panelVars, feedbackVars>>
  BY DEF Receive, ReceiveResult, ReceiveClarification, ReceiveError, panelVars, feedbackVars
<1>2. /\ status' \in {"success", "blocked", "failed"}
      /\ latest' \in {latest, submitted}
      /\ ran' \in {ran, ran \cup {submitted}}
      /\ status' = "blocked" => ran' = ran
  <2>1. CASE ReceiveResult
    BY <2>1 DEF ReceiveResult
  <2>2. CASE ReceiveClarification
    BY <2>2 DEF ReceiveClarification
  <2>3. CASE ReceiveError
    <3>1. PICK code \in ErrorCodes :
            /\ status' = IF IsBlockedError(code) THEN "blocked" ELSE "failed"
            /\ \E happened \in MayHaveRun(code) :
                 ran' = IF happened THEN ran \cup {submitted} ELSE ran
      BY <2>3 DEF ReceiveError
    <3>2. PICK happened \in MayHaveRun(code) :
            ran' = IF happened THEN ran \cup {submitted} ELSE ran
      BY <3>1
    <3>3. IsBlockedError(code) => ran' = ran
      BY <3>2, RefusedDidNotRun
    <3> QED
      BY <2>3, <3>1, <3>2, <3>3 DEF ReceiveError
  <2> QED
    BY <2>1, <2>2, <2>3 DEF Receive
<1>3. submitted \in 1 .. MaxRequests
  <2>1. submitted \in 0 .. MaxRequests /\ submitted # 0
    BY <1>1 DEF IInv, TypeOK, RanInv
  <2> QED
    BY <2>1, WorkspaceAssumption
<1>4. TypeOK'
  <2>1. (awaited <=> status = "loading")' /\ (awaited \in BOOLEAN)'
    BY <1>1, <1>2, Zenon
  <2>2. (locked <=> IsLocked)' /\ (locked \in BOOLEAN)'
    BY <1>1, Zenon DEF IInv, TypeOK, IsLocked
  <2>3. latest' \in (1 .. submitted') \cup {None}
    BY <1>1, <1>2, <1>3 DEF IInv, TypeOK
  <2>4. /\ (status \in {"idle", "loading", "success", "blocked", "failed"})'
        /\ (submitted \in 0 .. MaxRequests)' /\ (ran \subseteq Requests)'
    BY <1>1, <1>2, <1>3 DEF IInv, TypeOK, Requests
  <2>5. /\ (rating \in Ratings \cup {None})'
        /\ (panel \in {"idle", "submitting", "success", "failed"})'
        /\ (sends \subseteq [to : Requests, stored : BOOLEAN])'
        /\ (rows \in [Requests -> Nat])' /\ (failures \in [Requests -> Nat])'
    BY <1>1, Zenon DEF IInv, TypeOK
  <2> QED
    BY <2>1, <2>2, <2>3, <2>4, <2>5 DEF TypeOK
<1>5. RanInv' /\ NotExecutedIsTrue'
  BY <1>1, <1>2, <1>3 DEF IInv, RanInv, NotExecutedIsTrue
<1> QED
  BY <1>1, <1>4, <1>5, QuestionsLeaveThePanel DEF IInv

-----------------------------------------------------------------------------
(* The panel. It leaves the questions alone.                               *)

LEMMA PanelLeavesTheQuestions ==
  ASSUME IInv, UNCHANGED queryVars
  PROVE  RanInv' /\ NotExecutedIsTrue'
BY DEF IInv, RanInv, NotExecutedIsTrue, queryVars

LEMMA SelectRatingKeepsIInv ==
  ASSUME IInv, NEW r \in Ratings, SelectRating(r)
  PROVE  IInv'
<1>1. /\ rating' = r
      /\ UNCHANGED <<status, latest, submitted, awaited, ran, panel, locked, sends, rows, failures>>
      /\ UNCHANGED queryVars
  BY DEF SelectRating, queryVars, feedbackVars
<1>2. TypeOK'
  BY <1>1 DEF IInv, TypeOK, IsLocked
<1>3. SendInv' /\ RowsInv'
  BY <1>1 DEF IInv, SendInv, RowsInv
<1> QED
  BY <1>1, <1>2, <1>3, PanelLeavesTheQuestions DEF IInv

\* Nothing is in flight when the panel is not locked.
LEMMA SubmitFeedbackKeepsIInv ==
  ASSUME IInv, SubmitFeedback
  PROVE  IInv'
<1>1. /\ latest # None /\ ~IsLocked
      /\ sends' = sends \cup {[to |-> latest, stored |-> FALSE]}
      /\ locked' = TRUE /\ panel' = "submitting"
      /\ UNCHANGED <<status, latest, submitted, awaited, ran, rating, rows, failures>>
      /\ UNCHANGED queryVars
  BY DEF SubmitFeedback, Send, queryVars
<1>2. sends = {} /\ panel # "success"
  BY <1>1 DEF IInv, SendInv, IsLocked
<1>3. latest \in Requests
  BY <1>1, WorkspaceAssumption DEF IInv, TypeOK, Requests
<1>4. TypeOK'
  <2>1. (locked <=> IsLocked)' /\ (locked \in BOOLEAN)'
    BY <1>1, Zenon DEF IsLocked
  <2>2. (sends \subseteq [to : Requests, stored : BOOLEAN])'
    BY <1>1, <1>2, <1>3
  <2> QED
    BY <1>1, <2>1, <2>2 DEF IInv, TypeOK
<1>5. SendInv' /\ RowsInv'
  BY <1>1, <1>2 DEF IInv, SendInv, RowsInv
<1> QED
  BY <1>1, <1>4, <1>5, PanelLeavesTheQuestions DEF IInv

LEMMA StoreFeedbackKeepsIInv ==
  ASSUME IInv, NEW s \in sends, StoreFeedback(s)
  PROVE  IInv'
<1>1. /\ ~s.stored
      /\ rows' = [rows EXCEPT ![s.to] = @ + 1]
      /\ sends' = (sends \ {s}) \cup {[s EXCEPT !.stored = TRUE]}
      /\ UNCHANGED <<status, latest, submitted, awaited, ran, rating, panel, locked, failures>>
      /\ UNCHANGED queryVars
  BY DEF StoreFeedback, queryVars, panelVars
<1>2. sends = {s} /\ panel = "submitting" /\ s.to \in Requests
  BY DEF IInv, SendInv, TypeOK
<1>3. sends' = {[to |-> s.to, stored |-> TRUE]}
  BY <1>1, <1>2 DEF IInv, TypeOK
<1>4. /\ rows' \in [Requests -> Nat] /\ rows'[s.to] = rows[s.to] + 1
      /\ \A r \in Requests \ {s.to} : rows'[r] = rows[r]
  BY <1>1, <1>2 DEF IInv, TypeOK
<1>5. TypeOK'
  BY <1>1, <1>2, <1>3, <1>4 DEF IInv, TypeOK, IsLocked
<1>6. SendInv'
  BY <1>1, <1>2, <1>3 DEF SendInv
<1>7. ASSUME NEW r \in Requests
      PROVE  IF r = s.to THEN rows'[r] <= 1 + failures[r] ELSE rows'[r] <= failures[r]
  <2>1. rows[r] <= failures[r]
    BY <1>1, <1>2 DEF IInv, RowsInv
  <2>2. rows[r] \in Nat /\ failures[r] \in Nat
    BY DEF IInv, TypeOK
  <2> QED
    BY <1>4, <2>1, <2>2
<1>8. RowsInv'
  BY <1>1, <1>2, <1>3, <1>7 DEF RowsInv
<1> QED
  BY <1>1, <1>5, <1>6, <1>8, PanelLeavesTheQuestions DEF IInv

LEMMA FeedbackSucceedsKeepsIInv ==
  ASSUME IInv, NEW s \in sends, FeedbackSucceeds(s)
  PROVE  IInv'
<1>1. /\ sends' = sends \ {s} /\ panel' = "success"
      /\ UNCHANGED <<status, latest, submitted, awaited, ran, rating, locked, rows, failures>>
      /\ UNCHANGED queryVars
  BY DEF FeedbackSucceeds, queryVars
<1>2. sends = {s} /\ panel = "submitting"
  BY DEF IInv, SendInv
<1>3. TypeOK'
  BY <1>1, <1>2 DEF IInv, TypeOK, IsLocked
<1>4. SendInv'
  BY <1>1, <1>2 DEF SendInv
<1>5. ASSUME NEW r \in Requests
      PROVE  rows[r] <= 1 + failures[r]
  <2>1. rows[r] \in Nat /\ failures[r] \in Nat
    BY DEF IInv, TypeOK
  <2>2. rows[r] <= 1 + failures[r] \/ rows[r] <= failures[r]
    BY DEF IInv, RowsInv
  <2> QED
    BY <2>1, <2>2
<1>6. RowsInv'
  BY <1>1, <1>5 DEF RowsInv
<1> QED
  BY <1>1, <1>3, <1>4, <1>6, PanelLeavesTheQuestions DEF IInv

\* A failure unlocks the panel and makes up for the row there may be.
LEMMA FeedbackFailsKeepsIInv ==
  ASSUME IInv, NEW s \in sends, FeedbackFails(s)
  PROVE  IInv'
<1>1. /\ sends' = sends \ {s} /\ panel' = "failed" /\ locked' = FALSE
      /\ failures' = [failures EXCEPT ![s.to] = @ + 1]
      /\ UNCHANGED <<status, latest, submitted, awaited, ran, rating, rows>>
      /\ UNCHANGED queryVars
  BY DEF FeedbackFails, queryVars
<1>2. sends = {s} /\ panel = "submitting" /\ s.to \in Requests
  BY DEF IInv, SendInv, TypeOK
<1>3. /\ failures' \in [Requests -> Nat] /\ failures'[s.to] = failures[s.to] + 1
      /\ \A r \in Requests \ {s.to} : failures'[r] = failures[r]
  BY <1>1, <1>2 DEF IInv, TypeOK
<1>4. TypeOK'
  BY <1>1, <1>3 DEF IInv, TypeOK, IsLocked
<1>5. SendInv'
  BY <1>1, <1>2 DEF SendInv
<1>6. ASSUME NEW r \in Requests
      PROVE  rows[r] <= failures'[r]
  <2>1. rows[r] \in Nat /\ failures[r] \in Nat
    BY DEF IInv, TypeOK
  <2>2. IF r = s.to THEN rows[r] <= 1 + failures[r] ELSE rows[r] <= failures[r]
    BY <1>2, <2>1 DEF IInv, RowsInv
  <2> QED
    BY <1>3, <2>1, <2>2
<1>7. RowsInv'
  BY <1>1, <1>2, <1>6 DEF RowsInv
<1> QED
  BY <1>1, <1>4, <1>5, <1>7, PanelLeavesTheQuestions DEF IInv

LEMMA Stuttering ==
  ASSUME IInv, UNCHANGED vars
  PROVE  IInv'
<1>1. /\ UNCHANGED <<status, latest, submitted, awaited, rating, panel, locked, sends, rows,
                     ran, failures>>
      /\ UNCHANGED queryVars
  BY DEF vars, queryVars, panelVars, feedbackVars
<1>2. TypeOK'
  BY <1>1 DEF IInv, TypeOK, IsLocked
<1>3. SendInv' /\ RowsInv'
  BY <1>1 DEF IInv, SendInv, RowsInv
<1> QED
  BY <1>1, <1>2, <1>3, PanelLeavesTheQuestions DEF IInv

-----------------------------------------------------------------------------
(* The theorems.                                                           *)

\* What is known of the question awaited, the send in flight and the rows.
THEOREM WorkspaceInvariant == Spec => []IInv
<1>1. Init => IInv
  BY Initially
<1>2. IInv /\ [Next]_vars => IInv'
  BY SubmitQuestionKeepsIInv, ReceiveKeepsIInv, SelectRatingKeepsIInv,
     SubmitFeedbackKeepsIInv, StoreFeedbackKeepsIInv, FeedbackSucceedsKeepsIInv,
     FeedbackFailsKeepsIInv, Stuttering DEF Next, Settle
<1> QED
  BY <1>1, <1>2, PTL DEF Spec

\* The variables have their types and the lock follows the panel's status.
THEOREM WorkspaceTypes == Spec => []TypeOK
BY WorkspaceInvariant, PTL DEF IInv

\* What the client calls not executed was not, for every code of every answer.
THEOREM NotExecutedIsTold == Spec => []NotExecutedIsTrue
BY WorkspaceInvariant, PTL DEF IInv

\* A request has one row of feedback beside those whose failure was reported, for
\* every number of questions and retries.
THEOREM FeedbackIsStoredOnce == Spec => []FeedbackSentOnce
<1>1. IInv => FeedbackSentOnce
  <2> SUFFICES ASSUME IInv, NEW r \in Requests
               PROVE  rows[r] <= 1 + failures[r]
    BY DEF FeedbackSentOnce
  <2>1. rows[r] \in Nat /\ failures[r] \in Nat
    BY DEF IInv, TypeOK
  <2>2. rows[r] <= 1 + failures[r] \/ rows[r] <= failures[r]
    BY DEF IInv, RowsInv
  <2> QED
    BY <2>1, <2>2
<1> QED
  BY <1>1, WorkspaceInvariant, PTL
=============================================================================
