----------------------------- MODULE HistoryPanel -----------------------------
(***************************************************************************)
(* The list of recent queries in the web client                            *)
(* (frontend/src/features/query/HistoryPanel.tsx) and the pages it loads   *)
(* from GET /v1/history (backend/app/api/history.py, services and          *)
(* repositories/query_history.py) while queries are being recorded.        *)
(*                                                                         *)
(* A page is read by one handler that nothing interleaves with, at some    *)
(* moment between the request and the answer; answers arrive in any order. *)
(* A record is named by its serial number, the newest comes first.         *)
(***************************************************************************)
EXTENDS Naturals, Sequences, FiniteSets

CONSTANTS
  PageSize,    \* HISTORY_PAGE_SIZE, below the limit of the service
  MaxRecords,  \* bound: how many queries are ever recorded
  MaxLoads,    \* bound: how many pages are requested
  None

ASSUME PanelAssumption ==
  /\ PageSize \in Nat \ {0}
  /\ MaxRecords \in Nat
  /\ MaxLoads \in Nat \ {0}
  /\ None \notin Nat

Least(a, b) == IF a <= b THEN a ELSE b

\* The newest n records when there are `total`.
Newest(total, n) == [p \in 1 .. n |-> total - p + 1]

\* list_records: ORDER BY created_at DESC, id DESC LIMIT PageSize OFFSET offset.
Page(total, offset) ==
  IF offset >= total THEN <<>>
  ELSE [p \in 1 .. Least(PageSize, total - offset) |-> total - offset - p + 1]

VARIABLES
  stored,  \* how many queries are recorded
  status,  \* "loading", "ready", "loading_more" or "failed"
  shown,   \* state.records
  total,   \* state.total
  loads,   \* requests in flight, [number, offset, read, after]: how many records
           \* there were when the page was read, None before that, and (history)
           \* how many the list held when it was asked for
  number,  \* how many pages were requested
  basis    \* history: the number of records the whole list was read from, or
           \* None when its pages do not fit together

panelVars == <<status, shown, total, basis>>
vars == <<stored, panelVars, loads, number>>

Load(n, offset) ==
  [number |-> n, offset |-> offset, read |-> None, after |-> Len(shown)]

\* The component is mounted and loads its first page.
Init ==
  /\ stored \in 0 .. MaxRecords
  /\ status = "loading" /\ shown = <<>> /\ total = 0 /\ basis = None
  /\ number = 1
  /\ loads = {Load(1, 0)}

HasMore == Len(shown) < total

\* loadHistory up to its await.
LoadHistory(offset) ==
  /\ number < MaxLoads
  /\ number' = number + 1
  /\ loads' = loads \cup {Load(number + 1, offset)}
  /\ status' = IF offset = 0 THEN "loading" ELSE "loading_more"
  /\ UNCHANGED <<stored, shown, total, basis>>

\* The Refresh button, disabled while the list is loading.
Refresh ==
  /\ status \notin {"loading", "loading_more"}
  /\ LoadHistory(0)

\* Mutant of LoadMore: the offset is that of the last page.
LoadMore_LastPage ==
  /\ HasMore
  /\ status # "loading_more"
  /\ LoadHistory(Len(shown) - 1)

\* The Load more button, disabled only while more is loading.
LoadMore ==
  /\ HasMore
  /\ status # "loading_more"
  /\ LoadHistory(Len(shown))

\* The handler reads the total and the page.
ReadPage(l) ==
  /\ l \in loads /\ l.read = None
  /\ loads' = (loads \ {l}) \cup {[l EXCEPT !.read = stored]}
  /\ UNCHANGED <<stored, panelVars, number>>

\* The answer arrives: a first page replaces the list, any other is appended to
\* whatever the list is by then.
ReceivePage(l) ==
  /\ l \in loads /\ l.read # None
  /\ loads' = loads \ {l}
  /\ status' = "ready"
  /\ total' = l.read
  /\ IF l.offset = 0
     THEN /\ shown' = Page(l.read, 0)
          /\ basis' = l.read
     ELSE /\ shown' = shown \o Page(l.read, l.offset)
          /\ basis' = IF basis = l.read /\ l.after = Len(shown) THEN basis ELSE None
  /\ UNCHANGED <<stored, number>>

\* Mutant of ReceiveError: the error is not caught.
ReceiveError_Uncaught(l) ==
  /\ l \in loads
  /\ loads' = loads \ {l}
  /\ UNCHANGED <<stored, panelVars, number>>

\* The request fails; the list stays.
ReceiveError(l) ==
  /\ l \in loads
  /\ loads' = loads \ {l}
  /\ status' = "failed"
  /\ UNCHANGED <<stored, shown, total, basis, number>>

\* A query is recorded, from this client or another.
RecordQuery ==
  /\ stored < MaxRecords
  /\ stored' = stored + 1
  /\ UNCHANGED <<panelVars, loads, number>>

Settle == \E l \in loads : ReadPage(l) \/ ReceivePage(l) \/ ReceiveError(l)

Next == Refresh \/ LoadMore \/ Settle \/ RecordQuery

Spec == Init /\ [][Next]_vars

\* Every fetch ends, by an answer of the backend or of the proxy.
FairSpec == Spec /\ WF_vars(Settle)

-----------------------------------------------------------------------------
(* Properties.                                                             *)

\* The variables have their types, and a list that is loading has a request in
\* flight.
TypeOK ==
  /\ stored \in 0 .. MaxRecords
  /\ status \in {"loading", "ready", "loading_more", "failed"}
  /\ shown \in Seq(1 .. stored)
  /\ total \in 0 .. stored
  /\ number \in 1 .. MaxLoads
  /\ loads \subseteq [number : 1 .. number, offset : 0 .. MaxLoads * PageSize,
                      read : 0 .. stored \cup {None}, after : 0 .. MaxLoads * PageSize]
  /\ \A l, m \in loads : l.number = m.number => l = m
  /\ basis \in 0 .. stored \cup {None}
  /\ status \in {"loading", "loading_more"} => loads # {}

\* Pages that were read while nothing was recorded, and arrived in the order in
\* which they were asked for, make up the newest records without gap or
\* repetition; and when no more is offered, nothing is missing.
PagesFitTogether ==
  basis # None =>
    /\ shown = Newest(basis, Len(shown))
    /\ total = basis
    /\ ~HasMore => Len(shown) = basis

\* The list never stays at "Loading", with its buttons disabled.
ListSettles == (status \in {"loading", "loading_more"}) ~> (status \in {"ready", "failed"})

\* HistoryPanel.tsx:91 gives each entry the key record.request_id, as if every
\* record were listed once.  A query recorded between two pages moves the last
\* record of one to the next; Load more is also offered while a refresh is under
\* way, and its page is appended wherever the list then ends.
EntriesAreDistinct ==
  \A i, j \in DOMAIN shown : shown[i] = shown[j] => i = j
=============================================================================
