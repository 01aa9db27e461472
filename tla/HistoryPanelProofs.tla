-------------------------- MODULE HistoryPanelProofs --------------------------
(***************************************************************************)
(* Pages that belong together make up the newest records, for every page   *)
(* size, number of records and order in which requests are asked for, read *)
(* and answered.  The inductive invariant says that a request for more     *)
(* starts where the list ended when it was asked for, so that a page that  *)
(* meets the same list again continues it.  The sizes in the type          *)
(* invariant rest on a budget: the list and the pages still on their way   *)
(* never hold more than a page for each request.                           *)
(***************************************************************************)
EXTENDS HistoryPanel, FiniteSetTheorems, SequenceTheorems, TLAPS

Loads == [number : Nat, offset : Nat, read : Nat \cup {None}, after : Nat]

ListTypes ==
  /\ stored \in Nat /\ total \in Nat /\ number \in Nat
  /\ shown \in Seq(Nat)
  /\ basis \in Nat \cup {None}
  /\ loads \subseteq Loads

\* A request asks for the first page or for what follows the list.
OffsetsInv == \A l \in loads : l.offset \in {0, l.after}

\* The list is no longer than what it was read from.
ListInv ==
  basis # None =>
    /\ shown = Newest(basis, Len(shown)) /\ Len(shown) <= basis
    /\ total = basis

IInv == ListTypes /\ OffsetsInv /\ ListInv

LEMMA SequenceIsFunction ==
  ASSUME NEW S, NEW list \in Seq(S)
  PROVE  list = [p \in 1 .. Len(list) |-> list[p]]
OBVIOUS

\* How many records a page has, and which.
LEMMA PageIsSequence ==
  ASSUME NEW of \in Nat, NEW offset \in Nat
  PROVE  \E n \in Nat : /\ n <= of /\ n <= PageSize /\ (offset <= of => offset + n <= of)
                        /\ Page(of, offset) = [p \in 1 .. n |-> of - offset - p + 1]
                        /\ Page(of, offset) \in Seq(1 .. of)
<1>1. CASE offset >= of
  <2>1. Page(of, offset) = << >> /\ << >> = [p \in 1 .. 0 |-> of - offset - p + 1]
    BY <1>1 DEF Page
  <2>2. 0 \in Nat /\ 0 <= of /\ 0 <= PageSize /\ << >> \in Seq(1 .. of)
    BY PanelAssumption
  <2> QED
    BY <1>1, <2>1, <2>2
<1>2. CASE ~(offset >= of)
  <2> DEFINE n == Least(PageSize, of - offset)
  <2>1. n \in Nat /\ offset + n <= of /\ n <= PageSize
    BY <1>2, PanelAssumption DEF Least
  <2>2. Page(of, offset) = [p \in 1 .. n |-> of - offset - p + 1]
    BY <1>2 DEF Page
  <2> HIDE DEF n
  <2>3. \A p \in 1 .. n : of - offset - p + 1 \in 1 .. of
    BY <2>1
  <2> QED
    BY <1>2, <2>1, <2>2, <2>3
<1> QED
  BY <1>1, <1>2

LEMMA PageTypes ==
  ASSUME NEW of \in Nat, NEW offset \in Nat
  PROVE  /\ Page(of, offset) \in Seq(1 .. of) /\ Page(of, offset) \in Seq(Nat)
         /\ Len(Page(of, offset)) \in Nat /\ Len(Page(of, offset)) <= PageSize
<1>1. PICK n \in Nat : /\ n <= of /\ n <= PageSize /\ (offset <= of => offset + n <= of)
                       /\ Page(of, offset) = [p \in 1 .. n |-> of - offset - p + 1]
                       /\ Page(of, offset) \in Seq(1 .. of)
  BY PageIsSequence
<1>2. Len(Page(of, offset)) = n
  BY <1>1
<1>3. Page(of, offset) \in Seq(Nat)
  <2>1. 1 .. of \subseteq Nat
    OBVIOUS
  <2> QED
    BY <1>1, <2>1, SeqMonotonic
<1> QED
  BY <1>1, <1>2, <1>3

\* A page continues the list that ends where it starts.
LEMMA PageContinues ==
  ASSUME NEW of \in Nat, NEW offset \in Nat, offset <= of,
         NEW list, list = Newest(of, offset) \o Page(of, offset)
  PROVE  list \in Seq(Nat) /\ list = Newest(of, Len(list)) /\ Len(list) <= of
<1>1. PICK n \in Nat : /\ offset + n <= of
                       /\ Page(of, offset) = [p \in 1 .. n |-> of - offset - p + 1]
                       /\ Page(of, offset) \in Seq(Nat)
  BY PageIsSequence, PageTypes
<1>2. Len(Page(of, offset)) = n
  BY <1>1
<1>3. /\ Newest(of, offset) = [p \in 1 .. offset |-> of - p + 1]
      /\ Newest(of, offset) \in Seq(Nat) /\ Len(Newest(of, offset)) = offset
  <2>1. \A p \in 1 .. offset : of - p + 1 \in Nat
    OBVIOUS
  <2> QED
    BY <2>1 DEF Newest
<1>4. list \in Seq(Nat) /\ Len(list) = offset + n
  BY <1>1, <1>2, <1>3
<1>5. \A p \in 1 .. offset + n : list[p] = of - p + 1
  BY <1>1, <1>2, <1>3
<1>6. list = [p \in 1 .. offset + n |-> list[p]]
  BY <1>4, SequenceIsFunction
<1>7. list = Newest(of, offset + n)
  BY <1>5, <1>6 DEF Newest
<1> QED
  BY <1>1, <1>4, <1>7

LEMMA Initially ==
  ASSUME Init
  PROVE  IInv
<1>1. stored \in Nat
  BY PanelAssumption DEF Init
<1>2. loads = {[number |-> 1, offset |-> 0, read |-> None, after |-> 0]}
  BY DEF Init, Load
<1> QED
  BY <1>1, <1>2 DEF Init, IInv, ListTypes, Loads, OffsetsInv, ListInv

\* Asking for a page adds a request and changes no list.
LEMMA LoadHistoryKeepsIInv ==
  ASSUME IInv, NEW offset \in {0, Len(shown)}, LoadHistory(offset)
  PROVE  IInv'
<1>1. Len(shown) \in Nat
  BY DEF IInv, ListTypes
<1>2. /\ loads' = loads \cup {[number |-> number + 1, offset |-> offset, read |-> None,
                               after |-> Len(shown)]}
      /\ number' = number + 1 /\ UNCHANGED <<stored, shown, total, basis>>
  BY DEF LoadHistory, Load
<1> QED
  BY <1>1, <1>2 DEF IInv, ListTypes, Loads, OffsetsInv, ListInv

LEMMA ReadPageKeepsIInv ==
  ASSUME IInv, NEW l \in loads, ReadPage(l)
  PROVE  IInv'
<1>1. /\ loads' = (loads \ {l}) \cup {[l EXCEPT !.read = stored]}
      /\ UNCHANGED <<stored, shown, total, basis, number>>
  BY DEF ReadPage, panelVars
<1>2. /\ [l EXCEPT !.read = stored] \in Loads
      /\ [l EXCEPT !.read = stored].offset = l.offset
      /\ [l EXCEPT !.read = stored].after = l.after
  BY DEF IInv, ListTypes, Loads
<1> QED
  BY <1>1, <1>2 DEF IInv, ListTypes, OffsetsInv, ListInv

LEMMA ReceivePageKeepsIInv ==
  ASSUME IInv, NEW l \in loads, ReceivePage(l)
  PROVE  IInv'
<1>1. /\ l.read # None /\ loads' = loads \ {l} /\ total' = l.read
      /\ UNCHANGED <<stored, number>>
  BY DEF ReceivePage
<1>2. l.read \in Nat /\ l.offset \in Nat /\ l.after \in Nat /\ l.offset \in {0, l.after}
  BY <1>1 DEF IInv, ListTypes, Loads, OffsetsInv
<1>3. CASE l.offset = 0
  <2>1. shown' = Page(l.read, 0) /\ basis' = l.read
    BY <1>3 DEF ReceivePage
  <2>2. Newest(l.read, 0) = << >>
    BY DEF Newest
  <2>3. Page(l.read, 0) \in Seq(Nat)
    BY <1>2, PageTypes
  <2>4. shown' = Newest(l.read, 0) \o Page(l.read, 0) /\ 0 \in Nat /\ 0 <= l.read
    BY <1>2, <2>1, <2>2, <2>3
  <2>5. shown' \in Seq(Nat) /\ shown' = Newest(l.read, Len(shown')) /\ Len(shown') <= l.read
    BY <1>2, <2>4, PageContinues
  <2> QED
    BY <1>1, <1>2, <2>1, <2>5 DEF IInv, ListTypes, OffsetsInv, ListInv
<1>4. CASE l.offset # 0
  <2>1. /\ shown' = shown \o Page(l.read, l.offset)
        /\ basis' = IF basis = l.read /\ l.after = Len(shown) THEN basis ELSE None
    BY <1>4 DEF ReceivePage
  <2>2. Page(l.read, l.offset) \in Seq(Nat)
    BY <1>2, PageTypes
  <2>3. shown' \in Seq(Nat) /\ basis' \in Nat \cup {None}
    BY <2>1, <2>2, <1>2 DEF IInv, ListTypes
  <2>4. ListInv'
    <3> SUFFICES ASSUME basis' # None
                 PROVE  /\ shown' = Newest(basis', Len(shown')) /\ Len(shown') <= basis'
                        /\ total' = basis'
      BY DEF ListInv
    <3>1. basis = l.read /\ basis' = l.read /\ l.offset = Len(shown)
      BY <1>2, <1>4, <2>1
    <3>2. shown = Newest(l.read, l.offset) /\ l.offset <= l.read
      BY <1>1, <3>1 DEF IInv, ListInv
    <3>3. shown' = Newest(l.read, l.offset) \o Page(l.read, l.offset)
      BY <2>1, <3>2
    <3> QED
      BY <1>1, <1>2, <3>1, <3>2, <3>3, PageContinues
  <2> QED
    BY <1>1, <1>2, <2>3, <2>4 DEF IInv, ListTypes, OffsetsInv
<1> QED
  BY <1>3, <1>4

LEMMA NextKeepsIInv ==
  ASSUME IInv, [Next]_vars
  PROVE  IInv'
<1>1. CASE Refresh \/ LoadMore
  BY <1>1, LoadHistoryKeepsIInv DEF Refresh, LoadMore
<1>2. ASSUME NEW l \in loads, ReadPage(l)
      PROVE  IInv'
  BY <1>2, ReadPageKeepsIInv
<1>3. ASSUME NEW l \in loads, ReceivePage(l)
      PROVE  IInv'
  BY <1>3, ReceivePageKeepsIInv
<1>4. ASSUME NEW l \in loads, ReceiveError(l)
      PROVE  IInv'
  BY <1>4 DEF ReceiveError, IInv, ListTypes, OffsetsInv, ListInv
<1>5. CASE RecordQuery
  BY <1>5 DEF RecordQuery, panelVars, IInv, ListTypes, OffsetsInv, ListInv
<1>6. CASE UNCHANGED vars
  BY <1>6 DEF vars, panelVars, IInv, ListTypes, OffsetsInv, ListInv
<1> QED
  BY <1>1, <1>2, <1>3, <1>4, <1>5, <1>6 DEF Next, Settle

\* Where every request starts, and what the list holds while its pages belong
\* together.
THEOREM ListInvariant == Spec => []IInv
<1>1. Init => IInv
  BY Initially
<1>2. IInv /\ [Next]_vars => IInv'
  BY NextKeepsIInv
<1> QED
  BY <1>1, <1>2, PTL DEF Spec

\* HistoryPanel.tsx and list_records: pages read while nothing was recorded, and
\* answered in order, are the newest records without gap or repetition.
THEOREM PagesFitTogetherHolds == Spec => []PagesFitTogether
<1>1. IInv => PagesFitTogether
  BY DEF IInv, ListTypes, ListInv, PagesFitTogether, HasMore
<1> QED
  BY <1>1, ListInvariant, PTL

-----------------------------------------------------------------------------
(* Types.                                                                  *)

\* Each request pays for one page, on its way or shown.
BudgetInv ==
  /\ IsFiniteSet(loads)
  /\ Len(shown) + Cardinality(loads) * PageSize <= number * PageSize

TypesInv == TypeOK /\ BudgetInv

LEMMA InitialTypes ==
  ASSUME Init
  PROVE  TypesInv
<1>1. loads = {[number |-> 1, offset |-> 0, read |-> None, after |-> 0]}
  BY DEF Init, Load
<1>2. IsFiniteSet(loads) /\ Cardinality(loads) = 1
  BY <1>1, FS_Singleton
<1>3. 0 <= MaxLoads * PageSize /\ 1 \in 1 .. MaxLoads
  BY PanelAssumption
<1>4. TypeOK
  BY <1>1, <1>3, PanelAssumption DEF Init, TypeOK
<1> QED
  BY <1>2, <1>4, PanelAssumption DEF Init, TypesInv, BudgetInv

LEMMA ListIsShort ==
  ASSUME TypesInv
  PROVE  /\ Len(shown) \in Nat /\ Len(shown) <= MaxLoads * PageSize
         /\ Cardinality(loads) \in Nat /\ number \in Nat /\ stored \in Nat /\ PageSize \in Nat
<1>1. /\ Len(shown) \in Nat /\ Cardinality(loads) \in Nat /\ number \in Nat /\ stored \in Nat
      /\ number <= MaxLoads /\ MaxLoads \in Nat /\ PageSize \in Nat
  BY FS_CardinalityType, PanelAssumption DEF TypesInv, TypeOK, BudgetInv
<1>2. number * PageSize <= MaxLoads * PageSize /\ Cardinality(loads) * PageSize >= 0
  BY <1>1
<1> QED
  BY <1>1, <1>2 DEF TypesInv, BudgetInv

\* The fields of a request that is read, and of those numbered so far.
LEMMA RowRead ==
  ASSUME NEW A, NEW B, NEW R, NEW l \in [number : A, offset : B, read : R, after : B],
         NEW r \in R
  PROVE  /\ [l EXCEPT !.read = r] \in [number : A, offset : B, read : R, after : B]
         /\ [l EXCEPT !.read = r].number = l.number
OBVIOUS

LEMMA RowsNumbered ==
  ASSUME NEW k \in Nat, NEW B, NEW R
  PROVE  [number : 1 .. k, offset : B, read : R, after : B]
           \subseteq [number : 1 .. k + 1, offset : B, read : R, after : B]
OBVIOUS

LEMMA LoadHistoryTypes ==
  ASSUME TypesInv, NEW offset \in {0, Len(shown)}, LoadHistory(offset)
  PROVE  TypesInv'
<1> DEFINE new == [number |-> number + 1, offset |-> offset, read |-> None,
                   after |-> Len(shown)]
<1>1. /\ loads' = loads \cup {new} /\ number < MaxLoads /\ number' = number + 1
      /\ status' \in {"loading", "loading_more"}
      /\ UNCHANGED <<stored, shown, total, basis>>
  BY DEF LoadHistory, Load
<1>2. \A l \in loads : l.number \in 1 .. number
  BY DEF TypesInv, TypeOK
<1>3. new \notin loads /\ (\A l \in loads : l.number # new.number)
  BY <1>2, ListIsShort
<1>4. IsFiniteSet(loads') /\ Cardinality(loads') = Cardinality(loads) + 1
  BY <1>1, <1>3, FS_AddElement DEF TypesInv, BudgetInv
<1>5. Len(shown) + (Cardinality(loads) + 1) * PageSize <= (number + 1) * PageSize
  <2>1. /\ (Cardinality(loads) + 1) * PageSize = Cardinality(loads) * PageSize + PageSize
        /\ (number + 1) * PageSize = number * PageSize + PageSize
    BY ListIsShort
  <2> QED
    BY <2>1, ListIsShort DEF TypesInv, BudgetInv
<1>6. BudgetInv'
  BY <1>1, <1>4, <1>5 DEF BudgetInv
<1>7. new \in [number : 1 .. number', offset : 0 .. MaxLoads * PageSize,
               read : 0 .. stored \cup {None}, after : 0 .. MaxLoads * PageSize]
  BY <1>1, ListIsShort, PanelAssumption
<1>8. \A l, m \in loads' : l.number = m.number => l = m
  BY <1>1, <1>3 DEF TypesInv, TypeOK
<1> HIDE DEF new
<1>9. TypeOK'
  <2>1. loads' \subseteq [number : 1 .. number', offset : 0 .. MaxLoads * PageSize,
                         read : 0 .. stored \cup {None}, after : 0 .. MaxLoads * PageSize]
    BY <1>1, <1>7, RowsNumbered, ListIsShort DEF TypesInv, TypeOK
  <2>2. number' \in 1 .. MaxLoads /\ loads' # {}
    BY <1>1, ListIsShort, PanelAssumption
  <2> QED
    BY <1>1, <1>8, <2>1, <2>2 DEF TypesInv, TypeOK
<1> QED
  BY <1>6, <1>9 DEF TypesInv

LEMMA ReadPageTypes ==
  ASSUME TypesInv, NEW l \in loads, ReadPage(l)
  PROVE  TypesInv'
<1> DEFINE new == [l EXCEPT !.read = stored]
<1>1. /\ loads' = (loads \ {l}) \cup {new}
      /\ UNCHANGED <<stored, status, shown, total, basis, number>>
  BY DEF ReadPage, panelVars
<1>2. /\ new \in [number : 1 .. number, offset : 0 .. MaxLoads * PageSize,
                  read : 0 .. stored \cup {None}, after : 0 .. MaxLoads * PageSize]
      /\ new.number = l.number
  <2>1. l \in [number : 1 .. number, offset : 0 .. MaxLoads * PageSize,
               read : 0 .. stored \cup {None}, after : 0 .. MaxLoads * PageSize]
    BY DEF TypesInv, TypeOK
  <2>2. stored \in 0 .. stored
    BY ListIsShort
  <2> QED
    BY <2>1, <2>2, RowRead
<1> HIDE DEF new
<1>3. \A m \in loads \ {l} : m.number # l.number
  BY DEF TypesInv, TypeOK
<1>4. IsFiniteSet(loads') /\ Cardinality(loads') = Cardinality(loads)
  <2>1. /\ IsFiniteSet(loads \ {l})
        /\ Cardinality(loads \ {l}) = Cardinality(loads) - 1
    BY FS_RemoveElement DEF TypesInv, BudgetInv
  <2>2. new \notin loads \ {l}
    BY <1>2, <1>3
  <2>3. Cardinality(loads') = Cardinality(loads \ {l}) + 1 /\ IsFiniteSet(loads')
    BY <1>1, <2>1, <2>2, FS_AddElement
  <2> QED
    BY <2>1, <2>3, ListIsShort
<1>5. \A k, m \in loads' : k.number = m.number => k = m
  BY <1>1, <1>2, <1>3 DEF TypesInv, TypeOK
<1>6. TypeOK'
  BY <1>1, <1>2, <1>5 DEF TypesInv, TypeOK
<1> QED
  BY <1>1, <1>4, <1>6 DEF TypesInv, BudgetInv

\* An answer takes one request off the budget.
LEMMA AnswerTypes ==
  ASSUME TypesInv, NEW l \in loads, loads' = loads \ {l}, number' = number, stored' = stored,
         status' \in {"ready", "failed"},
         shown' \in Seq(1 .. stored), total' \in 0 .. stored, basis' \in 0 .. stored \cup {None},
         Len(shown') <= Len(shown) + PageSize
  PROVE  TypesInv'
<1>1. /\ IsFiniteSet(loads')
      /\ Cardinality(loads') = Cardinality(loads) - 1 /\ Cardinality(loads') \in Nat
  BY FS_RemoveElement, FS_CardinalityType DEF TypesInv, BudgetInv
<1>2. (Cardinality(loads) - 1) * PageSize = Cardinality(loads) * PageSize - PageSize
  BY ListIsShort
<1>3. Len(shown') \in Nat
  OBVIOUS
<1>4. BudgetInv'
  BY <1>1, <1>2, <1>3, ListIsShort DEF TypesInv, BudgetInv
<1>5. TypeOK'
  BY DEF TypesInv, TypeOK
<1> QED
  BY <1>4, <1>5 DEF TypesInv

LEMMA ReceivePageTypes ==
  ASSUME TypesInv, NEW l \in loads, ReceivePage(l)
  PROVE  TypesInv'
<1>1. l.read \in 0 .. stored /\ l.read \in Nat /\ l.offset \in Nat
  <2>1. l.read \in 0 .. stored /\ l.offset \in 0 .. MaxLoads * PageSize
    BY DEF ReceivePage, TypesInv, TypeOK
  <2> QED
    BY <2>1, ListIsShort
<1> DEFINE page == Page(l.read, l.offset)
<1>2. page \in Seq(1 .. l.read) /\ Len(page) \in Nat /\ Len(page) <= PageSize
  BY <1>1, PageTypes
<1>3. page \in Seq(1 .. stored)
  <2>1. 1 .. l.read \subseteq 1 .. stored
    BY <1>1, ListIsShort
  <2> QED
    BY <1>2, <2>1, SeqMonotonic
<1> HIDE DEF page
<1>4. shown \in Seq(1 .. stored)
  BY DEF TypesInv, TypeOK
<1>5. /\ shown' \in Seq(1 .. stored) /\ Len(shown') <= Len(shown) + PageSize
      /\ basis' \in 0 .. stored \cup {None}
  <2>1. CASE l.offset = 0
    <3>1. shown' = page /\ basis' = l.read
      BY <2>1 DEF ReceivePage, page
    <3> QED
      BY <1>1, <1>2, <1>3, <3>1, ListIsShort
  <2>2. CASE l.offset # 0
    <3>1. shown' = shown \o page /\ basis' \in {basis, None}
      BY <2>2 DEF ReceivePage, page
    <3>2. shown' \in Seq(1 .. stored) /\ Len(shown') = Len(shown) + Len(page)
      BY <1>3, <1>4, <3>1
    <3> QED
      BY <1>2, <3>1, <3>2, ListIsShort DEF TypesInv, TypeOK
  <2> QED
    BY <2>1, <2>2
<1> QED
  BY <1>1, <1>5, AnswerTypes DEF ReceivePage

LEMMA NextKeepsTypes ==
  ASSUME TypesInv, [Next]_vars
  PROVE  TypesInv'
<1>1. CASE Refresh \/ LoadMore
  BY <1>1, LoadHistoryTypes DEF Refresh, LoadMore
<1>2. ASSUME NEW l \in loads, ReadPage(l)
      PROVE  TypesInv'
  BY <1>2, ReadPageTypes
<1>3. ASSUME NEW l \in loads, ReceivePage(l)
      PROVE  TypesInv'
  BY <1>3, ReceivePageTypes
<1>4. ASSUME NEW l \in loads, ReceiveError(l)
      PROVE  TypesInv'
  BY <1>4, AnswerTypes, ListIsShort DEF ReceiveError, TypesInv, TypeOK
<1>5. CASE RecordQuery
  <2>1. stored' = stored + 1 /\ stored' <= MaxRecords
    BY <1>5, ListIsShort, PanelAssumption DEF RecordQuery
  <2>2. 1 .. stored \subseteq 1 .. stored' /\ 0 .. stored \subseteq 0 .. stored'
    BY <2>1, ListIsShort
  <2>3. UNCHANGED <<status, shown, total, basis, loads, number>>
    BY <1>5 DEF RecordQuery, panelVars
  <2>4. shown' \in Seq(1 .. stored')
    BY <2>2, <2>3, SeqMonotonic DEF TypesInv, TypeOK
  <2>5. TypeOK'
    BY <2>1, <2>2, <2>3, <2>4, ListIsShort DEF TypesInv, TypeOK
  <2> QED
    BY <2>3, <2>5 DEF TypesInv, BudgetInv
<1>6. CASE UNCHANGED vars
  BY <1>6 DEF vars, panelVars, TypesInv, TypeOK, BudgetInv
<1> QED
  BY <1>1, <1>2, <1>3, <1>4, <1>5, <1>6 DEF Next, Settle

\* HistoryPanel is well typed, and a list that is loading has a request in
\* flight, for every page size and number of records and requests.
THEOREM PanelTypes == Spec => []TypeOK
<1>1. Init => TypesInv
  BY InitialTypes
<1>2. TypesInv /\ [Next]_vars => TypesInv'
  BY NextKeepsTypes
<1>3. TypesInv => TypeOK
  BY DEF TypesInv
<1> QED
  BY <1>1, <1>2, <1>3, PTL DEF Spec
=============================================================================
