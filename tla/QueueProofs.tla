---------------------------- MODULE QueueProofs ----------------------------
(***************************************************************************)
(* Proofs about Queue, for every value of its constants.                   *)
(***************************************************************************)
EXTENDS Queue, TLAPS

Asked(kind) == flight # None /\ flight.kind = kind
Served      == flight # None /\ flight.answer # None /\ flight.answer.ok

\* Each flag stands for the request that will take it back, and a cursor to go
\* on lies behind the one it was asked with.
Flags ==
    /\ requestActive <=> Asked("page")
    /\ export # None <=> Asked("export")
    /\ Served /\ flight.answer.next # None => flight.answer.next.rank > RankOf(flight.cursor)

\* The matching ranks of a revision after one rank, and those up to another.
Rest(revision, f, cursor) == {i \in Matching(tables[revision + 1], f) : i > RankOf(cursor)}
Upto(S, cursor) == {i \in S : cursor # None => i <= cursor.rank}

\* What an export has collected is all that matches up to its cursor, in the
\* revision that the cursor names.
Collected ==
    /\ flight.filter = export.filter /\ InOrder(export.rows)
    /\ flight.cursor = None => export.rows = <<>>
    /\ flight.cursor # None =>
           /\ flight.cursor.revision <= Revision
           /\ Range(export.rows) =
                  Upto(Matching(tables[flight.cursor.revision + 1], export.filter), flight.cursor)

\* What an answer adds: the ranks between its two cursors, in the same revision.
Added ==
    /\ flight.answer.revision <= Revision
    /\ flight.cursor # None => flight.answer.revision = flight.cursor.revision
    /\ flight.answer.next # None => flight.answer.next.revision = flight.answer.revision
    /\ InOrder(flight.answer.rows)
    /\ Range(flight.answer.rows) =
           Upto(Rest(flight.answer.revision, flight.filter, flight.cursor), flight.answer.next)

Exporting ==
    /\ Asked("export") => Collected
    /\ Asked("export") /\ Served => Added
    /\ exported # None => exported.revision <= Revision

\* Where the pane stands. A page on its way and the page shown are those of the
\* current cursor, and the cursor to go on lies behind it.
Forwards == \A k \in 1..index : RankOf(stack[k]) < RankOf(stack[k + 1])
Awaiting ==
    requestActive =>
        /\ flight.cursor = stack[index + 1] /\ flight.filter = filter
        /\ next # None /\ index = 0 /\ Len(stack) >= 2 => stack[2] # None
Showing ==
    ~requestActive =>
        /\ page # None /\ page.cursor = stack[index + 1] /\ page.filter = filter
        /\ next # None =>
               RankOf(stack[index + 1]) <
                   RankOf(IF index + 1 >= Len(stack) THEN next ELSE stack[index + 2])
Room ==
    Len(stack) <= MaxCursors
    \/ (requestActive /\ Len(stack) = MaxCursors + 1 /\ index = MaxCursors)
InPlace == index >= 0 /\ Forwards /\ Awaiting /\ Showing /\ Room

Inv == TypeOK /\ Flags /\ Exporting /\ ExportWhole /\ (disturbed \/ InPlace)

-----------------------------------------------------------------------------
(* Lists.                                                                   *)

\* Ranks are counted from one.
LEMMA RankNumbers == Ranks \subseteq Nat \ {0}
BY ConstantsAssumption DEF Ranks

\* A list of ranks that continues another behind its last rank is in order.
LEMMA OrderOfConcat ==
    ASSUME NEW a \in Seq(Ranks), NEW b \in Seq(Ranks), InOrder(a), InOrder(b),
           \A i \in Range(a), j \in Range(b) : i < j
    PROVE  InOrder(a \o b)
<1> SUFFICES ASSUME NEW j \in DOMAIN (a \o b), NEW k \in DOMAIN (a \o b), j < k
             PROVE  (a \o b)[j] < (a \o b)[k]
  BY DEF InOrder
<1> DEFINE n == Len(a)
<1>1. /\ n \in Nat /\ Len(b) \in Nat
      /\ DOMAIN a = 1..n /\ DOMAIN b = 1..Len(b) /\ DOMAIN (a \o b) = 1..(n + Len(b))
  OBVIOUS
<1>2. \A i \in 1..n : (a \o b)[i] = a[i]
  OBVIOUS
<1>3. \A i \in (n + 1)..(n + Len(b)) : (a \o b)[i] = b[i - n]
  OBVIOUS
<1> HIDE DEF n
<1>4. CASE k <= n
  <2>1. j \in DOMAIN a /\ k \in DOMAIN a
    BY <1>1, <1>4
  <2> QED
    BY <2>1, <1>1, <1>2 DEF InOrder
<1>5. CASE j > n
  <2>1. j - n \in DOMAIN b /\ k - n \in DOMAIN b /\ j - n < k - n
    BY <1>1, <1>5
  <2>2. b[j - n] < b[k - n]
    BY <2>1 DEF InOrder
  <2> QED
    BY <2>2, <1>1, <1>3, <1>5
<1>6. CASE j <= n /\ k > n
  <2>1. j \in DOMAIN a /\ k - n \in DOMAIN b
    BY <1>1, <1>6
  <2>2. a[j] < b[k - n]
    BY <2>1 DEF Range
  <2> QED
    BY <2>2, <1>1, <1>2, <1>3, <1>6
<1> QED
  BY <1>1, <1>4, <1>5, <1>6

\* What a list and its continuation hold.
LEMMA RangeOfConcat ==
    ASSUME NEW a \in Seq(Ranks), NEW b \in Seq(Ranks)
    PROVE  Range(a \o b) = Range(a) \cup Range(b)
<1> DEFINE n == Len(a)
<1>1. /\ n \in Nat /\ Len(b) \in Nat
      /\ DOMAIN a = 1..n /\ DOMAIN b = 1..Len(b) /\ DOMAIN (a \o b) = 1..(n + Len(b))
  OBVIOUS
<1>2. \A i \in 1..n : (a \o b)[i] = a[i]
  OBVIOUS
<1>3. \A i \in (n + 1)..(n + Len(b)) : (a \o b)[i] = b[i - n]
  OBVIOUS
<1> HIDE DEF n
<1>4. ASSUME NEW x \in Range(a \o b) PROVE x \in Range(a) \cup Range(b)
  <2>1. PICK i \in 1..(n + Len(b)) : x = (a \o b)[i]
    BY <1>1, <1>4 DEF Range
  <2>2. CASE i <= n
    BY <2>1, <2>2, <1>1, <1>2 DEF Range
  <2>3. CASE i > n
    <3>1. x = b[i - n] /\ i - n \in DOMAIN b
      BY <2>1, <2>3, <1>1, <1>3
    <3> QED
      BY <3>1 DEF Range
  <2> QED
    BY <2>1, <2>2, <2>3, <1>1
<1>5. ASSUME NEW x \in Range(a) PROVE x \in Range(a \o b)
  <2>1. PICK i \in 1..n : x = a[i]
    BY <1>1 DEF Range
  <2>2. i \in DOMAIN (a \o b) /\ x = (a \o b)[i]
    BY <2>1, <1>1, <1>2
  <2> QED
    BY <2>2 DEF Range
<1>6. ASSUME NEW x \in Range(b) PROVE x \in Range(a \o b)
  <2>1. PICK i \in 1..Len(b) : x = b[i]
    BY <1>1 DEF Range
  <2>2. i + n \in (n + 1)..(n + Len(b)) /\ (i + n) - n = i
    BY <1>1
  <2>3. i + n \in DOMAIN (a \o b) /\ x = (a \o b)[i + n]
    BY <2>1, <2>2, <1>1, <1>3
  <2> QED
    BY <2>3 DEF Range
<1> QED
  BY <1>4, <1>5, <1>6

\* A list cut from a set of ranks: it holds all of them, or the full page holds
\* those up to its last one.
LEMMA PageOfList ==
    ASSUME NEW S \in SUBSET Ranks, NEW size \in Nat \ {0}, NEW rows \in Lists(S, size)
    PROVE  /\ rows \in Seq(Ranks) /\ InOrder(rows)
           /\ Len(rows) < size => Range(rows) = S
           /\ ~(Len(rows) < size) =>
                  Last(rows) \in S /\ Range(rows) = {i \in S : i <= Last(rows)}
<1>1. PICK n \in 0..size : rows \in [1..n -> S]
  BY DEF Lists
<1>2. rows \in Seq(S) /\ rows \in Seq(Ranks) /\ Len(rows) = n /\ DOMAIN rows = 1..n
  BY <1>1
<1>3. InOrder(rows)
  BY DEF Lists
<1>4. \A i \in S \ Range(rows) : Len(rows) = size /\ \A k \in DOMAIN rows : rows[k] < i
  BY DEF Lists
<1>5. Range(rows) \subseteq S
  BY <1>1 DEF Range
<1>6. ASSUME Len(rows) < size PROVE Range(rows) = S
  <2>1. Len(rows) # size
    BY <1>2, <1>6
  <2>2. S \ Range(rows) = {}
    BY <2>1, <1>4, Zenon
  <2> QED
    BY <2>2, <1>5
<1>7. ASSUME ~(Len(rows) < size)
      PROVE  Last(rows) \in S /\ Range(rows) = {i \in S : i <= Last(rows)}
  <2>1. n \in DOMAIN rows /\ Last(rows) = rows[n] /\ rows[n] \in S
    BY <1>1, <1>2, <1>7 DEF Last
  <2>2. ASSUME NEW i \in Range(rows) PROVE i <= rows[n]
    <3>1. PICK k \in 1..n : i = rows[k]
      BY <1>2 DEF Range
    <3>2. k = n \/ rows[k] < rows[n]
      BY <1>2, <1>3, <2>1 DEF InOrder
    <3>3. i \in Nat /\ rows[n] \in Nat
      BY <1>5, <2>1, RankNumbers
    <3> QED
      BY <3>1, <3>2, <3>3
  <2>3. ASSUME NEW i \in S, i <= rows[n] PROVE i \in Range(rows)
    <3>1. i \in Nat /\ rows[n] \in Nat
      BY <2>1, RankNumbers
    <3>2. i \notin Range(rows) => rows[n] < i
      BY <1>4, <2>1
    <3> QED
      BY <2>3, <3>1, <3>2
  <2> QED
    BY <1>5, <2>1, <2>2, <2>3
<1> QED
  BY <1>2, <1>3, <1>6, <1>7

\* The matching ranks are ranks.
LEMMA MatchingRanks == \A t, f : Matching(t, f) \subseteq Ranks
BY DEF Matching

\* The database is the last of the revisions.
LEMMA LastTable ==
    ASSUME DatabaseType
    PROVE  Revision \in Nat /\ Len(tables) = Revision + 1 /\ Last(tables) = tables[Revision + 1]
BY DEF DatabaseType, Revision, Last

\* The answers of _list_queue(): a failure, or the rows behind the cursor in the
\* revision of the database, which is the revision of the cursor.
LEMMA AnswersOf ==
    ASSUME DatabaseType, NEW cursor \in Cursors \cup {None}, NEW f \in DOMAIN Filters,
           NEW size \in Nat \ {0}, NEW result \in ListQueue(cursor, f, size)
    PROVE  /\ result \in Answers
           /\ result.ok =>
                  /\ result.revision = Revision
                  /\ cursor # None => cursor.revision = Revision
                  /\ result.next # None =>
                         result.next.revision = Revision /\ result.next.rank > RankOf(cursor)
                  /\ InOrder(result.rows)
                  /\ Range(result.rows) = Upto(Rest(Revision, f, cursor), result.next)
<1> DEFINE S == After(cursor, f)
<1>1. S \in SUBSET Ranks /\ S = Rest(Revision, f, cursor) /\ \A i \in S : i > RankOf(cursor)
  BY LastTable, MatchingRanks DEF After, Rest
<1>2. CASE result = Failure
  BY <1>2 DEF Failure, Answers
<1>3. ASSUME result # Failure
      PROVE  /\ cursor = None \/ Accepts(cursor, f)
             /\ \E rows \in Lists(S, size) :
                    result = [ok |-> TRUE, rows |-> rows, revision |-> Revision,
                              next |-> Onward(rows, f, size)]
  BY <1>3 DEF ListQueue
<1>4. ASSUME result # Failure
      PROVE  /\ result \in Answers /\ result.revision = Revision
             /\ cursor # None => cursor.revision = Revision
             /\ result.next # None =>
                    result.next.revision = Revision /\ result.next.rank > RankOf(cursor)
             /\ InOrder(result.rows)
             /\ Range(result.rows) = Upto(Rest(Revision, f, cursor), result.next)
  <2>1. PICK rows \in Lists(S, size) :
            result = [ok |-> TRUE, rows |-> rows, revision |-> Revision,
                      next |-> Onward(rows, f, size)]
    BY <1>3, <1>4
  <2> DEFINE full == [session |-> session, revision |-> Revision, filter |-> f, rank |-> Last(rows)]
  <2>2. cursor # None => cursor.revision = Revision
    BY <1>3, <1>4 DEF Accepts
  <2> HIDE DEF S
  <2>3. /\ rows \in Seq(Ranks) /\ InOrder(rows)
        /\ Len(rows) < size => Range(rows) = S
        /\ ~(Len(rows) < size) =>
               Last(rows) \in S /\ Range(rows) = {i \in S : i <= Last(rows)}
    BY <1>1, PageOfList
  <2>4. result.rows = rows /\ result.next = Onward(rows, f, size) /\ result.revision = Revision
    BY <2>1
  <2>5. CASE Len(rows) < size
    <3>1. result.next = None
      BY <2>4, <2>5 DEF Onward
    <3>2. result \in Answers
      BY <2>1, <2>3, <2>4, <3>1, LastTable DEF Answers
    <3>3. Range(rows) = Upto(S, result.next)
      BY <2>3, <2>5, <3>1 DEF Upto
    <3> QED
      BY <2>2, <2>3, <2>4, <3>1, <3>2, <3>3, <1>1
  <2>6. CASE ~(Len(rows) < size)
    <3>1. result.next = full
      BY <2>4, <2>6 DEF Onward
    <3>2. full \in Cursors
      BY <2>3, <2>6, <1>1, LastTable DEF Cursors, DatabaseType
    <3>3. result \in Answers
      BY <2>1, <2>3, <2>4, <3>1, <3>2, LastTable DEF Answers
    <3>4. full # None
      BY <3>2, NoneAssumption
    <3>5. result.next.revision = Revision /\ result.next.rank = Last(rows)
      BY <3>1
    <3>6. Range(rows) = Upto(S, result.next)
      BY <2>3, <2>6, <3>1, <3>4, <3>5 DEF Upto
    <3> QED
      BY <2>2, <2>3, <2>4, <2>6, <3>3, <3>5, <3>6, <1>1
  <2> QED
    BY <2>5, <2>6
<1>5. Failure.ok = FALSE
  BY DEF Failure
<1> QED
  BY <1>2, <1>4, <1>5

-----------------------------------------------------------------------------
(* Types.                                                                   *)

\* What the request on its way is made of.
LEMMA FlightParts ==
    ASSUME TypeOK, flight # None
    PROVE  /\ flight \in Requests /\ flight.cursor \in Cursors \cup {None}
           /\ flight.kind \in {"page", "poll", "details", "export"}
           /\ flight.filter \in DOMAIN Filters /\ flight.answer \in Answers \cup {None}
BY DEF TypeOK, FlightType, Requests

\* What an answer is made of.
LEMMA AnswerParts ==
    ASSUME TypeOK, flight # None, flight.answer # None
    PROVE  /\ answer = flight.answer /\ answer \in Answers /\ answer.ok \in BOOLEAN
           /\ answer.rows \in Seq(Ranks) /\ answer.revision \in Nat
           /\ answer.next \in Cursors \cup {None}
BY FlightParts DEF answer, Answers

\* A request that is made has no answer yet.
LEMMA RequestMade ==
    ASSUME NEW kind \in {"page", "poll", "details", "export"}, NEW cursor \in Cursors \cup {None},
           NEW f \in DOMAIN Filters
    PROVE  /\ Request(kind, cursor, f) \in Requests /\ Request(kind, cursor, f) # None
           /\ Request(kind, cursor, f).kind = kind /\ Request(kind, cursor, f).cursor = cursor
           /\ Request(kind, cursor, f).filter = f /\ Request(kind, cursor, f).answer = None
<1>1. Request(kind, cursor, f) \in Requests
  BY DEF Request, Requests
<1> QED
  BY <1>1, NoneAssumption DEF Request

\* The cursor at a place of the list is a cursor.
LEMMA CursorAt ==
    ASSUME TypeOK, NEW i \in Int, Listed(i)
    PROVE  stack[Place(i)] \in Cursors \cup {None}
<1> DEFINE p == Place(i)
           C == Cursors \cup {None}
<1>1. stack \in Seq(C) /\ p \in DOMAIN stack
  BY DEF TypeOK, PaneType, Listed
<1> HIDE DEF p, C
<1>2. stack[p] \in C
  BY <1>1
<1> QED
  BY <1>2 DEF p, C

\* Asking for a page, or failing to, keeps the types.
LEMMA RequestTypes ==
    ASSUME TypeOK, NEW cursor \in Cursors \cup {None}, NEW f \in DOMAIN Filters,
           NEW reset \in BOOLEAN, RequestPage(cursor, f, reset)
    PROVE  /\ flight' \in Requests \cup {None} /\ requestActive' \in BOOLEAN
           /\ disturbed' \in BOOLEAN /\ banner' \in {"", "none", "changed", "unavailable"}
<1>1. flight \in Requests \cup {None} /\ requestActive \in BOOLEAN /\ disturbed \in BOOLEAN
      /\ banner \in {"", "none", "changed", "unavailable"}
  BY DEF TypeOK, FlightType, PaneType
<1>2. Request("page", cursor, f) \in Requests
  BY RequestMade
<1>3. flight' = flight \/ flight' = Request("page", cursor, f)
  BY DEF RequestPage
<1>4. requestActive' \in BOOLEAN
  BY <1>1, Zenon DEF RequestPage
<1>5. Lost(f, reset) \in BOOLEAN
  BY <1>1, Zenon DEF Lost
<1>6. disturbed' \in BOOLEAN
  BY <1>1, <1>5, Zenon DEF RequestPage
<1>7. banner' \in {"", "none", "changed", "unavailable"}
  BY <1>1 DEF RequestPage
<1> QED
  BY <1>1, <1>2, <1>4, <1>6, <1>7, <1>3

\* A list of one.
LEMMA ListOfOne ==
    ASSUME NEW S, NEW x \in S
    PROVE  /\ <<x>> \in Seq(S) /\ <<x>> # <<>> /\ Len(<<x>>) = 1 /\ <<x>>[1] = x
           /\ DOMAIN <<x>> = 1..1
OBVIOUS

\* The initial state has the types.
LEMMA InitTypes == Init => TypeOK
<1> SUFFICES ASSUME Init PROVE TypeOK
  OBVIOUS
<1>1. DatabaseType
  <2>1. PICK t \in Tables : tables = <<t>>
    BY DEF Init
  <2>2. session = 1
    BY DEF Init
  <2> QED
    BY <2>1, <2>2, ListOfOne DEF DatabaseType
<1>2. PaneType
  <2>1. stack \in Seq(Cursors \cup {None}) /\ Len(stack) = 1
    BY ListOfOne DEF Init
  <2>2. requestActive \in BOOLEAN /\ disturbed \in BOOLEAN
    BY Zenon DEF Init
  <2>3. filter = "all" /\ index = 0 /\ next = None /\ page = None
    BY Zenon DEF Init
  <2>4. banner \in {"", "none", "changed", "unavailable"}
    BY DEF Init
  <2>5. index < Len(stack)
    BY <2>1, <2>3
  <2>6. filter \in DOMAIN Filters /\ index \in Int
    BY <2>3, ConstantsAssumption
  <2>7. next \in Cursors \cup {None} /\ page \in Pages \cup {None}
    BY <2>3
  <2> QED
    BY <2>1, <2>2, <2>4, <2>5, <2>6, <2>7, Zenon DEF PaneType
<1>3. ExportsType
  BY DEF Init, ExportsType
<1>4. FlightType
  BY ConstantsAssumption, RequestMade DEF Init, FlightType
<1> QED
  BY <1>1, <1>2, <1>3, <1>4 DEF TypeOK

\* The database grows by whole tables, and a session is counted on.
LEMMA DatabaseTypeStep == TypeOK /\ [Next]_vars => DatabaseType'
<1> SUFFICES ASSUME TypeOK, [Next]_vars PROVE DatabaseType'
  OBVIOUS
<1>1. tables \in Seq(Tables) /\ tables # <<>> /\ session \in Nat
  BY DEF TypeOK, DatabaseType
<1>2. CASE UNCHANGED database
  BY <1>1, <1>2 DEF database, DatabaseType
<1>3. CASE Change
  <2>1. PICK i \in Ranks, b \in Buckets : tables' = Append(tables, [Last(tables) EXCEPT ![i] = b])
    BY <1>3 DEF Change
  <2> DEFINE t == [Last(tables) EXCEPT ![i] = b]
  <2>2. Last(tables) \in Tables
    BY <1>1 DEF Last
  <2>3. t \in Tables
    BY <2>2 DEF Tables
  <2> HIDE DEF t
  <2>4. tables' \in Seq(Tables) /\ tables' # <<>>
    <3>1. tables' = Append(tables, t)
      BY <2>1 DEF t
    <3> QED
      BY <3>1, <2>3, <1>1
  <2> QED
    BY <2>4, <1>1, <1>3 DEF Change, DatabaseType
<1>4. CASE Restart
  BY <1>1, <1>4 DEF Restart, DatabaseType
<1>5. [Next]_vars => Change \/ Restart \/ UNCHANGED database
  BY Zenon DEF Next, vars, Serve, ServeFails, Answered, SetFilter, Refresh, Reload, NextPage,
     PreviousPage, RequestPage, PollRevision, AskDetails, StartExport, Deliver, PageFails,
     PageExhausts, PageEmpty, PageArrives, PollArrives, DetailsArrive, ExportFails, ExportArrives,
     Landed
<1> QED
  BY <1>2, <1>3, <1>4, <1>5

\* What the pane shows when a page arrives is a page.
LEMMA ReceivedType ==
    ASSUME TypeOK, flight # None, flight.answer # None PROVE Received \in Pages
BY FlightParts, AnswerParts DEF Received, Pages

\* Keys of the operator keep the types of the pane.
LEMMA PaneTypeKeys == TypeOK /\ (SetFilter \/ Refresh \/ NextPage \/ PreviousPage) => PaneType'
<1> SUFFICES ASSUME TypeOK PROVE SetFilter \/ Refresh \/ NextPage \/ PreviousPage => PaneType'
  OBVIOUS
<1>1. /\ filter \in DOMAIN Filters /\ stack \in Seq(Cursors \cup {None}) /\ index \in Int
      /\ index < Len(stack) /\ next \in Cursors \cup {None} /\ page \in Pages \cup {None}
  BY DEF TypeOK, PaneType
<1>2. ASSUME NEW f \in DOMAIN Filters, Reload(f) PROVE PaneType'
  <2>1. RequestPage(None, f, TRUE) /\ filter' = f /\ index' = 0 /\ next' = None /\ stack' = <<None>>
    BY <1>2 DEF Reload
  <2>2. /\ requestActive' \in BOOLEAN /\ disturbed' \in BOOLEAN
        /\ banner' \in {"", "none", "changed", "unavailable"}
    BY <2>1, RequestTypes
  <2>3. page' = page
    BY <2>1 DEF RequestPage
  <2>4. stack' \in Seq(Cursors \cup {None}) /\ Len(stack') = 1
    BY <2>1, ListOfOne
  <2>5. filter' \in DOMAIN Filters /\ next' \in Cursors \cup {None} /\ page' \in Pages \cup {None}
        /\ index' \in Int
    BY <1>1, <2>1, <2>3
  <2>6. index' < Len(stack')
    BY <2>1, <2>4
  <2> QED
    BY <2>2, <2>4, <2>5, <2>6, Zenon DEF PaneType
<1>3. CASE SetFilter
  BY <1>2, <1>3 DEF SetFilter
<1>4. CASE Refresh
  BY <1>1, <1>2, <1>4 DEF Refresh
<1>5. CASE NextPage
  <2> DEFINE c == IF index + 1 >= Len(stack) THEN next ELSE stack[Place(index + 1)]
  <2>1. c \in Cursors \cup {None}
    BY <1>1, <1>5, CursorAt DEF NextPage
  <2> HIDE DEF c
  <2>2. RequestPage(c, filter, FALSE) /\ filter' = filter /\ next' = next /\ index' = index + 1
        /\ stack' = Pushed
    BY <1>5 DEF NextPage, c
  <2>3. /\ requestActive' \in BOOLEAN /\ disturbed' \in BOOLEAN
        /\ banner' \in {"", "none", "changed", "unavailable"}
    BY <2>1, <2>2, <1>1, RequestTypes
  <2>4. page' = page
    BY <2>2 DEF RequestPage
  <2>5. stack' \in Seq(Cursors \cup {None}) /\ index' < Len(stack')
    BY <1>1, <2>2 DEF Pushed
  <2>6. filter' \in DOMAIN Filters /\ next' \in Cursors \cup {None} /\ page' \in Pages \cup {None}
        /\ index' \in Int
    BY <1>1, <2>2, <2>4
  <2> QED
    BY <2>3, <2>5, <2>6, Zenon DEF PaneType
<1>6. CASE PreviousPage
  <2> DEFINE c == stack[Place(index - 1)]
  <2>1. c \in Cursors \cup {None}
    BY <1>1, <1>6, CursorAt DEF PreviousPage
  <2> HIDE DEF c
  <2>2. RequestPage(c, filter, FALSE) /\ filter' = filter /\ next' = next /\ index' = index - 1
        /\ stack' = stack
    BY <1>6 DEF PreviousPage, c
  <2>3. /\ requestActive' \in BOOLEAN /\ disturbed' \in BOOLEAN
        /\ banner' \in {"", "none", "changed", "unavailable"}
    BY <2>1, <2>2, <1>1, RequestTypes
  <2>4. page' = page
    BY <2>2 DEF RequestPage
  <2>5. stack' \in Seq(Cursors \cup {None}) /\ index' < Len(stack')
    BY <1>1, <2>2
  <2>6. filter' \in DOMAIN Filters /\ next' \in Cursors \cup {None} /\ page' \in Pages \cup {None}
        /\ index' \in Int
    BY <1>1, <2>2, <2>4
  <2> QED
    BY <2>3, <2>5, <2>6, Zenon DEF PaneType
<1> QED
  BY <1>3, <1>4, <1>5, <1>6

\* A list with one entry more.
LEMMA AppendedTo ==
    ASSUME NEW C, NEW s \in Seq(C), NEW c \in C
    PROVE  /\ Append(s, c) \in Seq(C) /\ Len(Append(s, c)) = Len(s) + 1
           /\ Append(s, c)[Len(s) + 1] = c
           /\ \A k \in 1..Len(s) : Append(s, c)[k] = s[k]
OBVIOUS

\* A list with one entry replaced.
LEMMA ReplacedIn ==
    ASSUME NEW C, NEW s \in Seq(C), NEW p, NEW c \in C
    PROVE  /\ [s EXCEPT ![p] = c] \in Seq(C) /\ Len([s EXCEPT ![p] = c]) = Len(s)
           /\ \A k \in 1..Len(s) : [s EXCEPT ![p] = c][k] = IF k = p THEN c ELSE s[k]
<1>1. [s EXCEPT ![p] = c] = [k \in 1..Len(s) |-> IF k = p THEN c ELSE s[k]]
  OBVIOUS
<1> DEFINE n == Len(s)
<1>2. n \in Nat /\ \A k \in 1..n : s[k] \in C
  OBVIOUS
<1> HIDE DEF n
<1>3. [k \in 1..n |-> IF k = p THEN c ELSE s[k]] \in [1..n -> C]
  BY <1>2
<1>4. \A t \in [1..n -> C] : t \in Seq(C) /\ Len(t) = n
  BY <1>2
<1> QED
  BY <1>1, <1>3, <1>4 DEF n

\* The list of cursors after a page has arrived: its cursor to go on is noted, and
\* the oldest go.
LEMMA KeptCursors ==
    ASSUME TypeOK, flight # None, flight.answer # None
    PROVE  /\ Noted \in Seq(Cursors \cup {None}) /\ Excess \in Nat
           /\ Len(Noted) = IF index + 1 >= Len(stack) THEN Len(stack) + 1 ELSE Len(stack)
           /\ Kept \in Seq(Cursors \cup {None}) /\ Len(Kept) = Len(Noted) - Excess
           /\ \A k \in 1..Len(Kept) : Kept[k] = Noted[k + Excess]
           /\ Excess = IF Len(Noted) > MaxCursors THEN Len(Noted) - MaxCursors ELSE 0
<1> DEFINE C == Cursors \cup {None}
<1>1. /\ stack \in Seq(C) /\ index \in Int /\ index < Len(stack) /\ answer.next \in C
  BY AnswerParts DEF TypeOK, PaneType
<1> DEFINE c == answer.next
           p == Place(index + 1)
<1>2. Noted = IF index + 1 >= Len(stack) THEN Append(stack, c) ELSE [stack EXCEPT ![p] = c]
  BY DEF Noted
<1> HIDE DEF C, c, p
<1>3. c \in C
  BY <1>1 DEF c
<1>4. /\ Noted \in Seq(C)
      /\ Len(Noted) = IF index + 1 >= Len(stack) THEN Len(stack) + 1 ELSE Len(stack)
  <2>1. CASE index + 1 >= Len(stack)
    BY <1>1, <1>2, <1>3, <2>1
  <2>2. CASE ~(index + 1 >= Len(stack))
    <3>1. Noted = [stack EXCEPT ![p] = c]
      BY <1>2, <2>2
    <3>2. Noted \in Seq(C) /\ Len(Noted) = Len(stack)
      BY <3>1, <1>1, <1>3, ReplacedIn
    <3> QED
      BY <3>2, <2>2
  <2> QED
    BY <2>1, <2>2
<1>5. MaxCursors \in Nat /\ Len(Noted) \in Nat
  BY <1>4, ConstantsAssumption
<1>6. Excess = (IF Len(Noted) > MaxCursors THEN Len(Noted) - MaxCursors ELSE 0) /\ Excess \in Nat
      /\ Excess <= Len(Noted)
  BY <1>5 DEF Excess
<1> DEFINE n == Noted
           e == Excess
<1>7. Kept = SubSeq(n, e + 1, Len(n))
  BY DEF Kept
<1>8. n \in Seq(C) /\ e \in Nat /\ e <= Len(n)
  BY <1>4, <1>6
<1> HIDE DEF n, e
<1>9. /\ Kept \in Seq(C) /\ Len(Kept) = Len(n) - e
      /\ \A k \in 1..Len(Kept) : Kept[k] = n[k + e]
  BY <1>7, <1>8
<1> QED
  BY <1>4, <1>6, <1>9 DEF C, n, e

\* Answers keep the types of the pane.
LEMMA PaneTypeAnswers == TypeOK /\ Deliver => PaneType'
<1> SUFFICES ASSUME TypeOK, Deliver PROVE PaneType'
  OBVIOUS
<1>1. /\ filter \in DOMAIN Filters /\ stack \in Seq(Cursors \cup {None}) /\ index \in Int
      /\ index < Len(stack) /\ next \in Cursors \cup {None} /\ page \in Pages \cup {None}
  BY DEF TypeOK, PaneType
<1>2. requestActive \in BOOLEAN /\ disturbed \in BOOLEAN
      /\ banner \in {"", "none", "changed", "unavailable"}
  BY DEF TypeOK, PaneType
<1>3. CASE PageFails
  <2>1. UNCHANGED <<filter, stack, index, next, page>>
    BY <1>3 DEF PageFails
  <2>2. requestActive' \in BOOLEAN /\ disturbed' \in BOOLEAN
    BY <1>3, Zenon DEF PageFails, Released
  <2>3. banner' = "unavailable"
    BY <1>3 DEF PageFails
  <2> QED
    BY <2>1, <2>2, <2>3, <1>1 DEF PaneType
<1>4. CASE PageExhausts
  <2>1. UNCHANGED <<filter, stack, index, page>> /\ next' = None
    BY <1>4 DEF PageExhausts
  <2>2. requestActive' \in BOOLEAN /\ disturbed' \in BOOLEAN
    BY <1>4, Zenon DEF PageExhausts, Released
  <2>3. banner' = ""
    BY <1>4 DEF PageExhausts
  <2> QED
    BY <2>1, <2>2, <2>3, <1>1 DEF PaneType
<1>5. CASE PageEmpty
  <2>1. UNCHANGED <<filter, stack, index, next, disturbed>> /\ page' = Received
    BY <1>5 DEF PageEmpty
  <2>2. requestActive' \in BOOLEAN /\ disturbed' \in BOOLEAN
    BY <1>2, <1>5, Zenon DEF PageEmpty, Released
  <2>3. banner' = "none"
    BY <1>5 DEF PageEmpty
  <2>4. page' \in Pages
    BY <2>1, <1>5, ReceivedType DEF PageEmpty, Arrives
  <2> QED
    BY <2>1, <2>2, <2>3, <2>4, <1>1 DEF PaneType
<1>6. CASE PageArrives
  <2>1. UNCHANGED <<filter, disturbed>> /\ page' = Received /\ next' = answer.next
        /\ stack' = Kept /\ index' = index - Excess /\ flight # None /\ flight.answer # None
    BY <1>6 DEF PageArrives, Arrives
  <2>2. requestActive' \in BOOLEAN /\ disturbed' \in BOOLEAN
    BY <1>2, <1>6, Zenon DEF PageArrives, Released
  <2>3. banner' = ""
    BY <1>6 DEF PageArrives
  <2>4. page' \in Pages
    BY <2>1, ReceivedType
  <2>5. next' \in Cursors \cup {None}
    BY <2>1, AnswerParts
  <2>6. stack' \in Seq(Cursors \cup {None}) /\ index' \in Int /\ index' < Len(stack')
    BY <2>1, <1>1, KeptCursors
  <2> QED
    BY <2>1, <2>2, <2>3, <2>4, <2>5, <2>6, <1>1 DEF PaneType
<1>7. CASE PollArrives
  <2>1. UNCHANGED <<filter, stack, index, next, page, requestActive, disturbed>>
    BY <1>7 DEF PollArrives
  <2>2. banner' \in {"", "none", "changed", "unavailable"}
    BY <1>2, <1>7 DEF PollArrives
  <2> QED
    BY <2>1, <2>2, <1>1, <1>2 DEF PaneType
<1>8. CASE UNCHANGED pane
  BY <1>1, <1>2, <1>8 DEF pane, PaneType
<1> QED
  BY <1>3, <1>4, <1>5, <1>6, <1>7, <1>8 DEF Deliver, DetailsArrive, ExportFails, ExportArrives

\* An export and its report have their types, given the flag that says it runs.
LEMMA ExportsTypeStep == TypeOK /\ Flags /\ [Next]_vars => ExportsType'
<1> SUFFICES ASSUME TypeOK, Flags, [Next]_vars PROVE ExportsType'
  OBVIOUS
<1>1. export \in Exports \cup {None} /\ exported \in Reports \cup {None} /\ filter \in DOMAIN Filters
  BY DEF TypeOK, ExportsType, PaneType
<1>2. CASE UNCHANGED exports
  BY <1>1, <1>2 DEF exports, ExportsType
<1>3. CASE StartExport
  <2>1. export' = [filter |-> filter, rows |-> <<>>] /\ exported' = exported
    BY <1>3 DEF StartExport
  <2>2. <<>> \in Seq(Ranks)
    OBVIOUS
  <2>3. export' \in Exports
    BY <2>1, <2>2, <1>1 DEF Exports
  <2> QED
    BY <2>1, <2>3, <1>1 DEF ExportsType
<1>4. CASE ExportFails
  BY <1>1, <1>4 DEF ExportFails, ExportsType
<1>5. CASE ExportArrives
  <2>1. flight # None /\ flight.answer # None /\ export # None
    BY <1>5 DEF ExportArrives, Arrives, Flags, Asked
  <2>2. export \in Exports /\ export.rows \in Seq(Ranks) /\ export.filter \in DOMAIN Filters
    BY <2>1, <1>1 DEF Exports
  <2> DEFINE rows == export.rows \o answer.rows
  <2>3. rows \in Seq(Ranks)
    BY <2>1, <2>2, AnswerParts
  <2>4. \/ export' = [export EXCEPT !.rows = rows] /\ exported' = exported
        \/ export' = None
           /\ exported' = [filter |-> export.filter, rows |-> rows, revision |-> answer.revision]
    BY <1>5 DEF ExportArrives
  <2>5. answer.revision \in Nat
    BY <2>1, AnswerParts
  <2> HIDE DEF rows
  <2>6. CASE export' = [export EXCEPT !.rows = rows] /\ exported' = exported
    <3>1. export' \in Exports
      BY <2>2, <2>3, <2>6 DEF Exports
    <3> QED
      BY <3>1, <2>6, <1>1 DEF ExportsType
  <2>7. CASE export' = None
             /\ exported' = [filter |-> export.filter, rows |-> rows, revision |-> answer.revision]
    <3>1. exported' \in Reports
      BY <2>2, <2>3, <2>5, <2>7 DEF Reports
    <3> QED
      BY <3>1, <2>7 DEF ExportsType
  <2> QED
    BY <2>4, <2>6, <2>7
<1>6. StartExport \/ ExportFails \/ ExportArrives \/ UNCHANGED exports
  BY Zenon DEF Next, vars, Change, Restart, Serve, ServeFails, Answered, SetFilter, Refresh, Reload,
     NextPage, PreviousPage, RequestPage, PollRevision, AskDetails, Deliver, PageFails,
     PageExhausts, PageEmpty, PageArrives, PollArrives, DetailsArrive
<1> QED
  BY <1>2, <1>3, <1>4, <1>5, <1>6

\* An answer given to the request on its way.
LEMMA AnsweredRequest ==
    ASSUME TypeOK, NEW result \in Answers, Answered(result)
    PROVE  /\ flight # None /\ flight.answer = None /\ flight' \in Requests /\ flight' # None
           /\ flight'.kind = flight.kind /\ flight'.cursor = flight.cursor
           /\ flight'.filter = flight.filter /\ flight'.answer = result
<1>1. flight # None /\ flight.answer = None /\ flight' = [flight EXCEPT !.answer = result]
  BY DEF Answered
<1>2. flight \in Requests
  BY <1>1, FlightParts
<1>3. flight' \in Requests /\ flight'.kind = flight.kind /\ flight'.cursor = flight.cursor
      /\ flight'.filter = flight.filter /\ flight'.answer = result
  BY <1>1, <1>2 DEF Requests
<1> QED
  BY <1>1, <1>3, NoneAssumption

\* What the service answers: a result of _list_queue(), or a failure.
LEMMA Answering ==
    ASSUME TypeOK, Serve \/ ServeFails
    PROVE  \E result \in Answers :
               /\ Answered(result)
               /\ \/ result = Failure
                  \/ result \in ListQueue(flight.cursor, flight.filter, SizeOf(flight.kind))
<1>1. Failure \in Answers
  BY DEF Failure, Answers
<1>2. CASE ServeFails
  BY <1>1, <1>2 DEF ServeFails
<1>3. CASE Serve
  <2>1. flight # None
    BY <1>3 DEF Serve
  <2> DEFINE c == flight.cursor
             f == flight.filter
             n == SizeOf(flight.kind)
  <2>2. PICK result \in ListQueue(c, f, n) : Answered(result)
    BY <1>3 DEF Serve
  <2>3. c \in Cursors \cup {None} /\ f \in DOMAIN Filters /\ n \in Nat \ {0}
    BY <2>1, FlightParts, ConstantsAssumption DEF SizeOf
  <2> HIDE DEF c, f, n
  <2>4. result \in Answers
    BY <2>3, AnswersOf DEF TypeOK
  <2> QED
    BY <2>2, <2>4 DEF c, f, n
<1> QED
  BY <1>2, <1>3

\* The counters stay numbers.
LEMMA CountersStep == TypeOK /\ [Next]_vars => keys' \in Nat /\ faults' \in Nat
<1> SUFFICES ASSUME TypeOK, [Next]_vars PROVE keys' \in Nat /\ faults' \in Nat
  OBVIOUS
<1>1. keys \in Nat /\ faults \in Nat
  BY DEF TypeOK, FlightType
<1>2. keys' = keys \/ keys' = keys + 1
  BY Zenon DEF Next, vars, bounds, Change, Restart, Serve, ServeFails, Answered, SetFilter, Refresh,
     Key, NextPage, PreviousPage, PollRevision, AskDetails, StartExport, Deliver, PageFails,
     PageExhausts, PageEmpty, PageArrives, PollArrives, DetailsArrive, ExportFails, ExportArrives,
     Landed
<1>3. faults' = faults \/ faults' = faults + 1
  BY Zenon DEF Next, vars, bounds, Change, Restart, Serve, ServeFails, Answered, SetFilter, Refresh,
     Key, NextPage, PreviousPage, PollRevision, AskDetails, StartExport, Deliver, PageFails,
     PageExhausts, PageEmpty, PageArrives, PollArrives, DetailsArrive, ExportFails, ExportArrives,
     Landed
<1> QED
  BY <1>1, <1>2, <1>3

\* The request on its way stays a request.
LEMMA RequestStep == TypeOK /\ Flags /\ [Next]_vars => flight' \in Requests \cup {None}
<1> SUFFICES ASSUME TypeOK, Flags, [Next]_vars PROVE flight' \in Requests \cup {None}
  OBVIOUS
<1>1. /\ flight \in Requests \cup {None} /\ keys \in Nat /\ faults \in Nat
      /\ filter \in DOMAIN Filters /\ index \in Int /\ next \in Cursors \cup {None}
  BY DEF TypeOK, FlightType, PaneType
<1>2. CASE Serve \/ ServeFails
  BY <1>2, Answering, AnsweredRequest
<1>3. ASSUME NEW c \in Cursors \cup {None}, NEW f \in DOMAIN Filters, NEW reset \in BOOLEAN,
             RequestPage(c, f, reset)
      PROVE  flight' \in Requests \cup {None}
  BY <1>3, RequestTypes
<1>4. CASE SetFilter \/ Refresh
  <2>1. PICK f \in DOMAIN Filters : RequestPage(None, f, TRUE)
    BY <1>1, <1>4 DEF SetFilter, Refresh, Reload
  <2> QED
    BY <2>1, <1>3
<1>5. CASE NextPage
  <2> DEFINE c == IF index + 1 >= Len(stack) THEN next ELSE stack[Place(index + 1)]
  <2>1. c \in Cursors \cup {None}
    BY <1>1, <1>5, CursorAt DEF NextPage
  <2>2. RequestPage(c, filter, FALSE)
    BY <1>5 DEF NextPage
  <2> QED
    BY <2>1, <2>2, <1>1, <1>3
<1>6. CASE PreviousPage
  <2>1. stack[Place(index - 1)] \in Cursors \cup {None}
    BY <1>1, <1>6, CursorAt DEF PreviousPage
  <2>2. RequestPage(stack[Place(index - 1)], filter, FALSE)
    BY <1>6 DEF PreviousPage
  <2> QED
    BY <2>1, <2>2, <1>1, <1>3
<1>7. CASE PollRevision
  <2>1. stack[Place(index)] \in Cursors \cup {None}
    BY <1>1, <1>7, CursorAt DEF PollRevision
  <2>2. flight' = Request("poll", stack[Place(index)], filter)
    BY <1>7 DEF PollRevision
  <2> QED
    BY <2>1, <2>2, <1>1, RequestMade
<1>8. CASE AskDetails \/ StartExport
  <2>1. flight' = Request("details", None, filter) \/ flight' = Request("export", None, filter)
    BY <1>8 DEF AskDetails, StartExport
  <2> QED
    BY <2>1, <1>1, RequestMade
<1>9. CASE ExportArrives
  <2>1. flight # None /\ flight.answer # None /\ export # None
    BY <1>9 DEF ExportArrives, Arrives, Flags, Asked
  <2>2. export.filter \in DOMAIN Filters /\ answer.next \in Cursors \cup {None}
    BY <2>1, AnswerParts DEF TypeOK, ExportsType, Exports
  <2>3. flight' = Request("export", answer.next, export.filter) \/ flight' = None
    BY <1>9 DEF ExportArrives
  <2> QED
    BY <2>2, <2>3, RequestMade
<1>10. CASE flight' = None \/ UNCHANGED flight
  BY <1>1, <1>10
<1> QED
  BY <1>2, <1>4, <1>5, <1>6, <1>7, <1>8, <1>9, <1>10 DEF Next, vars, Change, Restart, Deliver,
     PageFails, PageExhausts, PageEmpty, PageArrives, PollArrives, DetailsArrive, ExportFails, Landed

\* Every step keeps the types.
LEMMA TypeStep == TypeOK /\ Flags /\ [Next]_vars => TypeOK'
<1> SUFFICES ASSUME TypeOK, Flags, [Next]_vars PROVE TypeOK'
  OBVIOUS
<1>1. PaneType'
  <2>1. CASE UNCHANGED pane
    <3>1. /\ filter \in DOMAIN Filters /\ stack \in Seq(Cursors \cup {None}) /\ index \in Int
          /\ index < Len(stack) /\ next \in Cursors \cup {None} /\ page \in Pages \cup {None}
          /\ banner \in {"", "none", "changed", "unavailable"}
      BY DEF TypeOK, PaneType
    <3>2. requestActive \in BOOLEAN /\ disturbed \in BOOLEAN
      BY DEF TypeOK, PaneType
    <3> QED
      BY <3>1, <3>2, <2>1 DEF pane, PaneType
  <2>2. \/ SetFilter \/ Refresh \/ NextPage \/ PreviousPage \/ Deliver \/ UNCHANGED pane
    BY Zenon DEF Next, vars, Change, Restart, Serve, ServeFails, Answered, PollRevision, AskDetails,
       StartExport
  <2> QED
    BY <2>1, <2>2, PaneTypeKeys, PaneTypeAnswers
<1> QED
  BY <1>1, DatabaseTypeStep, ExportsTypeStep, CountersStep, RequestStep DEF TypeOK, FlightType

-----------------------------------------------------------------------------
(* Flags.                                                                   *)

\* A page is asked for only when no request is on its way; otherwise the request
\* that was on its way stays as it was.
LEMMA PageRequest ==
    ASSUME TypeOK, Flags, NEW cursor \in Cursors \cup {None}, NEW f \in DOMAIN Filters,
           NEW reset \in BOOLEAN, RequestPage(cursor, f, reset)
    PROVE  \/ /\ flight # None /\ flight' = flight /\ (requestActive' <=> requestActive)
           \/ /\ flight = None /\ ~requestActive /\ requestActive' /\ flight' # None
              /\ flight'.kind = "page" /\ flight'.cursor = cursor /\ flight'.filter = f
              /\ flight'.answer = None
<1>1. CASE requestActive \/ flight # None
  <2>1. flight # None
    BY <1>1, Zenon DEF Flags, Asked
  <2>2. flight' = flight /\ requestActive' = requestActive
    BY <1>1 DEF RequestPage
  <2> QED
    BY <2>1, <2>2, Zenon
<1>2. CASE ~(requestActive \/ flight # None)
  <2>1. flight' = Request("page", cursor, f) /\ requestActive' = TRUE
    BY <1>2 DEF RequestPage
  <2>2. /\ flight' # None /\ flight'.kind = "page" /\ flight'.cursor = cursor
        /\ flight'.filter = f /\ flight'.answer = None
    BY <2>1, RequestMade
  <2>3. flight = None /\ ~requestActive /\ requestActive'
    BY <1>2, <2>1, Zenon
  <2> QED
    BY <2>2, <2>3
<1> QED
  BY <1>1, <1>2

\* The four keys ask for a page at a cursor, under the filter that the pane has
\* from then on.
LEMMA KeysAsk ==
    ASSUME TypeOK, SetFilter \/ Refresh \/ NextPage \/ PreviousPage
    PROVE  \E c \in Cursors \cup {None}, reset \in BOOLEAN :
               filter' \in DOMAIN Filters /\ RequestPage(c, filter', reset)
<1>1. filter \in DOMAIN Filters /\ next \in Cursors \cup {None} /\ index \in Int
  BY DEF TypeOK, PaneType
<1>2. CASE SetFilter \/ Refresh
  <2>1. PICK f \in DOMAIN Filters : RequestPage(None, f, TRUE) /\ filter' = f
    BY <1>1, <1>2 DEF SetFilter, Refresh, Reload
  <2> QED
    BY <2>1
<1>3. CASE NextPage
  <2> DEFINE c == IF index + 1 >= Len(stack) THEN next ELSE stack[Place(index + 1)]
  <2>1. c \in Cursors \cup {None}
    BY <1>1, <1>3, CursorAt DEF NextPage
  <2>2. RequestPage(c, filter, FALSE) /\ filter' = filter
    BY <1>3 DEF NextPage
  <2> QED
    BY <2>1, <2>2, <1>1
<1>4. CASE PreviousPage
  <2> DEFINE c == stack[Place(index - 1)]
  <2>1. c \in Cursors \cup {None}
    BY <1>1, <1>4, CursorAt DEF PreviousPage
  <2>2. RequestPage(c, filter, FALSE) /\ filter' = filter
    BY <1>4 DEF PreviousPage
  <2> QED
    BY <2>1, <2>2, <1>1
<1> QED
  BY <1>2, <1>3, <1>4

\* Each flag is set with its request and taken back with its answer.
LEMMA FlagsStep == TypeOK /\ Flags /\ [Next]_vars => Flags'
<1> SUFFICES ASSUME TypeOK, Flags, [Next]_vars PROVE Flags'
  OBVIOUS
<1>1. /\ requestActive <=> Asked("page")
      /\ export # None <=> Asked("export")
      /\ Served /\ flight.answer.next # None => flight.answer.next.rank > RankOf(flight.cursor)
  BY Zenon DEF Flags
<1>2. CASE UNCHANGED <<requestActive, export, flight>>
  BY <1>1, <1>2, Zenon DEF Flags, Asked, Served
<1>3. CASE Serve \/ ServeFails
  <2> DEFINE c == flight.cursor
             f == flight.filter
             n == SizeOf(flight.kind)
  <2>1. PICK result \in Answers : Answered(result) /\ (result = Failure \/ result \in ListQueue(c, f, n))
    BY <1>3, Answering
  <2>2. /\ flight # None /\ flight' # None /\ flight'.kind = flight.kind
        /\ flight'.cursor = flight.cursor /\ flight'.answer = result
    BY <2>1, AnsweredRequest
  <2>3. UNCHANGED <<requestActive, export>>
    BY <2>1 DEF Answered, pane, exports
  <2>4. Asked("page")' <=> Asked("page")
    BY <2>2 DEF Asked
  <2>5. Asked("export")' <=> Asked("export")
    BY <2>2 DEF Asked
  <2>6. ASSUME result.ok, result.next # None PROVE result.next.rank > RankOf(c)
    <3>1. result \in ListQueue(c, f, n)
      BY <2>1, <2>6 DEF Failure
    <3>2. c \in Cursors \cup {None} /\ f \in DOMAIN Filters /\ n \in Nat \ {0}
      BY <2>2, FlightParts, ConstantsAssumption DEF SizeOf
    <3> HIDE DEF c, f, n
    <3> QED
      BY <3>1, <3>2, <2>6, AnswersOf DEF TypeOK
  <2>7. Served' /\ (flight.answer.next # None)'
            => flight'.answer.next.rank > RankOf(flight'.cursor)
    BY <2>2, <2>6 DEF Served
  <2> QED
    BY <2>3, <2>4, <2>5, <2>7, <1>1, Zenon DEF Flags
<1>4. CASE SetFilter \/ Refresh \/ NextPage \/ PreviousPage
  <2>1. PICK c \in Cursors \cup {None}, reset \in BOOLEAN :
            filter' \in DOMAIN Filters /\ RequestPage(c, filter', reset)
    BY <1>4, KeysAsk
  <2>2. export' = export
    BY <2>1 DEF RequestPage, exports
  <2> DEFINE f == filter'
  <2>3. f \in DOMAIN Filters /\ RequestPage(c, f, reset)
    BY <2>1
  <2> HIDE DEF f
  <2>4. \/ /\ flight # None /\ flight' = flight /\ (requestActive' <=> requestActive)
        \/ /\ flight = None /\ ~requestActive /\ requestActive' /\ flight' # None
           /\ flight'.kind = "page" /\ flight'.answer = None
    BY <2>3, PageRequest
  <2>5. CASE flight' = flight /\ (requestActive' <=> requestActive)
    BY <2>2, <2>5, <1>1, Zenon DEF Flags, Asked, Served
  <2>6. CASE /\ flight = None /\ requestActive' /\ flight' # None
             /\ flight'.kind = "page" /\ flight'.answer = None
    <3>1. Asked("page")' /\ ~Asked("export")' /\ ~Served' /\ ~Asked("export")
      BY <2>6 DEF Asked, Served
    <3> QED
      BY <3>1, <2>2, <2>6, <1>1, Zenon DEF Flags
  <2> QED
    BY <2>4, <2>5, <2>6
<1>5. CASE PollRevision \/ AskDetails
  <2>1. flight = None /\ UNCHANGED <<requestActive, export>>
    BY <1>5 DEF PollRevision, AskDetails, pane, exports
  <2>2. flight' # None /\ flight'.kind \in {"poll", "details"} /\ flight'.answer = None
    <3>1. flight' = Request("details", None, filter)
          \/ (flight' = Request("poll", stack[Place(index)], filter) /\ Listed(index))
      BY <1>5 DEF PollRevision, AskDetails
    <3>2. filter \in DOMAIN Filters /\ index \in Int
      BY DEF TypeOK, PaneType
    <3> QED
      BY <3>1, <3>2, CursorAt, RequestMade
  <2>3. ~Asked("page") /\ ~Asked("export") /\ ~Asked("page")' /\ ~Asked("export")' /\ ~Served'
    BY <2>1, <2>2 DEF Asked, Served
  <2> QED
    BY <2>1, <2>3, <1>1, Zenon DEF Flags
<1>6. CASE StartExport
  <2>1. flight = None /\ UNCHANGED requestActive /\ export' # None
    <3>1. export' = [filter |-> filter, rows |-> <<>>] /\ <<>> \in Seq(Ranks)
      BY <1>6 DEF StartExport
    <3>2. filter \in DOMAIN Filters
      BY DEF TypeOK, PaneType
    <3>3. export' \in Exports
      BY <3>1, <3>2 DEF Exports
    <3> QED
      BY <3>3, <1>6, NoneAssumption DEF StartExport, pane
  <2>2. flight' # None /\ flight'.kind = "export" /\ flight'.answer = None
    <3>1. flight' = Request("export", None, filter)
      BY <1>6 DEF StartExport
    <3>2. filter \in DOMAIN Filters
      BY DEF TypeOK, PaneType
    <3> QED
      BY <3>1, <3>2, RequestMade
  <2>3. ~Asked("page") /\ ~Asked("page")' /\ Asked("export")' /\ ~Served'
    BY <2>1, <2>2 DEF Asked, Served
  <2> QED
    BY <2>1, <2>3, <1>1, Zenon DEF Flags
<1>7. CASE PageFails \/ PageExhausts \/ PageEmpty \/ PageArrives
  <2>1. flight # None /\ flight.kind = "page" /\ flight' = None /\ ~requestActive' /\ UNCHANGED export
    BY <1>7 DEF PageFails, PageExhausts, PageEmpty, PageArrives, Arrives, Landed, Released, exports
  <2>2. ~Asked("export") /\ ~Asked("page")' /\ ~Asked("export")' /\ ~Served'
    BY <2>1 DEF Asked, Served
  <2> QED
    BY <2>1, <2>2, <1>1, Zenon DEF Flags
<1>8. CASE PollArrives \/ DetailsArrive
  <2>1. flight # None /\ flight.kind \in {"poll", "details"} /\ flight' = None
        /\ UNCHANGED <<requestActive, export>>
    BY <1>8 DEF PollArrives, DetailsArrive, Arrives, Landed, exports, pane
  <2>2. ~Asked("page") /\ ~Asked("export") /\ ~Asked("page")' /\ ~Asked("export")' /\ ~Served'
    BY <2>1 DEF Asked, Served
  <2> QED
    BY <2>1, <2>2, <1>1, Zenon DEF Flags
<1>9. CASE ExportFails
  <2>1. flight # None /\ flight.kind = "export" /\ flight' = None /\ export' = None
        /\ UNCHANGED requestActive
    BY <1>9 DEF ExportFails, Arrives, Landed, pane
  <2>2. ~Asked("page") /\ ~Asked("page")' /\ ~Asked("export")' /\ ~Served'
    BY <2>1 DEF Asked, Served
  <2> QED
    BY <2>1, <2>2, <1>1, Zenon DEF Flags
<1>10. CASE ExportArrives
  <2>1. flight # None /\ flight.kind = "export" /\ flight.answer # None /\ UNCHANGED requestActive
    BY <1>10 DEF ExportArrives, Arrives, pane
  <2>2. ~Asked("page")
    BY <2>1 DEF Asked
  <2>3. CASE answer.next = None
    <3>1. flight' = None /\ export' = None
      BY <1>10, <2>3 DEF ExportArrives
    <3>2. ~Asked("page")' /\ ~Asked("export")' /\ ~Served'
      BY <3>1 DEF Asked, Served
    <3> QED
      BY <2>1, <2>2, <3>1, <3>2, <1>1, Zenon DEF Flags
  <2>4. CASE answer.next # None
    <3>1. flight' = Request("export", answer.next, export.filter)
          /\ export' = [export EXCEPT !.rows = export.rows \o answer.rows]
      BY <1>10, <2>4 DEF ExportArrives
    <3>2. export # None
      BY <2>1, <1>1 DEF Asked
    <3>3. export \in Exports /\ export.filter \in DOMAIN Filters
      BY <3>2 DEF TypeOK, ExportsType, Exports
    <3>4. flight' # None /\ flight'.kind = "export" /\ flight'.answer = None
      <4>1. answer.next \in Cursors \cup {None}
        BY <2>1, AnswerParts
      <4> QED
        BY <4>1, <3>1, <3>3, RequestMade
    <3>5. export' # None
      <4>1. export.rows \o answer.rows \in Seq(Ranks)
        BY <3>3, <2>1, AnswerParts DEF Exports
      <4>2. export' \in Exports
        BY <4>1, <3>1, <3>3 DEF Exports
      <4> QED
        BY <4>2, NoneAssumption
    <3>6. ~Asked("page")' /\ Asked("export")' /\ ~Served'
      BY <3>4 DEF Asked, Served
    <3> QED
      BY <2>1, <2>2, <3>5, <3>6, <1>1, Zenon DEF Flags
  <2> QED
    BY <2>3, <2>4
<1> QED
  BY <1>2, <1>3, <1>4, <1>5, <1>6, <1>7, <1>8, <1>9, <1>10, Zenon DEF Next, vars, Change, Restart,
     Deliver, pane, exports

-----------------------------------------------------------------------------
(* Exports.                                                                 *)

\* A revision, once committed, keeps its table.
LEMMA TablesStay ==
    ASSUME TypeOK, [Next]_vars
    PROVE  /\ Revision \in Nat /\ Revision' \in Nat /\ Revision <= Revision'
           /\ \A r \in 0..Revision : tables'[r + 1] = tables[r + 1]
<1>1. tables \in Seq(Tables) /\ Len(tables) >= 1
  BY DEF TypeOK, DatabaseType
<1>2. tables' = tables \/ \E t : tables' = Append(tables, t)
  BY Zenon DEF Next, vars, database, Change, Restart, Serve, ServeFails, Answered, SetFilter, Refresh,
     Reload, NextPage, PreviousPage, RequestPage, PollRevision, AskDetails, StartExport, Deliver,
     PageFails, PageExhausts, PageEmpty, PageArrives, PollArrives, DetailsArrive, ExportFails,
     ExportArrives, Landed
<1>3. CASE tables' = tables
  BY <1>1, <1>3 DEF Revision
<1>4. ASSUME NEW t, tables' = Append(tables, t)
      PROVE  /\ Revision \in Nat /\ Revision' \in Nat /\ Revision <= Revision'
             /\ \A r \in 0..Revision : tables'[r + 1] = tables[r + 1]
  <2>1. Len(tables') = Len(tables) + 1
    BY <1>1, <1>4
  <2>2. \A k \in 1..Len(tables) : tables'[k] = tables[k]
    BY <1>1, <1>4
  <2> QED
    BY <2>1, <2>2, <1>1 DEF Revision
<1> QED
  BY <1>2, <1>3, <1>4

\* A report that stays as it is stays whole.
LEMMA ReportStays ==
    ASSUME TypeOK, [Next]_vars, Exporting, ExportWhole, exported' = exported
    PROVE  (exported # None => exported.revision <= Revision)' /\ ExportWhole'
<1>1. CASE exported = None
  BY <1>1 DEF ExportWhole
<1>2. CASE exported # None
  <2>1. exported.revision \in 0..Revision
    BY <1>2, TablesStay DEF TypeOK, ExportsType, Reports, Exporting
  <2>2. tables'[exported.revision + 1] = tables[exported.revision + 1]
    BY <2>1, TablesStay
  <2>3. exported.revision <= Revision'
    BY <2>1, TablesStay
  <2>4. /\ InOrder(exported.rows)
        /\ Range(exported.rows) = Matching(tables[exported.revision + 1], exported.filter)
    BY <1>2 DEF ExportWhole
  <2>5. ExportWhole'
    BY <2>2, <2>4 DEF ExportWhole
  <2> QED
    BY <2>3, <2>5
<1> QED
  BY <1>1, <1>2

\* An export that waits, with the request it made, keeps what it has collected.
LEMMA CollectedStays ==
    ASSUME TypeOK, [Next]_vars, Asked("export"), Collected, export' = export,
           flight'.cursor = flight.cursor, flight'.filter = flight.filter
    PROVE  Collected'
<1>1. CASE flight.cursor = None
  BY <1>1 DEF Collected
<1>2. CASE flight.cursor # None
  <2>1. flight.cursor.revision \in 0..Revision
    BY <1>2, FlightParts, TablesStay DEF Asked, Collected, Cursors
  <2>2. tables'[flight.cursor.revision + 1] = tables[flight.cursor.revision + 1]
    BY <2>1, TablesStay
  <2>3. flight'.cursor.revision <= Revision'
    BY <2>1, TablesStay
  <2> QED
    BY <2>2, <2>3, <1>2 DEF Collected
<1> QED
  BY <1>1, <1>2

\* An answer that waits keeps what it adds.
LEMMA AddedStays ==
    ASSUME TypeOK, [Next]_vars, Served, Added, flight' = flight
    PROVE  Added'
<1>1. flight.answer.revision \in 0..Revision
  BY AnswerParts, TablesStay DEF Served, Added, answer
<1>2. tables'[flight.answer.revision + 1] = tables[flight.answer.revision + 1]
  BY <1>1, TablesStay
<1>3. flight'.answer.revision <= Revision'
  BY <1>1, TablesStay
<1>4. Rest(flight.answer.revision, flight.filter, flight.cursor)'
      = Rest(flight.answer.revision, flight.filter, flight.cursor)
  BY <1>2 DEF Rest
<1> QED
  BY <1>3, <1>4 DEF Added

\* The first rows of an export: its cursor is none, and it has collected nothing.
LEMMA ExportStarts == TypeOK /\ StartExport => Collected' /\ ~Served' /\ exported' = exported
<1> SUFFICES ASSUME TypeOK, StartExport PROVE Collected' /\ ~Served' /\ exported' = exported
  OBVIOUS
<1>1. filter \in DOMAIN Filters
  BY DEF TypeOK, PaneType
<1>2. flight' = Request("export", None, filter) /\ export' = [filter |-> filter, rows |-> <<>>]
      /\ exported' = exported
  BY DEF StartExport
<1>3. flight'.filter = filter /\ flight'.cursor = None /\ flight'.answer = None
  BY <1>1, <1>2, RequestMade
<1>4. export'.filter = filter /\ export'.rows = <<>> /\ InOrder(<<>>)
  BY <1>2 DEF InOrder
<1> QED
  BY <1>2, <1>3, <1>4 DEF Collected, Served

\* What an export holds with the rows of an answer: all that matches up to the
\* cursor to go on, or all there is, in the revision of the answer.
LEMMA ExportGrows ==
    ASSUME TypeOK, Flags, Asked("export"), Served, Collected, Added
    PROVE  /\ export.rows \o answer.rows \in Seq(Ranks) /\ InOrder(export.rows \o answer.rows)
           /\ Range(export.rows \o answer.rows) =
                  Upto(Matching(tables[answer.revision + 1], export.filter), answer.next)
<1> DEFINE a == export.rows
           b == answer.rows
           c == flight.cursor
           n == answer.next
           S == Matching(tables[answer.revision + 1], export.filter)
<1>1. export # None /\ flight # None /\ flight.answer # None /\ answer = flight.answer
  BY AnswerParts DEF Served, Flags
<1>2. a \in Seq(Ranks) /\ b \in Seq(Ranks)
  BY <1>1, AnswerParts DEF TypeOK, ExportsType, Exports
<1>3. S \subseteq Nat \ {0}
  BY RankNumbers, MatchingRanks
<1>4. InOrder(a) /\ InOrder(b)
  BY <1>1 DEF Collected, Added
<1>5. Range(b) = Upto({i \in S : i > RankOf(c)}, n)
  BY <1>1 DEF Collected, Added, Rest
<1>6. c = None => Range(a) = {}
  BY DEF Collected, Range
<1>7. c # None => c \in Cursors /\ c.rank \in Nat /\ RankOf(c) = c.rank /\ Range(a) = Upto(S, c)
  BY <1>1, FlightParts, RankNumbers DEF Collected, Added, Cursors, RankOf
<1>8. n # None => n \in Cursors /\ n.rank \in Nat /\ n.rank > RankOf(c)
  BY <1>1, AnswerParts, RankNumbers DEF Flags, Cursors
<1> HIDE DEF a, b, c, n, S
<1>9. \A i \in Range(a), j \in Range(b) : i < j
  <2>1. CASE c = None
    BY <2>1, <1>6
  <2>2. CASE c # None
    <3> SUFFICES ASSUME NEW i \in Range(a), NEW j \in Range(b) PROVE i < j
      OBVIOUS
    <3>1. i \in S /\ i <= c.rank
      BY <2>2, <1>7 DEF Upto
    <3>2. j \in S /\ j > c.rank
      BY <2>2, <1>5, <1>7 DEF Upto
    <3> QED
      BY <3>1, <3>2, <2>2, <1>3, <1>7
  <2> QED
    BY <2>1, <2>2
<1>10. InOrder(a \o b)
  BY <1>2, <1>4, <1>9, OrderOfConcat
<1>11. Range(a \o b) = Range(a) \cup Range(b)
  BY <1>2, RangeOfConcat
<1>12. Range(a) \cup Range(b) = Upto(S, n)
  <2>1. CASE c = None
    <3>1. {i \in S : i > RankOf(c)} = S
      <4>1. RankOf(c) = 0
        BY <2>1 DEF RankOf
      <4>2. \A i \in S : i > 0
        BY <1>3
      <4> QED
        BY <4>1, <4>2
    <3> QED
      BY <3>1, <2>1, <1>5, <1>6
  <2>2. CASE c # None
    <3>1. Range(a) = {i \in S : i <= c.rank}
      BY <2>2, <1>7 DEF Upto
    <3>2. Range(b) = {i \in S : i > c.rank /\ (n # None => i <= n.rank)}
      BY <2>2, <1>5, <1>7 DEF Upto
    <3>3. \A i \in S : (i <= c.rank \/ (i > c.rank /\ (n # None => i <= n.rank)))
                       <=> (n # None => i <= n.rank)
      BY <2>2, <1>3, <1>7, <1>8
    <3>4. Upto(S, n) = {i \in S : n # None => i <= n.rank}
      BY DEF Upto
    <3> QED
      BY <3>1, <3>2, <3>3, <3>4
  <2> QED
    BY <2>1, <2>2
<1>13. a \o b \in Seq(Ranks)
  BY <1>2
<1> QED
  BY <1>10, <1>11, <1>12, <1>13 DEF a, b, n, S

\* The service answers an export from one revision.
LEMMA ServedExport ==
    ASSUME TypeOK, [Next]_vars, Asked("export"), Collected, Serve \/ ServeFails
    PROVE  Collected' /\ (Served' => Added')
<1> DEFINE c == flight.cursor
           f == flight.filter
           n == SizeOf(flight.kind)
<1>1. PICK result \in Answers : Answered(result) /\ (result = Failure \/ result \in ListQueue(c, f, n))
  BY Answering
<1>2. /\ flight # None /\ flight' # None /\ flight'.filter = f
      /\ flight'.cursor = c /\ flight'.answer = result
  BY <1>1, AnsweredRequest
<1>3. UNCHANGED <<tables, export>>
  BY <1>1 DEF Answered, database, exports
<1>4. Collected'
  BY <1>2, <1>3, CollectedStays
<1>5. ASSUME Served' PROVE Added'
  <2>1. result.ok
    BY <1>2, <1>5 DEF Served
  <2>2. result \in ListQueue(c, f, n)
    BY <1>1, <2>1 DEF Failure
  <2>3. c \in Cursors \cup {None} /\ f \in DOMAIN Filters /\ n \in Nat \ {0}
    BY <1>2, FlightParts, ConstantsAssumption DEF SizeOf
  <2> HIDE DEF c, f, n
  <2>4. /\ result.revision = Revision
        /\ c # None => c.revision = Revision
        /\ result.next # None => result.next.revision = Revision
        /\ InOrder(result.rows)
        /\ Range(result.rows) = Upto(Rest(Revision, f, c), result.next)
    BY <2>1, <2>2, <2>3, AnswersOf DEF TypeOK
  <2>5. Revision' = Revision /\ Revision \in Nat /\ Rest(Revision, f, c)' = Rest(Revision, f, c)
    BY <1>2, <1>3, LastTable DEF Revision, Rest, c, f, TypeOK
  <2>6. /\ flight'.answer.revision <= Revision'
        /\ flight'.cursor # None => flight'.answer.revision = flight'.cursor.revision
        /\ flight'.answer.next # None => flight'.answer.next.revision = flight'.answer.revision
        /\ InOrder(flight'.answer.rows)
    BY <2>4, <2>5, <1>2
  <2>7. Rest(flight.answer.revision, flight.filter, flight.cursor)' = Rest(Revision, f, c)
    BY <2>4, <1>2, <1>3 DEF Rest
  <2>8. Range(flight'.answer.rows)
        = Upto(Rest(flight.answer.revision, flight.filter, flight.cursor)', flight'.answer.next)
    BY <2>4, <2>7, <1>2
  <2> QED
    BY <2>6, <2>8 DEF Added
<1> QED
  BY <1>4, <1>5

\* An answer that reaches the export is added to it, or ends it with a report.
LEMMA ExportingArrives ==
    TypeOK /\ Flags /\ Exporting /\ ExportWhole /\ [Next]_vars /\ ExportArrives
        => Exporting' /\ ExportWhole'
<1> SUFFICES ASSUME TypeOK, Flags, Exporting, ExportWhole, [Next]_vars, ExportArrives
             PROVE  Exporting' /\ ExportWhole'
  OBVIOUS
<1>1. /\ flight # None /\ flight.kind = "export" /\ flight.answer # None /\ answer = flight.answer
      /\ answer.ok /\ export # None /\ UNCHANGED tables
  BY DEF ExportArrives, Arrives, Flags, Asked, database, answer
<1>2. Asked("export") /\ Served /\ Collected /\ Added
  BY <1>1 DEF Asked, Served, Exporting
<1> DEFINE rows == export.rows \o answer.rows
<1>3. /\ InOrder(rows)
      /\ Range(rows) = Upto(Matching(tables[answer.revision + 1], export.filter), answer.next)
  BY <1>2, ExportGrows
<1> HIDE DEF rows
<1>4. /\ answer.revision <= Revision /\ Revision' = Revision /\ answer.next \in Cursors \cup {None}
      /\ export \in Exports /\ export.filter \in DOMAIN Filters
      /\ answer.next # None => answer.next.revision = answer.revision
  BY <1>1, <1>2, AnswerParts DEF Added, Revision, TypeOK, ExportsType, Exports
<1>5. CASE answer.next = None
  <2>1. flight' = None
        /\ exported' = [filter |-> export.filter, rows |-> rows, revision |-> answer.revision]
    BY <1>5 DEF ExportArrives, rows
  <2>2. exported'.filter = export.filter /\ exported'.rows = rows
        /\ exported'.revision = answer.revision
    BY <2>1
  <2>3. Range(rows) = Matching(tables'[exported'.revision + 1], exported'.filter)
    BY <2>2, <1>1, <1>3, <1>5 DEF Upto
  <2>4. ExportWhole'
    BY <2>2, <2>3, <1>3 DEF ExportWhole
  <2>5. ~Asked("export")'
    BY <2>1 DEF Asked
  <2>6. exported'.revision <= Revision'
    BY <2>2, <1>4
  <2> QED
    BY <2>4, <2>5, <2>6 DEF Exporting
<1>6. CASE answer.next # None
  <2>1. /\ export' = [export EXCEPT !.rows = rows] /\ exported' = exported
        /\ flight' = Request("export", answer.next, export.filter)
    BY <1>6 DEF ExportArrives, rows
  <2>2. /\ flight'.cursor = answer.next /\ flight'.filter = export.filter /\ flight'.answer = None
        /\ export'.filter = export.filter /\ export'.rows = rows
    BY <2>1, <1>4, RequestMade DEF Exports
  <2>3. Range(rows) = Upto(Matching(tables'[flight'.cursor.revision + 1], export'.filter),
                           flight'.cursor)
    BY <2>2, <1>1, <1>3, <1>4, <1>6
  <2>4. flight'.cursor.revision <= Revision'
    BY <2>2, <1>4, <1>6
  <2>5. Collected'
    BY <2>2, <2>3, <2>4, <1>3, <1>6 DEF Collected
  <2>6. ~Served'
    BY <2>2 DEF Served
  <2> QED
    BY <2>1, <2>5, <2>6, ReportStays DEF Exporting
<1> QED
  BY <1>5, <1>6

\* Every step keeps the exports.
LEMMA ExportingStep ==
    TypeOK /\ Flags /\ Exporting /\ ExportWhole /\ [Next]_vars => Exporting' /\ ExportWhole'
<1> SUFFICES ASSUME TypeOK, Flags, Exporting, ExportWhole, [Next]_vars
             PROVE  Exporting' /\ ExportWhole'
  OBVIOUS
<1>1. ASSUME exported' = exported, Asked("export")' => Collected' /\ (Served' => Added')
      PROVE  Exporting' /\ ExportWhole'
  BY <1>1, ReportStays DEF Exporting
<1>2. CASE UNCHANGED <<flight, export, exported>>
  <2>1. Asked("export")' => Collected'
    BY <1>2, CollectedStays DEF Asked, Exporting
  <2>2. Asked("export")' /\ Served' => Added'
    BY <1>2, AddedStays DEF Asked, Served, Exporting
  <2> QED
    BY <2>1, <2>2, <1>1, <1>2
<1>3. CASE Serve \/ ServeFails
  <2>1. PICK result \in Answers : Answered(result)
    BY <1>3, Answering
  <2>2. exported' = exported /\ (Asked("export")' => Asked("export"))
    BY <2>1, AnsweredRequest DEF Answered, exports, Asked
  <2>3. Asked("export") => Collected
    BY DEF Exporting
  <2> QED
    BY <2>2, <2>3, <1>1, <1>3, ServedExport
<1>4. CASE SetFilter \/ Refresh \/ NextPage \/ PreviousPage
  <2>1. PICK c \in Cursors \cup {None}, reset \in BOOLEAN :
            filter' \in DOMAIN Filters /\ RequestPage(c, filter', reset)
    BY <1>4, KeysAsk
  <2> DEFINE f == filter'
  <2>2. f \in DOMAIN Filters /\ RequestPage(c, f, reset)
    BY <2>1
  <2> HIDE DEF f
  <2>3. UNCHANGED <<export, exported>>
    BY <2>2 DEF RequestPage, exports
  <2>4. flight' = flight \/ (flight' # None /\ flight'.kind = "page")
    BY <2>2, PageRequest
  <2> QED
    BY <2>3, <2>4, <1>1, <1>2 DEF Asked
<1>5. CASE PollRevision \/ AskDetails
  <2>1. flight'.kind \in {"poll", "details"}
    <3>1. flight' = Request("details", None, filter) \/ flight' = Request("poll", stack[Place(index)], filter)
      BY <1>5 DEF PollRevision, AskDetails
    <3> QED
      BY <3>1 DEF Request
  <2>2. exported' = exported
    BY <1>5 DEF PollRevision, AskDetails, exports
  <2> QED
    BY <2>1, <2>2, <1>1 DEF Asked
<1>6. CASE StartExport
  BY <1>1, <1>6, ExportStarts
<1>7. CASE ExportArrives
  BY <1>7, ExportingArrives
<1>8. CASE Deliver /\ ~ExportArrives
  <2>1. flight' = None /\ exported' = exported
    BY <1>8 DEF Deliver, PageFails, PageExhausts, PageEmpty, PageArrives, PollArrives,
       DetailsArrive, ExportFails, Landed, exports
  <2> QED
    BY <2>1, <1>1 DEF Asked
<1>9. Change \/ Restart \/ UNCHANGED vars => UNCHANGED <<flight, export, exported>>
  BY DEF Change, Restart, vars, exports
<1> QED
  BY <1>2, <1>3, <1>4, <1>5, <1>6, <1>7, <1>8, <1>9, Zenon DEF Next

-----------------------------------------------------------------------------
(* The place of the pane.                                                   *)

\* No cursor stands before the first rank.
LEMMA RankOfCursor ==
    ASSUME NEW c \in Cursors \cup {None}
    PROVE  RankOf(c) \in Nat /\ (c = None <=> RankOf(c) = 0)
<1>1. CASE c = None
  BY <1>1 DEF RankOf
<1>2. CASE c # None
  <2>1. c.rank \in Nat /\ c.rank # 0
    BY <1>2, RankNumbers DEF Cursors
  <2> QED
    BY <2>1, <1>2 DEF RankOf
<1> QED
  BY <1>1, <1>2

\* What the parts of the pane are, for the lemmas below.
LEMMA PaneParts ==
    ASSUME TypeOK
    PROVE  /\ filter \in DOMAIN Filters /\ stack \in Seq(Cursors \cup {None})
           /\ index \in Int /\ index < Len(stack) /\ next \in Cursors \cup {None}
           /\ MaxCursors \in Nat /\ MaxCursors >= 2
           /\ \A k \in 1..Len(stack) : stack[k] \in Cursors \cup {None} /\ RankOf(stack[k]) \in Nat
<1>1. /\ filter \in DOMAIN Filters /\ stack \in Seq(Cursors \cup {None})
      /\ index \in Int /\ index < Len(stack) /\ next \in Cursors \cup {None}
  BY DEF TypeOK, PaneType
<1>2. MaxCursors \in Nat /\ MaxCursors >= 2
  BY ConstantsAssumption
<1>3. \A k \in 1..Len(stack) : stack[k] \in Cursors \cup {None}
  BY <1>1
<1> QED
  BY <1>1, <1>2, <1>3, RankOfCursor

\* The pane stays in place as long as it is not touched and the page on its way
\* stays the same request.
LEMMA PlaceStays ==
    ASSUME InPlace, UNCHANGED <<filter, stack, index, next, page, requestActive>>,
           requestActive => flight'.cursor = flight.cursor /\ flight'.filter = flight.filter
    PROVE  InPlace'
<1>1. index' >= 0 /\ Forwards'
  BY DEF InPlace, Forwards
<1>2. Awaiting'
  BY DEF InPlace, Awaiting
<1>3. Showing'
  BY DEF InPlace, Showing
<1>4. Room'
  BY DEF InPlace, Room
<1> QED
  BY <1>1, <1>2, <1>3, <1>4 DEF InPlace

\* From the first page, with the cursors reset, the pane is in place.
LEMMA PlaceReset ==
    ASSUME TypeOK, Flags, NEW f \in DOMAIN Filters, Reload(f), ~disturbed' PROVE InPlace'
<1>1. /\ filter' = f /\ index' = 0 /\ next' = None /\ stack' = <<None>>
      /\ RequestPage(None, f, TRUE)
  BY DEF Reload
<1>2. ~Lost(f, TRUE)
  BY <1>1, Zenon DEF RequestPage
<1>3. requestActive' /\ flight'.cursor = None /\ flight'.filter = f
  <2>1. CASE requestActive
    <3>1. flight # None /\ flight.cursor = None /\ flight.filter = f
      BY <2>1, <1>2, Zenon DEF Lost
    <3> QED
      BY <3>1, <2>1, <1>1, PageRequest
  <2>2. CASE ~requestActive
    <3>1. flight = None
      BY <2>2, <1>2, Zenon DEF Lost
    <3> QED
      BY <3>1, <2>2, <1>1, PageRequest
  <2> QED
    BY <2>1, <2>2
<1>4. Len(stack') = 1 /\ stack'[1] = None /\ 1 <= MaxCursors
  BY <1>1, ListOfOne, PaneParts
<1>5. Forwards'
  BY <1>1 DEF Forwards
<1>6. Awaiting'
  BY <1>1, <1>3, <1>4 DEF Awaiting
<1>7. Showing'
  BY <1>3, Zenon DEF Showing
<1>8. Room'
  BY <1>4 DEF Room
<1> QED
  BY <1>1, <1>5, <1>6, <1>7, <1>8 DEF InPlace

\* A page that is asked for without losing its place is asked for at once.
LEMMA PlaceAsked ==
    ASSUME TypeOK, Flags, NEW c \in Cursors \cup {None}, NEW f \in DOMAIN Filters,
           RequestPage(c, f, FALSE), ~disturbed'
    PROVE  /\ ~disturbed /\ ~requestActive /\ requestActive'
           /\ flight'.cursor = c /\ flight'.filter = f
<1>1. ~disturbed /\ ~Lost(f, FALSE)
  BY Zenon DEF RequestPage
<1>2. ~requestActive /\ flight = None
  BY <1>1, Zenon DEF Lost
<1> QED
  BY <1>1, <1>2, PageRequest

\* PageDown goes on to a later cursor.
LEMMA PlaceNext == ASSUME TypeOK, Flags, disturbed \/ InPlace, NextPage, ~disturbed' PROVE InPlace'
<1> DEFINE c == IF index + 1 >= Len(stack) THEN next ELSE stack[Place(index + 1)]
<1>1. /\ RequestPage(c, filter, FALSE) /\ UNCHANGED <<filter, next>> /\ index' = index + 1
      /\ stack' = Pushed /\ next # None
  BY DEF NextPage
<1>2. c \in Cursors \cup {None} /\ filter \in DOMAIN Filters
  <2>1. index + 1 >= Len(stack) \/ Listed(index + 1)
    BY DEF NextPage
  <2> QED
    BY <2>1, PaneParts, CursorAt
<1>3. /\ ~disturbed /\ ~requestActive /\ requestActive'
      /\ flight'.cursor = c /\ flight'.filter = filter
  BY <1>1, <1>2, PlaceAsked
<1>4. InPlace
  BY <1>3
<1> DEFINE n == Len(stack)
<1>5. /\ index \in Nat /\ n \in Nat /\ index < n
      /\ n <= MaxCursors /\ stack \in Seq(Cursors \cup {None})
  BY <1>3, <1>4, PaneParts DEF InPlace, Room
<1>6. c = IF index + 1 >= n THEN next ELSE stack[index + 2]
  BY <1>5 DEF Place
<1>7. RankOf(stack[index + 1]) < RankOf(c)
  BY <1>1, <1>3, <1>4, <1>6 DEF InPlace, Showing
<1> HIDE DEF c
<1>8. /\ stack' \in Seq(Cursors \cup {None}) /\ stack'[index + 2] = c
      /\ \A k \in 1..n : stack'[k] = stack[k]
      /\ Len(stack') = IF index + 1 >= n THEN n + 1 ELSE n
  <2>1. CASE index + 1 >= n
    <3>1. stack' = Append(stack, next) /\ c = next /\ n + 1 = index + 2
      BY <2>1, <1>1, <1>5, <1>6 DEF Pushed
    <3>2. next \in Cursors \cup {None}
      BY PaneParts
    <3>3. /\ Append(stack, next) \in Seq(Cursors \cup {None})
          /\ Len(Append(stack, next)) = n + 1 /\ Append(stack, next)[n + 1] = next
          /\ \A k \in 1..n : Append(stack, next)[k] = stack[k]
      BY <3>2, <1>5, AppendedTo DEF n
    <3> QED
      BY <3>1, <3>3, <2>1
  <2>2. CASE ~(index + 1 >= n)
    <3>1. stack' = stack /\ c = stack[index + 2]
      BY <2>2, <1>1, <1>6 DEF Pushed
    <3> QED
      BY <3>1, <2>2, <1>5
  <2> QED
    BY <2>1, <2>2
<1> HIDE DEF n
<1>9. Forwards'
  <2> SUFFICES ASSUME NEW k \in 1..(index + 1) PROVE RankOf(stack'[k]) < RankOf(stack'[k + 1])
    BY <1>1 DEF Forwards
  <2>1. CASE k <= index
    <3>1. k \in 1..n /\ k + 1 \in 1..n /\ k \in 1..index
      BY <2>1, <1>5
    <3>2. RankOf(stack[k]) < RankOf(stack[k + 1])
      BY <3>1, <1>4 DEF InPlace, Forwards
    <3> QED
      BY <3>1, <3>2, <1>8
  <2>2. CASE k = index + 1
    <3>1. k \in 1..n /\ k + 1 = index + 2
      BY <2>2, <1>5
    <3> QED
      BY <3>1, <2>2, <1>7, <1>8
  <2> QED
    BY <2>1, <2>2, <1>5
<1>10. Awaiting'
  <2>1. index' + 1 = index + 2 /\ index' # 0
    BY <1>1, <1>5
  <2> QED
    BY <2>1, <1>1, <1>3, <1>8 DEF Awaiting
<1>11. Showing'
  BY <1>3, Zenon DEF Showing
<1>12. Room'
  <2>1. \/ Len(stack') <= MaxCursors
        \/ Len(stack') = MaxCursors + 1 /\ index' = MaxCursors
    BY <1>1, <1>5, <1>8, PaneParts
  <2> QED
    BY <2>1, <1>3, Zenon DEF Room
<1>13. index' >= 0
  BY <1>1, <1>5
<1> QED
  BY <1>9, <1>10, <1>11, <1>12, <1>13 DEF InPlace

\* PageUp goes back to the cursor before.
LEMMA PlacePrevious ==
    ASSUME TypeOK, Flags, disturbed \/ InPlace, PreviousPage, ~disturbed' PROVE InPlace'
<1> DEFINE c == stack[Place(index - 1)]
<1>1. /\ RequestPage(c, filter, FALSE) /\ UNCHANGED <<filter, stack, next>> /\ index' = index - 1
      /\ index # 0
  BY DEF PreviousPage
<1>2. c \in Cursors \cup {None} /\ filter \in DOMAIN Filters
  <2>1. Listed(index - 1)
    BY DEF PreviousPage
  <2> QED
    BY <2>1, PaneParts, CursorAt
<1>3. /\ ~disturbed /\ ~requestActive /\ requestActive'
      /\ flight'.cursor = c /\ flight'.filter = filter
  BY <1>1, <1>2, PlaceAsked
<1>4. InPlace
  BY <1>3
<1>5. index \in Nat \ {0} /\ index < Len(stack) /\ Len(stack) \in Nat /\ Len(stack) <= MaxCursors
  BY <1>1, <1>3, <1>4, PaneParts DEF InPlace, Room
<1>6. c = stack[index]
  BY <1>5 DEF Place
<1> HIDE DEF c
<1>7. Forwards'
  BY <1>1, <1>4, <1>5 DEF InPlace, Forwards
<1>8. Awaiting'
  <2>1. index' + 1 = index
    BY <1>1, <1>5
  <2>2. ASSUME index' = 0 PROVE stack[2] # None
    <3>1. index = 1
      BY <2>1, <2>2
    <3>2. RankOf(stack[1]) < RankOf(stack[2])
      BY <3>1, <1>4 DEF InPlace, Forwards
    <3>3. 1 \in 1..Len(stack) /\ 2 \in 1..Len(stack)
      BY <3>1, <1>5
    <3>4. RankOf(stack[1]) \in Nat /\ stack[2] \in Cursors \cup {None}
      BY <3>3, PaneParts
    <3> QED
      BY <3>2, <3>4, RankOfCursor
  <2> QED
    BY <2>1, <2>2, <1>1, <1>3, <1>6 DEF Awaiting
<1>9. Showing'
  BY <1>3, Zenon DEF Showing
<1>10. Room'
  BY <1>1, <1>5 DEF Room
<1>11. index' >= 0
  BY <1>1, <1>5
<1> QED
  BY <1>7, <1>8, <1>9, <1>10, <1>11 DEF InPlace

\* The page that was awaited is the one of the current cursor.
LEMMA PlaceAwaited ==
    ASSUME TypeOK, Flags, disturbed \/ InPlace, Asked("page"), ~disturbed
    PROVE  /\ InPlace /\ requestActive /\ index \in Nat
           /\ flight.cursor = stack[index + 1] /\ flight.filter = filter
<1>1. InPlace /\ requestActive
  BY Zenon DEF Flags
<1> QED
  BY <1>1, PaneParts DEF InPlace, Awaiting

\* An empty first page is shown as the page of the first cursor.
LEMMA PlaceEmpty == ASSUME TypeOK, Flags, disturbed \/ InPlace, PageEmpty, ~disturbed' PROVE InPlace'
<1>1. /\ UNCHANGED <<filter, stack, index, next>> /\ page' = Received
      /\ flight # None /\ flight.kind = "page" /\ flight.answer # None /\ flight.cursor = None
  BY DEF PageEmpty, Arrives
<1>2. ~disturbed /\ ~requestActive'
  BY Zenon DEF PageEmpty, Released
<1>3. /\ InPlace /\ requestActive /\ index \in Nat
      /\ stack[index + 1] = None /\ flight.filter = filter
  BY <1>1, <1>2, PlaceAwaited DEF Asked
<1>4. index = 0
  <2> SUFFICES ASSUME index # 0 PROVE FALSE
    OBVIOUS
  <2>1. index \in 1..index /\ index \in 1..Len(stack) /\ index + 1 \in 1..Len(stack)
    BY <1>3, PaneParts
  <2>2. RankOf(stack[index]) < RankOf(stack[index + 1])
    BY <2>1, <1>3 DEF InPlace, Forwards
  <2>3. RankOf(stack[index]) \in Nat /\ RankOf(stack[index + 1]) = 0
    BY <2>1, <1>3, PaneParts DEF RankOf
  <2> QED
    BY <2>2, <2>3
<1>5. page' # None /\ page'.cursor = None /\ page'.filter = filter
  <2>1. page' \in Pages
    BY <1>1, ReceivedType
  <2> QED
    BY <2>1, <1>1, <1>3, NoneAssumption DEF Received
<1>6. ASSUME next # None
      PROVE  RankOf(stack[index + 1])
                 < RankOf(IF index + 1 >= Len(stack) THEN next ELSE stack[index + 2])
  <2> DEFINE c == IF index + 1 >= Len(stack) THEN next ELSE stack[index + 2]
  <2>1. c \in Cursors \cup {None} /\ c # None
    <3>1. CASE index + 1 >= Len(stack)
      BY <3>1, <1>6, PaneParts
    <3>2. CASE ~(index + 1 >= Len(stack))
      <4>1. c = stack[2] /\ 2 \in 1..Len(stack) /\ Len(stack) >= 2
        BY <3>2, <1>4, PaneParts
      <4>2. stack[2] # None
        BY <4>1, <1>3, <1>4, <1>6 DEF InPlace, Awaiting
      <4> QED
        BY <4>1, <4>2, PaneParts
    <3> QED
      BY <3>1, <3>2
  <2> HIDE DEF c
  <2>2. RankOf(c) \in Nat /\ RankOf(c) # 0
    BY <2>1, RankOfCursor
  <2>3. RankOf(stack[index + 1]) = 0
    BY <1>3 DEF RankOf
  <2>4. RankOf(stack[index + 1]) < RankOf(c)
    BY <2>2, <2>3
  <2> QED
    BY <2>4 DEF c
<1>7. Forwards' /\ index' >= 0
  BY <1>1, <1>3 DEF InPlace, Forwards
<1>8. Awaiting'
  BY <1>2, Zenon DEF Awaiting
<1>9. Showing'
  BY <1>1, <1>3, <1>5, <1>6 DEF Showing
<1>10. Len(stack) <= MaxCursors
  BY <1>3, <1>4, PaneParts DEF InPlace, Room
<1>11. Room'
  BY <1>1, <1>10 DEF Room
<1> QED
  BY <1>7, <1>8, <1>9, <1>11 DEF InPlace

\* A page is shown at the current cursor, with the cursor to go on behind it.
LEMMA PlaceArrives ==
    ASSUME TypeOK, Flags, disturbed \/ InPlace, PageArrives, ~disturbed' PROVE InPlace'
<1> DEFINE N == Noted
           e == Excess
           n == Len(stack)
<1>1. /\ UNCHANGED filter /\ page' = Received /\ next' = answer.next /\ stack' = Kept
      /\ index' = index - e /\ answer.ok
      /\ flight # None /\ flight.kind = "page" /\ flight.answer # None
  BY DEF PageArrives, Arrives
<1>2. ~disturbed /\ ~requestActive'
  BY Zenon DEF PageArrives, Released
<1>3. /\ InPlace /\ requestActive /\ index \in Nat
      /\ flight.cursor = stack[index + 1] /\ flight.filter = filter
  BY <1>1, <1>2, PlaceAwaited DEF Asked
<1>4. /\ stack \in Seq(Cursors \cup {None}) /\ n \in Nat /\ index < n
      /\ MaxCursors \in Nat /\ MaxCursors >= 2 /\ answer.next \in Cursors \cup {None}
  BY <1>1, PaneParts, AnswerParts
<1>5. /\ N \in Seq(Cursors \cup {None}) /\ e \in Nat
      /\ Len(N) = IF index + 1 >= n THEN n + 1 ELSE n
      /\ Len(stack') = Len(N) - e
      /\ \A k \in 1..Len(stack') : stack'[k] = N[k + e]
      /\ e = IF Len(N) > MaxCursors THEN Len(N) - MaxCursors ELSE 0
  BY <1>1, KeptCursors
<1>6. N = IF index + 1 >= n THEN Append(stack, answer.next)
           ELSE [stack EXCEPT ![index + 2] = answer.next]
  <2>1. CASE index + 1 >= n
    BY <2>1 DEF Noted
  <2>2. CASE ~(index + 1 >= n)
    <3>1. Place(index + 1) = index + 2
      BY <1>3 DEF Place
    <3> QED
      BY <3>1, <2>2 DEF Noted
  <2> QED
    BY <2>1, <2>2
<1> DEFINE c == answer.next
           C == Cursors \cup {None}
<1>7. c \in C /\ stack \in Seq(C)
  BY <1>4
<1> HIDE DEF N, e, c, C
<1>8. (\A k \in 1..(index + 1) : N[k] = stack[k]) /\ N[index + 2] = c
  <2>1. CASE index + 1 >= n
    <3>1. N = Append(stack, c) /\ n = index + 1
      BY <2>1, <1>3, <1>4, <1>6 DEF c
    <3>2. N[n + 1] = c /\ \A k \in 1..n : N[k] = stack[k]
      BY <3>1, <1>7, AppendedTo
    <3>3. n + 1 = index + 2
      BY <3>1, <1>3
    <3> HIDE DEF n
    <3> QED
      BY <3>1, <3>2, <3>3
  <2>2. CASE ~(index + 1 >= n)
    <3>1. N = [stack EXCEPT ![index + 2] = c]
      BY <2>2, <1>6 DEF c
    <3>2. \A k \in 1..n : N[k] = IF k = index + 2 THEN c ELSE stack[k]
      BY <3>1, <1>7, ReplacedIn
    <3>3. index + 2 \in 1..n /\ \A k \in 1..(index + 1) : k \in 1..n /\ k # index + 2
      BY <2>2, <1>3, <1>4
    <3> HIDE DEF n
    <3> QED
      BY <3>2, <3>3
  <2> QED
    BY <2>1, <2>2
<1>9. n <= MaxCursors \/ (n = MaxCursors + 1 /\ index = MaxCursors)
  BY <1>3 DEF InPlace, Room
<1> HIDE DEF n
<1>10. /\ index' \in Nat /\ index' + 2 <= Len(stack') /\ Len(stack') <= MaxCursors
      /\ Len(stack') \in Nat
  BY <1>1, <1>3, <1>4, <1>5, <1>9
<1>11. index' = index - e /\ e \in Nat /\ index \in Nat
  BY <1>1, <1>3, <1>5
<1>12. /\ \A k \in 1..(index' + 1) : stack'[k] = stack[k + e]
      /\ stack'[index' + 2] = answer.next
  <2>1. \A k \in 1..(index' + 1) : k \in 1..Len(stack') /\ k + e \in 1..(index + 1)
    BY <1>10, <1>11
  <2>2. index' + 2 \in 1..Len(stack') /\ (index' + 2) + e = index + 2
    BY <1>10, <1>11
  <2>3. \A k \in 1..Len(stack') : stack'[k] = N[k + e]
    BY <1>5
  <2>4. \A k \in 1..(index' + 1) : stack'[k] = stack[k + e]
    BY <2>1, <2>3, <1>8
  <2>5. stack'[index' + 2] = c
    BY <2>2, <2>3, <1>8
  <2> QED
    BY <2>4, <2>5 DEF c
<1>13. Forwards'
  <2> SUFFICES ASSUME NEW k \in 1..index' PROVE RankOf(stack'[k]) < RankOf(stack'[k + 1])
    BY DEF Forwards
  <2>1. /\ k \in 1..(index' + 1) /\ k + 1 \in 1..(index' + 1) /\ k + e \in 1..index
        /\ (k + 1) + e = (k + e) + 1
    BY <1>10, <1>11
  <2>2. RankOf(stack[k + e]) < RankOf(stack[(k + e) + 1])
    BY <2>1, <1>3 DEF InPlace, Forwards
  <2> QED
    BY <2>1, <2>2, <1>12
<1>14. page' # None /\ page'.cursor = flight.cursor /\ page'.filter = filter
  <2>1. page' \in Pages
    BY <1>1, ReceivedType
  <2> QED
    BY <2>1, <1>1, <1>3, NoneAssumption DEF Received
<1>15. stack'[index' + 1] = flight.cursor
  <2>1. index' + 1 \in 1..(index' + 1) /\ (index' + 1) + e = index + 1
    BY <1>10, <1>11
  <2> QED
    BY <2>1, <1>3, <1>12
<1>16. next' # None => RankOf(stack'[index' + 1]) < RankOf(stack'[index' + 2])
  <2> SUFFICES ASSUME next' # None PROVE RankOf(flight.cursor) < RankOf(answer.next)
    BY <1>12, <1>15
  <2>1. answer.next # None /\ answer = flight.answer
    BY <1>1 DEF answer
  <2>2. answer.next.rank > RankOf(flight.cursor) /\ RankOf(answer.next) = answer.next.rank
    BY <2>1, <1>1 DEF Flags, Served, RankOf
  <2>3. RankOf(flight.cursor) \in Nat /\ RankOf(answer.next) \in Nat
    BY <1>1, <1>4, FlightParts, RankOfCursor
  <2> QED
    BY <2>2, <2>3
<1>17. Showing'
  <2>1. ~(index' + 1 >= Len(stack'))
    BY <1>10
  <2> QED
    BY <2>1, <1>1, <1>14, <1>15, <1>16 DEF Showing
<1>18. Awaiting'
  BY <1>2, Zenon DEF Awaiting
<1>19. Room' /\ index' >= 0
  BY <1>10 DEF Room
<1> QED
  BY <1>13, <1>17, <1>18, <1>19 DEF InPlace

\* Every step keeps the pane in place, or says that its place was lost.
LEMMA PlaceStep ==
    TypeOK /\ Flags /\ (disturbed \/ InPlace) /\ [Next]_vars => (disturbed \/ InPlace)'
<1> SUFFICES ASSUME TypeOK, Flags, disturbed \/ InPlace, [Next]_vars, ~disturbed' PROVE InPlace'
  OBVIOUS
<1>1. ASSUME UNCHANGED <<filter, stack, index, next, page, requestActive, disturbed>>,
             requestActive => flight'.cursor = flight.cursor /\ flight'.filter = flight.filter
      PROVE  InPlace'
  <2>1. InPlace
    BY <1>1
  <2> QED
    BY <2>1, <1>1, PlaceStays
<1>2. CASE Serve \/ ServeFails
  <2>1. PICK result \in Answers : Answered(result)
    BY <1>2, Answering
  <2>2. flight'.cursor = flight.cursor /\ flight'.filter = flight.filter /\ UNCHANGED pane
    BY <2>1, AnsweredRequest DEF Answered
  <2> QED
    BY <2>2, <1>1 DEF pane
<1>3. CASE PollRevision \/ AskDetails \/ StartExport
  <2>1. flight = None /\ UNCHANGED pane
    BY <1>3 DEF PollRevision, AskDetails, StartExport
  <2>2. ~requestActive
    BY <2>1, Zenon DEF Flags, Asked
  <2> QED
    BY <2>1, <2>2, <1>1 DEF pane
<1>4. CASE PollArrives \/ DetailsArrive \/ ExportFails \/ ExportArrives
  <2>1. flight.kind # "page"
        /\ UNCHANGED <<filter, stack, index, next, page, requestActive, disturbed>>
    BY <1>4 DEF PollArrives, DetailsArrive, ExportFails, ExportArrives, Arrives, pane
  <2>2. ~requestActive
    BY <2>1, Zenon DEF Flags, Asked
  <2> QED
    BY <2>1, <2>2, <1>1
<1>5. CASE SetFilter \/ Refresh
  <2>1. PICK f \in DOMAIN Filters : Reload(f)
    BY <1>5, PaneParts DEF SetFilter, Refresh
  <2> QED
    BY <2>1, PlaceReset
<1>6. CASE NextPage
  BY <1>6, PlaceNext
<1>7. CASE PreviousPage
  BY <1>7, PlacePrevious
<1>8. CASE PageEmpty
  BY <1>8, PlaceEmpty
<1>9. CASE PageArrives
  BY <1>9, PlaceArrives
<1>10. ~PageFails /\ ~PageExhausts
  BY Zenon DEF PageFails, PageExhausts
<1>11. CASE Change \/ Restart \/ UNCHANGED vars
  BY <1>1, <1>11 DEF Change, Restart, vars, pane
<1> QED
  BY <1>2, <1>3, <1>4, <1>5, <1>6, <1>7, <1>8, <1>9, <1>10, <1>11, Zenon DEF Next, Deliver

-----------------------------------------------------------------------------
(* The invariant and what follows from it.                                  *)

\* The first state satisfies every part of the invariant.
LEMMA InitInv == Init => Inv
<1> SUFFICES ASSUME Init PROVE Inv
  OBVIOUS
<1>1. TypeOK
  BY InitTypes
<1>2. /\ flight = Request("page", None, "all") /\ export = None /\ exported = None /\ filter = "all"
      /\ stack = <<None>> /\ index = 0 /\ next = None
  BY Zenon DEF Init
<1>3. requestActive
  BY Zenon DEF Init
<1>4. /\ flight # None /\ flight.kind = "page" /\ flight.cursor = None /\ flight.filter = "all"
      /\ flight.answer = None
  BY <1>2, ConstantsAssumption, RequestMade
<1>5. Asked("page") /\ ~Asked("export") /\ ~Served
  BY <1>4 DEF Asked, Served
<1>6. Flags
  BY <1>2, <1>3, <1>5, Zenon DEF Flags
<1>7. Exporting /\ ExportWhole
  BY <1>2, <1>5 DEF Exporting, ExportWhole
<1>8. InPlace
  <2>1. Len(stack) = 1 /\ stack[1] = None /\ 1 <= MaxCursors
    BY <1>1, <1>2, ListOfOne, PaneParts
  <2>2. Forwards
    BY <1>2 DEF Forwards
  <2>3. Awaiting
    BY <1>2, <1>4, <2>1 DEF Awaiting
  <2>4. Showing
    BY <1>3, Zenon DEF Showing
  <2>5. Room
    BY <2>1 DEF Room
  <2> QED
    BY <1>2, <2>2, <2>3, <2>4, <2>5 DEF InPlace
<1> QED
  BY <1>1, <1>6, <1>7, <1>8, Zenon DEF Inv

\* Every step preserves the invariant.
LEMMA NextInv == Inv /\ [Next]_vars => Inv'
BY TypeStep, FlagsStep, ExportingStep, PlaceStep, Zenon DEF Inv

\* The invariant holds in every reachable state, whatever the pages, the filters,
\* the keys and the failures (QueuePane, InspectionService._list_queue()).
THEOREM InvHolds == Spec => []Inv
BY InitInv, NextInv, PTL DEF Spec

\* The database, the pane, the export and the request have their types, and
\* page_index never passes the end of cursor_stack (action_next_page(), apply_page()).
THEOREM Typed == Spec => []TypeOK
<1>1. Inv => TypeOK
  BY DEF Inv
<1> QED
  BY <1>1, InvHolds, PTL

\* A finished export holds every matching row of one revision once, in queue order,
\* whatever changes between its pages (export_scan(), apply_export_page()).
THEOREM ExportsWhole == Spec => []ExportWhole
<1>1. Inv => ExportWhole
  BY DEF Inv
<1> QED
  BY <1>1, InvHolds, PTL

\* The page shown is the one page_index stands for, under the filter named above it,
\* unless a request was dropped, refused, failed or met the end (apply_page()).
THEOREM PlaceKept == Spec => []Aligned
<1>1. Inv => Aligned
  <2> SUFFICES ASSUME Inv, ~disturbed, ~requestActive
               PROVE  /\ index >= 0 /\ page.cursor = stack[Place(index)] /\ page.filter = filter
                      /\ \A k \in 1..index : RankOf(stack[k]) < RankOf(stack[k + 1])
    BY Zenon DEF Aligned
  <2>1. InPlace /\ index \in Int
    BY PaneParts DEF Inv
  <2>2. Place(index) = index + 1
    BY <2>1 DEF InPlace, Place
  <2> QED
    BY <2>1, <2>2 DEF InPlace, Forwards, Showing
<1> QED
  BY <1>1, InvHolds, PTL
==============================================================================
