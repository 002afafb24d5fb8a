-------------------------------- MODULE Queue --------------------------------
(***************************************************************************)
(* The queue of a run as an operator sees it: the pages that the           *)
(* inspection service cuts from the durable rows, and the QueuePane of the *)
(* monitor with its cursors, its revision poll and its export.             *)
(*                                                                         *)
(* The pane, the details windows and the export share one request at a     *)
(* time (submit_inspection()); a worker thread carries it, and its answer  *)
(* is applied later, whatever the operator did in the meantime. A filter   *)
(* stands for a bucket and a search text; a row is its rank, and its       *)
(* bucket, progress and selection are left out of the pages.               *)
(***************************************************************************)
EXTENDS Integers, Sequences, SequencesExt

CONSTANTS
    None,
    Items,        \* number of items selected for the run
    Filters,      \* by filter: the buckets it lets through
    Buckets,
    PageSize,     \* rows of a page on the screen
    ExportSize,   \* rows of a page of an export
    MaxCursors,   \* the cap of cursor_stack
    MaxKeys,      \* bound: keys of the operator and requests of other windows
    MaxRevision,  \* bound: committed changes
    MaxFaults     \* bound: failed requests and restarts of the controller

ASSUME ConstantsAssumption ==
    /\ {Items, PageSize, ExportSize} \subseteq Nat \ {0} /\ MaxCursors \in Nat \ {0, 1}
    /\ {MaxKeys, MaxRevision, MaxFaults} \subseteq Nat
    /\ "all" \in DOMAIN Filters

VARIABLES
    tables,         \* bucket by rank, of each revision so far; the last is the database
    session,        \* of the controller
    filter,         \* bucket and search_text of the pane
    stack,          \* cursor_stack
    index,          \* page_index
    next,           \* next_cursor
    page,           \* rows and revision, with the cursor and filter that asked for them
    requestActive,  \* request_active of the pane
    banner,
    export,         \* export_active and the rows collected, None when there is no export
    exported,       \* what the last finished export wrote
    flight,         \* the request of submit_inspection(), None if there is none
    keys, faults,
    disturbed       \* history: an answer was lost, refused or empty since the last reset

database == <<tables, session>>
pane     == <<filter, stack, index, next, page, requestActive, banner, disturbed>>
exports  == <<export, exported>>
bounds   == <<keys, faults>>
vars     == <<database, pane, exports, flight, bounds>>

Ranks    == 1..Items
Tables   == [Ranks -> Buckets]
Revision == Len(tables) - 1
Cursors  == [session : Nat, revision : Nat, filter : DOMAIN Filters, rank : Ranks]
Pages    == [rows : Seq(Ranks), revision : Nat, cursor : Cursors \cup {None},
             filter : DOMAIN Filters]
Answers  == [ok : BOOLEAN, rows : Seq(Ranks), next : Cursors \cup {None}, revision : Nat]
Requests == [kind : {"page", "poll", "details", "export"}, cursor : Cursors \cup {None},
             filter : DOMAIN Filters, answer : Answers \cup {None}]
Exports  == [filter : DOMAIN Filters, rows : Seq(Ranks)]
Reports  == [filter : DOMAIN Filters, rows : Seq(Ranks), revision : Nat]
ASSUME NoneAssumption ==
    /\ None \notin Cursors \cup Pages \cup Answers \cup Requests
    /\ None \notin Exports \cup Reports

RankOf(cursor) == IF cursor = None THEN 0 ELSE cursor.rank

\* Where cursor_stack[i] is: a negative list index counts from the end. An index
\* outside of the list raises IndexError, which ends the monitor.
Place(i)  == IF i < 0 THEN Len(stack) + i + 1 ELSE i + 1
Listed(i) == Place(i) \in DOMAIN stack

Request(kind, cursor, f) == [kind |-> kind, cursor |-> cursor, filter |-> f, answer |-> None]

\* The pane is mounted and has asked for its first page.
Init ==
    /\ \E t \in Tables : tables = <<t>>
    /\ session = 1 /\ filter = "all"
    /\ stack = <<None>> /\ index = 0 /\ next = None /\ page = None
    /\ requestActive = TRUE /\ banner = "" /\ disturbed = FALSE
    /\ export = None /\ exported = None /\ flight = Request("page", None, "all")
    /\ keys = 0 /\ faults = 0

-----------------------------------------------------------------------------
(* The controller and its inspection service.                               *)

Change ==
    /\ Revision < MaxRevision
    /\ \E i \in Ranks, b \in Buckets :
         /\ b # Last(tables)[i]
         /\ tables' = Append(tables, [Last(tables) EXCEPT ![i] = b])
    /\ UNCHANGED <<session, pane, exports, flight, bounds>>

Restart ==
    /\ faults < MaxFaults /\ faults' = faults + 1 /\ session' = session + 1
    /\ UNCHANGED <<tables, pane, exports, flight, keys>>

\* The ranks that pass filter f, and a list of the first `size` of some ranks in
\* queue order: the only one that leaves out none but later ones, when it is full.
Matching(t, f) == {i \in Ranks : t[i] \in Filters[f]}
InOrder(rows)  == \A j, k \in DOMAIN rows : j < k => rows[j] < rows[k]
Lists(S, size) ==
    {rows \in UNION {[1..n -> S] : n \in 0..size} :
        /\ InOrder(rows)
        /\ \A i \in S \ Range(rows) : Len(rows) = size /\ \A k \in DOMAIN rows : rows[k] < i}

Fault_AnyRevision(c, f) == c.session = session /\ c.filter = f
Accepts(c, f) == c.session = session /\ c.revision = Revision /\ c.filter = f

\* _list_queue(), in one read transaction: the first rows after the cursor, and a
\* cursor to go on when the page is full.
Failure == [ok |-> FALSE, rows |-> <<>>, next |-> None, revision |-> 0]
After(cursor, f) == {i \in Matching(Last(tables), f) : i > RankOf(cursor)}
Onward(rows, f, size) ==
    IF Len(rows) < size THEN None
    ELSE [session |-> session, revision |-> Revision, filter |-> f, rank |-> Last(rows)]
ListQueue(cursor, f, size) ==
    IF cursor # None /\ ~Accepts(cursor, f) THEN {Failure}
    ELSE {[ok |-> TRUE, rows |-> rows, revision |-> Revision, next |-> Onward(rows, f, size)] :
             rows \in Lists(After(cursor, f), size)}

SizeOf(kind) == IF kind = "export" THEN ExportSize ELSE PageSize
Answered(result) ==
    /\ flight # None /\ flight.answer = None
    /\ flight' = [flight EXCEPT !.answer = result]
    /\ UNCHANGED <<database, pane, exports, keys>>
Serve ==
    /\ flight # None
    /\ \E result \in ListQueue(flight.cursor, flight.filter, SizeOf(flight.kind)) : Answered(result)
    /\ UNCHANGED faults
\* The service is busy, too slow or gone.
ServeFails == faults < MaxFaults /\ Answered(Failure) /\ faults' = faults + 1

-----------------------------------------------------------------------------
(* Requests of the pane.                                                    *)

Key == keys < MaxKeys /\ keys' = keys + 1 /\ UNCHANGED faults

\* request_page(): dropped while another page is awaited, and refused at once while
\* submit_inspection() carries a request of somebody else. `reset` says that the
\* cursors were reset for it: dropped for the same first page, it loses nothing.
Lost(f, reset) ==
    IF requestActive THEN ~(reset /\ flight # None /\ flight.cursor = None /\ flight.filter = f)
    ELSE flight # None
RequestPage(cursor, f, reset) ==
    /\ IF requestActive \/ flight # None THEN UNCHANGED <<flight, requestActive>>
       ELSE flight' = Request("page", cursor, f) /\ requestActive' = TRUE
    /\ banner' = IF ~requestActive /\ flight # None THEN "unavailable" ELSE banner
    /\ disturbed' = ((disturbed /\ ~reset) \/ Lost(f, reset))
    /\ UNCHANGED <<database, page, exports>>

\* reload(reset=True); action_first_page() does the same.
Reload(f) ==
    /\ filter' = f /\ index' = 0 /\ next' = None /\ stack' = <<None>>
    /\ RequestPage(None, f, TRUE)

\* A bucket, a search text, or filters cleared: the last reloads twice, once more when
\* its Select.Changed arrives, which is a Refresh.
SetFilter == Key /\ \E f \in DOMAIN Filters : f # filter /\ Reload(f)
Refresh == Key /\ Reload(filter)

Fault_NotPushed == stack
Pushed == IF index + 1 >= Len(stack) THEN Append(stack, next) ELSE stack
NextPage ==
    /\ next # None /\ Key
    /\ index + 1 >= Len(stack) \/ Listed(index + 1)
    /\ index' = index + 1 /\ stack' = Pushed
    /\ RequestPage(IF index + 1 >= Len(stack) THEN next ELSE stack[Place(index + 1)], filter, FALSE)
    /\ UNCHANGED <<filter, next>>

PreviousPage ==
    /\ index # 0 /\ Key /\ Listed(index - 1)
    /\ index' = index - 1 /\ RequestPage(stack[Place(index - 1)], filter, FALSE)
    /\ UNCHANGED <<filter, stack, next>>

\* poll_revision(), every three seconds, with the cursor of the page shown.
PollRevision ==
    /\ ~requestActive /\ page # None /\ page.rows # <<>> /\ flight = None /\ Listed(index)
    /\ flight' = Request("poll", stack[Place(index)], filter)
    /\ UNCHANGED <<database, pane, exports, bounds>>

\* A details window asks for its record.
AskDetails ==
    /\ Key /\ flight = None /\ flight' = Request("details", None, filter)
    /\ UNCHANGED <<database, pane, exports>>

\* handle_export_destination(): an export that finds a request on its way fails.
StartExport ==
    /\ Key /\ export = None /\ flight = None
    /\ export' = [filter |-> filter, rows |-> <<>>] /\ flight' = Request("export", None, filter)
    /\ UNCHANGED <<database, pane, exported>>

-----------------------------------------------------------------------------
(* The answer reaches the pane.                                             *)

Arrives(kind) == flight # None /\ flight.kind = kind /\ flight.answer # None
answer == flight.answer
Landed == flight' = None /\ UNCHANGED <<database, bounds>>

\* apply_page() starts by taking request_active back.
Fault_KeptOnError == requestActive' = ~answer.ok
Released == requestActive' = FALSE

PageFails ==
    /\ Arrives("page") /\ ~answer.ok
    /\ Released /\ banner' = "unavailable" /\ disturbed' = TRUE
    /\ Landed /\ UNCHANGED <<filter, stack, index, next, page, exports>>

\* An empty page after a cursor: the display stays, and there is no next page.
PageExhausts ==
    /\ Arrives("page") /\ answer.ok /\ answer.rows = <<>> /\ flight.cursor # None
    /\ Released /\ next' = None /\ banner' = "" /\ disturbed' = TRUE
    /\ Landed /\ UNCHANGED <<filter, stack, index, page, exports>>

Received == [rows |-> answer.rows, revision |-> answer.revision, cursor |-> flight.cursor,
             filter |-> flight.filter]
PageEmpty ==
    /\ Arrives("page") /\ answer.ok /\ answer.rows = <<>> /\ flight.cursor = None
    /\ Released /\ page' = Received /\ banner' = "none"
    /\ Landed /\ UNCHANGED <<filter, stack, index, next, disturbed, exports>>

\* The cursor to go on is noted after the current page; the oldest cursors go.
Noted == IF index + 1 >= Len(stack) THEN Append(stack, answer.next)
         ELSE [stack EXCEPT ![Place(index + 1)] = answer.next]
Excess == IF Len(Noted) > MaxCursors THEN Len(Noted) - MaxCursors ELSE 0
Fault_DropsNewest == SubSeq(Noted, 1, Len(Noted) - Excess)
Kept == SubSeq(Noted, Excess + 1, Len(Noted))
PageArrives ==
    /\ Arrives("page") /\ answer.ok /\ answer.rows # <<>>
    /\ index + 1 >= Len(stack) \/ Listed(index + 1)
    /\ Released /\ page' = Received /\ next' = answer.next /\ banner' = ""
    /\ stack' = Kept /\ index' = index - Excess
    /\ Landed /\ UNCHANGED <<filter, disturbed, exports>>

Fault_Equal(old, new) == old = new
Differs(old, new) == old # new
PollArrives ==
    /\ Arrives("poll")
    /\ banner' = IF answer.ok /\ Differs(answer.revision, page.revision) THEN "changed" ELSE banner
    /\ Landed
    /\ UNCHANGED <<filter, stack, index, next, page, requestActive, disturbed, exports>>

DetailsArrive == Arrives("details") /\ Landed /\ UNCHANGED <<pane, exports>>

\* apply_export_page(): the next page is asked for in the same callback.
ExportFails ==
    /\ Arrives("export") /\ ~answer.ok /\ export' = None
    /\ Landed /\ UNCHANGED <<pane, exported>>
ExportArrives ==
    /\ Arrives("export") /\ answer.ok
    /\ LET rows == export.rows \o answer.rows IN
       IF answer.next # None
       THEN /\ export' = [export EXCEPT !.rows = rows]
            /\ flight' = Request("export", answer.next, export.filter)
            /\ UNCHANGED exported
       ELSE /\ export' = None /\ flight' = None
            /\ exported' = [filter |-> export.filter, rows |-> rows, revision |-> answer.revision]
    /\ UNCHANGED <<database, pane, bounds>>

Deliver ==
    \/ PageFails \/ PageExhausts \/ PageEmpty \/ PageArrives
    \/ PollArrives \/ DetailsArrive \/ ExportFails \/ ExportArrives

-----------------------------------------------------------------------------
Next ==
    \/ Change \/ Restart \/ Serve \/ ServeFails
    \/ SetFilter \/ Refresh \/ NextPage \/ PreviousPage
    \/ PollRevision \/ AskDetails \/ StartExport \/ Deliver
Spec == Init /\ [][Next]_vars
\* A request has a timeout of one second, its answer is applied, and the pane polls.
FairSpec == Spec /\ WF_vars(Serve) /\ WF_vars(Deliver) /\ WF_vars(PollRevision)

-----------------------------------------------------------------------------
(* Properties.                                                             *)

DatabaseType == tables \in Seq(Tables) /\ tables # <<>> /\ session \in Nat
PaneType ==
    /\ filter \in DOMAIN Filters
    /\ stack \in Seq(Cursors \cup {None}) /\ index \in Int /\ index < Len(stack)
    /\ next \in Cursors \cup {None} /\ page \in Pages \cup {None}
    /\ requestActive \in BOOLEAN /\ disturbed \in BOOLEAN
    /\ banner \in {"", "none", "changed", "unavailable"}
ExportsType == export \in Exports \cup {None} /\ exported \in Reports \cup {None}
FlightType  == flight \in Requests \cup {None} /\ keys \in Nat /\ faults \in Nat

\* Type invariant; page_index never passes the end of cursor_stack, however often
\* PageDown is pressed while a page is awaited (action_next_page(), apply_page()).
TypeOK == DatabaseType /\ PaneType /\ ExportsType /\ FlightType

\* A finished export holds every matching row of one revision once, in queue
\* order, although rows change and the controller restarts between its pages
\* (export_scan(), apply_export_page(), _list_queue()).
ExportWhole ==
    exported # None =>
        /\ InOrder(exported.rows)
        /\ Range(exported.rows) = Matching(tables[exported.revision + 1], exported.filter)

\* The rows shown are the page that page_index stands for, under the filter
\* named above them, and the pages before it are earlier ones: unless a request
\* was dropped or refused, failed, or met the end of the queue, and until the
\* operator starts again from the first page (request_page(), apply_page()).
Aligned ==
    ~disturbed /\ ~requestActive =>
        /\ index >= 0 /\ page.cursor = stack[Place(index)] /\ page.filter = filter
        /\ \A k \in 1..index : RankOf(stack[k]) < RankOf(stack[k + 1])

\* Every request ends and every export does: no flag stays set and blocks the
\* pane for good (submit_inspection(), apply_page(), apply_export_page()).
RequestsEnd == (requestActive ~> ~requestActive) /\ (export # None ~> export = None)

\* On the first page a change of the durable rows is announced, or the page is
\* replaced (poll_revision()).
FirstPage == page # None /\ page.rows # <<>> /\ stack[Place(index)] = None
ChangeAnnounced ==
    FirstPage /\ page.revision # Revision
        ~> banner = "changed" \/ ~FirstPage \/ page.revision = Revision
==============================================================================
