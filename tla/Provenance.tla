----------------------------- MODULE Provenance -----------------------------
(***************************************************************************)
(* The signed provenance record sets: what ProvenanceWriter.event() leaves *)
(* in events.jsonl when a write fails, falls short or is not synced, the   *)
(* order in which the controller writes events and rows, its restarts with *)
(* the same or another run ID, and the verdict of verify_provenance.       *)
(*                                                                         *)
(* A digest is the number that event() gave its record: records have a     *)
(* fresh event_id, so two of them never have one digest. Timestamps, keys  *)
(* and the fields of a response are left out, and so is everything of a    *)
(* transfer that writes no event.                                          *)
(***************************************************************************)
EXTENDS Integers, Sequences, FiniteSets, SequencesExt

CONSTANTS
    None,
    Torn,         \* a line that was cut short
    Junk,         \* a line that begins with one
    Items,        \* items of all queues
    QueueOf,      \* by run ID: the items of its queue files
    MaxSessions,  \* bound: starts of the controller
    MaxAttempts,  \* bound: attempts at any item
    MaxFaults     \* bound: failures of a write, of the database or of the process

Runs == DOMAIN QueueOf
ASSUME ItemsAssumption == IsFiniteSet(Items) /\ None \notin Items
ASSUME QueueAssumption == QueueOf \in [Runs -> SUBSET Items]
ASSUME BoundsAssumption == {MaxSessions, MaxAttempts, MaxFaults} \subseteq Nat

Sessions == 1..MaxSessions

VARIABLES
    phase,     \* of the process: "down", "starting", "running", "closing", "sealed"
    session,   \* number of the latest start; its record set is sessions[session]
    runOf,     \* by session: its run ID
    lines,     \* by session: events.jsonl
    summary,   \* by session: summary.json, None until it is written
    writer,    \* sequence, previous_digest and finalized_count of the open writer
    stopping,  \* stop_requested, or admission paused for lack of space
    row,       \* downloads.status
    final,     \* the final file exists, with the digest that was recorded
    scope,     \* run_items by run ID, None before the first start of the run
    pc,        \* by item: the next step of the thread that works on it
    attempts,  \* number of attempts so far
    faults,    \* number of failures so far
    lost,      \* history: sessions with a write that failed or fell short
    spoiled    \* history: sessions that met another failure

vars == <<phase, session, runOf, lines, summary, writer, stopping, row, final, scope, pc,
          attempts, faults, lost, spoiled>>

EventTypes == {"run_started", "attempt_finished", "finalized", "candidate_created",
               "run_closed", "local_failure"}

\* The fields that EVENT_FIELD_RULES asks of a type, as far as they matter here.
ItemEvents == {"attempt_finished", "finalized", "candidate_created"}
WellFormed(r) == /\ r.type \in EventTypes
                 /\ (r.item # None) <=> (r.type \in ItemEvents)
                 /\ (r.complete # None) <=> (r.type = "run_closed")

\* What events.jsonl, summary.json and the writer hold.
Records == [seq : Nat, prev : Nat \cup {None}, type : EventTypes, item : Items \cup {None},
            complete : Nat \cup {None}]
Lines   == Records \cup {Torn, Junk}
Summaries == [count : Nat, digest : Nat \cup {None}, finalized : Nat, complete : Nat]
Writers   == [seq : Nat, prev : Nat \cup {None}, finalized : Nat]
ASSUME NoneAssumption == /\ None \notin Nat /\ \A S \in SUBSET Items : S # None
                         /\ Torn \notin Records /\ Junk \notin Records

Phases == {"down", "starting", "running", "closing", "sealed"}
Steps  == {"idle", "attempt", "intent", "link", "finalize", "complete", "candidate",
           "review", "storage", "requeue", "failed"}
States == {"queued", "admitted", "promoting", "complete", "review_required"}

Closed == [seq |-> 0, prev |-> None, finalized |-> 0]

Init ==
    /\ phase = "down" /\ session = 0 /\ runOf = [s \in Sessions |-> None]
    /\ lines = [s \in Sessions |-> <<>>] /\ summary = [s \in Sessions |-> None]
    /\ writer = Closed /\ stopping = FALSE
    /\ row = [i \in Items |-> "queued"] /\ final = [i \in Items |-> FALSE]
    /\ scope = [r \in Runs |-> None]
    /\ pc = [i \in Items |-> "idle"]
    /\ attempts = 0 /\ faults = 0 /\ lost = {} /\ spoiled = {}

-----------------------------------------------------------------------------
(* ProvenanceWriter.event(): one call, under the writer's lock. The write   *)
(* is one unbuffered write(2) whose count is not looked at, then an fsync.  *)
(*   "ok"        the line is in the file                                    *)
(*   "short"     a part of the line is, and nobody notices                  *)
(*   "unsynced"  the line is, and fsync reports an error                    *)
(*   "error"     nothing is                                                 *)
(*   "refused"   a URL with credentials: nothing was tried                  *)

Results(type) == {"ok", "short", "unsynced", "error"}
                     \cup (IF type = "attempt_finished" THEN {"refused"} ELSE {})
Failing(result) == result \notin {"ok", "refused"}

\* The controller goes on after a call that returned.
Fault_AlwaysReturns(result) == TRUE
Returned(result) == result \in {"ok", "short"}

Record(type, item, complete) ==
    [seq |-> writer.seq + 1, prev |-> writer.prev, type |-> type, item |-> item,
     complete |-> complete]

\* events.jsonl after text was appended to it: a torn line swallows what follows.
EndsTorn(file) == file # <<>> /\ Last(file) = Torn
Extended(file, text) ==
    IF EndsTorn(file) THEN ReplaceAt(file, Len(file), IF text = Torn THEN Torn ELSE Junk)
    ELSE Append(file, text)
Appended(file, r, result) ==
    CASE result \in {"error", "refused"} -> file
      [] result = "short" -> Extended(file, Torn)
      [] OTHER -> Extended(file, r)

\* The number is taken before the write and not given back when the write fails.
Fault_GivenBack(result) == IF Returned(result) THEN writer.seq + 1 ELSE writer.seq
Fault_Decremented(result) == IF result = "refused" THEN writer.seq - 1 ELSE writer.seq + 1
Sequence(result) == IF result = "refused" THEN writer.seq ELSE writer.seq + 1

Fault_CountsCandidates(type) == type \in {"finalized", "candidate_created"}
Counted(type) == type = "finalized"
Advanced(r, result) ==
    [seq |-> Sequence(result),
     prev |-> IF Returned(result) THEN r.seq ELSE writer.prev,
     finalized |-> IF Returned(result) /\ Counted(r.type) THEN writer.finalized + 1
                   ELSE writer.finalized]

Event(type, item, complete, result) ==
    LET r == Record(type, item, complete) IN
    /\ WellFormed(r) /\ result \in Results(type)
    /\ Failing(result) => faults < MaxFaults
    /\ lines' = [lines EXCEPT ![session] = Appended(@, r, result)]
    /\ writer' = Advanced(r, result)
    /\ faults' = IF Failing(result) THEN faults + 1 ELSE faults
    /\ lost' = IF Failing(result) THEN lost \cup {session} ELSE lost
    /\ spoiled' = IF result = "refused" THEN spoiled \cup {session} ELSE spoiled
    /\ UNCHANGED attempts
NoEvent == UNCHANGED <<lines, writer, attempts, faults, lost, spoiled>>

\* provenance_event(): a failure requests the stop, and ends the caller.
Stops(result) == stopping' = (stopping \/ ~Returned(result))
Goto(i, next) == pc' = [pc EXCEPT ![i] = next]
Becomes(i, status) == row' = [row EXCEPT ![i] = status]

-----------------------------------------------------------------------------
(* A start: a new session directory, unfinished promotions of any run, the  *)
(* selection of a new run, run_started.                                     *)

Start(r) ==
    /\ phase = "down" /\ session < MaxSessions
    /\ phase' = "starting" /\ session' = session + 1
    /\ runOf' = [runOf EXCEPT ![session + 1] = r]
    /\ writer' = Closed /\ stopping' = FALSE
    /\ UNCHANGED <<lines, summary, row, final, scope, pc, attempts, faults, lost,
                   spoiled>>

Starting == phase = "starting" /\ UNCHANGED <<session, runOf, summary, scope>>
\* An exception before the main loop ends the process without a summary.
Aborts(ok) == phase' = IF ok THEN "starting" ELSE "down"

\* reconcile_promotions() is done with a row before it turns to the next one.
BetweenRows == \A i \in Items : pc[i] = "idle"

\* reconcile_promotions(): the file is there, or is linked again from staging.
Reconcile(i, result) ==
    /\ Starting /\ row[i] = "promoting" /\ BetweenRows
    /\ Event("finalized", i, None, result)
    /\ final' = [final EXCEPT ![i] = TRUE]
    /\ Goto(i, IF Returned(result) THEN "complete" ELSE "idle")
    /\ Aborts(Returned(result)) /\ Stops(result)
    /\ UNCHANGED row
ReconcileComplete(i) ==
    /\ Starting /\ pc[i] = "complete"
    /\ Becomes(i, "complete") /\ Goto(i, "idle")
    /\ NoEvent /\ UNCHANGED <<phase, stopping, final>>
ReconcileReview(i) ==
    /\ Starting /\ row[i] = "promoting" /\ BetweenRows /\ ~final[i]
    /\ Becomes(i, "review_required")
    /\ NoEvent /\ UNCHANGED <<phase, stopping, final, pc>>

\* scope_run(): only the first session of a run selects; it skips existing finals.
Selected(r) == IF scope[r] # None THEN scope[r] ELSE {i \in QueueOf[r] : ~final[i]}
Started(result) ==
    LET r == runOf[session] IN
    /\ phase = "starting" /\ \A i \in Items : row[i] # "promoting"
    /\ scope' = [scope EXCEPT ![r] = Selected(r)]
    /\ Event("run_started", None, None, result)
    /\ phase' = (IF Returned(result) THEN "running" ELSE "down") /\ Stops(result)
    /\ row' = [i \in Items |-> IF row[i] = "admitted" THEN "queued" ELSE row[i]]
    /\ UNCHANGED <<session, runOf, summary, final, pc>>

-----------------------------------------------------------------------------
(* transfer(), one thread per admitted item.                               *)

\* Nothing but the pool's own join keeps a thread from running on.
Running == /\ phase \in {"running", "closing", "sealed"}
           /\ UNCHANGED <<phase, session, runOf, summary, scope>>

Admit(i) ==
    /\ phase = "running" /\ Running /\ ~stopping /\ i \in scope[runOf[session]]
    /\ row[i] = "queued" /\ pc[i] = "idle"
    /\ attempts < MaxAttempts /\ attempts' = attempts + 1
    /\ Becomes(i, "admitted") /\ Goto(i, "attempt")
    /\ UNCHANGED <<lines, writer, stopping, final, faults, lost, spoiled>>

\* The engine is done: attempt_event(), then what the outcome calls for.
Outcomes == {"success", "retryable_failure", "validation_failed", "stopped"}
Attempt(i, outcome, result) ==
    /\ Running /\ pc[i] = "attempt" /\ outcome \in Outcomes
    /\ Event("attempt_finished", i, None, result)
    /\ LET next == [success |-> "intent", retryable_failure |-> "requeue",
                    validation_failed |-> "candidate", stopped |-> "storage"] IN
       Goto(i, IF Returned(result) THEN next[outcome] ELSE "idle")
    /\ stopping' = (stopping \/ ~Returned(result) \/ outcome = "stopped")
    /\ UNCHANGED <<row, final>>

\* record_local_failure(), for a full disk or after an SQLite error; a failure
\* of its own is ignored.
LocalFailure(i, result) ==
    /\ phase # "down" /\ pc[i] \in {"storage", "failed"}
    /\ Event("local_failure", None, None, result)
    /\ Goto(i, IF pc[i] = "storage" THEN "requeue" ELSE "idle") /\ Stops(result)
    /\ phase' = IF phase = "starting" THEN "down" ELSE phase
    /\ UNCHANGED <<session, runOf, summary, scope, row, final>>

Requeue(i) ==
    /\ Running /\ pc[i] = "requeue"
    /\ Becomes(i, "queued") /\ Goto(i, "idle")
    /\ NoEvent /\ UNCHANGED <<stopping, final>>

\* candidate_event() after the partial was moved; also for an occupied target.
Candidate(i, result) ==
    /\ Running /\ pc[i] = "candidate"
    /\ Event("candidate_created", i, None, result)
    /\ Goto(i, IF Returned(result) THEN "review" ELSE "idle") /\ Stops(result)
    /\ UNCHANGED <<row, final>>
Review(i) ==
    /\ Running /\ pc[i] = "review"
    /\ Becomes(i, "review_required") /\ Goto(i, "idle")
    /\ NoEvent /\ UNCHANGED <<stopping, final>>

Intent(i) ==
    /\ Running /\ pc[i] = "intent"
    /\ Becomes(i, "promoting") /\ Goto(i, "link")
    /\ NoEvent /\ UNCHANGED <<stopping, final>>
Link(i) ==
    /\ Running /\ pc[i] = "link"
    /\ final' = [final EXCEPT ![i] = TRUE] /\ Goto(i, "finalize")
    /\ NoEvent /\ UNCHANGED <<stopping, row>>

\* finalized_event() comes before the completion of the row.
Finalize(i, result) ==
    /\ Running /\ pc[i] = "finalize"
    /\ Event("finalized", i, None, result)
    /\ Goto(i, IF Returned(result) THEN "complete" ELSE "idle") /\ Stops(result)
    /\ UNCHANGED <<row, final>>
Complete(i) ==
    /\ Running /\ pc[i] = "complete"
    /\ Becomes(i, "complete") /\ Goto(i, "idle")
    /\ NoEvent /\ UNCHANGED <<stopping, final>>

\* transition() meets an SQLite error: the row stays as it was.
DatabaseFails(i) ==
    /\ phase # "down" /\ faults < MaxFaults
    /\ pc[i] \in {"complete", "review", "requeue", "intent"}
    /\ faults' = faults + 1 /\ spoiled' = spoiled \cup {session}
    /\ stopping' = TRUE /\ Goto(i, "failed")
    /\ UNCHANGED <<phase, session, runOf, lines, summary, writer, row, final, scope,
                   attempts, lost>>

-----------------------------------------------------------------------------
(* The end of run(), and its sudden end.                                   *)

\* The pool has waited for every thread.
Fault_NotJoined == TRUE
Joined == \A i \in Items : pc[i] = "idle"
CompleteIn(r) == Cardinality({i \in scope[r] : row[i] = "complete"})

Close(result) ==
    /\ phase = "running" /\ Joined
    /\ Event("run_closed", None, CompleteIn(runOf[session]), result)
    /\ phase' = IF Returned(result) THEN "closing" ELSE "down"
    /\ UNCHANGED <<session, runOf, summary, stopping, row, final, scope, pc>>

\* _write_atomic(): all of summary.json or none of it.
Seal ==
    /\ phase = "closing" /\ phase' = "sealed"
    /\ summary' = [summary EXCEPT ![session] =
           [count |-> writer.seq, digest |-> writer.prev, finalized |-> writer.finalized,
            complete |-> CompleteIn(runOf[session])]]
    /\ UNCHANGED <<session, runOf, lines, writer, stopping, row, final, scope, pc, attempts, faults, lost,
                   spoiled>>

\* The last snapshot, the ends of the two servers and of the database.
Exit ==
    /\ phase = "sealed" /\ phase' = "down"
    /\ UNCHANGED <<session, runOf, lines, summary, writer, stopping, row, final, scope, pc,
                   attempts, faults, lost, spoiled>>

Crash ==
    /\ phase # "down" /\ faults < MaxFaults
    /\ phase' = "down" /\ pc' = [i \in Items |-> "idle"]
    /\ faults' = faults + 1 /\ spoiled' = spoiled \cup {session}
    /\ UNCHANGED <<session, runOf, lines, summary, writer, stopping, row, final, scope,
                   attempts, lost>>

Thread(i) ==
    \/ Admit(i) \/ Requeue(i) \/ Review(i) \/ Intent(i) \/ Link(i) \/ Complete(i)
    \/ ReconcileComplete(i) \/ ReconcileReview(i) \/ DatabaseFails(i)
Evented(i, result) ==
    \/ \E outcome \in Outcomes : Attempt(i, outcome, result)
    \/ LocalFailure(i, result) \/ Candidate(i, result) \/ Finalize(i, result)
    \/ Reconcile(i, result)
Next ==
    \/ \E r \in Runs : Start(r)
    \/ \E i \in Items : Thread(i)
    \/ \E result \in Results("attempt_finished") :
           Started(result) \/ Close(result) \/ \E i \in Items : Evented(i, result)
    \/ Seal \/ Exit \/ Crash
Spec == Init /\ [][Next]_vars

-----------------------------------------------------------------------------
(* verify_provenance: check_event() on every line, then the summary.       *)

Readable(x) == x \notin {Torn, Junk}
Finals(s) == {k \in DOMAIN lines[s] : Readable(lines[s][k]) /\ lines[s][k].type = "finalized"}

CheckEvent(s, k) ==
    LET r == lines[s][k] IN
    /\ Readable(r) /\ WellFormed(r) /\ r.seq = k
    /\ r.prev = (IF k = 1 THEN None ELSE lines[s][k - 1].seq)

Verify(s) ==
    LET file == lines[s]
        sum  == summary[s] IN
    /\ sum # None
    /\ \A k \in DOMAIN file : CheckEvent(s, k)
    /\ sum.count = Len(file)
    /\ file # <<>> => /\ sum.digest = Last(file).seq
                      /\ Last(file).type = "run_closed" /\ Last(file).complete = sum.complete
    /\ sum.finalized = Cardinality(Finals(s)) /\ sum.finalized <= sum.complete
    /\ \A k \in Finals(s) : final[file[k].item]

-----------------------------------------------------------------------------
(* Properties.                                                             *)

\* Type invariant of the process, the writer, the files and the rows.
ProcessType ==
    /\ phase \in Phases /\ session \in 0..MaxSessions /\ (phase # "down" => session > 0)
    /\ stopping \in BOOLEAN /\ attempts \in 0..MaxAttempts /\ faults \in 0..MaxFaults
    /\ lost \subseteq Sessions /\ spoiled \subseteq Sessions
WriterType == writer \in Writers /\ writer.finalized <= writer.seq
FilesType ==
    /\ lines \in [Sessions -> Seq(Lines)] /\ summary \in [Sessions -> Summaries \cup {None}]
RowsType ==
    /\ row \in [Items -> States] /\ final \in [Items -> BOOLEAN] /\ pc \in [Items -> Steps]
    /\ scope \in [Runs -> (SUBSET Items) \cup {None}]
    /\ runOf \in [Sessions -> Runs \cup {None}]
TypeOK == ProcessType /\ WriterType /\ FilesType /\ RowsType

\* An item is complete only if a finalized record of it can be read in some
\* session, or the file it went to is damaged by a write that fell short: the
\* event comes before the row, and a write that reports an error ends the
\* thread before it gets there, in transfer() and in a start alike.
Damaged(s) == \E k \in DOMAIN lines[s] : ~Readable(lines[s][k])
CompletedHasRecord ==
    \A i \in Items : row[i] = "complete" =>
        \E s \in Sessions : Damaged(s) \/ \E k \in Finals(s) : lines[s][k].item = i

\* A record set that verifies has lost nothing: no write of that session failed
\* or fell short, whichever thread it hit and however many events followed.
FailureIsVisible == \A s \in Sessions : Verify(s) => s \notin lost

\* A session that met no failure and finalized only items of its own run
\* verifies once it is closed, whatever its threads wrote concurrently and
\* whatever earlier sessions left behind.
Own(s) == \A k \in Finals(s) : lines[s][k].item \in scope[runOf[s]]
CleanSessionVerifies ==
    \A s \in Sessions : summary[s] # None /\ s \notin lost \cup spoiled /\ Own(s) => Verify(s)

\* A record set is evidence: what was written stays as it was, across threads,
\* restarts and runs, and nothing at all is added once it is signed.
Sealed ==
    [][\A s \in Sessions :
         /\ \A k \in 1..Len(lines[s]) - 1 : lines'[s][k] = lines[s][k]
         /\ summary[s] # None => lines'[s] = lines[s] /\ summary'[s] = summary[s]]_vars
==============================================================================
