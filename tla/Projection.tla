------------------------------ MODULE Projection ------------------------------
(***************************************************************************)
(* TelemetryStateProjection: the summary of a run that is published while  *)
(* the rows change. A change is committed under db_lock and applied to the *)
(* projection after the lock is released, by the thread that made it, so   *)
(* two threads may apply in another order than they committed.             *)
(*                                                                         *)
(* The main loop admits, a pool thread carries one item to the end of its  *)
(* attempt, the control thread runs commands. The publisher copies the     *)
(* projection in one step, so a snapshot may show each of its states.      *)
(* Attempts, deadlines and byte counts are kept as far as the summary      *)
(* depends on them; the retry error travels with the deadline.             *)
(*                                                                         *)
(* A definition named Fault_... is a plausible mistake in the definition   *)
(* below it; replacing the one by the other breaks a property.             *)
(***************************************************************************)
EXTENDS Integers, FiniteSets, Sequences, Functions

CONSTANTS
    None,
    Items,        \* the selected items of the run
    Workers,      \* --workers
    MaxAttempts,  \* --max-attempts
    Sizes,        \* byte counts a completed item may have
    MaxRevision   \* bound on committed changes

Pool    == 1..Workers
Main    == 0
Control == Workers + 1
Threads == Pool \cup {Main, Control}

ASSUME ConstantsAssumption ==
    /\ IsFiniteSet(Items) /\ None \notin Items /\ None \notin {"now", "later"}
    /\ Workers \in Nat \ {0} /\ MaxAttempts \in Nat \ {0} /\ MaxRevision \in Nat
    /\ Sizes \subseteq Nat /\ Sizes # {}

VARIABLES
    row,       \* table downloads: status, attempts, next_retry_at, bytes
    revision,  \* table telemetry_revisions
    working,   \* what each pool thread does, None when it is free
    pending,   \* changes a thread committed and has not applied yet, in order
    counts, completeBytes, retries, shown  \* the projection and its revision

durable    == <<row, revision>>
projection == <<counts, completeBytes, retries, shown>>
vars       == <<durable, working, pending, projection>>

InHand    == {"admitted", "active", "promoting"}
Retryable == {"queued", "retry_wait"}
Parked    == {"existing_unverified", "review_required", "unavailable", "excluded"}
Statuses  == InHand \cup Retryable \cup Parked \cup {"complete"}
Excludable == Retryable \cup {"admitted", "active", "review_required", "unavailable"}
Buckets   == Parked \cup {"queued", "busy", "retry", "exhausted", "complete", "unknown"}

Rows     == [status : Statuses, attempts : 0..MaxAttempts, retryAt : {"now", "later"},
             bytes : Sizes \cup {0}]
NewRow   == [status |-> "queued", attempts |-> 0, retryAt |-> "now", bytes |-> 0]
Revisions == 0..MaxRevision
\* One committed preimage and postimage; an audit record has no item.
Changes  == [item : Items \cup {None}, old : Rows, new : Rows, rev : Revisions]

\* The statuses a pool thread writes, one after another, whatever the row says
\* by then; the last one is followed by nothing.
Follows == [admitted  |-> {"existing_unverified", "review_required", "active"},
            active    |-> {"promoting", "retry_wait", "queued", "review_required",
                           "unavailable"},
            promoting |-> {"complete", "review_required"},
            complete  |-> {"complete"},
            recheck   |-> {"queued", "review_required"},
            done      |-> {}]
Tasks   == [item : Items, at : DOMAIN Follows]
ASSUME NoneAssumption == None \notin Tasks

\* display_bucket().
Bucket(r) ==
    CASE r.status = "complete"   -> "complete"
      [] r.status \in InHand     -> "busy"
      [] r.status = "retry_wait" -> IF r.attempts >= MaxAttempts THEN "exhausted" ELSE "retry"
      [] r.status \in Parked     -> r.status
      [] r.status = "queued"     -> "queued"

RetryEntry(r) == IF Bucket(r) = "retry" THEN r.retryAt ELSE None
ByteShare(r)  == IF Bucket(r) = "complete" THEN r.bytes ELSE 0

\* hydrate(): the summary of the committed rows, before any thread starts.
CountsOf(rs) == [b \in Buckets |-> Cardinality({i \in Items : Bucket(rs[i]) = b})]
\* A sum is the number of its units.
Units(S, f)  == UNION {{x} \X (1..f[x]) : x \in S}
Sum(S, f)    == Cardinality(Units(S, f))
BytesOf(rs)  == Sum(Items, [i \in Items |-> ByteShare(rs[i])])
Hydrated ==
    /\ counts = CountsOf(row) /\ completeBytes = BytesOf(row)
    /\ retries = [i \in Items |-> RetryEntry(row[i])] /\ shown = revision

\* A first start, or a restart with one item complete or waiting for its retry.
Init ==
    /\ \E i \in Items, size \in Sizes :
       \E r \in {NewRow, [NewRow EXCEPT !.status = "retry_wait", !.attempts = 1],
                 [NewRow EXCEPT !.status = "complete", !.attempts = 1, !.bytes = size]} :
         row = [j \in Items |-> IF j = i THEN r ELSE NewRow]
    /\ revision = 0
    /\ working = [p \in Pool |-> None] /\ pending = [t \in Threads |-> <<>>]
    /\ Hydrated

-----------------------------------------------------------------------------
(* transition() and the commands: one transaction, one new revision.       *)

Free(t) == pending[t] = <<>> /\ revision < MaxRevision

\* Thread t commits one change for each item in S, and will apply them in turn.
Commit(t, S, new) ==
    /\ revision' = revision + 1
    /\ row' = [i \in Items |-> IF i \in S THEN new[i] ELSE row[i]]
    /\ \E order \in Bijection(1..Cardinality(S), S) :
         pending' = [pending EXCEPT ![t] =
            [k \in DOMAIN order |-> [item |-> order[k], old |-> row[order[k]],
                                     new |-> new[order[k]], rev |-> revision + 1]]]
    /\ UNCHANGED projection

\* A commit that changes no item: only the revision is applied.
Audit(t) ==
    /\ revision' = revision + 1
    /\ pending' = [pending EXCEPT ![t] = <<[item |-> None, old |-> NewRow, new |-> NewRow,
                                            rev |-> revision + 1]>>]
    /\ UNCHANGED <<row, projection>>

Fault_NoCeiling(i) == row[i].status \in Retryable
Eligible(i) == row[i].status \in Retryable /\ row[i].attempts < MaxAttempts

\* The main loop commits the admission, applies it, then submits the task.
Admit ==
    /\ Free(Main)
    /\ \E i \in Items :
         /\ Eligible(i)
         /\ Commit(Main, {i}, [row EXCEPT ![i].status = "admitted"])
         /\ \E p \in Pool :
              /\ working[p] = None
              /\ working' = [working EXCEPT ![p] = [item |-> i, at |-> "admitted"]]

\* claim_recheck() moves a deadline that the projection does not show.
ClaimRecheck ==
    /\ pending[Main] = <<>>
    /\ \E i \in Items, p \in Pool :
         /\ row[i].status = "unavailable" /\ working[p] = None
         /\ \A q \in Pool : working[q] # None => working[q].item # i
         /\ working' = [working EXCEPT ![p] = [item |-> i, at |-> "recheck"]]
    /\ UNCHANGED <<durable, pending, projection>>

\* What transfer() and recheck_unavailable() write with each status; a full disk
\* returns an active item with the attempt taken back.
Written(r, at, new) ==
    CASE new = "active"     -> [r EXCEPT !.status = new, !.attempts = @ + 1]
      [] new = "retry_wait" -> [r EXCEPT !.status = new, !.retryAt = "later"]
      [] new = "queued"     -> [r EXCEPT !.status = new, !.retryAt = "now",
                                         !.attempts = IF at = "active" THEN @ - 1 ELSE @]
      [] OTHER              -> [r EXCEPT !.status = new]

Transition(p) ==
    /\ working[p] # None /\ Free(p)
    /\ working[p].at = "admitted" => pending[Main] = <<>>
    /\ LET i    == working[p].item
           from == working[p].at
       IN \E new \in Follows[from], b \in Sizes :
            LET size == IF new = "complete" /\ from = "promoting" THEN b ELSE row[i].bytes
                last == from = "complete" \/ new \notin {"active", "promoting", "complete"}
            IN /\ Commit(p, {i}, [row EXCEPT ![i] =
                                     [Written(row[i], from, new) EXCEPT !.bytes = size]])
               /\ working' = [working EXCEPT ![p].at = IF last THEN "done" ELSE new]

\* The item is still unavailable.
StillUnavailable(p) ==
    /\ working[p] # None /\ working[p].at = "recheck"
    /\ working' = [working EXCEPT ![p].at = "done"]
    /\ UNCHANGED <<durable, pending, projection>>

\* The task returns after its last apply.
Return(p) ==
    /\ working[p] # None /\ working[p].at = "done" /\ pending[p] = <<>>
    /\ working' = [working EXCEPT ![p] = None]
    /\ UNCHANGED <<durable, pending, projection>>

\* A command that changes no item (pause, resume, drain, stop, new circuits).
ControlAudit == Free(Control) /\ Audit(Control) /\ UNCHANGED working

\* control_retry_now() for all retryable items or for chosen ones.
RetryNow ==
    /\ Free(Control)
    /\ \E S \in SUBSET {i \in Items : row[i].status \in Retryable} :
         IF S = {} THEN Audit(Control)
         ELSE Commit(Control, S, [i \in Items |-> [row[i] EXCEPT !.retryAt = "now"]])
    /\ UNCHANGED working

SetRetryCooldown ==
    /\ Free(Control)
    /\ \E i \in Items : /\ row[i].status = "retry_wait"
                        /\ Commit(Control, {i}, [row EXCEPT ![i].retryAt = "later"])
    /\ UNCHANGED working

\* control_exclude_item(), control_resume_new_generation(): one item.
ExcludeItem ==
    /\ Free(Control)
    /\ \E i \in Items : /\ row[i].status \in Excludable
                        /\ Commit(Control, {i}, [row EXCEPT ![i].status = "excluded"])
    /\ UNCHANGED working
Requeue ==
    /\ Free(Control)
    /\ \E i \in Items :
         /\ row[i].status = "review_required"
         /\ Commit(Control, {i}, [row EXCEPT ![i] = Written(row[i], "review_required", "queued")])
    /\ UNCHANGED working

-----------------------------------------------------------------------------
(* TelemetryStateProjection.apply() and set_revision(), under its lock.    *)

Fault_KeepsOld(old, new) == [counts EXCEPT ![Bucket(new)] = @ + 1]
Shift(old, new) ==
    [b \in Buckets |-> counts[b] - (IF b = Bucket(old) THEN 1 ELSE 0)
                                 + (IF b = Bucket(new) THEN 1 ELSE 0)]

Fault_AddsAgain(old, new) == completeBytes + ByteShare(new)
Rebill(old, new) == completeBytes - ByteShare(old) + ByteShare(new)

Apply(t) ==
    /\ pending[t] # <<>>
    /\ LET c == Head(pending[t]) IN
       /\ shown' = c.rev
       /\ IF c.item = None THEN UNCHANGED <<counts, completeBytes, retries>>
          ELSE /\ counts' = Shift(c.old, c.new)
               /\ completeBytes' = Rebill(c.old, c.new)
               /\ retries' = [retries EXCEPT ![c.item] = RetryEntry(c.new)]
    /\ pending' = [pending EXCEPT ![t] = Tail(@)]
    /\ UNCHANGED <<durable, working>>

-----------------------------------------------------------------------------
Next ==
    \/ Admit \/ ClaimRecheck \/ RetryNow \/ SetRetryCooldown \/ ExcludeItem \/ Requeue
    \/ ControlAudit
    \/ \E p \in Pool : Transition(p) \/ StillUnavailable(p) \/ Return(p)
    \/ \E t \in Threads : Apply(t)
Spec     == Init /\ [][Next]_vars
\* A thread that committed goes on to apply.
FairSpec == Spec /\ \A t \in Threads : WF_vars(Apply(t))

-----------------------------------------------------------------------------
(* Properties.                                                             *)

\* Type invariant of the rows, the threads and the projection.
RowsType    == row \in [Items -> Rows] /\ revision \in Revisions
ThreadsType == working \in [Pool -> Tasks \cup {None}] /\ pending \in [Threads -> Seq(Changes)]
SummaryType ==
    /\ counts \in [Buckets -> Int] /\ completeBytes \in Int
    /\ retries \in [Items -> {"now", "later", None}] /\ shown \in Revisions
TypeOK == RowsType /\ ThreadsType /\ SummaryType

\* Every snapshot accounts for each selected item once: the counts it copies
\* sum to the selected count, although changes are applied late and in any
\* order (TelemetryStateProjection.apply(), copy()). When every committed change
\* is applied, the summary equals what hydrate() would build from the rows: each
\* thread applies the preimage it read in its own transaction, so no order of the
\* applies loses or repeats an item.
Quiescent == \A t \in Threads : pending[t] = <<>>
Total(c) == c["queued"] + c["busy"] + c["retry"] + c["exhausted"] + c["complete"] + c["unknown"]
            + c["existing_unverified"] + c["review_required"] + c["unavailable"] + c["excluded"]
CountsAgree ==
    /\ Total(counts) = Cardinality(Items)
    /\ Quiescent => counts = CountsOf(row) /\ completeBytes = BytesOf(row)
==============================================================================
