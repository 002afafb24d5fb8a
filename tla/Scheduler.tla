------------------------------ MODULE Scheduler ------------------------------
(***************************************************************************)
(* The main loop of run(): which selected item it admits next, the thread  *)
(* pool that transfers and rechecks them, the worker slots, and the ways a *)
(* run is paused, drained, stopped or ends.                                *)
(*                                                                         *)
(* What a worker does with the bytes of its item is module Acquisition; a  *)
(* worker here is only where it stands between admission and the moment    *)
(* its future is done. Threads share the rows (under db_lock), the slots   *)
(* (under active_lock) and the event flags, so every such access is a step *)
(* of its own.                                                             *)
(*                                                                         *)
(* A definition named Fault_... is a plausible mistake in the definition   *)
(* below it; replacing the one by the other breaks a property.             *)
(***************************************************************************)
EXTENDS Integers, FiniteSets

CONSTANTS
    None,         \* no task, no pick
    Items,        \* 1..n in the order of queue_rank
    Origin,       \* scheme and authority of an item's URL
    Workers,      \* --workers
    MaxAttempts,  \* --max-attempts
    Events        \* what may happen to the run from outside

Slots   == 1..Workers
Outside == {"pause", "drain", "stop", "deadline", "space", "failure", "full",
            "requeue", "exclude", "cooldown", "retry_now", "existing"}

ASSUME ItemsAssumption == Items \subseteq Nat /\ IsFiniteSet(Items) /\ None \notin Items
ASSUME LimitsAssumption == Workers \in Nat \ {0} /\ MaxAttempts \in Nat \ {0}
ASSUME EventsAssumption == Events \subseteq Outside

VARIABLES
    status, attempts,  \* columns of downloads, by item
    due,               \* next_retry_at (recheck_at of an unavailable item) has passed
    ids,               \* worker_ids: slot number by item, 0 for none
    task,              \* futures: what each pool thread runs, None when collected
    main, pick,        \* where the main loop stands, the row it selected
    stop, drain, paused, expired, \* event flags; the deadline has passed
    broken             \* an exception left the main loop

rows  == <<status, attempts, due>>
flags == <<stop, drain, paused, expired>>
vars  == <<rows, ids, task, main, pick, flags, broken>>

\* Here review_required is every review code but access_denied, and complete
\* stands for existing_unverified too: the scheduler treats these alike.
Retryable == {"queued", "retry_wait"}
InHand    == {"admitted", "active", "promoting"}
Held      == {"review_required", "access_denied"}
Statuses  == Retryable \cup InHand \cup Held \cup {"complete", "unavailable", "excluded"}
Excludable == Retryable \cup Held \cup {"admitted", "active", "unavailable"}

\* A task works until it has written the last status of its item; what follows
\* only gives its slot back.
Working  == {"submitted", "waiting", "starting", "running", "stopped", "full",
             "promoting", "completing"}
Stages   == Working \cup {"clearing", "done", "failed"}
Places   == {"gate", "pick", "admit", "recheck", "collect", "decide", "sleep",
             "closing", "ended"}
Tasks    == [item : Items, kind : {"transfer", "recheck"}, at : Stages,
             attempts : 0..MaxAttempts]
ASSUME NoneAssumption == None \notin Tasks

Init ==
    /\ status = [i \in Items |-> "queued"] /\ attempts = [i \in Items |-> 0]
    /\ due = [i \in Items |-> TRUE]
    /\ ids = [i \in Items |-> 0] /\ task = [s \in Slots |-> None]
    /\ main = "gate" /\ pick = None
    /\ stop = FALSE /\ drain = FALSE /\ paused = FALSE /\ expired = FALSE
    /\ broken = FALSE

Futures == {s \in Slots : task[s] # None}
Over(s) == task[s] # None /\ task[s].at \in {"done", "failed"}

-----------------------------------------------------------------------------
(* The main loop.                                                          *)

\* access_denied_scope_clause() and the WHERE clause of next_pending().
DeniedOrigins == {Origin[j] : j \in {k \in Items : status[k] = "access_denied"}}
Fault_NoCeiling(i) == status[i] \in Retryable /\ Origin[i] \notin DeniedOrigins
Admissible(i) == /\ status[i] \in Retryable /\ attempts[i] < MaxAttempts
                 /\ Origin[i] \notin DeniedOrigins
First(S) == CHOOSE i \in S : \A j \in S : i <= j
Pending  == {i \in Items : Admissible(i) /\ due[i]}
Recheckable == {i \in Items : status[i] = "unavailable" /\ due[i]}

MainAt(from, to) == main = from /\ main' = to

\* The condition of the admission loop, its deadline and its storage check.
Fault_IgnoresDrain == ~stop /\ ~paused /\ Cardinality(Futures) < Workers
AdmissionOpen == ~stop /\ ~drain /\ ~paused /\ Cardinality(Futures) < Workers
Gate ==
    /\ \/ MainAt("gate", "collect") /\ ~AdmissionOpen /\ UNCHANGED stop
       \/ /\ MainAt("gate", "collect") /\ AdmissionOpen
          /\ expired \/ "space" \in Events
          /\ stop' = TRUE
       \/ MainAt("gate", "pick") /\ AdmissionOpen /\ ~expired /\ UNCHANGED stop
    /\ UNCHANGED <<rows, ids, task, pick, drain, paused, expired, broken>>

NextPending ==
    /\ \/ MainAt("pick", "admit") /\ Pending # {} /\ pick' = First(Pending)
       \/ MainAt("pick", "recheck") /\ Pending = {} /\ UNCHANGED pick
    /\ UNCHANGED <<rows, ids, task, flags, broken>>

\* pool.submit(): a thread is free, since fewer futures than threads exist.
Submit(i, kind) ==
    LET s == First(Slots \ Futures) IN
    task' = [task EXCEPT ![s] = [item |-> i, kind |-> kind, at |-> "submitted",
                                 attempts |-> attempts[i]]]

\* next_recheck() and claim_recheck(): the daily recheck is spent on the claim.
ClaimRecheck ==
    /\ \/ /\ MainAt("recheck", "gate") /\ Recheckable # {}
          /\ due' = [due EXCEPT ![First(Recheckable)] = FALSE]
          /\ Submit(First(Recheckable), "recheck")
       \/ MainAt("recheck", "collect") /\ Recheckable = {} /\ UNCHANGED <<due, task>>
    /\ UNCHANGED <<status, attempts, ids, pick, flags, broken>>

\* The row that was selected is admitted whatever it says by now.
Fault_StaysQueued ==
    /\ MainAt("admit", "gate")
    /\ Submit(pick, "transfer") /\ pick' = None
    /\ UNCHANGED <<rows, ids, flags, broken>>
Admit ==
    /\ MainAt("admit", "gate")
    /\ status' = [status EXCEPT ![pick] = "admitted"]
    /\ Submit(pick, "transfer") /\ pick' = None
    /\ UNCHANGED <<attempts, due, ids, flags, broken>>

\* The commit of the admission fails: the exception leaves the loop.
AdmitFails ==
    /\ "failure" \in Events
    /\ MainAt("admit", "closing")
    /\ stop' = TRUE /\ broken' = TRUE /\ pick' = None
    /\ UNCHANGED <<rows, ids, task, drain, paused, expired>>

Fault_IgnoresResult ==
    /\ MainAt("collect", "gate")
    /\ \E s \in Slots : Over(s)
    /\ task' = [s \in Slots |-> IF Over(s) THEN None ELSE task[s]]
    /\ UNCHANGED <<rows, ids, pick, flags, broken>>
\* wait() returns every future that is done; result() raises what the task raised.
Collect ==
    /\ main = "collect"
    /\ \E s \in Slots : Over(s)
    /\ task' = [s \in Slots |-> IF Over(s) THEN None ELSE task[s]]
    /\ broken' = \E s \in Slots : Over(s) /\ task[s].at = "failed"
    /\ main' = IF broken' THEN "closing" ELSE "gate"
    /\ UNCHANGED <<rows, ids, pick, flags>>

\* wait() returns with nothing done.
CollectTimeout ==
    /\ MainAt("collect", "gate")
    /\ Futures # {} /\ \A s \in Slots : ~Over(s)
    /\ stop' = (stop \/ expired)
    /\ UNCHANGED <<rows, ids, task, pick, drain, paused, expired, broken>>

NothingRuns ==
    /\ Futures = {}
    /\ MainAt("collect", IF stop \/ drain THEN "closing" ELSE "decide")
    /\ UNCHANGED <<rows, ids, task, pick, flags, broken>>

\* retry_wait() looks at every item that could be admitted, due or not.
Waiting == {i \in Items : Admissible(i)}

\* End when there is none, stop when there is no time to sleep, or sleep until
\* the next one is due.
RetryWait ==
    /\ \/ MainAt("decide", "closing") /\ Waiting = {} /\ UNCHANGED stop
       \/ /\ MainAt("decide", "gate") /\ Waiting # {}
          /\ expired \/ \E i \in Waiting : due[i]
          /\ stop' = TRUE
       \/ /\ MainAt("decide", "sleep") /\ Waiting # {}
          /\ ~expired /\ \A i \in Waiting : ~due[i]
          /\ UNCHANGED stop
    /\ UNCHANGED <<rows, ids, task, pick, drain, paused, expired, broken>>

\* control_wake.wait() returns when it is set and after 60 seconds at the latest.
WakeUp ==
    /\ MainAt("sleep", "gate")
    /\ UNCHANGED <<rows, ids, task, pick, flags, broken>>

\* Leaving the pool waits for its threads; then the run is closed.
Close ==
    /\ MainAt("closing", "ended")
    /\ \A s \in Slots : task[s] = None \/ Over(s)
    /\ UNCHANGED <<rows, ids, task, pick, flags, broken>>

-----------------------------------------------------------------------------
(* The tasks in the pool.                                                  *)

Item(s)      == task[s].item
At(s, stage) == task[s] # None /\ task[s].at = stage
TransferAt(s, stage) == At(s, stage) /\ task[s].kind = "transfer"
Step(s, stage) == task' = [task EXCEPT ![s].at = stage]
Move(s, new)   == status' = [status EXCEPT ![Item(s)] = new]
MainIdle       == UNCHANGED <<main, pick, broken>>

\* reserve_worker_id(), under active_lock.
FreeIds == Slots \ {ids[i] : i \in Items}
Fault_NotReleased(s) == UNCHANGED ids
Release(s) == ids' = [ids EXCEPT ![Item(s)] = 0]

\* transfer() finds a final file, or takes a slot before it waits.
TakeSlot(s) ==
    /\ TransferAt(s, "submitted")
    /\ \/ /\ "existing" \in Events
          /\ Move(s, "complete") /\ Step(s, "done") /\ UNCHANGED ids
       \/ /\ FreeIds # {}
          /\ ids' = [ids EXCEPT ![Item(s)] = First(FreeIds)]
          /\ Step(s, "waiting") /\ UNCHANGED status
       \/ /\ FreeIds = {}
          /\ Step(s, "failed") /\ UNCHANGED <<status, ids>>
    /\ UNCHANGED <<attempts, due, flags>> /\ MainIdle

Fault_NotCounted(s) ==
    /\ At(s, "waiting")
    /\ Move(s, "active") /\ Step(s, "starting")
    /\ UNCHANGED <<attempts, due, ids, flags>> /\ MainIdle
\* After cooldown, stagger and probe the attempt starts, or the resume gate
\* hands the item to review.
Activate(s) ==
    /\ At(s, "waiting")
    /\ \/ /\ Move(s, "active") /\ Step(s, "starting")
          /\ attempts' = [attempts EXCEPT ![Item(s)] = task[s].attempts + 1]
       \/ Move(s, "review_required") /\ Step(s, "clearing") /\ UNCHANGED attempts
    /\ UNCHANGED <<due, ids, flags>> /\ MainIdle

\* run_aria2() starts the engine; record_worker() looks the slot up and raises
\* KeyError when it is gone. The handler in transfer() releases and re-raises.
StartEngine(s) ==
    /\ At(s, "starting")
    /\ \/ ids[Item(s)] # 0 /\ Step(s, "running") /\ UNCHANGED ids
       \/ /\ ids[Item(s)] = 0 \/ "failure" \in Events
          /\ Release(s) /\ Step(s, "failed")
    /\ UNCHANGED <<rows, flags>> /\ MainIdle

\* The engine ends by itself: success, or what transfer() makes of the error.
EngineEnds(s) ==
    /\ At(s, "running")
    /\ \/ Move(s, "promoting") /\ Step(s, "promoting") /\ UNCHANGED <<due, paused>>
       \/ Move(s, "review_required") /\ Step(s, "clearing") /\ UNCHANGED <<due, paused>>
       \/ Move(s, "access_denied") /\ Step(s, "clearing") /\ UNCHANGED <<due, paused>>
       \/ /\ Move(s, "unavailable") /\ Step(s, "clearing")
          /\ due' = [due EXCEPT ![Item(s)] = FALSE] /\ UNCHANGED paused
       \/ /\ Step(s, "stopped") /\ UNCHANGED <<status, due, paused>>
       \/ /\ "full" \in Events
          /\ paused' = TRUE /\ Step(s, "full") /\ UNCHANGED <<status, due>>
    /\ UNCHANGED <<attempts, ids, stop, drain, expired>> /\ MainIdle

Fault_DeadlineOnly(s) == At(s, "running") /\ expired
StopVisible(s) == At(s, "running") /\ (stop \/ expired)

\* The poll loop of run_aria2() sees the stop request or the deadline.
EngineStopped(s) ==
    /\ StopVisible(s)
    /\ stop' = TRUE /\ Step(s, "stopped")
    /\ UNCHANGED <<rows, ids, drain, paused, expired>> /\ MainIdle

\* A failed attempt waits for its retry; a planned stop schedules no backoff.
RetryLater(s) ==
    /\ At(s, "stopped")
    /\ Move(s, "retry_wait") /\ Step(s, "clearing")
    /\ due' = [due EXCEPT ![Item(s)] = stop]
    /\ UNCHANGED <<attempts, ids, flags>> /\ MainIdle

\* A full disk returns the item with the attempt it had.
RequeueFull(s) ==
    /\ At(s, "full")
    /\ Move(s, "queued") /\ Step(s, "clearing")
    /\ attempts' = [attempts EXCEPT ![Item(s)] = task[s].attempts]
    /\ due' = [due EXCEPT ![Item(s)] = TRUE]
    /\ UNCHANGED <<ids, flags>> /\ MainIdle

\* A success gives its slot back before it commits the completion; a promotion
\* that fails or collides is handed to review.
Promote(s) ==
    /\ At(s, "promoting")
    /\ \/ Release(s) /\ Step(s, "completing") /\ UNCHANGED status
       \/ Move(s, "review_required") /\ Step(s, "clearing") /\ UNCHANGED ids
    /\ UNCHANGED <<attempts, due, flags>> /\ MainIdle

Complete(s) ==
    /\ At(s, "completing")
    /\ Move(s, "complete") /\ Step(s, "done")
    /\ UNCHANGED <<attempts, due, ids, flags>> /\ MainIdle

\* clear_transfer_telemetry(), after the last status of the item is committed.
Clear(s) ==
    /\ At(s, "clearing")
    /\ Release(s) /\ Step(s, "done")
    /\ UNCHANGED <<rows, flags>> /\ MainIdle

\* recheck_unavailable(): still gone, available again, or to be reviewed.
Recheck(s) ==
    /\ At(s, "submitted") /\ task[s].kind = "recheck"
    /\ \/ Step(s, "done") /\ UNCHANGED <<status, due>>
       \/ /\ Move(s, "queued") /\ Step(s, "done")
          /\ due' = [due EXCEPT ![Item(s)] = TRUE]
       \/ Move(s, "review_required") /\ Step(s, "clearing") /\ UNCHANGED due
    /\ UNCHANGED <<attempts, ids, flags>> /\ MainIdle

\* A provenance or SQLite write fails: the task asks for a stop and raises.
LocalFailure(s) ==
    /\ "failure" \in Events
    /\ task[s] # None /\ task[s].at \in Working \ {"starting"}
    /\ stop' = TRUE /\ Step(s, "failed")
    /\ UNCHANGED <<rows, ids, drain, paused, expired>> /\ MainIdle

-----------------------------------------------------------------------------
(* The control thread, signals and the clock. A command is accepted until  *)
(* the control server is stopped at the end of the run.                    *)

Command(name) == name \in Events /\ main # "ended"
Unmoved == UNCHANGED <<ids, task, main, pick, broken>>

RequestStop ==
    /\ Command("stop") /\ ~stop
    /\ stop' = TRUE
    /\ Unmoved /\ UNCHANGED <<rows, drain, paused, expired>>

PauseAdmission ==
    /\ Command("pause") /\ ~stop /\ ~drain /\ ~paused
    /\ paused' = TRUE
    /\ Unmoved /\ UNCHANGED <<rows, stop, drain, expired>>

ResumeAdmission ==
    /\ main # "ended" /\ Events \cap {"pause", "full"} # {} /\ paused
    /\ paused' = FALSE
    /\ Unmoved /\ UNCHANGED <<rows, stop, drain, expired>>

DrainAndStop ==
    /\ Command("drain") /\ ~stop /\ ~drain
    /\ drain' = TRUE /\ paused' = FALSE
    /\ Unmoved /\ UNCHANGED <<rows, stop, expired>>

\* control_retry_access_denied() and control_resume_new_generation().
Requeue(i) ==
    /\ Command("requeue") /\ status[i] \in Held
    /\ status' = [status EXCEPT ![i] = "queued"]
    /\ due' = [due EXCEPT ![i] = TRUE]
    /\ Unmoved /\ UNCHANGED <<attempts, flags>>

ExcludeItem(i) ==
    /\ Command("exclude") /\ status[i] \in Excludable
    /\ status' = [status EXCEPT ![i] = "excluded"]
    /\ Unmoved /\ UNCHANGED <<attempts, due, flags>>

SetRetryCooldown(i) ==
    /\ Command("cooldown") /\ status[i] = "retry_wait"
    /\ due' = [due EXCEPT ![i] = FALSE]
    /\ Unmoved /\ UNCHANGED <<status, attempts, flags>>

RetryNow ==
    /\ Command("retry_now")
    /\ due' = [i \in Items |-> due[i] \/ status[i] \in Retryable]
    /\ Unmoved /\ UNCHANGED <<status, attempts, flags>>

\* Time passes. A recheck request does not take a whole day.
Rechecking(i) == \E s \in Slots : At(s, "submitted") /\ task[s].kind = "recheck" /\ Item(s) = i
BecomesDue(i) ==
    /\ main # "ended" /\ ~due[i]
    /\ status[i] \in Retryable \/ (status[i] = "unavailable" /\ ~Rechecking(i))
    /\ due' = [due EXCEPT ![i] = TRUE]
    /\ Unmoved /\ UNCHANGED <<status, attempts, flags>>

DeadlinePasses ==
    /\ Command("deadline") /\ ~expired
    /\ expired' = TRUE
    /\ Unmoved /\ UNCHANGED <<rows, stop, drain, paused>>

\* The controller has exited.
Ended == main = "ended" /\ UNCHANGED vars

-----------------------------------------------------------------------------
MainLoop ==
    \/ Gate \/ NextPending \/ ClaimRecheck \/ Admit \/ AdmitFails
    \/ Collect \/ CollectTimeout \/ NothingRuns \/ RetryWait \/ WakeUp \/ Close
TaskStep(s) ==
    \/ TakeSlot(s) \/ Activate(s) \/ StartEngine(s) \/ EngineStopped(s)
    \/ RetryLater(s) \/ RequeueFull(s) \/ Promote(s) \/ Complete(s) \/ Clear(s)
    \/ Recheck(s)
Operator ==
    \/ RequestStop \/ PauseAdmission \/ ResumeAdmission \/ DrainAndStop \/ RetryNow
    \/ \E i \in Items : Requeue(i) \/ ExcludeItem(i) \/ SetRetryCooldown(i)
Clock == DeadlinePasses \/ \E i \in Items : BecomesDue(i)

Next == \/ MainLoop \/ Operator \/ Clock \/ Ended
        \/ \E s \in Slots : TaskStep(s) \/ EngineEnds(s) \/ LocalFailure(s)

Spec == Init /\ [][Next]_vars

\* Threads run and time passes. Nothing obliges an engine to end by itself,
\* or a write to fail.
FairSpec == /\ Spec /\ WF_vars(MainLoop)
            /\ \A s \in Slots : WF_vars(TaskStep(s))
            /\ \A i \in Items : WF_vars(BecomesDue(i))

\* Every engine ends by itself: it has a connect and a read timeout. This is
\* assumed only by the properties that name it.
EnginesEnd == \A s \in Slots : WF_vars(EngineEnds(s))

-----------------------------------------------------------------------------
(* Properties.                                                             *)

\* Type invariant of the rows, the slots, the futures, the loop and the flags;
\* no attempt counter passes --max-attempts.
TypeOK ==
    /\ status \in [Items -> Statuses] /\ attempts \in [Items -> 0..MaxAttempts]
    /\ due \in [Items -> BOOLEAN] /\ ids \in [Items -> 0..Workers]
    /\ task \in [Slots -> Tasks \cup {None}]
    /\ main \in Places /\ pick \in Items \cup {None}
    /\ stop \in BOOLEAN /\ drain \in BOOLEAN /\ paused \in BOOLEAN
    /\ expired \in BOOLEAN /\ broken \in BOOLEAN

\* reserve_worker_id() never raises: every task that is about to take a slot
\* finds one, and no two items hold the same, although slots are given back at
\* different moments than futures and rows (clear_transfer_telemetry()).
SlotFree ==
    /\ \A s \in Slots : TransferAt(s, "submitted") => FreeIds # {}
    /\ \A i, j \in Items : i # j /\ ids[i] # 0 => ids[i] # ids[j]

\* No two tasks work on the same item, and an item the row calls admitted,
\* active or promoting is in the hands of a task that will write its next
\* status: an item is readmitted only after its last task committed. A run that
\* ends without an exception has no item in hand, however it was stopped or
\* drained, so a later start can pick each of them up.
InHandOf(i) == \E s \in Slots :
    task[s] # None /\ Item(s) = i /\ task[s].at \in Working \cup {"failed"}
OneTaskPerItem ==
    /\ \A s, t \in Slots :
           s # t /\ task[s] # None /\ task[t] # None
           /\ task[s].at \in Working /\ task[t].at \in Working => Item(s) # Item(t)
    /\ \A i \in Items : status[i] \in InHand /\ ~broken => main # "ended" /\ InHandOf(i)

\* A stop request and the deadline end the run even if no engine ever ends by
\* itself: the poll loop of run_aria2() sees them, and so does the main loop.
StopEnds == stop \/ expired ~> main = "ended"

\* A drained run ends once its engines do, even if the operator keeps returning
\* reviewed items to the queue (drain_requested closes the admission loop).
DrainEnds == EnginesEnd => (drain ~> main = "ended")

\* Every admissible item is admitted in the end, or the run ends, or the
\* operator returns items to the queue for ever or never ends a pause: no item is starved by the
\* retries of items before it while attempts have a ceiling (next_pending()
\* always takes the first of the queue).
Served ==
    EnginesEnd =>
        \/ []<><<\E j \in Items : Requeue(j)>>_vars \/ <>[]paused
        \/ \A i \in Items : Admissible(i) ~> ~Admissible(i) \/ main = "ended"

\* Pausing admission only holds admission: the loop itself does not stop the
\* run while it is paused and its deadline has not passed.
PauseHoldsRun ==
    [][MainAt("decide", "gate") /\ paused /\ ~expired => stop' = stop]_vars
==============================================================================
