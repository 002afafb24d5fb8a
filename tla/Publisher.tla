------------------------------ MODULE Publisher ------------------------------
(***************************************************************************)
(* The telemetry of a run on its way to snapshot.json: transfer threads,   *)
(* the control thread and the main thread change what is shown, and the    *)
(* telemetry thread, at the end the main thread, publish it through one    *)
(* temporary file.                                                         *)
(*                                                                         *)
(* A file stays open when its name changes, which matters because both     *)
(* writers use one temporary name. A snapshot keeps its session, its       *)
(* sequence number, the lifecycle and whether a transfer is in hand;       *)
(* counters, ages, events and the copied projection (module Projection)    *)
(* are left out. The lifecycles "finished" and "stopped" are one here,     *)
(* "final".                                                                *)
(***************************************************************************)
EXTENDS Integers

CONSTANTS
    None,
    Torn,         \* a file that is being written, or that two writers mixed up
    MaxAttempts,  \* bound: transfers in a session
    MaxSessions,  \* bound: starts of the controller
    MaxRepeats,   \* bound: snapshots of a session that say nothing new
    MaxFaults     \* bound: failed writes, kills and joins that expire

ASSUME ConstantsAssumption ==
    {MaxAttempts, MaxSessions, MaxRepeats, MaxFaults} \subseteq Nat

VARIABLES
    phase,      \* of the process: "down", "running", "closing", "joining", "last", "leaving"
    session,    \* number of the latest start
    lifecycle,  \* TelemetryPublisher.lifecycle
    stopping,   \* stop_requested or drain_requested
    command,    \* the control thread accepted a stop and has not shown it yet
    active,     \* TelemetryPublisher.active is not empty
    attempts,   \* how often it was filled in this session
    wake, stop, \* _wake and _stop
    sequence,   \* of the latest snapshot
    repeats,    \* snapshots of this session that said nothing new
    at,         \* by writer: the next step of publish()
    data,       \* by writer: the snapshot it publishes
    handle,     \* by writer: the name that its open file has now
    file,       \* by name: the contents, None if there is no such file
    faults,
    overran,    \* history: a final join expired
    late,       \* history: a stop was shown after the outcome of the session was set
    ended       \* history: the latest session replaced its last snapshot itself

process == <<phase, session, ended>>
shown   == <<lifecycle, active>>
orders  == <<stopping, command, attempts>>
numbers == <<sequence, repeats>>
files   == <<at, data, handle, file>>
history == <<faults, overran, late>>
vars    == <<process, shown, orders, wake, stop, numbers, files, history>>

Writers    == {"loop", "main"}
Names      == {"tmp", "path"}
Lifecycles == {"starting", "running", "stopping", "final"}
Snapshots  == [session : 1..MaxSessions, seq : Nat, lifecycle : Lifecycles, active : BOOLEAN]
ASSUME ContentsAssumption ==
    /\ None # Torn /\ {None, Torn} \cap Snapshots = {}
    /\ None \notin Names \cup {"gone"}
Published  == file["path"]
Whole(text) == text \notin {None, Torn}
Current    == Whole(Published) /\ Published.session = session

Idle       == [w \in Writers |-> None]
Off        == [w \in Writers |-> "off"]

Init ==
    /\ phase = "down" /\ session = 0 /\ sequence = 0
    /\ lifecycle = "starting" /\ active = FALSE
    /\ stopping = FALSE /\ command = FALSE /\ attempts = 0
    /\ wake = FALSE /\ stop = FALSE /\ repeats = 0
    /\ at = Off /\ data = Idle /\ handle = Idle
    /\ file = [n \in Names |-> None] /\ faults = 0 /\ overran = FALSE /\ late = FALSE
    /\ ended = FALSE

-----------------------------------------------------------------------------
(* The process.                                                            *)

\* TelemetryPublisher() and start(): a new session, numbered from the beginning,
\* that publishes to the path of the run. The files of earlier sessions stay.
Start ==
    /\ phase = "down" /\ session < MaxSessions
    /\ phase' = "running" /\ session' = session + 1 /\ sequence' = 0 /\ ended' = FALSE
    /\ wake' = TRUE /\ at' = [at EXCEPT !["loop"] = "wait"]
    /\ late' = FALSE
    /\ UNCHANGED <<shown, orders, stop, repeats, data, handle, file, faults, overran>>

\* set_lifecycle(), which wakes the loop.
SetLifecycle(new) == lifecycle' = new /\ wake' = TRUE /\ UNCHANGED active

SetRunning ==
    /\ phase = "running" /\ lifecycle = "starting" /\ SetLifecycle("running")
    /\ UNCHANGED <<process, orders, stop, numbers, files, history>>

\* The main loop meets the deadline or the storage reserve.
MainStops ==
    /\ phase = "running" /\ lifecycle # "starting" /\ ~stopping
    /\ stopping' = TRUE /\ SetLifecycle("stopping")
    /\ UNCHANGED <<process, command, attempts, stop, numbers, files, history>>

\* control_drain_and_stop() and control_checkpoint_stop() set a flag under db_lock
\* and the lifecycle after they released it. The control thread is stopped after
\* the last snapshot.
AcceptStop ==
    /\ phase # "down" /\ ~stopping
    /\ stopping' = TRUE /\ command' = TRUE
    /\ UNCHANGED <<process, shown, attempts, wake, stop, numbers, files, history>>
ShowStop ==
    /\ phase # "down" /\ command
    /\ command' = FALSE /\ SetLifecycle("stopping") /\ late' = (phase # "running")
    /\ UNCHANGED <<process, stopping, attempts, stop, numbers, files, faults, overran>>

\* A transfer thread shows its slot, and clears it when the attempt is over.
SetActive ==
    /\ phase = "running" /\ lifecycle # "starting" /\ ~active /\ attempts < MaxAttempts
    /\ ~stopping
    /\ active' = TRUE /\ attempts' = attempts + 1 /\ wake' = TRUE
    /\ UNCHANGED <<process, lifecycle, stopping, command, stop, numbers, files, history>>
ClearActive ==
    /\ phase = "running" /\ active
    /\ active' = FALSE /\ wake' = TRUE
    /\ UNCHANGED <<process, lifecycle, orders, stop, numbers, files, history>>

\* The pool has ended: run() sets the outcome.
Finish ==
    /\ phase = "running" /\ lifecycle # "starting" /\ ~active
    /\ SetLifecycle("final") /\ phase' = "closing"
    /\ UNCHANGED <<session, ended, orders, stop, numbers, files, history>>

\* stop(): the thread is told, then joined for at most two seconds.
StopLoop ==
    /\ phase = "closing" /\ phase' = "joining" /\ stop' = TRUE /\ wake' = TRUE
    /\ UNCHANGED <<session, ended, shown, orders, numbers, files, history>>
Fault_NoJoin == TRUE
LoopEnded == at["loop"] = "off"
Join ==
    /\ phase = "joining" /\ LoopEnded /\ phase' = "last"
    /\ UNCHANGED <<session, ended, shown, orders, wake, stop, numbers, files, history>>
JoinExpires ==
    /\ phase = "joining" /\ at["loop"] # "off" /\ faults < MaxFaults
    /\ phase' = "last" /\ faults' = faults + 1 /\ overran' = TRUE
    /\ UNCHANGED <<session, ended, shown, orders, wake, stop, numbers, files, late>>

\* The process ends, and every thread with it: after the last snapshot, or killed.
Gone ==
    /\ phase' = "down" /\ lifecycle' = "starting" /\ active' = FALSE
    /\ stopping' = FALSE /\ command' = FALSE /\ attempts' = 0
    /\ wake' = FALSE /\ stop' = FALSE /\ repeats' = 0
    /\ at' = Off /\ data' = Idle /\ handle' = Idle
    /\ UNCHANGED <<session, ended, sequence, file, overran, late>>
Leave == phase = "leaving" /\ Gone /\ UNCHANGED faults
Kill  == phase # "down" /\ faults < MaxFaults /\ Gone /\ faults' = faults + 1

-----------------------------------------------------------------------------
(* publish(), called by the loop and for the last snapshot by run().        *)

\* The runtime is copied under the lock, the snapshot is built and numbered.
Fault_Unnumbered == sequence
NextNumber == sequence + 1
Build(w) ==
    /\ sequence' = NextNumber
    /\ data' = [data EXCEPT ![w] = [session |-> session, seq |-> NextNumber,
                                    lifecycle |-> lifecycle, active |-> active]]
    /\ at' = [at EXCEPT ![w] = "open"]
    /\ UNCHANGED <<process, shown, orders, stop, handle, file, history>>

\* open(temporary, "wb"): an existing file of that name is emptied.
Fault_InPlace == "path"
Fault_OtherName == "part"
Temporary == "tmp"
Open(w) ==
    /\ at[w] = "open" /\ at' = [at EXCEPT ![w] = "write"]
    /\ file' = [file EXCEPT ![Temporary] = Torn] /\ handle' = [handle EXCEPT ![w] = Temporary]
    /\ UNCHANGED <<process, shown, orders, wake, stop, numbers, data, history>>

\* write and fsync: over the bytes of another writer the result may be neither,
\* and a file that was replaced in the meantime has no name.
Write(w) ==
    /\ at[w] = "write" /\ at' = [at EXCEPT ![w] = "replace"]
    /\ IF handle[w] \notin Names THEN UNCHANGED file
       ELSE \E text \in {data[w]} \cup (IF file[handle[w]] = Torn THEN {} ELSE {Torn}) :
              file' = [file EXCEPT ![handle[w]] = text]
    /\ UNCHANGED <<process, shown, orders, wake, stop, numbers, data, handle, history>>

\* The call of w is over; `done` says that it replaced the snapshot.
Over(w, done) ==
    /\ at' = [at EXCEPT ![w] = IF w = "loop" THEN "wait" ELSE "off"]
    /\ data' = [data EXCEPT ![w] = None]
    /\ phase' = (IF w = "main" THEN "leaving" ELSE phase)
    /\ ended' = (IF w = "main" THEN done ELSE ended)
    /\ UNCHANGED <<session, shown, orders, wake, stop, numbers, overran, late>>

\* os.replace(): an error if the other writer has taken the temporary name away.
Renamed(name) == CASE name = "tmp" -> "path" [] name = "path" -> "gone" [] OTHER -> name
Replace(w) ==
    /\ at[w] = "replace"
    /\ LET done == file["tmp"] # None IN
       /\ Over(w, done)
       /\ file' = IF done THEN [path |-> file["tmp"], tmp |-> None] ELSE file
       /\ handle' = [v \in Writers |-> IF v = w THEN None
                                       ELSE IF done THEN Renamed(handle[v]) ELSE handle[v]]
    /\ UNCHANGED faults

\* An OSError on the way, caught by the loop, or by run() for the last snapshot.
WriteFails(w) ==
    /\ at[w] \in {"open", "write", "replace"} /\ faults < MaxFaults
    /\ faults' = faults + 1 /\ Over(w, FALSE)
    /\ handle' = [handle EXCEPT ![w] = None] /\ UNCHANGED file

LastSnapshot == phase = "last" /\ at["main"] = "off" /\ Build("main") /\ UNCHANGED <<wake, repeats>>

-----------------------------------------------------------------------------
(* _loop(): it waits for the end of the interval; a request that comes      *)
(* early ends the wait, and the thread waits again.                         *)

UpToDate ==
    Current /\ Published.lifecycle = lifecycle /\ Published.active = active

Fault_OnlyWoken == wake
IntervalEnds == TRUE
LoopDue ==
    /\ at["loop"] = "wait" /\ ~stop /\ IntervalEnds
    /\ UpToDate => repeats < MaxRepeats
    /\ repeats' = IF UpToDate THEN repeats + 1 ELSE repeats
    /\ wake' = FALSE /\ Build("loop")
WokenEarly ==
    /\ at["loop"] = "wait" /\ ~stop /\ wake /\ wake' = FALSE
    /\ UNCHANGED <<process, shown, orders, stop, numbers, files, history>>
LoopStops ==
    /\ at["loop"] = "wait" /\ stop /\ at' = [at EXCEPT !["loop"] = "off"]
    /\ UNCHANGED <<process, shown, orders, wake, stop, numbers, data, handle, file, history>>

-----------------------------------------------------------------------------
Next ==
    \/ Start \/ SetRunning \/ MainStops \/ AcceptStop \/ ShowStop \/ SetActive \/ ClearActive
    \/ Finish \/ StopLoop \/ Join \/ JoinExpires \/ Leave \/ Kill
    \/ LastSnapshot \/ LoopDue \/ WokenEarly \/ LoopStops
    \/ \E w \in Writers : Open(w) \/ Write(w) \/ Replace(w) \/ WriteFails(w)
Spec == Init /\ [][Next]_vars

\* The threads of a process run and time passes; nothing says that a transfer
\* ends, that a stop is ordered or that the controller is started again.
FairSpec ==
    /\ Spec /\ WF_vars(LoopDue) /\ WF_vars(LoopStops) /\ WF_vars(LastSnapshot)
    /\ \A w \in Writers : WF_vars(Open(w) \/ Write(w) \/ Replace(w))
    /\ WF_vars(SetRunning) /\ WF_vars(ShowStop)
    /\ WF_vars(StopLoop) /\ WF_vars(Join) /\ WF_vars(Leave)

-----------------------------------------------------------------------------
(* Properties.                                                             *)

\* Type invariant of the process, its threads and the files.
ProcessType ==
    /\ phase \in {"down", "running", "closing", "joining", "last", "leaving"}
    /\ session \in 0..MaxSessions /\ lifecycle \in Lifecycles
FlagsType ==
    /\ active \in BOOLEAN /\ stopping \in BOOLEAN /\ command \in BOOLEAN /\ wake \in BOOLEAN
    /\ stop \in BOOLEAN /\ overran \in BOOLEAN /\ late \in BOOLEAN /\ ended \in BOOLEAN
CountersType == {attempts, sequence, repeats, faults} \subseteq Nat
FilesType ==
    /\ at \in [Writers -> {"off", "wait", "open", "write", "replace"}]
    /\ data \in [Writers -> Snapshots \cup {None}]
    /\ handle \in [Writers -> Names \cup {"gone", None}]
    /\ file \in [Names -> Snapshots \cup {Torn, None}]
TypeOK == ProcessType /\ FlagsType /\ CountersType /\ FilesType

\* A reader of the path finds a whole snapshot whenever it looks: across failed
\* writes, kills at any step of publish() and restarts that find the temporary
\* file of a killed session (publish(), start()). Only a final join that expired
\* with the loop inside publish() is excepted: both then write one file.
PathWhole == ~overran => Published # Torn

\* The snapshots of a session appear at the path in the order of their sequence
\* numbers: the monitor takes each valid one it reads and compares nothing
\* (publish(), stop(), refresh_snapshot() in monitor.py).
Forward ==
    [][Whole(Published) /\ Whole(Published') /\ Published.session = session /\ ~overran'
        => Published'.seq > Published.seq]_Published

\* A session that ended by itself leaves its last snapshot at the path: no slot is
\* busy in it, and its lifecycle is the outcome, unless the control thread, which
\* is stopped later, showed a stop after the outcome was set (the end of run(),
\* stop(), publish(), control_drain_and_stop(), control_checkpoint_stop()).
FinalIsLast ==
    phase = "down" /\ ended /\ ~overran
        => /\ Current /\ Published.seq = sequence /\ ~Published.active
           /\ Published.lifecycle = "final" \/ late

\* What a running controller shows and keeps showing is published: requests to
\* publish are coalesced, some only end a wait, and a write may fail, but no
\* change is lost for good (_loop(), request_publish()).
ChangePublished ==
    /\ phase = "running" /\ active
         ~> (Current /\ Published.active) \/ ~active \/ phase # "running"
    /\ phase = "running" /\ lifecycle = "stopping"
         ~> (Current /\ Published.lifecycle = "stopping") \/ phase # "running"
==============================================================================
