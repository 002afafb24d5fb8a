------------------------------- MODULE Control -------------------------------
(***************************************************************************)
(* The control channel: the monitor that prepares, confirms and sends one  *)
(* request at a time, the thread of ControlServer that serves them, the    *)
(* commands it hands to control_action(), and request_newnym(), which the  *)
(* control thread shares with the transfer threads.                        *)
(*                                                                         *)
(* What a command does to the rows and to the scheduler is in Acquisition, *)
(* Projection and Scheduler; here an effect is only that it happened, for  *)
(* which request, nonce and scope. A request outlives the client that      *)
(* timed out on it and is lost with the process. The process may go down   *)
(* between any two steps: stop() gives up on the control thread after two  *)
(* seconds, so a clean end is no different from a crash here.              *)
(***************************************************************************)
EXTENDS Integers, Sequences

CONSTANTS
    None,         \* no call, no confirmation, no record
    Items,        \* item IDs an operator may select
    Actions,      \* commands the operator may give
    MaxRequests,  \* bound: request IDs
    MaxNonces,    \* bound: confirmations
    MaxSessions,  \* bound: starts of the controller
    MaxAutos,     \* bound: automatic renewals
    Interval,     \* --tor-newnym-interval
    MaxTime       \* bound: the clock

Commands == {"retry_now", "exclude_item", "pause_admission", "renew_tor_circuits"}
ASSUME ActionsAssumption == Actions \subseteq Commands
ASSUME BoundsAssumption ==
    /\ {MaxRequests, MaxNonces, MaxAutos, MaxTime} \subseteq Nat
    /\ {MaxSessions, Interval} \subseteq Nat \ {0}

Requests == 1..MaxRequests
Autos    == {-n : n \in 1..MaxAutos}
Nonces   == 1..MaxNonces
Callers  == {"control", "worker"}

\* item_ids of a request; "run" is a request without item_ids. exclude_item
\* stands for every command that needs item_ids, pause_admission for every
\* command on the run as a whole.
Scopes == {"run"} \cup Items
ScopesOf(a) == CASE a = "retry_now" -> Scopes
                 [] a = "exclude_item" -> Items
                 [] OTHER -> {"run"}
Covers(scope, part) == scope = "run" \/ part = scope

VARIABLES
    server,     \* "listening" or "down"
    session,    \* session_id: number of the start
    issued,     \* number of nonces made so far
    confirmations, \* by nonce: what it was prepared for, until it is used
    completed,  \* responses by request ID, in memory
    late,       \* a request in the backlog whose client has given up
    ctl,        \* the request the control thread is serving, with its answer
    requests,   \* control_requests: durable outcome by request ID
    renewals,   \* tor_renewals: durable rows by audit ID
    renew,      \* where each caller of request_newnym() stands
    clock,
    call,       \* the monitor's outstanding request (control_request_active)
    pending,    \* pending_item_ids
    confirm,    \* action_confirmation while its dialog is open
    sent,       \* by request ID in use: the command and the scope it asked for
    effects,    \* history: effects of commands, in order
    signals     \* history: NEWNYM signals that Tor accepted, in order

memory  == <<issued, confirmations, completed>>
durable == <<requests, renewals>>
history == <<effects, signals>>
monitor == <<pending, confirm, sent>>
vars == <<server, session, memory, late, ctl, durable, renew, clock, call, monitor, history>>

Outcomes == {"completed", "rejected", "failed"}
Audits   == Requests \cup Autos
Grant   == [action : Actions, scope : Scopes, session : 1..MaxSessions, live : BOOLEAN]
Message == [op : {"state", "prepare", "act"}, action : Actions \cup {None},
            scope : Scopes, nonce : Nonces \cup {None}, request : Requests \cup {None},
            session : 1..MaxSessions, open : BOOLEAN]
Rows    == [outcome : Outcomes \cup {"pending"}, at : (0..MaxTime) \cup {None}]
Renews  == [id : Audits, at : {"signal", "completed", "failed"}, since : 0..MaxTime]
               \cup [id : Audits, at : {"audit"}, since : {None}]
EffectSet == [request : Requests, nonce : Nonces, action : Actions, scope : Scopes,
              session : 1..MaxSessions, grant : Grant]
SignalSet == [id : Audits, at : 0..MaxTime]
Answering == [msg : Message, at : {"reply"}, outcome : Outcomes, value : Nonces \cup {None}]
Renewing  == [msg : Message, at : {"renew"}, outcome : {None}, value : EffectSet]
Dialogs   == [nonce : Nonces, action : Actions]
Sendings  == [action : Actions, scope : Scopes]
Asked     == [action : Actions, parts : SUBSET Scopes]
ASSUME NoneAssumption ==
    /\ None \notin Outcomes \cup {"pending"} /\ None \notin Requests \cup Nonces
    /\ None \notin Grant /\ None \notin Message /\ None \notin Rows /\ None \notin Renews
    /\ None \notin Answering /\ None \notin Renewing
    /\ None \notin Dialogs /\ None \notin Sendings /\ None \notin Asked

Init ==
    /\ server = "listening" /\ session = 1
    /\ issued = 0 /\ confirmations = [n \in Nonces |-> None]
    /\ completed = [r \in Requests |-> None]
    /\ late = None /\ ctl = None
    /\ requests = [r \in Requests |-> None]
    /\ renewals = [a \in Requests \cup Autos |-> None]
    /\ renew = [c \in Callers |-> None] /\ clock = 0
    /\ call = None /\ pending = "run" /\ confirm = None
    /\ sent = [r \in Requests |-> None]
    /\ effects = <<>> /\ signals = <<>>

-----------------------------------------------------------------------------
(* The monitor. Which keys it offers depends on what it last read; a key    *)
(* that is not offered is a key that is not pressed.                        *)

\* control_request() reads the session file of the latest start, then connects.
Call(op, a, s, n, r) ==
    [op |-> op, action |-> a, scope |-> s, nonce |-> n, request |-> r,
     session |-> session, open |-> TRUE]
ServerIdle == UNCHANGED <<server, session, memory, late, ctl, durable, renew, clock, history>>

\* submit_control_request() drops the operation while another one is active.
Submit(m) == call' = IF call = None THEN m ELSE call

\* A key or a row action: the selection is remembered even if the request is not sent.
Prepare(a, s) ==
    /\ confirm = None /\ issued < MaxNonces
    /\ a \in Actions /\ s \in ScopesOf(a)
    /\ pending' = s /\ Submit(Call("prepare", a, s, None, None))
    /\ UNCHANGED <<confirm, sent>> /\ ServerIdle

\* render_frame() asks for the control state twice a second.
Poll ==
    /\ call = None /\ Submit(Call("state", None, "run", None, None))
    /\ UNCHANGED monitor /\ ServerIdle

Dismiss ==
    /\ confirm # None /\ confirm' = None /\ pending' = "run"
    /\ UNCHANGED <<call, sent>> /\ ServerIdle

\* action_confirmation_complete(): a fresh request ID, the nonce, the selection.
Confirm(r) ==
    /\ confirm # None /\ sent[r] = None /\ \A q \in 1..(r - 1) : sent[q] # None
    /\ Submit(Call("act", confirm.action, pending, confirm.nonce, r))
    /\ sent' = IF call = None
               THEN [sent EXCEPT ![r] = [action |-> confirm.action, scope |-> pending]]
               ELSE sent
    /\ confirm' = None /\ pending' = "run"
    /\ ServerIdle

\* A caller of control_request() repeats a request under its old request ID,
\* with any nonce that was made.
Repeat(r, n) ==
    /\ call = None /\ sent[r] # None /\ n <= issued
    /\ Submit(Call("act", sent[r].action, sent[r].scope, n, r))
    /\ UNCHANGED monitor /\ ServerIdle

Served == ctl # None /\ ctl.msg.open
Closed(m) == [m EXCEPT !.open = FALSE]

\* The socket is gone or refuses, or two seconds pass without an answer. A
\* request that was already written to the socket stays in its backlog (one of
\* the monitor's polls would have no effect there).
CallFails ==
    /\ call # None
    /\ pending' = IF call.op = "prepare" THEN "run" ELSE pending
    /\ call' = None
    /\ \/ Served /\ ctl' = [ctl EXCEPT !.msg = Closed(@)] /\ UNCHANGED late
       \/ ~Served /\ UNCHANGED <<ctl, late>>
       \/ /\ ~Served /\ late = None /\ call.op # "state" /\ server # "down"
          /\ late' = Closed(call) /\ UNCHANGED ctl
    /\ UNCHANGED <<server, session, memory, durable, renew, clock, confirm, sent, history>>

-----------------------------------------------------------------------------
(* The control thread: one connection at a time.                           *)

MonitorIdle == UNCHANGED <<call, monitor, clock, server, session>>
Receive(m)  == /\ server = "listening" /\ ctl = None
               /\ late' = IF m.open THEN late ELSE None
Answer(m, outcome, value) ==
    ctl' = [msg |-> m, at |-> "reply", outcome |-> outcome, value |-> value]
SameSession(m) == m.session = session

\* _handle() rejects a request that was made for another session.
HandleForeign(m) ==
    /\ Receive(m) /\ ~SameSession(m)
    /\ Answer(m, "rejected", None)
    /\ UNCHANGED <<memory, durable, renew, history>> /\ MonitorIdle

HandleState(m) ==
    /\ Receive(m) /\ SameSession(m) /\ m.op = "state"
    /\ Answer(m, "completed", None)
    /\ UNCHANGED <<memory, durable, renew, history>> /\ MonitorIdle

HandlePrepare(m) ==
    /\ Receive(m) /\ SameSession(m) /\ m.op = "prepare" /\ issued < MaxNonces
    /\ issued' = issued + 1
    /\ confirmations' = [confirmations EXCEPT ![issued + 1] =
           [action |-> m.action, scope |-> m.scope, session |-> session, live |-> TRUE]]
    /\ Answer(m, "completed", issued + 1)
    /\ UNCHANGED <<completed, durable, renew, history>> /\ MonitorIdle

Acting(m) == Receive(m) /\ SameSession(m) /\ m.op = "act"
Replayed(m) == completed[m.request] # None

HandleReplay(m) ==
    /\ Acting(m) /\ Replayed(m)
    /\ Answer(m, completed[m.request], None)
    /\ UNCHANGED <<memory, durable, renew, history>> /\ MonitorIdle

Fault_NotPopped(n) == UNCHANGED confirmations
\* The nonce is taken before it is examined.
Pop(n) == confirmations' = [confirmations EXCEPT ![n] = None]
Granted(m) == confirmations[m.nonce]
Fault_StaleAccepted(m) == Granted(m) # None /\ Granted(m).action = m.action
Confirmed(m) == Granted(m) # None /\ Granted(m).live /\ Granted(m).action = m.action

HandleUnconfirmed(m) ==
    /\ Acting(m) /\ ~Replayed(m) /\ ~Confirmed(m)
    /\ Pop(m.nonce) /\ Answer(m, "rejected", None)
    /\ UNCHANGED <<issued, completed, durable, renew, history>> /\ MonitorIdle

\* The item_ids that were prepared replace those of the request, if there were any.
Fault_ClientScope(m) == m.scope
ScopeOf(m) == IF Granted(m).scope = "run" THEN m.scope ELSE Granted(m).scope
Effect(m) == [request |-> m.request, nonce |-> m.nonce, action |-> m.action,
              scope |-> ScopeOf(m), session |-> session, grant |-> Granted(m)]

\* The lookup in control_requests that starts every command.
Fault_NoLookup(m) == FALSE
Recorded(m) == requests[m.request] # None

Fault_KeepsAny(m, outcome) ==
    completed' = [completed EXCEPT ![m.request] = outcome] /\ Answer(m, outcome, None)
\* _confirmed_action() keeps the outcomes it knows and rejects any other.
Conclude(m, outcome) ==
    /\ completed' = IF outcome \in Outcomes
                    THEN [completed EXCEPT ![m.request] = outcome] ELSE completed
    /\ Answer(m, IF outcome \in Outcomes THEN outcome ELSE "rejected", None)

HandleRecorded(m) ==
    /\ Acting(m) /\ ~Replayed(m) /\ Confirmed(m) /\ Recorded(m)
    /\ Pop(m.nonce) /\ Conclude(m, requests[m.request])
    /\ UNCHANGED <<issued, durable, renew, history>> /\ MonitorIdle

\* A command on admission is rejected when the flags already say so.
Verdicts(a) == IF a = "pause_admission" THEN {"completed", "rejected"} ELSE {"completed"}
New(m) == Acting(m) /\ ~Replayed(m) /\ Confirmed(m) /\ ~Recorded(m)

\* control_action() for every command but a renewal: effect and record are one
\* transaction under db_lock. A pause, resume, drain or stop sets its flag in memory
\* before it records that it did; the two are one step here, as a kill between them
\* ends the flag with the process.
HandleCommand(m, verdict) ==
    /\ New(m) /\ m.action # "renew_tor_circuits" /\ verdict \in Verdicts(m.action)
    /\ Pop(m.nonce) /\ Conclude(m, verdict)
    /\ effects' = IF verdict = "completed" THEN Append(effects, Effect(m)) ELSE effects
    /\ requests' = [requests EXCEPT ![m.request] = verdict]
    /\ UNCHANGED <<issued, renewals, renew, signals>> /\ MonitorIdle

\* The answer reaches the client, or finds its connection closed.
Reply ==
    /\ server = "listening" /\ ctl # None /\ ctl.at = "reply"
    /\ ctl' = None
    /\ LET m == ctl.msg
           ok == ctl.outcome = "completed" IN
       IF ~m.open THEN UNCHANGED <<call, pending, confirm>>
       ELSE /\ call' = None
            /\ pending' = IF m.op = "prepare" /\ ~ok THEN "run" ELSE pending
            /\ confirm' = IF m.op = "prepare" /\ ok
                          THEN [nonce |-> ctl.value, action |-> m.action] ELSE confirm
    /\ UNCHANGED <<server, session, memory, late, durable, renew, clock, sent, history>>

-----------------------------------------------------------------------------
(* request_newnym(), called by the control thread and by transfer threads. *)

Row(outcome, at) == [outcome |-> outcome, at |-> at]
Write(id, row)   == renewals' = [renewals EXCEPT ![id] = row]
Stage(c, id, at, since) == renew' = [renew EXCEPT ![c] = [id |-> id, at |-> at, since |-> since]]
RenewIdle == UNCHANGED <<server, session, issued, confirmations, late, clock, call, monitor>>

\* MAX(successful_at) of the durable rows, and the rate limit.
Successes == {renewals[a].at : a \in {b \in DOMAIN renewals :
                 renewals[b] # None /\ renewals[b].outcome = "completed"}}
Limited == \E t \in Successes : clock < t + Interval

\* Under newnym_lock and db_lock: the row of an earlier call, the rate limit,
\* or a pending row. The locks are released before the signal.
Fault_NoPendingRow(id) == UNCHANGED renewals
RecordPending(id) == Write(id, Row("pending", None))
Check(c, id) ==
    \/ renewals[id] # None /\ Stage(c, id, "audit", None) /\ UNCHANGED renewals
    \/ /\ renewals[id] = None /\ Limited
       /\ Write(id, Row("rejected", None)) /\ Stage(c, id, "audit", None)
    \/ /\ renewals[id] = None /\ ~Limited
       /\ RecordPending(id) /\ Stage(c, id, "signal", clock)

\* control_renew_tor_circuits() is handed a confirmed request.
HandleRenewal(m) ==
    /\ New(m) /\ m.action = "renew_tor_circuits"
    /\ Pop(m.nonce)
    /\ ctl' = [msg |-> m, at |-> "renew", outcome |-> None, value |-> Effect(m)]
    /\ Check("control", m.request)
    /\ UNCHANGED <<issued, completed, requests, history>> /\ MonitorIdle

\* A connectivity failure makes a transfer thread ask under a new audit ID.
StartAutomatic(id) ==
    /\ server # "down" /\ renew["worker"] = None /\ renewals[id] = None
    /\ Check("worker", id)
    /\ UNCHANGED <<completed, ctl, requests, history>> /\ RenewIdle

RenewAt(c, at) == renew[c] # None /\ renew[c].at = at

\* send_tor_newnym(): accepted, accepted with its answer lost, or refused.
RenewSignal(c) ==
    /\ RenewAt(c, "signal")
    /\ \/ /\ \E at \in {"completed", "failed"} : Stage(c, renew[c].id, at, renew[c].since)
          /\ signals' = Append(signals, [id |-> renew[c].id, at |-> renew[c].since])
          /\ effects' = IF c = "control" THEN Append(effects, ctl.value) ELSE effects
       \/ Stage(c, renew[c].id, "failed", renew[c].since) /\ UNCHANGED history
    /\ UNCHANGED <<completed, ctl, durable>> /\ RenewIdle

\* The terminal result replaces the pending row, stamped with the time of the check.
RenewRecord(c) ==
    /\ RenewAt(c, "completed") \/ RenewAt(c, "failed")
    /\ Write(renew[c].id, Row(renew[c].at,
                              IF renew[c].at = "completed" THEN renew[c].since ELSE None))
    /\ Stage(c, renew[c].id, "audit", None)
    /\ UNCHANGED <<completed, ctl, requests, history>> /\ RenewIdle

\* The control thread records its request in a second transaction.
Fault_NoAudit(r) == requests
AuditOf(r) == [requests EXCEPT ![r] = renewals[r].outcome]
RenewAudit(c) ==
    /\ RenewAt(c, "audit")
    /\ renew' = [renew EXCEPT ![c] = None]
    /\ \/ c = "worker" /\ UNCHANGED <<requests, completed, ctl>>
       \/ /\ c = "control" /\ requests' = AuditOf(ctl.msg.request)
          /\ Conclude(ctl.msg, renewals[ctl.msg.request].outcome)
    /\ UNCHANGED <<renewals, history>> /\ RenewIdle

-----------------------------------------------------------------------------
(* The process, its clients and time.                                      *)

\* stop(), or a crash: confirmations and responses live in the process.
GoesDown ==
    /\ server # "down" /\ server' = "down"
    /\ ctl' = None /\ late' = None /\ renew' = [c \in Callers |-> None]
    /\ confirmations' = [n \in Nonces |-> None] /\ completed' = [r \in Requests |-> None]
    /\ UNCHANGED <<session, issued, durable, clock, call, monitor, history>>

Start ==
    /\ server = "down" /\ session < MaxSessions
    /\ server' = "listening" /\ session' = session + 1
    /\ UNCHANGED <<memory, late, ctl, durable, renew, clock, call, monitor, history>>

\* time.monotonic() passes the expiry of a confirmation.
NonceExpires(n) ==
    /\ confirmations[n] # None /\ confirmations[n].live
    /\ confirmations' = [confirmations EXCEPT ![n].live = FALSE]
    /\ UNCHANGED <<server, session, issued, completed, late, ctl, durable, renew, clock, call,
                   monitor, history>>

Tick ==
    /\ clock < MaxTime /\ clock' = clock + 1
    /\ UNCHANGED <<server, session, memory, late, ctl, durable, renew, call, monitor, history>>

-----------------------------------------------------------------------------
Operator ==
    \/ \E a \in Actions, s \in Scopes : Prepare(a, s)
    \/ Poll \/ Dismiss
    \/ \E r \in Requests : Confirm(r) \/ \E n \in Nonces : Repeat(r, n)
Handle(m) ==
    \/ HandleForeign(m) \/ HandleState(m) \/ HandlePrepare(m) \/ HandleReplay(m)
    \/ HandleUnconfirmed(m) \/ HandleRecorded(m) \/ HandleRenewal(m)
    \/ \E verdict \in Outcomes : HandleCommand(m, verdict)
Serve == Reply \/ \E m \in {call, late} \ {None} : Handle(m)
Renewal(c) == RenewSignal(c) \/ RenewRecord(c) \/ RenewAudit(c)

Process == GoesDown \/ Start \/ \E n \in Nonces : NonceExpires(n)
Automatic == Tick \/ Renewal("worker") \/ \E id \in Autos : StartAutomatic(id)

\* The channel by itself, and the channel with a transfer thread that asks for
\* fresh circuits of its own accord.
ChannelNext == Operator \/ CallFails \/ Serve \/ Renewal("control") \/ Process
ChannelSpec == Init /\ [][ChannelNext]_vars

Next == ChannelNext \/ Automatic
Spec == Init /\ [][Next]_vars

-----------------------------------------------------------------------------
(* Properties.                                                             *)

Effects == {effects[k] : k \in DOMAIN effects}

\* Type invariant of the process and its memory, of the durable rows, of the
\* monitor and of what happened.
ServerType ==
    /\ server \in {"down", "listening"} /\ session \in 1..MaxSessions
    /\ issued \in 0..MaxNonces /\ confirmations \in [Nonces -> Grant \cup {None}]
    /\ completed \in [Requests -> Outcomes \cup {None}]
    /\ late \in Message \cup {None} /\ ctl \in Answering \cup Renewing \cup {None}
DurableType ==
    /\ requests \in [Requests -> Outcomes \cup {"pending", None}]
    /\ renewals \in [Audits -> Rows \cup {None}]
    /\ renew \in [Callers -> Renews \cup {None}] /\ clock \in 0..MaxTime
MonitorType ==
    /\ call \in Message \cup {None} /\ pending \in Scopes
    /\ confirm \in Dialogs \cup {None} /\ sent \in [Requests -> Sendings \cup {None}]
HistoryType == effects \in Seq(EffectSet) /\ signals \in Seq(SignalSet)
TypeOK == ServerType /\ DurableType /\ MonitorType /\ HistoryType

\* A request ID takes effect at most once, however often it is repeated, with
\* whatever nonce, and across a crash at any step: the lookups in completed,
\* control_requests and tor_renewals close every window. A nonce authorises at
\* most one effect, though two requests may carry it.
OnlyOnce ==
    \A j, k \in DOMAIN effects : j # k =>
        effects[j].request # effects[k].request /\ effects[j].nonce # effects[k].nonce

\* An effect stays within what its nonce was prepared for: that command, those
\* items, that session, within its lifetime, even when the monitor's selection
\* changed after the request for the confirmation had left.
WithinGrant ==
    \A e \in Effects :
        /\ e.grant.live /\ e.grant.session = e.session
        /\ e.grant.action = e.action /\ Covers(e.grant.scope, e.scope)

\* Every effect has left a durable trace by the time it can be seen: a command
\* its request, a signal to Tor its renewal row, if only a pending one. An answer
\* that reports a command as completed is recorded as completed before it leaves.
EffectsAudited ==
    /\ \A e \in Effects : e.action # "renew_tor_circuits" => requests[e.request] # None
    /\ \A k \in DOMAIN signals : renewals[signals[k].id] # None
    /\ ctl # None /\ ctl.at = "reply" /\ ctl.msg.op = "act" /\ ctl.outcome = "completed" =>
           requests[ctl.msg.request] = "completed"

\* Accepted renewals are at least the interval apart, whoever asked for them.
SignalsSpaced ==
    \A j, k \in DOMAIN signals : j < k => signals[k].at >= signals[j].at + Interval

\* The channel implements Consent. An offer stands in its session while its
\* confirmation is live, and for a renewal, whose nonce is taken before the locks of
\* request_newnym(), until its signal is accepted or refused.
Asks(grant) == [action |-> grant.action, parts |-> {p \in Scopes : Covers(grant.scope, p)}]
Signalling == RenewAt("control", "signal")
Stands(n) ==
    IF Signalling /\ ctl.value.nonce = n THEN Asks(ctl.value.grant)
    ELSE IF /\ confirmations[n] # None /\ confirmations[n].live
            /\ confirmations[n].session = session
         THEN Asks(confirmations[n])
    ELSE None
Deed(e) == [request |-> e.request, nonce |-> e.nonce, action |-> e.action, scope |-> e.scope]

Agreement == INSTANCE Consent WITH
    offered  <- 1..issued,
    standing <- [n \in Nonces |-> Stands(n)],
    done     <- [k \in DOMAIN effects |-> Deed(effects[k])]
ConsentKept == Agreement!Spec
==============================================================================
