---------------------------- MODULE ControlProofs ----------------------------
(***************************************************************************)
(* Proofs about Control, for every value of its constants.                 *)
(***************************************************************************)
EXTENDS Control, TLAPS

\* What is in memory belongs to the process and to its session.
Memory ==
    /\ server = "down" =>
           /\ ctl = None /\ late = None
           /\ \A n \in Nonces : confirmations[n] = None
           /\ \A r \in Requests : completed[r] = None
           /\ \A c \in Callers : renew[c] = None
    /\ \A n \in Nonces : confirmations[n] # None =>
           n <= issued /\ confirmations[n].session = session

\* A request names its request ID, its nonce and the command that was first sent
\* under that ID, wherever it is: outstanding, in the backlog or being served.
Identified(m) ==
    /\ m.op # "state" => m.action \in Actions
    /\ m.op = "act" => /\ m.nonce \in Nonces /\ m.request \in Requests
                       /\ sent[m.request] # None /\ sent[m.request].action = m.action
Identities ==
    /\ call # None => Identified(call)
    /\ late # None => Identified(late)
    /\ ctl # None => Identified(ctl.msg)

\* An answer that the monitor or the session file can take at its word.
Answers ==
    /\ \A r \in Requests : completed[r] = "completed" => requests[r] = "completed"
    /\ ctl # None /\ ctl.at = "reply" /\ ctl.outcome = "completed" =>
           /\ ctl.msg.op = "prepare" => ctl.value \in Nonces
           /\ ctl.msg.op = "act" => requests[ctl.msg.request] = "completed"

\* A nonce that was used up is not given out again.
Spent(n) == n <= issued /\ confirmations[n] = None

\* What an effect rests on: a nonce, a grant that covers it, and the command first
\* sent under its request ID.
Grounded(e) ==
    /\ Spent(e.nonce) /\ sent[e.request] # None /\ sent[e.request].action = e.action
    /\ e.grant.live /\ e.grant.session = e.session /\ e.grant.action = e.action
    /\ Covers(e.grant.scope, e.scope)

\* An effect that happened has a durable trace, which is what the next request
\* under its ID meets.
Traced(e) == IF e.action = "renew_tor_circuits" THEN renewals[e.request] # None
             ELSE requests[e.request] # None
Traces ==
    /\ \A k \in DOMAIN effects : Grounded(effects[k]) /\ Traced(effects[k])
    /\ \A k \in DOMAIN signals : renewals[signals[k].id] # None

\* A renewal in progress: its row is there, its request is unanswered, and until
\* the signal is sent no effect has its request ID or its nonce.
Renewed ==
    /\ \A c \in Callers : RenewAt(c, "signal") => renewals[renew[c].id] # None
    /\ renew["control"] # None => ctl # None /\ ctl.at = "renew"
    /\ ctl # None /\ ctl.at = "renew" =>
           LET r == ctl.msg.request IN
           /\ ctl.msg.op = "act" /\ ctl.value.request = r
           /\ ctl.value.action = "renew_tor_circuits" /\ Grounded(ctl.value)
           /\ requests[r] = None /\ completed[r] = None /\ renewals[r] # None
           /\ renew["control"] # None /\ renew["control"].id = r
           /\ RenewAt("control", "signal") =>
                  \A e \in Effects : e.request # r /\ e.nonce # ctl.value.nonce

Inv == /\ TypeOK /\ Memory /\ Identities /\ Answers /\ Traces /\ Renewed
       /\ OnlyOnce

\* Initially nothing has happened.
LEMMA InitInv == Init => Inv
<1> SUFFICES ASSUME Init PROVE Inv
  OBVIOUS
<1>1. TypeOK
  <2>1. ServerType /\ DurableType
    BY BoundsAssumption DEF Init, ServerType, DurableType, Audits
  <2>2. MonitorType /\ HistoryType
    BY DEF Init, MonitorType, HistoryType, Scopes
  <2> QED
    BY <2>1, <2>2 DEF TypeOK
<1>2. Memory /\ Identities /\ Answers
  BY NoneAssumption DEF Init, Memory, Identities, Answers
<1>3. Traces /\ Renewed /\ OnlyOnce
  BY DEF Init, Traces, Renewed, RenewAt, OnlyOnce, Callers
<1> QED
  BY <1>1, <1>2, <1>3 DEF Inv

\* The monitor's own steps leave the process alone; a request ID once used keeps
\* its command.
LEMMA OperatorStep ==
    ASSUME Inv, Operator
    PROVE  Inv'
<1>1. /\ ServerIdle
      /\ call' \in Message \cup {None} /\ pending' \in Scopes
      /\ confirm' \in Dialogs \cup {None} /\ sent' \in [Requests -> Sendings \cup {None}]
      /\ \A r \in Requests : sent[r] # None => sent'[r] = sent[r]
      /\ call' # None /\ call' # call => Identified(call)'
  <2> USE DEF Inv, TypeOK, ServerType, MonitorType, Submit, Call, Message, Scopes
  <2>1. CASE \E a \in Actions, s \in Scopes : Prepare(a, s)
    BY <2>1 DEF Prepare, Identified
  <2>2. CASE Poll
    BY <2>2 DEF Poll, Identified, monitor
  <2>3. CASE Dismiss
    BY <2>3 DEF Dismiss
  <2>4. CASE \E r \in Requests : Confirm(r)
    <3>1. PICK r \in Requests : Confirm(r)
      BY <2>4
    <3>2. confirm \in Dialogs
      BY <3>1 DEF Confirm
    <3>3. ServerIdle /\ confirm' = None /\ pending' = "run"
      BY <3>1 DEF Confirm
    <3> DEFINE m == Call("act", confirm.action, pending, confirm.nonce, r)
               p == [action |-> confirm.action, scope |-> pending]
    <3>4. m \in Message /\ p \in Sendings
      BY <3>2 DEF Dialogs, Sendings
    <3>5. call' = (IF call = None THEN m ELSE call)
          /\ sent' = (IF call = None THEN [sent EXCEPT ![r] = p] ELSE sent)
      BY <3>1 DEF Confirm
    <3>6. p # None /\ m.op = "act" /\ m.action = p.action /\ m.request = r
          /\ m.nonce \in Nonces /\ m.action \in Actions
      BY <3>2, <3>4, NoneAssumption DEF Dialogs
    <3>7. sent[r] = None
      BY <3>1 DEF Confirm
    <3> HIDE DEF m, p
    <3>8. sent' \in [Requests -> Sendings \cup {None}]
          /\ \A q \in Requests : sent[q] # None => sent'[q] = sent[q]
      BY <3>4, <3>5, <3>7
    <3>9. call' # None /\ call' # call => Identified(call)'
      BY <3>5, <3>6 DEF Identified
    <3> QED
      BY <3>3, <3>4, <3>5, <3>8, <3>9
  <2>5. CASE \E r \in Requests, n \in Nonces : Repeat(r, n)
    <3>1. PICK r \in Requests, n \in Nonces : Repeat(r, n)
      BY <2>5
    <3>2. sent[r] \in Sendings
      BY <3>1 DEF Repeat
    <3> QED
      BY <3>1, <3>2 DEF Repeat, Identified, Sendings, monitor
  <2> QED
    BY <2>1, <2>2, <2>3, <2>4, <2>5 DEF Operator
<1>2. UNCHANGED <<server, session, issued, confirmations, completed, late, ctl, requests,
                  renewals, renew, clock, effects, signals>>
  BY <1>1 DEF ServerIdle, memory, durable, history
<1>3. TypeOK'
  <2>1. ServerType' /\ DurableType' /\ HistoryType'
    BY <1>2 DEF Inv, TypeOK, ServerType, DurableType, HistoryType
  <2>2. MonitorType'
    BY <1>1 DEF MonitorType
  <2> QED
    BY <2>1, <2>2 DEF TypeOK
<1>4. Memory' /\ Answers' /\ OnlyOnce'
  BY <1>2 DEF Inv, Memory, Answers, OnlyOnce
<1>5. Identities'
  <2>1. \A m : Identified(m) => Identified(m)'
    BY <1>1 DEF Identified
  <2>2. call # None /\ call' = call => Identified(call)'
    BY <2>1 DEF Inv, Identities, Identified
  <2>3. late # None => Identified(late)'
    BY <1>2, <2>1 DEF Inv, Identities, Identified
  <2>4. ctl # None => Identified(ctl.msg)'
    BY <1>2, <2>1 DEF Inv, Identities, Identified
  <2> QED
    BY <1>1, <1>2, <2>2, <2>3, <2>4 DEF Identities
<1>6. \A e \in EffectSet : Grounded(e) => Grounded(e)'
  BY <1>1, <1>2 DEF Grounded, Spent, EffectSet
<1>7. Traces'
  <2>1. \A k \in DOMAIN effects : effects[k] \in EffectSet
    BY DEF Inv, TypeOK, HistoryType
  <2> QED
    BY <1>2, <1>6, <2>1 DEF Inv, Traces, Traced
<1>8. Renewed'
  <2>1. ctl # None /\ ctl.at = "renew" => ctl.value \in EffectSet
    BY DEF Inv, TypeOK, ServerType, Answering, Renewing
  <2> QED
    BY <1>2, <1>6, <2>1 DEF Inv, Renewed, RenewAt, Effects
<1> QED
  BY <1>3, <1>4, <1>5, <1>7, <1>8 DEF Inv

-----------------------------------------------------------------------------
\* A request that the control thread takes up is one of the two it can see, and
\* it is idle: no renewal of its own is under way.
LEMMA Received ==
    ASSUME Inv, NEW m \in {call, late} \ {None}, Receive(m)
    PROVE  /\ server = "listening" /\ ctl = None /\ renew["control"] = None
           /\ m \in Message /\ Identified(m) /\ late' \in {late, None}
BY DEF Receive, Inv, TypeOK, ServerType, MonitorType, Identities, Renewed, Callers

\* What a nonce that is taken leaves of the confirmations.
LEMMA Popped ==
    ASSUME Inv, NEW n \in Nonces, Pop(n), UNCHANGED issued
    PROVE  /\ confirmations' \in [Nonces -> Grant \cup {None}] /\ Spent(n)' = (n <= issued)
           /\ \A k \in Nonces : confirmations'[k] \in {confirmations[k], None}
BY DEF Pop, Spent, Inv, TypeOK, ServerType

\* An effect that rests on a spent nonce keeps its ground while no nonce is given
\* out twice and no request ID changes its command.
LEMMA Keeps ==
    ASSUME NEW e, Grounded(e), UNCHANGED sent, Spent(e.nonce) => Spent(e.nonce)'
    PROVE  Grounded(e)'
BY DEF Grounded

\* The step of a request that is answered at once and has no effect.
LEMMA Answered ==
    ASSUME Inv, NEW m \in {call, late} \ {None}, Receive(m), MonitorIdle,
           UNCHANGED <<requests, renewals, renew, effects, signals>>,
           ctl' \in Answering, ctl'.msg = m,
           issued' \in 0..MaxNonces, confirmations' \in [Nonces -> Grant \cup {None}],
           \A n \in Nonces : Spent(n) => Spent(n)',
           \A n \in Nonces : confirmations'[n] # None =>
               n <= issued' /\ confirmations'[n].session = session,
           completed' \in [Requests -> Outcomes \cup {None}],
           \A r \in Requests : completed'[r] = "completed" => requests[r] = "completed",
           ctl'.outcome = "completed" =>
               /\ m.op = "prepare" => ctl'.value \in Nonces
               /\ m.op = "act" => requests[m.request] = "completed"
    PROVE  Inv'
<1>1. /\ server = "listening" /\ ctl = None /\ renew["control"] = None
      /\ m \in Message /\ Identified(m) /\ late' \in {late, None}
  BY Received
<1>2. UNCHANGED <<call, pending, confirm, sent, clock, server, session>>
  BY DEF MonitorIdle, monitor
<1>3. TypeOK'
  <2>1. ServerType'
    BY <1>1, <1>2 DEF Inv, TypeOK, ServerType
  <2>2. DurableType' /\ MonitorType' /\ HistoryType'
    BY <1>2 DEF Inv, TypeOK, DurableType, MonitorType, HistoryType
  <2> QED
    BY <2>1, <2>2 DEF TypeOK
<1>4. Memory' /\ Answers' /\ OnlyOnce'
  BY <1>1, <1>2 DEF Inv, Memory, Answers, OnlyOnce
<1>5. Identities'
  BY <1>1, <1>2 DEF Inv, Identities, Identified
<1>6. Traces'
  <2>1. \A k \in DOMAIN effects : effects[k] \in EffectSet
    BY DEF Inv, TypeOK, HistoryType
  <2>2. ASSUME NEW k \in DOMAIN effects PROVE Grounded(effects[k])' /\ Traced(effects[k])'
    <3>1. Grounded(effects[k])
      BY DEF Inv, Traces
    <3> QED
      BY <1>2, <2>1, <3>1 DEF EffectSet, Grounded, Traced, Inv, Traces
  <2> QED
    BY <2>2 DEF Inv, Traces
<1>7. Renewed'
  BY <1>1 DEF Inv, Renewed, RenewAt, Answering
<1> QED
  BY <1>3, <1>4, <1>5, <1>6, <1>7 DEF Inv

\* The answer of _handle() is typed, whatever the outcome.
LEMMA AnswerType ==
    ASSUME NEW m \in Message, NEW outcome \in Outcomes, NEW value \in Nonces \cup {None},
           Answer(m, outcome, value)
    PROVE  /\ ctl' \in Answering /\ ctl'.msg = m
           /\ ctl'.outcome = outcome /\ ctl'.value = value
BY DEF Answer, Answering

\* Requests that are turned down or read only.
LEMMA ReadOnlyStep ==
    ASSUME Inv, NEW m \in {call, late} \ {None},
           HandleForeign(m) \/ HandleState(m) \/ HandleReplay(m)
    PROVE  Inv'
<1>1. Receive(m) /\ m \in Message /\ Identified(m) /\ MonitorIdle
  BY Received DEF HandleForeign, HandleState, HandleReplay, Acting
<1>2. UNCHANGED <<issued, confirmations, completed, requests, renewals, renew, effects, signals>>
  BY DEF HandleForeign, HandleState, HandleReplay, memory, durable, history
<1>3. PICK outcome \in Outcomes :
         /\ Answer(m, outcome, None)
         /\ outcome = "completed" => m.op # "prepare"
                                  /\ (m.op = "act" => completed[m.request] = "completed")
  <2>1. CASE HandleForeign(m)
    BY <2>1 DEF HandleForeign, Outcomes
  <2>2. CASE HandleState(m)
    BY <2>2 DEF HandleState, Outcomes
  <2>3. CASE HandleReplay(m)
    BY <1>1, <2>3 DEF HandleReplay, Acting, Replayed, Identified, Inv, TypeOK, ServerType
  <2> QED
    BY <2>1, <2>2, <2>3
<1>4. ctl' \in Answering /\ ctl'.msg = m /\ ctl'.outcome = outcome
  BY <1>1, <1>3, AnswerType
<1>5. ctl'.outcome = "completed" => m.op # "prepare"
          /\ (m.op = "act" => requests[m.request] = "completed")
  BY <1>1, <1>3, <1>4 DEF Identified, Inv, Answers
<1>6. /\ issued' \in 0..MaxNonces /\ confirmations' \in [Nonces -> Grant \cup {None}]
      /\ \A n \in Nonces : Spent(n) => Spent(n)'
      /\ \A n \in Nonces : confirmations'[n] # None =>
             n <= issued' /\ confirmations'[n].session = session
      /\ completed' \in [Requests -> Outcomes \cup {None}]
      /\ \A r \in Requests : completed'[r] = "completed" => requests[r] = "completed"
  BY <1>2 DEF Spent, Inv, TypeOK, ServerType, Memory, Answers
<1> QED
  BY <1>1, <1>2, <1>4, <1>5, <1>6, Answered

\* A confirmation is prepared: its nonce was never given out.
LEMMA PrepareStep ==
    ASSUME Inv, NEW m \in {call, late} \ {None}, HandlePrepare(m)
    PROVE  Inv'
<1> DEFINE grant == [action |-> m.action, scope |-> m.scope, session |-> session, live |-> TRUE]
<1>1. Receive(m) /\ m \in Message /\ Identified(m) /\ MonitorIdle /\ m.op = "prepare"
  BY Received DEF HandlePrepare
<1>2. /\ UNCHANGED <<completed, requests, renewals, renew, effects, signals>>
      /\ issued' = issued + 1 /\ confirmations' = [confirmations EXCEPT ![issued + 1] = grant]
      /\ Answer(m, "completed", issued + 1)
  BY DEF HandlePrepare, durable, history
<1>3. issued \in 0..MaxNonces /\ issued + 1 \in Nonces /\ session \in 1..MaxSessions
  BY BoundsAssumption DEF HandlePrepare, Nonces, Inv, TypeOK, ServerType
<1>4. grant \in Grant
  BY <1>1, <1>3 DEF Grant, Message, Identified
<1>5. /\ ctl' \in Answering /\ ctl'.msg = m
      /\ ctl'.outcome = "completed" /\ ctl'.value = issued + 1
  BY <1>1, <1>2, <1>3, AnswerType DEF Outcomes
<1>6. \A n \in Nonces : Spent(n) => Spent(n)'
  BY <1>2, <1>3 DEF Spent, Nonces, Inv, TypeOK, ServerType
<1>7. \A n \in Nonces : confirmations'[n] # None =>
             n <= issued' /\ confirmations'[n].session = session
  BY <1>2, <1>3 DEF Nonces, Inv, TypeOK, ServerType, Memory
<1>8. confirmations' \in [Nonces -> Grant \cup {None}] /\ issued' \in 0..MaxNonces
  BY <1>2, <1>3, <1>4, BoundsAssumption DEF Nonces, Inv, TypeOK, ServerType
<1>9. /\ completed' \in [Requests -> Outcomes \cup {None}]
      /\ \A r \in Requests : completed'[r] = "completed" => requests[r] = "completed"
  BY <1>2 DEF Inv, TypeOK, ServerType, Answers
<1> QED
  BY <1>1, <1>2, <1>3, <1>5, <1>6, <1>7, <1>8, <1>9, Answered

\* A command whose nonce is refused, or whose request is on record.
LEMMA RefusedStep ==
    ASSUME Inv, NEW m \in {call, late} \ {None}, HandleUnconfirmed(m) \/ HandleRecorded(m)
    PROVE  Inv'
<1>1. /\ Receive(m) /\ m \in Message /\ MonitorIdle /\ m.op = "act"
      /\ m.nonce \in Nonces /\ m.request \in Requests
  BY Received DEF HandleUnconfirmed, HandleRecorded, Acting, Identified
<1>2. /\ UNCHANGED <<issued, requests, renewals, renew, effects, signals>> /\ Pop(m.nonce)
  BY DEF HandleUnconfirmed, HandleRecorded, durable, history
<1>3. PICK outcome \in Outcomes :
         /\ Answer(m, outcome, None)
         /\ outcome = "completed" => requests[m.request] = "completed"
         /\ completed' \in {completed, [completed EXCEPT ![m.request] = outcome]}
  <2>1. CASE HandleUnconfirmed(m)
    BY <2>1 DEF HandleUnconfirmed, Outcomes
  <2>2. CASE HandleRecorded(m)
    BY <2>2 DEF HandleRecorded, Conclude, Outcomes
  <2> QED
    BY <2>1, <2>2
<1>4. ctl' \in Answering /\ ctl'.msg = m /\ ctl'.outcome = outcome
  BY <1>1, <1>3, AnswerType
<1>5. /\ confirmations' \in [Nonces -> Grant \cup {None}]
      /\ \A k \in Nonces : confirmations'[k] \in {confirmations[k], None}
  BY <1>1, <1>2, Popped
<1>6. /\ issued' \in 0..MaxNonces
      /\ \A n \in Nonces : Spent(n) => Spent(n)'
      /\ \A n \in Nonces : confirmations'[n] # None =>
             n <= issued' /\ confirmations'[n].session = session
  BY <1>2, <1>5 DEF Spent, Inv, TypeOK, ServerType, Memory
<1>7. /\ completed' \in [Requests -> Outcomes \cup {None}]
      /\ \A r \in Requests : completed'[r] = "completed" => requests[r] = "completed"
  BY <1>1, <1>3 DEF Inv, TypeOK, ServerType, Answers
<1> QED
  BY <1>1, <1>2, <1>3, <1>4, <1>5, <1>6, <1>7, Answered

\* The effect of a confirmed request, which stays within its grant.
LEMMA EffectOf ==
    ASSUME Inv, NEW m \in {call, late} \ {None}, New(m)
    PROVE  /\ m.op = "act" /\ m \in Message /\ m.nonce \in Nonces /\ m.request \in Requests
           /\ m.nonce <= issued /\ confirmations[m.nonce] # None
           /\ sent[m.request] # None /\ sent[m.request].action = m.action
           /\ requests[m.request] = None /\ completed[m.request] = None
           /\ Effect(m) \in EffectSet /\ Effect(m).request = m.request
           /\ Effect(m).nonce = m.nonce /\ Effect(m).action = m.action
           /\ Effect(m).grant.live /\ Effect(m).grant.session = Effect(m).session
           /\ Effect(m).grant.action = Effect(m).action
           /\ Covers(Effect(m).grant.scope, Effect(m).scope)
<1>1. /\ Receive(m) /\ m.op = "act" /\ Confirmed(m)
      /\ requests[m.request] = None /\ completed[m.request] = None
  BY DEF New, Acting, Recorded, Replayed
<1>2. m \in Message /\ Identified(m)
  BY <1>1, Received
<1>3. /\ m.nonce \in Nonces /\ m.request \in Requests /\ m.action \in Actions
      /\ sent[m.request] # None /\ sent[m.request].action = m.action
  BY <1>1, <1>2 DEF Identified
<1>4. /\ Granted(m) \in Grant /\ Granted(m).live /\ Granted(m).action = m.action
      /\ Granted(m).session = session /\ m.nonce <= issued /\ confirmations[m.nonce] # None
  BY <1>1, <1>3 DEF Confirmed, Granted, Inv, TypeOK, ServerType, Memory
<1>5. ScopeOf(m) \in Scopes /\ Covers(Granted(m).scope, ScopeOf(m))
  BY <1>2, <1>4 DEF ScopeOf, Covers, Message, Grant
<1>6. Effect(m) \in EffectSet
  BY <1>3, <1>4, <1>5 DEF Effect, EffectSet, Inv, TypeOK, ServerType
<1> QED
  BY <1>1, <1>2, <1>3, <1>4, <1>5, <1>6 DEF Effect

\* No effect so far used this nonce, or this request ID: the nonce is still there,
\* the ID stands for the same command, and no table knows it.
LEMMA Fresh ==
    ASSUME Inv, NEW m \in {call, late} \ {None}, New(m),
           m.action = "renew_tor_circuits" => renewals[m.request] = None
    PROVE  \A k \in DOMAIN effects :
               effects[k].request # m.request /\ effects[k].nonce # m.nonce
<1> SUFFICES ASSUME NEW k \in DOMAIN effects
             PROVE  effects[k].request # m.request /\ effects[k].nonce # m.nonce
  OBVIOUS
<1>1. Grounded(effects[k]) /\ Traced(effects[k])
  BY DEF Inv, Traces
<1>2. effects[k].nonce # m.nonce
  BY <1>1, EffectOf DEF Grounded, Spent
<1>3. effects[k].request # m.request
  BY <1>1, EffectOf DEF Grounded, Traced
<1> QED
  BY <1>2, <1>3

\* A new effect that no earlier one shares its request ID or nonce with.
LEMMA OneMore ==
    ASSUME Inv, NEW e \in EffectSet, effects' = Append(effects, e),
           \A k \in DOMAIN effects : effects[k].request # e.request /\ effects[k].nonce # e.nonce
    PROVE  OnlyOnce' /\ effects' \in Seq(EffectSet)
<1>1. effects \in Seq(EffectSet)
  BY DEF Inv, TypeOK, HistoryType
<1>2. /\ DOMAIN effects' = 1..Len(effects) + 1 /\ Len(effects) \in Nat
      /\ \A k \in DOMAIN effects' : effects'[k] = IF k = Len(effects) + 1 THEN e ELSE effects[k]
      /\ \A k \in DOMAIN effects' : k # Len(effects) + 1 => k \in DOMAIN effects
  BY <1>1
<1> QED
  BY <1>1, <1>2 DEF OnlyOnce, Inv

\* A command other than a renewal: its effect and its record are one step.
LEMMA CommandStep ==
    ASSUME Inv, NEW m \in {call, late} \ {None}, NEW verdict \in Outcomes,
           HandleCommand(m, verdict)
    PROVE  Inv'
<1> DEFINE r == m.request  n == m.nonce  e == Effect(m)
<1>1. /\ server = "listening" /\ ctl = None /\ renew["control"] = None
      /\ m \in Message /\ Identified(m) /\ late' \in {late, None}
  BY Received DEF HandleCommand, New, Acting
<1>2. /\ UNCHANGED <<issued, renewals, renew, signals>> /\ Pop(n)
      /\ UNCHANGED <<call, pending, confirm, sent, clock, server, session>>
      /\ completed' = [completed EXCEPT ![r] = verdict] /\ Answer(m, verdict, None)
      /\ requests' = [requests EXCEPT ![r] = verdict]
      /\ effects' = (IF verdict = "completed" THEN Append(effects, e) ELSE effects)
  BY DEF HandleCommand, Conclude, MonitorIdle, monitor
<1>3. /\ m.op = "act" /\ n \in Nonces /\ r \in Requests /\ m.action # "renew_tor_circuits"
      /\ n <= issued /\ sent[r] # None /\ sent[r].action = m.action
      /\ requests[r] = None /\ completed[r] = None /\ e \in EffectSet
      /\ e.request = r /\ e.nonce = n /\ e.action = m.action
      /\ e.grant.live /\ e.grant.session = e.session /\ e.grant.action = e.action
      /\ Covers(e.grant.scope, e.scope)
  BY EffectOf DEF HandleCommand
<1>4. \A k \in DOMAIN effects : effects[k].request # r /\ effects[k].nonce # n
  BY Fresh DEF HandleCommand
<1> HIDE DEF e
<1>5. ctl' \in Answering /\ ctl'.msg = m /\ ctl'.outcome = verdict
  BY <1>1, <1>2, AnswerType
<1>6. /\ confirmations' \in [Nonces -> Grant \cup {None}] /\ Spent(n)'
      /\ \A k \in Nonces : confirmations'[k] \in {confirmations[k], None}
  BY <1>2, <1>3, Popped
<1>7. verdict # None
  BY NoneAssumption
<1>8. OnlyOnce' /\ effects' \in Seq(EffectSet)
  <2>1. CASE verdict = "completed"
    BY <1>2, <1>3, <1>4, <2>1, OneMore
  <2>2. CASE verdict # "completed"
    BY <1>2, <2>2 DEF Inv, TypeOK, HistoryType, OnlyOnce
  <2> QED
    BY <2>1, <2>2
<1>9. TypeOK'
  <2>1. ServerType'
    BY <1>1, <1>2, <1>3, <1>5, <1>6 DEF Inv, TypeOK, ServerType
  <2>2. DurableType'
    BY <1>2, <1>3 DEF Inv, TypeOK, DurableType
  <2>3. MonitorType' /\ HistoryType'
    BY <1>2, <1>8 DEF Inv, TypeOK, MonitorType, HistoryType
  <2> QED
    BY <2>1, <2>2, <2>3 DEF TypeOK
<1>10. Memory'
  BY <1>1, <1>2, <1>6 DEF Inv, Memory
<1>11. Identities'
  BY <1>1, <1>2, <1>5 DEF Inv, Identities, Identified
<1>12. Answers'
  BY <1>2, <1>3, <1>5, NoneAssumption DEF Inv, TypeOK, ServerType, DurableType, Answers
<1>13. Traces'
  <2>1. effects \in Seq(EffectSet)
    BY DEF Inv, TypeOK, HistoryType
  <2>2. ASSUME NEW k \in DOMAIN effects PROVE Grounded(effects[k])' /\ Traced(effects[k])'
    <3>1. Grounded(effects[k]) /\ Traced(effects[k]) /\ effects[k] \in EffectSet
      BY <2>1 DEF Inv, Traces
    <3>2. effects'[k] = effects[k]
      BY <1>2, <2>1
    <3>3. Grounded(effects[k])'
      BY <1>2, <1>6, <3>1, <3>2 DEF Grounded, Spent, EffectSet
    <3>4. Traced(effects[k])'
      BY <1>2, <1>7, <3>1, <3>2 DEF Traced, EffectSet, Inv, TypeOK, DurableType
    <3> QED
      BY <3>3, <3>4
  <2>3. CASE effects' = effects
    BY <1>2, <2>2, <2>3 DEF Inv, Traces
  <2>4. CASE effects' = Append(effects, e)
    <3>1. /\ \A k \in DOMAIN effects' : k # Len(effects) + 1 => k \in DOMAIN effects
          /\ effects'[Len(effects) + 1] = e
      BY <2>1, <2>4
    <3>2. ASSUME NEW k \in DOMAIN effects', k = Len(effects) + 1
          PROVE  Grounded(effects[k])' /\ Traced(effects[k])'
      <4>1. effects'[k] = e
        BY <3>1, <3>2
      <4>2. Grounded(effects[k])'
        BY <1>2, <1>3, <1>6, <4>1 DEF Grounded, Spent
      <4>3. Traced(effects[k])'
        BY <1>2, <1>3, <1>7, <4>1 DEF Traced, Inv, TypeOK, DurableType
      <4> QED
        BY <4>2, <4>3
    <3> QED
      BY <1>2, <2>2, <3>1, <3>2 DEF Inv, Traces
  <2> QED
    BY <1>2, <2>3, <2>4
<1>14. Renewed'
  BY <1>1, <1>2, <1>5 DEF Inv, Renewed, RenewAt, Answering
<1> QED
  BY <1>8, <1>9, <1>10, <1>11, <1>12, <1>13, <1>14 DEF Inv

-----------------------------------------------------------------------------
\* The traces of past effects stay: rows and used nonces are never taken back.
LEMMA TracesStay ==
    ASSUME Inv, UNCHANGED <<sent, effects, signals>>,
           \A n \in Nonces : Spent(n) => Spent(n)',
           \A r \in Requests : requests[r] # None => requests'[r] # None,
           \A a \in Audits : renewals[a] # None => renewals'[a] # None
    PROVE  Traces'
<1>1. effects \in Seq(EffectSet) /\ signals \in Seq(SignalSet)
  BY DEF Inv, TypeOK, HistoryType
<1>2. ASSUME NEW k \in DOMAIN effects PROVE Grounded(effects[k])' /\ Traced(effects[k])'
  <2>1. Grounded(effects[k]) /\ Traced(effects[k]) /\ effects[k] \in EffectSet
    BY <1>1 DEF Inv, Traces
  <2>2. Grounded(effects[k])'
    BY <2>1 DEF Grounded, EffectSet
  <2>3. Traced(effects[k])'
    BY <2>1 DEF Traced, EffectSet, Audits
  <2> QED
    BY <2>2, <2>3
<1>3. ASSUME NEW k \in DOMAIN signals PROVE renewals'[signals[k].id] # None
  <2>1. signals[k] \in SignalSet
    BY <1>1
  <2> QED
    BY <2>1 DEF SignalSet, Inv, Traces
<1> QED
  BY <1>2, <1>3 DEF Traces

\* request_newnym() up to the release of its locks: the audit ID has a row, and a
\* caller that goes on to signal found none.
LEMMA Checked ==
    ASSUME Inv, NEW c \in Callers, NEW id \in Audits, Check(c, id)
    PROVE  /\ renewals' \in [Audits -> Rows \cup {None}] /\ renewals'[id] # None
           /\ \A a \in Audits : renewals[a] # None => renewals'[a] # None
           /\ \E x \in Renews : /\ renew' = [renew EXCEPT ![c] = x] /\ x.id = id
                                /\ x.at = "signal" => renewals[id] = None
<1> USE DEF Inv, TypeOK, DurableType
<1> DEFINE x(at, since) == [id |-> id, at |-> at, since |-> since]
<1>1. x("audit", None) \in Renews /\ x("signal", clock) \in Renews
  BY DEF Renews
<1>2. Row("rejected", None) \in Rows /\ Row("pending", None) \in Rows
  BY DEF Row, Rows, Outcomes
<1>3. Row("rejected", None) # None /\ Row("pending", None) # None
  BY <1>2, NoneAssumption
<1>4. CASE renewals[id] # None /\ Stage(c, id, "audit", None) /\ UNCHANGED renewals
  BY <1>1, <1>4 DEF Stage
<1>5. CASE Write(id, Row("rejected", None)) /\ Stage(c, id, "audit", None)
  BY <1>1, <1>2, <1>3, <1>5 DEF Stage, Write
<1>6. CASE /\ renewals[id] = None
           /\ Write(id, Row("pending", None)) /\ Stage(c, id, "signal", clock)
  BY <1>1, <1>2, <1>3, <1>6 DEF Stage, Write
<1> QED
  BY <1>4, <1>5, <1>6 DEF Check, RecordPending

\* A confirmed renewal is taken up.
LEMMA RenewalStep ==
    ASSUME Inv, NEW m \in {call, late} \ {None}, HandleRenewal(m)
    PROVE  Inv'
<1> DEFINE r == m.request  n == m.nonce  e == Effect(m)
<1>1. /\ server = "listening" /\ ctl = None /\ renew["control"] = None
      /\ m \in Message /\ Identified(m) /\ late' \in {late, None}
  BY Received DEF HandleRenewal, New, Acting
<1>2. /\ UNCHANGED <<issued, completed, requests, effects, signals>> /\ Pop(n)
      /\ UNCHANGED <<call, pending, confirm, sent, clock, server, session>>
      /\ ctl' = [msg |-> m, at |-> "renew", outcome |-> None, value |-> e]
      /\ m.action = "renew_tor_circuits" /\ Check("control", r)
  BY DEF HandleRenewal, MonitorIdle, monitor, history
<1>3. /\ m.op = "act" /\ n \in Nonces /\ r \in Requests
      /\ n <= issued /\ sent[r] # None /\ sent[r].action = m.action
      /\ requests[r] = None /\ completed[r] = None /\ e \in EffectSet
      /\ e.request = r /\ e.nonce = n /\ e.action = m.action
      /\ e.grant.live /\ e.grant.session = e.session /\ e.grant.action = e.action
      /\ Covers(e.grant.scope, e.scope)
  BY EffectOf DEF HandleRenewal
<1>4. renewals[r] = None =>
          \A k \in DOMAIN effects : effects[k].request # r /\ effects[k].nonce # n
  BY Fresh DEF HandleRenewal
<1> HIDE DEF e
<1>5. ctl' \in Renewing /\ ctl' # None
  BY <1>1, <1>2, <1>3, NoneAssumption DEF Renewing
<1>6. /\ confirmations' \in [Nonces -> Grant \cup {None}] /\ Spent(n)'
      /\ \A k \in Nonces : confirmations'[k] \in {confirmations[k], None}
  BY <1>2, <1>3, Popped
<1>7. \A k \in Nonces : Spent(k) => Spent(k)'
  BY <1>2, <1>6 DEF Spent
<1>8. PICK x \in Renews :
         /\ renew' = [renew EXCEPT !["control"] = x] /\ x.id = r
         /\ x.at = "signal" => renewals[r] = None
  BY <1>2, <1>3, Checked DEF Callers, Audits
<1>9. /\ renewals' \in [Audits -> Rows \cup {None}] /\ renewals'[r] # None
      /\ \A a \in Audits : renewals[a] # None => renewals'[a] # None
  BY <1>2, <1>3, Checked DEF Callers, Audits
<1>10. TypeOK'
  <2>1. ServerType'
    BY <1>1, <1>2, <1>5, <1>6 DEF Inv, TypeOK, ServerType
  <2>2. DurableType'
    BY <1>2, <1>8, <1>9 DEF Inv, TypeOK, DurableType, Callers
  <2>3. MonitorType' /\ HistoryType'
    BY <1>2 DEF Inv, TypeOK, MonitorType, HistoryType
  <2> QED
    BY <2>1, <2>2, <2>3 DEF TypeOK
<1>11. Memory' /\ OnlyOnce'
  BY <1>1, <1>2, <1>6 DEF Inv, Memory, OnlyOnce
<1>12. Identities' /\ Answers'
  BY <1>1, <1>2 DEF Inv, Identities, Identified, Answers
<1>13. Traces'
  BY <1>2, <1>7, <1>9, TracesStay
<1>14. Renewed'
  <2>1. renew["control"]' = x /\ x # None /\ renew["worker"]' = renew["worker"]
    BY <1>8, NoneAssumption DEF Inv, TypeOK, DurableType, Callers
  <2>2. \A c \in Callers : RenewAt(c, "signal")' => renewals'[renew'[c].id] # None
    <3>1. RenewAt("control", "signal")' => renewals'[renew'["control"].id] # None
      BY <1>8, <1>9, <2>1
    <3>2. RenewAt("worker", "signal")' => renewals'[renew'["worker"].id] # None
      BY <1>9, <2>1 DEF RenewAt, Inv, Renewed, Callers, TypeOK, DurableType, Renews
    <3> QED
      BY <3>1, <3>2 DEF Callers
  <2>3. Grounded(ctl.value)'
    BY <1>2, <1>3, <1>6 DEF Grounded
  <2>4. RenewAt("control", "signal")' =>
            \A f \in Effects' : f.request # r /\ f.nonce # n
    BY <1>2, <1>4, <1>8, <2>1 DEF RenewAt, Effects
  <2> QED
    BY <1>2, <1>3, <1>5, <1>8, <1>9, <2>1, <2>2, <2>3, <2>4 DEF Renewed
<1> QED
  BY <1>10, <1>11, <1>12, <1>13, <1>14 DEF Inv

\* A transfer thread takes up a renewal of its own.
LEMMA AutomaticStep ==
    ASSUME Inv, NEW id \in Autos, StartAutomatic(id)
    PROVE  Inv'
<1>1. /\ server # "down" /\ renew["worker"] = None /\ Check("worker", id)
      /\ UNCHANGED <<server, session, issued, confirmations, completed, late, ctl, requests,
                     clock, call, pending, confirm, sent, effects, signals>>
  BY DEF StartAutomatic, RenewIdle, monitor, history
<1>2. PICK x \in Renews :
         /\ renew' = [renew EXCEPT !["worker"] = x] /\ x.id = id
         /\ x.at = "signal" => renewals[id] = None
  BY <1>1, Checked DEF Callers, Audits
<1>3. /\ renewals' \in [Audits -> Rows \cup {None}] /\ renewals'[id] # None
      /\ \A a \in Audits : renewals[a] # None => renewals'[a] # None
  BY <1>1, Checked DEF Callers, Audits
<1>4. TypeOK'
  BY <1>1, <1>2, <1>3
  DEF Inv, TypeOK, ServerType, DurableType, MonitorType, HistoryType, Callers
<1>5. Memory' /\ OnlyOnce' /\ Identities' /\ Answers'
  BY <1>1 DEF Inv, Memory, OnlyOnce, Identities, Identified, Answers
<1>6. Traces'
  BY <1>1, <1>3, TracesStay DEF Spent
<1>7. Renewed'
  <2>1. renew'["worker"] = x /\ renew'["control"] = renew["control"]
    BY <1>2 DEF Inv, TypeOK, DurableType, Callers
  <2>2. RenewAt("control", "signal")' => renewals'[renew'["control"].id] # None
    BY <1>3, <2>1 DEF RenewAt, Inv, Renewed, Callers, TypeOK, DurableType, Renews
  <2>3. ctl # None /\ ctl.at = "renew" =>
            /\ ctl \in Renewing /\ Grounded(ctl.value)' /\ ctl.msg.request \in Audits
    BY <1>1 DEF Inv, TypeOK, ServerType, Answering, Renewing, EffectSet, Renewed, Grounded,
                Spent, Audits
  <2> QED
    BY <1>1, <1>2, <1>3, <2>1, <2>2, <2>3 DEF Inv, Renewed, RenewAt, Effects, Callers
<1> QED
  BY <1>4, <1>5, <1>6, <1>7 DEF Inv

\* A renewal moves on to a stage after its signal.
LEMMA StageType ==
    ASSUME Inv, NEW c \in Callers, renew[c] # None,
           NEW at \in {"completed", "failed"}, renew[c].at # "audit",
           Stage(c, renew[c].id, at, renew[c].since)
    PROVE  /\ renew' \in [Callers -> Renews \cup {None}] /\ renew'[c] # None
           /\ renew'[c].id = renew[c].id /\ renew'[c].at = at
           /\ \A d \in Callers \ {c} : renew'[d] = renew[d]
<1> DEFINE x == [id |-> renew[c].id, at |-> at, since |-> renew[c].since]
<1>1. renew[c] \in Renews
  BY DEF Inv, TypeOK, DurableType
<1>2. x \in Renews
  BY <1>1 DEF Renews
<1>3. x # None /\ x.id = renew[c].id /\ x.at = at
  BY <1>2, NoneAssumption
<1>4. renew' = [renew EXCEPT ![c] = x]
  BY DEF Stage
<1> HIDE DEF x
<1> QED
  BY <1>2, <1>3, <1>4 DEF Inv, TypeOK, DurableType

\* A caller that recorded its pending row signals to Tor. If the signal is accepted
\* it is an effect of the control thread's request, and the first one.
LEMMA SignalStep ==
    ASSUME Inv, NEW c \in Callers, RenewSignal(c)
    PROVE  Inv'
<1> DEFINE id == renew[c].id  e == ctl.value
<1>1. /\ renew[c] # None /\ renew[c].at = "signal"
      /\ UNCHANGED <<server, session, issued, confirmations, completed, late, ctl, requests,
                     renewals, clock, call, pending, confirm, sent>>
  BY DEF RenewSignal, RenewAt, RenewIdle, monitor, durable
<1>2. renew[c] \in Renews /\ renewals[id] # None
  BY <1>1 DEF RenewAt, Inv, TypeOK, DurableType, Renewed
<1>3. PICK at \in {"completed", "failed"} : Stage(c, id, at, renew[c].since)
  BY DEF RenewSignal
<1>4. /\ renew' \in [Callers -> Renews \cup {None}] /\ renew'[c] # None
      /\ renew'[c].id = id /\ renew'[c].at = at
      /\ \A d \in Callers \ {c} : renew'[d] = renew[d]
  BY <1>1, <1>3, StageType
<1>5. \/ effects' = effects /\ signals' = signals
      \/ /\ signals' = Append(signals, [id |-> id, at |-> renew[c].since])
         /\ effects' = IF c = "control" THEN Append(effects, e) ELSE effects
  BY DEF RenewSignal, history
<1>6. c = "control" =>
          /\ e \in EffectSet /\ Grounded(e) /\ e.action = "renew_tor_circuits"
          /\ renewals[e.request] # None
          /\ \A k \in DOMAIN effects :
                 effects[k].request # e.request /\ effects[k].nonce # e.nonce
  BY <1>1 DEF Inv, TypeOK, ServerType, Answering, Renewing, Renewed, RenewAt, Effects
<1>7. effects \in Seq(EffectSet) /\ signals \in Seq(SignalSet)
  BY DEF Inv, TypeOK, HistoryType
<1>8. OnlyOnce' /\ effects' \in Seq(EffectSet)
  <2>1. CASE effects' = effects
    BY <1>7, <2>1 DEF Inv, OnlyOnce
  <2>2. CASE c = "control" /\ effects' = Append(effects, e)
    BY <1>6, <2>2, OneMore
  <2> QED
    BY <1>5, <2>1, <2>2
<1> HIDE DEF e
<1> DEFINE y == [id |-> id, at |-> renew[c].since]
<1>9. y \in SignalSet /\ y.id = id /\ signals' \in Seq(SignalSet)
  <2>1. y \in SignalSet /\ y.id = id
    BY <1>1, <1>2 DEF Renews, SignalSet
  <2>2. signals' = signals \/ signals' = Append(signals, y)
    BY <1>5
  <2> HIDE DEF y
  <2>3. signals' \in Seq(SignalSet)
    BY <1>7, <2>1, <2>2
  <2> QED
    BY <2>1, <2>3
<1>10. TypeOK'
  BY <1>1, <1>4, <1>8, <1>9
  DEF Inv, TypeOK, ServerType, DurableType, MonitorType, HistoryType
<1>11. Memory'
  <2>1. server # "down"
    BY <1>1 DEF Inv, Memory
  <2> QED
    BY <1>1, <2>1 DEF Inv, Memory
<1>12. Identities' /\ Answers'
  BY <1>1 DEF Inv, Identities, Identified, Answers
<1>13. \A f : Grounded(f) => Grounded(f)'
  BY <1>1 DEF Grounded, Spent
<1>14. Traces'
  <2>1. ASSUME NEW k \in DOMAIN effects' PROVE Grounded(effects[k])' /\ Traced(effects[k])'
    <3>1. \/ effects'[k] = e /\ c = "control"
          \/ k \in DOMAIN effects /\ effects'[k] = effects[k]
      <4>1. CASE effects' = effects
        BY <2>1, <4>1
      <4>2. CASE c = "control" /\ effects' = Append(effects, e)
        <5>1. k \in DOMAIN Append(effects, e) /\ e \in EffectSet
          BY <1>6, <2>1, <4>2
        <5>2. \/ k = Len(effects) + 1 /\ Append(effects, e)[k] = e
              \/ k \in DOMAIN effects /\ Append(effects, e)[k] = effects[k]
          BY <1>7, <5>1
        <5> QED
          BY <4>2, <5>2
      <4> QED
        BY <1>5, <4>1, <4>2
    <3>2. Grounded(effects'[k]) /\ Traced(effects'[k])
      BY <1>6, <3>1 DEF Traced, Inv, Traces
    <3> QED
      BY <1>1, <3>2 DEF Grounded, Spent, Traced
  <2>2. ASSUME NEW k \in DOMAIN signals' PROVE renewals'[signals'[k].id] # None
    <3>1. CASE signals' = signals
      BY <1>1, <2>2, <3>1 DEF Inv, Traces
    <3>2. CASE signals' = Append(signals, y)
      <4> HIDE DEF y
      <4>1. k \in DOMAIN Append(signals, y)
        BY <2>2, <3>2
      <4>2. \/ k = Len(signals) + 1 /\ Append(signals, y)[k] = y
            \/ k \in DOMAIN signals /\ Append(signals, y)[k] = signals[k]
        BY <1>7, <1>9, <4>1
      <4> QED
        BY <1>1, <1>2, <1>9, <3>2, <4>2 DEF Inv, Traces
    <3> QED
      BY <1>5, <3>1, <3>2
  <2> QED
    BY <2>1, <2>2 DEF Traces
<1>15. Renewed'
  <2>1. \A d \in Callers : RenewAt(d, "signal")' => d # c /\ RenewAt(d, "signal")
    BY <1>4 DEF RenewAt
  <2>2. \A d \in Callers : RenewAt(d, "signal")' => renewals'[renew'[d].id] # None
    BY <1>1, <1>4, <2>1 DEF Inv, Renewed
  <2>3. RenewAt("control", "signal")' => effects' = effects
    BY <1>5, <2>1 DEF Callers
  <2>4. renew'["control"] # None => renew["control"] # None
    BY <1>1, <1>4 DEF Callers
  <2>5. renew["control"] # None =>
            renew'["control"] # None /\ renew'["control"].id = renew["control"].id
    BY <1>4 DEF Callers
  <2>6. RenewAt("control", "signal")' => RenewAt("control", "signal")
    BY <2>1 DEF Callers
  <2> QED
    BY <1>1, <1>13, <2>2, <2>3, <2>4, <2>5, <2>6 DEF Inv, Renewed, Effects
<1> QED
  BY <1>8, <1>10, <1>11, <1>12, <1>14, <1>15 DEF Inv

\* The terminal result replaces the pending row; the row stays a row.
LEMMA RecordStep ==
    ASSUME Inv, NEW c \in Callers, RenewRecord(c)
    PROVE  Inv'
<1> DEFINE id == renew[c].id
           row == Row(renew[c].at, IF renew[c].at = "completed" THEN renew[c].since ELSE None)
           x == [id |-> id, at |-> "audit", since |-> None]
<1>1. /\ renew[c] # None /\ renew[c].at \in {"completed", "failed"}
      /\ renewals' = [renewals EXCEPT ![id] = row] /\ renew' = [renew EXCEPT ![c] = x]
      /\ UNCHANGED <<server, session, issued, confirmations, completed, late, ctl, requests,
                     clock, call, pending, confirm, sent, effects, signals>>
  BY DEF RenewRecord, RenewAt, RenewIdle, Write, Stage, monitor, history
<1>2. renew[c] \in Renews
  BY <1>1 DEF Inv, TypeOK, DurableType
<1>3. id \in Audits /\ x \in Renews /\ row \in Rows
  BY <1>1, <1>2 DEF Renews, Row, Rows, Outcomes
<1>4. row # None /\ x # None /\ x.id = id /\ x.at = "audit"
  BY <1>3, NoneAssumption
<1> HIDE DEF row, x
<1>5. TypeOK'
  BY <1>1, <1>3 DEF Inv, TypeOK, ServerType, DurableType, MonitorType, HistoryType
<1>6. Memory'
  <2>1. server # "down"
    BY <1>1 DEF Inv, Memory
  <2> QED
    BY <1>1, <2>1 DEF Inv, Memory
<1>7. OnlyOnce' /\ Identities' /\ Answers'
  BY <1>1 DEF Inv, OnlyOnce, Identities, Identified, Answers
<1>8. \A a \in Audits : renewals[a] # None => renewals'[a] # None
  BY <1>1, <1>4 DEF Inv, TypeOK, DurableType
<1>9. Traces'
  BY <1>1, <1>8, TracesStay DEF Spent
<1>10. Renewed'
  <2>1. /\ \A d \in Callers : renew'[d] # None <=> renew[d] # None
        /\ \A d \in Callers : renew[d] # None => renew'[d].id = renew[d].id
        /\ \A d \in Callers : RenewAt(d, "signal")' => RenewAt(d, "signal")
    BY <1>1, <1>4 DEF RenewAt, Inv, TypeOK, DurableType
  <2>2. \A d \in Callers : renew[d] # None => renew[d].id \in Audits
    BY DEF Inv, TypeOK, DurableType, Renews
  <2>3. \A d \in Callers : RenewAt(d, "signal")' => renewals'[renew'[d].id] # None
    BY <1>8, <2>1, <2>2 DEF RenewAt, Inv, Renewed
  <2>4. ctl # None /\ ctl.at = "renew" =>
            Grounded(ctl.value)' /\ ctl.msg.request \in Audits
    BY <1>1 DEF Inv, TypeOK, ServerType, Answering, Renewing, EffectSet, Renewed, Grounded,
                Spent, Audits
  <2> QED
    BY <1>1, <1>8, <2>1, <2>3, <2>4 DEF Inv, Renewed, Effects, Callers
<1> QED
  BY <1>5, <1>6, <1>7, <1>9, <1>10 DEF Inv

\* A transfer thread is done with its renewal; nothing of the channel changes.
LEMMA WorkerAuditStep ==
    ASSUME Inv, RenewAudit("worker")
    PROVE  Inv'
<1>1. /\ renew["worker"] # None /\ renew' = [renew EXCEPT !["worker"] = None]
      /\ UNCHANGED <<server, session, issued, confirmations, completed, late, ctl, requests,
                     renewals, clock, call, pending, confirm, sent, effects, signals>>
  BY DEF RenewAudit, RenewAt, RenewIdle, monitor, history
<1>2. renew'["control"] = renew["control"] /\ renew'["worker"] = None
  BY <1>1 DEF Inv, TypeOK, DurableType, Callers
<1>3. TypeOK'
  BY <1>1 DEF Inv, TypeOK, ServerType, DurableType, MonitorType, HistoryType
<1>4. Memory'
  <2>1. server # "down"
    BY <1>1 DEF Inv, Memory, Callers
  <2> QED
    BY <1>1, <2>1 DEF Inv, Memory
<1>5. OnlyOnce' /\ Identities' /\ Answers'
  BY <1>1 DEF Inv, OnlyOnce, Identities, Identified, Answers
<1>6. Traces'
  BY <1>1, TracesStay DEF Spent
<1>7. Renewed'
  BY <1>1, <1>2 DEF Inv, Renewed, RenewAt, Effects, Grounded, Spent, Callers
<1> QED
  BY <1>3, <1>4, <1>5, <1>6, <1>7 DEF Inv

\* The control thread records the outcome of its renewal and answers with it.
LEMMA ControlAuditStep ==
    ASSUME Inv, RenewAudit("control")
    PROVE  Inv'
<1> DEFINE m == ctl.msg  r == m.request  outcome == renewals[r].outcome
           said == IF outcome \in Outcomes THEN outcome ELSE "rejected"
<1>1. /\ renew["control"] # None /\ renew' = [renew EXCEPT !["control"] = None]
      /\ UNCHANGED <<server, session, issued, confirmations, late, renewals, clock, call,
                     pending, confirm, sent, effects, signals>>
      /\ requests' = [requests EXCEPT ![r] = outcome] /\ Answer(m, said, None)
      /\ completed' = (IF outcome \in Outcomes THEN [completed EXCEPT ![r] = outcome]
                       ELSE completed)
  BY DEF RenewAudit, RenewAt, RenewIdle, monitor, history, AuditOf, Conclude
<1>2. /\ ctl # None /\ ctl.at = "renew" /\ m.op = "act"
      /\ renewals[r] # None /\ requests[r] = None /\ completed[r] = None
  BY <1>1 DEF Inv, Renewed
<1>3. m \in Message /\ Identified(m) /\ r \in Requests
  BY <1>2 DEF Inv, TypeOK, ServerType, Answering, Renewing, Identities, Identified
<1>4. outcome \in Outcomes \cup {"pending"} /\ said \in Outcomes
  BY <1>2, <1>3 DEF Inv, TypeOK, DurableType, Audits, Rows, Outcomes
<1>5. ctl' \in Answering /\ ctl'.msg = m /\ ctl'.outcome = said
  BY <1>1, <1>3, <1>4, AnswerType
<1>6. outcome # None
  BY <1>4, NoneAssumption
<1>7. said = "completed" => outcome = "completed"
  BY <1>4 DEF Outcomes
<1> HIDE DEF outcome, said
<1>8. TypeOK'
  <2>1. ServerType'
    BY <1>1, <1>3, <1>4, <1>5 DEF Inv, TypeOK, ServerType
  <2>2. DurableType'
    BY <1>1, <1>3, <1>4 DEF Inv, TypeOK, DurableType
  <2>3. MonitorType' /\ HistoryType'
    BY <1>1 DEF Inv, TypeOK, MonitorType, HistoryType
  <2> QED
    BY <2>1, <2>2, <2>3 DEF TypeOK
<1>9. Memory'
  <2>1. server # "down"
    BY <1>1 DEF Inv, Memory, Callers
  <2> QED
    BY <1>1, <2>1 DEF Inv, Memory
<1>10. OnlyOnce' /\ Identities'
  BY <1>1, <1>3, <1>5 DEF Inv, OnlyOnce, Identities, Identified
<1>11. Answers'
  <2>1. requests'[r] = outcome /\ \A q \in Requests \ {r} : requests'[q] = requests[q]
    BY <1>1, <1>3 DEF Inv, TypeOK, DurableType
  <2>2. \A q \in Requests : completed'[q] = completed[q] \/ (q = r /\ completed'[q] = outcome)
    BY <1>1, <1>3 DEF Inv, TypeOK, ServerType
  <2>3. completed[r] # "completed"
    BY <1>2, NoneAssumption DEF Outcomes
  <2>4. \A q \in Requests : completed'[q] = "completed" => requests'[q] = "completed"
    BY <2>1, <2>2, <2>3 DEF Inv, Answers
  <2> QED
    BY <1>2, <1>5, <1>7, <2>1, <2>4 DEF Answers
<1>12. Traces'
  <2>1. \A q \in Requests : requests[q] # None => requests'[q] # None
    BY <1>1, <1>3, <1>6 DEF Inv, TypeOK, DurableType
  <2> QED
    BY <1>1, <2>1, TracesStay DEF Spent
<1>13. Renewed'
  <2>1. renew'["control"] = None /\ renew'["worker"] = renew["worker"]
    BY <1>1 DEF Inv, TypeOK, DurableType, Callers
  <2>2. ctl'.at # "renew"
    BY <1>5 DEF Answering
  <2> QED
    BY <1>1, <2>1, <2>2 DEF Inv, Renewed, RenewAt, Callers
<1> QED
  BY <1>8, <1>9, <1>10, <1>11, <1>12, <1>13 DEF Inv

-----------------------------------------------------------------------------
\* The answer reaches the monitor, or finds the connection closed.
LEMMA ReplyStep ==
    ASSUME Inv, Reply
    PROVE  Inv'
<1> DEFINE m == ctl.msg
<1>1. /\ server = "listening" /\ ctl # None /\ ctl.at = "reply" /\ ctl' = None
      /\ UNCHANGED <<server, session, issued, confirmations, completed, late, requests,
                     renewals, renew, clock, sent, effects, signals>>
      /\ call' \in {call, None} /\ pending' \in {pending, "run"}
      /\ \/ confirm' = confirm
         \/ /\ m.op = "prepare" /\ ctl.outcome = "completed"
            /\ confirm' = [nonce |-> ctl.value, action |-> m.action]
  BY DEF Reply, memory, durable, history
<1>2. confirm' \in Dialogs \cup {None}
  <2>1. CASE m.op = "prepare" /\ ctl.outcome = "completed"
             /\ confirm' = [nonce |-> ctl.value, action |-> m.action]
    <3>1. ctl.value \in Nonces /\ m.action \in Actions
      BY <1>1, <2>1 DEF Inv, Answers, Identities, Identified
    <3> QED
      BY <2>1, <3>1 DEF Dialogs
  <2>2. CASE confirm' = confirm
    BY <2>2 DEF Inv, TypeOK, MonitorType
  <2> QED
    BY <1>1, <2>1, <2>2
<1>3. TypeOK'
  <2>1. ServerType' /\ DurableType' /\ HistoryType'
    BY <1>1 DEF Inv, TypeOK, ServerType, DurableType, HistoryType
  <2>2. MonitorType'
    BY <1>1, <1>2 DEF Inv, TypeOK, MonitorType, Scopes
  <2> QED
    BY <2>1, <2>2 DEF TypeOK
<1>4. Memory' /\ OnlyOnce' /\ Identities' /\ Answers'
  BY <1>1 DEF Inv, Memory, OnlyOnce, Identities, Identified, Answers
<1>5. Traces'
  BY <1>1, TracesStay DEF Spent
<1>6. Renewed'
  BY <1>1 DEF Inv, Renewed, RenewAt
<1> QED
  BY <1>3, <1>4, <1>5, <1>6 DEF Inv

\* A request of a client that gave up is the same request, closed.
LEMMA ClosedType ==
    ASSUME NEW m \in Message
    PROVE  /\ Closed(m) \in Message /\ Closed(m).op = m.op /\ Closed(m).nonce = m.nonce
           /\ Closed(m).request = m.request /\ Closed(m).action = m.action
BY DEF Closed, Message

\* The monitor gives up; what the control thread does goes on.
LEMMA CallFailsStep ==
    ASSUME Inv, CallFails
    PROVE  Inv'
<1>1. /\ call # None /\ call' = None /\ pending' \in {pending, "run"}
      /\ UNCHANGED <<server, session, issued, confirmations, completed, requests, renewals, renew,
                     clock, confirm, sent, effects, signals>>
      /\ \/ ctl # None /\ ctl' = [ctl EXCEPT !.msg = Closed(@)] /\ late' = late
         \/ ctl' = ctl /\ late' = late
         \/ ctl' = ctl /\ late' = Closed(call) /\ server # "down"
  BY DEF CallFails, Served, memory, durable, history
<1>2. call \in Message
  BY <1>1 DEF Inv, TypeOK, MonitorType
<1>3. late' \in Message \cup {None} /\ (late' # None => Identified(late)')
  BY <1>1, <1>2, ClosedType DEF Inv, TypeOK, ServerType, Identities, Identified
<1>4. /\ ctl' \in Answering \cup Renewing \cup {None} /\ (ctl' # None => Identified(ctl.msg)')
      /\ ctl # None <=> ctl' # None
      /\ ctl # None => /\ ctl'.at = ctl.at /\ ctl'.outcome = ctl.outcome /\ ctl'.value = ctl.value
                       /\ ctl'.msg.op = ctl.msg.op /\ ctl'.msg.request = ctl.msg.request
  <2>1. CASE ctl' = ctl
    BY <1>1, <2>1 DEF Inv, TypeOK, ServerType, Identities, Identified
  <2>2. CASE ctl # None /\ ctl' = [ctl EXCEPT !.msg = Closed(@)]
    <3>1. ctl \in Answering \/ ctl \in Renewing
      BY <2>2 DEF Inv, TypeOK, ServerType
    <3>2. ctl.msg \in Message /\ Identified(ctl.msg)
      BY <2>2, <3>1 DEF Answering, Renewing, Inv, Identities
    <3>3. /\ Closed(ctl.msg) \in Message /\ Closed(ctl.msg).op = ctl.msg.op
          /\ Closed(ctl.msg).nonce = ctl.msg.nonce
          /\ Closed(ctl.msg).request = ctl.msg.request
          /\ Closed(ctl.msg).action = ctl.msg.action
      BY <3>2, ClosedType
    <3>4. /\ ctl'.msg = Closed(ctl.msg) /\ ctl'.at = ctl.at
          /\ ctl'.outcome = ctl.outcome /\ ctl'.value = ctl.value
          /\ ctl' \in Answering \/ ctl' \in Renewing
      BY <2>2, <3>1, <3>3 DEF Answering, Renewing
    <3>5. ctl' # None
      BY <3>4, NoneAssumption
    <3> QED
      BY <1>1, <2>2, <3>2, <3>3, <3>4, <3>5 DEF Identified
  <2> QED
    BY <1>1, <2>1, <2>2
<1>5. TypeOK'
  <2>1. ServerType' /\ DurableType' /\ HistoryType'
    BY <1>1, <1>3, <1>4 DEF Inv, TypeOK, ServerType, DurableType, HistoryType
  <2>2. MonitorType'
    BY <1>1 DEF Inv, TypeOK, MonitorType, Scopes
  <2> QED
    BY <2>1, <2>2 DEF TypeOK
<1>6. Memory' /\ OnlyOnce'
  BY <1>1, <1>4 DEF Inv, Memory, OnlyOnce
<1>7. Identities' /\ Answers'
  BY <1>1, <1>3, <1>4 DEF Inv, Identities, Answers
<1>8. Traces'
  BY <1>1, TracesStay DEF Spent
<1>9. Renewed'
  BY <1>1, <1>4 DEF Inv, Renewed, RenewAt, Grounded, Spent, Effects
<1> QED
  BY <1>5, <1>6, <1>7, <1>8, <1>9 DEF Inv

\* The process goes down with everything that is only in memory.
LEMMA DownStep ==
    ASSUME Inv, GoesDown
    PROVE  Inv'
<1>1. /\ server' = "down" /\ ctl' = None /\ late' = None
      /\ renew' = [c \in Callers |-> None] /\ confirmations' = [n \in Nonces |-> None]
      /\ completed' = [r \in Requests |-> None]
      /\ UNCHANGED <<session, issued, requests, renewals, clock, call, pending, confirm, sent,
                     effects, signals>>
  BY DEF GoesDown, durable, monitor, history
<1>2. TypeOK'
  <2>1. ServerType' /\ DurableType'
    BY <1>1 DEF Inv, TypeOK, ServerType, DurableType
  <2>2. MonitorType' /\ HistoryType'
    BY <1>1 DEF Inv, TypeOK, MonitorType, HistoryType
  <2> QED
    BY <2>1, <2>2 DEF TypeOK
<1>3. Memory' /\ Answers'
  BY <1>1, NoneAssumption DEF Inv, Memory, Answers, Outcomes
<1>4. OnlyOnce' /\ Identities'
  BY <1>1 DEF Inv, OnlyOnce, Identities, Identified
<1>5. Traces'
  BY <1>1, TracesStay DEF Spent
<1>6. Renewed'
  BY <1>1 DEF Renewed, RenewAt, Callers
<1> QED
  BY <1>2, <1>3, <1>4, <1>5, <1>6 DEF Inv

\* A new session finds an empty memory.
LEMMA StartStep ==
    ASSUME Inv, Start
    PROVE  Inv'
<1>1. /\ server = "down" /\ server' = "listening" /\ session < MaxSessions
      /\ session' = session + 1
      /\ UNCHANGED <<issued, confirmations, completed, late, ctl, requests, renewals, renew,
                     clock, call, pending, confirm, sent, effects, signals>>
  BY DEF Start, memory, durable, monitor, history
<1>2. TypeOK'
  <2>1. ServerType'
    BY <1>1, BoundsAssumption DEF Inv, TypeOK, ServerType
  <2>2. DurableType' /\ MonitorType' /\ HistoryType'
    BY <1>1 DEF Inv, TypeOK, DurableType, MonitorType, HistoryType
  <2> QED
    BY <2>1, <2>2 DEF TypeOK
<1>3. Memory' /\ OnlyOnce' /\ Identities' /\ Answers'
  BY <1>1 DEF Inv, Memory, OnlyOnce, Identities, Identified, Answers
<1>4. Traces'
  BY <1>1, TracesStay DEF Spent
<1>5. Renewed'
  BY <1>1 DEF Inv, Renewed, RenewAt, Grounded, Spent, Effects
<1> QED
  BY <1>2, <1>3, <1>4, <1>5 DEF Inv

\* A confirmation grows old: it is still there, and still unused.
LEMMA ExpiryStep ==
    ASSUME Inv, NEW n \in Nonces, NonceExpires(n)
    PROVE  Inv'
<1> DEFINE old == [confirmations[n] EXCEPT !.live = FALSE]
<1>1. /\ confirmations[n] # None /\ confirmations' = [confirmations EXCEPT ![n] = old]
      /\ UNCHANGED <<server, session, issued, completed, late, ctl, requests, renewals, renew,
                     clock, call, pending, confirm, sent, effects, signals>>
  BY DEF NonceExpires, durable, monitor, history
<1>2. old \in Grant /\ old.session = confirmations[n].session
  BY <1>1 DEF Grant, Inv, TypeOK, ServerType
<1> HIDE DEF old
<1>3. TypeOK'
  <2>1. ServerType'
    BY <1>1, <1>2 DEF Inv, TypeOK, ServerType
  <2>2. DurableType' /\ MonitorType' /\ HistoryType'
    BY <1>1 DEF Inv, TypeOK, DurableType, MonitorType, HistoryType
  <2> QED
    BY <2>1, <2>2 DEF TypeOK
<1>4. \A k \in Nonces : Spent(k) => Spent(k)'
  BY <1>1 DEF Spent, Inv, TypeOK, ServerType
<1>5. Memory'
  BY <1>1, <1>2 DEF Inv, TypeOK, ServerType, Memory
<1>6. OnlyOnce' /\ Identities' /\ Answers'
  BY <1>1 DEF Inv, OnlyOnce, Identities, Identified, Answers
<1>7. Traces'
  BY <1>1, <1>4, TracesStay
<1>8. Renewed'
  <2>1. ctl # None /\ ctl.at = "renew" => Grounded(ctl.value)'
    BY <1>1, <1>4 DEF Inv, TypeOK, ServerType, Answering, Renewing, EffectSet, Renewed, Grounded
  <2> QED
    BY <1>1, <2>1 DEF Inv, Renewed, RenewAt, Effects
<1> QED
  BY <1>3, <1>5, <1>6, <1>7, <1>8 DEF Inv

\* Time passes, or nothing happens.
LEMMA IdleStep ==
    ASSUME Inv, Tick \/ UNCHANGED vars
    PROVE  Inv'
<1>1. /\ UNCHANGED <<server, session, issued, confirmations, completed, late, ctl, requests,
                     renewals, renew, call, pending, confirm, sent, effects, signals>>
      /\ clock' = clock \/ (clock < MaxTime /\ clock' = clock + 1)
  BY DEF Tick, vars, memory, durable, monitor, history
<1>2. TypeOK'
  <2>1. clock' \in 0..MaxTime
    BY <1>1, BoundsAssumption DEF Inv, TypeOK, DurableType
  <2>2. DurableType'
    BY <1>1, <2>1 DEF Inv, TypeOK, DurableType
  <2>3. ServerType' /\ MonitorType' /\ HistoryType'
    BY <1>1 DEF Inv, TypeOK, ServerType, MonitorType, HistoryType
  <2> QED
    BY <2>2, <2>3 DEF TypeOK
<1>3. Memory' /\ OnlyOnce' /\ Identities' /\ Answers'
  BY <1>1 DEF Inv, Memory, OnlyOnce, Identities, Identified, Answers
<1>4. Traces'
  BY <1>1, TracesStay DEF Spent
<1>5. Renewed'
  BY <1>1 DEF Inv, Renewed, RenewAt, Grounded, Spent, Effects
<1> QED
  BY <1>2, <1>3, <1>4, <1>5 DEF Inv

-----------------------------------------------------------------------------
\* Every step keeps the invariant.
LEMMA NextInv == Inv /\ [Next]_vars => Inv'
<1> SUFFICES ASSUME Inv, [Next]_vars PROVE Inv'
  OBVIOUS
<1>1. CASE Operator
  BY <1>1, OperatorStep
<1>2. CASE CallFails
  BY <1>2, CallFailsStep
<1>3. CASE Serve
  BY <1>3, ReplyStep, ReadOnlyStep, PrepareStep, RefusedStep, CommandStep, RenewalStep
  DEF Serve, Handle
<1>4. CASE \E c \in Callers : Renewal(c)
  <2>1. PICK c \in Callers : Renewal(c)
    BY <1>4
  <2> QED
    BY <2>1, SignalStep, RecordStep, WorkerAuditStep, ControlAuditStep DEF Renewal, Callers
<1>5. CASE Process
  BY <1>5, DownStep, StartStep, ExpiryStep DEF Process
<1>6. CASE Tick \/ UNCHANGED vars
  BY <1>6, IdleStep
<1>7. CASE \E id \in Autos : StartAutomatic(id)
  BY <1>7, AutomaticStep
<1> QED
  BY <1>1, <1>2, <1>3, <1>4, <1>5, <1>6, <1>7 DEF Next, ChannelNext, Automatic, Callers

\* The invariant holds in every reachable state, with transfer threads that renew
\* of their own accord.
THEOREM InvHolds == Spec => []Inv
<1> QED
  BY InitInv, NextInv, PTL DEF Spec

\* The channel by itself is the channel whose transfer threads happen to be idle.
THEOREM ChannelIsPart == ChannelSpec => Spec
<1>1. [ChannelNext]_vars => [Next]_vars
  BY DEF Next
<1> QED
  BY <1>1, PTL DEF ChannelSpec, Spec

\* Every variable of the channel keeps its type.
THEOREM Typed == Spec => []TypeOK
<1>1. Inv => TypeOK
  BY DEF Inv
<1> QED
  BY <1>1, InvHolds, PTL

\* A request ID takes effect at most once and a nonce authorises at most one
\* effect, whatever is repeated, timed out, restarted or renewed meanwhile
\* (_confirmed_action(), control_action(), request_newnym()).
THEOREM AtMostOnce == Spec => []OnlyOnce
<1>1. Inv => OnlyOnce
  BY DEF Inv
<1> QED
  BY <1>1, InvHolds, PTL

\* An effect stays within the command, the items, the session and the lifetime its
\* nonce was prepared for (_confirmed_action()).
THEOREM NothingBeyondGrant == Spec => []WithinGrant
<1>1. Inv => WithinGrant
  BY DEF Inv, Traces, Grounded, WithinGrant, Effects
<1> QED
  BY <1>1, InvHolds, PTL

\* Every effect has left a durable trace, and an answer that says completed is on
\* record (control_action(), request_newnym(), control_renew_tor_circuits()).
THEOREM NothingUnrecorded == Spec => []EffectsAudited
<1>1. Inv => EffectsAudited
  BY DEF Inv, Traces, Traced, Answers, EffectsAudited, Effects
<1> QED
  BY <1>1, InvHolds, PTL

-----------------------------------------------------------------------------
(* Control implements Consent.                                             *)

\* What an offer asks for is something, and stands for a command and its parts.
LEMMA AsksSomething ==
    ASSUME NEW g \in Grant
    PROVE  Asks(g) \in Asked /\ Asks(g) # None
BY NoneAssumption DEF Asks, Asked, Grant

\* A step that offers nothing and does nothing lets offers lapse, or leaves them.
LEMMA LapseStep ==
    ASSUME UNCHANGED <<issued, effects>>,
           \A n \in Nonces : Stands(n)' \in {Stands(n), None}
    PROVE  Agreement!Lapse
<1> DEFINE S == {n \in Nonces : Stands(n)' = None}
<1>1. S \in SUBSET Nonces /\ \A n \in Nonces : Stands(n)' = IF n \in S THEN None ELSE Stands(n)
  OBVIOUS
<1>2. [n \in Nonces |-> Stands(n)'] =
          [n \in Nonces |-> IF n \in S THEN None ELSE [k \in Nonces |-> Stands(k)][n]]
  BY <1>1
<1>3. (1..issued)' = 1..issued
      /\ [k \in DOMAIN effects |-> Deed(effects[k])]' = [k \in DOMAIN effects |-> Deed(effects[k])]
  BY DEF Deed
<1> QED
  BY <1>1, <1>2, <1>3 DEF Agreement!Lapse

\* The control thread is idle when it takes a request up, and gives out no signal.
LEMMA Idle ==
    ASSUME Inv, NEW m \in {call, late} \ {None}, Receive(m)
    PROVE  ~Signalling
BY Received DEF Signalling, RenewAt

\* One more effect is one more deed, of a request that has none so far.
LEMMA ActStep ==
    ASSUME Inv, NEW e \in EffectSet, effects' = Append(effects, e), UNCHANGED issued,
           \A k \in DOMAIN effects : effects[k].request # e.request,
           e.grant.action = e.action, Covers(e.grant.scope, e.scope),
           Stands(e.nonce) = Asks(e.grant), Stands(e.nonce)' = None,
           \A n \in Nonces \ {e.nonce} : Stands(n)' = Stands(n)
    PROVE  Agreement!Act(e.request, e.nonce)
<1> DEFINE standing == [n \in Nonces |-> Stands(n)]
           deeds == [k \in DOMAIN effects |-> Deed(effects[k])]
           asked == Asks(e.grant)
<1>1. /\ e.nonce \in Nonces /\ e.grant \in Grant /\ e.scope \in Scopes
      /\ asked # None /\ asked.action = e.action /\ e.scope \in asked.parts
  <2>1. e.nonce \in Nonces /\ e.grant \in Grant /\ e.scope \in Scopes
    BY DEF EffectSet
  <2> QED
    BY <2>1, AsksSomething DEF Asks
<1> HIDE DEF asked
<1>2. standing[e.nonce] = asked
  BY <1>1 DEF asked
<1>3. [n \in Nonces |-> Stands(n)'] = [standing EXCEPT ![e.nonce] = None]
  BY <1>1
<1>4. [k \in DOMAIN effects' |-> Deed(effects'[k])] = Append(deeds, Deed(e))
  <2>1. effects \in Seq(EffectSet)
    BY DEF Inv, TypeOK, HistoryType
  <2>2. /\ DOMAIN effects' = 1..Len(effects) + 1 /\ Len(effects) \in Nat
        /\ DOMAIN effects = 1..Len(effects)
        /\ \A k \in DOMAIN effects' : effects'[k] = IF k = Len(effects) + 1 THEN e ELSE effects[k]
    BY <2>1
  <2>3. deeds \in Seq({Deed(f) : f \in EffectSet}) /\ Len(deeds) = Len(effects)
    BY <2>1, <2>2
  <2>4. Append(deeds, Deed(e)) = [k \in 1..Len(effects) + 1 |->
            IF k = Len(effects) + 1 THEN Deed(e) ELSE deeds[k]]
    BY <2>3
  <2>5. \A k \in 1..Len(effects) + 1 :
            Deed(effects'[k]) = IF k = Len(effects) + 1 THEN Deed(e) ELSE deeds[k]
    BY <2>2
  <2> QED
    BY <2>2, <2>4, <2>5
<1>5. [k \in DOMAIN effects' |-> Deed(effects'[k])]
          = [k \in DOMAIN effects |-> Deed(effects[k])]'
  BY DEF Deed
<1>6. \A k \in DOMAIN deeds : deeds[k].request # e.request
  BY DEF Deed
<1>7. Deed(e) = [request |-> e.request, nonce |-> e.nonce,
                 action |-> standing[e.nonce].action, scope |-> e.scope]
  BY <1>1, <1>2 DEF Deed
<1>8. (1..issued)' = 1..issued
  OBVIOUS
<1> QED
  BY <1>1, <1>2, <1>3, <1>4, <1>5, <1>6, <1>7, <1>8 DEF Agreement!Act

\* A confirmation is prepared: an offer under a nonce that was never given out.
LEMMA PrepareOffers ==
    ASSUME Inv, NEW m \in {call, late} \ {None}, HandlePrepare(m)
    PROVE  \E n \in Nonces : Agreement!Offer(n)
<1>0. PICK n : n = issued + 1
  OBVIOUS
<1> DEFINE grant == [action |-> m.action, scope |-> m.scope, session |-> session, live |-> TRUE]
           standing == [k \in Nonces |-> Stands(k)]
<1>1. /\ m \in Message /\ Identified(m) /\ Receive(m) /\ m.op = "prepare"
      /\ issued' = n /\ confirmations' = [confirmations EXCEPT ![n] = grant]
      /\ UNCHANGED <<session, renew, effects>>
  BY <1>0, Received DEF HandlePrepare, history, MonitorIdle
<1>2. issued \in 0..MaxNonces /\ n \in Nonces /\ session \in 1..MaxSessions
  BY <1>0, BoundsAssumption DEF HandlePrepare, Nonces, Inv, TypeOK, ServerType
<1>3. /\ grant \in Grant /\ grant.action \in Actions /\ grant.live
      /\ grant.session = session
  BY <1>1, <1>2 DEF Grant, Message, Identified
<1>4. grant # None /\ Asks(grant) \in Asked
  BY <1>3, AsksSomething, NoneAssumption
<1>5. ~Signalling /\ ~Signalling'
  BY <1>1, Idle DEF Signalling, RenewAt
<1> HIDE DEF grant
<1>6. Stands(n)' = Asks(grant)
  <2>1. confirmations'[n] = grant
    BY <1>1, <1>2 DEF Inv, TypeOK, ServerType
  <2> QED
    BY <1>1, <1>3, <1>4, <1>5, <2>1 DEF Stands, Asks
<1>7. \A k \in Nonces \ {n} : Stands(k)' = Stands(k)
  <2>1. \A k \in Nonces \ {n} : confirmations'[k] = confirmations[k]
    BY <1>1 DEF Inv, TypeOK, ServerType
  <2> QED
    BY <1>1, <1>5, <2>1 DEF Stands, Asks
<1>8. [k \in Nonces |-> Stands(k)'] = [standing EXCEPT ![n] = Asks(grant)]
  BY <1>2, <1>6, <1>7
<1>9. \E action \in Actions, parts \in SUBSET Scopes :
          [k \in Nonces |-> Stands(k)'] =
              [standing EXCEPT ![n] = [action |-> action, parts |-> parts]]
  <2>1. \E action \in Actions, parts \in SUBSET Scopes :
            Asks(grant) = [action |-> action, parts |-> parts]
    BY <1>4 DEF Asked
  <2> QED
    BY <1>8, <2>1
<1>10. n \notin 1..issued /\ 1..(issued') = (1..issued) \cup {n}
  BY <1>0, <1>1, <1>2
<1>11. [k \in DOMAIN effects |-> Deed(effects[k])]' = [k \in DOMAIN effects |-> Deed(effects[k])]
  BY <1>1 DEF Deed
<1> QED
  BY <1>2, <1>9, <1>10, <1>11 DEF Agreement!Offer

\* A nonce that is taken by a control thread that is idle stops standing.
LEMMA PopLapses ==
    ASSUME Inv, NEW n \in Nonces, Pop(n), UNCHANGED session,
           ~Signalling, ~Signalling'
    PROVE  /\ Stands(n)' = None
           /\ \A k \in Nonces \ {n} : Stands(k)' = Stands(k)
<1>1. confirmations'[n] = None /\ \A k \in Nonces \ {n} : confirmations'[k] = confirmations[k]
  BY DEF Pop, Inv, TypeOK, ServerType
<1> QED
  BY <1>1 DEF Stands, Asks

\* What stands behind a new command is the grant that its effect carries.
LEMMA NewStands ==
    ASSUME Inv, NEW m \in {call, late} \ {None}, New(m)
    PROVE  /\ ~Signalling /\ m.nonce \in Nonces /\ Effect(m).grant = confirmations[m.nonce]
           /\ Stands(m.nonce) = Asks(Effect(m).grant)
<1>1. Receive(m) /\ Confirmed(m)
  BY DEF New, Acting
<1>2. m.nonce \in Nonces /\ confirmations[m.nonce] # None
  BY EffectOf
<1>3. ~Signalling
  BY <1>1, Idle
<1> QED
  BY <1>1, <1>2, <1>3 DEF Stands, Confirmed, Granted, Effect, Inv, Memory

\* A refused or recorded request uses its nonce up for nothing.
LEMMA RefusalLapses ==
    ASSUME Inv, NEW m \in {call, late} \ {None}, HandleUnconfirmed(m) \/ HandleRecorded(m)
    PROVE  Agreement!Lapse
<1>1. Receive(m) /\ m.nonce \in Nonces /\ Pop(m.nonce) /\ UNCHANGED <<session, issued, effects, renew>>
  BY Received
  DEF HandleUnconfirmed, HandleRecorded, Acting, Identified, history, MonitorIdle
<1>2. ~Signalling /\ ~Signalling'
  BY <1>1, Idle DEF Signalling, RenewAt
<1> QED
  BY <1>1, <1>2, PopLapses, LapseStep

\* A command that takes effect is an act on what its nonce stands for; one that is
\* rejected uses the nonce up.
LEMMA CommandActs ==
    ASSUME Inv, NEW m \in {call, late} \ {None}, NEW verdict \in Outcomes,
           HandleCommand(m, verdict)
    PROVE  Agreement!Lapse \/ \E r \in Requests, n \in Nonces : Agreement!Act(r, n)
<1> DEFINE e == Effect(m)
<1>1. /\ New(m) /\ Pop(m.nonce) /\ UNCHANGED <<session, issued, renew>>
      /\ m.action # "renew_tor_circuits"
      /\ effects' = effects \/ effects' = Append(effects, e)
  BY DEF HandleCommand, MonitorIdle
<1>2. /\ ~Signalling /\ m.nonce \in Nonces /\ Stands(m.nonce) = Asks(e.grant)
      /\ m.request \in Requests /\ e \in EffectSet /\ e.request = m.request
      /\ e.nonce = m.nonce /\ e.grant.action = e.action /\ Covers(e.grant.scope, e.scope)
  BY <1>1, NewStands, EffectOf
<1>3. ~Signalling'
  BY <1>1, <1>2 DEF Signalling, RenewAt
<1>4. Stands(m.nonce)' = None /\ \A k \in Nonces \ {m.nonce} : Stands(k)' = Stands(k)
  BY <1>1, <1>2, <1>3, PopLapses
<1>5. \A k \in DOMAIN effects : effects[k].request # m.request
  BY <1>1, Fresh
<1> HIDE DEF e
<1>6. CASE effects' = effects
  BY <1>1, <1>4, <1>6, LapseStep
<1>7. CASE effects' = Append(effects, e)
  BY <1>1, <1>2, <1>4, <1>5, <1>7, ActStep
<1> QED
  BY <1>1, <1>6, <1>7

\* A renewal that is taken up keeps its offer until its signal, or loses it with
\* its nonce when it is limited or has a row.
LEMMA RenewalLapses ==
    ASSUME Inv, NEW m \in {call, late} \ {None}, HandleRenewal(m)
    PROVE  Agreement!Lapse
<1> DEFINE e == Effect(m)
<1>1. /\ New(m) /\ Pop(m.nonce) /\ UNCHANGED <<session, issued, effects>>
      /\ ctl' = [msg |-> m, at |-> "renew", outcome |-> None, value |-> e]
  BY DEF HandleRenewal, history, MonitorIdle
<1>2. /\ ~Signalling /\ m.nonce \in Nonces /\ Stands(m.nonce) = Asks(e.grant)
      /\ e.nonce = m.nonce
  BY <1>1, NewStands, EffectOf
<1> HIDE DEF e
<1>3. ctl'.value = e
  BY <1>1
<1>4. CASE ~Signalling'
  BY <1>1, <1>2, <1>4, PopLapses, LapseStep
<1>5. CASE Signalling'
  <2>1. Stands(m.nonce)' = Stands(m.nonce)
    BY <1>2, <1>3, <1>5 DEF Stands, Asks
  <2>2. \A k \in Nonces \ {m.nonce} : confirmations'[k] = confirmations[k]
    BY <1>1, <1>2 DEF Pop, Inv, TypeOK, ServerType
  <2>3. \A k \in Nonces \ {m.nonce} : Stands(k)' = Stands(k)
    BY <1>1, <1>2, <1>3, <2>2 DEF Stands, Asks
  <2> QED
    BY <1>1, <2>1, <2>3, LapseStep
<1> QED
  BY <1>4, <1>5

\* The signal of an operator's renewal is the act, accepted or not; that of a
\* transfer thread concerns no offer.
LEMMA SignalActs ==
    ASSUME Inv, NEW c \in Callers, RenewSignal(c)
    PROVE  Agreement!Lapse \/ \E r \in Requests, n \in Nonces : Agreement!Act(r, n)
<1> DEFINE e == ctl.value
<1>1. /\ renew[c] # None /\ renew[c].at = "signal" /\ UNCHANGED <<session, issued, confirmations, ctl>>
      /\ \E at \in {"completed", "failed"} : Stage(c, renew[c].id, at, renew[c].since)
      /\ effects' = effects \/ (c = "control" /\ effects' = Append(effects, e))
  BY DEF RenewSignal, RenewAt, RenewIdle, history
<1>2. /\ renew'[c] # None /\ renew'[c].at # "signal"
      /\ \A d \in Callers \ {c} : renew'[d] = renew[d]
  BY <1>1, StageType
<1>3. CASE c = "worker"
  <2>1. Signalling' <=> Signalling
    BY <1>2, <1>3 DEF Signalling, RenewAt, Callers
  <2>2. \A n \in Nonces : Stands(n)' = Stands(n)
    BY <1>1, <2>1 DEF Stands, Asks
  <2> QED
    BY <1>1, <1>3, <2>2, LapseStep
<1>4. CASE c = "control"
  <2>1. Signalling /\ ~Signalling'
    BY <1>1, <1>2, <1>4 DEF Signalling, RenewAt
  <2>2. /\ e \in EffectSet /\ Grounded(e)
        /\ \A k \in DOMAIN effects : effects[k].request # e.request
    BY <1>1, <1>4 DEF Inv, TypeOK, ServerType, Answering, Renewing, Renewed, RenewAt, Effects
  <2>3. /\ e.request \in Requests /\ e.nonce \in Nonces /\ confirmations[e.nonce] = None
        /\ e.grant.action = e.action /\ Covers(e.grant.scope, e.scope)
    BY <2>2 DEF Grounded, Spent, EffectSet
  <2>4. PICK g : g = e
    OBVIOUS
  <2>5. /\ Stands(g.nonce) = Asks(g.grant) /\ Stands(g.nonce)' = None
        /\ \A n \in Nonces \ {g.nonce} : Stands(n)' = Stands(n)
    BY <1>1, <2>1, <2>3, <2>4 DEF Stands, Asks
  <2>6. CASE effects' = effects
    BY <1>1, <2>3, <2>4, <2>5, <2>6, LapseStep
  <2>7. CASE effects' = Append(effects, e)
    BY <1>1, <2>2, <2>3, <2>4, <2>5, <2>7, ActStep
  <2> QED
    BY <1>1, <2>6, <2>7
<1> QED
  BY <1>3, <1>4 DEF Callers

\* The process goes down with every offer; a confirmation that grows old is one
\* offer less.
LEMMA ProcessLapses ==
    ASSUME Inv, GoesDown \/ \E n \in Nonces : NonceExpires(n)
    PROVE  Agreement!Lapse
<1>1. CASE GoesDown
  <2>1. renew'["control"] = None /\ confirmations' = [n \in Nonces |-> None]
        /\ UNCHANGED <<issued, effects>>
    BY <1>1 DEF GoesDown, history, Callers
  <2>2. \A n \in Nonces : Stands(n)' = None
    BY <2>1 DEF Stands, Signalling, RenewAt
  <2> QED
    BY <2>1, <2>2, LapseStep
<1>2. CASE \E n \in Nonces : NonceExpires(n)
  <2>1. PICK n \in Nonces : NonceExpires(n)
    BY <1>2
  <2>2. /\ UNCHANGED <<session, issued, effects, renew, ctl>> /\ confirmations[n] # None
        /\ confirmations' = [confirmations EXCEPT ![n].live = FALSE]
    BY <2>1 DEF NonceExpires, history
  <2>3. /\ confirmations[n] \in Grant /\ confirmations'[n].live = FALSE
        /\ \A k \in Nonces \ {n} : confirmations'[k] = confirmations[k]
    BY <2>2 DEF Inv, TypeOK, ServerType, Grant
  <2>4. Signalling' <=> Signalling
    BY <2>2 DEF Signalling, RenewAt
  <2>5. \A k \in Nonces : Stands(k)' \in {Stands(k), None}
    BY <2>2, <2>3, <2>4 DEF Stands, Asks
  <2> QED
    BY <2>2, <2>5, LapseStep
<1> QED
  BY <1>1, <1>2

\* A step that touches no confirmation and no effect, stays in its session or finds
\* no confirmation, and neither starts nor ends the wait for a signal.
LEMMA NothingLapses ==
    ASSUME UNCHANGED <<issued, confirmations, effects>>,
           session' = session \/ \A n \in Nonces : confirmations[n] = None,
           Signalling' <=> Signalling, Signalling => ctl'.value = ctl.value
    PROVE  Agreement!Lapse
<1>1. \A n \in Nonces : Stands(n)' = Stands(n)
  BY DEF Stands, Asks
<1> QED
  BY <1>1, LapseStep

\* Requests that are read only, answers, clients that give up, the steps of a
\* renewal beside its signal, a new session and time leave every offer as it is.
LEMMA OtherLapses ==
    ASSUME Inv,
           \/ \E m \in {call, late} \ {None} :
                  HandleForeign(m) \/ HandleState(m) \/ HandleReplay(m)
           \/ Operator \/ CallFails \/ Reply \/ Start \/ Tick
           \/ \E c \in Callers : RenewRecord(c) \/ RenewAudit(c)
           \/ \E id \in Autos : StartAutomatic(id)
    PROVE  Agreement!Lapse
<1>1. CASE \E m \in {call, late} \ {None} :
               HandleForeign(m) \/ HandleState(m) \/ HandleReplay(m)
  <2>1. PICK m \in {call, late} \ {None} :
            HandleForeign(m) \/ HandleState(m) \/ HandleReplay(m)
    BY <1>1
  <2>2. Receive(m) /\ UNCHANGED <<session, issued, confirmations, effects, renew>>
    BY <2>1 DEF HandleForeign, HandleState, HandleReplay, Acting, memory, history, MonitorIdle
  <2>3. ~Signalling /\ ~Signalling'
    BY <2>2, Idle DEF Signalling, RenewAt
  <2> QED
    BY <2>2, <2>3, NothingLapses
<1>2. CASE Operator
  <2>1. ServerIdle
    BY <1>2 DEF Operator, Prepare, Poll, Dismiss, Confirm, Repeat
  <2>2. (Signalling' <=> Signalling) /\ UNCHANGED <<session, issued, confirmations, effects, ctl>>
    BY <2>1 DEF ServerIdle, memory, history, Signalling, RenewAt
  <2> QED
    BY <2>2, NothingLapses
<1>3. CASE CallFails
  <2>1. UNCHANGED <<session, issued, confirmations, effects, renew>>
        /\ (ctl' = ctl \/ (ctl # None /\ ctl' = [ctl EXCEPT !.msg = Closed(@)]))
    BY <1>3 DEF CallFails, Served, memory, history
  <2>2. ctl # None => ctl'.value = ctl.value
    BY <2>1 DEF Inv, TypeOK, ServerType, Answering, Renewing
  <2>3. (Signalling' <=> Signalling) /\ (Signalling => ctl # None)
    BY <2>1 DEF Signalling, RenewAt, Inv, Renewed
  <2> QED
    BY <2>1, <2>2, <2>3, NothingLapses
<1>4. CASE Reply
  <2>1. ctl # None /\ ctl.at = "reply" /\ UNCHANGED <<session, issued, confirmations, effects, renew>>
    BY <1>4 DEF Reply, memory, history
  <2>2. ~Signalling /\ ~Signalling'
    BY <2>1 DEF Signalling, RenewAt, Inv, Renewed
  <2> QED
    BY <2>1, <2>2, NothingLapses
<1>5. CASE Start \/ Tick
  <2>1. /\ UNCHANGED <<issued, confirmations, effects, renew, ctl>>
        /\ session' = session \/ \A n \in Nonces : confirmations[n] = None
    BY <1>5 DEF Start, Tick, memory, history, Inv, Memory
  <2>2. Signalling' <=> Signalling
    BY <2>1 DEF Signalling, RenewAt
  <2> QED
    BY <2>1, <2>2, NothingLapses
<1>6. CASE \E c \in Callers : RenewRecord(c) \/ RenewAudit(c)
  <2>1. PICK c \in Callers : RenewRecord(c) \/ RenewAudit(c)
    BY <1>6
  <2>2. /\ UNCHANGED <<session, issued, confirmations, effects>> /\ renew[c].at # "signal"
        /\ c = "worker" => ctl' = ctl
        /\ \E x : renew' = [renew EXCEPT ![c] = x] /\ (x = None \/ x.at = "audit")
    BY <2>1 DEF RenewRecord, RenewAudit, RenewAt, RenewIdle, Stage, history
  <2>3. /\ c = "control" => ~Signalling /\ ~Signalling'
        /\ c = "worker" => (Signalling' <=> Signalling)
    BY <2>2 DEF Signalling, RenewAt, Inv, TypeOK, DurableType, Callers
  <2> QED
    BY <2>1, <2>2, <2>3, NothingLapses DEF Callers
<1>7. CASE \E id \in Autos : StartAutomatic(id)
  <2>1. PICK id \in Autos : StartAutomatic(id)
    BY <1>7
  <2>2. /\ UNCHANGED <<session, issued, confirmations, effects, ctl>> /\ Check("worker", id)
    BY <2>1 DEF StartAutomatic, RenewIdle, history
  <2>3. renew'["control"] = renew["control"]
    BY <2>2, Checked DEF Callers, Audits, Inv, TypeOK, DurableType
  <2> QED
    BY <2>2, <2>3, NothingLapses DEF Signalling, RenewAt
<1> QED
  BY <1>1, <1>2, <1>3, <1>4, <1>5, <1>6, <1>7

\* Every step of the channel is an Offer, a Lapse or an Act of Consent.
LEMMA ConsentStep ==
    ASSUME Inv, Next
    PROVE  Agreement!Next
<1>1. CASE Operator \/ CallFails \/ Tick
  BY <1>1, OtherLapses DEF Agreement!Next
<1>2. CASE Serve
  BY <1>2, OtherLapses, PrepareOffers, RefusalLapses, CommandActs, RenewalLapses
  DEF Serve, Handle, Agreement!Next
<1>3. CASE \E c \in Callers : Renewal(c)
  BY <1>3, OtherLapses, SignalActs DEF Renewal, Agreement!Next
<1>4. CASE Process
  BY <1>4, OtherLapses, ProcessLapses DEF Process, Agreement!Next
<1>5. CASE \E id \in Autos : StartAutomatic(id)
  BY <1>5, OtherLapses DEF Agreement!Next
<1> QED
  BY <1>1, <1>2, <1>3, <1>4, <1>5 DEF Next, ChannelNext, Automatic, Callers

\* The control channel implements Consent: what happens was offered to the operator
\* and confirmed while the offer stood, no offer serves twice and no request acts
\* twice (_prepare_confirmation(), _confirmed_action(), request_newnym()).
THEOREM OnlyByConsent == Spec => ConsentKept
<1>1. Init => Agreement!Init
  <2> SUFFICES ASSUME Init PROVE Agreement!Init
    OBVIOUS
  <2>1. 1..issued = {} /\ \A n \in Nonces : Stands(n) = None
    BY DEF Init, Stands, Signalling, RenewAt, Callers
  <2>2. [k \in DOMAIN effects |-> Deed(effects[k])] = <<>>
    BY DEF Init
  <2> QED
    BY <2>1, <2>2 DEF Agreement!Init
<1>2. Inv /\ [Next]_vars =>
        [Agreement!Next]_<<1..issued, [n \in Nonces |-> Stands(n)],
                            [k \in DOMAIN effects |-> Deed(effects[k])]>>
  <2>1. CASE Inv /\ Next
    BY <2>1, ConsentStep
  <2>2. CASE UNCHANGED vars
    BY <2>2 DEF vars, memory, history, Stands, Signalling, RenewAt, Asks, Deed
  <2> QED
    BY <2>1, <2>2
<1> QED
  BY <1>1, <1>2, InvHolds, PTL DEF Spec, ConsentKept, Agreement!Spec
==============================================================================
