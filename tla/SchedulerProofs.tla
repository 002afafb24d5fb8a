--------------------------- MODULE SchedulerProofs ---------------------------
(***************************************************************************)
(* Proofs about Scheduler, for every value of its constants.               *)
(***************************************************************************)
EXTENDS Scheduler, FiniteSetTheorems, WellFoundedInduction, TLAPS

WorkingAt(s) == task[s] # None /\ task[s].at \in Working

\* The main loop: a row is selected while it may still be attempted and nobody works
\* on it; a thread is free while it admits; nothing is in the pool once it decided
\* that nothing runs.
Loop ==
    /\ main = "admit" <=> pick # None
    /\ pick # None => /\ attempts[pick] < MaxAttempts
                      /\ \A s \in Slots : WorkingAt(s) => Item(s) # pick
    /\ main \in {"pick", "admit", "recheck"} => Futures # Slots
    /\ main \in {"decide", "sleep", "closing", "ended"} /\ ~broken => Futures = {}
    /\ broken => main \in {"closing", "ended"}

\* What a working task can rely on: it alone works on its item, whose row is out of
\* the admission loop's reach until the task writes it.
Exclusive ==
    \A s, t \in Slots : s # t /\ WorkingAt(s) /\ WorkingAt(t) => Item(s) # Item(t)
Reserved ==
    \A s \in Slots : WorkingAt(s) =>
        IF task[s].kind = "transfer"
        THEN /\ status[Item(s)] \in InHand \cup {"excluded"}
             /\ task[s].at \in {"submitted", "waiting"} => task[s].attempts < MaxAttempts
        ELSE /\ task[s].at = "submitted"
             /\ \/ status[Item(s)] = "unavailable" /\ ~due[Item(s)]
                \/ status[Item(s)] = "excluded"

\* A row in hand is in the hands of a task, or of one whose failure nobody has
\* collected yet.
Attended == \A i \in Items : status[i] \in InHand /\ ~broken => InHandOf(i)

\* Slots: no two items hold one, each is backed by a task that has not finished
\* with it, and those that hold one and those about to take one fit together.
Holding  == {"waiting", "starting", "running", "stopped", "full", "promoting",
             "clearing", "failed"}
Holders  == {i \in Items : ids[i] # 0}
Takers   == {s \in Slots : TransferAt(s, "submitted")}
Distinct == \A i, j \in Items : i # j /\ ids[i] # 0 => ids[i] # ids[j]
Backed   == ~broken => \A i \in Holders :
                \E s \in Slots : task[s] # None /\ Item(s) = i /\ task[s].at \in Holding
Room     == \E f \in [Holders -> Slots \ Takers] :
                \A i, j \in Holders : f[i] = f[j] => i = j

Inv == /\ TypeOK /\ Loop /\ Exclusive /\ Reserved /\ Attended
       /\ Distinct /\ Backed /\ Room

-----------------------------------------------------------------------------
\* What next_pending(), next_recheck(), submit() and reserve_worker_id() take first
\* is a member of the set they look at.
LEMMA FirstIn ==
    ASSUME NEW S, S \subseteq Nat, S # {}
    PROVE  First(S) \in S
<1> DEFINE R == OpToRel(<, Nat)
<1>1. IsWellFoundedOn(R, Nat)
  BY NatLessThanWellFounded
<1> HIDE DEF R
<1>2. PICK m \in S : \A n \in S : ~(<<n, m>> \in R)
  BY <1>1, WFMin
<1>3. \A n \in S : n < m => <<n, m>> \in R
  BY DEF R, OpToRel
<1>4. ASSUME NEW n \in S PROVE m <= n
  <2>1. m \in Nat /\ n \in Nat /\ ~(n < m)
    BY <1>2, <1>3
  <2> QED
    BY <2>1
<1> QED
  BY <1>4 DEF First

\* Initially everything is queued and nothing runs.
LEMMA InitInv == Init => Inv
<1> SUFFICES ASSUME Init PROVE Inv
  OBVIOUS
<1>1. TypeOK
  <2>1. /\ status \in [Items -> Statuses] /\ due \in [Items -> BOOLEAN]
        /\ main \in Places /\ pick \in Items \cup {None}
    BY DEF Init, Statuses, Retryable, Places
  <2>2. attempts \in [Items -> 0..MaxAttempts] /\ ids \in [Items -> 0..Workers]
    BY LimitsAssumption DEF Init
  <2>3. task \in [Slots -> Tasks \cup {None}]
    BY DEF Init
  <2>4. /\ stop \in BOOLEAN /\ drain \in BOOLEAN /\ paused \in BOOLEAN
        /\ expired \in BOOLEAN /\ broken \in BOOLEAN
    BY DEF Init
  <2> QED
    BY <2>1, <2>2, <2>3, <2>4 DEF TypeOK
<1>2. Futures = {} /\ Holders = {}
  BY DEF Init, Futures, Holders
<1>3. Loop
  BY <1>2, LimitsAssumption, ItemsAssumption DEF Init, Loop, Slots
<1>4. Exclusive /\ Reserved /\ Attended
  BY DEF Init, Exclusive, Reserved, Attended, WorkingAt, InHand
<1>5. Distinct /\ Backed
  BY <1>2 DEF Init, Distinct, Backed
<1>6. Room
  <2> DEFINE f == [i \in Holders |-> 1]
  <2>1. f \in [Holders -> Slots \ Takers] /\ \A i, j \in Holders : f[i] = f[j] => i = j
    BY <1>2
  <2> QED
    BY <2>1 DEF Room
<1> QED
  BY <1>1, <1>3, <1>4, <1>5, <1>6 DEF Inv

-----------------------------------------------------------------------------
(* Steps of a task: what they do to the rows, and what to the slots.       *)

\* A step of a task changes where it stands, and nothing else of the pool.
LEMMA TaskMoves ==
    ASSUME Inv, NEW s \in Slots, task[s] # None, NEW stage \in Stages, Step(s, stage)
    PROVE  /\ Item(s) \in Items /\ task[s] \in Tasks
           /\ task' \in [Slots -> Tasks \cup {None}] /\ task'[s] # None
           /\ task'[s].at = stage /\ task'[s].item = Item(s)
           /\ task'[s].kind = task[s].kind /\ task'[s].attempts = task[s].attempts
           /\ \A t \in Slots \ {s} : task'[t] = task[t]
           /\ \A t \in Slots : task'[t] # None <=> task[t] # None
           /\ \A t \in Slots : task[t] # None => Item(t)' = Item(t)
<1>1. task \in [Slots -> Tasks \cup {None}] /\ task[s] \in Tasks /\ Item(s) \in Items
  BY DEF Inv, TypeOK, Tasks, Item
<1> DEFINE new == [task[s] EXCEPT !.at = stage]
<1>2. /\ task' = [task EXCEPT ![s] = new] /\ new \in Tasks
      /\ new.item = Item(s) /\ new.at = stage /\ new.kind = task[s].kind
      /\ new.attempts = task[s].attempts
  BY <1>1 DEF Step, Tasks, Item
<1>3. new # None
  BY <1>2, NoneAssumption
<1> HIDE DEF new
<1>4. /\ task' \in [Slots -> Tasks \cup {None}] /\ task'[s] = new
      /\ \A t \in Slots \ {s} : task'[t] = task[t]
  BY <1>1, <1>2
<1>5. \A t \in Slots : task[t] # None => Item(t)' = Item(t)
  BY <1>2, <1>4 DEF Item
<1> QED
  BY <1>1, <1>2, <1>3, <1>4, <1>5

\* A task that steps on keeps the loop and the rows in order, if it writes only the
\* row of its item, and that row only while it works, and leaves in hand only what
\* it goes on with.
LEMMA RowsStep ==
    ASSUME Inv, NEW s \in Slots, task[s] # None, NEW stage \in Stages,
           Step(s, stage), MainIdle,
           status' \in [Items -> Statuses], attempts' \in [Items -> 0..MaxAttempts],
           due' \in [Items -> BOOLEAN],
           \A i \in Items \ {Item(s)} :
               status'[i] = status[i] /\ attempts'[i] = attempts[i] /\ due'[i] = due[i],
           WorkingAt(s) \/ (task[s].at = "clearing" /\ stage = "done" /\ UNCHANGED rows),
           stage \in Working =>
               /\ task[s].kind = "transfer" /\ status'[Item(s)] \in InHand \cup {"excluded"}
               /\ stage \in {"submitted", "waiting"} => task[s].attempts < MaxAttempts,
           WorkingAt(s) /\ status'[Item(s)] \in InHand => stage \in Working \cup {"failed"}
    PROVE  /\ task' \in [Slots -> Tasks \cup {None}]
           /\ Loop' /\ Exclusive' /\ Reserved' /\ Attended'
<1>1. /\ Item(s) \in Items /\ task[s] \in Tasks
      /\ task' \in [Slots -> Tasks \cup {None}] /\ task'[s] # None
      /\ task'[s].at = stage /\ task'[s].item = Item(s)
      /\ task'[s].kind = task[s].kind /\ task'[s].attempts = task[s].attempts
      /\ \A t \in Slots \ {s} : task'[t] = task[t]
      /\ \A t \in Slots : task'[t] # None <=> task[t] # None
      /\ \A t \in Slots : task[t] # None => Item(t)' = Item(t)
  BY TaskMoves
<1>2. task \in [Slots -> Tasks \cup {None}]
  BY DEF Inv, TypeOK
<1>3. Futures' = Futures /\ \A t \in Slots : WorkingAt(t)' => WorkingAt(t)
  BY <1>1 DEF Futures, WorkingAt, Working
<1>4. main' = main /\ pick' = pick /\ broken' = broken
  BY DEF MainIdle
<1>5. Loop'
  <2>1. pick # None => pick \in Items
    BY DEF Inv, TypeOK
  <2>2. pick # None => attempts'[pick] = attempts[pick]
    BY <2>1 DEF Inv, Loop, rows
  <2>3. pick # None => \A t \in Slots : WorkingAt(t)' => Item(t)' # pick
    BY <1>1, <1>3 DEF Inv, Loop, WorkingAt
  <2> QED
    BY <1>3, <1>4, <2>2, <2>3 DEF Inv, Loop
<1>6. Exclusive'
  BY <1>1, <1>3 DEF Inv, Exclusive, WorkingAt
<1>7. Reserved'
  <2> SUFFICES ASSUME NEW t \in Slots, WorkingAt(t)'
               PROVE  (IF task[t].kind = "transfer"
                       THEN /\ status[Item(t)] \in InHand \cup {"excluded"}
                            /\ task[t].at \in {"submitted", "waiting"} => task[t].attempts < MaxAttempts
                       ELSE /\ task[t].at = "submitted"
                            /\ \/ status[Item(t)] = "unavailable" /\ ~due[Item(t)]
                               \/ status[Item(t)] = "excluded")'
    BY DEF Reserved
  <2>1. CASE t = s
    BY <1>1, <1>3, <2>1 DEF WorkingAt, Item
  <2>2. CASE t # s
    <3>1. WorkingAt(t) /\ Item(t)' = Item(t) /\ task'[t] = task[t] /\ Item(t) \in Items
      BY <1>1, <1>2, <1>3, <2>2 DEF WorkingAt, Item, Tasks
    <3>2. status'[Item(t)] = status[Item(t)] /\ due'[Item(t)] = due[Item(t)]
      BY <2>2, <3>1 DEF Inv, Exclusive, rows
    <3> QED
      BY <3>1, <3>2 DEF Inv, Reserved
  <2> QED
    BY <2>1, <2>2
<1>8. Attended'
  <2> SUFFICES ASSUME NEW i \in Items, status'[i] \in InHand, ~broken'
               PROVE  InHandOf(i)'
    BY DEF Attended
  <2>1. CASE i = Item(s) /\ WorkingAt(s)
    BY <1>1, <2>1 DEF InHandOf, Item
  <2>2. CASE i # Item(s) \/ ~WorkingAt(s)
    <3>1. status[i] = status'[i]
      BY <2>2 DEF rows
    <3>2. PICK t \in Slots : task[t] # None /\ Item(t) = i /\ task[t].at \in Working \cup {"failed"}
      BY <1>4, <3>1 DEF Inv, Attended, InHandOf
    <3>3. t # s
      BY <2>2, <3>2 DEF WorkingAt, Working
    <3> QED
      BY <1>1, <3>2, <3>3 DEF InHandOf, Item
  <2> QED
    BY <2>1, <2>2
<1> QED
  BY <1>1, <1>5, <1>6, <1>7, <1>8

\* A task that keeps its hold on a slot, and does not ask for one again, leaves
\* the slots in order.
LEMMA SlotsKept ==
    ASSUME Inv, NEW s \in Slots, task[s] # None, NEW stage \in Stages,
           Step(s, stage), MainIdle, UNCHANGED ids, stage # "submitted",
           task[s].at \in Holding => stage \in Holding
    PROVE  Distinct' /\ Backed' /\ Room'
<1>1. /\ task'[s] # None /\ task'[s].at = stage /\ task'[s].item = Item(s)
      /\ \A t \in Slots \ {s} : task'[t] = task[t]
  BY TaskMoves
<1>2. ids' = ids /\ Holders' = Holders /\ broken' = broken
  BY DEF Holders, MainIdle
<1>3. Distinct'
  BY <1>2 DEF Inv, Distinct
<1>4. Backed'
  <2> SUFFICES ASSUME ~broken', NEW i \in Holders
               PROVE  \E t \in Slots : task'[t] # None /\ task'[t].item = i /\ task'[t].at \in Holding
    BY <1>2 DEF Backed, Item
  <2>1. PICK t \in Slots : task[t] # None /\ Item(t) = i /\ task[t].at \in Holding
    BY <1>2 DEF Inv, Backed
  <2>2. CASE t = s
    BY <1>1, <2>1, <2>2
  <2>3. CASE t # s
    BY <1>1, <2>1, <2>3 DEF Item
  <2> QED
    BY <2>2, <2>3
<1>5. Room'
  <2>1. Takers' \subseteq Takers
    BY <1>1 DEF Takers, TransferAt, At
  <2>2. PICK f \in [Holders -> Slots \ Takers] :
            \A i, j \in Holders : f[i] = f[j] => i = j
    BY DEF Inv, Room
  <2>3. f \in [Holders' -> Slots \ Takers']
    BY <1>2, <2>1
  <2> QED
    BY <1>2, <2>2, <2>3 DEF Room
<1> QED
  BY <1>3, <1>4, <1>5

\* Giving a slot back, by clear_transfer_telemetry(), takes nothing from another item.
LEMMA SlotReleased ==
    ASSUME Inv, NEW s \in Slots, task[s] # None, NEW stage \in Stages,
           Step(s, stage), MainIdle, Release(s), stage # "submitted"
    PROVE  ids' \in [Items -> 0..Workers] /\ Distinct' /\ Backed' /\ Room'
<1>1. /\ Item(s) \in Items /\ task'[s] # None /\ task'[s].at = stage
      /\ \A t \in Slots \ {s} : task'[t] = task[t]
  BY TaskMoves
<1>2. /\ ids \in [Items -> 0..Workers] /\ 0 \in 0..Workers
      /\ ids' = [ids EXCEPT ![Item(s)] = 0]
  BY LimitsAssumption DEF Inv, TypeOK, Release
<1>3. /\ ids' \in [Items -> 0..Workers] /\ ids'[Item(s)] = 0
      /\ \A i \in Items \ {Item(s)} : ids'[i] = ids[i]
      /\ Holders' = Holders \ {Item(s)} /\ broken' = broken
  BY <1>1, <1>2 DEF Holders, MainIdle
<1>4. Distinct'
  BY <1>3 DEF Inv, Distinct
<1>5. Backed'
  <2> SUFFICES ASSUME ~broken', NEW i \in Holders'
               PROVE  \E t \in Slots : task'[t] # None /\ task'[t].item = i /\ task'[t].at \in Holding
    BY DEF Backed, Item
  <2>1. PICK t \in Slots : task[t] # None /\ Item(t) = i /\ task[t].at \in Holding
    BY <1>3 DEF Inv, Backed
  <2>2. t # s
    BY <1>3, <2>1
  <2> QED
    BY <1>1, <2>1, <2>2 DEF Item
<1>6. Room'
  <2>1. Takers' \subseteq Takers
    BY <1>1 DEF Takers, TransferAt, At
  <2>2. PICK f \in [Holders -> Slots \ Takers] :
            \A i, j \in Holders : f[i] = f[j] => i = j
    BY DEF Inv, Room
  <2> DEFINE g == [i \in Holders' |-> f[i]]
  <2>3. g \in [Holders' -> Slots \ Takers']
    BY <1>3, <2>1
  <2>4. \A i, j \in Holders' : g[i] = g[j] => i = j
    BY <1>3, <2>2
  <2> HIDE DEF g
  <2> QED
    BY <2>3, <2>4 DEF Room
<1> QED
  BY <1>3, <1>4, <1>5, <1>6

\* reserve_worker_id() takes a number nobody holds, for a task that then backs it.
LEMMA SlotTaken ==
    ASSUME Inv, NEW s \in Slots, TransferAt(s, "submitted"), FreeIds # {},
           ids' = [ids EXCEPT ![Item(s)] = First(FreeIds)], Step(s, "waiting"), MainIdle
    PROVE  ids' \in [Items -> 0..Workers] /\ Distinct' /\ Backed' /\ Room'
<1>1. /\ Item(s) \in Items /\ task[s] # None /\ task'[s] # None /\ task'[s].at = "waiting"
      /\ task'[s].item = Item(s) /\ \A t \in Slots \ {s} : task'[t] = task[t]
  BY TaskMoves DEF TransferAt, At, Stages, Working
<1>2. First(FreeIds) \in FreeIds
  BY FirstIn DEF FreeIds, Slots
<1> DEFINE id == First(FreeIds)
<1>3. id \in 1..Workers /\ \A i \in Items : ids[i] # id
  BY <1>2 DEF FreeIds, Slots
<1> HIDE DEF id
<1>4. /\ ids \in [Items -> 0..Workers] /\ id \in 0..Workers /\ id # 0
      /\ ids' = [ids EXCEPT ![Item(s)] = id]
  BY <1>3, LimitsAssumption DEF Inv, TypeOK, id
<1>5. /\ ids' \in [Items -> 0..Workers] /\ ids'[Item(s)] = id
      /\ \A i \in Items \ {Item(s)} : ids'[i] = ids[i]
      /\ Holders' = Holders \cup {Item(s)} /\ broken' = broken
  BY <1>1, <1>4 DEF Holders, MainIdle
<1>6. Distinct'
  BY <1>3, <1>5 DEF Inv, Distinct
<1>7. Backed'
  <2> SUFFICES ASSUME ~broken', NEW i \in Holders'
               PROVE  \E t \in Slots : task'[t] # None /\ task'[t].item = i /\ task'[t].at \in Holding
    BY DEF Backed, Item
  <2>1. CASE i = Item(s)
    BY <1>1, <2>1 DEF Holding
  <2>2. CASE i # Item(s)
    <3>1. PICK t \in Slots : task[t] # None /\ Item(t) = i /\ task[t].at \in Holding
      BY <1>5, <2>2 DEF Inv, Backed
    <3> QED
      BY <1>1, <2>2, <3>1 DEF Item
  <2> QED
    BY <2>1, <2>2
<1>8. Room'
  <2>1. Takers' = Takers \ {s} /\ s \in Takers
    BY <1>1 DEF Takers, TransferAt, At
  <2>2. PICK f \in [Holders -> Slots \ Takers] :
            \A i, j \in Holders : f[i] = f[j] => i = j
    BY DEF Inv, Room
  <2> DEFINE g == [i \in Holders' |-> IF i \in Holders THEN f[i] ELSE s]
  <2>3. g \in [Holders' -> Slots \ Takers']
    BY <2>1
  <2>4. \A i, j \in Holders' : g[i] = g[j] => i = j
    BY <1>5, <2>1, <2>2
  <2> HIDE DEF g
  <2> QED
    BY <2>3, <2>4 DEF Room
<1> QED
  BY <1>5, <1>6, <1>7, <1>8

-----------------------------------------------------------------------------
(* One lemma per step of a task.                                           *)

\* The types an action of a task starts from.
LEMMA Known ==
    ASSUME Inv, NEW s \in Slots, task[s] # None
    PROVE  /\ Item(s) \in Items /\ task[s] \in Tasks
           /\ status \in [Items -> Statuses] /\ attempts \in [Items -> 0..MaxAttempts]
           /\ due \in [Items -> BOOLEAN] /\ ids \in [Items -> 0..Workers]
           /\ stop \in BOOLEAN /\ drain \in BOOLEAN /\ paused \in BOOLEAN /\ expired \in BOOLEAN
  BY DEF Inv, TypeOK, Tasks, Item

\* Writing the status of the task's item changes that status only.
LEMMA Written ==
    ASSUME Inv, NEW s \in Slots, task[s] # None, NEW new \in Statuses, Move(s, new)
    PROVE  /\ status' \in [Items -> Statuses] /\ status'[Item(s)] = new
           /\ \A i \in Items \ {Item(s)} : status'[i] = status[i]
  BY Known DEF Move

\* What is left of the invariant once the rows and the slots are in order.
LEMMA Assembled ==
    ASSUME Inv, MainIdle,
           status' \in [Items -> Statuses], attempts' \in [Items -> 0..MaxAttempts],
           due' \in [Items -> BOOLEAN], ids' \in [Items -> 0..Workers],
           stop' \in BOOLEAN, drain' \in BOOLEAN, paused' \in BOOLEAN, expired' \in BOOLEAN,
           task' \in [Slots -> Tasks \cup {None}],
           Loop' /\ Exclusive' /\ Reserved' /\ Attended',
           Distinct' /\ Backed' /\ Room'
    PROVE  Inv'
<1>1. main' \in Places /\ pick' \in Items \cup {None} /\ broken' \in BOOLEAN
  BY DEF Inv, TypeOK, MainIdle
<1>2. TypeOK'
  BY <1>1 DEF TypeOK
<1> QED
  BY <1>2 DEF Inv

\* A task that hands its item over writes a status that is not in hand, and goes on
\* to give its slot back or, holding none, is done.
LEMMA HandedOver ==
    ASSUME Inv, NEW s \in Slots, WorkingAt(s), NEW new \in Statuses \ InHand,
           NEW stage \in {"clearing", "done"}, task[s].at \in Holding => stage = "clearing",
           Move(s, new), Step(s, stage), MainIdle, ids' = ids,
           attempts' \in [Items -> 0..MaxAttempts], due' \in [Items -> BOOLEAN],
           \A i \in Items \ {Item(s)} : attempts'[i] = attempts[i] /\ due'[i] = due[i],
           stop' \in BOOLEAN, drain' \in BOOLEAN, paused' \in BOOLEAN, expired' \in BOOLEAN
    PROVE  Inv'
<1>1. task[s] # None /\ stage \in Stages /\ stage \notin Working /\ stage # "submitted"
  BY DEF WorkingAt, Stages, Working
<1>2. /\ status' \in [Items -> Statuses] /\ status'[Item(s)] = new
      /\ \A i \in Items \ {Item(s)} : status'[i] = status[i]
  BY <1>1, Written
<1>3. task' \in [Slots -> Tasks \cup {None}] /\ Loop' /\ Exclusive' /\ Reserved' /\ Attended'
  BY <1>1, <1>2, RowsStep
<1>4. Distinct' /\ Backed' /\ Room'
  BY <1>1, SlotsKept DEF Holding
<1>5. ids' \in [Items -> 0..Workers]
  BY <1>1, Known
<1> QED
  BY <1>2, <1>3, <1>4, <1>5, Assembled

\* What a working task is: a transfer whose row is in hand or excluded, or a recheck.
LEMMA AtWork ==
    ASSUME Inv, NEW s \in Slots, WorkingAt(s)
    PROVE  \/ task[s].kind = "transfer" /\ status[Item(s)] \in InHand \cup {"excluded"}
           \/ task[s].kind = "recheck" /\ task[s].at = "submitted"
  BY Known DEF Inv, Reserved, WorkingAt, Tasks

\* A working task that goes on with its item, or fails with it, and leaves the rows
\* and the slots alone.
LEMMA GoesOn ==
    ASSUME Inv, NEW s \in Slots, WorkingAt(s),
           NEW stage \in {"running", "stopped", "full", "failed"},
           stage # "failed" => task[s].kind = "transfer",
           Step(s, stage), MainIdle, UNCHANGED rows, ids' = ids,
           stop' \in BOOLEAN, drain' \in BOOLEAN, paused' \in BOOLEAN, expired' \in BOOLEAN
    PROVE  Inv'
<1>1. task[s] # None /\ stage \in Stages /\ stage \notin {"submitted", "waiting"}
  BY DEF WorkingAt, Stages, Working
<1>2. status' = status /\ attempts' = attempts /\ due' = due
  BY DEF rows
<1>3. task[s].kind = "transfer" => status'[Item(s)] \in InHand \cup {"excluded"}
  BY <1>2, AtWork
<1>4. stage \in Working \cup {"failed"} /\ stage \in Holding
  BY DEF Working, Holding
<1>5. task' \in [Slots -> Tasks \cup {None}] /\ Loop' /\ Exclusive' /\ Reserved' /\ Attended'
  <2>1. stage \in Working => stage # "failed"
    BY DEF Working
  <2> QED
    BY <1>1, <1>2, <1>3, <1>4, <2>1, Known, RowsStep
<1>6. Distinct' /\ Backed' /\ Room'
  BY <1>1, <1>4, SlotsKept
<1> QED
  BY <1>1, <1>2, <1>5, <1>6, Known, Assembled

\* transfer() completes an existing file, takes a slot, or finds none.
LEMMA TakeSlotStep == ASSUME Inv, NEW s \in Slots, TakeSlot(s) PROVE Inv'
<1>1. /\ task[s] # None /\ task[s].at = "submitted" /\ task[s].kind = "transfer"
      /\ WorkingAt(s) /\ MainIdle /\ attempts' = attempts /\ due' = due
      /\ stop' = stop /\ drain' = drain /\ paused' = paused /\ expired' = expired
  BY DEF TakeSlot, TransferAt, At, WorkingAt, Working, flags
<1>2. task[s].attempts < MaxAttempts /\ status[Item(s)] \in InHand \cup {"excluded"}
  BY <1>1 DEF Inv, Reserved
<1>3. CASE Move(s, "complete") /\ Step(s, "done") /\ UNCHANGED ids
  BY <1>1, <1>3, Known, HandedOver DEF Statuses, InHand, Holding
<1>4. CASE /\ FreeIds # {} /\ ids' = [ids EXCEPT ![Item(s)] = First(FreeIds)]
           /\ Step(s, "waiting") /\ UNCHANGED status
  <2>1. task' \in [Slots -> Tasks \cup {None}] /\ Loop' /\ Exclusive' /\ Reserved' /\ Attended'
    BY <1>1, <1>2, <1>4, RowsStep, Known DEF Stages, Working, InHand
  <2>2. ids' \in [Items -> 0..Workers] /\ Distinct' /\ Backed' /\ Room'
    BY <1>1, <1>4, SlotTaken DEF TransferAt, At
  <2> QED
    BY <1>1, <1>4, <2>1, <2>2, Known, Assembled
<1>5. CASE Step(s, "failed") /\ UNCHANGED <<status, ids>>
  BY <1>1, <1>5, Known, GoesOn DEF rows
<1> QED
  BY <1>3, <1>4, <1>5 DEF TakeSlot

\* The attempt starts and is counted, or the item goes to review.
LEMMA ActivateStep == ASSUME Inv, NEW s \in Slots, Activate(s) PROVE Inv'
<1>1. /\ task[s] # None /\ task[s].at = "waiting"
      /\ WorkingAt(s) /\ MainIdle /\ due' = due /\ ids' = ids
      /\ stop' = stop /\ drain' = drain /\ paused' = paused /\ expired' = expired
  BY DEF Activate, At, WorkingAt, Working, flags
<1>2. task[s].attempts < MaxAttempts /\ task[s].kind = "transfer"
  BY <1>1, AtWork DEF Inv, Reserved
<1>3. CASE /\ Move(s, "active") /\ Step(s, "starting")
           /\ attempts' = [attempts EXCEPT ![Item(s)] = task[s].attempts + 1]
  <2>1. status' \in [Items -> Statuses] /\ status'[Item(s)] = "active"
        /\ \A i \in Items \ {Item(s)} : status'[i] = status[i]
    BY <1>1, <1>3, Written DEF Statuses, InHand
  <2>2. task[s].attempts + 1 \in 0..MaxAttempts
    BY <1>1, <1>2, Known, LimitsAssumption DEF Tasks
  <2>3. attempts' \in [Items -> 0..MaxAttempts]
        /\ \A i \in Items \ {Item(s)} : attempts'[i] = attempts[i]
    BY <1>1, <1>3, <2>2, Known
  <2>4. task' \in [Slots -> Tasks \cup {None}] /\ Loop' /\ Exclusive' /\ Reserved' /\ Attended'
    BY <1>1, <1>2, <1>3, <2>1, <2>3, RowsStep, Known DEF Stages, Working, InHand
  <2>5. Distinct' /\ Backed' /\ Room'
    BY <1>1, <1>3, SlotsKept DEF Stages, Working, Holding
  <2> QED
    BY <1>1, <1>3, <2>1, <2>3, <2>4, <2>5, Known, Assembled
<1>4. CASE Move(s, "review_required") /\ Step(s, "clearing") /\ UNCHANGED attempts
  BY <1>1, <1>4, Known, HandedOver DEF Statuses, Held, InHand
<1> QED
  BY <1>3, <1>4 DEF Activate

\* record_worker() finds the slot and the engine runs, or the task releases it and
\* raises.
LEMMA StartEngineStep == ASSUME Inv, NEW s \in Slots, StartEngine(s) PROVE Inv'
<1>1. /\ task[s] # None /\ task[s].at = "starting" /\ WorkingAt(s) /\ MainIdle
      /\ status' = status /\ attempts' = attempts /\ due' = due
      /\ stop' = stop /\ drain' = drain /\ paused' = paused /\ expired' = expired
  BY DEF StartEngine, At, WorkingAt, Working, flags, rows
<1>2. task[s].kind = "transfer" /\ status[Item(s)] \in InHand \cup {"excluded"}
  BY <1>1, AtWork
<1>3. CASE Step(s, "running") /\ UNCHANGED ids
  BY <1>1, <1>2, <1>3, Known, GoesOn DEF rows
<1>4. CASE Release(s) /\ Step(s, "failed")
  <2>1. task' \in [Slots -> Tasks \cup {None}] /\ Loop' /\ Exclusive' /\ Reserved' /\ Attended'
    BY <1>1, <1>2, <1>4, RowsStep, Known DEF Stages, Working
  <2>2. ids' \in [Items -> 0..Workers] /\ Distinct' /\ Backed' /\ Room'
    BY <1>1, <1>4, SlotReleased DEF Stages
  <2> QED
    BY <1>1, <2>1, <2>2, Known, Assembled
<1> QED
  BY <1>3, <1>4 DEF StartEngine

\* What transfer() makes of the end of an engine.
LEMMA EngineEndsStep == ASSUME Inv, NEW s \in Slots, EngineEnds(s) PROVE Inv'
<1>1. /\ task[s] # None /\ task[s].at = "running" /\ WorkingAt(s) /\ MainIdle
      /\ attempts' = attempts /\ ids' = ids
      /\ stop' = stop /\ drain' = drain /\ expired' = expired
  BY DEF EngineEnds, At, WorkingAt, Working
<1>2. task[s].kind = "transfer" /\ status[Item(s)] \in InHand \cup {"excluded"}
  BY <1>1, AtWork
<1>3. CASE Move(s, "promoting") /\ Step(s, "promoting") /\ UNCHANGED <<due, paused>>
  <2>1. status' \in [Items -> Statuses] /\ status'[Item(s)] = "promoting"
        /\ \A i \in Items \ {Item(s)} : status'[i] = status[i]
    BY <1>1, <1>3, Written DEF Statuses, InHand
  <2>2. task' \in [Slots -> Tasks \cup {None}] /\ Loop' /\ Exclusive' /\ Reserved' /\ Attended'
    BY <1>1, <1>2, <1>3, <2>1, RowsStep, Known DEF Stages, Working, InHand
  <2>3. Distinct' /\ Backed' /\ Room'
    BY <1>1, <1>3, SlotsKept DEF Stages, Working, Holding
  <2> QED
    BY <1>1, <1>3, <2>1, <2>2, <2>3, Known, Assembled
<1>4. CASE /\ \E new \in {"review_required", "access_denied"} : Move(s, new)
           /\ Step(s, "clearing") /\ UNCHANGED <<due, paused>>
  BY <1>1, <1>4, Known, HandedOver DEF Statuses, Held, InHand
<1>5. CASE /\ Move(s, "unavailable") /\ Step(s, "clearing")
           /\ due' = [due EXCEPT ![Item(s)] = FALSE] /\ UNCHANGED paused
  <2>1. due' \in [Items -> BOOLEAN] /\ \A i \in Items \ {Item(s)} : due'[i] = due[i]
    BY <1>1, <1>5, Known
  <2> QED
    BY <1>1, <1>5, <2>1, Known, HandedOver DEF Statuses, InHand
<1>6. CASE Step(s, "stopped") /\ UNCHANGED <<status, due, paused>>
  BY <1>1, <1>2, <1>6, Known, GoesOn DEF rows
<1>7. CASE paused' = TRUE /\ Step(s, "full") /\ UNCHANGED <<status, due>>
  BY <1>1, <1>2, <1>7, Known, GoesOn DEF rows
<1> QED
  BY <1>3, <1>4, <1>5, <1>6, <1>7 DEF EngineEnds

\* The poll loop of run_aria2() sees the stop request.
LEMMA EngineStoppedStep == ASSUME Inv, NEW s \in Slots, EngineStopped(s) PROVE Inv'
<1>1. /\ WorkingAt(s) /\ task[s].at = "running" /\ task[s] # None
      /\ stop' = TRUE /\ Step(s, "stopped") /\ MainIdle
      /\ drain' = drain /\ paused' = paused /\ expired' = expired /\ ids' = ids
      /\ UNCHANGED rows
  BY DEF EngineStopped, StopVisible, At, WorkingAt, Working
<1>2. task[s].kind = "transfer"
  BY <1>1, AtWork
<1> QED
  BY <1>1, <1>2, Known, GoesOn

\* A failed attempt waits for its retry.
LEMMA RetryLaterStep == ASSUME Inv, NEW s \in Slots, RetryLater(s) PROVE Inv'
<1>1. /\ WorkingAt(s) /\ task[s].at = "stopped" /\ task[s] # None /\ MainIdle
      /\ Move(s, "retry_wait") /\ Step(s, "clearing") /\ due' = [due EXCEPT ![Item(s)] = stop]
      /\ attempts' = attempts /\ ids' = ids
      /\ stop' = stop /\ drain' = drain /\ paused' = paused /\ expired' = expired
  BY DEF RetryLater, At, WorkingAt, Working, flags
<1>2. due' \in [Items -> BOOLEAN] /\ \A i \in Items \ {Item(s)} : due'[i] = due[i]
  BY <1>1, Known
<1> QED
  BY <1>1, <1>2, Known, HandedOver DEF Statuses, Retryable, InHand

\* A full disk returns the item with the attempt it had.
LEMMA RequeueFullStep == ASSUME Inv, NEW s \in Slots, RequeueFull(s) PROVE Inv'
<1>1. /\ WorkingAt(s) /\ task[s].at = "full" /\ task[s] # None /\ MainIdle
      /\ Move(s, "queued") /\ Step(s, "clearing") /\ due' = [due EXCEPT ![Item(s)] = TRUE]
      /\ attempts' = [attempts EXCEPT ![Item(s)] = task[s].attempts] /\ ids' = ids
      /\ stop' = stop /\ drain' = drain /\ paused' = paused /\ expired' = expired
  BY DEF RequeueFull, At, WorkingAt, Working, flags
<1>2. due' \in [Items -> BOOLEAN] /\ \A i \in Items \ {Item(s)} : due'[i] = due[i]
  BY <1>1, Known
<1>3. /\ attempts' \in [Items -> 0..MaxAttempts]
      /\ \A i \in Items \ {Item(s)} : attempts'[i] = attempts[i]
  BY <1>1, Known DEF Tasks
<1> QED
  BY <1>1, <1>2, <1>3, Known, HandedOver DEF Statuses, Retryable, InHand

\* A success gives its slot back before it commits; a failed promotion goes to review.
LEMMA PromoteStep == ASSUME Inv, NEW s \in Slots, Promote(s) PROVE Inv'
<1>1. /\ WorkingAt(s) /\ task[s].at = "promoting" /\ task[s] # None /\ MainIdle
      /\ attempts' = attempts /\ due' = due
      /\ stop' = stop /\ drain' = drain /\ paused' = paused /\ expired' = expired
  BY DEF Promote, At, WorkingAt, Working, flags
<1>2. task[s].kind = "transfer" /\ status[Item(s)] \in InHand \cup {"excluded"}
  BY <1>1, AtWork
<1>3. CASE Release(s) /\ Step(s, "completing") /\ UNCHANGED status
  <2>1. task' \in [Slots -> Tasks \cup {None}] /\ Loop' /\ Exclusive' /\ Reserved' /\ Attended'
    BY <1>1, <1>2, <1>3, RowsStep, Known DEF Stages, Working
  <2>2. ids' \in [Items -> 0..Workers] /\ Distinct' /\ Backed' /\ Room'
    BY <1>1, <1>3, SlotReleased DEF Stages, Working
  <2> QED
    BY <1>1, <1>3, <2>1, <2>2, Known, Assembled
<1>4. CASE Move(s, "review_required") /\ Step(s, "clearing") /\ UNCHANGED ids
  BY <1>1, <1>4, Known, HandedOver DEF Statuses, Held, InHand
<1> QED
  BY <1>3, <1>4 DEF Promote

\* The completion is committed by a task that holds no slot.
LEMMA CompleteStep == ASSUME Inv, NEW s \in Slots, Complete(s) PROVE Inv'
<1>1. /\ WorkingAt(s) /\ task[s].at = "completing" /\ task[s] # None /\ MainIdle
      /\ Move(s, "complete") /\ Step(s, "done") /\ attempts' = attempts /\ due' = due
      /\ ids' = ids
      /\ stop' = stop /\ drain' = drain /\ paused' = paused /\ expired' = expired
  BY DEF Complete, At, WorkingAt, Working, flags
<1> QED
  BY <1>1, Known, HandedOver DEF Statuses, InHand, Holding

\* clear_transfer_telemetry() gives the slot of a finished task back.
LEMMA ClearStep == ASSUME Inv, NEW s \in Slots, Clear(s) PROVE Inv'
<1>1. /\ task[s].at = "clearing" /\ task[s] # None /\ MainIdle
      /\ Release(s) /\ Step(s, "done")
      /\ UNCHANGED rows /\ status' = status /\ attempts' = attempts /\ due' = due
      /\ stop' = stop /\ drain' = drain /\ paused' = paused /\ expired' = expired
  BY DEF Clear, At, flags, rows
<1>2. ~WorkingAt(s)
  BY <1>1 DEF WorkingAt, Working
<1>3. task' \in [Slots -> Tasks \cup {None}] /\ Loop' /\ Exclusive' /\ Reserved' /\ Attended'
  BY <1>1, <1>2, RowsStep, Known DEF Stages, Working
<1>4. ids' \in [Items -> 0..Workers] /\ Distinct' /\ Backed' /\ Room'
  BY <1>1, SlotReleased DEF Stages
<1> QED
  BY <1>1, <1>3, <1>4, Known, Assembled

\* recheck_unavailable() leaves the row, requeues it or hands it to review.
LEMMA RecheckStep == ASSUME Inv, NEW s \in Slots, Recheck(s) PROVE Inv'
<1>1. /\ WorkingAt(s) /\ task[s].at = "submitted" /\ task[s].kind = "recheck"
      /\ task[s] # None /\ MainIdle /\ attempts' = attempts /\ ids' = ids
      /\ stop' = stop /\ drain' = drain /\ paused' = paused /\ expired' = expired
  BY DEF Recheck, At, WorkingAt, Working, flags
<1>2. status[Item(s)] \in {"unavailable", "excluded"}
  BY <1>1 DEF Inv, Reserved
<1>3. CASE Step(s, "done") /\ UNCHANGED <<status, due>>
  <2>1. Move(s, status[Item(s)])
    BY <1>3, <1>1, Known DEF Move
  <2> QED
    BY <1>1, <1>2, <1>3, <2>1, Known, HandedOver DEF Statuses, InHand, Holding
<1>4. CASE /\ Move(s, "queued") /\ Step(s, "done") /\ due' = [due EXCEPT ![Item(s)] = TRUE]
  <2>1. due' \in [Items -> BOOLEAN] /\ \A i \in Items \ {Item(s)} : due'[i] = due[i]
    BY <1>1, <1>4, Known
  <2> QED
    BY <1>1, <1>4, <2>1, Known, HandedOver DEF Statuses, Retryable, InHand, Holding
<1>5. CASE Move(s, "review_required") /\ Step(s, "clearing") /\ UNCHANGED due
  BY <1>1, <1>5, Known, HandedOver DEF Statuses, Held, InHand
<1> QED
  BY <1>3, <1>4, <1>5 DEF Recheck

\* A failed write asks for a stop and ends the task.
LEMMA LocalFailureStep == ASSUME Inv, NEW s \in Slots, LocalFailure(s) PROVE Inv'
<1>1. /\ WorkingAt(s) /\ task[s] # None /\ stop' = TRUE /\ Step(s, "failed") /\ MainIdle
      /\ drain' = drain /\ paused' = paused /\ expired' = expired /\ ids' = ids
      /\ UNCHANGED rows
  BY DEF LocalFailure, WorkingAt
<1> QED
  BY <1>1, Known, GoesOn

-----------------------------------------------------------------------------
(* One lemma per step of the main loop.                                    *)

\* The types a step of the main loop starts from.
LEMMA KnownToLoop ==
    ASSUME Inv
    PROVE  /\ status \in [Items -> Statuses] /\ attempts \in [Items -> 0..MaxAttempts]
           /\ due \in [Items -> BOOLEAN] /\ ids \in [Items -> 0..Workers]
           /\ task \in [Slots -> Tasks \cup {None}] /\ pick \in Items \cup {None}
           /\ stop \in BOOLEAN /\ drain \in BOOLEAN /\ paused \in BOOLEAN /\ expired \in BOOLEAN
           /\ broken \in BOOLEAN
           /\ main \notin {"closing", "ended"} => ~broken
           /\ main # "admit" => pick = None
  BY DEF Inv, TypeOK, Loop

\* A step of the loop that touches neither rows nor slots nor futures only has to
\* keep what the loop says of itself.
LEMMA LoopOnly ==
    ASSUME Inv, UNCHANGED <<rows, ids, task>>, broken' = broken \/ broken' = TRUE,
           main' \in Places, pick' \in Items \cup {None}, stop' \in BOOLEAN,
           UNCHANGED <<drain, paused, expired>>, Loop'
    PROVE  Inv'
<1>1. /\ status' = status /\ attempts' = attempts /\ due' = due /\ ids' = ids /\ task' = task
      /\ drain' = drain /\ paused' = paused /\ expired' = expired
  BY DEF rows
<1>2. broken' \in BOOLEAN
  BY DEF Inv, TypeOK
<1>3. TypeOK'
  BY <1>1, <1>2, KnownToLoop DEF TypeOK
<1>4. Exclusive' /\ Reserved'
  BY <1>1 DEF Inv, Exclusive, Reserved, WorkingAt, Item
<1>5. Attended'
  BY <1>1 DEF Inv, Attended, InHandOf, Item
<1>6. Distinct' /\ Backed'
  BY <1>1 DEF Inv, Distinct, Backed, Holders, Item
<1>7. Room'
  <2>1. Holders' = Holders /\ Takers' = Takers
    BY <1>1 DEF Holders, Takers, TransferAt, At
  <2> QED
    BY <2>1 DEF Inv, Room
<1> QED
  BY <1>3, <1>4, <1>5, <1>6, <1>7 DEF Inv

\* The admission loop opens only while a thread is free.
LEMMA GateStep == ASSUME Inv, Gate PROVE Inv'
<1>1. /\ main = "gate" /\ pick' = pick /\ broken' = broken /\ task' = task
      /\ UNCHANGED <<rows, ids, task>> /\ UNCHANGED <<drain, paused, expired>>
      /\ ~broken /\ pick = None
  BY KnownToLoop DEF Gate, MainAt
<1>2. /\ main' \in {"collect", "pick"}
      /\ main' = "pick" => Cardinality(Futures) < Workers
  BY DEF Gate, MainAt, AdmissionOpen
<1>3. Cardinality(Futures) < Workers => Futures # Slots
  BY FS_Interval, LimitsAssumption DEF Slots
<1>4. stop' \in BOOLEAN
  BY KnownToLoop DEF Gate
<1>5. Futures' = Futures
  BY <1>1 DEF Futures
<1>6. Loop'
  BY <1>1, <1>2, <1>3, <1>5 DEF Loop
<1> QED
  BY <1>1, <1>2, <1>4, <1>6, KnownToLoop, LoopOnly DEF Places

\* next_pending() selects a row that may be attempted and that no task works on.
LEMMA NextPendingStep == ASSUME Inv, NextPending PROVE Inv'
<1>1. /\ main = "pick" /\ broken' = broken /\ task' = task
      /\ UNCHANGED <<rows, ids, task>> /\ UNCHANGED <<drain, paused, expired>>
      /\ stop' = stop /\ attempts' = attempts
      /\ ~broken /\ pick = None /\ Futures # Slots
  BY KnownToLoop DEF NextPending, MainAt, flags, Inv, Loop, rows
<1>2. Futures' = Futures
  BY <1>1 DEF Futures
<1>3. CASE main' = "recheck" /\ UNCHANGED pick
  <2>1. Loop'
    BY <1>1, <1>2, <1>3 DEF Loop
  <2> QED
    BY <1>1, <1>3, <2>1, KnownToLoop, LoopOnly DEF Places
<1>4. CASE main' = "admit" /\ Pending # {} /\ pick' = First(Pending)
  <2>1. pick' \in Pending
    BY <1>4, FirstIn, ItemsAssumption DEF Pending
  <2>2. pick' \in Items /\ attempts[pick'] < MaxAttempts /\ status[pick'] \in Retryable
    BY <2>1 DEF Pending, Admissible
  <2>3. \A s \in Slots : WorkingAt(s) => Item(s) # pick'
    BY <2>2 DEF Inv, Reserved, Retryable, InHand
  <2>4. \A s \in Slots : WorkingAt(s)' => WorkingAt(s) /\ Item(s)' = Item(s)
    BY <1>1 DEF WorkingAt, Item
  <2>5. pick' # None
    BY <2>2, ItemsAssumption
  <2>6. Loop'
    BY <1>1, <1>2, <1>4, <2>2, <2>3, <2>4, <2>5 DEF Loop
  <2> QED
    BY <1>1, <1>4, <2>2, <2>6, KnownToLoop, LoopOnly DEF Places
<1> QED
  BY <1>3, <1>4 DEF NextPending, MainAt

\* submit() finds a free thread, and only that one changes.
LEMMA Submitted ==
    ASSUME Inv, NEW i \in Items, NEW kind \in {"transfer", "recheck"},
           Futures # Slots, Submit(i, kind)
    PROVE  \E s \in Slots :
               /\ task[s] = None /\ task' \in [Slots -> Tasks \cup {None}] /\ task'[s] # None
               /\ task'[s].item = i /\ task'[s].kind = kind /\ task'[s].at = "submitted"
               /\ task'[s].attempts = attempts[i]
               /\ \A t \in Slots \ {s} : task'[t] = task[t]
<1> DEFINE s == First(Slots \ Futures)
<1>1. s \in Slots \ Futures
  BY FirstIn DEF Slots, Futures
<1> DEFINE new == [item |-> i, kind |-> kind, at |-> "submitted", attempts |-> attempts[i]]
<1>2. /\ new \in Tasks /\ new.item = i /\ new.kind = kind /\ new.at = "submitted"
      /\ new.attempts = attempts[i]
  BY KnownToLoop DEF Tasks, Stages, Working
<1>3. new # None
  BY <1>2, NoneAssumption
<1>4. task' = [task EXCEPT ![s] = new]
  BY DEF Submit
<1>5. s \in Slots /\ task[s] = None
  BY <1>1 DEF Futures
<1> HIDE DEF new, s
<1>6. /\ task' \in [Slots -> Tasks \cup {None}] /\ task'[s] = new
      /\ \A t \in Slots \ {s} : task'[t] = task[t]
  BY <1>2, <1>4, <1>5, KnownToLoop
<1> QED
  BY <1>2, <1>3, <1>5, <1>6

\* claim_recheck() spends the daily recheck before it submits the task, so that no
\* other recheck of the item is claimed while it runs.
LEMMA ClaimRecheckStep == ASSUME Inv, ClaimRecheck PROVE Inv'
<1>1. /\ main = "recheck" /\ ~broken /\ broken' = broken /\ pick = None /\ pick' = pick
      /\ Futures # Slots /\ status' = status /\ attempts' = attempts /\ ids' = ids
      /\ stop' = stop /\ drain' = drain /\ paused' = paused /\ expired' = expired
  BY KnownToLoop DEF ClaimRecheck, MainAt, flags, Inv, Loop
<1>2. CASE main' = "collect" /\ UNCHANGED <<due, task>>
  <2>1. Loop'
    BY <1>1, <1>2 DEF Loop
  <2> QED
    BY <1>1, <1>2, <2>1, KnownToLoop, LoopOnly DEF Places, rows
<1>3. CASE /\ main' = "gate" /\ Recheckable # {}
           /\ due' = [due EXCEPT ![First(Recheckable)] = FALSE]
           /\ Submit(First(Recheckable), "recheck")
  <2>1. First(Recheckable) \in Recheckable
    BY <1>3, FirstIn, ItemsAssumption DEF Recheckable
  <2> DEFINE i == First(Recheckable)
  <2>2. i \in Items /\ status[i] = "unavailable" /\ due[i]
    BY <2>1 DEF Recheckable
  <2>3. due' = [due EXCEPT ![i] = FALSE] /\ Submit(i, "recheck")
    BY <1>3
  <2> HIDE DEF i
  <2>4. PICK s \in Slots :
            /\ task[s] = None /\ task' \in [Slots -> Tasks \cup {None}] /\ task'[s] # None
            /\ task'[s].item = i /\ task'[s].kind = "recheck" /\ task'[s].at = "submitted"
            /\ \A t \in Slots \ {s} : task'[t] = task[t]
    BY <1>1, <2>2, <2>3, Submitted
  <2>5. /\ due' \in [Items -> BOOLEAN] /\ ~due'[i]
        /\ \A j \in Items \ {i} : due'[j] = due[j]
    BY <2>2, <2>3, KnownToLoop
  <2>6. \A t \in Slots : WorkingAt(t) =>
            /\ t # s /\ Item(t) # i /\ Item(t) \in Items
            /\ WorkingAt(t)' /\ Item(t)' = Item(t) /\ task'[t] = task[t]
    <3>1. SUFFICES ASSUME NEW t \in Slots, WorkingAt(t)
                   PROVE  t # s /\ Item(t) # i /\ Item(t) \in Items
      BY <2>4 DEF WorkingAt, Item
    <3> QED
      BY <2>2, <2>4, <3>1, Known DEF Inv, Reserved, WorkingAt, InHand
  <2>7. \A t \in Slots : WorkingAt(t)' => t = s \/ WorkingAt(t)
    BY <2>4 DEF WorkingAt
  <2>8. TypeOK'
    <3>1. /\ attempts' \in [Items -> 0..MaxAttempts] /\ ids' \in [Items -> 0..Workers]
         /\ status' \in [Items -> Statuses] /\ due' \in [Items -> BOOLEAN]
      BY <1>1, <1>3, <2>5, KnownToLoop
    <3>2. /\ stop' \in BOOLEAN /\ drain' \in BOOLEAN /\ paused' \in BOOLEAN
         /\ expired' \in BOOLEAN /\ broken' \in BOOLEAN
      <4>1. /\ stop' = stop /\ drain' = drain /\ paused' = paused
           /\ expired' = expired /\ broken' = broken
        BY <1>1
      <4> QED
        BY <4>1, KnownToLoop
    <3>3. main' \in Places /\ pick' \in Items \cup {None}
      BY <1>1, <1>3, <2>5, KnownToLoop DEF Places
    <3> QED
      BY <3>1, <3>2, <3>3, <2>4 DEF TypeOK
  <2>9. Loop'
    BY <1>1, <1>3 DEF Loop
  <2>10. Exclusive'
    <3>1. Item(s)' = i
      BY <2>4 DEF Item
    <3> QED
      BY <2>6, <2>7, <3>1 DEF Inv, Exclusive
  <2>11. Reserved'
    <3> SUFFICES ASSUME NEW t \in Slots, WorkingAt(t)'
                 PROVE  (IF task[t].kind = "transfer"
                         THEN /\ status[Item(t)] \in InHand \cup {"excluded"}
                              /\ task[t].at \in {"submitted", "waiting"} => task[t].attempts < MaxAttempts
                         ELSE /\ task[t].at = "submitted"
                              /\ \/ status[Item(t)] = "unavailable" /\ ~due[Item(t)]
                                 \/ status[Item(t)] = "excluded")'
      BY DEF Reserved
    <3>1. CASE t = s
      BY <1>1, <2>2, <2>4, <2>5, <3>1 DEF Item
    <3>2. CASE t # s
      <4>1. /\ WorkingAt(t) /\ Item(t)' = Item(t) /\ task'[t] = task[t]
            /\ due'[Item(t)] = due[Item(t)]
        BY <2>5, <2>6, <2>7, <3>2
      <4> QED
        BY <1>1, <4>1 DEF Inv, Reserved
    <3> QED
      BY <3>1, <3>2
  <2>12. Attended'
    <3> SUFFICES ASSUME NEW j \in Items, status'[j] \in InHand PROVE InHandOf(j)'
      BY DEF Attended
    <3>1. PICK t \in Slots : task[t] # None /\ Item(t) = j /\ task[t].at \in Working \cup {"failed"}
      BY <1>1 DEF Inv, Attended, InHandOf
    <3> QED
      BY <2>4, <3>1 DEF InHandOf, Item
  <2>13. Distinct'
    BY <1>1 DEF Inv, Distinct
  <2>14. Holders' = Holders /\ Takers' \subseteq Takers
    BY <1>1, <2>4 DEF Holders, Takers, TransferAt, At
  <2>15. Backed'
    <3> SUFFICES ASSUME NEW j \in Holders
                 PROVE  \E t \in Slots : task'[t] # None /\ task'[t].item = j /\ task'[t].at \in Holding
      BY <2>14 DEF Backed, Item
    <3>1. PICK t \in Slots : task[t] # None /\ Item(t) = j /\ task[t].at \in Holding
      BY <1>1 DEF Inv, Backed
    <3> QED
      BY <2>4, <3>1 DEF Item
  <2>16. Room'
    <3>1. PICK f \in [Holders -> Slots \ Takers] :
              \A j, k \in Holders : f[j] = f[k] => j = k
      BY DEF Inv, Room
    <3>2. f \in [Holders' -> Slots \ Takers']
      BY <2>14
    <3> QED
      BY <2>14, <3>1, <3>2 DEF Room
  <2> QED
    BY <2>8, <2>9, <2>10, <2>11, <2>12, <2>13, <2>15, <2>16 DEF Inv
<1> QED
  BY <1>2, <1>3 DEF ClaimRecheck, MainAt

\* The row that was selected is admitted: nobody works on it, and every slot that is
\* held is backed by a thread other than the one that was free.
LEMMA AdmitStep == ASSUME Inv, Admit PROVE Inv'
<1>1. /\ main = "admit" /\ main' = "gate" /\ ~broken /\ broken' = broken
      /\ pick' = None /\ pick \in Items /\ pick # None
      /\ attempts[pick] < MaxAttempts /\ \A s \in Slots : WorkingAt(s) => Item(s) # pick
      /\ Futures # Slots /\ attempts' = attempts /\ due' = due /\ ids' = ids
      /\ stop' = stop /\ drain' = drain /\ paused' = paused /\ expired' = expired
      /\ status' = [status EXCEPT ![pick] = "admitted"] /\ Submit(pick, "transfer")
  BY KnownToLoop DEF Admit, MainAt, flags, Inv, Loop
<1>2. PICK s \in Slots :
          /\ task[s] = None /\ task' \in [Slots -> Tasks \cup {None}] /\ task'[s] # None
          /\ task'[s].item = pick /\ task'[s].kind = "transfer" /\ task'[s].at = "submitted"
          /\ task'[s].attempts = attempts[pick]
          /\ \A t \in Slots \ {s} : task'[t] = task[t]
  BY <1>1, Submitted
<1>3. /\ status' \in [Items -> Statuses] /\ status'[pick] = "admitted"
      /\ \A j \in Items \ {pick} : status'[j] = status[j]
  BY <1>1, KnownToLoop DEF Statuses, InHand
<1>4. \A t \in Slots : WorkingAt(t) =>
          /\ t # s /\ Item(t) # pick /\ Item(t) \in Items
          /\ Item(t)' = Item(t) /\ task'[t] = task[t]
  <2> SUFFICES ASSUME NEW t \in Slots, WorkingAt(t)
               PROVE  t # s /\ Item(t) # pick /\ Item(t) \in Items
    BY <1>2 DEF WorkingAt, Item
  <2> QED
    BY <1>1, <1>2, Known DEF WorkingAt
<1>5. \A t \in Slots : WorkingAt(t)' => t = s \/ WorkingAt(t)
  BY <1>2 DEF WorkingAt
<1>6. TypeOK'
  <2>1. /\ attempts' \in [Items -> 0..MaxAttempts] /\ ids' \in [Items -> 0..Workers]
       /\ status' \in [Items -> Statuses] /\ due' \in [Items -> BOOLEAN]
    BY <1>1, <1>3, KnownToLoop
  <2>2. /\ stop' \in BOOLEAN /\ drain' \in BOOLEAN /\ paused' \in BOOLEAN
       /\ expired' \in BOOLEAN /\ broken' \in BOOLEAN
    <3>1. /\ stop' = stop /\ drain' = drain /\ paused' = paused
         /\ expired' = expired /\ broken' = broken
      BY <1>1
    <3> QED
      BY <3>1, KnownToLoop
  <2>3. main' \in Places /\ pick' \in Items \cup {None}
    BY <1>1, <1>3, KnownToLoop DEF Places
  <2> QED
    BY <2>1, <2>2, <2>3, <1>2 DEF TypeOK
<1>7. Loop'
  BY <1>1 DEF Loop
<1>8. Exclusive'
  <2>1. Item(s)' = pick
    BY <1>2 DEF Item
  <2> QED
    BY <1>4, <1>5, <2>1 DEF Inv, Exclusive
<1>9. Reserved'
  <2> SUFFICES ASSUME NEW t \in Slots, WorkingAt(t)'
               PROVE  (IF task[t].kind = "transfer"
                       THEN /\ status[Item(t)] \in InHand \cup {"excluded"}
                            /\ task[t].at \in {"submitted", "waiting"} => task[t].attempts < MaxAttempts
                       ELSE /\ task[t].at = "submitted"
                            /\ \/ status[Item(t)] = "unavailable" /\ ~due[Item(t)]
                               \/ status[Item(t)] = "excluded")'
    BY DEF Reserved
  <2>1. CASE t = s
    BY <1>1, <1>2, <1>3, <2>1 DEF Item, InHand
  <2>2. CASE t # s
    <3>1. /\ WorkingAt(t) /\ Item(t)' = Item(t) /\ task'[t] = task[t]
          /\ status'[Item(t)] = status[Item(t)]
      BY <1>3, <1>4, <1>5, <2>2
    <3> QED
      BY <1>1, <3>1 DEF Inv, Reserved
  <2> QED
    BY <2>1, <2>2
<1>10. Attended'
  <2> SUFFICES ASSUME NEW j \in Items, status'[j] \in InHand PROVE InHandOf(j)'
    BY DEF Attended
  <2>1. CASE j = pick
    BY <1>2, <2>1 DEF InHandOf, Item, Working
  <2>2. CASE j # pick
    <3>1. PICK t \in Slots : task[t] # None /\ Item(t) = j /\ task[t].at \in Working \cup {"failed"}
      BY <1>1, <1>3, <2>2 DEF Inv, Attended, InHandOf
    <3> QED
      BY <1>2, <3>1 DEF InHandOf, Item
  <2> QED
    BY <2>1, <2>2
<1>11. Distinct'
  BY <1>1 DEF Inv, Distinct
<1>12. Holders' = Holders /\ Takers' = Takers \cup {s}
  BY <1>1, <1>2 DEF Holders, Takers, TransferAt, At
<1>13. \A j \in Holders : \E t \in Slots :
           /\ task[t] # None /\ Item(t) = j /\ task[t].at \in Holding /\ t # s
           /\ task'[t] = task[t]
  BY <1>1, <1>2 DEF Inv, Backed
<1>14. Backed'
  BY <1>12, <1>13 DEF Backed, Item
<1>15. Room'
  <2> DEFINE f == [j \in Holders |-> CHOOSE t \in Slots :
                      task[t] # None /\ Item(t) = j /\ task[t].at \in Holding]
  <2>1. \A j \in Holders : /\ f[j] \in Slots /\ task[f[j]] # None
                           /\ Item(f[j]) = j /\ task[f[j]].at \in Holding
    BY <1>13
  <2>2. \A j \in Holders : f[j] \notin Takers /\ f[j] # s
    BY <1>2, <2>1 DEF Takers, TransferAt, At, Holding
  <2>3. f \in [Holders' -> Slots \ Takers']
    BY <1>12, <2>1, <2>2
  <2>4. \A j, k \in Holders' : f[j] = f[k] => j = k
    BY <1>12, <2>1
  <2> HIDE DEF f
  <2> QED
    BY <2>3, <2>4 DEF Room
<1> QED
  BY <1>6, <1>7, <1>8, <1>9, <1>10, <1>11, <1>14, <1>15 DEF Inv

\* The commit of the admission fails: nothing is submitted, and the loop is left.
LEMMA AdmitFailsStep == ASSUME Inv, AdmitFails PROVE Inv'
<1>1. /\ main' = "closing" /\ broken' = TRUE /\ pick' = None /\ stop' = TRUE
      /\ UNCHANGED <<rows, ids, task>> /\ UNCHANGED <<drain, paused, expired>>
  BY DEF AdmitFails, MainAt
<1>2. Loop'
  BY <1>1 DEF Loop
<1> QED
  BY <1>1, <1>2, LoopOnly DEF Places

\* Collecting a future that is done takes nothing from the items in hand, unless the
\* task failed: then the loop is left.
LEMMA CollectStep == ASSUME Inv, Collect PROVE Inv'
<1>1. /\ main = "collect" /\ ~broken /\ pick = None /\ pick' = pick
      /\ status' = status /\ attempts' = attempts /\ due' = due /\ ids' = ids
      /\ stop' = stop /\ drain' = drain /\ paused' = paused /\ expired' = expired
      /\ task' = [s \in Slots |-> IF Over(s) THEN None ELSE task[s]]
      /\ broken' = \E s \in Slots : Over(s) /\ task[s].at = "failed"
      /\ main' = IF broken' THEN "closing" ELSE "gate"
  BY KnownToLoop DEF Collect, rows, flags
<1>2. broken' \in BOOLEAN
  BY <1>1
<1>3. ~broken' => \A s \in Slots : Over(s) => task[s].at = "done"
  BY <1>1 DEF Over
<1>4. \A s \in Slots : /\ Over(s) => task'[s] = None
                       /\ ~Over(s) => task'[s] = task[s]
  BY <1>1
<1>5. TypeOK'
  <2>1. task' \in [Slots -> Tasks \cup {None}]
    BY <1>1, KnownToLoop
  <2>2. main' \in Places
    BY <1>1, <1>2 DEF Places
  <2> QED
    BY <1>1, <1>2, <2>1, <2>2, KnownToLoop DEF TypeOK
<1>6. Loop'
  BY <1>1, <1>2 DEF Loop
<1>7. \A s \in Slots : WorkingAt(s)' => WorkingAt(s) /\ task'[s] = task[s] /\ Item(s)' = Item(s)
  BY <1>4 DEF WorkingAt, Item
<1>8. Exclusive'
  BY <1>7 DEF Inv, Exclusive
<1>9. Reserved'
  BY <1>1, <1>7 DEF Inv, Reserved
<1>10. Attended'
  <2> SUFFICES ASSUME NEW i \in Items, status'[i] \in InHand, ~broken'
               PROVE  InHandOf(i)'
    BY DEF Attended
  <2>1. PICK s \in Slots : task[s] # None /\ Item(s) = i /\ task[s].at \in Working \cup {"failed"}
    BY <1>1 DEF Inv, Attended, InHandOf
  <2>2. ~Over(s)
    BY <1>3, <2>1 DEF Working
  <2> QED
    BY <1>4, <2>1, <2>2 DEF InHandOf, Item
<1>11. Distinct'
  BY <1>1 DEF Inv, Distinct
<1>12. Holders' = Holders /\ Takers' \subseteq Takers
  BY <1>1, <1>4 DEF Holders, Takers, TransferAt, At
<1>13. Backed'
  <2> SUFFICES ASSUME NEW i \in Holders, ~broken'
               PROVE  \E s \in Slots : task'[s] # None /\ task'[s].item = i /\ task'[s].at \in Holding
    BY <1>12 DEF Backed, Item
  <2>1. PICK s \in Slots : task[s] # None /\ Item(s) = i /\ task[s].at \in Holding
    BY <1>1 DEF Inv, Backed
  <2>2. ~Over(s)
    BY <1>3, <2>1 DEF Holding
  <2> QED
    BY <1>4, <2>1, <2>2 DEF Item
<1>14. Room'
  <2>1. PICK f \in [Holders -> Slots \ Takers] :
            \A i, j \in Holders : f[i] = f[j] => i = j
    BY DEF Inv, Room
  <2>2. f \in [Holders' -> Slots \ Takers']
    BY <1>12
  <2> QED
    BY <1>12, <2>1, <2>2 DEF Room
<1> QED
  BY <1>5, <1>6, <1>8, <1>9, <1>10, <1>11, <1>13, <1>14 DEF Inv

\* The other steps of the loop: a wait that returned nothing, an empty pool, the
\* decision to end, to stop or to sleep, the end of a sleep, and the close.
LEMMA LoopGoesOn ==
    ASSUME Inv, CollectTimeout \/ NothingRuns \/ RetryWait \/ WakeUp \/ Close
    PROVE  Inv'
<1>1. CASE CollectTimeout
  <2>1. /\ main = "collect" /\ main' = "gate" /\ pick = None /\ pick' = pick
        /\ stop' = (stop \/ expired) /\ broken' = broken /\ ~broken
        /\ UNCHANGED <<rows, ids, task>> /\ UNCHANGED <<drain, paused, expired>>
    BY <1>1, KnownToLoop DEF CollectTimeout, MainAt
  <2>2. Loop'
    BY <2>1 DEF Loop
  <2>3. stop' \in BOOLEAN
    BY <2>1
  <2> QED
    BY <2>1, <2>2, <2>3, LoopOnly DEF Places
<1>2. CASE NothingRuns
  <2>1. /\ main = "collect" /\ main' \in {"closing", "decide"} /\ pick = None /\ pick' = pick
        /\ stop' = stop /\ broken' = broken /\ ~broken /\ Futures = {} /\ task' = task
        /\ UNCHANGED <<rows, ids, task>> /\ UNCHANGED <<drain, paused, expired>>
    BY <1>2, KnownToLoop DEF NothingRuns, MainAt, flags
  <2>2. Loop'
    BY <2>1 DEF Loop, Futures
  <2> QED
    BY <2>1, <2>2, KnownToLoop, LoopOnly DEF Places
<1>3. CASE RetryWait
  <2>1. /\ main = "decide" /\ main' \in {"closing", "gate", "sleep"}
        /\ pick = None /\ pick' = pick /\ broken' = broken /\ ~broken /\ task' = task
        /\ UNCHANGED <<rows, ids, task>> /\ UNCHANGED <<drain, paused, expired>>
    BY <1>3, KnownToLoop DEF RetryWait, MainAt
  <2>2. stop' \in BOOLEAN
    BY <1>3, KnownToLoop DEF RetryWait
  <2>3. Futures = {}
    BY <2>1 DEF Inv, Loop
  <2>4. Loop'
    BY <2>1, <2>3 DEF Loop, Futures
  <2> QED
    BY <2>1, <2>2, <2>4, KnownToLoop, LoopOnly DEF Places
<1>4. CASE WakeUp
  <2>1. /\ main = "sleep" /\ main' = "gate" /\ pick = None /\ pick' = pick
        /\ stop' = stop /\ broken' = broken /\ ~broken
        /\ UNCHANGED <<rows, ids, task>> /\ UNCHANGED <<drain, paused, expired>>
    BY <1>4, KnownToLoop DEF WakeUp, MainAt, flags
  <2>2. Loop'
    BY <2>1 DEF Loop
  <2> QED
    BY <2>1, <2>2, KnownToLoop, LoopOnly DEF Places
<1>5. CASE Close
  <2>1. /\ main = "closing" /\ main' = "ended" /\ pick = None /\ pick' = pick
        /\ stop' = stop /\ broken' = broken /\ task' = task
        /\ UNCHANGED <<rows, ids, task>> /\ UNCHANGED <<drain, paused, expired>>
    BY <1>5, KnownToLoop DEF Close, MainAt, flags
  <2>2. ~broken => Futures = {}
    BY <2>1 DEF Inv, Loop
  <2>3. Loop'
    BY <2>1, <2>2 DEF Loop, Futures
  <2> QED
    BY <2>1, <2>3, KnownToLoop, LoopOnly DEF Places
<1> QED
  BY <1>1, <1>2, <1>3, <1>4, <1>5

-----------------------------------------------------------------------------
(* Steps from outside.                                                     *)

\* What an operator, a signal or the clock writes into a row keeps the invariant, if
\* it puts no row in hand, and takes from a working task nothing but its item's
\* status, for an exclusion.
LEMMA OutsideStep ==
    ASSUME Inv, Unmoved, attempts' = attempts,
           status' \in [Items -> Statuses], due' \in [Items -> BOOLEAN],
           stop' \in BOOLEAN, drain' \in BOOLEAN, paused' \in BOOLEAN, expired' \in BOOLEAN,
           \A i \in Items : status'[i] \in InHand => status'[i] = status[i],
           \A s \in Slots : WorkingAt(s) =>
               /\ status'[Item(s)] \in {status[Item(s)], "excluded"}
               /\ task[s].kind = "transfer" \/ due'[Item(s)] = due[Item(s)]
    PROVE  Inv'
<1>1. ids' = ids /\ task' = task /\ main' = main /\ pick' = pick /\ broken' = broken
  BY DEF Unmoved
<1>2. TypeOK'
  <2>1. main' \in Places /\ broken' \in BOOLEAN
    BY <1>1 DEF Inv, TypeOK
  <2> QED
    BY <1>1, <2>1, KnownToLoop DEF TypeOK
<1>3. Loop' /\ Exclusive'
  BY <1>1 DEF Inv, Loop, Exclusive, WorkingAt, Item, Futures
<1>4. Reserved'
  <2> SUFFICES ASSUME NEW s \in Slots, WorkingAt(s)
               PROVE  IF task[s].kind = "transfer"
                      THEN /\ status'[Item(s)] \in InHand \cup {"excluded"}
                           /\ task[s].at \in {"submitted", "waiting"} => task[s].attempts < MaxAttempts
                      ELSE /\ task[s].at = "submitted"
                           /\ \/ status'[Item(s)] = "unavailable" /\ ~due'[Item(s)]
                              \/ status'[Item(s)] = "excluded"
    BY <1>1 DEF Reserved, WorkingAt, Item
  <2> QED
    BY DEF Inv, Reserved
<1>5. Attended'
  BY <1>1 DEF Inv, Attended, InHandOf, Item
<1>6. Distinct' /\ Backed'
  BY <1>1 DEF Inv, Distinct, Backed, Holders, Item
<1>7. Room'
  <2>1. Holders' = Holders /\ Takers' = Takers
    BY <1>1 DEF Holders, Takers, TransferAt, At
  <2> QED
    BY <2>1 DEF Inv, Room
<1> QED
  BY <1>2, <1>3, <1>4, <1>5, <1>6, <1>7 DEF Inv

\* Commands that only set flags, and retry_now, which makes waiting rows due.
LEMMA OperatorStep == ASSUME Inv, Operator PROVE Inv'
<1>1. CASE RequestStop \/ PauseAdmission \/ ResumeAdmission \/ DrainAndStop
  <2>1. /\ Unmoved /\ status' = status /\ attempts' = attempts /\ due' = due
        /\ expired' = expired
    BY <1>1 DEF RequestStop, PauseAdmission, ResumeAdmission, DrainAndStop, rows
  <2>2. stop' \in BOOLEAN /\ drain' \in BOOLEAN /\ paused' \in BOOLEAN
    BY <1>1, KnownToLoop DEF RequestStop, PauseAdmission, ResumeAdmission, DrainAndStop
  <2> QED
    BY <2>1, <2>2, KnownToLoop, OutsideStep
<1>2. CASE RetryNow
  <2>1. /\ Unmoved /\ status' = status /\ attempts' = attempts
        /\ stop' = stop /\ drain' = drain /\ paused' = paused /\ expired' = expired
        /\ due' = [i \in Items |-> due[i] \/ status[i] \in Retryable]
    BY <1>2 DEF RetryNow, flags
  <2>2. due' \in [Items -> BOOLEAN]
    BY <2>1
  <2>3. \A s \in Slots : WorkingAt(s) =>
            Item(s) \in Items /\ status[Item(s)] \notin Retryable
    BY Known DEF Inv, Reserved, WorkingAt, Retryable, InHand
  <2>4. \A s \in Slots : WorkingAt(s) => due'[Item(s)] = due[Item(s)]
    BY <2>1, <2>3, KnownToLoop
  <2> QED
    BY <2>1, <2>2, <2>4, KnownToLoop, OutsideStep
<1>3. ASSUME NEW i \in Items, Requeue(i) \/ ExcludeItem(i) \/ SetRetryCooldown(i)
      PROVE  Inv'
  <2>1. /\ Unmoved /\ attempts' = attempts
        /\ stop' = stop /\ drain' = drain /\ paused' = paused /\ expired' = expired
    BY <1>3 DEF Requeue, ExcludeItem, SetRetryCooldown, flags
  <2>2. CASE Requeue(i)
    <3>1. /\ status[i] \in Held /\ status' = [status EXCEPT ![i] = "queued"]
          /\ due' = [due EXCEPT ![i] = TRUE]
      BY <2>2 DEF Requeue
    <3>2. /\ status' \in [Items -> Statuses] /\ due' \in [Items -> BOOLEAN]
          /\ status'[i] = "queued"
          /\ \A j \in Items \ {i} : status'[j] = status[j] /\ due'[j] = due[j]
      BY <3>1, KnownToLoop DEF Statuses, Retryable
    <3>3. \A s \in Slots : WorkingAt(s) => Item(s) \in Items \ {i}
      BY <3>1, Known DEF Inv, Reserved, WorkingAt, Held, InHand
    <3>4. \A j \in Items : status'[j] \in InHand => status'[j] = status[j]
      BY <3>2 DEF InHand
    <3> QED
      BY <2>1, <3>2, <3>3, <3>4, KnownToLoop, OutsideStep
  <2>3. CASE ExcludeItem(i)
    <3>1. status' = [status EXCEPT ![i] = "excluded"] /\ due' = due
      BY <2>3 DEF ExcludeItem
    <3>2. /\ status' \in [Items -> Statuses] /\ status'[i] = "excluded"
          /\ \A j \in Items \ {i} : status'[j] = status[j]
      BY <3>1, KnownToLoop DEF Statuses
    <3>3. \A s \in Slots : WorkingAt(s) => Item(s) \in Items
      BY Known DEF WorkingAt
    <3>4. \A j \in Items : status'[j] \in InHand => status'[j] = status[j]
      BY <3>2 DEF InHand
    <3> QED
      BY <2>1, <3>1, <3>2, <3>3, <3>4, KnownToLoop, OutsideStep
  <2>4. CASE SetRetryCooldown(i)
    <3>1. status[i] = "retry_wait" /\ status' = status /\ due' = [due EXCEPT ![i] = FALSE]
      BY <2>4 DEF SetRetryCooldown
    <3>2. due' \in [Items -> BOOLEAN] /\ \A j \in Items \ {i} : due'[j] = due[j]
      BY <3>1, KnownToLoop
    <3>3. \A s \in Slots : WorkingAt(s) => Item(s) \in Items \ {i}
      BY <3>1, Known DEF Inv, Reserved, WorkingAt, InHand
    <3> QED
      BY <2>1, <3>1, <3>2, <3>3, KnownToLoop, OutsideStep
  <2> QED
    BY <1>3, <2>2, <2>3, <2>4
<1> QED
  BY <1>1, <1>2, <1>3 DEF Operator

\* Time makes a row due, but no recheck again while one of the item is in the pool.
LEMMA ClockStep == ASSUME Inv, Clock PROVE Inv'
<1>1. CASE DeadlinePasses
  <2>1. /\ Unmoved /\ status' = status /\ attempts' = attempts /\ due' = due
        /\ expired' = TRUE /\ stop' = stop /\ drain' = drain /\ paused' = paused
    BY <1>1 DEF DeadlinePasses, rows
  <2> QED
    BY <2>1, KnownToLoop, OutsideStep
<1>2. ASSUME NEW i \in Items, BecomesDue(i) PROVE Inv'
  <2>1. /\ Unmoved /\ status' = status /\ attempts' = attempts
        /\ stop' = stop /\ drain' = drain /\ paused' = paused /\ expired' = expired
        /\ due' = [due EXCEPT ![i] = TRUE]
        /\ \/ status[i] \in Retryable
           \/ status[i] = "unavailable" /\ ~Rechecking(i)
    BY <1>2 DEF BecomesDue, flags
  <2>2. due' \in [Items -> BOOLEAN] /\ \A j \in Items \ {i} : due'[j] = due[j]
    BY <2>1, KnownToLoop
  <2>3. \A s \in Slots : WorkingAt(s) => task[s].kind = "transfer" \/ Item(s) \in Items \ {i}
    <3> SUFFICES ASSUME NEW s \in Slots, WorkingAt(s), task[s].kind # "transfer", Item(s) = i
                 PROVE  FALSE
      BY Known DEF WorkingAt
    <3>1. /\ task[s] # None /\ task[s].at = "submitted" /\ task[s].kind = "recheck"
          /\ status[i] \in {"unavailable", "excluded"}
      BY Known DEF Inv, Reserved, WorkingAt, Tasks
    <3> QED
      BY <2>1, <3>1 DEF Rechecking, At, Retryable
  <2> QED
    BY <2>1, <2>2, <2>3, KnownToLoop, OutsideStep
<1> QED
  BY <1>1, <1>2 DEF Clock

-----------------------------------------------------------------------------
\* Every step of the run keeps the invariant.
LEMMA NextInv == Inv /\ [Next]_vars => Inv'
<1> SUFFICES ASSUME Inv, [Next]_vars PROVE Inv'
  OBVIOUS
<1>1. CASE MainLoop
  BY <1>1, GateStep, NextPendingStep, ClaimRecheckStep, AdmitStep, AdmitFailsStep,
     CollectStep, LoopGoesOn DEF MainLoop
<1>2. CASE Operator \/ Clock
  BY <1>2, OperatorStep, ClockStep
<1>3. ASSUME NEW s \in Slots, TaskStep(s) PROVE Inv'
  BY <1>3, TakeSlotStep, ActivateStep, StartEngineStep, EngineStoppedStep, RetryLaterStep,
     RequeueFullStep, PromoteStep, CompleteStep, ClearStep, RecheckStep DEF TaskStep
<1>4. ASSUME NEW s \in Slots, EngineEnds(s) \/ LocalFailure(s) PROVE Inv'
  BY <1>4, EngineEndsStep, LocalFailureStep
<1>5. CASE UNCHANGED vars
  <2>1. /\ status' = status /\ attempts' = attempts /\ due' = due
        /\ stop' = stop /\ drain' = drain /\ paused' = paused /\ expired' = expired
    BY <1>5 DEF vars, rows, flags
  <2>2. Unmoved
    BY <1>5 DEF vars, Unmoved
  <2> QED
    BY <2>1, <2>2, KnownToLoop, OutsideStep
<1>6. CASE Ended
  BY <1>5, <1>6 DEF Ended
<1> QED
  BY <1>1, <1>2, <1>3, <1>4, <1>5, <1>6 DEF Next

\* The invariant holds in every run.
THEOREM InvHolds == Spec => []Inv
  BY InitInv, NextInv, PTL DEF Spec

\* The rows, slots, futures and flags have their types; no attempt counter passes
\* --max-attempts.
THEOREM Typed == Spec => []TypeOK
<1>1. Inv => TypeOK
  BY DEF Inv
<1> QED
  BY <1>1, InvHolds, PTL

\* reserve_worker_id() never raises and no two items hold one slot: were every number
\* taken, their holders would be backed by as many threads as there are slots, one of
\* which is the thread that is about to take one.
THEOREM SlotsSuffice == Spec => []SlotFree
<1>1. Inv => SlotFree
  <2> SUFFICES ASSUME Inv PROVE SlotFree
    OBVIOUS
  <2>1. ASSUME NEW s \in Slots, TransferAt(s, "submitted"), FreeIds = {} PROVE FALSE
    <3>1. PICK f \in [Holders -> Slots \ Takers] :
              \A i, j \in Holders : f[i] = f[j] => i = j
      BY DEF Inv, Room
    <3> DEFINE h(n) == CHOOSE i \in Items : ids[i] = n
               g == [n \in Slots |-> f[h(n)]]
    <3>2. \A n \in Slots : h(n) \in Holders /\ ids[h(n)] = n
      BY <2>1 DEF FreeIds, Slots, Holders
    <3>3. s \in Takers /\ s \in Slots
      BY <2>1 DEF Takers
    <3> HIDE DEF h
    <3>4. g \in [Slots -> Slots \ {s}]
      BY <3>2, <3>3
    <3>5. \A m, n \in Slots : g[m] = g[n] => m = n
      BY <3>1, <3>2
    <3>6. IsFiniteSet(Slots) /\ Cardinality(Slots) \in Nat
      BY FS_Interval, FS_CardinalityType, LimitsAssumption DEF Slots
    <3>7. /\ IsFiniteSet(Slots \ {s})
          /\ Cardinality(Slots \ {s}) = Cardinality(Slots) - 1
      BY <3>3, <3>6, FS_RemoveElement
    <3>8. Cardinality(Slots \ {s}) < Cardinality(Slots)
      BY <3>6, <3>7
    <3> HIDE DEF g
    <3> QED
      BY <3>4, <3>5, <3>6, <3>7, <3>8, FS_PigeonHole
  <2>2. \A i, j \in Items : i # j /\ ids[i] # 0 => ids[i] # ids[j]
    BY DEF Inv, Distinct
  <2> QED
    BY <2>1, <2>2 DEF SlotFree
<1> QED
  BY <1>1, InvHolds, PTL

\* No two tasks work on one item, and a row in hand is attended; so a run that ends
\* without an exception has none.
THEOREM OneTask == Spec => []OneTaskPerItem
<1>1. Inv => OneTaskPerItem
  <2> SUFFICES ASSUME Inv PROVE OneTaskPerItem
    OBVIOUS
  <2>1. \A s, t \in Slots :
            s # t /\ task[s] # None /\ task[t] # None
            /\ task[s].at \in Working /\ task[t].at \in Working => Item(s) # Item(t)
    BY DEF Inv, Exclusive, WorkingAt
  <2>2. ASSUME NEW i \in Items, status[i] \in InHand, ~broken
        PROVE  main # "ended" /\ InHandOf(i)
    <3>1. InHandOf(i)
      BY <2>2 DEF Inv, Attended
    <3>2. Futures # {}
      BY <3>1 DEF InHandOf, Futures
    <3> QED
      BY <2>2, <3>1, <3>2 DEF Inv, Loop
  <2> QED
    BY <2>1, <2>2 DEF OneTaskPerItem
<1> QED
  BY <1>1, InvHolds, PTL
==============================================================================
